--------------------------- MODULE CommandService ----------------------------
(***************************************************************************)
(* What the command link promises the operator: calls are performed in the *)
(* order they were made, a call at most once between two resets of the     *)
(* vehicle, and what the operator is told of a call is a verdict it was    *)
(* performed with.                                                         *)
(***************************************************************************)
EXTENDS Integers, Sequences

CONSTANT Verdicts

VARIABLES
    called,      \* how many calls were made; they are numbered from 1
    performed,   \* the calls performed so far, in order, each with its verdict
                 \* and the number of resets before it
    told,        \* the verdicts the operator has seen
    resets       \* resets of the vehicle

vars == <<called, performed, told, resets>>

Init == called = 0 /\ performed = <<>> /\ told = {} /\ resets = 0

Call ==
    /\ called' = called + 1
    /\ UNCHANGED <<performed, told, resets>>

\* A call is due after those made before it, and again if a reset wiped the memory
\* of it and no later call has been performed.
Due(n) ==
    \A i \in 1..Len(performed) :
        \/ performed[i].call < n
        \/ performed[i].call = n /\ performed[i].reset < resets

Perform(n) ==
    /\ Due(n)
    /\ \E v \in Verdicts :
          performed' = Append(performed, [call |-> n, verdict |-> v, reset |-> resets])
    /\ UNCHANGED <<called, told, resets>>

Tell(i) ==
    /\ told' = told \cup {[call |-> performed[i].call, verdict |-> performed[i].verdict]}
    /\ UNCHANGED <<called, performed, resets>>

Reset ==
    /\ resets' = resets + 1
    /\ UNCHANGED <<called, performed, told>>

Next ==
    \/ Call
    \/ \E n \in 1..called : Perform(n)
    \/ \E i \in 1..Len(performed) : Tell(i)
    \/ Reset

Spec == Init /\ [][Next]_vars
==============================================================================
