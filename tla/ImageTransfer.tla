--------------------------- MODULE ImageTransfer -----------------------------
(***************************************************************************)
(* What the payload downlink promises the ground, whatever is lost or      *)
(* asked for again on the way: what is saved is a picture that was taken,  *)
(* every part of it and no part of another, and it is saved once.          *)
(***************************************************************************)
EXTENDS Integers, Sequences

CONSTANT Sizes   \* how many parts a picture may have

VARIABLES
    taken,     \* the pictures taken so far
    gallery    \* the saved ones, in the order they were saved: the parts of each

vars == <<taken, gallery>>

\* Picture f in n parts.
Picture(f, n) == [p \in 0..(n - 1) |-> [frame |-> f, pos |-> p, of |-> n]]

Init == taken = {} /\ gallery = <<>>

Take ==
    /\ \E f \in taken' \ taken : taken' = taken \cup {f}
    /\ UNCHANGED gallery

Save(f) ==
    /\ f \in taken
    /\ \A i \in 1..Len(gallery), n \in Sizes : gallery[i] # Picture(f, n)
    /\ \E n \in Sizes : gallery' = Append(gallery, Picture(f, n))
    /\ UNCHANGED taken

Next ==
    \/ Take
    \/ \E f \in taken : Save(f)

Spec == Init /\ [][Next]_vars
==============================================================================
