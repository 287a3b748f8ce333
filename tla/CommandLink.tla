----------------------------- MODULE CommandLink -----------------------------
(***************************************************************************)
(* A ground command from the operator to the executive and its answer      *)
(* back: tools/ground/session.py numbers, retries and matches,             *)
(* tools/uart_monitor.py keeps the link alive,                             *)
(* obc/Src/freertos/uplink_task.cpp queues, and CommandHandler recognises  *)
(* a retransmission.  Both directions lose frames and keep their order.    *)
(*                                                                         *)
(* Time is counted in ticks of RETRY_AFTER_S.  The reader thread comes     *)
(* round many times in a tick, so a tick does not pass over anything due;  *)
(* a frame is short and the control task takes a command every tenth of a  *)
(* second, so a message does not outlive the tick after the one it was     *)
(* sent in.  What a command does is a verdict, chosen when it is handled.  *)
(***************************************************************************)
EXTENDS Integers, Sequences, FiniteSets, SequencesExt

CONSTANTS
    RetryLimit,       \* RETRY_LIMIT
    KeepaliveAfter,   \* KEEPALIVE_S, in ticks
    CommandTimeout,   \* kCommandTimeoutMs and kCommandDedupMs, in ticks
    SeqNumbers,           \* sequence numbers are counted modulo this
    QueueDepth,       \* kQueueDepth
    Verdicts,          \* the answers a command may get
    Patient,          \* whether the operator waits, see MayIssue and MayOpen
    MaxCalls,         \* bound: commands the operator sends
    MaxRestarts       \* bound: sessions opened after the first, and resets of the vehicle

ASSUME LinkAssumption ==
    /\ {RetryLimit, KeepaliveAfter, CommandTimeout, QueueDepth} \subseteq Nat \ {0}
    /\ SeqNumbers \in Nat \ {0, 1}
    /\ "Ok" \in Verdicts /\ "None" \notin Verdicts
    /\ Patient \in BOOLEAN
    /\ MaxCalls \in Nat /\ MaxRestarts \in Nat

VARIABLES
    \* the ground session
    open,          \* a session is running
    seq,           \* GroundSession.seq
    outstanding,   \* GroundSession.outstanding: seq -> call, tries, ticks until due
    quiet,         \* ticks since last_tx, capped at KeepaliveAfter
    \* the links
    air,           \* frames on their way to the vehicle, oldest first
    acks,          \* CommandAck frames on their way to the ground, oldest first
    \* the vehicle
    queue,         \* s_queue
    prev,          \* last_seq_ and the verdict in last_event_
    silence,       \* t_ms - last_command_ms_, one above the timeout at most
    \* what happened
    called,        \* commands sent by the operator; the n-th is call n
    performed,     \* the calls handled and not taken for a repeat, each with its verdict
                   \* and the resets before it
    told,          \* the verdicts that reached the operator
    missed,        \* command frames lost since one was handled, at most Held
    reopened,      \* sessions opened after the first
    resets         \* resets of the vehicle

groundVars  == <<open, seq, outstanding, quiet, called, told, reopened>>
vehicleVars == <<queue, prev, silence, performed, resets>>
vars        == <<groundVars, vehicleVars, air, acks, missed>>

Handler == INSTANCE CommandHandler WITH
    Fault <- {}, Severity <- <<>>, Debounce <- <<>>, Inhibited <- {}, Uplink <- {}

\* uart_monitor.py:44: two keepalives may be lost in a row, so three are what a
\* silent vehicle has missed.  The time before a session opened counts as that many.
Held == 3

\* The times as they are set: two keepalives fit between the first and the command that
\* arrives in time (three of 1.3 s and a tick in 5 s); a call is retried more than twice
\* (four times) and given up inside the timeout, before a link that is busy falls quiet
\* (KEEPALIVE_S is more than RETRY_AFTER_S); and the 16-bit numbers do not come round
\* within it.
ASSUME LinkTimes ==
    /\ Held * KeepaliveAfter < CommandTimeout
    /\ KeepaliveAfter > 1
    /\ RetryLimit > 2 /\ RetryLimit <= CommandTimeout
    /\ SeqNumbers > CommandTimeout + 2

\* Call 0 is the keepalive.
Command(s, n) == [kind |-> "Command", seq |-> s, call |-> n, old |-> FALSE]
ChunkRequest == [kind |-> "ChunkRequest", seq |-> 0, call |-> 0, old |-> FALSE]
Ack(s, v) == [seq |-> s, verdict |-> v, old |-> FALSE]

NextSeq == (seq + 1) % SeqNumbers

Missed == IF missed < Held THEN missed + 1 ELSE Held

PowerOn ==
    /\ queue = <<>>
    /\ prev = [seq |-> 0, verdict |-> "None"]
    /\ silence = 0

Init ==
    /\ PowerOn
    /\ open = TRUE /\ reopened = 0
    /\ seq = 0 /\ outstanding = <<>> /\ quiet = KeepaliveAfter
    /\ air = <<>> /\ acks = <<>>
    /\ called = 0 /\ performed = <<>> /\ told = {}
    /\ missed = 0 /\ resets = 0

------------------------------------------------------------------------------
(* The ground.                                                             *)

\* Nothing in the session makes an operator or a macro wait for an answer.
MayIssue == Patient => outstanding = <<>>

\* A command frame goes out and is heard or lost.
Transmit(m, heard) ==
    /\ air' = IF heard THEN Append(air, m) ELSE air
    /\ missed' = IF heard THEN missed ELSE Missed
    /\ quiet' = 0

\* GroundSession.command and _mission_send.
Issue(heard) ==
    /\ open /\ called < MaxCalls
    /\ MayIssue
    /\ called' = called + 1
    /\ seq' = NextSeq
    /\ outstanding' = [s \in DOMAIN outstanding \cup {NextSeq} |->
                         IF s = NextSeq THEN [call |-> called + 1, tries |-> 1, due |-> 1]
                         ELSE outstanding[s]]
    /\ Transmit(Command(NextSeq, called + 1), heard)
    /\ UNCHANGED <<open, told, reopened, vehicleVars, acks>>

Overdue(s) == open /\ s \in DOMAIN outstanding /\ outstanding[s].due = 0

\* tick: what is overdue is sent again ...
Retry(s, heard) ==
    /\ Overdue(s) /\ outstanding[s].tries < RetryLimit
    /\ outstanding' = [outstanding EXCEPT ![s].tries = @ + 1, ![s].due = 1]
    /\ Transmit(Command(s, outstanding[s].call), heard)
    /\ UNCHANGED <<open, seq, called, told, reopened, vehicleVars, acks>>

\* ... or given up.
GiveUp(s) ==
    /\ Overdue(s) /\ outstanding[s].tries >= RetryLimit
    /\ outstanding' = [t \in DOMAIN outstanding \ {s} |-> outstanding[t]]
    /\ UNCHANGED <<open, seq, quiet, called, told, reopened, vehicleVars, air, acks, missed>>

KeepaliveDue == open /\ quiet = KeepaliveAfter

\* reader: a NOOP of its own number, never retried.
Keepalive(heard) ==
    /\ KeepaliveDue
    /\ seq' = NextSeq
    /\ Transmit(Command(NextSeq, 0), heard)
    /\ UNCHANGED <<open, outstanding, called, told, reopened, vehicleVars, acks>>

\* Mutant: any uplink frame counts as a busy link.
RequestHoldsLink ==
    /\ open
    /\ \A i \in DOMAIN air : air[i].kind = "Command"
    /\ air' = Append(air, ChunkRequest)
    /\ quiet' = 0
    /\ UNCHANGED <<open, seq, outstanding, called, told, reopened, vehicleVars, acks, missed>>

\* _request_chunks, at most one on the air; deliver counts only commands.
Request ==
    /\ open
    /\ \A i \in DOMAIN air : air[i].kind = "Command"
    /\ air' = Append(air, ChunkRequest)
    /\ UNCHANGED <<groundVars, vehicleVars, acks, missed>>

\* _handle_frame: an answer settles what is outstanding under its number.
HearAck ==
    /\ open /\ acks # <<>>
    /\ LET a == Head(acks)
       IN /\ outstanding' = [t \in DOMAIN outstanding \ {a.seq} |-> outstanding[t]]
          /\ told' = told \cup {[call |-> outstanding[s].call, verdict |-> a.verdict] :
                                 s \in DOMAIN outstanding \cap {a.seq}}
    /\ acks' = Tail(acks)
    /\ UNCHANGED <<open, seq, quiet, called, reopened, vehicleVars, air, missed>>

\* The console ends, but for the last one; what it counted and what is outstanding go
\* with it, and so does every answer still on its way.
Close ==
    /\ open /\ reopened + resets < MaxRestarts
    /\ Patient => outstanding = <<>>
    /\ open' = FALSE
    /\ seq' = 0 /\ outstanding' = <<>> /\ quiet' = KeepaliveAfter
    /\ acks' = <<>>
    /\ UNCHANGED <<called, told, reopened, vehicleVars, air, missed>>

\* A new session counts from 0 again; the patient operator opens it once nothing
\* of the one before is on its way and the vehicle has forgotten its last number.
MayOpen == Patient => silence > CommandTimeout /\ air = <<>> /\ queue = <<>>

Open ==
    /\ ~open /\ reopened + resets < MaxRestarts
    /\ MayOpen
    /\ open' = TRUE
    /\ reopened' = reopened + 1
    /\ missed' = Held
    /\ UNCHANGED <<seq, outstanding, quiet, called, told, vehicleVars, air, acks>>

------------------------------------------------------------------------------
(* The vehicle.                                                            *)

\* Mutant: a full queue is pushed further.
RouteUnbounded ==
    /\ air # <<>>
    /\ air' = Tail(air)
    /\ LET m == Head(air)
       IN queue' = IF m.kind = "Command" THEN Append(queue, m) ELSE queue
    /\ UNCHANGED <<groundVars, prev, silence, performed, resets, acks, missed>>

\* route: commands into the queue while it has room, the rest elsewhere.
Route ==
    /\ air # <<>>
    /\ air' = Tail(air)
    /\ LET m == Head(air)
           fits == Len(queue) < QueueDepth
       IN /\ queue' = IF m.kind = "Command" /\ fits THEN Append(queue, m) ELSE queue
          /\ missed' = IF m.kind = "Command" /\ ~fits THEN Missed ELSE missed
    /\ UNCHANGED <<groundVars, prev, silence, performed, resets, acks>>

\* The answer is on its way, or was lost or dropped by a full beacon queue.
Reply(s, v, heard) ==
    acks' = IF heard /\ open THEN Append(acks, Ack(s, v)) ELSE acks

\* uplink_task_take and CommandHandler::handle, in one control cycle: a repeat of
\* the last number is answered as before.
HandleRepeat(heard) ==
    /\ queue # <<>>
    /\ Handler!IsDuplicate(Head(queue), prev, silence)
    /\ Reply(prev.seq, prev.verdict, heard)
    /\ queue' = Tail(queue)
    /\ silence' = 0 /\ missed' = 0
    /\ UNCHANGED <<groundVars, prev, performed, resets, air>>

\* Anything else is performed; the keepalive is legal everywhere and does nothing.
HandleNew(v, heard) ==
    /\ queue # <<>>
    /\ LET m == Head(queue)
       IN /\ ~Handler!IsDuplicate(m, prev, silence)
          /\ m.call = 0 => v = "Ok"
          /\ prev' = [seq |-> m.seq, verdict |-> v]
          /\ performed' = IF m.call = 0 THEN performed
                          ELSE Append(performed, [call |-> m.call, verdict |-> v, reset |-> resets])
          /\ Reply(m.seq, v, heard)
    /\ queue' = Tail(queue)
    /\ silence' = 0 /\ missed' = 0
    /\ UNCHANGED <<groundVars, resets, air>>

\* The vehicle restarts at any moment, between a command and its retry too, and
\* knows of no command before.
Reset ==
    /\ reopened + resets < MaxRestarts
    /\ resets' = resets + 1
    /\ queue' = <<>>
    /\ prev' = [seq |-> 0, verdict |-> "None"]
    /\ silence' = 0 /\ missed' = 0
    /\ UNCHANGED <<groundVars, performed, air, acks>>

------------------------------------------------------------------------------

\* No message is older than the tick it was sent in.
Fresh(s) == \A i \in DOMAIN s : ~s[i].old

Older(s) == [i \in DOMAIN s |-> [s[i] EXCEPT !.old = TRUE]]

Tick ==
    /\ Fresh(air) /\ Fresh(queue) /\ Fresh(acks)
    /\ ~KeepaliveDue
    /\ \A s \in DOMAIN outstanding : ~Overdue(s)
    /\ air' = Older(air) /\ queue' = Older(queue) /\ acks' = Older(acks)
    /\ outstanding' = [s \in DOMAIN outstanding |-> [outstanding[s] EXCEPT !.due = @ - 1]]
    /\ quiet' = IF open THEN quiet + 1 ELSE quiet
    /\ silence' = Handler!Aged(silence, 1)
    /\ UNCHANGED <<open, seq, called, told, reopened, prev, performed, resets, missed>>

Next ==
    \/ \E heard \in BOOLEAN : Issue(heard)
    \/ \E s \in DOMAIN outstanding, heard \in BOOLEAN : Retry(s, heard)
    \/ \E s \in DOMAIN outstanding : GiveUp(s)
    \/ \E heard \in BOOLEAN : Keepalive(heard)
    \/ Request \/ HearAck \/ Close \/ Open
    \/ Route
    \/ \E heard \in BOOLEAN : HandleRepeat(heard)
    \/ \E v \in Verdicts, heard \in BOOLEAN : HandleNew(v, heard)
    \/ Reset
    \/ Tick

Spec == Init /\ [][Next]_vars
------------------------------------------------------------------------------
(* Properties.                                                             *)

\* The variables hold what the code's types allow, and the queue its limit.
LinkTypeOK ==
    /\ open \in BOOLEAN /\ seq \in 0..(SeqNumbers - 1)
    /\ DOMAIN outstanding \subseteq 0..(SeqNumbers - 1)
    /\ \A s \in DOMAIN outstanding :
         outstanding[s] \in [call : 1..called, tries : 1..RetryLimit, due : 0..1]
    /\ quiet \in 0..KeepaliveAfter
    /\ Len(queue) <= QueueDepth
    /\ prev \in [seq : 0..(SeqNumbers - 1), verdict : Verdicts \cup {"None"}]
    /\ silence \in 0..(CommandTimeout + 1)
    /\ missed \in 0..Held

Service == INSTANCE CommandService

\* An operator who has one command out at a time, and opens a session only once the
\* vehicle has forgotten the last one's number, gets the service of CommandService:
\* through lost commands, lost answers, retries, keepalives in between, a full queue
\* and sequence numbers that start again, commands act in order, a command acts again
\* only if the vehicle was reset since it last did, and the verdict the operator sees is one
\* his command was given.  A reset between a command and its retry does run it twice.
CallsRefined == Service!Spec

\* A running console holds the link: the vehicle does not reach its timeout unless
\* three command frames in a row were lost, whatever else uses the uplink and however
\* full the queue is.
LinkHeld ==
    /\ LinkTypeOK
    /\ open /\ silence > CommandTimeout => missed = Held
==============================================================================
