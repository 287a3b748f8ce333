-------------------------- MODULE CommandLinkProofs --------------------------
(***************************************************************************)
(* Theorems about CommandLink for any number of calls, sessions, losses    *)
(* and resets: a running console holds the link.                           *)
(***************************************************************************)
EXTENDS CommandLink, SequenceTheorems, TLAPS

Number == 0..(SeqNumbers - 1)
Message == [kind : {"Command", "ChunkRequest"}, seq : Number, call : Nat, old : BOOLEAN]
Answered == [seq : Number, verdict : Verdicts, old : BOOLEAN]

\* What the variables hold; a console that is closed keeps nothing.
Typed ==
    /\ open \in BOOLEAN /\ seq \in Number /\ called \in Nat
    /\ DOMAIN outstanding \subseteq Number
    /\ \A s \in DOMAIN outstanding :
         outstanding[s] \in [call : 1..called, tries : 1..RetryLimit, due : 0..1]
    /\ quiet \in 0..KeepaliveAfter
    /\ air \in Seq(Message) /\ queue \in Seq(Message) /\ acks \in Seq(Answered)
    /\ \A i \in DOMAIN queue : queue[i].kind = "Command"
    /\ Len(queue) <= QueueDepth
    /\ prev \in [seq : Number, verdict : Verdicts \cup {"None"}]
    /\ silence \in 0..(CommandTimeout + 1)
    /\ missed \in 0..Held
    /\ open = FALSE => DOMAIN outstanding = {} /\ acks = <<>>

------------------------------------------------------------------------------
(* The operators of the model.                                             *)

\* The constants one by one.
LEMMA LinkConstants ==
    /\ RetryLimit \in Nat /\ RetryLimit > 2 /\ RetryLimit <= CommandTimeout
    /\ KeepaliveAfter \in Nat /\ KeepaliveAfter > 1
    /\ CommandTimeout \in Nat /\ 3 * KeepaliveAfter < CommandTimeout
    /\ SeqNumbers \in Nat /\ SeqNumbers > CommandTimeout + 2
    /\ QueueDepth \in Nat \ {0}
    /\ Patient \in BOOLEAN /\ "Ok" \in Verdicts /\ "None" \notin Verdicts
<1>1. {RetryLimit, KeepaliveAfter, CommandTimeout, QueueDepth} \subseteq Nat \ {0}
  BY LinkAssumption
<1> QED
  BY <1>1, LinkAssumption, LinkTimes DEF Held

\* The next number.
LEMMA NextNumber ==
    ASSUME seq \in Number
    PROVE  NextSeq \in Number /\ NextSeq = IF seq = SeqNumbers - 1 THEN 0 ELSE seq + 1
BY LinkConstants DEF NextSeq, Number

\* A tick makes every message older and changes nothing else of it.
LEMMA OlderSeq ==
    ASSUME NEW M, NEW s \in Seq(M), \A m \in M : [m EXCEPT !.old = TRUE] \in M
    PROVE  /\ Older(s) \in Seq(M) /\ Len(Older(s)) = Len(s) /\ DOMAIN Older(s) = DOMAIN s
           /\ \A i \in DOMAIN s : Older(s)[i] = [s[i] EXCEPT !.old = TRUE]
<1>1. Len(s) \in Nat /\ DOMAIN s = 1..Len(s) /\ \A i \in 1..Len(s) : s[i] \in M
  BY LenProperties, ElementOfSeq
<1>2. Older(s) = [i \in 1..Len(s) |-> [s[i] EXCEPT !.old = TRUE]]
  BY <1>1 DEF Older
<1>3. Older(s) \in [1..Len(s) -> M]
  BY <1>1, <1>2
<1>4. Older(s) \in Seq(M)
  BY <1>1, <1>3, SeqDef
<1> QED
  BY <1>1, <1>2, <1>4, LenProperties

\* The messages that are made.
LEMMA MessagesMade ==
    /\ \A s \in Number, n \in Nat : Command(s, n) \in Message
    /\ ChunkRequest \in Message
    /\ \A m \in Message : [m EXCEPT !.old = TRUE] \in Message
    /\ \A a \in Answered : [a EXCEPT !.old = TRUE] \in Answered
<1>1. ASSUME NEW s \in Number, NEW n \in Nat PROVE Command(s, n) \in Message
  BY DEF Command, Message
<1>2. ChunkRequest \in Message
  BY LinkConstants DEF ChunkRequest, Message, Number
<1>3. ASSUME NEW m \in Message PROVE [m EXCEPT !.old = TRUE] \in Message
  BY DEF Message
<1>4. ASSUME NEW a \in Answered PROVE [a EXCEPT !.old = TRUE] \in Answered
  BY DEF Answered
<1> QED
  BY <1>1, <1>2, <1>3, <1>4

\* What a tick leaves of a message.
LEMMA OlderMessage ==
    ASSUME NEW s \in Seq(Message), NEW i \in DOMAIN s
    PROVE  /\ s[i] \in Message
           /\ Older(s)[i].old = TRUE /\ Older(s)[i].kind = s[i].kind
           /\ Older(s)[i].seq = s[i].seq /\ Older(s)[i].call = s[i].call
<1> DEFINE m == s[i]
<1>1. m \in Message
  OBVIOUS
<1>2. Older(s)[i] = [m EXCEPT !.old = TRUE]
  BY OlderSeq, MessagesMade
<1> HIDE DEF m
<1>3. [m EXCEPT !.old = TRUE].old = TRUE /\ [m EXCEPT !.old = TRUE].kind = m.kind
      /\ [m EXCEPT !.old = TRUE].seq = m.seq /\ [m EXCEPT !.old = TRUE].call = m.call
  BY <1>1 DEF Message
<1> QED
  BY <1>1, <1>2, <1>3 DEF m

------------------------------------------------------------------------------
(* What the variables hold.                                                *)

\* The link starts in order.
LEMMA LinkStart == Init => Typed
BY LinkConstants DEF Init, PowerOn, Typed, Number, Held

\* A frame that goes out.
LEMMA TransmitTyped ==
    ASSUME Typed, NEW m \in Message, NEW heard \in BOOLEAN, Transmit(m, heard)
    PROVE  air' \in Seq(Message) /\ quiet' \in 0..KeepaliveAfter /\ missed' \in 0..Held
<1>1. air' \in Seq(Message)
  BY DEF Transmit, Typed
<1>2. quiet' \in 0..KeepaliveAfter /\ missed' \in 0..Held
  BY LinkConstants DEF Transmit, Missed, Typed, Held
<1> QED
  BY <1>1, <1>2

\* An answer that goes out.
LEMMA ReplyTyped ==
    ASSUME Typed, NEW s \in Number, NEW v \in Verdicts, NEW heard \in BOOLEAN, Reply(s, v, heard), open' = open
    PROVE  acks' \in Seq(Answered) /\ (open' = FALSE => acks' = <<>>)
<1>1. Ack(s, v) \in Answered
  BY DEF Ack, Answered
<1> QED
  BY <1>1 DEF Reply, Typed

\* Every step keeps the types.
LEMMA TypedStep == Typed /\ [Next]_vars => Typed'
<1> SUFFICES ASSUME Typed, [Next]_vars PROVE Typed'
  OBVIOUS
<1>c. /\ open \in BOOLEAN /\ seq \in Number /\ called \in Nat
      /\ quiet \in 0..KeepaliveAfter /\ silence \in 0..(CommandTimeout + 1) /\ missed \in 0..Held
      /\ air \in Seq(Message) /\ queue \in Seq(Message) /\ acks \in Seq(Answered)
  BY DEF Typed
<1>1. ASSUME NEW heard \in BOOLEAN, Issue(heard) PROVE Typed'
  <2>1. NextSeq \in Number
    BY <1>c, NextNumber
  <2>2. Command(NextSeq, called + 1) \in Message
    BY <1>c, <2>1, MessagesMade
  <2>3. air' \in Seq(Message) /\ quiet' \in 0..KeepaliveAfter /\ missed' \in 0..Held
    BY <1>1, <2>2, TransmitTyped DEF Issue
  <2> DEFINE e == [call |-> called + 1, tries |-> 1, due |-> 1]
  <2>4. /\ outstanding' = [s \in DOMAIN outstanding \cup {NextSeq} |-> IF s = NextSeq THEN e ELSE outstanding[s]]
        /\ called' = called + 1 /\ seq' = NextSeq
    BY <1>1 DEF Issue
  <2>5. DOMAIN outstanding' \subseteq Number
    BY <2>1, <2>4 DEF Typed
  <2>6. e \in [call : 1..called', tries : 1..RetryLimit, due : 0..1]
    BY <1>c, <2>4, LinkConstants
  <2>7. ASSUME NEW s \in DOMAIN outstanding'
        PROVE  outstanding'[s] \in [call : 1..called', tries : 1..RetryLimit, due : 0..1]
    <3> HIDE DEF e
    <3>1. CASE s = NextSeq
      BY <2>4, <2>6, <2>7, <3>1
    <3>2. CASE s # NextSeq
      <4>1. s \in DOMAIN outstanding /\ outstanding'[s] = outstanding[s]
        BY <2>4, <2>7, <3>2
      <4>2. outstanding[s] \in [call : 1..called, tries : 1..RetryLimit, due : 0..1]
        BY <4>1 DEF Typed
      <4>3. 1..called \subseteq 1..called'
        BY <1>c, <2>4
      <4> QED
        BY <4>1, <4>2, <4>3
    <3> QED
      BY <3>1, <3>2
  <2> QED
    <3>1. /\ open = TRUE /\ UNCHANGED <<open, queue, acks, prev, silence>>
      BY <1>1, <1>c DEF Issue, vehicleVars
    <3>2. seq' \in Number /\ called' \in Nat
      BY <1>c, <2>1, <2>4
    <3>3. /\ open' = TRUE /\ queue' = queue /\ acks' = acks /\ prev' = prev /\ silence' = silence
      BY <3>1
    <3> HIDE DEF e
    <3> QED
      BY <2>3, <2>5, <2>7, <3>2, <3>3 DEF Typed
<1>2. ASSUME NEW s \in DOMAIN outstanding, NEW heard \in BOOLEAN, Retry(s, heard) PROVE Typed'
  <2>1. outstanding[s] \in [call : 1..called, tries : 1..RetryLimit, due : 0..1] /\ s \in Number
    BY DEF Typed
  <2>2. Command(s, outstanding[s].call) \in Message
    BY <1>c, <2>1, MessagesMade
  <2>3. air' \in Seq(Message) /\ quiet' \in 0..KeepaliveAfter /\ missed' \in 0..Held
    BY <1>2, <2>2, TransmitTyped DEF Retry
  <2>4. /\ outstanding' = [outstanding EXCEPT ![s] = [outstanding[s] EXCEPT !.tries = @ + 1, !.due = 1]]
        /\ outstanding[s].tries < RetryLimit
    BY <1>2 DEF Retry
  <2>5. [outstanding[s] EXCEPT !.tries = @ + 1, !.due = 1] \in [call : 1..called, tries : 1..RetryLimit, due : 0..1]
    <3> DEFINE e == outstanding[s]
               n == e.tries + 1
               C == 1..called
               R == 1..RetryLimit
               D == 0..1
    <3>1. n \in R /\ 1 \in D
      BY <2>1, <2>4, LinkConstants
    <3>2. e \in [call : C, tries : R, due : D]
      BY <2>1
    <3> HIDE DEF e, n, C, R, D
    <3>3. [e EXCEPT !.tries = n, !.due = 1] \in [call : C, tries : R, due : D]
      BY <3>1, <3>2
    <3> QED
      BY <3>3 DEF e, n, C, R, D
  <2>6. /\ DOMAIN outstanding' = DOMAIN outstanding
        /\ \A t \in DOMAIN outstanding' : outstanding'[t] \in [call : 1..called, tries : 1..RetryLimit, due : 0..1]
    BY <2>4, <2>5 DEF Typed
  <2> QED
    BY <1>2, <2>3, <2>6 DEF Typed, Retry, vehicleVars, Overdue
<1>3. ASSUME NEW s \in DOMAIN outstanding, GiveUp(s) PROVE Typed'
  BY <1>3 DEF Typed, GiveUp, vehicleVars, Overdue
<1>4. ASSUME NEW heard \in BOOLEAN, Keepalive(heard) PROVE Typed'
  <2>1. NextSeq \in Number
    BY <1>c, NextNumber
  <2>2. Command(NextSeq, 0) \in Message
    BY <2>1, MessagesMade
  <2>3. air' \in Seq(Message) /\ quiet' \in 0..KeepaliveAfter /\ missed' \in 0..Held
    BY <1>4, <2>2, TransmitTyped DEF Keepalive
  <2> QED
    BY <1>4, <2>1, <2>3 DEF Typed, Keepalive, vehicleVars
<1>5. CASE Request
  <2>1. air' \in Seq(Message)
    BY <1>c, <1>5, MessagesMade DEF Request
  <2> QED
    BY <1>5, <2>1 DEF Typed, Request, groundVars, vehicleVars
<1>6. CASE HearAck
  <2>1. acks' \in Seq(Answered) /\ open = TRUE
    BY <1>c, <1>6 DEF HearAck
  <2>2. /\ DOMAIN outstanding' \subseteq DOMAIN outstanding
        /\ \A t \in DOMAIN outstanding' : outstanding'[t] = outstanding[t]
    BY <1>6 DEF HearAck
  <2> QED
    BY <1>6, <2>1, <2>2 DEF Typed, HearAck, vehicleVars
<1>7. CASE Close
  <2>1. DOMAIN outstanding' = {} /\ acks' = <<>> /\ <<>> \in Seq(Answered) /\ open' = FALSE
    BY <1>7 DEF Close
  <2>2. seq' \in Number /\ quiet' \in 0..KeepaliveAfter
    BY <1>7, LinkConstants DEF Close, Number
  <2> QED
    BY <1>7, <2>1, <2>2 DEF Typed, Close, vehicleVars
<1>8. CASE Open
  BY <1>8, LinkConstants DEF Typed, Open, vehicleVars, Number, Held
<1>9. CASE Route
  <2>1. /\ Head(air) \in Message /\ air' \in Seq(Message)
    BY <1>c, <1>9, HeadTailProperties DEF Route
  <2>2. missed' \in 0..Held
    BY <1>c, <1>9 DEF Route, Missed, Held
  <2>3. CASE Head(air).kind = "Command" /\ Len(queue) < QueueDepth
    <3>1. queue' = Append(queue, Head(air)) /\ queue' \in Seq(Message)
      BY <1>c, <1>9, <2>1, <2>3 DEF Route
    <3>2. Len(queue) \in Nat /\ Len(queue') = Len(queue) + 1 /\ DOMAIN queue' = 1..(Len(queue) + 1)
          /\ DOMAIN queue = 1..Len(queue)
      BY <1>c, <3>1
    <3>3. ASSUME NEW i \in DOMAIN queue' PROVE queue'[i].kind = "Command"
      BY <1>c, <2>3, <3>1, <3>2, <3>3 DEF Typed
    <3> QED
      BY <1>9, <2>1, <2>2, <2>3, <3>1, <3>2, <3>3, LinkConstants DEF Typed, Route, groundVars
  <2>4. CASE ~(Head(air).kind = "Command" /\ Len(queue) < QueueDepth)
    <3>1. queue' = queue
      BY <1>9, <2>4 DEF Route
    <3> QED
      BY <1>9, <2>1, <2>2, <3>1 DEF Typed, Route, groundVars
  <2> QED
    BY <2>3, <2>4
<1>10. ASSUME queue # <<>>, queue' = Tail(queue)
       PROVE  /\ Head(queue) \in Message /\ Head(queue).kind = "Command"
              /\ queue' \in Seq(Message) /\ Len(queue') <= QueueDepth
              /\ \A i \in DOMAIN queue' : queue'[i].kind = "Command"
  <2>1. /\ Head(queue) \in Message /\ queue' \in Seq(Message) /\ Len(queue') = Len(queue) - 1
        /\ \A i \in 1..Len(queue') : queue'[i] = queue[i + 1]
    BY <1>c, <1>10, HeadTailProperties
  <2>2. Len(queue) \in Nat \ {0} /\ DOMAIN queue = 1..Len(queue) /\ DOMAIN queue' = 1..Len(queue')
    BY <1>c, <1>10, <2>1, EmptySeq, LenProperties
  <2>3. Head(queue) = queue[1] /\ 1 \in DOMAIN queue
    BY <2>2
  <2>4. Head(queue).kind = "Command" /\ Len(queue') <= QueueDepth
    <3>1. Head(queue).kind = "Command" /\ Len(queue) <= QueueDepth
      BY <2>3 DEF Typed
    <3> QED
      BY <2>1, <2>2, <3>1, LinkConstants
  <2>5. ASSUME NEW i \in DOMAIN queue' PROVE queue'[i].kind = "Command"
    <3>1. i + 1 \in DOMAIN queue /\ queue'[i] = queue[i + 1]
      BY <2>1, <2>2, <2>5
    <3> QED
      BY <3>1 DEF Typed
  <2> QED
    BY <2>1, <2>4, <2>5
<1>11. ASSUME NEW heard \in BOOLEAN, HandleRepeat(heard) PROVE Typed'
  <2>1. prev.seq \in Number /\ prev.verdict \in Verdicts /\ open' = open
    BY <1>11 DEF HandleRepeat, Handler!IsDuplicate, Typed, groundVars
  <2>2. acks' \in Seq(Answered) /\ (open' = FALSE => acks' = <<>>)
    BY <1>11, <2>1, ReplyTyped DEF HandleRepeat
  <2> QED
    BY <1>10, <1>11, <2>2, LinkConstants DEF Typed, HandleRepeat, groundVars, Held
<1>12. ASSUME NEW v \in Verdicts, NEW heard \in BOOLEAN, HandleNew(v, heard) PROVE Typed'
  <2>1. Head(queue).seq \in Number /\ open' = open
    BY <1>10, <1>12 DEF HandleNew, Message, groundVars
  <2>2. acks' \in Seq(Answered) /\ (open' = FALSE => acks' = <<>>)
    BY <1>12, <2>1, ReplyTyped DEF HandleNew
  <2>3. prev' \in [seq : Number, verdict : Verdicts \cup {"None"}]
    BY <1>12, <2>1 DEF HandleNew
  <2> QED
    BY <1>10, <1>12, <2>2, <2>3, LinkConstants DEF Typed, HandleNew, groundVars, Held
<1>13. CASE Reset
  <2>1. queue' = <<>> /\ <<>> \in Seq(Message) /\ Len(<<>>) = 0 /\ DOMAIN <<>> = {}
    BY <1>13 DEF Reset
  <2> QED
    BY <1>13, <2>1, LinkConstants DEF Typed, Reset, groundVars, Number, Held
<1>14. CASE Tick
  <2>1. /\ air' \in Seq(Message) /\ queue' \in Seq(Message) /\ acks' \in Seq(Answered)
        /\ Len(queue') = Len(queue) /\ DOMAIN queue' = DOMAIN queue
        /\ \A i \in DOMAIN queue : queue'[i] = [queue[i] EXCEPT !.old = TRUE]
        /\ acks = <<>> => acks' = <<>>
    <3>1. air' = Older(air) /\ queue' = Older(queue) /\ acks' = Older(acks)
      BY <1>14 DEF Tick
    <3>2. air' \in Seq(Message) /\ queue' \in Seq(Message) /\ acks' \in Seq(Answered)
      BY <1>c, <3>1, OlderSeq, MessagesMade
    <3>3. Len(queue') = Len(queue) /\ DOMAIN queue' = DOMAIN queue /\ Len(acks') = Len(acks)
          /\ \A i \in DOMAIN queue : queue'[i] = [queue[i] EXCEPT !.old = TRUE]
      BY <1>c, <3>1, OlderSeq, MessagesMade
    <3>4. acks = <<>> => acks' = <<>>
      BY <1>c, <3>2, <3>3, EmptySeq
    <3> QED
      BY <3>2, <3>3, <3>4
  <2>2. ASSUME NEW i \in DOMAIN queue' PROVE queue'[i].kind = "Command"
    <3>1. queue[i] \in Message /\ queue[i].kind = "Command"
      BY <1>c, <2>1, <2>2 DEF Typed
    <3> QED
      BY <2>1, <2>2, <3>1 DEF Message
  <2>3. ASSUME NEW s \in DOMAIN outstanding'
        PROVE  outstanding'[s] \in [call : 1..called, tries : 1..RetryLimit, due : 0..1]
    <3>1. /\ s \in DOMAIN outstanding /\ outstanding'[s] = [outstanding[s] EXCEPT !.due = @ - 1]
      BY <1>14, <2>3 DEF Tick
    <3>2. outstanding[s] \in [call : 1..called, tries : 1..RetryLimit, due : 0..1] /\ open = TRUE
      BY <3>1 DEF Typed
    <3>3. outstanding[s].due # 0
      BY <1>14, <3>1, <3>2 DEF Tick, Overdue
    <3>4. outstanding[s].due - 1 \in 0..1
      BY <3>2, <3>3
    <3> QED
      BY <3>1, <3>2, <3>4
  <2>4. silence' \in 0..(CommandTimeout + 1)
    <3>1. silence' = Handler!Aged(silence, 1)
      BY <1>14 DEF Tick
    <3>2. Handler!Aged(silence, 1) = IF silence + 1 > CommandTimeout THEN CommandTimeout + 1 ELSE silence + 1
      BY DEF Handler!Aged
    <3> QED
      BY <1>c, <3>1, <3>2, LinkConstants
  <2>5. quiet' \in 0..KeepaliveAfter
    BY <1>c, <1>14, LinkConstants DEF Tick, KeepaliveDue
  <2>6. DOMAIN outstanding' = DOMAIN outstanding
    BY <1>14 DEF Tick
  <2> QED
    BY <1>14, <2>1, <2>2, <2>3, <2>4, <2>5, <2>6 DEF Typed, Tick
<1>15. CASE UNCHANGED vars
  BY <1>15 DEF vars, groundVars, vehicleVars, Typed
<1> QED
  BY <1>1, <1>2, <1>3, <1>4, <1>5, <1>6, <1>7, <1>8, <1>9, <1>11, <1>12, <1>13, <1>14, <1>15 DEF Next

------------------------------------------------------------------------------
(* The console that runs.                                                  *)

\* A command is on its way; one of them has been since the last tick.
Pending == queue # <<>> \/ \E i \in DOMAIN air : air[i].kind = "Command"
Stale == \/ \E i \in DOMAIN queue : queue[i].old = TRUE
         \/ \E i \in DOMAIN air : air[i].kind = "Command" /\ air[i].old = TRUE

\* The silence is the keepalives that were lost and the time since the last frame; while a
\* frame is on its way, that of a keepalive more, and the tick in which it is handled.
Holding ==
    open = TRUE /\ missed < Held =>
        /\ ~Pending => silence <= missed * KeepaliveAfter + quiet
        /\ ~Stale => silence <= missed * KeepaliveAfter + KeepaliveAfter
        /\ silence <= missed * KeepaliveAfter + KeepaliveAfter + 1

\* A command that goes out, heard or lost.
LEMMA HoldingSend ==
    ASSUME Typed, Holding, NEW m \in Message, m.kind = "Command", m.old = FALSE, NEW heard \in BOOLEAN,
           Transmit(m, heard), UNCHANGED <<open, queue, silence>>
    PROVE  Holding'
<1> SUFFICES ASSUME open' = TRUE, missed' < Held
             PROVE  /\ ~Pending' => silence' <= missed' * KeepaliveAfter + quiet'
                    /\ ~Stale' => silence' <= missed' * KeepaliveAfter + KeepaliveAfter
                    /\ silence' <= missed' * KeepaliveAfter + KeepaliveAfter + 1
  BY DEF Holding
<1>c. /\ KeepaliveAfter \in Nat /\ quiet \in 0..KeepaliveAfter /\ missed \in 0..3 /\ silence \in Nat
      /\ air \in Seq(Message) /\ open = TRUE
  BY LinkConstants DEF Typed, Held
<1>1. quiet' = 0 /\ silence' = silence /\ queue' = queue
  BY DEF Transmit
<1>2. CASE heard = TRUE
  <2>1. air' = Append(air, m) /\ missed' = missed
    BY <1>2 DEF Transmit
  <2>2. /\ Len(air) \in Nat /\ DOMAIN air' = 1..(Len(air) + 1) /\ DOMAIN air = 1..Len(air)
        /\ air'[Len(air) + 1] = m /\ \A i \in DOMAIN air : air'[i] = air[i]
    BY <1>c, <2>1
  <2>3. Pending'
    <3>1. Len(air) + 1 \in DOMAIN air'
      BY <2>2
    <3> QED
      BY <2>2, <3>1 DEF Pending
  <2>4. Stale => Stale'
    <3>1. ASSUME NEW i \in DOMAIN air PROVE i \in DOMAIN air' /\ air'[i] = air[i]
      BY <2>2, <3>1
    <3> QED
      BY <1>1, <3>1 DEF Stale
  <2>5. /\ ~Stale => silence <= missed * KeepaliveAfter + KeepaliveAfter
        /\ silence <= missed * KeepaliveAfter + KeepaliveAfter + 1
    BY <1>c, <2>1 DEF Holding
  <2> DEFINE p == missed * KeepaliveAfter
             q == missed' * KeepaliveAfter
  <2>6. /\ p \in Nat /\ q = p
        /\ ~Stale => silence <= p + KeepaliveAfter
        /\ silence <= p + KeepaliveAfter + 1
    BY <1>c, <2>1, <2>5
  <2> HIDE DEF p, q
  <2>7. ~Stale' => silence <= p + KeepaliveAfter
    BY <2>4, <2>6
  <2> QED
    BY <1>1, <2>3, <2>6, <2>7 DEF q
<1>3. CASE heard = FALSE
  <2>1. air' = air /\ missed' = missed + 1 /\ missed < Held
    BY <1>c, <1>3 DEF Transmit, Missed, Held
  <2>2. (Pending' <=> Pending) /\ (Stale' <=> Stale)
    BY <1>1, <2>1 DEF Pending, Stale
  <2>3. /\ ~Pending => silence <= missed * KeepaliveAfter + quiet
        /\ ~Stale => silence <= missed * KeepaliveAfter + KeepaliveAfter
        /\ silence <= missed * KeepaliveAfter + KeepaliveAfter + 1
    BY <1>c, <2>1 DEF Holding
  <2>4. missed' * KeepaliveAfter = missed * KeepaliveAfter + KeepaliveAfter /\ missed * KeepaliveAfter \in Nat
    BY <1>c, <2>1
  <2> DEFINE p == missed * KeepaliveAfter
             q == missed' * KeepaliveAfter
  <2>5. /\ p \in Nat /\ q = p + KeepaliveAfter
        /\ ~Pending => silence <= p + quiet
        /\ ~Stale => silence <= p + KeepaliveAfter
        /\ silence <= p + KeepaliveAfter + 1
    BY <2>3, <2>4
  <2> HIDE DEF p, q
  <2>6. /\ ~Pending => silence <= q + 0
        /\ ~Stale => silence <= q + KeepaliveAfter
        /\ silence <= q + KeepaliveAfter + 1
    BY <1>c, <2>5
  <2> QED
    BY <1>1, <2>2, <2>6 DEF q
<1> QED
  BY <1>2, <1>3

\* Every step: what is on its way is handled before the tick after the next.
LEMMA HoldingStep == Typed /\ Holding /\ [Next]_vars => Holding'
<1> SUFFICES ASSUME Typed, Holding, [Next]_vars PROVE Holding'
  OBVIOUS
<1>c. /\ KeepaliveAfter \in Nat /\ quiet \in 0..KeepaliveAfter /\ missed \in 0..3 /\ silence \in 0..(CommandTimeout + 1)
      /\ air \in Seq(Message) /\ queue \in Seq(Message) /\ open \in BOOLEAN /\ seq \in Number /\ called \in Nat
      /\ CommandTimeout \in Nat
  BY LinkConstants DEF Typed, Held
<1>p. /\ missed * KeepaliveAfter \in Nat
      /\ (missed + 1) * KeepaliveAfter = missed * KeepaliveAfter + KeepaliveAfter
  BY <1>c
<1>0. ASSUME UNCHANGED <<open, air, queue, silence, missed, quiet>> PROVE Holding'
  BY <1>0 DEF Holding, Pending, Stale
<1>z. ASSUME silence' = 0, missed' = 0, quiet' = quiet PROVE Holding'
  BY <1>z, <1>c DEF Holding, Held
<1>1. ASSUME NEW heard \in BOOLEAN, Issue(heard) PROVE Holding'
  <2>1. Command(NextSeq, called + 1) \in Message
    BY <1>c, NextNumber, MessagesMade
  <2>2. Command(NextSeq, called + 1).kind = "Command" /\ Command(NextSeq, called + 1).old = FALSE
    BY DEF Command
  <2>3. Transmit(Command(NextSeq, called + 1), heard) /\ UNCHANGED <<open, queue, silence>>
    BY <1>1 DEF Issue, vehicleVars
  <2> QED
    BY <2>1, <2>2, <2>3, HoldingSend
<1>2. ASSUME NEW s \in DOMAIN outstanding, NEW heard \in BOOLEAN, Retry(s, heard) PROVE Holding'
  <2> DEFINE m == Command(s, outstanding[s].call)
  <2>1. s \in Number /\ outstanding[s].call \in Nat
    BY <1>c DEF Typed
  <2>2. m \in Message
    BY <2>1, MessagesMade
  <2>3. m.kind = "Command" /\ m.old = FALSE
    BY DEF Command
  <2>4. Transmit(m, heard) /\ UNCHANGED <<open, queue, silence>>
    BY <1>2 DEF Retry, vehicleVars
  <2> QED
    BY <2>2, <2>3, <2>4, HoldingSend
<1>3. ASSUME NEW s \in DOMAIN outstanding, GiveUp(s) PROVE Holding'
  BY <1>0, <1>3 DEF GiveUp, vehicleVars
<1>4. ASSUME NEW heard \in BOOLEAN, Keepalive(heard) PROVE Holding'
  <2>1. Command(NextSeq, 0) \in Message
    BY <1>c, NextNumber, MessagesMade
  <2>2. Command(NextSeq, 0).kind = "Command" /\ Command(NextSeq, 0).old = FALSE
    BY DEF Command
  <2>3. Transmit(Command(NextSeq, 0), heard) /\ UNCHANGED <<open, queue, silence>>
    BY <1>4 DEF Keepalive, vehicleVars
  <2> QED
    BY <2>1, <2>2, <2>3, HoldingSend
<1>5. CASE Request
  <2>1. air' = Append(air, ChunkRequest) /\ UNCHANGED <<open, queue, silence, missed, quiet>>
    BY <1>5 DEF Request, groundVars, vehicleVars
  <2>2. /\ Len(air) \in Nat /\ DOMAIN air' = 1..(Len(air) + 1) /\ DOMAIN air = 1..Len(air)
        /\ air'[Len(air) + 1].kind # "Command" /\ \A i \in DOMAIN air : air'[i] = air[i]
    BY <1>c, <2>1, MessagesMade DEF ChunkRequest
  <2>3. (\E i \in DOMAIN air' : air'[i].kind = "Command") <=> \E i \in DOMAIN air : air[i].kind = "Command"
    BY <2>2
  <2>4. (\E i \in DOMAIN air' : air'[i].kind = "Command" /\ air'[i].old = TRUE)
          <=> \E i \in DOMAIN air : air[i].kind = "Command" /\ air[i].old = TRUE
    BY <2>2
  <2>5. (Pending' <=> Pending) /\ (Stale' <=> Stale)
    BY <2>1, <2>3, <2>4 DEF Pending, Stale
  <2> QED
    BY <2>1, <2>5 DEF Holding
<1>6. CASE HearAck
  BY <1>0, <1>6 DEF HearAck, vehicleVars
<1>7. CASE Close
  <2>1. open' = FALSE
    BY <1>7 DEF Close
  <2> QED
    BY <2>1 DEF Holding
<1>8. CASE Open
  <2>1. missed' = Held
    BY <1>8 DEF Open
  <2> QED
    BY <2>1 DEF Holding, Held
<1>9. CASE Route
  <2> DEFINE m == Head(air)
             fits == Len(queue) < QueueDepth
  <2>1. /\ air # <<>> /\ air' = Tail(air) /\ UNCHANGED <<open, silence, quiet>>
        /\ queue' = IF m.kind = "Command" /\ fits THEN Append(queue, m) ELSE queue
        /\ missed' = IF m.kind = "Command" /\ ~fits THEN Missed ELSE missed
    BY <1>9 DEF Route, groundVars
  <2>2. /\ m \in Message /\ air' \in Seq(Message) /\ Len(air') = Len(air) - 1
        /\ \A i \in 1..Len(air') : air'[i] = air[i + 1]
    BY <1>c, <2>1, HeadTailProperties
  <2>3. /\ Len(air) \in Nat \ {0} /\ DOMAIN air = 1..Len(air) /\ DOMAIN air' = 1..Len(air')
        /\ m = air[1] /\ 1 \in DOMAIN air
    BY <1>c, <2>1, <2>2, EmptySeq, LenProperties
  <2>4. \A i \in DOMAIN air' : i + 1 \in DOMAIN air /\ air'[i] = air[i + 1]
    BY <2>2, <2>3
  <2>5. \A i \in DOMAIN air : i = 1 \/ (i - 1 \in DOMAIN air' /\ air[i] = air'[i - 1])
    BY <2>2, <2>3
  <2>6. CASE m.kind # "Command"
    <3>1. queue' = queue /\ missed' = missed
      BY <2>1, <2>6
    <3>2. (\E i \in DOMAIN air' : air'[i].kind = "Command") <=> \E i \in DOMAIN air : air[i].kind = "Command"
      BY <2>3, <2>4, <2>5, <2>6
    <3>3. (\E i \in DOMAIN air' : air'[i].kind = "Command" /\ air'[i].old = TRUE)
            <=> \E i \in DOMAIN air : air[i].kind = "Command" /\ air[i].old = TRUE
      BY <2>3, <2>4, <2>5, <2>6
    <3>4. (Pending' <=> Pending) /\ (Stale' <=> Stale)
      BY <3>1, <3>2, <3>3 DEF Pending, Stale
    <3> QED
      BY <2>1, <3>1, <3>4 DEF Holding
  <2>7. CASE m.kind = "Command" /\ fits
    <3>1. queue' = Append(queue, m) /\ missed' = missed
      BY <2>1, <2>7
    <3>2. queue' # <<>> /\ DOMAIN queue' = 1..(Len(queue) + 1) /\ DOMAIN queue = 1..Len(queue)
          /\ Len(queue) \in Nat /\ queue'[Len(queue) + 1] = m /\ \A i \in DOMAIN queue : queue'[i] = queue[i]
      BY <1>c, <2>2, <3>1
    <3>3. Stale => Stale'
      <4>1. ASSUME NEW i \in DOMAIN queue, queue[i].old = TRUE PROVE Stale'
        <5>1. i \in DOMAIN queue' /\ queue'[i] = queue[i]
          BY <3>2, <4>1
        <5> QED
          BY <4>1, <5>1 DEF Stale
      <4>2. ASSUME NEW i \in DOMAIN air, air[i].kind = "Command", air[i].old = TRUE PROVE Stale'
        <5>1. CASE i = 1
          <6>1. Len(queue) + 1 \in DOMAIN queue' /\ queue'[Len(queue) + 1].old = TRUE
            BY <2>3, <3>2, <4>2, <5>1
          <6> QED
            BY <6>1 DEF Stale
        <5>2. CASE i # 1
          <6>1. i - 1 \in DOMAIN air' /\ air[i] = air'[i - 1]
            BY <2>5, <4>2, <5>2
          <6> QED
            BY <4>2, <6>1 DEF Stale
        <5> QED
          BY <5>1, <5>2
      <4> QED
        BY <4>1, <4>2 DEF Stale
    <3>4. Pending'
      BY <3>2 DEF Pending
    <3> SUFFICES ASSUME open' = TRUE, missed' < Held
                 PROVE  /\ ~Stale' => silence' <= missed' * KeepaliveAfter + KeepaliveAfter
                        /\ silence' <= missed' * KeepaliveAfter + KeepaliveAfter + 1
      BY <3>4 DEF Holding
    <3>5. /\ ~Stale => silence <= missed * KeepaliveAfter + KeepaliveAfter
          /\ silence <= missed * KeepaliveAfter + KeepaliveAfter + 1
      BY <2>1, <3>1 DEF Holding
    <3> DEFINE p == missed * KeepaliveAfter
               q == missed' * KeepaliveAfter
    <3>6. /\ p \in Nat /\ q = p
          /\ ~Stale => silence <= p + KeepaliveAfter
          /\ silence <= p + KeepaliveAfter + 1
      BY <1>p, <3>1, <3>5
    <3> HIDE DEF p, q
    <3>7. ~Stale' => silence <= p + KeepaliveAfter
      BY <3>3, <3>6
    <3> QED
      BY <2>1, <3>6, <3>7 DEF q
  <2>8. CASE m.kind = "Command" /\ ~fits
    <3>1. queue' = queue /\ missed' = Missed
      BY <2>1, <2>8
    <3>2. Len(queue) # 0 /\ queue # <<>>
      BY <1>c, <2>8, LinkConstants
    <3>3. Pending' /\ Pending
      BY <3>1, <3>2 DEF Pending
    <3> SUFFICES ASSUME open' = TRUE, missed' < Held
                 PROVE  /\ ~Stale' => silence' <= missed' * KeepaliveAfter + KeepaliveAfter
                        /\ silence' <= missed' * KeepaliveAfter + KeepaliveAfter + 1
      BY <3>3 DEF Holding
    <3>6. missed' = missed + 1 /\ missed < Held /\ open = TRUE
      BY <1>c, <2>1, <3>1 DEF Missed, Held
    <3>7. silence <= missed * KeepaliveAfter + KeepaliveAfter + 1
      BY <3>6 DEF Holding
    <3> DEFINE p == missed * KeepaliveAfter
               q == missed' * KeepaliveAfter
    <3>8. p \in Nat /\ q = p + KeepaliveAfter /\ silence <= p + KeepaliveAfter + 1
      BY <1>p, <3>6, <3>7
    <3> HIDE DEF p, q
    <3>9. silence <= q + KeepaliveAfter
      BY <1>c, <3>8, LinkConstants
    <3>10. silence <= q + KeepaliveAfter + 1
      BY <1>c, <3>8
    <3> QED
      BY <2>1, <3>9, <3>10 DEF q
  <2> QED
    BY <2>6, <2>7, <2>8
<1>10. ASSUME NEW heard \in BOOLEAN, HandleRepeat(heard) PROVE Holding'
  BY <1>10, <1>z DEF HandleRepeat, groundVars
<1>11. ASSUME NEW v \in Verdicts, NEW heard \in BOOLEAN, HandleNew(v, heard) PROVE Holding'
  BY <1>11, <1>z DEF HandleNew, groundVars
<1>12. CASE Reset
  BY <1>12, <1>z DEF Reset, groundVars
<1>13. CASE Tick
  <2> SUFFICES ASSUME open' = TRUE, missed' < Held
               PROVE  /\ ~Pending' => silence' <= missed' * KeepaliveAfter + quiet'
                      /\ silence' <= missed' * KeepaliveAfter + KeepaliveAfter + 1
                      /\ ~Stale' => silence' <= missed' * KeepaliveAfter + KeepaliveAfter
    BY DEF Holding
  <2>1. /\ open = TRUE /\ missed' = missed /\ quiet' = quiet + 1 /\ silence' = Handler!Aged(silence, 1)
        /\ air' = Older(air) /\ queue' = Older(queue) /\ Fresh(air) /\ Fresh(queue) /\ quiet # KeepaliveAfter
    BY <1>13 DEF Tick, KeepaliveDue
  <2>2. silence' <= silence + 1 /\ silence' \in Nat
    <3>1. Handler!Aged(silence, 1) = IF silence + 1 > CommandTimeout THEN CommandTimeout + 1 ELSE silence + 1
      BY DEF Handler!Aged
    <3> QED
      BY <1>c, <2>1, <3>1
  <2>3. DOMAIN air' = DOMAIN air /\ DOMAIN queue' = DOMAIN queue /\ Len(queue') = Len(queue)
    BY <1>c, <2>1, OlderSeq, MessagesMade
  <2>5. /\ \A i \in DOMAIN air : air[i] \in Message /\ air'[i].kind = air[i].kind /\ air'[i].old = TRUE
        /\ \A i \in DOMAIN queue : queue[i] \in Message /\ queue'[i].old = TRUE
    BY <1>c, <2>1, OlderMessage
  <2>6. ~Stale
    <3>1. ASSUME NEW m \in Message, m.old = TRUE, ~m.old PROVE FALSE
      BY <3>1
    <3> QED
      BY <2>1, <2>5, <3>1 DEF Stale, Fresh
  <2>7. queue = <<>> <=> queue' = <<>>
    <3>1. queue' \in Seq(Message)
      BY <1>c, <2>1, OlderSeq, MessagesMade
    <3> QED
      BY <1>c, <2>3, <3>1, EmptySeq
  <2>8. Pending' <=> Pending
    BY <2>3, <2>5, <2>7 DEF Pending
  <2>9. Pending' => Stale'
    <3>1. queue' # <<>> => \E i \in DOMAIN queue' : queue'[i].old = TRUE
      <4>1. queue # <<>> => 1 \in DOMAIN queue
        BY <1>c
      <4> QED
        BY <2>3, <2>5, <2>7, <4>1
    <3> QED
      BY <2>3, <2>5, <3>1 DEF Pending, Stale
  <2>10. /\ ~Pending => silence <= missed * KeepaliveAfter + quiet
         /\ silence <= missed * KeepaliveAfter + KeepaliveAfter
    BY <2>1, <2>6 DEF Holding
  <2> DEFINE p == missed * KeepaliveAfter
  <2>11. p \in Nat /\ (~Pending => silence <= p + quiet) /\ silence <= p + KeepaliveAfter
    BY <1>p, <2>10
  <2> HIDE DEF p
  <2>12. /\ ~Pending => silence' <= p + quiet' /\ quiet' <= KeepaliveAfter
         /\ silence' <= p + KeepaliveAfter + 1
    BY <1>c, <2>1, <2>2, <2>11
  <2>13. ~Pending => silence' <= p + KeepaliveAfter
    BY <1>c, <2>1, <2>2, <2>11, <2>12
  <2> QED
    BY <2>1, <2>8, <2>9, <2>12, <2>13 DEF p
<1>14. CASE UNCHANGED vars
  BY <1>0, <1>14 DEF vars, groundVars, vehicleVars
<1> QED
  BY <1>1, <1>2, <1>3, <1>4, <1>5, <1>6, <1>7, <1>8, <1>9, <1>10, <1>11, <1>12, <1>13, <1>14 DEF Next

\* uart_monitor.py:44: a running console holds the link: the vehicle does not reach its
\* timeout unless three command frames in a row were lost, and the queue keeps its limit.
THEOREM ConsoleHoldsLink == Spec => []LinkHeld
<1>1. Init => Holding
  BY LinkConstants DEF Init, PowerOn, Holding, Held
<1>2. ASSUME Typed, Holding PROVE LinkHeld
  <2>1. LinkTypeOK
    BY <1>2 DEF Typed, LinkTypeOK, Number
  <2>2. ASSUME open = TRUE, silence > CommandTimeout, missed # Held PROVE FALSE
    <3>1. /\ missed \in 0..2 /\ KeepaliveAfter \in Nat /\ CommandTimeout \in Nat /\ silence \in Nat
          /\ 3 * KeepaliveAfter < CommandTimeout
      BY <1>2, <2>2, LinkConstants DEF Typed, Held
    <3>2. silence <= missed * KeepaliveAfter + KeepaliveAfter + 1
      BY <1>2, <2>2, <3>1 DEF Holding, Held
    <3>3. missed * KeepaliveAfter <= 2 * KeepaliveAfter /\ missed * KeepaliveAfter \in Nat
      BY <3>1
    <3> DEFINE p == missed * KeepaliveAfter
    <3>4. p \in Nat /\ p <= 2 * KeepaliveAfter /\ silence <= p + KeepaliveAfter + 1
      BY <3>2, <3>3
    <3> HIDE DEF p
    <3> QED
      BY <2>2, <3>1, <3>4
  <2>3. open \in BOOLEAN
    BY <1>2 DEF Typed
  <2> QED
    BY <2>1, <2>2, <2>3 DEF LinkHeld
<1> QED
  BY <1>1, <1>2, LinkStart, TypedStep, HoldingStep, PTL DEF Spec
==============================================================================
