---------------------------- MODULE SensingProofs -----------------------------
(***************************************************************************)
(* What Sensing promises for any windows, debounces and readings, and any  *)
(* number of parts that fail: a half of the imu with nothing new to say    *)
(* latches its dropout, a dropout names a part that failed or that the     *)
(* camera kept cutting off, an empty battery was measured, and the bias    *)
(* comes from a quiet window.                                              *)
(***************************************************************************)
EXTENDS Sensing, SequenceTheorems, TLAPS

------------------------------------------------------------------------------
(* One transfer on the i2c bus.                                            *)

\* A START that no STOP stands over brings what the device answers; one that a STOP stands
\* over times out.
LEMMA CarriedStatus ==
    ASSUME NEW c, NEW n, NEW answer \in Answer, "bus" \notin broken
    PROVE  LET t == Carried(c, "bus" \in broken, n, answer)
           IN  /\ c.stop = TRUE => t.status = "TIMEOUT"
               /\ ~c.stop => (t.status = "OK" <=> answer = "answers")
<1> DEFINE t == Carried(c, "bus" \in broken, n, answer)
<1>1. CASE c.stop = TRUE
  <2>1. t = [status |-> "TIMEOUT", bus |-> [stop |-> TRUE, pos |-> c.pos]]
    BY <1>1 DEF Carried
  <2> QED  BY <1>1, <2>1
<1>2. CASE ~c.stop /\ answer = "absent"
  <2>1. t = [status |-> "NACK", bus |-> [stop |-> TRUE, pos |-> c.pos]]
    BY <1>2 DEF Carried
  <2> QED  BY <1>2, <2>1
<1>3. CASE ~c.stop /\ answer = "stalls"
  <2>1. t = [status |-> "TIMEOUT", bus |-> [stop |-> TRUE, pos |-> c.pos \/ n = 2]]
    BY <1>3 DEF Carried
  <2> QED  BY <1>3, <2>1
<1>4. CASE ~c.stop /\ answer = "answers"
  <2>1. t = [status |-> "OK", bus |-> [stop |-> TRUE, pos |-> c.pos /\ n # 2]]
    BY <1>4 DEF Carried
  <2> QED  BY <1>4, <2>1
<1> QED  BY <1>1, <1>2, <1>3, <1>4 DEF Answer

\* Whatever the last transfer left behind, the next succeeds exactly if the bus is free and
\* the device answers.
LEMMA TransferSucceeds ==
    ASSUME NEW b, NEW n, NEW answer \in Answer
    PROVE  Transfer(b, "bus" \in broken, n, answer).status = "OK"
              <=> "bus" \notin broken /\ answer = "answers"
<1>1. ~ResetIfWedged(b).stop
  BY DEF ResetIfWedged, BusReset
<1>2. CASE "bus" \in broken
  <2>1. Transfer(b, "bus" \in broken, n, answer) = Carried(b, "bus" \in broken, n, answer)
    BY <1>2 DEF Transfer
  <2>2. Carried(b, "bus" \in broken, n, answer) = [status |-> "TIMEOUT", bus |-> b]
    BY <1>2 DEF Carried
  <2> QED  BY <1>2, <2>1, <2>2
<1>3. CASE "bus" \notin broken
  <2>1. Transfer(b, "bus" \in broken, n, answer)
          = Carried(ResetIfWedged(b), "bus" \in broken, n, answer)
    BY <1>3 DEF Transfer
  <2> QED  BY <1>1, <1>3, <2>1, CarriedStatus
<1> QED  BY <1>2, <1>3

\* A read that is cut into may fail, and one of more than two bytes does.
LEMMA CutFails ==
    ASSUME NEW b, NEW n, NEW answer \in Answer, NEW cut \in Cut
    PROVE  LET t == CutInto(b, "bus" \in broken, n, answer, cut)
           IN  /\ t.status = "OK" => "bus" \notin broken /\ answer = "answers"
               /\ n = 3 => t.status # "OK"
<1> DEFINE t == CutInto(b, "bus" \in broken, n, answer, cut)
<1>1. CASE "bus" \notin broken /\ cut = "start"
  <2>1. CameraWrite(b).stop = TRUE
    <3>1. ~ResetIfWedged(b).stop
      BY DEF ResetIfWedged, BusReset
    <3>2. CameraWrite(b) = Carried(ResetIfWedged(b), FALSE, 0, "answers").bus
      BY DEF CameraWrite, Transfer
    <3> HIDE DEF t
    <3>3. \A c : ~c.stop => Carried(c, FALSE, 0, "answers").bus.stop = TRUE
      BY DEF Carried
    <3> QED  BY <3>1, <3>2, <3>3
  <2>2. t = Carried(CameraWrite(b), "bus" \in broken, n, answer)
    BY <1>1 DEF CutInto
  <2> QED  BY <1>1, <2>1, <2>2, CarriedStatus
<1>2. CASE "bus" \notin broken /\ answer = "answers" /\ cut = "middle"
  <2>1. t = Transfer(b, "bus" \in broken, n, "stalls")
    BY <1>2 DEF CutInto
  <2> QED  BY <2>1, TransferSucceeds DEF Answer
<1>3. CASE "bus" \notin broken /\ answer = "answers" /\ cut = "end"
  <2>1. t = [status |-> IF n \in {0, 2} THEN "OK" ELSE "TIMEOUT", bus |-> CameraWrite(b)]
    BY <1>3 DEF CutInto
  <2> QED  BY <1>3, <2>1
<1>4. CASE "bus" \in broken \/ (answer # "answers" /\ cut # "start")
  <2>1. t = Transfer(b, "bus" \in broken, n, answer)
    BY <1>4 DEF CutInto
  <2> QED  BY <1>4, <2>1, TransferSucceeds
<1> QED  BY <1>1, <1>2, <1>3, <1>4 DEF Cut

\* A transfer of a pass: left alone it succeeds exactly if bus and device work, and cut into
\* only if they do.
LEMMA ReadSucceeds ==
    ASSUME NEW i \in 1..4, NEW b, NEW n, NEW answer \in Answer, NEW cut \in Cuts \cup {NoCut}
    PROVE  LET t == Read(i, b, n, answer, cut)
           IN  /\ t.status = "OK" => "bus" \notin broken /\ answer = "answers"
               /\ i # cut.at => ("bus" \notin broken /\ answer = "answers" => t.status = "OK")
               /\ i = cut.at /\ n = 3 => t.status # "OK"
<1>1. CASE i # cut.at
  BY <1>1, TransferSucceeds DEF Read
<1>2. CASE i = cut.at
  <2>1. cut.how \in Cut
    BY <1>2, SensingAssumption DEF NoCut
  <2>2. Read(i, b, n, answer, cut) = CutInto(b, "bus" \in broken, n, answer, cut.how)
    BY <1>2 DEF Read
  <2> QED  BY <1>2, <2>1, <2>2, CutFails
<1> QED  BY <1>1, <1>2

\* The power monitor is fit exactly if it and the bus work, and its reading valid if besides
\* none of its three transfers is cut into.
LEMMA InaSucceeds ==
    ASSUME NEW b
    PROVE  /\ InaInit(b).status = "OK" <=> {"ina", "bus"} \cap broken = {}
           /\ \A k \in 0..2, cut \in Cuts \cup {NoCut} : ("ina" \notin broken => k = 0) =>
                (InaRead(b, k, cut).status = "OK"
                   <=> {"ina", "bus"} \cap broken = {} /\ cut.at \notin 1..3)
<1>1. InaInit(b).status = "OK" <=> {"ina", "bus"} \cap broken = {}
  <2> DEFINE next(r, n) == IF r.status = "OK"
                             THEN Transfer(r.bus, "bus" \in broken, n, AnswerOf("ina")) ELSE r
             good       == {"ina", "bus"} \cap broken = {}
  <2>1. \A r, n : next(r, n).status = "OK" <=> r.status = "OK" /\ good
    <3>1. AnswerOf("ina") \in Answer /\ (AnswerOf("ina") = "answers" <=> "ina" \notin broken)
      BY DEF AnswerOf, Answer
    <3> QED  BY <3>1, TransferSucceeds
  <2> DEFINE start == [status |-> "OK", bus |-> b]
  <2>2. start.status = "OK"
    OBVIOUS
  <2>3. InaInit(b) = next(next(next(next(next(start, 2), 2), 0), 0), 0)
    BY DEF InaInit
  <2> HIDE DEF next, start
  <2> QED  BY <2>1, <2>2, <2>3
<1>2. ASSUME NEW k \in 0..2, NEW cut \in Cuts \cup {NoCut}, "ina" \notin broken => k = 0
      PROVE  InaRead(b, k, cut).status = "OK"
               <=> {"ina", "bus"} \cap broken = {} /\ cut.at \notin 1..3
  <2> DEFINE silent(i)  == IF i = k + 1 /\ k > 0 THEN "stalls" ELSE "absent"
             says(i)    == IF "ina" \notin broken \/ i <= k THEN "answers" ELSE silent(i)
             next(r, i) == LET t == Read(i, r.bus, 3, says(i), cut)
                           IN  [status |-> IF r.status = "OK" THEN t.status ELSE r.status,
                                bus |-> t.bus]
  <2>1. \A i : says(i) \in Answer
    BY DEF Answer
  <2>2. says(3) = "answers" <=> "ina" \notin broken
    BY <1>2
  <2>3. "ina" \notin broken => says(1) = "answers" /\ says(2) = "answers"
    OBVIOUS
  <2> HIDE DEF says
  <2>4. \A r : \A i \in 1..3 :
           next(r, i).status = "OK"
             <=> r.status = "OK" /\ "bus" \notin broken /\ says(i) = "answers" /\ i # cut.at
    <3> SUFFICES ASSUME NEW r, NEW i \in 1..3
                 PROVE  next(r, i).status = "OK"
                          <=> r.status = "OK" /\ "bus" \notin broken /\ says(i) = "answers" /\ i # cut.at
      OBVIOUS
    <3> DEFINE t == Read(i, r.bus, 3, says(i), cut)
    <3>1. t.status = "OK" <=> "bus" \notin broken /\ says(i) = "answers" /\ i # cut.at
      <4>1. i \in 1..4
        OBVIOUS
      <4> QED  BY <2>1, <4>1, ReadSucceeds
    <3> HIDE DEF t
    <3>2. next(r, i) = [status |-> IF r.status = "OK" THEN t.status ELSE r.status, bus |-> t.bus]
      BY DEF t
    <3> QED  BY <3>1, <3>2
  <2> DEFINE start == [status |-> "OK", bus |-> b]
  <2>5. start.status = "OK"
    OBVIOUS
  <2>6. InaRead(b, k, cut) = next(next(next(start, 1), 2), 3)
    BY DEF InaRead, says
  <2>7. cut.at \notin 1..3 <=> 1 # cut.at /\ 2 # cut.at /\ 3 # cut.at
    <3>1. cut.at \in 0..4
      BY SensingAssumption DEF NoCut
    <3> QED  BY <3>1
  <2> HIDE DEF next, start
  <2> QED  BY <2>2, <2>3, <2>4, <2>5, <2>6, <2>7
<1> QED  BY <1>1, <1>2

\* The same of the thermometer.
LEMMA TmpSucceeds ==
    ASSUME NEW b
    PROVE  /\ TmpInit(b).status = "OK" <=> {"tmp", "bus"} \cap broken = {}
           /\ \A stalls \in BOOLEAN, cut \in Cuts \cup {NoCut} :
                /\ {"tmp", "bus"} \cap broken = {} /\ cut.at # 4 => TmpRead(b, stalls, cut).status = "OK"
                /\ TmpRead(b, stalls, cut).status = "OK" => {"tmp", "bus"} \cap broken = {}
<1>1. AnswerOf("tmp") \in Answer /\ (AnswerOf("tmp") = "answers" <=> "tmp" \notin broken)
  BY DEF AnswerOf, Answer
<1>2. TmpInit(b).status = "OK" <=> {"tmp", "bus"} \cap broken = {}
  BY <1>1, TransferSucceeds DEF TmpInit
<1>3. ASSUME NEW stalls \in BOOLEAN, NEW cut \in Cuts \cup {NoCut}
      PROVE  /\ {"tmp", "bus"} \cap broken = {} /\ cut.at # 4 => TmpRead(b, stalls, cut).status = "OK"
             /\ TmpRead(b, stalls, cut).status = "OK" => {"tmp", "bus"} \cap broken = {}
  <2> DEFINE says == IF "tmp" \in broken /\ stalls THEN "stalls" ELSE AnswerOf("tmp")
  <2>1. says \in Answer /\ (says = "answers" <=> "tmp" \notin broken)
    BY <1>1 DEF Answer
  <2>2. TmpRead(b, stalls, cut) = Read(4, b, 2, says, cut)
    BY DEF TmpRead
  <2> HIDE DEF says
  <2>3. 4 \in 1..4
    OBVIOUS
  <2> QED  BY <2>1, <2>2, <2>3, ReadSucceeds
<1> QED  BY <1>2, <1>3

------------------------------------------------------------------------------
(* The inductive invariant.                                                *)

\* Where a fault of each kind comes from.
BlameOf(f) ==
    CASE f = "ACCEL_GYRO_DROPOUT" -> {"imu", "accel", "gyro"}
      [] f = "MAG_DROPOUT"        -> {"imu", "mag"}
      [] f = "POWER_DROPOUT"      -> {"ina", "bus"}
      [] f = "TEMP_DROPOUT"       -> {"tmp", "bus"}

Dropouts == {"ACCEL_GYRO_DROPOUT", "MAG_DROPOUT", "POWER_DROPOUT", "TEMP_DROPOUT"}

\* A sample on its way: what it lacks has failed or was cut out of it, what it brings is new
\* to the monitor unless it is frozen, and a low voltage in it was measured.
SampleSound(set) ==
    /\ \A s \in Source \ set.valid : "imu" \in failed \/ (s = "mag" /\ "mag" \in failed)
    /\ \A s \in set.valid : s \in unseen \/ s \in failed
    /\ set.power = "invalid" => failed \cap {"ina", "bus"} # {} \/ "POWER_DROPOUT" \in set.cut
    /\ set.temp = "invalid" => failed \cap {"tmp", "bus"} # {} \/ "TEMP_DROPOUT" \in set.cut
    /\ set.power = "invalid" <=> set.level = "unmeasured"
    /\ set.power = "low" <=> set.level = "low"

\* What failed is remembered, a device that is not fit failed, and what is queued is one
\* sound sample.
DevicesOK ==
    /\ broken \subseteq failed
    /\ fit # {"unknown"} =>
          /\ "imu" \in fit \/ "imu" \in failed
          /\ "ina" \in fit \/ failed \cap {"ina", "bus"} # {}
          /\ "tmp" \in fit \/ failed \cap {"tmp", "bus"} # {}
    /\ queue # <<>> => SampleSound(Head(queue))

CountersOK ==
    /\ streak \in [Fault -> Nat] /\ \A f \in Fault : streak[f] <= Debounce[f]
    /\ active \subseteq Fault
    /\ age \in [Source -> 0..StaleWindow + 1]
    /\ truth.dull \in [Source -> Nat] /\ truth.lows \in Nat
    /\ truth.sagged \in BOOLEAN
    /\ truth.cuts \in [I2cFaults -> Nat] /\ truth.spoilt \subseteq I2cFaults

\* A source with nothing new for longer than the window counts towards its dropout with
\* every sample; the clock of the window may be ahead of the samples, never behind.
DullCounted ==
    \A s \in Source :
       /\ truth.dull[s] <= age[s] \/ age[s] = StaleWindow + 1
       /\ truth.dull[s] <= StaleWindow + streak[HalfOf[s]]
       /\ truth.dull[s] >= StaleWindow + Debounce[HalfOf[s]] => HalfOf[s] \in active

\* A fault that counts, or has latched, has someone to blame: a part that failed, or the
\* camera, as often as it counts.
Blamed ==
    /\ \A f \in Fault \cap Dropouts :
          failed \cap BlameOf(f) # {}
          \/ /\ streak[f] > 0 => f \in I2cFaults /\ streak[f] <= truth.cuts[f]
             /\ f \in active => f \in truth.spoilt
    /\ streak["UNDERVOLTAGE"] <= truth.lows
    /\ "UNDERVOLTAGE" \in active => truth.sagged = TRUE

\* The window spans the last readings the bias was offered, and is a quiet one.
WindowOK ==
    LET w == bias.window
    IN  /\ reg \in Rates
        /\ bias \in [window : [n : Nat, sum : Int, min : Int, max : Int], locked : BOOLEAN, counts : Int]
        /\ used \in Seq(Rates) /\ w.n <= Len(used) /\ Len(used) <= BiasSamples
        /\ bias.locked = TRUE <=> w.n = BiasSamples
        /\ w.n = 0 => w.min = INT16_MAX /\ w.max = INT16_MIN
        /\ w.n > 0 => w.min \in Rates /\ w.max \in Rates /\ w.max - w.min <= QuietCounts
        /\ \A i \in (Len(used) - w.n + 1)..Len(used) : w.min <= used[i] /\ used[i] <= w.max

SensingInv == DevicesOK /\ CountersOK /\ DullCounted /\ Blamed /\ WindowOK

------------------------------------------------------------------------------
(* The bias window.                                                        *)

\* The readings are what an int16_t holds.
LEMMA RatesFit ==
    /\ INT16_MIN \in Int /\ INT16_MAX \in Int
    /\ \A a \in Rates : a \in Int /\ INT16_MIN <= a /\ a <= INT16_MAX
<1>1. INT16_MIN \in Int /\ INT16_MAX \in Int
  BY DEF INT16_MIN, INT16_MAX
<1> QED  BY <1>1, RatesAssumption

\* Two readings apart by no more than the assumption allows do not wrap.
LEMMA SpreadFits ==
    ASSUME NEW a \in Rates, NEW b \in Rates, b <= a
    PROVE  Int16(a - b) = a - b
<1>1. a - b \in 0..INT16_MAX
  BY RatesFit, SpreadAssumption
<1>2. ASSUME NEW n \in 0..INT16_MAX PROVE Int16(n) = n
  <2>1. n \in Int /\ 0 <= n /\ n <= 32767 /\ INT16_MIN = -32768
    BY DEF INT16_MIN, INT16_MAX
  <2>2. n - INT16_MIN = n + 32768
    BY <2>1
  <2>3. (n + 32768) % 65536 = n + 32768
    BY <2>1
  <2>4. (n + 32768) + INT16_MIN = n
    BY <2>1
  <2> QED  BY <2>2, <2>3, <2>4 DEF Int16
<1> QED  BY <1>1, <1>2

\* The history with one more reading.
Offered == Append(IF Len(used) = BiasSamples THEN Tail(used) ELSE used, reg)

\* What a reading does to the history of the last ones.
LEMMA UsedSlides ==
    ASSUME used \in Seq(Rates), Len(used) <= BiasSamples,
           NEW n \in Nat, n <= Len(used), n < BiasSamples, reg \in Rates
    PROVE  /\ Offered \in Seq(Rates) /\ Len(Offered) <= BiasSamples /\ n + 1 <= Len(Offered)
           /\ Offered[Len(Offered)] = reg
           /\ \A i \in (Len(Offered) - n)..(Len(Offered) - 1) :
                 \E j \in (Len(used) - n + 1)..Len(used) : Offered[i] = used[j]
<1> DEFINE L    == Len(used)
           next == Append(IF Len(used) = BiasSamples THEN Tail(used) ELSE used, reg)
<1> USE DEF Offered
<1>0. L \in Nat /\ BiasSamples \in Nat \ {0}
  BY SensingAssumption
<1>1. CASE L = BiasSamples
  <2>1. used # <<>>
    BY <1>0, <1>1
  <2>2. /\ Tail(used) \in Seq(Rates) /\ Len(Tail(used)) = L - 1
        /\ \A i \in 1..(L - 1) : Tail(used)[i] = used[i + 1]
    BY <2>1, HeadTailProperties
  <2>3. /\ next \in Seq(Rates) /\ Len(next) = L /\ next[L] = reg
        /\ \A i \in 1..(L - 1) : next[i] = used[i + 1]
    BY <1>0, <1>1, <2>2, AppendProperties
  <2>4. ASSUME NEW i \in (L - n)..(L - 1)
        PROVE  \E j \in (L - n + 1)..L : next[i] = used[j]
    <3>1. i \in 1..(L - 1) /\ i + 1 \in (L - n + 1)..L
      BY <1>0, <1>1
    <3> QED  BY <2>3, <3>1
  <2> QED  BY <1>0, <1>1, <2>3, <2>4
<1>2. CASE L # BiasSamples
  <2>1. /\ next \in Seq(Rates) /\ Len(next) = L + 1 /\ next[L + 1] = reg
        /\ \A i \in 1..L : next[i] = used[i]
    BY <1>2, AppendProperties
  <2>2. ASSUME NEW i \in (L + 1 - n)..L
        PROVE  \E j \in (L - n + 1)..L : next[i] = used[j]
    <3>1. i \in 1..L /\ i \in (L - n + 1)..L
      BY <1>0
    <3> QED  BY <2>1, <3>1
  <2> QED  BY <1>0, <1>2, <2>1, <2>2
<1> QED  BY <1>1, <1>2

\* The window with one more reading.
Widened == [n |-> bias.window.n + 1, sum |-> bias.window.sum + reg,
            min |-> Lesser(bias.window.min, reg), max |-> Greater(bias.window.max, reg)]

Window  == [n : Nat, sum : Int, min : Int, max : Int]
Biases  == [window : Window, locked : BOOLEAN, counts : Int]

\* The types of what the window is made of.
LEMMA WindowTyped ==
    ASSUME WindowOK
    PROVE  /\ bias \in Biases /\ reg \in Rates /\ reg \in Int
           /\ bias.window.n \in Nat /\ bias.window.n <= BiasSamples /\ bias.window.n <= Len(used)
           /\ used \in Seq(Rates) /\ Len(used) <= BiasSamples
           /\ BiasSamples \in Nat \ {0} /\ QuietCounts \in Nat
<1>1. reg \in Rates /\ reg \in Int
  BY RatesFit DEF WindowOK
<1>2. bias \in Biases /\ bias.window.n <= Len(used) /\ Len(used) <= BiasSamples
      /\ used \in Seq(Rates)
  BY DEF WindowOK, Biases, Window
<1>3. bias.window.n \in Nat
  BY <1>2 DEF Biases, Window
<1>4. BiasSamples \in Nat \ {0} /\ QuietCounts \in Nat
  BY SensingAssumption
<1>5. Len(used) \in Nat
  BY <1>2
<1>6. bias.window.n <= BiasSamples
  BY <1>2, <1>3, <1>4, <1>5
<1> QED  BY <1>1, <1>2, <1>3, <1>4, <1>6

\* It spans the last readings, the new one among them.
LEMMA WindowWidens ==
    ASSUME WindowOK,
           NEW next \in Seq(Rates), bias.window.n + 1 <= Len(next), next[Len(next)] = reg,
           \A i \in (Len(next) - bias.window.n)..(Len(next) - 1) :
              \E j \in (Len(used) - bias.window.n + 1)..Len(used) : next[i] = used[j]
    PROVE  /\ Widened \in Window /\ Widened.n = bias.window.n + 1
           /\ Widened.min \in Rates /\ Widened.max \in Rates /\ Widened.min <= Widened.max
           /\ \A i \in (Len(next) - Widened.n + 1)..Len(next) :
                 Widened.min <= next[i] /\ next[i] <= Widened.max
<1> DEFINE lo == bias.window.min
           hi == bias.window.max
           n  == bias.window.n
<1>0. n \in Nat /\ reg \in Rates /\ reg \in Int /\ bias.window.sum \in Int
  BY WindowTyped DEF Biases, Window
<1>1. n > 0 => lo \in Int /\ hi \in Int /\ lo \in Rates /\ hi \in Rates
  BY RatesFit DEF WindowOK
<1>2. n = 0 => lo = INT16_MAX /\ hi = INT16_MIN
  BY DEF WindowOK
<1>3. \A j \in (Len(used) - n + 1)..Len(used) : lo <= used[j] /\ used[j] <= hi
  BY DEF WindowOK
<1>4. Widened.n = n + 1 /\ Widened.min = Lesser(lo, reg) /\ Widened.max = Greater(hi, reg)
      /\ Widened.sum = bias.window.sum + reg
      /\ Widened = [n |-> Widened.n, sum |-> Widened.sum, min |-> Widened.min, max |-> Widened.max]
  BY DEF Widened
<1> DEFINE min == Widened.min
           max == Widened.max
<1> HIDE DEF lo, hi, n
<1>5. /\ min \in Rates /\ max \in Rates /\ min <= reg /\ reg <= max
      /\ n > 0 => min <= lo /\ hi <= max
  <2>1. CASE n = 0
    <3>1. INT16_MIN <= reg /\ reg <= INT16_MAX /\ INT16_MIN \in Int /\ INT16_MAX \in Int
      BY <1>0, RatesFit
    <3> QED  BY <1>0, <1>2, <1>4, <2>1, <3>1 DEF Lesser, Greater
  <2>2. CASE n # 0
    BY <1>0, <1>1, <1>4, <2>2 DEF Lesser, Greater
  <2> QED  BY <2>1, <2>2
<1>6. min \in Int /\ max \in Int
  BY <1>5, RatesFit
<1> HIDE DEF min, max
<1>7. Widened \in Window
  BY <1>0, <1>4, <1>6 DEF Window, min, max
<1>8. ASSUME NEW i \in (Len(next) - n)..Len(next)
      PROVE  min <= next[i] /\ next[i] <= max
  <2>0. Len(next) \in Nat
    OBVIOUS
  <2>1. CASE i = Len(next)
    BY <1>5, <2>1
  <2>2. CASE i # Len(next)
    <3>1. i \in (Len(next) - n)..(Len(next) - 1) /\ n > 0
      BY <1>0, <1>8, <2>0, <2>2
    <3>2. PICK j \in (Len(used) - n + 1)..Len(used) : next[i] = used[j]
      BY <3>1 DEF n
    <3>3. lo <= next[i] /\ next[i] <= hi
      BY <1>3, <3>2
    <3>4. next[i] \in Int
      <4>1. i \in 1..Len(next)
        BY <1>0, <1>8, <2>0 DEF n
      <4>2. next[i] \in Rates
        BY <4>1
      <4> QED  BY <4>2, RatesFit
    <3> QED  BY <1>1, <1>5, <1>6, <3>1, <3>3, <3>4
  <2> QED  BY <2>1, <2>2
<1>9. (Len(next) - Widened.n) + 1 = Len(next) - n
  BY <1>0, <1>4
<1>10. min <= max
  BY <1>0, <1>5, <1>6
<1> QED  BY <1>4, <1>5, <1>7, <1>8, <1>9, <1>10 DEF min, max, n

\* A window kept, and locked when it is full, is a quiet span of the last readings.
LEMMA WindowKept ==
    ASSUME reg' \in Rates, BiasSamples \in Nat \ {0},
           bias' \in Biases, used' \in Seq(Rates), Len(used') <= BiasSamples,
           bias'.window.n <= Len(used'), bias'.window.n > 0,
           bias'.locked = TRUE <=> bias'.window.n = BiasSamples,
           bias'.window.min \in Rates, bias'.window.max \in Rates,
           bias'.window.max - bias'.window.min <= QuietCounts,
           \A i \in (Len(used') - bias'.window.n + 1)..Len(used') :
              bias'.window.min <= used'[i] /\ used'[i] <= bias'.window.max
    PROVE  WindowOK'
  BY DEF WindowOK, Biases, Window

\* So is an empty one.
LEMMA WindowEmptied ==
    ASSUME reg' \in Rates, BiasSamples \in Nat \ {0},
           bias' \in Biases, used' \in Seq(Rates), Len(used') <= BiasSamples,
           bias'.window = NoWindow, bias'.locked = FALSE
    PROVE  WindowOK'
<1>1. bias'.window.n = 0 /\ bias'.window.min = INT16_MAX /\ bias'.window.max = INT16_MIN
  BY DEF NoWindow
<1>2. Len(used') \in Nat
  OBVIOUS
<1>3. (Len(used') - 0 + 1)..Len(used') = {}
  BY <1>2
<1>4. ~(bias'.locked = TRUE) /\ bias'.window.n # BiasSamples
  BY <1>1
<1> QED  BY <1>1, <1>2, <1>3, <1>4 DEF WindowOK, Biases, Window

\* A reading offered to the bias leaves the window a quiet span of the last readings.
LEMMA LearningKeeps ==
    ASSUME WindowOK, reg' = reg, bias' = Learned(reg),
           used' = IF bias.locked THEN used
                   ELSE Append(IF Len(used) = BiasSamples THEN Tail(used) ELSE used, reg)
    PROVE  WindowOK'
<1> DEFINE w     == Widened
           moved == Int16(w.max - w.min) > QuietCounts
           n     == bias.window.n
           next  == used'
<1>0. /\ bias \in Biases /\ reg \in Rates /\ n \in Nat /\ n <= BiasSamples /\ n <= Len(used)
      /\ used \in Seq(Rates) /\ Len(used) <= BiasSamples
      /\ BiasSamples \in Nat \ {0} /\ QuietCounts \in Nat
  BY WindowTyped
<1>1. CASE bias.locked = TRUE
  <2>1. bias' = bias /\ used' = used
    BY <1>1 DEF Learned
  <2> QED  BY <2>1 DEF WindowOK
<1>2. CASE bias.locked = FALSE
  <2>1. n < BiasSamples
    BY <1>0, <1>2 DEF WindowOK
  <2>2. next = Append(IF Len(used) = BiasSamples THEN Tail(used) ELSE used, reg)
    BY <1>2
  <2> HIDE DEF n, next
  <2>3. /\ next \in Seq(Rates) /\ Len(next) <= BiasSamples /\ n + 1 <= Len(next)
        /\ next[Len(next)] = reg
        /\ \A i \in (Len(next) - n)..(Len(next) - 1) :
              \E j \in (Len(used) - n + 1)..Len(used) : next[i] = used[j]
    <3>1. /\ used \in Seq(Rates) /\ Len(used) <= BiasSamples /\ n \in Nat /\ n <= Len(used)
          /\ n < BiasSamples /\ reg \in Rates
      BY <1>0, <2>1 DEF n
    <3>2. next = Offered
      BY <2>2 DEF Offered
    <3> QED  BY <3>1, <3>2, UsedSlides
  <2>4. /\ w \in Window /\ w.n = n + 1
        /\ w.min \in Rates /\ w.max \in Rates /\ w.min <= w.max
        /\ \A i \in (Len(next) - w.n + 1)..Len(next) : w.min <= next[i] /\ next[i] <= w.max
    BY <2>3, WindowWidens DEF n
  <2>5. Learned(reg) = CASE moved -> [bias EXCEPT !.window = NoWindow]
                         [] ~moved /\ w.n = BiasSamples ->
                              [window |-> w, locked |-> TRUE, counts |-> w.sum \div BiasSamples]
                         [] OTHER -> [bias EXCEPT !.window = w]
    BY <1>2 DEF Learned, moved, Poisoned, Widened
  <2>6. moved <=> w.max - w.min > QuietCounts
    <3>1. Int16(w.max - w.min) = w.max - w.min
      BY <2>4, SpreadFits
    <3> QED  BY <3>1
  <2> HIDE DEF moved, w
  <2>7. ~moved => w.max - w.min <= QuietCounts
    <3>1. w.max \in Int /\ w.min \in Int
      BY <2>4, RatesFit
    <3> QED  BY <1>0, <2>6, <3>1
  <2>8. n + 1 \in Nat /\ n + 1 > 0
    BY <1>0
  <2>9. CASE moved
    <3>1. bias' = [bias EXCEPT !.window = NoWindow]
      BY <2>5, <2>9
    <3>2. NoWindow \in Window /\ NoWindow.n = 0
          /\ NoWindow.min = INT16_MAX /\ NoWindow.max = INT16_MIN
      BY RatesFit DEF NoWindow, Window
    <3>3. bias' \in Biases /\ bias'.window = NoWindow /\ bias'.locked = FALSE
      BY <1>0, <1>2, <3>1, <3>2 DEF Biases
    <3> QED  BY <1>0, <2>3, <3>2, <3>3, WindowEmptied DEF next
  <2>10. CASE ~moved /\ w.n = BiasSamples
    <3>1. bias' = [window |-> w, locked |-> TRUE, counts |-> w.sum \div BiasSamples]
      BY <2>5, <2>10
    <3>2. w.sum \div BiasSamples \in Int
      BY <1>0, <2>4 DEF Window
    <3>3. bias' \in Biases /\ bias'.window = w /\ bias'.locked = TRUE
      BY <2>4, <3>1, <3>2 DEF Biases
    <3> QED  BY <1>0, <2>3, <2>4, <2>7, <2>8, <2>10, <3>3, WindowKept DEF next
  <2>11. CASE ~moved /\ w.n # BiasSamples
    <3>1. bias' = [bias EXCEPT !.window = w]
      BY <2>5, <2>11
    <3>2. bias' \in Biases /\ bias'.window = w /\ bias'.locked = FALSE
      BY <1>0, <1>2, <2>4, <3>1 DEF Biases
    <3> QED  BY <1>0, <2>3, <2>4, <2>7, <2>8, <2>11, <3>2, WindowKept DEF next
  <2> QED  BY <2>9, <2>10, <2>11
<1>3. bias.locked \in BOOLEAN
  BY <1>0 DEF Biases
<1> QED  BY <1>1, <1>2, <1>3

------------------------------------------------------------------------------
(* What the monitor says of a sample, and the debounce of it.              *)

\* The clocks of a cycle, and what the fault manager is told in it.
Now == [s \in Source |-> Lesser(age[s] + 1, StaleWindow + 1)]
Told(set) == LET verdict == Evaluate(set, Now, unseen)
             IN  [f \in Fault |-> IF f \in DOMAIN verdict THEN verdict[f] ELSE "none"]

\* A half of the imu is bad if it lacks a source or brings one unchanged for longer than
\* the window; a monitor that did not answer has no opinion of the voltage.
LEMMA ToldFacts ==
    ASSUME NEW set
    PROVE  /\ \A s \in Source : HalfOf[s] \in Fault =>
                (s \notin set.valid \/ (s \notin unseen /\ Now[s] > StaleWindow)
                  => Told(set)[HalfOf[s]] = "bad")
           /\ \A f \in Fault \cap {"ACCEL_GYRO_DROPOUT", "MAG_DROPOUT"} :
                Told(set)[f] = "bad" =>
                  \E s \in Source : HalfOf[s] = f /\ (s \notin set.valid \/ s \notin unseen)
           /\ "POWER_DROPOUT" \in Fault =>
                /\ Told(set)["POWER_DROPOUT"] \in {"good", "bad"}
                /\ Told(set)["POWER_DROPOUT"] = "bad" => set.power = "invalid"
           /\ "TEMP_DROPOUT" \in Fault =>
                /\ Told(set)["TEMP_DROPOUT"] \in {"good", "bad"}
                /\ Told(set)["TEMP_DROPOUT"] = "bad" => set.temp = "invalid"
           /\ "UNDERVOLTAGE" \in Fault =>
                Told(set)["UNDERVOLTAGE"] = IF set.power = "invalid" THEN "none"
                                            ELSE IF set.power = "low" THEN "bad" ELSE "good"
<1> DEFINE v == Evaluate(set, Now, unseen)
<1>1. /\ v["ACCEL_GYRO_DROPOUT"] = EvaluateImu(set.valid, Now, unseen, "ACCEL_GYRO_DROPOUT")
      /\ v["MAG_DROPOUT"] = EvaluateImu(set.valid, Now, unseen, "MAG_DROPOUT")
      /\ v["POWER_DROPOUT"] = Says(set.power = "invalid")
      /\ v["TEMP_DROPOUT"] = Says(set.temp = "invalid")
      /\ v["UNDERVOLTAGE"] = EvaluateLevel(set.power, "low")
      /\ {"ACCEL_GYRO_DROPOUT", "MAG_DROPOUT", "POWER_DROPOUT", "TEMP_DROPOUT", "UNDERVOLTAGE"}
           \subseteq DOMAIN v
  BY DEF Evaluate
<1>2. \A f \in Fault : f \in DOMAIN v => Told(set)[f] = v[f]
  BY DEF Told
<1> HIDE DEF v
<1>3. ASSUME NEW f \in {"ACCEL_GYRO_DROPOUT", "MAG_DROPOUT"}, f \in Fault
      PROVE  Told(set)[f] = "bad" <=>
               \E s \in Source : HalfOf[s] = f
                                 /\ (s \notin set.valid \/ (s \notin unseen /\ Now[s] > StaleWindow))
  BY <1>1, <1>2, <1>3 DEF EvaluateImu, Stale
<1>4. \A s \in Source : HalfOf[s] \in {"ACCEL_GYRO_DROPOUT", "MAG_DROPOUT"}
  BY DEF Source, HalfOf
<1>5. "POWER_DROPOUT" \in Fault =>
        /\ Told(set)["POWER_DROPOUT"] \in {"good", "bad"}
        /\ Told(set)["POWER_DROPOUT"] = "bad" => set.power = "invalid"
  BY <1>1, <1>2 DEF Says
<1>6. "TEMP_DROPOUT" \in Fault =>
        /\ Told(set)["TEMP_DROPOUT"] \in {"good", "bad"}
        /\ Told(set)["TEMP_DROPOUT"] = "bad" => set.temp = "invalid"
  BY <1>1, <1>2 DEF Says
<1>7. "UNDERVOLTAGE" \in Fault =>
        Told(set)["UNDERVOLTAGE"] = IF set.power = "invalid" THEN "none"
                                    ELSE IF set.power = "low" THEN "bad" ELSE "good"
  BY <1>1, <1>2 DEF EvaluateLevel, Says
<1> QED  BY <1>3, <1>4, <1>5, <1>6, <1>7

\* A bad sample counts up to the threshold and latches there, a good one starts over, and
\* none leaves the count.
LEMMA CountFacts ==
    ASSUME streak \in [Fault -> Nat], \A f \in Fault : streak[f] <= Debounce[f], active \subseteq Fault,
           NEW sample,
           streak' = CountStreaks(streak, sample), active' = Latch(active, streak', sample)
    PROVE  /\ streak' \in [Fault -> Nat] /\ \A f \in Fault : streak'[f] <= Debounce[f]
           /\ active' \subseteq Fault /\ active \subseteq active'
           /\ \A f \in Fault :
                /\ Debounce[f] \in Nat \ {0}
                /\ sample[f] = "bad" =>
                     /\ streak'[f] = IF streak[f] < Debounce[f] THEN streak[f] + 1 ELSE streak[f]
                     /\ streak'[f] >= Debounce[f] => f \in active'
                /\ sample[f] = "good" => streak'[f] = 0
                /\ sample[f] \notin {"bad", "good"} => streak'[f] = streak[f]
                /\ f \in active' => f \in active
                                    \/ (sample[f] = "bad" /\ streak'[f] = Debounce[f])
<1>1. \A f \in Fault : Debounce[f] \in Nat \ {0}
  BY FaultAssumption
<1>2. \A f \in Fault : streak'[f] = CASE sample[f] = "bad"  -> IF streak[f] < Debounce[f]
                                                                 THEN streak[f] + 1 ELSE streak[f]
                                      [] sample[f] = "good" -> 0
                                      [] OTHER              -> streak[f]
  BY DEF CountStreaks
<1>3. DOMAIN streak' = Fault /\ streak' = [f \in Fault |-> streak'[f]]
  BY DEF CountStreaks
<1>4. \A f \in Fault : streak'[f] \in Nat /\ streak'[f] <= Debounce[f]
  BY <1>1, <1>2
<1>5. streak' \in [Fault -> Nat]
  BY <1>3, <1>4
<1>6. active' = active \cup {f \in Fault : sample[f] = "bad" /\ streak'[f] >= Debounce[f]}
  BY DEF Latch
<1> QED  BY <1>1, <1>2, <1>4, <1>5, <1>6

------------------------------------------------------------------------------
(* A cycle with a sample.                                                  *)

\* What CycleWith does, in the terms of the lemmas above.
LEMMA CycleFacts ==
    ASSUME CycleWith
    PROVE  LET set == Head(queue)
               lows == IF set.level = "low" THEN Lesser(truth.lows + 1, Debounce["UNDERVOLTAGE"])
                       ELSE IF set.level = "unmeasured" THEN truth.lows ELSE 0
               cuts == [f \in I2cFaults |-> IF f \in set.cut THEN Lesser(truth.cuts[f] + 1, Debounce[f])
                                            ELSE 0]
           IN  /\ queue # <<>> /\ queue' = <<>>
               /\ age' = [s \in Source |-> IF s \in set.valid /\ s \in unseen THEN 0 ELSE Now[s]]
               /\ unseen' = unseen \ set.valid
               /\ streak' = CountStreaks(streak, Told(set))
               /\ active' = Latch(active, streak', Told(set))
               /\ bias' = IF "gyro" \in set.valid THEN Learned(reg) ELSE bias
               /\ used' = IF "gyro" \notin set.valid \/ bias.locked THEN used
                          ELSE Append(IF Len(used) = BiasSamples THEN Tail(used) ELSE used, reg)
               /\ truth'.dull = [s \in Source |->
                                   IF s \in set.valid /\ s \in unseen THEN 0
                                   ELSE Lesser(truth.dull[s] + 1, StaleWindow + Debounce[HalfOf[s]])]
               /\ truth'.lows = lows
               /\ truth'.sagged = (truth.sagged \/ lows = Debounce["UNDERVOLTAGE"])
               /\ truth'.cuts = cuts
               /\ truth'.spoilt = truth.spoilt \cup {f \in I2cFaults : cuts[f] = Debounce[f]}
               /\ UNCHANGED <<fit, broken, bus, reg, failed>>
<1>1. /\ truth'.dull = [s \in Source |->
                          IF s \in Head(queue).valid /\ s \in unseen THEN 0
                          ELSE Lesser(truth.dull[s] + 1, StaleWindow + Debounce[HalfOf[s]])]
  BY DEF CycleWith
<1>2. /\ queue # <<>> /\ queue' = <<>>
      /\ age' = [s \in Source |-> IF s \in Head(queue).valid /\ s \in unseen THEN 0 ELSE Now[s]]
      /\ unseen' = unseen \ Head(queue).valid
      /\ UNCHANGED <<fit, broken, bus, reg, failed>>
  BY DEF CycleWith, Now
<1>3. /\ streak' = CountStreaks(streak, Told(Head(queue)))
      /\ active' = Latch(active, streak', Told(Head(queue)))
  BY DEF CycleWith, Now, Told
<1>4. /\ bias' = IF "gyro" \in Head(queue).valid THEN Learned(reg) ELSE bias
      /\ used' = IF "gyro" \notin Head(queue).valid \/ bias.locked THEN used
                 ELSE Append(IF Len(used) = BiasSamples THEN Tail(used) ELSE used, reg)
  BY DEF CycleWith
<1>5. LET lows == IF Head(queue).level = "low" THEN Lesser(truth.lows + 1, Debounce["UNDERVOLTAGE"])
                  ELSE IF Head(queue).level = "unmeasured" THEN truth.lows ELSE 0
      IN  /\ truth'.lows = lows
          /\ truth'.sagged = (truth.sagged \/ lows = Debounce["UNDERVOLTAGE"])
  BY DEF CycleWith
<1>6. LET cuts == [f \in I2cFaults |-> IF f \in Head(queue).cut THEN Lesser(truth.cuts[f] + 1, Debounce[f])
                                       ELSE 0]
      IN  /\ truth'.cuts = cuts
          /\ truth'.spoilt = truth.spoilt \cup {f \in I2cFaults : cuts[f] = Debounce[f]}
  BY DEF CycleWith
<1> QED  BY <1>1, <1>2, <1>3, <1>4, <1>5, <1>6

\* The counters keep their types and the dull sources their count.
LEMMA CycleCounts ==
    ASSUME SensingInv, CycleWith
    PROVE  CountersOK' /\ DullCounted'
<1> DEFINE set == Head(queue)
           new(s) == s \in set.valid /\ s \in unseen
<1>1. CountersOK /\ DullCounted
  BY DEF SensingInv
<1>2. /\ age' = [s \in Source |-> IF new(s) THEN 0 ELSE Now[s]]
      /\ truth'.dull = [s \in Source |->
                          IF new(s) THEN 0
                          ELSE Lesser(truth.dull[s] + 1, StaleWindow + Debounce[HalfOf[s]])]
      /\ streak' = CountStreaks(streak, Told(set))
      /\ active' = Latch(active, streak', Told(set))
  BY CycleFacts
<1>3. SensorFaults \subseteq Fault /\ StaleWindow \in Nat \ {0}
  BY SensingAssumption, StaleWindowAssumption
<1>4. \A s \in Source : HalfOf[s] \in Fault /\ Debounce[HalfOf[s]] \in Nat \ {0}
  BY <1>3, FaultAssumption DEF SensorFaults, Source, HalfOf
<1>5. /\ streak' \in [Fault -> Nat] /\ \A f \in Fault : streak'[f] <= Debounce[f]
      /\ active' \subseteq Fault
      /\ \A f \in Fault : Told(set)[f] = "bad" =>
           /\ streak'[f] = IF streak[f] < Debounce[f] THEN streak[f] + 1 ELSE streak[f]
           /\ streak'[f] >= Debounce[f] => f \in active'
  BY <1>1, <1>2, CountFacts DEF CountersOK
<1>6. ASSUME NEW s \in Source
      PROVE  /\ Now[s] \in 0..StaleWindow + 1
             /\ Now[s] = Lesser(age[s] + 1, StaleWindow + 1)
             /\ age[s] \in 0..StaleWindow + 1 /\ truth.dull[s] \in Nat
  <2>1. age[s] \in 0..StaleWindow + 1 /\ truth.dull[s] \in Nat
    BY <1>1 DEF CountersOK
  <2>2. Now[s] = Lesser(age[s] + 1, StaleWindow + 1)
    BY DEF Now
  <2> QED  BY <1>3, <2>1, <2>2 DEF Lesser
<1>7. age' \in [Source -> 0..StaleWindow + 1]
  BY <1>2, <1>3, <1>6
<1>8. truth'.dull \in [Source -> Nat]
  <2>1. \A s \in Source : Lesser(truth.dull[s] + 1, StaleWindow + Debounce[HalfOf[s]]) \in Nat
    BY <1>3, <1>4, <1>6 DEF Lesser
  <2> QED  BY <1>2, <2>1
<1>9. truth'.lows \in Nat /\ truth'.sagged \in BOOLEAN
  <2>1. Debounce["UNDERVOLTAGE"] \in Nat
    BY <1>3, FaultAssumption DEF SensorFaults
  <2>2. truth.lows \in Nat
    BY <1>1 DEF CountersOK
  <2>3. truth'.lows \in Nat
    BY <2>1, <2>2, CycleFacts DEF Lesser
  <2>4. truth'.sagged \in BOOLEAN
    BY CycleFacts
  <2> QED  BY <2>3, <2>4
<1>10. ASSUME NEW s \in Source
       PROVE  /\ truth'.dull[s] <= age'[s] \/ age'[s] = StaleWindow + 1
              /\ truth'.dull[s] <= StaleWindow + streak'[HalfOf[s]]
              /\ truth'.dull[s] >= StaleWindow + Debounce[HalfOf[s]] => HalfOf[s] \in active'
  <2> DEFINE h == HalfOf[s]
             D == Debounce[h]
             d == truth.dull[s]
             a == age[s]
  <2>0. /\ h \in Fault /\ D \in Nat \ {0} /\ d \in Nat /\ a \in 0..StaleWindow + 1
        /\ streak[h] \in Nat /\ streak[h] <= D /\ streak'[h] \in Nat
        /\ d <= a \/ a = StaleWindow + 1
        /\ d <= StaleWindow + streak[h]
    BY <1>1, <1>4, <1>5, <1>6 DEF CountersOK, DullCounted
  <2>1. CASE new(s)
    <3>1. age'[s] = 0 /\ truth'.dull[s] = 0
      BY <1>2, <2>1
    <3> QED  BY <1>3, <2>0, <3>1
  <2>2. CASE ~new(s)
    <3>1. age'[s] = Lesser(a + 1, StaleWindow + 1) /\ truth'.dull[s] = Lesser(d + 1, StaleWindow + D)
      BY <1>2, <1>6, <2>2
    <3>2. truth'.dull[s] > StaleWindow => Told(set)[h] = "bad"
      <4>1. truth'.dull[s] > StaleWindow => Now[s] > StaleWindow
        BY <1>3, <1>6, <2>0, <3>1 DEF Lesser
      <4> QED  BY <2>0, <2>2, <4>1, ToldFacts
    <3> HIDE DEF h, D, d, a
    <3>3. CASE truth'.dull[s] > StaleWindow
      <4>1. /\ streak'[h] = IF streak[h] < D THEN streak[h] + 1 ELSE streak[h]
            /\ streak'[h] >= D => h \in active'
        BY <1>5, <2>0, <3>2, <3>3 DEF D
      <4>2. /\ truth'.dull[s] <= StaleWindow + streak'[h]
            /\ truth'.dull[s] >= StaleWindow + D => streak'[h] >= D
            /\ truth'.dull[s] <= age'[s] \/ age'[s] = StaleWindow + 1
        BY <1>3, <2>0, <3>1, <4>1 DEF Lesser
      <4> QED  BY <4>1, <4>2 DEF h, D
    <3>4. CASE ~(truth'.dull[s] > StaleWindow)
      <4>1. /\ truth'.dull[s] <= StaleWindow + streak'[h]
            /\ ~(truth'.dull[s] >= StaleWindow + D)
            /\ truth'.dull[s] <= age'[s] \/ age'[s] = StaleWindow + 1
        BY <1>3, <2>0, <3>1, <3>4 DEF Lesser
      <4> QED  BY <4>1 DEF h, D
    <3> QED  BY <3>3, <3>4
  <2> QED  BY <2>1, <2>2
<1>11. truth'.cuts \in [I2cFaults -> Nat] /\ truth'.spoilt \subseteq I2cFaults
  <2>1. truth.cuts \in [I2cFaults -> Nat] /\ truth.spoilt \subseteq I2cFaults
    BY <1>1 DEF CountersOK
  <2>2. \A f \in I2cFaults : Debounce[f] \in Nat
    BY <1>3, FaultAssumption DEF SensorFaults
  <2>3. \A f \in I2cFaults : Lesser(truth.cuts[f] + 1, Debounce[f]) \in Nat
    BY <2>1, <2>2 DEF Lesser
  <2> DEFINE next == [f \in I2cFaults |-> IF f \in set.cut THEN Lesser(truth.cuts[f] + 1, Debounce[f])
                                          ELSE 0]
  <2>4. /\ truth'.cuts = next
        /\ truth'.spoilt = truth.spoilt \cup {f \in I2cFaults : next[f] = Debounce[f]}
    BY CycleFacts
  <2>5. next \in [I2cFaults -> Nat]
    BY <2>3
  <2> HIDE DEF next
  <2> QED  BY <2>1, <2>4, <2>5
<1>12. CountersOK'
  BY <1>5, <1>7, <1>8, <1>9, <1>11 DEF CountersOK
<1> QED  BY <1>10, <1>12 DEF DullCounted

\* A fault counts and latches only for a sample that lacks what failed, or repeats it; a
\* low voltage only for one that was measured.
LEMMA CycleBlames ==
    ASSUME SensingInv, CycleWith
    PROVE  Blamed'
<1> DEFINE set == Head(queue)
           told == Told(set)
<1>1. /\ CountersOK /\ Blamed /\ SampleSound(set)
      /\ failed' = failed /\ streak' = CountStreaks(streak, told) /\ active' = Latch(active, streak', told)
  BY CycleFacts DEF SensingInv, DevicesOK
<1>2. SensorFaults \subseteq Fault
  BY SensingAssumption
<1>3. /\ \A f \in Fault :
           /\ Debounce[f] \in Nat \ {0} /\ streak'[f] \in Nat /\ streak[f] \in Nat
           /\ told[f] = "bad" =>
                streak'[f] = IF streak[f] < Debounce[f] THEN streak[f] + 1 ELSE streak[f]
           /\ told[f] = "good" => streak'[f] = 0
           /\ told[f] \notin {"bad", "good"} => streak'[f] = streak[f]
           /\ f \in active' => f \in active \/ (told[f] = "bad" /\ streak'[f] = Debounce[f])
  <2>1. streak \in [Fault -> Nat] /\ (\A f \in Fault : streak[f] <= Debounce[f]) /\ active \subseteq Fault
    BY <1>1 DEF CountersOK
  <2> HIDE DEF told
  <2>2. streak' \in [Fault -> Nat]
    BY <1>1, <2>1, CountFacts
  <2> QED  BY <1>1, <2>1, <2>2, CountFacts
<1> HIDE DEF told
<1>4. ASSUME NEW f \in Fault \cap Dropouts, told[f] = "bad"
      PROVE  failed \cap BlameOf(f) # {} \/ (f \in I2cFaults /\ f \in set.cut)
  <2>1. CASE f = "POWER_DROPOUT"
    BY <1>1, <1>4, <2>1, ToldFacts DEF SampleSound, BlameOf, I2cFaults, told
  <2>2. CASE f = "TEMP_DROPOUT"
    BY <1>1, <1>4, <2>2, ToldFacts DEF SampleSound, BlameOf, I2cFaults, told
  <2>3. CASE f \in {"ACCEL_GYRO_DROPOUT", "MAG_DROPOUT"}
    <3>1. PICK s \in Source : HalfOf[s] = f /\ (s \notin set.valid \/ s \notin unseen)
      BY <1>4, <2>3, ToldFacts DEF told
    <3>2. "imu" \in failed \/ (s = "mag" /\ "mag" \in failed) \/ s \in failed
      BY <1>1, <3>1 DEF SampleSound
    <3>3. s \in BlameOf(f) /\ "imu" \in BlameOf(f)
      BY <2>3, <3>1 DEF Source, HalfOf, BlameOf
    <3> QED  BY <3>2, <3>3
  <2> QED  BY <2>1, <2>2, <2>3 DEF Dropouts
<1>5. ASSUME NEW f \in Fault \cap Dropouts, failed \cap BlameOf(f) = {}
      PROVE  /\ streak'[f] > 0 => f \in I2cFaults /\ streak'[f] <= truth'.cuts[f]
             /\ f \in active' => f \in truth'.spoilt
  <2>1. /\ streak[f] > 0 => f \in I2cFaults /\ streak[f] <= truth.cuts[f]
        /\ f \in active => f \in truth.spoilt
    BY <1>1, <1>5 DEF Blamed
  <2>2. /\ streak[f] \in Nat /\ streak'[f] \in Nat /\ streak[f] <= Debounce[f]
        /\ Debounce[f] \in Nat \ {0}
    BY <1>1, <1>3 DEF CountersOK
  <2>3. truth.spoilt \subseteq truth'.spoilt
    BY CycleFacts
  <2>4. CASE told[f] = "bad"
    <3>1. f \in I2cFaults /\ f \in set.cut
      BY <1>4, <1>5, <2>4
    <3>2. truth.cuts[f] \in Nat
      BY <1>1, <3>1 DEF CountersOK
    <3>3. truth'.cuts[f] = Lesser(truth.cuts[f] + 1, Debounce[f])
      BY <3>1, CycleFacts
    <3>4. streak'[f] = IF streak[f] < Debounce[f] THEN streak[f] + 1 ELSE streak[f]
      BY <1>3, <2>4
    <3>5. streak'[f] <= truth'.cuts[f] /\ truth'.cuts[f] <= Debounce[f] /\ truth'.cuts[f] \in Nat
      BY <2>1, <2>2, <3>2, <3>3, <3>4 DEF Lesser
    <3>6. CASE f \in active
      BY <2>1, <2>3, <3>1, <3>5, <3>6
    <3>7. CASE f \notin active
      <4>1. f \in active' => streak'[f] = Debounce[f]
        BY <1>3, <3>7
      <4>2. f \in active' => truth'.cuts[f] = Debounce[f]
        BY <2>2, <3>5, <4>1
      <4>3. truth'.cuts[f] = Debounce[f] => f \in truth'.spoilt
        BY <3>1, CycleFacts
      <4> QED  BY <3>1, <3>5, <4>2, <4>3
    <3> QED  BY <3>6, <3>7
  <2>5. CASE told[f] # "bad"
    <3>1. f \in active' => f \in truth'.spoilt
      BY <1>3, <2>1, <2>3, <2>5
    <3>2. CASE told[f] = "good"
      BY <1>3, <3>1, <3>2
    <3>3. CASE told[f] \notin {"good", "bad"} /\ streak[f] > 0
      <4>1. f \in I2cFaults
        BY <2>1, <3>3
      <4> QED  BY <1>1, <3>3, <4>1, ToldFacts DEF I2cFaults, told
    <3>4. CASE told[f] \notin {"good", "bad"} /\ ~(streak[f] > 0)
      BY <1>3, <3>1, <3>4
    <3> QED  BY <2>5, <3>2, <3>3, <3>4
  <2> QED  BY <2>4, <2>5
<1> DEFINE uv == "UNDERVOLTAGE"
           D  == Debounce["UNDERVOLTAGE"]
<1>6. /\ uv \in Fault /\ D \in Nat \ {0} /\ streak[uv] \in Nat /\ streak'[uv] \in Nat
      /\ streak[uv] <= truth.lows /\ truth.lows \in Nat /\ streak[uv] <= D
  BY <1>1, <1>2, <1>3 DEF SensorFaults, Blamed, CountersOK
<1>7. told[uv] = IF set.power = "invalid" THEN "none" ELSE IF set.power = "low" THEN "bad" ELSE "good"
  BY <1>6, ToldFacts DEF told
<1>8. /\ set.power = "invalid" <=> set.level = "unmeasured"
      /\ set.power = "low" <=> set.level = "low"
  BY <1>1 DEF SampleSound
<1>9. truth'.lows = IF set.level = "low" THEN Lesser(truth.lows + 1, D)
                    ELSE IF set.level = "unmeasured" THEN truth.lows ELSE 0
  BY CycleFacts
<1>10. truth'.sagged = (truth.sagged \/ truth'.lows = D)
  BY CycleFacts
<1>11. streak'[uv] <= truth'.lows /\ (told[uv] = "bad" => truth'.lows <= D)
  <2>1. CASE set.power = "low"
    <3>1. told[uv] = "bad" /\ truth'.lows = Lesser(truth.lows + 1, D)
      BY <1>7, <1>8, <1>9, <2>1
    <3>2. streak'[uv] = IF streak[uv] < D THEN streak[uv] + 1 ELSE streak[uv]
      BY <1>3, <1>6, <3>1
    <3> HIDE DEF D, uv
    <3> QED  BY <1>6, <3>1, <3>2 DEF Lesser
  <2>2. CASE set.power = "invalid"
    <3>1. told[uv] = "none" /\ truth'.lows = truth.lows
      BY <1>7, <1>8, <1>9, <2>2
    <3>2. streak'[uv] = streak[uv]
      BY <1>3, <1>6, <3>1
    <3> QED  BY <1>6, <3>1, <3>2
  <2>3. CASE set.power \notin {"low", "invalid"}
    <3>1. told[uv] = "good" /\ truth'.lows = 0
      BY <1>7, <1>8, <1>9, <2>3
    <3>2. streak'[uv] = 0
      BY <1>3, <1>6, <3>1
    <3> QED  BY <3>1, <3>2
  <2> QED  BY <2>1, <2>2, <2>3
<1>12. uv \in active' => truth'.sagged = TRUE
  <2>1. CASE uv \in active
    <3>1. truth.sagged = TRUE
      BY <1>1, <2>1 DEF Blamed
    <3> QED  BY <1>10, <3>1
  <2>2. CASE uv \in active' /\ uv \notin active
    <3>1. told[uv] = "bad" /\ streak'[uv] = D
      BY <1>3, <1>6, <2>2
    <3>2. truth'.lows \in Nat
      BY CycleCounts DEF CountersOK
    <3>3. truth'.lows = D
      BY <1>6, <1>11, <3>1, <3>2
    <3> QED  BY <1>10, <3>3
  <2> QED  BY <2>1, <2>2
<1> QED  BY <1>1, <1>5, <1>11, <1>12 DEF Blamed, BlameOf

\* The rest of the invariant.
LEMMA CycleKeeps ==
    ASSUME SensingInv, CycleWith
    PROVE  SensingInv'
<1>1. DevicesOK'
  BY CycleFacts DEF SensingInv, DevicesOK
<1>2. WindowOK'
  <2>0. WindowOK
    BY DEF SensingInv
  <2>1. CASE "gyro" \in Head(queue).valid
    <3>1. /\ reg' = reg /\ bias' = Learned(reg)
          /\ used' = IF bias.locked THEN used
                     ELSE Append(IF Len(used) = BiasSamples THEN Tail(used) ELSE used, reg)
      BY <2>1, CycleFacts
    <3> QED  BY <2>0, <3>1, LearningKeeps
  <2>2. CASE "gyro" \notin Head(queue).valid
    <3>1. reg' = reg /\ bias' = bias /\ used' = used
      BY <2>2, CycleFacts
    <3> QED  BY <2>0, <3>1 DEF WindowOK
  <2> QED  BY <2>1, <2>2
<1> QED  BY <1>1, <1>2, CycleCounts, CycleBlames DEF SensingInv

------------------------------------------------------------------------------
(* The other steps.                                                        *)

\* What failed stays failed: a sample stays sound, and blame stays where it was.
LEMMA FailuresGrow ==
    ASSUME SensingInv, failed \subseteq failed', broken' \subseteq failed',
           UNCHANGED <<fit, reg, queue, age, unseen, streak, active, bias, truth, used>>
    PROVE  SensingInv'
<1>1. DevicesOK'
  <2>1. queue # <<>> => SampleSound(Head(queue))'
    BY DEF SensingInv, DevicesOK, SampleSound
  <2> QED  BY <2>1 DEF SensingInv, DevicesOK
<1>2. CountersOK' /\ DullCounted' /\ WindowOK'
  BY DEF SensingInv, CountersOK, DullCounted, WindowOK
<1>3. Blamed'
  <2>1. \A f : BlameOf(f)' = BlameOf(f)
    BY DEF BlameOf
  <2> QED  BY DEF SensingInv, Blamed, BlameOf
<1> QED  BY <1>1, <1>2, <1>3 DEF SensingInv

\* A device that is not fit after bring-up has failed.
LEMMA BringUpKeeps ==
    ASSUME SensingInv, BringUp
    PROVE  SensingInv'
<1> DEFINE ina == InaInit(Scanned)
           tmp == TmpInit(ina.bus)
<1>1. /\ fit' = {d \in {"imu", "ina", "tmp"} : CASE d = "imu" -> "imu" \notin broken
                                                 [] d = "ina" -> ina.status = "OK"
                                                 [] d = "tmp" -> tmp.status = "OK"}
      /\ UNCHANGED <<broken, reg, queue, age, unseen, streak, active, bias, truth, used, failed>>
  BY DEF BringUp
<1>2. /\ ina.status = "OK" <=> {"ina", "bus"} \cap broken = {}
      /\ tmp.status = "OK" <=> {"tmp", "bus"} \cap broken = {}
  BY InaSucceeds, TmpSucceeds
<1> HIDE DEF ina, tmp
<1>3. /\ "imu" \in fit' <=> "imu" \notin broken
      /\ "ina" \in fit' <=> {"ina", "bus"} \cap broken = {}
      /\ "tmp" \in fit' <=> {"tmp", "bus"} \cap broken = {}
  BY <1>1, <1>2
<1>4. broken \subseteq failed
  BY DEF SensingInv, DevicesOK
<1>5. DevicesOK'
  <2>1. queue # <<>> => SampleSound(Head(queue))'
    BY <1>1 DEF SensingInv, DevicesOK, SampleSound
  <2> QED  BY <1>1, <1>3, <1>4, <2>1 DEF DevicesOK
<1>6. CountersOK' /\ DullCounted' /\ WindowOK' /\ Blamed'
  BY <1>1 DEF SensingInv, CountersOK, DullCounted, WindowOK, Blamed, BlameOf
<1> QED  BY <1>5, <1>6 DEF SensingInv

\* A pass of the sensor task publishes a sound sample.
LEMMA PassKeeps ==
    ASSUME SensingInv, NEW rate \in Rates, NEW level \in BusLevels, NEW temp \in TempLevels,
           NEW k \in IfBroken("ina", 0, 0..2), NEW stalls \in IfBroken("tmp", FALSE, BOOLEAN),
           NEW mute \in IfBroken("mag", FALSE, BOOLEAN), NEW cut \in IfBroken("camera", NoCut, Cuts),
           SensorPass(rate, level, temp, k, stalls, mute, cut)
    PROVE  SensingInv'
<1> DEFINE unfit(b) == [status |-> "unfit", bus |-> b]
           ina == IF "ina" \in fit THEN InaRead(bus, k, cut) ELSE unfit(bus)
           tmp == IF "tmp" \in fit THEN TmpRead(ina.bus, stalls, cut) ELSE unfit(ina.bus)
           set == [valid |-> Valid(mute),
                   power |-> Power(ina.status, level),
                   temp  |-> IF tmp.status = "OK" THEN temp ELSE "invalid",
                   level |-> IF {"ina", "bus"} \cap broken # {} \/ "ina" \notin fit \/ cut.at \in 1..3
                             THEN "unmeasured" ELSE level,
                   cut   |-> {f \in I2cFaults : IF f = "POWER_DROPOUT" THEN cut.at \in 1..3
                                                ELSE cut.at = 4 /\ tmp.status # "OK"}]
<1>0. /\ k \in 0..2 /\ stalls \in BOOLEAN /\ mute \in BOOLEAN /\ cut \in Cuts \cup {NoCut}
      /\ "ina" \notin broken => k = 0
      /\ "mag" \notin broken => ~mute
  <2>1. k \in 0..2 /\ ("ina" \notin broken => k = 0)
    BY DEF IfBroken
  <2>2. stalls \in BOOLEAN
    BY DEF IfBroken
  <2>3. mute \in BOOLEAN /\ ("mag" \notin broken => mute = FALSE)
    BY DEF IfBroken
  <2>4. cut \in Cuts \cup {NoCut}
    BY DEF IfBroken
  <2> QED  BY <2>1, <2>2, <2>3, <2>4
<1>1. /\ fit # {"unknown"}
      /\ queue' = <<set>>
      /\ reg' = IF Valid(mute) # {} /\ "gyro" \notin broken THEN rate ELSE reg
      /\ unseen' = unseen \cup (Valid(mute) \ broken)
      /\ UNCHANGED <<fit, broken, age, streak, active, bias, truth, used, failed>>
  BY DEF SensorPass
<1>2. /\ ina.status = "OK" <=> "ina" \in fit /\ {"ina", "bus"} \cap broken = {} /\ cut.at \notin 1..3
      /\ tmp.status = "OK" => "tmp" \in fit /\ {"tmp", "bus"} \cap broken = {}
      /\ "tmp" \in fit /\ {"tmp", "bus"} \cap broken = {} /\ cut.at # 4 => tmp.status = "OK"
  <2>1. "ina" \in fit =>
          (ina.status = "OK" <=> {"ina", "bus"} \cap broken = {} /\ cut.at \notin 1..3)
    BY <1>0, InaSucceeds
  <2>2. "ina" \notin fit => ina.status = "unfit"
    OBVIOUS
  <2> HIDE DEF ina
  <2>3. "tmp" \in fit => /\ {"tmp", "bus"} \cap broken = {} /\ cut.at # 4 => tmp.status = "OK"
                         /\ tmp.status = "OK" => {"tmp", "bus"} \cap broken = {}
    BY <1>0, TmpSucceeds
  <2>4. "tmp" \notin fit => tmp.status = "unfit"
    OBVIOUS
  <2> QED  BY <2>1, <2>2, <2>3, <2>4
<1> HIDE DEF ina, tmp
<1>3. level \in {"low", "ok", "high"} /\ temp \in {"cold", "ok", "hot"}
  BY SensingAssumption
<1>4. /\ broken \subseteq failed
      /\ "imu" \in fit \/ "imu" \in failed
      /\ "ina" \in fit \/ failed \cap {"ina", "bus"} # {}
      /\ "tmp" \in fit \/ failed \cap {"tmp", "bus"} # {}
  BY <1>1 DEF SensingInv, DevicesOK
<1>5. /\ \A s \in Source \ set.valid : "imu" \in failed \/ (s = "mag" /\ "mag" \in failed)
      /\ \A s \in set.valid : s \in unseen' \/ s \in failed
      /\ set.power = "invalid" => failed \cap {"ina", "bus"} # {} \/ "POWER_DROPOUT" \in set.cut
      /\ set.temp = "invalid" => failed \cap {"tmp", "bus"} # {} \/ "TEMP_DROPOUT" \in set.cut
      /\ set.power = "invalid" <=> set.level = "unmeasured"
      /\ set.power = "low" <=> set.level = "low"
  <2>1. /\ set.valid = Valid(mute)
        /\ set.power = Power(ina.status, level)
        /\ set.temp = IF tmp.status = "OK" THEN temp ELSE "invalid"
        /\ set.level = IF {"ina", "bus"} \cap broken # {} \/ "ina" \notin fit \/ cut.at \in 1..3
                       THEN "unmeasured" ELSE level
        /\ "POWER_DROPOUT" \in set.cut <=> cut.at \in 1..3
        /\ "TEMP_DROPOUT" \in set.cut <=> cut.at = 4 /\ tmp.status # "OK"
    BY DEF I2cFaults
  <2> HIDE DEF set
  <2>2. \A s \in Source \ set.valid : "imu" \in failed \/ (s = "mag" /\ "mag" \in failed)
    <3>1. CASE mute = TRUE
      <4>1. "mag" \in failed
        BY <1>0, <1>4, <3>1
      <4> QED  BY <1>4, <2>1, <3>1, <4>1 DEF Valid
    <3>2. CASE mute = FALSE
      BY <1>4, <2>1, <3>2 DEF Valid
    <3> QED  BY <1>0, <3>1, <3>2
  <2>3. \A s \in set.valid : s \in unseen' \/ s \in failed
    BY <1>1, <1>4, <2>1
  <2>4. /\ set.power = "invalid" => failed \cap {"ina", "bus"} # {} \/ "POWER_DROPOUT" \in set.cut
        /\ set.power = "invalid" <=> set.level = "unmeasured"
        /\ set.power = "low" <=> set.level = "low"
    BY <1>2, <1>3, <1>4, <2>1 DEF Power
  <2>5. set.temp = "invalid" => failed \cap {"tmp", "bus"} # {} \/ "TEMP_DROPOUT" \in set.cut
    BY <1>2, <1>3, <1>4, <2>1
  <2> QED  BY <2>2, <2>3, <2>4, <2>5
<1>6. DevicesOK'
  <2>1. \E sample : queue' = <<sample>> /\ sample = set
    BY <1>1
  <2> HIDE DEF set
  <2>2. PICK sample : queue' = <<sample>> /\ sample = set
    BY <2>1
  <2>3. Head(queue') = sample
    BY <2>2
  <2>4. Head(queue)' = sample /\ failed' = failed
    BY <1>1, <2>3
  <2>5. SampleSound(Head(queue))'
    BY <1>5, <2>2, <2>4 DEF SampleSound
  <2>6. broken' = broken /\ fit' = fit
    BY <1>1
  <2> QED  BY <1>1, <1>4, <2>4, <2>5, <2>6 DEF DevicesOK
<1>7. CountersOK' /\ DullCounted' /\ Blamed'
  BY <1>1 DEF SensingInv, CountersOK, DullCounted, Blamed, BlameOf
<1>8. WindowOK'
  <2>1. reg' \in Rates
    BY <1>1 DEF SensingInv, WindowOK
  <2> QED  BY <1>1, <2>1 DEF SensingInv, WindowOK
<1> QED  BY <1>6, <1>7, <1>8 DEF SensingInv

\* A cycle without a sample only ages the readings.
LEMMA IdleKeeps ==
    ASSUME SensingInv, CycleWithout
    PROVE  SensingInv'
<1>1. /\ age' = [s \in Source |-> Lesser(age[s] + 1, StaleWindow + 1)]
      /\ UNCHANGED <<fit, broken, reg, queue, unseen, streak, active, bias, truth, used, failed>>
  BY DEF CycleWithout
<1>2. StaleWindow \in Nat \ {0}
  BY StaleWindowAssumption
<1>3. ASSUME NEW s \in Source
      PROVE  /\ age'[s] \in 0..StaleWindow + 1
             /\ truth.dull[s] <= age'[s] \/ age'[s] = StaleWindow + 1
  <2>1. /\ age[s] \in 0..StaleWindow + 1 /\ truth.dull[s] \in Nat
        /\ truth.dull[s] <= age[s] \/ age[s] = StaleWindow + 1
    BY DEF SensingInv, CountersOK, DullCounted
  <2>2. age'[s] = Lesser(age[s] + 1, StaleWindow + 1)
    BY <1>1
  <2> QED  BY <1>2, <2>1, <2>2 DEF Lesser
<1>4. age' \in [Source -> 0..StaleWindow + 1]
  BY <1>1, <1>3
<1>5. CountersOK'
  BY <1>1, <1>4 DEF SensingInv, CountersOK
<1>6. DullCounted'
  BY <1>1, <1>3 DEF SensingInv, DullCounted
<1>7. DevicesOK' /\ WindowOK' /\ Blamed'
  <2>1. queue # <<>> => SampleSound(Head(queue))'
    BY <1>1 DEF SensingInv, DevicesOK, SampleSound
  <2> QED  BY <1>1, <2>1 DEF SensingInv, DevicesOK, WindowOK, Blamed, BlameOf
<1> QED  BY <1>5, <1>6, <1>7 DEF SensingInv

\* Before the first sample there is nothing to blame anyone for.
LEMMA InitSound ==
    ASSUME Init
    PROVE  SensingInv
<1>1. DevicesOK
  BY DEF Init, DevicesOK
<1>2. /\ StaleWindow \in Nat \ {0} /\ SensorFaults \subseteq Fault
      /\ \A f \in Fault : Debounce[f] \in Nat \ {0}
  BY SensingAssumption, StaleWindowAssumption, FaultAssumption
<1>3. CountersOK
  BY <1>2 DEF Init, CountersOK
<1>4. \A s \in Source : HalfOf[s] \in Fault /\ Debounce[HalfOf[s]] \in Nat \ {0}
  BY <1>2 DEF SensorFaults, Source, HalfOf
<1>5. DullCounted
  <2>1. \A s \in Source : /\ truth.dull[s] = 0 /\ age[s] = StaleWindow + 1
                          /\ streak[HalfOf[s]] = 0
    BY <1>4 DEF Init
  <2> QED  BY <1>2, <1>4, <2>1 DEF DullCounted
<1>6. Blamed
  BY <1>2 DEF Init, Blamed, SensorFaults
<1>7. WindowOK
  <2>1. INT16_MIN \in Int /\ INT16_MAX \in Int /\ BiasSamples \in Nat \ {0}
    BY RatesFit, SensingAssumption
  <2>2. /\ bias = [window |-> NoWindow, locked |-> FALSE, counts |-> 0] /\ used = <<>> /\ reg \in Rates
    BY DEF Init
  <2>3. bias.window = NoWindow /\ bias.locked = FALSE /\ bias.counts = 0
    BY <2>2
  <2>4. /\ NoWindow.n = 0 /\ NoWindow.min = INT16_MAX /\ NoWindow.max = INT16_MIN
        /\ NoWindow \in [n : Nat, sum : Int, min : Int, max : Int]
    BY <2>1 DEF NoWindow
  <2>5. used \in Seq(Rates) /\ Len(used) = 0
    BY <2>2
  <2>6. bias \in [window : [n : Nat, sum : Int, min : Int, max : Int], locked : BOOLEAN, counts : Int]
    BY <2>2, <2>4
  <2> QED  BY <2>1, <2>2, <2>3, <2>4, <2>5, <2>6 DEF WindowOK
<1> QED  BY <1>1, <1>3, <1>5, <1>6, <1>7 DEF SensingInv

\* The invariant is one: every step of either task, and every failure, keeps it.
LEMMA SensingInvHolds == Spec => []SensingInv
<1>1. Init => SensingInv
  BY InitSound
<1>2. SensingInv /\ [Next]_vars => SensingInv'
  <2> SUFFICES ASSUME SensingInv, [Next]_vars PROVE SensingInv'
    OBVIOUS
  <2>1. CASE BringUp
    BY <2>1, BringUpKeeps
  <2>2. ASSUME NEW rate \in Rates, NEW level \in BusLevels, NEW temp \in TempLevels,
               NEW k \in IfBroken("ina", 0, 0..2), NEW stalls \in IfBroken("tmp", FALSE, BOOLEAN),
               NEW mute \in IfBroken("mag", FALSE, BOOLEAN),
               NEW cut \in IfBroken("camera", NoCut, Cuts),
               SensorPass(rate, level, temp, k, stalls, mute, cut)
        PROVE  SensingInv'
    BY <2>2, PassKeeps
  <2>3. CASE CycleWithout
    BY <2>3, IdleKeeps
  <2>4. CASE CycleWith
    BY <2>4, CycleKeeps
  <2>5. ASSUME NEW part \in Part, Breaks(part)
        PROVE  SensingInv'
    <3>1. /\ failed \subseteq failed' /\ broken' \subseteq failed'
          /\ UNCHANGED <<fit, reg, queue, age, unseen, streak, active, bias, truth, used>>
      BY <2>5 DEF Breaks, SensingInv, DevicesOK
    <3> QED  BY <3>1, FailuresGrow
  <2>6. ASSUME NEW part \in Part, Mends(part)
        PROVE  SensingInv'
    <3>1. /\ failed \subseteq failed' /\ broken' \subseteq failed'
          /\ UNCHANGED <<fit, reg, queue, age, unseen, streak, active, bias, truth, used>>
      BY <2>6 DEF Mends, SensingInv, DevicesOK
    <3> QED  BY <3>1, FailuresGrow
  <2>7. CASE UNCHANGED vars
    <3>1. /\ failed \subseteq failed' /\ broken' \subseteq failed'
          /\ UNCHANGED <<fit, reg, queue, age, unseen, streak, active, bias, truth, used>>
      BY <2>7 DEF vars, SensingInv, DevicesOK
    <3> QED  BY <3>1, FailuresGrow
  <2> QED  BY <2>1, <2>2, <2>3, <2>4, <2>5, <2>6, <2>7 DEF Next
<1> QED  BY <1>1, <1>2, PTL DEF Spec

------------------------------------------------------------------------------
(* The theorems.                                                           *)

\* A half of the imu that answers nothing, or answers and is frozen, latches its dropout
\* after the window and the debounce (sensor_monitor.cpp:93), for any window and debounce.
THEOREM DullIsLatched == Spec => []DullLatched
<1>1. SensingInv => DullLatched
  BY DEF SensingInv, DullCounted, DullLatched
<1> QED  BY <1>1, SensingInvHolds, PTL

\* A latched dropout names a part that failed, or one the camera's writes took as many samples
\* from in a row as the debounce asks, and a latched low voltage was measured that often
\* (ina228.c:82), however many parts fail and come back and wherever a write cuts in.
THEOREM BlameIsDeserved == Spec => []BlameTheBroken
<1>1. ASSUME SensingInv PROVE BlameTheBroken
  <2>1. Blamed /\ active \subseteq Fault
    BY <1>1 DEF SensingInv, CountersOK
  <2>2. \A f \in active \cap Dropouts : failed \cap BlameOf(f) # {} \/ f \in truth.spoilt
    BY <2>1 DEF Blamed
  <2>3. truth.spoilt \subseteq I2cFaults
    BY <1>1 DEF SensingInv, CountersOK
  <2>4. "UNDERVOLTAGE" \in active => truth.sagged
    BY <2>1 DEF Blamed
  <2> QED  BY <2>2, <2>3, <2>4 DEF Dropouts, BlameOf, I2cFaults, BlameTheBroken
<1> QED  BY <1>1, SensingInvHolds, PTL

\* The window that was locked held as many readings as it takes, no two of them further
\* apart than QuietCounts (control_task.cpp:412).
THEOREM QuietWindow == Spec => []WindowWasQuiet
<1>1. ASSUME SensingInv, bias.locked
      PROVE  Len(used) = BiasSamples /\ \A i, j \in 1..BiasSamples : used[i] - used[j] <= QuietCounts
  <2> DEFINE w == bias.window
  <2>1. WindowOK /\ BiasSamples \in Nat \ {0} /\ QuietCounts \in Nat
    BY <1>1, SensingAssumption DEF SensingInv
  <2>2. bias.locked = TRUE
    BY <1>1, <2>1 DEF WindowOK
  <2>3. /\ used \in Seq(Rates) /\ w.n = BiasSamples /\ Len(used) = BiasSamples
        /\ w.min \in Rates /\ w.max \in Rates /\ w.max - w.min <= QuietCounts
        /\ \A i \in (Len(used) - w.n + 1)..Len(used) : w.min <= used[i] /\ used[i] <= w.max
    <3>1. w.n \in Nat /\ Len(used) \in Nat
      BY <2>1 DEF WindowOK
    <3> QED  BY <2>1, <2>2, <3>1 DEF WindowOK
  <2>4. \A i \in 1..BiasSamples : /\ used[i] \in Int /\ w.min <= used[i] /\ used[i] <= w.max
    <3>1. (Len(used) - w.n + 1)..Len(used) = 1..BiasSamples
      BY <2>1, <2>3
    <3>2. \A i \in 1..BiasSamples : used[i] \in Rates
      BY <2>3
    <3> HIDE DEF w
    <3> QED  BY <2>3, <3>1, <3>2, RatesFit
  <2>5. w.min \in Int /\ w.max \in Int
    BY <2>3, RatesFit
  <2> HIDE DEF w
  <2>6. \A i, j \in 1..BiasSamples : used[i] - used[j] <= QuietCounts
    BY <2>1, <2>3, <2>4, <2>5
  <2> QED  BY <2>3, <2>6
<1>2. SensingInv => WindowWasQuiet
  BY <1>1 DEF WindowWasQuiet
<1> QED  BY <1>2, SensingInvHolds, PTL

==============================================================================
