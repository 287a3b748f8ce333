------------------------------- MODULE I2cBus --------------------------------
(***************************************************************************)
(* obc/Src/drivers/i2c.c: one transfer on the bus of the power monitor and *)
(* the thermometer.  A transfer leaves STOP standing in CR1, and a START   *)
(* written over it is dropped by the cell.                                 *)
(***************************************************************************)

\* i2c_start: the software reset clears the control register.
BusReset == [stop |-> FALSE, pos |-> FALSE]

\* Mutant: the errata is not known.
WedgedAnyway(bus) == bus

\* i2c_reset_if_wedged, before every START.
ResetIfWedged(bus) == IF bus.stop THEN BusReset ELSE bus

\* What a device does with a transfer: it acknowledges and carries it through, it is not
\* there, or it falls silent in the middle.
Answer == {"answers", "absent", "stalls"}

\* i2c_read_regs of n bytes, or i2c_write_regs for n = 0, from its START on, on a line that is
\* free or held: the status, and the control register they leave.  POS, set for a read of two,
\* outlives a time-out in its middle and would spoil the acknowledges of the next read.
Carried(bus, held, n, answer) ==
    LET left(pos) == [stop |-> TRUE, pos |-> pos]
    IN  CASE held -> [status |-> "TIMEOUT", bus |-> bus]
          [] ~held /\ bus.stop -> [status |-> "TIMEOUT", bus |-> left(bus.pos)]
          [] ~held /\ ~bus.stop /\ answer = "absent" -> [status |-> "NACK", bus |-> left(bus.pos)]
          [] ~held /\ ~bus.stop /\ answer = "stalls" -> [status |-> "TIMEOUT", bus |-> left(bus.pos \/ n = 2)]
          [] OTHER -> [status |-> "OK", bus |-> left(bus.pos /\ n # 2)]

\* The whole call, left alone.
Transfer(bus, held, n, answer) ==
    Carried(IF held THEN bus ELSE ResetIfWedged(bus), held, n, answer)

\* Where the control task can preempt a call of the sensor task to write the camera's
\* registers over the same bus, which has no lock.
Cut == {"start", "middle", "end"}

\* sccb_write: one register of the camera, and what is left of the bus after it.
CameraWrite(bus) == Transfer(bus, FALSE, 0, "answers").bus

\* A call that the camera's write comes between.  After the reset and before START, the write's
\* STOP stands over it.  In the middle, the write gives up on the busy line, and its five
\* milliseconds were the call's own.  After STOP, the write's reset takes what had come: a
\* call that still waits for a byte times out, one that does not returns the byte wrong.
CutInto(bus, held, n, answer, cut) ==
    LET answered == ~held /\ answer = "answers"
    IN  CASE ~held /\ cut = "start" -> Carried(CameraWrite(bus), held, n, answer)
          [] answered /\ cut = "middle" -> Transfer(bus, held, n, "stalls")
          [] answered /\ cut = "end" -> [status |-> IF n \in {0, 2} THEN "OK" ELSE "TIMEOUT", bus |-> CameraWrite(bus)]
          [] OTHER -> Transfer(bus, held, n, answer)
==============================================================================
