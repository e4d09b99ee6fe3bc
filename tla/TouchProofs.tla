---------------------------- MODULE TouchProofs ----------------------------
(***************************************************************************)
(* Proofs about Touch, for any places, any number of failing transfers and *)
(* reports at any moment.                                                  *)
(***************************************************************************)
EXTENDS Touch, TLAPS

Touching == {"down", "move"}

\* A press event stays in read_data only while the last report read had a
\* finger; after a read without an error that report is the one just read.
EventInv ==
  /\ event \in Touching => pre > 0
  /\ sound = 1 /\ pc \in {"clear", "unflag", "enable"} => pre = got
  /\ pc \in {"unflag", "enable"} => state = Pressed(event)

\* A call that is due after a report finds the interrupt masked, and so the
\* flag: a call that reads nothing finds a quiet panel.
QuietInv ==
  /\ pc = "idle" /\ beat = 1 => int = 0
  /\ told = 0 => report.n = 0

\* With one finger at a time the registers hold finger 0 and where it was.
SingleInv ==
  multi = 0 =>
    /\ finger[1] = Away
    /\ report.n > 0 => report.n = 1
    /\ report.n > 0 \/ (pc = "points" /\ got > 0) => report.id = 0 /\ report.spot \in Spots
    /\ pc = "points" => got < 2
    /\ sound = 1 /\ pc = "clear" /\ event \in Touching => at \in Spots

TouchInv == /\ TouchTypeOK /\ NeverDeaf /\ PressIsTouched
            /\ EventInv /\ QuietInv /\ SingleInv

-----------------------------------------------------------------------------
\* It holds when the callback is registered.
LEMMA TouchInvInit == TouchInit => TouchInv
  BY TouchAssumption DEF TouchInit, TouchInv, TouchTypeOK, NeverDeaf, PressIsTouched, JustTold, EventInv, QuietInv, SingleInv, Touching, NoReport, Fingers

\* What the controller puts into its registers.
LEMMA SeenIsRead ==
  ASSUME TouchInv
  PROVE  /\ Seen \in [ready : {0,1}, n : 0..2, id : Fingers, spot : Spots \cup {Corner}]
         /\ Count \in 0..2 /\ Seen.n = Count
         /\ Count > 0 => Seen.spot \in Spots
         /\ Count = 0 => Seen.id = report.id /\ Seen.spot = report.spot
         /\ finger[1] = Away => Count < 2 /\ (Count > 0 => Seen.id = 0)
  BY DEF TouchInv, TouchTypeOK, Seen, Quiet, Count, Lowest, On, Fingers

\* The fingers cannot break it.
LEMMA FingersPreserve ==
  TouchInv /\ (\E i \in Fingers : PutDown(i) \/ Slide(i) \/ Lift(i)) => TouchInv'
  <1> SUFFICES ASSUME TouchInv, NEW i \in Fingers, PutDown(i) \/ Slide(i) \/ Lift(i)
               PROVE  TouchInv'
    OBVIOUS
  <1> USE DEF TouchInv, driver, chip
  <1>1. TouchTypeOK'
    BY DEF PutDown, Slide, Lift, TouchTypeOK
  <1>2. NeverDeaf' /\ EventInv' /\ QuietInv'
    BY DEF PutDown, Slide, Lift, NeverDeaf, EventInv, QuietInv, Pressed
  <1>3. multi' = 0 => multi = 0 /\ finger'[1] = Away
    BY TouchAssumption DEF PutDown, Slide, Lift, SingleInv, TouchTypeOK, On, Fingers
  <1>4. PressIsTouched' /\ SingleInv'
    BY <1>3 DEF PutDown, Slide, Lift, PressIsTouched, JustTold, SingleInv
  <1> QED
    BY <1>1, <1>2, <1>4

\* A report may fall between any two steps of the callback.
LEMMA ReportPreserves == TouchInv /\ Report => TouchInv'
  <1> SUFFICES ASSUME TouchInv, Report PROVE TouchInv'
    OBVIOUS
  <1> USE SeenIsRead DEF TouchInv, driver, Report
  <1>1. TouchTypeOK'
    BY DEF TouchTypeOK
  <1>2. NeverDeaf' /\ PressIsTouched' /\ EventInv'
    BY DEF NeverDeaf, PressIsTouched, JustTold, EventInv, TouchTypeOK, Pressed
  <1>3. QuietInv'
    BY DEF QuietInv
  <1>4. SingleInv'
    BY DEF SingleInv
  <1> QED
    BY <1>1, <1>2, <1>3, <1>4

\* What the driver makes of a report.
LEMMA TrackedIsTouch ==
  ASSUME TouchInv, NEW t, t = Tracked(got, report)
  PROVE  /\ t.event \in {"none", "up", "down", "move"}
         /\ t.at \in Spots \cup {Corner} /\ t.down \in {0,1}
         /\ t.event \in Touching => got > 0
         /\ multi = 0 /\ pc = "points" /\ t.event \in Touching => t.at \in Spots
  BY DEF TouchInv, TouchTypeOK, EventInv, SingleInv, Tracked, TouchDown, TouchUp, Touching, Fingers

\* The callback's steps preserve it.
LEMMA ReadPreserves == TouchInv /\ Read => TouchInv'
  <1> SUFFICES ASSUME TouchInv, Read PROVE TouchInv'
    OBVIOUS
  <1> USE DEF TouchInv, driver, chip
  <1>1. CASE ReadNothing
    <2>1. (int = 1 /\ On = {} /\ told = 0) \/ (int = 1 /\ multi' = multi)
      BY <1>1 DEF ReadNothing, Due, NeverDeaf, QuietInv, TouchTypeOK
    <2>2. multi' = 0 => finger[1] = Away
      BY <1>1, <2>1 DEF ReadNothing, On, Fingers, SingleInv
    <2>3. TouchTypeOK'
      BY <1>1 DEF ReadNothing, Told, TouchTypeOK
    <2>4. NeverDeaf' /\ PressIsTouched' /\ EventInv' /\ QuietInv'
      BY <1>1 DEF ReadNothing, Due, Told, NeverDeaf, PressIsTouched, JustTold,
         EventInv, QuietInv, Pressed
    <2>5. SingleInv'
      BY <1>1, <2>1, <2>2 DEF ReadNothing, Due, SingleInv, QuietInv
    <2> QED
      BY <2>3, <2>4, <2>5
  <1>2. CASE ReadStart
    BY <1>2 DEF ReadStart, TouchTypeOK, NeverDeaf, PressIsTouched, JustTold,
       EventInv, QuietInv, SingleInv, Pressed
  <1>3. CASE ReadStatus
    <2>1. TouchTypeOK'
      BY <1>3, TouchAssumption DEF ReadStatus, Fault, TouchTypeOK
    <2>2. NeverDeaf' /\ PressIsTouched' /\ EventInv' /\ QuietInv'
      BY <1>3 DEF ReadStatus, Fault, NeverDeaf, PressIsTouched, JustTold,
         EventInv, QuietInv, Pressed
    <2>3. SingleInv'
      BY <1>3 DEF ReadStatus, Fault, SingleInv, TouchTypeOK
    <2> QED
      BY <2>1, <2>2, <2>3
  <1>4. CASE ReadPoints
    <2>1. TouchTypeOK'
      BY <1>4, TouchAssumption, TrackedIsTouch DEF ReadPoints, Fault, TouchTypeOK
    <2>2. NeverDeaf' /\ PressIsTouched' /\ QuietInv'
      BY <1>4 DEF ReadPoints, NeverDeaf, PressIsTouched, JustTold, QuietInv
    <2>3. EventInv' /\ SingleInv'
      BY <1>4, TrackedIsTouch DEF ReadPoints, Fault, EventInv, SingleInv
    <2> QED
      BY <2>1, <2>2, <2>3
  <1>5. CASE ReadClear
    <2>1. TouchTypeOK'
      BY <1>5, TouchAssumption DEF ReadClear, Fault, Quiet, Told, Pressed, TouchTypeOK
    <2>2. NeverDeaf' /\ QuietInv'
      BY <1>5 DEF ReadClear, Quiet, NeverDeaf, QuietInv, TouchTypeOK
    <2>3. EventInv' /\ SingleInv'
      BY <1>5 DEF ReadClear, Quiet, Told, EventInv, SingleInv, TouchTypeOK, Pressed
    <2>4. PressIsTouched'
      BY <1>5 DEF ReadClear, Quiet, Told, EventInv, SingleInv, PressIsTouched, JustTold,
         Pressed, Touching
    <2> QED
      BY <2>1, <2>2, <2>3, <2>4
  <1>6. CASE ReadUnflag
    BY <1>6 DEF ReadUnflag, TouchTypeOK, NeverDeaf, PressIsTouched, JustTold,
       EventInv, QuietInv, SingleInv, Pressed
  <1>7. CASE ReadEnable
    BY <1>7 DEF ReadEnable, TouchTypeOK, NeverDeaf, PressIsTouched, JustTold,
       EventInv, QuietInv, SingleInv, Pressed
  <1> QED
    BY <1>1, <1>2, <1>3, <1>4, <1>5, <1>6, <1>7 DEF Read

\* So it holds in every reachable state.
THEOREM TouchInvariant == TouchSpec => []TouchInv
  <1>1. TouchInv /\ [TouchNext]_tvars => TouchInv'
    <2> SUFFICES ASSUME TouchInv, [TouchNext]_tvars PROVE TouchInv'
      OBVIOUS
    <2>1. CASE TouchNext
      BY <2>1, FingersPreserve, ReportPreserves, ReadPreserves DEF TouchNext
    <2>2. CASE UNCHANGED tvars
      BY <2>2 DEF tvars, chip, driver, TouchInv, TouchTypeOK, NeverDeaf, PressIsTouched, JustTold, EventInv, QuietInv, SingleInv, Pressed
    <2> QED
      BY <2>1, <2>2
  <1> QED
    BY <1>1, TouchInvInit, PTL DEF TouchSpec

\* Type correctness.
THEOREM TouchTypeCorrect == TouchSpec => []TouchTypeOK
  <1>1. TouchInv => TouchTypeOK
    BY DEF TouchInv
  <1> QED
    BY <1>1, TouchInvariant, PTL

\* The panel never goes dead: touchpad_read clears the flag before it unmasks
\* the interrupt, so a masked interrupt has its flag wherever a report falls.
THEOREM TouchNeverDeaf == TouchSpec => []NeverDeaf
  <1>1. TouchInv => NeverDeaf
    BY DEF TouchInv
  <1> QED
    BY <1>1, TouchInvariant, PTL

\* No press that gt911_read_point passes on outlives its report, although
\* read_data keeps the event of the last read; and with one finger at a time
\* it is where the finger was, although status and points are read in two
\* transfers and a report may fall between them.
THEOREM TouchPressIsTouched == TouchSpec => []PressIsTouched
  <1>1. TouchInv => PressIsTouched
    BY DEF TouchInv
  <1> QED
    BY <1>1, TouchInvariant, PTL

-----------------------------------------------------------------------------
\* Why a press does not end under a finger.  Before the first finger there is
\* nothing to tell.  While LVGL believes in a press, the event of that press
\* is in read_data, and only the report of an empty panel can replace it: one
\* the fingers cannot cause without a lift.  Such a report may stay in the
\* registers when they are not cleared, but the controller has reported again
\* before the next call is due.
HeldInv ==
  /\ On = {} /\ lifted = 0 => /\ told = 0 /\ report.n = 0 /\ got = 0 /\ pre = 0
                              /\ event = "none" /\ state = 0
  /\ state = 1 /\ pc # "clear" => event \in Touching
  /\ state = 1 /\ lifted = 0 =>
       /\ report.ready = 1 /\ (pc = "status" \/ (pc = "idle" /\ beat = 1)) => report.n > 0
       /\ pc = "points" => got > 0
       /\ pc = "clear" => event \in Touching

LEMMA HeldInvInit == TouchInit => HeldInv
  BY DEF TouchInit, HeldInv, NoReport

\* Fingers and reports preserve it.
LEMMA PanelPreservesHeld ==
  TouchInv /\ HeldInv /\ ((\E i \in Fingers : PutDown(i) \/ Slide(i) \/ Lift(i)) \/ Report)
    => HeldInv'
  <1> SUFFICES ASSUME TouchInv, HeldInv,
                      (\E i \in Fingers : PutDown(i) \/ Slide(i) \/ Lift(i)) \/ Report
               PROVE  HeldInv'
    OBVIOUS
  <1>1. CASE \E i \in Fingers : PutDown(i) \/ Slide(i)
    <2>1. On' # {}
      BY <1>1, TouchAssumption DEF PutDown, Slide, On, TouchInv, TouchTypeOK, Fingers
    <2> QED
      BY <1>1, <2>1 DEF PutDown, Slide, HeldInv, driver
  <1>2. CASE \E i \in Fingers : Lift(i)
    BY <1>2 DEF Lift, HeldInv, driver
  <1>3. CASE Report
    <2>1. On' = On /\ (On = {} => Seen.n = 0) /\ (On # {} => Seen.n > 0)
      BY <1>3 DEF Report, On, Seen, Quiet, Count
    <2> QED
      BY <1>3, <2>1 DEF Report, HeldInv, driver
  <1> QED
    BY <1>1, <1>2, <1>3

\* The callback's steps preserve it, and none ends a press under a finger.
LEMMA ReadPreservesHeld ==
  TouchInv /\ HeldInv /\ Read => HeldInv' /\ (state = 1 /\ state' = 0 => lifted = 1)
  <1> SUFFICES ASSUME TouchInv, HeldInv, Read
               PROVE  HeldInv' /\ (state = 1 /\ state' = 0 => lifted = 1)
    OBVIOUS
  <1>0. lifted \in {0,1} /\ int \in {0,1} /\ beat \in {0,1} /\ got \in 0..2 /\ report.n \in 0..2
        /\ event \in {"none", "up", "down", "move"} /\ report.ready \in {0,1} /\ state \in {0,1}
    BY DEF TouchInv, TouchTypeOK
  <1>a. On' = On
    BY DEF Read, ReadNothing, ReadStart, ReadStatus, ReadPoints, ReadClear, ReadUnflag,
           ReadEnable, chip, On
  <1> USE <1>0, <1>a DEF HeldInv, driver, chip
  <1>1. CASE ReadNothing
    <2>1. On = {} /\ told = 0
      BY <1>1 DEF ReadNothing, Due, TouchInv, NeverDeaf, QuietInv
    <2> QED
      BY <1>1, <2>1 DEF ReadNothing, Due, Told
  <1>2. CASE ReadStart
    BY <1>2 DEF ReadStart, Due
  <1>3. CASE ReadStatus
    BY <1>3 DEF ReadStatus
  <1>4. CASE ReadPoints
    BY <1>4 DEF ReadPoints, Tracked, TouchDown, TouchUp, Touching, TouchInv, EventInv
  <1>5. CASE ReadClear
    BY <1>5 DEF ReadClear, Quiet, Told, Pressed, Touching
  <1>6. CASE ReadUnflag
    BY <1>6 DEF ReadUnflag
  <1>7. CASE ReadEnable
    BY <1>7 DEF ReadEnable
  <1> QED
    BY <1>1, <1>2, <1>3, <1>4, <1>5, <1>6, <1>7 DEF Read

\* A finger held or moved is one press: touchpad_read reports a release only
\* after a lift, although each call starts from "released", a call may find
\* no news and a transfer may fail.
THEOREM TouchHeldIsOnePress == TouchSpec => HeldIsOnePress
  <1>1. TouchInv /\ HeldInv /\ [TouchNext]_tvars
          => HeldInv' /\ [state = 1 /\ state' = 0 => lifted = 1]_tvars
    <2> SUFFICES ASSUME TouchInv, HeldInv, [TouchNext]_tvars
                 PROVE  HeldInv' /\ (state = 1 /\ state' = 0 => lifted = 1)
      OBVIOUS
    <2>1. CASE (\E i \in Fingers : PutDown(i) \/ Slide(i) \/ Lift(i)) \/ Report
      <3>1. state' = state
        BY <2>1 DEF PutDown, Slide, Lift, Report
      <3> QED
        BY <2>1, <3>1, PanelPreservesHeld
    <2>2. CASE Read
      BY <2>2, ReadPreservesHeld
    <2>3. CASE UNCHANGED tvars
      BY <2>3 DEF tvars, chip, driver, HeldInv, On
    <2> QED
      BY <2>1, <2>2, <2>3 DEF TouchNext
  <1>2. TouchInit => HeldInv
    BY HeldInvInit
  <1> QED
    BY <1>1, <1>2, TouchInvariant, PTL DEF TouchSpec, HeldIsOnePress
=============================================================================
