-------------------------------- MODULE Touch --------------------------------
(***************************************************************************)
(* The touch panel: LVGL's read callback (lvgl/lv_port_indev.c), the       *)
(* interrupt that feeds it and the GT911 driver below (gt911.c).  The      *)
(* interrupt sets a flag and masks itself; the callback reads the          *)
(* controller, clears the flag and unmasks it.  Flag and mask are shared   *)
(* with the interrupt and the controller's registers with the controller,  *)
(* which reports whenever it likes.  Up to two fingers: the controller     *)
(* numbers them, the driver follows number 0 only.                         *)
(***************************************************************************)
EXTENDS Naturals

CONSTANTS Spots,       \* places a finger may be at
          MaxFaults    \* bound: I2C transfers that fail

Corner  == "corner"    \* the place of a point that was not read: x = y = 0
Away    == "away"
Fingers == {0, 1}

ASSUME TouchAssumption == Corner \notin Spots /\ Away \notin Spots /\ MaxFaults \in Nat

VARIABLES finger,   \* [Fingers -> Spots or Away]: the fingers on the panel
          report,   \* the controller's registers: ready, how many fingers, the first one
          told,     \* the number of fingers the controller reported last
          beat,     \* 1 if it has reported since the last read was over
          flag,     \* touch_detect_flag
          int,      \* 1 while the interrupt is enabled
          pc,       \* where the read callback is
          got,      \* touch_num, while the registers are read
          event,    \* read_data->event
          at,       \* read_data's coordinates
          down,     \* s_tp_dowm[0]
          pre,      \* pre_touch
          state,    \* what LVGL was told last: 1 pressed
          point,    \* where
          lifted,   \* history: 1 if a finger was lifted since LVGL was last told with one on
          sound,    \* history: 1 if the registers were read without an error
          multi,    \* history: 1 if a second finger touched since the panel was last quiet
          faults

chip   == <<finger, report, told, beat>>
driver == <<got, event, at, down, pre, sound>>
tvars  == <<chip, flag, int, pc, driver, state, point, lifted, multi, faults>>

NoReport == [ready |-> 0, n |-> 0, id |-> 0, spot |-> Corner]

TouchInit ==
  /\ finger = [i \in Fingers |-> Away] /\ report = NoReport /\ told = 0 /\ beat = 0
  /\ flag = 0 /\ int = 1 /\ pc = "idle"
  /\ got = 0 /\ event = "none" /\ at = Corner /\ down = 0 /\ pre = 0 /\ sound = 0
  /\ state = 0 /\ point = Corner /\ lifted = 0 /\ multi = 0 /\ faults = 0

-----------------------------------------------------------------------------
(***************************************************************************)
(* The fingers and the controller                                          *)
(***************************************************************************)
On == { i \in Fingers : finger[i] # Away }

\* A new finger gets the lowest free number.
PutDown(i) ==
  /\ i \notin On /\ (i = 1 => 0 \in On)
  /\ \E s \in Spots : finger' = [finger EXCEPT ![i] = s]
  /\ multi' = IF i = 1 THEN 1 ELSE multi
  /\ UNCHANGED <<report, told, beat, flag, int, pc, driver, state, point, lifted, faults>>

Slide(i) ==
  /\ i \in On
  /\ \E s \in Spots \ {finger[i]} : finger' = [finger EXCEPT ![i] = s]
  /\ UNCHANGED <<report, told, beat, flag, int, pc, driver, state, point, lifted, multi, faults>>

Lift(i) ==
  /\ i \in On /\ finger' = [finger EXCEPT ![i] = Away] /\ lifted' = 1
  /\ UNCHANGED <<report, told, beat, flag, int, pc, driver, state, point, multi, faults>>

Count == IF On = Fingers THEN 2 ELSE IF On = {} THEN 0 ELSE 1
Lowest == IF 0 \in On THEN 0 ELSE 1
Quiet(r) == [ready |-> r, n |-> 0, id |-> report.id, spot |-> report.spot]
Seen == IF On = {} THEN Quiet(1)
        ELSE [ready |-> 1, n |-> Count, id |-> Lowest, spot |-> finger[Lowest]]

\* The controller reports while fingers are on and once when the last is
\* gone; its edge raises rx_callback, unless the interrupt is masked.
Report ==
  /\ On # {} \/ told # 0
  /\ report' = Seen /\ told' = Count /\ beat' = 1
  /\ flag' = IF int = 1 THEN 1 ELSE flag
  /\ int' = 0
  /\ UNCHANGED <<finger, pc, driver, state, point, lifted, multi, faults>>

-----------------------------------------------------------------------------
(***************************************************************************)
(* touchpad_read, called by LVGL every 30 ms with a zeroed result          *)
(***************************************************************************)
\* The controller reports every 10 ms: between two calls it has done so.
Due == pc = "idle" /\ (beat = 1 \/ (On = {} /\ told = 0))

Told(s, p) == state' = s /\ point' = p /\ lifted' = IF On = {} THEN lifted ELSE 0

\* Mutant of ReadNothing: without news the last state stands.
ReadNothingKeeps ==
  /\ Due /\ flag # 1
  /\ Told(state, point) /\ beat' = 0
  /\ multi' = IF On = {} THEN 0 ELSE multi
  /\ UNCHANGED <<finger, report, told, flag, int, pc, driver, faults>>

ReadNothing ==
  /\ Due /\ flag # 1
  /\ Told(0, point) /\ beat' = 0
  /\ multi' = IF On = {} THEN 0 ELSE multi
  /\ UNCHANGED <<finger, report, told, flag, int, pc, driver, faults>>

\* Mutant of ReadStart: the flag is cleared before the read.
ReadStartUnflags ==
  /\ Due /\ flag = 1 /\ flag' = 0
  /\ pc' = "status"
  /\ UNCHANGED <<chip, int, driver, state, point, lifted, multi, faults>>

ReadStart ==
  /\ Due /\ flag = 1
  /\ pc' = "status"
  /\ UNCHANGED <<chip, flag, int, driver, state, point, lifted, multi, faults>>

Fault == faults < MaxFaults /\ faults' = faults + 1

\* gt911_read_point: the status register; an error or no data skips the rest.
ReadStatus ==
  /\ pc = "status"
  /\ \/ report.ready = 1 /\ got' = report.n /\ pc' = "points" /\ UNCHANGED <<sound, faults>>
     \/ report.ready = 0 /\ pc' = "clear" /\ sound' = 0 /\ UNCHANGED <<got, faults>>
     \/ Fault /\ pc' = "clear" /\ sound' = 0 /\ UNCHANGED got
  /\ UNCHANGED <<chip, flag, int, event, at, down, pre, state, point, lifted, multi>>

\* Mutant of TouchUp: the event of the last read stays.
TouchUpKeepsEvent(d, n) == [event |-> event, at |-> at, down |-> 0]

\* gt911_touch_up, once for each of the n fingers of the last report: all of
\* them have number 0, so a second call finds it up already.
TouchUp(d, n) == [event |-> IF d = 1 /\ n = 1 THEN "up" ELSE "none", at |-> at, down |-> 0]

\* gt911_touch_down for each of the n points of this report.  read_num is 1:
\* only the first point was read, the others are finger 0 in the corner.
\* A point of another finger is skipped.
TouchDown(d, n, id, spot) ==
  IF n = 1 /\ id # 0 THEN [event |-> event, at |-> at, down |-> d]
  ELSE [event |-> IF d = 1 \/ (n > 1 /\ id = 0) THEN "move" ELSE "down",
        at |-> IF n > 1 THEN Corner ELSE spot, down |-> 1]

Tracked(n, r) ==
  IF n > 0 THEN TouchDown(down, n, r.id, r.spot)
  ELSE IF pre > 0 THEN TouchUp(down, pre)
  ELSE [event |-> event, at |-> at, down |-> down]

\* The point registers, which may be newer than the status; then the
\* comparison with the last report.
ReadPoints ==
  /\ pc = "points" /\ pc' = "clear"
  /\ \/ LET t == Tracked(got, report) IN
        /\ event' = t.event /\ at' = t.at /\ down' = t.down /\ pre' = got /\ sound' = 1
        /\ UNCHANGED faults
     \/ Fault /\ sound' = 0 /\ UNCHANGED <<event, at, down, pre>>
  /\ UNCHANGED <<chip, flag, int, got, state, point, lifted, multi>>

\* Mutant of Pressed: only the first event of a touch counts.
PressedFirst(e) == IF e = "down" THEN 1 ELSE 0

Pressed(e) == IF e \in {"down", "move"} THEN 1 ELSE 0

\* The status register is cleared in every case; whether the transfer fails
\* is not looked at, and the report read then stays in the registers.  Without
\* an event the callback returns, the flag still set and the interrupt masked.
ReadClear ==
  /\ pc = "clear"
  /\ \/ report' = Quiet(0) /\ UNCHANGED faults
     \/ Fault /\ UNCHANGED report
  /\ \/ event = "none" /\ Told(0, point) /\ pc' = "idle" /\ beat' = 0
     \/ event # "none" /\ Told(Pressed(event), at) /\ pc' = "unflag" /\ UNCHANGED beat
  /\ UNCHANGED <<finger, told, flag, int, driver, multi>>

ReadUnflag ==
  /\ pc = "unflag" /\ flag' = 0 /\ pc' = "enable"
  /\ UNCHANGED <<chip, int, driver, state, point, lifted, multi, faults>>

ReadEnable ==
  /\ pc = "enable" /\ int' = 1 /\ pc' = "idle" /\ beat' = 0
  /\ UNCHANGED <<finger, report, told, flag, driver, state, point, lifted, multi, faults>>

Read == \/ ReadNothing \/ ReadStart \/ ReadStatus \/ ReadPoints
        \/ ReadClear \/ ReadUnflag \/ ReadEnable

TouchNext ==
  \/ \E i \in Fingers : PutDown(i) \/ Slide(i) \/ Lift(i)
  \/ Report \/ Read

TouchSpec     == TouchInit /\ [][TouchNext]_tvars
TouchFairSpec == TouchSpec /\ WF_tvars(Report) /\ WF_tvars(Read)

-----------------------------------------------------------------------------
\* Type invariant.
TouchTypeOK ==
  /\ finger \in [Fingers -> Spots \cup {Away}]
  /\ report \in [ready : {0,1}, n : 0..2, id : Fingers, spot : Spots \cup {Corner}]
  /\ told \in 0..2 /\ got \in 0..2 /\ pre \in 0..2 /\ faults \in 0..MaxFaults
  /\ beat \in {0,1} /\ flag \in {0,1} /\ int \in {0,1} /\ down \in {0,1}
  /\ state \in {0,1} /\ lifted \in {0,1} /\ multi \in {0,1} /\ sound \in {0,1}
  /\ pc \in {"idle", "status", "points", "clear", "unflag", "enable"}
  /\ event \in {"none", "up", "down", "move"}
  /\ at \in Spots \cup {Corner} /\ point \in Spots \cup {Corner}

\* A masked interrupt always leaves the flag that makes the next call read
\* the controller and unmask it: the panel never goes dead, wherever the
\* interrupt falls between the callback's last two statements.
NeverDeaf == int = 0 => flag = 1 \/ pc = "enable"

\* LVGL was just told what a read without an error found.
JustTold == sound = 1 /\ pc \in {"unflag", "enable"}

\* After a read without an error LVGL is told of a press only if the
\* controller counted a finger, and where that finger was, as long as one
\* finger touches at a time; of a second finger no point is read, and the
\* press goes to the corner of the screen.
PressIsTouched == JustTold /\ state = 1 => got > 0 /\ (multi = 0 => point \in Spots)

\* LVGL sees a release only after a finger was lifted: a finger held or moved
\* is one press, although each call starts from a zeroed "released" result
\* and transfers may fail (long press, drag, swipe of the screens).
HeldIsOnePress == [][state = 1 /\ state' = 0 => lifted = 1]_tvars

\* A touch is seen as a press, or was lifted again; when the last finger is
\* gone LVGL sees the release, or a new touch begins.
TouchFollowed ==
  /\ (0 \in On) ~> (state = 1 \/ 0 \notin On)
  /\ (On = {}) ~> (state = 0 \/ On # {})
=============================================================================
