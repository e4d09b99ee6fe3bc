---------------------------- MODULE PlayerProofs ----------------------------
(***************************************************************************)
(* Proofs about Player, for any number of videos: the index stays in the   *)
(* list, the audio device is called in order, and a sleeping player whose  *)
(* status was changed can be woken.                                        *)
(***************************************************************************)
EXTENDS Player, TLAPS

\* Before PLAYER_CMD_INIT the thread sleeps; it leaves PLAYER_IDLE for good,
\* and PLAYER_READY is only seen on the way to opening a file.
IdleInv ==
    /\ gpc = "boot" \/ status = "idle"
         => gpc = "boot" /\ status = "idle" /\ ppc = "idle" /\ sem = 0 /\ playing = 0
    /\ ppc = "idle" /\ gpc # "boot" => status = "ready" /\ (gpc = "release" \/ sem > 0)
    /\ status = "ready" => ppc \in {"idle", "open"}

\* A callback past its release or its test for PLAYER_STOP finds another status.
SkipInv ==
    /\ gpc \in {"release", "next", "last", "nextset", "lastset"} => status # "stop"
    /\ gpc \in {"next", "last", "nextset", "lastset"} => after = "none"

PlayerInv == PlayerTypeOK /\ IndexInList /\ AudioInStep /\ SleeperHasToken
             /\ IdleInv /\ SkipInv

\* player_start establishes the invariant.
LEMMA PlayerInvInit == Init => PlayerInv
  BY PlayerAssumption DEF Init, PlayerInv, PlayerTypeOK, IndexInList, AudioInStep,
     SleeperHasToken, IdleInv, SkipInv

\* Next and previous stay in the list, from wherever in it they start.
LEMMA SkipStaysInList ==
    \A n \in Videos : NextOf(n) \in Videos /\ LastOf(n) \in Videos
  BY PlayerAssumption DEF Videos, NextOf, LastOf

\* Each step of the player thread preserves it, whatever status it finds.
LEMMA ThreadPreserves == PlayerInv /\ PlayerThread => PlayerInv'
  <1> SUFFICES ASSUME PlayerInv, PlayerThread PROVE PlayerInv'
    OBVIOUS
  <1> USE PlayerAssumption DEF PlayerInv, PlayerTypeOK, IndexInList, AudioInStep,
      SleeperHasToken, IdleInv, SkipInv, guiVars, sharedVars, Videos
  <1>1. CASE IdleTake
    BY <1>1 DEF IdleTake, Dispatch, Open
  <1>2. CASE PausedTake
    BY <1>2 DEF PausedTake, Dispatch, Open
  <1>3. CASE OpenDone
    BY <1>3 DEF OpenDone
  <1>4. CASE OutputDone
    BY <1>4 DEF OutputDone
  <1>5. CASE ReadDone
    BY <1>5 DEF ReadDone, Dispatch, Open
  <1>6. CASE ReadLast
    BY <1>6, SkipStaysInList DEF ReadLast, Dispatch, Open
  <1> QED BY <1>1, <1>2, <1>3, <1>4, <1>5, <1>6 DEF PlayerThread

\* Each button and each later statement of a callback preserves it.
LEMMA GuiPreserves == PlayerInv /\ (InitVideo \/ Callback \/ Press) => PlayerInv'
  <1> SUFFICES ASSUME PlayerInv, InitVideo \/ Callback \/ Press PROVE PlayerInv'
    OBVIOUS
  <1> USE PlayerAssumption DEF PlayerInv, PlayerTypeOK, IndexInList, AudioInStep,
      SleeperHasToken, IdleInv, SkipInv, threadVars, sharedVars, Videos, PlayerReady
  <1>1. CASE InitVideo
    BY <1>1 DEF InitVideo
  <1>2. CASE PressPause
    BY <1>2 DEF PressPause
  <1>3. ASSUME NEW cmd \in {"next", "last"}, PressSkip(cmd) PROVE PlayerInv'
    BY <1>3 DEF PressSkip
  <1>4. CASE SetStop
    BY <1>4 DEF SetStop
  <1>5. CASE SetRunning
    BY <1>5 DEF SetRunning
  <1>6. CASE Release
    BY <1>6 DEF Release
  <1>7. CASE SkipIndex
    BY <1>7, SkipStaysInList DEF SkipIndex
  <1>8. CASE SkipStatus
    BY <1>8 DEF SkipStatus
  <1> QED BY <1>1, <1>2, <1>3, <1>4, <1>5, <1>6, <1>7, <1>8 DEF Callback, Press

\* PlayerInv is inductive.
LEMMA PlayerInvNext == PlayerInv /\ [Next]_vars => PlayerInv'
  <1>1. PlayerInv /\ UNCHANGED vars => PlayerInv'
    BY DEF PlayerInv, PlayerTypeOK, IndexInList, AudioInStep, SleeperHasToken, IdleInv,
       SkipInv, vars, sharedVars, threadVars, guiVars
  <1> QED BY <1>1, ThreadPreserves, GuiPreserves DEF Next

\* The invariant holds in every reachable state.
LEMMA PlayerInvAlways == Spec => []PlayerInv
  BY PlayerInvInit, PlayerInvNext, PTL DEF Spec

\* For any number of videos, the variables keep their types.
THEOREM PlayerTypeCorrect == Spec => []PlayerTypeOK
  <1>1. PlayerInv => PlayerTypeOK  BY DEF PlayerInv
  <1> QED BY <1>1, PlayerInvAlways, PTL

\* For any number of videos, song_current stays in the list although both
\* threads move it.
THEOREM PlayerIndexInList == Spec => []IndexInList
  <1>1. PlayerInv => IndexInList  BY DEF PlayerInv
  <1> QED BY <1>1, PlayerInvAlways, PTL

\* For any number of videos, every audio call of the player finds the device
\* in the state the driver requires.
THEOREM PlayerAudioInStep == Spec => []AudioInStep
  <1>1. PlayerInv => AudioInStep  BY DEF PlayerInv
  <1> QED BY <1>1, PlayerInvAlways, PTL

\* For any number of videos, a command never leaves the player asleep.
THEOREM PlayerSleeperHasToken == Spec => []SleeperHasToken
  <1>1. PlayerInv => SleeperHasToken  BY DEF PlayerInv
  <1> QED BY <1>1, PlayerInvAlways, PTL
=============================================================================
