--------------------------- MODULE SdMountProofs ---------------------------
(***************************************************************************)
(* Proofs about SdMount: the hand may pull and insert cards for ever, so   *)
(* the safety properties are shown by an inductive invariant and not only  *)
(* on the states TLC met.                                                  *)
(***************************************************************************)
EXTENDS SdMount, TLAPS

Waits == {"wait_in", "wait_out"}

\* One change is dealt with at a time: it is asked for, probed, initialised or
\* answered, and only while the sd_mount thread waits.
OneChange ==
  /\ pc \notin Waits => ask = 0 /\ mail = 0 /\ dpc = "idle"
  /\ ask = 1 => mail = 0 /\ dpc = "idle"
  /\ mail = 1 => dpc = "idle"
  /\ pc \in Waits => ready = 0

\* What the detect thread knows: there is a block device exactly for a card
\* that came up, and none while the slot is probed.
DeviceHasCard ==
  /\ dev = 1 => card # 0
  /\ card # 0 => dev = 1 \/ dpc = "init"
  /\ dpc # "idle" => dev = 0
  /\ dpc = "probe" => card = 0
  /\ mounted = 1 => dev = 1

SdInv == /\ SdTypeOK /\ MountAgrees /\ HungUnanswered
         /\ OneChange /\ DeviceHasCard

\* It holds when the machine starts, with any card or none in the slot.
LEMMA SdInvInit == SdInit => SdInv
  BY DEF SdInit, SdInv, SdTypeOK, MountAgrees, HungUnanswered, Hung,
         OneChange, DeviceHasCard, Waits, Kinds

\* The hand cannot break it.
LEMMA HandPreserves == SdInv /\ (Insert \/ Pull \/ AppStart) => SdInv'
  BY DEF Insert, Pull, AppStart, thread, detect, In, SdInv, SdTypeOK, MountAgrees, HungUnanswered, Hung, OneChange, DeviceHasCard, Waits, Kinds

\* The steps of the sd_mount thread preserve it.
LEMMA ThreadPreserves == SdInv /\ SdThread => SdInv'
  <1> SUFFICES ASSUME SdInv, SdThread PROVE SdInv'
    OBVIOUS
  <1> USE DEF detect, In, SdInv, SdTypeOK, MountAgrees,
              HungUnanswered, Hung, OneChange, DeviceHasCard, Waits
  <1>1. CASE Boot
    BY <1>1 DEF Boot
  <1>2. CASE Poll
    BY <1>2 DEF Poll
  <1>3. CASE Find
    BY <1>3 DEF Find, Asked
  <1>4. CASE WaitIn
    BY <1>4 DEF WaitIn
  <1>5. CASE Mount
    BY <1>5 DEF Mount, Mountable
  <1>6. CASE GiveUp
    BY <1>6 DEF GiveUp, Asked
  <1>7. CASE WaitOut
    BY <1>7 DEF WaitOut
  <1> QED BY <1>1, <1>2, <1>3, <1>4, <1>5, <1>6, <1>7 DEF SdThread

\* The steps of the mmcsd_detect thread preserve it.
LEMMA DetectPreserves == SdInv /\ Detect => SdInv'
  <1> SUFFICES ASSUME SdInv, Detect PROVE SdInv'
    OBVIOUS
  <1> USE DEF thread, SdInv, SdTypeOK, MountAgrees,
              HungUnanswered, Hung, OneChange, DeviceHasCard, Waits
  <1>1. CASE DetectTake
    BY <1>1 DEF DetectTake
  <1>2. CASE DetectSilent
    BY <1>2 DEF DetectSilent
  <1>3. CASE DetectAnswer
    BY <1>3 DEF DetectAnswer
  <1>4. CASE DetectInit
    BY <1>4 DEF DetectInit
  <1>5. CASE DetectRemove
    BY <1>5 DEF DetectRemove
  <1> QED BY <1>1, <1>2, <1>3, <1>4, <1>5 DEF Detect

\* SdInv is inductive.
LEMMA SdInvNext == SdInv /\ [SdNext]_sdvars => SdInv'
  <1> SUFFICES ASSUME SdInv, [SdNext]_sdvars PROVE SdInv'
    OBVIOUS
  <1>1. CASE UNCHANGED sdvars
    BY <1>1 DEF sdvars, thread, detect, SdInv, SdTypeOK, MountAgrees,
                HungUnanswered, Hung, OneChange, DeviceHasCard, Waits
  <1> QED BY <1>1, HandPreserves, ThreadPreserves, DetectPreserves DEF SdNext

\* However cards are pulled and inserted, every variable keeps its type: no
\* mailbox ever holds a second mail.
THEOREM SdTypeCorrect == SdSpec => []SdTypeOK
  <1>1. SdInv => SdTypeOK
    BY DEF SdInv
  <1> QED BY <1>1, SdInvInit, SdInvNext, PTL DEF SdSpec

\* However cards are pulled and inserted, sdcard_is_ready() implies a mounted
\* file system, and that one has its block device.
THEOREM SdMountAgrees == SdSpec => []MountAgrees
  <1>1. SdInv => MountAgrees
    BY DEF SdInv
  <1> QED BY <1>1, SdInvInit, SdInvNext, PTL DEF SdSpec

\* The sd_mount thread waits in vain only after a probe without an answer.
THEOREM SdHungUnanswered == SdSpec => []HungUnanswered
  <1>1. SdInv => HungUnanswered
    BY DEF SdInv
  <1> QED BY <1>1, SdInvInit, SdInvNext, PTL DEF SdSpec
=============================================================================
