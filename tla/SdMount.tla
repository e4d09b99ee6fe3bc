------------------------------- MODULE SdMount -------------------------------
(***************************************************************************)
(* Hot plug of the memory card.  The sd_mount thread (ports/mnt.c) polls   *)
(* the card detect pin and mounts or gives up the card; it asks the        *)
(* mmcsd_detect thread (mmcsd_core.c) for that through one mailbox and     *)
(* waits for its answer, without a timeout, at another.  The app thread    *)
(* (app.c) starts WiFi when the card is ready.  A hand may pull or insert  *)
(* a card at any moment, more than once between two polls.                 *)
(***************************************************************************)
EXTENDS Naturals

\* What a card is like: a sound one; one that answers but cannot be
\* initialised; one without a file system; one that answers to nothing.
Kinds == {"good", "unreadable", "unformatted", "mute"}

VARIABLES kind,     \* what is in the slot: one of Kinds, or "none"
          pc,       \* where the sd_mount thread is
          re,       \* re_sd_check_pin: 1 while no card was seen by the loop
          found,    \* device, the result of rt_device_find
          ready,    \* g_sd_ready_flag
          dpc,      \* where the mmcsd_detect thread is
          card,     \* host->card: 0 null, 1 the card in the slot, 2 a card since pulled
          dev,      \* 1 while the block device "sd" is registered
          mounted,  \* 1 while a file system is mounted at "/"
          ask,      \* mails in mmcsd_detect_mb
          mail,     \* mails in mmcsd_hotpluge_mb
          app,      \* the app thread: 0 waiting for the card, 1 WiFi started
          silent    \* history: 1 if the last probe was not answered

thread == <<pc, re, found, ready>>
detect == <<dpc, card, dev, mounted, silent>>
sdvars == <<kind, thread, detect, ask, mail, app>>

SdInit ==
  /\ kind \in Kinds \cup {"none"}
  /\ pc = "boot" /\ re = 1 /\ found = 0 /\ ready = 0
  /\ dpc = "idle" /\ card = 0 /\ dev = 0 /\ mounted = 0 /\ silent = 0
  /\ ask = 0 /\ mail = 0 /\ app = 0

In == kind # "none"       \* the pin reads 0

-----------------------------------------------------------------------------
(***************************************************************************)
(* The hand                                                                *)
(***************************************************************************)
Insert == kind = "none" /\ kind' \in Kinds /\ UNCHANGED <<thread, detect, ask, mail, app>>

Pull ==
  /\ In /\ kind' = "none"
  /\ card' = IF card = 1 THEN 2 ELSE card
  /\ UNCHANGED <<thread, dpc, dev, mounted, silent, ask, mail, app>>

-----------------------------------------------------------------------------
(***************************************************************************)
(* The sd_mount thread                                                     *)
(***************************************************************************)
\* The one look at the pin before the loop; re_sd_check_pin stays 1.
Boot ==
  /\ pc = "boot"
  /\ pc' = IF In THEN "find" ELSE "poll"
  /\ UNCHANGED <<kind, re, found, ready, detect, ask, mail, app>>

\* Mutant of Poll: once a card was seen the pin is not read again.
PollOnce ==
  /\ pc = "poll"
  /\ re' = IF re = 1 /\ ~ In THEN 1 ELSE 0
  /\ pc' = IF re = 1 /\ In THEN "find" ELSE "poll"
  /\ UNCHANGED <<kind, found, ready, detect, ask, mail, app>>

\* One turn of the loop: a card where there was none, or none where one was.
Poll ==
  /\ pc = "poll"
  /\ re' = IF In THEN 0 ELSE 1
  /\ pc' = CASE re = 1 /\ In   -> "find"
             [] re = 0 /\ ~ In -> "giveup"
             [] OTHER          -> "poll"
  /\ UNCHANGED <<kind, found, ready, detect, ask, mail, app>>

\* mmcsd_wait_cd_changed(0); sdcard_change().
Asked == ask' = ask + 1 /\ mail' = IF mail > 0 THEN mail - 1 ELSE 0

\* _sdcard_mount: take the device that is there, or ask for one.
Find ==
  /\ pc = "find" /\ found' = dev
  /\ \/ dev = 1 /\ pc' = "mount" /\ UNCHANGED <<ask, mail>>
     \/ dev = 0 /\ pc' = "wait_in" /\ Asked
  /\ UNCHANGED <<kind, re, ready, detect, app>>

\* Mutant of WaitIn: the device is not looked for again.
WaitInNoFind ==
  /\ pc = "wait_in" /\ mail > 0
  /\ mail' = mail - 1 /\ pc' = "mount"
  /\ UNCHANGED <<kind, re, found, ready, detect, ask, app>>

\* mmcsd_wait_cd_changed(RT_WAITING_FOREVER); rt_device_find("sd").
WaitIn ==
  /\ pc = "wait_in" /\ mail > 0
  /\ mail' = mail - 1 /\ found' = dev /\ pc' = "mount"
  /\ UNCHANGED <<kind, re, ready, detect, ask, app>>

\* dfs_mount: refused while something is mounted there; the card must be the
\* one that was initialised and hold a file system.
Mountable == mounted = 0 /\ dev = 1 /\ card = 1 /\ kind = "good"

\* A second later: dfs_mount, if there is a device.
Mount ==
  /\ pc = "mount" /\ pc' = "poll"
  /\ \/ found = 1 /\ Mountable /\ mounted' = 1 /\ ready' = 1
     \/ ~ (found = 1 /\ Mountable) /\ UNCHANGED <<mounted, ready>>
  /\ UNCHANGED <<kind, re, found, dpc, card, dev, silent, ask, mail, app>>

\* Mutant of GiveUp: the flag is cleared when all is over.
GiveUpLate ==
  /\ pc = "giveup" /\ (ready = 1 => app = 1)
  /\ pc' = "wait_out" /\ Asked
  /\ UNCHANGED <<kind, re, found, ready, detect, app>>

\* _sdcard_unmount.  dfs_unmount("/sdcard") finds nothing mounted there.  The
\* 200 ms delay before it outlasts the app thread's 10 ms poll.
GiveUp ==
  /\ pc = "giveup" /\ (ready = 1 => app = 1)
  /\ pc' = "wait_out" /\ ready' = 0 /\ Asked
  /\ UNCHANGED <<kind, re, found, detect, app>>

WaitOut ==
  /\ pc = "wait_out" /\ mail > 0
  /\ mail' = mail - 1 /\ pc' = "poll"
  /\ UNCHANGED <<kind, re, found, ready, detect, ask, app>>

-----------------------------------------------------------------------------
(***************************************************************************)
(* The mmcsd_detect thread                                                 *)
(***************************************************************************)
\* No card known: power up and ask the slot who is there.
DetectTake ==
  /\ dpc = "idle" /\ ask > 0 /\ card = 0
  /\ ask' = ask - 1 /\ dpc' = "probe"
  /\ UNCHANGED <<kind, thread, card, dev, mounted, silent, mail, app>>

\* Nothing answers (or an SDIO card does): no mail is sent.
DetectSilent ==
  /\ dpc = "probe" /\ kind \in {"none", "mute"}
  /\ dpc' = "idle" /\ silent' = 1
  /\ UNCHANGED <<kind, thread, card, dev, mounted, ask, mail, app>>

DetectAnswer ==
  /\ dpc = "probe" /\ kind \notin {"none", "mute"}
  /\ dpc' = "init" /\ card' = 1 /\ silent' = 0
  /\ UNCHANGED <<kind, thread, dev, mounted, ask, mail, app>>

\* Mutant of DetectInit: a mail only for a card that came up.
DetectInitMailsSuccess ==
  /\ dpc = "init" /\ dpc' = "idle"
  /\ \/ card = 1 /\ kind # "unreadable" /\ dev' = 1 /\ mail' = mail + 1 /\ UNCHANGED card
     \/ (card = 2 \/ kind = "unreadable") /\ card' = 0 /\ UNCHANGED <<dev, mail>>
  /\ UNCHANGED <<kind, thread, mounted, silent, ask, app>>

\* init_sd: registers the block device, or forgets a card that fails or was
\* pulled meanwhile; the mail is sent in both cases.
DetectInit ==
  /\ dpc = "init" /\ dpc' = "idle" /\ mail' = mail + 1
  /\ \/ card = 1 /\ kind # "unreadable" /\ dev' = 1 /\ UNCHANGED card
     \/ (card = 2 \/ kind = "unreadable") /\ card' = 0 /\ UNCHANGED dev
  /\ UNCHANGED <<kind, thread, mounted, silent, ask, app>>

\* A card is known: it is taken for removed.  rt_mmcsd_blk_remove unmounts
\* what is mounted on the device and unregisters it.
DetectRemove ==
  /\ dpc = "idle" /\ ask > 0 /\ card # 0
  /\ ask' = ask - 1 /\ mail' = mail + 1
  /\ card' = 0 /\ dev' = 0 /\ mounted' = 0
  /\ UNCHANGED <<kind, thread, dpc, silent, app>>

Detect == DetectTake \/ DetectSilent \/ DetectAnswer \/ DetectInit \/ DetectRemove

-----------------------------------------------------------------------------
\* app_thread_entry: wifi_init and the LEDs once the card is ready.
AppStart ==
  /\ app = 0 /\ ready = 1 /\ app' = 1
  /\ UNCHANGED <<kind, thread, detect, ask, mail>>

SdThread == Boot \/ Poll \/ Find \/ WaitIn \/ Mount \/ GiveUp \/ WaitOut

SdNext == Insert \/ Pull \/ SdThread \/ Detect \/ AppStart

\* The two threads and the app thread are scheduled; the hand need not move.
SdSpec     == SdInit /\ [][SdNext]_sdvars
SdFairSpec == SdSpec /\ WF_sdvars(SdThread) /\ WF_sdvars(Detect) /\ WF_sdvars(AppStart)

-----------------------------------------------------------------------------
\* Type invariant: each mailbox holds at most the one mail it needs.
SdTypeOK ==
  /\ kind \in Kinds \cup {"none"}
  /\ pc \in {"boot", "poll", "find", "wait_in", "mount", "giveup", "wait_out"}
  /\ dpc \in {"idle", "probe", "init"}
  /\ card \in {0, 1, 2}
  /\ <<re, found, ready, dev, mounted, ask, mail, app, silent>> \in
       {0,1} \X {0,1} \X {0,1} \X {0,1} \X {0,1} \X {0,1} \X {0,1} \X {0,1} \X {0,1}

\* Whoever sees the ready flag finds a mounted file system, and a mounted file
\* system has its block device and card, however often cards are pulled and
\* inserted: a path looked up in dfs never leads to a device that
\* rt_mmcsd_blk_remove has freed (files left open from before are another matter).
MountAgrees ==
  /\ ready = 1 => mounted = 1
  /\ mounted = 1 => dev = 1 /\ card # 0

\* The sd_mount thread waits for a mail nobody will send.
Hung == pc \in {"wait_in", "wait_out"} /\ ask = 0 /\ mail = 0 /\ dpc = "idle"

\* The wait without a timeout ends for good only when a probe was not
\* answered (mmcsd_detect sends no mail then); the machine is then without a
\* card and says so.
HungUnanswered == Hung => silent = 1 /\ card = 0 /\ ready = 0

\* A sound card put into an empty slot the threads know to be empty is
\* mounted, or pulled again before.
CardMounts ==
  (pc = "poll" /\ re = 1 /\ card = 0 /\ kind = "good") ~> (ready = 1 \/ kind # "good")

\* A card the loop has seen that is pulled and stays out is given up: ready
\* falls, the file system is unmounted and the device goes (_sdcard_unmount).
PullIsSeen ==
  (pc = "poll" /\ re = 0 /\ ~ In) ~> (In \/ (ready = 0 /\ dev = 0 /\ mounted = 0))
=============================================================================
