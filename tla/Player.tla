------------------------------- MODULE Player -------------------------------
(***************************************************************************)
(* The AVI player: player_entry, the "player" thread of ports/avi/player/  *)
(* player.c, and the buttons of lvgl/demo/video/lv_demo_video.c that       *)
(* command it through player_control.                                      *)
(*                                                                         *)
(* The two threads share status and song_current and the semaphore         *)
(* sem_play.  The player (priority 18) preempts the LVGL thread (20), so   *)
(* the LVGL thread runs only while the player is blocked: in sem_take, or  *)
(* on the card or the decoders while it opens a file, outputs a frame or   *)
(* reads the next.  A player action runs from one such place to the next;  *)
(* a button callback is cut where the player may preempt it.               *)
(*                                                                         *)
(* A video is its number in video_list, from 1 as song_current counts.     *)
(* The files are taken to be AVI files that parse; volume, progress and    *)
(* the file browser are left out.                                          *)
(***************************************************************************)
EXTENDS Naturals

CONSTANTS NumVideos,  \* video_num: .avi files found by search_files
          MaxTokens   \* RT_SEM_VALUE_MAX

ASSUME PlayerAssumption == NumVideos \in Nat \ {0} /\ MaxTokens \in Nat \ {0}

VARIABLES
    status,   \* player->status
    current,  \* player->song_current
    sem,      \* value of sem_play
    ppc,      \* where the player thread is blocked
    playing,  \* the video behind fd (0: none yet)
    audio,    \* PWM audio device: "off", "on" or "paused"
    gpc,      \* where the LVGL thread is inside a callback
    after,    \* what a callback does once player_play is done
    icon      \* play_state_change: "play" or "pause"

sharedVars == <<status, current, sem>>
threadVars == <<ppc, playing, audio>>
guiVars    == <<gpc, after, icon>>
vars       == <<sharedVars, threadVars, guiVars>>

Videos == 1..NumVideos

\* player_start, after which the thread sleeps in its PLAYER_IDLE branch.
Init ==
    /\ status = "idle" /\ current = 0 /\ sem = 0
    /\ ppc = "idle" /\ playing = 0 /\ audio = "off"
    /\ gpc = "boot" /\ after = "none" /\ icon = "play"

\* Mutant of NextOf: the wrap goes to 0.
NextOfZero(n) == IF n < NumVideos THEN n + 1 ELSE 0

\* player_next and player_last: the new song_current.
NextOf(n) == IF n < NumVideos THEN n + 1 ELSE 1
LastOf(n) == IF n > 1 THEN n - 1 ELSE NumVideos

-----------------------------------------------------------------------------
(* The player thread.                                                      *)

\* The branches of player_entry from one blocking place to the next, for the
\* status s and the current video c found there.  Closing a file ends in
\* PLAYER_READY, and that in opening the current one.
Open(c) == ppc' = "open" /\ playing' = c /\ status' = "ready"
Dispatch(s, c, dev) ==
    \/ s = "ready" /\ Open(c) /\ audio' = dev
    \/ s = "running" /\ ppc' = "output" /\ status' = s /\ playing' = playing /\ audio' = dev
    \/ s = "stop" /\ ppc' = "paused" /\ status' = s /\ playing' = playing /\ audio' = "paused"
    \/ s \in {"next", "last"} /\ Open(c) /\ audio' = "off"
    \/ s = "idle" /\ ppc' = "idle" /\ status' = s /\ playing' = playing /\ audio' = dev

\* rt_sem_take in the PLAYER_IDLE branch returns.
IdleTake ==
    /\ ppc = "idle" /\ sem > 0
    /\ sem' = sem - 1
    /\ Dispatch(status, current, audio)
    /\ UNCHANGED <<current, guiVars>>

\* Mutant of PausedTake: the device is not started again.
PausedTakeSilent ==
    /\ ppc = "paused" /\ sem > 0
    /\ sem' = sem - 1
    /\ Dispatch(status, current, audio)
    /\ UNCHANGED <<current, guiVars>>

\* rt_sem_take in the PLAYER_STOP branch returns; pwm_audio_start follows.
PausedTake ==
    /\ ppc = "paused" /\ sem > 0
    /\ sem' = sem - 1
    /\ Dispatch(status, current, "on")
    /\ UNCHANGED <<current, guiVars>>

\* video_start_parser is done: audio runs, and the status is overwritten.
OpenDone ==
    /\ ppc = "open"
    /\ audio' = "on" /\ status' = "running" /\ ppc' = "output"
    /\ UNCHANGED <<current, sem, playing, guiVars>>

\* JPEG_Draw_frame or pwm_audio_write is done.
OutputDone ==
    /\ ppc = "output"
    /\ ppc' = "read"
    /\ UNCHANGED <<sharedVars, playing, audio, guiVars>>

\* read_video_frame is done and the video goes on.
ReadDone ==
    /\ ppc = "read"
    /\ Dispatch(status, current, audio)
    /\ UNCHANGED <<current, sem, guiVars>>

\* "if video was play over,play next video": player_next by the player.
ReadLast ==
    /\ ppc = "read"
    /\ current' = NextOf(current)
    /\ Dispatch("next", current', audio)
    /\ UNCHANGED <<sem, guiVars>>

-----------------------------------------------------------------------------
(* The LVGL thread.                                                        *)

PlayerReady == ppc \in {"idle", "paused"} /\ sem > 0

\* auto_run_video_timer_cb: PLAYER_CMD_INIT with the first video; interrupts
\* are off until the index is set, then the semaphore is released.
InitVideo ==
    /\ gpc = "boot" /\ ~PlayerReady
    /\ status' = "ready" /\ current' = 1
    /\ gpc' = "release" /\ after' = "none"
    /\ UNCHANGED <<sem, threadVars, icon>>

\* The pause button: toggle the picture, then player_play or player_stop,
\* whose test of the status comes before its critical section.
PressPause ==
    /\ gpc = "idle" /\ ~PlayerReady
    /\ icon' = IF icon = "play" THEN "pause" ELSE "play"
    /\ gpc' = IF icon' = "play"
              THEN IF status # "running" THEN "play" ELSE "idle"
              ELSE IF status = "running" THEN "stop" ELSE "idle"
    /\ after' = "none"
    /\ UNCHANGED <<sharedVars, threadVars>>

\* Mutant of PressSkip: a paused player is not resumed first.
PressSkipAsleep(cmd) ==
    /\ gpc = "idle" /\ ~PlayerReady
    /\ gpc' = cmd /\ after' = "none"
    /\ UNCHANGED <<sharedVars, threadVars, icon>>

\* The next and previous buttons (cmd): resume a paused player first.
PressSkip(cmd) ==
    /\ gpc = "idle" /\ ~PlayerReady
    /\ IF status = "stop" THEN gpc' = "play" /\ after' = cmd
                          ELSE gpc' = cmd /\ after' = "none"
    /\ UNCHANGED <<sharedVars, threadVars, icon>>

SetStop ==
    /\ gpc = "stop" /\ ~PlayerReady
    /\ status' = "stop" /\ gpc' = "idle"
    /\ UNCHANGED <<current, sem, threadVars, after, icon>>

SetRunning ==
    /\ gpc = "play" /\ ~PlayerReady
    /\ status' = "running" /\ gpc' = "release"
    /\ UNCHANGED <<current, sem, threadVars, after, icon>>

\* rt_sem_release(player->sem_play), then the rest of the callback.
Release ==
    /\ gpc = "release" /\ ~PlayerReady
    /\ sem' = IF sem < MaxTokens THEN sem + 1 ELSE sem
    /\ gpc' = IF after = "none" THEN "idle" ELSE after
    /\ after' = "none"
    /\ UNCHANGED <<status, current, threadVars, icon>>

\* player_next and player_last: the index with interrupts off ...
SkipIndex ==
    /\ gpc \in {"next", "last"} /\ ~PlayerReady
    /\ current' = IF gpc = "next" THEN NextOf(current) ELSE LastOf(current)
    /\ gpc' = IF gpc = "next" THEN "nextset" ELSE "lastset"
    /\ UNCHANGED <<status, sem, threadVars, after, icon>>

\* ... and the status after them.
SkipStatus ==
    /\ gpc \in {"nextset", "lastset"} /\ ~PlayerReady
    /\ status' = IF gpc = "nextset" THEN "next" ELSE "last"
    /\ gpc' = "idle"
    /\ UNCHANGED <<current, sem, threadVars, after, icon>>

-----------------------------------------------------------------------------
PlayerThread == IdleTake \/ PausedTake \/ OpenDone \/ OutputDone \/ ReadDone
                \/ ReadLast
Callback == SetStop \/ SetRunning \/ Release \/ SkipIndex \/ SkipStatus
Press == PressPause \/ \E cmd \in {"next", "last"} : PressSkip(cmd)

Next == PlayerThread \/ InitVideo \/ Callback \/ Press
Spec == Init /\ [][Next]_vars

\* The card and the decoders answer, so the player goes on; it blocks often
\* enough for a callback that has started to finish (a callback is disabled
\* only while the player is ready, hence strong fairness).
FairSpec == Spec /\ WF_vars(PlayerThread) /\ SF_vars(Callback)

-----------------------------------------------------------------------------
(* Properties.                                                             *)

\* Every variable has its type.
PlayerTypeOK ==
    /\ status \in {"idle", "ready", "running", "stop", "next", "last"}
    /\ current \in Nat /\ sem \in 0..MaxTokens
    /\ ppc \in {"idle", "open", "output", "read", "paused"}
    /\ playing \in Nat /\ audio \in {"off", "on", "paused"}
    /\ gpc \in {"boot", "idle", "play", "stop", "release", "next", "last",
                "nextset", "lastset"}
    /\ after \in {"none", "next", "last"} /\ icon \in {"play", "pause"}

\* The index both threads move without a common lock never leaves the list:
\* video_list[song_current - 1] is a file whenever the player may read it.
IndexInList == gpc # "boot" => current \in Videos /\ playing \in Videos \cup {0}

\* Whatever the buttons do to the status while the player is blocked, each
\* audio call finds the device as it must be: closed when it is initialised,
\* running when it is written, stopped and started in turn (the assertion of
\* pwm_audio_start), never stopped or written when closed.
AudioInStep ==
    /\ ppc \in {"idle", "open"} => audio = "off"
    /\ ppc \in {"output", "read"} => audio = "on"
    /\ ppc = "paused" => audio = "paused"

\* A player asleep on sem_play whose status has been changed has a token to
\* wake it, or the callback is about to release one: no command is slept over.
SleeperHasToken ==
    (ppc = "idle" /\ status # "idle") \/ (ppc = "paused" /\ status # "stop")
        => sem > 0 \/ gpc = "release"

\* A paused player that was told to go on does so.
ResumeWakes == ppc = "paused" /\ status # "stop" ~> ppc # "paused"

\* player.h on song_current: "Playing video".  With no command in progress,
\* the video being output is the current one.
PlayingIsCurrent ==
    gpc = "idle" /\ ppc = "output" /\ status = "running" => playing = current
=============================================================================
