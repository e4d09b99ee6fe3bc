------------------------------- MODULE Settings -------------------------------
(***************************************************************************)
(* The settings on the memory card and the threads that use them:          *)
(* app/app_file_ini.c over minIni (module MiniIni) over the file layer     *)
(* (dfs_file.c, dfs_elm.c).  A thread that saves is the LVGL thread (the   *)
(* settings screen, the relay address of the AI screen) or the shell; one  *)
(* of them saves at a time, nothing else is serialised.  The wifi thread   *)
(* polls for credentials until it connects; the AI worker loads the relay  *)
(* address before a request.  Power may fail between any two steps.        *)
(*                                                                         *)
(* Opening a path that some thread has open joins its vnode and leaves the *)
(* new descriptor without a file object (dfs_elm_open returns before it    *)
(* makes one); the first use of that descriptor stops the thread in        *)
(* RT_ASSERT.                                                              *)
(*                                                                         *)
(* Every file is shorter than a sector, and FatFs takes such a text whole  *)
(* or not at all: f_write fails only before it copies anything (no free    *)
(* cluster, an error on the card), the directory entry gets the new size   *)
(* in f_sync when the file is closed, and if that fails the file is as     *)
(* long as it was, after a truncation empty.                               *)
(***************************************************************************)
EXTENDS MiniIni, FiniteSets

CONSTANTS Savers,       \* threads that save
          Loaders,      \* threads that load the relay address
          Wifi,         \* the wifi thread
          Earlier,      \* what data.ini may hold at first: lines, <<>> for no file
          MaxSaves,     \* bound: saves
          MaxFaults     \* bound: failing opens and writes, and power failures

Threads == Savers \cup Loaders \cup {Wifi}
Keys    == {"ssid", "password", "host", "port"}

Values  == 1..MaxSaves                    \* numbered in the order they are first saved
Files   == {"ini", "tmp", "txt", "alt"}   \* data.ini, data.in~, /ai_relay.txt, ai_relay.ini
Lines   == {"sec", "key", "blank", "missing"} \X (Keys \cup {"data", "relay", ""}) \X (Values \cup {0})

ASSUME SettingsAssumption ==
  /\ Wifi \notin Savers \cup Loaders
  /\ MaxSaves \in Nat /\ MaxFaults \in Nat
  /\ Width \in [Keys -> [Values -> Nat]]
  /\ \A f \in Earlier : f \in Seq(Lines) /\ WellFormed(f)    \* an earlier run wrote it

Missing == << <<"missing", "", 0>> >>     \* no such file
Closed  == 0
Bound   == 1                              \* a descriptor with a file object
Empty   == 2                              \* a descriptor without one

VARIABLES disk,     \* [Files -> lines or Missing]: what the card holds
          fd,       \* [Threads -> [Files -> descriptor]]
          pc,       \* where each thread is
          rd,       \* the load each thread carries out: for what, which file, which key
          call,     \* the save each saver carries out: value, key in hand, undisturbed so far
          saves, faults,
          kept,     \* history: the value last reported saved in data.ini, per key; 0 if none
          address,  \* history: the relay address last reported saved; 0 if none
          due,      \* history: the address a load has to find, 0 when failures or
                    \* readers since the last report leave none certain
          torn,     \* history: power failed while data.ini was away
          lost      \* history: a failed open or write took data.ini with it

svars == <<disk, fd, pc, rd, call, saves, faults, kept, address, due, torn, lost>>
hist  == <<kept, address, due, torn, lost>>

Read(why, f, k) == [why |-> why, file |-> f, key |-> k]
Done            == Read("done", "txt", "host")

NoCall          == [val |-> 0, key |-> "ssid", clean |-> TRUE]

SettingsInit ==
  /\ \E f \in Earlier :
       /\ disk = [g \in Files |-> IF g = "ini" /\ f # <<>> THEN f ELSE Missing]
       /\ kept = [k \in Keys |-> Value(f, k)]
  /\ fd = [t \in Threads |-> [f \in Files |-> Closed]]
  /\ pc = [t \in Threads |-> IF t = Wifi THEN "open" ELSE "idle"]
  /\ rd = [t \in Threads |-> IF t = Wifi THEN Read("check", "ini", "ssid") ELSE Done]
  /\ call = [t \in Savers |-> NoCall]
  /\ saves = 0 /\ faults = 0
  /\ address = 0 /\ due = 0 /\ torn = 0 /\ lost = 0

-----------------------------------------------------------------------------
(***************************************************************************)
(* The file layer                                                          *)
(***************************************************************************)
InUse(f)      == \E t \in Threads : fd[t][f] # Closed        \* dfs_file_is_open
Opened(t, f)  == [fd EXCEPT ![t][f] = IF InUse(f) THEN Empty ELSE Bound]
Shut(t, f)    == [fd EXCEPT ![t][f] = Closed]
Sound(t)      == \A f \in Files : fd[t][f] # Empty
At(t, p)      == pc[t] = p /\ Sound(t)
Goto(t, p)    == pc' = [pc EXCEPT ![t] = p]

\* Closing a file another thread has joined leaves the text in the file
\* object's buffer (dfs_elm_close returns early): nothing reaches the card.
Alone(t, f)    == \A u \in Threads \ {t} : fd[u][f] = Closed
Wrote(t, f, c) == disk' = IF Alone(t, f) THEN [disk EXCEPT ![f] = c] ELSE disk

\* Opening with "wb" or O_TRUNC empties a file nobody has open.
Truncated(f)  == IF InUse(f) THEN disk ELSE [disk EXCEPT ![f] = <<>>]

\* dfs_file_unlink refuses a file that is open.
Removed(f)    == IF InUse(f) THEN disk ELSE [disk EXCEPT ![f] = Missing]

\* Mutant of Renamed: the copy is never renamed.
RenamedNever(f, g) == disk

\* dfs_file_rename refuses an open source, f_rename an existing target.
MayRename(f, g) == ~ InUse(f) /\ disk[f] # Missing /\ disk[g] = Missing
Renamed(f, g)   == IF MayRename(f, g) THEN [disk EXCEPT ![g] = disk[f], ![f] = Missing] ELSE disk

Fault     == faults < MaxFaults /\ faults' = faults + 1
NoFault   == UNCHANGED faults

-----------------------------------------------------------------------------
(***************************************************************************)
(* ini_puts, one action per call on the file layer                         *)
(***************************************************************************)
\* Does a file the relay address is looked for in have one?
Holds(f) == disk[f] \notin {Missing, <<>>} /\ Value(disk[f], "host") # 0

\* What the caller does with the result of ini_puts.
AfterPut(c, r) ==
  IF c.key = "ssid" THEN "put" ELSE
  IF c.key = "host" /\ r = 1 THEN "put" ELSE
  IF c.key \in {"host", "port"} /\ r = 0 THEN "alt_open" ELSE "idle"

NextKey(c) == IF c.key = "ssid" THEN "password" ELSE "port"

\* ini_puts returns r: the caller goes on; what was reported is remembered.
PutReturns(t, r, clean) ==
  LET c == call[t] IN
  /\ Goto(t, AfterPut(c, r))
  /\ call' = [call EXCEPT ![t] =
       IF AfterPut(c, r) = "idle" THEN NoCall
       ELSE [val |-> c.val, key |-> IF r = 1 \/ c.key = "ssid" THEN NextKey(c) ELSE c.key,
             clean |-> c.clean /\ clean]]
  /\ kept' = IF r = 1 /\ clean THEN [kept EXCEPT ![c.key] = c.val] ELSE kept
  /\ address' = IF r = 1 /\ c.key = "port" THEN c.val ELSE address
  /\ due' = IF r = 1 /\ c.key = "port" /\ c.clean /\ clean /\ ~ Holds("txt") THEN c.val ELSE due

\* ini_puts opens the file to look for the key.
PutOpen(t) ==
  /\ At(t, "put")
  /\ kept' = [kept EXCEPT ![call[t].key] = 0]
  /\ due' = IF call[t].key \in {"host", "port"} /\ ~ Holds("txt") THEN 0 ELSE due
  /\ \/ /\ disk["ini"] # Missing /\ NoFault
        /\ fd' = Opened(t, "ini") /\ Goto(t, "put_look") /\ UNCHANGED lost
     \/ /\ disk["ini"] = Missing /\ NoFault
        /\ Goto(t, "put_create") /\ UNCHANGED <<fd, lost>>
     \/ /\ disk["ini"] # Missing /\ Fault
        /\ Goto(t, "put_create") /\ lost' = 1 /\ UNCHANGED fd
  /\ UNCHANGED <<rd, disk, call, saves, address, torn>>

\* The file cannot be opened for reading: make a new one.
PutCreate(t) ==
  /\ At(t, "put_create")
  /\ \/ /\ NoFault /\ disk' = Truncated("ini") /\ fd' = Opened(t, "ini") /\ Goto(t, "put_fill")
        /\ kept' = [k \in Keys |-> 0] /\ UNCHANGED <<call, address, due>>
     \/ /\ Fault /\ UNCHANGED <<disk, fd>> /\ PutReturns(t, 0, TRUE)
  /\ UNCHANGED <<rd, saves, torn, lost>>

\* writesection and writekey; the text reaches the card when the file is closed.
PutFill(t) ==
  /\ At(t, "put_fill")
  /\ fd' = Shut(t, "ini")
  /\ \/ NoFault /\ Wrote(t, "ini", NewFile(call[t].key, call[t].val)) /\ PutReturns(t, 1, Alone(t, "ini")) /\ UNCHANGED lost
     \/ Fault /\ UNCHANGED disk /\ PutReturns(t, 1, FALSE) /\ lost' = 1
  /\ UNCHANGED <<rd, saves, torn>>

\* getkeystring: nothing to do, rewrite in place, or copy the file.
PutLook(t) ==
  LET c == call[t]  f == disk["ini"] IN
  /\ At(t, "put_look")
  /\ fd' = Shut(t, "ini")
  /\ \/ Value(f, c.key) = c.val /\ PutReturns(t, 1, TRUE)
     \/ /\ Value(f, c.key) # c.val
        /\ Goto(t, IF Fits(f, c.key, c.val) THEN "put_rewrite" ELSE "put_temp")
        /\ UNCHANGED <<call, kept, address, due>>
  /\ UNCHANGED <<rd, disk, saves, faults, torn, lost>>

\* Reopen for update and write the new line over the old one.
PutRewrite(t) ==
  /\ At(t, "put_rewrite")
  /\ \/ NoFault /\ fd' = Opened(t, "ini") /\ Goto(t, "put_over") /\ UNCHANGED <<call, kept, address, due>>
     \/ Fault /\ UNCHANGED fd /\ PutReturns(t, 0, TRUE)
  /\ UNCHANGED <<rd, disk, saves, torn, lost>>

PutOver(t) ==
  LET c == call[t] IN
  /\ At(t, "put_over")
  /\ fd' = Shut(t, "ini")
  /\ \/ NoFault /\ Wrote(t, "ini", Rewritten(disk["ini"], c.key, c.val)) /\ PutReturns(t, 1, Alone(t, "ini"))
     \/ Fault /\ UNCHANGED disk /\ PutReturns(t, 1, FALSE)
  /\ UNCHANGED <<rd, saves, torn, lost>>

\* Mutant of PutTemp: the old file goes before the copy is made.
PutTempRemoves(t) ==
  /\ At(t, "put_temp")
  /\ \/ /\ NoFault /\ disk' = [Removed("ini") EXCEPT !["tmp"] = <<>>] /\ fd' = Opened(t, "tmp") /\ Goto(t, "put_reopen")
        /\ UNCHANGED <<call, kept, address, due>>
     \/ Fault /\ UNCHANGED <<disk, fd>> /\ PutReturns(t, 0, TRUE)
  /\ UNCHANGED <<rd, saves, torn, lost>>

\* Open the copy, then the settings file again.
PutTemp(t) ==
  /\ At(t, "put_temp")
  /\ \/ /\ NoFault /\ disk' = Truncated("tmp") /\ fd' = Opened(t, "tmp") /\ Goto(t, "put_reopen")
        /\ UNCHANGED <<call, kept, address, due>>
     \/ Fault /\ UNCHANGED <<disk, fd>> /\ PutReturns(t, 0, TRUE)
  /\ UNCHANGED <<rd, saves, torn, lost>>

\* The reopened file is gone (or cannot be opened): the setting alone goes to
\* the copy, which is not renamed, and the result is 1.
PutReopen(t) ==
  /\ At(t, "put_reopen")
  /\ \/ NoFault /\ fd' = Opened(t, "ini") /\ Goto(t, "put_copy") /\ UNCHANGED <<disk, call, kept, address, due>>
     \/ /\ Fault /\ fd' = Shut(t, "tmp")
        /\ Wrote(t, "tmp", NewFile(call[t].key, call[t].val)) /\ PutReturns(t, 1, FALSE)
  /\ UNCHANGED <<rd, saves, torn, lost>>

\* The copy loop; both files are closed by close_rename.
PutCopy(t) ==
  LET c == call[t] IN
  /\ At(t, "put_copy")
  /\ fd' = [fd EXCEPT ![t]["ini"] = Closed, ![t]["tmp"] = Closed]
  /\ \/ NoFault /\ Wrote(t, "tmp", Copied(disk["ini"], c.key, c.val)) /\ UNCHANGED lost
     \/ Fault /\ UNCHANGED disk /\ lost' = 1
  /\ Goto(t, "put_remove")
  /\ UNCHANGED <<rd, call, saves, kept, address, due, torn>>

\* close_rename: remove, then rename; neither result is looked at.
PutRemove(t) ==
  /\ At(t, "put_remove")
  /\ disk' = Removed("ini")
  /\ call' = [call EXCEPT ![t].clean = call[t].clean /\ ~ InUse("ini")]
  /\ Goto(t, "put_rename")
  /\ UNCHANGED <<rd, fd, saves, faults, hist>>

PutRename(t) ==
  /\ At(t, "put_rename")
  /\ \/ NoFault /\ disk' = Renamed("tmp", "ini") /\ PutReturns(t, 1, MayRename("tmp", "ini")) /\ UNCHANGED lost
     \/ Fault /\ UNCHANGED disk /\ PutReturns(t, 1, FALSE) /\ lost' = 1
  /\ UNCHANGED <<rd, fd, saves, torn>>

Put(t) == \/ PutOpen(t) \/ PutCreate(t) \/ PutFill(t) \/ PutLook(t) \/ PutRewrite(t) \/ PutOver(t)
          \/ PutTemp(t) \/ PutReopen(t) \/ PutCopy(t) \/ PutRemove(t) \/ PutRename(t)

-----------------------------------------------------------------------------
(***************************************************************************)
(* The saves                                                               *)
(***************************************************************************)
Saving == \E t \in Savers : pc[t] \notin {"idle", "halted", "open", "read"}

Begin(t, k) ==
  /\ At(t, "idle") /\ ~ Saving /\ saves < MaxSaves
  /\ saves' = saves + 1
  /\ \E v \in 1..saves + 1 : call' = [call EXCEPT ![t] = [val |-> v, key |-> k, clean |-> TRUE]]

\* ini_save_wifi_ap_info: two calls of ini_puts.
SaveWifi(t) ==
  /\ Begin(t, "ssid") /\ Goto(t, "put")
  /\ UNCHANGED <<rd, disk, fd, faults, hist>>

\* ini_save_ai_relay_info: /ai_relay.txt, then data.ini, then ai_relay.ini.
SaveRelay(t) ==
  /\ Begin(t, "host") /\ Goto(t, "txt_open")
  /\ UNCHANGED <<rd, disk, fd, faults, hist>>

Ends(t) == Goto(t, "idle") /\ call' = [call EXCEPT ![t] = NoCall]

\* Mutant of Address: the text has no line for the port.
AddressNoPort(v) == <<Sec("relay"), Key("host", v)>>

\* The text of a relay address, in a file of its own.
Address(v) == <<Sec("relay"), Key("host", v), Key("port", v)>>

TxtOpen(t) ==
  /\ At(t, "txt_open")
  /\ \/ /\ NoFault /\ disk' = Truncated("txt") /\ fd' = Opened(t, "txt") /\ Goto(t, "txt_write")
        /\ due' = IF InUse("txt") THEN due ELSE 0
     \/ Fault /\ Goto(t, "put") /\ UNCHANGED <<disk, fd, due>>
  /\ UNCHANGED <<rd, call, saves, kept, address, torn, lost>>

\* write and close: the text is on the card; or write took it and close, whose
\* result is not looked at, could not put it there; or write took nothing.
TxtWrite(t) ==
  /\ At(t, "txt_write")
  /\ fd' = Shut(t, "txt")
  /\ \/ /\ NoFault /\ Wrote(t, "txt", Address(call[t].val)) /\ Ends(t) /\ address' = call[t].val
        /\ due' = IF Alone(t, "txt") THEN call[t].val ELSE due
     \/ Fault /\ UNCHANGED <<disk, due>> /\ Ends(t) /\ address' = call[t].val
     \/ Fault /\ UNCHANGED <<disk, due>> /\ Goto(t, "put") /\ UNCHANGED <<call, address>>
  /\ UNCHANGED <<rd, saves, kept, torn, lost>>

\* The last resort; when it fails too the save ends with -2 (not counted in
\* faults: nothing follows).
AltOpen(t) ==
  /\ At(t, "alt_open")
  /\ \/ NoFault /\ disk' = Truncated("alt") /\ fd' = Opened(t, "alt") /\ Goto(t, "alt_write") /\ UNCHANGED call
     \/ NoFault /\ Ends(t) /\ UNCHANGED <<disk, fd>>
  /\ UNCHANGED <<rd, saves, hist>>

AltWrite(t) ==
  /\ At(t, "alt_write")
  /\ fd' = Shut(t, "alt")
  /\ Ends(t)
  /\ \/ /\ NoFault /\ Wrote(t, "alt", Address(call[t].val))
        /\ address' = call[t].val
        /\ due' = IF Holds("txt") \/ Holds("ini") \/ ~ Alone(t, "alt") THEN due ELSE call[t].val
     \/ NoFault /\ UNCHANGED <<disk, address, due>>
  /\ UNCHANGED <<rd, saves, kept, torn, lost>>

Save(t) == \/ SaveWifi(t) \/ SaveRelay(t) \/ TxtOpen(t) \/ TxtWrite(t) \/ AltOpen(t) \/ AltWrite(t) \/ Put(t)

-----------------------------------------------------------------------------
(***************************************************************************)
(* The loads: open a file, read one key, close it, go on to the next       *)
(***************************************************************************)
\* Mutant of Then: the password is looked for where it is never saved.
ThenOtherFile(r, v) ==
  IF r.key = "ssid" THEN Read(r.why, "alt", "password")
  ELSE IF r.why = "check" /\ v = 0 THEN Read("check", "ini", "ssid") ELSE Done

\* What a load reads after it found value v (0: none) with read r; "done"
\* ends it.  The relay address comes from the first file that has a host;
\* credentials count as found when the password is (ini_load_wifi_ap_info).
Then(r, v) ==
  CASE r.why = "relay" /\ r.key = "host" /\ v # 0 /\ r.file # "txt" -> Read("relay", r.file, "port")
    [] r.why = "relay" /\ r.key = "host" /\ v = 0 /\ r.file = "txt" -> Read("relay", "ini", "host")
    [] r.why = "relay" /\ r.key = "host" /\ v = 0 /\ r.file = "ini" -> Read("relay", "alt", "host")
    [] r.why # "relay" /\ r.key = "ssid"                           -> Read(r.why, "ini", "password")
    [] r.why = "check" /\ r.key = "password" /\ v = 0              -> Read("check", "ini", "ssid")
    [] r.why = "check" /\ r.key = "password" /\ v # 0              -> Read("status", "ini", "ssid")
    [] OTHER                                                       -> Done

LoadGoesOn(t, v) ==
  /\ rd' = [rd EXCEPT ![t] = Then(rd[t], v)]
  /\ Goto(t, IF Then(rd[t], v) # Done THEN "open" ELSE IF t = Wifi THEN "connected" ELSE "idle")

\* The AI worker or the AI screen asks for the relay address.
LoadRelay(t) ==
  /\ At(t, "idle") /\ Goto(t, "open")
  /\ rd' = [rd EXCEPT ![t] = Read("relay", "txt", "host")]
  /\ UNCHANGED <<disk, fd, call, saves, faults, hist>>

LoadOpen(t) ==
  LET f == rd[t].file IN
  /\ At(t, "open")
  /\ \/ disk[f] # Missing /\ NoFault /\ fd' = Opened(t, f) /\ Goto(t, "read") /\ UNCHANGED rd
     \/ disk[f] = Missing /\ NoFault /\ LoadGoesOn(t, 0) /\ UNCHANGED fd
     \/ disk[f] # Missing /\ Fault /\ LoadGoesOn(t, 0) /\ UNCHANGED fd
  /\ UNCHANGED <<disk, call, saves, hist>>

LoadRead(t) ==
  LET f == rd[t].file IN
  /\ At(t, "read")
  /\ fd' = Shut(t, f)
  /\ LoadGoesOn(t, Value(disk[f], rd[t].key))
  /\ UNCHANGED <<disk, call, saves, faults, hist>>

-----------------------------------------------------------------------------
\* RT_ASSERT(fd != RT_NULL) of dfs_elm_read, dfs_elm_write and dfs_elm_close:
\* the thread spins there for ever, its files open.
Halt(t) ==
  /\ ~ Sound(t) /\ pc[t] # "halted"
  /\ Goto(t, "halted")
  /\ UNCHANGED <<disk, fd, rd, call, saves, faults, hist>>

\* Power fails: what was written to files not yet closed is gone, the rest
\* of the card stays as it is, and every thread starts over.
PowerLoss ==
  /\ Fault
  /\ fd' = [t \in Threads |-> [f \in Files |-> Closed]]
  /\ pc' = [t \in Threads |-> IF t = Wifi THEN "open" ELSE "idle"]
  /\ rd' = [t \in Threads |-> IF t = Wifi THEN Read("check", "ini", "ssid") ELSE Done]
  /\ torn' = IF \E t \in Savers : pc[t] = "put_rename" /\ disk["ini"] = Missing THEN 1 ELSE torn
  /\ call' = [t \in Savers |-> NoCall]
  /\ UNCHANGED <<disk, saves, kept, address, due, lost>>

SettingsNext ==
  \/ \E t \in Savers : Save(t)
  \/ \E t \in Loaders : LoadRelay(t)
  \/ \E t \in Threads : LoadOpen(t) \/ LoadRead(t) \/ Halt(t)
  \/ PowerLoss

SettingsSpec == SettingsInit /\ [][SettingsNext]_svars

\* A thread inside a call goes on with it: the kernel runs every ready thread
\* of this priority band again.  Nobody has to start a save.
GoesOn(t) == \/ LoadOpen(t) \/ LoadRead(t) \/ Halt(t)
             \/ t \in Savers /\ (Put(t) \/ TxtOpen(t) \/ TxtWrite(t) \/ AltOpen(t) \/ AltWrite(t))

SettingsFairness == \A t \in Threads : WF_svars(GoesOn(t))

SettingsFairSpec == SettingsSpec /\ SettingsFairness

-----------------------------------------------------------------------------
\* Type invariant: lines, descriptors and counters have their types.
SettingsTypeOK ==
  /\ \A f \in Files : \A i \in DOMAIN disk[f] :
       disk[f][i][1] \in {"sec", "key", "blank", "missing"} /\ disk[f][i][3] \in Values \cup {0}
  /\ fd \in [Threads -> [Files -> {Closed, Bound, Empty}]]
  /\ \A t \in Savers : call[t].val \in Values \cup {0} /\ call[t].key \in Keys /\ call[t].clean \in BOOLEAN
  /\ saves \in 0..MaxSaves /\ faults \in 0..MaxFaults
  /\ kept \in [Keys -> Values \cup {0}] /\ address \in Values \cup {0} /\ due \in Values \cup {0} /\ torn \in {0, 1} /\ lost \in {0, 1}

\* Where a setting is after a power failure: in data.ini or, between the
\* removal and the rename, in its copy.
OnCard(k) == Value(IF disk["ini"] = Missing THEN disk["tmp"] ELSE disk["ini"], k)

\* A setting that ini_puts reported as saved, undisturbed by a reader, is on
\* the card from then on, through saves of other settings, reads at any
\* moment and a power failure at any step of a save (minIni.c, ini_puts).
ReportedIsKept == lost = 0 => \A k \in Keys : kept[k] # 0 => OnCard(k) = kept[k]

\* ini_puts starts the settings anew, abandoning what was reported saved,
\* only after power failed between the removal and the rename of an earlier
\* save, or an open or write failed.
OnlyTornForgets ==
  \A t \in Savers : pc[t] = "put_create" /\ lost = 0 /\ torn = 0 => \A k \in Keys : kept[k] = 0

\* Lines have their types and data.ini never holds a section or a key twice, or
\* a key outside its own section, whatever order the settings were first saved in.
IniWellFormed == SettingsTypeOK /\ WellFormed(disk["ini"]) /\ WellFormed(disk["tmp"])

\* What ini_load_ai_relay_info reads when nothing else is going on.
Loaded(k) ==
  LET f == IF Holds("txt") THEN "txt" ELSE IF Holds("ini") THEN "ini" ELSE "alt" IN Value(disk[f], k)

Finds(v)  == Loaded("host") = v /\ Loaded("port") = v
Disturbed == faults # 0 \/ \E t \in Threads : ~ Sound(t)

\* The relay address last reported saved is the one loaded, host and port,
\* from whichever of the three files took it.  If not, something failed or two
\* threads shared a file, and then either /ai_relay.txt could not be opened
\* and still has, whole, the address that was due before; or it was left empty
\* by a reset, a close or a write that failed after the truncation, and the
\* load falls through to the settings last reported saved in data.ini.
AddressLoads ==
  ~ Saving =>
    \/ address # 0 /\ Finds(address)
    \/ /\ address # 0 => Disturbed
       /\ IF Holds("txt") THEN due # 0 /\ Finds(due)
          ELSE lost = 0 /\ torn = 0 =>
                 /\ due = 0
                 /\ \A k \in {"host", "port"} : kept["host"] # 0 /\ kept[k] # 0 => Loaded(k) = kept[k]

\* Credentials that were reported saved lead to a connection attempt of the
\* polling wifi thread, unless a thread was stopped by a shared file or the
\* settings were lost meanwhile (wifi_password_exist_checking).
HaveCredentials == kept["password"] # 0 /\ lost = 0 /\ torn = 0
Connects == HaveCredentials ~> (pc[Wifi] = "connected" \/ ~ HaveCredentials \/ \E t \in Threads : pc[t] = "halted")

\* RT_ASSERT(fd != RT_NULL) in dfs_elm_read and dfs_elm_write: no thread uses
\* a descriptor without a file object.
FilesHaveData == \A t \in Threads : Sound(t)
=============================================================================
