------------------------------- MODULE AiChat -------------------------------
(***************************************************************************)
(* The AI chat of the HMI GUI: app/app_ai_chat.c (request slot, worker     *)
(* thread, relay host) and lvgl/user_events/evetns_zhinengai.c (the screen *)
(* that calls it).                                                         *)
(*                                                                         *)
(* Two threads of equal priority (20): the LVGL thread, which runs every   *)
(* button callback and the 300 ms poll timer one at a time, and the worker *)
(* "ai_chat".  They share g_ai_busy (no lock), the semaphore g_ai_sem and, *)
(* under g_ai_lock, the prompt, the reply and the runtime relay host.  A   *)
(* critical section is one step; every access outside one is a step.       *)
(*                                                                         *)
(* Data: the n-th accepted question is the number n, so that an answer     *)
(* tells which question it belongs to; a reply text is the question it     *)
(* answers and the branch of the worker that produced it.                  *)
(***************************************************************************)
EXTENDS Naturals

CONSTANTS
    Hosts,          \* relay hosts a user may type or have saved
    DefaultHost,    \* AI_RELAY_HOST_DEFAULT
    None,           \* an empty host string
    MaxRequests     \* bound on accepted questions

ASSUME AiAssumption ==
    /\ None \notin Hosts \cup {DefaultHost}
    /\ MaxRequests \in Nat

VARIABLES
    created,    \* the screen's widgets and its poll timer exist (g_ai_panel)
    panel,      \* "chat" or "ip": which panel is not hidden
    gpc,        \* where the LVGL thread is inside a callback
    label,      \* text of g_ai_output: its kind and, for a reply, its question
    hasSem,     \* g_ai_sem has been created
    busy,       \* g_ai_busy
    ready,      \* g_ai_reply_ready
    prompt,     \* g_ai_prompt (0: none yet)
    reply,      \* g_ai_reply
    sem,        \* value of g_ai_sem
    wpc,        \* where the worker is; "none" before the thread is created
    wprompt,    \* the worker's local prompt
    wreply,     \* the worker's local reply
    whost,      \* g_ai_relay_host, the worker's choice for this request
    runtime,    \* g_ai_runtime_relay_host
    stored,     \* the relay hosts the card's two files hold
    typed,      \* the host the running save callback read from g_ip_input
    shown,      \* history: the newest question whose reply was displayed
    current     \* history: hosts in force since the newest accepted question

guiVars  == <<created, panel, gpc, label, typed, shown>>
slotVars == <<hasSem, busy, ready, prompt, reply, sem>>
wrkVars  == <<wpc, wprompt, wreply, whost>>
hostVars == <<runtime, stored, current>>
vars == <<guiVars, slotVars, wrkVars, hostVars>>

Outcomes  == {"nowifi", "dns", "connect", "send", "noreply", "answer"}
Replies   == [q : Nat, how : Outcomes \cup {"none"}]
NoReply   == [q |-> 0, how |-> "none"]
LabelKinds == {"hint", "typefirst", "still", "startfail", "thinking",
               "chatready", "reply"}
Text(kind) == [kind |-> kind, q |-> 0]
ReplyText(r) == [kind |-> "reply", q |-> r.q]

\* ini_load_ai_relay_info: the host of one of the files, or none.  Which file
\* answers is module Settings' subject; here every open may fail (no card yet,
\* file in use), so that any host on the card may come back, or nothing.
Loads(files) == files \cup {None}

\* The hosts a request made now may go to: the one this session knows, and
\* before it knows one whatever a load finds, or the default.
InForce(run, files) == IF run # None THEN {run} ELSE files \cup {DefaultHost}

Init ==
    /\ created = 0 /\ panel = "chat" /\ gpc = "idle"
    /\ label = Text("hint") /\ typed = None /\ shown = 0
    /\ hasSem = 0 /\ busy = 0 /\ ready = 0
    /\ prompt = 0 /\ reply = NoReply /\ sem = 0
    /\ wpc = "none" /\ wprompt = 0 /\ wreply = NoReply /\ whost = None
    /\ runtime = None /\ stored \in SUBSET Hosts /\ current = {}

-----------------------------------------------------------------------------
(* The LVGL thread: screen events.                                         *)

\* screen_zhinengai_pre_init: the first visit builds the widgets and takes
\* over a saved relay host if the load finds one; every visit shows the chat.
ScreenLoad ==
    /\ gpc = "idle"
    /\ created' = 1 /\ panel' = "chat"
    /\ runtime' \in IF created = 0 THEN Loads(stored) ELSE {runtime}
    /\ UNCHANGED <<gpc, label, typed, shown, stored, current, slotVars, wrkVars>>

\* Btntonghuagushi_event_handler: switch to the relay address panel.
ShowIpPanel ==
    /\ gpc = "idle" /\ created = 1
    /\ panel' = "ip"
    /\ UNCHANGED <<created, gpc, label, typed, shown, slotVars, wrkVars, hostVars>>

\* Btnzhishibaike_event_handler: back to the chat; the text is overwritten.
ShowChatPanel ==
    /\ gpc = "idle" /\ created = 1
    /\ panel' = "chat" /\ label' = Text("chatready")
    /\ UNCHANGED <<created, gpc, typed, shown, slotVars, wrkVars, hostVars>>

\* ai_chat_poll_timer_cb with ai_chat_take_reply (one critical section).
Poll ==
    /\ gpc = "idle" /\ created = 1
    /\ ready = 1
    /\ ready' = 0
    /\ label' = ReplyText(reply) /\ shown' = reply.q
    /\ UNCHANGED <<created, panel, gpc, typed, hasSem, busy, prompt, reply, sem,
                   wrkVars, hostVars>>

-----------------------------------------------------------------------------
(* The LVGL thread: ai_send_event_cb and ai_chat_request_async.            *)

SendEmpty ==
    /\ gpc = "idle" /\ created = 1 /\ panel = "chat"
    /\ label' = Text("typefirst")
    /\ UNCHANGED <<created, panel, gpc, typed, shown, slotVars, wrkVars, hostVars>>

\* A non-empty question: create semaphore and worker on first use.
SendCreate ==
    /\ gpc = "idle" /\ created = 1 /\ panel = "chat" /\ prompt < MaxRequests
    /\ hasSem' = 1
    /\ wpc' = IF wpc = "none" THEN "wait" ELSE wpc
    /\ gpc' = "check"
    /\ UNCHANGED <<created, panel, label, typed, shown, busy, ready, prompt, reply,
                   sem, wprompt, wreply, whost, hostVars>>

\* rt_sem_create or rt_thread_create has no memory; a retry starts over.
SendCreateFails ==
    /\ gpc = "idle" /\ created = 1 /\ panel = "chat"
    /\ wpc = "none"
    /\ hasSem' \in {hasSem, 1}
    /\ label' = Text("startfail")
    /\ UNCHANGED <<created, panel, gpc, typed, shown, busy, ready, prompt, reply, sem,
                   wrkVars, hostVars>>

\* Mutant of SendCheck: the flag is not looked at.
SendUnchecked ==
    /\ gpc = "check"
    /\ gpc' = "store"
    /\ UNCHANGED <<created, panel, label, typed, shown, slotVars, wrkVars, hostVars>>

\* if (g_ai_busy) return -RT_EBUSY, read without the lock.
SendCheck ==
    /\ gpc = "check"
    /\ gpc' = IF busy = 1 THEN "idle" ELSE "store"
    /\ label' = IF busy = 1 THEN Text("still") ELSE label
    /\ UNCHANGED <<created, panel, typed, shown, slotVars, wrkVars, hostVars>>

\* Critical section: the new question replaces the old one, and a reply
\* nobody has polled yet is dropped.
SendStore ==
    /\ gpc = "store"
    /\ prompt' = prompt + 1 /\ ready' = 0
    /\ current' = InForce(runtime, stored)
    /\ gpc' = "setbusy"
    /\ UNCHANGED <<created, panel, label, typed, shown, hasSem, busy, reply, sem,
                   wrkVars, runtime, stored>>

SendSetBusy ==
    /\ gpc = "setbusy"
    /\ busy' = 1
    /\ gpc' = "release"
    /\ UNCHANGED <<created, panel, label, typed, shown, hasSem, ready, prompt, reply,
                   sem, wrkVars, hostVars>>

SendRelease ==
    /\ gpc = "release"
    /\ sem' = sem + 1
    /\ gpc' = "thinking"
    /\ UNCHANGED <<created, panel, label, typed, shown, hasSem, busy, ready, prompt,
                   reply, wrkVars, hostVars>>

\* The callback's last statement; the worker may already be done by then.
SendThinking ==
    /\ gpc = "thinking"
    /\ label' = Text("thinking")
    /\ gpc' = "idle"
    /\ UNCHANGED <<created, panel, typed, shown, slotVars, wrkVars, hostVars>>

-----------------------------------------------------------------------------
(* The LVGL thread: ai_save_ip_event_cb.                                   *)

\* ai_chat_set_relay_host: the typed host is in force at once.
SaveIp(h) ==
    /\ gpc = "idle" /\ created = 1 /\ panel = "ip"
    /\ typed' = h /\ runtime' = h /\ current' = current \cup {h}
    /\ gpc' = "saving"
    /\ UNCHANGED <<created, panel, label, shown, stored, slotVars, wrkVars>>

\* ini_save_ai_relay_info: each file takes the host, keeps its old one or,
\* when the save fails half way, loses it.
SaveFile ==
    /\ gpc = "saving"
    /\ stored' \in SUBSET (stored \cup {typed})
    /\ gpc' = "idle"
    /\ UNCHANGED <<created, panel, label, typed, shown, slotVars, wrkVars, runtime,
                   current>>

-----------------------------------------------------------------------------
(* The worker: ai_chat_thread_entry and ai_chat_http_post.                 *)

WorkerTake ==
    /\ wpc = "wait" /\ sem > 0
    /\ sem' = sem - 1
    /\ wpc' = "copy"
    /\ UNCHANGED <<guiVars, hasSem, busy, ready, prompt, reply, wprompt, wreply, whost,
                   hostVars>>

WorkerCopy ==
    /\ wpc = "copy"
    /\ wprompt' = prompt
    /\ wpc' = "wifi"
    /\ UNCHANGED <<guiVars, slotVars, wreply, whost, hostVars>>

\* Mutant of WorkerWifi: the branch without WiFi continues the loop at once.
WorkerWifiContinues ==
    /\ wpc = "wifi"
    /\ wpc' \in {"pick", "wait"}
    /\ UNCHANGED <<guiVars, slotVars, wprompt, wreply, whost, hostVars>>

\* wifi_get_status() == 0, or the "WiFi not ready" reply.
WorkerWifi ==
    /\ wpc = "wifi"
    /\ \/ wpc' = "pick" /\ UNCHANGED wreply
       \/ wpc' = "setreply" /\ wreply' = [q |-> wprompt, how |-> "nowifi"]
    /\ UNCHANGED <<guiVars, slotVars, wprompt, whost, hostVars>>

\* Mutant of WorkerPickHost: the host of the previous request is reused.
WorkerKeepsHost ==
    /\ wpc = "pick"
    /\ whost' = IF whost # None THEN whost ELSE runtime
    /\ wpc' = IF whost' # None THEN "exchange" ELSE "load"
    /\ UNCHANGED <<guiVars, slotVars, wprompt, wreply, hostVars>>

\* Critical section of ai_chat_http_post: copy the runtime host if set.
WorkerPickHost ==
    /\ wpc = "pick"
    /\ whost' = runtime
    /\ wpc' = IF runtime # None THEN "exchange" ELSE "load"
    /\ UNCHANGED <<guiVars, slotVars, wprompt, wreply, hostVars>>

\* ini_load_ai_relay_info, while the LVGL thread may be rewriting the files;
\* with no host loaded the request goes to the default.
WorkerLoadHost ==
    /\ wpc = "load"
    /\ \E h \in Loads(IF gpc = "saving" THEN stored \cup {typed} ELSE stored) :
          whost' = IF h # None THEN h ELSE DefaultHost
    /\ wpc' = "exchange"
    /\ UNCHANGED <<guiVars, slotVars, wprompt, wreply, hostVars>>

\* getaddrinfo, connect, send, recv: one of five texts ends in reply.
WorkerExchange ==
    /\ wpc = "exchange"
    /\ \E how \in Outcomes \ {"nowifi"} : wreply' = [q |-> wprompt, how |-> how]
    /\ wpc' = "setreply"
    /\ UNCHANGED <<guiVars, slotVars, wprompt, whost, hostVars>>

\* Mutant of WorkerSetReply: the text is stored, the ready flag is not set.
WorkerSetReplyQuiet ==
    /\ wpc = "setreply"
    /\ reply' = wreply
    /\ wpc' = "clear"
    /\ UNCHANGED <<guiVars, hasSem, busy, ready, prompt, sem, wprompt, wreply, whost,
                   hostVars>>

\* ai_chat_set_reply (one critical section).
WorkerSetReply ==
    /\ wpc = "setreply"
    /\ reply' = wreply /\ ready' = 1
    /\ wpc' = "clear"
    /\ UNCHANGED <<guiVars, hasSem, busy, prompt, sem, wprompt, wreply, whost, hostVars>>

\* g_ai_busy = 0, after the reply was published.
WorkerClear ==
    /\ wpc = "clear"
    /\ busy' = 0
    /\ wpc' = "wait"
    /\ UNCHANGED <<guiVars, hasSem, ready, prompt, reply, sem, wprompt, wreply, whost,
                   hostVars>>

-----------------------------------------------------------------------------
User == ScreenLoad \/ ShowIpPanel \/ ShowChatPanel \/ SendEmpty \/ SendCreate
        \/ SendCreateFails \/ \E h \in Hosts : SaveIp(h)
Callback == SendCheck \/ SendStore \/ SendSetBusy \/ SendRelease \/ SendThinking
            \/ SaveFile
Worker == WorkerTake \/ WorkerCopy \/ WorkerWifi \/ WorkerPickHost \/ WorkerLoadHost
          \/ WorkerExchange \/ WorkerSetReply \/ WorkerClear

Next == User \/ Callback \/ Poll \/ Worker

Spec == Init /\ [][Next]_vars

\* A callback runs to its end; lv_timer_handler runs the poll timer when it is
\* due however often callbacks run in between (hence strong fairness); and the
\* worker is scheduled.  WorkerExchange is only fair if recv returns, which
\* the code leaves to the network (no SO_RCVTIMEO).  The user owes nothing.
FairSpec == Spec /\ WF_vars(Callback) /\ SF_vars(Poll) /\ WF_vars(Worker)
-----------------------------------------------------------------------------
(* Properties.                                                             *)

WorkerStates == {"none", "wait", "copy", "wifi", "pick", "load", "exchange",
                 "setreply", "clear"}
Working  == {"copy", "wifi", "pick", "load", "exchange", "setreply"}
GuiStates == {"idle", "check", "store", "setbusy", "release", "thinking", "saving"}

\* Every variable has its type.
TypeOK ==
    /\ created \in {0, 1} /\ panel \in {"chat", "ip"} /\ gpc \in GuiStates
    /\ label \in [kind : LabelKinds, q : Nat] /\ typed \in Hosts \cup {None}
    /\ shown \in Nat
    /\ hasSem \in {0, 1} /\ busy \in {0, 1} /\ ready \in {0, 1}
    /\ prompt \in Nat /\ reply \in Replies /\ sem \in Nat
    /\ wpc \in WorkerStates /\ wprompt \in Nat /\ wreply \in Replies
    /\ whost \in Hosts \cup {None, DefaultHost}
    /\ runtime \in Hosts \cup {None} /\ stored \subseteq Hosts
    /\ current \subseteq Hosts \cup {DefaultHost}

\* g_ai_busy is never left set with nothing to clear it, and never clear
\* while a question is queued or in work: the unlocked flag, the semaphore
\* and the worker's position always tell the same story.
BusyMeansWork ==
    /\ busy = 1 <=> (gpc = "release" \/ sem > 0 \/ wpc \in Working \cup {"clear"})
    /\ sem <= 1
    /\ sem = 1 => wpc = "wait"

\* A reply waiting for the poll timer always answers the newest accepted
\* question, although g_ai_prompt and g_ai_reply are written by different
\* threads in separate critical sections.
ReplyIsLatest == ready = 1 => reply.q = prompt

\* Once this session knows a relay (typed, or found by the first screen load)
\* every later question goes to it or to one saved since, never to an older
\* one and never back to the default, whatever the card's files hold and
\* however their loads fail.  A question asked while none is known goes only
\* to a host the card held then, to the default, or to one saved since.
HostInForce == wpc = "exchange" => whost \in current

\* A question is accepted, not yet answered.
Outstanding == \/ gpc \in {"setbusy", "release"}
               \/ sem > 0
               \/ wpc \in Working

\* The threads, flags and locks implement the abstract service: one question
\* at a time, one answer each, and only the newest answer is ever displayed.
Service == INSTANCE AiService WITH
    asked <- prompt,
    answered <- IF Outstanding THEN prompt - 1 ELSE prompt
ServiceSpec == Service!SSpec

\* Every accepted question is displayed in the end, unless a newer one was
\* accepted first (a Send between the reply and the next poll discards it).
EveryQuestionSettled ==
    \A n \in 1..MaxRequests : prompt = n ~> (shown = n \/ prompt > n)

\* "Thinking..." is written after the semaphore is released, so the worker may
\* have finished before; it is still replaced in the end.
ThinkingEnds == label.kind = "thinking" ~> label.kind # "thinking"
=============================================================================
