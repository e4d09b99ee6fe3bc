---------------------------- MODULE AiChatProofs ----------------------------
(***************************************************************************)
(* Proofs about AiChat, for every set of relay hosts and any number of     *)
(* questions: the unlocked g_ai_busy, the semaphore and the worker agree,  *)
(* a waiting reply is the newest one, a request goes to a relay in force,  *)
(* and the threads implement AiService.                                    *)
(***************************************************************************)
EXTENDS AiChat, TLAPS

\* Where the LVGL thread may be while the worker exists or a question is new.
SlotInv ==
    /\ gpc \in {"check", "store", "setbusy", "release", "thinking"} => wpc # "none"
    /\ gpc \in {"store", "setbusy"} => busy = 0
    /\ gpc = "release" => sem = 0 /\ wpc = "wait"
    /\ wpc = "none" => sem = 0

\* The worker's copies belong to the newest question, and a question is not
\* shown before it is answered.
ReplyInv ==
    /\ wpc \in {"wifi", "pick", "load", "exchange", "setreply"} => wprompt = prompt
    /\ wpc = "setreply" => wreply.q = prompt
    /\ ready = 1 => reply.q = prompt /\ ~Outstanding
    /\ shown <= prompt
    /\ Outstanding \/ ready = 1 => shown < prompt

\* Every host that could be chosen now is in force for the question in work.
HostInv ==
    /\ created = 0 => runtime = None /\ gpc = "idle" /\ wpc = "none"
    /\ gpc = "saving" => runtime = typed /\ typed # None
    /\ Outstanding => InForce(runtime, stored) \subseteq current
    /\ wpc = "load" => /\ InForce(None, stored) \subseteq current
                       /\ gpc = "saving" => typed \in current
    /\ HostInForce

AiInv == TypeOK /\ BusyMeansWork /\ SlotInv /\ ReplyInv /\ HostInv

\* The boot state satisfies the invariant, with or without a saved relay host.
LEMMA AiInvInit == Init => AiInv
  BY AiAssumption DEF Init, AiInv, TypeOK, BusyMeansWork, SlotInv, ReplyInv, HostInv,
     HostInForce, InForce, Outstanding, Working, WorkerStates, GuiStates, Replies, NoReply,
     Outcomes, Text, LabelKinds

\* The screen buttons preserve the invariant, whatever the worker is doing.
LEMMA UserPreserves == AiInv /\ User => AiInv'
  <1> SUFFICES ASSUME AiInv, User PROVE AiInv'
    OBVIOUS
  <1> USE AiAssumption DEF AiInv, TypeOK, BusyMeansWork, SlotInv, ReplyInv, HostInv, HostInForce, Outstanding,
      Working, WorkerStates, GuiStates, guiVars, slotVars, wrkVars, hostVars
  <1>1. CASE ScreenLoad
    BY <1>1 DEF ScreenLoad, InForce, Loads
  <1>2. CASE ShowIpPanel
    BY <1>2 DEF ShowIpPanel
  <1>3. CASE ShowChatPanel
    BY <1>3 DEF ShowChatPanel, Text, LabelKinds
  <1>4. CASE SendEmpty
    BY <1>4 DEF SendEmpty, Text, LabelKinds
  <1>5. CASE SendCreate
    BY <1>5 DEF SendCreate
  <1>6. CASE SendCreateFails
    BY <1>6 DEF SendCreateFails, Text, LabelKinds
  <1>7. ASSUME NEW h \in Hosts, SaveIp(h) PROVE AiInv'
    BY <1>7 DEF SaveIp, InForce, Loads
  <1> QED BY <1>1, <1>2, <1>3, <1>4, <1>5, <1>6, <1>7 DEF User

\* Each later statement of the send and save callbacks preserves it.
LEMMA CallbackPreserves == AiInv /\ Callback => AiInv'
  <1> SUFFICES ASSUME AiInv, Callback PROVE AiInv'
    OBVIOUS
  <1> USE AiAssumption DEF AiInv, TypeOK, BusyMeansWork, SlotInv, ReplyInv, HostInv, HostInForce, Outstanding,
      Working, WorkerStates, GuiStates, guiVars, slotVars, wrkVars, hostVars
  <1>1. CASE SendCheck
    BY <1>1 DEF SendCheck, Text, LabelKinds
  <1>2. CASE SendStore
    BY <1>2 DEF SendStore, InForce, Loads
  <1>3. CASE SendSetBusy
    BY <1>3 DEF SendSetBusy
  <1>4. CASE SendRelease
    BY <1>4 DEF SendRelease
  <1>5. CASE SendThinking
    BY <1>5 DEF SendThinking, Text, LabelKinds
  <1>6. CASE SaveFile
    BY <1>6 DEF SaveFile, InForce, Loads
  <1> QED BY <1>1, <1>2, <1>3, <1>4, <1>5, <1>6 DEF Callback

\* Showing a reply preserves it.
LEMMA PollPreserves == AiInv /\ Poll => AiInv'
  <1> SUFFICES ASSUME AiInv, Poll PROVE AiInv'
    OBVIOUS
  <1> USE AiAssumption DEF AiInv, TypeOK, BusyMeansWork, SlotInv, ReplyInv, HostInv, HostInForce, Outstanding,
      Working, WorkerStates, GuiStates, guiVars, slotVars, wrkVars, hostVars
  <1>1. CASE Poll
    BY <1>1 DEF Poll, ReplyText, LabelKinds, Replies
  <1> QED BY <1>1

\* Each statement of the worker preserves it.
LEMMA WorkerPreserves == AiInv /\ Worker => AiInv'
  <1> SUFFICES ASSUME AiInv, Worker PROVE AiInv'
    OBVIOUS
  <1> USE AiAssumption DEF AiInv, TypeOK, BusyMeansWork, SlotInv, ReplyInv, HostInv, HostInForce, Outstanding,
      Working, WorkerStates, GuiStates, guiVars, slotVars, wrkVars, hostVars
  <1>1. CASE WorkerTake
    BY <1>1 DEF WorkerTake
  <1>2. CASE WorkerCopy
    BY <1>2 DEF WorkerCopy
  <1>3. CASE WorkerWifi
    BY <1>3 DEF WorkerWifi, Replies, Outcomes
  <1>4. CASE WorkerPickHost
    BY <1>4 DEF WorkerPickHost, InForce, Loads
  <1>5. CASE WorkerLoadHost
    BY <1>5 DEF WorkerLoadHost, InForce, Loads
  <1>6. CASE WorkerExchange
    BY <1>6 DEF WorkerExchange, Replies, Outcomes
  <1>7. CASE WorkerSetReply
    BY <1>7 DEF WorkerSetReply
  <1>8. CASE WorkerClear
    BY <1>8 DEF WorkerClear
  <1> QED BY <1>1, <1>2, <1>3, <1>4, <1>5, <1>6, <1>7, <1>8 DEF Worker

\* AiInv is inductive.
LEMMA AiInvNext == AiInv /\ [Next]_vars => AiInv'
  <1>1. AiInv /\ UNCHANGED vars => AiInv'
    BY DEF vars, guiVars, slotVars, wrkVars, hostVars, AiInv, TypeOK, BusyMeansWork,
       SlotInv, ReplyInv, HostInv, HostInForce, Outstanding, InForce, Loads
  <1> QED BY <1>1, UserPreserves, CallbackPreserves, PollPreserves, WorkerPreserves
          DEF Next
-----------------------------------------------------------------------------

\* The invariant holds in every reachable state.
LEMMA AiInvAlways == Spec => []AiInv
  BY AiInvInit, AiInvNext, PTL DEF Spec

\* For every set of hosts, the variables of the chat keep their types.
THEOREM AiTypeCorrect == Spec => []TypeOK
  <1>1. AiInv => TypeOK  BY DEF AiInv
  <1> QED BY <1>1, AiInvAlways, PTL

\* For any number of questions, g_ai_busy, tested and written without the lock
\* by two threads, is set exactly while a question is queued or in work.
THEOREM AiBusyMeansWork == Spec => []BusyMeansWork
  <1>1. AiInv => BusyMeansWork  BY DEF AiInv
  <1> QED BY <1>1, AiInvAlways, PTL

\* For any number of questions, a reply waiting to be polled answers the
\* newest one.
THEOREM AiReplyIsLatest == Spec => []ReplyIsLatest
  <1>1. AiInv => ReplyIsLatest  BY DEF AiInv, ReplyInv, ReplyIsLatest
  <1> QED BY <1>1, AiInvAlways, PTL

\* For every set of hosts and every failure of a load or a save, a request is
\* never sent to a replaced relay, nor to the default once one is known.
THEOREM AiHostInForce == Spec => []HostInForce
  <1>1. AiInv => HostInForce  BY DEF AiInv, HostInv
  <1> QED BY <1>1, AiInvAlways, PTL

\* The boot state maps to the service's initial state.
LEMMA ServiceInit == Init => Service!SInit
  BY DEF Init, Service!SInit, Outstanding, Working

\* A step of either thread is a step of the service or invisible to it:
\* storing the prompt is Ask, publishing the reply is Answer, polling is Show.
LEMMA ServiceStep == AiInv /\ [Next]_vars => [Service!SNext]_(Service!svars)
  <1> SUFFICES ASSUME AiInv, [Next]_vars PROVE [Service!SNext]_(Service!svars)
    OBVIOUS
  <1> USE DEF AiInv, TypeOK, BusyMeansWork, SlotInv, ReplyInv, Outstanding, Working,
      Replies, WorkerStates, GuiStates, guiVars, slotVars, wrkVars, hostVars
  <1>1. CASE SendStore
    <2>1. ~Outstanding /\ Outstanding' /\ prompt' = prompt + 1 /\ shown' = shown
      BY <1>1 DEF SendStore
    <2>2. Service!Ask
      BY <2>1 DEF Service!Ask
    <2> QED BY <2>2 DEF Service!SNext
  <1>2. CASE WorkerSetReply
    <2>1. Outstanding /\ ~Outstanding' /\ prompt' = prompt /\ shown' = shown
          /\ prompt > 0
      BY <1>2 DEF WorkerSetReply
    <2>2. Service!Answer
      BY <2>1 DEF Service!Answer
    <2> QED BY <2>2 DEF Service!SNext
  <1>3. CASE Poll
    <2>1. ~Outstanding /\ ~Outstanding' /\ prompt' = prompt /\ shown < prompt
          /\ shown' = prompt
      BY <1>3 DEF Poll
    <2>2. Service!Show
      BY <2>1 DEF Service!Show
    <2> QED BY <2>2 DEF Service!SNext
  <1>4. ASSUME ~SendStore, ~WorkerSetReply, ~Poll
        PROVE  Outstanding' = Outstanding /\ prompt' = prompt /\ shown' = shown
    <2>1. CASE User
      BY <1>4, <2>1 DEF User, ScreenLoad, ShowIpPanel, ShowChatPanel, SendEmpty,
         SendCreate, SendCreateFails, SaveIp
    <2>2. CASE Callback
      BY <1>4, <2>2 DEF Callback, SendCheck, SendSetBusy, SendRelease, SendThinking,
         SaveFile
    <2>3. CASE Worker
      BY <1>4, <2>3 DEF Worker, WorkerTake, WorkerCopy, WorkerWifi, WorkerPickHost,
         WorkerLoadHost, WorkerExchange, WorkerClear
    <2>4. CASE UNCHANGED vars
      BY <2>4 DEF vars
    <2> QED BY <1>4, <2>1, <2>2, <2>3, <2>4 DEF Next
  <1>5. ASSUME ~SendStore, ~WorkerSetReply, ~Poll
        PROVE  UNCHANGED Service!svars
    BY <1>4, <1>5 DEF Service!svars
  <1> QED BY <1>1, <1>2, <1>3, <1>5

\* For any number of questions and every set of hosts, the two threads with
\* their flags, semaphore and lock implement the abstract service.
THEOREM AiImplementsService == Spec => ServiceSpec
  BY ServiceInit, ServiceStep, AiInvAlways, PTL DEF Spec, ServiceSpec, Service!SSpec

=============================================================================
