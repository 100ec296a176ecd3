---------------------------- MODULE FastSession ----------------------------
(***************************************************************************)
(* The session policy of runtime.rs: run_session and every handler of      *)
(* FastSession, over the connection of cdp.rs.  One launcher thread runs   *)
(* a main loop (`phase`, `pc`), hands CDP events to handlers, and blocks   *)
(* inside a handler whenever the handler awaits a command's answer         *)
(* (`handler`).  The browser is any sender of CDP events and answers;      *)
(* `Inbox` bounds what it may send.  Clocks expire at any moment.          *)
(*                                                                         *)
(* Events that arrive while a handler awaits are queued, never nested, and *)
(* are delivered in order before anything new is read.  CdpConnection      *)
(* models that layer in detail; this module keeps its effect.              *)
(***************************************************************************)
EXTENDS PageVerification, Naturals, Sequences

CONSTANTS Sessions,     \* CDP session ids; numbers, in the order of the map
          Unplanned,    \* the resource of a URL no planned path matches
          Inbox,        \* the events the browser may send
          MaxQueue      \* bound: events held back while one handler runs

NoSession == 0

ASSUME SessionsAssumption == Sessions \subseteq Nat \ {NoSession}
ASSUME UnplannedAssumption == Unplanned \notin Resources
ASSUME MaxQueueAssumption == MaxQueue \in Nat

(***************************************************************************)
(* CDP events, reduced to the fields the handlers read.                    *)
(***************************************************************************)
AnyLoader  == Loaders \cup {NoLoader}
AnyRequest == RequestIds \cup {NoRequest}

(* appPage: a "page" target whose URL is blank or app://.                  *)
AttachedToTarget == [method : {"attachedToTarget"}, session : Sessions,
                     appPage : BOOLEAN, waiting : BOOLEAN]
(* Target.detachedFromTarget, or Inspector.detached that names a session.  *)
SessionDetached == [method : {"sessionDetached"}, session : Sessions]
InspectorDetached == [method : {"inspectorDetached"}]
FrameNavigated == [method : {"frameNavigated"}, session : Sessions,
                   frame : Frames, url : Urls, loader : AnyLoader]
DocumentRequest == [method : {"documentRequest"}, session : Sessions,
                    frame : Frames, url : Urls, loader : AnyLoader]
ScriptRequest == [method : {"scriptRequest"}, session : Sessions,
                  frame : Frames, loader : AnyLoader,
                  request : AnyRequest, resource : Resources]
LoadFired == [method : {"load"}, session : Sessions,
              frame : Frames, loader : AnyLoader]
RequestPaused == [method : {"requestPaused"}, session : Sessions \cup {NoSession},
                  resource : Resources \cup {Unplanned}, requestStage : BOOLEAN,
                  script : BOOLEAN, frame : Frames, request : AnyRequest]
(* An event without a field its handler requires, and one nobody handles.  *)
OtherEvents == [method : {"malformed", "unhandled"}]

Events == UNION {AttachedToTarget, SessionDetached, InspectorDetached,
                 FrameNavigated, DocumentRequest, ScriptRequest, LoadFired,
                 RequestPaused, OtherEvents}

ASSUME InboxAssumption == Inbox \subseteq Events

(***************************************************************************)
(* Handlers that are awaiting an answer.  Configuring a page is a chain of *)
(* answers, awaited in this order.                                         *)
(***************************************************************************)
ConfigureAnswers == <<"Fetch.enable", "Runtime.runIfWaitingForDebugger",
                      "Page.enable", "Network.enable", "Network.setCacheDisabled",
                      "Page.setLifecycleEventsEnabled", "Page.getFrameTree">>

Handlers ==
    UNION {[kind : {"idle", "resume"}],
           [kind : {"configure"}, session : Sessions, awaited : 1 .. 7],
           [kind : {"continue"}, session : Sessions \cup {NoSession},
            pageLoaded : BOOLEAN],
           [kind : {"fulfill"}, session : Sessions, resource : Resources,
            script : BOOLEAN, frame : Frames, request : AnyRequest,
            pageLoaded : BOOLEAN]}

Idle   == [kind |-> "idle"]
Resume == [kind |-> "resume"]

VARIABLES phase,        \* where run_session is
          pc,           \* where its loop is: "wait" inside an outer command
          phaseClock,   \* the 45 s reload deadline, or next_heartbeat
          handler,      \* the handler that runs, or Idle
          queue,        \* pending_events
          pages,        \* FastSession.pages
          replacement,  \* page_replacement_deadline
          app,          \* the app process
          outcome,      \* how the run ended
          evidence      \* history: what each page's current document was seen to do

vars == <<phase, pc, phaseClock, handler, queue, pages, replacement, app,
          outcome, evidence>>

(* What is remembered of a page's document: whether it committed over one  *)
(* that had been loaded under control, and the halves observed for it.     *)
Histories == [renavigated : BOOLEAN, halves : SUBSET Halves]

FirstDocument == [renavigated |-> FALSE, halves |-> {}]
NextDocument  == [renavigated |-> TRUE, halves |-> {}]

Phases   == {"startup", "version", "verify", "alive", "heartbeat", "ended"}
Counters == {"wait", "check", "pump", "ensure"}
Outcomes == {"none", "success", "aborted", "failed", "staleReply"}

TypeOK ==
    /\ phase \in Phases
    /\ pc \in Counters
    /\ phaseClock \in Clocks
    /\ handler \in Handlers
    /\ queue \in Seq(Inbox)
    /\ pages \in [Sessions -> PageStates]
    /\ replacement \in Clocks
    /\ app \in {"running", "exitedZero", "exitedNonZero", "killed"}
    /\ outcome \in Outcomes
    /\ evidence \in [Sessions -> Histories]

Init ==
    /\ phase = "startup" /\ pc = "wait" /\ phaseClock = "off"
    /\ handler = Idle /\ queue = <<>>
    /\ pages = [s \in Sessions |-> Absent]
    /\ replacement = "off"
    /\ app = "running" /\ outcome = "none"
    /\ evidence = [s \in Sessions |-> FirstDocument]

(***************************************************************************)
(* Ending the run.  `run` consumes the session, so its state is gone, and  *)
(* dropping the LaunchedApp kills an app that is still running.            *)
(***************************************************************************)
Finish(result) ==
    /\ phase' = "ended" /\ pc' = "wait" /\ phaseClock' = "off"
    /\ handler' = Idle /\ queue' = <<>>
    /\ pages' = [s \in Sessions |-> Absent]
    /\ replacement' = "off"
    /\ app' = IF app = "running" THEN "killed" ELSE app
    /\ outcome' = result
    /\ evidence' = [s \in Sessions |-> FirstDocument]

(* abort_patch_with: the app is killed first, then the error surfaces. *)
AbortPatchWith == Finish("aborted")

(* An error of any other kind leaves run_session through `?`. *)
Fail == Finish("failed")

(* AppExited: reconcile_run turns a clean exit into success. *)
FinishWithAppExit ==
    /\ app \in {"exitedZero", "exitedNonZero"}
    /\ Finish(IF app = "exitedZero" THEN "success" ELSE "failed")

(***************************************************************************)
(* Event delivery.                                                         *)
(***************************************************************************)
Reading == phase # "ended" /\ pc \in {"wait", "pump"}

HandlerIdle == handler = Idle /\ Reading

(* Mutant: events are dispatched even while a handler runs. *)
DeliversNested(e) == Reading /\ (queue = <<>> \/ e = Head(queue))

(* The next event is the oldest one held back, else one off the pipe. *)
Delivers(e) == HandlerIdle /\ (queue = <<>> \/ e = Head(queue))

RestOfQueue == IF queue = <<>> THEN <<>> ELSE Tail(queue)

AfterEvent == IF pc = "pump" THEN "ensure" ELSE pc

(* The handler of a delivered event returns Ok, or blocks on an answer. *)
Return ==
    /\ queue' = RestOfQueue /\ pc' = AfterEvent
    /\ UNCHANGED <<phase, phaseClock, handler, app, outcome>>

Await(h) ==
    /\ queue' = RestOfQueue /\ handler' = h
    /\ UNCHANGED <<phase, pc, phaseClock, app, outcome>>

(* A handler that was awaiting returns Ok. *)
Complete ==
    /\ handler' = Idle /\ pc' = AfterEvent
    /\ UNCHANGED <<phase, phaseClock, queue, app, outcome>>

SetPage(s, page) == pages' = [pages EXCEPT ![s] = page]
UNCHANGED_Pages == UNCHANGED <<pages, replacement, evidence>>

Forget(s) == evidence' = [evidence EXCEPT ![s] = FirstDocument]
Renavigate(s) == evidence' = [evidence EXCEPT ![s] = NextDocument]
Witness(s, h) == evidence' = [evidence EXCEPT ![s].halves = @ \cup {h}]

RemovePage(s) == SetPage(s, Absent) /\ Forget(s)

(* Mutant: the replacement clock keeps running under the new page. *)
BeginLoadKeepingClock(s, loader) ==
    /\ SetPage(s, NewVerification(loader))
    /\ Forget(s)
    /\ UNCHANGED replacement

BeginControlledLoad(s, loader) ==
    /\ SetPage(s, NewVerification(loader))
    /\ replacement' = "off"
    /\ Forget(s)

(***************************************************************************)
(* handle_attached_to_target, up to its first await.                       *)
(***************************************************************************)
HandleAttachedToTarget(e) ==
    \/ /\ ~e.appPage
       /\ IF e.waiting THEN Await(Resume) ELSE Return
       /\ UNCHANGED_Pages
    \/ /\ e.appPage
       /\ ~e.waiting \/ pages[e.session] # Absent
       /\ AbortPatchWith
    \/ /\ e.appPage /\ e.waiting /\ pages[e.session] = Absent
       /\ Await([kind |-> "configure", session |-> e.session, awaited |-> 1])
       /\ SetPage(e.session, Configuring)
       /\ UNCHANGED <<replacement, evidence>>

(* detach_page_session: only losing the last page starts the clock. *)
HandleSessionDetached(e) ==
    /\ Return
    /\ IF pages[e.session] = Absent
       THEN UNCHANGED_Pages
       ELSE /\ RemovePage(e.session)
            /\ replacement' =
                 IF \A s \in Sessions \ {e.session} : pages[s] = Absent
                 THEN "armed" ELSE replacement

(* Inspector.detached without a session: wait for the app's exit code. *)
HandleInspectorDetached(e) ==
    IF app = "running" THEN AbortPatchWith ELSE FinishWithAppExit

(***************************************************************************)
(* handle_frame_navigated: commit_navigation for an intercepting page, the *)
(* first app document for a pending one.                                   *)
(***************************************************************************)
(* Mutant: any app document may replace the one that is still loading. *)
CommitAtAnyTime(page, e) ==
    \/ /\ e.loader = NoLoader \/ e.frame # "main" \/ e.loader = page.loader
       /\ Return /\ UNCHANGED_Pages
    \/ /\ e.loader # NoLoader /\ e.frame = "main" /\ e.loader # page.loader
       /\ IF e.url = "other"
          THEN AbortPatchWith
          ELSE /\ Return
               /\ SetPage(e.session, RebindToNavigation(page, e.loader))
               /\ Renavigate(e.session)
               /\ UNCHANGED replacement

CommitNavigation(page, e) ==
    \/ /\ e.loader = NoLoader \/ e.frame # "main" \/ e.loader = page.loader
       /\ Return /\ UNCHANGED_Pages
    \/ /\ e.loader # NoLoader /\ e.frame = "main" /\ e.loader # page.loader
       /\ IF \/ ~page.firstLoadCompleted
                /\ ~DocumentAccepted(page, e.frame, e.url, e.loader)
             \/ e.url = "other"
          THEN AbortPatchWith
          ELSE /\ Return
               /\ SetPage(e.session, RebindToNavigation(page, e.loader))
               /\ Renavigate(e.session)
               /\ UNCHANGED replacement

(* Mutant: an app document without a loader id is accepted. *)
ClassifyWithoutLoader(e) ==
    /\ e.frame = "main" /\ e.url = "app"
    /\ Return /\ BeginControlledLoad(e.session, e.loader)

ClassifyPendingFrame(e) ==
    \/ /\ e.frame # "main" \/ e.url = "blank"
       /\ Return /\ UNCHANGED_Pages
    \/ /\ e.frame = "main" /\ e.url = "other"
       /\ Return /\ RemovePage(e.session) /\ UNCHANGED replacement
    \/ /\ e.frame = "main" /\ e.url = "app"
       /\ IF e.loader = NoLoader
          THEN AbortPatchWith
          ELSE Return /\ BeginControlledLoad(e.session, e.loader)

HandleFrameNavigated(e) ==
    LET page == pages[e.session] IN
    \/ Intercepting(page) /\ CommitNavigation(page, e)
    \/ page = Pending /\ ClassifyPendingFrame(e)
    \/ ~Intercepting(page) /\ page # Pending /\ Return /\ UNCHANGED_Pages

(***************************************************************************)
(* handle_network_request: document requests change nothing, they only     *)
(* fail the run; planned scripts are the network half of a delivery.       *)
(***************************************************************************)
HandleDocumentRequest(e) ==
    LET page == pages[e.session] IN
    IF /\ Intercepting(page)
       /\ \/ e.loader = NoLoader
          \/ /\ ~SupersedesCompletedLoad(page, e.frame, e.loader)
             /\ ~DocumentAccepted(page, e.frame, e.url, e.loader)
    THEN Fail
    ELSE Return /\ UNCHANGED_Pages

HandleScriptRequest(e) ==
    LET page == pages[e.session] IN
    /\ Return
    /\ IF Intercepting(page)
       THEN /\ SetPage(e.session, ObserveScriptRequest(page, e.request, e.frame,
                                                       e.loader, e.resource))
            /\ IF e.request # NoRequest /\ e.frame = "main" /\ e.loader = page.loader
               THEN Witness(e.session, Half(e.request, "network", e.resource))
               ELSE UNCHANGED evidence
       ELSE UNCHANGED <<pages, evidence>>
    /\ UNCHANGED replacement

(* handle_page_lifecycle *)
HandlePageLifecycle(e) ==
    LET page == pages[e.session] IN
    /\ Return
    /\ IF Intercepting(page) /\ ~page.loaded
       THEN SetPage(e.session, ObserveLoad(page, e.frame, e.loader))
       ELSE UNCHANGED pages
    /\ UNCHANGED <<replacement, evidence>>

(***************************************************************************)
(* handle_fetch_request_paused, up to its first await.  page_loaded is     *)
(* read here, before the answer, and used after it.                        *)
(***************************************************************************)
HandleFetchRequestPaused(e) ==
    LET watched == e.session # NoSession /\ pages[e.session] # Absent
        pageLoaded == watched /\ IsLoaded(pages[e.session])
    IN \/ /\ e.resource = Unplanned \/ ~watched
          /\ Await([kind |-> "continue", session |-> e.session,
                    pageLoaded |-> pageLoaded])
          /\ UNCHANGED_Pages
       \/ /\ e.resource # Unplanned /\ watched /\ ~e.requestStage
          /\ AbortPatchWith
       \/ /\ e.resource # Unplanned /\ watched /\ e.requestStage
          /\ Await([kind |-> "fulfill", session |-> e.session,
                    resource |-> e.resource, script |-> e.script,
                    frame |-> e.frame, request |-> e.request,
                    pageLoaded |-> pageLoaded])
          /\ UNCHANGED_Pages

HandleOther(e) ==
    IF e.method = "malformed" THEN Fail ELSE Return /\ UNCHANGED_Pages

(***************************************************************************)
(* While a handler awaits.  Nothing is delivered; events are held back.    *)
(***************************************************************************)
HoldBack(e) ==
    /\ handler # Idle /\ Len(queue) < MaxQueue
    /\ queue' = Append(queue, e)
    /\ UNCHANGED <<phase, pc, phaseClock, handler, pages, replacement, app,
                   outcome, evidence>>

ConfigureAnswered ==
    /\ handler.kind = "configure" /\ handler.awaited < Len(ConfigureAnswers)
    /\ handler' = [handler EXCEPT !.awaited = @ + 1]
    /\ UNCHANGED <<phase, pc, phaseClock, queue, pages, replacement, app,
                   outcome, evidence>>

(* The answer to Page.getFrameTree decides what the page becomes. *)
FrameTreeAnswered(url, loader) ==
    /\ handler.kind = "configure" /\ handler.awaited = Len(ConfigureAnswers)
    /\ LET s == handler.session IN
       IF \/ url = "app" /\ loader = NoLoader
          \/ url # "other" /\ pages[s] # Configuring
       THEN AbortPatchWith
       ELSE /\ Complete
            /\ CASE url = "other" -> RemovePage(s) /\ UNCHANGED replacement
                 [] url = "blank" -> SetPage(s, Pending)
                                     /\ UNCHANGED <<replacement, evidence>>
                 [] url = "app"   -> BeginControlledLoad(s, loader)

(* runIfWaitingForDebugger of an ignored target, or continueRequest. *)
PlainAnswered ==
    /\ handler.kind \in {"resume", "continue"}
    /\ Complete /\ UNCHANGED_Pages

FulfillAnswered ==
    /\ handler.kind = "fulfill"
    /\ Complete
    /\ LET s == handler.session IN
       IF handler.script /\ Intercepting(pages[s])
       THEN /\ SetPage(s, RecordFulfilledScript(pages[s], handler.request,
                                                handler.frame, handler.resource))
            /\ IF handler.request # NoRequest /\ handler.frame = "main"
               THEN Witness(s, Half(handler.request, "fulfilled", handler.resource))
               ELSE UNCHANGED evidence
       ELSE UNCHANGED <<pages, evidence>>
    /\ UNCHANGED replacement

(***************************************************************************)
(* Refusals that may mean the request or the session is simply gone.       *)
(* Only a refused fulfillRequest is forgiven.                              *)
(***************************************************************************)
SessionDetachedOrPending(s) ==
    \/ pages[s] = Absent
    \/ \E i \in DOMAIN queue : queue[i].method = "sessionDetached"
                               /\ queue[i].session = s

IsStaleInterceptionError(reply) ==
    \/ reply = "invalidInterceptionId" /\ ~handler.pageLoaded
    \/ reply = "sessionNotFound" /\ handler.session # NoSession
       /\ SessionDetachedOrPending(handler.session)

Refusals == {"invalidInterceptionId", "sessionNotFound"}

FulfillRefused(reply) ==
    /\ handler.kind = "fulfill"
    /\ IF IsStaleInterceptionError(reply)
       THEN Complete /\ UNCHANGED_Pages
       ELSE Fail

ContinueRefused(reply) ==
    /\ handler.kind = "continue"
    /\ IF IsStaleInterceptionError(reply) THEN Finish("staleReply") ELSE Fail

(***************************************************************************)
(* ensure_page_interception: settle every gate, and give up on a page or a *)
(* replacement whose clock ran out.                                        *)
(***************************************************************************)
InterceptionLost == replacement = "due" \/ \E s \in Sessions : Overdue(pages[s])

SettleGates ==
    /\ pages' = [s \in Sessions |-> SettleGate(pages[s])]
    /\ UNCHANGED <<replacement, evidence>>

SessionDeadlineDue ==
    replacement = "due" \/ \E s \in Sessions : Gated(pages[s]) /\ pages[s].reverify = "due"

(* handle_wait_deadline, called from inside any wait for an answer. *)
ServeWaitDeadline ==
    /\ phase # "ended" /\ SessionDeadlineDue
    /\ handler # Idle \/ (pc = "wait" /\ queue = <<>>)
    /\ IF InterceptionLost
       THEN AbortPatchWith
       ELSE /\ SettleGates
            /\ UNCHANGED <<phase, pc, phaseClock, handler, queue, app, outcome>>

(***************************************************************************)
(* run_session: two commands, then the two loops.                          *)
(***************************************************************************)
(* Mutant: a loop that does not set its deadline. *)
EnterLoopWithoutClock(p) ==
    /\ phase' = p /\ pc' = "check"
    /\ UNCHANGED <<phaseClock, handler, queue, app, outcome>> /\ UNCHANGED_Pages

EnterLoop(p) ==
    /\ phase' = p /\ pc' = "check" /\ phaseClock' = "armed"
    /\ UNCHANGED <<handler, queue, app, outcome>> /\ UNCHANGED_Pages

StartupAnswered ==
    /\ phase = "startup" /\ handler = Idle
    /\ phase' = "version"
    /\ UNCHANGED <<pc, phaseClock, handler, queue, app, outcome>> /\ UNCHANGED_Pages

VersionAnswered == phase = "version" /\ handler = Idle /\ EnterLoop("verify")

(* loaded_page_session: the first loaded page, and only that one. *)
LoadedPageSession(s) ==
    /\ IsLoaded(pages[s])
    /\ \A t \in Sessions : IsLoaded(pages[t]) => s <= t

(* Mutant: a script counts for readiness whichever page received it. *)
ReadyByAnyPage ==
    \E s \in Sessions :
        /\ LoadedPageSession(s)
        /\ \A r \in Required : \E t \in Sessions :
               Intercepting(pages[t]) /\ r \in pages[t].verified

FastReady ==
    \E s \in Sessions : LoadedPageSession(s) /\ MissingResources(pages[s]) = {}

AnnounceReady ==
    /\ phase = "verify" /\ pc = "check" /\ FastReady
    /\ EnterLoop("alive")

ReloadTimesOut ==
    /\ phase = "verify" /\ pc = "check" /\ ~FastReady /\ phaseClock = "due"
    /\ AbortPatchWith

AwaitNextEvent ==
    /\ phase = "verify" /\ pc = "check" /\ ~FastReady /\ phaseClock # "due"
    /\ pc' = "pump"
    /\ UNCHANGED <<phase, phaseClock, handler, queue, app, outcome>>
    /\ UNCHANGED_Pages

(* The top of the keep_alive loop. *)
KeepAlive ==
    /\ phase = "alive" /\ pc = "check" /\ app = "running"
    /\ IF InterceptionLost
       THEN AbortPatchWith
       ELSE /\ pc' = "pump" /\ SettleGates
            /\ UNCHANGED <<phase, phaseClock, handler, queue, app, outcome>>

(* Mutant: the pump waits for the session's deadlines only. *)
PumpIgnoresLoopDeadline ==
    /\ pc = "pump" /\ handler = Idle /\ queue = <<>> /\ app = "running"
    /\ SessionDeadlineDue
    /\ pc' = "ensure"
    /\ UNCHANGED <<phase, phaseClock, handler, queue, app, outcome>>
    /\ UNCHANGED_Pages

(* The pump returns by the soonest deadline when nothing arrives. *)
PumpTimesOut ==
    /\ pc = "pump" /\ handler = Idle /\ queue = <<>> /\ app = "running"
    /\ phaseClock = "due" \/ SessionDeadlineDue
    /\ pc' = "ensure"
    /\ UNCHANGED <<phase, phaseClock, handler, queue, app, outcome>>
    /\ UNCHANGED_Pages

EnsurePageInterception ==
    /\ pc = "ensure"
    /\ IF InterceptionLost
       THEN AbortPatchWith
       ELSE /\ SettleGates
            /\ IF phase = "alive" /\ phaseClock = "due"
               THEN phase' = "heartbeat" /\ pc' = "wait" /\ phaseClock' = "off"
               ELSE pc' = "check" /\ UNCHANGED <<phase, phaseClock>>
            /\ UNCHANGED <<handler, queue, app, outcome>>

HeartbeatAnswered == phase = "heartbeat" /\ handler = Idle /\ EnterLoop("alive")

(***************************************************************************)
(* Faults: an answer that is an error or never comes, a broken pipe, and   *)
(* an app that exits, which every read and the keep_alive loop notice.     *)
(***************************************************************************)
WaitFails == Reading /\ Fail

(* Mutant: only the keep_alive loop asks for the exit code. *)
NoticeExitInLoopOnly == phase = "alive" /\ pc = "check" /\ FinishWithAppExit

NoticeAppExit ==
    /\ Reading \/ (phase = "alive" /\ pc = "check")
    /\ FinishWithAppExit

AppExits ==
    /\ app = "running"
    /\ app' \in {"exitedZero", "exitedNonZero"}
    /\ UNCHANGED <<phase, pc, phaseClock, handler, queue, outcome>> /\ UNCHANGED_Pages

(* Time passes. *)
ExpirePhaseClock ==
    /\ phaseClock = "armed" /\ phaseClock' = "due"
    /\ UNCHANGED <<phase, pc, handler, queue, app, outcome>> /\ UNCHANGED_Pages

ExpireReplacement ==
    /\ replacement = "armed" /\ replacement' = "due"
    /\ UNCHANGED <<phase, pc, phaseClock, handler, queue, pages, app, outcome, evidence>>

ExpireGate(s) ==
    /\ Gated(pages[s]) /\ pages[s].reverify = "armed"
    /\ SetPage(s, [pages[s] EXCEPT !.reverify = "due"])
    /\ UNCHANGED <<phase, pc, phaseClock, handler, queue, replacement, app,
                   outcome, evidence>>

Terminated == phase = "ended" /\ UNCHANGED vars

(***************************************************************************)
(* The next-state relation: one action per handler, answer and loop step.  *)
(***************************************************************************)
Delivered(methods) == {e \in Inbox : e.method \in methods /\ Delivers(e)}

DeliverAttached   == \E e \in Delivered({"attachedToTarget"}) : HandleAttachedToTarget(e)
DeliverDetached   == \E e \in Delivered({"sessionDetached"}) : HandleSessionDetached(e)
DeliverInspector  == \E e \in Delivered({"inspectorDetached"}) : HandleInspectorDetached(e)
DeliverNavigated  == \E e \in Delivered({"frameNavigated"}) : HandleFrameNavigated(e)
DeliverDocument   == \E e \in Delivered({"documentRequest"}) : HandleDocumentRequest(e)
DeliverScript     == \E e \in Delivered({"scriptRequest"}) : HandleScriptRequest(e)
DeliverLoad       == \E e \in Delivered({"load"}) : HandlePageLifecycle(e)
DeliverPaused     == \E e \in Delivered({"requestPaused"}) : HandleFetchRequestPaused(e)
DeliverOther      == \E e \in Delivered({"malformed", "unhandled"}) : HandleOther(e)

Deliver == \/ DeliverAttached \/ DeliverDetached \/ DeliverInspector
           \/ DeliverNavigated \/ DeliverDocument \/ DeliverScript
           \/ DeliverLoad \/ DeliverPaused \/ DeliverOther

Answered == \/ ConfigureAnswered
            \/ \E url \in Urls, loader \in AnyLoader : FrameTreeAnswered(url, loader)
            \/ PlainAnswered
            \/ FulfillAnswered
            \/ \E reply \in Refusals : FulfillRefused(reply) \/ ContinueRefused(reply)

CommandAnswered == StartupAnswered \/ VersionAnswered \/ HeartbeatAnswered

MainLoop == \/ AnnounceReady \/ ReloadTimesOut \/ AwaitNextEvent
            \/ KeepAlive \/ PumpTimesOut \/ EnsurePageInterception

Next ==
    \/ Deliver
    \/ \E e \in Inbox : HoldBack(e)
    \/ Answered
    \/ ServeWaitDeadline
    \/ CommandAnswered
    \/ MainLoop
    \/ WaitFails
    \/ NoticeAppExit
    \/ AppExits
    \/ ExpirePhaseClock
    \/ ExpireReplacement
    \/ \E s \in Sessions : ExpireGate(s)
    \/ Terminated

Spec == Init /\ [][Next]_vars

(***************************************************************************)
(* Fairness.  The launcher's own steps happen; clocks run; a wait ends     *)
(* with the answer, or without it at the command deadline.  The waits that *)
(* deliver events in between only pass through the state in which they can *)
(* end, hence strong fairness: the pipe is a queue, so an answer, an exit  *)
(* or a silence lies behind finitely many events.                          *)
(***************************************************************************)
OuterWaitEnds == CommandAnswered \/ (pc = "wait" /\ handler = Idle /\ WaitFails)
HandlerWaitEnds == Answered \/ (handler # Idle /\ WaitFails)
DeliverHeldBack == queue # <<>> /\ Deliver

Fairness ==
    /\ WF_vars(MainLoop)
    /\ WF_vars(HandlerWaitEnds)
    /\ WF_vars(DeliverHeldBack)
    /\ SF_vars(OuterWaitEnds)
    /\ SF_vars(ServeWaitDeadline)
    /\ SF_vars(NoticeAppExit)
    /\ WF_vars(ExpirePhaseClock)
    /\ WF_vars(ExpireReplacement)
    /\ \A s \in Sessions : WF_vars(ExpireGate(s))

FairSpec == Spec /\ Fairness

-----------------------------------------------------------------------------
(***************************************************************************)
(* Safety.                                                                 *)
(***************************************************************************)

(* A half waits in a page's table only if that very half was observed for  *)
(* the document the page shows now, and only one waits per request id: the *)
(* table is emptied by every commit (rebind_to_navigation).                *)
WaitingHalvesAreCurrent ==
    \A s \in Sessions : Intercepting(pages[s]) =>
        /\ pages[s].deliveries \subseteq evidence[s].halves
        /\ \A d1, d2 \in pages[s].deliveries :
               d1.request = d2.request => d1 = d2

(* One request id was both announced by the document that page s shows now *)
(* (with its loader id) and answered with the patched bytes of r.          *)
WasDelivered(s, r) ==
    \E q \in RequestIds :
        {Half(q, "network", r), Half(q, "fulfilled", r)} \subseteq evidence[s].halves

(* A resource counts as verified only if it was delivered since the page's *)
(* current document committed.  Halves of another document, of another     *)
(* request or twice of the same side never add up (pair_script_delivery).  *)
VerifiedIsBacked ==
    \A s \in Sessions : Intercepting(pages[s]) =>
        \A r \in pages[s].verified : WasDelivered(s, r)

(* While a page is being configured its handler is the one that runs, and  *)
(* the page is still there when the handler ends: no event is handled      *)
(* inside another, so "detached during Fast configuration" cannot occur.   *)
ConfiguringIsOwned ==
    \A s \in Sessions :
        pages[s] = Configuring <=> handler.kind = "configure" /\ handler.session = s

(* A page that navigated after its controlled load is on the                *)
(* reverification clock, whether its new document has loaded or not, until  *)
(* that document announced, and was sent, every required script             *)
(* (ensure_renavigated_pages_verified).                                     *)
RenavigatedIsGated ==
    \A s \in Sessions :
        Intercepting(pages[s]) /\ evidence[s].renavigated /\ ~Gated(pages[s]) =>
            /\ MissingResources(pages[s]) = {}
            /\ \A r \in Required : WasDelivered(s, r)

(* The replacement clock runs only while no app page is intercepted, so it *)
(* never kills the app under a page that is being served.                  *)
ReplacementClockMeansNoAppPage ==
    replacement # "off" => \A s \in Sessions : ~Intercepting(pages[s])

(***************************************************************************)
(* What no step may do.                                                    *)
(***************************************************************************)

(* FAST_READY is announced only over a page that has loaded and whose own  *)
(* document announced, and was sent, every required script: what another   *)
(* page received, or an earlier document, does not count.                  *)
ReadyMeansDelivered ==
    [][phase = "verify" /\ phase' = "alive" =>
        \E s \in Sessions :
            IsLoaded(pages[s]) /\ \A r \in Required : WasDelivered(s, r)
      ]_vars

(* An intercepted page changes documents only after its first load, and    *)
(* then starts from nothing, on the clock; within one document it never    *)
(* loses a verified script and never turns back from loaded.               *)
DocumentSwapResets ==
    [][\A s \in Sessions :
        Intercepting(pages[s]) /\ Intercepting(pages'[s]) =>
            \/ /\ pages'[s].loader = pages[s].loader
               /\ pages[s].verified \subseteq pages'[s].verified
               /\ pages[s].loaded => pages'[s].loaded
            \/ /\ pages[s].firstLoadCompleted
               /\ pages'[s].loader # pages[s].loader
               /\ pages'[s].verified = {} /\ ~pages'[s].loaded
               /\ pages'[s].reverify = "armed"
      ]_vars

(* A gate is lifted only by proof: while the page stays, the clock goes    *)
(* off only when every required script of its document was delivered.      *)
GateLiftedOnlyByProof ==
    [][\A s \in Sessions :
        Gated(pages[s]) /\ Intercepting(pages'[s]) /\ ~Gated(pages'[s]) =>
            Required \subseteq pages[s].verified
      ]_vars

(***************************************************************************)
(* Liveness, under Fairness.                                               *)
(***************************************************************************)

(* Every launch gets to FAST_READY or ends: nothing the browser sends or   *)
(* withholds keeps the launcher in between.                                *)
LaunchSettles == <>(phase \in {"alive", "ended"})

(* The contract of handle_wait_deadline in cdp.rs: a deadline that is due  *)
(* is cleared or moved, or the run ends.  No overdue page runs on, and no  *)
(* wait spins on a deadline that nobody takes away.                        *)
DueDeadlineIsServed == SessionDeadlineDue ~> ~SessionDeadlineDue

(* The write half of the pipe is exercised again and again. *)
HeartbeatRecurs == phase = "alive" ~> phase \in {"heartbeat", "ended"}

(* An app that exits ends the run. *)
ExitEndsRun == app \in {"exitedZero", "exitedNonZero"} ~> phase = "ended"

-----------------------------------------------------------------------------
(***************************************************************************)
(* What the comments say and the code does not do.                         *)
(***************************************************************************)

(* "exits and detaches are caught by the event pump regardless": once Fast *)
(* is ready, having no page left means waiting for a replacement.          *)
NoPageMeansReplacementAwaited ==
    phase = "alive" /\ pc = "check" /\ (\A s \in Sessions : pages[s] = Absent)
        => replacement # "off"

(* "verifies that the page which finished loading is the one that received *)
(* them": once Fast is ready, a loaded page that lacks a required script   *)
(* is on a clock.                                                          *)
LoadedPageIsVerifiedOrGated ==
    phase = "alive" => \A s \in Sessions :
        IsLoaded(pages[s]) /\ MissingResources(pages[s]) # {} => Gated(pages[s])

(* "ignores only stale interception ids before page load", for             *)
(* Fetch.fulfillRequest and Fetch.continueRequest alike.                   *)
StaleRepliesAreIgnored == outcome # "staleReply"
=============================================================================
