------------------------- MODULE FastSessionProofs -------------------------
(***************************************************************************)
(* Theorems about FastSession, for every value of its constants.           *)
(***************************************************************************)
EXTENDS FastSession, TLAPS

(***************************************************************************)
(* What the operators on one page return.                                  *)
(***************************************************************************)
LEMMA NewVerificationType ==
    ASSUME NEW l \in Loaders PROVE NewVerification(l) \in Verifications
BY DEF NewVerification, Verifications, Clocks

LEMMA RebindType ==
    ASSUME NEW page \in Verifications, NEW l \in Loaders
    PROVE  RebindToNavigation(page, l) \in Verifications
BY DEF RebindToNavigation, Verifications, Clocks

LEMMA ObserveLoadType ==
    ASSUME NEW page \in Verifications, NEW frame, NEW l
    PROVE  ObserveLoad(page, frame, l) \in Verifications
BY DEF ObserveLoad, Verifications

LEMMA PairType ==
    ASSUME NEW page \in Verifications, NEW q \in RequestIds,
           NEW side \in {"network", "fulfilled"}, NEW r \in Resources
    PROVE  PairScriptDelivery(page, q, side, r) \in Verifications
<1>1. OtherRequests(page, q) \subseteq Halves
  BY DEF OtherRequests, Verifications
<1>2. Half(q, side, r) \in Halves
  BY DEF Half, Halves
<1>3. page.verified \cup {r} \subseteq Resources
  BY DEF Verifications
<1> QED
  BY <1>1, <1>2, <1>3 DEF PairScriptDelivery, Verifications

LEMMA ObserveScriptRequestType ==
    ASSUME NEW page \in Verifications, NEW q \in AnyRequest, NEW frame, NEW l,
           NEW r \in Resources
    PROVE  ObserveScriptRequest(page, q, frame, l, r) \in Verifications
BY PairType DEF ObserveScriptRequest, AnyRequest

LEMMA RecordFulfilledScriptType ==
    ASSUME NEW page \in Verifications, NEW q \in AnyRequest, NEW frame,
           NEW r \in Resources
    PROVE  RecordFulfilledScript(page, q, frame, r) \in Verifications
BY PairType DEF RecordFulfilledScript, AnyRequest

LEMMA PageStateTypes ==
    /\ {Absent, Configuring, Pending} \subseteq PageStates
    /\ Verifications \subseteq PageStates
    /\ \A page \in PageStates : Intercepting(page) <=> page \in Verifications
    /\ \A page \in Verifications : page \notin {Absent, Configuring, Pending}
BY DEF Absent, Configuring, Pending, PageStates, Verifications, Intercepting

LEMMA SettleGateType ==
    ASSUME NEW page \in PageStates PROVE SettleGate(page) \in PageStates
<1>1. CASE Intercepting(page)
  <2>1. page \in Verifications
    BY <1>1, PageStateTypes
  <2>2. [page EXCEPT !.reverify = "off"] \in Verifications
    BY <2>1 DEF Verifications, Clocks
  <2> QED
    BY <2>1, <2>2, PageStateTypes DEF SettleGate
<1>2. CASE ~Intercepting(page)
  BY <1>2 DEF SettleGate, Gated
<1> QED
  BY <1>1, <1>2

(***************************************************************************)
(* Events are what their method says, and the queue holds events.          *)
(***************************************************************************)
LEMMA EventTypes ==
    ASSUME NEW e \in Inbox
    PROVE  /\ e.method = "attachedToTarget" => e \in AttachedToTarget
           /\ e.method = "sessionDetached" => e \in SessionDetached
           /\ e.method = "frameNavigated" => e \in FrameNavigated
           /\ e.method = "documentRequest" => e \in DocumentRequest
           /\ e.method = "scriptRequest" => e \in ScriptRequest
           /\ e.method = "load" => e \in LoadFired
           /\ e.method = "requestPaused" => e \in RequestPaused
BY InboxAssumption DEF Events, AttachedToTarget, SessionDetached,
   InspectorDetached, FrameNavigated, DocumentRequest, ScriptRequest,
   LoadFired, RequestPaused, OtherEvents

LEMMA RestOfQueueType ==
    ASSUME queue \in Seq(Inbox) PROVE RestOfQueue \in Seq(Inbox)
BY DEF RestOfQueue

LEMMA FinishType ==
    ASSUME TypeOK, NEW result \in Outcomes, Finish(result) PROVE TypeOK'
<1>1. pages' \in [Sessions -> PageStates]
  BY PageStateTypes DEF Finish
<1>2. handler' \in Handlers
  BY DEF Finish, Idle, Handlers
<1> QED
  BY <1>1, <1>2 DEF Finish, TypeOK, Histories, FirstDocument, Phases, Counters, Clocks

LEMMA RunOverTypes ==
    ASSUME TypeOK
    PROVE  /\ AfterEvent \in Counters
           /\ RestOfQueue \in Seq(Inbox)
BY RestOfQueueType DEF TypeOK, AfterEvent, Counters

LEMMA SetPageType ==
    ASSUME TypeOK, NEW s \in Sessions, NEW page \in PageStates, SetPage(s, page)
    PROVE  pages' \in [Sessions -> PageStates]
BY DEF TypeOK, SetPage

LEMMA EvidenceType ==
    ASSUME TypeOK, NEW s \in Sessions
    PROVE  /\ Forget(s) \/ Renavigate(s) => evidence' \in [Sessions -> Histories]
           /\ \A h \in Halves : Witness(s, h) => evidence' \in [Sessions -> Histories]
<1>1. Forget(s) \/ Renavigate(s) => evidence' \in [Sessions -> Histories]
  <2>1. FirstDocument \in Histories /\ NextDocument \in Histories
    BY DEF Histories, FirstDocument, NextDocument
  <2> QED
    BY <2>1 DEF TypeOK, Forget, Renavigate
<1>2. ASSUME NEW h \in Halves, Witness(s, h)
      PROVE  evidence' \in [Sessions -> Histories]
  <2>1. evidence[s] \in Histories
    BY DEF TypeOK
  <2>2. [evidence[s] EXCEPT !.halves = @ \cup {h}] \in Histories
    BY <1>2, <2>1 DEF Histories
  <2>3. evidence' = [evidence EXCEPT ![s] = [evidence[s] EXCEPT !.halves = @ \cup {h}]]
    BY <1>2, <2>1 DEF TypeOK, Witness
  <2> QED
    BY <2>2, <2>3 DEF TypeOK
<1> QED
  BY <1>1, <1>2

(* What is left to check when a handler of a delivered event returns, or   *)
(* awaits: the page state it left.                                         *)
PageVarsOK == /\ pages \in [Sessions -> PageStates]
              /\ replacement \in Clocks
              /\ evidence \in [Sessions -> Histories]

LEMMA ReturnType ==
    ASSUME TypeOK, Return, PageVarsOK' PROVE TypeOK'
BY RunOverTypes DEF TypeOK, Return, PageVarsOK

LEMMA AwaitType ==
    ASSUME TypeOK, NEW h \in Handlers, Await(h), PageVarsOK' PROVE TypeOK'
BY RunOverTypes DEF TypeOK, Await, PageVarsOK

LEMMA CompleteType ==
    ASSUME TypeOK, Complete, PageVarsOK' PROVE TypeOK'
BY RunOverTypes DEF TypeOK, Complete, PageVarsOK, Handlers, Idle

LEMMA UnchangedPagesType ==
    ASSUME TypeOK, UNCHANGED_Pages PROVE PageVarsOK'
BY DEF TypeOK, UNCHANGED_Pages, PageVarsOK

LEMMA BeginControlledLoadType ==
    ASSUME TypeOK, NEW s \in Sessions, NEW l \in Loaders, BeginControlledLoad(s, l)
    PROVE  PageVarsOK'
<1>1. pages' \in [Sessions -> PageStates]
  BY SetPageType, NewVerificationType, PageStateTypes DEF BeginControlledLoad
<1> QED
  BY <1>1, EvidenceType DEF BeginControlledLoad, PageVarsOK, Clocks

LEMMA RemovePageType ==
    ASSUME TypeOK, NEW s \in Sessions, RemovePage(s)
    PROVE  /\ pages' \in [Sessions -> PageStates]
           /\ evidence' \in [Sessions -> Histories]
BY SetPageType, EvidenceType, PageStateTypes DEF RemovePage

LEMMA SettleGatesType ==
    ASSUME TypeOK, SettleGates PROVE PageVarsOK'
BY SettleGateType DEF TypeOK, SettleGates, PageVarsOK

(***************************************************************************)
(* Every step keeps the types.                                             *)
(***************************************************************************)
LEMMA DeliverType ==
    ASSUME TypeOK, Deliver PROVE TypeOK'
<1> USE DEF Delivered
<1>1. CASE DeliverAttached
  <2> PICK e \in Delivered({"attachedToTarget"}) : HandleAttachedToTarget(e)
    BY <1>1 DEF DeliverAttached
  <2> e \in AttachedToTarget
    BY EventTypes
  <2>1. CASE ~e.appPage /\ (IF e.waiting THEN Await(Resume) ELSE Return) /\ UNCHANGED_Pages
    BY <2>1, ReturnType, AwaitType, UnchangedPagesType DEF Resume, Handlers
  <2>2. CASE AbortPatchWith
    BY <2>2, FinishType DEF AbortPatchWith, Outcomes
  <2>3. CASE /\ Await([kind |-> "configure", session |-> e.session, awaited |-> 1])
             /\ SetPage(e.session, Configuring)
             /\ UNCHANGED <<replacement, evidence>>
    <3>1. e.session \in Sessions
      BY DEF AttachedToTarget
    <3>2. PageVarsOK'
      BY <2>3, <3>1, SetPageType, PageStateTypes DEF PageVarsOK, TypeOK
    <3>3. [kind |-> "configure", session |-> e.session, awaited |-> 1] \in Handlers
      BY <3>1 DEF Handlers
    <3> QED
      BY <2>3, <3>2, <3>3, AwaitType
  <2> QED
    BY <2>1, <2>2, <2>3 DEF HandleAttachedToTarget
<1>2. CASE DeliverDetached
  <2> PICK e \in Delivered({"sessionDetached"}) : HandleSessionDetached(e)
    BY <1>2 DEF DeliverDetached
  <2>1. e.session \in Sessions
    BY EventTypes DEF SessionDetached
  <2>2. PageVarsOK'
    BY <2>1, UnchangedPagesType, RemovePageType
    DEF HandleSessionDetached, PageVarsOK, TypeOK, Clocks
  <2> QED
    BY <2>2, ReturnType DEF HandleSessionDetached
<1>3. CASE DeliverInspector
  BY <1>3, FinishType DEF DeliverInspector, HandleInspectorDetached, AbortPatchWith,
     FinishWithAppExit, Outcomes
<1>4. CASE DeliverNavigated
  <2> PICK e \in Delivered({"frameNavigated"}) : HandleFrameNavigated(e)
    BY <1>4 DEF DeliverNavigated
  <2>1. e \in FrameNavigated /\ e.session \in Sessions
    BY EventTypes DEF FrameNavigated
  <2> DEFINE page == pages[e.session]
  <2>2. CASE Intercepting(page) /\ CommitNavigation(page, e)
    <3>1. page \in Verifications
      BY <2>1, <2>2, PageStateTypes DEF TypeOK
    <3>2. CASE Return /\ UNCHANGED_Pages
      BY <3>2, ReturnType, UnchangedPagesType
    <3>3. CASE AbortPatchWith
      BY <3>3, FinishType DEF AbortPatchWith, Outcomes
    <3>4. CASE /\ e.loader # NoLoader /\ Return
               /\ SetPage(e.session, RebindToNavigation(page, e.loader))
               /\ Renavigate(e.session) /\ UNCHANGED replacement
      <4>1. e.loader \in Loaders
        BY <2>1, <3>4 DEF FrameNavigated, AnyLoader
      <4>2. pages' \in [Sessions -> PageStates]
        BY <2>1, <3>1, <3>4, <4>1, RebindType, SetPageType, PageStateTypes
      <4>3. PageVarsOK'
        BY <2>1, <3>4, <4>2, EvidenceType DEF PageVarsOK, TypeOK
      <4> QED
        BY <3>4, <4>3, ReturnType
    <3> QED
      BY <2>2, <3>2, <3>3, <3>4 DEF CommitNavigation
  <2>3. CASE ClassifyPendingFrame(e)
    <3>1. CASE Return /\ UNCHANGED_Pages
      BY <3>1, ReturnType, UnchangedPagesType
    <3>2. CASE Return /\ RemovePage(e.session) /\ UNCHANGED replacement
      BY <2>1, <3>2, ReturnType, RemovePageType DEF PageVarsOK, TypeOK
    <3>3. CASE AbortPatchWith
      BY <3>3, FinishType DEF AbortPatchWith, Outcomes
    <3>4. CASE e.loader # NoLoader /\ Return /\ BeginControlledLoad(e.session, e.loader)
      <4>1. e.loader \in Loaders
        BY <2>1, <3>4 DEF FrameNavigated, AnyLoader
      <4> QED
        BY <2>1, <3>4, <4>1, ReturnType, BeginControlledLoadType
    <3> QED
      BY <2>3, <3>1, <3>2, <3>3, <3>4 DEF ClassifyPendingFrame
  <2>4. CASE Return /\ UNCHANGED_Pages
    BY <2>4, ReturnType, UnchangedPagesType
  <2> QED
    BY <2>2, <2>3, <2>4 DEF HandleFrameNavigated
<1>5. CASE DeliverDocument
  BY <1>5, FinishType, ReturnType, UnchangedPagesType
  DEF DeliverDocument, HandleDocumentRequest, Fail, Outcomes
<1>6. CASE DeliverScript
  <2> PICK e \in Delivered({"scriptRequest"}) : HandleScriptRequest(e)
    BY <1>6 DEF DeliverScript
  <2>1. e \in ScriptRequest /\ e.session \in Sessions
    BY EventTypes DEF ScriptRequest
  <2> DEFINE page == pages[e.session]
  <2>2. CASE Intercepting(page)
    <3>1. page \in Verifications
      BY <2>1, <2>2, PageStateTypes DEF TypeOK
    <3>2. ObserveScriptRequest(page, e.request, e.frame, e.loader, e.resource) \in PageStates
      BY <2>1, <3>1, ObserveScriptRequestType, PageStateTypes DEF ScriptRequest
    <3>3. pages' \in [Sessions -> PageStates]
      BY <2>1, <2>2, <3>2, SetPageType DEF HandleScriptRequest
    <3>4. e.request # NoRequest => Half(e.request, "network", e.resource) \in Halves
      BY <2>1 DEF ScriptRequest, AnyRequest, Half, Halves
    <3>5. evidence' \in [Sessions -> Histories]
      BY <2>1, <2>2, <3>4, EvidenceType DEF HandleScriptRequest, TypeOK
    <3> QED
      BY <3>3, <3>5, ReturnType DEF HandleScriptRequest, PageVarsOK, TypeOK
  <2>3. CASE ~Intercepting(page)
    BY <2>3, ReturnType, UnchangedPagesType DEF HandleScriptRequest, UNCHANGED_Pages
  <2> QED
    BY <2>2, <2>3
<1>7. CASE DeliverLoad
  <2> PICK e \in Delivered({"load"}) : HandlePageLifecycle(e)
    BY <1>7 DEF DeliverLoad
  <2>1. e.session \in Sessions
    BY EventTypes DEF LoadFired
  <2>2. Intercepting(pages[e.session]) =>
          ObserveLoad(pages[e.session], e.frame, e.loader) \in PageStates
    BY <2>1, ObserveLoadType, PageStateTypes DEF TypeOK
  <2>3. PageVarsOK'
    BY <2>1, <2>2, SetPageType DEF HandlePageLifecycle, PageVarsOK, TypeOK
  <2> QED
    BY <2>3, ReturnType DEF HandlePageLifecycle
<1>8. CASE DeliverPaused
  <2> PICK e \in Delivered({"requestPaused"}) : HandleFetchRequestPaused(e)
    BY <1>8 DEF DeliverPaused
  <2>1. e \in RequestPaused
    BY EventTypes
  <2> DEFINE watched == e.session # NoSession /\ pages[e.session] # Absent
             loaded == watched /\ IsLoaded(pages[e.session])
  <2>2. loaded \in BOOLEAN
    <3>1. CASE ~watched
      BY <3>1
    <3>2. CASE watched
      <4>1. pages[e.session] \in PageStates
        BY <2>1, <3>2 DEF RequestPaused, TypeOK
      <4> QED
        BY <4>1 DEF IsLoaded, Intercepting, PageStates, Verifications
    <3> QED
      BY <3>1, <3>2
  <2> HIDE DEF loaded
  <2>3. CASE Await([kind |-> "continue", session |-> e.session, pageLoaded |-> loaded])
             /\ UNCHANGED_Pages
    <3>1. [kind |-> "continue", session |-> e.session, pageLoaded |-> loaded] \in Handlers
      BY <2>1, <2>2 DEF RequestPaused, Handlers
    <3> QED
      BY <2>3, <3>1, AwaitType, UnchangedPagesType
  <2>4. CASE AbortPatchWith
    BY <2>4, FinishType DEF AbortPatchWith, Outcomes
  <2>5. CASE /\ e.resource # Unplanned /\ watched
             /\ Await([kind |-> "fulfill", session |-> e.session,
                       resource |-> e.resource, script |-> e.script,
                       frame |-> e.frame, request |-> e.request,
                       pageLoaded |-> loaded])
             /\ UNCHANGED_Pages
    <3>1. [kind |-> "fulfill", session |-> e.session,
           resource |-> e.resource, script |-> e.script,
           frame |-> e.frame, request |-> e.request,
           pageLoaded |-> loaded] \in Handlers
      BY <2>1, <2>2, <2>5 DEF RequestPaused, Handlers
    <3> QED
      BY <2>5, <3>1, AwaitType, UnchangedPagesType
  <2> QED
    BY <2>3, <2>4, <2>5 DEF HandleFetchRequestPaused, loaded
<1>9. CASE DeliverOther
  BY <1>9, FinishType, ReturnType, UnchangedPagesType
  DEF DeliverOther, HandleOther, Fail, Outcomes
<1> QED
  BY <1>1, <1>2, <1>3, <1>4, <1>5, <1>6, <1>7, <1>8, <1>9 DEF Deliver

LEMMA AnsweredType ==
    ASSUME TypeOK, Answered PROVE TypeOK'
<1>1. CASE ConfigureAnswered
  <2>1. handler \in [kind : {"configure"}, session : Sessions, awaited : 1 .. 7]
    BY <1>1 DEF ConfigureAnswered, TypeOK, Handlers
  <2>2. handler.awaited + 1 \in 1 .. 7
    BY <1>1, <2>1 DEF ConfigureAnswered, ConfigureAnswers
  <2>3. [handler EXCEPT !.awaited = @ + 1] \in Handlers
    BY <2>1, <2>2 DEF Handlers
  <2> QED
    BY <1>1, <2>3 DEF ConfigureAnswered, TypeOK
<1>2. CASE \E url \in Urls, l \in AnyLoader : FrameTreeAnswered(url, l)
  <2> PICK url \in Urls, l \in AnyLoader : FrameTreeAnswered(url, l)
    BY <1>2
  <2>1. handler.session \in Sessions
    BY DEF FrameTreeAnswered, TypeOK, Handlers
  <2> DEFINE s == handler.session
  <2>2. CASE AbortPatchWith
    BY <2>2, FinishType DEF AbortPatchWith, Outcomes
  <2>3. CASE url = "other" /\ Complete /\ RemovePage(s) /\ UNCHANGED replacement
    BY <2>1, <2>3, CompleteType, RemovePageType DEF PageVarsOK, TypeOK
  <2>4. CASE /\ url = "blank" /\ Complete /\ SetPage(s, Pending)
             /\ UNCHANGED <<replacement, evidence>>
    BY <2>1, <2>4, CompleteType, SetPageType, PageStateTypes DEF PageVarsOK, TypeOK
  <2>5. CASE /\ url = "app" /\ l # NoLoader /\ Complete
             /\ BeginControlledLoad(s, l)
    BY <2>1, <2>5, CompleteType, BeginControlledLoadType DEF AnyLoader
  <2> QED
    BY <2>2, <2>3, <2>4, <2>5 DEF FrameTreeAnswered, Urls
<1>3. CASE PlainAnswered
  BY <1>3, CompleteType, UnchangedPagesType DEF PlainAnswered
<1>4. CASE FulfillAnswered
  <2>1. /\ handler.session \in Sessions /\ handler.resource \in Resources
        /\ handler.request \in AnyRequest
    BY <1>4 DEF FulfillAnswered, TypeOK, Handlers
  <2> DEFINE s == handler.session
  <2>2. Intercepting(pages[s]) =>
          RecordFulfilledScript(pages[s], handler.request, handler.frame,
                                handler.resource) \in PageStates
    BY <2>1, RecordFulfilledScriptType, PageStateTypes DEF TypeOK
  <2>3. handler.request # NoRequest =>
          Half(handler.request, "fulfilled", handler.resource) \in Halves
    BY <2>1 DEF AnyRequest, Half, Halves
  <2>4. pages' \in [Sessions -> PageStates]
    BY <1>4, <2>1, <2>2, SetPageType DEF FulfillAnswered, TypeOK
  <2>5. evidence' \in [Sessions -> Histories]
    BY <1>4, <2>1, <2>3, EvidenceType DEF FulfillAnswered, TypeOK
  <2> QED
    BY <1>4, <2>4, <2>5, CompleteType DEF FulfillAnswered, PageVarsOK, TypeOK
<1>5. CASE \E reply \in Refusals : FulfillRefused(reply) \/ ContinueRefused(reply)
  BY <1>5, CompleteType, UnchangedPagesType, FinishType
  DEF FulfillRefused, ContinueRefused, Fail, Outcomes
<1> QED
  BY <1>1, <1>2, <1>3, <1>4, <1>5 DEF Answered

LEMMA LoopType ==
    ASSUME TypeOK, ServeWaitDeadline \/ CommandAnswered \/ MainLoop PROVE TypeOK'
<1> USE DEF Phases, Counters, Clocks, PageVarsOK
<1>1. CASE ServeWaitDeadline
  <2>1. CASE AbortPatchWith
    BY <2>1, FinishType DEF AbortPatchWith, Outcomes
  <2>2. CASE SettleGates /\ UNCHANGED <<phase, pc, phaseClock, handler, queue, app, outcome>>
    BY <2>2, SettleGatesType DEF TypeOK
  <2> QED
    BY <1>1, <2>1, <2>2 DEF ServeWaitDeadline
<1>2. CASE CommandAnswered
  BY <1>2, UnchangedPagesType
  DEF CommandAnswered, StartupAnswered, VersionAnswered, HeartbeatAnswered, EnterLoop, TypeOK
<1>3. CASE AnnounceReady \/ AwaitNextEvent \/ PumpTimesOut
  BY <1>3, UnchangedPagesType
  DEF AnnounceReady, AwaitNextEvent, PumpTimesOut, EnterLoop, TypeOK
<1>4. CASE ReloadTimesOut
  BY <1>4, FinishType DEF ReloadTimesOut, AbortPatchWith, Outcomes
<1>5. CASE KeepAlive
  <2>1. CASE AbortPatchWith
    BY <2>1, FinishType DEF AbortPatchWith, Outcomes
  <2>2. CASE /\ pc' = "pump" /\ SettleGates
             /\ UNCHANGED <<phase, phaseClock, handler, queue, app, outcome>>
    BY <2>2, SettleGatesType DEF TypeOK
  <2> QED
    BY <1>5, <2>1, <2>2 DEF KeepAlive
<1>6. CASE EnsurePageInterception
  <2>1. CASE AbortPatchWith
    BY <2>1, FinishType DEF AbortPatchWith, Outcomes
  <2>2. CASE ~InterceptionLost
    BY <1>6, <2>2, SettleGatesType DEF EnsurePageInterception, TypeOK
  <2> QED
    BY <1>6, <2>1, <2>2 DEF EnsurePageInterception
<1> QED
  BY <1>1, <1>2, <1>3, <1>4, <1>5, <1>6 DEF MainLoop

LEMMA EnvironmentType ==
    ASSUME TypeOK,
           \/ \E e \in Inbox : HoldBack(e)
           \/ WaitFails \/ NoticeAppExit \/ AppExits
           \/ ExpirePhaseClock \/ ExpireReplacement
           \/ \E s \in Sessions : ExpireGate(s)
    PROVE  TypeOK'
<1>1. CASE \E e \in Inbox : HoldBack(e)
  BY <1>1 DEF HoldBack, TypeOK
<1>2. CASE WaitFails \/ NoticeAppExit
  BY <1>2, FinishType DEF WaitFails, Fail, NoticeAppExit, FinishWithAppExit, Outcomes
<1>3. CASE AppExits \/ ExpirePhaseClock \/ ExpireReplacement
  BY <1>3 DEF AppExits, ExpirePhaseClock, ExpireReplacement, UNCHANGED_Pages, TypeOK, Clocks
<1>4. CASE \E s \in Sessions : ExpireGate(s)
  <2> PICK s \in Sessions : ExpireGate(s)
    BY <1>4
  <2>1. pages[s] \in Verifications
    BY PageStateTypes DEF ExpireGate, Gated, TypeOK
  <2>2. [pages[s] EXCEPT !.reverify = "due"] \in PageStates
    BY <2>1, PageStateTypes DEF Verifications, Clocks
  <2> QED
    BY <2>2, SetPageType DEF ExpireGate, TypeOK
<1> QED
  BY <1>1, <1>2, <1>3, <1>4

(* Every variable keeps the shape its Rust field has. *)
THEOREM TypeCorrect == Spec => []TypeOK
<1>1. Init => TypeOK
  BY PageStateTypes DEF Init, TypeOK, Histories, FirstDocument, Phases, Counters, Clocks, Handlers, Idle, Outcomes
<1>2. TypeOK /\ [Next]_vars => TypeOK'
  <2> SUFFICES ASSUME TypeOK, [Next]_vars PROVE TypeOK'
    OBVIOUS
  <2>1. CASE UNCHANGED vars
    BY <2>1 DEF vars, TypeOK
  <2> QED
    BY <2>1, DeliverType, AnsweredType, LoopType, EnvironmentType DEF Next, Terminated
<1> QED
  BY <1>1, <1>2, PTL DEF Spec

-----------------------------------------------------------------------------
(***************************************************************************)
(* What one step can do to one page, whatever the handler: every theorem   *)
(* below follows from this list.                                           *)
(***************************************************************************)
Kept(s) == evidence'[s] = evidence[s] /\ pages'[s] = pages[s]

Started(s) == /\ ~Intercepting(pages[s]) /\ replacement' = "off"
              /\ evidence'[s] = FirstDocument
              /\ \E l \in Loaders : pages'[s] = NewVerification(l)

Rebound(s) == /\ Intercepting(pages[s]) /\ pages[s].firstLoadCompleted
              /\ evidence'[s] = NextDocument
              /\ \E l \in Loaders : /\ l # pages[s].loader
                                   /\ pages'[s] = RebindToNavigation(pages[s], l)

LoadSeen(s) == /\ Intercepting(pages[s]) /\ evidence'[s] = evidence[s]
               /\ \E frame, l : pages'[s] = ObserveLoad(pages[s], frame, l)

Paired(s) == /\ Intercepting(pages[s])
             /\ \E q \in RequestIds, side \in {"network", "fulfilled"}, r \in Resources :
                  /\ evidence'[s] = [evidence[s] EXCEPT !.halves = @ \cup {Half(q, side, r)}]
                  /\ pages'[s] = PairScriptDelivery(pages[s], q, side, r)

Clocked(s) == /\ Intercepting(pages[s]) /\ evidence'[s] = evidence[s]
              /\ \/ pages'[s] = SettleGate(pages[s])
                 \/ /\ pages[s].reverify = "armed"
                    /\ pages'[s] = [pages[s] EXCEPT !.reverify = "due"]

PageStep(s) == \/ ~Intercepting(pages'[s])
               \/ Kept(s) \/ Started(s) \/ Rebound(s)
               \/ LoadSeen(s) \/ Paired(s) \/ Clocked(s)

LEMMA FinishSteps ==
    ASSUME NEW result, Finish(result), NEW s \in Sessions PROVE PageStep(s)
BY DEF Finish, PageStep, Absent, Intercepting

LEMMA UnchangedSteps ==
    ASSUME UNCHANGED_Pages, NEW s \in Sessions PROVE PageStep(s)
BY DEF UNCHANGED_Pages, PageStep, Kept

LEMMA SettleSteps ==
    ASSUME TypeOK, SettleGates, NEW s \in Sessions PROVE PageStep(s)
BY DEF SettleGates, PageStep, Clocked, SettleGate, Gated, Intercepting

(* The other pages keep what they have when one page is set. *)
LEMMA OthersKept ==
    ASSUME TypeOK, NEW t \in Sessions, NEW page, SetPage(t, page),
           \/ evidence' = evidence \/ Forget(t) \/ Renavigate(t)
           \/ \E h \in Halves : Witness(t, h),
           NEW s \in Sessions, s # t
    PROVE  PageStep(s)
BY DEF TypeOK, SetPage, Forget, Renavigate, Witness, PageStep, Kept

LEMMA SetPageAt ==
    ASSUME TypeOK, NEW t \in Sessions, NEW page, SetPage(t, page)
    PROVE  /\ pages'[t] = page
           /\ Forget(t) => evidence'[t] = FirstDocument
           /\ Renavigate(t) => evidence'[t] = NextDocument
           /\ \A h \in Halves : Witness(t, h) =>
                evidence'[t] = [evidence[t] EXCEPT !.halves = @ \cup {h}]
BY DEF TypeOK, SetPage, Forget, Renavigate, Witness

LEMMA StartSteps ==
    ASSUME TypeOK, NEW t \in Sessions, ~Intercepting(pages[t]),
           NEW l \in Loaders, BeginControlledLoad(t, l), NEW s \in Sessions
    PROVE  PageStep(s)
<1>1. CASE s = t
  BY <1>1, SetPageAt DEF BeginControlledLoad, PageStep, Started
<1>2. CASE s # t
  BY <1>2, OthersKept DEF BeginControlledLoad
<1> QED
  BY <1>1, <1>2

LEMMA BareSteps ==
    ASSUME TypeOK, NEW t \in Sessions, NEW page \in {Absent, Configuring, Pending},
           SetPage(t, page), evidence' = evidence \/ Forget(t), NEW s \in Sessions
    PROVE  PageStep(s)
<1>1. CASE s = t
  BY <1>1, SetPageAt DEF PageStep, Intercepting, Absent, Configuring, Pending
<1>2. CASE s # t
  BY <1>2, OthersKept
<1> QED
  BY <1>1, <1>2

LEMMA PairSteps ==
    ASSUME TypeOK, NEW t \in Sessions, Intercepting(pages[t]),
           NEW q \in RequestIds, NEW side \in {"network", "fulfilled"},
           NEW r \in Resources,
           SetPage(t, PairScriptDelivery(pages[t], q, side, r)),
           Witness(t, Half(q, side, r)), NEW s \in Sessions
    PROVE  PageStep(s)
<1>0. Half(q, side, r) \in Halves
  BY DEF Half, Halves
<1>1. CASE s = t
  BY <1>0, <1>1, SetPageAt DEF PageStep, Paired
<1>2. CASE s # t
  BY <1>0, <1>2, OthersKept
<1> QED
  BY <1>1, <1>2

(* Writing back the page that is there changes nothing. *)
LEMMA SamePageSteps ==
    ASSUME TypeOK, NEW t \in Sessions, SetPage(t, pages[t]), evidence' = evidence,
           NEW s \in Sessions
    PROVE  PageStep(s)
BY DEF TypeOK, SetPage, PageStep, Kept

LEMMA DeliverSteps ==
    ASSUME TypeOK, Deliver, NEW s \in Sessions PROVE PageStep(s)
<1> USE DEF Delivered
<1>1. CASE DeliverAttached
  <2> PICK e \in Delivered({"attachedToTarget"}) : HandleAttachedToTarget(e)
    BY <1>1 DEF DeliverAttached
  <2>1. e.session \in Sessions
    BY EventTypes DEF AttachedToTarget
  <2> QED
    BY <2>1, UnchangedSteps, FinishSteps, BareSteps
    DEF HandleAttachedToTarget, AbortPatchWith
<1>2. CASE DeliverDetached
  <2> PICK e \in Delivered({"sessionDetached"}) : HandleSessionDetached(e)
    BY <1>2 DEF DeliverDetached
  <2>1. e.session \in Sessions
    BY EventTypes DEF SessionDetached
  <2> QED
    BY <2>1, UnchangedSteps, BareSteps DEF HandleSessionDetached, RemovePage
<1>3. CASE DeliverInspector
  BY <1>3, FinishSteps DEF DeliverInspector, HandleInspectorDetached, AbortPatchWith,
     FinishWithAppExit
<1>4. CASE DeliverNavigated
  <2> PICK e \in Delivered({"frameNavigated"}) : HandleFrameNavigated(e)
    BY <1>4 DEF DeliverNavigated
  <2>1. e.session \in Sessions /\ e.loader \in AnyLoader
    BY EventTypes DEF FrameNavigated
  <2> DEFINE page == pages[e.session]
  <2>2. CASE Intercepting(page) /\ CommitNavigation(page, e)
    <3>1. CASE /\ e.loader # NoLoader /\ e.loader # page.loader
               /\ page.firstLoadCompleted
               /\ SetPage(e.session, RebindToNavigation(page, e.loader))
               /\ Renavigate(e.session)
      <4>1. CASE s = e.session
        BY <2>1, <2>2, <3>1, <4>1, SetPageAt DEF PageStep, Rebound, AnyLoader
      <4>2. CASE s # e.session
        BY <2>1, <3>1, <4>2, OthersKept
      <4> QED
        BY <4>1, <4>2
    <3> QED
      BY <2>2, <3>1, UnchangedSteps, FinishSteps
      DEF CommitNavigation, AbortPatchWith, DocumentAccepted
  <2>3. CASE page = Pending /\ ClassifyPendingFrame(e)
    <3>1. ~Intercepting(page)
      BY <2>3 DEF Pending, Intercepting
    <3>2. CASE e.loader # NoLoader /\ BeginControlledLoad(e.session, e.loader)
      BY <2>1, <3>1, <3>2, StartSteps DEF AnyLoader
    <3> QED
      BY <2>1, <2>3, <3>2, UnchangedSteps, FinishSteps, BareSteps
      DEF ClassifyPendingFrame, AbortPatchWith, RemovePage
  <2>4. CASE UNCHANGED_Pages
    BY <2>4, UnchangedSteps
  <2> QED
    BY <2>2, <2>3, <2>4 DEF HandleFrameNavigated
<1>5. CASE DeliverDocument
  BY <1>5, FinishSteps, UnchangedSteps DEF DeliverDocument, HandleDocumentRequest, Fail
<1>6. CASE DeliverScript
  <2> PICK e \in Delivered({"scriptRequest"}) : HandleScriptRequest(e)
    BY <1>6 DEF DeliverScript
  <2>1. /\ e.session \in Sessions /\ e.request \in AnyRequest
        /\ e.resource \in Resources
    BY EventTypes DEF ScriptRequest
  <2> DEFINE page == pages[e.session]
             credited == /\ e.request # NoRequest /\ e.frame = "main"
                         /\ e.loader = page.loader
  <2>2. CASE Intercepting(page) /\ credited
    BY <2>1, <2>2, PairSteps DEF HandleScriptRequest, ObserveScriptRequest, AnyRequest
  <2>3. CASE Intercepting(page) /\ ~credited
    BY <2>1, <2>3, SamePageSteps DEF HandleScriptRequest, ObserveScriptRequest
  <2>4. CASE ~Intercepting(page)
    BY <2>4, UnchangedSteps DEF HandleScriptRequest, UNCHANGED_Pages
  <2> QED
    BY <2>2, <2>3, <2>4
<1>7. CASE DeliverLoad
  <2> PICK e \in Delivered({"load"}) : HandlePageLifecycle(e)
    BY <1>7 DEF DeliverLoad
  <2>1. e.session \in Sessions
    BY EventTypes DEF LoadFired
  <2>2. CASE UNCHANGED pages
    BY <2>2, UnchangedSteps DEF HandlePageLifecycle, UNCHANGED_Pages
  <2>3. CASE /\ Intercepting(pages[e.session])
             /\ SetPage(e.session, ObserveLoad(pages[e.session], e.frame, e.loader))
    <3>1. CASE s = e.session
      BY <2>1, <2>3, <3>1, SetPageAt DEF PageStep, LoadSeen, HandlePageLifecycle
    <3>2. CASE s # e.session
      BY <2>1, <2>3, <3>2, OthersKept DEF HandlePageLifecycle
    <3> QED
      BY <3>1, <3>2
  <2> QED
    BY <2>2, <2>3 DEF HandlePageLifecycle
<1>8. CASE DeliverPaused
  BY <1>8, FinishSteps, UnchangedSteps
  DEF DeliverPaused, HandleFetchRequestPaused, AbortPatchWith
<1>9. CASE DeliverOther
  BY <1>9, FinishSteps, UnchangedSteps DEF DeliverOther, HandleOther, Fail
<1> QED
  BY <1>1, <1>2, <1>3, <1>4, <1>5, <1>6, <1>7, <1>8, <1>9 DEF Deliver

LEMMA AnsweredSteps ==
    ASSUME TypeOK, Answered, NEW s \in Sessions PROVE PageStep(s)
<1>1. CASE ConfigureAnswered
  BY <1>1, UnchangedSteps DEF ConfigureAnswered, UNCHANGED_Pages
<1>2. CASE \E url \in Urls, l \in AnyLoader : FrameTreeAnswered(url, l)
  <2> PICK url \in Urls, l \in AnyLoader : FrameTreeAnswered(url, l)
    BY <1>2
  <2>1. handler.session \in Sessions
    BY DEF FrameTreeAnswered, TypeOK, Handlers
  <2> DEFINE t == handler.session
  <2>2. CASE AbortPatchWith
    BY <2>2, FinishSteps DEF AbortPatchWith
  <2>3. CASE RemovePage(t)
    BY <2>1, <2>3, BareSteps DEF RemovePage
  <2>4. CASE SetPage(t, Pending) /\ evidence' = evidence
    BY <2>1, <2>4, BareSteps
  <2>5. CASE l # NoLoader /\ pages[t] = Configuring /\ BeginControlledLoad(t, l)
    <3>1. ~Intercepting(pages[t])
      BY <2>5 DEF Configuring, Intercepting
    <3> QED
      BY <2>1, <2>5, <3>1, StartSteps DEF AnyLoader
  <2> QED
    BY <2>2, <2>3, <2>4, <2>5 DEF FrameTreeAnswered, Urls
<1>3. CASE PlainAnswered
  BY <1>3, UnchangedSteps DEF PlainAnswered
<1>4. CASE FulfillAnswered
  <2>1. /\ handler.session \in Sessions /\ handler.resource \in Resources
        /\ handler.request \in AnyRequest
    BY <1>4 DEF FulfillAnswered, TypeOK, Handlers
  <2> DEFINE t == handler.session
             credited == handler.request # NoRequest /\ handler.frame = "main"
             recorded == handler.script /\ Intercepting(pages[t])
  <2>2. CASE recorded /\ credited
    BY <1>4, <2>1, <2>2, PairSteps DEF FulfillAnswered, RecordFulfilledScript, AnyRequest
  <2>3. CASE recorded /\ ~credited
    BY <1>4, <2>1, <2>3, SamePageSteps DEF FulfillAnswered, RecordFulfilledScript
  <2>4. CASE ~recorded
    BY <1>4, <2>4, UnchangedSteps DEF FulfillAnswered, UNCHANGED_Pages
  <2> QED
    BY <2>2, <2>3, <2>4
<1>5. CASE \E reply \in Refusals : FulfillRefused(reply) \/ ContinueRefused(reply)
  BY <1>5, UnchangedSteps, FinishSteps DEF FulfillRefused, ContinueRefused, Fail
<1> QED
  BY <1>1, <1>2, <1>3, <1>4, <1>5 DEF Answered

LEMMA NextSteps ==
    ASSUME TypeOK, [Next]_vars, NEW s \in Sessions PROVE PageStep(s)
<1>1. CASE ServeWaitDeadline \/ KeepAlive \/ EnsurePageInterception
  BY <1>1, FinishSteps, SettleSteps
  DEF ServeWaitDeadline, KeepAlive, EnsurePageInterception, AbortPatchWith
<1>2. CASE CommandAnswered \/ AnnounceReady \/ AwaitNextEvent \/ PumpTimesOut
  BY <1>2, UnchangedSteps
  DEF CommandAnswered, StartupAnswered, VersionAnswered, HeartbeatAnswered, EnterLoop,
      AnnounceReady, AwaitNextEvent, PumpTimesOut
<1>3. CASE ReloadTimesOut \/ WaitFails \/ NoticeAppExit
  BY <1>3, FinishSteps
  DEF ReloadTimesOut, WaitFails, NoticeAppExit, AbortPatchWith, Fail, FinishWithAppExit
<1>4. CASE \/ \E e \in Inbox : HoldBack(e)
           \/ AppExits \/ ExpirePhaseClock \/ ExpireReplacement \/ UNCHANGED vars
  BY <1>4 DEF HoldBack, AppExits, ExpirePhaseClock, ExpireReplacement, UNCHANGED_Pages,
     vars, PageStep, Kept
<1>5. CASE \E t \in Sessions : ExpireGate(t)
  <2> PICK t \in Sessions : ExpireGate(t)
    BY <1>5
  <2>1. CASE s = t
    BY <2>1, SetPageAt DEF ExpireGate, Gated, PageStep, Clocked
  <2>2. CASE s # t
    BY <2>2, OthersKept DEF ExpireGate
  <2> QED
    BY <2>1, <2>2
<1> QED
  BY <1>1, <1>2, <1>3, <1>4, <1>5, DeliverSteps, AnsweredSteps
  DEF Next, MainLoop, Terminated

-----------------------------------------------------------------------------
(***************************************************************************)
(* Deliveries.  The table and the verified set of a page are backed by the *)
(* halves seen for its document; pairing keeps it so because the half that *)
(* waits was seen, and the half that completes it is being seen now.       *)
(***************************************************************************)
Backed(page, seen) ==
    /\ page.deliveries \subseteq seen
    /\ \A d1, d2 \in page.deliveries : d1.request = d2.request => d1 = d2
    /\ \A r \in page.verified : \E q \in RequestIds :
          {Half(q, "network", r), Half(q, "fulfilled", r)} \subseteq seen

LEMMA PairBacked ==
    ASSUME NEW page \in Verifications, NEW seen, Backed(page, seen),
           NEW q \in RequestIds, NEW side \in {"network", "fulfilled"},
           NEW r \in Resources
    PROVE  Backed(PairScriptDelivery(page, q, side, r), seen \cup {Half(q, side, r)})
<1> DEFINE next == PairScriptDelivery(page, q, side, r)
           now == seen \cup {Half(q, side, r)}
<1>0. \A d \in page.deliveries : d \in Halves
  BY DEF Verifications
<1>1. CASE Counterparts(page, q, side, r) # {}
  <2>1. /\ next.deliveries = OtherRequests(page, q)
        /\ next.verified = page.verified \cup {r}
    BY <1>1 DEF PairScriptDelivery, Verifications
  <2>2. PICK d \in page.deliveries : d.request = q /\ d.half # side /\ d.resource = r
    BY <1>1 DEF Counterparts
  <2>3. /\ d = Half(q, d.half, r)
        /\ d.half \in {"network", "fulfilled"}
        /\ d \in seen
    BY <1>0, <2>2 DEF Halves, Half, Backed
  <2>4. {Half(q, "network", r), Half(q, "fulfilled", r)} \subseteq now
    BY <2>2, <2>3
  <2> QED
    BY <2>1, <2>4 DEF Backed, OtherRequests
<1>2. CASE Counterparts(page, q, side, r) = {}
  <2>1. /\ next.deliveries = OtherRequests(page, q) \cup {Half(q, side, r)}
        /\ next.verified = page.verified
    BY <1>2 DEF PairScriptDelivery, Verifications
  <2>2. Half(q, side, r).request = q
    BY DEF Half
  <2> QED
    BY <2>1, <2>2 DEF Backed, OtherRequests
<1> QED
  BY <1>1, <1>2

EvidenceInv == \A s \in Sessions :
    Intercepting(pages[s]) => Backed(pages[s], evidence[s].halves)

LEMMA EvidenceStep ==
    ASSUME TypeOK, EvidenceInv, [Next]_vars PROVE EvidenceInv'
<1> SUFFICES ASSUME NEW s \in Sessions, Intercepting(pages'[s])
             PROVE  Backed(pages'[s], evidence'[s].halves)
  BY DEF EvidenceInv, Intercepting, Backed
<1>0. Intercepting(pages[s]) => pages[s] \in Verifications /\ Backed(pages[s], evidence[s].halves)
  BY PageStateTypes DEF TypeOK, EvidenceInv
<1>1. CASE Kept(s)
  BY <1>0, <1>1 DEF Kept
<1>2. CASE Started(s)
  BY <1>2 DEF Started, NewVerification, FirstDocument, Backed
<1>3. CASE Rebound(s)
  BY <1>0, <1>3 DEF Rebound, RebindToNavigation, NextDocument, Backed, Verifications
<1>4. CASE LoadSeen(s)
  BY <1>0, <1>4 DEF LoadSeen, ObserveLoad, Backed, Verifications
<1>5. CASE Paired(s)
  <2>1. evidence[s] \in Histories
    BY DEF TypeOK
  <2> QED
    BY <1>0, <1>5, <2>1, PairBacked DEF Paired, Histories
<1>6. CASE Clocked(s)
  BY <1>0, <1>6 DEF Clocked, SettleGate, Backed, Verifications
<1> QED
  BY <1>1, <1>2, <1>3, <1>4, <1>5, <1>6, NextSteps DEF PageStep

LEMMA EvidenceHolds == Spec => []EvidenceInv
<1>1. Init => EvidenceInv
  BY DEF Init, EvidenceInv, Absent, Intercepting
<1>2. TypeOK /\ EvidenceInv /\ [Next]_vars => EvidenceInv'
  BY EvidenceStep
<1> QED
  BY <1>1, <1>2, TypeCorrect, PTL DEF Spec

(* No half of another document, and at most one per request id, ever waits *)
(* in a page's table.                                                      *)
THEOREM HalvesAreCurrent == Spec => []WaitingHalvesAreCurrent
<1>1. EvidenceInv => WaitingHalvesAreCurrent
  BY DEF EvidenceInv, WaitingHalvesAreCurrent, Backed
<1> QED
  BY <1>1, EvidenceHolds, PTL

(* Whatever the browser sends and whenever, a script that counts as        *)
(* verified was announced by the current document and answered with the    *)
(* patched bytes under one and the same request id.                        *)
THEOREM Verified == Spec => []VerifiedIsBacked
<1>1. EvidenceInv => VerifiedIsBacked
  BY DEF EvidenceInv, VerifiedIsBacked, WasDelivered, Backed
<1> QED
  BY <1>1, EvidenceHolds, PTL

(***************************************************************************)
(* The clocks.                                                             *)
(***************************************************************************)
GateInv == \A s \in Sessions :
    Intercepting(pages[s]) /\ evidence[s].renavigated =>
        Required \subseteq pages[s].verified \/ pages[s].reverify # "off"

LEMMA GateStep ==
    ASSUME TypeOK, GateInv, [Next]_vars PROVE GateInv'
<1> SUFFICES ASSUME NEW s \in Sessions, Intercepting(pages'[s]),
                    evidence'[s].renavigated,
                    ~(Required \subseteq pages'[s].verified)
             PROVE  pages'[s].reverify # "off"
  BY DEF GateInv, Intercepting
<1> DEFINE page == pages[s]
<1>0. /\ evidence[s] \in Histories
      /\ Intercepting(page) =>
           /\ page \in Verifications
           /\ evidence[s].renavigated /\ ~(Required \subseteq page.verified) =>
                page.reverify # "off"
  BY PageStateTypes DEF TypeOK, GateInv
<1>1. CASE Kept(s)
  BY <1>0, <1>1 DEF Kept
<1>2. ~Started(s)
  BY DEF Started, FirstDocument
<1>3. CASE Rebound(s)
  BY <1>0, <1>3 DEF Rebound, RebindToNavigation, Verifications
<1>4. CASE LoadSeen(s)
  BY <1>0, <1>4 DEF LoadSeen, ObserveLoad, Verifications
<1>5. CASE Paired(s)
  BY <1>0, <1>5 DEF Paired, PairScriptDelivery, Verifications, Histories
<1>6. CASE Clocked(s)
  BY <1>0, <1>6 DEF Clocked, SettleGate, MissingResources, Intercepting, Verifications
<1> QED
  BY <1>1, <1>2, <1>3, <1>4, <1>5, <1>6, NextSteps DEF PageStep

(* A page that has navigated since its controlled load is off the clock    *)
(* only over a document, loaded or not, that announced every required      *)
(* script and was sent the patched bytes of each.                          *)
THEOREM Regated == Spec => []RenavigatedIsGated
<1>1. Init => GateInv
  BY DEF Init, GateInv, Absent, Intercepting
<1>2. TypeOK /\ GateInv /\ [Next]_vars => GateInv'
  BY GateStep
<1>3. GateInv /\ EvidenceInv => RenavigatedIsGated
  BY DEF GateInv, EvidenceInv, RenavigatedIsGated, MissingResources, Gated,
     WasDelivered, Backed
<1> QED
  BY <1>1, <1>2, <1>3, TypeCorrect, EvidenceHolds, PTL DEF Spec

(* Outside its gate a page is never put on trust: a gate comes off a page  *)
(* that stays only when every required script was verified.                *)
THEOREM GatesLiftedByProof == Spec => GateLiftedOnlyByProof
<1>1. ASSUME TypeOK, [Next]_vars, NEW s \in Sessions,
             Gated(pages[s]), Intercepting(pages'[s]), ~Gated(pages'[s])
      PROVE  Required \subseteq pages[s].verified
  <2>0. pages[s] \in Verifications /\ pages[s].reverify # "off"
           /\ pages'[s].reverify = "off"
    BY <1>1, PageStateTypes DEF TypeOK, Gated
  <2>1. ~Kept(s) /\ ~Started(s) /\ ~Rebound(s)
    BY <1>1, <2>0 DEF Kept, Started, Gated, Rebound, RebindToNavigation, Verifications
  <2>2. ~LoadSeen(s)
    BY <2>0 DEF LoadSeen, ObserveLoad, Verifications
  <2>3. ~Paired(s)
    BY <2>0 DEF Paired, PairScriptDelivery, Verifications
  <2>4. CASE Clocked(s)
    BY <2>0, <2>4 DEF Clocked, SettleGate, MissingResources, Intercepting, Verifications
  <2> QED
    BY <1>1, <2>1, <2>2, <2>3, <2>4, NextSteps DEF PageStep
<1>2. TypeOK /\ [Next]_vars =>
        [\A s \in Sessions :
            Gated(pages[s]) /\ Intercepting(pages'[s]) /\ ~Gated(pages'[s]) =>
              Required \subseteq pages[s].verified]_vars
  BY <1>1
<1> QED
  BY <1>2, TypeCorrect, PTL DEF Spec, GateLiftedOnlyByProof

LEMMA SwapStep ==
    ASSUME TypeOK, [Next]_vars, NEW s \in Sessions,
           Intercepting(pages[s]), Intercepting(pages'[s])
    PROVE  \/ /\ pages'[s].loader = pages[s].loader
              /\ pages[s].verified \subseteq pages'[s].verified
              /\ pages[s].loaded => pages'[s].loaded
           \/ /\ pages[s].firstLoadCompleted
              /\ pages'[s].loader # pages[s].loader
              /\ pages'[s].verified = {} /\ ~pages'[s].loaded
              /\ pages'[s].reverify = "armed"
<1>0. pages[s] \in Verifications
  BY PageStateTypes DEF TypeOK
<1>1. CASE Kept(s)
  BY <1>1 DEF Kept
<1>2. ~Started(s)
  BY DEF Started
<1>3. CASE Rebound(s)
  BY <1>0, <1>3 DEF Rebound, RebindToNavigation, Verifications
<1>4. CASE LoadSeen(s)
  BY <1>0, <1>4 DEF LoadSeen, ObserveLoad, Verifications
<1>5. CASE Paired(s)
  BY <1>0, <1>5 DEF Paired, PairScriptDelivery, Verifications
<1>6. CASE Clocked(s)
  BY <1>0, <1>6 DEF Clocked, SettleGate, Verifications
<1> QED
  BY <1>1, <1>2, <1>3, <1>4, <1>5, <1>6, NextSteps DEF PageStep

(* A page that stays either keeps its document and what it proved, or has  *)
(* swapped it after its first load and starts over, on the clock.          *)
THEOREM SwapsReset == Spec => DocumentSwapResets
<1>1. TypeOK /\ [Next]_vars =>
        [\A s \in Sessions :
           Intercepting(pages[s]) /\ Intercepting(pages'[s]) =>
            \/ /\ pages'[s].loader = pages[s].loader
               /\ pages[s].verified \subseteq pages'[s].verified
               /\ pages[s].loaded => pages'[s].loaded
            \/ /\ pages[s].firstLoadCompleted
               /\ pages'[s].loader # pages[s].loader
               /\ pages'[s].verified = {} /\ ~pages'[s].loaded
               /\ pages'[s].reverify = "armed"]_vars
  BY SwapStep
<1> QED
  BY <1>1, TypeCorrect, PTL DEF Spec, DocumentSwapResets

(***************************************************************************)
(* Only AnnounceReady leaves the verification loop for keep_alive.         *)
(***************************************************************************)
LEMMA PhaseKept ==
    ASSUME TypeOK, phase = "verify", phase' = "alive", [Next]_vars
    PROVE  AnnounceReady
<1>1. ~Deliver
  BY DEF Deliver, DeliverAttached, HandleAttachedToTarget, DeliverDetached,
     HandleSessionDetached, DeliverInspector, HandleInspectorDetached,
     DeliverNavigated, HandleFrameNavigated, CommitNavigation, ClassifyPendingFrame,
     DeliverDocument, HandleDocumentRequest, DeliverScript, HandleScriptRequest,
     DeliverLoad, HandlePageLifecycle, DeliverPaused, HandleFetchRequestPaused,
     DeliverOther, HandleOther, Return, Await, AbortPatchWith, Fail,
     FinishWithAppExit, Finish
<1>2. ~Answered
  BY DEF Answered, ConfigureAnswered, FrameTreeAnswered, PlainAnswered, FulfillAnswered,
     FulfillRefused, ContinueRefused, Complete, AbortPatchWith, Fail, Finish
<1>3. ~ServeWaitDeadline /\ ~CommandAnswered
  BY DEF ServeWaitDeadline, CommandAnswered, StartupAnswered, VersionAnswered,
     HeartbeatAnswered, AbortPatchWith, Finish
<1>4. MainLoop => AnnounceReady
  BY DEF MainLoop, ReloadTimesOut, AwaitNextEvent, KeepAlive, PumpTimesOut,
     EnsurePageInterception, AbortPatchWith, Finish
<1>5. /\ ~\E e \in Inbox : HoldBack(e)
      /\ ~WaitFails /\ ~NoticeAppExit /\ ~AppExits /\ ~ExpirePhaseClock
      /\ ~ExpireReplacement /\ ~\E s \in Sessions : ExpireGate(s)
      /\ ~Terminated /\ ~UNCHANGED vars
  BY DEF HoldBack, WaitFails, NoticeAppExit, FinishWithAppExit, Fail, Finish, AppExits,
     ExpirePhaseClock, ExpireReplacement, ExpireGate, Terminated, vars
<1> QED
  BY <1>1, <1>2, <1>3, <1>4, <1>5 DEF Next

(* FAST_READY is printed only over a loaded document whose every required  *)
(* script was announced by it and answered with the patched bytes.         *)
THEOREM ReadyOverDelivered == Spec => ReadyMeansDelivered
<1> DEFINE Delivery(s) == IsLoaded(pages[s]) /\ \A r \in Required : WasDelivered(s, r)
<1>1. ASSUME TypeOK, EvidenceInv, [Next]_vars, phase = "verify", phase' = "alive"
      PROVE  \E s \in Sessions : Delivery(s)
  <2>1. PICK s \in Sessions : IsLoaded(pages[s]) /\ MissingResources(pages[s]) = {}
    BY <1>1, PhaseKept DEF AnnounceReady, FastReady, LoadedPageSession
  <2>2. Backed(pages[s], evidence[s].halves) /\ Required \subseteq pages[s].verified
    BY <1>1, <2>1 DEF EvidenceInv, IsLoaded, MissingResources
  <2> QED
    BY <2>1, <2>2 DEF Backed, WasDelivered
<1>2. TypeOK /\ EvidenceInv /\ [Next]_vars =>
        [phase = "verify" /\ phase' = "alive" => \E s \in Sessions : Delivery(s)]_vars
  BY <1>1
<1> QED
  BY <1>2, TypeCorrect, EvidenceHolds, PTL DEF Spec, ReadyMeansDelivered

(***************************************************************************)
(* The replacement clock is set in one place, when the last page goes.     *)
(***************************************************************************)
LEMMA DetachStep ==
    ASSUME TypeOK, DeliverDetached
    PROVE  replacement' = replacement \/ \A s \in Sessions : ~Intercepting(pages'[s])
<1> PICK e \in Delivered({"sessionDetached"}) : HandleSessionDetached(e)
  BY DEF DeliverDetached
<1>1. e.session \in Sessions
  BY EventTypes DEF Delivered, SessionDetached
<1>2. CASE /\ \A s \in Sessions \ {e.session} : pages[s] = Absent
           /\ SetPage(e.session, Absent)
  BY <1>1, <1>2 DEF SetPage, TypeOK, Absent, Intercepting
<1> QED
  BY <1>2 DEF HandleSessionDetached, UNCHANGED_Pages, RemovePage

LEMMA ReplacementStep ==
    ASSUME TypeOK, [Next]_vars
    PROVE  \/ replacement' = "off" \/ (replacement # "off" /\ replacement' = "due")
           \/ replacement' = replacement
           \/ \A s \in Sessions : ~Intercepting(pages'[s])
<1>1. CASE Deliver
  BY <1>1, DetachStep
  DEF Deliver, DeliverAttached, HandleAttachedToTarget, DeliverInspector,
     HandleInspectorDetached, DeliverNavigated, HandleFrameNavigated, CommitNavigation,
     ClassifyPendingFrame, BeginControlledLoad, DeliverDocument, HandleDocumentRequest,
     DeliverScript, HandleScriptRequest, DeliverLoad, HandlePageLifecycle,
     DeliverPaused, HandleFetchRequestPaused, DeliverOther, HandleOther,
     UNCHANGED_Pages, AbortPatchWith, Fail, FinishWithAppExit, Finish
<1>2. CASE Answered
  BY <1>2 DEF Answered, ConfigureAnswered, FrameTreeAnswered, PlainAnswered,
     FulfillAnswered, FulfillRefused, ContinueRefused, BeginControlledLoad,
     UNCHANGED_Pages, AbortPatchWith, Fail, Finish, Urls
<1>3. CASE ServeWaitDeadline \/ CommandAnswered \/ MainLoop
  BY <1>3 DEF ServeWaitDeadline, SettleGates, CommandAnswered, StartupAnswered,
     VersionAnswered, HeartbeatAnswered, EnterLoop, MainLoop, AnnounceReady,
     ReloadTimesOut, AwaitNextEvent, KeepAlive, PumpTimesOut, EnsurePageInterception,
     UNCHANGED_Pages, AbortPatchWith, Finish
<1>4. CASE \/ \E e \in Inbox : HoldBack(e)
           \/ WaitFails \/ NoticeAppExit \/ AppExits \/ ExpirePhaseClock
           \/ ExpireReplacement \/ (\E s \in Sessions : ExpireGate(s))
           \/ UNCHANGED vars
  BY <1>4 DEF HoldBack, WaitFails, NoticeAppExit, FinishWithAppExit, Fail, Finish,
     AppExits, ExpirePhaseClock, ExpireReplacement, ExpireGate, UNCHANGED_Pages, vars
<1> QED
  BY <1>1, <1>2, <1>3, <1>4 DEF Next, Terminated

(* The replacement clock never runs under an intercepted page. *)
THEOREM ReplacementOnlyWhileNoPage == Spec => []ReplacementClockMeansNoAppPage
<1>1. Init => ReplacementClockMeansNoAppPage
  BY DEF Init, ReplacementClockMeansNoAppPage
<1>2. ASSUME TypeOK, ReplacementClockMeansNoAppPage, [Next]_vars
      PROVE  ReplacementClockMeansNoAppPage'
  <2> SUFFICES ASSUME NEW s \in Sessions, replacement' # "off", Intercepting(pages'[s])
               PROVE  FALSE
    BY DEF ReplacementClockMeansNoAppPage, Intercepting
  <2>1. replacement # "off"
    BY <1>2, ReplacementStep
  <2>2. ~Intercepting(pages[s])
    BY <1>2, <2>1 DEF ReplacementClockMeansNoAppPage
  <2> QED
    BY <1>2, <2>2, NextSteps
    DEF PageStep, Kept, Started, Rebound, LoadSeen, Paired, Clocked
<1> QED
  BY <1>1, <1>2, TypeCorrect, PTL DEF Spec

-----------------------------------------------------------------------------
(***************************************************************************)
(* Configuration.  Only an idle session delivers events, so the handler    *)
(* that made a page `Configuring` is the one that ends that.               *)
(***************************************************************************)
NoneConfiguring == \A s \in Sessions : pages[s] # Configuring

LEMMA NoneOwned ==
    ASSUME NoneConfiguring', handler'.kind # "configure" PROVE ConfiguringIsOwned'
BY DEF NoneConfiguring, ConfiguringIsOwned

LEMMA FinishOwned ==
    ASSUME NEW result, Finish(result) PROVE ConfiguringIsOwned'
<1>1. NoneConfiguring'
  BY DEF Finish, NoneConfiguring, Absent, Configuring
<1>2. handler'.kind # "configure"
  BY DEF Finish, Idle
<1> QED
  BY <1>1, <1>2, NoneOwned

(* One page changes, and is not `Configuring` afterwards. *)
LEMMA SetOwned ==
    ASSUME TypeOK, NEW t \in Sessions, \A s \in Sessions \ {t} : pages[s] # Configuring,
           NEW page, page # Configuring, SetPage(t, page)
    PROVE  NoneConfiguring'
BY DEF TypeOK, SetPage, NoneConfiguring

LEMMA KeptOwned ==
    ASSUME ConfiguringIsOwned, pages' = pages,
           handler' = handler \/ (NoneConfiguring /\ handler'.kind # "configure")
    PROVE  ConfiguringIsOwned'
BY DEF ConfiguringIsOwned, NoneConfiguring

LEMMA DeliverOwned ==
    ASSUME TypeOK, ConfiguringIsOwned, Deliver PROVE ConfiguringIsOwned'
<1>0. handler = Idle /\ NoneConfiguring
  <2>1. handler = Idle
    BY DEF Deliver, DeliverAttached, DeliverDetached, DeliverInspector, DeliverNavigated,
           DeliverDocument, DeliverScript, DeliverLoad, DeliverPaused, DeliverOther,
           Delivered, Delivers, HandlerIdle
  <2> QED
    BY <2>1 DEF ConfiguringIsOwned, NoneConfiguring, Idle
<1>00. handler'.kind # "configure" /\ NoneConfiguring' => ConfiguringIsOwned'
  BY NoneOwned
<1>a. ASSUME Return PROVE handler'.kind # "configure"
  BY <1>0, <1>a DEF Return, Idle
<1>b. ASSUME UNCHANGED_Pages PROVE NoneConfiguring'
  BY <1>0, <1>b DEF UNCHANGED_Pages, NoneConfiguring
<1>c. \A page : \A t \in Sessions : page # Configuring /\ SetPage(t, page) => NoneConfiguring'
  BY <1>0, SetOwned DEF NoneConfiguring
<1>d. \A t \in Sessions : RemovePage(t) => NoneConfiguring'
  BY <1>c DEF RemovePage, Absent, Configuring
<1>e. \A t \in Sessions, l \in Loaders : BeginControlledLoad(t, l) => NoneConfiguring'
  <2>1. \A l \in Loaders : NewVerification(l) # Configuring
    BY NewVerificationType, PageStateTypes
  <2> QED
    BY <1>c, <2>1 DEF BeginControlledLoad
<1> USE DEF Delivered
<1>1. CASE DeliverAttached
  <2> PICK e \in Delivered({"attachedToTarget"}) : HandleAttachedToTarget(e)
    BY <1>1 DEF DeliverAttached
  <2>1. e.session \in Sessions
    BY EventTypes DEF AttachedToTarget
  <2>2. CASE (Await(Resume) \/ Return) /\ UNCHANGED_Pages
    BY <2>2, <1>a, <1>b, <1>00 DEF Await, Resume
  <2>3. CASE /\ Await([kind |-> "configure", session |-> e.session, awaited |-> 1])
             /\ SetPage(e.session, Configuring)
    <3>1. \A s \in Sessions : pages'[s] = Configuring <=> s = e.session
      BY <1>0, <2>1, <2>3 DEF TypeOK, SetPage, NoneConfiguring
    <3> QED
      BY <2>3, <3>1 DEF Await, ConfiguringIsOwned
  <2> QED
    BY <2>2, <2>3, FinishOwned DEF HandleAttachedToTarget, AbortPatchWith
<1>2. CASE DeliverDetached
  <2> PICK e \in Delivered({"sessionDetached"}) : HandleSessionDetached(e)
    BY <1>2 DEF DeliverDetached
  <2>1. e.session \in Sessions
    BY EventTypes DEF SessionDetached
  <2> QED
    BY <2>1, <1>a, <1>b, <1>d, <1>00 DEF HandleSessionDetached
<1>3. CASE DeliverInspector
  BY <1>3, FinishOwned DEF DeliverInspector, HandleInspectorDetached, AbortPatchWith,
     FinishWithAppExit
<1>4. CASE DeliverNavigated
  <2> PICK e \in Delivered({"frameNavigated"}) : HandleFrameNavigated(e)
    BY <1>4 DEF DeliverNavigated
  <2>1. e.session \in Sessions /\ e.loader \in AnyLoader
    BY EventTypes DEF FrameNavigated
  <2> DEFINE page == pages[e.session]
  <2>2. CASE Intercepting(page) /\ CommitNavigation(page, e)
    <3>1. e.loader # NoLoader => RebindToNavigation(page, e.loader) # Configuring
      <4>1. page \in Verifications
        BY <2>1, <2>2, PageStateTypes DEF TypeOK
      <4> QED
        BY <2>1, <4>1, RebindType, PageStateTypes DEF AnyLoader
    <3> QED
      BY <2>1, <2>2, <3>1, <1>a, <1>b, <1>c, <1>00, FinishOwned
      DEF CommitNavigation, AbortPatchWith
  <2>3. CASE page = Pending /\ ClassifyPendingFrame(e)
    BY <2>1, <2>3, <1>a, <1>b, <1>d, <1>e, <1>00, FinishOwned
    DEF ClassifyPendingFrame, AbortPatchWith, AnyLoader
  <2>4. CASE Return /\ UNCHANGED_Pages
    BY <2>4, <1>a, <1>b, <1>00
  <2> QED
    BY <2>2, <2>3, <2>4 DEF HandleFrameNavigated
<1>5. CASE DeliverDocument
  BY <1>5, <1>a, <1>b, <1>00, FinishOwned DEF DeliverDocument, HandleDocumentRequest, Fail
<1>6. CASE DeliverScript
  <2> PICK e \in Delivered({"scriptRequest"}) : HandleScriptRequest(e)
    BY <1>6 DEF DeliverScript
  <2>1. /\ e.session \in Sessions /\ e.request \in AnyRequest /\ e.resource \in Resources
    BY EventTypes DEF ScriptRequest
  <2> DEFINE page == pages[e.session]
             next == ObserveScriptRequest(page, e.request, e.frame, e.loader, e.resource)
  <2>2. Return
    BY DEF HandleScriptRequest
  <2>3. CASE Intercepting(page)
    <3>1. next # Configuring
      <4>1. page \in Verifications
        BY <2>1, <2>3, PageStateTypes DEF TypeOK
      <4> QED
        BY <2>1, <4>1, ObserveScriptRequestType, PageStateTypes
    <3> QED
      BY <2>1, <2>2, <2>3, <3>1, <1>a, <1>c, <1>00 DEF HandleScriptRequest
  <2>4. CASE ~Intercepting(page)
    BY <2>2, <2>4, <1>a, <1>b, <1>00 DEF HandleScriptRequest, UNCHANGED_Pages
  <2> QED
    BY <2>3, <2>4
<1>7. CASE DeliverLoad
  <2> PICK e \in Delivered({"load"}) : HandlePageLifecycle(e)
    BY <1>7 DEF DeliverLoad
  <2>1. e.session \in Sessions
    BY EventTypes DEF LoadFired
  <2> DEFINE page == pages[e.session]
  <2>2. Return
    BY DEF HandlePageLifecycle
  <2>3. CASE Intercepting(page) /\ ~page.loaded
    <3>1. ObserveLoad(page, e.frame, e.loader) # Configuring
      <4>1. page \in Verifications
        BY <2>1, <2>3, PageStateTypes DEF TypeOK
      <4> QED
        BY <4>1, ObserveLoadType, PageStateTypes
    <3> QED
      BY <2>1, <2>2, <2>3, <3>1, <1>a, <1>c, <1>00 DEF HandlePageLifecycle
  <2>4. CASE ~(Intercepting(page) /\ ~page.loaded)
    BY <2>2, <2>4, <1>a, <1>b, <1>00 DEF HandlePageLifecycle, UNCHANGED_Pages
  <2> QED
    BY <2>3, <2>4
<1>8. CASE DeliverPaused
  <2> PICK e \in Delivered({"requestPaused"}) : HandleFetchRequestPaused(e)
    BY <1>8 DEF DeliverPaused
  <2>1. CASE AbortPatchWith
    BY <2>1, FinishOwned DEF AbortPatchWith
  <2>2. CASE UNCHANGED_Pages /\ handler'.kind \in {"continue", "fulfill"}
    BY <2>2, <1>b, <1>00
  <2> QED
    BY <2>1, <2>2 DEF HandleFetchRequestPaused, Await
<1>9. CASE DeliverOther
  BY <1>9, <1>a, <1>b, <1>00, FinishOwned DEF DeliverOther, HandleOther, Fail
<1> QED
  BY <1>1, <1>2, <1>3, <1>4, <1>5, <1>6, <1>7, <1>8, <1>9 DEF Deliver

LEMMA AnsweredOwned ==
    ASSUME TypeOK, ConfiguringIsOwned, Answered PROVE ConfiguringIsOwned'
<1>0. handler.kind # "configure" => NoneConfiguring
  BY DEF ConfiguringIsOwned, NoneConfiguring
<1>1. CASE ConfigureAnswered
  <2>1. handler'.kind = handler.kind /\ handler'.session = handler.session /\ pages' = pages
    BY <1>1 DEF ConfigureAnswered, TypeOK, Handlers
  <2> QED
    BY <2>1 DEF ConfiguringIsOwned
<1>2. CASE \E url \in Urls, l \in AnyLoader : FrameTreeAnswered(url, l)
  <2> PICK url \in Urls, l \in AnyLoader : FrameTreeAnswered(url, l)
    BY <1>2
  <2> DEFINE t == handler.session
  <2>1. t \in Sessions /\ \A s \in Sessions \ {t} : pages[s] # Configuring
    BY DEF FrameTreeAnswered, TypeOK, Handlers, ConfiguringIsOwned
  <2>2. CASE AbortPatchWith
    BY <2>2, FinishOwned DEF AbortPatchWith
  <2>3. CASE Complete /\ \E page : page # Configuring /\ SetPage(t, page)
    <3>1. NoneConfiguring'
      BY <2>1, <2>3, SetOwned
    <3>2. handler'.kind # "configure"
      BY <2>3 DEF Complete, Idle
    <3> QED
      BY <3>1, <3>2, NoneOwned
  <2>4. Absent # Configuring /\ Pending # Configuring
        /\ (l # NoLoader => NewVerification(l) # Configuring)
    BY NewVerificationType, PageStateTypes DEF AnyLoader, Absent, Pending, Configuring
  <2> QED
    BY <2>2, <2>3, <2>4 DEF FrameTreeAnswered, Urls, RemovePage, BeginControlledLoad
<1>3. CASE PlainAnswered
  BY <1>0, <1>3, KeptOwned DEF PlainAnswered, Complete, Idle, UNCHANGED_Pages
<1>4. CASE FulfillAnswered
  <2> DEFINE t == handler.session
             next == RecordFulfilledScript(pages[t], handler.request, handler.frame,
                                           handler.resource)
  <2>1. /\ t \in Sessions /\ handler.resource \in Resources
        /\ handler.request \in AnyRequest
    BY <1>4 DEF FulfillAnswered, TypeOK, Handlers
  <2>2. NoneConfiguring /\ handler'.kind # "configure"
    BY <1>0, <1>4 DEF FulfillAnswered, Complete, Idle
  <2>3. CASE Intercepting(pages[t]) /\ SetPage(t, next)
    <3>1. next # Configuring
      <4>1. pages[t] \in Verifications
        BY <2>1, <2>3, PageStateTypes DEF TypeOK
      <4> QED
        BY <2>1, <4>1, RecordFulfilledScriptType, PageStateTypes
    <3>2. NoneConfiguring'
      BY <2>1, <2>2, <2>3, <3>1, SetOwned DEF NoneConfiguring
    <3> QED
      BY <2>2, <3>2, NoneOwned
  <2>4. CASE pages' = pages
    BY <2>2, <2>4, KeptOwned
  <2> QED
    BY <1>4, <2>3, <2>4 DEF FulfillAnswered
<1>5. CASE \E reply \in Refusals : FulfillRefused(reply) \/ ContinueRefused(reply)
  <2> PICK reply \in Refusals : FulfillRefused(reply) \/ ContinueRefused(reply)
    BY <1>5
  <2>1. CASE Complete /\ UNCHANGED_Pages /\ handler.kind = "fulfill"
    BY <1>0, <2>1, KeptOwned DEF Complete, Idle, UNCHANGED_Pages
  <2> QED
    BY <2>1, FinishOwned DEF FulfillRefused, ContinueRefused, Fail
<1> QED
  BY <1>1, <1>2, <1>3, <1>4, <1>5 DEF Answered

LEMMA OwnedStep ==
    TypeOK /\ ConfiguringIsOwned /\ [Next]_vars => ConfiguringIsOwned'
<1> SUFFICES ASSUME TypeOK, ConfiguringIsOwned, [Next]_vars PROVE ConfiguringIsOwned'
  OBVIOUS
<1>0. ASSUME SettleGates, handler' = handler PROVE ConfiguringIsOwned'
  <2>1. \A s \in Sessions : pages'[s] = Configuring <=> pages[s] = Configuring
    <3> SUFFICES ASSUME NEW s \in Sessions
                 PROVE  pages'[s] = Configuring <=> pages[s] = Configuring
      OBVIOUS
    <3>1. pages'[s] = SettleGate(pages[s])
      BY <1>0 DEF SettleGates
    <3>2. CASE Gated(pages[s])
      <4>1. pages[s] \in Verifications
        BY <3>2, PageStateTypes DEF TypeOK, Gated
      <4>2. SettleGate(pages[s]) \in Verifications
        BY <3>2, <4>1 DEF SettleGate, Verifications, Clocks
      <4> QED
        BY <3>1, <4>1, <4>2, PageStateTypes
    <3>3. CASE ~Gated(pages[s])
      BY <3>1, <3>3 DEF SettleGate
    <3> QED
      BY <3>2, <3>3
  <2> QED
    BY <1>0, <2>1 DEF ConfiguringIsOwned
<1>1. CASE ServeWaitDeadline \/ KeepAlive \/ EnsurePageInterception
  BY <1>1, <1>0, FinishOwned
  DEF ServeWaitDeadline, KeepAlive, EnsurePageInterception, AbortPatchWith
<1>2. CASE CommandAnswered \/ AnnounceReady \/ AwaitNextEvent \/ PumpTimesOut
  BY <1>2, KeptOwned
  DEF CommandAnswered, StartupAnswered, VersionAnswered, HeartbeatAnswered, EnterLoop,
      AnnounceReady, AwaitNextEvent, PumpTimesOut, UNCHANGED_Pages
<1>3. CASE ReloadTimesOut \/ WaitFails \/ NoticeAppExit
  BY <1>3, FinishOwned
  DEF ReloadTimesOut, WaitFails, NoticeAppExit, AbortPatchWith, Fail, FinishWithAppExit
<1>4. CASE \/ \E e \in Inbox : HoldBack(e)
           \/ AppExits \/ ExpirePhaseClock \/ ExpireReplacement \/ UNCHANGED vars
  BY <1>4, KeptOwned DEF HoldBack, AppExits, ExpirePhaseClock, ExpireReplacement, UNCHANGED_Pages,
     vars
<1>5. CASE \E t \in Sessions : ExpireGate(t)
  <2> PICK t \in Sessions : ExpireGate(t)
    BY <1>5
  <2>1. pages[t] \in Verifications
    BY PageStateTypes DEF TypeOK, ExpireGate, Gated
  <2>2. [pages[t] EXCEPT !.reverify = "due"] \in Verifications
    BY <2>1 DEF Verifications, Clocks
  <2>3. /\ pages' = [pages EXCEPT ![t] = [pages[t] EXCEPT !.reverify = "due"]]
        /\ handler' = handler
    BY DEF ExpireGate, SetPage
  <2>4. \A s \in Sessions : pages'[s] = Configuring <=> pages[s] = Configuring
    BY <2>1, <2>2, <2>3, PageStateTypes DEF TypeOK
  <2> QED
    BY <2>3, <2>4 DEF ConfiguringIsOwned
<1> QED
  BY <1>1, <1>2, <1>3, <1>4, <1>5, DeliverOwned, AnsweredOwned DEF Next, MainLoop, Terminated

(* A page that is being configured has its handler, and that handler finds *)
(* the page when it ends: no event is handled inside another, so           *)
(* "detached during Fast configuration" cannot occur.                      *)
THEOREM ConfiguringOwned == Spec => []ConfiguringIsOwned
<1>1. Init => ConfiguringIsOwned
  BY DEF Init, ConfiguringIsOwned, Absent, Configuring, Idle
<1> QED
  BY <1>1, OwnedStep, TypeCorrect, PTL DEF Spec
=============================================================================
