------------------------ MODULE CdpConnectionProofs ------------------------
(***************************************************************************)
(* Theorems about CdpConnection, for any number of events and commands and *)
(* for deadlines of any length.                                            *)
(***************************************************************************)
EXTENDS CdpConnection, SequenceLemmas

(***************************************************************************)
(* Types.                                                                  *)
(***************************************************************************)
LEMMA MessageParts ==
    ASSUME NEW m \in Messages
    PROVE  IF IsEvent(m) THEN m.event \in 1 .. MaxEvents ELSE m.id \in Ids
BY DEF Messages, IsEvent

LEMMA WaitParts ==
    ASSUME NEW w \in Waits
    PROVE  /\ w.kind \in {"none", "wait", "pump"}
           /\ w.kind # "none" => w.left \in Nat
           /\ w.kind = "wait" => w.id \in Ids
BY DEF Waits, Ticks

LEMMA NewWaits ==
    /\ NoWait \in Waits
    /\ \A id \in Ids : WaitFor(id) \in Waits
    /\ \A t \in Nat : PumpFor(t) \in Waits
BY TimeoutsAssumption DEF Waits, NoWait, WaitFor, PumpFor, Ticks

LEMMA ElapseType == \A t \in Nat : Elapse(t) \in Nat
BY DEF Elapse

(* What a tick makes of a blocked frame. *)
LEMMA AfterParts ==
    ASSUME NEW w \in Waits
    PROVE  /\ After(w) \in Waits /\ After(w).kind = w.kind
           /\ w.kind # "none" => After(w).left = Elapse(w.left)
           /\ w.kind = "wait" => After(w).id = w.id
<1>1. CASE w.kind = "none"
  BY <1>1 DEF After
<1>2. CASE w.kind = "wait"
  <2>1. w \in [kind : {"wait"}, id : Ids, left : Ticks]
    BY <1>2 DEF Waits
  <2> QED
    BY <1>2, <2>1, ElapseType DEF After, Waits, Ticks
<1>3. CASE w.kind = "pump"
  <2>1. w \in [kind : {"pump"}, left : Ticks]
    BY <1>3 DEF Waits
  <2> QED
    BY <1>3, <2>1, ElapseType DEF After, Waits, Ticks
<1> QED
  BY <1>1, <1>2, <1>3, WaitParts

LEMMA GateParts ==
    /\ NoGate \in Gates
    /\ \A t \in Nat : GateIn(t) \in Gates
    /\ \A g \in Gates : g.on \in BOOLEAN /\ (g.on => g.left \in Nat)
BY DEF Gates, NoGate, GateIn, Ticks

LEMMA TypeInit == Init => TypeOK
BY TimeoutsAssumption, BoundsAssumption, NewWaits, GateParts
   DEF Init, TypeOK, Ids, StartupAutoAttachId, NoEvent

LEMMA TypeStep == TypeOK /\ [Next]_vars => TypeOK'
<1> SUFFICES ASSUME TypeOK, [Next]_vars PROVE TypeOK'
  OBVIOUS
<1> USE DEF TypeOK
<1> USE TimeoutsAssumption, BoundsAssumption
<1>1. CASE MainServesGate
  BY <1>1, GateParts DEF MainServesGate, browser, stack
<1>2. CASE SendCommand
  BY <1>2, NewWaits DEF SendCommand, browser, Ids
<1>3. CASE PumpEvent
  <2>1. \A t \in Nat : PumpFor(t) \in Waits
    BY NewWaits
  <2>2. (IF gate.on /\ gate.left < PumpTimeout THEN gate.left ELSE PumpTimeout) \in Nat
    BY GateParts
  <2> QED
    BY <1>3, <2>1, <2>2 DEF PumpEvent, browser
<1>4. CASE StartCommand
  BY <1>4 DEF StartCommand, browser, Ids
<1>5. CASE WaitResponse
  BY <1>5, NewWaits DEF WaitResponse, browser
<1>6. CASE SetGate
  BY <1>6, GateParts DEF SetGate, browser, stack
<1>7. CASE HandlerReturns
  BY <1>7, NewWaits DEF HandlerReturns, browser, NoEvent
<1>8. CASE HandlerFails
  BY <1>8 DEF HandlerFails, browser, stack
<1>9. CASE TakeStored
  BY <1>9, NewWaits DEF TakeStored, PopWait, browser
<1>10. CASE DispatchQueued
  <2>1. Head(pendingEvents) \in 1 .. MaxEvents /\ Tail(pendingEvents) \in Seq(1 .. MaxEvents)
    BY <1>10 DEF DispatchQueued, Backlog
  <2> QED
    BY <1>10, <2>1 DEF DispatchQueued, Dispatch, browser
<1>11. CASE ServeGate
  BY <1>11, GateParts DEF ServeGate, browser, stack
<1>12. CASE ReadResponse
  <2>1. Head(pipe) \in Messages /\ Tail(pipe) \in Seq(Messages)
    BY <1>12 DEF ReadResponse
  <2>2. Head(pipe).id \in Ids
    BY <1>12, <2>1, MessageParts DEF ReadResponse
  <2> QED
    BY <1>12, <2>1, <2>2, NewWaits DEF ReadResponse, PopWait, browser
<1>13. CASE ReadEvent
  <2>1. Head(pipe) \in Messages /\ Tail(pipe) \in Seq(Messages)
    BY <1>13 DEF ReadEvent
  <2>2. Head(pipe).event \in 1 .. MaxEvents
    BY <1>13, <2>1, MessageParts DEF ReadEvent
  <2>3. Append(pendingEvents, Head(pipe).event) \in Seq(1 .. MaxEvents)
    BY <2>2
  <2>4. CASE handling # NoEvent
    BY <1>13, <2>1, <2>3, <2>4 DEF ReadEvent, browser, stack
  <2>5. CASE handling = NoEvent
    BY <1>13, <2>1, <2>2, <2>5 DEF ReadEvent, Dispatch, browser
  <2> QED
    BY <2>4, <2>5
<1>14. CASE TimeOut
  BY <1>14 DEF TimeOut, browser, stack
<1>15. CASE PumpReturns
  BY <1>15, NewWaits DEF PumpReturns, PopWait, browser
<1>16. CASE SendEvent
  <2>1. [event |-> sent'] \in Messages
    BY <1>16 DEF SendEvent, Messages
  <2> QED
    BY <1>16, <2>1 DEF SendEvent, stack
<1>17. CASE AnswerCommand
  <2>1. \A id \in Ids : [id |-> id] \in Messages
    BY DEF Messages
  <2> QED
    BY <1>17, <2>1 DEF AnswerCommand, stack
<1>18. CASE Tick
  <2>1. gate' \in Gates
    BY <1>18, GateParts, ElapseType DEF Tick
  <2>2. outer' \in Waits /\ inner' \in Waits
    BY <1>18, AfterParts DEF Tick
  <2> QED
    BY <1>18, <2>1, <2>2 DEF Tick, browser
<1>19. CASE Ended \/ UNCHANGED vars
  BY <1>19 DEF Ended, vars
<1> QED
  BY <1>1, <1>2, <1>3, <1>4, <1>5, <1>6, <1>7, <1>8, <1>9, <1>10, <1>11, <1>12, <1>13, <1>14,
     <1>15, <1>16, <1>17, <1>18, <1>19 DEF Next, Main, Handler, Wait

(* The connection's state always has its type: no wait is left without its *)
(* command or its deadline.                                                *)
THEOREM ConnectionType == Spec => []TypeOK
BY TypeInit, TypeStep, PTL DEF Spec

(***************************************************************************)
(* Responses.  Every command is wanted by one frame, or is one the handler *)
(* has yet to wait for: a response that is taken was nobody else's.        *)
(***************************************************************************)
Kept(id) == InPipe(id) \/ id \in pendingResponses

StackInv ==
    /\ inner.kind # "pump"
    /\ handling = NoEvent => inner.kind = "none" /\ open = {}
    /\ \A id \in answered \cup open : id < nextId
    /\ \A w \in {outer, inner} : w.kind = "wait" => w.id < nextId /\ w.id \notin open
    /\ outer.kind = "wait" /\ inner.kind = "wait" => outer.id # inner.id

LEMMA StackInit == Init => StackInv
BY BoundsAssumption DEF Init, StackInv, WaitFor, NoWait, StartupAutoAttachId, Ids

LEMMA StackStep == TypeOK /\ StackInv /\ [Next]_vars => StackInv'
<1> SUFFICES ASSUME TypeOK, StackInv, [Next]_vars PROVE StackInv'
  OBVIOUS
<1> USE DEF StackInv
<1>0. nextId \in Nat /\ answered \subseteq Nat /\ open \subseteq Nat
  BY BoundsAssumption DEF TypeOK, Ids
<1>1. CASE MainServesGate \/ SetGate \/ HandlerFails \/ ServeGate \/ TimeOut
  BY <1>1 DEF MainServesGate, SetGate, HandlerFails, ServeGate, TimeOut, browser, stack
<1>2. CASE SendCommand
  BY <1>0, <1>2 DEF SendCommand, MainRuns, WaitFor, browser
<1>3. CASE PumpEvent
  BY <1>3 DEF PumpEvent, PumpFor, browser
<1>4. CASE StartCommand
  <2>1. /\ nextId' = nextId + 1 /\ open' = open \cup {nextId}
        /\ UNCHANGED <<outer, inner, handling, answered>> /\ handling # NoEvent
    BY <1>4 DEF StartCommand, HandlerRuns, browser
  <2>2. \A id \in answered \cup open' : id < nextId'
    BY <1>0, <2>1
  <2>3. \A w \in {outer, inner} : w.kind = "wait" => w.id \in Nat
    BY WaitParts, BoundsAssumption DEF TypeOK, Ids
  <2>4. \A w \in {outer, inner} : w.kind = "wait" => w.id < nextId' /\ w.id \notin open'
    BY <1>0, <2>1, <2>3
  <2> QED
    BY <2>1, <2>2, <2>4
<1>5. CASE WaitResponse
  BY <1>5 DEF WaitResponse, HandlerRuns, WaitFor, NoWait, browser
<1>6. CASE HandlerReturns
  BY <1>6 DEF HandlerReturns, HandlerRuns, NoWait, browser
<1>7. CASE TakeStored \/ PumpReturns
  BY <1>7 DEF TakeStored, PumpReturns, PopWait, NoWait, browser
<1>8. CASE ReadResponse
  BY <1>8 DEF ReadResponse, PopWait, NoWait, browser
<1>9. CASE DispatchQueued
  <2>1. handling = NoEvent
    BY <1>9 DEF DispatchQueued, Backlog
  <2> QED
    BY <1>9, <2>1 DEF DispatchQueued, Dispatch, browser
<1>10. CASE ReadEvent
  BY <1>10 DEF ReadEvent, Dispatch, browser, stack
<1>11. CASE SendEvent
  BY <1>11 DEF SendEvent, stack
<1>12. CASE AnswerCommand
  BY <1>12 DEF AnswerCommand, stack
<1>13. CASE Tick
  <2>1. outer.kind' = outer.kind /\ inner.kind' = inner.kind
    BY <1>13, AfterParts DEF Tick, TypeOK
  <2>2. (outer.kind = "wait" => outer.id' = outer.id) /\ (inner.kind = "wait" => inner.id' = inner.id)
    BY <1>13, AfterParts DEF Tick, TypeOK
  <2> QED
    BY <1>13, <2>1, <2>2 DEF Tick, browser
<1>14. CASE Ended \/ UNCHANGED vars
  BY <1>14 DEF Ended, vars
<1> QED
  BY <1>1, <1>2, <1>3, <1>4, <1>5, <1>6, <1>7, <1>8, <1>9, <1>10, <1>11, <1>12, <1>13, <1>14
     DEF Next, Main, Handler, Wait

(* What is written to the pipe behind a response leaves it there; so does  *)
(* taking another message from the front.                                  *)
LEMMA PipeGrows ==
    ASSUME TypeOK, NEW m \in Messages, pipe' = Append(pipe, m)
    PROVE  /\ \A id : InPipe(id) => InPipe(id)'
           /\ \A id : m = [id |-> id] => InPipe(id)'
<1>1. /\ Len(pipe') = Len(pipe) + 1 /\ Len(pipe) \in Nat /\ pipe'[Len(pipe) + 1] = m
      /\ \A i \in DOMAIN pipe : i \in DOMAIN pipe' /\ pipe'[i] = pipe[i]
  BY DEF TypeOK
<1>2. Len(pipe) + 1 \in DOMAIN pipe'
  BY <1>1 DEF TypeOK
<1> QED
  BY <1>1, <1>2 DEF InPipe

LEMMA PipeShrinks ==
    ASSUME TypeOK, pipe # <<>>, pipe' = Tail(pipe)
    PROVE  \A id : InPipe(id) /\ Head(pipe) # [id |-> id] => InPipe(id)'
<1>1. /\ Len(pipe') = Len(pipe) - 1 /\ Len(pipe) \in Nat \ {0} /\ Head(pipe) = pipe[1]
      /\ DOMAIN pipe = 1 .. Len(pipe) /\ DOMAIN pipe' = 1 .. Len(pipe')
      /\ \A i \in 1 .. Len(pipe) - 1 : pipe'[i] = pipe[i + 1]
  BY DEF TypeOK
<1> SUFFICES ASSUME NEW id, NEW i \in DOMAIN pipe, pipe[i] = [id |-> id], Head(pipe) # [id |-> id]
             PROVE  \E j \in DOMAIN pipe' : pipe'[j] = [id |-> id]
  BY DEF InPipe
<1>2. i # 1
  BY <1>1
<1>3. i - 1 \in DOMAIN pipe' /\ pipe'[i - 1] = pipe[i]
  BY <1>1, <1>2
<1> QED
  BY <1>3

(* A step that leaves what is wanted as it is, or drops some of it, and    *)
(* keeps every answer that is still wanted, keeps the responses.           *)
WantedId(id) == \/ outer.kind = "wait" /\ outer.id = id
                \/ inner.kind = "wait" /\ inner.id = id
                \/ id \in open

LEMMA KeptMeansWanted == ResponsesAreKept <=> \A id \in answered : WantedId(id) => Kept(id)
BY DEF ResponsesAreKept, WantedId, Kept

LEMMA KeptStep == TypeOK /\ StackInv /\ ResponsesAreKept /\ [Next]_vars => ResponsesAreKept'
<1> SUFFICES ASSUME TypeOK, StackInv, ResponsesAreKept, [Next]_vars PROVE ResponsesAreKept'
  OBVIOUS
<1>0. \A id \in answered : WantedId(id) => Kept(id)
  BY KeptMeansWanted
<1> SUFFICES \A id \in answered' : WantedId(id)' => Kept(id)'
  BY DEF ResponsesAreKept, WantedId, Kept
<1>1. CASE MainServesGate \/ SetGate \/ HandlerFails \/ ServeGate \/ TimeOut
  BY <1>0, <1>1 DEF MainServesGate, SetGate, HandlerFails, ServeGate, TimeOut, browser, stack,
                    WantedId, Kept, InPipe
<1>2. CASE SendCommand
  <2>1. nextId \notin answered
    BY BoundsAssumption DEF StackInv, TypeOK
  <2> QED
    BY <1>0, <1>2, <2>1 DEF SendCommand, WaitFor, browser, WantedId, Kept, InPipe
<1>3. CASE PumpEvent
  BY <1>0, <1>3 DEF PumpEvent, PumpFor, browser, WantedId, Kept, InPipe
<1>4. CASE StartCommand
  <2>1. nextId \notin answered
    BY BoundsAssumption DEF StackInv, TypeOK
  <2> QED
    BY <1>0, <1>4, <2>1 DEF StartCommand, browser, WantedId, Kept, InPipe
<1>5. CASE WaitResponse
  BY <1>0, <1>5 DEF WaitResponse, WaitFor, browser, WantedId, Kept, InPipe
<1>6. CASE HandlerReturns
  BY <1>0, <1>6 DEF HandlerReturns, NoWait, browser, WantedId, Kept, InPipe
<1>7. CASE TakeStored
  <2>1. \A id : WantedId(id)' => WantedId(id) /\ id # Waiting.id
    BY <1>7 DEF TakeStored, Stored, AwaitsResponse, PopWait, Waiting, NoWait, WantedId, StackInv
  <2>2. \A id : Kept(id) /\ id # Waiting.id => Kept(id)'
    BY <1>7 DEF TakeStored, Kept, InPipe
  <2> QED
    BY <1>0, <1>7, <2>1, <2>2 DEF TakeStored, browser
<1>8. CASE PumpReturns
  BY <1>0, <1>8 DEF PumpReturns, PopWait, NoWait, browser, WantedId, Kept, InPipe
<1>9. CASE ReadResponse
  <2>1. Head(pipe) \in Messages /\ Head(pipe) = [id |-> Head(pipe).id]
    BY <1>9 DEF ReadResponse, TypeOK, Messages, IsEvent
  <2>2. \A id : Kept(id) /\ id # Head(pipe).id => Kept(id)'
    <3>1. \A id : id # Head(pipe).id => Head(pipe) # [id |-> id]
      BY <2>1
    <3>2. \A id : InPipe(id) /\ id # Head(pipe).id => InPipe(id)'
      BY <1>9, <3>1, PipeShrinks DEF ReadResponse
    <3>3. pendingResponses \subseteq pendingResponses'
      BY <1>9 DEF ReadResponse
    <3> QED
      BY <3>2, <3>3 DEF Kept
  <2>3. CASE Waiting.kind = "wait" /\ Head(pipe).id = Waiting.id
    <3>1. \A id : WantedId(id)' => WantedId(id) /\ id # Waiting.id
      BY <1>9, <2>3 DEF ReadResponse, PopWait, Waiting, NoWait, WantedId, StackInv
    <3> QED
      BY <1>0, <1>9, <2>2, <2>3, <3>1 DEF ReadResponse, browser
  <2>4. CASE ~(Waiting.kind = "wait" /\ Head(pipe).id = Waiting.id)
    <3>1. pendingResponses' = pendingResponses \cup {Head(pipe).id} /\ UNCHANGED <<outer, inner, open>>
      BY <1>9, <2>4 DEF ReadResponse
    <3> QED
      BY <1>0, <1>9, <2>2, <3>1 DEF ReadResponse, browser, WantedId, Kept
  <2> QED
    BY <2>3, <2>4
<1>10. CASE DispatchQueued
  BY <1>0, <1>10 DEF DispatchQueued, Dispatch, browser, WantedId, Kept, InPipe
<1>11. CASE ReadEvent
  <2>1. \A id : Head(pipe) # [id |-> id]
    BY <1>11 DEF ReadEvent, IsEvent
  <2>2. \A id : Kept(id) => Kept(id)'
    BY <1>11, <2>1, PipeShrinks DEF ReadEvent, Kept
  <2> QED
    BY <1>0, <1>11, <2>2 DEF ReadEvent, Dispatch, browser, stack, WantedId
<1>12. CASE SendEvent
  <2>1. [event |-> sent'] \in Messages
    BY <1>12, BoundsAssumption DEF SendEvent, TypeOK, Messages
  <2>2. \A id : InPipe(id) => InPipe(id)'
    BY <1>12, <2>1, PipeGrows DEF SendEvent
  <2> QED
    BY <1>0, <1>12, <2>2 DEF SendEvent, stack, WantedId, Kept
<1>13. CASE AnswerCommand
  <2>1. PICK new \in Ids : answered' = answered \cup {new} /\ pipe' = Append(pipe, [id |-> new])
    BY <1>13 DEF AnswerCommand
  <2>2. [id |-> new] \in Messages
    BY DEF Messages
  <2>3. InPipe(new)' /\ \A id : InPipe(id) => InPipe(id)'
    BY <2>1, <2>2, PipeGrows
  <2> QED
    BY <1>0, <1>13, <2>1, <2>3 DEF AnswerCommand, stack, WantedId, Kept
<1>14. CASE Tick
  <2>1. \A id : WantedId(id)' => WantedId(id)
    BY <1>14, AfterParts DEF Tick, TypeOK, WantedId
  <2> QED
    BY <1>0, <1>14, <2>1 DEF Tick, browser, Kept, InPipe
<1>15. CASE Ended \/ UNCHANGED vars
  BY <1>0, <1>15 DEF Ended, vars, WantedId, Kept, InPipe
<1> QED
  BY <1>1, <1>2, <1>3, <1>4, <1>5, <1>6, <1>7, <1>8, <1>9, <1>10, <1>11, <1>12, <1>13, <1>14, <1>15
     DEF Next, Main, Handler, Wait

(* No response is lost, in whatever order responses arrive and however the *)
(* waits for them nest: each stays until the one wait that wants it takes  *)
(* it (wait_response, pending_responses).                                  *)
THEOREM ResponsesKept == Spec => []ResponsesAreKept
<1>1. Init => ResponsesAreKept
  BY DEF Init, ResponsesAreKept
<1> QED
  BY <1>1, TypeInit, TypeStep, StackInit, StackStep, KeptStep, PTL DEF Spec

(***************************************************************************)
(* Deadlines.                                                              *)
(***************************************************************************)

(* A frame whose time is up, and that was answered before, finds its       *)
(* response set aside: time passed only while the pipe was empty.          *)
ExpiredIsStored ==
    \A w \in {outer, inner} :
        w.kind = "wait" /\ w.left = 0 /\ w.id \in inTime => w.id \in pendingResponses

TimeOutInv ==
    /\ ExpiredIsStored
    /\ result = "timedOut" => Waiting.kind = "wait" /\ Waiting.left = 0 /\ Waiting.id \notin inTime

LEMMA TimeOutStep ==
    TypeOK /\ StackInv /\ ResponsesAreKept /\ TimeOutInv /\ [Next]_vars => TimeOutInv'
<1> SUFFICES ASSUME TypeOK, StackInv, ResponsesAreKept, TimeOutInv, [Next]_vars PROVE TimeOutInv'
  OBVIOUS
<1> USE DEF TimeOutInv, ExpiredIsStored
<1>0. Waiting \in {outer, inner}
  BY DEF Waiting
<1>1. CASE MainServesGate \/ SetGate \/ HandlerFails \/ ServeGate
  BY <1>1 DEF MainServesGate, MainRuns, SetGate, HandlerRuns, HandlerFails, ServeGate, ServesGate,
              AwaitsResponse, Blocked, browser, stack, Waiting
<1>2. CASE SendCommand \/ PumpEvent
  BY <1>2, TimeoutsAssumption DEF SendCommand, PumpEvent, MainRuns, WaitFor, PumpFor, browser
<1>3. CASE StartCommand \/ WaitResponse \/ HandlerReturns
  BY <1>3, TimeoutsAssumption DEF StartCommand, WaitResponse, HandlerReturns, HandlerRuns,
                                  WaitFor, NoWait, browser
<1>4. CASE TakeStored
  <2>1. \A w \in {outer', inner'} : w.kind = "wait" => w \in {outer, inner} /\ w.id # Waiting.id
    BY <1>4 DEF TakeStored, Stored, AwaitsResponse, PopWait, Waiting, NoWait, StackInv
  <2>2. UNCHANGED <<inTime, result>> /\ result = "running"
    BY <1>4 DEF TakeStored, Stored, AwaitsResponse, Blocked, browser
  <2>3. pendingResponses' = pendingResponses \ {Waiting.id}
    BY <1>4 DEF TakeStored
  <2> QED
    BY <2>1, <2>2, <2>3
<1>5. CASE PumpReturns \/ ReadResponse
  <2>1. \A w \in {outer', inner'} : w.kind = "wait" => w \in {outer, inner}
    BY <1>5 DEF PumpReturns, ReadResponse, PopWait, NoWait
  <2>2. UNCHANGED <<inTime, result>> /\ result = "running"
    BY <1>5 DEF PumpReturns, ReadResponse, Reads, Blocked, browser
  <2>3. pendingResponses \subseteq pendingResponses'
    BY <1>5 DEF PumpReturns, ReadResponse
  <2> QED
    BY <2>1, <2>2, <2>3
<1>6. CASE DispatchQueued \/ ReadEvent
  <2>1. UNCHANGED <<outer, inner, inTime, result, pendingResponses>> /\ result = "running"
    BY <1>6 DEF DispatchQueued, ReadEvent, Reads, Dispatch, Blocked, browser, stack
  <2> QED
    BY <2>1
<1>7. CASE TimeOut
  <2>1. Waiting.kind = "wait" /\ Waiting.left = 0 /\ Waiting.id \notin pendingResponses
    BY <1>7 DEF TimeOut, Reads, Stored, AwaitsResponse
  <2> QED
    BY <1>0, <1>7, <2>1 DEF TimeOut, browser, stack, Waiting
<1>8. CASE SendEvent
  BY <1>8 DEF SendEvent, stack, Waiting
<1>9. CASE AnswerCommand
  <2>1. PICK id \in Ids : inTime' = IF Expired(id) THEN inTime ELSE inTime \cup {id}
    BY <1>9 DEF AnswerCommand
  <2>2. \A w \in {outer, inner} : w.kind = "wait" /\ w.left = 0 /\ w.id \in inTime' => w.id \in inTime
    BY <2>1 DEF Expired
  <2>3. UNCHANGED <<outer, inner, handling, result, pendingResponses>>
    BY <1>9 DEF AnswerCommand, stack
  <2> QED
    BY <1>0, <2>2, <2>3 DEF Waiting
<1>10. CASE Tick
  <2>1. UNCHANGED <<inTime, result, pendingResponses>> /\ result = "running" /\ pipe = <<>>
    BY <1>10 DEF Tick, Reads, Blocked, browser
  <2>2. \A w \in {outer, inner} : w.kind = "wait" /\ w.id \in inTime => w.id \in pendingResponses
    BY <2>1 DEF TypeOK, ResponsesAreKept, InPipe
  <2>3. \A w \in {outer, inner} : After(w).kind = w.kind /\ (w.kind = "wait" => After(w).id = w.id)
    BY AfterParts DEF TypeOK
  <2> QED
    BY <1>10, <2>1, <2>2, <2>3 DEF Tick
<1>11. CASE Ended \/ UNCHANGED vars
  BY <1>11 DEF Ended, vars, Waiting
<1> QED
  BY <1>1, <1>2, <1>3, <1>4, <1>5, <1>6, <1>7, <1>8, <1>9, <1>10, <1>11
     DEF Next, Main, Handler, Wait

(* A command answered before its deadline is never reported as timed out,  *)
(* whatever ran during its wait: the stored responses are looked at first  *)
(* (wait_response).                                                        *)
THEOREM AnsweredSeen == Spec => []AnsweredInTimeIsSeen
<1>1. Init => ResponsesAreKept
  BY DEF Init, ResponsesAreKept
<1>2. Init => TimeOutInv
  BY TimeoutsAssumption DEF Init, TimeOutInv, ExpiredIsStored
<1>3. TimeOutInv => AnsweredInTimeIsSeen
  BY DEF TimeOutInv, AnsweredInTimeIsSeen
<1> QED
  BY <1>1, <1>2, <1>3, TypeInit, TypeStep, StackInit, StackStep, KeptStep, TimeOutStep, PTL DEF Spec

(* A pump that no handler has interrupted wakes by the handler's deadline. *)
PumpInv == outer.kind = "pump" /\ handling = NoEvent /\ gate.on => outer.left <= gate.left

LEMMA PumpStep == TypeOK /\ StackInv /\ PumpInv /\ [Next]_vars => PumpInv'
<1> SUFFICES ASSUME TypeOK, StackInv, PumpInv, [Next]_vars PROVE PumpInv'
  OBVIOUS
<1> USE DEF PumpInv
<1>1. CASE MainServesGate \/ SendCommand
  BY <1>1 DEF MainServesGate, SendCommand, MainRuns, NoWait, WaitFor, NoGate, stack
<1>2. CASE PumpEvent
  BY <1>2, GateParts, TimeoutsAssumption DEF PumpEvent, PumpFor, TypeOK
<1>3. CASE StartCommand \/ WaitResponse \/ SetGate \/ HandlerReturns \/ HandlerFails
  BY <1>3 DEF StartCommand, WaitResponse, SetGate, HandlerReturns, HandlerFails, HandlerRuns,
              NoWait, stack
<1>4. CASE TakeStored \/ PumpReturns \/ ReadResponse
  BY <1>4 DEF TakeStored, PumpReturns, ReadResponse, PopWait, NoWait
<1>5. CASE DispatchQueued \/ ReadEvent
  <2>1. handling' = handling \/ handling' # NoEvent
    <3>1. CASE DispatchQueued
      BY <3>1 DEF DispatchQueued, Backlog, Dispatch, TypeOK, NoEvent
    <3>2. CASE ReadEvent
      <4>1. Head(pipe) \in Messages
        BY <3>2 DEF ReadEvent, TypeOK
      <4>2. Head(pipe).event # NoEvent
        BY <3>2, <4>1, MessageParts DEF ReadEvent, NoEvent
      <4> QED
        BY <3>2, <4>2 DEF ReadEvent, Dispatch, stack
    <3> QED
      BY <1>5, <3>1, <3>2
  <2>2. UNCHANGED <<outer, gate>>
    BY <1>5 DEF DispatchQueued, ReadEvent, Dispatch, stack
  <2> QED
    BY <2>1, <2>2
<1>6. CASE ServeGate
  BY <1>6 DEF ServeGate, ServesGate, AwaitsResponse, Waiting, stack
<1>7. CASE TimeOut \/ SendEvent \/ AnswerCommand \/ Ended \/ UNCHANGED vars
  BY <1>7 DEF TimeOut, SendEvent, AnswerCommand, Ended, vars, stack
<1>8. CASE Tick
  <2>1. outer'.kind = outer.kind /\ (outer.kind = "pump" => outer'.left = Elapse(outer.left))
    BY <1>8, AfterParts DEF Tick, TypeOK
  <2>2. (gate'.on <=> gate.on) /\ (gate.on => gate'.left = Elapse(gate.left))
    BY <1>8, GateParts DEF Tick, GateIn, TypeOK
  <2>3. (outer.kind = "pump" => outer.left \in Nat) /\ (gate.on => gate.left \in Nat)
    BY WaitParts, GateParts DEF TypeOK
  <2>4. UNCHANGED handling
    BY <1>8 DEF Tick
  <2> QED
    BY <2>1, <2>2, <2>3, <2>4 DEF Elapse
<1> QED
  BY <1>1, <1>2, <1>3, <1>4, <1>5, <1>6, <1>7, <1>8 DEF Next, Main, Handler, Wait

(* Time never passes over a deadline of the handler that is due: a wait    *)
(* serves it first, and a pump never sleeps past it (wait_response,        *)
(* response_wait, pump_event).                                             *)
THEOREM GateServed == Spec => GateIsNotSleptThrough
<1>1. Init => PumpInv
  BY DEF Init, PumpInv, WaitFor
<1>2. TypeOK /\ StackInv /\ PumpInv /\ Tick => ~GateDue
  <2> SUFFICES ASSUME TypeOK, StackInv, PumpInv, Tick, GateDue PROVE FALSE
    OBVIOUS
  <2>1. gate.left = 0 /\ gate.on /\ Waiting.left > 0 /\ ~ServesGate /\ Blocked
    BY DEF Tick, Reads, GateDue
  <2>2. CASE Waiting.kind = "wait"
    BY <2>1, <2>2 DEF ServesGate, GateFirst, Reads, AwaitsResponse, GateDue, Tick
  <2>3. CASE Waiting.kind = "pump"
    <3>1. handling = NoEvent /\ Waiting = outer
      BY <2>3 DEF Waiting, StackInv
    <3>2. outer.left \in Nat
      BY <2>3, <3>1, WaitParts DEF TypeOK
    <3> QED
      BY <2>1, <2>3, <3>1, <3>2 DEF PumpInv
  <2> QED
    BY <2>1, <2>2, <2>3, WaitParts DEF TypeOK, Waiting, Blocked
<1>3. TypeOK /\ StackInv /\ PumpInv /\ [Next]_vars => [Tick => ~GateDue]_vars
  BY <1>2
<1> QED
  BY <1>1, <1>3, TypeInit, TypeStep, StackInit, StackStep, PumpStep, PTL
     DEF Spec, GateIsNotSleptThrough

(***************************************************************************)
(* Events.  What a message that comes or goes does to the events behind it.*)
(***************************************************************************)
Piece(m) == IF IsEvent(m) THEN <<m.event>> ELSE <<>>
PiecesOf(messages) == [i \in DOMAIN messages |-> Piece(messages[i])]

LEMMA PieceType == ASSUME NEW m \in Messages PROVE Piece(m) \in Seq(1 .. MaxEvents)
<1>1. CASE IsEvent(m)
  <2>1. m.event \in 1 .. MaxEvents
    BY <1>1, MessageParts
  <2>2. <<m.event>> \in Seq(1 .. MaxEvents)
    BY <2>1
  <2> QED
    BY <1>1, <2>2 DEF Piece
<1>2. CASE ~IsEvent(m)
  BY <1>2 DEF Piece
<1> QED
  BY <1>1, <1>2

LEMMA PiecesType ==
    ASSUME NEW p \in Seq(Messages)
    PROVE  /\ PiecesOf(p) \in Seq(Seq(1 .. MaxEvents)) /\ Len(PiecesOf(p)) = Len(p)
           /\ \A i \in 1 .. Len(p) : PiecesOf(p)[i] = Piece(p[i])
           /\ EventsIn(p) = FlattenSeq(PiecesOf(p))
<1> DEFINE S == Seq(1 .. MaxEvents)
           q == PiecesOf(p)
<1>1. Len(p) \in Nat /\ DOMAIN p = 1 .. Len(p) /\ \A i \in 1 .. Len(p) : p[i] \in Messages
  BY LenProperties, ElementOfSeq
<1>2. \A i \in 1 .. Len(p) : Piece(p[i]) \in S
  BY <1>1, PieceType
<1>3. EventsIn(p) = FlattenSeq(q)
  BY DEF EventsIn, PiecesOf, Piece
<1> HIDE DEF S
<1>4. q = [i \in 1 .. Len(p) |-> Piece(p[i])]
  BY <1>1 DEF PiecesOf
<1>5. q \in [1 .. Len(p) -> S]
  BY <1>2, <1>4
<1> HIDE DEF q
<1>6. q \in Seq(S) /\ Len(q) = Len(p)
  BY <1>1, <1>5, IsASeq
<1>7. \A i \in 1 .. Len(p) : q[i] = Piece(p[i])
  BY <1>4
<1> QED
  BY <1>3, <1>6, <1>7 DEF q, S

(* A message that comes adds its event, a response none. *)
LEMMA EventsGrow ==
    ASSUME NEW p \in Seq(Messages), NEW m \in Messages
    PROVE  EventsIn(Append(p, m)) = EventsIn(p) \o Piece(m)
<1> DEFINE S == 1 .. MaxEvents
           q == PiecesOf(p)
           more == Append(p, m)
           r == PiecesOf(more)
<1>1. /\ more \in Seq(Messages) /\ Len(more) = Len(p) + 1 /\ more[Len(p) + 1] = m
      /\ \A i \in 1 .. Len(p) : more[i] = p[i]
      /\ Len(p) \in Nat
  BY AppendProperties, LenProperties
<1> HIDE DEF more
<1>2. /\ q \in Seq(Seq(S)) /\ Len(q) = Len(p)
      /\ \A i \in 1 .. Len(p) : q[i] = Piece(p[i])
      /\ EventsIn(p) = FlattenSeq(q)
  BY PiecesType
<1>3. /\ r \in Seq(Seq(S)) /\ Len(r) = Len(p) + 1
      /\ \A i \in 1 .. Len(p) + 1 : r[i] = Piece(more[i])
      /\ EventsIn(more) = FlattenSeq(r)
  BY <1>1, PiecesType
<1>4. Piece(m) \in Seq(S)
  BY PieceType
<1> HIDE DEF q, r, S
<1>5. r = Append(q, Piece(m))
  <2> DEFINE t == Append(q, Piece(m))
  <2>1. /\ t \in Seq(Seq(S)) /\ Len(t) = Len(p) + 1 /\ t[Len(p) + 1] = Piece(m)
        /\ \A i \in 1 .. Len(p) : t[i] = q[i]
    BY <1>2, <1>4, AppendProperties
  <2> HIDE DEF t
  <2>2. \A i \in 1 .. Len(p) + 1 : r[i] = t[i]
    <3> TAKE i \in 1 .. Len(p) + 1
    <3>1. CASE i = Len(p) + 1
      BY <1>1, <1>3, <2>1, <3>1
    <3>2. CASE i # Len(p) + 1
      <4>1. i \in 1 .. Len(p)
        BY <1>1, <3>2
      <4> QED
        BY <1>1, <1>2, <1>3, <2>1, <4>1
    <3> QED
      BY <3>1, <3>2
  <2>3. r = t
    BY <1>3, <2>1, <2>2, SeqEqual
  <2> QED
    BY <2>3 DEF t
<1>6. FlattenSeq(Append(q, Piece(m))) = FlattenSeq(q) \o Piece(m)
  BY <1>2, <1>4, FlattenAppend
<1> QED
  BY <1>2, <1>3, <1>5, <1>6 DEF more

(* The oldest message's event is the first, and goes with it. *)
LEMMA EventsShrink ==
    ASSUME NEW p \in Seq(Messages), p # <<>>
    PROVE  EventsIn(p) = Piece(Head(p)) \o EventsIn(Tail(p))
<1> DEFINE S == 1 .. MaxEvents
           q == PiecesOf(p)
           rest == Tail(p)
           r == PiecesOf(rest)
<1>1. /\ rest \in Seq(Messages) /\ Len(p) \in Nat /\ Len(p) > 0 /\ Len(rest) = Len(p) - 1
      /\ Head(p) = p[1] /\ \A i \in 1 .. Len(rest) : rest[i] = p[i + 1]
  BY HeadTailProperties, LenProperties, EmptySeq
<1> HIDE DEF rest
<1>2. /\ q \in Seq(Seq(S)) /\ Len(q) = Len(p)
      /\ \A i \in 1 .. Len(p) : q[i] = Piece(p[i])
      /\ EventsIn(p) = FlattenSeq(q)
  BY PiecesType
<1>3. /\ r \in Seq(Seq(S)) /\ Len(r) = Len(rest)
      /\ \A i \in 1 .. Len(rest) : r[i] = Piece(rest[i])
      /\ EventsIn(rest) = FlattenSeq(r)
  BY <1>1, PiecesType
<1> HIDE DEF q, r, S
<1>4. q # <<>> /\ Head(q) = Piece(Head(p))
  <2>1. Len(q) # 0 /\ 1 \in 1 .. Len(p)
    BY <1>1, <1>2
  <2>2. q # <<>>
    BY <2>1
  <2>3. Head(q) = q[1]
    BY <1>2, <2>2, HeadTailProperties
  <2> QED
    BY <1>1, <1>2, <2>1, <2>2, <2>3
<1>5. r = Tail(q)
  <2> DEFINE t == Tail(q)
  <2>1. /\ t \in Seq(Seq(S)) /\ Len(t) = Len(q) - 1
        /\ \A i \in 1 .. Len(t) : t[i] = q[i + 1]
    BY <1>2, <1>4, HeadTailProperties
  <2> HIDE DEF t
  <2>2. Len(t) = Len(rest) /\ Len(rest) \in Nat
    BY <1>1, <1>2, <2>1
  <2>3. \A i \in 1 .. Len(rest) : i + 1 \in 1 .. Len(p)
    BY <1>1
  <2>4. \A i \in 1 .. Len(rest) : r[i] = t[i]
    BY <1>1, <1>2, <1>3, <2>1, <2>2, <2>3
  <2>5. r = t
    BY <1>3, <2>1, <2>2, <2>4, SeqEqual
  <2> QED
    BY <2>5 DEF t
<1>6. FlattenSeq(q) = Head(q) \o FlattenSeq(Tail(q))
  BY <1>2, <1>4, FlattenHead
<1> QED
  BY <1>2, <1>3, <1>4, <1>5, <1>6 DEF rest

LEMMA EventsType == ASSUME NEW p \in Seq(Messages) PROVE EventsIn(p) \in Seq(1 .. MaxEvents)
BY PiecesType, FlattenType

LEMMA NoEventsIn == EventsIn(<<>>) = <<>>
<1>1. PiecesOf(<<>>) = <<>>
  BY DEF PiecesOf
<1>2. <<>> \in Seq(Messages)
  OBVIOUS
<1> QED
  BY <1>1, <1>2, PiecesType, FlattenEmpty

(* The mailbox that the connection's state amounts to. *)
Inbox == pendingEvents \o EventsIn(pipe)

LEMMA InboxFirst ==
    ASSUME TypeOK, pendingEvents # <<>>
    PROVE  Inbox # <<>> /\ Head(Inbox) = Head(pendingEvents)
           /\ Tail(Inbox) = Tail(pendingEvents) \o EventsIn(pipe)
<1>1. pendingEvents \in Seq(1 .. MaxEvents) /\ EventsIn(pipe) \in Seq(1 .. MaxEvents)
  BY EventsType DEF TypeOK
<1> QED
  BY <1>1, HeadTailOfConcat DEF Inbox

LEMMA MailboxInit == Init => Mailbox!Init
BY NoEventsIn DEF Init, Mailbox!Init, NoEvent, Mailbox!NoEvent

LEMMA MailboxStep == TypeOK /\ [Next]_vars => [Mailbox!Next]_(Mailbox!vars)
<1> SUFFICES ASSUME TypeOK, [Next]_vars PROVE [Mailbox!Next]_(Mailbox!vars)
  OBVIOUS
<1>t. /\ pipe \in Seq(Messages) /\ pendingEvents \in Seq(1 .. MaxEvents)
      /\ EventsIn(pipe) \in Seq(1 .. MaxEvents)
  BY EventsType DEF TypeOK
<1>s. UNCHANGED <<sent, Inbox, handling>> => UNCHANGED Mailbox!vars
  BY DEF Mailbox!vars, Inbox
<1>u. UNCHANGED <<sent, pendingEvents, pipe, handling>> => UNCHANGED Mailbox!vars
  BY DEF Mailbox!vars
<1>1. CASE MainServesGate \/ SendCommand \/ PumpEvent
  BY <1>1, <1>u DEF MainServesGate, SendCommand, PumpEvent, browser, stack
<1>2. CASE StartCommand \/ WaitResponse \/ SetGate \/ HandlerFails
  BY <1>2, <1>u DEF StartCommand, WaitResponse, SetGate, HandlerFails, browser, stack
<1>3. CASE TakeStored \/ ServeGate \/ TimeOut \/ PumpReturns
  BY <1>3, <1>u DEF TakeStored, ServeGate, TimeOut, PumpReturns, browser, stack
<1>4. CASE Tick \/ Ended \/ UNCHANGED vars
  BY <1>4, <1>u DEF Tick, Ended, vars, browser
<1>5. CASE HandlerReturns
  <2>1. handling # NoEvent /\ handling' = NoEvent /\ UNCHANGED <<sent, pendingEvents, pipe>>
    BY <1>5 DEF HandlerReturns, HandlerRuns, browser
  <2>2. Mailbox!Handled
    BY <2>1 DEF Mailbox!Handled, NoEvent, Mailbox!NoEvent
  <2> QED
    BY <2>2 DEF Mailbox!Next
<1>6. CASE DispatchQueued
  <2>1. /\ handling = NoEvent /\ pendingEvents # <<>> /\ handling' = Head(pendingEvents)
        /\ pendingEvents' = Tail(pendingEvents) /\ UNCHANGED <<sent, pipe>>
    BY <1>6 DEF DispatchQueued, Backlog, Dispatch, browser
  <2>2. Inbox # <<>> /\ handling' = Head(Inbox) /\ Inbox' = Tail(Inbox)
    BY <2>1, InboxFirst DEF Inbox
  <2>3. Mailbox!Deliver
    BY <2>1, <2>2 DEF Mailbox!Deliver, NoEvent, Mailbox!NoEvent, Inbox
  <2> QED
    BY <2>3 DEF Mailbox!Next
<1>7. CASE ReadResponse
  <2>1. /\ pipe # <<>> /\ ~IsEvent(Head(pipe)) /\ pipe' = Tail(pipe)
        /\ UNCHANGED <<sent, pendingEvents, handling>>
    BY <1>7 DEF ReadResponse, browser
  <2>2. Tail(pipe) \in Seq(Messages)
    BY <1>t, <2>1
  <2>3. EventsIn(pipe) = <<>> \o EventsIn(Tail(pipe))
    BY <1>t, <2>1, EventsShrink DEF Piece
  <2>4. EventsIn(pipe) = EventsIn(Tail(pipe))
    BY <2>2, <2>3, EventsType
  <2>5. UNCHANGED <<sent, Inbox, handling>>
    BY <2>1, <2>4 DEF Inbox
  <2> QED
    BY <1>s, <2>5
<1>8. CASE ReadEvent
  <2> DEFINE e == Head(pipe).event
             events == EventsIn(Tail(pipe))
  <2>1. /\ pipe # <<>> /\ IsEvent(Head(pipe)) /\ pipe' = Tail(pipe) /\ UNCHANGED sent
    BY <1>8 DEF ReadEvent, browser
  <2>2. Head(pipe) \in Messages /\ Tail(pipe) \in Seq(Messages)
    BY <1>t, <2>1
  <2>3. e \in 1 .. MaxEvents /\ events \in Seq(1 .. MaxEvents)
    BY <2>1, <2>2, MessageParts, EventsType
  <2>4. EventsIn(pipe) = <<e>> \o events
    BY <1>t, <2>1, EventsShrink DEF Piece
  <2>5. EventsIn(pipe') = events
    BY <2>1
  <2> HIDE DEF e, events
  <2>6. CASE handling # NoEvent
    <3>1. pendingEvents' = Append(pendingEvents, e) /\ handling' = handling
      BY <1>8, <2>6 DEF ReadEvent, stack, e
    <3>2. Append(pendingEvents, e) \o events = pendingEvents \o (<<e>> \o events)
      <4>1. Append(pendingEvents, e) = pendingEvents \o <<e>>
        BY <1>t, <2>3, AppendIsConcat
      <4>2. <<e>> \in Seq(1 .. MaxEvents)
        BY <2>3
      <4>3. (pendingEvents \o <<e>>) \o events = pendingEvents \o (<<e>> \o events)
        BY <1>t, <2>3, <4>2, ConcatAssociative
      <4> QED
        BY <4>1, <4>3
    <3>3. Inbox' = Inbox
      BY <2>4, <2>5, <3>1, <3>2 DEF Inbox
    <3> QED
      BY <1>s, <2>1, <3>1, <3>3
  <2>7. CASE handling = NoEvent
    <3>1. handling' = e /\ pendingEvents' = pendingEvents /\ pendingEvents = <<>>
      BY <1>8, <2>7 DEF ReadEvent, Dispatch, Reads, Backlog, e
    <3>2. Inbox = <<e>> \o events /\ Inbox' = events
      <4>1. EventsIn(pipe) \in Seq(1 .. MaxEvents)
        BY <1>t
      <4>2. <<>> \o EventsIn(pipe) = EventsIn(pipe) /\ <<>> \o events = events
        BY <2>3, <4>1
      <4> QED
        BY <2>4, <2>5, <3>1, <4>2 DEF Inbox
    <3>3. <<e>> \o events # <<>> /\ Head(<<e>> \o events) = e /\ Tail(<<e>> \o events) = events
      <4>1. <<e>> \in Seq(1 .. MaxEvents) /\ <<e>> # <<>> /\ Head(<<e>>) = e /\ Tail(<<e>>) = <<>>
        BY <2>3
      <4>2. <<>> \o events = events
        BY <2>3
      <4> QED
        BY <2>3, <4>1, <4>2, HeadTailOfConcat
    <3>4. Mailbox!Deliver
      BY <2>1, <2>7, <3>1, <3>2, <3>3 DEF Mailbox!Deliver, NoEvent, Mailbox!NoEvent, Inbox
    <3> QED
      BY <3>4 DEF Mailbox!Next
  <2> QED
    BY <2>6, <2>7
<1>9. CASE SendEvent
  <2> DEFINE m == [event |-> sent']
  <2>1. /\ sent < MaxEvents /\ sent' = sent + 1 /\ pipe' = Append(pipe, m)
        /\ UNCHANGED <<pendingEvents, handling>>
    BY <1>9 DEF SendEvent, stack
  <2>2. sent' \in 1 .. MaxEvents
    BY <2>1, BoundsAssumption DEF TypeOK
  <2>3. m \in Messages /\ Piece(m) = <<sent'>>
    BY <2>2 DEF Messages, Piece, IsEvent
  <2> HIDE DEF m
  <2>4. EventsIn(pipe') = EventsIn(pipe) \o <<sent'>>
    BY <1>t, <2>1, <2>3, EventsGrow
  <2>5. pendingEvents \o (EventsIn(pipe) \o <<sent'>>) = Append(Inbox, sent')
    <3>1. Inbox \in Seq(1 .. MaxEvents)
      BY <1>t, ConcatProperties DEF Inbox
    <3>2. <<sent'>> \in Seq(1 .. MaxEvents)
      BY <2>2
    <3>3. pendingEvents \o (EventsIn(pipe) \o <<sent'>>) = Inbox \o <<sent'>>
      BY <1>t, <3>2, ConcatAssociative DEF Inbox
    <3> QED
      BY <2>2, <3>1, <3>3, AppendIsConcat
  <2>6. Inbox' = Append(Inbox, sent')
    BY <2>1, <2>4, <2>5 DEF Inbox
  <2>7. Mailbox!Send
    BY <2>1, <2>6 DEF Mailbox!Send, Inbox
  <2> QED
    BY <2>7 DEF Mailbox!Next
<1>10. CASE AnswerCommand
  <2>1. PICK id \in Ids : pipe' = Append(pipe, [id |-> id])
    BY <1>10 DEF AnswerCommand
  <2>2. UNCHANGED <<sent, pendingEvents, handling>>
    BY <1>10 DEF AnswerCommand, stack
  <2>3. [id |-> id] \in Messages /\ Piece([id |-> id]) = <<>>
    BY DEF Messages, Piece, IsEvent
  <2>4. EventsIn(pipe') = EventsIn(pipe) \o <<>>
    BY <1>t, <2>1, <2>3, EventsGrow
  <2>5. EventsIn(pipe') = EventsIn(pipe)
    BY <1>t, <2>4
  <2>6. UNCHANGED <<sent, Inbox, handling>>
    BY <2>2, <2>5 DEF Inbox
  <2> QED
    BY <1>s, <2>6
<1> QED
  BY <1>1, <1>2, <1>3, <1>4, <1>5, <1>6, <1>7, <1>8, <1>9, <1>10 DEF Next, Main, Handler, Wait

(* The connection implements the mailbox: whichever caller reads the pipe  *)
(* and wherever it left an event, the handler sees every event once, in    *)
(* the order of the browser, and never inside the handler of another.      *)
THEOREM EventsArriveInOrder == Spec => EventsInOrder
BY TypeInit, TypeStep, MailboxInit, MailboxStep, PTL DEF Spec, EventsInOrder, Mailbox!Spec
=============================================================================
