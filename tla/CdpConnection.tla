---------------------------- MODULE CdpConnection ----------------------------
(***************************************************************************)
(* The connection of cdp.rs over the pipe transport of platform/mod.rs: a  *)
(* single thread that writes commands, pairs responses with the waits that *)
(* want them, and hands events to a handler that may itself issue commands *)
(* and wait.  The call stack is at most: the main loop, in wait_response   *)
(* (`outer`) or in pump_event; the handler of one event (`handling`); and  *)
(* that handler's own wait_response (`inner`).                             *)
(*                                                                         *)
(* Deadlines are kept as the ticks left until they pass.  Time advances    *)
(* only while the thread blocks on an empty pipe: its own work is taken to *)
(* be instantaneous.                                                       *)
(***************************************************************************)
EXTENDS Integers, FiniteSets, SequencesExt

CONSTANTS MaxEvents,      \* bound: events the browser sends
          MaxId,          \* bound: commands, STARTUP_AUTO_ATTACH_ID included
          CommandTimeout, \* COMMAND_TIMEOUT
          PumpTimeout,    \* how long the main loop pumps at most
          GateTimeouts    \* the deadlines a handler may set for itself

ASSUME TimeoutsAssumption ==
    /\ CommandTimeout \in Nat \ {0} /\ PumpTimeout \in Nat \ {0}
    /\ GateTimeouts \subseteq Nat \ {0}
ASSUME BoundsAssumption == MaxEvents \in Nat /\ MaxId \in Nat \ {0}

NoEvent == 0
StartupAutoAttachId == 1
Ids == 1 .. MaxId
Ticks == Nat

(* A message on the pipe: the response to a command, or an event. *)
Messages == [id : Ids] \cup [event : 1 .. MaxEvents]
IsEvent(m) == "event" \in DOMAIN m

(* A frame of the call stack that blocks: wait_response, or pump_event. *)
NoWait == [kind |-> "none"]
WaitFor(id) == [kind |-> "wait", id |-> id, left |-> CommandTimeout]
PumpFor(left) == [kind |-> "pump", left |-> left]
Waits == [kind : {"none"}] \cup [kind : {"wait"}, id : Ids, left : Ticks]
         \cup [kind : {"pump"}, left : Ticks]

(* The deadline that wait_deadline folds in, or none. *)
NoGate == [on |-> FALSE]
GateIn(left) == [on |-> TRUE, left |-> left]
Gates == [on : {FALSE}] \cup [on : {TRUE}, left : Ticks]

VARIABLES sent,             \* events the browser has sent
          answered,         \* ids the browser has answered
          pipe,             \* unread messages, oldest first
          nextId,           \* next_id
          pendingResponses, \* ids of the responses set aside
          pendingEvents,    \* events set aside while a handler runs
          outer, inner,     \* blocked frames
          handling,         \* the event whose handler runs, or NoEvent
          open,             \* commands that handler started and has not awaited
          gate,             \* the handler's own deadline
          result,           \* how the run ended, or "running"
          inTime            \* history: ids answered before their deadline

vars == <<sent, answered, pipe, nextId, pendingResponses, pendingEvents,
          outer, inner, handling, open, gate, result, inTime>>
browser == <<sent, answered, inTime>>
stack == <<outer, inner, handling, open>>

TypeOK ==
    /\ sent \in 0 .. MaxEvents /\ answered \subseteq Ids /\ inTime \subseteq answered
    /\ pipe \in Seq(Messages)
    /\ nextId \in 1 .. MaxId + 1
    /\ pendingResponses \subseteq Ids
    /\ pendingEvents \in Seq(1 .. MaxEvents)
    /\ outer \in Waits /\ inner \in Waits
    /\ handling \in 0 .. MaxEvents
    /\ open \subseteq Ids
    /\ gate \in Gates
    /\ result \in {"running", "timedOut", "failed"}

(* The startup frame is in the pipe before the app starts. *)
Init ==
    /\ sent = 0 /\ answered = {} /\ inTime = {} /\ pipe = <<>>
    /\ nextId = StartupAutoAttachId + 1
    /\ pendingResponses = {} /\ pendingEvents = <<>>
    /\ outer = WaitFor(StartupAutoAttachId) /\ inner = NoWait
    /\ handling = NoEvent /\ open = {}
    /\ gate = NoGate /\ result = "running"

(***************************************************************************)
(* The blocked frame on top of the stack, and what it does.                *)
(***************************************************************************)
Waiting == IF handling = NoEvent THEN outer ELSE inner
Blocked == result = "running" /\ Waiting.kind # "none"
AwaitsResponse == Blocked /\ Waiting.kind = "wait"

GateDue == gate.on /\ gate.left = 0
(* response_wait: the handler's deadline counts when it is the earlier one. *)
GateFirst == gate.on /\ gate.left < Waiting.left

(* Mutant: the wait looks at its deadline before the stored responses. *)
StoredBeforeDeadline ==
    AwaitsResponse /\ Waiting.id \in pendingResponses /\ Waiting.left > 0
Stored == AwaitsResponse /\ Waiting.id \in pendingResponses
(* Mutant: only the pump drains the events that were set aside. *)
BacklogOfPump == handling = NoEvent /\ pendingEvents # <<>> /\ outer.kind = "pump"
(* Only without a handler may an event that was set aside be dispatched. *)
Backlog == handling = NoEvent /\ pendingEvents # <<>>

(* The wait is over: its caller goes on. *)
PopWait == IF handling = NoEvent
           THEN outer' = NoWait /\ UNCHANGED inner
           ELSE inner' = NoWait /\ UNCHANGED outer

Dispatch(e) == handling' = e /\ UNCHANGED <<outer, inner, open>>

TakeStored ==
    /\ Stored
    /\ pendingResponses' = pendingResponses \ {Waiting.id}
    /\ PopWait
    /\ UNCHANGED <<browser, pipe, nextId, pendingEvents, handling, open, gate, result>>

DispatchQueued ==
    /\ Blocked /\ ~Stored /\ Backlog
    /\ Dispatch(Head(pendingEvents))
    /\ pendingEvents' = Tail(pendingEvents)
    /\ UNCHANGED <<browser, pipe, nextId, pendingResponses, gate, result>>

(* A due deadline of the handler is served before the pipe is read. *)
ServesGate == AwaitsResponse /\ ~Stored /\ ~Backlog /\ GateFirst /\ GateDue

Reads == Blocked /\ ~Stored /\ ~Backlog /\ ~ServesGate

(* Success clears the deadline or advances it; failure ends the run. *)
ServeGate ==
    /\ ServesGate
    /\ \/ gate' \in {NoGate} \cup {GateIn(t) : t \in GateTimeouts} /\ UNCHANGED result
       \/ result' = "failed" /\ UNCHANGED gate
    /\ UNCHANGED <<browser, pipe, nextId, pendingResponses, pendingEvents, stack>>

(* Mutant: a response nobody waits for yet is dropped. *)
ReadResponseDroppingOthers ==
    /\ Reads /\ pipe # <<>> /\ ~IsEvent(Head(pipe))
    /\ IF Waiting.kind = "wait" /\ Head(pipe).id = Waiting.id
       THEN PopWait
       ELSE UNCHANGED <<outer, inner>>
    /\ pipe' = Tail(pipe)
    /\ UNCHANGED <<browser, nextId, pendingResponses, pendingEvents, handling, open,
                   gate, result>>

ReadResponse ==
    /\ Reads /\ pipe # <<>> /\ ~IsEvent(Head(pipe))
    /\ LET id == Head(pipe).id IN
       IF Waiting.kind = "wait" /\ id = Waiting.id
       THEN PopWait /\ UNCHANGED pendingResponses
       ELSE /\ pendingResponses' = pendingResponses \cup {id}
            /\ UNCHANGED <<outer, inner>>
    /\ pipe' = Tail(pipe)
    /\ UNCHANGED <<browser, nextId, pendingEvents, handling, open, gate, result>>

ReadEvent ==
    /\ Reads /\ pipe # <<>> /\ IsEvent(Head(pipe))
    /\ LET e == Head(pipe).event IN
       IF handling # NoEvent
       THEN pendingEvents' = Append(pendingEvents, e) /\ UNCHANGED stack
       ELSE Dispatch(e) /\ UNCHANGED pendingEvents
    /\ pipe' = Tail(pipe)
    /\ UNCHANGED <<browser, nextId, pendingResponses, gate, result>>

(* next_message_optional gives up at the deadline; bytes it has not read   *)
(* from the pipe yet do not count.                                         *)
TimeOut ==
    /\ Reads /\ Waiting.kind = "wait" /\ Waiting.left = 0
    /\ result' = "timedOut"
    /\ UNCHANGED <<browser, pipe, nextId, pendingResponses, pendingEvents, stack, gate>>

PumpReturns ==
    /\ Reads /\ Waiting.kind = "pump" /\ Waiting.left = 0
    /\ PopWait
    /\ UNCHANGED <<browser, pipe, nextId, pendingResponses, pendingEvents,
                   handling, open, gate, result>>

(***************************************************************************)
(* The main loop between two waits: it serves a due deadline itself, sends *)
(* a command and waits for it, or pumps until the soonest deadline.  It may*)
(* enter either wait with a deadline already due (run_session does).       *)
(***************************************************************************)
MainRuns == result = "running" /\ handling = NoEvent /\ outer = NoWait

MainServesGate ==
    /\ MainRuns /\ GateDue
    /\ \/ gate' = NoGate /\ UNCHANGED result
       \/ result' = "failed" /\ UNCHANGED gate
    /\ UNCHANGED <<browser, pipe, nextId, pendingResponses, pendingEvents, stack>>

SendCommand ==
    /\ MainRuns /\ nextId \in Ids
    /\ nextId' = nextId + 1
    /\ outer' = WaitFor(nextId)
    /\ UNCHANGED <<browser, pipe, pendingResponses, pendingEvents, inner, handling,
                   open, gate, result>>

(* Mutant: the pump sleeps until its own deadline, whatever the gates say. *)
PumpEventPastGates ==
    /\ MainRuns
    /\ outer' = PumpFor(PumpTimeout)
    /\ UNCHANGED <<browser, pipe, nextId, pendingResponses, pendingEvents, inner,
                   handling, open, gate, result>>

PumpEvent ==
    /\ MainRuns
    /\ outer' = PumpFor(IF gate.on /\ gate.left < PumpTimeout
                        THEN gate.left ELSE PumpTimeout)
    /\ UNCHANGED <<browser, pipe, nextId, pendingResponses, pendingEvents, inner,
                   handling, open, gate, result>>

(***************************************************************************)
(* A handler between two waits: it starts commands, awaits what it started,*)
(* sets or clears its deadline, and returns.                               *)
(***************************************************************************)
HandlerRuns == result = "running" /\ handling # NoEvent /\ inner = NoWait

StartCommand ==
    /\ HandlerRuns /\ nextId \in Ids
    /\ nextId' = nextId + 1
    /\ open' = open \cup {nextId}
    /\ UNCHANGED <<browser, pipe, pendingResponses, pendingEvents, outer, inner,
                   handling, gate, result>>

WaitResponse ==
    /\ HandlerRuns
    /\ \E id \in open : inner' = WaitFor(id) /\ open' = open \ {id}
    /\ UNCHANGED <<browser, pipe, nextId, pendingResponses, pendingEvents, outer,
                   handling, gate, result>>

SetGate ==
    /\ HandlerRuns
    /\ gate' \in {NoGate} \cup {GateIn(t) : t \in GateTimeouts}
    /\ UNCHANGED <<browser, pipe, nextId, pendingResponses, pendingEvents, stack, result>>

HandlerReturns ==
    /\ HandlerRuns /\ open = {}
    /\ handling' = NoEvent
    /\ outer' = IF outer.kind = "pump" THEN NoWait ELSE outer
    /\ UNCHANGED <<browser, pipe, nextId, pendingResponses, pendingEvents, inner, open,
                   gate, result>>

HandlerFails ==
    /\ HandlerRuns
    /\ result' = "failed"
    /\ UNCHANGED <<browser, pipe, nextId, pendingResponses, pendingEvents, stack, gate>>

(***************************************************************************)
(* The browser: it sends events and answers commands, in any order.        *)
(***************************************************************************)
SendEvent ==
    /\ sent < MaxEvents
    /\ sent' = sent + 1
    /\ pipe' = Append(pipe, [event |-> sent'])
    /\ UNCHANGED <<answered, inTime, nextId, pendingResponses, pendingEvents, stack,
                   gate, result>>

(* A command's deadline starts with its wait; it has passed when no tick   *)
(* is left of the frame that waits for it.                                 *)
Expired(id) == \E w \in {outer, inner} : w.kind = "wait" /\ w.id = id /\ w.left = 0

AnswerCommand ==
    /\ \E id \in Ids \ answered :
        /\ id < nextId
        /\ answered' = answered \cup {id}
        /\ inTime' = IF Expired(id) THEN inTime ELSE inTime \cup {id}
        /\ pipe' = Append(pipe, [id |-> id])
    /\ UNCHANGED <<sent, nextId, pendingResponses, pendingEvents, stack, gate, result>>

(* Time passes for every deadline while the thread blocks; the remaining   *)
(* time saturates at zero.                                                 *)
Elapse(left) == IF left = 0 THEN 0 ELSE left - 1
After(w) == IF w.kind = "none" THEN w ELSE [w EXCEPT !.left = Elapse(@)]

Tick ==
    /\ Reads /\ pipe = <<>> /\ Waiting.left > 0
    /\ outer' = After(outer) /\ inner' = After(inner)
    /\ gate' = IF gate.on THEN GateIn(Elapse(gate.left)) ELSE gate
    /\ UNCHANGED <<browser, pipe, nextId, pendingResponses, pendingEvents, handling,
                   open, result>>

Ended == result # "running" /\ UNCHANGED vars

Main == MainServesGate \/ SendCommand \/ PumpEvent
Handler == StartCommand \/ WaitResponse \/ SetGate \/ HandlerReturns \/ HandlerFails
Wait == \/ TakeStored \/ DispatchQueued \/ ServeGate \/ ReadResponse \/ ReadEvent
        \/ TimeOut \/ PumpReturns

Next == Main \/ Handler \/ Wait \/ SendEvent \/ AnswerCommand \/ Tick \/ Ended

Spec == Init /\ [][Next]_vars

-----------------------------------------------------------------------------
(* The events among some messages. *)
EventsIn(messages) ==
    FlattenSeq([i \in DOMAIN messages |->
                    IF IsEvent(messages[i]) THEN <<messages[i].event>> ELSE <<>>])

(* The connection implements the mailbox: an undelivered event is one that *)
(* was set aside, or one still in the pipe behind them.                    *)
Mailbox == INSTANCE EventMailbox
             WITH inbox <- pendingEvents \o EventsIn(pipe), current <- handling

(* Every event reaches the handler, once, in the order the browser sent    *)
(* them, and never from inside the handler of another one, across the      *)
(* queue of set-aside events and the pipe and both callers that drain them.*)
EventsInOrder == Mailbox!Spec

(* A response is never lost: what the browser answered is in the pipe, set *)
(* aside, or was taken by the one wait that wanted it; and a wait never    *)
(* blocks for a response that was already taken or dropped.                *)
InPipe(id) == \E i \in DOMAIN pipe : pipe[i] = [id |-> id]

ResponsesAreKept ==
    /\ \A w \in {outer, inner} : w.kind = "wait" /\ w.id \in answered =>
          InPipe(w.id) \/ w.id \in pendingResponses
    /\ \A id \in open \cap answered : InPipe(id) \/ id \in pendingResponses

(* A command that was answered before its deadline is never reported as    *)
(* timed out, however long the handlers that ran during its wait took.     *)
AnsweredInTimeIsSeen ==
    result = "timedOut" => Waiting.id \notin inTime

(* No deadline is slept through: whenever the thread blocks, it wakes by   *)
(* the handler's deadline, unless its own command times out before that.   *)
GateIsNotSleptThrough ==
    [][Tick => ~GateDue]_vars
=============================================================================
