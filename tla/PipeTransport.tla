---------------------------- MODULE PipeTransport ----------------------------
(***************************************************************************)
(* The pipe transport of platform/mod.rs over the NativePipe of either     *)
(* system: NUL framing across arbitrary reads, the read loop with its poll *)
(* interval, blocking writes, and the grace an app gets to exit when its   *)
(* pipe fails, so that its exit code is reported rather than the failure.  *)
(*                                                                         *)
(* A payload byte is the number of the frame it belongs to, so that a byte *)
(* in the wrong frame shows.  Durations are counted in ticks, which pass   *)
(* only while the thread sleeps or polls.                                  *)
(***************************************************************************)
EXTENDS Integers, Sequences

CONSTANTS MaxFrames,    \* bound: frames the browser writes
          MaxLength,    \* bound: payload bytes of a frame
          Garbled,      \* the frames that are not UTF-8
          Chunk,        \* the most bytes one read returns
          Poll,         \* POLL_INTERVAL
          Grace,        \* APP_SHUTDOWN_GRACE
          Deadlines,    \* how long a caller may wait for a message
          Capacity,     \* how many bytes the outgoing pipe holds
          MaxSends,     \* bound: commands sent
          Payload       \* bytes of a command's frame, its NUL included

ASSUME DurationsAssumption == /\ Poll \in Nat \ {0} /\ Grace \in Nat
                              /\ Deadlines \subseteq Nat
ASSUME SizesAssumption == /\ MaxFrames \in Nat /\ MaxLength \in Nat
                          /\ Chunk \in Nat \ {0} /\ Capacity \in Nat \ {0}
                          /\ MaxSends \in Nat /\ Payload \in Nat \ {0}
ASSUME GarbledAssumption == Garbled \subseteq 1 .. MaxFrames

Nul == 0
Bytes == 0 .. MaxFrames

VARIABLES written,      \* history: the payloads the browser wrote
          stream,       \* bytes in the pipe from the browser
          closed,       \* the browser's end is closed
          app,          \* the app process; a hidden exit has the code of a live one
          pending,      \* bytes read and not yet taken
          searchStart,  \* pending_search_start
          received,     \* history: the payloads handed to the caller
          pc,           \* where the call is
          required,     \* next_message, rather than next_message_optional
          left,         \* ticks until the caller's deadline, or the grace, ends
          nap,          \* ticks left of the current poll or sleep
          unsent,       \* bytes write_all has yet to write
          outgoing,     \* bytes in the pipe to the browser
          sends,        \* commands sent so far
          result,       \* how the run ended
          sinceExit     \* history: ticks a call has run on after the app exited

vars == <<written, stream, closed, app, pending, searchStart, received, pc,
          required, left, nap, unsent, outgoing, sends, result, sinceExit>>
browser == <<written, stream, closed, app>>
buffer  == <<pending, searchStart, received>>
clock   == <<left, nap, sinceExit>>
writing == <<unsent, outgoing, sends>>

Places == {"idle", "take", "exit", "poll", "read", "write", "grace", "sleep"}

TypeOK ==
    /\ written \in Seq(Seq(Bytes)) /\ stream \in Seq(Bytes)
    /\ closed \in BOOLEAN /\ app \in {"running", "exited", "hidden"}
    /\ pending \in Seq(Bytes) /\ searchStart \in Nat
    /\ received \in Seq(Seq(Bytes))
    /\ pc \in Places /\ required \in BOOLEAN
    /\ left \in Nat /\ nap \in Nat
    /\ unsent \in 0 .. Payload /\ outgoing \in 0 .. Capacity /\ sends \in 0 .. MaxSends
    /\ result \in {"running", "appExited", "transportError", "notUtf8"}
    /\ sinceExit \in Nat

Init ==
    /\ written = <<>> /\ stream = <<>> /\ closed = FALSE /\ app = "running"
    /\ pending = <<>> /\ searchStart = 0 /\ received = <<>>
    /\ pc = "idle" /\ required = FALSE /\ left = 0 /\ nap = 0
    /\ unsent = 0 /\ outgoing = 0 /\ sends = 0
    /\ result = "running" /\ sinceExit = 0

Running(place) == result = "running" /\ pc = place
Goto(place) == pc' = place
End(r) == result' = r /\ pc' = "idle"

Lesser(a, b) == IF a < b THEN a ELSE b
(* The first bytes of a sequence, and the rest. *)
Front(s, n) == SubSeq(s, 1, n)
Rest(s, n)  == SubSeq(s, n + 1, Len(s))

(***************************************************************************)
(* next_message and next_message_optional.                                 *)
(***************************************************************************)
NextMessage ==
    /\ Running("idle")
    /\ required' \in BOOLEAN /\ left' \in Deadlines /\ sinceExit' = 0
    /\ Goto("take")
    /\ UNCHANGED <<browser, buffer, nap, writing, result>>

(* take_pending_message: the first NUL at or after search_start ends the   *)
(* message; without one, the search need not start over.                   *)
Unsearched == searchStart + 1 .. Len(pending)
FirstNul == CHOOSE i \in Unsearched :
                pending[i] = Nul /\ \A j \in Unsearched : j < i => pending[j] # Nul

(* Mutant: search_start is kept when a message is removed. *)
TakeKeepingSearchStart ==
    /\ \E i \in Unsearched : pending[i] = Nul
    /\ pending' = Rest(pending, FirstNul)
    /\ UNCHANGED searchStart
    /\ IF FirstNul > 1 /\ pending[1] \in Garbled
       THEN End("notUtf8") /\ UNCHANGED received
       ELSE /\ received' = Append(received, Front(pending, FirstNul - 1))
            /\ Goto("idle") /\ UNCHANGED result

(* Mutant: the message ends where the search started over. *)
TakeFromSearchStart ==
    /\ \E i \in Unsearched : pending[i] = Nul
    /\ pending' = Rest(pending, FirstNul)
    /\ searchStart' = 0
    /\ IF FirstNul > 1 /\ pending[1] \in Garbled
       THEN End("notUtf8") /\ UNCHANGED received
       ELSE /\ received' = Append(received, SubSeq(pending, searchStart + 1, FirstNul - 1))
            /\ Goto("idle") /\ UNCHANGED result

TakeMessage ==
    /\ \E i \in Unsearched : pending[i] = Nul
    /\ pending' = Rest(pending, FirstNul)
    /\ searchStart' = 0
    /\ IF FirstNul > 1 /\ pending[1] \in Garbled
       THEN End("notUtf8") /\ UNCHANGED received
       ELSE /\ received' = Append(received, Front(pending, FirstNul - 1))
            /\ Goto("idle") /\ UNCHANGED result

TakePendingMessage ==
    /\ Running("take")
    /\ \/ TakeMessage
       \/ /\ \A i \in Unsearched : pending[i] # Nul
          /\ searchStart' = Len(pending)
          /\ Goto("exit") /\ UNCHANGED <<pending, received, result>>
    /\ UNCHANGED <<browser, required, clock, writing>>

(* transport_failure: wait_for_exit gets the whole grace. *)
FailTransport == pc' = "grace" /\ left' = Grace

(* wait_readable returns at once when there is something to be told. *)
PollTime == IF stream # <<>> \/ closed THEN 0 ELSE Lesser(left, Poll)

(* Mutant: one poll lasts until the caller's deadline. *)
CheckExitPollingOnce ==
    /\ Running("exit")
    /\ IF app = "exited"
       THEN End("appExited") /\ UNCHANGED <<left, nap>>
       ELSE /\ UNCHANGED result
            /\ IF left > 0
               THEN nap' = (IF stream # <<>> \/ closed THEN 0 ELSE left) /\ Goto("poll") /\ UNCHANGED left
               ELSE /\ UNCHANGED nap
                    /\ IF required THEN FailTransport ELSE Goto("idle") /\ UNCHANGED left
    /\ UNCHANGED <<browser, buffer, required, sinceExit, writing>>

(* Mutant: only a quiet poll ends at the deadline, never a late one. *)
CheckExitWithoutDeadline ==
    /\ Running("exit")
    /\ IF app = "exited"
       THEN End("appExited") /\ UNCHANGED <<left, nap>>
       ELSE nap' = PollTime /\ Goto("poll") /\ UNCHANGED <<left, result>>
    /\ UNCHANGED <<browser, buffer, required, sinceExit, writing>>

(* The exit code, then the deadline, then at most POLL_INTERVAL of waiting.*)
CheckExit ==
    /\ Running("exit")
    /\ IF app = "exited"
       THEN End("appExited") /\ UNCHANGED <<left, nap>>
       ELSE /\ UNCHANGED result
            /\ IF left > 0
               THEN nap' = PollTime /\ Goto("poll") /\ UNCHANGED left
               ELSE /\ UNCHANGED nap
                    /\ IF required THEN FailTransport ELSE Goto("idle") /\ UNCHANGED left
    /\ UNCHANGED <<browser, buffer, required, sinceExit, writing>>

(* wait_readable.  macOS wakes as soon as there is something to read or the*)
(* other end is closed; Windows may sleep its whole timeout first.         *)
WaitReadable ==
    /\ Running("poll")
    /\ \/ (stream # <<>> \/ closed) /\ Goto("read")
       \/ stream = <<>> /\ ~closed /\ nap = 0 /\ Goto("take")
    /\ UNCHANGED <<browser, buffer, required, clock, writing, result>>

(* A read of nothing from a closed pipe is the end of the stream (Windows  *)
(* reports it as an error of the poll or of the read).                     *)
Read ==
    /\ Running("read")
    /\ \/ \E n \in 1 .. Lesser(Chunk, Len(stream)) :
            /\ pending' = pending \o Front(stream, n)
            /\ stream' = Rest(stream, n)
            /\ Goto("take") /\ UNCHANGED left
       \/ stream = <<>> /\ FailTransport /\ UNCHANGED <<pending, stream>>
    /\ UNCHANGED <<written, closed, app, searchStart, received, required, nap,
                   sinceExit, writing, result>>

(***************************************************************************)
(* send: write_all blocks until every byte is in the pipe.                 *)
(***************************************************************************)
Send ==
    /\ Running("idle") /\ sends < MaxSends
    /\ sends' = sends + 1 /\ unsent' = Payload
    /\ Goto("write")
    /\ UNCHANGED <<browser, buffer, required, clock, outgoing, result>>

Write ==
    /\ Running("write")
    /\ \/ /\ closed /\ FailTransport /\ UNCHANGED <<unsent, outgoing>>
       \/ /\ ~closed /\ unsent > 0
          /\ \E n \in 1 .. Lesser(unsent, Capacity - outgoing) :
                outgoing' = outgoing + n /\ unsent' = unsent - n
          /\ UNCHANGED <<pc, left>>
       \/ unsent = 0 /\ Goto("idle") /\ UNCHANGED <<unsent, outgoing, left>>
    /\ UNCHANGED <<browser, buffer, required, nap, sinceExit, sends, result>>

(***************************************************************************)
(* transport_error: wait_for_exit.                                         *)
(***************************************************************************)
(* Mutant: the end of the grace is looked at before the exit code. *)
WaitForExitDeadlineFirst ==
    /\ Running("grace")
    /\ \/ left = 0 /\ End("transportError") /\ UNCHANGED nap
       \/ left > 0 /\ app = "exited" /\ End("appExited") /\ UNCHANGED nap
       \/ /\ left > 0 /\ app # "exited"
          /\ nap' = Lesser(left, Poll) /\ Goto("sleep") /\ UNCHANGED result
    /\ UNCHANGED <<browser, buffer, required, left, sinceExit, writing>>

WaitForExit ==
    /\ Running("grace")
    /\ \/ app = "exited" /\ End("appExited") /\ UNCHANGED nap
       \/ app # "exited" /\ left = 0 /\ End("transportError") /\ UNCHANGED nap
       \/ /\ app # "exited" /\ left > 0
          /\ nap' = Lesser(left, Poll) /\ Goto("sleep") /\ UNCHANGED result
    /\ UNCHANGED <<browser, buffer, required, left, sinceExit, writing>>

WakeUp ==
    /\ Running("sleep") /\ nap = 0
    /\ Goto("grace")
    /\ UNCHANGED <<browser, buffer, required, clock, writing, result>>

(***************************************************************************)
(* The browser, the app process, and time.                                 *)
(***************************************************************************)
WriteFrame ==
    /\ ~closed /\ Len(written) < MaxFrames
    /\ \E n \in 0 .. MaxLength :
         LET payload == [i \in 1 .. n |-> Len(written) + 1] IN
         /\ written' = Append(written, payload)
         /\ stream' = stream \o payload \o <<Nul>>
    /\ UNCHANGED <<closed, app, buffer, pc, required, clock, writing, result>>

BrowserReads ==
    /\ outgoing > 0 /\ ~closed
    /\ outgoing' = outgoing - 1
    /\ UNCHANGED <<browser, buffer, pc, required, clock, unsent, sends, result>>

ClosePipe ==
    /\ ~closed /\ closed' = TRUE
    /\ UNCHANGED <<written, stream, app, buffer, pc, required, clock, writing, result>>

(* An app that exits closes its ends of the pipe.  GetExitCodeProcess tells*)
(* of an exit with STILL_ACTIVE (259) what it tells of a running process.  *)
AppExits ==
    /\ result = "running" /\ app = "running"
    /\ app' \in {"exited", "hidden"} /\ closed' = TRUE
    /\ UNCHANGED <<written, stream, buffer, pc, required, clock, writing, result>>

Tick ==
    /\ result = "running" /\ pc \in {"poll", "sleep"} /\ nap > 0
    /\ nap' = nap - 1 /\ left' = left - 1
    /\ sinceExit' = IF app = "running" THEN sinceExit ELSE sinceExit + 1
    /\ UNCHANGED <<browser, buffer, pc, required, writing, result>>

Ended == result # "running" /\ UNCHANGED vars

Launcher == \/ TakePendingMessage \/ CheckExit \/ WaitReadable \/ Read
            \/ Write \/ WaitForExit \/ WakeUp

Next == \/ NextMessage \/ Send \/ Launcher
        \/ WriteFrame \/ BrowserReads \/ ClosePipe \/ AppExits \/ Tick \/ Ended

Spec == Init /\ [][Next]_vars

(* The launcher's thread runs, time passes, and the browser reads what it  *)
(* is sent: write_all has no deadline of its own.                          *)
Fairness == WF_vars(Launcher) /\ WF_vars(Tick) /\ WF_vars(BrowserReads)

FairSpec == Spec /\ Fairness

-----------------------------------------------------------------------------
Queue == INSTANCE FrameQueue
           WITH Frames <- UNION {[1 .. n -> Bytes] : n \in 0 .. MaxLength}

(* The caller is handed the browser's frames whole, once each, in order,   *)
(* however the bytes were split between reads (take_pending_message).      *)
FramesInOrder == Queue!Spec

(* Bytes before search_start were searched: no frame ends among them, and  *)
(* the slice that is searched next lies inside the buffer (an index past   *)
(* its end would panic).                                                   *)
SearchIsSound ==
    /\ searchStart <= Len(pending)
    /\ \A i \in 1 .. searchStart : pending[i] # Nul

(* An exit is noticed within one poll interval of a call, whatever the     *)
(* caller's deadline is; one that looks like a running app is noticed by   *)
(* the pipe it closes, and ends the call after the grace.                  *)
ExitNoticedInTime ==
    sinceExit <= IF app = "hidden" THEN Poll + Grace ELSE Poll

(* A transport failure is reported as such only if no exit could be told   *)
(* by the end of the grace: one up to its last moment is reported by its   *)
(* code.                                                                   *)
ExitOutranksFailure == result = "transportError" => app # "exited"

(* Every call returns: with a message, at its deadline, with all bytes     *)
(* written, or by ending the run.                                          *)
CallsReturn == pc # "idle" ~> pc = "idle"
=============================================================================
