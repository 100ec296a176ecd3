------------------------- MODULE PipeTransportProofs -------------------------
(***************************************************************************)
(* Theorems about PipeTransport, for frames, reads and deadlines of any    *)
(* size.                                                                   *)
(***************************************************************************)
EXTENDS PipeTransport, WellFoundedInduction, SequenceTheorems, TLAPS

(* What the search needs to know of the buffers. *)
BufferInv == /\ pending \in Seq(Bytes) /\ stream \in Seq(Bytes)
             /\ written \in Seq(Seq(Bytes))
             /\ searchStart \in Nat
             /\ SearchIsSound

(* A set of numbers that is not empty has a least one. *)
LEMMA LeastNumber ==
    ASSUME NEW T, T \subseteq Nat, T # {}
    PROVE  \E x \in T : \A y \in T : ~(y < x)
<1> DEFINE R == OpToRel(<, Nat)
<1>1. IsWellFoundedOn(R, Nat)
  BY NatLessThanWellFounded
<1>2. PICK x \in T : \A y \in T : ~(<<y, x>> \in R)
  <2> HIDE DEF R
  <2> QED
    BY <1>1, WFMin
<1>3. \A y \in T : y < x => <<y, x>> \in R
  BY DEF OpToRel
<1> QED
  BY <1>2, <1>3

(* The first and the other bytes of a sequence are sequences of bytes. *)
LEMMA PartsType ==
    ASSUME NEW s \in Seq(Bytes), NEW n \in 0 .. Len(s)
    PROVE  /\ Front(s, n) \in Seq(Bytes) /\ Len(Front(s, n)) = n
           /\ Rest(s, n) \in Seq(Bytes)
BY DEF Front, Rest

(* Bytes that are added behind leave what was searched where it was. *)
LEMMA SearchedStays ==
    ASSUME SearchIsSound, pending \in Seq(Bytes), searchStart \in Nat,
           NEW more \in Seq(Bytes), pending' = pending \o more, searchStart' = searchStart
    PROVE  SearchIsSound'
<1>1. Len(pending') = Len(pending) + Len(more)
  OBVIOUS
<1>2. \A i \in 1 .. Len(pending) : pending'[i] = pending[i]
  OBVIOUS
<1> QED
  BY <1>1, <1>2 DEF SearchIsSound

(* Where the search finds a delimiter, it finds the first one. *)
LEMMA FirstNulInside ==
    ASSUME BufferInv, \E i \in Unsearched : pending[i] = Nul
    PROVE  FirstNul \in 1 .. Len(pending)
<1>1. Unsearched \subseteq 1 .. Len(pending)
  BY DEF Unsearched, BufferInv
<1>2. \E i \in Unsearched : pending[i] = Nul /\ \A j \in Unsearched : j < i => pending[j] # Nul
  <2> DEFINE Nuls == {i \in Unsearched : pending[i] = Nul}
  <2>1. Nuls \subseteq Nat /\ Nuls # {}
    <3>1. Len(pending) \in Nat
      BY DEF BufferInv
    <3>2. 1 .. Len(pending) \subseteq Nat
      BY <3>1
    <3> QED
      BY <1>1, <3>2
  <2>2. PICK i \in Nuls : \A j \in Nuls : ~(j < i)
    BY <2>1, LeastNumber
  <2> QED
    BY <2>2
<1> QED
  BY <1>1, <1>2 DEF FirstNul

LEMMA TakeStep == BufferInv /\ TakePendingMessage => BufferInv'
<1> SUFFICES ASSUME BufferInv, TakePendingMessage PROVE BufferInv'
  OBVIOUS
<1>0. UNCHANGED <<written, stream>>
  BY DEF TakePendingMessage, browser
<1>1. CASE TakeMessage
  <2>1. FirstNul \in 1 .. Len(pending)
    BY <1>1, FirstNulInside DEF TakeMessage
  <2>2. pending' = Rest(pending, FirstNul) /\ searchStart' = 0
    BY <1>1 DEF TakeMessage
  <2>3. pending' \in Seq(Bytes)
    BY <2>1, <2>2, PartsType DEF BufferInv
  <2> QED
    BY <1>0, <2>2, <2>3 DEF BufferInv, SearchIsSound
<1>2. CASE ~TakeMessage
  <2>1. /\ \A i \in Unsearched : pending[i] # Nul
        /\ searchStart' = Len(pending) /\ pending' = pending
    BY <1>2 DEF TakePendingMessage
  <2> QED
    BY <1>0, <2>1 DEF BufferInv, SearchIsSound, Unsearched
<1> QED
  BY <1>1, <1>2

LEMMA BufferStep == BufferInv /\ [Next]_vars => BufferInv'
<1> SUFFICES ASSUME BufferInv, [Next]_vars PROVE BufferInv'
  OBVIOUS
<1> USE DEF browser, buffer, clock, writing
<1>1. CASE TakePendingMessage
  BY <1>1, TakeStep
<1>2. CASE Read
  <2>1. CASE \E n \in 1 .. Lesser(Chunk, Len(stream)) :
               /\ pending' = pending \o Front(stream, n)
               /\ stream' = Rest(stream, n)
    <3>1. PICK n \in 1 .. Lesser(Chunk, Len(stream)) :
               /\ pending' = pending \o Front(stream, n)
               /\ stream' = Rest(stream, n)
      BY <2>1
    <3>2. n \in 0 .. Len(stream)
      BY SizesAssumption DEF Lesser, BufferInv
    <3>3. Front(stream, n) \in Seq(Bytes) /\ Rest(stream, n) \in Seq(Bytes)
      BY <3>2, PartsType DEF BufferInv
    <3>4. pending' \in Seq(Bytes) /\ searchStart' = searchStart /\ written' = written
      BY <1>2, <3>1, <3>3 DEF Read, BufferInv
    <3>5. SearchIsSound'
      BY <3>1, <3>3, <3>4, SearchedStays DEF BufferInv
    <3> QED
      BY <3>1, <3>3, <3>4, <3>5 DEF BufferInv
  <2>2. CASE UNCHANGED <<pending, stream>>
    BY <1>2, <2>2 DEF Read, BufferInv, SearchIsSound
  <2> QED
    BY <1>2, <2>1, <2>2 DEF Read
<1>3. CASE WriteFrame
  <2>1. PICK n \in 0 .. MaxLength :
          LET payload == [i \in 1 .. n |-> Len(written) + 1]
          IN  /\ written' = Append(written, payload)
              /\ stream' = stream \o payload \o <<Nul>>
    BY <1>3 DEF WriteFrame
  <2> DEFINE payload == [i \in 1 .. n |-> Len(written) + 1]
  <2>2. Len(written) + 1 \in Bytes /\ Nul \in Bytes
    BY <1>3, SizesAssumption DEF WriteFrame, Bytes, Nul, BufferInv
  <2>3. n \in Nat
    BY SizesAssumption
  <2>4. payload \in Seq(Bytes) /\ <<Nul>> \in Seq(Bytes)
    <3>1. payload \in [1 .. n -> Bytes]
      BY <2>2
    <3>2. [1 .. n -> Bytes] \subseteq Seq(Bytes)
      BY <2>3
    <3> QED
      BY <2>2, <3>1, <3>2
  <2>5. stream \o payload \o <<Nul>> \in Seq(Bytes)
    BY <2>4 DEF BufferInv
  <2>6. written' \in Seq(Seq(Bytes)) /\ stream' \in Seq(Bytes)
    BY <2>1, <2>4, <2>5 DEF BufferInv
  <2>7. UNCHANGED <<pending, searchStart>>
    BY <1>3 DEF WriteFrame
  <2> QED
    BY <2>6, <2>7 DEF BufferInv, SearchIsSound
<1>4. CASE NextMessage \/ Send \/ CheckExit \/ WaitReadable \/ Write \/ WaitForExit \/ WakeUp
  BY <1>4 DEF NextMessage, Send, CheckExit, WaitReadable, Write, WaitForExit, WakeUp,
              BufferInv, SearchIsSound
<1>5. CASE BrowserReads \/ ClosePipe \/ AppExits \/ Tick \/ Ended \/ UNCHANGED vars
  BY <1>5 DEF BrowserReads, ClosePipe, AppExits, Tick, Ended, vars, BufferInv, SearchIsSound
<1> QED
  BY <1>1, <1>2, <1>3, <1>4, <1>5 DEF Next, Launcher

(* Nothing before search_start ends a message, and the slice that is       *)
(* searched next lies inside the buffer, whatever was read in what chunks. *)
THEOREM SearchSound == Spec => []SearchIsSound
<1>1. Init => BufferInv
  BY DEF Init, BufferInv, SearchIsSound
<1>2. BufferInv => SearchIsSound
  BY DEF BufferInv
<1> QED
  BY <1>1, <1>2, BufferStep, PTL DEF Spec

(* An exit that can be told is reported by its code and not as the failure *)
(* of the pipe that it caused.                                             *)
THEOREM ExitOutranks == Spec => []ExitOutranksFailure
<1>1. Init => ExitOutranksFailure
  BY DEF Init, ExitOutranksFailure
<1>2. ExitOutranksFailure /\ [Next]_vars => ExitOutranksFailure'
  <2> SUFFICES ASSUME ExitOutranksFailure, [Next]_vars PROVE ExitOutranksFailure'
    OBVIOUS
  <2> USE DEF ExitOutranksFailure, browser, buffer, clock, writing
  <2>1. CASE WaitForExit
    BY <2>1 DEF WaitForExit, End
  <2>2. CASE TakePendingMessage \/ CheckExit
    BY <2>2 DEF TakePendingMessage, TakeMessage, CheckExit, End
  <2>3. CASE NextMessage \/ Send \/ WaitReadable \/ Read \/ Write \/ WakeUp
    BY <2>3 DEF NextMessage, Send, WaitReadable, Read, Write, WakeUp
  <2>4. CASE WriteFrame \/ BrowserReads \/ ClosePipe \/ AppExits \/ Tick \/ Ended
             \/ UNCHANGED vars
    BY <2>4 DEF WriteFrame, BrowserReads, ClosePipe, AppExits, Tick, Ended, vars
  <2> QED
    BY <2>1, <2>2, <2>3, <2>4 DEF Next, Launcher
<1> QED
  BY <1>1, <1>2, PTL DEF Spec

(***************************************************************************)
(* How long a call runs on after the app has ended.  An exit closes the    *)
(* pipe: one that can be told leaves the rest of the current nap at most,  *)
(* and one that cannot leaves no further nap before the grace.             *)
(***************************************************************************)
Napping == pc \in {"poll", "sleep"}
InGrace == pc \in {"grace", "sleep"}

NapInv ==
    /\ left \in Nat /\ nap \in Nat /\ sinceExit \in Nat
    /\ Napping => nap <= left /\ nap <= Poll
    /\ InGrace => left <= Grace

NoticeInv ==
    /\ app \in {"running", "exited", "hidden"}
    /\ app = "running" => sinceExit = 0
    /\ app # "running" => closed
    /\ app = "exited" => sinceExit <= Poll /\ (Napping => sinceExit + nap <= Poll)
    /\ app = "hidden" => /\ sinceExit <= Poll + Grace
                         /\ InGrace => sinceExit + left <= Poll + Grace
                         /\ ~InGrace /\ result = "running" => sinceExit <= Poll
                         /\ pc = "poll" => sinceExit + nap <= Poll

LEMMA LesserIs == \A a, b \in Nat : Lesser(a, b) \in Nat /\ Lesser(a, b) <= a /\ Lesser(a, b) <= b
BY DEF Lesser

LEMMA NapStep == NapInv /\ [Next]_vars => NapInv'
<1> SUFFICES ASSUME NapInv, [Next]_vars PROVE NapInv'
  OBVIOUS
<1> USE DurationsAssumption DEF NapInv, Napping, InGrace, clock, Goto, End, Running
<1>1. CASE NextMessage
  BY <1>1 DEF NextMessage
<1>2. CASE Send \/ WaitReadable \/ WakeUp
  BY <1>2 DEF Send, WaitReadable, WakeUp
<1>3. CASE TakePendingMessage
  <2>1. UNCHANGED clock /\ pc' \in {"idle", "exit"}
    BY <1>3 DEF TakePendingMessage, TakeMessage
  <2> QED
    BY <2>1
<1>4. CASE CheckExit
  <2>1. PollTime \in Nat /\ PollTime <= left /\ PollTime <= Poll
    BY LesserIs DEF PollTime
  <2>2. \/ pc' = "idle" /\ UNCHANGED clock
        \/ pc' = "poll" /\ nap' = PollTime /\ UNCHANGED <<left, sinceExit>>
        \/ pc' = "grace" /\ left' = Grace /\ UNCHANGED <<nap, sinceExit>>
    BY <1>4 DEF CheckExit, FailTransport
  <2> QED
    BY <2>1, <2>2
<1>5. CASE Read
  <2>1. UNCHANGED <<nap, sinceExit>>
    BY <1>5 DEF Read
  <2>2. (pc' = "take" /\ left' = left) \/ (pc' = "grace" /\ left' = Grace)
    BY <1>5 DEF Read, FailTransport
  <2> QED
    BY <2>1, <2>2
<1>6. CASE Write
  <2>1. UNCHANGED <<nap, sinceExit>> /\ pc = "write"
    BY <1>6 DEF Write, Running
  <2>2. (pc' \in {"write", "idle"} /\ left' = left) \/ (pc' = "grace" /\ left' = Grace)
    BY <1>6 DEF Write, Running, FailTransport
  <2> QED
    BY <2>1, <2>2
<1>7. CASE WaitForExit
  BY <1>7, LesserIs DEF WaitForExit, Running
<1>8. CASE WriteFrame \/ BrowserReads \/ ClosePipe \/ AppExits
  BY <1>8 DEF WriteFrame, BrowserReads, ClosePipe, AppExits
<1>9. CASE Tick
  BY <1>9 DEF Tick
<1>10. CASE Ended \/ UNCHANGED vars
  BY <1>10 DEF Ended, vars
<1> QED
  BY <1>1, <1>2, <1>3, <1>4, <1>5, <1>6, <1>7, <1>8, <1>9, <1>10 DEF Next, Launcher

LEMMA NoticeStep == NapInv /\ NoticeInv /\ [Next]_vars => NoticeInv'
<1> SUFFICES ASSUME NapInv, NoticeInv, [Next]_vars PROVE NoticeInv'
  OBVIOUS
<1> USE DurationsAssumption DEF NapInv, NoticeInv, Napping, InGrace, browser, clock, Goto, End, Running
<1>1. CASE NextMessage
  BY <1>1 DEF NextMessage
<1>2. CASE Send \/ WaitReadable \/ WakeUp
  BY <1>2 DEF Send, WaitReadable, WakeUp
<1>3. CASE TakePendingMessage
  <2>1. UNCHANGED <<app, closed, left, nap, sinceExit>> /\ pc' \in {"idle", "exit"}
        /\ pc = "take" /\ result = "running"
    BY <1>3 DEF TakePendingMessage, TakeMessage
  <2> QED
    BY <2>1
<1>4. CASE CheckExit
  <2>1. PollTime \in Nat /\ PollTime <= Poll /\ (closed => PollTime = 0)
    BY LesserIs DEF PollTime
  <2>2. UNCHANGED <<app, closed, sinceExit>> /\ pc = "exit" /\ result = "running"
    BY <1>4 DEF CheckExit
  <2>3. \/ pc' = "idle"
        \/ pc' = "poll" /\ nap' = PollTime /\ app # "exited"
        \/ pc' = "grace" /\ left' = Grace /\ app # "exited"
    BY <1>4 DEF CheckExit, FailTransport
  <2> QED
    BY <2>1, <2>2, <2>3
<1>5. CASE Read
  <2>1. UNCHANGED <<app, closed, nap, sinceExit, result>> /\ pc = "read" /\ result = "running"
    BY <1>5 DEF Read
  <2>2. (pc' = "take" /\ left' = left) \/ (pc' = "grace" /\ left' = Grace)
    BY <1>5 DEF Read, FailTransport
  <2> QED
    BY <2>1, <2>2
<1>6. CASE Write
  <2>1. UNCHANGED <<app, closed, nap, sinceExit, result>> /\ pc = "write" /\ result = "running"
    BY <1>6 DEF Write
  <2>2. (pc' \in {"write", "idle"} /\ left' = left) \/ (pc' = "grace" /\ left' = Grace)
    BY <1>6 DEF Write, FailTransport
  <2> QED
    BY <2>1, <2>2
<1>7. CASE WaitForExit
  BY <1>7, LesserIs DEF WaitForExit
<1>8. CASE WriteFrame \/ BrowserReads \/ ClosePipe
  BY <1>8 DEF WriteFrame, BrowserReads, ClosePipe
<1>9. CASE AppExits
  BY <1>9 DEF AppExits
<1>10. CASE Tick
  BY <1>10 DEF Tick
<1>11. CASE Ended \/ UNCHANGED vars
  BY <1>11 DEF Ended, vars
<1> QED
  BY <1>1, <1>2, <1>3, <1>4, <1>5, <1>6, <1>7, <1>8, <1>9, <1>10, <1>11 DEF Next, Launcher

(* However long its caller is prepared to wait, a call runs on for a poll  *)
(* interval at most after the app has exited; after an exit that looks     *)
(* like a running app, for the grace besides.                              *)
THEOREM ExitNoticed == Spec => []ExitNoticedInTime
<1>1. Init => NapInv /\ NoticeInv
  BY DurationsAssumption DEF Init, NapInv, NoticeInv, Napping, InGrace
<1>2. NapInv /\ NoticeInv => ExitNoticedInTime
  BY DurationsAssumption DEF NapInv, NoticeInv, ExitNoticedInTime
<1> QED
  BY <1>1, <1>2, NapStep, NoticeStep, PTL DEF Spec

(* The transport's state always has its type; in particular no clock of a  *)
(* call runs below zero.                                                   *)
THEOREM TransportType == Spec => []TypeOK
<1>1. Init => TypeOK /\ BufferInv /\ NapInv /\ NoticeInv
  <2>1. Init => TypeOK
    <3>1. <<>> \in Seq(Bytes) /\ <<>> \in Seq(Seq(Bytes))
      OBVIOUS
    <3>2. 0 \in 0 .. Payload /\ 0 \in 0 .. Capacity /\ 0 \in 0 .. MaxSends
      BY SizesAssumption
    <3>3. "idle" \in Places /\ 0 \in Nat
      BY DEF Places
    <3> QED
      BY <3>1, <3>2, <3>3 DEF Init, TypeOK
  <2>2. Init => BufferInv
    BY DEF Init, BufferInv, SearchIsSound
  <2>3. Init => NapInv /\ NoticeInv
    BY DurationsAssumption DEF Init, NapInv, NoticeInv, Napping, InGrace
  <2> QED
    BY <2>1, <2>2, <2>3
<1>2. TypeOK /\ BufferInv /\ BufferInv' /\ NapInv' /\ NoticeInv' /\ [Next]_vars => TypeOK'
  <2> SUFFICES ASSUME TypeOK, BufferInv, BufferInv', NapInv', NoticeInv', [Next]_vars PROVE TypeOK'
    OBVIOUS
  <2> DEFINE Rest1 == /\ closed \in BOOLEAN /\ received \in Seq(Seq(Bytes))
                      /\ pc \in Places /\ required \in BOOLEAN
                      /\ unsent \in 0 .. Payload /\ outgoing \in 0 .. Capacity
                      /\ sends \in 0 .. MaxSends
                      /\ result \in {"running", "appExited", "transportError", "notUtf8"}
  <2>0. Rest1
    BY DEF TypeOK
  <2>1. Rest1'
    <3> USE SizesAssumption DEF Places, browser, buffer, clock, writing, Goto, End, Running
    <3>1. CASE NextMessage \/ Send \/ CheckExit \/ WaitReadable \/ WaitForExit \/ WakeUp
      BY <2>0, <3>1 DEF NextMessage, Send, CheckExit, WaitReadable, WaitForExit, WakeUp, FailTransport
    <3>2. CASE TakePendingMessage
      <4>1. CASE TakeMessage
        <5>1. \E i \in Unsearched : pending[i] = Nul
          BY <4>1 DEF TakeMessage
        <5>2. FirstNul \in 1 .. Len(pending)
          BY <5>1, FirstNulInside
        <5>3. Front(pending, FirstNul - 1) \in Seq(Bytes)
          BY <5>2, PartsType DEF BufferInv
        <5>4. received' \in {received, Append(received, Front(pending, FirstNul - 1))}
          BY <4>1 DEF TakeMessage
        <5>5. received' \in Seq(Seq(Bytes))
          BY <2>0, <5>3, <5>4, SMTT(30)
        <5>6. /\ pc' = "idle" /\ result' \in {result, "notUtf8"}
              /\ UNCHANGED <<closed, required, unsent, outgoing, sends>>
          BY <3>2, <4>1 DEF TakePendingMessage, TakeMessage
        <5> QED
          BY <2>0, <5>5, <5>6
      <4>2. CASE ~TakeMessage
        BY <2>0, <3>2, <4>2 DEF TakePendingMessage
      <4> QED
        BY <4>1, <4>2
    <3>3. CASE Read
      <4>1. UNCHANGED <<closed, received, required, unsent, outgoing, sends, result>>
            /\ pc' \in {"take", "grace"}
        BY <3>3 DEF Read, FailTransport
      <4> QED
        BY <2>0, <4>1
    <3>4. CASE Write
      BY <2>0, <3>4 DEF Write, FailTransport, Lesser
    <3>5. CASE WriteFrame \/ ClosePipe \/ AppExits \/ Tick
      <4>1. UNCHANGED <<received, pc, required, unsent, outgoing, sends, result>>
            /\ closed' \in {closed, TRUE}
        BY <3>5 DEF WriteFrame, ClosePipe, AppExits, Tick
      <4> QED
        BY <2>0, <4>1
    <3>6. CASE BrowserReads
      BY <2>0, <3>6 DEF BrowserReads
    <3>7. CASE Ended \/ UNCHANGED vars
      BY <2>0, <3>7 DEF Ended, vars
    <3> QED
      BY <3>1, <3>2, <3>3, <3>4, <3>5, <3>6, <3>7 DEF Next, Launcher
  <2> QED
    BY <2>1 DEF TypeOK, BufferInv, NapInv, NoticeInv
<1> QED
  BY <1>1, <1>2, BufferStep, NapStep, NoticeStep, PTL DEF Spec

(***************************************************************************)
(* Frames.  Where the frames that the caller has not been handed lie in    *)
(* the bytes that it has not taken: frame k ends with the at[k]-th.        *)
(***************************************************************************)
Laid(at, bytes, m, frames) ==
    /\ at \in [m .. Len(frames) -> Nat]
    /\ at[m] = 0 /\ at[Len(frames)] = Len(bytes)
    /\ \A j, k \in m .. Len(frames) : j <= k => at[j] <= at[k]
    /\ \A k \in m + 1 .. Len(frames) :
        /\ at[k] = at[k - 1] + Len(frames[k]) + 1
        /\ bytes[at[k]] = Nul
        /\ \A i \in 1 .. Len(frames[k]) : bytes[at[k - 1] + i] = frames[k][i]

(* The first bytes of a sequence, and those after them. *)
LEMMA CutBefore ==
    ASSUME NEW s \in Seq(Bytes), NEW e \in 0 .. Len(s)
    PROVE  LET q == SubSeq(s, 1, e)
           IN  q \in Seq(Bytes) /\ Len(q) = e /\ \A i \in 1 .. e : q[i] = s[i]
<1> DEFINE L == Len(s)
           q == SubSeq(s, 1, e)
<1>1. L \in Nat /\ e \in 0 .. L
  BY LenProperties
<1>2. \A i \in 1 .. L : s[i] \in Bytes
  BY ElementOfSeq
<1> HIDE DEF L
<1>3. e \in Int /\ 1 \in Int /\ \A i \in 1 .. e : s[i] \in Bytes
  BY <1>1, <1>2
<1>4. /\ q \in Seq(Bytes) /\ Len(q) = (IF 1 <= e THEN e - 1 + 1 ELSE 0)
      /\ \A i \in 1 .. e - 1 + 1 : q[i] = s[1 + i - 1]
  BY <1>3, SubSeqProperties
<1>5. e - 1 + 1 = e /\ \A i \in 1 .. e : 1 + i - 1 = i
  BY <1>1
<1> HIDE DEF q
<1>6. Len(q) = e /\ \A i \in 1 .. e : q[i] = s[i]
  BY <1>1, <1>4, <1>5
<1> QED
  BY <1>4, <1>6 DEF q

LEMMA CutAfter ==
    ASSUME NEW s \in Seq(Bytes), NEW e \in 0 .. Len(s)
    PROVE  LET q == SubSeq(s, e + 1, Len(s))
           IN  q \in Seq(Bytes) /\ Len(q) = Len(s) - e /\ \A i \in 1 .. Len(s) - e : q[i] = s[e + i]
<1> DEFINE L == Len(s)
           q == SubSeq(s, e + 1, L)
<1>1. L \in Nat /\ e \in 0 .. L
  BY LenProperties
<1>2. \A i \in 1 .. L : s[i] \in Bytes
  BY ElementOfSeq
<1> HIDE DEF L
<1>3. e + 1 \in Int /\ L \in Int /\ \A i \in e + 1 .. L : s[i] \in Bytes
  BY <1>1, <1>2
<1>4. /\ q \in Seq(Bytes) /\ Len(q) = (IF e + 1 <= L THEN L - (e + 1) + 1 ELSE 0)
      /\ \A i \in 1 .. L - (e + 1) + 1 : q[i] = s[e + 1 + i - 1]
  BY <1>3, SubSeqProperties
<1>5. L - (e + 1) + 1 = L - e /\ \A i \in 1 .. L - e : e + 1 + i - 1 = e + i
  BY <1>1
<1> HIDE DEF q
<1>6. Len(q) = L - e /\ \A i \in 1 .. L - e : q[i] = s[e + i]
  BY <1>1, <1>4, <1>5
<1> QED
  BY <1>4, <1>6 DEF q, L

(* A frame that ends by L lies inside, also once the first e bytes are gone. *)
LEMMA FrameLies ==
    ASSUME NEW p \in Nat, NEW q \in Nat, NEW f \in Nat, NEW e \in Nat, NEW L \in Nat,
           e <= q, p <= L, p = q + f + 1
    PROVE  /\ p - e = q - e + f + 1
           /\ p - e \in 1 .. L - e /\ e + (p - e) = p
           /\ \A i \in 1 .. f : q - e + i \in 1 .. L - e /\ e + (q - e + i) = q + i
OBVIOUS

NoNuls(frame) == \A i \in 1 .. Len(frame) : frame[i] # Nul

LEMMA FrameAdded ==
    ASSUME NEW bytes \in Seq(Bytes), NEW frames \in Seq(Seq(Bytes)), NEW m \in 0 .. Len(frames),
           NEW at, Laid(at, bytes, m, frames), NEW frame \in Seq(Bytes)
    PROVE  \E b : Laid(b, bytes \o frame \o <<Nul>>, m, Append(frames, frame))
<1> DEFINE L == Len(bytes)
           l == Len(frame)
           n == Len(frames)
           more == Append(frames, frame)
           all == bytes \o frame \o <<Nul>>
           b == [k \in m .. n + 1 |-> IF k = n + 1 THEN L + l + 1 ELSE at[k]]
<1>1. L \in Nat /\ l \in Nat /\ n \in Nat /\ m \in 0 .. n
  BY LenProperties
<1>2. /\ Len(more) = n + 1 /\ more[n + 1] = frame
      /\ \A k \in 1 .. n : more[k] = frames[k]
  BY AppendProperties
<1>3. /\ Len(all) = L + l + 1 /\ all[L + l + 1] = Nul
      /\ \A i \in 1 .. L : all[i] = bytes[i]
      /\ \A i \in 1 .. l : all[L + i] = frame[i]
  <2> DEFINE x == bytes \o frame
  <2>1. /\ x \in Seq(Bytes) /\ Len(x) = L + l
        /\ \A i \in 1 .. L + l : x[i] = IF i <= L THEN bytes[i] ELSE frame[i - L]
    BY ConcatProperties
  <2> HIDE DEF x
  <2>2. Nul \in Bytes
    BY SizesAssumption DEF Bytes, Nul
  <2>3. all = Append(x, Nul)
    BY <2>1, <2>2, AppendIsConcat DEF x
  <2> HIDE DEF all
  <2>4. /\ Len(all) = L + l + 1 /\ all[L + l + 1] = Nul
        /\ \A i \in 1 .. L + l : all[i] = x[i]
    BY <2>1, <2>2, <2>3, AppendProperties
  <2> HIDE DEF L, l
  <2>5. \A i \in 1 .. L : i \in 1 .. L + l /\ i <= L
    BY <1>1
  <2>6. \A i \in 1 .. l : L + i \in 1 .. L + l /\ ~(L + i <= L) /\ L + i - L = i
    BY <1>1
  <2>7. \A i \in 1 .. L : all[i] = bytes[i]
    BY <2>1, <2>4, <2>5
  <2>8. ASSUME NEW i \in 1 .. l PROVE all[L + i] = frame[i]
    <3> DEFINE p == L + i
    <3>1. p \in 1 .. L + l /\ ~(p <= L) /\ p - L = i
      BY <1>1
    <3> HIDE DEF p
    <3>2. x[p] = IF p <= L THEN bytes[p] ELSE frame[p - L]
      BY <2>1, <3>1
    <3>3. all[p] = frame[i]
      BY <2>4, <3>1, <3>2
    <3> QED
      BY <3>3 DEF p
  <2> QED
    BY <2>4, <2>7, <2>8
<1>4. /\ at \in [m .. n -> Nat]
      /\ at[m] = 0 /\ at[n] = L
      /\ \A j, k \in m .. n : j <= k => at[j] <= at[k]
      /\ \A k \in m + 1 .. n : /\ at[k] = at[k - 1] + Len(frames[k]) + 1
                               /\ bytes[at[k]] = Nul
                               /\ \A i \in 1 .. Len(frames[k]) : bytes[at[k - 1] + i] = frames[k][i]
  BY DEF Laid
<1>l. \A k \in m + 1 .. n : Len(frames[k]) \in Nat
  <2>1. \A k \in m + 1 .. n : k \in 1 .. n
    BY <1>1
  <2> QED
    BY <2>1, ElementOfSeq, LenProperties
<1> HIDE DEF L, l, n, more, all
<1>5. b \in [m .. n + 1 -> Nat] /\ b[m] = 0 /\ b[n + 1] = L + l + 1
  BY <1>1, <1>4
<1>6. \A k \in m .. n : b[k] = at[k]
  BY <1>1
<1>7. \A j, k \in m .. n + 1 : j <= k => b[j] <= b[k]
  <2> TAKE j, k \in m .. n + 1
  <2>1. CASE k = n + 1 /\ j # n + 1
    <3>1. j \in m .. n /\ n \in m .. n /\ j <= n
      BY <1>1, <2>1
    <3>2. at[j] <= L /\ at[j] \in Nat
      BY <1>4, <3>1
    <3> QED
      BY <1>1, <1>5, <1>6, <2>1, <3>1, <3>2
  <2>2. CASE k # n + 1
    BY <1>1, <1>4, <1>6, <2>2
  <2>3. CASE k = n + 1 /\ j = n + 1
    BY <1>1, <1>5, <2>3
  <2> QED
    BY <2>1, <2>2, <2>3
<1>8. ASSUME NEW k \in m + 1 .. n + 1
      PROVE  /\ b[k] = b[k - 1] + Len(more[k]) + 1
             /\ all[b[k]] = Nul
             /\ \A i \in 1 .. Len(more[k]) : all[b[k - 1] + i] = more[k][i]
  <2>1. CASE k = n + 1
    <3>1. k - 1 = n /\ n \in m .. n
      BY <1>1, <2>1
    <3>2. b[k] = L + l + 1 /\ b[k - 1] = L /\ more[k] = frame
      BY <1>2, <1>4, <1>5, <1>6, <2>1, <3>1
    <3> QED
      BY <1>3, <3>2 DEF l
  <2>2. CASE k # n + 1
    <3>1. k \in m + 1 .. n /\ k \in m .. n /\ k - 1 \in m .. n /\ k \in 1 .. n /\ n \in m .. n /\ k <= n
      BY <1>1, <2>2
    <3>2. b[k] = at[k] /\ b[k - 1] = at[k - 1] /\ more[k] = frames[k]
      BY <1>2, <1>6, <3>1
    <3>3. /\ at[k] = at[k - 1] + Len(frames[k]) + 1
          /\ bytes[at[k]] = Nul
          /\ \A i \in 1 .. Len(frames[k]) : bytes[at[k - 1] + i] = frames[k][i]
      BY <1>4, <3>1
    <3>4. at[k] <= L /\ at[k] \in Nat /\ at[k - 1] \in Nat /\ Len(frames[k]) \in Nat
      BY <1>4, <1>l, <3>1
    <3>5. at[k] \in 1 .. L /\ \A i \in 1 .. Len(frames[k]) : at[k - 1] + i \in 1 .. L
      <4> DEFINE p == at[k]
                 q == at[k - 1]
                 f == Len(frames[k])
      <4>1. p \in Nat /\ q \in Nat /\ f \in Nat /\ p <= L /\ p = q + f + 1
        BY <3>3, <3>4
      <4> HIDE DEF p, q, f
      <4>2. p \in 1 .. L /\ \A i \in 1 .. f : q + i \in 1 .. L
        BY <1>1, <4>1
      <4> QED
        BY <4>2 DEF p, q, f
    <3> HIDE DEF b
    <3>6. all[at[k]] = Nul
      BY <1>3, <3>3, <3>5
    <3>7. \A i \in 1 .. Len(frames[k]) : all[at[k - 1] + i] = frames[k][i]
      BY <1>3, <3>3, <3>5
    <3> QED
      BY <3>2, <3>3, <3>6, <3>7
  <2> QED
    BY <2>1, <2>2
<1> HIDE DEF b
<1>9. Laid(b, all, m, more)
  BY <1>2, <1>3, <1>5, <1>7, <1>8 DEF Laid
<1> QED
  BY <1>9 DEF all, more

LEMMA FirstFrame ==
    ASSUME NEW bytes \in Seq(Bytes), NEW frames \in Seq(Seq(Bytes)), NEW m \in 0 .. Len(frames),
           NEW at, Laid(at, bytes, m, frames),
           \A k \in 1 .. Len(frames) : NoNuls(frames[k]),
           NEW e \in 1 .. Len(bytes), bytes[e] = Nul, \A j \in 1 .. e - 1 : bytes[j] # Nul
    PROVE  /\ m < Len(frames)
           /\ SubSeq(bytes, 1, e - 1) = frames[m + 1]
           /\ \E b : Laid(b, SubSeq(bytes, e + 1, Len(bytes)), m + 1, frames)
<1> DEFINE L == Len(bytes)
           n == Len(frames)
<1>1. L \in Nat /\ n \in Nat /\ m \in 0 .. n /\ e \in 1 .. L
  BY LenProperties
<1>2. /\ at \in [m .. n -> Nat]
      /\ at[m] = 0 /\ at[n] = L
      /\ \A j, k \in m .. n : j <= k => at[j] <= at[k]
      /\ \A k \in m + 1 .. n : /\ at[k] = at[k - 1] + Len(frames[k]) + 1
                               /\ bytes[at[k]] = Nul
                               /\ \A i \in 1 .. Len(frames[k]) : bytes[at[k - 1] + i] = frames[k][i]
  BY DEF Laid
<1>l. \A k \in 1 .. n : frames[k] \in Seq(Bytes) /\ Len(frames[k]) \in Nat
  BY ElementOfSeq, LenProperties
<1>3. m < n
  <2> HIDE DEF L, n
  <2> QED
    BY <1>1, <1>2
<1> DEFINE frame == frames[m + 1]
           l == Len(frame)
<1>4. /\ m + 1 \in m + 1 .. n /\ m + 1 \in m .. n /\ m + 1 \in 1 .. n /\ (m + 1) - 1 = m
      /\ n \in m .. n /\ m + 1 <= n
  <2> HIDE DEF n
  <2> QED
    BY <1>1, <1>3
<1>5. /\ at[m + 1] = l + 1 /\ bytes[l + 1] = Nul
      /\ \A i \in 1 .. l : bytes[i] = frame[i]
      /\ l \in Nat /\ l + 1 <= L
  <2>1. l \in Nat
    BY <1>4, <1>l
  <2>2. at[m + 1] = at[m] + l + 1 /\ bytes[at[m + 1]] = Nul
        /\ \A i \in 1 .. l : bytes[at[m] + i] = frame[i]
    <3>1. /\ at[m + 1] = at[(m + 1) - 1] + Len(frames[m + 1]) + 1
          /\ bytes[at[m + 1]] = Nul
          /\ \A i \in 1 .. Len(frames[m + 1]) : bytes[at[(m + 1) - 1] + i] = frames[m + 1][i]
      BY <1>2, <1>4
    <3>2. at[(m + 1) - 1] = at[m]
      BY <1>4
    <3> QED
      BY <3>1, <3>2
  <2> HIDE DEF l, frame, L, n
  <2>3. at[m] = 0 /\ at[m + 1] <= L
    BY <1>2, <1>4
  <2> QED
    BY <2>1, <2>2, <2>3
<1>6. e = l + 1
  <2>1. \A i \in 1 .. l : frame[i] # Nul
    BY <1>4 DEF NoNuls
  <2> HIDE DEF l, frame, L, n
  <2>2. ~(e <= l)
    BY <1>1, <1>5, <2>1
  <2>3. ~(l + 1 < e)
    BY <1>1, <1>5
  <2> QED
    BY <1>1, <1>5, <2>2, <2>3
<1>b. \A i \in 1 .. L : bytes[i] \in Bytes
  BY ElementOfSeq
<1>7. SubSeq(bytes, 1, e - 1) = frame
  <2> DEFINE s == SubSeq(bytes, 1, e - 1)
  <2>1. frame \in Seq(Bytes)
    BY <1>4, <1>l
  <2>2. e - 1 \in 0 .. L /\ e - 1 = l
    <3> HIDE DEF L, l
    <3> QED
      BY <1>1, <1>5, <1>6
  <2>3. s \in Seq(Bytes) /\ Len(s) = l /\ \A i \in 1 .. l : s[i] = bytes[i]
    BY <2>2, CutBefore
  <2> HIDE DEF s, frame, l
  <2>4. \A i \in 1 .. l : s[i] = frame[i]
    BY <1>5, <2>3
  <2>5. s = frame
    BY <2>1, <2>3, <2>4, SeqEqual DEF l
  <2> QED
    BY <2>5 DEF s
<1> DEFINE rest == SubSeq(bytes, e + 1, L)
<1>8. rest \in Seq(Bytes) /\ Len(rest) = L - e /\ \A i \in 1 .. L - e : rest[i] = bytes[e + i]
  <2>1. e \in 0 .. L
    OBVIOUS
  <2> QED
    BY <2>1, CutAfter
<1> DEFINE b == [k \in m + 1 .. n |-> at[k] - e]
<1> HIDE DEF rest, L, l, frame, n
<1>9. \A k \in m + 1 .. n : k \in m .. n /\ at[k] \in Nat /\ at[k] >= e
  BY <1>1, <1>2, <1>4, <1>5, <1>6
<1>10. b \in [m + 1 .. n -> Nat]
  BY <1>1, <1>9
<1>11. b[m + 1] = 0 /\ b[n] = L - e
  <2>1. n \in m + 1 .. n
    BY <1>4
  <2> QED
    BY <1>1, <1>2, <1>4, <1>5, <1>6, <2>1
<1>12. \A j, k \in m + 1 .. n : j <= k => b[j] <= b[k]
  BY <1>1, <1>2, <1>9
<1>13. ASSUME NEW k \in m + 1 + 1 .. n
       PROVE  /\ b[k] = b[k - 1] + Len(frames[k]) + 1
              /\ rest[b[k]] = Nul
              /\ \A i \in 1 .. Len(frames[k]) : rest[b[k - 1] + i] = frames[k][i]
  <2>1. k \in m + 1 .. n /\ k - 1 \in m + 1 .. n /\ k \in 1 .. n /\ k \in m .. n /\ k <= n
    BY <1>1
  <2>2. /\ at[k] = at[k - 1] + Len(frames[k]) + 1
        /\ bytes[at[k]] = Nul
        /\ \A i \in 1 .. Len(frames[k]) : bytes[at[k - 1] + i] = frames[k][i]
    BY <1>2, <2>1
  <2>3. b[k] = at[k] - e /\ b[k - 1] = at[k - 1] - e
    BY <2>1
  <2>4. Len(frames[k]) \in Nat /\ at[k] \in Nat /\ at[k - 1] \in Nat /\ at[k - 1] >= e /\ at[k] <= L
    BY <1>2, <1>4, <1>9, <1>l, <2>1 DEF n
  <2> HIDE DEF b
  <2>a. /\ b[k] = b[k - 1] + Len(frames[k]) + 1
        /\ b[k] \in 1 .. L - e /\ e + b[k] = at[k]
        /\ \A i \in 1 .. Len(frames[k]) : /\ b[k - 1] + i \in 1 .. L - e
                                         /\ e + (b[k - 1] + i) = at[k - 1] + i
    <3> DEFINE p == at[k]
               q == at[k - 1]
               f == Len(frames[k])
    <3>1. p \in Nat /\ q \in Nat /\ f \in Nat /\ e \in Nat /\ L \in Nat /\ e <= q /\ p <= L
          /\ p = q + f + 1
      BY <1>1, <2>2, <2>4
    <3>2. b[k] = p - e /\ b[k - 1] = q - e
      BY <2>3
    <3> HIDE DEF p, q, f
    <3>3. /\ p - e = q - e + f + 1
          /\ p - e \in 1 .. L - e /\ e + (p - e) = p
          /\ \A i \in 1 .. f : q - e + i \in 1 .. L - e /\ e + (q - e + i) = q + i
      BY <3>1, FrameLies
    <3> QED
      BY <3>2, <3>3 DEF p, q, f
  <2>5. b[k] = b[k - 1] + Len(frames[k]) + 1
    BY <2>a
  <2>6. b[k] \in 1 .. L - e /\ e + b[k] = at[k]
    BY <2>a
  <2>7. \A i \in 1 .. Len(frames[k]) : b[k - 1] + i \in 1 .. L - e /\ e + (b[k - 1] + i) = at[k - 1] + i
    BY <2>a
  <2>8. rest[b[k]] = Nul
    BY <1>8, <2>2, <2>6
  <2>9. \A i \in 1 .. Len(frames[k]) : rest[b[k - 1] + i] = frames[k][i]
    BY <1>8, <2>2, <2>7
  <2> QED
    BY <2>5, <2>8, <2>9
<1> HIDE DEF b
<1>14. Laid(b, rest, m + 1, frames)
  <2>1. Len(rest) = L - e
    BY <1>8
  <2> QED
    BY <1>10, <1>11, <1>12, <1>13, <2>1 DEF Laid, n
<1> QED
  BY <1>3, <1>7, <1>14 DEF rest, L, n, frame

LEMMA PartsAreAll ==
    ASSUME NEW s \in Seq(Bytes), NEW n \in 1 .. Len(s)
    PROVE  Front(s, n) \o Rest(s, n) = s
<1>1. Len(s) \in Nat
  BY LenProperties
<1>2. 1 \in 1 .. Len(s) + 1 /\ n \in 1 - 1 .. Len(s) /\ Len(s) \in n .. Len(s)
  BY <1>1
<1>3. SubSeq(s, 1, n) \o SubSeq(s, n + 1, Len(s)) = SubSeq(s, 1, Len(s))
  BY <1>2, ConcatAdjacentSubSeq
<1> QED
  BY <1>3, SubSeqFull DEF Front, Rest

LEMMA FirstNulFirst ==
    ASSUME BufferInv, \E i \in Unsearched : pending[i] = Nul
    PROVE  FirstNul \in Unsearched /\ pending[FirstNul] = Nul
           /\ \A j \in Unsearched : j < FirstNul => pending[j] # Nul
<1> DEFINE Nuls == {i \in Unsearched : pending[i] = Nul}
<1>1. Nuls \subseteq Nat /\ Nuls # {}
  BY DEF Unsearched, BufferInv
<1>2. PICK i \in Nuls : \A j \in Nuls : ~(j < i)
  <2> HIDE DEF Nuls
  <2> QED
    BY <1>1, LeastNumber
<1>3. \E k \in Unsearched : pending[k] = Nul /\ \A j \in Unsearched : j < k => pending[j] # Nul
  BY <1>2
<1> QED
  BY <1>3 DEF FirstNul

(* A cut in what was read is a cut in all there is. *)
LEMMA PartsJoin ==
    ASSUME NEW s \in Seq(Bytes), NEW t \in Seq(Bytes), NEW e \in 1 .. Len(s)
    PROVE  /\ Rest(s, e) \o t = SubSeq(s \o t, e + 1, Len(s \o t))
           /\ Front(s, e - 1) = SubSeq(s \o t, 1, e - 1)
<1> DEFINE L == Len(s)
           T == Len(t)
           all == s \o t
           r == Rest(s, e)
           f == Front(s, e - 1)
           after == SubSeq(all, e + 1, Len(all))
           before == SubSeq(all, 1, e - 1)
<1>1. L \in Nat /\ T \in Nat /\ e \in 1 .. L
  BY LenProperties
<1>2. /\ all \in Seq(Bytes) /\ Len(all) = L + T
      /\ \A i \in 1 .. L + T : all[i] = IF i <= L THEN s[i] ELSE t[i - L]
  BY ConcatProperties
<1>3. e \in 0 .. L /\ e - 1 \in 0 .. L
  BY <1>1
<1>4. /\ r \in Seq(Bytes) /\ Len(r) = L - e /\ \A i \in 1 .. L - e : r[i] = s[e + i]
      /\ f \in Seq(Bytes) /\ Len(f) = e - 1 /\ \A i \in 1 .. e - 1 : f[i] = s[i]
  BY <1>3, CutAfter, CutBefore DEF Rest, Front
<1>5. e \in 0 .. Len(all) /\ e - 1 \in 0 .. Len(all)
  <2> HIDE DEF all, L, T
  <2> QED
    BY <1>1, <1>2
<1>6. /\ after \in Seq(Bytes) /\ Len(after) = L + T - e
      /\ \A i \in 1 .. L + T - e : after[i] = all[e + i]
  <2> HIDE DEF all
  <2>1. /\ after \in Seq(Bytes) /\ Len(after) = Len(all) - e
        /\ \A i \in 1 .. Len(all) - e : after[i] = all[e + i]
    BY <1>2, <1>5, CutAfter
  <2> QED
    BY <1>2, <2>1
<1>7. before \in Seq(Bytes) /\ Len(before) = e - 1 /\ \A i \in 1 .. e - 1 : before[i] = all[i]
  <2> HIDE DEF all
  <2> QED
    BY <1>2, <1>5, CutBefore
<1> DEFINE j == r \o t
<1>8. /\ j \in Seq(Bytes) /\ Len(j) = L - e + T
      /\ \A i \in 1 .. L - e + T : j[i] = IF i <= L - e THEN r[i] ELSE t[i - (L - e)]
  <2> HIDE DEF r
  <2>1. /\ j \in Seq(Bytes) /\ Len(j) = Len(r) + T
        /\ \A i \in 1 .. Len(r) + T : j[i] = IF i <= Len(r) THEN r[i] ELSE t[i - Len(r)]
    BY <1>4, ConcatProperties
  <2> QED
    BY <1>4, <2>1
<1> HIDE DEF j, r, f, after, before, all, L, T
<1>9. L - e + T = L + T - e
  BY <1>1
<1>10. ASSUME NEW i \in 1 .. L + T - e PROVE j[i] = after[i]
  <2> DEFINE p == e + i
  <2>1. p \in 1 .. L + T /\ i \in 1 .. L - e + T
    BY <1>1
  <2>2. after[i] = all[p]
    BY <1>6
  <2>a. j[i] = IF i <= L - e THEN r[i] ELSE t[i - (L - e)]
    BY <1>8, <2>1
  <2>b. (i <= L - e <=> p <= L) /\ i - (L - e) = p - L /\ (i <= L - e => i \in 1 .. L - e)
    BY <1>1
  <2>c. i \in 1 .. L - e => r[i] = s[p]
    BY <1>4
  <2> HIDE DEF p
  <2>3. all[p] = IF p <= L THEN s[p] ELSE t[p - L]
    BY <1>2, <2>1
  <2> QED
    BY <2>2, <2>3, <2>a, <2>b, <2>c
<1>11. j = after
  <2>1. Len(j) = L + T - e
    BY <1>8, <1>9
  <2> QED
    BY <1>6, <1>8, <1>10, <2>1, SeqEqual
<1>12. f = before
  <2>1. ASSUME NEW i \in 1 .. e - 1 PROVE f[i] = before[i]
    <3>1. i \in 1 .. L + T /\ i <= L
      BY <1>1
    <3> QED
      BY <1>2, <1>4, <1>7, <3>1
  <2> QED
    BY <1>4, <1>7, <2>1, SeqEqual
<1> QED
  BY <1>11, <1>12 DEF j, f, after, before, r, all

(***************************************************************************)
(* What was taken of the written frames was handed over, the rest lies in  *)
(* order in the buffer and the pipe, whole.                                *)
(***************************************************************************)
FrameInv ==
    /\ received \in Seq(Seq(Bytes)) /\ Len(received) <= Len(written)
    /\ \A k \in 1 .. Len(written) : NoNuls(written[k])
    /\ result = "running" => \E at : Laid(at, pending \o stream, Len(received), written)

LEMMA FrameInit == Init => FrameInv
<1> SUFFICES ASSUME Init PROVE FrameInv
  OBVIOUS
<1>1. written = <<>> /\ received = <<>> /\ pending \o stream = <<>> /\ Len(<<>>) = 0
  BY ConcatEmptySeq, EmptySeq DEF Init
<1>2. <<>> \in Seq(Seq(Bytes))
  BY EmptySeq
<1> DEFINE at == [k \in 0 .. 0 |-> 0]
<1>3. Laid(at, <<>>, 0, <<>>)
  BY <1>1 DEF Laid
<1> QED
  BY <1>1, <1>2, <1>3 DEF FrameInv

(* Steps that move no byte out of the buffer or into the pipe. *)
LEMMA FrameStays ==
    ASSUME FrameInv, UNCHANGED <<received, written>>, pending' \o stream' = pending \o stream,
           result' = "running" => result = "running"
    PROVE  FrameInv'
BY DEF FrameInv, NoNuls

LEMMA FrameWritten ==
    ASSUME BufferInv, BufferInv', FrameInv, WriteFrame
    PROVE  FrameInv' /\ Queue!Write
<1>1. PICK n \in 0 .. MaxLength :
        LET payload == [i \in 1 .. n |-> Len(written) + 1]
        IN  /\ written' = Append(written, payload)
            /\ stream' = stream \o payload \o <<Nul>>
  BY DEF WriteFrame
<1> DEFINE payload == [i \in 1 .. n |-> Len(written) + 1]
<1>2. written' = Append(written, payload) /\ stream' = stream \o payload \o <<Nul>>
      /\ UNCHANGED <<pending, received, result>>
  BY <1>1 DEF WriteFrame, buffer
<1>3. Len(written) \in Nat /\ Len(written) + 1 \in Bytes /\ Len(written) + 1 # Nul /\ Nul \in Bytes
  BY SizesAssumption DEF WriteFrame, BufferInv, Bytes, Nul
<1>4. n \in Nat
  BY SizesAssumption
<1>5. payload \in [1 .. n -> Bytes] /\ payload \in Seq(Bytes) /\ NoNuls(payload)
  <2>1. payload \in [1 .. n -> Bytes]
    BY <1>3
  <2>2. payload \in Seq(Bytes) /\ Len(payload) = n
    BY <1>4, <2>1
  <2>3. \A i \in 1 .. n : payload[i] # Nul
    BY <1>3
  <2> HIDE DEF payload
  <2> QED
    BY <2>1, <2>2, <2>3 DEF NoNuls
<1> HIDE DEF payload
<1>6. pending \in Seq(Bytes) /\ stream \in Seq(Bytes) /\ written \in Seq(Seq(Bytes))
  BY DEF BufferInv
<1>7. pending' \o stream' = pending \o stream \o payload \o <<Nul>>
  <2> DEFINE nul == <<Nul>>
             x == stream \o payload
  <2>1. nul \in Seq(Bytes) /\ x \in Seq(Bytes)
    BY <1>3, <1>5, <1>6, ConcatProperties
  <2>2. pending \o x = pending \o stream \o payload
    BY <1>5, <1>6, ConcatAssociative, SMTT(30)
  <2>3. stream' = x \o nul /\ pending' = pending
    BY <1>2
  <2> HIDE DEF nul, x
  <2>4. (pending \o x) \o nul = pending \o (x \o nul)
    BY <1>6, <2>1, ConcatAssociative, SMTT(30)
  <2> QED
    BY <2>2, <2>3, <2>4 DEF nul
<1>8. /\ Len(written') = Len(written) + 1 /\ written'[Len(written) + 1] = payload
      /\ \A k \in 1 .. Len(written) : written'[k] = written[k]
  BY <1>2, <1>5, <1>6, AppendProperties
<1>9. \A k \in 1 .. Len(written') : NoNuls(written'[k])
  <2>1. \A k \in 1 .. Len(written) : NoNuls(written'[k])
    BY <1>8 DEF FrameInv
  <2>2. NoNuls(written'[Len(written) + 1])
    BY <1>5, <1>8
  <2>3. \A k \in 1 .. Len(written') : k \in 1 .. Len(written) \/ k = Len(written) + 1
    BY <1>3, <1>8
  <2> QED
    BY <2>1, <2>2, <2>3
<1>10. Len(received) \in Nat /\ Len(received) \in 0 .. Len(written) /\ Len(received) <= Len(written')
  BY <1>3, <1>8, LenProperties DEF FrameInv
<1>11. result = "running" => \E at : Laid(at, pending' \o stream', Len(received), written')
  <2> SUFFICES ASSUME result = "running"
               PROVE  \E at : Laid(at, pending' \o stream', Len(received), written')
    OBVIOUS
  <2> DEFINE all == pending \o stream
  <2>1. PICK at : Laid(at, all, Len(received), written)
    BY DEF FrameInv
  <2>2. all \in Seq(Bytes)
    BY <1>6, ConcatProperties
  <2>3. pending' \o stream' = all \o payload \o <<Nul>>
    BY <1>7
  <2> HIDE DEF all
  <2>4. \E b : Laid(b, all \o payload \o <<Nul>>, Len(received), Append(written, payload))
    BY <1>5, <1>6, <1>10, <2>1, <2>2, FrameAdded
  <2> QED
    BY <1>2, <2>3, <2>4
<1>12. FrameInv'
  BY <1>2, <1>9, <1>10, <1>11 DEF FrameInv
<1>13. Queue!Write
  <2>1. payload \in UNION {[1 .. k -> Bytes] : k \in 0 .. MaxLength}
    BY <1>5
  <2> QED
    BY <1>2, <2>1 DEF Queue!Write
<1> QED
  BY <1>12, <1>13

(* The delimiter that the search finds ends the first frame that was not   *)
(* taken.                                                                  *)
LEMMA FrameTaken ==
    ASSUME BufferInv, FrameInv, TakePendingMessage
    PROVE  FrameInv' /\ (Queue!Receive \/ UNCHANGED <<written, received>>)
<1>0. /\ UNCHANGED <<written, stream>> /\ result = "running"
      /\ pending \in Seq(Bytes) /\ stream \in Seq(Bytes) /\ written \in Seq(Seq(Bytes))
      /\ received \in Seq(Seq(Bytes))
  BY DEF TakePendingMessage, browser, Running, BufferInv, FrameInv
<1>1. CASE ~TakeMessage
  <2>1. UNCHANGED <<pending, received, result>>
    BY <1>1 DEF TakePendingMessage
  <2> QED
    BY <1>0, <2>1, FrameStays
<1>2. CASE TakeMessage
  <2> DEFINE e == FirstNul
             all == pending \o stream
             L == Len(pending)
             m == Len(received)
             rest == SubSeq(all, e + 1, Len(all))
  <2>1. \E i \in Unsearched : pending[i] = Nul
    BY <1>2 DEF TakeMessage
  <2>2. e \in 1 .. L
    BY <2>1, FirstNulInside
  <2>3. pending[e] = Nul /\ \A j \in 1 .. e - 1 : pending[j] # Nul
    <3>1. e \in Unsearched /\ pending[e] = Nul /\ \A j \in Unsearched : j < e => pending[j] # Nul
      BY <2>1, FirstNulFirst
    <3>2. ASSUME NEW j \in 1 .. e - 1 PROVE pending[j] # Nul
      <4>1. j \in 1 .. searchStart \/ (j \in Unsearched /\ j < e)
        BY <1>0, <2>2 DEF Unsearched, BufferInv
      <4> QED
        BY <3>1, <4>1 DEF BufferInv, SearchIsSound
    <3> QED
      BY <3>1, <3>2
  <2>4. all \in Seq(Bytes) /\ L \in Nat /\ Len(stream) \in Nat /\ Len(all) = L + Len(stream)
        /\ \A i \in 1 .. L : all[i] = pending[i]
    <3>1. /\ all \in Seq(Bytes) /\ Len(all) = L + Len(stream)
          /\ \A i \in 1 .. L + Len(stream) : all[i] = IF i <= L THEN pending[i] ELSE stream[i - L]
      BY <1>0, ConcatProperties
    <3>2. L \in Nat /\ Len(stream) \in Nat
      BY <1>0, LenProperties
    <3> HIDE DEF all, L
    <3>3. \A i \in 1 .. L : i \in 1 .. L + Len(stream) /\ i <= L
      BY <3>2
    <3> QED
      BY <3>1, <3>2, <3>3
  <2>5. PICK at : Laid(at, all, m, written)
    BY <1>0 DEF FrameInv
  <2>6. \A k \in 1 .. Len(written) : NoNuls(written[k])
    BY DEF FrameInv
  <2>7. m \in 0 .. Len(written) /\ m \in Nat
    BY <1>0, LenProperties DEF FrameInv
  <2>8. pending' = Rest(pending, e)
    BY <1>2 DEF TakeMessage
  <2>9. pending' \o stream' = rest /\ Front(pending, e - 1) = SubSeq(all, 1, e - 1)
    BY <1>0, <2>2, <2>8, PartsJoin
  <2> HIDE DEF e, all, L, m
  <2>10. /\ e \in 1 .. Len(all) /\ all[e] = Nul /\ \A j \in 1 .. e - 1 : all[j] # Nul
    <3>1. e \in 1 .. Len(all) /\ \A j \in 1 .. e - 1 : j \in 1 .. L
      BY <2>2, <2>4
    <3> QED
      BY <2>2, <2>3, <2>4, <3>1
  <2>11. /\ m < Len(written)
         /\ SubSeq(all, 1, e - 1) = written[m + 1]
         /\ \E b : Laid(b, rest, m + 1, written)
    BY <1>0, <2>4, <2>5, <2>6, <2>7, <2>10, FirstFrame
  <2> HIDE DEF rest
  <2>12. CASE result' = "notUtf8" /\ received' = received
    <3>1. FrameInv'
      BY <1>0, <2>12 DEF FrameInv, NoNuls
    <3> QED
      BY <1>0, <2>12, <3>1
  <2>13. CASE received' = Append(received, Front(pending, e - 1)) /\ result' = result
    <3> DEFINE frame == written[m + 1]
    <3>1. received' = Append(received, frame)
      BY <2>9, <2>11, <2>13
    <3>2. m + 1 \in 1 .. Len(written) /\ Len(written) \in Nat
      BY <1>0, <2>7, <2>11, LenProperties
    <3>3. frame \in Seq(Bytes)
      BY <1>0, <3>2, ElementOfSeq
    <3> HIDE DEF frame
    <3>4. received' \in Seq(Seq(Bytes)) /\ Len(received') = m + 1
      BY <1>0, <3>1, <3>3, AppendProperties DEF m
    <3>5. \E b : Laid(b, pending' \o stream', Len(received'), written')
      BY <1>0, <2>9, <2>11, <3>4
    <3>6. m + 1 <= Len(written')
      BY <1>0, <3>2
    <3>7. FrameInv'
      BY <1>0, <2>6, <3>4, <3>5, <3>6 DEF FrameInv, NoNuls
    <3>8. Queue!Receive
      BY <1>0, <2>11, <3>1 DEF Queue!Receive, m, frame
    <3> QED
      BY <3>7, <3>8
  <2> QED
    BY <1>2, <2>12, <2>13 DEF TakeMessage, End, e
<1> QED
  BY <1>1, <1>2

LEMMA FrameStep ==
    ASSUME BufferInv, BufferInv', FrameInv, [Next]_vars
    PROVE  FrameInv' /\ [Queue!Next]_(Queue!vars)
<1> USE DEF browser, buffer, clock, writing
<1>1. CASE TakePendingMessage
  BY <1>1, FrameTaken DEF Queue!Next, Queue!vars
<1>2. CASE WriteFrame
  BY <1>2, FrameWritten DEF Queue!Next
<1>3. CASE Read
  <2>1. /\ UNCHANGED <<received, written, result>>
        /\ \/ UNCHANGED <<pending, stream>>
           \/ \E n \in 1 .. Lesser(Chunk, Len(stream)) :
                pending' = pending \o Front(stream, n) /\ stream' = Rest(stream, n)
    BY <1>3 DEF Read
  <2>2. pending' \o stream' = pending \o stream
    <3>1. CASE UNCHANGED <<pending, stream>>
      BY <3>1
    <3>2. ASSUME NEW n \in 1 .. Lesser(Chunk, Len(stream)),
                 pending' = pending \o Front(stream, n), stream' = Rest(stream, n)
          PROVE  pending' \o stream' = pending \o stream
      <4>1. pending \in Seq(Bytes) /\ stream \in Seq(Bytes) /\ Len(stream) \in Nat
        BY LenProperties DEF BufferInv
      <4>2. n \in 1 .. Len(stream)
        BY <4>1, SizesAssumption DEF Lesser
      <4>3. Front(stream, n) \o Rest(stream, n) = stream
        BY <4>1, <4>2, PartsAreAll
      <4>4. Front(stream, n) \in Seq(Bytes) /\ Rest(stream, n) \in Seq(Bytes)
        BY <4>1, <4>2, PartsType
      <4> DEFINE f == Front(stream, n)
                 r == Rest(stream, n)
      <4> HIDE DEF f, r
      <4>5. (pending \o f) \o r = pending \o (f \o r)
        BY <4>1, <4>4, ConcatAssociative DEF f, r
      <4> QED
        BY <3>2, <4>3, <4>5 DEF f, r
    <3> QED
      BY <2>1, <3>1, <3>2
  <2> QED
    BY <2>1, <2>2, FrameStays DEF Queue!vars
<1>4. CASE NextMessage \/ Send \/ CheckExit \/ WaitReadable \/ Write \/ WaitForExit \/ WakeUp
  <2>1. UNCHANGED <<received, written, pending, stream>> /\ result = "running"
    BY <1>4 DEF NextMessage, Send, CheckExit, WaitReadable, Write, WaitForExit, WakeUp, Running
  <2> QED
    BY <2>1, FrameStays DEF Queue!vars
<1>5. CASE BrowserReads \/ ClosePipe \/ AppExits \/ Tick \/ Ended \/ UNCHANGED vars
  <2>1. UNCHANGED <<received, written, pending, stream, result>>
    BY <1>5 DEF BrowserReads, ClosePipe, AppExits, Tick, Ended, vars
  <2> QED
    BY <2>1, FrameStays DEF Queue!vars
<1> QED
  BY <1>1, <1>2, <1>3, <1>4, <1>5 DEF Next, Launcher

(* However the frames were written, split into reads and timed, the caller *)
(* gets them whole, once each and in the order of the browser.             *)
THEOREM FramesArriveInOrder == Spec => FramesInOrder
<1>1. Init => BufferInv /\ FrameInv
  BY FrameInit DEF Init, BufferInv, SearchIsSound
<1>2. BufferInv /\ FrameInv /\ [Next]_vars => BufferInv' /\ FrameInv'
  BY BufferStep, FrameStep
<1>3. Init => Queue!Init
  BY DEF Init, Queue!Init
<1>4. BufferInv /\ BufferInv' /\ FrameInv /\ [Next]_vars => [Queue!Next]_(Queue!vars)
  BY FrameStep
<1> QED
  BY <1>1, <1>2, <1>3, <1>4, PTL DEF Spec, FramesInOrder, Queue!Spec
=============================================================================
