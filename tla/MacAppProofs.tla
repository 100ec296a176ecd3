---------------------------- MODULE MacAppProofs ----------------------------
(***************************************************************************)
(* Theorems about MacAppProcess, for every grace and every numbering.      *)
(***************************************************************************)
EXTENDS MacAppProcess, SequenceLemmas

(* A number is given away once its process was reaped, and a signal is     *)
(* sent only where the exit code has just been asked for in vain.          *)
SignalInv ==
    /\ number = "other" => process = "reaped"
    /\ pc \in {"term", "kill"} => process # "reaped"
    /\ SignalsReachOnlyTheApp

LEMMA SignalStep == SignalInv /\ [Next]_vars => SignalInv'
<1> SUFFICES ASSUME SignalInv, [Next]_vars PROVE SignalInv'
  OBVIOUS
<1> USE DEF SignalInv, SignalsReachOnlyTheApp, identity, aborting
<1>1. CASE Prepare
  <2>1. UNCHANGED <<number, signalled>> /\ pc \notin {"term", "kill"}
    BY <1>1 DEF Prepare, SetGroup, CopyCommand, CopyResponse, PlaceEnds,
                CloseInherited, Exec, SpawnFails, Undisturbed
  <2>2. pc' \notin {"term", "kill"}
    BY <1>1 DEF Prepare, SetGroup, CopyCommand, CopyResponse, PlaceEnds,
                CloseInherited, Exec, SpawnFails, Fails
  <2>3. process' = process \/ process' = "reaped"
    BY <1>1 DEF Prepare, SetGroup, CopyCommand, CopyResponse, PlaceEnds,
                CloseInherited, Exec, SpawnFails, Undisturbed
  <2> QED
    BY <2>1, <2>2, <2>3
<1>2. CASE DropChildEnds \/ LookForDuplicates \/ Abort
  BY <1>2 DEF DropChildEnds, LookForDuplicates, Abort
<1>3. CASE PollExitCode
  BY <1>3 DEF PollExitCode, Reap
<1>4. CASE CheckExited
  BY <1>4 DEF CheckExited, Reap, ExitKnown, Return
<1>5. CASE Terminate
  BY <1>5 DEF Terminate, Signal
<1>6. CASE WaitTerminated
  BY <1>6 DEF WaitTerminated, Reap, ExitKnown, Return, Escalate
<1>7. CASE Kill
  BY <1>7 DEF Kill, Signal
<1>8. CASE WaitKilled
  BY <1>8 DEF WaitKilled, Reap, ExitKnown, Return
<1>9. CASE Tick
  BY <1>9 DEF Tick, Dies
<1>10. CASE AppExits
  BY <1>10 DEF AppExits, Dies, ChildPlaces
<1>11. CASE NumberReused
  BY <1>11 DEF NumberReused
<1>12. CASE Ended \/ UNCHANGED vars
  BY <1>12 DEF Ended, vars
<1> QED
  BY <1>1, <1>2, <1>3, <1>4, <1>5, <1>6, <1>7, <1>8, <1>9, <1>10, <1>11, <1>12 DEF Next

(* No signal of abort_patch, in the session or in Drop, reaches a process  *)
(* group that merely got the number of the app.                            *)
THEOREM SignalsOnlyToApp == Spec => []SignalsReachOnlyTheApp
<1>1. Init => SignalInv
  BY DEF Init, SignalInv, SignalsReachOnlyTheApp
<1>2. SignalInv => SignalsReachOnlyTheApp
  BY DEF SignalInv
<1> QED
  BY <1>1, <1>2, SignalStep, PTL DEF Spec

(***************************************************************************)
(* The abort.  A child that runs past setpgid leads its group, so a signal *)
(* reaches it, and a SIGKILL that takes effect in time does so before the  *)
(* second wait is over.                                                    *)
(***************************************************************************)
KillInv ==
    /\ left \in Nat
    /\ pending \in [signal : {"none", "term", "kill"}, delay : Nat]
    /\ process = "running" /\ pc \notin {"group", "report", "failed"} => leads = TRUE
    /\ KillDelay < Grace =>
          /\ process = "running" /\ pc = "waitKill" =>
                 pending.signal = "kill" /\ pending.delay < left
          /\ pc = "done" => process # "running"

LEMMA KillStep == KillInv /\ [Next]_vars => KillInv'
<1> SUFFICES ASSUME KillInv, [Next]_vars PROVE KillInv'
  OBVIOUS
<1> USE GraceAssumption DEF KillInv, identity, aborting, NoSignal
<1>1. CASE Prepare
  <2>1. UNCHANGED <<pending, left>>
    BY <1>1 DEF Prepare, SetGroup, CopyCommand, CopyResponse, PlaceEnds,
                CloseInherited, Exec, SpawnFails, Undisturbed
  <2>2. pc' \notin {"waitKill", "done", "group"}
    BY <1>1 DEF Prepare, SetGroup, CopyCommand, CopyResponse, PlaceEnds,
                CloseInherited, Exec, SpawnFails, Fails
  <2>3. process' = "running" /\ pc' \notin {"group", "report", "failed"} => leads' = TRUE
    BY <1>1 DEF Prepare, SetGroup, CopyCommand, Copy, CopyResponse, PlaceEnds,
                CloseInherited, Exec, SpawnFails, Undisturbed, Fails
  <2> QED
    BY <2>1, <2>2, <2>3
<1>2. CASE DropChildEnds \/ LookForDuplicates \/ Abort
  BY <1>2 DEF DropChildEnds, LookForDuplicates, Abort
<1>3. CASE PollExitCode
  BY <1>3 DEF PollExitCode, Reap
<1>4. CASE CheckExited
  BY <1>4 DEF CheckExited, Reap, ExitKnown, Return
<1>5. CASE Terminate
  <2>1. PICK delay \in 0 .. KillDelay : Signal("term", delay)
    BY <1>5 DEF Terminate
  <2>2. pending' = pending \/ pending' = [signal |-> "term", delay |-> delay]
    BY <2>1 DEF Signal
  <2>3. pending' \in [signal : {"none", "term", "kill"}, delay : Nat]
    BY <2>2
  <2>4. UNCHANGED <<process, leads>> /\ pc = "term" /\ pc' = "waitTerm" /\ left' = Grace
    BY <1>5 DEF Terminate
  <2> QED
    BY <2>3, <2>4
<1>6. CASE WaitTerminated
  BY <1>6 DEF WaitTerminated, Reap, ExitKnown, Return, Escalate
<1>7. CASE Kill
  <2>1. PICK delay \in 0 .. KillDelay : Signal("kill", delay)
    BY <1>7 DEF Kill
  <2>2. UNCHANGED <<process, leads>> /\ pc = "kill" /\ pc' = "waitKill" /\ left' = Grace
    BY <1>7 DEF Kill
  <2>3. IF process = "running" THEN pending' = [signal |-> "kill", delay |-> delay]
                               ELSE pending' = pending \/ pending' = [signal |-> "kill", delay |-> delay]
    BY <2>1, <2>2 DEF Signal
  <2>4. pending' \in [signal : {"none", "term", "kill"}, delay : Nat]
    BY <2>3
  <2>5. KillDelay < Grace /\ process = "running" =>
           pending'.signal = "kill" /\ pending'.delay < Grace
    BY <2>3
  <2> QED
    BY <2>2, <2>4, <2>5
<1>8. CASE WaitKilled
  <2>1. process' # "running" <=> process # "running"
    BY <1>8 DEF WaitKilled, Reap
  <2>2. UNCHANGED <<leads, pending, left>> /\ pc = "waitKill"
        /\ (process # "running" \/ left = 0) /\ pc' \in {"check", "done"}
    BY <1>8 DEF WaitKilled, ExitKnown, Return
  <2> QED
    BY <2>1, <2>2
<1>9. CASE Tick
  <2>1. UNCHANGED <<leads, pc>> /\ pc \in {"waitTerm", "waitKill"} /\ left > 0
        /\ left' = left - 1
    BY <1>9 DEF Tick
  <2>2. CASE Dies /\ UNCHANGED pending
    BY <2>1, <2>2 DEF Dies
  <2>3. CASE /\ ~(pending.signal # "none" /\ pending.delay = 0)
             /\ pending' = [pending EXCEPT !.delay = IF @ = 0 THEN 0 ELSE @ - 1]
             /\ UNCHANGED process
    <3>1. pending' \in [signal : {"none", "term", "kill"}, delay : Nat]
          /\ pending'.signal = pending.signal
          /\ (pending.delay # 0 => pending'.delay = pending.delay - 1)
      BY <2>3
    <3> QED
      BY <2>1, <2>3, <3>1
  <2> QED
    BY <1>9, <2>2, <2>3 DEF Tick
<1>10. CASE AppExits
  <2>1. process' = "zombie" /\ UNCHANGED <<pending, left>> /\ (pc' = "done" => pc = "done")
    BY <1>10 DEF AppExits, Dies
  <2> QED
    BY <2>1
<1>11. CASE NumberReused \/ Ended \/ UNCHANGED vars
  BY <1>11 DEF NumberReused, Ended, vars
<1> QED
  BY <1>1, <1>2, <1>3, <1>4, <1>5, <1>6, <1>7, <1>8, <1>9, <1>10, <1>11 DEF Next

(* Whether or not the app listens to SIGTERM, it has ended when the        *)
(* launcher lets go of it, if a SIGKILL takes effect within the grace.     *)
THEOREM AbortEnds == Spec => []AbortEndsApp
<1>1. Init => KillInv
  BY DEF Init, KillInv, NoSignal
<1>2. KillInv => AbortEndsApp
  BY DEF KillInv, AbortEndsApp
<1> QED
  BY <1>1, <1>2, KillStep, PTL DEF Spec

(***************************************************************************)
(* Descriptors.  What the calls leave of a table.                          *)
(***************************************************************************)
(* A new descriptor gets a free number, and no smaller one is free. *)
LEMMA LowestFree ==
    ASSUME NEW t, NEW from \in Nat, Free(t, from) # {}
    PROVE  LET n == Min(Free(t, from))
           IN  /\ n \in Nat /\ from <= n /\ n <= LastNumber /\ n \notin DOMAIN t
               /\ \A m \in from .. LastNumber : m \notin DOMAIN t => n <= m
<1> DEFINE F == Free(t, from)
<1>1. F \subseteq Nat /\ F # {} /\ \A m \in F : m >= from /\ m <= LastNumber /\ m \notin DOMAIN t
  BY NumbersAssumption DEF Free
<1>2. \A m \in from .. LastNumber : m \notin DOMAIN t => m \in F
  BY DEF Free
<1> HIDE DEF F
<1>3. PICK x \in F : \A y \in F : ~(y < x)
  BY <1>1, LeastNumber
<1>4. x \in F /\ \A y \in F : x <= y
  BY <1>1, <1>3
<1>5. Min(F) \in F /\ \A y \in F : Min(F) <= y
  BY <1>4 DEF Min
<1> QED
  BY <1>1, <1>2, <1>5 DEF F

(* What the launcher opened so far: some numbers have no gap below `low`,  *)
(* none is above `high`, each file of `files` has one, and nothing else.   *)
Holds(t, low, high, files) ==
    /\ low \in Nat /\ high \in Nat /\ 2 <= low /\ low <= high
    /\ 3 .. low \subseteq DOMAIN t /\ DOMAIN t \subseteq 3 .. high
    /\ \A n \in DOMAIN t : t[n].file \in files \cup {"launcher"} /\ t[n].kept = FALSE
    /\ \A file \in files : \E n \in DOMAIN t : t[n].file = file

LEMMA OpenedHolds ==
    ASSUME NEW t, NEW low, NEW high, NEW files, Holds(t, low, high, files),
           high < LastNumber, NEW file
    PROVE  /\ Holds(Opened(t, file), low + 1, high + 1, files \cup {file})
           /\ \A n \in DOMAIN t : n \in DOMAIN Opened(t, file) /\ Opened(t, file)[n] = t[n]
           /\ \A n \in DOMAIN Opened(t, file) \ DOMAIN t : n > low
<1> DEFINE n == Min(Free(t, 3))
           u == Opened(t, file)
<1>1. /\ low \in Nat /\ high \in Nat /\ 2 <= low /\ low <= high
      /\ 3 .. low \subseteq DOMAIN t /\ DOMAIN t \subseteq 3 .. high
  BY DEF Holds
<1>2. high + 1 \in Free(t, 3) /\ LastNumber \in Nat
  BY <1>1, NumbersAssumption DEF Free
<1>3. /\ n \in Nat /\ 3 <= n /\ n <= LastNumber /\ n \notin DOMAIN t
      /\ \A m \in 3 .. LastNumber : m \notin DOMAIN t => n <= m
  <2>1. Free(t, 3) # {} /\ 3 \in Nat
    BY <1>2
  <2> QED
    BY <2>1, LowestFree
<1>4. u = Named(t, n, file, FALSE)
  BY DEF Opened, OpenAt
<1>5. /\ DOMAIN u = DOMAIN t \cup {n}
      /\ u[n].file = file /\ u[n].kept = FALSE
      /\ \A m \in DOMAIN t : m # n => u[m] = t[m]
  <2> HIDE DEF n, u
  <2> QED
    BY <1>4 DEF Named
<1> HIDE DEF n, u
<1>6. n <= high + 1 /\ n > low
  BY <1>1, <1>2, <1>3
<1>7. 3 .. low + 1 \subseteq DOMAIN u
  <2>1. low + 1 \in DOMAIN t \/ n = low + 1
    BY <1>1, <1>2, <1>3, <1>6
  <2> QED
    BY <1>1, <1>5, <2>1
<1>8. DOMAIN u \subseteq 3 .. high + 1
  BY <1>1, <1>3, <1>5, <1>6
<1>9. \A m \in DOMAIN t : u[m] = t[m]
  BY <1>3, <1>5
<1>10. \A m \in DOMAIN u : u[m].file \in files \cup {file} \cup {"launcher"} /\ u[m].kept = FALSE
  BY <1>5, <1>9 DEF Holds
<1>11. \A f \in files \cup {file} : \E m \in DOMAIN u : u[m].file = f
  BY <1>5, <1>9 DEF Holds
<1>12. Holds(u, low + 1, high + 1, files \cup {file})
  BY <1>1, <1>7, <1>8, <1>10, <1>11 DEF Holds
<1>13. (\A m \in DOMAIN t : m \in DOMAIN u /\ u[m] = t[m]) /\ \A m \in DOMAIN u \ DOMAIN t : m > low
  BY <1>5, <1>6, <1>9
<1> QED
  BY <1>12, <1>13 DEF u

(* The child's table at the fork names every pipe end and the report, the  *)
(* latter above the numbers that Chromium expects, and keeps none.         *)
LEMMA ForkTable ==
    ASSUME NEW taken \in SUBSET (3 .. LastTaken)
    PROVE  LET t == AtFork(taken)
           IN  /\ \A file \in PipeEnds \cup {"report"} :
                      NumberOf(t, file) \in DOMAIN t /\ t[NumberOf(t, file)].file = file
               /\ \A n \in DOMAIN t : t[n].kept = FALSE
               /\ NumberOf(t, "report") \notin {CommandFd, ResponseFd}
<1> DEFINE t0 == [n \in taken |-> [file |-> "launcher", kept |-> FALSE]]
           t1 == Opened(t0, "commandRead")
           t2 == Opened(t1, "commandWrite")
           t3 == Opened(t2, "responseRead")
           t4 == Opened(t3, "responseWrite")
           t5 == Opened(t4, "null")
           t6 == Opened(t5, "null")
           t7 == Opened(t6, "null")
           t8 == Opened(t7, "reportRead")
           t9 == Opened(t8, "report")
           t == AtFork(taken)
           H == LastTaken
<1>h. H \in Nat /\ 2 < H /\ H + 9 <= LastNumber /\ LastNumber \in Nat
  BY NumbersAssumption
<1>0. Holds(t0, 2, H, {})
  BY <1>h DEF Holds
<1>t. t = Closed(t9, {NumberOf(t9, "reportRead")})
  BY DEF AtFork, WithPipes, WithPipe
<1> HIDE DEF t0, t, H
<1>1. Holds(t1, 3, H + 1, {"commandRead"})
  <2>1. H < LastNumber
    BY <1>h
  <2>2. Holds(t1, 2 + 1, H + 1, {} \cup {"commandRead"})
    BY <1>0, <2>1, OpenedHolds
  <2> QED
    BY <2>2
<1> HIDE DEF t1
<1>2. Holds(t2, 4, H + 2, {"commandRead", "commandWrite"})
  <2>1. H + 1 < LastNumber /\ 3 + 1 = 4 /\ H + 1 + 1 = H + 2
    BY <1>h
  <2>2. Holds(t2, 3 + 1, H + 1 + 1, {"commandRead"} \cup {"commandWrite"})
    BY <1>1, <2>1, OpenedHolds
  <2>3. {"commandRead"} \cup {"commandWrite"} = {"commandRead", "commandWrite"}
    OBVIOUS
  <2> QED
    BY <2>1, <2>2, <2>3
<1> HIDE DEF t2
<1>3. Holds(t3, 5, H + 3, {"commandRead", "commandWrite", "responseRead"})
  <2>1. H + 2 < LastNumber /\ 4 + 1 = 5 /\ H + 2 + 1 = H + 3
    BY <1>h
  <2>2. Holds(t3, 4 + 1, H + 2 + 1, {"commandRead", "commandWrite"} \cup {"responseRead"})
    BY <1>2, <2>1, OpenedHolds
  <2>3. {"commandRead", "commandWrite"} \cup {"responseRead"}
            = {"commandRead", "commandWrite", "responseRead"}
    OBVIOUS
  <2> QED
    BY <2>1, <2>2, <2>3
<1> HIDE DEF t3
<1>4. Holds(t4, 6, H + 4, PipeEnds)
  <2>1. H + 3 < LastNumber /\ 5 + 1 = 6 /\ H + 3 + 1 = H + 4
    BY <1>h
  <2>2. Holds(t4, 5 + 1, H + 3 + 1,
              {"commandRead", "commandWrite", "responseRead"} \cup {"responseWrite"})
    BY <1>3, <2>1, OpenedHolds
  <2>3. {"commandRead", "commandWrite", "responseRead"} \cup {"responseWrite"} = PipeEnds
    BY DEF PipeEnds
  <2> QED
    BY <2>1, <2>2, <2>3
<1> HIDE DEF t4
<1>5. Holds(t5, 7, H + 5, PipeEnds \cup {"null"})
  <2>1. H + 4 < LastNumber /\ 6 + 1 = 7 /\ H + 4 + 1 = H + 5
    BY <1>h
  <2>2. Holds(t5, 6 + 1, H + 4 + 1, PipeEnds \cup {"null"})
    BY <1>4, <2>1, OpenedHolds
  <2> QED
    BY <2>1, <2>2
<1> HIDE DEF t5
<1>6. Holds(t6, 8, H + 6, PipeEnds \cup {"null"})
  <2>1. H + 5 < LastNumber /\ 7 + 1 = 8 /\ H + 5 + 1 = H + 6
    BY <1>h
  <2>2. Holds(t6, 7 + 1, H + 5 + 1, PipeEnds \cup {"null"} \cup {"null"})
    BY <1>5, <2>1, OpenedHolds
  <2>3. PipeEnds \cup {"null"} \cup {"null"} = PipeEnds \cup {"null"}
    OBVIOUS
  <2> QED
    BY <2>1, <2>2, <2>3
<1> HIDE DEF t6
<1>7. Holds(t7, 9, H + 7, PipeEnds \cup {"null"})
  <2>1. H + 6 < LastNumber /\ 8 + 1 = 9 /\ H + 6 + 1 = H + 7
    BY <1>h
  <2>2. Holds(t7, 8 + 1, H + 6 + 1, PipeEnds \cup {"null"} \cup {"null"})
    BY <1>6, <2>1, OpenedHolds
  <2>3. PipeEnds \cup {"null"} \cup {"null"} = PipeEnds \cup {"null"}
    OBVIOUS
  <2> QED
    BY <2>1, <2>2, <2>3
<1> HIDE DEF t7
<1>8. Holds(t8, 10, H + 8, PipeEnds \cup {"null"} \cup {"reportRead"})
  <2>1. H + 7 < LastNumber /\ 9 + 1 = 10 /\ H + 7 + 1 = H + 8
    BY <1>h
  <2>2. Holds(t8, 9 + 1, H + 7 + 1, PipeEnds \cup {"null"} \cup {"reportRead"})
    BY <1>7, <2>1, OpenedHolds
  <2> QED
    BY <2>1, <2>2
<1>9. /\ Holds(t9, 11, H + 9, PipeEnds \cup {"null"} \cup {"reportRead"} \cup {"report"})
      /\ \A n \in DOMAIN t8 : n \in DOMAIN t9 /\ t9[n] = t8[n]
      /\ \A n \in DOMAIN t9 \ DOMAIN t8 : n > 10
  <2>1. H + 8 < LastNumber /\ 10 + 1 = 11 /\ H + 8 + 1 = H + 9
    BY <1>h
  <2>2. /\ Holds(t9, 10 + 1, H + 8 + 1,
                 PipeEnds \cup {"null"} \cup {"reportRead"} \cup {"report"})
        /\ \A n \in DOMAIN t8 : n \in DOMAIN t9 /\ t9[n] = t8[n]
        /\ \A n \in DOMAIN t9 \ DOMAIN t8 : n > 10
    <3> HIDE DEF t8
    <3> QED
      BY <1>8, <2>1, OpenedHolds
  <2> QED
    BY <2>1, <2>2
<1> HIDE DEF t8, t9
<1>10. \A n \in DOMAIN t8 : t8[n].file # "report"
  BY <1>8 DEF Holds, PipeEnds
<1>11. /\ \A n \in DOMAIN t9 : t9[n].kept = FALSE
       /\ \A file \in PipeEnds \cup {"reportRead", "report"} :
              \E n \in DOMAIN t9 : t9[n].file = file
  BY <1>9 DEF Holds
<1>12. t9[NumberOf(t9, "reportRead")].file = "reportRead"
  BY <1>11 DEF NumberOf
<1>13. /\ DOMAIN t = DOMAIN t9 \ {NumberOf(t9, "reportRead")}
       /\ \A n \in DOMAIN t : t[n] = t9[n]
  <2> DEFINE gone == {NumberOf(t9, "reportRead")}
  <2>1. t = Closed(t9, gone)
    BY <1>t
  <2> HIDE DEF gone
  <2>2. DOMAIN t = DOMAIN t9 \ gone /\ \A n \in DOMAIN t : t[n] = t9[n]
    BY <2>1 DEF Closed, Restrict
  <2> QED
    BY <2>2 DEF gone
<1>14. ASSUME NEW file \in PipeEnds \cup {"report"}
       PROVE  NumberOf(t, file) \in DOMAIN t /\ t[NumberOf(t, file)].file = file
  <2>1. PICK n \in DOMAIN t9 : t9[n].file = file
    BY <1>11
  <2>2. file # "reportRead"
    BY DEF PipeEnds
  <2>3. n \in DOMAIN t /\ t[n].file = file
    BY <1>12, <1>13, <2>1, <2>2
  <2> QED
    BY <2>3 DEF NumberOf
<1>15. NumberOf(t, "report") \notin {CommandFd, ResponseFd}
  <2> DEFINE r == NumberOf(t, "report")
  <2>1. r \in DOMAIN t /\ t[r].file = "report"
    BY <1>14
  <2> HIDE DEF r
  <2>2. r \in DOMAIN t9 /\ t9[r].file = "report"
    BY <1>13, <2>1
  <2>3. r \notin DOMAIN t8
    BY <1>9, <1>10, <2>2
  <2>4. r > 10 /\ r \in Nat
    BY <1>9, <2>2, <2>3 DEF Holds
  <2>5. r \notin {CommandFd, ResponseFd}
    BY <2>4 DEF CommandFd, ResponseFd
  <2> QED
    BY <2>5 DEF r
<1>16. \A n \in DOMAIN t : t[n].kept = FALSE
  BY <1>11, <1>13
<1> QED
  BY <1>14, <1>15, <1>16 DEF t

(***************************************************************************)
(* The hand-over.  In the child, a number that survives the exec is one of *)
(* a copy or, in the end, one of the two that Chromium expects; the number *)
(* of the report is none of these.                                         *)
(***************************************************************************)
Names(n, file) == n \in DOMAIN table /\ table[n].file = file
KeptAre(numbers) == \A n \in DOMAIN table : table[n].kept = TRUE <=> n \in numbers

ReportInv ==
    /\ Names(inherited["report"], "report")
    /\ pc # "report" =>
          /\ ~(table[inherited["report"]].kept = TRUE)
          /\ inherited["report"] \notin {CommandFd, ResponseFd}
          /\ \A end \in PipeEnds : inherited[end] # inherited["report"]

CopiesInv ==
    /\ pc \in {"group", "copyCommand"} =>
          /\ copies = <<>> /\ KeptAre({})
          /\ Names(inherited["commandRead"], "commandRead")
          /\ Names(inherited["responseWrite"], "responseWrite")
    /\ pc = "copyResponse" =>
          \E c \in TemporaryFdMin .. LastNumber :
              /\ copies = <<c>> /\ KeptAre({c})
              /\ Names(c, "commandRead")
              /\ Names(inherited["responseWrite"], "responseWrite")
    /\ pc = "place" =>
          \E c, d \in TemporaryFdMin .. LastNumber :
              /\ c # d /\ copies = <<c, d>> /\ KeptAre({c, d})
              /\ Names(c, "commandRead") /\ Names(d, "responseWrite")
    /\ pc \in {"close", "exec"} =>
          /\ KeptAre({CommandFd, ResponseFd})
          /\ Names(CommandFd, "commandRead") /\ Names(ResponseFd, "responseWrite")

AppInv ==
    /\ DOMAIN table = {CommandFd, ResponseFd}
    /\ Names(CommandFd, "commandRead") /\ Names(ResponseFd, "responseWrite")

HandInv ==
    process = "running" =>
        /\ pc \in ChildPlaces => ReportInv /\ CopiesInv
        /\ pc \notin ChildPlaces => AppInv
        /\ held = IF pc \in ChildPlaces \cup {"spawned"} THEN PipeEnds ELSE PipeEnds \ AppEnds

LEMMA HandInit == Init => HandInv
<1> SUFFICES ASSUME Init PROVE HandInv
  OBVIOUS
<1>1. PICK taken \in SUBSET (3 .. LastTaken) :
          /\ table = AtFork(taken)
          /\ inherited = [end \in PipeEnds \cup {"report"} |-> NumberOf(AtFork(taken), end)]
  BY DEF Init
<1>2. \A file \in PipeEnds \cup {"report"} : inherited[file] = NumberOf(table, file)
  BY <1>1
<1>3. /\ \A file \in PipeEnds \cup {"report"} : Names(inherited[file], file)
      /\ \A n \in DOMAIN table : table[n].kept = FALSE
      /\ inherited["report"] \notin {CommandFd, ResponseFd}
  <2>1. /\ \A file \in PipeEnds \cup {"report"} :
               /\ NumberOf(table, file) \in DOMAIN table
               /\ table[NumberOf(table, file)].file = file
        /\ \A n \in DOMAIN table : table[n].kept = FALSE
        /\ NumberOf(table, "report") \notin {CommandFd, ResponseFd}
    BY <1>1, ForkTable
  <2> QED
    BY <1>2, <2>1 DEF Names
<1>4. pc = "group" /\ copies = <<>> /\ held = PipeEnds
  BY DEF Init
<1>5. ReportInv
  <2>1. \A end \in PipeEnds : inherited[end] # inherited["report"]
    BY <1>3 DEF Names, PipeEnds
  <2> QED
    BY <1>3, <2>1 DEF ReportInv, Names
<1>6. CopiesInv
  BY <1>3, <1>4 DEF CopiesInv, KeptAre, PipeEnds
<1> QED
  BY <1>4, <1>5, <1>6 DEF HandInv, ChildPlaces

(* A copy gets a number of its own, from 5 on; nothing else changes. *)
LEMMA CopyMade ==
    ASSUME NEW end, Copy(end), inherited[end] \in DOMAIN table,
           table[inherited[end]].file = end
    PROVE  \E c \in TemporaryFdMin .. LastNumber :
              /\ c \notin DOMAIN table /\ DOMAIN table' = DOMAIN table \cup {c}
              /\ table'[c].file = end /\ table'[c].kept = TRUE
              /\ \A n \in DOMAIN table : table'[n] = table[n]
              /\ copies' = Append(copies, c)
<1> DEFINE c == Min(Free(table, TemporaryFdMin))
<1>1. /\ Free(table, TemporaryFdMin) # {}
      /\ table' = Named(table, c, end, TRUE)
      /\ copies' = Append(copies, c)
  BY DEF Copy, OpenAt
<1>2. c \in TemporaryFdMin .. LastNumber /\ c \notin DOMAIN table
  <2>1. TemporaryFdMin \in Nat
    BY DEF TemporaryFdMin
  <2>2. c \in Nat /\ TemporaryFdMin <= c /\ c <= LastNumber /\ c \notin DOMAIN table
    BY <1>1, <2>1, LowestFree
  <2> HIDE DEF c
  <2> QED
    BY <2>1, <2>2, NumbersAssumption
<1> HIDE DEF c
<1>3. /\ DOMAIN table' = DOMAIN table \cup {c}
      /\ table'[c].file = end /\ table'[c].kept = TRUE
      /\ \A n \in DOMAIN table : table'[n] = table[n]
  BY <1>1, <1>2 DEF Named
<1> QED
  BY <1>1, <1>2, <1>3

(* What the two dup2 calls and the closing of the copies leave. *)
LEMMA PlacedIs ==
    ASSUME NEW c \in TemporaryFdMin .. LastNumber, NEW d \in TemporaryFdMin .. LastNumber,
           c # d, copies = <<c, d>>, Names(c, "commandRead"), Names(d, "responseWrite"),
           NEW command \in BOOLEAN, NEW response \in BOOLEAN,
           table' = BothPlaced(command, response)
    PROVE  /\ \A n \in DOMAIN table \ {c, d, CommandFd, ResponseFd} :
                  n \in DOMAIN table' /\ table'[n] = table[n]
           /\ DOMAIN table' \subseteq DOMAIN table \cup {CommandFd, ResponseFd}
           /\ \A n \in DOMAIN table' : n \notin {c, d}
           /\ command => /\ Names(CommandFd, "commandRead")'
                         /\ table'[CommandFd].kept = TRUE
           /\ response => /\ Names(ResponseFd, "responseWrite")'
                          /\ table'[ResponseFd].kept = TRUE
<1> DEFINE t1 == Placed(table, c, CommandFd, command)
           t2 == Placed(t1, d, ResponseFd, response)
<1>1. /\ c # CommandFd /\ c # ResponseFd /\ d # CommandFd /\ d # ResponseFd
      /\ CommandFd # ResponseFd
  BY NumbersAssumption DEF TemporaryFdMin, CommandFd, ResponseFd
<1>2. table' = Closed(t2, {c, d})
  <2>1. Range(copies) = {c, d}
    <3>1. DOMAIN copies = {1, 2} /\ copies[1] = c /\ copies[2] = d
      OBVIOUS
    <3> QED
      BY <3>1 DEF Range
  <2>2. copies[1] = c /\ copies[2] = d
    OBVIOUS
  <2> QED
    BY <2>1, <2>2 DEF BothPlaced
<1>3. /\ DOMAIN table \subseteq DOMAIN t1 /\ DOMAIN t1 \subseteq DOMAIN table \cup {CommandFd}
      /\ \A n \in DOMAIN table \ {CommandFd} : t1[n] = table[n]
      /\ command => /\ CommandFd \in DOMAIN t1 /\ t1[CommandFd].file = "commandRead"
                    /\ t1[CommandFd].kept = TRUE
  BY <1>1 DEF Placed, Dup2, Named, Names
<1> HIDE DEF t1
<1>4. d \in DOMAIN t1 /\ t1[d].file = "responseWrite"
  BY <1>1, <1>3 DEF Names
<1>5. /\ DOMAIN t1 \subseteq DOMAIN t2 /\ DOMAIN t2 \subseteq DOMAIN t1 \cup {ResponseFd}
      /\ \A n \in DOMAIN t1 \ {ResponseFd} : t2[n] = t1[n]
      /\ response => /\ ResponseFd \in DOMAIN t2 /\ t2[ResponseFd].file = "responseWrite"
                     /\ t2[ResponseFd].kept = TRUE
  BY <1>1, <1>4 DEF Placed, Dup2, Named
<1> HIDE DEF t2
<1>6. DOMAIN table' = DOMAIN t2 \ {c, d} /\ \A n \in DOMAIN table' : table'[n] = t2[n]
  BY <1>2 DEF Closed, Restrict
<1>7. \A n \in DOMAIN table \ {c, d, CommandFd, ResponseFd} :
          n \in DOMAIN table' /\ table'[n] = table[n]
  BY <1>3, <1>5, <1>6
<1>8. DOMAIN table' \subseteq DOMAIN table \cup {CommandFd, ResponseFd}
      /\ \A n \in DOMAIN table' : n \notin {c, d}
  BY <1>3, <1>5, <1>6
<1>9. command => Names(CommandFd, "commandRead")' /\ table'[CommandFd].kept = TRUE
  BY <1>1, <1>3, <1>5, <1>6 DEF Names
<1>10. response => Names(ResponseFd, "responseWrite")' /\ table'[ResponseFd].kept = TRUE
  BY <1>1, <1>5, <1>6 DEF Names
<1> QED
  BY <1>7, <1>8, <1>9, <1>10

LEMMA HandStep == HandInv /\ [Next]_vars => HandInv'
<1> SUFFICES ASSUME HandInv, [Next]_vars, process' = "running" PROVE HandInv'
  BY DEF HandInv
<1> USE DEF identity, aborting, descriptors
<1>0. CASE process # "running"
  BY <1>0 DEF Next, vars, Prepare, SetGroup, CopyCommand, CopyResponse, PlaceEnds,
              CloseInherited, Exec, SpawnFails, Undisturbed, DropChildEnds, LookForDuplicates,
              PollExitCode, Abort, CheckExited, Terminate, WaitTerminated, Kill, WaitKilled,
              Reap, Tick, AppExits, Dies, NumberReused, Ended
<1> SUFFICES ASSUME process = "running" PROVE HandInv'
  BY <1>0
<1>1. /\ pc \in ChildPlaces => ReportInv /\ CopiesInv
      /\ pc \notin ChildPlaces => AppInv
      /\ held = IF pc \in ChildPlaces \cup {"spawned"} THEN PipeEnds ELSE PipeEnds \ AppEnds
  BY DEF HandInv
<1>2. CASE SetGroup
  <2>1. /\ pc = "group" /\ pc' \in {"report", "copyCommand"}
        /\ UNCHANGED <<table, inherited, copies, held>>
    BY <1>2 DEF SetGroup, Fails, Undisturbed
  <2>2. ReportInv /\ CopiesInv /\ held = PipeEnds
    BY <1>1, <2>1 DEF ChildPlaces
  <2>3. ReportInv'
    BY <2>1, <2>2 DEF ReportInv, Names
  <2>4. CopiesInv'
    BY <2>1, <2>2 DEF CopiesInv, Names, KeptAre
  <2> QED
    BY <2>1, <2>2, <2>3, <2>4 DEF HandInv, ChildPlaces
<1>3. CASE CopyCommand
  <2>1. /\ pc = "copyCommand" /\ UNCHANGED <<inherited, held>>
    BY <1>3 DEF CopyCommand, Undisturbed
  <2>2. ReportInv /\ CopiesInv /\ held = PipeEnds
    BY <1>1, <2>1 DEF ChildPlaces
  <2>3. CASE Fails /\ UNCHANGED <<table, copies>>
    <3>1. pc' = "report"
      BY <2>3 DEF Fails
    <3>2. ReportInv' /\ CopiesInv'
      BY <2>1, <2>2, <2>3, <3>1 DEF ReportInv, CopiesInv, Names
    <3> QED
      BY <2>1, <2>2, <3>1, <3>2 DEF HandInv, ChildPlaces
  <2>4. CASE Copy("commandRead") /\ pc' = "copyResponse"
    <3>1. /\ copies = <<>> /\ KeptAre({}) /\ Names(inherited["commandRead"], "commandRead")
          /\ Names(inherited["responseWrite"], "responseWrite")
      BY <2>1, <2>2 DEF CopiesInv
    <3>2. PICK c \in TemporaryFdMin .. LastNumber :
              /\ c \notin DOMAIN table /\ DOMAIN table' = DOMAIN table \cup {c}
              /\ table'[c].file = "commandRead" /\ table'[c].kept = TRUE
              /\ \A n \in DOMAIN table : table'[n] = table[n]
              /\ copies' = Append(copies, c)
      BY <2>4, <3>1, CopyMade DEF Names
    <3>3. copies' = <<c>>
      BY <3>1, <3>2
    <3>4. KeptAre({c})'
      BY <3>1, <3>2 DEF KeptAre
    <3>5. ReportInv'
      BY <2>1, <2>2, <2>4, <3>2 DEF ReportInv, Names
    <3>6. CopiesInv'
      BY <2>1, <2>4, <3>1, <3>2, <3>3, <3>4 DEF CopiesInv, Names
    <3> QED
      BY <2>1, <2>2, <2>4, <3>5, <3>6 DEF HandInv, ChildPlaces
  <2> QED
    BY <1>3, <2>3, <2>4 DEF CopyCommand
<1>4. CASE CopyResponse
  <2>1. /\ pc = "copyResponse" /\ UNCHANGED <<inherited, held>>
    BY <1>4 DEF CopyResponse, Undisturbed
  <2>2. ReportInv /\ CopiesInv /\ held = PipeEnds
    BY <1>1, <2>1 DEF ChildPlaces
  <2>3. PICK c \in TemporaryFdMin .. LastNumber :
            /\ copies = <<c>> /\ KeptAre({c}) /\ Names(c, "commandRead")
            /\ Names(inherited["responseWrite"], "responseWrite")
    BY <2>1, <2>2 DEF CopiesInv
  <2>4. CASE Fails /\ table' = Closed(table, {copies[1]})
    <3>1. pc' = "report" /\ copies[1] = c
      BY <2>3, <2>4 DEF Fails
    <3>2. DOMAIN table' = DOMAIN table \ {c} /\ \A n \in DOMAIN table' : table'[n] = table[n]
      BY <2>4, <3>1 DEF Closed, Restrict
    <3>3. inherited["report"] # c
      BY <2>1, <2>2, <2>3 DEF ReportInv, KeptAre, Names
    <3>4. ReportInv' /\ CopiesInv'
      BY <2>1, <2>2, <3>1, <3>2, <3>3 DEF ReportInv, CopiesInv, Names
    <3> QED
      BY <2>1, <2>2, <3>1, <3>4 DEF HandInv, ChildPlaces
  <2>5. CASE Copy("responseWrite") /\ pc' = "place"
    <3>1. PICK d \in TemporaryFdMin .. LastNumber :
              /\ d \notin DOMAIN table /\ DOMAIN table' = DOMAIN table \cup {d}
              /\ table'[d].file = "responseWrite" /\ table'[d].kept = TRUE
              /\ \A n \in DOMAIN table : table'[n] = table[n]
              /\ copies' = Append(copies, d)
      BY <2>3, <2>5, CopyMade DEF Names
    <3>2. copies' = <<c, d>> /\ c # d
      <4>1. c # d
        BY <2>3, <3>1 DEF Names
      <4>2. copies' = Append(<<c>>, d)
        BY <2>3, <3>1
      <4>3. Append(<<c>>, d) = <<c, d>>
        BY AppendToOne
      <4> QED
        BY <4>1, <4>2, <4>3
    <3>3. KeptAre({c, d})'
      BY <2>3, <3>1 DEF KeptAre
    <3>4. Names(c, "commandRead")' /\ Names(d, "responseWrite")'
      BY <2>3, <3>1 DEF Names
    <3>5. ReportInv'
      BY <2>1, <2>2, <2>5, <3>1 DEF ReportInv, Names
    <3>6. CopiesInv'
      BY <2>5, <3>2, <3>3, <3>4 DEF CopiesInv
    <3> QED
      BY <2>1, <2>2, <2>5, <3>5, <3>6 DEF HandInv, ChildPlaces
  <2> QED
    BY <1>4, <2>4, <2>5 DEF CopyResponse
<1>5. CASE PlaceEnds
  <2>1. pc = "place" /\ UNCHANGED <<inherited, held>>
    BY <1>5 DEF PlaceEnds, Undisturbed
  <2>2. ReportInv /\ CopiesInv /\ held = PipeEnds
    BY <1>1, <2>1 DEF ChildPlaces
  <2>3. PICK c, d \in TemporaryFdMin .. LastNumber :
            /\ c # d /\ copies = <<c, d>> /\ KeptAre({c, d})
            /\ Names(c, "commandRead") /\ Names(d, "responseWrite")
    BY <2>1, <2>2 DEF CopiesInv
  <2>4. PICK command, response \in BOOLEAN :
            /\ table' = BothPlaced(command, response)
            /\ pc' = IF command /\ response THEN "close" ELSE "report"
    BY <1>5 DEF PlaceEnds
  <2>5. /\ \A n \in DOMAIN table \ {c, d, CommandFd, ResponseFd} :
               n \in DOMAIN table' /\ table'[n] = table[n]
        /\ DOMAIN table' \subseteq DOMAIN table \cup {CommandFd, ResponseFd}
        /\ \A n \in DOMAIN table' : n \notin {c, d}
        /\ command => Names(CommandFd, "commandRead")' /\ table'[CommandFd].kept = TRUE
        /\ response => Names(ResponseFd, "responseWrite")' /\ table'[ResponseFd].kept = TRUE
    BY <2>3, <2>4, PlacedIs
  <2>6. inherited["report"] \notin {c, d, CommandFd, ResponseFd}
    BY <2>1, <2>2, <2>3 DEF ReportInv, KeptAre, Names
  <2>7. ReportInv'
    BY <2>1, <2>2, <2>5, <2>6 DEF ReportInv, Names
  <2>8. pc' = "close" => KeptAre({CommandFd, ResponseFd})'
    <3> SUFFICES ASSUME pc' = "close", NEW n \in DOMAIN table'
                 PROVE  table'[n].kept = TRUE <=> n \in {CommandFd, ResponseFd}
      BY DEF KeptAre
    <3>1. command /\ response
      BY <2>4
    <3>2. CASE n \in {CommandFd, ResponseFd}
      BY <2>5, <3>1, <3>2
    <3>3. CASE n \notin {CommandFd, ResponseFd}
      <4>1. n \in DOMAIN table \ {c, d, CommandFd, ResponseFd}
        BY <2>5, <3>3
      <4>2. table'[n] = table[n] /\ ~(table[n].kept = TRUE)
        BY <2>3, <2>5, <4>1 DEF KeptAre
      <4> QED
        BY <3>3, <4>2
    <3> QED
      BY <3>2, <3>3
  <2>9. pc' = "close" => Names(CommandFd, "commandRead")' /\ Names(ResponseFd, "responseWrite")'
    BY <2>4, <2>5
  <2>10. CopiesInv'
    BY <2>4, <2>8, <2>9 DEF CopiesInv
  <2> QED
    BY <2>1, <2>2, <2>4, <2>7, <2>10 DEF HandInv, ChildPlaces
<1>6. CASE CloseInherited
  <2> DEFINE gone == {inherited[end] : end \in PipeEnds} \ {CommandFd, ResponseFd}
  <2>1. /\ pc = "close" /\ pc' = "exec" /\ UNCHANGED <<inherited, held>>
        /\ table' = Closed(table, gone)
    BY <1>6 DEF CloseInherited, Undisturbed
  <2>2. ReportInv /\ CopiesInv /\ held = PipeEnds
    BY <1>1, <2>1 DEF ChildPlaces
  <2>3. /\ CommandFd \notin gone /\ ResponseFd \notin gone
        /\ inherited["report"] \notin gone
    BY <2>1, <2>2 DEF ReportInv
  <2> HIDE DEF gone
  <2>4. DOMAIN table' = DOMAIN table \ gone /\ \A n \in DOMAIN table' : table'[n] = table[n]
    BY <2>1 DEF Closed, Restrict
  <2>5. ReportInv'
    BY <2>1, <2>2, <2>3, <2>4 DEF ReportInv, Names
  <2>6. CopiesInv'
    BY <2>1, <2>2, <2>3, <2>4 DEF CopiesInv, KeptAre, Names
  <2> QED
    BY <2>1, <2>2, <2>5, <2>6 DEF HandInv, ChildPlaces
<1>7. CASE Exec
  <2>1. pc = "exec" /\ UNCHANGED held
    BY <1>7 DEF Exec
  <2>2. ReportInv /\ CopiesInv /\ held = PipeEnds
    BY <1>1, <2>1 DEF ChildPlaces
  <2>3. CASE pc' = "report" /\ UNCHANGED <<table, inherited, copies>>
    <3>1. ReportInv' /\ CopiesInv'
      BY <2>1, <2>2, <2>3 DEF ReportInv, CopiesInv, Names
    <3> QED
      BY <2>1, <2>2, <2>3, <3>1 DEF HandInv, ChildPlaces
  <2>4. CASE pc' = "spawned" /\ table' = AfterExec(table)
    <3>1. /\ KeptAre({CommandFd, ResponseFd})
          /\ Names(CommandFd, "commandRead") /\ Names(ResponseFd, "responseWrite")
      BY <2>1, <2>2 DEF CopiesInv
    <3>2. {n \in DOMAIN table : table[n].kept} = {CommandFd, ResponseFd}
      BY <3>1 DEF KeptAre, Names
    <3>3. table' = [n \in {CommandFd, ResponseFd} |-> table[n]]
      BY <2>4, <3>2 DEF AfterExec, Restrict
    <3>4. AppInv'
      BY <3>1, <3>3 DEF AppInv, Names
    <3> QED
      BY <2>1, <2>2, <2>4, <3>4 DEF HandInv, ChildPlaces
  <2> QED
    BY <1>7, <2>3, <2>4 DEF Exec
<1>8. CASE SpawnFails
  BY <1>8 DEF SpawnFails
<1>9. CASE DropChildEnds
  <2>1. /\ pc = "spawned" /\ pc' = "compare" /\ held' = held \ AppEnds /\ UNCHANGED table
    BY <1>9 DEF DropChildEnds
  <2>2. AppInv /\ held = PipeEnds
    BY <1>1, <2>1 DEF ChildPlaces
  <2>3. AppInv'
    BY <2>1, <2>2 DEF AppInv, Names
  <2> QED
    BY <2>1, <2>2, <2>3 DEF HandInv, ChildPlaces
<1>10. CASE \/ LookForDuplicates \/ PollExitCode \/ Abort \/ CheckExited \/ Terminate
            \/ WaitTerminated \/ Kill \/ WaitKilled \/ Tick
  <2>1. /\ pc \notin ChildPlaces \cup {"spawned"} /\ pc' \notin ChildPlaces \cup {"spawned"}
        /\ UNCHANGED held
    BY <1>10 DEF LookForDuplicates, PollExitCode, Abort, CheckExited, Terminate, WaitTerminated,
                 Kill, WaitKilled, Tick, Return, Escalate, ChildPlaces
  <2>2. UNCHANGED table
    BY <1>10 DEF LookForDuplicates, PollExitCode, Abort, CheckExited, Terminate, WaitTerminated,
                 Kill, WaitKilled, Tick, Dies
  <2>3. AppInv'
    BY <1>1, <2>1, <2>2 DEF AppInv, Names
  <2> QED
    BY <1>1, <2>1, <2>3 DEF HandInv
<1>11. CASE AppExits \/ NumberReused
  BY <1>11 DEF AppExits, Dies, NumberReused
<1>12. CASE Ended \/ UNCHANGED vars
  <2>1. UNCHANGED <<process, pc, table, inherited, copies, held>>
    BY <1>12 DEF Ended, vars
  <2>2. UNCHANGED <<ReportInv, CopiesInv, AppInv>>
    BY <2>1 DEF ReportInv, CopiesInv, AppInv, KeptAre, Names
  <2> QED
    BY <1>1, <2>1, <2>2 DEF HandInv
<1> QED
  BY <1>2, <1>3, <1>4, <1>5, <1>6, <1>7, <1>8, <1>9, <1>10, <1>11, <1>12 DEF Next, Prepare

(* Whatever numbers the pipes and the launcher's other files have, and     *)
(* whichever call of prepare_child fails: an app that runs finds its two   *)
(* ends at 3 and 4 and no other end, and the launcher keeps the other two; *)
(* until the exec the child's report of a failure stays open.              *)
THEOREM PipesHandedOver == Spec => []PipesAreHandedOver
<1>1. HandInv => PipesAreHandedOver
  <2> SUFFICES ASSUME HandInv, process = "running" PROVE PipesAreHandedOver
    BY DEF PipesAreHandedOver, AppGetsItsPipes, EachEndHasOneOwner, FailureIsReported
  <2>1. CASE pc \in ChildPlaces
    BY <2>1 DEF HandInv, ReportInv, Names, PipesAreHandedOver, AppGetsItsPipes,
                EachEndHasOneOwner, FailureIsReported
  <2>2. CASE pc \notin ChildPlaces
    <3>1. AppInv /\ (pc # "spawned" => held = PipeEnds \ AppEnds)
      BY <2>2 DEF HandInv
    <3>2. AppGetsItsPipes
      BY <3>1 DEF AppInv, Names, AppGetsItsPipes, CommandFd, ResponseFd
    <3>3. {table[n].file : n \in DOMAIN table} = AppEnds
      BY <3>1 DEF AppInv, Names, AppEnds
    <3>4. Cardinality(DOMAIN table) = 2 /\ Cardinality(AppEnds) = 2
      <4>1. ASSUME NEW a, NEW b, a # b PROVE Cardinality({a, b}) = 2
        <5>1. IsFiniteSet({a}) /\ Cardinality({a}) = 1
          BY FS_Singleton
        <5>2. Cardinality({a} \cup {b}) = 2
          BY <4>1, <5>1, FS_AddElement
        <5>3. {a, b} = {a} \cup {b}
          OBVIOUS
        <5> QED
          BY <5>2, <5>3
      <4>2. CommandFd # ResponseFd
        BY DEF CommandFd, ResponseFd
      <4>3. Cardinality({CommandFd, ResponseFd}) = 2
        BY <4>1, <4>2
      <4>4. Cardinality({"commandRead", "responseWrite"}) = 2
        BY <4>1
      <4> QED
        BY <3>1, <4>3, <4>4 DEF AppInv, AppEnds
    <3>5. EachEndHasOneOwner
      BY <3>1, <3>3, <3>4 DEF EachEndHasOneOwner
    <3> QED
      BY <2>2, <3>2, <3>5 DEF PipesAreHandedOver, FailureIsReported
  <2> QED
    BY <2>1, <2>2
<1> QED
  BY HandInit, HandStep, <1>1, PTL DEF Spec
=============================================================================
