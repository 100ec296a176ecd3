---------------------------- MODULE MacAppProcess ----------------------------
(***************************************************************************)
(* The app as macOS's backend handles it.  The forked child takes a group  *)
(* of its own and renumbers its pipe ends before it execs; exit_code reaps *)
(* the child; abort_patch asks the process group to end (SIGTERM), waits,  *)
(* and kills it (SIGKILL).  Drop aborts again whatever happened before.    *)
(* Signals go to a number, which the system may give to another process    *)
(* group once the child has been reaped.                                   *)
(***************************************************************************)
EXTENDS ChildDescriptors

CONSTANTS Grace,        \* TERMINATE_GRACE, in polls of wait_for_exit
          KillDelay     \* bound: polls until a SIGKILL has taken effect

ASSUME GraceAssumption == Grace \in Nat /\ KillDelay \in Nat

VARIABLES process,      \* the child: running, a zombie, or reaped
          number,       \* whose its process group id is
          leads,        \* the child leads a process group of its own
          stubborn,     \* it ignores SIGTERM
          pending,      \* a signal that will end it, and the polls until then
          pc,           \* where the child is up to its exec, then the caller
          table,        \* the descriptors of the child
          inherited,    \* the numbers its pipe ends had at the fork
          copies,       \* the numbers of the copies of its two ends
          held,         \* the pipe ends the launcher has open
          dropping,     \* this is the abort of Drop
          left,         \* polls until wait_for_exit gives up
          signalled     \* history: who was sent a signal

descriptors == <<table, inherited, copies, held>>
aborting == <<dropping, left, signalled>>
identity == <<number, leads, stubborn>>
vars == <<process, identity, pending, pc, descriptors, aborting>>

NoSignal == [signal |-> "none", delay |-> 0]
ChildPlaces == {"group", "copyCommand", "copyResponse", "place", "close", "exec", "report"}

(* Command::spawn forks.  The launcher holds the file of its order guard   *)
(* and whatever it inherited itself.                                       *)
Init ==
    /\ process = "running" /\ number = "app" /\ leads = FALSE /\ stubborn \in BOOLEAN
    /\ pending = NoSignal
    /\ pc = "group" /\ dropping = FALSE /\ left = 0 /\ signalled = {}
    /\ \E taken \in SUBSET (3 .. LastTaken) :
          /\ taken # {}
          /\ table = AtFork(taken)
          /\ inherited = [end \in PipeEnds \cup {"report"} |-> NumberOf(AtFork(taken), end)]
    /\ copies = <<>> /\ held = PipeEnds

(***************************************************************************)
(* prepare_child, in the child: the pipe ends move to the numbers Chromium *)
(* expects.  A call that fails is reported to spawn, and there is no app.  *)
(***************************************************************************)
Fails == pc' = "report" /\ UNCHANGED leads
Undisturbed == UNCHANGED <<process, number, stubborn, pending, inherited, held, aborting>>

SetGroup ==
    /\ pc = "group"
    /\ \/ Fails
       \/ pc' = "copyCommand" /\ leads' = TRUE
    /\ UNCHANGED <<table, copies>> /\ Undisturbed

(* F_DUPFD, which fails when every number up to the limit is taken. *)
Copy(end) ==
    /\ Free(table, TemporaryFdMin) # {}
    /\ table' = OpenAt(table, TemporaryFdMin, table[inherited[end]].file, TRUE)
    /\ copies' = Append(copies, Min(Free(table, TemporaryFdMin)))
    /\ UNCHANGED leads

CopyCommand ==
    /\ pc = "copyCommand"
    /\ \/ Fails /\ UNCHANGED <<table, copies>>
       \/ Copy("commandRead") /\ pc' = "copyResponse"
    /\ Undisturbed

CopyResponse ==
    /\ pc = "copyResponse"
    /\ \/ Fails /\ table' = Closed(table, {copies[1]}) /\ UNCHANGED copies
       \/ Copy("responseWrite") /\ pc' = "place"
    /\ Undisturbed

(* The table with an end at the number for it, if dup2 does its work. *)
Placed(t, source, target, done) == IF done THEN Dup2(t, source, target) ELSE t

(* Mutant: the ends are placed from where they are, without copies. *)
PlaceFromInherited(command, response) ==
    Placed(Placed(table, inherited["commandRead"], CommandFd, command),
           inherited["responseWrite"], ResponseFd, response)

(* Both ends are placed, and the copies closed, before an error is looked at. *)
BothPlaced(command, response) ==
    Closed(Placed(Placed(table, copies[1], CommandFd, command),
                  copies[2], ResponseFd, response), Range(copies))

PlaceEnds ==
    /\ pc = "place"
    /\ \E command, response \in BOOLEAN :
          /\ table' = BothPlaced(command, response)
          /\ pc' = IF command /\ response THEN "close" ELSE "report"
    /\ UNCHANGED <<leads, copies>> /\ Undisturbed

CloseInherited ==
    /\ pc = "close"
    /\ table' = Closed(table, {inherited[end] : end \in PipeEnds} \ {CommandFd, ResponseFd})
    /\ pc' = "exec"
    /\ UNCHANGED <<leads, copies>> /\ Undisturbed

(***************************************************************************)
(* Command::spawn returns once the child has execed, reported, or died.    *)
(***************************************************************************)
Exec ==
    /\ pc = "exec"
    /\ \/ pc' = "report" /\ UNCHANGED <<table, inherited, copies>>
       \/ /\ pc' = "spawned" /\ table' = AfterExec(table)
          /\ inherited' = <<>> /\ copies' = <<>>
    /\ UNCHANGED <<process, identity, pending, held, aborting>>

SpawnFails ==
    /\ pc = "report"
    /\ pc' = "failed" /\ process' = "reaped"
    /\ table' = <<>> /\ inherited' = <<>> /\ copies' = <<>> /\ held' = {}
    /\ UNCHANGED <<identity, pending, aborting>>

(* launch_codex_with_pipe drops the ends that are the child's now. *)
DropChildEnds ==
    /\ pc = "spawned"
    /\ held' = held \ AppEnds
    /\ pc' = "compare"
    /\ UNCHANGED <<process, identity, pending, table, inherited, copies, aborting>>

(* It looks for another app, aborts its own if there is one or if it       *)
(* cannot tell, and hands it to the session otherwise.                     *)
LookForDuplicates ==
    /\ pc = "compare"
    /\ \/ pc' = "session" /\ UNCHANGED dropping
       \/ pc' = "check" /\ dropping' \in BOOLEAN
    /\ UNCHANGED <<process, identity, pending, descriptors, left, signalled>>

(* exit_code: try_wait reaps the child, and remembers its status. *)
ExitKnown == process # "running"
Reap == process' = IF process = "running" THEN "running" ELSE "reaped"

(* A signal to the number; ESRCH, from a group that is gone, is ignored.   *)
Signal(kind, delay) ==
    /\ signalled' = IF number = "app" /\ (process = "reaped" \/ ~leads)
                    THEN signalled ELSE signalled \cup {number}
    /\ pending' = IF process = "running" /\ leads /\ ~(kind = "term" /\ stubborn)
                  THEN [signal |-> kind, delay |-> delay] ELSE pending

(***************************************************************************)
(* The caller: the session polls the exit code, may abort, and drops.      *)
(***************************************************************************)
PollExitCode ==
    /\ pc = "session" /\ Reap
    /\ UNCHANGED <<identity, pending, pc, descriptors, aborting>>

Abort ==
    /\ pc = "session"
    /\ pc' = "check" /\ dropping' \in BOOLEAN
    /\ UNCHANGED <<process, identity, pending, descriptors, left, signalled>>

(* abort_patch returns: to the caller, which goes on to drop the app. *)
Return == IF dropping THEN pc' = "done" /\ UNCHANGED dropping
                      ELSE pc' = "check" /\ dropping' = TRUE

(* Mutant: the signal is sent without asking whether the app has exited. *)
CheckNothing ==
    /\ pc = "check" /\ pc' = "term"
    /\ UNCHANGED <<process, identity, pending, descriptors, aborting>>

(* try_wait may err, which `.ok().flatten()` takes for an app that runs.    *)
(* That is left out: an app that ended then goes through the same steps as *)
(* one that ends right after the question.                                 *)
CheckExited ==
    /\ pc = "check" /\ Reap
    /\ IF ExitKnown THEN Return ELSE pc' = "term" /\ UNCHANGED dropping
    /\ UNCHANGED <<identity, pending, descriptors, left, signalled>>

Terminate ==
    /\ pc = "term"
    /\ \E delay \in 0 .. KillDelay : Signal("term", delay)
    /\ pc' = "waitTerm" /\ left' = Grace
    /\ UNCHANGED <<process, identity, descriptors, dropping>>

(* Mutant: an app that ignores SIGTERM is given up. *)
GiveUpOn(next) == Return /\ UNCHANGED left

(* The app is still there when the grace ends. *)
Escalate(next) == pc' = next /\ UNCHANGED <<dropping, left>>

(* wait_for_exit, with the exit code looked at before the deadline. *)
WaitTerminated ==
    /\ pc = "waitTerm" /\ Reap
    /\ \/ ExitKnown /\ Return /\ UNCHANGED left
       \/ ~ExitKnown /\ left = 0 /\ Escalate("kill")
    /\ UNCHANGED <<identity, pending, descriptors, signalled>>

Kill ==
    /\ pc = "kill"
    /\ \E delay \in 0 .. KillDelay : Signal("kill", delay)
    /\ pc' = "waitKill" /\ left' = Grace
    /\ UNCHANGED <<process, identity, descriptors, dropping>>

WaitKilled ==
    /\ pc = "waitKill" /\ Reap
    /\ ExitKnown \/ left = 0
    /\ Return
    /\ UNCHANGED <<identity, pending, descriptors, left, signalled>>

(***************************************************************************)
(* Time and the system.                                                    *)
(***************************************************************************)
Dies == process = "running" /\ process' = "zombie" /\ table' = <<>>

(* One poll interval of a wait passes; a signal takes effect in its time.  *)
Tick ==
    /\ pc \in {"waitTerm", "waitKill"} /\ left > 0 /\ process = "running"
    /\ left' = left - 1
    /\ IF pending.signal # "none" /\ pending.delay = 0
       THEN Dies /\ UNCHANGED pending
       ELSE /\ pending' = [pending EXCEPT !.delay = IF @ = 0 THEN 0 ELSE @ - 1]
            /\ UNCHANGED <<process, table>>
    /\ UNCHANGED <<identity, pc, dropping, signalled, inherited, copies, held>>

(* A child that dies before it execs reports nothing: spawn returns it. *)
AppExits ==
    /\ Dies
    /\ pc' = IF pc \in ChildPlaces THEN "spawned" ELSE pc
    /\ inherited' = <<>> /\ copies' = <<>>
    /\ UNCHANGED <<identity, pending, held, aborting>>

NumberReused ==
    /\ process = "reaped" /\ number = "app" /\ number' = "other"
    /\ UNCHANGED <<process, leads, stubborn, pending, pc, descriptors, aborting>>

Ended == pc \in {"done", "failed"} /\ UNCHANGED vars

Prepare == \/ SetGroup \/ CopyCommand \/ CopyResponse \/ PlaceEnds
           \/ CloseInherited \/ Exec \/ SpawnFails

Next == \/ Prepare \/ DropChildEnds \/ LookForDuplicates
        \/ PollExitCode \/ Abort \/ CheckExited \/ Terminate \/ WaitTerminated
        \/ Kill \/ WaitKilled \/ Tick \/ AppExits \/ NumberReused \/ Ended

Spec == Init /\ [][Next]_vars

-----------------------------------------------------------------------------
(* No signal goes to a process group that merely inherited the number of   *)
(* the app, although Drop aborts an app that is long gone.                 *)
SignalsReachOnlyTheApp == "other" \notin signalled

(* When the launcher lets go of the app, the app has ended, whether or not *)
(* it listens to SIGTERM, if the system carries a SIGKILL out in time.     *)
AbortEndsApp == pc = "done" /\ KillDelay < Grace => process # "running"

(* Whatever numbers the pipes got in the launcher, one of them the other's *)
(* number perhaps, an app that runs finds its two ends at 3 and 4.         *)
AppGetsItsPipes ==
    process = "running" /\ pc \notin ChildPlaces =>
        \A n \in {CommandFd, ResponseFd} :
            /\ n \in DOMAIN table
            /\ table[n].file = IF n = CommandFd THEN "commandRead" ELSE "responseWrite"

(* Once the app is started, each pipe end is open once: an app that ends   *)
(* closes its side for the launcher, and a launcher that ends closes its   *)
(* own for the app.                                                        *)
EachEndHasOneOwner ==
    process = "running" /\ pc \notin ChildPlaces \cup {"spawned"} =>
        /\ held = PipeEnds \ AppEnds
        /\ {table[n].file : n \in DOMAIN table} = AppEnds
        /\ Cardinality(DOMAIN table) = Cardinality(AppEnds)

(* Until the exec the child can still report that it failed: renumbering   *)
(* takes no descriptor that is in use.                                     *)
FailureIsReported ==
    process = "running" /\ pc \in ChildPlaces =>
        /\ inherited["report"] \in DOMAIN table
        /\ table[inherited["report"]].file = "report"

(* prepare_child hands the pipes over whatever numbers they had and        *)
(* whichever of its calls fails: to an app that then has its two ends,     *)
(* each with one owner, or to none, and then spawn is told.                *)
PipesAreHandedOver == AppGetsItsPipes /\ EachEndHasOneOwner /\ FailureIsReported
=============================================================================
