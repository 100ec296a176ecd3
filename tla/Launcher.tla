------------------------------ MODULE Launcher ------------------------------
(***************************************************************************)
(* run_launch of main.rs with the backend of either system, in a world     *)
(* where other launchers run, the user starts and quits the app, an update *)
(* rewrites the installed files, and a launcher may die at any moment (a   *)
(* panic aborts it: Cargo.toml).                                           *)
(*                                                                         *)
(* The order guard reaches as far as a login session or temporary          *)
(* directory does (`scope`); the process list reaches every app.  A file   *)
(* is its version: a rewrite never brings an earlier version back.         *)
(***************************************************************************)
EXTENDS Naturals

CONSTANTS Launchers,    \* launcher processes
          NoLauncher,
          Scopes,       \* login sessions, or temporary directories
          LastFile,     \* how many files snapshots are taken of
          MaxVersion    \* bound: rewrites of a file

Asar == 1               \* app.asar is the first of them

ASSUME LaunchersAssumption == NoLauncher \notin Launchers
ASSUME FilesAssumption == LastFile \in Nat \ {0}
ASSUME ScopesAssumption == Scopes # {} /\ MaxVersion \in Nat

Files == 1 .. LastFile
Versions == 0 .. MaxVersion

VARIABLES platform,     \* the system the launchers were built for
          installed,    \* the version of each installed file
          userApp,      \* an app the user started runs
          orphans,      \* states of apps whose launcher is gone
          holder,       \* who holds the order guard of each scope
          pc,           \* where run_launch is
          scope,        \* where the launcher was started
          todo,         \* the file to look at next
          snapshots,    \* verification_snapshots
          planned,      \* the archive versions the plan was read from
          verified,     \* history: the archive version that was verified
          child,        \* the app it spawned
          outcome       \* what run_launch returns

vars == <<platform, installed, userApp, orphans, holder, pc, scope, todo,
          snapshots, planned, verified, child, outcome>>
world == <<installed, userApp, orphans>>
setting == <<scope, platform>>
plan  == <<todo, snapshots, planned, verified>>

Places == {"idle", "check", "snapshot", "open", "scan", "verify", "launch",
           "spawn", "duplicates", "resume", "recheck", "session",
           "drop", "release"}
Apps == {"suspended", "running"}

TypeOK ==
    /\ platform \in {"windows", "macos"}
    /\ installed \in [Files -> Versions]
    /\ userApp \in BOOLEAN
    /\ orphans \subseteq Apps
    /\ holder \in [Scopes -> Launchers \cup {NoLauncher}]
    /\ pc \in [Launchers -> Places]
    /\ scope \in [Launchers -> Scopes]
    /\ todo \in [Launchers -> Files]
    /\ snapshots \in [Launchers -> [Files -> Versions]]
    /\ planned \in [Launchers -> SUBSET Versions]
    /\ verified \in [Launchers -> Versions]
    /\ child \in [Launchers -> Apps \cup {"none"}]
    /\ outcome \in [Launchers -> {"none", "alreadyRunning", "failed", "ended", "died"}]

Init ==
    /\ platform \in {"windows", "macos"}
    /\ installed = [f \in Files |-> 0]
    /\ userApp \in BOOLEAN
    /\ orphans = {}
    /\ holder = [s \in Scopes |-> NoLauncher]
    /\ pc = [l \in Launchers |-> "idle"]
    /\ scope \in [Launchers -> Scopes]
    /\ todo = [l \in Launchers |-> Asar]
    /\ snapshots = [l \in Launchers |-> [f \in Files |-> 0]]
    /\ planned = [l \in Launchers |-> {}]
    /\ verified = [l \in Launchers |-> 0]
    /\ child = [l \in Launchers |-> "none"]
    /\ outcome = [l \in Launchers |-> "none"]

At(l, place)   == pc[l] = place
Goto(l, place) == pc' = [pc EXCEPT ![l] = place]

(* run_launch returns: its locals are dropped next, the guard last. *)
Leave(l, result) ==
    /\ Goto(l, "drop")
    /\ outcome' = [outcome EXCEPT ![l] = result]

(* is_codex_app_running, the launcher's own child excluded.  A suspended   *)
(* process counts.                                                         *)
AppIsRunning(l) ==
    userApp \/ orphans # {} \/ \E k \in Launchers \ {l} : child[k] # "none"

(***************************************************************************)
(* Up to the launch.                                                       *)
(***************************************************************************)
AcquireGuard(l) ==
    /\ At(l, "idle")
    /\ planned' = [planned EXCEPT ![l] = {}]
    /\ \E s \in Scopes :
        /\ scope' = [scope EXCEPT ![l] = s]
        /\ IF holder[s] = NoLauncher
           THEN /\ holder' = [holder EXCEPT ![s] = l]
                /\ Goto(l, "check")
                /\ outcome' = [outcome EXCEPT ![l] = "none"]
           ELSE /\ outcome' = [outcome EXCEPT ![l] = "alreadyRunning"]
                /\ UNCHANGED <<holder, pc>>
    /\ UNCHANGED <<world, platform, todo, snapshots, verified, child>>

CheckRunning(l) ==
    /\ At(l, "check")
    /\ todo' = [todo EXCEPT ![l] = Asar]
    /\ IF AppIsRunning(l)
       THEN Leave(l, "alreadyRunning")
       ELSE Goto(l, "snapshot") /\ UNCHANGED outcome
    /\ UNCHANGED <<world, holder, setting, snapshots, planned, verified, child>>

(* plan_patches: every snapshot comes before the archive is opened. *)
SnapshotFile(l) ==
    /\ At(l, "snapshot")
    /\ snapshots' = [snapshots EXCEPT ![l][todo[l]] = installed[todo[l]]]
    /\ IF todo[l] = LastFile
       THEN Goto(l, "open") /\ UNCHANGED todo
       ELSE todo' = [todo EXCEPT ![l] = @ + 1] /\ UNCHANGED pc
    /\ UNCHANGED <<world, holder, setting, planned, verified, child, outcome>>

OpenArchive(l) ==
    /\ At(l, "open")
    /\ planned' = [planned EXCEPT ![l] = {installed[Asar]}]
    /\ Goto(l, "scan")
    /\ UNCHANGED <<world, holder, setting, todo, snapshots, verified, child, outcome>>

(* Mutant: the snapshot of the archive is taken once it has been read. *)
ScanBeforeSnapshot(l) ==
    /\ At(l, "scan")
    /\ planned' = [planned EXCEPT ![l] = @ \cup {installed[Asar]}]
    /\ snapshots' = [snapshots EXCEPT ![l][Asar] = installed[Asar]]
    /\ todo' = [todo EXCEPT ![l] = Asar]
    /\ Goto(l, "verify")
    /\ UNCHANGED <<world, holder, setting, verified, child, outcome>>

(* The entries are read after the header, and may be of a later version. *)
ScanArchive(l) ==
    /\ At(l, "scan")
    /\ planned' = [planned EXCEPT ![l] = @ \cup {installed[Asar]}]
    /\ todo' = [todo EXCEPT ![l] = Asar]
    /\ Goto(l, "verify")
    /\ UNCHANGED <<world, holder, setting, snapshots, verified, child, outcome>>

(* verify_plan_snapshots, file by file. *)
VerifySnapshot(l) ==
    /\ At(l, "verify")
    /\ IF installed[todo[l]] # snapshots[l][todo[l]]
       THEN Leave(l, "failed") /\ UNCHANGED <<todo, verified>>
       ELSE /\ verified' = IF todo[l] = Asar
                           THEN [verified EXCEPT ![l] = installed[Asar]]
                           ELSE verified
            /\ UNCHANGED outcome
            /\ IF todo[l] = LastFile
               THEN Goto(l, "launch") /\ UNCHANGED todo
               ELSE todo' = [todo EXCEPT ![l] = @ + 1] /\ UNCHANGED pc
    /\ UNCHANGED <<world, holder, setting, snapshots, planned, child>>

(***************************************************************************)
(* launch_codex_with_pipe.  macOS looks for a running app again before it  *)
(* spawns; Windows spawns suspended.  Both look again once the app exists. *)
(***************************************************************************)
CheckBeforeSpawn(l) ==
    /\ At(l, "launch")
    /\ IF platform = "macos" /\ AppIsRunning(l)
       THEN Leave(l, "alreadyRunning")
       ELSE Goto(l, "spawn") /\ UNCHANGED outcome
    /\ UNCHANGED <<world, holder, setting, plan, child>>

Spawn(l) ==
    /\ At(l, "spawn")
    /\ child' = [child EXCEPT ![l] = IF platform = "windows" THEN "suspended"
                                                             ELSE "running"]
    /\ Goto(l, "duplicates")
    /\ UNCHANGED <<world, holder, setting, plan, outcome>>

Started(l) == Goto(l, IF platform = "windows" THEN "resume" ELSE "session")

(* Mutant: the app that was spawned is not compared with others. *)
TrustEarlierCheck(l) ==
    /\ At(l, "duplicates")
    /\ Started(l) /\ UNCHANGED <<child, outcome>>
    /\ UNCHANGED <<world, holder, setting, plan>>

(* Mutant: a failed kill of the duplicate is not reported. *)
IgnoreFailedKill(l) ==
    /\ At(l, "duplicates")
    /\ IF AppIsRunning(l)
       THEN Leave(l, "alreadyRunning")
            /\ child' \in {child, [child EXCEPT ![l] = "none"]}
       ELSE Started(l) /\ UNCHANGED <<child, outcome>>
    /\ UNCHANGED <<world, holder, setting, plan>>

(* The duplicate is killed before it is reported.  Windows reports a kill  *)
(* that fails instead, and leaves the process to Drop.                     *)
CheckDuplicates(l) ==
    /\ At(l, "duplicates")
    /\ IF AppIsRunning(l)
       THEN \/ Leave(l, "alreadyRunning") /\ child' = [child EXCEPT ![l] = "none"]
            \/ platform = "windows" /\ Leave(l, "failed") /\ UNCHANGED child
       ELSE Started(l) /\ UNCHANGED <<child, outcome>>
    /\ UNCHANGED <<world, holder, setting, plan>>

(* The app may have ended by itself, suspended or not. *)
Resume(l) ==
    /\ At(l, "resume")
    /\ child' = [child EXCEPT ![l] = IF @ = "suspended" THEN "running" ELSE @]
    /\ Goto(l, "recheck")
    /\ UNCHANGED <<world, holder, setting, plan, outcome>>

(* The identity of the resumed process is the installed package's. *)
RecheckIdentity(l) ==
    /\ At(l, "recheck")
    /\ Goto(l, "session")
    /\ UNCHANGED <<world, holder, setting, plan, child, outcome>>

(* PatchSession::run: FastSession models what happens here. *)
SessionEnds(l) ==
    /\ At(l, "session")
    /\ \E result \in {"ended", "failed"} : Leave(l, result)
    /\ UNCHANGED <<world, holder, setting, plan, child>>

(* Any step on the way may fail: a probe, an unsafe plan, a spawn, an      *)
(* identity that does not match.                                           *)
StepFails(l) ==
    /\ pc[l] \notin {"idle", "session", "drop", "release"}
    /\ Leave(l, "failed")
    /\ UNCHANGED <<world, holder, setting, plan, child>>

(***************************************************************************)
(* Locals are dropped in reverse order: the app before the guard.          *)
(***************************************************************************)
(* Mutant: the guard is dropped first. *)
DropGuardFirst(l) ==
    /\ At(l, "drop")
    /\ holder' = [holder EXCEPT ![scope[l]] = NoLauncher]
    /\ Goto(l, "release")
    /\ UNCHANGED <<world, setting, plan, child, outcome>>

(* On Windows the kill may fail silently: the process is left behind. *)
DropApp(l) ==
    /\ At(l, "drop")
    /\ child' = [child EXCEPT ![l] = "none"]
    /\ \/ UNCHANGED orphans
       \/ /\ platform = "windows" /\ child[l] # "none"
          /\ orphans' = orphans \cup {child[l]}
    /\ Goto(l, "release")
    /\ UNCHANGED <<installed, userApp, holder, setting, plan, outcome>>

DropGuard(l) ==
    /\ At(l, "release")
    /\ holder' = [holder EXCEPT ![scope[l]] = NoLauncher]
    /\ Goto(l, "idle")
    /\ UNCHANGED <<world, setting, plan, child, outcome>>

(***************************************************************************)
(* The world.                                                              *)
(***************************************************************************)
(* A launcher that dies drops nothing; the system takes back its guard.    *)
LauncherDies(l) ==
    /\ ~At(l, "idle")
    /\ Goto(l, "idle")
    /\ outcome' = [outcome EXCEPT ![l] = "died"]
    /\ holder' = IF holder[scope[l]] = l
                 THEN [holder EXCEPT ![scope[l]] = NoLauncher] ELSE holder
    /\ child' = [child EXCEPT ![l] = "none"]
    /\ orphans' = orphans \cup ({child[l]} \cap Apps)
    /\ UNCHANGED <<installed, userApp, setting, plan>>

AppEnds(l) ==
    /\ child[l] # "none"
    /\ child' = [child EXCEPT ![l] = "none"]
    /\ UNCHANGED <<world, holder, pc, setting, plan, outcome>>

OrphanEnds ==
    /\ \E app \in orphans : orphans' = orphans \ {app}
    /\ UNCHANGED <<installed, userApp, holder, pc, setting, plan, child, outcome>>

UserActs ==
    /\ userApp' = ~userApp
    /\ UNCHANGED <<installed, orphans, holder, pc, setting, plan, child, outcome>>

Update ==
    /\ \E f \in Files : /\ installed[f] < MaxVersion
                        /\ installed' = [installed EXCEPT ![f] = @ + 1]
    /\ UNCHANGED <<userApp, orphans, holder, pc, setting, plan, child, outcome>>

Launch(l) ==
    \/ AcquireGuard(l) \/ CheckRunning(l) \/ SnapshotFile(l) \/ OpenArchive(l)
    \/ ScanArchive(l) \/ VerifySnapshot(l) \/ CheckBeforeSpawn(l) \/ Spawn(l)
    \/ CheckDuplicates(l) \/ Resume(l) \/ RecheckIdentity(l) \/ SessionEnds(l)
    \/ StepFails(l) \/ DropApp(l) \/ DropGuard(l)

Next == \/ \E l \in Launchers : Launch(l) \/ LauncherDies(l) \/ AppEnds(l)
        \/ OrphanEnds \/ UserActs \/ Update

Spec == Init /\ [][Next]_vars

-----------------------------------------------------------------------------
(* Two launchers never both get an app past the check for duplicates, even *)
(* in scopes whose guards do not see each other: each spawns first and     *)
(* looks then, so the earlier of two spawns is always seen by the launcher *)
(* that looks later (launch_codex_with_pipe).                              *)
NoTwoPatchedApps ==
    \A l, k \in Launchers :
        /\ l # k /\ child[l] # "none" /\ child[k] # "none"
        /\ pc[l] \in {"resume", "recheck", "session"}
        => pc[k] \notin {"resume", "recheck", "session"}

(* A plan that passed verification was read from the very archive that was *)
(* verified, header and entries alike: the snapshot is older than the plan.*)
PlanIsOfVerifiedArchive ==
    \A l \in Launchers :
        pc[l] \in {"launch", "spawn", "duplicates", "resume", "recheck", "session"}
        => planned[l] = {verified[l]}

(* While the app of a launcher lives, no other launcher gets past the      *)
(* guard of its scope.                                                     *)
GuardOutlivesApp ==
    \A l \in Launchers : child[l] # "none" => holder[scope[l]] = l

(* A launcher that tells the user to quit the app that is already running  *)
(* has left no process of its own beside it (SuspendedProcess::terminate). *)
DuplicateReportIsClean ==
    \A l \in Launchers : outcome[l] = "alreadyRunning" => child[l] = "none"
=============================================================================
