--------------------------- MODULE LauncherProofs ---------------------------
(***************************************************************************)
(* Theorems about Launcher, for any number of launchers, scopes, files and *)
(* rewrites.                                                               *)
(***************************************************************************)
EXTENDS Launcher, TLAPS


(***************************************************************************)
(* Type correctness.                                                       *)
(***************************************************************************)
LEMMA FileTypes == /\ Asar \in Files
                   /\ LastFile \in Files
                   /\ \A f \in Files : f # LastFile => f + 1 \in Files
                   /\ \A f \in Files : f + 1 # Asar
                   /\ 0 \in Versions
BY FilesAssumption, ScopesAssumption DEF Asar, Files, Versions

LEMMA TypeInit == Init => TypeOK
BY FileTypes DEF Init, TypeOK, Places, Apps

LEMMA LeaveType ==
    ASSUME TypeOK, NEW l \in Launchers,
           NEW result \in {"none", "alreadyRunning", "failed", "ended", "died"},
           Leave(l, result)
    PROVE  /\ pc' \in [Launchers -> Places]
           /\ outcome' \in [Launchers -> {"none", "alreadyRunning", "failed", "ended", "died"}]
BY DEF TypeOK, Leave, Goto, Places

LEMMA GotoType ==
    ASSUME TypeOK, NEW l \in Launchers, NEW place \in Places, Goto(l, place)
    PROVE  pc' \in [Launchers -> Places]
BY DEF TypeOK, Goto

LEMMA TypeStep == TypeOK /\ [Next]_vars => TypeOK'
<1> SUFFICES ASSUME TypeOK, [Next]_vars PROVE TypeOK'
  OBVIOUS
<1>1. ASSUME NEW l \in Launchers, AcquireGuard(l) PROVE TypeOK'
  <2>1. /\ scope' \in [Launchers -> Scopes]
        /\ planned' \in [Launchers -> SUBSET Versions]
        /\ holder' \in [Scopes -> Launchers \cup {NoLauncher}]
    BY <1>1 DEF AcquireGuard, TypeOK
  <2>2. /\ pc' \in [Launchers -> Places]
        /\ outcome' \in [Launchers -> {"none", "alreadyRunning", "failed", "ended", "died"}]
    BY <1>1 DEF AcquireGuard, TypeOK, Goto, Places
  <2> QED
    BY <1>1, <2>1, <2>2 DEF AcquireGuard, TypeOK, world
<1>2. ASSUME NEW l \in Launchers, CheckRunning(l) PROVE TypeOK'
  BY <1>2, LeaveType, GotoType, FileTypes DEF CheckRunning, TypeOK, world, setting, Places
<1>3. ASSUME NEW l \in Launchers, SnapshotFile(l) PROVE TypeOK'
  BY <1>3, FileTypes, ZenonT(30) DEF SnapshotFile, TypeOK, Goto, world, setting, Places
<1>4. ASSUME NEW l \in Launchers, OpenArchive(l) PROVE TypeOK'
  BY <1>4, FileTypes DEF OpenArchive, TypeOK, Goto, world, setting, Places
<1>5. ASSUME NEW l \in Launchers, ScanArchive(l) PROVE TypeOK'
  BY <1>5, FileTypes DEF ScanArchive, TypeOK, Goto, world, setting, Places
<1>6. ASSUME NEW l \in Launchers, VerifySnapshot(l) PROVE TypeOK'
  <2>1. todo' \in [Launchers -> Files]
    BY <1>6, FileTypes DEF VerifySnapshot, TypeOK
  <2>3. verified' \in [Launchers -> Versions]
    BY <1>6, FileTypes DEF VerifySnapshot, TypeOK
  <2>2. /\ pc' \in [Launchers -> Places]
        /\ outcome' \in [Launchers -> {"none", "alreadyRunning", "failed", "ended", "died"}]
    BY <1>6, LeaveType, GotoType DEF VerifySnapshot, TypeOK, Places
  <2> QED
    BY <1>6, <2>1, <2>2, <2>3 DEF VerifySnapshot, TypeOK, world, setting
<1>7. ASSUME NEW l \in Launchers, CheckBeforeSpawn(l) PROVE TypeOK'
  BY <1>7, LeaveType, GotoType DEF CheckBeforeSpawn, TypeOK, world, setting, plan, Places
<1>8. ASSUME NEW l \in Launchers, Spawn(l) PROVE TypeOK'
  BY <1>8, GotoType DEF Spawn, TypeOK, world, setting, plan, Places, Apps
<1>9. ASSUME NEW l \in Launchers, CheckDuplicates(l) PROVE TypeOK'
  BY <1>9, LeaveType DEF CheckDuplicates, Started, Goto, TypeOK, world, setting, plan, Places
<1>10. ASSUME NEW l \in Launchers, Resume(l) PROVE TypeOK'
  BY <1>10, GotoType DEF Resume, TypeOK, world, setting, plan, Places, Apps
<1>11. ASSUME NEW l \in Launchers, RecheckIdentity(l) PROVE TypeOK'
  BY <1>11, GotoType DEF RecheckIdentity, TypeOK, world, setting, plan, Places
<1>12. ASSUME NEW l \in Launchers, SessionEnds(l) PROVE TypeOK'
  BY <1>12, LeaveType DEF SessionEnds, TypeOK, world, setting, plan
<1>13. ASSUME NEW l \in Launchers, StepFails(l) PROVE TypeOK'
  BY <1>13, LeaveType DEF StepFails, TypeOK, world, setting, plan
<1>14. ASSUME NEW l \in Launchers, DropApp(l) PROVE TypeOK'
  BY <1>14, GotoType DEF DropApp, TypeOK, setting, plan, Places, Apps
<1>15. ASSUME NEW l \in Launchers, DropGuard(l) PROVE TypeOK'
  BY <1>15, GotoType DEF DropGuard, TypeOK, world, setting, plan, Places
<1>16. ASSUME NEW l \in Launchers, LauncherDies(l) PROVE TypeOK'
  BY <1>16, GotoType DEF LauncherDies, TypeOK, setting, plan, Places, Apps
<1>17. ASSUME NEW l \in Launchers, AppEnds(l) PROVE TypeOK'
  BY <1>17 DEF AppEnds, TypeOK, world, setting, plan
<1>18. CASE OrphanEnds
  BY <1>18 DEF OrphanEnds, TypeOK, setting, plan
<1>19. CASE UserActs
  BY <1>19 DEF UserActs, TypeOK, setting, plan
<1>20. CASE Update
  <2>1. PICK f \in Files : /\ installed[f] < MaxVersion
                           /\ installed' = [installed EXCEPT ![f] = @ + 1]
    BY <1>20 DEF Update
  <2>2. installed[f] + 1 \in Versions
    BY <2>1, ScopesAssumption DEF TypeOK, Versions
  <2> QED
    BY <1>20, <2>1, <2>2 DEF Update, TypeOK, setting, plan
<1>21. CASE UNCHANGED vars
  BY <1>21 DEF vars, TypeOK
<1> QED
  BY <1>1, <1>2, <1>3, <1>4, <1>5, <1>6, <1>7, <1>8, <1>9, <1>10, <1>11, <1>12,
     <1>13, <1>14, <1>15, <1>16, <1>17, <1>18, <1>19, <1>20, <1>21 DEF Next, Launch

(* Every variable of the launchers and their world keeps its type. *)
THEOREM LauncherType == Spec => []TypeOK
<1> QED
  BY TypeInit, TypeStep, PTL DEF Spec

(***************************************************************************)
(* The guard and the app.  A launcher past its start holds the guard of    *)
(* its scope; it has an app only between the spawn and the drop.           *)
(***************************************************************************)
WithApp == {"duplicates", "resume", "recheck", "session", "drop"}

HolderIsInside == \A l \in Launchers : pc[l] # "idle" => holder[scope[l]] = l
AppIsLate      == \A l \in Launchers : child[l] # "none" => pc[l] \in WithApp

Inside == HolderIsInside /\ AppIsLate

LEMMA InsideInit == Init => Inside
BY DEF Init, Inside, HolderIsInside, AppIsLate

LEMMA InsideStep == TypeOK /\ Inside /\ [Next]_vars => Inside'
<1> SUFFICES ASSUME TypeOK, Inside, [Next]_vars PROVE Inside'
  OBVIOUS
<1> USE DEF TypeOK, Inside, HolderIsInside, AppIsLate, WithApp
<1>1. ASSUME NEW l \in Launchers, AcquireGuard(l) PROVE Inside'
  <2>1. PICK s \in Scopes :
          /\ scope' = [scope EXCEPT ![l] = s]
          /\ IF holder[s] = NoLauncher
             THEN holder' = [holder EXCEPT ![s] = l] /\ Goto(l, "check")
             ELSE UNCHANGED <<holder, pc>>
    BY <1>1 DEF AcquireGuard
  <2>2. pc[l] = "idle" /\ UNCHANGED child
    BY <1>1 DEF AcquireGuard, At
  <2>3. AppIsLate'
    BY <2>1, <2>2 DEF Goto
  <2>4. ASSUME NEW k \in Launchers, pc'[k] # "idle" PROVE holder'[scope'[k]] = k
    <3>1. CASE k = l
      BY <2>1, <2>2, <2>4, <3>1 DEF Goto
    <3>2. CASE k # l
      <4>1. holder[scope[k]] = k /\ scope'[k] = scope[k] /\ k # NoLauncher
        BY <2>1, <2>4, <3>2, LaunchersAssumption DEF Goto
      <4> QED
        BY <2>1, <4>1
    <3> QED
      BY <3>1, <3>2
  <2> QED
    BY <2>3, <2>4
<1>2. ASSUME NEW l \in Launchers, CheckRunning(l) PROVE Inside'
  BY <1>2 DEF CheckRunning, Leave, Goto, At, world, setting
<1>3. ASSUME NEW l \in Launchers, SnapshotFile(l) PROVE Inside'
  BY <1>3 DEF SnapshotFile, Goto, At, world, setting
<1>4. ASSUME NEW l \in Launchers, OpenArchive(l) PROVE Inside'
  BY <1>4 DEF OpenArchive, Goto, At, world, setting
<1>5. ASSUME NEW l \in Launchers, ScanArchive(l) PROVE Inside'
  BY <1>5 DEF ScanArchive, Goto, At, world, setting
<1>6. ASSUME NEW l \in Launchers, VerifySnapshot(l) PROVE Inside'
  <2>1. /\ At(l, "verify") /\ UNCHANGED <<holder, setting, child>>
        /\ \/ \E place \in {"drop", "launch"} : Goto(l, place)
           \/ UNCHANGED pc
    BY <1>6 DEF VerifySnapshot, Leave
  <2> QED
    BY <2>1 DEF Goto, At, setting
<1>7. ASSUME NEW l \in Launchers, CheckBeforeSpawn(l) PROVE Inside'
  BY <1>7 DEF CheckBeforeSpawn, Leave, Goto, At, world, setting
<1>8. ASSUME NEW l \in Launchers, Spawn(l) PROVE Inside'
  BY <1>8 DEF Spawn, Goto, At, world, setting
<1>9. ASSUME NEW l \in Launchers, CheckDuplicates(l) PROVE Inside'
  <2>1. /\ At(l, "duplicates") /\ UNCHANGED <<holder, setting>>
        /\ \E place \in {"resume", "session", "drop"} : Goto(l, place)
        /\ child' = child \/ child' = [child EXCEPT ![l] = "none"]
    BY <1>9 DEF CheckDuplicates, Started, Leave
  <2> QED
    BY <2>1 DEF Goto, At, setting
<1>10. ASSUME NEW l \in Launchers, Resume(l) PROVE Inside'
  BY <1>10 DEF Resume, Goto, At, world, setting
<1>11. ASSUME NEW l \in Launchers, RecheckIdentity(l) PROVE Inside'
  BY <1>11 DEF RecheckIdentity, Goto, At, world, setting
<1>12. ASSUME NEW l \in Launchers, SessionEnds(l) PROVE Inside'
  BY <1>12 DEF SessionEnds, Leave, Goto, At, world, setting
<1>13. ASSUME NEW l \in Launchers, StepFails(l) PROVE Inside'
  BY <1>13 DEF StepFails, Leave, Goto, world, setting
<1>14. ASSUME NEW l \in Launchers, DropApp(l) PROVE Inside'
  BY <1>14 DEF DropApp, Goto, At, setting
<1>15. ASSUME NEW l \in Launchers, DropGuard(l) PROVE Inside'
  BY <1>15 DEF DropGuard, Goto, At, world, setting
<1>16. ASSUME NEW l \in Launchers, LauncherDies(l) PROVE Inside'
  <2>1. ASSUME NEW k \in Launchers, pc'[k] # "idle" PROVE holder'[scope'[k]] = k
    <3>1. k # l /\ pc[k] # "idle" /\ scope' = scope
      BY <1>16, <2>1 DEF LauncherDies, Goto, setting
    <3>2. holder[scope[l]] = l => scope[k] # scope[l]
      BY <3>1
    <3> QED
      BY <1>16, <3>1, <3>2 DEF LauncherDies
  <2>2. AppIsLate'
    BY <1>16 DEF LauncherDies, Goto
  <2> QED
    BY <2>1, <2>2
<1>17. ASSUME NEW l \in Launchers, AppEnds(l) PROVE Inside'
  BY <1>17 DEF AppEnds, world, setting
<1>18. CASE OrphanEnds \/ UserActs \/ Update \/ UNCHANGED vars
  BY <1>18 DEF OrphanEnds, UserActs, Update, vars, setting
<1> QED
  BY <1>1, <1>2, <1>3, <1>4, <1>5, <1>6, <1>7, <1>8, <1>9, <1>10, <1>11, <1>12,
     <1>13, <1>14, <1>15, <1>16, <1>17, <1>18 DEF Next, Launch

(* While the app of a launcher lives, that launcher holds the guard of its *)
(* scope: run_launch drops the app first on every way out.                 *)
THEOREM GuardOutlives == Spec => []GuardOutlivesApp
<1>1. Inside => GuardOutlivesApp
  BY DEF Inside, HolderIsInside, AppIsLate, WithApp, GuardOutlivesApp
<1> QED
  BY <1>1, TypeInit, TypeStep, InsideInit, InsideStep, PTL DEF Spec

(***************************************************************************)
(* Two apps.  A step other than the look for duplicates brings no launcher *)
(* past that look, and gives none that is past it an app.                  *)
(***************************************************************************)
Past == {"resume", "recheck", "session"}

NoneNewlyPast ==
    \A k \in Launchers : pc'[k] \in Past => /\ pc[k] \in Past
                                            /\ child'[k] # "none" => child[k] # "none"

LEMMA NoneNewlyPastSuffices ==
    ASSUME NoTwoPatchedApps, NoneNewlyPast PROVE NoTwoPatchedApps'
BY DEF NoTwoPatchedApps, NoneNewlyPast, Past

LEMMA NoTwoStep == TypeOK /\ NoTwoPatchedApps /\ [Next]_vars => NoTwoPatchedApps'
<1> SUFFICES ASSUME TypeOK, NoTwoPatchedApps, [Next]_vars PROVE NoTwoPatchedApps'
  OBVIOUS
<1> USE DEF TypeOK
<1>1. ASSUME NEW l \in Launchers, AcquireGuard(l) PROVE NoTwoPatchedApps'
  <2>1. child' = child /\ \E place \in {"idle", "check"} : pc' = [pc EXCEPT ![l] = place]
    BY <1>1 DEF AcquireGuard, Goto, At
  <2> QED
    BY <2>1, NoneNewlyPastSuffices DEF NoneNewlyPast, Past
<1>2. ASSUME NEW l \in Launchers, CheckRunning(l) PROVE NoTwoPatchedApps'
  BY <1>2, NoneNewlyPastSuffices DEF CheckRunning, NoneNewlyPast, Past, Leave, Goto, At, world, setting, plan
<1>3. ASSUME NEW l \in Launchers, SnapshotFile(l) PROVE NoTwoPatchedApps'
  BY <1>3, NoneNewlyPastSuffices DEF SnapshotFile, NoneNewlyPast, Past, Leave, Goto, At, world, setting, plan
<1>4. ASSUME NEW l \in Launchers, OpenArchive(l) PROVE NoTwoPatchedApps'
  BY <1>4, NoneNewlyPastSuffices DEF OpenArchive, NoneNewlyPast, Past, Leave, Goto, At, world, setting, plan
<1>5. ASSUME NEW l \in Launchers, ScanArchive(l) PROVE NoTwoPatchedApps'
  BY <1>5, NoneNewlyPastSuffices DEF ScanArchive, NoneNewlyPast, Past, Leave, Goto, At, world, setting, plan
<1>6. ASSUME NEW l \in Launchers, VerifySnapshot(l) PROVE NoTwoPatchedApps'
  <2>1. /\ child' = child
        /\ pc' = pc \/ \E place \in {"drop", "launch"} : pc' = [pc EXCEPT ![l] = place]
    BY <1>6 DEF VerifySnapshot, Leave, Goto
  <2> QED
    BY <2>1, NoneNewlyPastSuffices DEF NoneNewlyPast, Past
<1>7. ASSUME NEW l \in Launchers, CheckBeforeSpawn(l) PROVE NoTwoPatchedApps'
  BY <1>7, NoneNewlyPastSuffices DEF CheckBeforeSpawn, NoneNewlyPast, Past, Leave, Goto, At, world, setting, plan
<1>8. ASSUME NEW l \in Launchers, Spawn(l) PROVE NoTwoPatchedApps'
  BY <1>8, NoneNewlyPastSuffices DEF Spawn, NoneNewlyPast, Past, Leave, Goto, At, world, setting, plan
<1>9. ASSUME NEW l \in Launchers, CheckDuplicates(l) PROVE NoTwoPatchedApps'
  <2>1. CASE AppIsRunning(l)
    <3>1. /\ pc' = [pc EXCEPT ![l] = "drop"]
          /\ child' = child \/ child' = [child EXCEPT ![l] = "none"]
      BY <1>9, <2>1 DEF CheckDuplicates, Leave, Goto
    <3> QED
      BY <3>1, NoneNewlyPastSuffices DEF NoneNewlyPast, Past
  <2>2. CASE ~AppIsRunning(l)
    <3>1. /\ \A k \in Launchers \ {l} : child[k] = "none"
          /\ child' = child
      BY <1>9, <2>2 DEF CheckDuplicates, AppIsRunning
    <3> QED
      BY <3>1 DEF NoTwoPatchedApps
  <2> QED
    BY <2>1, <2>2
<1>10. ASSUME NEW l \in Launchers, Resume(l) PROVE NoTwoPatchedApps'
  BY <1>10, NoneNewlyPastSuffices DEF Resume, NoneNewlyPast, Past, Leave, Goto, At, world, setting, plan
<1>11. ASSUME NEW l \in Launchers, RecheckIdentity(l) PROVE NoTwoPatchedApps'
  BY <1>11, NoneNewlyPastSuffices DEF RecheckIdentity, NoneNewlyPast, Past, Leave, Goto, At, world, setting, plan
<1>12. ASSUME NEW l \in Launchers, SessionEnds(l) PROVE NoTwoPatchedApps'
  BY <1>12, NoneNewlyPastSuffices DEF SessionEnds, NoneNewlyPast, Past, Leave, Goto, At, world, setting, plan
<1>13. ASSUME NEW l \in Launchers, StepFails(l) PROVE NoTwoPatchedApps'
  BY <1>13, NoneNewlyPastSuffices DEF StepFails, NoneNewlyPast, Past, Leave, Goto, At, world, setting, plan
<1>14. ASSUME NEW l \in Launchers, DropApp(l) PROVE NoTwoPatchedApps'
  BY <1>14, NoneNewlyPastSuffices DEF DropApp, NoneNewlyPast, Past, Leave, Goto, At, world, setting, plan
<1>15. ASSUME NEW l \in Launchers, DropGuard(l) PROVE NoTwoPatchedApps'
  BY <1>15, NoneNewlyPastSuffices DEF DropGuard, NoneNewlyPast, Past, Leave, Goto, At, world, setting, plan
<1>16. ASSUME NEW l \in Launchers, LauncherDies(l) PROVE NoTwoPatchedApps'
  BY <1>16, NoneNewlyPastSuffices DEF LauncherDies, NoneNewlyPast, Past, Leave, Goto, At, world, setting, plan
<1>17. ASSUME NEW l \in Launchers, AppEnds(l) PROVE NoTwoPatchedApps'
  BY <1>17, NoneNewlyPastSuffices DEF AppEnds, NoneNewlyPast, Past, Leave, Goto, At, world, setting, plan
<1>18. CASE OrphanEnds \/ UserActs \/ Update \/ UNCHANGED vars
  BY <1>18 DEF OrphanEnds, UserActs, Update, vars, setting, NoTwoPatchedApps
<1> QED
  BY <1>1, <1>2, <1>3, <1>4, <1>5, <1>6, <1>7, <1>8, <1>9,
     <1>10, <1>11, <1>12, <1>13, <1>14, <1>15, <1>16, <1>17, <1>18 DEF Next, Launch

(* Two launchers never both get an app past the look for duplicates, in    *)
(* whatever scopes they run: of two spawns the earlier one is seen.        *)
THEOREM NoTwoApps == Spec => []NoTwoPatchedApps
<1>1. Init => NoTwoPatchedApps
  BY DEF Init, NoTwoPatchedApps
<1> QED
  BY <1>1, TypeInit, TypeStep, NoTwoStep, PTL DEF Spec

(***************************************************************************)
(* The report of a duplicate ends run_launch, and what ends run_launch     *)
(* gives no launcher an app.                                               *)
(***************************************************************************)
ReportIsLate == \A l \in Launchers :
                   outcome[l] = "alreadyRunning" => pc[l] \in {"drop", "release", "idle"}
CleanReport  == ReportIsLate /\ DuplicateReportIsClean

LEMMA CleanStep == TypeOK /\ Inside /\ CleanReport /\ [Next]_vars => CleanReport'
<1> SUFFICES ASSUME TypeOK, Inside, CleanReport, [Next]_vars PROVE CleanReport'
  OBVIOUS
<1> USE DEF TypeOK, CleanReport, ReportIsLate, DuplicateReportIsClean
<1>1. ASSUME NEW l \in Launchers, AcquireGuard(l) PROVE CleanReport'
  <2>1. child' = child /\ child[l] = "none"
    BY <1>1 DEF AcquireGuard, At, Inside, AppIsLate, WithApp
  <2>2. \/ pc' = pc /\ outcome' = [outcome EXCEPT ![l] = "alreadyRunning"]
        \/ /\ pc' = [pc EXCEPT ![l] = "check"]
           /\ outcome' = [outcome EXCEPT ![l] = "none"]
    BY <1>1 DEF AcquireGuard, Goto
  <2>3. pc[l] = "idle"
    BY <1>1 DEF AcquireGuard, At
  <2> QED
    BY <2>1, <2>2, <2>3
<1>2. ASSUME NEW l \in Launchers, CheckRunning(l) PROVE CleanReport'
  <2>1. child' = child /\ child[l] = "none"
    BY <1>2 DEF CheckRunning, At, Inside, AppIsLate, WithApp
  <2> QED
    BY <1>2, <2>1 DEF CheckRunning, Leave, Goto, At
<1>3. ASSUME NEW l \in Launchers, SnapshotFile(l) PROVE CleanReport'
  BY <1>3 DEF SnapshotFile, Leave, Goto, At, world, setting, plan
<1>4. ASSUME NEW l \in Launchers, OpenArchive(l) PROVE CleanReport'
  BY <1>4 DEF OpenArchive, Leave, Goto, At, world, setting, plan
<1>5. ASSUME NEW l \in Launchers, ScanArchive(l) PROVE CleanReport'
  BY <1>5 DEF ScanArchive, Leave, Goto, At, world, setting, plan
<1>6. ASSUME NEW l \in Launchers, VerifySnapshot(l) PROVE CleanReport'
  <2>1. child' = child /\ pc[l] = "verify"
    BY <1>6 DEF VerifySnapshot, At
  <2>2. \/ /\ pc' = [pc EXCEPT ![l] = "drop"]
           /\ outcome' = [outcome EXCEPT ![l] = "failed"]
        \/ /\ outcome' = outcome
           /\ pc' = pc \/ pc' = [pc EXCEPT ![l] = "launch"]
    BY <1>6 DEF VerifySnapshot, Leave, Goto
  <2> QED
    BY <2>1, <2>2, ZenonT(30)
<1>7. ASSUME NEW l \in Launchers, CheckBeforeSpawn(l) PROVE CleanReport'
  <2>1. child' = child /\ child[l] = "none"
    BY <1>7 DEF CheckBeforeSpawn, At, Inside, AppIsLate, WithApp
  <2> QED
    BY <1>7, <2>1 DEF CheckBeforeSpawn, Leave, Goto, At
<1>8. ASSUME NEW l \in Launchers, Spawn(l) PROVE CleanReport'
  BY <1>8 DEF Spawn, Leave, Goto, At, world, setting, plan
<1>9. ASSUME NEW l \in Launchers, CheckDuplicates(l) PROVE CleanReport'
  <2>1. pc[l] = "duplicates"
    BY <1>9 DEF CheckDuplicates, At
  <2>2. CASE AppIsRunning(l)
    <3>1. /\ pc' = [pc EXCEPT ![l] = "drop"]
          /\ \/ /\ outcome' = [outcome EXCEPT ![l] = "alreadyRunning"]
                /\ child' = [child EXCEPT ![l] = "none"]
             \/ outcome' = [outcome EXCEPT ![l] = "failed"] /\ child' = child
      BY <1>9, <2>2 DEF CheckDuplicates, Leave, Goto
    <3> QED
      BY <3>1
  <2>3. CASE ~AppIsRunning(l)
    BY <1>9, <2>1, <2>3 DEF CheckDuplicates, Started, Goto
  <2> QED
    BY <2>2, <2>3
<1>10. ASSUME NEW l \in Launchers, Resume(l) PROVE CleanReport'
  BY <1>10 DEF Resume, Leave, Goto, At, world, setting, plan
<1>11. ASSUME NEW l \in Launchers, RecheckIdentity(l) PROVE CleanReport'
  BY <1>11 DEF RecheckIdentity, Leave, Goto, At, world, setting, plan
<1>12. ASSUME NEW l \in Launchers, SessionEnds(l) PROVE CleanReport'
  BY <1>12 DEF SessionEnds, Leave, Goto, At, world, setting, plan
<1>13. ASSUME NEW l \in Launchers, StepFails(l) PROVE CleanReport'
  BY <1>13 DEF StepFails, Leave, Goto, At, world, setting, plan
<1>14. ASSUME NEW l \in Launchers, DropApp(l) PROVE CleanReport'
  BY <1>14 DEF DropApp, Leave, Goto, At, world, setting, plan
<1>15. ASSUME NEW l \in Launchers, DropGuard(l) PROVE CleanReport'
  BY <1>15 DEF DropGuard, Leave, Goto, At, world, setting, plan
<1>16. ASSUME NEW l \in Launchers, LauncherDies(l) PROVE CleanReport'
  BY <1>16 DEF LauncherDies, Leave, Goto, At, world, setting, plan
<1>17. ASSUME NEW l \in Launchers, AppEnds(l) PROVE CleanReport'
  BY <1>17 DEF AppEnds, Leave, Goto, At, world, setting, plan
<1>18. CASE OrphanEnds \/ UserActs \/ Update \/ UNCHANGED vars
  BY <1>18 DEF OrphanEnds, UserActs, Update, vars, setting, plan
<1> QED
  BY <1>1, <1>2, <1>3, <1>4, <1>5, <1>6, <1>7, <1>8, <1>9,
     <1>10, <1>11, <1>12, <1>13, <1>14, <1>15, <1>16, <1>17, <1>18 DEF Next, Launch

(* A launcher that reports a running app leaves none of its own beside it. *)
THEOREM DuplicateReports == Spec => []DuplicateReportIsClean
<1>1. Init => CleanReport
  BY DEF Init, CleanReport, ReportIsLate, DuplicateReportIsClean
<1>2. CleanReport => DuplicateReportIsClean
  BY DEF CleanReport
<1> QED
  BY <1>1, <1>2, TypeInit, TypeStep, InsideInit, InsideStep, CleanStep, PTL DEF Spec

(***************************************************************************)
(* The plan.  A rewrite only raises a version, so what is read after the   *)
(* snapshot of the archive is at least as new as the snapshot; when the    *)
(* archive is found to be the snapshot's again, nothing lay between.       *)
(***************************************************************************)
Verified == {"launch", "spawn", "duplicates", "resume", "recheck", "session"}

SnapshotTaken(l) ==
    \/ pc[l] \in {"open", "scan", "verify"}
    \/ pc[l] = "snapshot" /\ todo[l] # Asar

PlanFollows(l) ==
    /\ SnapshotTaken(l) => snapshots[l][Asar] <= installed[Asar]
    /\ pc[l] \in {"scan", "verify"} =>
          /\ planned[l] # {}
          /\ \A v \in planned[l] : snapshots[l][Asar] <= v /\ v <= installed[Asar]
    /\ pc[l] = "verify" /\ todo[l] # Asar => planned[l] = {verified[l]}
    /\ pc[l] \in Verified => planned[l] = {verified[l]}

PlanInv == \A l \in Launchers : PlanFollows(l)

(* A launcher no step of which this is, in a world that is not rewritten.  *)
LEMMA PlanKept ==
    ASSUME NEW k \in Launchers, PlanFollows(k), installed' = installed,
           \/ pc'[k] = pc[k]
           \/ pc'[k] \in {"idle", "drop", "release", "check"}
           \/ pc[k] \in Verified /\ pc'[k] \in Verified,
           todo'[k] = todo[k], snapshots'[k] = snapshots[k],
           planned'[k] = planned[k] \/ pc'[k] \in {"idle", "check"},
           verified'[k] = verified[k]
    PROVE  PlanFollows(k)'
BY DEF PlanFollows, SnapshotTaken, Verified

LEMMA Between == \A a, b \in Nat : a <= b /\ b <= a => a = b
OBVIOUS

LEMMA PlanStep == TypeOK /\ PlanInv /\ [Next]_vars => PlanInv'
<1> SUFFICES ASSUME TypeOK, PlanInv, [Next]_vars, NEW k \in Launchers
             PROVE  PlanFollows(k)'
  BY DEF PlanInv
<1>0. /\ PlanFollows(k) /\ installed[Asar] \in Nat /\ Asar \in Files
      /\ snapshots[k][Asar] \in Nat /\ planned[k] \subseteq Nat
  BY FileTypes, ScopesAssumption DEF PlanInv, TypeOK, Versions
<1> USE DEF TypeOK
<1>1. ASSUME NEW l \in Launchers, AcquireGuard(l) PROVE PlanFollows(k)'
  <2>1. /\ UNCHANGED <<installed, todo, snapshots, verified>>
        /\ pc[l] = "idle" /\ planned' = [planned EXCEPT ![l] = {}]
        /\ pc' = pc \/ pc' = [pc EXCEPT ![l] = "check"]
    BY <1>1 DEF AcquireGuard, world, Goto, At
  <2> QED
    BY <1>0, <2>1, PlanKept DEF PlanFollows, SnapshotTaken
<1>2. ASSUME NEW l \in Launchers, CheckRunning(l) PROVE PlanFollows(k)'
  <2>1. /\ UNCHANGED <<installed, snapshots, planned, verified>>
        /\ pc[l] = "check" /\ todo' = [todo EXCEPT ![l] = Asar]
        /\ \E place \in {"drop", "snapshot"} : pc' = [pc EXCEPT ![l] = place]
    BY <1>2 DEF CheckRunning, Leave, Goto, At, world
  <2>2. CASE k = l
    BY <2>1, <2>2 DEF PlanFollows, SnapshotTaken, Verified
  <2>3. CASE k # l
    BY <1>0, <2>1, <2>3, PlanKept DEF PlanFollows, SnapshotTaken
  <2> QED
    BY <2>2, <2>3
<1>3. ASSUME NEW l \in Launchers, SnapshotFile(l) PROVE PlanFollows(k)'
  <2>1. /\ UNCHANGED <<installed, planned, verified>>
        /\ pc[l] = "snapshot"
        /\ snapshots' = [snapshots EXCEPT ![l][todo[l]] = installed[todo[l]]]
        /\ \/ todo' = todo /\ pc' = [pc EXCEPT ![l] = "open"]
           \/ todo' = [todo EXCEPT ![l] = @ + 1] /\ pc' = pc
    BY <1>3 DEF SnapshotFile, Goto, At, world
  <2>2. CASE k = l
    <3>1. snapshots'[l][Asar] = IF todo[l] = Asar THEN installed[Asar] ELSE snapshots[l][Asar]
      BY <1>0, <2>1
    <3>2. snapshots'[l][Asar] <= installed'[Asar]
      BY <1>0, <2>1, <2>2, <3>1 DEF PlanFollows, SnapshotTaken
    <3>3. pc'[l] \in {"snapshot", "open"}
      BY <2>1
    <3> QED
      BY <2>2, <3>2, <3>3 DEF PlanFollows, Verified
  <2>3. CASE k # l
    BY <1>0, <2>1, <2>3, PlanKept DEF PlanFollows, SnapshotTaken
  <2> QED
    BY <2>2, <2>3
<1>4. ASSUME NEW l \in Launchers, OpenArchive(l) PROVE PlanFollows(k)'
  <2>1. /\ UNCHANGED <<installed, todo, snapshots, verified>>
        /\ pc[l] = "open" /\ pc' = [pc EXCEPT ![l] = "scan"]
        /\ planned' = [planned EXCEPT ![l] = {installed[Asar]}]
    BY <1>4 DEF OpenArchive, Goto, At, world
  <2>2. CASE k = l
    <3>1. pc'[k] = "scan" /\ planned'[k] = {installed[Asar]}
      BY <2>1, <2>2
    <3>2. snapshots[k][Asar] <= installed[Asar] /\ installed[Asar] <= installed[Asar]
      BY <1>0, <2>1, <2>2 DEF PlanFollows, SnapshotTaken
    <3>3. snapshots' = snapshots /\ installed' = installed
      BY <2>1
    <3>4. /\ snapshots'[k][Asar] <= installed'[Asar]
          /\ \A v \in planned'[k] : snapshots'[k][Asar] <= v /\ v <= installed'[Asar]
      BY <3>1, <3>2, <3>3
    <3> QED
      BY <3>1, <3>4 DEF PlanFollows, SnapshotTaken, Verified
  <2>3. CASE k # l
    BY <1>0, <2>1, <2>3, PlanKept DEF PlanFollows, SnapshotTaken
  <2> QED
    BY <2>2, <2>3
<1>5. ASSUME NEW l \in Launchers, ScanArchive(l) PROVE PlanFollows(k)'
  <2>1. /\ UNCHANGED <<installed, snapshots, verified>>
        /\ pc[l] = "scan" /\ pc' = [pc EXCEPT ![l] = "verify"]
        /\ todo' = [todo EXCEPT ![l] = Asar]
        /\ planned' = [planned EXCEPT ![l] = @ \cup {installed[Asar]}]
    BY <1>5 DEF ScanArchive, Goto, At, world
  <2>2. CASE k = l
    <3>1. /\ pc'[k] = "verify" /\ todo'[k] = Asar
          /\ planned'[k] = planned[k] \cup {installed[Asar]}
      BY <2>1, <2>2
    <3>2. /\ snapshots[k][Asar] <= installed[Asar]
          /\ \A v \in planned[k] : snapshots[k][Asar] <= v /\ v <= installed[Asar]
      BY <1>0, <2>1, <2>2 DEF PlanFollows, SnapshotTaken
    <3> QED
      BY <1>0, <2>1, <3>1, <3>2 DEF PlanFollows, SnapshotTaken, Verified
  <2>3. CASE k # l
    BY <1>0, <2>1, <2>3, PlanKept DEF PlanFollows, SnapshotTaken
  <2> QED
    BY <2>2, <2>3
<1>6. ASSUME NEW l \in Launchers, VerifySnapshot(l) PROVE PlanFollows(k)'
  <2>1. /\ UNCHANGED <<installed, snapshots, planned>>
        /\ pc[l] = "verify"
    BY <1>6 DEF VerifySnapshot, At, world
  <2>2. CASE k = l
    <3>1. CASE installed[todo[l]] # snapshots[l][todo[l]]
      BY <1>0, <1>6, <2>1, <2>2, <3>1, PlanKept DEF PlanFollows, SnapshotTaken, VerifySnapshot, Leave, Goto
    <3>2. CASE installed[todo[l]] = snapshots[l][todo[l]]
      <4>1. planned[l] = {verified'[l]}
        <5>1. CASE todo[l] = Asar
          <6>1. \A v \in planned[l] : v = installed[Asar]
            <7>1. ASSUME NEW v \in planned[l]
                  PROVE  v = installed[Asar]
              <8>1. v \in planned[k] /\ installed[Asar] = snapshots[k][Asar]
                BY <2>2, <3>2, <5>1, <7>1
              <8>2. snapshots[k][Asar] <= v /\ v <= installed[Asar]
                BY <1>0, <2>1, <2>2, <8>1 DEF PlanFollows
              <8>3. v \in Nat /\ installed[Asar] \in Nat
                BY <1>0, <8>1
              <8>4. installed[Asar] <= v /\ v <= installed[Asar]
                BY <8>1, <8>2
              <8> HIDE DEF TypeOK
              <8> QED
                BY <8>3, <8>4, Between
            <7> QED
              BY <7>1
          <6>2. planned[l] # {}
            BY <1>0, <2>1, <2>2 DEF PlanFollows
          <6>3. verified'[l] = installed[Asar]
            BY <1>6, <3>2, <5>1 DEF VerifySnapshot
          <6> QED
            BY <6>1, <6>2, <6>3
        <5>2. CASE todo[l] # Asar
          BY <1>0, <1>6, <2>1, <2>2, <3>2, <5>2 DEF VerifySnapshot, PlanFollows
        <5> QED
          BY <5>1, <5>2
      <4>2. pc'[l] \in {"verify", "launch"}
        BY <1>6, <2>1, <3>2 DEF VerifySnapshot, Goto
      <4>3. planned'[k] = {verified'[k]}
        BY <2>1, <2>2, <4>1
      <4>4. /\ snapshots'[k][Asar] <= installed'[Asar]
            /\ planned'[k] # {}
            /\ \A v \in planned'[k] : snapshots'[k][Asar] <= v /\ v <= installed'[Asar]
        BY <1>0, <2>1, <2>2 DEF PlanFollows, SnapshotTaken
      <4> QED
        BY <2>2, <4>2, <4>3, <4>4 DEF PlanFollows, SnapshotTaken, Verified
    <3> QED
      BY <3>1, <3>2
  <2>3. CASE k # l
    <3>1. pc'[k] = pc[k] /\ todo'[k] = todo[k] /\ verified'[k] = verified[k]
      BY <1>6, <2>3 DEF VerifySnapshot, Leave, Goto
    <3> QED
      BY <1>0, <2>1, <3>1, PlanKept DEF PlanFollows, SnapshotTaken
  <2> QED
    BY <2>2, <2>3
<1>7. ASSUME NEW l \in Launchers, CheckBeforeSpawn(l) PROVE PlanFollows(k)'
  BY <1>7, <1>0, PlanKept DEF PlanFollows, SnapshotTaken, CheckBeforeSpawn, Leave, Goto, At, world, setting, plan, Verified
<1>8. ASSUME NEW l \in Launchers, Spawn(l) PROVE PlanFollows(k)'
  BY <1>8, <1>0, PlanKept DEF PlanFollows, SnapshotTaken, Spawn, Leave, Goto, At, world, setting, plan, Verified
<1>9. ASSUME NEW l \in Launchers, CheckDuplicates(l) PROVE PlanFollows(k)'
  <2>1. /\ UNCHANGED <<installed, plan>> /\ pc[l] = "duplicates"
        /\ \E place \in {"drop", "resume", "session"} : pc' = [pc EXCEPT ![l] = place]
    BY <1>9 DEF CheckDuplicates, Started, Leave, Goto, At, world
  <2> QED
    BY <1>0, <2>1, PlanKept DEF PlanFollows, SnapshotTaken, plan, Verified
<1>10. ASSUME NEW l \in Launchers, Resume(l) PROVE PlanFollows(k)'
  BY <1>10, <1>0, PlanKept DEF PlanFollows, SnapshotTaken, Resume, Leave, Goto, At, world, setting, plan, Verified
<1>11. ASSUME NEW l \in Launchers, RecheckIdentity(l) PROVE PlanFollows(k)'
  BY <1>11, <1>0, PlanKept DEF PlanFollows, SnapshotTaken, RecheckIdentity, Leave, Goto, At, world, setting, plan, Verified
<1>12. ASSUME NEW l \in Launchers, SessionEnds(l) PROVE PlanFollows(k)'
  BY <1>12, <1>0, PlanKept DEF PlanFollows, SnapshotTaken, SessionEnds, Leave, Goto, At, world, setting, plan, Verified
<1>13. ASSUME NEW l \in Launchers, StepFails(l) PROVE PlanFollows(k)'
  BY <1>13, <1>0, PlanKept DEF PlanFollows, SnapshotTaken, StepFails, Leave, Goto, At, world, setting, plan, Verified
<1>14. ASSUME NEW l \in Launchers, DropApp(l) PROVE PlanFollows(k)'
  BY <1>14, <1>0, PlanKept DEF PlanFollows, SnapshotTaken, DropApp, Leave, Goto, At, world, setting, plan, Verified
<1>15. ASSUME NEW l \in Launchers, DropGuard(l) PROVE PlanFollows(k)'
  BY <1>15, <1>0, PlanKept DEF PlanFollows, SnapshotTaken, DropGuard, Leave, Goto, At, world, setting, plan, Verified
<1>16. ASSUME NEW l \in Launchers, LauncherDies(l) PROVE PlanFollows(k)'
  BY <1>16, <1>0, PlanKept DEF PlanFollows, SnapshotTaken, LauncherDies, Leave, Goto, At, world, setting, plan, Verified
<1>17. ASSUME NEW l \in Launchers, AppEnds(l) PROVE PlanFollows(k)'
  BY <1>17, <1>0, PlanKept DEF PlanFollows, SnapshotTaken, AppEnds, Leave, Goto, At, world, setting, plan, Verified
<1>18. CASE OrphanEnds \/ UserActs \/ UNCHANGED vars
  BY <1>18, <1>0, PlanKept DEF PlanFollows, SnapshotTaken, OrphanEnds, UserActs, vars, plan
<1>19. CASE Update
  <2>1. UNCHANGED <<pc, plan>>
    BY <1>19 DEF Update
  <2>2. installed[Asar] <= installed'[Asar] /\ installed'[Asar] \in Nat
    BY <1>0, <1>19 DEF Update
  <2>3. ASSUME NEW v \in Nat, v <= installed[Asar] PROVE v <= installed'[Asar]
    BY <1>0, <2>2, <2>3
  <2>4. snapshots[k][Asar] \in Nat /\ planned[k] \subseteq Nat
    BY <1>0 DEF Versions
  <2> QED
    BY <1>0, <2>1, <2>2, <2>3, <2>4 DEF PlanFollows, SnapshotTaken, plan
<1> QED
  BY <1>1, <1>2, <1>3, <1>4, <1>5, <1>6, <1>7, <1>8, <1>9,
     <1>10, <1>11, <1>12, <1>13, <1>14, <1>15, <1>16, <1>17, <1>18, <1>19 DEF Next, Launch

(* The plan a launcher starts the app with was read, header and entries    *)
(* alike, from the archive that was verified before the start.             *)
THEOREM PlanOfVerifiedArchive == Spec => []PlanIsOfVerifiedArchive
<1>1. Init => PlanInv
  BY DEF Init, PlanInv, PlanFollows, SnapshotTaken, Verified
<1>2. PlanInv => PlanIsOfVerifiedArchive
  BY DEF PlanInv, PlanFollows, Verified, PlanIsOfVerifiedArchive
<1> QED
  BY <1>1, <1>2, TypeInit, TypeStep, PlanStep, PTL DEF Spec
=============================================================================
