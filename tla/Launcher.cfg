\* Two launchers, in one scope or in two, on either system, with the user and one update of each file.
SPECIFICATION Spec
CONSTANTS
    Launchers = {a, b}
    NoLauncher = noLauncher
    Scopes = {s1, s2}
    LastFile = 2
    MaxVersion = 1
SYMMETRY LauncherSymmetry
INVARIANTS
    NoTwoPatchedApps
    PlanIsOfVerifiedArchive
    GuardOutlivesApp
    DuplicateReportIsClean
