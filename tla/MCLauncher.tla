----------------------------- MODULE MCLauncher -----------------------------
EXTENDS Launcher, TLC

LauncherSymmetry == Permutations(Launchers)
=============================================================================
