--------------------------- MODULE MCMacAppProcess ---------------------------
EXTENDS MacAppProcess
=============================================================================
