--------------------------- MODULE MCGlobalCommit ---------------------------
EXTENDS GlobalCommitProofs
=============================================================================
