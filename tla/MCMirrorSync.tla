---------------------------- MODULE MCMirrorSync ----------------------------
EXTENDS MirrorSyncInv
=============================================================================
