-------------------------- MODULE MCDeferredCommit --------------------------
EXTENDS DeferredCommit
=============================================================================
