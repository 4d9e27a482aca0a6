------------------------- MODULE MCUpdateReplacement -------------------------
EXTENDS UpdateReplacement
=============================================================================
