--------------------------- MODULE MCPayloadSpool ---------------------------
(* A few writes through a spool of a few cells, for TLC.                     *)
EXTENDS PayloadSpool
=============================================================================
