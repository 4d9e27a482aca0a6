-------------------------- MODULE MCWalCompaction --------------------------
(* The write-ahead log of one volume on a small directory.                *)
EXTENDS WalCompaction
=============================================================================
