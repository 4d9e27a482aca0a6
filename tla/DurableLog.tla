----------------------------- MODULE DurableLog -----------------------------
(***************************************************************************)
(* What the write-ahead log promises the transaction manager, without the  *)
(* directory, the intent file or the two log files that implement it.      *)
(* Records are numbered in the order they were appended.  A record that    *)
(* was flushed is acknowledged; a compaction asks for everything below its *)
(* floor to be forgotten.  Whatever fails, an acknowledged record at or    *)
(* above the floor stays readable, and a record that is gone stays gone.   *)
(***************************************************************************)
EXTENDS Naturals

VARIABLES
    log,        \* the records a reader would be given now
    acked,      \* the records a flush has acknowledged
    floor       \* the highest floor a compaction was asked for

vars == <<log, acked, floor>>

AtOrAbove(S, n) == {r \in S : r >= n}

Init == log = {} /\ acked = {} /\ floor = 1

(* A record is added behind every record appended before it.               *)
Write ==
    /\ \E r \in log' : log' = log \cup {r} /\ \A s \in log : s < r
    /\ UNCHANGED <<acked, floor>>

(* A flush acknowledges everything that is readable.                       *)
Flush ==
    /\ acked' = acked \cup log
    /\ UNCHANGED <<log, floor>>

(* A compaction is asked for.                                              *)
AskCompaction ==
    /\ floor' >= floor
    /\ UNCHANGED <<log, acked>>

(* A replacement, a rollback, a crash or a repair: only records that were  *)
(* not acknowledged, or that lie below the floor, may change.              *)
Change ==
    /\ AtOrAbove(acked, floor) \subseteq log'
    /\ AtOrAbove(log', floor) \subseteq log
    /\ UNCHANGED <<acked, floor>>

Next == Write \/ Flush \/ AskCompaction \/ Change

Spec == Init /\ [][Next]_vars
=============================================================================
