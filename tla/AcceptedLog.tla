----------------------------- MODULE AcceptedLog -----------------------------
(***************************************************************************)
(* What the container promises to the writers of its volumes.              *)
(*                                                                         *)
(* Every volume has a log of accepted changes.  A change once accepted is  *)
(* published exactly once and in order, together with every change of its  *)
(* volume accepted before; the published part never shrinks.  Only one     *)
(* volume at a time has changes that wait for publication.  A volume's     *)
(* durable mark, below which its log may be discarded, covers published    *)
(* changes only.                                                           *)
(***************************************************************************)
EXTENDS Integers

CONSTANT Volumes

VARIABLES
    accepted,    \* accepted[v]: length of the log of volume v
    published,   \* published[v]: how much of it the container holds
    marked       \* marked[v]: how much of it may be discarded

vars == <<accepted, published, marked>>

Init ==
    /\ accepted = [v \in Volumes |-> 0]
    /\ published = [v \in Volumes |-> 0]
    /\ marked = [v \in Volumes |-> 0]

Accept(v) ==
    /\ \A w \in Volumes \ {v} : published[w] = accepted[w]
    /\ accepted' = [accepted EXCEPT ![v] = @ + 1]
    /\ UNCHANGED <<published, marked>>

Publish(v) ==
    /\ published[v] < accepted[v]
    /\ published' = [published EXCEPT ![v] = accepted[v]]
    /\ UNCHANGED <<accepted, marked>>

Mark(v) ==
    /\ marked' = [marked EXCEPT ![v] = published[v]]
    /\ UNCHANGED <<accepted, published>>

Next == \E v \in Volumes : Accept(v) \/ Publish(v) \/ Mark(v)

Spec == Init /\ [][Next]_vars
==============================================================================
