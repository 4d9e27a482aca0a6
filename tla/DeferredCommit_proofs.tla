------------------------ MODULE DeferredCommit_proofs ------------------------
(***************************************************************************)
(* Proofs about the threads that bring accepted changes into a checkpoint: *)
(* for every set of volumes, callback threads and shutdowns, the safety    *)
(* properties of module DeferredCommit.                                    *)
(*                                                                         *)
(* The inductive invariant IInv rests on who may touch a volume.  A thread *)
(* that commits a volume holds its gate (GateInv), except the shutdown,    *)
(* which has seen every callback leave and the worker end (CloseInv); so   *)
(* one thread at most commits a volume and nobody accepts beside it, which *)
(* lemma OneCommits states.  Hence what a commit published is still all    *)
(* that was accepted when it finalizes (PublishedInv), which is what a     *)
(* flush and an exit code 0 promise.  A barrier in flight has a thread     *)
(* that will end it (BarrierInv), so a target that failed leaves the       *)
(* volume closed for those that are about to accept (GapInv).  CallInv     *)
(* counts the callbacks that may still accept, which bounds the sequences. *)
(***************************************************************************)
EXTENDS DeferredCommit, FiniteSetTheorems, TLAPS

\* A thread at one of these runs the commit of the volume it is on, or waits at
\* its barrier.
Committing == {"drain", "begin", "waiting", "stopped", "commit", "finalize"}

CallerPcs ==
    {"idle", "lockChange", "lockFlush", "sibling", "accept", "walWait", "logged", "unlogged",
     "closed", "okay", "unforced", "sorry"} \cup Committing

WorkerPcs == {"wait", "wal", "walBusy", "claim", "unlogged", "latch", "drain", "commit",
              "finalize", "exit"}

CloserPcs == {"up", "callbacks", "stop", "stopLate", "join", "joinLate", "done"} \cup Committing

\* Each thread is where its kind of thread can be; a worker and a shutdown stay
\* with their volume, and a callback leaves its own only to drain a sibling.
PlaceInv ==
    /\ \A t \in Caller : pc[t] \in CallerPcs /\ (on[t] # vol[t] => pc[t] \in Committing)
    /\ \A v \in Volume :
          /\ pc[Worker(v)] \in WorkerPcs /\ vol[Worker(v)] = v /\ on[Worker(v)] = v
          /\ pc[Closer(v)] \in CloserPcs /\ vol[Closer(v)] = v /\ on[Closer(v)] = v

Ungated == {"idle", "lockChange", "lockFlush", "walWait", "logged", "unlogged"}

\* A callback holds its volume's gate but before it took it and while it waits
\* for the log; a drain by a callback or a worker holds the drained volume's.
\* Callbacks are counted by every volume they use.
GateInv ==
    /\ \A t \in Caller :
          /\ pc[t] # "idle" => t \in active[vol[t]] /\ t \in active[on[t]]
          /\ pc[t] \notin Ungated => gate[vol[t]] = t /\ gate[on[t]] = t
    /\ \A v \in Volume :
          pc[Worker(v)] \in {"drain", "commit", "finalize"} => gate[v] = Worker(v)

\* The shutdown has seen all callbacks leave.
Closed(v) ==
    \/ pc[Closer(v)] \in {"stop", "join"} \cup Committing
    \/ pc[Closer(v)] = "done" /\ exit[v] # 9

\* From then on no callback changes the volume, and from the join on its
\* worker does not either.
CloseInv ==
    \A v \in Volume :
        /\ pc[Closer(v)] # "up" => draining[v]
        /\ Closed(v) => \A t \in Caller : vol[t] = v \/ on[t] = v =>
                            pc[t] \in {"idle", "lockFlush", "unforced", "sorry"}
        /\ pc[Closer(v)] \in Committing => pc[Worker(v)] = "exit"
        /\ exit[v] # 99 => pc[Closer(v)] = "done"

\* The sequences of a volume, in their order.
SequenceInv ==
    \A v \in Volume :
        /\ durable[v] <= published[v] /\ published[v] <= accepted[v]
        /\ logged[v] <= accepted[v]
        /\ bar[v].completed <= durable[v]
        /\ bar[v].reqTarget <= accepted[v] /\ bar[v].inTarget <= accepted[v]
        /\ bar[v].failed <= accepted[v]

\* What a thread remembers was accepted for the volume it uses it for.
MarkInv ==
    /\ \A t \in Caller :
          /\ pc[t] \in {"walWait", "logged", "unlogged"} => mark[t] <= accepted[vol[t]]
          /\ pc[t] = "lockFlush" \/ (pc[t] \in Committing /\ on[t] = vol[t])
                => asked[t] <= accepted[vol[t]]
    /\ \A v \in Volume : /\ mark[Worker(v)] <= accepted[v]
                         /\ pc[Worker(v)] \in {"unlogged", "latch"} => wal[v] = "failed"

\* Between a commit and its finalization nothing is accepted.
PublishedInv ==
    \A t \in Thread : pc[t] = "finalize" => published[on[t]] = accepted[on[t]]

\* Somebody commits volume v and will end its barrier.
Claims(t, v) ==
    on[t] = v /\ (pc[t] \in {"commit", "finalize"} \/ (t \in Workers /\ pc[t] = "drain"))

\* A barrier in flight is ended by the thread that commits, unless the log
\* has failed.
BarrierInv ==
    \A v \in Volume :
        bar[v].inFlight => wal[v] = "failed" \/ \E t \in Thread : Claims(t, v)

Gap(v) == durable[v] < bar[v].failed

\* Whoever is about to accept.
Admitted(t) == pc[t] \in {"sibling", "accept"} \/ on[t] # vol[t]

\* Behind a target that failed the volume is closed for callbacks: the log
\* has failed, the host recovers, or the commit still runs.
GapInv ==
    /\ \A v \in Volume : Gap(v) =>
          wal[v] = "failed" \/ run[v] # "on" \/ \E t \in Thread : Claims(t, v)
    /\ \A t \in Caller : Admitted(t) /\ Gap(vol[t]) => wal[vol[t]] = "failed"

\* The callbacks that may still accept a change of v.
Pending(v) == {t \in Caller : vol[t] = v /\ (pc[t] = "lockChange" \/ Admitted(t))}

\* Every accepted change has a call of its own.
CallInv == \A v \in Volume : accepted[v] + Cardinality(Pending(v)) <= calls

IInv ==
    /\ TypeOK /\ PlaceInv /\ GateInv /\ CloseInv /\ SequenceInv /\ MarkInv /\ PublishedInv
    /\ BarrierInv /\ GapInv /\ CallInv
    /\ FlushedIsPublished /\ ExitClean

---------------------------------------------------------------------------
(* Facts the steps share.                                                  *)

Barrier == [requested : BOOLEAN, reqTarget : Sequence, inFlight : BOOLEAN,
            inTarget : Sequence, completed : Sequence, failed : Sequence,
            ok : BOOLEAN, stop : BOOLEAN]

Pcs == CallerPcs \cup WorkerPcs \cup CloserPcs

\* The threads of one kind are not those of another, and each volume has its own.
LEMMA Kinds ==
    /\ \A v \in Volume : /\ Worker(v) \in Thread /\ Closer(v) \in Thread
                         /\ Worker(v) \in Workers /\ Closer(v) \in Closers
                         /\ Worker(v) \notin Caller /\ Closer(v) \notin Caller
                         /\ Worker(v) \notin Closers /\ Closer(v) \notin Workers
    /\ \A v, w \in Volume : /\ Worker(v) # Closer(w)
                            /\ v # w => Worker(v) # Worker(w) /\ Closer(v) # Closer(w)
    /\ \A t \in Caller : t \in Thread /\ t \notin Workers /\ t \notin Closers
    /\ \A t \in Thread : t \in Caller \/ (\E v \in Volume : t = Worker(v))
                                      \/ (\E v \in Volume : t = Closer(v))
    /\ \A t \in Thread : t # Nobody
  <1>1. \A v, w \in Volume : /\ Worker(v) # Closer(w)
                             /\ v # w => Worker(v) # Worker(w) /\ Closer(v) # Closer(w)
    BY DEF Worker, Closer
  <1>2. QED
    BY <1>1, DeferredAssumption DEF Thread, Workers, Closers

\* The type of each variable.
LEMMA Typed ==
    ASSUME TypeOK
    PROVE  /\ mounted \in SUBSET Volume
           /\ bar \in [Volume -> Barrier]
           /\ accepted \in [Volume -> Sequence] /\ published \in [Volume -> Sequence]
           /\ durable \in [Volume -> Sequence] /\ logged \in [Volume -> Sequence]
           /\ wal \in [Volume -> {"fine", "uncleaned", "failed"}]
           /\ run \in [Volume -> {"on", "recovering", "off"}]
           /\ gate \in [Volume -> Thread \cup {Nobody}]
           /\ active \in [Volume -> SUBSET Caller] /\ draining \in [Volume -> BOOLEAN]
           /\ pc \in [Thread -> Pcs]
           /\ vol \in [Thread -> Volume] /\ on \in [Thread -> Volume]
           /\ mark \in [Thread -> Sequence] /\ asked \in [Thread -> Sequence]
           /\ exit \in [Volume -> {0, 9, 10, 11, 99}]
           /\ calls \in Sequence /\ faults \in 0 .. MaxFaults
  BY DEF TypeOK, Barrier, Pcs, CallerPcs, WorkerPcs, CloserPcs, Committing

\* A state whose variables have these types is well typed.
LEMMA TypedBack ==
    ASSUME mounted' \in SUBSET Volume, bar' \in [Volume -> Barrier],
           accepted' \in [Volume -> Sequence], published' \in [Volume -> Sequence],
           durable' \in [Volume -> Sequence], logged' \in [Volume -> Sequence],
           wal' \in [Volume -> {"fine", "uncleaned", "failed"}],
           run' \in [Volume -> {"on", "recovering", "off"}],
           gate' \in [Volume -> Thread \cup {Nobody}],
           active' \in [Volume -> SUBSET Caller], draining' \in [Volume -> BOOLEAN],
           pc' \in [Thread -> Pcs],
           vol' \in [Thread -> Volume], on' \in [Thread -> Volume],
           mark' \in [Thread -> Sequence], asked' \in [Thread -> Sequence],
           exit' \in [Volume -> {0, 9, 10, 11, 99}],
           calls' \in Sequence, faults' \in 0 .. MaxFaults
    PROVE  TypeOK'
  BY DEF TypeOK, Barrier, Pcs, CallerPcs, WorkerPcs, CloserPcs, Committing

\* Sequences are naturals, also those of a barrier.
LEMMA Numbers ==
    ASSUME TypeOK
    PROVE  /\ \A n \in Sequence : n \in Nat /\ n <= MaxCalls
           /\ \A n \in Nat : n <= MaxCalls => n \in Sequence
           /\ \A v \in Volume :
                 /\ accepted[v] \in Nat /\ published[v] \in Nat /\ durable[v] \in Nat
                 /\ logged[v] \in Nat /\ accepted[v] <= MaxCalls
                 /\ bar[v] \in Barrier /\ bar[v].reqTarget \in Nat /\ bar[v].inTarget \in Nat
                 /\ bar[v].completed \in Nat /\ bar[v].failed \in Nat
           /\ \A t \in Thread : mark[t] \in Nat /\ asked[t] \in Nat
  <1>1. \A n \in Sequence : n \in Nat /\ n <= MaxCalls
    BY DeferredAssumption DEF Sequence
  <1>2. QED
    BY <1>1, Typed, DeferredAssumption DEF Sequence, Barrier

\* What the end of a barrier does to it.
LEMMA CompletedFacts ==
    ASSUME NEW b \in Barrier, NEW s \in BOOLEAN, NEW q \in Nat
    PROVE  LET c == Completed(b, s, q)
           IN  /\ c \in Barrier
               /\ ~c.inFlight
               /\ c.requested = b.requested /\ c.reqTarget = b.reqTarget /\ c.stop = b.stop
               /\ c.inTarget = b.inTarget \/ c.inTarget = 0
               /\ c.completed = b.completed \/ (s /\ c.completed = b.inTarget)
               /\ c.failed = b.failed \/ (b.inFlight /\ c.failed = b.inTarget)
               /\ b.failed # 0 /\ b.completed < b.failed => c.completed < b.failed
  <1>1. \A n \in Sequence : n \in Nat /\ n <= MaxCalls
    BY DeferredAssumption DEF Sequence
  <1>2. b.inTarget \in Nat /\ b.completed \in Nat /\ b.failed \in Nat /\ 0 \in Sequence
    BY <1>1, DeferredAssumption DEF Barrier, Sequence
  <1>3. QED
    BY <1>2 DEF Completed, Larger, Barrier

\* What a claim does to a barrier.
LEMMA ClaimedFacts ==
    ASSUME NEW b \in Barrier
    PROVE  /\ Claimed(b) \in Barrier
           /\ Claimed(b).reqTarget = 0 /\ Claimed(b).inTarget = b.reqTarget
           /\ Claimed(b).completed = b.completed /\ Claimed(b).failed = b.failed
           /\ Claimed(b).inFlight
  <1>1. 0 \in Sequence
    BY DeferredAssumption DEF Sequence
  <1>2. QED
    BY <1>1 DEF Claimed, Barrier

\* What clearing a request does to a barrier.
LEMMA ClearedFacts ==
    ASSUME NEW b \in Barrier
    PROVE  LET c == Cleared(b)
           IN  /\ c \in Barrier
               /\ c.reqTarget = b.reqTarget \/ c.reqTarget = 0
               /\ c.inTarget = b.inTarget /\ c.inFlight = b.inFlight
               /\ c.completed = b.completed /\ c.failed = b.failed
  <1>1. 0 \in Sequence
    BY DeferredAssumption DEF Sequence
  <1>2. QED
    BY <1>1 DEF Cleared, Barrier

\* What a request does to a barrier.
LEMMA RequestedFacts ==
    ASSUME NEW b \in Barrier, NEW n \in Sequence
    PROVE  LET c == Requested(b, n)
           IN  /\ c \in Barrier
               /\ c.reqTarget = b.reqTarget \/ c.reqTarget = n
               /\ c.inTarget = b.inTarget /\ c.inFlight = b.inFlight
               /\ c.completed = b.completed /\ c.failed = b.failed
  BY DEF Requested, Larger, Barrier

\* Two threads that commit the same volume are one, and nobody accepts beside it.
LEMMA OneCommits ==
    ASSUME TypeOK, PlaceInv, GateInv, CloseInv,
           NEW t \in Thread, pc[t] \in Committing
    PROVE  /\ \A u \in Thread : pc[u] \in Committing /\ on[u] = on[t] => u = t
           /\ \A u \in Caller : vol[u] = on[t] => ~Admitted(u)
  <1>1. \A u \in Caller : Admitted(u) => gate[vol[u]] = u
    BY DEF Admitted, PlaceInv, GateInv, Ungated, Committing
  <1>2. CASE t \in Caller
    <2>1. gate[on[t]] = t
      BY <1>2 DEF GateInv, Ungated, Committing
    <2>2. ~(\E v \in Volume : v = on[t] /\ Closed(v))
      BY <1>2 DEF CloseInv, Committing
    <2>3. ASSUME NEW u \in Thread, pc[u] \in Committing, on[u] = on[t]
          PROVE  u = t
      BY <1>2, <2>1, <2>2, <2>3, Kinds DEF PlaceInv, GateInv, Ungated, Committing, Closed, WorkerPcs
    <2>4. ASSUME NEW u \in Caller, vol[u] = on[t], Admitted(u)
          PROVE  FALSE
      <3>1. u = t
        BY <1>1, <2>1, <2>4
      <3>2. QED
        BY <2>4, <3>1 DEF Admitted, Committing
    <2>5. QED
      BY <2>3, <2>4
  <1>3. ASSUME NEW v \in Volume, t = Worker(v)
        PROVE  /\ \A u \in Thread : pc[u] \in Committing /\ on[u] = on[t] => u = t
               /\ \A u \in Caller : vol[u] = on[t] => ~Admitted(u)
    <2>1. gate[v] = t /\ on[t] = v /\ pc[Closer(v)] \notin Committing
      BY <1>3 DEF PlaceInv, GateInv, WorkerPcs, Committing, CloseInv
    <2>2. ASSUME NEW u \in Thread, pc[u] \in Committing, on[u] = v
          PROVE  u = t
      BY <1>3, <2>1, <2>2, Kinds DEF PlaceInv, GateInv, Ungated, Committing
    <2>3. QED
      BY <1>1, <1>3, <2>1, <2>2, Kinds
  <1>4. ASSUME NEW v \in Volume, t = Closer(v)
        PROVE  /\ \A u \in Thread : pc[u] \in Committing /\ on[u] = on[t] => u = t
               /\ \A u \in Caller : vol[u] = on[t] => ~Admitted(u)
    <2>1. on[t] = v /\ Closed(v) /\ pc[Worker(v)] = "exit"
      BY <1>4 DEF PlaceInv, CloseInv, Closed
    <2>2. \A u \in Caller : vol[u] = v \/ on[u] = v =>
              pc[u] \in {"idle", "lockFlush", "unforced", "sorry"}
      BY <2>1 DEF CloseInv
    <2>3. ASSUME NEW u \in Thread, pc[u] \in Committing, on[u] = v
          PROVE  u = t
      BY <1>4, <2>1, <2>2, <2>3, Kinds DEF PlaceInv, Committing
    <2>4. ASSUME NEW u \in Caller, vol[u] = v
          PROVE  ~Admitted(u)
      BY <2>2, <2>4 DEF Admitted, PlaceInv, Committing
    <2>5. QED
      BY <2>1, <2>3, <2>4
  <1>5. QED
    BY <1>2, <1>3, <1>4, Kinds

---------------------------------------------------------------------------
(* The steps of a commit.                                                  *)

\* What a return changes: the thread leaves the drain, a worker and a
\* callback that drained a sibling give the gate of that volume back, and a
\* shutdown has its exit code.
ReturnEffect(t, ok) ==
    /\ pc' \in [Thread -> Pcs] /\ \A u \in Thread \ {t} : pc'[u] = pc[u]
    /\ on' \in [Thread -> Volume] /\ \A u \in Thread \ {t} : on'[u] = on[u]
    /\ gate' \in [Volume -> Thread \cup {Nobody}]
    /\ \A w \in Volume \ {on[t]} : gate'[w] = gate[w] /\ active'[w] = active[w]
    /\ active' \in [Volume -> SUBSET Caller]
    /\ exit' \in [Volume -> {0, 9, 10, 11, 99}]
    /\ t \in Workers => /\ pc'[t] = "wait" /\ on' = on /\ gate'[on[t]] = Nobody
                        /\ active' = active /\ exit' = exit
    /\ t \in Closers => /\ pc'[t] = "done" /\ on' = on
                        /\ gate' = gate /\ active' = active
                        /\ \A w \in Volume \ {on[t]} : exit'[w] = exit[w]
                        /\ exit'[on[t]] \in {0, 10, 11} /\ (exit'[on[t]] = 0 => ok)
    /\ t \in Caller /\ on[t] = vol[t] => /\ pc'[t] \in {"okay", "sorry"} /\ on' = on
                                         /\ pc'[t] = "okay" => ok
                                         /\ gate' = gate /\ active' = active /\ exit' = exit
    /\ t \in Caller /\ on[t] # vol[t] => /\ pc'[t] \in {"sibling", "sorry"} /\ on'[t] = vol[t]
                                         /\ gate'[on[t]] = Nobody /\ exit' = exit
                                         /\ active'[on[t]] = active[on[t]] \ {t}

\* Return does that.
LEMMA ReturnChanges ==
    ASSUME TypeOK, PlaceInv, NEW t \in Thread, NEW ok \in BOOLEAN, Return(t, ok)
    PROVE  ReturnEffect(t, ok)
  <1>1. /\ pc \in [Thread -> Pcs] /\ on \in [Thread -> Volume] /\ vol \in [Thread -> Volume]
        /\ gate \in [Volume -> Thread \cup {Nobody}] /\ active \in [Volume -> SUBSET Caller]
        /\ exit \in [Volume -> {0, 9, 10, 11, 99}]
    BY Typed
  <1>2. {"wait", "done", "okay", "sorry", "sibling"} \subseteq Pcs
    BY DEF Pcs, CallerPcs, WorkerPcs, CloserPcs
  <1>3. CASE t \in Workers
    <2>1. t \notin Closers /\ t \notin Caller
      BY <1>3, Kinds
    <2>2. /\ pc' = [pc EXCEPT ![t] = "wait"] /\ gate' = [gate EXCEPT ![on[t]] = Nobody]
          /\ active' = active /\ on' = on /\ exit' = exit
      BY <1>3, <2>1 DEF Return, Goto
    <2>3. QED
      BY <1>1, <1>2, <1>3, <2>1, <2>2 DEF ReturnEffect
  <1>4. CASE t \in Closers
    <2>1. t \notin Workers /\ t \notin Caller
      BY <1>4, Kinds
    <2>2. /\ pc' = [pc EXCEPT ![t] = "done"] /\ gate' = gate /\ active' = active /\ on' = on
          /\ \E c \in {0, 10, 11} : exit' = [exit EXCEPT ![on[t]] = c] /\ (c = 0 => ok)
      BY <1>4, <2>1 DEF Return, Goto
    <2>3. QED
      BY <1>1, <1>2, <1>4, <2>1, <2>2 DEF ReturnEffect
  <1>5. CASE t \in Caller /\ on[t] = vol[t]
    <2>1. t \notin Workers /\ t \notin Closers
      BY <1>5, Kinds
    <2>2. /\ pc' = [pc EXCEPT ![t] = IF ok THEN "okay" ELSE "sorry"]
          /\ gate' = gate /\ active' = active /\ on' = on /\ exit' = exit
      BY <1>5, <2>1 DEF Return, Goto
    <2>3. QED
      BY <1>1, <1>2, <1>5, <2>1, <2>2 DEF ReturnEffect
  <1>6. CASE t \in Caller /\ on[t] # vol[t]
    <2>1. t \notin Workers /\ t \notin Closers
      BY <1>6, Kinds
    <2>2. /\ pc' = [pc EXCEPT ![t] = IF ok THEN "sibling" ELSE "sorry"]
          /\ gate' = [gate EXCEPT ![on[t]] = Nobody]
          /\ active' = [active EXCEPT ![on[t]] = @ \ {t}]
          /\ on' = [on EXCEPT ![t] = vol[t]] /\ exit' = exit
      BY <1>6, <2>1 DEF Return, Goto
    <2>3. QED
      BY <1>1, <1>2, <1>6, <2>1, <2>2 DEF ReturnEffect
  <1>7. QED
    BY <1>3, <1>4, <1>5, <1>6, Kinds DEF Workers, Closers

\* A return keeps gates, admissions and shutdowns in order.
LEMMA ReturnPlaces ==
    ASSUME TypeOK, PlaceInv, GateInv, CloseInv, NEW t \in Thread, NEW ok \in BOOLEAN,
           pc[t] \in Committing, ReturnEffect(t, ok), UNCHANGED <<vol, draining>>
    PROVE  PlaceInv' /\ GateInv' /\ CloseInv'
  <1>1. /\ pc \in [Thread -> Pcs] /\ on \in [Thread -> Volume] /\ vol \in [Thread -> Volume]
        /\ gate \in [Volume -> Thread \cup {Nobody}] /\ active \in [Volume -> SUBSET Caller]
    BY Typed
  <1>2. /\ \A u \in Thread : pc[u] \in Committing /\ on[u] = on[t] => u = t
        /\ \A u \in Caller : vol[u] = on[t] => ~Admitted(u)
    BY OneCommits
  <1>3. CASE t \in Caller
    <2>1. /\ t \notin Workers /\ t \notin Closers
          /\ \A v \in Volume : Worker(v) # t /\ Closer(v) # t
      BY <1>3, Kinds
    <2>2. /\ on'[t] = vol[t] /\ exit' = exit
          /\ pc'[t] \in {"okay", "sorry", "sibling"}
          /\ \A v \in Volume : /\ pc'[Worker(v)] = pc[Worker(v)] /\ on'[Worker(v)] = on[Worker(v)]
                               /\ pc'[Closer(v)] = pc[Closer(v)] /\ on'[Closer(v)] = on[Closer(v)]
      BY <1>1, <1>3, <2>1, Kinds DEF ReturnEffect
    <2>3. PlaceInv'
      BY <1>3, <2>1, <2>2, Kinds DEF PlaceInv, ReturnEffect, CallerPcs
    <2>4. gate[vol[t]] = t /\ gate[on[t]] = t /\ t \in active[vol[t]]
      BY <1>3 DEF GateInv, Committing, Ungated
    <2>5. ASSUME NEW u \in Caller
          PROVE  /\ pc'[u] # "idle" => u \in active'[vol'[u]] /\ u \in active'[on'[u]]
                 /\ pc'[u] \notin Ungated => gate'[vol'[u]] = u /\ gate'[on'[u]] = u
      <3>1. CASE u = t
        BY <1>1, <1>3, <2>2, <2>4, <3>1 DEF ReturnEffect
      <3>2. CASE u # t
        <4>1. /\ pc'[u] = pc[u] /\ on'[u] = on[u] /\ vol'[u] = vol[u] /\ vol[u] \in Volume
              /\ on[u] \in Volume
          BY <1>1, <3>2, Kinds DEF ReturnEffect
        <4>2. pc[u] # "idle" => u \in active[vol[u]] /\ u \in active[on[u]]
          BY DEF GateInv
        <4>3. pc[u] \notin Ungated => gate[vol[u]] = u /\ gate[on[u]] = u
          BY DEF GateInv
        <4>4. \A w \in Volume : /\ gate[w] = u => gate'[w] = u
                                /\ u \in active[w] => u \in active'[w]
          BY <1>1, <1>3, <2>4, <3>2 DEF ReturnEffect
        <4>5. QED
          BY <4>1, <4>2, <4>3, <4>4
      <3>3. QED
        BY <3>1, <3>2
    <2>6. ASSUME NEW v \in Volume, pc'[Worker(v)] \in {"drain", "commit", "finalize"}
          PROVE  gate'[v] = Worker(v)
      <3>1. gate[v] = Worker(v)
        BY <2>2, <2>6 DEF GateInv
      <3>2. gate[v] # t
        BY <2>1, <3>1
      <3>3. QED
        BY <1>1, <1>3, <2>4, <3>1, <3>2 DEF ReturnEffect
    <2>7. GateInv'
      BY <2>5, <2>6 DEF GateInv
    <2>8. CloseInv'
      <3>1. ASSUME NEW v \in Volume, Closed(v)
            PROVE  vol[t] # v /\ on[t] # v
        BY <1>3, <3>1 DEF CloseInv, Committing
      <3>2. \A v \in Volume : Closed(v)' = Closed(v)
        BY <2>2 DEF Closed
      <3>3. \A u \in Caller : u # t => pc'[u] = pc[u] /\ on'[u] = on[u]
        BY Kinds DEF ReturnEffect
      <3>4. \A v \in Volume : Closed(v) => \A u \in Caller : vol'[u] = v \/ on'[u] = v =>
                                   pc'[u] \in {"idle", "lockFlush", "unforced", "sorry"}
        BY <2>2, <3>1, <3>3 DEF CloseInv
      <3>5. QED
        BY <2>2, <3>2, <3>4 DEF CloseInv
    <2>9. QED
      BY <2>3, <2>7, <2>8
  <1>4. ASSUME NEW v \in Volume, t = Worker(v)
        PROVE  PlaceInv' /\ GateInv' /\ CloseInv'
    <2>1. /\ t \in Workers /\ t \notin Caller /\ on[t] = v /\ gate[v] = t
          /\ pc[Closer(v)] \notin Committing
      BY <1>4, Kinds DEF PlaceInv, GateInv, CloseInv, WorkerPcs, Committing
    <2>2. /\ pc'[t] = "wait" /\ on' = on /\ active' = active /\ exit' = exit /\ gate'[v] = Nobody
          /\ \A w \in Volume \ {v} : gate'[w] = gate[w]
          /\ \A u \in Caller : pc'[u] = pc[u]
          /\ \A w \in Volume : pc'[Closer(w)] = pc[Closer(w)]
          /\ \A w \in Volume \ {v} : pc'[Worker(w)] = pc[Worker(w)]
      <3>1. \A u \in Thread \ {t} : pc'[u] = pc[u]
        BY DEF ReturnEffect
      <3>2. /\ \A u \in Caller : u \in Thread \ {t}
            /\ \A w \in Volume : Closer(w) \in Thread \ {t}
            /\ \A w \in Volume \ {v} : Worker(w) \in Thread \ {t}
        BY <1>4, Kinds
      <3>3. QED
        BY <2>1, <3>1, <3>2 DEF ReturnEffect
    <2>3. PlaceInv'
      BY <1>4, <2>2 DEF PlaceInv, WorkerPcs
    <2>4. GateInv'
      <3>1. \A u \in Caller : pc[u] \notin Ungated => vol[u] # v /\ on[u] # v
        BY <2>1 DEF GateInv
      <3>2. QED
        BY <1>1, <1>4, <2>2, <3>1, Kinds DEF GateInv
    <2>5. CloseInv'
      <3>1. \A w \in Volume : Closed(w)' = Closed(w)
        BY <2>2 DEF Closed
      <3>2. QED
        BY <1>4, <2>1, <2>2, <3>1 DEF CloseInv
    <2>6. QED
      BY <2>3, <2>4, <2>5
  <1>5. ASSUME NEW v \in Volume, t = Closer(v)
        PROVE  PlaceInv' /\ GateInv' /\ CloseInv'
    <2>1. t \in Closers /\ t \notin Caller /\ on[t] = v
      BY <1>5, Kinds DEF PlaceInv
    <2>2. /\ pc'[t] = "done" /\ on' = on /\ active' = active /\ gate' = gate
          /\ exit'[v] \in {0, 10, 11} /\ \A w \in Volume \ {v} : exit'[w] = exit[w]
          /\ \A u \in Caller : pc'[u] = pc[u]
          /\ \A w \in Volume : pc'[Worker(w)] = pc[Worker(w)]
          /\ \A w \in Volume \ {v} : pc'[Closer(w)] = pc[Closer(w)]
      <3>1. \A u \in Thread \ {t} : pc'[u] = pc[u]
        BY DEF ReturnEffect
      <3>2. /\ \A u \in Caller : u \in Thread \ {t}
            /\ \A w \in Volume : Worker(w) \in Thread \ {t}
            /\ \A w \in Volume \ {v} : Closer(w) \in Thread \ {t}
        BY <1>5, Kinds
      <3>3. QED
        BY <2>1, <3>1, <3>2 DEF ReturnEffect
    <2>3. PlaceInv'
      BY <1>5, <2>2 DEF PlaceInv, CloserPcs
    <2>4. GateInv'
      BY <1>5, <2>2 DEF GateInv
    <2>5. CloseInv'
      <3>1. Closed(v) /\ \A w \in Volume \ {v} : Closed(w)' = Closed(w)
        BY <1>5, <2>2 DEF Closed
      <3>2. draining[v] /\ pc[Closer(v)] # "up"
        BY <1>5 DEF CloseInv, Committing
      <3>3. QED
        BY <1>5, <2>1, <2>2, <3>1, <3>2 DEF CloseInv, Committing
    <2>6. QED
      BY <2>3, <2>4, <2>5
  <1>6. QED
    BY <1>3, <1>4, <1>5, Kinds

\* The callbacks of a volume that may still accept are finitely many.
LEMMA PendingFinite ==
    /\ \A v \in Volume : IsFiniteSet(Pending(v)) /\ Cardinality(Pending(v)) \in Nat
    /\ \A v \in Volume : IsFiniteSet(Pending(v)') /\ Cardinality(Pending(v)') \in Nat
  <1>1. \A v \in Volume : Pending(v) \in SUBSET Caller /\ Pending(v)' \in SUBSET Caller
    BY DEF Pending
  <1>2. \A S \in SUBSET Caller : IsFiniteSet(S) /\ Cardinality(S) \in Nat
    BY DeferredAssumption, FS_Subset, FS_CardinalityType
  <1>3. QED
    BY <1>1, <1>2

\* As long as nothing is accepted and nobody new may accept, the calls suffice.
LEMMA PendingShrinks ==
    ASSUME TypeOK, CallInv, accepted' = accepted, calls' \in Nat, calls <= calls',
           \A v \in Volume : Pending(v)' \subseteq Pending(v)
    PROVE  CallInv'
  <1>1. \A v \in Volume : Cardinality(Pending(v)') <= Cardinality(Pending(v))
    BY PendingFinite, FS_Subset
  <1>2. calls \in Nat /\ \A v \in Volume : accepted[v] \in Nat
    BY Numbers, Typed
  <1>3. QED
    BY <1>1, <1>2, PendingFinite DEF CallInv

\* What every step of a commit by t does to the sequences and to the barrier of
\* its volume: the marks rise, within what was accepted, and a log that failed stays so.
CommitData(t, v) ==
    /\ UNCHANGED <<mounted, accepted, draining, vol, asked, calls>>
    /\ mark' \in [Thread -> Sequence] /\ \A u \in Thread \ {t} : mark'[u] = mark[u]
    /\ t \in Workers => mark'[t] = mark[t]
    /\ bar' \in [Volume -> Barrier] /\ published' \in [Volume -> Sequence]
    /\ durable' \in [Volume -> Sequence] /\ logged' \in [Volume -> Sequence]
    /\ wal' \in [Volume -> {"fine", "uncleaned", "failed"}]
    /\ run' \in [Volume -> {"on", "recovering", "off"}] /\ faults' \in 0 .. MaxFaults
    /\ \A w \in Volume \ {v} : /\ bar'[w] = bar[w] /\ published'[w] = published[w]
                               /\ durable'[w] = durable[w] /\ logged'[w] = logged[w]
                               /\ wal'[w] = wal[w] /\ run'[w] = run[w]
    /\ published[v] <= published'[v] /\ published'[v] <= accepted[v]
    /\ durable[v] <= durable'[v] /\ durable'[v] <= published'[v]
    /\ logged'[v] <= accepted[v]
    /\ bar'[v].completed <= durable'[v] /\ bar'[v].reqTarget <= accepted[v]
    /\ bar'[v].inTarget <= accepted[v] /\ bar'[v].failed <= accepted[v]
    /\ wal[v] = "failed" => wal'[v] = "failed"

\* What the step leaves of the thread: it does not begin to accept, a thread that
\* reaches "finalize", answers success or exits with 0 has published everything, and
\* the barrier and a gap of its volume are looked after.
CommitPlace(t, v) ==
    /\ pc' \in [Thread -> Pcs] /\ \A u \in Thread \ {t} : pc'[u] = pc[u]
    /\ on' \in [Thread -> Volume] /\ \A u \in Thread \ {t} : on'[u] = on[u]
    /\ pc'[t] \notin {"walWait", "logged", "unlogged", "lockFlush", "lockChange", "latch"}
    /\ pc'[t] \in Committing => on'[t] = v
    /\ pc'[t] = "finalize" => published'[v] = accepted[v]
    /\ t \in Caller /\ Admitted(t)' => Admitted(t)
    /\ t \in Caller /\ pc'[t] = "okay" => v = vol[t] /\ published'[v] = accepted[v]
    /\ \A w \in Volume : exit'[w] = 0 =>
          \/ exit[w] = 0
          \/ w = v /\ published'[v] = accepted[v] /\ durable'[v] = accepted[v]
    /\ bar'[v].inFlight => wal'[v] = "failed" \/ \E u \in Thread : Claims(u, v)'
    /\ Gap(v)' => wal'[v] = "failed" \/ run'[v] # "on" \/ \E u \in Thread : Claims(u, v)'

\* Such a step keeps what the invariant says of sequences, marks and barriers.
LEMMA CommitKeepsData ==
    ASSUME IInv, NEW t \in Thread, NEW v \in Volume, v = on[t], pc[t] \in Committing,
           CommitData(t, v), CommitPlace(t, v)
    PROVE  /\ SequenceInv' /\ MarkInv' /\ PublishedInv' /\ BarrierInv' /\ GapInv' /\ CallInv'
           /\ FlushedIsPublished' /\ ExitClean'
  <1>0. /\ TypeOK /\ PlaceInv /\ GateInv /\ CloseInv /\ SequenceInv /\ MarkInv /\ PublishedInv
        /\ BarrierInv /\ GapInv /\ CallInv /\ FlushedIsPublished /\ ExitClean
    BY DEF IInv
  <1>1. /\ pc \in [Thread -> Pcs] /\ on \in [Thread -> Volume] /\ vol \in [Thread -> Volume]
        /\ v \in Volume /\ calls \in Nat
    BY <1>0, Typed, Numbers
  <1>2. /\ \A u \in Thread : pc[u] \in Committing /\ on[u] = on[t] => u = t
        /\ \A u \in Caller : vol[u] = on[t] => ~Admitted(u)
    BY <1>0, OneCommits
  <1>3. /\ accepted' = accepted /\ vol' = vol /\ asked' = asked /\ calls' = calls
        /\ \A u \in Thread \ {t} : pc'[u] = pc[u] /\ on'[u] = on[u] /\ mark'[u] = mark[u]
        /\ \A w \in Volume \ {v} : /\ bar'[w] = bar[w] /\ published'[w] = published[w]
                                   /\ durable'[w] = durable[w] /\ logged'[w] = logged[w]
                                   /\ wal'[w] = wal[w] /\ run'[w] = run[w]
    BY DEF CommitData, CommitPlace
  <1>4. \A w \in Volume : /\ accepted[w] \in Nat /\ published[w] \in Nat /\ durable[w] \in Nat
                          /\ published'[w] \in Nat /\ durable'[w] \in Nat
                          /\ published[w] <= published'[w]
    <2>1. \A n \in Sequence : n \in Nat
      BY <1>0, Numbers
    <2>2. /\ published \in [Volume -> Sequence] /\ published' \in [Volume -> Sequence]
          /\ durable \in [Volume -> Sequence] /\ durable' \in [Volume -> Sequence]
          /\ accepted \in [Volume -> Sequence] /\ published[v] <= published'[v]
      BY <1>0, Typed DEF CommitData
    <2>3. QED
      BY <1>3, <2>1, <2>2
  <1>5. SequenceInv'
    <2>1. ASSUME NEW w \in Volume, w # v
          PROVE  /\ durable'[w] <= published'[w] /\ published'[w] <= accepted'[w]
                 /\ logged'[w] <= accepted'[w] /\ bar'[w].completed <= durable'[w]
                 /\ bar'[w].reqTarget <= accepted'[w] /\ bar'[w].inTarget <= accepted'[w]
                 /\ bar'[w].failed <= accepted'[w]
      BY <1>0, <1>3, <2>1 DEF SequenceInv
    <2>2. /\ durable'[v] <= published'[v] /\ published'[v] <= accepted'[v]
          /\ logged'[v] <= accepted'[v] /\ bar'[v].completed <= durable'[v]
          /\ bar'[v].reqTarget <= accepted'[v] /\ bar'[v].inTarget <= accepted'[v]
          /\ bar'[v].failed <= accepted'[v]
      BY <1>3 DEF CommitData
    <2>3. QED
      BY <2>1, <2>2 DEF SequenceInv
  <1>6. MarkInv'
    <2>1. ASSUME NEW u \in Caller
          PROVE  /\ pc'[u] \in {"walWait", "logged", "unlogged"} => mark'[u] <= accepted'[vol'[u]]
                 /\ pc'[u] = "lockFlush" \/ (pc'[u] \in Committing /\ on'[u] = vol'[u])
                        => asked'[u] <= accepted'[vol'[u]]
      <3>1. CASE u = t
        BY <1>0, <1>3, <2>1, <3>1 DEF CommitPlace, MarkInv
      <3>2. CASE u # t
        BY <1>0, <1>3, <2>1, <3>2, Kinds DEF MarkInv
      <3>3. QED
        BY <3>1, <3>2
    <2>2. ASSUME NEW w \in Volume
          PROVE  /\ mark'[Worker(w)] <= accepted'[w]
                 /\ pc'[Worker(w)] \in {"unlogged", "latch"} => wal'[w] = "failed"
      <3>1. wal[w] = "failed" => wal'[w] = "failed"
        BY <1>3 DEF CommitData
      <3>2. mark'[Worker(w)] = mark[Worker(w)]
        BY <1>3, Kinds DEF CommitData
      <3>3. pc'[Worker(w)] \in {"unlogged", "latch"} => pc[Worker(w)] \in {"unlogged", "latch"}
        BY <1>3, Kinds DEF CommitPlace
      <3>4. QED
        BY <1>0, <1>3, <3>1, <3>2, <3>3 DEF MarkInv
    <2>3. QED
      BY <2>1, <2>2 DEF MarkInv
  <1>7. PublishedInv'
    <2>1. ASSUME NEW u \in Thread, pc'[u] = "finalize"
          PROVE  published'[on'[u]] = accepted'[on'[u]]
      <3>1. CASE u = t
        BY <1>3, <2>1, <3>1 DEF CommitPlace, Committing
      <3>2. CASE u # t
        <4>1. on[u] # v
          BY <1>2, <1>3, <2>1, <3>2 DEF Committing
        <4>2. QED
          BY <1>0, <1>1, <1>3, <2>1, <3>2, <4>1 DEF PublishedInv
      <3>3. QED
        BY <3>1, <3>2
    <2>2. QED
      BY <2>1 DEF PublishedInv
  <1>8. ASSUME NEW w \in Volume, w # v, NEW u \in Thread, Claims(u, w)
        PROVE  Claims(u, w)'
    BY <1>3, <1>8 DEF Claims
  <1>9. BarrierInv'
    <2>1. bar'[v].inFlight => wal'[v] = "failed" \/ \E u \in Thread : Claims(u, v)'
      BY DEF CommitPlace
    <2>2. \A w \in Volume \ {v} :
             bar'[w].inFlight => wal'[w] = "failed" \/ \E u \in Thread : Claims(u, w)'
      BY <1>0, <1>3, <1>8 DEF BarrierInv
    <2>3. QED
      BY <2>1, <2>2 DEF BarrierInv
  <1>10. GapInv'
    <2>1. \A w \in Volume : Gap(w)' =>
             wal'[w] = "failed" \/ run'[w] # "on" \/ \E u \in Thread : Claims(u, w)'
      <3>1. Gap(v)' => wal'[v] = "failed" \/ run'[v] # "on" \/ \E u \in Thread : Claims(u, v)'
        BY DEF CommitPlace
      <3>2. \A w \in Volume \ {v} : Gap(w)' =>
               wal'[w] = "failed" \/ run'[w] # "on" \/ \E u \in Thread : Claims(u, w)'
        BY <1>0, <1>3, <1>8 DEF GapInv, Gap
      <3>3. QED
        BY <3>1, <3>2
    <2>2. ASSUME NEW u \in Caller, Admitted(u)', Gap(vol[u])'
          PROVE  wal'[vol[u]] = "failed"
      <3>1. Admitted(u)
        <4>1. CASE u = t
          BY <2>2, <4>1 DEF CommitPlace
        <4>2. CASE u # t
          BY <1>3, <2>2, <4>2, Kinds DEF Admitted
        <4>3. QED
          BY <4>1, <4>2
      <3>2. vol[u] # v /\ vol[u] \in Volume
        BY <1>1, <1>2, <3>1, Kinds
      <3>3. QED
        BY <1>0, <1>3, <2>2, <3>1, <3>2 DEF GapInv, Gap
    <2>3. QED
      BY <1>3, <2>1, <2>2 DEF GapInv
  <1>11. CallInv'
    <2>1. ASSUME NEW w \in Volume, NEW u \in Pending(w)'
          PROVE  u \in Pending(w)
      <3>1. u \in Caller /\ vol[u] = w /\ (pc'[u] = "lockChange" \/ Admitted(u)')
        BY <1>3 DEF Pending
      <3>2. CASE u = t
        BY <3>1, <3>2 DEF Pending, CommitPlace
      <3>3. CASE u # t
        BY <1>3, <3>1, <3>3, Kinds DEF Pending, Admitted
      <3>4. QED
        BY <3>2, <3>3
    <2>2. QED
      BY <1>0, <1>1, <1>3, <2>1, PendingShrinks
  <1>12. FlushedIsPublished'
    <2>1. ASSUME NEW u \in Caller, pc'[u] = "okay"
          PROVE  published'[vol'[u]] >= asked'[u]
      <3>1. asked[u] \in Nat /\ vol[u] \in Volume
        BY <1>0, <1>1, Numbers, Kinds
      <3>2. CASE u = t
        <4>1. v = vol[t] /\ published'[v] = accepted[v] /\ asked[t] <= accepted[v]
          BY <1>0, <2>1, <3>2 DEF CommitPlace, MarkInv
        <4>2. QED
          BY <1>3, <1>4, <3>1, <3>2, <4>1
      <3>3. CASE u # t
        <4>1. published[vol[u]] >= asked[u]
          BY <1>0, <1>3, <2>1, <3>3, Kinds DEF FlushedIsPublished
        <4>2. QED
          BY <1>3, <1>4, <3>1, <4>1
      <3>4. QED
        BY <3>2, <3>3
    <2>2. QED
      BY <2>1 DEF FlushedIsPublished
  <1>13. ExitClean'
    <2>1. ASSUME NEW w \in Volume, exit'[w] = 0
          PROVE  published'[w] = accepted[w] /\ durable'[w] = accepted[w]
      <3>1. CASE exit[w] # 0
        BY <2>1, <3>1 DEF CommitPlace
      <3>2. CASE exit[w] = 0
        <4>1. published[w] = accepted[w] /\ durable[w] = accepted[w]
          BY <1>0, <3>2 DEF ExitClean
        <4>2. CASE w # v
          BY <1>3, <4>1, <4>2
        <4>3. CASE w = v
          BY <1>4, <4>1, <4>3 DEF CommitData
        <4>4. QED
          BY <4>2, <4>3
      <3>3. QED
        BY <3>1, <3>2
    <2>2. QED
      BY <1>3, <2>1 DEF ExitClean
  <1>14. QED
    BY <1>5, <1>6, <1>7, <1>9, <1>10, <1>11, <1>12, <1>13

\* A step that ends the drain of t.
LEMMA ReturnKeeps ==
    ASSUME IInv, NEW t \in Thread, NEW v \in Volume, v = on[t], pc[t] \in Committing,
           NEW ok \in BOOLEAN, CommitData(t, v),
           Return(t, ok),
           ok => published'[v] = accepted[v] /\ durable'[v] = accepted[v],
           bar'[v].inFlight => wal'[v] = "failed",
           Gap(v)' => wal'[v] = "failed" \/ run'[v] # "on"
    PROVE  IInv'
  <1>0. /\ TypeOK /\ PlaceInv /\ GateInv /\ CloseInv
    BY DEF IInv
  <1>1. ReturnEffect(t, ok)
    BY <1>0, ReturnChanges
  <1>2. PlaceInv' /\ GateInv' /\ CloseInv'
    BY <1>0, <1>1, ReturnPlaces DEF CommitData
  <1>3. TypeOK'
    BY <1>0, <1>1, Typed, TypedBack DEF CommitData, ReturnEffect
  <1>4. CommitPlace(t, v)
    <2>1. /\ pc' \in [Thread -> Pcs] /\ \A u \in Thread \ {t} : pc'[u] = pc[u]
          /\ on' \in [Thread -> Volume] /\ \A u \in Thread \ {t} : on'[u] = on[u]
      BY <1>1 DEF ReturnEffect
    <2>2. pc'[t] \in {"wait", "done", "okay", "sorry", "sibling"}
      BY <1>1, Kinds DEF ReturnEffect
    <2>3. t \in Caller /\ Admitted(t)' => Admitted(t)
      BY <1>1 DEF ReturnEffect, Admitted, CommitData
    <2>4. t \in Caller /\ pc'[t] = "okay" => v = vol[t] /\ published'[v] = accepted[v]
      BY <1>1 DEF ReturnEffect
    <2>5. \A w \in Volume : exit'[w] = 0 =>
              \/ exit[w] = 0
              \/ w = v /\ published'[v] = accepted[v] /\ durable'[v] = accepted[v]
      <3>1. CASE t \in Closers
        BY <1>1, <3>1 DEF ReturnEffect
      <3>2. CASE t \notin Closers
        <4>1. exit' = exit
          BY <1>1, <3>2, Kinds DEF ReturnEffect
        <4>2. QED
          BY <4>1
      <3>3. QED
        BY <3>1, <3>2
    <2>6. QED
      BY <2>1, <2>2, <2>3, <2>4, <2>5 DEF CommitPlace, Committing
  <1>5. QED
    BY <1>2, <1>3, <1>4, CommitKeepsData DEF IInv

\* A step within the drain of t.
LEMMA StayKeeps ==
    ASSUME IInv, NEW t \in Thread, NEW v \in Volume, v = on[t], pc[t] \in Committing,
           NEW p \in Committing, CommitData(t, v),
           pc' = [pc EXCEPT ![t] = p], t \in Workers => p \in {"commit", "finalize"},
           UNCHANGED <<gate, active, on, exit>>,
           p = "finalize" => published'[v] = accepted[v],
           bar'[v].inFlight => wal'[v] = "failed" \/ p \in {"commit", "finalize"},
           Gap(v)' => \/ wal'[v] = "failed" \/ run'[v] # "on"
                          \/ p \in {"commit", "finalize"}
    PROVE  IInv'
  <1>0. /\ TypeOK /\ PlaceInv /\ GateInv /\ CloseInv
    BY DEF IInv
  <1>1. /\ pc \in [Thread -> Pcs] /\ on \in [Thread -> Volume] /\ vol \in [Thread -> Volume]
        /\ p \in Pcs
    BY <1>0, Typed DEF Pcs, CallerPcs
  <1>2. /\ pc' \in [Thread -> Pcs] /\ pc'[t] = p /\ \A u \in Thread \ {t} : pc'[u] = pc[u]
    BY <1>1
  <1>3. TypeOK'
    BY <1>0, <1>2, Typed, TypedBack DEF CommitData
  <1>4. vol' = vol /\ draining' = draining
    BY DEF CommitData
  <1>5. PlaceInv'
    <2>1. \A u \in Caller : pc'[u] \in CallerPcs /\ (on'[u] # vol'[u] => pc'[u] \in Committing)
      BY <1>0, <1>2, <1>4, Kinds DEF PlaceInv, CallerPcs
    <2>2. \A w \in Volume : pc'[Worker(w)] \in WorkerPcs /\ pc'[Closer(w)] \in CloserPcs
      BY <1>0, <1>2, Kinds DEF PlaceInv, WorkerPcs, CloserPcs
    <2>3. QED
      BY <1>0, <1>4, <2>1, <2>2 DEF PlaceInv
  <1>6. GateInv'
    <2>1. \A u \in Caller : /\ pc'[u] # "idle" => pc[u] # "idle"
                            /\ pc'[u] \notin Ungated => pc[u] \notin Ungated
      BY <1>2, Kinds DEF Committing, Ungated
    <2>2. \A w \in Volume : pc'[Worker(w)] \in {"drain", "commit", "finalize"} =>
                            pc[Worker(w)] \in {"drain", "commit", "finalize"}
      BY <1>0, <1>2, Kinds DEF PlaceInv, WorkerPcs, Committing
    <2>3. QED
      BY <1>0, <1>4, <2>1, <2>2 DEF GateInv
  <1>7. CloseInv'
    <2>1. \A w \in Volume : /\ pc'[Closer(w)] \in Committing => pc[Closer(w)] \in Committing
                            /\ pc'[Closer(w)] # "up" => pc[Closer(w)] # "up"
                            /\ pc[Closer(w)] = "done" => pc'[Closer(w)] = "done"
                            /\ pc[Worker(w)] = "exit" => pc'[Worker(w)] = "exit"
                            /\ Closed(w)' => Closed(w)
      BY <1>2, Kinds DEF Committing, Closed
    <2>2. \A u \in Caller : pc[u] \in {"idle", "lockFlush", "unforced", "sorry"} => pc'[u] = pc[u]
      BY <1>2, Kinds DEF Committing
    <2>3. QED
      BY <1>0, <1>4, <2>1, <2>2 DEF CloseInv
  <1>8. CommitPlace(t, v)
    <2>1. p \in {"commit", "finalize"} => Claims(t, v)'
      BY <1>2 DEF Claims
    <2>2. t \in Caller /\ Admitted(t)' => Admitted(t)
      BY <1>2, <1>4 DEF Admitted, Committing
    <2>3. QED
      BY <1>1, <1>2, <2>1, <2>2 DEF CommitPlace, Committing
  <1>9. QED
    BY <1>3, <1>5, <1>6, <1>7, <1>8, CommitKeepsData DEF IInv

\* A volume that degrades does not serve writes.
LEMMA DegradeFacts ==
    ASSUME TypeOK, NEW v \in Volume, Degrade(v)
    PROVE  /\ run' \in [Volume -> {"on", "recovering", "off"}] /\ run'[v] # "on"
           /\ \A w \in Volume \ {v} : run'[w] = run[w]
  BY Typed DEF Degrade

\* The log catches up with what was accepted.
LEMMA FlushedFacts ==
    ASSUME TypeOK, SequenceInv, NEW v \in Volume, NEW n \in Nat, Flushed(v, n)
    PROVE  /\ logged' \in [Volume -> Sequence] /\ logged'[v] <= accepted[v] /\ wal' = wal
           /\ \A w \in Volume \ {v} : logged'[w] = logged[w]
  <1>1. logged \in [Volume -> Sequence] /\ accepted \in [Volume -> Sequence]
    BY Typed
  <1>2. logged[v] <= accepted[v] /\ accepted[v] <= accepted[v]
    BY Numbers DEF SequenceInv
  <1>3. QED
    BY <1>1, <1>2 DEF Flushed

\* Or it fails.
LEMMA NotFlushedFacts ==
    ASSUME TypeOK, NEW v \in Volume, NEW n \in Nat, NotFlushed(v, n)
    PROVE  /\ wal' \in [Volume -> {"fine", "uncleaned", "failed"}] /\ wal'[v] = "failed"
           /\ \A w \in Volume \ {v} : wal'[w] = wal[w]
           /\ logged' = logged /\ faults' \in 0 .. MaxFaults
  <1>1. faults' \in 0 .. MaxFaults
    BY Typed, DeferredAssumption DEF NotFlushed, Fault
  <1>2. QED
    BY <1>1, Typed DEF NotFlushed

\* A fault is counted.
LEMMA FaultFacts ==
    ASSUME TypeOK, Fault
    PROVE  faults' \in 0 .. MaxFaults
  BY Typed, DeferredAssumption DEF Fault

\* A thread that drains v without a claim does so alone: a barrier in flight is
\* one whose log failed, and a gap has closed the volume.
LEMMA Unclaimed ==
    ASSUME IInv, NEW t \in Thread, NEW v \in Volume, v = on[t], pc[t] \in Committing,
           ~Claims(t, v)
    PROVE  /\ bar[v].inFlight => wal[v] = "failed"
           /\ Gap(v) => wal[v] = "failed" \/ run[v] # "on"
  <1>1. \A u \in Thread : pc[u] \in Committing /\ on[u] = v => u = t
    BY OneCommits DEF IInv
  <1>2. \A u \in Thread : ~Claims(u, v)
    BY <1>1 DEF Claims, Committing
  <1>3. QED
    BY <1>2 DEF IInv, BarrierInv, GapInv

\* What is known at the beginning of a step of a commit of v.
LEMMA CommitTyped ==
    ASSUME IInv, NEW t \in Thread
    PROVE  /\ TypeOK /\ PlaceInv /\ SequenceInv /\ PublishedInv /\ on[t] \in Volume
           /\ \A n \in Sequence : n \in Nat /\ n <= MaxCalls
           /\ \A v \in Volume :
                 /\ accepted[v] \in Nat /\ published[v] \in Nat /\ durable[v] \in Nat
                 /\ logged[v] \in Nat /\ bar[v] \in Barrier
                 /\ bar[v].reqTarget \in Nat /\ bar[v].inTarget \in Nat
                 /\ bar[v].completed \in Nat /\ bar[v].failed \in Nat
                 /\ durable[v] <= published[v] /\ published[v] <= accepted[v]
                 /\ logged[v] <= accepted[v]
                 /\ bar[v].completed <= durable[v]
                 /\ bar[v].reqTarget <= accepted[v] /\ bar[v].inTarget <= accepted[v]
                 /\ bar[v].failed <= accepted[v]
  BY Numbers, Typed DEF IInv, SequenceInv

\* The barrier of v after its end: within what was accepted, and nothing in flight.
LEMMA CompletedBounds ==
    ASSUME IInv, NEW v \in Volume, NEW s \in BOOLEAN, NEW q \in Nat
    PROVE  LET c == Completed(bar[v], s, q)
           IN  /\ c \in Barrier /\ ~c.inFlight /\ c.stop = bar[v].stop
               /\ c.completed \in Nat /\ c.failed \in Nat
               /\ c.completed <= accepted[v] /\ (~s => c.completed = bar[v].completed)
               /\ c.reqTarget = bar[v].reqTarget /\ c.reqTarget <= accepted[v]
               /\ c.inTarget <= accepted[v] /\ c.failed <= accepted[v]
               /\ ~bar[v].inFlight => c = bar[v]
  <1>1. bar[v] \in Barrier /\ TypeOK /\ SequenceInv
    BY Numbers DEF IInv
  <1>2. /\ accepted[v] \in Nat /\ published[v] \in Nat /\ durable[v] \in Nat
        /\ bar[v].reqTarget \in Nat /\ bar[v].inTarget \in Nat
        /\ bar[v].completed \in Nat /\ bar[v].failed \in Nat
        /\ durable[v] <= published[v] /\ published[v] <= accepted[v]
        /\ bar[v].completed <= durable[v]
        /\ bar[v].reqTarget <= accepted[v] /\ bar[v].inTarget <= accepted[v]
        /\ bar[v].failed <= accepted[v]
    BY <1>1, Numbers DEF SequenceInv
  <1> DEFINE c == Completed(bar[v], s, q)
  <1>3. /\ c \in Barrier
        /\ ~c.inFlight
        /\ c.requested = bar[v].requested /\ c.reqTarget = bar[v].reqTarget /\ c.stop = bar[v].stop
        /\ c.inTarget = bar[v].inTarget \/ c.inTarget = 0
        /\ c.completed = bar[v].completed \/ (s /\ c.completed = bar[v].inTarget)
        /\ c.failed = bar[v].failed \/ (bar[v].inFlight /\ c.failed = bar[v].inTarget)
    BY <1>1, CompletedFacts
  <1>4. ~bar[v].inFlight => c = bar[v]
    BY DEF Completed
  <1> HIDE DEF c
  <1>5. QED
    BY <1>2, <1>3, <1>4 DEF c

\* DrainNativeMutationsByPolicy.
LEMMA DrainKeeps ==
    ASSUME IInv, NEW t \in Thread, Drain(t)
    PROVE  IInv'
  <1>0. /\ TypeOK /\ on[t] \in Volume
        /\ \A w \in Volume : /\ accepted[w] \in Nat /\ published[w] \in Nat /\ durable[w] \in Nat
                             /\ bar[w] \in Barrier
                             /\ durable[w] <= published[w] /\ published[w] <= accepted[w]
                             /\ logged[w] <= accepted[w]
                             /\ bar[w].completed <= durable[w]
                             /\ bar[w].reqTarget <= accepted[w] /\ bar[w].inTarget <= accepted[w]
                             /\ bar[w].failed <= accepted[w] /\ bar[w].failed \in Nat
    BY CommitTyped
  <1>1. PICK v \in Volume : v = on[t]
    BY <1>0
  <1>2. pc[t] = "drain" /\ pc[t] \in Committing
    BY DEF Drain, Committing
  <1>3. /\ UNCHANGED <<mounted, sequences, draining, vol, mark, asked, calls, faults>>
    BY DEF Drain
  <1>4. /\ bar \in [Volume -> Barrier] /\ run \in [Volume -> {"on", "recovering", "off"}]
        /\ mark \in [Thread -> Sequence] /\ published \in [Volume -> Sequence]
        /\ durable \in [Volume -> Sequence] /\ logged \in [Volume -> Sequence]
        /\ wal \in [Volume -> {"fine", "uncleaned", "failed"}] /\ faults \in 0 .. MaxFaults
    BY <1>0, Typed
  <1>5. CASE /\ Owes(v) /\ run[v] = "off"
             /\ bar' = [bar EXCEPT ![v] = Completed(@, FALSE, durable[v])]
             /\ Return(t, FALSE) /\ UNCHANGED run
    <2> DEFINE c == Completed(bar[v], FALSE, durable[v])
    <2>1. /\ c \in Barrier /\ ~c.inFlight /\ c.completed = bar[v].completed
          /\ c.reqTarget <= accepted[v] /\ c.inTarget <= accepted[v] /\ c.failed <= accepted[v]
      BY <1>0, CompletedBounds
    <2> HIDE DEF c
    <2>2. bar' \in [Volume -> Barrier] /\ bar'[v] = c /\ \A w \in Volume \ {v} : bar'[w] = bar[w]
      BY <1>4, <1>5, <2>1 DEF c
    <2>3. /\ bar'[v].completed <= durable[v] /\ bar'[v].reqTarget <= accepted[v]
          /\ bar'[v].inTarget <= accepted[v] /\ bar'[v].failed <= accepted[v]
      BY <1>0, <2>1, <2>2
    <2>4. CommitData(t, v)
      <3>1. run' = run
        BY <1>5
      <3>2. QED
        BY <1>0, <1>3, <1>4, <2>2, <2>3, <3>1 DEF CommitData, sequences
    <2>5. QED
      BY <1>1, <1>2, <1>5, <2>1, <2>2, <2>4, ReturnKeeps
  <1>6. CASE /\ Dirty(v) /\ run[v] # "off"
             /\ Goto(t, IF t \in Workers THEN "commit" ELSE "begin")
             /\ UNCHANGED <<bar, run, gate, active, on, exit>>
    <2>1. CommitData(t, v)
      BY <1>0, <1>3, <1>4, <1>6 DEF CommitData, sequences
    <2>2. CASE t \in Workers
      BY <1>1, <1>2, <1>6, <2>1, <2>2, StayKeeps DEF Goto, Committing
    <2>3. CASE t \notin Workers
      <3>1. ~Claims(t, v)
        BY <1>2, <2>3 DEF Claims
      <3>2. /\ bar[v].inFlight => wal[v] = "failed"
            /\ Gap(v) => wal[v] = "failed" \/ run[v] # "on"
        BY <1>1, <1>2, <3>1, Unclaimed
      <3>3. Gap(v)' = Gap(v) /\ wal' = wal
        BY <1>3, <1>6 DEF Gap, sequences
      <3>4. QED
        BY <1>1, <1>2, <1>6, <2>1, <2>3, <3>2, <3>3, StayKeeps DEF Goto, Committing
    <2>4. QED
      BY <2>2, <2>3
  <1>7. CASE /\ ~Owes(v) /\ (Dirty(v) => run[v] = "off")
             /\ IF Dirty(v) THEN UNCHANGED <<bar, run>>
                ELSE /\ bar' = [bar EXCEPT ![v] = Cleared(@)]
                     /\ run' = [run EXCEPT ![v] = IF @ = "recovering" THEN "on" ELSE @]
             /\ Goto(t, "finalize") /\ UNCHANGED <<gate, active, on, exit>>
    <2> DEFINE c == Cleared(bar[v])
    <2>1. /\ c \in Barrier /\ c.inTarget = bar[v].inTarget
          /\ c.completed = bar[v].completed /\ c.failed = bar[v].failed
          /\ c.reqTarget = bar[v].reqTarget \/ c.reqTarget = 0
      BY <1>0, ClearedFacts
    <2> HIDE DEF c
    <2>2. /\ bar' \in [Volume -> Barrier] /\ bar'[v] \in {c, bar[v]}
          /\ \A w \in Volume \ {v} : bar'[w] = bar[w]
          /\ run' \in [Volume -> {"on", "recovering", "off"}]
          /\ \A w \in Volume \ {v} : run'[w] = run[w]
      BY <1>4, <1>7, <2>1 DEF c
    <2>3. accepted[v] = published[v]
      BY <1>0, <1>7 DEF Owes
    <2>4. /\ bar'[v].completed <= durable[v] /\ bar'[v].reqTarget <= accepted[v]
          /\ bar'[v].inTarget <= accepted[v] /\ bar'[v].failed <= accepted[v]
      BY <1>0, <2>1, <2>2
    <2>5. CommitData(t, v)
      BY <1>0, <1>3, <1>4, <1>7, <2>2, <2>4 DEF CommitData, sequences
    <2>6. "finalize" \in Committing /\ published' = published
      BY <1>3 DEF Committing, sequences
    <2>7. QED
      BY <1>1, <1>2, <1>7, <2>3, <2>5, <2>6, StayKeeps DEF Goto
  <1>8. QED
    BY <1>1, <1>5, <1>6, <1>7 DEF Drain

\* BeginDeferredCommitBarrier, once nothing is in flight or the worker stops.
LEMMA BegunKeeps ==
    ASSUME IInv, NEW t \in Thread, NEW target, NEW waited, Begun(t, target, waited),
           pc[t] \in {"begin", "waiting"}, waited \in BOOLEAN,
           ~bar[on[t]].inFlight \/ bar[on[t]].stop,
           mark' \in [Thread -> Sequence], \A u \in Thread \ {t} : mark'[u] = mark[u],
           UNCHANGED <<mounted, sequences, run, draining, vol, asked, calls, faults>>
    PROVE  IInv'
  <1>0. /\ TypeOK /\ on[t] \in Volume /\ PlaceInv
        /\ \A w \in Volume : /\ accepted[w] \in Nat /\ published[w] \in Nat /\ durable[w] \in Nat
                             /\ bar[w] \in Barrier
                             /\ durable[w] <= published[w] /\ published[w] <= accepted[w]
                             /\ logged[w] <= accepted[w]
                             /\ bar[w].completed <= durable[w]
                             /\ bar[w].reqTarget <= accepted[w] /\ bar[w].inTarget <= accepted[w]
                             /\ bar[w].failed <= accepted[w]
    BY CommitTyped
  <1>1. PICK v \in Volume : v = on[t]
    BY <1>0
  <1>2. /\ pc[t] \in Committing /\ t \notin Workers
        /\ bar[v].inFlight => wal[v] = "failed"
        /\ Gap(v) => wal[v] = "failed" \/ run[v] # "on"
    <2>1. t \notin Workers
      BY <1>0, Kinds DEF PlaceInv, WorkerPcs, Committing
    <2>2. pc[t] \in Committing /\ ~Claims(t, v)
      BY <2>1 DEF Claims, Committing
    <2>3. QED
      BY <1>1, <2>1, <2>2, Unclaimed
  <1>3. /\ bar \in [Volume -> Barrier] /\ run \in [Volume -> {"on", "recovering", "off"}]
        /\ mark \in [Thread -> Sequence] /\ published \in [Volume -> Sequence]
        /\ durable \in [Volume -> Sequence] /\ logged \in [Volume -> Sequence]
        /\ wal \in [Volume -> {"fine", "uncleaned", "failed"}] /\ faults \in 0 .. MaxFaults
    BY <1>0, Typed
  <1>4. wal' = wal /\ published' = published /\ durable' = durable /\ run' = run
    BY DEF sequences
  <1>5. CASE Return(t, FALSE) /\ bar' = bar
    <2>1. CommitData(t, v)
      BY <1>0, <1>2, <1>3, <1>5 DEF CommitData, sequences
    <2>2. Gap(v)' = Gap(v)
      BY <1>4, <1>5 DEF Gap
    <2>3. QED
      BY <1>1, <1>2, <1>4, <1>5, <2>1, <2>2, ReturnKeeps
  <1>6. CASE /\ Goto(t, "commit") /\ UNCHANGED <<gate, active, on, exit>>
             /\ bar' = bar \/ bar' = [bar EXCEPT ![v] = Claimed(@)]
    <2> DEFINE c == Claimed(bar[v])
    <2>1. /\ c \in Barrier /\ c.reqTarget = 0 /\ c.inTarget = bar[v].reqTarget
          /\ c.completed = bar[v].completed /\ c.failed = bar[v].failed
      BY <1>0, ClaimedFacts
    <2> HIDE DEF c
    <2>2. /\ bar' \in [Volume -> Barrier] /\ bar'[v] \in {c, bar[v]}
          /\ \A w \in Volume \ {v} : bar'[w] = bar[w]
      BY <1>3, <1>6, <2>1 DEF c
    <2>3. /\ bar'[v].completed <= durable[v] /\ bar'[v].reqTarget <= accepted[v]
          /\ bar'[v].inTarget <= accepted[v] /\ bar'[v].failed <= accepted[v]
      BY <1>0, <2>1, <2>2
    <2>4. CommitData(t, v)
      BY <1>0, <1>2, <1>3, <1>6, <2>2, <2>3 DEF CommitData, sequences
    <2>5. "commit" \in Committing
      BY DEF Committing
    <2>6. QED
      BY <1>1, <1>2, <1>6, <2>4, <2>5, StayKeeps DEF Goto
  <1>7. QED
    BY <1>1, <1>5, <1>6 DEF Begun

\* BeginDeferredCommitBarrier of a thread that is not the worker.
LEMMA BeginKeeps ==
    ASSUME IInv, NEW t \in Thread, Begin(t)
    PROVE  IInv'
  <1>0. /\ TypeOK /\ on[t] \in Volume /\ PlaceInv
        /\ \A w \in Volume : /\ accepted[w] \in Nat /\ published[w] \in Nat /\ durable[w] \in Nat
                             /\ bar[w] \in Barrier
                             /\ durable[w] <= published[w] /\ published[w] <= accepted[w]
                             /\ logged[w] <= accepted[w]
                             /\ bar[w].completed <= durable[w]
                             /\ bar[w].reqTarget <= accepted[w] /\ bar[w].inTarget <= accepted[w]
                             /\ bar[w].failed <= accepted[w]
    BY CommitTyped
  <1>1. PICK v \in Volume : v = on[t]
    BY <1>0
  <1> DEFINE target == Larger(bar[v].inTarget, bar[v].reqTarget)
  <1>2. target \in Sequence
    BY <1>0 DEF Larger, Barrier
  <1> HIDE DEF target
  <1>3. /\ pc[t] = "begin" /\ mark' = [mark EXCEPT ![t] = target]
        /\ UNCHANGED <<mounted, sequences, run, draining, vol, asked, calls, faults>>
        /\ IF bar[v].inFlight /\ ~bar[v].stop
           THEN Goto(t, "waiting") /\ UNCHANGED <<bar, gate, active, on, exit>>
           ELSE Begun(t, target, FALSE)
    BY <1>1 DEF Begin, target
  <1>4. /\ bar \in [Volume -> Barrier] /\ run \in [Volume -> {"on", "recovering", "off"}]
        /\ mark \in [Thread -> Sequence] /\ published \in [Volume -> Sequence]
        /\ durable \in [Volume -> Sequence] /\ logged \in [Volume -> Sequence]
        /\ wal \in [Volume -> {"fine", "uncleaned", "failed"}] /\ faults \in 0 .. MaxFaults
    BY <1>0, Typed
  <1>5. mark' \in [Thread -> Sequence] /\ \A u \in Thread \ {t} : mark'[u] = mark[u]
    BY <1>2, <1>3, <1>4
  <1>6. CASE ~(bar[v].inFlight /\ ~bar[v].stop)
    <2>1. ~bar[v].inFlight \/ bar[v].stop
      BY <1>6
    <2>2. Begun(t, target, FALSE)
      BY <1>3, <1>6
    <2>3. QED
      BY <1>1, <1>3, <1>5, <2>1, <2>2, BegunKeeps
  <1>7. CASE bar[v].inFlight /\ ~bar[v].stop
    <2>1. t \notin Workers
      BY <1>0, <1>3, Kinds DEF PlaceInv, WorkerPcs
    <2>2. pc[t] \in Committing /\ ~Claims(t, v) /\ "waiting" \in Committing
      BY <1>3, <2>1 DEF Claims, Committing
    <2>3. wal[v] = "failed" /\ wal' = wal
      BY <1>1, <1>3, <1>7, <2>2, Unclaimed DEF sequences
    <2>4. CommitData(t, v)
      BY <1>0, <1>3, <1>4, <1>5, <1>7, <2>1 DEF CommitData, sequences
    <2>5. QED
      BY <1>1, <1>3, <1>7, <2>1, <2>2, <2>3, <2>4, StayKeeps DEF Goto
  <1>8. QED
    BY <1>6, <1>7

\* The wait at the barrier ends with it.
LEMMA BarrierEndsKeeps ==
    ASSUME IInv, NEW t \in Thread, BarrierEnds(t)
    PROVE  IInv'
  <1>1. mark \in [Thread -> Sequence]
    BY Typed DEF IInv
  <1>2. QED
    BY <1>1, BegunKeeps DEF BarrierEnds

\* Or with the worker that stops.
LEMMA StoppedKeeps ==
    ASSUME IInv, NEW t \in Thread, Stopped(t)
    PROVE  IInv'
  <1>0. /\ TypeOK /\ on[t] \in Volume /\ PlaceInv
        /\ \A w \in Volume : /\ accepted[w] \in Nat /\ published[w] \in Nat /\ durable[w] \in Nat
                             /\ bar[w] \in Barrier
                             /\ durable[w] <= published[w] /\ published[w] <= accepted[w]
                             /\ logged[w] <= accepted[w]
                             /\ bar[w].completed <= durable[w]
                             /\ bar[w].reqTarget <= accepted[w] /\ bar[w].inTarget <= accepted[w]
                             /\ bar[w].failed <= accepted[w]
    BY CommitTyped
  <1>1. PICK v \in Volume : v = on[t]
    BY <1>0
  <1>2. pc[t] \in Committing /\ ~Claims(t, v)
    BY <1>1 DEF Claims, Committing, Stopped
  <1>3. /\ bar[v].inFlight => wal[v] = "failed"
        /\ Gap(v) => wal[v] = "failed" \/ run[v] # "on"
    BY <1>1, <1>2, Unclaimed
  <1>4. CommitData(t, v)
    BY <1>0, Typed DEF CommitData, sequences, Stopped
  <1>5. Gap(v)' = Gap(v) /\ bar' = bar /\ wal' = wal /\ run' = run /\ Return(t, FALSE)
    BY DEF Gap, Stopped, sequences
  <1>6. QED
    BY <1>1, <1>2, <1>3, <1>4, <1>5, ReturnKeeps

\* A commit that succeeds.
LEMMA CommitKeeps ==
    ASSUME IInv, NEW t \in Thread, Commit(t)
    PROVE  IInv'
  <1>0. /\ TypeOK /\ on[t] \in Volume /\ SequenceInv
        /\ \A w \in Volume : /\ accepted[w] \in Nat /\ published[w] \in Nat /\ durable[w] \in Nat
                             /\ bar[w] \in Barrier
                             /\ durable[w] <= published[w] /\ published[w] <= accepted[w]
                             /\ logged[w] <= accepted[w]
                             /\ bar[w].completed <= durable[w]
                             /\ bar[w].reqTarget <= accepted[w] /\ bar[w].inTarget <= accepted[w]
                             /\ bar[w].failed <= accepted[w]
    BY CommitTyped
  <1>1. PICK v \in Volume : v = on[t]
    BY <1>0
  <1>2. /\ pc[t] = "commit" /\ Flushed(v, accepted[v])
        /\ published' = [published EXCEPT ![v] = accepted[v]]
        /\ pc' = [pc EXCEPT ![t] = "finalize"]
        /\ UNCHANGED <<mounted, bar, accepted, durable, run, locks, vol, on, mark, asked, exit,
                       calls, faults>>
    BY <1>1 DEF Commit, Goto
  <1>3. /\ logged' \in [Volume -> Sequence] /\ logged'[v] <= accepted[v] /\ wal' = wal
        /\ \A w \in Volume \ {v} : logged'[w] = logged[w]
    BY <1>0, <1>2, FlushedFacts
  <1>4. /\ published \in [Volume -> Sequence] /\ accepted \in [Volume -> Sequence]
    BY <1>0, Typed
  <1>5. /\ published' \in [Volume -> Sequence] /\ published'[v] = accepted[v]
        /\ \A w \in Volume \ {v} : published'[w] = published[w]
    BY <1>2, <1>4
  <1>6. published[v] <= published'[v] /\ durable[v] <= published'[v] /\ published'[v] <= accepted[v]
    BY <1>0, <1>5
  <1>7. CommitData(t, v)
    BY <1>0, <1>2, <1>3, <1>5, <1>6, Typed DEF CommitData, locks
  <1>8. pc[t] \in Committing /\ "finalize" \in Committing
    BY <1>2 DEF Committing
  <1>9. QED
    BY <1>1, <1>2, <1>5, <1>7, <1>8, StayKeeps DEF locks

\* The log of the commit could not be flushed.
LEMMA NotLoggedKeeps ==
    ASSUME IInv, NEW t \in Thread, NotLogged(t)
    PROVE  IInv'
  <1>0. /\ TypeOK /\ on[t] \in Volume
        /\ \A w \in Volume : /\ accepted[w] \in Nat /\ published[w] \in Nat /\ durable[w] \in Nat
                             /\ bar[w] \in Barrier
                             /\ durable[w] <= published[w] /\ published[w] <= accepted[w]
                             /\ logged[w] <= accepted[w]
                             /\ bar[w].completed <= durable[w]
                             /\ bar[w].reqTarget <= accepted[w] /\ bar[w].inTarget <= accepted[w]
                             /\ bar[w].failed <= accepted[w]
    BY CommitTyped
  <1>1. PICK v \in Volume : v = on[t]
    BY <1>0
  <1>2. /\ pc[t] = "commit"
        /\ IF wal[v] = "failed" THEN UNCHANGED <<wal, logged, faults>>
           ELSE NotFlushed(v, accepted[v])
        /\ bar' = [bar EXCEPT ![v] = Completed(@, FALSE, durable[v])]
        /\ Degrade(v) /\ Return(t, FALSE)
        /\ UNCHANGED <<mounted, accepted, published, durable, draining, vol, mark, asked, calls>>
    BY <1>1 DEF NotLogged
  <1>3. /\ wal' \in [Volume -> {"fine", "uncleaned", "failed"}] /\ wal'[v] = "failed"
        /\ \A w \in Volume \ {v} : wal'[w] = wal[w]
        /\ logged' = logged /\ faults' \in 0 .. MaxFaults
    BY <1>0, <1>2, Typed, NotFlushedFacts
  <1>4. /\ run' \in [Volume -> {"on", "recovering", "off"}] /\ run'[v] # "on"
        /\ \A w \in Volume \ {v} : run'[w] = run[w]
    BY <1>0, <1>2, DegradeFacts
  <1> DEFINE c == Completed(bar[v], FALSE, durable[v])
  <1>5. /\ c \in Barrier /\ ~c.inFlight /\ c.completed = bar[v].completed
        /\ c.reqTarget <= accepted[v] /\ c.inTarget <= accepted[v] /\ c.failed <= accepted[v]
    BY <1>0, CompletedBounds
  <1> HIDE DEF c
  <1>6. bar' \in [Volume -> Barrier] /\ bar'[v] = c /\ \A w \in Volume \ {v} : bar'[w] = bar[w]
    BY <1>0, <1>2, <1>5, Typed DEF c
  <1>7. /\ bar'[v].completed <= durable[v] /\ bar'[v].reqTarget <= accepted[v]
        /\ bar'[v].inTarget <= accepted[v] /\ bar'[v].failed <= accepted[v]
    BY <1>0, <1>5, <1>6
  <1>8. CommitData(t, v)
    <2>1. UNCHANGED <<mounted, accepted, published, durable, draining, vol, mark, asked, calls>>
      BY <1>2
    <2>2. QED
      BY <1>0, <1>3, <1>4, <1>6, <1>7, <2>1, Typed DEF CommitData
  <1>9. pc[t] \in Committing
    BY <1>2 DEF Committing
  <1>10. QED
    BY <1>1, <1>2, <1>3, <1>5, <1>6, <1>8, <1>9, ReturnKeeps

\* A commit that fails, before or after the publication.
LEMMA CommitFailsKeeps ==
    ASSUME IInv, NEW t \in Thread, CommitFails(t)
    PROVE  IInv'
  <1>0. /\ TypeOK /\ on[t] \in Volume /\ SequenceInv
        /\ \A w \in Volume : /\ accepted[w] \in Nat /\ published[w] \in Nat /\ durable[w] \in Nat
                             /\ bar[w] \in Barrier
                             /\ durable[w] <= published[w] /\ published[w] <= accepted[w]
                             /\ logged[w] <= accepted[w]
                             /\ bar[w].completed <= durable[w]
                             /\ bar[w].reqTarget <= accepted[w] /\ bar[w].inTarget <= accepted[w]
                             /\ bar[w].failed <= accepted[w]
    BY CommitTyped
  <1>1. PICK v \in Volume : v = on[t]
    BY <1>0
  <1>2. /\ pc[t] = "commit" /\ Fault /\ Flushed(v, accepted[v])
        /\ published' \in {published, [published EXCEPT ![v] = accepted[v]]}
        /\ bar' = [bar EXCEPT ![v] = Completed(@, FALSE, durable[v])]
        /\ Degrade(v) /\ Return(t, FALSE)
        /\ UNCHANGED <<mounted, accepted, durable, draining, vol, mark, asked, calls>>
    BY <1>1 DEF CommitFails
  <1>3. /\ logged' \in [Volume -> Sequence] /\ logged'[v] <= accepted[v] /\ wal' = wal
        /\ \A w \in Volume \ {v} : logged'[w] = logged[w]
    BY <1>0, <1>2, FlushedFacts
  <1>4. /\ run' \in [Volume -> {"on", "recovering", "off"}] /\ run'[v] # "on"
        /\ \A w \in Volume \ {v} : run'[w] = run[w]
    BY <1>0, <1>2, DegradeFacts
  <1>5. faults' \in 0 .. MaxFaults
    BY <1>0, <1>2, FaultFacts
  <1> DEFINE c == Completed(bar[v], FALSE, durable[v])
  <1>6. /\ c \in Barrier /\ ~c.inFlight /\ c.completed = bar[v].completed
        /\ c.reqTarget <= accepted[v] /\ c.inTarget <= accepted[v] /\ c.failed <= accepted[v]
    BY <1>0, CompletedBounds
  <1> HIDE DEF c
  <1>7. bar' \in [Volume -> Barrier] /\ bar'[v] = c /\ \A w \in Volume \ {v} : bar'[w] = bar[w]
    <2>1. bar' = [bar EXCEPT ![v] = c] /\ bar \in [Volume -> Barrier]
      BY <1>0, <1>2, Typed DEF c
    <2>2. QED
      BY <1>6, <2>1
  <1>8. /\ bar'[v].completed <= durable[v] /\ bar'[v].reqTarget <= accepted[v]
        /\ bar'[v].inTarget <= accepted[v] /\ bar'[v].failed <= accepted[v]
    BY <1>0, <1>6, <1>7
  <1>9. /\ published' \in [Volume -> Sequence] /\ published'[v] \in {published[v], accepted[v]}
        /\ \A w \in Volume \ {v} : published'[w] = published[w]
    <2>1. /\ published' \in {published, [published EXCEPT ![v] = accepted[v]]}
          /\ published \in [Volume -> Sequence] /\ accepted \in [Volume -> Sequence]
      BY <1>0, <1>2, Typed
    <2>2. QED
      BY <2>1
  <1>10. /\ published[v] <= published'[v] /\ durable[v] <= published'[v]
         /\ published'[v] <= accepted[v]
    BY <1>0, <1>9
  <1>11. CommitData(t, v)
    <2>1. UNCHANGED <<mounted, accepted, durable, draining, vol, mark, asked, calls>>
      BY <1>2
    <2>2. QED
      BY <1>0, <1>3, <1>4, <1>5, <1>7, <1>8, <1>9, <1>10, <2>1, Typed DEF CommitData
  <1>12. pc[t] \in Committing
    BY <1>2 DEF Committing
  <1>13. QED
    BY <1>1, <1>2, <1>4, <1>6, <1>7, <1>11, <1>12, ReturnKeeps

\* FinalizeMutationJournalBestEffort: everything is durable then, so that
\* there is no gap.
LEMMA FinalizeKeeps ==
    ASSUME IInv, NEW t \in Thread, Finalize(t)
    PROVE  IInv'
  <1>0. /\ TypeOK /\ on[t] \in Volume /\ PublishedInv
        /\ \A w \in Volume : /\ accepted[w] \in Nat /\ published[w] \in Nat /\ durable[w] \in Nat
                             /\ bar[w] \in Barrier
                             /\ durable[w] <= published[w] /\ published[w] <= accepted[w]
                             /\ logged[w] <= accepted[w]
                             /\ bar[w].completed <= durable[w]
                             /\ bar[w].reqTarget <= accepted[w] /\ bar[w].inTarget <= accepted[w]
                             /\ bar[w].failed <= accepted[w]
    BY CommitTyped
  <1>1. PICK v \in Volume : v = on[t]
    BY <1>0
  <1> DEFINE b == Completed(bar[v], TRUE, accepted[v])
             good == bar[v].inFlight => b.ok
             c == IF good THEN Cleared(b) ELSE b
  <1>2. /\ pc[t] = "finalize" /\ wal[v] # "failed"
        /\ durable' = [durable EXCEPT ![v] = accepted[v]]
        /\ wal' = [wal EXCEPT ![v] = "fine"]
        /\ bar' = [bar EXCEPT ![v] = c]
        /\ IF good THEN run' = [run EXCEPT ![v] = IF @ = "recovering" THEN "on" ELSE @]
           ELSE Degrade(v)
        /\ Return(t, good)
        /\ UNCHANGED <<mounted, accepted, published, logged, draining, vol, mark, asked, calls,
                       faults>>
    BY <1>1 DEF Finalize
  <1>3. /\ b \in Barrier /\ ~b.inFlight /\ b.completed <= accepted[v]
        /\ b.reqTarget <= accepted[v] /\ b.inTarget <= accepted[v] /\ b.failed <= accepted[v]
    BY <1>0, CompletedBounds
  <1> HIDE DEF b
  <1>4. /\ Cleared(b) \in Barrier /\ ~Cleared(b).inFlight
        /\ Cleared(b).completed = b.completed /\ Cleared(b).failed = b.failed
        /\ Cleared(b).inTarget = b.inTarget
        /\ Cleared(b).reqTarget = b.reqTarget \/ Cleared(b).reqTarget = 0
    BY <1>3, ClearedFacts
  <1>5. /\ c \in Barrier /\ ~c.inFlight /\ c.completed <= accepted[v]
        /\ c.reqTarget <= accepted[v] /\ c.inTarget <= accepted[v] /\ c.failed <= accepted[v]
    BY <1>0, <1>3, <1>4
  <1>6. good \in BOOLEAN
    BY <1>0, <1>3 DEF Barrier
  <1> HIDE DEF c, good
  <1>7. bar' \in [Volume -> Barrier] /\ bar'[v] = c /\ \A w \in Volume \ {v} : bar'[w] = bar[w]
    BY <1>0, <1>2, <1>5, Typed
  <1>8. /\ run' \in [Volume -> {"on", "recovering", "off"}]
        /\ \A w \in Volume \ {v} : run'[w] = run[w]
    <2>1. CASE good
      <3>1. run' = [run EXCEPT ![v] = IF @ = "recovering" THEN "on" ELSE @]
        BY <1>2, <2>1
      <3>2. QED
        BY <1>0, <3>1, Typed
    <2>2. CASE ~good
      BY <1>0, <1>2, <2>2, DegradeFacts
    <2>3. QED
      BY <2>1, <2>2
  <1>9. /\ durable' \in [Volume -> Sequence] /\ durable'[v] = accepted[v]
        /\ \A w \in Volume \ {v} : durable'[w] = durable[w]
        /\ wal' \in [Volume -> {"fine", "uncleaned", "failed"}]
        /\ \A w \in Volume \ {v} : wal'[w] = wal[w]
    BY <1>0, <1>2, Typed
  <1>10. published'[v] = accepted[v] /\ published' = published
    BY <1>0, <1>1, <1>2 DEF PublishedInv
  <1>11. /\ durable[v] <= durable'[v] /\ durable'[v] <= published'[v]
         /\ bar'[v].completed <= durable'[v] /\ bar'[v].reqTarget <= accepted[v]
         /\ bar'[v].inTarget <= accepted[v] /\ bar'[v].failed <= accepted[v]
         /\ published'[v] <= accepted[v] /\ published[v] <= published'[v]
    BY <1>0, <1>5, <1>7, <1>9, <1>10
  <1>12. CommitData(t, v)
    BY <1>0, <1>2, <1>7, <1>8, <1>9, <1>10, <1>11, Typed DEF CommitData
  <1>13. ~Gap(v)'
    <2>1. bar'[v].failed \in Nat /\ durable'[v] \in Nat
      BY <1>0, <1>7, <1>9, CommitTyped DEF Barrier
    <2>2. QED
      BY <1>9, <1>11, <2>1 DEF Gap
  <1>14. pc[t] \in Committing
    BY <1>2 DEF Committing
  <1>15. QED
    BY <1>1, <1>2, <1>5, <1>6, <1>7, <1>9, <1>10, <1>12, <1>13, <1>14, ReturnKeeps

\* The journal could not be marked durable or cleaned.
LEMMA FinalizeFailsKeeps ==
    ASSUME IInv, NEW t \in Thread, FinalizeFails(t)
    PROVE  IInv'
  <1>0. /\ TypeOK /\ on[t] \in Volume /\ PublishedInv
        /\ \A w \in Volume : /\ accepted[w] \in Nat /\ published[w] \in Nat /\ durable[w] \in Nat
                             /\ bar[w] \in Barrier
                             /\ durable[w] <= published[w] /\ published[w] <= accepted[w]
                             /\ logged[w] <= accepted[w]
                             /\ bar[w].completed <= durable[w]
                             /\ bar[w].reqTarget <= accepted[w] /\ bar[w].inTarget <= accepted[w]
                             /\ bar[w].failed <= accepted[w]
    BY CommitTyped
  <1>1. PICK v \in Volume : v = on[t]
    BY <1>0
  <1>2. /\ pc[t] = "finalize" /\ Degrade(v)
        /\ bar' = [bar EXCEPT ![v] = Completed(@, FALSE, durable[v])]
        /\ Return(t, FALSE)
        /\ UNCHANGED <<mounted, accepted, published, logged, draining, vol, mark, asked, calls>>
    BY <1>1 DEF FinalizeFails
  <1>3. /\ faults' = faults \/ Fault
        /\ durable' \in {durable, [durable EXCEPT ![v] = accepted[v]]}
        /\ \/ wal[v] = "failed" /\ wal' = wal
           \/ wal[v] # "failed" /\ \E status \in {"failed", "uncleaned", "fine"} :
                                      wal' = [wal EXCEPT ![v] = status]
    BY <1>1 DEF FinalizeFails
  <1>4. faults' \in 0 .. MaxFaults
    BY <1>0, <1>3, FaultFacts, Typed
  <1>5. /\ run' \in [Volume -> {"on", "recovering", "off"}] /\ run'[v] # "on"
        /\ \A w \in Volume \ {v} : run'[w] = run[w]
    BY <1>0, <1>2, DegradeFacts
  <1> DEFINE c == Completed(bar[v], FALSE, durable[v])
  <1>6. /\ c \in Barrier /\ ~c.inFlight /\ c.completed = bar[v].completed
        /\ c.reqTarget <= accepted[v] /\ c.inTarget <= accepted[v] /\ c.failed <= accepted[v]
    BY <1>0, CompletedBounds
  <1> HIDE DEF c
  <1>7. bar' \in [Volume -> Barrier] /\ bar'[v] = c /\ \A w \in Volume \ {v} : bar'[w] = bar[w]
    BY <1>0, <1>2, <1>6, Typed DEF c
  <1>8. /\ durable' \in [Volume -> Sequence] /\ durable'[v] \in {durable[v], accepted[v]}
        /\ \A w \in Volume \ {v} : durable'[w] = durable[w]
    BY <1>0, <1>3, Typed
  <1>9. /\ wal' \in [Volume -> {"fine", "uncleaned", "failed"}]
        /\ \A w \in Volume \ {v} : wal'[w] = wal[w]
        /\ wal[v] = "failed" => wal'[v] = "failed"
    BY <1>0, <1>3, Typed
  <1>10. published[v] = accepted[v]
    BY <1>0, <1>1, <1>2 DEF PublishedInv
  <1>11. /\ bar'[v].completed <= durable'[v] /\ bar'[v].reqTarget <= accepted[v]
         /\ bar'[v].inTarget <= accepted[v] /\ bar'[v].failed <= accepted[v]
         /\ durable[v] <= durable'[v] /\ durable'[v] <= published[v]
         /\ published[v] <= published[v]
    <2>1. bar[v].completed <= accepted[v]
      BY <1>0, CompletedBounds, CommitTyped
    <2>2. QED
      BY <1>0, <1>6, <1>7, <1>8, <1>10, <2>1
  <1>12. CommitData(t, v)
    BY <1>0, <1>2, <1>4, <1>5, <1>7, <1>8, <1>9, <1>10, <1>11, Typed DEF CommitData
  <1>13. pc[t] \in Committing
    BY <1>2 DEF Committing
  <1>14. QED
    BY <1>1, <1>2, <1>5, <1>6, <1>7, <1>12, <1>13, ReturnKeeps

\* Every step of a drain.
LEMMA DrainingKeeps ==
    ASSUME IInv, NEW t \in Thread, Draining(t)
    PROVE  IInv'
  BY DrainKeeps, BeginKeeps, BarrierEndsKeeps, StoppedKeeps, CommitKeeps, NotLoggedKeeps,
     CommitFailsKeeps, FinalizeKeeps, FinalizeFailsKeeps DEF Draining

---------------------------------------------------------------------------
(* The steps of a worker outside a commit.                                 *)

\* A worker that moves on without gate or commit: it may read a target, flush
\* the log, or, once the log has failed, end the barrier.
LEMMA WorkerMoves ==
    ASSUME IInv, NEW v \in Volume, NEW p \in WorkerPcs,
           pc[Worker(v)] \in {"wait", "wal", "walBusy", "claim", "unlogged", "latch"},
           pc' = [pc EXCEPT ![Worker(v)] = p], p \notin Committing,
           UNCHANGED <<mounted, accepted, published, durable, locks, vol, on, asked, exit, calls>>,
           mark' \in [Thread -> Sequence], mark'[Worker(v)] <= accepted[v],
           \A u \in Thread \ {Worker(v)} : mark'[u] = mark[u],
           bar' \in [Volume -> Barrier], logged' \in [Volume -> Sequence],
           wal' \in [Volume -> {"fine", "uncleaned", "failed"}],
           run' \in [Volume -> {"on", "recovering", "off"}], faults' \in 0 .. MaxFaults,
           \A w \in Volume \ {v} : /\ bar'[w] = bar[w] /\ logged'[w] = logged[w]
                                   /\ wal'[w] = wal[w] /\ run'[w] = run[w],
           logged'[v] <= accepted[v], bar'[v].completed = bar[v].completed,
           bar'[v].reqTarget <= accepted[v], bar'[v].inTarget <= accepted[v],
           bar'[v].failed <= accepted[v],
           wal[v] = "failed" => wal'[v] = "failed",
           p \in {"unlogged", "latch"} => wal'[v] = "failed",
           \/ wal'[v] = "failed"
           \/ /\ bar'[v].inFlight => bar[v].inFlight
              /\ bar'[v].failed = bar[v].failed /\ run'[v] = run[v]
    PROVE  IInv'
  <1> DEFINE x == Worker(v)
  <1>0. /\ TypeOK /\ PlaceInv /\ GateInv /\ CloseInv /\ SequenceInv /\ MarkInv /\ PublishedInv
        /\ BarrierInv /\ GapInv /\ CallInv /\ FlushedIsPublished /\ ExitClean
    BY DEF IInv
  <1>1. /\ pc \in [Thread -> Pcs] /\ on \in [Thread -> Volume] /\ vol \in [Thread -> Volume]
        /\ p \in Pcs /\ x \in Thread /\ x \notin Caller /\ calls \in Nat
    BY <1>0, Typed, Numbers, Kinds DEF Pcs
  <1>2. /\ pc' \in [Thread -> Pcs] /\ pc'[x] = p /\ \A u \in Thread \ {x} : pc'[u] = pc[u]
    BY <1>1
  <1>3. /\ \A u \in Caller : pc'[u] = pc[u] /\ mark'[u] = mark[u]
        /\ \A w \in Volume : pc'[Closer(w)] = pc[Closer(w)]
        /\ \A w \in Volume \ {v} : /\ pc'[Worker(w)] = pc[Worker(w)]
                                   /\ mark'[Worker(w)] = mark[Worker(w)]
    BY <1>2, Kinds
  <1> HIDE DEF x
  <1>4. TypeOK'
    BY <1>0, <1>2, Typed, TypedBack DEF locks
  <1>5. PlaceInv'
    BY <1>0, <1>2, <1>3 DEF PlaceInv, x
  <1>6. GateInv'
    BY <1>0, <1>2, <1>3 DEF GateInv, x, locks, Committing
  <1>7. CloseInv'
    <2>1. \A w \in Volume : Closed(w)' = Closed(w)
      BY <1>3 DEF Closed
    <2>2. QED
      BY <1>0, <1>2, <1>3, <2>1 DEF CloseInv, locks
  <1>8. SequenceInv'
    BY <1>0 DEF SequenceInv
  <1>9. MarkInv'
    BY <1>0, <1>2, <1>3 DEF MarkInv, x
  <1>10. PublishedInv'
    BY <1>0, <1>2 DEF PublishedInv, Committing
  <1>11. \A w \in Volume, u \in Thread : Claims(u, w)' = Claims(u, w)
    BY <1>2 DEF Claims, x, Committing
  <1>12. BarrierInv'
    BY <1>0, <1>11 DEF BarrierInv
  <1>13. GapInv'
    <2>1. \A w \in Volume : wal[w] = "failed" => wal'[w] = "failed"
      OBVIOUS
    <2>2. \A w \in Volume : Gap(w)' => Gap(w) \/ wal'[w] = "failed"
      BY DEF Gap
    <2>3. \A w \in Volume : run'[w] = run[w] \/ wal'[w] = "failed"
      OBVIOUS
    <2>4. \A u \in Caller : Admitted(u)' = Admitted(u) /\ vol[u] \in Volume
      BY <1>1, <1>3, Kinds DEF Admitted
    <2>5. QED
      BY <1>0, <1>11, <2>1, <2>2, <2>3, <2>4 DEF GapInv
  <1>14. CallInv'
    <2>1. \A w \in Volume : Pending(w)' = Pending(w)
      BY <1>3 DEF Pending, Admitted
    <2>2. QED
      BY <1>0, <1>1, <2>1, PendingShrinks
  <1>15. FlushedIsPublished' /\ ExitClean'
    BY <1>0, <1>3 DEF FlushedIsPublished, ExitClean
  <1>16. QED
    BY <1>4, <1>5, <1>6, <1>7, <1>8, <1>9, <1>10, <1>12, <1>13, <1>14, <1>15 DEF IInv

\* What the steps of a worker start from.
LEMMA WorkerTyped ==
    ASSUME IInv, NEW v \in Volume
    PROVE  /\ TypeOK /\ SequenceInv
           /\ \A n \in Sequence : n \in Nat
           /\ bar \in [Volume -> Barrier] /\ logged \in [Volume -> Sequence]
           /\ wal \in [Volume -> {"fine", "uncleaned", "failed"}]
           /\ run \in [Volume -> {"on", "recovering", "off"}] /\ faults \in 0 .. MaxFaults
           /\ mark \in [Thread -> Sequence] /\ mark[Worker(v)] <= accepted[v]
           /\ mark[Worker(v)] \in Nat /\ mark[Worker(v)] \in Sequence /\ Worker(v) \in Thread
           /\ logged[v] <= accepted[v] /\ bar[v].reqTarget <= accepted[v]
           /\ bar[v].inTarget <= accepted[v] /\ bar[v].failed <= accepted[v]
           /\ bar[v] \in Barrier /\ durable[v] \in Nat /\ accepted[v] \in Nat
           /\ bar[v].reqTarget \in Sequence /\ bar[v].inTarget \in Sequence
  BY Typed, Numbers, Kinds DEF IInv, SequenceInv, MarkInv, Barrier

\* The deadline of a request.
LEMMA WakeKeeps ==
    ASSUME IInv, NEW v \in Volume, Wake(v)
    PROVE  IInv'
  <1>0. /\ TypeOK /\ bar[v].reqTarget \in Sequence /\ mark \in [Thread -> Sequence]
        /\ Worker(v) \in Thread /\ bar[v].reqTarget <= accepted[v]
    BY WorkerTyped
  <1>1. PICK p \in {"wal", "walBusy"} : pc' = [pc EXCEPT ![Worker(v)] = p]
    BY DEF Wake, Goto
  <1>2. p \in WorkerPcs /\ p \notin Committing
    BY DEF WorkerPcs, Committing
  <1>3. /\ mark' \in [Thread -> Sequence] /\ mark'[Worker(v)] <= accepted[v]
        /\ \A u \in Thread \ {Worker(v)} : mark'[u] = mark[u]
    BY <1>0 DEF Wake
  <1>4. QED
    BY <1>1, <1>2, <1>3, WorkerMoves, WorkerTyped DEF Wake, sequences

\* The worker's flush of the log.
LEMMA FlushWalKeeps ==
    ASSUME IInv, NEW v \in Volume, FlushWal(v)
    PROVE  IInv'
  <1>1. PICK p \in {"exit", "wait", "claim"} : pc' = [pc EXCEPT ![Worker(v)] = p]
    BY DEF FlushWal, Goto
  <1>2. p \in WorkerPcs /\ p \notin Committing
    BY DEF WorkerPcs, Committing
  <1>3. /\ logged' \in [Volume -> Sequence] /\ logged'[v] <= accepted[v] /\ wal' = wal
        /\ \A w \in Volume \ {v} : logged'[w] = logged[w]
    BY WorkerTyped, FlushedFacts DEF FlushWal
  <1>4. QED
    BY <1>1, <1>2, <1>3, WorkerMoves, WorkerTyped DEF FlushWal

\* And its failure.
LEMMA FlushWalFailsKeeps ==
    ASSUME IInv, NEW v \in Volume, FlushWalFails(v)
    PROVE  IInv'
  <1>1. "unlogged" \in WorkerPcs /\ "unlogged" \notin Committing
    BY DEF WorkerPcs, Committing
  <1>2. /\ wal' \in [Volume -> {"fine", "uncleaned", "failed"}] /\ wal'[v] = "failed"
        /\ \A w \in Volume \ {v} : wal'[w] = wal[w]
        /\ logged' = logged /\ faults' \in 0 .. MaxFaults
    BY WorkerTyped, NotFlushedFacts DEF FlushWalFails
  <1>3. QED
    BY <1>1, <1>2, WorkerMoves, WorkerTyped DEF FlushWalFails, Goto

\* The worker takes the target its log has failed.
LEMMA TakeFailedTargetKeeps ==
    ASSUME IInv, NEW v \in Volume, TakeFailedTarget(v)
    PROVE  IInv'
  <1> DEFINE b == bar[v]
             n == IF b.inFlight THEN b.inTarget ELSE Larger(mark[Worker(v)], b.reqTarget)
             c == [b EXCEPT !.requested = FALSE, !.reqTarget = 0, !.inFlight = TRUE, !.inTarget = n]
  <1>0. /\ b \in Barrier /\ mark[Worker(v)] \in Sequence /\ mark[Worker(v)] <= accepted[v]
        /\ b.reqTarget <= accepted[v] /\ b.inTarget <= accepted[v] /\ b.failed <= accepted[v]
        /\ b.reqTarget \in Sequence /\ b.inTarget \in Sequence /\ 0 \in Sequence
        /\ accepted[v] \in Nat /\ bar \in [Volume -> Barrier]
    BY WorkerTyped, DeferredAssumption DEF Sequence
  <1>1. n \in Sequence /\ n <= accepted[v]
    BY <1>0 DEF Larger
  <1> HIDE DEF n
  <1>2. /\ c \in Barrier /\ c.completed = b.completed /\ c.reqTarget = 0 /\ c.inTarget = n
        /\ c.failed = b.failed
    BY <1>0, <1>1 DEF Barrier
  <1>3. /\ pc[Worker(v)] = "unlogged" /\ bar' = [bar EXCEPT ![v] = c]
        /\ pc' = [pc EXCEPT ![Worker(v)] = "latch"]
        /\ UNCHANGED <<mounted, sequences, run, locks, vol, on, mark, asked, exit, calls, faults>>
    BY DEF TakeFailedTarget, Goto, n
  <1> HIDE DEF c
  <1>4. bar' \in [Volume -> Barrier] /\ bar'[v] = c /\ \A w \in Volume \ {v} : bar'[w] = bar[w]
    BY <1>0, <1>2, <1>3
  <1>5. /\ bar'[v].completed = bar[v].completed /\ bar'[v].reqTarget <= accepted[v]
        /\ bar'[v].inTarget <= accepted[v] /\ bar'[v].failed <= accepted[v]
    BY <1>0, <1>1, <1>2, <1>4
  <1>6. wal[v] = "failed"
    BY <1>3 DEF IInv, MarkInv
  <1>7. "latch" \in WorkerPcs /\ "latch" \notin Committing
    BY DEF WorkerPcs, Committing
  <1>8. QED
    BY <1>3, <1>4, <1>5, <1>6, <1>7, WorkerMoves, WorkerTyped DEF sequences

\* The failure of the log ends the barrier.
LEMMA LatchWalFailureKeeps ==
    ASSUME IInv, NEW v \in Volume, LatchWalFailure(v)
    PROVE  IInv'
  <1> DEFINE c == Completed(bar[v], FALSE, durable[v])
  <1>1. /\ pc[Worker(v)] = "latch" /\ Degrade(v) /\ bar' = [bar EXCEPT ![v] = c]
        /\ pc' = [pc EXCEPT ![Worker(v)] = "wait"]
        /\ UNCHANGED <<mounted, sequences, locks, vol, on, mark, asked, exit, calls, faults>>
    BY DEF LatchWalFailure, Goto
  <1>2. /\ c \in Barrier /\ c.completed = bar[v].completed
        /\ c.reqTarget <= accepted[v] /\ c.inTarget <= accepted[v] /\ c.failed <= accepted[v]
    BY WorkerTyped, CompletedBounds
  <1> HIDE DEF c
  <1>3. bar' \in [Volume -> Barrier] /\ bar'[v] = c /\ \A w \in Volume \ {v} : bar'[w] = bar[w]
    BY <1>1, <1>2, WorkerTyped
  <1>4. /\ bar'[v].completed = bar[v].completed /\ bar'[v].reqTarget <= accepted[v]
        /\ bar'[v].inTarget <= accepted[v] /\ bar'[v].failed <= accepted[v]
    BY <1>2, <1>3
  <1>5. /\ run' \in [Volume -> {"on", "recovering", "off"}]
        /\ \A w \in Volume \ {v} : run'[w] = run[w]
    BY <1>1, WorkerTyped, DegradeFacts
  <1>6. wal[v] = "failed"
    BY <1>1 DEF IInv, MarkInv
  <1>7. "wait" \in WorkerPcs /\ "wait" \notin Committing
    BY DEF WorkerPcs, Committing
  <1>8. QED
    BY <1>1, <1>3, <1>4, <1>5, <1>6, <1>7, WorkerMoves, WorkerTyped DEF sequences

\* The worker is told to stop.
LEMMA WorkerStopsKeeps ==
    ASSUME IInv, NEW v \in Volume, WorkerStops(v)
    PROVE  IInv'
  <1>1. "exit" \in WorkerPcs /\ "exit" \notin Committing
    BY DEF WorkerPcs, Committing
  <1>2. QED
    BY <1>1, WorkerMoves, WorkerTyped DEF WorkerStops, Goto, sequences

\* The worker claims the request, with the gate, or gives up.
LEMMA ClaimKeeps ==
    ASSUME IInv, NEW v \in Volume, Claim(v)
    PROVE  IInv'
  <1> DEFINE x == Worker(v)
  <1>0. /\ TypeOK /\ PlaceInv /\ GateInv /\ CloseInv /\ SequenceInv /\ MarkInv /\ PublishedInv
        /\ BarrierInv /\ GapInv /\ CallInv /\ FlushedIsPublished /\ ExitClean
    BY DEF IInv
  <1>1. /\ pc[x] = "claim"
        /\ UNCHANGED <<mounted, sequences, run, active, draining, vol, on, mark, asked, exit,
                       calls, faults>>
    BY DEF Claim
  <1>2. CASE /\ Goto(x, IF bar[v].stop THEN "exit" ELSE "wait") /\ UNCHANGED <<bar, gate>>
    <2>1. PICK p \in {"exit", "wait"} : pc' = [pc EXCEPT ![Worker(v)] = p]
      BY <1>2 DEF Goto
    <2>2. p \in WorkerPcs /\ p \notin Committing
      BY DEF WorkerPcs, Committing
    <2>3. QED
      BY <1>1, <1>2, <2>1, <2>2, WorkerMoves, WorkerTyped DEF sequences, locks
  <1>3. CASE /\ bar' = [bar EXCEPT ![v] = Claimed(@)] /\ gate' = [gate EXCEPT ![v] = x]
             /\ pc' = [pc EXCEPT ![x] = "drain"] /\ Free(v)
    <2>1. /\ pc \in [Thread -> Pcs] /\ on \in [Thread -> Volume] /\ vol \in [Thread -> Volume]
          /\ gate \in [Volume -> Thread \cup {Nobody}] /\ bar \in [Volume -> Barrier]
          /\ "drain" \in Pcs /\ x \in Thread /\ x \notin Caller /\ calls \in Nat
      BY <1>0, Typed, Numbers, Kinds DEF Pcs, WorkerPcs
    <2>2. /\ pc' \in [Thread -> Pcs] /\ pc'[x] = "drain"
          /\ \A u \in Thread \ {x} : pc'[u] = pc[u]
          /\ gate' \in [Volume -> Thread \cup {Nobody}] /\ gate'[v] = x
          /\ \A w \in Volume \ {v} : gate'[w] = gate[w]
      BY <1>3, <2>1
    <2>3. /\ \A u \in Caller : pc'[u] = pc[u]
          /\ \A w \in Volume : pc'[Closer(w)] = pc[Closer(w)]
          /\ \A w \in Volume \ {v} : pc'[Worker(w)] = pc[Worker(w)]
      BY <2>2, Kinds
    <2> DEFINE c == Claimed(bar[v])
    <2>4. /\ c \in Barrier /\ c.reqTarget = 0 /\ c.inTarget = bar[v].reqTarget
          /\ c.completed = bar[v].completed /\ c.failed = bar[v].failed
      BY <1>0, ClaimedFacts, Numbers
    <2> HIDE DEF c
    <2>5. bar' \in [Volume -> Barrier] /\ bar'[v] = c /\ \A w \in Volume \ {v} : bar'[w] = bar[w]
      BY <1>3, <2>1, <2>4 DEF c
    <2>6. on[x] = v /\ x \in Workers
      BY <1>0, Kinds DEF PlaceInv
    <2>7. gate[v] = Nobody /\ \A u \in Thread : u # Nobody
      BY <1>3, Kinds DEF Free
    <2> HIDE DEF x
    <2>8. TypeOK'
      BY <1>0, <1>1, <2>2, <2>5, Typed, TypedBack DEF sequences
    <2>9. PlaceInv'
      BY <1>0, <1>1, <2>2, <2>3 DEF PlaceInv, x, WorkerPcs
    <2>10. GateInv'
      <3>1. ASSUME NEW u \in Caller
            PROVE  /\ pc'[u] # "idle" => u \in active'[vol'[u]] /\ u \in active'[on'[u]]
                   /\ pc'[u] \notin Ungated => gate'[vol'[u]] = u /\ gate'[on'[u]] = u
        <4>1. u \in Thread /\ vol[u] \in Volume /\ on[u] \in Volume
          BY <2>1, Kinds
        <4>2. QED
          BY <1>0, <1>1, <2>2, <2>3, <2>7, <4>1 DEF GateInv
      <3>2. QED
        BY <1>0, <2>2, <2>3, <3>1 DEF GateInv, x
    <2>11. CloseInv'
      <3>1. \A w \in Volume : Closed(w)' = Closed(w)
        BY <1>1, <2>3 DEF Closed
      <3>2. QED
        BY <1>0, <1>1, <2>2, <2>3, <3>1 DEF CloseInv, x
    <2>12. SequenceInv'
      <3>1. /\ accepted[v] \in Nat /\ bar[v].reqTarget <= accepted[v]
        BY <1>0, Numbers DEF SequenceInv
      <3>2. QED
        BY <1>0, <1>1, <2>4, <2>5, <3>1 DEF SequenceInv, sequences
    <2>13. MarkInv'
      BY <1>0, <1>1, <2>2, <2>3 DEF MarkInv, x, sequences
    <2>14. PublishedInv'
      BY <1>0, <1>1, <2>2 DEF PublishedInv, sequences
    <2>15. /\ Claims(x, v)'
           /\ \A w \in Volume, u \in Thread : Claims(u, w) => Claims(u, w)'
      BY <1>1, <2>1, <2>2, <2>6 DEF Claims
    <2>16. BarrierInv'
      BY <1>0, <1>1, <2>1, <2>5, <2>15 DEF BarrierInv, sequences
    <2>17. GapInv'
      <3>1. \A w \in Volume : Gap(w)' = Gap(w)
        BY <1>1, <2>4, <2>5 DEF Gap, sequences
      <3>2. \A u \in Caller : Admitted(u)' = Admitted(u) /\ vol[u] \in Volume
        BY <1>1, <2>1, <2>3, Kinds DEF Admitted
      <3>3. QED
        BY <1>0, <1>1, <2>15, <3>1, <3>2 DEF GapInv, sequences
    <2>18. CallInv'
      <3>1. \A w \in Volume : Pending(w)' = Pending(w)
        BY <1>1, <2>3 DEF Pending, Admitted
      <3>2. QED
        BY <1>0, <1>1, <2>1, <3>1, PendingShrinks DEF sequences
    <2>19. FlushedIsPublished' /\ ExitClean'
      BY <1>0, <1>1, <2>3 DEF FlushedIsPublished, ExitClean, sequences
    <2>20. QED
      BY <2>8, <2>9, <2>10, <2>11, <2>12, <2>13, <2>14, <2>16, <2>17, <2>18, <2>19 DEF IInv
  <1>4. QED
    BY <1>2, <1>3 DEF Claim, Goto

\* HandleDeferredCommitWorkerException: nobody waits at the barrier, for the worker
\* held the gate.
LEMMA WorkerThrowsKeeps ==
    ASSUME IInv, NEW v \in Volume, WorkerThrows(v)
    PROVE  IInv'
  <1> DEFINE x == Worker(v)
             b == Completed(bar[v], FALSE, durable[v])
             f == IF b.reqTarget # 0 /\ (b.failed = 0 \/ b.reqTarget < b.failed)
                  THEN b.reqTarget ELSE b.failed
             c == [b EXCEPT !.ok = FALSE, !.requested = FALSE, !.reqTarget = 0, !.stop = TRUE,
                            !.failed = f]
  <1>0. /\ TypeOK /\ PlaceInv /\ GateInv /\ CloseInv
        /\ \A w \in Volume : /\ accepted[w] \in Nat /\ published[w] \in Nat /\ durable[w] \in Nat
                             /\ durable[w] <= published[w] /\ published[w] <= accepted[w]
                             /\ logged[w] <= accepted[w] /\ bar[w].completed <= durable[w]
    BY CommitTyped, Kinds DEF IInv
  <1>1. /\ pc \in [Thread -> Pcs] /\ on \in [Thread -> Volume] /\ vol \in [Thread -> Volume]
        /\ gate \in [Volume -> Thread \cup {Nobody}] /\ bar \in [Volume -> Barrier]
        /\ run \in [Volume -> {"on", "recovering", "off"}]
        /\ "exit" \in Pcs /\ x \in Thread /\ x \notin Caller /\ on[x] = v /\ x \in Workers
    BY <1>0, Typed, Kinds DEF Pcs, WorkerPcs, PlaceInv
  <1>2. /\ pc[x] = "drain" /\ Fault /\ run' = [run EXCEPT ![v] = "off"]
        /\ bar' = [bar EXCEPT ![v] = c] /\ gate' = [gate EXCEPT ![v] = Nobody]
        /\ pc' = WithStopped(v, [pc EXCEPT ![x] = "exit"])
        /\ UNCHANGED <<mounted, sequences, active, draining, vol, on, mark, asked, exit, calls>>
    BY DEF WorkerThrows
  <1>3. /\ b \in Barrier /\ ~b.inFlight /\ b.completed = bar[v].completed
        /\ b.reqTarget <= accepted[v] /\ b.inTarget <= accepted[v] /\ b.failed <= accepted[v]
    BY <1>0, CompletedBounds
  <1> HIDE DEF b
  <1>4. f \in Sequence /\ f <= accepted[v] /\ 0 \in Sequence
    BY <1>3, DeferredAssumption DEF Barrier, Sequence
  <1> HIDE DEF f
  <1>5. /\ c \in Barrier /\ ~c.inFlight /\ c.completed = bar[v].completed /\ c.failed = f
        /\ c.reqTarget = 0 /\ c.inTarget = b.inTarget
    BY <1>3, <1>4 DEF Barrier
  <1> HIDE DEF c
  <1>6. bar' \in [Volume -> Barrier] /\ bar'[v] = c /\ \A w \in Volume \ {v} : bar'[w] = bar[w]
    BY <1>1, <1>2, <1>5
  <1>7. /\ bar'[v].completed <= durable[v] /\ bar'[v].reqTarget <= accepted[v]
        /\ bar'[v].inTarget <= accepted[v] /\ bar'[v].failed <= accepted[v]
    BY <1>0, <1>3, <1>4, <1>5, <1>6
  <1>8. faults' \in 0 .. MaxFaults
    BY <1>0, <1>2, FaultFacts
  <1>9. /\ run' \in [Volume -> {"on", "recovering", "off"}] /\ run'[v] = "off"
        /\ \A w \in Volume \ {v} : run'[w] = run[w]
        /\ gate' \in [Volume -> Thread \cup {Nobody}]
        /\ \A w \in Volume \ {v} : gate'[w] = gate[w]
    BY <1>1, <1>2
  <1> HIDE DEF x
  <1>10. CommitData(x, v)
    BY <1>0, <1>2, <1>6, <1>7, <1>8, <1>9, Typed DEF CommitData, sequences
  <1>11. pc[x] \in Committing
    BY <1>2 DEF Committing
  <1>12. \A u \in Thread : pc[u] \in Committing /\ on[u] = v => u = x
    BY <1>0, <1>1, <1>11, OneCommits
  <1>13. /\ pc' \in [Thread -> Pcs] /\ pc'[x] = "exit" /\ \A u \in Thread \ {x} : pc'[u] = pc[u]
    <2>1. \A u \in Thread \ {x} : ~(pc[u] = "waiting" /\ on[u] = v)
      BY <1>12 DEF Committing
    <2>2. pc' = [u \in Thread |-> IF u = x THEN "exit" ELSE pc[u]]
      BY <1>1, <1>2, <2>1 DEF WithStopped
    <2>3. QED
      BY <1>1, <2>2
  <1>14. TypeOK'
    BY <1>0, <1>2, <1>9, <1>10, <1>13, Typed, TypedBack DEF CommitData
  <1>15. /\ \A u \in Caller : pc'[u] = pc[u]
         /\ \A w \in Volume : pc'[Closer(w)] = pc[Closer(w)]
         /\ \A w \in Volume \ {v} : pc'[Worker(w)] = pc[Worker(w)]
    BY <1>13, Kinds DEF x
  <1>16. PlaceInv'
    BY <1>0, <1>2, <1>13, <1>15 DEF PlaceInv, x, WorkerPcs
  <1>17. GateInv'
    <2>1. gate[v] = x
      BY <1>0, <1>2 DEF GateInv, x
    <2>2. \A u \in Caller : /\ pc[u] \notin Ungated => vol[u] # v /\ on[u] # v
                            /\ vol[u] \in Volume /\ on[u] \in Volume
      BY <1>0, <1>1, <2>1, Kinds DEF GateInv
    <2>3. ASSUME NEW u \in Caller
          PROVE  /\ pc'[u] # "idle" => u \in active'[vol'[u]] /\ u \in active'[on'[u]]
                 /\ pc'[u] \notin Ungated => gate'[vol'[u]] = u /\ gate'[on'[u]] = u
      <3>1. active' = active /\ vol' = vol /\ on' = on
        BY <1>2
      <3>2. QED
        BY <1>0, <1>9, <1>15, <2>2, <3>1 DEF GateInv
    <2>4. ASSUME NEW w \in Volume, pc'[Worker(w)] \in {"drain", "commit", "finalize"}
          PROVE  gate'[w] = Worker(w)
      <3>1. w # v
        BY <1>13, <2>4 DEF x
      <3>2. QED
        BY <1>0, <1>9, <1>15, <2>4, <3>1 DEF GateInv
    <2>5. QED
      BY <2>3, <2>4 DEF GateInv
  <1>18. CloseInv'
    <2>1. \A w \in Volume : Closed(w)' = Closed(w)
      BY <1>2, <1>15 DEF Closed
    <2>2. \A w \in Volume : pc[Worker(w)] = "exit" => pc'[Worker(w)] = "exit"
      BY <1>13, <1>15 DEF x
    <2>3. draining' = draining /\ exit' = exit /\ vol' = vol /\ on' = on
      BY <1>2
    <2>4. QED
      BY <1>0, <1>15, <2>1, <2>2, <2>3 DEF CloseInv
  <1>19. CommitPlace(x, v)
    <2>1. ~bar'[v].inFlight /\ run'[v] # "on"
      BY <1>5, <1>6, <1>9
    <2>2. QED
      BY <1>1, <1>2, <1>13, <2>1 DEF CommitPlace, Committing
  <1>20. QED
    BY <1>1, <1>10, <1>11, <1>14, <1>16, <1>17, <1>18, <1>19, CommitKeepsData DEF IInv

\* Every step of a worker.
LEMMA WorkerStepKeeps ==
    ASSUME IInv, NEW v \in Volume, WorkerStep(v)
    PROVE  IInv'
  BY WakeKeeps, FlushWalKeeps, FlushWalFailsKeeps, TakeFailedTargetKeeps, LatchWalFailureKeeps,
     ClaimKeeps, WorkerThrowsKeeps, WorkerStopsKeeps DEF WorkerStep

---------------------------------------------------------------------------
(* The steps of a shutdown outside its commit.                             *)

\* A shutdown that moves on: it closes the admission, waits, stops the worker
\* (whoever waits at the barrier notices), joins it and ends its barrier.
LEMMA CloserMoves ==
    ASSUME IInv, NEW v \in Volume,
           pc[Closer(v)] \in {"up", "callbacks", "stop", "stopLate", "join", "joinLate"},
           pc' \in [Thread -> Pcs],
           \A u \in Thread \ {Closer(v)} : \/ pc'[u] = pc[u]
                                           \/ pc[u] = "waiting" /\ pc'[u] = "stopped",
           pc'[Closer(v)] \in {"callbacks", "stop", "stopLate", "join", "joinLate",
                               "drain", "done"},
           UNCHANGED <<mounted, sequences, run, gate, active, vol, on, mark, asked, calls, faults>>,
           draining' \in [Volume -> BOOLEAN], draining'[v],
           exit' \in [Volume -> {0, 9, 10, 11, 99}],
           pc'[Closer(v)] = "done" => exit'[v] = 9, pc'[Closer(v)] # "done" => exit'[v] = exit[v],
           bar' \in [Volume -> Barrier],
           \A w \in Volume \ {v} : /\ draining'[w] = draining[w] /\ exit'[w] = exit[w]
                                   /\ bar'[w] = bar[w],
           bar'[v].completed = bar[v].completed, bar'[v].reqTarget <= accepted[v],
           bar'[v].inTarget <= accepted[v], bar'[v].failed <= accepted[v],
           bar'[v].inFlight => bar[v].inFlight,
           bar'[v].failed = bar[v].failed \/ bar[v].inFlight,
           Closed(v)' => Closed(v) \/ active[v] = {},
           pc'[Closer(v)] = "drain" => pc[Worker(v)] = "exit"
    PROVE  IInv'
  <1> DEFINE x == Closer(v)
  <1>0. /\ TypeOK /\ PlaceInv /\ GateInv /\ CloseInv /\ SequenceInv /\ MarkInv /\ PublishedInv
        /\ BarrierInv /\ GapInv /\ CallInv /\ FlushedIsPublished /\ ExitClean
    BY DEF IInv
  <1>1. /\ pc \in [Thread -> Pcs] /\ on \in [Thread -> Volume] /\ vol \in [Thread -> Volume]
        /\ x \in Thread /\ x \notin Caller /\ x \notin Workers /\ calls \in Nat
    BY <1>0, Typed, Numbers, Kinds
  <1>2. /\ \A u \in Caller : pc'[u] = pc[u] \/ (pc[u] = "waiting" /\ pc'[u] = "stopped")
        /\ \A w \in Volume : pc'[Worker(w)] = pc[Worker(w)]
        /\ \A w \in Volume \ {v} : \/ pc'[Closer(w)] = pc[Closer(w)]
                                   \/ pc[Closer(w)] = "waiting" /\ pc'[Closer(w)] = "stopped"
    <2>1. /\ \A u \in Caller : u \in Thread \ {x}
          /\ \A w \in Volume : Worker(w) \in Thread \ {x}
          /\ \A w \in Volume \ {v} : Closer(w) \in Thread \ {x}
      BY Kinds
    <2>2. \A w \in Volume : pc[Worker(w)] # "waiting"
      BY <1>0 DEF PlaceInv, WorkerPcs
    <2>3. QED
      BY <2>1, <2>2
  <1>3. TypeOK'
    BY <1>0, Typed, TypedBack DEF sequences
  <1>4. PlaceInv'
    BY <1>0, <1>2 DEF PlaceInv, CallerPcs, CloserPcs, Committing
  <1>5. GateInv'
    BY <1>0, <1>2 DEF GateInv, Ungated
  <1>6. CloseInv'
    <2>1. ASSUME NEW w \in Volume, w # v
          PROVE  /\ pc'[Closer(w)] # "up" => draining'[w]
                 /\ Closed(w)' => \A u \in Caller : vol'[u] = w \/ on'[u] = w =>
                                     pc'[u] \in {"idle", "lockFlush", "unforced", "sorry"}
                 /\ pc'[Closer(w)] \in Committing => pc'[Worker(w)] = "exit"
                 /\ exit'[w] # 99 => pc'[Closer(w)] = "done"
      <3>1. Closed(w)' => Closed(w)
        BY <1>2, <2>1 DEF Closed, Committing
      <3>2. QED
        BY <1>0, <1>2, <2>1, <3>1 DEF CloseInv, Committing
    <2>2. ASSUME Closed(v)', NEW u \in Caller, vol[u] = v \/ on[u] = v
          PROVE  pc'[u] \in {"idle", "lockFlush", "unforced", "sorry"}
      <3>1. CASE Closed(v)
        BY <1>0, <1>2, <2>2, <3>1 DEF CloseInv
      <3>2. CASE active[v] = {}
        <4>1. pc[u] = "idle"
          BY <1>0, <2>2, <3>2 DEF GateInv
        <4>2. QED
          BY <1>2, <4>1
      <3>3. QED
        BY <2>2, <3>1, <3>2
    <2>3. /\ pc'[x] \in Committing => pc'[Worker(v)] = "exit"
          /\ exit'[v] # 99 => pc'[x] = "done"
      BY <1>0, <1>2 DEF CloseInv, Committing
    <2>4. QED
      BY <2>1, <2>2, <2>3 DEF CloseInv
  <1>7. SequenceInv'
    BY <1>0 DEF SequenceInv, sequences
  <1>8. MarkInv'
    BY <1>0, <1>2 DEF MarkInv, sequences, Committing
  <1>9. PublishedInv'
    BY <1>0 DEF PublishedInv, sequences
  <1>10. \A w \in Volume, u \in Thread : Claims(u, w) => Claims(u, w)'
    <2>1. ASSUME NEW u \in Thread, NEW w \in Volume, Claims(u, w)
          PROVE  pc'[u] = pc[u]
      <3>1. pc[u] \in {"commit", "finalize", "drain"}
        BY <2>1 DEF Claims
      <3>2. QED
        BY <3>1
    <2>2. QED
      BY <2>1 DEF Claims
  <1>11. BarrierInv'
    BY <1>0, <1>10 DEF BarrierInv, sequences
  <1>12. GapInv'
    <2>1. \A w \in Volume : Gap(w)' =>
             Gap(w) \/ wal[w] = "failed" \/ \E u \in Thread : Claims(u, w)
      <3>1. \A w \in Volume \ {v} : Gap(w)' = Gap(w)
        BY DEF Gap, sequences
      <3>2. bar'[v].failed = bar[v].failed => Gap(v)' = Gap(v)
        BY DEF Gap, sequences
      <3>3. bar[v].inFlight => wal[v] = "failed" \/ \E u \in Thread : Claims(u, v)
        BY <1>0 DEF BarrierInv
      <3>4. QED
        BY <3>1, <3>2, <3>3
    <2>2. \A w \in Volume : Gap(w)' =>
             wal'[w] = "failed" \/ run'[w] # "on" \/ \E u \in Thread : Claims(u, w)'
      BY <1>0, <1>10, <2>1 DEF GapInv, sequences
    <2>3. ASSUME NEW u \in Caller, Admitted(u)', Gap(vol[u])'
          PROVE  wal[vol[u]] = "failed"
      <3>1. Admitted(u) /\ vol[u] \in Volume
        BY <1>1, <1>2, <2>3, Kinds DEF Admitted
      <3>2. ASSUME NEW y \in Thread, Claims(y, vol[u])
            PROVE  FALSE
        <4>1. pc[y] \in Committing /\ on[y] = vol[u]
          BY <3>2 DEF Claims, Committing
        <4>2. QED
          BY <1>0, <3>1, <4>1, OneCommits
      <3>3. Gap(vol[u]) \/ wal[vol[u]] = "failed"
        BY <2>1, <2>3, <3>1, <3>2
      <3>4. QED
        BY <1>0, <3>1, <3>3 DEF GapInv
    <2>4. QED
      BY <2>2, <2>3 DEF GapInv, sequences
  <1>13. CallInv'
    <2>1. \A w \in Volume : Pending(w)' = Pending(w)
      BY <1>2 DEF Pending, Admitted
    <2>2. QED
      BY <1>0, <1>1, <2>1, PendingShrinks DEF sequences
  <1>14. FlushedIsPublished'
    BY <1>0, <1>2 DEF FlushedIsPublished, sequences
  <1>15. ExitClean'
    <2>1. \A w \in Volume : exit'[w] = 0 => exit[w] = 0
      OBVIOUS
    <2>2. QED
      BY <1>0, <2>1 DEF ExitClean, sequences
  <1>16. QED
    BY <1>3, <1>4, <1>5, <1>6, <1>7, <1>8, <1>9, <1>11, <1>12, <1>13, <1>14, <1>15 DEF IInv

\* What the steps of a shutdown start from.
LEMMA CloserTyped ==
    ASSUME IInv, NEW v \in Volume
    PROVE  /\ TypeOK /\ pc \in [Thread -> Pcs] /\ draining \in [Volume -> BOOLEAN]
           /\ exit \in [Volume -> {0, 9, 10, 11, 99}] /\ bar \in [Volume -> Barrier]
           /\ Closer(v) \in Thread /\ durable[v] \in Nat /\ bar[v] \in Barrier
           /\ pc[Closer(v)] # "up" => draining[v]
           /\ bar[v].reqTarget <= accepted[v] /\ bar[v].inTarget <= accepted[v]
           /\ bar[v].failed <= accepted[v]
           /\ {"callbacks", "stop", "stopLate", "join", "joinLate", "drain", "done"} \subseteq Pcs
  BY Typed, Numbers, Kinds DEF IInv, CloseInv, SequenceInv, Pcs, CloserPcs, Committing

\* The admission closes.
LEMMA BeginShutdownKeeps ==
    ASSUME IInv, NEW v \in Volume, BeginShutdown(v)
    PROVE  IInv'
  <1>1. /\ pc[Closer(v)] = "up" /\ draining' = [draining EXCEPT ![v] = TRUE]
        /\ pc' = [pc EXCEPT ![Closer(v)] = "callbacks"]
        /\ UNCHANGED <<mounted, bar, sequences, run, gate, active, vol, on, mark, asked, exit,
                       calls, faults>>
    BY DEF BeginShutdown, Goto
  <1>2. /\ pc' \in [Thread -> Pcs] /\ pc'[Closer(v)] = "callbacks"
        /\ \A u \in Thread \ {Closer(v)} : pc'[u] = pc[u]
        /\ draining' \in [Volume -> BOOLEAN] /\ draining'[v]
        /\ \A w \in Volume \ {v} : draining'[w] = draining[w]
    BY <1>1, CloserTyped
  <1>3. ~Closed(v)'
    BY <1>2 DEF Closed, Committing
  <1>4. QED
    BY <1>1, <1>2, <1>3, CloserMoves, CloserTyped

\* All callbacks have left, or time is up.
LEMMA CallbacksDrainedKeeps ==
    ASSUME IInv, NEW v \in Volume, CallbacksDrained(v)
    PROVE  IInv'
  <1>1. PICK p \in {"stop", "stopLate"} :
           pc' = [pc EXCEPT ![Closer(v)] = p] /\ (p = "stop" => active[v] = {})
    BY DEF CallbacksDrained, Goto
  <1>2. /\ pc[Closer(v)] = "callbacks"
        /\ UNCHANGED <<mounted, bar, sequences, run, gate, active, draining, vol, on, mark, asked,
                       exit, calls, faults>>
    BY DEF CallbacksDrained, locks
  <1>3. /\ pc' \in [Thread -> Pcs] /\ pc'[Closer(v)] = p
        /\ \A u \in Thread \ {Closer(v)} : pc'[u] = pc[u]
    BY <1>1, CloserTyped
  <1>4. Closed(v)' => active[v] = {}
    BY <1>1, <1>3 DEF Closed, Committing
  <1>5. QED
    BY <1>2, <1>3, <1>4, CloserMoves, CloserTyped

\* The worker is told to stop, and so is whoever waits at the barrier.
LEMMA StopWorkerKeeps ==
    ASSUME IInv, NEW v \in Volume, StopWorker(v)
    PROVE  IInv'
  <1> DEFINE c == [bar[v] EXCEPT !.stop = TRUE]
  <1>1. PICK p \in {"join", "joinLate"} :
           /\ pc' = WithStopped(v, [pc EXCEPT ![Closer(v)] = p])
           /\ p = "join" => pc[Closer(v)] = "stop"
    BY CloserTyped DEF StopWorker
  <1>2. /\ pc[Closer(v)] \in {"stop", "stopLate"} /\ bar' = [bar EXCEPT ![v] = c]
        /\ UNCHANGED <<mounted, sequences, run, gate, active, draining, vol, on, mark, asked,
                       exit, calls, faults>>
    BY DEF StopWorker, locks
  <1>3. /\ c \in Barrier /\ c.completed = bar[v].completed /\ c.reqTarget = bar[v].reqTarget
        /\ c.inTarget = bar[v].inTarget /\ c.failed = bar[v].failed
        /\ c.inFlight = bar[v].inFlight
    BY CloserTyped DEF Barrier
  <1> HIDE DEF c
  <1>4. bar' \in [Volume -> Barrier] /\ bar'[v] = c /\ \A w \in Volume \ {v} : bar'[w] = bar[w]
    BY <1>2, <1>3, CloserTyped
  <1>5. "stopped" \in Pcs
    BY DEF Pcs, CallerPcs, Committing
  <1>6. /\ pc' \in [Thread -> Pcs] /\ pc'[Closer(v)] = p
        /\ \A u \in Thread \ {Closer(v)} : \/ pc'[u] = pc[u]
                                           \/ pc[u] = "waiting" /\ pc'[u] = "stopped"
    BY <1>1, <1>5, CloserTyped DEF WithStopped
  <1>7. Closed(v)' => Closed(v)
    BY <1>1, <1>6 DEF Closed, Committing
  <1>8. /\ bar'[v].completed = bar[v].completed /\ bar'[v].reqTarget <= accepted[v]
        /\ bar'[v].inTarget <= accepted[v] /\ bar'[v].failed <= accepted[v]
        /\ bar'[v].failed = bar[v].failed /\ (bar'[v].inFlight => bar[v].inFlight)
    BY <1>3, <1>4, CloserTyped
  <1>9. draining[v]
    BY <1>2, CloserTyped
  <1>10. QED
    BY <1>2, <1>4, <1>6, <1>7, <1>8, <1>9, CloserMoves, CloserTyped

\* The worker has ended, and with it its barrier.
LEMMA JoinWorkerKeeps ==
    ASSUME IInv, NEW v \in Volume, JoinWorker(v)
    PROVE  IInv'
  <1> DEFINE b == Completed(bar[v], FALSE, durable[v])
             c == [b EXCEPT !.stop = FALSE]
  <1>1. /\ pc[Closer(v)] \in {"join", "joinLate"} /\ pc[Worker(v)] = "exit"
        /\ bar' = [bar EXCEPT ![v] = c]
        /\ UNCHANGED <<mounted, sequences, run, gate, active, draining, vol, on, mark, asked,
                       calls, faults>>
    BY DEF JoinWorker, locks
  <1>2. PICK p \in {"drain", "done"} :
           /\ pc' = [pc EXCEPT ![Closer(v)] = p]
           /\ p = "drain" => pc[Closer(v)] = "join" /\ exit' = exit
           /\ p = "done" => exit' = [exit EXCEPT ![v] = 9]
    BY DEF JoinWorker, Goto
  <1>3. /\ b \in Barrier /\ ~b.inFlight /\ b.completed = bar[v].completed
        /\ b.reqTarget <= accepted[v] /\ b.inTarget <= accepted[v] /\ b.failed <= accepted[v]
        /\ ~bar[v].inFlight => b = bar[v]
    BY CompletedBounds, CloserTyped
  <1> HIDE DEF b
  <1>4. /\ c \in Barrier /\ c.completed = b.completed /\ c.reqTarget = b.reqTarget
        /\ c.inTarget = b.inTarget /\ c.failed = b.failed /\ c.inFlight = b.inFlight
    BY <1>3 DEF Barrier
  <1> HIDE DEF c
  <1>5. bar' \in [Volume -> Barrier] /\ bar'[v] = c /\ \A w \in Volume \ {v} : bar'[w] = bar[w]
    BY <1>1, <1>4, CloserTyped
  <1>6. /\ bar'[v].completed = bar[v].completed /\ bar'[v].reqTarget <= accepted[v]
        /\ bar'[v].inTarget <= accepted[v] /\ bar'[v].failed <= accepted[v]
        /\ ~bar'[v].inFlight /\ (bar'[v].failed = bar[v].failed \/ bar[v].inFlight)
    BY <1>3, <1>4, <1>5
  <1>7. /\ pc' \in [Thread -> Pcs] /\ pc'[Closer(v)] = p
        /\ \A u \in Thread \ {Closer(v)} : pc'[u] = pc[u]
    BY <1>2, CloserTyped
  <1>8. /\ exit' \in [Volume -> {0, 9, 10, 11, 99}]
        /\ p = "done" => exit'[v] = 9
        /\ p # "done" => exit'[v] = exit[v]
        /\ \A w \in Volume \ {v} : exit'[w] = exit[w]
    BY <1>2, CloserTyped
  <1>9. Closed(v)' => Closed(v)
    BY <1>2, <1>7, <1>8 DEF Closed, Committing
  <1>10. draining[v]
    BY <1>1, CloserTyped
  <1>11. QED
    BY <1>1, <1>5, <1>6, <1>7, <1>8, <1>9, <1>10, CloserMoves, CloserTyped

---------------------------------------------------------------------------
(* The steps of a callback.                                                *)

\* There is a call for every change that may still be accepted.
LEMMA RoomToAccept ==
    ASSUME IInv, NEW t \in Caller, Admitted(t)
    PROVE  accepted[vol[t]] + 1 \in Sequence
  <1>1. vol[t] \in Volume /\ accepted[vol[t]] \in Nat /\ calls \in Nat /\ calls <= MaxCalls
    BY Typed, Numbers, Kinds DEF IInv
  <1>2. t \in Pending(vol[t])
    BY DEF Pending
  <1>3. Cardinality(Pending(vol[t])) # 0 /\ Cardinality(Pending(vol[t])) \in Nat
    BY <1>1, <1>2, PendingFinite, FS_EmptySet
  <1>4. accepted[vol[t]] + Cardinality(Pending(vol[t])) <= calls
    BY <1>1 DEF IInv, CallInv
  <1>5. QED
    BY <1>1, <1>3, <1>4, DeferredAssumption DEF Sequence

\* What a step of a callback does to the numbers, the barrier and the status of its
\* volume v: at most one change is accepted, and only a request is added to the barrier.
CallerData(t, v) ==
    /\ UNCHANGED <<mounted, published, durable, draining, vol, on, asked, exit, calls>>
    /\ accepted' \in [Volume -> Sequence] /\ logged' \in [Volume -> Sequence]
    /\ bar' \in [Volume -> Barrier] /\ wal' \in [Volume -> {"fine", "uncleaned", "failed"}]
    /\ run' \in [Volume -> {"on", "recovering", "off"}] /\ faults' \in 0 .. MaxFaults
    /\ mark' \in [Thread -> Sequence] /\ \A u \in Thread \ {t} : mark'[u] = mark[u]
    /\ \A w \in Volume \ {v} : /\ accepted'[w] = accepted[w] /\ logged'[w] = logged[w]
                               /\ bar'[w] = bar[w] /\ wal'[w] = wal[w] /\ run'[w] = run[w]
    /\ \/ accepted'[v] = accepted[v]
       \/ accepted'[v] = accepted[v] + 1 /\ pc[t] = "accept" /\ wal[v] # "failed"
    /\ logged'[v] <= accepted'[v] /\ bar'[v].reqTarget <= accepted'[v]
    /\ bar'[v].inTarget = bar[v].inTarget /\ bar'[v].completed = bar[v].completed
    /\ bar'[v].failed = bar[v].failed /\ bar'[v].inFlight = bar[v].inFlight
    /\ wal[v] = "failed" => wal'[v] = "failed"
    /\ run'[v] = "on" => run[v] = "on"

\* Where it goes: it keeps to the gate, is admitted only by a volume that serves
\* writes, and leaves the way to a change once it has accepted.
CallerPlace(t, v, p) ==
    /\ pc[t] \in CallerPcs \ (Committing \cup {"idle"})
    /\ pc' = [pc EXCEPT ![t] = p]
    /\ p \in CallerPcs \ ((Committing \ {"drain"}) \cup {"lockChange", "lockFlush", "okay"})
    /\ gate' \in [Volume -> Thread \cup {Nobody}] /\ active' \in [Volume -> SUBSET Caller]
    /\ \A w \in Volume \ {v} : gate'[w] = gate[w] /\ active'[w] = active[w]
    /\ gate'[v] = gate[v] \/ gate[v] \in {t, Nobody}
    /\ p \notin Ungated => gate'[v] = t
    /\ p = "idle" => active'[v] = active[v] \ {t}
    /\ p # "idle" => active'[v] = active[v]
    /\ p = "drain" => pc[t] = "lockFlush"
    /\ p \in {"sibling", "accept"} => \/ pc[t] = "sibling"
                                      \/ pc[t] = "lockChange" /\ run[v] = "on" /\ gate[v] = Nobody
    /\ accepted'[v] # accepted[v] => p \notin {"sibling", "accept"}
    /\ p \in {"walWait", "logged", "unlogged"} => mark'[t] <= accepted'[v]
    /\ pc[t] \in {"lockFlush", "unforced", "sorry"} /\ draining[v] =>
          p \in {"idle", "unforced", "sorry"}

\* Such a step keeps the invariant.
LEMMA CallerMoves ==
    ASSUME IInv, NEW t \in Caller, NEW v \in Volume, v = vol[t], NEW p,
           CallerData(t, v), CallerPlace(t, v, p)
    PROVE  IInv'
  <1>0. /\ TypeOK /\ PlaceInv /\ GateInv /\ CloseInv /\ SequenceInv /\ MarkInv /\ PublishedInv
        /\ BarrierInv /\ GapInv /\ CallInv /\ FlushedIsPublished /\ ExitClean
    BY DEF IInv
  <1>1. /\ pc \in [Thread -> Pcs] /\ on \in [Thread -> Volume] /\ vol \in [Thread -> Volume]
        /\ t \in Thread /\ t \notin Workers /\ calls \in Nat /\ p \in Pcs
    BY <1>0, Typed, Numbers, Kinds DEF CallerPlace, Pcs
  <1>2. on[t] = v
    BY <1>0 DEF PlaceInv, CallerPlace
  <1>3. /\ pc' \in [Thread -> Pcs] /\ pc'[t] = p /\ \A u \in Thread \ {t} : pc'[u] = pc[u]
    BY <1>1 DEF CallerPlace
  <1>4. /\ vol' = vol /\ on' = on /\ asked' = asked /\ published' = published /\ durable' = durable
        /\ draining' = draining /\ exit' = exit /\ calls' = calls
    BY DEF CallerData
  <1>5. /\ \A w \in Volume : /\ pc'[Worker(w)] = pc[Worker(w)] /\ pc'[Closer(w)] = pc[Closer(w)]
                             /\ mark'[Worker(w)] = mark[Worker(w)]
        /\ \A u \in Caller \ {t} : u \in Thread /\ pc'[u] = pc[u] /\ mark'[u] = mark[u]
    BY <1>3, Kinds DEF CallerData
  <1>6. \A w \in Volume : /\ accepted[w] \in Nat /\ accepted'[w] \in Nat /\ published[w] \in Nat
                          /\ accepted[w] <= accepted'[w] /\ logged[w] \in Nat
                          /\ bar[w].inTarget \in Nat /\ bar[w].failed \in Nat
                          /\ bar[w].reqTarget \in Nat
    <2>1. \A w \in Volume : accepted[w] \in Nat /\ accepted'[w] \in Nat
      BY <1>0, Numbers, Typed DEF CallerData
    <2>2. \A w \in Volume : accepted'[w] = accepted[w] \/ accepted'[w] = accepted[w] + 1
      BY DEF CallerData
    <2>3. QED
      BY <1>0, <2>1, <2>2, Numbers
  <1>7. TypeOK'
    BY <1>0, <1>3, <1>4, Typed, TypedBack DEF CallerData, CallerPlace
  <1>8. PlaceInv'
    <2>1. p \in CallerPcs
      BY DEF CallerPlace
    <2>2. QED
      BY <1>0, <1>2, <1>3, <1>4, <1>5, <2>1 DEF PlaceInv
  <1>9. GateInv'
    <2>1. ASSUME NEW u \in Caller
          PROVE  /\ pc'[u] # "idle" => u \in active'[vol'[u]] /\ u \in active'[on'[u]]
                 /\ pc'[u] \notin Ungated => gate'[vol'[u]] = u /\ gate'[on'[u]] = u
      <3>1. CASE u = t
        <4>1. t \in active[v]
          BY <1>0 DEF GateInv, CallerPlace
        <4>2. QED
          BY <1>2, <1>3, <1>4, <3>1, <4>1 DEF CallerPlace
      <3>2. CASE u # t
        <4>1. pc'[u] = pc[u] /\ vol[u] \in Volume /\ on[u] \in Volume /\ u # Nobody
          BY <1>1, <1>5, <3>2, Kinds
        <4>2. \A w \in Volume : /\ gate[w] = u => gate'[w] = u
                                /\ u \in active[w] => u \in active'[w]
          BY <3>2, <4>1 DEF CallerPlace
        <4>3. QED
          BY <1>0, <1>4, <4>1, <4>2 DEF GateInv
      <3>3. QED
        BY <3>1, <3>2
    <2>2. ASSUME NEW w \in Volume, pc'[Worker(w)] \in {"drain", "commit", "finalize"}
          PROVE  gate'[w] = Worker(w)
      <3>1. gate[w] = Worker(w) /\ Worker(w) # t /\ Worker(w) # Nobody
        BY <1>0, <1>5, <2>2, Kinds DEF GateInv
      <3>2. QED
        BY <3>1 DEF CallerPlace
    <2>3. QED
      BY <2>1, <2>2 DEF GateInv
  <1>10. CloseInv'
    <2>1. \A w \in Volume : Closed(w)' = Closed(w)
      BY <1>4, <1>5 DEF Closed
    <2>2. \A w \in Volume : Closed(w) => pc[Closer(w)] # "up"
      BY DEF Closed, Committing
    <2>3. ASSUME NEW w \in Volume, Closed(w), NEW u \in Caller, vol[u] = w \/ on[u] = w
          PROVE  pc'[u] \in {"idle", "lockFlush", "unforced", "sorry"}
      <3>1. pc[u] \in {"idle", "lockFlush", "unforced", "sorry"} /\ draining[w]
        BY <1>0, <2>2, <2>3 DEF CloseInv
      <3>2. CASE u = t
        BY <1>2, <1>3, <2>3, <3>1, <3>2 DEF CallerPlace
      <3>3. CASE u # t
        BY <1>5, <3>1, <3>3
      <3>4. QED
        BY <3>2, <3>3
    <2>4. QED
      BY <1>0, <1>4, <1>5, <2>1, <2>3 DEF CloseInv
  <1>11. SequenceInv'
    <2>1. ASSUME NEW w \in Volume
          PROVE  /\ durable'[w] <= published'[w] /\ published'[w] <= accepted'[w]
                 /\ logged'[w] <= accepted'[w] /\ bar'[w].completed <= durable'[w]
                 /\ bar'[w].reqTarget <= accepted'[w] /\ bar'[w].inTarget <= accepted'[w]
                 /\ bar'[w].failed <= accepted'[w]
      <3>1. /\ published[w] <= accepted[w] /\ bar[w].inTarget <= accepted[w]
            /\ bar[w].failed <= accepted[w] /\ durable[w] <= published[w]
            /\ bar[w].completed <= durable[w]
            /\ logged[w] <= accepted[w] /\ bar[w].reqTarget <= accepted[w]
        BY <1>0 DEF SequenceInv
      <3>2. /\ bar'[w].inTarget = bar[w].inTarget /\ bar'[w].failed = bar[w].failed
            /\ bar'[w].completed = bar[w].completed
            /\ w # v => logged'[w] = logged[w] /\ bar'[w].reqTarget = bar[w].reqTarget
            /\ w = v => logged'[w] <= accepted'[w] /\ bar'[w].reqTarget <= accepted'[w]
        BY DEF CallerData
      <3>3. QED
        BY <1>4, <1>6, <3>1, <3>2
    <2>2. QED
      BY <2>1 DEF SequenceInv
  <1>12. MarkInv'
    <2>1. \A u \in Thread : mark[u] \in Nat /\ asked[u] \in Nat
      BY <1>0, Numbers
    <2>2. ASSUME NEW u \in Caller
          PROVE  /\ pc'[u] \in {"walWait", "logged", "unlogged"} => mark'[u] <= accepted'[vol'[u]]
                 /\ pc'[u] = "lockFlush" \/ (pc'[u] \in Committing /\ on'[u] = vol'[u])
                        => asked'[u] <= accepted'[vol'[u]]
      <3>1. CASE u = t
        <4>1. pc'[t] \in Committing => asked[t] <= accepted[v]
          BY <1>0, <1>3 DEF MarkInv, CallerPlace
        <4>2. pc'[t] # "lockFlush"
          BY <1>3 DEF CallerPlace
        <4>3. pc'[t] \in {"walWait", "logged", "unlogged"} => mark'[t] <= accepted'[v]
          BY <1>3 DEF CallerPlace
        <4>4. QED
          BY <1>1, <1>4, <1>6, <2>1, <3>1, <4>1, <4>2, <4>3
      <3>2. CASE u # t
        <4>1. vol[u] \in Volume /\ u \in Thread
          BY <1>1, <1>5, <3>2
        <4>2. QED
          BY <1>0, <1>4, <1>5, <1>6, <2>1, <3>2, <4>1 DEF MarkInv
      <3>3. QED
        BY <3>1, <3>2
    <2>3. ASSUME NEW w \in Volume
          PROVE  /\ mark'[Worker(w)] <= accepted'[w]
                 /\ pc'[Worker(w)] \in {"unlogged", "latch"} => wal'[w] = "failed"
      <3>1. wal[w] = "failed" => wal'[w] = "failed"
        BY DEF CallerData
      <3>2. QED
        BY <1>0, <1>5, <1>6, <2>1, <3>1, Kinds DEF MarkInv
    <2>4. QED
      BY <2>2, <2>3 DEF MarkInv
  <1>13. accepted'[v] # accepted[v] =>
            Admitted(t) /\ \A u \in Thread : pc[u] \in Committing => on[u] # v
    <2>1. ASSUME accepted'[v] # accepted[v]
          PROVE  Admitted(t) /\ \A u \in Thread : pc[u] \in Committing => on[u] # v
      <3>1. Admitted(t)
        BY <2>1 DEF CallerData, Admitted
      <3>2. QED
        BY <1>0, <3>1, OneCommits
    <2>2. QED
      BY <2>1
  <1>14. PublishedInv'
    <2>1. ASSUME NEW u \in Thread, pc'[u] = "finalize"
          PROVE  published'[on'[u]] = accepted'[on'[u]]
      <3>1. u # t /\ on[u] \in Volume
        BY <1>1, <1>3, <2>1 DEF CallerPlace, Committing
      <3>2. pc[u] = "finalize" /\ pc[u] \in Committing
        BY <1>3, <2>1, <3>1 DEF Committing
      <3>3. accepted'[on[u]] = accepted[on[u]]
        BY <1>13, <3>1, <3>2 DEF CallerData
      <3>4. QED
        BY <1>0, <1>4, <3>2, <3>3 DEF PublishedInv
    <2>2. QED
      BY <2>1 DEF PublishedInv
  <1>15. \A w \in Volume, u \in Thread : Claims(u, w) => Claims(u, w)'
    <2>1. ~(pc[t] \in {"commit", "finalize"})
      BY DEF CallerPlace, Committing
    <2>2. QED
      BY <1>1, <1>3, <1>4, <2>1 DEF Claims
  <1>16. \A w \in Volume : /\ bar'[w].inFlight = bar[w].inFlight
                           /\ wal[w] = "failed" => wal'[w] = "failed"
                           /\ run'[w] = "on" => run[w] = "on"
                           /\ Gap(w)' = Gap(w)
    BY <1>4 DEF CallerData, Gap
  <1>17. BarrierInv'
    BY <1>0, <1>15, <1>16 DEF BarrierInv
  <1>18. GapInv'
    <2>1. ASSUME NEW u \in Caller, Admitted(u)', Gap(vol[u])'
          PROVE  wal'[vol[u]] = "failed"
      <3>1. vol[u] \in Volume /\ Gap(vol[u])
        BY <1>1, <1>4, <1>16, <2>1, Kinds
      <3>2. CASE Admitted(u)
        BY <1>0, <1>16, <3>1, <3>2 DEF GapInv
      <3>3. CASE u = t /\ pc[t] # "sibling"
        <4>1. pc'[t] \in {"sibling", "accept"}
          BY <1>2, <1>4, <2>1, <3>3 DEF Admitted
        <4>2. pc[t] = "lockChange" /\ run[v] = "on" /\ gate[v] = Nobody
          BY <1>3, <3>3, <4>1 DEF CallerPlace
        <4>3. ASSUME NEW y \in Thread, Claims(y, v)
              PROVE  FALSE
          <5>1. on[y] = v /\ pc[y] \in Committing
            BY <4>3 DEF Claims, Committing
          <5>2. CASE y \in Caller
            BY <1>0, <4>2, <5>1, <5>2, Kinds DEF GateInv, Ungated, Committing
          <5>3. ASSUME NEW w \in Volume, y = Worker(w)
                PROVE  FALSE
            BY <1>0, <4>2, <5>1, <5>3, Kinds DEF GateInv, PlaceInv, WorkerPcs, Committing
          <5>4. ASSUME NEW w \in Volume, y = Closer(w)
                PROVE  FALSE
            BY <1>0, <4>2, <5>1, <5>4 DEF CloseInv, Closed, PlaceInv
          <5>5. QED
            BY <5>2, <5>3, <5>4, Kinds
        <4>4. QED
          BY <1>0, <1>16, <3>1, <3>3, <4>2, <4>3 DEF GapInv
      <3>4. QED
        BY <1>4, <1>5, <2>1, <3>2, <3>3 DEF Admitted
    <2>2. \A w \in Volume : Gap(w)' =>
             wal'[w] = "failed" \/ run'[w] # "on" \/ \E u \in Thread : Claims(u, w)'
      BY <1>0, <1>15, <1>16 DEF GapInv
    <2>3. QED
      BY <1>4, <2>1, <2>2 DEF GapInv
  <1>19. \A w \in Volume : Pending(w)' \subseteq Pending(w)
    <2>1. ASSUME NEW w \in Volume, NEW u \in Pending(w)'
          PROVE  u \in Pending(w)
      <3>1. u \in Caller /\ vol[u] = w /\ (pc'[u] = "lockChange" \/ Admitted(u)')
        BY <1>4 DEF Pending
      <3>2. CASE u # t
        BY <1>4, <1>5, <3>1, <3>2 DEF Pending, Admitted
      <3>3. CASE u = t
        <4>1. p # "lockChange"
          BY DEF CallerPlace
        <4>2. pc'[t] \in {"sibling", "accept"}
          BY <1>2, <1>3, <1>4, <3>1, <3>3, <4>1 DEF Admitted
        <4>3. QED
          BY <1>3, <3>1, <3>3, <4>2 DEF Pending, Admitted, CallerPlace
      <3>4. QED
        BY <3>2, <3>3
    <2>2. QED
      BY <2>1
  <1>20. CallInv'
    <2>1. CASE accepted'[v] = accepted[v]
      <3>1. accepted' = accepted
        BY <1>0, <2>1, Typed DEF CallerData
      <3>2. QED
        BY <1>0, <1>1, <1>4, <1>19, <3>1, PendingShrinks
    <2>2. CASE accepted'[v] # accepted[v]
      <3>1. t \in Pending(v) /\ t \notin Pending(v)' /\ accepted'[v] = accepted[v] + 1
        <4>1. t \in Pending(v)
          BY <1>13, <2>2 DEF Pending
        <4>2. p \notin {"sibling", "accept", "lockChange"} /\ accepted'[v] = accepted[v] + 1
          BY <2>2 DEF CallerPlace, CallerData
        <4>3. QED
          BY <1>2, <1>3, <1>4, <4>1, <4>2 DEF Pending, Admitted
      <3>2. \A w \in Volume : Cardinality(Pending(w)') <= Cardinality(Pending(w))
        BY <1>19, PendingFinite, FS_Subset
      <3>3. Cardinality(Pending(v)') <= Cardinality(Pending(v)) - 1
        <4>1. /\ IsFiniteSet(Pending(v) \ {t})
              /\ Cardinality(Pending(v) \ {t}) = Cardinality(Pending(v)) - 1
          BY <3>1, PendingFinite, FS_RemoveElement
        <4>2. Pending(v)' \in SUBSET (Pending(v) \ {t})
          BY <1>19, <3>1
        <4>3. Cardinality(Pending(v)') <= Cardinality(Pending(v) \ {t})
          BY <4>1, <4>2, FS_Subset
        <4>4. QED
          BY <4>1, <4>3
      <3>4. \A w \in Volume : accepted'[w] + Cardinality(Pending(w)') <= calls
        <4>1. ASSUME NEW w \in Volume
              PROVE  accepted'[w] + Cardinality(Pending(w)') <= calls
          <5>1. accepted[w] + Cardinality(Pending(w)) <= calls
            BY <1>0 DEF CallInv
          <5>2. CASE w = v
            BY <1>1, <1>6, <3>1, <3>3, <5>1, <5>2, PendingFinite
          <5>3. CASE w # v
            <6>1. accepted'[w] = accepted[w]
              BY <5>3 DEF CallerData
            <6>2. QED
              BY <1>1, <1>6, <3>2, <5>1, <6>1, PendingFinite
          <5>4. QED
            BY <5>2, <5>3
        <4>2. QED
          BY <4>1
      <3>5. QED
        BY <1>4, <3>4 DEF CallInv
    <2>3. QED
      BY <2>1, <2>2
  <1>21. FlushedIsPublished'
    <2>1. \A u \in Caller : pc'[u] = "okay" => pc[u] = "okay"
      BY <1>3, <1>5 DEF CallerPlace
    <2>2. QED
      BY <1>0, <1>4, <2>1 DEF FlushedIsPublished
  <1>22. ExitClean'
    <2>1. ASSUME NEW w \in Volume, exit[w] = 0
          PROVE  accepted'[w] = accepted[w]
      <3>1. Closed(w)
        BY <1>0, <2>1 DEF CloseInv, Closed
      <3>2. CASE w = v /\ accepted'[v] # accepted[v]
        <4>1. pc[t] = "accept"
          BY <3>2 DEF CallerData
        <4>2. QED
          BY <1>0, <3>1, <3>2, <4>1 DEF CloseInv
      <3>3. QED
        BY <3>2 DEF CallerData
    <2>2. QED
      BY <1>0, <1>4, <2>1 DEF ExitClean
  <1>23. QED
    BY <1>7, <1>8, <1>9, <1>10, <1>11, <1>12, <1>14, <1>17, <1>18, <1>20, <1>21, <1>22 DEF IInv

\* What a step of a callback starts from.
LEMMA CallerTyped ==
    ASSUME IInv, NEW t \in Caller
    PROVE  /\ TypeOK /\ SequenceInv /\ t \in Thread /\ vol[t] \in Volume
           /\ pc[t] \notin Ungated => gate[vol[t]] = t
           /\ pc \in [Thread -> Pcs] /\ gate \in [Volume -> Thread \cup {Nobody}]
           /\ active \in [Volume -> SUBSET Caller] /\ bar \in [Volume -> Barrier]
           /\ accepted \in [Volume -> Sequence] /\ logged \in [Volume -> Sequence]
           /\ wal \in [Volume -> {"fine", "uncleaned", "failed"}]
           /\ run \in [Volume -> {"on", "recovering", "off"}] /\ faults \in 0 .. MaxFaults
           /\ mark \in [Thread -> Sequence] /\ \A n \in Sequence : n \in Nat
           /\ pc[t] \in {"walWait", "logged", "unlogged"} => mark[t] <= accepted[vol[t]]
           /\ \A v \in Volume : bar[v].reqTarget <= accepted[v] /\ logged[v] <= accepted[v]
           /\ \A v \in Volume : /\ bar[v].reqTarget \in Nat /\ logged[v] \in Nat
                                /\ accepted[v] \in Nat /\ bar[v] \in Barrier
  BY Typed, Numbers, Kinds DEF IInv, GateInv, SequenceInv, MarkInv

\* A step that leaves the numbers and the barrier alone.
LEMMA CallerStill ==
    ASSUME IInv, NEW t \in Caller, NEW v \in Volume,
           UNCHANGED <<mounted, bar, sequences, draining, vol, on, mark,
                       asked, exit, calls, faults>>,
           run' = run \/ Degrade(v)
    PROVE  CallerData(t, v)
  <1>1. /\ run' \in [Volume -> {"on", "recovering", "off"}]
        /\ \A w \in Volume \ {v} : run'[w] = run[w]
        /\ run'[v] = "on" => run[v] = "on"
    BY CallerTyped, DegradeFacts
  <1>2. /\ mounted' = mounted /\ bar' = bar /\ accepted' = accepted /\ published' = published
        /\ durable' = durable /\ logged' = logged /\ wal' = wal /\ draining' = draining
        /\ vol' = vol /\ on' = on /\ mark' = mark /\ asked' = asked /\ exit' = exit
        /\ calls' = calls /\ faults' = faults
    BY DEF sequences
  <1>3. QED
    BY <1>1, <1>2, CallerTyped DEF CallerData

\* A callback that keeps the gate it holds and does not leave.
LEMMA CallerHolds ==
    ASSUME IInv, NEW t \in Caller, NEW v \in Volume, v = vol[t],
           pc[t] = "sibling", NEW p \in {"accept", "sorry"}, pc' = [pc EXCEPT ![t] = p],
           gate' = gate, active' = active, accepted'[v] = accepted[v]
    PROVE  CallerPlace(t, v, p)
  BY CallerTyped DEF CallerPlace, CallerPcs, Committing, Ungated

\* One that answers with the gate held.
LEMMA CallerAnswers ==
    ASSUME IInv, NEW t \in Caller, NEW v \in Volume, v = vol[t], NEW p \in {"closed", "sorry"},
           pc[t] = "accept", pc' = [pc EXCEPT ![t] = p], gate' = gate, active' = active
    PROVE  CallerPlace(t, v, p)
  BY CallerTyped DEF CallerPlace, CallerPcs, Committing, Ungated

\* The gate is taken.
LEMMA LockKeeps ==
    ASSUME IInv, NEW t \in Caller, Lock(t)
    PROVE  IInv'
  <1>1. PICK v \in Volume : v = vol[t]
    BY CallerTyped
  <1>2. PICK p \in {"sorry", "sibling", "accept", "unforced", "drain"} :
           /\ pc' = [pc EXCEPT ![t] = p]
           /\ \/ /\ pc[t] = "lockChange" /\ p \in {"sorry", "sibling", "accept"}
                 /\ p # "sorry" => run[v] = "on"
              \/ /\ pc[t] = "lockFlush" /\ p \in {"sorry", "unforced", "drain"}
                 /\ draining[v] => p # "drain"
    BY <1>1 DEF Lock, Goto
  <1>3. /\ gate[v] = Nobody /\ gate' = [gate EXCEPT ![v] = t] /\ active' = active /\ run' = run
        /\ UNCHANGED <<mounted, bar, sequences, draining, vol, on, mark,
                       asked, exit, calls, faults>>
    BY <1>1 DEF Lock, Free
  <1>4. CallerData(t, v)
    BY <1>3, CallerStill
  <1>5. /\ gate' \in [Volume -> Thread \cup {Nobody}] /\ gate'[v] = t
        /\ \A w \in Volume \ {v} : gate'[w] = gate[w]
    BY <1>3, CallerTyped
  <1>6. accepted'[v] = accepted[v]
    BY <1>3 DEF sequences
  <1>7. CallerPlace(t, v, p)
    BY <1>2, <1>3, <1>5, <1>6, CallerTyped DEF CallerPlace, CallerPcs, Committing, Ungated
  <1>8. QED
    BY <1>1, <1>4, <1>7, CallerMoves

\* No sibling owes.
LEMMA NoneOwingKeeps ==
    ASSUME IInv, NEW t \in Caller, NoneOwing(t)
    PROVE  IInv'
  <1>1. PICK v \in Volume : v = vol[t]
    BY CallerTyped
  <1>2. /\ pc[t] = "sibling" /\ pc' = [pc EXCEPT ![t] = "accept"] /\ gate' = gate
        /\ active' = active /\ run' = run
        /\ UNCHANGED <<mounted, bar, sequences, draining, vol, on, mark,
                       asked, exit, calls, faults>>
    BY DEF NoneOwing, Goto, locks
  <1>3. CallerData(t, v)
    BY <1>2, CallerStill
  <1>4. accepted'[v] = accepted[v]
    BY <1>2 DEF sequences
  <1>5. CallerPlace(t, v, "accept")
    BY <1>1, <1>2, <1>4, CallerHolds
  <1>6. QED
    BY <1>1, <1>3, <1>5, CallerMoves

\* A change is accepted and a commit requested.
LEMMA AcceptQueuedKeeps ==
    ASSUME IInv, NEW t \in Caller, AcceptQueued(t)
    PROVE  IInv'
  <1>1. PICK v \in Volume : v = vol[t]
    BY CallerTyped
  <1>2. /\ pc[t] = "accept" /\ wal[v] # "failed" /\ pc' = [pc EXCEPT ![t] = "closed"]
        /\ accepted' = [accepted EXCEPT ![v] = @ + 1]
        /\ bar' = [bar EXCEPT ![v] = Requested(@, accepted'[v])]
        /\ UNCHANGED <<mounted, published, durable, logged, wal, run, gate, active, draining,
                       vol, on, mark, asked, exit, calls, faults>>
    BY <1>1 DEF AcceptQueued, Goto, locks
  <1>3. accepted[v] + 1 \in Sequence
    BY <1>1, <1>2, RoomToAccept DEF Admitted
  <1>4. /\ accepted' \in [Volume -> Sequence] /\ accepted'[v] = accepted[v] + 1
        /\ \A w \in Volume \ {v} : accepted'[w] = accepted[w]
    BY <1>2, <1>3, CallerTyped
  <1> DEFINE c == Requested(bar[v], accepted'[v])
  <1>5. /\ c \in Barrier /\ bar' = [bar EXCEPT ![v] = c]
        /\ c.reqTarget = bar[v].reqTarget \/ c.reqTarget = accepted'[v]
        /\ c.inTarget = bar[v].inTarget /\ c.inFlight = bar[v].inFlight
        /\ c.completed = bar[v].completed /\ c.failed = bar[v].failed
    <2>1. accepted'[v] \in Sequence /\ bar[v] \in Barrier
      BY <1>3, <1>4, CallerTyped
    <2>2. QED
      BY <1>2, <2>1, RequestedFacts
  <1> HIDE DEF c
  <1>6. bar' \in [Volume -> Barrier] /\ bar'[v] = c /\ \A w \in Volume \ {v} : bar'[w] = bar[w]
    BY <1>5, CallerTyped
  <1>7. logged[v] <= accepted'[v] /\ c.reqTarget <= accepted'[v]
    BY <1>4, <1>5, CallerTyped
  <1>8. CallerData(t, v)
    BY <1>2, <1>4, <1>5, <1>6, <1>7, CallerTyped DEF CallerData
  <1>9. CallerPlace(t, v, "closed")
    <2>1. gate' = gate /\ active' = active
      BY <1>2
    <2>2. QED
      BY <1>1, <1>2, <2>1, CallerAnswers
  <1>10. QED
    BY <1>1, <1>8, <1>9, CallerMoves

\* A change is accepted and its flush waited for.
LEMMA AcceptGroupedKeeps ==
    ASSUME IInv, NEW t \in Caller, AcceptGrouped(t)
    PROVE  IInv'
  <1>1. PICK v \in Volume : v = vol[t]
    BY CallerTyped
  <1>2. /\ pc[t] = "accept" /\ wal[v] # "failed" /\ pc' = [pc EXCEPT ![t] = "walWait"]
        /\ accepted' = [accepted EXCEPT ![v] = @ + 1]
        /\ mark' = [mark EXCEPT ![t] = accepted'[v]]
        /\ gate' = [gate EXCEPT ![v] = Nobody]
        /\ UNCHANGED <<mounted, bar, published, durable, logged, wal, run, active, draining,
                       vol, on, asked, exit, calls, faults>>
    BY <1>1 DEF AcceptGrouped, Goto
  <1>3. accepted[v] + 1 \in Sequence
    BY <1>1, <1>2, RoomToAccept DEF Admitted
  <1>4. /\ accepted' \in [Volume -> Sequence] /\ accepted'[v] = accepted[v] + 1
        /\ \A w \in Volume \ {v} : accepted'[w] = accepted[w]
    BY <1>2, <1>3, CallerTyped
  <1>5. /\ mark' \in [Thread -> Sequence] /\ mark'[t] = accepted'[v]
        /\ \A u \in Thread \ {t} : mark'[u] = mark[u]
    BY <1>2, <1>3, <1>4, CallerTyped
  <1>6. /\ logged[v] <= accepted'[v] /\ bar[v].reqTarget <= accepted'[v]
        /\ mark'[t] <= accepted'[v]
    BY <1>4, <1>5, CallerTyped
  <1>7. CallerData(t, v)
    BY <1>2, <1>4, <1>5, <1>6, CallerTyped DEF CallerData
  <1>8. /\ gate' \in [Volume -> Thread \cup {Nobody}] /\ \A w \in Volume \ {v} : gate'[w] = gate[w]
        /\ gate[v] = t /\ active' = active
    BY <1>1, <1>2, CallerTyped DEF Ungated
  <1>9. CallerPlace(t, v, "walWait")
    BY <1>2, <1>6, <1>8, CallerTyped DEF CallerPlace, CallerPcs, Committing, Ungated
  <1>10. QED
    BY <1>1, <1>7, <1>9, CallerMoves

\* A change is accepted inside the coordinator's commit; or its record fails.
LEMMA AcceptInCommitKeeps ==
    ASSUME IInv, NEW t \in Caller, AcceptInCommit(t)
    PROVE  IInv'
  <1>1. PICK v \in Volume : v = vol[t]
    BY CallerTyped
  <1>2. /\ pc[t] = "accept" /\ wal[v] # "failed" /\ gate' = gate /\ active' = active
        /\ accepted' = [accepted EXCEPT ![v] = @ + 1]
        /\ UNCHANGED <<mounted, published, durable, draining, vol, on, mark, asked, exit, calls>>
    BY <1>1 DEF AcceptInCommit, locks
  <1>3. accepted[v] + 1 \in Sequence
    BY <1>1, <1>2, RoomToAccept DEF Admitted
  <1>4. /\ accepted' \in [Volume -> Sequence] /\ accepted'[v] = accepted[v] + 1
        /\ \A w \in Volume \ {v} : accepted'[w] = accepted[w]
    BY <1>2, <1>3, CallerTyped
  <1>5. ASSUME logged' = [logged EXCEPT ![v] = accepted'[v]],
               bar' = [bar EXCEPT ![v] = Requested(@, accepted'[v])],
               pc' = [pc EXCEPT ![t] = "closed"], UNCHANGED <<wal, run, faults>>
        PROVE  IInv'
    <2> DEFINE c == Requested(bar[v], accepted'[v])
    <2>1. /\ c \in Barrier /\ bar' = [bar EXCEPT ![v] = c]
          /\ c.reqTarget = bar[v].reqTarget \/ c.reqTarget = accepted'[v]
          /\ c.inTarget = bar[v].inTarget /\ c.inFlight = bar[v].inFlight
          /\ c.completed = bar[v].completed /\ c.failed = bar[v].failed
      <3>1. accepted'[v] \in Sequence /\ bar[v] \in Barrier
        BY <1>3, <1>4, CallerTyped
      <3>2. QED
        BY <1>5, <3>1, RequestedFacts
    <2> HIDE DEF c
    <2>2. bar' \in [Volume -> Barrier] /\ bar'[v] = c /\ \A w \in Volume \ {v} : bar'[w] = bar[w]
      BY <2>1, CallerTyped
    <2>3. /\ logged' \in [Volume -> Sequence] /\ logged'[v] = accepted'[v]
          /\ \A w \in Volume \ {v} : logged'[w] = logged[w]
      BY <1>3, <1>4, <1>5, CallerTyped
    <2>4. logged'[v] <= accepted'[v] /\ c.reqTarget <= accepted'[v]
      BY <1>4, <2>1, <2>3, CallerTyped
    <2>5. CallerData(t, v)
      BY <1>2, <1>4, <1>5, <2>1, <2>2, <2>3, <2>4, CallerTyped DEF CallerData
    <2>6. CallerPlace(t, v, "closed")
      BY <1>1, <1>2, <1>5, CallerAnswers
    <2>7. QED
      BY <1>1, <2>5, <2>6, CallerMoves
  <1>6. ASSUME Fault, wal' = [wal EXCEPT ![v] = "failed"], Degrade(v),
               pc' = [pc EXCEPT ![t] = "sorry"], UNCHANGED <<logged, bar>>
        PROVE  IInv'
    <2>1. /\ wal' \in [Volume -> {"fine", "uncleaned", "failed"}] /\ wal'[v] = "failed"
          /\ \A w \in Volume \ {v} : wal'[w] = wal[w]
      BY <1>6, CallerTyped
    <2>2. faults' \in 0 .. MaxFaults
      BY <1>6, CallerTyped, FaultFacts
    <2>3. /\ run' \in [Volume -> {"on", "recovering", "off"}] /\ run'[v] # "on"
          /\ \A w \in Volume \ {v} : run'[w] = run[w]
      BY <1>6, CallerTyped, DegradeFacts
    <2>4. logged[v] <= accepted'[v] /\ bar[v].reqTarget <= accepted'[v]
      BY <1>4, CallerTyped
    <2>5. CallerData(t, v)
      BY <1>2, <1>4, <1>6, <2>1, <2>2, <2>3, <2>4, CallerTyped DEF CallerData
    <2>6. CallerPlace(t, v, "sorry")
      BY <1>1, <1>2, <1>6, CallerAnswers
    <2>7. QED
      BY <1>1, <2>5, <2>6, CallerMoves
  <1>7. QED
    BY <1>1, <1>5, <1>6 DEF AcceptInCommit, Goto

\* A change is refused.
LEMMA AcceptRefusedKeeps ==
    ASSUME IInv, NEW t \in Caller, AcceptRefused(t)
    PROVE  IInv'
  <1>1. PICK v \in Volume : v = vol[t]
    BY CallerTyped
  <1>2. /\ pc[t] = "accept" /\ pc' = [pc EXCEPT ![t] = "sorry"] /\ gate' = gate
        /\ active' = active /\ (run' = run \/ Degrade(v))
        /\ UNCHANGED <<mounted, bar, sequences, draining, vol, on, mark,
                       asked, exit, calls, faults>>
    BY <1>1 DEF AcceptRefused, Goto, locks
  <1>3. CallerData(t, v)
    BY <1>2, CallerStill
  <1>4. CallerPlace(t, v, "sorry")
    BY <1>1, <1>2, CallerAnswers
  <1>5. QED
    BY <1>1, <1>3, <1>4, CallerMoves

\* A callback learns what became of its record; it does not hold the gate.
LEMMA WaitForDurabilityKeeps ==
    ASSUME IInv, NEW t \in Caller, WaitForDurability(t)
    PROVE  IInv'
  <1>1. PICK v \in Volume : v = vol[t]
    BY CallerTyped
  <1>2. /\ pc[t] = "walWait" /\ gate' = gate /\ active' = active /\ accepted' = accepted
        /\ UNCHANGED <<mounted, bar, published, durable, run, draining, vol, on, mark, asked,
                       exit, calls>>
    BY DEF WaitForDurability, locks
  <1>3. mark[t] \in Nat /\ mark[t] <= accepted[v]
    BY <1>1, <1>2, CallerTyped
  <1>4. PICK p \in {"logged", "unlogged"} :
           /\ pc' = [pc EXCEPT ![t] = p]
           /\ \/ Flushed(v, mark[t]) /\ faults' = faults
              \/ NotFlushed(v, mark[t])
    BY <1>1 DEF WaitForDurability, Goto
  <1>5. /\ logged' \in [Volume -> Sequence] /\ logged'[v] <= accepted[v]
        /\ \A w \in Volume \ {v} : logged'[w] = logged[w]
        /\ wal' \in [Volume -> {"fine", "uncleaned", "failed"}]
        /\ wal[v] = "failed" => wal'[v] = "failed"
        /\ \A w \in Volume \ {v} : wal'[w] = wal[w]
        /\ faults' \in 0 .. MaxFaults
    <2>1. CASE Flushed(v, mark[t]) /\ faults' = faults
      BY <1>3, <2>1, FlushedFacts, CallerTyped
    <2>2. CASE NotFlushed(v, mark[t])
      BY <1>3, <2>2, NotFlushedFacts, CallerTyped
    <2>3. QED
      BY <1>4, <2>1, <2>2
  <1>6. CallerData(t, v)
    BY <1>2, <1>5, CallerTyped DEF CallerData
  <1>7. CallerPlace(t, v, p)
    BY <1>2, <1>3, <1>4, CallerTyped DEF CallerPlace, CallerPcs, Committing, Ungated
  <1>8. QED
    BY <1>1, <1>6, <1>7, CallerMoves

\* The gate is taken again, and a commit requested or the failure latched.
LEMMA RequestDeferredKeeps ==
    ASSUME IInv, NEW t \in Caller, RequestDeferred(t)
    PROVE  IInv'
  <1>1. PICK v \in Volume : v = vol[t]
    BY CallerTyped
  <1>2. /\ gate[v] = Nobody /\ gate' = [gate EXCEPT ![v] = t] /\ active' = active
        /\ accepted' = accepted
        /\ UNCHANGED <<mounted, sequences, draining, vol, on, mark, asked, exit, calls, faults>>
    BY <1>1 DEF RequestDeferred, Free, sequences
  <1>3. /\ gate' \in [Volume -> Thread \cup {Nobody}] /\ gate'[v] = t
        /\ \A w \in Volume \ {v} : gate'[w] = gate[w]
    BY <1>2, CallerTyped
  <1>4. ASSUME pc[t] = "logged", bar' = [bar EXCEPT ![v] = Requested(@, mark[t])],
               pc' = [pc EXCEPT ![t] = "closed"], run' = run
        PROVE  IInv'
    <2> DEFINE c == Requested(bar[v], mark[t])
    <2>1. mark[t] \in Sequence /\ bar[v] \in Barrier /\ mark[t] <= accepted[v]
      BY <1>1, <1>4, CallerTyped
    <2>2. /\ c \in Barrier /\ bar' = [bar EXCEPT ![v] = c]
          /\ c.reqTarget = bar[v].reqTarget \/ c.reqTarget = mark[t]
          /\ c.inTarget = bar[v].inTarget /\ c.inFlight = bar[v].inFlight
          /\ c.completed = bar[v].completed /\ c.failed = bar[v].failed
      BY <1>4, <2>1, RequestedFacts
    <2> HIDE DEF c
    <2>3. bar' \in [Volume -> Barrier] /\ bar'[v] = c /\ \A w \in Volume \ {v} : bar'[w] = bar[w]
      BY <2>2, CallerTyped
    <2>4. c.reqTarget <= accepted[v] /\ logged[v] <= accepted[v]
      BY <2>1, <2>2, CallerTyped
    <2>5. logged' = logged /\ wal' = wal /\ published' = published /\ durable' = durable
      BY <1>2 DEF sequences
    <2>6. CallerData(t, v)
      BY <1>2, <1>4, <2>2, <2>3, <2>4, <2>5, CallerTyped DEF CallerData
    <2>7. CallerPlace(t, v, "closed")
      BY <1>2, <1>3, <1>4, CallerTyped DEF CallerPlace, CallerPcs, Committing, Ungated
    <2>8. QED
      BY <1>1, <2>6, <2>7, CallerMoves
  <1>5. ASSUME pc[t] = "unlogged", Degrade(v), pc' = [pc EXCEPT ![t] = "sorry"], bar' = bar
        PROVE  IInv'
    <2>1. CallerData(t, v)
      BY <1>2, <1>5, CallerStill
    <2>2. CallerPlace(t, v, "sorry")
      BY <1>2, <1>3, <1>5, CallerTyped DEF CallerPlace, CallerPcs, Committing, Ungated
    <2>3. QED
      BY <1>1, <2>1, <2>2, CallerMoves
  <1>6. QED
    BY <1>1, <1>4, <1>5 DEF RequestDeferred, Goto

\* A callback answers and leaves.
LEMMA LeaveKeeps ==
    ASSUME IInv, NEW t \in Caller, Leave(t)
    PROVE  IInv'
  <1>1. PICK v \in Volume : v = vol[t]
    BY CallerTyped
  <1>2. /\ pc[t] \in {"okay", "unforced", "closed", "sorry"} /\ pc' = [pc EXCEPT ![t] = "idle"]
        /\ gate' = [gate EXCEPT ![v] = Nobody] /\ active' = [active EXCEPT ![v] = @ \ {t}]
        /\ run' = run /\ accepted' = accepted
        /\ UNCHANGED <<mounted, bar, sequences, draining, vol, on, mark,
                       asked, exit, calls, faults>>
    BY <1>1 DEF Leave, Goto, sequences
  <1>3. CallerData(t, v)
    BY <1>2, CallerStill
  <1>4. /\ gate' \in [Volume -> Thread \cup {Nobody}] /\ \A w \in Volume \ {v} : gate'[w] = gate[w]
        /\ gate[v] = t
        /\ active' \in [Volume -> SUBSET Caller] /\ active'[v] = active[v] \ {t}
        /\ \A w \in Volume \ {v} : active'[w] = active[w]
    BY <1>1, <1>2, CallerTyped DEF Ungated
  <1>5. CallerPlace(t, v, "idle")
    BY <1>2, <1>4, CallerTyped DEF CallerPlace, CallerPcs, Committing, Ungated
  <1>6. QED
    BY <1>1, <1>3, <1>5, CallerMoves

\* A callback that drains a sibling nobody uses, or gives up.
LEMMA DrainSiblingKeeps ==
    ASSUME IInv, NEW t \in Caller, NEW w \in mounted, DrainSibling(t, w)
    PROVE  IInv'
  <1>0. /\ TypeOK /\ PlaceInv /\ GateInv /\ CloseInv /\ SequenceInv /\ MarkInv /\ PublishedInv
        /\ BarrierInv /\ GapInv /\ CallInv /\ FlushedIsPublished /\ ExitClean
    BY DEF IInv
  <1>1. PICK v \in Volume : v = vol[t]
    BY CallerTyped
  <1>2. /\ pc[t] = "sibling" /\ w \in Volume /\ w # v /\ on[t] = v
        /\ UNCHANGED <<mounted, bar, sequences, run, draining, vol, mark,
                       asked, exit, calls, faults>>
    <2>1. w \in Volume
      BY <1>0, Typed
    <2>2. pc[t] = "sibling" /\ w # v
      BY <1>1 DEF DrainSibling, Owing
    <2>3. on[t] = v
      BY <1>0, <1>1, <2>2 DEF PlaceInv, Committing
    <2>4. QED
      BY <2>1, <2>2, <2>3 DEF DrainSibling
  <1>3. /\ bar' = bar /\ accepted' = accepted /\ published' = published /\ durable' = durable
        /\ logged' = logged /\ wal' = wal /\ run' = run /\ draining' = draining /\ vol' = vol
        /\ mark' = mark /\ asked' = asked /\ exit' = exit /\ calls' = calls
    BY <1>2 DEF sequences
  <1>4. CASE pc' = [pc EXCEPT ![t] = "sorry"] /\ gate' = gate /\ active' = active /\ on' = on
    <2>1. CallerData(t, v)
      BY <1>2, <1>4, CallerStill
    <2>2. CallerPlace(t, v, "sorry")
      BY <1>1, <1>2, <1>3, <1>4, CallerHolds
    <2>3. QED
      BY <1>1, <2>1, <2>2, CallerMoves
  <1>5. ASSUME ~draining[w], active[w] = {}, gate[w] = Nobody,
               gate' = [gate EXCEPT ![w] = t], active' = [active EXCEPT ![w] = {t}],
               on' = [on EXCEPT ![t] = w], pc' = [pc EXCEPT ![t] = "drain"]
        PROVE  IInv'
    <2>1. /\ pc \in [Thread -> Pcs] /\ on \in [Thread -> Volume] /\ vol \in [Thread -> Volume]
          /\ t \in Thread /\ t \notin Workers /\ calls \in Nat /\ "drain" \in Pcs
      BY <1>0, Typed, Numbers, Kinds DEF Pcs, CallerPcs, Committing
    <2>2. /\ pc' \in [Thread -> Pcs] /\ pc'[t] = "drain" /\ \A u \in Thread \ {t} : pc'[u] = pc[u]
          /\ on' \in [Thread -> Volume] /\ on'[t] = w /\ \A u \in Thread \ {t} : on'[u] = on[u]
      BY <1>2, <1>5, <2>1
    <2>3. /\ gate' \in [Volume -> Thread \cup {Nobody}] /\ gate'[w] = t
          /\ \A x \in Volume \ {w} : gate'[x] = gate[x]
          /\ active' \in [Volume -> SUBSET Caller] /\ active'[w] = {t}
          /\ \A x \in Volume \ {w} : active'[x] = active[x]
      BY <1>2, <1>5, CallerTyped
    <2>4. /\ \A x \in Volume : /\ pc'[Worker(x)] = pc[Worker(x)] /\ pc'[Closer(x)] = pc[Closer(x)]
                               /\ on'[Worker(x)] = on[Worker(x)] /\ on'[Closer(x)] = on[Closer(x)]
          /\ \A u \in Caller \ {t} : u \in Thread /\ pc'[u] = pc[u] /\ on'[u] = on[u]
      BY <2>2, Kinds
    <2>5. TypeOK'
      BY <1>0, <1>2, <2>2, <2>3, Typed, TypedBack DEF sequences
    <2>6. PlaceInv'
      <3>1. "drain" \in CallerPcs /\ "drain" \in Committing
        BY DEF CallerPcs, Committing
      <3>2. QED
        BY <1>0, <1>3, <2>2, <2>4, <3>1 DEF PlaceInv
    <2>7. GateInv'
      <3>1. ASSUME NEW u \in Caller
            PROVE  /\ pc'[u] # "idle" => u \in active'[vol'[u]] /\ u \in active'[on'[u]]
                   /\ pc'[u] \notin Ungated => gate'[vol'[u]] = u /\ gate'[on'[u]] = u
        <4>1. CASE u = t
          <5>1. t \in active[v] /\ gate[v] = t
            BY <1>0, <1>1, <1>2 DEF GateInv, Ungated
          <5>2. QED
            BY <1>1, <1>2, <1>3, <2>2, <2>3, <4>1, <5>1
        <4>2. CASE u # t
          <5>1. /\ pc'[u] = pc[u] /\ on'[u] = on[u] /\ vol[u] \in Volume /\ on[u] \in Volume
                /\ u # Nobody
            BY <2>1, <2>4, <4>2, Kinds
          <5>2. CASE pc[u] = "idle"
            BY <5>1, <5>2 DEF Ungated
          <5>3. CASE pc[u] # "idle"
            <6>1. u \in active[vol[u]] /\ u \in active[on[u]]
              BY <1>0, <5>3 DEF GateInv
            <6>2. vol[u] # w /\ on[u] # w
              BY <1>5, <6>1
            <6>3. QED
              BY <1>0, <1>3, <2>3, <5>1, <6>1, <6>2 DEF GateInv
          <5>4. QED
            BY <5>2, <5>3
        <4>3. QED
          BY <4>1, <4>2
      <3>2. ASSUME NEW x \in Volume, pc'[Worker(x)] \in {"drain", "commit", "finalize"}
            PROVE  gate'[x] = Worker(x)
        <4>1. gate[x] = Worker(x) /\ Worker(x) # Nobody
          BY <1>0, <2>4, <3>2, Kinds DEF GateInv
        <4>2. QED
          BY <1>5, <2>3, <4>1
      <3>3. QED
        BY <3>1, <3>2 DEF GateInv
    <2>8. CloseInv'
      <3>1. \A x \in Volume : Closed(x)' = Closed(x)
        BY <1>3, <2>4 DEF Closed
      <3>2. ~Closed(w) /\ ~Closed(v)
        BY <1>0, <1>1, <1>2, <1>5 DEF CloseInv, Closed, Committing
      <3>3. ASSUME NEW x \in Volume, Closed(x), NEW u \in Caller, vol'[u] = x \/ on'[u] = x
            PROVE  pc'[u] \in {"idle", "lockFlush", "unforced", "sorry"}
        <4>1. u # t
          BY <1>1, <1>3, <2>2, <3>2, <3>3
        <4>2. QED
          BY <1>0, <1>3, <2>4, <3>3, <4>1 DEF CloseInv
      <3>4. QED
        BY <1>0, <1>3, <2>4, <3>1, <3>3 DEF CloseInv
    <2>9. SequenceInv'
      BY <1>0, <1>3 DEF SequenceInv
    <2>10. MarkInv'
      <3>1. ASSUME NEW u \in Caller
            PROVE  /\ pc'[u] \in {"walWait", "logged", "unlogged"} => mark'[u] <= accepted'[vol'[u]]
                   /\ pc'[u] = "lockFlush" \/ (pc'[u] \in Committing /\ on'[u] = vol'[u])
                          => asked'[u] <= accepted'[vol'[u]]
        <4>1. CASE u = t
          BY <1>1, <1>2, <1>3, <2>2, <4>1
        <4>2. CASE u # t
          BY <1>0, <1>3, <2>4, <4>2 DEF MarkInv
        <4>3. QED
          BY <4>1, <4>2
      <3>2. QED
        BY <1>0, <1>3, <2>4, <3>1 DEF MarkInv
    <2>11. PublishedInv'
      BY <1>0, <1>3, <2>2 DEF PublishedInv
    <2>12. \A x \in Volume, u \in Thread : Claims(u, x) => Claims(u, x)'
      BY <1>2, <2>1, <2>2 DEF Claims
    <2>13. BarrierInv'
      BY <1>0, <1>3, <2>12 DEF BarrierInv
    <2>14. \A u \in Caller : Admitted(u)' => Admitted(u)
      BY <1>2, <1>3, <2>4 DEF Admitted
    <2>15. GapInv'
      <3>1. \A x \in Volume : Gap(x)' = Gap(x)
        BY <1>3 DEF Gap
      <3>2. ASSUME NEW u \in Caller, Admitted(u)', Gap(vol[u])'
            PROVE  wal[vol[u]] = "failed"
        <4>1. Admitted(u) /\ Gap(vol[u])
          BY <1>3, <2>14, <3>2 DEF Gap
        <4>2. QED
          BY <1>0, <4>1 DEF GapInv
      <3>3. QED
        BY <1>0, <1>3, <2>12, <3>1, <3>2 DEF GapInv
    <2>16. CallInv'
      <3>1. \A x \in Volume : Pending(x)' \subseteq Pending(x)
        <4>1. \A u \in Caller : pc'[u] = "lockChange" => pc[u] = "lockChange"
          BY <2>2, <2>4
        <4>2. QED
          BY <1>3, <2>14, <4>1 DEF Pending
      <3>2. QED
        BY <1>0, <1>3, <2>1, <3>1, PendingShrinks
    <2>17. FlushedIsPublished'
      BY <1>0, <1>3, <2>2, <2>4 DEF FlushedIsPublished
    <2>18. ExitClean'
      BY <1>0, <1>3 DEF ExitClean
    <2>19. QED
      BY <2>5, <2>6, <2>7, <2>8, <2>9, <2>10, <2>11, <2>13, <2>15, <2>16, <2>17, <2>18 DEF IInv
  <1>6. QED
    BY <1>4, <1>5 DEF DrainSibling, Goto, Free

\* A callback enters: it is counted before it takes the gate, a change only by a
\* volume that is not shut down, and it brings a call of its own.
LEMMA Enters ==
    ASSUME IInv, NEW t \in Caller, NEW v \in Volume, NEW p \in {"lockChange", "lockFlush"},
           pc[t] = "idle", calls < MaxCalls, calls' = calls + 1,
           active' = [active EXCEPT ![v] = @ \cup {t}],
           vol' = [vol EXCEPT ![t] = v], on' = [on EXCEPT ![t] = v],
           pc' = [pc EXCEPT ![t] = p],
           p = "lockChange" => ~draining[v] /\ asked' = asked,
           p = "lockFlush" => asked' = [asked EXCEPT ![t] = accepted[v]],
           UNCHANGED <<mounted, bar, sequences, run, gate, draining, mark, exit, faults>>
    PROVE  IInv'
  <1>0. /\ TypeOK /\ PlaceInv /\ GateInv /\ CloseInv /\ SequenceInv /\ MarkInv /\ PublishedInv
        /\ BarrierInv /\ GapInv /\ CallInv /\ FlushedIsPublished /\ ExitClean
    BY DEF IInv
  <1>1. /\ pc \in [Thread -> Pcs] /\ on \in [Thread -> Volume] /\ vol \in [Thread -> Volume]
        /\ t \in Thread /\ t \notin Workers /\ calls \in Nat /\ p \in Pcs
        /\ asked \in [Thread -> Sequence] /\ accepted \in [Volume -> Sequence]
        /\ active \in [Volume -> SUBSET Caller]
    BY <1>0, Typed, Numbers, Kinds DEF Pcs, CallerPcs
  <1>2. /\ pc' \in [Thread -> Pcs] /\ pc'[t] = p /\ \A u \in Thread \ {t} : pc'[u] = pc[u]
        /\ vol' \in [Thread -> Volume] /\ vol'[t] = v /\ \A u \in Thread \ {t} : vol'[u] = vol[u]
        /\ on' \in [Thread -> Volume] /\ on'[t] = v /\ \A u \in Thread \ {t} : on'[u] = on[u]
    BY <1>1
  <1>3. /\ asked' \in [Thread -> Sequence] /\ \A u \in Thread \ {t} : asked'[u] = asked[u]
        /\ p = "lockFlush" => asked'[t] = accepted[v]
    BY <1>1
  <1>4. /\ active' \in [Volume -> SUBSET Caller] /\ t \in active'[v]
        /\ \A w \in Volume : active[w] \subseteq active'[w]
    BY <1>1
  <1>5. /\ \A w \in Volume : /\ pc'[Worker(w)] = pc[Worker(w)] /\ pc'[Closer(w)] = pc[Closer(w)]
                             /\ vol'[Worker(w)] = vol[Worker(w)] /\ on'[Worker(w)] = on[Worker(w)]
                             /\ vol'[Closer(w)] = vol[Closer(w)] /\ on'[Closer(w)] = on[Closer(w)]
        /\ \A u \in Caller \ {t} : /\ u \in Thread /\ pc'[u] = pc[u] /\ vol'[u] = vol[u]
                                   /\ on'[u] = on[u] /\ asked'[u] = asked[u]
    BY <1>2, <1>3, Kinds
  <1>6. /\ bar' = bar /\ accepted' = accepted /\ published' = published /\ durable' = durable
        /\ logged' = logged /\ wal' = wal /\ run' = run /\ gate' = gate /\ draining' = draining
        /\ mark' = mark /\ exit' = exit
    BY DEF sequences
  <1>7. TypeOK'
    <2>1. calls' \in Sequence
      BY <1>1, DeferredAssumption DEF Sequence
    <2>2. QED
      BY <1>0, <1>2, <1>3, <1>4, <2>1, Typed, TypedBack DEF sequences
  <1>8. PlaceInv'
    <2>1. p \in CallerPcs
      BY DEF CallerPcs
    <2>2. ASSUME NEW u \in Caller
          PROVE  pc'[u] \in CallerPcs /\ (on'[u] # vol'[u] => pc'[u] \in Committing)
      <3>1. CASE u = t
        BY <1>2, <2>1, <3>1
      <3>2. CASE u # t
        BY <1>0, <1>5, <3>2 DEF PlaceInv
      <3>3. QED
        BY <3>1, <3>2
    <2>3. QED
      BY <1>0, <1>5, <2>2 DEF PlaceInv
  <1>9. GateInv'
    <2>1. ASSUME NEW u \in Caller
          PROVE  /\ pc'[u] # "idle" => u \in active'[vol'[u]] /\ u \in active'[on'[u]]
                 /\ pc'[u] \notin Ungated => gate'[vol'[u]] = u /\ gate'[on'[u]] = u
      <3>1. CASE u = t
        BY <1>2, <1>4, <3>1 DEF Ungated
      <3>2. CASE u # t
        <4>1. /\ vol[u] \in Volume /\ on[u] \in Volume /\ pc'[u] = pc[u] /\ vol'[u] = vol[u]
              /\ on'[u] = on[u]
          BY <1>1, <1>5, <3>2
        <4>2. QED
          BY <1>0, <1>4, <1>6, <4>1 DEF GateInv
      <3>3. QED
        BY <3>1, <3>2
    <2>2. QED
      BY <1>0, <1>5, <1>6, <2>1 DEF GateInv
  <1>10. CloseInv'
    <2>1. \A w \in Volume : Closed(w)' = Closed(w)
      BY <1>5, <1>6 DEF Closed
    <2>2. Closed(v) => p = "lockFlush"
      BY <1>0 DEF CloseInv, Closed, Committing
    <2>3. ASSUME NEW w \in Volume, Closed(w), NEW u \in Caller, vol'[u] = w \/ on'[u] = w
          PROVE  pc'[u] \in {"idle", "lockFlush", "unforced", "sorry"}
      <3>1. CASE u = t
        BY <1>2, <2>2, <2>3, <3>1
      <3>2. CASE u # t
        BY <1>0, <1>5, <2>3, <3>2 DEF CloseInv
      <3>3. QED
        BY <3>1, <3>2
    <2>4. QED
      BY <1>0, <1>5, <1>6, <2>1, <2>3 DEF CloseInv
  <1>11. SequenceInv'
    BY <1>0, <1>6 DEF SequenceInv
  <1>12. MarkInv'
    <2>1. accepted[v] \in Nat
      BY <1>0, Numbers
    <2>2. ASSUME NEW u \in Caller
          PROVE  /\ pc'[u] \in {"walWait", "logged", "unlogged"} => mark'[u] <= accepted'[vol'[u]]
                 /\ pc'[u] = "lockFlush" \/ (pc'[u] \in Committing /\ on'[u] = vol'[u])
                        => asked'[u] <= accepted'[vol'[u]]
      <3>1. CASE u = t
        BY <1>2, <1>3, <1>6, <2>1, <3>1 DEF Committing
      <3>2. CASE u # t
        BY <1>0, <1>5, <1>6, <3>2 DEF MarkInv
      <3>3. QED
        BY <3>1, <3>2
    <2>3. QED
      BY <1>0, <1>5, <1>6, <2>2 DEF MarkInv
  <1>13. PublishedInv'
    BY <1>0, <1>2, <1>6 DEF PublishedInv
  <1>14. \A w \in Volume, u \in Thread : Claims(u, w) => Claims(u, w)'
    BY <1>1, <1>2 DEF Claims
  <1>15. BarrierInv'
    BY <1>0, <1>6, <1>14 DEF BarrierInv
  <1>16. ~Admitted(t)' /\ \A u \in Caller \ {t} : Admitted(u)' = Admitted(u)
    BY <1>2, <1>5 DEF Admitted
  <1>17. GapInv'
    <2>1. \A w \in Volume : Gap(w)' = Gap(w)
      BY <1>6 DEF Gap
    <2>2. ASSUME NEW u \in Caller, Admitted(u)', NEW w \in Volume, w = vol'[u], Gap(w)'
          PROVE  wal'[w] = "failed"
      <3>1. u # t /\ Admitted(u) /\ vol[u] = w /\ Gap(w)
        BY <1>5, <1>16, <2>1, <2>2
      <3>2. QED
        BY <1>0, <1>6, <3>1 DEF GapInv
    <2>3. \A w \in Volume : Gap(w)' =>
             wal'[w] = "failed" \/ run'[w] # "on" \/ \E u \in Thread : Claims(u, w)'
      BY <1>0, <1>6, <1>14, <2>1 DEF GapInv
    <2>4. ASSUME NEW u \in Caller
          PROVE  (Admitted(u) /\ Gap(vol[u]) => wal[vol[u]] = "failed")'
      <3>1. PICK w \in Volume : w = vol'[u]
        BY <1>2, Kinds
      <3>2. Admitted(u)' /\ Gap(w)' => wal'[w] = "failed"
        BY <2>2, <3>1
      <3>3. QED
        BY <3>1, <3>2 DEF Gap
    <2>5. QED
      BY <2>3, <2>4 DEF GapInv
  <1>18. CallInv'
    <2>1. ASSUME NEW w \in Volume
          PROVE  accepted'[w] + Cardinality(Pending(w)') <= calls'
      <3>1. Pending(w)' \subseteq Pending(w) \cup {t}
        <4>1. ASSUME NEW u \in Pending(w)', u # t
              PROVE  u \in Pending(w)
          BY <1>5, <1>16, <4>1 DEF Pending
        <4>2. QED
          BY <4>1
      <3>2. /\ IsFiniteSet(Pending(w) \cup {t})
            /\ Cardinality(Pending(w) \cup {t}) \in Nat
            /\ Cardinality(Pending(w) \cup {t}) <= Cardinality(Pending(w)) + 1
        <4>1. IsFiniteSet(Pending(w)) /\ Cardinality(Pending(w)) \in Nat
          BY PendingFinite
        <4>2. /\ IsFiniteSet(Pending(w) \cup {t})
              /\ Cardinality(Pending(w) \cup {t}) =
                    IF t \in Pending(w) THEN Cardinality(Pending(w))
                    ELSE Cardinality(Pending(w)) + 1
          BY <4>1, FS_AddElement
        <4>3. QED
          BY <4>1, <4>2
      <3>3. Cardinality(Pending(w)') <= Cardinality(Pending(w) \cup {t})
        BY <3>1, <3>2, FS_Subset
      <3>4. accepted[w] + Cardinality(Pending(w)) <= calls /\ accepted[w] \in Nat
        BY <1>0, Numbers DEF CallInv
      <3>5. QED
        BY <1>1, <1>6, <3>2, <3>3, <3>4, PendingFinite
    <2>2. QED
      BY <2>1 DEF CallInv
  <1>19. FlushedIsPublished'
    BY <1>0, <1>2, <1>5, <1>6 DEF FlushedIsPublished
  <1>20. ExitClean'
    BY <1>0, <1>6 DEF ExitClean
  <1>21. QED
    BY <1>7, <1>8, <1>9, <1>10, <1>11, <1>12, <1>13, <1>15, <1>17, <1>18, <1>19, <1>20 DEF IInv

\* A callback that changes something enters.
LEMMA EnterChangeKeeps ==
    ASSUME IInv, NEW t \in Caller, NEW v \in Volume, EnterChange(t, v)
    PROVE  IInv'
  <1>1. asked' = asked
    BY DEF EnterChange
  <1>2. QED
    BY <1>1, Enters DEF EnterChange, Goto

\* A flush enters.
LEMMA EnterFlushKeeps ==
    ASSUME IInv, NEW t \in Caller, NEW v \in Volume, EnterFlush(t, v)
    PROVE  IInv'
  BY Enters DEF EnterFlush, Goto

\* Every step of a callback outside its commit keeps the invariant.
LEMMA CallbackKeeps ==
    ASSUME IInv, NEW t \in Caller, Callback(t)
    PROVE  IInv'
  BY LockKeeps, NoneOwingKeeps, DrainSiblingKeeps, AcceptQueuedKeeps, AcceptGroupedKeeps,
     AcceptInCommitKeeps, AcceptRefusedKeeps, WaitForDurabilityKeeps, RequestDeferredKeeps,
     LeaveKeeps DEF Callback

---------------------------------------------------------------------------
(* The invariant.                                                          *)

\* A host that has just mounted its volumes.
LEMMA InitHolds ==
    ASSUME Init
    PROVE  IInv
  <1>1. /\ 0 \in Sequence /\ 0 \in Nat /\ 0 \in 0 .. MaxFaults
        /\ Direct \in Volume /\ Volume \in SUBSET Volume /\ {Direct} \in SUBSET Volume
    BY DeferredAssumption DEF Sequence
  <1>2. /\ \A t \in Caller : t \in Thread /\ t \notin Workers /\ pc[t] = "idle" /\ vol[t] = Direct
        /\ \A v \in Volume : /\ pc[Worker(v)] = "wait" /\ vol[Worker(v)] = v
                             /\ pc[Closer(v)] = "up" /\ vol[Closer(v)] = v
    <2>1. \A v \in Volume : Worker(v)[2] = v /\ Closer(v)[2] = v
      BY DEF Worker, Closer
    <2>2. \A t \in Caller : t \in Thread /\ t \notin Workers /\ pc[t] = "idle" /\ vol[t] = Direct
      BY Kinds DEF Init
    <2>3. ASSUME NEW v \in Volume
          PROVE  /\ pc[Worker(v)] = "wait" /\ vol[Worker(v)] = v
                 /\ pc[Closer(v)] = "up" /\ vol[Closer(v)] = v
      <3>1. /\ Worker(v) \in Thread /\ Worker(v) \in Workers /\ Worker(v) \notin Caller
            /\ Closer(v) \in Thread /\ Closer(v) \notin Workers /\ Closer(v) \notin Caller
        BY Kinds
      <3>2. pc[Worker(v)] = "wait" /\ pc[Closer(v)] = "up"
        BY <3>1 DEF Init
      <3>3. vol[Worker(v)] = Worker(v)[2] /\ vol[Closer(v)] = Closer(v)[2]
        BY <3>1 DEF Init
      <3>4. QED
        BY <2>1, <3>2, <3>3
    <2>4. QED
      BY <2>2, <2>3
  <1>3. /\ on = vol /\ \A v \in Volume : /\ accepted[v] = 0 /\ published[v] = 0 /\ durable[v] = 0
                                         /\ logged[v] = 0 /\ wal[v] = "fine" /\ run[v] = "on"
                                         /\ ~draining[v] /\ exit[v] = 99
                                         /\ ~bar[v].inFlight /\ bar[v].failed = 0
                                         /\ bar[v].completed = 0 /\ bar[v].reqTarget = 0
                                         /\ bar[v].inTarget = 0
        /\ \A t \in Thread : mark[t] = 0 /\ asked[t] = 0
        /\ calls = 0
    BY DEF Init
  <1>4. \A t \in Thread : /\ pc[t] \in {"idle", "wait", "up"} /\ vol[t] \in Volume
    BY <1>1, <1>2, Kinds
  <1>5. TypeOK
    <2>1. pc \in [Thread -> {"idle", "wait", "up"}]
      BY <1>4 DEF Init
    <2>2. vol \in [Thread -> Volume] /\ on \in [Thread -> Volume]
      BY <1>3, <1>4 DEF Init
    <2>3. bar \in [Volume -> Barrier]
      BY <1>1 DEF Init, Barrier
    <2>4. /\ mounted \in SUBSET Volume /\ accepted \in [Volume -> Sequence]
          /\ published = accepted /\ durable = accepted /\ logged = accepted
          /\ wal \in [Volume -> {"fine", "uncleaned", "failed"}]
          /\ run \in [Volume -> {"on", "recovering", "off"}]
          /\ gate \in [Volume -> Thread \cup {Nobody}] /\ active \in [Volume -> SUBSET Caller]
          /\ draining \in [Volume -> BOOLEAN]
          /\ mark \in [Thread -> Sequence] /\ asked \in [Thread -> Sequence]
          /\ exit \in [Volume -> {0, 9, 10, 11, 99}] /\ calls \in Sequence
          /\ faults \in 0 .. MaxFaults
      BY <1>1 DEF Init
    <2>5. QED
      BY <2>1, <2>2, <2>3, <2>4 DEF TypeOK, Barrier
  <1>6. PlaceInv
    BY <1>2, <1>3 DEF PlaceInv, CallerPcs, WorkerPcs, CloserPcs
  <1>7. GateInv /\ CloseInv
    BY <1>2, <1>3 DEF GateInv, CloseInv, Closed, Ungated, Committing
  <1>8. SequenceInv
    BY <1>1, <1>3 DEF SequenceInv
  <1>9. MarkInv
    BY <1>1, <1>2, <1>3, Kinds DEF MarkInv, Committing
  <1>10. PublishedInv /\ BarrierInv
    BY <1>3, <1>4 DEF PublishedInv, BarrierInv
  <1>11. \A v \in Volume : ~Gap(v)
    BY <1>1, <1>3 DEF Gap
  <1>12. GapInv
    BY <1>2, <1>4, <1>11, Kinds DEF GapInv
  <1>13. CallInv
    <2>1. \A v \in Volume : Pending(v) = {}
      BY <1>2, <1>3 DEF Pending, Admitted
    <2>2. \A v \in Volume : Cardinality(Pending(v)) = 0
      <3>1. Cardinality({}) = 0
        BY FS_EmptySet
      <3>2. QED
        BY <2>1, <3>1
    <2>3. QED
      BY <1>3, <2>2 DEF CallInv
  <1>14. FlushedIsPublished /\ ExitClean
    BY <1>2, <1>3 DEF FlushedIsPublished, ExitClean
  <1>15. QED
    BY <1>5, <1>6, <1>7, <1>8, <1>9, <1>10, <1>12, <1>13, <1>14 DEF IInv

\* Every step keeps the invariant.
LEMMA StepKeeps ==
    ASSUME IInv, [Next]_vars
    PROVE  IInv'
  <1>1. mounted \subseteq Volume
    BY Typed DEF IInv
  <1>2. ASSUME NEW t \in Caller, NEW v \in mounted, EnterChange(t, v) \/ EnterFlush(t, v)
        PROVE  IInv'
    BY <1>1, <1>2, EnterChangeKeeps, EnterFlushKeeps
  <1>3. ASSUME NEW t \in Caller, Callback(t)
        PROVE  IInv'
    BY <1>3, CallbackKeeps
  <1>4. ASSUME NEW t \in Thread, Draining(t)
        PROVE  IInv'
    BY <1>4, DrainingKeeps
  <1>5. ASSUME NEW v \in mounted, WorkerStep(v) \/ BeginShutdown(v) \/ CloserStep(v)
        PROVE  IInv'
    <2>1. v \in Volume
      BY <1>1
    <2>2. CASE WorkerStep(v)
      BY <2>1, <2>2, WorkerStepKeeps
    <2>3. CASE BeginShutdown(v)
      BY <2>1, <2>3, BeginShutdownKeeps
    <2>4. CASE CloserStep(v)
      BY <2>1, <2>4, CallbacksDrainedKeeps, StopWorkerKeeps, JoinWorkerKeeps DEF CloserStep
    <2>5. QED
      BY <1>5, <2>2, <2>3, <2>4
  <1>6. CASE UNCHANGED vars
    BY <1>6 DEF vars, sequences, locks, threads, IInv, TypeOK, PlaceInv, GateInv, CloseInv, Closed,
                SequenceInv, MarkInv, PublishedInv, Claims, BarrierInv, Gap, Admitted, GapInv,
                Pending, CallInv, FlushedIsPublished, ExitClean
  <1>7. QED
    BY <1>2, <1>3, <1>4, <1>5, <1>6 DEF Next

\* The invariant holds in every state of every behaviour.
THEOREM DeferredInvariant == Spec => []IInv
  <1>1. Init => IInv
    BY InitHolds
  <1>2. IInv /\ [Next]_vars => IInv'
    BY StepKeeps
  <1>3. QED
    BY <1>1, <1>2, PTL DEF Spec

\* The barriers, sequences, gates, threads and exit codes stay in their ranges; in
\* particular no volume accepts more changes than there were calls.
THEOREM DeferredTypeCorrect == Spec => []TypeOK
  <1>1. IInv => TypeOK
    BY DEF IInv
  <1>2. QED
    BY <1>1, DeferredInvariant, PTL

\* A flush that ran its commit and answers success finds all that was accepted
\* when it was called in a checkpoint, whoever made it.
THEOREM FlushesArePublished == Spec => []FlushedIsPublished
  <1>1. IInv => FlushedIsPublished
    BY DEF IInv
  <1>2. QED
    BY <1>1, DeferredInvariant, PTL

\* A shutdown that exits with 0 leaves nothing accepted outside a durable
\* checkpoint, and that stays so.
THEOREM CleanExits == Spec => []ExitClean
  <1>1. IInv => ExitClean
    BY DEF IInv
  <1>2. QED
    BY <1>1, DeferredInvariant, PTL

---------------------------------------------------------------------------
(* Behind a target that failed.                                            *)

\* A step after which the barrier of x is c, with the same completed target.
LEMMA BarrierOf ==
    ASSUME TypeOK, NEW x \in Volume, NEW c, bar' = [bar EXCEPT ![x] = c],
           c.completed = bar[x].completed
    PROVE  \A v \in Volume : bar'[v].completed = bar[v].completed
  <1>1. bar \in [Volume -> Barrier]
    BY Typed
  <1>2. QED
    BY <1>1

\* What a step does to a volume with a gap: nothing is accepted, and no barrier
\* reports the first target that failed, or a later one, as completed.
Stands(v) ==
    Gap(v) => accepted'[v] = accepted[v] /\ bar'[v].completed < bar[v].failed

\* A step that leaves both alone.
LEMMA StandsStill ==
    ASSUME IInv, accepted' = accepted,
           \A v \in Volume : bar'[v].completed = bar[v].completed
    PROVE  \A v \in Volume : Stands(v)
  <1>1. ASSUME NEW v \in Volume, Gap(v)
        PROVE  bar'[v].completed < bar[v].failed
    <2>1. /\ durable[v] \in Nat /\ bar[v].completed \in Nat /\ bar[v].failed \in Nat
          /\ bar[v].completed <= durable[v]
      BY Numbers DEF IInv, SequenceInv
    <2>2. QED
      BY <1>1, <2>1 DEF Gap
  <1>2. QED
    BY <1>1 DEF Stands

\* A change is accepted: its volume has no gap.
LEMMA AcceptStands ==
    ASSUME IInv, NEW t \in Caller, AcceptQueued(t) \/ AcceptGrouped(t) \/ AcceptInCommit(t)
    PROVE  \A v \in Volume : Stands(v)
  <1>1. PICK x \in Volume : x = vol[t]
    BY CallerTyped
  <1>2. /\ pc[t] = "accept" /\ wal[x] # "failed" /\ accepted' = [accepted EXCEPT ![x] = @ + 1]
        /\ \/ bar' = bar
           \/ bar' = [bar EXCEPT ![x] = Requested(@, accepted'[x])]
    BY <1>1 DEF AcceptQueued, AcceptGrouped, AcceptInCommit
  <1>3. ~Gap(x)
    BY <1>1, <1>2 DEF IInv, GapInv, Admitted
  <1>4. ASSUME NEW v \in Volume, v # x, Gap(v)
        PROVE  accepted'[v] = accepted[v] /\ bar'[v].completed < bar[v].failed
    <2>1. accepted'[v] = accepted[v] /\ bar'[v] = bar[v]
      BY <1>2, <1>4, CallerTyped
    <2>2. /\ durable[v] \in Nat /\ bar[v].completed \in Nat /\ bar[v].failed \in Nat
          /\ bar[v].completed <= durable[v]
      BY Numbers DEF IInv, SequenceInv
    <2>3. QED
      BY <1>4, <2>1, <2>2 DEF Gap
  <1>5. QED
    BY <1>3, <1>4 DEF Stands

\* The other steps of a callback.
LEMMA CallbackStands ==
    ASSUME IInv, NEW t \in Caller, Callback(t)
    PROVE  \A v \in Volume : Stands(v)
  <1>1. CASE AcceptQueued(t) \/ AcceptGrouped(t) \/ AcceptInCommit(t)
    BY <1>1, AcceptStands
  <1>2. CASE \/ Lock(t) \/ NoneOwing(t) \/ (\E w \in mounted : DrainSibling(t, w))
             \/ AcceptRefused(t) \/ WaitForDurability(t) \/ Leave(t)
    <2>1. accepted' = accepted /\ bar' = bar
      BY <1>2 DEF Lock, NoneOwing, DrainSibling, AcceptRefused, WaitForDurability, Leave, sequences
    <2>2. QED
      BY <2>1, StandsStill
  <1>3. CASE RequestDeferred(t)
    <2>1. PICK x \in Volume : x = vol[t]
      BY CallerTyped
    <2>2. /\ accepted' = accepted
          /\ bar' = bar \/ bar' = [bar EXCEPT ![x] = Requested(@, mark[t])]
      BY <1>3, <2>1 DEF RequestDeferred, sequences
    <2>3. Requested(bar[x], mark[t]).completed = bar[x].completed
      BY CallerTyped, RequestedFacts
    <2>4. \A v \in Volume : bar'[v].completed = bar[v].completed
      BY <2>2, <2>3, BarrierOf, CallerTyped
    <2>5. QED
      BY <2>2, <2>4, StandsStill
  <1>4. QED
    BY <1>1, <1>2, <1>3 DEF Callback

\* A barrier that begins is no barrier that completes.
LEMMA BegunStands ==
    ASSUME IInv, NEW t \in Thread, NEW n, NEW s, Begun(t, n, s)
    PROVE  \A v \in Volume : bar'[v].completed = bar[v].completed
  <1>1. PICK x \in Volume : x = on[t]
    BY CommitTyped
  <1>2. bar' = bar \/ bar' = [bar EXCEPT ![x] = Claimed(@)]
    BY <1>1 DEF Begun
  <1>3. Claimed(bar[x]).completed = bar[x].completed
    BY CommitTyped, ClaimedFacts
  <1>4. QED
    BY <1>2, <1>3, BarrierOf, CommitTyped

\* The steps of a commit; the end of a barrier does not complete a target at or
\* behind the first that failed.
LEMMA DrainingStands ==
    ASSUME IInv, NEW t \in Thread, Draining(t)
    PROVE  \A v \in Volume : Stands(v)
  <1>1. PICK x \in Volume : x = on[t]
    BY CommitTyped
  <1>2. /\ bar[x] \in Barrier /\ durable[x] \in Nat /\ accepted[x] \in Nat /\ TypeOK
        /\ bar \in [Volume -> Barrier]
    BY CommitTyped, Typed
  <1>3. Completed(bar[x], FALSE, durable[x]).completed = bar[x].completed
    BY <1>2, CompletedFacts
  <1>4. CASE Begin(t) \/ BarrierEnds(t)
    <2>1. /\ accepted' = accepted
          /\ bar' = bar \/ \E n, s : Begun(t, n, s)
      BY <1>4 DEF Begin, BarrierEnds, sequences
    <2>2. \A v \in Volume : bar'[v].completed = bar[v].completed
      BY <2>1, BegunStands
    <2>3. QED
      BY <2>1, <2>2, StandsStill
  <1>5. CASE Stopped(t) \/ Commit(t)
    <2>1. accepted' = accepted /\ bar' = bar
      BY <1>5 DEF Stopped, Commit, sequences
    <2>2. QED
      BY <2>1, StandsStill
  <1>6. CASE NotLogged(t) \/ CommitFails(t) \/ FinalizeFails(t)
    <2>1. accepted' = accepted /\ bar' = [bar EXCEPT ![x] = Completed(@, FALSE, durable[x])]
      BY <1>1, <1>6 DEF NotLogged, CommitFails, FinalizeFails
    <2>2. \A v \in Volume : bar'[v].completed = bar[v].completed
      BY <1>2, <1>3, <2>1, BarrierOf
    <2>3. QED
      BY <2>1, <2>2, StandsStill
  <1>7. CASE Drain(t)
    <2>1. /\ accepted' = accepted
          /\ \/ bar' = bar
             \/ bar' = [bar EXCEPT ![x] = Completed(@, FALSE, durable[x])]
             \/ bar' = [bar EXCEPT ![x] = Cleared(@)]
      BY <1>1, <1>7 DEF Drain, sequences
    <2>2. Cleared(bar[x]).completed = bar[x].completed
      BY <1>2, ClearedFacts
    <2>3. \A v \in Volume : bar'[v].completed = bar[v].completed
      BY <1>2, <1>3, <2>1, <2>2, BarrierOf
    <2>4. QED
      BY <2>1, <2>3, StandsStill
  <1>8. CASE Finalize(t)
    <2> DEFINE b == Completed(bar[x], TRUE, accepted[x])
    <2>1. /\ accepted' = accepted
          /\ \/ bar' = [bar EXCEPT ![x] = b]
             \/ bar' = [bar EXCEPT ![x] = Cleared(b)]
      BY <1>1, <1>8 DEF Finalize
    <2>2. b \in Barrier /\ (bar[x].failed # 0 /\ bar[x].completed < bar[x].failed =>
                              b.completed < bar[x].failed)
      BY <1>2, CompletedFacts
    <2> HIDE DEF b
    <2>3. Cleared(b).completed = b.completed
      BY <2>2, ClearedFacts
    <2>4. ASSUME NEW v \in Volume, Gap(v)
          PROVE  bar'[v].completed < bar[v].failed
      <3>1. /\ durable[v] \in Nat /\ bar[v].completed \in Nat /\ bar[v].failed \in Nat
            /\ bar[v].completed <= durable[v]
        BY Numbers DEF IInv, SequenceInv
      <3>2. bar[v].failed # 0 /\ bar[v].completed < bar[v].failed
        BY <2>4, <3>1 DEF Gap
      <3>3. CASE v = x
        BY <1>2, <2>1, <2>2, <2>3, <3>2, <3>3
      <3>4. CASE v # x
        BY <1>2, <2>1, <3>2, <3>4
      <3>5. QED
        BY <3>3, <3>4
    <2>5. QED
      BY <2>1, <2>4 DEF Stands
  <1>9. QED
    BY <1>4, <1>5, <1>6, <1>7, <1>8 DEF Draining

\* The steps of a worker, and of a shutdown.
LEMMA VolumeStands ==
    ASSUME IInv, NEW x \in Volume, WorkerStep(x) \/ BeginShutdown(x) \/ CloserStep(x)
    PROVE  \A v \in Volume : Stands(v)
  <1>1. bar[x] \in Barrier /\ durable[x] \in Nat /\ TypeOK
    BY Numbers DEF IInv
  <1> DEFINE b == Completed(bar[x], FALSE, durable[x])
  <1>2. b.completed = bar[x].completed /\ b \in Barrier
    BY <1>1, CompletedFacts
  <1>3. Claimed(bar[x]).completed = bar[x].completed
    BY <1>1, ClaimedFacts
  <1>4. accepted' = accepted
    BY DEF WorkerStep, CloserStep, BeginShutdown, Wake, FlushWal, FlushWalFails, TakeFailedTarget,
           LatchWalFailure, Claim, WorkerThrows, WorkerStops, CallbacksDrained, StopWorker,
           JoinWorker, sequences
  <1>5. CASE \/ Wake(x) \/ FlushWal(x) \/ FlushWalFails(x) \/ WorkerStops(x) \/ BeginShutdown(x)
             \/ CallbacksDrained(x)
    <2>1. bar' = bar
      BY <1>5 DEF Wake, FlushWal, FlushWalFails, WorkerStops, BeginShutdown, CallbacksDrained
    <2>2. QED
      BY <1>4, <2>1, StandsStill
  <1> HIDE DEF b
  <1>6. CASE LatchWalFailure(x) \/ Claim(x)
    <2>1. \/ bar' = bar \/ bar' = [bar EXCEPT ![x] = b] \/ bar' = [bar EXCEPT ![x] = Claimed(@)]
      BY <1>6 DEF LatchWalFailure, Claim, b
    <2>2. \A v \in Volume : bar'[v].completed = bar[v].completed
      BY <1>1, <1>2, <1>3, <2>1, BarrierOf
    <2>3. QED
      BY <1>4, <2>2, StandsStill
  <1>7. CASE TakeFailedTarget(x)
    <2> DEFINE n == IF bar[x].inFlight THEN bar[x].inTarget
                    ELSE Larger(mark[Worker(x)], bar[x].reqTarget)
               c == [bar[x] EXCEPT !.requested = FALSE, !.reqTarget = 0, !.inFlight = TRUE,
                                   !.inTarget = n]
    <2>1. bar' = [bar EXCEPT ![x] = c]
      BY <1>1, <1>7 DEF TakeFailedTarget, Barrier
    <2> HIDE DEF n
    <2>2. c.completed = bar[x].completed
      BY <1>1 DEF Barrier
    <2> HIDE DEF c
    <2>3. QED
      BY <1>1, <1>4, <2>1, <2>2, BarrierOf, StandsStill
  <1>8. CASE WorkerThrows(x)
    <2> DEFINE n == IF b.reqTarget # 0 /\ (b.failed = 0 \/ b.reqTarget < b.failed)
                    THEN b.reqTarget ELSE b.failed
               c == [b EXCEPT !.ok = FALSE, !.requested = FALSE, !.reqTarget = 0, !.stop = TRUE,
                              !.failed = n]
    <2>1. bar' = [bar EXCEPT ![x] = c]
      BY <1>2, <1>8 DEF WorkerThrows, Barrier, b
    <2> HIDE DEF n
    <2>2. c.completed = b.completed
      BY <1>2 DEF Barrier
    <2> HIDE DEF c
    <2>3. QED
      BY <1>1, <1>2, <1>4, <2>1, <2>2, BarrierOf, StandsStill
  <1>9. CASE StopWorker(x)
    <2> DEFINE c == [bar[x] EXCEPT !.stop = TRUE]
    <2>1. bar' = [bar EXCEPT ![x] = c]
      BY <1>9 DEF StopWorker
    <2>2. c.completed = bar[x].completed
      BY <1>1 DEF Barrier
    <2> HIDE DEF c
    <2>3. QED
      BY <1>1, <1>4, <2>1, <2>2, BarrierOf, StandsStill
  <1>10. CASE JoinWorker(x)
    <2> DEFINE c == [b EXCEPT !.stop = FALSE]
    <2>1. bar' = [bar EXCEPT ![x] = c]
      BY <1>10 DEF JoinWorker, b
    <2>2. c.completed = b.completed
      BY <1>2 DEF Barrier
    <2> HIDE DEF c
    <2>3. QED
      BY <1>1, <1>2, <1>4, <2>1, <2>2, BarrierOf, StandsStill
  <1>11. QED
    BY <1>5, <1>6, <1>7, <1>8, <1>9, <1>10 DEF WorkerStep, CloserStep

\* While the first target that failed is not durable, nothing more is accepted
\* behind it and no barrier reports it or a later target as completed.
THEOREM GapIsClosed == Spec => GapStands
  <1> DEFINE A == \A v \in Volume : LET first == bar[v].failed
                                    IN  durable[v] < first => /\ accepted'[v] = accepted[v]
                                                              /\ bar'[v].completed < first
  <1>1. ASSUME IInv, [Next]_vars
        PROVE  [A]_vars
    <2>1. CASE UNCHANGED vars
      BY <2>1
    <2>2. CASE Next
      <3>1. \A v \in Volume : Stands(v)
        <4>1. mounted \subseteq Volume
          BY <1>1, Typed DEF IInv
        <4>2. ASSUME NEW t \in Caller, NEW v \in mounted, EnterChange(t, v) \/ EnterFlush(t, v)
              PROVE  \A w \in Volume : Stands(w)
          <5>1. accepted' = accepted /\ bar' = bar
            BY <4>2 DEF EnterChange, EnterFlush, sequences
          <5>2. QED
            BY <1>1, <5>1, StandsStill
        <4>3. ASSUME NEW t \in Caller, Callback(t)
              PROVE  \A w \in Volume : Stands(w)
          BY <1>1, <4>3, CallbackStands
        <4>4. ASSUME NEW t \in Thread, Draining(t)
              PROVE  \A w \in Volume : Stands(w)
          BY <1>1, <4>4, DrainingStands
        <4>5. ASSUME NEW v \in mounted, WorkerStep(v) \/ BeginShutdown(v) \/ CloserStep(v)
              PROVE  \A w \in Volume : Stands(w)
          BY <1>1, <4>1, <4>5, VolumeStands
        <4>6. QED
          BY <2>2, <4>2, <4>3, <4>4, <4>5 DEF Next
      <3>2. QED
        BY <3>1 DEF Stands, Gap
    <2>3. QED
      BY <1>1, <2>1, <2>2
  <1> HIDE DEF A
  <1>2. Spec => [][A]_vars
    BY <1>1, DeferredInvariant, PTL DEF Spec
  <1>3. QED
    BY <1>2 DEF GapStands, A

=============================================================================
