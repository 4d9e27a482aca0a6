--------------------------- MODULE DeferredCommit ---------------------------
(***************************************************************************)
(* The threads of FsHost that bring accepted changes into a checkpoint:    *)
(* the callbacks (one that accepts a change and defers its commit, a flush *)
(* that forces it), each volume's deferred-commit worker, and the shutdown *)
(* of a volume.                                                            *)
(*                                                                         *)
(* A volume has a gate (mutation_callback_mutex), the admission of         *)
(* callbacks that a shutdown closes, and the barrier that is in flight     *)
(* while somebody commits.  A host mounts one volume directly, or several  *)
(* of one container; then a callback that is about to accept a change      *)
(* first drains the other volumes, and holds its own gate while it tries   *)
(* another one.                                                            *)
(*                                                                         *)
(* A commit and the end of its journal are one step each: the locks taken  *)
(* inside them are never held while a thread waits for a gate.             *)
(***************************************************************************)
EXTENDS Naturals, FiniteSets

CONSTANTS
    Volume,
    Direct,      \* the volume of a host that mounts only one
    Caller,      \* the threads that run callbacks
    Closing,     \* the volumes that are shut down
    Nobody,
    MaxCalls,    \* bound: callbacks
    MaxFaults    \* bound: commits, flushes and workers that fail

Worker(v) == <<"worker", v>>
Closer(v) == <<"closer", v>>
Workers   == {Worker(v) : v \in Volume}
Closers   == {Closer(v) : v \in Volume}
Thread    == Caller \cup Workers \cup Closers

ASSUME DeferredAssumption ==
    /\ Closing \subseteq Volume /\ Direct \in Volume
    /\ IsFiniteSet(Caller) /\ Caller \cap (Workers \cup Closers) = {} /\ Nobody \notin Thread
    /\ MaxCalls \in Nat /\ MaxFaults \in Nat

VARIABLES
    mounted,    \* the volumes of this host
    bar,        \* the barrier of a volume: the deferred_commit_... fields
    accepted,   \* accepted_sequence
    published,  \* the last sequence that a checkpoint holds
    durable,    \* apfs_durable_sequence
    logged,     \* deferred_wal_durable_sequence_
    wal,        \* "fine", "uncleaned" (cleaned is behind durable), "failed" for good
    run,        \* "on", "recovering" (recovery_active), "off" (no native writes)
    gate,       \* who holds mutation_callback_mutex
    active,     \* callbacks that entered and have not left
    draining,   \* the drain flag of mutation_admission_state
    pc, vol,    \* what a thread does, and for which volume
    on,         \* the volume whose commit it runs
    mark,       \* the sequence it accepted, saw requested or waits for
    asked,      \* accepted when its flush was called
    exit,       \* the exit code of a volume's shutdown
    calls, faults

sequences == <<accepted, published, durable, logged, wal>>
locks     == <<gate, active, draining>>
threads   == <<pc, vol, on, mark, asked>>
vars      == <<mounted, bar, sequences, run, locks, threads, exit, calls, faults>>

Larger(a, b) == IF a > b THEN a ELSE b

Several == Cardinality(mounted) > 1

Init ==
    /\ mounted \in {{Direct}, Volume}
    /\ bar = [v \in Volume |-> [requested |-> FALSE, reqTarget |-> 0, inFlight |-> FALSE,
                                inTarget |-> 0, completed |-> 0, failed |-> 0, ok |-> TRUE,
                                stop |-> FALSE]]
    /\ accepted = [v \in Volume |-> 0] /\ published = accepted /\ durable = accepted
    /\ logged = accepted /\ wal = [v \in Volume |-> "fine"]
    /\ run = [v \in Volume |-> "on"]
    /\ gate = [v \in Volume |-> Nobody] /\ active = [v \in Volume |-> {}]
    /\ draining = [v \in Volume |-> FALSE]
    /\ pc = [t \in Thread |-> CASE t \in Caller -> "idle" [] t \in Workers -> "wait" [] OTHER -> "up"]
    /\ vol = [t \in Thread |-> IF t \in Caller THEN Direct ELSE t[2]]
    /\ on = vol
    /\ mark = [t \in Thread |-> 0] /\ asked = [t \in Thread |-> 0]
    /\ exit = [v \in Volume |-> 99] /\ calls = 0 /\ faults = 0

---------------------------------------------------------------------------
Goto(t, p) == pc' = [pc EXCEPT ![t] = p]
Free(v)    == gate[v] = Nobody
Fault      == faults < MaxFaults /\ faults' = faults + 1

\* Seeded fault: under the policy BestEffort the host goes on serving writes.
DegradeNot(v) == run' \in {run, [run EXCEPT ![v] = "off"]}

(* Every failure of a commit or of its journal sets recovery_active; the   *)
(* policy FailClosed also turns the native writes off.                     *)
Degrade(v) == run' \in {[run EXCEPT ![v] = IF @ = "off" THEN "off" ELSE "recovering"],
                        [run EXCEPT ![v] = "off"]}

(* RequiresNativeApfsCheckpoint, and has_any_dirty_work.                   *)
Owes(v)  == accepted[v] > durable[v]
Dirty(v) == Owes(v) \/ wal[v] # "fine"

(* CompleteDeferredCommitBarrier; the first target that failed stays.      *)
Completed(b, success, sequence) ==
    LET good == /\ success /\ sequence >= b.inTarget
                /\ b.failed # 0 => b.inTarget # 0 /\ b.inTarget < b.failed
    IN  IF ~b.inFlight THEN b
        ELSE [b EXCEPT !.ok = good, !.inFlight = FALSE, !.inTarget = 0,
                       !.completed = IF good THEN Larger(@, b.inTarget) ELSE @,
                       !.failed = IF good \/ b.inTarget = 0 \/ (@ # 0 /\ @ <= b.inTarget)
                                  THEN @ ELSE b.inTarget]

Claimed(b) == [b EXCEPT !.requested = FALSE, !.reqTarget = 0, !.inFlight = TRUE,
                        !.inTarget = b.reqTarget]

(* ClearStaleNativeDirtyMarkerIfClean, for a volume that owes nothing.     *)
Cleared(b) == IF b.inFlight THEN b ELSE [b EXCEPT !.requested = FALSE, !.reqTarget = 0]

(* The caller that DrainNativeMutationsByPolicy, or the finalization after *)
(* it, returns to.                                                         *)
Return(t, ok) ==
    LET v == on[t]
    IN  CASE t \in Workers ->
               /\ Goto(t, "wait") /\ gate' = [gate EXCEPT ![v] = Nobody]
               /\ UNCHANGED <<active, on, exit>>
          [] t \in Closers ->
               /\ Goto(t, "done")
               /\ exit' = [exit EXCEPT ![v] = IF ok THEN 0 ELSE IF pc[t] = "finalize" THEN 11 ELSE 10]
               /\ UNCHANGED <<gate, active, on>>
          [] t \in Caller /\ v = vol[t] ->
               Goto(t, IF ok THEN "okay" ELSE "sorry") /\ UNCHANGED <<gate, active, on, exit>>
          [] OTHER ->
               /\ Goto(t, IF ok THEN "sibling" ELSE "sorry")
               /\ gate' = [gate EXCEPT ![v] = Nobody]
               /\ active' = [active EXCEPT ![v] = @ \ {t}]
               /\ on' = [on EXCEPT ![t] = vol[t]]
               /\ UNCHANGED exit

---------------------------------------------------------------------------
(* Callbacks.                                                              *)

EnterChange(t, v) ==
    /\ pc[t] = "idle" /\ calls < MaxCalls /\ ~draining[v]
    /\ calls' = calls + 1
    /\ active' = [active EXCEPT ![v] = @ \cup {t}]
    /\ vol' = [vol EXCEPT ![t] = v] /\ on' = [on EXCEPT ![t] = v]
    /\ Goto(t, "lockChange")
    /\ UNCHANGED <<mounted, bar, sequences, run, gate, draining, mark, asked, exit, faults>>

EnterFlush(t, v) ==
    /\ pc[t] = "idle" /\ calls < MaxCalls
    /\ calls' = calls + 1
    /\ active' = [active EXCEPT ![v] = @ \cup {t}]
    /\ vol' = [vol EXCEPT ![t] = v] /\ on' = [on EXCEPT ![t] = v]
    /\ asked' = [asked EXCEPT ![t] = accepted[v]]
    /\ Goto(t, "lockFlush")
    /\ UNCHANGED <<mounted, bar, sequences, run, gate, draining, mark, exit, faults>>

Lock(t) ==
    /\ Free(vol[t]) /\ gate' = [gate EXCEPT ![vol[t]] = t]
    /\ \/ /\ pc[t] = "lockChange"
          /\ Goto(t, IF run[vol[t]] # "on" THEN "sorry"
                     ELSE IF Several THEN "sibling" ELSE "accept")
       \/ /\ pc[t] = "lockFlush"
          /\ Goto(t, IF run[vol[t]] # "on" THEN "unforced"
                     ELSE IF draining[vol[t]] THEN "sorry" ELSE "drain")
    /\ UNCHANGED <<mounted, bar, sequences, run, active, draining, vol, on, mark, asked, exit,
                   calls, faults>>

(* What the census of the container says of the other volumes.             *)
Owing(v) == {w \in mounted \ {v} : Dirty(w)}

NoneOwing(t) ==
    /\ pc[t] = "sibling" /\ Owing(vol[t]) = {}
    /\ Goto(t, "accept")
    /\ UNCHANGED <<mounted, bar, sequences, run, locks, vol, on, mark, asked, exit, calls, faults>>

(* DrainManifestSiblingAcceptedWrites: a sibling that nobody uses is       *)
(* committed here; anything else is tried again until the deadline.        *)
DrainSibling(t, w) ==
    /\ pc[t] = "sibling" /\ w \in Owing(vol[t])
    /\ \/ /\ run[w] = "on" /\ ~draining[w] /\ active[w] = {} /\ Free(w)
          /\ gate' = [gate EXCEPT ![w] = t] /\ active' = [active EXCEPT ![w] = {t}]
          /\ on' = [on EXCEPT ![t] = w] /\ Goto(t, "drain")
       \/ Goto(t, "sorry") /\ UNCHANGED <<gate, active, on>>
    /\ UNCHANGED <<mounted, bar, sequences, run, draining, vol, mark, asked, exit, calls, faults>>

(* EnsureDeferredAcceptanceDurability, and its failure.                    *)
Flushed(v, target) ==
    /\ wal[v] = "failed" => logged[v] >= target
    /\ logged' = [logged EXCEPT ![v] = IF @ >= target THEN @ ELSE accepted[v]]
    /\ UNCHANGED wal

NotFlushed(v, target) ==
    /\ logged[v] < target
    /\ IF wal[v] = "failed" THEN UNCHANGED faults ELSE Fault
    /\ wal' = [wal EXCEPT ![v] = "failed"]
    /\ UNCHANGED logged

Requested(b, target) == [b EXCEPT !.requested = TRUE, !.reqTarget = Larger(@, target)]

\* Seeded fault: a record without its mutation takes a number as well.
AcceptTwice(t) ==
    LET v == vol[t]
    IN  /\ pc[t] = "accept" /\ ~Several /\ wal[v] # "failed"
        /\ accepted' = [accepted EXCEPT ![v] = @ + 2]
        /\ bar' = [bar EXCEPT ![v] = Requested(@, accepted'[v])]
        /\ Goto(t, "closed")
        /\ UNCHANGED <<mounted, published, durable, logged, wal, run, locks, vol, on, mark,
                       asked, exit,
                       calls, faults>>

(* A single close: appended to the log, which nobody waits for.            *)
AcceptQueued(t) ==
    LET v == vol[t]
    IN  /\ pc[t] = "accept" /\ ~Several /\ wal[v] # "failed"
        /\ accepted' = [accepted EXCEPT ![v] = @ + 1]
        /\ bar' = [bar EXCEPT ![v] = Requested(@, accepted'[v])]
        /\ Goto(t, "closed")
        /\ UNCHANGED <<mounted, published, durable, logged, wal, run, locks, vol, on, mark,
                       asked, exit,
                       calls, faults>>

(* A close that shares its flush with others: the gate is released while   *)
(* the thread waits for it.                                                *)
AcceptGrouped(t) ==
    LET v == vol[t]
    IN  /\ pc[t] = "accept" /\ ~Several /\ wal[v] # "failed"
        /\ accepted' = [accepted EXCEPT ![v] = @ + 1]
        /\ mark' = [mark EXCEPT ![t] = accepted'[v]]
        /\ gate' = [gate EXCEPT ![v] = Nobody]
        /\ Goto(t, "walWait")
        /\ UNCHANGED <<mounted, bar, published, durable, logged, wal, run, active, draining,
                       vol, on, asked,
                       exit, calls, faults>>

(* In a container of several volumes: inside the coordinator's commit,     *)
(* which refuses while another volume owes; the log is flushed.            *)
AcceptInCommit(t) ==
    LET v == vol[t]
    IN  /\ pc[t] = "accept" /\ Several /\ Owing(v) = {} /\ wal[v] # "failed"
        /\ accepted' = [accepted EXCEPT ![v] = @ + 1]
        /\ \/ /\ logged' = [logged EXCEPT ![v] = accepted'[v]]
              /\ bar' = [bar EXCEPT ![v] = Requested(@, accepted'[v])]
              /\ Goto(t, "closed") /\ UNCHANGED <<wal, run, faults>>
           \/ /\ Fault /\ wal' = [wal EXCEPT ![v] = "failed"]
              /\ Degrade(v) /\ Goto(t, "sorry") /\ UNCHANGED <<logged, bar>>
        /\ UNCHANGED <<mounted, published, durable, locks, vol, on, mark, asked, exit, calls>>

AcceptRefused(t) ==
    LET v == vol[t]
    IN  /\ pc[t] = "accept"
        /\ \/ Owing(v) # {} /\ UNCHANGED run
           \/ wal[v] = "failed" /\ Degrade(v)
        /\ Goto(t, "sorry")
        /\ UNCHANGED <<mounted, bar, sequences, locks, vol, on, mark, asked, exit, calls, faults>>

WaitForDurability(t) ==
    /\ pc[t] = "walWait"
    /\ \/ Flushed(vol[t], mark[t]) /\ Goto(t, "logged") /\ UNCHANGED faults
       \/ NotFlushed(vol[t], mark[t]) /\ Goto(t, "unlogged")
    /\ UNCHANGED <<mounted, bar, accepted, published, durable, run, locks, vol, on, mark,
                   asked, exit, calls>>

(* The gate is taken again; then RequestDeferredCloseCommit, or            *)
(* LatchGroupedDeferredAcceptanceFailure.                                  *)
RequestDeferred(t) ==
    /\ Free(vol[t])
    /\ gate' = [gate EXCEPT ![vol[t]] = t]
    /\ \/ /\ pc[t] = "logged"
          /\ bar' = [bar EXCEPT ![vol[t]] = Requested(@, mark[t])]
          /\ Goto(t, "closed") /\ UNCHANGED run
       \/ pc[t] = "unlogged" /\ Degrade(vol[t]) /\ Goto(t, "sorry") /\ UNCHANGED bar
    /\ UNCHANGED <<mounted, sequences, active, draining, vol, on, mark, asked, exit, calls,
                   faults>>

Leave(t) ==
    /\ t \in Caller /\ pc[t] \in {"okay", "unforced", "closed", "sorry"}
    /\ gate' = [gate EXCEPT ![vol[t]] = Nobody]
    /\ active' = [active EXCEPT ![vol[t]] = @ \ {t}]
    /\ Goto(t, "idle")
    /\ UNCHANGED <<mounted, bar, sequences, run, draining, vol, on, mark, asked, exit, calls,
                   faults>>

---------------------------------------------------------------------------
(* DrainNativeMutationsByPolicy and FinalizeMutationJournalBestEffort, for *)
(* any thread.                                                             *)

Drain(t) ==
    LET v == on[t]
    IN  /\ pc[t] = "drain"
        /\ \/ /\ Owes(v) /\ run[v] = "off"
              /\ bar' = [bar EXCEPT ![v] = Completed(@, FALSE, durable[v])]
              /\ Return(t, FALSE) /\ UNCHANGED run
           \/ /\ Dirty(v) /\ run[v] # "off"
              /\ Goto(t, IF t \in Workers THEN "commit" ELSE "begin")
              /\ UNCHANGED <<bar, run, gate, active, on, exit>>
           \/ /\ ~Owes(v) /\ (Dirty(v) => run[v] = "off")
              /\ IF Dirty(v) THEN UNCHANGED <<bar, run>>
                 ELSE /\ bar' = [bar EXCEPT ![v] = Cleared(@)]
                      /\ run' = [run EXCEPT ![v] = IF @ = "recovering" THEN "on" ELSE @]
              /\ Goto(t, "finalize") /\ UNCHANGED <<gate, active, on, exit>>
        /\ UNCHANGED <<mounted, sequences, draining, vol, mark, asked, calls, faults>>

(* BeginDeferredCommitBarrier of a thread that is not the worker.          *)
Begun(t, target, waited) ==
    LET v == on[t]
        b == bar[v]
        refused == \/ b.stop
                   \/ waited /\ ~b.ok
                   \/ b.failed # 0 /\ (target = 0 \/ b.failed <= target)
                   \/ target # 0 /\ b.completed < target /\ ~b.requested
                   \/ ~b.requested /\ ~b.ok
    IN  /\ IF refused THEN Return(t, FALSE)
           ELSE Goto(t, "commit") /\ UNCHANGED <<gate, active, on, exit>>
        /\ bar' = IF ~refused /\ b.requested THEN [bar EXCEPT ![v] = Claimed(@)] ELSE bar

Begin(t) ==
    LET b == bar[on[t]]
        target == Larger(b.inTarget, b.reqTarget)
    IN  /\ pc[t] = "begin"
        /\ mark' = [mark EXCEPT ![t] = target]
        /\ IF b.inFlight /\ ~b.stop
           THEN Goto(t, "waiting") /\ UNCHANGED <<bar, gate, active, on, exit>>
           ELSE Begun(t, target, FALSE)
        /\ UNCHANGED <<mounted, sequences, run, draining, vol, asked, calls, faults>>

BarrierEnds(t) ==
    /\ pc[t] = "waiting" /\ ~bar[on[t]].inFlight
    /\ Begun(t, mark[t], TRUE)
    /\ UNCHANGED <<mounted, sequences, run, draining, vol, mark, asked, calls, faults>>

Stopped(t) ==
    /\ pc[t] = "stopped"
    /\ Return(t, FALSE)
    /\ UNCHANGED <<mounted, bar, sequences, run, draining, vol, mark, asked, calls, faults>>

(* The log is flushed once more before the checkpoint; a callback that     *)
(* waits for it can no longer fail then.                                   *)
Commit(t) ==
    LET v == on[t]
    IN  /\ pc[t] = "commit" /\ wal[v] # "failed"
        /\ Flushed(v, accepted[v])
        /\ published' = [published EXCEPT ![v] = accepted[v]]
        /\ Goto(t, "finalize")
        /\ UNCHANGED <<mounted, bar, accepted, durable, run, locks, vol, on, mark, asked, exit,
                       calls, faults>>

NotLogged(t) ==
    LET v == on[t]
    IN  /\ pc[t] = "commit"
        /\ IF wal[v] = "failed" THEN UNCHANGED <<wal, logged, faults>> ELSE NotFlushed(v,
                                                 accepted[v])
        /\ bar' = [bar EXCEPT ![v] = Completed(@, FALSE, durable[v])]
        /\ Degrade(v) /\ Return(t, FALSE)
        /\ UNCHANGED <<mounted, accepted, published, durable, draining, vol, mark, asked, calls>>

\* Seeded fault: the status of the commit is not looked at.
CommitFailsUnnoticed(t) ==
    /\ pc[t] = "commit" /\ wal[on[t]] # "failed" /\ Fault
    /\ Flushed(on[t], accepted[on[t]])
    /\ Goto(t, "finalize")
    /\ UNCHANGED <<mounted, bar, accepted, published, durable, run, locks, vol, on, mark,
                   asked, exit, calls>>

(* A checkpoint whose proof failed after its publication stays.            *)
CommitFails(t) ==
    LET v == on[t]
    IN  /\ pc[t] = "commit" /\ wal[v] # "failed" /\ Fault
        /\ Flushed(v, accepted[v])
        /\ published' \in {published, [published EXCEPT ![v] = accepted[v]]}
        /\ bar' = [bar EXCEPT ![v] = Completed(@, FALSE, durable[v])]
        /\ Degrade(v) /\ Return(t, FALSE)
        /\ UNCHANGED <<mounted, accepted, durable, draining, vol, mark, asked, calls>>

Finalize(t) ==
    LET v == on[t]
        b == Completed(bar[v], TRUE, accepted[v])
        good == bar[v].inFlight => b.ok
    IN  /\ pc[t] = "finalize" /\ wal[v] # "failed"
        /\ durable' = [durable EXCEPT ![v] = accepted[v]]
        /\ wal' = [wal EXCEPT ![v] = "fine"]
        /\ bar' = [bar EXCEPT ![v] = IF good THEN Cleared(b) ELSE b]
        /\ IF good THEN run' = [run EXCEPT ![v] = IF @ = "recovering" THEN "on" ELSE @]
           ELSE Degrade(v)
        /\ Return(t, good)
        /\ UNCHANGED <<mounted, accepted, published, logged, draining, vol, mark, asked, calls,
                       faults>>

(* The journal could not be marked durable or cleaned, or its payloads or  *)
(* pins not be cleaned up.  (The refusal for a volume without native       *)
(* writes that owes cannot be met here: Drain has met it before.)          *)
FinalizeFails(t) ==
    LET v == on[t]
    IN  /\ pc[t] = "finalize"
        /\ \/ wal[v] = "failed" /\ Degrade(v) /\ UNCHANGED <<durable, wal, faults>>
           \/ /\ wal[v] # "failed" /\ Fault /\ Degrade(v)
              /\ \/ UNCHANGED durable /\ wal' = [wal EXCEPT ![v] = "failed"]
                 \/ /\ durable' = [durable EXCEPT ![v] = accepted[v]]
                    /\ \E status \in {"failed", "uncleaned", "fine"} :
                          wal' = [wal EXCEPT ![v] = status]
        /\ bar' = [bar EXCEPT ![v] = Completed(@, FALSE, durable[v])]
        /\ Return(t, FALSE)
        /\ UNCHANGED <<mounted, accepted, published, logged, draining, vol, mark, asked, calls>>

---------------------------------------------------------------------------
(* DeferredCommitWorkerLoop.                                               *)

Changed(v) == ~bar[v].requested \/ bar[v].reqTarget # mark[Worker(v)]

(* The deadline of a request has passed.                                   *)
Wake(v) ==
    LET w == Worker(v)
    IN  /\ pc[w] = "wait" /\ bar[v].requested /\ ~bar[v].stop
        /\ mark' = [mark EXCEPT ![w] = bar[v].reqTarget]
        /\ Goto(w, IF active[v] = {} THEN "wal" ELSE "walBusy")
        /\ UNCHANGED <<mounted, bar, sequences, run, locks, vol, on, asked, exit, calls, faults>>

FlushWal(v) ==
    LET w == Worker(v)
    IN  /\ pc[w] \in {"wal", "walBusy"}
        /\ Flushed(v, mark[w])
        /\ Goto(w, IF bar[v].stop THEN "exit"
                   ELSE IF Changed(v) \/ pc[w] = "walBusy" THEN "wait" ELSE "claim")
        /\ UNCHANGED <<mounted, bar, accepted, published, durable, run, locks, vol, on, mark,
                       asked, exit,
                       calls, faults>>

FlushWalFails(v) ==
    /\ pc[Worker(v)] \in {"wal", "walBusy"}
    /\ NotFlushed(v, mark[Worker(v)])
    /\ Goto(Worker(v), "unlogged")
    /\ UNCHANGED <<mounted, bar, accepted, published, durable, run, locks, vol, on, mark,
                   asked, exit, calls>>

(* A barrier in flight is another thread's; it will be ended all the same. *)
TakeFailedTarget(v) ==
    LET w == Worker(v)
        b == bar[v]
    IN  /\ pc[w] = "unlogged"
        /\ bar' = [bar EXCEPT ![v] =
              [b EXCEPT !.requested = FALSE, !.reqTarget = 0, !.inFlight = TRUE,
                        !.inTarget = IF b.inFlight THEN @ ELSE Larger(mark[w], b.reqTarget)]]
        /\ Goto(w, "latch")
        /\ UNCHANGED <<mounted, sequences, run, locks, vol, on, mark, asked, exit, calls, faults>>

\* Seeded fault: the barrier is not ended.
LatchWalFailureOnly(v) ==
    /\ pc[Worker(v)] = "latch"
    /\ Degrade(v)
    /\ Goto(Worker(v), "wait")
    /\ UNCHANGED <<mounted, bar, sequences, locks, vol, on, mark, asked, exit, calls, faults>>

(* LatchDeferredWalAcceptanceFailureBeforeApfsCommit, without the gate.    *)
LatchWalFailure(v) ==
    /\ pc[Worker(v)] = "latch"
    /\ Degrade(v)
    /\ bar' = [bar EXCEPT ![v] = Completed(@, FALSE, durable[v])]
    /\ Goto(Worker(v), "wait")
    /\ UNCHANGED <<mounted, sequences, locks, vol, on, mark, asked, exit, calls, faults>>

Claim(v) ==
    LET w == Worker(v)
    IN  /\ pc[w] = "claim"
        /\ IF bar[v].stop \/ ~Free(v) \/ Changed(v) \/ active[v] # {}
           THEN Goto(w, IF bar[v].stop THEN "exit" ELSE "wait") /\ UNCHANGED <<bar, gate>>
           ELSE /\ bar' = [bar EXCEPT ![v] = Claimed(@)]
                /\ gate' = [gate EXCEPT ![v] = w] /\ Goto(w, "drain")
        /\ UNCHANGED <<mounted, sequences, run, active, draining, vol, on, mark, asked, exit,
                       calls, faults>>

(* Threads that wait at the barrier of v when its worker stops.            *)
WithStopped(v, p) ==
    [t \in Thread |-> IF p[t] = "waiting" /\ on[t] = v THEN "stopped" ELSE p[t]]

(* HandleDeferredCommitWorkerException; the gate is released by unwinding. *)
WorkerThrows(v) ==
    LET w == Worker(v)
        b == Completed(bar[v], FALSE, durable[v])
    IN  /\ pc[w] = "drain" /\ Fault
        /\ run' = [run EXCEPT ![v] = "off"]
        /\ bar' = [bar EXCEPT ![v] =
              [b EXCEPT !.ok = FALSE, !.requested = FALSE, !.reqTarget = 0, !.stop = TRUE,
                        !.failed = IF b.reqTarget # 0 /\ (@ = 0 \/ b.reqTarget < @)
                                   THEN b.reqTarget ELSE @]]
        /\ gate' = [gate EXCEPT ![v] = Nobody]
        /\ pc' = WithStopped(v, [pc EXCEPT ![w] = "exit"])
        /\ UNCHANGED <<mounted, sequences, active, draining, vol, on, mark, asked, exit, calls>>

WorkerStops(v) ==
    /\ pc[Worker(v)] = "wait" /\ bar[v].stop
    /\ Goto(Worker(v), "exit")
    /\ UNCHANGED <<mounted, bar, sequences, run, locks, vol, on, mark, asked, exit, calls, faults>>

---------------------------------------------------------------------------
(* RunFsHostShutdownDrain.                                                 *)

BeginShutdown(v) ==
    /\ v \in Closing /\ pc[Closer(v)] = "up"
    /\ draining' = [draining EXCEPT ![v] = TRUE]
    /\ Goto(Closer(v), "callbacks")
    /\ UNCHANGED <<mounted, bar, sequences, run, gate, active, vol, on, mark, asked, exit,
                   calls, faults>>

\* Seeded fault: the wait counts the callbacks that hold the gate.
CallbacksDrainedAtGate(v) ==
    /\ pc[Closer(v)] = "callbacks"
    /\ Goto(Closer(v), IF Free(v) THEN "stop" ELSE "stopLate")
    /\ UNCHANGED <<mounted, bar, sequences, run, locks, vol, on, mark, asked, exit, calls, faults>>

(* BeginMutationShutdownDrain: all callbacks have left, or time is up.     *)
CallbacksDrained(v) ==
    /\ pc[Closer(v)] = "callbacks"
    /\ Goto(Closer(v), IF active[v] = {} THEN "stop" ELSE "stopLate")
    /\ UNCHANGED <<mounted, bar, sequences, run, locks, vol, on, mark, asked, exit, calls, faults>>

StopWorker(v) ==
    LET c == Closer(v)
    IN  /\ pc[c] \in {"stop", "stopLate"}
        /\ bar' = [bar EXCEPT ![v].stop = TRUE]
        /\ pc' = WithStopped(v, [pc EXCEPT ![c] = IF @ = "stop" THEN "join" ELSE "joinLate"])
        /\ UNCHANGED <<mounted, sequences, run, locks, vol, on, mark, asked, exit, calls, faults>>

JoinWorker(v) ==
    LET c == Closer(v)
    IN  /\ pc[c] \in {"join", "joinLate"} /\ pc[Worker(v)] = "exit"
        /\ bar' = [bar EXCEPT ![v] = [Completed(@, FALSE, durable[v]) EXCEPT !.stop = FALSE]]
        /\ IF pc[c] = "join" THEN Goto(c, "drain") /\ UNCHANGED exit
           ELSE Goto(c, "done") /\ exit' = [exit EXCEPT ![v] = 9]
        /\ UNCHANGED <<mounted, sequences, run, locks, vol, on, mark, asked, calls, faults>>

---------------------------------------------------------------------------
Callback(t) ==
    \/ Lock(t) \/ NoneOwing(t) \/ (\E w \in mounted : DrainSibling(t, w))
    \/ AcceptQueued(t) \/ AcceptGrouped(t) \/ AcceptInCommit(t) \/ AcceptRefused(t)
    \/ WaitForDurability(t) \/ RequestDeferred(t) \/ Leave(t)

Draining(t) ==
    \/ Drain(t) \/ Begin(t) \/ BarrierEnds(t) \/ Stopped(t) \/ Commit(t) \/ NotLogged(t)
    \/ CommitFails(t) \/ Finalize(t) \/ FinalizeFails(t)

WorkerStep(v) ==
    \/ Wake(v) \/ FlushWal(v) \/ FlushWalFails(v) \/ TakeFailedTarget(v) \/ LatchWalFailure(v)
    \/ Claim(v) \/ WorkerThrows(v) \/ WorkerStops(v)

CloserStep(v) == CallbacksDrained(v) \/ StopWorker(v) \/ JoinWorker(v)

Next ==
    \/ \E t \in Caller, v \in mounted : EnterChange(t, v) \/ EnterFlush(t, v)
    \/ \E t \in Caller : Callback(t)
    \/ \E t \in Thread : Draining(t)
    \/ \E v \in mounted : WorkerStep(v) \/ BeginShutdown(v) \/ CloserStep(v)

(* Every thread goes on; nobody has to call or to shut down.               *)
Fairness ==
    /\ \A t \in Caller : WF_vars(Callback(t) \/ Draining(t))
    /\ \A v \in Volume :
          /\ WF_vars(WorkerStep(v) \/ Draining(Worker(v)))
          /\ WF_vars(CloserStep(v) \/ Draining(Closer(v)))

Spec == Init /\ [][Next]_vars /\ Fairness

---------------------------------------------------------------------------
Sequence == 0 .. MaxCalls

TypeOK ==
    /\ mounted \in SUBSET Volume
    /\ bar \in [Volume -> [requested : BOOLEAN, reqTarget : Sequence, inFlight : BOOLEAN,
                           inTarget : Sequence, completed : Sequence, failed : Sequence,
                           ok : BOOLEAN, stop : BOOLEAN]]
    /\ {accepted, published, durable, logged} \subseteq [Volume -> Sequence]
    /\ wal \in [Volume -> {"fine", "uncleaned", "failed"}]
    /\ run \in [Volume -> {"on", "recovering", "off"}]
    /\ gate \in [Volume -> Thread \cup {Nobody}]
    /\ active \in [Volume -> SUBSET Caller] /\ draining \in [Volume -> BOOLEAN]
    /\ pc \in [Thread -> {"idle", "lockChange", "lockFlush", "sibling", "accept", "walWait",
                          "logged", "unlogged", "closed", "okay", "unforced", "sorry",
                          "drain", "begin", "waiting",
                          "stopped", "commit", "finalize", "wait", "wal", "walBusy", "claim",
                          "latch", "exit", "up", "callbacks", "stop", "stopLate", "join",
                          "joinLate", "done"}]
    /\ {vol, on} \subseteq [Thread -> Volume] /\ {mark, asked} \subseteq [Thread -> Sequence]
    /\ exit \in [Volume -> {0, 9, 10, 11, 99}] /\ calls \in Sequence /\ faults \in 0 .. MaxFaults

(* A flush that ran its commit and answers success: whatever was accepted  *)
(* when it was called is in a checkpoint.                                  *)
FlushedIsPublished ==
    \A t \in Caller : pc[t] = "okay" => published[vol[t]] >= asked[t]

(* "Preserve the first unresolved gap": while the first target that failed *)
(* is not durable, nothing more is accepted behind it and no barrier       *)
(* reports it or a later target as completed.                              *)
GapStands ==
    [][\A v \in Volume : LET first == bar[v].failed
                         IN  durable[v] < first => /\ accepted'[v] = accepted[v]
                                                   /\ bar'[v].completed < first]_vars

(* A shutdown that exits with 0 left nothing accepted outside a            *)
(* checkpoint, and nobody behind it accepts any more.                      *)
ExitClean ==
    \A v \in Volume : exit[v] = 0 =>
        published[v] = accepted[v] /\ durable[v] = accepted[v]

(* Every callback ends: no two volumes that drain each other, no waiter of *)
(* a barrier that nobody ends.  Every request of a close is taken up.      *)
CallbacksAnswered ==
    /\ \A t \in Caller : pc[t] # "idle" ~> pc[t] = "idle"
    /\ \A v \in Volume : bar[v].requested ~> (~bar[v].requested \/ pc[Closer(v)] = "done")

(* "Flush should finalize pending mutation journal entries before          *)
(* returning success": at least those of changes that were acknowledged,   *)
(* which have asked for a commit.                                          *)
FlushFinalizes ==
    \A t \in Caller : pc[t] \in {"okay", "unforced"} =>
        durable[vol[t]] >= Larger(bar[vol[t]].reqTarget, bar[vol[t]].failed)
=============================================================================
