-------------------------- MODULE TransactionJournal --------------------------
(***************************************************************************)
(* TransactionManager: transactions of one volume, written to the          *)
(* write-ahead log as a group of prepared records closed by a marker, the  *)
(* watermarks that say how far the groups are in a checkpoint (durable)    *)
(* and may be forgotten (cleaned), and what a restart makes of the log.    *)
(*                                                                         *)
(* The log itself is what module DurableLog promises: a sequence with a    *)
(* durable prefix, whose appends may be refused or cut short and whose     *)
(* compaction keeps the records at or above a floor.  Callers of the       *)
(* manager hold the volume's transaction mutex, so an operation is one     *)
(* step; the threads that wait for a deferred acceptance to become durable *)
(* do not hold it, and run in steps of their own.                          *)
(***************************************************************************)
EXTENDS Naturals, Sequences, FiniteSets

CONSTANTS
    Thread,        \* threads that accept for a deferred commit and wait
    DeferCloseCommits, \* IsDeferCloseCommitsEnabled
    MaxGroup,      \* bound: mutations in a transaction
    MaxSequence,   \* bound: sequence numbers
    MaxTransactions, \* bound: transactions ever begun
    MaxLog,        \* journal_max_bytes_, in records
    MaxFaults,     \* bound: journal calls that fail
    MaxRestarts    \* bound: restarts

ASSUME JournalAssumption ==
    /\ DeferCloseCommits \in BOOLEAN
    /\ MaxGroup \in Nat \ {0} /\ MaxSequence \in Nat /\ MaxTransactions \in Nat
    /\ MaxLog \in Nat /\ MaxFaults \in Nat /\ MaxRestarts \in Nat

VARIABLES
    log,        \* the records of the log
    synced,     \* how many of them are durable
    tm,         \* the manager's transaction state and watermarks
    deferred,   \* its deferred_wal_ state
    lock,       \* holder of deferred_wal_append_mutex_
    waiter,     \* the threads in EnsureDeferredAcceptanceDurability
    host,       \* how far the host's startup is
    begun,      \* transactions begun so far; numbers them uniquely
    acked,      \* transactions acknowledged to a client as durable
    published,  \* transactions that a checkpoint holds
    marked,     \* transactions reported as marked durable
    faults, restarts

history == <<begun, acked, published, marked>>
vars    == <<log, synced, tm, deferred, lock, waiter, host, history, faults, restarts>>

Free == "free"

(* seq: the record's sequence number; tx: its transaction_id; id: which    *)
(* transaction that really is; n: the marker's logical_length, or the      *)
(* watermark's target.                                                     *)
Kind   == {"Prepared", "Accepted", "Committed", "Aborted",
           "Durable", "Cleaned", "Index"}
Marker == {"Accepted", "Committed", "Aborted"}
Record == [kind : Kind, seq : Nat, tx : Nat, id : Nat, n : Nat]

MaxOf(S) == IF S = {} THEN 0 ELSE CHOOSE m \in S : \A x \in S : x <= m
Max2(a, b) == IF a < b THEN b ELSE a
Min2(a, b) == IF a < b THEN a ELSE b

(* The loops over the log l that copy its records at the places I.         *)
Selected(l, I) ==
    LET copied[i \in 0 .. Len(l)] ==
            IF i = 0 THEN <<>>
            ELSE IF i \in I THEN Append(copied[i - 1], l[i]) ELSE copied[i - 1]
    IN  copied[Len(l)]

---------------------------------------------------------------------------
(* ValidateWalSemantics.                                                   *)

Body(l)  == Selected(l, {i \in 1 .. Len(l) : l[i].kind # "Index"})
Floor(l) == MaxOf({l[i].seq : i \in {j \in 1 .. Len(l) : l[j].kind = "Index"}})

PreparedBefore(b, i) ==
    Cardinality({j \in 1 .. i - 1 : b[j].kind = "Prepared" /\ b[j].tx = b[i].tx})

MarkerValid(b, i, floor) ==
    /\ \A j \in 1 .. i - 1 : b[j].tx = b[i].tx => b[j].kind = "Prepared"
    /\ b[i].kind # "Aborted" /\ b[i].seq # floor =>
           /\ PreparedBefore(b, i) = b[i].n
           /\ b[i].n = 0 => b[i].kind = "Committed"

ValidateWalSemantics(l) ==
    LET b == Body(l)  floor == Floor(l) IN
    /\ \A i \in 1 .. Len(b) :
           /\ b[i].seq >= floor
           /\ i > 1 => b[i].seq > b[i - 1].seq
           /\ i > 1 /\ b[i - 1].kind = "Prepared" => b[i].tx = b[i - 1].tx
           /\ b[i].kind \in Marker => MarkerValid(b, i, floor)
           /\ b[i].kind = "Prepared" =>
                  \A j \in 1 .. i - 1 : b[j].tx = b[i].tx => b[j].kind = "Prepared"
    /\ b # <<>> => b[Len(b)].kind # "Prepared"

---------------------------------------------------------------------------
(* SeedIdsFromJournalRecords: the watermarks and boundaries of the first i *)
(* records of a log.                                                       *)

Seqs(b, i, K)    == {b[j].seq : j \in {k \in 1 .. i : b[k].kind \in K}}
Targets(b, i, k) == {b[j].n : j \in {h \in 1 .. i : b[h].kind = k}}

AcceptedAt(b, i) == MaxOf(Seqs(b, i, {"Accepted", "Committed"}))
\* Seeded fault: the durable watermarks in the log are not read.
DurableAtCommitted(b, i) == MaxOf(Seqs(b, i, {"Committed"}))

DurableAt(b, i) == MaxOf(Seqs(b, i, {"Committed"}) \cup Targets(b, i, "Durable"))
CleanedAt(b, i) == MaxOf(Targets(b, i, "Cleaned"))

WatermarkValid(b, i) ==
    /\ b[i].n \in Seqs(b, i - 1, {"Accepted", "Committed"})
    /\ IF b[i].kind = "Durable"
       THEN b[i].n >= DurableAt(b, i - 1) /\ b[i].n <= AcceptedAt(b, i - 1)
       ELSE b[i].n >= CleanedAt(b, i - 1) /\ b[i].n <= DurableAt(b, i - 1)

SeedValid(l) ==
    LET b == Body(l) IN
    /\ ValidateWalSemantics(l)
    /\ \A i \in 1 .. Len(b) : b[i].kind \in {"Durable", "Cleaned"} => WatermarkValid(b, i)

(* The manager m after it has read the log l.                              *)
Seed(m, l) ==
    LET b == Body(l)  n == Len(b)  cleaned == CleanedAt(b, n) IN
    IF ~ValidateWalSemantics(l) THEN [m EXCEPT !.valid = FALSE]
    ELSE [m EXCEPT
            !.accepted = AcceptedAt(b, n), !.durable = DurableAt(b, n), !.cleaned = cleaned,
            !.bounds = {s \in Seqs(b, n, {"Accepted", "Committed"}) : s > cleaned},
            !.committed = MaxOf(Seqs(b, n, {"Committed"})),
            !.valid = SeedValid(l) /\ ~m.ambiguous,
            !.nextSeq = Max2(@, MaxOf({l[i].seq : i \in 1 .. Len(l)}) + 1),
            !.nextTx = Max2(@, MaxOf({l[i].tx : i \in 1 .. Len(l)}) + 1)]

(* The markers of the log's body b that no durable watermark covers, and   *)
(* their transactions.                                                     *)
Unapplied(b) ==
    {i \in 1 .. Len(b) : b[i].kind = "Accepted" /\ b[i].seq > DurableAt(b, Len(b))}
Outstanding(l) == {Body(l)[i].id : i \in Unapplied(Body(l))}

(* CollectAcceptedTransactions refuses a log that lacks records of such a  *)
(* transaction, or the transaction of the last acceptance.                 *)
Complete(l) ==
    LET b == Body(l)  n == Len(b) IN
    /\ \A i \in Unapplied(b) : PreparedBefore(b, i) = b[i].n /\ b[i].n # 0
    /\ AcceptedAt(b, n) > DurableAt(b, n) =>
           MaxOf({b[i].seq : i \in Unapplied(b)}) = AcceptedAt(b, n)

(* LoadAcceptedTransactionsAfter: what a start that finds the log replays. *)
Replayed(l) == IF SeedValid(l) /\ Complete(l) THEN Outstanding(l) ELSE {}

---------------------------------------------------------------------------
Fresh == [st |-> "Idle", tx |-> 0, pending |-> <<>>, buffered |-> <<>>,
          nextSeq |-> 1, nextTx |-> 1, accepted |-> 0, durable |-> 0, cleaned |-> 0,
          bounds |-> {}, committed |-> 0, valid |-> TRUE, ambiguous |-> FALSE]

NoDeferred == [pending |-> 0, durable |-> 0, failed |-> FALSE, flushing |-> FALSE]
NotWaiting == [pc |-> "none", seq |-> 0, target |-> 0]

Init ==
    /\ log = <<>> /\ synced = 0
    /\ tm = Fresh /\ deferred = NoDeferred /\ lock = Free
    /\ waiter = [t \in Thread |-> NotWaiting]
    /\ host = "mounted"
    /\ begun = 0 /\ acked = {} /\ published = {} /\ marked = {}
    /\ faults = 0 /\ restarts = 0

---------------------------------------------------------------------------
(* The log, as the manager uses it: append; if that is refused, compact to *)
(* the floor and append once more.                                         *)

\* Seeded fault: the floor is the first sequence that was not cleaned.
FloorPastCleaned(first) ==
    IF tm.committed > tm.cleaned THEN 1
    ELSE IF tm.accepted <= tm.cleaned THEN first ELSE tm.accepted

SafeCompactionFloor(first) ==
    IF tm.committed > tm.cleaned THEN 1
    ELSE IF tm.accepted <= tm.cleaned THEN first
    ELSE IF tm.cleaned = 0 THEN 1
    ELSE Min2(first, tm.cleaned)

Compacted(floor) ==
    Append(Selected(log, {i \in 1 .. Len(log) : log[i].kind = "Index" \/ log[i].seq >= floor}),
           [kind |-> "Index", seq |-> floor, tx |-> 0, id |-> 0, n |-> 0])

Outcome(res, l, s, f) == [res |-> res, log |-> l, synced |-> s, faults |-> f]
May(f, O) == IF faults + f <= MaxFaults THEN O ELSE {}

(* AppendBatchWithResult on the log l of which s records are durable.  A   *)
(* write that fails half-way leaves a prefix of the batch.                 *)
Appends(l, s, b, flush, f) ==
    IF Len(l) + Len(b) <= MaxLog
    THEN {Outcome("Succeeded", l \o b, IF flush THEN Len(l) + Len(b) ELSE s, f)}
         \cup May(f + 1, {Outcome("BytesMayHavePersisted", l \o SubSeq(b, 1, k), s, f + 1) :
                              k \in 0 .. Len(b)}
                         \cup {Outcome("RejectedBeforeWrite", l, s, f + 1)})
    ELSE {Outcome("RejectedBeforeWrite", l, s, f)}

\* Seeded fault: the flushed length is not taken down to that of the new log.
CompactionsKeepSynced(s, floor, f) ==
    {Outcome("Succeeded", Compacted(floor), s, f)}

Compactions(s, floor, f) ==
    {Outcome("Succeeded", Compacted(floor), Len(Compacted(floor)), f)}
    \cup May(f + 1, {Outcome("RejectedBeforeWrite", log, s, f + 1),
                     Outcome("BytesMayHavePersisted", log, s, f + 1),
                     Outcome("BytesMayHavePersisted", Compacted(floor),
                             Len(Compacted(floor)), f + 1)})

Retries(o, b, flush, first) ==
    IF o.res # "RejectedBeforeWrite" THEN {o}
    ELSE UNION {IF c.res = "Succeeded" THEN Appends(c.log, c.synced, b, flush, c.faults)
                ELSE {c} : c \in Compactions(o.synced, SafeCompactionFloor(first), o.faults)}

(* The batch b is appended to the log, of which s records are durable; ok  *)
(* is the manager if that succeeds, fails the one otherwise, to which      *)
(* every failure adds that its state is unknown.                           *)
AppendedAfter(s, b, flush, first, ok, fails) ==
    /\ lock = Free
    /\ \E o \in UNION {Retries(p, b, flush, first) : p \in Appends(log, s, b, flush, 0)} :
           /\ log' = o.log /\ synced' = o.synced /\ faults' = faults + o.faults
           /\ tm' = IF o.res = "Succeeded" THEN ok
                    ELSE [fails EXCEPT !.valid = FALSE,
                                       !.ambiguous = o.res = "BytesMayHavePersisted"]

Appended(b, flush, first, ok, fails) == AppendedAfter(synced, b, flush, first, ok, fails)

Succeeds == tm'.valid

Of(kind, seq, n) == [kind |-> kind, seq |-> seq, tx |-> tm.tx, id |-> begun, n |-> n]
Watermark(kind, n) == [kind |-> kind, seq |-> tm.nextSeq, tx |-> 0, id |-> 0, n |-> n]

---------------------------------------------------------------------------
(* Transactions.                                                           *)

Room(n) == tm.nextSeq + n <= MaxSequence + 1
Active  == tm.valid /\ tm.st = "Active"

Begin ==
    /\ tm.valid /\ tm.st = "Idle" /\ host = "mounted"
    /\ begun < MaxTransactions /\ Room(2)
    /\ begun' = begun + 1
    /\ tm' = [tm EXCEPT !.st = "Active", !.tx = tm.nextTx, !.nextTx = @ + 1,
                        !.pending = <<>>, !.buffered = <<>>]
    /\ UNCHANGED <<log, synced, deferred, lock, waiter, host, acked, published,
                   marked, faults, restarts>>

RecordMutation ==
    /\ Active /\ Len(tm.pending) < MaxGroup /\ Room(2)
    /\ tm' = [tm EXCEPT !.pending = Append(@, tm.nextSeq), !.buffered = Append(@, tm.nextSeq),
                        !.nextSeq = @ + 1]
    /\ UNCHANGED <<log, synced, deferred, lock, waiter, host, history, faults, restarts>>

Prepared == [i \in 1 .. Len(tm.buffered) |-> Of("Prepared", tm.buffered[i], 0)]
First    == IF tm.pending = <<>> THEN tm.nextSeq ELSE tm.pending[1]

FlushPreparedRecords ==
    /\ Active /\ tm.buffered # <<>>
    /\ Appended(Prepared, TRUE, First, [tm EXCEPT !.buffered = <<>>], tm)
    /\ UNCHANGED <<deferred, lock, waiter, host, history, restarts>>

(* PersistTransactionBatchLocked: the buffered group and its marker.       *)
Group(kind) == Append(Prepared, Of(kind, tm.nextSeq, Len(tm.pending)))

Closed == [tm EXCEPT !.st = "Idle", !.tx = 0, !.pending = <<>>, !.buffered = <<>>,
                     !.nextSeq = @ + 1]
Failed == [tm EXCEPT !.st = "Failed"]

AcceptedTm == [Closed EXCEPT !.accepted = tm.nextSeq, !.bounds = @ \cup {tm.nextSeq}]

Accept ==
    /\ Active /\ tm.pending # <<>>
    /\ Appended(Group("Accepted"), TRUE, First, AcceptedTm, Failed)
    /\ acked' = IF Succeeds THEN acked \cup {begun} ELSE acked
    /\ UNCHANGED <<deferred, lock, waiter, host, begun, published, marked, restarts>>

(* The host commits directly after its checkpoint was published, if it     *)
(* does not defer commits and nothing accepted is unapplied.               *)
Commit ==
    /\ Active /\ ~DeferCloseCommits /\ tm.accepted <= tm.durable
    /\ Appended(Group("Committed"), TRUE, First,
                [Closed EXCEPT !.committed = tm.nextSeq], Failed)
    /\ published' = published \cup {begun}
    /\ UNCHANGED <<deferred, lock, waiter, host, begun, acked, marked, restarts>>

(* Sequence numbers of records that never left the buffer are used again.  *)
Abort ==
    /\ tm.valid /\ tm.st = "Active"
    /\ LET seq == IF tm.buffered = <<>> THEN tm.nextSeq ELSE tm.buffered[1] IN
       Appended(<<Of("Aborted", seq, Len(tm.pending))>>, TRUE, First,
                [Closed EXCEPT !.nextSeq = seq + 1], Failed)
    /\ UNCHANGED <<deferred, lock, waiter, host, history, restarts>>

---------------------------------------------------------------------------
(* AcceptForDeferredCommit appends without a flush; the caller then waits, *)
(* with other callers, in EnsureDeferredAcceptanceDurability.              *)

AcceptForDeferredCommit(t) ==
    /\ Active /\ tm.pending # <<>> /\ waiter[t].pc = "none"
    /\ Appended(Group("Accepted"), FALSE, First, AcceptedTm, Failed)
    /\ IF Succeeds
       THEN /\ deferred' = [deferred EXCEPT !.pending = Max2(@, tm.nextSeq)]
            /\ waiter' = [waiter EXCEPT ![t] = [pc |-> "check", seq |-> tm.nextSeq, target |-> 0]]
       ELSE UNCHANGED <<deferred, waiter>>
    /\ UNCHANGED <<lock, host, history, restarts>>

(* A caller with nothing to accept waits for what is accepted already.     *)
WaitForExisting(t) ==
    /\ tm.valid /\ tm.st = "Idle" /\ host = "mounted" /\ waiter[t].pc = "none"
    /\ tm.accepted > 0
    /\ waiter' = [waiter EXCEPT ![t] = [pc |-> "check", seq |-> tm.accepted, target |-> 0]]
    /\ UNCHANGED <<log, synced, tm, deferred, lock, host, history, faults, restarts>>

Covered(seq) == deferred.durable >= seq \/ deferred.pending < seq

ToPc(t, p) == waiter' = [waiter EXCEPT ![t].pc = p]

AcceptedThrough(seq) ==
    {log[i].id : i \in {j \in 1 .. Len(log) : log[j].kind = "Accepted" /\ log[j].seq <= seq}}

CheckDurability(t) ==
    /\ waiter[t].pc = "check"
    /\ IF Covered(waiter[t].seq)
       THEN /\ waiter' = [waiter EXCEPT ![t] = NotWaiting]
            /\ acked' = acked \cup AcceptedThrough(waiter[t].seq)
            /\ UNCHANGED deferred
       ELSE /\ IF deferred.failed THEN ToPc(t, "fail")
               ELSE IF deferred.flushing THEN ToPc(t, "wait") ELSE ToPc(t, "window")
            /\ deferred' = [deferred EXCEPT !.flushing = @ \/ ~deferred.failed]
            /\ UNCHANGED acked
    /\ UNCHANGED <<log, synced, tm, lock, host, begun, published, marked, faults, restarts>>

Notified(t) ==
    /\ waiter[t].pc = "wait"
    /\ deferred.durable >= waiter[t].seq \/ deferred.failed \/ ~deferred.flushing
    /\ ToPc(t, "check")
    /\ UNCHANGED <<log, synced, tm, deferred, lock, host, history, faults, restarts>>

(* The flusher, once its window for others to join has passed.             *)
LockAppends(t) ==
    /\ waiter[t].pc = "window" /\ lock = Free
    /\ lock' = t
    /\ waiter' = [waiter EXCEPT ![t].pc = "flush", ![t].target = deferred.pending]
    /\ UNCHANGED <<log, synced, tm, deferred, host, history, faults, restarts>>

FlushPendingAppends(t) ==
    /\ waiter[t].pc = "flush"
    /\ synced' = Len(log) /\ lock' = Free
    /\ deferred' = [deferred EXCEPT !.durable = Max2(@, waiter[t].target), !.flushing = FALSE]
    /\ ToPc(t, "check")
    /\ UNCHANGED <<log, tm, host, history, faults, restarts>>

\* Seeded fault: a failed flush is reported to the others as done.
FlushFailsSilently(t) ==
    /\ waiter[t].pc = "flush" /\ faults < MaxFaults /\ faults' = faults + 1
    /\ lock' = Free
    /\ deferred' = [deferred EXCEPT !.durable = Max2(@, waiter[t].target), !.flushing = FALSE]
    /\ ToPc(t, "fail")
    /\ UNCHANGED <<log, synced, tm, host, history, restarts>>

\* Seeded fault: the flusher leaves without giving up its role.
FlushFailsHolding(t) ==
    /\ waiter[t].pc = "flush" /\ faults < MaxFaults /\ faults' = faults + 1
    /\ lock' = Free
    /\ ToPc(t, "none")
    /\ UNCHANGED <<log, synced, tm, deferred, host, history, restarts>>

FlushFails(t) ==
    /\ waiter[t].pc = "flush" /\ faults < MaxFaults /\ faults' = faults + 1
    /\ lock' = Free
    /\ deferred' = [deferred EXCEPT !.failed = TRUE, !.flushing = FALSE]
    /\ ToPc(t, "fail")
    /\ UNCHANGED <<log, synced, tm, host, history, restarts>>

DurabilityFailed == [tm EXCEPT !.valid = FALSE, !.ambiguous = TRUE, !.st = "Failed"]

MarkDeferredAcceptanceDurabilityFailure(t) ==
    /\ waiter[t].pc = "fail"
    /\ deferred' = [deferred EXCEPT !.failed = TRUE, !.flushing = FALSE]
    /\ tm' = DurabilityFailed
    /\ waiter' = [waiter EXCEPT ![t] = NotWaiting]
    /\ UNCHANGED <<log, synced, lock, host, history, faults, restarts>>

(* FlushAcceptedEvidenceDurability.                                        *)
FlushAcceptedEvidence(seq) ==
    /\ tm.valid /\ tm.st = "Idle" /\ lock = Free /\ seq \in tm.bounds
    /\ \/ /\ synced' = Len(log)
          /\ deferred' = [deferred EXCEPT !.durable = Max2(@, seq)]
          /\ acked' = acked \cup AcceptedThrough(seq)
          /\ UNCHANGED <<tm, faults>>
       \/ /\ faults < MaxFaults /\ faults' = faults + 1
          /\ deferred' = [deferred EXCEPT !.failed = TRUE, !.flushing = FALSE]
          /\ tm' = DurabilityFailed
          /\ UNCHANGED <<synced, acked>>
    /\ UNCHANGED <<log, lock, waiter, host, begun, published, marked, restarts>>

---------------------------------------------------------------------------
(* Watermarks, as the host sets them.  When it has published a checkpoint   *)
(* it marks everything accepted; a startup first marks and cleans the      *)
(* prefix that it finds in the checkpoint already, and replays the rest.   *)
(* The checkpoint holds a transaction that it was published with, and one  *)
(* whose effects it happens to have.                                       *)

Publish(seq) ==
    /\ tm.valid /\ tm.st \in {"Idle", "Active"} /\ seq \in tm.bounds
    /\ host = "mounted" => seq = tm.accepted
    /\ host = "replaying" => seq = tm.accepted /\ tm.cleaned = tm.durable
    /\ ~(AcceptedThrough(seq) \subseteq published)
    /\ published' = published \cup AcceptedThrough(seq)
    /\ UNCHANGED <<log, synced, tm, deferred, lock, waiter, host, begun, acked, marked,
                   faults, restarts>>

(* FlushDeferredAcceptanceDurabilityNow inside a watermark: it waits for a *)
(* flusher, fails with it, or flushes itself.                              *)
Settled(seq) == Covered(seq) \/ deferred.failed \/ (~deferred.flushing /\ lock = Free)

MarkThrough(kind, seq, ok) ==
    /\ Settled(seq)
    /\ IF Covered(seq)
       THEN /\ Appended(<<Watermark(kind, seq)>>, TRUE, tm.cleaned + 1, ok, tm)
            /\ UNCHANGED deferred
       ELSE \/ /\ ~deferred.failed
               /\ AppendedAfter(Len(log), <<Watermark(kind, seq)>>, TRUE, tm.cleaned + 1, ok, tm)
               /\ deferred' = [deferred EXCEPT !.durable = deferred.pending]
            \/ /\ deferred.failed \/ faults < MaxFaults
               /\ faults' = IF deferred.failed THEN faults ELSE faults + 1
               /\ tm' = DurabilityFailed
               /\ deferred' = [deferred EXCEPT !.failed = TRUE, !.flushing = FALSE]
               /\ UNCHANGED <<log, synced>>

MarkApfsDurableThrough(seq) ==
    /\ tm.valid /\ tm.st = "Idle" /\ Room(1)
    /\ seq \in tm.bounds /\ seq > tm.durable /\ seq <= tm.accepted
    /\ IF host = "starting"
       THEN /\ Complete(log)
            /\ \A s \in tm.bounds : s > seq => ~(AcceptedThrough(s) \subseteq published)
       ELSE seq = tm.accepted
    /\ AcceptedThrough(seq) \subseteq published
    /\ MarkThrough("Durable", seq, [tm EXCEPT !.durable = seq, !.nextSeq = @ + 1])
    /\ marked' = IF Succeeds THEN marked \cup AcceptedThrough(seq) ELSE marked
    /\ host' = IF host = "starting" THEN "replaying" ELSE host
    /\ UNCHANGED <<lock, waiter, begun, acked, published, restarts>>

\* Seeded fault: cleanup may run ahead of what is durable.
MarkCleanedThroughAccepted(seq) ==
    /\ tm.valid /\ tm.st = "Idle" /\ Room(1) /\ host # "starting"
    /\ seq \in tm.bounds /\ seq > tm.cleaned /\ seq = tm.accepted
    /\ MarkThrough("Cleaned", seq,
           [tm EXCEPT !.cleaned = seq, !.bounds = {s \in @ : s > seq}, !.nextSeq = @ + 1])
    /\ UNCHANGED <<lock, waiter, host, history, restarts>>

MarkCleanedThrough(seq) ==
    /\ tm.valid /\ tm.st = "Idle" /\ Room(1) /\ host # "starting"
    /\ seq \in tm.bounds /\ seq > tm.cleaned /\ seq = tm.durable
    /\ host = "mounted" => tm.accepted <= tm.durable
    /\ MarkThrough("Cleaned", seq,
           [tm EXCEPT !.cleaned = seq, !.bounds = {s \in @ : s > seq}, !.nextSeq = @ + 1])
    /\ UNCHANGED <<lock, waiter, host, history, restarts>>

(* LoadAcceptedTransactionsAfter reads the log again while idle.           *)
Reseed ==
    /\ tm.valid /\ tm.st = "Idle" /\ tm # Seed(tm, log)
    /\ tm' = Seed(tm, log)
    /\ UNCHANGED <<log, synced, deferred, lock, waiter, host, history, faults, restarts>>

---------------------------------------------------------------------------
(* The host starts again on the log it left, or on what a power loss left  *)
(* of it.  It writes only once everything accepted is applied.             *)

Restart(n, s) ==
    /\ restarts < MaxRestarts /\ restarts' = restarts + 1
    /\ log' = SubSeq(log, 1, n) /\ synced' = s
    /\ tm' = Seed(Fresh, SubSeq(log, 1, n))
    /\ deferred' = NoDeferred /\ lock' = Free
    /\ waiter' = [t \in Thread |-> NotWaiting]
    /\ host' = "starting"
    /\ UNCHANGED <<history, faults>>

ProcessEnds == Restart(Len(log), synced)
PowerLoss   == \E n \in synced .. Len(log) : Restart(n, n)

(* The rest of the log is replayed even when no prefix of it was found in  *)
(* the checkpoint.                                                         *)
ReplayAll ==
    /\ host = "starting" /\ tm.valid /\ Complete(log)
    /\ host' = "replaying"
    /\ UNCHANGED <<log, synced, tm, deferred, lock, waiter, history, faults, restarts>>

Mount ==
    /\ host = "replaying" /\ tm.valid /\ tm.st = "Idle"
    /\ tm.accepted <= tm.durable /\ tm.durable = tm.cleaned
    /\ host' = "mounted"
    /\ UNCHANGED <<log, synced, tm, deferred, lock, waiter, history, faults, restarts>>

---------------------------------------------------------------------------
Transactions == Begin \/ RecordMutation \/ FlushPreparedRecords \/ Accept \/ Commit \/ Abort

Waiting(t) ==
    \/ CheckDurability(t) \/ Notified(t) \/ LockAppends(t) \/ FlushPendingAppends(t)
    \/ MarkDeferredAcceptanceDurabilityFailure(t)

Watermarks ==
    \/ \E seq \in tm.bounds :
           \/ FlushAcceptedEvidence(seq) \/ Publish(seq)
           \/ MarkApfsDurableThrough(seq) \/ MarkCleanedThrough(seq)
    \/ Reseed

Next ==
    \/ Transactions \/ Watermarks \/ ReplayAll \/ Mount \/ ProcessEnds \/ PowerLoss
    \/ \E t \in Thread : \/ Waiting(t) \/ FlushFails(t)
                         \/ AcceptForDeferredCommit(t) \/ WaitForExisting(t)

(* The waiting threads run and their flushes return.                       *)
Spec == Init /\ [][Next]_vars /\ \A t \in Thread : WF_vars(Waiting(t))

---------------------------------------------------------------------------
TypeOK ==
    /\ log \in Seq(Record) /\ synced \in 0 .. Len(log)
    /\ tm \in [st : {"Idle", "Active", "Failed"}, tx : Nat, pending : Seq(Nat),
               buffered : Seq(Nat), nextSeq : 1 .. MaxSequence + 2, nextTx : Nat,
               accepted : Nat, durable : Nat, cleaned : Nat, bounds : SUBSET Nat,
               committed : Nat, valid : BOOLEAN, ambiguous : BOOLEAN]
    /\ deferred \in [pending : Nat, durable : Nat, failed : BOOLEAN, flushing : BOOLEAN]
    /\ lock \in Thread \cup {Free}
    /\ waiter \in [Thread -> [pc : {"none", "check", "wait", "window", "flush", "fail"},
                              seq : Nat, target : Nat]]
    /\ host \in {"starting", "replaying", "mounted"}
    /\ begun \in 0 .. MaxTransactions
    /\ acked \subseteq 1 .. begun /\ published \subseteq 1 .. begun /\ marked \subseteq 1 .. begun
    /\ faults \in 0 .. MaxFaults /\ restarts \in 0 .. MaxRestarts

(* The power may go at any moment: every transaction that a client was     *)
(* told is durable, and that no checkpoint holds, is then still in the     *)
(* log, and a start that admits the log replays it.  (Which logs a start   *)
(* does not admit is the subject of RefusedOnlyIfCut.)                     *)
AcknowledgedSurvive ==
    \A a \in acked \ published, n \in synced .. Len(log) :
        LET l == SubSeq(log, 1, n) IN
        a \in IF SeedValid(l) THEN Replayed(l) ELSE Outstanding(l)

(* A transaction that was reported as marked durable is never replayed,    *)
(* nor outstanding in a log that a start refuses.                          *)
MarkedStays ==
    \A a \in marked, n \in synced .. Len(log) : a \notin Outstanding(SubSeq(log, 1, n))

(* A watermark whose target was compacted away.                            *)
Stranded(l) ==
    \E i \in 1 .. Len(l) : l[i].kind \in {"Durable", "Cleaned"} /\ l[i].n < Floor(l)

(* A restart refuses the log only where an append was cut short, so that   *)
(* it ends in a prepared record whose marker never came, or where a        *)
(* watermark is stranded.                                                  *)
RefusedOnlyIfCut ==
    \A n \in synced .. Len(log) :
        LET l == SubSeq(log, 1, n)  b == Body(l) IN
        (SeedValid(l) /\ Complete(l)) \/ b[Len(b)].kind = "Prepared" \/ Stranded(l)

(* "Compaction retry should retain valid advancing transaction state": the *)
(* log of a manager that is idle and valid is one it would accept.         *)
CompactionKeepsValid == tm.valid /\ tm.st = "Idle" => SeedValid(log)

(* A caller that waits for durability gets its answer.                     *)
WaitersAnswered == \A t \in Thread : waiter[t].pc # "none" ~> waiter[t].pc = "none"
=============================================================================
