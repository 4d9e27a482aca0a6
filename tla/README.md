# Verification of APFS Access for Windows

APFS Access mounts APFS containers on Windows, and can mount them for writing.
This directory holds TLA+ models of the part of it on which the safety of a
user's disk depends: how a changed container becomes the container everybody
selects, how changes that were acknowledged to a writer survive failures until
they are in it, which threads bring them there, and how the program replaces
itself.

| Module | Models | Read with |
|---|---|---|
| `CheckpointPublisher` | planning, execution and selection of checkpoints on one device | `AppleCheckpointPublisher.cpp`, `ApfsFormat.cpp` |
| `ContainerCoordinator` | the volumes of a container, their journals, commits, recovery | `ContainerMountCoordinator.cpp`, FsHost `main.cpp`, `TransactionManager.cpp` |
| `AcceptedLog` | what the container promises to writers (abstract) | |
| `DeferredCommit` | callbacks, deferred workers and shutdowns, and the locks between them | FsHost `main.cpp`, `WritePipeline.cpp`, `TransactionManager.cpp` |
| `TransactionJournal` | transactions, watermarks and recovery over one log | `TransactionManager.cpp`, FsHost `main.cpp` |
| `WalCompaction` | the files of that log: opening, appending, compaction | `WriteAheadLog.cpp` |
| `DurableLog` | what the log promises to transactions (abstract) | |
| `PayloadSpool` | the file of written bytes beside the log, and its index | `PayloadSpool.cpp`, `TransactionManager.cpp`, FsHost `main.cpp` |
| `UpdateReplacement` | the replacement of the launcher by its update | `UpdateReplacementEngine.cs`, bootstrap, tray |
| `CheckpointPublisher_proofs`, `CheckpointSelection_proofs`, `ContainerCoordinator_proofs`, `DeferredCommit_proofs`, `PayloadSpool_proofs`, `TransactionJournal_proofs`, `UpdateReplacement_proofs`, `WalCompaction_proofs` | theorems | |
| `MC...` | instances for TLC | `*.cfg` |

`PROJECT.json` maps every definition to the lines it models, and lists runs,
mutants, hazards and theorems.

## Inventory

**Checkpoint publisher** (`AppleCheckpointPublisher.cpp`). State: a plan (guards,
writes before the superblock, the superblock) against a selected checkpoint.
Operations: plan (refuses on drift, wrong transaction id, missing objects, rings
that are too full), execute in stages with a hook at each. Hard: every block it
writes lies in rings that also hold the current and the retained generations;
the device may lose, keep or tear whatever is not flushed. Correct when a failure
at any point leaves the old or the new checkpoint selected, and no retained
generation is damaged.

**Checkpoint loader** (`ApfsFormat.cpp`). No state; scans the descriptor ring for
the newest complete generation, or for a given one. Correct when an incomplete
generation is never selected.

**Container mount coordinator** (`ContainerMountCoordinator.cpp`). State: the
newest checkpoint number, one session per volume (a store, and whether it is
prepared), the pins and unapplied-work flag of each volume, a recovery latch,
snapshot readers. Operations: open, mount, register the census, commit, update
pins, refresh, acquire a reader, unmount, drain. Everything that publishes holds
one commit lock; hooks of the host run inside it. Hard: sessions go stale when a
sibling publishes; a failed hook may have succeeded; capacity cleanup runs in the
middle of a commit. Correct when each commit works on the newest checkpoint and
no record's source generation is reused.

**FsHost journal lifecycle** (`main.cpp`). State: one journal per volume with three
watermarks (accepted, durable, cleaned), a mutation gate, recovery status.
Operations: accept, accept and defer, drain, finalize (mark, clean, refresh pins),
replay at startup, shut down. Callbacks of WinFsp threads, a deferred worker
and sibling volumes interleave. Correct when no accepted record is lost, applied
twice or out of order, and nothing is called durable that no checkpoint holds.

**Transaction manager** (`TransactionManager.cpp`). State: the open transaction, the
boundaries of closed ones, three watermarks, the deferred acceptance that several
threads flush together. Operations: begin, record, accept, commit, abort, mark durable,
mark cleaned, compact a full log, read it after a restart. Hard: the log is the only
truth after a restart, and it may end anywhere after its flushed part. Correct when what
was acknowledged is replayed until a checkpoint has it, and never afterwards.

**Write-ahead log** (`WriteAheadLog.cpp`). State: a directory with the log, an intent
file, a guard and a temporary file; an append handle. Operations: open and repair,
append, flush, compact. Hard: a compaction changes four names in a directory, each
durable later than visible. Correct when every opening finds the records that were
flushed, and can make sense of the names.

**Payload spool** (`PayloadSpool.cpp`). State: a file of payload bytes, an index file,
the live ranges. Operations: append, flush, discard, clean up, rebuild from the journal,
restore inline payload. Hard: two files and the journal change one after the other; the
index is only a cache of what the journal proves. Correct when accepted bytes can be
read until a checkpoint has them, and finished work leaves nothing.

**Host threads** (`main.cpp`). State: per volume a mutation gate, the admission of
callbacks, the commit barrier, recovery flags. Operations: a change, a flush, the deferred
worker's commit, a shutdown. Hard: the volumes of one container drain each other, and
a failure latches while others wait. Correct when a flush and an exit code tell the truth, and
everybody gets an answer.

**Metadata store, Apple transaction commit, spaceman allocator.** Stage single
operations, rewrite trees, allocate; they hand the publisher its request.

**Fusion and encrypted image runtimes.** Publication over two tiers, or into an
encrypted image with a journal of its own.

**Snapshot runtime, native readers, verifier, repair, volume tools.** Readers of a
fixed checkpoint, and offline tools.

**Managed side** (`src/src`): the service that reconciles mounts, the native
backend that starts and supervises FsHost processes, IPC, command line, tray,
updater. They talk to FsHost through its process, a status file and a control
file. The updater waits for the old tray, exchanges the launcher, starts it and
waits for a receipt; it must end with a launcher that works.

The host calls the coordinator for every commit; the coordinator calls back the
host's acceptance and cleanup hooks, then the store, which calls the publisher;
the publisher writes the device. At startup the host reads the journals, registers
their census with the coordinator and replays volume by volume.

## `CheckpointPublisher`

State: `disk` (stable storage) and `seen` (what reads return: `disk` under
unflushed writes) over the blocks of the descriptor ring, the data ring and the
blocks the allocator hands out; `view`, the generation the session works on with
the bytes of its footprint; the stage `pc`; the `plan`; the pinned transaction
ids `required`. A block holds a record in place of bytes. The checksum of an object is
abstracted to what it decides: all its blocks come from one write, which the
number of the publication attempt identifies; a torn block matches nothing.

| Action | Code |
|---|---|
| `Plan` | `PlanAppleCheckpointPublication`: every refusal is a conjunct of `PlanAccepted` |
| `WriteBatch`, `WriteBatchFails` | guards, then the batch before the superblock, whole or interrupted |
| `PrepublicationFlush` | the barrier between batch and superblock |
| `SwitchSuperblock`, `SwitchFails` | readback, guards again, the superblock |
| `FinalFlush`, `Acknowledge` | last flush, readback, the store's reload |
| `Refuse` | any stage hook, guard, readback or flush that refuses: the session latches |
| `PowerLoss`, `Settle` | each unflushed block old, new or torn; or written back |
| `Reopen` | a new host selects a checkpoint |
| `Pin`, `Unpin` | journal records and readers that need a generation |

An interrupted attempt leaves its debris in the rings, and the next one
uses the same transaction id again: both are in the model.
The initial container is one that a loader accepts (`view.found`): rings too small for one generation have no
behaviours.

Assumptions. There is one publisher (the coordinator's lock and the exclusive
device lease). The allocator hands out no block a generation in use reaches. A
host opens a settled device: the loader issues no flush, so it could select a
superblock which a later power loss takes back. The keylocker's relocation, the
Fusion mirror and anchor writes, and the guard of block zero are left out.

## `ContainerCoordinator`

State: the checkpoint chain (`ckpt[x][v]`, the records checkpoint `x` holds of
volume `v`) and `floor`, the oldest generation still whole; per volume the journal
(the source checkpoint of each record) with its `durable` and `cleaned` marks; the
coordinator's latch, `ckptXid`, `pins`, `unapplied`, sessions and the commit under
way; a reader; and `phase`, where the holder of the volume's mutation gate is.

| Actions | Code |
|---|---|
| `BeginCommit`, `CommitReloadFails` | admission, reuse or reload of the session |
| `StagingFails`, `CapacityRefused`, `RetentionCleanup` | everything before acceptance that refuses, and the one cleanup a commit may run |
| `Accept`, `AcceptFails`, `DeferPublication` | the prepublication hook |
| `NothingToCommit`, `PublishDevice`, `PublishComplete`, `PublishFails`, `VerifierFails` | publication and its outcomes |
| `MarkDurable`, `MarkCleaned`, `LoadCensus`, `UpdatePins`, `FinalizeFails` | `FinalizeMutationJournalBestEffort`, step by step |
| `CleanupDurableJournalPrefix` | cleanup for a drain refused as busy, or for a waiting sibling |
| `Open`, `SkipReplay`, `ReplayProve`, `ReplayCleanPrefix`, `ReplayFails`, `RefreshCheckpointFromSession` | startup, one volume after the other |
| `AcquireSnapshotReader`, `ReleaseReader`, `UnmountVolume`, `DrainAndStop`, `Crash` | the rest of a host's life |

A commit is one of four kinds: a write that publishes at once, a deferred write
(acceptance only), a drain of an accepted overlay, a replay.

Abstractions. Publication replaces the newest checkpoint atomically, which is what
`SelectionOldOrNew` shows of the publisher; an interrupted one may still have reused
the generations it did not have to keep (`Interrupted`). Retention keeps the
continuous chain from the oldest required checkpoint, because the planner loads that
chain and recovery walks it. A request enters the overlay when it is
accepted: a refused one is dropped with its staging. Whether capacity or retention
refuses is a free choice. The host is one that keeps serving after a failure
(the `BestEffort` policy), which allows more than `FailClosed`. One reader
stands for the at most 64. Containers with snapshots refuse some commits more (sibling cleanup
pending), which removes behaviours. Not modelled: raw snapshot recovery, quota and
snapshot management, shared-space figures, the compatibility ledger, held images,
detaching and activating a namespace at run time.

`AcceptedLog` says the same in three actions: a volume's log is accepted only
while no sibling waits for publication, is published whole and in order, and is marked no further
than published. `ImplementsAcceptedLog` maps `accepted` to the length of the
journal, `published` to the records in the newest checkpoint, `marked` to the
durable watermark.

## `DeferredCommit`

State: per volume the barrier (the `deferred_commit_...` fields), the sequences
accepted, published, durable and logged, the status of the log, whether the host still
serves, the gate's holder, the callbacks inside and the drain flag; per thread its step
and the volume it works for.

| Actions | Code |
|---|---|
| `EnterChange`, `EnterFlush`, `Lock`, `Leave` | admission of a callback, the gate, its answer |
| `NoneOwing`, `DrainSibling` | a volume of several drains the others before it accepts |
| `AcceptQueued`, `AcceptGrouped`, `WaitForDurability`, `AcceptInCommit`, `AcceptRefused` | acceptance: without waiting, waiting without the gate, or inside the coordinator's commit |
| `RequestDeferred` | the request to the worker |
| `Drain`, `Begin`, `BarrierEnds`, `Stopped`, `Commit`, `NotLogged`, `CommitFails`, `Finalize`, `FinalizeFails` | a commit and its barrier, by any thread |
| `Wake`, `FlushWal`, `FlushWalFails`, `TakeFailedTarget`, `LatchWalFailure`, `Claim`, `WorkerThrows`, `WorkerStops` | the deferred worker |
| `BeginShutdown`, `CallbacksDrained`, `StopWorker`, `JoinWorker` | the shutdown and its exit code |

`Init` chooses a host that mounts one volume directly or all volumes of a container: the
two accept in different ways. A commit and the finalization of its journal are one step
each; `ContainerCoordinator` has their insides.

Left out: requests without a target, batches of access times, open write handles (they
only postpone), the age limit of a request (the code resets the first tick just before it
is compared, so it never decides), a worker that does not end in time, pins of siblings
that only need cleanup, the synchronous commits at namespace boundaries (the path of a
flush), the cohorts of grouped acceptance, volumes that are detached and attached again, and
the exit codes 12, 24 and 26. The worker recognises a changed request by its target where the code
compares the deadline: a new deadline for the same target only starts the wait again. It throws only while it
drains, where it holds the gate and a barrier; anywhere else the handler has less to undo and leaves the same state. A volume under callbacks without end postpones its deferred
commit without end; calls are bounded here, so `CallbacksAnswered` does not speak of that.

## `TransactionJournal`

State: the `log` and how much of it is `synced`; the manager `tm`; the `deferred`
durability state with its `lock` and the waiting threads; how far the host's startup is; and
as history which transactions were acknowledged, published and marked. A record has its
kind, sequence, transaction number and length or target; `SeedValid` is what
`SeedIdsFromJournalRecords` and `ValidateWalSemantics` accept, `Complete` what
`CollectAcceptedTransactions` asks beyond it, `Outstanding` the accepted transactions behind the durable
watermark, and `Replayed` what a restart hands the host: those, of a log that it admits, and nothing of
one that it refuses.

| Actions | Code |
|---|---|
| `Begin`, `RecordMutation`, `FlushPreparedRecords`, `Accept`, `Commit`, `Abort` | a transaction, with calls that fail before or after the bytes are there |
| `AcceptForDeferredCommit`, `WaitForExisting`, `CheckDurability`, `Notified`, `LockAppends`, `FlushPendingAppends`, `FlushFails`, `MarkDeferredAcceptanceDurabilityFailure` | deferred acceptance and its shared flush, step by step |
| `FlushAcceptedEvidence`, `Publish`, `MarkApfsDurableThrough`, `MarkCleanedThrough`, `Reseed` | the watermarks, as the host moves them |
| `ReplayAll`, `Mount` | startup: a verified prefix is marked and cleaned, the rest replayed, then marked |
| `ProcessEnds`, `PowerLoss` | any suffix that is not synced may go |

Appends compact a full log first. `published` includes a transaction whose effects the
checkpoint happens to have. A restart that refuses a log ending in a prepared record
without its marker is tested design (it fails closed); nothing is replayed from it. Left out: exhausted sequence numbers,
the proofs of clones and snapshots inside records, the pin census, protected journals,
leases of other processes.

## `WalCompaction`

State: `dirs`, the states of the directory since its last flush (the last is visible, a
power loss keeps a prefix); the contents of log and intent files with their durable
part; the step of the operation under way. `result`, `before`, `acked`, `floor` and
`written` are history.

| Actions | Code |
|---|---|
| `OpenExisting`, `CreateNew`, `RestoreMissingCanonical`, `Inspect`, ... | `EnsureAppendHandle` |
| `PersistAppend`, `PersistFlush`, `PersistTemp`, `PersistRename`, `ClearIntent`, ... | the intent file's states |
| `Resolve...`, `RollBackGuard`, `DeleteRetained`, ... | `ResolvePendingCompactionIntent` |
| `BeginCompaction`, `WriteTemp`, `CreateHardLink`, `ArmPublish`, `UnlinkCanonical`, `RenameReplacement`, `Reopen`, `Abandon`, ... | a compaction |
| `AppendRecord`, `AppendTorn`, `FlushPendingAppends` | the log in use |
| `CallFails`, `FlushFails`, `TempFails`, `LinkFails`, ..., `ProcessEnds`, `PowerLoss` | faults |

`DurableLog` says what this is for: an acknowledged record at or above the floor of the
last compaction stays readable, and a record that is gone stays gone.
`ImplementsDurableLog` maps its `log` to what a reader would find now.

Assumptions: changes of a directory become durable in order; flushing a file makes
the creation of its name durable (NTFS); the intent file is opened for write-through, so
what was written to it is durable. Without the last, TLC finds a directory the
opening refuses. A call that fails may also fail to clean up: a temporary file stays behind as an orphan
(`Orphan`), and a failed flush closes the log when it belongs to an append and leaves it open otherwise. Left out: the lease and other processes, protected persistence, the Fusion
predecessor, startup evidence, the codec of records. `TransactionJournal` uses the log as
`DurableLog` states it.

## `PayloadSpool`

State: the two files as the process reads them (`seen`) and as a power loss leaves them
at worst (`stable`), removals that are not yet durable (`gone`); the spool's memory; the open
transaction; the accepted records with the watermarks; how far the checkpoint is; the step of
the host, which runs these operations under the mutation gate.

| Actions | Code |
|---|---|
| `Write`, `WriteFails`, `RecordMutation`, `RecordFails`, `DiscardSequence` | `AppendWithStatus` and the record that refers to it |
| `FlushPayloadBytes`, `PersistIndex`, `FlushFrame`, `FlushFails` | payload, then index |
| `AcceptMutationJournal`, `Drain`, `AppendAccepted`, `AcceptFails` | acceptance, with a flush unless every record carries its payload |
| `CommitApfs`, `CommitFails`, `FinalizeMutationJournal`, `MarkApfsDurableThrough`, `MarkFails` | publication and marks |
| `CleanupThroughSequence`, `UnlinkIndex`, `RemoveFile`, `RemovalFails`, `MarkCleanedThrough`, `MarkCleanedFails` | retirement of ranges |
| `LoadIndex`, `RebuildIndexFromReferences`, `RebuildRefused`, `ResolveUnindexedPayload`, `MarkVerifiedPrefix`, `RestoreInlineRange`, `FlushRestored`, `Replay`, `ReplayFails` | startup |
| `Kill`, `PowerLoss` | between any two steps; each unflushed cell old, new or torn |

A cell holds the number of the write whose bytes it has, its negative when they are not all
there, and `Gap` where `RestoreInlineRange` extended the file over places it did not write. A
frame of the index that cannot be written is cut off again, which may fail too (`FrameLeft`).

Assumptions: a write fills one cell; an absent file is an empty one; removals become durable in
order and before a later change of the journal (the order of the NTFS log: without it
a restored index of cleaned work would be refused); inline acceptance and deferred index
writes are on and the policy is `FailClosed`, the defaults, so that a failure stops
writing until the next start, except a finalization that could not flush, which the next
drain repeats. Accepting is one flush of the log, `TransactionJournal` has the rest. That a
start refuses over bytes nobody accepted is documented design (`docs/architecture.md`). There is one
more refusal, and `RefusedOnlyIfUnaccepted` names it: the file of finished work was removed,
`RestoreInlineRange` puts a payload back at its old offset behind the places of cleaned records, and the power goes
before `FlushFileBuffers`. The file may then end in the gap, for which no record accounts, and every later start refuses,
although every write was accepted. The payload is in its record, so nothing is lost; no document or test
speaks of the case, so it is listed as a hazard and not as a finding.
Left out: merging ranges of one sequence (the host never writes two), overlay reads,
protected persistence, continuation sealing, the legacy index, the `BestEffort` policy.

## `UpdateReplacement`

State: what the four paths hold, the receipt, the three processes, the updater's step and its
result. Actions: one per call of `UpdateReplacementEngine` (`Validate`,
`WaitForOldProcessExit`, `OpenTransition`, `RenameLauncher`, `InstallReady`, `VerifyInstalled`,
`StartLauncher`, `Poll`, `Recheck`, `ObserveLaunched`, `Commit`, and the rollback
`TerminateExact`, `HoldCandidate`, `RestoreBackup`, `StartOld`, `ObserveOld`, `DiscardCandidate`,
`RestorePreRollbackLayout`), a failure of any of them, the launcher and the tray that start, write
the receipt and end, a file that somebody else changes, and a killed updater. Left out:
cancellation, download and signature checks, payload extraction. A receipt that cannot be read, or whose
process cannot be observed, is to `Poll` one that is not there yet. Neither tray nor bootstrap
holds a single-instance mutex, so a readiness that comes too late can leave two trays; no
property denies it.

## Runs

| Run | Bounds | Properties |
|---|---|---|
| `checkpoint_objects` | 5 descriptor and 3 data blocks, 2 owned blocks, one object of 1 or 2 blocks, 2 attempts, 1 torn block; 46 000 states | `TypeOK`, `CurrentIntact`, `SelectionOldOrNew`, `SelectionNeverRegresses` |
| `checkpoint_rings` | 5 descriptor and 4 data blocks, up to 2 objects of 1 block, 3 attempts, pins; 85 000 states | `PinnedLoadable`, `PublishedIsSelected` |
| `container_commits` | 2 volumes, 2 records each, 5 checkpoints; 1 069 000 states | `TypeOK`, `DurableIsPublished`, `AppliedInOrder`, `RecoveryProvable`, `CensusCoversJournal`, `ReaderLoadable`, `PreimageCurrent`, `ImplementsAcceptedLog`, `StartupConcludes` |
| `deferred_commit` | 2 volumes or 1, 2 callback threads, 2 calls, 1 fault, one shutdown; 105 000 states | `TypeOK`, `FlushedIsPublished`, `ExitClean`, `GapStands`, `CallbacksAnswered` |
| `transaction_journal` | 3 transactions of up to 2 mutations, 8 sequences, a log of 7 records, 1 fault, 1 restart; 740 000 states | `TypeOK`, `AcknowledgedSurvive`, `MarkedStays`, `RefusedOnlyIfCut` |
| `journal_waiters` | 2 waiting threads, 2 transactions, a log of 5 records, 1 fault, 1 restart; 71 000 states | `AcknowledgedSurvive`, `WaitersAnswered` |
| `wal_compaction` | 7 files, 2 records, 1 fault, 2 crashes; 2 863 000 states | `TypeOK`, `NeverRefused`, `ResultStands`, `ImplementsDurableLog` |
| `wal_opening` | 7 files, 1 record, 2 faults, 1 crash; 359 000 states | `OpensEventually` |
| `payload_spool` | 4 writes, a flush every 2, a quota of 3; any number of faults and crashes; 77 000 states | `PayloadKept`, `RefusedOnlyIfUnaccepted`, `NothingLeftBehind` |
| `update_replacement` | 2 polls, 2 faults, 1 changed file; 7 000 states | `OldKept`, `ReportedRestored`, `FailedRollbackKeepsBoth`, `UpdateEnds` |
| `journal_stranded_watermark` | 4 transactions, a log of 10 records, 1 restart, no fault | `CompactionKeepsValid`, violated |
| `flush_after_failure` | 1 volume, 2 threads, 2 calls, 1 fault | `FlushFinalizes`, violated |

- `CurrentIntact`: the blocks of the generation the session works on stay on
  stable storage through every stage, failure and power loss.
- `SelectionOldOrNew`: stable storage always selects the view or the generation
  being published, the latter complete. `SelectionNeverRegresses`: never an older one
  than before.
- `PinnedLoadable`: a pinned generation loads by its exact number at any time.
- `PublishedIsSelected`: what reaches the last readback is what readers select.
- `DurableIsPublished`: a durable mark is true. `AppliedInOrder`: a checkpoint holds
  a prefix of the journal, each record once.
- `RecoveryProvable`: the proof obligations of the replay can be met for every
  record, from any state in which the host may be killed.
- `CensusCoversJournal`: pins and the owing flag never fall behind the journal.
- `ReaderLoadable`: a reader's generation is never reused. `PreimageCurrent`: no
  commit works on a stale session.
- `StartupConcludes`: startup ends, whatever fails.
- `FlushedIsPublished`: a flush that ran its commit and answers success is true of
  everything accepted before it was called. `ExitClean`: so is exit code 0.
- `GapStands`: behind a target that failed nothing is accepted or reported complete
  until it is durable.
- `CallbacksAnswered`: every callback ends and every request is taken up, with two volumes
  that drain each other's work.
- `AcknowledgedSurvive`: whatever part of the log a power loss keeps, an acknowledged
  transaction that no checkpoint holds is outstanding in it, and a start that validates this log replays
  it: the records it needs are all there. `MarkedStays`: one reported durable is not outstanding.
- `RefusedOnlyIfCut`: a restart refuses a log only if an append was cut short or a watermark
  is stranded (the finding below). `WaitersAnswered`: every waiting thread is answered.
- `NeverRefused`: no crash or failing call leads to a directory the opening refuses.
  `ResultStands`: what a compaction reported is true of every later opening.
  `OpensEventually`: an opening ends, however often it is interrupted.
- `PayloadKept`: accepted payload is on stable storage, or in its record, until a checkpoint has
  it, and a serving host can read it. `RefusedOnlyIfUnaccepted`: a start refuses only over bytes
  of a write, or over ranges, that no record ever had, or where the file ends in the gap of an
  interrupted restore; never over bytes of accepted or finished work. `NothingLeftBehind`: a host that owes nothing has an empty
  spool.
- `OldKept`: the old launcher is on disk until the update has succeeded. `ReportedRestored`: a
  result that says so is true. `FailedRollbackKeepsBoth`: a failed rollback deletes
  neither. `UpdateEnds`: the updater ends.

The bounds make the interesting cases happen: the rings wrap within two generations and
refuse the next one while a pin is held; two attempts suffice for debris of a failed
attempt to meet its retry, three to wrap with debris and pins; two records and
two volumes suffice for an overlay over an unresolved record, a sibling's publication between
acceptance and replay, and a prefix replay. Two volumes and two threads can
wait for each other's gates and barriers; a log of seven records fills and compacts under
three transactions; two crashes interrupt a compaction and then its recovery; four writes
fill the quota, cross the flush threshold twice and mix inline and other records. Crashes of the
container and the spool are not bounded. Larger instances were clean too: nine sequences and a log of eight (1 092 000 states); one volume with three
calls (341 000 states; 357 000 with two faults); two volumes with three calls and no fault (303 000,
`CallbacksAnswered` included): at no bound do two volumes owe at once, since the coordinator's commit refuses while
another one owes, so a drain meets a sibling that is waiting and never one that drains it in turn; a spool of four with five writes and a
threshold of two or three (388 000 and 362 000). Deadlock is
checked in the runs of the publisher, the container, the log's files and the spool; elsewhere the
system stops when its calls or restarts are used up, or when the updater has ended.

Each property has a mutant in `PROJECT.json`: a plausible slip in one mapped
definition (a dropped barrier, an unchecked ring, a gate opened early, a lost pin)
that violates it. The modules name them seeded faults.

Fairness. Only what one thread does without waiting for others is weakly fair, and nothing is
assumed of writers, of crashes or of calls succeeding:

- `container_commits`: the startup steps, which the main thread runs to the end;
- `deferred_commit`: each callback thread, worker and closing thread, once it has begun;
- `journal_waiters`: each waiting thread, whose wait is notified or times out;
- `wal_opening`: the opening, which the caller repeats until it succeeds;
- `update_replacement`: the updater, whose waits have limits.

## Findings

- `journal_stranded_watermark` (`TransactionManager.cpp`, `SafeCompactionFloor`). A startup that
  finds part of the log in the checkpoint marks that part, then the rest: a watermark
  that names an earlier boundary stands behind a later one. A compaction whose floor lies
  between keeps the watermark and drops its target, and the next start refuses the
  log. The compaction's test asks for "valid advancing transaction state".
- `flush_after_failure` (`main.cpp`, `CB_Flush`). After the worker failed to make an
  acknowledged close durable the host is in recovery; a flush then skips its commit and
  answers success. A test of the host says that a flush finalizes pending
  entries before it returns success.

## Proofs

TLC checks small instances; the theorems hold for every value of the constants. Each
component has an inductive invariant, found and checked with TLC on the instances of its run
before it was proved: it holds initially, every action keeps it, and it implies the properties.

`CheckpointPublisher_proofs` proves, for every size of the rings (positive naturals), every
set of owned blocks and object sizes, and every bound on attempts, transaction ids and torn
blocks (naturals),

- `TypeCorrect`: `Spec => []TypeOK`;
- `CurrentGenerationIntact`: `Spec => []CurrentIntact`.

`CurrentIntact` is not inductive: it needs that what a plan writes lies outside the footprint of the
view (`PlanSafe`), which follows from the planner's comparisons of ring ranges, and that every superblock
on the device is well formed, so that the view an opener builds is.

`CheckpointSelection_proofs` proves, under the same assumptions, what an opener selects:

- `OpenerSelectsOldOrNew`: `Spec => []SelectionOldOrNew`;
- `PinsStayLoadable`: `Spec => []PinnedLoadable`;
- `PublicationIsSelected`: `Spec => []PublishedIsSelected`;
- `SelectionIsMonotone`: `Spec => SelectionNeverRegresses`, an action property.

The first half is about data. Objects laid out from the cursor on, wrapping around the ring,
fill each block of the new range once (`Cursor`), and the map blocks cut the mappings
into shares that put together again are the mappings (`FlattenSeq`): so over a device that
holds the planned batch and the planned superblock, the loader finds a complete generation
with the planned mappings (`PlannedGeneration`). These facts are inductions, and are
obtained from a least counterexample, since the provers do not instantiate the induction rules. A
complete generation is decided by the blocks of its footprint alone (`FrameComplete`). The second half is the
invariant `SInv`. It adds to the one above that the view is complete on `disk` and on `seen`
(`OnDevice`); that the plan was drawn up against it (`PlanSound`); that a superblock on the
device is older than the view's, is the view's, or is the planned one over a durable
batch (`SuperblocksKnown`), which is what the barrier between batch and superblock is for; that
superblocks of one transaction id share one slot, on both images (`XidsApart`), so that debris of a failed attempt
and its retry are never two candidates; that a pinned generation is
complete, not in flight and outside what the plan writes (`Sheltered`); what the stage says of the
two images (`Progress`); and that a durable planned superblock is also what reads return
(`DurableIsSeen`), without which a flush could take back a selection. `SelectionKnown` concludes
which generation is selected.

`ContainerCoordinator_proofs` proves, for every set of volumes and every bound on records and
checkpoints (assumed: the volumes are finite and not the marker for none, both bounds positive naturals),

- `ContainerInvariant`: `Spec => []IInv`, and `ContainerTypeCorrect`: `Spec => []TypeOK`;
- `DurableRecordsArePublished`, `RecordsAreAppliedInOrder`, `RecoveryIsProvable`,
  `CensusIsComplete`, `ReadersStayLoadable`, `PreimagesAreCurrent`: the six invariants of
  its run;
- `ContainerImplementsAcceptedLog`: `Spec => ImplementsAcceptedLog`, the refinement.

None of the six is inductive. The argument that `IInv` spells out: the session a commit works
on is as new as the device (`XidInv`, `CommitInv`, `SessionInv`), because a volume that
owes work keeps its siblings from publishing; so a record names the newest checkpoint as its
source, and that checkpoint holds the volume as the record found it (`SourceInv`). The coordinator
pins the source before anyone can publish (`CensusInv`), so the floor that a publication, or
an interrupted one, leaves is never above it (`RetainedFloorIsBelow`). An overlay is
exactly the end of the journal that no checkpoint holds (`Overlay`), so a
publication makes every checkpoint a longer prefix of the journal (`ChainInv`,
`JournalInv`), replays and replays of replays included. `StartupInv` says in which order
volumes start. There is one lemma per action; `LogStep` maps each action to a step of
`AcceptedLog` or to a stutter.

`DeferredCommit_proofs` proves, for every set of volumes and callback threads, every bound on
calls and failures, and every choice of what the host is built to allow (assumed: the thread
sets are finite and pairwise disjoint),

- `DeferredInvariant`: `Spec => []IInv`, and `DeferredTypeCorrect`: `Spec => []TypeOK`;
- `FlushesArePublished`: `Spec => []FlushedIsPublished`;
- `CleanExits`: `Spec => []ExitClean`;
- `GapIsClosed`: `Spec => GapStands`, an action property.

The argument is about who may touch a volume. Whoever commits holds its gate (`GateInv`), but for
the shutdown, which has seen every callback leave and the worker end (`CloseInv`); so at
most one thread commits a volume and nobody accepts beside it (lemma `OneCommits`). Hence
what a commit published is still all that was accepted when it finalizes (`PublishedInv`),
which is what a flush and an exit code promise. A barrier in flight always has a thread that
will end it (`BarrierInv`), so behind a target that failed the volume is closed
for those who are about to accept (`GapInv`). `CallInv` counts the callbacks that may still
accept; it bounds the sequences, without it not even the types are inductive.

`PayloadSpool_proofs` proves, for every number of writes, flush threshold and quota
(naturals),

- `SpoolInvariant`: `Spec => []IInv`;
- `AcceptedPayloadKept`: `Spec => []PayloadKept`;
- `CellsInvariant`: `Spec => [](IInv /\ Cells)`;
- `RefusalsAreJustified`: `Spec => []RefusedOnlyIfUnaccepted`;
- `FinishedWorkLeavesNothing`: `Spec => []NothingLeftBehind`.

Half of the invariant holds at every moment, also while the host is down (`Stored`); half is about the
memory of the process at its step (`Running`). Payload that an accepted record needs is in both versions of
the file and no removal of the file is pending meanwhile (`Kept`), so neither a directory flush nor a power
loss loses it; a serving host has a range for it (`Live`), which keeps cleanup from removing the file. A range
belongs to a record that is not cleaned, to a buffered one or to the write in progress (`Origin`), so without any of
these nothing is left. An index is never there without bytes (`IndexBacked`), although the two
files are removed one after the other. What a start may refuse over needs a second invariant, `Cells`, about whose
bytes the cells are: those of a write lie only at the place of its record (`Placed`), records lie in the order of
their writes (`Ascending`), and the last cell that a start can find is not that of a cleaned record
(`Tails`, `Afresh`, `Vanished`), because the file is removed before its records count as cleaned. So a tail
that no record accounts for belongs to a write without a record, or is a gap.

`WalCompaction_proofs` proves, for every number of files, records, failing calls and crashes,

- `WalInvariant`: `Spec => []IInv`, and `WalTypeCorrect`: `Spec => []TypeOK`;
- `WalNeverRefused`: `Spec => []NeverRefused`;
- `WalResultStands`: `Spec => []ResultStands`;
- `WalImplementsDurableLog`: `Spec => ImplementsDurableLog`, the refinement.

`Stored` speaks of every directory that a power loss may leave, not only of the visible one: the
intent that it names explains it (`Good`, `Fits`); all of them make the same file the log, but for the
predecessor while the replacement's name is not durable (`Agree`); that file holds durably what was acknowledged, and nothing at or above
the floor that the visible log does not hold (`Covers`). `Control` says what each step of the operation in progress
relies on.

`TransactionJournal_proofs` proves, for every set of waiting threads and every bound on transactions,
sequence numbers, log size, faults and restarts,

- `JournalInvariant`: `Spec => []IInv`, and `JournalTypeCorrect`: `Spec => []TypeOK`;
- `AdmissionInvariant`: `Spec => [](IInv /\ Admission)`;
- `AcknowledgedAreReplayed`: `Spec => []AcknowledgedSurvive`;
- `MarkedAreNotReplayed`: `Spec => []MarkedStays`.

A compaction drops records from the front of the log, so the invariant says which it may not drop: the accept
markers of transactions that no checkpoint holds lie behind every commit marker and every durable
watermark's target (`OpenInv`), and those that are marked have a durable watermark behind
them (`MarkedInv`). A waiter may be told that its group is durable because every unflushed marker is covered by the
pending sequence and not by the durable one (`WaitInv`). A sequence number in use is not given
out again, although `Abort` gives buffered ones back (`UsedInv`). That a log which validates is also complete is a second
invariant, `Admission`: validation counts the prepared records before an accept marker, except
at the floor of a compaction, where it cannot; an accept marker is at a floor only if a commit marker or a durable
watermark passes it (`FloorInv`), so it is not replayed. For that the manager's own durable watermark must
be in the log (`PassedInv`) and the floors an append may bring must not be in use (`FirstInv`).

`UpdateReplacement_proofs` proves, for every limit of polls, faults and changed files
(naturals),

- `UpdateTypeCorrect`: `Spec => []TypeOK`;
- `OldLauncherKept`: `Spec => []OldKept`;
- `ExitCodeTrue`: `Spec => []ReportedRestored`;
- `FailedRollbackDeletesNothing`: `Spec => []FailedRollbackKeepsBoth`.

None of the three is inductive alone: each depends on which path holds which launcher at
which step. `LayoutInv` adds that (`PlacesOK`: for every step what the launcher, ready,
backup and hold paths may contain), which result goes with which step (`ResultOK`), and that the
new launcher is somewhere until the candidate is discarded (`NewKept`). `StepType` and
`StepLayout` go through the actions one by one.

Only model-checked, and why:

- `RefusedOnlyIfCut` of the journal: that a restart accepts a log is about the order of its records and about
  how many prepared records precede each marker (`PreparedBefore`, a cardinality), after any compaction; the
  invariant above says nothing of positions. `CompactionKeepsValid` is violated, as its run shows.
- Every liveness property (`StartupConcludes`, `OpensEventually`, `WaitersAnswered`, `UpdateEnds`,
  `CallbacksAnswered`): fairness and `ENABLED` are beyond the prover.

## Not modelled

The map covers a small part of the repository's lines. Most of the rest is data, which a
model of this kind abstracts: the encoding, parsing and checking of on-disk structures
(`ApfsFormat`, native readers, verifier, B-trees, `MetadataStore`'s rewriting of single operations,
compression, encryption), the translation of WinFsp's file operations, argument and
configuration handling, user interface, tests and tools. What has control worth modelling and is
left:

- **Spaceman allocator**: assumed never to hand out a block a loadable generation
  reaches. Its bitmaps and free queues are sequential arithmetic inside one commit.
- **Fusion and encrypted image publication**: each has a publication protocol of its own
  over two tiers or a separate journal; planned.
- **Volume format, resize and management**: offline tools on an unmounted container.
- **Native backend, service, command line and supervisor**: process supervision through a
  status and a control file; planned.
- **Byte-range locks, share modes, open handles**: pure decisions under one lock; planned.
- **IPC, tray, probe, mock backend**: a request and reply codec, user interface, test doubles.

## Plan

1. Done: `CheckpointPublisher` and `ContainerCoordinator` with `AcceptedLog`;
   `WalCompaction` with `DurableLog`, `TransactionJournal`, `PayloadSpool`; `DeferredCommit`;
   `UpdateReplacement`; the theorems above.
2. Proofs: the shape of the journal's groups (`RefusedOnlyIfCut`).
3. `FusionPublisher`: two tiers, mirror and anchors; the comment on the main anchor
   against the loader of the Fusion store.
4. `HostOwner` (native backend, supervisor): start or join an owner, retire it.
5. Pure decisions: byte-range locks and share modes, against reference definitions.
