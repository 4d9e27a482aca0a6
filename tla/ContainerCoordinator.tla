------------------------ MODULE ContainerCoordinator ------------------------
(***************************************************************************)
(* The volumes of one APFS container, mounted read-write by one host.      *)
(*                                                                         *)
(* Each volume keeps a write-ahead journal: an accepted record names the   *)
(* checkpoint it was staged on (its source).  The container has a single   *)
(* chain of checkpoints, so every publication goes through the             *)
(* coordinator (ContainerMountCoordinator), which serializes commits and   *)
(* asks the checkpoint publisher to keep the union of every volume's pins. *)
(* The host (FsHost) then marks the journal durable, cleans it and gives   *)
(* the pins back.  After a crash the host proves each record applied, or   *)
(* replays it on the volume it was accepted against.                       *)
(*                                                                         *)
(* A checkpoint is abstracted to what each volume holds: the sequence of   *)
(* journal records applied to it.  A publication replaces the newest       *)
(* checkpoint atomically (module CheckpointPublisher) and reuses the       *)
(* blocks of every generation older than the oldest one it must keep.      *)
(***************************************************************************)
EXTENDS Integers, Sequences, FiniteSets, FiniteSetsExt, SequencesExt

CONSTANTS
    Volumes,      \* volumes of the container
    NoVolume,     \* the owner of the commit lock when it is free
    MaxRecords,   \* bound on the records one volume's journal accepts
    MaxXid        \* bound on checkpoint transaction ids

ASSUME VolumesAssumption ==
    /\ IsFiniteSet(Volumes)
    /\ Volumes # {}
    /\ NoVolume \notin Volumes

ASSUME BoundsAssumption ==
    /\ MaxRecords \in Nat
    /\ MaxXid \in Nat \ {0}

VARIABLES
    \* the device
    ckpt,        \* ckpt[x][v]: the records of volume v that checkpoint x holds
    floor,       \* oldest checkpoint whose blocks are all intact
    \* the journal files
    wal,         \* wal[v]: the source checkpoint of every accepted record
    durable,     \* apfs_durable_sequence
    cleaned,     \* cleanup_sequence
    \* the coordinator
    up,          \* the container is open
    latched,     \* recovery_required_
    ckptXid,     \* checkpoint_xid_
    pins,        \* required_checkpoint_xids of every volume
    unapplied,   \* unapplied_accepted_work of every volume
    session,     \* the store each volume's session borrows
    commit,      \* the Commit that holds commit_mutex_
    reader,      \* checkpoint_ of the registered snapshot reader, or 0
    \* the host
    boot,        \* volumes whose startup has not finished
    phase,       \* where the holder of a volume's mutation gate is
    census       \* the journal census a pin refresh has read

device      == <<ckpt, floor>>
journal     == <<wal, durable, cleaned>>
coordinator == <<up, latched, ckptXid, pins, unapplied, session, commit, reader>>
host        == <<boot, phase, census>>
vars        == <<device, journal, coordinator, host>>

-----------------------------------------------------------------------------
(* State and helpers.                                                      *)

Kinds  == {"write", "defer", "drain", "replay"}
Stages == {"idle", "begun", "refused", "accepted", "blocked", "published"}
Phases == {"off", "startup", "proved", "replay", "serving", "published",
           "marked", "cleaned", "refresh", "settled", "degraded"}

Device == Len(ckpt)
Current(v) == ckpt[Device][v]

Idle == [vol |-> NoVolume, kind |-> "drain", stage |-> "idle", pre |-> 0,
         existing |-> FALSE, tried |-> FALSE]

Unmounted == [xid |-> 0, prepared |-> FALSE, pending |-> <<>>]
Loaded(prepared) == [xid |-> Device, prepared |-> prepared, pending |-> <<>>]

\* LoadRequiredCheckpointXidsSinceCleanup: sources of the records after seq.
Sources(w, seq) == {w[i] : i \in seq + 1 .. Len(w)}

HasUnappliedAcceptedWork(v) == durable[v] < Len(wal[v])

NoCensus == [pins |-> {}, unapplied |-> FALSE]
Census(v) == [pins |-> Sources(wal[v], cleaned[v]),
              unapplied |-> HasUnappliedAcceptedWork(v)]

\* The members of a set of record numbers, in the order of the journal.
InOrder(S) ==
    [k \in 1 .. Cardinality(S) |-> CHOOSE i \in S : Cardinality({j \in S : j <= i}) = k]

\* The records after the durable watermark that a checkpoint does not hold.
Missing(v, xid) ==
    InOrder({i \in durable[v] + 1 .. Len(wal[v]) : i \notin Range(ckpt[xid][v])})

\* Seeded fault: a publication keeps the pins of its own volume only.
RequiredUnionOwnVolume ==
    (IF commit.vol = NoVolume THEN {} ELSE pins[commit.vol])
      \union (IF reader = 0 THEN {} ELSE {reader})

\* Seeded fault: snapshot readers are left out of the union.
RequiredUnionNoReaders == UNION {pins[w] : w \in Volumes}

\* RequiredCheckpointXidUnionNoLock: every volume's pins and the readers.
RequiredUnion ==
    (UNION {pins[w] : w \in Volumes}) \union (IF reader = 0 THEN {} ELSE {reader})

\* Seeded fault: the retained range starts one generation early.
RetainedFloorOffByOne == Min(RequiredUnion \union {commit.pre}) - 1

\* The oldest generation a publication leaves intact: retention keeps the
\* continuous chain from the oldest required checkpoint to the preimage.
RetainedFloor == Min(RequiredUnion \union {commit.pre})

\* Seeded fault: the gate opens before the journal is marked.
MutationGateOpenAtPublish(v) == phase[v] \in {"serving", "published"}

\* Seeded fault: the gate opens while a pin refresh holds a census.
MutationGateOpenAtRefresh(v) == phase[v] \in {"serving", "refresh"}

\* mutation_callback_mutex: held from a commit to the end of its finalization.
MutationGateFree(v) == phase[v] = "serving"

HostServing == up /\ boot = {} /\ \A w \in Volumes : session[w].xid # 0

\* Where the host goes when a step of volume v fails.
AfterFailure(v) == IF v \in boot THEN "degraded" ELSE "serving"

-----------------------------------------------------------------------------
(* Commit: admission and preparation.                                      *)

ExistingAcceptedPending(v) == unapplied[v] /\ session[v].pending # <<>>

\* Seeded fault: a volume may commit over its own unresolved record.
AdmitsIgnoringOwnDebt(v, kind) ==
    \/ kind = "replay" /\ unapplied[v]
    \/ \A w \in Volumes \ {v} : ~unapplied[w]

\* The accepted-recovery check of CommitNoLock.
AcceptedWorkAdmits(v, kind) ==
    \/ kind = "replay" /\ unapplied[v]
    \/ \A w \in Volumes :
         unapplied[w] => w = v /\ ExistingAcceptedPending(v)

\* Seeded fault: a mounted session is never reloaded.
CanReuseAnyMounted(v) == session[v].xid # 0

CanReusePreparedSession(v) == session[v].prepared /\ session[v].xid = ckptXid

\* Admission, then the view the commit works on: the accepted overlay as it
\* stands, a prepared session, or a fresh load of the newest checkpoint.
BeginCommit(v, kind) ==
    /\ \/ kind # "replay" /\ HostServing /\ MutationGateFree(v)
       \/ kind = "replay" /\ phase[v] = "replay"
    /\ kind \in {"write", "defer"} => Len(wal[v]) < MaxRecords
    /\ commit = Idle
    /\ ~latched
    /\ session[v].xid # 0
    /\ AcceptedWorkAdmits(v, kind)
    /\ session[v].pending # <<>> => ExistingAcceptedPending(v)
    /\ LET existing == ExistingAcceptedPending(v)
           view == IF existing \/ CanReusePreparedSession(v)
                     THEN session[v] ELSE Loaded(TRUE)
       IN /\ kind = "replay" => view.xid = session[v].xid
          /\ session' = [session EXCEPT ![v] =
               IF kind = "replay" THEN [view EXCEPT !.pending = Missing(v, view.xid)]
                                  ELSE view]
          /\ commit' = [vol |-> v, kind |-> kind, stage |-> "begun",
                        pre |-> view.xid, existing |-> existing, tried |-> FALSE]
    /\ UNCHANGED <<device, journal, up, latched, ckptXid, pins, unapplied, reader, host>>

\* PrepareNativeWritePath fails before anything is staged.
CommitReloadFails(v) ==
    /\ \/ HostServing /\ MutationGateFree(v)
       \/ phase[v] = "replay"
    /\ commit = Idle
    /\ ~latched
    /\ AcceptedWorkAdmits(v, IF v \in boot THEN "replay" ELSE "write")
    /\ session[v].pending = <<>>
    /\ ~CanReusePreparedSession(v)
    /\ session' = [session EXCEPT ![v].prepared = FALSE]
    /\ phase' = [phase EXCEPT ![v] = AfterFailure(v)]
    /\ UNCHANGED <<device, journal, up, latched, ckptXid, pins, unapplied, commit,
                   reader, boot, census>>

\* Give the commit lock back after a refusal.  The staged view is dropped by a
\* rollback reload, or the coordinator latches: at once when the view also
\* holds accepted work, or because the reload failed.
RefuseCommit(v, holdsAccepted) ==
    /\ commit' = Idle
    /\ IF holdsAccepted
         THEN latched' = TRUE /\ UNCHANGED session
         ELSE \/ /\ session' = [session EXCEPT ![v] = Loaded(FALSE)]
                 /\ UNCHANGED latched
              \/ /\ session' = [session EXCEPT ![v].prepared = FALSE]
                 /\ latched' = TRUE

\* StageMutation, or a preparation or staging hook, refuses a request.
StagingFails(v) ==
    /\ commit.vol = v
    /\ commit.stage = "begun"
    /\ commit.kind # "drain"
    /\ RefuseCommit(v, commit.existing)
    /\ phase' = [phase EXCEPT ![v] = AfterFailure(v)]
    /\ UNCHANGED <<device, journal, up, ckptXid, pins, unapplied, reader, boot, census>>

\* A store with nothing pending passes CheckPendingAppleCapacity at once.
HasStagedWork == commit.kind # "drain" \/ commit.existing

\* CheckPendingAppleCapacity refuses, before any acceptance.
CapacityRefused(v) ==
    /\ commit.vol = v
    /\ HasStagedWork
    /\ commit.stage \in {"begun", "refused"}
    /\ RefuseCommit(v, commit.existing \/ (commit.kind = "replay" /\ unapplied[v]))
    /\ phase' = [phase EXCEPT ![v] = AfterFailure(v)]
    /\ UNCHANGED <<device, journal, up, ckptXid, pins, unapplied, reader, boot, census>>

\* The planner found no room for the retained generations: clean the durable
\* prefix of the journal once, and go on with the pins that are left.  Pins the
\* cleanup may not add, or a staged source it may not drop, end the commit.
RetentionCleanup(v) ==
    /\ commit.vol = v
    /\ commit.stage = "begun" \/ (commit.stage = "accepted" /\ commit.kind = "write")
    /\ HasStagedWork
    /\ ~commit.tried
    /\ cleaned' = [cleaned EXCEPT ![v] = durable[v]]
    /\ LET before  == commit.stage = "begun"
           staged  == commit.kind # "drain"
           fresh   == Sources(wal[v], durable[v])
           allowed == pins[v] \union (IF before /\ staged THEN {commit.pre} ELSE {})
           valid   == /\ fresh \subseteq allowed
                      /\ fresh # allowed
                      /\ staged /\ (~before \/ unapplied[v]) => commit.pre \in fresh
       IN \/ /\ valid
             /\ pins' = [pins EXCEPT ![v] = fresh]
             /\ commit' = [commit EXCEPT !.tried = TRUE]
          \/ /\ commit' = [commit EXCEPT !.tried = TRUE,
                                         !.stage = IF before THEN "refused" ELSE "blocked"]
             /\ UNCHANGED pins
    /\ UNCHANGED <<device, wal, durable, up, latched, ckptXid, unapplied, session,
                   reader, host>>

-----------------------------------------------------------------------------
(* Commit: acceptance (the prepublication hook) and publication.           *)

\* The hook appends the record to the journal, naming the preimage, and gives
\* the coordinator the new census; the request is now part of the overlay.
Accept(v) ==
    /\ commit.vol = v
    /\ commit.stage = "begun"
    /\ commit.kind \in {"write", "defer"}
    /\ wal' = [wal EXCEPT ![v] = Append(@, commit.pre)]
    /\ pins' = [pins EXCEPT ![v] = @ \union Sources(wal'[v], cleaned[v])]
    /\ unapplied' = [unapplied EXCEPT ![v] = TRUE]
    /\ session' = [session EXCEPT ![v].pending = Append(@, Len(wal'[v]))]
    /\ commit' = [commit EXCEPT !.stage = "accepted"]
    /\ UNCHANGED <<device, durable, cleaned, up, latched, ckptXid, reader, host>>

\* Seeded fault: a failed hook is taken for a hook that accepted nothing.
KeepPinsOnHookFailure(v) == UNCHANGED <<pins, unapplied>>

\* A failed hook may still have accepted: keep the source, and the volume owes.
PinSourceOnHookFailure(v) ==
    /\ pins' = [pins EXCEPT ![v] = @ \union {commit.pre}]
    /\ unapplied' = [unapplied EXCEPT ![v] = TRUE]

\* The hook fails.  The record may have reached the journal all the same.  A
\* host that did not see the acceptance rescans its journal; one that did (only
\* its census failed) leaves the pins as they are.
AcceptFails(v) ==
    /\ commit.vol = v
    /\ commit.stage = "begun"
    /\ commit.kind \in {"write", "defer"}
    /\ \/ /\ UNCHANGED wal
          /\ phase' = [phase EXCEPT ![v] = "cleaned"]
       \/ /\ wal' = [wal EXCEPT ![v] = Append(@, commit.pre)]
          /\ \E p \in {"cleaned", "serving"} : phase' = [phase EXCEPT ![v] = p]
    /\ PinSourceOnHookFailure(v)
    /\ RefuseCommit(v, commit.existing \/ commit.kind = "defer")
    /\ UNCHANGED <<device, durable, cleaned, up, ckptXid, reader, boot, census>>

\* Acceptance is the whole of a deferred commit; a worker publishes it later.
DeferPublication(v) ==
    /\ commit.vol = v
    /\ commit.stage = "accepted"
    /\ commit.kind = "defer"
    /\ commit' = Idle
    /\ UNCHANGED <<device, journal, up, latched, ckptXid, pins, unapplied, session,
                   reader, host>>

ReadyToPublish(v) ==
    /\ commit.vol = v
    /\ \/ commit.stage = "accepted" /\ commit.kind = "write"
       \/ commit.stage = "begun" /\ commit.kind \in {"drain", "replay"}

NothingToCommit(v) ==
    /\ ReadyToPublish(v)
    /\ session[v].pending = <<>>
    /\ ckptXid' = Max({ckptXid, session[v].xid})
    /\ commit' = Idle
    /\ phase' = [phase EXCEPT ![v] = "published"]
    /\ UNCHANGED <<device, journal, up, latched, pins, unapplied, session, reader,
                   boot, census>>

\* The new checkpoint is selected on the device.  The plan holds only against
\* the checkpoint it was made for, and only if every pinned one still loads.
PublishDevice(v) ==
    /\ ReadyToPublish(v)
    /\ session[v].pending # <<>>
    /\ commit.pre = Device
    /\ RequiredUnion \subseteq floor .. Device
    /\ Device < MaxXid
    /\ ckpt' = Append(ckpt, [ckpt[commit.pre] EXCEPT ![v] = @ \o session[v].pending])
    /\ floor' = RetainedFloor
    /\ commit' = [commit EXCEPT !.stage = "published"]
    /\ UNCHANGED <<journal, up, latched, ckptXid, pins, unapplied, session, reader, host>>

\* The store has reloaded what it published: no other prepared session is valid.
PublishComplete(v) ==
    /\ commit.vol = v
    /\ commit.stage = "published"
    /\ ckptXid' = Max({ckptXid, Device})
    /\ session' = [w \in Volumes |-> IF w = v THEN Loaded(TRUE)
                                     ELSE [session[w] EXCEPT !.prepared = FALSE]]
    /\ unapplied' = [unapplied EXCEPT ![v] = @ /\ commit.kind = "replay"]
    /\ commit' = Idle
    /\ phase' = [phase EXCEPT ![v] = "published"]
    /\ UNCHANGED <<device, journal, up, latched, pins, reader, boot, census>>

\* What an interrupted publication may have done to the generations it does
\* not have to keep.
Interrupted ==
    \/ UNCHANGED floor
    \/ /\ commit.vol # NoVolume
       /\ ReadyToPublish(commit.vol)
       /\ RequiredUnion \subseteq floor .. Device
       /\ floor' = RetainedFloor

\* Publication fails, before or after the device selected the new checkpoint:
\* accepted work is at stake, so the coordinator latches and keeps the view.
PublishFails(v) ==
    /\ ReadyToPublish(v) \/ (commit.vol = v /\ commit.stage \in {"blocked", "published"})
    /\ session[v].pending # <<>>
    /\ Interrupted
    /\ latched' = TRUE
    /\ commit' = Idle
    /\ phase' = [phase EXCEPT ![v] = AfterFailure(v)]
    /\ UNCHANGED <<ckpt, journal, up, ckptXid, pins, unapplied, session, reader,
                   boot, census>>

\* The host's verifier rejects what was published (compressed content): the
\* checkpoint is accounted for, the volume still owes, the coordinator latches.
VerifierFails(v) ==
    /\ commit.vol = v
    /\ commit.stage = "published"
    /\ commit.kind = "write"
    /\ ckptXid' = Max({ckptXid, Device})
    /\ session' = [session EXCEPT ![v] = [Loaded(FALSE) EXCEPT !.prepared = session[v].prepared]]
    /\ latched' = TRUE
    /\ commit' = Idle
    /\ phase' = [phase EXCEPT ![v] = "serving"]
    /\ UNCHANGED <<device, journal, up, pins, unapplied, reader, boot, census>>

-----------------------------------------------------------------------------
(* The host: finalization of the journal, under the volume's gate.         *)

\* CommitMutationJournalBestEffort; at startup the replay first verifies that
\* every record is applied.
MarkDurable(v) ==
    /\ phase[v] = "published"
    /\ v \in boot => Missing(v, session[v].xid) = <<>>
    /\ durable' = [durable EXCEPT ![v] = Len(wal[v])]
    /\ phase' = [phase EXCEPT ![v] = "marked"]
    /\ UNCHANGED <<device, wal, cleaned, coordinator, boot, census>>

MarkCleaned(v) ==
    /\ phase[v] = "marked"
    /\ cleaned' = [cleaned EXCEPT ![v] = durable[v]]
    /\ phase' = [phase EXCEPT ![v] = "cleaned"]
    /\ UNCHANGED <<device, wal, durable, coordinator, boot, census>>

\* CleanupDurableJournalPrefixWithoutPinRefresh while serving: a drain that was
\* refused as busy retires what is durable, and so does a settled sibling whose
\* old pins another volume waits for.  The pin refresh follows.
CleanupDurableJournalPrefix(v) ==
    /\ HostServing
    /\ MutationGateFree(v)
    /\ commit.vol # v
    /\ \/ cleaned[v] < durable[v]
       \/ /\ durable[v] = Len(wal[v])
          /\ \E x \in pins[v] : x < ckptXid
    /\ cleaned' = [cleaned EXCEPT ![v] = durable[v]]
    /\ phase' = [phase EXCEPT ![v] = "cleaned"]
    /\ UNCHANGED <<device, wal, durable, coordinator, boot, census>>

\* RefreshManifestCheckpointPinsAfterCleanup: read the journal's census ...
LoadCensus(v) ==
    /\ phase[v] = "cleaned"
    /\ census' = [census EXCEPT ![v] = Census(v)]
    /\ phase' = [phase EXCEPT ![v] = "refresh"]
    /\ UNCHANGED <<device, journal, coordinator, boot>>

\* UpdateRequiredCheckpointXids refuses pins it cannot have issued.
CensusAcceptable(c) ==
    /\ \A x \in c.pins : x <= ckptXid
    /\ c.unapplied => c.pins # {}

\* ... and hand it to the coordinator, once its commit lock is free.
UpdatePins(v) ==
    /\ phase[v] = "refresh"
    /\ commit = Idle
    /\ CensusAcceptable(census[v])
    /\ pins' = [pins EXCEPT ![v] = census[v].pins]
    /\ unapplied' = [unapplied EXCEPT ![v] = census[v].unapplied]
    /\ census' = [census EXCEPT ![v] = NoCensus]
    /\ phase' = [phase EXCEPT ![v] = IF v \in boot THEN "settled" ELSE "serving"]
    /\ UNCHANGED <<device, journal, up, latched, ckptXid, session, commit, reader, boot>>

\* Any step of the finalization may fail; what is left over stays in the
\* journal, and the volume goes on serving (or starts degraded).
FinalizeFails(v) ==
    /\ phase[v] \in {"published", "marked", "cleaned", "refresh"}
    /\ census' = [census EXCEPT ![v] = NoCensus]
    /\ phase' = [phase EXCEPT ![v] = AfterFailure(v)]
    /\ UNCHANGED <<device, journal, coordinator, boot>>

-----------------------------------------------------------------------------
(* The host: startup and recovery, one volume after the other.             *)

\* Open the container, mount every volume and register every journal's census.
Open ==
    /\ ~up
    /\ up' = TRUE
    /\ ckptXid' = Device
    /\ session' = [v \in Volumes |-> Loaded(FALSE)]
    /\ pins' = [v \in Volumes |-> Census(v).pins]
    /\ unapplied' = [v \in Volumes |-> Census(v).unapplied]
    /\ boot' = Volumes
    /\ phase' = [v \in Volumes |-> "startup"]
    /\ UNCHANGED <<device, journal, latched, commit, reader, census>>

StartupTurn(v) ==
    /\ v \in boot
    /\ phase[v] = "startup"
    /\ \A w \in boot \ {v} : phase[w] = "startup"

RecoveryPending(v) == HasUnappliedAcceptedWork(v) \/ cleaned[v] < durable[v]

SkipReplay(v) ==
    /\ StartupTurn(v)
    /\ ~RecoveryPending(v)
    /\ phase' = [phase EXCEPT ![v] = "settled"]
    /\ UNCHANGED <<device, journal, coordinator, boot, census>>

\* FindAcceptedReplayBoundary: the last checkpoint up to which the volume is
\* as it was at the record's source; the whole chain must still load.
ReplayBoundary(v, source, xid) ==
    Max({b \in source .. xid : \A x \in source .. b : ckpt[x][v] = ckpt[source][v]})

\* Every record is applied already, or was accepted against the volume as the
\* session has it now.
ReplayProvable(v, xid) ==
    \A i \in durable[v] + 1 .. Len(wal[v]) :
        /\ wal[v][i] = xid \/ wal[v][i] >= floor
        /\ \/ i \in Range(ckpt[xid][v])
           \/ ReplayBoundary(v, wal[v][i], xid) = xid

\* The longest run of applied records after the durable watermark.
VerifiedPrefix(v, xid) ==
    Max({n \in durable[v] .. Len(wal[v]) :
           \A i \in durable[v] + 1 .. n : i \in Range(ckpt[xid][v])})

\* Register the census, refresh a session that a sibling's replay left behind,
\* validate every record, and mark the applied prefix durable.
ReplayProve(v) ==
    /\ StartupTurn(v)
    /\ RecoveryPending(v)
    /\ LET stale == HasUnappliedAcceptedWork(v) /\ session[v].xid # ckptXid
           view  == IF stale THEN Loaded(TRUE) ELSE session[v]
       IN /\ stale => ~latched
          /\ ReplayProvable(v, view.xid)
          /\ session' = [session EXCEPT ![v] = view]
          /\ durable' = [durable EXCEPT ![v] = VerifiedPrefix(v, view.xid)]
    /\ pins' = [pins EXCEPT ![v] = Census(v).pins]
    /\ unapplied' = [unapplied EXCEPT ![v] = Census(v).unapplied]
    /\ phase' = [phase EXCEPT ![v] = "proved"]
    /\ UNCHANGED <<device, wal, cleaned, up, latched, ckptXid, commit, reader, boot, census>>

\* CleanupDurableJournalPrefixBestEffort, pin refresh included.
ReplayCleanPrefix(v) ==
    /\ phase[v] = "proved"
    /\ IF cleaned[v] < durable[v]
         THEN /\ cleaned' = [cleaned EXCEPT ![v] = durable[v]]
              /\ pins' = [pins EXCEPT ![v] = Sources(wal[v], durable[v])]
              /\ unapplied' = [unapplied EXCEPT ![v] = HasUnappliedAcceptedWork(v)]
         ELSE UNCHANGED <<cleaned, pins, unapplied>>
    /\ phase' = [phase EXCEPT ![v] =
         IF Missing(v, session[v].xid) = <<>> THEN "published" ELSE "replay"]
    /\ UNCHANGED <<device, wal, durable, up, latched, ckptXid, session, commit, reader,
                   boot, census>>

\* A step of the replay fails: the volume keeps its journal and is not written.
ReplayFails(v) ==
    /\ \/ StartupTurn(v) /\ RecoveryPending(v)
       \/ v \in boot /\ phase[v] \in {"proved", "replay"} /\ commit = Idle
    /\ phase' = [phase EXCEPT ![v] = "degraded"]
    /\ UNCHANGED <<device, journal, coordinator, boot, census>>

\* Seeded fault: a volume whose replay failed does not end its startup.
RefreshOnlySettled(v) ==
    /\ v \in boot
    /\ phase[v] = "settled"
    /\ ckptXid' = Max({ckptXid, session[v].xid})
    /\ session' = [w \in Volumes |-> [session[w] EXCEPT !.prepared = FALSE]]
    /\ boot' = boot \ {v}
    /\ phase' = [phase EXCEPT ![v] = "serving"]
    /\ UNCHANGED <<device, journal, up, latched, pins, unapplied, commit, reader, census>>

\* The end of a volume's startup: no session may be reused as prepared.
RefreshCheckpointFromSession(v) ==
    /\ v \in boot
    /\ phase[v] \in {"settled", "degraded"}
    /\ ckptXid' = Max({ckptXid, session[v].xid})
    /\ session' = [w \in Volumes |-> [session[w] EXCEPT !.prepared = FALSE]]
    /\ boot' = boot \ {v}
    /\ phase' = [phase EXCEPT ![v] = IF phase[v] = "settled" THEN "serving" ELSE "degraded"]
    /\ UNCHANGED <<device, journal, up, latched, pins, unapplied, commit, reader, census>>

-----------------------------------------------------------------------------
(* Snapshot readers, shutdown and crash.                                   *)

AcquireSnapshotReader ==
    /\ HostServing
    /\ commit = Idle
    /\ ~latched
    /\ \A w \in Volumes : ~unapplied[w]
    /\ reader = 0
    /\ reader' = ckptXid
    /\ UNCHANGED <<device, journal, up, latched, ckptXid, pins, unapplied, session,
                   commit, host>>

ReleaseReader ==
    /\ reader # 0
    /\ reader' = 0
    /\ UNCHANGED <<device, journal, up, latched, ckptXid, pins, unapplied, session,
                   commit, host>>

\* After serving ends the host unmounts its volumes; an overlay that was not
\* drained is dropped, its records stay in the journal.
UnmountVolume(v) ==
    /\ up
    /\ boot = {}
    /\ \A w \in Volumes : phase[w] \in {"serving", "degraded", "off"}
    /\ commit = Idle
    /\ session[v].xid # 0
    /\ session' = [session EXCEPT ![v] = Unmounted]
    /\ phase' = [phase EXCEPT ![v] = "off"]
    /\ UNCHANGED <<device, journal, up, latched, ckptXid, pins, unapplied, commit,
                   reader, boot, census>>

\* Everything the process held in memory.
ForgetHostState ==
    /\ up' = FALSE
    /\ latched' = FALSE
    /\ ckptXid' = 0
    /\ pins' = [v \in Volumes |-> {}]
    /\ unapplied' = [v \in Volumes |-> FALSE]
    /\ session' = [v \in Volumes |-> Unmounted]
    /\ commit' = Idle
    /\ reader' = 0
    /\ boot' = {}
    /\ phase' = [v \in Volumes |-> "off"]
    /\ census' = [v \in Volumes |-> NoCensus]

\* Waits for the commit lock and closes the readers.
DrainAndStop ==
    /\ up
    /\ boot = {}
    /\ \A v \in Volumes : phase[v] = "off"
    /\ commit = Idle
    /\ ForgetHostState
    /\ UNCHANGED <<device, journal>>

Crash ==
    /\ up
    /\ Interrupted
    /\ ForgetHostState
    /\ UNCHANGED <<ckpt, journal>>

Init ==
    /\ ckpt = <<[v \in Volumes |-> <<>>]>>
    /\ floor = 1
    /\ wal = [v \in Volumes |-> <<>>]
    /\ durable = [v \in Volumes |-> 0]
    /\ cleaned = [v \in Volumes |-> 0]
    /\ up = FALSE
    /\ latched = FALSE
    /\ ckptXid = 0
    /\ pins = [v \in Volumes |-> {}]
    /\ unapplied = [v \in Volumes |-> FALSE]
    /\ session = [v \in Volumes |-> Unmounted]
    /\ commit = Idle
    /\ reader = 0
    /\ boot = {}
    /\ phase = [v \in Volumes |-> "off"]
    /\ census = [v \in Volumes |-> NoCensus]

CommitStep(v) ==
    \/ \E kind \in Kinds : BeginCommit(v, kind)
    \/ CommitReloadFails(v)
    \/ StagingFails(v)
    \/ CapacityRefused(v)
    \/ RetentionCleanup(v)
    \/ Accept(v)
    \/ AcceptFails(v)
    \/ DeferPublication(v)
    \/ NothingToCommit(v)
    \/ PublishDevice(v)
    \/ PublishComplete(v)
    \/ PublishFails(v)
    \/ VerifierFails(v)

HostStep(v) ==
    \/ MarkDurable(v)
    \/ MarkCleaned(v)
    \/ CleanupDurableJournalPrefix(v)
    \/ LoadCensus(v)
    \/ UpdatePins(v)
    \/ FinalizeFails(v)
    \/ SkipReplay(v)
    \/ ReplayProve(v)
    \/ ReplayCleanPrefix(v)
    \/ ReplayFails(v)
    \/ RefreshCheckpointFromSession(v)
    \/ UnmountVolume(v)

Next ==
    \/ \E v \in Volumes : CommitStep(v) \/ HostStep(v)
    \/ AcquireSnapshotReader
    \/ ReleaseReader
    \/ Open
    \/ DrainAndStop
    \/ Crash

Spec == Init /\ [][Next]_vars

\* The startup loop runs on the main thread, which keeps running while the
\* process lives: whatever volume's turn it is, its next step is taken.
StartupStep == \E v \in boot : CommitStep(v) \/ HostStep(v)

FairSpec == Spec /\ WF_vars(StartupStep)

-----------------------------------------------------------------------------
(* Properties.                                                             *)

\* Every watermark, pin and checkpoint number stays inside its bound, and every
\* session, commit and phase is one the host can be in.
TypeOK ==
    /\ ckpt \in Seq([Volumes -> Seq(1 .. MaxRecords)])
    /\ Len(ckpt) \in 1 .. MaxXid
    /\ floor \in 1 .. MaxXid
    /\ wal \in [Volumes -> Seq(1 .. MaxXid)]
    /\ durable \in [Volumes -> 0 .. MaxRecords]
    /\ cleaned \in [Volumes -> 0 .. MaxRecords]
    /\ up \in BOOLEAN
    /\ latched \in BOOLEAN
    /\ ckptXid \in 0 .. MaxXid
    /\ pins \in [Volumes -> SUBSET (1 .. MaxXid)]
    /\ unapplied \in [Volumes -> BOOLEAN]
    /\ session \in [Volumes -> [xid : 0 .. MaxXid, prepared : BOOLEAN,
                                pending : Seq(1 .. MaxRecords)]]
    /\ commit \in [vol : Volumes \union {NoVolume}, kind : Kinds, stage : Stages,
                   pre : 0 .. MaxXid, existing : BOOLEAN, tried : BOOLEAN]
    /\ reader \in 0 .. MaxXid
    /\ boot \subseteq Volumes
    /\ phase \in [Volumes -> Phases]
    /\ census \in [Volumes -> [pins : SUBSET (1 .. MaxXid), unapplied : BOOLEAN]]

\* A record the journal calls durable is in the newest checkpoint: finalization
\* marks the whole journal, so nothing may be accepted between a publication
\* and its mark, and no drain may take "nothing to commit" for a proof.
DurableIsPublished ==
    \A v \in Volumes : 1 .. durable[v] \subseteq Range(Current(v))

\* Every checkpoint of a volume holds a prefix of its journal, each record once
\* and in order, across replays, retries and lost receipts.
AppliedInOrder ==
    \A v \in Volumes :
        \E n \in 0 .. Len(wal[v]) : Current(v) = [i \in 1 .. n |-> i]

\* Whatever happens, a restart can decide every accepted record: its source
\* checkpoint still loads, and a record that is in no checkpoint was accepted
\* against the volume as the newest checkpoint has it.
RecoveryProvable ==
    \A v \in Volumes : \A i \in cleaned[v] + 1 .. Len(wal[v]) :
        /\ wal[v][i] >= floor
        /\ \/ i \in Range(Current(v))
           \/ ckpt[wal[v][i]][v] = Current(v)

\* The coordinator's census never forgets the journal: every source still
\* needed is pinned, and a volume with unpublished records is marked.
CensusCoversJournal ==
    up => \A v \in Volumes :
            /\ Sources(wal[v], cleaned[v]) \subseteq pins[v]
            /\ (\E i \in 1 .. Len(wal[v]) : i \notin Range(Current(v))) => unapplied[v]

\* A registered snapshot reader's checkpoint keeps its blocks.
ReaderLoadable == reader # 0 => reader >= floor

\* A commit is staged and journalled on the newest checkpoint: no session,
\* reused or holding an accepted overlay, is stale when a commit works on it.
PreimageCurrent ==
    commit.stage \in {"begun", "accepted"} => commit.pre = Device

\* Startup never hangs: whatever the journals hold and whatever step of a
\* replay fails, the loop over the volumes ends (or the process dies).
StartupConcludes == []<>(boot = {})

\* The container implements the accepted log: every acceptance is published
\* once, in order and with all before it, while no sibling has a claim.
AL == INSTANCE AcceptedLog WITH
        accepted  <- [v \in Volumes |-> Len(wal[v])],
        published <- [v \in Volumes |-> Len(Current(v))],
        marked    <- durable

\* Every step of the host, the coordinator and a crash is a step of that log.
ImplementsAcceptedLog == AL!Spec
=============================================================================
