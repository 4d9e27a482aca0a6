------------------------ MODULE CheckpointPublisher ------------------------
(***************************************************************************)
(* Publication and selection of APFS container checkpoints on one store.   *)
(*                                                                         *)
(* The container keeps two rings of blocks, a descriptor ring (checkpoint  *)
(* maps followed by a superblock) and a data ring (the ephemeral objects   *)
(* the maps point at).  A publication plans the next generation against    *)
(* the selected one (PlanAppleCheckpointPublication), then writes it in    *)
(* two flushed steps, the superblock last                                  *)
(* (ExecuteAppleCheckpointPublication).  Whoever opens the container next  *)
(* scans the descriptor ring and selects the newest complete generation    *)
(* (LoadContainerCheckpointView).                                          *)
(*                                                                         *)
(* Between two flushes the device may persist any subset of the writes it  *)
(* accepted, and may tear a block.  Block bytes are abstracted to records: *)
(* a checksum holds exactly when the bytes come from one planned write, so *)
(* every block carries the number of the publication attempt that built    *)
(* it, and a torn block parses as nothing.                                 *)
(***************************************************************************)
EXTENDS Integers, Sequences, FiniteSets, SequencesExt

CONSTANTS
    DescCount,    \* xp_desc_block_count: slots of the descriptor ring
    DataCount,    \* xp_data_block_count: slots of the data ring
    OwnedBlocks,  \* blocks outside the rings that the allocator hands out
    MaxOid,       \* bound on ephemeral object ids
    ObjectSizes,  \* sizes, in blocks, an ephemeral object may have
    MapCapacity,  \* mappings per checkpoint-map block
    MaxXid,       \* bound on transaction ids
    MaxAttempt,   \* bound on publication attempts
    MaxTorn       \* bound on the blocks torn by one failure

ASSUME GeometryAssumption ==
    /\ DescCount \in Nat \ {0}
    /\ DataCount \in Nat \ {0}
    /\ MapCapacity \in Nat \ {0}

ASSUME RequestAssumption ==
    /\ MaxOid \in Nat \ {0}
    /\ ObjectSizes \subseteq Nat \ {0}
    /\ MaxXid \in Nat \ {0}
    /\ MaxAttempt \in Nat
    /\ MaxTorn \in Nat

VARIABLES
    disk,      \* what stable storage holds
    seen,      \* what a read returns: stable storage under the unflushed writes
    view,      \* the generation last reported durable, or found by an opener
    pc,        \* where the writer is in a publication
    plan,      \* the publication being executed
    required,  \* checkpoint xids that must stay loadable (pins of other owners)
    attempt    \* number of publication attempts planned so far

vars == <<disk, seen, view, pc, plan, required, attempt>>

-----------------------------------------------------------------------------
(* Blocks and what they hold.                                              *)

Spaceman == 1   \* spaceman_oid: the one object every checkpoint must map

Desc(i)  == <<"desc", i>>
Data(i)  == <<"data", i>>
Owned(b) == <<"owned", b>>

Blocks == {Desc(i) : i \in 0 .. DescCount - 1}
            \union {Data(i) : i \in 0 .. DataCount - 1}
            \union {Owned(b) : b \in OwnedBlocks}

Blank == [kind |-> "blank"]
Torn  == [kind |-> "torn"]

ObjectBlock(a, xid, oid, size, k) ==
    [kind |-> "object", attempt |-> a, xid |-> xid, oid |-> oid,
     size |-> size, ordinal |-> k]

MapBlock(a, xid, slot, last, maps) ==
    [kind |-> "map", attempt |-> a, xid |-> xid, slot |-> slot,
     last |-> last, maps |-> maps]

PayloadBlock(a) == [kind |-> "payload", attempt |-> a]

NoView == [found |-> FALSE, image |-> [b \in {} |-> Blank]]

\* RingRange: the slots index, index + 1, ... of a ring, wrapping at its end.
RingRange(index, length, count) ==
    {(index + k) % count : k \in 0 .. length - 1}

RingFieldsValid(index, length, next, count) ==
    /\ index \in 0 .. count - 1
    /\ length \in 0 .. count
    /\ next = (index + length) % count

RingRangesOverlap(i1, n1, i2, n2, count) ==
    RingRange(i1, n1, count) \intersect RingRange(i2, n2, count) # {}

-----------------------------------------------------------------------------
(* Selection: LoadContainerCheckpointView.                                  *)

\* A mapped object is complete: inside the superblock's data range, of its
\* generation, and every block from the same write (the object's checksum).
ValidateMappedObject(dev, sb, m) ==
    /\ m.size \in 1 .. DataCount
    /\ \E o \in 0 .. sb.dataLen - m.size : m.first = (sb.dataIndex + o) % DataCount
    /\ LET head == dev[Data(m.first)] IN
         /\ head.kind = "object"
         /\ head.xid = sb.xid
         /\ \A k \in 0 .. m.size - 1 :
              dev[Data((m.first + k) % DataCount)]
                = ObjectBlock(head.attempt, sb.xid, m.oid, m.size, k)

MapSlot(sb, k) == (sb.descIndex + k) % DescCount

\* The mappings of the superblock's map blocks, in ring order.
Mappings(dev, sb) ==
    FlattenSeq([k \in 1 .. sb.descLen - 1 |-> dev[Desc(MapSlot(sb, k - 1))].maps])

ParseCheckpointMapBlocks(dev, sb) ==
    \A k \in 0 .. sb.descLen - 2 :
        LET m == dev[Desc(MapSlot(sb, k))] IN
          /\ m.kind = "map"
          /\ m.slot = MapSlot(sb, k)
          /\ m.xid = sb.xid
          /\ m.last = (k = sb.descLen - 2)

Oids(maps) == {maps[i].oid : i \in DOMAIN maps}

\* The superblock in descriptor slot c heads a complete generation.
CompleteCandidate(dev, c) ==
    LET sb == dev[Desc(c)] IN
      /\ sb.kind = "nxsb"
      /\ RingFieldsValid(sb.descIndex, sb.descLen, sb.descNext, DescCount)
      /\ sb.descLen # 0
      /\ c = (sb.descNext + DescCount - 1) % DescCount
      /\ RingFieldsValid(sb.dataIndex, sb.dataLen, sb.dataNext, DataCount)
      /\ ParseCheckpointMapBlocks(dev, sb)
      /\ LET maps == Mappings(dev, sb) IN
           /\ Cardinality(Oids(maps)) = Len(maps)
           /\ \A i \in DOMAIN maps : ValidateMappedObject(dev, sb, maps[i])
           /\ Spaceman \in Oids(maps)

\* The blocks a generation occupies: its ranges of both rings and the root of
\* its object map.
Footprint(sb) ==
    {Desc(d) : d \in RingRange(sb.descIndex, sb.descLen, DescCount)}
      \union {Data(d) : d \in RingRange(sb.dataIndex, sb.dataLen, DataCount)}
      \union {Owned(sb.omap)}

BuildCheckpointCandidate(dev, c) ==
    LET sb == dev[Desc(c)]
    IN  [found |-> TRUE, sb |-> sb, maps |-> Mappings(dev, sb),
         image |-> [b \in Footprint(sb) |-> dev[b]]]

\* The newest complete generation; the lowest slot wins a tie.
LoadContainerCheckpointView(dev) ==
    LET C == {c \in 0 .. DescCount - 1 : CompleteCandidate(dev, c)}
        newest(c) == \A d \in C : \/ dev[Desc(d)].xid < dev[Desc(c)].xid
                                  \/ dev[Desc(d)].xid = dev[Desc(c)].xid /\ c <= d
    IN  IF C = {} THEN NoView
        ELSE BuildCheckpointCandidate(dev, CHOOSE c \in C : newest(c))

SelectedXid(dev) ==
    LET s == LoadContainerCheckpointView(dev) IN IF s.found THEN s.sb.xid ELSE 0

\* exact_checkpoint_xid: a unique complete generation of that xid, or nothing.
LoadExactCheckpointView(dev, xid) ==
    LET C == {c \in 0 .. DescCount - 1 :
                CompleteCandidate(dev, c) /\ dev[Desc(c)].xid = xid}
    IN  IF Cardinality(C) # 1 THEN NoView
        ELSE BuildCheckpointCandidate(dev, CHOOSE c \in C : TRUE)

SameCheckpoint(v, w) == v.found /\ w.found /\ v.sb = w.sb /\ v.maps = w.maps

-----------------------------------------------------------------------------
(* Planning: PlanAppleCheckpointPublication.                                *)

\* A request: the ephemeral objects (oid -> size), the next object id, the
\* allocator-owned blocks to write and, among them, a new object-map root.
Requests ==
    [ephemeral : UNION {[S -> ObjectSizes] : S \in SUBSET (1 .. MaxOid)},
     nextOid   : 1 .. MaxOid + 1,
     writes    : SUBSET OwnedBlocks,
     omap      : SUBSET OwnedBlocks]

\* Historical generations the plan must keep: the pins below the current one.
Retained(dev, cur) == {LoadExactCheckpointView(dev, x) : x \in required \ {cur.sb.xid}}

RetentionValid(dev, cur) ==
    \A x \in required : /\ x \in 1 .. cur.sb.xid
                        /\ x # cur.sb.xid => LoadExactCheckpointView(dev, x).found

\* The copy-on-write allocator never hands out a block that the selected or a
\* retained generation reaches.
AllocatorOwned(dev, cur, req) ==
    /\ \A b \in req.writes : \A v \in Retained(dev, cur) \union {cur} : b # v.sb.omap
    /\ Cardinality(req.omap) <= 1
    /\ req.omap \subseteq req.writes

\* Every object the current generation maps is supplied again or retired; the
\* space manager may not be retired; a new object takes a reserved id.
EphemeralSetComplete(cur, req) ==
    /\ Spaceman \in DOMAIN req.ephemeral
    /\ cur.sb.nextOid <= req.nextOid
    /\ \A oid \in DOMAIN req.ephemeral \ Oids(cur.maps) :
         oid \in cur.sb.nextOid .. req.nextOid - 1

\* The loop that copies the entries of l at the places I.
Selected(l, I) ==
    LET copied[i \in 0 .. Len(l)] ==
            IF i = 0 THEN <<>>
            ELSE IF i \in I THEN Append(copied[i - 1], l[i]) ELSE copied[i - 1]
    IN  copied[Len(l)]

\* Surviving objects in the current order, then the new ones by id.
Ordered(cur, req) ==
    LET current   == [i \in 1 .. Len(cur.maps) |-> cur.maps[i].oid]
        surviving == {i \in 1 .. Len(cur.maps) : current[i] \in DOMAIN req.ephemeral}
        additions == DOMAIN req.ephemeral \ Oids(cur.maps)
    IN  Selected(current, surviving)
          \o Selected([oid \in 1 .. MaxOid |-> oid], additions)

\* Cursor[i]: blocks the first i objects take in the data ring.
Cursor(ordered, req) ==
    LET f[i \in 0 .. Len(ordered)] ==
          IF i = 0 THEN 0 ELSE f[i - 1] + req.ephemeral[ordered[i]]
    IN  f

DataBlocks(cur, req) ==
    LET ordered == Ordered(cur, req) IN Cursor(ordered, req)[Len(ordered)]

\* Seeded fault: the first block of an object is not wrapped into the ring.
PublishedMapsUnwrapped(cur, req) ==
    LET ordered == Ordered(cur, req)
        cursor  == Cursor(ordered, req)
    IN  [i \in 1 .. Len(ordered) |->
           [oid   |-> ordered[i],
            size  |-> req.ephemeral[ordered[i]],
            first |-> cur.sb.dataNext + cursor[i - 1]]]

PublishedMaps(cur, req) ==
    LET ordered == Ordered(cur, req)
        cursor  == Cursor(ordered, req)
    IN  [i \in 1 .. Len(ordered) |->
           [oid   |-> ordered[i],
            size  |-> req.ephemeral[ordered[i]],
            first |-> (cur.sb.dataNext + cursor[i - 1]) % DataCount]]

MapBlocks(cur, req) == (Len(Ordered(cur, req)) + MapCapacity - 1) \div MapCapacity

DescriptorLength(cur, req) == MapBlocks(cur, req) + 1

\* Seeded fault: only the ring's size bounds the new data range.
DataRingFitsUnchecked(dev, cur, req) == DataBlocks(cur, req) \in 1 .. DataCount

DataRingFits(dev, cur, req) ==
    LET n == DataBlocks(cur, req) IN
      /\ n \in 1 .. DataCount - cur.sb.dataLen
      /\ \A v \in Retained(dev, cur) \union {cur} :
           ~RingRangesOverlap(cur.sb.dataNext, n, v.sb.dataIndex, v.sb.dataLen, DataCount)

\* Seeded fault: retained generations are not compared with the new range.
DescriptorRingFitsCurrentOnly(dev, cur, req) ==
    LET n == DescriptorLength(cur, req) IN
      /\ n \in 2 .. DescCount - cur.sb.descLen
      /\ ~RingRangesOverlap(cur.sb.descNext, n, cur.sb.descIndex, cur.sb.descLen, DescCount)

DescriptorRingFits(dev, cur, req) ==
    LET n == DescriptorLength(cur, req) IN
      /\ n \in 2 .. DescCount - cur.sb.descLen
      /\ \A v \in Retained(dev, cur) \union {cur} :
           ~RingRangesOverlap(cur.sb.descNext, n, v.sb.descIndex, v.sb.descLen, DescCount)

PublishedSuperblock(cur, req, a) ==
    LET n == DataBlocks(cur, req)
        l == DescriptorLength(cur, req)
    IN  [kind |-> "nxsb", attempt |-> a,
         xid |-> cur.sb.nextXid, nextXid |-> cur.sb.nextXid + 1,
         nextOid |-> req.nextOid,
         descIndex |-> cur.sb.descNext, descLen |-> l,
         descNext |-> (cur.sb.descNext + l) % DescCount,
         dataIndex |-> cur.sb.dataNext, dataLen |-> n,
         dataNext |-> (cur.sb.dataNext + n) % DataCount,
         omap |-> IF req.omap = {} THEN cur.sb.omap ELSE CHOOSE b \in req.omap : TRUE]

\* before_superblock_writes: the allocator's blocks, the objects laid out from
\* xp_data_next on, and the map blocks from xp_desc_next on.
BeforeSuperblockWrites(cur, req, a) ==
    LET xid     == cur.sb.nextXid
        maps    == PublishedMaps(cur, req)
        cursor  == Cursor(Ordered(cur, req), req)
        n       == DescriptorLength(cur, req) - 1
        pos(d)  == (d + DataCount - cur.sb.dataNext) % DataCount
        holds(d) == CHOOSE i \in DOMAIN maps : pos(d) \in cursor[i - 1] .. cursor[i] - 1
        objectAt(d) == LET i == holds(d) IN
            ObjectBlock(a, xid, maps[i].oid, maps[i].size, pos(d) - cursor[i - 1])
        nth(d)  == (d + DescCount - cur.sb.descNext) % DescCount
        share(k) == SubSeq(maps, k * MapCapacity + 1,
                           IF k = n - 1 THEN Len(maps) ELSE (k + 1) * MapCapacity)
        mapAt(d) == MapBlock(a, xid, d, nth(d) = n - 1, share(nth(d)))
    IN  [b \in {Owned(o) : o \in req.writes}
                \union {Data(d) : d \in RingRange(cur.sb.dataNext, DataBlocks(cur, req), DataCount)}
                \union {Desc(d) : d \in RingRange(cur.sb.descNext, n, DescCount)} |->
           CASE b[1] = "owned" -> PayloadBlock(a)
             [] b[1] = "data"  -> objectAt(b[2])
             [] OTHER          -> mapAt(b[2])]

SuperblockBlock(sb) == Desc((sb.descIndex + sb.descLen - 1) % DescCount)

\* Every condition the planner checks before it hands out a plan.
PlanAccepted(dev, cur, req) ==
    /\ SameCheckpoint(LoadContainerCheckpointView(dev), cur)
    /\ RingFieldsValid(cur.sb.descIndex, cur.sb.descLen, cur.sb.descNext, DescCount)
    /\ RingFieldsValid(cur.sb.dataIndex, cur.sb.dataLen, cur.sb.dataNext, DataCount)
    /\ cur.sb.nextXid > cur.sb.xid
    /\ RetentionValid(dev, cur)
    /\ AllocatorOwned(dev, cur, req)
    /\ EphemeralSetComplete(cur, req)
    /\ DataRingFits(dev, cur, req)
    /\ DescriptorRingFits(dev, cur, req)

\* AddCheckpointGuards: superblock, map blocks and mapped objects.
RingBlocks(v) ==
    {Desc(d) : d \in RingRange(v.sb.descIndex, v.sb.descLen, DescCount)}
      \union UNION {{Data(d) : d \in RingRange(v.maps[i].first, v.maps[i].size, DataCount)}
                      : i \in DOMAIN v.maps}

\* Guards: the bytes of the current and of every retained generation.
GuardBlocks(dev, cur) ==
    [b \in UNION {RingBlocks(v) : v \in Retained(dev, cur) \union {cur}} |-> dev[b]]

NoPlan == [active |-> FALSE]

BuildPlan(dev, cur, req, a) ==
    [active     |-> TRUE,
     guards     |-> GuardBlocks(dev, cur),
     before     |-> BeforeSuperblockWrites(cur, req, a),
     superblock |-> PublishedSuperblock(cur, req, a),
     maps       |-> PublishedMaps(cur, req)]

-----------------------------------------------------------------------------
(* The device.                                                              *)

\* Seeded fault: a write replaces the device by the written blocks.
OverlayTruncated(dev, writes) == writes

Overlay(dev, writes) ==
    [b \in DOMAIN dev |-> IF b \in DOMAIN writes THEN writes[b] ELSE dev[b]]

Holds(dev, writes) == \A b \in DOMAIN writes : dev[b] = writes[b]

SuperblockWrite == [b \in {SuperblockBlock(plan.superblock)} |-> plan.superblock]

\* Interrupted writes: some blocks written whole, at most MaxTorn of them torn.
PartialWrites(writes) ==
    UNION {{[b \in S |-> IF b \in T THEN Torn ELSE writes[b]]
              : T \in {t \in SUBSET S : Cardinality(t) <= MaxTorn}}
             : S \in SUBSET DOMAIN writes}

Unflushed == {b \in Blocks : seen[b] # disk[b]}

\* What stable storage can hold after power is lost: each unflushed block is
\* old, new or torn.
SurvivingImages ==
    {Overlay(disk, w) : w \in PartialWrites([b \in Unflushed |-> seen[b]])}

-----------------------------------------------------------------------------
(* The initial container: one complete generation of one object.            *)

InitialBlocks(size, root) ==
    LET maps == <<[oid |-> Spaceman, size |-> size, first |-> 0]>>
        sb   == [kind |-> "nxsb", attempt |-> 0, xid |-> 1, nextXid |-> 2,
                 nextOid |-> Spaceman + 1,
                 descIndex |-> 0, descLen |-> 2, descNext |-> 2 % DescCount,
                 dataIndex |-> 0, dataLen |-> size, dataNext |-> size % DataCount,
                 omap |-> root]
    IN  [b \in Blocks |->
           CASE b = Desc(0) -> MapBlock(0, 1, 0, TRUE, maps)
             [] b = Desc(1) -> sb
             [] b[1] = "data" /\ b[2] < size ->
                  ObjectBlock(0, 1, Spaceman, size, b[2])
             [] b = Owned(root) -> PayloadBlock(0)
             [] OTHER -> Blank]

Init ==
    /\ \E size \in ObjectSizes, root \in OwnedBlocks : disk = InitialBlocks(size, root)
    /\ seen = disk
    /\ view = LoadContainerCheckpointView(disk)
    /\ view.found
    /\ pc = "idle"
    /\ plan = NoPlan
    /\ required = {}
    /\ attempt = 0

-----------------------------------------------------------------------------
(* The writer.  A failed execution marks the session recovery-required, and *)
(* nothing is published again until the container is reopened.              *)

\* PlanAppleCheckpointPublication succeeds; a refused plan changes nothing.
Plan(req) ==
    /\ pc = "idle"
    /\ attempt < MaxAttempt
    /\ view.found
    /\ view.sb.nextXid <= MaxXid
    /\ PlanAccepted(seen, view, req)
    /\ plan' = BuildPlan(seen, view, req, attempt + 1)
    /\ attempt' = attempt + 1
    /\ pc' = "planned"
    /\ UNCHANGED <<disk, seen, view, required>>

\* The guards still hold and the whole batch is accepted by the device.
WriteBatch ==
    /\ pc = "planned"
    /\ Holds(seen, plan.guards)
    /\ seen' = Overlay(seen, plan.before)
    /\ pc' = "written"
    /\ UNCHANGED <<disk, view, plan, required, attempt>>

WriteBatchFails ==
    /\ pc = "planned"
    /\ Holds(seen, plan.guards)
    /\ \E w \in PartialWrites(plan.before) : seen' = Overlay(seen, w)
    /\ pc' = "latched"
    /\ UNCHANGED <<disk, view, plan, required, attempt>>

\* Seeded fault: the superblock follows the batch with no barrier between them.
PrepublicationFlushSkipped ==
    /\ pc = "written"
    /\ pc' = "flushed"
    /\ UNCHANGED <<disk, seen, view, plan, required, attempt>>

PrepublicationFlush ==
    /\ pc = "written"
    /\ disk' = seen
    /\ pc' = "flushed"
    /\ UNCHANGED <<seen, view, plan, required, attempt>>

\* The batch reads back, the guards hold again, and the superblock is written.
SwitchSuperblock ==
    /\ pc = "flushed"
    /\ Holds(seen, plan.before)
    /\ Holds(seen, plan.guards)
    /\ seen' = Overlay(seen, SuperblockWrite)
    /\ pc' = "switched"
    /\ UNCHANGED <<disk, view, plan, required, attempt>>

SwitchFails ==
    /\ pc = "flushed"
    /\ Holds(seen, plan.before)
    /\ Holds(seen, plan.guards)
    /\ \E w \in PartialWrites(SuperblockWrite) : seen' = Overlay(seen, w)
    /\ pc' = "latched"
    /\ UNCHANGED <<disk, view, plan, required, attempt>>

FinalFlush ==
    /\ pc = "switched"
    /\ disk' = seen
    /\ pc' = "synced"
    /\ UNCHANGED <<seen, view, plan, required, attempt>>

\* Everything reads back, and the session reloads the selected checkpoint; a
\* reload that fails is a refusal.
Acknowledge ==
    /\ pc = "synced"
    /\ Holds(seen, plan.before)
    /\ Holds(seen, SuperblockWrite)
    /\ LoadContainerCheckpointView(seen).found
    /\ view' = LoadContainerCheckpointView(seen)
    /\ plan' = NoPlan
    /\ pc' = "idle"
    /\ UNCHANGED <<disk, seen, required, attempt>>

\* A stage hook refuses, a guard or readback differs, a flush fails.
Refuse ==
    /\ pc \in {"planned", "written", "flushed", "switched", "synced"}
    /\ pc' = "latched"
    /\ UNCHANGED <<disk, seen, view, plan, required, attempt>>

-----------------------------------------------------------------------------
(* Power, the device's own write-back, reopening and the pins of others.    *)

PowerLoss ==
    /\ disk' \in SurvivingImages
    /\ seen' = disk'
    /\ pc' = "latched"
    /\ UNCHANGED <<view, plan, required, attempt>>

\* The device writes its cache back on its own.
Settle ==
    /\ pc = "latched"
    /\ Unflushed # {}
    /\ disk' = seen
    /\ UNCHANGED <<seen, view, pc, plan, required, attempt>>

\* A new host opens the container on a settled device.
Reopen ==
    /\ pc = "latched"
    /\ Unflushed = {}
    /\ LoadContainerCheckpointView(seen).found
    /\ view' = LoadContainerCheckpointView(seen)
    /\ plan' = NoPlan
    /\ pc' = "idle"
    /\ UNCHANGED <<disk, seen, required, attempt>>

\* An owner pins the current generation, or releases a pin.
Pin ==
    /\ pc = "idle"
    /\ view.found
    /\ view.sb.xid \notin required
    /\ required' = required \union {view.sb.xid}
    /\ UNCHANGED <<disk, seen, view, pc, plan, attempt>>

Unpin ==
    /\ pc = "idle"
    /\ \E x \in required : required' = required \ {x}
    /\ UNCHANGED <<disk, seen, view, pc, plan, attempt>>

Next ==
    \/ \E req \in Requests : Plan(req)
    \/ WriteBatch
    \/ WriteBatchFails
    \/ PrepublicationFlush
    \/ SwitchSuperblock
    \/ SwitchFails
    \/ FinalFlush
    \/ Acknowledge
    \/ Refuse
    \/ PowerLoss
    \/ Settle
    \/ Reopen
    \/ Pin
    \/ Unpin

Spec == Init /\ [][Next]_vars

-----------------------------------------------------------------------------
(* Properties.                                                              *)

\* Every write lands inside the container and every counter inside its bound:
\* the device never gains or loses a block, whatever a write batch holds, and
\* no pin names a checkpoint that cannot exist.
TypeOK ==
    /\ DOMAIN disk = Blocks
    /\ DOMAIN seen = Blocks
    /\ view.found \in BOOLEAN
    /\ pc \in {"idle", "planned", "written", "flushed", "switched", "synced", "latched"}
    /\ plan.active \in BOOLEAN
    /\ required \subseteq 1 .. MaxXid
    /\ attempt \in 0 .. MaxAttempt

\* No step of a publication, and no loss of power during one, disturbs a block
\* of the generation last reported durable: its map blocks, superblock, data
\* range and object-map root stay on stable storage as they were.
CurrentIntact == Holds(disk, view.image)

\* Whenever power is lost, the opener selects the generation last reported
\* durable or the one being published, and the latter only when every block
\* its plan wrote before the superblock is durable.
SelectionOldOrNew ==
    LET s == LoadContainerCheckpointView(disk) IN
      /\ s.found
      /\ \/ s = view
         \/ /\ plan.active
            /\ s.sb = plan.superblock
            /\ s.maps = plan.maps
            /\ Holds(disk, plan.before)

\* A pinned checkpoint can be loaded by its exact xid from stable storage at
\* every moment until it is released, whatever is published or lost meanwhile.
PinnedLoadable == \A x \in required : LoadExactCheckpointView(disk, x).found

\* A publication that reaches its last readback is the one readers select.
PublishedIsSelected ==
    pc = "synced" => /\ LoadContainerCheckpointView(seen).found
                     /\ LoadContainerCheckpointView(seen).sb = plan.superblock
                     /\ LoadContainerCheckpointView(seen).maps = plan.maps

\* The generation an opener would select never goes back, across failed
\* publications, retries that reuse the transaction id, and power loss.
SelectionNeverRegresses ==
    [][SelectedXid(disk) <= SelectedXid(disk')]_vars
=============================================================================
