--------------------- MODULE CheckpointPublisher_proofs ---------------------
(***************************************************************************)
(* For every geometry, request and failure: the blocks of the generation a *)
(* session last loaded are never disturbed on stable storage.              *)
(***************************************************************************)
EXTENDS CheckpointPublisher, WellFoundedInduction, TLAPS

\* The superblocks on a device carry the counters and the root they need.
SuperblocksTyped(dev) ==
    \A b \in Blocks : dev[b].kind = "nxsb" =>
        /\ dev[b].xid \in 1 .. MaxXid
        /\ dev[b].nextXid \in Nat
        /\ dev[b].omap \in OwnedBlocks

DeviceTyped(dev) == DOMAIN dev = Blocks /\ SuperblocksTyped(dev)

ViewTyped(v) ==
    /\ v.found \in BOOLEAN
    /\ DOMAIN v.image \subseteq Blocks
    /\ v.found => /\ DOMAIN v.image = Footprint(v.sb)
                  /\ v.sb.xid \in 1 .. MaxXid
                  /\ v.sb.nextXid \in Nat
                  /\ v.sb.omap \in OwnedBlocks

\* What the writer may still write: nothing of the view's generation, and a
\* superblock that is well formed.
PlanSafe(p, v) ==
    /\ p.active = TRUE
    /\ \A b \in DOMAIN p.before : p.before[b].kind # "nxsb"
    /\ DOMAIN p.before \intersect DOMAIN v.image = {}
    /\ SuperblockBlock(p.superblock) \notin DOMAIN v.image
    /\ p.superblock.xid \in 1 .. MaxXid
    /\ p.superblock.nextXid \in Nat
    /\ p.superblock.omap \in OwnedBlocks

Writing == {"planned", "written", "flushed"}

IInv ==
    /\ TypeOK
    /\ DeviceTyped(disk)
    /\ DeviceTyped(seen)
    /\ ViewTyped(view)
    /\ Holds(disk, view.image)
    /\ Holds(seen, view.image)
    /\ pc \in Writing => PlanSafe(plan, view)
    /\ pc = "synced" => disk = seen

-----------------------------------------------------------------------------
(* Blocks and the device.                                                   *)

\* A range of a ring, however it wraps, stays among the ring's slots.
LEMMA RingRangeInRing ==
    ASSUME NEW index \in Int, NEW length \in Int, NEW count \in Nat \ {0}
    PROVE  RingRange(index, length, count) \subseteq 0 .. count - 1
  BY DEF RingRange

\* No block belongs to two of the descriptor ring, the data ring and the blocks
\* the allocator owns.
LEMMA KindsOfBlocksDiffer ==
    ASSUME NEW i, NEW j, NEW k
    PROVE  Desc(i) # Data(j) /\ Desc(i) # Owned(k) /\ Data(j) # Owned(k)
  BY DEF Desc, Data, Owned

\* Two slots of one ring, or two owned blocks, are different blocks.
LEMMA BlockNamesInjective ==
    ASSUME NEW i, NEW j
    PROVE  /\ Desc(i) = Desc(j) => i = j
           /\ Data(i) = Data(j) => i = j
           /\ Owned(i) = Owned(j) => i = j
  BY DEF Desc, Data, Owned

\* Writing blocks outside an image leaves the image in place.
LEMMA OverlayKeepsImage ==
    ASSUME NEW dev, NEW writes, NEW image,
           DOMAIN image \subseteq DOMAIN dev,
           DOMAIN writes \intersect DOMAIN image = {},
           Holds(dev, image)
    PROVE  Holds(Overlay(dev, writes), image)
  BY DEF Holds, Overlay

\* Writing no superblock, or a well-formed one, keeps a device well formed.
LEMMA OverlayKeepsDevice ==
    ASSUME NEW dev, NEW writes, DeviceTyped(dev),
           \A b \in DOMAIN writes : writes[b].kind = "nxsb" =>
               /\ writes[b].xid \in 1 .. MaxXid
               /\ writes[b].nextXid \in Nat
               /\ writes[b].omap \in OwnedBlocks
    PROVE  DeviceTyped(Overlay(dev, writes))
  BY DEF DeviceTyped, SuperblocksTyped, Overlay

\* An interrupted write touches no other block, and writes a whole block or a
\* torn one.
LEMMA PartialWriteBounded ==
    ASSUME NEW writes, NEW w \in PartialWrites(writes)
    PROVE  /\ DOMAIN w \subseteq DOMAIN writes
           /\ \A b \in DOMAIN w : w[b] = writes[b] \/ w[b] = Torn
  BY DEF PartialWrites

\* A torn block is never taken for a superblock (its checksum fails).
LEMMA TornIsNoSuperblock == Torn.kind # "nxsb"
  BY DEF Torn

-----------------------------------------------------------------------------
(* Selection.                                                               *)

\* A built candidate occupies its footprint, with the bytes the device holds.
LEMMA CandidateTyped ==
    ASSUME NEW dev, DeviceTyped(dev),
           NEW c \in 0 .. DescCount - 1, CompleteCandidate(dev, c)
    PROVE  LET v == BuildCheckpointCandidate(dev, c)
           IN  ViewTyped(v) /\ v.found /\ Holds(dev, v.image)
  <1> DEFINE sb == dev[Desc(c)]
             v == BuildCheckpointCandidate(dev, c)
  <1>1. /\ sb.kind = "nxsb"
        /\ RingFieldsValid(sb.descIndex, sb.descLen, sb.descNext, DescCount)
        /\ RingFieldsValid(sb.dataIndex, sb.dataLen, sb.dataNext, DataCount)
    BY DEF CompleteCandidate
  <1>2. Desc(c) \in Blocks
    BY DEF Blocks
  <1>3. sb.xid \in 1 .. MaxXid /\ sb.nextXid \in Nat /\ sb.omap \in OwnedBlocks
    BY <1>1, <1>2 DEF DeviceTyped, SuperblocksTyped
  <1>4. /\ RingRange(sb.descIndex, sb.descLen, DescCount) \subseteq 0 .. DescCount - 1
        /\ RingRange(sb.dataIndex, sb.dataLen, DataCount) \subseteq 0 .. DataCount - 1
    <2>1. /\ sb.descIndex \in Int /\ sb.descLen \in Int
          /\ sb.dataIndex \in Int /\ sb.dataLen \in Int
      BY <1>1, GeometryAssumption DEF RingFieldsValid
    <2>2. QED
      BY <2>1, RingRangeInRing, GeometryAssumption
  <1>5. Footprint(sb) \subseteq Blocks
    BY <1>3, <1>4 DEF Footprint, Blocks
  <1>6. /\ v.found = TRUE
        /\ v.sb = sb
        /\ v.image = [b \in Footprint(sb) |-> dev[b]]
    BY DEF BuildCheckpointCandidate
  <1>7. DOMAIN v.image = Footprint(sb) /\ \A b \in Footprint(sb) : v.image[b] = dev[b]
    BY <1>6
  <1> HIDE DEF v, sb
  <1>8. ViewTyped(v)
    BY <1>3, <1>5, <1>6, <1>7 DEF ViewTyped
  <1>9. Holds(dev, v.image)
    BY <1>7 DEF Holds
  <1>10. QED
    BY <1>6, <1>8, <1>9 DEF v

\* Every nonempty set of naturals has a least element.
LEMMA LeastNatural ==
    ASSUME NEW T, T \subseteq Nat, T # {}
    PROVE  \E x \in T : \A y \in T : x <= y
  <1>1. PICK x \in T : \A y \in T : ~(<<y, x>> \in OpToRel(<, Nat))
    BY NatLessThanWellFounded, WFMin
  <1>2. \A y \in T : ~(y < x)
    BY <1>1 DEF OpToRel
  <1>3. QED
    BY <1>2

\* Among complete candidates there is a newest one, lowest slot first.
LEMMA NewestExists ==
    ASSUME NEW C, C \subseteq Nat, C # {},
           NEW x, \A c \in C : x[c] \in 1 .. MaxXid
    PROVE  \E c \in C : \A d \in C : x[d] < x[c] \/ (x[d] = x[c] /\ c <= d)
  <1> DEFINE Age == {MaxXid - x[c] : c \in C}
  <1>1. Age \subseteq Nat /\ Age # {}
    <2>1. ASSUME NEW c \in C PROVE MaxXid - x[c] \in Nat
      <3>1. x[c] \in 1 .. MaxXid /\ MaxXid \in Nat
        BY RequestAssumption
      <3>2. QED
        BY <3>1
    <2>2. QED
      BY <2>1
  <1>2. PICK a \in Age : \A b \in Age : a <= b
    BY <1>1, LeastNatural
  <1> DEFINE Young == {c \in C : MaxXid - x[c] = a}
  <1>3. Young \subseteq Nat /\ Young # {}
    BY <1>2
  <1>4. PICK c \in Young : \A d \in Young : c <= d
    BY <1>3, LeastNatural
  <1>5. ASSUME NEW d \in C
        PROVE  x[d] < x[c] \/ (x[d] = x[c] /\ c <= d)
    <2>1. a <= MaxXid - x[d] /\ a = MaxXid - x[c]
      BY <1>2, <1>4
    <2>2. x[c] \in Int /\ x[d] \in Int /\ MaxXid \in Int
      BY <1>4, RequestAssumption
    <2>3. CASE MaxXid - x[d] = a
      BY <1>4, <2>1, <2>2, <2>3
    <2>4. CASE MaxXid - x[d] # a
      BY <2>1, <2>2, <2>4
    <2>5. QED
      BY <2>3, <2>4
  <1>6. QED
    BY <1>4, <1>5

\* Whatever selection returns is on the device it was loaded from.
LEMMA SelectionTyped ==
    ASSUME NEW dev, DeviceTyped(dev)
    PROVE  LET v == LoadContainerCheckpointView(dev)
           IN  ViewTyped(v) /\ Holds(dev, v.image)
  <1> DEFINE C == {c \in 0 .. DescCount - 1 : CompleteCandidate(dev, c)}
             newest(c) == \A d \in C : \/ dev[Desc(d)].xid < dev[Desc(c)].xid
                                       \/ dev[Desc(d)].xid = dev[Desc(c)].xid /\ c <= d
             pick == CHOOSE c \in C : newest(c)
             v == LoadContainerCheckpointView(dev)
  <1>1. CASE C = {}
    <2>1. v = NoView
      BY <1>1 DEF LoadContainerCheckpointView
    <2>2. v.found = FALSE /\ DOMAIN v.image = {}
      BY <2>1 DEF NoView
    <2>3. QED
      BY <2>2 DEF ViewTyped, Holds
  <1>2. CASE C # {}
    <2>1. v = BuildCheckpointCandidate(dev, pick)
      BY <1>2 DEF LoadContainerCheckpointView
    <2>2. \E c \in C : newest(c)
      <3> DEFINE x == [c \in C |-> dev[Desc(c)].xid]
      <3>1. C \subseteq Nat
        BY GeometryAssumption
      <3>2. \A c \in C : x[c] \in 1 .. MaxXid
        <4>1. ASSUME NEW c \in C PROVE dev[Desc(c)].xid \in 1 .. MaxXid
          BY CandidateTyped DEF ViewTyped, BuildCheckpointCandidate
        <4>2. QED
          BY <4>1
      <3>3. \E c \in C : \A d \in C : x[d] < x[c] \/ (x[d] = x[c] /\ c <= d)
        <4> HIDE DEF C, x
        <4>1. QED
          BY <1>2, <3>1, <3>2, NewestExists
      <3>4. QED
        BY <3>3
    <2>3. pick \in C
      BY <2>2
    <2>4. QED
      BY <2>1, <2>3, CandidateTyped
  <1>3. QED
    BY <1>1, <1>2

-----------------------------------------------------------------------------
(* Planning.                                                                *)

\* An accepted plan writes outside the generation it was planned against.
LEMMA AcceptedPlanIsSafe ==
    ASSUME NEW dev, NEW v, NEW req \in Requests, NEW a,
           ViewTyped(v), PlanAccepted(dev, v, req), v.sb.nextXid <= MaxXid
    PROVE  PlanSafe(BuildPlan(dev, v, req, a), v)
  <1> DEFINE l == DescriptorLength(v, req)
             n == DataBlocks(v, req)
             p == BuildPlan(dev, v, req, a)
             before == BeforeSuperblockWrites(v, req, a)
             sb == PublishedSuperblock(v, req, a)
  <1>1. /\ v.found
        /\ v.sb.nextXid > v.sb.xid
        /\ AllocatorOwned(dev, v, req)
        /\ DataRingFits(dev, v, req)
        /\ DescriptorRingFits(dev, v, req)
        /\ RingFieldsValid(v.sb.descIndex, v.sb.descLen, v.sb.descNext, DescCount)
    BY DEF PlanAccepted, SameCheckpoint
  <1>2. /\ DOMAIN v.image = Footprint(v.sb)
        /\ v.sb.xid \in 1 .. MaxXid
        /\ v.sb.nextXid \in Nat
        /\ v.sb.omap \in OwnedBlocks
    BY <1>1 DEF ViewTyped
  <1>3. p.active = TRUE /\ p.before = before /\ p.superblock = sb
    BY DEF BuildPlan
  <1>4. DOMAIN before = {Owned(o) : o \in req.writes}
                \union {Data(d) : d \in RingRange(v.sb.dataNext, n, DataCount)}
                \union {Desc(d) : d \in RingRange(v.sb.descNext, l - 1, DescCount)}
    BY DEF BeforeSuperblockWrites
  <1>5. RingRange(v.sb.dataNext, n, DataCount)
          \intersect RingRange(v.sb.dataIndex, v.sb.dataLen, DataCount) = {}
    BY <1>1 DEF DataRingFits, RingRangesOverlap
  <1>6. /\ l \in Int /\ l >= 2
        /\ RingRange(v.sb.descNext, l, DescCount)
             \intersect RingRange(v.sb.descIndex, v.sb.descLen, DescCount) = {}
    <2>1. v.sb.descLen \in Int /\ DescCount \in Int
      BY <1>1, GeometryAssumption DEF RingFieldsValid
    <2>2. QED
      BY <1>1, <2>1 DEF DescriptorRingFits, RingRangesOverlap
  <1>7. RingRange(v.sb.descNext, l - 1, DescCount) \subseteq RingRange(v.sb.descNext, l, DescCount)
    BY <1>6 DEF RingRange
  <1>8. v.sb.omap \notin req.writes
    BY <1>1 DEF AllocatorOwned
  <1>9. DOMAIN before \intersect Footprint(v.sb) = {}
    <2> HIDE DEF before, l, n
    <2> SUFFICES ASSUME NEW b \in DOMAIN before PROVE b \notin Footprint(v.sb)
      OBVIOUS
    <2>1. CASE \E o \in req.writes : b = Owned(o)
      BY <1>8, <2>1, KindsOfBlocksDiffer, BlockNamesInjective DEF Footprint
    <2>2. CASE \E d \in RingRange(v.sb.dataNext, n, DataCount) : b = Data(d)
      BY <1>5, <2>2, KindsOfBlocksDiffer, BlockNamesInjective DEF Footprint
    <2>3. CASE \E d \in RingRange(v.sb.descNext, l - 1, DescCount) : b = Desc(d)
      BY <1>6, <1>7, <2>3, KindsOfBlocksDiffer, BlockNamesInjective DEF Footprint
    <2>4. QED
      BY <1>4, <2>1, <2>2, <2>3
  <1>10. SuperblockBlock(sb) \notin Footprint(v.sb)
    <2>1. sb.descIndex = v.sb.descNext /\ sb.descLen = l
      BY DEF PublishedSuperblock
    <2>2. (v.sb.descNext + l - 1) % DescCount \in RingRange(v.sb.descNext, l, DescCount)
      <3>1. v.sb.descNext \in Int
        BY <1>1, GeometryAssumption DEF RingFieldsValid
      <3>2. v.sb.descNext + l - 1 = v.sb.descNext + (l - 1) /\ l - 1 \in 0 .. l - 1
        BY <1>6, <3>1
      <3>3. QED
        BY <3>2 DEF RingRange
    <2>3. SuperblockBlock(sb) = Desc((v.sb.descNext + l - 1) % DescCount)
      BY <2>1 DEF SuperblockBlock
    <2> HIDE DEF l, sb
    <2>4. QED
      BY <1>6, <2>2, <2>3, KindsOfBlocksDiffer, BlockNamesInjective DEF Footprint
  <1>11. \A b \in DOMAIN before : before[b].kind # "nxsb"
    BY DEF BeforeSuperblockWrites, PayloadBlock, ObjectBlock, MapBlock
  <1>12. sb.xid \in 1 .. MaxXid /\ sb.nextXid \in Nat /\ sb.omap \in OwnedBlocks
    <2>1. sb.xid = v.sb.nextXid /\ sb.nextXid = v.sb.nextXid + 1
      BY DEF PublishedSuperblock
    <2>2. sb.omap \in OwnedBlocks
      <3>1. sb.omap = IF req.omap = {} THEN v.sb.omap ELSE CHOOSE b \in req.omap : TRUE
        BY DEF PublishedSuperblock
      <3>2. req.omap \subseteq OwnedBlocks
        BY DEF Requests
      <3> HIDE DEF sb
      <3>3. QED
        BY <1>2, <3>1, <3>2
    <2>3. QED
      BY <1>1, <1>2, <2>1, <2>2, RequestAssumption
  <1> HIDE DEF p, before, sb
  <1>13. QED
    BY <1>2, <1>3, <1>9, <1>10, <1>11, <1>12 DEF PlanSafe, p

-----------------------------------------------------------------------------
(* The invariant.                                                           *)

\* The freshly formatted container satisfies the invariant.
LEMMA InitIInv == Init => IInv
  <1> SUFFICES ASSUME Init PROVE IInv
    OBVIOUS
  <1>1. PICK size \in ObjectSizes, root \in OwnedBlocks : disk = InitialBlocks(size, root)
    BY DEF Init
  <1>2. DeviceTyped(disk)
    <2>1. DOMAIN disk = Blocks
      BY <1>1 DEF InitialBlocks
    <2>2. ASSUME NEW b \in Blocks, disk[b].kind = "nxsb"
          PROVE  disk[b].xid = 1 /\ disk[b].nextXid = 2 /\ disk[b].omap = root
      BY <1>1, <2>2 DEF InitialBlocks, MapBlock, ObjectBlock, PayloadBlock, Blank
    <2>3. QED
      BY <2>1, <2>2, RequestAssumption DEF DeviceTyped, SuperblocksTyped
  <1>3. seen = disk /\ view = LoadContainerCheckpointView(disk)
    BY DEF Init
  <1>4. ViewTyped(view) /\ Holds(disk, view.image)
    BY <1>2, <1>3, SelectionTyped
  <1>5. TypeOK
    <2>1. plan.active \in BOOLEAN
      BY DEF Init, NoPlan
    <2>2. view.found \in BOOLEAN
      BY <1>4 DEF ViewTyped
    <2>3. DOMAIN disk = Blocks /\ DOMAIN seen = Blocks
      BY <1>2, <1>3 DEF DeviceTyped
    <2>4. attempt \in 0 .. MaxAttempt /\ required \subseteq 1 .. MaxXid
      BY RequestAssumption DEF Init
    <2>5. pc \in {"idle", "planned", "written", "flushed", "switched", "synced", "latched"}
      BY DEF Init
    <2>6. QED
      BY <2>1, <2>2, <2>3, <2>4, <2>5 DEF TypeOK
  <1>6. pc \notin Writing /\ pc # "synced"
    BY DEF Init, Writing
  <1>7. QED
    BY <1>2, <1>3, <1>4, <1>5, <1>6 DEF IInv

\* The writes a step may issue: blocks of the plan, whole or torn.
PlannedWrites(w) ==
    /\ DOMAIN w \intersect DOMAIN view.image = {}
    /\ \A b \in DOMAIN w : w[b].kind = "nxsb" =>
         /\ w[b].xid \in 1 .. MaxXid
         /\ w[b].nextXid \in Nat
         /\ w[b].omap \in OwnedBlocks

\* The batch before the superblock, and the superblock itself, are planned writes.
LEMMA BatchIsPlanned ==
    ASSUME PlanSafe(plan, view)
    PROVE  /\ PlannedWrites(plan.before)
           /\ PlannedWrites(SuperblockWrite)
  BY DEF PlanSafe, PlannedWrites, SuperblockWrite

\* An interrupted planned write is still a planned write: it reaches no block the
\* plan does not name.
LEMMA PartialIsPlanned ==
    ASSUME NEW writes, PlannedWrites(writes), NEW w \in PartialWrites(writes)
    PROVE  PlannedWrites(w)
  BY PartialWriteBounded, TornIsNoSuperblock DEF PlannedWrites

\* A step that writes planned blocks through the device keeps it as it must be.
LEMMA PlannedWriteKeepsDevice ==
    ASSUME IInv, NEW w, PlannedWrites(w)
    PROVE  DeviceTyped(Overlay(seen, w)) /\ Holds(Overlay(seen, w), view.image)
  <1>1. DeviceTyped(Overlay(seen, w))
    BY OverlayKeepsDevice DEF IInv, PlannedWrites
  <1>2. DOMAIN view.image \subseteq DOMAIN seen
    BY DEF IInv, ViewTyped, DeviceTyped
  <1>3. Holds(Overlay(seen, w), view.image)
    BY <1>2, OverlayKeepsImage DEF IInv, PlannedWrites
  <1>4. QED
    BY <1>1, <1>3

\* What survives a loss of power holds every block that was not in flight.
LEMMA SurvivorKeepsDevice ==
    ASSUME IInv, NEW d \in SurvivingImages
    PROVE  DeviceTyped(d) /\ Holds(d, view.image)
  <1> DEFINE inFlight == [b \in Unflushed |-> seen[b]]
  <1>1. PICK w \in PartialWrites(inFlight) : d = Overlay(disk, w)
    BY DEF SurvivingImages
  <1>2. /\ DOMAIN w \subseteq Unflushed
        /\ \A b \in DOMAIN w : w[b] = seen[b] \/ w[b] = Torn
    <2>1. DOMAIN w \subseteq DOMAIN inFlight
      BY PartialWriteBounded
    <2>2. \A b \in DOMAIN w : w[b] = inFlight[b] \/ w[b] = Torn
      BY PartialWriteBounded
    <2>3. QED
      BY <2>1, <2>2
  <1>3. Unflushed \subseteq Blocks
    BY DEF Unflushed
  <1>4. Unflushed \intersect DOMAIN view.image = {}
    BY DEF IInv, Holds, Unflushed
  <1>5. \A b \in DOMAIN w : w[b].kind = "nxsb" =>
            /\ w[b].xid \in 1 .. MaxXid
            /\ w[b].nextXid \in Nat
            /\ w[b].omap \in OwnedBlocks
    BY <1>2, <1>3, TornIsNoSuperblock DEF IInv, DeviceTyped, SuperblocksTyped
  <1>6. DeviceTyped(Overlay(disk, w))
    BY <1>5, OverlayKeepsDevice DEF IInv
  <1>7. DOMAIN view.image \subseteq DOMAIN disk
    BY DEF IInv, ViewTyped, DeviceTyped
  <1>8. DOMAIN w \intersect DOMAIN view.image = {}
    BY <1>2, <1>4
  <1>9. Holds(Overlay(disk, w), view.image)
    BY <1>7, <1>8, OverlayKeepsImage DEF IInv
  <1>10. QED
    BY <1>1, <1>6, <1>9

\* One step per action.  A step that leaves the device alone, one that only
\* writes planned blocks, one that makes the seen image durable, one that loses
\* power, and one that loads a new view are the shapes that occur.
LEMMA NextIInv == IInv /\ [Next]_vars => IInv'
  <1> SUFFICES ASSUME IInv, [Next]_vars PROVE IInv'
    OBVIOUS
  <1> USE DEF IInv, TypeOK
  <1>1. ASSUME NEW req \in Requests, Plan(req) PROVE IInv'
    <2>1. UNCHANGED <<disk, seen, view, required>> /\ pc' = "planned"
      BY <1>1 DEF Plan
    <2>2. PlanSafe(plan', view)
      BY <1>1, AcceptedPlanIsSafe DEF Plan
    <2>3. attempt' \in 0 .. MaxAttempt
      <3>1. attempt < MaxAttempt /\ attempt' = attempt + 1
        BY <1>1 DEF Plan
      <3>2. QED
        BY <3>1, RequestAssumption
    <2>4. plan'.active \in BOOLEAN
      BY <2>2 DEF PlanSafe
    <2>5. QED
      BY <2>1, <2>2, <2>3, <2>4
  <1>2. CASE WriteBatch
    <2>1. PlannedWrites(plan.before)
      BY <1>2, BatchIsPlanned DEF WriteBatch, Writing
    <2>2. DeviceTyped(seen') /\ Holds(seen', view.image)
      BY <1>2, <2>1, PlannedWriteKeepsDevice DEF WriteBatch
    <2>3. UNCHANGED <<disk, view, plan, required, attempt>> /\ pc' = "written" /\ pc = "planned"
      BY <1>2 DEF WriteBatch
    <2>4. QED
      BY <2>2, <2>3 DEF DeviceTyped, Writing
  <1>3. CASE WriteBatchFails
    <2>1. PlannedWrites(plan.before)
      BY <1>3, BatchIsPlanned DEF WriteBatchFails, Writing
    <2>2. DeviceTyped(seen') /\ Holds(seen', view.image)
      BY <1>3, <2>1, PartialIsPlanned, PlannedWriteKeepsDevice DEF WriteBatchFails
    <2>3. UNCHANGED <<disk, view, plan, required, attempt>> /\ pc' = "latched"
      BY <1>3 DEF WriteBatchFails
    <2>4. QED
      BY <2>2, <2>3 DEF DeviceTyped, Writing
  <1>4. CASE PrepublicationFlush
    <2>1. /\ UNCHANGED <<seen, view, plan, required, attempt>>
          /\ disk' = seen /\ pc = "written" /\ pc' = "flushed"
      BY <1>4 DEF PrepublicationFlush
    <2>2. QED
      BY <2>1 DEF Writing
  <1>5. CASE SwitchSuperblock
    <2>1. PlannedWrites(SuperblockWrite)
      BY <1>5, BatchIsPlanned DEF SwitchSuperblock, Writing
    <2>2. DeviceTyped(seen') /\ Holds(seen', view.image)
      BY <1>5, <2>1, PlannedWriteKeepsDevice DEF SwitchSuperblock
    <2>3. UNCHANGED <<disk, view, plan, required, attempt>> /\ pc' = "switched"
      BY <1>5 DEF SwitchSuperblock
    <2>4. QED
      BY <2>2, <2>3 DEF DeviceTyped, Writing
  <1>6. CASE SwitchFails
    <2>1. PlannedWrites(SuperblockWrite)
      BY <1>6, BatchIsPlanned DEF SwitchFails, Writing
    <2>2. DeviceTyped(seen') /\ Holds(seen', view.image)
      BY <1>6, <2>1, PartialIsPlanned, PlannedWriteKeepsDevice DEF SwitchFails
    <2>3. UNCHANGED <<disk, view, plan, required, attempt>> /\ pc' = "latched"
      BY <1>6 DEF SwitchFails
    <2>4. QED
      BY <2>2, <2>3 DEF DeviceTyped, Writing
  <1>7. CASE FinalFlush
    <2>1. /\ UNCHANGED <<seen, view, plan, required, attempt>>
          /\ disk' = seen /\ pc' = "synced"
      BY <1>7 DEF FinalFlush
    <2>2. QED
      BY <2>1 DEF Writing
  <1>8. CASE Acknowledge
    <2>1. /\ UNCHANGED <<disk, seen, required, attempt>>
          /\ disk = seen /\ pc' = "idle" /\ plan' = NoPlan
          /\ view' = LoadContainerCheckpointView(seen)
      BY <1>8 DEF Acknowledge
    <2>2. ViewTyped(view') /\ Holds(seen, view'.image)
      BY <2>1, SelectionTyped
    <2>3. plan'.active \in BOOLEAN /\ view'.found \in BOOLEAN
      BY <2>1, <2>2 DEF NoPlan, ViewTyped
    <2>4. QED
      BY <2>1, <2>2, <2>3 DEF Writing
  <1>9. CASE Refuse
    <2>1. UNCHANGED <<disk, seen, view, plan, required, attempt>> /\ pc' = "latched"
      BY <1>9 DEF Refuse
    <2>2. QED
      BY <2>1 DEF Writing
  <1>10. CASE PowerLoss
    <2>1. /\ UNCHANGED <<view, plan, required, attempt>>
          /\ disk' \in SurvivingImages /\ seen' = disk' /\ pc' = "latched"
      BY <1>10 DEF PowerLoss
    <2>2. DeviceTyped(disk') /\ Holds(disk', view.image)
      BY <2>1, SurvivorKeepsDevice
    <2>3. QED
      BY <2>1, <2>2 DEF DeviceTyped, Writing
  <1>11. CASE Settle
    <2>1. UNCHANGED <<seen, view, pc, plan, required, attempt>> /\ disk' = seen
      BY <1>11 DEF Settle
    <2>2. QED
      BY <2>1
  <1>12. CASE Reopen
    <2>1. /\ UNCHANGED <<disk, seen, required, attempt>>
          /\ Unflushed = {} /\ pc' = "idle" /\ plan' = NoPlan
          /\ view' = LoadContainerCheckpointView(seen)
      BY <1>12 DEF Reopen
    <2>2. ViewTyped(view') /\ Holds(seen, view'.image)
      BY <2>1, SelectionTyped
    <2>3. Holds(disk, view'.image)
      BY <2>1, <2>2 DEF Holds, Unflushed, ViewTyped
    <2>4. plan'.active \in BOOLEAN /\ view'.found \in BOOLEAN
      BY <2>1, <2>2 DEF NoPlan, ViewTyped
    <2>5. QED
      BY <2>1, <2>2, <2>3, <2>4 DEF Writing
  <1>13. CASE Pin
    <2>1. UNCHANGED <<disk, seen, view, pc, plan, attempt>> /\ pc = "idle"
      BY <1>13 DEF Pin
    <2>2. required' \subseteq 1 .. MaxXid
      BY <1>13 DEF Pin, ViewTyped
    <2>3. QED
      BY <2>1, <2>2
  <1>14. CASE Unpin
    <2>1. UNCHANGED <<disk, seen, view, pc, plan, attempt>> /\ required' \subseteq required
      BY <1>14 DEF Unpin
    <2>2. QED
      BY <2>1
  <1>15. CASE UNCHANGED vars
    BY <1>15 DEF vars
  <1>16. QED
    BY <1>1, <1>2, <1>3, <1>4, <1>5, <1>6, <1>7, <1>8, <1>9, <1>10, <1>11,
       <1>12, <1>13, <1>14, <1>15 DEF Next

\* The inductive invariant holds in every reachable state of the publisher.
LEMMA InvariantIInv == Spec => []IInv
  BY InitIInv, NextIInv, PTL DEF Spec

\* The variables of the publisher keep their types.
THEOREM TypeCorrect == Spec => []TypeOK
  <1>1. IInv => TypeOK
    BY DEF IInv
  <1>2. QED
    BY <1>1, InvariantIInv, PTL

\* For rings of any size, any request, any interleaving of failures: the
\* generation a session last loaded stays on stable storage, block for block.
THEOREM CurrentGenerationIntact == Spec => []CurrentIntact
  <1>1. IInv => CurrentIntact
    BY DEF IInv, CurrentIntact
  <1>2. QED
    BY <1>1, InvariantIInv, PTL
=============================================================================
