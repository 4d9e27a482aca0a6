--------------------- MODULE CheckpointSelection_proofs ---------------------
(***************************************************************************)
(* For every geometry, request and failure: what an opener selects.        *)
(*                                                                         *)
(* The argument has three parts.  A generation is complete on a device     *)
(* because of the blocks of its footprint alone, so writes that avoid the  *)
(* footprint cannot hide it.  A planned superblock over a durable batch    *)
(* heads a complete generation with the planned mappings.  And no two      *)
(* superblocks of one transaction id are ever on the device, because the   *)
(* only superblock newer than the current one is the one being published.  *)
(***************************************************************************)
EXTENDS CheckpointPublisher_proofs, FiniteSetTheorems

\* The descriptor slot of a generation's superblock.
SlotOf(sb) == (sb.descNext + DescCount - 1) % DescCount

\* The mappings are a sequence that names no object twice.
MapsSound(maps) ==
    /\ Len(maps) \in Nat
    /\ DOMAIN maps = 1 .. Len(maps)
    /\ \A i, j \in 1 .. Len(maps) : maps[i].oid = maps[j].oid => i = j

\* The generation v is complete on the device, block for block.
OnDevice(dev, v) ==
    /\ CompleteCandidate(dev, SlotOf(v.sb))
    /\ BuildCheckpointCandidate(dev, SlotOf(v.sb)) = v

\* The blocks a plan writes.
Targets(p) == DOMAIN p.before \union {SuperblockBlock(p.superblock)}

\* The plan was drawn up against the generation v for the request req.
PlanFor(p, v, req) ==
    /\ p.before = BeforeSuperblockWrites(v, req, p.superblock.attempt)
    /\ p.superblock = PublishedSuperblock(v, req, p.superblock.attempt)
    /\ p.maps = PublishedMaps(v, req)
    /\ v.sb.xid < p.superblock.xid
    /\ RingFieldsValid(v.sb.descIndex, v.sb.descLen, v.sb.descNext, DescCount)
    /\ RingFieldsValid(v.sb.dataIndex, v.sb.dataLen, v.sb.dataNext, DataCount)
    /\ EphemeralSetComplete(v, req)
    /\ DataBlocks(v, req) \in 1 .. DataCount
    /\ DescriptorLength(v, req) \in 2 .. DescCount

PlanSound ==
    /\ PlanSafe(plan, view)
    /\ \E req \in Requests : PlanFor(plan, view, req)

\* The planned superblock may be on the device from the switch on.
Switched == {"switched", "synced", "latched"}

\* A superblock on the device is older than the current generation, is its
\* superblock, or is the planned one over a batch that is durable.
SuperblocksKnown(dev) ==
    \A c \in 0 .. DescCount - 1 : dev[Desc(c)].kind = "nxsb" =>
      \/ dev[Desc(c)].xid < view.sb.xid
      \/ c = SlotOf(view.sb)
      \/ /\ plan.active
         /\ pc \in Switched
         /\ Desc(c) = SuperblockBlock(plan.superblock)
         /\ dev[Desc(c)] = plan.superblock
         /\ Holds(disk, plan.before)
         /\ Holds(seen, plan.before)

\* Superblocks of one transaction id are in one slot.
XidsApart(dev, other) ==
    \A c, d \in 0 .. DescCount - 1 :
      (/\ dev[Desc(c)].kind = "nxsb"
       /\ other[Desc(d)].kind = "nxsb"
       /\ dev[Desc(c)].xid = other[Desc(d)].xid) => c = d

\* The generation of the superblock in slot c is complete, its blocks are not
\* in flight, and the plan writes none of them.
Sheltered(c) ==
    /\ CompleteCandidate(disk, c)
    /\ \A b \in Footprint(disk[Desc(c)]) : disk[b] = seen[b]
    /\ plan.active => Targets(plan) \intersect Footprint(disk[Desc(c)]) = {}

PinsSheltered ==
    \A x \in required : \E c \in 0 .. DescCount - 1 :
        Sheltered(c) /\ disk[Desc(c)].xid = x

\* Where the writer is, and what that says of the device.
Progress ==
    /\ pc = "idle" => ~plan.active
    /\ pc \in {"planned", "written", "flushed", "switched", "synced"} => plan.active
    /\ pc \in {"idle", "planned", "flushed", "synced"} => disk = seen
    /\ pc \in {"written", "flushed", "switched", "synced"} => Holds(seen, plan.before)
    /\ pc \in {"switched", "synced"} =>
         /\ Holds(disk, plan.before)
         /\ seen[SuperblockBlock(plan.superblock)] = plan.superblock

\* A planned superblock that is durable is also what a read returns.
DurableIsSeen ==
    (plan.active /\ disk[SuperblockBlock(plan.superblock)] = plan.superblock)
      => seen[SuperblockBlock(plan.superblock)] = plan.superblock

\* Stable storage and what reads return are images of the whole device.
Images == disk = [b \in Blocks |-> disk[b]] /\ seen = [b \in Blocks |-> seen[b]]

SInv ==
    /\ IInv
    /\ Images
    /\ view.found
    /\ MapsSound(view.maps)
    /\ OnDevice(disk, view)
    /\ OnDevice(seen, view)
    /\ plan.active => PlanSound
    /\ SuperblocksKnown(disk)
    /\ SuperblocksKnown(seen)
    /\ XidsApart(disk, disk)
    /\ XidsApart(disk, seen)
    /\ XidsApart(seen, seen)
    /\ PinsSheltered
    /\ Progress
    /\ DurableIsSeen

-----------------------------------------------------------------------------
(* Numbers, rings and sequences.                                            *)

\* A set of numbers that holds 0 and the successors of its members holds all.
LEMMA Induction ==
    ASSUME NEW T, T \subseteq Nat, 0 \in T, \A n \in T : n + 1 \in T
    PROVE  T = Nat
  <1> SUFFICES ASSUME Nat \ T # {} PROVE FALSE
    OBVIOUS
  <1>1. PICK x \in Nat \ T : \A y \in Nat \ T : x <= y
    <2>1. Nat \ T \subseteq Nat
      OBVIOUS
    <2>2. QED
      BY <2>1, LeastNatural
  <1>2. x # 0 /\ x - 1 \in Nat /\ x - 1 < x
    OBVIOUS
  <1>3. x - 1 \in T
    BY <1>1, <1>2
  <1>4. QED
    BY <1>2, <1>3

\* A sum of two slots of a ring wraps at most once.
LEMMA Wrap ==
    ASSUME NEW C \in Nat \ {0}, NEW z \in Nat, z < C + C
    PROVE  /\ z < C => z % C = z
           /\ ~(z < C) => z % C = z - C
  <1>1. CASE z < C
    BY <1>1
  <1>2. CASE ~(z < C)
    BY <1>2
  <1>3. QED
    BY <1>1, <1>2

\* The offset of a slot from the start of a range gives back its position.
LEMMA OffsetOf ==
    ASSUME NEW C \in Nat \ {0}, NEW i \in 0 .. C - 1, NEW k \in 0 .. C - 1
    PROVE  (((i + k) % C) + C - i) % C = k
  <1>1. (i + k) % C = IF i + k < C THEN i + k ELSE i + k - C
    <2>1. PICK z \in Nat : z = i + k /\ z < C + C
      OBVIOUS
    <2>2. z % C = IF z < C THEN z ELSE z - C
      BY <2>1, Wrap
    <2>3. QED
      BY <2>1, <2>2
  <1>2. CASE i + k < C
    <2>1. ((i + k) % C) + C - i = k + C
      BY <1>1, <1>2
    <2>2. k + C \in Nat /\ k + C < C + C
      OBVIOUS
    <2>3. (k + C) % C = k
      BY <2>2, Wrap
    <2>4. QED
      BY <2>1, <2>3
  <1>3. CASE ~(i + k < C)
    <2>1. ((i + k) % C) + C - i = k
      BY <1>1, <1>3
    <2>2. k % C = k
      BY Wrap
    <2>3. QED
      BY <2>1, <2>2
  <1>4. QED
    BY <1>2, <1>3

\* The superblock is in the last slot of its descriptor range.
LEMMA LastSlot ==
    ASSUME NEW C \in Nat \ {0}, NEW i \in 0 .. C - 1, NEW l \in 1 .. C
    PROVE  (((i + l) % C) + C - 1) % C = (i + l - 1) % C
  <1>1. /\ (i + l) % C = IF i + l < C THEN i + l ELSE i + l - C
        /\ (i + l - 1) % C = IF i + l - 1 < C THEN i + l - 1 ELSE i + l - 1 - C
    <2>1. PICK y \in Nat, z \in Nat :
              y = i + l /\ y < C + C /\ z = i + l - 1 /\ z < C + C
      OBVIOUS
    <2>2. /\ y % C = IF y < C THEN y ELSE y - C
          /\ z % C = IF z < C THEN z ELSE z - C
      BY <2>1, Wrap
    <2>3. QED
      BY <2>1, <2>2
  <1> DEFINE z == ((i + l) % C) + C - 1
  <1>2. z \in Nat /\ z < C + C
    BY <1>1
  <1>3. z % C = IF z < C THEN z ELSE z - C
    BY <1>2, Wrap
  <1>4. CASE i + l < C
    <2>1. z = i + l - 1 + C
      BY <1>1, <1>4
    <2>2. QED
      BY <1>1, <1>3, <1>4, <2>1
  <1>5. CASE ~(i + l < C)
    <2>1. z = i + l - 1
      BY <1>1, <1>5
    <2>2. QED
      BY <1>1, <1>3, <1>5, <2>1
  <1>6. QED
    BY <1>4, <1>5

\* Steps along a ring add up.
LEMMA StepsAdd ==
    ASSUME NEW C \in Nat \ {0}, NEW i \in 0 .. C - 1, NEW o \in Nat, NEW k \in Nat, o + k < C
    PROVE  (((i + o) % C) + k) % C = (i + (o + k)) % C
  <1>1. /\ (i + o) % C = IF i + o < C THEN i + o ELSE i + o - C
        /\ (i + (o + k)) % C = IF i + (o + k) < C THEN i + (o + k) ELSE i + (o + k) - C
    <2>1. PICK y \in Nat, z \in Nat :
              y = i + o /\ y < C + C /\ z = i + (o + k) /\ z < C + C
      OBVIOUS
    <2>2. /\ y % C = IF y < C THEN y ELSE y - C
          /\ z % C = IF z < C THEN z ELSE z - C
      BY <2>1, Wrap
    <2>3. QED
      BY <2>1, <2>2
  <1> DEFINE z == ((i + o) % C) + k
  <1>2. z \in Nat /\ z < C + C
    BY <1>1
  <1>3. z % C = IF z < C THEN z ELSE z - C
    BY <1>2, Wrap
  <1>4. CASE i + o < C
    <2>1. z = i + (o + k)
      BY <1>1, <1>4
    <2>2. QED
      BY <1>1, <1>3, <2>1
  <1>5. CASE ~(i + o < C)
    <2>1. z = i + (o + k) - C
      BY <1>1, <1>5
    <2>2. z < C /\ i + (o + k) >= C
      BY <1>5, <2>1
    <2>3. QED
      BY <1>1, <1>3, <2>1, <2>2
  <1>6. QED
    BY <1>4, <1>5

\* Products grow with their first factor.
LEMMA ProductsGrow ==
    ASSUME NEW i \in Nat, NEW j \in Nat, NEW c \in Nat, i <= j
    PROVE  i * c \in Nat /\ j * c \in Nat /\ i * c <= j * c
  OBVIOUS

\* Rounding a quotient up: the last of n blocks of capacity c is not empty, and
\* n blocks are enough.
LEMMA RoundedUp ==
    ASSUME NEW m \in Nat \ {0}, NEW c \in Nat \ {0}, NEW n, n = (m + c - 1) \div c
    PROVE  n \in Nat /\ n >= 1 /\ (n - 1) * c < m /\ m <= n * c
  OBVIOUS

\* The loop of Selected, made a definition.
Copying(l, I, n) ==
    CHOOSE c : c = [i \in 0 .. n |-> IF i = 0 THEN <<>>
                                     ELSE IF i \in I THEN Append(c[i - 1], l[i])
                                     ELSE c[i - 1]]

\* The loop that copies selected entries is well defined.
LEMMA CopyingIs ==
    ASSUME NEW l, NEW I, NEW n \in Nat
    PROVE  Copying(l, I, n) =
             [i \in 0 .. n |-> IF i = 0 THEN <<>>
                               ELSE IF i \in I THEN Append(Copying(l, I, n)[i - 1], l[i])
                               ELSE Copying(l, I, n)[i - 1]]
  <1> DEFINE Is(c, m) == c = [i \in 0 .. m |-> IF i = 0 THEN <<>>
                                     ELSE IF i \in I THEN Append(c[i - 1], l[i])
                                     ELSE c[i - 1]]
             T == {m \in Nat : \E c : Is(c, m)}
  <1>1. T \subseteq Nat
    OBVIOUS
  <1>2. 0 \in T
    <2>1. Is([i \in 0 .. 0 |-> <<>>], 0)
      OBVIOUS
    <2>2. QED
      BY <2>1
  <1>3. ASSUME NEW m \in T
        PROVE  m + 1 \in T
    <2>1. PICK c : Is(c, m)
      OBVIOUS
    <2> DEFINE last == IF m + 1 \in I THEN Append(c[m], l[m + 1]) ELSE c[m]
               e == [i \in 0 .. m + 1 |-> IF i <= m THEN c[i] ELSE last]
    <2>2. m \in Nat /\ m + 1 \in Nat
      OBVIOUS
    <2>3. ASSUME NEW i \in 0 .. m + 1
          PROVE  e[i] = IF i = 0 THEN <<>>
                        ELSE IF i \in I THEN Append(e[i - 1], l[i]) ELSE e[i - 1]
      <3>1. CASE i = m + 1
        BY <2>2, <3>1
      <3>2. CASE i # m + 1
        <4>1. i \in 0 .. m /\ e[i] = c[i] /\ (i # 0 => i - 1 \in 0 .. m /\ e[i - 1] = c[i - 1])
          BY <2>2, <3>2
        <4> HIDE DEF e
        <4>2. QED
          BY <2>1, <4>1
      <3>3. QED
        BY <3>1, <3>2
    <2>4. Is(e, m + 1)
      <3> DEFINE g == [i \in 0 .. m + 1 |-> IF i = 0 THEN <<>>
                                     ELSE IF i \in I THEN Append(e[i - 1], l[i])
                                     ELSE e[i - 1]]
      <3>1. \A i \in 0 .. m + 1 : e[i] = g[i]
        BY <2>3
      <3>2. e = [i \in 0 .. m + 1 |-> e[i]] /\ g = [i \in 0 .. m + 1 |-> g[i]]
        OBVIOUS
      <3> HIDE DEF e
      <3>3. e = g
        <4> HIDE DEF g
        <4>1. QED
          BY <3>1, <3>2
      <3>4. QED
        BY <3>3
    <2> HIDE DEF e
    <2>5. QED
      BY <2>2, <2>4
  <1> HIDE DEF T
  <1>4. T = Nat
    BY <1>1, <1>2, <1>3, Induction
  <1>5. \E c : Is(c, n)
    BY <1>4 DEF T
  <1>6. QED
    BY <1>5 DEF Copying

\* c holds the entries at the places I among the first x of l, in order.
CopyOf(c, l, I, x, S) ==
    /\ c \in Seq(S)
    /\ \A j \in 1 .. Len(c) : \E k \in 1 .. x : k \in I /\ c[j] = l[k]
    /\ \A k \in 1 .. x : k \in I => \E j \in 1 .. Len(c) : c[j] = l[k]
    /\ \A i, j \in 1 .. Len(c) : c[i] = c[j] => i = j

\* That is what the loop has copied after x entries.
LEMMA CopiedFacts ==
    ASSUME NEW S, NEW l \in Seq(S), NEW I, NEW i \in 0 .. Len(l),
           \A k, m \in 1 .. Len(l) : l[k] = l[m] => k = m
    PROVE  CopyOf(Copying(l, I, Len(l))[i], l, I, i, S)
  <1> DEFINE n == Len(l)
             C == Copying(l, I, n)
             Ok(c, x) == CopyOf(c, l, I, x, S)
             T == {x \in Nat : x <= n => Ok(C[x], x)}
  <1>1. n \in Nat
    OBVIOUS
  <1>2. C = [x \in 0 .. n |-> IF x = 0 THEN <<>>
                              ELSE IF x \in I THEN Append(C[x - 1], l[x]) ELSE C[x - 1]]
    BY <1>1, CopyingIs
  <1> HIDE DEF C
  <1>3. T \subseteq Nat
    OBVIOUS
  <1>4. 0 \in T
    <2>1. C[0] = <<>>
      BY <1>1, <1>2
    <2>2. Ok(<<>>, 0)
      BY DEF CopyOf
    <2>3. QED
      BY <2>1, <2>2
  <1>5. ASSUME NEW x \in T
        PROVE  x + 1 \in T
    <2>1. x \in Nat /\ x + 1 \in Nat
      OBVIOUS
    <2> SUFFICES ASSUME x + 1 <= n
                 PROVE  Ok(C[x + 1], x + 1)
      BY <2>1
    <2>2. Ok(C[x], x)
      BY <1>1, <2>1
    <2>3. /\ l[x + 1] \in S
          /\ C[x + 1] = IF x + 1 \in I THEN Append(C[x], l[x + 1]) ELSE C[x]
      <3>1. x + 1 \in 1 .. n /\ x + 1 \in 0 .. n /\ x + 1 # 0 /\ (x + 1) - 1 = x
        BY <1>1, <2>1
      <3>2. l[x + 1] \in S
        BY <3>1
      <3> HIDE DEF n
      <3>3. C[x + 1] = [y \in 0 .. n |-> IF y = 0 THEN <<>>
                           ELSE IF y \in I THEN Append(C[y - 1], l[y])
                           ELSE C[y - 1]][x + 1]
        BY <1>2
      <3>4. C[x + 1] = IF x + 1 \in I THEN Append(C[(x + 1) - 1], l[x + 1])
                       ELSE C[(x + 1) - 1]
        BY <3>1, <3>3
      <3>5. QED
        BY <3>1, <3>2, <3>4
    <2> PICK c : c = C[x]
      OBVIOUS
    <2> PICK r : r = l[x + 1]
      OBVIOUS
    <2>4. Ok(c, x) /\ r \in S
      BY <2>2, <2>3
    <2>8. Len(c) \in Nat /\ c \in Seq(S)
      BY <2>4 DEF CopyOf
    <2> HIDE DEF n
    <2>5. CASE x + 1 \in I
      <3>1. C[x + 1] = Append(c, r)
        BY <2>3, <2>5
      <3>2. /\ Append(c, r) \in Seq(S) /\ Len(Append(c, r)) = Len(c) + 1
            /\ \A j \in 1 .. Len(c) : Append(c, r)[j] = c[j]
            /\ Append(c, r)[Len(c) + 1] = r
        BY <2>4, <2>8
      <3> PICK e : e = Append(c, r)
        OBVIOUS
      <3>3. Len(e) = Len(c) + 1
        BY <3>2
      <3>4. \A j \in 1 .. Len(e) : \E k \in 1 .. x + 1 : k \in I /\ e[j] = l[k]
        <4> TAKE j \in 1 .. Len(e)
        <4>1. CASE j = Len(c) + 1
          BY <2>1, <2>5, <3>2, <3>3, <4>1
        <4>2. CASE j # Len(c) + 1
          <5>1. j \in 1 .. Len(c)
            <6>1. j \in Nat /\ 1 <= j /\ j <= Len(c) + 1
              BY <3>3
            <6>2. QED
              BY <2>8, <4>2, <6>1
          <5>2. PICK k \in 1 .. x : k \in I /\ c[j] = l[k]
            BY <2>4, <5>1 DEF CopyOf
          <5>3. k \in 1 .. x + 1 /\ e[j] = c[j]
            BY <2>1, <3>2, <5>1
          <5>4. QED
            BY <5>2, <5>3
        <4>3. QED
          BY <4>1, <4>2
      <3>5. \A k \in 1 .. x + 1 : k \in I => \E j \in 1 .. Len(e) : e[j] = l[k]
        <4> TAKE k \in 1 .. x + 1
        <4> HAVE k \in I
        <4>1. CASE k = x + 1
          <5>1. Len(c) + 1 \in 1 .. Len(e)
            BY <2>8, <3>3
          <5>2. QED
            BY <3>2, <4>1, <5>1
        <4>2. CASE k # x + 1
          <5>1. k \in 1 .. x
            BY <2>1, <4>2
          <5>2. PICK j \in 1 .. Len(c) : c[j] = l[k]
            BY <2>4, <5>1 DEF CopyOf
          <5>3. j \in 1 .. Len(e) /\ e[j] = c[j]
            BY <2>8, <3>2, <3>3
          <5>4. QED
            BY <5>2, <5>3
        <4>3. QED
          BY <4>1, <4>2
      <3>7. \A a, b \in 1 .. Len(e) : e[a] = e[b] => a = b
        <4>1. \A a \in 1 .. Len(e) : a \in 1 .. Len(c) \/ a = Len(c) + 1
          BY <2>8, <3>3
        <4>2. ASSUME NEW a \in 1 .. Len(c) PROVE e[a] # r
          <5>1. PICK k \in 1 .. x : k \in I /\ c[a] = l[k]
            BY <2>4 DEF CopyOf
          <5>2. k \in 1 .. n /\ x + 1 \in 1 .. n /\ k # x + 1
            BY <1>1, <2>1
          <5>3. l[k] # l[x + 1]
            BY <5>2 DEF n
          <5>4. QED
            BY <3>2, <5>1, <5>3
        <4>3. ASSUME NEW a \in 1 .. Len(c), NEW b \in 1 .. Len(c), e[a] = e[b] PROVE a = b
          BY <2>4, <3>2, <4>3 DEF CopyOf
        <4>4. e[Len(c) + 1] = r
          BY <3>2
        <4>5. QED
          BY <4>1, <4>2, <4>3, <4>4
      <3>6. QED
        <4>1. e \in Seq(S)
          BY <3>2
        <4>2. Ok(e, x + 1)
          BY <3>4, <3>5, <3>7, <4>1 DEF CopyOf
        <4>3. QED
          BY <3>1, <4>2
    <2>6. CASE x + 1 \notin I
      <3>1. C[x + 1] = c
        BY <2>3, <2>6
      <3>2. \A k \in 1 .. x + 1 : k \in 1 .. x \/ k = x + 1
        BY <2>1
      <3>3. \A k \in 1 .. x : k \in 1 .. x + 1
        BY <2>1
      <3>4. Ok(c, x + 1)
        BY <2>4, <2>6, <3>2, <3>3 DEF CopyOf
      <3>5. QED
        BY <3>1, <3>4
    <2>7. QED
      BY <2>5, <2>6
  <1> HIDE DEF T
  <1>6. T = Nat
    BY <1>3, <1>4, <1>5, Induction
  <1>7. i \in Nat /\ i <= n
    BY <1>1
  <1>8. Ok(C[i], i)
    BY <1>6, <1>7 DEF T
  <1>9. QED
    BY <1>8 DEF C

\* Selected keeps exactly the entries at the places I, each once when the
\* sequence holds each once.
LEMMA SelectedFacts ==
    ASSUME NEW S, NEW l \in Seq(S), NEW I,
           \A k, m \in 1 .. Len(l) : l[k] = l[m] => k = m
    PROVE  CopyOf(Selected(l, I), l, I, Len(l), S)
  <1>1. Len(l) \in 0 .. Len(l)
    OBVIOUS
  <1>2. Selected(l, I) = Copying(l, I, Len(l))[Len(l)]
    BY DEF Selected, Copying
  <1> HIDE DEF Selected
  <1>3. QED
    BY <1>1, <1>2, CopiedFacts

\* The loop that advances the data cursor is well defined.
LEMMA CursorIs ==
    ASSUME NEW ordered, NEW req, Len(ordered) \in Nat
    PROVE  Cursor(ordered, req) =
             [i \in 0 .. Len(ordered) |->
                IF i = 0 THEN 0
                ELSE Cursor(ordered, req)[i - 1] + req.ephemeral[ordered[i]]]
  <1> DEFINE size(i) == req.ephemeral[ordered[i]]
             Is(c, m) == c = [i \in 0 .. m |-> IF i = 0 THEN 0 ELSE c[i - 1] + size(i)]
             T == {m \in Nat : \E c : Is(c, m)}
  <1>1. T \subseteq Nat
    OBVIOUS
  <1>2. 0 \in T
    <2>1. Is([i \in 0 .. 0 |-> 0], 0)
      OBVIOUS
    <2>2. QED
      BY <2>1
  <1>3. ASSUME NEW m \in T
        PROVE  m + 1 \in T
    <2>1. PICK c : Is(c, m)
      OBVIOUS
    <2> DEFINE last == c[m] + size(m + 1)
               e == [i \in 0 .. m + 1 |-> IF i <= m THEN c[i] ELSE last]
    <2>2. m \in Nat /\ m + 1 \in Nat
      OBVIOUS
    <2>3. ASSUME NEW i \in 0 .. m + 1
          PROVE  e[i] = IF i = 0 THEN 0 ELSE e[i - 1] + size(i)
      <3>1. CASE i = m + 1
        <4>1. e[i] = last /\ e[i - 1] = c[m] /\ i # 0
          BY <2>2, <3>1
        <4>2. QED
          BY <3>1, <4>1
      <3>2. CASE i # m + 1
        <4>1. i \in 0 .. m /\ e[i] = c[i] /\ (i # 0 => i - 1 \in 0 .. m /\ e[i - 1] = c[i - 1])
          BY <2>2, <3>2
        <4> HIDE DEF e
        <4>2. QED
          BY <2>1, <4>1
      <3>3. QED
        BY <3>1, <3>2
    <2>4. Is(e, m + 1)
      <3> DEFINE g == [i \in 0 .. m + 1 |-> IF i = 0 THEN 0 ELSE e[i - 1] + size(i)]
      <3>1. \A i \in 0 .. m + 1 : e[i] = g[i]
        BY <2>3
      <3>2. e = [i \in 0 .. m + 1 |-> e[i]] /\ g = [i \in 0 .. m + 1 |-> g[i]]
        OBVIOUS
      <3> HIDE DEF e
      <3>3. e = g
        <4> HIDE DEF g
        <4>1. QED
          BY <3>1, <3>2
      <3>4. QED
        BY <3>3
    <2> HIDE DEF e
    <2>5. QED
      BY <2>2, <2>4
  <1> HIDE DEF T
  <1>4. T = Nat
    BY <1>1, <1>2, <1>3, Induction
  <1>5. \E c : Is(c, Len(ordered))
    BY <1>4 DEF T
  <1>6. QED
    BY <1>5 DEF Cursor

\* The cursor starts at 0 and advances by the size of each object, never back.
LEMMA CursorFacts ==
    ASSUME NEW ordered, NEW req, Len(ordered) \in Nat,
           \A i \in 1 .. Len(ordered) : req.ephemeral[ordered[i]] \in Nat \ {0}
    PROVE  LET f == Cursor(ordered, req) IN
           /\ f[0] = 0
           /\ \A i \in 0 .. Len(ordered) : f[i] \in Nat
           /\ \A i \in 1 .. Len(ordered) : f[i] = f[i - 1] + req.ephemeral[ordered[i]]
           /\ \A i, j \in 0 .. Len(ordered) : i <= j => f[i] <= f[j]
  <1> DEFINE n == Len(ordered)
             f == Cursor(ordered, req)
             size(i) == req.ephemeral[ordered[i]]
  <1>1. f = [i \in 0 .. n |-> IF i = 0 THEN 0 ELSE f[i - 1] + size(i)]
    BY CursorIs
  <1> HIDE DEF f
  <1>2. f[0] = 0
    BY <1>1
  <1>3. \A i \in 1 .. n : f[i] = f[i - 1] + size(i)
    <2> TAKE i \in 1 .. n
    <2>1. i \in 0 .. n /\ i # 0
      OBVIOUS
    <2>2. f[i] = [j \in 0 .. n |-> IF j = 0 THEN 0 ELSE f[j - 1] + size(j)][i]
      BY <1>1
    <2> HIDE DEF size, n
    <2>3. QED
      BY <2>1, <2>2
  <1> DEFINE T == {m \in Nat : m <= n => f[m] \in Nat}
  <1>4. T = Nat
    <2>1. T \subseteq Nat /\ 0 \in T
      BY <1>2
    <2>2. ASSUME NEW m \in T PROVE m + 1 \in T
      <3>1. m \in Nat /\ m + 1 \in Nat /\ (m + 1) - 1 = m
        OBVIOUS
      <3>2. CASE m + 1 <= n
        <4>1. m + 1 \in 1 .. n /\ m <= n
          BY <3>1, <3>2
        <4>2. f[m] \in Nat /\ size(m + 1) \in Nat
          BY <3>1, <4>1
        <4>3. f[m + 1] = f[m] + size(m + 1)
          BY <1>3, <3>1, <4>1
        <4> HIDE DEF size
        <4>4. QED
          BY <3>1, <4>2, <4>3
      <3>3. QED
        BY <3>1, <3>2
    <2> HIDE DEF T
    <2>3. QED
      BY <2>1, <2>2, Induction
  <1>5. \A i \in 0 .. n : f[i] \in Nat
    BY <1>4
  <1>6. ASSUME NEW i \in 0 .. n PROVE \A j \in 0 .. n : i <= j => f[i] <= f[j]
    <2> DEFINE U == {m \in Nat : i + m <= n => f[i] <= f[i + m]}
    <2>1. U \subseteq Nat
      OBVIOUS
    <2>4. 0 \in U
      BY <1>5
    <2>2. ASSUME NEW m \in U PROVE m + 1 \in U
      <3>1. m \in Nat /\ i + (m + 1) = (i + m) + 1 /\ i + m \in Nat /\ i + (m + 1) \in Nat
        OBVIOUS
      <3>2. CASE i + (m + 1) <= n
        <4>1. i + m \in 0 .. n /\ i + (m + 1) \in 1 .. n /\ (i + (m + 1)) - 1 = i + m
          BY <3>1, <3>2
        <4>2. f[i + m] \in Nat /\ size(i + (m + 1)) \in Nat /\ f[i] \in Nat
          BY <1>5, <4>1
        <4>3. f[i + (m + 1)] = f[i + m] + size(i + (m + 1))
          BY <1>3, <4>1
        <4>4. f[i] <= f[i + m]
          BY <4>1
        <4> HIDE DEF size
        <4>5. QED
          BY <3>1, <4>2, <4>3, <4>4
      <3>3. QED
        BY <3>1, <3>2
    <2>3. U = Nat
      <3> HIDE DEF U
      <3>1. QED
        BY <2>1, <2>2, <2>4, Induction
    <2>5. ASSUME NEW j \in 0 .. n, i <= j PROVE f[i] <= f[j]
      <3>1. j - i \in Nat /\ i + (j - i) = j /\ j <= n
        BY <2>5
      <3>2. QED
        BY <2>3, <3>1
    <2>6. QED
      BY <2>5
  <1>7. QED
    BY <1>2, <1>3, <1>5, <1>6 DEF f

\* The loop of FlattenSeq, made a definition.
Flattening(s, n) ==
    CHOOSE f : f = [i \in 1 .. n |-> IF i = 1 THEN s[i] ELSE f[i - 1] \o s[i]]

\* The loop that concatenates the mappings of the map blocks is well defined.
LEMMA FlatteningIs ==
    ASSUME NEW s, NEW n \in Nat
    PROVE  Flattening(s, n) =
             [i \in 1 .. n |-> IF i = 1 THEN s[i] ELSE Flattening(s, n)[i - 1] \o s[i]]
  <1> DEFINE Is(c, m) == c = [i \in 1 .. m |-> IF i = 1 THEN s[i] ELSE c[i - 1] \o s[i]]
             T == {m \in Nat : \E c : Is(c, m)}
  <1>1. T \subseteq Nat
    OBVIOUS
  <1>2. 0 \in T
    <2>1. Is([i \in 1 .. 0 |-> 0], 0)
      OBVIOUS
    <2>2. QED
      BY <2>1
  <1>3. ASSUME NEW m \in T
        PROVE  m + 1 \in T
    <2>1. PICK c : Is(c, m)
      OBVIOUS
    <2> DEFINE last == IF m = 0 THEN s[1] ELSE c[m] \o s[m + 1]
               e == [i \in 1 .. m + 1 |-> IF i <= m THEN c[i] ELSE last]
    <2>2. m \in Nat /\ m + 1 \in Nat
      OBVIOUS
    <2>3. ASSUME NEW i \in 1 .. m + 1
          PROVE  e[i] = IF i = 1 THEN s[i] ELSE e[i - 1] \o s[i]
      <3>1. CASE i = m + 1
        <4>1. e[i] = last /\ (i # 1 => e[i - 1] = c[m] /\ m # 0) /\ (i = 1 => m = 0)
          BY <2>2, <3>1
        <4> HIDE DEF e
        <4>2. QED
          BY <3>1, <4>1
      <3>2. CASE i # m + 1
        <4>1. i \in 1 .. m /\ e[i] = c[i] /\ (i # 1 => i - 1 \in 1 .. m /\ e[i - 1] = c[i - 1])
          BY <2>2, <3>2
        <4> HIDE DEF e
        <4>2. QED
          BY <2>1, <4>1
      <3>3. QED
        BY <3>1, <3>2
    <2>4. Is(e, m + 1)
      <3> DEFINE g == [i \in 1 .. m + 1 |-> IF i = 1 THEN s[i] ELSE e[i - 1] \o s[i]]
      <3>1. \A i \in 1 .. m + 1 : e[i] = g[i]
        BY <2>3
      <3>2. e = [i \in 1 .. m + 1 |-> e[i]] /\ g = [i \in 1 .. m + 1 |-> g[i]]
        OBVIOUS
      <3> HIDE DEF e
      <3>3. e = g
        <4> HIDE DEF g
        <4>1. QED
          BY <3>1, <3>2
      <3>4. QED
        BY <3>3
    <2> HIDE DEF e
    <2>5. QED
      BY <2>2, <2>4
  <1> HIDE DEF T
  <1>4. T = Nat
    BY <1>1, <1>2, <1>3, Induction
  <1>5. \E c : Is(c, n)
    BY <1>4 DEF T
  <1>6. QED
    BY <1>5 DEF Flattening

\* Two adjacent pieces of a sequence make one.
LEMMA PiecesJoin ==
    ASSUME NEW S, NEW m \in Seq(S), NEW a \in Nat, NEW b \in Nat, a <= b, b <= Len(m)
    PROVE  SubSeq(m, 1, a) \o SubSeq(m, a + 1, b) = SubSeq(m, 1, b)
  <1> DEFINE p == SubSeq(m, 1, a)
             q == SubSeq(m, a + 1, b)
             r == SubSeq(m, 1, b)
  <1>1. p \in Seq(S) /\ Len(p) = a /\ \A i \in 1 .. a : p[i] = m[i]
    OBVIOUS
  <1>2. q \in Seq(S) /\ Len(q) = b - a /\ \A i \in 1 .. b - a : q[i] = m[a + i]
    OBVIOUS
  <1>3. r \in Seq(S) /\ Len(r) = b /\ \A i \in 1 .. b : r[i] = m[i]
    OBVIOUS
  <1> HIDE DEF p, q, r
  <1>4. p \o q \in Seq(S) /\ Len(p \o q) = b
    <2>4. p \in Seq(S) /\ q \in Seq(S)
      BY <1>1, <1>2
    <2>5. p \o q \in Seq(S)
      BY <2>4
    <2>1. Len(p \o q) = Len(p) + Len(q)
      BY <2>4
    <2>2. Len(p) + Len(q) = b
      BY <1>1, <1>2
    <2>3. QED
      BY <2>1, <2>2, <2>5
  <1>5. ASSUME NEW i \in 1 .. b PROVE (p \o q)[i] = r[i]
    <2>1. CASE i <= a
      <3>1. i \in 1 .. a /\ i \in 1 .. Len(p)
        BY <1>1, <2>1
      <3>2. QED
        BY <1>1, <1>2, <1>3, <3>1
    <2>2. CASE ~(i <= a)
      <3>1. i - a \in 1 .. b - a /\ i - Len(p) = i - a /\ a + (i - a) = i
        BY <1>1, <2>2
      <3>2. (p \o q)[i] = q[i - a]
        BY <1>1, <1>2, <2>2, <3>1
      <3>3. QED
        BY <1>2, <1>3, <3>1, <3>2
    <2>3. QED
      BY <2>1, <2>2
  <1>6. p \o q = r
    BY <1>3, <1>4, <1>5
  <1>7. QED
    BY <1>6 DEF p, q, r

\* A single map block's mappings are the generation's.
LEMMA FlattenOne ==
    ASSUME NEW s, Len(s) = 1
    PROVE  FlattenSeq(s) = s[1]
  <1>1. FlattenSeq(s) = Flattening(s, 1)[1]
    BY DEF FlattenSeq, Flattening
  <1>2. Flattening(s, 1)
          = [i \in 1 .. 1 |-> IF i = 1 THEN s[i] ELSE Flattening(s, 1)[i - 1] \o s[i]]
    BY FlatteningIs
  <1>3. QED
    BY <1>1, <1>2

\* Mappings cut into map blocks of a given capacity are read back in order.
LEMMA FlattenShares ==
    ASSUME NEW S, NEW maps \in Seq(S), NEW cap \in Nat \ {0}, NEW n \in Nat \ {0},
           (n - 1) * cap < Len(maps), Len(maps) <= n * cap,
           NEW s, Len(s) = n,
           \A k \in 1 .. n : s[k] = SubSeq(maps, (k - 1) * cap + 1,
                                           IF k = n THEN Len(maps) ELSE k * cap)
    PROVE  FlattenSeq(s) = maps
  <1> DEFINE f == Flattening(s, n)
             end(k) == IF k = n THEN Len(maps) ELSE k * cap
  <1>1. FlattenSeq(s) = f[n]
    BY DEF FlattenSeq, Flattening
  <1>2. f = [i \in 1 .. n |-> IF i = 1 THEN s[i] ELSE f[i - 1] \o s[i]]
    BY FlatteningIs
  <1> HIDE DEF f
  <1>3. f[1] = s[1]
    BY <1>2
  <1>4. \A i \in 1 .. n : i # 1 => f[i] = f[i - 1] \o s[i]
    BY <1>2
  <1>5. \A k \in 1 .. n : end(k) \in Nat /\ end(k) <= Len(maps)
    <2> TAKE k \in 1 .. n
    <2>1. CASE k = n
      BY <2>1
    <2>2. CASE k # n
      <3>1. k \in Nat /\ n - 1 \in Nat /\ k <= n - 1
        BY <2>2
      <3>2. k * cap \in Nat /\ k * cap <= (n - 1) * cap /\ (n - 1) * cap \in Nat
        BY <3>1, ProductsGrow
      <3>3. Len(maps) \in Nat
        OBVIOUS
      <3>4. end(k) = k * cap
        BY <2>2
      <3>5. QED
        BY <3>2, <3>3, <3>4
    <2>3. QED
      BY <2>1, <2>2
  <1>6. \A k \in 1 .. n : k # 1 => end(k - 1) = (k - 1) * cap /\ end(k - 1) <= end(k)
    <2> TAKE k \in 1 .. n
    <2> HAVE k # 1
    <2>1. k - 1 \in 1 .. n /\ k - 1 # n /\ k - 1 \in Nat /\ k \in Nat /\ k - 1 <= k
      OBVIOUS
    <2>2. end(k - 1) = (k - 1) * cap
      BY <2>1
    <2>3. CASE k = n
      BY <1>5, <2>1, <2>3
    <2>4. CASE k # n
      <3>1. end(k) = k * cap
        BY <2>4
      <3>2. (k - 1) * cap <= k * cap
        BY <2>1, ProductsGrow
      <3>3. QED
        BY <2>2, <3>1, <3>2
    <2>5. QED
      BY <2>2, <2>3, <2>4
  <1>7. \A k \in 1 .. n : s[k] = SubSeq(maps, (k - 1) * cap + 1, end(k))
    OBVIOUS
  <1> HIDE DEF end
  <1> DEFINE T == {m \in Nat : m + 1 <= n => f[m + 1] = SubSeq(maps, 1, end(m + 1))}
  <1>8. T \subseteq Nat
    OBVIOUS
  <1>9. 0 \in T
    <2>1. 1 \in 1 .. n /\ (1 - 1) * cap + 1 = 1
      OBVIOUS
    <2>2. s[1] = SubSeq(maps, 1, end(1))
      BY <1>7, <2>1
    <2>3. QED
      BY <1>3, <2>2
  <1>10. ASSUME NEW m \in T PROVE m + 1 \in T
    <2>1. m \in Nat /\ m + 1 \in Nat /\ (m + 1) + 1 = m + 2 /\ m + 2 \in Nat
      OBVIOUS
    <2>2. CASE m + 2 <= n
      <3>1. m + 2 \in 1 .. n /\ m + 2 # 1 /\ (m + 2) - 1 = m + 1 /\ m + 1 \in 1 .. n
        BY <2>1, <2>2
      <3>2. f[m + 1] = SubSeq(maps, 1, end(m + 1))
        BY <2>1, <3>1
      <3>3. f[m + 2] = f[m + 1] \o s[m + 2]
        BY <1>4, <3>1
      <3>4. s[m + 2] = SubSeq(maps, end(m + 1) + 1, end(m + 2))
        BY <1>6, <1>7, <3>1
      <3>5. /\ end(m + 1) \in Nat /\ end(m + 2) \in Nat
            /\ end(m + 1) <= end(m + 2) /\ end(m + 2) <= Len(maps)
        BY <1>5, <1>6, <3>1
      <3>6. SubSeq(maps, 1, end(m + 1)) \o SubSeq(maps, end(m + 1) + 1, end(m + 2))
              = SubSeq(maps, 1, end(m + 2))
        BY <3>5, PiecesJoin
      <3>7. f[(m + 1) + 1] = SubSeq(maps, 1, end((m + 1) + 1))
        BY <2>1, <3>2, <3>3, <3>4, <3>6
      <3>8. QED
        BY <2>1, <3>7
    <2>3. CASE ~(m + 2 <= n)
      BY <2>1, <2>3
    <2>4. QED
      BY <2>2, <2>3
  <1>11. T = Nat
    <2> HIDE DEF T
    <2>1. QED
      BY <1>8, <1>9, <1>10, Induction
  <1>12. f[n] = SubSeq(maps, 1, Len(maps))
    <2>1. n - 1 \in Nat /\ (n - 1) + 1 = n /\ n <= n
      OBVIOUS
    <2>4. n - 1 \in T
      BY <1>11, <2>1
    <2>2. end(n) = Len(maps)
      BY DEF end
    <2>3. QED
      BY <2>1, <2>2, <2>4
  <1>13. SubSeq(maps, 1, Len(maps)) = maps
    OBVIOUS
  <1>14. QED
    BY <1>1, <1>12, <1>13

-----------------------------------------------------------------------------
(* The order and the layout of the objects of a plan.                       *)

\* A request names object ids and sizes within their bounds.
LEMMA RequestTyped ==
    ASSUME NEW req \in Requests
    PROVE  /\ DOMAIN req.ephemeral \subseteq 1 .. MaxOid
           /\ \A oid \in DOMAIN req.ephemeral : req.ephemeral[oid] \in Nat \ {0}
           /\ req.writes \subseteq OwnedBlocks
           /\ req.omap \subseteq OwnedBlocks
  <1>1. PICK S \in SUBSET (1 .. MaxOid) : req.ephemeral \in [S -> ObjectSizes]
    BY DEF Requests
  <1>2. QED
    BY <1>1, RequestAssumption DEF Requests

\* The objects of a plan are those of the request, each once: the surviving
\* ones and the additions.
LEMMA OrderedFacts ==
    ASSUME NEW cur, NEW req \in Requests, MapsSound(cur.maps)
    PROVE  LET o == Ordered(cur, req) IN
           /\ o \in Seq(DOMAIN req.ephemeral)
           /\ \A i, j \in 1 .. Len(o) : o[i] = o[j] => i = j
           /\ \A oid \in DOMAIN req.ephemeral : \E i \in 1 .. Len(o) : o[i] = oid
  <1> DEFINE E == DOMAIN req.ephemeral
             K == Oids(cur.maps)
             n == Len(cur.maps)
             current == [i \in 1 .. n |-> cur.maps[i].oid]
             surviving == {i \in 1 .. n : current[i] \in E}
             additions == E \ K
             ids == [oid \in 1 .. MaxOid |-> oid]
             p == Selected(current, surviving)
             q == Selected(ids, additions)
  <1>1. Ordered(cur, req) = p \o q
    BY DEF Ordered
  <1>2. n \in Nat /\ MaxOid \in Nat /\ E \subseteq 1 .. MaxOid
    BY RequestTyped, RequestAssumption DEF MapsSound
  <1>3. K = {cur.maps[i].oid : i \in 1 .. n}
    BY DEF MapsSound, Oids
  <1>4. current \in Seq(K) /\ Len(current) = n
    BY <1>2, <1>3
  <1>5. ids \in Seq(1 .. MaxOid) /\ Len(ids) = MaxOid
    BY <1>2
  <1>6. \A i \in 1 .. n : current[i] = cur.maps[i].oid
    OBVIOUS
  <1>7. \A i \in 1 .. MaxOid : ids[i] = i
    OBVIOUS
  <1>8. \A i, j \in 1 .. n : current[i] = current[j] => i = j
    BY <1>6 DEF MapsSound
  <1>9. surviving = {i \in 1 .. n : current[i] \in E}
    OBVIOUS
  <1> HIDE DEF E, K, current, ids, surviving, additions
  <1>10. CopyOf(p, current, surviving, n, K)
    BY <1>4, <1>8, SelectedFacts
  <1>11. CopyOf(q, ids, additions, MaxOid, 1 .. MaxOid)
    BY <1>5, <1>7, SelectedFacts
  <1> HIDE DEF p, q, n
  <1>12. \A j \in 1 .. Len(p) : p[j] \in K /\ p[j] \in E
    <2> TAKE j \in 1 .. Len(p)
    <2>1. PICK k \in 1 .. n : k \in surviving /\ p[j] = current[k]
      BY <1>10 DEF CopyOf
    <2>2. QED
      BY <1>3, <1>6, <1>9, <2>1
  <1>13. \A j \in 1 .. Len(q) : q[j] \in E /\ q[j] \notin K
    <2> TAKE j \in 1 .. Len(q)
    <2>1. PICK k \in 1 .. MaxOid : k \in additions /\ q[j] = ids[k]
      BY <1>11 DEF CopyOf
    <2>2. QED
      BY <1>7, <2>1 DEF additions
  <1>14. p \in Seq(E) /\ q \in Seq(E) /\ Len(p) \in Nat /\ Len(q) \in Nat
    <2>1. p \in Seq(K) /\ q \in Seq(1 .. MaxOid)
      BY <1>10, <1>11 DEF CopyOf
    <2>2. Len(p) \in Nat /\ Len(q) \in Nat
      BY <2>1
    <2>3. p \in Seq(E)
      BY <1>12, <2>1
    <2>4. q \in Seq(E)
      BY <1>13, <2>1
    <2>5. QED
      BY <2>2, <2>3, <2>4
  <1> DEFINE o == p \o q
  <1>15. o \in Seq(E) /\ Len(o) = Len(p) + Len(q)
    BY <1>14
  <1>16. \A i \in 1 .. Len(p) : o[i] = p[i]
    BY <1>14
  <1>17. \A i \in 1 .. Len(q) : o[Len(p) + i] = q[i]
    BY <1>14
  <1>18. \A i \in 1 .. Len(o) : \/ i \in 1 .. Len(p)
                                \/ i - Len(p) \in 1 .. Len(q) /\ i = Len(p) + (i - Len(p))
    BY <1>14, <1>15
  <1> HIDE DEF o
  <1>19. ASSUME NEW i \in 1 .. Len(o), NEW j \in 1 .. Len(o), o[i] = o[j]
         PROVE  i = j
    <2>1. CASE i \in 1 .. Len(p) /\ j \in 1 .. Len(p)
      BY <1>10, <1>16, <1>19, <2>1 DEF CopyOf
    <2>2. CASE i \notin 1 .. Len(p) /\ j \notin 1 .. Len(p)
      <3>1. i - Len(p) \in 1 .. Len(q) /\ o[i] = q[i - Len(p)]
        BY <1>17, <1>18, <2>2
      <3>2. j - Len(p) \in 1 .. Len(q) /\ o[j] = q[j - Len(p)]
        BY <1>17, <1>18, <2>2
      <3>3. i - Len(p) = j - Len(p)
        BY <1>11, <1>19, <3>1, <3>2 DEF CopyOf
      <3>4. QED
        BY <1>14, <3>3
    <2>3. CASE i \in 1 .. Len(p) /\ j \notin 1 .. Len(p)
      <3>1. o[i] \in K
        BY <1>12, <1>16, <2>3
      <3>2. o[j] \notin K
        BY <1>13, <1>17, <1>18, <2>3
      <3>3. QED
        BY <1>19, <3>1, <3>2
    <2>4. CASE i \notin 1 .. Len(p) /\ j \in 1 .. Len(p)
      <3>1. o[j] \in K
        BY <1>12, <1>16, <2>4
      <3>2. o[i] \notin K
        BY <1>13, <1>17, <1>18, <2>4
      <3>3. QED
        BY <1>19, <3>1, <3>2
    <2>5. QED
      BY <2>1, <2>2, <2>3, <2>4
  <1>20. ASSUME NEW oid \in E PROVE \E i \in 1 .. Len(o) : o[i] = oid
    <2>1. CASE oid \in K
      <3>1. PICK k \in 1 .. n : oid = current[k] /\ k \in surviving
        BY <1>3, <1>6, <1>9, <2>1
      <3>2. PICK j \in 1 .. Len(p) : p[j] = current[k]
        BY <1>10, <3>1 DEF CopyOf
      <3>3. j \in 1 .. Len(o)
        BY <1>14, <1>15
      <3>4. QED
        BY <1>16, <3>1, <3>2, <3>3
    <2>2. CASE oid \notin K
      <3>1. oid \in 1 .. MaxOid /\ oid \in additions /\ ids[oid] = oid
        BY <1>2, <1>7, <2>2 DEF additions
      <3>2. PICK j \in 1 .. Len(q) : q[j] = ids[oid]
        BY <1>11, <3>1 DEF CopyOf
      <3>3. Len(p) + j \in 1 .. Len(o)
        BY <1>14, <1>15
      <3>4. QED
        BY <1>17, <3>1, <3>2, <3>3
    <2>3. QED
      BY <2>1, <2>2
  <1>21. QED
    BY <1>1, <1>15, <1>19, <1>20 DEF o, E

\* What a plan drawn up for a request against the generation v relies on.
Layable(v, req) ==
    /\ MapsSound(v.maps)
    /\ RingFieldsValid(v.sb.descIndex, v.sb.descLen, v.sb.descNext, DescCount)
    /\ RingFieldsValid(v.sb.dataIndex, v.sb.dataLen, v.sb.dataNext, DataCount)
    /\ EphemeralSetComplete(v, req)
    /\ DataBlocks(v, req) \in 1 .. DataCount
    /\ DescriptorLength(v, req) \in 2 .. DescCount

\* Both rings continue at one of their slots.
LEMMA RingNext ==
    ASSUME NEW index, NEW length, NEW next, NEW count \in Nat \ {0},
           RingFieldsValid(index, length, next, count)
    PROVE  /\ index \in 0 .. count - 1 /\ length \in 0 .. count
           /\ next \in 0 .. count - 1
  BY DEF RingFieldsValid

\* The size of the i-th object of a plan.
SizeOf(v, req, i) == req.ephemeral[Ordered(v, req)[i]]

\* The objects of a plan lie one after the other in its data range.
LEMMA LayoutFacts ==
    ASSUME NEW v, NEW req \in Requests, Layable(v, req)
    PROVE  LET o == Ordered(v, req)
               m == Len(o)
               f == Cursor(o, req)
           IN  /\ m \in Nat /\ m >= 1
               /\ f[0] = 0
               /\ f[m] = DataBlocks(v, req)
               /\ \A i \in 0 .. m : f[i] \in Nat /\ f[i] <= DataBlocks(v, req)
               /\ \A i \in 1 .. m : /\ SizeOf(v, req, i) \in Nat \ {0}
                                    /\ f[i] = f[i - 1] + SizeOf(v, req, i)
               /\ \A i, j \in 0 .. m : i <= j => f[i] <= f[j]
  <1> DEFINE o == Ordered(v, req)
             m == Len(o)
             f == Cursor(o, req)
  <1>1. /\ o \in Seq(DOMAIN req.ephemeral)
        /\ \A oid \in DOMAIN req.ephemeral : \E i \in 1 .. Len(o) : o[i] = oid
    BY OrderedFacts DEF Layable
  <1>2. m \in Nat
    BY <1>1
  <1>3. m >= 1
    <2>1. Spaceman \in DOMAIN req.ephemeral
      BY DEF Layable, EphemeralSetComplete
    <2>2. PICK i \in 1 .. m : o[i] = Spaceman
      BY <1>1, <2>1
    <2>3. QED
      BY <1>2, <2>2
  <1>4. \A i \in 1 .. m : req.ephemeral[o[i]] \in Nat \ {0}
    <2> TAKE i \in 1 .. m
    <2>1. o[i] \in DOMAIN req.ephemeral
      BY <1>1
    <2>2. QED
      BY <2>1, RequestTyped
  <1>5. /\ f[0] = 0
        /\ \A i \in 0 .. m : f[i] \in Nat
        /\ \A i \in 1 .. m : f[i] = f[i - 1] + req.ephemeral[o[i]]
        /\ \A i, j \in 0 .. m : i <= j => f[i] <= f[j]
    BY <1>2, <1>4, CursorFacts
  <1>6. f[m] = DataBlocks(v, req)
    BY DEF DataBlocks
  <1>7. \A i \in 0 .. m : f[i] <= DataBlocks(v, req)
    <2> HIDE DEF f
    <2>1. m \in 0 .. m
      BY <1>2
    <2>2. QED
      BY <1>2, <1>5, <1>6, <2>1
  <1>8. QED
    BY <1>2, <1>3, <1>4, <1>5, <1>6, <1>7 DEF SizeOf

\* The mappings of a plan name each object of the request once.
LEMMA PublishedMapsFacts ==
    ASSUME NEW v, NEW req \in Requests, Layable(v, req)
    PROVE  LET o == Ordered(v, req)
               f == Cursor(o, req)
               maps == PublishedMaps(v, req)
           IN  /\ Len(maps) = Len(o)
               /\ DOMAIN maps = 1 .. Len(o)
               /\ maps \in Seq({maps[i] : i \in 1 .. Len(o)})
               /\ \A i \in 1 .. Len(o) :
                    /\ maps[i].oid = o[i]
                    /\ maps[i].size = SizeOf(v, req, i)
                    /\ maps[i].first = (v.sb.dataNext + f[i - 1]) % DataCount
               /\ MapsSound(maps)
               /\ Spaceman \in Oids(maps)
  <1> DEFINE o == Ordered(v, req)
             f == Cursor(o, req)
             maps == PublishedMaps(v, req)
  <1>1. Len(o) \in Nat
    BY LayoutFacts
  <1>2. maps = [i \in 1 .. Len(o) |->
                  [oid   |-> o[i],
                   size  |-> req.ephemeral[o[i]],
                   first |-> (v.sb.dataNext + f[i - 1]) % DataCount]]
    BY DEF PublishedMaps
  <1>12. MapsSound(v.maps)
    BY DEF Layable
  <1>3. /\ \A i, j \in 1 .. Len(o) : o[i] = o[j] => i = j
        /\ \A oid \in DOMAIN req.ephemeral : \E i \in 1 .. Len(o) : o[i] = oid
    <2>1. \A i, j \in 1 .. Len(o) : o[i] = o[j] => i = j
      BY <1>12, OrderedFacts
    <2>2. \A oid \in DOMAIN req.ephemeral : \E i \in 1 .. Len(o) : o[i] = oid
      BY <1>12, OrderedFacts
    <2>3. QED
      BY <2>1, <2>2
  <1>11. \A i \in 1 .. Len(o) : SizeOf(v, req, i) = req.ephemeral[o[i]]
    BY DEF SizeOf
  <1> HIDE DEF o, f, maps
  <1>4. DOMAIN maps = 1 .. Len(o)
    BY <1>2
  <1>5. \A i \in 1 .. Len(o) :
          /\ maps[i].oid = o[i]
          /\ maps[i].size = SizeOf(v, req, i)
          /\ maps[i].first = (v.sb.dataNext + f[i - 1]) % DataCount
    BY <1>2, <1>11
  <1> DEFINE R == {maps[i] : i \in 1 .. Len(o)}
  <1>6. maps \in [1 .. Len(o) -> R]
    <2>1. maps = [i \in 1 .. Len(o) |-> maps[i]]
      BY <1>2
    <2>2. \A i \in 1 .. Len(o) : maps[i] \in R
      OBVIOUS
    <2> HIDE DEF R
    <2>3. QED
      BY <2>1, <2>2
  <1>7. maps \in Seq(R) /\ Len(maps) = Len(o)
    <2> HIDE DEF R
    <2>1. QED
      BY <1>1, <1>6
  <1>8. MapsSound(maps)
    BY <1>1, <1>3, <1>4, <1>5, <1>7 DEF MapsSound
  <1>9. Spaceman \in Oids(maps)
    <2>1. Spaceman \in DOMAIN req.ephemeral
      BY DEF Layable, EphemeralSetComplete
    <2>2. PICK i \in 1 .. Len(o) : o[i] = Spaceman
      BY <1>3, <2>1
    <2>3. QED
      BY <1>4, <1>5, <2>2 DEF Oids
  <1>10. QED
    BY <1>4, <1>5, <1>7, <1>8, <1>9 DEF o, f, maps, R

\* The map blocks of a plan: the k-th one is in the k-th slot of the range, says
\* so, and holds the k-th share of the mappings.
LEMMA MapsWritten ==
    ASSUME NEW v, NEW req \in Requests, Layable(v, req), NEW a,
           NEW k \in 0 .. DescriptorLength(v, req) - 2
    PROVE  LET before == BeforeSuperblockWrites(v, req, a)
               maps == PublishedMaps(v, req)
               n == DescriptorLength(v, req) - 1
               d == (v.sb.descNext + k) % DescCount
           IN  /\ Desc(d) \in DOMAIN before
               /\ before[Desc(d)] =
                    MapBlock(a, v.sb.nextXid, d, k = n - 1,
                             SubSeq(maps, k * MapCapacity + 1,
                                    IF k = n - 1 THEN Len(maps) ELSE (k + 1) * MapCapacity))
  <1> DEFINE n       == DescriptorLength(v, req) - 1
             maps    == PublishedMaps(v, req)
             cursor  == Cursor(Ordered(v, req), req)
             pos(e)  == (e + DataCount - v.sb.dataNext) % DataCount
             holds(e) == CHOOSE i \in DOMAIN maps : pos(e) \in cursor[i - 1] .. cursor[i] - 1
             objectAt(e) == LET i == holds(e) IN
                 ObjectBlock(a, v.sb.nextXid, maps[i].oid, maps[i].size, pos(e) - cursor[i - 1])
             nth(e)  == (e + DescCount - v.sb.descNext) % DescCount
             share(j) == SubSeq(maps, j * MapCapacity + 1,
                                IF j = n - 1 THEN Len(maps) ELSE (j + 1) * MapCapacity)
             mapAt(e) == MapBlock(a, v.sb.nextXid, e, nth(e) = n - 1, share(nth(e)))
             dom == {Owned(x) : x \in req.writes}
                      \union {Data(x) : x \in RingRange(v.sb.dataNext, DataBlocks(v, req), DataCount)}
                      \union {Desc(x) : x \in RingRange(v.sb.descNext, n, DescCount)}
             before == BeforeSuperblockWrites(v, req, a)
             d == (v.sb.descNext + k) % DescCount
  <1>1. before = [b \in dom |-> CASE b[1] = "owned" -> PayloadBlock(a)
                                  [] b[1] = "data"  -> objectAt(b[2])
                                  [] OTHER          -> mapAt(b[2])]
    BY DEF BeforeSuperblockWrites
  <1>2. DescCount \in Nat \ {0} /\ v.sb.descNext \in 0 .. DescCount - 1
    BY GeometryAssumption, RingNext DEF Layable
  <1>3. n \in Nat /\ n <= DescCount - 1 /\ k \in 0 .. n - 1 /\ k \in 0 .. DescCount - 1
    BY <1>2 DEF Layable
  <1>4. nth(d) = k
    BY <1>2, <1>3, OffsetOf
  <1>5. d \in RingRange(v.sb.descNext, n, DescCount)
    BY <1>3 DEF RingRange
  <1>6. Desc(d) \in dom /\ Desc(d)[1] = "desc" /\ Desc(d)[2] = d
    BY <1>5 DEF Desc
  <1> HIDE DEF before, dom, d, objectAt, n, maps
  <1>7. before[Desc(d)] = mapAt(d)
    BY <1>1, <1>6
  <1>8. mapAt(d) = MapBlock(a, v.sb.nextXid, d, k = n - 1, share(k))
    BY <1>4
  <1>9. DOMAIN before = dom
    BY <1>1
  <1>10. QED
    BY <1>6, <1>7, <1>8, <1>9 DEF before, d, n, maps

\* The objects of a plan: the k-th block of the i-th object is in its place.
LEMMA ObjectsWritten ==
    ASSUME NEW v, NEW req \in Requests, Layable(v, req), NEW a,
           NEW i \in 1 .. Len(Ordered(v, req)), NEW k \in 0 .. SizeOf(v, req, i) - 1
    PROVE  LET before == BeforeSuperblockWrites(v, req, a)
               o == Ordered(v, req)
               d == (v.sb.dataNext + (Cursor(o, req)[i - 1] + k)) % DataCount
           IN  /\ Data(d) \in DOMAIN before
               /\ before[Data(d)] = ObjectBlock(a, v.sb.nextXid, o[i], SizeOf(v, req, i), k)
  <1> DEFINE n       == DescriptorLength(v, req) - 1
             o       == Ordered(v, req)
             maps    == PublishedMaps(v, req)
             cursor  == Cursor(o, req)
             pos(e)  == (e + DataCount - v.sb.dataNext) % DataCount
             holds(e) == CHOOSE j \in DOMAIN maps : pos(e) \in cursor[j - 1] .. cursor[j] - 1
             objectAt(e) == LET j == holds(e) IN
                 ObjectBlock(a, v.sb.nextXid, maps[j].oid, maps[j].size, pos(e) - cursor[j - 1])
             nth(e)  == (e + DescCount - v.sb.descNext) % DescCount
             share(j) == SubSeq(maps, j * MapCapacity + 1,
                                IF j = n - 1 THEN Len(maps) ELSE (j + 1) * MapCapacity)
             mapAt(e) == MapBlock(a, v.sb.nextXid, e, nth(e) = n - 1, share(nth(e)))
             dom == {Owned(x) : x \in req.writes}
                      \union {Data(x) : x \in RingRange(v.sb.dataNext, DataBlocks(v, req), DataCount)}
                      \union {Desc(x) : x \in RingRange(v.sb.descNext, n, DescCount)}
             before == BeforeSuperblockWrites(v, req, a)
             p == cursor[i - 1] + k
             d == (v.sb.dataNext + p) % DataCount
  <1>1. before = [b \in dom |-> CASE b[1] = "owned" -> PayloadBlock(a)
                                  [] b[1] = "data"  -> objectAt(b[2])
                                  [] OTHER          -> mapAt(b[2])]
    BY DEF BeforeSuperblockWrites
  <1>2. DataCount \in Nat \ {0} /\ v.sb.dataNext \in 0 .. DataCount - 1
    BY GeometryAssumption, RingNext DEF Layable
  <1>3. /\ Len(o) \in Nat
        /\ \A j \in 0 .. Len(o) : cursor[j] \in Nat /\ cursor[j] <= DataBlocks(v, req)
        /\ \A j \in 1 .. Len(o) : /\ SizeOf(v, req, j) \in Nat \ {0}
                                  /\ cursor[j] = cursor[j - 1] + SizeOf(v, req, j)
        /\ \A h, j \in 0 .. Len(o) : h <= j => cursor[h] <= cursor[j]
    BY LayoutFacts
  <1>4. /\ DOMAIN maps = 1 .. Len(o)
        /\ maps[i].oid = o[i] /\ maps[i].size = SizeOf(v, req, i)
    BY PublishedMapsFacts
  <1>5. DataBlocks(v, req) \in 1 .. DataCount
    BY DEF Layable
  <1> HIDE DEF o, cursor, maps, before, n
  <1>6. i \in 1 .. Len(o) /\ i \in 0 .. Len(o) /\ i - 1 \in 0 .. Len(o)
    BY <1>3 DEF o
  <1>7. /\ cursor[i - 1] \in Nat /\ cursor[i] \in Nat /\ k \in Nat
        /\ p \in cursor[i - 1] .. cursor[i] - 1
        /\ p \in 0 .. DataBlocks(v, req) - 1 /\ p \in 0 .. DataCount - 1
        /\ p - cursor[i - 1] = k
    <2>1. cursor[i] <= DataBlocks(v, req) /\ cursor[i] = cursor[i - 1] + SizeOf(v, req, i)
      BY <1>3, <1>6
    <2>2. cursor[i - 1] \in Nat /\ cursor[i] \in Nat /\ SizeOf(v, req, i) \in Nat
      BY <1>3, <1>6
    <2>3. PICK x \in Nat, y \in Nat, s \in Nat, t \in Nat :
              /\ x = cursor[i - 1] /\ y = cursor[i]
              /\ s = SizeOf(v, req, i) /\ t = DataBlocks(v, req)
      BY <1>5, <2>2
    <2>4. y <= t /\ y = x + s /\ t <= DataCount /\ k \in 0 .. s - 1
      BY <1>5, <2>1, <2>3
    <2>5. /\ k \in Nat /\ x + k \in x .. y - 1 /\ x + k \in 0 .. t - 1
          /\ x + k \in 0 .. DataCount - 1 /\ (x + k) - x = k
      BY <1>2, <2>4
    <2>6. QED
      BY <2>3, <2>5
  <1>8. pos(d) = p
    <2> HIDE DEF p
    <2>1. QED
      BY <1>2, <1>7, OffsetOf
  <1>9. ASSUME NEW j \in 1 .. Len(o), p \in cursor[j - 1] .. cursor[j] - 1
        PROVE  j = i
    <2>1. j \in 0 .. Len(o) /\ j - 1 \in 0 .. Len(o) /\ j \in Int /\ i \in Int
      BY <1>3, <1>6
    <2>2. cursor[j - 1] \in Nat /\ cursor[j] \in Nat
      BY <1>3, <2>1
    <2>3. CASE j < i
      <3>1. cursor[j] <= cursor[i - 1]
        BY <1>3, <1>6, <2>1, <2>3
      <3> HIDE DEF p
      <3>2. QED
        BY <1>7, <1>9, <2>2, <3>1
    <2>4. CASE i < j
      <3>1. cursor[i] <= cursor[j - 1]
        BY <1>3, <1>6, <2>1, <2>4
      <3> HIDE DEF p
      <3>2. QED
        BY <1>7, <1>9, <2>2, <3>1
    <2>5. QED
      BY <2>1, <2>3, <2>4
  <1> HIDE DEF p
  <1>10. holds(d) = i
    <2>1. i \in DOMAIN maps /\ pos(d) \in cursor[i - 1] .. cursor[i] - 1
      BY <1>4, <1>6, <1>7, <1>8
    <2>2. \A j \in DOMAIN maps : pos(d) \in cursor[j - 1] .. cursor[j] - 1 => j = i
      BY <1>4, <1>8, <1>9
    <2> HIDE DEF pos, d
    <2>3. QED
      BY <2>1, <2>2
  <1>11. objectAt(d) = ObjectBlock(a, v.sb.nextXid, o[i], SizeOf(v, req, i), k)
    <2> HIDE DEF pos, holds, d
    <2>1. QED
      BY <1>4, <1>7, <1>8, <1>10
  <1>12. d \in RingRange(v.sb.dataNext, DataBlocks(v, req), DataCount)
    BY <1>7 DEF RingRange
  <1>13. Data(d) \in dom /\ Data(d)[1] = "data" /\ Data(d)[2] = d
    BY <1>12 DEF Data
  <1> HIDE DEF dom, d, mapAt, objectAt
  <1>14. before[Data(d)] = objectAt(d) /\ DOMAIN before = dom
    BY <1>1, <1>13
  <1>15. QED
    BY <1>11, <1>13, <1>14 DEF before, d, p, o, cursor

-----------------------------------------------------------------------------
(* A planned superblock over its batch heads a complete generation.          *)

\* Mappings that name no object twice name as many objects as there are.
LEMMA OidsCounted ==
    ASSUME NEW maps, MapsSound(maps)
    PROVE  Cardinality(Oids(maps)) = Len(maps)
  <1> DEFINE n == Len(maps)
             S == Oids(maps)
             f == [i \in 1 .. n |-> maps[i].oid]
  <1>1. n \in Nat /\ S = {maps[i].oid : i \in 1 .. n}
    BY DEF MapsSound, Oids
  <1>2. f \in Bijection(1 .. n, S)
    <2>1. f \in [1 .. n -> S]
      BY <1>1
    <2>2. \A i, j \in 1 .. n : f[i] = f[j] => i = j
      BY DEF MapsSound
    <2>3. \A t \in S : \E i \in 1 .. n : f[i] = t
      BY <1>1
    <2> HIDE DEF f, S, n
    <2>4. QED
      BY <2>1, <2>2, <2>3 DEF Bijection, Injection, Surjection, IsInjective
  <1>3. ExistsBijection(1 .. n, S)
    <2> HIDE DEF f, S, n
    <2>1. QED
      BY <1>2 DEF ExistsBijection
  <1>4. IsFiniteSet(1 .. n) /\ Cardinality(1 .. n) = n
    <2> HIDE DEF n
    <2>1. 1 \in Int /\ n \in Int
      BY <1>1
    <2>2. IsFiniteSet(1 .. n) /\ Cardinality(1 .. n) = IF 1 > n THEN 0 ELSE n - 1 + 1
      BY <2>1, FS_Interval
    <2>3. QED
      BY <1>1, <2>2
  <1>5. QED
    <2> HIDE DEF S, n
    <2>1. Cardinality(S) = Cardinality(1 .. n)
      BY <1>3, <1>4, FS_Bijection
    <2>2. Cardinality(S) = n
      BY <1>4, <2>1
    <2>3. QED
      BY <2>2 DEF S, n

\* The fields of a planned superblock that selection reads.
LEMMA SuperblockFields ==
    ASSUME NEW v, NEW req \in Requests, Layable(v, req), NEW a
    PROVE  LET sb == PublishedSuperblock(v, req, a) IN
           /\ sb.kind = "nxsb" /\ sb.xid = v.sb.nextXid
           /\ sb.descIndex = v.sb.descNext /\ sb.descIndex \in 0 .. DescCount - 1
           /\ sb.descLen = DescriptorLength(v, req) /\ sb.descLen \in 2 .. DescCount
           /\ sb.dataIndex = v.sb.dataNext /\ sb.dataIndex \in 0 .. DataCount - 1
           /\ sb.dataLen = DataBlocks(v, req) /\ sb.dataLen \in 1 .. DataCount
           /\ RingFieldsValid(sb.descIndex, sb.descLen, sb.descNext, DescCount)
           /\ RingFieldsValid(sb.dataIndex, sb.dataLen, sb.dataNext, DataCount)
           /\ SlotOf(sb) = (sb.descIndex + sb.descLen - 1) % DescCount
           /\ SlotOf(sb) \in 0 .. DescCount - 1
           /\ SuperblockBlock(sb) = Desc(SlotOf(sb))
  <1> DEFINE sb == PublishedSuperblock(v, req, a)
  <1>1. /\ sb.kind = "nxsb" /\ sb.xid = v.sb.nextXid
        /\ sb.descIndex = v.sb.descNext
        /\ sb.descLen = DescriptorLength(v, req)
        /\ sb.descNext = (v.sb.descNext + DescriptorLength(v, req)) % DescCount
        /\ sb.dataIndex = v.sb.dataNext
        /\ sb.dataLen = DataBlocks(v, req)
        /\ sb.dataNext = (v.sb.dataNext + DataBlocks(v, req)) % DataCount
    BY DEF PublishedSuperblock
  <1> HIDE DEF sb
  <1>2. /\ DescCount \in Nat \ {0} /\ DataCount \in Nat \ {0}
        /\ sb.descIndex \in 0 .. DescCount - 1 /\ sb.dataIndex \in 0 .. DataCount - 1
    BY <1>1, GeometryAssumption, RingNext DEF Layable
  <1>3. sb.descLen \in 2 .. DescCount /\ sb.dataLen \in 1 .. DataCount
    BY <1>1 DEF Layable
  <1>4. /\ RingFieldsValid(sb.descIndex, sb.descLen, sb.descNext, DescCount)
        /\ RingFieldsValid(sb.dataIndex, sb.dataLen, sb.dataNext, DataCount)
    BY <1>1, <1>2, <1>3 DEF RingFieldsValid
  <1>5. SlotOf(sb) = (sb.descIndex + sb.descLen - 1) % DescCount
    <2>1. sb.descLen \in 1 .. DescCount
      BY <1>2, <1>3
    <2>2. (((sb.descIndex + sb.descLen) % DescCount) + DescCount - 1) % DescCount
            = (sb.descIndex + sb.descLen - 1) % DescCount
      BY <1>2, <2>1, LastSlot
    <2>3. QED
      BY <1>1, <2>2 DEF SlotOf
  <1>6. SlotOf(sb) \in 0 .. DescCount - 1
    <2>1. sb.descIndex + sb.descLen - 1 \in Int
      BY <1>2, <1>3
    <2>2. QED
      BY <1>2, <1>5, <2>1
  <1>7. SuperblockBlock(sb) = Desc(SlotOf(sb))
    BY <1>5 DEF SuperblockBlock
  <1>8. QED
    BY <1>1, <1>2, <1>3, <1>4, <1>5, <1>6, <1>7 DEF sb

\* The map blocks are read back as the planned mappings.
LEMMA MappingsRead ==
    ASSUME NEW v, NEW req \in Requests, Layable(v, req), NEW a, NEW dev,
           Holds(dev, BeforeSuperblockWrites(v, req, a))
    PROVE  LET sb == PublishedSuperblock(v, req, a) IN
           /\ ParseCheckpointMapBlocks(dev, sb)
           /\ Mappings(dev, sb) = PublishedMaps(v, req)
  <1> DEFINE sb == PublishedSuperblock(v, req, a)
             n == DescriptorLength(v, req) - 1
             maps == PublishedMaps(v, req)
             before == BeforeSuperblockWrites(v, req, a)
             part(k) == SubSeq(maps, k * MapCapacity + 1,
                               IF k = n - 1 THEN Len(maps) ELSE (k + 1) * MapCapacity)
  <1>1. /\ sb.xid = v.sb.nextXid /\ sb.descIndex = v.sb.descNext
        /\ sb.descLen = DescriptorLength(v, req) /\ sb.descLen \in 2 .. DescCount
    BY SuperblockFields
  <1>2. DescCount \in Nat /\ n \in Nat /\ n >= 1 /\ sb.descLen - 1 = n
        /\ sb.descLen - 2 = n - 1 /\ DescriptorLength(v, req) - 2 = n - 1
    BY <1>1, GeometryAssumption
  <1>3. ASSUME NEW k \in 0 .. n - 1
        PROVE  dev[Desc(MapSlot(sb, k))] =
                 MapBlock(a, sb.xid, MapSlot(sb, k), k = n - 1, part(k))
    <2>1. MapSlot(sb, k) = (v.sb.descNext + k) % DescCount
      BY <1>1 DEF MapSlot
    <2> DEFINE d == (v.sb.descNext + k) % DescCount
    <2>2. k \in 0 .. DescriptorLength(v, req) - 2
      BY <1>2
    <2>3. /\ Desc(d) \in DOMAIN before
          /\ before[Desc(d)] = MapBlock(a, v.sb.nextXid, d, k = n - 1, part(k))
      BY <2>2, MapsWritten
    <2> HIDE DEF d, before, part
    <2>4. dev[Desc(d)] = before[Desc(d)]
      BY <2>3 DEF Holds, before
    <2>5. QED
      BY <1>1, <2>1, <2>3, <2>4 DEF d
  <1> HIDE DEF sb
  <1>4. ASSUME NEW k \in 0 .. n - 1
        PROVE  LET m == dev[Desc(MapSlot(sb, k))] IN
               /\ m.kind = "map" /\ m.slot = MapSlot(sb, k) /\ m.xid = sb.xid
               /\ m.last = (k = n - 1) /\ m.maps = part(k)
    <2> HIDE DEF part, n
    <2>1. PICK final \in BOOLEAN : final = (k = n - 1)
      OBVIOUS
    <2>2. PICK slot : slot = MapSlot(sb, k)
      OBVIOUS
    <2>3. dev[Desc(slot)] = MapBlock(a, sb.xid, slot, final, part(k))
      BY <1>3, <2>1, <2>2
    <2>4. /\ dev[Desc(slot)].kind = "map" /\ dev[Desc(slot)].slot = slot
          /\ dev[Desc(slot)].xid = sb.xid
          /\ dev[Desc(slot)].last = final /\ dev[Desc(slot)].maps = part(k)
      BY <2>3 DEF MapBlock
    <2>5. QED
      BY <2>1, <2>2, <2>4
  <1>5. ParseCheckpointMapBlocks(dev, sb)
    <2> HIDE DEF n, part
    <2>1. QED
      BY <1>2, <1>4 DEF ParseCheckpointMapBlocks
  <1> DEFINE s == [k \in 1 .. n |-> dev[Desc(MapSlot(sb, k - 1))].maps]
             R == {maps[i] : i \in 1 .. Len(Ordered(v, req))}
  <1>6. /\ maps \in Seq(R) /\ Len(maps) = Len(Ordered(v, req))
    BY PublishedMapsFacts
  <1>7. Len(maps) \in Nat \ {0} /\ MapCapacity \in Nat \ {0}
    BY <1>6, LayoutFacts, GeometryAssumption
  <1>8. n = (Len(maps) + MapCapacity - 1) \div MapCapacity
    <2>1. DescriptorLength(v, req) = (Len(maps) + MapCapacity - 1) \div MapCapacity + 1
      BY <1>6 DEF DescriptorLength, MapBlocks
    <2> DEFINE q == (Len(maps) + MapCapacity - 1) \div MapCapacity
    <2>2. q \in Int
      BY <1>7
    <2> HIDE DEF q
    <2>3. QED
      BY <2>1, <2>2 DEF q
  <1>9. (n - 1) * MapCapacity < Len(maps) /\ Len(maps) <= n * MapCapacity
    BY <1>7, <1>8, RoundedUp
  <1>10. Len(s) = n
    <2> HIDE DEF n
    <2>1. QED
      BY <1>2
  <1>11. ASSUME NEW k \in 1 .. n
         PROVE  s[k] = SubSeq(maps, (k - 1) * MapCapacity + 1,
                              IF k = n THEN Len(maps) ELSE k * MapCapacity)
    <2>1. k - 1 \in 0 .. n - 1 /\ (k - 1) + 1 = k /\ (k - 1 = n - 1 <=> k = n)
      BY <1>2
    <2>2. s[k] = dev[Desc(MapSlot(sb, k - 1))].maps
      OBVIOUS
    <2>3. s[k] = part(k - 1)
      BY <1>4, <2>1, <2>2
    <2> HIDE DEF n, maps
    <2>4. QED
      BY <2>1, <2>3
  <1>12. FlattenSeq(s) = maps
    <2>1. n \in Nat \ {0}
      BY <1>2
    <2> HIDE DEF s, n, maps, R
    <2>2. QED
      BY <1>6, <1>7, <1>9, <1>10, <1>11, <2>1, FlattenShares
  <1>13. Mappings(dev, sb) = maps
    <2>1. Mappings(dev, sb) = FlattenSeq(s)
      BY <1>2 DEF Mappings
    <2>2. QED
      BY <1>12, <2>1
  <1>14. QED
    BY <1>5, <1>13 DEF sb

\* Every mapped object of a plan validates over its batch.
LEMMA ObjectsRead ==
    ASSUME NEW v, NEW req \in Requests, Layable(v, req), NEW a, NEW dev,
           Holds(dev, BeforeSuperblockWrites(v, req, a)),
           NEW i \in 1 .. Len(Ordered(v, req))
    PROVE  ValidateMappedObject(dev, PublishedSuperblock(v, req, a), PublishedMaps(v, req)[i])
  <1> DEFINE sb == PublishedSuperblock(v, req, a)
             m == PublishedMaps(v, req)[i]
             o == Ordered(v, req)
             cursor == Cursor(o, req)
             before == BeforeSuperblockWrites(v, req, a)
             size == SizeOf(v, req, i)
  <1>1. /\ sb.xid = v.sb.nextXid
        /\ sb.dataIndex = v.sb.dataNext /\ sb.dataIndex \in 0 .. DataCount - 1
        /\ sb.dataLen = DataBlocks(v, req) /\ sb.dataLen \in 1 .. DataCount
    BY SuperblockFields
  <1>2. /\ m.oid = o[i] /\ m.size = size
        /\ m.first = (v.sb.dataNext + cursor[i - 1]) % DataCount
    BY PublishedMapsFacts
  <1>3. /\ Len(o) \in Nat
        /\ \A j \in 0 .. Len(o) : cursor[j] \in Nat /\ cursor[j] <= DataBlocks(v, req)
        /\ \A j \in 1 .. Len(o) : /\ SizeOf(v, req, j) \in Nat \ {0}
                                  /\ cursor[j] = cursor[j - 1] + SizeOf(v, req, j)
    BY LayoutFacts
  <1>4. DataCount \in Nat \ {0}
    BY GeometryAssumption
  <1>5. ASSUME NEW k \in 0 .. size - 1
        PROVE  dev[Data((v.sb.dataNext + (cursor[i - 1] + k)) % DataCount)]
                 = ObjectBlock(a, sb.xid, o[i], size, k)
    <2> DEFINE d == (v.sb.dataNext + (cursor[i - 1] + k)) % DataCount
    <2>1. /\ Data(d) \in DOMAIN before
          /\ before[Data(d)] = ObjectBlock(a, v.sb.nextXid, o[i], size, k)
      BY ObjectsWritten
    <2> HIDE DEF d, before, o, size
    <2>2. dev[Data(d)] = before[Data(d)]
      BY <2>1 DEF Holds, before
    <2>3. QED
      BY <1>1, <2>1, <2>2 DEF d
  <1>6. /\ cursor[i - 1] \in Nat /\ size \in Nat \ {0}
        /\ cursor[i - 1] + size <= sb.dataLen
    <2>1. i \in 0 .. Len(o) /\ i - 1 \in 0 .. Len(o) /\ i \in 1 .. Len(o)
      BY <1>3
    <2> HIDE DEF o, cursor, sb
    <2>2. /\ cursor[i - 1] \in Nat /\ cursor[i] <= DataBlocks(v, req)
          /\ size \in Nat \ {0} /\ cursor[i] = cursor[i - 1] + size
      BY <1>3, <2>1
    <2>3. QED
      BY <1>1, <2>2
  <1> HIDE DEF sb, m, o, cursor, size
  <1>7. m.size \in 1 .. DataCount
    BY <1>1, <1>2, <1>4, <1>6
  <1>8. \E t \in 0 .. sb.dataLen - m.size : m.first = (sb.dataIndex + t) % DataCount
    <2>1. cursor[i - 1] \in 0 .. sb.dataLen - m.size
      BY <1>1, <1>2, <1>4, <1>6
    <2>2. m.first = (sb.dataIndex + cursor[i - 1]) % DataCount
      BY <1>1, <1>2
    <2>3. QED
      BY <2>1, <2>2
  <1>9. ASSUME NEW k \in 0 .. m.size - 1
        PROVE  dev[Data((m.first + k) % DataCount)] = ObjectBlock(a, sb.xid, m.oid, m.size, k)
    <2>1. k \in 0 .. size - 1 /\ k \in Nat /\ cursor[i - 1] + k < DataCount
      BY <1>1, <1>2, <1>4, <1>6
    <2>2. (m.first + k) % DataCount = (v.sb.dataNext + (cursor[i - 1] + k)) % DataCount
      <3>1. PICK x \in 0 .. DataCount - 1, y \in Nat :
                x = v.sb.dataNext /\ y = cursor[i - 1]
        BY <1>1, <1>6
      <3>2. k \in Nat /\ y + k < DataCount
        BY <2>1, <3>1
      <3>3. (((x + y) % DataCount) + k) % DataCount = (x + (y + k)) % DataCount
        BY <1>4, <3>2, StepsAdd
      <3>4. QED
        BY <1>2, <3>1, <3>3
    <2>3. QED
      BY <1>2, <1>5, <2>1, <2>2
  <1>10. LET head == dev[Data(m.first)] IN
           head.kind = "object" /\ head.xid = sb.xid /\ head.attempt = a
    <2>1. 0 \in 0 .. size - 1 /\ cursor[i - 1] + 0 = cursor[i - 1]
      BY <1>6
    <2>2. dev[Data(m.first)] = ObjectBlock(a, sb.xid, o[i], size, 0)
      BY <1>2, <1>5, <2>1
    <2>3. QED
      BY <2>2 DEF ObjectBlock
  <1>11. ValidateMappedObject(dev, sb, m)
    BY <1>7, <1>8, <1>9, <1>10 DEF ValidateMappedObject
  <1>12. QED
    BY <1>11 DEF sb, m

\* A planned superblock over its whole batch heads a complete generation, with
\* the planned mappings.
LEMMA PublishedIsComplete ==
    ASSUME NEW v, NEW req \in Requests, Layable(v, req), NEW a, NEW dev,
           Holds(dev, BeforeSuperblockWrites(v, req, a)),
           dev[SuperblockBlock(PublishedSuperblock(v, req, a))] = PublishedSuperblock(v, req, a)
    PROVE  LET sb == PublishedSuperblock(v, req, a) IN
           /\ CompleteCandidate(dev, SlotOf(sb))
           /\ Mappings(dev, sb) = PublishedMaps(v, req)
  <1> DEFINE sb == PublishedSuperblock(v, req, a)
             maps == PublishedMaps(v, req)
             c == SlotOf(sb)
  <1>1. /\ sb.kind = "nxsb"
        /\ sb.descLen \in 2 .. DescCount
        /\ RingFieldsValid(sb.descIndex, sb.descLen, sb.descNext, DescCount)
        /\ RingFieldsValid(sb.dataIndex, sb.dataLen, sb.dataNext, DataCount)
        /\ SuperblockBlock(sb) = Desc(c)
    BY SuperblockFields
  <1>2. dev[Desc(c)] = sb
    BY <1>1
  <1>3. ParseCheckpointMapBlocks(dev, sb) /\ Mappings(dev, sb) = maps
    BY MappingsRead
  <1>4. DOMAIN maps = 1 .. Len(Ordered(v, req)) /\ MapsSound(maps) /\ Spaceman \in Oids(maps)
    BY PublishedMapsFacts
  <1>5. Cardinality(Oids(maps)) = Len(maps)
    <2> HIDE DEF maps
    <2>1. QED
      BY <1>4, OidsCounted
  <1>6. \A i \in DOMAIN maps : ValidateMappedObject(dev, sb, maps[i])
    BY <1>4, ObjectsRead
  <1>7. c = (sb.descNext + DescCount - 1) % DescCount
    BY DEF SlotOf
  <1>8. sb.descLen # 0
    BY <1>1
  <1> HIDE DEF sb, maps, c
  <1>9. CompleteCandidate(dev, c)
    BY <1>1, <1>2, <1>3, <1>4, <1>5, <1>6, <1>7, <1>8 DEF CompleteCandidate
  <1>10. QED
    BY <1>3, <1>9 DEF sb, maps, c

-----------------------------------------------------------------------------
(* A generation is complete because of the blocks of its footprint.         *)

\* The ring slots that selection reads of a generation are in its footprint.
LEMMA SlotsInFootprint ==
    ASSUME NEW dev, NEW c \in 0 .. DescCount - 1, CompleteCandidate(dev, c)
    PROVE  LET sb == dev[Desc(c)] IN
           /\ c = SlotOf(sb)
           /\ Desc(c) \in Footprint(sb)
           /\ \A k \in 0 .. sb.descLen - 2 : Desc(MapSlot(sb, k)) \in Footprint(sb)
           /\ \A k \in 0 .. sb.dataLen - 1 :
                Data((sb.dataIndex + k) % DataCount) \in Footprint(sb)
           /\ sb.descLen \in Nat /\ sb.descLen >= 1
           /\ sb.dataIndex \in 0 .. DataCount - 1 /\ sb.dataLen \in 0 .. DataCount
  <1> DEFINE sb == dev[Desc(c)]
  <1>1. /\ RingFieldsValid(sb.descIndex, sb.descLen, sb.descNext, DescCount)
        /\ sb.descLen # 0
        /\ c = (sb.descNext + DescCount - 1) % DescCount
        /\ RingFieldsValid(sb.dataIndex, sb.dataLen, sb.dataNext, DataCount)
    BY DEF CompleteCandidate
  <1> HIDE DEF sb
  <1>2. DescCount \in Nat \ {0} /\ DataCount \in Nat \ {0}
    BY GeometryAssumption
  <1>3. /\ sb.descIndex \in 0 .. DescCount - 1 /\ sb.descLen \in 1 .. DescCount
        /\ sb.descNext = (sb.descIndex + sb.descLen) % DescCount
        /\ sb.dataIndex \in 0 .. DataCount - 1 /\ sb.dataLen \in 0 .. DataCount
    BY <1>1, <1>2 DEF RingFieldsValid
  <1>4. c = (sb.descIndex + sb.descLen - 1) % DescCount
    BY <1>1, <1>2, <1>3, LastSlot
  <1>5. Desc(c) \in Footprint(sb)
    <2>1. sb.descLen - 1 \in 0 .. sb.descLen - 1
          /\ sb.descIndex + (sb.descLen - 1) = sb.descIndex + sb.descLen - 1
      BY <1>2, <1>3
    <2>2. c \in RingRange(sb.descIndex, sb.descLen, DescCount)
      BY <1>4, <2>1 DEF RingRange
    <2>3. QED
      BY <2>2 DEF Footprint
  <1>6. ASSUME NEW k \in 0 .. sb.descLen - 2 PROVE Desc(MapSlot(sb, k)) \in Footprint(sb)
    <2>1. k \in 0 .. sb.descLen - 1
      BY <1>2, <1>3
    <2>2. MapSlot(sb, k) \in RingRange(sb.descIndex, sb.descLen, DescCount)
      BY <2>1 DEF RingRange, MapSlot
    <2>3. QED
      BY <2>2 DEF Footprint
  <1>7. ASSUME NEW k \in 0 .. sb.dataLen - 1
        PROVE  Data((sb.dataIndex + k) % DataCount) \in Footprint(sb)
    <2>1. (sb.dataIndex + k) % DataCount \in RingRange(sb.dataIndex, sb.dataLen, DataCount)
      BY DEF RingRange
    <2>2. QED
      BY <2>1 DEF Footprint
  <1>8. sb.descLen \in Nat /\ sb.descLen >= 1
    BY <1>2, <1>3
  <1>9. c = SlotOf(sb)
    BY <1>1 DEF SlotOf
  <1>10. QED
    BY <1>3, <1>5, <1>6, <1>7, <1>8, <1>9 DEF sb

\* An object that validates on one device validates on every device that holds
\* the same data range.
LEMMA FrameObject ==
    ASSUME NEW dev, NEW other, NEW sb, NEW m,
           sb.dataIndex \in 0 .. DataCount - 1, sb.dataLen \in 0 .. DataCount,
           \A k \in 0 .. sb.dataLen - 1 :
             other[Data((sb.dataIndex + k) % DataCount)] = dev[Data((sb.dataIndex + k) % DataCount)],
           ValidateMappedObject(dev, sb, m)
    PROVE  ValidateMappedObject(other, sb, m)
  <1>1. DataCount \in Nat \ {0}
    BY GeometryAssumption
  <1>2. m.size \in 1 .. DataCount
    BY DEF ValidateMappedObject
  <1>3. PICK t \in 0 .. sb.dataLen - m.size : m.first = (sb.dataIndex + t) % DataCount
    BY DEF ValidateMappedObject
  <1>4. ASSUME NEW k \in 0 .. m.size - 1
        PROVE  other[Data((m.first + k) % DataCount)] = dev[Data((m.first + k) % DataCount)]
    <2>1. /\ t \in Nat /\ k \in Nat /\ t + k < DataCount
          /\ t + k \in 0 .. sb.dataLen - 1
      BY <1>1, <1>2
    <2>2. (m.first + k) % DataCount = (sb.dataIndex + (t + k)) % DataCount
      BY <1>1, <1>3, <2>1, StepsAdd
    <2>3. QED
      BY <2>1, <2>2
  <1>5. other[Data(m.first)] = dev[Data(m.first)]
    <2>1. t \in 0 .. sb.dataLen - 1
      BY <1>1, <1>2
    <2>2. QED
      BY <1>3, <2>1
  <1>6. QED
    BY <1>4, <1>5 DEF ValidateMappedObject

\* A generation that is complete on one device is complete, and the same, on
\* every device that holds its footprint.
LEMMA FrameComplete ==
    ASSUME NEW dev, NEW other, NEW c \in 0 .. DescCount - 1, CompleteCandidate(dev, c),
           \A b \in Footprint(dev[Desc(c)]) : other[b] = dev[b]
    PROVE  /\ other[Desc(c)] = dev[Desc(c)]
           /\ CompleteCandidate(other, c)
           /\ BuildCheckpointCandidate(other, c) = BuildCheckpointCandidate(dev, c)
  <1> DEFINE sb == dev[Desc(c)]
  <1>1. /\ Desc(c) \in Footprint(sb)
        /\ \A k \in 0 .. sb.descLen - 2 : Desc(MapSlot(sb, k)) \in Footprint(sb)
        /\ \A k \in 0 .. sb.dataLen - 1 :
             Data((sb.dataIndex + k) % DataCount) \in Footprint(sb)
        /\ sb.descLen \in Nat /\ sb.descLen >= 1
        /\ sb.dataIndex \in 0 .. DataCount - 1 /\ sb.dataLen \in 0 .. DataCount
    BY SlotsInFootprint
  <1>2. \A b \in Footprint(sb) : other[b] = dev[b]
    OBVIOUS
  <1>3. other[Desc(c)] = sb
    BY <1>1, <1>2
  <1>4. /\ sb.kind = "nxsb"
        /\ RingFieldsValid(sb.descIndex, sb.descLen, sb.descNext, DescCount)
        /\ sb.descLen # 0
        /\ c = (sb.descNext + DescCount - 1) % DescCount
        /\ RingFieldsValid(sb.dataIndex, sb.dataLen, sb.dataNext, DataCount)
        /\ ParseCheckpointMapBlocks(dev, sb)
        /\ Cardinality(Oids(Mappings(dev, sb))) = Len(Mappings(dev, sb))
        /\ \A i \in DOMAIN Mappings(dev, sb) : ValidateMappedObject(dev, sb, Mappings(dev, sb)[i])
        /\ Spaceman \in Oids(Mappings(dev, sb))
    BY DEF CompleteCandidate
  <1> HIDE DEF sb
  <1>5. \A k \in 0 .. sb.descLen - 2 : other[Desc(MapSlot(sb, k))] = dev[Desc(MapSlot(sb, k))]
    BY <1>1, <1>2
  <1>6. ParseCheckpointMapBlocks(other, sb)
    BY <1>4, <1>5 DEF ParseCheckpointMapBlocks
  <1>7. Mappings(other, sb) = Mappings(dev, sb)
    <2>1. \A k \in 1 .. sb.descLen - 1 :
            other[Desc(MapSlot(sb, k - 1))] = dev[Desc(MapSlot(sb, k - 1))]
      <3> TAKE k \in 1 .. sb.descLen - 1
      <3>1. k - 1 \in 0 .. sb.descLen - 2
        BY <1>1
      <3>2. QED
        BY <1>5, <3>1
    <2>2. [k \in 1 .. sb.descLen - 1 |-> other[Desc(MapSlot(sb, k - 1))].maps]
            = [k \in 1 .. sb.descLen - 1 |-> dev[Desc(MapSlot(sb, k - 1))].maps]
      BY <2>1
    <2>3. QED
      BY <2>2 DEF Mappings
  <1>8. \A k \in 0 .. sb.dataLen - 1 :
          other[Data((sb.dataIndex + k) % DataCount)] = dev[Data((sb.dataIndex + k) % DataCount)]
    BY <1>1, <1>2
  <1>9. \A i \in DOMAIN Mappings(dev, sb) : ValidateMappedObject(other, sb, Mappings(dev, sb)[i])
    BY <1>1, <1>4, <1>8, FrameObject
  <1>10. CompleteCandidate(other, c)
    BY <1>3, <1>4, <1>6, <1>7, <1>9 DEF CompleteCandidate
  <1>11. BuildCheckpointCandidate(other, c) = BuildCheckpointCandidate(dev, c)
    <2>1. [b \in Footprint(sb) |-> other[b]] = [b \in Footprint(sb) |-> dev[b]]
      BY <1>2
    <2>2. BuildCheckpointCandidate(dev, c) =
            [found |-> TRUE, sb |-> sb, maps |-> Mappings(dev, sb),
             image |-> [b \in Footprint(sb) |-> dev[b]]]
      BY DEF BuildCheckpointCandidate, sb
    <2>3. BuildCheckpointCandidate(other, c) =
            [found |-> TRUE, sb |-> sb, maps |-> Mappings(other, sb),
             image |-> [b \in Footprint(sb) |-> other[b]]]
      BY <1>3 DEF BuildCheckpointCandidate
    <2>4. QED
      BY <1>7, <2>1, <2>2, <2>3
  <1>12. QED
    BY <1>3, <1>10, <1>11 DEF sb

-----------------------------------------------------------------------------
(* What an opener selects.                                                  *)

\* The parts of a generation built from a device.
LEMMA BuiltParts ==
    ASSUME NEW dev, NEW c
    PROVE  LET v == BuildCheckpointCandidate(dev, c) IN
           /\ v.found = TRUE
           /\ v.sb = dev[Desc(c)]
           /\ v.maps = Mappings(dev, dev[Desc(c)])
           /\ v.image = [b \in Footprint(dev[Desc(c)]) |-> dev[b]]
  BY DEF BuildCheckpointCandidate

\* A generation on a device: its superblock is in its slot.
LEMMA OnDeviceFacts ==
    ASSUME NEW dev, NEW v, OnDevice(dev, v)
    PROVE  /\ SlotOf(v.sb) \in 0 .. DescCount - 1
           /\ dev[Desc(SlotOf(v.sb))] = v.sb
           /\ v.sb.kind = "nxsb"
           /\ v.found
           /\ v.maps = Mappings(dev, v.sb)
           /\ DOMAIN v.image = Footprint(v.sb)
           /\ \A b \in Footprint(v.sb) : v.image[b] = dev[b]
           /\ RingFieldsValid(v.sb.descIndex, v.sb.descLen, v.sb.descNext, DescCount)
           /\ RingFieldsValid(v.sb.dataIndex, v.sb.dataLen, v.sb.dataNext, DataCount)
  <1> DEFINE c == SlotOf(v.sb)
  <1>1. CompleteCandidate(dev, c) /\ BuildCheckpointCandidate(dev, c) = v
    BY DEF OnDevice
  <1>2. /\ v.found = TRUE
        /\ v.sb = dev[Desc(c)]
        /\ v.maps = Mappings(dev, dev[Desc(c)])
        /\ v.image = [b \in Footprint(dev[Desc(c)]) |-> dev[b]]
    <2> HIDE DEF c
    <2>1. QED
      BY <1>1, BuiltParts
  <1>3. /\ dev[Desc(c)].kind = "nxsb"
        /\ RingFieldsValid(dev[Desc(c)].descIndex, dev[Desc(c)].descLen,
                           dev[Desc(c)].descNext, DescCount)
        /\ RingFieldsValid(dev[Desc(c)].dataIndex, dev[Desc(c)].dataLen,
                           dev[Desc(c)].dataNext, DataCount)
    <2> HIDE DEF c
    <2>1. QED
      BY <1>1 DEF CompleteCandidate
  <1>4. /\ v.sb.kind = "nxsb"
        /\ RingFieldsValid(v.sb.descIndex, v.sb.descLen, v.sb.descNext, DescCount)
        /\ RingFieldsValid(v.sb.dataIndex, v.sb.dataLen, v.sb.dataNext, DataCount)
    <2> HIDE DEF c
    <2>1. QED
      BY <1>2, <1>3
  <1>5. c \in 0 .. DescCount - 1
    <2>1. v.sb.descNext \in 0 .. DescCount - 1 /\ DescCount \in Nat \ {0}
      BY <1>4, RingNext, GeometryAssumption
    <2>2. v.sb.descNext + DescCount - 1 \in Int
      BY <2>1
    <2>3. QED
      BY <2>1, <2>2 DEF SlotOf
  <1>6. QED
    <2> HIDE DEF c
    <2>1. QED
      BY <1>2, <1>4, <1>5 DEF c

\* The complete generation that is newer than every other one is selected.
LEMMA SelectionIs ==
    ASSUME NEW dev, NEW c \in 0 .. DescCount - 1, CompleteCandidate(dev, c),
           dev[Desc(c)].xid \in Int,
           \A d \in 0 .. DescCount - 1 :
             (CompleteCandidate(dev, d) /\ d # c) =>
               dev[Desc(d)].xid \in Int /\ dev[Desc(d)].xid < dev[Desc(c)].xid
    PROVE  LoadContainerCheckpointView(dev) = BuildCheckpointCandidate(dev, c)
  <1> DEFINE C == {d \in 0 .. DescCount - 1 : CompleteCandidate(dev, d)}
             newest(e) == \A d \in C : \/ dev[Desc(d)].xid < dev[Desc(e)].xid
                                       \/ dev[Desc(d)].xid = dev[Desc(e)].xid /\ e <= d
  <1>1. c \in C
    OBVIOUS
  <1>2. newest(c)
    <2> TAKE d \in C
    <2>1. CASE d = c
      BY <2>1, GeometryAssumption
    <2>2. CASE d # c
      BY <2>2
    <2>3. QED
      BY <2>1, <2>2
  <1>3. ASSUME NEW e \in C, newest(e) PROVE e = c
    <2> SUFFICES ASSUME e # c PROVE FALSE
      OBVIOUS
    <2>1. dev[Desc(e)].xid \in Int /\ dev[Desc(e)].xid < dev[Desc(c)].xid
      OBVIOUS
    <2>2. \/ dev[Desc(c)].xid < dev[Desc(e)].xid
          \/ dev[Desc(c)].xid = dev[Desc(e)].xid
      BY <1>1, <1>3
    <2>3. QED
      BY <2>1, <2>2
  <1>4. (CHOOSE e \in C : newest(e)) = c
    <2> HIDE DEF C, newest
    <2>1. QED
      BY <1>1, <1>2, <1>3
  <1>5. LoadContainerCheckpointView(dev)
          = IF C = {} THEN NoView ELSE BuildCheckpointCandidate(dev, CHOOSE e \in C : newest(e))
    BY DEF LoadContainerCheckpointView
  <1> HIDE DEF C, newest
  <1>6. QED
    BY <1>1, <1>4, <1>5

\* The only complete generation of a transaction id is loaded by that id.
LEMMA ExactIs ==
    ASSUME NEW dev, NEW x, NEW c \in 0 .. DescCount - 1, CompleteCandidate(dev, c),
           dev[Desc(c)].xid = x,
           \A d \in 0 .. DescCount - 1 :
             (CompleteCandidate(dev, d) /\ dev[Desc(d)].xid = x) => d = c
    PROVE  /\ LoadExactCheckpointView(dev, x) = BuildCheckpointCandidate(dev, c)
           /\ LoadExactCheckpointView(dev, x).found
  <1> DEFINE C == {d \in 0 .. DescCount - 1 :
                     CompleteCandidate(dev, d) /\ dev[Desc(d)].xid = x}
  <1>1. C = {c}
    OBVIOUS
  <1>2. Cardinality(C) = 1
    <2>1. Cardinality({c}) = 1
      BY FS_Singleton
    <2>2. QED
      BY <1>1, <2>1
  <1>3. (CHOOSE d \in C : TRUE) = c
    BY <1>1
  <1>4. LoadExactCheckpointView(dev, x)
          = IF Cardinality(C) # 1 THEN NoView
            ELSE BuildCheckpointCandidate(dev, CHOOSE d \in C : TRUE)
    BY DEF LoadExactCheckpointView
  <1>5. LoadExactCheckpointView(dev, x) = BuildCheckpointCandidate(dev, c)
    BY <1>2, <1>3, <1>4
  <1>6. BuildCheckpointCandidate(dev, c).found = TRUE
    BY BuiltParts
  <1>7. LoadExactCheckpointView(dev, x).found = TRUE
    BY <1>5, <1>6
  <1>8. QED
    BY <1>5, <1>7

\* A sound plan can be laid out against the current generation.
LEMMA SoundPlanIsLayable ==
    ASSUME NEW v, NEW p, NEW req, PlanFor(p, v, req), MapsSound(v.maps)
    PROVE  Layable(v, req)
  BY DEF PlanFor, Layable

\* The planned superblock over its batch, on any device.
LEMMA PlannedGeneration ==
    ASSUME NEW v, NEW p, NEW req \in Requests, PlanFor(p, v, req), MapsSound(v.maps)
    PROVE  /\ SlotOf(p.superblock) \in 0 .. DescCount - 1
           /\ SuperblockBlock(p.superblock) = Desc(SlotOf(p.superblock))
           /\ p.superblock.kind = "nxsb"
           /\ MapsSound(p.maps)
           /\ SuperblockBlock(p.superblock) \notin DOMAIN p.before
           /\ \A dev : (/\ Holds(dev, p.before)
                        /\ dev[SuperblockBlock(p.superblock)] = p.superblock)
                => /\ CompleteCandidate(dev, SlotOf(p.superblock))
                   /\ Mappings(dev, p.superblock) = p.maps
  <1> DEFINE a == p.superblock.attempt
  <1>1. /\ p.before = BeforeSuperblockWrites(v, req, a)
        /\ p.superblock = PublishedSuperblock(v, req, a)
        /\ p.maps = PublishedMaps(v, req)
    BY DEF PlanFor
  <1>2. Layable(v, req)
    BY SoundPlanIsLayable
  <1> HIDE DEF a
  <1>3. /\ p.superblock.kind = "nxsb"
        /\ SlotOf(p.superblock) \in 0 .. DescCount - 1
        /\ SuperblockBlock(p.superblock) = Desc(SlotOf(p.superblock))
        /\ SlotOf(p.superblock)
             = (p.superblock.descIndex + p.superblock.descLen - 1) % DescCount
        /\ p.superblock.descIndex = v.sb.descNext
        /\ p.superblock.descIndex \in 0 .. DescCount - 1
        /\ p.superblock.descLen = DescriptorLength(v, req)
        /\ p.superblock.descLen \in 2 .. DescCount
    BY <1>1, <1>2, SuperblockFields
  <1>4. MapsSound(p.maps)
    BY <1>1, <1>2, PublishedMapsFacts
  <1>5. SuperblockBlock(p.superblock) \notin DOMAIN p.before
    <2> DEFINE l == DescriptorLength(v, req)
               i == v.sb.descNext
    <2>1. DOMAIN p.before = {Owned(o) : o \in req.writes}
                \union {Data(d) : d \in RingRange(v.sb.dataNext, DataBlocks(v, req), DataCount)}
                \union {Desc(d) : d \in RingRange(i, l - 1, DescCount)}
      BY <1>1 DEF BeforeSuperblockWrites
    <2>2. /\ DescCount \in Nat \ {0} /\ i \in 0 .. DescCount - 1 /\ l \in 2 .. DescCount
          /\ SlotOf(p.superblock) = (i + l - 1) % DescCount
      BY <1>3, GeometryAssumption
    <2> HIDE DEF l, i
    <2>3. SlotOf(p.superblock) \notin RingRange(i, l - 1, DescCount)
      <3> SUFFICES ASSUME NEW k \in 0 .. (l - 1) - 1,
                          (i + l - 1) % DescCount = (i + k) % DescCount
                   PROVE  FALSE
        BY <2>2 DEF RingRange
      <3>1. PICK j \in 0 .. DescCount - 1 : j = l - 1 /\ k \in 0 .. DescCount - 1 /\ j # k
        BY <2>2
      <3>2. i + l - 1 = i + j
        BY <2>2, <3>1
      <3>3. (((i + j) % DescCount) + DescCount - i) % DescCount = j
        BY <2>2, OffsetOf
      <3>4. (((i + k) % DescCount) + DescCount - i) % DescCount = k
        BY <2>2, <3>1, OffsetOf
      <3>5. QED
        BY <3>1, <3>2, <3>3, <3>4
    <2>4. QED
      BY <1>3, <2>1, <2>3, KindsOfBlocksDiffer, BlockNamesInjective
  <1>6. ASSUME NEW dev, Holds(dev, p.before),
               dev[SuperblockBlock(p.superblock)] = p.superblock
        PROVE  /\ CompleteCandidate(dev, SlotOf(p.superblock))
               /\ Mappings(dev, p.superblock) = p.maps
    <2>1. Holds(dev, BeforeSuperblockWrites(v, req, a))
      BY <1>1, <1>6
    <2>2. dev[SuperblockBlock(PublishedSuperblock(v, req, a))] = PublishedSuperblock(v, req, a)
      BY <1>1, <1>6
    <2>3. /\ CompleteCandidate(dev, SlotOf(PublishedSuperblock(v, req, a)))
          /\ Mappings(dev, PublishedSuperblock(v, req, a)) = PublishedMaps(v, req)
      BY <1>2, <2>1, <2>2, PublishedIsComplete
    <2>4. QED
      BY <1>1, <2>3
  <1>7. QED
    BY <1>3, <1>4, <1>5, <1>6

\* The opener selects the current generation: the planned superblock is not on
\* the device.
OldSelected(dev) ==
    /\ LoadContainerCheckpointView(dev) = view
    /\ plan.active => dev[SuperblockBlock(plan.superblock)] # plan.superblock

\* The opener selects the planned generation, whose batch is durable.
NewSelected(dev) ==
    /\ plan.active
    /\ pc \in Switched
    /\ dev[SuperblockBlock(plan.superblock)] = plan.superblock
    /\ Holds(disk, plan.before)
    /\ Holds(seen, plan.before)
    /\ CompleteCandidate(dev, SlotOf(plan.superblock))
    /\ LoadContainerCheckpointView(dev)
         = BuildCheckpointCandidate(dev, SlotOf(plan.superblock))
    /\ LoadContainerCheckpointView(dev).found
    /\ LoadContainerCheckpointView(dev).sb = plan.superblock
    /\ LoadContainerCheckpointView(dev).maps = plan.maps

\* A superblock on a well-formed device has a transaction id.
LEMMA XidTyped ==
    ASSUME NEW dev, DeviceTyped(dev), NEW c \in 0 .. DescCount - 1,
           dev[Desc(c)].kind = "nxsb"
    PROVE  dev[Desc(c)].xid \in Int
  <1>1. Desc(c) \in Blocks
    BY DEF Blocks
  <1>2. dev[Desc(c)].xid \in 1 .. MaxXid
    BY <1>1 DEF DeviceTyped, SuperblocksTyped
  <1>3. QED
    BY <1>2

\* What selection returns, from stable storage and from what reads return.
LEMMA SelectionKnown ==
    ASSUME SInv, NEW dev, dev = disk \/ dev = seen
    PROVE  OldSelected(dev) \/ NewSelected(dev)
  <1>1. /\ DeviceTyped(dev) /\ OnDevice(dev, view) /\ SuperblocksKnown(dev)
        /\ MapsSound(view.maps) /\ (plan.active => PlanSound)
    BY DEF SInv, IInv
  <1> DEFINE old == SlotOf(view.sb)
             new == SlotOf(plan.superblock)
  <1>2. old \in 0 .. DescCount - 1 /\ dev[Desc(old)] = view.sb /\ view.sb.kind = "nxsb"
    BY <1>1, OnDeviceFacts
  <1>3. CompleteCandidate(dev, old) /\ BuildCheckpointCandidate(dev, old) = view
    BY <1>1 DEF OnDevice
  <1>4. \A d \in 0 .. DescCount - 1 : CompleteCandidate(dev, d) => dev[Desc(d)].kind = "nxsb"
    BY DEF CompleteCandidate
  <1>5. \A d \in 0 .. DescCount - 1 : dev[Desc(d)].kind = "nxsb" => dev[Desc(d)].xid \in Int
    BY <1>1, XidTyped
  <1>6. view.sb.xid \in Int
    BY <1>2, <1>5
  <1> HIDE DEF old, new
  <1>7. CASE plan.active /\ dev[SuperblockBlock(plan.superblock)] = plan.superblock
    <2>1. PICK req \in Requests : PlanFor(plan, view, req)
      BY <1>1, <1>7 DEF PlanSound
    <2>2. /\ new \in 0 .. DescCount - 1
          /\ SuperblockBlock(plan.superblock) = Desc(new)
          /\ plan.superblock.kind = "nxsb"
          /\ \A e : (/\ Holds(e, plan.before)
                     /\ e[SuperblockBlock(plan.superblock)] = plan.superblock)
                => /\ CompleteCandidate(e, new)
                   /\ Mappings(e, plan.superblock) = plan.maps
      BY <1>1, <2>1, PlannedGeneration DEF new
    <2>3. dev[Desc(new)] = plan.superblock
      BY <1>7, <2>2
    <2>4. view.sb.xid < plan.superblock.xid /\ plan.superblock.xid \in Int
      BY <1>5, <2>1, <2>2, <2>3 DEF PlanFor
    <2>5. new # old
      BY <1>2, <1>6, <2>3, <2>4
    <2>6. pc \in Switched /\ Holds(disk, plan.before) /\ Holds(seen, plan.before)
      <3>1. ~(dev[Desc(new)].xid < view.sb.xid)
        BY <1>6, <2>3, <2>4
      <3>2. QED
        BY <1>1, <2>2, <2>3, <2>5, <3>1 DEF SuperblocksKnown, old
    <2>7. CompleteCandidate(dev, new) /\ Mappings(dev, plan.superblock) = plan.maps
      BY <1>7, <2>2, <2>6
    <2>8. ASSUME NEW d \in 0 .. DescCount - 1, CompleteCandidate(dev, d), d # new
          PROVE  dev[Desc(d)].xid \in Int /\ dev[Desc(d)].xid < dev[Desc(new)].xid
      <3>1. dev[Desc(d)].kind = "nxsb" /\ dev[Desc(d)].xid \in Int
        BY <1>4, <1>5, <2>8
      <3>2. \/ dev[Desc(d)].xid < view.sb.xid
            \/ d = old
            \/ Desc(d) = SuperblockBlock(plan.superblock)
        BY <1>1, <3>1 DEF SuperblocksKnown, old
      <3>3. Desc(d) # SuperblockBlock(plan.superblock)
        BY <2>2, <2>8, BlockNamesInjective
      <3>4. dev[Desc(d)].xid <= view.sb.xid
        BY <1>2, <1>6, <3>1, <3>2, <3>3
      <3>5. QED
        BY <1>6, <2>3, <2>4, <3>1, <3>4
    <2>9. LoadContainerCheckpointView(dev) = BuildCheckpointCandidate(dev, new)
      BY <2>2, <2>3, <2>4, <2>7, <2>8, SelectionIs
    <2>10. /\ LoadContainerCheckpointView(dev).found
           /\ LoadContainerCheckpointView(dev).sb = plan.superblock
           /\ LoadContainerCheckpointView(dev).maps = plan.maps
      <3>1. /\ BuildCheckpointCandidate(dev, new).found = TRUE
            /\ BuildCheckpointCandidate(dev, new).sb = dev[Desc(new)]
            /\ BuildCheckpointCandidate(dev, new).maps = Mappings(dev, dev[Desc(new)])
        BY BuiltParts
      <3>2. QED
        BY <2>3, <2>7, <2>9, <3>1
    <2>11. NewSelected(dev)
      BY <1>7, <2>6, <2>7, <2>9, <2>10 DEF NewSelected, new
    <2>12. QED
      BY <2>11
  <1>8. CASE ~(plan.active /\ dev[SuperblockBlock(plan.superblock)] = plan.superblock)
    <2>1. ASSUME NEW d \in 0 .. DescCount - 1, CompleteCandidate(dev, d), d # old
          PROVE  dev[Desc(d)].xid \in Int /\ dev[Desc(d)].xid < dev[Desc(old)].xid
      <3>1. dev[Desc(d)].kind = "nxsb" /\ dev[Desc(d)].xid \in Int
        BY <1>4, <1>5, <2>1
      <3>2. dev[Desc(d)].xid < view.sb.xid
        BY <1>1, <1>8, <2>1, <3>1 DEF SuperblocksKnown, old
      <3>3. QED
        BY <1>2, <3>1, <3>2
    <2>2. LoadContainerCheckpointView(dev) = BuildCheckpointCandidate(dev, old)
      BY <1>2, <1>3, <1>6, <2>1, SelectionIs
    <2>3. QED
      BY <1>3, <1>8, <2>2 DEF OldSelected
  <1>9. QED
    BY <1>7, <1>8

-----------------------------------------------------------------------------
(* The properties follow from the invariant.                                *)

\* The invariant gives the three properties of selection and pins.
LEMMA SInvGivesProperties ==
    SInv => SelectionOldOrNew /\ PinnedLoadable /\ PublishedIsSelected
  <1> SUFFICES ASSUME SInv PROVE SelectionOldOrNew /\ PinnedLoadable /\ PublishedIsSelected
    OBVIOUS
  <1>1. SelectionOldOrNew
    <2>1. OldSelected(disk) \/ NewSelected(disk)
      BY SelectionKnown
    <2>2. CASE OldSelected(disk)
      BY <2>2 DEF OldSelected, SelectionOldOrNew, SInv
    <2>3. CASE NewSelected(disk)
      BY <2>3 DEF NewSelected, SelectionOldOrNew
    <2>4. QED
      BY <2>1, <2>2, <2>3
  <1>2. PublishedIsSelected
    <2> SUFFICES ASSUME pc = "synced"
                 PROVE  /\ LoadContainerCheckpointView(seen).found
                        /\ LoadContainerCheckpointView(seen).sb = plan.superblock
                        /\ LoadContainerCheckpointView(seen).maps = plan.maps
      BY DEF PublishedIsSelected
    <2>1. plan.active /\ seen[SuperblockBlock(plan.superblock)] = plan.superblock
      BY DEF SInv, Progress
    <2>2. OldSelected(seen) \/ NewSelected(seen)
      BY SelectionKnown
    <2>3. NewSelected(seen)
      BY <2>1, <2>2 DEF OldSelected
    <2>4. QED
      BY <2>3 DEF NewSelected
  <1>3. PinnedLoadable
    <2> SUFFICES ASSUME NEW x \in required PROVE LoadExactCheckpointView(disk, x).found
      BY DEF PinnedLoadable
    <2>1. PICK c \in 0 .. DescCount - 1 : disk[Desc(c)].xid = x /\ CompleteCandidate(disk, c)
      BY DEF SInv, PinsSheltered, Sheltered
    <2>2. \A d \in 0 .. DescCount - 1 :
            (CompleteCandidate(disk, d) /\ disk[Desc(d)].xid = x) => d = c
      BY <2>1 DEF SInv, XidsApart, CompleteCandidate
    <2>3. QED
      BY <2>1, <2>2, ExactIs
  <1>4. QED
    BY <1>1, <1>2, <1>3

-----------------------------------------------------------------------------
(* The invariant holds initially.                                           *)

\* The container as another implementation left it: one superblock, one map
\* block, one object.
LEMMA InitialFacts ==
    ASSUME NEW size \in ObjectSizes, NEW root \in OwnedBlocks, NEW dev,
           dev = InitialBlocks(size, root)
    PROVE  /\ dev = [b \in Blocks |-> dev[b]]
           /\ \A c \in 0 .. DescCount - 1 : dev[Desc(c)].kind = "nxsb" => c = 1
           /\ 1 \in 0 .. DescCount - 1 =>
                /\ dev[Desc(1)].descIndex = 0 /\ dev[Desc(1)].descLen = 2
                /\ dev[Desc(0)].maps = <<[oid |-> Spaceman, size |-> size, first |-> 0]>>
  <1> DEFINE maps == <<[oid |-> Spaceman, size |-> size, first |-> 0]>>
             sb == [kind |-> "nxsb", attempt |-> 0, xid |-> 1, nextXid |-> 2,
                 nextOid |-> Spaceman + 1,
                 descIndex |-> 0, descLen |-> 2, descNext |-> 2 % DescCount,
                 dataIndex |-> 0, dataLen |-> size, dataNext |-> size % DataCount,
                 omap |-> root]
             at(b) == CASE b = Desc(0) -> MapBlock(0, 1, 0, TRUE, maps)
                        [] b = Desc(1) -> sb
                        [] b[1] = "data" /\ b[2] < size ->
                             ObjectBlock(0, 1, Spaceman, size, b[2])
                        [] b = Owned(root) -> PayloadBlock(0)
                        [] OTHER -> Blank
  <1>1. dev = [b \in Blocks |-> at(b)]
    BY DEF InitialBlocks
  <1>2. dev = [b \in Blocks |-> dev[b]]
    <2> HIDE DEF at
    <2>1. QED
      BY <1>1
  <1>3. \A c \in 0 .. DescCount - 1 : Desc(c) \in Blocks
    BY DEF Blocks
  <1>4. \A c \in 0 .. DescCount - 1 : dev[Desc(c)] = at(Desc(c))
    <2> HIDE DEF at
    <2>1. QED
      BY <1>1, <1>3
  <1>5. ASSUME NEW c \in 0 .. DescCount - 1, dev[Desc(c)].kind = "nxsb"
        PROVE  c = 1
    <2> SUFFICES ASSUME c # 1 PROVE FALSE
      OBVIOUS
    <2>1. Desc(c) # Desc(1) /\ Desc(c) # Owned(root) /\ Desc(c)[1] # "data"
      BY BlockNamesInjective, KindsOfBlocksDiffer DEF Desc
    <2>2. at(Desc(c)) = MapBlock(0, 1, 0, TRUE, maps) \/ at(Desc(c)) = Blank
      <3> HIDE DEF maps, sb
      <3>1. QED
        BY <2>1
    <2>3. MapBlock(0, 1, 0, TRUE, maps).kind = "map" /\ Blank.kind = "blank"
      BY DEF MapBlock, Blank
    <2> HIDE DEF at, maps
    <2>4. QED
      BY <1>4, <1>5, <2>2, <2>3
  <1>6. ASSUME 1 \in 0 .. DescCount - 1
        PROVE  /\ dev[Desc(1)].descIndex = 0 /\ dev[Desc(1)].descLen = 2
               /\ dev[Desc(0)].maps = maps
    <2>1. 0 \in 0 .. DescCount - 1
      BY <1>6, GeometryAssumption
    <2>2. /\ Desc(1) # Desc(0)
          /\ Desc(0) # Owned(root) /\ Desc(0)[1] # "data"
          /\ Desc(1) # Owned(root) /\ Desc(1)[1] # "data"
      BY BlockNamesInjective, KindsOfBlocksDiffer DEF Desc
    <2>3. at(Desc(0)) = MapBlock(0, 1, 0, TRUE, maps)
      <3> HIDE DEF maps, sb
      <3>1. QED
        BY <2>2
    <2>4. at(Desc(1)) = sb
      <3> HIDE DEF maps, sb
      <3>1. QED
        BY <2>2
    <2> HIDE DEF at
    <2>5. dev[Desc(0)] = MapBlock(0, 1, 0, TRUE, maps) /\ dev[Desc(1)] = sb
      BY <1>4, <1>6, <2>1, <2>3, <2>4
    <2> HIDE DEF maps
    <2>6. MapBlock(0, 1, 0, TRUE, maps).maps = maps
      BY DEF MapBlock
    <2>7. sb.descIndex = 0 /\ sb.descLen = 2
      OBVIOUS
    <2> HIDE DEF sb
    <2>8. QED
      BY <2>5, <2>6, <2>7
  <1>7. QED
    BY <1>2, <1>5, <1>6

\* A freshly opened container satisfies the invariant.
LEMMA InitSInv == Init => SInv
  <1> SUFFICES ASSUME Init PROVE SInv
    OBVIOUS
  <1>1. IInv
    BY InitIInv
  <1>2. PICK size \in ObjectSizes, root \in OwnedBlocks : disk = InitialBlocks(size, root)
    BY DEF Init
  <1>3. /\ disk = [b \in Blocks |-> disk[b]]
        /\ \A c \in 0 .. DescCount - 1 : disk[Desc(c)].kind = "nxsb" => c = 1
        /\ 1 \in 0 .. DescCount - 1 =>
             /\ disk[Desc(1)].descIndex = 0 /\ disk[Desc(1)].descLen = 2
             /\ disk[Desc(0)].maps = <<[oid |-> Spaceman, size |-> size, first |-> 0]>>
    BY <1>2, InitialFacts
  <1>4. /\ seen = disk /\ view = LoadContainerCheckpointView(disk) /\ view.found
        /\ pc = "idle" /\ plan = NoPlan /\ required = {}
    BY DEF Init
  <1>5. plan.active = FALSE
    BY <1>4 DEF NoPlan
  <1>6. CompleteCandidate(disk, 1) /\ 1 \in 0 .. DescCount - 1
        /\ view = BuildCheckpointCandidate(disk, 1)
    <2> DEFINE C == {c \in 0 .. DescCount - 1 : CompleteCandidate(disk, c)}
    <2>1. C \subseteq {1}
      BY <1>3 DEF CompleteCandidate
    <2>2. C # {}
      <3> SUFFICES ASSUME C = {} PROVE FALSE
        OBVIOUS
      <3>1. view = NoView
        BY <1>4 DEF LoadContainerCheckpointView
      <3>2. NoView.found = FALSE
        BY DEF NoView
      <3>3. QED
        BY <1>4, <3>1, <3>2
    <2>3. 1 \in C
      BY <2>1, <2>2
    <2>4. DeviceTyped(disk) /\ disk[Desc(1)].kind = "nxsb"
      BY <1>1, <2>3 DEF IInv, CompleteCandidate
    <2>5. disk[Desc(1)].xid \in Int
      BY <2>3, <2>4, XidTyped
    <2>6. \A d \in 0 .. DescCount - 1 : CompleteCandidate(disk, d) => d = 1
      BY <2>1
    <2>7. LoadContainerCheckpointView(disk) = BuildCheckpointCandidate(disk, 1)
      <3>1. 1 \in 0 .. DescCount - 1 /\ CompleteCandidate(disk, 1)
        BY <2>3
      <3> HIDE DEF C
      <3>2. QED
        BY <2>5, <2>6, <3>1, SelectionIs
    <2>8. QED
      BY <1>4, <2>3, <2>7
  <1>7. /\ view.sb = disk[Desc(1)] /\ view.maps = Mappings(disk, disk[Desc(1)])
    <2>1. PICK c : c = 1
      OBVIOUS
    <2>2. /\ BuildCheckpointCandidate(disk, c).sb = disk[Desc(c)]
          /\ BuildCheckpointCandidate(disk, c).maps = Mappings(disk, disk[Desc(c)])
      BY BuiltParts
    <2>3. QED
      BY <1>6, <2>1, <2>2
  <1>8. SlotOf(view.sb) = 1
    <2>1. PICK c \in 0 .. DescCount - 1 : c = 1 /\ CompleteCandidate(disk, c)
      BY <1>6
    <2>2. c = SlotOf(disk[Desc(c)])
      BY <2>1, SlotsInFootprint
    <2>3. QED
      BY <1>7, <2>1, <2>2
  <1>9. OnDevice(disk, view) /\ OnDevice(seen, view)
    BY <1>4, <1>6, <1>8 DEF OnDevice
  <1>10. MapsSound(view.maps)
    <2> DEFINE sb == disk[Desc(1)]
               m == <<[oid |-> Spaceman, size |-> size, first |-> 0]>>
               s == [k \in 1 .. sb.descLen - 1 |-> disk[Desc(MapSlot(sb, k - 1))].maps]
    <2>1. sb.descIndex = 0 /\ sb.descLen = 2 /\ disk[Desc(0)].maps = m
      BY <1>3, <1>6
    <2> HIDE DEF m
    <2>2. MapSlot(sb, 0) = 0
      <3>1. DescCount \in Nat \ {0}
        BY GeometryAssumption
      <3>2. (0 + 0) % DescCount = 0
        BY <3>1
      <3>3. QED
        BY <2>1, <3>2 DEF MapSlot
    <2> HIDE DEF sb
    <2>3. Len(s) = 1 /\ s[1] = m
      <3>1. sb.descLen - 1 = 1 /\ 1 - 1 = 0
        BY <2>1
      <3>2. s = [k \in 1 .. 1 |-> disk[Desc(MapSlot(sb, k - 1))].maps]
        BY <3>1
      <3>3. s[1] = disk[Desc(MapSlot(sb, 0))].maps
        BY <3>1, <3>2
      <3>4. Len(s) = 1
        <4>1. PICK n \in Nat : n = 1
          OBVIOUS
        <4>2. s = [k \in 1 .. n |-> disk[Desc(MapSlot(sb, k - 1))].maps]
          BY <3>2, <4>1
        <4> HIDE DEF s
        <4>3. Len(s) = n
          BY <4>2
        <4>4. QED
          BY <4>1, <4>3
      <3>5. QED
        BY <2>1, <2>2, <3>3, <3>4
    <2>4. Mappings(disk, sb) = FlattenSeq(s)
      BY DEF Mappings
    <2> HIDE DEF s
    <2>5. view.maps = m
      BY <1>7, <2>3, <2>4, FlattenOne DEF sb
    <2>6. MapsSound(m)
      BY DEF MapsSound, m
    <2>7. QED
      BY <2>5, <2>6
  <1>11. SuperblocksKnown(disk) /\ SuperblocksKnown(seen)
    BY <1>3, <1>4, <1>8 DEF SuperblocksKnown
  <1>12. XidsApart(disk, disk) /\ XidsApart(disk, seen) /\ XidsApart(seen, seen)
    BY <1>3, <1>4 DEF XidsApart
  <1>13. PinsSheltered /\ DurableIsSeen /\ Images
    BY <1>3, <1>4, <1>5 DEF PinsSheltered, DurableIsSeen, Images
  <1>14. Progress
    BY <1>4, <1>5 DEF Progress
  <1>15. QED
    BY <1>1, <1>4, <1>5, <1>9, <1>10, <1>11, <1>12, <1>13, <1>14 DEF SInv

-----------------------------------------------------------------------------
(* The invariant is preserved.                                              *)

\* The footprint of a complete generation is inside the container.
LEMMA FootprintInBlocks ==
    ASSUME NEW dev, DeviceTyped(dev), NEW c \in 0 .. DescCount - 1, CompleteCandidate(dev, c)
    PROVE  Footprint(dev[Desc(c)]) \subseteq Blocks
  <1> DEFINE v == BuildCheckpointCandidate(dev, c)
  <1>1. ViewTyped(v)
    BY CandidateTyped
  <1>2. v.image = [b \in Footprint(dev[Desc(c)]) |-> dev[b]]
    BY BuiltParts
  <1> HIDE DEF v
  <1>3. DOMAIN v.image = Footprint(dev[Desc(c)])
    BY <1>2
  <1>4. QED
    BY <1>1, <1>3 DEF ViewTyped

\* A generation stays on a device that keeps its footprint.
LEMMA OnDeviceKept ==
    ASSUME NEW dev, NEW other, NEW v, OnDevice(dev, v),
           \A b \in Footprint(v.sb) : other[b] = dev[b]
    PROVE  OnDevice(other, v)
  <1>1. SlotOf(v.sb) \in 0 .. DescCount - 1 /\ dev[Desc(SlotOf(v.sb))] = v.sb
    BY OnDeviceFacts
  <1>2. CompleteCandidate(dev, SlotOf(v.sb))
        /\ BuildCheckpointCandidate(dev, SlotOf(v.sb)) = v
    BY DEF OnDevice
  <1>3. \A b \in Footprint(dev[Desc(SlotOf(v.sb))]) : other[b] = dev[b]
    BY <1>1
  <1>4. /\ CompleteCandidate(other, SlotOf(v.sb))
        /\ BuildCheckpointCandidate(other, SlotOf(v.sb))
             = BuildCheckpointCandidate(dev, SlotOf(v.sb))
    BY <1>1, <1>2, <1>3, FrameComplete
  <1>5. QED
    BY <1>2, <1>4 DEF OnDevice

\* What the invariant says of the current generation and of the plan.
LEMMA SInvFacts ==
    ASSUME SInv
    PROVE  /\ DeviceTyped(disk) /\ DeviceTyped(seen)
           /\ DOMAIN disk = Blocks /\ DOMAIN seen = Blocks
           /\ SlotOf(view.sb) \in 0 .. DescCount - 1
           /\ disk[Desc(SlotOf(view.sb))] = view.sb
           /\ seen[Desc(SlotOf(view.sb))] = view.sb
           /\ DOMAIN view.image = Footprint(view.sb)
           /\ Footprint(view.sb) \subseteq Blocks
           /\ \A b \in Footprint(view.sb) : disk[b] = seen[b]
           /\ view.sb.kind = "nxsb" /\ view.sb.xid \in Int
           /\ plan.active =>
                /\ Targets(plan) \intersect Footprint(view.sb) = {}
                /\ plan.superblock.kind = "nxsb" /\ plan.superblock.xid \in Int
                /\ view.sb.xid < plan.superblock.xid
                /\ SlotOf(plan.superblock) \in 0 .. DescCount - 1
                /\ SuperblockBlock(plan.superblock) = Desc(SlotOf(plan.superblock))
                /\ SuperblockBlock(plan.superblock) \notin DOMAIN plan.before
                /\ \A b \in DOMAIN plan.before : plan.before[b].kind # "nxsb"
                /\ MapsSound(plan.maps)
  <1>1. /\ DeviceTyped(disk) /\ DeviceTyped(seen) /\ ViewTyped(view) /\ view.found
        /\ OnDevice(disk, view) /\ OnDevice(seen, view) /\ MapsSound(view.maps)
    BY DEF SInv, IInv
  <1>2. /\ SlotOf(view.sb) \in 0 .. DescCount - 1
        /\ disk[Desc(SlotOf(view.sb))] = view.sb
        /\ view.sb.kind = "nxsb"
        /\ DOMAIN view.image = Footprint(view.sb)
        /\ \A b \in Footprint(view.sb) : view.image[b] = disk[b]
    BY <1>1, OnDeviceFacts
  <1>3. /\ seen[Desc(SlotOf(view.sb))] = view.sb
        /\ \A b \in Footprint(view.sb) : view.image[b] = seen[b]
    BY <1>1, OnDeviceFacts
  <1>4. Footprint(view.sb) \subseteq Blocks
    BY <1>1, <1>2 DEF ViewTyped
  <1>5. view.sb.xid \in Int
    BY <1>1, <1>2, XidTyped
  <1>6. ASSUME plan.active
        PROVE  /\ Targets(plan) \intersect Footprint(view.sb) = {}
               /\ plan.superblock.kind = "nxsb" /\ plan.superblock.xid \in Int
               /\ view.sb.xid < plan.superblock.xid
               /\ SlotOf(plan.superblock) \in 0 .. DescCount - 1
               /\ SuperblockBlock(plan.superblock) = Desc(SlotOf(plan.superblock))
               /\ SuperblockBlock(plan.superblock) \notin DOMAIN plan.before
               /\ \A b \in DOMAIN plan.before : plan.before[b].kind # "nxsb"
               /\ MapsSound(plan.maps)
    <2>1. PlanSafe(plan, view)
      BY <1>6 DEF SInv, PlanSound
    <2>2. PICK req \in Requests : PlanFor(plan, view, req)
      BY <1>6 DEF SInv, PlanSound
    <2>3. /\ SlotOf(plan.superblock) \in 0 .. DescCount - 1
          /\ SuperblockBlock(plan.superblock) = Desc(SlotOf(plan.superblock))
          /\ plan.superblock.kind = "nxsb"
          /\ SuperblockBlock(plan.superblock) \notin DOMAIN plan.before
          /\ MapsSound(plan.maps)
      BY <1>1, <2>2, PlannedGeneration
    <2>4. Targets(plan) \intersect Footprint(view.sb) = {}
      BY <1>2, <2>1 DEF PlanSafe, Targets
    <2>5. view.sb.xid < plan.superblock.xid
      BY <2>2 DEF PlanFor
    <2>6. plan.superblock.xid \in Int /\ \A b \in DOMAIN plan.before : plan.before[b].kind # "nxsb"
      BY <2>1 DEF PlanSafe
    <2>7. QED
      BY <2>3, <2>4, <2>5, <2>6
  <1>7. DOMAIN disk = Blocks /\ DOMAIN seen = Blocks
    BY <1>1 DEF DeviceTyped
  <1>8. QED
    BY <1>1, <1>2, <1>3, <1>4, <1>5, <1>6, <1>7

\* Before the switch no device holds a superblock newer than the current one.
LEMMA NothingNewer ==
    ASSUME SInv, pc \notin Switched \/ ~plan.active, NEW dev, dev = disk \/ dev = seen,
           NEW c \in 0 .. DescCount - 1, dev[Desc(c)].kind = "nxsb"
    PROVE  /\ dev[Desc(c)].xid < view.sb.xid \/ c = SlotOf(view.sb)
           /\ dev[Desc(c)].xid \in Int /\ dev[Desc(c)].xid <= view.sb.xid
  <1>1. dev[Desc(c)].xid < view.sb.xid \/ c = SlotOf(view.sb)
    BY DEF SInv, SuperblocksKnown
  <1>2. DeviceTyped(dev) /\ dev[Desc(SlotOf(view.sb))] = view.sb /\ view.sb.xid \in Int
    BY SInvFacts
  <1>3. dev[Desc(c)].xid \in Int
    BY <1>2, XidTyped
  <1>4. QED
    BY <1>1, <1>2, <1>3

\* The batch of a plan is inside the container.
LEMMA BatchInBlocks ==
    ASSUME NEW v, NEW req \in Requests, Layable(v, req), NEW a
    PROVE  DOMAIN BeforeSuperblockWrites(v, req, a) \subseteq Blocks
  <1> DEFINE n == DescriptorLength(v, req) - 1
             l == DataBlocks(v, req)
  <1>1. DOMAIN BeforeSuperblockWrites(v, req, a) = {Owned(o) : o \in req.writes}
                \union {Data(d) : d \in RingRange(v.sb.dataNext, l, DataCount)}
                \union {Desc(d) : d \in RingRange(v.sb.descNext, n, DescCount)}
    BY DEF BeforeSuperblockWrites
  <1>2. /\ DescCount \in Nat \ {0} /\ DataCount \in Nat \ {0}
        /\ v.sb.descNext \in Int /\ v.sb.dataNext \in Int
    BY GeometryAssumption, RingNext DEF Layable
  <1>3. n \in Int /\ l \in Int
    BY <1>2 DEF Layable
  <1>4. req.writes \subseteq OwnedBlocks
    BY RequestTyped
  <1> HIDE DEF n, l
  <1>5. /\ RingRange(v.sb.dataNext, l, DataCount) \subseteq 0 .. DataCount - 1
        /\ RingRange(v.sb.descNext, n, DescCount) \subseteq 0 .. DescCount - 1
    BY <1>2, <1>3, RingRangeInRing
  <1>6. QED
    BY <1>1, <1>4, <1>5 DEF Blocks

\* A step that writes planned blocks through the device, whole or torn.
LEMMA WriteStep ==
    ASSUME SInv, IInv', Progress', pc \in {"planned", "flushed"},
           UNCHANGED <<disk, view, plan, required>>,
           NEW w, seen' = Overlay(seen, w), DOMAIN w \subseteq Targets(plan),
           \A b \in DOMAIN w :
             \/ w[b].kind # "nxsb"
             \/ /\ b = SuperblockBlock(plan.superblock)
                /\ w[b] = plan.superblock
                /\ pc' \in Switched
                /\ Holds(disk, plan.before)
                /\ Holds(seen', plan.before)
    PROVE  SInv'
  <1>1. plan.active /\ disk = seen /\ pc \notin Switched
    BY DEF SInv, Progress, Switched
  <1> DEFINE new == SlotOf(plan.superblock)
             planned == /\ pc' \in Switched
                        /\ Holds(disk, plan.before)
                        /\ Holds(seen', plan.before)
  <1>2. /\ DOMAIN seen = Blocks
        /\ Footprint(view.sb) \subseteq Blocks
        /\ Targets(plan) \intersect Footprint(view.sb) = {}
        /\ plan.superblock.kind = "nxsb" /\ plan.superblock.xid \in Int
        /\ view.sb.xid < plan.superblock.xid /\ view.sb.xid \in Int
        /\ new \in 0 .. DescCount - 1
        /\ SuperblockBlock(plan.superblock) = Desc(new)
    BY <1>1, SInvFacts
  <1> HIDE DEF new
  <1>3. /\ \A b \in Blocks : seen'[b] = IF b \in DOMAIN w THEN w[b] ELSE seen[b]
        /\ seen' = [b \in Blocks |-> seen'[b]]
    BY <1>2 DEF Overlay
  <1>4. \A c \in 0 .. DescCount - 1 : Desc(c) \in Blocks
    BY DEF Blocks
  <1>5. ASSUME NEW c \in 0 .. DescCount - 1, seen'[Desc(c)].kind = "nxsb"
        PROVE  \/ seen'[Desc(c)] = seen[Desc(c)]
               \/ c = new /\ seen'[Desc(c)] = plan.superblock /\ planned
    <2>1. CASE Desc(c) \notin DOMAIN w
      BY <1>3, <1>4, <2>1
    <2>2. CASE Desc(c) \in DOMAIN w
      <3>1. seen'[Desc(c)] = w[Desc(c)]
        BY <1>3, <1>4, <2>2
      <3>2. /\ Desc(c) = SuperblockBlock(plan.superblock)
            /\ w[Desc(c)] = plan.superblock /\ planned
        BY <1>5, <2>2, <3>1
      <3>3. QED
        BY <1>2, <3>1, <3>2, BlockNamesInjective
    <2>3. QED
      BY <2>1, <2>2
  <1> HIDE DEF planned
  <1>6. \A c \in 0 .. DescCount - 1 : seen[Desc(c)].kind = "nxsb" =>
          /\ seen[Desc(c)].xid < view.sb.xid \/ c = SlotOf(view.sb)
          /\ seen[Desc(c)].xid \in Int /\ seen[Desc(c)].xid <= view.sb.xid
    BY <1>1, NothingNewer
  <1>7. OnDevice(seen, view)' /\ OnDevice(disk, view)'
    <2>1. \A b \in Footprint(view.sb) : seen'[b] = seen[b]
      BY <1>2, <1>3
    <2>2. OnDevice(seen, view) /\ OnDevice(disk, view)
      BY DEF SInv
    <2>3. OnDevice(seen', view)
      BY <2>1, <2>2, OnDeviceKept
    <2>4. QED
      BY <2>2, <2>3
  <1>8. SuperblocksKnown(disk)'
    <2>1. \A c \in 0 .. DescCount - 1 : disk[Desc(c)].kind = "nxsb" =>
            disk[Desc(c)].xid < view.sb.xid \/ c = SlotOf(view.sb)
      BY <1>1, <1>6
    <2>2. QED
      BY <2>1 DEF SuperblocksKnown
  <1>9. SuperblocksKnown(seen)'
    <2> SUFFICES ASSUME NEW c \in 0 .. DescCount - 1, seen'[Desc(c)].kind = "nxsb"
                 PROVE  \/ seen'[Desc(c)].xid < view.sb.xid
                        \/ c = SlotOf(view.sb)
                        \/ /\ plan.active
                           /\ pc' \in Switched
                           /\ Desc(c) = SuperblockBlock(plan.superblock)
                           /\ seen'[Desc(c)] = plan.superblock
                           /\ Holds(disk, plan.before)
                           /\ Holds(seen', plan.before)
      BY DEF SuperblocksKnown
    <2>1. CASE seen'[Desc(c)] = seen[Desc(c)]
      BY <1>6, <2>1
    <2>2. CASE c = new /\ seen'[Desc(c)] = plan.superblock /\ planned
      BY <1>1, <1>2, <2>2 DEF planned
    <2>3. QED
      BY <1>5, <2>1, <2>2
  <1>10. XidsApart(disk, disk)' /\ XidsApart(disk, seen)' /\ XidsApart(seen, seen)'
    <2>1. XidsApart(seen, seen)
      BY DEF SInv
    <2>2. XidsApart(disk, disk)'
      BY <1>1, <2>1 DEF XidsApart
    <2>3. ASSUME NEW c \in 0 .. DescCount - 1, NEW d \in 0 .. DescCount - 1,
                 seen[Desc(c)].kind = "nxsb", seen'[Desc(d)].kind = "nxsb",
                 seen[Desc(c)].xid = seen'[Desc(d)].xid
          PROVE  c = d
      <3>1. CASE seen'[Desc(d)] = seen[Desc(d)]
        BY <2>1, <2>3, <3>1 DEF XidsApart
      <3>2. CASE seen'[Desc(d)] = plan.superblock
        BY <1>2, <1>6, <2>3, <3>2
      <3>3. QED
        BY <1>5, <2>3, <3>1, <3>2
    <2>4. XidsApart(disk, seen)'
      BY <1>1, <2>3 DEF XidsApart
    <2>5. ASSUME NEW c \in 0 .. DescCount - 1, NEW d \in 0 .. DescCount - 1,
                 seen'[Desc(c)].kind = "nxsb", seen'[Desc(d)].kind = "nxsb",
                 seen'[Desc(c)].xid = seen'[Desc(d)].xid
          PROVE  c = d
      <3>1. CASE seen'[Desc(c)] = seen[Desc(c)]
        BY <2>3, <2>5, <3>1
      <3>2. CASE seen'[Desc(d)] = seen[Desc(d)]
        <4>1. d = c
          BY <2>3, <2>5, <3>2
        <4>2. QED
          BY <4>1
      <3>3. CASE c = new /\ d = new
        BY <3>3
      <3>4. QED
        BY <1>5, <2>5, <3>1, <3>2, <3>3
    <2>6. XidsApart(seen, seen)'
      BY <2>5 DEF XidsApart
    <2>7. QED
      BY <2>2, <2>4, <2>6
  <1>11. PinsSheltered'
    <2> SUFFICES ASSUME NEW x \in required
                 PROVE  \E c \in 0 .. DescCount - 1 :
                          Sheltered(c)' /\ disk[Desc(c)].xid = x
      BY DEF PinsSheltered
    <2>1. PICK c \in 0 .. DescCount - 1 : Sheltered(c) /\ disk[Desc(c)].xid = x
      BY DEF SInv, PinsSheltered
    <2>2. /\ CompleteCandidate(disk, c)
          /\ \A b \in Footprint(disk[Desc(c)]) : disk[b] = seen[b]
          /\ Targets(plan) \intersect Footprint(disk[Desc(c)]) = {}
      BY <1>1, <2>1 DEF Sheltered
    <2>3. DeviceTyped(disk)
      BY SInvFacts
    <2>4. Footprint(disk[Desc(c)]) \subseteq Blocks
      BY <2>2, <2>3, FootprintInBlocks
    <2>5. \A b \in Footprint(disk[Desc(c)]) : disk[b] = seen'[b]
      BY <1>3, <2>2, <2>4
    <2>6. Sheltered(c)'
      BY <2>2, <2>5 DEF Sheltered
    <2>7. QED
      BY <2>1, <2>6
  <1>12. DurableIsSeen'
    <2>1. disk[Desc(new)] # plan.superblock
      BY <1>1, <1>2, <1>6
    <2>2. QED
      BY <1>2, <2>1 DEF DurableIsSeen
  <1>13. Images'
    BY <1>3 DEF SInv, Images
  <1>14. (plan.active => PlanSound)' /\ view'.found /\ MapsSound(view.maps)'
    BY DEF SInv, PlanSound
  <1>15. QED
    BY <1>7, <1>8, <1>9, <1>10, <1>11, <1>12, <1>13, <1>14 DEF SInv

\* A pinned generation is complete on what reads return, too.
LEMMA ShelteredSeen ==
    ASSUME NEW c \in 0 .. DescCount - 1, Sheltered(c)
    PROVE  /\ seen[Desc(c)] = disk[Desc(c)]
           /\ CompleteCandidate(seen, c)
  <1>1. CompleteCandidate(disk, c) /\ \A b \in Footprint(disk[Desc(c)]) : seen[b] = disk[b]
    BY DEF Sheltered
  <1>2. QED
    BY <1>1, FrameComplete

\* A step that makes everything a read returns durable.
LEMMA FlushStep ==
    ASSUME SInv, IInv', Progress', disk' = seen, UNCHANGED <<seen, view, plan, required>>,
           pc \in Switched => pc' \in Switched
    PROVE  SInv'
  <1>1. OnDevice(seen, view)' /\ OnDevice(disk, view)'
    BY DEF SInv
  <1>2. XidsApart(disk, disk)' /\ XidsApart(disk, seen)' /\ XidsApart(seen, seen)'
    BY DEF SInv, XidsApart
  <1>3. ASSUME NEW c \in 0 .. DescCount - 1, seen[Desc(c)].kind = "nxsb"
        PROVE  \/ seen[Desc(c)].xid < view.sb.xid
               \/ c = SlotOf(view.sb)
               \/ /\ plan.active
                  /\ pc' \in Switched
                  /\ Desc(c) = SuperblockBlock(plan.superblock)
                  /\ seen[Desc(c)] = plan.superblock
                  /\ Holds(seen, plan.before)
    BY <1>3 DEF SInv, SuperblocksKnown
  <1>4. SuperblocksKnown(disk)' /\ SuperblocksKnown(seen)'
    BY <1>3 DEF SuperblocksKnown
  <1>5. PinsSheltered'
    <2> SUFFICES ASSUME NEW x \in required
                 PROVE  \E c \in 0 .. DescCount - 1 :
                          Sheltered(c)' /\ seen[Desc(c)].xid = x
      BY DEF PinsSheltered
    <2>1. PICK c \in 0 .. DescCount - 1 : Sheltered(c) /\ disk[Desc(c)].xid = x
      BY DEF SInv, PinsSheltered
    <2>2. seen[Desc(c)] = disk[Desc(c)] /\ CompleteCandidate(seen, c)
      BY <2>1, ShelteredSeen
    <2>3. Sheltered(c)'
      BY <2>1, <2>2 DEF Sheltered
    <2>4. QED
      BY <2>1, <2>2, <2>3
  <1>6. DurableIsSeen' /\ Images'
    BY DEF DurableIsSeen, SInv, Images
  <1>7. (plan.active => PlanSound)' /\ view'.found /\ MapsSound(view.maps)'
    BY DEF SInv, PlanSound
  <1>8. QED
    BY <1>1, <1>2, <1>4, <1>5, <1>6, <1>7 DEF SInv

\* What survives a loss of power: a block that was not in flight is as it was,
\* and one that was is old, new or torn.
LEMMA Survivor ==
    ASSUME DOMAIN disk = Blocks, NEW d \in SurvivingImages
    PROVE  /\ d = [b \in Blocks |-> d[b]]
           /\ \A b \in Blocks :
                /\ d[b] = disk[b] \/ d[b] = seen[b] \/ d[b] = Torn
                /\ disk[b] = seen[b] => d[b] = disk[b]
  <1> DEFINE inFlight == [b \in Unflushed |-> seen[b]]
  <1>1. PICK w \in PartialWrites(inFlight) : d = Overlay(disk, w)
    BY DEF SurvivingImages
  <1>2. /\ DOMAIN w \subseteq Unflushed
        /\ \A b \in DOMAIN w : w[b] = seen[b] \/ w[b] = Torn
    <2>1. DOMAIN w \subseteq DOMAIN inFlight
      BY PartialWriteBounded
    <2>2. \A b \in DOMAIN w : w[b] = inFlight[b] \/ w[b] = Torn
      BY PartialWriteBounded
    <2>3. QED
      BY <2>1, <2>2
  <1>3. /\ d = [b \in Blocks |-> d[b]]
        /\ \A b \in Blocks : d[b] = IF b \in DOMAIN w THEN w[b] ELSE disk[b]
    BY <1>1 DEF Overlay
  <1>4. \A b \in DOMAIN w : disk[b] # seen[b]
    BY <1>2 DEF Unflushed
  <1>5. QED
    BY <1>2, <1>3, <1>4

\* A loss of power.
LEMMA PowerLossStep ==
    ASSUME SInv, IInv', Progress', PowerLoss
    PROVE  SInv'
  <1>1. /\ disk' \in SurvivingImages /\ seen' = disk' /\ pc' = "latched"
        /\ UNCHANGED <<view, plan, required>>
    BY DEF PowerLoss
  <1>2. /\ DOMAIN disk = Blocks /\ DeviceTyped(disk)
        /\ Footprint(view.sb) \subseteq Blocks
        /\ \A b \in Footprint(view.sb) : disk[b] = seen[b]
    BY SInvFacts
  <1>3. /\ disk' = [b \in Blocks |-> disk'[b]]
        /\ \A b \in Blocks :
             /\ disk'[b] = disk[b] \/ disk'[b] = seen[b] \/ disk'[b] = Torn
             /\ disk[b] = seen[b] => disk'[b] = disk[b]
    BY <1>1, <1>2, Survivor
  <1>4. \A c \in 0 .. DescCount - 1 : Desc(c) \in Blocks
    BY DEF Blocks
  <1>5. \A c \in 0 .. DescCount - 1 : disk'[Desc(c)].kind = "nxsb" =>
          disk'[Desc(c)] = disk[Desc(c)] \/ disk'[Desc(c)] = seen[Desc(c)]
    BY <1>3, <1>4, TornIsNoSuperblock
  <1>6. OnDevice(disk, view)' /\ OnDevice(seen, view)'
    <2>1. \A b \in Footprint(view.sb) : disk'[b] = disk[b]
      BY <1>2, <1>3
    <2>2. OnDevice(disk, view)
      BY DEF SInv
    <2>3. OnDevice(disk', view)
      BY <2>1, <2>2, OnDeviceKept
    <2>4. QED
      BY <1>1, <2>3
  <1>7. ASSUME NEW c \in 0 .. DescCount - 1, disk'[Desc(c)].kind = "nxsb"
        PROVE  \/ disk'[Desc(c)].xid < view.sb.xid
               \/ c = SlotOf(view.sb)
               \/ /\ plan.active
                  /\ Desc(c) = SuperblockBlock(plan.superblock)
                  /\ disk'[Desc(c)] = plan.superblock
                  /\ Holds(disk, plan.before)
                  /\ Holds(seen, plan.before)
    <2>1. CASE disk'[Desc(c)] = disk[Desc(c)]
      BY <1>7, <2>1 DEF SInv, SuperblocksKnown
    <2>2. CASE disk'[Desc(c)] = seen[Desc(c)]
      BY <1>7, <2>2 DEF SInv, SuperblocksKnown
    <2>3. QED
      BY <1>5, <1>7, <2>1, <2>2
  <1>8. ASSUME plan.active, Holds(disk, plan.before), Holds(seen, plan.before)
        PROVE  Holds(disk', plan.before)
    <2>1. DOMAIN plan.before \subseteq Blocks
      <3>1. PICK req \in Requests : PlanFor(plan, view, req)
        BY <1>8 DEF SInv, PlanSound
      <3>2. Layable(view, req) /\ plan.before = BeforeSuperblockWrites(view, req, plan.superblock.attempt)
        BY <3>1, SoundPlanIsLayable DEF SInv, PlanFor
      <3>3. QED
        BY <3>2, BatchInBlocks
    <2>2. \A b \in DOMAIN plan.before : disk'[b] = plan.before[b]
      BY <1>3, <1>8, <2>1 DEF Holds
    <2>3. QED
      BY <2>2 DEF Holds
  <1>9. SuperblocksKnown(disk)' /\ SuperblocksKnown(seen)'
    <2>1. pc' \in Switched
      BY <1>1 DEF Switched
    <2>2. SuperblocksKnown(disk)'
      BY <1>1, <1>7, <1>8, <2>1 DEF SuperblocksKnown
    <2>3. QED
      BY <1>1, <2>2 DEF SuperblocksKnown
  <1>10. XidsApart(disk, disk)' /\ XidsApart(disk, seen)' /\ XidsApart(seen, seen)'
    <2>1. XidsApart(disk, disk) /\ XidsApart(disk, seen) /\ XidsApart(seen, seen)
      BY DEF SInv
    <2>2. ASSUME NEW c \in 0 .. DescCount - 1, NEW d \in 0 .. DescCount - 1,
                 disk'[Desc(c)].kind = "nxsb", disk'[Desc(d)].kind = "nxsb",
                 disk'[Desc(c)].xid = disk'[Desc(d)].xid
          PROVE  c = d
      <3>1. CASE disk'[Desc(c)] = disk[Desc(c)] /\ disk'[Desc(d)] = disk[Desc(d)]
        BY <2>1, <2>2, <3>1 DEF XidsApart
      <3>2. CASE disk'[Desc(c)] = disk[Desc(c)] /\ disk'[Desc(d)] = seen[Desc(d)]
        BY <2>1, <2>2, <3>2 DEF XidsApart
      <3>3. CASE disk'[Desc(c)] = seen[Desc(c)] /\ disk'[Desc(d)] = disk[Desc(d)]
        <4>1. d = c
          BY <2>1, <2>2, <3>3 DEF XidsApart
        <4>2. QED
          BY <4>1
      <3>4. CASE disk'[Desc(c)] = seen[Desc(c)] /\ disk'[Desc(d)] = seen[Desc(d)]
        BY <2>1, <2>2, <3>4 DEF XidsApart
      <3>5. QED
        BY <1>5, <2>2, <3>1, <3>2, <3>3, <3>4
    <2>3. QED
      BY <1>1, <2>2 DEF XidsApart
  <1>11. PinsSheltered'
    <2> SUFFICES ASSUME NEW x \in required
                 PROVE  \E c \in 0 .. DescCount - 1 :
                          Sheltered(c)' /\ disk'[Desc(c)].xid = x
      BY <1>1 DEF PinsSheltered
    <2>1. PICK c \in 0 .. DescCount - 1 : Sheltered(c) /\ disk[Desc(c)].xid = x
      BY DEF SInv, PinsSheltered
    <2>2. /\ CompleteCandidate(disk, c)
          /\ \A b \in Footprint(disk[Desc(c)]) : disk[b] = seen[b]
          /\ plan.active => Targets(plan) \intersect Footprint(disk[Desc(c)]) = {}
      BY <2>1 DEF Sheltered
    <2>3. Footprint(disk[Desc(c)]) \subseteq Blocks
      BY <1>2, <2>2, FootprintInBlocks
    <2>4. \A b \in Footprint(disk[Desc(c)]) : disk'[b] = disk[b]
      BY <1>3, <2>2, <2>3
    <2>8. PICK after : after = disk'
      OBVIOUS
    <2>9. CompleteCandidate(disk, c) /\ \A b \in Footprint(disk[Desc(c)]) : after[b] = disk[b]
      BY <2>2, <2>4, <2>8
    <2>10. after[Desc(c)] = disk[Desc(c)] /\ CompleteCandidate(after, c)
      BY <2>9, FrameComplete
    <2>5. disk'[Desc(c)] = disk[Desc(c)] /\ CompleteCandidate(disk', c)
      BY <2>8, <2>10
    <2>6. Sheltered(c)'
      BY <1>1, <2>2, <2>5 DEF Sheltered
    <2>7. QED
      BY <2>1, <2>5, <2>6
  <1>12. DurableIsSeen' /\ Images'
    BY <1>1, <1>3 DEF DurableIsSeen, Images
  <1>13. (plan.active => PlanSound)' /\ view'.found /\ MapsSound(view.maps)'
    BY <1>1 DEF SInv, PlanSound
  <1>14. QED
    BY <1>6, <1>9, <1>10, <1>11, <1>12, <1>13 DEF SInv

\* A step that loads the selected generation from a settled device.
LEMMA LoadStep ==
    ASSUME SInv, IInv', Progress', disk = seen, UNCHANGED <<disk, seen, required>>,
           plan' = NoPlan, view' = LoadContainerCheckpointView(seen)
    PROVE  SInv'
  <1>1. plan'.active = FALSE
    BY DEF NoPlan
  <1>2. XidsApart(disk, disk)' /\ XidsApart(disk, seen)' /\ XidsApart(seen, seen)'
    BY DEF SInv, XidsApart
  <1>3. PinsSheltered'
    <2> SUFFICES ASSUME NEW x \in required
                 PROVE  \E c \in 0 .. DescCount - 1 :
                          Sheltered(c)' /\ disk[Desc(c)].xid = x
      BY DEF PinsSheltered
    <2>1. PICK c \in 0 .. DescCount - 1 : Sheltered(c) /\ disk[Desc(c)].xid = x
      BY DEF SInv, PinsSheltered
    <2>2. Sheltered(c)'
      BY <1>1, <2>1 DEF Sheltered
    <2>3. QED
      BY <2>1, <2>2
  <1>4. DurableIsSeen' /\ Images'
    BY <1>1 DEF DurableIsSeen, SInv, Images
  <1>5. /\ SlotOf(view.sb) \in 0 .. DescCount - 1
        /\ seen[Desc(SlotOf(view.sb))] = view.sb
        /\ view.sb.xid \in Int
        /\ DeviceTyped(seen)
    BY SInvFacts
  <1>6. CASE OldSelected(seen)
    <2>1. view' = view
      BY <1>6 DEF OldSelected
    <2>2. OnDevice(disk, view)' /\ OnDevice(seen, view)' /\ view'.found /\ MapsSound(view.maps)'
      BY <2>1 DEF SInv
    <2>3. \A c \in 0 .. DescCount - 1 : seen[Desc(c)].kind = "nxsb" =>
            seen[Desc(c)].xid < view.sb.xid \/ c = SlotOf(view.sb)
      BY <1>6 DEF SInv, SuperblocksKnown, OldSelected
    <2>4. SuperblocksKnown(disk)' /\ SuperblocksKnown(seen)'
      BY <2>1, <2>3 DEF SuperblocksKnown
    <2>5. QED
      BY <1>1, <1>2, <1>3, <1>4, <2>2, <2>4 DEF SInv
  <1>7. CASE NewSelected(seen)
    <2> DEFINE new == SlotOf(plan.superblock)
    <2>1. /\ plan.active
          /\ CompleteCandidate(seen, new)
          /\ view' = BuildCheckpointCandidate(seen, new)
          /\ view'.found /\ view'.sb = plan.superblock /\ view'.maps = plan.maps
      BY <1>7 DEF NewSelected
    <2>2. /\ plan.superblock.xid \in Int /\ view.sb.xid < plan.superblock.xid
          /\ new \in 0 .. DescCount - 1
          /\ SuperblockBlock(plan.superblock) = Desc(new)
          /\ MapsSound(plan.maps)
      BY <2>1, SInvFacts
    <2>3. SlotOf(view'.sb) = new
      BY <2>1
    <2> HIDE DEF new
    <2>4. OnDevice(seen, view')
      BY <2>1, <2>3 DEF OnDevice
    <2>5. OnDevice(disk, view)' /\ OnDevice(seen, view)' /\ MapsSound(view.maps)'
      BY <2>1, <2>2, <2>4
    <2>6. ASSUME NEW c \in 0 .. DescCount - 1, seen[Desc(c)].kind = "nxsb"
          PROVE  seen[Desc(c)].xid < plan.superblock.xid \/ c = new
      <3>1. seen[Desc(c)].xid \in Int
        BY <1>5, <2>6, XidTyped
      <3>2. \/ seen[Desc(c)].xid < view.sb.xid
            \/ c = SlotOf(view.sb)
            \/ Desc(c) = SuperblockBlock(plan.superblock)
        BY <2>6 DEF SInv, SuperblocksKnown
      <3>3. CASE seen[Desc(c)].xid < view.sb.xid
        BY <1>5, <2>2, <3>1, <3>3
      <3>4. CASE c = SlotOf(view.sb)
        BY <1>5, <2>2, <3>4
      <3>5. CASE Desc(c) = SuperblockBlock(plan.superblock)
        BY <2>2, <3>5, BlockNamesInjective
      <3>6. QED
        BY <3>2, <3>3, <3>4, <3>5
    <2>7. SuperblocksKnown(disk)' /\ SuperblocksKnown(seen)'
      BY <2>1, <2>3, <2>6 DEF SuperblocksKnown
    <2>8. QED
      BY <1>1, <1>2, <1>3, <1>4, <2>1, <2>5, <2>7 DEF SInv
  <1>8. QED
    BY <1>6, <1>7, SelectionKnown

\* An accepted plan was drawn up for its request, and writes no block of a
\* generation that must stay loadable.
LEMMA AcceptedPlanFor ==
    ASSUME NEW dev, NEW v, NEW req \in Requests, NEW a, PlanAccepted(dev, v, req)
    PROVE  PlanFor(BuildPlan(dev, v, req, a), v, req)
  <1> DEFINE p == BuildPlan(dev, v, req, a)
             sb == PublishedSuperblock(v, req, a)
  <1>1. /\ p.before = BeforeSuperblockWrites(v, req, a)
        /\ p.superblock = sb
        /\ p.maps = PublishedMaps(v, req)
    BY DEF BuildPlan
  <1>2. sb.attempt = a /\ sb.xid = v.sb.nextXid
    BY DEF PublishedSuperblock
  <1>3. /\ RingFieldsValid(v.sb.descIndex, v.sb.descLen, v.sb.descNext, DescCount)
        /\ RingFieldsValid(v.sb.dataIndex, v.sb.dataLen, v.sb.dataNext, DataCount)
        /\ v.sb.nextXid > v.sb.xid
        /\ EphemeralSetComplete(v, req)
        /\ DataBlocks(v, req) \in 1 .. DataCount - v.sb.dataLen
        /\ DescriptorLength(v, req) \in 2 .. DescCount - v.sb.descLen
    BY DEF PlanAccepted, DataRingFits, DescriptorRingFits
  <1>4. /\ v.sb.dataLen \in Nat /\ v.sb.descLen \in Nat
        /\ DataCount \in Nat /\ DescCount \in Nat
    BY <1>3, GeometryAssumption DEF RingFieldsValid
  <1>5. DataBlocks(v, req) \in 1 .. DataCount /\ DescriptorLength(v, req) \in 2 .. DescCount
    BY <1>3, <1>4
  <1>6. v.sb.xid < p.superblock.xid
    BY <1>1, <1>2, <1>3
  <1> HIDE DEF p, sb
  <1>7. p.superblock.attempt = a
    BY <1>1, <1>2
  <1>8. PlanFor(p, v, req)
    BY <1>1, <1>3, <1>5, <1>6, <1>7 DEF PlanFor, sb
  <1>9. QED
    BY <1>8 DEF p

\* A plan keeps clear of every retained generation.
LEMMA AcceptedPlanAvoids ==
    ASSUME NEW dev, NEW v, NEW req \in Requests, NEW a, PlanAccepted(dev, v, req),
           NEW r \in Retained(dev, v)
    PROVE  Targets(BuildPlan(dev, v, req, a)) \intersect Footprint(r.sb) = {}
  <1> DEFINE l == DescriptorLength(v, req)
             n == DataBlocks(v, req)
             p == BuildPlan(dev, v, req, a)
  <1>1. /\ p.before = BeforeSuperblockWrites(v, req, a)
        /\ p.superblock = PublishedSuperblock(v, req, a)
    BY DEF BuildPlan
  <1>2. DOMAIN p.before = {Owned(o) : o \in req.writes}
                \union {Data(d) : d \in RingRange(v.sb.dataNext, n, DataCount)}
                \union {Desc(d) : d \in RingRange(v.sb.descNext, l - 1, DescCount)}
    BY <1>1 DEF BeforeSuperblockWrites
  <1>3. p.superblock.descIndex = v.sb.descNext /\ p.superblock.descLen = l
    BY <1>1 DEF PublishedSuperblock
  <1>4. /\ AllocatorOwned(dev, v, req)
        /\ DataRingFits(dev, v, req)
        /\ DescriptorRingFits(dev, v, req)
        /\ RingFieldsValid(v.sb.descIndex, v.sb.descLen, v.sb.descNext, DescCount)
    BY DEF PlanAccepted
  <1>5. RingRange(v.sb.dataNext, n, DataCount)
          \intersect RingRange(r.sb.dataIndex, r.sb.dataLen, DataCount) = {}
    BY <1>4 DEF DataRingFits, RingRangesOverlap
  <1>6. RingRange(v.sb.descNext, l, DescCount)
          \intersect RingRange(r.sb.descIndex, r.sb.descLen, DescCount) = {}
    BY <1>4 DEF DescriptorRingFits, RingRangesOverlap
  <1>7. l \in Int /\ l >= 2 /\ v.sb.descNext \in Int
    <2>1. v.sb.descLen \in Int /\ DescCount \in Int /\ v.sb.descNext \in Int
      BY <1>4, GeometryAssumption DEF RingFieldsValid
    <2>2. QED
      BY <1>4, <2>1 DEF DescriptorRingFits
  <1>8. r.sb.omap \notin req.writes
    BY <1>4 DEF AllocatorOwned
  <1> HIDE DEF l, n, p
  <1>9. RingRange(v.sb.descNext, l - 1, DescCount) \subseteq RingRange(v.sb.descNext, l, DescCount)
    BY <1>7 DEF RingRange
  <1>10. (v.sb.descNext + l - 1) % DescCount \in RingRange(v.sb.descNext, l, DescCount)
    <2>1. v.sb.descNext + l - 1 = v.sb.descNext + (l - 1) /\ l - 1 \in 0 .. l - 1
      BY <1>7
    <2>2. QED
      BY <2>1 DEF RingRange
  <1>11. ASSUME NEW b \in Targets(p) PROVE b \notin Footprint(r.sb)
    <2>1. CASE \E o \in req.writes : b = Owned(o)
      BY <1>8, <2>1, KindsOfBlocksDiffer, BlockNamesInjective DEF Footprint
    <2>2. CASE \E d \in RingRange(v.sb.dataNext, n, DataCount) : b = Data(d)
      BY <1>5, <2>2, KindsOfBlocksDiffer, BlockNamesInjective DEF Footprint
    <2>3. CASE \E d \in RingRange(v.sb.descNext, l, DescCount) : b = Desc(d)
      BY <1>6, <2>3, KindsOfBlocksDiffer, BlockNamesInjective DEF Footprint
    <2>4. CASE b \in DOMAIN p.before
      BY <1>2, <1>9, <2>1, <2>2, <2>3, <2>4
    <2>5. CASE b = SuperblockBlock(p.superblock)
      <3>1. b = Desc((v.sb.descNext + l - 1) % DescCount)
        BY <1>3, <2>5 DEF SuperblockBlock
      <3>2. QED
        BY <1>10, <2>3, <3>1
    <2>6. QED
      BY <2>4, <2>5 DEF Targets
  <1>12. QED
    BY <1>11 DEF p

\* A step that draws up a plan.
LEMMA PlanStep ==
    ASSUME SInv, IInv', Progress', NEW req \in Requests, Plan(req)
    PROVE  SInv'
  <1>1. /\ pc = "idle" /\ pc' = "planned" /\ UNCHANGED <<disk, seen, view, required>>
        /\ PlanAccepted(seen, view, req)
        /\ plan' = BuildPlan(seen, view, req, attempt + 1)
    BY DEF Plan
  <1>2. ~plan.active /\ disk = seen
    BY <1>1 DEF SInv, Progress
  <1>3. PlanSafe(plan', view')
    BY <1>1 DEF IInv, Writing
  <1>4. PlanFor(plan', view, req)
    BY <1>1, AcceptedPlanFor
  <1>5. PlanSound'
    <2>1. PlanFor(plan', view', req)
      BY <1>1, <1>4
    <2>2. QED
      BY <1>3, <2>1 DEF PlanSound
  <1>6. SuperblocksKnown(disk)' /\ SuperblocksKnown(seen)'
    <2>1. \A c \in 0 .. DescCount - 1 : seen[Desc(c)].kind = "nxsb" =>
            seen[Desc(c)].xid < view.sb.xid \/ c = SlotOf(view.sb)
      BY <1>2 DEF SInv, SuperblocksKnown
    <2>2. QED
      BY <1>1, <1>2, <2>1 DEF SuperblocksKnown
  <1>7. PinsSheltered'
    <2> SUFFICES ASSUME NEW x \in required
                 PROVE  \E c \in 0 .. DescCount - 1 :
                          Sheltered(c)' /\ disk[Desc(c)].xid = x
      BY <1>1 DEF PinsSheltered
    <2>1. PICK c \in 0 .. DescCount - 1 : Sheltered(c) /\ disk[Desc(c)].xid = x
      BY DEF SInv, PinsSheltered
    <2>2. /\ CompleteCandidate(disk, c)
          /\ \A b \in Footprint(disk[Desc(c)]) : disk[b] = seen[b]
      BY <2>1 DEF Sheltered
    <2>3. disk[Desc(c)].kind = "nxsb"
      BY <2>2 DEF CompleteCandidate
    <2>4. Targets(plan') \intersect Footprint(disk[Desc(c)]) = {}
      <3>1. CASE x = view.sb.xid
        <4>1. /\ SlotOf(view.sb) \in 0 .. DescCount - 1
              /\ disk[Desc(SlotOf(view.sb))] = view.sb /\ view.sb.kind = "nxsb"
              /\ DOMAIN view.image = Footprint(view.sb)
          BY SInvFacts
        <4>2. c = SlotOf(view.sb)
          BY <2>1, <2>3, <3>1, <4>1 DEF SInv, XidsApart
        <4>3. disk[Desc(c)] = view.sb
          BY <4>1, <4>2
        <4>4. Targets(plan') \intersect DOMAIN view.image = {}
          BY <1>1, <1>3 DEF PlanSafe, Targets
        <4>5. QED
          BY <4>1, <4>3, <4>4
      <3>2. CASE x # view.sb.xid
        <4>1. CompleteCandidate(seen, c) /\ seen[Desc(c)].xid = x
          BY <1>2, <2>1, <2>2
        <4>2. \A d \in 0 .. DescCount - 1 :
                (CompleteCandidate(seen, d) /\ seen[Desc(d)].xid = x) => d = c
          BY <1>2, <2>1, <2>3 DEF SInv, XidsApart, CompleteCandidate
        <4>3. LoadExactCheckpointView(seen, x) = BuildCheckpointCandidate(seen, c)
          BY <4>1, <4>2, ExactIs
        <4>4. LoadExactCheckpointView(seen, x) \in Retained(seen, view)
          BY <3>2 DEF Retained
        <4>5. BuildCheckpointCandidate(seen, c).sb = seen[Desc(c)]
          BY BuiltParts
        <4>6. Targets(plan') \intersect Footprint(LoadExactCheckpointView(seen, x).sb) = {}
          BY <1>1, <4>4, AcceptedPlanAvoids
        <4>7. QED
          BY <1>2, <4>3, <4>5, <4>6
      <3>3. QED
        BY <3>1, <3>2
    <2>5. Sheltered(c)'
      BY <1>1, <2>2, <2>4 DEF Sheltered
    <2>6. QED
      BY <2>1, <2>5
  <1>8. DurableIsSeen' /\ Images'
    BY <1>1, <1>2 DEF DurableIsSeen, SInv, Images
  <1>9. /\ XidsApart(disk, disk)' /\ XidsApart(disk, seen)' /\ XidsApart(seen, seen)'
        /\ OnDevice(disk, view)' /\ OnDevice(seen, view)' /\ view'.found /\ MapsSound(view.maps)'
    BY <1>1 DEF SInv, XidsApart
  <1>10. QED
    BY <1>5, <1>6, <1>7, <1>8, <1>9 DEF SInv

\* A step that leaves the device and the generations alone, and may end the
\* publication or move the pins.
LEMMA QuietStep ==
    ASSUME SInv, IInv', Progress', UNCHANGED <<disk, seen, view, plan>>,
           pc' = pc \/ pc' \in Switched,
           \A x \in required' : x \in required \/ (x = view.sb.xid /\ ~plan.active)
    PROVE  SInv'
  <1>1. \A x \in required' : \E c \in 0 .. DescCount - 1 : Sheltered(c) /\ disk[Desc(c)].xid = x
    <2> SUFFICES ASSUME NEW x \in required'
                 PROVE  \E c \in 0 .. DescCount - 1 : Sheltered(c) /\ disk[Desc(c)].xid = x
      OBVIOUS
    <2>1. CASE x \in required
      BY <2>1 DEF SInv, PinsSheltered
    <2>2. CASE x = view.sb.xid /\ ~plan.active
      <3>1. /\ SlotOf(view.sb) \in 0 .. DescCount - 1
            /\ disk[Desc(SlotOf(view.sb))] = view.sb
            /\ \A b \in Footprint(view.sb) : disk[b] = seen[b]
        BY SInvFacts
      <3>2. CompleteCandidate(disk, SlotOf(view.sb))
        BY DEF SInv, OnDevice
      <3>3. Sheltered(SlotOf(view.sb))
        BY <2>2, <3>1, <3>2 DEF Sheltered
      <3>4. QED
        BY <2>2, <3>1, <3>3
    <2>3. QED
      BY <2>1, <2>2
  <1>2. PinsSheltered'
    BY <1>1 DEF PinsSheltered, Sheltered
  <1>3. SuperblocksKnown(disk)' /\ SuperblocksKnown(seen)'
    BY DEF SInv, SuperblocksKnown
  <1>4. /\ XidsApart(disk, disk)' /\ XidsApart(disk, seen)' /\ XidsApart(seen, seen)'
        /\ OnDevice(disk, view)' /\ OnDevice(seen, view)' /\ view'.found /\ MapsSound(view.maps)'
    BY DEF SInv, XidsApart
  <1>5. (plan.active => PlanSound)' /\ DurableIsSeen' /\ Images'
    BY DEF SInv, PlanSound, DurableIsSeen, Images
  <1>6. QED
    BY <1>2, <1>3, <1>4, <1>5 DEF SInv

\* The batch of the plan in progress is inside the container.
LEMMA PlannedBatchInBlocks ==
    ASSUME SInv, plan.active
    PROVE  DOMAIN plan.before \subseteq Blocks
  <1>1. PICK req \in Requests : PlanFor(plan, view, req)
    BY DEF SInv, PlanSound
  <1>2. Layable(view, req) /\ plan.before = BeforeSuperblockWrites(view, req, plan.superblock.attempt)
    BY <1>1, SoundPlanIsLayable DEF SInv, PlanFor
  <1>3. QED
    BY <1>2, BatchInBlocks

\* Nothing is claimed of the device once the publication is over.
LEMMA LatchedProgress ==
    ASSUME pc' = "latched" PROVE Progress'
  BY DEF Progress

\* What a step of the writer does to the device keeps pace with where it is.
LEMMA BatchProgress ==
    ASSUME SInv, WriteBatch
    PROVE  Progress'
  <1>1. /\ pc = "planned" /\ pc' = "written" /\ seen' = Overlay(seen, plan.before)
        /\ UNCHANGED <<disk, view, plan, required>>
    BY DEF WriteBatch
  <1>2. plan.active /\ DOMAIN seen = Blocks
    BY <1>1, SInvFacts DEF SInv, Progress
  <1>3. DOMAIN plan.before \subseteq Blocks
    BY <1>2, PlannedBatchInBlocks
  <1>4. \A b \in Blocks : seen'[b] = IF b \in DOMAIN plan.before THEN plan.before[b] ELSE seen[b]
    BY <1>1, <1>2 DEF Overlay
  <1>5. Holds(seen', plan.before)
    BY <1>3, <1>4 DEF Holds
  <1>6. QED
    BY <1>1, <1>2, <1>5 DEF Progress

\* The switch writes the superblock over a durable batch it leaves alone.
LEMMA SwitchProgress ==
    ASSUME SInv, SwitchSuperblock
    PROVE  Progress' /\ Holds(disk, plan.before) /\ Holds(seen', plan.before)
  <1>1. /\ pc = "flushed" /\ pc' = "switched" /\ seen' = Overlay(seen, SuperblockWrite)
        /\ UNCHANGED <<disk, view, plan, required>>
    BY DEF SwitchSuperblock
  <1>2. plan.active /\ disk = seen /\ Holds(seen, plan.before)
    BY <1>1 DEF SInv, Progress
  <1>3. /\ DOMAIN seen = Blocks
        /\ SlotOf(plan.superblock) \in 0 .. DescCount - 1
        /\ SuperblockBlock(plan.superblock) = Desc(SlotOf(plan.superblock))
        /\ SuperblockBlock(plan.superblock) \notin DOMAIN plan.before
    BY <1>2, SInvFacts
  <1>4. DOMAIN plan.before \subseteq Blocks
    BY <1>2, PlannedBatchInBlocks
  <1>5. SuperblockBlock(plan.superblock) \in Blocks
    BY <1>3 DEF Blocks
  <1>6. \A b \in Blocks : seen'[b] = IF b = SuperblockBlock(plan.superblock)
                                     THEN plan.superblock ELSE seen[b]
    BY <1>1, <1>3 DEF Overlay, SuperblockWrite
  <1>7. seen'[SuperblockBlock(plan.superblock)] = plan.superblock
    BY <1>5, <1>6
  <1>8. Holds(seen', plan.before)
    BY <1>2, <1>3, <1>4, <1>6 DEF Holds
  <1>9. Progress'
    BY <1>1, <1>2, <1>7, <1>8 DEF Progress
  <1>10. QED
    BY <1>2, <1>8, <1>9

\* Every step keeps the invariant.
LEMMA NextSInv == SInv /\ [Next]_vars => SInv'
  <1> SUFFICES ASSUME SInv, [Next]_vars PROVE SInv'
    OBVIOUS
  <1>0. IInv'
    BY NextIInv DEF SInv
  <1>1. ASSUME NEW req \in Requests, Plan(req) PROVE SInv'
    <2>1. /\ pc = "idle" /\ pc' = "planned" /\ UNCHANGED <<disk, seen>>
          /\ plan' = BuildPlan(seen, view, req, attempt + 1)
      BY <1>1 DEF Plan
    <2>2. disk = seen /\ plan'.active
      BY <2>1 DEF SInv, Progress, BuildPlan
    <2>3. Progress'
      BY <2>1, <2>2 DEF Progress
    <2>4. QED
      BY <1>0, <1>1, <2>3, PlanStep
  <1>2. CASE WriteBatch
    <2>1. /\ pc = "planned" /\ seen' = Overlay(seen, plan.before)
          /\ UNCHANGED <<disk, view, plan, required>>
      BY <1>2 DEF WriteBatch
    <2>2. Progress' /\ plan.active
      BY <1>2, <2>1, BatchProgress DEF SInv, Progress
    <2>3. \A b \in DOMAIN plan.before : plan.before[b].kind # "nxsb"
      BY <2>2, SInvFacts
    <2>4. DOMAIN plan.before \subseteq Targets(plan)
      BY DEF Targets
    <2>5. QED
      BY <1>0, <2>1, <2>2, <2>3, <2>4, WriteStep
  <1>3. CASE WriteBatchFails
    <2>1. /\ pc = "planned" /\ pc' = "latched"
          /\ UNCHANGED <<disk, view, plan, required>>
      BY <1>3 DEF WriteBatchFails
    <2>2. PICK w \in PartialWrites(plan.before) : seen' = Overlay(seen, w)
      BY <1>3 DEF WriteBatchFails
    <2>3. Progress' /\ plan.active
      BY <2>1, LatchedProgress DEF SInv, Progress
    <2>4. /\ DOMAIN w \subseteq DOMAIN plan.before
          /\ \A b \in DOMAIN w : w[b] = plan.before[b] \/ w[b] = Torn
      BY PartialWriteBounded
    <2>5. \A b \in DOMAIN w : w[b].kind # "nxsb"
      BY <2>3, <2>4, SInvFacts, TornIsNoSuperblock
    <2>6. DOMAIN w \subseteq Targets(plan)
      BY <2>4 DEF Targets
    <2>7. QED
      BY <1>0, <2>1, <2>2, <2>3, <2>5, <2>6, WriteStep
  <1>4. CASE PrepublicationFlush
    <2>1. /\ pc = "written" /\ pc' = "flushed" /\ disk' = seen
          /\ UNCHANGED <<seen, view, plan, required>>
      BY <1>4 DEF PrepublicationFlush
    <2>2. Progress'
      BY <2>1 DEF SInv, Progress
    <2>3. pc \notin Switched
      BY <2>1 DEF Switched
    <2>4. QED
      BY <1>0, <2>1, <2>2, <2>3, FlushStep
  <1>5. CASE SwitchSuperblock
    <2>1. /\ pc = "flushed" /\ pc' = "switched" /\ seen' = Overlay(seen, SuperblockWrite)
          /\ UNCHANGED <<disk, view, plan, required>>
      BY <1>5 DEF SwitchSuperblock
    <2>2. Progress' /\ Holds(disk, plan.before) /\ Holds(seen', plan.before)
      BY <1>5, SwitchProgress
    <2>3. DOMAIN SuperblockWrite \subseteq Targets(plan) /\ pc' \in Switched
      BY <2>1 DEF SuperblockWrite, Targets, Switched
    <2>4. \A b \in DOMAIN SuperblockWrite :
            b = SuperblockBlock(plan.superblock) /\ SuperblockWrite[b] = plan.superblock
      BY DEF SuperblockWrite
    <2>5. PICK w : w = SuperblockWrite
      OBVIOUS
    <2>6. QED
      BY <1>0, <2>1, <2>2, <2>3, <2>4, <2>5, WriteStep
  <1>6. CASE SwitchFails
    <2>1. /\ pc = "flushed" /\ pc' = "latched"
          /\ UNCHANGED <<disk, view, plan, required>>
      BY <1>6 DEF SwitchFails
    <2>2. PICK w \in PartialWrites(SuperblockWrite) : seen' = Overlay(seen, w)
      BY <1>6 DEF SwitchFails
    <2>3. /\ DOMAIN w \subseteq {SuperblockBlock(plan.superblock)}
          /\ \A b \in DOMAIN w : w[b] = plan.superblock \/ w[b] = Torn
      <3>1. /\ DOMAIN w \subseteq DOMAIN SuperblockWrite
            /\ \A b \in DOMAIN w : w[b] = SuperblockWrite[b] \/ w[b] = Torn
        BY PartialWriteBounded
      <3>2. QED
        BY <3>1 DEF SuperblockWrite
    <2>4. plan.active /\ disk = seen /\ Holds(seen, plan.before) /\ Progress'
      BY <2>1, LatchedProgress DEF SInv, Progress
    <2>5. /\ DOMAIN seen = Blocks
          /\ SuperblockBlock(plan.superblock) \notin DOMAIN plan.before
      BY <2>4, SInvFacts
    <2>6. DOMAIN plan.before \subseteq Blocks
      BY <2>4, PlannedBatchInBlocks
    <2>7. \A b \in DOMAIN plan.before : seen'[b] = seen[b]
      BY <2>2, <2>3, <2>5, <2>6 DEF Overlay
    <2>8. Holds(disk, plan.before) /\ Holds(seen', plan.before)
      BY <2>4, <2>7 DEF Holds
    <2>9. DOMAIN w \subseteq Targets(plan) /\ pc' \in Switched
      BY <2>1, <2>3 DEF Targets, Switched
    <2>10. \A b \in DOMAIN w : w[b].kind # "nxsb"
             \/ (b = SuperblockBlock(plan.superblock) /\ w[b] = plan.superblock)
      BY <2>3, TornIsNoSuperblock
    <2>11. QED
      BY <1>0, <2>1, <2>2, <2>4, <2>8, <2>9, <2>10, WriteStep
  <1>7. CASE FinalFlush
    <2>1. /\ pc = "switched" /\ pc' = "synced" /\ disk' = seen
          /\ UNCHANGED <<seen, view, plan, required>>
      BY <1>7 DEF FinalFlush
    <2>2. Progress'
      BY <2>1 DEF SInv, Progress
    <2>3. pc' \in Switched
      BY <2>1 DEF Switched
    <2>4. QED
      BY <1>0, <2>1, <2>2, <2>3, FlushStep
  <1>8. CASE Acknowledge
    <2>1. /\ pc = "synced" /\ pc' = "idle" /\ plan' = NoPlan
          /\ view' = LoadContainerCheckpointView(seen)
          /\ UNCHANGED <<disk, seen, required>>
      BY <1>8 DEF Acknowledge
    <2>2. disk = seen
      BY <2>1 DEF SInv, Progress
    <2>3. Progress'
      BY <2>1, <2>2 DEF Progress, NoPlan
    <2>4. QED
      BY <1>0, <2>1, <2>2, <2>3, LoadStep
  <1>9. CASE Refuse
    <2>1. pc' = "latched" /\ UNCHANGED <<disk, seen, view, plan, required>>
      BY <1>9 DEF Refuse
    <2>2. Progress' /\ pc' \in Switched
      BY <2>1, LatchedProgress DEF Switched
    <2>3. QED
      BY <1>0, <2>1, <2>2, QuietStep
  <1>10. CASE PowerLoss
    <2>1. Progress'
      BY <1>10, LatchedProgress DEF PowerLoss
    <2>2. QED
      BY <1>0, <1>10, <2>1, PowerLossStep
  <1>11. CASE Settle
    <2>1. /\ pc = "latched" /\ pc' = "latched" /\ disk' = seen
          /\ UNCHANGED <<seen, view, plan, required>>
      BY <1>11 DEF Settle
    <2>2. Progress' /\ pc' \in Switched
      BY <2>1, LatchedProgress DEF Switched
    <2>3. QED
      BY <1>0, <2>1, <2>2, FlushStep
  <1>12. CASE Reopen
    <2>1. /\ pc' = "idle" /\ plan' = NoPlan /\ Unflushed = {}
          /\ view' = LoadContainerCheckpointView(seen)
          /\ UNCHANGED <<disk, seen, required>>
      BY <1>12 DEF Reopen
    <2>2. \A b \in Blocks : disk[b] = seen[b]
      BY <2>1 DEF Unflushed
    <2>3. disk = seen
      BY <2>2 DEF SInv, Images
    <2>4. Progress'
      BY <2>1, <2>3 DEF Progress, NoPlan
    <2>5. QED
      BY <1>0, <2>1, <2>3, <2>4, LoadStep
  <1>13. CASE Pin
    <2>1. /\ pc = "idle" /\ required' = required \union {view.sb.xid}
          /\ UNCHANGED <<disk, seen, view, pc, plan>>
      BY <1>13 DEF Pin
    <2>2. ~plan.active /\ Progress'
      BY <2>1 DEF SInv, Progress
    <2>3. QED
      BY <1>0, <2>1, <2>2, QuietStep
  <1>14. CASE Unpin
    <2>1. required' \subseteq required /\ UNCHANGED <<disk, seen, view, pc, plan>>
      BY <1>14 DEF Unpin
    <2>2. Progress'
      BY <2>1 DEF SInv, Progress
    <2>3. QED
      BY <1>0, <2>1, <2>2, QuietStep
  <1>15. CASE UNCHANGED vars
    <2>1. UNCHANGED <<disk, seen, view, pc, plan, required>>
      BY <1>15 DEF vars
    <2>2. Progress'
      BY <2>1 DEF SInv, Progress
    <2>3. QED
      BY <1>0, <2>1, <2>2, QuietStep
  <1>16. QED
    BY <1>1, <1>2, <1>3, <1>4, <1>5, <1>6, <1>7, <1>8, <1>9, <1>10, <1>11,
       <1>12, <1>13, <1>14, <1>15 DEF Next

\* The invariant holds in every reachable state.
LEMMA InvariantSInv == Spec => []SInv
  BY InitSInv, NextSInv, PTL DEF Spec

-----------------------------------------------------------------------------
(* The theorems.                                                            *)

\* For rings of any size, any request and any interleaving of failures: whoever
\* opens the container after a loss of power selects the generation last
\* reported durable or the complete one being published.
THEOREM OpenerSelectsOldOrNew == Spec => []SelectionOldOrNew
  BY InvariantSInv, SInvGivesProperties, PTL

\* For every geometry and failure: a pinned checkpoint stays loadable by its
\* exact transaction id, whatever is published or lost while it is pinned.
THEOREM PinsStayLoadable == Spec => []PinnedLoadable
  BY InvariantSInv, SInvGivesProperties, PTL

\* For every geometry and request: the generation whose last readback a
\* publication reaches is the one that readers select, with its mappings.
THEOREM PublicationIsSelected == Spec => []PublishedIsSelected
  BY InvariantSInv, SInvGivesProperties, PTL

\* The transaction id an opener would select, by the state of the publication.
Selects ==
    SelectedXid(disk) =
      IF plan.active /\ disk[SuperblockBlock(plan.superblock)] = plan.superblock
      THEN plan.superblock.xid ELSE view.sb.xid

\* The invariant says which transaction id an opener selects.
LEMMA SelectedKnown == SInv => Selects
  <1> SUFFICES ASSUME SInv PROVE Selects
    OBVIOUS
  <1>1. CASE OldSelected(disk)
    <2>1. view.found
      BY DEF SInv
    <2>2. QED
      BY <1>1, <2>1 DEF OldSelected, Selects, SelectedXid
  <1>2. CASE NewSelected(disk)
    BY <1>2 DEF NewSelected, Selects, SelectedXid
  <1>3. QED
    BY <1>1, <1>2, SelectionKnown

\* What an opener selects depends on the device alone.
LEMMA SelectedByDevice ==
    ASSUME disk' = disk
    PROVE  SelectedXid(disk') = SelectedXid(disk)
  OBVIOUS

\* A step that changes stable storage keeps a planned superblock that is durable.
LEMMA DurableSuperblockStays ==
    ASSUME SInv, [Next]_vars, disk' # disk, plan.active,
           disk[SuperblockBlock(plan.superblock)] = plan.superblock
    PROVE  disk'[SuperblockBlock(plan.superblock)] = plan.superblock
  <1> DEFINE b == SuperblockBlock(plan.superblock)
  <1>1. seen[b] = plan.superblock
    BY DEF SInv, DurableIsSeen
  <1>2. DOMAIN disk = Blocks /\ b \in Blocks
    <2>1. DOMAIN disk = Blocks /\ SlotOf(plan.superblock) \in 0 .. DescCount - 1
          /\ b = Desc(SlotOf(plan.superblock))
      BY SInvFacts
    <2>2. QED
      BY <2>1 DEF Blocks
  <1>3. disk' = seen \/ disk' \in SurvivingImages
    BY DEF Next, vars, Plan, WriteBatch, WriteBatchFails, PrepublicationFlush, SwitchSuperblock,
           SwitchFails, FinalFlush, Acknowledge, Refuse, PowerLoss, Settle, Reopen, Pin, Unpin
  <1>4. PICK after : after = disk'
    OBVIOUS
  <1> HIDE DEF b
  <1>5. CASE after \in SurvivingImages
    <2>1. disk[b] = seen[b] => after[b] = disk[b]
      BY <1>2, <1>5, Survivor
    <2>2. QED
      BY <1>1, <1>4, <2>1 DEF b
  <1>6. CASE after = seen
    BY <1>1, <1>4, <1>6 DEF b
  <1>7. QED
    BY <1>3, <1>4, <1>5, <1>6

\* No step makes an opener select an older generation.
LEMMA NextNeverRegresses ==
    SInv /\ SInv' /\ [Next]_vars => SelectedXid(disk) <= SelectedXid(disk')
  <1> SUFFICES ASSUME SInv, SInv', [Next]_vars PROVE SelectedXid(disk) <= SelectedXid(disk')
    OBVIOUS
  <1>1. Selects /\ Selects'
    <2>1. Selects
      BY SelectedKnown
    <2>2. Selects'
      BY SelectedKnown, PTL
    <2>3. QED
      BY <2>1, <2>2
  <1>2. /\ view.sb.xid \in Int
        /\ plan.active => plan.superblock.xid \in Int /\ view.sb.xid < plan.superblock.xid
    BY SInvFacts
  <1>3. SelectedXid(disk) \in Int
    BY <1>1, <1>2 DEF Selects
  <1>4. CASE disk' = disk
    BY <1>3, <1>4, SelectedByDevice
  <1>5. CASE disk' # disk
    <2>1. view' = view /\ plan' = plan
      BY <1>5 DEF Next, vars, Plan, WriteBatch, WriteBatchFails, PrepublicationFlush,
                  SwitchSuperblock, SwitchFails, FinalFlush, Acknowledge, Refuse, PowerLoss,
                  Settle, Reopen, Pin, Unpin
    <2>2. SelectedXid(disk') =
            IF plan.active /\ disk'[SuperblockBlock(plan.superblock)] = plan.superblock
            THEN plan.superblock.xid ELSE view.sb.xid
      BY <1>1, <2>1 DEF Selects
    <2>3. CASE plan.active /\ disk[SuperblockBlock(plan.superblock)] = plan.superblock
      <3>1. disk'[SuperblockBlock(plan.superblock)] = plan.superblock
        BY <1>5, <2>3, DurableSuperblockStays
      <3>2. QED
        BY <1>1, <1>2, <2>2, <2>3, <3>1 DEF Selects
    <2>4. CASE ~(plan.active /\ disk[SuperblockBlock(plan.superblock)] = plan.superblock)
      <3>1. SelectedXid(disk) = view.sb.xid
        BY <1>1, <2>4 DEF Selects
      <3>2. QED
        BY <1>2, <2>2, <3>1
    <2>5. QED
      BY <2>3, <2>4
  <1>6. QED
    BY <1>4, <1>5

\* For every geometry and failure: the transaction id an opener would select
\* never goes back, across failed publications, retries and losses of power.
THEOREM SelectionIsMonotone == Spec => SelectionNeverRegresses
  <1>1. SInv /\ SInv' /\ [Next]_vars => [SelectedXid(disk) <= SelectedXid(disk')]_vars
    BY NextNeverRegresses
  <1>2. QED
    BY <1>1, InvariantSInv, PTL DEF Spec, SelectionNeverRegresses
=============================================================================
