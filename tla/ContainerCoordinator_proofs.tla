--------------------- MODULE ContainerCoordinator_proofs ---------------------
(***************************************************************************)
(* Proofs about the volumes of one container: for every set of volumes and *)
(* every bound, the safety properties of module ContainerCoordinator and   *)
(* its refinement of the accepted log.                                     *)
(*                                                                         *)
(* The inductive invariant IInv says what the parts of the container owe   *)
(* each other.  Its ten conjuncts follow one argument: a session that a    *)
(* commit works on is as new as the device (XidInv, SessionInv), so a      *)
(* record always names the newest checkpoint, and that checkpoint holds    *)
(* its volume as the record found it (SourceInv); the coordinator pins     *)
(* that checkpoint before anyone can publish (CensusInv), so a publication *)
(* or its interruption never reuses it; an overlay is exactly the end of   *)
(* the journal that is not published (Overlay), so what is published is    *)
(* always a prefix of the journal (ChainInv, JournalInv).                  *)
(***************************************************************************)
EXTENDS ContainerCoordinator, FiniteSetTheorems, SequenceTheorems,
        WellFoundedInduction, TLAPS

\* What TypeOK says of a session and of the commit that holds the lock.
SessionType == [xid : 0 .. MaxXid, prepared : BOOLEAN, pending : Seq(1 .. MaxRecords)]
CommitType == [vol : Volumes \union {NoVolume}, kind : Kinds, stage : Stages,
               pre : 0 .. MaxXid, existing : BOOLEAN, tried : BOOLEAN]

\* A volume's content is the first records of its journal.
Counting(s) == \A i \in 1 .. Len(s) : s[i] = i

\* How many records of a volume the newest checkpoint holds.
Held(v) == Len(Current(v))

\* Every checkpoint holds the first records of each journal, and none holds
\* more of a volume than the newest one.
ChainInv ==
    /\ floor <= Device
    /\ \A x \in 1 .. Device : \A v \in Volumes :
          Counting(ckpt[x][v]) /\ Len(ckpt[x][v]) <= Held(v)

\* A journal's watermarks and its published part, in their order.
JournalInv ==
    \A v \in Volumes :
        /\ cleaned[v] <= durable[v]
        /\ durable[v] <= Held(v)
        /\ Held(v) <= Len(wal[v])
        /\ Len(wal[v]) <= MaxRecords
        /\ \A i \in 1 .. Len(wal[v]) : wal[v][i] <= Device

\* A record that is not cleaned has a source that loads; one that is not
\* published was accepted on a checkpoint that holds its volume as it is now.
SourceInv ==
    \A v \in Volumes : \A i \in cleaned[v] + 1 .. Len(wal[v]) :
        /\ wal[v][i] >= floor
        /\ i <= Held(v) \/ Len(ckpt[wal[v][i]][v]) = Held(v)

\* The coordinator pins every source and knows who owes; a census that a
\* refresh has read is still the journal's own.
CensusInv ==
    \A v \in Volumes :
        /\ up => /\ \A i \in cleaned[v] + 1 .. Len(wal[v]) : wal[v][i] \in pins[v]
                 /\ Held(v) < Len(wal[v]) => unapplied[v]
        /\ phase[v] = "refresh" => census[v] = Census(v)

\* A container that is not open has no host state.
DownInv ==
    ~up => /\ commit = Idle /\ boot = {} /\ reader = 0 /\ ~latched
           /\ \A v \in Volumes : phase[v] = "off" /\ session[v] = Unmounted

\* No one names a checkpoint that does not exist, and an unlatched coordinator
\* knows the newest one, but for the moment of a publication.
XidInv ==
    /\ reader # 0 => floor <= reader
    /\ reader <= Device
    /\ ckptXid <= Device
    /\ up /\ ~latched /\ commit.stage # "published" => ckptXid = Device
    /\ \A v \in Volumes : session[v].xid <= Device

\* The commit that holds the lock: its preimage is its session's checkpoint, no
\* sibling owes unless it replays, and a latched coordinator has none.
CommitInv ==
    /\ latched => commit = Idle
    /\ commit.vol = NoVolume \/ commit.stage = "idle" => commit = Idle
    /\ commit.vol # NoVolume =>
         /\ commit.pre = session[commit.vol].xid
         /\ commit.pre # 0
         /\ commit.stage # "published" => commit.pre = Device
         /\ commit.kind = "replay" <=> commit.vol \in boot
         /\ commit.kind # "replay" => boot = {}
         /\ phase[commit.vol] = IF commit.kind = "replay" THEN "replay" ELSE "serving"
         /\ commit.existing => unapplied[commit.vol]
         /\ commit.kind # "replay" => \A w \in Volumes \ {commit.vol} : ~unapplied[w]
         /\ commit.kind \in {"write", "defer"} /\ commit.stage = "begun" =>
               Len(wal[commit.vol]) < MaxRecords
         /\ commit.stage = "accepted" => commit.kind \in {"write", "defer"}
         /\ commit.stage = "published" => Held(commit.vol) = Len(wal[commit.vol])

\* The overlay of a session: what its volume has yet to publish.
Overlay(v) ==
    /\ Len(session[v].pending) = Len(wal[v]) - Held(v)
    /\ \A i \in 1 .. Len(session[v].pending) : session[v].pending[i] = Held(v) + i

\* A session that is not behind the publications of its own volume.
Settled(v) ==
    /\ session[v].xid # 0
    /\ ~latched \/ (v \in boot /\ phase[v] # "degraded")
    /\ ~(commit.vol = v /\ commit.stage = "published")

\* A session with accepted work holds its volume's overlay on the newest
\* checkpoint; every other usable session has its volume as it is now.
SessionInv ==
    \A v \in Volumes :
        /\ ~latched /\ commit.vol # v /\ session[v].pending # <<>> =>
              unapplied[v] /\ session[v].xid = Device /\ Overlay(v) /\ boot = {}
        /\ commit.vol = v /\ commit.stage # "published" => Overlay(v)
        /\ Settled(v) => Len(ckpt[session[v].xid][v]) = Held(v)

\* Phases that only a volume in startup can be in.
BootPhases == {"startup", "proved", "replay", "settled"}

\* Volumes start one after the other, all before any of them serves; and the
\* gate of a published commit stays closed until its journal is marked.
StartupInv ==
    /\ \A v \in Volumes :
         /\ phase[v] \in BootPhases => v \in boot
         /\ v \in boot => phase[v] \notin {"off", "serving"} /\ session[v].xid # 0
         /\ phase[v] = "published" /\ v \notin boot => Held(v) = Len(wal[v])
         /\ boot # {} /\ v \notin boot => phase[v] \in {"serving", "degraded"}
    /\ \A v, w \in boot : v # w => phase[v] = "startup" \/ phase[w] = "startup"

\* The inductive invariant.
IInv ==
    /\ TypeOK /\ ChainInv /\ JournalInv /\ SourceInv /\ CensusInv /\ DownInv /\ XidInv
    /\ CommitInv /\ SessionInv /\ StartupInv

-----------------------------------------------------------------------------
(* Smallest and largest members.                                           *)

\* A set of naturals that has a member has a smallest one: the floor a
\* publication retains is one of the checkpoints it must keep.
LEMMA MinIsLeast ==
    ASSUME NEW S, S \subseteq Nat, S # {}
    PROVE  Min(S) \in S /\ \A y \in S : Min(S) <= y
  <1>1. PICK x \in S : \A y \in S : ~(<<y, x>> \in OpToRel(<, Nat))
    BY NatLessThanWellFounded, WFMin
  <1>2. \A y \in S : ~(y < x)
    BY <1>1 DEF OpToRel
  <1>3. \A y \in S : x <= y
    BY <1>2
  <1>4. QED
    BY <1>3 DEF Min

\* The larger of two naturals.
LEMMA MaxOfTwo ==
    ASSUME NEW a \in Nat, NEW b \in Nat
    PROVE  Max({a, b}) = IF a >= b THEN a ELSE b
  <1> DEFINE m == IF a >= b THEN a ELSE b
  <1>1. m \in {a, b} /\ \A y \in {a, b} : m >= y
    OBVIOUS
  <1>2. \A x \in {a, b} : (\A y \in {a, b} : x >= y) => x = m
    OBVIOUS
  <1>3. QED
    BY <1>1, <1>2 DEF Max

-----------------------------------------------------------------------------
(* Records in order.                                                       *)

\* A volume that holds the first records of its journal holds just those.
LEMMA CountingRange ==
    ASSUME NEW s \in Seq(Nat), Counting(s)
    PROVE  Range(s) = 1 .. Len(s)
  BY DEF Counting, Range

\* An interval in order counts from its first member to its last.
LEMMA InOrderInterval ==
    ASSUME NEW a \in Nat, NEW n \in Nat, a <= n
    PROVE  /\ InOrder(a + 1 .. n) \in Seq(a + 1 .. n)
           /\ Len(InOrder(a + 1 .. n)) = n - a
           /\ \A k \in 1 .. n - a : InOrder(a + 1 .. n)[k] = a + k
  <1> DEFINE S == a + 1 .. n
  <1>1. Cardinality(S) = n - a
    <2>1. a + 1 \in Int /\ n \in Int
      OBVIOUS
    <2>2. Cardinality(a + 1 .. n) = IF a + 1 > n THEN 0 ELSE n - (a + 1) + 1
      BY <2>1, FS_Interval
    <2>3. QED
      BY <2>2
  <1>2. ASSUME NEW i \in S
        PROVE  Cardinality({j \in S : j <= i}) = i - a
    <2>1. {j \in S : j <= i} = a + 1 .. i
      OBVIOUS
    <2>2. Cardinality(a + 1 .. i) = i - a
      BY FS_Interval
    <2>3. QED
      BY <2>1, <2>2
  <1>3. ASSUME NEW k \in 1 .. n - a
        PROVE  (CHOOSE i \in S : Cardinality({j \in S : j <= i}) = k) = a + k
    <2>1. a + k \in S /\ Cardinality({j \in S : j <= a + k}) = k
      BY <1>2
    <2>2. \A i \in S : Cardinality({j \in S : j <= i}) = k => i = a + k
      BY <1>2
    <2>3. QED
      BY <2>1, <2>2
  <1>4. InOrder(S) = [k \in 1 .. n - a |-> a + k]
    BY <1>1, <1>3 DEF InOrder
  <1>5. QED
    BY <1>4

-----------------------------------------------------------------------------
(* What the types say of lengths.                                          *)

\* The lengths and numbers that a well-typed state is made of.
LEMMA TypedFacts ==
    ASSUME TypeOK
    PROVE  /\ Device \in Nat /\ Device >= 1 /\ Device <= MaxXid
           /\ \A v \in Volumes :
                /\ wal[v] \in Seq(1 .. MaxXid) /\ Len(wal[v]) \in Nat
                /\ \A i \in 1 .. Len(wal[v]) : wal[v][i] \in Nat /\ wal[v][i] >= 1
                /\ durable[v] \in Nat /\ cleaned[v] \in Nat
                /\ session[v].pending \in Seq(1 .. MaxRecords)
                /\ Len(session[v].pending) \in Nat
                /\ session[v].xid \in Nat
                /\ Held(v) \in Nat
                /\ \A x \in 1 .. Device :
                     /\ ckpt[x][v] \in Seq(1 .. MaxRecords) /\ ckpt[x][v] \in Seq(Nat)
                     /\ Len(ckpt[x][v]) \in Nat
  <1>1. Device \in 1 .. MaxXid /\ Device \in Nat
    BY BoundsAssumption DEF TypeOK, Device
  <1>2. ASSUME NEW x \in 1 .. Device, NEW v \in Volumes
        PROVE  ckpt[x][v] \in Seq(1 .. MaxRecords) /\ ckpt[x][v] \in Seq(Nat)
               /\ Len(ckpt[x][v]) \in Nat
    <2>1. ckpt[x] \in [Volumes -> Seq(1 .. MaxRecords)]
      BY ElementOfSeq DEF TypeOK, Device
    <2>2. ckpt[x][v] \in Seq(1 .. MaxRecords)
      BY <2>1
    <2>3. ckpt[x][v] \in Seq(Nat)
      BY <2>2, SeqMonotonic, BoundsAssumption
    <2>4. QED
      BY <2>2, <2>3, LenProperties
  <1>3. ASSUME NEW v \in Volumes
        PROVE  /\ wal[v] \in Seq(1 .. MaxXid) /\ Len(wal[v]) \in Nat
               /\ \A i \in 1 .. Len(wal[v]) : wal[v][i] \in Nat /\ wal[v][i] >= 1
    <2>1. wal[v] \in Seq(1 .. MaxXid)
      BY DEF TypeOK
    <2>2. \A i \in 1 .. Len(wal[v]) : wal[v][i] \in 1 .. MaxXid
      BY <2>1, ElementOfSeq
    <2>3. QED
      BY <2>1, <2>2, LenProperties
  <1>4. ASSUME NEW v \in Volumes
        PROVE  /\ durable[v] \in Nat /\ cleaned[v] \in Nat /\ session[v].xid \in Nat
               /\ session[v].pending \in Seq(1 .. MaxRecords)
               /\ Len(session[v].pending) \in Nat
    <2>1. /\ durable[v] \in 0 .. MaxRecords /\ cleaned[v] \in 0 .. MaxRecords
          /\ session[v].xid \in 0 .. MaxXid
          /\ session[v].pending \in Seq(1 .. MaxRecords)
      BY DEF TypeOK
    <2>2. durable[v] \in Nat /\ cleaned[v] \in Nat /\ session[v].xid \in Nat
      BY <2>1, BoundsAssumption
    <2>3. QED
      BY <2>1, <2>2, LenProperties
  <1>5. QED
    BY <1>1, <1>2, <1>3, <1>4 DEF Held, Current

\* The records a checkpoint lacks, after the durable mark: the end of the
\* journal, from the first record that it does not hold.
LEMMA MissingIsSuffix ==
    ASSUME TypeOK, ChainInv, JournalInv, NEW v \in Volumes, NEW x \in 1 .. Device
    PROVE  /\ Len(ckpt[x][v]) = Held(v) =>
                /\ Missing(v, x) \in Seq(1 .. MaxRecords)
                /\ Len(Missing(v, x)) = Len(wal[v]) - Held(v)
                /\ \A k \in 1 .. Len(Missing(v, x)) : Missing(v, x)[k] = Held(v) + k
           /\ Missing(v, x) = <<>> => Held(v) = Len(wal[v])
  <1> DEFINE n == Len(wal[v])
             c == Len(ckpt[x][v])
             a == IF durable[v] >= c THEN durable[v] ELSE c
  <1>1. /\ n \in Nat /\ c \in Nat /\ a \in Nat /\ durable[v] \in Nat /\ Held(v) \in Nat
        /\ durable[v] <= Held(v) /\ c <= Held(v) /\ Held(v) <= n /\ n <= MaxRecords
        /\ ckpt[x][v] \in Seq(Nat) /\ Counting(ckpt[x][v])
    BY TypedFacts DEF ChainInv, JournalInv
  <1>2. Range(ckpt[x][v]) = 1 .. c
    BY <1>1, CountingRange
  <1>3. {i \in durable[v] + 1 .. n : i \notin Range(ckpt[x][v])} = a + 1 .. n
    BY <1>1, <1>2
  <1>4. Missing(v, x) = InOrder(a + 1 .. n)
    BY <1>3 DEF Missing
  <1>5. /\ Missing(v, x) \in Seq(a + 1 .. n)
        /\ Len(Missing(v, x)) = n - a
        /\ \A k \in 1 .. n - a : Missing(v, x)[k] = a + k
    <2>1. a <= n
      BY <1>1
    <2> HIDE DEF a, n
    <2>2. QED
      BY <1>1, <1>4, <2>1, InOrderInterval
  <1>6. ASSUME c = Held(v)
        PROVE  /\ Missing(v, x) \in Seq(1 .. MaxRecords)
               /\ Len(Missing(v, x)) = n - Held(v)
               /\ \A k \in 1 .. Len(Missing(v, x)) : Missing(v, x)[k] = Held(v) + k
    <2>1. a = Held(v)
      BY <1>1, <1>6
    <2>2. a + 1 .. n \subseteq 1 .. MaxRecords
      BY <1>1, BoundsAssumption
    <2> HIDE DEF a, n
    <2>3. Missing(v, x) \in Seq(1 .. MaxRecords)
      BY <1>5, <2>2, SeqMonotonic
    <2>4. QED
      BY <1>1, <1>5, <2>1, <2>3
  <1>7. ASSUME Missing(v, x) = <<>>
        PROVE  Held(v) = n
    BY <1>1, <1>5, <1>7
  <1>8. QED
    BY <1>6, <1>7

-----------------------------------------------------------------------------
(* What a step leaves alone.                                               *)

\* A step of the host or the coordinator that leaves the device and the
\* journals alone leaves what they owe each other alone.
LEMMA DeviceAndJournalKept ==
    ASSUME IInv, UNCHANGED <<device, journal>>
    PROVE  ChainInv' /\ JournalInv' /\ SourceInv'
  BY DEF IInv, ChainInv, JournalInv, SourceInv, Held, Current, Device, device, journal

\* Nor does it disturb the coordinator's census, unless it refreshes it.
LEMMA CensusKept ==
    ASSUME IInv, UNCHANGED <<device, journal, up, pins, unapplied, census>>,
           \A w \in Volumes : phase'[w] = "refresh" => phase[w] = "refresh"
    PROVE  CensusInv'
  BY DEF IInv, CensusInv, Held, Current, Device, device, journal, Census, Sources,
         HasUnappliedAcceptedWork

\* The parts of the invariant, and of the constants' assumptions, by name.
LEMMA Parts ==
    ASSUME IInv
    PROVE  /\ TypeOK /\ ChainInv /\ JournalInv /\ SourceInv /\ CensusInv /\ DownInv
           /\ XidInv /\ CommitInv /\ SessionInv /\ StartupInv
           /\ NoVolume \notin Volumes /\ MaxXid \in Nat /\ MaxRecords \in Nat
           /\ session \in [Volumes -> SessionType]
           /\ commit \in CommitType
           /\ phase \in [Volumes -> Phases]
           /\ Device \in Nat /\ Device \in 1 .. MaxXid
           /\ commit.vol = NoVolume \/ commit.vol \in Volumes
  <1>1. TypeOK
    BY DEF IInv
  <1>2. Device \in Nat /\ Device \in 1 .. MaxXid
    BY <1>1, TypedFacts, BoundsAssumption
  <1>3. QED
    BY <1>1, <1>2, VolumesAssumption, BoundsAssumption
    DEF IInv, TypeOK, SessionType, CommitType

\* A commit that no one holds is well typed.
LEMMA IdleTyped == Idle \in CommitType /\ Idle.vol = NoVolume /\ Idle.stage = "idle"
  BY BoundsAssumption DEF Idle, CommitType, Kinds, Stages

\* Startup goes on, one volume after the other, when one volume that has its
\* turn moves to another phase.
LEMMA StartupKept ==
    ASSUME IInv, NEW v \in Volumes, boot' = boot,
           \A w \in Volumes : Held(w)' = Held(w) /\ Len(wal'[w]) = Len(wal[w]),
           \A w \in Volumes \ {v} : phase'[w] = phase[w],
           \A w \in boot : session'[w].xid # 0,
           phase'[v] \in BootPhases => v \in boot,
           v \in boot => /\ phase'[v] \notin {"off", "serving"}
                         /\ \A w \in boot \ {v} : phase[w] = "startup",
           v \notin boot =>
             /\ phase'[v] = "published" => Held(v) = Len(wal[v])
             /\ boot = {} \/ phase'[v] \in {"serving", "degraded"}
    PROVE  StartupInv'
  <1>0. StartupInv /\ boot \subseteq Volumes
    BY DEF IInv, TypeOK
  <1>1. ASSUME NEW w \in Volumes
        PROVE  /\ phase'[w] \in BootPhases => w \in boot'
               /\ w \in boot' => phase'[w] \notin {"off", "serving"} /\ session'[w].xid # 0
               /\ phase'[w] = "published" /\ w \notin boot' => Held(w)' = Len(wal'[w])
               /\ boot' # {} /\ w \notin boot' => phase'[w] \in {"serving", "degraded"}
    <2>1. CASE w = v
      BY <2>1
    <2>2. CASE w # v
      BY <1>0, <2>2 DEF StartupInv
    <2>3. QED
      BY <2>1, <2>2
  <1>2. ASSUME NEW w \in boot', NEW u \in boot', w # u
        PROVE  phase'[w] = "startup" \/ phase'[u] = "startup"
    <2>1. CASE w = v
      BY <1>0, <1>2, <2>1
    <2>2. CASE u = v
      BY <1>0, <1>2, <2>2
    <2>3. CASE w # v /\ u # v
      BY <1>0, <1>2, <2>3 DEF StartupInv
    <2>4. QED
      BY <2>1, <2>2, <2>3
  <1>3. QED
    BY <1>1, <1>2 DEF StartupInv

\* A volume that is past its first startup phase has the startup to itself.
LEMMA OneAtATime ==
    ASSUME IInv, NEW v \in boot, phase[v] # "startup"
    PROVE  \A w \in boot \ {v} : phase[w] = "startup"
  BY DEF IInv, StartupInv

\* A commit begins on the newest checkpoint: a session that may be reused, and an
\* accepted overlay, are as new as the device; a replay stages what is missing.
LEMMA BeginCommitKeeps ==
    ASSUME IInv, NEW v \in Volumes, NEW kind \in Kinds, BeginCommit(v, kind)
    PROVE  IInv'
  <1> DEFINE existing == ExistingAcceptedPending(v)
             view == IF existing \/ CanReusePreparedSession(v)
                       THEN session[v] ELSE Loaded(TRUE)
             S == [xid : 0 .. MaxXid, prepared : BOOLEAN, pending : Seq(1 .. MaxRecords)]
  <1>0. UNCHANGED <<device, journal, up, latched, ckptXid, pins, unapplied, reader, host>>
    BY DEF BeginCommit
  <1>1. /\ commit = Idle /\ commit.vol = NoVolume /\ ~latched /\ up /\ ckptXid = Device
        /\ Device \in 1 .. MaxXid /\ NoVolume \notin Volumes /\ commit.vol # v
        /\ commit.stage = "idle"
    BY VolumesAssumption, TypedFacts DEF IInv, BeginCommit, DownInv, XidInv, Idle, Unmounted
  <1>2. session[v] \in S
    BY DEF IInv, TypeOK
  <1>3. view \in S /\ view.xid = Device
    <2>1. CASE existing
      BY <1>1, <1>2, <2>1 DEF IInv, SessionInv, ExistingAcceptedPending
    <2>2. CASE ~existing /\ CanReusePreparedSession(v)
      BY <1>1, <1>2, <2>2 DEF CanReusePreparedSession
    <2>3. CASE ~existing /\ ~CanReusePreparedSession(v)
      BY <1>1, <2>3 DEF Loaded
    <2>4. QED
      BY <2>1, <2>2, <2>3
  <1>4. /\ session' = [session EXCEPT ![v] =
               IF kind = "replay" THEN [view EXCEPT !.pending = Missing(v, view.xid)]
                                  ELSE view]
        /\ commit' = [vol |-> v, kind |-> kind, stage |-> "begun",
                        pre |-> view.xid, existing |-> existing, tried |-> FALSE]
        /\ kind = "replay" => view.xid = session[v].xid
    BY DEF BeginCommit
  <1>5. ASSUME kind # "replay"
        PROVE  /\ Len(view.pending) = Len(wal[v]) - Held(v)
               /\ \A i \in 1 .. Len(view.pending) : view.pending[i] = Held(v) + i
    <2>1. CASE existing
      BY <1>1, <2>1 DEF IInv, SessionInv, ExistingAcceptedPending, Overlay
    <2>2. CASE ~existing
      <3>1. session[v].pending = <<>> /\ view.pending = <<>>
        BY <2>2 DEF BeginCommit, Loaded
      <3>2. ~unapplied[v]
        BY <1>5, <2>2 DEF BeginCommit, AcceptedWorkAdmits
      <3>3. Held(v) = Len(wal[v])
        BY <1>1, <3>2, TypedFacts DEF IInv, CensusInv, JournalInv
      <3>4. QED
        <4>1. Len(wal[v]) \in Nat
          BY TypedFacts DEF IInv
        <4> HIDE DEF view
        <4>2. Len(view.pending) = 0
          BY <3>1
        <4>3. QED
          BY <3>3, <4>1, <4>2
    <2>3. QED
      BY <2>1, <2>2
  <1>6. /\ Missing(v, Device) \in Seq(1 .. MaxRecords)
        /\ Len(Missing(v, Device)) = Len(wal[v]) - Held(v)
        /\ \A k \in 1 .. Len(Missing(v, Device)) : Missing(v, Device)[k] = Held(v) + k
    BY <1>1, MissingIsSuffix DEF IInv, Held, Current
  <1>7. /\ session'[v] \in S /\ session'[v].xid = Device
        /\ Len(session'[v].pending) = Len(wal[v]) - Held(v)
        /\ \A i \in 1 .. Len(session'[v].pending) : session'[v].pending[i] = Held(v) + i
        /\ session' \in [Volumes -> S]
        /\ \A w \in Volumes \ {v} : session'[w] = session[w]
    <2> HIDE DEF view
    <2>1. session \in [Volumes -> S]
      BY DEF IInv, TypeOK
    <2>2. CASE kind = "replay"
      BY <1>3, <1>4, <1>6, <2>1, <2>2
    <2>3. CASE kind # "replay"
      BY <1>3, <1>4, <1>5, <2>1, <2>3
    <2>4. QED
      BY <2>2, <2>3
  <1>8. /\ commit' = [vol |-> v, kind |-> kind, stage |-> "begun",
                      pre |-> Device, existing |-> existing, tried |-> FALSE]
        /\ commit'.vol = v /\ commit'.kind = kind /\ commit'.stage = "begun" 
        /\ commit'.pre = Device /\ commit'.existing = existing
    BY <1>3, <1>4
  <1>9. /\ kind = "replay" => v \in boot /\ phase[v] = "replay"
        /\ kind # "replay" => boot = {} /\ phase[v] = "serving"
        /\ kind \in {"write", "defer"} => Len(wal[v]) < MaxRecords
        /\ kind # "replay" => \A w \in Volumes \ {v} : ~unapplied[w]
        /\ existing => unapplied[v]
        /\ session[v].xid # 0
        /\ existing \in BOOLEAN
    BY DEF BeginCommit, HostServing, MutationGateFree, IInv, StartupInv, BootPhases,
       AcceptedWorkAdmits, ExistingAcceptedPending, TypeOK
  <1> HIDE DEF existing, view
  <1>a. TypeOK'
    <2>1. commit' \in [vol : Volumes \union {NoVolume}, kind : Kinds, stage : Stages,
                   pre : 0 .. MaxXid, existing : BOOLEAN, tried : BOOLEAN]
      BY <1>1, <1>8, <1>9 DEF Stages
    <2>2. QED
      BY <1>0, <1>7, <2>1 DEF IInv, TypeOK, device, journal, host
  <1>b. ChainInv' /\ JournalInv' /\ SourceInv'
    BY <1>0, DeviceAndJournalKept
  <1>c. CensusInv'
    BY <1>0
    DEF IInv, CensusInv, Held, Current, Device,
        device, journal, host, Census, Sources, HasUnappliedAcceptedWork
  <1>d. DownInv'
    BY <1>0, <1>1 DEF DownInv
  <1>e. XidInv'
    BY <1>0, <1>1, <1>7, <1>8 DEF IInv, XidInv, device, Device
  <1>f. CommitInv'
    BY <1>0, <1>1, <1>7, <1>8, <1>9
    DEF IInv, CommitInv, device, host, journal, Device, Held, Current
  <1>g. SessionInv'
    <2>0. /\ Device' = Device /\ ckpt' = ckpt /\ wal' = wal
          /\ \A w \in Volumes : Held(w)' = Held(w)
          /\ Len(ckpt[Device][v]) = Held(v)
      BY <1>0 DEF device, journal, Device, Held, Current
    <2>1. ASSUME NEW w \in Volumes, w # v
          PROVE  /\ ~latched' /\ commit'.vol # w /\ session'[w].pending # <<>> =>
                        unapplied'[w] /\ session'[w].xid = Device' /\ Overlay(w)' /\ boot' = {}
                 /\ Settled(w)' => Len(ckpt'[session'[w].xid][w]) = Held(w)'
      BY <1>0, <1>1, <1>7, <1>8, <2>0, <2>1 DEF IInv, SessionInv, Settled, Overlay, host
    <2>2. Overlay(v)'
      BY <1>0, <1>7, <2>0 DEF Overlay
    <2>3. QED
      BY <1>7, <1>8, <2>0, <2>1, <2>2 DEF SessionInv
  <1>h. StartupInv'
    BY <1>0, <1>1, <1>7, <1>8, <1>9
    DEF IInv, StartupInv, device, host, journal, Device, Held, Current, BootPhases
  <1> QED
    BY <1>a, <1>b, <1>c, <1>d, <1>e, <1>f, <1>g, <1>h DEF IInv

\* A refused commit frees the lock.  Unless the coordinator latched, the
\* session has been reloaded from the newest checkpoint.
LEMMA RefuseCommitEffect ==
    ASSUME IInv, NEW v \in Volumes, NEW b \in BOOLEAN, RefuseCommit(v, b),
           commit.vol = v, ~latched
    PROVE  /\ commit' = Idle
           /\ session' \in [Volumes -> SessionType]
           /\ \A w \in Volumes \ {v} : session'[w] = session[w]
           /\ latched' \in BOOLEAN
           /\ session'[v].xid # 0 /\ session'[v].xid <= Device
           /\ ~latched' => session'[v].pending = <<>> /\ session'[v].xid = Device
  <1>0. /\ TypeOK /\ CommitInv /\ XidInv /\ Device \in Nat /\ Device \in 1 .. MaxXid
        /\ session \in [Volumes -> SessionType]
        /\ NoVolume \notin Volumes
    BY Parts
  <1>1. session[v].xid # 0 /\ session[v].xid <= Device /\ session[v] \in SessionType
    BY <1>0 DEF CommitInv, XidInv
  <1>2. Loaded(FALSE) \in SessionType /\ Loaded(FALSE).xid = Device
        /\ Loaded(FALSE).pending = <<>>
    BY <1>0 DEF Loaded, SessionType
  <1>3. [session[v] EXCEPT !.prepared = FALSE] \in SessionType
        /\ [session[v] EXCEPT !.prepared = FALSE].xid = session[v].xid
    BY <1>1 DEF SessionType
  <1>4. CASE b
    BY <1>0, <1>1, <1>4 DEF RefuseCommit
  <1>5. CASE ~b /\ session' = [session EXCEPT ![v] = Loaded(FALSE)] /\ UNCHANGED latched
    <2>1. latched' = latched /\ latched \in BOOLEAN
      BY <1>0, <1>5 DEF TypeOK
    <2>2. session'[v] = Loaded(FALSE)
      BY <1>0, <1>5
    <2>3. /\ session' \in [Volumes -> SessionType]
          /\ \A w \in Volumes \ {v} : session'[w] = session[w]
      BY <1>0, <1>2, <1>5
    <2>4. /\ session'[v].xid # 0 /\ session'[v].xid <= Device
          /\ session'[v].pending = <<>> /\ session'[v].xid = Device
      BY <1>0, <2>2 DEF Loaded
    <2>5. commit' = Idle
      BY DEF RefuseCommit
    <2>6. QED
      BY <2>1, <2>3, <2>4, <2>5
  <1>6. CASE ~b /\ session' = [session EXCEPT ![v].prepared = FALSE] /\ latched' = TRUE
    <2>1. session' = [session EXCEPT ![v] = [session[v] EXCEPT !.prepared = FALSE]]
      BY <1>6
    <2>2. QED
      BY <1>0, <1>1, <1>3, <1>6, <2>1 DEF RefuseCommit
  <1>7. QED
    BY <1>4, <1>5, <1>6 DEF RefuseCommit

\* StagingFails and CapacityRefused: nothing was accepted.
LEMMA RefusalKeeps ==
    ASSUME IInv, NEW v \in Volumes, NEW b \in BOOLEAN, RefuseCommit(v, b),
           commit.vol = v, commit.stage \in {"begun", "refused"},
           phase' = [phase EXCEPT ![v] = AfterFailure(v)],
           UNCHANGED <<device, journal, up, ckptXid, pins, unapplied, reader, boot, census>>
    PROVE  IInv'
  <1>0. /\ TypeOK /\ ChainInv /\ JournalInv /\ SourceInv /\ CensusInv /\ DownInv
        /\ XidInv /\ CommitInv /\ SessionInv /\ StartupInv
        /\ NoVolume \notin Volumes /\ MaxXid \in Nat /\ MaxRecords \in Nat
        /\ session \in [Volumes -> SessionType] /\ commit \in CommitType
        /\ phase \in [Volumes -> Phases] /\ Device \in Nat /\ Device \in 1 .. MaxXid
    BY Parts
  <1>1. /\ ~latched /\ up /\ commit.stage # "published" /\ ckptXid = Device
    BY <1>0, IdleTyped DEF CommitInv, DownInv, XidInv
  <1>2. /\ commit' = Idle
        /\ session' \in [Volumes -> SessionType]
        /\ \A w \in Volumes \ {v} : session'[w] = session[w]
        /\ latched' \in BOOLEAN
        /\ session'[v].xid # 0 /\ session'[v].xid <= Device
        /\ ~latched' => session'[v].pending = <<>> /\ session'[v].xid = Device
    BY <1>1, RefuseCommitEffect
  <1>3. /\ phase' \in [Volumes -> Phases]
        /\ phase'[v] = IF v \in boot THEN "degraded" ELSE "serving"
        /\ \A w \in Volumes \ {v} : phase'[w] = phase[w]
    BY <1>0 DEF AfterFailure, Phases
  <1>a. TypeOK'
    BY <1>0, <1>2, <1>3, IdleTyped DEF TypeOK, device, journal, SessionType, CommitType
  <1>b. ChainInv' /\ JournalInv' /\ SourceInv'
    BY DeviceAndJournalKept
  <1>c. CensusInv'
    BY <1>3, CensusKept
  <1>d. DownInv'
    BY <1>1 DEF DownInv
  <1>e. XidInv'
    BY <1>0, <1>1, <1>2, IdleTyped DEF XidInv, device, Device
  <1>f. CommitInv'
    BY <1>2, IdleTyped DEF CommitInv
  <1>g. SessionInv'
    <2>1. /\ Device' = Device /\ ckpt' = ckpt /\ wal' = wal
          /\ \A w \in Volumes : Held(w)' = Held(w)
          /\ Len(ckpt[Device][v]) = Held(v) /\ commit'.vol = NoVolume /\ commit'.stage = "idle"
      BY <1>2, IdleTyped DEF device, journal, Device, Held, Current
    <2>2. ASSUME NEW w \in Volumes, w # v
          PROVE  /\ ~latched' /\ commit'.vol # w /\ session'[w].pending # <<>> =>
                        unapplied'[w] /\ session'[w].xid = Device' /\ Overlay(w)' /\ boot' = {}
                 /\ Settled(w)' => Len(ckpt'[session'[w].xid][w]) = Held(w)'
      BY <1>0, <1>1, <1>2, <1>3, <2>1, <2>2 DEF SessionInv, Settled, Overlay
    <2>3. Settled(v)' => Len(ckpt'[session'[v].xid][v]) = Held(v)'
      BY <1>2, <1>3, <2>1 DEF Settled
    <2>4. QED
      BY <1>0, <1>2, <2>1, <2>2, <2>3 DEF SessionInv
  <1>h. StartupInv'
    <2>1. /\ \A w \in Volumes : Held(w)' = Held(w) /\ wal'[w] = wal[w]
      BY DEF device, journal, Device, Held, Current
    <2>2. \A w \in Volumes : w \in boot => session'[w].xid # 0
      BY <1>0, <1>2 DEF StartupInv
    <2>3. \A w \in Volumes : phase'[w] = "startup" <=> phase[w] = "startup" /\ w # v
      BY <1>3
    <2>4. v \in boot => phase[v] # "startup"
      BY <1>0 DEF CommitInv
    <2>5. QED
      BY <1>0, <1>3, <2>1, <2>2, <2>3, <2>4 DEF StartupInv, BootPhases
  <1> QED
    BY <1>a, <1>b, <1>c, <1>d, <1>e, <1>f, <1>g, <1>h DEF IInv

\* StagingFails drops a view that nothing was accepted on.
LEMMA StagingFailsKeeps ==
    ASSUME IInv, NEW v \in Volumes, StagingFails(v)
    PROVE  IInv'
  <1>1. commit.existing \in BOOLEAN
    BY Parts DEF CommitType
  <1>2. QED
    BY <1>1, RefusalKeeps DEF StagingFails

\* CapacityRefused drops a view that nothing was accepted on.
LEMMA CapacityRefusedKeeps ==
    ASSUME IInv, NEW v \in Volumes, CapacityRefused(v)
    PROVE  IInv'
  <1>1. (commit.existing \/ (commit.kind = "replay" /\ unapplied[v])) \in BOOLEAN
    OBVIOUS
  <1>2. QED
    BY <1>1, RefusalKeeps DEF CapacityRefused

\* CommitReloadFails leaves a session that is reloaded before its next use.
LEMMA CommitReloadFailsKeeps ==
    ASSUME IInv, NEW v \in Volumes, CommitReloadFails(v)
    PROVE  IInv'
  <1>0. /\ TypeOK /\ ChainInv /\ JournalInv /\ SourceInv /\ CensusInv /\ DownInv
        /\ XidInv /\ CommitInv /\ SessionInv /\ StartupInv
        /\ NoVolume \notin Volumes /\ MaxXid \in Nat /\ MaxRecords \in Nat
        /\ session \in [Volumes -> SessionType] /\ commit \in CommitType
        /\ phase \in [Volumes -> Phases] /\ Device \in Nat /\ Device \in 1 .. MaxXid
    BY Parts
  <1>1. /\ UNCHANGED <<device, journal, up, latched, ckptXid, pins, unapplied, commit,
                       reader, boot, census>>
        /\ commit = Idle /\ commit.vol = NoVolume /\ ~latched /\ session[v].pending = <<>>
    BY IdleTyped DEF CommitReloadFails
  <1>2. /\ up /\ (v \in boot => phase[v] = "replay") /\ (v \notin boot => boot = {})
        /\ v \in boot => phase[v] # "startup"
    BY <1>0
    DEF CommitReloadFails, HostServing, MutationGateFree, DownInv, StartupInv, BootPhases
  <1>3. /\ session' \in [Volumes -> SessionType]
        /\ session'[v].pending = <<>> /\ session'[v].xid = session[v].xid
        /\ \A w \in Volumes \ {v} : session'[w] = session[w]
    BY <1>0, <1>1 DEF CommitReloadFails, SessionType
  <1>4. /\ phase' \in [Volumes -> Phases]
        /\ phase'[v] = IF v \in boot THEN "degraded" ELSE "serving"
        /\ \A w \in Volumes \ {v} : phase'[w] = phase[w]
    BY <1>0 DEF CommitReloadFails, AfterFailure, Phases
  <1>5. /\ Device' = Device /\ ckpt' = ckpt /\ wal' = wal
        /\ \A w \in Volumes : Held(w)' = Held(w)
    BY <1>1 DEF device, journal, Device, Held, Current
  <1>a. TypeOK'
    BY <1>0, <1>1, <1>3, <1>4 DEF TypeOK, device, journal, SessionType
  <1>b. ChainInv' /\ JournalInv' /\ SourceInv'
    BY <1>1, DeviceAndJournalKept
  <1>c. CensusInv'
    BY <1>1, <1>4, CensusKept
  <1>d. DownInv'
    BY <1>1, <1>2 DEF DownInv
  <1>e. XidInv'
    BY <1>0, <1>1, <1>3, <1>5 DEF XidInv, device
  <1>f. CommitInv'
    BY <1>0, <1>1 DEF CommitInv
  <1>g. SessionInv'
    BY <1>0, <1>1, <1>3, <1>4, <1>5 DEF SessionInv, Settled, Overlay
  <1>h. StartupInv'
    <2>1. \A w \in Volumes : w \in boot => session'[w].xid # 0
      BY <1>0, <1>3 DEF StartupInv
    <2>2. QED
      BY <1>0, <1>1, <1>2, <1>4, <1>5, <2>1, StartupKept, OneAtATime DEF BootPhases, TypeOK
  <1> QED
    BY <1>a, <1>b, <1>c, <1>d, <1>e, <1>f, <1>g, <1>h DEF IInv

\* DeferPublication leaves the whole overlay for a later drain, on the newest
\* checkpoint and with the volume marked as owing.
LEMMA DeferPublicationKeeps ==
    ASSUME IInv, NEW v \in Volumes, DeferPublication(v)
    PROVE  IInv'
  <1>0. /\ TypeOK /\ ChainInv /\ JournalInv /\ SourceInv /\ CensusInv /\ DownInv
        /\ XidInv /\ CommitInv /\ SessionInv /\ StartupInv
        /\ NoVolume \notin Volumes /\ MaxXid \in Nat /\ MaxRecords \in Nat
        /\ session \in [Volumes -> SessionType] /\ commit \in CommitType
        /\ phase \in [Volumes -> Phases] /\ Device \in Nat /\ Device \in 1 .. MaxXid
    BY Parts
  <1>1. /\ UNCHANGED <<device, journal, up, latched, ckptXid, pins, unapplied, session,
                       reader, boot, phase, census>>
        /\ commit' = Idle /\ commit'.vol = NoVolume /\ commit'.stage = "idle"
        /\ commit.vol = v /\ commit.stage = "accepted" /\ commit.kind = "defer"
        /\ commit # Idle
    BY <1>0, IdleTyped DEF DeferPublication, host
  <1>2. /\ up /\ ~latched /\ boot = {} /\ session[v].xid = Device /\ Overlay(v)
    BY <1>0, <1>1 DEF CommitInv, DownInv, SessionInv
  <1>3. session[v].pending # <<>> => unapplied[v]
    <2>1. /\ session[v].pending \in Seq(1 .. MaxRecords) /\ Len(wal[v]) \in Nat /\ Held(v) \in Nat
          /\ Len(session[v].pending) \in Nat
      BY <1>0, TypedFacts
    <2>2. session[v].pending # <<>> => Len(session[v].pending) # 0
      BY <2>1, EmptySeq
    <2>3. QED
      BY <1>0, <1>2, <2>1, <2>2 DEF Overlay, CensusInv
  <1>5. /\ Device' = Device /\ ckpt' = ckpt /\ wal' = wal
        /\ \A w \in Volumes : Held(w)' = Held(w)
    BY <1>1 DEF device, journal, Device, Held, Current
  <1>a. TypeOK'
    BY <1>0, <1>1, IdleTyped DEF TypeOK, device, journal, CommitType
  <1>b. ChainInv' /\ JournalInv' /\ SourceInv'
    BY <1>1, DeviceAndJournalKept
  <1>c. CensusInv'
    BY <1>1, CensusKept
  <1>d. DownInv'
    BY <1>1, <1>2 DEF DownInv
  <1>e. XidInv'
    BY <1>0, <1>1, <1>5 DEF XidInv, device
  <1>f. CommitInv'
    BY <1>1 DEF CommitInv
  <1>g. SessionInv'
    BY <1>0, <1>1, <1>2, <1>3, <1>5 DEF SessionInv, Settled, Overlay
  <1>h. StartupInv'
    BY <1>0, <1>1, <1>5 DEF StartupInv, BootPhases
  <1> QED
    BY <1>a, <1>b, <1>c, <1>d, <1>e, <1>f, <1>g, <1>h DEF IInv

\* NothingToCommit ends a commit whose volume has nothing unpublished.
LEMMA NothingToCommitKeeps ==
    ASSUME IInv, NEW v \in Volumes, NothingToCommit(v)
    PROVE  IInv'
  <1>0. /\ TypeOK /\ ChainInv /\ JournalInv /\ SourceInv /\ CensusInv /\ DownInv
        /\ XidInv /\ CommitInv /\ SessionInv /\ StartupInv
        /\ NoVolume \notin Volumes /\ MaxXid \in Nat /\ MaxRecords \in Nat
        /\ session \in [Volumes -> SessionType] /\ commit \in CommitType
        /\ phase \in [Volumes -> Phases] /\ Device \in Nat /\ Device \in 1 .. MaxXid
    BY Parts
  <1>1. /\ UNCHANGED <<device, journal, up, latched, pins, unapplied, session, reader,
                       boot, census>>
        /\ commit' = Idle /\ commit'.vol = NoVolume /\ commit'.stage = "idle"
        /\ commit.vol = v /\ commit.stage # "published" /\ commit.stage # "idle"
        /\ commit # Idle /\ session[v].pending = <<>>
    BY <1>0, IdleTyped DEF NothingToCommit, ReadyToPublish
  <1>2. /\ up /\ ~latched /\ session[v].xid = Device /\ Overlay(v)
        /\ v \in boot => phase[v] = "replay"
        /\ v \notin boot => boot = {}
    BY <1>0, <1>1 DEF CommitInv, DownInv, SessionInv
  <1>3. Held(v) = Len(wal[v])
    <2>1. Len(session[v].pending) = 0
      BY <1>1
    <2>2. Held(v) \in Nat /\ Len(wal[v]) \in Nat
      BY <1>0, TypedFacts
    <2>3. QED
      BY <1>2, <2>1, <2>2 DEF Overlay
  <1>4. ckptXid' = Device
    <2>1. ckptXid = Device
      BY <1>0, <1>1, <1>2 DEF XidInv
    <2>2. Max({Device, Device}) = Device
      BY <1>0, MaxOfTwo
    <2>3. QED
      BY <1>2, <2>1, <2>2 DEF NothingToCommit
  <1>5. /\ Device' = Device /\ ckpt' = ckpt /\ wal' = wal
        /\ \A w \in Volumes : Held(w)' = Held(w)
    BY <1>1 DEF device, journal, Device, Held, Current
  <1>6. /\ phase' \in [Volumes -> Phases]
        /\ phase'[v] = "published"
        /\ \A w \in Volumes \ {v} : phase'[w] = phase[w]
    BY <1>0 DEF NothingToCommit, Phases
  <1>a. TypeOK'
    BY <1>0, <1>1, <1>4, <1>6, IdleTyped DEF TypeOK, device, journal, CommitType
  <1>b. ChainInv' /\ JournalInv' /\ SourceInv'
    BY <1>1, DeviceAndJournalKept
  <1>c. CensusInv'
    BY <1>1, <1>6, CensusKept
  <1>d. DownInv'
    BY <1>1, <1>2 DEF DownInv
  <1>e. XidInv'
    BY <1>0, <1>1, <1>4, <1>5 DEF XidInv, device
  <1>f. CommitInv'
    BY <1>1 DEF CommitInv
  <1>g. SessionInv'
    BY <1>0, <1>1, <1>2, <1>5, <1>6 DEF SessionInv, Settled, Overlay
  <1>h. StartupInv'
    <2>1. \A w \in boot : session'[w].xid # 0
      BY <1>0, <1>1 DEF StartupInv, TypeOK
    <2>2. QED
      BY <1>0, <1>1, <1>2, <1>3, <1>5, <1>6, <2>1, StartupKept, OneAtATime DEF BootPhases
  <1> QED
    BY <1>a, <1>b, <1>c, <1>d, <1>e, <1>f, <1>g, <1>h DEF IInv

-----------------------------------------------------------------------------
(* The host's steps.                                                       *)

\* A watermark that rises, the durable one over published records only and the
\* cleanup one no further than the durable one, keeps what the device and the
\* journals owe each other.
LEMMA WatermarksRise ==
    ASSUME IInv, UNCHANGED <<device, wal>>,
           durable' \in [Volumes -> 0 .. MaxRecords],
           cleaned' \in [Volumes -> 0 .. MaxRecords],
           \A w \in Volumes : cleaned[w] <= cleaned'[w]
                              /\ cleaned'[w] <= durable'[w] /\ durable'[w] <= Held(w)
    PROVE  ChainInv' /\ JournalInv' /\ SourceInv'
  <1>0. /\ TypeOK /\ ChainInv /\ JournalInv /\ SourceInv /\ MaxRecords \in Nat
    BY Parts
  <1>1. /\ Device' = Device /\ ckpt' = ckpt /\ wal' = wal /\ floor' = floor
        /\ \A w \in Volumes : Held(w)' = Held(w)
    BY DEF device, Device, Held, Current
  <1>2. ChainInv'
    BY <1>0, <1>1 DEF ChainInv
  <1>3. JournalInv'
    BY <1>0, <1>1 DEF JournalInv
  <1>4. SourceInv'
    <2>1. ASSUME NEW w \in Volumes, NEW i \in cleaned'[w] + 1 .. Len(wal[w])
          PROVE  i \in cleaned[w] + 1 .. Len(wal[w])
      <3>1. /\ cleaned[w] \in Int /\ cleaned'[w] \in Int /\ Len(wal[w]) \in Int
        BY <1>0, TypedFacts
      <3>2. cleaned[w] <= cleaned'[w]
        OBVIOUS
      <3>3. QED
        BY <2>1, <3>1, <3>2
    <2>2. QED
      BY <1>0, <1>1, <2>1 DEF SourceInv
  <1>5. QED
    BY <1>2, <1>3, <1>4

\* Nor does a rising cleanup watermark need a pin that is not held.
LEMMA CensusOfRisen ==
    ASSUME IInv, UNCHANGED <<device, wal, up, pins, unapplied>>,
           cleaned' \in [Volumes -> 0 .. MaxRecords],
           \A w \in Volumes : cleaned[w] <= cleaned'[w],
           \A w \in Volumes : phase'[w] = "refresh" => census'[w] = Census(w)'
    PROVE  CensusInv'
  <1>0. /\ TypeOK /\ CensusInv /\ MaxRecords \in Nat
    BY Parts
  <1>1. /\ Device' = Device /\ ckpt' = ckpt /\ wal' = wal
        /\ \A w \in Volumes : Held(w)' = Held(w)
    BY DEF device, Device, Held, Current
  <1>2. ASSUME NEW w \in Volumes, NEW i \in cleaned'[w] + 1 .. Len(wal[w])
        PROVE  i \in cleaned[w] + 1 .. Len(wal[w])
    <2>1. /\ cleaned[w] \in Int /\ cleaned'[w] \in Int /\ Len(wal[w]) \in Int
      BY <1>0, TypedFacts
    <2>2. cleaned[w] <= cleaned'[w]
      OBVIOUS
    <2>3. QED
      BY <1>2, <2>1, <2>2
  <1>3. QED
    BY <1>0, <1>1, <1>2 DEF CensusInv

\* A step of a volume's host that moves its phase, its watermarks and perhaps
\* the coordinator's census, while no commit of the volume is under way.
LEMMA HostStepKeeps ==
    ASSUME IInv, NEW v \in Volumes,
           UNCHANGED <<device, wal, up, latched, ckptXid, session, commit, reader, boot>>,
           durable' \in [Volumes -> 0 .. MaxRecords],
           cleaned' \in [Volumes -> 0 .. MaxRecords],
           pins' \in [Volumes -> SUBSET (1 .. MaxXid)],
           unapplied' \in [Volumes -> BOOLEAN],
           census' \in [Volumes -> [pins : SUBSET (1 .. MaxXid), unapplied : BOOLEAN]],
           phase' \in [Volumes -> Phases],
           \A w \in Volumes \ {v} : phase'[w] = phase[w] /\ unapplied'[w] = unapplied[w],
           unapplied' = unapplied \/ (commit = Idle /\ (Held(v) < Len(wal[v]) => unapplied'[v])),
           up, commit.vol # v, phase[v] # "degraded",
           phase'[v] \in BootPhases => v \in boot,
           v \in boot => /\ phase'[v] \notin {"off", "serving"}
                         /\ \A w \in boot \ {v} : phase[w] = "startup",
           v \notin boot =>
             /\ phase'[v] = "published" => Held(v) = Len(wal[v])
             /\ boot = {} \/ phase'[v] \in {"serving", "degraded"}
    PROVE  TypeOK' /\ DownInv' /\ XidInv' /\ CommitInv' /\ SessionInv' /\ StartupInv'
  <1>0. /\ TypeOK /\ ChainInv /\ JournalInv /\ SourceInv /\ CensusInv /\ DownInv
        /\ XidInv /\ CommitInv /\ SessionInv /\ StartupInv
        /\ NoVolume \notin Volumes /\ MaxXid \in Nat /\ MaxRecords \in Nat
        /\ session \in [Volumes -> SessionType] /\ commit \in CommitType
        /\ phase \in [Volumes -> Phases] /\ Device \in Nat /\ Device \in 1 .. MaxXid
    BY Parts
  <1>1. /\ Device' = Device /\ ckpt' = ckpt /\ wal' = wal /\ floor' = floor
        /\ \A w \in Volumes : Held(w)' = Held(w)
    BY DEF device, Device, Held, Current
  <1>2. TypeOK'
    BY <1>0 DEF TypeOK, device
  <1>3. DownInv' /\ XidInv'
    BY <1>0, <1>1 DEF DownInv, XidInv
  <1>4. CommitInv'
    <2>1. CASE commit = Idle
      BY <2>1, IdleTyped DEF CommitInv
    <2>2. CASE commit # Idle
      BY <1>0, <1>1, <2>2 DEF CommitInv, CommitType
    <2>3. QED
      BY <2>1, <2>2
  <1>5. SessionInv'
    <2>1. ASSUME NEW w \in Volumes
          PROVE  Settled(w)' => Len(ckpt'[session'[w].xid][w]) = Held(w)'
      BY <1>0, <1>1, <2>1 DEF SessionInv, Settled
    <2>2. ASSUME NEW w \in Volumes, ~latched', commit'.vol # w, session'[w].pending # <<>>
          PROVE  unapplied'[w] /\ session'[w].xid = Device' /\ Overlay(w)' /\ boot' = {}
      <3>1. unapplied[w] /\ session[w].xid = Device /\ Overlay(w) /\ boot = {}
        BY <1>0, <2>2 DEF SessionInv
      <3>2. Overlay(w)'
        BY <1>1, <3>1 DEF Overlay
      <3>3. unapplied'[w]
        <4>1. CASE unapplied' = unapplied
          BY <3>1, <4>1
        <4>2. CASE w # v
          BY <3>1, <4>2
        <4>3. CASE w = v /\ (Held(v) < Len(wal[v]) => unapplied'[v])
          <5>1. /\ session[v].pending \in Seq(1 .. MaxRecords) /\ Len(wal[v]) \in Nat
                /\ Held(v) \in Nat /\ Len(session[v].pending) \in Nat
            BY <1>0, TypedFacts
          <5>2. Len(session[v].pending) # 0
            BY <2>2, <4>3, <5>1, EmptySeq
          <5>3. QED
            BY <3>1, <4>3, <5>1, <5>2 DEF Overlay
        <4>4. QED
          BY <4>1, <4>2, <4>3
      <3>4. QED
        BY <1>1, <3>1, <3>2, <3>3
    <2>3. ASSUME NEW w \in Volumes, commit'.vol = w, commit'.stage # "published"
          PROVE  Overlay(w)'
      BY <1>0, <1>1, <2>3 DEF SessionInv, Overlay
    <2>4. QED
      BY <2>1, <2>2, <2>3 DEF SessionInv
  <1>6. StartupInv'
    <2>1. \A w \in boot : session'[w].xid # 0
      BY <1>0 DEF StartupInv, TypeOK
    <2>2. QED
      BY <1>0, <1>1, <2>1, StartupKept
  <1>7. QED
    BY <1>2, <1>3, <1>4, <1>5, <1>6

\* A volume whose journal is being finalized has no commit under way.
LEMMA Finalizing ==
    ASSUME IInv, NEW v \in Volumes, phase[v] \in {"published", "marked", "cleaned", "refresh"}
    PROVE  /\ up /\ commit.vol # v /\ phase[v] # "degraded"
           /\ v \in boot => \A w \in boot \ {v} : phase[w] = "startup"
           /\ v \notin boot => boot = {}
  <1>1. DownInv /\ CommitInv /\ StartupInv /\ NoVolume \notin Volumes
    BY Parts
  <1>2. up /\ commit.vol # v /\ phase[v] # "degraded"
    BY <1>1 DEF DownInv, CommitInv
  <1>3. v \in boot => \A w \in boot \ {v} : phase[w] = "startup"
    BY OneAtATime
  <1>4. v \notin boot => boot = {}
    BY <1>1 DEF StartupInv
  <1>5. QED
    BY <1>2, <1>3, <1>4

\* The sources of a journal are checkpoint numbers.
LEMMA SourcesTyped ==
    ASSUME TypeOK, NEW v \in Volumes, NEW n \in Nat
    PROVE  Sources(wal[v], n) \subseteq 1 .. MaxXid
  <1>1. wal[v] \in Seq(1 .. MaxXid) /\ Len(wal[v]) \in Nat
    BY TypedFacts
  <1>2. \A i \in n + 1 .. Len(wal[v]) : i \in 1 .. Len(wal[v])
    BY <1>1
  <1>3. QED
    BY <1>1, <1>2, ElementOfSeq DEF Sources

\* FinalizeFails forgets the census it has read, never the journal.
LEMMA FinalizeFailsKeeps ==
    ASSUME IInv, NEW v \in Volumes, FinalizeFails(v)
    PROVE  IInv'
  <1>0. /\ TypeOK /\ JournalInv /\ CensusInv /\ CommitInv /\ StartupInv /\ DownInv
        /\ phase \in [Volumes -> Phases] /\ MaxRecords \in Nat
    BY Parts
  <1>1. /\ UNCHANGED <<device, journal, up, latched, ckptXid, pins, unapplied, session,
                       commit, reader, boot, wal, durable, cleaned>>
        /\ census' \in [Volumes -> [pins : SUBSET (1 .. MaxXid), unapplied : BOOLEAN]]
        /\ \A w \in Volumes \ {v} : census'[w] = census[w]
    BY <1>0 DEF FinalizeFails, coordinator, journal, NoCensus, TypeOK
  <1>t. /\ durable \in [Volumes -> 0 .. MaxRecords] /\ cleaned \in [Volumes -> 0 .. MaxRecords]
        /\ pins \in [Volumes -> SUBSET (1 .. MaxXid)] /\ unapplied \in [Volumes -> BOOLEAN]
        /\ census \in [Volumes -> [pins : SUBSET (1 .. MaxXid), unapplied : BOOLEAN]]
        /\ boot \subseteq Volumes
        /\ \A w \in Volumes : durable[w] \in Nat /\ cleaned[w] \in Nat
    BY <1>0, TypedFacts DEF TypeOK
  <1>p. /\ phase' \in [Volumes -> Phases] 
        /\ phase'[v] = IF v \in boot THEN "degraded" ELSE "serving"
        /\ \A w \in Volumes \ {v} : phase'[w] = phase[w]
    BY <1>0 DEF FinalizeFails, Phases, AfterFailure
  <1>f. /\ up /\ commit.vol # v /\ phase[v] # "degraded"
        /\ v \in boot => \A w \in boot \ {v} : phase[w] = "startup"
        /\ v \notin boot => boot = {}
    BY Finalizing DEF FinalizeFails
  <1>b. ChainInv' /\ JournalInv' /\ SourceInv'
    BY <1>1, DeviceAndJournalKept
  <1>c. CensusInv'
    <2>1. ASSUME NEW w \in Volumes, phase'[w] = "refresh"
          PROVE  census'[w] = Census(w)'
      <3>1. CASE w = v
        BY <1>1, <1>p, <2>1, <3>1 DEF Census, Sources, HasUnappliedAcceptedWork
      <3>2. CASE w # v
        <4>1. Census(w)' = Census(w) /\ census'[w] = census[w] /\ phase'[w] = phase[w]
          BY <1>1, <1>p, <3>2 DEF Census, Sources, HasUnappliedAcceptedWork
        <4>2. QED
          BY <1>0, <2>1, <4>1 DEF CensusInv
      <3>3. QED
        BY <3>1, <3>2
    <2>2. QED
      BY <1>1, <1>t, <2>1, CensusOfRisen
  <1>d. TypeOK' /\ DownInv' /\ XidInv' /\ CommitInv' /\ SessionInv' /\ StartupInv'
    BY <1>0, <1>1, <1>t, <1>p, <1>f, HostStepKeeps DEF BootPhases
  <1> QED
    BY <1>b, <1>c, <1>d DEF IInv

\* LoadCensus reads the journal as it stands, under the volume's gate.
LEMMA LoadCensusKeeps ==
    ASSUME IInv, NEW v \in Volumes, LoadCensus(v)
    PROVE  IInv'
  <1>0. /\ TypeOK /\ JournalInv /\ CensusInv /\ CommitInv /\ StartupInv /\ DownInv
        /\ phase \in [Volumes -> Phases] /\ MaxRecords \in Nat
    BY Parts
  <1>t. /\ durable \in [Volumes -> 0 .. MaxRecords] /\ cleaned \in [Volumes -> 0 .. MaxRecords]
        /\ pins \in [Volumes -> SUBSET (1 .. MaxXid)] /\ unapplied \in [Volumes -> BOOLEAN]
        /\ census \in [Volumes -> [pins : SUBSET (1 .. MaxXid), unapplied : BOOLEAN]]
        /\ boot \subseteq Volumes
        /\ \A w \in Volumes : durable[w] \in Nat /\ cleaned[w] \in Nat
    BY <1>0, TypedFacts DEF TypeOK
  <1>1. /\ UNCHANGED <<device, journal, up, latched, ckptXid, pins, unapplied, session,
                       commit, reader, boot, wal, durable, cleaned>>
        /\ census' \in [Volumes -> [pins : SUBSET (1 .. MaxXid), unapplied : BOOLEAN]]
        /\ \A w \in Volumes \ {v} : census'[w] = census[w]
        /\ census'[v] = Census(v)
    <2>1. Census(v) \in [pins : SUBSET (1 .. MaxXid), unapplied : BOOLEAN]
      BY <1>0, <1>t, SourcesTyped DEF Census, HasUnappliedAcceptedWork
    <2>2. QED
      BY <1>0, <1>t, <2>1 DEF LoadCensus, coordinator, journal
  <1>p. /\ phase' \in [Volumes -> Phases] /\ phase'[v] = "refresh"
        /\ \A w \in Volumes \ {v} : phase'[w] = phase[w]
    BY <1>0 DEF LoadCensus, Phases
  <1>f. /\ up /\ commit.vol # v /\ phase[v] # "degraded"
        /\ v \in boot => \A w \in boot \ {v} : phase[w] = "startup"
        /\ v \notin boot => boot = {}
    BY Finalizing DEF LoadCensus
  <1>b. ChainInv' /\ JournalInv' /\ SourceInv'
    BY <1>1, DeviceAndJournalKept
  <1>c. CensusInv'
    <2>1. ASSUME NEW w \in Volumes, phase'[w] = "refresh"
          PROVE  census'[w] = Census(w)'
      <3>1. CASE w = v
        BY <1>1, <1>p, <2>1, <3>1 DEF Census, Sources, HasUnappliedAcceptedWork
      <3>2. CASE w # v
        <4>1. Census(w)' = Census(w) /\ census'[w] = census[w] /\ phase'[w] = phase[w]
          BY <1>1, <1>p, <3>2 DEF Census, Sources, HasUnappliedAcceptedWork
        <4>2. QED
          BY <1>0, <2>1, <4>1 DEF CensusInv
      <3>3. QED
        BY <3>1, <3>2
    <2>2. QED
      BY <1>1, <1>t, <2>1, CensusOfRisen
  <1>d. TypeOK' /\ DownInv' /\ XidInv' /\ CommitInv' /\ SessionInv' /\ StartupInv'
    BY <1>0, <1>1, <1>t, <1>p, <1>f, HostStepKeeps DEF BootPhases
  <1> QED
    BY <1>b, <1>c, <1>d DEF IInv

\* SkipReplay settles a volume whose journal owes nothing.
LEMMA SkipReplayKeeps ==
    ASSUME IInv, NEW v \in Volumes, SkipReplay(v)
    PROVE  IInv'
  <1>0. /\ TypeOK /\ JournalInv /\ CensusInv /\ CommitInv /\ StartupInv /\ DownInv
        /\ phase \in [Volumes -> Phases] /\ MaxRecords \in Nat
    BY Parts
  <1>t. /\ durable \in [Volumes -> 0 .. MaxRecords] /\ cleaned \in [Volumes -> 0 .. MaxRecords]
        /\ pins \in [Volumes -> SUBSET (1 .. MaxXid)] /\ unapplied \in [Volumes -> BOOLEAN]
        /\ census \in [Volumes -> [pins : SUBSET (1 .. MaxXid), unapplied : BOOLEAN]]
        /\ boot \subseteq Volumes
        /\ \A w \in Volumes : durable[w] \in Nat /\ cleaned[w] \in Nat
    BY <1>0, TypedFacts DEF TypeOK
  <1>1. /\ UNCHANGED <<device, journal, up, latched, ckptXid, pins, unapplied, session,
                       commit, reader, boot, census, wal, durable, cleaned>>
    BY DEF SkipReplay, coordinator, journal
  <1>p. /\ phase' \in [Volumes -> Phases] /\ phase'[v] = "settled"
        /\ \A w \in Volumes \ {v} : phase'[w] = phase[w]
    BY <1>0 DEF SkipReplay, Phases
  <1>f. /\ up /\ commit.vol # v /\ phase[v] = "startup" /\ v \in boot
        /\ \A w \in boot \ {v} : phase[w] = "startup"
    BY <1>0, VolumesAssumption DEF SkipReplay, StartupTurn, DownInv, CommitInv
  <1>b. ChainInv' /\ JournalInv' /\ SourceInv'
    BY <1>1, DeviceAndJournalKept
  <1>c. CensusInv'
    BY <1>1, <1>p, CensusKept
  <1>d. TypeOK' /\ DownInv' /\ XidInv' /\ CommitInv' /\ SessionInv' /\ StartupInv'
    BY <1>0, <1>1, <1>t, <1>p, <1>f, HostStepKeeps DEF BootPhases
  <1> QED
    BY <1>b, <1>c, <1>d DEF IInv

\* ReplayFails leaves the journal for the next start.
LEMMA ReplayFailsKeeps ==
    ASSUME IInv, NEW v \in Volumes, ReplayFails(v)
    PROVE  IInv'
  <1>0. /\ TypeOK /\ JournalInv /\ CensusInv /\ CommitInv /\ StartupInv /\ DownInv
        /\ phase \in [Volumes -> Phases] /\ MaxRecords \in Nat
    BY Parts
  <1>t. /\ durable \in [Volumes -> 0 .. MaxRecords] /\ cleaned \in [Volumes -> 0 .. MaxRecords]
        /\ pins \in [Volumes -> SUBSET (1 .. MaxXid)] /\ unapplied \in [Volumes -> BOOLEAN]
        /\ census \in [Volumes -> [pins : SUBSET (1 .. MaxXid), unapplied : BOOLEAN]]
        /\ boot \subseteq Volumes
        /\ \A w \in Volumes : durable[w] \in Nat /\ cleaned[w] \in Nat
    BY <1>0, TypedFacts DEF TypeOK
  <1>1. /\ UNCHANGED <<device, journal, up, latched, ckptXid, pins, unapplied, session,
                       commit, reader, boot, census, wal, durable, cleaned>>
    BY DEF ReplayFails, coordinator, journal
  <1>p. /\ phase' \in [Volumes -> Phases] /\ phase'[v] = "degraded"
        /\ \A w \in Volumes \ {v} : phase'[w] = phase[w]
    BY <1>0 DEF ReplayFails, Phases
  <1>f. /\ up /\ commit.vol # v /\ phase[v] # "degraded" /\ v \in boot
        /\ \A w \in boot \ {v} : phase[w] = "startup"
    <2>1. CASE StartupTurn(v)
      BY <1>0, <2>1, VolumesAssumption DEF StartupTurn, DownInv, CommitInv
    <2>2. CASE v \in boot /\ phase[v] \in {"proved", "replay"} /\ commit = Idle
      <3>1. \A w \in boot \ {v} : phase[w] = "startup"
        BY <2>2, OneAtATime
      <3>2. QED
        BY <1>0, <2>2, <3>1, IdleTyped, VolumesAssumption DEF DownInv
    <2>3. QED
      BY <2>1, <2>2 DEF ReplayFails
  <1>b. ChainInv' /\ JournalInv' /\ SourceInv'
    BY <1>1, DeviceAndJournalKept
  <1>c. CensusInv'
    BY <1>1, <1>p, CensusKept
  <1>d. TypeOK' /\ DownInv' /\ XidInv' /\ CommitInv' /\ SessionInv' /\ StartupInv'
    BY <1>0, <1>1, <1>t, <1>p, <1>f, HostStepKeeps DEF BootPhases
  <1> QED
    BY <1>b, <1>c, <1>d DEF IInv

\* MarkCleaned raises the cleanup watermark to the durable one.
LEMMA MarkCleanedKeeps ==
    ASSUME IInv, NEW v \in Volumes, MarkCleaned(v)
    PROVE  IInv'
  <1>0. /\ TypeOK /\ JournalInv /\ CensusInv /\ CommitInv /\ StartupInv /\ DownInv
        /\ phase \in [Volumes -> Phases] /\ MaxRecords \in Nat
    BY Parts
  <1>t. /\ durable \in [Volumes -> 0 .. MaxRecords] /\ cleaned \in [Volumes -> 0 .. MaxRecords]
        /\ pins \in [Volumes -> SUBSET (1 .. MaxXid)] /\ unapplied \in [Volumes -> BOOLEAN]
        /\ census \in [Volumes -> [pins : SUBSET (1 .. MaxXid), unapplied : BOOLEAN]]
        /\ boot \subseteq Volumes
        /\ \A w \in Volumes : durable[w] \in Nat /\ cleaned[w] \in Nat
    BY <1>0, TypedFacts DEF TypeOK
  <1>1. /\ UNCHANGED <<device, up, latched, ckptXid, pins, unapplied, session,
                       commit, reader, boot, census, wal, durable>>
        /\ cleaned' \in [Volumes -> 0 .. MaxRecords]
        /\ cleaned'[v] = durable[v]
        /\ \A w \in Volumes \ {v} : cleaned'[w] = cleaned[w]
    BY <1>t DEF MarkCleaned, coordinator
  <1>2. \A w \in Volumes : cleaned[w] <= cleaned'[w] /\ cleaned'[w] <= durable[w]
                           /\ durable[w] <= Held(w)
    <2>1. \A w \in Volumes : cleaned[w] <= durable[w] /\ durable[w] <= Held(w)
      BY <1>0 DEF JournalInv
    <2>2. \A w \in Volumes : cleaned'[w] = cleaned[w] \/ cleaned'[w] = durable[w]
      BY <1>1
    <2>3. QED
      BY <1>t, <2>1, <2>2
  <1>p. /\ phase' \in [Volumes -> Phases] /\ phase'[v] = "cleaned"
        /\ \A w \in Volumes \ {v} : phase'[w] = phase[w]
    BY <1>0 DEF MarkCleaned, Phases
  <1>f. /\ up /\ commit.vol # v /\ phase[v] # "degraded"
        /\ v \in boot => \A w \in boot \ {v} : phase[w] = "startup"
        /\ v \notin boot => boot = {}
    BY Finalizing DEF MarkCleaned
  <1>b. ChainInv' /\ JournalInv' /\ SourceInv'
    BY <1>1, <1>2, <1>t, WatermarksRise
  <1>c. CensusInv'
    <2>1. ASSUME NEW w \in Volumes, phase'[w] = "refresh"
          PROVE  census'[w] = Census(w)'
      <3>1. CASE w = v
        BY <1>1, <1>p, <2>1, <3>1 DEF Census, Sources, HasUnappliedAcceptedWork
      <3>2. CASE w # v
        <4>1. Census(w)' = Census(w) /\ census'[w] = census[w] /\ phase'[w] = phase[w]
          BY <1>1, <1>p, <3>2 DEF Census, Sources, HasUnappliedAcceptedWork
        <4>2. QED
          BY <1>0, <2>1, <4>1 DEF CensusInv
      <3>3. QED
        BY <3>1, <3>2
    <2>2. QED
      BY <1>1, <1>2, <1>t, <2>1, CensusOfRisen
  <1>d. TypeOK' /\ DownInv' /\ XidInv' /\ CommitInv' /\ SessionInv' /\ StartupInv'
    BY <1>0, <1>1, <1>t, <1>p, <1>f, HostStepKeeps DEF BootPhases
  <1> QED
    BY <1>b, <1>c, <1>d DEF IInv

\* CleanupDurableJournalPrefix raises the cleanup watermark while serving.
LEMMA CleanupDurableJournalPrefixKeeps ==
    ASSUME IInv, NEW v \in Volumes, CleanupDurableJournalPrefix(v)
    PROVE  IInv'
  <1>0. /\ TypeOK /\ JournalInv /\ CensusInv /\ CommitInv /\ StartupInv /\ DownInv
        /\ phase \in [Volumes -> Phases] /\ MaxRecords \in Nat
    BY Parts
  <1>t. /\ durable \in [Volumes -> 0 .. MaxRecords] /\ cleaned \in [Volumes -> 0 .. MaxRecords]
        /\ pins \in [Volumes -> SUBSET (1 .. MaxXid)] /\ unapplied \in [Volumes -> BOOLEAN]
        /\ census \in [Volumes -> [pins : SUBSET (1 .. MaxXid), unapplied : BOOLEAN]]
        /\ boot \subseteq Volumes
        /\ \A w \in Volumes : durable[w] \in Nat /\ cleaned[w] \in Nat
    BY <1>0, TypedFacts DEF TypeOK
  <1>1. /\ UNCHANGED <<device, up, latched, ckptXid, pins, unapplied, session,
                       commit, reader, boot, census, wal, durable>>
        /\ cleaned' \in [Volumes -> 0 .. MaxRecords]
        /\ cleaned'[v] = durable[v]
        /\ \A w \in Volumes \ {v} : cleaned'[w] = cleaned[w]
    BY <1>t DEF CleanupDurableJournalPrefix, coordinator
  <1>2. \A w \in Volumes : cleaned[w] <= cleaned'[w] /\ cleaned'[w] <= durable[w]
                           /\ durable[w] <= Held(w)
    <2>1. \A w \in Volumes : cleaned[w] <= durable[w] /\ durable[w] <= Held(w)
      BY <1>0 DEF JournalInv
    <2>2. \A w \in Volumes : cleaned'[w] = cleaned[w] \/ cleaned'[w] = durable[w]
      BY <1>1
    <2>3. QED
      BY <1>t, <2>1, <2>2
  <1>p. /\ phase' \in [Volumes -> Phases] /\ phase'[v] = "cleaned"
        /\ \A w \in Volumes \ {v} : phase'[w] = phase[w]
    BY <1>0 DEF CleanupDurableJournalPrefix, Phases
  <1>f. up /\ commit.vol # v /\ phase[v] # "degraded" /\ boot = {}
    BY DEF CleanupDurableJournalPrefix, HostServing, MutationGateFree
  <1>b. ChainInv' /\ JournalInv' /\ SourceInv'
    BY <1>1, <1>2, <1>t, WatermarksRise
  <1>c. CensusInv'
    <2>1. ASSUME NEW w \in Volumes, phase'[w] = "refresh"
          PROVE  census'[w] = Census(w)'
      <3>1. CASE w = v
        BY <1>1, <1>p, <2>1, <3>1 DEF Census, Sources, HasUnappliedAcceptedWork
      <3>2. CASE w # v
        <4>1. Census(w)' = Census(w) /\ census'[w] = census[w] /\ phase'[w] = phase[w]
          BY <1>1, <1>p, <3>2 DEF Census, Sources, HasUnappliedAcceptedWork
        <4>2. QED
          BY <1>0, <2>1, <4>1 DEF CensusInv
      <3>3. QED
        BY <3>1, <3>2
    <2>2. QED
      BY <1>1, <1>2, <1>t, <2>1, CensusOfRisen
  <1>d. TypeOK' /\ DownInv' /\ XidInv' /\ CommitInv' /\ SessionInv' /\ StartupInv'
    BY <1>0, <1>1, <1>t, <1>p, <1>f, HostStepKeeps DEF BootPhases
  <1> QED
    BY <1>b, <1>c, <1>d DEF IInv

\* What MarkDurable marks has been published: while serving the gate is held
\* from the publication on, and at startup the replay has just verified it.
LEMMA MarkedIsPublished ==
    ASSUME IInv, NEW v \in Volumes, MarkDurable(v)
    PROVE  Held(v) = Len(wal[v])
  <1>0. TypeOK /\ StartupInv
    BY Parts
  <1>1. CASE v \in boot
    <2>1. Missing(v, session[v].xid) = <<>>
      BY <1>1 DEF MarkDurable
    <2>2. session[v].xid \in 1 .. Device
      <3>1. session[v].xid # 0 /\ session[v].xid <= Device /\ session[v].xid \in Nat
            /\ Device \in Nat
        BY <1>0, <1>1, Parts, TypedFacts DEF StartupInv, XidInv
      <3>2. QED
        BY <3>1
    <2>3. QED
      BY <2>1, <2>2, Parts, MissingIsSuffix
  <1>2. CASE v \notin boot
    BY <1>0, <1>2 DEF MarkDurable, StartupInv
  <1>3. QED
    BY <1>1, <1>2

\* MarkDurable raises the durable watermark over published records only.
LEMMA MarkDurableKeeps ==
    ASSUME IInv, NEW v \in Volumes, MarkDurable(v)
    PROVE  IInv'
  <1>0. /\ TypeOK /\ JournalInv /\ CensusInv /\ CommitInv /\ StartupInv /\ DownInv
        /\ phase \in [Volumes -> Phases] /\ MaxRecords \in Nat
    BY Parts
  <1>t. /\ durable \in [Volumes -> 0 .. MaxRecords] /\ cleaned \in [Volumes -> 0 .. MaxRecords]
        /\ pins \in [Volumes -> SUBSET (1 .. MaxXid)] /\ unapplied \in [Volumes -> BOOLEAN]
        /\ census \in [Volumes -> [pins : SUBSET (1 .. MaxXid), unapplied : BOOLEAN]]
        /\ boot \subseteq Volumes
        /\ \A w \in Volumes : durable[w] \in Nat /\ cleaned[w] \in Nat
    BY <1>0, TypedFacts DEF TypeOK
  <1>f. /\ up /\ commit.vol # v /\ phase[v] # "degraded"
        /\ v \in boot => \A w \in boot \ {v} : phase[w] = "startup"
        /\ v \notin boot => boot = {}
    BY Finalizing DEF MarkDurable
  <1>3. Held(v) = Len(wal[v])
    BY MarkedIsPublished
  <1>1. /\ UNCHANGED <<device, up, latched, ckptXid, pins, unapplied, session,
                       commit, reader, boot, census, wal, cleaned>>
        /\ durable' \in [Volumes -> 0 .. MaxRecords]
        /\ durable'[v] = Len(wal[v])
        /\ \A w \in Volumes \ {v} : durable'[w] = durable[w]
    <2>1. Len(wal[v]) \in 0 .. MaxRecords
      BY <1>0, TypedFacts DEF JournalInv
    <2>2. QED
      BY <1>t, <2>1 DEF MarkDurable, coordinator
  <1>2. \A w \in Volumes : cleaned[w] <= cleaned'[w] /\ cleaned'[w] <= durable'[w]
                           /\ durable'[w] <= Held(w)
    <2>1. \A w \in Volumes : cleaned[w] \in Nat /\ durable[w] \in Nat /\ Held(w) \in Nat
      BY <1>0, TypedFacts
    <2>2. QED
      BY <1>0, <1>1, <1>3, <2>1 DEF JournalInv
  <1>p. /\ phase' \in [Volumes -> Phases] /\ phase'[v] = "marked"
        /\ \A w \in Volumes \ {v} : phase'[w] = phase[w]
    BY <1>0 DEF MarkDurable, Phases
  <1>b. ChainInv' /\ JournalInv' /\ SourceInv'
    BY <1>1, <1>2, <1>t, WatermarksRise
  <1>c. CensusInv'
    <2>1. ASSUME NEW w \in Volumes, phase'[w] = "refresh"
          PROVE  census'[w] = Census(w)'
      <3>1. CASE w = v
        BY <1>1, <1>p, <2>1, <3>1 DEF Census, Sources, HasUnappliedAcceptedWork
      <3>2. CASE w # v
        <4>1. Census(w)' = Census(w) /\ census'[w] = census[w] /\ phase'[w] = phase[w]
          BY <1>1, <1>p, <3>2 DEF Census, Sources, HasUnappliedAcceptedWork
        <4>2. QED
          BY <1>0, <2>1, <4>1 DEF CensusInv
      <3>3. QED
        BY <3>1, <3>2
    <2>2. QED
      BY <1>1, <1>2, <1>t, <2>1, CensusOfRisen
  <1>d. TypeOK' /\ DownInv' /\ XidInv' /\ CommitInv' /\ SessionInv' /\ StartupInv'
    BY <1>0, <1>1, <1>t, <1>p, <1>f, HostStepKeeps DEF BootPhases
  <1> QED
    BY <1>b, <1>c, <1>d DEF IInv

\* The journal's own census, taken while the volume's gate is held, covers the
\* journal: a volume with unpublished records has records above its mark.
LEMMA CensusRefreshed ==
    ASSUME IInv, NEW v \in Volumes, UNCHANGED <<device, wal, durable, up>>,
           cleaned' \in [Volumes -> 0 .. MaxRecords],
           pins' \in [Volumes -> SUBSET (1 .. MaxXid)],
           unapplied' \in [Volumes -> BOOLEAN],
           \A w \in Volumes \ {v} : /\ pins'[w] = pins[w] /\ unapplied'[w] = unapplied[w]
                                    /\ cleaned'[w] = cleaned[w]
                                    /\ phase'[w] = "refresh" => phase[w] = "refresh"
                                    /\ census'[w] = census[w],
           Sources(wal[v], cleaned'[v]) \subseteq pins'[v],
           HasUnappliedAcceptedWork(v) => unapplied'[v],
           phase'[v] # "refresh"
    PROVE  CensusInv'
  <1>0. TypeOK /\ JournalInv /\ CensusInv
    BY Parts
  <1>1. /\ Device' = Device /\ ckpt' = ckpt /\ wal' = wal
        /\ \A w \in Volumes : Held(w)' = Held(w)
    BY DEF device, Device, Held, Current
  <1>2. ASSUME NEW w \in Volumes, w # v
        PROVE  /\ up' => /\ \A i \in cleaned'[w] + 1 .. Len(wal'[w]) : wal'[w][i] \in pins'[w]
                         /\ Held(w)' < Len(wal'[w]) => unapplied'[w]
               /\ phase'[w] = "refresh" => census'[w] = Census(w)'
    <2>1. Census(w)' = Census(w)
      BY <1>2 DEF Census, Sources, HasUnappliedAcceptedWork
    <2>2. /\ pins'[w] = pins[w] /\ unapplied'[w] = unapplied[w] /\ cleaned'[w] = cleaned[w]
          /\ phase'[w] = "refresh" => phase[w] = "refresh"
          /\ census'[w] = census[w] /\ up' = up /\ Held(w)' = Held(w)
      BY <1>1, <1>2
    <2>3. /\ up => /\ \A i \in cleaned[w] + 1 .. Len(wal[w]) : wal[w][i] \in pins[w]
                   /\ Held(w) < Len(wal[w]) => unapplied[w]
          /\ phase[w] = "refresh" => census[w] = Census(w)
      BY <1>0, <1>2 DEF CensusInv
    <2>4. QED
      BY <1>1, <2>1, <2>2, <2>3
  <1>3. \A i \in cleaned'[v] + 1 .. Len(wal'[v]) : wal'[v][i] \in pins'[v]
    BY <1>1 DEF Sources
  <1>4. Held(v)' < Len(wal'[v]) => unapplied'[v]
    <2>1. durable[v] \in Nat /\ Held(v) \in Nat /\ Len(wal[v]) \in Nat /\ durable[v] <= Held(v)
      BY <1>0, TypedFacts DEF JournalInv
    <2>2. QED
      BY <1>1, <2>1 DEF HasUnappliedAcceptedWork
  <1>5. QED
    BY <1>2, <1>3, <1>4 DEF CensusInv

\* UpdatePins hands over a census that is still the journal's own.
LEMMA UpdatePinsKeeps ==
    ASSUME IInv, NEW v \in Volumes, UpdatePins(v)
    PROVE  IInv'
  <1>0. /\ TypeOK /\ JournalInv /\ CensusInv /\ CommitInv /\ StartupInv /\ DownInv
        /\ XidInv /\ SessionInv /\ ChainInv /\ SourceInv
        /\ phase \in [Volumes -> Phases] /\ MaxRecords \in Nat /\ NoVolume \notin Volumes
        /\ Device \in Nat /\ Device \in 1 .. MaxXid
    BY Parts
  <1>t. /\ durable \in [Volumes -> 0 .. MaxRecords] /\ cleaned \in [Volumes -> 0 .. MaxRecords]
        /\ pins \in [Volumes -> SUBSET (1 .. MaxXid)] /\ unapplied \in [Volumes -> BOOLEAN]
        /\ census \in [Volumes -> [pins : SUBSET (1 .. MaxXid), unapplied : BOOLEAN]]
        /\ boot \subseteq Volumes
        /\ \A w \in Volumes : durable[w] \in Nat /\ cleaned[w] \in Nat
    BY <1>0, TypedFacts DEF TypeOK
  <1>1. /\ UNCHANGED <<device, journal, wal, durable, cleaned, up, latched, ckptXid,
                       session, commit, reader, boot>>
        /\ commit = Idle
        /\ census[v] = Census(v)
    BY <1>0 DEF UpdatePins, journal, CensusInv
  <1>2. /\ pins' \in [Volumes -> SUBSET (1 .. MaxXid)] /\ unapplied' \in [Volumes -> BOOLEAN]
        /\ census' \in [Volumes -> [pins : SUBSET (1 .. MaxXid), unapplied : BOOLEAN]]
        /\ \A w \in Volumes \ {v} : /\ pins'[w] = pins[w] /\ unapplied'[w] = unapplied[w]
                                    /\ census'[w] = census[w]
        /\ pins'[v] = census[v].pins /\ unapplied'[v] = census[v].unapplied
    <2>1. census[v].pins \in SUBSET (1 .. MaxXid) /\ census[v].unapplied \in BOOLEAN
      BY <1>t
    <2>2. pins' \in [Volumes -> SUBSET (1 .. MaxXid)] /\ pins'[v] = census[v].pins
          /\ \A w \in Volumes \ {v} : pins'[w] = pins[w]
      BY <1>t, <2>1 DEF UpdatePins
    <2>3. unapplied' \in [Volumes -> BOOLEAN] /\ unapplied'[v] = census[v].unapplied
          /\ \A w \in Volumes \ {v} : unapplied'[w] = unapplied[w]
      BY <1>t, <2>1 DEF UpdatePins
    <2>4. /\ census' \in [Volumes -> [pins : SUBSET (1 .. MaxXid), unapplied : BOOLEAN]]
          /\ \A w \in Volumes \ {v} : census'[w] = census[w]
      BY <1>t DEF UpdatePins, NoCensus
    <2>5. QED
      BY <2>2, <2>3, <2>4
  <1>3. /\ Sources(wal[v], cleaned[v]) = pins'[v]
        /\ HasUnappliedAcceptedWork(v) => unapplied'[v]
    BY <1>1, <1>2 DEF Census
  <1>4. Held(v) < Len(wal[v]) => unapplied'[v]
    <2>1. durable[v] \in Nat /\ Held(v) \in Nat /\ Len(wal[v]) \in Nat /\ durable[v] <= Held(v)
      BY <1>0, TypedFacts DEF JournalInv
    <2>2. QED
      BY <1>3, <2>1 DEF HasUnappliedAcceptedWork
  <1>p. /\ phase' \in [Volumes -> Phases] 
        /\ phase'[v] = IF v \in boot THEN "settled" ELSE "serving"
        /\ \A w \in Volumes \ {v} : phase'[w] = phase[w]
    BY <1>0 DEF UpdatePins, Phases
  <1>f. /\ up /\ commit.vol # v /\ phase[v] # "degraded"
        /\ v \in boot => \A w \in boot \ {v} : phase[w] = "startup"
        /\ v \notin boot => boot = {}
    BY Finalizing DEF UpdatePins
  <1>b. ChainInv' /\ JournalInv' /\ SourceInv'
    BY <1>1, DeviceAndJournalKept
  <1>c. CensusInv'
    BY <1>1, <1>2, <1>3, <1>p, <1>t, CensusRefreshed
  <1>d. TypeOK' /\ DownInv' /\ XidInv' /\ CommitInv' /\ SessionInv' /\ StartupInv'
    BY <1>0, <1>1, <1>2, <1>4, <1>t, <1>p, <1>f, HostStepKeeps DEF BootPhases
  <1> QED
    BY <1>b, <1>c, <1>d DEF IInv

\* ReplayCleanPrefix drops the pins of what is durable, and no other.
LEMMA ReplayCleanPrefixKeeps ==
    ASSUME IInv, NEW v \in Volumes, ReplayCleanPrefix(v)
    PROVE  IInv'
  <1>0. /\ TypeOK /\ JournalInv /\ CensusInv /\ CommitInv /\ StartupInv /\ DownInv
        /\ XidInv /\ SessionInv /\ ChainInv /\ SourceInv
        /\ phase \in [Volumes -> Phases] /\ MaxRecords \in Nat /\ NoVolume \notin Volumes
        /\ Device \in Nat /\ Device \in 1 .. MaxXid
    BY Parts
  <1>t. /\ durable \in [Volumes -> 0 .. MaxRecords] /\ cleaned \in [Volumes -> 0 .. MaxRecords]
        /\ pins \in [Volumes -> SUBSET (1 .. MaxXid)] /\ unapplied \in [Volumes -> BOOLEAN]
        /\ census \in [Volumes -> [pins : SUBSET (1 .. MaxXid), unapplied : BOOLEAN]]
        /\ boot \subseteq Volumes
        /\ \A w \in Volumes : durable[w] \in Nat /\ cleaned[w] \in Nat
    BY <1>0, TypedFacts DEF TypeOK
  <1>1. /\ UNCHANGED <<device, wal, durable, up, latched, ckptXid, session, commit,
                       reader, boot, census>>
        /\ phase[v] = "proved"
    BY DEF ReplayCleanPrefix
  <1>f. /\ up /\ v \in boot /\ commit = Idle /\ commit.vol # v
        /\ \A w \in boot \ {v} : phase[w] = "startup"
    <2>1. v \in boot /\ up
      BY <1>0, <1>1 DEF StartupInv, BootPhases, DownInv
    <2>2. \A w \in boot \ {v} : phase[w] = "startup"
      BY <1>1, <2>1, OneAtATime
    <2>3. commit = Idle
      BY <1>0, <1>1, <2>1, <2>2 DEF CommitInv
    <2>4. QED
      BY <1>0, <2>1, <2>2, <2>3, IdleTyped
  <1>2. /\ cleaned' \in [Volumes -> 0 .. MaxRecords]
        /\ pins' \in [Volumes -> SUBSET (1 .. MaxXid)] /\ unapplied' \in [Volumes -> BOOLEAN]
        /\ \A w \in Volumes \ {v} : /\ pins'[w] = pins[w] /\ unapplied'[w] = unapplied[w]
                                    /\ cleaned'[w] = cleaned[w]
        /\ cleaned'[v] \in {cleaned[v], durable[v]}
        /\ unapplied' = unapplied \/ unapplied'[v] = HasUnappliedAcceptedWork(v)
        /\ Sources(wal[v], cleaned'[v]) \subseteq pins'[v]
        /\ HasUnappliedAcceptedWork(v) /\ Held(v) < Len(wal[v]) => unapplied'[v]
    <2>1. CASE cleaned[v] < durable[v]
      <3>1. Sources(wal[v], durable[v]) \in SUBSET (1 .. MaxXid)
        BY <1>0, <1>t, SourcesTyped
      <3>2. /\ cleaned' = [cleaned EXCEPT ![v] = durable[v]]
            /\ pins' = [pins EXCEPT ![v] = Sources(wal[v], durable[v])]
            /\ unapplied' = [unapplied EXCEPT ![v] = HasUnappliedAcceptedWork(v)]
        BY <2>1 DEF ReplayCleanPrefix
      <3>3. HasUnappliedAcceptedWork(v) \in BOOLEAN
        BY DEF HasUnappliedAcceptedWork
      <3>4. /\ cleaned' \in [Volumes -> 0 .. MaxRecords] /\ cleaned'[v] = durable[v]
            /\ \A w \in Volumes \ {v} : cleaned'[w] = cleaned[w]
        BY <1>t, <3>2
      <3>5. /\ pins' \in [Volumes -> SUBSET (1 .. MaxXid)]
            /\ pins'[v] = Sources(wal[v], durable[v])
            /\ \A w \in Volumes \ {v} : pins'[w] = pins[w]
        BY <1>t, <3>1, <3>2
      <3>6. /\ unapplied' \in [Volumes -> BOOLEAN]
            /\ unapplied'[v] = HasUnappliedAcceptedWork(v)
            /\ \A w \in Volumes \ {v} : unapplied'[w] = unapplied[w]
        BY <1>t, <3>2, <3>3
      <3>7. QED
        BY <3>4, <3>5, <3>6
    <2>2. CASE ~(cleaned[v] < durable[v])
      <3>1. cleaned' = cleaned /\ pins' = pins /\ unapplied' = unapplied
        BY <2>2 DEF ReplayCleanPrefix
      <3>2. Sources(wal[v], cleaned[v]) \subseteq pins[v]
        BY <1>0, <1>f DEF CensusInv, Sources
      <3>3. Held(v) < Len(wal[v]) => unapplied[v]
        BY <1>0, <1>f DEF CensusInv
      <3>4. QED
        BY <1>t, <3>1, <3>2, <3>3
    <2>3. QED
      BY <2>1, <2>2
  <1>3. durable[v] \in Nat /\ Held(v) \in Nat /\ Len(wal[v]) \in Nat
        /\ \A w \in Volumes : cleaned[w] <= durable[w] /\ durable[w] <= Held(w)
    BY <1>0, TypedFacts DEF JournalInv
  <1>4. Held(v) < Len(wal[v]) => unapplied'[v]
    BY <1>2, <1>3 DEF HasUnappliedAcceptedWork
  <1>5. \A w \in Volumes : cleaned[w] <= cleaned'[w] /\ cleaned'[w] <= durable[w]
    <2>1. \A w \in Volumes : cleaned'[w] = cleaned[w] \/ cleaned'[w] = durable[w]
      BY <1>2
    <2>2. \A w \in Volumes : cleaned[w] <= durable[w] /\ cleaned[w] \in Nat /\ durable[w] \in Nat
      BY <1>t, <1>3
    <2>3. QED
      BY <2>1, <2>2
  <1>p. /\ phase' \in [Volumes -> Phases] /\ phase'[v] \in {"published", "replay"}
        /\ \A w \in Volumes \ {v} : phase'[w] = phase[w]
    BY <1>0 DEF ReplayCleanPrefix, Phases
  <1>b. ChainInv' /\ JournalInv' /\ SourceInv'
    BY <1>1, <1>2, <1>3, <1>5, <1>t, WatermarksRise
  <1>c. CensusInv'
    <2>1. /\ \A i \in cleaned'[v] + 1 .. Len(wal[v]) : wal[v][i] \in pins'[v]
      BY <1>2 DEF Sources
    <2>2. /\ Device' = Device /\ ckpt' = ckpt /\ wal' = wal /\ up' = up
          /\ \A w \in Volumes : Held(w)' = Held(w)
      BY <1>1 DEF device, Device, Held, Current
    <2>3. ASSUME NEW w \in Volumes, w # v
          PROVE  Census(w)' = Census(w) /\ census'[w] = census[w] /\ phase'[w] = phase[w]
      <3>1. /\ cleaned'[w] = cleaned[w] /\ wal' = wal /\ durable' = durable
            /\ census'[w] = census[w] /\ phase'[w] = phase[w]
        BY <1>1, <1>2, <1>p, <2>3
      <3>2. QED
        BY <3>1 DEF Census, Sources, HasUnappliedAcceptedWork
    <2>4. ASSUME NEW w \in Volumes, w # v
          PROVE  /\ up' => /\ \A i \in cleaned'[w] + 1 .. Len(wal'[w]) : wal'[w][i] \in pins'[w]
                           /\ Held(w)' < Len(wal'[w]) => unapplied'[w]
                 /\ phase'[w] = "refresh" => census'[w] = Census(w)'
      BY <1>0, <1>2, <2>2, <2>3, <2>4 DEF CensusInv
    <2>5. QED
      BY <1>4, <1>p, <2>1, <2>2, <2>4 DEF CensusInv
  <1>d. TypeOK' /\ DownInv' /\ XidInv' /\ CommitInv' /\ SessionInv' /\ StartupInv'
    BY <1>0, <1>1, <1>2, <1>4, <1>t, <1>p, <1>f, HostStepKeeps DEF BootPhases
  <1> QED
    BY <1>b, <1>c, <1>d DEF IInv

\* A checkpoint that holds what the newest one holds of a volume proves every
\* published record of its journal applied, and no other.
LEMMA VerifiedIsHeld ==
    ASSUME TypeOK, ChainInv, JournalInv, NEW v \in Volumes, NEW x \in 1 .. Device,
           Len(ckpt[x][v]) = Held(v)
    PROVE  VerifiedPrefix(v, x) = Held(v)
  <1> DEFINE d == durable[v]
             h == Held(v)
             n == Len(wal[v])
             S == {k \in d .. n : \A i \in d + 1 .. k : i \in Range(ckpt[x][v])}
  <1>1. /\ d \in Nat /\ h \in Nat /\ n \in Nat /\ d <= h /\ h <= n
        /\ ckpt[x][v] \in Seq(Nat) /\ Counting(ckpt[x][v])
    BY TypedFacts DEF ChainInv, JournalInv
  <1>2. Range(ckpt[x][v]) = 1 .. h
    BY <1>1, CountingRange
  <1>3. S = d .. h
    <2>1. S = {k \in d .. n : \A i \in d + 1 .. k : i \in 1 .. h}
      BY <1>2
    <2> HIDE DEF S, d, h, n
    <2>2. ASSUME NEW k \in d .. n, \A i \in d + 1 .. k : i \in 1 .. h
          PROVE  k <= h
      <3>1. CASE k = d
        BY <1>1, <3>1
      <3>2. CASE k # d
        <4>1. k \in d + 1 .. k
          BY <1>1, <3>2
        <4>2. QED
          BY <1>1, <2>2, <4>1
      <3>3. QED
        BY <3>1, <3>2
    <2>3. ASSUME NEW k \in d .. h
          PROVE  k \in d .. n /\ \A i \in d + 1 .. k : i \in 1 .. h
      BY <1>1
    <2>4. QED
      BY <1>1, <2>1, <2>2, <2>3
  <1>4. VerifiedPrefix(v, x) = Max(d .. h)
    BY <1>3 DEF VerifiedPrefix
  <1>5. Max(d .. h) = h
    <2> HIDE DEF d, h
    <2>1. h \in d .. h /\ \A y \in d .. h : h >= y
      BY <1>1
    <2>2. \A z \in d .. h : (\A y \in d .. h : z >= y) => z = h
      BY <1>1
    <2>3. QED
      BY <2>1, <2>2 DEF Max
  <1>6. QED
    BY <1>4, <1>5

\* While a volume has its turn of the startup no commit is under way.
LEMMA StartupIsIdle ==
    ASSUME IInv, NEW v \in Volumes, StartupTurn(v)
    PROVE  commit = Idle /\ up /\ v \in boot /\ boot # {}
  BY Parts DEF StartupTurn, CommitInv, DownInv

\* What the proof of a replay finds: the session, refreshed or not, holds what
\* the newest checkpoint holds of its volume.
LEMMA ReplayView ==
    ASSUME IInv, NEW v \in Volumes, ReplayProve(v)
    PROVE  /\ session' \in [Volumes -> SessionType]
           /\ \A w \in Volumes \ {v} : session'[w] = session[w]
           /\ session'[v].xid \in 1 .. Device
           /\ Len(ckpt[session'[v].xid][v]) = Held(v)
           /\ ~latched => session'[v].pending = <<>>
           /\ durable' = [durable EXCEPT ![v] = Held(v)]
  <1>0. /\ TypeOK /\ JournalInv /\ CensusInv /\ CommitInv /\ StartupInv /\ DownInv
        /\ XidInv /\ SessionInv /\ ChainInv /\ SourceInv
        /\ phase \in [Volumes -> Phases] /\ MaxRecords \in Nat /\ NoVolume \notin Volumes
        /\ session \in [Volumes -> SessionType] /\ commit \in CommitType
        /\ Device \in Nat /\ Device \in 1 .. MaxXid /\ MaxXid \in Nat
    BY Parts
  <1> DEFINE stale == HasUnappliedAcceptedWork(v) /\ session[v].xid # ckptXid
             view  == IF stale THEN Loaded(TRUE) ELSE session[v]
  <1>1. commit = Idle /\ up /\ v \in boot /\ boot # {} /\ phase[v] = "startup"
    BY StartupIsIdle DEF ReplayProve, StartupTurn
  <1>2. session[v] \in SessionType /\ session[v].xid \in 1 .. Device
        /\ Len(ckpt[session[v].xid][v]) = Held(v)
    <2>1. session[v] \in SessionType /\ session[v].xid # 0 /\ session[v].xid <= Device
          /\ session[v].xid \in Nat
      BY <1>0, <1>1, TypedFacts DEF StartupInv, XidInv
    <2>2. Settled(v)
      BY <1>0, <1>1, <2>1, IdleTyped DEF Settled
    <2>3. QED
      BY <1>0, <2>1, <2>2 DEF SessionInv
  <1>3. ~latched => session[v].pending = <<>>
    BY <1>0, <1>1, IdleTyped DEF SessionInv
  <1>4. /\ view \in SessionType /\ view.xid \in 1 .. Device
        /\ Len(ckpt[view.xid][v]) = Held(v) /\ (~latched => view.pending = <<>>)
    <2>1. CASE stale
      BY <1>0, <2>1 DEF Loaded, SessionType, Held, Current
    <2>2. CASE ~stale
      BY <1>2, <1>3, <2>2
    <2>3. QED
      BY <2>1, <2>2
  <1>5. session' = [session EXCEPT ![v] = view]
        /\ durable' = [durable EXCEPT ![v] = VerifiedPrefix(v, view.xid)]
    BY DEF ReplayProve
  <1> HIDE DEF view
  <1>6. VerifiedPrefix(v, view.xid) = Held(v)
    BY <1>0, <1>4, VerifiedIsHeld
  <1>7. QED
    BY <1>0, <1>4, <1>5, <1>6

\* ReplayProve raises the durable watermark to what the newest checkpoint holds,
\* whether or not the session had to be refreshed first.
LEMMA ReplayProveKeeps ==
    ASSUME IInv, NEW v \in Volumes, ReplayProve(v)
    PROVE  IInv'
  <1>0. /\ TypeOK /\ JournalInv /\ CensusInv /\ CommitInv /\ StartupInv /\ DownInv
        /\ XidInv /\ SessionInv /\ ChainInv /\ SourceInv
        /\ phase \in [Volumes -> Phases] /\ MaxRecords \in Nat /\ NoVolume \notin Volumes
        /\ session \in [Volumes -> SessionType] /\ commit \in CommitType
        /\ Device \in Nat /\ Device \in 1 .. MaxXid /\ MaxXid \in Nat
    BY Parts
  <1>1. commit = Idle /\ up /\ v \in boot /\ phase[v] = "startup" /\ commit.vol = NoVolume
        /\ \A w \in boot \ {v} : phase[w] = "startup"
    BY StartupIsIdle, IdleTyped DEF ReplayProve, StartupTurn
  <1>2. /\ session' \in [Volumes -> SessionType]
        /\ \A w \in Volumes \ {v} : session'[w] = session[w]
        /\ session'[v].xid \in 1 .. Device
        /\ Len(ckpt[session'[v].xid][v]) = Held(v)
        /\ ~latched => session'[v].pending = <<>>
        /\ durable' = [durable EXCEPT ![v] = Held(v)]
    BY ReplayView
  <1>3. /\ UNCHANGED <<device, wal, cleaned, up, latched, ckptXid, commit, reader, boot, census>>
    BY DEF ReplayProve
  <1>4. /\ Device' = Device /\ ckpt' = ckpt /\ wal' = wal /\ floor' = floor
        /\ \A w \in Volumes : Held(w)' = Held(w)
    BY <1>3 DEF device, Device, Held, Current
  <1>5. \A w \in Volumes : /\ cleaned[w] \in Nat /\ durable[w] \in Nat /\ Held(w) \in Nat
                           /\ cleaned[w] <= durable[w] /\ durable[w] <= Held(w)
                           /\ Held(w) <= Len(wal[w]) /\ Len(wal[w]) <= MaxRecords
                           /\ Len(wal[w]) \in Nat
    BY <1>0, TypedFacts DEF JournalInv
  <1>6. /\ durable' \in [Volumes -> 0 .. MaxRecords] /\ durable'[v] = Held(v)
        /\ \A w \in Volumes \ {v} : durable'[w] = durable[w]
    <2>1. durable \in [Volumes -> 0 .. MaxRecords]
      BY <1>0 DEF TypeOK
    <2>2. Held(v) \in 0 .. MaxRecords
      BY <1>0, <1>5
    <2>3. QED
      BY <1>2, <2>1, <2>2
  <1>7. /\ pins' \in [Volumes -> SUBSET (1 .. MaxXid)] /\ unapplied' \in [Volumes -> BOOLEAN]
        /\ pins'[v] = Sources(wal[v], cleaned[v])
        /\ unapplied'[v] = HasUnappliedAcceptedWork(v)
        /\ \A w \in Volumes \ {v} : pins'[w] = pins[w] /\ unapplied'[w] = unapplied[w]
    <2>1. Sources(wal[v], cleaned[v]) \in SUBSET (1 .. MaxXid)
          /\ HasUnappliedAcceptedWork(v) \in BOOLEAN
      BY <1>0, <1>5, SourcesTyped DEF HasUnappliedAcceptedWork
    <2>2. pins \in [Volumes -> SUBSET (1 .. MaxXid)] /\ unapplied \in [Volumes -> BOOLEAN]
      BY <1>0 DEF TypeOK
    <2>3. /\ pins' = [pins EXCEPT ![v] = Sources(wal[v], cleaned[v])]
          /\ unapplied' = [unapplied EXCEPT ![v] = HasUnappliedAcceptedWork(v)]
      BY DEF ReplayProve, Census
    <2>4. QED
      BY <2>1, <2>2, <2>3
  <1>p. /\ phase' \in [Volumes -> Phases] /\ phase'[v] = "proved"
        /\ \A w \in Volumes \ {v} : phase'[w] = phase[w]
    BY <1>0 DEF ReplayProve, Phases
  <1>a. TypeOK'
    BY <1>0, <1>2, <1>3, <1>6, <1>7, <1>p DEF TypeOK, device, SessionType
  <1>b. ChainInv' /\ JournalInv' /\ SourceInv'
    <2>1. \A w \in Volumes : durable[w] <= durable'[w] /\ durable'[w] <= Held(w)
      <3>1. \A w \in Volumes : durable'[w] = durable[w] \/ durable'[w] = Held(w)
        BY <1>6
      <3>2. QED
        BY <1>5, <3>1
    <2>2. \A w \in Volumes : cleaned[w] <= cleaned'[w]
                             /\ cleaned'[w] <= durable'[w] /\ durable'[w] <= Held(w)
      <3>1. \A w \in Volumes : durable'[w] \in Nat
        BY <1>0, <1>6
      <3>2. cleaned' = cleaned
        BY <1>3
      <3>3. QED
        BY <1>5, <2>1, <3>1, <3>2
    <2>3. cleaned' \in [Volumes -> 0 .. MaxRecords]
      BY <1>0, <1>3 DEF TypeOK
    <2>4. QED
      BY <1>3, <1>6, <2>2, <2>3, WatermarksRise
  <1>c. CensusInv'
    <2>1. \A i \in cleaned'[v] + 1 .. Len(wal'[v]) : wal'[v][i] \in pins'[v]
      BY <1>3, <1>7 DEF Sources
    <2>2. Held(v)' < Len(wal'[v]) => unapplied'[v]
      BY <1>4, <1>5, <1>7 DEF HasUnappliedAcceptedWork
    <2>3. ASSUME NEW w \in Volumes, w # v
          PROVE  Census(w)' = Census(w) /\ census'[w] = census[w] /\ phase'[w] = phase[w]
      <3>1. /\ cleaned'[w] = cleaned[w] /\ wal' = wal /\ durable'[w] = durable[w]
            /\ census'[w] = census[w] /\ phase'[w] = phase[w]
        BY <1>3, <1>6, <1>p, <2>3
      <3>2. QED
        BY <3>1 DEF Census, Sources, HasUnappliedAcceptedWork
    <2>4. ASSUME NEW w \in Volumes, w # v
          PROVE  /\ up' => /\ \A i \in cleaned'[w] + 1 .. Len(wal'[w]) : wal'[w][i] \in pins'[w]
                           /\ Held(w)' < Len(wal'[w]) => unapplied'[w]
                 /\ phase'[w] = "refresh" => census'[w] = Census(w)'
      BY <1>0, <1>3, <1>4, <1>7, <2>3, <2>4 DEF CensusInv
    <2>5. QED
      BY <1>p, <2>1, <2>2, <2>4 DEF CensusInv
  <1>d. DownInv'
    BY <1>1, <1>3 DEF DownInv
  <1>e. XidInv'
    BY <1>0, <1>2, <1>3, <1>4 DEF XidInv
  <1>f. CommitInv'
    BY <1>1, <1>3, IdleTyped DEF CommitInv
  <1>g. SessionInv'
    <2>1. commit'.vol = NoVolume /\ commit'.stage = "idle"
      BY <1>1, <1>3, IdleTyped
    <2>2. ASSUME NEW w \in Volumes, w # v
          PROVE  /\ ~latched' /\ commit'.vol # w /\ session'[w].pending # <<>> =>
                        unapplied'[w] /\ session'[w].xid = Device' /\ Overlay(w)' /\ boot' = {}
                 /\ Settled(w)' => Len(ckpt'[session'[w].xid][w]) = Held(w)'
      BY <1>0, <1>1, <1>2, <1>3, <1>4, <1>7, <1>p, <2>1, <2>2
      DEF SessionInv, Settled, Overlay
    <2>3. QED
      BY <1>0, <1>2, <1>3, <1>4, <2>1, <2>2 DEF SessionInv
  <1>h. StartupInv'
    <2>1. \A w \in boot : session'[w].xid # 0
      <3>1. session'[v].xid # 0
        BY <1>0, <1>2
      <3>2. \A w \in boot \ {v} : session'[w].xid # 0
        BY <1>0, <1>2 DEF StartupInv, TypeOK
      <3>3. QED
        BY <3>1, <3>2
    <2>2. QED
      BY <1>0, <1>1, <1>3, <1>4, <1>p, <2>1, StartupKept DEF BootPhases
  <1> QED
    BY <1>a, <1>b, <1>c, <1>d, <1>e, <1>f, <1>g, <1>h DEF IInv

\* RefreshCheckpointFromSession ends a volume's startup; the overlays it would
\* disturb do not exist before every startup has ended.
LEMMA RefreshCheckpointFromSessionKeeps ==
    ASSUME IInv, NEW v \in Volumes, RefreshCheckpointFromSession(v)
    PROVE  IInv'
  <1>0. /\ TypeOK /\ JournalInv /\ CensusInv /\ CommitInv /\ StartupInv /\ DownInv
        /\ XidInv /\ SessionInv /\ ChainInv /\ SourceInv
        /\ phase \in [Volumes -> Phases] /\ MaxRecords \in Nat /\ NoVolume \notin Volumes
        /\ session \in [Volumes -> SessionType] /\ commit \in CommitType
        /\ Device \in Nat /\ Device \in 1 .. MaxXid /\ MaxXid \in Nat
    BY Parts
  <1>1. /\ UNCHANGED <<device, journal, up, latched, pins, unapplied, commit, reader, census>>
        /\ v \in boot /\ phase[v] \in {"settled", "degraded"}
        /\ boot' = boot \ {v} /\ boot # {}
    BY DEF RefreshCheckpointFromSession
  <1>2. /\ \A w \in boot \ {v} : phase[w] = "startup"
        /\ commit = Idle /\ commit.vol = NoVolume /\ commit.stage = "idle" /\ up
    <2>1. \A w \in boot \ {v} : phase[w] = "startup"
      BY <1>1, OneAtATime
    <2>2. commit = Idle /\ up
      BY <1>0, <1>1, <2>1 DEF CommitInv, DownInv
    <2>3. QED
      BY <2>1, <2>2, IdleTyped
  <1>3. /\ session' \in [Volumes -> SessionType]
        /\ \A w \in Volumes : session'[w].xid = session[w].xid
                              /\ session'[w].pending = session[w].pending
    BY <1>0 DEF RefreshCheckpointFromSession, SessionType
  <1>4. /\ ckptXid' \in 0 .. MaxXid /\ ckptXid' <= Device
        /\ ckptXid = Device => ckptXid' = Device
    <2>1. ckptXid \in Nat /\ session[v].xid \in Nat /\ ckptXid <= Device /\ session[v].xid <= Device
      BY <1>0, TypedFacts DEF XidInv, TypeOK
    <2>2. ckptXid' = IF ckptXid >= session[v].xid THEN ckptXid ELSE session[v].xid
      BY <2>1, MaxOfTwo DEF RefreshCheckpointFromSession
    <2>3. QED
      BY <1>0, <2>1, <2>2
  <1>5. /\ phase' \in [Volumes -> Phases] /\ phase'[v] \in {"serving", "degraded"}
        /\ \A w \in Volumes \ {v} : phase'[w] = phase[w]
    BY <1>0 DEF RefreshCheckpointFromSession, Phases
  <1>6. /\ Device' = Device /\ ckpt' = ckpt /\ wal' = wal /\ floor' = floor
        /\ \A w \in Volumes : Held(w)' = Held(w)
    BY <1>1 DEF device, journal, Device, Held, Current
  <1>a. TypeOK'
    BY <1>0, <1>1, <1>3, <1>4, <1>5 DEF TypeOK, device, journal, SessionType
  <1>b. ChainInv' /\ JournalInv' /\ SourceInv'
    BY <1>1, DeviceAndJournalKept
  <1>c. CensusInv'
    BY <1>1, <1>5, CensusKept
  <1>d. DownInv'
    BY <1>1, <1>2 DEF DownInv
  <1>e. XidInv'
    BY <1>0, <1>1, <1>2, <1>3, <1>4, <1>6 DEF XidInv
  <1>f. CommitInv'
    BY <1>1, <1>2 DEF CommitInv
  <1>g. SessionInv'
    <2>1. ASSUME NEW w \in Volumes
          PROVE  Settled(w)' => Len(ckpt'[session'[w].xid][w]) = Held(w)'
      <3>1. ASSUME Settled(w)'
            PROVE  Settled(w)
        BY <1>0, <1>1, <1>2, <1>3, <1>5, <3>1 DEF Settled
      <3>2. QED
        BY <1>0, <1>3, <1>6, <3>1 DEF SessionInv
    <2>2. \A w \in Volumes : ~latched => session[w].pending = <<>>
      BY <1>0, <1>1, <1>2 DEF SessionInv
    <2>3. QED
      BY <1>0, <1>1, <1>2, <1>3, <2>1, <2>2 DEF SessionInv
  <1>h. StartupInv'
    <2>1. ASSUME NEW w \in Volumes
          PROVE  /\ phase'[w] \in BootPhases => w \in boot'
                 /\ w \in boot' => phase'[w] \notin {"off", "serving"} /\ session'[w].xid # 0
                 /\ w \notin boot' => phase'[w] \in {"serving", "degraded"}
      <3>1. CASE w = v
        BY <1>1, <1>5, <3>1 DEF BootPhases
      <3>2. CASE w # v
        BY <1>0, <1>1, <1>3, <1>5, <3>2 DEF StartupInv
      <3>3. QED
        BY <3>1, <3>2
    <2>2. \A u, w \in boot' : u # w => phase'[u] = "startup" \/ phase'[w] = "startup"
      BY <1>0, <1>1, <1>2, <1>5 DEF TypeOK
    <2>3. QED
      BY <2>1, <2>2 DEF StartupInv
  <1> QED
    BY <1>a, <1>b, <1>c, <1>d, <1>e, <1>f, <1>g, <1>h DEF IInv

\* UnmountVolume drops a session, whose records stay in the journal.
LEMMA UnmountVolumeKeeps ==
    ASSUME IInv, NEW v \in Volumes, UnmountVolume(v)
    PROVE  IInv'
  <1>0. /\ TypeOK /\ JournalInv /\ CensusInv /\ CommitInv /\ StartupInv /\ DownInv
        /\ XidInv /\ SessionInv /\ ChainInv /\ SourceInv
        /\ phase \in [Volumes -> Phases] /\ MaxRecords \in Nat /\ NoVolume \notin Volumes
        /\ session \in [Volumes -> SessionType] /\ commit \in CommitType
        /\ Device \in Nat /\ Device \in 1 .. MaxXid /\ MaxXid \in Nat
    BY Parts
  <1>1. /\ UNCHANGED <<device, journal, up, latched, ckptXid, pins, unapplied, commit,
                       reader, boot, census>>
        /\ up /\ boot = {} /\ commit = Idle /\ commit.vol = NoVolume /\ commit.stage = "idle"
    BY IdleTyped DEF UnmountVolume
  <1>2. /\ session' \in [Volumes -> SessionType] /\ session'[v].xid = 0
        /\ session'[v].pending = <<>>
        /\ \A w \in Volumes \ {v} : session'[w] = session[w]
    <2>1. Unmounted \in SessionType /\ Unmounted.xid = 0 /\ Unmounted.pending = <<>>
      BY <1>0 DEF Unmounted, SessionType
    <2>2. QED
      BY <1>0, <2>1 DEF UnmountVolume
  <1>3. /\ phase' \in [Volumes -> Phases] /\ phase'[v] = "off"
        /\ \A w \in Volumes \ {v} : phase'[w] = phase[w]
    BY <1>0 DEF UnmountVolume, Phases
  <1>6. /\ Device' = Device /\ ckpt' = ckpt /\ wal' = wal /\ floor' = floor
        /\ \A w \in Volumes : Held(w)' = Held(w)
    BY <1>1 DEF device, journal, Device, Held, Current
  <1>a. TypeOK'
    BY <1>0, <1>1, <1>2, <1>3 DEF TypeOK, device, journal, SessionType
  <1>b. ChainInv' /\ JournalInv' /\ SourceInv'
    BY <1>1, DeviceAndJournalKept
  <1>c. CensusInv'
    BY <1>1, <1>3, CensusKept
  <1>d. DownInv'
    BY <1>1 DEF DownInv
  <1>e. XidInv'
    BY <1>0, <1>1, <1>2, <1>6 DEF XidInv
  <1>f. CommitInv'
    BY <1>1 DEF CommitInv
  <1>g. SessionInv'
    BY <1>0, <1>1, <1>2, <1>3, <1>6 DEF SessionInv, Settled, Overlay
  <1>h. StartupInv'
    BY <1>0, <1>1, <1>3, <1>6 DEF StartupInv, BootPhases
  <1> QED
    BY <1>a, <1>b, <1>c, <1>d, <1>e, <1>f, <1>g, <1>h DEF IInv

\* Open loads every session from the newest checkpoint, and every pin from its
\* journal.
LEMMA OpenKeeps ==
    ASSUME IInv, Open
    PROVE  IInv'
  <1>0. /\ TypeOK /\ JournalInv /\ CensusInv /\ CommitInv /\ StartupInv /\ DownInv
        /\ XidInv /\ SessionInv /\ ChainInv /\ SourceInv
        /\ phase \in [Volumes -> Phases] /\ MaxRecords \in Nat /\ NoVolume \notin Volumes
        /\ session \in [Volumes -> SessionType] /\ commit \in CommitType
        /\ Device \in Nat /\ Device \in 1 .. MaxXid /\ MaxXid \in Nat
    BY Parts
  <1>1. /\ UNCHANGED <<device, journal, latched, commit, reader, census>>
        /\ ~up /\ up' = TRUE /\ ckptXid' = Device /\ boot' = Volumes
        /\ phase' = [w \in Volumes |-> "startup"]
    BY DEF Open
  <1>2. /\ commit = Idle /\ commit.vol = NoVolume /\ commit.stage = "idle"
        /\ reader = 0 /\ ~latched
    BY <1>0, <1>1, IdleTyped DEF DownInv
  <1>3. /\ session' \in [Volumes -> SessionType]
        /\ \A w \in Volumes : session'[w].xid = Device /\ session'[w].pending = <<>>
    BY <1>0 DEF Open, Loaded, SessionType
  <1>4. \A w \in Volumes : /\ cleaned[w] \in Nat /\ durable[w] \in Nat /\ Held(w) \in Nat
                           /\ durable[w] <= Held(w) /\ Len(wal[w]) \in Nat
    BY <1>0, TypedFacts DEF JournalInv
  <1>5. /\ pins' \in [Volumes -> SUBSET (1 .. MaxXid)] /\ unapplied' \in [Volumes -> BOOLEAN]
        /\ \A w \in Volumes : pins'[w] = Sources(wal[w], cleaned[w])
                              /\ unapplied'[w] = HasUnappliedAcceptedWork(w)
    <2>1. \A w \in Volumes : Sources(wal[w], cleaned[w]) \in SUBSET (1 .. MaxXid)
      BY <1>0, <1>4, SourcesTyped
    <2>2. pins' = [w \in Volumes |-> Sources(wal[w], cleaned[w])]
      BY DEF Open, Census
    <2>3. unapplied' = [w \in Volumes |-> HasUnappliedAcceptedWork(w)]
      BY DEF Open, Census
    <2>4. \A w \in Volumes : HasUnappliedAcceptedWork(w) \in BOOLEAN
      BY DEF HasUnappliedAcceptedWork
    <2>5. QED
      BY <2>1, <2>2, <2>3, <2>4
  <1>6. /\ Device' = Device /\ ckpt' = ckpt /\ wal' = wal /\ floor' = floor
        /\ cleaned' = cleaned
        /\ \A w \in Volumes : Held(w)' = Held(w)
    BY <1>1 DEF device, journal, Device, Held, Current
  <1>a. TypeOK'
    <2>1. phase' \in [Volumes -> Phases] /\ up' \in BOOLEAN /\ ckptXid' \in 0 .. MaxXid
          /\ boot' \subseteq Volumes
      BY <1>0, <1>1 DEF Phases
    <2>2. QED
      BY <1>0, <1>1, <1>3, <1>5, <2>1 DEF TypeOK, device, journal, SessionType
  <1>b. ChainInv' /\ JournalInv' /\ SourceInv'
    BY <1>1, DeviceAndJournalKept
  <1>c. CensusInv'
    <2>1. \A w \in Volumes : phase'[w] # "refresh"
      BY <1>1
    <2>2. \A w \in Volumes : \A i \in cleaned'[w] + 1 .. Len(wal'[w]) : wal'[w][i] \in pins'[w]
      BY <1>5, <1>6 DEF Sources
    <2>3. \A w \in Volumes : Held(w)' < Len(wal'[w]) => unapplied'[w]
      BY <1>4, <1>5, <1>6 DEF HasUnappliedAcceptedWork
    <2>4. QED
      BY <2>1, <2>2, <2>3 DEF CensusInv
  <1>d. DownInv'
    BY <1>1 DEF DownInv
  <1>e. XidInv'
    BY <1>0, <1>1, <1>2, <1>3, <1>6 DEF XidInv
  <1>f. CommitInv'
    BY <1>1, <1>2 DEF CommitInv
  <1>g. SessionInv'
    <2>1. \A w \in Volumes : Len(ckpt'[session'[w].xid][w]) = Held(w)'
      BY <1>3, <1>6 DEF Held, Current
    <2>2. QED
      BY <1>0, <1>1, <1>2, <1>3, <2>1 DEF SessionInv
  <1>h. StartupInv'
    <2>1. \A w \in Volumes : session'[w].xid # 0
      BY <1>0, <1>3
    <2>2. QED
      BY <1>1, <2>1 DEF StartupInv, BootPhases
  <1> QED
    BY <1>a, <1>b, <1>c, <1>d, <1>e, <1>f, <1>g, <1>h DEF IInv

\* AcquireSnapshotReader registers the newest checkpoint.
LEMMA AcquireSnapshotReaderKeeps ==
    ASSUME IInv, AcquireSnapshotReader
    PROVE  IInv'
  <1>0. /\ TypeOK /\ JournalInv /\ CensusInv /\ CommitInv /\ StartupInv /\ DownInv
        /\ XidInv /\ SessionInv /\ ChainInv /\ SourceInv
        /\ phase \in [Volumes -> Phases] /\ MaxRecords \in Nat /\ NoVolume \notin Volumes
        /\ session \in [Volumes -> SessionType] /\ commit \in CommitType
        /\ Device \in Nat /\ Device \in 1 .. MaxXid /\ MaxXid \in Nat
    BY Parts
  <1>1. UNCHANGED <<device, journal, up, latched, ckptXid, pins, unapplied, session,
                    commit, boot, phase, census>>
    BY DEF AcquireSnapshotReader, host
  <1>2. up /\ reader' = Device /\ floor <= Device /\ reader' \in 0 .. MaxXid
    BY <1>0, IdleTyped DEF AcquireSnapshotReader, HostServing, XidInv, ChainInv
  <1>6. /\ Device' = Device /\ ckpt' = ckpt /\ wal' = wal /\ floor' = floor
        /\ \A w \in Volumes : Held(w)' = Held(w)
    BY <1>1 DEF device, journal, Device, Held, Current
  <1>a. TypeOK'
    BY <1>0, <1>1, <1>2 DEF TypeOK, device, journal
  <1>b. ChainInv' /\ JournalInv' /\ SourceInv'
    BY <1>1, DeviceAndJournalKept
  <1>c. CensusInv'
    BY <1>1, CensusKept
  <1>d. DownInv'
    BY <1>0, <1>1, <1>2 DEF DownInv
  <1>e. XidInv'
    BY <1>0, <1>1, <1>2, <1>6 DEF XidInv
  <1>f. CommitInv'
    <2>1. CASE commit = Idle
      BY <1>1, <2>1, IdleTyped DEF CommitInv
    <2>2. CASE commit # Idle
      BY <1>0, <1>1, <1>6, <2>2 DEF CommitInv, CommitType
    <2>3. QED
      BY <2>1, <2>2
  <1>g. SessionInv'
    BY <1>0, <1>1, <1>6 DEF SessionInv, Settled, Overlay
  <1>h. StartupInv'
    BY <1>0, <1>1, <1>6 DEF StartupInv, BootPhases
  <1> QED
    BY <1>a, <1>b, <1>c, <1>d, <1>e, <1>f, <1>g, <1>h DEF IInv

\* ReleaseReader only lets a checkpoint go.
LEMMA ReleaseReaderKeeps ==
    ASSUME IInv, ReleaseReader
    PROVE  IInv'
  <1>0. /\ TypeOK /\ JournalInv /\ CensusInv /\ CommitInv /\ StartupInv /\ DownInv
        /\ XidInv /\ SessionInv /\ ChainInv /\ SourceInv
        /\ phase \in [Volumes -> Phases] /\ MaxRecords \in Nat /\ NoVolume \notin Volumes
        /\ session \in [Volumes -> SessionType] /\ commit \in CommitType
        /\ Device \in Nat /\ Device \in 1 .. MaxXid /\ MaxXid \in Nat
    BY Parts
  <1>1. UNCHANGED <<device, journal, up, latched, ckptXid, pins, unapplied, session,
                    commit, boot, phase, census>>
    BY DEF ReleaseReader, host
  <1>2. reader' = 0 /\ reader' \in 0 .. MaxXid
    BY <1>0 DEF ReleaseReader
  <1>6. /\ Device' = Device /\ ckpt' = ckpt /\ wal' = wal /\ floor' = floor
        /\ \A w \in Volumes : Held(w)' = Held(w)
    BY <1>1 DEF device, journal, Device, Held, Current
  <1>a. TypeOK'
    BY <1>0, <1>1, <1>2 DEF TypeOK, device, journal
  <1>b. ChainInv' /\ JournalInv' /\ SourceInv'
    BY <1>1, DeviceAndJournalKept
  <1>c. CensusInv'
    BY <1>1, CensusKept
  <1>d. DownInv'
    BY <1>0, <1>1, <1>2 DEF DownInv
  <1>e. XidInv'
    BY <1>0, <1>1, <1>2, <1>6 DEF XidInv
  <1>f. CommitInv'
    <2>1. CASE commit = Idle
      BY <1>1, <2>1, IdleTyped DEF CommitInv
    <2>2. CASE commit # Idle
      BY <1>0, <1>1, <1>6, <2>2 DEF CommitInv, CommitType
    <2>3. QED
      BY <2>1, <2>2
  <1>g. SessionInv'
    BY <1>0, <1>1, <1>6 DEF SessionInv, Settled, Overlay
  <1>h. StartupInv'
    BY <1>0, <1>1, <1>6 DEF StartupInv, BootPhases
  <1> QED
    BY <1>a, <1>b, <1>c, <1>d, <1>e, <1>f, <1>g, <1>h DEF IInv

\* What a publication of a volume keeps: the floor it leaves is at or below
\* every pin of every volume and the reader's checkpoint, so at or below the
\* source of every record not yet cleaned.
LEMMA RetainedFloorIsBelow ==
    ASSUME IInv, commit.vol \in Volumes, commit.stage # "published"
    PROVE  /\ RetainedFloor \in 1 .. Device
           /\ reader # 0 => RetainedFloor <= reader
           /\ \A v \in Volumes : \A i \in cleaned[v] + 1 .. Len(wal[v]) :
                RetainedFloor <= wal[v][i]
  <1>0. /\ TypeOK /\ JournalInv /\ CensusInv /\ CommitInv /\ StartupInv /\ DownInv
        /\ XidInv /\ SessionInv /\ ChainInv /\ SourceInv
        /\ phase \in [Volumes -> Phases] /\ MaxRecords \in Nat /\ NoVolume \notin Volumes
        /\ session \in [Volumes -> SessionType] /\ commit \in CommitType
        /\ Device \in Nat /\ Device \in 1 .. MaxXid /\ MaxXid \in Nat
    BY Parts
  <1> DEFINE S == RequiredUnion \union {commit.pre}
  <1>1. commit.pre = Device /\ up
    BY <1>0, IdleTyped DEF CommitInv, DownInv
  <1>2. S \subseteq Nat \ {0} /\ Device \in S
    <2>1. \A w \in Volumes : pins[w] \subseteq Nat \ {0}
      <3>1. \A w \in Volumes : pins[w] \in SUBSET (1 .. MaxXid)
        BY <1>0 DEF TypeOK
      <3>2. 1 .. MaxXid \subseteq Nat \ {0}
        BY <1>0
      <3>3. QED
        BY <3>1, <3>2
    <2>2. reader # 0 => reader \in Nat \ {0}
      BY <1>0 DEF TypeOK
    <2>3. UNION {pins[w] : w \in Volumes} \subseteq Nat \ {0}
      BY <2>1
    <2>4. RequiredUnion \subseteq Nat \ {0}
      <3> DEFINE U == UNION {pins[w] : w \in Volumes}
      <3>1. RequiredUnion = U \union (IF reader = 0 THEN {} ELSE {reader})
        BY DEF RequiredUnion
      <3>2. U \subseteq Nat \ {0}
        BY <2>3
      <3> HIDE DEF U
      <3>3. (IF reader = 0 THEN {} ELSE {reader}) \subseteq Nat \ {0}
        BY <2>2
      <3>4. QED
        BY <3>1, <3>2, <3>3
    <2>5. QED
      BY <1>0, <1>1, <2>4
  <1>3. RetainedFloor \in S /\ \A y \in S : RetainedFloor <= y
    <2> HIDE DEF S
    <2>1. S \subseteq Nat /\ S # {}
      BY <1>2
    <2>2. Min(S) \in S /\ \A y \in S : Min(S) <= y
      BY <2>1, MinIsLeast
    <2>3. RetainedFloor = Min(S)
      BY DEF RetainedFloor, S
    <2>4. QED
      BY <2>2, <2>3
  <1>4. RetainedFloor \in 1 .. Device
    BY <1>0, <1>2, <1>3
  <1>5. ASSUME reader # 0
        PROVE  reader \in S
    <2> DEFINE U == UNION {pins[w] : w \in Volumes}
    <2>1. RequiredUnion = U \union {reader}
      BY <1>5 DEF RequiredUnion
    <2> HIDE DEF U
    <2>2. QED
      BY <2>1
  <1>6. \A v \in Volumes : \A i \in cleaned[v] + 1 .. Len(wal[v]) : wal[v][i] \in S
    BY <1>0, <1>1 DEF RequiredUnion, CensusInv
  <1>7. QED
    BY <1>3, <1>4, <1>5, <1>6

\* An interrupted publication leaves everything that is still needed.
LEMMA InterruptedKeeps ==
    ASSUME IInv, Interrupted, UNCHANGED <<ckpt, wal, durable, cleaned>>
    PROVE  /\ ChainInv' /\ JournalInv' /\ SourceInv' /\ floor' \in 1 .. MaxXid
           /\ reader # 0 => floor' <= reader
  <1>0. /\ TypeOK /\ JournalInv /\ CensusInv /\ CommitInv /\ StartupInv /\ DownInv
        /\ XidInv /\ SessionInv /\ ChainInv /\ SourceInv
        /\ phase \in [Volumes -> Phases] /\ MaxRecords \in Nat /\ NoVolume \notin Volumes
        /\ session \in [Volumes -> SessionType] /\ commit \in CommitType
        /\ Device \in Nat /\ Device \in 1 .. MaxXid /\ MaxXid \in Nat
    BY Parts
  <1>1. /\ floor' \in 1 .. MaxXid /\ floor' <= Device
        /\ reader # 0 => floor' <= reader
        /\ \A v \in Volumes : \A i \in cleaned[v] + 1 .. Len(wal[v]) : floor' <= wal[v][i]
    <2>1. CASE UNCHANGED floor
      BY <1>0, <2>1 DEF TypeOK, ChainInv, SourceInv, XidInv
    <2>2. CASE /\ commit.vol # NoVolume
               /\ ReadyToPublish(commit.vol)
               /\ floor' = RetainedFloor
      <3>1. commit.vol \in Volumes /\ commit.stage # "published"
        BY <1>0, <2>2 DEF ReadyToPublish, CommitType
      <3>2. /\ RetainedFloor \in 1 .. Device
            /\ reader # 0 => RetainedFloor <= reader
            /\ \A v \in Volumes : \A i \in cleaned[v] + 1 .. Len(wal[v]) :
                 RetainedFloor <= wal[v][i]
        BY <3>1, RetainedFloorIsBelow
      <3>3. QED
        BY <1>0, <2>2, <3>2
    <2>3. QED
      BY <2>1, <2>2 DEF Interrupted
  <1>2. /\ Device' = Device /\ ckpt' = ckpt
        /\ \A w \in Volumes : Held(w)' = Held(w)
    BY DEF Device, Held, Current
  <1>3. ChainInv' /\ JournalInv'
    BY <1>0, <1>1, <1>2 DEF ChainInv, JournalInv
  <1>4. SourceInv'
    <2>1. ASSUME NEW w \in Volumes, NEW i \in cleaned[w] + 1 .. Len(wal[w])
          PROVE  wal[w][i] >= floor' /\ (i <= Held(w) \/ Len(ckpt[wal[w][i]][w]) = Held(w))
      <3>1. floor' <= wal[w][i]
        BY <1>1
      <3>2. wal[w][i] \in Nat /\ floor' \in Nat
        <4>1. /\ Len(wal[w]) \in Nat /\ cleaned[w] \in Nat
              /\ \A j \in 1 .. Len(wal[w]) : wal[w][j] \in Nat
          BY <1>0, TypedFacts
        <4>2. i \in 1 .. Len(wal[w])
          BY <4>1
        <4>3. QED
          BY <1>0, <1>1, <4>1, <4>2
      <3>3. QED
        BY <1>0, <3>1, <3>2 DEF SourceInv
    <2>2. QED
      BY <1>2, <2>1 DEF SourceInv
  <1>5. QED
    BY <1>1, <1>3, <1>4

\* Nothing in memory survives the process.
LEMMA ForgetHostStateKeeps ==
    ASSUME IInv, ForgetHostState, UNCHANGED <<ckpt, wal, durable, cleaned>>,
           ChainInv', JournalInv', SourceInv', floor' \in 1 .. MaxXid
    PROVE  IInv'
  <1>0. /\ TypeOK /\ JournalInv /\ CensusInv /\ CommitInv /\ StartupInv /\ DownInv
        /\ XidInv /\ SessionInv /\ ChainInv /\ SourceInv
        /\ phase \in [Volumes -> Phases] /\ MaxRecords \in Nat /\ NoVolume \notin Volumes
        /\ session \in [Volumes -> SessionType] /\ commit \in CommitType
        /\ Device \in Nat /\ Device \in 1 .. MaxXid /\ MaxXid \in Nat
    BY Parts
  <1>1. /\ ~up' /\ ~latched' /\ ckptXid' = 0 /\ commit' = Idle /\ reader' = 0 /\ boot' = {}
        /\ commit'.vol = NoVolume /\ commit'.stage = "idle"
        /\ \A w \in Volumes : phase'[w] = "off" /\ session'[w] = Unmounted
    BY IdleTyped DEF ForgetHostState
  <1>2. /\ session' \in [Volumes -> SessionType] /\ phase' \in [Volumes -> Phases]
        /\ \A w \in Volumes : session'[w].xid = 0 /\ session'[w].pending = <<>>
    <2>1. Unmounted \in SessionType /\ Unmounted.xid = 0 /\ Unmounted.pending = <<>>
      BY <1>0 DEF Unmounted, SessionType
    <2>2. QED
      BY <2>1 DEF ForgetHostState, Phases
  <1>3. /\ Device' = Device /\ ckpt' = ckpt
    BY DEF Device
  <1>a. TypeOK'
    <2>1. /\ up' \in BOOLEAN /\ latched' \in BOOLEAN
          /\ pins' \in [Volumes -> SUBSET (1 .. MaxXid)]
          /\ unapplied' \in [Volumes -> BOOLEAN]
          /\ census' \in [Volumes -> [pins : SUBSET (1 .. MaxXid), unapplied : BOOLEAN]]
      BY DEF ForgetHostState, NoCensus
    <2>2. QED
      BY <1>0, <1>1, <1>2, <1>3, <2>1, IdleTyped DEF TypeOK, SessionType, CommitType, Device
  <1>c. CensusInv'
    BY <1>1 DEF CensusInv
  <1>d. DownInv'
    BY <1>1 DEF DownInv
  <1>e. XidInv'
    BY <1>0, <1>1, <1>2, <1>3 DEF XidInv
  <1>f. CommitInv'
    BY <1>1 DEF CommitInv
  <1>g. SessionInv'
    BY <1>0, <1>1, <1>2 DEF SessionInv, Settled
  <1>h. StartupInv'
    BY <1>1 DEF StartupInv, BootPhases
  <1> QED
    BY <1>a, <1>c, <1>d, <1>e, <1>f, <1>g, <1>h DEF IInv

\* DrainAndStop leaves the device and the journals as they are.
LEMMA DrainAndStopKeeps ==
    ASSUME IInv, DrainAndStop
    PROVE  IInv'
  <1>1. ForgetHostState /\ UNCHANGED <<device, journal>>
    BY DEF DrainAndStop
  <1>2. ChainInv' /\ JournalInv' /\ SourceInv'
    BY <1>1, DeviceAndJournalKept
  <1>3. floor' \in 1 .. MaxXid
    BY <1>1, Parts DEF TypeOK, device
  <1>4. QED
    BY <1>1, <1>2, <1>3, ForgetHostStateKeeps DEF device, journal

\* Crash may interrupt a publication, which keeps every generation that the
\* journals need.
LEMMA CrashKeeps ==
    ASSUME IInv, Crash
    PROVE  IInv'
  <1>1. Interrupted /\ ForgetHostState /\ UNCHANGED <<ckpt, wal, durable, cleaned>>
    BY DEF Crash, journal
  <1>2. ChainInv' /\ JournalInv' /\ SourceInv' /\ floor' \in 1 .. MaxXid
    BY <1>1, InterruptedKeeps
  <1>3. QED
    BY <1>1, <1>2, ForgetHostStateKeeps

-----------------------------------------------------------------------------
(* The commit's steps that publish.                                        *)

\* While a volume's commit holds the lock, the coordinator is open and not
\* latched, and the volume is serving or, alone in the startup, replaying.
LEMMA Committing ==
    ASSUME IInv, NEW v \in Volumes, commit.vol = v
    PROVE  /\ up /\ ~latched /\ commit # Idle /\ commit.stage # "idle"
           /\ commit.pre = session[v].xid /\ commit.pre # 0
           /\ v \in boot => /\ phase[v] = "replay"
                            /\ \A w \in boot \ {v} : phase[w] = "startup"
           /\ v \notin boot => boot = {} /\ phase[v] = "serving"
           /\ commit.kind = "replay" <=> v \in boot
  <1>0. CommitInv /\ DownInv /\ NoVolume \notin Volumes
    BY Parts
  <1>1. commit # Idle /\ commit.stage # "idle"
    BY <1>0, IdleTyped DEF CommitInv
  <1>2. v \in boot => phase[v] = "replay"
    BY <1>0 DEF CommitInv
  <1>3. v \in boot => \A w \in boot \ {v} : phase[w] = "startup"
    BY <1>2, OneAtATime
  <1>4. QED
    BY <1>0, <1>1, <1>2, <1>3 DEF CommitInv, DownInv

\* PublishFails latches: the sessions that are now behind are not used again.
LEMMA PublishFailsKeeps ==
    ASSUME IInv, NEW v \in Volumes, PublishFails(v)
    PROVE  IInv'
  <1>0. /\ TypeOK /\ JournalInv /\ CensusInv /\ CommitInv /\ StartupInv /\ DownInv
        /\ XidInv /\ SessionInv /\ ChainInv /\ SourceInv
        /\ phase \in [Volumes -> Phases] /\ MaxRecords \in Nat /\ NoVolume \notin Volumes
        /\ session \in [Volumes -> SessionType] /\ commit \in CommitType
        /\ Device \in Nat /\ Device \in 1 .. MaxXid /\ MaxXid \in Nat
    BY Parts
  <1>1. /\ UNCHANGED <<ckpt, journal, wal, durable, cleaned, up, ckptXid, pins, unapplied,
                       session, reader, boot, census>>
        /\ Interrupted /\ latched' = TRUE /\ commit.vol = v
        /\ commit' = Idle /\ commit'.vol = NoVolume /\ commit'.stage = "idle"
    BY IdleTyped DEF PublishFails, ReadyToPublish, journal
  <1>2. /\ up /\ ~latched
        /\ v \in boot => /\ phase[v] = "replay"
                         /\ \A w \in boot \ {v} : phase[w] = "startup"
        /\ v \notin boot => boot = {} /\ phase[v] = "serving"
    BY <1>1, Committing
  <1>3. /\ phase' \in [Volumes -> Phases]
        /\ phase'[v] = IF v \in boot THEN "degraded" ELSE "serving"
        /\ \A w \in Volumes \ {v} : phase'[w] = phase[w]
    BY <1>0 DEF PublishFails, AfterFailure, Phases
  <1>4. /\ ChainInv' /\ JournalInv' /\ SourceInv' /\ floor' \in 1 .. MaxXid
        /\ reader # 0 => floor' <= reader
    BY <1>1, InterruptedKeeps
  <1>5. /\ Device' = Device /\ ckpt' = ckpt /\ wal' = wal
        /\ \A w \in Volumes : Held(w)' = Held(w)
    BY <1>1 DEF Device, Held, Current
  <1>a. TypeOK'
    BY <1>0, <1>1, <1>3, <1>4, IdleTyped DEF TypeOK, journal, CommitType
  <1>b. ChainInv' /\ JournalInv' /\ SourceInv'
    BY <1>4
  <1>c. CensusInv'
    <2>1. \A w \in Volumes : Census(w)' = Census(w)
      BY <1>1 DEF Census, Sources, HasUnappliedAcceptedWork
    <2>2. QED
      BY <1>0, <1>1, <1>3, <1>5, <2>1 DEF CensusInv
  <1>d. DownInv'
    BY <1>1, <1>2 DEF DownInv
  <1>e. XidInv'
    BY <1>0, <1>1, <1>4, <1>5 DEF XidInv
  <1>f. CommitInv'
    BY <1>1 DEF CommitInv
  <1>g. SessionInv'
    <2>1. ASSUME NEW w \in Volumes, Settled(w)'
          PROVE  Settled(w)
      BY <1>0, <1>1, <1>2, <1>3, <2>1 DEF Settled
    <2>2. QED
      BY <1>0, <1>1, <1>5, <2>1 DEF SessionInv
  <1>h. StartupInv'
    <2>1. \A w \in boot : session'[w].xid # 0
      BY <1>0, <1>1 DEF StartupInv, TypeOK
    <2>2. QED
      BY <1>0, <1>1, <1>2, <1>3, <1>5, <2>1, StartupKept DEF BootPhases
  <1> QED
    BY <1>a, <1>b, <1>c, <1>d, <1>e, <1>f, <1>g, <1>h DEF IInv

\* VerifierFails latches, with the session on the checkpoint it published.
LEMMA VerifierFailsKeeps ==
    ASSUME IInv, NEW v \in Volumes, VerifierFails(v)
    PROVE  IInv'
  <1>0. /\ TypeOK /\ JournalInv /\ CensusInv /\ CommitInv /\ StartupInv /\ DownInv
        /\ XidInv /\ SessionInv /\ ChainInv /\ SourceInv
        /\ phase \in [Volumes -> Phases] /\ MaxRecords \in Nat /\ NoVolume \notin Volumes
        /\ session \in [Volumes -> SessionType] /\ commit \in CommitType
        /\ Device \in Nat /\ Device \in 1 .. MaxXid /\ MaxXid \in Nat
    BY Parts
  <1>1. /\ UNCHANGED <<device, journal, up, pins, unapplied, reader, boot, census>>
        /\ latched' = TRUE /\ commit.vol = v /\ commit.kind = "write"
        /\ commit' = Idle /\ commit'.vol = NoVolume /\ commit'.stage = "idle"
    BY IdleTyped DEF VerifierFails
  <1>2. up /\ ~latched /\ boot = {}
    BY <1>1, Committing
  <1>3. /\ session' \in [Volumes -> SessionType] /\ session'[v].xid = Device
        /\ session'[v].pending = <<>>
        /\ \A w \in Volumes \ {v} : session'[w] = session[w]
    <2> DEFINE s == [Loaded(FALSE) EXCEPT !.prepared = session[v].prepared]
    <2>0. session[v].prepared \in BOOLEAN
      BY <1>0 DEF SessionType
    <2>1. s \in SessionType /\ s.xid = Device /\ s.pending = <<>>
      <3>1. s = [xid |-> Device, prepared |-> session[v].prepared, pending |-> <<>>]
        BY DEF Loaded
      <3> HIDE DEF s
      <3>2. QED
        BY <1>0, <2>0, <3>1 DEF SessionType
    <2>2. session' = [session EXCEPT ![v] = s]
      BY DEF VerifierFails
    <2> HIDE DEF s
    <2>3. QED
      BY <1>0, <2>1, <2>2
  <1>4. phase' \in [Volumes -> Phases]
        /\ \A w \in Volumes : phase'[w] = "refresh" => phase[w] = "refresh"
    BY <1>0 DEF VerifierFails, Phases
  <1>5. ckptXid' = Device
    <2>1. ckptXid \in Nat /\ ckptXid <= Device
      BY <1>0 DEF XidInv, TypeOK
    <2>2. Max({ckptXid, Device}) = IF ckptXid >= Device THEN ckptXid ELSE Device
      BY <1>0, <2>1, MaxOfTwo
    <2>3. QED
      BY <1>0, <2>1, <2>2 DEF VerifierFails
  <1>6. /\ Device' = Device /\ ckpt' = ckpt /\ wal' = wal /\ floor' = floor
        /\ \A w \in Volumes : Held(w)' = Held(w)
    BY <1>1 DEF device, journal, Device, Held, Current
  <1>a. TypeOK'
    BY <1>0, <1>1, <1>3, <1>4, <1>5, IdleTyped
    DEF TypeOK, device, journal, SessionType, CommitType
  <1>b. ChainInv' /\ JournalInv' /\ SourceInv'
    BY <1>1, DeviceAndJournalKept
  <1>c. CensusInv'
    BY <1>1, <1>4, CensusKept
  <1>d. DownInv'
    BY <1>1, <1>2 DEF DownInv
  <1>e. XidInv'
    BY <1>0, <1>1, <1>3, <1>5, <1>6 DEF XidInv
  <1>f. CommitInv'
    BY <1>1 DEF CommitInv
  <1>g. SessionInv'
    BY <1>0, <1>1, <1>2 DEF SessionInv, Settled
  <1>h. StartupInv'
    <2>1. phase'[v] = "serving" /\ \A w \in Volumes \ {v} : phase'[w] = phase[w]
      BY <1>0 DEF VerifierFails
    <2>2. QED
      BY <1>1, <1>2, <1>6, <2>1, StartupKept DEF BootPhases
  <1> QED
    BY <1>a, <1>b, <1>c, <1>d, <1>e, <1>f, <1>g, <1>h DEF IInv

\* PublishComplete reloads the session; what its volume accepted is published.
LEMMA PublishCompleteKeeps ==
    ASSUME IInv, NEW v \in Volumes, PublishComplete(v)
    PROVE  IInv'
  <1>0. /\ TypeOK /\ JournalInv /\ CensusInv /\ CommitInv /\ StartupInv /\ DownInv
        /\ XidInv /\ SessionInv /\ ChainInv /\ SourceInv
        /\ phase \in [Volumes -> Phases] /\ MaxRecords \in Nat /\ NoVolume \notin Volumes
        /\ session \in [Volumes -> SessionType] /\ commit \in CommitType
        /\ Device \in Nat /\ Device \in 1 .. MaxXid /\ MaxXid \in Nat
    BY Parts
  <1>1. /\ UNCHANGED <<device, journal, up, latched, pins, reader, boot, census>>
        /\ commit.vol = v /\ commit.stage = "published"
        /\ commit' = Idle /\ commit'.vol = NoVolume /\ commit'.stage = "idle"
    BY IdleTyped DEF PublishComplete
  <1>2. /\ up /\ ~latched /\ Held(v) = Len(wal[v])
        /\ v \in boot => /\ phase[v] = "replay"
                         /\ \A w \in boot \ {v} : phase[w] = "startup"
        /\ v \notin boot => boot = {} /\ phase[v] = "serving"
    BY <1>0, <1>1, Committing DEF CommitInv
  <1>3. /\ session' \in [Volumes -> SessionType] /\ session'[v].xid = Device
        /\ session'[v].pending = <<>>
        /\ \A w \in Volumes \ {v} : /\ session'[w].xid = session[w].xid
                                    /\ session'[w].pending = session[w].pending
    <2>1. Loaded(TRUE) \in SessionType /\ Loaded(TRUE).xid = Device
          /\ Loaded(TRUE).pending = <<>>
      BY <1>0 DEF Loaded, SessionType
    <2>2. \A w \in Volumes : LET s == [session[w] EXCEPT !.prepared = FALSE]
                             IN  /\ s \in SessionType /\ s.xid = session[w].xid
                                 /\ s.pending = session[w].pending
      BY <1>0 DEF SessionType
    <2>3. session' = [w \in Volumes |-> IF w = v THEN Loaded(TRUE)
                                        ELSE [session[w] EXCEPT !.prepared = FALSE]]
      BY DEF PublishComplete
    <2>4. session'[v] = Loaded(TRUE)
      BY <2>3
    <2>5. \A w \in Volumes \ {v} : session'[w] = [session[w] EXCEPT !.prepared = FALSE]
      BY <2>3
    <2>6. session' \in [Volumes -> SessionType]
      BY <2>1, <2>2, <2>3
    <2>7. session'[v].xid = Device /\ session'[v].pending = <<>>
      BY <2>4 DEF Loaded
    <2>8. QED
      BY <2>2, <2>5, <2>6, <2>7
  <1>4. /\ unapplied' \in [Volumes -> BOOLEAN]
        /\ \A w \in Volumes \ {v} : unapplied'[w] = unapplied[w]
    <2>1. unapplied \in [Volumes -> BOOLEAN]
      BY <1>0 DEF TypeOK
    <2>2. unapplied' = [unapplied EXCEPT ![v] = unapplied[v] /\ commit.kind = "replay"]
      BY DEF PublishComplete
    <2>3. QED
      BY <2>1, <2>2
  <1>5. ckptXid' = Device
    <2>1. ckptXid \in Nat /\ ckptXid <= Device
      BY <1>0 DEF XidInv, TypeOK
    <2>2. Max({ckptXid, Device}) = IF ckptXid >= Device THEN ckptXid ELSE Device
      BY <1>0, <2>1, MaxOfTwo
    <2>3. QED
      BY <1>0, <2>1, <2>2 DEF PublishComplete
  <1>6. /\ Device' = Device /\ ckpt' = ckpt /\ wal' = wal /\ floor' = floor
        /\ cleaned' = cleaned /\ durable' = durable
        /\ \A w \in Volumes : Held(w)' = Held(w)
    BY <1>1 DEF device, journal, Device, Held, Current
  <1>7. /\ phase' \in [Volumes -> Phases] /\ phase'[v] = "published"
        /\ \A w \in Volumes \ {v} : phase'[w] = phase[w]
    BY <1>0 DEF PublishComplete, Phases
  <1>a. TypeOK'
    BY <1>0, <1>1, <1>3, <1>4, <1>5, <1>7, IdleTyped
    DEF TypeOK, device, journal, SessionType, CommitType
  <1>b. ChainInv' /\ JournalInv' /\ SourceInv'
    BY <1>1, DeviceAndJournalKept
  <1>c. CensusInv'
    <2>1. \A w \in Volumes : Census(w)' = Census(w)
      BY <1>6 DEF Census, Sources, HasUnappliedAcceptedWork
    <2>2. ~(Held(v) < Len(wal[v]))
      <3>1. Held(v) \in Nat
        BY <1>0, TypedFacts
      <3>2. QED
        BY <1>2, <3>1
    <2>3. QED
      BY <1>0, <1>1, <1>4, <1>6, <1>7, <2>1, <2>2 DEF CensusInv
  <1>d. DownInv'
    BY <1>1, <1>2 DEF DownInv
  <1>e. XidInv'
    BY <1>0, <1>1, <1>3, <1>5, <1>6 DEF XidInv
  <1>f. CommitInv'
    BY <1>1, <1>2 DEF CommitInv
  <1>g. SessionInv'
    <2>1. Len(ckpt'[session'[v].xid][v]) = Held(v)'
      BY <1>3, <1>6 DEF Held, Current
    <2>2. ASSUME NEW w \in Volumes, w # v
          PROVE  /\ session'[w].pending # <<>> =>
                        unapplied'[w] /\ session'[w].xid = Device' /\ Overlay(w)' /\ boot' = {}
                 /\ Settled(w)' => Len(ckpt'[session'[w].xid][w]) = Held(w)'
      BY <1>0, <1>1, <1>2, <1>3, <1>4, <1>6, <1>7, <2>2 DEF SessionInv, Settled, Overlay
    <2>3. QED
      BY <1>0, <1>1, <1>3, <2>1, <2>2 DEF SessionInv
  <1>h. StartupInv'
    <2>1. \A w \in boot : session'[w].xid # 0
      <3>1. session'[v].xid # 0
        BY <1>0, <1>3
      <3>2. \A w \in boot \ {v} : session'[w].xid # 0
        BY <1>0, <1>3 DEF StartupInv, TypeOK
      <3>3. QED
        BY <3>1, <3>2
    <2>2. QED
      BY <1>0, <1>1, <1>2, <1>6, <1>7, <2>1, StartupKept DEF BootPhases
  <1> QED
    BY <1>a, <1>b, <1>c, <1>d, <1>e, <1>f, <1>g, <1>h DEF IInv

\* RetentionCleanup drops the pins of the durable prefix only.
LEMMA RetentionCleanupKeeps ==
    ASSUME IInv, NEW v \in Volumes, RetentionCleanup(v)
    PROVE  IInv'
  <1>0. /\ TypeOK /\ JournalInv /\ CensusInv /\ CommitInv /\ StartupInv /\ DownInv
        /\ XidInv /\ SessionInv /\ ChainInv /\ SourceInv
        /\ phase \in [Volumes -> Phases] /\ MaxRecords \in Nat /\ NoVolume \notin Volumes
        /\ session \in [Volumes -> SessionType] /\ commit \in CommitType
        /\ Device \in Nat /\ Device \in 1 .. MaxXid /\ MaxXid \in Nat
    BY Parts
  <1>1. /\ UNCHANGED <<device, wal, durable, up, latched, ckptXid, unapplied, session,
                       reader, boot, phase, census>>
        /\ commit.vol = v /\ commit.stage \in {"begun", "accepted"}
    BY DEF RetentionCleanup, host
  <1>2. up /\ ~latched /\ phase[v] # "refresh"
    BY <1>1, Committing
  <1>3. /\ cleaned \in [Volumes -> 0 .. MaxRecords] /\ durable \in [Volumes -> 0 .. MaxRecords]
        /\ pins \in [Volumes -> SUBSET (1 .. MaxXid)]
        /\ \A w \in Volumes : durable[w] \in Nat /\ cleaned[w] \in Nat
                              /\ cleaned[w] <= durable[w] /\ durable[w] <= Held(w)
    BY <1>0, TypedFacts DEF TypeOK, JournalInv
  <1>4. /\ cleaned' \in [Volumes -> 0 .. MaxRecords] /\ cleaned'[v] = durable[v]
        /\ \A w \in Volumes \ {v} : cleaned'[w] = cleaned[w]
    BY <1>3 DEF RetentionCleanup
  <1>5. /\ commit' \in CommitType /\ commit'.vol = v /\ commit'.kind = commit.kind
        /\ commit'.pre = commit.pre /\ commit'.existing = commit.existing
        /\ commit'.stage \in {commit.stage, "refused", "blocked"}
    <2>1. \/ commit' = [commit EXCEPT !.tried = TRUE]
          \/ \E s \in {"refused", "blocked"} :
               commit' = [commit EXCEPT !.tried = TRUE, !.stage = s]
      BY DEF RetentionCleanup
    <2>2. QED
      BY <1>0, <1>1, <2>1 DEF CommitType, Stages
  <1>6. /\ pins' \in [Volumes -> SUBSET (1 .. MaxXid)]
        /\ Sources(wal[v], durable[v]) \subseteq pins'[v]
        /\ \A w \in Volumes \ {v} : pins'[w] = pins[w]
    <2>1. Sources(wal[v], durable[v]) \in SUBSET (1 .. MaxXid)
      BY <1>0, <1>3, SourcesTyped
    <2>2. CASE pins' = [pins EXCEPT ![v] = Sources(wal[v], durable[v])]
      BY <1>3, <2>1, <2>2
    <2>3. CASE pins' = pins
      <3>1. \A i \in durable[v] + 1 .. Len(wal[v]) : i \in cleaned[v] + 1 .. Len(wal[v])
        BY <1>0, <1>3, TypedFacts
      <3>2. Sources(wal[v], durable[v]) \subseteq pins[v]
        BY <1>0, <1>2, <3>1 DEF CensusInv, Sources
      <3>3. QED
        BY <1>3, <2>3, <3>2
    <2>4. QED
      BY <2>2, <2>3 DEF RetentionCleanup
  <1>7. /\ Device' = Device /\ ckpt' = ckpt /\ wal' = wal /\ floor' = floor
        /\ \A w \in Volumes : Held(w)' = Held(w)
    BY <1>1 DEF device, Device, Held, Current
  <1>a. TypeOK'
    BY <1>0, <1>1, <1>4, <1>5, <1>6 DEF TypeOK, device, CommitType
  <1>b. ChainInv' /\ JournalInv' /\ SourceInv'
    <2>1. \A w \in Volumes : cleaned'[w] = cleaned[w] \/ cleaned'[w] = durable[w]
      BY <1>4
    <2>2. \A w \in Volumes : cleaned[w] <= cleaned'[w] /\ cleaned'[w] <= durable[w]
      BY <1>3, <2>1
    <2>3. QED
      BY <1>1, <1>3, <1>4, <2>2, WatermarksRise
  <1>c. CensusInv'
    <2>1. \A i \in cleaned'[v] + 1 .. Len(wal'[v]) : wal'[v][i] \in pins'[v]
      BY <1>4, <1>6, <1>7 DEF Sources
    <2>2. ASSUME NEW w \in Volumes, w # v
          PROVE  Census(w)' = Census(w)
      BY <1>1, <1>4, <2>2 DEF Census, Sources, HasUnappliedAcceptedWork
    <2>3. QED
      BY <1>0, <1>1, <1>2, <1>4, <1>6, <1>7, <2>1, <2>2 DEF CensusInv
  <1>d. DownInv'
    BY <1>1, <1>2 DEF DownInv
  <1>e. XidInv'
    BY <1>0, <1>1, <1>5, <1>7 DEF XidInv
  <1>f. CommitInv'
    BY <1>0, <1>1, <1>2, <1>5, <1>7 DEF CommitInv
  <1>g. SessionInv'
    BY <1>0, <1>1, <1>5, <1>7 DEF SessionInv, Settled, Overlay
  <1>h. StartupInv'
    BY <1>0, <1>1, <1>7 DEF StartupInv, BootPhases
  <1> QED
    BY <1>a, <1>b, <1>c, <1>d, <1>e, <1>f, <1>g, <1>h DEF IInv

\* A record joins its journal: it names the newest checkpoint, which loads and
\* holds its volume as it is.
LEMMA JournalGrows ==
    ASSUME IInv, NEW v \in Volumes, commit.vol = v, commit.stage = "begun",
           commit.kind \in {"write", "defer"},
           wal' = [wal EXCEPT ![v] = Append(@, commit.pre)],
           UNCHANGED <<device, durable, cleaned>>
    PROVE  /\ wal' \in [Volumes -> Seq(1 .. MaxXid)]
           /\ \A w \in Volumes \ {v} : wal'[w] = wal[w]
           /\ Len(wal'[v]) = Len(wal[v]) + 1
           /\ \A i \in 1 .. Len(wal[v]) : wal'[v][i] = wal[v][i]
           /\ wal'[v][Len(wal[v]) + 1] = Device
           /\ ChainInv' /\ JournalInv' /\ SourceInv'
  <1>0. /\ TypeOK /\ JournalInv /\ CensusInv /\ CommitInv /\ StartupInv /\ DownInv
        /\ XidInv /\ SessionInv /\ ChainInv /\ SourceInv
        /\ phase \in [Volumes -> Phases] /\ MaxRecords \in Nat /\ NoVolume \notin Volumes
        /\ session \in [Volumes -> SessionType] /\ commit \in CommitType
        /\ Device \in Nat /\ Device \in 1 .. MaxXid /\ MaxXid \in Nat
    BY Parts
  <1>1. commit.pre = Device /\ Len(wal[v]) < MaxRecords
    BY <1>0 DEF CommitInv
  <1>2. /\ wal \in [Volumes -> Seq(1 .. MaxXid)] /\ wal[v] \in Seq(1 .. MaxXid)
        /\ \A w \in Volumes : Len(wal[w]) \in Nat /\ Held(w) \in Nat
                              /\ cleaned[w] \in Nat /\ durable[w] \in Nat
    BY <1>0, TypedFacts DEF TypeOK
  <1> DEFINE a == Append(wal[v], Device)
  <1>3. /\ a \in Seq(1 .. MaxXid) /\ Len(a) = Len(wal[v]) + 1
        /\ \A i \in 1 .. Len(wal[v]) : a[i] = wal[v][i]
        /\ a[Len(wal[v]) + 1] = Device
    BY <1>0, <1>2, AppendProperties
  <1>4. wal' = [wal EXCEPT ![v] = a]
    BY <1>1
  <1> HIDE DEF a
  <1>5. /\ wal' \in [Volumes -> Seq(1 .. MaxXid)] /\ wal'[v] = a
        /\ \A w \in Volumes \ {v} : wal'[w] = wal[w]
    BY <1>2, <1>3, <1>4
  <1>6. /\ Device' = Device /\ ckpt' = ckpt /\ floor' = floor
        /\ cleaned' = cleaned /\ durable' = durable
        /\ \A w \in Volumes : Held(w)' = Held(w)
    BY DEF device, Device, Held, Current
  <1>7. ChainInv'
    BY <1>0, <1>6 DEF ChainInv
  <1>8. JournalInv'
    <2>1. \A i \in 1 .. Len(wal'[v]) : wal'[v][i] <= Device
      BY <1>0, <1>2, <1>3, <1>5 DEF JournalInv
    <2>2. Held(v) <= Len(wal'[v]) /\ Len(wal'[v]) <= MaxRecords
      BY <1>0, <1>1, <1>2, <1>3, <1>5 DEF JournalInv
    <2>3. QED
      BY <1>0, <1>5, <1>6, <2>1, <2>2 DEF JournalInv
  <1>9. SourceInv'
    <2>1. ASSUME NEW i \in cleaned[v] + 1 .. Len(wal'[v])
          PROVE  /\ wal'[v][i] >= floor
                 /\ i <= Held(v) \/ Len(ckpt[wal'[v][i]][v]) = Held(v)
      <3>1. CASE i = Len(wal[v]) + 1
        <4>1. floor <= Device /\ Len(ckpt[Device][v]) = Held(v) /\ floor \in Nat
          BY <1>0 DEF ChainInv, Held, Current, TypeOK
        <4>2. QED
          BY <1>0, <1>3, <1>5, <3>1, <4>1
      <3>2. CASE i # Len(wal[v]) + 1
        <4>1. i \in cleaned[v] + 1 .. Len(wal[v]) /\ i \in 1 .. Len(wal[v])
          BY <1>2, <1>3, <1>5, <3>2
        <4>2. QED
          BY <1>0, <1>3, <1>5, <4>1 DEF SourceInv
      <3>3. QED
        BY <3>1, <3>2
    <2>2. ASSUME NEW w \in Volumes \ {v}, NEW i \in cleaned[w] + 1 .. Len(wal'[w])
          PROVE  /\ wal'[w][i] >= floor
                 /\ i <= Held(w) \/ Len(ckpt[wal'[w][i]][w]) = Held(w)
      <3>1. wal'[w] = wal[w]
        BY <1>5
      <3>2. QED
        BY <1>0, <3>1 DEF SourceInv
    <2>3. \A w \in Volumes : \A i \in cleaned[w] + 1 .. Len(wal'[w]) :
             /\ wal'[w][i] >= floor
             /\ i <= Held(w) \/ Len(ckpt[wal'[w][i]][w]) = Held(w)
      BY <2>1, <2>2
    <2>4. QED
      BY <1>6, <2>3 DEF SourceInv
  <1>10. QED
    BY <1>3, <1>5, <1>7, <1>8, <1>9

\* Accept journals a record that names the newest checkpoint, and pins it.
LEMMA AcceptKeeps ==
    ASSUME IInv, NEW v \in Volumes, Accept(v)
    PROVE  IInv'
  <1>0. /\ TypeOK /\ JournalInv /\ CensusInv /\ CommitInv /\ StartupInv /\ DownInv
        /\ XidInv /\ SessionInv /\ ChainInv /\ SourceInv
        /\ phase \in [Volumes -> Phases] /\ MaxRecords \in Nat /\ NoVolume \notin Volumes
        /\ session \in [Volumes -> SessionType] /\ commit \in CommitType
        /\ Device \in Nat /\ Device \in 1 .. MaxXid /\ MaxXid \in Nat
    BY Parts
  <1>1. /\ UNCHANGED <<device, durable, cleaned, up, latched, ckptXid, reader, boot,
                       phase, census>>
        /\ commit.vol = v /\ commit.stage = "begun" /\ commit.kind \in {"write", "defer"}
        /\ wal' = [wal EXCEPT ![v] = Append(@, commit.pre)]
    BY DEF Accept, host
  <1>2. /\ up /\ ~latched /\ boot = {} /\ phase[v] = "serving" /\ v \notin boot
        /\ commit.pre = session[v].xid /\ commit.pre # 0
    BY <1>1, Committing
  <1>3. /\ wal' \in [Volumes -> Seq(1 .. MaxXid)]
        /\ \A w \in Volumes \ {v} : wal'[w] = wal[w]
        /\ Len(wal'[v]) = Len(wal[v]) + 1
        /\ \A i \in 1 .. Len(wal[v]) : wal'[v][i] = wal[v][i]
        /\ wal'[v][Len(wal[v]) + 1] = Device
        /\ ChainInv' /\ JournalInv' /\ SourceInv'
    BY <1>1, JournalGrows
  <1>4. \A w \in Volumes : /\ Len(wal[w]) \in Nat /\ Held(w) \in Nat /\ cleaned[w] \in Nat
                           /\ Len(session[w].pending) \in Nat
                           /\ session[w].pending \in Seq(1 .. MaxRecords)
    BY <1>0, TypedFacts
  <1>5. /\ Device' = Device /\ ckpt' = ckpt /\ floor' = floor
        /\ cleaned' = cleaned /\ durable' = durable
        /\ \A w \in Volumes : Held(w)' = Held(w)
    BY <1>1 DEF device, Device, Held, Current
  <1>6. /\ pins' \in [Volumes -> SUBSET (1 .. MaxXid)]
        /\ Sources(wal'[v], cleaned[v]) \subseteq pins'[v]
        /\ \A w \in Volumes \ {v} : pins'[w] = pins[w]
    <2>1. pins \in [Volumes -> SUBSET (1 .. MaxXid)]
      BY <1>0 DEF TypeOK
    <2>2. Sources(wal'[v], cleaned[v]) \subseteq 1 .. MaxXid
      <3>1. wal'[v] \in Seq(1 .. MaxXid)
        BY <1>3
      <3>2. \A i \in cleaned[v] + 1 .. Len(wal'[v]) : i \in 1 .. Len(wal'[v])
        BY <1>3, <1>4
      <3>3. QED
        BY <3>1, <3>2, ElementOfSeq DEF Sources
    <2>3. pins' = [pins EXCEPT ![v] = pins[v] \union Sources(wal'[v], cleaned[v])]
      BY DEF Accept
    <2>4. QED
      BY <2>1, <2>2, <2>3
  <1>7. /\ unapplied' \in [Volumes -> BOOLEAN] /\ unapplied'[v]
        /\ \A w \in Volumes \ {v} : unapplied'[w] = unapplied[w]
    BY <1>0 DEF Accept, TypeOK
  <1>8. /\ session' \in [Volumes -> SessionType] /\ session'[v].xid = session[v].xid
        /\ \A w \in Volumes \ {v} : session'[w] = session[w]
        /\ Len(session'[v].pending) = Len(session[v].pending) + 1
        /\ \A k \in 1 .. Len(session[v].pending) : session'[v].pending[k] = session[v].pending[k]
        /\ session'[v].pending[Len(session[v].pending) + 1] = Len(wal[v]) + 1
    <2> DEFINE a == Append(session[v].pending, Len(wal[v]) + 1)
    <2>1. Len(wal[v]) + 1 \in 1 .. MaxRecords
      BY <1>0, <1>1, <1>4 DEF CommitInv
    <2>2. /\ a \in Seq(1 .. MaxRecords) /\ Len(a) = Len(session[v].pending) + 1
          /\ \A k \in 1 .. Len(session[v].pending) : a[k] = session[v].pending[k]
          /\ a[Len(session[v].pending) + 1] = Len(wal[v]) + 1
      BY <1>4, <2>1, AppendProperties
    <2>3. session' = [session EXCEPT ![v].pending = a]
      BY <1>3 DEF Accept
    <2> HIDE DEF a
    <2>4. session'[v].pending = a /\ session'[v].xid = session[v].xid
          /\ session' \in [Volumes -> SessionType]
          /\ \A w \in Volumes \ {v} : session'[w] = session[w]
      BY <1>0, <2>2, <2>3 DEF SessionType
    <2>5. QED
      BY <2>2, <2>4
  <1>9. /\ commit' \in CommitType /\ commit'.vol = v /\ commit'.kind = commit.kind
        /\ commit'.pre = commit.pre /\ commit'.existing = commit.existing
        /\ commit'.stage = "accepted"
    BY <1>0, <1>1 DEF Accept, CommitType, Stages
  <1>a. TypeOK'
    BY <1>0, <1>1, <1>3, <1>6, <1>7, <1>8, <1>9 DEF TypeOK, device, SessionType, CommitType
  <1>b. ChainInv' /\ JournalInv' /\ SourceInv'
    BY <1>3
  <1>c. CensusInv'
    <2>1. \A i \in cleaned'[v] + 1 .. Len(wal'[v]) : wal'[v][i] \in pins'[v]
      BY <1>5, <1>6 DEF Sources
    <2>2. ASSUME NEW w \in Volumes, w # v
          PROVE  Census(w)' = Census(w)
      BY <1>3, <1>5, <2>2 DEF Census, Sources, HasUnappliedAcceptedWork
    <2>3. ASSUME NEW w \in Volumes, w # v
          PROVE  /\ up' => /\ \A i \in cleaned'[w] + 1 .. Len(wal'[w]) : wal'[w][i] \in pins'[w]
                           /\ Held(w)' < Len(wal'[w]) => unapplied'[w]
                 /\ phase'[w] = "refresh" => census'[w] = Census(w)'
      <3>1. /\ wal'[w] = wal[w] /\ pins'[w] = pins[w] /\ unapplied'[w] = unapplied[w]
            /\ phase'[w] = phase[w] /\ census'[w] = census[w] /\ cleaned'[w] = cleaned[w]
            /\ Held(w)' = Held(w) /\ up' = up
        BY <1>1, <1>3, <1>5, <1>6, <1>7, <2>3
      <3>2. QED
        BY <1>0, <2>2, <2>3, <3>1 DEF CensusInv
    <2>4. QED
      BY <1>1, <1>2, <1>7, <2>1, <2>3 DEF CensusInv
  <1>d. DownInv'
    BY <1>1, <1>2 DEF DownInv
  <1>e. XidInv'
    BY <1>0, <1>1, <1>5, <1>8, <1>9 DEF XidInv
  <1>f. CommitInv'
    BY <1>0, <1>1, <1>2, <1>5, <1>7, <1>8, <1>9 DEF CommitInv
  <1>g. SessionInv'
    <2>1. Overlay(v)'
      <3>1. Overlay(v)
        BY <1>0, <1>1 DEF SessionInv
      <3>2. Len(session'[v].pending) = Len(wal'[v]) - Held(v)
        BY <1>3, <1>4, <1>8, <3>1 DEF Overlay
      <3>3. ASSUME NEW k \in 1 .. Len(session'[v].pending)
            PROVE  session'[v].pending[k] = Held(v) + k
        <4>1. CASE k = Len(session[v].pending) + 1
          BY <1>4, <1>8, <3>1, <4>1 DEF Overlay
        <4>2. CASE k # Len(session[v].pending) + 1
          <5>1. k \in 1 .. Len(session[v].pending)
            BY <1>4, <1>8, <4>2
          <5>2. QED
            BY <1>8, <3>1, <5>1 DEF Overlay
        <4>3. QED
          BY <4>1, <4>2
      <3>4. QED
        BY <1>5, <3>2, <3>3 DEF Overlay
    <2>2. ASSUME NEW w \in Volumes, w # v
          PROVE  /\ ~latched' /\ session'[w].pending # <<>> =>
                        unapplied'[w] /\ session'[w].xid = Device' /\ Overlay(w)' /\ boot' = {}
                 /\ Settled(w)' => Len(ckpt'[session'[w].xid][w]) = Held(w)'
      <3>1. /\ wal'[w] = wal[w] /\ unapplied'[w] = unapplied[w] /\ session'[w] = session[w]
            /\ Held(w)' = Held(w) /\ Device' = Device /\ ckpt' = ckpt /\ boot' = boot
        BY <1>1, <1>3, <1>5, <1>7, <1>8, <2>2
      <3>2. Overlay(w) => Overlay(w)'
        BY <3>1 DEF Overlay
      <3>3. Settled(w)' => Settled(w)
        BY <1>1, <1>2, <1>9, <2>2, <3>1 DEF Settled
      <3>4. ~latched' /\ session[w].pending # <<>> =>
               unapplied[w] /\ session[w].xid = Device /\ Overlay(w) /\ boot = {}
        BY <1>0, <1>1, <1>2, <2>2 DEF SessionInv
      <3>5. Settled(w) => Len(ckpt[session[w].xid][w]) = Held(w)
        BY <1>0 DEF SessionInv
      <3>6. QED
        BY <3>1, <3>2, <3>3, <3>4, <3>5
    <2>3. Settled(v)' => Len(ckpt'[session'[v].xid][v]) = Held(v)'
      BY <1>0, <1>1, <1>2, <1>5, <1>8, <1>9 DEF SessionInv, Settled
    <2>4. QED
      BY <1>9, <2>1, <2>2, <2>3 DEF SessionInv
  <1>h. StartupInv'
    BY <1>0, <1>1, <1>2, <1>3, <1>5 DEF StartupInv, BootPhases
  <1> QED
    BY <1>a, <1>b, <1>c, <1>d, <1>e, <1>f, <1>g, <1>h DEF IInv

\* AcceptFails pins the source whether or not the record reached the journal.
LEMMA AcceptFailsKeeps ==
    ASSUME IInv, NEW v \in Volumes, AcceptFails(v)
    PROVE  IInv'
  <1>0. /\ TypeOK /\ JournalInv /\ CensusInv /\ CommitInv /\ StartupInv /\ DownInv
        /\ XidInv /\ SessionInv /\ ChainInv /\ SourceInv
        /\ phase \in [Volumes -> Phases] /\ MaxRecords \in Nat /\ NoVolume \notin Volumes
        /\ session \in [Volumes -> SessionType] /\ commit \in CommitType
        /\ Device \in Nat /\ Device \in 1 .. MaxXid /\ MaxXid \in Nat
    BY Parts
  <1>1. /\ UNCHANGED <<device, durable, cleaned, up, ckptXid, reader, boot, census>>
        /\ commit.vol = v /\ commit.stage = "begun" /\ commit.kind \in {"write", "defer"}
        /\ wal' = wal \/ wal' = [wal EXCEPT ![v] = Append(@, commit.pre)]
    BY DEF AcceptFails
  <1>2. /\ up /\ ~latched /\ boot = {} /\ commit.pre = Device
    BY <1>0, <1>1, Committing DEF CommitInv
  <1>3. /\ wal' \in [Volumes -> Seq(1 .. MaxXid)]
        /\ \A w \in Volumes \ {v} : wal'[w] = wal[w]
        /\ \A i \in 1 .. Len(wal'[v]) : \/ i \in 1 .. Len(wal[v]) /\ wal'[v][i] = wal[v][i]
                                        \/ wal'[v][i] = Device
        /\ ChainInv' /\ JournalInv' /\ SourceInv'
    <2>1. CASE wal' = wal
      BY <1>0, <1>1, <2>1, DeviceAndJournalKept DEF TypeOK, journal
    <2>2. CASE wal' = [wal EXCEPT ![v] = Append(@, commit.pre)]
      <3>1. /\ wal' \in [Volumes -> Seq(1 .. MaxXid)]
            /\ \A w \in Volumes \ {v} : wal'[w] = wal[w]
            /\ Len(wal'[v]) = Len(wal[v]) + 1
            /\ \A i \in 1 .. Len(wal[v]) : wal'[v][i] = wal[v][i]
            /\ wal'[v][Len(wal[v]) + 1] = Device
            /\ ChainInv' /\ JournalInv' /\ SourceInv'
        BY <1>1, <2>2, JournalGrows
      <3>2. Len(wal[v]) \in Nat
        BY <1>0, TypedFacts
      <3>3. \A i \in 1 .. Len(wal'[v]) : i \in 1 .. Len(wal[v]) \/ i = Len(wal[v]) + 1
        BY <3>1, <3>2
      <3>4. QED
        BY <3>1, <3>3
    <2>3. QED
      BY <1>1, <2>1, <2>2
  <1>4. /\ commit' = Idle
        /\ session' \in [Volumes -> SessionType]
        /\ \A w \in Volumes \ {v} : session'[w] = session[w]
        /\ latched' \in BOOLEAN
        /\ session'[v].xid # 0 /\ session'[v].xid <= Device
        /\ ~latched' => session'[v].pending = <<>> /\ session'[v].xid = Device
    <2>1. (commit.existing \/ commit.kind = "defer") \in BOOLEAN
      OBVIOUS
    <2>2. QED
      BY <1>1, <1>2, <2>1, RefuseCommitEffect DEF AcceptFails
  <1>5. /\ Device' = Device /\ ckpt' = ckpt /\ floor' = floor
        /\ cleaned' = cleaned /\ durable' = durable
        /\ \A w \in Volumes : Held(w)' = Held(w)
    BY <1>1 DEF device, Device, Held, Current
  <1>6. /\ pins' \in [Volumes -> SUBSET (1 .. MaxXid)]
        /\ pins'[v] = pins[v] \union {Device}
        /\ \A w \in Volumes \ {v} : pins'[w] = pins[w]
    <2>1. pins \in [Volumes -> SUBSET (1 .. MaxXid)]
      BY <1>0 DEF TypeOK
    <2>2. pins' = [pins EXCEPT ![v] = pins[v] \union {Device}]
      BY <1>2 DEF AcceptFails, PinSourceOnHookFailure
    <2>3. QED
      BY <1>0, <2>1, <2>2
  <1>7. /\ unapplied' \in [Volumes -> BOOLEAN] /\ unapplied'[v]
        /\ \A w \in Volumes \ {v} : unapplied'[w] = unapplied[w]
    BY <1>0 DEF AcceptFails, PinSourceOnHookFailure, TypeOK
  <1>8. /\ phase' \in [Volumes -> Phases] /\ phase'[v] \in {"cleaned", "serving"}
        /\ \A w \in Volumes \ {v} : phase'[w] = phase[w]
    <2>1. \E p \in {"cleaned", "serving"} : phase' = [phase EXCEPT ![v] = p]
      BY DEF AcceptFails
    <2>2. QED
      BY <1>0, <2>1 DEF Phases
  <1>9. commit'.vol = NoVolume /\ commit'.stage = "idle" /\ commit' \in CommitType
    BY <1>4, IdleTyped
  <1>a. TypeOK'
    BY <1>0, <1>1, <1>3, <1>4, <1>6, <1>7, <1>8, <1>9
    DEF TypeOK, device, SessionType, CommitType
  <1>b. ChainInv' /\ JournalInv' /\ SourceInv'
    BY <1>3
  <1>c. CensusInv'
    <2>1. ASSUME NEW i \in cleaned[v] + 1 .. Len(wal'[v])
          PROVE  wal'[v][i] \in pins'[v]
      <3>1. cleaned[v] \in Nat /\ Len(wal[v]) \in Nat /\ Len(wal'[v]) \in Nat
        <4>1. wal'[v] \in Seq(1 .. MaxXid)
          BY <1>3
        <4>2. QED
          BY <1>0, <4>1, TypedFacts, LenProperties
      <3>2. i \in 1 .. Len(wal'[v])
        BY <3>1
      <3>3. CASE wal'[v][i] = Device
        BY <1>6, <3>3
      <3>4. CASE i \in 1 .. Len(wal[v]) /\ wal'[v][i] = wal[v][i]
        <4>1. i \in cleaned[v] + 1 .. Len(wal[v])
          BY <3>1, <3>4
        <4>2. QED
          BY <1>0, <1>2, <1>6, <3>4, <4>1 DEF CensusInv
      <3>5. QED
        BY <1>3, <3>2, <3>3, <3>4
    <2>2. ASSUME NEW w \in Volumes, w # v
          PROVE  Census(w)' = Census(w)
      BY <1>3, <1>5, <2>2 DEF Census, Sources, HasUnappliedAcceptedWork
    <2>3. ASSUME NEW w \in Volumes, w # v
          PROVE  /\ up' => /\ \A i \in cleaned'[w] + 1 .. Len(wal'[w]) : wal'[w][i] \in pins'[w]
                           /\ Held(w)' < Len(wal'[w]) => unapplied'[w]
                 /\ phase'[w] = "refresh" => census'[w] = Census(w)'
      <3>1. /\ wal'[w] = wal[w] /\ pins'[w] = pins[w] /\ unapplied'[w] = unapplied[w]
            /\ phase'[w] = phase[w] /\ census'[w] = census[w] /\ cleaned'[w] = cleaned[w]
            /\ Held(w)' = Held(w) /\ up' = up
        BY <1>1, <1>3, <1>5, <1>6, <1>7, <1>8, <2>3
      <3>2. QED
        BY <1>0, <2>2, <2>3, <3>1 DEF CensusInv
    <2>4. QED
      BY <1>5, <1>7, <1>8, <2>1, <2>3 DEF CensusInv
  <1>d. DownInv'
    BY <1>1, <1>2 DEF DownInv
  <1>e. XidInv'
    <2>1. ckptXid = Device
      BY <1>0, <1>1, <1>2 DEF XidInv
    <2>2. QED
      BY <1>0, <1>1, <1>4, <1>5, <2>1 DEF XidInv
  <1>f. CommitInv'
    BY <1>4, <1>9 DEF CommitInv
  <1>g. SessionInv'
    <2>1. Len(ckpt[Device][v]) = Held(v)
      BY DEF Held, Current
    <2>2. ASSUME NEW w \in Volumes, w # v
          PROVE  /\ ~latched' /\ session'[w].pending # <<>> =>
                        unapplied'[w] /\ session'[w].xid = Device' /\ Overlay(w)' /\ boot' = {}
                 /\ Settled(w)' => Len(ckpt'[session'[w].xid][w]) = Held(w)'
      <3>1. /\ wal'[w] = wal[w] /\ unapplied'[w] = unapplied[w] /\ session'[w] = session[w]
            /\ Held(w)' = Held(w) /\ Device' = Device /\ ckpt' = ckpt /\ boot' = boot
        BY <1>1, <1>3, <1>4, <1>5, <1>7, <2>2
      <3>2. Overlay(w) => Overlay(w)'
        BY <3>1 DEF Overlay
      <3>3. Settled(w)' => Settled(w)
        BY <1>1, <1>2, <1>9, <2>2, <3>1 DEF Settled
      <3>4. ~latched' /\ session[w].pending # <<>> =>
               unapplied[w] /\ session[w].xid = Device /\ Overlay(w) /\ boot = {}
        BY <1>0, <1>1, <1>2, <2>2 DEF SessionInv
      <3>5. Settled(w) => Len(ckpt[session[w].xid][w]) = Held(w)
        BY <1>0 DEF SessionInv
      <3>6. QED
        BY <3>1, <3>2, <3>3, <3>4, <3>5
    <2>3. Settled(v)' => Len(ckpt'[session'[v].xid][v]) = Held(v)'
      BY <1>1, <1>2, <1>4, <1>5, <2>1 DEF Settled
    <2>4. QED
      BY <1>0, <1>4, <1>9, <2>2, <2>3 DEF SessionInv
  <1>h. StartupInv'
    BY <1>0, <1>1, <1>2, <1>3, <1>5, <1>8 DEF StartupInv, BootPhases
  <1> QED
    BY <1>a, <1>b, <1>c, <1>d, <1>e, <1>f, <1>g, <1>h DEF IInv

\* A publication appends one checkpoint: the old ones stand, the volume's
\* content grows by its whole overlay, and no other volume changes.
LEMMA PublicationAppends ==
    ASSUME IInv, NEW v \in Volumes, PublishDevice(v)
    PROVE  /\ Device' = Device + 1
           /\ ckpt' \in Seq([Volumes -> Seq(1 .. MaxRecords)])
           /\ \A x \in 1 .. Device : ckpt'[x] = ckpt[x]
           /\ \A w \in Volumes \ {v} : ckpt'[Device + 1][w] = Current(w)
           /\ Counting(ckpt'[Device + 1][v])
           /\ Held(v)' = Len(wal[v])
           /\ \A w \in Volumes \ {v} : Held(w)' = Held(w)
  <1>0. /\ TypeOK /\ JournalInv /\ CensusInv /\ CommitInv /\ StartupInv /\ DownInv
        /\ XidInv /\ SessionInv /\ ChainInv /\ SourceInv
        /\ phase \in [Volumes -> Phases] /\ MaxRecords \in Nat /\ NoVolume \notin Volumes
        /\ session \in [Volumes -> SessionType] /\ commit \in CommitType
        /\ Device \in Nat /\ Device \in 1 .. MaxXid /\ MaxXid \in Nat
    BY Parts
  <1>1. /\ commit.vol = v /\ commit.pre = Device /\ commit.stage # "published"
        /\ ckpt' = Append(ckpt, [ckpt[commit.pre] EXCEPT ![v] = @ \o session[v].pending])
    BY DEF PublishDevice, ReadyToPublish
  <1>2. Overlay(v)
    BY <1>0, <1>1 DEF SessionInv
  <1>3. /\ ckpt \in Seq([Volumes -> Seq(1 .. MaxRecords)])
        /\ ckpt[Device] \in [Volumes -> Seq(1 .. MaxRecords)]
        /\ Current(v) \in Seq(1 .. MaxRecords) /\ session[v].pending \in Seq(1 .. MaxRecords)
        /\ Held(v) \in Nat /\ Len(wal[v]) \in Nat /\ Len(session[v].pending) \in Nat
        /\ Counting(Current(v))
    <2>1. ckpt \in Seq([Volumes -> Seq(1 .. MaxRecords)])
      BY <1>0 DEF TypeOK
    <2>2. ckpt[Device] \in [Volumes -> Seq(1 .. MaxRecords)]
      BY <1>0, <2>1, ElementOfSeq DEF Device
    <2>3. QED
      BY <1>0, <2>1, <2>2, TypedFacts DEF Current, ChainInv
  <1> DEFINE p == session[v].pending
             c == Current(v) \o p
             r == [ckpt[Device] EXCEPT ![v] = c]
  <1>4. /\ c \in Seq(1 .. MaxRecords) /\ Len(c) = Held(v) + Len(p)
        /\ \A i \in 1 .. Len(c) : c[i] = IF i <= Held(v) THEN Current(v)[i] ELSE p[i - Held(v)]
    BY <1>3, ConcatProperties DEF Held
  <1>5. Len(c) = Len(wal[v])
    BY <1>2, <1>3, <1>4 DEF Overlay
  <1>6. Counting(c)
    <2>1. ASSUME NEW i \in 1 .. Len(c)
          PROVE  c[i] = i
      <3>1. CASE i <= Held(v)
        BY <1>3, <1>4, <3>1 DEF Counting, Held
      <3>2. CASE ~(i <= Held(v))
        <4>1. i - Held(v) \in 1 .. Len(p)
          BY <1>3, <1>4, <3>2
        <4>2. p[i - Held(v)] = Held(v) + (i - Held(v))
          BY <1>2, <4>1 DEF Overlay
        <4> HIDE DEF c, p
        <4>3. QED
          BY <1>3, <1>4, <3>2, <4>2
      <3>3. QED
        BY <3>1, <3>2
    <2>2. QED
      BY <2>1 DEF Counting
  <1>7. ckpt' = Append(ckpt, r)
    BY <1>1 DEF Current
  <1> HIDE DEF c, p
  <1>8. /\ r \in [Volumes -> Seq(1 .. MaxRecords)] /\ r[v] = c
        /\ \A w \in Volumes \ {v} : r[w] = Current(w)
    BY <1>3, <1>4 DEF Current
  <1> HIDE DEF r
  <1>9. /\ ckpt' \in Seq([Volumes -> Seq(1 .. MaxRecords)]) /\ Len(ckpt') = Len(ckpt) + 1
        /\ \A x \in 1 .. Len(ckpt) : ckpt'[x] = ckpt[x]
        /\ ckpt'[Len(ckpt) + 1] = r
    BY <1>3, <1>7, <1>8, AppendProperties
  <1>10. /\ Device' = Device + 1 /\ ckpt'[Device + 1] = r
         /\ \A x \in 1 .. Device : ckpt'[x] = ckpt[x]
    BY <1>9 DEF Device
  <1>11. Held(v)' = Len(wal[v])
    BY <1>5, <1>8, <1>10 DEF Held, Current
  <1>12. \A w \in Volumes \ {v} : Held(w)' = Held(w)
    BY <1>8, <1>10 DEF Held, Current
  <1>13. QED
    BY <1>6, <1>8, <1>9, <1>10, <1>11, <1>12

\* PublishDevice adds a checkpoint that holds every record of the volume, keeps
\* every pinned generation, and makes no sibling's overlay stale.
LEMMA PublishDeviceKeeps ==
    ASSUME IInv, NEW v \in Volumes, PublishDevice(v)
    PROVE  IInv'
  <1>0. /\ TypeOK /\ JournalInv /\ CensusInv /\ CommitInv /\ StartupInv /\ DownInv
        /\ XidInv /\ SessionInv /\ ChainInv /\ SourceInv
        /\ phase \in [Volumes -> Phases] /\ MaxRecords \in Nat /\ NoVolume \notin Volumes
        /\ session \in [Volumes -> SessionType] /\ commit \in CommitType
        /\ Device \in Nat /\ Device \in 1 .. MaxXid /\ MaxXid \in Nat
    BY Parts
  <1>1. /\ UNCHANGED <<journal, wal, durable, cleaned, up, latched, ckptXid, pins, unapplied,
                       session, reader, boot, phase, census>>
        /\ commit.vol = v /\ commit.pre = Device /\ commit.stage # "published"
        /\ Device < MaxXid /\ floor' = RetainedFloor
    BY DEF PublishDevice, ReadyToPublish, journal, host
  <1>2. /\ up /\ ~latched /\ commit # Idle
        /\ commit.kind = "replay" <=> v \in boot
        /\ v \notin boot => boot = {}
        /\ phase[v] # "published"
    BY <1>1, Committing
  <1>3. /\ Device' = Device + 1
        /\ ckpt' \in Seq([Volumes -> Seq(1 .. MaxRecords)])
        /\ \A x \in 1 .. Device : ckpt'[x] = ckpt[x]
        /\ \A w \in Volumes \ {v} : ckpt'[Device + 1][w] = Current(w)
        /\ Counting(ckpt'[Device + 1][v])
        /\ Held(v)' = Len(wal[v])
        /\ \A w \in Volumes \ {v} : Held(w)' = Held(w)
    BY PublicationAppends
  <1>4. /\ floor' \in 1 .. Device
        /\ reader # 0 => floor' <= reader
        /\ \A w \in Volumes : \A i \in cleaned[w] + 1 .. Len(wal[w]) : floor' <= wal[w][i]
    BY <1>1, RetainedFloorIsBelow
  <1>5. \A w \in Volumes : /\ Len(wal[w]) \in Nat /\ Held(w) \in Nat
                           /\ cleaned[w] \in Nat /\ durable[w] \in Nat
                           /\ session[w].xid \in Nat
                           /\ \A i \in 1 .. Len(wal[w]) : wal[w][i] \in Nat /\ wal[w][i] >= 1
    BY <1>0, TypedFacts
  <1>6. \A w \in Volumes : Held(w) <= Held(w)' /\ Held(w)' <= Len(wal[w]) /\ Held(w)' \in Nat
    <2>1. \A w \in Volumes : Held(w) <= Len(wal[w])
      BY <1>0 DEF JournalInv
    <2>2. \A w \in Volumes : Held(w)' = Held(w) \/ Held(w)' = Len(wal[w])
      BY <1>3
    <2>3. QED
      BY <1>5, <2>1, <2>2
  <1>7. /\ commit' \in CommitType /\ commit'.vol = v /\ commit'.kind = commit.kind
        /\ commit'.pre = commit.pre /\ commit'.existing = commit.existing
        /\ commit'.stage = "published"
    BY <1>0, <1>1 DEF PublishDevice, CommitType, Stages
  <1>a. TypeOK'
    <2>1. Len(ckpt') \in 1 .. MaxXid
      BY <1>0, <1>1, <1>3 DEF Device
    <2>2. floor' \in 1 .. MaxXid
      BY <1>0, <1>4
    <2>3. QED
      BY <1>0, <1>1, <1>3, <1>7, <2>1, <2>2 DEF TypeOK, CommitType
  <1>b. ChainInv' /\ JournalInv' /\ SourceInv'
    <2>1. ChainInv'
      <3>1. ASSUME NEW x \in 1 .. Device', NEW w \in Volumes
            PROVE  Counting(ckpt'[x][w]) /\ Len(ckpt'[x][w]) <= Held(w)'
        <4>1. CASE x \in 1 .. Device
          <5>1. Counting(ckpt[x][w]) /\ Len(ckpt[x][w]) <= Held(w) /\ Len(ckpt[x][w]) \in Nat
            BY <1>0, <4>1, TypedFacts DEF ChainInv
          <5>2. ckpt'[x] = ckpt[x] /\ Held(w) <= Held(w)' /\ Held(w) \in Nat /\ Held(w)' \in Nat
            BY <1>3, <1>5, <1>6, <4>1
          <5>3. QED
            BY <5>1, <5>2
        <4>2. CASE x = Device + 1
          <5>1. Counting(ckpt'[Device + 1][w])
            <6>1. CASE w = v
              BY <1>3, <6>1
            <6>2. CASE w # v
              <7>1. Device \in 1 .. Device
                BY <1>0
              <7>2. Counting(ckpt[Device][w])
                BY <1>0, <7>1 DEF ChainInv
              <7>3. ckpt'[Device + 1][w] = ckpt[Device][w]
                BY <1>3, <6>2 DEF Current
              <7>4. QED
                BY <7>2, <7>3
            <6>3. QED
              BY <6>1, <6>2
          <5>2. Len(ckpt'[Device + 1][w]) = Held(w)'
            BY <1>3 DEF Held, Current
          <5>3. QED
            BY <1>6, <4>2, <5>1, <5>2
        <4>3. QED
          BY <1>0, <1>3, <4>1, <4>2
      <3>2. floor' <= Device'
        BY <1>0, <1>3, <1>4
      <3>3. QED
        BY <3>1, <3>2 DEF ChainInv
    <2>2. JournalInv'
      <3>1. ASSUME NEW w \in Volumes
            PROVE  /\ cleaned[w] <= durable[w] /\ durable[w] <= Held(w)'
                   /\ Held(w)' <= Len(wal[w]) /\ Len(wal[w]) <= MaxRecords
                   /\ \A i \in 1 .. Len(wal[w]) : wal[w][i] <= Device'
        <4>1. /\ cleaned[w] <= durable[w] /\ durable[w] <= Held(w) /\ Len(wal[w]) <= MaxRecords
              /\ \A i \in 1 .. Len(wal[w]) : wal[w][i] <= Device
          BY <1>0 DEF JournalInv
        <4>2. durable[w] <= Held(w)' /\ Held(w)' <= Len(wal[w])
          BY <1>5, <1>6, <4>1
        <4>3. ASSUME NEW i \in 1 .. Len(wal[w])
              PROVE  wal[w][i] <= Device'
          <5>1. wal[w][i] <= Device /\ wal[w][i] \in Nat
            BY <1>5, <4>1
          <5>2. QED
            BY <1>0, <1>3, <5>1
        <4>4. QED
          BY <4>1, <4>2, <4>3
      <3>2. QED
        BY <1>1, <3>1 DEF JournalInv
    <2>3. SourceInv'
      <3>1. ASSUME NEW w \in Volumes, NEW i \in cleaned[w] + 1 .. Len(wal[w])
            PROVE  /\ wal[w][i] >= floor'
                   /\ i <= Held(w)' \/ Len(ckpt'[wal[w][i]][w]) = Held(w)'
        <4>1. i \in 1 .. Len(wal[w])
          BY <1>5
        <4>2. wal[w][i] \in 1 .. Device
          BY <1>0, <1>5, <4>1 DEF JournalInv
        <4>3. wal[w][i] >= floor'
          <5>1. floor' <= wal[w][i] /\ floor' \in Nat /\ wal[w][i] \in Nat
            BY <1>0, <1>4, <4>2
          <5>2. QED
            BY <5>1
        <4>4. CASE w = v
          BY <1>3, <1>5, <4>1, <4>3, <4>4
        <4>5. CASE w # v
          <5>1. ckpt'[wal[w][i]] = ckpt[wal[w][i]] /\ Held(w)' = Held(w)
            BY <1>3, <4>2, <4>5
          <5>2. i <= Held(w) \/ Len(ckpt[wal[w][i]][w]) = Held(w)
            BY <1>0 DEF SourceInv
          <5>3. QED
            BY <4>3, <5>1, <5>2
        <4>6. QED
          BY <4>4, <4>5
      <3>2. QED
        BY <1>1, <3>1 DEF SourceInv
    <2>4. QED
      BY <2>1, <2>2, <2>3
  <1>c. CensusInv'
    <2>1. ASSUME NEW w \in Volumes
          PROVE  Census(w)' = Census(w)
      BY <1>1 DEF Census, Sources, HasUnappliedAcceptedWork
    <2>2. \A w \in Volumes : Held(w)' < Len(wal[w]) => Held(w) < Len(wal[w])
      BY <1>5, <1>6
    <2>3. QED
      BY <1>0, <1>1, <2>1, <2>2 DEF CensusInv
  <1>d. DownInv'
    BY <1>1, <1>2 DEF DownInv
  <1>e. XidInv'
    <2>1. /\ reader <= Device' /\ ckptXid <= Device'
          /\ \A w \in Volumes : session[w].xid <= Device'
      <3>1. reader \in Nat /\ ckptXid \in Nat
        BY <1>0 DEF TypeOK
      <3>2. QED
        BY <1>0, <1>3, <1>5, <3>1 DEF XidInv
    <2>2. QED
      BY <1>1, <1>4, <1>7, <2>1 DEF XidInv
  <1>f. CommitInv'
    BY <1>0, <1>1, <1>2, <1>3, <1>7 DEF CommitInv
  <1>g. SessionInv'
    <2>1. ASSUME NEW w \in Volumes, w # v
          PROVE  session[w].pending = <<>>
      <3>1. session[w].pending # <<>> => unapplied[w] /\ boot = {}
        BY <1>0, <1>1, <1>2, <2>1 DEF SessionInv
      <3>2. commit.kind # "replay" => ~unapplied[w]
        BY <1>0, <1>1, <2>1 DEF CommitInv
      <3>3. QED
        BY <1>2, <3>1, <3>2
    <2>2. ASSUME NEW w \in Volumes, Settled(w)'
          PROVE  Len(ckpt'[session'[w].xid][w]) = Held(w)'
      <3>1. w # v /\ Settled(w)
        BY <1>1, <1>2, <1>7, <2>2 DEF Settled
      <3>2. session[w].xid \in 1 .. Device
        BY <1>0, <1>5, <3>1 DEF XidInv, Settled
      <3>3. ckpt'[session[w].xid] = ckpt[session[w].xid] /\ Held(w)' = Held(w)
        BY <1>3, <3>1, <3>2
      <3>4. QED
        BY <1>0, <1>1, <3>1, <3>3 DEF SessionInv
    <2>3. QED
      BY <1>1, <1>7, <2>1, <2>2 DEF SessionInv
  <1>h. StartupInv'
    <2>1. \A w \in Volumes : phase[w] = "published" => Held(w)' = Held(w)
      BY <1>2, <1>3
    <2>2. QED
      BY <1>0, <1>1, <2>1 DEF StartupInv, BootPhases
  <1> QED
    BY <1>a, <1>b, <1>c, <1>d, <1>e, <1>f, <1>g, <1>h DEF IInv

-----------------------------------------------------------------------------
(* The invariant.                                                          *)

\* A fresh container with empty journals, and no host.
LEMMA InitIsInvariant == Init => IInv
  <1> SUFFICES ASSUME Init PROVE IInv
    OBVIOUS
  <1>0. NoVolume \notin Volumes /\ MaxXid \in Nat \ {0} /\ MaxRecords \in Nat
    BY VolumesAssumption, BoundsAssumption
  <1> DEFINE r == [v \in Volumes |-> <<>>]
  <1>1. /\ ckpt = <<r>> /\ Len(ckpt) = 1 /\ Device = 1 /\ ckpt[1] = r
        /\ r \in [Volumes -> Seq(1 .. MaxRecords)]
        /\ ckpt \in Seq([Volumes -> Seq(1 .. MaxRecords)])
        /\ \A v \in Volumes : r[v] = <<>>
    BY DEF Init, Device
  <1> HIDE DEF r
  <1>2. \A v \in Volumes : /\ Current(v) = <<>> /\ Held(v) = 0
                           /\ wal[v] = <<>> /\ Len(wal[v]) = 0 /\ wal[v] \in Seq(1 .. MaxXid)
                           /\ durable[v] = 0 /\ cleaned[v] = 0
                           /\ ckpt[1][v] = <<>> /\ Len(ckpt[1][v]) = 0
    BY <1>1 DEF Init, Current, Held
  <1>3. /\ session = [v \in Volumes |-> Unmounted] /\ session \in [Volumes -> SessionType]
        /\ \A v \in Volumes : session[v] = Unmounted /\ session[v].xid = 0
                              /\ session[v].pending = <<>>
        /\ commit = Idle /\ commit \in CommitType /\ commit.vol = NoVolume /\ commit.stage = "idle"
    <2>1. Unmounted \in SessionType /\ Unmounted.xid = 0 /\ Unmounted.pending = <<>>
      BY <1>0 DEF Unmounted, SessionType
    <2>2. QED
      BY <2>1, IdleTyped DEF Init
  <1>4. ~up /\ ~latched /\ reader = 0 /\ boot = {} /\ ckptXid = 0 /\ floor = 1
        /\ \A v \in Volumes : phase[v] = "off"
    BY DEF Init
  <1>a. TypeOK
    <2>1. /\ wal \in [Volumes -> Seq(1 .. MaxXid)]
          /\ durable \in [Volumes -> 0 .. MaxRecords] /\ cleaned \in [Volumes -> 0 .. MaxRecords]
      BY <1>0, <1>2 DEF Init
    <2>2. /\ up \in BOOLEAN /\ latched \in BOOLEAN
          /\ pins \in [Volumes -> SUBSET (1 .. MaxXid)] /\ unapplied \in [Volumes -> BOOLEAN]
          /\ census \in [Volumes -> [pins : SUBSET (1 .. MaxXid), unapplied : BOOLEAN]]
          /\ phase \in [Volumes -> Phases]
      BY DEF Init, NoCensus, Phases
    <2>3. QED
      BY <1>0, <1>1, <1>3, <1>4, <2>1, <2>2 DEF TypeOK, SessionType, CommitType
  <1>b. ChainInv
    BY <1>1, <1>2, <1>4 DEF ChainInv, Counting
  <1>c. JournalInv /\ SourceInv
    BY <1>0, <1>1, <1>2 DEF JournalInv, SourceInv
  <1>d. CensusInv /\ DownInv /\ StartupInv
    BY <1>3, <1>4 DEF CensusInv, DownInv, StartupInv, BootPhases
  <1>e. XidInv /\ CommitInv
    BY <1>1, <1>3, <1>4 DEF XidInv, CommitInv
  <1>f. SessionInv
    BY <1>0, <1>3 DEF SessionInv, Settled
  <1>g. QED
    BY <1>a, <1>b, <1>c, <1>d, <1>e, <1>f DEF IInv

\* A step that changes nothing.
LEMMA StutterKeeps ==
    ASSUME IInv, UNCHANGED vars
    PROVE  IInv'
  <1>1. UNCHANGED <<ckpt, floor, wal, durable, cleaned, up, latched, ckptXid, pins, unapplied,
                    session, commit, reader, boot, phase, census>>
    BY DEF vars, device, journal, coordinator, host
  <1>2. ChainInv' /\ JournalInv' /\ SourceInv'
    BY <1>1, DeviceAndJournalKept DEF device, journal
  <1>3. CensusInv'
    BY <1>1, CensusKept DEF device, journal
  <1>4. TypeOK' /\ DownInv' /\ XidInv' /\ StartupInv'
    BY <1>1 DEF IInv, TypeOK, DownInv, XidInv, StartupInv, Device, Held, Current
  <1>5. CommitInv' /\ SessionInv'
    BY <1>1 DEF IInv, CommitInv, SessionInv, Settled, Overlay, Device, Held, Current
  <1>6. QED
    BY <1>2, <1>3, <1>4, <1>5 DEF IInv

\* Every step of the container keeps the invariant.
LEMMA StepKeeps == IInv /\ [Next]_vars => IInv'
  <1> SUFFICES ASSUME IInv, [Next]_vars
               PROVE  IInv'
    OBVIOUS
  <1>1. ASSUME NEW v \in Volumes, CommitStep(v)
        PROVE  IInv'
    <2>1. ASSUME NEW kind \in Kinds, BeginCommit(v, kind)
          PROVE  IInv'
      BY <2>1, BeginCommitKeeps
    <2>2. CASE CommitReloadFails(v)
      BY <2>2, CommitReloadFailsKeeps
    <2>3. CASE StagingFails(v)
      BY <2>3, StagingFailsKeeps
    <2>4. CASE CapacityRefused(v)
      BY <2>4, CapacityRefusedKeeps
    <2>5. CASE RetentionCleanup(v)
      BY <2>5, RetentionCleanupKeeps
    <2>6. CASE Accept(v)
      BY <2>6, AcceptKeeps
    <2>7. CASE AcceptFails(v)
      BY <2>7, AcceptFailsKeeps
    <2>8. CASE DeferPublication(v)
      BY <2>8, DeferPublicationKeeps
    <2>9. CASE NothingToCommit(v)
      BY <2>9, NothingToCommitKeeps
    <2>10. CASE PublishDevice(v)
      BY <2>10, PublishDeviceKeeps
    <2>11. CASE PublishComplete(v)
      BY <2>11, PublishCompleteKeeps
    <2>12. CASE PublishFails(v)
      BY <2>12, PublishFailsKeeps
    <2>13. CASE VerifierFails(v)
      BY <2>13, VerifierFailsKeeps
    <2>14. QED
      BY <1>1, <2>1, <2>2, <2>3, <2>4, <2>5, <2>6, <2>7, <2>8, <2>9, <2>10, <2>11, <2>12, <2>13
      DEF CommitStep
  <1>2. ASSUME NEW v \in Volumes, HostStep(v)
        PROVE  IInv'
    <2>1. CASE MarkDurable(v)
      BY <2>1, MarkDurableKeeps
    <2>2. CASE MarkCleaned(v)
      BY <2>2, MarkCleanedKeeps
    <2>3. CASE CleanupDurableJournalPrefix(v)
      BY <2>3, CleanupDurableJournalPrefixKeeps
    <2>4. CASE LoadCensus(v)
      BY <2>4, LoadCensusKeeps
    <2>5. CASE UpdatePins(v)
      BY <2>5, UpdatePinsKeeps
    <2>6. CASE FinalizeFails(v)
      BY <2>6, FinalizeFailsKeeps
    <2>7. CASE SkipReplay(v)
      BY <2>7, SkipReplayKeeps
    <2>8. CASE ReplayProve(v)
      BY <2>8, ReplayProveKeeps
    <2>9. CASE ReplayCleanPrefix(v)
      BY <2>9, ReplayCleanPrefixKeeps
    <2>10. CASE ReplayFails(v)
      BY <2>10, ReplayFailsKeeps
    <2>11. CASE RefreshCheckpointFromSession(v)
      BY <2>11, RefreshCheckpointFromSessionKeeps
    <2>12. CASE UnmountVolume(v)
      BY <2>12, UnmountVolumeKeeps
    <2>13. QED
      BY <1>2, <2>1, <2>2, <2>3, <2>4, <2>5, <2>6, <2>7, <2>8, <2>9, <2>10, <2>11, <2>12
      DEF HostStep
  <1>3. CASE AcquireSnapshotReader
    BY <1>3, AcquireSnapshotReaderKeeps
  <1>4. CASE ReleaseReader
    BY <1>4, ReleaseReaderKeeps
  <1>5. CASE Open
    BY <1>5, OpenKeeps
  <1>6. CASE DrainAndStop
    BY <1>6, DrainAndStopKeeps
  <1>7. CASE Crash
    BY <1>7, CrashKeeps
  <1>8. CASE UNCHANGED vars
    BY <1>8, StutterKeeps
  <1>9. QED
    BY <1>1, <1>2, <1>3, <1>4, <1>5, <1>6, <1>7, <1>8 DEF Next

\* The invariant of the container: what its checkpoints, its journals, the
\* coordinator's census and the sessions of its volumes owe each other.
THEOREM ContainerInvariant == Spec => []IInv
  BY InitIsInvariant, StepKeeps, PTL DEF Spec

\* Every watermark, pin and checkpoint number stays inside its bound, and every
\* session, commit and phase is one the host can be in.
THEOREM ContainerTypeCorrect == Spec => []TypeOK
  <1>1. IInv => TypeOK
    BY DEF IInv
  <1>2. QED
    BY <1>1, ContainerInvariant, PTL

\* A volume that counts its records is the identity on its length.
LEMMA CountingIs ==
    ASSUME NEW s \in Seq(Nat), Counting(s)
    PROVE  s = [j \in 1 .. Len(s) |-> j]
  <1>1. s = [j \in 1 .. Len(s) |-> s[j]]
    BY LenProperties
  <1>2. QED
    BY <1>1 DEF Counting

\* What the newest checkpoint holds of a volume: the first records of its
\* journal, the durable ones among them.
LEMMA CurrentHolds ==
    ASSUME IInv, NEW v \in Volumes
    PROVE  /\ Range(Current(v)) = 1 .. Held(v)
           /\ Current(v) = [j \in 1 .. Held(v) |-> j]
           /\ Held(v) \in Nat /\ Held(v) \in 0 .. Len(wal[v])
           /\ durable[v] \in Nat /\ durable[v] <= Held(v)
  <1>0. TypeOK /\ ChainInv /\ JournalInv /\ Device \in Nat /\ Device \in 1 .. Device
    BY Parts, TypedFacts
  <1>1. Current(v) \in Seq(Nat) /\ Counting(Current(v))
    BY <1>0, TypedFacts DEF ChainInv, Current
  <1>2. /\ Held(v) \in Nat /\ Held(v) \in 0 .. Len(wal[v])
        /\ durable[v] \in Nat /\ durable[v] <= Held(v)
    <2>1. Held(v) \in Nat /\ Len(wal[v]) \in Nat /\ durable[v] \in Nat
      BY <1>0, TypedFacts
    <2>2. QED
      BY <1>0, <2>1 DEF JournalInv
  <1>3. QED
    BY <1>1, <1>2, CountingRange, CountingIs DEF Held

\* A record that the journal calls durable is in the newest checkpoint: what a
\* cleanup discards has been published.
THEOREM DurableRecordsArePublished == Spec => []DurableIsPublished
  <1>1. IInv => DurableIsPublished
    <2> SUFFICES ASSUME IInv, NEW v \in Volumes
                 PROVE  1 .. durable[v] \subseteq Range(Current(v))
      BY DEF DurableIsPublished
    <2>1. Range(Current(v)) = 1 .. Held(v) /\ durable[v] <= Held(v)
          /\ durable[v] \in Nat /\ Held(v) \in Nat
      BY CurrentHolds
    <2>2. QED
      BY <2>1
  <1>2. QED
    BY <1>1, ContainerInvariant, PTL

\* Across replays, retries and lost receipts the newest checkpoint holds a
\* prefix of each journal, each record once and in order.
THEOREM RecordsAreAppliedInOrder == Spec => []AppliedInOrder
  <1>1. IInv => AppliedInOrder
    <2> SUFFICES ASSUME IInv, NEW v \in Volumes
                 PROVE  \E n \in 0 .. Len(wal[v]) : Current(v) = [i \in 1 .. n |-> i]
      BY DEF AppliedInOrder
    <2>1. /\ Held(v) \in 0 .. Len(wal[v]) /\ Current(v) = [i \in 1 .. Held(v) |-> i]
      BY CurrentHolds
    <2>2. QED
      BY <2>1
  <1>2. QED
    BY <1>1, ContainerInvariant, PTL

\* Whatever happens, a restart can decide every accepted record: its source
\* checkpoint still loads, and a record that is in no checkpoint was accepted
\* against the volume as the newest checkpoint has it.
THEOREM RecoveryIsProvable == Spec => []RecoveryProvable
  <1>1. IInv => RecoveryProvable
    <2> SUFFICES ASSUME IInv, NEW v \in Volumes, NEW i \in cleaned[v] + 1 .. Len(wal[v])
                 PROVE  /\ wal[v][i] >= floor
                        /\ \/ i \in Range(Current(v))
                           \/ ckpt[wal[v][i]][v] = Current(v)
      BY DEF RecoveryProvable
    <2>0. TypeOK /\ SourceInv /\ JournalInv /\ ChainInv /\ Device \in Nat
      BY Parts
    <2>1. /\ Range(Current(v)) = 1 .. Held(v) /\ Held(v) \in Nat
          /\ Current(v) = [j \in 1 .. Held(v) |-> j]
      BY CurrentHolds
    <2>2. wal[v][i] >= floor /\ (i <= Held(v) \/ Len(ckpt[wal[v][i]][v]) = Held(v))
      BY <2>0 DEF SourceInv
    <2>3. i \in 1 .. Len(wal[v]) /\ wal[v][i] \in 1 .. Device
      <3>1. /\ cleaned[v] \in Nat /\ Len(wal[v]) \in Nat
            /\ \A j \in 1 .. Len(wal[v]) : wal[v][j] \in Nat /\ wal[v][j] >= 1
        BY <2>0, TypedFacts
      <3>2. i \in 1 .. Len(wal[v])
        BY <3>1
      <3>3. wal[v][i] <= Device
        BY <2>0, <3>2 DEF JournalInv
      <3>4. QED
        BY <2>0, <3>1, <3>2, <3>3
    <2>4. CASE i <= Held(v)
      BY <2>1, <2>2, <2>3, <2>4
    <2>5. CASE Len(ckpt[wal[v][i]][v]) = Held(v)
      <3>1. ckpt[wal[v][i]][v] \in Seq(Nat) /\ Counting(ckpt[wal[v][i]][v])
        BY <2>0, <2>3, TypedFacts DEF ChainInv
      <3>2. ckpt[wal[v][i]][v] = [j \in 1 .. Held(v) |-> j]
        BY <2>5, <3>1, CountingIs
      <3>3. QED
        BY <2>1, <2>2, <3>2
    <2>6. QED
      BY <2>2, <2>4, <2>5
  <1>2. QED
    BY <1>1, ContainerInvariant, PTL

\* The coordinator's census never forgets the journal: every source still
\* needed is pinned, and a volume with unpublished records is marked.
THEOREM CensusIsComplete == Spec => []CensusCoversJournal
  <1>1. IInv => CensusCoversJournal
    <2> SUFFICES ASSUME IInv, up, NEW v \in Volumes
                 PROVE  /\ Sources(wal[v], cleaned[v]) \subseteq pins[v]
                        /\ (\E i \in 1 .. Len(wal[v]) : i \notin Range(Current(v)))
                             => unapplied[v]
      BY DEF CensusCoversJournal
    <2>0. CensusInv /\ TypeOK
      BY Parts
    <2>1. Sources(wal[v], cleaned[v]) \subseteq pins[v]
      BY <2>0 DEF CensusInv, Sources
    <2>2. Range(Current(v)) = 1 .. Held(v) /\ Held(v) \in Nat
      BY CurrentHolds
    <2>3. Len(wal[v]) \in Nat
      BY <2>0, TypedFacts
    <2>4. QED
      BY <2>0, <2>1, <2>2, <2>3 DEF CensusInv
  <1>2. QED
    BY <1>1, ContainerInvariant, PTL

\* A registered snapshot reader's checkpoint keeps its blocks.
THEOREM ReadersStayLoadable == Spec => []ReaderLoadable
  <1>1. IInv => ReaderLoadable
    <2> SUFFICES ASSUME IInv, reader # 0
                 PROVE  reader >= floor
      BY DEF ReaderLoadable
    <2>1. floor <= reader /\ floor \in Nat /\ reader \in Nat
      BY Parts DEF XidInv, TypeOK
    <2>2. QED
      BY <2>1
  <1>2. QED
    BY <1>1, ContainerInvariant, PTL

\* A commit is staged and journalled on the newest checkpoint: no session,
\* reused or holding an accepted overlay, is stale when a commit works on it.
THEOREM PreimagesAreCurrent == Spec => []PreimageCurrent
  <1>1. IInv => PreimageCurrent
    BY Parts, IdleTyped DEF PreimageCurrent, CommitInv
  <1>2. QED
    BY <1>1, ContainerInvariant, PTL

-----------------------------------------------------------------------------
(* The container implements the accepted log.                              *)

\* Empty journals are an empty log.
LEMMA LogStartsEmpty == Init => AL!Init
  <1> SUFFICES ASSUME Init PROVE AL!Init
    OBVIOUS
  <1>1. IInv
    BY InitIsInvariant
  <1>2. \A v \in Volumes : Len(wal[v]) = 0 /\ Len(Current(v)) = 0
    BY DEF Init, Current, Device
  <1>3. [v \in Volumes |-> Len(wal[v])] = [v \in Volumes |-> 0]
    BY <1>2
  <1>4. [v \in Volumes |-> Len(Current(v))] = [v \in Volumes |-> 0]
    BY <1>2
  <1>5. QED
    BY <1>3, <1>4 DEF AL!Init, Init

\* A step that leaves the checkpoints, the journals and the durable marks
\* alone is no step of the log.
LEMMA LogUnmoved ==
    ASSUME UNCHANGED <<ckpt, wal, durable>>
    PROVE  UNCHANGED AL!vars
  <1>1. [v \in Volumes |-> Len(wal[v])]' = [v \in Volumes |-> Len(wal[v])]
    OBVIOUS
  <1>2. [v \in Volumes |-> Len(Current(v))]' = [v \in Volumes |-> Len(Current(v))]
    BY DEF Current, Device
  <1>3. QED
    BY <1>1, <1>2 DEF AL!vars

\* A journal that grows by one record, while no sibling has unpublished
\* records, is an acceptance.
LEMMA GrowthIsAcceptance ==
    ASSUME IInv, NEW v \in Volumes, commit.vol = v, commit.stage = "begun",
           commit.kind \in {"write", "defer"},
           wal' = [wal EXCEPT ![v] = Append(@, commit.pre)],
           UNCHANGED <<device, durable, cleaned>>
    PROVE  AL!Accept(v)
  <1> DEFINE acc == [u \in Volumes |-> Len(wal[u])]
             pub == [u \in Volumes |-> Len(Current(u))]
  <1>0. /\ TypeOK /\ CensusInv /\ CommitInv /\ JournalInv /\ NoVolume \notin Volumes
    BY Parts
  <1>1. up
    BY Committing
  <1>2. ASSUME NEW w \in Volumes \ {v}
        PROVE  pub[w] = acc[w]
    <2>1. ~unapplied[w]
      BY <1>0 DEF CommitInv
    <2>2. ~(Held(w) < Len(wal[w]))
      BY <1>0, <1>1, <2>1 DEF CensusInv
    <2>3. Held(w) \in Nat /\ Len(wal[w]) \in Nat /\ Held(w) <= Len(wal[w])
      BY <1>0, TypedFacts DEF JournalInv
    <2>4. QED
      BY <2>2, <2>3 DEF Held
  <1>3. /\ \A w \in Volumes \ {v} : wal'[w] = wal[w]
        /\ Len(wal'[v]) = Len(wal[v]) + 1
    BY JournalGrows
  <1>4. acc' = [acc EXCEPT ![v] = acc[v] + 1]
    <2>1. \A u \in Volumes : Len(wal'[u]) = IF u = v THEN Len(wal[v]) + 1 ELSE Len(wal[u])
      BY <1>3
    <2>2. QED
      BY <2>1
  <1>5. pub' = pub
    BY DEF Current, Device, device
  <1>6. QED
    BY <1>2, <1>4, <1>5 DEF AL!Accept

\* Every step of the container is a step of the log, or leaves it unmoved.
LEMMA LogStep == IInv /\ [Next]_vars => [AL!Next]_(AL!vars)
  <1> SUFFICES ASSUME IInv, [Next]_vars
               PROVE  AL!Next \/ UNCHANGED AL!vars
    OBVIOUS
  <1> DEFINE acc == [u \in Volumes |-> Len(wal[u])]
             pub == [u \in Volumes |-> Len(Current(u))]
  <1>1. ASSUME NEW v \in Volumes, CommitStep(v)
        PROVE  AL!Next \/ UNCHANGED AL!vars
    <2>1. ASSUME NEW kind \in Kinds, BeginCommit(v, kind)
          PROVE  UNCHANGED AL!vars
      BY <2>1, LogUnmoved DEF BeginCommit, device, journal
    <2>2. CASE CommitReloadFails(v) \/ StagingFails(v) \/ CapacityRefused(v)
      BY <2>2, LogUnmoved
      DEF CommitReloadFails, StagingFails, CapacityRefused, device, journal
    <2>3. CASE RetentionCleanup(v) \/ DeferPublication(v) \/ NothingToCommit(v)
      BY <2>3, LogUnmoved
      DEF RetentionCleanup, DeferPublication, NothingToCommit, device, journal
    <2>4. CASE PublishComplete(v) \/ PublishFails(v) \/ VerifierFails(v)
      BY <2>4, LogUnmoved DEF PublishComplete, PublishFails, VerifierFails, device, journal
    <2>5. CASE Accept(v)
      <3>1. AL!Accept(v)
        BY <2>5, GrowthIsAcceptance DEF Accept
      <3>2. QED
        BY <3>1 DEF AL!Next
    <2>6. CASE AcceptFails(v)
      <3>1. CASE wal' = wal
        BY <2>6, <3>1, LogUnmoved DEF AcceptFails, device
      <3>2. CASE wal' = [wal EXCEPT ![v] = Append(@, commit.pre)]
        <4>1. AL!Accept(v)
          BY <2>6, <3>2, GrowthIsAcceptance DEF AcceptFails
        <4>2. QED
          BY <4>1 DEF AL!Next
      <3>3. QED
        BY <2>6, <3>1, <3>2 DEF AcceptFails
    <2>7. CASE PublishDevice(v)
      <3>1. /\ Held(v)' = Len(wal[v])
            /\ \A w \in Volumes \ {v} : Held(w)' = Held(w)
        BY <2>7, PublicationAppends
      <3>2. Held(v) < Len(wal[v])
        <4>1. Overlay(v) /\ TypeOK /\ session[v].pending # <<>>
          BY <2>7, Parts DEF PublishDevice, ReadyToPublish, SessionInv
        <4>2. /\ session[v].pending \in Seq(1 .. MaxRecords) /\ Len(wal[v]) \in Nat
              /\ Held(v) \in Nat /\ Len(session[v].pending) \in Nat
          BY <4>1, TypedFacts
        <4>3. Len(session[v].pending) # 0
          BY <4>1, <4>2, EmptySeq
        <4>4. QED
          BY <4>1, <4>2, <4>3 DEF Overlay
      <3>3. pub' = [pub EXCEPT ![v] = acc[v]] /\ pub[v] < acc[v]
        BY <3>1, <3>2 DEF Held
      <3>4. acc' = acc /\ durable' = durable
        BY <2>7 DEF PublishDevice, journal
      <3>5. AL!Publish(v)
        BY <3>3, <3>4 DEF AL!Publish
      <3>6. QED
        BY <3>5 DEF AL!Next
    <2>8. QED
      BY <1>1, <2>1, <2>2, <2>3, <2>4, <2>5, <2>6, <2>7 DEF CommitStep
  <1>2. ASSUME NEW v \in Volumes, HostStep(v)
        PROVE  AL!Next \/ UNCHANGED AL!vars
    <2>1. CASE MarkCleaned(v) \/ CleanupDurableJournalPrefix(v) \/ LoadCensus(v)
      BY <2>1, LogUnmoved
      DEF MarkCleaned, CleanupDurableJournalPrefix, LoadCensus, device, journal
    <2>2. CASE UpdatePins(v) \/ FinalizeFails(v) \/ SkipReplay(v) \/ ReplayCleanPrefix(v)
      BY <2>2, LogUnmoved
      DEF UpdatePins, FinalizeFails, SkipReplay, ReplayCleanPrefix, device, journal
    <2>3. CASE ReplayFails(v) \/ RefreshCheckpointFromSession(v) \/ UnmountVolume(v)
      BY <2>3, LogUnmoved
      DEF ReplayFails, RefreshCheckpointFromSession, UnmountVolume, device, journal
    <2>4. ASSUME durable' = [durable EXCEPT ![v] = Held(v)], UNCHANGED <<device, wal>>
          PROVE  AL!Next
      <3>1. acc' = acc /\ pub' = pub
        BY <2>4 DEF Current, Device, device
      <3>2. durable' = [durable EXCEPT ![v] = pub[v]]
        BY <2>4 DEF Held
      <3>3. AL!Mark(v)
        BY <3>1, <3>2 DEF AL!Mark
      <3>4. QED
        BY <3>3 DEF AL!Next
    <2>5. CASE MarkDurable(v)
      <3>1. Held(v) = Len(wal[v])
        BY <2>5, MarkedIsPublished
      <3>2. QED
        BY <2>4, <2>5, <3>1 DEF MarkDurable
    <2>6. CASE ReplayProve(v)
      <3>1. durable' = [durable EXCEPT ![v] = Held(v)]
        BY <2>6, ReplayView
      <3>2. QED
        BY <2>4, <2>6, <3>1 DEF ReplayProve
    <2>7. QED
      BY <1>2, <2>1, <2>2, <2>3, <2>5, <2>6 DEF HostStep
  <1>3. CASE AcquireSnapshotReader \/ ReleaseReader \/ Open \/ DrainAndStop \/ Crash
    BY <1>3, LogUnmoved DEF AcquireSnapshotReader, ReleaseReader, Open, DrainAndStop, Crash,
                            device, journal
  <1>4. CASE UNCHANGED vars
    BY <1>4, LogUnmoved DEF vars, device, journal
  <1>5. QED
    BY <1>1, <1>2, <1>3, <1>4 DEF Next

\* The container implements the accepted log: every acceptance is published
\* once, in order and with all before it, while no sibling has a claim, and no
\* mark passes what is published, crashes and replays included.
THEOREM ContainerImplementsAcceptedLog == Spec => ImplementsAcceptedLog
  <1>1. Init => AL!Init
    BY LogStartsEmpty
  <1>2. IInv /\ [Next]_vars => [AL!Next]_(AL!vars)
    BY LogStep
  <1>3. QED
    BY <1>1, <1>2, ContainerInvariant, PTL DEF Spec, ImplementsAcceptedLog, AL!Spec

=============================================================================
