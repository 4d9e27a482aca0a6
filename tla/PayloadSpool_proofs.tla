------------------------- MODULE PayloadSpool_proofs -------------------------
(***************************************************************************)
(* Proofs about the payload spool: for every number of writes, threshold   *)
(* and quota, the three invariants of module PayloadSpool.                 *)
(*                                                                         *)
(* The inductive invariant IInv has a half that holds at every moment,     *)
(* also while the host is down (Stored), and a half about what the process *)
(* has in memory at the step it is at (Running).  The argument: payload    *)
(* that an accepted record needs is in both versions of the file, and no   *)
(* removal of the file is pending while it does (Kept), so neither the     *)
(* flush of a directory nor a power loss loses it; a serving host has a    *)
(* range for it, which keeps cleanup from removing the file (Live).  A     *)
(* range belongs to a record that is not cleaned, to a buffered one or to  *)
(* the write in progress (Origin), so without any of these nothing is      *)
(* left.  An index is never there without bytes (IndexBacked), although    *)
(* the two files are removed one after the other, so a start that finds an *)
(* index finds bytes as well.                                              *)
(*                                                                         *)
(* Why a start refuses takes a second invariant, Cells: the bytes of a     *)
(* write are only at the place of its record (Placed); records that are    *)
(* not cleaned have ascending places (Ascending); and the last cell that a *)
(* kill or a power loss can leave is never that of a cleaned record        *)
(* (Tails), because a prefix is marked cleaned only when an owed record    *)
(* lies behind it in both versions of the file, or when the file is gone   *)
(* and nothing of it can come back but bytes of no record (Vanished).      *)
(***************************************************************************)
EXTENDS PayloadSpool, SequenceTheorems, WellFoundedInduction, TLAPS

Rng == [seq : Nat, off : Nat \ {0}, id : Nat]
Rec == [off : Nat \ {0}, id : Nat, inline : BOOLEAN]
Idx == [there : BOOLEAN, torn : BOOLEAN, ranges : SUBSET Rng, size : Nat]
Files == [file : Seq(Int), index : Idx]
Memory == [ranges : SUBSET Rng, next : Nat, unsynced : Nat, dirty : BOOLEAN,
           pending : SUBSET Rng, snapshot : BOOLEAN, started : BOOLEAN]

TypeInv ==
    /\ seen \in Files /\ stable \in Files /\ gone \in SUBSET {"file", "index"}
    /\ spool \in Memory /\ buffered \in Seq(Rec) /\ log \in Seq(Rec)
    /\ durable \in Nat /\ cleaned \in Nat /\ published \in Nat /\ writes \in Nat

\* Records whose checkpoint is not marked durable.
Owed == durable + 1 .. Len(log)

Steps == {"flush", "index", "frame"}
AppendTask == {"append", "append inline"}

\* A write is in progress; or the record of one was refused.
Appending == pc = "record" \/ (pc \in Steps /\ task \in AppendTask)
Discarding == pc = "discard" \/ (pc \in Steps /\ task = "discard")

\* The host serves, up to the mark that ends a drain; or it clears what a
\* refused write left.
Serving ==
    \/ pc \in {"serve", "log", "final"}
    \/ pc = "commit" /\ task = "drain"
    \/ Appending \/ Discarding
    \/ pc \in Steps /\ task \in {"accept", "drain", "final"}
    \/ pc \in {"index", "frame"} /\ task = "discarded"

\* A start recovers, or ranges are retired.
Starting == pc \in {"prefix", "restore", "restored"} \/ task = "clean"

\* The process has the spool open.
Up == pc \notin {"down", "blocked", "refused"}

\* What each step can be done for.
TaskInv ==
    \/ pc \in {"serve", "down", "refused", "rebuild", "resolve", "prefix", "restore", "restored"}
       /\ task = "none"
    \/ pc = "flush" /\ task \in AppendTask \cup {"accept", "drain", "final", "clean", "discard"}
    \/ pc \in {"index", "frame"} /\
       task \in AppendTask \cup {"final", "clean", "discard", "discarded"}
    \/ pc = "record" /\ task \in AppendTask
    \/ pc = "log" /\ task \in {"accept", "drain"}
    \/ pc = "commit" /\ task \in {"drain", "replay"}
    \/ pc = "final" /\ task = "drain"
    \/ pc = "mark" /\ task \in {"final", "replay"}
    \/ pc \in {"clean", "cleaned"} /\ task = "clean"
    \/ pc = "discard" /\ task = "discard"
    \/ pc = "unlink" /\ task \in {"clean", "discarded", "rebuild"}
    \/ pc = "remove" /\ task \in {"clean", "discarded", "rebuild", "resolve"}
    \/ pc = "blocked" /\ task \in {"none", "discarded"}

---------------------------------------------------------------------------
(* What holds at every moment.                                             *)

\* The journal's watermarks, in their order.
Order == cleaned <= durable /\ durable <= published /\ published <= Len(log)

\* The payload of owed records that do not carry it, in both versions of the
\* file; no removal of the file is pending while there is any.
Kept ==
    /\ \A s \in Owed : ~log[s].inline => Holds(stable.file, Ref(s)) /\ Holds(seen.file, Ref(s))
    /\ "file" \in gone => \A s \in Owed : log[s].inline

\* An index is not there without bytes, on stable storage or as seen; what
\* removals may still bring back of it has bytes as well.
IndexBacked ==
    /\ ~seen.index.there => seen.index = NoIndex
    /\ ~stable.index.there => stable.index = NoIndex
    /\ seen.index.there =>
         /\ stable.index.there /\ gone = {}
         /\ seen.file # <<>> /\ stable.file # <<>>
    /\ stable.index.there => stable.file # <<>>
    /\ stable.index.there /\ ~seen.index.there => "index" \in gone
    /\ "index" \in gone /\ "file" \notin gone => seen.file # <<>>

\* Every accepted record is of a write there was.
Numbered == \A s \in DOMAIN log : log[s].id <= writes

Stored == TypeInv /\ Order /\ Kept /\ IndexBacked /\ Numbered

---------------------------------------------------------------------------
(* What the process has in memory.                                         *)

\* The watermarks at the steps that move them.
Marks ==
    /\ pc \in {"final", "mark"} \/ task = "final" => published = Len(log)
    /\ pc \in {"restore", "restored"} \/ task = "clean" \/ (pc = "commit" /\ task = "replay")
          => published = durable
    /\ pc = "resolve" \/ task = "resolve" => cleaned = Len(log) /\ spool.next # 0
    /\ pc = "rebuild" => cleaned < Len(log) /\ spool.ranges \subseteq seen.index.ranges

\* The file is removed only when nobody needs it.
Removable == pc \in {"unlink", "remove"} => \A s \in Owed : log[s].inline

\* The memory agrees with the file.
Sized ==
    Up => /\ spool.next = Len(seen.file)
          /\ \A r \in spool.ranges : Holds(seen.file, r)
          /\ pc # "remove" /\ spool.started => seen.index.there

\* An owed record has a live range, once startup has put it back.
Live ==
    /\ Serving \/ pc = "commit" => \A s \in Owed : Ref(s) \in spool.ranges
    /\ Starting => \A s \in Owed : ~log[s].inline => Ref(s) \in spool.ranges

\* A flushed spool is on stable storage.
Synced ==
    /\ Serving /\ spool.unsynced = 0 /\ spool.next # 0 =>
          "file" \notin gone /\ stable.file = seen.file
    /\ Serving /\ pc \in {"index", "frame", "discard"} => spool.unsynced = 0
    /\ pc = "log" => spool.unsynced = 0 \/ \A i \in DOMAIN buffered : buffered[i].inline
    /\ Serving => "index" \notin gone \/ "file" \in gone

\* Without a range there is nothing.
Cleared ==
    (Serving \/ pc \in {"mark", "commit"} \/ Starting) /\ spool.ranges = {} =>
        spool = Empty /\ seen = [file |-> <<>>, index |-> NoIndex]

\* The range of a buffered record, and that of the write in progress.
BRef(i) == [seq |-> Len(log) + i, off |-> buffered[i].off, id |-> buffered[i].id]
Current == [seq |-> Len(log) + Len(buffered) + 1, off |-> spool.next, id |-> writes]

\* The open transaction: its records have ranges.
Open ==
    /\ buffered # <<>> => pc \in {"serve", "log"} \/ Appending
                          \/ (pc = "flush" /\ task \in {"accept", "drain"})
    /\ \A i \in DOMAIN buffered : BRef(i) \in spool.ranges /\ buffered[i].id <= writes
    /\ Appending => \A i \in DOMAIN buffered : buffered[i].id < writes

\* The write in progress has the last cell; no record has its number.
InProgress ==
    /\ Appending => /\ Current \in spool.ranges
                    /\ \A r \in spool.ranges : r.off < spool.next \/ r.id = writes
    /\ Appending \/ Discarding => \A s \in DOMAIN log : log[s].id < writes
    /\ pc \in Steps /\ task \in AppendTask /\ seen.index.there => Len(seen.file) >= 2

\* Where a range comes from.
OfRecord(r) == r.seq \in cleaned + 1 .. Len(log) /\ r = Ref(r.seq)
OfBuffered(r) == \E i \in DOMAIN buffered : r = BRef(i)
Tracked == (Serving /\ ~Discarding /\ task # "discarded") \/ pc \in {"mark", "commit"} \/ Starting

Origin ==
    Tracked => \A r \in spool.ranges :
                   OfRecord(r) \/ OfBuffered(r) \/ (Appending /\ r = Current)

\* Ranges in retirement.
Retired ==
    /\ pc = "cleaned" \/ (task = "clean" /\ pc \in Steps) =>
          \A r \in spool.ranges : r.seq > durable
    /\ pc = "prefix" \/ task = "clean" =>
          \A r \in spool.ranges : r.seq <= durable \/ ~log[r.seq].inline

\* The index at the steps that change it.
IndexSteps == /\ pc = "remove" => seen.index = NoIndex
              /\ pc = "frame" => seen.index.there

Running ==
    /\ TaskInv /\ Marks /\ Removable /\ Sized /\ Live /\ Synced /\ Cleared /\ Open
    /\ InProgress /\ Origin /\ Retired /\ IndexSteps

IInv == Stored /\ Running

---------------------------------------------------------------------------
(* Whose the cells of the file are: a second invariant, on top of IInv.    *)

\* A cell holds, whole or torn, the write of the record e.
IsOf(c, e) == c # Gap /\ e.id = WriteOf(c)

\* Bytes of a write are only at the place of its record.
Placed(f) ==
    \A i \in DOMAIN f :
        f[i] # Gap =>
            /\ WriteOf(f[i]) <= writes
            /\ \A s \in DOMAIN log : log[s].id = WriteOf(f[i]) => log[s].off = i
            /\ \A j \in DOMAIN buffered : buffered[j].id = WriteOf(f[i]) => buffered[j].off = i
            /\ Appending /\ WriteOf(f[i]) = writes => i = spool.next

\* Records are in the order of their writes, and so are the places of those
\* that are not cleaned.
Ascending ==
    /\ \A s, t \in DOMAIN log : s < t => log[s].id < log[t].id
    /\ \A i, j \in DOMAIN buffered :
          i < j => buffered[i].id < buffered[j].id /\ buffered[i].off < buffered[j].off
    /\ \A s \in DOMAIN log, i \in DOMAIN buffered : log[s].id < buffered[i].id
    /\ \A s, t \in cleaned + 1 .. Len(log) : s < t => log[s].off < log[t].off
    /\ \A s \in cleaned + 1 .. Len(log), i \in DOMAIN buffered : log[s].off < buffered[i].off

\* A cell of no cleaned record; a file of such cells; a file of no record's.
NotCleaned(c) == \A s \in 1 .. cleaned : ~IsOf(c, log[s])
Fresh(f) == \A i \in DOMAIN f : NotCleaned(f[i])
Foreign(f) == \A i \in DOMAIN f : \A s \in DOMAIN log : ~IsOf(f[i], log[s])

\* The last cell that is found after a kill or a power loss is not that of a
\* cleaned record.
Ends(f, g) == \A i \in DOMAIN f : i >= Len(f) \/ i >= Len(g) => NotCleaned(f[i])
Tails ==
    IF "file" \in gone
    THEN Fresh(seen.file) /\ Ends(stable.file, stable.file)
    ELSE Ends(stable.file, seen.file) /\ Ends(seen.file, stable.file)

\* A serving host has no cell of a cleaned record at all.
Afresh ==
    Serving => /\ cleaned = durable /\ Fresh(seen.file)
               /\ "file" \notin gone => Fresh(stable.file)

\* What storage may still hold of a file that is empty, or will be if the
\* append in progress is cut off.
Vanished ==
    (seen.file = <<>> \/ (Appending /\ Len(seen.file) = 1)) /\ "file" \notin gone
        => Foreign(stable.file)

Cells == /\ Placed(seen.file) /\ Placed(stable.file) /\ Ascending /\ Tails /\ Afresh
         /\ Vanished /\ RefusedOnlyIfUnaccepted

---------------------------------------------------------------------------
(* Smallest and largest members, and files.                                *)

\* The larger of two naturals.
LEMMA MaxOfTwo ==
    ASSUME NEW a \in Nat, NEW b \in Nat
    PROVE  Max({a, b}) = IF a >= b THEN a ELSE b
  <1> DEFINE m == IF a >= b THEN a ELSE b
  <1>1. m \in {a, b} /\ \A y \in {a, b} : m >= y
    OBVIOUS
  <1>2. \A x \in {a, b} : (\A y \in {a, b} : x >= y) => x = m
    OBVIOUS
  <1>3. QED
    BY <1>1, <1>2 DEF Max

\* The smaller of two naturals.
LEMMA MinOfTwo ==
    ASSUME NEW a \in Nat, NEW b \in Nat
    PROVE  Min({a, b}) = IF a <= b THEN a ELSE b
  <1> DEFINE m == IF a <= b THEN a ELSE b
  <1>1. m \in {a, b} /\ \A y \in {a, b} : m <= y
    OBVIOUS
  <1>2. \A x \in {a, b} : (\A y \in {a, b} : x <= y) => x = m
    OBVIOUS
  <1>3. QED
    BY <1>1, <1>2 DEF Min

\* A set of naturals that has a member has a smallest one: there is a next
\* record to restore.
LEMMA MinIsMember ==
    ASSUME NEW S, S \subseteq Nat, S # {}
    PROVE  Min(S) \in S
  <1>1. PICK x \in S : \A y \in S : ~(<<y, x>> \in OpToRel(<, Nat))
    BY NatLessThanWellFounded, WFMin
  <1>2. \A y \in S : ~(y < x)
    BY <1>1 DEF OpToRel
  <1>3. \A y \in S : x <= y
    BY <1>2
  <1>4. QED
    BY <1>3 DEF Min

\* A member that no other exceeds is the largest.
LEMMA MaxIsTop ==
    ASSUME NEW S, S \subseteq Nat, NEW m \in S, \A x \in S : x <= m
    PROVE  Max(S) = m
  <1>1. m \in S /\ \A y \in S : m >= y
    OBVIOUS
  <1>2. \A x \in S : (\A y \in S : x >= y) => x = m
    OBVIOUS
  <1>3. QED
    BY <1>1, <1>2 DEF Max

\* What survives a power loss is a file; it holds every payload that both
\* versions held, and is not empty unless one of them was.
LEMMA SurvivorFacts ==
    ASSUME NEW old \in Seq(Int), NEW new \in Seq(Int), NEW f \in Survivors(old, new)
    PROVE  /\ f \in Seq(Int)
           /\ \A r \in Rng : Holds(old, r) /\ Holds(new, r) => Holds(f, r)
           /\ old # <<>> /\ new # <<>> => f # <<>>
  <1> DEFINE lo == IF Len(old) <= Len(new) THEN Len(old) ELSE Len(new)
             hi == IF Len(old) >= Len(new) THEN Len(old) ELSE Len(new)
             C(i) == IF i > Len(old) THEN {new[i], Torn(new[i])}
                     ELSE IF i > Len(new) THEN {old[i]} ELSE {old[i], new[i]}
  <1>1. Len(old) \in Nat /\ Len(new) \in Nat
    OBVIOUS
  <1>2. Min({Len(old), Len(new)}) = lo /\ Max({Len(old), Len(new)}) = hi
    BY <1>1, MinOfTwo, MaxOfTwo
  <1>3. PICK n \in lo .. hi : /\ f \in [1 .. n -> -MaxWrites .. MaxWrites]
                              /\ \A i \in 1 .. n : f[i] \in C(i)
    BY <1>2 DEF Survivors
  <1>4. n \in Nat /\ lo <= n
    BY <1>1
  <1>5. f \in [1 .. n -> Int]
    <2>1. -MaxWrites .. MaxWrites \subseteq Int
      OBVIOUS
    <2>2. QED
      BY <1>3, <2>1
  <1>6. f \in Seq(Int) /\ Len(f) = n
    BY <1>4, <1>5
  <1>7. ASSUME NEW r \in Rng, Holds(old, r), Holds(new, r)
        PROVE  Holds(f, r)
    <2>1. r.off \in Nat /\ r.off >= 1
      BY DEF Rng
    <2>2. r.off <= Len(old) /\ r.off <= Len(new) /\ old[r.off] = r.id /\ new[r.off] = r.id
      BY <1>7 DEF Holds
    <2>3. r.off \in 1 .. n
      BY <1>1, <1>4, <2>1, <2>2
    <2>4. f[r.off] \in C(r.off)
      BY <1>3, <2>3
    <2>5. f[r.off] = r.id
      BY <1>1, <2>1, <2>2, <2>4
    <2>6. QED
      BY <1>6, <2>3, <2>5 DEF Holds
  <1>8. ASSUME old # <<>>, new # <<>>
        PROVE  f # <<>>
    <2>1. Len(old) >= 1 /\ Len(new) >= 1
      BY <1>8, EmptySeq
    <2>2. Len(f) >= 1
      BY <1>1, <1>4, <1>6, <2>1
    <2>3. QED
      BY <2>2, EmptySeq
  <1>9. QED
    BY <1>6, <1>7, <1>8

\* The types, field by field.
LEMMA Typed ==
    ASSUME TypeInv
    PROVE  /\ seen.file \in Seq(Int) /\ stable.file \in Seq(Int)
           /\ Len(seen.file) \in Nat /\ Len(stable.file) \in Nat
           /\ seen.index \in Idx /\ stable.index \in Idx
           /\ seen = [file |-> seen.file, index |-> seen.index]
           /\ stable = [file |-> stable.file, index |-> stable.index]
           /\ gone \in SUBSET {"file", "index"}
           /\ spool.ranges \in SUBSET Rng /\ spool.next \in Nat /\ spool.unsynced \in Nat
           /\ spool.dirty \in BOOLEAN /\ spool.pending \in SUBSET Rng
           /\ spool.snapshot \in BOOLEAN /\ spool.started \in BOOLEAN
           /\ buffered \in Seq(Rec) /\ log \in Seq(Rec)
           /\ Len(buffered) \in Nat /\ Len(log) \in Nat
           /\ DOMAIN buffered = 1 .. Len(buffered) /\ DOMAIN log = 1 .. Len(log)
           /\ durable \in Nat /\ cleaned \in Nat /\ published \in Nat /\ writes \in Nat
  BY DEF TypeInv, Files, Memory

\* Fields of an index, of a record and of a range.
LEMMA Fields ==
    /\ \A x \in Idx : x.there \in BOOLEAN /\ x.torn \in BOOLEAN /\ x.ranges \in SUBSET Rng
                      /\ x.size \in Nat
    /\ \A x \in Rec : x.off \in Nat /\ x.off >= 1 /\ x.id \in Nat /\ x.inline \in BOOLEAN
    /\ \A x \in Rng : x.off \in Nat /\ x.off >= 1 /\ x.id \in Nat /\ x.seq \in Nat
    /\ NoIndex \in Idx /\ ~NoIndex.there /\ NoIndex.ranges = {}
    /\ Empty \in Memory /\ Empty.ranges = {} /\ Empty.next = 0 /\ Empty.unsynced = 0
    /\ ~Empty.started
    /\ <<>> \in Seq(Int) /\ <<>> \in Seq(Rec) /\ Len(<<>>) = 0
  BY DEF Idx, Rec, Rng, NoIndex, Empty, Memory

\* The records of the journal and their ranges.
LEMMA Records ==
    ASSUME TypeInv
    PROVE  /\ \A s \in 1 .. Len(log) :
                 /\ log[s] \in Rec /\ Ref(s) \in Rng
                 /\ Ref(s).seq = s /\ Ref(s).off = log[s].off /\ Ref(s).id = log[s].id
           /\ \A i \in 1 .. Len(buffered) :
                 /\ buffered[i] \in Rec /\ BRef(i) \in Rng
                 /\ BRef(i).seq = Len(log) + i /\ BRef(i).off = buffered[i].off
                 /\ BRef(i).id = buffered[i].id
  <1>1. /\ \A s \in 1 .. Len(log) : log[s] \in Rec
        /\ \A i \in 1 .. Len(buffered) : buffered[i] \in Rec
    BY Typed, ElementOfSeq
  <1>2. ASSUME NEW s \in 1 .. Len(log)
        PROVE  /\ Ref(s) \in Rng
               /\ Ref(s).seq = s /\ Ref(s).off = log[s].off /\ Ref(s).id = log[s].id
    <2>1. s \in Nat /\ log[s].off \in Nat \ {0} /\ log[s].id \in Nat
      <3>1. s \in Nat /\ log[s] \in Rec
        BY <1>1, Typed
      <3>2. QED
        BY <3>1 DEF Rec
    <2>2. QED
      BY <2>1 DEF Ref, Rng
  <1>3. ASSUME NEW i \in 1 .. Len(buffered)
        PROVE  /\ BRef(i) \in Rng
               /\ BRef(i).seq = Len(log) + i /\ BRef(i).off = buffered[i].off
               /\ BRef(i).id = buffered[i].id
    <2>1. Len(log) \in Nat /\ Len(buffered) \in Nat
      BY Typed
    <2>2. Len(log) + i \in Nat
      BY <2>1
    <2>3. buffered[i].off \in Nat \ {0} /\ buffered[i].id \in Nat
      BY <1>1 DEF Rec
    <2>4. QED
      BY <2>2, <2>3 DEF BRef, Rng
  <1>4. QED
    BY <1>1, <1>2, <1>3

---------------------------------------------------------------------------
(* Flushes.                                                                *)

\* The flush of the journal settles the removals that were pending: an index
\* is backed as before, and needed payload stays.
LEMMA FlushLogKeeps ==
    ASSUME Stored, FlushLog, seen' = seen
    PROVE  /\ stable' \in Files /\ gone' = {} /\ IndexBacked'
           /\ "file" \notin gone => stable'.file = stable.file
           /\ \A s \in Owed : ~log[s].inline => Holds(stable'.file, Ref(s))
  <1>1. TypeInv /\ Kept /\ IndexBacked
    BY DEF Stored
  <1>2. /\ stable'.file = IF "file" \in gone THEN <<>> ELSE stable.file
        /\ stable'.index = IF "index" \in gone THEN NoIndex ELSE stable.index
        /\ gone' = {} /\ stable' = [file |-> stable'.file, index |-> stable'.index]
    BY DEF FlushLog, Settled
  <1>3. stable'.file \in Seq(Int) /\ stable'.index \in Idx
    BY <1>1, <1>2, Typed, Fields
  <1>4. stable' \in Files
    BY <1>2, <1>3 DEF Files
  <1>5. IndexBacked'
    BY <1>1, <1>2, Fields DEF IndexBacked
  <1>6. ASSUME NEW s \in Owed, ~log[s].inline
        PROVE  Holds(stable'.file, Ref(s))
    BY <1>1, <1>2, <1>6 DEF Kept
  <1>7. QED
    BY <1>2, <1>4, <1>5, <1>6

\* The flush of the payload puts the file as seen on stable storage.
LEMMA FlushFileKeeps ==
    ASSUME Stored, FlushFile, seen' = seen
    PROVE  stable' \in Files /\ gone' = {} /\ IndexBacked' /\ stable'.file = seen.file
  <1>1. TypeInv /\ Kept /\ IndexBacked
    BY DEF Stored
  <1>2. /\ stable'.file = seen.file
        /\ stable'.index = IF "index" \in gone THEN NoIndex ELSE stable.index
        /\ gone' = {} /\ stable' = [file |-> stable'.file, index |-> stable'.index]
    BY DEF FlushFile, Settled
  <1>3. stable'.file \in Seq(Int) /\ stable'.index \in Idx
    BY <1>1, <1>2, Typed, Fields
  <1>4. stable' \in Files
    BY <1>2, <1>3 DEF Files
  <1>5. IndexBacked'
    BY <1>1, <1>2, Fields DEF IndexBacked
  <1>6. QED
    BY <1>2, <1>4, <1>5

\* A flush of the index over a file with bytes on stable storage backs it.
LEMMA FlushIndexKeeps ==
    ASSUME Stored, NEW x \in Idx, x.there, FlushIndex(x), seen'.index = x,
           seen'.file = seen.file, seen.file # <<>>, stable.file # <<>>, "file" \notin gone
    PROVE  stable' \in Files /\ gone' = {} /\ IndexBacked' /\ stable'.file = stable.file
  <1>1. TypeInv /\ Kept /\ IndexBacked
    BY DEF Stored
  <1>2. /\ stable'.file = stable.file /\ stable'.index = x
        /\ gone' = {} /\ stable' = [file |-> stable'.file, index |-> stable'.index]
    BY DEF FlushIndex, Settled
  <1>3. stable'.file \in Seq(Int)
    BY <1>1, <1>2, Typed
  <1>4. stable' \in Files
    BY <1>2, <1>3 DEF Files
  <1>5. IndexBacked'
    BY <1>1, <1>2 DEF IndexBacked
  <1>6. QED
    BY <1>2, <1>4, <1>5

---------------------------------------------------------------------------
(* The two halves of the invariant.                                        *)

\* What a host that is down or blocked owes its memory: nothing.
LEMMA Halts ==
    ASSUME Stored', buffered' = <<>>,
           (pc' \in {"blocked", "down"} /\ task' = "none")
             \/ (pc' = "blocked" /\ task' = "discarded")
    PROVE  IInv'
  <1>1. DOMAIN buffered' = {}
    BY EmptySeq
  <1>2. TaskInv'
    BY DEF TaskInv, Steps, AppendTask
  <1>3. ~Serving' /\ ~Starting' /\ ~Up' /\ ~Appending' /\ ~Discarding'
    BY DEF Serving, Starting, Up, Appending, Discarding, Steps, AppendTask
  <1>4. Marks' /\ Removable' /\ Sized' /\ IndexSteps'
    BY <1>3 DEF Marks, Removable, Sized, IndexSteps
  <1>5. Live' /\ Synced' /\ Cleared'
    BY <1>3 DEF Live, Synced, Cleared, Steps
  <1>6. Open' /\ InProgress' /\ Retired' /\ Origin'
    BY <1>1, <1>3 DEF Open, InProgress, Origin, Tracked, Retired, Steps
  <1>7. QED
    BY <1>2, <1>4, <1>5, <1>6 DEF IInv, Running

\* A step that leaves files and journal alone leaves what is stored alone.
LEMMA StoredStays ==
    ASSUME IInv, UNCHANGED <<files, journal, published, writes>>,
           spool' \in Memory, buffered' \in Seq(Rec)
    PROVE  Stored'
  BY DEF IInv, Stored, TypeInv, Order, Kept, IndexBacked, Numbered, Owed, Ref, files, journal

\* While nothing is open the buffer is empty.
LEMMA Closed ==
    ASSUME IInv, pc \notin {"serve", "log", "record"},
           ~(pc \in Steps /\ task \in AppendTask), ~(pc = "flush" /\ task \in {"accept", "drain"})
    PROVE  buffered = <<>> /\ DOMAIN buffered = {}
  <1>1. buffered = <<>>
    BY DEF IInv, Running, Open, Appending
  <1>2. QED
    BY <1>1, EmptySeq

\* A step that leaves the ranges and the records alone leaves origins alone.
LEMMA OriginSame ==
    ASSUME Origin, UNCHANGED <<spool, log, cleaned, buffered, writes>>, Tracked' => Tracked,
           Appending => Appending'
    PROVE  Origin'
  <1>1. Current' = Current
    BY DEF Current
  <1>2. \A r : (OfRecord(r)' <=> OfRecord(r)) /\ (OfBuffered(r)' <=> OfBuffered(r))
    BY DEF OfRecord, OfBuffered, Ref, BRef
  <1>3. QED
    BY <1>1, <1>2 DEF Origin

---------------------------------------------------------------------------
(* Steps of the journal, as far as storage is concerned.                   *)

\* Watermarks move within what is published; the journal may be flushed.
LEMMA MarkStored ==
    ASSUME Stored, FlushLog \/ UNCHANGED <<stable, gone>>,
           UNCHANGED <<seen, log, published, writes>>, spool' \in Memory, buffered' \in Seq(Rec),
           durable' \in Nat, cleaned' \in Nat, durable <= durable', cleaned' <= durable',
           durable' <= published
    PROVE  Stored'
  <1>1. TypeInv /\ Order /\ Kept /\ IndexBacked /\ Numbered
    BY DEF Stored
  <1>2. /\ stable' \in Files /\ gone' \in SUBSET {"file", "index"} /\ IndexBacked'
        /\ \A s \in Owed : ~log[s].inline => Holds(stable'.file, Ref(s))
        /\ "file" \in gone' => "file" \in gone
    <2>1. CASE FlushLog
      BY <2>1, FlushLogKeeps
    <2>2. CASE UNCHANGED <<stable, gone>>
      BY <1>1, <2>2 DEF TypeInv, IndexBacked, Kept
    <2>3. QED
      BY <2>1, <2>2
  <1>3. Owed' \subseteq Owed /\ \A s \in Owed' : Ref(s)' = Ref(s)
    BY <1>1, Typed DEF Owed, Ref
  <1>4. TypeInv'
    BY <1>1, <1>2 DEF TypeInv
  <1>5. Order' /\ Numbered'
    BY <1>1 DEF Order, Numbered
  <1>6. Kept'
    BY <1>1, <1>2, <1>3 DEF Kept
  <1>7. QED
    BY <1>2, <1>4, <1>5, <1>6 DEF Stored

\* Accepted records join the journal, with their payload where it must be.
LEMMA AppendStored ==
    ASSUME IInv, pc = "log", log' = log \o buffered, FlushLog, buffered' = <<>>,
           UNCHANGED <<seen, spool, durable, cleaned, published, writes>>
    PROVE  /\ Stored' /\ Len(log') = Len(log) + Len(buffered)
           /\ \A s \in 1 .. Len(log) : log'[s] = log[s]
           /\ \A i \in 1 .. Len(buffered) : log'[Len(log) + i] = buffered[i]
           /\ \A s \in Nat : \A i \in 1 .. Len(buffered) : s = Len(log) + i => Ref(s)' = BRef(i)
  <1>1. /\ Stored /\ TypeInv /\ Order /\ Kept /\ IndexBacked /\ Numbered
        /\ Sized /\ Synced /\ Open
    BY DEF IInv, Stored, Running
  <1>2. Len(log) \in Nat /\ Len(buffered) \in Nat /\ DOMAIN log = 1 .. Len(log)
        /\ DOMAIN buffered = 1 .. Len(buffered) /\ durable \in Nat /\ published \in Nat
        /\ log \in Seq(Rec) /\ buffered \in Seq(Rec)
    BY <1>1, Typed
  <1>3. /\ log' \in Seq(Rec) /\ Len(log') = Len(log) + Len(buffered)
        /\ DOMAIN log' = 1 .. Len(log) + Len(buffered)
        /\ \A s \in 1 .. Len(log) : log'[s] = log[s]
        /\ \A i \in 1 .. Len(buffered) : log'[Len(log) + i] = buffered[i]
    BY <1>2, ConcatProperties
  <1>4. /\ stable' \in Files /\ gone' = {} /\ IndexBacked'
        /\ "file" \notin gone => stable'.file = stable.file
        /\ \A s \in Owed : ~log[s].inline => Holds(stable'.file, Ref(s))
    BY <1>1, FlushLogKeeps
  <1>5. TypeInv'
    BY <1>1, <1>3, <1>4, Fields DEF TypeInv
  <1>6. Order'
    BY <1>1, <1>2, <1>3 DEF Order
  <1>7. \A s \in Nat : \A i \in 1 .. Len(buffered) : s = Len(log) + i => Ref(s)' = BRef(i)
    BY <1>3 DEF Ref, BRef
  <1>8. ASSUME NEW s \in 1 .. Len(log) + Len(buffered), s > Len(log)
        PROVE  \E i \in 1 .. Len(buffered) : s = Len(log) + i
    <2>1. s - Len(log) \in 1 .. Len(buffered) /\ s = Len(log) + (s - Len(log))
      BY <1>2, <1>8
    <2>2. QED
      BY <2>1
  <1>9. Numbered'
    <2> SUFFICES ASSUME NEW s \in 1 .. Len(log) + Len(buffered)
                 PROVE  log'[s].id <= writes
      BY <1>3 DEF Numbered
    <2>1. CASE s <= Len(log)
      BY <1>1, <1>2, <1>3, <2>1 DEF Numbered
    <2>2. CASE s > Len(log)
      BY <1>1, <1>2, <1>3, <1>8, <2>2 DEF Open
    <2>3. QED
      BY <1>2, <2>1, <2>2
  <1>10. ASSUME NEW s \in Owed', ~log'[s].inline
         PROVE  Holds(stable'.file, Ref(s)') /\ Holds(seen'.file, Ref(s)')
    <2>1. s \in durable + 1 .. Len(log) + Len(buffered)
      BY <1>3 DEF Owed
    <2>2. CASE s <= Len(log)
      <3>1. s \in Owed /\ log'[s] = log[s]
        BY <1>2, <1>3, <2>1, <2>2 DEF Owed
      <3>2. Ref(s)' = Ref(s)
        BY <3>1 DEF Ref
      <3>3. QED
        BY <1>1, <1>4, <1>10, <3>1, <3>2 DEF Kept
    <2>3. CASE s > Len(log)
      <3>1. PICK i \in 1 .. Len(buffered) : s = Len(log) + i
        BY <1>2, <1>8, <2>1, <2>3
      <3>2. Ref(s)' = BRef(i) /\ log'[s] = buffered[i]
        <4>1. s \in Nat
          BY <1>2, <3>1
        <4>2. QED
          BY <1>3, <1>7, <3>1, <4>1
      <3>3. BRef(i) \in spool.ranges /\ BRef(i) \in Rng
        BY <1>1, <1>2, Records DEF Open
      <3>4. Up
        BY DEF Up
      <3>5. Holds(seen.file, BRef(i)) /\ spool.next = Len(seen.file)
        BY <1>1, <3>3, <3>4 DEF Sized
      <3>6. spool.next # 0
        <4>1. BRef(i).off \in Nat /\ BRef(i).off >= 1
          BY <3>3, Fields
        <4>2. QED
          BY <1>1, <3>5, <4>1, Typed DEF Holds
      <3>7. spool.unsynced = 0
        BY <1>1, <1>2, <1>10, <3>2 DEF Synced
      <3>8. "file" \notin gone /\ stable.file = seen.file
        BY <1>1, <3>6, <3>7 DEF Synced, Serving
      <3>9. QED
        BY <1>4, <3>2, <3>5, <3>8
    <2>4. QED
      BY <1>2, <2>1, <2>2, <2>3
  <1>11. Kept'
    BY <1>4, <1>10 DEF Kept
  <1>12. QED
    BY <1>3, <1>4, <1>5, <1>6, <1>7, <1>9, <1>11 DEF Stored

---------------------------------------------------------------------------
(* Steps that end in a blocked host or in none.                            *)

\* A write that fails may leave a cell behind.
LEMMA WriteFailsKeeps ==
    ASSUME IInv, WriteFails
    PROVE  IInv'
  <1>1. TypeInv /\ Order /\ Kept /\ IndexBacked /\ Numbered
    BY DEF IInv, Stored
  <1>2. PICK left \in {<<>>, <<Torn(writes + 1)>>} : seen' = [seen EXCEPT !.file = @ \o left]
    BY DEF WriteFails
  <1>3. /\ writes' = writes + 1 /\ buffered' = <<>> /\ pc' = "blocked" /\ task' = "none"
        /\ UNCHANGED <<stable, gone, spool, log, durable, cleaned, published>>
    BY DEF WriteFails, Block, Goto, journal
  <1>4. left \in Seq(Int)
    <2>1. <<Torn(writes + 1)>> \in Seq(Int)
      BY <1>1 DEF Torn, TypeInv
    <2>2. QED
      BY <2>1, Fields
  <1>5. /\ seen'.file = seen.file \o left /\ seen'.index = seen.index
        /\ seen' = [file |-> seen'.file, index |-> seen'.index]
    BY <1>1, <1>2, Typed
  <1>6. /\ seen'.file \in Seq(Int) /\ Len(seen'.file) = Len(seen.file) + Len(left)
        /\ \A i \in 1 .. Len(seen.file) : seen'.file[i] = seen.file[i]
        /\ Len(left) \in Nat
    BY <1>1, <1>4, <1>5, Typed, ConcatProperties
  <1>7. \A r \in Rng : Holds(seen.file, r) => Holds(seen'.file, r)
    <2> SUFFICES ASSUME NEW r \in Rng, Holds(seen.file, r)
                 PROVE  Holds(seen'.file, r)
      OBVIOUS
    <2>1. r.off \in Nat /\ r.off >= 1
      BY Fields
    <2>2. r.off <= Len(seen.file) /\ seen.file[r.off] = r.id /\ Len(seen.file) \in Nat
      BY <1>1, Typed DEF Holds
    <2>3. r.off \in 1 .. Len(seen.file) /\ r.off <= Len(seen'.file)
      BY <1>6, <2>1, <2>2
    <2>4. QED
      BY <1>6, <2>2, <2>3 DEF Holds
  <1>8. seen.file # <<>> => seen'.file # <<>>
    <2>1. seen.file # <<>> => Len(seen.file) >= 1
      BY <1>1, Typed, EmptySeq
    <2>2. QED
      BY <1>1, <1>6, <2>1, Typed, EmptySeq
  <1>9. seen' \in Files
    BY <1>1, <1>5, <1>6, Typed DEF Files
  <1>10. TypeInv'
    BY <1>1, <1>3, <1>9, Fields DEF TypeInv
  <1>11. Order' /\ Numbered'
    <2>1. \A s \in DOMAIN log : log[s].id \in Nat
      BY <1>1, Typed, Records, Fields
    <2>2. QED
      BY <1>1, <1>3, <2>1, Typed DEF Order, Numbered
  <1>12. Kept'
    <2>1. \A s \in Owed : s \in 1 .. Len(log)
      BY <1>1, Typed DEF Owed
    <2>2. Owed' = Owed /\ \A s \in Owed : Ref(s)' = Ref(s) /\ Ref(s) \in Rng
      BY <1>1, <1>3, <2>1, Records DEF Owed, Ref
    <2>3. QED
      BY <1>1, <1>3, <1>7, <2>2 DEF Kept
  <1>13. IndexBacked'
    BY <1>1, <1>3, <1>5, <1>8 DEF IndexBacked
  <1>14. QED
    BY <1>3, <1>10, <1>11, <1>12, <1>13, Halts DEF Stored

\* A journal that reports a failure may have the records.
LEMMA AcceptFailsKeeps ==
    ASSUME IInv, AcceptFails
    PROVE  IInv'
  <1>1. /\ pc = "log" /\ buffered' = <<>> /\ pc' = "blocked" /\ task' = "none"
        /\ UNCHANGED <<seen, spool, durable, cleaned, published, writes>>
    BY DEF AcceptFails, Block, Goto
  <1>2. CASE UNCHANGED <<log, stable, gone>>
    <2>1. spool' \in Memory /\ buffered' \in Seq(Rec)
      BY <1>1, Fields DEF IInv, Stored, TypeInv
    <2>2. Stored'
      BY <1>1, <1>2, <2>1, StoredStays DEF files, journal
    <2>3. QED
      BY <1>1, <2>2, Halts
  <1>3. CASE log' = log \o buffered /\ FlushLog
    BY <1>1, <1>3, AppendStored, Halts
  <1>4. QED
    BY <1>2, <1>3 DEF AcceptFails

\* A commit that fails may have published.
LEMMA CommitFailsKeeps ==
    ASSUME IInv, CommitFails
    PROVE  IInv'
  <1>1. /\ pc = "commit" /\ pc' = "blocked" /\ task' = "none" /\ buffered' = buffered
        /\ UNCHANGED <<files, spool, journal, writes>>
        /\ published' = published \/ published' = Len(log)
    BY DEF CommitFails, Block, Goto
  <1>2. buffered = <<>>
    BY <1>1, Closed DEF Steps
  <1>3. Stored'
    BY <1>1, Typed DEF IInv, Stored, TypeInv, Order, Kept, IndexBacked, Numbered, Owed, Ref,
       files, journal
  <1>4. QED
    BY <1>1, <1>2, <1>3, Halts

\* A mark that fails may have been written.
LEMMA MarkFailsKeeps ==
    ASSUME IInv, MarkFails
    PROVE  IInv'
  <1>1. TypeInv /\ Order /\ Stored
    BY DEF IInv, Stored
  <1>2. /\ pc \in {"mark", "prefix"} /\ pc' = "blocked" /\ task' = "none"
        /\ UNCHANGED <<seen, spool, buffered, log, cleaned, published, writes>>
    BY DEF MarkFails, Block, Goto
  <1>3. buffered = <<>>
    BY <1>2, Closed DEF Steps
  <1>4. Max({durable, published}) = published
    <2>1. durable \in Nat /\ published \in Nat /\ durable <= published
      BY <1>1, Typed DEF Order
    <2>2. QED
      BY <2>1, MaxOfTwo
  <1>5. (durable' = durable /\ UNCHANGED <<stable, gone>>) \/ (durable' = published /\ FlushLog)
    BY <1>4 DEF MarkFails
  <1>6. Stored'
    <2>1. /\ durable' \in Nat /\ cleaned' \in Nat /\ durable <= durable' /\ cleaned' <= durable'
          /\ durable' <= published
      BY <1>1, <1>2, <1>5, Typed DEF Order
    <2>2. spool' \in Memory /\ buffered' \in Seq(Rec)
      BY <1>1, <1>2 DEF TypeInv
    <2>3. QED
      BY <1>1, <1>2, <1>5, <2>1, <2>2, MarkStored
  <1>7. QED
    BY <1>2, <1>3, <1>6, Halts

\* So may a mark that ranges are cleaned.
LEMMA MarkCleanedFailsKeeps ==
    ASSUME IInv, MarkCleanedFails
    PROVE  IInv'
  <1>1. TypeInv /\ Order /\ Stored
    BY DEF IInv, Stored
  <1>2. /\ pc = "cleaned" /\ pc' = "blocked" /\ task' = "none"
        /\ UNCHANGED <<seen, spool, buffered, log, durable, published, writes>>
    BY DEF MarkCleanedFails, Block, Goto
  <1>3. buffered = <<>>
    BY <1>2, Closed DEF Steps
  <1>4. (cleaned' = cleaned /\ UNCHANGED <<stable, gone>>) \/ (cleaned' = durable /\ FlushLog)
    BY DEF MarkCleanedFails
  <1>5. Stored'
    <2>1. /\ durable' \in Nat /\ cleaned' \in Nat /\ durable <= durable' /\ cleaned' <= durable'
          /\ durable' <= published
      BY <1>1, <1>2, <1>4, Typed DEF Order
    <2>2. spool' \in Memory /\ buffered' \in Seq(Rec)
      BY <1>1, <1>2 DEF TypeInv
    <2>3. QED
      BY <1>1, <1>2, <1>4, <2>1, <2>2, MarkStored
  <1>6. QED
    BY <1>2, <1>3, <1>5, Halts

\* A removal or a replay that fails changes nothing.
LEMMA GivesUpKeeps ==
    ASSUME IInv, RemovalFails \/ ReplayFails
    PROVE  IInv'
  <1>1. /\ pc \in {"unlink", "remove", "restore", "restored"} /\ pc' = "blocked" /\ task' = "none"
        /\ UNCHANGED <<files, spool, buffered, journal, published, writes>>
    BY DEF RemovalFails, ReplayFails, Block, Goto
  <1>2. buffered = <<>>
    BY <1>1, Closed DEF Steps
  <1>3. spool' \in Memory /\ buffered' \in Seq(Rec)
    BY <1>1 DEF IInv, Stored, TypeInv
  <1>4. QED
    BY <1>1, <1>2, <1>3, StoredStays, Halts

\* A killed process leaves the files as they are seen.
LEMMA KillKeeps ==
    ASSUME IInv, Kill
    PROVE  IInv'
  <1>1. /\ spool' = Empty /\ buffered' = <<>> /\ pc' = "down" /\ task' = "none"
        /\ UNCHANGED <<files, journal, published, writes>>
    BY DEF Kill, Lose, Goto
  <1>2. spool' \in Memory /\ buffered' \in Seq(Rec)
    BY <1>1, Fields
  <1>3. QED
    BY <1>1, <1>2, StoredStays, Halts

\* A file without its last cell keeps the cells before it.
LEMMA FrontFacts ==
    ASSUME NEW f \in Seq(Int), Len(f) >= 1
    PROVE  /\ Front(f) \in Seq(Int) /\ Len(Front(f)) = Len(f) - 1
           /\ \A r \in Rng : Holds(f, r) /\ r.off < Len(f) => Holds(Front(f), r)
           /\ \A i \in 1 .. Len(f) - 1 : Front(f)[i] = f[i]
  <1>1. PICK m \in Nat : m = Len(f) - 1
    OBVIOUS
  <1>2. Len(f) = m + 1 /\ \A i \in 1 .. m : f[i] \in Int
    BY <1>1, ElementOfSeq
  <1>3. /\ SubSeq(f, 1, m) \in Seq(Int)
        /\ Len(SubSeq(f, 1, m)) = IF 1 <= m THEN m - 1 + 1 ELSE 0
        /\ \A i \in 1 .. m - 1 + 1 : SubSeq(f, 1, m)[i] = f[1 + i - 1]
    <2>1. 1 \in Int /\ m \in Int
      OBVIOUS
    <2>2. QED
      BY <1>2, <2>1, SubSeqProperties
  <1>4. Front(f) = SubSeq(f, 1, m)
    BY <1>1 DEF Front
  <1> HIDE DEF Front
  <1>5. Front(f) \in Seq(Int) /\ Len(Front(f)) = m
    BY <1>3, <1>4
  <1>6. \A i \in 1 .. m : Front(f)[i] = f[i]
    <2>1. m - 1 + 1 = m /\ \A i \in 1 .. m : 1 + i - 1 = i
      OBVIOUS
    <2>2. QED
      BY <1>3, <1>4, <2>1
  <1>7. ASSUME NEW r \in Rng, Holds(f, r), r.off < Len(f)
        PROVE  Holds(Front(f), r)
    <2>1. r.off \in Nat /\ r.off >= 1
      BY Fields
    <2>2. r.off \in 1 .. m
      BY <1>2, <1>7, <2>1
    <2>3. f[r.off] = r.id
      BY <1>7 DEF Holds
    <2>4. r.off <= Len(Front(f)) /\ Front(f)[r.off] = r.id
      BY <1>5, <1>6, <2>2, <2>3
    <2>5. QED
      BY <2>4 DEF Holds
  <1>8. QED
    BY <1>1, <1>5, <1>6, <1>7

\* A power loss leaves of each file something between the two versions, and of
\* the removals a first part.
LEMMA PowerLossKeeps ==
    ASSUME IInv, PowerLoss
    PROVE  IInv'
  <1>1. TypeInv /\ Order /\ Kept /\ IndexBacked /\ Numbered
    BY DEF IInv, Stored
  <1>2. /\ spool' = Empty /\ buffered' = <<>> /\ pc' = "down" /\ task' = "none"
        /\ seen' = stable' /\ gone' = {}
        /\ UNCHANGED <<log, durable, cleaned, published, writes>>
    BY DEF PowerLoss, Lose, Goto, journal
  <1> DEFINE FilesOf(kept) ==
                 IF gone \ kept = {} \/ "file" \notin gone
                 THEN Survivors(IF "file" \in kept THEN <<>> ELSE stable.file, seen.file)
                 ELSE {stable.file}
             IndexesOf(kept) ==
                 IF "index" \in gone \ kept THEN {stable.index}
                 ELSE IF "index" \in kept THEN {NoIndex}
                 ELSE IndexSurvivors(stable.index, seen.index)
  <1>a. PICK kept \in {{}, gone \ {"file"}, gone} :
           \E file \in FilesOf(kept) : \E index \in IndexesOf(kept) :
               stable' = [file |-> file, index |-> index]
    BY DEF PowerLoss
  <1>b. PICK file \in FilesOf(kept) :
           \E index \in IndexesOf(kept) : stable' = [file |-> file, index |-> index]
    BY <1>a
  <1>3. PICK index \in IndexesOf(kept) : stable' = [file |-> file, index |-> index]
    BY <1>b
  <1>4. stable.file \in Seq(Int) /\ seen.file \in Seq(Int) /\ <<>> \in Seq(Int)
    BY <1>1, Typed, Fields
  <1>5. file \in Seq(Int)
    BY <1>3, <1>4, SurvivorFacts
  <1>6. ASSUME NEW r \in Rng, Holds(stable.file, r), Holds(seen.file, r), "file" \notin gone
        PROVE  Holds(file, r)
    <2>1. "file" \notin kept
      BY <1>3, <1>6
    <2>2. file \in Survivors(stable.file, seen.file)
      BY <1>3, <1>6, <2>1
    <2>3. QED
      BY <1>4, <1>6, <2>2, SurvivorFacts
  <1>7. index \in Idx /\ (index.there => stable.index.there)
        /\ (~index.there => index = NoIndex)
        /\ ("index" \in kept => ~index.there)
        /\ (index.there /\ "index" \notin gone => seen.index.there)
    <2>1. stable.index \in Idx /\ seen.index \in Idx
      BY <1>1, Typed
    <2>2. [stable.index EXCEPT !.torn = TRUE] \in Idx
          /\ [stable.index EXCEPT !.torn = TRUE].there = stable.index.there
      BY <2>1 DEF Idx
    <2>3. index \in {stable.index, seen.index, NoIndex}
          \/ (index = [stable.index EXCEPT !.torn = TRUE] /\ stable.index # seen.index)
      BY <1>3 DEF IndexSurvivors
    <2>4. index \in Idx
      BY <2>1, <2>2, <2>3, Fields
    <2>5. index.there => stable.index.there
      BY <1>1, <2>1, <2>2, <2>3, Fields DEF IndexBacked
    <2>6. ~index.there => index = NoIndex
      BY <1>1, <2>1, <2>2, <2>3, Fields DEF IndexBacked
    <2>7. "index" \in kept => ~index.there
      BY <1>3, Fields
    <2>8. index.there /\ "index" \notin gone => seen.index.there
      BY <1>1, <2>5 DEF IndexBacked
    <2>9. QED
      BY <2>4, <2>5, <2>6, <2>7, <2>8
  <1>8. ASSUME index.there
        PROVE  file # <<>>
    <2>1. stable.file # <<>> /\ "index" \notin kept
      BY <1>1, <1>7, <1>8 DEF IndexBacked
    <2>2. CASE "index" \in gone
      <3>1. kept = {}
        BY <1>3, <2>1, <2>2
      <3>2. CASE "file" \in gone
        BY <1>3, <2>1, <2>2, <3>1, <3>2
      <3>3. CASE "file" \notin gone
        <4>1. seen.file # <<>>
          BY <1>1, <2>2, <3>3 DEF IndexBacked
        <4>2. file \in Survivors(stable.file, seen.file)
          BY <1>3, <3>1, <3>3
        <4>3. QED
          BY <1>4, <2>1, <4>1, <4>2, SurvivorFacts
      <3>4. QED
        BY <3>2, <3>3
    <2>3. CASE "index" \notin gone
      <3>1. gone = {} /\ seen.file # <<>>
        BY <1>1, <1>7, <1>8, <2>3 DEF IndexBacked
      <3>2. file \in Survivors(stable.file, seen.file)
        BY <1>3, <3>1
      <3>3. QED
        BY <1>4, <2>1, <3>1, <3>2, SurvivorFacts
    <2>4. QED
      BY <2>2, <2>3
  <1>9. stable'.file = file /\ stable'.index = index /\ stable' \in Files
    BY <1>3, <1>5, <1>7 DEF Files
  <1>10. TypeInv'
    BY <1>1, <1>2, <1>9, Fields DEF TypeInv
  <1>11. Order' /\ Numbered'
    BY <1>1, <1>2 DEF Order, Numbered
  <1>12. Kept'
    <2>1. Owed' = Owed /\ \A s \in Owed : Ref(s)' = Ref(s) /\ s \in 1 .. Len(log)
      BY <1>1, <1>2, Typed DEF Owed, Ref
    <2>2. ASSUME NEW s \in Owed, ~log[s].inline
          PROVE  Holds(file, Ref(s))
      <3>1. Ref(s) \in Rng
        BY <1>1, <2>1, Records
      <3>2. Holds(stable.file, Ref(s)) /\ Holds(seen.file, Ref(s)) /\ "file" \notin gone
        BY <1>1, <2>2 DEF Kept
      <3>3. QED
        BY <1>6, <3>1, <3>2
    <2>3. QED
      BY <1>2, <1>9, <2>1, <2>2 DEF Kept
  <1>13. IndexBacked'
    BY <1>2, <1>7, <1>8, <1>9 DEF IndexBacked
  <1>14. QED
    BY <1>2, <1>10, <1>11, <1>12, <1>13, Halts DEF Stored

\* A new index, or a frame appended to one, is an index.
LEMMA NewIndexTyped ==
    ASSUME TypeInv
    PROVE  NewIndex \in Idx /\ NewIndex.there
  <1>1. /\ seen.index.ranges \cup spool.pending \in SUBSET Rng /\ spool.ranges \in SUBSET Rng
        /\ spool.next \in Nat
    BY Typed, Fields
  <1>2. (spool.started /\ (seen.index.torn \/ ~seen.index.there)) \in BOOLEAN
    BY Typed, Fields
  <1>3. QED
    BY <1>1, <1>2 DEF NewIndex, Idx

\* A flush that fails may cut the write off the file again, which takes no
\* payload of an accepted record.
LEMMA FlushFailsStored ==
    ASSUME IInv, FlushFails
    PROVE  /\ Stored' /\ (task \notin AppendTask => seen'.file = seen.file)
           /\ seen' = [file |-> seen'.file, index |-> seen'.index]
           /\ (seen.index.there => seen'.index.there)
           /\ (~seen.index.there => seen'.index = seen.index)
           /\ stable'.file = stable.file
           /\ seen'.file = seen.file \/ (seen'.file = Front(seen.file) /\ task \in AppendTask)
  <1>1. /\ TypeInv /\ Order /\ Kept /\ IndexBacked /\ Numbered
        /\ TaskInv /\ Sized /\ Live /\ Synced /\ InProgress /\ IndexSteps
    BY DEF IInv, Stored, Running
  <1>2. /\ pc \in {"flush", "index"} /\ pc \in Steps /\ buffered' = <<>>
        /\ UNCHANGED <<gone, spool, log, durable, cleaned, published, writes>>
    BY DEF FlushFails, journal, Steps
  <1>3. PICK file \in {seen.file} \cup
                          (IF Served(task) = "record" THEN {Front(seen.file)} ELSE {}),
             index \in FrameLeft(seen.index), kept \in FrameLeft(stable.index) :
                seen' = [file |-> file, index |-> index] /\ stable' = [stable EXCEPT !.index = kept]
    BY DEF FlushFails
  <1>4. Served(task) = "record" => task \in AppendTask
    BY <1>1, <1>2 DEF TaskInv, Steps, AppendTask, Served
  <1>5. /\ seen'.index = index /\ stable'.index = kept /\ stable'.file = stable.file
        /\ seen'.file = seen.file \/ (seen'.file = Front(seen.file) /\ task \in AppendTask)
        /\ seen' = [file |-> seen'.file, index |-> seen'.index]
        /\ stable' = [file |-> stable'.file, index |-> stable'.index]
    BY <1>1, <1>3, <1>4, Typed
  <1>6. ASSUME NEW x \in Idx, x = seen.index \/ x = stable.index, NEW y \in FrameLeft(x)
        PROVE  /\ y \in Idx /\ (x.there => y.there) /\ (~x.there => y = x)
    <2>1. CASE pc = "index" /\ spool.dirty /\ spool.started
      <3>1. seen.index.there /\ stable.index.there
        BY <1>1, <1>2, <2>1 DEF Sized, Up, IndexBacked
      <3>2. NewIndex \in Idx /\ NewIndex.there
        BY <1>1, <2>1, NewIndexTyped
      <3>3. y \in {x, NewIndex, [x EXCEPT !.torn = TRUE]}
        BY <1>6, <2>1 DEF FrameLeft, IndexSurvivors
      <3>4. [x EXCEPT !.torn = TRUE] \in Idx /\ [x EXCEPT !.torn = TRUE].there = x.there
        BY DEF Idx
      <3>5. QED
        BY <1>6, <3>1, <3>2, <3>3, <3>4
    <2>2. CASE ~(pc = "index" /\ spool.dirty /\ spool.started)
      BY <1>6, <2>2 DEF FrameLeft
    <2>3. QED
      BY <2>1, <2>2
  <1>7. /\ seen.index.there => seen'.index.there
        /\ ~seen.index.there => seen'.index = seen.index
        /\ stable.index.there => stable'.index.there
        /\ ~stable.index.there => stable'.index = stable.index
        /\ seen'.index \in Idx /\ stable'.index \in Idx
    BY <1>1, <1>3, <1>5, <1>6, Typed
  <1>8. Owed' = Owed /\ \A s \in Owed : Ref(s)' = Ref(s) /\ s \in 1 .. Len(log)
    BY <1>1, <1>2, Typed DEF Owed, Ref
  <1>9. ASSUME seen'.file = Front(seen.file), task \in AppendTask
        PROVE  /\ seen'.file \in Seq(Int)
               /\ \A s \in Owed : ~log[s].inline => Holds(seen'.file, Ref(s))
               /\ seen.index.there => seen'.file # <<>>
               /\ "index" \in gone => "file" \in gone
    <2>1. Appending /\ Serving /\ Up
      BY <1>2, <1>9 DEF Appending, Serving, Up, Steps
    <2>2. /\ spool.next = Len(seen.file) /\ seen.file \in Seq(Int) /\ Len(seen.file) \in Nat
          /\ writes \in Nat
      BY <1>1, <2>1, Typed DEF Sized
    <2>3. Current \in spool.ranges /\ Current.off = spool.next /\ Current \in Rng
      BY <1>1, <2>1, Typed DEF InProgress, Current
    <2>4. Len(seen.file) >= 1
      BY <2>2, <2>3, Fields
    <2>5. /\ Front(seen.file) \in Seq(Int) /\ Len(Front(seen.file)) = Len(seen.file) - 1
          /\ \A r \in Rng : Holds(seen.file, r) /\ r.off < Len(seen.file)
                                => Holds(Front(seen.file), r)
      BY <2>2, <2>4, FrontFacts
    <2>6. ASSUME NEW s \in Owed, ~log[s].inline
          PROVE  Holds(seen'.file, Ref(s))
      <3>1. Ref(s) \in Rng /\ Ref(s).id = log[s].id /\ s \in DOMAIN log /\ log[s] \in Rec
        BY <1>1, <1>8, Records, Typed
      <3>2. Ref(s) \in spool.ranges /\ Holds(seen.file, Ref(s))
        BY <1>1, <2>1, <2>6 DEF Live, Kept
      <3>3. log[s].id < writes /\ log[s].id \in Nat
        BY <1>1, <2>1, <3>1, Fields DEF InProgress
      <3>4. Ref(s).off < spool.next
        BY <1>1, <2>1, <2>2, <3>1, <3>2, <3>3 DEF InProgress
      <3>5. QED
        BY <1>9, <2>2, <2>5, <3>1, <3>2, <3>4
    <2>7. seen.index.there => seen'.file # <<>>
      <3>1. seen.index.there => Len(seen.file) >= 2
        BY <1>1, <1>2, <1>9 DEF InProgress
      <3>2. QED
        BY <1>9, <2>2, <2>5, <3>1, EmptySeq
    <2>8. "index" \in gone => "file" \in gone
      BY <1>1, <2>1 DEF Synced
    <2>9. QED
      BY <1>9, <2>5, <2>6, <2>7, <2>8
  <1>10. /\ seen'.file \in Seq(Int)
         /\ \A s \in Owed : ~log[s].inline => Holds(seen'.file, Ref(s))
         /\ seen.index.there => seen'.file # <<>>
         /\ "index" \in gone /\ "file" \notin gone => seen'.file # <<>>
    <2>1. CASE seen'.file = seen.file
      BY <1>1, <2>1, Typed DEF Kept, IndexBacked
    <2>2. CASE seen'.file = Front(seen.file) /\ task \in AppendTask
      BY <1>9, <2>2
    <2>3. QED
      BY <1>5, <2>1, <2>2
  <1>11. TypeInv'
    BY <1>1, <1>2, <1>5, <1>7, <1>10, Fields, Typed DEF TypeInv, Files
  <1>12. Order' /\ Numbered'
    BY <1>1, <1>2 DEF Order, Numbered
  <1>13. Kept'
    BY <1>1, <1>2, <1>5, <1>8, <1>10 DEF Kept
  <1>14. IndexBacked'
    BY <1>1, <1>2, <1>5, <1>7, <1>10 DEF IndexBacked
  <1>15. QED
    BY <1>5, <1>7, <1>11, <1>12, <1>13, <1>14 DEF Stored

---------------------------------------------------------------------------
(* Steps of the control alone.                                             *)

\* An acceptance flushes first unless every record carries its payload.
LEMMA AcceptMutationJournalKeeps ==
    ASSUME IInv, AcceptMutationJournal
    PROVE  IInv'
  <1>1. /\ TypeInv /\ Order /\ Kept /\ IndexBacked /\ Numbered /\ TaskInv /\ Marks
        /\ Removable /\ Sized /\ Live /\ Synced /\ Cleared /\ Open /\ InProgress /\ Origin
        /\ Retired /\ IndexSteps
    BY DEF IInv, Stored, Running
  <1>2. /\ pc = "serve" /\ task' = "accept" /\ pc' \in {"log", "flush"}
        /\ pc' = "log" => \A i \in DOMAIN buffered : buffered[i].inline
        /\ UNCHANGED <<seen, stable, gone, spool, buffered, log, durable, cleaned, published,
                       writes>>
    BY DEF AcceptMutationJournal, Accepting, Goto, CanAcceptWithoutPayloadSpoolFlush, files,
       journal
  <1>3. spool' \in Memory /\ buffered' \in Seq(Rec)
    BY <1>1, <1>2 DEF TypeInv
  <1>4. Stored'
    BY <1>2, <1>3, StoredStays DEF files, journal
  <1>5. TaskInv'
    BY <1>1, <1>2 DEF TaskInv, Steps, AppendTask
  <1>6. Marks'
    BY <1>1, <1>2 DEF Marks
  <1>7. Removable'
    BY <1>1, <1>2 DEF Removable, Owed
  <1>8. Sized'
    BY <1>1, <1>2 DEF Sized, Up, Steps
  <1>9. Live'
    BY <1>1, <1>2
    DEF Live, Serving, Starting, Up, Appending, Discarding, Steps, AppendTask, Owed, Ref
  <1>10. Synced'
    BY <1>1, <1>2 DEF Synced, Serving, Starting, Up, Appending, Discarding, Steps, AppendTask
  <1>11. Cleared'
    BY <1>1, <1>2 DEF Cleared, Serving, Starting, Up, Appending, Discarding, Steps, AppendTask
  <1>12. Open'
    BY <1>1, <1>2
    DEF Open, BRef, Serving, Starting, Up, Appending, Discarding, Steps, AppendTask
  <1>13. InProgress'
    BY <1>1, <1>2
    DEF InProgress, Current, Serving, Starting, Up, Appending, Discarding, Steps, AppendTask
  <1>14. Origin'
    <2>1. (Tracked' => Tracked) /\ (Appending => Appending')
      BY <1>1, <1>2 DEF Tracked, TaskInv, Serving, Starting, Up, Appending, Discarding, Steps,
         AppendTask
    <2>2. QED
      BY <1>1, <1>2, <2>1, OriginSame
  <1>15. Retired'
    BY <1>1, <1>2 DEF Retired, Steps
  <1>16. IndexSteps'
    BY <1>1, <1>2 DEF IndexSteps
  <1>18. QED
    BY <1>4, <1>5, <1>6, <1>7, <1>8, <1>9, <1>10, <1>11, <1>12, <1>13, <1>14, <1>15, <1>16 DEF IInv, Running

\* So does a drain; with nothing buffered it commits.
LEMMA DrainKeeps ==
    ASSUME IInv, Drain
    PROVE  IInv'
  <1>1. /\ TypeInv /\ Order /\ Kept /\ IndexBacked /\ Numbered /\ TaskInv /\ Marks
        /\ Removable /\ Sized /\ Live /\ Synced /\ Cleared /\ Open /\ InProgress /\ Origin
        /\ Retired /\ IndexSteps
    BY DEF IInv, Stored, Running
  <1>2. /\ pc = "serve" /\ task' = "drain" /\ pc' \in {"log", "flush", "commit"}
        /\ pc' = "log" => \A i \in DOMAIN buffered : buffered[i].inline
        /\ pc' = "commit" => buffered = <<>>
        /\ UNCHANGED <<seen, stable, gone, spool, buffered, log, durable, cleaned, published,
                       writes>>
    BY DEF Drain, Accepting, Goto, CanAcceptWithoutPayloadSpoolFlush, files, journal
  <1>3. spool' \in Memory /\ buffered' \in Seq(Rec)
    BY <1>1, <1>2 DEF TypeInv
  <1>4. Stored'
    BY <1>2, <1>3, StoredStays DEF files, journal
  <1>5. TaskInv'
    BY <1>1, <1>2 DEF TaskInv, Steps, AppendTask
  <1>6. Marks'
    BY <1>1, <1>2 DEF Marks
  <1>7. Removable'
    BY <1>1, <1>2 DEF Removable, Owed
  <1>8. Sized'
    BY <1>1, <1>2 DEF Sized, Up, Steps
  <1>9. Live'
    BY <1>1, <1>2
    DEF Live, Serving, Starting, Up, Appending, Discarding, Steps, AppendTask, Owed, Ref
  <1>10. Synced'
    BY <1>1, <1>2 DEF Synced, Serving, Starting, Up, Appending, Discarding, Steps, AppendTask
  <1>11. Cleared'
    BY <1>1, <1>2 DEF Cleared, Serving, Starting, Up, Appending, Discarding, Steps, AppendTask
  <1>12. Open'
    BY <1>1, <1>2
    DEF Open, BRef, Serving, Starting, Up, Appending, Discarding, Steps, AppendTask
  <1>13. InProgress'
    BY <1>1, <1>2
    DEF InProgress, Current, Serving, Starting, Up, Appending, Discarding, Steps, AppendTask
  <1>14. Origin'
    <2>1. (Tracked' => Tracked) /\ (Appending => Appending')
      BY <1>1, <1>2 DEF Tracked, TaskInv, Serving, Starting, Up, Appending, Discarding, Steps,
         AppendTask
    <2>2. QED
      BY <1>1, <1>2, <2>1, OriginSame
  <1>15. Retired'
    BY <1>1, <1>2 DEF Retired, Steps
  <1>16. IndexSteps'
    BY <1>1, <1>2 DEF IndexSteps
  <1>18. QED
    BY <1>4, <1>5, <1>6, <1>7, <1>8, <1>9, <1>10, <1>11, <1>12, <1>13, <1>14, <1>15, <1>16 DEF IInv, Running

\* A finalization flushes first unless every owed record carries its payload.
LEMMA FinalizeMutationJournalKeeps ==
    ASSUME IInv, FinalizeMutationJournal
    PROVE  IInv'
  <1>1. /\ TypeInv /\ Order /\ Kept /\ IndexBacked /\ Numbered /\ TaskInv /\ Marks
        /\ Removable /\ Sized /\ Live /\ Synced /\ Cleared /\ Open /\ InProgress /\ Origin
        /\ Retired /\ IndexSteps
    BY DEF IInv, Stored, Running
  <1>2. /\ pc = "final" /\ task' = "final" /\ pc' \in {"mark", "flush"}
        /\ UNCHANGED <<seen, stable, gone, spool, buffered, log, durable, cleaned, published,
                       writes>>
    BY DEF FinalizeMutationJournal, Goto, files, journal
  <1>3. spool' \in Memory /\ buffered' \in Seq(Rec)
    BY <1>1, <1>2 DEF TypeInv
  <1>4. Stored'
    BY <1>2, <1>3, StoredStays DEF files, journal
  <1>5. buffered = <<>>
    BY <1>2, Closed DEF Steps
  <1>6. TaskInv'
    BY <1>1, <1>2, <1>5 DEF TaskInv, Steps, AppendTask
  <1>7. Marks'
    BY <1>1, <1>2, <1>5 DEF Marks
  <1>8. Removable'
    BY <1>1, <1>2, <1>5 DEF Removable, Owed
  <1>9. Sized'
    BY <1>1, <1>2, <1>5 DEF Sized, Up, Steps
  <1>10. Live'
    BY <1>1, <1>2, <1>5
    DEF Live, Serving, Starting, Up, Appending, Discarding, Steps, AppendTask, Owed, Ref
  <1>11. Synced'
    BY <1>1, <1>2, <1>5
    DEF Synced, Serving, Starting, Up, Appending, Discarding, Steps, AppendTask
  <1>12. Cleared'
    BY <1>1, <1>2, <1>5
    DEF Cleared, Serving, Starting, Up, Appending, Discarding, Steps, AppendTask
  <1>13. Open'
    BY <1>1, <1>2, <1>5
    DEF Open, BRef, Serving, Starting, Up, Appending, Discarding, Steps, AppendTask
  <1>14. InProgress'
    BY <1>1, <1>2, <1>5
    DEF InProgress, Current, Serving, Starting, Up, Appending, Discarding, Steps, AppendTask
  <1>15. Origin'
    <2>1. (Tracked' => Tracked) /\ (Appending => Appending')
      BY <1>1, <1>2, <1>5 DEF Tracked, TaskInv, Serving, Starting, Up, Appending, Discarding,
         Steps, AppendTask
    <2>2. QED
      BY <1>1, <1>2, <1>5, <2>1, OriginSame
  <1>16. Retired'
    BY <1>1, <1>2, <1>5 DEF Retired, Steps
  <1>17. IndexSteps'
    BY <1>1, <1>2, <1>5 DEF IndexSteps
  <1>19. QED
    BY <1>4, <1>6, <1>7, <1>8, <1>9, <1>10, <1>11, <1>12, <1>13, <1>14, <1>15, <1>16, <1>17 DEF IInv, Running

\* A start without accepted work refuses only over bytes that it found.
LEMMA ResolveUnindexedPayloadKeeps ==
    ASSUME IInv, ResolveUnindexedPayload
    PROVE  IInv'
  <1>1. /\ TypeInv /\ Order /\ Kept /\ IndexBacked /\ Numbered /\ TaskInv /\ Marks
        /\ Removable /\ Sized /\ Live /\ Synced /\ Cleared /\ Open /\ InProgress /\ Origin
        /\ Retired /\ IndexSteps
    BY DEF IInv, Stored, Running
  <1>2. /\ pc = "resolve" /\ pc' \in {"remove", "refused"}
        /\ task' = IF pc' = "remove" THEN "resolve" ELSE "none"
        /\ pc' = "remove" => ~seen.index.there
        /\ UNCHANGED <<seen, stable, gone, spool, buffered, log, durable, cleaned, published,
                       writes>>
    BY DEF ResolveUnindexedPayload, Goto, files, journal
  <1>3. spool' \in Memory /\ buffered' \in Seq(Rec)
    BY <1>1, <1>2 DEF TypeInv
  <1>4. Stored'
    BY <1>2, <1>3, StoredStays DEF files, journal
  <1>5. buffered = <<>>
    BY <1>2, Closed DEF Steps
  <1>6. Owed = {} /\ cleaned + 1 .. Len(log) = {}
    BY <1>1, <1>2, Typed DEF Owed, Order, Marks
  <1>7. Len(seen.file) \in DOMAIN seen.file
    <2>1. spool.next # 0 /\ spool.next = Len(seen.file)
      BY <1>1, <1>2 DEF Marks, Sized, Up
    <2>2. QED
      BY <1>1, <2>1, Typed
  <1>8. TaskInv'
    BY <1>1, <1>2, <1>5 DEF TaskInv, Steps, AppendTask
  <1>9. Marks'
    BY <1>1, <1>2, <1>5 DEF Marks
  <1>10. Removable'
    BY <1>2, <1>6 DEF Removable, Owed
  <1>11. Sized'
    BY <1>1, <1>2, <1>5 DEF Sized, Up, Steps
  <1>12. Live'
    BY <1>1, <1>2, <1>5
    DEF Live, Serving, Starting, Up, Appending, Discarding, Steps, AppendTask, Owed, Ref
  <1>13. Synced'
    BY <1>1, <1>2, <1>5
    DEF Synced, Serving, Starting, Up, Appending, Discarding, Steps, AppendTask
  <1>14. Cleared'
    BY <1>1, <1>2, <1>5
    DEF Cleared, Serving, Starting, Up, Appending, Discarding, Steps, AppendTask
  <1>15. Open'
    BY <1>1, <1>2, <1>5
    DEF Open, BRef, Serving, Starting, Up, Appending, Discarding, Steps, AppendTask
  <1>16. InProgress'
    BY <1>1, <1>2, <1>5
    DEF InProgress, Current, Serving, Starting, Up, Appending, Discarding, Steps, AppendTask
  <1>17. Origin'
    <2>1. (Tracked' => Tracked) /\ (Appending => Appending')
      BY <1>1, <1>2, <1>5 DEF Tracked, TaskInv, Serving, Starting, Up, Appending, Discarding,
         Steps, AppendTask
    <2>2. QED
      BY <1>1, <1>2, <1>5, <2>1, OriginSame
  <1>18. Retired'
    BY <1>1, <1>2, <1>5 DEF Retired, Steps
  <1>19. IndexSteps'
    BY <1>1, <1>2 DEF IndexSteps, IndexBacked
  <1>21. QED
    BY <1>4, <1>8, <1>9, <1>10, <1>11, <1>12, <1>13, <1>14, <1>15, <1>16, <1>17, <1>18,
       <1>19 DEF IInv, Running

\* A replay begins once every record it publishes has a range.
LEMMA ReplayKeeps ==
    ASSUME IInv, Replay
    PROVE  IInv'
  <1>1. /\ TypeInv /\ Order /\ Kept /\ IndexBacked /\ Numbered /\ TaskInv /\ Marks
        /\ Removable /\ Sized /\ Live /\ Synced /\ Cleared /\ Open /\ InProgress /\ Origin
        /\ Retired /\ IndexSteps
    BY DEF IInv, Stored, Running
  <1>2. /\ pc = "restore" /\ pc' = "commit" /\ task' = "replay"
        /\ ToRestore = {} /\ Unreadable = {}
        /\ UNCHANGED <<seen, stable, gone, spool, buffered, log, durable, cleaned, published,
                       writes>>
    BY DEF Replay, Goto, files, journal
  <1>3. spool' \in Memory /\ buffered' \in Seq(Rec)
    BY <1>1, <1>2 DEF TypeInv
  <1>4. Stored'
    BY <1>2, <1>3, StoredStays DEF files, journal
  <1>5. buffered = <<>>
    BY <1>2, Closed DEF Steps
  <1>6. Owed = Unpublished
    BY <1>1, <1>2 DEF Owed, Unpublished, Marks
  <1>7. \A s \in Owed : Ref(s) \in spool.ranges
    <2> SUFFICES ASSUME NEW s \in Unpublished PROVE Ref(s) \in spool.ranges
      BY <1>6
    <2>1. CASE log[s].inline
      BY <1>2, <2>1 DEF ToRestore
    <2>2. CASE ~log[s].inline
      BY <1>2, <2>2 DEF Unreadable, ReadPersistedRange
    <2>3. QED
      BY <2>1, <2>2
  <1>8. TaskInv'
    BY <1>1, <1>2, <1>5 DEF TaskInv, Steps, AppendTask
  <1>9. Marks'
    BY <1>1, <1>2, <1>5 DEF Marks
  <1>10. Removable'
    BY <1>1, <1>2, <1>5 DEF Removable, Owed
  <1>11. Sized'
    BY <1>1, <1>2, <1>5 DEF Sized, Up, Steps
  <1>12. Live'
    BY <1>1, <1>2, <1>5, <1>7
    DEF Live, Serving, Starting, Up, Appending, Discarding, Steps, AppendTask, Owed, Ref
  <1>13. Synced'
    BY <1>1, <1>2, <1>5
    DEF Synced, Serving, Starting, Up, Appending, Discarding, Steps, AppendTask
  <1>14. Cleared'
    BY <1>1, <1>2, <1>5
    DEF Cleared, Serving, Starting, Up, Appending, Discarding, Steps, AppendTask
  <1>15. Open'
    BY <1>1, <1>2, <1>5
    DEF Open, BRef, Serving, Starting, Up, Appending, Discarding, Steps, AppendTask
  <1>16. InProgress'
    BY <1>1, <1>2, <1>5
    DEF InProgress, Current, Serving, Starting, Up, Appending, Discarding, Steps, AppendTask
  <1>17. Origin'
    <2>1. (Tracked' => Tracked) /\ (Appending => Appending')
      BY <1>1, <1>2, <1>5 DEF Tracked, TaskInv, Serving, Starting, Up, Appending, Discarding,
         Steps, AppendTask
    <2>2. QED
      BY <1>1, <1>2, <1>5, <2>1, OriginSame
  <1>18. Retired'
    BY <1>1, <1>2, <1>5 DEF Retired, Steps
  <1>19. IndexSteps'
    BY <1>1, <1>2, <1>5 DEF IndexSteps
  <1>21. QED
    BY <1>4, <1>8, <1>9, <1>10, <1>11, <1>12, <1>13, <1>14, <1>15, <1>16, <1>17, <1>18,
       <1>19 DEF IInv, Running

---------------------------------------------------------------------------
(* Failures that need not block, refusals, commits and marks.              *)

\* A flush that fails for a finalization leaves the host serving.
LEMMA FinalFlushFailsKeeps ==
    ASSUME IInv, FlushFails, task = "final", pc' = "serve", task' = "none"
    PROVE  IInv'
  <1>1. /\ TypeInv /\ Order /\ Kept /\ IndexBacked /\ Numbered /\ TaskInv /\ Marks
        /\ Removable /\ Sized /\ Live /\ Synced /\ Cleared /\ Open /\ InProgress /\ Origin
        /\ Retired /\ IndexSteps
    BY DEF IInv, Stored, Running
  <1>2. /\ pc \in Steps /\ pc' = "serve" /\ task = "final" /\ task' = "none" /\ buffered' = <<>>
        /\ UNCHANGED <<gone, spool, log, durable, cleaned, published, writes>>
    BY DEF FlushFails, Goto, journal, Steps
  <1>3. buffered = <<>> /\ DOMAIN buffered = {}
    BY <1>2, Closed DEF Steps, AppendTask
  <1>4. /\ Stored' /\ seen'.file = seen.file /\ stable'.file = stable.file
        /\ seen' = [file |-> seen'.file, index |-> seen'.index]
        /\ seen.index.there => seen'.index.there
        /\ ~seen.index.there => seen'.index = seen.index
    BY <1>2, FlushFailsStored DEF AppendTask
  <1>5. TaskInv'
    BY <1>1, <1>2, <1>3, <1>4 DEF TaskInv, Steps, AppendTask
  <1>6. Marks'
    BY <1>1, <1>2, <1>3, <1>4 DEF Marks
  <1>7. Removable'
    BY <1>1, <1>2, <1>3, <1>4 DEF Removable, Owed
  <1>8. Sized'
    BY <1>1, <1>2, <1>3, <1>4 DEF Sized, Up, Steps
  <1>9. Live'
    BY <1>1, <1>2, <1>3, <1>4
    DEF Live, Serving, Starting, Up, Appending, Discarding, Steps, AppendTask, Owed, Ref
  <1>10. Synced'
    BY <1>1, <1>2, <1>3, <1>4
    DEF Synced, Serving, Starting, Up, Appending, Discarding, Steps, AppendTask
  <1>11. Cleared'
    <2>1. ~NoIndex.there
      BY Fields
    <2>2. QED
      BY <1>1, <1>2, <1>4, <2>1 DEF Cleared, Serving, Starting, Up, Appending, Discarding,
         Steps, AppendTask
  <1>12. Open'
    BY <1>1, <1>2, <1>3, <1>4
    DEF Open, BRef, Serving, Starting, Up, Appending, Discarding, Steps, AppendTask
  <1>13. InProgress'
    BY <1>1, <1>2, <1>3, <1>4
    DEF InProgress, Current, Serving, Starting, Up, Appending, Discarding, Steps, AppendTask
  <1>14. Origin'
    <2>1. (Tracked' => Tracked) /\ (Appending => Appending')
      BY <1>1, <1>2, <1>3, <1>4 DEF Tracked, TaskInv, Serving, Starting, Up, Appending,
         Discarding, Steps, AppendTask
    <2>2. QED
      BY <1>1, <1>2, <1>3, <1>4, <2>1, OriginSame
  <1>15. Retired'
    BY <1>1, <1>2, <1>3, <1>4 DEF Retired, Steps
  <1>16. IndexSteps'
    BY <1>1, <1>2, <1>3, <1>4 DEF IndexSteps
  <1>18. QED
    BY <1>4, <1>5, <1>6, <1>7, <1>8, <1>9, <1>10, <1>11, <1>12, <1>13, <1>14, <1>15, <1>16 DEF IInv, Running

\* Every other failure of a flush blocks.
LEMMA FlushFailsKeeps ==
    ASSUME IInv, FlushFails
    PROVE  IInv'
  <1>1. CASE pc' = "serve"
    <2>1. task = "final" /\ task' = "none"
      BY <1>1 DEF FlushFails, Block, Goto
    <2>2. QED
      BY <1>1, <2>1, FinalFlushFailsKeeps
  <1>2. CASE pc' # "serve"
    <2>1. pc' = "blocked" /\ task' = "none" /\ buffered' = <<>>
      BY <1>2 DEF FlushFails, Block, Goto
    <2>2. QED
      BY <2>1, FlushFailsStored, Halts
  <1>3. QED
    BY <1>1, <1>2

\* A rebuild is refused over a range or a last cell that is no record's.
LEMMA RebuildRefusedKeeps ==
    ASSUME IInv, RebuildRefused
    PROVE  IInv'
  <1>1. /\ TypeInv /\ Order /\ Kept /\ IndexBacked /\ Numbered /\ TaskInv /\ Marks
        /\ Removable /\ Sized /\ Live /\ Synced /\ Cleared /\ Open /\ InProgress /\ Origin
        /\ Retired /\ IndexSteps
    BY DEF IInv, Stored, Running
  <1>2. /\ pc = "rebuild" /\ pc' = "refused" /\ task' = "none" /\ ~RebuildComplete
        /\ UNCHANGED <<seen, stable, gone, spool, buffered, log, durable, cleaned, published,
                       writes>>
    BY DEF RebuildRefused, Goto, files, journal
  <1>3. spool' \in Memory /\ buffered' \in Seq(Rec)
    BY <1>1, <1>2 DEF TypeInv
  <1>4. Stored'
    BY <1>2, <1>3, StoredStays DEF files, journal
  <1>5. buffered = <<>> /\ DOMAIN buffered = {}
    BY <1>2, Closed DEF Steps
  <1>7. TaskInv'
    BY <1>1, <1>2, <1>5 DEF TaskInv, Steps, AppendTask
  <1>8. Marks'
    BY <1>1, <1>2, <1>5 DEF Marks
  <1>9. Removable'
    BY <1>1, <1>2, <1>5 DEF Removable, Owed
  <1>10. Sized'
    BY <1>1, <1>2, <1>5 DEF Sized, Up, Steps
  <1>11. Live'
    BY <1>1, <1>2, <1>5
    DEF Live, Serving, Starting, Up, Appending, Discarding, Steps, AppendTask, Owed, Ref
  <1>12. Synced'
    BY <1>1, <1>2, <1>5
    DEF Synced, Serving, Starting, Up, Appending, Discarding, Steps, AppendTask
  <1>13. Cleared'
    BY <1>1, <1>2, <1>5
    DEF Cleared, Serving, Starting, Up, Appending, Discarding, Steps, AppendTask
  <1>14. Open'
    BY <1>1, <1>2, <1>5
    DEF Open, BRef, Serving, Starting, Up, Appending, Discarding, Steps, AppendTask
  <1>15. InProgress'
    BY <1>1, <1>2, <1>5
    DEF InProgress, Current, Serving, Starting, Up, Appending, Discarding, Steps, AppendTask
  <1>16. Origin'
    <2>1. (Tracked' => Tracked) /\ (Appending => Appending')
      BY <1>1, <1>2, <1>5 DEF Tracked, TaskInv, Serving, Starting, Up, Appending, Discarding,
         Steps, AppendTask
    <2>2. QED
      BY <1>1, <1>2, <1>5, <2>1, OriginSame
  <1>17. Retired'
    BY <1>1, <1>2, <1>5 DEF Retired, Steps
  <1>18. IndexSteps'
    BY <1>1, <1>2, <1>5 DEF IndexSteps
  <1>20. QED
    BY <1>4, <1>7, <1>8, <1>9, <1>10, <1>11, <1>12, <1>13, <1>14, <1>15, <1>16, <1>17, <1>18 DEF IInv, Running

\* A commit publishes the whole journal.
LEMMA CommitApfsKeeps ==
    ASSUME IInv, CommitApfs
    PROVE  IInv'
  <1>1. /\ TypeInv /\ Order /\ Kept /\ IndexBacked /\ Numbered /\ TaskInv /\ Marks
        /\ Removable /\ Sized /\ Live /\ Synced /\ Cleared /\ Open /\ InProgress /\ Origin
        /\ Retired /\ IndexSteps
    BY DEF IInv, Stored, Running
  <1>2. /\ pc = "commit" /\ published' = Len(log) /\ task' = task
        /\ pc' = IF task = "replay" THEN "mark" ELSE "final"
        /\ UNCHANGED <<seen, stable, gone, spool, buffered, log, durable, cleaned, writes>>
    BY DEF CommitApfs, Goto, files, journal
  <1>3. buffered = <<>> /\ DOMAIN buffered = {}
    BY <1>2, Closed DEF Steps
  <1>4. Stored'
    BY <1>1, <1>2, Typed
    DEF Stored, TypeInv, Order, Kept, IndexBacked, Numbered, Owed, Ref
  <1>5. TaskInv'
    BY <1>1, <1>2 DEF TaskInv, Steps, AppendTask
  <1>6. Marks'
    BY <1>1, <1>2 DEF Marks, TaskInv
  <1>7. Removable'
    BY <1>1, <1>2, <1>3 DEF Removable, Owed
  <1>8. Sized'
    BY <1>1, <1>2, <1>3 DEF Sized, Up, Steps
  <1>9. Live'
    BY <1>1, <1>2, <1>3
    DEF Live, Serving, Starting, Up, Appending, Discarding, Steps, AppendTask, Owed, Ref
  <1>10. Synced'
    BY <1>1, <1>2, <1>3 DEF Synced, TaskInv, Serving, Starting, Up, Appending, Discarding,
       Steps, AppendTask
  <1>11. Cleared'
    BY <1>1, <1>2, <1>3
    DEF Cleared, Serving, Starting, Up, Appending, Discarding, Steps, AppendTask
  <1>12. Open'
    BY <1>1, <1>2, <1>3
    DEF Open, BRef, Serving, Starting, Up, Appending, Discarding, Steps, AppendTask
  <1>13. InProgress'
    BY <1>1, <1>2, <1>3
    DEF InProgress, Current, Serving, Starting, Up, Appending, Discarding, Steps, AppendTask
  <1>14. Origin'
    <2>1. (Tracked' => Tracked) /\ (Appending => Appending')
      BY <1>1, <1>2, <1>3 DEF Tracked, TaskInv, Serving, Starting, Up, Appending, Discarding,
         Steps, AppendTask
    <2>2. QED
      BY <1>1, <1>2, <1>3, <2>1, OriginSame
  <1>15. Retired'
    BY <1>1, <1>2, <1>3 DEF Retired, Steps
  <1>16. IndexSteps'
    BY <1>1, <1>2, <1>3 DEF IndexSteps
  <1>18. QED
    BY <1>4, <1>5, <1>6, <1>7, <1>8, <1>9, <1>10, <1>11, <1>12, <1>13, <1>14, <1>15, <1>16 DEF IInv, Running

---------------------------------------------------------------------------
(* Marks and retirement.                                                   *)

\* After the mark nothing is owed, and every range can be retired.
LEMMA MarkApfsDurableThroughKeeps ==
    ASSUME IInv, MarkApfsDurableThrough
    PROVE  IInv'
  <1>1. /\ TypeInv /\ Order /\ Kept /\ IndexBacked /\ Numbered /\ TaskInv /\ Marks
        /\ Removable /\ Sized /\ Live /\ Synced /\ Cleared /\ Open /\ InProgress /\ Origin
        /\ Retired /\ IndexSteps
    BY DEF IInv, Stored, Running
  <1>2. /\ pc = "mark" /\ durable' = Len(log) /\ FlushLog /\ pc' = "clean" /\ task' = "clean"
        /\ UNCHANGED <<seen, spool, buffered, log, cleaned, published, writes>>
    BY DEF MarkApfsDurableThrough, Goto
  <1>3. buffered = <<>> /\ DOMAIN buffered = {}
    BY <1>2, Closed DEF Steps
  <1>4. Stored'
    <2>1. /\ durable' \in Nat /\ cleaned' \in Nat /\ durable <= durable' /\ cleaned' <= durable'
          /\ durable' <= published
      BY <1>1, <1>2, Typed DEF Order, Marks
    <2>2. spool' \in Memory /\ buffered' \in Seq(Rec) /\ Stored
      BY <1>1, <1>2 DEF TypeInv, Stored
    <2>3. QED
      BY <1>2, <2>1, <2>2, MarkStored
  <1>5. Owed' = {}
    BY <1>1, <1>2, Typed DEF Owed
  <1>6. \A r \in spool.ranges : r.seq <= Len(log)
    <2>1. Tracked /\ ~Appending
      BY <1>2 DEF Tracked, Appending, Steps
    <2>2. \A r \in spool.ranges : OfRecord(r)
      BY <1>1, <1>3, <2>1 DEF Origin, OfBuffered
    <2>3. QED
      BY <1>1, <2>2, Typed DEF OfRecord
  <1>7. TaskInv'
    BY <1>1, <1>2, <1>3, <1>5 DEF TaskInv, Steps, AppendTask
  <1>8. Marks'
    BY <1>1, <1>2, <1>3, <1>5 DEF Marks
  <1>9. Removable'
    BY <1>2 DEF Removable
  <1>10. Sized'
    BY <1>1, <1>2, <1>3, <1>5 DEF Sized, Up, Steps
  <1>11. Live'
    BY <1>2, <1>5 DEF Live, Serving, Starting, Up, Appending, Discarding, Steps, AppendTask
  <1>12. Synced'
    BY <1>1, <1>2, <1>3, <1>5
    DEF Synced, Serving, Starting, Up, Appending, Discarding, Steps, AppendTask
  <1>13. Cleared'
    BY <1>1, <1>2, <1>3, <1>5
    DEF Cleared, Serving, Starting, Up, Appending, Discarding, Steps, AppendTask
  <1>14. Open'
    BY <1>1, <1>2, <1>3, <1>5
    DEF Open, BRef, Serving, Starting, Up, Appending, Discarding, Steps, AppendTask
  <1>15. InProgress'
    BY <1>1, <1>2, <1>3, <1>5
    DEF InProgress, Current, Serving, Starting, Up, Appending, Discarding, Steps, AppendTask
  <1>16. Origin'
    <2>1. (Tracked' => Tracked) /\ (Appending => Appending')
      BY <1>1, <1>2, <1>3, <1>5 DEF Tracked, TaskInv, Serving, Starting, Up, Appending,
         Discarding, Steps, AppendTask
    <2>2. QED
      BY <1>1, <1>2, <1>3, <1>5, <2>1, OriginSame
  <1>17. Retired'
    BY <1>2, <1>6 DEF Retired, Steps
  <1>18. IndexSteps'
    BY <1>1, <1>2, <1>3, <1>5 DEF IndexSteps
  <1>20. QED
    BY <1>4, <1>7, <1>8, <1>9, <1>10, <1>11, <1>12, <1>13, <1>14, <1>15, <1>16, <1>17, <1>18 DEF IInv, Running

\* What is cleaned has no range: without more to replay nothing is left.
LEMMA MarkCleanedThroughKeeps ==
    ASSUME IInv, MarkCleanedThrough
    PROVE  IInv'
  <1>1. /\ TypeInv /\ Order /\ Kept /\ IndexBacked /\ Numbered /\ TaskInv /\ Marks
        /\ Removable /\ Sized /\ Live /\ Synced /\ Cleared /\ Open /\ InProgress /\ Origin
        /\ Retired /\ IndexSteps
    BY DEF IInv, Stored, Running
  <1>2. /\ pc = "cleaned" /\ cleaned' = durable /\ FlushLog /\ task' = "none"
        /\ pc' = IF durable < Len(log) THEN "restore" ELSE "serve"
        /\ UNCHANGED <<seen, spool, buffered, log, durable, published, writes>>
    BY DEF MarkCleanedThrough, Goto
  <1>3. buffered = <<>> /\ DOMAIN buffered = {}
    BY <1>2, Closed DEF Steps
  <1>4. Stored'
    <2>1. /\ durable' \in Nat /\ cleaned' \in Nat /\ durable <= durable' /\ cleaned' <= durable'
          /\ durable' <= published
      BY <1>1, <1>2, Typed DEF Order, Marks
    <2>2. spool' \in Memory /\ buffered' \in Seq(Rec) /\ Stored
      BY <1>1, <1>2 DEF TypeInv, Stored
    <2>3. QED
      BY <1>2, <2>1, <2>2, MarkStored
  <1>5. gone' = {}
    BY <1>2 DEF FlushLog
  <1>6. task = "clean" /\ Tracked /\ ~Appending /\ Starting
    BY <1>1, <1>2 DEF TaskInv, Tracked, Starting, Appending, Steps
  <1>7. \A r \in spool.ranges : r.seq \in durable + 1 .. Len(log) /\ r = Ref(r.seq)
    <2>1. \A r \in spool.ranges : OfRecord(r)
      BY <1>1, <1>3, <1>6 DEF Origin, OfBuffered
    <2>2. \A r \in spool.ranges : r.seq > durable
      BY <1>1, <1>2 DEF Retired
    <2>3. QED
      BY <1>1, <2>1, <2>2, Typed DEF OfRecord
  <1>8. pc' = "serve" => Owed = {} /\ spool.ranges = {} /\ spool.next = 0
    <2>1. pc' = "serve" => durable + 1 .. Len(log) = {}
      BY <1>1, <1>2, Typed
    <2>2. pc' = "serve" => Owed = {} /\ spool.ranges = {}
      BY <1>7, <2>1 DEF Owed
    <2>3. spool.ranges = {} => spool.next = 0
      BY <1>1, <1>6, Fields DEF Cleared
    <2>4. QED
      BY <2>2, <2>3
  <1>9. TaskInv'
    BY <1>1, <1>2, <1>3, <1>5, <1>6, <1>8 DEF TaskInv, Steps, AppendTask
  <1>10. Marks'
    BY <1>1, <1>2, <1>6 DEF Marks
  <1>11. Removable'
    BY <1>1, <1>2, <1>3, <1>5, <1>6, <1>8 DEF Removable, Owed
  <1>12. Sized'
    BY <1>1, <1>2, <1>3, <1>5, <1>6, <1>8 DEF Sized, Up, Steps
  <1>13. Live'
    BY <1>1, <1>2, <1>6, <1>8 DEF Live, Owed, Ref, Serving, Starting, Up, Appending,
       Discarding, Steps, AppendTask
  <1>14. Synced'
    BY <1>2, <1>5, <1>8 DEF Synced, Serving, Starting, Up, Appending, Discarding, Steps,
       AppendTask
  <1>15. Cleared'
    BY <1>1, <1>2, <1>6 DEF Cleared, Serving, Starting, Up, Appending, Discarding, Steps,
       AppendTask
  <1>16. Open'
    BY <1>1, <1>2, <1>3, <1>5, <1>6, <1>8
    DEF Open, BRef, Serving, Starting, Up, Appending, Discarding, Steps, AppendTask
  <1>17. InProgress'
    BY <1>1, <1>2, <1>3, <1>5, <1>6, <1>8
    DEF InProgress, Current, Serving, Starting, Up, Appending, Discarding, Steps, AppendTask
  <1>18. Origin'
    <2>1. \A r \in spool.ranges : OfRecord(r)'
      BY <1>2, <1>7 DEF OfRecord, Ref
    <2>2. QED
      BY <1>2, <2>1 DEF Origin
  <1>19. Retired'
    BY <1>2 DEF Retired, Steps
  <1>20. IndexSteps'
    BY <1>1, <1>2, <1>3, <1>5, <1>6, <1>8 DEF IndexSteps
  <1>22. QED
    BY <1>4, <1>9, <1>10, <1>11, <1>12, <1>13, <1>14, <1>15, <1>16, <1>17, <1>18, <1>19,
       <1>20 DEF IInv, Running

\* A start marks what the checkpoint is proved to hold.
LEMMA MarkVerifiedPrefixKeeps ==
    ASSUME IInv, MarkVerifiedPrefix
    PROVE  IInv'
  <1>1. /\ TypeInv /\ Order /\ Kept /\ IndexBacked /\ Numbered /\ TaskInv /\ Marks
        /\ Removable /\ Sized /\ Live /\ Synced /\ Cleared /\ Open /\ InProgress /\ Origin
        /\ Retired /\ IndexSteps
    BY DEF IInv, Stored, Running
  <1>2. /\ pc = "prefix" /\ durable' = Max({durable, published})
        /\ FlushLog \/ UNCHANGED <<stable, gone>>
        /\ (pc' = "clean" /\ task' = "clean") \/ (pc' = "restore" /\ task' = "none")
        /\ UNCHANGED <<seen, spool, buffered, log, cleaned, published, writes>>
    BY DEF MarkVerifiedPrefix, Goto
  <1>3. buffered = <<>> /\ DOMAIN buffered = {}
    BY <1>2, Closed DEF Steps
  <1>4. durable' = published /\ durable <= durable'
    <2>1. durable \in Nat /\ published \in Nat /\ durable <= published
      BY <1>1, Typed DEF Order
    <2>2. QED
      BY <1>2, <2>1, MaxOfTwo
  <1>5. Stored'
    <2>1. /\ durable' \in Nat /\ cleaned' \in Nat /\ durable <= durable' /\ cleaned' <= durable'
          /\ durable' <= published
      BY <1>1, <1>2, <1>4, Typed DEF Order
    <2>2. spool' \in Memory /\ buffered' \in Seq(Rec) /\ Stored
      BY <1>1, <1>2 DEF TypeInv, Stored
    <2>3. QED
      BY <1>2, <2>1, <2>2, MarkStored
  <1>6. Owed' \subseteq Owed
    BY <1>1, <1>2, <1>4, Typed DEF Owed
  <1>7. TaskInv'
    BY <1>1, <1>2, <1>3, <1>4 DEF TaskInv, Steps, AppendTask
  <1>8. Marks'
    BY <1>1, <1>2, <1>3, <1>4 DEF Marks
  <1>9. Removable'
    BY <1>1, <1>2, <1>3, <1>4 DEF Removable, Owed
  <1>10. Sized'
    BY <1>1, <1>2, <1>3, <1>4 DEF Sized, Up, Steps
  <1>11. Live'
    BY <1>1, <1>2, <1>6 DEF Live, Ref, Serving, Starting, Up, Appending, Discarding, Steps,
       AppendTask
  <1>12. Synced'
    BY <1>1, <1>2, <1>3, <1>4
    DEF Synced, Serving, Starting, Up, Appending, Discarding, Steps, AppendTask
  <1>13. Cleared'
    BY <1>1, <1>2, <1>3, <1>4
    DEF Cleared, Serving, Starting, Up, Appending, Discarding, Steps, AppendTask
  <1>14. Open'
    BY <1>1, <1>2, <1>3, <1>4
    DEF Open, BRef, Serving, Starting, Up, Appending, Discarding, Steps, AppendTask
  <1>15. InProgress'
    BY <1>1, <1>2, <1>3, <1>4
    DEF InProgress, Current, Serving, Starting, Up, Appending, Discarding, Steps, AppendTask
  <1>16. Origin'
    <2>1. (Tracked' => Tracked) /\ (Appending => Appending')
      BY <1>1, <1>2, <1>3, <1>4 DEF Tracked, TaskInv, Serving, Starting, Up, Appending,
         Discarding, Steps, AppendTask
    <2>2. QED
      BY <1>1, <1>2, <1>3, <1>4, <2>1, OriginSame
  <1>17. Retired'
    <2>1. \A r \in spool.ranges : r.seq \in Nat
      BY <1>1, Typed, Fields
    <2>2. durable \in Nat /\ durable' \in Nat
      BY <1>1, <1>4, Typed
    <2>3. \A r \in spool.ranges : r.seq <= durable \/ ~log[r.seq].inline
      BY <1>1, <1>2 DEF Retired
    <2>4. \A r \in spool.ranges : r.seq <= durable => r.seq <= durable'
      BY <1>4, <2>1, <2>2
    <2>5. QED
      BY <1>2, <2>3, <2>4 DEF Retired, Steps
  <1>18. IndexSteps'
    BY <1>1, <1>2, <1>3, <1>4 DEF IndexSteps
  <1>20. QED
    BY <1>5, <1>7, <1>8, <1>9, <1>10, <1>11, <1>12, <1>13, <1>14, <1>15, <1>16, <1>17, <1>18 DEF IInv, Running

\* What keeping some of the ranges leaves of the rest of the memory.
LEMMA KeepFacts ==
    ASSUME TypeInv, NEW live \in SUBSET spool.ranges,
           spool' = [spool EXCEPT !.ranges = live, !.dirty = TRUE, !.pending = {}]
    PROVE  /\ spool' \in Memory /\ spool'.ranges = live /\ spool'.next = spool.next
           /\ spool'.unsynced = spool.unsynced /\ spool'.started = spool.started
  <1>1. live \in SUBSET Rng
    BY Typed
  <1>2. QED
    BY <1>1 DEF TypeInv, Memory

\* A cleanup that finds no range to retire goes on.
LEMMA NothingToRetireKeeps ==
    ASSUME IInv, CleanupThroughSequence, LiveAfter(durable) = spool.ranges
    PROVE  IInv'
  <1>1. /\ TypeInv /\ Order /\ Kept /\ IndexBacked /\ Numbered /\ TaskInv /\ Marks
        /\ Removable /\ Sized /\ Live /\ Synced /\ Cleared /\ Open /\ InProgress /\ Origin
        /\ Retired /\ IndexSteps
    BY DEF IInv, Stored, Running
  <1>2. /\ pc = "clean" /\ pc' = "cleaned" /\ task' = "clean"
        /\ UNCHANGED <<seen, stable, gone, spool, buffered, log, durable, cleaned, published,
                       writes>>
    BY DEF CleanupThroughSequence, Goto, files, journal
  <1>3. spool' \in Memory /\ buffered' \in Seq(Rec)
    BY <1>1, <1>2 DEF TypeInv
  <1>4. Stored'
    BY <1>2, <1>3, StoredStays DEF files, journal
  <1>5. buffered = <<>> /\ DOMAIN buffered = {}
    BY <1>2, Closed DEF Steps
  <1>6. TaskInv'
    BY <1>1, <1>2, <1>5 DEF TaskInv, Steps, AppendTask
  <1>7. Marks'
    BY <1>1, <1>2, <1>5 DEF Marks, TaskInv
  <1>8. Removable'
    BY <1>1, <1>2, <1>5 DEF Removable, Owed
  <1>9. Sized'
    BY <1>1, <1>2, <1>5 DEF Sized, Up, Steps
  <1>10. Live'
    BY <1>1, <1>2, <1>5 DEF Live, TaskInv, Owed, Ref, Serving, Starting, Up, Appending,
       Discarding, Steps, AppendTask
  <1>11. Synced'
    BY <1>1, <1>2, <1>5
    DEF Synced, Serving, Starting, Up, Appending, Discarding, Steps, AppendTask
  <1>12. Cleared'
    BY <1>1, <1>2, <1>5 DEF Cleared, TaskInv, Serving, Starting, Up, Appending, Discarding,
       Steps, AppendTask
  <1>13. Open'
    BY <1>1, <1>2, <1>5
    DEF Open, BRef, Serving, Starting, Up, Appending, Discarding, Steps, AppendTask
  <1>14. InProgress'
    BY <1>1, <1>2, <1>5
    DEF InProgress, Current, Serving, Starting, Up, Appending, Discarding, Steps, AppendTask
  <1>15. Origin'
    <2>1. (Tracked' => Tracked) /\ (Appending => Appending')
      BY <1>1, <1>2, <1>5 DEF Tracked, TaskInv, Serving, Starting, Up, Appending, Discarding,
         Steps, AppendTask
    <2>2. QED
      BY <1>1, <1>2, <1>5, <2>1, OriginSame
  <1>16. Retired'
    BY <1>1, <1>2 DEF Retired, TaskInv, LiveAfter, Steps
  <1>17. IndexSteps'
    BY <1>1, <1>2, <1>5 DEF IndexSteps
  <1>19. QED
    BY <1>4, <1>6, <1>7, <1>8, <1>9, <1>10, <1>11, <1>12, <1>13, <1>14, <1>15, <1>16, <1>17 DEF IInv, Running

\* When every range is retired nobody needs the file.
LEMMA AllRetiredKeeps ==
    ASSUME IInv, CleanupThroughSequence, LiveAfter(durable) # spool.ranges,
           LiveAfter(durable) = {}
    PROVE  IInv'
  <1>1. /\ TypeInv /\ Order /\ Kept /\ IndexBacked /\ Numbered /\ TaskInv /\ Marks
        /\ Removable /\ Sized /\ Live /\ Synced /\ Cleared /\ Open /\ InProgress /\ Origin
        /\ Retired /\ IndexSteps
    BY DEF IInv, Stored, Running
  <1>2. /\ pc = "clean" /\ pc' = "unlink" /\ task' = "clean"
        /\ UNCHANGED <<seen, stable, gone, spool, buffered, log, durable, cleaned, published,
                       writes>>
    BY DEF CleanupThroughSequence, Keep, Goto, files, journal
  <1>3. spool' \in Memory /\ buffered' \in Seq(Rec)
    BY <1>1, <1>2 DEF TypeInv
  <1>4. Stored'
    BY <1>2, <1>3, StoredStays DEF files, journal
  <1>5. buffered = <<>> /\ DOMAIN buffered = {}
    BY <1>2, Closed DEF Steps
  <1>6. task = "clean" /\ Starting
    BY <1>1, <1>2 DEF TaskInv, Starting
  <1>7. \A s \in Owed : log[s].inline
    <2> SUFFICES ASSUME NEW s \in Owed, ~log[s].inline PROVE FALSE
      OBVIOUS
    <2>1. Ref(s) \in spool.ranges
      BY <1>1, <1>6 DEF Live
    <2>2. Ref(s).seq = s /\ s > durable
      BY <1>1, Typed DEF Ref, Owed
    <2>3. QED
      BY <2>1, <2>2 DEF LiveAfter
  <1>8. TaskInv'
    BY <1>1, <1>2, <1>5, <1>6 DEF TaskInv, Steps, AppendTask
  <1>9. Marks'
    BY <1>1, <1>2, <1>5, <1>6 DEF Marks
  <1>10. Removable'
    BY <1>2, <1>7 DEF Removable, Owed
  <1>11. Sized'
    BY <1>1, <1>2, <1>5, <1>6 DEF Sized, Up, Steps
  <1>12. Live'
    BY <1>1, <1>2, <1>5, <1>6
    DEF Live, Serving, Starting, Up, Appending, Discarding, Steps, AppendTask, Owed, Ref
  <1>13. Synced'
    BY <1>1, <1>2, <1>5, <1>6
    DEF Synced, Serving, Starting, Up, Appending, Discarding, Steps, AppendTask
  <1>14. Cleared'
    BY <1>1, <1>2, <1>5, <1>6
    DEF Cleared, Serving, Starting, Up, Appending, Discarding, Steps, AppendTask
  <1>15. Open'
    BY <1>1, <1>2, <1>5, <1>6
    DEF Open, BRef, Serving, Starting, Up, Appending, Discarding, Steps, AppendTask
  <1>16. InProgress'
    BY <1>1, <1>2, <1>5, <1>6
    DEF InProgress, Current, Serving, Starting, Up, Appending, Discarding, Steps, AppendTask
  <1>17. Origin'
    <2>1. (Tracked' => Tracked) /\ (Appending => Appending')
      BY <1>1, <1>2, <1>5, <1>6 DEF Tracked, TaskInv, Serving, Starting, Up, Appending,
         Discarding, Steps, AppendTask
    <2>2. QED
      BY <1>1, <1>2, <1>5, <1>6, <2>1, OriginSame
  <1>18. Retired'
    BY <1>1, <1>2, <1>5, <1>6 DEF Retired, Steps
  <1>19. IndexSteps'
    BY <1>1, <1>2, <1>5, <1>6 DEF IndexSteps
  <1>21. QED
    BY <1>4, <1>8, <1>9, <1>10, <1>11, <1>12, <1>13, <1>14, <1>15, <1>16, <1>17, <1>18,
       <1>19 DEF IInv, Running

\* Ranges that stay have their records and their bytes.
LEMMA SomeRetiredKeeps ==
    ASSUME IInv, CleanupThroughSequence, LiveAfter(durable) # spool.ranges,
           LiveAfter(durable) # {}
    PROVE  IInv'
  <1>1. /\ TypeInv /\ Order /\ Kept /\ IndexBacked /\ Numbered /\ TaskInv /\ Marks
        /\ Removable /\ Sized /\ Live /\ Synced /\ Cleared /\ Open /\ InProgress /\ Origin
        /\ Retired /\ IndexSteps
    BY DEF IInv, Stored, Running
  <1>2. /\ pc = "clean" /\ pc' = "flush" /\ task' = "clean"
        /\ spool' = [spool EXCEPT !.ranges = LiveAfter(durable), !.dirty = TRUE, !.pending = {}]
        /\ UNCHANGED <<seen, stable, gone, buffered, log, durable, cleaned, published, writes>>
    BY DEF CleanupThroughSequence, Keep, Goto, files, journal
  <1>3. buffered = <<>> /\ DOMAIN buffered = {}
    BY <1>2, Closed DEF Steps
  <1>4. /\ spool' \in Memory /\ spool'.ranges = LiveAfter(durable) /\ spool'.next = spool.next
        /\ spool'.unsynced = spool.unsynced /\ spool'.started = spool.started
    <2>1. LiveAfter(durable) \in SUBSET spool.ranges
      BY DEF LiveAfter
    <2>2. QED
      BY <1>1, <1>2, <2>1, KeepFacts
  <1>5. Stored'
    <2>1. buffered' \in Seq(Rec)
      BY <1>1, <1>2 DEF TypeInv
    <2>2. QED
      BY <1>2, <1>4, <2>1, StoredStays DEF files, journal
  <1>6. task = "clean" /\ Starting /\ Tracked /\ ~Appending
    BY <1>1, <1>2 DEF TaskInv, Starting, Tracked, Appending, Steps
  <1>7. spool'.ranges \subseteq spool.ranges /\ spool'.ranges # {}
        /\ \A r \in spool'.ranges : r.seq > durable
    BY <1>4 DEF LiveAfter
  <1>8. \A s \in Owed : ~log[s].inline => Ref(s) \in spool'.ranges
    <2> SUFFICES ASSUME NEW s \in Owed, ~log[s].inline PROVE Ref(s) \in LiveAfter(durable)
      BY <1>4
    <2>1. Ref(s) \in spool.ranges
      BY <1>1, <1>6 DEF Live
    <2>2. Ref(s).seq = s /\ s > durable
      BY <1>1, Typed DEF Ref, Owed
    <2>3. QED
      BY <2>1, <2>2 DEF LiveAfter
  <1>9. ~Serving' /\ ~Appending' /\ ~Discarding'
    BY <1>2 DEF Serving, Appending, Discarding, Steps, AppendTask
  <1>10. TaskInv'
    BY <1>1, <1>2, <1>3, <1>4, <1>6, <1>7, <1>9 DEF TaskInv, Steps, AppendTask
  <1>11. Marks'
    BY <1>1, <1>2, <1>3, <1>4, <1>6, <1>7, <1>9 DEF Marks
  <1>12. Removable'
    BY <1>2 DEF Removable
  <1>13. Sized'
    BY <1>1, <1>2, <1>4, <1>7 DEF Sized, Up
  <1>14. Live'
    BY <1>2, <1>8, <1>9 DEF Live, Owed, Ref
  <1>15. Synced'
    BY <1>2, <1>9 DEF Synced
  <1>16. Cleared'
    BY <1>7 DEF Cleared
  <1>17. Open'
    BY <1>2, <1>3, <1>9 DEF Open
  <1>18. InProgress'
    BY <1>2, <1>9 DEF InProgress, AppendTask
  <1>19. Origin'
    <2>1. \A r \in spool'.ranges : OfRecord(r)
      BY <1>1, <1>3, <1>6, <1>7 DEF Origin, OfBuffered
    <2>2. \A r \in spool'.ranges : OfRecord(r)'
      BY <1>2, <2>1 DEF OfRecord, Ref
    <2>3. QED
      BY <2>2 DEF Origin
  <1>20. Retired'
    BY <1>1, <1>2, <1>3, <1>4, <1>6, <1>7, <1>9 DEF Retired, Steps
  <1>21. IndexSteps'
    BY <1>1, <1>2, <1>3, <1>4, <1>6, <1>7, <1>9 DEF IndexSteps
  <1>23. QED
    BY <1>5, <1>10, <1>11, <1>12, <1>13, <1>14, <1>15, <1>16, <1>17, <1>18, <1>19, <1>20,
       <1>21 DEF IInv, Running

\* A cleanup does one of the three.
LEMMA CleanupThroughSequenceKeeps ==
    ASSUME IInv, CleanupThroughSequence
    PROVE  IInv'
  BY NothingToRetireKeeps, AllRetiredKeeps, SomeRetiredKeeps

\* A refused write takes its own range with it and no other.
LEMMA DiscardLive ==
    ASSUME IInv, pc = "discard", NEW s \in Owed
    PROVE  Ref(s) \in {r \in spool.ranges : r.id # writes}
  <1>1. TypeInv /\ Live /\ InProgress
    BY DEF IInv, Stored, Running
  <1>2. Serving /\ Discarding
    BY DEF Serving, Discarding
  <1>3. Ref(s) \in spool.ranges
    BY <1>1, <1>2 DEF Live
  <1>4. s \in DOMAIN log /\ s \in 1 .. Len(log)
    BY <1>1, Typed DEF Owed
  <1>5. Ref(s).id = log[s].id /\ log[s].id \in Nat /\ log[s].id < writes /\ writes \in Nat
    BY <1>1, <1>2, <1>4, Records, Fields, Typed DEF InProgress
  <1>6. QED
    BY <1>3, <1>5

\* The last range goes, and the file with it.
LEMMA DiscardAllKeeps ==
    ASSUME IInv, DiscardSequence, {r \in spool.ranges : r.id # writes} = {}
    PROVE  IInv'
  <1>1. /\ TypeInv /\ Order /\ Kept /\ IndexBacked /\ Numbered /\ TaskInv /\ Marks
        /\ Removable /\ Sized /\ Live /\ Synced /\ Cleared /\ Open /\ InProgress /\ Origin
        /\ Retired /\ IndexSteps
    BY DEF IInv, Stored, Running
  <1>2. /\ pc = "discard" /\ pc' = "unlink" /\ task' = "discarded"
        /\ UNCHANGED <<seen, stable, gone, spool, buffered, log, durable, cleaned, published,
                       writes>>
    BY DEF DiscardSequence, Keep, Goto, files, journal
  <1>3. spool' \in Memory /\ buffered' \in Seq(Rec)
    BY <1>1, <1>2 DEF TypeInv
  <1>4. Stored'
    BY <1>2, <1>3, StoredStays DEF files, journal
  <1>5. buffered = <<>> /\ DOMAIN buffered = {}
    BY <1>2, Closed DEF Steps
  <1>6. Owed = {}
    BY <1>2, DiscardLive
  <1>7. TaskInv'
    BY <1>1, <1>2, <1>5 DEF TaskInv, Steps, AppendTask
  <1>8. Marks'
    BY <1>1, <1>2, <1>5 DEF Marks
  <1>9. Removable'
    BY <1>2, <1>6 DEF Removable, Owed
  <1>10. Sized'
    BY <1>1, <1>2, <1>5 DEF Sized, Up, Steps
  <1>11. Live'
    BY <1>1, <1>2, <1>5
    DEF Live, Serving, Starting, Up, Appending, Discarding, Steps, AppendTask, Owed, Ref
  <1>12. Synced'
    BY <1>1, <1>2, <1>5
    DEF Synced, Serving, Starting, Up, Appending, Discarding, Steps, AppendTask
  <1>13. Cleared'
    BY <1>1, <1>2, <1>5
    DEF Cleared, Serving, Starting, Up, Appending, Discarding, Steps, AppendTask
  <1>14. Open'
    BY <1>1, <1>2, <1>5
    DEF Open, BRef, Serving, Starting, Up, Appending, Discarding, Steps, AppendTask
  <1>15. InProgress'
    BY <1>1, <1>2, <1>5
    DEF InProgress, Current, Serving, Starting, Up, Appending, Discarding, Steps, AppendTask
  <1>16. Origin'
    <2>1. (Tracked' => Tracked) /\ (Appending => Appending')
      BY <1>1, <1>2, <1>5 DEF Tracked, TaskInv, Serving, Starting, Up, Appending, Discarding,
         Steps, AppendTask
    <2>2. QED
      BY <1>1, <1>2, <1>5, <2>1, OriginSame
  <1>17. Retired'
    BY <1>1, <1>2, <1>5 DEF Retired, Steps
  <1>18. IndexSteps'
    BY <1>1, <1>2, <1>5 DEF IndexSteps
  <1>20. QED
    BY <1>4, <1>7, <1>8, <1>9, <1>10, <1>11, <1>12, <1>13, <1>14, <1>15, <1>16, <1>17, <1>18 DEF IInv, Running

\* The ranges that stay are those of owed records, among others.
LEMMA DiscardOneKeeps ==
    ASSUME IInv, DiscardSequence, {r \in spool.ranges : r.id # writes} # {}
    PROVE  IInv'
  <1>1. /\ TypeInv /\ Order /\ Kept /\ IndexBacked /\ Numbered /\ TaskInv /\ Marks
        /\ Removable /\ Sized /\ Live /\ Synced /\ Cleared /\ Open /\ InProgress /\ Origin
        /\ Retired /\ IndexSteps
    BY DEF IInv, Stored, Running
  <1>2. /\ pc = "discard" /\ pc' = "index" /\ task' = "discarded"
        /\ spool' = [spool EXCEPT !.ranges = {r \in spool.ranges : r.id # writes},
                                  !.dirty = TRUE, !.pending = {}]
        /\ UNCHANGED <<seen, stable, gone, buffered, log, durable, cleaned, published, writes>>
    BY DEF DiscardSequence, Keep, Goto, files, journal
  <1>3. buffered = <<>> /\ DOMAIN buffered = {}
    BY <1>2, Closed DEF Steps
  <1> DEFINE live == {r \in spool.ranges : r.id # writes}
  <1>4. /\ spool' \in Memory /\ spool'.ranges = live /\ spool'.next = spool.next
        /\ spool'.unsynced = spool.unsynced /\ spool'.started = spool.started
    <2>1. live \in SUBSET spool.ranges
      OBVIOUS
    <2>2. spool' = [spool EXCEPT !.ranges = live, !.dirty = TRUE, !.pending = {}]
      BY <1>2
    <2> HIDE DEF live
    <2>3. QED
      BY <1>1, <2>1, <2>2, KeepFacts
  <1>5. Stored'
    <2>1. buffered' \in Seq(Rec)
      BY <1>1, <1>2 DEF TypeInv
    <2>2. QED
      BY <1>2, <1>4, <2>1, StoredStays DEF files, journal
  <1>6. task = "discard" /\ Serving
    BY <1>1, <1>2 DEF TaskInv, Serving, Discarding, Steps, AppendTask
  <1>7. spool'.ranges \subseteq spool.ranges /\ spool'.ranges # {}
    BY <1>4
  <1>8. \A s \in Owed : Ref(s) \in spool'.ranges
    BY <1>2, <1>4, DiscardLive
  <1>9. ~Appending' /\ ~Discarding' /\ ~Starting' /\ ~Tracked'
    BY <1>2 DEF Tracked, Starting, Appending, Discarding, Steps, AppendTask
  <1>10. TaskInv'
    BY <1>1, <1>2, <1>3, <1>4, <1>6, <1>7, <1>9 DEF TaskInv, Steps, AppendTask
  <1>11. Marks'
    BY <1>1, <1>2, <1>3, <1>4, <1>6, <1>7, <1>9 DEF Marks
  <1>12. Removable'
    BY <1>2 DEF Removable
  <1>13. Sized'
    BY <1>1, <1>2, <1>4, <1>7 DEF Sized, Up
  <1>14. Live'
    BY <1>2, <1>8, <1>9 DEF Live, Owed, Ref
  <1>15. Synced'
    BY <1>1, <1>2, <1>4, <1>6 DEF Synced
  <1>16. Cleared'
    BY <1>7 DEF Cleared
  <1>17. Open'
    BY <1>2, <1>3, <1>9 DEF Open
  <1>18. InProgress'
    BY <1>2, <1>9 DEF InProgress, AppendTask
  <1>19. Origin'
    BY <1>9 DEF Origin
  <1>20. Retired'
    BY <1>1, <1>2, <1>3, <1>4, <1>6, <1>7, <1>9 DEF Retired, Steps
  <1>21. IndexSteps'
    BY <1>1, <1>2, <1>3, <1>4, <1>6, <1>7, <1>9 DEF IndexSteps
  <1>23. QED
    BY <1>5, <1>10, <1>11, <1>12, <1>13, <1>14, <1>15, <1>16, <1>17, <1>18, <1>19, <1>20,
       <1>21 DEF IInv, Running

\* A refused write is discarded one way or the other.
LEMMA DiscardSequenceKeeps ==
    ASSUME IInv, DiscardSequence
    PROVE  IInv'
  BY DiscardAllKeeps, DiscardOneKeeps

---------------------------------------------------------------------------
(* Writes and their records.                                               *)

\* The record of the write in progress takes over its range.
LEMMA RecordMutationKeeps ==
    ASSUME IInv, RecordMutation
    PROVE  IInv'
  <1>1. /\ TypeInv /\ Order /\ Kept /\ IndexBacked /\ Numbered /\ TaskInv /\ Marks
        /\ Removable /\ Sized /\ Live /\ Synced /\ Cleared /\ Open /\ InProgress /\ Origin
        /\ Retired /\ IndexSteps
    BY DEF IInv, Stored, Running
  <1>2. /\ pc = "record" /\ pc' = "serve" /\ task' = "none"
        /\ buffered' = Append(buffered, [off |-> spool.next, id |-> writes,
                                         inline |-> task = "append inline"])
        /\ UNCHANGED <<seen, stable, gone, spool, log, durable, cleaned, published, writes>>
    BY DEF RecordMutation, Goto, files, journal
  <1> DEFINE n == Len(buffered)
  <1>3. Appending /\ Serving /\ Tracked
    BY <1>1, <1>2 DEF Appending, Serving, Tracked, Discarding, TaskInv, AppendTask, Steps
  <1>4. /\ Current \in spool.ranges /\ n \in Nat /\ Len(log) \in Nat /\ writes \in Nat
        /\ buffered \in Seq(Rec) /\ DOMAIN buffered = 1 .. n
    BY <1>1, <1>3, Typed DEF InProgress
  <1>5. spool.next \in Nat \ {0}
    <2>1. Current \in Rng /\ Current.off = spool.next
      BY <1>1, <1>4, Typed DEF Current
    <2>2. QED
      BY <2>1 DEF Rng
  <1>6. [off |-> spool.next, id |-> writes, inline |-> task = "append inline"] \in Rec
    BY <1>4, <1>5 DEF Rec
  <1>7. /\ buffered' \in Seq(Rec) /\ Len(buffered') = n + 1 /\ DOMAIN buffered' = 1 .. n + 1
        /\ \A i \in 1 .. n : buffered'[i] = buffered[i]
        /\ buffered'[n + 1].off = spool.next /\ buffered'[n + 1].id = writes
    <2> DEFINE e == [off |-> spool.next, id |-> writes, inline |-> task = "append inline"]
    <2>1. e \in Rec /\ e.off = spool.next /\ e.id = writes /\ buffered' = Append(buffered, e)
      BY <1>2, <1>6
    <2> HIDE DEF e
    <2>2. /\ Append(buffered, e) \in Seq(Rec) /\ Len(Append(buffered, e)) = n + 1
          /\ \A i \in 1 .. n : Append(buffered, e)[i] = buffered[i]
          /\ Append(buffered, e)[n + 1] = e
      BY <1>4, <2>1, AppendProperties
    <2>3. QED
      BY <2>1, <2>2
  <1> HIDE DEF n
  <1>8. Stored'
    BY <1>1, <1>2, <1>7, StoredStays DEF files, journal, TypeInv
  <1>9. ~Appending' /\ ~Discarding' /\ ~Starting' /\ Serving'
    BY <1>2 DEF Appending, Discarding, Starting, Serving, Steps
  <1>10. \A i \in 1 .. n : BRef(i)' = BRef(i)
    BY <1>2, <1>7 DEF BRef
  <1>11. \A i \in 1 .. n + 1 : i = n + 1 => BRef(i)' = Current
    <2> SUFFICES ASSUME NEW i \in 1 .. n + 1, i = n + 1 PROVE BRef(i)' = Current
      OBVIOUS
    <2>1. buffered'[i].off = spool.next /\ buffered'[i].id = writes
      BY <1>7
    <2>2. Len(log) + i = Len(log) + n + 1
      BY <1>4
    <2>3. QED
      BY <1>2, <2>1, <2>2 DEF BRef, Current, n
  <1>12. TaskInv'
    BY <1>2 DEF TaskInv
  <1>13. Marks'
    BY <1>2 DEF Marks
  <1>14. Removable'
    BY <1>1, <1>2, <1>3, <1>9 DEF Removable, Owed
  <1>15. Sized'
    BY <1>1, <1>2, <1>3, <1>9 DEF Sized, Up, Steps
  <1>16. Live'
    BY <1>1, <1>2, <1>3, <1>9 DEF Live, Owed, Ref
  <1>17. Synced'
    BY <1>1, <1>2, <1>3 DEF Synced
  <1>18. Cleared'
    BY <1>1, <1>2, <1>3 DEF Cleared
  <1>19. Open'
    <2>1. ASSUME NEW i \in 1 .. n + 1
          PROVE  BRef(i)' \in spool'.ranges /\ buffered'[i].id <= writes'
      <3>1. CASE i \in 1 .. n
        BY <1>1, <1>2, <1>4, <1>7, <1>10, <3>1 DEF Open
      <3>2. CASE i = n + 1
        <4>1. BRef(i)' = Current /\ buffered'[i].id = writes
          BY <1>7, <1>11, <3>2
        <4>2. spool' = spool /\ writes' = writes
          BY <1>2
        <4>3. writes <= writes /\ Current \in spool.ranges
          BY <1>4
        <4>4. QED
          BY <4>1, <4>2, <4>3
      <3>3. QED
        BY <1>4, <3>1, <3>2
    <2>2. QED
      BY <1>2, <1>7, <1>9, <2>1 DEF Open
  <1>20. InProgress'
    BY <1>2, <1>9 DEF InProgress, Steps
  <1>21. Origin'
    <2> SUFFICES ASSUME NEW r \in spool.ranges
                 PROVE  OfRecord(r)' \/ OfBuffered(r)'
      BY <1>2 DEF Origin
    <2>1. CASE OfRecord(r)
      BY <1>2, <2>1 DEF OfRecord, Ref
    <2>2. CASE OfBuffered(r)
      <3>1. PICK i \in 1 .. n : r = BRef(i)
        BY <1>4, <2>2 DEF OfBuffered
      <3>2. i \in 1 .. n + 1 /\ r = BRef(i)'
        BY <1>4, <1>10, <3>1
      <3>3. QED
        BY <1>7, <3>2 DEF OfBuffered
    <2>3. CASE r = Current
      <3>1. n + 1 \in 1 .. n + 1
        BY <1>4
      <3>2. PICK i \in 1 .. n + 1 : r = BRef(i)'
        BY <1>11, <2>3, <3>1
      <3>3. QED
        BY <1>7, <3>2 DEF OfBuffered
    <2>4. QED
      BY <1>1, <1>3, <2>1, <2>2, <2>3 DEF Origin
  <1>22. Retired'
    BY <1>1, <1>2, <1>3, <1>9 DEF Retired, Steps
  <1>23. IndexSteps'
    BY <1>1, <1>2, <1>3, <1>9 DEF IndexSteps
  <1>25. QED
    BY <1>8, <1>12, <1>13, <1>14, <1>15, <1>16, <1>17, <1>18, <1>19, <1>20, <1>21, <1>22,
       <1>23 DEF IInv, Running

\* A refused record ends the transaction; its write is discarded.
LEMMA RecordFailsKeeps ==
    ASSUME IInv, RecordFails
    PROVE  IInv'
  <1>1. /\ TypeInv /\ Order /\ Kept /\ IndexBacked /\ Numbered /\ TaskInv /\ Marks
        /\ Removable /\ Sized /\ Live /\ Synced /\ Cleared /\ Open /\ InProgress /\ Origin
        /\ Retired /\ IndexSteps
    BY DEF IInv, Stored, Running
  <1>2. /\ pc = "record" /\ pc' = "flush" /\ task' = "discard" /\ buffered' = <<>>
        /\ UNCHANGED <<seen, stable, gone, spool, log, durable, cleaned, published, writes>>
    BY DEF RecordFails, Goto, files, journal
  <1>3. Appending /\ Serving
    BY <1>2 DEF Appending, Serving
  <1>4. Stored' /\ DOMAIN buffered' = {}
    <2>1. spool' \in Memory /\ buffered' \in Seq(Rec)
      BY <1>1, <1>2, Fields DEF TypeInv
    <2>2. QED
      BY <1>2, <2>1, StoredStays, EmptySeq DEF files, journal
  <1>5. ~Appending' /\ Discarding' /\ ~Starting' /\ Serving' /\ ~Tracked'
    BY <1>2 DEF Appending, Discarding, Starting, Serving, Tracked, Steps, AppendTask
  <1>6. TaskInv'
    BY <1>2 DEF TaskInv
  <1>7. Marks'
    BY <1>1, <1>2, <1>3, <1>4, <1>5 DEF Marks
  <1>8. Removable'
    BY <1>1, <1>2, <1>3, <1>4, <1>5 DEF Removable, Owed
  <1>9. Sized'
    BY <1>1, <1>2, <1>3, <1>4, <1>5 DEF Sized, Up, Steps
  <1>10. Live'
    BY <1>1, <1>2, <1>3, <1>5 DEF Live, Owed, Ref
  <1>11. Synced'
    BY <1>1, <1>2, <1>3 DEF Synced
  <1>12. Cleared'
    BY <1>1, <1>2, <1>3 DEF Cleared
  <1>13. Open'
    BY <1>2, <1>4, <1>5 DEF Open
  <1>14. InProgress'
    BY <1>1, <1>2, <1>3, <1>5 DEF InProgress, AppendTask
  <1>15. Origin'
    BY <1>5 DEF Origin
  <1>16. Retired'
    BY <1>1, <1>2, <1>3, <1>4, <1>5 DEF Retired, Steps
  <1>17. IndexSteps'
    BY <1>1, <1>2, <1>3, <1>4, <1>5 DEF IndexSteps
  <1>19. QED
    BY <1>4, <1>6, <1>7, <1>8, <1>9, <1>10, <1>11, <1>12, <1>13, <1>14, <1>15, <1>16, <1>17 DEF IInv, Running

\* A write adds a cell to the file and a range for it.
LEMMA WriteKeeps ==
    ASSUME IInv, NEW inline \in BOOLEAN, Write(inline)
    PROVE  IInv'
  <1>1. /\ TypeInv /\ Order /\ Kept /\ IndexBacked /\ Numbered /\ TaskInv /\ Marks
        /\ Removable /\ Sized /\ Live /\ Synced /\ Cleared /\ Open /\ InProgress /\ Origin
        /\ Retired /\ IndexSteps
    BY DEF IInv, Stored, Running
  <1>2. /\ pc = "serve" /\ writes' = writes + 1 /\ task' \in AppendTask
        /\ pc' \in {"flush", "record"}
        /\ seen' = [seen EXCEPT !.file = Append(@, writes + 1)]
        /\ UNCHANGED <<stable, gone, buffered, log, durable, cleaned, published>>
    BY DEF Write, Goto, journal, AppendTask
  <1>3. spool' = [spool EXCEPT !.ranges = @ \cup {Added}, !.next = @ + 1, !.unsynced = @ + 1,
                               !.dirty = TRUE,
                               !.pending = IF spool.snapshot THEN @ ELSE @ \cup {Added}]
    BY DEF Write
  <1>4. /\ Added \in Rng /\ Added.off = spool.next + 1 /\ Added.id = writes + 1
        /\ Added.seq = Len(log) + Len(buffered) + 1
    <2>1. /\ spool.next \in Nat /\ writes \in Nat /\ Len(log) \in Nat
          /\ Len(buffered) \in Nat
      BY <1>1, Typed
    <2>2. /\ spool.next + 1 \in Nat \ {0} /\ writes + 1 \in Nat
          /\ Len(log) + Len(buffered) + 1 \in Nat
      BY <2>1
    <2>3. QED
      BY <2>2 DEF Added, Rng
  <1>5. /\ spool' \in Memory /\ spool'.ranges = spool.ranges \cup {Added}
        /\ spool'.next = spool.next + 1 /\ spool'.unsynced = spool.unsynced + 1
        /\ spool'.started = spool.started
    <2>1. /\ spool \in Memory /\ spool.ranges \cup {Added} \in SUBSET Rng
          /\ spool.pending \cup {Added} \in SUBSET Rng /\ spool.pending \in SUBSET Rng
          /\ spool.next + 1 \in Nat /\ spool.unsynced + 1 \in Nat
      <3>1. /\ spool.ranges \in SUBSET Rng /\ spool.pending \in SUBSET Rng
            /\ spool.next \in Nat /\ spool.unsynced \in Nat
        BY <1>1, Typed
      <3>2. spool.ranges \cup {Added} \in SUBSET Rng /\ spool.pending \cup {Added} \in SUBSET Rng
        BY <1>4, <3>1
      <3>3. QED
        BY <1>1, <3>1, <3>2 DEF TypeInv
    <2>2. PICK p \in SUBSET Rng :
             spool' = [spool EXCEPT !.ranges = spool.ranges \cup {Added},
                                    !.next = spool.next + 1, !.unsynced = spool.unsynced + 1,
                                    !.dirty = TRUE, !.pending = p]
      BY <1>3, <2>1
    <2>3. QED
      BY <2>1, <2>2 DEF Memory
  <1>6. /\ seen.file \in Seq(Int) /\ Len(seen.file) \in Nat /\ writes + 1 \in Nat
        /\ writes \in Nat /\ spool.next \in Nat /\ spool.unsynced \in Nat
        /\ Len(log) \in Nat /\ durable \in Nat
        /\ DOMAIN log = 1 .. Len(log) /\ DOMAIN buffered = 1 .. Len(buffered)
    BY <1>1, Typed
  <1>7. /\ seen'.file = Append(seen.file, writes + 1) /\ seen'.index = seen.index
        /\ seen' = [file |-> seen'.file, index |-> seen'.index]
    BY <1>1, <1>2, Typed
  <1>8. /\ seen'.file \in Seq(Int) /\ Len(seen'.file) = Len(seen.file) + 1
        /\ \A i \in 1 .. Len(seen.file) : seen'.file[i] = seen.file[i]
        /\ seen'.file[Len(seen.file) + 1] = writes + 1
    BY <1>6, <1>7, AppendProperties
  <1>9. Serving /\ Up /\ Tracked /\ ~Appending /\ task = "none"
    BY <1>1, <1>2 DEF Serving, Up, Tracked, Appending, Discarding, Steps, TaskInv
  <1>10. /\ spool.next = Len(seen.file) /\ \A r \in spool.ranges : Holds(seen.file, r)
         /\ spool.ranges \in SUBSET Rng
         /\ spool.started => seen.index.there
    BY <1>1, <1>2, <1>9, Typed DEF Sized
  <1>11. \A r \in Rng : Holds(seen.file, r) => Holds(seen'.file, r) /\ r.off <= spool.next
    <2> SUFFICES ASSUME NEW r \in Rng, Holds(seen.file, r)
                 PROVE  Holds(seen'.file, r) /\ r.off <= spool.next
      OBVIOUS
    <2>1. r.off \in Nat /\ r.off >= 1 /\ r.off <= Len(seen.file) /\ seen.file[r.off] = r.id
      BY Fields DEF Holds
    <2>2. r.off \in 1 .. Len(seen.file) /\ r.off <= Len(seen'.file)
      BY <1>6, <1>8, <2>1
    <2>3. QED
      BY <1>8, <1>10, <2>1, <2>2 DEF Holds
  <1>12. Holds(seen'.file, Added)
    BY <1>4, <1>6, <1>8, <1>10 DEF Holds
  <1>13. seen'.file # <<>> /\ (seen.file # <<>> => Len(seen'.file) >= 2)
    <2>1. seen.file # <<>> => Len(seen.file) >= 1
      BY <1>6, EmptySeq
    <2>2. QED
      BY <1>6, <1>8, <2>1, EmptySeq
  <1>14. Owed' = Owed /\ \A s \in Owed : Ref(s)' = Ref(s) /\ s \in 1 .. Len(log)
    BY <1>2, <1>6 DEF Owed, Ref
  <1>15. \A s \in DOMAIN log : log[s].id \in Nat
    BY <1>1, <1>6, Records, Fields
  <1>16. \A i \in DOMAIN buffered : buffered[i].id \in Nat
    BY <1>1, <1>6, Records, Fields
  <1>17. Stored'
    <2>1. TypeInv'
      BY <1>1, <1>2, <1>5, <1>6, <1>7, <1>8, Typed DEF TypeInv, Files
    <2>2. Order' /\ Numbered'
      BY <1>1, <1>2, <1>6, <1>15 DEF Order, Numbered
    <2>3. \A s \in Owed : Ref(s) \in Rng
      BY <1>1, <1>14, Records
    <2>4. Kept'
      BY <1>1, <1>2, <1>11, <1>14, <2>3 DEF Kept
    <2>5. IndexBacked'
      BY <1>1, <1>2, <1>7, <1>13 DEF IndexBacked
    <2>6. QED
      BY <2>1, <2>2, <2>4, <2>5 DEF Stored
  <1>18. /\ Appending' /\ ~Discarding' /\ ~Starting' /\ Serving' /\ pc' \notin {"mark", "commit"}
         /\ task' \notin {"final", "clean", "resolve", "discarded"}
    BY <1>2 DEF Appending, Discarding, Starting, Serving, Steps, AppendTask
  <1>19. Current' = Added
    BY <1>2, <1>5 DEF Current, Added
  <1>20. TaskInv'
    BY <1>2 DEF TaskInv
  <1>21. Marks'
    BY <1>2, <1>18 DEF Marks
  <1>22. Removable'
    BY <1>2 DEF Removable
  <1>23. Sized'
    BY <1>2, <1>5, <1>6, <1>7, <1>8, <1>10, <1>11, <1>12 DEF Sized
  <1>24. Live'
    BY <1>1, <1>5, <1>9, <1>14, <1>18 DEF Live
  <1>25. Synced'
    BY <1>1, <1>2, <1>5, <1>6, <1>9 DEF Synced
  <1>26. Cleared'
    BY <1>5 DEF Cleared
  <1>27. Open'
    <2>1. \A i \in DOMAIN buffered : BRef(i)' = BRef(i)
      BY <1>2 DEF BRef
    <2>2. ASSUME NEW i \in DOMAIN buffered
          PROVE  /\ BRef(i) \in spool'.ranges /\ buffered[i].id < writes'
                 /\ buffered[i].id <= writes'
      <3>1. BRef(i) \in spool.ranges /\ buffered[i].id <= writes /\ buffered[i].id \in Nat
        BY <1>1, <1>16 DEF Open
      <3>2. QED
        BY <1>2, <1>5, <1>6, <3>1
    <2>3. QED
      BY <1>2, <1>18, <2>1, <2>2 DEF Open
  <1>28. InProgress'
    <2>1. \A r \in spool'.ranges : r.off < spool'.next \/ r.id = writes'
      <3>1. ASSUME NEW r \in spool.ranges
            PROVE  r.off < spool'.next
        <4>1. r.off \in Nat /\ r.off <= spool.next
          BY <1>10, <1>11, Fields
        <4>2. QED
          BY <1>5, <1>6, <4>1
      <3>2. QED
        BY <1>2, <1>4, <1>5, <3>1
    <2>2. \A s \in DOMAIN log' : log'[s].id < writes'
      BY <1>1, <1>2, <1>6, <1>15 DEF Numbered
    <2>3. seen'.index.there => Len(seen'.file) >= 2
      BY <1>1, <1>7, <1>13 DEF IndexBacked
    <2>4. QED
      BY <1>5, <1>19, <2>1, <2>2, <2>3 DEF InProgress
  <1>29. Origin'
    <2>1. \A r : (OfRecord(r)' <=> OfRecord(r)) /\ (OfBuffered(r)' <=> OfBuffered(r))
      BY <1>2 DEF OfRecord, OfBuffered, Ref, BRef
    <2>2. \A r \in spool.ranges : OfRecord(r) \/ OfBuffered(r)
      BY <1>1, <1>9 DEF Origin
    <2>3. QED
      BY <1>5, <1>18, <1>19, <2>1, <2>2 DEF Origin
  <1>30. Retired'
    BY <1>2, <1>18 DEF Retired
  <1>31. IndexSteps'
    BY <1>2 DEF IndexSteps
  <1>33. QED
    BY <1>17, <1>20, <1>21, <1>22, <1>23, <1>24, <1>25, <1>26, <1>27, <1>28, <1>29, <1>30,
       <1>31 DEF IInv, Running

---------------------------------------------------------------------------
(* Flushes of the spool.                                                   *)

\* A flush of the payload makes the file as seen stable, if it is not already.
LEMMA FlushPayloadBytesKeeps ==
    ASSUME IInv, FlushPayloadBytes
    PROVE  IInv'
  <1>1. /\ TypeInv /\ Order /\ Kept /\ IndexBacked /\ Numbered /\ TaskInv /\ Marks
        /\ Removable /\ Sized /\ Live /\ Synced /\ Cleared /\ Open /\ InProgress /\ Origin
        /\ Retired /\ IndexSteps
    BY DEF IInv, Stored, Running
  <1>2. /\ pc = "flush" /\ task' = task
        /\ pc' = IF PayloadOnly(task) THEN Served(task) ELSE "index"
        /\ spool' = [spool EXCEPT !.unsynced = 0] /\ seen' = seen
        /\ IF spool.unsynced = 0 THEN UNCHANGED <<stable, gone>> ELSE FlushFile
        /\ UNCHANGED <<buffered, log, durable, cleaned, published, writes>>
    BY DEF FlushPayloadBytes, Goto, files, journal
  <1>3. /\ spool' \in Memory /\ spool'.ranges = spool.ranges /\ spool'.next = spool.next
        /\ spool'.unsynced = 0 /\ spool'.started = spool.started
    BY <1>1, <1>2 DEF TypeInv, Memory
  <1>4. \/ task \in {"accept", "drain"} /\ pc' = "log"
        \/ task \in AppendTask \cup {"final", "clean", "discard"} /\ pc' = "index"
    <2>1. task \in {"accept", "drain"} \/ task \in AppendTask \cup {"final", "clean", "discard"}
      BY <1>1, <1>2 DEF TaskInv
    <2>2. CASE task \in {"accept", "drain"}
      BY <1>2, <2>2 DEF PayloadOnly, Served
    <2>3. CASE task \in AppendTask \cup {"final", "clean", "discard"}
      BY <1>2, <2>3 DEF PayloadOnly, AppendTask
    <2>4. QED
      BY <2>1, <2>2, <2>3
  <1>5. /\ stable' \in Files /\ gone' \in SUBSET {"file", "index"} /\ IndexBacked'
        /\ \/ stable'.file = stable.file /\ gone' = gone /\ spool.unsynced = 0
           \/ stable'.file = seen.file /\ gone' = {}
    <2>1. CASE spool.unsynced = 0
      <3>1. UNCHANGED <<seen, stable, gone>>
        BY <1>2, <2>1
      <3>2. IndexBacked'
        BY <1>1, <3>1 DEF IndexBacked
      <3>3. QED
        BY <1>1, <2>1, <3>1, <3>2 DEF TypeInv
    <2>2. CASE spool.unsynced # 0
      <3>1. FlushFile /\ Stored
        BY <1>1, <1>2, <2>2 DEF Stored
      <3>2. QED
        BY <1>2, <3>1, FlushFileKeeps
    <2>3. QED
      BY <2>1, <2>2
  <1>6. Owed' = Owed /\ \A s \in Owed : Ref(s)' = Ref(s)
    BY <1>2 DEF Owed, Ref
  <1>7. Stored'
    <2>1. TypeInv'
      BY <1>1, <1>2, <1>3, <1>5 DEF TypeInv
    <2>2. Order' /\ Numbered'
      BY <1>1, <1>2 DEF Order, Numbered
    <2>3. Kept'
      BY <1>1, <1>2, <1>5, <1>6 DEF Kept
    <2>4. QED
      BY <1>5, <2>1, <2>2, <2>3 DEF Stored
  <1>8. /\ Serving' <=> Serving
        /\ Starting' <=> Starting
        /\ Appending' <=> Appending
        /\ Discarding' <=> Discarding
        /\ Tracked' <=> Tracked
    BY <1>2, <1>4 DEF Serving, Starting, Appending, Discarding, Tracked, Steps, AppendTask
  <1>9. TaskInv'
    BY <1>2, <1>4 DEF TaskInv
  <1>10. Marks'
    BY <1>1, <1>2, <1>4 DEF Marks
  <1>11. Removable'
    BY <1>4 DEF Removable
  <1>12. Sized'
    BY <1>1, <1>2, <1>3, <1>4 DEF Sized, Up
  <1>13. Live'
    BY <1>1, <1>2, <1>3, <1>4, <1>6, <1>8 DEF Live
  <1>14. Synced'
    BY <1>1, <1>2, <1>3, <1>5, <1>8 DEF Synced
  <1>15. Cleared'
    <2>1. spool = Empty => spool' = Empty
      BY <1>2 DEF Empty
    <2>2. QED
      BY <1>1, <1>2, <1>3, <1>4, <1>8, <2>1 DEF Cleared
  <1>16. Open'
    <2>1. \A i \in DOMAIN buffered : BRef(i)' = BRef(i)
      BY <1>2 DEF BRef
    <2>2. QED
      BY <1>1, <1>2, <1>3, <1>4, <1>8, <2>1 DEF Open, Appending, AppendTask, Steps
  <1>17. InProgress'
    <2>1. Current' = Current
      BY <1>2, <1>3 DEF Current
    <2>2. QED
      BY <1>1, <1>2, <1>3, <1>4, <1>8, <2>1 DEF InProgress, Steps
  <1>18. Origin'
    <2>1. Current' = Current
      BY <1>2, <1>3 DEF Current
    <2>2. \A r : (OfRecord(r)' <=> OfRecord(r)) /\ (OfBuffered(r)' <=> OfBuffered(r))
      BY <1>2 DEF OfRecord, OfBuffered, Ref, BRef
    <2>3. QED
      BY <1>1, <1>3, <1>8, <2>1, <2>2 DEF Origin
  <1>19. Retired'
    BY <1>1, <1>2, <1>3, <1>4 DEF Retired, Steps
  <1>20. IndexSteps'
    BY <1>4 DEF IndexSteps
  <1>22. QED
    BY <1>7, <1>9, <1>10, <1>11, <1>12, <1>13, <1>14, <1>15, <1>16, <1>17, <1>18, <1>19,
       <1>20 DEF IInv, Running

\* An index is written only over bytes that are stable.
LEMMA IndexHasBytes ==
    ASSUME IInv, pc = "index", spool.dirty
    PROVE  /\ seen.file # <<>> /\ stable.file # <<>> /\ "file" \notin gone
           /\ spool.ranges # {}
  <1>1. /\ TypeInv /\ Order /\ Kept /\ IndexBacked /\ Numbered /\ TaskInv /\ Marks
        /\ Removable /\ Sized /\ Live /\ Synced /\ Cleared /\ Open /\ InProgress /\ Origin
        /\ Retired /\ IndexSteps
    BY DEF IInv, Stored, Running
  <1>2. Serving \/ task = "clean"
    BY <1>1 DEF TaskInv, Serving, Appending, Discarding, Steps, AppendTask
  <1>3. spool.ranges # {}
    BY <1>1, <1>2 DEF Cleared, Starting, Empty
  <1>4. PICK r \in spool.ranges : TRUE
    BY <1>3
  <1>5. r \in Rng /\ r.off \in Nat /\ r.off >= 1 /\ Len(seen.file) \in Nat
    BY <1>1, Typed, Fields
  <1>6. Holds(seen.file, r) /\ spool.next = Len(seen.file)
    BY <1>1 DEF Sized, Up
  <1>7. Len(seen.file) >= 1 /\ spool.next # 0
    BY <1>5, <1>6 DEF Holds
  <1>8. seen.file # <<>>
    BY <1>7, EmptySeq
  <1>9. CASE Serving
    BY <1>1, <1>3, <1>7, <1>8, <1>9 DEF Synced
  <1>10. CASE task = "clean"
    <2>1. buffered = <<>> /\ DOMAIN buffered = {}
      BY <1>10, Closed DEF Steps, AppendTask
    <2>2. Tracked /\ ~Appending
      BY <1>10 DEF Tracked, Starting, Appending, Steps, AppendTask
    <2>3. OfRecord(r)
      BY <1>1, <2>1, <2>2 DEF Origin, OfBuffered
    <2>4. r.seq > durable /\ ~log[r.seq].inline
      <3>1. r.seq > durable /\ (r.seq <= durable \/ ~log[r.seq].inline)
        BY <1>1, <1>10 DEF Retired, Steps
      <3>2. r.seq \in Nat /\ durable \in Nat
        BY <1>1, <1>5, Typed, Fields
      <3>3. QED
        BY <3>1, <3>2
    <2>5. r.seq \in Owed /\ r = Ref(r.seq)
      BY <1>1, <2>3, <2>4, Typed DEF OfRecord, Owed
    <2>6. Holds(stable.file, r) /\ "file" \notin gone
      BY <1>1, <2>4, <2>5 DEF Kept
    <2>7. Len(stable.file) >= 1
      BY <1>1, <1>5, <2>6, Typed DEF Holds
    <2>8. QED
      BY <1>3, <1>8, <2>6, <2>7, EmptySeq
  <1>11. QED
    BY <1>2, <1>9, <1>10

\* The flush ends with the index as it should be: what called for it goes on.
LEMMA IndexDone ==
    ASSUME IInv, pc \in {"index", "frame"}, pc' = Served(task), task' = task, Stored',
           seen'.file = seen.file, stable'.file = stable.file, gone' = gone \/ gone' = {},
           UNCHANGED <<buffered, log, durable, cleaned, published, writes>>,
           spool'.ranges = spool.ranges, spool'.next = spool.next,
           spool'.unsynced = spool.unsynced, spool'.started => seen'.index.there,
           spool.ranges = {} => spool' = spool /\ seen' = seen
    PROVE  IInv'
  <1>1. /\ TypeInv /\ Order /\ Kept /\ IndexBacked /\ Numbered /\ TaskInv /\ Marks
        /\ Removable /\ Sized /\ Live /\ Synced /\ Cleared /\ Open /\ InProgress /\ Origin
        /\ Retired /\ IndexSteps
    BY DEF IInv, Stored, Running
  <1>2. task \in AppendTask \cup {"final", "clean", "discard", "discarded"}
    BY <1>1 DEF TaskInv
  <1>3. CASE task = "discarded"
    <2>1. buffered' = <<>>
      BY <1>3, Closed DEF Steps, AppendTask
    <2>2. pc' = "blocked"
      BY <1>3 DEF Served
    <2>3. QED
      BY <1>3, <2>1, <2>2, Halts
  <1>4. CASE task # "discarded"
    <2>1. \/ task \in AppendTask /\ pc' = "record"
          \/ task = "final" /\ pc' = "mark"
          \/ task = "clean" /\ pc' = "cleaned"
          \/ task = "discard" /\ pc' = "discard"
      <3>1. CASE task \in AppendTask
        BY <3>1 DEF Served, AppendTask
      <3>2. CASE task = "final"
        BY <3>2 DEF Served
      <3>3. CASE task = "clean"
        BY <3>3 DEF Served
      <3>4. CASE task = "discard"
        BY <3>4 DEF Served
      <3>5. QED
        BY <1>2, <1>4, <3>1, <3>2, <3>3, <3>4
    <2>2. /\ Serving' => Serving
          /\ Starting' <=> Starting
          /\ Appending' <=> Appending
          /\ Discarding' <=> Discarding
          /\ Tracked' => Tracked
          /\ Serving \/ Starting
      BY <1>4, <2>1 DEF Serving, Starting, Appending, Discarding, Tracked, Steps, AppendTask
    <2>3. Owed' = Owed /\ \A s \in Owed : Ref(s)' = Ref(s)
      BY DEF Owed, Ref
    <2>4. Current' = Current
      BY DEF Current
    <2>5. \A r : (OfRecord(r)' <=> OfRecord(r)) /\ (OfBuffered(r)' <=> OfBuffered(r))
      BY DEF OfRecord, OfBuffered, Ref, BRef
    <2>6. \A i \in DOMAIN buffered : BRef(i)' = BRef(i)
      BY DEF BRef
    <2>7. TaskInv'
      BY <2>1 DEF TaskInv
    <2>8. Marks'
      BY <1>1, <2>1 DEF Marks, AppendTask
    <2>9. Removable'
      BY <2>1 DEF Removable
    <2>10. Sized'
      BY <1>1, <2>1 DEF Sized, Up
    <2>11. Live'
      BY <1>1, <2>1, <2>2, <2>3 DEF Live
    <2>12. Synced'
      BY <1>1, <2>1, <2>2 DEF Synced
    <2>13. Cleared'
      BY <1>1, <2>2 DEF Cleared
    <2>14. Open'
      BY <1>1, <2>1, <2>2, <2>6 DEF Open, Appending, AppendTask, Steps
    <2>15. InProgress'
      BY <1>1, <2>1, <2>2, <2>4 DEF InProgress, Steps
    <2>16. Origin'
      BY <1>1, <2>2, <2>4, <2>5 DEF Origin
    <2>17. Retired'
      BY <1>1, <2>1 DEF Retired, Steps, AppendTask
    <2>18. IndexSteps'
      BY <2>1 DEF IndexSteps
    <2>20. QED
      BY <2>7, <2>8, <2>9, <2>10, <2>11, <2>12, <2>13, <2>14, <2>15, <2>16, <2>17,
         <2>18 DEF IInv, Running
  <1>5. QED
    BY <1>3, <1>4

\* What is stored after a step that changes only the index.
LEMMA IndexStored ==
    ASSUME Stored, IndexBacked', stable' \in Files, gone' \in SUBSET gone, spool' \in Memory,
           seen' = [seen EXCEPT !.index = seen'.index], seen'.index \in Idx,
           stable'.file = stable.file,
           UNCHANGED <<buffered, log, durable, cleaned, published, writes>>
    PROVE  Stored'
  <1>1. TypeInv /\ Order /\ Kept /\ Numbered
    BY DEF Stored
  <1>2. seen'.file = seen.file /\ seen' \in Files
    BY <1>1 DEF TypeInv, Files
  <1>3. TypeInv'
    BY <1>1, <1>2 DEF TypeInv
  <1>4. Order' /\ Numbered'
    BY <1>1 DEF Order, Numbered
  <1>5. Owed' = Owed /\ \A s \in Owed : Ref(s)' = Ref(s)
    BY DEF Owed, Ref
  <1>6. Kept'
    BY <1>1, <1>2, <1>5 DEF Kept
  <1>7. QED
    BY <1>3, <1>4, <1>6 DEF Stored

\* The memory after the index is written.
LEMMA IndexedFacts ==
    ASSUME TypeInv, spool' = Indexed
    PROVE  /\ spool' \in Memory /\ spool'.ranges = spool.ranges /\ spool'.next = spool.next
           /\ spool'.unsynced = spool.unsynced
  <1>1. spool \in Memory
    BY DEF TypeInv
  <1>2. QED
    BY <1>1 DEF Indexed, Memory

\* An index that need not be written, one that is created, and a frame.
LEMMA PersistIndexKeeps ==
    ASSUME IInv, PersistIndex
    PROVE  IInv'
  <1>1. /\ TypeInv /\ Order /\ Kept /\ IndexBacked /\ Numbered /\ TaskInv /\ Marks
        /\ Removable /\ Sized /\ Live /\ Synced /\ Cleared /\ Open /\ InProgress /\ Origin
        /\ Retired /\ IndexSteps /\ Stored
    BY DEF IInv, Stored, Running
  <1>2. /\ pc = "index"
        /\ UNCHANGED <<buffered, log, durable, cleaned, published, writes>>
    BY DEF PersistIndex, journal
  <1>3. CASE ~spool.dirty /\ UNCHANGED <<files, spool>> /\ Goto(Served(task), task)
    <2>1. UNCHANGED <<seen, stable, gone, spool>> /\ pc' = Served(task) /\ task' = task
      BY <1>3 DEF files, Goto
    <2>2. spool' \in Memory /\ buffered' \in Seq(Rec)
      BY <1>1, <1>2, <2>1 DEF TypeInv
    <2>3. Stored'
      BY <1>2, <2>1, <2>2, StoredStays DEF files, journal
    <2>4. spool'.started => seen'.index.there
      BY <1>1, <1>2, <2>1 DEF Sized, Up
    <2>5. QED
      BY <1>2, <2>1, <2>3, <2>4, IndexDone
  <1>4. CASE /\ spool.dirty /\ ~spool.started
             /\ seen' = [seen EXCEPT !.index = NewIndex] /\ FlushIndex(NewIndex)
             /\ spool' = Indexed /\ Goto(Served(task), task)
    <2>1. NewIndex \in Idx /\ NewIndex.there
      BY <1>1, NewIndexTyped
    <2>2. seen'.index = NewIndex /\ seen'.file = seen.file
      BY <1>1, <1>4, Typed
    <2>3. /\ seen.file # <<>> /\ stable.file # <<>> /\ "file" \notin gone
          /\ spool.ranges # {}
      BY <1>2, <1>4, IndexHasBytes
    <2>4. stable' \in Files /\ gone' = {} /\ IndexBacked' /\ stable'.file = stable.file
      BY <1>1, <1>4, <2>1, <2>2, <2>3, FlushIndexKeeps
    <2>5. /\ spool' \in Memory /\ spool'.ranges = spool.ranges /\ spool'.next = spool.next
          /\ spool'.unsynced = spool.unsynced
      BY <1>1, <1>4, IndexedFacts
    <2>6. Stored'
      BY <1>1, <1>2, <1>4, <2>1, <2>2, <2>4, <2>5, IndexStored
    <2>7. pc' = Served(task) /\ task' = task
      BY <1>4 DEF Goto
    <2>8. QED
      BY <1>2, <2>1, <2>2, <2>3, <2>4, <2>5, <2>6, <2>7, IndexDone
  <1>5. CASE /\ spool.dirty /\ spool.started
             /\ seen' = [seen EXCEPT !.index = NewIndex] /\ Goto("frame", task)
             /\ UNCHANGED <<stable, gone, spool>>
    <2>1. NewIndex \in Idx /\ NewIndex.there
      BY <1>1, NewIndexTyped
    <2>2. seen'.index = NewIndex /\ seen'.file = seen.file /\ pc' = "frame" /\ task' = task
      BY <1>1, <1>5, Typed DEF Goto
    <2>3. seen.index.there
      BY <1>1, <1>2, <1>5 DEF Sized, Up
    <2>4. IndexBacked'
      BY <1>1, <1>5, <2>1, <2>2, <2>3 DEF IndexBacked
    <2>5. Stored'
      BY <1>1, <1>2, <1>5, <2>1, <2>2, <2>4, IndexStored DEF TypeInv
    <2>6. /\ Serving' <=> Serving
          /\ Starting' <=> Starting
          /\ Appending' <=> Appending
          /\ Discarding' <=> Discarding
          /\ Tracked' <=> Tracked
      BY <1>2, <2>2 DEF Serving, Starting, Appending, Discarding, Tracked, Steps
    <2>7. Owed' = Owed /\ \A s \in Owed : Ref(s)' = Ref(s)
      BY <1>2 DEF Owed, Ref
    <2>8. Current' = Current /\ \A i \in DOMAIN buffered : BRef(i)' = BRef(i)
      BY <1>2, <1>5 DEF Current, BRef
    <2>9. \A r : (OfRecord(r)' <=> OfRecord(r)) /\ (OfBuffered(r)' <=> OfBuffered(r))
      BY <1>2 DEF OfRecord, OfBuffered, Ref, BRef
    <2>10. spool' = spool /\ spool.ranges # {} /\ UNCHANGED <<stable, gone>>
      BY <1>2, <1>5, IndexHasBytes
    <2>11. TaskInv'
      BY <1>1, <1>2, <2>2 DEF TaskInv, AppendTask
    <2>12. Marks'
      BY <1>1, <1>2, <2>2, <2>10 DEF Marks
    <2>13. Removable'
      BY <2>2 DEF Removable
    <2>14. Sized'
      BY <1>1, <1>2, <2>1, <2>2, <2>10 DEF Sized, Up
    <2>15. Live'
      BY <1>1, <1>2, <2>2, <2>6, <2>7, <2>10 DEF Live
    <2>16. Synced'
      BY <1>1, <1>2, <2>2, <2>6, <2>10 DEF Synced
    <2>17. Cleared'
      BY <2>10 DEF Cleared
    <2>18. Open'
      BY <1>1, <1>2, <2>2, <2>6, <2>8, <2>10 DEF Open
    <2>19. InProgress'
      BY <1>1, <1>2, <2>2, <2>3, <2>6, <2>8, <2>10 DEF InProgress, Steps
    <2>20. Origin'
      BY <1>1, <2>6, <2>8, <2>9, <2>10 DEF Origin
    <2>21. Retired'
      BY <1>1, <1>2, <2>2, <2>10 DEF Retired, Steps
    <2>22. IndexSteps'
      BY <2>1, <2>2 DEF IndexSteps
    <2>24. QED
      BY <2>5, <2>11, <2>12, <2>13, <2>14, <2>15, <2>16, <2>17, <2>18, <2>19, <2>20, <2>21,
         <2>22 DEF IInv, Running
  <1>6. QED
    BY <1>3, <1>4, <1>5 DEF PersistIndex

\* The frame is flushed.
LEMMA FlushFrameKeeps ==
    ASSUME IInv, FlushFrame
    PROVE  IInv'
  <1>1. /\ TypeInv /\ Order /\ Kept /\ IndexBacked /\ Numbered /\ TaskInv /\ Marks
        /\ Removable /\ Sized /\ Live /\ Synced /\ Cleared /\ Open /\ InProgress /\ Origin
        /\ Retired /\ IndexSteps /\ Stored
    BY DEF IInv, Stored, Running
  <1>2. /\ pc = "frame" /\ FlushIndex(seen.index) /\ seen' = seen /\ spool' = Indexed
        /\ pc' = Served(task) /\ task' = task
        /\ UNCHANGED <<buffered, log, durable, cleaned, published, writes>>
    BY DEF FlushFrame, journal, Goto
  <1>3. /\ seen.index.there /\ seen.index \in Idx /\ seen.file # <<>> /\ stable.file # <<>>
        /\ gone = {}
    BY <1>1, <1>2, Typed DEF IndexSteps, IndexBacked
  <1>4. stable' \in Files /\ gone' = {} /\ IndexBacked' /\ stable'.file = stable.file
    BY <1>1, <1>2, <1>3, FlushIndexKeeps
  <1>5. /\ spool' \in Memory /\ spool'.ranges = spool.ranges /\ spool'.next = spool.next
        /\ spool'.unsynced = spool.unsynced
    BY <1>1, <1>2, IndexedFacts
  <1>6. Stored'
    <2>1. seen' = [seen EXCEPT !.index = seen'.index]
      BY <1>1, <1>2, Typed
    <2>2. QED
      BY <1>1, <1>2, <1>3, <1>4, <1>5, <2>1, IndexStored
  <1>7. spool.ranges # {}
    <2>1. Serving \/ Starting
      BY <1>1, <1>2 DEF TaskInv, Serving, Starting, Appending, Discarding, Steps, AppendTask
    <2>2. QED
      BY <1>1, <1>3, <2>1, Fields DEF Cleared
  <1>8. QED
    BY <1>2, <1>3, <1>4, <1>5, <1>6, <1>7, IndexDone

\* Accepted records take over the ranges of buffered ones.
LEMMA AppendAcceptedKeeps ==
    ASSUME IInv, AppendAccepted
    PROVE  IInv'
  <1>1. /\ TypeInv /\ Order /\ Kept /\ IndexBacked /\ Numbered /\ TaskInv /\ Marks
        /\ Removable /\ Sized /\ Live /\ Synced /\ Cleared /\ Open /\ InProgress /\ Origin
        /\ Retired /\ IndexSteps
    BY DEF IInv, Stored, Running
  <1>2. /\ pc = "log" /\ log' = log \o buffered /\ buffered' = <<>> /\ FlushLog
        /\ (pc' = "commit" /\ task' = "drain") \/ (pc' = "serve" /\ task' = "none")
        /\ UNCHANGED <<seen, spool, durable, cleaned, published, writes>>
    BY DEF AppendAccepted, Goto
  <1>3. /\ Stored' /\ Len(log') = Len(log) + Len(buffered)
        /\ \A s \in 1 .. Len(log) : log'[s] = log[s]
        /\ \A i \in 1 .. Len(buffered) : log'[Len(log) + i] = buffered[i]
        /\ \A s \in Nat : \A i \in 1 .. Len(buffered) : s = Len(log) + i => Ref(s)' = BRef(i)
    BY <1>2, AppendStored
  <1>4. gone' = {} /\ ("file" \notin gone => stable'.file = stable.file) /\ DOMAIN buffered' = {}
    BY <1>1, <1>2, FlushLogKeeps, EmptySeq DEF Stored
  <1>5. /\ Len(log) \in Nat /\ Len(buffered) \in Nat /\ durable \in Nat /\ cleaned \in Nat
        /\ DOMAIN buffered = 1 .. Len(buffered)
    BY <1>1, Typed
  <1>6. Serving /\ Tracked /\ ~Appending /\ Up
    BY <1>1, <1>2 DEF Serving, Tracked, Appending, Discarding, TaskInv, Steps, Up
  <1>7. ~Appending' /\ ~Discarding' /\ ~Starting' /\ Serving'
    BY <1>2 DEF Serving, Appending, Discarding, Starting, Steps
  <1>8. \A s \in 1 .. Len(log) : Ref(s)' = Ref(s)
    BY <1>3 DEF Ref
  <1>9. TaskInv'
    BY <1>2 DEF TaskInv
  <1>10. Marks'
    BY <1>2 DEF Marks
  <1>11. Removable'
    BY <1>2 DEF Removable
  <1>12. Sized'
    BY <1>1, <1>2, <1>6 DEF Sized
  <1>13. Live'
    <2> SUFFICES ASSUME NEW s \in durable + 1 .. Len(log) + Len(buffered)
                 PROVE  Ref(s)' \in spool.ranges
      BY <1>2, <1>3, <1>7 DEF Live, Owed
    <2>1. CASE s <= Len(log)
      BY <1>1, <1>5, <1>6, <1>8, <2>1 DEF Live, Owed
    <2>2. CASE s > Len(log)
      <3>1. s - Len(log) \in 1 .. Len(buffered) /\ s = Len(log) + (s - Len(log)) /\ s \in Nat
        BY <1>5, <2>2
      <3>2. PICK i \in 1 .. Len(buffered) : s = Len(log) + i
        BY <3>1
      <3>3. Ref(s)' = BRef(i)
        BY <1>3, <3>1, <3>2
      <3>4. QED
        BY <1>1, <1>5, <3>3 DEF Open
    <2>3. QED
      BY <1>5, <2>1, <2>2
  <1>14. Synced'
    BY <1>1, <1>2, <1>4, <1>6 DEF Synced
  <1>15. Cleared'
    BY <1>1, <1>2, <1>6 DEF Cleared
  <1>16. Open'
    BY <1>2, <1>4, <1>7 DEF Open
  <1>17. InProgress'
    BY <1>2, <1>7 DEF InProgress, Steps
  <1>18. Origin'
    <2> SUFFICES ASSUME NEW r \in spool.ranges PROVE OfRecord(r)'
      BY <1>2 DEF Origin
    <2>1. CASE OfRecord(r)
      <3>1. r.seq \in cleaned + 1 .. Len(log) /\ r = Ref(r.seq)
        BY <2>1 DEF OfRecord
      <3>2. PICK s \in cleaned + 1 .. Len(log) : s = r.seq /\ r = Ref(s)
        BY <3>1
      <3>3. s \in 1 .. Len(log) /\ s \in cleaned' + 1 .. Len(log')
        BY <1>2, <1>3, <1>5
      <3>4. r = Ref(s)'
        BY <1>8, <3>2, <3>3
      <3>5. QED
        BY <3>2, <3>3, <3>4 DEF OfRecord, Ref
    <2>2. CASE OfBuffered(r)
      <3>1. PICK i \in 1 .. Len(buffered) : r = BRef(i)
        BY <1>5, <2>2 DEF OfBuffered
      <3>2. PICK s \in Nat : s = Len(log) + i
        BY <1>5
      <3>3. r = Ref(s)' /\ r.seq = s
        BY <1>3, <3>1, <3>2 DEF BRef
      <3>4. s \in cleaned' + 1 .. Len(log')
        BY <1>1, <1>2, <1>3, <1>5, <3>2, Typed DEF Order
      <3>5. QED
        BY <3>3, <3>4 DEF OfRecord, Ref
    <2>3. QED
      BY <1>1, <1>6, <2>1, <2>2 DEF Origin
  <1>19. Retired'
    BY <1>2 DEF Retired, Steps
  <1>20. IndexSteps'
    BY <1>2 DEF IndexSteps
  <1>22. QED
    BY <1>3, <1>9, <1>10, <1>11, <1>12, <1>13, <1>14, <1>15, <1>16, <1>17, <1>18, <1>19,
       <1>20 DEF IInv, Running

---------------------------------------------------------------------------
(* Removal of the files.                                                   *)

\* The index goes first.
LEMMA UnlinkIndexKeeps ==
    ASSUME IInv, UnlinkIndex
    PROVE  IInv'
  <1>1. /\ TypeInv /\ Order /\ Kept /\ IndexBacked /\ Numbered /\ TaskInv /\ Marks
        /\ Removable /\ Sized /\ Live /\ Synced /\ Cleared /\ Open /\ InProgress /\ Origin
        /\ Retired /\ IndexSteps
    BY DEF IInv, Stored, Running
  <1>2. /\ pc = "unlink" /\ pc' = "remove" /\ task' = task
        /\ seen' = [seen EXCEPT !.index = NoIndex]
        /\ gone' = IF seen.index.there THEN gone \cup {"index"} ELSE gone
        /\ UNCHANGED <<stable, spool, buffered, log, durable, cleaned, published, writes>>
    BY DEF UnlinkIndex, Goto, journal
  <1>3. buffered = <<>> /\ DOMAIN buffered = {}
    BY <1>2, Closed DEF Steps
  <1>4. /\ seen'.file = seen.file /\ seen'.index = NoIndex /\ seen' \in Files
        /\ seen' = [file |-> seen.file, index |-> NoIndex]
    BY <1>1, <1>2, Typed, Fields DEF Files
  <1>5. Stored'
    <2>1. gone' \in SUBSET {"file", "index"} /\ ("file" \in gone' <=> "file" \in gone)
      BY <1>1, <1>2 DEF TypeInv
    <2>2. TypeInv'
      BY <1>1, <1>2, <1>4, <2>1 DEF TypeInv
    <2>3. Order' /\ Numbered'
      BY <1>1, <1>2 DEF Order, Numbered
    <2>4. Kept'
      BY <1>1, <1>2, <1>4, <2>1 DEF Kept, Owed, Ref
    <2>5. IndexBacked'
      BY <1>1, <1>2, <1>4, Fields DEF IndexBacked
    <2>6. QED
      BY <2>2, <2>3, <2>4, <2>5 DEF Stored
  <1>6. /\ task \in {"clean", "discarded", "rebuild"}
        /\ ~Serving' /\ ~Appending' /\ ~Discarding' /\ (Starting' <=> Starting)
        /\ ~Appending
    BY <1>1, <1>2 DEF TaskInv, Serving, Starting, Appending, Discarding, Steps
  <1>7. TaskInv'
    BY <1>2, <1>6 DEF TaskInv
  <1>8. Marks'
    BY <1>1, <1>2, <1>6 DEF Marks
  <1>9. Removable'
    BY <1>1, <1>2, <1>3, <1>6 DEF Removable, Owed
  <1>10. Sized'
    BY <1>1, <1>2, <1>4 DEF Sized, Up
  <1>11. Live'
    BY <1>1, <1>2, <1>6 DEF Live, Owed, Ref
  <1>12. Synced'
    BY <1>2, <1>6 DEF Synced
  <1>13. Cleared'
    <2> SUFFICES ASSUME Starting, spool.ranges = {}
                 PROVE  spool = Empty /\ seen.file = <<>>
      BY <1>2, <1>4, <1>6 DEF Cleared
    <2>1. seen = [file |-> <<>>, index |-> NoIndex]
      BY <1>1 DEF Cleared
    <2>2. QED
      BY <1>1, <2>1 DEF Cleared
  <1>14. Open'
    BY <1>2, <1>3, <1>6 DEF Open
  <1>15. InProgress'
    BY <1>2, <1>6 DEF InProgress, Steps
  <1>16. Origin'
    <2>1. (Tracked' => Tracked) /\ (Appending => Appending')
      BY <1>1, <1>2, <1>3, <1>6 DEF Tracked, TaskInv, Serving, Starting, Up, Appending,
         Discarding, Steps, AppendTask
    <2>2. QED
      BY <1>1, <1>2, <1>3, <1>6, <2>1, OriginSame
  <1>17. Retired'
    BY <1>1, <1>2, <1>3, <1>6 DEF Retired, Steps
  <1>18. IndexSteps'
    BY <1>2, <1>4 DEF IndexSteps
  <1>20. QED
    BY <1>5, <1>7, <1>8, <1>9, <1>10, <1>11, <1>12, <1>13, <1>14, <1>15, <1>16, <1>17, <1>18 DEF IInv, Running

\* What the removal of the file leaves on storage: nobody needed it, and an
\* index that may come back comes back with bytes.
LEMMA RemoveFileStored ==
    ASSUME IInv, RemoveFile
    PROVE  /\ Stored' /\ "file" \in gone' /\ \A s \in Owed : log[s].inline
           /\ seen' = [file |-> <<>>, index |-> NoIndex]
  <1>1. /\ TypeInv /\ Order /\ Kept /\ IndexBacked /\ Numbered /\ TaskInv /\ Marks
        /\ Removable /\ Sized /\ Live /\ Synced /\ Cleared /\ Open /\ InProgress /\ Origin
        /\ Retired /\ IndexSteps
    BY DEF IInv, Stored, Running
  <1>2. /\ pc = "remove" /\ seen' = [seen EXCEPT !.file = <<>>] /\ spool' = Empty
        /\ UNCHANGED <<buffered, log, durable, cleaned, published, writes>>
    BY DEF RemoveFile, journal
  <1>3. /\ seen.index = NoIndex /\ \A s \in Owed : log[s].inline
        /\ stable.file \in Seq(Int) /\ seen.file \in Seq(Int) /\ <<>> \in Seq(Int)
        /\ stable.index \in Idx /\ gone \in SUBSET {"file", "index"} /\ ~NoIndex.there
        /\ NoIndex \in Idx
    BY <1>1, <1>2, Typed, Fields DEF IndexSteps, Removable
  <1>4. seen' = [file |-> <<>>, index |-> NoIndex] /\ seen' \in Files
    BY <1>1, <1>2, <1>3, Typed DEF Files
  <1>5. /\ stable' \in Files /\ gone' \in SUBSET {"file", "index"} /\ "file" \in gone'
        /\ ~stable'.index.there => stable'.index = NoIndex
        /\ stable'.index.there => stable'.file # <<>> /\ "index" \in gone'
    <2>1. CASE /\ "file" \notin gone /\ gone' = gone \cup {"file"}
               /\ \E f \in Survivors(stable.file, seen.file) :
                     stable' = [stable EXCEPT !.file = f]
      <3>1. PICK f \in Survivors(stable.file, seen.file) : stable' = [stable EXCEPT !.file = f]
        BY <2>1
      <3>2. f \in Seq(Int) /\ (stable.file # <<>> /\ seen.file # <<>> => f # <<>>)
        BY <1>3, SurvivorFacts
      <3>3. stable'.file = f /\ stable'.index = stable.index /\ stable' \in Files
        BY <1>1, <3>1, <3>2 DEF TypeInv, Files
      <3>4. stable.index.there => "index" \in gone /\ seen.file # <<>> /\ stable.file # <<>>
        BY <1>1, <1>3, <2>1 DEF IndexBacked
      <3>5. QED
        BY <1>1, <1>3, <2>1, <3>2, <3>3, <3>4 DEF IndexBacked
    <2>2. CASE "file" \in gone /\ UNCHANGED <<stable, gone>>
      BY <1>1, <1>3, <2>2 DEF IndexBacked, TypeInv
    <2>3. CASE /\ "file" \in gone /\ gone' = {"file"}
               /\ \E f \in Survivors(<<>>, seen.file) : stable' = [Settled EXCEPT !.file = f]
      <3>1. PICK f \in Survivors(<<>>, seen.file) : stable' = [Settled EXCEPT !.file = f]
        BY <2>3
      <3>2. f \in Seq(Int)
        BY <1>3, SurvivorFacts
      <3>3. /\ stable'.file = f /\ stable' = [file |-> f, index |-> stable'.index]
            /\ stable'.index = IF "index" \in gone THEN NoIndex ELSE stable.index
        BY <3>1 DEF Settled
      <3>4. stable'.index = NoIndex
        BY <1>1, <1>3, <3>3 DEF IndexBacked
      <3>5. QED
        BY <1>3, <2>3, <3>2, <3>3, <3>4 DEF Files
    <2>4. QED
      BY <2>1, <2>2, <2>3 DEF RemoveFile
  <1>6. TypeInv'
    BY <1>1, <1>2, <1>4, <1>5, Fields DEF TypeInv
  <1>7. Order' /\ Numbered'
    BY <1>1, <1>2 DEF Order, Numbered
  <1>8. Kept'
    BY <1>2, <1>3 DEF Kept, Owed
  <1>9. IndexBacked'
    BY <1>3, <1>4, <1>5 DEF IndexBacked
  <1>10. QED
    BY <1>3, <1>4, <1>5, <1>6, <1>7, <1>8, <1>9 DEF Stored

\* The bytes go after the index.
LEMMA RemoveFileKeeps ==
    ASSUME IInv, RemoveFile
    PROVE  IInv'
  <1>1. /\ TypeInv /\ Order /\ Kept /\ IndexBacked /\ Numbered /\ TaskInv /\ Marks
        /\ Removable /\ Sized /\ Live /\ Synced /\ Cleared /\ Open /\ InProgress /\ Origin
        /\ Retired /\ IndexSteps
    BY DEF IInv, Stored, Running
  <1>2. /\ pc = "remove" /\ spool' = Empty
        /\ UNCHANGED <<buffered, log, durable, cleaned, published, writes>>
    BY DEF RemoveFile, journal
  <1>3. buffered = <<>> /\ DOMAIN buffered = {}
    BY <1>2, Closed DEF Steps
  <1>4. /\ Stored' /\ "file" \in gone' /\ \A s \in Owed : log[s].inline
        /\ seen' = [file |-> <<>>, index |-> NoIndex]
    BY RemoveFileStored
  <1>5. \/ task = "rebuild" /\ pc' = "prefix" /\ task' = "none"
        \/ task = "resolve" /\ pc' = "serve" /\ task' = "none"
        \/ task = "clean" /\ pc' = "cleaned" /\ task' = "clean"
        \/ task = "discarded" /\ pc' = "blocked" /\ task' = "discarded"
    <2>1. task \in {"clean", "discarded", "rebuild", "resolve"}
      BY <1>1, <1>2 DEF TaskInv
    <2>2. CASE task = "rebuild"
      BY <2>2 DEF RemoveFile, Goto
    <2>3. CASE task = "resolve"
      BY <2>3 DEF RemoveFile, Goto
    <2>4. CASE task = "clean"
      BY <2>4 DEF RemoveFile, Goto, Served
    <2>5. CASE task = "discarded"
      BY <2>5 DEF RemoveFile, Goto, Served
    <2>6. QED
      BY <2>1, <2>2, <2>3, <2>4, <2>5
  <1>6. CASE pc' = "blocked"
    <2>1. task' = "discarded" /\ buffered' = <<>>
      BY <1>2, <1>3, <1>5, <1>6
    <2>2. QED
      BY <1>4, <1>6, <2>1, Halts
  <1>7. CASE pc' # "blocked"
    <2>1. /\ spool'.ranges = {} /\ spool'.next = 0 /\ ~spool'.started
          /\ seen'.file = <<>> /\ seen'.index = NoIndex /\ Len(seen'.file) = 0
      BY <1>2, <1>4, Fields
    <2>2. ~Appending' /\ ~Discarding'
      BY <1>5 DEF Appending, Discarding, Steps
    <2>3. Serving' => pc' = "serve" /\ Owed = {}
      <3>1. Serving' => pc' = "serve" /\ task = "resolve"
        BY <1>5, <1>7, <2>2 DEF Serving, Steps
      <3>2. task = "resolve" => Owed = {}
        BY <1>1, Typed DEF Marks, Owed, Order
      <3>3. QED
        BY <3>1, <3>2
    <2>4. Owed' = Owed
      BY <1>2 DEF Owed
    <2>5. TaskInv'
      BY <1>5, <1>7 DEF TaskInv
    <2>6. Marks'
      BY <1>1, <1>2, <1>5, <1>7 DEF Marks
    <2>7. Removable'
      BY <1>5 DEF Removable
    <2>8. Sized'
      BY <2>1 DEF Sized
    <2>9. Live'
      BY <1>2, <1>4, <1>5, <1>7, <2>3, <2>4 DEF Live
    <2>10. Synced'
      BY <1>4, <1>5, <1>7, <2>1, <2>3 DEF Synced
    <2>11. Cleared'
      BY <1>2, <1>4 DEF Cleared
    <2>12. Open'
      BY <1>2, <1>3, <2>2 DEF Open
    <2>13. InProgress'
      BY <1>5, <1>7, <2>2 DEF InProgress, Steps
    <2>14. Origin'
      BY <2>1 DEF Origin
    <2>15. Retired'
      BY <2>1 DEF Retired
    <2>16. IndexSteps'
      BY <1>5 DEF IndexSteps
    <2>18. QED
      BY <1>4, <2>5, <2>6, <2>7, <2>8, <2>9, <2>10, <2>11, <2>12, <2>13, <2>14, <2>15, <2>16 DEF IInv, Running
  <1>8. QED
    BY <1>6, <1>7

---------------------------------------------------------------------------
(* Startup.                                                                *)

\* A start reads what is there.
LEMMA LoadIndexKeeps ==
    ASSUME IInv, LoadIndex
    PROVE  IInv'
  <1>1. /\ TypeInv /\ Order /\ Kept /\ IndexBacked /\ Numbered /\ TaskInv /\ Marks
        /\ Removable /\ Sized /\ Live /\ Synced /\ Cleared /\ Open /\ InProgress /\ Origin
        /\ Retired /\ IndexSteps
    BY DEF IInv, Stored, Running
  <1>2. /\ pc = "down" /\ spool' = Loaded /\ task' = "none"
        /\ pc' = IF RecoveryPending THEN IF RecoveryRequired THEN "rebuild" ELSE "prefix"
                 ELSE IF RecoveryRequired THEN "resolve" ELSE "serve"
        /\ UNCHANGED <<seen, stable, gone, buffered, log, durable, cleaned, published, writes>>
    BY DEF LoadIndex, Goto, files, journal
  <1>3. buffered = <<>> /\ DOMAIN buffered = {}
    BY <1>2, Closed DEF Steps
  <1>4. /\ Loaded \in Memory /\ Loaded.next = Len(seen.file) /\ Loaded.unsynced = 0
        /\ Loaded.ranges = (IF LoadsIndex THEN seen.index.ranges ELSE {})
        /\ Loaded.started = LoadsIndex
    <2>1. /\ Len(seen.file) \in Nat /\ LoadsIndex \in BOOLEAN
          /\ (IF LoadsIndex THEN seen.index.ranges ELSE {}) \in SUBSET Rng
      BY <1>1, Typed, Fields DEF LoadsIndex
    <2>2. QED
      BY <2>1 DEF Loaded, Empty, Memory
  <1>5. Stored'
    <2>1. buffered' \in Seq(Rec)
      BY <1>1, <1>2 DEF TypeInv
    <2>2. QED
      BY <1>2, <1>4, <2>1, StoredStays DEF files, journal
  <1>6. seen.file = <<>> => ~seen.index.there /\ ~LoadsIndex /\ seen.index = NoIndex
    BY <1>1 DEF IndexBacked, LoadsIndex
  <1>7. Len(seen.file) = 0 <=> seen.file = <<>>
    BY <1>1, Typed, EmptySeq
  <1>8. RecoveryRequired => seen.file # <<>>
    BY <1>4, <1>6, <1>7, Fields DEF RecoveryRequired
  <1>9. ~RecoveryRequired =>
           /\ seen.file = <<>> /\ Loaded = Empty
           /\ seen = [file |-> <<>>, index |-> NoIndex]
    <2> SUFFICES ASSUME ~RecoveryRequired
                 PROVE  /\ seen.file = <<>> /\ Loaded = Empty
                        /\ seen = [file |-> <<>>, index |-> NoIndex]
      OBVIOUS
    <2>1. seen.file = <<>> /\ ~LoadsIndex /\ seen.index = NoIndex /\ Len(seen.file) = 0
      BY <1>4, <1>6, <1>7 DEF RecoveryRequired
    <2>2. /\ Loaded.next = 0 /\ Loaded.ranges = {} /\ Loaded.started = FALSE
          /\ Loaded.unsynced = 0
      BY <1>4, <2>1 DEF LoadsIndex
    <2>3. Loaded = Empty
      <3>1. Loaded.dirty = FALSE /\ Loaded.pending = {} /\ Loaded.snapshot = FALSE
        BY DEF Loaded, Empty
      <3>2. QED
        BY <1>4, <2>2, <3>1 DEF Memory, Empty
    <2>4. QED
      BY <1>1, <2>1, <2>3, Typed
  <1>10. /\ ~RecoveryPending => cleaned = Len(log) /\ Owed = {}
         /\ RecoveryPending => cleaned < Len(log)
    BY <1>1, Typed DEF RecoveryPending, Order, Owed
  <1>11. seen.file = <<>> => \A s \in Owed : log[s].inline
    <2> SUFFICES ASSUME seen.file = <<>>, NEW s \in Owed, ~log[s].inline PROVE FALSE
      OBVIOUS
    <2>1. Holds(seen.file, Ref(s)) /\ s \in 1 .. Len(log)
      BY <1>1, Typed DEF Kept, Owed
    <2>2. Ref(s).off \in Nat /\ Ref(s).off >= 1
      BY <1>1, <2>1, Records, Fields
    <2>3. QED
      BY <1>7, <2>1, <2>2 DEF Holds
  <1>12. /\ ~Appending' /\ ~Discarding' 
         /\ (Serving' => pc' = "serve") /\ (Starting' => pc' = "prefix")
    BY <1>2 DEF Appending, Discarding, Serving, Starting, Steps
  <1>13. /\ pc' \in {"rebuild", "prefix", "resolve", "serve"}
         /\ pc' \in {"rebuild", "resolve"} => RecoveryRequired
         /\ pc' \in {"prefix", "serve"} => ~RecoveryRequired
         /\ pc' \in {"rebuild", "prefix"} => RecoveryPending
         /\ pc' \in {"resolve", "serve"} => ~RecoveryPending
    BY <1>2
  <1>14. TaskInv'
    BY <1>2, <1>13 DEF TaskInv
  <1>15. Marks'
    BY <1>2, <1>4, <1>7, <1>8, <1>10, <1>13 DEF Marks, LoadsIndex
  <1>16. Removable'
    BY <1>13 DEF Removable
  <1>17. Sized'
    BY <1>2, <1>4 DEF Sized, LoadsIndex
  <1>18. Live'
    BY <1>2, <1>9, <1>10, <1>11, <1>12, <1>13 DEF Live, Owed
  <1>19. Synced'
    <2>1. Serving' => spool'.next = 0 /\ ("index" \notin gone \/ "file" \in gone)
      BY <1>1, <1>2, <1>9, <1>12, <1>13, Fields DEF IndexBacked
    <2>2. QED
      BY <1>2, <1>13, <2>1 DEF Synced
  <1>20. Cleared'
    BY <1>2, <1>9, <1>12, <1>13 DEF Cleared
  <1>21. Open'
    BY <1>2, <1>3, <1>12 DEF Open
  <1>22. InProgress'
    BY <1>2, <1>12, <1>13 DEF InProgress, Steps
  <1>23. Origin'
    <2>1. Tracked' => pc' \in {"prefix", "serve"}
      BY <1>12, <1>13 DEF Tracked
    <2>2. QED
      BY <1>2, <1>9, <1>13, <2>1, Fields DEF Origin
  <1>24. Retired'
    BY <1>2, <1>9, <1>13, Fields DEF Retired
  <1>25. IndexSteps'
    BY <1>13 DEF IndexSteps
  <1>27. QED
    BY <1>5, <1>14, <1>15, <1>16, <1>17, <1>18, <1>19, <1>20, <1>21, <1>22, <1>23, <1>24,
       <1>25 DEF IInv, Running

\* The records a rebuild must keep are the owed ones that do not carry their
\* payload.
LEMMA ReferencesAre ==
    ASSUME TypeInv, Order
    PROVE  /\ References \in SUBSET Rng
           /\ \A s \in Owed : ~log[s].inline => Ref(s) \in References
           /\ \A r \in References : OfRecord(r) /\ ~log[r.seq].inline
           /\ cleaned < Len(log) /\ References = {} => Discardable # {}
  <1>1. Len(log) \in Nat /\ cleaned \in Nat /\ durable \in Nat /\ cleaned <= durable
    BY Typed DEF Order
  <1>2. ASSUME NEW r \in References
        PROVE  r \in Rng /\ OfRecord(r) /\ ~log[r.seq].inline
    <2>1. PICK s \in (cleaned + 1 .. Len(log)) \ Discardable : r = Ref(s)
      BY DEF References
    <2>2. s \in 1 .. Len(log) /\ ~log[s].inline
      BY <1>1 DEF Discardable
    <2>3. r \in Rng /\ r.seq = s
      BY <2>1, <2>2, Records
    <2>4. QED
      BY <2>1, <2>2, <2>3 DEF OfRecord
  <1>3. ASSUME NEW s \in Owed, ~log[s].inline
        PROVE  Ref(s) \in References
    <2>1. s \in (cleaned + 1 .. Len(log)) \ Discardable
      BY <1>1, <1>3 DEF Owed, Discardable
    <2>2. QED
      BY <2>1 DEF References
  <1>4. ASSUME cleaned < Len(log), References = {}
        PROVE  Discardable # {}
    <2>1. Len(log) \in cleaned + 1 .. Len(log)
      BY <1>1, <1>4
    <2>2. QED
      BY <1>4, <2>1 DEF References
  <1>5. QED
    BY <1>2, <1>3, <1>4

\* A rebuild with nothing to keep removes the files.
LEMMA RebuildNothingKeeps ==
    ASSUME IInv, RebuildIndexFromReferences, References = {} /\ Discardable # {}
    PROVE  IInv'
  <1>1. /\ TypeInv /\ Order /\ Kept /\ IndexBacked /\ Numbered /\ TaskInv /\ Marks
        /\ Removable /\ Sized /\ Live /\ Synced /\ Cleared /\ Open /\ InProgress /\ Origin
        /\ Retired /\ IndexSteps
    BY DEF IInv, Stored, Running
  <1>2. /\ pc = "rebuild" /\ pc' = "unlink" /\ task' = "rebuild"
        /\ UNCHANGED <<seen, stable, gone, spool, buffered, log, durable, cleaned, published,
                       writes>>
    BY DEF RebuildIndexFromReferences, Goto, files, journal
  <1>3. spool' \in Memory /\ buffered' \in Seq(Rec)
    BY <1>1, <1>2 DEF TypeInv
  <1>4. Stored'
    BY <1>2, <1>3, StoredStays DEF files, journal
  <1>5. buffered = <<>> /\ DOMAIN buffered = {}
    BY <1>2, Closed DEF Steps
  <1>6. \A s \in Owed : log[s].inline
    BY <1>1, ReferencesAre
  <1>7. TaskInv'
    BY <1>1, <1>2, <1>5 DEF TaskInv, Steps, AppendTask
  <1>8. Marks'
    BY <1>1, <1>2, <1>5 DEF Marks
  <1>9. Removable'
    BY <1>2, <1>6 DEF Removable, Owed
  <1>10. Sized'
    BY <1>1, <1>2, <1>5 DEF Sized, Up, Steps
  <1>11. Live'
    BY <1>1, <1>2, <1>5
    DEF Live, Serving, Starting, Up, Appending, Discarding, Steps, AppendTask, Owed, Ref
  <1>12. Synced'
    BY <1>1, <1>2, <1>5
    DEF Synced, Serving, Starting, Up, Appending, Discarding, Steps, AppendTask
  <1>13. Cleared'
    BY <1>1, <1>2, <1>5
    DEF Cleared, Serving, Starting, Up, Appending, Discarding, Steps, AppendTask
  <1>14. Open'
    BY <1>1, <1>2, <1>5
    DEF Open, BRef, Serving, Starting, Up, Appending, Discarding, Steps, AppendTask
  <1>15. InProgress'
    BY <1>1, <1>2, <1>5
    DEF InProgress, Current, Serving, Starting, Up, Appending, Discarding, Steps, AppendTask
  <1>16. Origin'
    <2>1. (Tracked' => Tracked) /\ (Appending => Appending')
      BY <1>1, <1>2, <1>5 DEF Tracked, TaskInv, Serving, Starting, Up, Appending, Discarding,
         Steps, AppendTask
    <2>2. QED
      BY <1>1, <1>2, <1>5, <2>1, OriginSame
  <1>17. Retired'
    BY <1>1, <1>2, <1>5 DEF Retired, Steps
  <1>18. IndexSteps'
    BY <1>1, <1>2, <1>5 DEF IndexSteps
  <1>20. QED
    BY <1>4, <1>7, <1>8, <1>9, <1>10, <1>11, <1>12, <1>13, <1>14, <1>15, <1>16, <1>17, <1>18 DEF IInv, Running

\* A rebuild takes the ranges from the records.
LEMMA RebuildSomeKeeps ==
    ASSUME IInv, RebuildIndexFromReferences, ~(References = {} /\ Discardable # {})
    PROVE  IInv'
  <1>1. /\ TypeInv /\ Order /\ Kept /\ IndexBacked /\ Numbered /\ TaskInv /\ Marks
        /\ Removable /\ Sized /\ Live /\ Synced /\ Cleared /\ Open /\ InProgress /\ Origin
        /\ Retired /\ IndexSteps
    BY DEF IInv, Stored, Running
  <1>2. /\ pc = "rebuild" /\ RebuildComplete /\ pc' = "prefix" /\ task' = "none"
        /\ spool' = [spool EXCEPT !.ranges = References, !.dirty = TRUE,
                                  !.snapshot = TRUE, !.pending = {}]
        /\ UNCHANGED <<seen, stable, gone, buffered, log, durable, cleaned, published, writes>>
    BY DEF RebuildIndexFromReferences, Goto, files, journal
  <1>3. buffered = <<>> /\ DOMAIN buffered = {}
    BY <1>2, Closed DEF Steps
  <1>4. /\ References \in SUBSET Rng /\ References # {}
        /\ \A s \in Owed : ~log[s].inline => Ref(s) \in References
        /\ \A r \in References : OfRecord(r) /\ ~log[r.seq].inline
        /\ \A r \in References : Holds(seen.file, r)
    BY <1>1, <1>2, ReferencesAre DEF Marks, RebuildComplete
  <1>5. /\ spool' \in Memory /\ spool'.ranges = References /\ spool'.next = spool.next
        /\ spool'.unsynced = spool.unsynced /\ spool'.started = spool.started
    BY <1>1, <1>2, <1>4 DEF TypeInv, Memory
  <1>6. Stored'
    <2>1. buffered' \in Seq(Rec)
      BY <1>1, <1>2 DEF TypeInv
    <2>2. QED
      BY <1>2, <1>5, <2>1, StoredStays DEF files, journal
  <1>7. ~Appending' /\ ~Discarding' /\ ~Serving'
    BY <1>2 DEF Appending, Discarding, Serving, Steps
  <1>8. TaskInv'
    BY <1>2 DEF TaskInv
  <1>9. Marks'
    BY <1>2 DEF Marks
  <1>10. Removable'
    BY <1>2 DEF Removable
  <1>11. Sized'
    BY <1>1, <1>2, <1>4, <1>5 DEF Sized, Up
  <1>12. Live'
    BY <1>2, <1>4, <1>5, <1>7 DEF Live, Owed, Ref
  <1>13. Synced'
    BY <1>2, <1>7 DEF Synced
  <1>14. Cleared'
    BY <1>4, <1>5 DEF Cleared
  <1>15. Open'
    BY <1>2, <1>3, <1>7 DEF Open
  <1>16. InProgress'
    BY <1>2, <1>7 DEF InProgress, Steps
  <1>17. Origin'
    <2>1. \A r \in References : OfRecord(r)'
      BY <1>2, <1>4 DEF OfRecord, Ref
    <2>2. QED
      BY <1>5, <2>1 DEF Origin
  <1>18. Retired'
    BY <1>2, <1>4, <1>5 DEF Retired, Steps
  <1>19. IndexSteps'
    BY <1>2 DEF IndexSteps
  <1>21. QED
    BY <1>6, <1>8, <1>9, <1>10, <1>11, <1>12, <1>13, <1>14, <1>15, <1>16, <1>17, <1>18,
       <1>19 DEF IInv, Running

\* A rebuild that is complete does one of the two.
LEMMA RebuildKeeps ==
    ASSUME IInv, RebuildIndexFromReferences
    PROVE  IInv'
  BY RebuildNothingKeeps, RebuildSomeKeeps

\* Restored payload is flushed.
LEMMA FlushRestoredKeeps ==
    ASSUME IInv, FlushRestored
    PROVE  IInv'
  <1>1. /\ TypeInv /\ Order /\ Kept /\ IndexBacked /\ Numbered /\ TaskInv /\ Marks
        /\ Removable /\ Sized /\ Live /\ Synced /\ Cleared /\ Open /\ InProgress /\ Origin
        /\ Retired /\ IndexSteps
    BY DEF IInv, Stored, Running
  <1>2. /\ pc = "restored" /\ FlushFile /\ pc' = "restore" /\ task' = "none"
        /\ UNCHANGED <<seen, spool, buffered, log, durable, cleaned, published, writes>>
    BY DEF FlushRestored, Goto, journal
  <1>3. buffered = <<>> /\ DOMAIN buffered = {}
    BY <1>2, Closed DEF Steps
  <1>4. Stored'
    <2>1. stable' \in Files /\ gone' = {} /\ IndexBacked' /\ stable'.file = seen.file
      BY <1>1, <1>2, FlushFileKeeps DEF Stored
    <2>2. TypeInv'
      BY <1>1, <1>2, <2>1 DEF TypeInv
    <2>3. Order' /\ Numbered'
      BY <1>1, <1>2 DEF Order, Numbered
    <2>4. Kept'
      BY <1>1, <1>2, <2>1 DEF Kept, Owed, Ref
    <2>5. QED
      BY <2>1, <2>2, <2>3, <2>4 DEF Stored
  <1>5. TaskInv'
    BY <1>1, <1>2, <1>3 DEF TaskInv, Steps, AppendTask
  <1>6. Marks'
    BY <1>1, <1>2, <1>3 DEF Marks
  <1>7. Removable'
    BY <1>1, <1>2, <1>3 DEF Removable, Owed
  <1>8. Sized'
    BY <1>1, <1>2, <1>3 DEF Sized, Up, Steps
  <1>9. Live'
    BY <1>1, <1>2, <1>3
    DEF Live, Serving, Starting, Up, Appending, Discarding, Steps, AppendTask, Owed, Ref
  <1>10. Synced'
    BY <1>1, <1>2, <1>3
    DEF Synced, Serving, Starting, Up, Appending, Discarding, Steps, AppendTask
  <1>11. Cleared'
    BY <1>1, <1>2, <1>3
    DEF Cleared, Serving, Starting, Up, Appending, Discarding, Steps, AppendTask
  <1>12. Open'
    BY <1>1, <1>2, <1>3
    DEF Open, BRef, Serving, Starting, Up, Appending, Discarding, Steps, AppendTask
  <1>13. InProgress'
    BY <1>1, <1>2, <1>3
    DEF InProgress, Current, Serving, Starting, Up, Appending, Discarding, Steps, AppendTask
  <1>14. Origin'
    <2>1. (Tracked' => Tracked) /\ (Appending => Appending')
      BY <1>1, <1>2, <1>3 DEF Tracked, TaskInv, Serving, Starting, Up, Appending, Discarding,
         Steps, AppendTask
    <2>2. QED
      BY <1>1, <1>2, <1>3, <2>1, OriginSame
  <1>15. Retired'
    BY <1>1, <1>2, <1>3 DEF Retired, Steps
  <1>16. IndexSteps'
    BY <1>1, <1>2, <1>3 DEF IndexSteps
  <1>18. QED
    BY <1>4, <1>5, <1>6, <1>7, <1>8, <1>9, <1>10, <1>11, <1>12, <1>13, <1>14, <1>15, <1>16 DEF IInv, Running

\* An inline payload is put back where no other payload is.
LEMMA RestoreInlineRangeKeeps ==
    ASSUME IInv, RestoreInlineRange
    PROVE  IInv'
  <1>1. /\ TypeInv /\ Order /\ Kept /\ IndexBacked /\ Numbered /\ TaskInv /\ Marks
        /\ Removable /\ Sized /\ Live /\ Synced /\ Cleared /\ Open /\ InProgress /\ Origin
        /\ Retired /\ IndexSteps
    BY DEF IInv, Stored, Running
  <1> DEFINE s == Min(ToRestore)
             off == log[s].off
             end == Max({Len(seen.file), off})
  <1>2. /\ pc = "restore" /\ ToRestore # {} /\ ~Clashes(s)
        /\ seen' = [seen EXCEPT !.file =
                       [i \in 1 .. end |-> IF i = off THEN log[s].id
                                           ELSE IF i <= Len(@) THEN @[i] ELSE Gap]]
        /\ spool' = [spool EXCEPT !.ranges = @ \cup {Ref(s)}, !.next = Max({@, off}),
                                  !.dirty = TRUE, !.snapshot = TRUE, !.pending = {}]
        /\ pc' \in {"restore", "restored"} /\ task' = "none"
        /\ UNCHANGED <<stable, gone, buffered, log, durable, cleaned, published, writes>>
    BY DEF RestoreInlineRange, Goto, journal
  <1>3. buffered = <<>> /\ DOMAIN buffered = {}
    BY <1>2, Closed DEF Steps
  <1>4. /\ Len(log) \in Nat /\ cleaned \in Nat /\ durable \in Nat /\ published \in Nat
        /\ Len(seen.file) \in Nat /\ seen.file \in Seq(Int) /\ cleaned <= published
        /\ spool.ranges \in SUBSET Rng /\ spool.next = Len(seen.file)
        /\ \A r \in spool.ranges : Holds(seen.file, r)
    BY <1>1, <1>2, Typed DEF Order, Sized, Up
  <1>5. s \in ToRestore
    <2>1. ToRestore \subseteq Nat
      BY <1>4 DEF ToRestore, Unpublished
    <2>2. QED
      BY <1>2, <2>1, MinIsMember
  <1>6. /\ s \in published + 1 .. Len(log) /\ s \in 1 .. Len(log) /\ log[s].inline
        /\ Ref(s) \notin spool.ranges
    <2> HIDE DEF s
    <2>1. s \in Unpublished /\ log[s].inline /\ Ref(s) \notin spool.ranges
      BY <1>5 DEF ToRestore
    <2>2. QED
      BY <1>4, <2>1 DEF Unpublished
  <1>7. /\ Ref(s) \in Rng /\ Ref(s).seq = s /\ Ref(s).off = off /\ Ref(s).id = log[s].id
        /\ off \in Nat /\ off >= 1 /\ log[s].id \in Nat
    BY <1>1, <1>6, Records, Fields
  <1> HIDE DEF s
  <1>8. end \in Nat /\ end >= off /\ end >= Len(seen.file) /\ end = Max({spool.next, off})
    <2> HIDE DEF off
    <2>1. end = Max({spool.next, off})
      BY <1>4
    <2>2. Len(seen.file) \in Nat /\ off \in Nat
      BY <1>4, <1>7
    <2>3. end = IF Len(seen.file) >= off THEN Len(seen.file) ELSE off
      BY <2>2, MaxOfTwo
    <2> HIDE DEF end
    <2>4. QED
      BY <2>1, <2>2, <2>3
  <1> HIDE DEF off, end
  <1> DEFINE f == [i \in 1 .. end |-> IF i = off THEN log[s].id
                                      ELSE IF i <= Len(seen.file) THEN seen.file[i] ELSE Gap]
  <1>9. f \in Seq(Int) /\ Len(f) = end
    <2>1. ASSUME NEW i \in 1 .. end
          PROVE  f[i] \in Int
      <3>1. i <= Len(seen.file) => seen.file[i] \in Int
        BY <1>4, ElementOfSeq
      <3>2. QED
        BY <1>7, <3>1 DEF Gap
    <2>2. f \in [1 .. end -> Int]
      BY <2>1
    <2> HIDE DEF f
    <2>3. end \in Nat /\ DOMAIN f = 1 .. end
      BY <1>8, <2>2
    <2>4. f \in Seq(Int)
      BY <2>2, <2>3
    <2>5. QED
      BY <2>3, <2>4, LenProperties
  <1>10. /\ f[off] = log[s].id
         /\ \A i \in 1 .. Len(seen.file) : i # off => f[i] = seen.file[i]
    BY <1>4, <1>7, <1>8
  <1>11. seen'.file = f /\ seen'.index = seen.index
         /\ seen' = [file |-> f, index |-> seen.index]
    BY <1>1, <1>2, Typed
  <1> HIDE DEF f
  <1>12. ASSUME NEW r \in Rng, Holds(seen.file, r), r.off # off
         PROVE  Holds(f, r)
    <2>1. r.off \in Nat /\ r.off >= 1 /\ r.off <= Len(seen.file) /\ seen.file[r.off] = r.id
      BY <1>12, Fields DEF Holds
    <2>2. r.off \in 1 .. Len(seen.file) /\ r.off <= Len(f)
      BY <1>4, <1>8, <1>9, <2>1
    <2>3. QED
      BY <1>10, <1>12, <2>1, <2>2 DEF Holds
  <1>13. Holds(f, Ref(s))
    BY <1>7, <1>8, <1>9, <1>10 DEF Holds
  <1>14. \A r \in spool.ranges : r.off # off
    BY <1>2, <1>6 DEF Clashes, off
  <1>15. /\ spool' \in Memory /\ spool'.ranges = spool.ranges \cup {Ref(s)}
         /\ spool'.next = end /\ spool'.started = spool.started
    <2>1. spool \in Memory /\ spool.ranges \cup {Ref(s)} \in SUBSET Rng
      BY <1>1, <1>4, <1>7 DEF TypeInv
    <2>2. spool' = [spool EXCEPT !.ranges = spool.ranges \cup {Ref(s)}, !.next = end,
                                 !.dirty = TRUE, !.snapshot = TRUE, !.pending = {}]
      BY <1>2, <1>8
    <2>3. QED
      BY <1>8, <2>1, <2>2 DEF Memory
  <1>16. Owed' = Owed /\ \A t \in Owed : Ref(t)' = Ref(t) /\ t \in 1 .. Len(log)
    BY <1>2, <1>4 DEF Owed, Ref
  <1>17. Starting /\ Tracked /\ ~Appending
    BY <1>1, <1>2 DEF Starting, Tracked, Appending, Steps
  <1>18. Stored'
    <2>1. TypeInv'
      BY <1>1, <1>2, <1>9, <1>11, <1>15, Typed DEF TypeInv, Files
    <2>2. Order' /\ Numbered'
      BY <1>1, <1>2 DEF Order, Numbered
    <2>3. ASSUME NEW t \in Owed, ~log[t].inline
          PROVE  Holds(f, Ref(t))
      <3>1. Ref(t) \in spool.ranges /\ Ref(t) \in Rng /\ Holds(seen.file, Ref(t))
        BY <1>1, <1>16, <1>17, <2>3, Records DEF Live, Kept
      <3>2. QED
        BY <1>12, <1>14, <3>1
    <2>4. Kept'
      BY <1>1, <1>2, <1>11, <1>16, <2>3 DEF Kept
    <2>5. seen'.file # <<>>
      BY <1>7, <1>8, <1>9, <1>11, EmptySeq
    <2>6. IndexBacked'
      BY <1>1, <1>2, <1>11, <2>5 DEF IndexBacked
    <2>7. QED
      BY <2>1, <2>2, <2>4, <2>6 DEF Stored
  <1>19. ~Appending' /\ ~Discarding' /\ ~Serving'
    BY <1>2 DEF Appending, Discarding, Serving, Steps
  <1>20. TaskInv'
    BY <1>2 DEF TaskInv
  <1>21. Marks'
    BY <1>1, <1>2 DEF Marks
  <1>22. Removable'
    BY <1>2 DEF Removable
  <1>23. Sized'
    <2>1. \A r \in spool'.ranges : Holds(seen'.file, r)
      BY <1>4, <1>11, <1>12, <1>13, <1>14, <1>15
    <2>2. spool'.started => seen'.index.there
      BY <1>1, <1>2, <1>11, <1>15 DEF Sized, Up
    <2>3. QED
      BY <1>9, <1>11, <1>15, <2>1, <2>2 DEF Sized
  <1>24. Live'
    BY <1>1, <1>2, <1>15, <1>16, <1>17, <1>19 DEF Live
  <1>25. Synced'
    BY <1>2, <1>19 DEF Synced
  <1>26. Cleared'
    BY <1>15 DEF Cleared
  <1>27. Open'
    BY <1>2, <1>3, <1>19 DEF Open
  <1>28. InProgress'
    BY <1>2, <1>19 DEF InProgress, Steps
  <1>29. Origin'
    <2>1. OfRecord(Ref(s))
      BY <1>4, <1>6, <1>7 DEF OfRecord
    <2>2. \A r \in spool'.ranges : OfRecord(r)
      BY <1>1, <1>3, <1>15, <1>17, <2>1 DEF Origin, OfBuffered
    <2>3. \A r \in spool'.ranges : OfRecord(r)'
      BY <1>2, <2>2 DEF OfRecord, Ref
    <2>4. QED
      BY <2>3 DEF Origin
  <1>30. Retired'
    BY <1>2 DEF Retired, Steps
  <1>31. IndexSteps'
    BY <1>2 DEF IndexSteps
  <1>33. QED
    BY <1>18, <1>20, <1>21, <1>22, <1>23, <1>24, <1>25, <1>26, <1>27, <1>28, <1>29, <1>30,
       <1>31 DEF IInv, Running

---------------------------------------------------------------------------
(* The cells of the file.                                                  *)

\* A torn cell is of the same write.
LEMMA TornSame ==
    ASSUME NEW c \in Int
    PROVE  /\ Torn(c) \in Int /\ WriteOf(Torn(c)) = WriteOf(c) /\ (Torn(c) = Gap <=> c = Gap)
           /\ WriteOf(c) \in Nat /\ (c # Gap => WriteOf(c) >= 1)
           /\ (c \in Nat => WriteOf(c) = c)
  BY DEF Torn, WriteOf, Gap

\* A cell that survives a power loss is of the write that one of the two
\* versions has there.
LEMMA SurvivorCells ==
    ASSUME NEW old \in Seq(Int), NEW new \in Seq(Int), NEW f \in Survivors(old, new)
    PROVE  /\ f \in Seq(Int) /\ (Len(f) >= Len(old) \/ Len(f) >= Len(new))
           /\ \A i \in DOMAIN f :
                \/ /\ i \in DOMAIN old /\ WriteOf(f[i]) = WriteOf(old[i])
                   /\ f[i] = Gap <=> old[i] = Gap
                \/ /\ i \in DOMAIN new /\ WriteOf(f[i]) = WriteOf(new[i])
                   /\ f[i] = Gap <=> new[i] = Gap
  <1> DEFINE lo == IF Len(old) <= Len(new) THEN Len(old) ELSE Len(new)
             hi == IF Len(old) >= Len(new) THEN Len(old) ELSE Len(new)
             C(i) == IF i > Len(old) THEN {new[i], Torn(new[i])}
                     ELSE IF i > Len(new) THEN {old[i]} ELSE {old[i], new[i]}
  <1>1. Len(old) \in Nat /\ Len(new) \in Nat
    OBVIOUS
  <1>2. Min({Len(old), Len(new)}) = lo /\ Max({Len(old), Len(new)}) = hi
    BY <1>1, MinOfTwo, MaxOfTwo
  <1>3. PICK n \in lo .. hi : /\ f \in [1 .. n -> -MaxWrites .. MaxWrites]
                              /\ \A i \in 1 .. n : f[i] \in C(i)
    BY <1>2 DEF Survivors
  <1>4. n \in Nat /\ lo <= n /\ n <= hi
    BY <1>1
  <1>5. f \in Seq(Int) /\ Len(f) = n /\ DOMAIN f = 1 .. n
    <2>1. f \in Seq(Int)
      BY SurvivorFacts
    <2>2. DOMAIN f = 1 .. n
      BY <1>3
    <2>3. QED
      BY <1>4, <2>1, <2>2, LenProperties
  <1>6. ASSUME NEW i \in 1 .. n
        PROVE  \/ /\ i \in DOMAIN old /\ WriteOf(f[i]) = WriteOf(old[i])
                  /\ f[i] = Gap <=> old[i] = Gap
               \/ /\ i \in DOMAIN new /\ WriteOf(f[i]) = WriteOf(new[i])
                  /\ f[i] = Gap <=> new[i] = Gap
    <2>1. f[i] \in C(i) /\ i \in Nat /\ i >= 1 /\ i <= hi
      BY <1>1, <1>3, <1>4
    <2>2. DOMAIN old = 1 .. Len(old) /\ DOMAIN new = 1 .. Len(new)
      OBVIOUS
    <2>3. CASE i > Len(old)
      <3>1. i \in DOMAIN new
        BY <1>1, <2>1, <2>2, <2>3
      <3>2. new[i] \in Int
        BY <3>1, <2>2, ElementOfSeq
      <3>3. f[i] = new[i] \/ f[i] = Torn(new[i])
        BY <2>1, <2>3
      <3>4. QED
        BY <3>1, <3>2, <3>3, TornSame
    <2>4. CASE ~(i > Len(old)) /\ i > Len(new)
      BY <1>1, <2>1, <2>2, <2>4
    <2>5. CASE ~(i > Len(old)) /\ ~(i > Len(new))
      BY <1>1, <2>1, <2>2, <2>5
    <2>6. QED
      BY <2>3, <2>4, <2>5
  <1>7. Len(f) >= Len(old) \/ Len(f) >= Len(new)
    BY <1>1, <1>4, <1>5
  <1>8. QED
    BY <1>5, <1>6, <1>7

\* The range of the write in progress, in its cell.
LEMMA InProgressCell ==
    ASSUME IInv, Appending
    PROVE  /\ Serving /\ Up /\ spool.next = Len(seen.file) /\ Len(seen.file) \in Nat
           /\ Len(seen.file) >= 1 /\ seen.file[Len(seen.file)] = writes
           /\ \A s \in DOMAIN log : log[s].id < writes
  <1>1. TypeInv /\ Sized /\ InProgress
    BY DEF IInv, Stored, Running
  <1>2. Serving /\ Up
    BY DEF Serving, Up, Appending, Steps
  <1>3. Current \in spool.ranges /\ Current.off = spool.next /\ Current.id = writes
    BY <1>1 DEF InProgress, Current
  <1>4. spool.next = Len(seen.file) /\ Holds(seen.file, Current) /\ Len(seen.file) \in Nat
    BY <1>1, <1>2, <1>3, Typed DEF Sized
  <1>5. Current \in Rng
    BY <1>1, <1>3, Typed
  <1>6. Current.off >= 1
    BY <1>5, Fields
  <1>7. QED
    BY <1>1, <1>2, <1>3, <1>4, <1>6 DEF Holds, InProgress

\* A step that moves no cell: at most it flushes the file or settles its
\* removal, drops the buffer, or ends an append.
LEMMA CellsRest ==
    ASSUME IInv, IInv', Cells, seen'.file = seen.file, UNCHANGED <<log, cleaned, writes>>,
           buffered' = buffered \/ buffered' = <<>>,
           \/ stable'.file = stable.file /\ ("file" \in gone' <=> "file" \in gone)
           \/ /\ stable'.file = IF "file" \in gone THEN <<>> ELSE stable.file
              /\ "file" \notin gone'
           \/ stable'.file = seen.file /\ "file" \notin gone',
           Appending' => Appending /\ spool'.next = spool.next,
           Afresh', RefusedOnlyIfUnaccepted'
    PROVE  Cells'
  <1>1. /\ Placed(seen.file) /\ Placed(stable.file) /\ Ascending /\ Tails /\ Afresh
        /\ Vanished /\ RefusedOnlyIfUnaccepted
    BY DEF Cells
  <1>2. TypeInv /\ TypeInv'
    BY DEF IInv, Stored
  <1>3. /\ seen.file \in Seq(Int) /\ stable.file \in Seq(Int) /\ stable'.file \in Seq(Int)
        /\ DOMAIN seen.file = 1 .. Len(seen.file) /\ DOMAIN stable.file = 1 .. Len(stable.file)
        /\ Len(seen.file) \in Nat /\ Len(stable.file) \in Nat
        /\ <<>> \in Seq(Int) /\ DOMAIN <<>> = {} /\ Len(<<>>) = 0
    <2>1. <<>> \in Seq(Int) /\ DOMAIN <<>> = {} /\ Len(<<>>) = 0
      BY EmptySeq, Fields
    <2>2. seen.file \in Seq(Int) /\ stable.file \in Seq(Int)
      BY <1>2, Typed
    <2>3. stable'.file \in Seq(Int)
      BY <2>1, <2>2
    <2>4. QED
      BY <2>1, <2>2, <2>3
  <1>4. stable'.file \in {stable.file, seen.file, <<>>}
    OBVIOUS
  <1>5. \A j \in DOMAIN buffered' : j \in DOMAIN buffered /\ buffered'[j] = buffered[j]
    BY <1>3
  <1>6. Placed(seen.file)'
    BY <1>1, <1>5 DEF Placed
  <1>7. Placed(stable.file)'
    <2>1. CASE stable'.file = stable.file
      BY <1>1, <1>5, <2>1 DEF Placed
    <2>2. CASE stable'.file = seen.file
      BY <1>1, <1>5, <2>2 DEF Placed
    <2>3. CASE stable'.file = <<>>
      BY <1>3, <2>3 DEF Placed
    <2>4. QED
      BY <1>4, <2>1, <2>2, <2>3
  <1>8. Ascending'
    BY <1>1, <1>5 DEF Ascending
  <1>9. \A c : NotCleaned(c)' <=> NotCleaned(c)
    BY DEF NotCleaned, IsOf
  <1>10. Tails'
    <2>1. CASE stable'.file = stable.file /\ ("file" \in gone' <=> "file" \in gone)
      BY <1>1, <2>1 DEF Tails, Fresh, Ends, NotCleaned, IsOf
    <2>2. CASE /\ stable'.file = IF "file" \in gone THEN <<>> ELSE stable.file
               /\ "file" \notin gone'
      <3>1. CASE "file" \notin gone
        BY <1>1, <2>2, <3>1 DEF Tails, Fresh, Ends, NotCleaned, IsOf
      <3>2. CASE "file" \in gone
        BY <1>1, <1>3, <2>2, <3>2 DEF Tails, Fresh, Ends, NotCleaned, IsOf
      <3>3. QED
        BY <3>1, <3>2
    <2>3. CASE stable'.file = seen.file /\ "file" \notin gone'
      <3>1. \A i \in DOMAIN seen.file : i >= Len(seen.file) => NotCleaned(seen.file[i])
        BY <1>1 DEF Tails, Fresh, Ends
      <3>2. QED
        BY <2>3, <3>1 DEF Tails, Ends, NotCleaned, IsOf
    <2>4. QED
      BY <2>1, <2>2, <2>3
  <1>11. Vanished'
    <2> SUFFICES ASSUME seen'.file = <<>> \/ (Appending' /\ Len(seen'.file) = 1),
                        "file" \notin gone'
                 PROVE  Foreign(stable.file)'
      BY DEF Vanished
    <2>1. CASE stable'.file = <<>>
      BY <1>3, <2>1 DEF Foreign
    <2>2. CASE stable'.file = stable.file /\ "file" \notin gone
      BY <1>1, <2>2 DEF Vanished, Foreign, IsOf
    <2>3. CASE stable'.file = seen.file /\ seen.file # <<>>
      <3>1. Appending /\ Len(seen.file) = 1
        BY <2>3
      <3>2. seen.file[1] = writes /\ \A s \in DOMAIN log : log[s].id < writes
        BY <3>1, InProgressCell
      <3>3. writes \in Nat /\ \A s \in DOMAIN log : log[s].id \in Nat
        BY <1>2, Typed, Records, Fields
      <3>4. WriteOf(seen.file[1]) = writes
        BY <3>2, <3>3 DEF WriteOf
      <3>5. \A i \in DOMAIN stable'.file : stable'.file[i] = seen.file[1]
        BY <1>3, <2>3, <3>1
      <3>6. \A s \in DOMAIN log : log[s].id # WriteOf(seen.file[1])
        BY <3>2, <3>3, <3>4
      <3>7. QED
        BY <3>5, <3>6 DEF Foreign, IsOf
    <2>4. QED
      BY <1>4, <2>1, <2>2, <2>3
  <1>12. QED
    BY <1>6, <1>7, <1>8, <1>10, <1>11 DEF Cells

\* Such a step, of a host that does not begin to serve and does not refuse.
LEMMA CellsStay ==
    ASSUME IInv, IInv', Cells, seen'.file = seen.file, UNCHANGED <<log, cleaned, writes>>,
           buffered' = buffered \/ buffered' = <<>>,
           \/ stable'.file = stable.file /\ ("file" \in gone' <=> "file" \in gone)
           \/ /\ stable'.file = IF "file" \in gone THEN <<>> ELSE stable.file
              /\ "file" \notin gone'
           \/ stable'.file = seen.file /\ "file" \notin gone',
           Appending' => Appending /\ spool'.next = spool.next,
           Serving' => Serving /\ durable' = durable,
           pc' = "refused" => pc = "refused" /\ seen' = seen
    PROVE  Cells'
  <1>1. Afresh /\ RefusedOnlyIfUnaccepted
    BY DEF Cells
  <1>2. Afresh'
    <2>1. DOMAIN <<>> = {}
      BY EmptySeq
    <2>2. QED
      BY <1>1, <2>1 DEF Afresh, Fresh, NotCleaned, IsOf
  <1>3. RefusedOnlyIfUnaccepted'
    BY <1>1 DEF RefusedOnlyIfUnaccepted, Ref
  <1>4. QED
    BY <1>2, <1>3, CellsRest

\* Steps that leave the cells where they are.
LEMMA QuietSteps ==
    ASSUME IInv, IInv', Cells,
           \/ AcceptMutationJournal \/ Drain \/ CommitApfs \/ CommitFails
           \/ FinalizeMutationJournal \/ RecordFails
           \/ CleanupThroughSequence \/ DiscardSequence \/ RemovalFails
           \/ RebuildIndexFromReferences \/ Replay \/ ReplayFails \/ Kill
           \/ UNCHANGED vars
    PROVE  Cells'
  <1>1. TaskInv
    BY DEF IInv, Running
  <1>2. /\ UNCHANGED <<seen, stable, gone, log, cleaned, durable, writes>>
        /\ buffered' = buffered \/ buffered' = <<>>
    BY DEF AcceptMutationJournal, Drain, CommitApfs, CommitFails, FinalizeMutationJournal,
           RecordFails, CleanupThroughSequence, DiscardSequence, RemovalFails,
           RebuildIndexFromReferences, Replay, ReplayFails, Kill, Lose, files, journal, vars
  <1>3. CASE UNCHANGED vars
    BY <1>2, <1>3, CellsStay DEF vars, control, Appending, Serving, Discarding, Steps
  <1>4. CASE AcceptMutationJournal \/ Drain
    <2>1. ~Appending' /\ pc' # "refused" /\ Serving
      BY <1>4 DEF AcceptMutationJournal, Drain, Accepting, Goto, Appending, Steps, AppendTask, Serving
    <2>2. QED
      BY <1>2, <2>1, CellsStay
  <1>5. CASE CommitApfs \/ CommitFails \/ FinalizeMutationJournal
    <2>1. ~Appending' /\ pc' # "refused" /\ (Serving' => Serving)
      BY <1>1, <1>5 DEF CommitApfs, CommitFails, FinalizeMutationJournal, Block, Goto, TaskInv,
         Appending, Discarding, Steps, AppendTask, Serving
    <2>2. QED
      BY <1>2, <2>1, CellsStay
  <1>6. CASE RecordFails \/ DiscardSequence \/ CleanupThroughSequence
    <2>1. ~Appending' /\ pc' # "refused" /\ (Serving' => Serving)
      BY <1>1, <1>6 DEF RecordFails, DiscardSequence, CleanupThroughSequence, Keep, Goto, TaskInv,
         Appending, Discarding, Steps, AppendTask, Serving
    <2>2. QED
      BY <1>2, <2>1, CellsStay
  <1>7. CASE RemovalFails \/ ReplayFails \/ Kill \/ RebuildIndexFromReferences \/ Replay
    <2>1. ~Appending' /\ pc' # "refused" /\ ~Serving'
      BY <1>7 DEF RemovalFails, ReplayFails, Kill, Lose, RebuildIndexFromReferences, Replay, Block,
         Goto, Appending, Discarding, Steps, AppendTask, Serving
    <2>2. QED
      BY <1>2, <2>1, CellsStay
  <1>8. QED
    BY <1>3, <1>4, <1>5, <1>6, <1>7

\* Steps that flush, the journal, the file or the index, or remove the index.
LEMMA FlushSteps ==
    ASSUME IInv, IInv', Cells,
           \/ FlushPayloadBytes \/ PersistIndex \/ FlushFrame \/ FlushRestored \/ UnlinkIndex
           \/ MarkApfsDurableThrough \/ MarkFails \/ MarkVerifiedPrefix
    PROVE  Cells'
  <1>1. TaskInv /\ TypeInv
    BY DEF IInv, Running, Stored
  <1>2. /\ seen'.file = seen.file /\ UNCHANGED <<log, cleaned, writes, buffered>>
    BY <1>1, Typed DEF FlushPayloadBytes, PersistIndex, FlushFrame, FlushRestored, UnlinkIndex,
       MarkApfsDurableThrough, MarkFails, MarkVerifiedPrefix, files, journal
  <1>3. \/ stable'.file = stable.file /\ ("file" \in gone' <=> "file" \in gone)
        \/ /\ stable'.file = IF "file" \in gone THEN <<>> ELSE stable.file
           /\ "file" \notin gone'
        \/ stable'.file = seen.file /\ "file" \notin gone'
    <2>1. FlushLog => /\ stable'.file = IF "file" \in gone THEN <<>> ELSE stable.file
                      /\ "file" \notin gone'
      BY DEF FlushLog, Settled
    <2>2. FlushFile => stable'.file = seen.file /\ "file" \notin gone'
      BY DEF FlushFile, Settled
    <2>3. \A x : FlushIndex(x) => /\ stable'.file = IF "file" \in gone THEN <<>> ELSE stable.file
                                  /\ "file" \notin gone'
      BY DEF FlushIndex, Settled
    <2>4. CASE FlushPayloadBytes \/ FlushRestored
      BY <2>2, <2>4 DEF FlushPayloadBytes, FlushRestored, files
    <2>5. CASE PersistIndex \/ FlushFrame
      BY <2>3, <2>5 DEF PersistIndex, FlushFrame, files
    <2>6. CASE UnlinkIndex
      BY <2>6 DEF UnlinkIndex
    <2>7. CASE MarkApfsDurableThrough \/ MarkFails \/ MarkVerifiedPrefix
      BY <2>1, <2>7 DEF MarkApfsDurableThrough, MarkFails, MarkVerifiedPrefix
    <2>8. QED
      BY <2>4, <2>5, <2>6, <2>7
  <1>4. CASE FlushPayloadBytes
    <2>1. /\ pc' # "refused" /\ (Serving' => Serving) /\ (Appending' => Appending)
          /\ durable' = durable /\ spool'.next = spool.next
      BY <1>1, <1>4 DEF FlushPayloadBytes, PayloadOnly, Served, Goto, TaskInv, journal, TypeInv, Memory,
         Appending, Discarding, Steps, AppendTask, Serving
    <2>2. QED
      BY <1>2, <1>3, <2>1, CellsStay
  <1>5. CASE PersistIndex \/ FlushFrame
    <2>1. pc \in {"index", "frame"} /\ durable' = durable /\ task' = task
          /\ pc' \in {"frame", Served(task)}
      BY <1>5 DEF PersistIndex, FlushFrame, Goto, journal
    <2>2. spool'.next = spool.next
      BY <1>1, <1>5 DEF PersistIndex, FlushFrame, Indexed, TypeInv, Memory
    <2>3. /\ pc' # "refused" /\ (Serving' => Serving) /\ (Appending' => Appending)
      BY <1>1, <2>1 DEF Served, TaskInv, Appending, Discarding, Steps, AppendTask, Serving
    <2>4. QED
      BY <1>2, <1>3, <2>1, <2>2, <2>3, CellsStay
  <1>6. CASE FlushRestored \/ UnlinkIndex \/ MarkApfsDurableThrough \/ MarkFails \/ MarkVerifiedPrefix
    <2>1. pc' # "refused" /\ ~Serving' /\ ~Appending'
      BY <1>1, <1>6 DEF FlushRestored, UnlinkIndex, MarkApfsDurableThrough, MarkFails, MarkVerifiedPrefix,
         Block, Goto, Appending, Discarding, Steps, AppendTask, Serving
    <2>2. QED
      BY <1>2, <1>3, <2>1, CellsStay
  <1>7. QED
    BY <1>4, <1>5, <1>6


\* What the steps below use of both invariants.
LEMMA FileFacts ==
    ASSUME IInv, Cells
    PROVE  /\ TypeInv /\ Order /\ Numbered
           /\ seen.file \in Seq(Int) /\ stable.file \in Seq(Int)
           /\ Len(seen.file) \in Nat /\ DOMAIN seen.file = 1 .. Len(seen.file)
           /\ Len(stable.file) \in Nat /\ DOMAIN stable.file = 1 .. Len(stable.file)
           /\ \A i \in DOMAIN seen.file : seen.file[i] \in Int /\ WriteOf(seen.file[i]) \in Nat
           /\ \A i \in DOMAIN stable.file : stable.file[i] \in Int /\ WriteOf(stable.file[i]) \in Nat
           /\ Len(log) \in Nat /\ DOMAIN log = 1 .. Len(log)
           /\ writes \in Nat /\ cleaned \in Nat /\ durable \in Nat /\ published \in Nat
           /\ cleaned <= durable /\ durable <= published /\ published <= Len(log)
           /\ \A s \in DOMAIN log : log[s].id \in Nat /\ log[s].off \in Nat /\ log[s].off >= 1
           /\ \A s \in DOMAIN log : log[s].id <= writes
           /\ DOMAIN <<>> = {} /\ Len(<<>>) = 0 /\ <<>> \in Seq(Int)
           /\ Placed(seen.file) /\ Placed(stable.file) /\ Ascending /\ Tails /\ Afresh
           /\ Vanished
  <1>1. TypeInv /\ Order /\ Numbered
    BY DEF IInv, Stored
  <1>2. seen.file \in Seq(Int) /\ stable.file \in Seq(Int)
    BY <1>1, Typed
  <1>3. /\ \A i \in DOMAIN seen.file : seen.file[i] \in Int
        /\ \A i \in DOMAIN stable.file : stable.file[i] \in Int
    BY <1>2, ElementOfSeq
  <1>4. /\ \A i \in DOMAIN seen.file : WriteOf(seen.file[i]) \in Nat
        /\ \A i \in DOMAIN stable.file : WriteOf(stable.file[i]) \in Nat
    BY <1>3, TornSame
  <1>5. \A s \in DOMAIN log : log[s].id \in Nat /\ log[s].off \in Nat /\ log[s].off >= 1
    BY <1>1, Typed, Records, Fields
  <1>6. DOMAIN <<>> = {} /\ Len(<<>>) = 0 /\ <<>> \in Seq(Int)
    BY EmptySeq, Fields
  <1>7. /\ Len(log) \in Nat /\ DOMAIN log = 1 .. Len(log)
        /\ writes \in Nat /\ cleaned \in Nat /\ durable \in Nat /\ published \in Nat
    BY <1>1, Typed
  <1>8. QED
    BY <1>1, <1>2, <1>3, <1>4, <1>5, <1>6, <1>7 DEF Cells, Order, Numbered

\* A write puts its bytes, or part of them, at the end of the file.
LEMMA CellAdded ==
    ASSUME IInv, Cells, pc = "serve", writes' = writes + 1, seen'.file \in Seq(Int),
           Len(seen.file) <= Len(seen'.file),
           \A i \in 1 .. Len(seen'.file) :
              \/ i \in 1 .. Len(seen.file) /\ seen'.file[i] = seen.file[i]
              \/ i = Len(seen.file) + 1 /\ WriteOf(seen'.file[i]) = writes + 1,
           UNCHANGED <<log, cleaned, stable, gone>>, buffered' = buffered \/ buffered' = <<>>,
           Appending' => spool'.next = Len(seen.file) + 1 /\ Len(seen'.file) = Len(seen.file) + 1,
           pc' # "refused",
           Serving' => durable' = durable
    PROVE  Cells'
  <1>1. /\ TypeInv /\ Order /\ Numbered
        /\ seen.file \in Seq(Int) /\ stable.file \in Seq(Int)
        /\ Len(seen.file) \in Nat /\ DOMAIN seen.file = 1 .. Len(seen.file)
        /\ Len(stable.file) \in Nat /\ DOMAIN stable.file = 1 .. Len(stable.file)
        /\ \A i \in DOMAIN seen.file : seen.file[i] \in Int /\ WriteOf(seen.file[i]) \in Nat
        /\ \A i \in DOMAIN stable.file : stable.file[i] \in Int /\ WriteOf(stable.file[i]) \in Nat
        /\ Len(log) \in Nat /\ DOMAIN log = 1 .. Len(log)
        /\ writes \in Nat /\ cleaned \in Nat /\ cleaned <= Len(log)
        /\ \A s \in DOMAIN log : log[s].id \in Nat /\ log[s].id <= writes
        /\ Placed(seen.file) /\ Placed(stable.file) /\ Ascending /\ Tails /\ Afresh
        /\ Vanished
    BY FileFacts
  <1>2. /\ Len(seen'.file) \in Nat /\ DOMAIN seen'.file = 1 .. Len(seen'.file)
        /\ DOMAIN <<>> = {}
    BY EmptySeq
  <1>3. \A j \in DOMAIN buffered' : /\ j \in DOMAIN buffered /\ buffered'[j] = buffered[j]
                                    /\ buffered[j].id \in Nat /\ buffered[j].id <= writes
    <2>1. \A j \in DOMAIN buffered : buffered[j].id \in Nat /\ buffered[j].id <= writes
      BY <1>1, Typed, Records, Fields DEF IInv, Running, Open
    <2>2. QED
      BY <1>2, <2>1
  <1>4. Placed(seen.file)'
    <2> SUFFICES ASSUME NEW i \in 1 .. Len(seen'.file), seen'.file[i] # Gap
                 PROVE  /\ WriteOf(seen'.file[i]) <= writes'
                        /\ \A s \in DOMAIN log : log[s].id = WriteOf(seen'.file[i]) => log[s].off = i
                        /\ \A j \in DOMAIN buffered' :
                              buffered'[j].id = WriteOf(seen'.file[i]) => buffered'[j].off = i
                        /\ Appending' /\ WriteOf(seen'.file[i]) = writes' => i = spool'.next
      BY <1>2 DEF Placed
    <2>1. CASE i \in 1 .. Len(seen.file) /\ seen'.file[i] = seen.file[i]
      <3>1. /\ WriteOf(seen.file[i]) \in Nat /\ WriteOf(seen.file[i]) <= writes
            /\ \A s \in DOMAIN log : log[s].id = WriteOf(seen.file[i]) => log[s].off = i
            /\ \A j \in DOMAIN buffered : buffered[j].id = WriteOf(seen.file[i]) => buffered[j].off = i
        BY <1>1, <2>1 DEF Placed
      <3>2. QED
        BY <1>1, <1>3, <2>1, <3>1
    <2>2. CASE i = Len(seen.file) + 1 /\ WriteOf(seen'.file[i]) = writes + 1
      BY <1>1, <1>3, <2>2
    <2>3. QED
      BY <2>1, <2>2
  <1>5. Placed(stable.file)'
    <2> SUFFICES ASSUME NEW i \in DOMAIN stable.file, stable.file[i] # Gap
                 PROVE  /\ WriteOf(stable.file[i]) <= writes'
                        /\ \A s \in DOMAIN log : log[s].id = WriteOf(stable.file[i]) => log[s].off = i
                        /\ \A j \in DOMAIN buffered' :
                              buffered'[j].id = WriteOf(stable.file[i]) => buffered'[j].off = i
                        /\ WriteOf(stable.file[i]) # writes'
      BY DEF Placed
    <2>1. /\ WriteOf(stable.file[i]) \in Nat /\ WriteOf(stable.file[i]) <= writes
          /\ \A s \in DOMAIN log : log[s].id = WriteOf(stable.file[i]) => log[s].off = i
          /\ \A j \in DOMAIN buffered : buffered[j].id = WriteOf(stable.file[i]) => buffered[j].off = i
      BY <1>1 DEF Placed
    <2>2. QED
      BY <1>1, <1>3, <2>1
  <1>6. Ascending'
    BY <1>1, <1>3 DEF Ascending
  <1>7. Serving /\ Fresh(seen.file) /\ ("file" \notin gone => Fresh(stable.file)) /\ cleaned = durable
    BY <1>1 DEF Afresh, Serving
  <1>8. \A i \in 1 .. Len(seen'.file) : NotCleaned(seen'.file[i])
    <2> SUFFICES ASSUME NEW i \in 1 .. Len(seen'.file)
                 PROVE  NotCleaned(seen'.file[i])
      OBVIOUS
    <2>1. CASE i \in 1 .. Len(seen.file) /\ seen'.file[i] = seen.file[i]
      BY <1>1, <1>7, <2>1 DEF Fresh
    <2>2. CASE i = Len(seen.file) + 1 /\ WriteOf(seen'.file[i]) = writes + 1
      <3>1. \A s \in 1 .. cleaned : log[s].id \in Nat /\ log[s].id <= writes
        BY <1>1
      <3>2. QED
        BY <1>1, <2>2, <3>1 DEF NotCleaned, IsOf
    <2>3. QED
      BY <2>1, <2>2
  <1>9. Fresh(seen.file)' /\ ("file" \notin gone => Fresh(stable.file)')
    BY <1>2, <1>7, <1>8 DEF Fresh, NotCleaned, IsOf
  <1>10. Tails'
    <2>1. CASE "file" \in gone
      <3>1. Ends(stable.file, stable.file)
        BY <1>1, <2>1 DEF Tails
      <3>2. Ends(stable.file, stable.file)'
        BY <3>1 DEF Ends, NotCleaned, IsOf
      <3>3. QED
        BY <1>9, <2>1, <3>2 DEF Tails
    <2>2. CASE "file" \notin gone
      BY <1>9, <2>2 DEF Tails, Ends, Fresh
    <2>3. QED
      BY <2>1, <2>2
  <1>11. Afresh'
    BY <1>7, <1>9 DEF Afresh
  <1>12. Vanished'
    <2> SUFFICES ASSUME seen'.file = <<>> \/ (Appending' /\ Len(seen'.file) = 1), "file" \notin gone
                 PROVE  Foreign(stable.file)'
      BY DEF Vanished
    <2>1. seen.file = <<>>
      <3>1. CASE seen'.file = <<>>
        <4>1. Len(seen'.file) = 0
          BY <3>1, EmptySeq
        <4>2. Len(seen.file) = 0
          BY <1>1, <4>1
        <4>3. QED
          BY <1>1, <4>2, EmptySeq
      <3>2. CASE Appending' /\ Len(seen'.file) = 1
        <4>1. Len(seen.file) = 0
          BY <1>1, <3>2
        <4>2. QED
          BY <1>1, <4>1, EmptySeq
      <3>3. QED
        BY <3>1, <3>2
    <2>2. Foreign(stable.file)
      BY <1>1, <2>1 DEF Vanished
    <2>3. QED
      BY <2>2 DEF Foreign, IsOf
  <1>13. RefusedOnlyIfUnaccepted'
    BY DEF RefusedOnlyIfUnaccepted
  <1>14. QED
    BY <1>4, <1>5, <1>6, <1>10, <1>11, <1>12, <1>13 DEF Cells

\* A write, whole or failed.
LEMMA WriteCells ==
    ASSUME IInv, Cells, WriteFails \/ \E inline \in BOOLEAN : Write(inline)
    PROVE  Cells'
  <1>1. /\ TypeInv /\ seen.file \in Seq(Int) /\ Len(seen.file) \in Nat /\ writes \in Nat
    BY FileFacts
  <1>2. CASE WriteFails
    <2>1. PICK left \in {<<>>, <<Torn(writes + 1)>>} : seen' = [seen EXCEPT !.file = @ \o left]
      BY <1>2 DEF WriteFails
    <2>2. /\ pc = "serve" /\ writes' = writes + 1 /\ buffered' = <<>> /\ pc' = "blocked"
          /\ UNCHANGED <<log, cleaned, stable, gone>>
      BY <1>2 DEF WriteFails, Block, Goto, journal
    <2>3. /\ Torn(writes + 1) \in Int /\ WriteOf(Torn(writes + 1)) = writes + 1
      <3>1. writes + 1 \in Int /\ writes + 1 \in Nat
        BY <1>1
      <3>2. QED
        BY <3>1, TornSame
    <2>4. left \in Seq(Int) /\ Len(left) \in {0, 1}
          /\ \A i \in 1 .. Len(left) : i = 1 /\ WriteOf(left[i]) = writes + 1
      <3>1. CASE left = <<>>
        BY <3>1, Fields
      <3>2. CASE left = <<Torn(writes + 1)>>
        BY <2>3, <3>2
      <3>3. QED
        BY <2>1, <3>1, <3>2
    <2>5. seen'.file = seen.file \o left
      BY <1>1, <2>1, Typed
    <2>6. /\ seen'.file \in Seq(Int) /\ Len(seen'.file) = Len(seen.file) + Len(left)
          /\ \A i \in 1 .. Len(seen.file) : seen'.file[i] = seen.file[i]
          /\ \A i \in 1 .. Len(left) : seen'.file[Len(seen.file) + i] = left[i]
      BY <1>1, <2>4, <2>5, ConcatProperties
    <2>7. ASSUME NEW i \in 1 .. Len(seen'.file)
          PROVE  \/ i \in 1 .. Len(seen.file) /\ seen'.file[i] = seen.file[i]
                 \/ i = Len(seen.file) + 1 /\ WriteOf(seen'.file[i]) = writes + 1
      <3>1. CASE i <= Len(seen.file)
        BY <1>1, <2>4, <2>6, <3>1
      <3>2. CASE i > Len(seen.file)
        <4>1. i = Len(seen.file) + 1 /\ 1 \in 1 .. Len(left)
          BY <1>1, <2>4, <2>6, <3>2
        <4>2. QED
          BY <2>4, <2>6, <4>1
      <3>3. QED
        BY <1>1, <2>4, <2>6, <3>1, <3>2
    <2>8. ~Appending' /\ ~Serving'
      BY <2>2 DEF Appending, Serving, Discarding, Steps
    <2>9. Len(seen.file) <= Len(seen'.file)
      BY <1>1, <2>4, <2>6
    <2>10. QED
      BY <2>2, <2>6, <2>7, <2>8, <2>9, CellAdded
  <1>3. ASSUME NEW inline \in BOOLEAN, Write(inline)
        PROVE  Cells'
    <2>1. /\ pc = "serve" /\ writes' = writes + 1 /\ buffered' = buffered /\ pc' # "refused"
          /\ durable' = durable /\ UNCHANGED <<log, cleaned, stable, gone>>
      BY <1>3 DEF Write, Goto, journal
    <2>2. seen'.file = Append(seen.file, writes + 1) /\ spool'.next = spool.next + 1
      BY <1>1, <1>3 DEF Write, TypeInv, Files, Memory
    <2>3. spool.next = Len(seen.file)
      BY <2>1 DEF IInv, Running, Sized, Up
    <2>4. /\ seen'.file \in Seq(Int) /\ Len(seen'.file) = Len(seen.file) + 1
          /\ \A i \in 1 .. Len(seen.file) : seen'.file[i] = seen.file[i]
          /\ seen'.file[Len(seen.file) + 1] = writes + 1
      <3>1. writes + 1 \in Int
        BY <1>1
      <3>2. QED
        BY <1>1, <2>2, <3>1, AppendProperties
    <2>5. WriteOf(writes + 1) = writes + 1
      BY <1>1 DEF WriteOf
    <2>6. \A i \in 1 .. Len(seen'.file) :
              \/ i \in 1 .. Len(seen.file) /\ seen'.file[i] = seen.file[i]
              \/ i = Len(seen.file) + 1 /\ WriteOf(seen'.file[i]) = writes + 1
      BY <1>1, <2>4, <2>5
    <2>7. Len(seen.file) <= Len(seen'.file)
      BY <1>1, <2>4
    <2>8. QED
      BY <2>1, <2>2, <2>3, <2>4, <2>6, <2>7, CellAdded
  <1>4. QED
    BY <1>2, <1>3

\* The write joins the open transaction: its number and its place are above
\* those of the records before it.
LEMMA RecordMutationCells ==
    ASSUME IInv, Cells, RecordMutation
    PROVE  Cells'
  <1>1. /\ TypeInv /\ Len(log) \in Nat /\ DOMAIN log = 1 .. Len(log)
        /\ writes \in Nat /\ cleaned \in Nat /\ durable \in Nat
        /\ \A s \in DOMAIN log : log[s].id \in Nat /\ log[s].off \in Nat
        /\ Placed(seen.file) /\ Placed(stable.file) /\ Ascending /\ Tails /\ Afresh
        /\ Vanished
    BY FileFacts
  <1>2. /\ pc = "record" /\ pc' = "serve" /\ UNCHANGED <<seen, stable, gone, spool, log, cleaned,
           durable, writes>>
        /\ buffered' = Append(buffered, [off |-> spool.next, id |-> writes,
                                         inline |-> task = "append inline"])
    BY DEF RecordMutation, Goto, files, journal
  <1>3. Appending /\ Serving /\ ~Appending'
    BY <1>2 DEF Appending, Serving, Steps
  <1>4. /\ buffered \in Seq(Rec) /\ Len(buffered) \in Nat /\ DOMAIN buffered = 1 .. Len(buffered)
        /\ spool.next \in Nat /\ spool.ranges \subseteq Rng
    BY <1>1, Typed
  <1>5. spool.next >= 1
    BY <1>3, InProgressCell
  <1>6. [off |-> spool.next, id |-> writes, inline |-> task = "append inline"] \in Rec
    <2>1. (task = "append inline") \in BOOLEAN
      OBVIOUS
    <2>2. QED
      BY <1>1, <1>4, <1>5, <2>1 DEF Rec
  <1>7. /\ DOMAIN buffered' = 1 .. Len(buffered) + 1
        /\ \A j \in 1 .. Len(buffered) : buffered'[j] = buffered[j]
        /\ buffered'[Len(buffered) + 1].off = spool.next
        /\ buffered'[Len(buffered) + 1].id = writes
    <2>1. PICK e \in Rec : /\ e = [off |-> spool.next, id |-> writes, inline |-> task = "append inline"]
                           /\ e.off = spool.next /\ e.id = writes
      BY <1>6
    <2>2. buffered' = Append(buffered, e)
      BY <1>2, <2>1
    <2>3. /\ buffered' \in Seq(Rec) /\ Len(buffered') = Len(buffered) + 1
          /\ \A j \in 1 .. Len(buffered) : buffered'[j] = buffered[j]
          /\ buffered'[Len(buffered) + 1] = e
      BY <1>4, <2>2, AppendProperties
    <2>4. DOMAIN buffered' = 1 .. Len(buffered')
      BY <2>3
    <2>5. QED
      BY <2>1, <2>3, <2>4
  <1>8. \A r \in spool.ranges : r.off < spool.next \/ r.id = writes
    BY <1>3 DEF IInv, Running, InProgress
  <1>9. \A s \in DOMAIN log : log[s].id < writes
    BY <1>3, InProgressCell
  <1>10. \A j \in 1 .. Len(buffered) : buffered[j].id < writes /\ buffered[j].off < spool.next
    <2> SUFFICES ASSUME NEW j \in 1 .. Len(buffered)
                 PROVE  buffered[j].id < writes /\ buffered[j].off < spool.next
      OBVIOUS
    <2>1. BRef(j) \in spool.ranges /\ buffered[j].id < writes
      BY <1>3, <1>4 DEF IInv, Running, Open
    <2>2. BRef(j).off = buffered[j].off /\ BRef(j).id = buffered[j].id /\ buffered[j].id \in Nat
      BY <1>1, Records, Fields
    <2>3. QED
      BY <1>1, <1>8, <2>1, <2>2
  <1>11. \A s \in cleaned + 1 .. Len(log) : log[s].off < spool.next
    <2> SUFFICES ASSUME NEW s \in cleaned + 1 .. Len(log)
                 PROVE  log[s].off < spool.next
      OBVIOUS
    <2>1. cleaned = durable /\ s \in 1 .. Len(log)
      BY <1>1, <1>3 DEF Afresh
    <2>2. Ref(s) \in spool.ranges
      BY <1>3, <2>1 DEF IInv, Running, Live, Owed
    <2>3. Ref(s).off = log[s].off /\ Ref(s).id = log[s].id /\ log[s].id < writes
      BY <1>1, <1>9, <2>1, Records
    <2>4. QED
      BY <1>1, <1>8, <2>1, <2>2, <2>3
  <1>12. \A j \in DOMAIN buffered' : j \in 1 .. Len(buffered) \/ j = Len(buffered) + 1
    BY <1>4, <1>7
  <1>13. Placed(seen.file)'
    <2> SUFFICES ASSUME NEW i \in DOMAIN seen.file, seen.file[i] # Gap
                 PROVE  /\ WriteOf(seen.file[i]) <= writes
                        /\ \A s \in DOMAIN log : log[s].id = WriteOf(seen.file[i]) => log[s].off = i
                        /\ \A j \in DOMAIN buffered' :
                              buffered'[j].id = WriteOf(seen.file[i]) => buffered'[j].off = i
      BY <1>2, <1>3 DEF Placed
    <2>1. /\ WriteOf(seen.file[i]) <= writes
          /\ \A s \in DOMAIN log : log[s].id = WriteOf(seen.file[i]) => log[s].off = i
          /\ \A j \in DOMAIN buffered : buffered[j].id = WriteOf(seen.file[i]) => buffered[j].off = i
          /\ WriteOf(seen.file[i]) = writes => i = spool.next
      BY <1>1, <1>3 DEF Placed
    <2>2. QED
      BY <1>4, <1>7, <1>12, <2>1
  <1>14. Placed(stable.file)'
    <2> SUFFICES ASSUME NEW i \in DOMAIN stable.file, stable.file[i] # Gap
                 PROVE  /\ WriteOf(stable.file[i]) <= writes
                        /\ \A s \in DOMAIN log : log[s].id = WriteOf(stable.file[i]) => log[s].off = i
                        /\ \A j \in DOMAIN buffered' :
                              buffered'[j].id = WriteOf(stable.file[i]) => buffered'[j].off = i
      BY <1>2, <1>3 DEF Placed
    <2>1. /\ WriteOf(stable.file[i]) <= writes
          /\ \A s \in DOMAIN log : log[s].id = WriteOf(stable.file[i]) => log[s].off = i
          /\ \A j \in DOMAIN buffered : buffered[j].id = WriteOf(stable.file[i]) => buffered[j].off = i
          /\ WriteOf(stable.file[i]) = writes => i = spool.next
      BY <1>1, <1>3 DEF Placed
    <2>2. QED
      BY <1>4, <1>7, <1>12, <2>1
  <1>15. Ascending'
    <2>1. \A i, j \in DOMAIN buffered' :
             i < j => buffered'[i].id < buffered'[j].id /\ buffered'[i].off < buffered'[j].off
      <3> SUFFICES ASSUME NEW i \in DOMAIN buffered', NEW j \in DOMAIN buffered', i < j
                   PROVE  buffered'[i].id < buffered'[j].id /\ buffered'[i].off < buffered'[j].off
        OBVIOUS
      <3>1. i \in 1 .. Len(buffered)
        BY <1>4, <1>7
      <3>2. CASE j \in 1 .. Len(buffered)
        BY <1>1, <1>4, <1>7, <3>1, <3>2 DEF Ascending
      <3>3. CASE j = Len(buffered) + 1
        BY <1>7, <1>10, <3>1, <3>3
      <3>4. QED
        BY <1>12, <3>2, <3>3
    <2>2. \A s \in DOMAIN log, i \in DOMAIN buffered' : log[s].id < buffered'[i].id
      BY <1>1, <1>4, <1>7, <1>9, <1>12 DEF Ascending
    <2>3. \A s \in cleaned + 1 .. Len(log), i \in DOMAIN buffered' : log[s].off < buffered'[i].off
      BY <1>1, <1>4, <1>7, <1>11, <1>12 DEF Ascending
    <2>4. /\ \A s, t \in DOMAIN log : s < t => log[s].id < log[t].id
          /\ \A s, t \in cleaned + 1 .. Len(log) : s < t => log[s].off < log[t].off
      BY <1>1 DEF Ascending
    <2>5. log' = log /\ cleaned' = cleaned
      BY <1>2
    <2>6. QED
      BY <2>1, <2>2, <2>3, <2>4, <2>5 DEF Ascending
  <1>16. Tails' /\ Afresh'
    BY <1>1, <1>2, <1>3 DEF Tails, Afresh, Fresh, Ends, NotCleaned, IsOf
  <1>17. Vanished'
    BY <1>1, <1>2, <1>3 DEF Vanished, Foreign, IsOf
  <1>18. RefusedOnlyIfUnaccepted'
    BY <1>2 DEF RefusedOnlyIfUnaccepted
  <1>19. QED
    BY <1>13, <1>14, <1>15, <1>16, <1>17, <1>18 DEF Cells

\* The failed append is cut off, or the flush of something else fails.
LEMMA FlushFailsCells ==
    ASSUME IInv, IInv', Cells, FlushFails
    PROVE  Cells'
  <1>1. /\ TypeInv /\ seen.file \in Seq(Int) /\ stable.file \in Seq(Int)
        /\ Len(seen.file) \in Nat /\ DOMAIN seen.file = 1 .. Len(seen.file)
        /\ Placed(seen.file) /\ Placed(stable.file) /\ Ascending /\ Tails /\ Afresh
        /\ Vanished
    BY FileFacts
  <1>2. /\ pc \in Steps /\ buffered' = <<>> /\ stable'.file = stable.file
        /\ UNCHANGED <<gone, spool, log, durable, cleaned, writes>>
        /\ pc' \in {"serve", "blocked"} /\ (pc' = "serve" => task = "final")
        /\ (task' = "none" /\ pc' # "refused")
    <2>1. stable'.file = stable.file
      BY FlushFailsStored
    <2>2. QED
      BY <2>1 DEF FlushFails, Block, Goto, Steps, journal
  <1>3. ~Appending' /\ (Serving' => Serving)
    BY <1>2 DEF Appending, Serving, Discarding, Steps, AppendTask
  <1>4. CASE seen'.file = seen.file
    BY <1>2, <1>3, <1>4, CellsStay
  <1>5. CASE seen'.file = Front(seen.file) /\ task \in AppendTask
    <2>1. Appending /\ Serving /\ ~Serving'
      BY <1>2, <1>5 DEF Appending, Serving, Discarding, Steps, AppendTask
    <2>2. Len(seen.file) >= 1
      BY <2>1, InProgressCell
    <2>3. /\ DOMAIN seen'.file = 1 .. Len(seen.file) - 1
          /\ \A i \in 1 .. Len(seen.file) - 1 : i \in DOMAIN seen.file /\ seen'.file[i] = seen.file[i]
          /\ seen'.file = <<>> => Len(seen.file) = 1
      <3>1. /\ seen'.file \in Seq(Int) /\ Len(seen'.file) = Len(seen.file) - 1
            /\ \A i \in 1 .. Len(seen.file) - 1 : seen'.file[i] = seen.file[i]
        BY <1>1, <1>5, <2>2, FrontFacts
      <3>2. seen'.file = <<>> => Len(seen.file) = 1
        <4>1. seen'.file = <<>> => Len(seen'.file) = 0
          BY EmptySeq
        <4>2. QED
          BY <1>1, <3>1, <4>1
      <3>3. DOMAIN seen'.file = 1 .. Len(seen'.file)
        BY <3>1
      <3>4. \A i \in 1 .. Len(seen.file) - 1 : i \in DOMAIN seen.file
        BY <1>1
      <3>5. QED
        BY <3>1, <3>2, <3>3, <3>4
    <2>4. DOMAIN buffered' = {}
      BY <1>2, EmptySeq
    <2>5. Placed(seen.file)'
      BY <1>1, <1>2, <1>3, <2>3, <2>4 DEF Placed
    <2>6. Placed(stable.file)'
      BY <1>1, <1>2, <1>3, <2>4 DEF Placed
    <2>7. Ascending'
      BY <1>1, <1>2, <2>4 DEF Ascending
    <2>8. Fresh(seen.file) /\ ("file" \notin gone => Fresh(stable.file))
      BY <1>1, <2>1 DEF Afresh
    <2>9. Fresh(seen.file)' /\ ("file" \notin gone => Fresh(stable.file)')
      BY <1>2, <2>3, <2>8 DEF Fresh, NotCleaned, IsOf
    <2>10. Tails'
      <3>1. CASE "file" \in gone
        <4>1. Ends(stable.file, stable.file)
          BY <1>1, <3>1 DEF Tails
        <4>2. Ends(stable.file, stable.file)'
          BY <1>2, <4>1 DEF Ends, NotCleaned, IsOf
        <4>3. QED
          BY <1>2, <2>9, <3>1, <4>2 DEF Tails
      <3>2. CASE "file" \notin gone
        BY <1>2, <2>9, <3>2 DEF Tails, Ends, Fresh
      <3>3. QED
        BY <3>1, <3>2
    <2>11. Afresh'
      BY <2>1 DEF Afresh
    <2>12. Vanished'
      BY <1>1, <1>2, <1>3, <2>1, <2>3 DEF Vanished, Foreign, IsOf
    <2>13. RefusedOnlyIfUnaccepted'
      BY <1>2 DEF RefusedOnlyIfUnaccepted
    <2>14. QED
      BY <2>5, <2>6, <2>7, <2>10, <2>11, <2>12, <2>13 DEF Cells
  <1>6. QED
    BY <1>4, <1>5, FlushFailsStored

\* The open transaction is accepted: its records follow the others, in numbers
\* and in places.
LEMMA AppendCells ==
    ASSUME IInv, Cells, pc = "log", log' = log \o buffered, FlushLog, buffered' = <<>>,
           UNCHANGED <<seen, spool, durable, cleaned, published, writes>>,
           ~Appending', pc' # "refused"
    PROVE  Cells'
  <1>1. /\ TypeInv /\ seen.file \in Seq(Int) /\ stable.file \in Seq(Int)
        /\ Len(seen.file) \in Nat /\ DOMAIN seen.file = 1 .. Len(seen.file)
        /\ Len(log) \in Nat /\ DOMAIN log = 1 .. Len(log)
        /\ cleaned \in Nat /\ cleaned <= durable /\ durable <= published /\ published <= Len(log)
        /\ durable \in Nat /\ published \in Nat
        /\ DOMAIN <<>> = {} /\ Len(<<>>) = 0
        /\ Placed(seen.file) /\ Placed(stable.file) /\ Ascending /\ Tails /\ Afresh
        /\ Vanished
    BY FileFacts
  <1>2. /\ Len(log') = Len(log) + Len(buffered)
        /\ \A s \in 1 .. Len(log) : log'[s] = log[s]
        /\ \A i \in 1 .. Len(buffered) : log'[Len(log) + i] = buffered[i]
    BY AppendStored
  <1>3. /\ log \in Seq(Rec) /\ buffered \in Seq(Rec) /\ Len(buffered) \in Nat
        /\ DOMAIN buffered = 1 .. Len(buffered) /\ DOMAIN buffered' = {}
    BY <1>1, Typed, EmptySeq
  <1>4. DOMAIN log' = 1 .. Len(log) + Len(buffered)
    <2>1. log' \in Seq(Rec)
      BY <1>3, ConcatProperties
    <2>2. DOMAIN log' = 1 .. Len(log')
      BY <2>1
    <2>3. QED
      BY <1>2, <2>2
  <1>5. \A s \in DOMAIN log' :
           \/ s \in 1 .. Len(log) /\ log'[s] = log[s]
           \/ \E i \in 1 .. Len(buffered) : s = Len(log) + i /\ log'[s] = buffered[i]
    <2> SUFFICES ASSUME NEW s \in 1 .. Len(log) + Len(buffered)
                 PROVE  \/ s \in 1 .. Len(log) /\ log'[s] = log[s]
                        \/ \E i \in 1 .. Len(buffered) : s = Len(log) + i /\ log'[s] = buffered[i]
      BY <1>4
    <2>1. CASE s <= Len(log)
      BY <1>1, <1>2, <1>3, <2>1
    <2>2. CASE s > Len(log)
      <3>1. s - Len(log) \in 1 .. Len(buffered) /\ s = Len(log) + (s - Len(log))
        BY <1>1, <1>3, <2>2
      <3>2. QED
        BY <1>2, <3>1
    <2>3. QED
      BY <1>1, <1>3, <2>1, <2>2
  <1>6. /\ stable'.file = IF "file" \in gone THEN <<>> ELSE stable.file
        /\ gone' = {}
    BY DEF FlushLog, Settled
  <1>7. Placed(seen.file)'
    <2> SUFFICES ASSUME NEW i \in DOMAIN seen.file, seen.file[i] # Gap
                 PROVE  /\ WriteOf(seen.file[i]) <= writes
                        /\ \A s \in DOMAIN log' : log'[s].id = WriteOf(seen.file[i]) => log'[s].off = i
      BY <1>3 DEF Placed
    <2>1. /\ WriteOf(seen.file[i]) <= writes
          /\ \A s \in DOMAIN log : log[s].id = WriteOf(seen.file[i]) => log[s].off = i
          /\ \A j \in DOMAIN buffered : buffered[j].id = WriteOf(seen.file[i]) => buffered[j].off = i
      BY <1>1 DEF Placed
    <2>2. QED
      BY <1>1, <1>3, <1>5, <2>1
  <1>8. Placed(stable.file)'
    <2>1. CASE stable'.file = <<>>
      BY <1>1, <2>1 DEF Placed
    <2>2. CASE stable'.file = stable.file
      <3> SUFFICES ASSUME NEW i \in DOMAIN stable.file, stable.file[i] # Gap
                   PROVE  /\ WriteOf(stable.file[i]) <= writes
                          /\ \A s \in DOMAIN log' :
                                log'[s].id = WriteOf(stable.file[i]) => log'[s].off = i
        BY <1>3, <2>2 DEF Placed
      <3>1. /\ WriteOf(stable.file[i]) <= writes
            /\ \A s \in DOMAIN log : log[s].id = WriteOf(stable.file[i]) => log[s].off = i
            /\ \A j \in DOMAIN buffered :
                  buffered[j].id = WriteOf(stable.file[i]) => buffered[j].off = i
        BY <1>1 DEF Placed
      <3>2. QED
        BY <1>1, <1>3, <1>5, <3>1
    <2>3. QED
      BY <1>6, <2>1, <2>2
  <1>9. Ascending'
    <2>1. \A s, t \in DOMAIN log' : s < t => log'[s].id < log'[t].id
      <3> SUFFICES ASSUME NEW s \in DOMAIN log', NEW t \in DOMAIN log', s < t
                   PROVE  log'[s].id < log'[t].id
        OBVIOUS
      <3>1. CASE t \in 1 .. Len(log) /\ log'[t] = log[t]
        <4>1. s \in 1 .. Len(log) /\ log'[s] = log[s]
          BY <1>1, <1>2, <1>4, <3>1
        <4>2. QED
          BY <1>1, <3>1, <4>1 DEF Ascending
      <3>2. ASSUME NEW j \in 1 .. Len(buffered), t = Len(log) + j, log'[t] = buffered[j]
            PROVE  log'[s].id < log'[t].id
        <4>1. CASE s \in 1 .. Len(log) /\ log'[s] = log[s]
          BY <1>1, <1>3, <3>2, <4>1 DEF Ascending
        <4>2. ASSUME NEW i \in 1 .. Len(buffered), s = Len(log) + i, log'[s] = buffered[i]
              PROVE  log'[s].id < log'[t].id
          <5>1. i < j
            BY <1>1, <3>2, <4>2
          <5>2. QED
            BY <1>1, <1>3, <3>2, <4>2, <5>1 DEF Ascending
        <4>3. QED
          BY <1>5, <4>1, <4>2
      <3>3. QED
        BY <1>5, <3>1, <3>2
    <2>2. \A s, t \in cleaned + 1 .. Len(log') : s < t => log'[s].off < log'[t].off
      <3> SUFFICES ASSUME NEW s \in cleaned + 1 .. Len(log'), NEW t \in cleaned + 1 .. Len(log'), s < t
                   PROVE  log'[s].off < log'[t].off
        OBVIOUS
      <3>0. s \in DOMAIN log' /\ t \in DOMAIN log'
        BY <1>1, <1>2, <1>3, <1>4
      <3>1. CASE t \in 1 .. Len(log) /\ log'[t] = log[t]
        <4>1. s \in cleaned + 1 .. Len(log) /\ t \in cleaned + 1 .. Len(log) /\ log'[s] = log[s]
          BY <1>1, <1>2, <1>4, <3>1
        <4>2. QED
          BY <1>1, <3>1, <4>1 DEF Ascending
      <3>2. ASSUME NEW j \in 1 .. Len(buffered), t = Len(log) + j, log'[t] = buffered[j]
            PROVE  log'[s].off < log'[t].off
        <4>1. CASE s \in 1 .. Len(log) /\ log'[s] = log[s]
          <5>1. s \in cleaned + 1 .. Len(log)
            BY <1>1, <4>1
          <5>2. QED
            BY <1>1, <1>3, <3>2, <4>1, <5>1 DEF Ascending
        <4>2. ASSUME NEW i \in 1 .. Len(buffered), s = Len(log) + i, log'[s] = buffered[i]
              PROVE  log'[s].off < log'[t].off
          <5>1. i < j
            BY <1>1, <3>2, <4>2
          <5>2. QED
            BY <1>1, <1>3, <3>2, <4>2, <5>1 DEF Ascending
        <4>3. QED
          BY <1>5, <3>0, <4>1, <4>2
      <3>3. QED
        BY <1>5, <3>0, <3>1, <3>2
    <2>3. QED
      BY <1>3, <2>1, <2>2 DEF Ascending
  <1>10. \A s \in 1 .. cleaned : log'[s] = log[s]
    BY <1>1, <1>2
  <1>11. Serving /\ Fresh(seen.file) /\ ("file" \notin gone => Fresh(stable.file)) /\ cleaned = durable
    BY <1>1 DEF Afresh, Serving
  <1>12. Fresh(seen.file)'
    BY <1>10, <1>11 DEF Fresh, NotCleaned, IsOf
  <1>13. Fresh(stable.file)'
    <2>1. CASE "file" \in gone
      BY <1>1, <1>6, <2>1 DEF Fresh
    <2>2. CASE "file" \notin gone
      BY <1>6, <1>10, <1>11, <2>2 DEF Fresh, NotCleaned, IsOf
    <2>3. QED
      BY <2>1, <2>2
  <1>14. Tails' /\ Afresh'
    BY <1>6, <1>11, <1>12, <1>13 DEF Tails, Afresh, Ends, Fresh
  <1>15. Vanished'
    <2> SUFFICES ASSUME seen.file = <<>>
                 PROVE  Foreign(stable.file)'
      BY DEF Vanished
    <2>1. Len(buffered) = 0
      <3> SUFFICES ASSUME 1 \in 1 .. Len(buffered)
                   PROVE  FALSE
        BY <1>3
      <3>1. BRef(1) \in spool.ranges /\ Up
        BY <1>3 DEF IInv, Running, Open, Up
      <3>2. Holds(seen.file, BRef(1))
        BY <3>1 DEF IInv, Running, Sized
      <3>3. BRef(1).off \in Nat /\ BRef(1).off >= 1
        BY <1>1, Records, Fields
      <3>4. QED
        BY <1>1, <3>2, <3>3 DEF Holds
    <2>2. DOMAIN log' = DOMAIN log /\ \A s \in DOMAIN log : log'[s] = log[s]
      BY <1>1, <1>2, <1>4, <2>1
    <2>3. CASE "file" \in gone
      BY <1>1, <1>6, <2>3 DEF Foreign
    <2>4. CASE "file" \notin gone
      BY <1>1, <1>6, <2>2, <2>4 DEF Vanished, Foreign, IsOf
    <2>5. QED
      BY <2>3, <2>4
  <1>16. RefusedOnlyIfUnaccepted'
    BY DEF RefusedOnlyIfUnaccepted
  <1>17. QED
    BY <1>7, <1>8, <1>9, <1>14, <1>15, <1>16 DEF Cells

\* Acceptance, answered or not.
LEMMA AcceptCells ==
    ASSUME IInv, IInv', Cells, AppendAccepted \/ AcceptFails
    PROVE  Cells'
  <1>1. /\ pc = "log" /\ buffered' = <<>> /\ pc' \in {"commit", "serve", "blocked"}
        /\ UNCHANGED <<seen, spool, durable, cleaned, published, writes>>
        /\ (log' = log \o buffered /\ FlushLog) \/ UNCHANGED <<log, stable, gone>>
    BY DEF AppendAccepted, AcceptFails, Block, Goto
  <1>2. Serving /\ ~Appending' /\ pc' # "refused"
    BY <1>1 DEF Serving, Appending, Steps
  <1>3. CASE log' = log \o buffered /\ FlushLog
    BY <1>1, <1>2, <1>3, AppendCells
  <1>4. CASE UNCHANGED <<log, stable, gone>>
    BY <1>1, <1>2, <1>4, CellsStay
  <1>5. QED
    BY <1>1, <1>3, <1>4

\* What a power loss, or the removal of a file, makes of the file: its cells
\* are where they were, and its last one is not that of a cleaned record.
LEMMA LeftOver ==
    ASSUME IInv, Cells, NEW f,
           \/ "file" \notin gone /\ f \in Survivors(stable.file, seen.file)
           \/ "file" \in gone /\ f \in Survivors(<<>>, seen.file)
           \/ "file" \in gone /\ f = stable.file
    PROVE  /\ Ends(f, f)
           /\ \A i \in DOMAIN f : f[i] # Gap =>
                 /\ WriteOf(f[i]) <= writes
                 /\ \A s \in DOMAIN log : log[s].id = WriteOf(f[i]) => log[s].off = i
                 /\ \A j \in DOMAIN buffered : buffered[j].id = WriteOf(f[i]) => buffered[j].off = i
  <1>1. /\ seen.file \in Seq(Int) /\ stable.file \in Seq(Int)
        /\ Len(seen.file) \in Nat /\ DOMAIN seen.file = 1 .. Len(seen.file)
        /\ Len(stable.file) \in Nat /\ DOMAIN stable.file = 1 .. Len(stable.file)
        /\ DOMAIN <<>> = {} /\ Len(<<>>) = 0 /\ <<>> \in Seq(Int)
        /\ Placed(seen.file) /\ Placed(stable.file) /\ Tails
    BY FileFacts
  <1>2. CASE "file" \notin gone /\ f \in Survivors(stable.file, seen.file)
    <2>1. /\ f \in Seq(Int) /\ (Len(f) >= Len(stable.file) \/ Len(f) >= Len(seen.file))
          /\ \A i \in DOMAIN f :
                \/ /\ i \in DOMAIN stable.file /\ WriteOf(f[i]) = WriteOf(stable.file[i])
                   /\ f[i] = Gap <=> stable.file[i] = Gap
                \/ /\ i \in DOMAIN seen.file /\ WriteOf(f[i]) = WriteOf(seen.file[i])
                   /\ f[i] = Gap <=> seen.file[i] = Gap
      BY <1>1, <1>2, SurvivorCells
    <2>2. Len(f) \in Nat /\ DOMAIN f = 1 .. Len(f)
      BY <2>1
    <2>3. Ends(stable.file, seen.file) /\ Ends(seen.file, stable.file)
      BY <1>1, <1>2 DEF Tails
    <2>4. Ends(f, f)
      <3> SUFFICES ASSUME NEW i \in DOMAIN f, i >= Len(f)
                   PROVE  NotCleaned(f[i])
        BY DEF Ends
      <3>1. i >= Len(stable.file) \/ i >= Len(seen.file)
        BY <1>1, <2>1, <2>2
      <3>2. CASE /\ i \in DOMAIN stable.file /\ WriteOf(f[i]) = WriteOf(stable.file[i])
                 /\ f[i] = Gap <=> stable.file[i] = Gap
        BY <2>3, <3>1, <3>2 DEF Ends, NotCleaned, IsOf
      <3>3. CASE /\ i \in DOMAIN seen.file /\ WriteOf(f[i]) = WriteOf(seen.file[i])
                 /\ f[i] = Gap <=> seen.file[i] = Gap
        BY <2>3, <3>1, <3>3 DEF Ends, NotCleaned, IsOf
      <3>4. QED
        BY <2>1, <3>2, <3>3
    <2>5. ASSUME NEW i \in DOMAIN f, f[i] # Gap
          PROVE  /\ WriteOf(f[i]) <= writes
                 /\ \A s \in DOMAIN log : log[s].id = WriteOf(f[i]) => log[s].off = i
                 /\ \A j \in DOMAIN buffered : buffered[j].id = WriteOf(f[i]) => buffered[j].off = i
      <3>1. CASE i \in DOMAIN stable.file /\ WriteOf(f[i]) = WriteOf(stable.file[i]) /\ stable.file[i] # Gap
        BY <1>1, <3>1 DEF Placed
      <3>2. CASE i \in DOMAIN seen.file /\ WriteOf(f[i]) = WriteOf(seen.file[i]) /\ seen.file[i] # Gap
        BY <1>1, <3>2 DEF Placed
      <3>3. QED
        BY <2>1, <2>5, <3>1, <3>2
    <2>6. QED
      BY <2>4, <2>5
  <1>3. CASE "file" \in gone /\ f \in Survivors(<<>>, seen.file)
    <2>1. \A i \in DOMAIN f : /\ i \in DOMAIN seen.file /\ WriteOf(f[i]) = WriteOf(seen.file[i])
                              /\ f[i] = Gap <=> seen.file[i] = Gap
      <3>1. \A i \in DOMAIN f :
                \/ /\ i \in DOMAIN <<>> /\ WriteOf(f[i]) = WriteOf(<<>>[i])
                   /\ f[i] = Gap <=> <<>>[i] = Gap
                \/ /\ i \in DOMAIN seen.file /\ WriteOf(f[i]) = WriteOf(seen.file[i])
                   /\ f[i] = Gap <=> seen.file[i] = Gap
        BY <1>1, <1>3, SurvivorCells
      <3>2. QED
        BY <1>1, <3>1
    <2>2. Fresh(seen.file)
      BY <1>1, <1>3 DEF Tails
    <2>3. Ends(f, f)
      BY <2>1, <2>2 DEF Ends, Fresh, NotCleaned, IsOf
    <2>4. ASSUME NEW i \in DOMAIN f, f[i] # Gap
          PROVE  /\ WriteOf(f[i]) <= writes
                 /\ \A s \in DOMAIN log : log[s].id = WriteOf(f[i]) => log[s].off = i
                 /\ \A j \in DOMAIN buffered : buffered[j].id = WriteOf(f[i]) => buffered[j].off = i
      <3>1. i \in DOMAIN seen.file /\ WriteOf(f[i]) = WriteOf(seen.file[i]) /\ seen.file[i] # Gap
        BY <2>1, <2>4
      <3>2. QED
        BY <1>1, <3>1 DEF Placed
    <2>5. QED
      BY <2>3, <2>4
  <1>4. CASE "file" \in gone /\ f = stable.file
    BY <1>1, <1>4 DEF Tails, Placed
  <1>5. QED
    BY <1>2, <1>3, <1>4

\* The file is removed.
LEMMA RemoveFileCells ==
    ASSUME IInv, Cells, RemoveFile
    PROVE  Cells'
  <1>1. /\ TypeInv /\ Ascending /\ DOMAIN <<>> = {} /\ Len(<<>>) = 0
        /\ Len(log) \in Nat /\ cleaned \in Nat /\ durable \in Nat /\ published \in Nat
        /\ cleaned <= durable /\ durable <= published /\ published <= Len(log)
    BY FileFacts
  <1>2. /\ pc = "remove" /\ UNCHANGED <<buffered, log, durable, cleaned, writes>>
        /\ pc' = CASE task = "rebuild" -> "prefix" [] task = "resolve" -> "serve" [] OTHER -> Served(task)
    BY DEF RemoveFile, Goto, journal
  <1>3. ~Appending' /\ pc' # "refused" /\ (Serving' => task = "resolve")
    <2>1. TaskInv
      BY DEF IInv, Running
    <2>2. pc' \in {"prefix", "serve", "cleaned", "blocked"} /\ (pc' = "serve" => task = "resolve")
      BY <1>2, <2>1 DEF TaskInv, Served
    <2>3. QED
      BY <2>2 DEF Appending, Serving, Discarding, Steps
  <1>4. /\ "file" \in gone' /\ seen'.file = <<>>
        /\ \/ "file" \notin gone /\ stable'.file \in Survivors(stable.file, seen.file)
           \/ "file" \in gone /\ stable'.file \in Survivors(<<>>, seen.file)
           \/ "file" \in gone /\ stable'.file = stable.file
    BY <1>1, Typed DEF RemoveFile, Settled
  <1>5. PICK f : f = stable'.file
    OBVIOUS
  <1>6. /\ Ends(f, f)
        /\ \A i \in DOMAIN f : f[i] # Gap =>
              /\ WriteOf(f[i]) <= writes
              /\ \A s \in DOMAIN log : log[s].id = WriteOf(f[i]) => log[s].off = i
              /\ \A j \in DOMAIN buffered : buffered[j].id = WriteOf(f[i]) => buffered[j].off = i
    BY <1>4, <1>5, LeftOver
  <1>7. Placed(seen.file)' /\ Fresh(seen.file)'
    BY <1>1, <1>4 DEF Placed, Fresh
  <1>8. Placed(stable.file)'
    BY <1>2, <1>3, <1>5, <1>6 DEF Placed
  <1>9. Ascending'
    BY <1>1, <1>2 DEF Ascending
  <1>10. Tails'
    BY <1>2, <1>4, <1>5, <1>6, <1>7 DEF Tails, Ends, NotCleaned, IsOf
  <1>11. Afresh'
    <2> SUFFICES ASSUME task = "resolve"
                 PROVE  cleaned = durable
      BY <1>2, <1>3, <1>4, <1>7 DEF Afresh
    <2>1. cleaned = Len(log)
      BY DEF IInv, Running, Marks
    <2>2. QED
      BY <1>1, <2>1
  <1>12. Vanished' /\ RefusedOnlyIfUnaccepted'
    BY <1>3, <1>4 DEF Vanished, RefusedOnlyIfUnaccepted
  <1>13. QED
    BY <1>7, <1>8, <1>9, <1>10, <1>11, <1>12 DEF Cells

\* The power goes.
LEMMA PowerLossCells ==
    ASSUME IInv, Cells, PowerLoss
    PROVE  Cells'
  <1>1. Ascending /\ DOMAIN <<>> = {}
    BY FileFacts
  <1>2. /\ spool' = Empty /\ buffered' = <<>> /\ pc' = "down" /\ task' = "none"
        /\ UNCHANGED <<log, durable, cleaned, writes>> /\ seen' = stable' /\ gone' = {}
    BY DEF PowerLoss, Lose, Goto, journal
  <1>3. ~Appending' /\ ~Serving' /\ DOMAIN buffered' = {}
    BY <1>1, <1>2 DEF Appending, Serving, Discarding, Steps
  <1>4. PICK kept \in {{}, gone \ {"file"}, gone} :
           stable'.file \in IF gone \ kept = {} \/ "file" \notin gone
                            THEN Survivors(IF "file" \in kept THEN <<>> ELSE stable.file, seen.file)
                            ELSE {stable.file}
    BY DEF PowerLoss
  <1>5. \/ "file" \notin gone /\ stable'.file \in Survivors(stable.file, seen.file)
        \/ "file" \in gone /\ stable'.file \in Survivors(<<>>, seen.file)
        \/ "file" \in gone /\ stable'.file = stable.file
    <2>1. CASE "file" \notin gone
      <3>1. "file" \notin kept
        BY <1>4, <2>1
      <3>2. QED
        BY <1>4, <2>1, <3>1
    <2>2. CASE "file" \in gone /\ gone \ kept = {}
      <3>1. "file" \in kept
        BY <2>2
      <3>2. QED
        BY <1>4, <2>2, <3>1
    <2>3. CASE "file" \in gone /\ gone \ kept # {}
      BY <1>4, <2>3
    <2>4. QED
      BY <2>1, <2>2, <2>3
  <1>6. PICK f : f = stable'.file
    OBVIOUS
  <1>7. /\ Ends(f, f)
        /\ \A i \in DOMAIN f : f[i] # Gap =>
              /\ WriteOf(f[i]) <= writes
              /\ \A s \in DOMAIN log : log[s].id = WriteOf(f[i]) => log[s].off = i
    BY <1>5, <1>6, LeftOver
  <1>8. Placed(stable.file)' /\ Placed(seen.file)'
    BY <1>2, <1>3, <1>6, <1>7 DEF Placed
  <1>9. Ascending'
    BY <1>1, <1>2, <1>3 DEF Ascending
  <1>10. Tails'
    BY <1>2, <1>6, <1>7 DEF Tails, Ends, NotCleaned, IsOf
  <1>11. Afresh' /\ RefusedOnlyIfUnaccepted'
    BY <1>2, <1>3 DEF Afresh, RefusedOnlyIfUnaccepted
  <1>12. Vanished'
    BY <1>1, <1>2, <1>3 DEF Vanished, Foreign
  <1>13. QED
    BY <1>8, <1>9, <1>10, <1>11, <1>12 DEF Cells

\* The prefix is marked cleaned.  If a range is left, it is that of an owed
\* record that lies behind the prefix in both versions of the file; if none is,
\* the file is gone.
LEMMA MarkCleanedCells ==
    ASSUME IInv, Cells, pc = "cleaned", cleaned' = durable, FlushLog,
           UNCHANGED <<seen, spool, buffered, log, durable, published, writes>>,
           ~Appending', pc' # "refused", Serving' => ~(durable < Len(log))
    PROVE  Cells'
  <1>1. /\ TypeInv /\ seen.file \in Seq(Int) /\ stable.file \in Seq(Int)
        /\ Len(seen.file) \in Nat /\ DOMAIN seen.file = 1 .. Len(seen.file)
        /\ Len(stable.file) \in Nat /\ DOMAIN stable.file = 1 .. Len(stable.file)
        /\ Len(log) \in Nat /\ DOMAIN log = 1 .. Len(log)
        /\ cleaned \in Nat /\ cleaned <= durable /\ durable <= published /\ published <= Len(log)
        /\ durable \in Nat /\ published \in Nat
        /\ \A s \in DOMAIN log : log[s].off \in Nat /\ log[s].off >= 1
        /\ DOMAIN <<>> = {} /\ Len(<<>>) = 0
        /\ Placed(seen.file) /\ Placed(stable.file) /\ Ascending /\ Tails /\ Afresh
        /\ Vanished
    BY FileFacts
  <1>2. TaskInv /\ Cleared /\ Origin /\ Retired /\ Kept
    BY DEF IInv, Running, Stored
  <1>3. task = "clean" /\ Starting /\ ~Appending
    BY <1>2 DEF TaskInv, Starting, Appending, Steps
  <1>4. buffered = <<>> /\ DOMAIN buffered = {}
    BY Closed DEF Steps
  <1>5. /\ stable'.file = IF "file" \in gone THEN <<>> ELSE stable.file
        /\ gone' = {}
    BY DEF FlushLog, Settled
  <1>6. Placed(seen.file)'
    BY <1>1 DEF Placed
  <1>7. Placed(stable.file)'
    <2>1. CASE stable'.file = <<>>
      BY <1>1, <2>1 DEF Placed
    <2>2. CASE stable'.file = stable.file
      <3>1. Placed(stable.file)
        BY <1>1
      <3>2. QED
        BY <2>2, <3>1 DEF Placed
    <2>3. QED
      BY <1>5, <2>1, <2>2
  <1>8. Ascending'
    <2>1. \A s : s \in durable + 1 .. Len(log) => s \in cleaned + 1 .. Len(log)
      BY <1>1
    <2>2. QED
      BY <1>1, <1>4, <2>1 DEF Ascending
  <1>9. RefusedOnlyIfUnaccepted'
    BY DEF RefusedOnlyIfUnaccepted
  <1>10. CASE spool.ranges = {}
    <2>1. seen.file = <<>>
      BY <1>2, <1>3, <1>10 DEF Cleared
    <2>2. Foreign(stable.file)'
      <3>1. CASE "file" \in gone
        BY <1>1, <1>5, <3>1 DEF Foreign
      <3>2. CASE "file" \notin gone
        BY <1>1, <1>5, <2>1, <3>2 DEF Vanished, Foreign, IsOf
      <3>3. QED
        BY <3>1, <3>2
    <2>3. Fresh(stable.file)'
      <3>1. \A s \in 1 .. durable : s \in DOMAIN log
        BY <1>1
      <3>2. QED
        BY <2>2, <3>1 DEF Foreign, Fresh, NotCleaned
    <2>4. Fresh(seen.file)'
      BY <1>1, <2>1 DEF Fresh
    <2>5. Tails' /\ Afresh' /\ Vanished'
      BY <1>5, <2>2, <2>3, <2>4 DEF Tails, Afresh, Vanished, Fresh, Ends
    <2>6. QED
      BY <1>6, <1>7, <1>8, <1>9, <2>5 DEF Cells
  <1>11. CASE spool.ranges # {}
    <2>1. PICK r \in spool.ranges : TRUE
      BY <1>11
    <2>2. OfRecord(r)
      BY <1>2, <1>3, <1>4, <2>1 DEF Origin, Tracked, OfBuffered
    <2>3. PICK t \in cleaned + 1 .. Len(log) : r.seq = t /\ r = Ref(t)
      BY <2>2 DEF OfRecord
    <2>4. t > durable /\ ~log[t].inline
      BY <1>1, <1>2, <1>3, <2>1, <2>3 DEF Retired
    <2>5. t \in Owed /\ t \in DOMAIN log
      BY <1>1, <2>4 DEF Owed
    <2>6. Holds(stable.file, Ref(t)) /\ Holds(seen.file, Ref(t)) /\ "file" \notin gone
      BY <1>2, <2>4, <2>5 DEF Kept
    <2>7. log[t].off <= Len(stable.file) /\ log[t].off <= Len(seen.file)
      BY <2>6 DEF Holds, Ref
    <2>8. stable'.file = stable.file
      BY <1>5, <2>6
    <2>9. Ends(stable.file, seen.file) /\ Ends(seen.file, stable.file)
      BY <1>1, <2>6 DEF Tails
    <2>10. ASSUME NEW f, Placed(f), NEW i \in DOMAIN f, i \in Nat, NotCleaned(f[i]), i >= log[t].off,
                  NEW s \in 1 .. durable, IsOf(f[i], log[s])
           PROVE  FALSE
      <3>1. s \in cleaned + 1 .. Len(log) /\ s < t /\ s \in DOMAIN log
        BY <1>1, <2>4, <2>10 DEF NotCleaned
      <3>2. log[s].off = i
        BY <2>10, <3>1 DEF Placed, IsOf
      <3>3. log[s].off < log[t].off
        BY <1>1, <3>1 DEF Ascending
      <3>4. QED
        BY <1>1, <2>5, <2>10, <3>2, <3>3
    <2>11. ASSUME NEW i \in DOMAIN stable.file, i >= Len(stable.file) \/ i >= Len(seen.file),
                  NEW s \in 1 .. durable
           PROVE  ~IsOf(stable.file[i], log[s])
      <3>1. NotCleaned(stable.file[i])
        BY <2>9, <2>11 DEF Ends
      <3>2. i \in Nat /\ i >= log[t].off
        BY <1>1, <2>5, <2>7, <2>11
      <3>3. QED
        BY <1>1, <2>10, <3>1, <3>2
    <2>12. ASSUME NEW i \in DOMAIN seen.file, i >= Len(seen.file) \/ i >= Len(stable.file),
                  NEW s \in 1 .. durable
           PROVE  ~IsOf(seen.file[i], log[s])
      <3>1. NotCleaned(seen.file[i])
        BY <2>9, <2>12 DEF Ends
      <3>2. i \in Nat /\ i >= log[t].off
        BY <1>1, <2>5, <2>7, <2>12
      <3>3. QED
        BY <1>1, <2>10, <3>1, <3>2
    <2>13. Ends(stable.file, seen.file)' /\ Ends(seen.file, stable.file)'
      BY <2>8, <2>11, <2>12 DEF Ends, NotCleaned, IsOf
    <2>14. Tails'
      BY <1>5, <2>13 DEF Tails
    <2>15. Afresh'
      BY <1>1, <2>4, <2>5 DEF Afresh
    <2>16. Vanished'
      <3>1. seen.file # <<>>
        BY <1>1, <2>5, <2>7
      <3>2. QED
        BY <3>1 DEF Vanished
    <2>17. QED
      BY <1>6, <1>7, <1>8, <1>9, <2>14, <2>15, <2>16 DEF Cells
  <1>12. QED
    BY <1>10, <1>11

\* That mark, answered or not.
LEMMA CleanedCells ==
    ASSUME IInv, IInv', Cells, MarkCleanedThrough \/ MarkCleanedFails
    PROVE  Cells'
  <1>1. /\ pc = "cleaned" /\ UNCHANGED <<seen, spool, buffered, log, durable, published, writes>>
        /\ (cleaned' = durable /\ FlushLog)
           \/ (UNCHANGED <<cleaned, stable, gone>> /\ pc' = "blocked")
        /\ \/ pc' = "restore" /\ durable < Len(log)
           \/ pc' = "serve" /\ ~(durable < Len(log))
           \/ pc' = "blocked"
        /\ task' = "none"
    BY DEF MarkCleanedThrough, MarkCleanedFails, Block, Goto
  <1>2. ~Appending' /\ pc' # "refused" /\ (Serving' => pc' = "serve")
    BY <1>1 DEF Appending, Serving, Discarding, Steps
  <1>3. CASE cleaned' = durable /\ FlushLog
    BY <1>1, <1>2, <1>3, MarkCleanedCells
  <1>4. CASE UNCHANGED <<cleaned, stable, gone>> /\ pc' = "blocked"
    BY <1>1, <1>2, <1>4, CellsStay
  <1>5. QED
    BY <1>1, <1>3, <1>4

\* A start that finds nothing serves; one that finds something recovers.
LEMMA LoadIndexCells ==
    ASSUME IInv, IInv', Cells, LoadIndex
    PROVE  Cells'
  <1>1. /\ seen.file \in Seq(Int) /\ DOMAIN <<>> = {}
        /\ Len(log) \in Nat /\ cleaned \in Nat /\ durable \in Nat /\ published \in Nat
        /\ cleaned <= durable /\ durable <= published /\ published <= Len(log)
        /\ DOMAIN log = 1 .. Len(log) /\ Vanished
    BY FileFacts
  <1>2. /\ UNCHANGED <<seen, stable, gone, buffered, log, durable, cleaned, writes>>
        /\ pc' \in {"rebuild", "prefix", "resolve", "serve"} /\ task' = "none"
        /\ pc' = "serve" => ~RecoveryPending /\ ~RecoveryRequired
    BY DEF LoadIndex, Goto, files, journal
  <1>3. ~Appending' /\ pc' # "refused" /\ (Serving' => pc' = "serve")
    BY <1>2 DEF Appending, Serving, Discarding, Steps
  <1>4. Afresh'
    <2> SUFFICES ASSUME pc' = "serve"
                 PROVE  Afresh'
      BY <1>3 DEF Afresh
    <2>1. cleaned = durable
      BY <1>1, <1>2 DEF RecoveryPending
    <2>2. Len(seen.file) = 0
      BY <1>2 DEF RecoveryRequired, Loaded, Empty
    <2>3. seen.file = <<>>
      BY <1>1, <2>2, EmptySeq
    <2>4. "file" \notin gone => Foreign(stable.file)
      BY <1>1, <2>3 DEF Vanished
    <2>5. \A s \in 1 .. cleaned : s \in DOMAIN log
      BY <1>1
    <2>6. QED
      BY <1>1, <1>2, <2>1, <2>3, <2>4, <2>5 DEF Afresh, Fresh, Foreign, NotCleaned, IsOf
  <1>5. RefusedOnlyIfUnaccepted'
    BY <1>3 DEF RefusedOnlyIfUnaccepted
  <1>6. QED
    BY <1>2, <1>3, <1>4, <1>5, CellsRest

\* The last cell of a file that a start finds, if it is not a gap, is that of
\* a record that is not cleaned or of none.
LEMMA LastCell ==
    ASSUME IInv, Cells, seen.file # <<>>, Last(seen.file) # Gap
    PROVE  /\ Len(seen.file) \in DOMAIN seen.file
           /\ \A s \in DOMAIN log : log[s].id = WriteOf(seen.file[Len(seen.file)]) =>
                  s > cleaned /\ log[s].off = Len(seen.file)
  <1>1. /\ seen.file \in Seq(Int) /\ Len(seen.file) \in Nat /\ DOMAIN seen.file = 1 .. Len(seen.file)
        /\ Placed(seen.file) /\ Tails /\ Len(log) \in Nat /\ cleaned \in Nat
        /\ DOMAIN log = 1 .. Len(log)
    BY FileFacts
  <1>2. Len(seen.file) # 0
    BY <1>1, EmptySeq
  <1>3. Len(seen.file) \in DOMAIN seen.file /\ seen.file[Len(seen.file)] # Gap
    BY <1>1, <1>2 DEF Last
  <1>4. NotCleaned(seen.file[Len(seen.file)])
    BY <1>1, <1>3 DEF Tails, Fresh, Ends
  <1>5. QED
    BY <1>1, <1>3, <1>4 DEF Placed, NotCleaned, IsOf

\* The rebuild refuses.
LEMMA RebuildRefusedCells ==
    ASSUME IInv, IInv', Cells, RebuildRefused
    PROVE  Cells'
  <1>1. /\ TypeInv /\ seen.file \in Seq(Int) /\ Len(seen.file) \in Nat
        /\ Len(log) \in Nat /\ DOMAIN log = 1 .. Len(log)
        /\ cleaned \in Nat /\ durable \in Nat /\ published \in Nat
        /\ cleaned <= durable /\ durable <= published /\ published <= Len(log)
    BY FileFacts
  <1>2. /\ pc = "rebuild" /\ ~RebuildComplete /\ pc' = "refused" /\ task' = "none"
        /\ UNCHANGED <<seen, stable, gone, spool, buffered, log, durable, cleaned, writes>>
    BY DEF RebuildRefused, Goto, files, journal
  <1>3. ~Appending' /\ ~Serving'
    BY <1>2 DEF Appending, Serving, Discarding, Steps
  <1>4. spool.next = Len(seen.file) /\ spool.ranges \subseteq seen.index.ranges
    BY <1>2 DEF IInv, Running, Sized, Marks, Up
  <1>5. /\ References \subseteq {Ref(s) : s \in Owed} /\ References \subseteq Rng
        /\ \A r \in References : Holds(seen.file, r)
    <2>1. \A r \in References : \E s \in Owed : r = Ref(s) /\ ~log[s].inline
      BY <1>1 DEF References, Discardable, Owed
    <2>2. \A s \in Owed : s \in 1 .. Len(log)
      BY <1>1 DEF Owed
    <2>3. \A s \in Owed : ~log[s].inline => Holds(seen.file, Ref(s))
      BY DEF IInv, Stored, Kept
    <2>4. QED
      BY <1>1, <2>1, <2>2, <2>3, Records
  <1>6. RefusedOnlyIfUnaccepted'
    <2> SUFFICES ASSUME \A i \in DOMAIN seen.file :
                           seen.file[i] # Gap => \E s \in DOMAIN log : log[s].id = WriteOf(seen.file[i]),
                        \A r \in seen.index.ranges : \E s \in DOMAIN log : Ref(s) = r,
                        seen.file # <<>> => Last(seen.file) # Gap
                 PROVE  RebuildComplete
      BY <1>2 DEF RefusedOnlyIfUnaccepted, Ref
    <2>1. ASSUME NEW r \in spool.ranges
          PROVE  Explained(r)
      <3>1. PICK s \in 1 .. Len(log) : Ref(s) = r
        BY <1>1, <1>4
      <3>2. r.seq = s
        BY <1>1, <3>1, Records
      <3>3. QED
        BY <1>1, <3>1, <3>2 DEF Explained
    <2>2. TailAccountedFor
      <3>1. CASE seen.file = <<>>
        BY <1>4, <3>1, EmptySeq DEF TailAccountedFor
      <3>2. CASE seen.file # <<>>
        <4>1. /\ Last(seen.file) # Gap /\ seen.file[Len(seen.file)] # Gap
          BY <3>2 DEF Last
        <4>2. /\ Len(seen.file) \in DOMAIN seen.file
              /\ \A s \in DOMAIN log : log[s].id = WriteOf(seen.file[Len(seen.file)]) =>
                     s > cleaned /\ log[s].off = Len(seen.file)
          BY <3>2, <4>1, LastCell
        <4>3. PICK s \in DOMAIN log : log[s].id = WriteOf(seen.file[Len(seen.file)])
          BY <4>1, <4>2
        <4>4. s \in cleaned + 1 .. Len(log) /\ log[s].off = spool.next
          BY <1>1, <1>4, <4>2, <4>3
        <4>5. CASE s \in Discardable
          BY <4>4, <4>5 DEF TailAccountedFor
        <4>6. CASE s \notin Discardable
          <5>1. Ref(s) \in References /\ Ref(s).off = spool.next
            BY <4>4, <4>6 DEF References, Ref
          <5>2. \A r \in References : r.off \in Nat /\ r.off <= spool.next
            BY <1>4, <1>5, Fields DEF Holds
          <5>3. Max({r.off : r \in References}) = spool.next
            <6>1. {r.off : r \in References} \subseteq Nat /\ spool.next \in {r.off : r \in References}
              BY <5>1, <5>2
            <6>2. \A x \in {r.off : r \in References} : x <= spool.next
              BY <5>2
            <6>3. QED
              BY <6>1, <6>2, MaxIsTop
          <5>4. QED
            BY <5>1, <5>3 DEF TailAccountedFor
        <4>7. QED
          BY <4>5, <4>6
      <3>3. QED
        BY <3>1, <3>2
    <2>3. QED
      BY <1>5, <2>1, <2>2 DEF RebuildComplete
  <1>7. Afresh'
    BY <1>3 DEF Afresh
  <1>8. QED
    BY <1>2, <1>3, <1>6, <1>7, CellsRest

\* Without accepted work, the bytes of an unknown write are dropped or refused.
LEMMA ResolveCells ==
    ASSUME IInv, IInv', Cells, ResolveUnindexedPayload
    PROVE  Cells'
  <1>1. /\ seen.file \in Seq(Int) /\ Len(log) \in Nat /\ DOMAIN log = 1 .. Len(log)
    BY FileFacts
  <1>2. /\ pc = "resolve" /\ pc' \in {"remove", "refused"} /\ task' \in {"none", "resolve"}
        /\ UNCHANGED <<seen, stable, gone, spool, buffered, log, durable, cleaned, writes>>
    BY DEF ResolveUnindexedPayload, Goto, files, journal
  <1>3. ~Appending' /\ ~Serving'
    BY <1>2 DEF Appending, Serving, Discarding, Steps
  <1>4. cleaned = Len(log) /\ spool.next # 0 /\ spool.next = Len(seen.file)
    BY <1>2 DEF IInv, Running, Marks, Sized, Up
  <1>5. seen.file # <<>>
    BY <1>4, EmptySeq
  <1>6. RefusedOnlyIfUnaccepted'
    <2>1. CASE Last(seen.file) = Gap
      BY <1>2, <1>5, <2>1 DEF RefusedOnlyIfUnaccepted
    <2>2. CASE Last(seen.file) # Gap
      <3>1. /\ Len(seen.file) \in DOMAIN seen.file /\ seen.file[Len(seen.file)] # Gap
            /\ \A s \in DOMAIN log : log[s].id # WriteOf(seen.file[Len(seen.file)])
        BY <1>1, <1>4, <1>5, <2>2, LastCell DEF Last
      <3>2. QED
        BY <1>2, <3>1 DEF RefusedOnlyIfUnaccepted
    <2>3. QED
      BY <2>1, <2>2
  <1>7. Afresh'
    BY <1>3 DEF Afresh
  <1>8. QED
    BY <1>2, <1>3, <1>6, <1>7, CellsRest

\* A payload is put back at the place of its record; the places before it that
\* were not there are zeros.
LEMMA RestoreCells ==
    ASSUME IInv, Cells, RestoreInlineRange
    PROVE  Cells'
  <1>1. /\ TypeInv /\ seen.file \in Seq(Int)
        /\ Len(seen.file) \in Nat /\ DOMAIN seen.file = 1 .. Len(seen.file)
        /\ Len(stable.file) \in Nat /\ DOMAIN stable.file = 1 .. Len(stable.file)
        /\ Len(log) \in Nat /\ DOMAIN log = 1 .. Len(log)
        /\ cleaned \in Nat /\ durable \in Nat /\ published \in Nat /\ writes \in Nat
        /\ cleaned <= durable /\ durable <= published /\ published <= Len(log)
        /\ \A t \in DOMAIN log : log[t].id \in Nat /\ log[t].off \in Nat /\ log[t].off >= 1
        /\ \A t \in DOMAIN log : log[t].id <= writes
        /\ DOMAIN <<>> = {}
        /\ Placed(seen.file) /\ Placed(stable.file) /\ Ascending /\ Tails
    BY FileFacts
  <1>2. /\ pc = "restore" /\ ToRestore # {} /\ pc' \in {"restore", "restored"} /\ task' = "none"
        /\ UNCHANGED <<stable, gone, buffered, log, durable, cleaned, writes>>
    BY DEF RestoreInlineRange, Goto, journal
  <1>3. PICK s : /\ s = Min(ToRestore)
                 /\ seen' = [seen EXCEPT !.file =
                      [i \in 1 .. Max({Len(seen.file), log[s].off}) |->
                          IF i = log[s].off THEN log[s].id
                          ELSE IF i <= Len(@) THEN @[i] ELSE Gap]]
    BY DEF RestoreInlineRange
  <1>4. s \in DOMAIN log /\ s > cleaned
    <2>1. ToRestore \subseteq published + 1 .. Len(log)
      BY DEF ToRestore, Unpublished
    <2>2. s \in ToRestore
      BY <1>1, <1>2, <1>3, <2>1, MinIsMember
    <2>3. QED
      BY <1>1, <2>1, <2>2
  <1>5. PICK end \in Nat : /\ end = Max({Len(seen.file), log[s].off})
                           /\ end >= log[s].off /\ end >= Len(seen.file)
    <2>1. log[s].off \in Nat
      BY <1>1, <1>4
    <2>2. Max({Len(seen.file), log[s].off}) =
             IF Len(seen.file) >= log[s].off THEN Len(seen.file) ELSE log[s].off
      BY <1>1, <2>1, MaxOfTwo
    <2>3. QED
      BY <1>1, <2>1, <2>2
  <1>6. seen'.file = [i \in 1 .. end |-> IF i = log[s].off THEN log[s].id
                                         ELSE IF i <= Len(seen.file) THEN seen.file[i] ELSE Gap]
    BY <1>1, <1>3, <1>5, Typed
  <1>7. Len(seen'.file) = end /\ DOMAIN seen'.file = 1 .. end
    BY <1>6
  <1>8. \A i \in 1 .. end :
           \/ i = log[s].off /\ seen'.file[i] = log[s].id
           \/ i \in DOMAIN seen.file /\ seen'.file[i] = seen.file[i]
           \/ seen'.file[i] = Gap
    BY <1>1, <1>6
  <1>9. WriteOf(log[s].id) = log[s].id
    BY <1>1, <1>4 DEF WriteOf
  <1>10. \A t \in DOMAIN log : log[t].id = log[s].id => t = s
    <2> SUFFICES ASSUME NEW t \in DOMAIN log, log[t].id = log[s].id
                 PROVE  t = s
      OBVIOUS
    <2>1. ~(t < s) /\ ~(s < t)
      BY <1>1, <1>4 DEF Ascending
    <2>2. QED
      BY <1>1, <1>4, <2>1
  <1>11. buffered = <<>> /\ DOMAIN buffered = {}
    BY <1>2, Closed DEF Steps
  <1>12. ~Appending' /\ ~Serving' /\ pc' # "refused"
    BY <1>2 DEF Appending, Serving, Discarding, Steps
  <1>13. Placed(seen.file)'
    <2> SUFFICES ASSUME NEW i \in 1 .. end, seen'.file[i] # Gap
                 PROVE  /\ WriteOf(seen'.file[i]) <= writes
                        /\ \A t \in DOMAIN log : log[t].id = WriteOf(seen'.file[i]) => log[t].off = i
      BY <1>2, <1>7, <1>11, <1>12 DEF Placed
    <2>1. CASE i = log[s].off /\ seen'.file[i] = log[s].id
      BY <1>1, <1>4, <1>9, <1>10, <2>1
    <2>2. CASE i \in DOMAIN seen.file /\ seen'.file[i] = seen.file[i]
      BY <1>1, <2>2 DEF Placed
    <2>3. QED
      BY <1>8, <2>1, <2>2
  <1>14. Placed(stable.file)'
    BY <1>1, <1>2, <1>11, <1>12 DEF Placed
  <1>15. Ascending'
    BY <1>1, <1>2 DEF Ascending
  <1>16. NotCleaned(log[s].id) /\ NotCleaned(Gap)
    <2>1. \A t \in 1 .. cleaned : t \in DOMAIN log /\ t # s
      BY <1>1, <1>4
    <2>2. QED
      BY <1>9, <1>10, <2>1 DEF NotCleaned, IsOf
  <1>17. Tails'
    <2>1. CASE "file" \in gone
      <3>1. Fresh(seen.file) /\ Ends(stable.file, stable.file)
        BY <1>1, <2>1 DEF Tails
      <3>2. \A i \in 1 .. end : NotCleaned(seen'.file[i])
        BY <1>8, <1>16, <3>1 DEF Fresh
      <3>3. Fresh(seen.file)' /\ Ends(stable.file, stable.file)'
        BY <1>2, <1>7, <3>1, <3>2 DEF Fresh, Ends, NotCleaned, IsOf
      <3>4. QED
        BY <1>2, <2>1, <3>3 DEF Tails
    <2>2. CASE "file" \notin gone
      <3>1. Ends(stable.file, seen.file) /\ Ends(seen.file, stable.file)
        BY <1>1, <2>2 DEF Tails
      <3>2. ASSUME NEW i \in DOMAIN stable.file, i >= Len(stable.file) \/ i >= end
            PROVE  NotCleaned(stable.file[i])
        BY <1>1, <1>5, <3>1, <3>2 DEF Ends
      <3>3. ASSUME NEW i \in 1 .. end, i >= end \/ i >= Len(stable.file)
            PROVE  NotCleaned(seen'.file[i])
        <4>1. CASE i \in DOMAIN seen.file /\ seen'.file[i] = seen.file[i]
          <5>1. i >= Len(seen.file) \/ i >= Len(stable.file)
            BY <1>1, <1>5, <3>3
          <5>2. QED
            BY <3>1, <4>1, <5>1 DEF Ends
        <4>2. QED
          BY <1>8, <1>16, <4>1
      <3>4. Ends(stable.file, seen.file)' /\ Ends(seen.file, stable.file)'
        BY <1>2, <1>7, <3>2, <3>3 DEF Ends, NotCleaned, IsOf
      <3>5. QED
        BY <1>2, <2>2, <3>4 DEF Tails
    <2>3. QED
      BY <2>1, <2>2
  <1>18. Afresh' /\ RefusedOnlyIfUnaccepted'
    BY <1>12 DEF Afresh, RefusedOnlyIfUnaccepted
  <1>19. Vanished'
    <2>1. 1 \in DOMAIN seen'.file
      BY <1>1, <1>4, <1>5, <1>7
    <2>2. seen'.file # <<>>
      BY <1>1, <2>1
    <2>3. QED
      BY <1>12, <2>2 DEF Vanished
  <1>20. QED
    BY <1>13, <1>14, <1>15, <1>17, <1>18, <1>19 DEF Cells

\* Whose the cells are holds at first, and every step keeps it.
LEMMA InitCells ==
    ASSUME Init
    PROVE  Cells
  <1>1. /\ seen.file = <<>> /\ stable.file = <<>> /\ gone = {} /\ buffered = <<>> /\ log = <<>>
        /\ durable = 0 /\ cleaned = 0 /\ pc = "serve"
    BY DEF Init
  <1>2. DOMAIN <<>> = {} /\ Len(<<>>) = 0
    BY EmptySeq
  <1>3. Placed(seen.file) /\ Placed(stable.file)
    BY <1>1, <1>2 DEF Placed
  <1>4. Ascending
    BY <1>1, <1>2 DEF Ascending
  <1>5. Tails /\ Afresh /\ Vanished
    BY <1>1, <1>2 DEF Tails, Afresh, Vanished, Fresh, Ends, Foreign
  <1>6. RefusedOnlyIfUnaccepted
    BY <1>1 DEF RefusedOnlyIfUnaccepted
  <1>7. QED
    BY <1>3, <1>4, <1>5, <1>6 DEF Cells

\* Every step of the host, of the file system and of the machine keeps whose
\* the cells are.
LEMMA StepCells ==
    ASSUME IInv, IInv', Cells, [Next]_vars
    PROVE  Cells'
  <1>1. CASE \/ WriteFails \/ RecordMutation \/ FlushFails \/ AppendAccepted \/ AcceptFails
             \/ RemoveFile \/ MarkCleanedThrough \/ MarkCleanedFails
    BY <1>1, WriteCells, RecordMutationCells, FlushFailsCells, AcceptCells, RemoveFileCells,
       CleanedCells
  <1>2. CASE \/ LoadIndex \/ RebuildRefused \/ ResolveUnindexedPayload \/ RestoreInlineRange
             \/ PowerLoss
    BY <1>2, LoadIndexCells, RebuildRefusedCells, ResolveCells, RestoreCells, PowerLossCells
  <1>3. CASE \/ FlushPayloadBytes \/ PersistIndex \/ FlushFrame \/ FlushRestored \/ UnlinkIndex
             \/ MarkApfsDurableThrough \/ MarkFails \/ MarkVerifiedPrefix
    BY <1>3, FlushSteps
  <1>4. CASE \/ AcceptMutationJournal \/ Drain \/ CommitApfs \/ CommitFails
             \/ FinalizeMutationJournal \/ RecordFails
             \/ CleanupThroughSequence \/ DiscardSequence \/ RemovalFails
             \/ RebuildIndexFromReferences \/ Replay \/ ReplayFails \/ Kill
             \/ UNCHANGED vars
    BY <1>4, QuietSteps
  <1>5. CASE \E inline \in BOOLEAN : Write(inline)
    BY <1>5, WriteCells
  <1>6. QED
    BY <1>1, <1>2, <1>3, <1>4, <1>5 DEF Next

---------------------------------------------------------------------------
(* The theorems.                                                           *)

\* A volume mounted for the first time has neither file.
LEMMA InitHolds ==
    ASSUME Init
    PROVE  IInv
  <1>1. /\ seen = [file |-> <<>>, index |-> NoIndex] /\ stable = seen /\ gone = {}
        /\ spool = Empty /\ buffered = <<>> /\ log = <<>> /\ Len(log) = 0
        /\ durable = 0 /\ cleaned = 0 /\ published = 0 /\ writes = 0
        /\ pc = "serve" /\ task = "none"
    BY Fields DEF Init
  <1>2. seen.file = <<>> /\ seen.index = NoIndex /\ stable.file = <<>> /\ stable.index = NoIndex
    BY <1>1
  <1>3. Owed = {} /\ DOMAIN log = {} /\ DOMAIN buffered = {}
    BY <1>1 DEF Owed
  <1>4. ~Appending /\ ~Discarding /\ ~Starting
    BY <1>1 DEF Appending, Discarding, Starting, Steps
  <1>5. Stored
    <2>1. seen \in Files
      BY <1>1, Fields DEF Files
    <2>2. TypeInv
      BY <1>1, <2>1, Fields DEF TypeInv
    <2>3. Order /\ Kept /\ IndexBacked /\ Numbered
      BY <1>1, <1>2, <1>3, Fields DEF Order, Kept, IndexBacked, Numbered
    <2>4. QED
      BY <2>2, <2>3 DEF Stored
  <1>6. spool.ranges = {} /\ spool.next = 0 /\ spool.unsynced = 0 /\ ~spool.started
    BY <1>1, Fields
  <1>7. TaskInv /\ Marks /\ Removable /\ IndexSteps /\ Retired
    BY <1>1 DEF TaskInv, Marks, Removable, IndexSteps, Retired, Steps
  <1>8. Sized /\ Live /\ Cleared /\ Origin
    BY <1>1, <1>2, <1>3, <1>4, <1>6, Fields DEF Sized, Live, Cleared, Origin
  <1>9. Synced /\ Open
    BY <1>1, <1>3, <1>4, <1>6 DEF Synced, Open
  <1>10. InProgress
    BY <1>1, <1>4 DEF InProgress, Steps
  <1>11. QED
    BY <1>5, <1>7, <1>8, <1>9, <1>10 DEF IInv, Running

\* A step that changes nothing.
LEMMA StutterKeeps ==
    ASSUME IInv, UNCHANGED vars
    PROVE  IInv'
  <1>1. UNCHANGED <<seen, stable, gone, spool, buffered, log, durable, cleaned, published, writes,
                    pc, task>>
    BY DEF vars, files, journal, control
  <1>2. Stored'
    BY <1>1 DEF IInv, Stored, TypeInv, Order, Kept, IndexBacked, Numbered, Owed, Ref
  <1>3. (TaskInv /\ Marks /\ Removable /\ Sized /\ Live /\ Synced)'
    BY <1>1 DEF IInv, Running, TaskInv, Marks, Removable, Sized, Live, Synced, Up, Owed, Ref,
                Serving, Starting, Appending, Discarding
  <1>4. (Cleared /\ Open /\ InProgress)'
    BY <1>1 DEF IInv, Running, Cleared, Open, InProgress, BRef, Current,
                Serving, Starting, Appending, Discarding
  <1>5. (Origin /\ Retired /\ IndexSteps)'
    BY <1>1 DEF IInv, Running, Origin, OfRecord, OfBuffered, Tracked, Retired, IndexSteps,
                BRef, Current, Ref,
                Serving, Starting, Appending, Discarding
  <1>6. QED
    BY <1>2, <1>3, <1>4, <1>5 DEF IInv, Running

\* Every step of the host, of the file system and of the machine keeps the
\* invariant.
LEMMA StepKeeps ==
    ASSUME IInv, [Next]_vars
    PROVE  IInv'
  <1>1. ASSUME NEW inline \in BOOLEAN, Write(inline)
        PROVE  IInv'
    BY <1>1, WriteKeeps
  <1>2. CASE WriteFails \/ RecordMutation \/ RecordFails
    BY <1>2, WriteFailsKeeps, RecordMutationKeeps, RecordFailsKeeps
  <1>3. CASE FlushPayloadBytes \/ PersistIndex \/ FlushFrame \/ FlushFails
    BY <1>3, FlushPayloadBytesKeeps, PersistIndexKeeps, FlushFrameKeeps, FlushFailsKeeps
  <1>4. CASE AcceptMutationJournal \/ Drain \/ AppendAccepted \/ AcceptFails
    BY <1>4, AcceptMutationJournalKeeps, DrainKeeps, AppendAcceptedKeeps, AcceptFailsKeeps
  <1>5. CASE CommitApfs \/ CommitFails \/ FinalizeMutationJournal
    BY <1>5, CommitApfsKeeps, CommitFailsKeeps, FinalizeMutationJournalKeeps
  <1>6. CASE MarkApfsDurableThrough \/ MarkFails
    BY <1>6, MarkApfsDurableThroughKeeps, MarkFailsKeeps
  <1>7. CASE \/ CleanupThroughSequence \/ DiscardSequence
             \/ UnlinkIndex \/ RemoveFile \/ RemovalFails
    BY <1>7, CleanupThroughSequenceKeeps, DiscardSequenceKeeps, UnlinkIndexKeeps,
       RemoveFileKeeps, GivesUpKeeps
  <1>8. CASE MarkCleanedThrough \/ MarkCleanedFails
    BY <1>8, MarkCleanedThroughKeeps, MarkCleanedFailsKeeps
  <1>9. CASE \/ LoadIndex \/ RebuildIndexFromReferences
             \/ RebuildRefused \/ ResolveUnindexedPayload
    BY <1>9, LoadIndexKeeps, RebuildKeeps, RebuildRefusedKeeps, ResolveUnindexedPayloadKeeps
  <1>10. CASE MarkVerifiedPrefix \/ RestoreInlineRange \/ FlushRestored \/ Replay \/ ReplayFails
    BY <1>10, MarkVerifiedPrefixKeeps, RestoreInlineRangeKeeps, FlushRestoredKeeps, ReplayKeeps,
       GivesUpKeeps
  <1>11. CASE Kill \/ PowerLoss
    BY <1>11, KillKeeps, PowerLossKeeps
  <1>12. CASE UNCHANGED vars
    BY <1>12, StutterKeeps
  <1>13. QED
    BY <1>1, <1>2, <1>3, <1>4, <1>5, <1>6, <1>7, <1>8, <1>9, <1>10, <1>11, <1>12 DEF Next

\* The invariant of both files, the journal's watermarks and the spool's memory
\* holds in every state of every behaviour, through failed calls, kills and
\* power losses, for every number of writes, flush threshold and quota.
THEOREM SpoolInvariant == Spec => []IInv
  <1>1. Init => IInv
    BY InitHolds
  <1>2. IInv /\ [Next]_vars => IInv'
    BY StepKeeps
  <1>3. QED
    BY <1>1, <1>2, PTL DEF Spec

\* The payload of an accepted record that no checkpoint holds is at its offset
\* on stable storage and as the process reads it, unless the record carries it,
\* and ReadPersistedRange of a serving or committing host finds it.
THEOREM AcceptedPayloadKept == Spec => []PayloadKept
  <1>1. IInv => PayloadKept
    <2> SUFFICES ASSUME IInv
                 PROVE  PayloadKept
      OBVIOUS
    <2>1. TypeInv /\ Order /\ Kept /\ Sized /\ Live
      BY DEF IInv, Stored, Running
    <2>2. Unpublished \subseteq Owed
      BY <2>1, Typed DEF Unpublished, Owed, Order
    <2>3. \A s \in Unpublished :
             ~log[s].inline => Holds(stable.file, Ref(s)) /\ Holds(seen.file, Ref(s))
      BY <2>1, <2>2 DEF Kept
    <2>4. ASSUME pc \in {"serve", "commit"}, NEW s \in Unpublished
          PROVE  ReadPersistedRange(s)
      <3>1. Ref(s) \in spool.ranges
        BY <2>1, <2>2, <2>4 DEF Live, Serving
      <3>2. Holds(seen.file, Ref(s))
        BY <2>1, <2>4, <3>1 DEF Sized, Up
      <3>3. QED
        BY <3>1, <3>2 DEF ReadPersistedRange
    <2>5. QED
      BY <2>3, <2>4 DEF PayloadKept
  <1>2. QED
    BY <1>1, SpoolInvariant, PTL

\* With IInv, whose the cells of the file are holds in every state too.
THEOREM CellsInvariant == Spec => [](IInv /\ Cells)
  <1>1. Init => Cells
    BY InitCells
  <1>2. IInv /\ IInv' /\ Cells /\ [Next]_vars => Cells'
    BY StepCells
  <1>3. QED
    BY <1>1, <1>2, SpoolInvariant, PTL DEF Spec

\* RebuildIndexFromReferences and ResolveUnindexedPayload refuse a start only
\* where the file has bytes, or the index a range, of a write that was never
\* accepted, or where the file ends in the gap that an interrupted
\* RestoreInlineRange left: never over the bytes of accepted or finished work.
THEOREM RefusalsAreJustified == Spec => []RefusedOnlyIfUnaccepted
  <1>1. Cells => RefusedOnlyIfUnaccepted
    BY DEF Cells
  <1>2. QED
    BY <1>1, CellsInvariant, PTL

\* CleanupThroughSequence and the removals leave neither file, range nor counter
\* behind once all accepted records are cleaned and none is buffered.
THEOREM FinishedWorkLeavesNothing == Spec => []NothingLeftBehind
  <1>1. IInv => NothingLeftBehind
    <2> SUFFICES ASSUME IInv, pc = "serve", buffered = <<>>, cleaned = Len(log)
                 PROVE  seen = [file |-> <<>>, index |-> NoIndex] /\ spool = Empty
      BY DEF NothingLeftBehind
    <2>1. TypeInv /\ TaskInv /\ Origin /\ Cleared
      BY DEF IInv, Stored, Running
    <2>2. task = "none"
      BY <2>1 DEF TaskInv
    <2>3. Serving /\ Tracked /\ ~Appending
      BY <2>2 DEF Serving, Tracked, Appending, Discarding, Steps
    <2>4. \A r \in spool.ranges : OfRecord(r) \/ OfBuffered(r)
      BY <2>1, <2>3 DEF Origin
    <2>5. \A r : ~OfRecord(r) /\ ~OfBuffered(r)
      BY <2>1, Typed DEF OfRecord, OfBuffered
    <2>6. QED
      BY <2>1, <2>3, <2>4, <2>5 DEF Cleared
  <1>2. QED
    BY <1>1, SpoolInvariant, PTL
=============================================================================
