------------------------ MODULE WalCompaction_proofs ------------------------
(***************************************************************************)
(* Proofs about WalCompaction: for every number of files, records, failing *)
(* calls and crashes its types hold, no directory is ever refused, what a  *)
(* compaction reported stands, and the log implements DurableLog.          *)
(*                                                                         *)
(* The invariant has two halves.  Stored is about the disk, and speaks of  *)
(* every directory that a power loss may leave: the intent that it names   *)
(* explains it, they all make the same file the log (but for the           *)
(* predecessor while the replacement's name is not durable), that file     *)
(* holds what was acknowledged durably, and nothing at or above the floor  *)
(* that the visible log does not hold.  Control is about the operation in  *)
(* progress: what each of its steps relies on.  The lemmas come in the     *)
(* order of what an action touches: nothing on the disk, a flush of the    *)
(* directory, a change of it, a log file.                                  *)
(***************************************************************************)
EXTENDS WalCompaction, SequenceTheorems, FiniteSetTheorems, WellFoundedInduction, TLAPS

\* The states of an intent before its replacement is recorded as the log, and
\* after its predecessor was emptied.
EarlyState == {"Prepared", "PublishArmed"}
Done == {"Cleaned", "NamespaceDurable"}

\* The directories that a power loss may leave.
Dirs  == {dirs[i] : i \in 1 .. Len(dirs)}
Alone == Dirs = {Cur}

\* The record of the intent that directory d names, and the file that opening
\* d makes the log.
Rec(d)  == Last(intents[d.intent])
Void(d) == d.wal = NoFile /\ d.intent = NoFile
Read(d) == IF d.wal # NoFile THEN d.wal
           ELSE IF d.intent # NoFile THEN Rec(d).pred ELSE NoFile
Now     == Read(Cur)

---------------------------------------------------------------------------
(* The parts of TypeOK.                                                    *)

DiskType == /\ dirs \in Seq(Dir) /\ Len(dirs) > 0
            /\ wal \in [File -> [data : Seq(0 .. MaxRecords), dur : 0 .. MaxRecords]]
            /\ intents \in [File -> Seq(Intent)] /\ files \in 0 .. MaxFiles
NumType  == /\ written \in 0 .. MaxRecords /\ acked \subseteq 1 .. MaxRecords
            /\ floor \in 1 .. MaxRecords + 1
            /\ faults \in 0 .. MaxFaults /\ crashes \in 0 .. MaxCrashes
FileType == /\ handle \in File \cup {NoFile} /\ pred \in File \cup {NoFile}
            /\ repl \in File \cup {NoFile} /\ before \in File \cup {NoFile}
WordType == pc \in Step /\ goal \in Goal /\ want \in State /\ after \in Step /\ result \in Result

---------------------------------------------------------------------------
(* The directory.                                                          *)

\* Intent record x explains directory d.
Fits(x, d) ==
    /\ x.pred # x.repl
    /\ d.guards \subseteq {x.pred} /\ x.pred \notin d.temps /\ d.wal \notin d.temps
    /\ \/ x.st \in EarlyState /\ d.wal = x.pred
       \/ x.st = "PublishArmed" /\ d.wal \in {NoFile, x.repl} /\ x.pred \in d.guards
       \/ x.st \in {"Checkpointed", "CleanupArmed"} /\ d.wal = x.repl /\ x.pred \in d.guards
       \/ x.st \in Done /\ d.wal = x.repl

\* Its predecessor is empty once it is recorded as cleaned.
Emptied(x) == x.st \in Done => wal[x.pred].data = <<>>

Known(f) == f \in 1 .. files

\* An opening can make sense of directory d.
Good(d) ==
    /\ d.wal # NoFile => Known(d.wal)
    /\ d.temps \subseteq 1 .. files
    /\ d.intent = NoFile => d.guards = {} /\ d.wal \notin d.temps
    /\ Void(d) => d.temps = {}
    /\ d.intent # NoFile =>
          /\ Known(d.intent) /\ intents[d.intent] # <<>>
          /\ Known(Rec(d).pred) /\ Known(Rec(d).repl)
          /\ d.intent \notin {d.wal, Rec(d).pred, Rec(d).repl}
          /\ Fits(Rec(d), d) /\ Emptied(Rec(d))

DirInv == \A d \in Dirs : Good(d)

\* All directories that a power loss may leave have the same log, but for the
\* predecessor while the name of the replacement is not durable.
Mixed == Pending /\ Latest.st = "PublishArmed" /\ Cur.wal = Latest.repl

Agree == \A d \in Dirs : \/ Read(d) \in {NoFile, Now}
                         \/ Mixed /\ Read(d) = Latest.pred

\* The replacement is recorded as the log only when its name is durable.
SettledInv ==
    \A d \in Dirs : d.intent # NoFile /\ Rec(d).st \in {"Checkpointed", "CleanupArmed"} => Alone

\* Files that are still to be created are empty.
Unused == \A f \in File : f > files => wal[f] = Durable(<<>>)

---------------------------------------------------------------------------
(* The records.                                                            *)

Kepts(S) == {r \in S : r >= floor}
DurItems(f) == {wal[f].data[i] : i \in 1 .. wal[f].dur}
NoTorn(f) == \A i \in 1 .. Len(wal[f].data) : wal[f].data[i] # Torn

DataInv ==
    \A f \in File : /\ wal[f].dur <= Len(wal[f].data) /\ Len(wal[f].data) <= written
                    /\ \A i \in 1 .. Len(wal[f].data) : wal[f].data[i] <= written
                    /\ Decodes(f)

\* Whatever a power loss leaves holds what was acknowledged, and nothing at or
\* above the floor that was gone.
Covers ==
    \A d \in Dirs :
        Read(d) # NoFile => /\ Kepts(acked) \subseteq DurItems(Read(d))
                            /\ Kepts(Items(Read(d))) \subseteq Items(Now)

\* While a power loss may leave no log at all nothing was acknowledged.
VoidInv ==
    /\ \A d \in Dirs : Void(d) => acked = {}
    /\ \A i, j \in 1 .. Len(dirs) : i < j /\ Void(dirs[j]) => Void(dirs[i])

---------------------------------------------------------------------------
(* The operation in progress.                                              *)

PostUnlink == {"unlinkFlush", "rename", "renameFlush", "reopen"}
Writing == {"persist", "persistFlush", "persistRename", "persistDirFlush"}
Building == \/ pc \in {"link", "linkFlush", "arm", "unlink"} \cup PostUnlink
            \/ pc \in Writing /\ after \in {"link", "unlink"}
Clearing == {"rollbackFlush", "retained", "retainedFlush", "clearIntent", "tombstoneFlush"}
Resuming == {"open", "rollback", "undo", "finish"}
Steps == Step \ {"refused"}

\* The open log ends with a whole record; the replacement is durable, and holds
\* what it is to hold; the intent that is to be recorded fits the directory; it
\* is written to the file created last.
Whole    == NoTorn(handle)
Synced   == wal[repl].dur = Len(wal[repl].data) /\ NoTorn(repl)
Exact    == Items(repl) = Kepts(Items(pred))
Ready    == Emptied(Wanted)
Fitting  == Fits(Wanted, Cur) /\ Known(pred) /\ Known(repl)
Drafted  == files \in File /\ intents[files] = <<Wanted>> /\ files \notin {pred, repl, Cur.wal}
Existing == Known(pred) /\ Known(repl)

\* The log is open, and its handle is that of the visible log.
HandleInv ==
    pc \notin {"closed", "restoreFlush"} \cup PostUnlink => handle = Cur.wal /\ handle # NoFile

\* Which goal goes with which step.
GoalInv ==
    /\ pc \in Steps /\ want \in State
    /\ pc \in {"closed", "restoreFlush"} => goal = "open"
    /\ pc \in {"orphans", "orphansFlush"} => goal \in {"open", "reopened"}
    /\ pc \in {"resolve", "resolving", "resolved", "rollbackFlush", "retained", "retainedFlush"} =>
          goal \in Resuming
    /\ pc \in {"clearIntent", "clearFlush"} =>
          (after = "resolve" /\ goal \in Resuming) \/ (after = "temp" /\ goal = "clear")
    /\ pc \in {"tombstone", "tombstoneFlush"} => goal = "clear"
    /\ pc = "temp" => goal \in {"clear", "build"}
    /\ pc \in {"abandon", "abandonFlush"} => goal \in {"build", "rollback"}
    /\ pc \in Writing => after \in {"link", "unlink", "resolve", "failed"}
    /\ pc \in Writing /\ after = "resolve" => goal \in Resuming
    /\ pc \in {"rollbackFlush", "retained", "retainedFlush"} => after = "resolve"
    /\ Building => goal = "build"

\* What a compaction that was not published works on.
BeforeInv ==
    /\ goal \in {"clear", "build", "rollback", "undo"} /\ pc \notin PostUnlink =>
          handle = before /\ Whole
    /\ goal \in {"rollback", "undo"} /\ Pending =>
          Latest.st \in EarlyState /\ Cur.wal = Latest.pred
    /\ goal \in {"rollback", "undo"} /\ pc \in {"clearFlush"} \cup Writing =>
          want \in EarlyState /\ Cur.wal = pred
    /\ goal = "finish" => handle # before /\ before # NoFile /\ Whole
    /\ pc = "ready" => Whole
    /\ pc \in {"tombstone", "tombstoneFlush", "temp"} => result = "None"
    /\ pc \in {"clearIntent", "clearFlush"} /\ goal = "clear" => result = "None"

\* Whether there is an intent, and which.
IntentInv ==
    /\ Pending /\ (\/ pc \in {"inspect", "ready"}
                   \/ pc \in {"orphans", "orphansFlush"} /\ goal = "reopened") =>
          Latest.st = "NamespaceDurable"
    /\ pc \in {"orphansFlush", "resolved", "temp", "clearFlush"} => ~Pending
    /\ pc = "resolving" => Pending
    /\ pc = "tombstone" => Pending /\ Latest.st = "NamespaceDurable"
    /\ pc \in Clearing =>
          /\ Pending /\ Latest.pred = pred /\ Latest.repl = repl /\ Cur.guards = {}
          /\ \/ Latest.st \in EarlyState /\ Cur.wal = pred /\ pc # "tombstoneFlush"
             \/ Latest.st = "NamespaceDurable" /\ pc \in {"clearIntent", "tombstoneFlush"}
    /\ pc = "clearIntent" /\ after = "resolve" => Latest.st \in EarlyState
    /\ pc \in {"abandon", "abandonFlush"} /\ Pending =>
          Latest.st \in EarlyState /\ Cur.wal = Latest.pred
    /\ goal = "clear" /\ Pending => Latest.st \in Done
    /\ goal = "clear" /\ pc \in {"clearFlush"} \cup Writing => want = "Cleaned"

\* An intent that is to be published fits; one that is to be extended is durable.
PersistInv ==
    /\ pc \in {"clearFlush", "persistRename"} \/ (pc = "persist" /\ after \in {"link", "failed"}) =>
          /\ ~Pending /\ Fitting /\ Ready
          /\ want \in EarlyState \cup {"Cleaned"}
    /\ pc \in {"persistRename", "persistDirFlush"} => after \in {"link", "failed"}
    /\ pc = "persistRename" => Drafted
    /\ pc \in {"persistFlush", "persistDirFlush"} => Pending /\ Latest = Wanted
    /\ pc = "persistFlush" => after \in {"unlink", "resolve"}
    /\ pc = "persist" /\ after \in {"unlink", "resolve"} =>
          /\ Pending /\ Latest.pred = pred /\ Latest.repl = repl /\ Alone /\ Ready
    /\ pc = "persist" /\ after = "resolve" =>
          /\ Cur.wal = repl
          /\ \/ Latest.st = "PublishArmed" /\ want = "Checkpointed"
             \/ Latest.st = "Checkpointed" /\ want = "CleanupArmed"
             \/ Latest.st = "CleanupArmed" /\ want = "Cleaned"
             \/ Latest.st = "Cleaned" /\ want = "NamespaceDurable"
    /\ pc = "persist" /\ after = "unlink" => Latest.st = "Prepared" /\ want = "PublishArmed"

\* A compaction up to its publication.
BuildInv ==
    Building =>
        /\ result = "None" /\ pred = before /\ pred # repl /\ Existing /\ Synced
        /\ pc \notin {"renameFlush", "reopen"} => Exact
        /\ after = "link" /\ pc \in Writing => want = "Prepared"
        /\ after = "unlink" /\ pc \in Writing => want = "PublishArmed"
        /\ pc \notin Writing => Pending /\ Latest.pred = pred /\ Latest.repl = repl
        /\ pc \in {"link", "linkFlush", "arm"} => Latest.st = "Prepared"
        /\ pc \in {"unlink"} \cup PostUnlink => Latest.st = "PublishArmed"
        /\ pc \in {"linkFlush", "arm", "unlink"} \/ (pc \in Writing /\ after = "unlink") =>
              pred \in Cur.guards
        /\ pc \in {"arm", "unlink", "reopen"} \/ (pc \in Writing /\ after = "unlink") => Alone
        /\ pc \in {"unlinkFlush", "rename"} => Cur.wal = NoFile
        /\ pc \in {"renameFlush", "reopen"} => Cur.wal = repl

\* What a compaction reported stands for every directory.
ResultInv ==
    /\ result \in {"RejectedBeforeWrite", "Succeeded"} => before # NoFile
    /\ \A d \in Dirs : /\ result = "RejectedBeforeWrite" => Read(d) \in {NoFile, before}
                       /\ result = "Succeeded" => Read(d) # before

Stored == DirInv /\ Agree /\ SettledInv /\ Unused /\ DataInv /\ Covers /\ VoidInv
Control == HandleInv /\ GoalInv /\ BeforeInv /\ IntentInv /\ PersistInv /\ BuildInv

IInv == TypeOK /\ Stored /\ Control /\ ResultInv

---------------------------------------------------------------------------
(* Numbers, sequences and sets.                                            *)

\* A property of 0 that passes from every number to the next is one of all
\* numbers.
LEMMA Induction ==
    ASSUME NEW T, T \subseteq Nat, 0 \in T, \A n \in T : n + 1 \in T
    PROVE  T = Nat
  <1> SUFFICES ASSUME Nat \ T # {} PROVE FALSE
    OBVIOUS
  <1>1. Nat \ T \subseteq Nat
    OBVIOUS
  <1>2. PICK x \in Nat \ T : \A y \in Nat \ T : ~(<<y, x>> \in OpToRel(<, Nat))
    BY <1>1, NatLessThanWellFounded, WFMin
  <1>3. \A y \in Nat \ T : ~(y < x)
    BY <1>2 DEF OpToRel
  <1>4. x # 0 /\ x - 1 \in Nat /\ x - 1 < x
    OBVIOUS
  <1>5. x - 1 \in T
    BY <1>3, <1>4
  <1>6. QED
    BY <1>4, <1>5

\* A set of numbers that has a member has a smallest one.
LEMMA Smallest ==
    ASSUME NEW S, S \subseteq Nat, S # {}
    PROVE  \E x \in S : \A y \in S : x <= y
  <1>1. PICK x \in S : \A y \in S : ~(<<y, x>> \in OpToRel(<, Nat))
    BY NatLessThanWellFounded, WFMin
  <1>2. \A y \in S : ~(y < x)
    BY <1>1 DEF OpToRel
  <1>3. \A y \in S : x <= y
    BY <1>2
  <1>4. QED
    BY <1>3

\* The copy of a compaction: the loop of Kept, made a definition.
Copying(data, f, n) ==
    CHOOSE c : c = [i \in 0 .. n |-> IF i = 0 THEN <<>>
                                     ELSE IF data[i] >= f THEN Append(c[i - 1], data[i])
                                     ELSE c[i - 1]]

\* The loop is well defined.
LEMMA CopyingIs ==
    ASSUME NEW data, NEW f, NEW n \in Nat
    PROVE  Copying(data, f, n) =
             [i \in 0 .. n |-> IF i = 0 THEN <<>>
                               ELSE IF data[i] >= f THEN Append(Copying(data, f, n)[i - 1], data[i])
                               ELSE Copying(data, f, n)[i - 1]]
  <1> DEFINE Is(c, m) == c = [i \in 0 .. m |-> IF i = 0 THEN <<>>
                                     ELSE IF data[i] >= f THEN Append(c[i - 1], data[i])
                                     ELSE c[i - 1]]
             T == {m \in Nat : \E c : Is(c, m)}
  <1>1. T \subseteq Nat
    OBVIOUS
  <1>2. 0 \in T
    <2>1. Is([i \in 0 .. 0 |-> <<>>], 0)
      OBVIOUS
    <2>2. QED
      BY <2>1
  <1>3. ASSUME NEW m \in T
        PROVE  m + 1 \in T
    <2>1. PICK c : Is(c, m)
      OBVIOUS
    <2> DEFINE last == IF data[m + 1] >= f THEN Append(c[m], data[m + 1]) ELSE c[m]
               e == [i \in 0 .. m + 1 |-> IF i <= m THEN c[i] ELSE last]
    <2>2. m \in Nat /\ m + 1 \in Nat
      OBVIOUS
    <2>3. ASSUME NEW i \in 0 .. m + 1
          PROVE  e[i] = IF i = 0 THEN <<>>
                        ELSE IF data[i] >= f THEN Append(e[i - 1], data[i]) ELSE e[i - 1]
      <3>1. CASE i = m + 1
        BY <2>2, <3>1
      <3>2. CASE i # m + 1
        <4>1. i \in 0 .. m /\ e[i] = c[i] /\ (i # 0 => i - 1 \in 0 .. m /\ e[i - 1] = c[i - 1])
          BY <2>2, <3>2
        <4> HIDE DEF e
        <4>2. QED
          BY <2>1, <4>1
      <3>3. QED
        BY <3>1, <3>2
    <2>4. Is(e, m + 1)
      <3> DEFINE g == [i \in 0 .. m + 1 |-> IF i = 0 THEN <<>>
                                     ELSE IF data[i] >= f THEN Append(e[i - 1], data[i])
                                     ELSE e[i - 1]]
      <3>1. \A i \in 0 .. m + 1 : e[i] = g[i]
        BY <2>3
      <3>2. e = [i \in 0 .. m + 1 |-> e[i]] /\ g = [i \in 0 .. m + 1 |-> g[i]]
        OBVIOUS
      <3> HIDE DEF e
      <3>3. e = g
        <4> HIDE DEF g
        <4>1. QED
          BY <3>1, <3>2
      <3>4. QED
        BY <3>3
    <2> HIDE DEF e
    <2>5. QED
      BY <2>2, <2>4
  <1> HIDE DEF T
  <1>4. T = Nat
    BY <1>1, <1>2, <1>3, Induction
  <1>5. \E c : Is(c, n)
    BY <1>4 DEF T
  <1>6. QED
    BY <1>5 DEF Copying

\* c holds those of the first x records of data that are at or above f.
CopyOf(c, data, f, m, x) ==
    /\ c \in Seq(0 .. m) /\ Len(c) <= x
    /\ \A j \in 1 .. Len(c) : \E k \in 1 .. x : c[j] = data[k] /\ data[k] >= f
    /\ \A k \in 1 .. x : data[k] >= f => \E j \in 1 .. Len(c) : c[j] = data[k]

\* That is what the loop has copied after x records.
LEMMA CopiedFacts ==
    ASSUME NEW m \in Nat, NEW data \in Seq(0 .. m), NEW f \in Nat, NEW i \in 0 .. Len(data)
    PROVE  CopyOf(Copying(data, f, Len(data))[i], data, f, m, i)
  <1> DEFINE n == Len(data)
             C == Copying(data, f, n)
             Ok(c, x) == CopyOf(c, data, f, m, x)
             T == {x \in Nat : x <= n => Ok(C[x], x)}
  <1>1. n \in Nat
    OBVIOUS
  <1>2. C = [x \in 0 .. n |-> IF x = 0 THEN <<>>
                              ELSE IF data[x] >= f THEN Append(C[x - 1], data[x]) ELSE C[x - 1]]
    BY <1>1, CopyingIs
  <1> HIDE DEF C
  <1>3. T \subseteq Nat
    OBVIOUS
  <1>4. 0 \in T
    <2>1. C[0] = <<>>
      BY <1>1, <1>2
    <2>2. Ok(<<>>, 0)
      BY DEF CopyOf
    <2>3. QED
      BY <2>1, <2>2
  <1>5. ASSUME NEW x \in T
        PROVE  x + 1 \in T
    <2>1. x \in Nat /\ x + 1 \in Nat
      OBVIOUS
    <2> SUFFICES ASSUME x + 1 <= n
                 PROVE  Ok(C[x + 1], x + 1)
      BY <2>1
    <2>2. Ok(C[x], x)
      BY <1>1, <2>1
    <2>3. /\ data[x + 1] \in 0 .. m
          /\ C[x + 1] = IF data[x + 1] >= f THEN Append(C[x], data[x + 1]) ELSE C[x]
      <3>1. x + 1 \in 1 .. n /\ x + 1 \in 0 .. n /\ x + 1 # 0 /\ (x + 1) - 1 = x
        BY <1>1, <2>1
      <3>2. data[x + 1] \in 0 .. m
        BY <3>1
      <3> HIDE DEF n
      <3>3. C[x + 1] = [y \in 0 .. n |-> IF y = 0 THEN <<>>
                           ELSE IF data[y] >= f THEN Append(C[y - 1], data[y])
                           ELSE C[y - 1]][x + 1]
        BY <1>2
      <3>4. C[x + 1] = IF data[x + 1] >= f THEN Append(C[(x + 1) - 1], data[x + 1])
                       ELSE C[(x + 1) - 1]
        BY <3>1, <3>3
      <3>5. QED
        BY <3>1, <3>2, <3>4
    <2> PICK c : c = C[x]
      OBVIOUS
    <2> PICK r : r = data[x + 1]
      OBVIOUS
    <2>4. Ok(c, x) /\ r \in 0 .. m
      BY <2>2, <2>3
    <2>8. Len(c) \in Nat /\ Len(c) <= x
      BY <2>4 DEF CopyOf
    <2> HIDE DEF n
    <2>5. CASE r >= f
      <3>1. C[x + 1] = Append(c, r)
        BY <2>3, <2>5
      <3>2. /\ Append(c, r) \in Seq(0 .. m) /\ Len(Append(c, r)) = Len(c) + 1
            /\ \A j \in 1 .. Len(c) : Append(c, r)[j] = c[j]
            /\ Append(c, r)[Len(c) + 1] = r
        BY <2>4 DEF CopyOf
      <3> PICK e : e = Append(c, r)
        OBVIOUS
      <3>3. Len(c) \in Nat /\ Len(e) = Len(c) + 1 /\ Len(e) <= x + 1
        BY <2>1, <2>8, <3>2
      <3>4. \A j \in 1 .. Len(e) : \E k \in 1 .. x + 1 : e[j] = data[k] /\ data[k] >= f
        <4> TAKE j \in 1 .. Len(e)
        <4>1. CASE j = Len(c) + 1
          BY <2>1, <2>5, <3>2, <3>3, <4>1
        <4>2. CASE j # Len(c) + 1
          <5>1. j \in 1 .. Len(c)
            <6>1. j \in Nat /\ 1 <= j /\ j <= Len(c) + 1
              BY <3>3
            <6>2. QED
              BY SMTT(30), <2>8, <4>2, <6>1
          <5>2. PICK k \in 1 .. x : c[j] = data[k] /\ data[k] >= f
            BY <2>4, <5>1 DEF CopyOf
          <5>3. k \in 1 .. x + 1 /\ e[j] = c[j]
            BY <2>1, <3>2, <5>1
          <5>4. QED
            BY <5>2, <5>3
        <4>3. QED
          BY <4>1, <4>2
      <3>5. \A k \in 1 .. x + 1 : data[k] >= f => \E j \in 1 .. Len(e) : e[j] = data[k]
        <4> TAKE k \in 1 .. x + 1
        <4> HAVE data[k] >= f
        <4>1. CASE k = x + 1
          <5>1. Len(c) + 1 \in 1 .. Len(e)
            BY <3>3
          <5>2. QED
            BY <3>2, <4>1, <5>1
        <4>2. CASE k # x + 1
          <5>1. k \in 1 .. x
            BY <2>1, <4>2
          <5>2. PICK j \in 1 .. Len(c) : c[j] = data[k]
            BY <2>4, <5>1 DEF CopyOf
          <5>3. j \in 1 .. Len(e) /\ e[j] = c[j]
            BY <3>2, <3>3
          <5>4. QED
            BY <5>2, <5>3
        <4>3. QED
          BY <4>1, <4>2
      <3>6. QED
        <4>1. e \in Seq(0 .. m)
          BY <3>2
        <4>2. Ok(e, x + 1)
          BY <3>3, <3>4, <3>5, <4>1 DEF CopyOf
        <4>3. QED
          BY <3>1, <4>2
    <2>6. CASE ~(r >= f)
      <3>1. C[x + 1] = c
        BY <2>3, <2>6
      <3>2. \A k \in 1 .. x + 1 : k \in 1 .. x \/ k = x + 1
        BY <2>1
      <3>3. \A k \in 1 .. x : k \in 1 .. x + 1
        BY <2>1
      <3>4. Len(c) <= x + 1
        BY <2>1, <2>8
      <3>6. Ok(c, x + 1)
        BY <2>4, <2>6, <3>2, <3>3, <3>4 DEF CopyOf
      <3>5. QED
        BY <3>1, <3>6
    <2>7. QED
      BY <2>5, <2>6
  <1> HIDE DEF T
  <1>6. T = Nat
    BY <1>3, <1>4, <1>5, Induction
  <1>7. i \in Nat /\ i <= n
    BY <1>1
  <1>8. Ok(C[i], i)
    BY <1>6, <1>7 DEF T
  <1>9. QED
    BY <1>8 DEF C

\* The copy keeps exactly the records of the log at or above f.
LEMMA KeptFacts ==
    ASSUME TypeOK, handle \in File, NEW f \in Nat
    PROVE  LET data == wal[handle].data
           IN  /\ Kept(f) \in Seq(0 .. MaxRecords) /\ Len(Kept(f)) <= Len(data)
               /\ \A j \in 1 .. Len(Kept(f)) :
                      \E k \in 1 .. Len(data) : Kept(f)[j] = data[k] /\ data[k] >= f
               /\ \A k \in 1 .. Len(data) :
                      data[k] >= f => \E j \in 1 .. Len(Kept(f)) : Kept(f)[j] = data[k]
  <1>1. wal[handle].data \in Seq(0 .. MaxRecords) /\ MaxRecords \in Nat
    BY WalAssumption DEF TypeOK
  <1> PICK data : data = wal[handle].data
    OBVIOUS
  <1>2. Len(data) \in 0 .. Len(data) /\ data \in Seq(0 .. MaxRecords)
    BY <1>1
  <1>3. Kept(f) = Copying(data, f, Len(data))[Len(data)]
    BY DEF Kept, Copying
  <1> HIDE DEF Kept
  <1>4. CopyOf(Copying(data, f, Len(data))[Len(data)], data, f, MaxRecords, Len(data))
    BY <1>1, <1>2, CopiedFacts
  <1>5. QED
    BY <1>3, <1>4 DEF CopyOf

\* How often a file is named.
LEMMA NamedOnce ==
    ASSUME NEW f, Cur.wal = f, f \notin Cur.guards, f \notin Cur.temps
    PROVE  Links(f) = 1
  <1>1. {n \in {"wal", "guard", "temp"} : \/ n = "wal" /\ Cur.wal = f
                                          \/ n = "guard" /\ f \in Cur.guards
                                          \/ n = "temp" /\ f \in Cur.temps} = {"wal"}
    OBVIOUS
  <1>2. QED
    BY <1>1, FS_Singleton DEF Links

\* A file that has only the name of a guard has one link.
LEMMA NamedByGuard ==
    ASSUME NEW f, Cur.wal # f, f \in Cur.guards, f \notin Cur.temps
    PROVE  Links(f) = 1
  <1>1. {n \in {"wal", "guard", "temp"} : \/ n = "wal" /\ Cur.wal = f
                                          \/ n = "guard" /\ f \in Cur.guards
                                          \/ n = "temp" /\ f \in Cur.temps} = {"guard"}
    OBVIOUS
  <1>2. QED
    BY <1>1, FS_Singleton DEF Links

\* The log and its guard are one file with two links.
LEMMA NamedTwice ==
    ASSUME NEW f, Cur.wal = f, f \in Cur.guards, f \notin Cur.temps
    PROVE  Links(f) = 2
  <1>1. {n \in {"wal", "guard", "temp"} : \/ n = "wal" /\ Cur.wal = f
                                          \/ n = "guard" /\ f \in Cur.guards
                                          \/ n = "temp" /\ f \in Cur.temps} = {"wal"} \cup {"guard"}
    OBVIOUS
  <1>2. IsFiniteSet({"wal"}) /\ Cardinality({"wal"}) = 1 /\ "guard" \notin {"wal"}
    BY FS_Singleton
  <1>3. Cardinality({"wal"} \cup {"guard"}) = 2
    BY <1>2, FS_AddElement
  <1>4. QED
    BY <1>1, <1>3 DEF Links

\* TypeOK is made of its parts.
LEMMA TypeParts == TypeOK <=> DiskType /\ NumType /\ FileType /\ WordType
  BY DEF TypeOK, DiskType, NumType, FileType, WordType

\* The same of the next state.
LEMMA TypePartsNext == TypeOK' <=> DiskType' /\ NumType' /\ FileType' /\ WordType'
  BY DEF TypeOK, DiskType, NumType, FileType, WordType

---------------------------------------------------------------------------
(* The directory states.                                                   *)

\* The fields of a directory.
LEMMA DirFields ==
    ASSUME NEW d \in Dir
    PROVE  /\ d.wal \in File \cup {NoFile} /\ d.intent \in File \cup {NoFile}
           /\ d.guards \subseteq File /\ d.temps \subseteq File
  BY DEF Dir

\* Two directories with the same fields are the same.
LEMMA SameDir ==
    ASSUME NEW d \in Dir, NEW e \in Dir, d.wal = e.wal, d.intent = e.intent,
           d.guards = e.guards, d.temps = e.temps
    PROVE  d = e
  BY DEF Dir

\* The visible directory is one of those that a power loss may leave.
LEMMA DirsFacts == TypeOK => Cur \in Dirs /\ Dirs \subseteq Dir /\ Cur \in Dir
  <1> SUFFICES ASSUME TypeOK
               PROVE  Cur \in Dirs /\ Dirs \subseteq Dir
    OBVIOUS
  <1>1. dirs \in Seq(Dir) /\ Len(dirs) \in Nat /\ Len(dirs) \in 1 .. Len(dirs)
    BY SMTT(30) DEF TypeOK
  <1>2. Cur \in Dirs
    BY <1>1 DEF Cur, Dirs
  <1>3. Dirs \subseteq Dir
    BY <1>1 DEF Dirs
  <1>4. QED
    BY <1>2, <1>3

\* The same of the next state.
LEMMA DirsFactsNext == TypeOK' => Cur' \in Dirs' /\ Dirs' \subseteq Dir /\ Cur' \in Dir
  <1>1. (TypeOK => Cur \in Dirs /\ Dirs \subseteq Dir /\ Cur \in Dir)'
    BY DirsFacts, PTL
  <1>2. QED
    BY <1>1 DEF Dir, File

\* A change of the directory.
LEMMA Appended ==
    ASSUME TypeOK, NEW d \in Dir, Change(d)
    PROVE  /\ dirs' \in Seq(Dir) /\ Len(dirs') = Len(dirs) + 1 /\ Len(dirs') > 0
           /\ \A i \in 1 .. Len(dirs) : dirs'[i] = dirs[i]
           /\ Cur' = d /\ Dirs' = Dirs \cup {d}
  <1>1. /\ dirs \in Seq(Dir) /\ Len(dirs) \in Nat /\ dirs' = Append(dirs, d)
    BY DEF TypeOK, Change
  <1>2. /\ dirs' \in Seq(Dir) /\ Len(dirs') = Len(dirs) + 1 /\ Len(dirs') > 0
        /\ \A i \in 1 .. Len(dirs) : dirs'[i] = dirs[i]
        /\ dirs'[Len(dirs) + 1] = d
    BY <1>1
  <1>3. Cur' = d
    BY <1>2 DEF Cur
  <1>4. Dirs' \subseteq Dirs \cup {d}
    <2>1. ASSUME NEW i \in 1 .. Len(dirs')
          PROVE  dirs'[i] \in Dirs \cup {d}
      <3>1. i = Len(dirs) + 1 \/ i \in 1 .. Len(dirs)
        BY <1>1, <1>2
      <3>2. QED
        BY <1>2, <3>1 DEF Dirs
    <2>2. QED
      BY <2>1 DEF Dirs
  <1>5. Dirs \cup {d} \subseteq Dirs'
    <2>1. \A i \in 1 .. Len(dirs) : i \in 1 .. Len(dirs') /\ dirs[i] = dirs'[i]
      BY <1>1, <1>2
    <2>2. Dirs \subseteq Dirs'
      BY <2>1 DEF Dirs
    <2>3. Len(dirs) + 1 \in 1 .. Len(dirs')
      BY <1>1, <1>2
    <2>4. d \in Dirs'
      BY <1>2, <2>3 DEF Dirs
    <2>5. QED
      BY <2>2, <2>4
  <1>6. QED
    BY <1>2, <1>3, <1>4, <1>5

\* A directory that was flushed is the only one.
LEMMA Replaced ==
    ASSUME NEW d \in Dir, dirs' = <<d>>
    PROVE  /\ dirs' \in Seq(Dir) /\ Len(dirs') > 0 /\ Len(dirs') = 1
           /\ Cur' = d /\ Dirs' = {d}
  <1>1. dirs' \in Seq(Dir) /\ Len(dirs') > 0 /\ Len(dirs') = 1 /\ dirs'[1] = d
    OBVIOUS
  <1>2. Cur' = d
    BY <1>1 DEF Cur
  <1>3. 1 .. 1 = {1}
    OBVIOUS
  <1>4. Dirs' = {d}
    BY <1>1, <1>3 DEF Dirs
  <1>5. QED
    BY <1>1, <1>2, <1>4

\* Flushing the log makes the directory durable up to the creation of its
\* name: no directory without a log is left.
LEMMA Trimmed ==
    ASSUME TypeOK, Stored, NEW f \in File, Cur.wal = f,
           dirs' = SubSeq(dirs, FirstNamed(f), Len(dirs))
    PROVE  /\ dirs' \in Seq(Dir) /\ Len(dirs') > 0
           /\ Cur' = Cur /\ Dirs' \subseteq Dirs /\ \A d \in Dirs' : ~Void(d)
           /\ VoidInv'
  <1>0. dirs \in Seq(Dir) /\ Len(dirs) \in Nat /\ Len(dirs) > 0
    BY DEF TypeOK
  <1> DEFINE n == Len(dirs)
             S == {i \in 1 .. n : Named(dirs[i], f)}
             m == FirstNamed(f)
  <1>1. dirs \in Seq(Dir) /\ n \in Nat /\ n > 0 /\ n \in 1 .. n
    BY <1>0
  <1>2. n \in S
    BY <1>1 DEF Named, Cur
  <1>3. S \subseteq Nat /\ S # {}
    BY <1>2
  <1>4. PICK x \in S : \A y \in S : x <= y
    BY <1>3, Smallest
  <1>5. x \in 1 .. n /\ Named(dirs[x], f) /\ \A j \in 1 .. x - 1 : ~Named(dirs[j], f)
    <2>1. x \in 1 .. n /\ Named(dirs[x], f)
      OBVIOUS
    <2>2. ASSUME NEW j \in 1 .. x - 1, Named(dirs[j], f)
          PROVE  FALSE
      <3>1. j \in 1 .. n /\ ~(x <= j)
        BY <1>1, <2>1
      <3>2. QED
        BY <1>4, <2>2, <3>1
    <2>3. QED
      BY <2>1, <2>2
  <1>6. m \in 1 .. n /\ Named(dirs[m], f)
    BY <1>5 DEF FirstNamed
  <1> HIDE DEF m, S
  <1>7. /\ Len(dirs') = n - m + 1
        /\ \A i \in 1 .. n - m + 1 : i + m - 1 \in 1 .. n /\ dirs'[i] = dirs[i + m - 1]
    BY SMTT(30), <1>1, <1>6 DEF m
  <1>8. dirs' \in Seq(Dir)
    BY <1>1, <1>6 DEF m
  <1>9. n - m + 1 \in 1 .. n - m + 1 /\ n - m + 1 > 0 /\ (n - m + 1) + m - 1 = n
    BY <1>1, <1>6
  <1>10. Cur' = Cur
    BY <1>7, <1>9 DEF Cur
  <1>11. Dirs' \subseteq Dirs
    BY <1>7 DEF Dirs
  <1>12. ~Void(dirs[m])
    <2>1. dirs[m] \in Dirs /\ dirs[m] \in Dir
      BY <1>1, <1>6 DEF Dirs
    <2>2. Good(dirs[m])
      BY <2>1 DEF Stored, DirInv
    <2>3. f # NoFile
      BY DEF File, NoFile
    <2>4. QED
      BY <1>6, <2>2, <2>3 DEF Void, Good, Named
  <1>13. \A i \in 1 .. n : i >= m => ~Void(dirs[i])
    <2> TAKE i \in 1 .. n
    <2> HAVE i >= m
    <2>1. i = m \/ m < i
      BY <1>6
    <2>2. QED
      BY <1>6, <1>12, <2>1 DEF Stored, VoidInv
  <1>14. ASSUME NEW i \in 1 .. Len(dirs')
         PROVE  ~Void(dirs'[i])
    <2>1. i \in 1 .. n - m + 1 /\ i + m - 1 \in 1 .. n /\ i + m - 1 >= m
      BY <1>1, <1>6, <1>7
    <2>2. QED
      BY <1>7, <1>13, <2>1
  <1>15. \A d \in Dirs' : ~Void(d)
    BY <1>14 DEF Dirs
  <1>16. VoidInv'
    BY <1>14, <1>15 DEF VoidInv, Void
  <1>17. QED
    BY <1>7, <1>8, <1>9, <1>10, <1>11, <1>15, <1>16

---------------------------------------------------------------------------
(* Steps that leave the log file to read as it is.                         *)

\* What is seen of the directory.
LEMMA SameView ==
    ASSUME Cur' = Cur, intents' = intents
    PROVE  /\ Pending' = Pending /\ Latest' = Latest /\ Now' = Now /\ Mixed' = Mixed
           /\ \A d : Rec(d)' = Rec(d) /\ Read(d)' = Read(d) /\ Void(d)' = Void(d)
  <1>1. Pending' = Pending /\ Latest' = Latest
    BY DEF Pending, Latest, Last
  <1>2. \A d : Rec(d)' = Rec(d)
    BY DEF Rec, Last
  <1>3. \A d : Read(d)' = Read(d) /\ Void(d)' = Void(d)
    BY <1>2 DEF Read, Void
  <1>4. Mixed' = Mixed
    BY <1>1 DEF Mixed
  <1>5. Now' = Now
    BY <1>2 DEF Now, Read
  <1>6. QED
    BY <1>1, <1>2, <1>3, <1>4, <1>5

\* The latest record is the one the visible directory names.
LEMMA LatestIs == Latest = Rec(Cur)
  BY DEF Latest, Rec

\* What a reader is given is what is in the log file to read.
LEMMA ReadableIs == Readable = IF Void(Cur) THEN {} ELSE Items(Now)
  <1>1. CASE Cur.wal # NoFile
    BY <1>1 DEF Readable, Now, Read, Void
  <1>2. CASE Cur.wal = NoFile /\ ~Pending
    BY <1>2 DEF Readable, Void, Pending
  <1>3. CASE Cur.wal = NoFile /\ Pending
    <2>1. Now = Latest.pred
      BY <1>3, LatestIs DEF Now, Read, Pending
    <2>2. QED
      BY <1>3, <2>1 DEF Readable, Void, Pending
  <1>4. QED
    BY <1>1, <1>2, <1>3

\* What an operation records in the files of the log.
LEMMA SameFile ==
    ASSUME NEW f, wal'[f] = wal[f]
    PROVE  /\ Items(f)' = Items(f) /\ DurItems(f)' = DurItems(f) /\ NoTorn(f)' = NoTorn(f)
           /\ Decodes(f)' = Decodes(f)
  BY DEF Items, DurItems, NoTorn, Decodes

\* The ranges of what is recorded.
LEMMA Ranges ==
    ASSUME TypeOK
    PROVE  /\ files \in Nat /\ files <= MaxFiles /\ floor \in Nat /\ floor >= 1
           /\ written \in Nat /\ written <= MaxRecords /\ acked \subseteq 1 .. MaxRecords
           /\ MaxRecords \in Nat /\ MaxFiles \in Nat /\ NoFile \notin File
           /\ \A f \in File : f \in Nat
  <1>1. MaxRecords \in Nat /\ MaxFiles \in Nat
    BY WalAssumption
  <1>2. /\ files \in Nat /\ files <= MaxFiles /\ floor \in Nat /\ floor >= 1
        /\ written \in Nat /\ written <= MaxRecords /\ acked \subseteq 1 .. MaxRecords
    BY <1>1 DEF TypeOK
  <1>3. NoFile \notin File /\ \A f \in File : f \in Nat
    BY <1>1 DEF File, NoFile
  <1>4. QED
    BY <1>1, <1>2, <1>3

\* The contents of a log file.
LEMMA FileRanges ==
    ASSUME TypeOK, NEW f \in File
    PROVE  /\ wal[f].data \in Seq(0 .. MaxRecords)
           /\ wal[f].dur \in Nat /\ wal[f].dur <= MaxRecords /\ Len(wal[f].data) \in Nat
           /\ wal[f] = [data |-> wal[f].data, dur |-> wal[f].dur]
           /\ \A i \in 1 .. Len(wal[f].data) : wal[f].data[i] \in 0 .. MaxRecords
           /\ Items(f) \subseteq 1 .. MaxRecords
  <1>1. wal[f] \in [data : Seq(0 .. MaxRecords), dur : 0 .. MaxRecords] /\ MaxRecords \in Nat
    BY WalAssumption DEF TypeOK
  <1>2. /\ wal[f].data \in Seq(0 .. MaxRecords) /\ wal[f].dur \in 0 .. MaxRecords
        /\ wal[f] = [data |-> wal[f].data, dur |-> wal[f].dur]
    BY <1>1
  <1>3. wal[f].dur \in Nat /\ wal[f].dur <= MaxRecords /\ Len(wal[f].data) \in Nat
    BY <1>1, <1>2
  <1>4. \A i \in 1 .. Len(wal[f].data) : wal[f].data[i] \in 0 .. MaxRecords
    BY <1>2, ElementOfSeq
  <1>5. Items(f) \subseteq 1 .. MaxRecords
    BY <1>1, <1>4 DEF Items, Torn
  <1>6. QED
    BY <1>2, <1>3, <1>4, <1>5

\* The log file that a directory makes the log exists.
LEMMA ReadKnown ==
    ASSUME TypeOK, Stored, NEW d \in Dirs, Read(d) # NoFile
    PROVE  Known(Read(d)) /\ Read(d) \in File
  <1>1. Good(d)
    BY DEF Stored, DirInv
  <1>2. Known(Read(d))
    BY <1>1 DEF Read, Good
  <1>3. files \in Nat /\ files <= MaxFiles /\ MaxFiles \in Nat
    BY Ranges
  <1>4. QED
    BY <1>2, <1>3 DEF Known, File

\* The contents of the files stay, and so do the directories or some of them.
LEMMA NarrowedFacts ==
    ASSUME IInv, TypeOK', Dirs' \subseteq Dirs, Cur' = Cur, wal' = wal, intents' = intents,
           files' = files, acked' = acked, written' = written, floor' \in Nat, floor' >= floor,
           VoidInv'
    PROVE  /\ Stored' /\ Readable' = Readable
           /\ (result' = result /\ before' = before => ResultInv')
  <1> USE SameView
  <1>0. Cur' \in Dirs' /\ TypeOK /\ Stored /\ floor \in Nat
    BY DirsFactsNext, Ranges DEF IInv
  <1>1. DirInv'
    <2> SUFFICES ASSUME NEW d \in Dirs'
                 PROVE  Good(d)'
      BY DEF DirInv
    <2>1. Good(d)
      BY <1>0 DEF Stored, DirInv
    <2>2. QED
      BY <2>1 DEF Good, Void, Known, Fits, Emptied
  <1>2. Agree'
    BY <1>0 DEF Stored, Agree
  <1>3. SettledInv'
    <2> SUFFICES ASSUME NEW d \in Dirs', d.intent # NoFile,
                        Rec(d)'.st \in {"Checkpointed", "CleanupArmed"}
                 PROVE  Alone'
      BY DEF SettledInv
    <2>1. Alone
      BY <1>0 DEF Stored, SettledInv
    <2>2. QED
      BY <1>0, <2>1 DEF Alone
  <1>4. Unused' /\ DataInv'
    BY <1>0, SameFile DEF Stored, Unused, DataInv, Durable, Decodes
  <1>5. Covers'
    <2> SUFFICES ASSUME NEW d \in Dirs', Read(d)' # NoFile
                 PROVE  /\ Kepts(acked)' \subseteq DurItems(Read(d))'
                        /\ Kepts(Items(Read(d)))' \subseteq Items(Now)'
      BY DEF Covers
    <2> PICK g : g = Read(d)
      OBVIOUS
    <2>1. /\ Kepts(acked) \subseteq DurItems(g) /\ Kepts(Items(g)) \subseteq Items(Now)
          /\ g = Read(d)'
      BY <1>0 DEF Stored, Covers
    <2>2. Items(g)' = Items(g) /\ DurItems(g)' = DurItems(g) /\ Items(Now)' = Items(Now)
      BY DEF Items, DurItems
    <2>3. Kepts(acked)' \subseteq Kepts(acked) /\ \A r \in Items(g)' : r \in Nat
      <3>1. g \in File
        BY <1>0, <2>1, ReadKnown
      <3>2. \A r \in acked : r \in Nat
        BY <1>0, Ranges
      <3>3. \A r \in Items(g) : r \in Nat
        <4>1. Items(g) \subseteq 1 .. MaxRecords /\ MaxRecords \in Nat
          BY <1>0, <3>1, Ranges, FileRanges
        <4>2. QED
          BY <4>1
      <3>4. QED
        BY <1>0, <2>2, <3>2, <3>3 DEF Kepts
    <2>4. Kepts(Items(g))' \subseteq Kepts(Items(g))
      BY <1>0, <2>2, <2>3 DEF Kepts
    <2>5. QED
      BY <2>1, <2>2, <2>3, <2>4
  <1>6. Readable' = Readable
    <2>1. (Readable = IF Void(Cur) THEN {} ELSE Items(Now))'
      BY ReadableIs, PTL
    <2>2. QED
      BY <2>1, ReadableIs DEF Items, Void
  <1>7. result' = result /\ before' = before => ResultInv'
    BY DEF IInv, ResultInv
  <1>8. QED
    BY <1>1, <1>2, <1>3, <1>4, <1>5, <1>6, <1>7 DEF Stored

\* Nothing on the disk changes.
LEMMA SameDiskFacts ==
    ASSUME IInv, TypeOK', UNCHANGED disk, acked' = acked, written' = written,
           floor' \in Nat, floor' >= floor
    PROVE  /\ Stored' /\ Readable' = Readable
           /\ (result' = result /\ before' = before => ResultInv')
           /\ Cur' = Cur /\ Dirs' = Dirs /\ Pending' = Pending /\ Latest' = Latest /\ Now' = Now
           /\ Alone' = Alone
  <1>1. dirs' = dirs /\ wal' = wal /\ intents' = intents /\ files' = files
    BY DEF disk
  <1>2. Cur' = Cur /\ Dirs' = Dirs
    BY <1>1 DEF Cur, Dirs
  <1>3. Alone' = Alone
    BY <1>2 DEF Alone
  <1>4. VoidInv'
    BY <1>1, <1>2 DEF IInv, Stored, VoidInv, Void
  <1>5. QED
    BY <1>1, <1>2, <1>3, <1>4, NarrowedFacts, SameView

\* The directory is flushed.
LEMMA FlushedFacts ==
    ASSUME IInv, TypeOK', DirFlush, wal' = wal, intents' = intents, files' = files,
           acked' = acked, written' = written, floor' = floor
    PROVE  /\ Stored' /\ Readable' = Readable
           /\ (result' = result /\ before' = before => ResultInv')
           /\ Cur' = Cur /\ Dirs' = {Cur} /\ Pending' = Pending /\ Latest' = Latest /\ Now' = Now
           /\ Alone'
  <1>1. TypeOK /\ Cur \in Dir /\ Cur \in Dirs /\ floor \in Nat
    BY DirsFacts, Ranges DEF IInv
  <1>2. Len(dirs') = 1 /\ Cur' = Cur /\ Dirs' = {Cur}
    BY <1>1, Replaced DEF DirFlush
  <1>3. Alone'
    BY <1>2 DEF Alone
  <1>4. VoidInv'
    <2>1. \A d \in Dirs' : Void(d)' => acked' = {}
      BY <1>1, <1>2 DEF IInv, Stored, VoidInv, Void
    <2>2. \A i, j \in 1 .. 1 : ~(i < j)
      OBVIOUS
    <2>3. QED
      BY <1>2, <2>1, <2>2 DEF VoidInv
  <1>5. floor' \in Nat /\ floor' >= floor
    BY <1>1
  <1>6. Dirs' \subseteq Dirs
    BY <1>1, <1>2
  <1>7. QED
    BY <1>2, <1>3, <1>4, <1>5, <1>6, NarrowedFacts, SameView

\* A directory changes, and the log file to read stays the same.
LEMMA ExtendedFacts ==
    ASSUME IInv, TypeOK', NEW d \in Dir, Change(d), files' \in Nat, files' >= files,
           \A f \in 1 .. files : intents'[f] = intents[f] /\ wal'[f] = wal[f],
           Unused', DataInv', acked' = acked, floor' = floor,
           Good(d)', Read(d)' = Now, Now # NoFile, ~Mixed,
           Pending => Latest.st \notin {"Checkpointed", "CleanupArmed"},
           d.intent # NoFile => Rec(d)'.st \notin {"Checkpointed", "CleanupArmed"}
    PROVE  /\ Stored' /\ Readable' = Readable
           /\ (result' = result /\ before' = before => ResultInv')
           /\ Cur' = d /\ Dirs' = Dirs \cup {d} /\ Now' = Now
  <1>0. TypeOK /\ Stored /\ Cur \in Dirs /\ Cur \in Dir /\ Dirs \subseteq Dir /\ files \in Nat
    BY DirsFacts, Ranges DEF IInv
  <1>1. /\ Cur' = d /\ Dirs' = Dirs \cup {d} /\ Len(dirs') = Len(dirs) + 1
        /\ \A i \in 1 .. Len(dirs) : dirs'[i] = dirs[i]
    BY <1>0, Appended
  <1>2. Now' = Now
    BY <1>1 DEF Now, Read, Rec
  <1>3. \A e \in Dirs : e.intent # NoFile => Rec(e)' = Rec(e)
    BY <1>0 DEF Stored, DirInv, Good, Known, Rec
  <1>4. \A e \in Dirs : Read(e)' = Read(e) /\ Void(e)' = Void(e)
    BY <1>3 DEF Read, Void
  <1>5. DirInv'
    <2> SUFFICES ASSUME NEW e \in Dirs
                 PROVE  Good(e)'
      BY <1>1 DEF DirInv
    <2>1. Good(e)
      BY <1>0 DEF Stored, DirInv
    <2>2. e.intent # NoFile => Rec(e)' = Rec(e)
      BY <1>3
    <2>3. \A f : Known(f) => Known(f)'
      BY <1>0 DEF Known
    <2>4. e.temps \subseteq 1 .. files'
      BY <1>0, <2>1 DEF Good
    <2>5. e.intent # NoFile => intents'[e.intent] # <<>> /\ Emptied(Rec(e))'
      BY <2>1, <2>2 DEF Good, Known, Emptied
    <2>6. QED
      BY <2>1, <2>2, <2>3, <2>4, <2>5 DEF Good, Void, Fits
  <1>6. Agree'
    BY <1>0, <1>1, <1>2, <1>4 DEF Stored, Agree
  <1>7. SettledInv'
    <2>1. ASSUME NEW e \in Dirs, e.intent # NoFile,
                 Rec(e).st \in {"Checkpointed", "CleanupArmed"}
          PROVE  FALSE
      <3>1. e = Cur
        BY <1>0, <2>1 DEF Stored, SettledInv, Alone
      <3>2. QED
        BY <2>1, <3>1, LatestIs DEF Pending
    <2>2. QED
      BY <1>1, <1>3, <2>1 DEF SettledInv
  <1>8. Covers'
    <2> PICK g : g = Now
      OBVIOUS
    <2>1. Read(Cur) = g /\ g \in File /\ Known(g)
      BY <1>0, ReadKnown DEF Now
    <2>2. Items(g)' = Items(g)
      BY <2>1, SameFile DEF Known
    <2>3. ASSUME NEW e \in Dirs', Read(e)' # NoFile
          PROVE  /\ Kepts(acked)' \subseteq DurItems(Read(e))'
                 /\ Kepts(Items(Read(e)))' \subseteq Items(Now)'
      <3>1. PICK h : h = Read(e)'
        OBVIOUS
      <3>2. /\ Known(h) /\ Kepts(acked) \subseteq DurItems(h)
            /\ Kepts(Items(h)) \subseteq Items(g)
        <4>1. CASE e \in Dirs
          BY <1>0, <1>4, <2>3, <3>1, <4>1, ReadKnown DEF Stored, Covers
        <4>2. CASE e = d
          BY <1>0, <2>1, <3>1, <4>2 DEF Stored, Covers
        <4>3. QED
          BY <1>1, <4>1, <4>2
      <3>3. Items(h)' = Items(h) /\ DurItems(h)' = DurItems(h)
        BY <3>2, SameFile DEF Known
      <3>4. /\ Kepts(acked)' = Kepts(acked) /\ Kepts(Items(h))' = Kepts(Items(h))
            /\ Items(Now)' = Items(g)
        <4>1. Items(Now)' = Items(g)'
          BY <1>2 DEF Items
        <4>2. QED
          BY <2>2, <3>3, <4>1 DEF Kepts
      <3>5. /\ DurItems(Read(e))' = DurItems(h)'
            /\ Kepts(Items(Read(e)))' = Kepts(Items(h))'
        BY <3>1 DEF DurItems, Items, Kepts
      <3>6. QED
        BY <3>2, <3>3, <3>4, <3>5
    <2>4. QED
      BY <2>3 DEF Covers
  <1>9. VoidInv'
    <2>1. ~Void(d)
      BY DEF Void, Read
    <2>2. \A e \in Dirs' : Void(e)' => acked' = {}
      BY <1>0, <1>1, <2>1 DEF Stored, VoidInv, Void
    <2>3. ASSUME NEW i \in 1 .. Len(dirs'), NEW j \in 1 .. Len(dirs'), i < j, Void(dirs'[j])
          PROVE  Void(dirs'[i])
      <3>1. Len(dirs) \in Nat /\ dirs'[Len(dirs')] = d
        BY <1>0, <1>1 DEF TypeOK, Cur
      <3>2. j # Len(dirs')
        BY <2>1, <2>3, <3>1
      <3>3. i \in 1 .. Len(dirs) /\ j \in 1 .. Len(dirs)
        BY <1>1, <2>3, <3>1, <3>2
      <3>4. QED
        BY <1>0, <1>1, <2>3, <3>3 DEF Stored, VoidInv
    <2>4. QED
      BY <2>2, <2>3 DEF VoidInv, Void
  <1>10. Readable' = Readable
    <2>1. (Readable = IF Void(Cur) THEN {} ELSE Items(Now))'
      BY ReadableIs, PTL
    <2>2. ~Void(Cur) /\ ~Void(Cur)'
      BY <1>1 DEF Void, Read, Now
    <2>3. Items(Now)' = Items(Now)
      <3>1. Now \in 1 .. files
        BY <1>0, ReadKnown DEF Now, Known
      <3>2. QED
        BY <1>2, <3>1 DEF Items
    <2>4. QED
      BY <2>1, <2>2, <2>3, ReadableIs
  <1>11. result' = result /\ before' = before => ResultInv'
    <2>1. Read(d)' = Read(Cur)
      BY DEF Now
    <2>2. QED
      BY <1>0, <1>1, <1>4, <2>1 DEF IInv, ResultInv
  <1>12. QED
    BY <1>1, <1>2, <1>5, <1>6, <1>7, <1>8, <1>9, <1>10, <1>11 DEF Stored

---------------------------------------------------------------------------
(* Steps that leave the disk alone.                                        *)

\* The names of a compaction stand for the same files.
LEMMA SameProc ==
    ASSUME wal' = wal, handle' = handle, pred' = pred, repl' = repl, floor' = floor,
           files' = files
    PROVE  Whole' = Whole /\ Synced' = Synced /\ Exact' = Exact /\ Existing' = Existing
  <1>1. Whole' = Whole
    BY DEF Whole, NoTorn
  <1>2. Synced' = Synced
    BY DEF Synced, NoTorn
  <1>3. Exact' = Exact
    BY DEF Exact, Items, Kepts
  <1>4. Existing' = Existing
    BY DEF Existing, Known
  <1>5. QED
    BY <1>1, <1>2, <1>3, <1>4

\* And so does the intent that is to be recorded.
LEMMA SameWanted ==
    ASSUME Cur' = Cur, wal' = wal, intents' = intents, want' = want, pred' = pred,
           repl' = repl, files' = files
    PROVE  Ready' = Ready /\ Fitting' = Fitting /\ Drafted' = Drafted /\ Wanted' = Wanted
  <1>1. Wanted' = Wanted
    BY DEF Wanted
  <1>2. Ready' = Ready
    BY <1>1 DEF Ready, Emptied
  <1>3. Fitting' = Fitting
    BY <1>1 DEF Fitting, Fits, Known
  <1>4. Drafted' = Drafted
    BY <1>1 DEF Drafted
  <1>5. QED
    BY <1>1, <1>2, <1>3, <1>4

\* A log that is closed, with the operation over, has no obligations.
LEMMA ClosedFacts ==
    ASSUME pc' = "closed", goal' = "open", want' \in State
    PROVE  Control'
  <1>1. HandleInv'
    BY DEF HandleInv
  <1>2. GoalInv'
    BY DEF GoalInv, Step, Steps, Building, Writing, PostUnlink, Clearing
  <1>3. BeforeInv'
    BY DEF BeforeInv, Writing
  <1>4. IntentInv'
    BY DEF IntentInv, Clearing
  <1>5. PersistInv'
    BY DEF PersistInv
  <1>6. BuildInv'
    BY DEF BuildInv, Building, Writing, PostUnlink
  <1>7. QED
    BY <1>1, <1>2, <1>3, <1>4, <1>5, <1>6 DEF Control

\* What is recorded in the history, and what a reader is given, stay.
Same == acked' = acked /\ floor' = floor /\ Readable' = Readable

\* What the intent that the visible directory names says.
LEMMA PendingFacts ==
    ASSUME TypeOK, Stored, Pending
    PROVE  /\ Latest.st \in State /\ Latest.pred \in File /\ Latest.repl \in File
           /\ Latest = [st |-> Latest.st, pred |-> Latest.pred, repl |-> Latest.repl]
           /\ Known(Latest.pred) /\ Known(Latest.repl) /\ Latest.pred # Latest.repl
           /\ Cur.intent \in File /\ Known(Cur.intent) /\ intents[Cur.intent] # <<>>
           /\ Cur.intent \notin {Cur.wal, Latest.pred, Latest.repl}
           /\ Fits(Latest, Cur) /\ Emptied(Latest) /\ Good(Cur)
           /\ Latest.st \in {"Checkpointed", "CleanupArmed"} => Alone
  <1>1. Cur \in Dirs /\ Cur \in Dir /\ Cur.intent # NoFile
    BY DirsFacts DEF Pending
  <1>2. Good(Cur)
    BY <1>1 DEF Stored, DirInv
  <1>3. Cur.intent \in File /\ intents[Cur.intent] # <<>>
    BY <1>1, <1>2, DirFields DEF Good
  <1>4. intents[Cur.intent] \in Seq(Intent)
    BY <1>3 DEF TypeOK
  <1> PICK s : s = intents[Cur.intent]
    OBVIOUS
  <1>5. s \in Seq(Intent) /\ s # <<>>
    BY <1>3, <1>4
  <1>6. s[Len(s)] \in Intent
    <2>1. Len(s) \in 1 .. Len(s)
      BY <1>5
    <2>2. QED
      BY <1>5, <2>1, ElementOfSeq
  <1>7. Latest \in Intent
    BY <1>6 DEF Latest, Last
  <1>8. /\ Latest.st \in State /\ Latest.pred \in File /\ Latest.repl \in File
        /\ Latest = [st |-> Latest.st, pred |-> Latest.pred, repl |-> Latest.repl]
    BY <1>7 DEF Intent
  <1>9. /\ Known(Latest.pred) /\ Known(Latest.repl) /\ Known(Cur.intent)
        /\ Cur.intent \notin {Cur.wal, Latest.pred, Latest.repl}
        /\ Fits(Latest, Cur) /\ Emptied(Latest)
    BY <1>1, <1>2, LatestIs DEF Good
  <1>10. Latest.pred # Latest.repl
    BY <1>9 DEF Fits
  <1>11. Latest.st \in {"Checkpointed", "CleanupArmed"} => Alone
    BY <1>1, LatestIs DEF Stored, SettledInv
  <1>12. QED
    BY <1>2, <1>3, <1>8, <1>9, <1>10, <1>11

\* Without an intent there is no guard.
LEMMA IdleFacts ==
    ASSUME TypeOK, Stored, ~Pending
    PROVE  Cur.guards = {} /\ Cur.wal \notin Cur.temps /\ Good(Cur)
  <1>1. Cur \in Dirs /\ Cur.intent = NoFile
    BY DirsFacts DEF Pending
  <1>2. QED
    BY <1>1 DEF Stored, DirInv, Good

\* An open log is the one every directory makes the log, but for the
\* predecessor of a replacement whose name is not durable.
LEMMA OpenFacts ==
    ASSUME TypeOK, Stored, Cur.wal # NoFile
    PROVE  /\ Now = Cur.wal /\ Cur.wal \in File /\ Known(Cur.wal)
           /\ ~Mixed => \A d \in Dirs : Read(d) \in {NoFile, Cur.wal}
  <1>1. Now = Cur.wal
    BY DEF Now, Read
  <1>2. Cur.wal \in File /\ Known(Cur.wal)
    BY <1>1, DirsFacts, ReadKnown DEF Now
  <1>3. QED
    BY <1>1, <1>2 DEF Stored, Agree

\* There are no orphans to clean up.
LEMMA NoOrphansKeeps ==
    ASSUME IInv, NoOrphans
    PROVE  IInv' /\ Same
  <1>1. TypeOK'
    <2>1. DiskType /\ NumType /\ FileType /\ WordType
      BY TypeParts DEF IInv
    <2>2. DiskType'
      BY <2>1 DEF DiskType, NoOrphans, Goto, AfterOrphans, disk, proc, hist, bound
    <2>3. NumType'
      BY <2>1, WalAssumption DEF NumType, NoOrphans, Goto, AfterOrphans, disk, proc, hist, bound
    <2>4. FileType'
      BY <2>1 DEF FileType, NoOrphans, Goto, AfterOrphans, disk, proc, hist, bound
    <2>5. WordType'
      BY <2>1 DEF WordType, Step, Goal, State, Result, NoOrphans, Goto, AfterOrphans, disk,
         proc, hist, bound
    <2>6. QED
      BY <2>2, <2>3, <2>4, <2>5, TypePartsNext
  <1>2. /\ Stored' /\ Same /\ Cur' = Cur /\ Pending' = Pending /\ Latest' = Latest
        /\ Alone' = Alone /\ (result' = result /\ before' = before => ResultInv')
    <2>1. floor' \in Nat /\ floor' >= floor
      BY Ranges DEF IInv, NoOrphans, Goto, AfterOrphans, disk, proc, hist, bound
    <2>2. QED
      BY <1>1, <2>1, SameDiskFacts DEF Same, NoOrphans, Goto, AfterOrphans, disk, proc, hist,
         bound
  <1>3. ResultInv'
    BY <1>2 DEF NoOrphans, Goto, AfterOrphans, disk, proc, hist, bound
  <1>4. /\ Whole' = Whole /\ Synced' = Synced /\ Exact' = Exact /\ Existing' = Existing
        /\ Ready' = Ready /\ Fitting' = Fitting /\ Drafted' = Drafted /\ Wanted' = Wanted
    BY <1>2, SameProc, SameWanted DEF NoOrphans, Goto, AfterOrphans, disk, proc, hist, bound
  <1>5. HandleInv'
    BY <1>2, <1>4 DEF IInv, Control, HandleInv, PostUnlink, NoOrphans, Goto, AfterOrphans, disk,
       proc, hist, bound
  <1>6. GoalInv'
    BY <1>2, <1>4 DEF IInv, Control, GoalInv, Step, Steps, Building, Writing, PostUnlink,
       Resuming, NoOrphans, Goto, AfterOrphans, disk, proc, hist, bound
  <1>7. BeforeInv'
    BY <1>2, <1>4 DEF IInv, Control, BeforeInv, Writing, PostUnlink, EarlyState, NoOrphans,
       Goto, AfterOrphans, disk, proc, hist, bound
  <1>8. IntentInv'
    BY <1>2, <1>4 DEF IInv, Control, IntentInv, Writing, Clearing, EarlyState, Done, NoOrphans,
       Goto, AfterOrphans, disk, proc, hist, bound
  <1>9. PersistInv'
    BY <1>2, <1>4 DEF IInv, Control, PersistInv, EarlyState, NoOrphans, Goto, AfterOrphans,
       disk, proc, hist, bound
  <1>10. BuildInv'
    BY <1>2, <1>4 DEF IInv, Control, BuildInv, Building, Writing, PostUnlink, NoOrphans, Goto,
       AfterOrphans, disk, proc, hist, bound
  <1>11. QED
    BY <1>1, <1>2, <1>3, <1>5, <1>6, <1>7, <1>8, <1>9, <1>10 DEF IInv, Control, Same

\* The intent was appended.
LEMMA PersistFlushKeeps ==
    ASSUME IInv, PersistFlush
    PROVE  IInv' /\ Same
  <1>1. TypeOK'
    <2>1. DiskType /\ NumType /\ FileType /\ WordType
      BY TypeParts DEF IInv
    <2>2. DiskType'
      BY <2>1 DEF DiskType, PersistFlush, Goto, disk, proc, hist, bound
    <2>3. NumType'
      BY <2>1, WalAssumption DEF NumType, PersistFlush, Goto, disk, proc, hist, bound
    <2>4. FileType'
      BY <2>1 DEF FileType, PersistFlush, Goto, disk, proc, hist, bound
    <2>5. WordType'
      BY <2>1 DEF WordType, Step, Goal, State, Result, PersistFlush, Goto, disk, proc, hist,
         bound
    <2>6. QED
      BY <2>2, <2>3, <2>4, <2>5, TypePartsNext
  <1>2. /\ Stored' /\ Same /\ Cur' = Cur /\ Pending' = Pending /\ Latest' = Latest
        /\ Alone' = Alone /\ (result' = result /\ before' = before => ResultInv')
    <2>1. floor' \in Nat /\ floor' >= floor
      BY Ranges DEF IInv, PersistFlush, Goto, disk, proc, hist, bound
    <2>2. QED
      BY <1>1, <2>1, SameDiskFacts DEF Same, PersistFlush, Goto, disk, proc, hist, bound
  <1>3. ResultInv'
    BY <1>2 DEF PersistFlush, Goto, disk, proc, hist, bound
  <1>4. /\ Whole' = Whole /\ Synced' = Synced /\ Exact' = Exact /\ Existing' = Existing
        /\ Ready' = Ready /\ Fitting' = Fitting /\ Drafted' = Drafted /\ Wanted' = Wanted
    BY <1>2, SameProc, SameWanted DEF PersistFlush, Goto, disk, proc, hist, bound
  <1>5. HandleInv'
    BY <1>2, <1>4 DEF IInv, Control, HandleInv, PostUnlink, PersistFlush, Goto, disk, proc,
       hist, bound
  <1>6. GoalInv'
    BY <1>2, <1>4 DEF IInv, Control, GoalInv, Step, Steps, Building, Writing, PostUnlink,
       Resuming, PersistFlush, Goto, disk, proc, hist, bound
  <1>7. BeforeInv'
    BY <1>2, <1>4 DEF IInv, Control, BeforeInv, GoalInv, Step, Steps, Building, Writing,
       PostUnlink, Resuming, EarlyState, PersistFlush, Goto, disk, proc, hist, bound
  <1>8. IntentInv'
    BY <1>2, <1>4 DEF IInv, Control, GoalInv, IntentInv, Step, Steps, Building, Writing,
       PostUnlink, Clearing, Resuming, EarlyState, Done, PersistFlush, Goto, disk, proc, hist,
       bound
  <1>9. PersistInv'
    BY <1>2, <1>4 DEF IInv, Control, PersistInv, EarlyState, PersistFlush, Goto, disk, proc,
       hist, bound
  <1>10. BuildInv'
    BY <1>2, <1>4 DEF IInv, Control, PersistInv, BuildInv, Wanted, Building, Writing,
       PostUnlink, PersistFlush, Goto, disk, proc, hist, bound
  <1>11. QED
    BY <1>1, <1>2, <1>3, <1>5, <1>6, <1>7, <1>8, <1>9, <1>10 DEF IInv, Control, Same

\* No temporary file was retained.
LEMMA NothingRetainedKeeps ==
    ASSUME IInv, NothingRetained
    PROVE  IInv' /\ Same
  <1>1. TypeOK'
    <2>1. DiskType /\ NumType /\ FileType /\ WordType
      BY TypeParts DEF IInv
    <2>2. DiskType'
      BY <2>1 DEF DiskType, NothingRetained, Goto, disk, proc, hist, bound
    <2>3. NumType'
      BY <2>1, WalAssumption DEF NumType, NothingRetained, Goto, disk, proc, hist, bound
    <2>4. FileType'
      BY <2>1 DEF FileType, NothingRetained, Goto, disk, proc, hist, bound
    <2>5. WordType'
      BY <2>1 DEF WordType, Step, Goal, State, Result, NothingRetained, Goto, disk, proc, hist,
         bound
    <2>6. QED
      BY <2>2, <2>3, <2>4, <2>5, TypePartsNext
  <1>2. /\ Stored' /\ Same /\ Cur' = Cur /\ Pending' = Pending /\ Latest' = Latest
        /\ Alone' = Alone /\ (result' = result /\ before' = before => ResultInv')
    <2>1. floor' \in Nat /\ floor' >= floor
      BY Ranges DEF IInv, NothingRetained, Goto, disk, proc, hist, bound
    <2>2. QED
      BY <1>1, <2>1, SameDiskFacts DEF Same, NothingRetained, Goto, disk, proc, hist, bound
  <1>3. ResultInv'
    BY <1>2 DEF NothingRetained, Goto, disk, proc, hist, bound
  <1>4. /\ Whole' = Whole /\ Synced' = Synced /\ Exact' = Exact /\ Existing' = Existing
        /\ Ready' = Ready /\ Fitting' = Fitting /\ Drafted' = Drafted /\ Wanted' = Wanted
    BY <1>2, SameProc, SameWanted DEF NothingRetained, Goto, disk, proc, hist, bound
  <1>5. HandleInv'
    BY <1>2, <1>4 DEF IInv, Control, HandleInv, PostUnlink, NothingRetained, Goto, disk, proc,
       hist, bound
  <1>6. GoalInv'
    BY <1>2, <1>4 DEF IInv, Control, GoalInv, Step, Steps, Building, Writing, PostUnlink,
       Resuming, NothingRetained, Goto, disk, proc, hist, bound
  <1>7. BeforeInv'
    BY <1>2, <1>4 DEF IInv, Control, BeforeInv, GoalInv, Step, Steps, Building, Writing,
       PostUnlink, Resuming, EarlyState, NothingRetained, Goto, disk, proc, hist, bound
  <1>8. IntentInv'
    BY <1>2, <1>4 DEF IInv, Control, IntentInv, Writing, Clearing, EarlyState, Done,
       NothingRetained, Goto, disk, proc, hist, bound
  <1>9. PersistInv'
    BY <1>2, <1>4 DEF IInv, Control, PersistInv, EarlyState, NothingRetained, Goto, disk, proc,
       hist, bound
  <1>10. BuildInv'
    BY <1>2, <1>4 DEF IInv, Control, BuildInv, Building, Writing, PostUnlink, NothingRetained,
       Goto, disk, proc, hist, bound
  <1>11. QED
    BY <1>1, <1>2, <1>3, <1>5, <1>6, <1>7, <1>8, <1>9, <1>10 DEF IInv, Control, Same

\* The guard cannot be linked.
LEMMA LinkFailsKeeps ==
    ASSUME IInv, LinkFails
    PROVE  IInv' /\ Same
  <1>1. TypeOK'
    <2>1. DiskType /\ NumType /\ FileType /\ WordType
      BY TypeParts DEF IInv
    <2>2. DiskType'
      BY <2>1 DEF DiskType, LinkFails, Fault, Goto, disk, hist
    <2>3. NumType'
      BY <2>1, WalAssumption DEF NumType, LinkFails, Fault, Goto, disk, hist
    <2>4. FileType'
      BY <2>1 DEF FileType, LinkFails, Fault, Goto, disk, hist
    <2>5. WordType'
      BY <2>1 DEF WordType, Step, Goal, State, Result, LinkFails, Fault, Goto, disk, hist
    <2>6. QED
      BY <2>2, <2>3, <2>4, <2>5, TypePartsNext
  <1>2. /\ Stored' /\ Same /\ Cur' = Cur /\ Pending' = Pending /\ Latest' = Latest
        /\ Alone' = Alone /\ (result' = result /\ before' = before => ResultInv')
    <2>1. floor' \in Nat /\ floor' >= floor
      BY Ranges DEF IInv, LinkFails, Fault, Goto, disk, hist
    <2>2. QED
      BY <1>1, <2>1, SameDiskFacts DEF Same, LinkFails, Fault, Goto, disk, hist
  <1>3. ResultInv'
    BY <1>2 DEF LinkFails, Fault, Goto, disk, hist
  <1>4. /\ Whole' = Whole /\ Synced' = Synced /\ Exact' = Exact /\ Existing' = Existing
        /\ Ready' = Ready /\ Fitting' = Fitting /\ Drafted' = Drafted /\ Wanted' = Wanted
    BY <1>2, SameProc, SameWanted DEF LinkFails, Fault, Goto, disk, hist
  <1>5. HandleInv'
    BY <1>2, <1>4 DEF IInv, Control, HandleInv, PostUnlink, LinkFails, Fault, Goto, disk, hist
  <1>6. GoalInv'
    BY <1>2, <1>4 DEF IInv, Control, GoalInv, Step, Steps, Building, Writing, PostUnlink,
       Resuming, LinkFails, Fault, Goto, disk, hist
  <1>7. BeforeInv'
    BY <1>2, <1>4 DEF IInv, Control, BeforeInv, BuildInv, GoalInv, HandleInv, IntentInv,
       PersistInv, Step, Steps, Building, Writing, PostUnlink, Clearing, Resuming, EarlyState,
       Done, LinkFails, Fault, Goto, disk, hist
  <1>8. IntentInv'
    <2>1. /\ pc \in {"link", "linkFlush", "arm", "unlink"} /\ Pending /\ Latest.pred = pred
          /\ Latest.st \in EarlyState /\ pred = before /\ goal = "build"
      BY DEF IInv, Control, GoalInv, BuildInv, Building, Writing, PostUnlink, EarlyState, LinkFails, Goto
    <2>2. Cur.wal = Latest.pred
      BY <2>1 DEF IInv, Control, HandleInv, BeforeInv, PostUnlink
    <2>3. QED
      BY <1>2, <2>1, <2>2 DEF IntentInv, Writing, Clearing, LinkFails, Fault, Goto, disk, proc
  <1>9. PersistInv'
    BY <1>2, <1>4 DEF IInv, Control, PersistInv, EarlyState, LinkFails, Fault, Goto, disk, hist
  <1>10. BuildInv'
    BY <1>2, <1>4 DEF IInv, Control, BuildInv, Building, Writing, PostUnlink, LinkFails, Fault,
       Goto, disk, hist
  <1>11. QED
    BY <1>1, <1>2, <1>3, <1>5, <1>6, <1>7, <1>8, <1>9, <1>10 DEF IInv, Control, Same

\* The guard cannot be made durable, or armed.
LEMMA GuardFailsKeeps ==
    ASSUME IInv, GuardFails
    PROVE  IInv' /\ Same
  <1>1. TypeOK'
    <2>1. DiskType /\ NumType /\ FileType /\ WordType
      BY TypeParts DEF IInv
    <2>2. DiskType'
      BY <2>1 DEF DiskType, GuardFails, Fault, Goto, disk, proc
    <2>3. NumType'
      BY <2>1, WalAssumption DEF NumType, GuardFails, Fault, Goto, disk, proc
    <2>4. FileType'
      BY <2>1 DEF FileType, GuardFails, Fault, Goto, disk, proc
    <2>5. WordType'
      BY <2>1 DEF WordType, Step, Goal, State, Result, GuardFails, Fault, Goto, disk, proc
    <2>6. QED
      BY <2>2, <2>3, <2>4, <2>5, TypePartsNext
  <1>2. /\ Stored' /\ Same /\ Cur' = Cur /\ Pending' = Pending /\ Latest' = Latest
        /\ Alone' = Alone /\ (result' = result /\ before' = before => ResultInv')
    <2>1. floor' \in Nat /\ floor' >= floor
      BY Ranges DEF IInv, GuardFails, Fault, Goto, disk, proc
    <2>2. QED
      BY <1>1, <2>1, SameDiskFacts DEF Same, GuardFails, Fault, Goto, disk, proc
  <1>3. ResultInv'
    BY DEF ResultInv, GuardFails, Fault, Goto, disk, proc
  <1>4. /\ Whole' = Whole /\ Synced' = Synced /\ Exact' = Exact /\ Existing' = Existing
        /\ Ready' = Ready /\ Fitting' = Fitting /\ Drafted' = Drafted /\ Wanted' = Wanted
    BY <1>2, SameProc, SameWanted DEF GuardFails, Fault, Goto, disk, proc
  <1>5. HandleInv'
    BY <1>2, <1>4 DEF IInv, Control, HandleInv, PostUnlink, GuardFails, Fault, Goto, disk, proc
  <1>6. GoalInv'
    BY <1>2, <1>4 DEF IInv, Control, GoalInv, Step, Steps, Building, Writing, PostUnlink,
       Resuming, GuardFails, Fault, Goto, disk, proc
  <1>7. BeforeInv'
    BY <1>2, <1>4 DEF IInv, Control, BeforeInv, Writing, PostUnlink, EarlyState, GuardFails,
       Fault, Goto, disk, proc
  <1>8. IntentInv'
    <2>1. /\ pc \in {"link", "linkFlush", "arm", "unlink"} /\ Pending /\ Latest.pred = pred
          /\ Latest.st \in EarlyState /\ pred = before /\ goal = "build"
      BY DEF IInv, Control, GoalInv, BuildInv, Building, Writing, PostUnlink, EarlyState, GuardFails, Goto
    <2>2. Cur.wal = Latest.pred
      BY <2>1 DEF IInv, Control, HandleInv, BeforeInv, PostUnlink
    <2>3. QED
      BY <1>2, <2>1, <2>2 DEF IntentInv, Writing, Clearing, GuardFails, Fault, Goto, disk, proc
  <1>9. PersistInv'
    BY <1>2, <1>4 DEF IInv, Control, PersistInv, EarlyState, GuardFails, Fault, Goto, disk, proc
  <1>10. BuildInv'
    BY <1>2, <1>4 DEF IInv, Control, BuildInv, Building, Writing, PostUnlink, GuardFails, Fault,
       Goto, disk, proc
  <1>11. QED
    BY <1>1, <1>2, <1>3, <1>5, <1>6, <1>7, <1>8, <1>9, <1>10 DEF IInv, Control, Same

\* A flush fails, and the handle is given up.
LEMMA FlushClosesKeeps ==
    ASSUME IInv, FlushFails, Close
    PROVE  IInv' /\ Same
  <1>1. TypeOK'
    <2>1. DiskType /\ NumType /\ FileType /\ WordType
      BY TypeParts DEF IInv
    <2>2. DiskType'
      BY <2>1 DEF DiskType, FlushFails, Fault, Close, disk, hist
    <2>3. NumType'
      BY <2>1, WalAssumption DEF NumType, FlushFails, Fault, Close, disk, hist
    <2>4. FileType'
      BY <2>1 DEF FileType, FlushFails, Fault, Close, disk, hist
    <2>5. WordType'
      BY <2>1 DEF WordType, Step, Goal, State, Result, FlushFails, Fault, Close, disk, hist
    <2>6. QED
      BY <2>2, <2>3, <2>4, <2>5, TypePartsNext
  <1>2. /\ Stored' /\ Same /\ Cur' = Cur /\ Pending' = Pending /\ Latest' = Latest
        /\ Alone' = Alone /\ (result' = result /\ before' = before => ResultInv')
    <2>1. floor' \in Nat /\ floor' >= floor
      BY Ranges DEF IInv, FlushFails, Fault, Close, disk, hist
    <2>2. QED
      BY <1>1, <2>1, SameDiskFacts DEF Same, FlushFails, Fault, Close, disk, hist
  <1>3. ResultInv'
    BY <1>2 DEF FlushFails, Fault, Close, disk, hist
  <1>4. Control'
    BY <1>1, ClosedFacts DEF TypeOK, FlushFails, Fault, Close, disk, hist, Close
  <1>5. QED
    BY <1>1, <1>2, <1>3, <1>4 DEF IInv, Same, FlushFails, Fault, Close, disk, hist

\* A flush fails, and the log stays open.
LEMMA FlushLeavesOpenKeeps ==
    ASSUME IInv, FlushFails, UNCHANGED <<pc, handle, goal>>
    PROVE  IInv' /\ Same
  <1>1. TypeOK'
    <2>1. DiskType /\ NumType /\ FileType /\ WordType
      BY TypeParts DEF IInv
    <2>2. DiskType'
      BY <2>1 DEF DiskType, FlushFails, Fault, disk, hist
    <2>3. NumType'
      BY <2>1, WalAssumption DEF NumType, FlushFails, Fault, disk, hist
    <2>4. FileType'
      BY <2>1 DEF FileType, FlushFails, Fault, disk, hist
    <2>5. WordType'
      BY <2>1 DEF WordType, FlushFails, Fault, disk, hist
    <2>6. QED
      BY <2>2, <2>3, <2>4, <2>5, TypePartsNext
  <1>2. /\ Stored' /\ Same /\ Cur' = Cur /\ Pending' = Pending /\ Latest' = Latest
        /\ Alone' = Alone /\ (result' = result /\ before' = before => ResultInv')
    <2>1. floor' \in Nat /\ floor' >= floor
      BY Ranges DEF IInv, FlushFails, Fault, disk, hist
    <2>2. QED
      BY <1>1, <2>1, SameDiskFacts DEF Same, FlushFails, Fault, disk, hist
  <1>3. ResultInv'
    BY <1>2 DEF FlushFails, Fault, disk, hist
  <1>4. /\ Whole' = Whole /\ Synced' = Synced /\ Exact' = Exact /\ Existing' = Existing
        /\ Ready' = Ready /\ Fitting' = Fitting /\ Drafted' = Drafted /\ Wanted' = Wanted
    BY <1>2, SameProc, SameWanted DEF FlushFails, Fault, disk, hist
  <1>5. HandleInv'
    BY <1>2, <1>4 DEF IInv, Control, HandleInv, PostUnlink, FlushFails, Fault, disk, hist
  <1>6. GoalInv'
    BY <1>2, <1>4 DEF IInv, Control, GoalInv, Building, Writing, PostUnlink,
       FlushFails, Fault, disk, hist
  <1>7. BeforeInv'
    BY <1>2, <1>4 DEF IInv, Control, BeforeInv, Writing, PostUnlink, FlushFails, Fault, disk, hist
  <1>8. IntentInv'
    BY <1>2, <1>4 DEF IInv, Control, IntentInv, Writing, Clearing, FlushFails, Fault, disk, hist
  <1>9. PersistInv'
    BY <1>2, <1>4 DEF IInv, Control, PersistInv, FlushFails, Fault, disk, hist
  <1>10. BuildInv'
    BY <1>2, <1>4 DEF IInv, Control, BuildInv, Building, Writing, PostUnlink,
       FlushFails, Fault, disk, hist
  <1>11. QED
    BY <1>1, <1>2, <1>3, <1>5, <1>6, <1>7, <1>8, <1>9, <1>10 DEF IInv, Control, Same

\* A flush fails.
LEMMA FlushFailsKeeps ==
    ASSUME IInv, FlushFails
    PROVE  IInv' /\ Same
  BY FlushClosesKeeps, FlushLeavesOpenKeeps DEF FlushFails

\* The process ends.
LEMMA ProcessEndsKeeps ==
    ASSUME IInv, ProcessEnds
    PROVE  IInv' /\ Same
  <1>1. TypeOK'
    <2>1. DiskType /\ NumType /\ FileType /\ WordType
      BY TypeParts DEF IInv
    <2>2. DiskType'
      BY <2>1 DEF DiskType, ProcessEnds, Stop, Close
    <2>3. NumType'
      BY <2>1, WalAssumption DEF NumType, ProcessEnds, Stop, Close
    <2>4. FileType'
      BY <2>1 DEF FileType, ProcessEnds, Stop, Close
    <2>5. WordType'
      BY <2>1 DEF WordType, Step, Goal, State, Result, ProcessEnds, Stop, Close
    <2>6. QED
      BY <2>2, <2>3, <2>4, <2>5, TypePartsNext
  <1>2. /\ Stored' /\ Same /\ Cur' = Cur /\ Pending' = Pending /\ Latest' = Latest
        /\ Alone' = Alone /\ (result' = result /\ before' = before => ResultInv')
    <2>1. floor' \in Nat /\ floor' >= floor
      BY Ranges DEF IInv, ProcessEnds, Stop, Close
    <2>2. QED
      BY <1>1, <2>1, SameDiskFacts DEF Same, ProcessEnds, Stop, Close, disk, proc, hist, bound
  <1>3. ResultInv'
    <2>1. CASE result' = result
      BY <1>2, <2>1 DEF ProcessEnds, Stop, Close
    <2>2. CASE result' = "None"
      BY <2>2 DEF ResultInv
    <2>3. QED
      BY <2>1, <2>2 DEF ProcessEnds, Stop, Close
  <1>4. Control'
    BY <1>1, ClosedFacts DEF TypeOK, ProcessEnds, Stop, Close, Close
  <1>5. QED
    BY <1>1, <1>2, <1>3, <1>4 DEF IInv, Same, ProcessEnds, Stop, Close

\* An existing log is opened: it decodes, and only an intent explains a second name.
LEMMA OpenExistingKeeps ==
    ASSUME IInv, OpenExisting
    PROVE  IInv' /\ Same
  <1>0. pc' = "orphans"
    <2>1. Decodes(Cur.wal)
      BY OpenFacts DEF IInv, Stored, DataInv, OpenExisting
    <2>2. ~Pending => Links(Cur.wal) = 1
      BY IdleFacts, NamedOnce DEF IInv
    <2>3. QED
      BY <2>1, <2>2 DEF OpenExisting
  <1>1. TypeOK'
    <2>1. DiskType /\ NumType /\ FileType /\ WordType
      BY TypeParts DEF IInv
    <2>2. DiskType'
      BY <2>1 DEF DiskType, OpenExisting, disk, hist, bound
    <2>3. NumType'
      BY <2>1, WalAssumption DEF NumType, OpenExisting, disk, hist, bound
    <2>4. FileType'
      BY <2>1, OpenFacts DEF FileType, IInv, OpenExisting, disk, hist, bound
    <2>5. WordType'
      BY <1>0, <2>1 DEF WordType, Step, Goal, State, Result, OpenExisting, disk, hist, bound
    <2>6. QED
      BY <2>2, <2>3, <2>4, <2>5, TypePartsNext
  <1>2. /\ Stored' /\ Same /\ Cur' = Cur /\ Pending' = Pending /\ Latest' = Latest
        /\ Alone' = Alone /\ (result' = result /\ before' = before => ResultInv')
    <2>1. floor' \in Nat /\ floor' >= floor
      BY Ranges DEF IInv, OpenExisting, disk, hist, bound
    <2>2. QED
      BY <1>1, <2>1, SameDiskFacts DEF Same, OpenExisting, disk, hist, bound
  <1>3. ResultInv'
    BY <1>2 DEF OpenExisting, disk, hist, bound
  <1>4. pc' = "orphans"
    BY <1>0
  <1>5. HandleInv'
    BY <1>2, <1>4 DEF IInv, Control, HandleInv, PostUnlink, OpenExisting, disk, hist, bound
  <1>6. GoalInv'
    BY <1>2, <1>4 DEF IInv, Control, GoalInv, Step, Steps, Building, Writing, PostUnlink,
       Resuming, OpenExisting, disk, hist, bound
  <1>7. BeforeInv'
    BY <1>2, <1>4 DEF IInv, Control, BeforeInv, Writing, PostUnlink, EarlyState, OpenExisting,
       disk, hist, bound
  <1>8. IntentInv'
    BY <1>2, <1>4 DEF IInv, Control, IntentInv, Writing, Clearing, EarlyState, Done,
       OpenExisting, disk, hist, bound
  <1>9. PersistInv'
    BY <1>2, <1>4 DEF IInv, Control, PersistInv, EarlyState, OpenExisting, disk, hist, bound
  <1>10. BuildInv'
    BY <1>2, <1>4 DEF IInv, Control, BuildInv, Building, Writing, PostUnlink, OpenExisting,
       disk, hist, bound
  <1>11. QED
    BY <1>1, <1>2, <1>3, <1>5, <1>6, <1>7, <1>8, <1>9, <1>10 DEF IInv, Control, Same

\* The intent is published again.
LEMMA ClearRestoredKeeps ==
    ASSUME IInv, ClearRestored
    PROVE  IInv' /\ Same
  <1>1. TypeOK'
    <2>1. DiskType /\ NumType /\ FileType /\ WordType
      BY TypeParts DEF IInv
    <2>2. DiskType'
      BY <2>1 DEF DiskType, ClearRestored, Persist, disk, hist
    <2>3. NumType'
      BY <2>1, WalAssumption DEF NumType, ClearRestored, Persist, disk, hist
    <2>4. FileType'
      BY <2>1 DEF FileType, ClearRestored, Persist, disk, hist
    <2>5. WordType'
      BY <2>1 DEF WordType, Step, Goal, State, Result, ClearRestored, Persist, disk, hist
    <2>6. QED
      BY <2>2, <2>3, <2>4, <2>5, TypePartsNext
  <1>2. /\ Stored' /\ Same /\ Cur' = Cur /\ Pending' = Pending /\ Latest' = Latest
        /\ Alone' = Alone /\ (result' = result /\ before' = before => ResultInv')
    <2>1. floor' \in Nat /\ floor' >= floor
      BY Ranges DEF IInv, ClearRestored, Persist, disk, hist
    <2>2. QED
      BY <1>1, <2>1, SameDiskFacts DEF Same, ClearRestored, Persist, disk, hist
  <1>3. ResultInv'
    BY <1>2 DEF ClearRestored, Persist, disk, hist
  <1>4. /\ Whole' = Whole /\ Synced' = Synced /\ Exact' = Exact /\ Existing' = Existing
        /\ Ready' = Ready /\ Fitting' = Fitting /\ Drafted' = Drafted /\ Wanted' = Wanted
    BY <1>2, SameProc, SameWanted DEF ClearRestored, Persist, disk, hist
  <1>5. HandleInv'
    BY <1>2, <1>4 DEF IInv, Control, HandleInv, PostUnlink, ClearRestored, Persist, disk, hist
  <1>6. GoalInv'
    BY <1>2, <1>4 DEF IInv, Control, GoalInv, Step, Steps, Building, Writing, PostUnlink,
       Resuming, ClearRestored, Persist, disk, hist
  <1>7. BeforeInv'
    BY <1>2, <1>4 DEF IInv, Control, BeforeInv, Writing, PostUnlink, EarlyState, ClearRestored,
       Persist, disk, hist
  <1>8. IntentInv'
    BY <1>2, <1>4 DEF IInv, Control, IntentInv, Writing, Clearing, EarlyState, Done,
       ClearRestored, Persist, disk, hist
  <1>9. PersistInv'
    BY <1>2, <1>4 DEF IInv, Control, PersistInv, EarlyState, ClearRestored, Persist, disk, hist
  <1>10. BuildInv'
    BY <1>2, <1>4 DEF IInv, Control, BuildInv, Building, Writing, PostUnlink, ClearRestored,
       Persist, disk, hist
  <1>11. QED
    BY <1>1, <1>2, <1>3, <1>5, <1>6, <1>7, <1>8, <1>9, <1>10 DEF IInv, Control, Same

\* A compaction begins.
LEMMA BeginCompactionKeeps ==
    ASSUME IInv, NEW f \in 1 .. MaxRecords + 1, BeginCompaction(f)
    PROVE  IInv' /\ acked' = acked /\ floor' >= floor /\ Readable' = Readable
  <1>1. TypeOK'
    <2>1. DiskType /\ NumType /\ FileType /\ WordType
      BY TypeParts DEF IInv
    <2>2. DiskType'
      BY <2>1 DEF DiskType, BeginCompaction, disk, bound
    <2>3. NumType'
      BY <2>1, WalAssumption DEF NumType, BeginCompaction, disk, bound
    <2>4. FileType'
      BY <2>1 DEF FileType, BeginCompaction, disk, bound
    <2>5. WordType'
      BY <2>1 DEF WordType, Step, Goal, State, Result, BeginCompaction, disk, bound
    <2>6. QED
      BY <2>2, <2>3, <2>4, <2>5, TypePartsNext
  <1>2. /\ Stored' /\ acked' = acked /\ Readable' = Readable /\ Cur' = Cur /\ Pending' = Pending
        /\ Latest' = Latest
        /\ Alone' = Alone /\ (result' = result /\ before' = before => ResultInv')
    <2>1. floor' \in Nat /\ floor' >= floor
      BY Ranges DEF IInv, BeginCompaction, disk, bound
    <2>2. QED
      BY <1>1, <2>1, SameDiskFacts DEF BeginCompaction, disk, bound
  <1>3. ResultInv'
    BY DEF ResultInv, BeginCompaction, disk, bound
  <1>4. Whole' = Whole
    BY DEF Whole, NoTorn, BeginCompaction, disk, bound
  <1>5. HandleInv'
    BY <1>2, <1>4 DEF IInv, Control, HandleInv, PostUnlink, BeginCompaction, disk, bound
  <1>6. GoalInv'
    BY <1>2, <1>4 DEF IInv, Control, GoalInv, Step, Steps, Building, Writing, PostUnlink,
       Resuming, BeginCompaction, disk, bound
  <1>7. BeforeInv'
    BY <1>2, <1>4 DEF IInv, Control, BeforeInv, Writing, PostUnlink, EarlyState,
       BeginCompaction, disk, bound
  <1>8. IntentInv'
    BY <1>2, <1>4 DEF IInv, Control, IntentInv, Writing, Clearing, EarlyState, Done,
       BeginCompaction, disk, bound
  <1>9. PersistInv'
    BY <1>2, <1>4 DEF IInv, Control, PersistInv, EarlyState, BeginCompaction, disk, bound
  <1>10. BuildInv'
    BY <1>2, <1>4 DEF IInv, Control, BuildInv, Building, Writing, PostUnlink, BeginCompaction,
       disk, bound
  <1>11. floor' >= floor
    BY Ranges DEF IInv, BeginCompaction
  <1>12. QED
    BY <1>11, <1>1, <1>2, <1>3, <1>5, <1>6, <1>7, <1>8, <1>9, <1>10 DEF IInv, Control, Same

\* The temporary file cannot be written, and nothing is left of it.
LEMMA TempGoneKeeps ==
    ASSUME IInv, TempFails, UNCHANGED <<dirs, files>>
    PROVE  IInv' /\ Same
  <1>1. TypeOK'
    <2>1. DiskType /\ NumType /\ FileType /\ WordType
      BY TypeParts DEF IInv
    <2>2. DiskType'
      BY <2>1 DEF DiskType, TempFails, Fault, Goto, disk, proc
    <2>3. NumType'
      BY <2>1, WalAssumption DEF NumType, TempFails, Fault, Goto, disk, proc
    <2>4. FileType'
      BY <2>1 DEF FileType, TempFails, Fault, Goto, disk, proc
    <2>5. WordType'
      BY <2>1 DEF WordType, Step, Goal, State, Result, TempFails, Fault, Goto, disk, proc
    <2>6. QED
      BY <2>2, <2>3, <2>4, <2>5, TypePartsNext
  <1>2. /\ Stored' /\ Same /\ Cur' = Cur /\ Dirs' = Dirs /\ Pending' = Pending /\ Latest' = Latest
        /\ Alone' = Alone /\ (result' = result /\ before' = before => ResultInv')
    <2>1. floor' \in Nat /\ floor' >= floor
      BY Ranges DEF IInv, TempFails, Fault, Goto, disk, proc
    <2>2. QED
      BY <1>1, <2>1, SameDiskFacts DEF Same, TempFails, Fault, Goto, disk, proc
  <1>3. ResultInv'
    <2>1. /\ ~Mixed /\ before = Cur.wal /\ Cur.wal # NoFile
      BY DEF IInv, Control, HandleInv, GoalInv, BeforeInv, IntentInv, Mixed, PostUnlink,
         TempFails, Fault, Goto, disk, proc
    <2>2. \A d \in Dirs' : Read(d)' \in {NoFile, before}
      BY <1>2, <2>1, OpenFacts, SameView DEF IInv, TempFails, Fault, Goto, disk, proc
    <2>3. QED
      BY <2>1, <2>2 DEF ResultInv, TempFails, Fault, Goto, disk, proc
  <1>4. /\ Whole' = Whole /\ Synced' = Synced /\ Exact' = Exact /\ Existing' = Existing
        /\ Ready' = Ready /\ Fitting' = Fitting /\ Drafted' = Drafted /\ Wanted' = Wanted
    BY <1>2, SameProc, SameWanted DEF TempFails, Fault, Goto, disk, proc
  <1>5. HandleInv'
    BY <1>2, <1>4 DEF IInv, Control, HandleInv, PostUnlink, TempFails, Fault, Goto, disk, proc
  <1>6. GoalInv'
    BY <1>2, <1>4 DEF IInv, Control, GoalInv, Step, Steps, Building, Writing, PostUnlink,
       Resuming, TempFails, Fault, Goto, disk, proc
  <1>7. BeforeInv'
    BY <1>2, <1>4 DEF IInv, Control, BeforeInv, GoalInv, Step, Steps, Building, Writing,
       PostUnlink, Resuming, EarlyState, TempFails, Fault, Goto, disk, proc
  <1>8. IntentInv'
    BY <1>2, <1>4 DEF IInv, Control, IntentInv, Writing, Clearing, EarlyState, Done, TempFails,
       Fault, Goto, disk, proc
  <1>9. PersistInv'
    BY <1>2, <1>4 DEF IInv, Control, PersistInv, EarlyState, TempFails, Fault, Goto, disk, proc
  <1>10. BuildInv'
    BY <1>2, <1>4 DEF IInv, Control, BuildInv, Building, Writing, PostUnlink, TempFails, Fault,
       Goto, disk, proc
  <1>11. QED
    BY <1>1, <1>2, <1>3, <1>5, <1>6, <1>7, <1>8, <1>9, <1>10 DEF IInv, Control, Same

\* The temporary file cannot be deleted.
LEMMA AbandonFailsKeeps ==
    ASSUME IInv, AbandonFails
    PROVE  IInv' /\ Same
  <1>1. TypeOK'
    <2>1. DiskType /\ NumType /\ FileType /\ WordType
      BY TypeParts DEF IInv
    <2>2. DiskType'
      BY <2>1 DEF DiskType, AbandonFails, Fault, Close, disk
    <2>3. NumType'
      BY <2>1, WalAssumption DEF NumType, AbandonFails, Fault, Close, disk
    <2>4. FileType'
      BY <2>1 DEF FileType, AbandonFails, Fault, Close, disk
    <2>5. WordType'
      BY <2>1 DEF WordType, Step, Goal, State, Result, AbandonFails, Fault, Close, disk
    <2>6. QED
      BY <2>2, <2>3, <2>4, <2>5, TypePartsNext
  <1>2. /\ Stored' /\ Same /\ Cur' = Cur /\ Pending' = Pending /\ Latest' = Latest
        /\ Alone' = Alone /\ (result' = result /\ before' = before => ResultInv')
    <2>1. floor' \in Nat /\ floor' >= floor
      BY Ranges DEF IInv, AbandonFails, Fault, Close, disk
    <2>2. QED
      BY <1>1, <2>1, SameDiskFacts DEF Same, AbandonFails, Fault, Close, disk
  <1>3. ResultInv'
    BY DEF ResultInv, AbandonFails, Fault, Close, disk
  <1>4. handle' = handle =>
        /\ Whole' = Whole /\ Synced' = Synced /\ Exact' = Exact /\ Existing' = Existing
        /\ Ready' = Ready /\ Fitting' = Fitting /\ Drafted' = Drafted /\ Wanted' = Wanted
    BY <1>2, SameProc, SameWanted DEF AbandonFails, Fault, Close, disk
  <1>5. HandleInv'
    BY <1>2, <1>4 DEF IInv, Control, HandleInv, PostUnlink, AbandonFails, Fault, Close, disk
  <1>6. GoalInv'
    BY <1>2, <1>4 DEF IInv, Control, GoalInv, Step, Steps, Building, Writing, PostUnlink,
       Resuming, AbandonFails, Fault, Close, disk
  <1>7. BeforeInv'
    BY <1>2, <1>4 DEF IInv, Control, BeforeInv, Writing, PostUnlink, EarlyState, AbandonFails,
       Fault, Close, disk
  <1>8. IntentInv'
    BY <1>2, <1>4 DEF IInv, Control, IntentInv, Writing, Clearing, EarlyState, Done,
       AbandonFails, Fault, Close, disk
  <1>9. PersistInv'
    BY <1>2, <1>4 DEF IInv, Control, PersistInv, EarlyState, AbandonFails, Fault, Close, disk
  <1>10. BuildInv'
    BY <1>2, <1>4 DEF IInv, Control, BuildInv, Building, Writing, PostUnlink, AbandonFails,
       Fault, Close, disk
  <1>11. QED
    BY <1>1, <1>2, <1>3, <1>5, <1>6, <1>7, <1>8, <1>9, <1>10 DEF IInv, Control, Same

\* What an operation that fails reports: a compaction that was given up while
\* it cleared the last one left the log as it was.
LEMMA ExitFacts ==
    ASSUME IInv, result' = ExitResult, before' = before, UNCHANGED disk
    PROVE  ResultInv'
  <1>1. Dirs' = Dirs /\ \A d : Read(d)' = Read(d)
    BY SameView DEF disk, Dirs, Cur
  <1>2. CASE goal \in {"open", "reopened"}
    BY <1>1, <1>2 DEF ExitResult, IInv, ResultInv
  <1>3. CASE goal = "clear"
    <2>1. ~Mixed
      BY <1>3 DEF IInv, Control, IntentInv, Mixed, Done
    <2>2. before = Cur.wal /\ Cur.wal # NoFile
      BY <1>3 DEF IInv, Control, HandleInv, GoalInv, BeforeInv, Building, PostUnlink
    <2>3. \A d \in Dirs' : Read(d)' \in {NoFile, before}
      BY <1>1, <2>1, <2>2, OpenFacts DEF IInv
    <2>4. QED
      BY <1>3, <2>2, <2>3 DEF ExitResult, ResultInv
  <1>4. CASE goal \notin {"open", "reopened", "clear"}
    BY <1>4 DEF ExitResult, ResultInv
  <1>5. QED
    BY <1>2, <1>3, <1>4

\* A call fails, and the operation with it.
LEMMA CallFailsKeeps ==
    ASSUME IInv, CallFails
    PROVE  IInv' /\ Same
  <1>1. TypeOK'
    <2>1. DiskType /\ NumType /\ FileType /\ WordType
      BY TypeParts DEF IInv
    <2>2. DiskType'
      BY <2>1 DEF DiskType, CallFails, Leave, Fault, Close, ExitResult, disk
    <2>3. NumType'
      BY <2>1, WalAssumption DEF NumType, CallFails, Leave, Fault, Close, ExitResult, disk
    <2>4. FileType'
      BY <2>1 DEF FileType, CallFails, Leave, Fault, Close, ExitResult, disk
    <2>5. WordType'
      BY <2>1 DEF WordType, Step, Goal, State, Result, CallFails, Leave, Fault, Close,
         ExitResult, disk
    <2>6. QED
      BY <2>2, <2>3, <2>4, <2>5, TypePartsNext
  <1>2. /\ Stored' /\ Same /\ Cur' = Cur /\ Pending' = Pending /\ Latest' = Latest
        /\ Alone' = Alone /\ (result' = result /\ before' = before => ResultInv')
    <2>1. floor' \in Nat /\ floor' >= floor
      BY Ranges DEF IInv, CallFails, Leave, Fault, Close, ExitResult, disk
    <2>2. QED
      BY <1>1, <2>1, SameDiskFacts DEF Same, CallFails, Leave, Fault, Close, ExitResult, disk
  <1>3. ResultInv'
    BY ExitFacts DEF CallFails, Leave
  <1>4. Control'
    BY <1>1, ClosedFacts DEF TypeOK, CallFails, Leave, Fault, Close, ExitResult, disk, Close
  <1>5. QED
    BY <1>1, <1>2, <1>3, <1>4 DEF IInv, Same, CallFails, Leave, Fault, Close, ExitResult, disk

\* The intent was published again, and the operation has failed.
LEMMA FailedKeeps ==
    ASSUME IInv, Failed
    PROVE  IInv' /\ Same
  <1>1. TypeOK'
    <2>1. DiskType /\ NumType /\ FileType /\ WordType
      BY TypeParts DEF IInv
    <2>2. DiskType'
      BY <2>1 DEF DiskType, Failed, Leave, Close, ExitResult, disk, bound
    <2>3. NumType'
      BY <2>1, WalAssumption DEF NumType, Failed, Leave, Close, ExitResult, disk, bound
    <2>4. FileType'
      BY <2>1 DEF FileType, Failed, Leave, Close, ExitResult, disk, bound
    <2>5. WordType'
      BY <2>1 DEF WordType, Step, Goal, State, Result, Failed, Leave, Close, ExitResult, disk,
         bound
    <2>6. QED
      BY <2>2, <2>3, <2>4, <2>5, TypePartsNext
  <1>2. /\ Stored' /\ Same /\ Cur' = Cur /\ Pending' = Pending /\ Latest' = Latest
        /\ Alone' = Alone /\ (result' = result /\ before' = before => ResultInv')
    <2>1. floor' \in Nat /\ floor' >= floor
      BY Ranges DEF IInv, Failed, Leave, Close, ExitResult, disk, bound
    <2>2. QED
      BY <1>1, <2>1, SameDiskFacts DEF Same, Failed, Leave, Close, ExitResult, disk, bound
  <1>3. ResultInv'
    BY ExitFacts DEF Failed, Leave
  <1>4. Control'
    BY <1>1, ClosedFacts DEF TypeOK, Failed, Leave, Close, ExitResult, disk, bound, Close
  <1>5. QED
    BY <1>1, <1>2, <1>3, <1>4 DEF IInv, Same, Failed, Leave, Close, ExitResult, disk, bound

\* The intent explains the directory: nothing is refused.
LEMMA ResolveKeeps ==
    ASSUME IInv, Resolve
    PROVE  IInv' /\ Same
  <1>0. pc' = IF ~Pending THEN "resolved" ELSE "resolving"
    <2> SUFFICES ASSUME Pending
                 PROVE  Provable
      BY DEF Resolve
    <2>1. handle = Cur.wal /\ handle # NoFile
      BY DEF Resolve, IInv, Control, HandleInv, PostUnlink
    <2>2. Fits(Latest, Cur) /\ Emptied(Latest) /\ Latest.pred \in File
      BY PendingFacts DEF IInv
    <2>3. IF Early THEN IsPred \/ IsRepl ELSE IsRepl
      BY <2>1, <2>2 DEF Fits, Early, IsPred, IsRepl, EarlyState, Done
    <2>4. CASE Guarded
      <3>1. Latest.st \in Done => Tombstone
        BY <2>2 DEF Emptied, Tombstone
      <3>2. CASE IsPred
        <4>1. Links(handle) = 2 /\ Links(Latest.pred) = 2
          BY <2>1, <2>2, <2>4, <3>2, NamedTwice DEF Fits, IsPred, Guarded
        <4>2. QED
          BY <2>3, <2>4, <3>1, <3>2, <4>1 DEF Provable, Done
      <3>3. CASE ~IsPred
        <4>1. Links(Latest.pred) = 1
          BY <2>1, <2>2, <2>4, <3>3, NamedByGuard DEF Fits, IsPred, Guarded
        <4>2. handle \notin Cur.guards /\ handle \notin Cur.temps
          BY <2>1, <2>2, <3>3 DEF Fits, IsPred
        <4>3. Links(handle) = 1
          BY <2>1, <4>2, NamedOnce
        <4>4. QED
          BY <2>3, <2>4, <3>1, <3>3, <4>1, <4>3 DEF Provable, Done
      <3>4. QED
        BY <3>2, <3>3
    <2>5. CASE ~Guarded
      <3>1. handle \notin Cur.guards /\ handle \notin Cur.temps
        BY <2>1, <2>2, <2>5 DEF Fits, Guarded
      <3>2. Links(handle) = 1
        BY <2>1, <3>1, NamedOnce
      <3>3. Latest.st \in Done \/ (Early /\ IsPred)
        BY <2>1, <2>2, <2>5 DEF Fits, Guarded, Early, IsPred, EarlyState, Done
      <3>4. QED
        BY <2>3, <2>5, <3>2, <3>3 DEF Provable, Done
    <2>6. QED
      BY <2>4, <2>5
  <1>1. TypeOK'
    <2>1. DiskType /\ NumType /\ FileType /\ WordType
      BY TypeParts DEF IInv
    <2>2. DiskType'
      BY <2>1 DEF DiskType, Resolve, disk, proc, hist, bound
    <2>3. NumType'
      BY <2>1, WalAssumption DEF NumType, Resolve, disk, proc, hist, bound
    <2>4. FileType'
      BY <2>1 DEF FileType, Resolve, disk, proc, hist, bound
    <2>5. WordType'
      BY <1>0, <2>1 DEF WordType, Step, Goal, State, Result, Resolve, disk, proc, hist, bound
    <2>6. QED
      BY <2>2, <2>3, <2>4, <2>5, TypePartsNext
  <1>2. /\ Stored' /\ Same /\ Cur' = Cur /\ Pending' = Pending /\ Latest' = Latest
        /\ Alone' = Alone /\ (result' = result /\ before' = before => ResultInv')
    <2>1. floor' \in Nat /\ floor' >= floor
      BY Ranges DEF IInv, Resolve, disk, proc, hist, bound
    <2>2. QED
      BY <1>1, <2>1, SameDiskFacts DEF Same, Resolve, disk, proc, hist, bound
  <1>3. ResultInv'
    BY <1>2 DEF Resolve, disk, proc, hist, bound
  <1>4. /\ Whole' = Whole /\ Synced' = Synced /\ Exact' = Exact /\ Existing' = Existing
        /\ Ready' = Ready /\ Fitting' = Fitting /\ Drafted' = Drafted /\ Wanted' = Wanted
    BY <1>2, SameProc, SameWanted DEF Resolve, disk, proc, hist, bound
  <1>5. HandleInv'
    BY <1>0, <1>2, <1>4 DEF IInv, Control, HandleInv, PostUnlink, Resolve, disk, proc, hist,
       bound
  <1>6. GoalInv'
    BY <1>0, <1>2, <1>4 DEF IInv, Control, GoalInv, Step, Steps, Building, Writing, PostUnlink,
       Resuming, Resolve, disk, proc, hist, bound
  <1>7. BeforeInv'
    BY <1>0, <1>2, <1>4 DEF IInv, Control, BeforeInv, Writing, PostUnlink, EarlyState, Resolve,
       disk, proc, hist, bound
  <1>8. IntentInv'
    BY <1>0, <1>2, <1>4 DEF IInv, Control, IntentInv, Writing, Clearing, EarlyState, Done,
       Resolve, disk, proc, hist, bound
  <1>9. PersistInv'
    BY <1>0, <1>2, <1>4 DEF IInv, Control, PersistInv, EarlyState, Resolve, disk, proc, hist,
       bound
  <1>10. BuildInv'
    BY <1>0, <1>2, <1>4 DEF IInv, Control, BuildInv, Building, Writing, PostUnlink, Resolve,
       disk, proc, hist, bound
  <1>11. QED
    BY <1>1, <1>2, <1>3, <1>5, <1>6, <1>7, <1>8, <1>9, <1>10 DEF IInv, Control, Same

\* The replacement is durable: its predecessor may be cleaned up.
LEMMA ResolveCheckpointedKeeps ==
    ASSUME IInv, ResolveCheckpointed
    PROVE  IInv' /\ Same
  <1>0. Latest.pred \in File /\ Latest.repl \in File
    BY PendingFacts DEF IInv, Control, IntentInv, ResolveCheckpointed, Resolving
  <1>1. TypeOK'
    <2>1. DiskType /\ NumType /\ FileType /\ WordType
      BY TypeParts DEF IInv
    <2>2. DiskType'
      BY <2>1 DEF DiskType, ResolveCheckpointed, Resolving, Persist, TakeUp, disk, hist, bound
    <2>3. NumType'
      BY <2>1, WalAssumption DEF NumType, ResolveCheckpointed, Resolving, Persist, TakeUp, disk,
         hist, bound
    <2>4. FileType'
      BY <1>0, <2>1 DEF FileType, ResolveCheckpointed, Resolving, Persist, TakeUp, disk, hist,
         bound
    <2>5. WordType'
      BY <2>1 DEF WordType, Step, Goal, State, Result, ResolveCheckpointed, Resolving, Persist,
         TakeUp, disk, hist, bound
    <2>6. QED
      BY <2>2, <2>3, <2>4, <2>5, TypePartsNext
  <1>2. /\ Stored' /\ Same /\ Cur' = Cur /\ Pending' = Pending /\ Latest' = Latest
        /\ Alone' = Alone /\ (result' = result /\ before' = before => ResultInv')
    <2>1. floor' \in Nat /\ floor' >= floor
      BY Ranges DEF IInv, ResolveCheckpointed, Resolving, Persist, TakeUp, disk, hist, bound
    <2>2. QED
      BY <1>1, <2>1, SameDiskFacts DEF Same, ResolveCheckpointed, Resolving, Persist, TakeUp,
         disk, hist, bound
  <1>3. ResultInv'
    BY <1>2 DEF ResolveCheckpointed, Resolving, Persist, TakeUp, disk, hist, bound
  <1>4. /\ Whole' = Whole /\ Ready' /\ Pending /\ Alone
        /\ Latest.st = "Checkpointed" /\ Cur.wal = Latest.repl
    <2>1. Whole' = Whole
      BY DEF Whole, NoTorn, ResolveCheckpointed, Resolving, Persist, TakeUp, disk, hist, bound
    <2>2. Pending
      BY DEF IInv, Control, IntentInv, ResolveCheckpointed, Resolving, Persist, TakeUp, disk,
         hist, bound
    <2>3. Cur.wal = Latest.repl /\ Alone
      BY <2>2, PendingFacts DEF IInv, Fits, EarlyState, Done, ResolveCheckpointed, Resolving,
         Persist, TakeUp, disk, hist, bound
    <2>4. Ready'
      BY DEF Ready, Emptied, Wanted, Done, ResolveCheckpointed, Resolving, Persist, TakeUp,
         disk, hist, bound
    <2>5. QED
      BY <2>1, <2>2, <2>3, <2>4 DEF ResolveCheckpointed, Resolving, Persist, TakeUp, disk, hist,
         bound
  <1>5. HandleInv'
    BY <1>2, <1>4 DEF IInv, Control, HandleInv, PostUnlink, ResolveCheckpointed, Resolving,
       Persist, TakeUp, disk, hist, bound
  <1>6. GoalInv'
    BY <1>2, <1>4 DEF IInv, Control, GoalInv, Step, Steps, Building, Writing, PostUnlink,
       Resuming, State, ResolveCheckpointed, Resolving, Persist, TakeUp, disk, hist, bound
  <1>7. BeforeInv'
    BY <1>2, <1>4 DEF IInv, Control, BeforeInv, Writing, PostUnlink, EarlyState,
       ResolveCheckpointed, Resolving, Persist, TakeUp, disk, hist, bound
  <1>8. IntentInv'
    BY <1>2, <1>4 DEF IInv, Control, IntentInv, Writing, Clearing, EarlyState, Done,
       ResolveCheckpointed, Resolving, Persist, TakeUp, disk, hist, bound
  <1>9. PersistInv'
    BY <1>2, <1>4 DEF IInv, Control, PersistInv, EarlyState, ResolveCheckpointed, Resolving,
       Persist, TakeUp, disk, hist, bound
  <1>10. BuildInv'
    BY <1>2, <1>4 DEF IInv, Control, BuildInv, Building, Writing, PostUnlink,
       ResolveCheckpointed, Resolving, Persist, TakeUp, disk, hist, bound
  <1>11. QED
    BY <1>1, <1>2, <1>3, <1>5, <1>6, <1>7, <1>8, <1>9, <1>10 DEF IInv, Control, Same

\* Nothing is pending, or only a completed intent: the log is opened, and a
\* compaction reports what became of it.
LEMMA ResolvedKeeps ==
    ASSUME IInv, Resolved
    PROVE  IInv' /\ Same
  <1>0. /\ goal \in Resuming /\ handle = Cur.wal /\ handle # NoFile /\ handle' = handle
        /\ Pending => Latest.st = "NamespaceDurable"
    BY DEF IInv, Control, GoalInv, HandleInv, IntentInv, PostUnlink, Resuming, Resolved,
       Resolving
  <1>a. /\ goal = "open" => pc' = "orphans" /\ goal' = "reopened" /\ result' = result
        /\ goal # "open" => pc' = "ready" /\ goal' = goal
        /\ goal = "rollback" => result' = "RejectedBeforeWrite"
        /\ goal = "undo" => result' = "BytesMayHavePersisted"
        /\ goal = "finish" => result' = "Succeeded"
        /\ UNCHANGED <<disk, want, after, pred, repl, written, acked, floor, before, bound>>
    BY <1>0 DEF Resolved, Resuming
  <1>1. TypeOK'
    <2>1. DiskType /\ NumType /\ FileType /\ WordType
      BY TypeParts DEF IInv
    <2>2. DiskType'
      BY <1>0, <1>a, <2>1 DEF DiskType, disk, proc, hist, bound
    <2>3. NumType'
      BY <1>0, <1>a, <2>1, WalAssumption DEF NumType, disk, proc, hist, bound
    <2>4. FileType'
      BY <1>0, <1>a, <2>1 DEF FileType
    <2>5. WordType'
      BY <1>0, <1>a, <2>1 DEF WordType, Resuming, Step, Goal, State, Result
    <2>6. QED
      BY <1>0, <1>a, <2>2, <2>3, <2>4, <2>5, TypePartsNext
  <1>2. /\ Stored' /\ Same /\ Cur' = Cur /\ Pending' = Pending /\ Latest' = Latest
        /\ Alone' = Alone /\ (result' = result /\ before' = before => ResultInv')
    <2>1. floor' \in Nat /\ floor' >= floor
      BY <1>a, Ranges DEF IInv
    <2>2. QED
      BY <1>0, <1>a, <1>1, <2>1, SameDiskFacts DEF Same
  <1>3. ResultInv'
    <2>1. Dirs' = Dirs /\ \A d : Read(d)' = Read(d)
      BY <1>0, <1>a, <1>a, SameView DEF disk, Dirs, Cur
    <2>2. \A d \in Dirs : Read(d) \in {NoFile, handle}
      BY <1>0, <1>a, <1>0, OpenFacts DEF IInv, Mixed
    <2>3. CASE goal = "open"
      BY <1>0, <1>a, <1>2, <1>a, <2>3
    <2>4. CASE goal = "rollback"
      <3>1. handle = before
        BY <1>0, <1>a, <2>4 DEF IInv, Control, GoalInv, BeforeInv, Building, PostUnlink
      <3>2. QED
        BY <1>0, <1>0, <1>a, <2>1, <2>2, <2>4, <3>1 DEF ResultInv
    <2>5. CASE goal = "undo"
      BY <1>0, <1>a, <1>a, <2>5 DEF ResultInv
    <2>6. CASE goal = "finish"
      <3>1. handle # before /\ before # NoFile
        BY <1>0, <1>a, <2>6 DEF IInv, Control, BeforeInv
      <3>2. QED
        BY <1>0, <1>0, <1>a, <2>1, <2>2, <2>6, <3>1 DEF ResultInv
    <2>7. QED
      BY <1>0, <1>a, <1>0, <2>3, <2>4, <2>5, <2>6 DEF Resuming
  <1>4. /\ Whole' = Whole /\ Synced' = Synced /\ Exact' = Exact /\ Existing' = Existing
        /\ Ready' = Ready /\ Fitting' = Fitting /\ Drafted' = Drafted /\ Wanted' = Wanted
    BY <1>0, <1>a, <1>2, SameProc, SameWanted DEF disk, proc, hist, bound
  <1>5. HandleInv'
    BY <1>0, <1>a, <1>2, <1>4 DEF IInv, Control, HandleInv, PostUnlink
  <1>6. GoalInv'
    BY <1>0, <1>a, <1>2, <1>4 DEF IInv, Control, GoalInv, Step, Steps, Building, Writing,
       PostUnlink, Resuming
  <1>7. BeforeInv'
    BY <1>0, <1>a, <1>2, <1>4 DEF IInv, Control, BeforeInv, GoalInv, Step, Steps, Building,
       Writing, PostUnlink, Resuming, EarlyState
  <1>8. IntentInv'
    BY <1>0, <1>a, <1>2, <1>4 DEF IInv, Control, IntentInv, Writing, Clearing, EarlyState, Done
  <1>9. PersistInv'
    BY <1>0, <1>a, <1>2, <1>4 DEF IInv, Control, PersistInv, EarlyState
  <1>10. BuildInv'
    BY <1>0, <1>a, <1>2, <1>4 DEF IInv, Control, BuildInv, Building, Writing, PostUnlink
  <1>11. QED
    BY <1>0, <1>a, <1>1, <1>2, <1>3, <1>5, <1>6, <1>7, <1>8, <1>9, <1>10 DEF IInv, Control, Same

---------------------------------------------------------------------------
(* Steps that flush the directory.                                         *)

\* The restored name is durable.
LEMMA RestoreFlushKeeps ==
    ASSUME IInv, RestoreFlush
    PROVE  IInv' /\ Same
  <1>1. TypeOK'
    <2>1. DiskType /\ NumType /\ FileType /\ WordType
      BY TypeParts DEF IInv
    <2>2. DiskType'
      <3>1. Cur \in Dir
        BY DirsFacts DEF IInv
      <3>2. QED
        BY <2>1, <3>1, Replaced DEF DiskType, DirFlush, RestoreFlush, Goto, proc, hist, bound
    <2>3. NumType'
      BY <2>1, WalAssumption DEF NumType, RestoreFlush, Goto, proc, hist, bound
    <2>4. FileType'
      BY <2>1 DEF FileType, RestoreFlush, Goto, proc, hist, bound
    <2>5. WordType'
      BY <2>1 DEF WordType, Step, Goal, State, Result, RestoreFlush, Goto, proc, hist, bound
    <2>6. QED
      BY <2>2, <2>3, <2>4, <2>5, TypePartsNext
  <1>2. /\ Stored' /\ Same /\ Cur' = Cur /\ Pending' = Pending /\ Latest' = Latest
        /\ Alone' /\ (result' = result /\ before' = before => ResultInv')
    BY <1>1, FlushedFacts DEF Same, RestoreFlush, Goto, proc, hist, bound
  <1>3. ResultInv'
    BY <1>2 DEF RestoreFlush, Goto, proc, hist, bound
  <1>4. /\ Whole' = Whole /\ Synced' = Synced /\ Exact' = Exact /\ Existing' = Existing
        /\ Ready' = Ready /\ Fitting' = Fitting /\ Drafted' = Drafted /\ Wanted' = Wanted
    BY <1>2, SameProc, SameWanted DEF RestoreFlush, Goto, proc, hist, bound
  <1>5. HandleInv'
    BY <1>2, <1>4 DEF IInv, Control, HandleInv, PostUnlink, RestoreFlush, Goto, proc, hist,
       bound
  <1>6. GoalInv'
    BY <1>2, <1>4 DEF IInv, Control, GoalInv, Step, Steps, Building, Writing, PostUnlink,
       Resuming, RestoreFlush, Goto, proc, hist, bound
  <1>7. BeforeInv'
    BY <1>2, <1>4 DEF IInv, Control, BeforeInv, Writing, PostUnlink, EarlyState, RestoreFlush,
       Goto, proc, hist, bound
  <1>8. IntentInv'
    BY <1>2, <1>4 DEF IInv, Control, IntentInv, Writing, Clearing, EarlyState, Done,
       RestoreFlush, Goto, proc, hist, bound
  <1>9. PersistInv'
    BY <1>2, <1>4 DEF IInv, Control, PersistInv, EarlyState, RestoreFlush, Goto, proc, hist,
       bound
  <1>10. BuildInv'
    BY <1>2, <1>4 DEF IInv, Control, BuildInv, Building, Writing, PostUnlink, RestoreFlush,
       Goto, proc, hist, bound
  <1>11. QED
    BY <1>1, <1>2, <1>3, <1>5, <1>6, <1>7, <1>8, <1>9, <1>10 DEF IInv, Control, Same

\* An orphan is gone for good.
LEMMA OrphansFlushKeeps ==
    ASSUME IInv, OrphansFlush
    PROVE  IInv' /\ Same
  <1>1. TypeOK'
    <2>1. DiskType /\ NumType /\ FileType /\ WordType
      BY TypeParts DEF IInv
    <2>2. DiskType'
      <3>1. Cur \in Dir
        BY DirsFacts DEF IInv
      <3>2. QED
        BY <2>1, <3>1, Replaced DEF DiskType, DirFlush, OrphansFlush, Goto, proc, hist, bound
    <2>3. NumType'
      BY <2>1, WalAssumption DEF NumType, OrphansFlush, Goto, proc, hist, bound
    <2>4. FileType'
      BY <2>1 DEF FileType, OrphansFlush, Goto, proc, hist, bound
    <2>5. WordType'
      BY <2>1 DEF WordType, Step, Goal, State, Result, OrphansFlush, Goto, proc, hist, bound
    <2>6. QED
      BY <2>2, <2>3, <2>4, <2>5, TypePartsNext
  <1>2. /\ Stored' /\ Same /\ Cur' = Cur /\ Pending' = Pending /\ Latest' = Latest
        /\ Alone' /\ (result' = result /\ before' = before => ResultInv')
    BY <1>1, FlushedFacts DEF Same, OrphansFlush, Goto, proc, hist, bound
  <1>3. ResultInv'
    BY <1>2 DEF OrphansFlush, Goto, proc, hist, bound
  <1>4. /\ Whole' = Whole /\ Synced' = Synced /\ Exact' = Exact /\ Existing' = Existing
        /\ Ready' = Ready /\ Fitting' = Fitting /\ Drafted' = Drafted /\ Wanted' = Wanted
    BY <1>2, SameProc, SameWanted DEF OrphansFlush, Goto, proc, hist, bound
  <1>5. HandleInv'
    BY <1>2, <1>4 DEF IInv, Control, HandleInv, PostUnlink, OrphansFlush, Goto, proc, hist,
       bound
  <1>6. GoalInv'
    BY <1>2, <1>4 DEF IInv, Control, GoalInv, Step, Steps, Building, Writing, PostUnlink,
       Resuming, OrphansFlush, Goto, proc, hist, bound
  <1>7. BeforeInv'
    BY <1>2, <1>4 DEF IInv, Control, BeforeInv, Writing, PostUnlink, EarlyState, OrphansFlush,
       Goto, proc, hist, bound
  <1>8. IntentInv'
    BY <1>2, <1>4 DEF IInv, Control, IntentInv, Writing, Clearing, EarlyState, Done,
       OrphansFlush, Goto, proc, hist, bound
  <1>9. PersistInv'
    BY <1>2, <1>4 DEF IInv, Control, PersistInv, EarlyState, OrphansFlush, Goto, proc, hist,
       bound
  <1>10. BuildInv'
    BY <1>2, <1>4 DEF IInv, Control, BuildInv, Building, Writing, PostUnlink, OrphansFlush,
       Goto, proc, hist, bound
  <1>11. QED
    BY <1>1, <1>2, <1>3, <1>5, <1>6, <1>7, <1>8, <1>9, <1>10 DEF IInv, Control, Same

\* The intent is published.
LEMMA PersistDirFlushKeeps ==
    ASSUME IInv, PersistDirFlush
    PROVE  IInv' /\ Same
  <1>1. TypeOK'
    <2>1. DiskType /\ NumType /\ FileType /\ WordType
      BY TypeParts DEF IInv
    <2>2. DiskType'
      <3>1. Cur \in Dir
        BY DirsFacts DEF IInv
      <3>2. QED
        BY <2>1, <3>1, Replaced DEF DiskType, DirFlush, PersistDirFlush, Goto, proc, hist, bound
    <2>3. NumType'
      BY <2>1, WalAssumption DEF NumType, PersistDirFlush, Goto, proc, hist, bound
    <2>4. FileType'
      BY <2>1 DEF FileType, PersistDirFlush, Goto, proc, hist, bound
    <2>5. WordType'
      BY <2>1 DEF WordType, Step, Goal, State, Result, PersistDirFlush, Goto, proc, hist, bound
    <2>6. QED
      BY <2>2, <2>3, <2>4, <2>5, TypePartsNext
  <1>2. /\ Stored' /\ Same /\ Cur' = Cur /\ Pending' = Pending /\ Latest' = Latest
        /\ Alone' /\ (result' = result /\ before' = before => ResultInv')
    BY <1>1, FlushedFacts DEF Same, PersistDirFlush, Goto, proc, hist, bound
  <1>3. ResultInv'
    BY <1>2 DEF PersistDirFlush, Goto, proc, hist, bound
  <1>4. /\ Whole' = Whole /\ Synced' = Synced /\ Exact' = Exact /\ Existing' = Existing
        /\ Ready' = Ready /\ Fitting' = Fitting /\ Drafted' = Drafted /\ Wanted' = Wanted
    BY <1>2, SameProc, SameWanted DEF PersistDirFlush, Goto, proc, hist, bound
  <1>5. HandleInv'
    BY <1>2, <1>4 DEF IInv, Control, HandleInv, PostUnlink, PersistDirFlush, Goto, proc, hist,
       bound
  <1>6. GoalInv'
    BY <1>2, <1>4 DEF IInv, Control, GoalInv, Step, Steps, Building, Writing, PostUnlink,
       Resuming, PersistDirFlush, Goto, proc, hist, bound
  <1>7. BeforeInv'
    BY <1>2, <1>4 DEF IInv, Control, BeforeInv, GoalInv, Step, Steps, Building, Writing,
       PostUnlink, Resuming, EarlyState, PersistDirFlush, Goto, proc, hist, bound
  <1>8. IntentInv'
    BY <1>2, <1>4 DEF IInv, Control, GoalInv, IntentInv, Step, Steps, Building, Writing,
       PostUnlink, Clearing, Resuming, EarlyState, Done, PersistDirFlush, Goto, proc, hist,
       bound
  <1>9. PersistInv'
    BY <1>2, <1>4 DEF IInv, Control, PersistInv, EarlyState, PersistDirFlush, Goto, proc, hist,
       bound
  <1>10. BuildInv'
    BY <1>2, <1>4 DEF IInv, Control, PersistInv, BuildInv, Wanted, Building, Writing,
       PostUnlink, PersistDirFlush, Goto, proc, hist, bound
  <1>11. QED
    BY <1>1, <1>2, <1>3, <1>5, <1>6, <1>7, <1>8, <1>9, <1>10 DEF IInv, Control, Same

\* The intent is gone for good.
LEMMA ClearFlushKeeps ==
    ASSUME IInv, ClearFlush
    PROVE  IInv' /\ Same
  <1>1. TypeOK'
    <2>1. DiskType /\ NumType /\ FileType /\ WordType
      BY TypeParts DEF IInv
    <2>2. DiskType'
      <3>1. Cur \in Dir
        BY DirsFacts DEF IInv
      <3>2. QED
        BY <2>1, <3>1, Replaced DEF DiskType, DirFlush, ClearFlush, Goto, proc, hist, bound
    <2>3. NumType'
      BY <2>1, WalAssumption DEF NumType, ClearFlush, Goto, proc, hist, bound
    <2>4. FileType'
      BY <2>1 DEF FileType, ClearFlush, Goto, proc, hist, bound
    <2>5. WordType'
      BY <2>1 DEF WordType, Step, Goal, State, Result, ClearFlush, Goto, proc, hist, bound
    <2>6. QED
      BY <2>2, <2>3, <2>4, <2>5, TypePartsNext
  <1>2. /\ Stored' /\ Same /\ Cur' = Cur /\ Pending' = Pending /\ Latest' = Latest
        /\ Alone' /\ (result' = result /\ before' = before => ResultInv')
    BY <1>1, FlushedFacts DEF Same, ClearFlush, Goto, proc, hist, bound
  <1>3. ResultInv'
    BY <1>2 DEF ClearFlush, Goto, proc, hist, bound
  <1>4. /\ Whole' = Whole /\ Synced' = Synced /\ Exact' = Exact /\ Existing' = Existing
        /\ Ready' = Ready /\ Fitting' = Fitting /\ Drafted' = Drafted /\ Wanted' = Wanted
    BY <1>2, SameProc, SameWanted DEF ClearFlush, Goto, proc, hist, bound
  <1>5. HandleInv'
    BY <1>2, <1>4 DEF IInv, Control, HandleInv, PostUnlink, ClearFlush, Goto, proc, hist, bound
  <1>6. GoalInv'
    BY <1>2, <1>4 DEF IInv, Control, GoalInv, Step, Steps, Building, Writing, PostUnlink,
       Resuming, ClearFlush, Goto, proc, hist, bound
  <1>7. BeforeInv'
    BY <1>2, <1>4 DEF IInv, Control, BeforeInv, GoalInv, Step, Steps, Building, Writing,
       PostUnlink, Resuming, EarlyState, ClearFlush, Goto, proc, hist, bound
  <1>8. IntentInv'
    BY <1>2, <1>4 DEF IInv, Control, GoalInv, IntentInv, Step, Steps, Building, Writing,
       PostUnlink, Clearing, Resuming, EarlyState, Done, ClearFlush, Goto, proc, hist, bound
  <1>9. PersistInv'
    BY <1>2, <1>4 DEF IInv, Control, GoalInv, PersistInv, Step, Steps, Building, Writing,
       PostUnlink, Resuming, EarlyState, ClearFlush, Goto, proc, hist, bound
  <1>10. BuildInv'
    BY <1>2, <1>4 DEF IInv, Control, BuildInv, GoalInv, Step, Steps, Building, Writing,
       PostUnlink, Resuming, ClearFlush, Goto, proc, hist, bound
  <1>11. QED
    BY <1>1, <1>2, <1>3, <1>5, <1>6, <1>7, <1>8, <1>9, <1>10 DEF IInv, Control, Same

\* The guard is gone for good.
LEMMA RollBackFlushKeeps ==
    ASSUME IInv, RollBackFlush
    PROVE  IInv' /\ Same
  <1>1. TypeOK'
    <2>1. DiskType /\ NumType /\ FileType /\ WordType
      BY TypeParts DEF IInv
    <2>2. DiskType'
      <3>1. Cur \in Dir
        BY DirsFacts DEF IInv
      <3>2. QED
        BY <2>1, <3>1, Replaced DEF DiskType, DirFlush, RollBackFlush, Goto, proc, hist, bound
    <2>3. NumType'
      BY <2>1, WalAssumption DEF NumType, RollBackFlush, Goto, proc, hist, bound
    <2>4. FileType'
      BY <2>1 DEF FileType, RollBackFlush, Goto, proc, hist, bound
    <2>5. WordType'
      BY <2>1 DEF WordType, Step, Goal, State, Result, RollBackFlush, Goto, proc, hist, bound
    <2>6. QED
      BY <2>2, <2>3, <2>4, <2>5, TypePartsNext
  <1>2. /\ Stored' /\ Same /\ Cur' = Cur /\ Pending' = Pending /\ Latest' = Latest
        /\ Alone' /\ (result' = result /\ before' = before => ResultInv')
    BY <1>1, FlushedFacts DEF Same, RollBackFlush, Goto, proc, hist, bound
  <1>3. ResultInv'
    BY <1>2 DEF RollBackFlush, Goto, proc, hist, bound
  <1>4. /\ Whole' = Whole /\ Synced' = Synced /\ Exact' = Exact /\ Existing' = Existing
        /\ Ready' = Ready /\ Fitting' = Fitting /\ Drafted' = Drafted /\ Wanted' = Wanted
    BY <1>2, SameProc, SameWanted DEF RollBackFlush, Goto, proc, hist, bound
  <1>5. HandleInv'
    BY <1>2, <1>4 DEF IInv, Control, HandleInv, PostUnlink, RollBackFlush, Goto, proc, hist,
       bound
  <1>6. GoalInv'
    BY <1>2, <1>4 DEF IInv, Control, GoalInv, Step, Steps, Building, Writing, PostUnlink,
       Resuming, RollBackFlush, Goto, proc, hist, bound
  <1>7. BeforeInv'
    BY <1>2, <1>4 DEF IInv, Control, BeforeInv, Writing, PostUnlink, EarlyState, RollBackFlush,
       Goto, proc, hist, bound
  <1>8. IntentInv'
    BY <1>2, <1>4 DEF IInv, Control, IntentInv, Writing, Clearing, EarlyState, Done,
       RollBackFlush, Goto, proc, hist, bound
  <1>9. PersistInv'
    BY <1>2, <1>4 DEF IInv, Control, PersistInv, EarlyState, RollBackFlush, Goto, proc, hist,
       bound
  <1>10. BuildInv'
    BY <1>2, <1>4 DEF IInv, Control, BuildInv, Building, Writing, PostUnlink, RollBackFlush,
       Goto, proc, hist, bound
  <1>11. QED
    BY <1>1, <1>2, <1>3, <1>5, <1>6, <1>7, <1>8, <1>9, <1>10 DEF IInv, Control, Same

\* The retained file is gone for good.
LEMMA RetainedFlushKeeps ==
    ASSUME IInv, RetainedFlush
    PROVE  IInv' /\ Same
  <1>1. TypeOK'
    <2>1. DiskType /\ NumType /\ FileType /\ WordType
      BY TypeParts DEF IInv
    <2>2. DiskType'
      <3>1. Cur \in Dir
        BY DirsFacts DEF IInv
      <3>2. QED
        BY <2>1, <3>1, Replaced DEF DiskType, DirFlush, RetainedFlush, Goto, proc, hist, bound
    <2>3. NumType'
      BY <2>1, WalAssumption DEF NumType, RetainedFlush, Goto, proc, hist, bound
    <2>4. FileType'
      BY <2>1 DEF FileType, RetainedFlush, Goto, proc, hist, bound
    <2>5. WordType'
      BY <2>1 DEF WordType, Step, Goal, State, Result, RetainedFlush, Goto, proc, hist, bound
    <2>6. QED
      BY <2>2, <2>3, <2>4, <2>5, TypePartsNext
  <1>2. /\ Stored' /\ Same /\ Cur' = Cur /\ Pending' = Pending /\ Latest' = Latest
        /\ Alone' /\ (result' = result /\ before' = before => ResultInv')
    BY <1>1, FlushedFacts DEF Same, RetainedFlush, Goto, proc, hist, bound
  <1>3. ResultInv'
    BY <1>2 DEF RetainedFlush, Goto, proc, hist, bound
  <1>4. /\ Whole' = Whole /\ Synced' = Synced /\ Exact' = Exact /\ Existing' = Existing
        /\ Ready' = Ready /\ Fitting' = Fitting /\ Drafted' = Drafted /\ Wanted' = Wanted
    BY <1>2, SameProc, SameWanted DEF RetainedFlush, Goto, proc, hist, bound
  <1>5. HandleInv'
    BY <1>2, <1>4 DEF IInv, Control, HandleInv, PostUnlink, RetainedFlush, Goto, proc, hist,
       bound
  <1>6. GoalInv'
    BY <1>2, <1>4 DEF IInv, Control, GoalInv, Step, Steps, Building, Writing, PostUnlink,
       Resuming, RetainedFlush, Goto, proc, hist, bound
  <1>7. BeforeInv'
    BY <1>2, <1>4 DEF IInv, Control, BeforeInv, GoalInv, Step, Steps, Building, Writing,
       PostUnlink, Resuming, EarlyState, RetainedFlush, Goto, proc, hist, bound
  <1>8. IntentInv'
    BY <1>2, <1>4 DEF IInv, Control, IntentInv, Writing, Clearing, EarlyState, Done,
       RetainedFlush, Goto, proc, hist, bound
  <1>9. PersistInv'
    BY <1>2, <1>4 DEF IInv, Control, PersistInv, EarlyState, RetainedFlush, Goto, proc, hist,
       bound
  <1>10. BuildInv'
    BY <1>2, <1>4 DEF IInv, Control, BuildInv, Building, Writing, PostUnlink, RetainedFlush,
       Goto, proc, hist, bound
  <1>11. QED
    BY <1>1, <1>2, <1>3, <1>5, <1>6, <1>7, <1>8, <1>9, <1>10 DEF IInv, Control, Same

\* The tombstone is gone for good.
LEMMA TombstoneFlushKeeps ==
    ASSUME IInv, TombstoneFlush
    PROVE  IInv' /\ Same
  <1>1. TypeOK'
    <2>1. DiskType /\ NumType /\ FileType /\ WordType
      BY TypeParts DEF IInv
    <2>2. DiskType'
      <3>1. Cur \in Dir
        BY DirsFacts DEF IInv
      <3>2. QED
        BY <2>1, <3>1, Replaced DEF DiskType, DirFlush, TombstoneFlush, Goto, hist, bound
    <2>3. NumType'
      BY <2>1, WalAssumption DEF NumType, TombstoneFlush, Goto, hist, bound
    <2>4. FileType'
      BY <2>1 DEF FileType, TombstoneFlush, Goto, hist, bound
    <2>5. WordType'
      BY <2>1 DEF WordType, Step, Goal, State, Result, TombstoneFlush, Goto, hist, bound
    <2>6. QED
      BY <2>2, <2>3, <2>4, <2>5, TypePartsNext
  <1>2. /\ Stored' /\ Same /\ Cur' = Cur /\ Pending' = Pending /\ Latest' = Latest
        /\ Alone' /\ (result' = result /\ before' = before => ResultInv')
    BY <1>1, FlushedFacts DEF Same, TombstoneFlush, Goto, hist, bound
  <1>3. ResultInv'
    BY <1>2 DEF TombstoneFlush, Goto, hist, bound
  <1>4. /\ Whole' = Whole /\ Synced' = Synced /\ Exact' = Exact /\ Existing' = Existing
        /\ Ready' = Ready /\ Fitting' = Fitting /\ Drafted' = Drafted /\ Wanted' = Wanted
    BY <1>2, SameProc, SameWanted DEF TombstoneFlush, Goto, hist, bound
  <1>5. HandleInv'
    BY <1>2, <1>4 DEF IInv, Control, HandleInv, PostUnlink, TombstoneFlush, Goto, hist, bound
  <1>6. GoalInv'
    BY <1>2, <1>4 DEF IInv, Control, GoalInv, Step, Steps, Building, Writing, PostUnlink,
       Resuming, TombstoneFlush, Goto, hist, bound
  <1>7. BeforeInv'
    BY <1>2, <1>4 DEF IInv, Control, BeforeInv, Writing, PostUnlink, EarlyState, TombstoneFlush,
       Goto, hist, bound
  <1>8. IntentInv'
    BY <1>2, <1>4 DEF IInv, Control, IntentInv, Writing, Clearing, EarlyState, Done,
       TombstoneFlush, Goto, hist, bound
  <1>9. PersistInv'
    BY <1>2, <1>4 DEF IInv, Control, PersistInv, EarlyState, TombstoneFlush, Goto, hist, bound
  <1>10. BuildInv'
    BY <1>2, <1>4 DEF IInv, Control, BuildInv, Building, Writing, PostUnlink, TombstoneFlush,
       Goto, hist, bound
  <1>11. QED
    BY <1>1, <1>2, <1>3, <1>5, <1>6, <1>7, <1>8, <1>9, <1>10 DEF IInv, Control, Same

\* The guard is durable.
LEMMA LinkFlushKeeps ==
    ASSUME IInv, LinkFlush
    PROVE  IInv' /\ Same
  <1>1. TypeOK'
    <2>1. DiskType /\ NumType /\ FileType /\ WordType
      BY TypeParts DEF IInv
    <2>2. DiskType'
      <3>1. Cur \in Dir
        BY DirsFacts DEF IInv
      <3>2. QED
        BY <2>1, <3>1, Replaced DEF DiskType, DirFlush, LinkFlush, Goto, proc, hist, bound
    <2>3. NumType'
      BY <2>1, WalAssumption DEF NumType, LinkFlush, Goto, proc, hist, bound
    <2>4. FileType'
      BY <2>1 DEF FileType, LinkFlush, Goto, proc, hist, bound
    <2>5. WordType'
      BY <2>1 DEF WordType, Step, Goal, State, Result, LinkFlush, Goto, proc, hist, bound
    <2>6. QED
      BY <2>2, <2>3, <2>4, <2>5, TypePartsNext
  <1>2. /\ Stored' /\ Same /\ Cur' = Cur /\ Pending' = Pending /\ Latest' = Latest
        /\ Alone' /\ (result' = result /\ before' = before => ResultInv')
    BY <1>1, FlushedFacts DEF Same, LinkFlush, Goto, proc, hist, bound
  <1>3. ResultInv'
    BY <1>2 DEF LinkFlush, Goto, proc, hist, bound
  <1>4. /\ Whole' = Whole /\ Synced' = Synced /\ Exact' = Exact /\ Existing' = Existing
        /\ Ready' = Ready /\ Fitting' = Fitting /\ Drafted' = Drafted /\ Wanted' = Wanted
    BY <1>2, SameProc, SameWanted DEF LinkFlush, Goto, proc, hist, bound
  <1>5. HandleInv'
    BY <1>2, <1>4 DEF IInv, Control, HandleInv, PostUnlink, LinkFlush, Goto, proc, hist, bound
  <1>6. GoalInv'
    BY <1>2, <1>4 DEF IInv, Control, GoalInv, Step, Steps, Building, Writing, PostUnlink,
       Resuming, LinkFlush, Goto, proc, hist, bound
  <1>7. BeforeInv'
    BY <1>2, <1>4 DEF IInv, Control, BeforeInv, Writing, PostUnlink, EarlyState, LinkFlush,
       Goto, proc, hist, bound
  <1>8. IntentInv'
    BY <1>2, <1>4 DEF IInv, Control, IntentInv, Writing, Clearing, EarlyState, Done, LinkFlush,
       Goto, proc, hist, bound
  <1>9. PersistInv'
    BY <1>2, <1>4 DEF IInv, Control, PersistInv, EarlyState, LinkFlush, Goto, proc, hist, bound
  <1>10. BuildInv'
    BY <1>2, <1>4 DEF IInv, Control, BuildInv, Building, Writing, PostUnlink, LinkFlush, Goto,
       proc, hist, bound
  <1>11. QED
    BY <1>1, <1>2, <1>3, <1>5, <1>6, <1>7, <1>8, <1>9, <1>10 DEF IInv, Control, Same

\* The log has only the name of its guard.
LEMMA UnlinkFlushKeeps ==
    ASSUME IInv, UnlinkFlush
    PROVE  IInv' /\ Same
  <1>1. TypeOK'
    <2>1. DiskType /\ NumType /\ FileType /\ WordType
      BY TypeParts DEF IInv
    <2>2. DiskType'
      <3>1. Cur \in Dir
        BY DirsFacts DEF IInv
      <3>2. QED
        BY <2>1, <3>1, Replaced DEF DiskType, DirFlush, UnlinkFlush, Goto, proc, hist, bound
    <2>3. NumType'
      BY <2>1, WalAssumption DEF NumType, UnlinkFlush, Goto, proc, hist, bound
    <2>4. FileType'
      BY <2>1 DEF FileType, UnlinkFlush, Goto, proc, hist, bound
    <2>5. WordType'
      BY <2>1 DEF WordType, Step, Goal, State, Result, UnlinkFlush, Goto, proc, hist, bound
    <2>6. QED
      BY <2>2, <2>3, <2>4, <2>5, TypePartsNext
  <1>2. /\ Stored' /\ Same /\ Cur' = Cur /\ Pending' = Pending /\ Latest' = Latest
        /\ Alone' /\ (result' = result /\ before' = before => ResultInv')
    BY <1>1, FlushedFacts DEF Same, UnlinkFlush, Goto, proc, hist, bound
  <1>3. ResultInv'
    BY <1>2 DEF UnlinkFlush, Goto, proc, hist, bound
  <1>4. /\ Whole' = Whole /\ Synced' = Synced /\ Exact' = Exact /\ Existing' = Existing
        /\ Ready' = Ready /\ Fitting' = Fitting /\ Drafted' = Drafted /\ Wanted' = Wanted
    BY <1>2, SameProc, SameWanted DEF UnlinkFlush, Goto, proc, hist, bound
  <1>5. HandleInv'
    BY <1>2, <1>4 DEF IInv, Control, HandleInv, PostUnlink, UnlinkFlush, Goto, proc, hist, bound
  <1>6. GoalInv'
    BY <1>2, <1>4 DEF IInv, Control, GoalInv, Step, Steps, Building, Writing, PostUnlink,
       Resuming, UnlinkFlush, Goto, proc, hist, bound
  <1>7. BeforeInv'
    BY <1>2, <1>4 DEF IInv, Control, BeforeInv, Writing, PostUnlink, EarlyState, UnlinkFlush,
       Goto, proc, hist, bound
  <1>8. IntentInv'
    BY <1>2, <1>4 DEF IInv, Control, IntentInv, Writing, Clearing, EarlyState, Done,
       UnlinkFlush, Goto, proc, hist, bound
  <1>9. PersistInv'
    BY <1>2, <1>4 DEF IInv, Control, PersistInv, EarlyState, UnlinkFlush, Goto, proc, hist,
       bound
  <1>10. BuildInv'
    BY <1>2, <1>4 DEF IInv, Control, BuildInv, Building, Writing, PostUnlink, UnlinkFlush, Goto,
       proc, hist, bound
  <1>11. QED
    BY <1>1, <1>2, <1>3, <1>5, <1>6, <1>7, <1>8, <1>9, <1>10 DEF IInv, Control, Same

\* The replacement has the name of the log for good.
LEMMA RenameFlushKeeps ==
    ASSUME IInv, RenameFlush
    PROVE  IInv' /\ Same
  <1>1. TypeOK'
    <2>1. DiskType /\ NumType /\ FileType /\ WordType
      BY TypeParts DEF IInv
    <2>2. DiskType'
      <3>1. Cur \in Dir
        BY DirsFacts DEF IInv
      <3>2. QED
        BY <2>1, <3>1, Replaced DEF DiskType, DirFlush, RenameFlush, Goto, proc, hist, bound
    <2>3. NumType'
      BY <2>1, WalAssumption DEF NumType, RenameFlush, Goto, proc, hist, bound
    <2>4. FileType'
      BY <2>1 DEF FileType, RenameFlush, Goto, proc, hist, bound
    <2>5. WordType'
      BY <2>1 DEF WordType, Step, Goal, State, Result, RenameFlush, Goto, proc, hist, bound
    <2>6. QED
      BY <2>2, <2>3, <2>4, <2>5, TypePartsNext
  <1>2. /\ Stored' /\ Same /\ Cur' = Cur /\ Pending' = Pending /\ Latest' = Latest
        /\ Alone' /\ (result' = result /\ before' = before => ResultInv')
    BY <1>1, FlushedFacts DEF Same, RenameFlush, Goto, proc, hist, bound
  <1>3. ResultInv'
    BY <1>2 DEF RenameFlush, Goto, proc, hist, bound
  <1>4. /\ Whole' = Whole /\ Synced' = Synced /\ Exact' = Exact /\ Existing' = Existing
        /\ Ready' = Ready /\ Fitting' = Fitting /\ Drafted' = Drafted /\ Wanted' = Wanted
    BY <1>2, SameProc, SameWanted DEF RenameFlush, Goto, proc, hist, bound
  <1>5. HandleInv'
    BY <1>2, <1>4 DEF IInv, Control, HandleInv, PostUnlink, RenameFlush, Goto, proc, hist, bound
  <1>6. GoalInv'
    BY <1>2, <1>4 DEF IInv, Control, GoalInv, Step, Steps, Building, Writing, PostUnlink,
       Resuming, RenameFlush, Goto, proc, hist, bound
  <1>7. BeforeInv'
    BY <1>2, <1>4 DEF IInv, Control, BeforeInv, Writing, PostUnlink, EarlyState, RenameFlush,
       Goto, proc, hist, bound
  <1>8. IntentInv'
    BY <1>2, <1>4 DEF IInv, Control, IntentInv, Writing, Clearing, EarlyState, Done,
       RenameFlush, Goto, proc, hist, bound
  <1>9. PersistInv'
    BY <1>2, <1>4 DEF IInv, Control, PersistInv, EarlyState, RenameFlush, Goto, proc, hist,
       bound
  <1>10. BuildInv'
    BY <1>2, <1>4 DEF IInv, Control, BuildInv, Building, Writing, PostUnlink, RenameFlush, Goto,
       proc, hist, bound
  <1>11. QED
    BY <1>1, <1>2, <1>3, <1>5, <1>6, <1>7, <1>8, <1>9, <1>10 DEF IInv, Control, Same

\* The temporary file is gone for good.
LEMMA AbandonFlushKeeps ==
    ASSUME IInv, AbandonFlush
    PROVE  IInv' /\ Same
  <1>1. TypeOK'
    <2>1. DiskType /\ NumType /\ FileType /\ WordType
      BY TypeParts DEF IInv
    <2>2. DiskType'
      <3>1. Cur \in Dir
        BY DirsFacts DEF IInv
      <3>2. QED
        BY <2>1, <3>1, Replaced DEF DiskType, DirFlush, AbandonFlush, Close, hist, bound
    <2>3. NumType'
      BY <2>1, WalAssumption DEF NumType, AbandonFlush, Close, hist, bound
    <2>4. FileType'
      BY <2>1 DEF FileType, AbandonFlush, Close, hist, bound
    <2>5. WordType'
      BY <2>1 DEF WordType, Step, Goal, State, Result, AbandonFlush, Close, hist, bound
    <2>6. QED
      BY <2>2, <2>3, <2>4, <2>5, TypePartsNext
  <1>2. /\ Stored' /\ Same /\ Cur' = Cur /\ Pending' = Pending /\ Latest' = Latest
        /\ Alone' /\ (result' = result /\ before' = before => ResultInv')
    BY <1>1, FlushedFacts DEF Same, AbandonFlush, Close, hist, bound
  <1>3. ResultInv'
    BY <1>2 DEF AbandonFlush, Close, hist, bound
  <1>4. handle' = handle =>
        /\ Whole' = Whole /\ Synced' = Synced /\ Exact' = Exact /\ Existing' = Existing
        /\ Ready' = Ready /\ Fitting' = Fitting /\ Drafted' = Drafted /\ Wanted' = Wanted
    BY <1>2, SameProc, SameWanted DEF AbandonFlush, Close, hist, bound
  <1>5. HandleInv'
    BY <1>2, <1>4 DEF IInv, Control, HandleInv, PostUnlink, AbandonFlush, Close, hist, bound
  <1>6. GoalInv'
    BY <1>2, <1>4 DEF IInv, Control, GoalInv, Step, Steps, Building, Writing, PostUnlink,
       Resuming, AbandonFlush, Close, hist, bound
  <1>7. BeforeInv'
    BY <1>2, <1>4 DEF IInv, Control, BeforeInv, Writing, PostUnlink, EarlyState, AbandonFlush,
       Close, hist, bound
  <1>8. IntentInv'
    BY <1>2, <1>4 DEF IInv, Control, IntentInv, Writing, Clearing, EarlyState, Done,
       AbandonFlush, Close, hist, bound
  <1>9. PersistInv'
    BY <1>2, <1>4 DEF IInv, Control, PersistInv, EarlyState, AbandonFlush, Close, hist, bound
  <1>10. BuildInv'
    BY <1>2, <1>4 DEF IInv, Control, BuildInv, Building, Writing, PostUnlink, AbandonFlush,
       Close, hist, bound
  <1>11. QED
    BY <1>1, <1>2, <1>3, <1>5, <1>6, <1>7, <1>8, <1>9, <1>10 DEF IInv, Control, Same

\* The replacement is the log: its name is made durable.
LEMMA ResolveReplacementKeeps ==
    ASSUME IInv, ResolveReplacement
    PROVE  IInv' /\ Same
  <1>0. /\ Pending /\ Latest.pred \in File /\ Latest.repl \in File /\ Latest.st = "PublishArmed"
        /\ Cur.wal = Latest.repl /\ Emptied(Latest) /\ Latest.pred # Latest.repl
    <2>1. Pending /\ handle = Cur.wal
      BY DEF IInv, Control, IntentInv, HandleInv, PostUnlink, ResolveReplacement, Resolving,
         Persist, TakeUp, Early, IsRepl
    <2>2. QED
      BY <2>1, PendingFacts DEF IInv, Fits, EarlyState, Done, ResolveReplacement, Resolving,
         Persist, TakeUp, Early, IsRepl
  <1>1. TypeOK'
    <2>1. DiskType /\ NumType /\ FileType /\ WordType
      BY TypeParts DEF IInv
    <2>2. DiskType'
      <3>1. Cur \in Dir
        BY DirsFacts DEF IInv
      <3>2. QED
        BY <2>1, <3>1, Replaced DEF DiskType, DirFlush, ResolveReplacement, Resolving, Persist,
           TakeUp, Early, IsRepl, hist, bound
    <2>3. NumType'
      BY <2>1, WalAssumption DEF NumType, ResolveReplacement, Resolving, Persist, TakeUp, Early,
         IsRepl, hist, bound
    <2>4. FileType'
      BY <1>0, <2>1 DEF FileType, ResolveReplacement, Resolving, Persist, TakeUp, Early, IsRepl,
         hist, bound
    <2>5. WordType'
      BY <2>1 DEF WordType, Step, Goal, State, Result, ResolveReplacement, Resolving, Persist,
         TakeUp, Early, IsRepl, hist, bound
    <2>6. QED
      BY <2>2, <2>3, <2>4, <2>5, TypePartsNext
  <1>2. /\ Stored' /\ Same /\ Cur' = Cur /\ Pending' = Pending /\ Latest' = Latest
        /\ Alone' /\ (result' = result /\ before' = before => ResultInv')
    BY <1>1, FlushedFacts DEF Same, ResolveReplacement, Resolving, Persist, TakeUp, Early,
       IsRepl, hist, bound
  <1>3. ResultInv'
    BY <1>2 DEF ResolveReplacement, Resolving, Persist, TakeUp, Early, IsRepl, hist, bound
  <1>4. Whole' = Whole /\ Ready'
    <2>1. Whole' = Whole
      BY DEF Whole, NoTorn, ResolveReplacement, Resolving, Persist, TakeUp, Early, IsRepl, hist,
         bound
    <2>2. Ready'
      BY <1>0 DEF Ready, Emptied, Wanted, Done, ResolveReplacement, Resolving, Persist, TakeUp,
         Early, IsRepl, hist, bound
    <2>3. QED
      BY <2>1, <2>2
  <1>5. HandleInv'
    BY <1>0, <1>2, <1>4 DEF IInv, Control, HandleInv, PostUnlink, ResolveReplacement, Resolving,
       Persist, TakeUp, Early, IsRepl, hist, bound
  <1>6. GoalInv'
    BY <1>0, <1>2, <1>4 DEF IInv, Control, GoalInv, Step, Steps, Building, Writing, PostUnlink,
       Resuming, State, ResolveReplacement, Resolving, Persist, TakeUp, Early, IsRepl, hist,
       bound
  <1>7. BeforeInv'
    BY <1>0, <1>2, <1>4 DEF IInv, Control, BeforeInv, Writing, PostUnlink, EarlyState,
       ResolveReplacement, Resolving, Persist, TakeUp, Early, IsRepl, hist, bound
  <1>8. IntentInv'
    BY <1>0, <1>2, <1>4 DEF IInv, Control, IntentInv, Writing, Clearing, EarlyState, Done,
       ResolveReplacement, Resolving, Persist, TakeUp, Early, IsRepl, hist, bound
  <1>9. PersistInv'
    BY <1>0, <1>2, <1>4 DEF IInv, Control, PersistInv, EarlyState, ResolveReplacement,
       Resolving, Persist, TakeUp, Early, IsRepl, hist, bound
  <1>10. BuildInv'
    BY <1>0, <1>2, <1>4 DEF IInv, Control, BuildInv, Building, Writing, PostUnlink,
       ResolveReplacement, Resolving, Persist, TakeUp, Early, IsRepl, hist, bound
  <1>11. QED
    BY <1>1, <1>2, <1>3, <1>5, <1>6, <1>7, <1>8, <1>9, <1>10 DEF IInv, Control, Same

\* The predecessor was emptied: its names are made durable.
LEMMA ResolveCleanedKeeps ==
    ASSUME IInv, ResolveCleaned
    PROVE  IInv' /\ Same
  <1>0. /\ Pending /\ Latest.pred \in File /\ Latest.repl \in File /\ Latest.st = "Cleaned"
        /\ Cur.wal = Latest.repl /\ Emptied(Latest) /\ Latest.pred # Latest.repl
    <2>1. Pending /\ handle = Cur.wal
      BY DEF IInv, Control, IntentInv, HandleInv, PostUnlink, ResolveCleaned, Resolving,
         Persist, TakeUp
    <2>2. QED
      BY <2>1, PendingFacts DEF IInv, Fits, EarlyState, Done, ResolveCleaned, Resolving,
         Persist, TakeUp
  <1>1. TypeOK'
    <2>1. DiskType /\ NumType /\ FileType /\ WordType
      BY TypeParts DEF IInv
    <2>2. DiskType'
      <3>1. Cur \in Dir
        BY DirsFacts DEF IInv
      <3>2. QED
        BY <2>1, <3>1, Replaced DEF DiskType, DirFlush, ResolveCleaned, Resolving, Persist,
           TakeUp, hist, bound
    <2>3. NumType'
      BY <2>1, WalAssumption DEF NumType, ResolveCleaned, Resolving, Persist, TakeUp, hist,
         bound
    <2>4. FileType'
      BY <1>0, <2>1 DEF FileType, ResolveCleaned, Resolving, Persist, TakeUp, hist, bound
    <2>5. WordType'
      BY <2>1 DEF WordType, Step, Goal, State, Result, ResolveCleaned, Resolving, Persist,
         TakeUp, hist, bound
    <2>6. QED
      BY <2>2, <2>3, <2>4, <2>5, TypePartsNext
  <1>2. /\ Stored' /\ Same /\ Cur' = Cur /\ Pending' = Pending /\ Latest' = Latest
        /\ Alone' /\ (result' = result /\ before' = before => ResultInv')
    BY <1>1, FlushedFacts DEF Same, ResolveCleaned, Resolving, Persist, TakeUp, hist, bound
  <1>3. ResultInv'
    BY <1>2 DEF ResolveCleaned, Resolving, Persist, TakeUp, hist, bound
  <1>4. Whole' = Whole /\ Ready'
    <2>1. Whole' = Whole
      BY DEF Whole, NoTorn, ResolveCleaned, Resolving, Persist, TakeUp, hist, bound
    <2>2. Ready'
      BY <1>0 DEF Ready, Emptied, Wanted, Done, ResolveCleaned, Resolving, Persist, TakeUp,
         hist, bound
    <2>3. QED
      BY <2>1, <2>2
  <1>5. HandleInv'
    BY <1>0, <1>2, <1>4 DEF IInv, Control, HandleInv, PostUnlink, ResolveCleaned, Resolving,
       Persist, TakeUp, hist, bound
  <1>6. GoalInv'
    BY <1>0, <1>2, <1>4 DEF IInv, Control, GoalInv, Step, Steps, Building, Writing, PostUnlink,
       Resuming, State, ResolveCleaned, Resolving, Persist, TakeUp, hist, bound
  <1>7. BeforeInv'
    BY <1>0, <1>2, <1>4 DEF IInv, Control, BeforeInv, Writing, PostUnlink, EarlyState,
       ResolveCleaned, Resolving, Persist, TakeUp, hist, bound
  <1>8. IntentInv'
    BY <1>0, <1>2, <1>4 DEF IInv, Control, GoalInv, IntentInv, Step, Steps, Building, Writing,
       PostUnlink, Clearing, Resuming, EarlyState, Done, ResolveCleaned, Resolving, Persist,
       TakeUp, hist, bound
  <1>9. PersistInv'
    BY <1>0, <1>2, <1>4 DEF IInv, Control, PersistInv, EarlyState, ResolveCleaned, Resolving,
       Persist, TakeUp, hist, bound
  <1>10. BuildInv'
    BY <1>0, <1>2, <1>4 DEF IInv, Control, BuildInv, Building, Writing, PostUnlink,
       ResolveCleaned, Resolving, Persist, TakeUp, hist, bound
  <1>11. QED
    BY <1>1, <1>2, <1>3, <1>5, <1>6, <1>7, <1>8, <1>9, <1>10 DEF IInv, Control, Same

---------------------------------------------------------------------------
(* Steps that change the directory.                                        *)

\* Nothing but the directory changes, and it still makes the same file the log.
LEMMA ChangedFacts ==
    ASSUME IInv, TypeOK', NEW d \in Dir, Change(d), wal' = wal, intents' = intents,
           files' = files, written' = written, acked' = acked, floor' = floor,
           Good(d), Read(d) = Now, Now # NoFile, ~Mixed,
           Pending => Latest.st \notin {"Checkpointed", "CleanupArmed"},
           d.intent \in {NoFile, Cur.intent}
    PROVE  /\ Stored' /\ Same
           /\ (result' = result /\ before' = before => ResultInv')
           /\ Cur' = d /\ (d.intent = NoFile => ~Pending')
           /\ (d.intent = Cur.intent => Latest' = Latest /\ Pending' = Pending)
  <1>1. files' \in Nat /\ files' >= files
    BY Ranges DEF IInv
  <1>2. Unused' /\ DataInv'
    BY SameFile DEF IInv, Stored, Unused, DataInv, Durable, Decodes
  <1>3. Rec(d)' = Rec(d) /\ Read(d)' = Now /\ Good(d)'
    <2>1. Rec(d)' = Rec(d)
      BY DEF Rec
    <2>2. Read(d)' = Now
      BY <2>1 DEF Read
    <2>3. Good(d)'
      BY <2>1 DEF Good, Void, Known, Fits, Emptied
    <2>4. QED
      BY <2>1, <2>2, <2>3
  <1>4. d.intent # NoFile => Rec(d)'.st \notin {"Checkpointed", "CleanupArmed"}
    BY <1>3, LatestIs DEF Rec, Pending
  <1>5. /\ Stored' /\ Readable' = Readable /\ Cur' = d
        /\ (result' = result /\ before' = before => ResultInv')
    BY <1>1, <1>2, <1>3, <1>4, ExtendedFacts
  <1>6. d.intent = NoFile => ~Pending'
    BY <1>5 DEF Pending
  <1>7. d.intent = Cur.intent => Latest' = Latest /\ Pending' = Pending
    BY <1>5 DEF Latest, Pending
  <1>8. QED
    BY <1>5, <1>6, <1>7 DEF Same

\* A file that could not be written stays behind: the log is what it was.
LEMMA OrphanFacts ==
    ASSUME IInv, NumType', FileType', WordType', Orphan, wal' = wal, intents' = intents,
           written' = written, acked' = acked, floor' = floor, ~Pending, Cur.wal # NoFile
    PROVE  /\ TypeOK' /\ Stored' /\ Same /\ Cur'.wal = Cur.wal /\ ~Pending'
           /\ \A d \in Dirs' : Read(d)' \in {NoFile, Cur.wal}
  <1> PICK d : d = [Cur EXCEPT !.temps = @ \cup {files + 1}]
    OBVIOUS
  <1>t. Cur \in Dir /\ TypeOK /\ Stored /\ files \in Nat /\ files <= MaxFiles
        /\ MaxFiles \in Nat /\ NoFile \notin File
    BY DirsFacts, Ranges DEF IInv
  <1>n. /\ files + 1 \in File /\ files' = files + 1 /\ files' \in 0 .. MaxFiles
        /\ files' \in Nat /\ files' >= files /\ ~Known(files + 1)
    BY <1>t DEF File, Known, Orphan, Create, NewFile
  <1>a. Good(Cur) /\ Cur.intent = NoFile
    BY <1>t, IdleFacts DEF Pending
  <1>0. /\ d \in Dir /\ Change(d)
        /\ d.wal = Cur.wal /\ d.intent = Cur.intent /\ d.guards = Cur.guards
        /\ d.temps = Cur.temps \cup {files + 1}
    <2>1. d \in Dir
      BY <1>t, <1>n DEF Dir
    <2>2. /\ d.wal = Cur.wal /\ d.intent = Cur.intent /\ d.guards = Cur.guards
          /\ d.temps = Cur.temps \cup {files + 1}
      BY <1>t DEF Dir
    <2>3. QED
      BY <2>1, <2>2 DEF Orphan, NewFile
  <1>1. TypeOK'
    <2>1. DiskType
      BY TypeParts DEF IInv
    <2>2. dirs' \in Seq(Dir) /\ Len(dirs') > 0
      BY <1>0, <1>t, Appended
    <2>3. DiskType'
      BY <1>n, <2>1, <2>2 DEF DiskType
    <2>4. QED
      BY <2>3, TypePartsNext
  <1>2. Unused' /\ DataInv'
    BY <1>t, <1>n, SameFile DEF Stored, Unused, DataInv, Durable, Decodes, File
  <1>3. Good(d)' /\ Read(d)' = Now /\ Now # NoFile
    <2>1. Good(d)'
      BY <1>0, <1>a, <1>t, <1>n DEF Good, Void, Known
    <2>2. QED
      BY <1>0, <2>1 DEF Read, Now
  <1>4. d.intent = NoFile /\ ~Mixed
    BY <1>0, <1>a DEF Pending, Mixed
  <1>5. /\ Stored' /\ Readable' = Readable /\ Cur' = d
    BY <1>0, <1>1, <1>n, <1>2, <1>3, <1>4, ExtendedFacts
  <1>6. Cur'.wal = Cur.wal /\ ~Pending' /\ ~Mixed'
    BY <1>0, <1>4, <1>5 DEF Pending, Mixed
  <1>7. Now' = Cur.wal
    BY <1>6 DEF Now, Read
  <1>8. \A e \in Dirs' : Read(e)' \in {NoFile, Cur.wal}
    BY <1>5, <1>6, <1>7 DEF Stored, Agree
  <1>9. QED
    BY <1>1, <1>5, <1>6, <1>8 DEF Same

\* The temporary file cannot be written.
LEMMA TempFailsKeeps ==
    ASSUME IInv, TempFails
    PROVE  IInv' /\ Same
  <1>1. CASE UNCHANGED <<dirs, files>>
    BY <1>1, TempGoneKeeps
  <1>2. CASE Orphan
    <2>a. /\ ~Pending /\ Cur.wal # NoFile /\ handle = Cur.wal /\ handle = before /\ Whole
          /\ goal \in {"clear", "build"}
      BY DEF IInv, Control, HandleInv, GoalInv, BeforeInv, IntentInv, PostUnlink, TempFails, Goto
    <2>1. NumType' /\ FileType' /\ WordType'
      <3>1. NumType /\ FileType /\ WordType
        BY TypeParts DEF IInv
      <3>2. NumType'
        BY <3>1, WalAssumption DEF NumType, TempFails, Fault, proc
      <3>3. FileType'
        BY <3>1 DEF FileType, TempFails, proc
      <3>4. WordType'
        BY <3>1 DEF WordType, Step, Result, TempFails, Goto, proc
      <3>5. QED
        BY <3>2, <3>3, <3>4
    <2>2. /\ TypeOK' /\ Stored' /\ Same /\ Cur'.wal = Cur.wal /\ ~Pending'
          /\ \A d \in Dirs' : Read(d)' \in {NoFile, Cur.wal}
      BY <1>2, <2>a, <2>1, OrphanFacts DEF TempFails, proc
    <2>3. ResultInv'
      BY <2>a, <2>2 DEF ResultInv, TempFails
    <2>4. Whole'
      BY <2>a DEF Whole, NoTorn, TempFails, proc
    <2>5. Control'
      BY <2>a, <2>2, <2>4 DEF IInv, Control, HandleInv, GoalInv, BeforeInv, IntentInv, PersistInv,
         BuildInv, Building, Writing, PostUnlink, Clearing, Resuming, Step, Steps, TempFails, Goto,
         proc
    <2>6. QED
      BY <2>2, <2>3, <2>5 DEF IInv
  <1>3. QED
    BY <1>1, <1>2 DEF TempFails

\* An orphan is deleted.
LEMMA CleanupOrphansKeeps ==
    ASSUME IInv, CleanupOrphans
    PROVE  IInv' /\ Same
  <1> PICK f \in Cur.temps : Change([Cur EXCEPT !.temps = @ \ {f}])
    BY DEF CleanupOrphans
  <1> DEFINE d == [Cur EXCEPT !.temps = @ \ {f}]
  <1>t. Cur \in Dir /\ TypeOK /\ Stored
    BY DirsFacts DEF IInv
  <1>a. /\ ~Pending /\ Good(Cur) /\ ~Mixed /\ Cur.wal # NoFile
        /\ Change([Cur EXCEPT !.temps = @ \ {f}])
    BY <1>t, IdleFacts DEF IInv, Control, HandleInv, PostUnlink, Mixed, CleanupOrphans, Goto
  <1>0. /\ d \in Dir /\ Change(d)
        /\ d.wal = Cur.wal /\ d.intent = Cur.intent /\ d.guards = Cur.guards
        /\ d.temps = Cur.temps \ {f}
    <2>1. Cur.wal \in File \cup {NoFile} /\ Cur.intent \in File \cup {NoFile}
      BY <1>t, DirFields
    <2>2. d \in Dir
      BY <1>t, <1>a DEF Dir
    <2>3. /\ d.wal = Cur.wal /\ d.intent = Cur.intent /\ d.guards = Cur.guards
          /\ d.temps = Cur.temps \ {f}
      BY <1>t DEF Dir
    <2>4. QED
      BY <1>a, <2>2, <2>3 DEF CleanupOrphans, Goto, proc, hist, bound
  <1> HIDE DEF d
  <1>b. Good(d) /\ Read(d) = Now /\ Now # NoFile
    <2>1. Good(d)
      BY <1>0, <1>a DEF Good, Void, Pending
    <2>2. QED
      BY <1>0, <1>a, <2>1 DEF Now, Read
  <1>1. TypeOK'
    <2>1. DiskType /\ NumType /\ FileType /\ WordType
      BY TypeParts DEF IInv
    <2>2. DiskType'
      BY <1>0, <2>1, Appended DEF IInv, DiskType, CleanupOrphans, Goto, proc, hist, bound
    <2>3. NumType'
      BY <2>1, WalAssumption DEF NumType, CleanupOrphans, Goto, proc, hist, bound
    <2>4. FileType'
      BY <1>a, <2>1 DEF FileType, CleanupOrphans, Goto, proc, hist, bound
    <2>5. WordType'
      BY <1>a, <2>1 DEF WordType, Step, Goal, State, Result, CleanupOrphans, Goto, proc, hist,
         bound
    <2>6. QED
      BY <2>2, <2>3, <2>4, <2>5, TypePartsNext
  <1>2. /\ Stored' /\ Same /\ Cur' = d /\ (d.intent = NoFile => ~Pending')
        /\ (d.intent = Cur.intent => Latest' = Latest /\ Pending' = Pending)
        /\ (result' = result /\ before' = before => ResultInv')
    BY <1>a, <1>0, <1>1, <1>b, ChangedFacts DEF CleanupOrphans, Goto, proc, hist, bound
  <1>3. ResultInv'
    BY <1>2 DEF CleanupOrphans, Goto, proc, hist, bound
  <1>4. /\ Whole' = Whole /\ Synced' = Synced /\ Exact' = Exact /\ Existing' = Existing
    BY SameProc DEF CleanupOrphans, Goto, proc, hist, bound
  <1>5. HandleInv'
    BY <1>a, <1>0, <1>2, <1>4 DEF IInv, Control, HandleInv, PostUnlink, CleanupOrphans, Goto,
       proc, hist, bound
  <1>6. GoalInv'
    BY <1>a, <1>0, <1>2, <1>4 DEF IInv, Control, GoalInv, Step, Steps, Building, Writing,
       PostUnlink, Resuming, CleanupOrphans, Goto, proc, hist, bound
  <1>7. BeforeInv'
    BY <1>a, <1>0, <1>2, <1>4 DEF IInv, Control, BeforeInv, Writing, PostUnlink, EarlyState,
       CleanupOrphans, Goto, proc, hist, bound
  <1>8. IntentInv'
    BY <1>a, <1>0, <1>2, <1>4 DEF IInv, Control, IntentInv, Writing, Clearing, EarlyState, Done,
       CleanupOrphans, Goto, proc, hist, bound
  <1>9. PersistInv'
    BY <1>a, <1>0, <1>2, <1>4 DEF IInv, Control, PersistInv, EarlyState, CleanupOrphans, Goto,
       proc, hist, bound
  <1>10. BuildInv'
    BY <1>a, <1>0, <1>2, <1>4 DEF IInv, Control, BuildInv, Building, Writing, PostUnlink,
       CleanupOrphans, Goto, proc, hist, bound
  <1>11. QED
    BY <1>1, <1>2, <1>3, <1>5, <1>6, <1>7, <1>8, <1>9, <1>10 DEF IInv, Control, Same

\* The log has no name: the intent and the guard are what restoring it needs, and
\* nothing is refused.
LEMMA RestoreMissingCanonicalKeeps ==
    ASSUME IInv, RestoreMissingCanonical
    PROVE  IInv' /\ Same
  <1> DEFINE d == [Cur EXCEPT !.wal = Latest.pred, !.guards = @ \ {Latest.pred}]
  <1>t. Cur \in Dir /\ TypeOK /\ Stored
    BY DirsFacts DEF IInv
  <1>a. /\ Pending /\ Cur.wal = NoFile /\ goal = "open" /\ CanRestore /\ ~Mixed
        /\ Latest.st = "PublishArmed" /\ Latest.st \in State /\ Latest.pred \in File
        /\ Latest.repl \in File /\ Fits(Latest, Cur) /\ Emptied(Latest) /\ Good(Cur)
    <2>1. Pending /\ Cur.wal = NoFile /\ goal = "open"
      BY DEF RestoreMissingCanonical, IInv, Control, GoalInv
    <2>2. /\ Latest.st \in State /\ Latest.pred \in File /\ Latest.repl \in File
          /\ Fits(Latest, Cur) /\ Emptied(Latest) /\ Good(Cur) /\ Latest.repl # NoFile
      BY <1>t, <2>1, PendingFacts, Ranges
    <2>3. Latest.st = "PublishArmed" /\ Latest.pred \in Cur.guards /\ Latest.pred # NoFile
      BY <1>t, <2>1, <2>2, Ranges DEF Fits, EarlyState, Done
    <2>4. Links(Latest.pred) = 1
      BY <2>1, <2>2, <2>3, NamedByGuard DEF Fits
    <2>5. ~Mixed
      BY <2>1, <2>2 DEF Mixed
    <2>6. QED
      BY <2>1, <2>2, <2>3, <2>4, <2>5 DEF CanRestore
  <1>0. /\ d \in Dir /\ Change(d)
        /\ d.wal = Latest.pred /\ d.intent = Cur.intent /\ d.guards = Cur.guards \ {Latest.pred}
        /\ d.temps = Cur.temps
    <2>1. Cur.wal \in File \cup {NoFile} /\ Cur.intent \in File \cup {NoFile}
      BY <1>t, DirFields
    <2>2. d \in Dir
      BY <1>t, <1>a DEF Dir
    <2>3. /\ d.wal = Latest.pred /\ d.intent = Cur.intent
          /\ d.guards = Cur.guards \ {Latest.pred} /\ d.temps = Cur.temps
      BY <1>t DEF Dir
    <2>4. QED
      BY <1>a, <2>2, <2>3 DEF RestoreMissingCanonical, proc, hist, bound
  <1> HIDE DEF d
  <1>b. Good(d) /\ Read(d) = Now /\ Now # NoFile
    <2>1. Rec(d) = Latest /\ d.intent # NoFile /\ Cur.intent # NoFile
      BY <1>0, <1>a, LatestIs DEF Rec, Pending
    <2>2. Latest.pred # NoFile
      BY <1>t, <1>a, Ranges
    <2>3. Fits(Latest, d)
      BY <1>0, <1>a DEF Fits, EarlyState
    <2>4. Good(d)
      BY <1>0, <1>a, <2>1, <2>2, <2>3, LatestIs DEF Good, Void
    <2>5. Read(d) = Latest.pred /\ Now = Latest.pred
      BY <1>0, <1>a, <2>1, <2>2, LatestIs DEF Read, Now
    <2>6. QED
      BY <2>2, <2>4, <2>5
  <1>1. TypeOK'
    <2>1. DiskType /\ NumType /\ FileType /\ WordType
      BY TypeParts DEF IInv
    <2>2. DiskType'
      BY <1>0, <2>1, Appended DEF IInv, DiskType, RestoreMissingCanonical, proc, hist, bound
    <2>3. NumType'
      BY <2>1, WalAssumption DEF NumType, RestoreMissingCanonical, proc, hist, bound
    <2>4. FileType'
      BY <1>a, <2>1 DEF FileType, RestoreMissingCanonical, proc, hist, bound
    <2>5. WordType'
      BY <1>a, <2>1 DEF WordType, Step, Goal, State, Result, RestoreMissingCanonical, proc,
         hist, bound
    <2>6. QED
      BY <2>2, <2>3, <2>4, <2>5, TypePartsNext
  <1>2. /\ Stored' /\ Same /\ Cur' = d /\ (d.intent = NoFile => ~Pending')
        /\ (d.intent = Cur.intent => Latest' = Latest /\ Pending' = Pending)
        /\ (result' = result /\ before' = before => ResultInv')
    BY <1>a, <1>0, <1>1, <1>b, ChangedFacts DEF RestoreMissingCanonical, proc, hist, bound
  <1>3. ResultInv'
    BY <1>2 DEF RestoreMissingCanonical, proc, hist, bound
  <1>4. /\ Whole' = Whole /\ Synced' = Synced /\ Exact' = Exact /\ Existing' = Existing
    BY SameProc DEF RestoreMissingCanonical, proc, hist, bound
  <1>5. HandleInv'
    BY <1>a, <1>0, <1>2, <1>4 DEF IInv, Control, HandleInv, PostUnlink, RestoreMissingCanonical,
       proc, hist, bound
  <1>6. GoalInv'
    BY <1>a, <1>0, <1>2, <1>4 DEF IInv, Control, GoalInv, Step, Steps, Building, Writing,
       PostUnlink, Resuming, RestoreMissingCanonical, proc, hist, bound
  <1>7. BeforeInv'
    BY <1>a, <1>0, <1>2, <1>4 DEF IInv, Control, BeforeInv, Writing, PostUnlink, EarlyState,
       RestoreMissingCanonical, proc, hist, bound
  <1>8. IntentInv'
    BY <1>a, <1>0, <1>2, <1>4 DEF IInv, Control, IntentInv, Writing, Clearing, EarlyState, Done,
       RestoreMissingCanonical, proc, hist, bound
  <1>9. PersistInv'
    BY <1>a, <1>0, <1>2, <1>4 DEF IInv, Control, PersistInv, EarlyState,
       RestoreMissingCanonical, proc, hist, bound
  <1>10. BuildInv'
    BY <1>a, <1>0, <1>2, <1>4 DEF IInv, Control, BuildInv, Building, Writing, PostUnlink,
       RestoreMissingCanonical, proc, hist, bound
  <1>11. QED
    BY <1>1, <1>2, <1>3, <1>5, <1>6, <1>7, <1>8, <1>9, <1>10 DEF IInv, Control, Same

\* The intent of a compaction that was undone, or has been completed, is deleted: it
\* could be published again.
LEMMA ClearIntentKeeps ==
    ASSUME IInv, ClearIntent
    PROVE  IInv' /\ Same
  <1> DEFINE d == [Cur EXCEPT !.intent = NoFile]
  <1>t. Cur \in Dir /\ TypeOK /\ Stored
    BY DirsFacts DEF IInv
  <1>a. /\ pc \in Clearing /\ Latest.pred = pred /\ Latest.repl = repl /\ Cur.guards = {}
        /\ ((Latest.st \in EarlyState /\ Cur.wal = pred) \/ Latest.st = "NamespaceDurable")
        /\ Pending /\ handle = Cur.wal /\ Cur.wal # NoFile /\ ~Mixed
        /\ Latest.st \notin {"Checkpointed", "CleanupArmed"}
        /\ Latest.st \in State /\ Latest.pred \in File /\ Latest.repl \in File
        /\ Fits(Latest, Cur) /\ Emptied(Latest) /\ Good(Cur)
    <2>1. pc \in Clearing /\ Latest.pred = pred /\ Latest.repl = repl /\ Cur.guards = {}
        /\ ((Latest.st \in EarlyState /\ Cur.wal = pred) \/ Latest.st = "NamespaceDurable")
        /\ Pending /\ handle = Cur.wal /\ Cur.wal # NoFile
      BY DEF IInv, Control, HandleInv, IntentInv, Writing, PostUnlink, Clearing, ClearIntent,
         Goto
    <2>2. /\ Latest.st \in State /\ Latest.pred \in File /\ Latest.repl \in File
          /\ Fits(Latest, Cur) /\ Emptied(Latest) /\ Good(Cur) /\ Latest.pred # Latest.repl
      BY <1>t, <2>1, PendingFacts
    <2>3. ~Mixed /\ Latest.st \notin {"Checkpointed", "CleanupArmed"}
      BY <2>1, <2>2 DEF Mixed, EarlyState, Fits, Done
    <2>4. QED
      BY <2>1, <2>2, <2>3
  <1>0. /\ d \in Dir /\ Change(d)
        /\ d.wal = Cur.wal /\ d.intent = NoFile /\ d.guards = Cur.guards /\ d.temps = Cur.temps
    <2>1. Cur.wal \in File \cup {NoFile} /\ Cur.intent \in File \cup {NoFile}
      BY <1>t, DirFields
    <2>2. d \in Dir
      BY <1>t, <1>a DEF Dir
    <2>3. d.wal = Cur.wal /\ d.intent = NoFile /\ d.guards = Cur.guards /\ d.temps = Cur.temps
      BY <1>t DEF Dir
    <2>4. QED
      BY <1>a, <2>2, <2>3 DEF ClearIntent, Goto, hist, bound
  <1> HIDE DEF d
  <1>b. Good(d) /\ Read(d) = Now /\ Now # NoFile
    <2>1. Good(d)
      BY <1>0, <1>a DEF Good, Void, Fits
    <2>2. QED
      BY <1>0, <1>a, <2>1 DEF Read, Now
  <1>1. TypeOK'
    <2>1. DiskType /\ NumType /\ FileType /\ WordType
      BY TypeParts DEF IInv
    <2>2. DiskType'
      BY <1>0, <2>1, Appended DEF IInv, DiskType, ClearIntent, Goto, hist, bound
    <2>3. NumType'
      BY <2>1, WalAssumption DEF NumType, ClearIntent, Goto, hist, bound
    <2>4. FileType'
      BY <1>a, <2>1 DEF FileType, ClearIntent, Goto, hist, bound
    <2>5. WordType'
      BY <1>a, <2>1 DEF WordType, Step, Goal, State, Result, ClearIntent, Goto, hist, bound
    <2>6. QED
      BY <2>2, <2>3, <2>4, <2>5, TypePartsNext
  <1>2. /\ Stored' /\ Same /\ Cur' = d /\ (d.intent = NoFile => ~Pending')
        /\ (d.intent = Cur.intent => Latest' = Latest /\ Pending' = Pending)
        /\ (result' = result /\ before' = before => ResultInv')
    BY <1>a, <1>0, <1>1, <1>b, ChangedFacts DEF ClearIntent, Goto, hist, bound
  <1>3. ResultInv'
    BY <1>2 DEF ClearIntent, Goto, hist, bound
  <1>4. /\ Whole' = Whole /\ Fitting' /\ Ready' /\ want' \in EarlyState \cup {"Cleaned"}
        /\ (Latest.st \in Done => want' = "Cleaned")
    <2>1. Whole' = Whole
      BY DEF Whole, NoTorn, ClearIntent, Goto, hist, bound
    <2>2. want' \in EarlyState \cup {"Cleaned"} /\ (Latest.st \in Done => want' = "Cleaned")
      BY <1>a DEF EarlyState, Done, ClearIntent, Goto, hist, bound
    <2>3. /\ Wanted'.st = want' /\ Wanted'.pred = Latest.pred /\ Wanted'.repl = Latest.repl
      BY <1>a DEF Wanted, ClearIntent, Goto, hist, bound
    <2>4. Latest.st \in EarlyState => want' = Latest.st
      BY DEF EarlyState, ClearIntent, Goto, hist, bound
    <2>5. Fits(Wanted, Cur)'
      <3>1. CASE Latest.st \in EarlyState
        BY <1>0, <1>a, <1>2, <2>3, <2>4, <3>1 DEF Fits, EarlyState, Done
      <3>2. CASE Latest.st = "NamespaceDurable"
        BY <1>0, <1>a, <1>2, <2>2, <2>3, <3>2 DEF Fits, EarlyState, Done
      <3>3. QED
        BY <1>a, <3>1, <3>2
    <2>6. Known(pred)' /\ Known(repl)'
      BY <1>t, <1>a, PendingFacts DEF Known, ClearIntent, Goto, hist, bound
    <2>7. Ready'
      <3>1. wal' = wal
        BY DEF ClearIntent, Goto, hist, bound
      <3>2. CASE Latest.st \in EarlyState
        BY <2>3, <2>4, <3>2 DEF Ready, Emptied, EarlyState, Done
      <3>3. CASE Latest.st = "NamespaceDurable"
        BY <1>a, <2>3, <3>1, <3>3 DEF Ready, Emptied, Done
      <3>4. QED
        BY <1>a, <3>2, <3>3
    <2>8. QED
      BY <2>1, <2>2, <2>5, <2>6, <2>7 DEF Fitting
  <1>5. HandleInv'
    BY <1>a, <1>0, <1>2, <1>4 DEF IInv, Control, HandleInv, PostUnlink, ClearIntent, Goto, hist,
       bound
  <1>6. GoalInv'
    BY <1>a, <1>0, <1>2, <1>4 DEF IInv, Control, GoalInv, Step, Steps, Building, Writing,
       PostUnlink, Resuming, State, ClearIntent, Goto, hist, bound
  <1>7. BeforeInv'
    BY <1>a, <1>0, <1>2, <1>4 DEF IInv, Control, BeforeInv, Writing, PostUnlink, EarlyState,
       ClearIntent, Goto, hist, bound
  <1>8. IntentInv'
    BY <1>a, <1>0, <1>2, <1>4 DEF IInv, Control, IntentInv, Writing, Clearing, EarlyState, Done,
       ClearIntent, Goto, hist, bound
  <1>9. PersistInv'
    BY <1>a, <1>0, <1>2, <1>4 DEF IInv, Control, PersistInv, EarlyState, ClearIntent, Goto,
       hist, bound
  <1>10. BuildInv'
    BY <1>a, <1>0, <1>2, <1>4 DEF IInv, Control, BuildInv, Building, Writing, PostUnlink,
       ClearIntent, Goto, hist, bound
  <1>11. QED
    BY <1>1, <1>2, <1>3, <1>5, <1>6, <1>7, <1>8, <1>9, <1>10 DEF IInv, Control, Same

\* A compaction is undone: the guard goes.
LEMMA RollBackGuardedKeeps ==
    ASSUME IInv, RollBackGuard, Guarded
    PROVE  IInv' /\ Same
  <1> DEFINE d == [Cur EXCEPT !.guards = @ \ {Latest.pred}]
  <1>t. Cur \in Dir /\ TypeOK /\ Stored
    BY DirsFacts DEF IInv
  <1>a. /\ Cur.wal = Latest.pred /\ Latest.st \in {"Prepared", "PublishArmed"}
        /\ pc = "resolving" /\ goal \in Resuming /\ Pending /\ handle = Cur.wal
        /\ Cur.wal # NoFile /\ ~Mixed
        /\ Latest.st \notin {"Checkpointed", "CleanupArmed"}
        /\ Latest.st \in State /\ Latest.pred \in File /\ Latest.repl \in File
        /\ Fits(Latest, Cur) /\ Emptied(Latest) /\ Good(Cur)
    <2>1. /\ Cur.wal = Latest.pred /\ Latest.st \in {"Prepared", "PublishArmed"}
          /\ pc = "resolving" /\ goal \in Resuming /\ Pending /\ handle = Cur.wal
          /\ Cur.wal # NoFile
      BY DEF IInv, Control, HandleInv, GoalInv, IntentInv, Step, Steps, Building, Writing,
         PostUnlink, Clearing, Resuming, RollBackGuard, Resolving, TakeUp, Early, IsPred,
         Guarded
    <2>2. /\ Latest.st \in State /\ Latest.pred \in File /\ Latest.repl \in File
          /\ Fits(Latest, Cur) /\ Emptied(Latest) /\ Good(Cur) /\ Latest.pred # Latest.repl
      BY <1>t, <2>1, PendingFacts
    <2>3. ~Mixed /\ Latest.st \notin {"Checkpointed", "CleanupArmed"}
      BY <2>1, <2>2 DEF Mixed, EarlyState, Fits, Done
    <2>4. QED
      BY <2>1, <2>2, <2>3
  <1>0. /\ d \in Dir /\ Change(d)
        /\ d.wal = Cur.wal /\ d.intent = Cur.intent /\ d.guards = Cur.guards \ {Latest.pred}
        /\ d.temps = Cur.temps
    <2>1. Cur.wal \in File \cup {NoFile} /\ Cur.intent \in File \cup {NoFile}
      BY <1>t, DirFields
    <2>2. d \in Dir
      BY <1>t, <1>a DEF Dir
    <2>3. /\ d.wal = Cur.wal /\ d.intent = Cur.intent /\ d.guards = Cur.guards \ {Latest.pred}
          /\ d.temps = Cur.temps
      BY <1>t DEF Dir
    <2>4. QED
      BY <1>a, <2>2, <2>3 DEF RollBackGuard, Resolving, TakeUp, Early, IsPred, Guarded, hist,
         bound
  <1> HIDE DEF d
  <1>b. Good(d) /\ Read(d) = Now /\ Now # NoFile
    <2>1. Rec(d) = Latest /\ d.intent # NoFile
      BY <1>0, <1>a, LatestIs DEF Rec, Pending
    <2>2. Fits(Latest, d)
      BY <1>0, <1>a DEF Fits, EarlyState, Done
    <2>3. Good(d)
      BY <1>0, <1>a, <2>1, <2>2, LatestIs DEF Good, Void
    <2>4. QED
      BY <1>0, <1>a, <2>3 DEF Read, Now
  <1>1. TypeOK'
    <2>1. DiskType /\ NumType /\ FileType /\ WordType
      BY TypeParts DEF IInv
    <2>2. DiskType'
      BY <1>0, <2>1, Appended DEF IInv, DiskType, RollBackGuard, Resolving, TakeUp, Early,
         IsPred, Guarded, hist, bound
    <2>3. NumType'
      BY <2>1, WalAssumption DEF NumType, RollBackGuard, Resolving, TakeUp, Early, IsPred,
         Guarded, hist, bound
    <2>4. FileType'
      BY <1>a, <2>1 DEF FileType, RollBackGuard, Resolving, TakeUp, Early, IsPred, Guarded,
         hist, bound
    <2>5. WordType'
      BY <1>a, <2>1 DEF WordType, Step, Goal, State, Result, RollBackGuard, Resolving, TakeUp,
         Early, IsPred, Guarded, hist, bound
    <2>6. QED
      BY <2>2, <2>3, <2>4, <2>5, TypePartsNext
  <1>2. /\ Stored' /\ Same /\ Cur' = d /\ (d.intent = NoFile => ~Pending')
        /\ (d.intent = Cur.intent => Latest' = Latest /\ Pending' = Pending)
        /\ (result' = result /\ before' = before => ResultInv')
    BY <1>a, <1>0, <1>1, <1>b, ChangedFacts DEF RollBackGuard, Resolving, TakeUp, Early, IsPred,
       Guarded, hist, bound
  <1>3. ResultInv'
    BY <1>2 DEF RollBackGuard, Resolving, TakeUp, Early, IsPred, Guarded, hist, bound
  <1>4. Whole' = Whole /\ d.guards = {}
    <2>1. Whole' = Whole
      BY DEF Whole, NoTorn, RollBackGuard, Resolving, TakeUp, Early, IsPred, Guarded, hist,
         bound
    <2>2. d.guards = {}
      BY <1>0, <1>a DEF Fits
    <2>3. QED
      BY <2>1, <2>2
  <1>5. HandleInv'
    BY <1>a, <1>0, <1>2, <1>4 DEF IInv, Control, HandleInv, PostUnlink, RollBackGuard,
       Resolving, TakeUp, Early, IsPred, Guarded, hist, bound
  <1>6. GoalInv'
    BY <1>a, <1>0, <1>2, <1>4 DEF IInv, Control, GoalInv, Step, Steps, Building, Writing,
       PostUnlink, Resuming, RollBackGuard, Resolving, TakeUp, Early, IsPred, Guarded, hist,
       bound
  <1>7. BeforeInv'
    BY <1>a, <1>0, <1>2, <1>4 DEF IInv, Control, BeforeInv, Writing, PostUnlink, EarlyState,
       RollBackGuard, Resolving, TakeUp, Early, IsPred, Guarded, hist, bound
  <1>8. IntentInv'
    BY <1>a, <1>0, <1>2, <1>4 DEF IInv, Control, IntentInv, Writing, Clearing, EarlyState, Done,
       RollBackGuard, Resolving, TakeUp, Early, IsPred, Guarded, hist, bound
  <1>9. PersistInv'
    BY <1>a, <1>0, <1>2, <1>4 DEF IInv, Control, PersistInv, EarlyState, RollBackGuard,
       Resolving, TakeUp, Early, IsPred, Guarded, hist, bound
  <1>10. BuildInv'
    BY <1>a, <1>0, <1>2, <1>4 DEF IInv, Control, BuildInv, Building, Writing, PostUnlink,
       RollBackGuard, Resolving, TakeUp, Early, IsPred, Guarded, hist, bound
  <1>11. QED
    BY <1>1, <1>2, <1>3, <1>5, <1>6, <1>7, <1>8, <1>9, <1>10 DEF IInv, Control, Same

\* The retained file is deleted.
LEMMA DeleteRetainedKeeps ==
    ASSUME IInv, DeleteRetained
    PROVE  IInv' /\ Same
  <1> DEFINE d == [Cur EXCEPT !.temps = @ \ {repl}]
  <1>t. Cur \in Dir /\ TypeOK /\ Stored
    BY DirsFacts DEF IInv
  <1>a. /\ pc \in Clearing /\ Latest.pred = pred /\ Latest.repl = repl /\ Cur.guards = {}
        /\ ((Latest.st \in EarlyState /\ Cur.wal = pred) \/ Latest.st = "NamespaceDurable")
        /\ Pending /\ handle = Cur.wal /\ Cur.wal # NoFile /\ ~Mixed
        /\ Latest.st \notin {"Checkpointed", "CleanupArmed"}
        /\ Latest.st \in State /\ Latest.pred \in File /\ Latest.repl \in File
        /\ Fits(Latest, Cur) /\ Emptied(Latest) /\ Good(Cur)
    <2>1. pc \in Clearing /\ Latest.pred = pred /\ Latest.repl = repl /\ Cur.guards = {}
        /\ ((Latest.st \in EarlyState /\ Cur.wal = pred) \/ Latest.st = "NamespaceDurable")
        /\ Pending /\ handle = Cur.wal /\ Cur.wal # NoFile
      BY DEF IInv, Control, HandleInv, IntentInv, Writing, PostUnlink, Clearing, DeleteRetained,
         Goto
    <2>2. /\ Latest.st \in State /\ Latest.pred \in File /\ Latest.repl \in File
          /\ Fits(Latest, Cur) /\ Emptied(Latest) /\ Good(Cur) /\ Latest.pred # Latest.repl
      BY <1>t, <2>1, PendingFacts
    <2>3. ~Mixed /\ Latest.st \notin {"Checkpointed", "CleanupArmed"}
      BY <2>1, <2>2 DEF Mixed, EarlyState, Fits, Done
    <2>4. QED
      BY <2>1, <2>2, <2>3
  <1>0. /\ d \in Dir /\ Change(d)
        /\ d.wal = Cur.wal /\ d.intent = Cur.intent /\ d.guards = Cur.guards
        /\ d.temps = Cur.temps \ {repl}
    <2>1. Cur.wal \in File \cup {NoFile} /\ Cur.intent \in File \cup {NoFile}
      BY <1>t, DirFields
    <2>2. d \in Dir
      BY <1>t, <1>a DEF Dir
    <2>3. /\ d.wal = Cur.wal /\ d.intent = Cur.intent /\ d.guards = Cur.guards
          /\ d.temps = Cur.temps \ {repl}
      BY <1>t DEF Dir
    <2>4. QED
      BY <1>a, <2>2, <2>3 DEF DeleteRetained, Goto, proc, hist, bound
  <1> HIDE DEF d
  <1>b. Good(d) /\ Read(d) = Now /\ Now # NoFile
    <2>1. Rec(d) = Latest /\ d.intent # NoFile
      BY <1>0, <1>a, LatestIs DEF Rec, Pending
    <2>2. Fits(Latest, d)
      BY <1>0, <1>a DEF Fits, EarlyState, Done
    <2>3. Good(d)
      BY <1>0, <1>a, <2>1, <2>2, LatestIs DEF Good, Void
    <2>4. QED
      BY <1>0, <1>a, <2>3 DEF Read, Now
  <1>1. TypeOK'
    <2>1. DiskType /\ NumType /\ FileType /\ WordType
      BY TypeParts DEF IInv
    <2>2. DiskType'
      BY <1>0, <2>1, Appended DEF IInv, DiskType, DeleteRetained, Goto, proc, hist, bound
    <2>3. NumType'
      BY <2>1, WalAssumption DEF NumType, DeleteRetained, Goto, proc, hist, bound
    <2>4. FileType'
      BY <1>a, <2>1 DEF FileType, DeleteRetained, Goto, proc, hist, bound
    <2>5. WordType'
      BY <1>a, <2>1 DEF WordType, Step, Goal, State, Result, DeleteRetained, Goto, proc, hist,
         bound
    <2>6. QED
      BY <2>2, <2>3, <2>4, <2>5, TypePartsNext
  <1>2. /\ Stored' /\ Same /\ Cur' = d /\ (d.intent = NoFile => ~Pending')
        /\ (d.intent = Cur.intent => Latest' = Latest /\ Pending' = Pending)
        /\ (result' = result /\ before' = before => ResultInv')
    BY <1>a, <1>0, <1>1, <1>b, ChangedFacts DEF DeleteRetained, Goto, proc, hist, bound
  <1>3. ResultInv'
    BY <1>2 DEF DeleteRetained, Goto, proc, hist, bound
  <1>4. /\ Whole' = Whole /\ Synced' = Synced /\ Exact' = Exact /\ Existing' = Existing
    BY SameProc DEF DeleteRetained, Goto, proc, hist, bound
  <1>5. HandleInv'
    BY <1>a, <1>0, <1>2, <1>4 DEF IInv, Control, HandleInv, PostUnlink, DeleteRetained, Goto,
       proc, hist, bound
  <1>6. GoalInv'
    BY <1>a, <1>0, <1>2, <1>4 DEF IInv, Control, GoalInv, Step, Steps, Building, Writing,
       PostUnlink, Resuming, DeleteRetained, Goto, proc, hist, bound
  <1>7. BeforeInv'
    BY <1>a, <1>0, <1>2, <1>4 DEF IInv, Control, BeforeInv, Writing, PostUnlink, EarlyState,
       DeleteRetained, Goto, proc, hist, bound
  <1>8. IntentInv'
    BY <1>a, <1>0, <1>2, <1>4 DEF IInv, Control, IntentInv, Writing, Clearing, EarlyState, Done,
       DeleteRetained, Goto, proc, hist, bound
  <1>9. PersistInv'
    BY <1>a, <1>0, <1>2, <1>4 DEF IInv, Control, PersistInv, EarlyState, DeleteRetained, Goto,
       proc, hist, bound
  <1>10. BuildInv'
    BY <1>a, <1>0, <1>2, <1>4 DEF IInv, Control, BuildInv, Building, Writing, PostUnlink,
       DeleteRetained, Goto, proc, hist, bound
  <1>11. QED
    BY <1>1, <1>2, <1>3, <1>5, <1>6, <1>7, <1>8, <1>9, <1>10 DEF IInv, Control, Same

\* The predecessor of the last compaction is deleted.
LEMMA DeleteTombstoneKeeps ==
    ASSUME IInv, DeleteTombstone
    PROVE  IInv' /\ Same
  <1> DEFINE d == [Cur EXCEPT !.guards = @ \ {Latest.pred}]
  <1>t. Cur \in Dir /\ TypeOK /\ Stored
    BY DirsFacts DEF IInv
  <1>a. /\ Latest.st = "NamespaceDurable" /\ Pending /\ handle = Cur.wal /\ Cur.wal # NoFile
        /\ ~Mixed
        /\ Latest.st \notin {"Checkpointed", "CleanupArmed"}
        /\ Latest.st \in State /\ Latest.pred \in File /\ Latest.repl \in File
        /\ Fits(Latest, Cur) /\ Emptied(Latest) /\ Good(Cur)
    <2>1. Latest.st = "NamespaceDurable" /\ Pending /\ handle = Cur.wal /\ Cur.wal # NoFile
      BY DEF IInv, Control, HandleInv, IntentInv, Writing, PostUnlink, Clearing,
         DeleteTombstone, Goto
    <2>2. /\ Latest.st \in State /\ Latest.pred \in File /\ Latest.repl \in File
          /\ Fits(Latest, Cur) /\ Emptied(Latest) /\ Good(Cur) /\ Latest.pred # Latest.repl
      BY <1>t, <2>1, PendingFacts
    <2>3. ~Mixed /\ Latest.st \notin {"Checkpointed", "CleanupArmed"}
      BY <2>1, <2>2 DEF Mixed, EarlyState, Fits, Done
    <2>4. QED
      BY <2>1, <2>2, <2>3
  <1>0. /\ d \in Dir /\ Change(d)
        /\ d.wal = Cur.wal /\ d.intent = Cur.intent /\ d.guards = Cur.guards \ {Latest.pred}
        /\ d.temps = Cur.temps
    <2>1. Cur.wal \in File \cup {NoFile} /\ Cur.intent \in File \cup {NoFile}
      BY <1>t, DirFields
    <2>2. d \in Dir
      BY <1>t, <1>a DEF Dir
    <2>3. /\ d.wal = Cur.wal /\ d.intent = Cur.intent /\ d.guards = Cur.guards \ {Latest.pred}
          /\ d.temps = Cur.temps
      BY <1>t DEF Dir
    <2>4. QED
      BY <1>a, <2>2, <2>3 DEF DeleteTombstone, Goto, hist, bound
  <1> HIDE DEF d
  <1>b. Good(d) /\ Read(d) = Now /\ Now # NoFile
    <2>1. Rec(d) = Latest /\ d.intent # NoFile
      BY <1>0, <1>a, LatestIs DEF Rec, Pending
    <2>2. Fits(Latest, d)
      BY <1>0, <1>a DEF Fits, EarlyState, Done
    <2>3. Good(d)
      BY <1>0, <1>a, <2>1, <2>2, LatestIs DEF Good, Void
    <2>4. QED
      BY <1>0, <1>a, <2>3 DEF Read, Now
  <1>1. TypeOK'
    <2>1. DiskType /\ NumType /\ FileType /\ WordType
      BY TypeParts DEF IInv
    <2>2. DiskType'
      BY <1>0, <2>1, Appended DEF IInv, DiskType, DeleteTombstone, Goto, hist, bound
    <2>3. NumType'
      BY <2>1, WalAssumption DEF NumType, DeleteTombstone, Goto, hist, bound
    <2>4. FileType'
      BY <1>a, <2>1 DEF FileType, DeleteTombstone, Goto, hist, bound
    <2>5. WordType'
      BY <1>a, <2>1 DEF WordType, Step, Goal, State, Result, DeleteTombstone, Goto, hist, bound
    <2>6. QED
      BY <2>2, <2>3, <2>4, <2>5, TypePartsNext
  <1>2. /\ Stored' /\ Same /\ Cur' = d /\ (d.intent = NoFile => ~Pending')
        /\ (d.intent = Cur.intent => Latest' = Latest /\ Pending' = Pending)
        /\ (result' = result /\ before' = before => ResultInv')
    BY <1>a, <1>0, <1>1, <1>b, ChangedFacts DEF DeleteTombstone, Goto, hist, bound
  <1>3. ResultInv'
    BY <1>2 DEF DeleteTombstone, Goto, hist, bound
  <1>4. Whole' = Whole /\ d.guards = {}
    <2>1. Whole' = Whole
      BY DEF Whole, NoTorn, DeleteTombstone, Goto, hist, bound
    <2>2. d.guards = {}
      BY <1>0, <1>a DEF Fits
    <2>3. QED
      BY <2>1, <2>2
  <1>5. HandleInv'
    BY <1>a, <1>0, <1>2, <1>4 DEF IInv, Control, HandleInv, PostUnlink, DeleteTombstone, Goto,
       hist, bound
  <1>6. GoalInv'
    BY <1>a, <1>0, <1>2, <1>4 DEF IInv, Control, GoalInv, Step, Steps, Building, Writing,
       PostUnlink, Resuming, DeleteTombstone, Goto, hist, bound
  <1>7. BeforeInv'
    BY <1>a, <1>0, <1>2, <1>4 DEF IInv, Control, BeforeInv, Writing, PostUnlink, EarlyState,
       DeleteTombstone, Goto, hist, bound
  <1>8. IntentInv'
    BY <1>a, <1>0, <1>2, <1>4 DEF IInv, Control, IntentInv, Writing, Clearing, EarlyState, Done,
       DeleteTombstone, Goto, hist, bound
  <1>9. PersistInv'
    BY <1>a, <1>0, <1>2, <1>4 DEF IInv, Control, PersistInv, EarlyState, DeleteTombstone, Goto,
       hist, bound
  <1>10. BuildInv'
    BY <1>a, <1>0, <1>2, <1>4 DEF IInv, Control, BuildInv, Building, Writing, PostUnlink,
       DeleteTombstone, Goto, hist, bound
  <1>11. QED
    BY <1>1, <1>2, <1>3, <1>5, <1>6, <1>7, <1>8, <1>9, <1>10 DEF IInv, Control, Same

\* The guard is linked.
LEMMA CreateHardLinkKeeps ==
    ASSUME IInv, CreateHardLink
    PROVE  IInv' /\ Same
  <1> DEFINE d == [Cur EXCEPT !.guards = @ \cup {pred}]
  <1>t. Cur \in Dir /\ TypeOK /\ Stored
    BY DirsFacts DEF IInv
  <1>a. /\ Latest.pred = pred /\ Latest.repl = repl /\ Latest.st = "Prepared" /\ Pending
        /\ handle = Cur.wal /\ Cur.wal # NoFile /\ ~Mixed
        /\ Latest.st \notin {"Checkpointed", "CleanupArmed"}
        /\ Latest.st \in State /\ Latest.pred \in File /\ Latest.repl \in File
        /\ Fits(Latest, Cur) /\ Emptied(Latest) /\ Good(Cur)
    <2>1. /\ Latest.pred = pred /\ Latest.repl = repl /\ Latest.st = "Prepared" /\ Pending
          /\ handle = Cur.wal /\ Cur.wal # NoFile
      BY DEF IInv, Control, HandleInv, BuildInv, Building, Writing, PostUnlink, CreateHardLink,
         Goto
    <2>2. /\ Latest.st \in State /\ Latest.pred \in File /\ Latest.repl \in File
          /\ Fits(Latest, Cur) /\ Emptied(Latest) /\ Good(Cur) /\ Latest.pred # Latest.repl
      BY <1>t, <2>1, PendingFacts
    <2>3. ~Mixed /\ Latest.st \notin {"Checkpointed", "CleanupArmed"}
      BY <2>1, <2>2 DEF Mixed, EarlyState, Fits, Done
    <2>4. QED
      BY <2>1, <2>2, <2>3
  <1>0. /\ d \in Dir /\ Change(d)
        /\ d.wal = Cur.wal /\ d.intent = Cur.intent /\ d.guards = Cur.guards \cup {pred}
        /\ d.temps = Cur.temps
    <2>1. Cur.wal \in File \cup {NoFile} /\ Cur.intent \in File \cup {NoFile}
      BY <1>t, DirFields
    <2>2. d \in Dir
      BY <1>t, <1>a DEF Dir
    <2>3. /\ d.wal = Cur.wal /\ d.intent = Cur.intent /\ d.guards = Cur.guards \cup {pred}
          /\ d.temps = Cur.temps
      BY <1>t DEF Dir
    <2>4. QED
      BY <1>a, <2>2, <2>3 DEF CreateHardLink, Goto, proc, hist, bound
  <1> HIDE DEF d
  <1>b. Good(d) /\ Read(d) = Now /\ Now # NoFile
    <2>1. Rec(d) = Latest /\ d.intent # NoFile
      BY <1>0, <1>a, LatestIs DEF Rec, Pending
    <2>2. Fits(Latest, d)
      BY <1>0, <1>a DEF Fits, EarlyState, Done
    <2>3. Good(d)
      BY <1>0, <1>a, <2>1, <2>2, LatestIs DEF Good, Void
    <2>4. QED
      BY <1>0, <1>a, <2>3 DEF Read, Now
  <1>1. TypeOK'
    <2>1. DiskType /\ NumType /\ FileType /\ WordType
      BY TypeParts DEF IInv
    <2>2. DiskType'
      BY <1>0, <2>1, Appended DEF IInv, DiskType, CreateHardLink, Goto, proc, hist, bound
    <2>3. NumType'
      BY <2>1, WalAssumption DEF NumType, CreateHardLink, Goto, proc, hist, bound
    <2>4. FileType'
      BY <1>a, <2>1 DEF FileType, CreateHardLink, Goto, proc, hist, bound
    <2>5. WordType'
      BY <1>a, <2>1 DEF WordType, Step, Goal, State, Result, CreateHardLink, Goto, proc, hist,
         bound
    <2>6. QED
      BY <2>2, <2>3, <2>4, <2>5, TypePartsNext
  <1>2. /\ Stored' /\ Same /\ Cur' = d /\ (d.intent = NoFile => ~Pending')
        /\ (d.intent = Cur.intent => Latest' = Latest /\ Pending' = Pending)
        /\ (result' = result /\ before' = before => ResultInv')
    BY <1>a, <1>0, <1>1, <1>b, ChangedFacts DEF CreateHardLink, Goto, proc, hist, bound
  <1>3. ResultInv'
    BY <1>2 DEF CreateHardLink, Goto, proc, hist, bound
  <1>4. /\ Whole' = Whole /\ Synced' = Synced /\ Exact' = Exact /\ Existing' = Existing
    BY SameProc DEF CreateHardLink, Goto, proc, hist, bound
  <1>5. HandleInv'
    BY <1>a, <1>0, <1>2, <1>4 DEF IInv, Control, HandleInv, PostUnlink, CreateHardLink, Goto,
       proc, hist, bound
  <1>6. GoalInv'
    BY <1>a, <1>0, <1>2, <1>4 DEF IInv, Control, GoalInv, Step, Steps, Building, Writing,
       PostUnlink, Resuming, CreateHardLink, Goto, proc, hist, bound
  <1>7. BeforeInv'
    BY <1>a, <1>0, <1>2, <1>4 DEF IInv, Control, BeforeInv, Writing, PostUnlink, EarlyState,
       CreateHardLink, Goto, proc, hist, bound
  <1>8. IntentInv'
    BY <1>a, <1>0, <1>2, <1>4 DEF IInv, Control, IntentInv, Writing, Clearing, EarlyState, Done,
       CreateHardLink, Goto, proc, hist, bound
  <1>9. PersistInv'
    BY <1>a, <1>0, <1>2, <1>4 DEF IInv, Control, PersistInv, EarlyState, CreateHardLink, Goto,
       proc, hist, bound
  <1>10. BuildInv'
    BY <1>a, <1>0, <1>2, <1>4 DEF IInv, Control, BuildInv, Building, Writing, PostUnlink,
       CreateHardLink, Goto, proc, hist, bound
  <1>11. QED
    BY <1>1, <1>2, <1>3, <1>5, <1>6, <1>7, <1>8, <1>9, <1>10 DEF IInv, Control, Same

\* The log loses its name: it keeps that of the guard.
LEMMA UnlinkCanonicalKeeps ==
    ASSUME IInv, UnlinkCanonical
    PROVE  IInv' /\ Same
  <1> DEFINE d == [Cur EXCEPT !.wal = NoFile]
  <1>t. Cur \in Dir /\ TypeOK /\ Stored
    BY DirsFacts DEF IInv
  <1>a. /\ Latest.pred = pred /\ Latest.repl = repl /\ Cur.wal = pred /\ pred \in Cur.guards
        /\ Latest.st = "PublishArmed" /\ Pending /\ handle = Cur.wal /\ Cur.wal # NoFile
        /\ ~Mixed
        /\ Latest.st \notin {"Checkpointed", "CleanupArmed"}
        /\ Latest.st \in State /\ Latest.pred \in File /\ Latest.repl \in File
        /\ Fits(Latest, Cur) /\ Emptied(Latest) /\ Good(Cur)
    <2>1. /\ Latest.pred = pred /\ Latest.repl = repl /\ Cur.wal = pred /\ pred \in Cur.guards
          /\ Latest.st = "PublishArmed" /\ Pending /\ handle = Cur.wal /\ Cur.wal # NoFile
      BY DEF IInv, Control, HandleInv, GoalInv, BeforeInv, IntentInv, PersistInv, BuildInv,
         Step, Steps, Building, Writing, PostUnlink, Clearing, Resuming, UnlinkCanonical, Goto
    <2>2. /\ Latest.st \in State /\ Latest.pred \in File /\ Latest.repl \in File
          /\ Fits(Latest, Cur) /\ Emptied(Latest) /\ Good(Cur) /\ Latest.pred # Latest.repl
      BY <1>t, <2>1, PendingFacts
    <2>3. ~Mixed /\ Latest.st \notin {"Checkpointed", "CleanupArmed"}
      BY <2>1, <2>2 DEF Mixed, EarlyState, Fits, Done
    <2>4. QED
      BY <2>1, <2>2, <2>3
  <1>0. /\ d \in Dir /\ Change(d)
        /\ d.wal = NoFile /\ d.intent = Cur.intent /\ d.guards = Cur.guards /\ d.temps = Cur.temps
    <2>1. Cur.wal \in File \cup {NoFile} /\ Cur.intent \in File \cup {NoFile}
      BY <1>t, DirFields
    <2>2. d \in Dir
      BY <1>t, <1>a DEF Dir
    <2>3. d.wal = NoFile /\ d.intent = Cur.intent /\ d.guards = Cur.guards /\ d.temps = Cur.temps
      BY <1>t DEF Dir
    <2>4. QED
      BY <1>a, <2>2, <2>3 DEF UnlinkCanonical, Goto, hist, bound
  <1> HIDE DEF d
  <1>b. Good(d) /\ Read(d) = Now /\ Now # NoFile
    <2>1. Rec(d) = Latest /\ d.intent # NoFile
      BY <1>0, <1>a, LatestIs DEF Rec, Pending
    <2>5. NoFile \notin Cur.temps
      BY <1>t, DirFields, Ranges
    <2>2. Fits(Latest, d)
      BY <1>0, <1>a, <2>5 DEF Fits, EarlyState, Done
    <2>3. Good(d)
      BY <1>0, <1>a, <2>1, <2>2, LatestIs DEF Good, Void
    <2>4. QED
      BY <1>0, <1>a, <2>1, <2>3 DEF Read, Now
  <1>1. TypeOK'
    <2>1. DiskType /\ NumType /\ FileType /\ WordType
      BY TypeParts DEF IInv
    <2>2. DiskType'
      BY <1>0, <2>1, Appended DEF IInv, DiskType, UnlinkCanonical, Goto, hist, bound
    <2>3. NumType'
      BY <2>1, WalAssumption DEF NumType, UnlinkCanonical, Goto, hist, bound
    <2>4. FileType'
      BY <1>a, <2>1 DEF FileType, UnlinkCanonical, Goto, hist, bound
    <2>5. WordType'
      BY <1>a, <2>1 DEF WordType, Step, Goal, State, Result, UnlinkCanonical, Goto, hist, bound
    <2>6. QED
      BY <2>2, <2>3, <2>4, <2>5, TypePartsNext
  <1>2. /\ Stored' /\ Same /\ Cur' = d /\ (d.intent = NoFile => ~Pending')
        /\ (d.intent = Cur.intent => Latest' = Latest /\ Pending' = Pending)
        /\ (result' = result /\ before' = before => ResultInv')
    BY <1>a, <1>0, <1>1, <1>b, ChangedFacts DEF UnlinkCanonical, Goto, hist, bound
  <1>3. ResultInv'
    BY <1>2 DEF UnlinkCanonical, Goto, hist, bound
  <1>4. Synced' = Synced /\ Exact' = Exact /\ Existing' = Existing
    BY DEF Synced, Exact, Existing, Known, NoTorn, Items, Kepts, UnlinkCanonical, Goto, hist,
       bound
  <1>5. HandleInv'
    BY <1>a, <1>0, <1>2, <1>4 DEF IInv, Control, HandleInv, PostUnlink, UnlinkCanonical, Goto,
       hist, bound
  <1>6. GoalInv'
    BY <1>a, <1>0, <1>2, <1>4 DEF IInv, Control, GoalInv, Step, Steps, Building, Writing,
       PostUnlink, Resuming, UnlinkCanonical, Goto, hist, bound
  <1>7. BeforeInv'
    BY <1>a, <1>0, <1>2, <1>4 DEF IInv, Control, BeforeInv, GoalInv, Step, Steps, Building,
       Writing, PostUnlink, Resuming, EarlyState, UnlinkCanonical, Goto, hist, bound
  <1>8. IntentInv'
    BY <1>a, <1>0, <1>2, <1>4 DEF IInv, Control, IntentInv, Writing, Clearing, EarlyState, Done,
       UnlinkCanonical, Goto, hist, bound
  <1>9. PersistInv'
    BY <1>a, <1>0, <1>2, <1>4 DEF IInv, Control, PersistInv, EarlyState, UnlinkCanonical, Goto,
       hist, bound
  <1>10. BuildInv'
    BY <1>a, <1>0, <1>2, <1>4 DEF IInv, Control, BuildInv, Building, Writing, PostUnlink,
       UnlinkCanonical, Goto, hist, bound
  <1>11. QED
    BY <1>1, <1>2, <1>3, <1>5, <1>6, <1>7, <1>8, <1>9, <1>10 DEF IInv, Control, Same

\* The temporary file of a compaction that was given up is deleted.
LEMMA AbandonKeeps ==
    ASSUME IInv, Abandon
    PROVE  IInv' /\ Same
  <1> DEFINE d == [Cur EXCEPT !.temps = @ \ {repl}]
  <1>t. Cur \in Dir /\ TypeOK /\ Stored
    BY DirsFacts DEF IInv
  <1>a. /\ handle = Cur.wal /\ Cur.wal # NoFile /\ ~Mixed /\ Good(Cur)
        /\ (Pending => Latest.st \in EarlyState /\ Cur.wal = Latest.pred)
    <2>1. /\ handle = Cur.wal /\ Cur.wal # NoFile
          /\ (Pending => Latest.st \in EarlyState /\ Cur.wal = Latest.pred)
      BY DEF IInv, Control, HandleInv, IntentInv, PostUnlink, Abandon, Goto
    <2>2. Good(Cur)
      BY <1>t, PendingFacts, IdleFacts
    <2>3. Pending => Latest.pred # Latest.repl
      BY <2>2, LatestIs DEF Good, Fits, Pending
    <2>4. QED
      BY <2>1, <2>2, <2>3 DEF Mixed
  <1>0. /\ d \in Dir /\ Change(d)
        /\ d.wal = Cur.wal /\ d.intent = Cur.intent /\ d.guards = Cur.guards
        /\ d.temps = Cur.temps \ {repl}
    <2>1. Cur.wal \in File \cup {NoFile} /\ Cur.intent \in File \cup {NoFile}
      BY <1>t, DirFields
    <2>2. d \in Dir
      BY <1>t, <1>a DEF Dir
    <2>3. /\ d.wal = Cur.wal /\ d.intent = Cur.intent /\ d.guards = Cur.guards
          /\ d.temps = Cur.temps \ {repl}
      BY <1>t DEF Dir
    <2>4. QED
      BY <1>a, <2>2, <2>3 DEF Abandon, Goto, proc, hist, bound
  <1> HIDE DEF d
  <1>b. Good(d) /\ Read(d) = Now /\ Now # NoFile
    <2>1. Rec(d) = Rec(Cur)
      BY <1>0 DEF Rec
    <2>2. Good(d)
      BY <1>0, <1>a, <2>1 DEF Good, Void, Fits
    <2>3. QED
      BY <1>0, <1>a, <2>2 DEF Read, Now
  <1>1. TypeOK'
    <2>1. DiskType /\ NumType /\ FileType /\ WordType
      BY TypeParts DEF IInv
    <2>2. DiskType'
      BY <1>0, <2>1, Appended DEF IInv, DiskType, Abandon, Goto, proc, hist, bound
    <2>3. NumType'
      BY <2>1, WalAssumption DEF NumType, Abandon, Goto, proc, hist, bound
    <2>4. FileType'
      BY <1>a, <2>1 DEF FileType, Abandon, Goto, proc, hist, bound
    <2>5. WordType'
      BY <1>a, <2>1 DEF WordType, Step, Goal, State, Result, Abandon, Goto, proc, hist, bound
    <2>6. QED
      BY <2>2, <2>3, <2>4, <2>5, TypePartsNext
  <1>2. /\ Stored' /\ Same /\ Cur' = d /\ (d.intent = NoFile => ~Pending')
        /\ (d.intent = Cur.intent => Latest' = Latest /\ Pending' = Pending)
        /\ (result' = result /\ before' = before => ResultInv')
    BY <1>a, <1>0, <1>1, <1>b, ChangedFacts DEF EarlyState, Abandon, Goto, proc, hist, bound
  <1>3. ResultInv'
    BY <1>2 DEF Abandon, Goto, proc, hist, bound
  <1>4. /\ Whole' = Whole /\ Synced' = Synced /\ Exact' = Exact /\ Existing' = Existing
    BY SameProc DEF Abandon, Goto, proc, hist, bound
  <1>5. HandleInv'
    BY <1>a, <1>0, <1>2, <1>4 DEF IInv, Control, HandleInv, PostUnlink, Abandon, Goto, proc,
       hist, bound
  <1>6. GoalInv'
    BY <1>a, <1>0, <1>2, <1>4 DEF IInv, Control, GoalInv, Step, Steps, Building, Writing,
       PostUnlink, Resuming, Abandon, Goto, proc, hist, bound
  <1>7. BeforeInv'
    BY <1>a, <1>0, <1>2, <1>4 DEF IInv, Control, BeforeInv, Writing, PostUnlink, EarlyState,
       Abandon, Goto, proc, hist, bound
  <1>8. IntentInv'
    BY <1>a, <1>0, <1>2, <1>4 DEF IInv, Control, IntentInv, Writing, Clearing, EarlyState, Done,
       Abandon, Goto, proc, hist, bound
  <1>9. PersistInv'
    BY <1>a, <1>0, <1>2, <1>4 DEF IInv, Control, PersistInv, EarlyState, Abandon, Goto, proc,
       hist, bound
  <1>10. BuildInv'
    BY <1>a, <1>0, <1>2, <1>4 DEF IInv, Control, BuildInv, Building, Writing, PostUnlink,
       Abandon, Goto, proc, hist, bound
  <1>11. QED
    BY <1>1, <1>2, <1>3, <1>5, <1>6, <1>7, <1>8, <1>9, <1>10 DEF IInv, Control, Same

\* A compaction is undone before there was a guard.
LEMMA RollBackUnguardedKeeps ==
    ASSUME IInv, RollBackGuard, ~Guarded
    PROVE  IInv' /\ Same
  <1>0. /\ Pending /\ Latest.pred \in File /\ Latest.repl \in File /\ Cur.guards = {}
        /\ handle = Cur.wal /\ Cur.wal = Latest.pred /\ Latest.st \in EarlyState
    <2>1. Pending /\ handle = Cur.wal
      BY DEF IInv, Control, IntentInv, HandleInv, PostUnlink, RollBackGuard, Resolving
    <2>2. QED
      BY <2>1, PendingFacts DEF IInv, Fits, EarlyState, RollBackGuard, Resolving, TakeUp, Early,
         IsPred, Guarded
  <1>1. TypeOK'
    <2>1. DiskType /\ NumType /\ FileType /\ WordType
      BY TypeParts DEF IInv
    <2>2. DiskType'
      BY <2>1 DEF DiskType, RollBackGuard, Resolving, TakeUp, Early, IsPred, Guarded, hist,
         bound
    <2>3. NumType'
      BY <2>1, WalAssumption DEF NumType, RollBackGuard, Resolving, TakeUp, Early, IsPred,
         Guarded, hist, bound
    <2>4. FileType'
      BY <1>0, <2>1 DEF FileType, RollBackGuard, Resolving, TakeUp, Early, IsPred, Guarded,
         hist, bound
    <2>5. WordType'
      BY <2>1 DEF WordType, Step, Goal, State, Result, RollBackGuard, Resolving, TakeUp, Early,
         IsPred, Guarded, hist, bound
    <2>6. QED
      BY <2>2, <2>3, <2>4, <2>5, TypePartsNext
  <1>2. /\ Stored' /\ Same /\ Cur' = Cur /\ Pending' = Pending /\ Latest' = Latest
        /\ Alone' = Alone /\ (result' = result /\ before' = before => ResultInv')
    <2>1. floor' \in Nat /\ floor' >= floor
      BY Ranges DEF IInv, RollBackGuard, Resolving, TakeUp, Early, IsPred, Guarded, hist, bound
    <2>2. QED
      BY <1>1, <2>1, SameDiskFacts DEF Same, RollBackGuard, Resolving, TakeUp, Early, IsPred,
         Guarded, disk, proc, hist, bound
  <1>3. ResultInv'
    BY <1>2 DEF RollBackGuard, Resolving, TakeUp, Early, IsPred, Guarded, hist, bound
  <1>4. Whole' = Whole
    BY DEF Whole, NoTorn, RollBackGuard, Resolving, TakeUp, Early, IsPred, Guarded, hist, bound
  <1>5. HandleInv'
    BY <1>0, <1>2, <1>4 DEF IInv, Control, HandleInv, PostUnlink, RollBackGuard, Resolving,
       TakeUp, Early, IsPred, Guarded, hist, bound
  <1>6. GoalInv'
    BY <1>0, <1>2, <1>4 DEF IInv, Control, GoalInv, Step, Steps, Building, Writing, PostUnlink,
       Resuming, RollBackGuard, Resolving, TakeUp, Early, IsPred, Guarded, hist, bound
  <1>7. BeforeInv'
    BY <1>0, <1>2, <1>4 DEF IInv, Control, BeforeInv, Writing, PostUnlink, EarlyState,
       RollBackGuard, Resolving, TakeUp, Early, IsPred, Guarded, hist, bound
  <1>8. IntentInv'
    BY <1>0, <1>2, <1>4 DEF IInv, Control, IntentInv, Writing, Clearing, EarlyState, Done,
       RollBackGuard, Resolving, TakeUp, Early, IsPred, Guarded, hist, bound
  <1>9. PersistInv'
    BY <1>0, <1>2, <1>4 DEF IInv, Control, PersistInv, EarlyState, RollBackGuard, Resolving,
       TakeUp, Early, IsPred, Guarded, hist, bound
  <1>10. BuildInv'
    BY <1>0, <1>2, <1>4 DEF IInv, Control, BuildInv, Building, Writing, PostUnlink,
       RollBackGuard, Resolving, TakeUp, Early, IsPred, Guarded, hist, bound
  <1>11. QED
    BY <1>1, <1>2, <1>3, <1>5, <1>6, <1>7, <1>8, <1>9, <1>10 DEF IInv, Control, Same

\* A compaction is undone.
LEMMA RollBackGuardKeeps ==
    ASSUME IInv, RollBackGuard
    PROVE  IInv' /\ Same
  BY RollBackGuardedKeeps, RollBackUnguardedKeeps

\* The intent is written to a temporary file.
LEMMA PersistTempKeeps ==
    ASSUME IInv, PersistTemp
    PROVE  IInv' /\ Same
  <1> PICK d : d = [Cur EXCEPT !.temps = @ \cup {files + 1}]
    OBVIOUS
  <1>t. Cur \in Dir /\ TypeOK /\ Stored /\ files \in Nat /\ files <= MaxFiles
        /\ MaxFiles \in Nat /\ NoFile \notin File
    BY DirsFacts, Ranges DEF IInv
  <1>n. /\ files + 1 \in File /\ files' = files + 1 /\ files' \in 0 .. MaxFiles
        /\ files' \in Nat /\ files' >= files /\ ~Known(files + 1)
    BY <1>t DEF File, Known, PersistTemp, Goto, Create, NewFile, proc, hist, bound
  <1>a. /\ ~Pending /\ Fitting /\ Ready /\ Known(pred) /\ Known(repl) /\ Good(Cur)
        /\ handle = Cur.wal /\ Cur.wal # NoFile /\ after \in {"link", "failed"}
    <2>1. /\ ~Pending /\ Fitting /\ Ready /\ handle = Cur.wal /\ Cur.wal # NoFile
          /\ after \in {"link", "failed"}
      BY DEF IInv, Control, PersistInv, GoalInv, HandleInv, PostUnlink, Writing, PersistTemp,
         Goto
    <2>2. QED
      BY <1>t, <2>1, IdleFacts DEF Fitting
  <1>0. /\ d \in Dir /\ Change(d)
        /\ d.wal = Cur.wal /\ d.intent = Cur.intent /\ d.guards = Cur.guards
        /\ d.temps = Cur.temps \cup {files + 1}
    <2>1. d \in Dir
      BY <1>t, <1>n DEF Dir
    <2>2. /\ d.wal = Cur.wal /\ d.intent = Cur.intent /\ d.guards = Cur.guards
          /\ d.temps = Cur.temps \cup {files + 1}
      BY <1>t DEF Dir
    <2>3. QED
      BY <2>1, <2>2 DEF PersistTemp, NewFile
  <1>1. TypeOK'
    <2>1. DiskType /\ NumType /\ FileType /\ WordType
      BY TypeParts DEF IInv
    <2>2. DiskType'
      <3>1. dirs' \in Seq(Dir) /\ Len(dirs') > 0
        BY <1>0, <1>t, Appended
      <3>2. Wanted \in Intent
        <4>1. pred \in File /\ repl \in File
          BY <1>a, <1>t DEF Known, File
        <4>2. QED
          BY <2>1, <4>1 DEF WordType, Wanted, Intent
      <3>3. <<Wanted>> \in Seq(Intent)
        BY <3>2
      <3>4. intents' \in [File -> Seq(Intent)]
        BY <2>1, <3>3 DEF DiskType, PersistTemp, Goto, Create, NewFile, proc, hist, bound
      <3>5. QED
        BY <1>n, <2>1, <3>1, <3>4 DEF DiskType, PersistTemp, Goto, Create, NewFile, proc, hist,
           bound
    <2>3. NumType'
      BY <2>1, WalAssumption DEF NumType, PersistTemp, Goto, Create, NewFile, proc, hist, bound
    <2>4. FileType'
      BY <2>1 DEF FileType, PersistTemp, Goto, Create, NewFile, proc, hist, bound
    <2>5. WordType'
      BY <2>1 DEF WordType, Step, Goal, State, Result, PersistTemp, Goto, Create, NewFile, proc,
         hist, bound
    <2>6. QED
      BY <2>2, <2>3, <2>4, <2>5, TypePartsNext
  <1>2. /\ Stored' /\ Same /\ Cur' = d /\ ~Pending'
        /\ (result' = result /\ before' = before => ResultInv')
    <2>1. \A f \in 1 .. files : intents'[f] = intents[f] /\ wal'[f] = wal[f]
      BY <1>n, <1>t DEF Known, TypeOK, PersistTemp, Goto, Create, NewFile, proc, hist, bound
    <2>2. Unused' /\ DataInv'
      BY <1>t, <1>n, SameFile DEF Stored, Unused, DataInv, Durable, Decodes, File, PersistTemp,
         Goto, Create, NewFile, proc, hist, bound
    <2>3. Good(d)' /\ Read(d)' = Now /\ Now # NoFile
      <3>1. Good(d)'
        BY <1>0, <1>a, <1>t, <1>n DEF Good, Void, Known, Pending
      <3>2. QED
        BY <1>0, <1>a, <3>1 DEF Read, Now
    <2>4. d.intent = NoFile /\ ~Mixed
      BY <1>0, <1>a DEF Pending, Mixed
    <2>5. /\ Stored' /\ Readable' = Readable /\ Cur' = d
          /\ (result' = result /\ before' = before => ResultInv')
      BY <1>0, <1>1, <1>a, <1>n, <2>1, <2>2, <2>3, <2>4, ExtendedFacts DEF PersistTemp, Goto,
         Create, NewFile, proc, hist, bound
    <2>6. ~Pending'
      BY <2>4, <2>5 DEF Pending
    <2>7. QED
      BY <2>5, <2>6 DEF Same, PersistTemp, Goto, Create, NewFile, proc, hist, bound
  <1>3. ResultInv'
    BY <1>2 DEF PersistTemp, Goto, Create, NewFile, proc, hist, bound
  <1>4. /\ Whole' = Whole /\ Synced' = Synced /\ Exact' = Exact /\ Fitting' /\ Ready' /\ Drafted'
        /\ Existing' /\ Wanted' = Wanted
    <2>1. Whole' = Whole /\ Synced' = Synced /\ Exact' = Exact
      BY DEF Whole, Synced, Exact, NoTorn, Items, Kepts, PersistTemp, Goto, Create, NewFile,
         proc, hist, bound
    <2>2. Wanted' = Wanted /\ wal' = wal /\ pred' = pred /\ repl' = repl
      BY DEF Wanted, PersistTemp, Goto, Create, NewFile, proc, hist, bound
    <2>3. Ready'
      BY <1>a, <2>2 DEF Ready, Emptied
    <2>4. Known(pred)' /\ Known(repl)'
      BY <1>a, <1>n, <1>t, <2>2 DEF Known
    <2>5. Fits(Wanted, Cur)'
      <3>1. /\ Wanted.pred \notin {files + 1} /\ Cur.wal # files + 1 /\ Fits(Wanted, Cur)
        BY <1>a, <1>n, <1>t, OpenFacts DEF Wanted, Fitting
      <3>2. QED
        BY <1>0, <1>2, <2>2, <3>1 DEF Fits
    <2>6. Drafted'
      <3>1. intents'[files + 1] = <<Wanted>>
        BY <1>n, <1>t DEF TypeOK, PersistTemp, Goto, Create, NewFile, proc, hist, bound
      <3>2. files + 1 \notin {pred, repl, Cur.wal}
        BY <1>a, <1>n, <1>t, OpenFacts
      <3>3. QED
        BY <1>0, <1>2, <1>n, <2>2, <3>1, <3>2 DEF Drafted
    <2>7. QED
      BY <2>1, <2>2, <2>3, <2>4, <2>5, <2>6 DEF Fitting, Existing
  <1>5. HandleInv'
    BY <1>a, <1>0, <1>2, <1>4 DEF IInv, Control, HandleInv, PostUnlink, PersistTemp, Goto,
       Create, NewFile, proc, hist, bound
  <1>6. GoalInv'
    BY <1>a, <1>0, <1>2, <1>4 DEF IInv, Control, GoalInv, Step, Steps, Building, Writing,
       PostUnlink, Resuming, PersistTemp, Goto, Create, NewFile, proc, hist, bound
  <1>7. BeforeInv'
    BY <1>a, <1>0, <1>2, <1>4 DEF IInv, Control, BeforeInv, Writing, PostUnlink, EarlyState,
       PersistTemp, Goto, Create, NewFile, proc, hist, bound
  <1>8. IntentInv'
    BY <1>a, <1>0, <1>2, <1>4 DEF IInv, Control, IntentInv, Writing, Clearing, EarlyState, Done,
       PersistTemp, Goto, Create, NewFile, proc, hist, bound
  <1>9. PersistInv'
    BY <1>a, <1>0, <1>2, <1>4 DEF IInv, Control, PersistInv, EarlyState, PersistTemp, Goto,
       Create, NewFile, proc, hist, bound
  <1>10. BuildInv'
    BY <1>a, <1>0, <1>2, <1>4 DEF IInv, Control, BuildInv, Building, Writing, PostUnlink,
       PersistTemp, Goto, Create, NewFile, proc, hist, bound
  <1>11. QED
    BY <1>1, <1>2, <1>3, <1>5, <1>6, <1>7, <1>8, <1>9, <1>10 DEF IInv, Control, Same

\* The intent gets its name.
LEMMA PersistRenameKeeps ==
    ASSUME IInv, PersistRename
    PROVE  IInv' /\ Same
  <1> PICK d : d = [Cur EXCEPT !.temps = @ \ {files}, !.intent = files]
    OBVIOUS
  <1>t. Cur \in Dir /\ TypeOK /\ Stored /\ files \in Nat /\ NoFile \notin File
    BY DirsFacts, Ranges DEF IInv
  <1>a. /\ ~Pending /\ Fitting /\ Ready /\ Drafted /\ Good(Cur) /\ files \in File
        /\ handle = Cur.wal /\ Cur.wal # NoFile /\ after \in {"link", "failed"}
        /\ want \in EarlyState \cup {"Cleaned"}
    <2>1. /\ ~Pending /\ Fitting /\ Ready /\ Drafted /\ handle = Cur.wal /\ Cur.wal # NoFile
          /\ after \in {"link", "failed"} /\ want \in EarlyState \cup {"Cleaned"}
      BY DEF IInv, Control, PersistInv, HandleInv, PostUnlink, PersistRename, Goto
    <2>2. QED
      BY <1>t, <2>1, IdleFacts DEF Drafted
  <1>0. /\ d \in Dir /\ Change(d)
        /\ d.wal = Cur.wal /\ d.intent = files /\ d.guards = Cur.guards
        /\ d.temps = Cur.temps \ {files}
    <2>1. d \in Dir
      BY <1>t, <1>a DEF Dir
    <2>2. /\ d.wal = Cur.wal /\ d.intent = files /\ d.guards = Cur.guards
          /\ d.temps = Cur.temps \ {files}
      BY <1>t DEF Dir
    <2>3. QED
      BY <2>1, <2>2 DEF PersistRename
  <1>1. TypeOK'
    <2>1. DiskType /\ NumType /\ FileType /\ WordType
      BY TypeParts DEF IInv
    <2>2. DiskType'
      BY <1>0, <1>t, <2>1, Appended DEF DiskType, PersistRename, Goto, proc, hist, bound
    <2>3. NumType'
      BY <2>1, WalAssumption DEF NumType, PersistRename, Goto, proc, hist, bound
    <2>4. FileType'
      BY <2>1 DEF FileType, PersistRename, Goto, proc, hist, bound
    <2>5. WordType'
      BY <2>1 DEF WordType, Step, Goal, State, Result, PersistRename, Goto, proc, hist, bound
    <2>6. QED
      BY <2>2, <2>3, <2>4, <2>5, TypePartsNext
  <1>2. /\ Stored' /\ Same /\ Cur' = d /\ Pending' /\ Latest' = Wanted
        /\ (result' = result /\ before' = before => ResultInv')
    <2>1. \A f \in 1 .. files : intents'[f] = intents[f] /\ wal'[f] = wal[f]
      BY DEF PersistRename, Goto, proc, hist, bound
    <2>2. Unused' /\ DataInv'
      BY <1>t, SameFile DEF Stored, Unused, DataInv, Durable, Decodes, PersistRename, Goto,
         proc, hist, bound
    <2>3. Rec(d)' = Wanted /\ d.intent # NoFile
      <3>1. intents'[files] = <<Wanted>> /\ Len(<<Wanted>>) = 1 /\ <<Wanted>>[1] = Wanted
        BY <1>a DEF Drafted, PersistRename, Goto, proc, hist, bound
      <3>2. QED
        BY <1>0, <1>a, <1>t, <3>1 DEF Rec, Last, Drafted
    <2>4. Good(d)'
      <3>1. /\ Wanted.st = want /\ Wanted.pred = pred /\ Wanted.repl = repl
            /\ wal' = wal /\ intents' = intents /\ files' = files
        BY DEF Wanted, PersistRename, Goto, proc, hist, bound
      <3>2. Known(files) /\ intents[files] # <<>> /\ Known(Cur.wal)
        BY <1>a, <1>t, OpenFacts DEF Known, Drafted, File
      <3>3. Fits(Wanted, d)
        BY <1>0, <1>a DEF Fits, Fitting
      <3>4. Emptied(Wanted)
        BY <1>a DEF Ready
      <3>5. d.temps \subseteq 1 .. files
        BY <1>0, <1>a DEF Good
      <3>6. /\ Known(d.intent)' /\ intents'[d.intent] # <<>>
            /\ pred \in 1 .. files' /\ repl \in 1 .. files'
            /\ Known(d.wal)' /\ d.temps \subseteq 1 .. files'
            /\ d.intent \notin {d.wal, pred, repl}
        BY <1>0, <1>a, <3>1, <3>2, <3>5 DEF Known, Fitting, Drafted
      <3>7. Fits(Rec(d), d)'
        BY <2>3, <3>3 DEF Fits
      <3>8. Emptied(Rec(d))'
        BY <2>3, <3>1, <3>4 DEF Emptied
      <3>9. ~Void(d)
        BY <2>3 DEF Void
      <3>10. QED
        BY <2>3, <3>1, <3>6, <3>7, <3>8, <3>9 DEF Good, Void, Known
    <2>5. Read(d)' = Now /\ Now # NoFile
      BY <1>0, <1>a DEF Read, Now
    <2>6. ~Mixed /\ Rec(d)'.st \notin {"Checkpointed", "CleanupArmed"}
      BY <1>a, <2>3 DEF Mixed, Wanted, EarlyState
    <2>7. files' \in Nat /\ files' >= files
      BY <1>t DEF PersistRename, Goto, proc, hist, bound
    <2>8. /\ Stored' /\ Readable' = Readable /\ Cur' = d
          /\ (result' = result /\ before' = before => ResultInv')
      BY <1>0, <1>1, <1>a, <2>1, <2>2, <2>4, <2>5, <2>6, <2>7, ExtendedFacts DEF PersistRename,
         Goto, proc, hist, bound
    <2>9. Pending' /\ Latest' = Wanted
      BY <2>3, <2>8 DEF Pending, Latest, Rec
    <2>10. QED
      BY <2>8, <2>9 DEF Same, PersistRename, Goto, proc, hist, bound
  <1>3. ResultInv'
    BY <1>2 DEF PersistRename, Goto, proc, hist, bound
  <1>4. /\ Whole' = Whole /\ Synced' = Synced /\ Exact' = Exact /\ Existing' = Existing
        /\ Wanted' = Wanted /\ Wanted.st = want /\ Wanted.pred = pred
    BY SameProc DEF Wanted, PersistRename, Goto, proc, hist, bound
  <1>5. HandleInv'
    BY <1>a, <1>0, <1>2, <1>4 DEF IInv, Control, HandleInv, PostUnlink, PersistRename, Goto,
       proc, hist, bound
  <1>6. GoalInv'
    BY <1>a, <1>0, <1>2, <1>4 DEF IInv, Control, GoalInv, Step, Steps, Building, Writing,
       PostUnlink, Resuming, PersistRename, Goto, proc, hist, bound
  <1>7. BeforeInv'
    BY <1>a, <1>0, <1>2, <1>4 DEF IInv, Control, BeforeInv, Writing, PostUnlink, EarlyState,
       PersistRename, Goto, proc, hist, bound
  <1>8. IntentInv'
    BY <1>a, <1>0, <1>2, <1>4 DEF IInv, Control, IntentInv, Writing, Clearing, EarlyState, Done,
       PersistRename, Goto, proc, hist, bound
  <1>9. PersistInv'
    BY <1>a, <1>0, <1>2, <1>4 DEF IInv, Control, PersistInv, EarlyState, PersistRename, Goto,
       proc, hist, bound
  <1>10. BuildInv'
    BY <1>a, <1>0, <1>2, <1>4 DEF IInv, Control, BuildInv, Building, Writing, PostUnlink,
       PersistRename, Goto, proc, hist, bound
  <1>11. QED
    BY <1>1, <1>2, <1>3, <1>5, <1>6, <1>7, <1>8, <1>9, <1>10 DEF IInv, Control, Same

\* The replacement is written: a copy of what the log is to keep.
LEMMA WriteTempKeeps ==
    ASSUME IInv, WriteTemp
    PROVE  IInv' /\ Same
  <1> PICK d : d = [Cur EXCEPT !.temps = @ \cup {files + 1}]
    OBVIOUS
  <1>t. Cur \in Dir /\ TypeOK /\ Stored /\ files \in Nat /\ files <= MaxFiles
        /\ MaxFiles \in Nat /\ NoFile \notin File
    BY DirsFacts, Ranges DEF IInv
  <1>n. /\ files + 1 \in File /\ files' = files + 1 /\ files' \in 0 .. MaxFiles
        /\ files' \in Nat /\ files' >= files /\ ~Known(files + 1)
    BY <1>t DEF File, Known, WriteTemp, Persist, Create, NewFile, hist, bound
  <1>a. /\ ~Pending /\ Good(Cur) /\ Cur.guards = {} /\ Cur.wal \notin Cur.temps
        /\ handle = Cur.wal /\ Cur.wal # NoFile /\ handle \in File /\ Known(handle)
        /\ handle # files + 1 /\ handle = before /\ Whole /\ result = "None"
    <2>1. /\ ~Pending /\ handle = Cur.wal /\ Cur.wal # NoFile
          /\ handle = before /\ Whole /\ result = "None"
      BY DEF IInv, Control, GoalInv, BeforeInv, IntentInv, HandleInv, PostUnlink, WriteTemp
    <2>2. /\ Good(Cur) /\ Cur.guards = {} /\ Cur.wal \notin Cur.temps
          /\ handle \in File /\ Known(handle)
      BY <1>t, <2>1, IdleFacts, OpenFacts
    <2>3. handle # files + 1
      BY <1>n, <2>2
    <2>4. QED
      BY <2>1, <2>2, <2>3
  <1> PICK k : k = Kept(floor)
    OBVIOUS
  <1> PICK data : data = wal[handle].data
    OBVIOUS
  <1>k. /\ k \in Seq(0 .. MaxRecords) /\ Len(k) \in Nat /\ Len(k) <= written /\ Len(k) <= MaxRecords
        /\ \A j \in 1 .. Len(k) : \E i \in 1 .. Len(data) : k[j] = data[i] /\ data[i] >= floor
        /\ \A i \in 1 .. Len(data) : data[i] >= floor => \E j \in 1 .. Len(k) : k[j] = data[i]
        /\ \A j \in 1 .. Len(k) : k[j] <= written /\ k[j] # 0
    <2>1. /\ floor \in Nat /\ floor >= 1 /\ written \in Nat /\ written <= MaxRecords
          /\ MaxRecords \in Nat
      BY <1>t, Ranges
    <2>2. /\ k \in Seq(0 .. MaxRecords) /\ Len(k) <= Len(data)
          /\ \A j \in 1 .. Len(k) : \E i \in 1 .. Len(data) : k[j] = data[i] /\ data[i] >= floor
          /\ \A i \in 1 .. Len(data) : data[i] >= floor => \E j \in 1 .. Len(k) : k[j] = data[i]
      BY <1>t, <1>a, <2>1, KeptFacts
    <2>3. /\ Len(data) \in Nat /\ Len(data) <= written /\ \A i \in 1 .. Len(data) : data[i] <= written
          /\ \A i \in 1 .. Len(data) : data[i] \in 0 .. MaxRecords
      BY <1>t, <1>a, FileRanges DEF Stored, DataInv
    <2>4. Len(k) \in Nat /\ Len(k) <= written /\ Len(k) <= MaxRecords
      BY <2>1, <2>2, <2>3
    <2>5. \A j \in 1 .. Len(k) : k[j] <= written /\ k[j] # 0
      <3> TAKE j \in 1 .. Len(k)
      <3>1. PICK i \in 1 .. Len(data) : k[j] = data[i] /\ data[i] >= floor
        BY <2>2
      <3>2. data[i] <= written /\ data[i] \in 0 .. MaxRecords
        BY <2>3
      <3>3. QED
        BY <2>1, <3>1, <3>2
    <2>6. QED
      BY <2>2, <2>4, <2>5
  <1>w. /\ wal'[files + 1] = Durable(k) /\ Durable(k).data = k /\ Durable(k).dur = Len(k)
        /\ \A f \in File : f # files + 1 => wal'[f] = wal[f]
    BY <1>n, <1>t DEF TypeOK, Durable, WriteTemp, NewFile
  <1>0. /\ d \in Dir /\ Change(d)
        /\ d.wal = Cur.wal /\ d.intent = Cur.intent /\ d.guards = Cur.guards
        /\ d.temps = Cur.temps \cup {files + 1}
    <2>1. d \in Dir
      BY <1>t, <1>n DEF Dir
    <2>2. /\ d.wal = Cur.wal /\ d.intent = Cur.intent /\ d.guards = Cur.guards
          /\ d.temps = Cur.temps \cup {files + 1}
      BY <1>t DEF Dir
    <2>3. QED
      BY <2>1, <2>2 DEF WriteTemp, NewFile
  <1>1. TypeOK'
    <2>1. DiskType /\ NumType /\ FileType /\ WordType
      BY TypeParts DEF IInv
    <2>2. DiskType'
      <3>1. dirs' \in Seq(Dir) /\ Len(dirs') > 0
        BY <1>0, <1>t, Appended
      <3>2. Durable(k) \in [data : Seq(0 .. MaxRecords), dur : 0 .. MaxRecords]
        BY <1>k, WalAssumption DEF Durable
      <3>3. wal' \in [File -> [data : Seq(0 .. MaxRecords), dur : 0 .. MaxRecords]]
        BY <2>1, <3>2 DEF DiskType, WriteTemp, Persist, Create, NewFile, hist, bound
      <3>4. QED
        BY <1>n, <2>1, <3>1, <3>3 DEF DiskType, WriteTemp, Persist, Create, NewFile, hist, bound
    <2>3. NumType'
      BY <2>1, WalAssumption DEF NumType, WriteTemp, Persist, Create, NewFile, hist, bound
    <2>4. FileType'
      BY <1>n, <2>1 DEF FileType, WriteTemp, Persist, Create, NewFile, hist, bound
    <2>5. WordType'
      BY <2>1 DEF WordType, Step, Goal, State, Result, WriteTemp, Persist, Create, NewFile,
         hist, bound
    <2>6. QED
      BY <2>2, <2>3, <2>4, <2>5, TypePartsNext
  <1>2. /\ Stored' /\ Same /\ Cur' = d /\ ~Pending'
        /\ (result' = result /\ before' = before => ResultInv')
    <2>1. \A f \in 1 .. files : intents'[f] = intents[f] /\ wal'[f] = wal[f]
      BY <1>n, <1>t, <1>w DEF Known, File, WriteTemp, Persist, Create, NewFile, hist, bound
    <2>2. Unused'
      <3> SUFFICES ASSUME NEW f \in File, f > files'
                   PROVE  wal'[f] = Durable(<<>>)
        BY DEF Unused, Durable
      <3>1. f \in Nat /\ f # files + 1 /\ f > files
        BY <1>n, <1>t DEF File
      <3>2. QED
        BY <1>t, <1>w, <3>1 DEF Stored, Unused
    <2>3. DataInv'
      <3> SUFFICES ASSUME NEW f \in File
                   PROVE  /\ wal'[f].dur <= Len(wal'[f].data) /\ Len(wal'[f].data) <= written'
                          /\ \A i \in 1 .. Len(wal'[f].data) : wal'[f].data[i] <= written'
                          /\ Decodes(f)'
        BY DEF DataInv
      <3>1. written' = written
        BY DEF WriteTemp, Persist, Create, NewFile, hist, bound
      <3>2. CASE f = files + 1
        BY <1>k, <1>w, <3>1, <3>2 DEF Decodes, Torn
      <3>3. CASE f # files + 1
        BY <1>t, <1>w, <3>1, <3>3, SameFile DEF Stored, DataInv
      <3>4. QED
        BY <3>2, <3>3
    <2>4. Good(d)' /\ Read(d)' = Now /\ Now # NoFile
      <3>1. Good(d)'
        BY <1>0, <1>a, <1>t, <1>n DEF Good, Void, Known, Pending
      <3>2. QED
        BY <1>0, <1>a, <3>1 DEF Read, Now
    <2>5. d.intent = NoFile /\ ~Mixed
      BY <1>0, <1>a DEF Pending, Mixed
    <2>6. /\ Stored' /\ Readable' = Readable /\ Cur' = d
          /\ (result' = result /\ before' = before => ResultInv')
      BY <1>0, <1>1, <1>a, <1>n, <2>1, <2>2, <2>3, <2>4, <2>5, ExtendedFacts DEF WriteTemp,
         Persist, Create, NewFile, hist, bound
    <2>7. ~Pending'
      BY <2>5, <2>6 DEF Pending
    <2>8. QED
      BY <2>6, <2>7 DEF Same, WriteTemp, Persist, Create, NewFile, hist, bound
  <1>3. ResultInv'
    BY <1>2 DEF WriteTemp, Persist, Create, NewFile, hist, bound
  <1>4. /\ Whole' /\ Synced' /\ Exact' /\ Fitting' /\ Ready' /\ Existing' /\ pred' # repl'
    <2>1. /\ pred' = handle /\ repl' = files + 1 /\ handle' = handle /\ floor' = floor
          /\ want' = "Prepared"
      BY DEF WriteTemp, Persist, Create, NewFile, hist, bound
    <2>2. wal'[handle] = wal[handle]
      BY <1>a, <1>w
    <2>3. Whole'
      BY <1>a, <2>1, <2>2 DEF Whole, NoTorn
    <2>4. Synced'
      BY <1>k, <1>w, <2>1 DEF Synced, NoTorn, Torn
    <2>5. Exact'
      <3> PICK n : n = files + 1
        OBVIOUS
      <3>1. Items(n)' = {k[i] : i \in 1 .. Len(k)}
        BY <1>k, <1>w DEF Items, Torn
      <3>2. Items(handle) = {data[i] : i \in 1 .. Len(data)}
        BY <1>a DEF Items, Whole, NoTorn
      <3>3. Items(n)' = Kepts(Items(handle))
        <4>1. \A j \in 1 .. Len(k) : k[j] \in Kepts(Items(handle))
          <5> TAKE j \in 1 .. Len(k)
          <5>1. PICK i \in 1 .. Len(data) : k[j] = data[i] /\ data[i] >= floor
            BY <1>k
          <5>2. QED
            BY <3>2, <5>1 DEF Kepts
        <4>2. ASSUME NEW r \in Kepts(Items(handle))
              PROVE  r \in {k[i] : i \in 1 .. Len(k)}
          <5>1. PICK i \in 1 .. Len(data) : r = data[i]
            BY <3>2 DEF Kepts
          <5>2. r >= floor
            BY DEF Kepts
          <5>3. PICK j \in 1 .. Len(k) : k[j] = data[i]
            BY <1>k, <5>1, <5>2
          <5>4. QED
            BY <5>1, <5>3
        <4>3. QED
          BY <3>1, <4>1, <4>2
      <3>4. Kepts(Items(pred))' = Kepts(Items(handle))
        BY <2>1, <2>2 DEF Kepts, Items
      <3>5. Items(repl)' = Items(n)'
        BY <2>1 DEF Items
      <3>6. QED
        BY <3>3, <3>4, <3>5 DEF Exact
    <2>6. Known(pred)' /\ Known(repl)' /\ pred' # repl'
      BY <1>a, <1>n, <1>t, <2>1 DEF Known, File
    <2>7. Fits(Wanted, Cur)'
      <3>1. Wanted'.st = "Prepared" /\ Wanted'.pred = handle /\ Wanted'.repl = files + 1
        BY <2>1 DEF Wanted
      <3>2. QED
        BY <1>0, <1>2, <1>a, <3>1 DEF Fits, EarlyState
    <2>8. Ready'
      BY <2>1 DEF Ready, Emptied, Wanted, Done
    <2>9. QED
      BY <2>3, <2>4, <2>5, <2>6, <2>7, <2>8 DEF Fitting, Existing
  <1>5. HandleInv'
    BY <1>a, <1>0, <1>2, <1>4 DEF IInv, Control, HandleInv, PostUnlink, WriteTemp, Persist,
       Create, NewFile, hist, bound
  <1>6. GoalInv'
    BY <1>a, <1>0, <1>2, <1>4 DEF IInv, Control, GoalInv, Step, Steps, Building, Writing,
       PostUnlink, Resuming, State, WriteTemp, Persist, Create, NewFile, hist, bound
  <1>7. BeforeInv'
    BY <1>a, <1>0, <1>2, <1>4 DEF IInv, Control, BeforeInv, Writing, PostUnlink, EarlyState,
       WriteTemp, Persist, Create, NewFile, hist, bound
  <1>8. IntentInv'
    BY <1>a, <1>0, <1>2, <1>4 DEF IInv, Control, IntentInv, Writing, Clearing, EarlyState, Done,
       WriteTemp, Persist, Create, NewFile, hist, bound
  <1>9. PersistInv'
    BY <1>a, <1>0, <1>2, <1>4 DEF IInv, Control, PersistInv, EarlyState, WriteTemp, Persist,
       Create, NewFile, hist, bound
  <1>10. BuildInv'
    BY <1>a, <1>0, <1>2, <1>4 DEF IInv, Control, BuildInv, Building, Writing, PostUnlink,
       WriteTemp, Persist, Create, NewFile, hist, bound
  <1>11. QED
    BY <1>1, <1>2, <1>3, <1>5, <1>6, <1>7, <1>8, <1>9, <1>10 DEF IInv, Control, Same

\* The replacement becomes the log: it has all that the log is to keep.
LEMMA RenameReplacementKeeps ==
    ASSUME IInv, RenameReplacement
    PROVE  IInv' /\ acked' = acked /\ floor' = floor /\ Readable' \subseteq Readable
  <1> PICK d : d = [Cur EXCEPT !.wal = repl, !.temps = @ \ {repl}]
    OBVIOUS
  <1>t. Cur \in Dir /\ TypeOK /\ Stored /\ NoFile \notin File
    BY DirsFacts, Ranges DEF IInv
  <1>a. /\ Pending /\ Cur.wal = NoFile /\ Latest.pred = pred /\ Latest.repl = repl
        /\ Latest.st = "PublishArmed" /\ Synced /\ Exact /\ Existing /\ goal = "build"
        /\ result = "None" /\ pred = before /\ pred # repl
        /\ pred \in File /\ repl \in File /\ pred # NoFile /\ repl # NoFile
        /\ Fits(Latest, Cur) /\ Emptied(Latest) /\ Good(Cur) /\ pred \in Cur.guards
        /\ Cur.intent \notin {pred, repl} /\ Known(Cur.intent) /\ intents[Cur.intent] # <<>>
    <2>1. /\ Pending /\ Cur.wal = NoFile /\ Latest.pred = pred /\ Latest.repl = repl
          /\ Latest.st = "PublishArmed" /\ Synced /\ Exact /\ Existing /\ goal = "build"
          /\ result = "None" /\ pred = before /\ pred # repl
      BY DEF IInv, Control, GoalInv, BuildInv, Building, PostUnlink, Writing, RenameReplacement,
         Goto
    <2>2. /\ pred \in File /\ repl \in File /\ pred # NoFile /\ repl # NoFile
          /\ Fits(Latest, Cur) /\ Emptied(Latest) /\ Good(Cur)
          /\ Cur.intent \notin {pred, repl} /\ Known(Cur.intent) /\ intents[Cur.intent] # <<>>
      BY <1>t, <2>1, PendingFacts
    <2>3. pred \in Cur.guards
      BY <2>1, <2>2 DEF Fits, Done
    <2>4. QED
      BY <2>1, <2>2, <2>3
  <1>0. /\ d \in Dir /\ Change(d)
        /\ d.wal = repl /\ d.intent = Cur.intent /\ d.guards = Cur.guards
        /\ d.temps = Cur.temps \ {repl}
    <2>1. d \in Dir
      BY <1>t, <1>a DEF Dir
    <2>2. /\ d.wal = repl /\ d.intent = Cur.intent /\ d.guards = Cur.guards
          /\ d.temps = Cur.temps \ {repl}
      BY <1>t DEF Dir
    <2>3. QED
      BY <2>1, <2>2 DEF RenameReplacement
  <1>1. TypeOK'
    <2>1. DiskType /\ NumType /\ FileType /\ WordType
      BY TypeParts DEF IInv
    <2>2. DiskType'
      BY <1>0, <1>t, <2>1, Appended DEF DiskType, RenameReplacement, Goto, proc, hist, bound
    <2>3. NumType'
      BY <2>1, WalAssumption DEF NumType, RenameReplacement, Goto, proc, hist, bound
    <2>4. FileType'
      BY <2>1 DEF FileType, RenameReplacement, Goto, proc, hist, bound
    <2>5. WordType'
      BY <2>1 DEF WordType, Step, Goal, State, Result, RenameReplacement, Goto, proc, hist,
         bound
    <2>6. QED
      BY <2>2, <2>3, <2>4, <2>5, TypePartsNext
  <1>2. /\ Stored' /\ acked' = acked /\ floor' = floor /\ Readable' \subseteq Readable
        /\ Cur' = d /\ Pending' /\ Latest' = Latest
    <2>1. /\ Cur' = d /\ Dirs' = Dirs \cup {d} /\ Len(dirs') = Len(dirs) + 1
          /\ \A i \in 1 .. Len(dirs) : dirs'[i] = dirs[i]
      BY <1>0, <1>t, Appended
    <2>2. /\ wal' = wal /\ intents' = intents /\ files' = files /\ acked' = acked
          /\ floor' = floor /\ written' = written
      BY DEF RenameReplacement, Goto, proc, hist, bound
    <2>3. \A e : Rec(e)' = Rec(e) /\ Read(e)' = Read(e) /\ Void(e)' = Void(e)
      BY <2>2 DEF Rec, Last, Read, Void
    <2>4. Pending' /\ Latest' = Latest
      BY <1>0, <1>a, <2>1, <2>2 DEF Pending, Latest
    <2>5. Now = pred /\ Now' = repl /\ Read(d) = repl /\ ~Void(d)
      BY <1>0, <1>a, <2>1, LatestIs DEF Now, Read, Pending, Void
    <2>6. ~Mixed /\ Mixed'
      BY <1>0, <1>a, <2>1, <2>4 DEF Mixed
    <2>7. DirInv'
      <3>1. \A e \in Dirs : Good(e)
        BY <1>t DEF Stored, DirInv
      <3>2. Good(d)
        <4>1. Rec(d) = Latest /\ Cur.intent # NoFile
          BY <1>0, <1>a DEF Rec, Latest, Pending
        <4>2. Fits(Latest, d)
          BY <1>0, <1>a DEF Fits
        <4>3. QED
          BY <1>0, <1>a, <2>5, <4>1, <4>2 DEF Good, Existing
      <3>3. \A e : Good(e) => Good(e)'
        BY <2>2, <2>3 DEF Good, Void, Known, Fits, Emptied
      <3>4. QED
        BY <2>1, <3>1, <3>2, <3>3 DEF DirInv
    <2>8. Agree'
      BY <1>a, <1>t, <2>1, <2>3, <2>4, <2>5, <2>6 DEF Stored, Agree
    <2>9. SettledInv'
      <3>1. ASSUME NEW e \in Dirs, e.intent # NoFile, Rec(e).st \in {"Checkpointed", "CleanupArmed"}
            PROVE  FALSE
        <4>1. e = Cur
          BY <1>t, <3>1 DEF Stored, SettledInv, Alone
        <4>2. QED
          BY <1>a, <3>1, <4>1, LatestIs
      <3>2. Rec(d).st = "PublishArmed"
        BY <1>0, <1>a DEF Rec, Latest
      <3>3. QED
        BY <2>1, <2>3, <3>1, <3>2 DEF SettledInv
    <2>10. Unused' /\ DataInv'
      BY <1>t, <2>2, SameFile DEF Stored, Unused, DataInv, Durable, Decodes
    <2>11. /\ Kepts(acked) \subseteq Items(pred) /\ Items(repl) = Kepts(Items(pred))
           /\ Items(repl) \subseteq DurItems(repl)
      <3>1. Cur \in Dirs /\ Read(Cur) = pred /\ pred \in File
        BY <1>a, <1>t, <2>5, DirsFacts DEF Now
      <3>2. Kepts(acked) \subseteq DurItems(pred)
        BY <1>a, <1>t, <3>1 DEF Stored, Covers
      <3>3. /\ wal[pred].dur <= Len(wal[pred].data) /\ wal[pred].dur \in Nat
            /\ Len(wal[pred].data) \in Nat
        BY <1>t, <3>1, FileRanges DEF Stored, DataInv
      <3>4. DurItems(pred) \subseteq Items(pred) \cup {Torn}
        BY <3>3 DEF DurItems, Items
      <3>5. Torn \notin acked
        BY <1>t, Ranges DEF Torn
      <3>6. Items(repl) \subseteq DurItems(repl)
        BY <1>a DEF Synced, Items, DurItems
      <3>7. QED
        BY <1>a, <3>2, <3>4, <3>5, <3>6 DEF Exact, Kepts
    <2>12. Covers'
      <3>0. \A f : Items(f)' = Items(f) /\ DurItems(f)' = DurItems(f)
        BY <2>2 DEF Items, DurItems
      <3>1. Kepts(acked)' = Kepts(acked) /\ Items(Now)' = Items(repl)
        BY <2>2, <2>5 DEF Kepts, Items
      <3>2. ASSUME NEW e \in Dirs', Read(e)' # NoFile
            PROVE  /\ Kepts(acked)' \subseteq DurItems(Read(e))'
                   /\ Kepts(Items(Read(e)))' \subseteq Items(Now)'
        <4>1. PICK h : h = Read(e)
          OBVIOUS
        <4>2. /\ DurItems(Read(e))' = DurItems(h) /\ Kepts(Items(Read(e)))' = Kepts(Items(h))
          BY <2>2, <2>3, <4>1 DEF DurItems, Items, Kepts
        <4>3. CASE e = d
          <5>1. h = repl
            BY <2>5, <4>1, <4>3
          <5>2. Kepts(acked) \subseteq Items(repl)
            BY <2>11 DEF Kepts
          <5>3. QED
            BY <2>11, <3>1, <4>2, <5>1, <5>2 DEF Kepts
        <4>4. CASE e \in Dirs
          <5>1. h = pred
            BY <1>t, <2>3, <2>5, <2>6, <3>2, <4>1, <4>4 DEF Stored, Agree
          <5>2. Kepts(acked) \subseteq DurItems(h)
            BY <1>t, <2>3, <3>2, <4>1, <4>4 DEF Stored, Covers
          <5>3. QED
            BY <2>11, <3>1, <4>2, <5>1, <5>2
        <4>5. QED
          BY <2>1, <4>3, <4>4
      <3>3. QED
        BY <3>2 DEF Covers
    <2>13. VoidInv'
      <3>1. \A e \in Dirs' : Void(e)' => acked' = {}
        BY <1>t, <2>1, <2>2, <2>3, <2>5 DEF Stored, VoidInv
      <3>2. ASSUME NEW i \in 1 .. Len(dirs'), NEW j \in 1 .. Len(dirs'), i < j, Void(dirs'[j])
            PROVE  Void(dirs'[i])
        <4>1. Len(dirs) \in Nat /\ dirs'[Len(dirs')] = d
          BY <1>t, <2>1 DEF TypeOK, Cur
        <4>2. j # Len(dirs')
          BY <2>5, <3>2, <4>1
        <4>3. i \in 1 .. Len(dirs) /\ j \in 1 .. Len(dirs)
          BY <2>1, <3>2, <4>1, <4>2
        <4>4. QED
          BY <1>t, <2>1, <3>2, <4>3 DEF Stored, VoidInv
      <3>3. QED
        BY <3>1, <3>2 DEF VoidInv, Void
    <2>14. Readable' \subseteq Readable
      <3>1. (Readable = IF Void(Cur) THEN {} ELSE Items(Now))'
        BY ReadableIs, PTL
      <3>2. Readable' = Items(repl) /\ Readable = Items(pred)
        <4>1. ~Void(Cur) /\ ~Void(Cur)'
          BY <1>a, <2>1, <2>5 DEF Void, Pending
        <4>2. Items(Now)' = Items(repl)
          BY <2>2, <2>5 DEF Items
        <4>3. QED
          BY <2>5, <3>1, <4>1, <4>2, ReadableIs
      <3>3. QED
        BY <2>11, <3>2 DEF Kepts
    <2>15. QED
      BY <2>1, <2>2, <2>4, <2>7, <2>8, <2>9, <2>10, <2>12, <2>13, <2>14 DEF Stored
  <1>3. ResultInv'
    BY <1>a DEF ResultInv, RenameReplacement, Goto, proc, hist, bound
  <1>4. Synced' = Synced /\ Exact' = Exact /\ Existing' = Existing
    BY SameProc DEF RenameReplacement, Goto, proc, hist, bound
  <1>5. HandleInv'
    BY <1>a, <1>0, <1>2, <1>4 DEF IInv, Control, HandleInv, PostUnlink, RenameReplacement, Goto,
       proc, hist, bound
  <1>6. GoalInv'
    BY <1>a, <1>0, <1>2, <1>4 DEF IInv, Control, GoalInv, Step, Steps, Building, Writing,
       PostUnlink, Resuming, RenameReplacement, Goto, proc, hist, bound
  <1>7. BeforeInv'
    BY <1>a, <1>0, <1>2, <1>4 DEF IInv, Control, BeforeInv, Writing, PostUnlink, EarlyState,
       RenameReplacement, Goto, proc, hist, bound
  <1>8. IntentInv'
    BY <1>a, <1>0, <1>2, <1>4 DEF IInv, Control, IntentInv, Writing, Clearing, EarlyState, Done,
       RenameReplacement, Goto, proc, hist, bound
  <1>9. PersistInv'
    BY <1>a, <1>0, <1>2, <1>4 DEF IInv, Control, PersistInv, EarlyState, RenameReplacement,
       Goto, proc, hist, bound
  <1>10. BuildInv'
    BY <1>a, <1>0, <1>2, <1>4 DEF IInv, Control, BuildInv, Building, Writing, PostUnlink,
       RenameReplacement, Goto, proc, hist, bound
  <1>11. QED
    BY <1>1, <1>2, <1>3, <1>5, <1>6, <1>7, <1>8, <1>9, <1>10 DEF IInv, Control, Same

\* There never was a log: an empty one is created.
LEMMA CreateNewKeeps ==
    ASSUME IInv, CreateNew
    PROVE  IInv' /\ Same
  <1>t. Cur \in Dir /\ TypeOK /\ Stored /\ files \in Nat /\ MaxFiles \in Nat /\ NoFile \notin File
    BY DirsFacts, Ranges DEF IInv
  <1> PICK n : n = files + 1
    OBVIOUS
  <1> PICK d : d = [Cur EXCEPT !.wal = n]
    OBVIOUS
  <1>n. n \in File /\ files' = n /\ n \in Nat /\ n > files /\ n # NoFile /\ n \in 1 .. n
    BY <1>t DEF File, NoFile, CreateNew, Create, NewFile
  <1>a. ~Pending /\ Cur.wal = NoFile /\ Void(Cur) /\ Good(Cur)
    BY <1>t, IdleFacts DEF Void, Pending, CreateNew
  <1>0. /\ d \in Dir /\ Change(d)
        /\ d.wal = n /\ d.intent = Cur.intent /\ d.guards = Cur.guards /\ d.temps = Cur.temps
    <2>1. d \in Dir
      BY <1>t, <1>n DEF Dir
    <2>2. d.wal = n /\ d.intent = Cur.intent /\ d.guards = Cur.guards /\ d.temps = Cur.temps
      BY <1>t DEF Dir
    <2>3. QED
      BY <2>1, <2>2 DEF CreateNew, NewFile
  <1>1. TypeOK'
    <2>1. DiskType /\ NumType /\ FileType /\ WordType
      BY TypeParts DEF IInv
    <2>2. DiskType'
      <3>1. files' \in 0 .. MaxFiles
        BY <1>n, <1>t DEF File
      <3>2. QED
        BY <1>0, <1>t, <2>1, <3>1, Appended DEF DiskType, CreateNew, Goto, Create, NewFile,
           bound
    <2>3. NumType'
      BY <2>1, WalAssumption DEF NumType, CreateNew, Goto, Create, NewFile, bound
    <2>4. FileType'
      BY <1>n, <2>1 DEF FileType, CreateNew, Goto, Create, NewFile, bound
    <2>5. WordType'
      BY <2>1 DEF WordType, Step, Goal, State, Result, CreateNew, Goto, Create, NewFile, bound
    <2>6. QED
      BY <2>2, <2>3, <2>4, <2>5, TypePartsNext
  <1>2. Stored' /\ Same /\ Cur' = d /\ ~Pending'
    <2>1. /\ Cur' = d /\ Dirs' = Dirs \cup {d} /\ Len(dirs') = Len(dirs) + 1
          /\ \A i \in 1 .. Len(dirs) : dirs'[i] = dirs[i]
      BY <1>0, <1>t, Appended
    <2>2. /\ wal' = wal /\ intents' = intents /\ acked' = acked
          /\ floor' = floor /\ written' = written
      BY DEF CreateNew, Goto, Create, NewFile, bound
    <2>3. \A e : Rec(e)' = Rec(e) /\ Read(e)' = Read(e) /\ Void(e)' = Void(e)
      BY <2>2 DEF Rec, Last, Read, Void
    <2>4. ~Pending' /\ Now' = n /\ Read(d) = n /\ ~Void(d) /\ n # NoFile
      BY <1>0, <1>a, <1>n, <2>1 DEF Now, Read, Pending, Void
    <2>5. \A e \in Dirs : Void(e) /\ Read(e) = NoFile
      <3>1. ASSUME NEW i \in 1 .. Len(dirs)
            PROVE  Void(dirs[i])
        <4>1. Len(dirs) \in Nat /\ Len(dirs) \in 1 .. Len(dirs) /\ Void(dirs[Len(dirs)])
          <5>1. dirs \in Seq(Dir) /\ Len(dirs) > 0
            BY <1>t DEF TypeOK
          <5>2. QED
            BY <1>a, <5>1 DEF Cur
        <4>2. i = Len(dirs) \/ i < Len(dirs)
          BY <4>1
        <4>3. QED
          BY <1>t, <4>1, <4>2 DEF Stored, VoidInv
      <3>2. QED
        BY <3>1 DEF Dirs, Void, Read
    <2>6. DirInv'
      <3>1. ASSUME NEW e \in Dirs
            PROVE  Good(e)'
        <4>1. Good(e) /\ Void(e)
          BY <1>t, <2>5 DEF Stored, DirInv
        <4>2. QED
          BY <4>1 DEF Good, Void
      <3>2. Good(d)'
        <4>1. Known(n)'
          BY <1>n DEF Known
        <4>2. d.intent = NoFile /\ d.guards = {} /\ d.temps = {}
          BY <1>0, <1>a DEF Good, Void, Pending
        <4>3. QED
          BY <1>0, <2>4, <4>1, <4>2 DEF Good, Void
      <3>3. QED
        BY <2>1, <3>1, <3>2 DEF DirInv
    <2>7. Agree'
      BY <2>1, <2>3, <2>4, <2>5 DEF Agree
    <2>8. SettledInv'
      <3>1. d.intent = NoFile
        BY <1>0, <1>a DEF Pending
      <3>2. QED
        BY <2>1, <2>5, <3>1 DEF SettledInv, Void
    <2>9. Unused' /\ DataInv'
      <3>1. DataInv'
        BY <1>t, <2>2, SameFile DEF Stored, DataInv
      <3>2. \A f \in File : f > files' => f > files
        BY <1>n, <1>t DEF File
      <3>3. QED
        BY <1>t, <2>2, <3>1, <3>2 DEF Stored, Unused, Durable
    <2>10. acked = {} /\ acked' = {}
      BY <1>a, <1>t, <2>2, DirsFacts DEF Stored, VoidInv
    <2>11. Covers'
      <3> SUFFICES ASSUME NEW e \in Dirs', Read(e)' # NoFile
                   PROVE  /\ Kepts(acked)' \subseteq DurItems(Read(e))'
                          /\ Kepts(Items(Read(e)))' \subseteq Items(Now)'
        BY DEF Covers
      <3>1. Read(e)' = Now'
        BY <2>1, <2>3, <2>4, <2>5
      <3>2. Kepts(acked)' = {}
        BY <2>10 DEF Kepts
      <3>3. Kepts(Items(Read(e)))' \subseteq Items(Now)'
        BY <3>1 DEF Kepts, Items
      <3>4. QED
        BY <3>2, <3>3
    <2>12. VoidInv'
      <3>1. \A i \in 1 .. Len(dirs') : i # Len(dirs') => Void(dirs'[i])
        <4>1. Len(dirs) \in Nat
          BY <1>t DEF TypeOK
        <4>2. \A i \in 1 .. Len(dirs') : i # Len(dirs') => i \in 1 .. Len(dirs)
          BY <2>1, <4>1
        <4>3. \A i \in 1 .. Len(dirs) : Void(dirs[i])
          BY <2>5 DEF Dirs
        <4>4. QED
          BY <2>1, <4>2, <4>3
      <3>2. \A i, j \in 1 .. Len(dirs') : i < j => i # Len(dirs')
        OBVIOUS
      <3>3. QED
        BY <2>10, <3>1, <3>2 DEF VoidInv, Void
    <2>13. Readable' = Readable
      <3>1. (Readable = IF Void(Cur) THEN {} ELSE Items(Now))'
        BY ReadableIs, PTL
      <3>2. Items(Now)' = {}
        <4>1. wal[n] = Durable(<<>>)
          BY <1>n, <1>t DEF Stored, Unused
        <4>2. wal'[Now'].data = <<>>
          BY <2>2, <2>4, <4>1 DEF Durable
        <4>3. QED
          BY <4>2 DEF Items
      <3>3. QED
        BY <1>a, <3>1, <3>2, ReadableIs
    <2>14. QED
      BY <2>1, <2>2, <2>4, <2>6, <2>7, <2>8, <2>9, <2>11, <2>12, <2>13 DEF Stored, Same
  <1>3. ResultInv'
    BY DEF ResultInv, CreateNew, Goto, Create, NewFile, bound
  <1>4. handle' = d.wal /\ d.wal # NoFile
    BY <1>0, <1>n, <1>t DEF CreateNew, Goto, Create, NewFile, bound
  <1>5. HandleInv'
    BY <1>a, <1>0, <1>2, <1>4 DEF IInv, Control, HandleInv, PostUnlink, CreateNew, Goto, Create,
       NewFile, bound
  <1>6. GoalInv'
    BY <1>a, <1>0, <1>2, <1>4 DEF IInv, Control, GoalInv, Step, Steps, Building, Writing,
       PostUnlink, Resuming, CreateNew, Goto, Create, NewFile, bound
  <1>7. BeforeInv'
    BY <1>a, <1>0, <1>2, <1>4 DEF IInv, Control, BeforeInv, Writing, PostUnlink, EarlyState,
       CreateNew, Goto, Create, NewFile, bound
  <1>8. IntentInv'
    BY <1>a, <1>0, <1>2, <1>4 DEF IInv, Control, IntentInv, Writing, Clearing, EarlyState, Done,
       CreateNew, Goto, Create, NewFile, bound
  <1>9. PersistInv'
    BY <1>a, <1>0, <1>2, <1>4 DEF IInv, Control, PersistInv, EarlyState, CreateNew, Goto,
       Create, NewFile, bound
  <1>10. BuildInv'
    BY <1>a, <1>0, <1>2, <1>4 DEF IInv, Control, BuildInv, Building, Writing, PostUnlink,
       CreateNew, Goto, Create, NewFile, bound
  <1>11. QED
    BY <1>1, <1>2, <1>3, <1>5, <1>6, <1>7, <1>8, <1>9, <1>10 DEF IInv, Control, Same

\* An intent is appended only as one that may follow the last, when no other
\* directory can come back.
LEMMA PersistAppendKeeps ==
    ASSUME IInv, PersistAppend
    PROVE  IInv' /\ Same
  <1>t. Cur \in Dir /\ TypeOK /\ Stored /\ NoFile \notin File
    BY DirsFacts, Ranges DEF IInv
  <1>a. /\ Pending /\ Alone /\ Latest.pred = pred /\ Latest.repl = repl /\ Ready
        /\ handle = Cur.wal /\ Cur.wal # NoFile /\ after \in {"unlink", "resolve"}
        /\ \/ after = "resolve" /\ Cur.wal = repl /\ Latest.st = "PublishArmed" /\ want = "Checkpointed"
           \/ after = "resolve" /\ Cur.wal = repl /\ Latest.st = "Checkpointed" /\ want = "CleanupArmed"
           \/ after = "resolve" /\ Cur.wal = repl /\ Latest.st = "CleanupArmed" /\ want = "Cleaned"
           \/ after = "resolve" /\ Cur.wal = repl /\ Latest.st = "Cleaned" /\ want = "NamespaceDurable"
           \/ after = "unlink" /\ Latest.st = "Prepared" /\ want = "PublishArmed"
        /\ pred \in File /\ repl \in File /\ Known(pred) /\ Known(repl) /\ Good(Cur)
        /\ Cur.intent \in File /\ Cur.intent \notin {Cur.wal, pred, repl} /\ Fits(Latest, Cur)
    <2>1. /\ Pending /\ Alone /\ Latest.pred = pred /\ Latest.repl = repl /\ Ready
          /\ handle = Cur.wal /\ Cur.wal # NoFile /\ after \in {"unlink", "resolve"}
      BY DEF IInv, Control, PersistInv, GoalInv, HandleInv, PostUnlink, Writing, PersistAppend
    <2>2. \/ after = "resolve" /\ Cur.wal = repl /\ Latest.st = "PublishArmed" /\ want = "Checkpointed"
          \/ after = "resolve" /\ Cur.wal = repl /\ Latest.st = "Checkpointed" /\ want = "CleanupArmed"
          \/ after = "resolve" /\ Cur.wal = repl /\ Latest.st = "CleanupArmed" /\ want = "Cleaned"
          \/ after = "resolve" /\ Cur.wal = repl /\ Latest.st = "Cleaned" /\ want = "NamespaceDurable"
          \/ after = "unlink" /\ Latest.st = "Prepared" /\ want = "PublishArmed"
      BY <2>1 DEF IInv, Control, PersistInv, PersistAppend
    <2>3. QED
      BY <1>t, <2>1, <2>2, PendingFacts
  <1>p. pc' = "persistFlush" /\ Latest # Wanted
    <2>1. /\ Wanted.st = want /\ Wanted.pred = pred /\ Wanted.repl = repl
      BY DEF Wanted
    <2>2. Latest # Wanted
      BY <1>a, <2>1
    <2>3. ValidTransition(Latest, Wanted)
      BY <1>a, <2>1 DEF ValidTransition
    <2>4. QED
      BY <2>2, <2>3 DEF PersistAppend
  <1>i. /\ intents' = [intents EXCEPT ![Cur.intent] = Append(@, Wanted)]
        /\ intents'[Cur.intent] # <<>>
        /\ intents'[Cur.intent][Len(intents'[Cur.intent])] = Wanted
        /\ intents' \in [File -> Seq(Intent)]
    <2>1. intents' = [intents EXCEPT ![Cur.intent] = Append(@, Wanted)]
      BY <1>p DEF PersistAppend
    <2>2. intents \in [File -> Seq(Intent)] /\ want \in State
      BY <1>t DEF TypeOK
    <2>3. Wanted \in Intent
      BY <1>a, <2>2 DEF Wanted, Intent
    <2>4. PICK s \in Seq(Intent) : s = intents[Cur.intent]
      BY <1>a, <2>2
    <2>5. /\ Append(s, Wanted) \in Seq(Intent) /\ Append(s, Wanted) # <<>>
          /\ Append(s, Wanted)[Len(Append(s, Wanted))] = Wanted
      BY <2>3, <2>4
    <2>6. intents'[Cur.intent] = Append(s, Wanted)
      BY <1>a, <2>1, <2>2, <2>4
    <2>7. intents' \in [File -> Seq(Intent)]
      BY <2>1, <2>2, <2>4, <2>5
    <2>8. QED
      BY <2>1, <2>5, <2>6, <2>7
  <1>1. TypeOK'
    <2>1. DiskType /\ NumType /\ FileType /\ WordType
      BY TypeParts DEF IInv
    <2>2. DiskType'
      BY <1>i, <2>1 DEF DiskType, PersistAppend, proc, hist, bound
    <2>3. NumType'
      BY <2>1, WalAssumption DEF NumType, PersistAppend, proc, hist, bound
    <2>4. FileType'
      BY <2>1 DEF FileType, PersistAppend, proc, hist, bound
    <2>5. WordType'
      BY <1>p, <2>1 DEF WordType, Step, Goal, State, Result, PersistAppend, proc, hist, bound
    <2>6. QED
      BY <2>2, <2>3, <2>4, <2>5, TypePartsNext
  <1>2. /\ Stored' /\ Same /\ Cur' = Cur /\ Pending' /\ Latest' = Wanted /\ Alone'
        /\ (result' = result /\ before' = before => ResultInv')
    <2>1. /\ dirs' = dirs /\ wal' = wal /\ files' = files /\ acked' = acked
          /\ floor' = floor /\ written' = written
      BY DEF PersistAppend, proc, hist, bound
    <2>2. Cur' = Cur /\ Dirs' = Dirs /\ Pending'
      BY <1>a, <2>1 DEF Cur, Dirs, Pending
    <2>3. Alone'
      BY <1>a, <2>2 DEF Alone
    <2>4. Latest' = Wanted
      BY <1>i, <2>2 DEF Latest, Last
    <2>5. Rec(Cur)' = Wanted /\ Now' = Cur.wal /\ Now = Cur.wal
      <3>1. (Latest = Rec(Cur))'
        BY LatestIs, PTL
      <3>2. QED
        BY <1>a, <2>2, <2>4, <3>1 DEF Now, Read
    <2>6. /\ Wanted.st = want /\ Wanted.pred = pred /\ Wanted.repl = repl
      BY DEF Wanted
    <2> PICK c : c = Cur
      OBVIOUS
    <2>7. Dirs' = {c} /\ Dirs = {c} /\ c.wal = Cur.wal /\ c.intent = Cur.intent
      BY <1>a, <2>2 DEF Alone
    <2>8. Rec(c)' = Wanted /\ Read(c)' = c.wal /\ Read(c) = c.wal
      BY <1>a, <2>2, <2>5, <2>7 DEF Rec, Read
    <2>9. DirInv'
      <3>1. Fits(Wanted, c)
        BY <1>a, <2>6, <2>7 DEF Fits, EarlyState, Done
      <3>3. Fits(Rec(c), c)'
        BY <2>8, <3>1 DEF Fits
      <3>4. Emptied(Rec(c))'
        BY <1>a, <2>1, <2>6, <2>8 DEF Ready, Emptied
      <3>5. intents'[c.intent] # <<>>
        BY <1>i, <2>7
      <3>6. /\ Good(c) /\ Known(Rec(c).pred)' /\ Known(Rec(c).repl)'
            /\ c.intent \notin {c.wal, Rec(c)'.pred, Rec(c)'.repl}
        BY <1>a, <2>1, <2>6, <2>7, <2>8 DEF Known
      <3>7. Good(c)'
        BY <1>a, <2>1, <3>3, <3>4, <3>5, <3>6 DEF Good, Void, Known
      <3>8. QED
        BY <2>7, <3>7 DEF DirInv
    <2>10. Agree' /\ SettledInv'
      <3>1. \A e \in Dirs' : e = c
        BY <2>7
      <3>2. Agree'
        BY <2>5, <2>7, <2>8, <3>1 DEF Agree
      <3>3. QED
        BY <2>3, <3>2 DEF SettledInv
    <2>11. Unused' /\ DataInv'
      BY <1>t, <2>1, SameFile DEF Stored, Unused, DataInv, Durable, Decodes
    <2>12. Covers'
      <3>1. Kepts(acked) \subseteq DurItems(c.wal)
        BY <1>a, <1>t, <2>7, <2>8 DEF Stored, Covers
      <3>2. Kepts(acked)' = Kepts(acked) /\ DurItems(Read(c))' = DurItems(c.wal)
        BY <2>1, <2>8 DEF Kepts, DurItems
      <3>3. Kepts(Items(Read(c)))' \subseteq Items(Now)'
        BY <2>5, <2>7, <2>8 DEF Kepts, Items
      <3>4. QED
        BY <2>7, <3>1, <3>2, <3>3 DEF Covers
    <2>13. VoidInv'
      BY <1>t, <2>1, <2>2 DEF Stored, VoidInv, Void
    <2>14. Readable' = Readable
      <3>1. (Readable = IF Void(Cur) THEN {} ELSE Items(Now))'
        BY ReadableIs, PTL
      <3>2. QED
        BY <2>1, <2>2, <2>5, <3>1, ReadableIs DEF Void, Items
    <2>15. result' = result /\ before' = before => ResultInv'
      BY <2>7, <2>8 DEF IInv, ResultInv
    <2>16. QED
      BY <2>1, <2>2, <2>3, <2>4, <2>9, <2>10, <2>11, <2>12, <2>13, <2>14, <2>15 DEF Stored, Same
  <1>3. ResultInv'
    BY <1>2 DEF PersistAppend, proc, hist, bound
  <1>4. /\ Whole' = Whole /\ Synced' = Synced /\ Exact' = Exact /\ Existing' = Existing
        /\ Wanted' = Wanted /\ Wanted.st = want /\ Wanted.pred = pred
    BY SameProc DEF Wanted, PersistAppend, proc, hist, bound
  <1>5. HandleInv'
    BY <1>a, <1>p, <1>2, <1>4 DEF IInv, Control, HandleInv, PostUnlink, PersistAppend, proc,
       hist, bound
  <1>6. GoalInv'
    BY <1>a, <1>p, <1>2, <1>4 DEF IInv, Control, GoalInv, Step, Steps, Building, Writing,
       PostUnlink, Resuming, PersistAppend, proc, hist, bound
  <1>7. BeforeInv'
    BY <1>a, <1>p, <1>2, <1>4 DEF IInv, Control, BeforeInv, Writing, PostUnlink, EarlyState,
       PersistAppend, proc, hist, bound
  <1>8. IntentInv'
    BY <1>a, <1>p, <1>2, <1>4 DEF IInv, Control, IntentInv, Writing, Clearing, EarlyState, Done,
       PersistAppend, proc, hist, bound
  <1>9. PersistInv'
    BY <1>a, <1>p, <1>2, <1>4 DEF IInv, Control, PersistInv, EarlyState, PersistAppend, proc,
       hist, bound
  <1>10. BuildInv'
    BY <1>a, <1>p, <1>2, <1>4 DEF IInv, Control, BuildInv, Building, Writing, PostUnlink,
       PersistAppend, proc, hist, bound
  <1>11. QED
    BY <1>1, <1>2, <1>3, <1>5, <1>6, <1>7, <1>8, <1>9, <1>10 DEF IInv, Control, Same

\* Publishing the intent fails, and it may have been published.
LEMMA PrepareUncertainKeeps ==
    ASSUME IInv, PrepareFails, UNCHANGED <<dirs, files>>, result' = "BytesMayHavePersisted"
    PROVE  IInv' /\ Same
  <1>t. Cur \in Dir /\ TypeOK /\ Stored /\ Cur \in Dirs
    BY DirsFacts DEF IInv
  <1>a. /\ pc \in Writing /\ after = "link" /\ handle = Cur.wal /\ Cur.wal # NoFile
        /\ handle = before /\ Whole
        /\ goal = "build" /\ (pc # "persistDirFlush" => ~Pending)
        /\ (Pending => Latest.st = "Prepared" /\ Cur.wal = Latest.pred)
    BY DEF IInv, Control, HandleInv, GoalInv, BeforeInv, IntentInv, PersistInv, BuildInv,
       Building, Writing, PostUnlink, Wanted, PrepareFails, Persisting
  <1>1. TypeOK'
    <2>1. DiskType /\ NumType /\ FileType /\ WordType
      BY TypeParts DEF IInv
    <2>2. DiskType'
      BY <2>1 DEF DiskType, PrepareFails, Fault, proc
    <2>3. NumType'
      BY <2>1, WalAssumption DEF NumType, PrepareFails, Fault, proc
    <2>4. FileType'
      BY <2>1 DEF FileType, PrepareFails, Fault, proc
    <2>5. WordType'
      BY <2>1 DEF WordType, Step, Goal, State, Result, PrepareFails, Fault, proc
    <2>6. QED
      BY <2>2, <2>3, <2>4, <2>5, TypePartsNext
  <1>2. /\ Stored' /\ Same /\ Cur' = Cur /\ Pending' = Pending /\ Latest' = Latest
        /\ Alone' = Alone /\ (result' = result /\ before' = before => ResultInv')
    <2>1. floor' \in Nat /\ floor' >= floor
      BY Ranges DEF IInv, PrepareFails, Fault, proc
    <2>2. QED
      BY <1>1, <2>1, SameDiskFacts DEF Same, PrepareFails, Fault, disk, proc, hist, bound
  <1>3. ResultInv'
    BY DEF ResultInv
  <1>4. Whole' = Whole
    BY DEF Whole, NoTorn, PrepareFails, Fault, proc
  <1>5. HandleInv'
    BY <1>a, <1>2, <1>4 DEF IInv, Control, HandleInv, PostUnlink, PrepareFails, Fault, proc
  <1>6. GoalInv'
    BY <1>a, <1>2, <1>4 DEF IInv, Control, GoalInv, Step, Steps, Building, Writing, PostUnlink,
       Resuming, PrepareFails, Fault, proc
  <1>7. BeforeInv'
    BY <1>a, <1>2, <1>4 DEF IInv, Control, BeforeInv, Writing, PostUnlink, EarlyState,
       PrepareFails, Fault, proc
  <1>8. IntentInv'
    BY <1>a, <1>2, <1>4 DEF IInv, Control, IntentInv, Writing, Clearing, EarlyState, Done,
       PrepareFails, Fault, proc
  <1>9. PersistInv'
    BY <1>a, <1>2, <1>4 DEF IInv, Control, PersistInv, EarlyState, PrepareFails, Fault, proc
  <1>10. BuildInv'
    BY <1>a, <1>2, <1>4 DEF IInv, Control, BuildInv, Building, Writing, PostUnlink,
       PrepareFails, Fault, proc
  <1>11. QED
    BY <1>1, <1>2, <1>3, <1>5, <1>6, <1>7, <1>8, <1>9, <1>10 DEF IInv, Control, Same

\* Publishing the intent fails, and it was taken back: the log is what it was.
LEMMA PrepareRejectedKeeps ==
    ASSUME IInv, NEW S, PrepareFails, ~Pending, files' = files,
           dirs' = <<[Cur EXCEPT !.temps = @ \ S]>>, result' = "RejectedBeforeWrite"
    PROVE  IInv' /\ Same
  <1> PICK d : d = [Cur EXCEPT !.temps = @ \ S]
    OBVIOUS
  <1>t. Cur \in Dir /\ TypeOK /\ Stored /\ Cur \in Dirs
    BY DirsFacts DEF IInv
  <1>a. /\ pc \in Writing /\ after = "link" /\ handle = Cur.wal /\ Cur.wal # NoFile
        /\ handle = before /\ Whole
        /\ goal = "build" /\ (pc # "persistDirFlush" => ~Pending)
        /\ (Pending => Latest.st = "Prepared")
    BY DEF IInv, Control, HandleInv, GoalInv, BeforeInv, Building, Writing, PostUnlink, Wanted,
       PrepareFails, Persisting
  <1>0. /\ d \in Dir /\ dirs' = <<d>>
        /\ d.wal = Cur.wal /\ d.intent = Cur.intent /\ d.guards = Cur.guards
        /\ d.temps = Cur.temps \ S
    <2>1. d \in Dir
      BY <1>t DEF Dir
    <2>2. /\ d.wal = Cur.wal /\ d.intent = Cur.intent /\ d.guards = Cur.guards
          /\ d.temps = Cur.temps \ S
      BY <1>t DEF Dir
    <2>3. QED
      BY <2>1, <2>2
  <1>1. TypeOK'
    <2>1. DiskType /\ NumType /\ FileType /\ WordType
      BY TypeParts DEF IInv
    <2>2. DiskType'
      BY <1>0, <2>1, Replaced DEF DiskType, PrepareFails, Fault, proc
    <2>3. NumType'
      BY <2>1, WalAssumption DEF NumType, PrepareFails, Fault, proc
    <2>4. FileType'
      BY <2>1 DEF FileType, PrepareFails, Fault, proc
    <2>5. WordType'
      BY <2>1 DEF WordType, Step, Goal, State, Result, PrepareFails, Fault, proc
    <2>6. QED
      BY <2>2, <2>3, <2>4, <2>5, TypePartsNext
  <1>2. Stored' /\ Same /\ Cur' = d /\ Dirs' = {d} /\ ~Pending' /\ Read(d)' = Cur.wal
    <2>1. Cur' = d /\ Dirs' = {d} /\ Len(dirs') = 1
      BY <1>0, Replaced
    <2>2. /\ wal' = wal /\ intents' = intents /\ files' = files /\ acked' = acked
          /\ floor' = floor /\ written' = written
      BY DEF PrepareFails, Fault, proc
    <2>3. /\ Read(d)' = Cur.wal /\ Now' = Cur.wal /\ Now = Cur.wal /\ ~Void(d) /\ ~Void(Cur)
          /\ d.intent = NoFile
      BY <1>0, <1>a, <2>1 DEF Read, Now, Void, Pending
    <2>4. ~Pending'
      BY <2>1, <2>3 DEF Pending
    <2>5. DirInv'
      <3>1. Good(Cur) /\ Cur.intent = NoFile
        BY <1>a, <1>t, IdleFacts DEF Pending
      <3>2. Good(d)
        BY <1>0, <1>a, <3>1 DEF Good, Void
      <3>3. Good(d)'
        BY <2>2, <2>3, <3>2 DEF Good, Void, Known
      <3>4. QED
        BY <2>1, <3>3 DEF DirInv
    <2>6. Agree' /\ SettledInv'
      BY <2>1, <2>3 DEF Agree, SettledInv
    <2>7. Unused' /\ DataInv'
      BY <1>t, <2>2, SameFile DEF Stored, Unused, DataInv, Durable, Decodes
    <2>8. Covers'
      <3> PICK h : h = Cur.wal
        OBVIOUS
      <3>1. Kepts(acked) \subseteq DurItems(h)
        BY <1>a, <1>t, <2>3 DEF Stored, Covers, Now
      <3>2. Kepts(acked)' = Kepts(acked) /\ DurItems(Read(d))' = DurItems(h)
        BY <2>2, <2>3 DEF Kepts, DurItems
      <3>3. Kepts(Items(Read(d)))' \subseteq Items(Now)'
        BY <2>3 DEF Kepts, Items
      <3>4. QED
        BY <2>1, <3>1, <3>2, <3>3 DEF Covers
    <2>9. VoidInv'
      <3>1. \A i, j \in 1 .. 1 : ~(i < j)
        OBVIOUS
      <3>2. QED
        BY <2>1, <2>3, <3>1 DEF VoidInv, Void
    <2>10. Readable' = Readable
      <3>1. (Readable = IF Void(Cur) THEN {} ELSE Items(Now))'
        BY ReadableIs, PTL
      <3>2. ~Void(Cur)'
        BY <2>1, <2>3 DEF Void
      <3>3. QED
        BY <2>2, <2>3, <3>1, <3>2, ReadableIs DEF Items
    <2>11. QED
      BY <2>1, <2>2, <2>3, <2>4, <2>5, <2>6, <2>7, <2>8, <2>9, <2>10 DEF Stored, Same
  <1>3. ResultInv'
    BY <1>a, <1>2 DEF ResultInv, PrepareFails, Fault, proc
  <1>4. Whole' = Whole
    BY DEF Whole, NoTorn, PrepareFails, Fault, proc
  <1>5. HandleInv'
    BY <1>a, <1>0, <1>2, <1>4 DEF IInv, Control, HandleInv, PostUnlink, PrepareFails, Fault,
       proc
  <1>6. GoalInv'
    BY <1>a, <1>0, <1>2, <1>4 DEF IInv, Control, GoalInv, Step, Steps, Building, Writing,
       PostUnlink, Resuming, PrepareFails, Fault, proc
  <1>7. BeforeInv'
    BY <1>a, <1>0, <1>2, <1>4 DEF IInv, Control, BeforeInv, Writing, PostUnlink, EarlyState,
       PrepareFails, Fault, proc
  <1>8. IntentInv'
    BY <1>a, <1>0, <1>2, <1>4 DEF IInv, Control, IntentInv, Writing, Clearing, EarlyState, Done,
       PrepareFails, Fault, proc
  <1>9. PersistInv'
    BY <1>a, <1>0, <1>2, <1>4 DEF IInv, Control, PersistInv, EarlyState, PrepareFails, Fault,
       proc
  <1>10. BuildInv'
    BY <1>a, <1>0, <1>2, <1>4 DEF IInv, Control, BuildInv, Building, Writing, PostUnlink,
       PrepareFails, Fault, proc
  <1>11. QED
    BY <1>1, <1>2, <1>3, <1>5, <1>6, <1>7, <1>8, <1>9, <1>10 DEF IInv, Control, Same

\* The intent is not created, and the directory is not flushed.
LEMMA PrepareGoneKeeps ==
    ASSUME IInv, PrepareFails, pc = "persist", Orphan \/ UNCHANGED <<dirs, files>>,
           result' = "RejectedBeforeWrite"
    PROVE  IInv' /\ Same
  <1>a. /\ ~Pending /\ Cur.wal # NoFile /\ handle = Cur.wal /\ handle = before /\ Whole
        /\ goal = "build" /\ after = "link"
    BY DEF IInv, Control, HandleInv, GoalInv, BeforeInv, PersistInv, Building, Writing,
       PostUnlink, PrepareFails
  <1>1. NumType' /\ FileType' /\ WordType'
    <2>1. NumType /\ FileType /\ WordType
      BY TypeParts DEF IInv
    <2>2. NumType'
      BY <2>1, WalAssumption DEF NumType, PrepareFails, Fault, proc
    <2>3. FileType'
      BY <2>1 DEF FileType, PrepareFails, proc
    <2>4. WordType'
      BY <2>1 DEF WordType, Step, Result, PrepareFails, proc
    <2>5. QED
      BY <2>2, <2>3, <2>4
  <1>2. /\ TypeOK' /\ Stored' /\ Same /\ Cur'.wal = Cur.wal /\ ~Pending'
        /\ \A d \in Dirs' : Read(d)' \in {NoFile, Cur.wal}
    <2>1. CASE Orphan
      BY <1>1, <1>a, <2>1, OrphanFacts DEF PrepareFails, proc
    <2>2. CASE UNCHANGED <<dirs, files>>
      <3>1. DiskType /\ TypeOK /\ Stored /\ floor \in Nat
        BY TypeParts, Ranges DEF IInv
      <3>2. TypeOK'
        BY <1>1, <2>2, <3>1, TypePartsNext DEF DiskType, PrepareFails
      <3>3. floor' \in Nat /\ floor' >= floor
        BY <3>1 DEF PrepareFails
      <3>4. Stored' /\ Same /\ Cur' = Cur /\ Dirs' = Dirs /\ Pending' = Pending
        BY <2>2, <3>2, <3>3, SameDiskFacts DEF Same, disk, PrepareFails
      <3>5. ~Mixed
        BY <1>a DEF Mixed
      <3>6. \A d \in Dirs' : Read(d)' \in {NoFile, Cur.wal}
        BY <1>a, <2>2, <3>1, <3>4, <3>5, OpenFacts, SameView DEF PrepareFails
      <3>7. QED
        BY <1>a, <3>2, <3>4, <3>6
    <2>3. QED
      BY <2>1, <2>2
  <1>3. ResultInv'
    BY <1>a, <1>2 DEF ResultInv, PrepareFails
  <1>4. Whole'
    BY <1>a DEF Whole, NoTorn, PrepareFails, proc
  <1>5. Control'
    BY <1>a, <1>2, <1>4 DEF IInv, Control, HandleInv, GoalInv, BeforeInv, IntentInv, PersistInv,
       BuildInv, Building, Writing, PostUnlink, Clearing, Resuming, Step, Steps, PrepareFails, proc
  <1>6. QED
    BY <1>2, <1>3, <1>5 DEF IInv

\* Publishing the intent fails.
LEMMA PrepareFailsKeeps ==
    ASSUME IInv, PrepareFails
    PROVE  IInv' /\ Same
  <1>1. CASE UNCHANGED <<dirs, files>> /\ result' = "BytesMayHavePersisted"
    BY <1>1, PrepareUncertainKeeps
  <1>2. CASE /\ pc = "persist" /\ result' = "RejectedBeforeWrite"
             /\ Orphan \/ UNCHANGED <<dirs, files>>
    BY <1>2, PrepareGoneKeeps
  <1>3. CASE /\ pc = "persist" /\ result' = "RejectedBeforeWrite" /\ DirFlush /\ UNCHANGED files
    <2>1. ~Pending /\ Cur \in Dir
      BY <1>3, DirsFacts DEF IInv, Control, PersistInv, PrepareFails
    <2>2. Cur.temps \ {} = Cur.temps
      OBVIOUS
    <2>3. dirs' = <<[Cur EXCEPT !.temps = @ \ {}]>>
      BY <1>3, <2>1, <2>2 DEF DirFlush, Dir
    <2>4. QED
      BY <1>3, <2>1, <2>3, PrepareRejectedKeeps
  <1>4. CASE /\ pc = "persistRename" /\ result' = "RejectedBeforeWrite" /\ UNCHANGED files
             /\ dirs' = <<[Cur EXCEPT !.temps = @ \ {files}]>>
    <2>1. ~Pending
      BY <1>4 DEF IInv, Control, PersistInv
    <2>2. QED
      BY <1>4, <2>1, PrepareRejectedKeeps
  <1>5. QED
    BY <1>1, <1>2, <1>3, <1>4 DEF PrepareFails

---------------------------------------------------------------------------
(* Steps that write to a log file.                                         *)

\* One log file is written to, and stays as the directories need it.
LEMMA WroteFacts ==
    ASSUME IInv, TypeOK', NEW h \in File, Known(h), \A f \in File : f # h => wal'[f] = wal[f],
           Dirs' \subseteq Dirs, Cur' = Cur, intents' = intents, files' = files,
           written' >= written, wal'[h].dur <= Len(wal'[h].data), Len(wal'[h].data) <= written',
           \A i \in 1 .. Len(wal'[h].data) : wal'[h].data[i] <= written', Decodes(h)',
           \/ wal[h].data = <<>> => wal'[h].data = <<>>
           \/ \A d \in Dirs : d.intent # NoFile /\ Rec(d).st \in Done => Rec(d).pred # h
    PROVE  /\ DirInv' /\ Agree' /\ SettledInv' /\ Unused' /\ DataInv'
           /\ Pending' = Pending /\ Latest' = Latest /\ Now' = Now /\ (Alone => Alone')
           /\ (result' = result /\ before' = before => ResultInv')
  <1>0. /\ Pending' = Pending /\ Latest' = Latest /\ Now' = Now /\ Mixed' = Mixed
        /\ \A d : Rec(d)' = Rec(d) /\ Read(d)' = Read(d) /\ Void(d)' = Void(d)
    BY SameView
  <1>t. /\ TypeOK /\ Stored /\ Cur' \in Dirs' /\ files \in Nat /\ written \in Nat
        /\ written' \in Nat
        /\ Dirs \subseteq Dir /\ files <= MaxFiles /\ MaxFiles \in Nat
    <2>1. written' \in 0 .. MaxRecords /\ MaxRecords \in Nat
      BY TypePartsNext, WalAssumption DEF NumType
    <2>2. written' \in Nat
      BY <2>1
    <2>3. QED
      BY <2>2, DirsFacts, DirsFactsNext, Ranges DEF IInv
  <1>1. DirInv'
    <2> SUFFICES ASSUME NEW d \in Dirs'
                 PROVE  Good(d)'
      BY DEF DirInv
    <2>1. Good(d) /\ d \in Dirs
      BY <1>t DEF Stored, DirInv
    <2>2. d.intent # NoFile => Emptied(Rec(d))'
      <3> SUFFICES ASSUME d.intent # NoFile, Rec(d).st \in Done
                   PROVE  wal'[Rec(d).pred].data = <<>>
        BY <1>0 DEF Emptied
      <3>1. Rec(d).pred \in File /\ wal[Rec(d).pred].data = <<>>
        BY <1>t, <2>1 DEF Good, Known, Emptied, File
      <3>2. QED
        BY <2>1, <3>1
    <2>3. QED
      BY <1>0, <2>1, <2>2 DEF Good, Void, Known, Fits
  <1>2. Agree'
    BY <1>0, <1>t DEF Stored, Agree
  <1>3. Alone => Alone'
    BY <1>t DEF Alone
  <1>4. SettledInv'
    BY <1>0, <1>3, <1>t DEF Stored, SettledInv
  <1>5. Unused'
    <2>1. \A f \in File : f > files => f # h
      BY <1>t DEF Known
    <2>2. QED
      BY <1>t, <2>1 DEF Stored, Unused, Durable
  <1>6. DataInv'
    <2> SUFFICES ASSUME NEW f \in File, f # h
                 PROVE  /\ wal'[f].dur <= Len(wal'[f].data) /\ Len(wal'[f].data) <= written'
                        /\ \A i \in 1 .. Len(wal'[f].data) : wal'[f].data[i] <= written'
                        /\ Decodes(f)'
      BY DEF DataInv
    <2>1. /\ wal[f].dur <= Len(wal[f].data) /\ Len(wal[f].data) <= written
          /\ \A i \in 1 .. Len(wal[f].data) : wal[f].data[i] <= written
          /\ Decodes(f)
      BY <1>t DEF Stored, DataInv
    <2>2. /\ Len(wal[f].data) \in Nat
          /\ \A i \in 1 .. Len(wal[f].data) : wal[f].data[i] \in Nat
      <3>1. /\ Len(wal[f].data) \in Nat /\ MaxRecords \in Nat
            /\ \A i \in 1 .. Len(wal[f].data) : wal[f].data[i] \in 0 .. MaxRecords
        BY <1>t, FileRanges, WalAssumption
      <3>2. QED
        BY <3>1
    <2>3. Decodes(f)'
      BY <2>1, SameFile
    <2>4. /\ Len(wal[f].data) <= written'
          /\ \A i \in 1 .. Len(wal[f].data) : wal[f].data[i] <= written'
      BY <1>t, <2>1, <2>2
    <2>5. QED
      BY <2>1, <2>3, <2>4
  <1>7. result' = result /\ before' = before => ResultInv'
    BY <1>0 DEF IInv, ResultInv
  <1>8. QED
    BY <1>0, <1>1, <1>2, <1>3, <1>4, <1>5, <1>6, <1>7

\* The open log is the only file that is read: what was acknowledged must be
\* durable in it.
LEMMA CoversOpen ==
    ASSUME IInv, NEW h \in File, Cur.wal = h, ~Mixed \/ Alone, Dirs' \subseteq Dirs, Cur' = Cur,
           intents' = intents, Kepts(acked)' \subseteq DurItems(h)'
    PROVE  Covers'
  <1> SUFFICES ASSUME NEW d \in Dirs', Read(d)' # NoFile
               PROVE  /\ Kepts(acked)' \subseteq DurItems(Read(d))'
                      /\ Kepts(Items(Read(d)))' \subseteq Items(Now)'
    BY DEF Covers
  <1>1. TypeOK /\ Stored /\ h # NoFile
    BY Ranges DEF IInv
  <1>2. Read(d)' = Read(d) /\ Now' = Now
    BY SameView
  <1>3. Now = h
    BY <1>1, OpenFacts
  <1>4. Read(d) = h
    BY <1>1, <1>2, <1>3, OpenFacts DEF Alone, Now
  <1>5. DurItems(Read(d))' = DurItems(h)'
    BY <1>2, <1>4 DEF DurItems
  <1>6. Kepts(Items(Read(d)))' \subseteq Items(Now)'
    BY <1>2, <1>3, <1>4 DEF Kepts, Items
  <1>7. QED
    BY <1>5, <1>6

\* What a reader is given of the open log.
LEMMA ReadableOpen ==
    ASSUME TypeOK, Stored, NEW h \in File, Cur.wal = h, Cur' = Cur
    PROVE  Readable = Items(h) /\ Readable' = Items(h)'
  <1>1. h # NoFile
    BY Ranges
  <1>2. Readable = Items(h)
    BY <1>1 DEF Readable
  <1>3. Readable' = Items(Cur.wal)'
    BY <1>1 DEF Readable
  <1>4. QED
    BY <1>2, <1>3 DEF Items

\* The open log is flushed.
LEMMA FlushedLog ==
    ASSUME IInv, TypeOK', NEW h \in File, Cur.wal = h, ~Mixed \/ Alone, FlushFile(h),
           intents' = intents, files' = files, floor' = floor, written' = written,
           acked' \in {acked, acked \cup Items(h)}
    PROVE  /\ Stored' /\ Readable' = Readable /\ Readable = Items(h)
           /\ Cur' = Cur /\ Pending' = Pending /\ Latest' = Latest /\ (Alone => Alone')
           /\ (result' = result /\ before' = before => ResultInv')
           /\ \A f \in File : Items(f)' = Items(f) /\ NoTorn(f)' = NoTorn(f) /\ wal'[f].data = wal[f].data
           /\ \A f \in File : wal[f].dur = Len(wal[f].data) => wal'[f].dur = Len(wal'[f].data)
  <1>t. TypeOK /\ Stored /\ Known(h)
    <2>1. h # NoFile
      BY Ranges DEF IInv
    <2>2. QED
      BY <2>1, OpenFacts DEF IInv
  <1>w. /\ \A f \in File : f # h => wal'[f] = wal[f]
        /\ wal'[h].data = wal[h].data /\ wal'[h].dur = Len(wal[h].data)
    BY <1>t DEF FlushFile, TypeOK
  <1>1. Cur' = Cur /\ Dirs' \subseteq Dirs /\ VoidInv'
    BY <1>t, Trimmed DEF FlushFile
  <1>2. /\ wal[h].dur <= Len(wal[h].data) /\ Len(wal[h].data) <= written
        /\ \A i \in 1 .. Len(wal[h].data) : wal[h].data[i] <= written
        /\ Decodes(h)
    BY <1>t DEF Stored, DataInv
  <1>3. /\ Len(wal[h].data) \in Nat /\ wal[h].dur \in Nat /\ written \in Nat
    BY <1>t, FileRanges, Ranges
  <1>4. Decodes(h)'
    BY <1>2, <1>w DEF Decodes
  <1>5. /\ DirInv' /\ Agree' /\ SettledInv' /\ Unused' /\ DataInv'
        /\ Pending' = Pending /\ Latest' = Latest /\ (Alone => Alone')
        /\ (result' = result /\ before' = before => ResultInv')
    <2>1. /\ written' >= written /\ wal'[h].dur <= Len(wal'[h].data)
          /\ Len(wal'[h].data) <= written'
          /\ \A i \in 1 .. Len(wal'[h].data) : wal'[h].data[i] <= written'
          /\ wal[h].data = <<>> => wal'[h].data = <<>>
      BY <1>2, <1>3, <1>w
    <2>2. QED
      BY <1>1, <1>4, <1>t, <1>w, <2>1, WroteFacts
  <1>6. \A f \in File : /\ Items(f)' = Items(f) /\ NoTorn(f)' = NoTorn(f) /\ wal'[f].data = wal[f].data
                        /\ wal[f].dur = Len(wal[f].data) => wal'[f].dur = Len(wal'[f].data)
    <2> TAKE f \in File
    <2>1. wal'[f].data = wal[f].data
      BY <1>w
    <2>2. wal[f].dur = Len(wal[f].data) => wal'[f].dur = Len(wal'[f].data)
      BY <1>w
    <2>3. QED
      BY <2>1, <2>2 DEF Items, NoTorn
  <1>7. Covers'
    <2>1. Kepts(acked) \subseteq DurItems(h)
      <3>1. Cur \in Dirs /\ Read(Cur) = h /\ h # NoFile
        BY <1>t, DirsFacts, OpenFacts, Ranges DEF Now
      <3>2. QED
        BY <1>t, <3>1 DEF Stored, Covers
    <2>2. DurItems(h) \subseteq DurItems(h)' /\ Items(h) \subseteq DurItems(h)'
      <3>1. \A i \in 1 .. wal[h].dur : i \in 1 .. Len(wal[h].data)
        BY <1>2, <1>3
      <3>2. QED
        BY <1>w, <3>1 DEF DurItems, Items
    <2>3. Kepts(acked)' \subseteq DurItems(h)'
      <3>1. Kepts(acked)' \subseteq Kepts(acked) \cup Items(h)
        BY DEF Kepts
      <3>2. QED
        BY <2>1, <2>2, <3>1
    <2>4. QED
      BY <1>1, <2>3, CoversOpen
  <1>8. Readable' = Readable /\ Readable = Items(h)
    BY <1>1, <1>6, <1>t, ReadableOpen
  <1>9. QED
    BY <1>1, <1>5, <1>6, <1>7, <1>8 DEF Stored

\* A flush acknowledges what the log holds.
LEMMA FlushPendingAppendsKeeps ==
    ASSUME IInv, FlushPendingAppends
    PROVE  IInv' /\ acked' = acked \cup Readable /\ floor' = floor /\ Readable' = Readable
  <1>t. TypeOK /\ Stored
    BY DEF IInv
  <1> PICK h : h = handle
    OBVIOUS
  <1>a. /\ Cur.wal = h /\ h \in File /\ FlushFile(h) /\ (~Mixed \/ Alone)
        /\ pc = "ready"
    <2>1. Cur.wal = h /\ h # NoFile /\ FlushFile(h) /\ (~Mixed \/ Alone) /\ pc = "ready"
      BY <1>t DEF IInv, Control, HandleInv, IntentInv, Writing, PostUnlink, Mixed,
         FlushPendingAppends
    <2>2. QED
      BY <1>t, <2>1, OpenFacts
  <1>1. TypeOK'
    <2>1. DiskType /\ NumType /\ FileType /\ WordType
      BY TypeParts DEF IInv
    <2>2. DiskType'
      <3>1. dirs' \in Seq(Dir) /\ Len(dirs') > 0
        BY <1>a, <1>t, Trimmed DEF FlushFile, FlushPendingAppends, proc, bound
      <3>2. Len(wal[h].data) \in 0 .. MaxRecords
        BY <1>a, <1>t, FileRanges, Ranges DEF Stored, DataInv
      <3>3. wal' \in [File -> [data : Seq(0 .. MaxRecords), dur : 0 .. MaxRecords]]
        <4> DEFINE R == [data : Seq(0 .. MaxRecords), dur : 0 .. MaxRecords]
        <4>1. wal \in [File -> R] /\ h \in File
          BY <1>a, <2>1 DEF DiskType
        <4>2. wal' = [wal EXCEPT ![h].dur = Len(wal[h].data)]
          BY <1>a DEF FlushFile
        <4>3. [wal[h] EXCEPT !.dur = Len(wal[h].data)] \in R
          BY <3>2, <4>1
        <4>4. wal' = [wal EXCEPT ![h] = [wal[h] EXCEPT !.dur = Len(wal[h].data)]]
          BY <4>1, <4>2
        <4>5. QED
          BY <4>1, <4>3, <4>4
      <3>4. QED
        BY <2>1, <3>1, <3>3 DEF DiskType, FlushPendingAppends, proc, bound
    <2>3. NumType'
      BY <1>a, <1>t, <2>1, FileRanges, WalAssumption DEF NumType, FlushPendingAppends, proc,
         bound
    <2>4. FileType'
      BY <2>1 DEF FileType, FlushPendingAppends, proc, bound
    <2>5. WordType'
      BY <2>1 DEF WordType, Step, Goal, State, Result, FlushPendingAppends, proc, bound
    <2>6. QED
      BY <2>2, <2>3, <2>4, <2>5, TypePartsNext
  <1>2. /\ Stored' /\ Readable' = Readable /\ Readable = Items(h)
        /\ Cur' = Cur /\ Pending' = Pending /\ Latest' = Latest /\ (Alone => Alone')
        /\ (result' = result /\ before' = before => ResultInv')
        /\ \A f \in File : Items(f)' = Items(f) /\ NoTorn(f)' = NoTorn(f) /\ wal'[f].data = wal[f].data
        /\ \A f \in File : wal[f].dur = Len(wal[f].data) => wal'[f].dur = Len(wal'[f].data)
    BY <1>1, <1>a, FlushedLog DEF FlushPendingAppends, proc, bound
  <1>3. ResultInv'
    BY <1>2 DEF FlushPendingAppends, proc, bound
  <1>4. Whole' = Whole
    <2>1. handle' = h /\ handle = h
      BY DEF FlushPendingAppends, proc, bound
    <2>2. QED
      BY <1>a, <1>2, <2>1 DEF Whole, NoTorn
  <1>5. HandleInv'
    BY <1>a, <1>2, <1>4 DEF IInv, Control, HandleInv, PostUnlink, FlushPendingAppends, proc,
       bound
  <1>6. GoalInv'
    BY <1>a, <1>2, <1>4 DEF IInv, Control, GoalInv, Step, Steps, Building, Writing, PostUnlink,
       Resuming, FlushPendingAppends, proc, bound
  <1>7. BeforeInv'
    BY <1>a, <1>2, <1>4 DEF IInv, Control, BeforeInv, Writing, PostUnlink, EarlyState,
       FlushPendingAppends, proc, bound
  <1>8. IntentInv'
    BY <1>a, <1>2, <1>4 DEF IInv, Control, IntentInv, Writing, Clearing, EarlyState, Done,
       FlushPendingAppends, proc, bound
  <1>9. PersistInv'
    BY <1>a, <1>2, <1>4 DEF IInv, Control, PersistInv, EarlyState, FlushPendingAppends, proc,
       bound
  <1>10. BuildInv'
    BY <1>a, <1>2, <1>4 DEF IInv, Control, BuildInv, Building, Writing, PostUnlink,
       FlushPendingAppends, proc, bound
  <1>11. QED
    BY <1>1, <1>2, <1>3, <1>5, <1>6, <1>7, <1>8, <1>9, <1>10 DEF IInv, Control,
       FlushPendingAppends

\* The log is flushed before the intent is armed.
LEMMA ArmPublishKeeps ==
    ASSUME IInv, ArmPublish
    PROVE  IInv' /\ Same
  <1>t. TypeOK /\ Stored
    BY DEF IInv
  <1> PICK h : h = handle
    OBVIOUS
  <1>a. /\ Cur.wal = h /\ h \in File /\ FlushFile(h) /\ (~Mixed \/ Alone)
        /\ pc = "arm" /\ Alone /\ Pending /\ Latest.pred = pred /\ Latest.repl = repl
        /\ Existing /\ Synced /\ Exact
    <2>1. /\ Cur.wal = h /\ h # NoFile /\ FlushFile(h) /\ (~Mixed \/ Alone) /\ pc = "arm"
          /\ Alone /\ Pending /\ Latest.pred = pred /\ Latest.repl = repl /\ Existing /\ Synced
          /\ Exact
      BY <1>t DEF IInv, Control, HandleInv, BuildInv, Building, Writing, PostUnlink, Mixed,
         ArmPublish, Persist
    <2>2. QED
      BY <1>t, <2>1, OpenFacts
  <1>1. TypeOK'
    <2>1. DiskType /\ NumType /\ FileType /\ WordType
      BY TypeParts DEF IInv
    <2>2. DiskType'
      <3>1. dirs' \in Seq(Dir) /\ Len(dirs') > 0
        BY <1>a, <1>t, Trimmed DEF FlushFile, ArmPublish, Persist, hist, bound
      <3>2. Len(wal[h].data) \in 0 .. MaxRecords
        BY <1>a, <1>t, FileRanges, Ranges DEF Stored, DataInv
      <3>3. wal' \in [File -> [data : Seq(0 .. MaxRecords), dur : 0 .. MaxRecords]]
        <4> DEFINE R == [data : Seq(0 .. MaxRecords), dur : 0 .. MaxRecords]
        <4>1. wal \in [File -> R] /\ h \in File
          BY <1>a, <2>1 DEF DiskType
        <4>2. wal' = [wal EXCEPT ![h].dur = Len(wal[h].data)]
          BY <1>a DEF FlushFile
        <4>3. [wal[h] EXCEPT !.dur = Len(wal[h].data)] \in R
          BY <3>2, <4>1
        <4>4. wal' = [wal EXCEPT ![h] = [wal[h] EXCEPT !.dur = Len(wal[h].data)]]
          BY <4>1, <4>2
        <4>5. QED
          BY <4>1, <4>3, <4>4
      <3>4. QED
        BY <2>1, <3>1, <3>3 DEF DiskType, ArmPublish, Persist, hist, bound
    <2>3. NumType'
      BY <2>1, WalAssumption DEF NumType, ArmPublish, Persist, hist, bound
    <2>4. FileType'
      BY <2>1 DEF FileType, ArmPublish, Persist, hist, bound
    <2>5. WordType'
      BY <2>1 DEF WordType, Step, Goal, State, Result, ArmPublish, Persist, hist, bound
    <2>6. QED
      BY <2>2, <2>3, <2>4, <2>5, TypePartsNext
  <1>2. /\ Stored' /\ Readable' = Readable /\ Readable = Items(h)
        /\ Cur' = Cur /\ Pending' = Pending /\ Latest' = Latest /\ (Alone => Alone')
        /\ (result' = result /\ before' = before => ResultInv')
        /\ \A f \in File : Items(f)' = Items(f) /\ NoTorn(f)' = NoTorn(f) /\ wal'[f].data = wal[f].data
        /\ \A f \in File : wal[f].dur = Len(wal[f].data) => wal'[f].dur = Len(wal'[f].data)
    BY <1>1, <1>a, FlushedLog DEF ArmPublish, Persist, hist, bound
  <1>3. ResultInv'
    BY <1>2 DEF ArmPublish, Persist, hist, bound
  <1>4. /\ Whole' = Whole /\ Synced' /\ Exact' /\ Existing' = Existing /\ Ready'
        /\ want' = "PublishArmed"
    <2>1. handle' = h /\ handle = h /\ pred' = pred /\ repl' = repl /\ files' = files /\ floor' = floor
          /\ want' = "PublishArmed"
      BY DEF ArmPublish, Persist, hist, bound
    <2>2. Whole' = Whole
      BY <1>a, <1>2, <2>1 DEF Whole, NoTorn
    <2>3. pred \in File /\ repl \in File
      BY <1>a, <1>t, PendingFacts
    <2>4. Synced'
      BY <1>a, <1>2, <2>1, <2>3 DEF Synced, NoTorn
    <2>5. Exact'
      <3>1. wal'[pred].data = wal[pred].data /\ wal'[repl].data = wal[repl].data
        BY <1>2, <2>3
      <3>2. QED
        BY SMTT(30), <1>a, <2>1, <3>1 DEF Exact, Items, Kepts
    <2>6. Ready'
      BY <2>1 DEF Ready, Emptied, Wanted, Done
    <2>7. Existing' = Existing
      BY <2>1 DEF Existing, Known
    <2>8. QED
      BY <2>1, <2>2, <2>4, <2>5, <2>6, <2>7
  <1>5. HandleInv'
    BY <1>a, <1>2, <1>4 DEF IInv, Control, HandleInv, PostUnlink, ArmPublish, Persist, hist,
       bound
  <1>6. GoalInv'
    BY <1>a, <1>2, <1>4 DEF IInv, Control, GoalInv, Step, Steps, Building, Writing, PostUnlink,
       Resuming, State, ArmPublish, Persist, hist, bound
  <1>7. BeforeInv'
    BY <1>a, <1>2, <1>4 DEF IInv, Control, BeforeInv, Writing, PostUnlink, EarlyState,
       ArmPublish, Persist, hist, bound
  <1>8. IntentInv'
    BY <1>a, <1>2, <1>4 DEF IInv, Control, GoalInv, IntentInv, Step, Steps, Building, Writing,
       PostUnlink, Clearing, Resuming, EarlyState, Done, ArmPublish, Persist, hist, bound
  <1>9. PersistInv'
    BY <1>a, <1>2, <1>4 DEF IInv, Control, BuildInv, PersistInv, Building, Writing, PostUnlink,
       EarlyState, ArmPublish, Persist, hist, bound
  <1>10. BuildInv'
    BY <1>a, <1>2, <1>4 DEF IInv, Control, BuildInv, Building, Writing, PostUnlink, ArmPublish,
       Persist, hist, bound
  <1>11. QED
    BY <1>1, <1>2, <1>3, <1>5, <1>6, <1>7, <1>8, <1>9, <1>10 DEF IInv, Control, Same,
       ArmPublish, hist

\* The replacement is opened as the log.
LEMMA ReopenKeeps ==
    ASSUME IInv, Reopen
    PROVE  IInv' /\ Same
  <1>t. TypeOK /\ Stored
    BY DEF IInv
  <1> PICK h : h = Cur.wal
    OBVIOUS
  <1>a. /\ Cur.wal = h /\ h \in File /\ FlushFile(h) /\ (~Mixed \/ Alone)
        /\ pc = "reopen" /\ Alone /\ h = repl /\ repl # pred /\ pred = before /\ Existing
        /\ Synced /\ Pending
    <2>1. /\ Cur.wal = h /\ h # NoFile /\ FlushFile(h) /\ (~Mixed \/ Alone) /\ pc = "reopen"
          /\ Alone /\ h = repl /\ repl # pred /\ pred = before /\ Existing /\ Synced /\ Pending
      BY <1>t, PendingFacts, Ranges DEF IInv, Control, BuildInv, Building, Writing, PostUnlink,
         Mixed, Reopen, Goto
    <2>2. QED
      BY <1>t, <2>1, OpenFacts
  <1>1. TypeOK'
    <2>1. DiskType /\ NumType /\ FileType /\ WordType
      BY TypeParts DEF IInv
    <2>2. DiskType'
      <3>1. dirs' \in Seq(Dir) /\ Len(dirs') > 0
        BY <1>a, <1>t, Trimmed DEF FlushFile, Reopen, Goto, hist, bound
      <3>2. Len(wal[h].data) \in 0 .. MaxRecords
        BY <1>a, <1>t, FileRanges, Ranges DEF Stored, DataInv
      <3>3. wal' \in [File -> [data : Seq(0 .. MaxRecords), dur : 0 .. MaxRecords]]
        <4> DEFINE R == [data : Seq(0 .. MaxRecords), dur : 0 .. MaxRecords]
        <4>1. wal \in [File -> R] /\ h \in File
          BY <1>a, <2>1 DEF DiskType
        <4>2. wal' = [wal EXCEPT ![h].dur = Len(wal[h].data)]
          BY <1>a DEF FlushFile
        <4>3. [wal[h] EXCEPT !.dur = Len(wal[h].data)] \in R
          BY <3>2, <4>1
        <4>4. wal' = [wal EXCEPT ![h] = [wal[h] EXCEPT !.dur = Len(wal[h].data)]]
          BY <4>1, <4>2
        <4>5. QED
          BY <4>1, <4>3, <4>4
      <3>4. QED
        BY <2>1, <3>1, <3>3 DEF DiskType, Reopen, Goto, hist, bound
    <2>3. NumType'
      BY <2>1, WalAssumption DEF NumType, Reopen, Goto, hist, bound
    <2>4. FileType'
      BY <1>a, <2>1 DEF FileType, Reopen, Goto, hist, bound
    <2>5. WordType'
      BY <2>1 DEF WordType, Step, Goal, State, Result, Reopen, Goto, hist, bound
    <2>6. QED
      BY <2>2, <2>3, <2>4, <2>5, TypePartsNext
  <1>2. /\ Stored' /\ Readable' = Readable /\ Readable = Items(h)
        /\ Cur' = Cur /\ Pending' = Pending /\ Latest' = Latest /\ (Alone => Alone')
        /\ (result' = result /\ before' = before => ResultInv')
        /\ \A f \in File : Items(f)' = Items(f) /\ NoTorn(f)' = NoTorn(f) /\ wal'[f].data = wal[f].data
        /\ \A f \in File : wal[f].dur = Len(wal[f].data) => wal'[f].dur = Len(wal'[f].data)
    BY <1>1, <1>a, FlushedLog DEF Reopen, Goto, hist, bound
  <1>3. ResultInv'
    BY <1>2 DEF Reopen, Goto, hist, bound
  <1>4. Whole' /\ handle' = h /\ h # NoFile /\ before' # NoFile
    <2>1. handle' = h /\ before' = before
      BY DEF Reopen, Goto, hist, bound
    <2>2. before # NoFile
      BY <1>a, <1>t, Ranges DEF Existing, Known, NoFile
    <2>3. NoTorn(h)
      BY <1>a DEF Synced
    <2>4. Whole'
      BY <1>a, <1>2, <2>1, <2>3 DEF Whole, NoTorn
    <2>5. h # NoFile
      BY <1>a DEF File, NoFile
    <2>6. QED
      BY <2>1, <2>2, <2>4, <2>5
  <1>5. HandleInv'
    BY <1>a, <1>2, <1>4 DEF IInv, Control, HandleInv, PostUnlink, Reopen, Goto, hist, bound
  <1>6. GoalInv'
    BY <1>a, <1>2, <1>4 DEF IInv, Control, GoalInv, Step, Steps, Building, Writing, PostUnlink,
       Resuming, Reopen, Goto, hist, bound
  <1>7. BeforeInv'
    BY <1>a, <1>2, <1>4 DEF IInv, Control, BeforeInv, Writing, PostUnlink, EarlyState, Reopen,
       Goto, hist, bound
  <1>8. IntentInv'
    BY <1>a, <1>2, <1>4 DEF IInv, Control, IntentInv, Writing, Clearing, EarlyState, Done,
       Reopen, Goto, hist, bound
  <1>9. PersistInv'
    BY <1>a, <1>2, <1>4 DEF IInv, Control, PersistInv, EarlyState, Reopen, Goto, hist, bound
  <1>10. BuildInv'
    BY <1>a, <1>2, <1>4 DEF IInv, Control, BuildInv, Building, Writing, PostUnlink, Reopen,
       Goto, hist, bound
  <1>11. QED
    BY <1>1, <1>2, <1>3, <1>5, <1>6, <1>7, <1>8, <1>9, <1>10 DEF IInv, Control, Same, Reopen,
       hist

\* The open log is written to behind what is durable: its own directories and
\* the intents that name it are not concerned.
LEMMA WroteOpen ==
    ASSUME IInv, TypeOK', NEW h \in File, Cur.wal = h, ~Mixed, dirs' = dirs, intents' = intents,
           files' = files, acked' = acked, floor' = floor, written' >= written,
           \A f \in File : f # h => wal'[f] = wal[f],
           wal'[h].dur <= Len(wal'[h].data), Len(wal'[h].data) <= written',
           \A i \in 1 .. Len(wal'[h].data) : wal'[h].data[i] <= written', Decodes(h)',
           DurItems(h) \ {Torn} \subseteq DurItems(h)'
    PROVE  /\ Stored' /\ Readable = Items(h) /\ Readable' = Items(h)'
           /\ Cur' = Cur /\ Pending' = Pending /\ Latest' = Latest
           /\ (result' = result /\ before' = before => ResultInv')
  <1>t. TypeOK /\ Stored /\ h # NoFile
    BY Ranges DEF IInv
  <1>0. Cur' = Cur /\ Dirs' = Dirs /\ Cur \in Dirs
    BY <1>t, DirsFacts DEF Cur, Dirs
  <1>1. Known(h) /\ Now = h /\ \A d \in Dirs : Read(d) \in {NoFile, h}
    BY <1>t, OpenFacts
  <1>2. \A d \in Dirs : d.intent # NoFile /\ Rec(d).st \in Done => Rec(d).pred # h
    <2> SUFFICES ASSUME NEW d \in Dirs, d.intent # NoFile, Rec(d).st \in Done
                 PROVE  Rec(d).pred # h
      OBVIOUS
    <2>1. Fits(Rec(d), d) /\ Known(Rec(d).repl)
      BY <1>t DEF Stored, DirInv, Good
    <2>2. d.wal = Rec(d).repl /\ Rec(d).pred # Rec(d).repl
      BY <2>1 DEF Fits, EarlyState, Done
    <2>3. d.wal # NoFile
      BY <1>t, <2>1, <2>2, Ranges DEF Known, NoFile
    <2>4. Read(d) = d.wal
      BY <2>3 DEF Read
    <2>5. QED
      BY <1>1, <2>2, <2>3, <2>4
  <1>3. /\ DirInv' /\ Agree' /\ SettledInv' /\ Unused' /\ DataInv'
        /\ Pending' = Pending /\ Latest' = Latest
        /\ (result' = result /\ before' = before => ResultInv')
    BY <1>0, <1>1, <1>2, WroteFacts
  <1>4. Covers'
    <2>1. Kepts(acked) \subseteq DurItems(h)
      BY <1>0, <1>1, <1>t DEF Stored, Covers, Now
    <2>2. \A r \in acked : r # Torn
      BY <1>t, Ranges DEF Torn
    <2>3. Kepts(acked)' \subseteq DurItems(h)'
      BY <2>1, <2>2 DEF Kepts
    <2>4. QED
      BY <1>0, <2>3, CoversOpen
  <1>5. VoidInv'
    BY <1>0, <1>t DEF Stored, VoidInv, Void
  <1>6. QED
    BY <1>0, <1>3, <1>4, <1>5, <1>t, ReadableOpen DEF Stored

\* A torn tail is cut off before the log is used; the log has only its own name, so
\* that nothing is refused.
LEMMA InspectKeeps ==
    ASSUME IInv, Inspect
    PROVE  IInv' /\ Same
  <1>t. TypeOK /\ Stored
    BY DEF IInv
  <1> PICK h : h = handle
    OBVIOUS
  <1>a. Cur.wal = h /\ h \in File /\ ~Mixed /\ pc = "inspect"
    <2>1. Cur.wal = h /\ h # NoFile /\ ~Mixed /\ pc = "inspect"
      BY <1>t DEF IInv, Control, HandleInv, IntentInv, Mixed, PostUnlink, Inspect
    <2>2. QED
      BY <1>t, <2>1, OpenFacts
  <1> PICK s : s = wal[h].data
    OBVIOUS
  <1>s. /\ s \in Seq(0 .. MaxRecords) /\ Len(s) \in Nat /\ wal[h].dur \in Nat
        /\ wal[h].dur <= Len(s) /\ Len(s) <= written /\ written \in Nat /\ MaxRecords \in Nat
        /\ \A i \in 1 .. Len(s) : s[i] \in 0 .. MaxRecords /\ s[i] <= written
        /\ wal[h].dur <= MaxRecords /\ written <= MaxRecords
    BY <1>a, <1>t, FileRanges, Ranges DEF Stored, DataInv
  <1>d. \A i \in 1 .. Len(s) : s[i] = Torn => i = Len(s)
    BY <1>a, <1>t DEF Stored, DataInv, Decodes
  <1>b. \E x \in [data : Seq(0 .. MaxRecords), dur : 0 .. MaxRecords] :
           /\ wal' = [wal EXCEPT ![h] = x] /\ written' = written /\ pc' = "ready"
           /\ \/ /\ s # <<>> /\ s[Len(s)] = Torn
                 /\ x.data = SubSeq(s, 1, Len(s) - 1) /\ x.dur = Len(s) - 1
              \/ /\ s = <<>> \/ s[Len(s)] # Torn
                 /\ x = wal[h]
    <2>1. Links(h) = 1
      <3>1. CASE Pending
        <4>1. Fits(Latest, Cur) /\ Latest.st = "NamespaceDurable"
          BY <1>t, <3>1, PendingFacts DEF IInv, Control, IntentInv, Inspect
        <4>2. h \notin Cur.guards /\ h \notin Cur.temps
          BY <1>a, <4>1 DEF Fits, EarlyState, Done
        <4>3. QED
          BY <1>a, <4>2, NamedOnce
      <3>2. CASE ~Pending
        <4>1. h \notin Cur.guards /\ h \notin Cur.temps
          BY <1>a, <1>t, <3>2, IdleFacts
        <4>2. QED
          BY <1>a, <4>1, NamedOnce
      <3>3. QED
        BY <3>1, <3>2
    <2>2. pc' = "ready" /\ written' = written
      BY <2>1 DEF Inspect, hist
    <2>3. CASE TornTail(h)
      <3>1. s # <<>> /\ s[Len(s)] = Torn
        BY <2>3 DEF TornTail, Last
      <3>2. Len(s) > 0 /\ Len(s) - 1 \in Nat
        BY <1>s, <3>1
      <3>3. PICK q : q = SubSeq(s, 1, Len(s) - 1)
        OBVIOUS
      <3>4. q \in Seq(0 .. MaxRecords) /\ Len(q) = Len(s) - 1
        BY SMTT(30), <1>s, <3>2, <3>3, SubSeqProperties
      <3>5. PICK x : x = [data |-> q, dur |-> Len(s) - 1]
        OBVIOUS
      <3>6. Durable(q) = x
        BY <3>4, <3>5 DEF Durable
      <3>7. wal' = [wal EXCEPT ![h] = x]
        <4>1. wal' = [wal EXCEPT ![h] = Durable(SubSeq(wal[h].data, 1, Len(wal[h].data) - 1))]
          BY <1>a, <1>t, <2>3 DEF Inspect, TypeOK
        <4>2. QED
          BY <3>3, <3>6, <4>1
      <3>8. x \in [data : Seq(0 .. MaxRecords), dur : 0 .. MaxRecords]
        <4>1. Len(s) - 1 \in 0 .. MaxRecords
          BY <1>s, <3>2
        <4>2. QED
          BY <3>4, <3>5, <4>1
      <3>9. QED
        BY <2>2, <3>1, <3>3, <3>5, <3>7, <3>8
    <2>4. CASE ~TornTail(h)
      <3>1. wal' = wal
        BY <2>4 DEF Inspect
      <3>2. wal' = [wal EXCEPT ![h] = wal[h]]
        BY <1>a, <1>t, <3>1 DEF TypeOK
      <3>3. wal[h] \in [data : Seq(0 .. MaxRecords), dur : 0 .. MaxRecords]
        BY <1>a, <1>t DEF TypeOK
      <3>4. s = <<>> \/ s[Len(s)] # Torn
        BY <2>4 DEF TornTail, Last
      <3>5. QED
        BY <2>2, <3>2, <3>3, <3>4
    <2>5. QED
      BY <2>3, <2>4
  <1>c. /\ \A f \in File : f # h => wal'[f] = wal[f]
        /\ written' >= written /\ wal'[h].dur <= Len(wal'[h].data) /\ Len(wal'[h].data) <= written'
        /\ \A i \in 1 .. Len(wal'[h].data) : wal'[h].data[i] <= written'
        /\ Decodes(h)' /\ DurItems(h) \ {Torn} \subseteq DurItems(h)'
        /\ Items(h)' = Items(h) /\ NoTorn(h)'
    <2>1. \A f \in File : f # h => wal'[f] = wal[f]
      BY <1>a, <1>b, <1>t DEF TypeOK
    <2>2. PICK t : t = wal'[h].data
      OBVIOUS
    <2>3. /\ Len(t) \in Nat /\ wal'[h].dur <= Len(t) /\ Len(t) <= Len(s)
          /\ \A i \in 1 .. Len(t) : t[i] = s[i] /\ i \in 1 .. Len(s) /\ s[i] # Torn
          /\ \A i \in 1 .. Len(s) : s[i] # Torn => i \in 1 .. Len(t)
          /\ \A i \in 1 .. wal[h].dur : s[i] # Torn => i \in 1 .. wal'[h].dur
      <3>1. CASE s # <<>> /\ s[Len(s)] = Torn
        <4>1. t = SubSeq(s, 1, Len(s) - 1) /\ wal'[h].dur = Len(s) - 1
          BY <1>a, <1>b, <1>t, <2>2, <3>1 DEF TypeOK
        <4>2. Len(s) > 0 /\ Len(s) - 1 \in Nat
          BY <1>s, <3>1
        <4>3. Len(t) = Len(s) - 1 /\ \A i \in 1 .. Len(s) - 1 : t[i] = s[i]
          BY <1>s, <4>1, <4>2, SubSeqProperties
        <4>4. \A i \in 1 .. Len(s) - 1 : i \in 1 .. Len(s) /\ i # Len(s)
          BY <1>s, <4>2
        <4>5. \A i \in 1 .. Len(s) : i # Len(s) => i \in 1 .. Len(s) - 1
          BY <1>s, <4>2
        <4>6. \A i \in 1 .. wal[h].dur : i \in 1 .. Len(s)
          BY <1>s
        <4>7. \A i \in 1 .. Len(t) : t[i] = s[i] /\ i \in 1 .. Len(s) /\ s[i] # Torn
          BY <1>d, <4>3, <4>4
        <4>8. \A i \in 1 .. Len(s) : s[i] # Torn => i \in 1 .. Len(t)
          BY <3>1, <4>3, <4>5
        <4>9. \A i \in 1 .. wal[h].dur : s[i] # Torn => i \in 1 .. wal'[h].dur
          BY <3>1, <4>1, <4>5, <4>6
        <4>10. Len(t) \in Nat /\ wal'[h].dur <= Len(t) /\ Len(t) <= Len(s)
          BY <1>s, <4>1, <4>2, <4>3
        <4>11. QED
          BY <4>7, <4>8, <4>9, <4>10
      <3>2. CASE s = <<>> \/ s[Len(s)] # Torn
        <4>1. t = s /\ wal'[h].dur = wal[h].dur
          BY <1>a, <1>b, <1>t, <2>2, <3>2 DEF TypeOK
        <4>2. \A i \in 1 .. Len(s) : s[i] # Torn
          <5>1. s = <<>> => Len(s) = 0
            OBVIOUS
          <5>2. QED
            BY <1>d, <1>s, <3>2, <5>1
        <4>3. QED
          BY <1>s, <4>1, <4>2
      <3>3. QED
        BY <3>1, <3>2
    <2>4. written' = written
      BY <1>b
    <2>5. Len(t) <= written' /\ \A i \in 1 .. Len(t) : t[i] <= written'
      BY <1>s, <2>3, <2>4
    <2>6. NoTorn(h)' /\ Decodes(h)'
      BY <2>2, <2>3 DEF NoTorn, Decodes
    <2>7. Items(h)' = Items(h)
      BY <2>2, <2>3 DEF Items
    <2>8. DurItems(h) \ {Torn} \subseteq DurItems(h)'
      <3> SUFFICES ASSUME NEW i \in 1 .. wal[h].dur, s[i] # Torn
                   PROVE  s[i] \in DurItems(h)'
        BY DEF DurItems
      <3>1. i \in 1 .. wal'[h].dur /\ i \in 1 .. Len(s)
        BY SMTT(30), <1>s, <2>3
      <3>2. t[i] = s[i]
        BY <2>3, <3>1
      <3>3. QED
        BY <2>2, <3>1, <3>2 DEF DurItems
    <2>9. written' >= written
      BY <1>s, <2>4
    <2>10. QED
      BY <2>1, <2>2, <2>3, <2>5, <2>6, <2>7, <2>8, <2>9
  <1>1. TypeOK'
    <2>1. DiskType /\ NumType /\ FileType /\ WordType
      BY TypeParts DEF IInv
    <2>2. DiskType'
      <3> DEFINE R == [data : Seq(0 .. MaxRecords), dur : 0 .. MaxRecords]
      <3>1. wal \in [File -> R]
        BY <2>1 DEF DiskType
      <3>2. wal' \in [File -> R]
        BY <1>b, <3>1
      <3>3. QED
        BY <2>1, <3>2 DEF DiskType, Inspect, proc, hist, bound
    <2>3. NumType'
      BY <2>1, WalAssumption DEF NumType, Inspect, proc, hist, bound
    <2>4. FileType'
      BY <2>1 DEF FileType, Inspect, proc, hist, bound
    <2>5. WordType'
      BY <1>b, <2>1 DEF WordType, Step, Goal, State, Result, Inspect, proc, hist, bound
    <2>6. QED
      BY <2>2, <2>3, <2>4, <2>5, TypePartsNext
  <1>2. /\ Stored' /\ Same /\ Cur' = Cur /\ Pending' = Pending /\ Latest' = Latest
        /\ (result' = result /\ before' = before => ResultInv')
    <2>1. /\ Stored' /\ Readable = Items(h) /\ Readable' = Items(h)'
          /\ Cur' = Cur /\ Pending' = Pending /\ Latest' = Latest
          /\ (result' = result /\ before' = before => ResultInv')
      <3>1. /\ dirs' = dirs /\ intents' = intents /\ files' = files /\ acked' = acked
            /\ floor' = floor
        BY DEF Inspect, proc, hist, bound
      <3>2. QED
        BY <1>1, <1>a, <1>b, <1>c, <3>1, WroteOpen
    <2>2. QED
      BY <1>c, <2>1 DEF Same, Inspect, proc, hist, bound
  <1>3. ResultInv'
    BY <1>2 DEF Inspect, proc, hist, bound
  <1>4. Whole' /\ pc' = "ready"
    <2>1. handle' = h
      BY DEF Inspect, proc, hist, bound
    <2>2. QED
      BY <1>b, <1>c, <2>1 DEF Whole, NoTorn
  <1>5. HandleInv'
    BY <1>a, <1>2, <1>4 DEF IInv, Control, HandleInv, PostUnlink, Inspect, proc, hist, bound
  <1>6. GoalInv'
    BY <1>a, <1>2, <1>4 DEF IInv, Control, GoalInv, Step, Steps, Building, Writing, PostUnlink,
       Resuming, Inspect, proc, hist, bound
  <1>7. BeforeInv'
    BY <1>a, <1>2, <1>4 DEF IInv, Control, BeforeInv, Writing, PostUnlink, EarlyState, Inspect,
       proc, hist, bound
  <1>8. IntentInv'
    BY <1>a, <1>2, <1>4 DEF IInv, Control, IntentInv, Writing, Clearing, EarlyState, Done,
       Inspect, proc, hist, bound
  <1>9. PersistInv'
    BY <1>a, <1>2, <1>4 DEF IInv, Control, PersistInv, EarlyState, Inspect, proc, hist, bound
  <1>10. BuildInv'
    BY <1>a, <1>2, <1>4 DEF IInv, Control, BuildInv, Building, Writing, PostUnlink, Inspect,
       proc, hist, bound
  <1>11. QED
    BY <1>1, <1>2, <1>3, <1>5, <1>6, <1>7, <1>8, <1>9, <1>10 DEF IInv, Control, Same

\* A record is added behind every record of the log.
LEMMA AppendRecordKeeps ==
    ASSUME IInv, AppendRecord
    PROVE  /\ IInv' /\ acked' = acked /\ floor' = floor /\ Readable' = Readable \cup {written'}
           /\ \A r \in Readable : r < written'
  <1>t. TypeOK /\ Stored
    BY DEF IInv
  <1> PICK h : h = handle
    OBVIOUS
  <1>a. Cur.wal = h /\ h \in File /\ ~Mixed /\ pc = "ready" /\ Whole
    <2>1. Cur.wal = h /\ h # NoFile /\ ~Mixed /\ pc = "ready" /\ Whole
      BY <1>t DEF IInv, Control, HandleInv, BeforeInv, IntentInv, Mixed, PostUnlink,
         AppendRecord
    <2>2. QED
      BY <1>t, <2>1, OpenFacts
  <1> PICK s : s = wal[h].data
    OBVIOUS
  <1>s. /\ s \in Seq(0 .. MaxRecords) /\ Len(s) \in Nat /\ wal[h].dur \in Nat
        /\ wal[h].dur <= Len(s) /\ Len(s) <= written /\ written \in Nat /\ MaxRecords \in Nat
        /\ \A i \in 1 .. Len(s) : s[i] \in 0 .. MaxRecords /\ s[i] <= written
        /\ wal[h].dur <= MaxRecords /\ written <= MaxRecords
    BY <1>a, <1>t, FileRanges, Ranges DEF Stored, DataInv
  <1>d. \A i \in 1 .. Len(s) : s[i] = Torn => i = Len(s)
    BY <1>a, <1>t DEF Stored, DataInv, Decodes
  <1>b. \E x \in [data : Seq(0 .. MaxRecords), dur : 0 .. MaxRecords] :
           /\ wal' = [wal EXCEPT ![h] = x] /\ written' = written + 1
           /\ x.data = Append(s, written') /\ x.dur = wal[h].dur
    <2>1. wal' = [wal EXCEPT ![h].data = Append(wal[h].data, written')] /\ written' = written + 1
      BY <1>a, <1>t DEF AppendRecord, TypeOK
    <2>2. written' \in 0 .. MaxRecords
      <3>1. written < MaxRecords
        BY DEF AppendRecord
      <3>2. QED
        BY <1>s, <2>1, <3>1 DEF Torn
    <2>3. PICK x : x = [wal[h] EXCEPT !.data = Append(s, written')]
      OBVIOUS
    <2>4. wal[h] \in [data : Seq(0 .. MaxRecords), dur : 0 .. MaxRecords]
      BY <1>a, <1>t DEF TypeOK
    <2>5. Append(s, written') \in Seq(0 .. MaxRecords)
      BY <1>s, <2>2
    <2>6. /\ x \in [data : Seq(0 .. MaxRecords), dur : 0 .. MaxRecords]
          /\ x.data = Append(s, written') /\ x.dur = wal[h].dur
      BY <2>3, <2>4, <2>5
    <2>7. wal' = [wal EXCEPT ![h] = x]
      BY <1>a, <1>t, <2>1, <2>3 DEF TypeOK
    <2>8. QED
      BY <2>1, <2>6, <2>7
  <1>c. /\ \A f \in File : f # h => wal'[f] = wal[f]
        /\ written' >= written /\ wal'[h].dur <= Len(wal'[h].data) /\ Len(wal'[h].data) <= written'
        /\ \A i \in 1 .. Len(wal'[h].data) : wal'[h].data[i] <= written'
        /\ Decodes(h)' /\ DurItems(h) \ {Torn} \subseteq DurItems(h)'
        /\ NoTorn(h)' /\ Items(h)' = Items(h) \cup {written'} /\ \A r \in Items(h) : r < written'
    <2>1. \A f \in File : f # h => wal'[f] = wal[f]
      BY <1>a, <1>b, <1>t DEF TypeOK
    <2>2. PICK t : t = wal'[h].data
      OBVIOUS
    <2>3. t = Append(s, written') /\ wal'[h].dur = wal[h].dur /\ written' = written + 1
      BY <1>a, <1>b, <1>t, <2>2 DEF TypeOK
    <2>4. Len(t) = Len(s) + 1 /\ t[Len(s) + 1] = written' /\ \A i \in 1 .. Len(s) : t[i] = s[i]
      BY <1>s, <2>3
    <2>5. \A i \in 1 .. Len(t) : i \in 1 .. Len(s) \/ i = Len(s) + 1
      BY <1>s, <2>4
    <2>6. \A i \in 1 .. Len(s) : s[i] # Torn
      BY <1>a DEF Whole, NoTorn
    <2>7. written' <= written' /\ Len(t) <= written' /\ written' >= written /\ wal'[h].dur <= Len(t)
      BY <1>s, <2>3, <2>4 DEF Torn
    <2>8. \A i \in 1 .. Len(t) : t[i] <= written'
      BY <1>s, <2>3, <2>4, <2>5, <2>7
    <2>9. Decodes(h)'
      BY <2>2, <2>4, <2>5, <2>6 DEF Decodes
    <2>10. DurItems(h) \ {Torn} \subseteq DurItems(h)'
      <3>1. \A i \in 1 .. wal[h].dur : i \in 1 .. Len(s)
        BY <1>s
      <3>2. QED
        BY <2>2, <2>3, <2>4, <3>1 DEF DurItems
    <2>11. written' # Torn
      BY <1>s, <2>3 DEF Torn
    <2>12. NoTorn(h)'
      BY <2>2, <2>4, <2>5, <2>6, <2>11 DEF NoTorn
    <2>13. Items(h)' = Items(h) \cup {written'}
      <3>1. Items(h) = {s[i] : i \in 1 .. Len(s)} \ {Torn}
        BY DEF Items
      <3>2. Items(h)' = {t[i] : i \in 1 .. Len(t)} \ {Torn}
        BY <2>2 DEF Items
      <3>3. {t[i] : i \in 1 .. Len(t)} = {s[i] : i \in 1 .. Len(s)} \cup {written'}
        <4>1. \A i \in 1 .. Len(s) : i \in 1 .. Len(t)
          BY <1>s, <2>4
        <4>2. Len(s) + 1 \in 1 .. Len(t)
          BY <1>s, <2>4
        <4>3. QED
          BY <2>4, <2>5, <4>1, <4>2
      <3>4. QED
        BY <3>1, <3>2, <3>3, <2>11
    <2>14. \A r \in Items(h) : r < written'
      BY <1>s, <2>3 DEF Items
    <2>15. QED
      BY <2>1, <2>2, <2>7, <2>8, <2>9, <2>10, <2>12, <2>13, <2>14
  <1>1. TypeOK'
    <2>1. DiskType /\ NumType /\ FileType /\ WordType
      BY TypeParts DEF IInv
    <2>2. DiskType'
      <3> DEFINE R == [data : Seq(0 .. MaxRecords), dur : 0 .. MaxRecords]
      <3>1. wal \in [File -> R]
        BY <2>1 DEF DiskType
      <3>2. wal' \in [File -> R]
        BY <1>b, <3>1
      <3>3. QED
        BY <2>1, <3>2 DEF DiskType, AppendRecord, proc, bound
    <2>3. NumType'
      BY SMTT(30), <1>s, <2>1, WalAssumption DEF NumType, AppendRecord, proc, bound
    <2>4. FileType'
      BY <2>1 DEF FileType, AppendRecord, proc, bound
    <2>5. WordType'
      BY <2>1 DEF WordType, Step, Goal, State, Result, AppendRecord, proc, bound
    <2>6. QED
      BY <2>2, <2>3, <2>4, <2>5, TypePartsNext
  <1>2. /\ Stored' /\ Readable' = Readable \cup {written'} /\ (\A r \in Readable : r < written')
        /\ Cur' = Cur /\ Pending' = Pending /\ Latest' = Latest
        /\ (result' = result /\ before' = before => ResultInv')
    <2>1. /\ Stored' /\ Readable = Items(h) /\ Readable' = Items(h)'
          /\ Cur' = Cur /\ Pending' = Pending /\ Latest' = Latest
          /\ (result' = result /\ before' = before => ResultInv')
      <3>1. /\ dirs' = dirs /\ intents' = intents /\ files' = files /\ acked' = acked
            /\ floor' = floor
        BY DEF AppendRecord, proc, bound
      <3>2. QED
        BY <1>1, <1>a, <1>b, <1>c, <3>1, WroteOpen
    <2>2. QED
      BY <1>c, <2>1 DEF Same, AppendRecord, proc, bound
  <1>3. ResultInv'
    BY <1>2 DEF AppendRecord, proc, bound
  <1>4. Whole'
    <2>1. handle' = h
      BY DEF AppendRecord, proc, bound
    <2>2. QED
      BY <1>c, <2>1 DEF Whole, NoTorn
  <1>5. HandleInv'
    BY <1>a, <1>2, <1>4 DEF IInv, Control, HandleInv, PostUnlink, AppendRecord, proc, bound
  <1>6. GoalInv'
    BY <1>a, <1>2, <1>4 DEF IInv, Control, GoalInv, Step, Steps, Building, Writing, PostUnlink,
       Resuming, AppendRecord, proc, bound
  <1>7. BeforeInv'
    BY <1>a, <1>2, <1>4 DEF IInv, Control, BeforeInv, Writing, PostUnlink, EarlyState,
       AppendRecord, proc, bound
  <1>8. IntentInv'
    BY <1>a, <1>2, <1>4 DEF IInv, Control, IntentInv, Writing, Clearing, EarlyState, Done,
       AppendRecord, proc, bound
  <1>9. PersistInv'
    BY <1>a, <1>2, <1>4 DEF IInv, Control, PersistInv, EarlyState, AppendRecord, proc, bound
  <1>10. BuildInv'
    BY <1>a, <1>2, <1>4 DEF IInv, Control, BuildInv, Building, Writing, PostUnlink,
       AppendRecord, proc, bound
  <1>11. QED
    BY <1>1, <1>2, <1>3, <1>5, <1>6, <1>7, <1>8, <1>9, <1>10 DEF IInv, Control, AppendRecord

\* A frame is cut short: the handle is given up.
LEMMA AppendTornKeeps ==
    ASSUME IInv, AppendTorn
    PROVE  IInv' /\ Same
  <1>t. TypeOK /\ Stored
    BY DEF IInv
  <1> PICK h : h = handle
    OBVIOUS
  <1>a. Cur.wal = h /\ h \in File /\ ~Mixed /\ pc = "ready" /\ Whole
    <2>1. Cur.wal = h /\ h # NoFile /\ ~Mixed /\ pc = "ready" /\ Whole
      BY <1>t DEF IInv, Control, HandleInv, BeforeInv, IntentInv, Mixed, PostUnlink, AppendTorn,
         Goto
    <2>2. QED
      BY <1>t, <2>1, OpenFacts
  <1> PICK s : s = wal[h].data
    OBVIOUS
  <1>s. /\ s \in Seq(0 .. MaxRecords) /\ Len(s) \in Nat /\ wal[h].dur \in Nat
        /\ wal[h].dur <= Len(s) /\ Len(s) <= written /\ written \in Nat /\ MaxRecords \in Nat
        /\ \A i \in 1 .. Len(s) : s[i] \in 0 .. MaxRecords /\ s[i] <= written
        /\ wal[h].dur <= MaxRecords /\ written <= MaxRecords
    BY <1>a, <1>t, FileRanges, Ranges DEF Stored, DataInv
  <1>d. \A i \in 1 .. Len(s) : s[i] = Torn => i = Len(s)
    BY <1>a, <1>t DEF Stored, DataInv, Decodes
  <1>b. \E x \in [data : Seq(0 .. MaxRecords), dur : 0 .. MaxRecords] :
           /\ wal' = [wal EXCEPT ![h] = x] /\ written' = written + 1
           /\ x.data = Append(s, Torn) /\ x.dur = wal[h].dur
    <2>1. wal' = [wal EXCEPT ![h].data = Append(wal[h].data, Torn)] /\ written' = written + 1
      BY <1>a, <1>t DEF AppendTorn, TypeOK
    <2>2. Torn \in 0 .. MaxRecords
      <3>1. written < MaxRecords
        BY DEF AppendTorn
      <3>2. QED
        BY <1>s, <2>1, <3>1 DEF Torn
    <2>3. PICK x : x = [wal[h] EXCEPT !.data = Append(s, Torn)]
      OBVIOUS
    <2>4. wal[h] \in [data : Seq(0 .. MaxRecords), dur : 0 .. MaxRecords]
      BY <1>a, <1>t DEF TypeOK
    <2>5. Append(s, Torn) \in Seq(0 .. MaxRecords)
      BY <1>s, <2>2
    <2>6. /\ x \in [data : Seq(0 .. MaxRecords), dur : 0 .. MaxRecords]
          /\ x.data = Append(s, Torn) /\ x.dur = wal[h].dur
      BY <2>3, <2>4, <2>5
    <2>7. wal' = [wal EXCEPT ![h] = x]
      BY <1>a, <1>t, <2>1, <2>3 DEF TypeOK
    <2>8. QED
      BY <2>1, <2>6, <2>7
  <1>c. /\ \A f \in File : f # h => wal'[f] = wal[f]
        /\ written' >= written /\ wal'[h].dur <= Len(wal'[h].data) /\ Len(wal'[h].data) <= written'
        /\ \A i \in 1 .. Len(wal'[h].data) : wal'[h].data[i] <= written'
        /\ Decodes(h)' /\ DurItems(h) \ {Torn} \subseteq DurItems(h)'
        /\ Items(h)' = Items(h)
    <2>1. \A f \in File : f # h => wal'[f] = wal[f]
      BY <1>a, <1>b, <1>t DEF TypeOK
    <2>2. PICK t : t = wal'[h].data
      OBVIOUS
    <2>3. t = Append(s, Torn) /\ wal'[h].dur = wal[h].dur /\ written' = written + 1
      BY <1>a, <1>b, <1>t, <2>2 DEF TypeOK
    <2>4. Len(t) = Len(s) + 1 /\ t[Len(s) + 1] = Torn /\ \A i \in 1 .. Len(s) : t[i] = s[i]
      BY <1>s, <2>3
    <2>5. \A i \in 1 .. Len(t) : i \in 1 .. Len(s) \/ i = Len(s) + 1
      BY <1>s, <2>4
    <2>6. \A i \in 1 .. Len(s) : s[i] # Torn
      BY <1>a DEF Whole, NoTorn
    <2>7. Torn <= written' /\ Len(t) <= written' /\ written' >= written /\ wal'[h].dur <= Len(t)
      BY <1>s, <2>3, <2>4 DEF Torn
    <2>8. \A i \in 1 .. Len(t) : t[i] <= written'
      BY <1>s, <2>3, <2>4, <2>5, <2>7
    <2>9. Decodes(h)'
      BY <2>2, <2>4, <2>5, <2>6 DEF Decodes
    <2>10. DurItems(h) \ {Torn} \subseteq DurItems(h)'
      <3>1. \A i \in 1 .. wal[h].dur : i \in 1 .. Len(s)
        BY <1>s
      <3>2. QED
        BY <2>2, <2>3, <2>4, <3>1 DEF DurItems
    <2>11. Items(h)' = Items(h)
      <3>1. Items(h) = {s[i] : i \in 1 .. Len(s)} \ {Torn}
        BY DEF Items
      <3>2. Items(h)' = {t[i] : i \in 1 .. Len(t)} \ {Torn}
        BY <2>2 DEF Items
      <3>3. {t[i] : i \in 1 .. Len(t)} = {s[i] : i \in 1 .. Len(s)} \cup {Torn}
        <4>1. \A i \in 1 .. Len(s) : i \in 1 .. Len(t)
          BY <1>s, <2>4
        <4>2. Len(s) + 1 \in 1 .. Len(t)
          BY <1>s, <2>4
        <4>3. QED
          BY <2>4, <2>5, <4>1, <4>2
      <3>4. QED
        BY <3>1, <3>2, <3>3
    <2>12. QED
      BY <2>1, <2>2, <2>7, <2>8, <2>9, <2>10, <2>11
  <1>1. TypeOK'
    <2>1. DiskType /\ NumType /\ FileType /\ WordType
      BY TypeParts DEF IInv
    <2>2. DiskType'
      <3> DEFINE R == [data : Seq(0 .. MaxRecords), dur : 0 .. MaxRecords]
      <3>1. wal \in [File -> R]
        BY <2>1 DEF DiskType
      <3>2. wal' \in [File -> R]
        BY <1>b, <3>1
      <3>3. QED
        BY <2>1, <3>2 DEF DiskType, AppendTorn, Goto
    <2>3. NumType'
      BY SMTT(30), <1>s, <2>1, WalAssumption DEF NumType, AppendTorn, Goto
    <2>4. FileType'
      BY <2>1 DEF FileType, AppendTorn, Goto
    <2>5. WordType'
      BY <2>1 DEF WordType, Step, Goal, State, Result, AppendTorn, Goto
    <2>6. QED
      BY <2>2, <2>3, <2>4, <2>5, TypePartsNext
  <1>2. /\ Stored' /\ Same /\ Cur' = Cur /\ Pending' = Pending /\ Latest' = Latest
        /\ (result' = result /\ before' = before => ResultInv')
    <2>1. /\ Stored' /\ Readable = Items(h) /\ Readable' = Items(h)'
          /\ Cur' = Cur /\ Pending' = Pending /\ Latest' = Latest
          /\ (result' = result /\ before' = before => ResultInv')
      <3>1. /\ dirs' = dirs /\ intents' = intents /\ files' = files /\ acked' = acked
            /\ floor' = floor
        BY DEF AppendTorn, Goto
      <3>2. QED
        BY <1>1, <1>a, <1>b, <1>c, <3>1, WroteOpen
    <2>2. QED
      BY <1>c, <2>1 DEF Same, AppendTorn, Goto
  <1>3. ResultInv'
    BY <1>2 DEF AppendTorn, Goto
  <1>4. Control'
    BY <1>1, ClosedFacts DEF TypeOK, AppendTorn, Goto, Close
  <1>5. QED
    BY <1>1, <1>2, <1>3, <1>4 DEF IInv, Same, AppendTorn, Goto

\* What a power loss leaves of a log file: the durable prefix, some of the rest,
\* and perhaps a frame that is cut short.
LEMMA CutFacts ==
    ASSUME TypeOK, Stored, NEW f \in File, NEW n \in 0 .. MaxRecords,
           NEW more \in {<<>>, <<Torn>>}, wal'[f] = Cut(wal[f], n, more)
    PROVE  /\ wal'[f].data \in Seq(0 .. MaxRecords) /\ wal'[f] = Durable(wal'[f].data)
           /\ Len(wal'[f].data) <= Len(wal[f].data)
           /\ \A i \in 1 .. Len(wal'[f].data) : wal'[f].data[i] <= written
           /\ Decodes(f)' /\ Items(f)' \subseteq Items(f) /\ DurItems(f) \subseteq DurItems(f)'
  <1> PICK s : s = wal[f].data
    OBVIOUS
  <1>1. /\ s \in Seq(0 .. MaxRecords) /\ Len(s) \in Nat /\ wal[f].dur \in Nat
        /\ wal[f].dur <= Len(s) /\ written \in Nat /\ MaxRecords \in Nat
        /\ \A i \in 1 .. Len(s) : s[i] \in 0 .. MaxRecords /\ s[i] <= written
        /\ \A i \in 1 .. Len(s) : s[i] = Torn => i = Len(s)
    BY FileRanges, Ranges DEF Stored, DataInv, Decodes
  <1>2. PICK k \in wal[f].dur .. Len(s) :
           wal'[f] = Durable(SubSeq(s, 1, k) \o IF k < Len(s) THEN more ELSE <<>>)
    <2>1. PICK k : /\ k = IF n < wal[f].dur THEN wal[f].dur ELSE IF n > Len(s) THEN Len(s) ELSE n
                   /\ wal'[f] = Durable(SubSeq(s, 1, k) \o IF k < Len(s) THEN more ELSE <<>>)
      BY DEF Cut
    <2>2. k \in wal[f].dur .. Len(s)
      BY <1>1, <2>1
    <2>3. QED
      BY <2>1, <2>2
  <1>3. k \in Nat /\ k <= Len(s) /\ wal[f].dur <= k
    BY <1>1, <1>2
  <1>p. PICK p : p = SubSeq(s, 1, k)
    OBVIOUS
  <1>m. PICK m : m = IF k < Len(s) THEN more ELSE <<>>
    OBVIOUS
  <1>o. PICK t : t = p \o m
    OBVIOUS
  <1>4. p \in Seq(0 .. MaxRecords) /\ Len(p) = k /\ \A i \in 1 .. k : p[i] = s[i]
    <2>1. \A i \in 1 .. k : s[i] \in 0 .. MaxRecords
      BY SMTT(30), <1>1, <1>3
    <2>2. QED
      BY <1>1, <1>3, <1>p, <2>1, SubSeqProperties
  <1>5. m = <<>> \/ (k < Len(s) /\ m = <<Torn>>)
    BY <1>m
  <1>6. /\ t \in Seq(0 .. MaxRecords) /\ Len(t) \in Nat /\ Len(t) <= Len(s)
        /\ \A i \in 1 .. k : i \in 1 .. Len(t) /\ t[i] = s[i]
        /\ \A i \in 1 .. Len(t) : \/ i \in 1 .. k
                                  \/ k < Len(s) /\ i = Len(t) /\ t[i] = Torn
    <2>1. CASE m = <<>>
      <3>1. t = p
        BY <1>4, <1>o, <2>1, ConcatEmptySeq
      <3>2. QED
        BY <1>3, <1>4, <3>1
    <2>2. CASE k < Len(s) /\ m = <<Torn>>
      <3>1. 0 \in 0 .. MaxRecords
        BY <1>1
      <3>2. <<Torn>> \in Seq(0 .. MaxRecords) /\ Len(<<Torn>>) = 1 /\ <<Torn>>[1] = Torn
        BY <3>1 DEF Torn
      <3>3. /\ t \in Seq(0 .. MaxRecords) /\ Len(t) = k + 1 /\ t[k + 1] = Torn
            /\ \A i \in 1 .. k : t[i] = s[i]
        <4>1. /\ t \in Seq(0 .. MaxRecords) /\ Len(t) = k + 1
              /\ \A i \in 1 .. k + 1 : t[i] = IF i <= k THEN p[i] ELSE m[i - k]
          <5>1. /\ p \o m \in Seq(0 .. MaxRecords) /\ Len(p \o m) = Len(p) + Len(m)
                /\ \A i \in 1 .. Len(p) + Len(m) :
                      (p \o m)[i] = IF i <= Len(p) THEN p[i] ELSE m[i - Len(p)]
            BY <1>4, <2>2, <3>2, ConcatProperties
          <5>2. Len(p) = k /\ Len(m) = 1
            BY <1>4, <2>2, <3>2
          <5>3. QED
            BY <1>o, <5>1, <5>2
        <4>2. k + 1 \in 1 .. k + 1 /\ ~(k + 1 <= k) /\ (k + 1) - k = 1
          BY <1>3
        <4>3. t[k + 1] = Torn
          BY <2>2, <3>2, <4>1, <4>2
        <4>4. \A i \in 1 .. k : i \in 1 .. k + 1 /\ i <= k
          BY <1>3
        <4>5. QED
          BY <1>4, <4>1, <4>3, <4>4
      <3>4. \A i \in 1 .. k + 1 : i \in 1 .. k \/ i = k + 1
        BY <1>3
      <3>5. \A i \in 1 .. k : i \in 1 .. k + 1
        BY <1>3
      <3>6. k + 1 \in Nat /\ k + 1 <= Len(s)
        BY <1>1, <1>3, <2>2
      <3>7. QED
        BY <2>2, <3>3, <3>4, <3>5, <3>6
    <2>3. QED
      BY <1>5, <2>1, <2>2
  <1>7. wal'[f] = Durable(t) /\ wal'[f].data = t /\ wal'[f].dur = Len(t)
    <2>1. wal'[f] = Durable(p \o m)
      BY <1>2, <1>m, <1>p
    <2>2. wal'[f] = Durable(t)
      BY <1>o, <2>1
    <2>3. QED
      BY <2>2 DEF Durable
  <1>8. \A i \in 1 .. k : i \in 1 .. Len(s)
    BY <1>1, <1>3
  <1>9. \A i \in 1 .. Len(t) : t[i] <= written
    <2> SUFFICES ASSUME NEW i \in 1 .. Len(t)
                 PROVE  t[i] <= written
      OBVIOUS
    <2>1. CASE i \in 1 .. k
      BY <1>1, <1>6, <1>8, <2>1
    <2>2. CASE t[i] = Torn
      BY <1>1, <2>2 DEF Torn
    <2>3. QED
      BY <1>6, <2>1, <2>2
  <1>10. Decodes(f)'
    <2> SUFFICES ASSUME NEW i \in 1 .. Len(t), t[i] = Torn
                 PROVE  i = Len(t)
      BY <1>7 DEF Decodes
    <2>1. CASE i \in 1 .. k
      <3>1. i = Len(s)
        BY <1>1, <1>6, <1>8, <2>1
      <3>2. Len(t) \in Nat /\ Len(t) <= Len(s)
        BY <1>6
      <3>3. QED
        BY <1>1, <3>1, <3>2
    <2>2. CASE i \notin 1 .. k
      BY <1>6, <2>2
    <2>3. QED
      BY <2>1, <2>2
  <1>11. Items(f)' \subseteq Items(f)
    <2> SUFFICES ASSUME NEW i \in 1 .. Len(t), t[i] # Torn
                 PROVE  t[i] \in Items(f)
      BY <1>7 DEF Items
    <2>1. i \in 1 .. Len(s) /\ t[i] = s[i]
      BY <1>6, <1>8
    <2>2. QED
      BY <2>1 DEF Items
  <1>12. DurItems(f) \subseteq DurItems(f)'
    <2>1. \A i \in 1 .. wal[f].dur : i \in 1 .. k
      BY <1>1, <1>3
    <2>2. QED
      BY <1>6, <1>7, <2>1 DEF DurItems
  <1>13. QED
    BY <1>6, <1>7, <1>9, <1>10, <1>11, <1>12

\* A power loss leaves one of the directories and the durable part of the files:
\* nothing at or above the floor comes back, and nothing acknowledged is lost.
LEMMA PowerLossKeeps ==
    ASSUME IInv, PowerLoss
    PROVE  /\ IInv' /\ acked' = acked /\ floor' = floor
           /\ \A r \in Readable' : r >= floor => r \in Readable
  <1>t. TypeOK /\ Stored
    BY DEF IInv
  <1>0. PICK d \in Dirs : d \in Dir /\ dirs' = <<d>> /\ Cur' = d /\ Dirs' = {d} /\ Len(dirs') = 1
                         /\ dirs' \in Seq(Dir)
    <2>1. PICK i \in 1 .. Len(dirs) : dirs' = <<dirs[i]>>
      BY DEF PowerLoss
    <2>2. dirs[i] \in Dirs /\ dirs[i] \in Dir
      BY <1>t, DirsFacts DEF Dirs
    <2>3. QED
      BY <2>1, <2>2, Replaced
  <1>c. \A f \in File : /\ wal'[f].data \in Seq(0 .. MaxRecords) /\ wal'[f] = Durable(wal'[f].data)
                        /\ Len(wal'[f].data) <= Len(wal[f].data)
                        /\ \A i \in 1 .. Len(wal'[f].data) : wal'[f].data[i] <= written
                        /\ Decodes(f)' /\ Items(f)' \subseteq Items(f)
                        /\ DurItems(f) \subseteq DurItems(f)'
    <2> TAKE f \in File
    <2>1. PICK n \in 0 .. MaxRecords, more \in {<<>>, <<Torn>>} :
             wal' = [g \in File |-> Cut(wal[g], n, more)]
      BY DEF PowerLoss
    <2>2. wal'[f] = Cut(wal[f], n, more)
      BY <2>1
    <2>3. QED
      BY <1>t, <2>2, CutFacts
  <1>e. \A f \in File : wal[f].data = <<>> => wal'[f].data = <<>>
    <2> SUFFICES ASSUME NEW f \in File, wal[f].data = <<>>
                 PROVE  wal'[f].data = <<>>
      OBVIOUS
    <2> PICK t : t = wal'[f].data
      OBVIOUS
    <2>1. t \in Seq(0 .. MaxRecords) /\ Len(t) <= 0
      BY <1>c
    <2>2. QED
      BY <2>1, EmptySeq
  <1>1. TypeOK'
    <2>1. DiskType /\ NumType /\ FileType /\ WordType
      BY TypeParts DEF IInv
    <2>2. DiskType'
      <3> DEFINE R == [data : Seq(0 .. MaxRecords), dur : 0 .. MaxRecords]
      <3>1. ASSUME NEW f \in File
            PROVE  wal'[f] \in R
        <4>1. /\ wal'[f].data \in Seq(0 .. MaxRecords) /\ wal'[f] = Durable(wal'[f].data)
              /\ Len(wal'[f].data) <= Len(wal[f].data)
          BY <1>c
        <4>2. Len(wal[f].data) \in Nat /\ Len(wal[f].data) <= MaxRecords /\ MaxRecords \in Nat
          <5>1. Len(wal[f].data) <= written /\ written \in Nat /\ written <= MaxRecords
            BY <1>t, Ranges DEF Stored, DataInv
          <5>2. Len(wal[f].data) \in Nat /\ MaxRecords \in Nat
            BY <1>t, FileRanges, WalAssumption
          <5>3. QED
            BY <5>1, <5>2
        <4>3. Len(wal'[f].data) \in 0 .. MaxRecords
          BY <4>1, <4>2
        <4>4. QED
          BY <4>1, <4>3 DEF Durable
      <3>2. PICK n \in 0 .. MaxRecords, more \in {<<>>, <<Torn>>} :
               wal' = [g \in File |-> Cut(wal[g], n, more)]
        BY DEF PowerLoss
      <3>3. wal' \in [File -> R]
        BY <3>1, <3>2
      <3>4. QED
        BY <1>0, <2>1, <3>3 DEF DiskType, PowerLoss, Stop, Close
    <2>3. NumType'
      BY <2>1, WalAssumption DEF NumType, PowerLoss, Stop, Close
    <2>4. FileType'
      BY <2>1 DEF FileType, PowerLoss, Stop, Close
    <2>5. WordType'
      BY <2>1 DEF WordType, Step, Goal, State, Result, PowerLoss, Stop, Close
    <2>6. QED
      BY <2>2, <2>3, <2>4, <2>5, TypePartsNext
  <1>2. Stored' /\ \A r \in Readable' : r >= floor => r \in Readable
    <2>1. /\ intents' = intents /\ files' = files /\ acked' = acked /\ floor' = floor
          /\ written' = written
      BY DEF PowerLoss, Stop, Close
    <2>2. \A e : Rec(e)' = Rec(e) /\ Read(e)' = Read(e) /\ Void(e)' = Void(e)
      <3>1. \A e : Rec(e)' = Rec(e)
        BY <2>1 DEF Rec
      <3>2. QED
        BY <3>1 DEF Read, Void
    <2>3. Now' = Read(d)
      BY <1>0, <2>1 DEF Now, Read, Rec
    <2>4. Good(d)
      BY <1>0, <1>t DEF Stored, DirInv
    <2>5. DirInv'
      <3>1. d.intent # NoFile => Emptied(Rec(d))'
        <4> SUFFICES ASSUME d.intent # NoFile, Rec(d).st \in Done
                     PROVE  wal'[Rec(d).pred].data = <<>>
          BY <2>2 DEF Emptied
        <4>1. Rec(d).pred \in File /\ wal[Rec(d).pred].data = <<>>
          BY <1>t, <2>4, Ranges DEF Good, Known, Emptied, File
        <4>2. QED
          BY <1>e, <4>1
      <3>2. Good(d)'
        BY <2>1, <2>2, <2>4, <3>1 DEF Good, Void, Known, Fits
      <3>3. QED
        BY <1>0, <3>2 DEF DirInv
    <2>6. Agree' /\ SettledInv'
      <3>1. \A e \in Dirs' : Read(e)' = Now'
        BY <1>0, <2>2, <2>3
      <3>2. Alone'
        BY <1>0 DEF Alone
      <3>3. QED
        BY <3>1, <3>2 DEF Agree, SettledInv
    <2>7. Unused'
      <3> SUFFICES ASSUME NEW f \in File, f > files
                   PROVE  wal'[f] = Durable(<<>>)
        BY <2>1 DEF Unused, Durable
      <3>1. wal[f].data = <<>>
        BY <1>t DEF Stored, Unused, Durable
      <3>2. QED
        BY <1>c, <1>e, <3>1
    <2>8. DataInv'
      <3> SUFFICES ASSUME NEW f \in File
                   PROVE  /\ wal'[f].dur <= Len(wal'[f].data) /\ Len(wal'[f].data) <= written'
                          /\ \A i \in 1 .. Len(wal'[f].data) : wal'[f].data[i] <= written'
                          /\ Decodes(f)'
        BY DEF DataInv
      <3>1. /\ wal'[f].data \in Seq(0 .. MaxRecords) /\ wal'[f] = Durable(wal'[f].data)
            /\ Len(wal'[f].data) <= Len(wal[f].data) /\ Len(wal[f].data) <= written
            /\ \A i \in 1 .. Len(wal'[f].data) : wal'[f].data[i] <= written
            /\ Decodes(f)'
        BY <1>c, <1>t DEF Stored, DataInv
      <3>2. Len(wal'[f].data) \in Nat /\ Len(wal[f].data) \in Nat /\ written \in Nat
        BY <1>t, <3>1, FileRanges, Ranges
      <3>3. wal'[f].dur = Len(wal'[f].data)
        BY <3>1 DEF Durable
      <3>4. QED
        BY <2>1, <3>1, <3>2, <3>3
    <2>9. Covers'
      <3> SUFFICES ASSUME NEW e \in Dirs', Read(e)' # NoFile
                   PROVE  /\ Kepts(acked)' \subseteq DurItems(Read(e))'
                          /\ Kepts(Items(Read(e)))' \subseteq Items(Now)'
        BY DEF Covers
      <3> PICK g : g = Read(d)
        OBVIOUS
      <3>1. e = d /\ Read(e)' = g /\ Now' = g /\ g # NoFile
        BY <1>0, <2>2, <2>3
      <3>2. g \in File /\ Kepts(acked) \subseteq DurItems(g)
        BY <1>0, <1>t, <3>1, ReadKnown DEF Stored, Covers
      <3>3. DurItems(g) \subseteq DurItems(g)' /\ Kepts(acked)' = Kepts(acked)
        BY <1>c, <2>1, <3>2 DEF Kepts
      <3>4. DurItems(Read(e))' = DurItems(g)' /\ Kepts(Items(Read(e)))' \subseteq Items(Now)'
        BY <3>1 DEF DurItems, Items, Kepts
      <3>5. QED
        BY <3>2, <3>3, <3>4
    <2>10. VoidInv'
      <3>1. \A e \in Dirs' : Void(e)' => acked' = {}
        BY <1>0, <1>t, <2>1, <2>2 DEF Stored, VoidInv
      <3>2. \A i, j \in 1 .. 1 : ~(i < j)
        OBVIOUS
      <3>3. QED
        BY <1>0, <3>1, <3>2 DEF VoidInv
    <2>11. \A r \in Readable' : r >= floor => r \in Readable
      <3> SUFFICES ASSUME NEW r \in Readable', r >= floor
                   PROVE  r \in Readable
        OBVIOUS
      <3>1. (Readable = IF Void(Cur) THEN {} ELSE Items(Now))'
        BY ReadableIs, PTL
      <3>2. ~Void(d) /\ r \in Items(Now)'
        BY <1>0, <3>1 DEF Void
      <3> PICK g : g = Read(d)
        OBVIOUS
      <3>3. g # NoFile /\ g \in File
        <4>1. g # NoFile
          BY <1>t, <2>4, <3>2, Ranges DEF Read, Void, Good, Known, NoFile
        <4>2. QED
          BY <1>0, <1>t, <4>1, ReadKnown
      <3>4. r \in Items(g)
        <4>1. r \in Items(g)'
          BY <2>3, <3>2 DEF Items
        <4>2. QED
          BY <1>c, <3>3, <4>1
      <3>5. r \in Items(Now)
        BY <1>0, <1>t, <3>3, <3>4 DEF Stored, Covers, Kepts
      <3>6. ~Void(Cur)
        <4>1. PICK i \in 1 .. Len(dirs) : d = dirs[i]
          BY <1>0 DEF Dirs
        <4>2. Len(dirs) \in 1 .. Len(dirs) /\ (i = Len(dirs) \/ i < Len(dirs))
          BY SMTT(30), <1>t DEF TypeOK
        <4>3. QED
          BY <1>t, <3>2, <4>1, <4>2 DEF Stored, VoidInv, Cur
      <3>7. QED
        BY <3>5, <3>6, ReadableIs
    <2>12. QED
      BY <2>5, <2>6, <2>7, <2>8, <2>9, <2>10, <2>11 DEF Stored
  <1>3. ResultInv'
    <2>1. \A e : Read(e)' = Read(e)
      BY DEF Read, Rec, PowerLoss, Stop, Close
    <2>2. result' \in {result, "None"} /\ before' = before /\ Dirs' \subseteq Dirs
      BY <1>0 DEF PowerLoss, Stop, Close
    <2>3. QED
      BY <2>1, <2>2 DEF IInv, ResultInv
  <1>4. Control'
    BY <1>1, ClosedFacts DEF TypeOK, PowerLoss, Stop, Close, Close
  <1>5. QED
    BY <1>1, <1>2, <1>3, <1>4 DEF IInv, PowerLoss, Stop, Close

\* The predecessor is cut to nothing: every directory makes the replacement the log,
\* and holds the guard of the predecessor.
LEMMA ResolveCleanupArmedKeeps ==
    ASSUME IInv, ResolveCleanupArmed
    PROVE  IInv' /\ Same
  <1>t. TypeOK /\ Stored
    BY DEF IInv
  <1> PICK h : h = Latest.pred
    OBVIOUS
  <1>a. /\ h \in File /\ Known(h) /\ Alone /\ Cur.wal = Latest.repl /\ Cur.wal # h
        /\ handle = Cur.wal
        /\ Cur.wal # NoFile /\ Cur.wal \in File /\ Latest.st = "CleanupArmed" /\ Pending
        /\ Latest.repl \in File /\ goal \in {"open", "finish"}
    <2>1. Pending /\ handle = Cur.wal /\ Cur.wal # NoFile /\ Latest.st = "CleanupArmed"
      BY DEF IInv, Control, IntentInv, HandleInv, PostUnlink, ResolveCleanupArmed, Resolving
    <2>2. goal \in {"open", "finish"}
      BY <2>1 DEF IInv, Control, GoalInv, BeforeInv, Resuming, EarlyState, ResolveCleanupArmed,
         Resolving
    <2>3. /\ Latest.pred \in File /\ Latest.repl \in File /\ Known(Latest.pred)
          /\ Latest.pred # Latest.repl /\ Fits(Latest, Cur) /\ Alone
      BY <1>t, <2>1, PendingFacts
    <2>4. Cur.wal = Latest.repl
      BY <2>1, <2>3 DEF Fits, EarlyState, Done
    <2>5. QED
      BY <2>1, <2>2, <2>3, <2>4
  <1>w. wal' = [wal EXCEPT ![h] = Durable(<<>>)]
    BY DEF ResolveCleanupArmed
  <1>1. TypeOK'
    <2>1. DiskType /\ NumType /\ FileType /\ WordType
      BY TypeParts DEF IInv
    <2>2. DiskType'
      <3> DEFINE R == [data : Seq(0 .. MaxRecords), dur : 0 .. MaxRecords]
      <3>1. wal \in [File -> R]
        BY <2>1 DEF DiskType
      <3>2. Durable(<<>>) \in R
        BY WalAssumption DEF Durable
      <3>3. wal' \in [File -> R]
        BY <1>w, <3>1, <3>2
      <3>4. QED
        BY <2>1, <3>3 DEF DiskType, ResolveCleanupArmed, Resolving, TakeUp, Persist, hist, bound
    <2>3. NumType'
      BY <2>1, WalAssumption DEF NumType, ResolveCleanupArmed, Resolving, TakeUp, Persist, hist,
         bound
    <2>4. FileType'
      BY <1>a, <2>1 DEF FileType, ResolveCleanupArmed, Resolving, TakeUp, Persist, hist, bound
    <2>5. WordType'
      BY <2>1 DEF WordType, Step, Goal, State, Result, ResolveCleanupArmed, Resolving, TakeUp,
         Persist, hist, bound
    <2>6. QED
      BY <2>2, <2>3, <2>4, <2>5, TypePartsNext
  <1>2. /\ Stored' /\ Same /\ Cur' = Cur /\ Pending' = Pending /\ Latest' = Latest /\ Alone'
        /\ (result' = result /\ before' = before => ResultInv')
    <2>1. /\ dirs' = dirs /\ intents' = intents /\ files' = files /\ acked' = acked
          /\ floor' = floor
          /\ written' = written
      BY DEF ResolveCleanupArmed, Resolving, TakeUp, Persist, hist, bound
    <2>2. Cur' = Cur /\ Dirs' = Dirs /\ Cur \in Dirs
      BY <1>t, <2>1, DirsFacts DEF Cur, Dirs
    <2>3. /\ wal'[h].data = <<>> /\ wal'[h].dur = 0 /\ \A f \in File : f # h => wal'[f] = wal[f]
      BY <1>a, <1>t, <1>w DEF TypeOK, Durable
    <2>4. /\ DirInv' /\ Agree' /\ SettledInv' /\ Unused' /\ DataInv'
          /\ Pending' = Pending /\ Latest' = Latest /\ (Alone => Alone')
          /\ (result' = result /\ before' = before => ResultInv')
      <3>1. written \in Nat
        BY <1>t, Ranges
      <3>2. /\ written' >= written /\ wal'[h].dur <= Len(wal'[h].data)
            /\ Len(wal'[h].data) <= written'
            /\ \A i \in 1 .. Len(wal'[h].data) : wal'[h].data[i] <= written'
        BY <2>1, <2>3, <3>1
      <3>3. Decodes(h)'
        BY <2>3 DEF Decodes
      <3>4. QED
        BY <1>1, <1>a, <2>1, <2>2, <2>3, <3>2, <3>3, WroteFacts
    <2>5. VoidInv'
      BY <1>t, <2>1, <2>2 DEF Stored, VoidInv, Void
    <2> PICK g : g = Cur.wal
      OBVIOUS
    <2>6. g \in File /\ wal'[g] = wal[g]
      BY <1>a, <2>3
    <2>7. Items(g)' = Items(g) /\ DurItems(g)' = DurItems(g)
      BY <2>6, SameFile
    <2>8. Covers'
      <3> SUFFICES ASSUME NEW e \in Dirs'
                   PROVE  /\ Kepts(acked)' \subseteq DurItems(Read(e))'
                          /\ Kepts(Items(Read(e)))' \subseteq Items(Now)'
        BY DEF Covers
      <3>1. e = Cur /\ g # NoFile
        BY <1>a, <2>2 DEF Alone
      <3>2. Read(e)' = g /\ Now' = g /\ Read(Cur) = g
        BY <2>2, <3>1 DEF Read, Now
      <3>3. Kepts(acked) \subseteq DurItems(g) /\ Kepts(acked)' = Kepts(acked)
        BY <1>t, <2>1, <2>2, <3>1, <3>2 DEF Stored, Covers, Kepts
      <3>4. DurItems(Read(e))' = DurItems(g)' /\ Kepts(Items(Read(e)))' \subseteq Items(Now)'
        BY <3>2 DEF DurItems, Items, Kepts
      <3>5. QED
        BY <2>7, <3>3, <3>4
    <2>9. Readable' = Readable
      BY <1>t, <2>2, <2>6, <2>7, ReadableOpen
    <2>10. QED
      BY <1>a, <2>1, <2>2, <2>4, <2>5, <2>8, <2>9 DEF Stored, Same
  <1>3. ResultInv'
    BY <1>2 DEF ResolveCleanupArmed, Resolving, TakeUp, Persist, hist, bound
  <1>4. /\ Whole' = Whole /\ Ready' /\ want' = "Cleaned" /\ pred' = Latest.pred
        /\ repl' = Latest.repl
        /\ handle' = handle /\ goal' = goal
    <2>1. /\ want' = "Cleaned" /\ pred' = Latest.pred /\ repl' = Latest.repl /\ handle' = handle
          /\ goal' = goal
      BY DEF ResolveCleanupArmed, Resolving, TakeUp, Persist, hist, bound
    <2>2. wal'[handle] = wal[handle] /\ wal'[h].data = <<>>
      BY <1>a, <1>t, <1>w DEF TypeOK, Durable
    <2>3. Whole' = Whole
      BY <2>1, <2>2 DEF Whole, NoTorn
    <2>4. Ready'
      BY <1>a, <2>1, <2>2 DEF Ready, Emptied, Wanted
    <2>5. QED
      BY <2>1, <2>3, <2>4
  <1>5. HandleInv'
    BY <1>a, <1>2, <1>4 DEF IInv, Control, HandleInv, PostUnlink, ResolveCleanupArmed,
       Resolving, TakeUp, Persist, hist, bound
  <1>6. GoalInv'
    BY <1>a, <1>2, <1>4 DEF IInv, Control, GoalInv, Step, Steps, Building, Writing, PostUnlink,
       Resuming, State, ResolveCleanupArmed, Resolving, TakeUp, Persist, hist, bound
  <1>7. BeforeInv'
    BY <1>a, <1>2, <1>4 DEF IInv, Control, BeforeInv, Writing, PostUnlink, EarlyState,
       ResolveCleanupArmed, Resolving, TakeUp, Persist, hist, bound
  <1>8. IntentInv'
    BY <1>a, <1>2, <1>4 DEF IInv, Control, IntentInv, Writing, Clearing, EarlyState, Done,
       ResolveCleanupArmed, Resolving, TakeUp, Persist, hist, bound
  <1>9. PersistInv'
    BY <1>a, <1>2, <1>4 DEF IInv, Control, PersistInv, EarlyState, ResolveCleanupArmed,
       Resolving, TakeUp, Persist, hist, bound
  <1>10. BuildInv'
    BY <1>a, <1>2, <1>4 DEF IInv, Control, BuildInv, Building, Writing, PostUnlink,
       ResolveCleanupArmed, Resolving, TakeUp, Persist, hist, bound
  <1>11. QED
    BY <1>1, <1>2, <1>3, <1>5, <1>6, <1>7, <1>8, <1>9, <1>10 DEF IInv, Control, Same

---------------------------------------------------------------------------
(* The invariant.                                                          *)

\* Initially nothing exists.
LEMMA InitHolds == Init => IInv
  <1> SUFFICES ASSUME Init
               PROVE  IInv
    OBVIOUS
  <1> PICK d : d = [wal |-> NoFile, intent |-> NoFile, guards |-> {}, temps |-> {}]
    OBVIOUS
  <1>1. /\ d \in Dir /\ d.wal = NoFile /\ d.intent = NoFile /\ d.guards = {} /\ d.temps = {}
    BY DEF Dir
  <1>2. dirs = <<d>> /\ dirs \in Seq(Dir) /\ Len(dirs) = 1 /\ dirs[1] = d
    BY <1>1 DEF Init
  <1>3. Cur = d /\ Dirs = {d}
    <2>1. 1 .. 1 = {1}
      OBVIOUS
    <2>2. QED
      BY <1>2, <2>1 DEF Cur, Dirs
  <1>4. Void(d) /\ Read(d) = NoFile /\ Now = NoFile /\ ~Pending /\ Alone
    BY <1>1, <1>3 DEF Void, Read, Now, Pending, Alone
  <1>5. \A f \in File : wal[f].data = <<>> /\ wal[f].dur = 0 /\ wal[f] = Durable(<<>>)
    BY DEF Init, Durable
  <1>6. TypeOK
    <2>1. Durable(<<>>) \in [data : Seq(0 .. MaxRecords), dur : 0 .. MaxRecords]
      BY WalAssumption DEF Durable
    <2>2. DiskType
      BY <1>2, <2>1, WalAssumption DEF DiskType, Init
    <2>3. NumType
      BY WalAssumption DEF NumType, Init
    <2>4. FileType /\ WordType
      BY DEF FileType, WordType, Step, Goal, State, Result, Init
    <2>5. QED
      BY <2>2, <2>3, <2>4, TypeParts
  <1>7. DirInv /\ Agree /\ SettledInv /\ Unused /\ Covers
    BY <1>1, <1>3, <1>4, <1>5 DEF DirInv, Good, Void, Agree, SettledInv, Unused, Covers
  <1>8. DataInv
    <2>1. written = 0
      BY DEF Init
    <2>2. QED
      BY <1>5, <2>1 DEF DataInv, Decodes
  <1>9. VoidInv
    <2>1. \A i, j \in 1 .. 1 : ~(i < j)
      OBVIOUS
    <2>2. acked = {}
      BY DEF Init
    <2>3. QED
      BY <1>2, <2>1, <2>2 DEF VoidInv
  <1>10. HandleInv /\ GoalInv /\ BeforeInv /\ IntentInv /\ PersistInv /\ BuildInv
    BY DEF Init, HandleInv, GoalInv, BeforeInv, IntentInv, PersistInv, BuildInv, Building,
       Writing, PostUnlink, Clearing, Step, Steps, State
  <1>11. ResultInv
    BY DEF Init, ResultInv
  <1>12. QED
    BY <1>6, <1>7, <1>8, <1>9, <1>10, <1>11 DEF IInv, Stored, Control

\* What is acknowledged can be read.
LEMMA AckedReadable == IInv => Kepts(acked) \subseteq Readable
  <1> SUFFICES ASSUME IInv
               PROVE  Kepts(acked) \subseteq Readable
    OBVIOUS
  <1>1. TypeOK /\ Stored /\ Cur \in Dirs
    BY DirsFacts DEF IInv
  <1>2. CASE Void(Cur)
    BY <1>1, <1>2 DEF Stored, VoidInv, Kepts
  <1>3. CASE ~Void(Cur)
    <2> PICK g : g = Now
      OBVIOUS
    <2>1. g # NoFile
      <3>1. Good(Cur)
        BY <1>1 DEF Stored, DirInv
      <3>2. QED
        BY <1>1, <1>3, <3>1, Ranges DEF Now, Read, Void, Good, Known, NoFile
    <2>2. g \in File /\ Kepts(acked) \subseteq DurItems(g)
      BY <1>1, <2>1, ReadKnown DEF Stored, Covers, Now
    <2>3. \A r \in acked : r # Torn
      BY <1>1, Ranges DEF Torn
    <2>4. \A i \in 1 .. wal[g].dur : i \in 1 .. Len(wal[g].data)
      <3>1. wal[g].dur <= Len(wal[g].data)
        BY <1>1, <2>2 DEF Stored, DataInv
      <3>2. wal[g].dur \in Nat /\ Len(wal[g].data) \in Nat
        BY <1>1, <2>2, FileRanges
      <3>3. QED
        BY <3>1, <3>2
    <2>5. DurItems(g) \ {Torn} \subseteq Items(g)
      BY <2>4 DEF DurItems, Items
    <2>6. Readable = Items(g)
      BY <1>3, ReadableIs
    <2>7. QED
      BY <2>2, <2>3, <2>5, <2>6 DEF Kepts
  <1>4. QED
    BY <1>2, <1>3

\* A step as a reader sees it.
Promised ==
    \/ Same
    \/ /\ acked' = acked /\ floor' = floor /\ Readable' = Readable \cup {written'}
       /\ \A r \in Readable : r < written'
    \/ acked' = acked \cup Readable /\ floor' = floor /\ Readable' = Readable
    \/ acked' = acked /\ floor' >= floor /\ Readable' = Readable
    \/ acked' = acked /\ floor' = floor /\ \A r \in Readable' : r >= floor => r \in Readable

\* Every step keeps the invariant.
LEMMA StepKeeps == IInv /\ [Next]_vars => IInv' /\ Promised
  <1> SUFFICES ASSUME IInv, [Next]_vars
               PROVE  IInv' /\ Promised
    OBVIOUS
  <1>1. CASE UNCHANGED vars
    <2>1. Cur' = Cur /\ Dirs' = Dirs /\ dirs' = dirs /\ wal' = wal /\ intents' = intents
      BY <1>1 DEF vars, disk, Cur, Dirs
    <2>2. Readable' = Readable
      BY <2>1 DEF Readable, Items, Pending, Latest
    <2>4. UNCHANGED disk /\ pc' = pc /\ UNCHANGED proc /\ UNCHANGED hist /\ UNCHANGED bound
      BY <1>1 DEF vars
    <2>5. TypeOK'
      BY <2>4 DEF IInv, TypeOK, disk, proc, hist, bound
    <2>6. Stored' /\ ResultInv' /\ Pending' = Pending /\ Latest' = Latest /\ Alone' = Alone
      <3>1. floor' \in Nat /\ floor' >= floor
        BY <2>4, Ranges DEF IInv, hist
      <3>2. QED
        BY <2>4, <2>5, <3>1, SameDiskFacts DEF hist
    <2>7. /\ Whole' = Whole /\ Synced' = Synced /\ Exact' = Exact /\ Existing' = Existing
          /\ Ready' = Ready /\ Fitting' = Fitting /\ Drafted' = Drafted /\ Wanted' = Wanted
      BY <2>1, <2>4, SameProc, SameWanted DEF disk, proc, hist
    <2>8. HandleInv' /\ GoalInv' /\ BeforeInv' /\ IntentInv'
      BY <2>1, <2>4, <2>6, <2>7 DEF IInv, Control, HandleInv, GoalInv, BeforeInv, IntentInv,
         Building, proc, hist
    <2>9. PersistInv' /\ BuildInv'
      BY <2>1, <2>4, <2>6, <2>7 DEF IInv, Control, PersistInv, BuildInv, Building, proc, hist
    <2>10. QED
      BY <2>2, <2>4, <2>5, <2>6, <2>8, <2>9 DEF IInv, Control, Promised, Same, hist
  <1>2. CASE Opening
    <2>1. CASE OpenExisting
      BY <2>1, OpenExistingKeeps DEF Promised
    <2>2. CASE CreateNew
      BY <2>2, CreateNewKeeps DEF Promised
    <2>3. CASE RestoreMissingCanonical
      BY <2>3, RestoreMissingCanonicalKeeps DEF Promised
    <2>4. CASE RestoreFlush
      BY <2>4, RestoreFlushKeeps DEF Promised
    <2>5. CASE NoOrphans
      BY <2>5, NoOrphansKeeps DEF Promised
    <2>6. CASE CleanupOrphans
      BY <2>6, CleanupOrphansKeeps DEF Promised
    <2>7. CASE OrphansFlush
      BY <2>7, OrphansFlushKeeps DEF Promised
    <2>8. CASE Inspect
      BY <2>8, InspectKeeps DEF Promised
    <2>9. QED
      BY <1>2, <2>1, <2>2, <2>3, <2>4, <2>5, <2>6, <2>7, <2>8 DEF Opening
  <1>3. CASE Persistence
    <2>1. CASE PersistAppend
      BY <2>1, PersistAppendKeeps DEF Promised
    <2>2. CASE PersistFlush
      BY <2>2, PersistFlushKeeps DEF Promised
    <2>3. CASE PersistTemp
      BY <2>3, PersistTempKeeps DEF Promised
    <2>4. CASE PersistRename
      BY <2>4, PersistRenameKeeps DEF Promised
    <2>5. CASE PersistDirFlush
      BY <2>5, PersistDirFlushKeeps DEF Promised
    <2>6. CASE ClearIntent
      BY <2>6, ClearIntentKeeps DEF Promised
    <2>7. CASE ClearFlush
      BY <2>7, ClearFlushKeeps DEF Promised
    <2>8. QED
      BY <1>3, <2>1, <2>2, <2>3, <2>4, <2>5, <2>6, <2>7 DEF Persistence
  <1>4. CASE Resolution
    <2>1. CASE Resolve
      BY <2>1, ResolveKeeps DEF Promised
    <2>2. CASE ResolveReplacement
      BY <2>2, ResolveReplacementKeeps DEF Promised
    <2>3. CASE ResolveCheckpointed
      BY <2>3, ResolveCheckpointedKeeps DEF Promised
    <2>4. CASE ResolveCleanupArmed
      BY <2>4, ResolveCleanupArmedKeeps DEF Promised
    <2>5. CASE ResolveCleaned
      BY <2>5, ResolveCleanedKeeps DEF Promised
    <2>6. CASE RollBackGuard
      BY <2>6, RollBackGuardKeeps DEF Promised
    <2>7. CASE RollBackFlush
      BY <2>7, RollBackFlushKeeps DEF Promised
    <2>8. CASE NothingRetained
      BY <2>8, NothingRetainedKeeps DEF Promised
    <2>9. CASE DeleteRetained
      BY <2>9, DeleteRetainedKeeps DEF Promised
    <2>10. CASE RetainedFlush
      BY <2>10, RetainedFlushKeeps DEF Promised
    <2>11. CASE Resolved
      BY <2>11, ResolvedKeeps DEF Promised
    <2>12. QED
      BY <1>4, <2>1, <2>2, <2>3, <2>4, <2>5, <2>6, <2>7, <2>8, <2>9, <2>10, <2>11 DEF Resolution
  <1>5. CASE Compaction
    <2>1. CASE DeleteTombstone
      BY <2>1, DeleteTombstoneKeeps DEF Promised
    <2>2. CASE TombstoneFlush
      BY <2>2, TombstoneFlushKeeps DEF Promised
    <2>3. CASE WriteTemp
      BY <2>3, WriteTempKeeps DEF Promised
    <2>4. CASE CreateHardLink
      BY <2>4, CreateHardLinkKeeps DEF Promised
    <2>5. CASE LinkFlush
      BY <2>5, LinkFlushKeeps DEF Promised
    <2>6. CASE ArmPublish
      BY <2>6, ArmPublishKeeps DEF Promised
    <2>7. CASE UnlinkCanonical
      BY <2>7, UnlinkCanonicalKeeps DEF Promised
    <2>8. CASE UnlinkFlush
      BY <2>8, UnlinkFlushKeeps DEF Promised
    <2>9. CASE RenameReplacement
      BY <2>9, RenameReplacementKeeps DEF Promised
    <2>10. CASE RenameFlush
      BY <2>10, RenameFlushKeeps DEF Promised
    <2>11. CASE Reopen
      BY <2>11, ReopenKeeps DEF Promised
    <2>12. CASE Abandon
      BY <2>12, AbandonKeeps DEF Promised
    <2>13. CASE AbandonFlush
      BY <2>13, AbandonFlushKeeps DEF Promised
    <2>14. CASE Failed
      BY <2>14, FailedKeeps DEF Promised
    <2>15. QED
      BY <1>5, <2>1, <2>2, <2>3, <2>4, <2>5, <2>6, <2>7, <2>8, <2>9, <2>10, <2>11, <2>12, <2>13,
         <2>14 DEF Compaction
  <1>6. CASE Failure
    <2>1. CASE ClearRestored
      BY <2>1, ClearRestoredKeeps DEF Promised
    <2>2. CASE AppendTorn
      BY <2>2, AppendTornKeeps DEF Promised
    <2>3. CASE TempFails
      BY <2>3, TempFailsKeeps DEF Promised
    <2>4. CASE PrepareFails
      BY <2>4, PrepareFailsKeeps DEF Promised
    <2>5. CASE LinkFails
      BY <2>5, LinkFailsKeeps DEF Promised
    <2>6. CASE GuardFails
      BY <2>6, GuardFailsKeeps DEF Promised
    <2>7. CASE AbandonFails
      BY <2>7, AbandonFailsKeeps DEF Promised
    <2>8. CASE CallFails
      BY <2>8, CallFailsKeeps DEF Promised
    <2>9. CASE FlushFails
      BY <2>9, FlushFailsKeeps DEF Promised
    <2>10. QED
      BY <1>6, <2>1, <2>2, <2>3, <2>4, <2>5, <2>6, <2>7, <2>8, <2>9 DEF Failure
  <1>7. CASE AppendRecord
    BY <1>7, AppendRecordKeeps DEF Promised
  <1>8. CASE FlushPendingAppends
    BY <1>8, FlushPendingAppendsKeeps DEF Promised
  <1>9. CASE \E f \in 1 .. MaxRecords + 1 : BeginCompaction(f)
    <2>1. PICK f \in 1 .. MaxRecords + 1 : BeginCompaction(f)
      BY <1>9
    <2>2. QED
      BY <2>1, BeginCompactionKeeps DEF Promised
  <1>10. CASE ProcessEnds
    BY <1>10, ProcessEndsKeeps DEF Promised
  <1>11. CASE PowerLoss
    BY <1>11, PowerLossKeeps DEF Promised
  <1>12. QED
    BY <1>1, <1>2, <1>3, <1>4, <1>5, <1>6, <1>7, <1>8, <1>9, <1>10, <1>11 DEF Next, Client

\* The invariant that the following theorems rest on, for any number of files,
\* records, failing calls and crashes.
THEOREM WalInvariant == Spec => []IInv
  BY InitHolds, StepKeeps, PTL DEF Spec

\* The variables of the log and of its directory have their types, whatever
\* sequence of calls, failures and power losses there was.
THEOREM WalTypeCorrect == Spec => []TypeOK
  <1>1. IInv => TypeOK
    BY DEF IInv
  <1>2. QED
    BY <1>1, WalInvariant, PTL

\* No crash and no failing call leaves a directory that EnsureAppendHandle,
\* PersistCompactionIntent or ResolvePendingCompactionIntent refuses.
THEOREM WalNeverRefused == Spec => []NeverRefused
  <1>1. IInv => NeverRefused
    BY DEF IInv, Control, GoalInv, Steps, NeverRefused
  <1>2. QED
    BY <1>1, WalInvariant, PTL

\* What a compaction reported is true of every log that is opened later: it is
\* the old file after RejectedBeforeWrite, and another after Succeeded.
THEOREM WalResultStands == Spec => []ResultStands
  <1>1. IInv => ResultStands
    <2> SUFFICES ASSUME IInv, pc = "ready"
                 PROVE  /\ result = "RejectedBeforeWrite" => handle = before
                        /\ result = "Succeeded" => handle # before
      BY DEF ResultStands
    <2>1. handle = Cur.wal /\ handle # NoFile
      BY DEF IInv, Control, HandleInv, PostUnlink
    <2>2. Cur \in Dirs /\ Read(Cur) = Cur.wal
      BY <2>1, DirsFacts DEF IInv, Read
    <2>3. QED
      BY <2>1, <2>2 DEF IInv, ResultInv
  <1>2. QED
    BY <1>1, WalInvariant, PTL

---------------------------------------------------------------------------
(* The refinement.                                                         *)

\* At first nothing can be read and nothing was promised.
LEMMA InitImplements == Init => Abstract!Init
  <1> SUFFICES ASSUME Init
               PROVE  Readable = {} /\ acked = {} /\ floor = 1
    BY DEF Abstract!Init
  <1>1. Cur.wal = NoFile /\ ~Pending
    BY DEF Init, Cur, Pending
  <1>2. QED
    BY <1>1 DEF Init, Readable

\* Every step is one of the steps of the promise, or changes nothing of it.
LEMMA StepImplements ==
    IInv /\ IInv' /\ Promised => [Abstract!Next]_(Abstract!vars)
  <1> SUFFICES ASSUME IInv, IInv', Promised
               PROVE  [Abstract!Next]_(Abstract!vars)
    OBVIOUS
  <1>1. CASE Same
    BY <1>1 DEF Same, Abstract!vars
  <1>2. CASE /\ acked' = acked /\ floor' = floor /\ Readable' = Readable \cup {written'}
             /\ \A r \in Readable : r < written'
    BY <1>2 DEF Abstract!Next, Abstract!Write
  <1>3. CASE acked' = acked \cup Readable /\ floor' = floor /\ Readable' = Readable
    BY <1>3 DEF Abstract!Next, Abstract!Flush
  <1>4. CASE acked' = acked /\ floor' >= floor /\ Readable' = Readable
    BY <1>4 DEF Abstract!Next, Abstract!AskCompaction
  <1>5. CASE acked' = acked /\ floor' = floor /\ \A r \in Readable' : r >= floor => r \in Readable
    <2>1. (IInv => Kepts(acked) \subseteq Readable)'
      BY AckedReadable, PTL
    <2>2. {r \in acked : r >= floor} \subseteq Readable'
      BY <1>5, <2>1 DEF Kepts
    <2>3. Abstract!Change
      BY <1>5, <2>2 DEF Abstract!Change, Abstract!AtOrAbove
    <2>4. QED
      BY <2>3 DEF Abstract!Next
  <1>6. QED
    BY <1>1, <1>2, <1>3, <1>4, <1>5 DEF Promised

\* The log with its directory, its intent file and its two log files keeps what
\* DurableLog promises: a record that was acknowledged and lies at or above the
\* floor stays readable through every compaction, failure and power loss, and a
\* record that is gone does not come back.
THEOREM WalImplementsDurableLog == Spec => ImplementsDurableLog
  <1>1. IInv /\ [Next]_vars => [Abstract!Next]_(Abstract!vars)
    BY StepKeeps, StepImplements
  <1>2. QED
    BY <1>1, InitImplements, WalInvariant, PTL DEF Spec, ImplementsDurableLog, Abstract!Spec

=============================================================================
