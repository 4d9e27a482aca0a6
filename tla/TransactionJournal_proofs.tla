---------------------- MODULE TransactionJournal_proofs ----------------------
(***************************************************************************)
(* Proofs about TransactionJournal: what a client was told is durable      *)
(* survives a power loss, and what was marked durable is not replayed.     *)
(*                                                                         *)
(* Neither is inductive.  A compaction drops records from the front of the *)
(* log, so the invariant says which records it may not drop: the accept    *)
(* markers of transactions that no checkpoint holds lie behind every       *)
(* commit marker and every durable watermark's target (OpenInv), and those *)
(* that are marked have a durable watermark behind them in the log, which  *)
(* the floor cannot pass before it passes the marker (MarkedInv).  That a  *)
(* waiter may be told its group is durable needs that every unflushed      *)
(* marker is covered by the pending sequence and not by the durable one,   *)
(* as long as the manager's state is known (WaitInv); that the numbers of  *)
(* records mean anything needs that a sequence number in use is never      *)
(* given out again, which Abort does with buffered ones (UsedInv, Low).    *)
(*                                                                         *)
(* That a start which admits the log also finds every record of what is    *)
(* outstanding in it is a second invariant, Admission, proved on top of    *)
(* the first: the validation of the log waives the count of prepared       *)
(* records for a marker at the compaction floor, and no marker is there    *)
(* unless a record behind it says that its transaction is in a checkpoint. *)
(***************************************************************************)
EXTENDS TransactionJournal, SequenceTheorems, WellFoundedInduction, TLAPS

\* The records of a log, those of the log and the durable ones among them.
Elems(l) == {l[i] : i \in 1 .. Len(l)}
All      == Elems(log)
Flushed  == {log[i] : i \in 1 .. synced}

\* The markers of accepted transactions, and of those that no checkpoint holds.
Accepts == {r \in All : r.kind = "Accepted"}
Open    == {r \in Accepts : r.id \notin published}

---------------------------------------------------------------------------
(* The log.                                                                *)

RecordOK(r) ==
    /\ r.seq \in 1 .. MaxSequence /\ r.tx <= begun
    /\ r.kind = "Accepted" => r.id \in 1 .. begun
    /\ r.kind \in {"Durable", "Cleaned"} => r.n < r.seq

RecordInv == \A r \in All : RecordOK(r)

\* A transaction is accepted once.
UniqueInv == \A q, r \in Accepts : q.id = r.id => q = r

\* What no checkpoint holds lies behind everything that is durable in one.
Behind(q, r) == /\ q.kind = "Committed" => q.seq < r.seq
                /\ q.kind = "Durable" => q.n < r.seq
OpenInv == \A r \in Open : \A q \in All : Behind(q, r)

\* What a client was told is on stable storage.
AckedInv == \A a \in acked \ published : \E r \in Flushed : r.kind = "Accepted" /\ r.id = a

\* What was marked has its watermark on stable storage, behind it in the log.
Covers(w, r) == w.kind = "Durable" /\ w.n >= r.seq /\ w.seq > r.seq
MarkedInv == \A r \in Accepts : r.id \in marked => \E w \in Flushed : Covers(w, r)

LogInv == RecordInv /\ UniqueInv /\ OpenInv /\ AckedInv /\ MarkedInv

---------------------------------------------------------------------------
(* The manager, as long as its state is known.                             *)

\* The first sequence number that is not in use.
Low == IF tm.buffered = <<>> THEN tm.nextSeq ELSE tm.buffered[1]

UsedInv ==
    /\ \A r \in All : r.kind # "Index" => r.seq < Low
    /\ tm.accepted < Low /\ tm.durable < Low
    /\ deferred.pending < Low /\ deferred.durable < Low
    /\ \A t \in Thread : waiter[t].seq < Low /\ waiter[t].target < Low

KnownInv ==
    /\ \A r \in Accepts : r.seq <= tm.accepted /\ (r.seq <= tm.durable => r.id \in published)
    /\ tm.cleaned <= tm.durable /\ \A s \in tm.bounds : s <= tm.accepted

BufferInv ==
    /\ \A i \in 1 .. Len(tm.buffered) : tm.buffered[i] >= Low /\ tm.buffered[i] < tm.nextSeq
    /\ \A i \in 1 .. Len(tm.pending) : tm.pending[i] >= 1 /\ tm.pending[i] < tm.nextSeq
    /\ Low >= 1 /\ (tm.st # "Active" => tm.buffered = <<>>)

ActiveInv ==
    tm.st = "Active" =>
        /\ host = "mounted" /\ tm.nextSeq <= MaxSequence
        /\ begun >= 1 /\ begun \notin marked \cup acked
        /\ \A r \in Accepts : r.id # begun

ManagerInv == tm.valid => UsedInv /\ KnownInv /\ BufferInv /\ ActiveInv

CountInv == tm.nextSeq <= MaxSequence + 1 /\ tm.nextTx <= begun + 1 /\ tm.tx <= begun

---------------------------------------------------------------------------
(* The waiting threads.                                                    *)

\* The marker r is waited for as one that is still to be flushed.
Awaited(r) ==
    /\ deferred.durable < r.seq /\ r.seq <= deferred.pending
    /\ \A t \in Thread : waiter[t].seq <= deferred.pending
    /\ tm.valid => /\ tm.accepted <= deferred.pending
                   /\ \A q \in All : q.kind \in {"Accepted", "Committed"} => q.seq <= deferred.pending

\* The append that wrote the marker r failed: nobody waits for it.
Forsaken(r) == ~tm.valid /\ \A t \in Thread : waiter[t].seq < r.seq

WaitInv ==
    IF host = "mounted" THEN \A r \in Open \ Flushed : Awaited(r) \/ Forsaken(r)
    ELSE \A t \in Thread : waiter[t] = NotWaiting

IInv == TypeOK /\ LogInv /\ ManagerInv /\ CountInv /\ WaitInv

---------------------------------------------------------------------------
(* Numbers and sequences.                                                  *)

\* A set of numbers that holds 0 and the successors of its members holds all.
LEMMA Induction ==
    ASSUME NEW T, T \subseteq Nat, 0 \in T, \A n \in T : n + 1 \in T
    PROVE  T = Nat
  <1> SUFFICES ASSUME Nat \ T # {} PROVE FALSE
    OBVIOUS
  <1>1. Nat \ T \subseteq Nat
    OBVIOUS
  <1>2. PICK x \in Nat \ T : \A y \in Nat \ T : ~(<<y, x>> \in OpToRel(<, Nat))
    BY <1>1, NatLessThanWellFounded, WFMin
  <1>3. \A y \in Nat \ T : ~(y < x)
    BY <1>2 DEF OpToRel
  <1>4. x # 0 /\ x - 1 \in Nat /\ x - 1 < x
    OBVIOUS
  <1>5. x - 1 \in T
    BY <1>3, <1>4
  <1>6. QED
    BY <1>4, <1>5

\* The largest of a set of numbers that has a bound.
LEMMA MaxOfIs ==
    ASSUME NEW S, S \subseteq Nat, NEW k \in Nat, \A x \in S : x <= k
    PROVE  /\ MaxOf(S) \in Nat /\ MaxOf(S) <= k
           /\ S # {} => MaxOf(S) \in S
           /\ S = {} => MaxOf(S) = 0
           /\ \A x \in S : x <= MaxOf(S)
  <1>1. CASE S = {}
    BY <1>1 DEF MaxOf
  <1>2. CASE S # {}
    <2> DEFINE B == {u \in Nat : \A x \in S : x <= u}
    <2>1. B \subseteq Nat /\ B # {}
      OBVIOUS
    <2>2. PICK u \in B : \A y \in B : ~(<<y, u>> \in OpToRel(<, Nat))
      BY <2>1, NatLessThanWellFounded, WFMin
    <2>3. \A y \in B : ~(y < u)
      BY <2>2 DEF OpToRel
    <2>4. u \in Nat /\ \A x \in S : x <= u
      OBVIOUS
    <2>5. u \in S
      <3> SUFFICES ASSUME u \notin S PROVE FALSE
        OBVIOUS
      <3>1. \A x \in S : x < u
        BY <2>4
      <3>2. u # 0
        <4>1. PICK x \in S : TRUE
          BY <1>2
        <4>2. x \in Nat /\ x < u
          BY <3>1
        <4>3. QED
          BY <4>2
      <3>3. u - 1 \in B
        BY <2>4, <3>1, <3>2
      <3>4. QED
        BY <2>3, <2>4, <3>3
    <2> HIDE DEF B
    <2>6. \E m \in S : \A x \in S : x <= m
      BY <2>4, <2>5
    <2>7. MaxOf(S) \in S /\ \A x \in S : x <= MaxOf(S)
      BY <1>2, <2>6 DEF MaxOf
    <2>8. QED
      BY <1>2, <2>7
  <1>3. QED
    BY <1>1, <1>2

\* The loop of Selected, made a definition.
Copying(l, I, n) ==
    CHOOSE c : c = [i \in 0 .. n |-> IF i = 0 THEN <<>>
                                     ELSE IF i \in I THEN Append(c[i - 1], l[i])
                                     ELSE c[i - 1]]

\* The loop is well defined.
LEMMA CopyingIs ==
    ASSUME NEW l, NEW I, NEW n \in Nat
    PROVE  Copying(l, I, n) =
             [i \in 0 .. n |-> IF i = 0 THEN <<>>
                               ELSE IF i \in I THEN Append(Copying(l, I, n)[i - 1], l[i])
                               ELSE Copying(l, I, n)[i - 1]]
  <1> DEFINE Is(c, m) == c = [i \in 0 .. m |-> IF i = 0 THEN <<>>
                                     ELSE IF i \in I THEN Append(c[i - 1], l[i])
                                     ELSE c[i - 1]]
             T == {m \in Nat : \E c : Is(c, m)}
  <1>1. T \subseteq Nat
    OBVIOUS
  <1>2. 0 \in T
    <2>1. Is([i \in 0 .. 0 |-> <<>>], 0)
      OBVIOUS
    <2>2. QED
      BY <2>1
  <1>3. ASSUME NEW m \in T
        PROVE  m + 1 \in T
    <2>1. PICK c : Is(c, m)
      OBVIOUS
    <2> DEFINE last == IF m + 1 \in I THEN Append(c[m], l[m + 1]) ELSE c[m]
               e == [i \in 0 .. m + 1 |-> IF i <= m THEN c[i] ELSE last]
    <2>2. m \in Nat /\ m + 1 \in Nat
      OBVIOUS
    <2>3. ASSUME NEW i \in 0 .. m + 1
          PROVE  e[i] = IF i = 0 THEN <<>>
                        ELSE IF i \in I THEN Append(e[i - 1], l[i]) ELSE e[i - 1]
      <3>1. CASE i = m + 1
        BY <2>2, <3>1
      <3>2. CASE i # m + 1
        <4>1. i \in 0 .. m /\ e[i] = c[i] /\ (i # 0 => i - 1 \in 0 .. m /\ e[i - 1] = c[i - 1])
          BY <2>2, <3>2
        <4> HIDE DEF e
        <4>2. QED
          BY <2>1, <4>1
      <3>3. QED
        BY <3>1, <3>2
    <2>4. Is(e, m + 1)
      <3> DEFINE g == [i \in 0 .. m + 1 |-> IF i = 0 THEN <<>>
                                     ELSE IF i \in I THEN Append(e[i - 1], l[i])
                                     ELSE e[i - 1]]
      <3>1. \A i \in 0 .. m + 1 : e[i] = g[i]
        BY <2>3
      <3>2. e = [i \in 0 .. m + 1 |-> e[i]] /\ g = [i \in 0 .. m + 1 |-> g[i]]
        OBVIOUS
      <3> HIDE DEF e
      <3>3. e = g
        <4> HIDE DEF g
        <4>1. QED
          BY <3>1, <3>2
      <3>4. QED
        BY <3>3
    <2> HIDE DEF e
    <2>5. QED
      BY <2>2, <2>4
  <1> HIDE DEF T
  <1>4. T = Nat
    BY <1>1, <1>2, <1>3, Induction
  <1>5. \E c : Is(c, n)
    BY <1>4 DEF T
  <1>6. QED
    BY <1>5 DEF Copying

\* c holds those of the first x records of l that are at the places I.
CopyOf(c, l, I, x) ==
    /\ c \in Seq(Record)
    /\ \A j \in 1 .. Len(c) : \E k \in 1 .. x : k \in I /\ c[j] = l[k]
    /\ \A k \in 1 .. x : k \in I => \E j \in 1 .. Len(c) : c[j] = l[k]

\* That is what the loop has copied after x records.
LEMMA CopiedFacts ==
    ASSUME NEW l \in Seq(Record), NEW I, NEW i \in 0 .. Len(l)
    PROVE  CopyOf(Copying(l, I, Len(l))[i], l, I, i)
  <1> DEFINE n == Len(l)
             C == Copying(l, I, n)
             Ok(c, x) == CopyOf(c, l, I, x)
             T == {x \in Nat : x <= n => Ok(C[x], x)}
  <1>1. n \in Nat
    OBVIOUS
  <1>2. C = [x \in 0 .. n |-> IF x = 0 THEN <<>>
                              ELSE IF x \in I THEN Append(C[x - 1], l[x]) ELSE C[x - 1]]
    BY <1>1, CopyingIs
  <1> HIDE DEF C
  <1>3. T \subseteq Nat
    OBVIOUS
  <1>4. 0 \in T
    <2>1. C[0] = <<>>
      BY <1>1, <1>2
    <2>2. Ok(<<>>, 0)
      BY DEF CopyOf
    <2>3. QED
      BY <2>1, <2>2
  <1>5. ASSUME NEW x \in T
        PROVE  x + 1 \in T
    <2>1. x \in Nat /\ x + 1 \in Nat
      OBVIOUS
    <2> SUFFICES ASSUME x + 1 <= n
                 PROVE  Ok(C[x + 1], x + 1)
      BY <2>1
    <2>2. Ok(C[x], x)
      BY <1>1, <2>1
    <2>3. /\ l[x + 1] \in Record
          /\ C[x + 1] = IF x + 1 \in I THEN Append(C[x], l[x + 1]) ELSE C[x]
      <3>1. x + 1 \in 1 .. n /\ x + 1 \in 0 .. n /\ x + 1 # 0 /\ (x + 1) - 1 = x
        BY <1>1, <2>1
      <3>2. l[x + 1] \in Record
        BY <3>1
      <3> HIDE DEF n
      <3>3. C[x + 1] = [y \in 0 .. n |-> IF y = 0 THEN <<>>
                           ELSE IF y \in I THEN Append(C[y - 1], l[y])
                           ELSE C[y - 1]][x + 1]
        BY <1>2
      <3>4. C[x + 1] = IF x + 1 \in I THEN Append(C[(x + 1) - 1], l[x + 1])
                       ELSE C[(x + 1) - 1]
        BY <3>1, <3>3
      <3>5. QED
        BY <3>1, <3>2, <3>4
    <2> PICK c : c = C[x]
      OBVIOUS
    <2> PICK r : r = l[x + 1]
      OBVIOUS
    <2>4. Ok(c, x) /\ r \in Record
      BY <2>2, <2>3
    <2>8. Len(c) \in Nat /\ c \in Seq(Record)
      BY <2>4 DEF CopyOf
    <2> HIDE DEF n
    <2>5. CASE x + 1 \in I
      <3>1. C[x + 1] = Append(c, r)
        BY <2>3, <2>5
      <3>2. /\ Append(c, r) \in Seq(Record) /\ Len(Append(c, r)) = Len(c) + 1
            /\ \A j \in 1 .. Len(c) : Append(c, r)[j] = c[j]
            /\ Append(c, r)[Len(c) + 1] = r
        BY <2>4, <2>8
      <3> PICK e : e = Append(c, r)
        OBVIOUS
      <3>3. Len(e) = Len(c) + 1
        BY <3>2
      <3>4. \A j \in 1 .. Len(e) : \E k \in 1 .. x + 1 : k \in I /\ e[j] = l[k]
        <4> TAKE j \in 1 .. Len(e)
        <4>1. CASE j = Len(c) + 1
          BY <2>1, <2>5, <3>2, <3>3, <4>1
        <4>2. CASE j # Len(c) + 1
          <5>1. j \in 1 .. Len(c)
            <6>1. j \in Nat /\ 1 <= j /\ j <= Len(c) + 1
              BY <3>3
            <6>2. QED
              BY <2>8, <4>2, <6>1
          <5>2. PICK k \in 1 .. x : k \in I /\ c[j] = l[k]
            BY <2>4, <5>1 DEF CopyOf
          <5>3. k \in 1 .. x + 1 /\ e[j] = c[j]
            BY <2>1, <3>2, <5>1
          <5>4. QED
            BY <5>2, <5>3
        <4>3. QED
          BY <4>1, <4>2
      <3>5. \A k \in 1 .. x + 1 : k \in I => \E j \in 1 .. Len(e) : e[j] = l[k]
        <4> TAKE k \in 1 .. x + 1
        <4> HAVE k \in I
        <4>1. CASE k = x + 1
          <5>1. Len(c) + 1 \in 1 .. Len(e)
            BY <2>8, <3>3
          <5>2. QED
            BY <3>2, <4>1, <5>1
        <4>2. CASE k # x + 1
          <5>1. k \in 1 .. x
            BY <2>1, <4>2
          <5>2. PICK j \in 1 .. Len(c) : c[j] = l[k]
            BY <2>4, <5>1 DEF CopyOf
          <5>3. j \in 1 .. Len(e) /\ e[j] = c[j]
            BY <2>8, <3>2, <3>3
          <5>4. QED
            BY <5>2, <5>3
        <4>3. QED
          BY <4>1, <4>2
      <3>6. QED
        <4>1. e \in Seq(Record)
          BY <3>2
        <4>2. Ok(e, x + 1)
          BY <3>4, <3>5, <4>1 DEF CopyOf
        <4>3. QED
          BY <3>1, <4>2
    <2>6. CASE x + 1 \notin I
      <3>1. C[x + 1] = c
        BY <2>3, <2>6
      <3>2. \A k \in 1 .. x + 1 : k \in 1 .. x \/ k = x + 1
        BY <2>1
      <3>3. \A k \in 1 .. x : k \in 1 .. x + 1
        BY <2>1
      <3>4. Ok(c, x + 1)
        BY <2>4, <2>6, <3>2, <3>3 DEF CopyOf
      <3>5. QED
        BY <3>1, <3>4
    <2>7. QED
      BY <2>5, <2>6
  <1> HIDE DEF T
  <1>6. T = Nat
    BY <1>3, <1>4, <1>5, Induction
  <1>7. i \in Nat /\ i <= n
    BY <1>1
  <1>8. Ok(C[i], i)
    BY <1>6, <1>7 DEF T
  <1>9. QED
    BY <1>8 DEF C

\* Selected keeps exactly the records at the places I.
LEMMA SelectedFacts ==
    ASSUME NEW l \in Seq(Record), NEW I
    PROVE  /\ Selected(l, I) \in Seq(Record)
           /\ Elems(Selected(l, I)) = {l[k] : k \in I \cap (1 .. Len(l))}
  <1>1. Len(l) \in 0 .. Len(l)
    OBVIOUS
  <1>2. Selected(l, I) = Copying(l, I, Len(l))[Len(l)]
    BY DEF Selected, Copying
  <1> HIDE DEF Selected
  <1>3. CopyOf(Selected(l, I), l, I, Len(l))
    BY <1>1, <1>2, CopiedFacts
  <1> PICK c : c = Selected(l, I)
    OBVIOUS
  <1>4. CopyOf(c, l, I, Len(l))
    BY <1>3
  <1>5. Elems(c) \subseteq {l[k] : k \in I \cap (1 .. Len(l))}
    <2> SUFFICES ASSUME NEW j \in 1 .. Len(c)
                 PROVE  c[j] \in {l[k] : k \in I \cap (1 .. Len(l))}
      BY DEF Elems
    <2>1. PICK k \in 1 .. Len(l) : k \in I /\ c[j] = l[k]
      BY <1>4 DEF CopyOf
    <2>2. QED
      BY <2>1
  <1>6. {l[k] : k \in I \cap (1 .. Len(l))} \subseteq Elems(c)
    BY <1>4 DEF CopyOf, Elems
  <1>7. QED
    BY <1>4, <1>5, <1>6 DEF CopyOf

\* The records that the semantics looks at.
LEMMA BodyFacts ==
    ASSUME NEW l \in Seq(Record)
    PROVE  /\ Body(l) \in Seq(Record)
           /\ Elems(Body(l)) = {r \in Elems(l) : r.kind # "Index"}
  <1> DEFINE I == {i \in 1 .. Len(l) : l[i].kind # "Index"}
  <1>1. Body(l) = Selected(l, I)
    BY DEF Body
  <1>2. /\ Selected(l, I) \in Seq(Record)
        /\ Elems(Selected(l, I)) = {l[k] : k \in I \cap (1 .. Len(l))}
    BY SelectedFacts
  <1>3. {l[k] : k \in I \cap (1 .. Len(l))} = {r \in Elems(l) : r.kind # "Index"}
    BY DEF Elems
  <1>4. QED
    BY <1>1, <1>2, <1>3

---------------------------------------------------------------------------
(* What is read of a log depends only on which records it has.             *)

\* A prefix of a sequence of records.
LEMMA PrefixFacts ==
    ASSUME NEW l \in Seq(Record), NEW n \in 0 .. Len(l)
    PROVE  /\ SubSeq(l, 1, n) \in Seq(Record) /\ Len(SubSeq(l, 1, n)) = n
           /\ Elems(SubSeq(l, 1, n)) = {l[i] : i \in 1 .. n}
  <1>1. Len(l) \in Nat /\ n \in Nat /\ n <= Len(l)
    OBVIOUS
  <1>p. PICK p : p = SubSeq(l, 1, n)
    OBVIOUS
  <1>2. p \in Seq(Record) /\ Len(p) = n /\ \A i \in 1 .. n : p[i] = l[i]
    <2>1. \A i \in 1 .. n : l[i] \in Record
      BY <1>1
    <2>2. QED
      BY <1>1, <1>p, <2>1, SubSeqProperties
  <1>3. Elems(p) = {l[i] : i \in 1 .. n}
    BY <1>2 DEF Elems
  <1>4. QED
    BY <1>2, <1>3, <1>p

\* Two sequences, one behind the other.
LEMMA ConcatFacts ==
    ASSUME NEW l \in Seq(Record), NEW b \in Seq(Record)
    PROVE  /\ l \o b \in Seq(Record) /\ Len(l \o b) = Len(l) + Len(b)
           /\ \A i \in 1 .. Len(l) : (l \o b)[i] = l[i]
           /\ Elems(l \o b) = Elems(l) \cup Elems(b)
  <1>1. Len(l) \in Nat /\ Len(b) \in Nat
    OBVIOUS
  <1>p. PICK p : p = l \o b
    OBVIOUS
  <1>2. /\ p \in Seq(Record) /\ Len(p) = Len(l) + Len(b)
        /\ \A i \in 1 .. Len(p) : p[i] = IF i <= Len(l) THEN l[i] ELSE b[i - Len(l)]
    BY <1>1, <1>p, ConcatProperties
  <1>3. \A i \in 1 .. Len(l) : i \in 1 .. Len(p) /\ p[i] = l[i]
    BY <1>1, <1>2
  <1>4. \A i \in 1 .. Len(b) : i + Len(l) \in 1 .. Len(p) /\ p[i + Len(l)] = b[i]
    BY <1>1, <1>2
  <1>5. \A i \in 1 .. Len(p) : \/ i \in 1 .. Len(l) /\ p[i] = l[i]
                               \/ i - Len(l) \in 1 .. Len(b) /\ p[i] = b[i - Len(l)]
    <2> TAKE i \in 1 .. Len(p)
    <2>1. i \in Nat /\ 1 <= i /\ i <= Len(l) + Len(b)
      BY <1>1, <1>2
    <2>2. CASE i <= Len(l)
      <3>1. i \in 1 .. Len(l)
        BY <1>1, <2>1, <2>2
      <3>2. p[i] = l[i]
        BY <1>3, <3>1
      <3>3. QED
        BY <3>1, <3>2
    <2>3. CASE ~(i <= Len(l))
      <3>1. i - Len(l) \in 1 .. Len(b)
        BY <1>1, <2>1, <2>3
      <3>2. QED
        BY <1>2, <2>3, <3>1
    <2>4. QED
      BY <2>2, <2>3
  <1>6. Elems(p) \subseteq Elems(l) \cup Elems(b)
    BY <1>5 DEF Elems
  <1>7. Elems(l) \subseteq Elems(p)
    BY <1>3 DEF Elems
  <1>8. Elems(b) \subseteq Elems(p)
    BY <1>4 DEF Elems
  <1>9. QED
    BY <1>2, <1>3, <1>6, <1>7, <1>8, <1>p

\* The sequence numbers and targets in a log.
Numbers(S, K) == {r.seq : r \in {q \in S : q.kind \in K}}
Marks(S, k)   == {r.n : r \in {q \in S : q.kind = k}}

\* The sequence numbers of the records of some kinds, by the records a log has.
LEMMA SeqsAre ==
    ASSUME NEW l \in Seq(Record), NEW K, "Index" \notin K
    PROVE  Seqs(Body(l), Len(Body(l)), K) = Numbers(Elems(l), K)
  <1>1. PICK b : b = Body(l)
    OBVIOUS
  <1>2. Elems(b) = {r \in Elems(l) : r.kind # "Index"}
    BY <1>1, BodyFacts
  <1>3. Seqs(b, Len(b), K) = Numbers(Elems(b), K)
    BY DEF Seqs, Numbers, Elems
  <1>4. Numbers(Elems(b), K) = Numbers(Elems(l), K)
    BY <1>2 DEF Numbers
  <1>5. QED
    BY <1>1, <1>3, <1>4

\* The targets of the watermarks of a kind, by the records a log has.
LEMMA TargetsAre ==
    ASSUME NEW l \in Seq(Record), NEW k, k # "Index"
    PROVE  Targets(Body(l), Len(Body(l)), k) = Marks(Elems(l), k)
  <1>1. PICK b : b = Body(l)
    OBVIOUS
  <1>2. Elems(b) = {r \in Elems(l) : r.kind # "Index"}
    BY <1>1, BodyFacts
  <1>3. Targets(b, Len(b), k) = Marks(Elems(b), k)
    BY DEF Targets, Marks, Elems
  <1>4. Marks(Elems(b), k) = Marks(Elems(l), k)
    BY <1>2 DEF Marks
  <1>5. QED
    BY <1>1, <1>3, <1>4

\* The numbers of a log are below m.
Below(S, m) == \A r \in S : /\ r \in Record /\ r.seq <= m
                            /\ r.kind \in {"Durable", "Cleaned"} => r.n <= m

\* The watermarks that are read from a log, by the records it has.
LEMMA DurableFacts ==
    ASSUME NEW l \in Seq(Record), NEW m \in Nat, Below(Elems(l), m)
    PROVE  LET d == DurableAt(Body(l), Len(Body(l)))
           IN  /\ d \in Nat /\ d <= m
               /\ \A r \in Elems(l) : /\ r.kind = "Committed" => r.seq <= d
                                      /\ r.kind = "Durable" => r.n <= d
               /\ d = 0 \/ \E r \in Elems(l) : \/ r.kind = "Committed" /\ r.seq = d
                                               \/ r.kind = "Durable" /\ r.n = d
  <1> DEFINE S == Numbers(Elems(l), {"Committed"}) \cup Marks(Elems(l), "Durable")
  <1>1. PICK d : d = DurableAt(Body(l), Len(Body(l)))
    OBVIOUS
  <1>2. Seqs(Body(l), Len(Body(l)), {"Committed"}) = Numbers(Elems(l), {"Committed"})
    BY SeqsAre
  <1>3. Targets(Body(l), Len(Body(l)), "Durable") = Marks(Elems(l), "Durable")
    BY TargetsAre
  <1>4. d = MaxOf(S)
    BY <1>1, <1>2, <1>3 DEF DurableAt
  <1>5. S \subseteq Nat /\ \A x \in S : x <= m
    BY DEF Below, Numbers, Marks, Record
  <1> HIDE DEF S
  <1>6. /\ d \in Nat /\ d <= m /\ (S # {} => d \in S) /\ (S = {} => d = 0)
        /\ \A x \in S : x <= d
    BY <1>4, <1>5, MaxOfIs
  <1>7. \A r \in Elems(l) : /\ r.kind = "Committed" => r.seq \in S
                            /\ r.kind = "Durable" => r.n \in S
    BY DEF S, Numbers, Marks
  <1>8. d \in S => \E r \in Elems(l) : \/ r.kind = "Committed" /\ r.seq = d
                                       \/ r.kind = "Durable" /\ r.n = d
    BY DEF S, Numbers, Marks
  <1>9. QED
    BY <1>1, <1>6, <1>7, <1>8

\* What is outstanding in a log.
LEMMA OutstandingFacts ==
    ASSUME NEW l \in Seq(Record), NEW m \in Nat, Below(Elems(l), m)
    PROVE  /\ \A r \in Elems(l) :
                  r.kind = "Accepted" /\ r.seq >= 1 /\ (\A q \in Elems(l) : Behind(q, r))
                      => r.id \in Outstanding(l)
           /\ \A a \in Outstanding(l) :
                  \E r \in Elems(l) : /\ r.kind = "Accepted" /\ r.id = a
                                      /\ \A w \in Elems(l) : w.kind = "Durable" => w.n < r.seq
  <1>1. PICK b : b = Body(l)
    OBVIOUS
  <1>d. PICK d : d = DurableAt(b, Len(b))
    OBVIOUS
  <1>2. Elems(b) = {r \in Elems(l) : r.kind # "Index"}
    BY <1>1, BodyFacts
  <1>3. /\ d \in Nat
        /\ \A r \in Elems(l) : /\ r.kind = "Committed" => r.seq <= d
                               /\ r.kind = "Durable" => r.n <= d
        /\ d = 0 \/ \E r \in Elems(l) : \/ r.kind = "Committed" /\ r.seq = d
                                        \/ r.kind = "Durable" /\ r.n = d
    BY <1>1, <1>d, DurableFacts
  <1>4. Outstanding(l) = {r.id : r \in {q \in Elems(b) : q.kind = "Accepted" /\ q.seq > d}}
    BY <1>1, <1>d DEF Outstanding, Unapplied, Elems
  <1>5. \A r \in Elems(l) : r \in Record /\ r.seq \in Nat /\ r.n \in Nat
    BY DEF Below, Record
  <1>6. ASSUME NEW r \in Elems(l), r.kind = "Accepted", r.seq >= 1,
               \A q \in Elems(l) : Behind(q, r)
        PROVE  r.id \in Outstanding(l)
    <2>1. r.seq > d
      BY <1>3, <1>5, <1>6 DEF Behind
    <2>2. r \in Elems(b)
      BY <1>2, <1>6
    <2>3. QED
      BY <1>4, <1>6, <2>1, <2>2
  <1>7. ASSUME NEW a \in Outstanding(l)
        PROVE  \E r \in Elems(l) : /\ r.kind = "Accepted" /\ r.id = a
                                   /\ \A w \in Elems(l) : w.kind = "Durable" => w.n < r.seq
    <2>1. PICK r \in Elems(b) : r.kind = "Accepted" /\ r.seq > d /\ r.id = a
      BY <1>4
    <2>2. r \in Elems(l)
      BY <1>2
    <2>3. \A w \in Elems(l) : w.kind = "Durable" => w.n < r.seq
      BY <1>3, <1>5, <2>1, <2>2
    <2>4. QED
      BY <2>1, <2>2, <2>3
  <1>8. QED
    BY <1>6, <1>7

\* The states of the manager.
Managers == [st : {"Idle", "Active", "Failed"}, tx : Nat, pending : Seq(Nat),
             buffered : Seq(Nat), nextSeq : 1 .. MaxSequence + 2, nextTx : Nat,
             accepted : Nat, durable : Nat, cleaned : Nat, bounds : SUBSET Nat,
             committed : Nat, valid : BOOLEAN, ambiguous : BOOLEAN]

\* What reading the records S leaves of the manager m, if x transactions have begun.
ReadFrom(s, m, S, x) ==
    /\ s \in Managers
    /\ s.st = m.st /\ s.tx = m.tx /\ s.pending = m.pending /\ s.buffered = m.buffered
    /\ s.nextSeq >= m.nextSeq
    /\ m.nextSeq <= MaxSequence + 1 => s.nextSeq <= MaxSequence + 1
    /\ m.nextTx <= x + 1 => s.nextTx <= x + 1
    /\ s.valid =>
          /\ \A r \in S : r.seq < s.nextSeq
          /\ \A r \in S : r.kind \in {"Accepted", "Committed"} => r.seq <= s.accepted
          /\ \/ s.accepted = 0
             \/ \E r \in S : r.kind \in {"Accepted", "Committed"} /\ r.seq = s.accepted
          /\ \/ s.durable = 0
             \/ \E r \in S : \/ r.kind = "Committed" /\ r.seq = s.durable
                             \/ r.kind = "Durable" /\ r.n = s.durable
          /\ s.cleaned <= s.durable /\ \A b \in s.bounds : b <= s.accepted

\* Cleanup never runs ahead of what is durable in a log that is accepted.
LEMMA CleanedIsDurable ==
    ASSUME NEW l \in Seq(Record), NEW m \in Nat, Below(Elems(l), m), SeedValid(l)
    PROVE  CleanedAt(Body(l), Len(Body(l))) <= DurableAt(Body(l), Len(Body(l)))
  <1>1. PICK b : b = Body(l)
    OBVIOUS
  <1>2. b \in Seq(Record) /\ Elems(b) = {r \in Elems(l) : r.kind # "Index"}
    BY <1>1, BodyFacts
  <1>n. PICK n : n = Len(b)
    OBVIOUS
  <1>3. n \in Nat /\ \A i \in 1 .. n : b[i] \in Elems(l) /\ b[i] \in Record
    BY <1>2, <1>n DEF Elems
  <1>4. PICK D : D = [i \in 0 .. n |-> Seqs(b, i, {"Committed"}) \cup Targets(b, i, "Durable")]
    OBVIOUS
  <1>5. \A i \in 0 .. n : D[i] = Seqs(b, i, {"Committed"}) \cup Targets(b, i, "Durable")
    BY <1>4
  <1>6. ASSUME NEW i \in 0 .. n
        PROVE  /\ D[i] \subseteq Nat /\ (\A x \in D[i] : x <= m)
               /\ D[i] \subseteq D[n] /\ DurableAt(b, i) = MaxOf(D[i])
    <2>1. \A j \in 1 .. i : j \in 1 .. n
      BY <1>3
    <2>2. \A j \in 1 .. n : b[j].seq \in Nat /\ b[j].n \in Nat /\ b[j].seq <= m
                            /\ (b[j].kind = "Durable" => b[j].n <= m)
      BY <1>3 DEF Below, Record
    <2>3. D[i] \subseteq Nat /\ \A x \in D[i] : x <= m
      BY <1>5, <2>1, <2>2 DEF Seqs, Targets
    <2>4. n \in 0 .. n
      BY <1>3
    <2>5. D[i] \subseteq D[n]
      BY <1>5, <2>1, <2>4 DEF Seqs, Targets
    <2>6. DurableAt(b, i) = MaxOf(D[i])
      BY <1>5 DEF DurableAt
    <2>7. QED
      BY <2>3, <2>5, <2>6
  <1>7. ASSUME NEW i \in 0 .. n
        PROVE  DurableAt(b, i) \in Nat /\ DurableAt(b, i) <= DurableAt(b, n)
    <2>1. n \in 0 .. n
      BY <1>3
    <2>2. /\ D[n] \subseteq Nat /\ (\A x \in D[n] : x <= m) /\ DurableAt(b, n) = MaxOf(D[n])
          /\ D[i] \subseteq Nat /\ (\A x \in D[i] : x <= m) /\ DurableAt(b, i) = MaxOf(D[i])
          /\ D[i] \subseteq D[n]
      BY <1>6, <2>1
    <2>3. MaxOf(D[n]) \in Nat /\ \A x \in D[n] : x <= MaxOf(D[n])
      BY <2>2, MaxOfIs
    <2>4. MaxOf(D[i]) \in Nat /\ (D[i] # {} => MaxOf(D[i]) \in D[i]) /\ (D[i] = {} => MaxOf(D[i]) = 0)
      BY <2>2, MaxOfIs
    <2>5. MaxOf(D[i]) <= MaxOf(D[n])
      BY <2>2, <2>3, <2>4
    <2>6. QED
      BY <2>2, <2>4, <2>5
  <1>8. PICK C : C = Targets(b, n, "Cleaned")
    OBVIOUS
  <1>9. C \subseteq Nat /\ \A x \in C : x <= m
    BY <1>3, <1>8 DEF Targets, Below, Record
  <1>10. CleanedAt(b, n) = MaxOf(C) /\ MaxOf(C) \in Nat
         /\ (C # {} => MaxOf(C) \in C) /\ (C = {} => MaxOf(C) = 0)
    BY <1>8, <1>9, MaxOfIs DEF CleanedAt
  <1>11. ASSUME NEW x \in C
         PROVE  x <= DurableAt(b, n)
    <2>1. PICK i \in 1 .. n : b[i].kind = "Cleaned" /\ b[i].n = x
      BY <1>8 DEF Targets
    <2>2. WatermarkValid(b, i)
      BY <1>1, <1>n, <2>1 DEF SeedValid
    <2>3. x <= DurableAt(b, i - 1)
      BY <2>1, <2>2 DEF WatermarkValid
    <2>4. i - 1 \in 0 .. n /\ n \in 0 .. n
      BY <1>3
    <2>5. DurableAt(b, i - 1) \in Nat /\ DurableAt(b, i - 1) <= DurableAt(b, n) /\ DurableAt(b, n) \in Nat
      BY <1>7, <2>4
    <2>6. x \in Nat
      BY <1>9
    <2>7. QED
      BY <2>3, <2>5, <2>6
  <1>12. DurableAt(b, n) \in Nat
    <2>1. n \in 0 .. n
      BY <1>3
    <2>2. QED
      BY <1>7, <2>1
  <1>13. CleanedAt(b, n) <= DurableAt(b, n)
    BY <1>10, <1>11, <1>12
  <1>14. QED
    BY <1>1, <1>n, <1>13

\* A log is read into the manager.
LEMMA SeedFacts ==
    ASSUME NEW l \in Seq(Record), NEW m \in Managers, NEW x \in Nat,
           \A r \in Elems(l) : /\ r.seq \in 1 .. MaxSequence /\ r.tx <= x
                               /\ r.kind \in {"Durable", "Cleaned"} => r.n < r.seq
    PROVE  ReadFrom(Seed(m, l), m, Elems(l), x)
  <1>1. PICK s : s = Seed(m, l)
    OBVIOUS
  <1>0. MaxSequence \in Nat
    BY JournalAssumption
  <1>2. CASE ~ValidateWalSemantics(l)
    <2> PICK f \in BOOLEAN : f = FALSE
      OBVIOUS
    <2>1. s = [m EXCEPT !.valid = f]
      BY <1>1, <1>2 DEF Seed
    <2>2. /\ s \in Managers /\ s.valid = f
          /\ s.st = m.st /\ s.tx = m.tx /\ s.pending = m.pending /\ s.buffered = m.buffered
          /\ s.nextSeq = m.nextSeq /\ s.nextTx = m.nextTx
      BY <2>1 DEF Managers
    <2>3. m.nextSeq \in Nat /\ m.nextTx \in Nat
      BY <1>0 DEF Managers
    <2>4. QED
      BY <1>0, <1>1, <2>2, <2>3 DEF ReadFrom
  <1>3. CASE ValidateWalSemantics(l)
    <2> DEFINE S == Elems(l)
               b == Body(l)
               n == Len(b)
               AC == Numbers(S, {"Accepted", "Committed"})
               Q == {l[i].seq : i \in 1 .. Len(l)}
               X == {l[i].tx : i \in 1 .. Len(l)}
    <2>1. \A r \in S : /\ r \in Record /\ r.seq \in Nat /\ r.tx \in Nat /\ r.n \in Nat
                       /\ r.seq <= MaxSequence /\ r.tx <= x
                       /\ r.kind \in {"Durable", "Cleaned"} => r.n <= MaxSequence
      <3>1. \A r \in S : r \in Record
        BY DEF Elems
      <3>2. QED
        BY <1>0, <3>1 DEF Record
    <2>2. Below(S, MaxSequence)
      BY <2>1 DEF Below
    <2>3. PICK d : d = DurableAt(b, n)
      OBVIOUS
    <2>4. PICK c : c = CleanedAt(b, n)
      OBVIOUS
    <2>5. PICK a : a = AcceptedAt(b, n)
      OBVIOUS
    <2>6. /\ d \in Nat
          /\ d = 0 \/ \E r \in S : \/ r.kind = "Committed" /\ r.seq = d
                                   \/ r.kind = "Durable" /\ r.n = d
      BY <1>0, <2>2, <2>3, DurableFacts
    <2>7. c \in Nat
      <3>1. c = MaxOf(Marks(S, "Cleaned"))
        BY <2>4, TargetsAre DEF CleanedAt
      <3>2. Marks(S, "Cleaned") \subseteq Nat /\ \A y \in Marks(S, "Cleaned") : y <= MaxSequence
        BY <2>1 DEF Marks
      <3>3. QED
        BY <1>0, <3>1, <3>2, MaxOfIs
    <2>8. Seqs(b, n, {"Accepted", "Committed"}) = AC
      BY SeqsAre
    <2>9. a \in Nat /\ (AC # {} => a \in AC) /\ (AC = {} => a = 0) /\ \A y \in AC : y <= a
      <3>1. a = MaxOf(AC)
        BY <2>5, <2>8 DEF AcceptedAt
      <3>2. AC \subseteq Nat /\ \A y \in AC : y <= MaxSequence
        BY <2>1 DEF Numbers
      <3> HIDE DEF AC
      <3>3. QED
        BY <1>0, <3>1, <3>2, MaxOfIs
    <2>10. PICK e : e = MaxOf(Seqs(b, n, {"Committed"}))
      OBVIOUS
    <2>11. e \in Nat
      <3>1. e = MaxOf(Numbers(S, {"Committed"}))
        BY <2>10, SeqsAre
      <3>2. /\ Numbers(S, {"Committed"}) \subseteq Nat
            /\ \A y \in Numbers(S, {"Committed"}) : y <= MaxSequence
        BY <2>1 DEF Numbers
      <3>3. QED
        BY <1>0, <3>1, <3>2, MaxOfIs
    <2>12. PICK q : q = MaxOf(Q)
      OBVIOUS
    <2>13. q \in Nat /\ q <= MaxSequence /\ \A r \in S : r.seq <= q
      <3>1. Q = {r.seq : r \in S}
        BY DEF Elems
      <3>2. Q \subseteq Nat /\ \A y \in Q : y <= MaxSequence
        BY <2>1, <3>1
      <3> HIDE DEF Q
      <3>3. q \in Nat /\ q <= MaxSequence /\ \A y \in Q : y <= q
        BY <1>0, <2>12, <3>2, MaxOfIs
      <3>4. QED
        BY <3>1, <3>3
    <2>14. PICK z : z = MaxOf(X)
      OBVIOUS
    <2>15. z \in Nat /\ z <= x
      <3>1. X = {r.tx : r \in S}
        BY DEF Elems
      <3>2. X \subseteq Nat /\ \A y \in X : y <= x
        BY <2>1, <3>1
      <3> HIDE DEF X
      <3>3. QED
        BY <2>14, <3>2, MaxOfIs
    <2>16. PICK B : B = {y \in Seqs(b, n, {"Accepted", "Committed"}) : y > c}
      OBVIOUS
    <2>17. B \subseteq Nat /\ \A y \in B : y <= a
      <3>1. AC \subseteq Nat
        BY <2>1 DEF Numbers
      <3>2. QED
        BY <2>8, <2>9, <2>16, <3>1
    <2>18. PICK v : v = (SeedValid(l) /\ ~m.ambiguous)
      OBVIOUS
    <2>19. s = [m EXCEPT !.accepted = a, !.durable = d, !.cleaned = c, !.bounds = B,
                         !.committed = e, !.valid = v,
                         !.nextSeq = Max2(@, q + 1), !.nextTx = Max2(@, z + 1)]
      <3> HIDE DEF b, n, Q, X
      <3>1. QED
        BY <1>1, <1>3, <2>3, <2>4, <2>5, <2>10, <2>12, <2>14, <2>16, <2>18 DEF Seed, b, n, Q, X
    <2>20. v => c <= d
      BY <1>0, <2>2, <2>3, <2>4, <2>18, CleanedIsDurable
    <2>v. v \in BOOLEAN
      BY <2>18
    <2>21. PICK y : y = Max2(m.nextSeq, q + 1)
      OBVIOUS
    <2>22. PICK u : u = Max2(m.nextTx, z + 1)
      OBVIOUS
    <2>23. /\ m.nextSeq \in 1 .. MaxSequence + 2 /\ m.nextTx \in Nat
           /\ y \in 1 .. MaxSequence + 2 /\ y >= m.nextSeq /\ y > q
           /\ (m.nextSeq <= MaxSequence + 1 => y <= MaxSequence + 1)
           /\ u \in Nat /\ (m.nextTx <= x + 1 => u <= x + 1)
      BY <1>0, <2>13, <2>15, <2>21, <2>22 DEF Managers, Max2
    <2>24. s = [m EXCEPT !.accepted = a, !.durable = d, !.cleaned = c, !.bounds = B,
                         !.committed = e, !.valid = v, !.nextSeq = y, !.nextTx = u]
      BY <2>19, <2>21, <2>22 DEF Managers
    <2>25. /\ s \in Managers
           /\ s.st = m.st /\ s.tx = m.tx /\ s.pending = m.pending /\ s.buffered = m.buffered
           /\ s.accepted = a /\ s.durable = d /\ s.cleaned = c /\ s.bounds = B
           /\ s.valid = v /\ s.nextSeq = y /\ s.nextTx = u
      BY <2>6, <2>7, <2>9, <2>11, <2>17, <2>23, <2>24, <2>v DEF Managers
    <2>26. \A r \in S : r.seq < y
      BY <2>1, <2>13, <2>23
    <2>27. /\ \A r \in S : r.kind \in {"Accepted", "Committed"} => r.seq <= a
           /\ a = 0 \/ \E r \in S : r.kind \in {"Accepted", "Committed"} /\ r.seq = a
      BY <2>9 DEF Numbers
    <2> HIDE DEF S, b, n, AC, Q, X
    <2>28. ReadFrom(s, m, S, x)
      BY <2>6, <2>17, <2>20, <2>23, <2>25, <2>26, <2>27 DEF ReadFrom
    <2>29. QED
      BY <1>1, <2>28 DEF S
  <1>4. QED
    BY <1>2, <1>3

---------------------------------------------------------------------------
(* Appending to the log.                                                   *)

Pre(l, n) == {l[i] : i \in 1 .. n}
IndexRecord(f) == [kind |-> "Index", seq |-> f, tx |-> 0, id |-> 0, n |-> 0]

\* What a compaction leaves.
LEMMA CompactedFacts ==
    ASSUME log \in Seq(Record), NEW f \in Nat
    PROVE  /\ Compacted(f) \in Seq(Record)
           /\ Elems(Compacted(f)) = {r \in All : r.kind = "Index" \/ r.seq >= f} \cup {IndexRecord(f)}
  <1> DEFINE I == {i \in 1 .. Len(log) : log[i].kind = "Index" \/ log[i].seq >= f}
  <1>1. PICK s : s = Selected(log, I)
    OBVIOUS
  <1>2. PICK x : x = IndexRecord(f)
    OBVIOUS
  <1>3. Compacted(f) = Append(s, x)
    BY <1>1, <1>2 DEF Compacted, IndexRecord
  <1>4. s \in Seq(Record) /\ Elems(s) = {log[k] : k \in I \cap (1 .. Len(log))}
    BY <1>1, SelectedFacts
  <1>5. {log[k] : k \in I \cap (1 .. Len(log))} = {r \in All : r.kind = "Index" \/ r.seq >= f}
    BY DEF All, Elems
  <1>6. x \in Record
    BY <1>2 DEF IndexRecord, Record, Kind
  <1>7. PICK c : c = Append(s, x)
    OBVIOUS
  <1>8. /\ c \in Seq(Record) /\ Len(s) \in Nat /\ Len(c) = Len(s) + 1
        /\ (\A i \in 1 .. Len(s) : c[i] = s[i]) /\ c[Len(s) + 1] = x
    BY <1>4, <1>6, <1>7
  <1>9. \A i \in 1 .. Len(c) : i \in 1 .. Len(s) \/ i = Len(s) + 1
    BY <1>8
  <1>10. /\ \A i \in 1 .. Len(s) : i \in 1 .. Len(c)
         /\ Len(s) + 1 \in 1 .. Len(c)
    BY <1>8
  <1>11. Elems(c) \subseteq Elems(s) \cup {x}
    BY <1>8, <1>9 DEF Elems
  <1>12. Elems(s) \cup {x} \subseteq Elems(c)
    BY <1>8, <1>10 DEF Elems
  <1>13. QED
    BY <1>2, <1>3, <1>4, <1>5, <1>7, <1>8, <1>11, <1>12

\* The outcome o of appending b to the log l of which s records are durable.
Extends(o, l, s, b, flush) ==
    /\ o.log \in Seq(Record) /\ o.synced \in 0 .. Len(o.log)
    /\ o.faults \in Nat /\ faults + o.faults <= MaxFaults
    /\ Elems(l) \subseteq Elems(o.log) /\ Elems(o.log) \subseteq Elems(l) \cup Elems(b)
    /\ Pre(l, s) \subseteq Pre(o.log, o.synced)
    /\ o.res = "Succeeded" => Elems(b) \subseteq Elems(o.log) /\ (flush => o.synced = Len(o.log))
    /\ o.res = "RejectedBeforeWrite" => o.log = l /\ o.synced = s

\* Every outcome of an append extends the log by records of the batch and keeps its durable
\* prefix; a refused one leaves both as they were.
LEMMA AppendsFacts ==
    ASSUME NEW l \in Seq(Record), NEW s \in 0 .. Len(l), NEW b \in Seq(Record),
           NEW flush \in BOOLEAN, NEW f \in Nat, faults \in Nat, faults + f <= MaxFaults,
           NEW o \in Appends(l, s, b, flush, f)
    PROVE  Extends(o, l, s, b, flush)
  <1>0. Len(l) \in Nat /\ Len(b) \in Nat /\ s \in Nat /\ s <= Len(l) /\ MaxFaults \in Nat
    BY JournalAssumption
  <1>1. ASSUME NEW c \in Seq(Record), NEW y \in 0 .. Len(l) + Len(c), s <= y,
               Elems(c) \subseteq Elems(b)
        PROVE  /\ l \o c \in Seq(Record) /\ Len(l \o c) = Len(l) + Len(c) /\ y \in 0 .. Len(l \o c)
               /\ Elems(l \o c) = Elems(l) \cup Elems(c)
               /\ Elems(l \o c) \subseteq Elems(l) \cup Elems(b)
               /\ Pre(l, s) \subseteq Pre(l \o c, y)
    <2>p. PICK p : p = l \o c
      OBVIOUS
    <2>1. /\ p \in Seq(Record) /\ Len(p) = Len(l) + Len(c)
          /\ \A i \in 1 .. Len(l) : p[i] = l[i]
          /\ Elems(p) = Elems(l) \cup Elems(c)
      BY <2>p, ConcatFacts
    <2>2. Len(c) \in Nat /\ y \in Nat
      BY <1>0
    <2>3. \A i \in 1 .. s : i \in 1 .. Len(l) /\ i \in 1 .. y
      BY <1>0, <1>1, <2>2
    <2>4. Pre(l, s) \subseteq Pre(p, y)
      BY <2>1, <2>3 DEF Pre
    <2>5. QED
      BY <1>1, <2>p, <2>1, <2>4
  <1>2. CASE o = Outcome("Succeeded", l \o b, IF flush THEN Len(l) + Len(b) ELSE s, f)
    <2>1. PICK y : y = IF flush THEN Len(l) + Len(b) ELSE s
      OBVIOUS
    <2>2. y \in 0 .. Len(l) + Len(b) /\ s <= y /\ (flush => y = Len(l) + Len(b))
      BY <1>0, <2>1
    <2>3. /\ l \o b \in Seq(Record) /\ Len(l \o b) = Len(l) + Len(b) /\ y \in 0 .. Len(l \o b)
          /\ Elems(l \o b) = Elems(l) \cup Elems(b)
          /\ Pre(l, s) \subseteq Pre(l \o b, y)
      BY <1>1, <2>2
    <2>4. o.res = "Succeeded" /\ o.log = l \o b /\ o.synced = y /\ o.faults = f
      BY <1>2, <2>1 DEF Outcome
    <2>5. QED
      BY <2>2, <2>3, <2>4 DEF Extends
  <1>3. CASE faults + (f + 1) <= MaxFaults /\ \E k \in 0 .. Len(b) :
                 o = Outcome("BytesMayHavePersisted", l \o SubSeq(b, 1, k), s, f + 1)
    <2>1. PICK k \in 0 .. Len(b) :
                 o = Outcome("BytesMayHavePersisted", l \o SubSeq(b, 1, k), s, f + 1)
      BY <1>3
    <2>2. PICK c : c = SubSeq(b, 1, k)
      OBVIOUS
    <2>3. c \in Seq(Record) /\ Len(c) = k /\ Elems(c) = {b[i] : i \in 1 .. k}
      BY <2>2, PrefixFacts
    <2>4. Elems(c) \subseteq Elems(b)
      <3>1. \A i \in 1 .. k : i \in 1 .. Len(b)
        BY <1>0
      <3>2. QED
        BY <2>3, <3>1 DEF Elems
    <2>5. s \in 0 .. Len(l) + Len(c) /\ s <= s
      BY <1>0, <2>3
    <2>6. /\ l \o c \in Seq(Record) /\ s \in 0 .. Len(l \o c)
          /\ Elems(l) \subseteq Elems(l \o c) /\ Elems(l \o c) \subseteq Elems(l) \cup Elems(b)
          /\ Pre(l, s) \subseteq Pre(l \o c, s)
      BY <1>1, <2>3, <2>4, <2>5
    <2>7. o.res = "BytesMayHavePersisted" /\ o.log = l \o c /\ o.synced = s /\ o.faults = f + 1
      BY <2>1, <2>2 DEF Outcome
    <2>8. f + 1 \in Nat
      OBVIOUS
    <2>9. QED
      BY <1>3, <2>6, <2>7, <2>8 DEF Extends
  <1>4. CASE \E g \in {f, f + 1} : faults + g <= MaxFaults /\ o = Outcome("RejectedBeforeWrite", l, s, g)
    <2>1. PICK g \in {f, f + 1} : faults + g <= MaxFaults /\ o = Outcome("RejectedBeforeWrite", l, s, g)
      BY <1>4
    <2>2. o.res = "RejectedBeforeWrite" /\ o.log = l /\ o.synced = s /\ o.faults = g /\ g \in Nat
      BY <2>1 DEF Outcome
    <2>3. QED
      BY <2>1, <2>2 DEF Extends
  <1>5. QED
    BY <1>2, <1>3, <1>4 DEF Appends, May

\* The log L of which y records are durable comes from appending the records E,
\* with a compaction to f between or without; F was durable before.
Grown(L, y, E, F, f) ==
    /\ L \in Seq(Record) /\ y \in 0 .. Len(L)
    /\ Elems(L) \subseteq All \cup E \cup {IndexRecord(f)}
    /\ \A r \in F : r \in Pre(L, y) \/ r.seq < f
    /\ \A r \in Elems(L) : r \in E \/ r.kind = "Index" \/ r.seq >= f \/ F \subseteq Pre(L, y)
    /\ \A r \in Elems(L) : r \in Pre(L, y) \/ r \in All \ F \/ r \in E

Result(o, b, flush, F, f) ==
    /\ Grown(o.log, o.synced, Elems(b), F, f)
    /\ o.faults \in Nat /\ faults + o.faults <= MaxFaults
    /\ o.res = "Succeeded" => Elems(b) \subseteq Elems(o.log) /\ (flush => o.synced = Len(o.log))

\* An append without a compaction.
LEMMA PlainResult ==
    ASSUME log \in Seq(Record), NEW s \in 0 .. Len(log), NEW b \in Seq(Record), NEW f \in Nat,
           NEW flush \in BOOLEAN, NEW o, Extends(o, log, s, b, flush)
    PROVE  Result(o, b, flush, Pre(log, s), f)
  <1>1. /\ o.log \in Seq(Record) /\ o.synced \in 0 .. Len(o.log)
        /\ Elems(o.log) \subseteq All \cup Elems(b)
        /\ Pre(log, s) \subseteq Pre(o.log, o.synced)
    BY DEF Extends, All
  <1>2. Grown(o.log, o.synced, Elems(b), Pre(log, s), f)
    <2> PICK L : L = o.log
      OBVIOUS
    <2> PICK y : y = o.synced
      OBVIOUS
    <2> PICK E : E = Elems(b)
      OBVIOUS
    <2> PICK F : F = Pre(log, s)
      OBVIOUS
    <2>1. L \in Seq(Record) /\ y \in 0 .. Len(L) /\ Elems(L) \subseteq All \cup E /\ F \subseteq Pre(L, y)
      BY <1>1
    <2>2. Grown(L, y, E, F, f)
      BY <2>1 DEF Grown
    <2>3. QED
      BY <2>2
  <1>3. QED
    BY <1>2 DEF Result, Extends

\* The log after a compaction, all of it durable.
LEMMA CompactedGrown ==
    ASSUME log \in Seq(Record), NEW s \in 0 .. Len(log), NEW E, NEW f \in Nat
    PROVE  /\ Grown(Compacted(f), Len(Compacted(f)), E, Pre(log, s), f)
           /\ Len(Compacted(f)) \in 0 .. Len(Compacted(f))
           /\ Pre(Compacted(f), Len(Compacted(f))) = Elems(Compacted(f))
  <1>1. PICK c : c = Compacted(f)
    OBVIOUS
  <1>2. c \in Seq(Record) /\ Elems(c) = {r \in All : r.kind = "Index" \/ r.seq >= f} \cup {IndexRecord(f)}
    BY <1>1, CompactedFacts
  <1>3. Len(c) \in 0 .. Len(c) /\ Pre(c, Len(c)) = Elems(c)
    BY <1>2 DEF Pre, Elems
  <1>4. Pre(log, s) \subseteq All
    BY DEF Pre, All, Elems
  <1>5. \A r \in All : r \in Record /\ r.seq \in Nat
    <2>1. \A r \in All : r \in Record
      BY DEF All, Elems
    <2>2. QED
      BY <2>1 DEF Record
  <1>6. IndexRecord(f).kind = "Index"
    BY DEF IndexRecord
  <1>7. Grown(c, Len(c), E, Pre(log, s), f)
    <2> PICK F : F = Pre(log, s)
      OBVIOUS
    <2>1. \A r \in F : r \in Elems(c) \/ r.seq < f
      BY <1>2, <1>4, <1>5
    <2>2. QED
      BY <1>2, <1>3, <1>6, <2>1 DEF Grown
  <1>8. QED
    BY <1>1, <1>3, <1>7

\* An append after a compaction.
LEMMA RetriedResult ==
    ASSUME log \in Seq(Record), NEW s \in 0 .. Len(log), NEW b \in Seq(Record), NEW f \in Nat,
           NEW flush \in BOOLEAN, NEW o, NEW c, c = Compacted(f), Extends(o, c, Len(c), b, flush)
    PROVE  Result(o, b, flush, Pre(log, s), f)
  <1>1. PICK F : F = Pre(log, s)
    OBVIOUS
  <1>2. Grown(c, Len(c), Elems(b), F, f) /\ Pre(c, Len(c)) = Elems(c)
    BY <1>1, CompactedGrown
  <1>3. /\ o.log \in Seq(Record) /\ o.synced \in 0 .. Len(o.log)
        /\ Elems(o.log) \subseteq Elems(c) \cup Elems(b)
        /\ Elems(c) \subseteq Pre(o.log, o.synced)
    BY <1>2 DEF Extends
  <1>4. Grown(o.log, o.synced, Elems(b), F, f)
    <2> PICK L : L = o.log
      OBVIOUS
    <2> PICK y : y = o.synced
      OBVIOUS
    <2> PICK E : E = Elems(b)
      OBVIOUS
    <2>1. /\ L \in Seq(Record) /\ y \in 0 .. Len(L)
          /\ Elems(L) \subseteq Elems(c) \cup E /\ Elems(c) \subseteq Pre(L, y)
      BY <1>3
    <2>2. /\ Elems(c) \subseteq All \cup E \cup {IndexRecord(f)}
          /\ \A r \in F : r \in Elems(c) \/ r.seq < f
          /\ \A r \in Elems(c) : r \in E \/ r.kind = "Index" \/ r.seq >= f \/ F \subseteq Elems(c)
      BY <1>2 DEF Grown
    <2>3. Grown(L, y, E, F, f)
      BY <2>1, <2>2 DEF Grown
    <2>4. QED
      BY <2>3
  <1>5. QED
    BY <1>1, <1>4 DEF Result, Extends

\* An append that is refused, a compaction and one more append.
Outcomes(s, b, flush, first) ==
    UNION {Retries(p, b, flush, first) : p \in Appends(log, s, b, flush, 0)}

\* What any outcome of the append with its retry leaves of the log.
LEMMA OutcomeFacts ==
    ASSUME log \in Seq(Record), faults \in 0 .. MaxFaults, NEW s \in 0 .. Len(log),
           NEW b \in Seq(Record), NEW flush \in BOOLEAN, NEW first,
           NEW f \in Nat, f = SafeCompactionFloor(first), NEW o \in Outcomes(s, b, flush, first)
    PROVE  Result(o, b, flush, Pre(log, s), f)
  <1>0. MaxFaults \in Nat /\ faults \in Nat /\ 0 \in Nat /\ faults + 0 <= MaxFaults
    BY JournalAssumption
  <1>2. PICK p \in Appends(log, s, b, flush, 0) : o \in Retries(p, b, flush, first)
    BY DEF Outcomes
  <1>3. Extends(p, log, s, b, flush)
    BY <1>0, AppendsFacts
  <1>4. Result(o, b, flush, Pre(log, s), f)
    <2>1. CASE p.res # "RejectedBeforeWrite"
      <3>1. o = p
        BY <1>2, <2>1 DEF Retries
      <3>2. QED
        BY <1>3, <3>1, PlainResult
    <2>2. CASE p.res = "RejectedBeforeWrite"
      <3>1. p.log = log /\ p.synced = s /\ p.faults \in Nat /\ faults + p.faults <= MaxFaults
        BY <1>3, <2>2 DEF Extends
      <3>2. PICK c \in Compactions(s, f, p.faults) :
                o \in IF c.res = "Succeeded" THEN Appends(c.log, c.synced, b, flush, c.faults)
                      ELSE {c}
        BY <1>2, <2>2, <3>1 DEF Retries
      <3>3. CASE c = Outcome("Succeeded", Compacted(f), Len(Compacted(f)), p.faults)
        <4>1. PICK d : d = Compacted(f)
          OBVIOUS
        <4>2. c.res = "Succeeded" /\ c.log = d /\ c.synced = Len(d) /\ c.faults = p.faults
          BY <3>3, <4>1 DEF Outcome
        <4>3. o \in Appends(d, Len(d), b, flush, p.faults)
          BY <3>2, <4>2
        <4>4. d \in Seq(Record) /\ Len(d) \in 0 .. Len(d)
          BY <4>1, CompactedFacts
        <4>5. Extends(o, d, Len(d), b, flush)
          BY <1>0, <3>1, <4>3, <4>4, AppendsFacts
        <4>6. QED
          BY <4>1, <4>5, RetriedResult
      <3>4. CASE \E x \in {"RejectedBeforeWrite", "BytesMayHavePersisted"} :
                    c = Outcome(x, log, s, p.faults + 1) /\ faults + (p.faults + 1) <= MaxFaults
        <4>1. PICK x \in {"RejectedBeforeWrite", "BytesMayHavePersisted"} :
                    c = Outcome(x, log, s, p.faults + 1) /\ faults + (p.faults + 1) <= MaxFaults
          BY <3>4
        <4>2. c.res = x /\ c.log = log /\ c.synced = s /\ c.faults = p.faults + 1
          BY <4>1 DEF Outcome
        <4>3. o = c
          BY <3>2, <4>1, <4>2
        <4>4. Extends(o, log, s, b, flush)
          BY <3>1, <4>1, <4>2, <4>3 DEF Extends
        <4>5. QED
          BY <4>4, PlainResult
      <3>5. CASE /\ c = Outcome("BytesMayHavePersisted", Compacted(f), Len(Compacted(f)), p.faults + 1)
                 /\ faults + (p.faults + 1) <= MaxFaults
        <4>1. PICK d : d = Compacted(f)
          OBVIOUS
        <4>2. /\ c.res = "BytesMayHavePersisted" /\ c.log = d /\ c.synced = Len(d)
              /\ c.faults = p.faults + 1
          BY <3>5, <4>1 DEF Outcome
        <4>3. o = c
          BY <3>2, <4>2
        <4>4. Grown(d, Len(d), Elems(b), Pre(log, s), f)
          BY <4>1, CompactedGrown
        <4>5. QED
          BY <3>1, <3>5, <4>2, <4>3, <4>4 DEF Result
      <3>6. QED
        BY <3>2, <3>3, <3>4, <3>5 DEF Compactions, May
    <2>3. QED
      BY <2>1, <2>2
  <1>5. QED
    BY <1>4

---------------------------------------------------------------------------
(* What an append keeps of the invariant.                                  *)

\* The records are typed.
LEMMA RecordsTyped ==
    ASSUME log \in Seq(Record), synced \in 0 .. Len(log)
    PROVE  /\ \A r \in All : /\ r \in Record /\ r.kind \in Kind /\ r.seq \in Nat
                             /\ r.tx \in Nat /\ r.id \in Nat /\ r.n \in Nat
           /\ Flushed \subseteq All
  <1>1. \A r \in All : r \in Record
    BY DEF All, Elems
  <1>2. \A r \in All : /\ r.kind \in Kind /\ r.seq \in Nat
                       /\ r.tx \in Nat /\ r.id \in Nat /\ r.n \in Nat
    BY <1>1 DEF Record
  <1>3. Flushed \subseteq All
    <2>1. \A i \in 1 .. synced : i \in 1 .. Len(log)
      OBVIOUS
    <2>2. QED
      BY <2>1 DEF Flushed, All, Elems
  <1>4. QED
    BY <1>1, <1>2, <1>3

\* The same, said of the records of the log and of the durable ones.
LEMMA GrownSets ==
    ASSUME NEW E, NEW F, NEW f, Grown(log', synced', E, F, f)
    PROVE  /\ log' \in Seq(Record) /\ synced' \in 0 .. Len(log')
           /\ \A r \in All' : r \in All \/ r \in E \/ r = IndexRecord(f)
           /\ \A r \in F : r \in Flushed' \/ r.seq < f
           /\ \A r \in All' : r \in E \/ r.kind = "Index" \/ r.seq >= f \/ F \subseteq Flushed'
           /\ \A r \in All' : r \in Flushed' \/ r \in All \ F \/ r \in E
  BY DEF Grown, All, Flushed, Pre

\* A compaction spares everything that no checkpoint holds.
LEMMA FloorFacts ==
    ASSUME IInv, tm.valid, NEW first \in 1 .. MaxSequence
    PROVE  /\ SafeCompactionFloor(first) \in 1 .. MaxSequence
           /\ \A r \in Open : r.seq >= SafeCompactionFloor(first)
  <1>1. /\ MaxSequence \in Nat /\ first \in Nat /\ 1 <= first /\ first <= MaxSequence
    BY JournalAssumption
  <1>2. /\ tm.accepted \in Nat /\ tm.durable \in Nat /\ tm.cleaned \in Nat /\ tm.committed \in Nat
        /\ log \in Seq(Record) /\ synced \in 0 .. Len(log)
    BY DEF IInv, TypeOK
  <1>3. PICK f : f = SafeCompactionFloor(first)
    OBVIOUS
  <1>4. f \in 1 .. MaxSequence
    BY <1>1, <1>2, <1>3 DEF SafeCompactionFloor, Min2
  <1>5. \/ f = 1 \/ tm.accepted <= tm.cleaned \/ f <= tm.cleaned
    BY <1>1, <1>2, <1>3 DEF SafeCompactionFloor, Min2
  <1>6. ASSUME NEW r \in Open
        PROVE  r.seq >= f
    <2>1. r \in All /\ r \in Accepts /\ r.id \notin published
      BY DEF Open, Accepts
    <2>2. r.seq \in Nat
      BY <1>2, <2>1, RecordsTyped
    <2>3. r.seq >= 1
      BY <2>1 DEF IInv, LogInv, RecordInv, RecordOK
    <2>4. r.seq <= tm.accepted /\ ~(r.seq <= tm.durable) /\ tm.cleaned <= tm.durable
      BY <2>1 DEF IInv, ManagerInv, KnownInv
    <2>5. f \in Nat
      BY <1>1, <1>4
    <2>6. QED
      BY <1>2, <1>5, <2>2, <2>3, <2>4, <2>5
  <1>7. QED
    BY <1>3, <1>4, <1>6

\* The records E may be appended.
Appendable(E) ==
    /\ \A r \in E : r \in Record /\ RecordOK(r)
    /\ \A r \in E : r.kind = "Accepted" => tm.st = "Active" /\ r.id = begun
    /\ \A q, r \in E : q.kind = "Accepted" /\ r.kind = "Accepted" => q = r
    /\ \A r \in E : r.kind = "Accepted" => \A q \in All \cup E : Behind(q, r)

\* An append, with the compaction it may bring, keeps the invariant of the log.
LEMMA AppendKeepsLog ==
    ASSUME IInv, tm.valid, NEW first \in 1 .. MaxSequence, NEW f, f = SafeCompactionFloor(first),
           NEW E, Appendable(E), NEW F, Flushed \subseteq F, F \subseteq All,
           Grown(log', synced', E, F, f),
           begun' = begun, published \subseteq published',
           \A r \in Open : r.id \notin published' => \A q \in E : Behind(q, r)
    PROVE  /\ RecordInv' /\ UniqueInv' /\ OpenInv'
           /\ \A a \in acked \ published' : \E r \in Flushed' : r.kind = "Accepted" /\ r.id = a
           /\ \A r \in Accepts' : r.id \in marked => \E w \in Flushed' : Covers(w, r)
  <1>0. /\ log \in Seq(Record) /\ synced \in 0 .. Len(log) /\ begun \in Nat
        /\ MaxSequence \in Nat
    BY JournalAssumption DEF IInv, TypeOK
  <1>1. \A r \in All : /\ r \in Record /\ r.kind \in Kind /\ r.seq \in Nat
                       /\ r.tx \in Nat /\ r.id \in Nat /\ r.n \in Nat
    BY <1>0, RecordsTyped
  <1>2. f \in 1 .. MaxSequence /\ f \in Nat /\ \A r \in Open : r.seq >= f
    BY <1>0, FloorFacts
  <1>3. PICK x : x = IndexRecord(f)
    OBVIOUS
  <1>4. x.kind = "Index" /\ x.seq = f /\ x.tx = 0
    BY <1>3 DEF IndexRecord
  <1>5. /\ \A r \in All' : r \in All \/ r \in E \/ r = x
        /\ \A r \in F : r \in Flushed' \/ r.seq < f
        /\ \A r \in All' : r \in E \/ r.kind = "Index" \/ r.seq >= f \/ F \subseteq Flushed'
    BY <1>3, GrownSets
  <1>6. RecordInv'
    <2>1. \A r \in All : RecordOK(r)
      BY DEF IInv, LogInv, RecordInv
    <2>2. \A r \in E : RecordOK(r)
      BY DEF Appendable
    <2>3. RecordOK(x)
      BY <1>0, <1>2, <1>4 DEF RecordOK
    <2>4. \A r \in All' : RecordOK(r)
      BY <1>5, <2>1, <2>2, <2>3
    <2>5. QED
      BY <2>4 DEF RecordInv, RecordOK
  <1>7. \A r \in Accepts' : /\ r \in All' /\ r.kind = "Accepted"
                            /\ r \in Accepts \/ (r \in E /\ tm.st = "Active" /\ r.id = begun)
    <2>1. \A r \in Accepts' : r \in All' /\ r.kind = "Accepted"
      BY DEF Accepts
    <2>2. \A r \in Accepts' : r # x
      BY <1>4, <2>1
    <2>3. QED
      BY <1>5, <2>1, <2>2 DEF Accepts, Appendable
  <1>8. UniqueInv'
    <2> SUFFICES ASSUME NEW q \in Accepts', NEW r \in Accepts', q.id = r.id
                 PROVE  q = r
      BY DEF UniqueInv
    <2>1. tm.st = "Active" => \A y \in Accepts : y.id # begun
      BY DEF IInv, ManagerInv, ActiveInv
    <2>2. CASE q \in Accepts /\ r \in Accepts
      BY <2>2 DEF IInv, LogInv, UniqueInv
    <2>3. CASE q \in E /\ r \in E
      BY <1>7, <2>3 DEF Appendable
    <2>4. QED
      BY <1>7, <2>1, <2>2, <2>3
  <1>9. OpenInv'
    <2> SUFFICES ASSUME NEW r \in Open', NEW q \in All'
                 PROVE  Behind(q, r)
      BY DEF OpenInv, Behind
    <2>1. r \in Accepts' /\ r.id \notin published'
      BY DEF Open
    <2>2. q = x => Behind(q, r)
      BY <1>4 DEF Behind
    <2>3. CASE r \in Accepts
      <3>1. r \in Open
        BY <2>1, <2>3 DEF Open
      <3>2. q \in All => Behind(q, r)
        BY <3>1 DEF IInv, LogInv, OpenInv
      <3>3. q \in E => Behind(q, r)
        BY <2>1, <3>1
      <3>4. QED
        BY <1>5, <2>2, <3>2, <3>3
    <2>4. CASE r \in E
      BY <1>5, <1>7, <2>1, <2>2, <2>4 DEF Appendable
    <2>5. QED
      BY <1>7, <2>1, <2>3, <2>4
  <1>10. ASSUME NEW a \in acked \ published'
         PROVE  \E r \in Flushed' : r.kind = "Accepted" /\ r.id = a
    <2>1. PICK r \in Flushed : r.kind = "Accepted" /\ r.id = a
      BY DEF IInv, LogInv, AckedInv
    <2>2. r \in F /\ r \in All
      OBVIOUS
    <2>3. r \in Open
      BY <2>1, <2>2 DEF Open, Accepts
    <2>4. r.seq >= f /\ r.seq \in Nat
      BY <1>1, <1>2, <2>2, <2>3
    <2>5. r \in Flushed'
      BY <1>2, <1>5, <2>2, <2>4
    <2>6. QED
      BY <2>1, <2>5
  <1>11. ASSUME NEW r \in Accepts', r.id \in marked
         PROVE  \E w \in Flushed' : Covers(w, r)
    <2>1. r \in Accepts
      BY <1>7, <1>11 DEF IInv, ManagerInv, ActiveInv
    <2>2. PICK w \in Flushed : Covers(w, r)
      BY <1>11, <2>1 DEF IInv, LogInv, MarkedInv
    <2>3. w \in F /\ w \in All /\ w.seq \in Nat /\ r.seq \in Nat
      BY <1>1, <2>1 DEF Accepts
    <2>4. w.seq > r.seq
      BY <2>2 DEF Covers
    <2>5. w \in Flushed'
      <3>1. CASE r \in E
        BY <1>7, <2>1, <3>1 DEF IInv, ManagerInv, ActiveInv, Appendable
      <3>2. CASE r \notin E
        BY <1>2, <1>5, <1>7, <2>3, <2>4, <3>2
      <3>3. QED
        BY <3>1, <3>2
    <2>6. QED
      BY <2>2, <2>5
  <1>12. QED
    BY <1>6, <1>8, <1>9, <1>10, <1>11

---------------------------------------------------------------------------
(* What is kept when nothing is appended.                                  *)

\* Records go only from the end of the log, and not the durable ones.
LEMMA LogKept ==
    ASSUME IInv, All' \subseteq All, Flushed \subseteq Flushed',
           begun \in Nat, begun' \in Nat, begun <= begun',
           published \subseteq published', marked' = marked,
           \A a \in acked' \ published' :
               a \in acked \/ \E r \in Flushed' : r.kind = "Accepted" /\ r.id = a
    PROVE  LogInv'
  <1>0. log \in Seq(Record) /\ synced \in 0 .. Len(log)
    BY DEF IInv, TypeOK
  <1>1. \A r \in All : r.tx \in Nat /\ r.id \in Nat
    BY <1>0, RecordsTyped
  <1>2. Accepts' \subseteq Accepts
    BY DEF Accepts
  <1>3. Open' \subseteq Open
    BY <1>2 DEF Open
  <1>4. RecordInv'
    BY <1>1 DEF IInv, LogInv, RecordInv, RecordOK
  <1>5. UniqueInv'
    BY <1>2 DEF IInv, LogInv, UniqueInv
  <1>6. OpenInv'
    BY <1>3 DEF IInv, LogInv, OpenInv, Behind
  <1>7. AckedInv'
    BY DEF IInv, LogInv, AckedInv
  <1>8. MarkedInv'
    BY <1>2 DEF IInv, LogInv, MarkedInv, Covers
  <1>9. QED
    BY <1>4, <1>5, <1>6, <1>7, <1>8 DEF LogInv

\* The manager stays as it is.
LEMMA ManagerKept ==
    ASSUME IInv, tm' = tm, log' = log, published \subseteq published', begun' = begun,
           marked' = marked, \A a \in acked' : a \in acked \/ \E r \in Accepts : r.id = a,
           host = "mounted" => host' = "mounted",
           tm.valid => /\ deferred'.pending < Low /\ deferred'.durable < Low
                       /\ \A t \in Thread : waiter'[t].seq < Low /\ waiter'[t].target < Low
    PROVE  ManagerInv' /\ CountInv'
  <1>1. Low' = Low /\ All' = All /\ Accepts' = Accepts
    BY DEF Low, All, Accepts
  <1>2. CountInv'
    BY DEF IInv, CountInv
  <1>3. ManagerInv'
    <2> SUFFICES ASSUME tm.valid
                 PROVE  UsedInv' /\ KnownInv' /\ BufferInv' /\ ActiveInv'
      BY DEF ManagerInv
    <2>1. UsedInv /\ KnownInv /\ BufferInv /\ ActiveInv
      BY DEF IInv, ManagerInv
    <2>2. UsedInv'
      BY <1>1, <2>1 DEF UsedInv
    <2>3. KnownInv'
      BY <1>1, <2>1 DEF KnownInv
    <2>4. BufferInv'
      BY <1>1, <2>1 DEF BufferInv
    <2>5. ActiveInv'
      BY <1>1, <2>1 DEF ActiveInv
    <2>6. QED
      BY <2>2, <2>3, <2>4, <2>5
  <1>4. QED
    BY <1>2, <1>3

\* All that no checkpoint holds is durable.
LEMMA WaitSettled ==
    ASSUME IInv, Open' \subseteq Flushed', host' = "mounted" <=> host = "mounted",
           host # "mounted" => waiter' = waiter
    PROVE  WaitInv'
  BY DEF IInv, WaitInv

\* The numbers of the manager, and of the threads.
LEMMA NumbersTyped ==
    ASSUME TypeOK
    PROVE  /\ tm \in Managers /\ tm.nextSeq \in Nat /\ tm.nextSeq >= 1 /\ tm.nextTx \in Nat
           /\ tm.accepted \in Nat /\ tm.durable \in Nat /\ tm.cleaned \in Nat
           /\ tm.committed \in Nat /\ tm.bounds \subseteq Nat
           /\ tm.buffered \in Seq(Nat) /\ tm.pending \in Seq(Nat) /\ Low \in Nat
           /\ deferred.pending \in Nat /\ deferred.durable \in Nat
           /\ \A t \in Thread : waiter[t].seq \in Nat /\ waiter[t].target \in Nat
           /\ begun \in Nat /\ MaxSequence \in Nat /\ log \in Seq(Record)
           /\ synced \in 0 .. Len(log)
  <1>1. tm \in Managers
    BY DEF TypeOK, Managers
  <1>2. /\ tm.nextSeq \in 1 .. MaxSequence + 2 /\ tm.nextTx \in Nat
        /\ tm.accepted \in Nat /\ tm.durable \in Nat /\ tm.cleaned \in Nat
        /\ tm.committed \in Nat /\ tm.bounds \subseteq Nat
        /\ tm.buffered \in Seq(Nat) /\ tm.pending \in Seq(Nat)
    BY <1>1 DEF Managers
  <1>3. MaxSequence \in Nat
    BY JournalAssumption
  <1>4. tm.nextSeq \in Nat /\ tm.nextSeq >= 1
    BY <1>2, <1>3
  <1>5. Low \in Nat
    <2>1. CASE tm.buffered = <<>>
      BY <1>4, <2>1 DEF Low
    <2>2. CASE tm.buffered # <<>>
      <3>1. tm.buffered[1] \in Nat
        BY <1>2, <2>2
      <3>2. QED
        BY <2>2, <3>1 DEF Low
    <2>3. QED
      BY <2>1, <2>2
  <1>6. /\ deferred.pending \in Nat /\ deferred.durable \in Nat
        /\ begun \in Nat /\ log \in Seq(Record) /\ synced \in 0 .. Len(log)
    BY JournalAssumption DEF TypeOK
  <1>7. \A t \in Thread : waiter[t].seq \in Nat /\ waiter[t].target \in Nat
    BY DEF TypeOK
  <1>8. QED
    BY <1>1, <1>2, <1>3, <1>4, <1>5, <1>6, <1>7

\* Transactions that are accepted at or below seq.
LEMMA AcceptedThroughIs ==
    ASSUME NEW seq
    PROVE  AcceptedThrough(seq) = {r.id : r \in {q \in Accepts : q.seq <= seq}}
  BY DEF AcceptedThrough, Accepts, All, Elems

\* They are transactions that were begun.
LEMMA AcceptedThroughBegun ==
    ASSUME IInv, NEW seq
    PROVE  AcceptedThrough(seq) \subseteq 1 .. begun
  <1>1. \A r \in Accepts : r.id \in 1 .. begun
    BY DEF Accepts, IInv, LogInv, RecordInv, RecordOK
  <1>2. QED
    BY <1>1, AcceptedThroughIs

\* Nobody begins to wait, and nothing is accepted.
LEMMA WaitKept ==
    ASSUME IInv, host' = "mounted" <=> host = "mounted", \A r \in Open' : r \in Flushed' \/ r \in Open \ Flushed,
           deferred'.pending = deferred.pending, deferred'.durable = deferred.durable,
           \A t \in Thread : waiter'[t].seq \in {0, waiter[t].seq},
           host # "mounted" => waiter' = waiter,
           tm'.valid => /\ tm.valid /\ tm'.accepted = tm.accepted
                        /\ \A q \in All' : q.kind \in {"Accepted", "Committed"} => q \in All
    PROVE  WaitInv'
  <1>1. CASE host = "mounted"
    <2> SUFFICES ASSUME NEW r \in Open', r \notin Flushed'
                 PROVE  Awaited(r)' \/ Forsaken(r)'
      BY <1>1 DEF WaitInv
    <2>1. r \in Open \ Flushed
      OBVIOUS
    <2>2. Awaited(r) \/ Forsaken(r)
      BY <1>1, <2>1 DEF IInv, WaitInv
    <2>n. deferred.pending \in Nat
      BY NumbersTyped DEF IInv
    <2>r. r.seq \in Nat /\ r.seq > 0
      <3>1. MaxSequence \in Nat
        BY JournalAssumption
      <3>2. QED
        BY <2>1, <3>1 DEF Open, Accepts, IInv, LogInv, RecordInv, RecordOK
    <2>3. CASE Awaited(r)
      BY <2>n, <2>3 DEF Awaited
    <2>4. CASE Forsaken(r)
      BY <2>r, <2>4 DEF Forsaken
    <2>5. QED
      BY <2>2, <2>3, <2>4
  <1>2. CASE host # "mounted"
    BY <1>2 DEF IInv, WaitInv
  <1>3. QED
    BY <1>1, <1>2

---------------------------------------------------------------------------
(* The actions that append nothing.                                        *)

\* A number at the end of others.
LEMMA NumberAppended ==
    ASSUME NEW s \in Seq(Nat), NEW e \in Nat, NEW c, c = Append(s, e)
    PROVE  /\ c \in Seq(Nat) /\ Len(c) = Len(s) + 1
           /\ \A i \in 1 .. Len(c) : c[i] = IF i <= Len(s) THEN s[i] ELSE e
  <1>1. /\ Len(s) \in Nat /\ Len(c) = Len(s) + 1 /\ c \in Seq(Nat)
        /\ (\A i \in 1 .. Len(s) : c[i] = s[i]) /\ c[Len(s) + 1] = e
    OBVIOUS
  <1>2. ASSUME NEW i \in 1 .. Len(c)
        PROVE  c[i] = IF i <= Len(s) THEN s[i] ELSE e
    <2>1. i \in Nat /\ 1 <= i /\ i <= Len(s) + 1
      BY <1>1
    <2>2. CASE i <= Len(s)
      <3>1. i \in 1 .. Len(s)
        BY <1>1, <2>1, <2>2
      <3>2. QED
        BY <1>1, <2>2, <3>1
    <2>3. CASE ~(i <= Len(s))
      <3>1. i = Len(s) + 1
        BY <1>1, <2>1, <2>3
      <3>2. QED
        BY <1>1, <2>3, <3>1
    <2>4. QED
      BY <2>2, <2>3
  <1>3. QED
    BY <1>1, <1>2

\* Begin keeps the invariant: the new transaction has a number that no record has.
LEMMA BeginKeeps ==
    ASSUME IInv, Begin
    PROVE  IInv'
  <1>t. TypeOK
    BY DEF IInv
  <1>n. /\ tm \in Managers /\ tm.nextSeq \in Nat /\ tm.nextTx \in Nat
        /\ Low \in Nat /\ begun \in Nat /\ MaxSequence \in Nat /\ log \in Seq(Record)
        /\ synced \in 0 .. Len(log) /\ MaxTransactions \in Nat
    BY <1>t, NumbersTyped, JournalAssumption
  <1>1. /\ tm.valid /\ tm.st = "Idle" /\ host = "mounted"
        /\ begun < MaxTransactions /\ tm.nextSeq + 2 <= MaxSequence + 1 /\ begun' = begun + 1
        /\ tm' = [tm EXCEPT !.st = "Active", !.tx = tm.nextTx, !.nextTx = @ + 1,
                            !.pending = <<>>, !.buffered = <<>>]
        /\ UNCHANGED <<log, synced, deferred, lock, waiter, host, acked, published,
                       marked, faults, restarts>>
    BY DEF Begin, Room
  <1>2. /\ tm' \in Managers /\ tm'.st = "Active" /\ tm'.tx = tm.nextTx /\ tm'.nextTx = tm.nextTx + 1
        /\ tm'.pending = <<>> /\ tm'.buffered = <<>> /\ tm'.nextSeq = tm.nextSeq
        /\ tm'.accepted = tm.accepted /\ tm'.durable = tm.durable /\ tm'.cleaned = tm.cleaned
        /\ tm'.bounds = tm.bounds /\ tm'.valid = tm.valid
    <2>1. PICK x : x = tm.nextTx + 1
      OBVIOUS
    <2>2. PICK e : e = <<>>
      OBVIOUS
    <2>3. x \in Nat /\ e \in Seq(Nat)
      BY <1>n, <2>1, <2>2
    <2>4. tm' = [tm EXCEPT !.st = "Active", !.tx = tm.nextTx, !.nextTx = x,
                           !.pending = e, !.buffered = e]
      BY <1>n, <1>1, <2>1, <2>2 DEF Managers
    <2>5. QED
      BY <1>n, <2>1, <2>2, <2>3, <2>4 DEF Managers
  <1>3. All' = All /\ Flushed' = Flushed /\ Accepts' = Accepts /\ Open' = Open
    BY <1>1 DEF All, Flushed, Accepts, Open
  <1>4. UsedInv /\ KnownInv /\ BufferInv
    BY <1>1 DEF IInv, ManagerInv
  <1>5. Low' = Low /\ Low = tm.nextSeq
    BY <1>1, <1>2, <1>4 DEF Low, BufferInv
  <1>6. TypeOK'
    <2>1. begun' \in 0 .. MaxTransactions /\ 1 .. begun \subseteq 1 .. begun'
      BY <1>n, <1>1
    <2>2. QED
      BY <1>t, <1>1, <1>2, <2>1 DEF TypeOK, Managers
  <1>7. LogInv'
    BY <1>n, <1>1, <1>3, LogKept
  <1>8. ManagerInv'
    <2>1. UsedInv'
      BY <1>1, <1>2, <1>3, <1>4, <1>5 DEF UsedInv
    <2>2. KnownInv'
      BY <1>1, <1>2, <1>3, <1>4 DEF KnownInv
    <2>3. BufferInv'
      BY <1>2, <1>4, <1>5 DEF BufferInv
    <2>4. ActiveInv'
      <3>1. begun' \notin marked' \cup acked'
        <4>1. marked \subseteq 1 .. begun /\ acked \subseteq 1 .. begun
          BY <1>t DEF TypeOK
        <4>2. begun + 1 \notin 1 .. begun
          BY <1>n
        <4>3. QED
          BY <1>1, <4>1, <4>2
      <3>2. \A r \in Accepts : r.id \in 1 .. begun
        BY DEF Accepts, IInv, LogInv, RecordInv, RecordOK
      <3>3. \A r \in Accepts' : r.id # begun'
        BY <1>n, <1>1, <1>3, <3>2
      <3>4. QED
        BY <1>n, <1>1, <1>2, <3>1, <3>3 DEF ActiveInv
    <2>5. QED
      BY <2>1, <2>2, <2>3, <2>4 DEF ManagerInv
  <1>9. CountInv'
    BY <1>n, <1>1, <1>2 DEF CountInv, IInv
  <1>10. WaitInv'
    BY <1>1, <1>2, <1>3, WaitKept DEF IInv, WaitInv
  <1>11. QED
    BY <1>6, <1>7, <1>8, <1>9, <1>10 DEF IInv

\* RecordMutation keeps the invariant: it takes the next sequence number.
LEMMA RecordMutationKeeps ==
    ASSUME IInv, RecordMutation
    PROVE  IInv'
  <1>t. TypeOK
    BY DEF IInv
  <1>n. /\ tm \in Managers /\ tm.nextSeq \in Nat /\ tm.nextSeq >= 1
        /\ tm.buffered \in Seq(Nat) /\ tm.pending \in Seq(Nat)
        /\ Low \in Nat /\ begun \in Nat /\ MaxSequence \in Nat /\ log \in Seq(Record)
        /\ synced \in 0 .. Len(log)
    BY <1>t, NumbersTyped
  <1>1. /\ tm.valid /\ tm.st = "Active" /\ tm.nextSeq + 2 <= MaxSequence + 1
        /\ tm' = [tm EXCEPT !.pending = Append(@, tm.nextSeq),
                            !.buffered = Append(@, tm.nextSeq), !.nextSeq = @ + 1]
        /\ UNCHANGED <<log, synced, deferred, lock, waiter, host, history, faults, restarts>>
    BY DEF RecordMutation, Room, Active
  <1>h. begun' = begun /\ acked' = acked /\ published' = published /\ marked' = marked
    BY <1>1 DEF history
  <1>p. PICK p : p = Append(tm.pending, tm.nextSeq)
    OBVIOUS
  <1>b. PICK b : b = Append(tm.buffered, tm.nextSeq)
    OBVIOUS
  <1>x. PICK x : x = tm.nextSeq + 1
    OBVIOUS
  <1>2. /\ p \in Seq(Nat) /\ Len(p) = Len(tm.pending) + 1
        /\ \A i \in 1 .. Len(p) : p[i] = IF i <= Len(tm.pending) THEN tm.pending[i] ELSE tm.nextSeq
        /\ b \in Seq(Nat) /\ Len(b) = Len(tm.buffered) + 1
        /\ \A i \in 1 .. Len(b) : b[i] = IF i <= Len(tm.buffered) THEN tm.buffered[i] ELSE tm.nextSeq
        /\ x \in 1 .. MaxSequence + 2 /\ x <= MaxSequence
    <2>1. x \in 1 .. MaxSequence + 2 /\ x <= MaxSequence
      BY <1>n, <1>1, <1>x
    <2>2. /\ p \in Seq(Nat) /\ Len(p) = Len(tm.pending) + 1
          /\ \A i \in 1 .. Len(p) : p[i] = IF i <= Len(tm.pending) THEN tm.pending[i] ELSE tm.nextSeq
      BY <1>n, <1>p, NumberAppended
    <2>3. /\ b \in Seq(Nat) /\ Len(b) = Len(tm.buffered) + 1
          /\ \A i \in 1 .. Len(b) : b[i] = IF i <= Len(tm.buffered) THEN tm.buffered[i]
                                            ELSE tm.nextSeq
      BY <1>n, <1>b, NumberAppended
    <2>4. QED
      BY <2>1, <2>2, <2>3
  <1>3. /\ tm' = [tm EXCEPT !.pending = p, !.buffered = b, !.nextSeq = x]
    BY <1>n, <1>1, <1>p, <1>b, <1>x DEF Managers
  <1>4. /\ tm' \in Managers /\ tm'.st = tm.st /\ tm'.tx = tm.tx /\ tm'.nextTx = tm.nextTx
        /\ tm'.pending = p /\ tm'.buffered = b /\ tm'.nextSeq = x
        /\ tm'.accepted = tm.accepted /\ tm'.durable = tm.durable /\ tm'.cleaned = tm.cleaned
        /\ tm'.bounds = tm.bounds /\ tm'.valid = tm.valid
    BY <1>n, <1>2, <1>3 DEF Managers
  <1>5. All' = All /\ Flushed' = Flushed /\ Accepts' = Accepts /\ Open' = Open
    BY <1>1, <1>h DEF All, Flushed, Accepts, Open
  <1>6. UsedInv /\ KnownInv /\ BufferInv /\ ActiveInv
    BY <1>1 DEF IInv, ManagerInv
  <1>7. Low' = Low
    <2>1. Len(tm.buffered) \in Nat /\ (tm.buffered = <<>> <=> Len(tm.buffered) = 0)
      BY <1>n
    <2>2. b # <<>> /\ b[1] = IF Len(tm.buffered) = 0 THEN tm.nextSeq ELSE tm.buffered[1]
      BY <1>2, <2>1
    <2>3. QED
      BY <1>4, <2>1, <2>2 DEF Low
  <1>8. TypeOK'
    BY <1>t, <1>1, <1>h, <1>4 DEF TypeOK, Managers
  <1>9. LogInv'
    BY <1>n, <1>1, <1>h, <1>5, LogKept
  <1>10. ManagerInv'
    <2>1. UsedInv'
      BY <1>1, <1>4, <1>5, <1>6, <1>7 DEF UsedInv
    <2>2. KnownInv'
      BY <1>h, <1>4, <1>5, <1>6 DEF KnownInv
    <2>3. BufferInv'
      <3>1. tm.nextSeq >= Low
        <4>1. CASE tm.buffered = <<>>
          BY <1>n, <4>1 DEF Low
        <4>2. CASE tm.buffered # <<>>
          <5>1. 1 \in 1 .. Len(tm.buffered) /\ tm.buffered[1] = Low
            BY <1>n, <4>2 DEF Low
          <5>2. Low < tm.nextSeq
            BY <1>6, <5>1 DEF BufferInv
          <5>3. QED
            BY <1>n, <5>2
        <4>3. QED
          BY <4>1, <4>2
      <3>2. Len(tm.buffered) \in Nat /\ Len(tm.pending) \in Nat
        BY <1>n
      <3>3. \A i \in 1 .. Len(b) : b[i] >= Low /\ b[i] < x
        <4> TAKE i \in 1 .. Len(b)
        <4>1. CASE i <= Len(tm.buffered)
          <5>1. i \in 1 .. Len(tm.buffered) /\ tm.buffered[i] \in Nat
            BY <1>n, <3>2, <4>1
          <5>2. tm.buffered[i] >= Low /\ tm.buffered[i] < tm.nextSeq
            BY <1>6, <5>1 DEF BufferInv
          <5>3. b[i] = tm.buffered[i]
            BY <1>2, <4>1
          <5>4. QED
            BY <1>n, <1>x, <5>1, <5>2, <5>3
        <4>2. CASE ~(i <= Len(tm.buffered))
          <5>1. b[i] = tm.nextSeq
            BY <1>2, <4>2
          <5>2. QED
            BY <1>n, <1>x, <3>1, <5>1
        <4>3. QED
          BY <4>1, <4>2
      <3>4. \A i \in 1 .. Len(p) : p[i] >= 1 /\ p[i] < x
        <4> TAKE i \in 1 .. Len(p)
        <4>1. CASE i <= Len(tm.pending)
          <5>1. i \in 1 .. Len(tm.pending) /\ tm.pending[i] \in Nat
            BY <1>n, <3>2, <4>1
          <5>2. tm.pending[i] >= 1 /\ tm.pending[i] < tm.nextSeq
            BY <1>6, <5>1 DEF BufferInv
          <5>3. p[i] = tm.pending[i]
            BY <1>2, <4>1
          <5>4. QED
            BY <1>n, <1>x, <5>1, <5>2, <5>3
        <4>2. CASE ~(i <= Len(tm.pending))
          <5>1. p[i] = tm.nextSeq
            BY <1>2, <4>2
          <5>2. QED
            BY <1>n, <1>x, <5>1
        <4>3. QED
          BY <4>1, <4>2
      <3>5. QED
        BY <1>1, <1>4, <1>6, <1>7, <3>3, <3>4 DEF BufferInv
    <2>4. ActiveInv'
      BY <1>1, <1>h, <1>2, <1>4, <1>5, <1>6 DEF ActiveInv
    <2>5. QED
      BY <2>1, <2>2, <2>3, <2>4 DEF ManagerInv
  <1>11. CountInv'
    BY <1>n, <1>h, <1>2, <1>4 DEF CountInv, IInv
  <1>12. WaitInv'
    <2>1. \A t \in Thread : waiter'[t].seq \in {0, waiter[t].seq}
      BY <1>1
    <2>2. QED
      BY <1>1, <1>4, <1>5, <2>1, WaitKept DEF IInv, WaitInv
  <1>13. QED
    BY <1>8, <1>9, <1>10, <1>11, <1>12 DEF IInv

\* What a thread that waits knows.
Waits == [pc : {"none", "check", "wait", "window", "flush", "fail"}, seq : Nat, target : Nat]

\* A step of one thread is typed.
LEMMA StepTyped ==
    ASSUME TypeOK, NEW t \in Thread, NEW w \in Waits, waiter' = [waiter EXCEPT ![t] = w]
    PROVE  /\ waiter' \in [Thread -> Waits] /\ waiter'[t] = w
           /\ \A u \in Thread \ {t} : waiter'[u] = waiter[u]
  BY DEF TypeOK, Waits

\* A thread that goes to another step.
LEMMA ToPcTyped ==
    ASSUME TypeOK, NEW t \in Thread, NEW p \in {"none", "check", "wait", "window", "flush", "fail"},
           ToPc(t, p)
    PROVE  /\ waiter' \in [Thread -> Waits]
           /\ \A u \in Thread : waiter'[u].seq = waiter[u].seq /\ waiter'[u].target = waiter[u].target
  <1>1. waiter \in [Thread -> Waits]
    BY DEF TypeOK, Waits
  <1>2. PICK w : w = [waiter[t] EXCEPT !.pc = p]
    OBVIOUS
  <1>3. waiter' = [waiter EXCEPT ![t] = w]
    BY <1>1, <1>2 DEF ToPc
  <1>4. waiter[t] \in Waits
    BY <1>1
  <1>5. w \in Waits /\ w.seq = waiter[t].seq /\ w.target = waiter[t].target
    BY <1>2, <1>4 DEF Waits
  <1>6. QED
    BY <1>1, <1>3, <1>5

\* A thread that waits does so on a mounted volume.
LEMMA WaitersAreMounted ==
    ASSUME IInv, NEW t \in Thread, waiter[t].pc # "none"
    PROVE  host = "mounted"
  BY DEF IInv, WaitInv, NotWaiting

\* A caller that begins to wait for what is accepted keeps the invariant.
LEMMA WaitForExistingKeeps ==
    ASSUME IInv, NEW t \in Thread, WaitForExisting(t)
    PROVE  IInv'
  <1>t. TypeOK
    BY DEF IInv
  <1>n. /\ tm.accepted \in Nat /\ Low \in Nat /\ begun \in Nat /\ deferred.pending \in Nat
    BY <1>t, NumbersTyped
  <1>1. /\ tm.valid /\ host = "mounted"
        /\ waiter' = [waiter EXCEPT ![t] = [pc |-> "check", seq |-> tm.accepted, target |-> 0]]
        /\ UNCHANGED <<log, synced, tm, deferred, lock, host, history, faults, restarts>>
    BY DEF WaitForExisting
  <1>h. begun' = begun /\ acked' = acked /\ published' = published /\ marked' = marked
    BY <1>1 DEF history
  <1>w. PICK w : w = [pc |-> "check", seq |-> tm.accepted, target |-> 0]
    OBVIOUS
  <1>2. w \in Waits /\ w.seq = tm.accepted /\ w.target = 0
    BY <1>n, <1>w DEF Waits
  <1>3. /\ waiter' \in [Thread -> Waits] /\ waiter'[t] = w
        /\ \A u \in Thread \ {t} : waiter'[u] = waiter[u]
    BY <1>t, <1>1, <1>w, <1>2, StepTyped
  <1>4. UsedInv
    BY <1>1 DEF IInv, ManagerInv
  <1>5. \A u \in Thread : waiter'[u].seq < Low /\ waiter'[u].target < Low
    BY <1>n, <1>2, <1>3, <1>4 DEF UsedInv
  <1>6. All' = All /\ Flushed' = Flushed /\ Open' = Open
    BY <1>1, <1>h DEF All, Flushed, Open, Accepts
  <1>7. TypeOK'
    BY <1>t, <1>1, <1>h, <1>3 DEF TypeOK, Waits
  <1>8. LogInv'
    BY <1>n, <1>h, <1>6, LogKept
  <1>9. ManagerInv' /\ CountInv'
    BY <1>1, <1>h, <1>4, <1>5, ManagerKept DEF UsedInv
  <1>10. WaitInv'
    <2> SUFFICES ASSUME NEW r \in Open, r \notin Flushed
                 PROVE  Awaited(r)'
      BY <1>1, <1>6 DEF WaitInv
    <2>1. Awaited(r)
      BY <1>1 DEF IInv, WaitInv, Forsaken
    <2>2. \A u \in Thread : waiter'[u].seq <= deferred.pending
      BY <1>1, <1>2, <1>3, <2>1 DEF Awaited
    <2>3. QED
      BY <1>1, <1>6, <2>1, <2>2 DEF Awaited
  <1>11. QED
    BY <1>7, <1>8, <1>9, <1>10 DEF IInv

\* What a waiting thread is told to be durable is on stable storage.
LEMMA CoveredIsFlushed ==
    ASSUME IInv, NEW t \in Thread, host = "mounted", Covered(waiter[t].seq),
           NEW a \in AcceptedThrough(waiter[t].seq) \ published
    PROVE  \E r \in Flushed : r.kind = "Accepted" /\ r.id = a
  <1>1. PICK r \in Accepts : r.seq <= waiter[t].seq /\ r.id = a
    BY AcceptedThroughIs
  <1>2. r \in Open /\ r \in All /\ r.kind = "Accepted"
    BY <1>1 DEF Open, Accepts
  <1>3. /\ deferred.pending \in Nat /\ deferred.durable \in Nat /\ waiter[t].seq \in Nat
        /\ log \in Seq(Record) /\ synced \in 0 .. Len(log)
    BY NumbersTyped DEF IInv
  <1>4. r.seq \in Nat
    BY <1>2, <1>3, RecordsTyped
  <1>5. r \in Flushed
    <2> SUFFICES ASSUME r \notin Flushed PROVE FALSE
      OBVIOUS
    <2>1. Awaited(r) \/ Forsaken(r)
      BY <1>2 DEF IInv, WaitInv
    <2>2. CASE Awaited(r)
      BY <1>1, <1>3, <1>4, <2>2 DEF Awaited, Covered
    <2>3. CASE Forsaken(r)
      BY <1>1, <1>3, <1>4, <2>3 DEF Forsaken
    <2>4. QED
      BY <2>1, <2>2, <2>3
  <1>6. QED
    BY <1>1, <1>2, <1>5

\* A waiting thread that looks keeps the invariant: what it is told of is on stable storage.
LEMMA CheckDurabilityKeeps ==
    ASSUME IInv, NEW t \in Thread, CheckDurability(t)
    PROVE  IInv'
  <1>t. TypeOK
    BY DEF IInv
  <1>n. /\ Low \in Nat /\ begun \in Nat
        /\ \A u \in Thread : waiter[u].seq \in Nat /\ waiter[u].target \in Nat
    BY <1>t, NumbersTyped
  <1>1. /\ waiter[t].pc = "check"
        /\ UNCHANGED <<log, synced, tm, lock, host, begun, published, marked, faults, restarts>>
    BY DEF CheckDurability
  <1>2. host = "mounted"
    BY <1>1, WaitersAreMounted
  <1>3. All' = All /\ Flushed' = Flushed /\ Open' = Open
    BY <1>1 DEF All, Flushed, Open, Accepts
  <1>4. tm.valid => UsedInv
    BY DEF IInv, ManagerInv
  <1>5. CASE Covered(waiter[t].seq)
    <2>1. /\ waiter' = [waiter EXCEPT ![t] = NotWaiting] /\ UNCHANGED deferred
          /\ acked' = acked \cup AcceptedThrough(waiter[t].seq)
      BY <1>5 DEF CheckDurability
    <2>2. NotWaiting \in Waits /\ NotWaiting.seq = 0 /\ NotWaiting.target = 0
      BY DEF NotWaiting, Waits
    <2>3. /\ waiter' \in [Thread -> Waits] /\ waiter'[t] = NotWaiting
          /\ \A u \in Thread \ {t} : waiter'[u] = waiter[u]
      BY <1>t, <2>1, <2>2, StepTyped
    <2>4. TypeOK'
      <3>1. acked' \subseteq 1 .. begun
        BY <1>t, <2>1, AcceptedThroughBegun DEF TypeOK
      <3>2. QED
        BY <1>t, <1>1, <2>1, <2>3, <3>1 DEF TypeOK, Waits
    <2>5. LogInv'
      <3>1. \A a \in acked' \ published' :
                a \in acked \/ \E r \in Flushed' : r.kind = "Accepted" /\ r.id = a
        BY <1>1, <1>2, <1>3, <1>5, <2>1, CoveredIsFlushed
      <3>2. QED
        BY <1>n, <1>1, <1>3, <3>1, LogKept
    <2>6. ManagerInv' /\ CountInv'
      <3>1. \A a \in acked' : a \in acked \/ \E r \in Accepts : r.id = a
        BY <2>1, AcceptedThroughIs
      <3>2. tm.valid => \A u \in Thread : waiter'[u].seq < Low /\ waiter'[u].target < Low
        <4> SUFFICES ASSUME tm.valid, NEW u \in Thread
                     PROVE  waiter'[u].seq < Low /\ waiter'[u].target < Low
          OBVIOUS
        <4>1. waiter[u].seq < Low /\ waiter[u].target < Low
          BY <1>4 DEF UsedInv
        <4>2. CASE u = t
          BY <1>n, <2>2, <2>3, <4>1, <4>2
        <4>3. CASE u # t
          BY <2>3, <4>1, <4>3
        <4>4. QED
          BY <4>2, <4>3
      <3>3. QED
        BY <1>1, <1>4, <2>1, <3>1, <3>2, ManagerKept DEF UsedInv
    <2>7. WaitInv'
      <3>1. \A u \in Thread : waiter'[u].seq \in {0, waiter[u].seq}
        BY <2>2, <2>3
      <3>2. \A r \in Open' : r \in Flushed' \/ r \in Open \ Flushed
        BY <1>3
      <3>3. QED
        BY <1>1, <1>2, <1>3, <2>1, <3>1, <3>2, WaitKept
    <2>8. QED
      BY <2>4, <2>5, <2>6, <2>7 DEF IInv
  <1>6. CASE ~Covered(waiter[t].seq)
    <2>1. /\ \E p \in {"fail", "wait", "window"} : ToPc(t, p)
          /\ deferred' = [deferred EXCEPT !.flushing = @ \/ ~deferred.failed]
          /\ UNCHANGED acked
      BY <1>6 DEF CheckDurability
    <2>2. /\ waiter' \in [Thread -> Waits]
          /\ \A u \in Thread : waiter'[u].seq = waiter[u].seq /\ waiter'[u].target = waiter[u].target
      BY <1>t, <2>1, ToPcTyped
    <2>3. /\ deferred' \in [pending : Nat, durable : Nat, failed : BOOLEAN, flushing : BOOLEAN]
          /\ deferred'.pending = deferred.pending /\ deferred'.durable = deferred.durable
      <3>1. PICK f \in BOOLEAN : f = (deferred.flushing \/ ~deferred.failed)
        OBVIOUS
      <3>2. deferred \in [pending : Nat, durable : Nat, failed : BOOLEAN, flushing : BOOLEAN]
        BY <1>t DEF TypeOK
      <3>3. deferred' = [deferred EXCEPT !.flushing = f]
        BY <2>1, <3>1, <3>2
      <3>4. QED
        BY <3>2, <3>3
    <2>4. TypeOK'
      BY <1>t, <1>1, <2>1, <2>2, <2>3 DEF TypeOK, Waits
    <2>5. LogInv'
      BY <1>n, <1>1, <1>3, <2>1, LogKept
    <2>6. ManagerInv' /\ CountInv'
      BY <1>1, <1>4, <2>1, <2>2, <2>3, ManagerKept DEF UsedInv
    <2>7. WaitInv'
      <3>1. \A u \in Thread : waiter'[u].seq \in {0, waiter[u].seq}
        BY <2>2
      <3>2. \A r \in Open' : r \in Flushed' \/ r \in Open \ Flushed
        BY <1>3
      <3>3. QED
        BY <1>1, <1>2, <1>3, <2>3, <3>1, <3>2, WaitKept
    <2>8. QED
      BY <2>4, <2>5, <2>6, <2>7 DEF IInv
  <1>7. QED
    BY <1>5, <1>6

\* A thread that is woken keeps the invariant.
LEMMA NotifiedKeeps ==
    ASSUME IInv, NEW t \in Thread, Notified(t)
    PROVE  IInv'
  <1>t. TypeOK
    BY DEF IInv
  <1>n. begun \in Nat
    BY <1>t, NumbersTyped
  <1>1. /\ waiter[t].pc = "wait" /\ ToPc(t, "check")
        /\ UNCHANGED <<log, synced, tm, deferred, lock, host, history, faults, restarts>>
    BY DEF Notified
  <1>h. begun' = begun /\ acked' = acked /\ published' = published /\ marked' = marked
    BY <1>1 DEF history
  <1>2. /\ waiter' \in [Thread -> Waits]
        /\ \A u \in Thread : waiter'[u].seq = waiter[u].seq /\ waiter'[u].target = waiter[u].target
    BY <1>t, <1>1, ToPcTyped
  <1>3. All' = All /\ Flushed' = Flushed /\ Open' = Open
    BY <1>1, <1>h DEF All, Flushed, Open, Accepts
  <1>4. TypeOK'
    BY <1>t, <1>1, <1>h, <1>2 DEF TypeOK, Waits
  <1>5. LogInv'
    BY <1>n, <1>h, <1>3, LogKept
  <1>6. ManagerInv' /\ CountInv'
    <2>1. tm.valid => UsedInv
      BY DEF IInv, ManagerInv
    <2>2. QED
      BY <1>1, <1>h, <1>2, <2>1, ManagerKept DEF UsedInv
  <1>7. WaitInv'
    <2>1. host = "mounted"
      BY <1>1, WaitersAreMounted
    <2>2. \A u \in Thread : waiter'[u].seq \in {0, waiter[u].seq}
      BY <1>2
    <2>3. \A r \in Open' : r \in Flushed' \/ r \in Open \ Flushed
      BY <1>3
    <2>4. QED
      BY <1>1, <1>3, <2>1, <2>2, <2>3, WaitKept
  <1>8. QED
    BY <1>4, <1>5, <1>6, <1>7 DEF IInv

\* The flusher that takes the append mutex keeps the invariant.
LEMMA LockAppendsKeeps ==
    ASSUME IInv, NEW t \in Thread, LockAppends(t)
    PROVE  IInv'
  <1>t. TypeOK
    BY DEF IInv
  <1>n. begun \in Nat /\ deferred.pending \in Nat
    BY <1>t, NumbersTyped
  <1>1. /\ waiter[t].pc = "window" /\ lock' = t
        /\ waiter' = [waiter EXCEPT ![t].pc = "flush", ![t].target = deferred.pending]
        /\ UNCHANGED <<log, synced, tm, deferred, host, history, faults, restarts>>
    BY DEF LockAppends
  <1>h. begun' = begun /\ acked' = acked /\ published' = published /\ marked' = marked
    BY <1>1 DEF history
  <1>w. PICK w : w = [waiter[t] EXCEPT !.pc = "flush", !.target = deferred.pending]
    OBVIOUS
  <1>2. waiter \in [Thread -> Waits] /\ waiter[t] \in Waits
    BY <1>t DEF TypeOK, Waits
  <1>3. w \in Waits /\ w.seq = waiter[t].seq /\ w.target = deferred.pending
    BY <1>n, <1>w, <1>2 DEF Waits
  <1>4. waiter' = [waiter EXCEPT ![t] = w]
    BY <1>1, <1>w, <1>2
  <1>5. /\ waiter' \in [Thread -> Waits] /\ waiter'[t] = w
        /\ \A u \in Thread \ {t} : waiter'[u] = waiter[u]
    BY <1>t, <1>3, <1>4, StepTyped
  <1>6. All' = All /\ Flushed' = Flushed /\ Open' = Open
    BY <1>1, <1>h DEF All, Flushed, Open, Accepts
  <1>7. TypeOK'
    BY <1>t, <1>1, <1>h, <1>5 DEF TypeOK, Waits
  <1>8. LogInv'
    BY <1>n, <1>h, <1>6, LogKept
  <1>9. ManagerInv' /\ CountInv'
    <2>1. tm.valid => UsedInv
      BY DEF IInv, ManagerInv
    <2>2. tm.valid => \A u \in Thread : waiter'[u].seq < Low /\ waiter'[u].target < Low
      BY <1>3, <1>5, <2>1 DEF UsedInv
    <2>3. QED
      BY <1>1, <1>h, <2>1, <2>2, ManagerKept DEF UsedInv
  <1>10. WaitInv'
    <2>1. host = "mounted"
      BY <1>1, WaitersAreMounted
    <2>2. \A u \in Thread : waiter'[u].seq \in {0, waiter[u].seq}
      BY <1>3, <1>5
    <2>3. \A r \in Open' : r \in Flushed' \/ r \in Open \ Flushed
      BY <1>6
    <2>4. QED
      BY <1>1, <1>6, <2>1, <2>2, <2>3, WaitKept
  <1>11. QED
    BY <1>7, <1>8, <1>9, <1>10 DEF IInv

\* All of the log is flushed.
LEMMA AllFlushed ==
    ASSUME log' = log, synced' = Len(log)
    PROVE  All' = All /\ Flushed' = All
  BY DEF All, Flushed, Elems

Deferreds == [pending : Nat, durable : Nat, failed : BOOLEAN, flushing : BOOLEAN]

\* A flush keeps the invariant: everything is then on stable storage.
LEMMA FlushPendingAppendsKeeps ==
    ASSUME IInv, NEW t \in Thread, FlushPendingAppends(t)
    PROVE  IInv'
  <1>t. TypeOK
    BY DEF IInv
  <1>n. /\ begun \in Nat /\ deferred.pending \in Nat /\ deferred.durable \in Nat /\ Low \in Nat
        /\ waiter[t].target \in Nat /\ log \in Seq(Record) /\ synced \in 0 .. Len(log)
    BY <1>t, NumbersTyped
  <1>1. /\ waiter[t].pc = "flush" /\ synced' = Len(log) /\ lock' = Free /\ ToPc(t, "check")
        /\ deferred' = [deferred EXCEPT !.durable = Max2(@, waiter[t].target), !.flushing = FALSE]
        /\ UNCHANGED <<log, tm, host, history, faults, restarts>>
    BY DEF FlushPendingAppends
  <1>h. begun' = begun /\ acked' = acked /\ published' = published /\ marked' = marked
    BY <1>1 DEF history
  <1>2. /\ waiter' \in [Thread -> Waits]
        /\ \A u \in Thread : waiter'[u].seq = waiter[u].seq /\ waiter'[u].target = waiter[u].target
    BY <1>t, <1>1, ToPcTyped
  <1>3. All' = All /\ Flushed' = All
    BY <1>1, AllFlushed
  <1>4. PICK d : d = Max2(deferred.durable, waiter[t].target)
    OBVIOUS
  <1>5. d \in Nat /\ d \in {deferred.durable, waiter[t].target}
    BY <1>n, <1>4 DEF Max2
  <1>6. deferred' \in Deferreds /\ deferred'.pending = deferred.pending /\ deferred'.durable = d
    <2>1. deferred \in Deferreds
      BY <1>t DEF TypeOK, Deferreds
    <2>2. deferred' = [deferred EXCEPT !.durable = d, !.flushing = FALSE]
      BY <1>1, <1>4, <2>1 DEF Deferreds
    <2>3. QED
      BY <1>5, <2>1, <2>2 DEF Deferreds
  <1>7. TypeOK'
    <2>1. synced' \in 0 .. Len(log)
      BY <1>n, <1>1
    <2>2. QED
      BY <1>t, <1>1, <1>h, <1>2, <1>6, <2>1 DEF TypeOK, Waits, Deferreds
  <1>8. LogInv'
    <2>1. Flushed \subseteq Flushed'
      BY <1>n, <1>3, RecordsTyped
    <2>2. QED
      BY <1>n, <1>h, <1>3, <2>1, LogKept
  <1>9. ManagerInv' /\ CountInv'
    <2>1. tm.valid => UsedInv
      BY DEF IInv, ManagerInv
    <2>2. tm.valid => /\ deferred'.pending < Low /\ deferred'.durable < Low
                      /\ \A u \in Thread : waiter'[u].seq < Low /\ waiter'[u].target < Low
      BY <1>2, <1>5, <1>6, <2>1 DEF UsedInv
    <2>3. QED
      BY <1>1, <1>h, <2>2, ManagerKept
  <1>10. WaitInv'
    <2>1. Open' \subseteq Flushed'
      BY <1>3 DEF Open, Accepts
    <2>2. host = "mounted"
      BY <1>1, WaitersAreMounted
    <2>3. QED
      BY <1>1, <2>1, <2>2, WaitSettled
  <1>11. QED
    BY <1>7, <1>8, <1>9, <1>10 DEF IInv

\* The state of deferred durability after a failure.
LEMMA FailureNoted ==
    ASSUME TypeOK, deferred' = [deferred EXCEPT !.failed = TRUE, !.flushing = FALSE]
    PROVE  /\ deferred' \in Deferreds
           /\ deferred'.pending = deferred.pending /\ deferred'.durable = deferred.durable
  <1>1. deferred \in Deferreds
    BY DEF TypeOK, Deferreds
  <1>2. QED
    BY <1>1 DEF Deferreds

\* One more failing call.
LEMMA FaultTyped ==
    ASSUME TypeOK, faults < MaxFaults, faults' = faults + 1
    PROVE  faults' \in 0 .. MaxFaults
  <1>1. faults \in 0 .. MaxFaults /\ MaxFaults \in Nat
    BY JournalAssumption DEF TypeOK
  <1>2. QED
    BY <1>1

\* A flush that fails keeps the invariant.
LEMMA FlushFailsKeeps ==
    ASSUME IInv, NEW t \in Thread, FlushFails(t)
    PROVE  IInv'
  <1>t. TypeOK
    BY DEF IInv
  <1>n. begun \in Nat
    BY <1>t, NumbersTyped
  <1>1. /\ waiter[t].pc = "flush" /\ lock' = Free /\ ToPc(t, "fail")
        /\ faults < MaxFaults /\ faults' = faults + 1
        /\ deferred' = [deferred EXCEPT !.failed = TRUE, !.flushing = FALSE]
        /\ UNCHANGED <<log, synced, tm, host, history, restarts>>
    BY DEF FlushFails
  <1>h. begun' = begun /\ acked' = acked /\ published' = published /\ marked' = marked
    BY <1>1 DEF history
  <1>2. /\ waiter' \in [Thread -> Waits]
        /\ \A u \in Thread : waiter'[u].seq = waiter[u].seq /\ waiter'[u].target = waiter[u].target
    BY <1>t, <1>1, ToPcTyped
  <1>3. All' = All /\ Flushed' = Flushed /\ Open' = Open
    BY <1>1, <1>h DEF All, Flushed, Open, Accepts
  <1>4. /\ deferred' \in Deferreds
        /\ deferred'.pending = deferred.pending /\ deferred'.durable = deferred.durable
    BY <1>t, <1>1, FailureNoted
  <1>5. TypeOK'
    <2>1. faults' \in 0 .. MaxFaults
      BY <1>t, <1>1, FaultTyped
    <2>2. QED
      BY <1>t, <1>1, <1>h, <1>2, <1>4, <2>1 DEF TypeOK, Waits, Deferreds
  <1>6. LogInv'
    BY <1>n, <1>h, <1>3, LogKept
  <1>7. ManagerInv' /\ CountInv'
    <2>1. tm.valid => UsedInv
      BY DEF IInv, ManagerInv
    <2>2. QED
      BY <1>1, <1>h, <1>2, <1>4, <2>1, ManagerKept DEF UsedInv
  <1>8. WaitInv'
    <2>1. host = "mounted"
      BY <1>1, WaitersAreMounted
    <2>2. \A u \in Thread : waiter'[u].seq \in {0, waiter[u].seq}
      BY <1>2
    <2>3. \A r \in Open' : r \in Flushed' \/ r \in Open \ Flushed
      BY <1>3
    <2>4. QED
      BY <1>1, <1>3, <1>4, <2>1, <2>2, <2>3, WaitKept
  <1>9. QED
    BY <1>5, <1>6, <1>7, <1>8 DEF IInv

\* The state of the manager is unknown.
LEMMA DurabilityFailedKeeps ==
    ASSUME IInv, tm' = DurabilityFailed, log' = log, synced' = synced,
           UNCHANGED history, host' = "mounted" <=> host = "mounted",
           deferred' = [deferred EXCEPT !.failed = TRUE, !.flushing = FALSE],
           \A t \in Thread : waiter'[t].seq \in {0, waiter[t].seq},
           host # "mounted" => waiter' = waiter
    PROVE  /\ tm' \in Managers /\ deferred' \in Deferreds
           /\ LogInv' /\ ManagerInv' /\ CountInv' /\ WaitInv'
  <1>t. TypeOK
    BY DEF IInv
  <1>n. begun \in Nat /\ tm \in Managers
    BY <1>t, NumbersTyped
  <1>h. begun' = begun /\ acked' = acked /\ published' = published /\ marked' = marked
    BY DEF history
  <1>1. /\ tm' \in Managers /\ ~tm'.valid
        /\ tm'.nextSeq = tm.nextSeq /\ tm'.nextTx = tm.nextTx /\ tm'.tx = tm.tx
    BY <1>n DEF DurabilityFailed, Managers
  <1>2. All' = All /\ Flushed' = Flushed /\ Open' = Open
    BY <1>h DEF All, Flushed, Open, Accepts
  <1>3. /\ deferred' \in Deferreds
        /\ deferred'.pending = deferred.pending /\ deferred'.durable = deferred.durable
    BY <1>t, FailureNoted
  <1>4. LogInv'
    BY <1>n, <1>h, <1>2, LogKept
  <1>5. ManagerInv'
    BY <1>1 DEF ManagerInv
  <1>6. CountInv'
    BY <1>h, <1>1 DEF IInv, CountInv
  <1>7. WaitInv'
    <2>1. \A r \in Open' : r \in Flushed' \/ r \in Open \ Flushed
      BY <1>2
    <2>2. QED
      BY <1>1, <1>3, <2>1, WaitKept
  <1>8. QED
    BY <1>1, <1>3, <1>4, <1>5, <1>6, <1>7

\* A waiter that reports the failure keeps the invariant.
LEMMA DurabilityFailureKeeps ==
    ASSUME IInv, NEW t \in Thread, MarkDeferredAcceptanceDurabilityFailure(t)
    PROVE  IInv'
  <1>t. TypeOK
    BY DEF IInv
  <1>1. /\ waiter[t].pc = "fail" /\ tm' = DurabilityFailed
        /\ deferred' = [deferred EXCEPT !.failed = TRUE, !.flushing = FALSE]
        /\ waiter' = [waiter EXCEPT ![t] = NotWaiting]
        /\ UNCHANGED <<log, synced, lock, host, history, faults, restarts>>
    BY DEF MarkDeferredAcceptanceDurabilityFailure
  <1>2. NotWaiting \in Waits /\ NotWaiting.seq = 0
    BY DEF NotWaiting, Waits
  <1>3. /\ waiter' \in [Thread -> Waits] /\ waiter'[t] = NotWaiting
        /\ \A u \in Thread \ {t} : waiter'[u] = waiter[u]
    BY <1>t, <1>1, <1>2, StepTyped
  <1>4. \A u \in Thread : waiter'[u].seq \in {0, waiter[u].seq}
    BY <1>2, <1>3
  <1>5. host = "mounted"
    BY <1>1, WaitersAreMounted
  <1>6. /\ tm' \in Managers /\ deferred' \in Deferreds
        /\ LogInv' /\ ManagerInv' /\ CountInv' /\ WaitInv'
    BY <1>1, <1>4, <1>5, DurabilityFailedKeeps
  <1>7. TypeOK'
    BY <1>t, <1>1, <1>3, <1>6 DEF TypeOK, Waits, Deferreds, Managers, history
  <1>8. QED
    BY <1>6, <1>7 DEF IInv

\* FlushAcceptedEvidenceDurability keeps the invariant, whether its flush succeeds or not.
LEMMA FlushAcceptedEvidenceKeeps ==
    ASSUME IInv, NEW seq \in tm.bounds, FlushAcceptedEvidence(seq)
    PROVE  IInv'
  <1>t. TypeOK
    BY DEF IInv
  <1>n. /\ begun \in Nat /\ deferred.pending \in Nat /\ deferred.durable \in Nat /\ Low \in Nat
        /\ log \in Seq(Record) /\ synced \in 0 .. Len(log) /\ tm.bounds \subseteq Nat
        /\ tm.accepted \in Nat
    BY <1>t, NumbersTyped
  <1>1. /\ tm.valid /\ UNCHANGED <<log, lock, waiter, host, begun, published, marked, restarts>>
    BY DEF FlushAcceptedEvidence
  <1>2. CASE /\ synced' = Len(log)
             /\ deferred' = [deferred EXCEPT !.durable = Max2(@, seq)]
             /\ acked' = acked \cup AcceptedThrough(seq)
             /\ UNCHANGED <<tm, faults>>
    <2>1. All' = All /\ Flushed' = All
      BY <1>1, <1>2, AllFlushed
    <2>2. PICK d : d = Max2(deferred.durable, seq)
      OBVIOUS
    <2>3. d \in Nat /\ d \in {deferred.durable, seq}
      BY <1>n, <2>2 DEF Max2
    <2>4. deferred' \in Deferreds /\ deferred'.pending = deferred.pending /\ deferred'.durable = d
      <3>1. deferred \in Deferreds
        BY <1>t DEF TypeOK, Deferreds
      <3>2. deferred' = [deferred EXCEPT !.durable = d]
        BY <1>2, <2>2, <3>1 DEF Deferreds
      <3>3. QED
        BY <2>3, <3>1, <3>2 DEF Deferreds
    <2>5. TypeOK'
      <3>1. synced' \in 0 .. Len(log)
        BY <1>n, <1>2
      <3>2. acked' \subseteq 1 .. begun
        BY <1>t, <1>2, AcceptedThroughBegun DEF TypeOK
      <3>3. QED
        BY <1>t, <1>1, <1>2, <2>4, <3>1, <3>2 DEF TypeOK, Deferreds
    <2>6. LogInv'
      <3>1. Flushed \subseteq Flushed'
        BY <1>n, <2>1, RecordsTyped
      <3>2. \A a \in AcceptedThrough(seq) : \E r \in Flushed' : r.kind = "Accepted" /\ r.id = a
        BY <2>1, AcceptedThroughIs DEF Accepts
      <3>3. QED
        BY <1>n, <1>1, <1>2, <2>1, <3>1, <3>2, LogKept
    <2>7. ManagerInv' /\ CountInv'
      <3>1. UsedInv /\ KnownInv
        BY <1>1 DEF IInv, ManagerInv
      <3>2. seq < Low
        BY <1>n, <3>1 DEF UsedInv, KnownInv
      <3>3. deferred'.pending < Low /\ deferred'.durable < Low
        BY <2>3, <2>4, <3>1, <3>2 DEF UsedInv
      <3>4. \A a \in acked' : a \in acked \/ \E r \in Accepts : r.id = a
        BY <1>2, AcceptedThroughIs
      <3>5. \A u \in Thread : waiter'[u].seq < Low /\ waiter'[u].target < Low
        BY <1>1, <3>1 DEF UsedInv
      <3>6. QED
        BY <1>1, <1>2, <3>3, <3>4, <3>5, ManagerKept
    <2>8. WaitInv'
      <3>1. Open' \subseteq Flushed'
        BY <2>1 DEF Open, Accepts
      <3>2. QED
        BY <1>1, <3>1, WaitSettled
    <2>9. QED
      BY <2>5, <2>6, <2>7, <2>8 DEF IInv
  <1>3. CASE /\ faults < MaxFaults /\ faults' = faults + 1
             /\ deferred' = [deferred EXCEPT !.failed = TRUE, !.flushing = FALSE]
             /\ tm' = DurabilityFailed
             /\ UNCHANGED <<synced, acked>>
    <2>1. UNCHANGED history
      BY <1>1, <1>3 DEF history
    <2>2. \A u \in Thread : waiter'[u].seq \in {0, waiter[u].seq}
      BY <1>1
    <2>3. /\ tm' \in Managers /\ deferred' \in Deferreds
          /\ LogInv' /\ ManagerInv' /\ CountInv' /\ WaitInv'
      BY <1>1, <1>3, <2>1, <2>2, DurabilityFailedKeeps
    <2>4. faults' \in 0 .. MaxFaults
      BY <1>t, <1>3, FaultTyped
    <2>5. TypeOK'
      BY <1>t, <1>1, <1>3, <2>3, <2>4 DEF TypeOK, Deferreds, Managers
    <2>6. QED
      BY <2>3, <2>5 DEF IInv
  <1>4. QED
    BY <1>2, <1>3 DEF FlushAcceptedEvidence

\* The publication of a checkpoint keeps the invariant.
LEMMA PublishKeeps ==
    ASSUME IInv, NEW seq \in tm.bounds, Publish(seq)
    PROVE  IInv'
  <1>t. TypeOK
    BY DEF IInv
  <1>n. begun \in Nat
    BY <1>t, NumbersTyped
  <1>1. /\ tm.valid /\ published' = published \cup AcceptedThrough(seq)
        /\ UNCHANGED <<log, synced, tm, deferred, lock, waiter, host, begun, acked, marked,
                       faults, restarts>>
    BY DEF Publish
  <1>2. All' = All /\ Flushed' = Flushed /\ Open' \subseteq Open
    BY <1>1 DEF All, Flushed, Open, Accepts
  <1>3. TypeOK'
    <2>1. published' \subseteq 1 .. begun
      BY <1>t, <1>1, AcceptedThroughBegun DEF TypeOK
    <2>2. QED
      BY <1>t, <1>1, <2>1 DEF TypeOK
  <1>4. LogInv'
    BY <1>n, <1>1, <1>2, LogKept
  <1>5. ManagerInv' /\ CountInv'
    <2>1. UsedInv
      BY <1>1 DEF IInv, ManagerInv
    <2>2. /\ deferred'.pending < Low /\ deferred'.durable < Low
          /\ \A t \in Thread : waiter'[t].seq < Low /\ waiter'[t].target < Low
      BY <1>1, <2>1 DEF UsedInv
    <2>3. QED
      BY <1>1, <2>2, ManagerKept
  <1>6. WaitInv'
    <2>1. \A u \in Thread : waiter'[u].seq \in {0, waiter[u].seq}
      BY <1>1
    <2>2. \A r \in Open' : r \in Flushed' \/ r \in Open \ Flushed
      BY <1>2
    <2>3. QED
      BY <1>1, <1>2, <2>1, <2>2, WaitKept
  <1>7. QED
    BY <1>3, <1>4, <1>5, <1>6 DEF IInv

\* Only the host's startup goes on.
LEMMA HostKeeps ==
    ASSUME IInv, host' \in {"starting", "replaying", "mounted"}, host # "mounted",
           UNCHANGED <<log, synced, tm, deferred, lock, waiter, history, faults, restarts>>,
           host' = "mounted" => Open = {}
    PROVE  IInv'
  <1>t. TypeOK
    BY DEF IInv
  <1>n. begun \in Nat
    BY <1>t, NumbersTyped
  <1>h. begun' = begun /\ acked' = acked /\ published' = published /\ marked' = marked
    BY DEF history
  <1>1. All' = All /\ Flushed' = Flushed /\ Open' = Open
    BY <1>h DEF All, Flushed, Open, Accepts
  <1>2. TypeOK'
    BY <1>t, <1>h DEF TypeOK
  <1>3. LogInv'
    BY <1>n, <1>h, <1>1, LogKept
  <1>4. ManagerInv' /\ CountInv'
    <2>1. tm.valid => UsedInv
      BY DEF IInv, ManagerInv
    <2>2. tm.valid => /\ deferred'.pending < Low /\ deferred'.durable < Low
                      /\ \A t \in Thread : waiter'[t].seq < Low /\ waiter'[t].target < Low
      BY <2>1 DEF UsedInv
    <2>3. QED
      BY <1>h, <2>2, ManagerKept
  <1>5. WaitInv'
    BY <1>1 DEF IInv, WaitInv
  <1>6. QED
    BY <1>2, <1>3, <1>4, <1>5 DEF IInv

\* The start of the replay keeps the invariant.
LEMMA ReplayAllKeeps ==
    ASSUME IInv, ReplayAll
    PROVE  IInv'
  BY HostKeeps DEF ReplayAll

\* The mount keeps the invariant: nothing accepted is then unapplied.
LEMMA MountKeeps ==
    ASSUME IInv, Mount
    PROVE  IInv'
  <1>1. /\ host = "replaying" /\ tm.valid /\ tm.accepted <= tm.durable /\ host' = "mounted"
        /\ UNCHANGED <<log, synced, tm, deferred, lock, waiter, history, faults, restarts>>
    BY DEF Mount
  <1>2. /\ tm.accepted \in Nat /\ tm.durable \in Nat
        /\ log \in Seq(Record) /\ synced \in 0 .. Len(log)
    BY NumbersTyped DEF IInv
  <1>3. Open = {}
    <2> SUFFICES ASSUME NEW r \in Open PROVE FALSE
      OBVIOUS
    <2>1. r \in Accepts /\ r.id \notin published /\ r \in All
      BY DEF Open, Accepts
    <2>2. r.seq <= tm.accepted /\ (r.seq <= tm.durable => r.id \in published)
      BY <1>1, <2>1 DEF IInv, ManagerInv, KnownInv
    <2>3. r.seq \in Nat
      BY <1>2, <2>1, RecordsTyped
    <2>4. QED
      BY <1>1, <1>2, <2>1, <2>2, <2>3
  <1>4. QED
    BY <1>1, <1>3, HostKeeps

\* The manager after it has read the log.
LEMMA SeededManager ==
    ASSUME TypeOK', LogInv', NEW m, ReadFrom(tm', m, All', begun'), tm'.st = "Idle",
           tm'.buffered = <<>>,
           \A i \in 1 .. Len(tm'.pending) : tm'.pending[i] >= 1 /\ tm'.pending[i] < tm'.nextSeq,
           deferred'.pending < tm'.nextSeq /\ deferred'.durable < tm'.nextSeq,
           \A t \in Thread : waiter'[t].seq < tm'.nextSeq /\ waiter'[t].target < tm'.nextSeq
    PROVE  ManagerInv'
  <1> SUFFICES ASSUME tm'.valid
               PROVE  UsedInv' /\ KnownInv' /\ BufferInv' /\ ActiveInv'
    BY DEF ManagerInv
  <1>n. MaxSequence \in Nat
    BY JournalAssumption
  <1>1. tm'.nextSeq \in Nat /\ tm'.nextSeq >= 1 /\ tm'.accepted \in Nat /\ tm'.durable \in Nat
    BY <1>n DEF ReadFrom, Managers
  <1>2. Low' = tm'.nextSeq
    BY DEF Low
  <1>3. \A r \in All' : r.seq \in Nat /\ r.seq >= 1 /\ r.n \in Nat
                        /\ (r.kind \in {"Durable", "Cleaned"} => r.n < r.seq)
    <2>1. log' \in Seq(Record)
      BY DEF TypeOK
    <2>2. \A r \in All' : r \in Record
      BY <2>1 DEF All, Elems
    <2>3. \A r \in All' : r.n \in Nat
      BY <2>2 DEF Record
    <2>4. QED
      BY <1>n, <2>3 DEF LogInv, RecordInv, RecordOK
  <1>4. /\ \A r \in All' : r.seq < tm'.nextSeq
        /\ \A r \in All' : r.kind \in {"Accepted", "Committed"} => r.seq <= tm'.accepted
        /\ \/ tm'.accepted = 0
           \/ \E r \in All' : r.kind \in {"Accepted", "Committed"} /\ r.seq = tm'.accepted
        /\ \/ tm'.durable = 0
           \/ \E r \in All' : \/ r.kind = "Committed" /\ r.seq = tm'.durable
                              \/ r.kind = "Durable" /\ r.n = tm'.durable
        /\ tm'.cleaned <= tm'.durable /\ \A b \in tm'.bounds : b <= tm'.accepted
    BY DEF ReadFrom
  <1>5. UsedInv'
    <2>1. tm'.accepted < tm'.nextSeq
      BY <1>1, <1>4
    <2>2. tm'.durable < tm'.nextSeq
      BY <1>1, <1>3, <1>4
    <2>3. QED
      BY <1>2, <1>4, <2>1, <2>2 DEF UsedInv
  <1>6. KnownInv'
    <2>1. \A r \in Accepts' : r \in All' /\ r.kind = "Accepted"
      BY DEF Accepts
    <2>2. ASSUME NEW r \in Accepts', r.seq <= tm'.durable
          PROVE  r.id \in published'
      <3> SUFFICES ASSUME r.id \notin published' PROVE FALSE
        OBVIOUS
      <3>1. r \in Open'
        BY DEF Open
      <3>2. \A q \in All' : Behind(q, r)
        BY <3>1 DEF LogInv, OpenInv, Behind
      <3>3. r.seq \in Nat /\ r.seq >= 1
        BY <1>3, <2>1
      <3>4. QED
        BY <1>1, <1>3, <1>4, <2>2, <3>2, <3>3 DEF Behind
    <2>3. QED
      BY <1>4, <2>1, <2>2 DEF KnownInv
  <1>7. BufferInv'
    BY <1>1, <1>2 DEF BufferInv
  <1>8. ActiveInv'
    BY DEF ActiveInv
  <1>9. QED
    BY <1>5, <1>6, <1>7, <1>8

\* Reading the log again while idle keeps the invariant.
LEMMA ReseedKeeps ==
    ASSUME IInv, Reseed
    PROVE  IInv'
  <1>t. TypeOK
    BY DEF IInv
  <1>n. /\ tm \in Managers /\ tm.nextSeq \in Nat /\ tm.nextTx \in Nat /\ begun \in Nat
        /\ Low \in Nat /\ MaxSequence \in Nat /\ log \in Seq(Record) /\ synced \in 0 .. Len(log)
        /\ deferred.pending \in Nat /\ deferred.durable \in Nat /\ tm.pending \in Seq(Nat)
        /\ \A t \in Thread : waiter[t].seq \in Nat /\ waiter[t].target \in Nat
    BY <1>t, NumbersTyped
  <1>1. /\ tm.valid /\ tm.st = "Idle" /\ tm' = Seed(tm, log)
        /\ UNCHANGED <<log, synced, deferred, lock, waiter, host, history, faults, restarts>>
    BY DEF Reseed
  <1>h. begun' = begun /\ acked' = acked /\ published' = published /\ marked' = marked
    BY <1>1 DEF history
  <1>2. All' = All /\ Flushed' = Flushed /\ Open' = Open
    BY <1>1, <1>h DEF All, Flushed, Open, Accepts
  <1>m. PICK m : m = tm
    OBVIOUS
  <1>3. ReadFrom(tm', m, All, begun)
    <2>1. \A r \in All : /\ r.seq \in 1 .. MaxSequence /\ r.tx <= begun
                         /\ r.kind \in {"Durable", "Cleaned"} => r.n < r.seq
      BY DEF IInv, LogInv, RecordInv, RecordOK
    <2>2. ReadFrom(Seed(tm, log), tm, Elems(log), begun)
      BY <1>n, <2>1, SeedFacts DEF All
    <2>3. QED
      BY <1>1, <1>m, <2>2 DEF All
  <1>4. /\ tm' \in Managers /\ tm'.st = "Idle" /\ tm'.tx = tm.tx /\ tm'.pending = tm.pending
        /\ tm'.buffered = tm.buffered /\ tm'.nextSeq >= tm.nextSeq
        /\ tm.nextSeq <= MaxSequence + 1 => tm'.nextSeq <= MaxSequence + 1
        /\ tm.nextTx <= begun + 1 => tm'.nextTx <= begun + 1
    BY <1>1, <1>3, <1>m DEF ReadFrom
  <1>5. TypeOK'
    BY <1>t, <1>1, <1>h, <1>4 DEF TypeOK, Managers
  <1>6. LogInv'
    BY <1>n, <1>h, <1>2, LogKept
  <1>7. ManagerInv'
    <2>1. UsedInv /\ BufferInv
      BY <1>1 DEF IInv, ManagerInv
    <2>2. tm.buffered = <<>> /\ Low = tm.nextSeq
      BY <1>1, <2>1 DEF BufferInv, Low
    <2>3. tm'.nextSeq \in Nat
      BY <1>n, <1>4 DEF Managers
    <2>4. \A i \in 1 .. Len(tm.pending) : tm.pending[i] \in Nat
      BY <1>n
    <2>5. \A i \in 1 .. Len(tm'.pending) : tm'.pending[i] >= 1 /\ tm'.pending[i] < tm'.nextSeq
      <3>1. tm.nextSeq \in Nat /\ tm'.nextSeq >= tm.nextSeq /\ tm'.pending = tm.pending
        BY <1>n, <1>4
      <3>2. \A i \in 1 .. Len(tm.pending) : tm.pending[i] >= 1 /\ tm.pending[i] < tm.nextSeq
        BY <2>1 DEF BufferInv
      <3>3. QED
        BY <2>3, <2>4, <3>1, <3>2
    <2>6. deferred'.pending < tm'.nextSeq /\ deferred'.durable < tm'.nextSeq
      BY <1>n, <1>1, <1>4, <2>1, <2>2, <2>3 DEF UsedInv
    <2>7. \A t \in Thread : waiter'[t].seq < tm'.nextSeq /\ waiter'[t].target < tm'.nextSeq
      BY <1>n, <1>1, <1>4, <2>1, <2>2, <2>3 DEF UsedInv
    <2>8. ReadFrom(tm', m, All', begun')
      BY <1>h, <1>2, <1>3
    <2>9. QED
      BY <1>4, <1>5, <1>6, <2>2, <2>5, <2>6, <2>7, <2>8, SeededManager
  <1>8. CountInv'
    BY <1>h, <1>4 DEF IInv, CountInv
  <1>9. WaitInv'
    <2>1. CASE host = "mounted"
      <3> SUFFICES ASSUME NEW r \in Open, r \notin Flushed
                   PROVE  Awaited(r)'
        BY <1>1, <1>2, <2>1 DEF WaitInv
      <3>1. Awaited(r)
        BY <1>1, <2>1 DEF IInv, WaitInv, Forsaken
      <3>2. tm'.valid => tm'.accepted <= deferred.pending
        <4> SUFFICES ASSUME tm'.valid PROVE tm'.accepted <= deferred.pending
          OBVIOUS
        <4>1. \/ tm'.accepted = 0
              \/ \E q \in All : q.kind \in {"Accepted", "Committed"} /\ q.seq = tm'.accepted
          BY <1>3 DEF ReadFrom
        <4>2. QED
          BY <1>n, <1>1, <3>1, <4>1 DEF Awaited
      <3>3. QED
        BY <1>1, <1>2, <3>1, <3>2 DEF Awaited
    <2>2. CASE host # "mounted"
      BY <1>1, <2>2 DEF IInv, WaitInv
    <2>3. QED
      BY <2>1, <2>2
  <1>10. QED
    BY <1>5, <1>6, <1>7, <1>8, <1>9 DEF IInv

\* A restart on any prefix of the log with the durable records keeps the invariant.
LEMMA RestartKeeps ==
    ASSUME IInv, NEW n \in synced .. Len(log), NEW s \in synced .. n, Restart(n, s)
    PROVE  IInv'
  <1>t. TypeOK
    BY DEF IInv
  <1>n. /\ begun \in Nat /\ MaxSequence \in Nat /\ log \in Seq(Record) /\ synced \in 0 .. Len(log)
    BY <1>t, NumbersTyped
  <1>1. /\ restarts < MaxRestarts /\ restarts' = restarts + 1
        /\ log' = SubSeq(log, 1, n) /\ synced' = s
        /\ tm' = Seed(Fresh, log')
        /\ deferred' = NoDeferred /\ lock' = Free
        /\ waiter' = [t \in Thread |-> NotWaiting]
        /\ host' = "starting"
        /\ UNCHANGED <<history, faults>>
    BY DEF Restart
  <1>h. begun' = begun /\ acked' = acked /\ published' = published /\ marked' = marked
    BY <1>1 DEF history
  <1>2. /\ Len(log) \in Nat /\ n \in 0 .. Len(log) /\ s \in 0 .. n
        /\ \A i \in 1 .. synced : i \in 1 .. s
        /\ \A i \in 1 .. s : i \in 1 .. n
        /\ \A i \in 1 .. n : i \in 1 .. Len(log)
    BY <1>n
  <1>3. /\ log' \in Seq(Record) /\ Len(log') = n /\ Elems(log') = {log[i] : i \in 1 .. n}
    BY <1>n, <1>1, <1>2, PrefixFacts
  <1>4. All' \subseteq All
    BY <1>2, <1>3 DEF All, Elems
  <1>5. Flushed \subseteq Flushed'
    <2>1. \A i \in 1 .. s : log'[i] = log[i]
      <3>1. PICK p : p = SubSeq(log, 1, n)
        OBVIOUS
      <3>2. \A i \in 1 .. n : p[i] = log[i]
        BY <1>n, <1>2, <3>1, SubSeqProperties
      <3>3. QED
        BY <1>1, <1>2, <3>1, <3>2
    <2>2. QED
      BY <1>1, <1>2, <2>1 DEF Flushed
  <1>6. Fresh \in Managers /\ Fresh.st = "Idle" /\ Fresh.buffered = <<>> /\ Fresh.pending = <<>>
        /\ Fresh.nextSeq = 1 /\ Fresh.nextTx = 1 /\ Fresh.tx = 0
    BY <1>n DEF Fresh, Managers
  <1>7. ReadFrom(tm', Fresh, All', begun)
    <2>1. \A r \in All' : /\ r.seq \in 1 .. MaxSequence /\ r.tx <= begun
                          /\ r.kind \in {"Durable", "Cleaned"} => r.n < r.seq
      BY <1>4 DEF IInv, LogInv, RecordInv, RecordOK
    <2>2. PICK l : l = log'
      OBVIOUS
    <2>3. \A r \in Elems(l) : /\ r.seq \in 1 .. MaxSequence /\ r.tx <= begun
                              /\ r.kind \in {"Durable", "Cleaned"} => r.n < r.seq
      BY <2>1, <2>2 DEF All
    <2>4. ReadFrom(Seed(Fresh, l), Fresh, Elems(l), begun)
      BY <1>n, <1>3, <1>6, <2>2, <2>3, SeedFacts
    <2>5. QED
      BY <1>1, <2>2, <2>4 DEF All
  <1>8. /\ tm' \in Managers /\ tm'.st = "Idle" /\ tm'.tx = 0 /\ tm'.pending = <<>>
        /\ tm'.buffered = <<>> /\ tm'.nextSeq >= 1 /\ tm'.nextSeq <= MaxSequence + 1
        /\ tm'.nextTx <= begun + 1
    BY <1>n, <1>6, <1>7 DEF ReadFrom
  <1>9. NotWaiting \in Waits /\ NotWaiting.seq = 0 /\ NotWaiting.target = 0
    BY DEF NotWaiting, Waits
  <1>10. NoDeferred \in Deferreds /\ NoDeferred.pending = 0 /\ NoDeferred.durable = 0
    BY DEF NoDeferred, Deferreds
  <1>11. TypeOK'
    <2>1. waiter' \in [Thread -> Waits]
      BY <1>1, <1>9
    <2>2. restarts' \in 0 .. MaxRestarts
      <3>1. restarts \in 0 .. MaxRestarts /\ MaxRestarts \in Nat
        BY <1>t, JournalAssumption DEF TypeOK
      <3>2. QED
        BY <1>1, <3>1
    <2>3. synced' \in 0 .. Len(log')
      BY <1>1, <1>2, <1>3
    <2>4. QED
      BY <1>t, <1>1, <1>h, <1>3, <1>8, <1>10, <2>1, <2>2, <2>3
      DEF TypeOK, Managers, Waits, Deferreds
  <1>12. LogInv'
    BY <1>n, <1>h, <1>4, <1>5, LogKept
  <1>13. ManagerInv'
    <2>1. tm'.nextSeq \in Nat
      BY <1>n, <1>8 DEF Managers
    <2>2. deferred'.pending < tm'.nextSeq /\ deferred'.durable < tm'.nextSeq
      BY <1>1, <1>8, <1>10, <2>1
    <2>3. \A t \in Thread : waiter'[t].seq < tm'.nextSeq /\ waiter'[t].target < tm'.nextSeq
      BY <1>1, <1>8, <1>9, <2>1
    <2>4. \A i \in 1 .. Len(tm'.pending) : tm'.pending[i] >= 1 /\ tm'.pending[i] < tm'.nextSeq
      BY <1>8
    <2>5. QED
      BY <1>h, <1>7, <1>8, <1>11, <1>12, <2>2, <2>3, <2>4, SeededManager
  <1>14. CountInv'
    BY <1>n, <1>h, <1>8 DEF CountInv
  <1>15. WaitInv'
    BY <1>1 DEF WaitInv
  <1>16. QED
    BY <1>11, <1>12, <1>13, <1>14, <1>15 DEF IInv

\* The end of the process keeps the invariant.
LEMMA ProcessEndsKeeps ==
    ASSUME IInv, ProcessEnds
    PROVE  IInv'
  <1>1. log \in Seq(Record) /\ synced \in 0 .. Len(log)
    BY NumbersTyped DEF IInv
  <1>2. Len(log) \in synced .. Len(log) /\ synced \in synced .. Len(log)
    BY <1>1
  <1>3. QED
    BY <1>2, RestartKeeps DEF ProcessEnds

\* A power loss keeps the invariant.
LEMMA PowerLossKeeps ==
    ASSUME IInv, PowerLoss
    PROVE  IInv'
  <1>1. log \in Seq(Record) /\ synced \in 0 .. Len(log)
    BY NumbersTyped DEF IInv
  <1>2. PICK n \in synced .. Len(log) : Restart(n, n)
    BY DEF PowerLoss
  <1>3. n \in synced .. n
    BY <1>1
  <1>4. QED
    BY <1>2, <1>3, RestartKeeps

---------------------------------------------------------------------------
(* The actions that append.                                                *)

\* The manager m after a failure that left it as x otherwise.
FailedFrom(m, x) == \E a \in BOOLEAN : m = [x EXCEPT !.valid = FALSE, !.ambiguous = a]

\* What every append leaves of the invariant of the log.
LogGrown ==
    /\ log' \in Seq(Record) /\ synced' \in 0 .. Len(log') /\ faults' \in 0 .. MaxFaults
    /\ RecordInv' /\ UniqueInv' /\ OpenInv'
    /\ \A a \in acked \ published' : \E r \in Flushed' : r.kind = "Accepted" /\ r.id = a
    /\ \A r \in Accepts' : r.id \in marked => \E w \in Flushed' : Covers(w, r)

\* One append of a batch that may be appended, whatever becomes of it: the invariant of the log,
\* which records the log then has, which of them are durable, and what a success means.
LEMMA Appending ==
    ASSUME IInv, tm.valid, NEW s \in {synced, Len(log)}, NEW b \in Seq(Record),
           NEW flush \in BOOLEAN, NEW first \in 1 .. MaxSequence,
           NEW o \in Outcomes(s, b, flush, first),
           log' = o.log, synced' = o.synced, faults' = faults + o.faults,
           Appendable(Elems(b)),
           begun' = begun, published \subseteq published',
           \A r \in Open : r.id \notin published' => \A q \in Elems(b) : Behind(q, r)
    PROVE  /\ LogGrown
           /\ \A r \in All' : r \in All \/ r \in Elems(b) \/ r.kind = "Index"
           /\ \A r \in All' : r \in Flushed' \/ (s = synced /\ r \in All \ Flushed) \/ r \in Elems(b)
           /\ o.res = "Succeeded" => Elems(b) \subseteq All' /\ (flush => All' \subseteq Flushed')
  <1>n. log \in Seq(Record) /\ synced \in 0 .. Len(log) /\ MaxSequence \in Nat
    BY NumbersTyped DEF IInv
  <1>1. s \in 0 .. Len(log) /\ faults \in 0 .. MaxFaults
    <2>1. Len(log) \in Nat
      BY <1>n
    <2>2. Len(log) \in 0 .. Len(log)
      BY <2>1
    <2>3. s \in 0 .. Len(log)
      BY <1>n, <2>2
    <2>4. faults \in 0 .. MaxFaults
      BY DEF IInv, TypeOK
    <2>5. QED
      BY <2>3, <2>4
  <1>2. PICK f : f = SafeCompactionFloor(first)
    OBVIOUS
  <1>3. f \in Nat
    <2>1. f \in 1 .. MaxSequence
      BY <1>2, FloorFacts
    <2>2. QED
      BY <1>n, <2>1
  <1>4. PICK F : F = Pre(log, s)
    OBVIOUS
  <1>5. /\ Grown(log', synced', Elems(b), F, f) /\ faults' \in 0 .. MaxFaults
        /\ o.res = "Succeeded" => Elems(b) \subseteq Elems(log') /\ (flush => synced' = Len(log'))
    <2>1. log \in Seq(Record)
      BY <1>n
    <2>2. Result(o, b, flush, F, f)
      BY <2>1, <1>1, <1>2, <1>3, <1>4, OutcomeFacts
    <2>3. MaxFaults \in Nat /\ faults \in Nat /\ faults + o.faults <= MaxFaults /\ o.faults \in Nat
      BY <1>1, <2>2, JournalAssumption DEF Result
    <2>4. faults' \in 0 .. MaxFaults
      BY <2>3
    <2>5. Grown(log', synced', Elems(b), F, f)
      BY <2>2 DEF Result
    <2>6. o.res = "Succeeded" => Elems(b) \subseteq Elems(log') /\ (flush => synced' = Len(log'))
      BY <2>2 DEF Result
    <2>7. QED
      BY <2>4, <2>5, <2>6
  <1>6. F \subseteq All /\ Flushed \subseteq F /\ (s = synced => F = Flushed) /\ (s # synced => F = All)
    <2>1. Flushed \subseteq All
      BY <1>n, RecordsTyped
    <2>2. CASE s = synced
      BY <1>4, <2>1, <2>2 DEF Pre, Flushed
    <2>3. CASE s # synced
      BY <1>4, <2>1, <2>3 DEF Pre, All, Elems
    <2>4. QED
      BY <2>2, <2>3
  <1>7. /\ RecordInv' /\ UniqueInv' /\ OpenInv'
        /\ \A a \in acked \ published' : \E r \in Flushed' : r.kind = "Accepted" /\ r.id = a
        /\ \A r \in Accepts' : r.id \in marked => \E w \in Flushed' : Covers(w, r)
    BY <1>2, <1>5, <1>6, AppendKeepsLog
  <1>8. /\ log' \in Seq(Record) /\ synced' \in 0 .. Len(log')
        /\ \A r \in All' : r \in All \/ r \in Elems(b) \/ r = IndexRecord(f)
        /\ \A r \in All' : r \in Flushed' \/ r \in All \ F \/ r \in Elems(b)
    BY <1>5, GrownSets
  <1>9. IndexRecord(f).kind = "Index"
    BY DEF IndexRecord
  <1>10. \A r \in All' : r \in All \/ r \in Elems(b) \/ r.kind = "Index"
    BY <1>8, <1>9
  <1>11. \A r \in All' : r \in Flushed' \/ (s = synced /\ r \in All \ Flushed) \/ r \in Elems(b)
    BY <1>6, <1>8
  <1>12. o.res = "Succeeded" => Elems(b) \subseteq All' /\ (flush => All' \subseteq Flushed')
    <2>1. synced' = Len(log') => All' \subseteq Flushed'
      BY DEF All, Flushed, Elems
    <2>2. All' = Elems(log')
      BY DEF All
    <2>3. QED
      BY <1>5, <2>1, <2>2
  <1>13. LogGrown
    BY <1>5, <1>7, <1>8 DEF LogGrown
  <1>14. QED
    BY <1>10, <1>11, <1>12, <1>13

\* The manager after an append that failed.
LEMMA FailedFromFacts ==
    ASSUME NEW m, NEW x \in Managers, FailedFrom(m, x)
    PROVE  /\ m \in Managers /\ ~m.valid /\ m.nextSeq = x.nextSeq /\ m.nextTx = x.nextTx
           /\ m.tx = x.tx
  BY DEF FailedFrom, Managers

\* After an append that failed.
LEMMA AppendFailedKeeps ==
    ASSUME IInv, tm.valid, NEW E, NEW D \in SUBSET (All \ Flushed), ~tm'.valid,
           \A r \in All' : r \in Flushed' \/ r \in D \/ r \in E,
           \A r \in E : r.kind = "Accepted" => r.seq \in Nat /\ r.seq >= Low,
           tm'.nextSeq = tm.nextSeq, tm'.nextTx = tm.nextTx, tm'.tx = tm.tx,
           begun' = begun, published \subseteq published', waiter' = waiter,
           host' = "mounted" <=> host = "mounted",
           deferred'.pending = deferred.pending,
           D # {} => deferred'.durable = deferred.durable
    PROVE  ManagerInv' /\ CountInv' /\ WaitInv'
  <1>1. ManagerInv'
    BY DEF ManagerInv
  <1>2. CountInv'
    BY DEF IInv, CountInv
  <1>3. WaitInv'
    <2>1. CASE host = "mounted"
      <3> SUFFICES ASSUME NEW r \in Open', r \notin Flushed'
                   PROVE  Awaited(r)' \/ Forsaken(r)'
        BY <2>1 DEF WaitInv
      <3>1. r \in All' /\ r.kind = "Accepted" /\ r.id \notin published'
        BY DEF Open, Accepts
      <3>2. CASE r \in D
        <4>1. r \in Open \ Flushed
          BY <3>1, <3>2 DEF Open, Accepts
        <4>2. Awaited(r)
          BY <2>1, <4>1 DEF IInv, WaitInv, Forsaken
        <4>3. QED
          BY <3>2, <4>2 DEF Awaited
      <3>3. CASE r \in E
        <4>1. r.seq \in Nat /\ r.seq >= Low
          BY <3>1, <3>3
        <4>2. Low \in Nat /\ \A t \in Thread : waiter[t].seq \in Nat
          BY NumbersTyped DEF IInv
        <4>3. \A t \in Thread : waiter[t].seq < Low
          BY DEF IInv, ManagerInv, UsedInv
        <4>4. \A t \in Thread : waiter'[t].seq < r.seq
          BY <4>1, <4>2, <4>3
        <4>5. QED
          BY <4>4 DEF Forsaken
      <3>4. QED
        BY <3>1, <3>2, <3>3
    <2>2. CASE host # "mounted"
      BY <2>2 DEF IInv, WaitInv
    <2>3. QED
      BY <2>1, <2>2
  <1>4. QED
    BY <1>1, <1>2, <1>3

\* The sequence numbers in use after an append.
LEMMA UsedGrown ==
    ASSUME IInv, tm.valid, NEW E, NEW low \in Nat, Low' = low, Low <= low,
           \A r \in All' : r \in All \/ r \in E \/ r.kind = "Index", \A r \in E : r.seq < low,
           tm'.accepted < low, tm'.durable < low, deferred'.pending < low, deferred'.durable < low,
           \A t \in Thread : waiter'[t].seq < low /\ waiter'[t].target < low
    PROVE  UsedInv'
  <1>1. /\ Low \in Nat /\ log \in Seq(Record) /\ synced \in 0 .. Len(log)
    BY NumbersTyped DEF IInv
  <1>2. \A r \in All : r.seq \in Nat
    BY <1>1, RecordsTyped
  <1>3. \A r \in All : r.kind # "Index" => r.seq < Low
    BY DEF IInv, ManagerInv, UsedInv
  <1>4. \A r \in All : r.kind # "Index" => r.seq < low
    BY <1>1, <1>2, <1>3
  <1>5. QED
    BY <1>4 DEF UsedInv

\* What an open transaction has buffered and where it begins.
LEMMA ActiveFacts ==
    ASSUME IInv, Active
    PROVE  /\ UsedInv /\ KnownInv /\ BufferInv /\ ActiveInv /\ tm.valid /\ tm.st = "Active"
           /\ tm \in Managers /\ tm.nextSeq \in Nat /\ Low \in Nat /\ begun \in Nat /\ begun >= 1
           /\ MaxSequence \in Nat /\ tm.nextSeq >= 1 /\ tm.nextSeq <= MaxSequence
           /\ Low >= 1 /\ Low <= tm.nextSeq /\ tm.tx \in Nat /\ tm.tx <= begun
           /\ First \in 1 .. MaxSequence
           /\ tm.buffered \in Seq(Nat) /\ tm.pending \in Seq(Nat)
           /\ \A i \in 1 .. Len(tm.buffered) :
                  tm.buffered[i] \in Nat /\ tm.buffered[i] >= Low /\ tm.buffered[i] < tm.nextSeq
  <1>1. UsedInv /\ KnownInv /\ BufferInv /\ ActiveInv /\ tm.valid /\ tm.st = "Active"
    BY DEF Active, IInv, ManagerInv
  <1>2. /\ tm \in Managers /\ tm.nextSeq \in Nat /\ tm.nextSeq >= 1 /\ Low \in Nat /\ begun \in Nat
        /\ MaxSequence \in Nat /\ tm.buffered \in Seq(Nat) /\ tm.pending \in Seq(Nat)
    BY NumbersTyped DEF IInv
  <1>3. begun >= 1 /\ tm.nextSeq <= MaxSequence
    BY <1>1 DEF ActiveInv
  <1>4. tm.tx \in Nat /\ tm.tx <= begun
    BY <1>2 DEF IInv, CountInv, Managers
  <1>5. \A i \in 1 .. Len(tm.buffered) :
            tm.buffered[i] \in Nat /\ tm.buffered[i] >= Low /\ tm.buffered[i] < tm.nextSeq
    BY <1>1, <1>2 DEF BufferInv
  <1>6. Low >= 1 /\ Low <= tm.nextSeq
    <2>1. CASE tm.buffered = <<>>
      BY <1>2, <2>1 DEF Low
    <2>2. CASE tm.buffered # <<>>
      <3>1. 1 \in 1 .. Len(tm.buffered) /\ tm.buffered[1] = Low
        BY <1>2, <2>2 DEF Low
      <3>2. Low < tm.nextSeq
        BY <1>5, <3>1
      <3>3. QED
        BY <1>1, <1>2, <3>2 DEF BufferInv
    <2>3. QED
      BY <2>1, <2>2
  <1>7. First \in 1 .. MaxSequence
    <2>1. CASE tm.pending = <<>>
      BY <1>2, <1>3, <2>1 DEF First
    <2>2. CASE tm.pending # <<>>
      <3>1. 1 \in 1 .. Len(tm.pending) /\ tm.pending[1] \in Nat
        BY <1>2, <2>2
      <3>2. tm.pending[1] >= 1 /\ tm.pending[1] < tm.nextSeq
        BY <1>1, <3>1 DEF BufferInv
      <3>3. QED
        BY <1>2, <1>3, <2>2, <3>1, <3>2 DEF First
    <2>3. QED
      BY <2>1, <2>2
  <1>8. QED
    BY <1>1, <1>2, <1>3, <1>4, <1>5, <1>6, <1>7

\* The prepared records of the open transaction.
LEMMA PreparedFacts ==
    ASSUME IInv, Active
    PROVE  /\ Prepared \in Seq(Record)
           /\ \A r \in Elems(Prepared) : /\ r \in Record /\ RecordOK(r) /\ r.kind = "Prepared"
                                         /\ r.seq \in Nat /\ r.seq < tm.nextSeq
  <1>1. PICK n : n = Len(tm.buffered)
    OBVIOUS
  <1>2. /\ MaxSequence \in Nat /\ tm.nextSeq \in Nat /\ tm.nextSeq <= MaxSequence
        /\ Low \in Nat /\ Low >= 1 /\ n \in Nat /\ begun \in Nat /\ tm.tx \in Nat /\ tm.tx <= begun
        /\ \A i \in 1 .. n : tm.buffered[i] \in Nat /\ tm.buffered[i] >= Low
                             /\ tm.buffered[i] < tm.nextSeq
    BY <1>1, ActiveFacts
  <1>3. ASSUME NEW i \in 1 .. n
        PROVE  LET r == Of("Prepared", tm.buffered[i], 0)
               IN  /\ r \in Record /\ RecordOK(r) /\ r.kind = "Prepared"
                   /\ r.seq \in Nat /\ r.seq < tm.nextSeq
    <2>1. PICK q : q = tm.buffered[i]
      OBVIOUS
    <2>2. q \in Nat /\ q >= 1 /\ q < tm.nextSeq /\ q \in 1 .. MaxSequence
      BY <1>2, <2>1
    <2>3. PICK r : r = Of("Prepared", q, 0)
      OBVIOUS
    <2>4. r.kind = "Prepared" /\ r.seq = q /\ r.tx = tm.tx /\ r \in Record
      BY <1>2, <2>2, <2>3 DEF Of, Record, Kind
    <2>5. RecordOK(r)
      BY <1>2, <2>2, <2>4 DEF RecordOK
    <2>6. QED
      BY <2>1, <2>2, <2>3, <2>4, <2>5
  <1>4. PICK p : p = Prepared
    OBVIOUS
  <1>5. p = [i \in 1 .. n |-> Of("Prepared", tm.buffered[i], 0)]
    BY <1>1, <1>4 DEF Prepared
  <1>6. /\ \A i \in 1 .. n : p[i] = Of("Prepared", tm.buffered[i], 0)
        /\ p \in Seq(Record) /\ Len(p) = n
    <2>1. \A i \in 1 .. n : Of("Prepared", tm.buffered[i], 0) \in Record
      BY <1>3
    <2>2. p \in [1 .. n -> Record] /\ \A i \in 1 .. n : p[i] = Of("Prepared", tm.buffered[i], 0)
      BY <1>5, <2>1
    <2>3. p \in Seq(Record)
      BY <1>2, <2>2
    <2>4. Len(p) = n
      BY <1>2, <1>5
    <2>5. QED
      BY <2>2, <2>3, <2>4
  <1>7. \A r \in Elems(p) : /\ r \in Record /\ RecordOK(r) /\ r.kind = "Prepared"
                            /\ r.seq \in Nat /\ r.seq < tm.nextSeq
    BY <1>3, <1>6 DEF Elems
  <1>8. QED
    BY <1>4, <1>6, <1>7

\* The group that closes it.
LEMMA GroupFacts ==
    ASSUME IInv, Active, NEW kind \in {"Accepted", "Committed"}
    PROVE  LET m == Of(kind, tm.nextSeq, Len(tm.pending))
           IN  /\ Group(kind) \in Seq(Record)
               /\ m \in Record /\ m.kind = kind /\ m.seq = tm.nextSeq /\ m.id = begun
               /\ m \in Elems(Group(kind))
               /\ \A r \in Elems(Group(kind)) :
                      /\ r \in Record /\ RecordOK(r) /\ r.seq \in Nat /\ r.seq <= tm.nextSeq
                      /\ r.kind = "Prepared" \/ r = m
  <1>0. /\ MaxSequence \in Nat /\ tm.nextSeq \in Nat /\ tm.nextSeq <= MaxSequence /\ tm.nextSeq >= 1
        /\ begun \in Nat /\ begun >= 1 /\ tm.tx \in Nat /\ tm.tx <= begun
        /\ tm.pending \in Seq(Nat) /\ Len(tm.pending) \in Nat
    BY ActiveFacts
  <1>1. PICK m : m = Of(kind, tm.nextSeq, Len(tm.pending))
    OBVIOUS
  <1>2. m \in Record /\ m.kind = kind /\ m.seq = tm.nextSeq /\ m.id = begun /\ m.tx = tm.tx
    BY <1>0, <1>1 DEF Of, Record, Kind
  <1>3. RecordOK(m)
    BY <1>0, <1>2 DEF RecordOK
  <1>4. PICK p : p = Prepared
    OBVIOUS
  <1>5. /\ p \in Seq(Record)
        /\ \A r \in Elems(p) : /\ r \in Record /\ RecordOK(r) /\ r.kind = "Prepared"
                               /\ r.seq \in Nat /\ r.seq < tm.nextSeq
    BY <1>4, PreparedFacts
  <1>6. PICK g : g = Append(p, m)
    OBVIOUS
  <1>7. Group(kind) = g
    BY <1>1, <1>4, <1>6 DEF Group
  <1>8. /\ g \in Seq(Record) /\ Len(p) \in Nat /\ Len(g) = Len(p) + 1
        /\ (\A i \in 1 .. Len(p) : g[i] = p[i]) /\ g[Len(p) + 1] = m
    BY <1>2, <1>5, <1>6
  <1>9. \A i \in 1 .. Len(g) : i \in 1 .. Len(p) \/ i = Len(p) + 1
    BY <1>8
  <1>10. Len(p) + 1 \in 1 .. Len(g)
    BY <1>8
  <1>11. Elems(g) \subseteq Elems(p) \cup {m} /\ m \in Elems(g)
    BY <1>8, <1>9, <1>10 DEF Elems
  <1>12. \A r \in Elems(g) : /\ r \in Record /\ RecordOK(r) /\ r.seq \in Nat /\ r.seq <= tm.nextSeq
                             /\ r.kind = "Prepared" \/ r = m
    BY <1>0, <1>2, <1>3, <1>5, <1>11
  <1>13. QED
    BY <1>1, <1>2, <1>7, <1>8, <1>11, <1>12

\* The manager after an append that succeeded: nothing is buffered any more.
LEMMA GrownManager ==
    ASSUME IInv, tm.valid, NEW E, tm' \in Managers, begun' = begun,
           \A r \in All' : r \in All \/ r \in E \/ r.kind = "Index",
           \A r \in E : r.seq < tm'.nextSeq,
           tm'.buffered = <<>>, Low <= tm'.nextSeq,
           tm'.accepted < tm'.nextSeq, tm'.durable < tm'.nextSeq,
           deferred'.pending < tm'.nextSeq, deferred'.durable < tm'.nextSeq,
           \A t \in Thread : waiter'[t].seq < tm'.nextSeq /\ waiter'[t].target < tm'.nextSeq,
           tm.accepted <= tm'.accepted, published \subseteq published',
           \A r \in Accepts : r.seq <= tm'.durable => r.id \in published',
           \A r \in E : r.kind = "Accepted" => r.seq \in Nat /\ r.seq <= tm'.accepted /\ r.seq > tm'.durable,
           tm'.cleaned <= tm'.durable, \A x \in tm'.bounds : x <= tm'.accepted,
           \A i \in 1 .. Len(tm'.pending) : tm'.pending[i] >= 1 /\ tm'.pending[i] < tm'.nextSeq,
           tm'.nextSeq <= MaxSequence + 1, tm'.nextTx = tm.nextTx, tm'.tx <= begun,
           tm'.st = "Active" => /\ tm.st = "Active" /\ host' = host /\ tm'.nextSeq = tm.nextSeq
                                /\ marked' = marked /\ acked' = acked
                                /\ \A r \in E : r.kind # "Accepted"
    PROVE  ManagerInv' /\ CountInv'
  <1>1. CountInv'
    BY DEF IInv, CountInv
  <1>2. /\ log \in Seq(Record) /\ synced \in 0 .. Len(log) /\ MaxSequence \in Nat
        /\ tm.accepted \in Nat /\ Low \in Nat
    BY NumbersTyped DEF IInv
  <1>3. tm'.nextSeq \in Nat /\ tm'.nextSeq >= 1 /\ tm'.accepted \in Nat /\ tm'.durable \in Nat
    BY <1>2 DEF Managers
  <1>4. Low' = tm'.nextSeq
    BY DEF Low
  <1>5. UsedInv /\ KnownInv /\ BufferInv /\ ActiveInv
    BY DEF IInv, ManagerInv
  <1>6. UsedInv'
    <2>1. PICK low : low = tm'.nextSeq
      OBVIOUS
    <2>2. low \in Nat /\ Low' = low /\ Low <= low /\ (\A r \in E : r.seq < low)
      BY <1>3, <1>4, <2>1
    <2>3. tm'.accepted < low /\ tm'.durable < low /\ deferred'.pending < low /\ deferred'.durable < low
      BY <2>1
    <2>4. \A t \in Thread : waiter'[t].seq < low /\ waiter'[t].target < low
      BY <2>1
    <2>5. QED
      BY <2>2, <2>3, <2>4, UsedGrown
  <1>7. \A r \in Accepts' : r \in Accepts \/ (r \in E /\ r.kind = "Accepted")
    BY DEF Accepts
  <1>8. \A r \in Accepts : r.seq \in Nat
    BY <1>2, RecordsTyped DEF Accepts
  <1>9. KnownInv'
    <2>1. ASSUME NEW r \in Accepts'
          PROVE  r.seq <= tm'.accepted /\ (r.seq <= tm'.durable => r.id \in published')
      <3>1. CASE r \in Accepts
        <4>1. r.seq \in Nat /\ r.seq <= tm.accepted
          BY <1>5, <1>8, <3>1 DEF KnownInv
        <4>2. r.seq <= tm'.accepted
          BY <1>2, <1>3, <4>1
        <4>3. QED
          BY <3>1, <4>2
      <3>2. CASE r \in E /\ r.kind = "Accepted"
        <4>1. r.seq \in Nat /\ r.seq <= tm'.accepted /\ r.seq > tm'.durable
          BY <3>2
        <4>2. QED
          BY <1>3, <4>1
      <3>3. QED
        BY <1>7, <3>1, <3>2
    <2>2. QED
      BY <2>1 DEF KnownInv
  <1>10. BufferInv'
    <2>1. Len(tm'.buffered) = 0
      OBVIOUS
    <2>2. \A i \in 1 .. Len(tm'.buffered) : FALSE
      BY <2>1
    <2>3. Low' >= 1
      BY <1>3, <1>4
    <2>4. QED
      BY <2>2, <2>3 DEF BufferInv
  <1>11. ActiveInv'
    <2> SUFFICES ASSUME tm'.st = "Active"
                 PROVE  /\ host' = "mounted" /\ tm'.nextSeq <= MaxSequence
                        /\ begun' >= 1 /\ begun' \notin marked' \cup acked'
                        /\ \A r \in Accepts' : r.id # begun'
      BY DEF ActiveInv
    <2>1. /\ host = "mounted" /\ tm.nextSeq <= MaxSequence /\ begun >= 1
          /\ begun \notin marked \cup acked /\ \A r \in Accepts : r.id # begun
      BY <1>5 DEF ActiveInv
    <2>2. \A r \in Accepts' : r \in Accepts
      BY <1>7
    <2>3. QED
      BY <2>1, <2>2
  <1>12. QED
    BY <1>1, <1>6, <1>9, <1>10, <1>11 DEF ManagerInv

\* The invariant of the log after a flushed append that succeeded.
LEMMA GrownLog ==
    ASSUME LogGrown, NEW E, E \subseteq Flushed',
           \A a \in acked' \ published' :
               a \in acked \/ \E r \in E : r.kind = "Accepted" /\ r.id = a,
           \A r \in Accepts' : r.id \in marked' => r.id \in marked \/ \E w \in E : Covers(w, r)
    PROVE  LogInv'
  <1>1. AckedInv'
    <2> SUFFICES ASSUME NEW a \in acked' \ published'
                 PROVE  \E r \in Flushed' : r.kind = "Accepted" /\ r.id = a
      BY DEF AckedInv
    <2>1. CASE a \in acked
      BY <2>1 DEF LogGrown
    <2>2. CASE \E r \in E : r.kind = "Accepted" /\ r.id = a
      BY <2>2
    <2>3. QED
      BY <2>1, <2>2
  <1>2. MarkedInv'
    <2> SUFFICES ASSUME NEW r \in Accepts', r.id \in marked'
                 PROVE  \E w \in Flushed' : Covers(w, r)
      BY DEF MarkedInv
    <2>1. CASE r.id \in marked
      BY <2>1 DEF LogGrown
    <2>2. CASE \E w \in E : Covers(w, r)
      BY <2>2
    <2>3. QED
      BY <2>1, <2>2
  <1>3. QED
    BY <1>1, <1>2 DEF LogInv, LogGrown

\* An append that failed, or that said nothing new of any transaction.
LEMMA GrownLogSame ==
    ASSUME LogGrown, acked' = acked, marked' = marked
    PROVE  LogInv'
  BY DEF LogGrown, LogInv, AckedInv, MarkedInv

\* An append that failed.
LEMMA AppendFailureKeeps ==
    ASSUME IInv, tm.valid, LogGrown, NEW E, NEW D \in SUBSET (All \ Flushed),
           \A r \in All' : r \in Flushed' \/ r \in D \/ r \in E,
           \A r \in E : r.kind = "Accepted" => r.seq \in Nat /\ r.seq >= Low,
           tm' \in Managers, ~tm'.valid, tm'.nextSeq = tm.nextSeq, tm'.nextTx = tm.nextTx,
           tm'.tx = tm.tx, begun' = begun, acked' = acked, marked' = marked,
           published \subseteq published', published' \subseteq 1 .. begun,
           waiter' = waiter, lock' = lock, restarts' = restarts,
           host' = "mounted" <=> host = "mounted", host' \in {"starting", "replaying", "mounted"},
           deferred'.pending = deferred.pending, D # {} => deferred'.durable = deferred.durable,
           deferred' \in [pending : Nat, durable : Nat, failed : BOOLEAN, flushing : BOOLEAN]
    PROVE  IInv'
  <1>1. TypeOK
    BY DEF IInv
  <1>2. LogInv'
    BY GrownLogSame
  <1>3. TypeOK'
    BY <1>1 DEF TypeOK, Managers, LogGrown
  <1>4. ManagerInv' /\ CountInv' /\ WaitInv'
    BY AppendFailedKeeps
  <1>5. QED
    BY <1>2, <1>3, <1>4 DEF IInv

\* Every number in use is below the next one.
LEMMA NextSeqFacts ==
    ASSUME IInv, tm.valid
    PROVE  /\ Low <= tm.nextSeq /\ tm.accepted < tm.nextSeq /\ tm.durable < tm.nextSeq
           /\ deferred.pending < tm.nextSeq /\ deferred.durable < tm.nextSeq
           /\ \A t \in Thread : waiter[t].seq < tm.nextSeq /\ waiter[t].target < tm.nextSeq
           /\ \A r \in All : r.kind # "Index" => r.seq < tm.nextSeq
  <1>1. /\ tm.nextSeq \in Nat /\ Low \in Nat /\ tm.accepted \in Nat /\ tm.durable \in Nat
        /\ deferred.pending \in Nat /\ deferred.durable \in Nat /\ tm.buffered \in Seq(Nat)
        /\ \A t \in Thread : waiter[t].seq \in Nat /\ waiter[t].target \in Nat
        /\ log \in Seq(Record) /\ synced \in 0 .. Len(log)
    BY NumbersTyped DEF IInv
  <1>2. UsedInv /\ BufferInv
    BY DEF IInv, ManagerInv
  <1>3. Low <= tm.nextSeq
    <2>1. CASE tm.buffered = <<>>
      BY <1>1, <2>1 DEF Low
    <2>2. CASE tm.buffered # <<>>
      <3>1. 1 \in 1 .. Len(tm.buffered) /\ tm.buffered[1] = Low
        BY <1>1, <2>2 DEF Low
      <3>2. Low < tm.nextSeq
        BY <1>2, <3>1 DEF BufferInv
      <3>3. QED
        BY <1>1, <3>2
    <2>3. QED
      BY <2>1, <2>2
  <1>4. /\ tm.accepted < Low /\ tm.durable < Low /\ deferred.pending < Low /\ deferred.durable < Low
        /\ \A t \in Thread : waiter[t].seq < Low /\ waiter[t].target < Low
        /\ \A r \in All : r.kind # "Index" => r.seq < Low
    BY <1>2 DEF UsedInv
  <1>5. \A r \in All : r.seq \in Nat
    BY <1>1, RecordsTyped
  <1>6. \A r \in All : r.kind # "Index" => r.seq < tm.nextSeq
    BY <1>1, <1>3, <1>4, <1>5
  <1>7. \A t \in Thread : waiter[t].seq < tm.nextSeq /\ waiter[t].target < tm.nextSeq
    BY <1>1, <1>3, <1>4
  <1>8. QED
    BY <1>1, <1>3, <1>4, <1>6, <1>7

\* FlushPreparedRecords keeps the invariant.
LEMMA FlushPreparedRecordsKeeps ==
    ASSUME IInv, FlushPreparedRecords
    PROVE  IInv'
  <1>t. TypeOK
    BY DEF IInv
  <1>1. PICK ok : ok = [tm EXCEPT !.buffered = <<>>]
    OBVIOUS
  <1>b. PICK b : b = Prepared
    OBVIOUS
  <1>m. PICK m : m = tm
    OBVIOUS
  <1>2. /\ Active /\ tm.buffered # <<>>
        /\ UNCHANGED <<deferred, lock, waiter, host, history, restarts>>
    BY DEF FlushPreparedRecords
  <1>h. begun' = begun /\ acked' = acked /\ published' = published /\ marked' = marked
    BY <1>2 DEF history
  <1>s. PICK s : s = synced
    OBVIOUS
  <1>f. PICK first : first = First
    OBVIOUS
  <1>g. PICK flush \in BOOLEAN : flush = TRUE
    OBVIOUS
  <1>o. PICK o \in Outcomes(s, b, flush, first) :
            /\ log' = o.log /\ synced' = o.synced /\ faults' = faults + o.faults
            /\ o.res = "Succeeded" => tm' = ok
            /\ o.res # "Succeeded" => FailedFrom(tm', m)
    BY <1>1, <1>b, <1>m, <1>s, <1>f, <1>g DEF FlushPreparedRecords, Appended, AppendedAfter, Outcomes, FailedFrom
  <1>3. /\ UsedInv /\ KnownInv /\ BufferInv /\ ActiveInv /\ tm.valid /\ tm.st = "Active"
        /\ tm \in Managers /\ tm.nextSeq \in Nat /\ Low \in Nat /\ begun \in Nat
        /\ First \in 1 .. MaxSequence /\ Low <= tm.nextSeq /\ tm.tx <= begun
        /\ tm.pending \in Seq(Nat) /\ MaxSequence \in Nat /\ tm.nextSeq <= MaxSequence
    BY <1>2, ActiveFacts
  <1>4. /\ b \in Seq(Record)
        /\ \A r \in Elems(b) : /\ r \in Record /\ RecordOK(r) /\ r.kind = "Prepared"
                               /\ r.seq \in Nat /\ r.seq < tm.nextSeq
    BY <1>2, <1>b, PreparedFacts
  <1>5. Appendable(Elems(b))
    BY <1>4 DEF Appendable
  <1>6. \A r \in Open : r.id \notin published' => \A q \in Elems(b) : Behind(q, r)
    BY <1>4 DEF Behind
  <1>7. /\ LogGrown
        /\ \A r \in All' : r \in All \/ r \in Elems(b) \/ r.kind = "Index"
        /\ \A r \in All' : r \in Flushed' \/ (s = synced /\ r \in All \ Flushed) \/ r \in Elems(b)
        /\ o.res = "Succeeded" => Elems(b) \subseteq All' /\ (flush => All' \subseteq Flushed')
    <2>1. s \in {synced, Len(log)} /\ tm.valid /\ first \in 1 .. MaxSequence
      BY <1>s, <1>f, <1>m, <1>3
    <2>2. begun' = begun /\ published \subseteq published' /\ b \in Seq(Record)
      BY <1>h, <1>4
    <2>3. QED
      BY <1>o, <1>5, <1>6, <2>1, <2>2, Appending
  <1>8. LogInv'
    BY <1>h, <1>7, GrownLogSame
  <1>9. CASE o.res = "Succeeded"
    <2>1. /\ tm' \in Managers /\ tm'.st = "Active" /\ tm'.tx = tm.tx /\ tm'.pending = tm.pending
          /\ tm'.buffered = <<>> /\ tm'.nextSeq = tm.nextSeq /\ tm'.nextTx = tm.nextTx
          /\ tm'.accepted = tm.accepted /\ tm'.durable = tm.durable /\ tm'.cleaned = tm.cleaned
          /\ tm'.bounds = tm.bounds
      <3>1. PICK e : e = <<>>
        OBVIOUS
      <3>2. e \in Seq(Nat) /\ tm' = [tm EXCEPT !.buffered = e]
        BY <1>1, <1>o, <1>9, <3>1
      <3>3. QED
        BY <1>3, <3>1, <3>2 DEF Managers
    <2>2. /\ tm.accepted < tm.nextSeq /\ tm.durable < tm.nextSeq
          /\ deferred.pending < tm.nextSeq /\ deferred.durable < tm.nextSeq
          /\ \A t \in Thread : waiter[t].seq < tm.nextSeq /\ waiter[t].target < tm.nextSeq
      BY <1>3, NextSeqFacts
    <2>3. ManagerInv' /\ CountInv'
      <3>1. /\ \A r \in Elems(b) : r.seq < tm'.nextSeq
            /\ \A r \in Elems(b) : r.kind = "Accepted" => FALSE
        BY <1>4, <2>1
      <3>2. /\ \A r \in Accepts : r.seq <= tm'.durable => r.id \in published'
            /\ tm'.cleaned <= tm'.durable /\ \A x \in tm'.bounds : x <= tm'.accepted
        BY <1>h, <1>3, <2>1 DEF KnownInv
      <3>3. /\ \A i \in 1 .. Len(tm'.pending) : tm'.pending[i] >= 1 /\ tm'.pending[i] < tm'.nextSeq
        BY <1>3, <2>1 DEF BufferInv
      <3>4. tm'.nextSeq <= MaxSequence + 1 /\ Low <= tm'.nextSeq
        BY <1>3, <2>1
      <3>5. /\ tm'.accepted < tm'.nextSeq /\ tm'.durable < tm'.nextSeq
            /\ deferred'.pending < tm'.nextSeq /\ deferred'.durable < tm'.nextSeq
            /\ \A t \in Thread : waiter'[t].seq < tm'.nextSeq /\ waiter'[t].target < tm'.nextSeq
        BY <1>2, <2>1, <2>2
      <3>6. tm.accepted <= tm'.accepted
        BY <1>t, <2>1, NumbersTyped
      <3>7. PICK E : E = Elems(b)
        OBVIOUS
      <3>8. QED
        BY <1>h, <1>2, <1>3, <1>7, <2>1, <3>1, <3>2, <3>3, <3>4, <3>5, <3>6, <3>7, GrownManager
    <2>4. WaitInv'
      <3>1. Open' \subseteq Flushed'
        BY <1>g, <1>7, <1>9 DEF Open, Accepts
      <3>2. QED
        BY <1>2, <3>1, WaitSettled
    <2>5. TypeOK'
      BY <1>t, <1>2, <1>h, <1>7, <2>1 DEF TypeOK, Managers, LogGrown
    <2>6. QED
      BY <1>8, <2>3, <2>4, <2>5 DEF IInv
  <1>10. CASE o.res # "Succeeded"
    <2>f. /\ tm' \in Managers /\ ~tm'.valid /\ tm'.nextSeq = tm.nextSeq
          /\ tm'.nextTx = tm.nextTx /\ tm'.tx = tm.tx
      BY <1>o, <1>m, <1>3, <1>10, FailedFromFacts
    <2>1. PICK E : E = Elems(b)
      OBVIOUS
    <2>2. \A r \in E : r.kind = "Accepted" => r.seq \in Nat /\ r.seq >= Low
      BY <1>4, <2>1
    <2>d. PICK D : D = All \ Flushed
      OBVIOUS
    <2>3. D \in SUBSET (All \ Flushed) /\ \A r \in All' : r \in Flushed' \/ r \in D \/ r \in E
      BY <1>7, <2>1, <2>d
    <2>4. /\ published' \subseteq 1 .. begun /\ host' \in {"starting", "replaying", "mounted"}
          /\ deferred' \in [pending : Nat, durable : Nat, failed : BOOLEAN, flushing : BOOLEAN]
      BY <1>t, <1>2, <1>h DEF TypeOK
    <2>5. QED
      BY <1>h, <1>2, <1>3, <1>7, <2>f, <2>2, <2>3, <2>4, AppendFailureKeeps
  <1>11. QED
    BY <1>9, <1>10

---------------------------------------------------------------------------
(* The actions that close a transaction.                                   *)

\* The manager that closes a transaction, and the one that fails to.
LEMMA ClosedFacts ==
    ASSUME tm \in Managers, tm.nextSeq \in Nat, tm.nextSeq <= MaxSequence, MaxSequence \in Nat
    PROVE  /\ Closed \in Managers /\ Closed.st = "Idle" /\ Closed.tx = 0 /\ Closed.pending = <<>>
           /\ Closed.buffered = <<>> /\ Closed.nextSeq = tm.nextSeq + 1
           /\ Closed.nextTx = tm.nextTx /\ Closed.accepted = tm.accepted
           /\ Closed.durable = tm.durable /\ Closed.cleaned = tm.cleaned
           /\ Closed.bounds = tm.bounds /\ Closed.valid = tm.valid
           /\ Failed \in Managers /\ Failed.nextSeq = tm.nextSeq /\ Failed.nextTx = tm.nextTx
           /\ Failed.tx = tm.tx
  <1>1. PICK x : x = tm.nextSeq + 1
    OBVIOUS
  <1>2. PICK e : e = <<>>
    OBVIOUS
  <1>3. x \in 1 .. MaxSequence + 2 /\ e \in Seq(Nat)
    BY <1>1, <1>2
  <1>4. PICK c : c = Closed
    OBVIOUS
  <1>5. c = [tm EXCEPT !.st = "Idle", !.tx = 0, !.pending = e, !.buffered = e, !.nextSeq = x]
    BY <1>1, <1>2, <1>4 DEF Closed, Managers
  <1>6. /\ c \in Managers /\ c.st = "Idle" /\ c.tx = 0 /\ c.pending = e
        /\ c.buffered = e /\ c.nextSeq = x
        /\ c.nextTx = tm.nextTx /\ c.accepted = tm.accepted
        /\ c.durable = tm.durable /\ c.cleaned = tm.cleaned
        /\ c.bounds = tm.bounds /\ c.valid = tm.valid
    BY <1>3, <1>5 DEF Managers
  <1>7. /\ Failed \in Managers /\ Failed.nextSeq = tm.nextSeq /\ Failed.nextTx = tm.nextTx
        /\ Failed.tx = tm.tx
    BY DEF Failed, Managers
  <1>8. QED
    BY <1>1, <1>2, <1>4, <1>6, <1>7

\* The manager after a transaction was closed.
LEMMA ClosedManager ==
    ASSUME IInv, Active, NEW E, tm' \in Managers, begun' = begun, published \subseteq published',
           \A r \in All' : r \in All \/ r \in E \/ r.kind = "Index",
           \A r \in E : r.seq < tm'.nextSeq,
           tm'.st = "Idle", tm'.tx = 0, tm'.pending = <<>>, tm'.buffered = <<>>,
           tm'.nextTx = tm.nextTx, tm'.durable = tm.durable, tm'.cleaned = tm.cleaned,
           Low < tm'.nextSeq, tm'.nextSeq <= tm.nextSeq + 1,
           tm'.accepted < tm'.nextSeq, tm.accepted <= tm'.accepted,
           \A x \in tm'.bounds : x <= tm'.accepted,
           \A r \in E : r.kind = "Accepted" => r.seq \in Nat /\ r.seq <= tm'.accepted /\ r.seq > tm.durable,
           deferred'.pending < tm'.nextSeq, deferred'.durable < tm'.nextSeq,
           \A t \in Thread : waiter'[t].seq < tm'.nextSeq /\ waiter'[t].target < tm'.nextSeq
    PROVE  ManagerInv' /\ CountInv'
  <1>1. /\ UsedInv /\ KnownInv /\ tm.valid /\ tm.nextSeq \in Nat /\ Low \in Nat /\ begun \in Nat
        /\ MaxSequence \in Nat /\ tm.nextSeq <= MaxSequence
    BY ActiveFacts
  <1>2. tm.durable \in Nat
    BY NumbersTyped DEF IInv
  <1>3. tm'.nextSeq \in Nat
    BY <1>1 DEF Managers
  <1>4. Low <= tm'.nextSeq /\ tm'.nextSeq <= MaxSequence + 1 /\ tm'.tx <= begun
    BY <1>1, <1>3
  <1>5. tm'.durable < tm'.nextSeq
    BY <1>1, <1>2, <1>3 DEF UsedInv
  <1>6. /\ \A r \in Accepts : r.seq <= tm'.durable => r.id \in published'
        /\ tm'.cleaned <= tm'.durable
    BY <1>1 DEF KnownInv
  <1>7. \A i \in 1 .. Len(tm'.pending) : tm'.pending[i] >= 1 /\ tm'.pending[i] < tm'.nextSeq
    <2>1. Len(tm'.pending) = 0
      OBVIOUS
    <2>2. QED
      BY <2>1
  <1>8. \A r \in E : r.kind = "Accepted" => r.seq \in Nat /\ r.seq <= tm'.accepted /\ r.seq > tm'.durable
    OBVIOUS
  <1>9. tm'.st # "Active"
    OBVIOUS
  <1>10. QED
    BY <1>1, <1>4, <1>5, <1>6, <1>7, <1>8, <1>9, GrownManager

\* A group that accepts the open transaction may be appended.
LEMMA AcceptFacts ==
    ASSUME IInv, Active
    PROVE  /\ Appendable(Elems(Group("Accepted")))
           /\ \A r : \A q \in Elems(Group("Accepted")) : Behind(q, r)
  <1>1. PICK m : m = Of("Accepted", tm.nextSeq, Len(tm.pending))
    OBVIOUS
  <1>2. PICK E : E = Elems(Group("Accepted"))
    OBVIOUS
  <1>3. /\ m \in Record /\ m.kind = "Accepted" /\ m.seq = tm.nextSeq /\ m.id = begun /\ m \in E
        /\ \A r \in E : /\ r \in Record /\ RecordOK(r) /\ r.seq \in Nat /\ r.seq <= tm.nextSeq
                        /\ r.kind = "Prepared" \/ r = m
    BY <1>1, <1>2, GroupFacts
  <1>4. \A r \in E : r.kind = "Accepted" => r = m
    BY <1>3
  <1>5. \A r : \A q \in E : Behind(q, r)
    BY <1>3 DEF Behind
  <1>6. \A q \in All : Behind(q, m)
    <2> TAKE q \in All
    <2>1. tm.valid /\ tm.st = "Active" /\ tm.nextSeq \in Nat
      BY ActiveFacts
    <2>2. q.kind # "Index" => q.seq < tm.nextSeq
      BY <2>1, NextSeqFacts
    <2>3. q.seq \in Nat /\ q.n \in Nat
      <3>1. log \in Seq(Record) /\ synced \in 0 .. Len(log)
        BY NumbersTyped DEF IInv
      <3>2. QED
        BY <3>1, RecordsTyped
    <2>4. q.kind = "Durable" => q.n < q.seq
      BY DEF IInv, LogInv, RecordInv, RecordOK
    <2>5. q.kind = "Durable" => q.n < tm.nextSeq
      BY <2>1, <2>2, <2>3, <2>4
    <2>6. QED
      BY <1>3, <2>2, <2>5 DEF Behind
  <1>7. Appendable(E)
    BY <1>3, <1>4, <1>5, <1>6 DEF Appendable, Active
  <1>8. QED
    BY <1>2, <1>5, <1>7

\* The manager that accepts.
LEMMA AcceptedTmFacts ==
    ASSUME IInv, Active
    PROVE  /\ AcceptedTm \in Managers /\ AcceptedTm.st = "Idle" /\ AcceptedTm.tx = 0
           /\ AcceptedTm.pending = <<>> /\ AcceptedTm.buffered = <<>>
           /\ AcceptedTm.nextSeq = tm.nextSeq + 1 /\ AcceptedTm.nextTx = tm.nextTx
           /\ AcceptedTm.accepted = tm.nextSeq /\ AcceptedTm.durable = tm.durable
           /\ AcceptedTm.cleaned = tm.cleaned /\ AcceptedTm.bounds = tm.bounds \cup {tm.nextSeq}
           /\ AcceptedTm.valid /\ \A x \in AcceptedTm.bounds : x <= tm.nextSeq
  <1>1. /\ tm \in Managers /\ tm.nextSeq \in Nat /\ tm.nextSeq <= MaxSequence /\ MaxSequence \in Nat
        /\ tm.valid /\ KnownInv
    BY ActiveFacts
  <1>c. PICK c : c = Closed
    OBVIOUS
  <1>2. /\ c \in Managers /\ c.st = "Idle" /\ c.tx = 0 /\ c.pending = <<>>
        /\ c.buffered = <<>> /\ c.nextSeq = tm.nextSeq + 1
        /\ c.nextTx = tm.nextTx /\ c.durable = tm.durable /\ c.cleaned = tm.cleaned
        /\ c.bounds = tm.bounds /\ c.valid
    BY <1>1, <1>c, ClosedFacts
  <1>3. PICK B : B = c.bounds \cup {tm.nextSeq}
    OBVIOUS
  <1>4. B \in SUBSET Nat
    BY <1>1, <1>2, <1>3 DEF Managers
  <1>5. PICK a : a = AcceptedTm
    OBVIOUS
  <1>6. a = [c EXCEPT !.accepted = tm.nextSeq, !.bounds = B]
    BY <1>2, <1>c, <1>3, <1>5 DEF AcceptedTm, Managers
  <1>7. /\ a \in Managers /\ a.st = c.st /\ a.tx = c.tx /\ a.pending = c.pending
        /\ a.buffered = c.buffered /\ a.nextSeq = c.nextSeq /\ a.nextTx = c.nextTx
        /\ a.accepted = tm.nextSeq /\ a.durable = c.durable /\ a.cleaned = c.cleaned
        /\ a.bounds = B /\ a.valid = c.valid
    BY <1>1, <1>2, <1>4, <1>6 DEF Managers
  <1>8. \A x \in B : x <= tm.nextSeq
    <2>1. tm.accepted \in Nat /\ tm.bounds \subseteq Nat
      BY NumbersTyped DEF IInv
    <2>2. tm.accepted < tm.nextSeq
      BY <1>1, NextSeqFacts
    <2>3. \A x \in tm.bounds : x <= tm.accepted
      BY <1>1 DEF KnownInv
    <2>4. \A x \in tm.bounds : x <= tm.nextSeq
      BY <1>1, <2>1, <2>2, <2>3
    <2>5. QED
      BY <1>1, <1>2, <1>3, <2>4
  <1>9. QED
    BY <1>2, <1>3, <1>5, <1>7, <1>8

\* Accept keeps the invariant: the marker of what it acknowledges is flushed.
LEMMA AcceptKeeps ==
    ASSUME IInv, Accept
    PROVE  IInv'
  <1>t. TypeOK
    BY DEF IInv
  <1>b. PICK b : b = Group("Accepted")
    OBVIOUS
  <1>k. PICK ok : ok = AcceptedTm
    OBVIOUS
  <1>m. PICK m : m = Failed
    OBVIOUS
  <1>s. PICK s : s = synced
    OBVIOUS
  <1>f. PICK first : first = First
    OBVIOUS
  <1>g. PICK flush \in BOOLEAN : flush = TRUE
    OBVIOUS
  <1>2. /\ Active /\ acked' = (IF tm'.valid THEN acked \cup {begun} ELSE acked)
        /\ UNCHANGED <<deferred, lock, waiter, host, begun, published, marked, restarts>>
    BY DEF Accept, Succeeds
  <1>o. PICK o \in Outcomes(s, b, flush, first) :
            /\ log' = o.log /\ synced' = o.synced /\ faults' = faults + o.faults
            /\ o.res = "Succeeded" => tm' = ok
            /\ o.res # "Succeeded" => FailedFrom(tm', m)
    BY <1>b, <1>k, <1>m, <1>s, <1>f, <1>g DEF Accept, Appended, AppendedAfter, Outcomes, FailedFrom
  <1>3. /\ UsedInv /\ KnownInv /\ BufferInv /\ ActiveInv /\ tm.valid /\ tm.st = "Active"
        /\ tm \in Managers /\ tm.nextSeq \in Nat /\ Low \in Nat /\ Low >= 1 /\ begun \in Nat
        /\ First \in 1 .. MaxSequence /\ Low <= tm.nextSeq /\ begun >= 1
        /\ MaxSequence \in Nat /\ tm.nextSeq <= MaxSequence
    BY <1>2, ActiveFacts
  <1>y. begun \in 1 .. begun
    BY <1>3
  <1>n. /\ tm.accepted \in Nat /\ tm.durable \in Nat /\ deferred.pending \in Nat
        /\ deferred.durable \in Nat /\ log \in Seq(Record) /\ synced \in 0 .. Len(log)
        /\ \A u \in Thread : waiter[u].seq \in Nat /\ waiter[u].target \in Nat
    BY <1>t, NumbersTyped
  <1>u. /\ tm.accepted < tm.nextSeq /\ tm.durable < tm.nextSeq
        /\ deferred.pending < tm.nextSeq /\ deferred.durable < tm.nextSeq
        /\ \A u \in Thread : waiter[u].seq < tm.nextSeq /\ waiter[u].target < tm.nextSeq
    BY <1>3, NextSeqFacts
  <1>x. PICK x : x = Of("Accepted", tm.nextSeq, Len(tm.pending))
    OBVIOUS
  <1>4. /\ b \in Seq(Record) /\ x.kind = "Accepted" /\ x.seq = tm.nextSeq /\ x.id = begun
        /\ x \in Elems(b)
        /\ \A r \in Elems(b) : /\ r \in Record /\ RecordOK(r) /\ r.seq \in Nat /\ r.seq <= tm.nextSeq
                               /\ r.kind = "Prepared" \/ r = x
    BY <1>2, <1>b, <1>x, GroupFacts
  <1>5. Appendable(Elems(b))
    BY <1>2, <1>b, AcceptFacts
  <1>6. \A r \in Open : r.id \notin published' => \A q \in Elems(b) : Behind(q, r)
    BY <1>2, <1>b, AcceptFacts
  <1>7. /\ LogGrown
        /\ \A r \in All' : r \in All \/ r \in Elems(b) \/ r.kind = "Index"
        /\ \A r \in All' : r \in Flushed' \/ (s = synced /\ r \in All \ Flushed) \/ r \in Elems(b)
        /\ o.res = "Succeeded" => Elems(b) \subseteq All' /\ (flush => All' \subseteq Flushed')
    <2>1. s \in {synced, Len(log)} /\ tm.valid /\ first \in 1 .. MaxSequence
      BY <1>s, <1>f, <1>3
    <2>2. begun' = begun /\ published \subseteq published' /\ b \in Seq(Record)
      BY <1>2, <1>4
    <2>3. QED
      BY <1>o, <1>5, <1>6, <2>1, <2>2, Appending
  <1>8. PICK E : E = Elems(b)
    OBVIOUS
  <1>9. CASE o.res = "Succeeded"
    <2>1. /\ tm' \in Managers /\ tm'.st = "Idle" /\ tm'.tx = 0 /\ tm'.pending = <<>>
          /\ tm'.buffered = <<>> /\ tm'.nextSeq = tm.nextSeq + 1 /\ tm'.nextTx = tm.nextTx
          /\ tm'.accepted = tm.nextSeq /\ tm'.durable = tm.durable /\ tm'.cleaned = tm.cleaned
          /\ tm'.valid /\ \A z \in tm'.bounds : z <= tm.nextSeq
      BY <1>2, <1>k, <1>o, <1>9, AcceptedTmFacts
    <2>2. ManagerInv' /\ CountInv'
      <3>1. /\ tm' \in Managers /\ tm'.st = "Idle" /\ tm'.tx = 0 /\ tm'.pending = <<>>
            /\ tm'.buffered = <<>> /\ tm'.nextTx = tm.nextTx /\ tm'.durable = tm.durable
            /\ tm'.cleaned = tm.cleaned
        BY <2>1
      <3>2. Low < tm'.nextSeq /\ tm'.nextSeq <= tm.nextSeq + 1
        BY <1>3, <2>1
      <3>3. \A r \in E : r.seq < tm'.nextSeq
        BY <1>3, <1>4, <1>8, <2>1
      <3>4. /\ \A r \in E : r.kind = "Accepted" =>
                                  r.seq \in Nat /\ r.seq <= tm'.accepted /\ r.seq > tm.durable
            /\ \A z \in tm'.bounds : z <= tm'.accepted
        BY <1>3, <1>4, <1>n, <1>u, <1>8, <2>1 DEF KnownInv
      <3>5. tm'.accepted < tm'.nextSeq /\ tm.accepted <= tm'.accepted
        BY <1>3, <1>n, <1>u, <2>1
      <3>6. /\ deferred'.pending < tm'.nextSeq /\ deferred'.durable < tm'.nextSeq
            /\ \A u \in Thread : waiter'[u].seq < tm'.nextSeq /\ waiter'[u].target < tm'.nextSeq
        BY <1>2, <1>3, <1>n, <1>u, <2>1
      <3>7. begun' = begun /\ published \subseteq published' /\ Active
        BY <1>2
      <3>8. \A r \in All' : r \in All \/ r \in E \/ r.kind = "Index"
        BY <1>7, <1>8
      <3>9. QED
        BY <3>1, <3>2, <3>3, <3>4, <3>5, <3>6, <3>7, <3>8, ClosedManager
    <2>3. E \subseteq Flushed' /\ Open' \subseteq Flushed'
      BY <1>g, <1>7, <1>8, <1>9 DEF Open, Accepts
    <2>4. LogInv'
      <3>1. acked' = acked \cup {begun} /\ marked' = marked /\ x \in E
        BY <1>2, <1>4, <1>8, <2>1
      <3>2. QED
        BY <1>4, <1>7, <2>3, <3>1, GrownLog
    <2>5. WaitInv'
      BY <1>2, <2>3, WaitSettled
    <2>6. TypeOK'
      <3>1. acked' \subseteq 1 .. begun
        BY <1>t, <1>2, <1>y DEF TypeOK
      <3>2. QED
        BY <1>t, <1>2, <1>7, <2>1, <3>1 DEF TypeOK, Managers, LogGrown
    <2>7. QED
      BY <2>2, <2>4, <2>5, <2>6 DEF IInv
  <1>10. CASE o.res # "Succeeded"
    <2>1. Failed \in Managers /\ Failed.nextSeq = tm.nextSeq /\ Failed.nextTx = tm.nextTx /\ Failed.tx = tm.tx
      BY <1>3, ClosedFacts
    <2>f. /\ tm' \in Managers /\ ~tm'.valid /\ tm'.nextSeq = tm.nextSeq
          /\ tm'.nextTx = tm.nextTx /\ tm'.tx = tm.tx
      BY <1>o, <1>m, <1>10, <2>1, FailedFromFacts
    <2>2. \A r \in E : r.kind = "Accepted" => r.seq \in Nat /\ r.seq >= Low
      BY <1>3, <1>4, <1>8
    <2>d. PICK D : D = All \ Flushed
      OBVIOUS
    <2>3. D \in SUBSET (All \ Flushed) /\ \A r \in All' : r \in Flushed' \/ r \in D \/ r \in E
      BY <1>7, <1>8, <2>d
    <2>5. acked' = acked /\ waiter' = waiter /\ deferred' = deferred
      BY <1>2, <2>f
    <2>4. /\ published' \subseteq 1 .. begun /\ host' \in {"starting", "replaying", "mounted"}
          /\ deferred' \in [pending : Nat, durable : Nat, failed : BOOLEAN, flushing : BOOLEAN]
          /\ begun' = begun /\ marked' = marked /\ published \subseteq published' /\ lock' = lock
          /\ restarts' = restarts /\ host' = host
      BY <1>t, <1>2, <1>y, <2>5 DEF TypeOK
    <2>6. QED
      BY <1>3, <1>7, <2>f, <2>2, <2>3, <2>4, <2>5, AppendFailureKeeps
  <1>11. QED
    BY <1>9, <1>10

\* Commit keeps the invariant: nothing accepted is unapplied behind its marker.
LEMMA CommitKeeps ==
    ASSUME IInv, Commit
    PROVE  IInv'
  <1>t. TypeOK
    BY DEF IInv
  <1>b. PICK b : b = Group("Committed")
    OBVIOUS
  <1>k. PICK ok : ok = [Closed EXCEPT !.committed = tm.nextSeq]
    OBVIOUS
  <1>m. PICK m : m = Failed
    OBVIOUS
  <1>s. PICK s : s = synced
    OBVIOUS
  <1>f. PICK first : first = First
    OBVIOUS
  <1>g. PICK flush \in BOOLEAN : flush = TRUE
    OBVIOUS
  <1>2. /\ Active /\ tm.accepted <= tm.durable /\ published' = published \cup {begun}
        /\ UNCHANGED <<deferred, lock, waiter, host, begun, acked, marked, restarts>>
    BY DEF Commit
  <1>o. PICK o \in Outcomes(s, b, flush, first) :
            /\ log' = o.log /\ synced' = o.synced /\ faults' = faults + o.faults
            /\ o.res = "Succeeded" => tm' = ok
            /\ o.res # "Succeeded" => FailedFrom(tm', m)
    BY <1>b, <1>k, <1>m, <1>s, <1>f, <1>g DEF Commit, Appended, AppendedAfter, Outcomes, FailedFrom
  <1>3. /\ UsedInv /\ KnownInv /\ BufferInv /\ ActiveInv /\ tm.valid /\ tm.st = "Active"
        /\ tm \in Managers /\ tm.nextSeq \in Nat /\ Low \in Nat /\ Low >= 1 /\ begun \in Nat
        /\ First \in 1 .. MaxSequence /\ Low <= tm.nextSeq /\ begun >= 1
        /\ MaxSequence \in Nat /\ tm.nextSeq <= MaxSequence
    BY <1>2, ActiveFacts
  <1>y. begun \in 1 .. begun
    BY <1>3
  <1>n. /\ tm.accepted \in Nat /\ tm.durable \in Nat /\ deferred.pending \in Nat
        /\ deferred.durable \in Nat /\ log \in Seq(Record) /\ synced \in 0 .. Len(log)
        /\ \A u \in Thread : waiter[u].seq \in Nat /\ waiter[u].target \in Nat
    BY <1>t, NumbersTyped
  <1>u. /\ tm.accepted < tm.nextSeq /\ tm.durable < tm.nextSeq
        /\ deferred.pending < tm.nextSeq /\ deferred.durable < tm.nextSeq
        /\ \A u \in Thread : waiter[u].seq < tm.nextSeq /\ waiter[u].target < tm.nextSeq
    BY <1>3, NextSeqFacts
  <1>x. PICK x : x = Of("Committed", tm.nextSeq, Len(tm.pending))
    OBVIOUS
  <1>4. /\ b \in Seq(Record) /\ x.kind = "Committed" /\ x.seq = tm.nextSeq /\ x.id = begun
        /\ x \in Elems(b)
        /\ \A r \in Elems(b) : /\ r \in Record /\ RecordOK(r) /\ r.seq \in Nat /\ r.seq <= tm.nextSeq
                               /\ r.kind = "Prepared" \/ r = x
    BY <1>2, <1>b, <1>x, GroupFacts
  <1>5. Appendable(Elems(b))
    BY <1>4 DEF Appendable
  <1>6. \A r \in Open : r.id \notin published' => \A q \in Elems(b) : Behind(q, r)
    <2>1. \A r \in Accepts : r.seq \in Nat
      BY <1>n, RecordsTyped DEF Accepts
    <2>2. \A r \in Accepts : r.seq <= tm.accepted /\ (r.seq <= tm.durable => r.id \in published)
      BY <1>3 DEF KnownInv
    <2>3. \A r \in Accepts : r.id \in published
      BY <1>n, <1>2, <2>1, <2>2
    <2>4. QED
      BY <2>3 DEF Open
  <1>7. /\ LogGrown
        /\ \A r \in All' : r \in All \/ r \in Elems(b) \/ r.kind = "Index"
        /\ \A r \in All' : r \in Flushed' \/ (s = synced /\ r \in All \ Flushed) \/ r \in Elems(b)
        /\ o.res = "Succeeded" => Elems(b) \subseteq All' /\ (flush => All' \subseteq Flushed')
    <2>1. s \in {synced, Len(log)} /\ tm.valid /\ first \in 1 .. MaxSequence
      BY <1>s, <1>f, <1>3
    <2>2. begun' = begun /\ published \subseteq published' /\ b \in Seq(Record)
      BY <1>2, <1>4
    <2>3. QED
      BY <1>o, <1>5, <1>6, <2>1, <2>2, Appending
  <1>8. PICK E : E = Elems(b)
    OBVIOUS
  <1>9. CASE o.res = "Succeeded"
    <2>1. /\ tm' \in Managers /\ tm'.st = "Idle" /\ tm'.tx = 0 /\ tm'.pending = <<>>
          /\ tm'.buffered = <<>> /\ tm'.nextSeq = tm.nextSeq + 1 /\ tm'.nextTx = tm.nextTx
          /\ tm'.accepted = tm.accepted /\ tm'.durable = tm.durable /\ tm'.cleaned = tm.cleaned
          /\ tm'.bounds = tm.bounds
      <3>1. PICK c : c = Closed
        OBVIOUS
      <3>2. /\ c \in Managers /\ c.st = "Idle" /\ c.tx = 0 /\ c.pending = <<>>
            /\ c.buffered = <<>> /\ c.nextSeq = tm.nextSeq + 1 /\ c.nextTx = tm.nextTx
            /\ c.accepted = tm.accepted /\ c.durable = tm.durable /\ c.cleaned = tm.cleaned
            /\ c.bounds = tm.bounds
        BY <1>3, <3>1, ClosedFacts
      <3>3. tm' = [c EXCEPT !.committed = tm.nextSeq]
        BY <1>k, <1>o, <1>9, <3>1
      <3>4. /\ tm' \in Managers /\ tm'.st = c.st /\ tm'.tx = c.tx /\ tm'.pending = c.pending
            /\ tm'.buffered = c.buffered /\ tm'.nextSeq = c.nextSeq /\ tm'.nextTx = c.nextTx
            /\ tm'.accepted = c.accepted /\ tm'.durable = c.durable /\ tm'.cleaned = c.cleaned
            /\ tm'.bounds = c.bounds
        BY <1>3, <3>2, <3>3 DEF Managers
      <3>5. QED
        BY <3>2, <3>4
    <2>2. ManagerInv' /\ CountInv'
      <3>1. /\ tm' \in Managers /\ tm'.st = "Idle" /\ tm'.tx = 0 /\ tm'.pending = <<>>
            /\ tm'.buffered = <<>> /\ tm'.nextTx = tm.nextTx /\ tm'.durable = tm.durable
            /\ tm'.cleaned = tm.cleaned
        BY <2>1
      <3>2. Low < tm'.nextSeq /\ tm'.nextSeq <= tm.nextSeq + 1
        BY <1>3, <2>1
      <3>3. \A r \in E : r.seq < tm'.nextSeq
        BY <1>3, <1>4, <1>8, <2>1
      <3>4. /\ \A r \in E : r.kind = "Accepted" =>
                                  r.seq \in Nat /\ r.seq <= tm'.accepted /\ r.seq > tm.durable
            /\ \A z \in tm'.bounds : z <= tm'.accepted
        BY <1>3, <1>4, <1>n, <1>u, <1>8, <2>1 DEF KnownInv
      <3>5. tm'.accepted < tm'.nextSeq /\ tm.accepted <= tm'.accepted
        BY <1>3, <1>n, <1>u, <2>1
      <3>6. /\ deferred'.pending < tm'.nextSeq /\ deferred'.durable < tm'.nextSeq
            /\ \A u \in Thread : waiter'[u].seq < tm'.nextSeq /\ waiter'[u].target < tm'.nextSeq
        BY <1>2, <1>3, <1>n, <1>u, <2>1
      <3>7. begun' = begun /\ published \subseteq published' /\ Active
        BY <1>2
      <3>8. \A r \in All' : r \in All \/ r \in E \/ r.kind = "Index"
        BY <1>7, <1>8
      <3>9. QED
        BY <3>1, <3>2, <3>3, <3>4, <3>5, <3>6, <3>7, <3>8, ClosedManager
    <2>3. Open' \subseteq Flushed'
      BY <1>g, <1>7, <1>9 DEF Open, Accepts
    <2>4. LogInv'
      BY <1>2, <1>7, GrownLogSame
    <2>5. WaitInv'
      BY <1>2, <2>3, WaitSettled
    <2>6. TypeOK'
      <3>1. published' \subseteq 1 .. begun
        BY <1>t, <1>2, <1>y DEF TypeOK
      <3>2. QED
        BY <1>t, <1>2, <1>7, <2>1, <3>1 DEF TypeOK, Managers, LogGrown
    <2>7. QED
      BY <2>2, <2>4, <2>5, <2>6 DEF IInv
  <1>10. CASE o.res # "Succeeded"
    <2>1. Failed \in Managers /\ Failed.nextSeq = tm.nextSeq /\ Failed.nextTx = tm.nextTx /\ Failed.tx = tm.tx
      BY <1>3, ClosedFacts
    <2>f. /\ tm' \in Managers /\ ~tm'.valid /\ tm'.nextSeq = tm.nextSeq
          /\ tm'.nextTx = tm.nextTx /\ tm'.tx = tm.tx
      BY <1>o, <1>m, <1>10, <2>1, FailedFromFacts
    <2>2. \A r \in E : r.kind = "Accepted" => r.seq \in Nat /\ r.seq >= Low
      BY <1>3, <1>4, <1>8
    <2>d. PICK D : D = All \ Flushed
      OBVIOUS
    <2>3. D \in SUBSET (All \ Flushed) /\ \A r \in All' : r \in Flushed' \/ r \in D \/ r \in E
      BY <1>7, <1>8, <2>d
    <2>5. acked' = acked /\ waiter' = waiter /\ deferred' = deferred
      BY <1>2, <2>f
    <2>4. /\ published' \subseteq 1 .. begun /\ host' \in {"starting", "replaying", "mounted"}
          /\ deferred' \in [pending : Nat, durable : Nat, failed : BOOLEAN, flushing : BOOLEAN]
          /\ begun' = begun /\ marked' = marked /\ published \subseteq published' /\ lock' = lock
          /\ restarts' = restarts /\ host' = host
      BY <1>t, <1>2, <1>y, <2>5 DEF TypeOK
    <2>6. QED
      BY <1>3, <1>7, <2>f, <2>2, <2>3, <2>4, <2>5, AppendFailureKeeps
  <1>11. QED
    BY <1>9, <1>10

\* Abort keeps the invariant: it takes the sequence number of the first buffered record again.
LEMMA AbortKeeps ==
    ASSUME IInv, Abort
    PROVE  IInv'
  <1>t. TypeOK
    BY DEF IInv
  <1>b. PICK b : b = <<Of("Aborted", Low, Len(tm.pending))>>
    OBVIOUS
  <1>k. PICK ok : ok = [Closed EXCEPT !.nextSeq = Low + 1]
    OBVIOUS
  <1>m. PICK m : m = Failed
    OBVIOUS
  <1>s. PICK s : s = synced
    OBVIOUS
  <1>f. PICK first : first = First
    OBVIOUS
  <1>g. PICK flush \in BOOLEAN : flush = TRUE
    OBVIOUS
  <1>2. /\ Active /\ begun' = begun /\ acked' = acked /\ published' = published /\ marked' = marked
        /\ UNCHANGED <<deferred, lock, waiter, host, restarts>>
    BY DEF Abort, Active, history
  <1>a. AppendedAfter(synced, <<Of("Aborted", Low, Len(tm.pending))>>, TRUE, First,
                      [Closed EXCEPT !.nextSeq = Low + 1], Failed)
    BY DEF Abort, Appended, Low
  <1>o. PICK o \in Outcomes(s, b, flush, first) :
            /\ log' = o.log /\ synced' = o.synced /\ faults' = faults + o.faults
            /\ o.res = "Succeeded" => tm' = ok
            /\ o.res # "Succeeded" => FailedFrom(tm', m)
    BY <1>b, <1>k, <1>m, <1>s, <1>f, <1>g, <1>a DEF Free, AppendedAfter, Outcomes, FailedFrom
  <1>3. /\ UsedInv /\ KnownInv /\ BufferInv /\ ActiveInv /\ tm.valid /\ tm.st = "Active"
        /\ tm \in Managers /\ tm.nextSeq \in Nat /\ Low \in Nat /\ Low >= 1 /\ begun \in Nat
        /\ First \in 1 .. MaxSequence /\ Low <= tm.nextSeq /\ begun >= 1
        /\ MaxSequence \in Nat /\ tm.nextSeq <= MaxSequence
    BY <1>2, ActiveFacts
  <1>y. begun \in 1 .. begun
    BY <1>3
  <1>n. /\ tm.accepted \in Nat /\ tm.durable \in Nat /\ deferred.pending \in Nat
        /\ deferred.durable \in Nat /\ log \in Seq(Record) /\ synced \in 0 .. Len(log)
        /\ \A u \in Thread : waiter[u].seq \in Nat /\ waiter[u].target \in Nat
    BY <1>t, NumbersTyped
  <1>u. /\ tm.accepted < tm.nextSeq /\ tm.durable < tm.nextSeq
        /\ deferred.pending < tm.nextSeq /\ deferred.durable < tm.nextSeq
        /\ \A u \in Thread : waiter[u].seq < tm.nextSeq /\ waiter[u].target < tm.nextSeq
    BY <1>3, NextSeqFacts
  <1>x. PICK x : x = Of("Aborted", Low, Len(tm.pending))
    OBVIOUS
  <1>4. /\ b \in Seq(Record)
        /\ \A r \in Elems(b) : /\ r \in Record /\ RecordOK(r) /\ r.kind = "Aborted" /\ r.seq = Low
    <2>1. tm.tx \in Nat /\ tm.tx <= begun /\ Len(tm.pending) \in Nat
      BY <1>2, ActiveFacts
    <2>2. x \in Record /\ x.kind = "Aborted" /\ x.seq = Low /\ x.tx = tm.tx
      BY <1>3, <1>x, <2>1 DEF Of, Record, Kind
    <2>3. RecordOK(x)
      BY <1>3, <2>1, <2>2 DEF RecordOK
    <2>4. b = <<x>>
      BY <1>b, <1>x
    <2>5. b \in Seq(Record) /\ Len(b) = 1 /\ b[1] = x
      BY <2>2, <2>4
    <2>6. Elems(b) = {x}
      BY <2>5 DEF Elems
    <2>7. QED
      BY <2>2, <2>3, <2>5, <2>6
  <1>5. Appendable(Elems(b))
    BY <1>4 DEF Appendable
  <1>6. \A r \in Open : r.id \notin published' => \A q \in Elems(b) : Behind(q, r)
    BY <1>4 DEF Behind
  <1>7. /\ LogGrown
        /\ \A r \in All' : r \in All \/ r \in Elems(b) \/ r.kind = "Index"
        /\ \A r \in All' : r \in Flushed' \/ (s = synced /\ r \in All \ Flushed) \/ r \in Elems(b)
        /\ o.res = "Succeeded" => Elems(b) \subseteq All' /\ (flush => All' \subseteq Flushed')
    <2>1. s \in {synced, Len(log)} /\ tm.valid /\ first \in 1 .. MaxSequence
      BY <1>s, <1>f, <1>3
    <2>2. begun' = begun /\ published \subseteq published' /\ b \in Seq(Record)
      BY <1>2, <1>4
    <2>3. QED
      BY <1>o, <1>5, <1>6, <2>1, <2>2, Appending
  <1>8. PICK E : E = Elems(b)
    OBVIOUS
  <1>9. CASE o.res = "Succeeded"
    <2>1. /\ tm' \in Managers /\ tm'.st = "Idle" /\ tm'.tx = 0 /\ tm'.pending = <<>>
          /\ tm'.buffered = <<>> /\ tm'.nextSeq = Low + 1 /\ tm'.nextTx = tm.nextTx
          /\ tm'.accepted = tm.accepted /\ tm'.durable = tm.durable /\ tm'.cleaned = tm.cleaned
          /\ tm'.bounds = tm.bounds
      <3>1. PICK c : c = Closed
        OBVIOUS
      <3>2. /\ c \in Managers /\ c.st = "Idle" /\ c.tx = 0 /\ c.pending = <<>>
            /\ c.buffered = <<>> /\ c.nextTx = tm.nextTx
            /\ c.accepted = tm.accepted /\ c.durable = tm.durable /\ c.cleaned = tm.cleaned
            /\ c.bounds = tm.bounds
        BY <1>3, <3>1, ClosedFacts
      <3>3. PICK y : y = Low + 1
        OBVIOUS
      <3>4. y \in 1 .. MaxSequence + 2
        BY <1>3, <3>3
      <3>5. tm' = [c EXCEPT !.nextSeq = y]
        BY <1>k, <1>o, <1>9, <3>1, <3>3
      <3>6. /\ tm' \in Managers /\ tm'.st = c.st /\ tm'.tx = c.tx /\ tm'.pending = c.pending
            /\ tm'.buffered = c.buffered /\ tm'.nextSeq = y /\ tm'.nextTx = c.nextTx
            /\ tm'.accepted = c.accepted /\ tm'.durable = c.durable /\ tm'.cleaned = c.cleaned
            /\ tm'.bounds = c.bounds
        BY <3>2, <3>4, <3>5 DEF Managers
      <3>7. QED
        BY <3>2, <3>3, <3>6
    <2>2. ManagerInv' /\ CountInv'
      <3>1. /\ tm' \in Managers /\ tm'.st = "Idle" /\ tm'.tx = 0 /\ tm'.pending = <<>>
            /\ tm'.buffered = <<>> /\ tm'.nextTx = tm.nextTx /\ tm'.durable = tm.durable
            /\ tm'.cleaned = tm.cleaned
        BY <2>1
      <3>2. Low < tm'.nextSeq /\ tm'.nextSeq <= tm.nextSeq + 1
        BY <1>3, <2>1
      <3>3. \A r \in E : r.seq < tm'.nextSeq
        BY <1>3, <1>4, <1>8, <2>1
      <3>4. /\ \A r \in E : r.kind = "Accepted" =>
                                  r.seq \in Nat /\ r.seq <= tm'.accepted /\ r.seq > tm.durable
            /\ \A z \in tm'.bounds : z <= tm'.accepted
        BY <1>3, <1>4, <1>n, <1>u, <1>8, <2>1 DEF KnownInv
      <3>5. tm'.accepted < tm'.nextSeq /\ tm.accepted <= tm'.accepted
        BY <1>3, <1>n, <1>u, <2>1 DEF UsedInv
      <3>6. /\ deferred'.pending < tm'.nextSeq /\ deferred'.durable < tm'.nextSeq
            /\ \A u \in Thread : waiter'[u].seq < tm'.nextSeq /\ waiter'[u].target < tm'.nextSeq
        BY <1>2, <1>3, <1>n, <1>u, <2>1 DEF UsedInv
      <3>7. begun' = begun /\ published \subseteq published' /\ Active
        BY <1>2
      <3>8. \A r \in All' : r \in All \/ r \in E \/ r.kind = "Index"
        BY <1>7, <1>8
      <3>9. QED
        BY <3>1, <3>2, <3>3, <3>4, <3>5, <3>6, <3>7, <3>8, ClosedManager
    <2>3. Open' \subseteq Flushed'
      BY <1>g, <1>7, <1>9 DEF Open, Accepts
    <2>4. LogInv'
      BY <1>2, <1>7, GrownLogSame
    <2>5. WaitInv'
      BY <1>2, <2>3, WaitSettled
    <2>6. TypeOK'
      BY <1>t, <1>2, <1>7, <2>1 DEF TypeOK, Managers, LogGrown
    <2>7. QED
      BY <2>2, <2>4, <2>5, <2>6 DEF IInv
  <1>10. CASE o.res # "Succeeded"
    <2>1. Failed \in Managers /\ Failed.nextSeq = tm.nextSeq /\ Failed.nextTx = tm.nextTx /\ Failed.tx = tm.tx
      BY <1>3, ClosedFacts
    <2>f. /\ tm' \in Managers /\ ~tm'.valid /\ tm'.nextSeq = tm.nextSeq
          /\ tm'.nextTx = tm.nextTx /\ tm'.tx = tm.tx
      BY <1>o, <1>m, <1>10, <2>1, FailedFromFacts
    <2>2. \A r \in E : r.kind = "Accepted" => r.seq \in Nat /\ r.seq >= Low
      BY <1>3, <1>4, <1>8
    <2>d. PICK D : D = All \ Flushed
      OBVIOUS
    <2>3. D \in SUBSET (All \ Flushed) /\ \A r \in All' : r \in Flushed' \/ r \in D \/ r \in E
      BY <1>7, <1>8, <2>d
    <2>5. acked' = acked /\ waiter' = waiter /\ deferred' = deferred
      BY <1>2, <2>f
    <2>4. /\ published' \subseteq 1 .. begun /\ host' \in {"starting", "replaying", "mounted"}
          /\ deferred' \in [pending : Nat, durable : Nat, failed : BOOLEAN, flushing : BOOLEAN]
          /\ begun' = begun /\ marked' = marked /\ published \subseteq published' /\ lock' = lock
          /\ restarts' = restarts /\ host' = host
      BY <1>t, <1>2, <1>y, <2>5 DEF TypeOK
    <2>6. QED
      BY <1>3, <1>7, <2>f, <2>2, <2>3, <2>4, <2>5, AppendFailureKeeps
  <1>11. QED
    BY <1>9, <1>10

\* AcceptForDeferredCommit keeps the invariant: its unflushed marker is waited for.
LEMMA AcceptForDeferredCommitKeeps ==
    ASSUME IInv, NEW t \in Thread, AcceptForDeferredCommit(t)
    PROVE  IInv'
  <1>t. TypeOK
    BY DEF IInv
  <1>b. PICK b : b = Group("Accepted")
    OBVIOUS
  <1>k. PICK ok : ok = AcceptedTm
    OBVIOUS
  <1>m. PICK m : m = Failed
    OBVIOUS
  <1>s. PICK s : s = synced
    OBVIOUS
  <1>f. PICK first : first = First
    OBVIOUS
  <1>g. PICK flush \in BOOLEAN : flush = FALSE
    OBVIOUS
  <1>2. /\ Active
        /\ tm'.valid => /\ deferred' = [deferred EXCEPT !.pending = Max2(@, tm.nextSeq)]
                        /\ waiter' = [waiter EXCEPT ![t] = [pc |-> "check", seq |-> tm.nextSeq, target |-> 0]]
        /\ ~tm'.valid => deferred' = deferred /\ waiter' = waiter
        /\ begun' = begun /\ acked' = acked /\ published' = published /\ marked' = marked
        /\ UNCHANGED <<lock, host, restarts>>
    BY DEF AcceptForDeferredCommit, Succeeds, history
  <1>o. PICK o \in Outcomes(s, b, flush, first) :
            /\ log' = o.log /\ synced' = o.synced /\ faults' = faults + o.faults
            /\ o.res = "Succeeded" => tm' = ok
            /\ o.res # "Succeeded" => FailedFrom(tm', m)
    BY <1>b, <1>k, <1>m, <1>s, <1>f, <1>g DEF AcceptForDeferredCommit, Appended, AppendedAfter, Outcomes, FailedFrom
  <1>3. /\ UsedInv /\ KnownInv /\ BufferInv /\ ActiveInv /\ tm.valid /\ tm.st = "Active"
        /\ tm \in Managers /\ tm.nextSeq \in Nat /\ Low \in Nat /\ Low >= 1 /\ begun \in Nat
        /\ First \in 1 .. MaxSequence /\ Low <= tm.nextSeq /\ begun >= 1
        /\ MaxSequence \in Nat /\ tm.nextSeq <= MaxSequence
    BY <1>2, ActiveFacts
  <1>y. begun \in 1 .. begun
    BY <1>3
  <1>n. /\ tm.accepted \in Nat /\ tm.durable \in Nat /\ deferred.pending \in Nat
        /\ deferred.durable \in Nat /\ log \in Seq(Record) /\ synced \in 0 .. Len(log)
        /\ \A u \in Thread : waiter[u].seq \in Nat /\ waiter[u].target \in Nat
    BY <1>t, NumbersTyped
  <1>u. /\ tm.accepted < tm.nextSeq /\ tm.durable < tm.nextSeq
        /\ deferred.pending < tm.nextSeq /\ deferred.durable < tm.nextSeq
        /\ \A u \in Thread : waiter[u].seq < tm.nextSeq /\ waiter[u].target < tm.nextSeq
    BY <1>3, NextSeqFacts
  <1>x. PICK x : x = Of("Accepted", tm.nextSeq, Len(tm.pending))
    OBVIOUS
  <1>4. /\ b \in Seq(Record) /\ x.kind = "Accepted" /\ x.seq = tm.nextSeq /\ x.id = begun
        /\ x \in Elems(b)
        /\ \A r \in Elems(b) : /\ r \in Record /\ RecordOK(r) /\ r.seq \in Nat /\ r.seq <= tm.nextSeq
                               /\ r.kind = "Prepared" \/ r = x
    BY <1>2, <1>b, <1>x, GroupFacts
  <1>5. Appendable(Elems(b))
    BY <1>2, <1>b, AcceptFacts
  <1>6. \A r \in Open : r.id \notin published' => \A q \in Elems(b) : Behind(q, r)
    BY <1>2, <1>b, AcceptFacts
  <1>7. /\ LogGrown
        /\ \A r \in All' : r \in All \/ r \in Elems(b) \/ r.kind = "Index"
        /\ \A r \in All' : r \in Flushed' \/ (s = synced /\ r \in All \ Flushed) \/ r \in Elems(b)
        /\ o.res = "Succeeded" => Elems(b) \subseteq All' /\ (flush => All' \subseteq Flushed')
    <2>1. s \in {synced, Len(log)} /\ tm.valid /\ first \in 1 .. MaxSequence
      BY <1>s, <1>f, <1>3
    <2>2. begun' = begun /\ published \subseteq published' /\ b \in Seq(Record)
      BY <1>2, <1>4
    <2>3. QED
      BY <1>o, <1>5, <1>6, <2>1, <2>2, Appending
  <1>8. PICK E : E = Elems(b)
    OBVIOUS
  <1>9. CASE o.res = "Succeeded"
    <2>1. /\ tm' \in Managers /\ tm'.st = "Idle" /\ tm'.tx = 0 /\ tm'.pending = <<>>
          /\ tm'.buffered = <<>> /\ tm'.nextSeq = tm.nextSeq + 1 /\ tm'.nextTx = tm.nextTx
          /\ tm'.accepted = tm.nextSeq /\ tm'.durable = tm.durable /\ tm'.cleaned = tm.cleaned
          /\ tm'.valid /\ \A z \in tm'.bounds : z <= tm.nextSeq
      BY <1>2, <1>k, <1>o, <1>9, AcceptedTmFacts
    <2>d. /\ deferred' \in [pending : Nat, durable : Nat, failed : BOOLEAN, flushing : BOOLEAN]
          /\ deferred'.pending = tm.nextSeq /\ deferred'.durable = deferred.durable
      <3>1. PICK y : y = Max2(deferred.pending, tm.nextSeq)
        OBVIOUS
      <3>2. y = tm.nextSeq
        BY <1>u, <3>1 DEF Max2
      <3>3. deferred' = [deferred EXCEPT !.pending = y]
        BY <1>t, <1>2, <2>1, <3>1 DEF TypeOK
      <3>4. QED
        BY <1>t, <1>3, <3>2, <3>3 DEF TypeOK
    <2>w. /\ waiter' \in [Thread -> Waits] /\ waiter'[t].seq = tm.nextSeq /\ waiter'[t].target = 0
          /\ \A u \in Thread \ {t} : waiter'[u] = waiter[u]
      <3>1. PICK w : w = [pc |-> "check", seq |-> tm.nextSeq, target |-> 0]
        OBVIOUS
      <3>2. w \in Waits /\ w.seq = tm.nextSeq /\ w.target = 0
        BY <1>3, <3>1 DEF Waits
      <3>3. waiter' = [waiter EXCEPT ![t] = w]
        BY <1>2, <2>1, <3>1
      <3>4. QED
        BY <1>t, <3>2, <3>3, StepTyped
    <2>v. \A u \in Thread : /\ waiter'[u].seq \in Nat /\ waiter'[u].seq <= tm.nextSeq
                            /\ waiter'[u].target \in Nat /\ waiter'[u].target <= tm.nextSeq
      <3> TAKE u \in Thread
      <3>1. CASE u = t
        BY <1>3, <2>w, <3>1
      <3>2. CASE u # t
        BY <1>3, <1>n, <1>u, <2>w, <3>2
      <3>3. QED
        BY <3>1, <3>2
    <2>2. ManagerInv' /\ CountInv'
      <3>1. /\ tm' \in Managers /\ tm'.st = "Idle" /\ tm'.tx = 0 /\ tm'.pending = <<>>
            /\ tm'.buffered = <<>> /\ tm'.nextTx = tm.nextTx /\ tm'.durable = tm.durable
            /\ tm'.cleaned = tm.cleaned
        BY <2>1
      <3>2. Low < tm'.nextSeq /\ tm'.nextSeq <= tm.nextSeq + 1
        BY <1>3, <2>1
      <3>3. \A r \in E : r.seq < tm'.nextSeq
        BY <1>3, <1>4, <1>8, <2>1
      <3>4. /\ \A r \in E : r.kind = "Accepted" =>
                                  r.seq \in Nat /\ r.seq <= tm'.accepted /\ r.seq > tm.durable
            /\ \A z \in tm'.bounds : z <= tm'.accepted
        BY <1>3, <1>4, <1>n, <1>u, <1>8, <2>1 DEF KnownInv
      <3>5. tm'.accepted < tm'.nextSeq /\ tm.accepted <= tm'.accepted
        BY <1>3, <1>n, <1>u, <2>1
      <3>6. /\ deferred'.pending < tm'.nextSeq /\ deferred'.durable < tm'.nextSeq
            /\ \A u \in Thread : waiter'[u].seq < tm'.nextSeq /\ waiter'[u].target < tm'.nextSeq
        BY <1>3, <1>n, <1>u, <2>1, <2>d, <2>v
      <3>7. begun' = begun /\ published \subseteq published' /\ Active
        BY <1>2
      <3>8. \A r \in All' : r \in All \/ r \in E \/ r.kind = "Index"
        BY <1>7, <1>8
      <3>9. QED
        BY <3>1, <3>2, <3>3, <3>4, <3>5, <3>6, <3>7, <3>8, ClosedManager
    <2>4. LogInv'
      BY <1>2, <1>7, GrownLogSame
    <2>5. WaitInv'
      <3>1. host = "mounted" /\ host' = "mounted"
        BY <1>2, <1>3 DEF ActiveInv
      <3> SUFFICES ASSUME NEW r \in Open', r \notin Flushed'
                   PROVE  Awaited(r)'
        BY <3>1 DEF WaitInv
      <3>2. r \in All' /\ r.kind = "Accepted" /\ r.id \notin published
        BY <1>2 DEF Open, Accepts
      <3>3. r.seq \in Nat /\ deferred.durable < r.seq /\ r.seq <= tm.nextSeq
        <4>1. CASE r \in All \ Flushed
          <5>1. r \in Open \ Flushed
            BY <3>2, <4>1 DEF Open, Accepts
          <5>2. Awaited(r)
            BY <1>3, <3>1, <5>1 DEF IInv, WaitInv, Forsaken
          <5>3. r.seq \in Nat
            BY <1>n, <4>1, RecordsTyped
          <5>4. QED
            BY <1>3, <1>n, <1>u, <5>2, <5>3 DEF Awaited
        <4>2. CASE r \in Elems(b)
          <5>1. r = x
            BY <1>4, <3>2, <4>2
          <5>2. QED
            BY <1>3, <1>4, <1>u, <5>1
        <4>3. QED
          BY <1>7, <3>2, <4>1, <4>2
      <3>4. \A q \in All' : q.kind \in {"Accepted", "Committed"} => q.seq <= tm.nextSeq
        <4> SUFFICES ASSUME NEW q \in All', q.kind \in {"Accepted", "Committed"}
                     PROVE  q.seq <= tm.nextSeq
          OBVIOUS
        <4>1. CASE q \in All
          <5>1. q.seq < tm.nextSeq
            BY <1>3, <4>1, NextSeqFacts
          <5>2. q.seq \in Nat
            BY <1>n, <4>1, RecordsTyped
          <5>3. QED
            BY <1>3, <5>1, <5>2
        <4>2. CASE q \in Elems(b)
          BY <1>4, <4>2
        <4>3. QED
          BY <1>7, <4>1, <4>2
      <3>5. tm.nextSeq <= tm.nextSeq
        BY <1>3
      <3>6. QED
        BY <2>1, <2>d, <2>v, <3>3, <3>4, <3>5 DEF Awaited
    <2>6. TypeOK'
      BY <1>t, <1>2, <1>7, <2>1, <2>d, <2>w DEF TypeOK, Managers, LogGrown, Waits
    <2>7. QED
      BY <2>2, <2>4, <2>5, <2>6 DEF IInv
  <1>10. CASE o.res # "Succeeded"
    <2>1. Failed \in Managers /\ Failed.nextSeq = tm.nextSeq /\ Failed.nextTx = tm.nextTx /\ Failed.tx = tm.tx
      BY <1>3, ClosedFacts
    <2>f. /\ tm' \in Managers /\ ~tm'.valid /\ tm'.nextSeq = tm.nextSeq
          /\ tm'.nextTx = tm.nextTx /\ tm'.tx = tm.tx
      BY <1>o, <1>m, <1>10, <2>1, FailedFromFacts
    <2>2. \A r \in E : r.kind = "Accepted" => r.seq \in Nat /\ r.seq >= Low
      BY <1>3, <1>4, <1>8
    <2>d. PICK D : D = All \ Flushed
      OBVIOUS
    <2>3. D \in SUBSET (All \ Flushed) /\ \A r \in All' : r \in Flushed' \/ r \in D \/ r \in E
      BY <1>7, <1>8, <2>d
    <2>5. acked' = acked /\ waiter' = waiter /\ deferred' = deferred
      BY <1>2, <2>f
    <2>4. /\ published' \subseteq 1 .. begun /\ host' \in {"starting", "replaying", "mounted"}
          /\ deferred' \in [pending : Nat, durable : Nat, failed : BOOLEAN, flushing : BOOLEAN]
          /\ begun' = begun /\ marked' = marked /\ published \subseteq published' /\ lock' = lock
          /\ restarts' = restarts /\ host' = host
      BY <1>t, <1>2, <1>y, <2>5 DEF TypeOK
    <2>6. QED
      BY <1>3, <1>7, <2>f, <2>2, <2>3, <2>4, <2>5, AppendFailureKeeps
  <1>11. QED
    BY <1>9, <1>10

---------------------------------------------------------------------------
(* The watermarks.                                                         *)

\* The record of a watermark.
LEMMA WatermarkFacts ==
    ASSUME IInv, tm.valid, tm.st = "Idle", Room(1), NEW kind \in {"Durable", "Cleaned"},
           NEW seq \in tm.bounds
    PROVE  /\ Watermark(kind, seq).kind = kind /\ Watermark(kind, seq).n = seq
           /\ Watermark(kind, seq).seq = tm.nextSeq
           /\ <<Watermark(kind, seq)>> \in Seq(Record)
           /\ Elems(<<Watermark(kind, seq)>>) = {Watermark(kind, seq)}
           /\ Appendable(Elems(<<Watermark(kind, seq)>>))
           /\ seq \in Nat /\ seq <= tm.accepted /\ seq < tm.nextSeq
           /\ tm.cleaned + 1 \in 1 .. MaxSequence /\ tm.nextSeq <= MaxSequence
           /\ tm.buffered = <<>> /\ Low = tm.nextSeq
  <1>w. PICK w : w = Watermark(kind, seq)
    OBVIOUS
  <1>b. PICK b : b = <<w>>
    OBVIOUS
  <1>1. /\ tm.nextSeq \in Nat /\ tm.nextSeq >= 1 /\ tm.accepted \in Nat /\ tm.durable \in Nat
        /\ tm.cleaned \in Nat /\ tm.bounds \subseteq Nat /\ MaxSequence \in Nat /\ begun \in Nat
    BY NumbersTyped DEF IInv
  <1>2. KnownInv /\ BufferInv
    BY DEF IInv, ManagerInv
  <1>3. tm.accepted < tm.nextSeq /\ tm.durable < tm.nextSeq
    BY NextSeqFacts
  <1>4. tm.nextSeq <= MaxSequence
    BY <1>1 DEF Room
  <1>5. seq \in Nat /\ seq <= tm.accepted
    BY <1>1, <1>2 DEF KnownInv
  <1>6. seq < tm.nextSeq
    BY <1>1, <1>3, <1>5
  <1>7. tm.cleaned + 1 \in 1 .. MaxSequence
    <2>1. tm.cleaned <= tm.durable
      BY <1>2 DEF KnownInv
    <2>2. QED
      BY <1>1, <1>3, <1>4, <2>1
  <1>8. tm.buffered = <<>> /\ Low = tm.nextSeq
    BY <1>2 DEF BufferInv, Low
  <1>9. w \in Record /\ w.kind = kind /\ w.n = seq /\ w.seq = tm.nextSeq /\ w.tx = 0
    BY <1>w, <1>1, <1>5 DEF Watermark, Record, Kind
  <1>10. RecordOK(w)
    BY <1>1, <1>4, <1>6, <1>9 DEF RecordOK
  <1>11. b \in Seq(Record) /\ Len(b) = 1 /\ b[1] = w
    BY <1>b, <1>9
  <1>12. Elems(b) = {w}
    BY <1>11 DEF Elems
  <1>13. Appendable(Elems(b))
    BY <1>9, <1>10, <1>12 DEF Appendable
  <1>14. QED
    BY <1>w, <1>b, <1>4, <1>5, <1>6, <1>7, <1>8, <1>9, <1>11, <1>12, <1>13

\* The deferred state after the flush that comes before a watermark.
LEMMA FlushedFirst ==
    ASSUME TypeOK, deferred' = [deferred EXCEPT !.durable = deferred.pending]
    PROVE  /\ deferred' \in Deferreds /\ deferred'.pending = deferred.pending
           /\ deferred'.durable = deferred.pending
  <1>1. deferred \in Deferreds
    BY DEF TypeOK, Deferreds
  <1>2. QED
    BY <1>1 DEF Deferreds

\* MarkApfsDurableThrough keeps the invariant, with and without a flush before it: its watermark
\* covers everything that it marks and nothing that no checkpoint holds.
LEMMA MarkApfsDurableThroughKeeps ==
    ASSUME IInv, NEW seq \in tm.bounds, MarkApfsDurableThrough(seq)
    PROVE  IInv'
  <1>t. TypeOK
    BY DEF IInv
  <1>w. PICK w : w = Watermark("Durable", seq)
    OBVIOUS
  <1>b. PICK b : b = <<w>>
    OBVIOUS
  <1>k. PICK ok : ok = [tm EXCEPT !.durable = seq, !.nextSeq = @ + 1]
    OBVIOUS
  <1>m. PICK m : m = tm
    OBVIOUS
  <1>f. PICK first : first = tm.cleaned + 1
    OBVIOUS
  <1>g. PICK flush \in BOOLEAN : flush = TRUE
    OBVIOUS
  <1>1. /\ tm.valid /\ tm.st = "Idle" /\ Room(1)
        /\ seq > tm.durable /\ AcceptedThrough(seq) \subseteq published
        /\ marked' = IF tm'.valid THEN marked \cup AcceptedThrough(seq) ELSE marked
        /\ begun' = begun /\ acked' = acked /\ published' = published
        /\ UNCHANGED <<lock, waiter, restarts>>
        /\ host' = "mounted" <=> host = "mounted"
    BY <1>t DEF MarkApfsDurableThrough, TypeOK, Succeeds
  <1>h. host' \in {"starting", "replaying", "mounted"}
    BY <1>t DEF TypeOK, MarkApfsDurableThrough
  <1>n. /\ tm \in Managers /\ tm.nextSeq \in Nat /\ tm.accepted \in Nat /\ tm.durable \in Nat
        /\ tm.cleaned \in Nat /\ tm.bounds \subseteq Nat /\ begun \in Nat /\ MaxSequence \in Nat
        /\ deferred.pending \in Nat /\ deferred.durable \in Nat
        /\ log \in Seq(Record) /\ synced \in 0 .. Len(log) /\ tm.pending \in Seq(Nat)
        /\ \A u \in Thread : waiter[u].seq \in Nat /\ waiter[u].target \in Nat
    BY <1>t, NumbersTyped
  <1>2. UsedInv /\ KnownInv /\ BufferInv
    BY <1>1 DEF IInv, ManagerInv
  <1>3. /\ w.kind = "Durable" /\ w.n = seq /\ w.seq = tm.nextSeq
        /\ b \in Seq(Record) /\ Elems(b) = {w} /\ Appendable(Elems(b))
        /\ seq \in Nat /\ seq <= tm.accepted /\ seq < tm.nextSeq
        /\ tm.cleaned + 1 \in 1 .. MaxSequence /\ tm.nextSeq <= MaxSequence
        /\ tm.buffered = <<>> /\ Low = tm.nextSeq
    BY <1>1, <1>w, <1>b, WatermarkFacts
  <1>x. tm.nextSeq + 1 \in 1 .. MaxSequence + 2
    <2>1. tm.nextSeq \in Nat /\ MaxSequence \in Nat /\ tm.nextSeq <= MaxSequence
      BY <1>n, <1>3
    <2>2. QED
      BY <2>1
  <1>u. /\ tm.accepted < tm.nextSeq /\ tm.durable < tm.nextSeq
        /\ deferred.pending < tm.nextSeq /\ deferred.durable < tm.nextSeq
        /\ \A u \in Thread : waiter[u].seq < tm.nextSeq /\ waiter[u].target < tm.nextSeq
        /\ \A r \in All : r.kind # "Index" => r.seq < tm.nextSeq
    BY <1>1, NextSeqFacts
  <1>e. PICK E : E = Elems(b)
    OBVIOUS
  <1>a. /\ \A r \in Accepts : r.seq <= seq => r.id \in AcceptedThrough(seq) /\ r.id \in published
        /\ \A a \in AcceptedThrough(seq) : \E q \in Accepts : q.seq <= seq /\ q.id = a
    BY <1>1, AcceptedThroughIs
  <1>r. \A r \in Accepts : r \in All /\ r.seq \in Nat /\ r.kind = "Accepted"
    BY <1>n, RecordsTyped DEF Accepts
  <1>6. \A r \in Open : r.id \notin published' => \A q \in Elems(b) : Behind(q, r)
    <2> SUFFICES ASSUME NEW r \in Open PROVE Behind(w, r)
      BY <1>3
    <2>1. r \in Accepts /\ r.id \notin published
      BY DEF Open
    <2>2. ~(r.seq <= seq) /\ r.seq \in Nat
      BY <1>a, <1>r, <2>1
    <2>3. QED
      BY <1>3, <2>2 DEF Behind
  <1>4. \/ \E s \in {synced, Len(log)} :
           /\ \E o \in Outcomes(s, b, flush, first) :
                  /\ log' = o.log /\ synced' = o.synced /\ faults' = faults + o.faults
                  /\ o.res = "Succeeded" => tm' = ok
                  /\ o.res # "Succeeded" => FailedFrom(tm', m)
           /\ \/ s = synced /\ deferred' = deferred
              \/ s = Len(log) /\ deferred' = [deferred EXCEPT !.durable = deferred.pending]
        \/ /\ deferred.failed \/ faults < MaxFaults
           /\ faults' = IF deferred.failed THEN faults ELSE faults + 1
           /\ tm' = DurabilityFailed
           /\ deferred' = [deferred EXCEPT !.failed = TRUE, !.flushing = FALSE]
           /\ UNCHANGED <<log, synced>>
    <2>1. MarkThrough("Durable", seq, ok)
      BY <1>k DEF MarkApfsDurableThrough
    <2>2. CASE /\ AppendedAfter(synced, b, flush, first, ok, m)
               /\ deferred' = deferred
      BY <2>2 DEF AppendedAfter, Outcomes, FailedFrom
    <2>3. CASE /\ AppendedAfter(Len(log), b, flush, first, ok, m)
               /\ deferred' = [deferred EXCEPT !.durable = deferred.pending]
      BY <2>3 DEF AppendedAfter, Outcomes, FailedFrom
    <2>4. CASE /\ deferred.failed \/ faults < MaxFaults
               /\ faults' = IF deferred.failed THEN faults ELSE faults + 1
               /\ tm' = DurabilityFailed
               /\ deferred' = [deferred EXCEPT !.failed = TRUE, !.flushing = FALSE]
               /\ UNCHANGED <<log, synced>>
      BY <2>4
    <2>5. QED
      BY <2>1, <2>2, <2>3, <2>4, <1>w, <1>b, <1>f, <1>g, <1>m DEF MarkThrough, Appended
  <1>5. ASSUME NEW s \in {synced, Len(log)}, NEW o \in Outcomes(s, b, flush, first),
               log' = o.log, synced' = o.synced, faults' = faults + o.faults,
               o.res = "Succeeded" => tm' = ok, o.res # "Succeeded" => FailedFrom(tm', m),
               \/ s = synced /\ deferred' = deferred
               \/ s = Len(log) /\ deferred' = [deferred EXCEPT !.durable = deferred.pending]
        PROVE  IInv'
    <2>1. /\ LogGrown
          /\ \A r \in All' : r \in All \/ r \in Elems(b) \/ r.kind = "Index"
          /\ \A r \in All' : r \in Flushed' \/ (s = synced /\ r \in All \ Flushed) \/ r \in Elems(b)
          /\ o.res = "Succeeded" => Elems(b) \subseteq All' /\ (flush => All' \subseteq Flushed')
      <3>1. first \in 1 .. MaxSequence /\ begun' = begun /\ published \subseteq published'
        BY <1>f, <1>1, <1>3
      <3>2. QED
        BY <1>1, <1>3, <1>5, <1>6, <3>1, Appending
    <2>2. /\ deferred' \in Deferreds /\ deferred'.pending = deferred.pending
          /\ deferred'.durable \in {deferred.durable, deferred.pending}
          /\ deferred'.durable = deferred.durable \/ s = Len(log)
      <3>1. CASE deferred' = deferred
        BY <1>t, <1>5, <3>1 DEF TypeOK, Deferreds
      <3>2. CASE s = Len(log) /\ deferred' = [deferred EXCEPT !.durable = deferred.pending]
        BY <1>t, <3>2, FlushedFirst
      <3>3. QED
        BY <1>5, <3>1, <3>2
    <2>3. \A r \in All' : r \in All \/ r \in E \/ r.kind = "Index"
      BY <2>1, <1>e
    <2>4. CASE o.res = "Succeeded"
      <3>1. /\ tm' \in Managers /\ tm'.st = "Idle" /\ tm'.tx = tm.tx /\ tm'.pending = tm.pending
            /\ tm'.buffered = <<>> /\ tm'.nextSeq = tm.nextSeq + 1 /\ tm'.nextTx = tm.nextTx
            /\ tm'.accepted = tm.accepted /\ tm'.durable = seq /\ tm'.cleaned = tm.cleaned
            /\ tm'.bounds = tm.bounds /\ tm'.valid
        <4>1. PICK x : x = tm.nextSeq + 1
          OBVIOUS
        <4>2. x \in 1 .. MaxSequence + 2
          BY <1>x, <4>1
        <4>3. tm' = [tm EXCEPT !.durable = seq, !.nextSeq = x]
          BY <1>k, <1>5, <1>n, <2>4, <4>1 DEF Managers
        <4>4. QED
          BY <1>1, <1>n, <1>3, <4>1, <4>2, <4>3 DEF Managers
      <3>2. ManagerInv' /\ CountInv'
        <4>1. E = {w} /\ (\A r \in E : r.seq < tm'.nextSeq) /\ \A r \in E : r.kind # "Accepted"
          BY <1>3, <1>e, <1>n, <3>1
        <4>2. Low <= tm'.nextSeq /\ tm'.nextSeq <= MaxSequence + 1
          BY <1>n, <1>3, <3>1
        <4>3. tm'.accepted < tm'.nextSeq /\ tm'.durable < tm'.nextSeq
          BY <1>n, <1>3, <1>u, <3>1
        <4>4. deferred'.pending < tm'.nextSeq /\ deferred'.durable < tm'.nextSeq
          BY <1>n, <1>u, <2>2, <3>1
        <4>5. \A u \in Thread : waiter'[u].seq < tm'.nextSeq /\ waiter'[u].target < tm'.nextSeq
          BY <1>1, <1>n, <1>u, <3>1
        <4>6. tm.accepted <= tm'.accepted /\ tm'.cleaned <= tm'.durable
          BY <1>1, <1>n, <1>2, <1>3, <3>1 DEF KnownInv
        <4>7. \A r \in Accepts : r.seq <= tm'.durable => r.id \in published'
          BY <1>1, <1>2, <3>1, <1>a DEF KnownInv
        <4>8. \A z \in tm'.bounds : z <= tm'.accepted
          BY <1>2, <3>1 DEF KnownInv
        <4>9. \A i \in 1 .. Len(tm'.pending) : tm'.pending[i] >= 1 /\ tm'.pending[i] < tm'.nextSeq
          <5>1. \A i \in 1 .. Len(tm.pending) :
                    tm.pending[i] \in Nat /\ tm.pending[i] >= 1 /\ tm.pending[i] < tm.nextSeq
            BY <1>n, <1>2 DEF BufferInv
          <5>2. tm'.pending = tm.pending /\ tm'.nextSeq = tm.nextSeq + 1 /\ tm.nextSeq \in Nat
            BY <1>n, <3>1
          <5>3. \A i \in 1 .. Len(tm.pending) : tm.pending[i] < tm.nextSeq + 1
            BY <5>1, <5>2
          <5>4. QED
            BY <5>1, <5>2, <5>3
        <4>10. tm'.tx <= begun
          BY <3>1 DEF IInv, CountInv
        <4>11. begun' = begun /\ published \subseteq published' /\ tm.valid
          BY <1>1
        <4>12. QED
          BY <2>3, <3>1, <4>1, <4>2, <4>3, <4>4, <4>5, <4>6, <4>7, <4>8, <4>9, <4>10, <4>11, GrownManager
      <3>3. E \subseteq Flushed' /\ Open' \subseteq Flushed'
        BY <1>e, <1>g, <2>1, <2>4 DEF Open, Accepts
      <3>4. LogInv'
        <4>1. marked' = marked \cup AcceptedThrough(seq)
          BY <1>1, <3>1
        <4>2. \A r \in Accepts' : r \in Accepts
          BY <1>3, <1>e, <2>3 DEF Accepts
        <4>3. ASSUME NEW r \in Accepts', r.id \in AcceptedThrough(seq)
              PROVE  Covers(w, r)
          <5>1. PICK q \in Accepts : q.seq <= seq /\ q.id = r.id
            BY <1>a, <4>3
          <5>2. q = r
            BY <4>2, <5>1 DEF IInv, LogInv, UniqueInv
          <5>3. r.seq < tm.nextSeq /\ r.seq \in Nat
            BY <1>r, <1>u, <5>1, <5>2
          <5>4. QED
            BY <1>3, <1>n, <5>1, <5>2, <5>3 DEF Covers
        <4>4. w \in E
          BY <1>3, <1>e
        <4>5. \A r \in Accepts' : r.id \in marked' => r.id \in marked \/ \E v \in E : Covers(v, r)
          BY <4>1, <4>3, <4>4
        <4>6. QED
          BY <1>1, <2>1, <3>3, <4>5, GrownLog
      <3>5. WaitInv'
        BY <1>1, <3>3, WaitSettled
      <3>6. TypeOK'
        <4>1. marked' \subseteq 1 .. begun
          BY <1>t, <1>1, <3>1, AcceptedThroughBegun DEF TypeOK
        <4>2. QED
          BY <1>t, <1>1, <1>h, <2>1, <2>2, <3>1, <4>1 DEF TypeOK, Managers, LogGrown, Deferreds
      <3>7. QED
        BY <3>2, <3>4, <3>5, <3>6 DEF IInv
    <2>5. CASE o.res # "Succeeded"
      <3>1. /\ tm' \in Managers /\ ~tm'.valid /\ tm'.nextSeq = tm.nextSeq
            /\ tm'.nextTx = tm.nextTx /\ tm'.tx = tm.tx
        BY <1>5, <1>m, <1>n, <2>5, FailedFromFacts
      <3>2. PICK D : D = IF deferred'.durable = deferred.durable THEN All \ Flushed ELSE {}
        OBVIOUS
      <3>3. \A r \in All' : r \in Flushed' \/ r \in D \/ r \in E
        <4>1. CASE deferred'.durable = deferred.durable
          BY <1>e, <2>1, <3>2, <4>1
        <4>2. CASE s = Len(log)
          <5>1. s = synced => All \subseteq Flushed
            BY <4>2 DEF All, Flushed, Elems
          <5>2. QED
            BY <1>e, <2>1, <5>1
        <4>3. QED
          BY <2>2, <4>1, <4>2
      <3>4. D \in SUBSET (All \ Flushed) /\ (D # {} => deferred'.durable = deferred.durable)
        BY <3>2
      <3>5. \A r \in E : r.kind = "Accepted" => r.seq \in Nat /\ r.seq >= Low
        BY <1>3, <1>e
      <3>6. marked' = marked /\ acked' = acked /\ published' \subseteq 1 .. begun
            /\ published \subseteq published'
        BY <1>t, <1>1, <3>1 DEF TypeOK
      <3>7. deferred' \in [pending : Nat, durable : Nat, failed : BOOLEAN, flushing : BOOLEAN]
        BY <2>2 DEF Deferreds
      <3>8. QED
        BY <1>1, <1>h, <2>1, <2>2, <3>1, <3>3, <3>4, <3>5, <3>6, <3>7, AppendFailureKeeps
    <2>6. QED
      BY <2>4, <2>5
  <1>7. CASE /\ deferred.failed \/ faults < MaxFaults
             /\ faults' = IF deferred.failed THEN faults ELSE faults + 1
             /\ tm' = DurabilityFailed
             /\ deferred' = [deferred EXCEPT !.failed = TRUE, !.flushing = FALSE]
             /\ UNCHANGED <<log, synced>>
    <2>1. ~tm'.valid
      BY <1>n, <1>7 DEF DurabilityFailed, Managers
    <2>2. marked' = marked /\ UNCHANGED history
      BY <1>1, <2>1 DEF history
    <2>3. \A u \in Thread : waiter'[u].seq \in {0, waiter[u].seq}
      BY <1>1
    <2>4. /\ tm' \in Managers /\ deferred' \in Deferreds
          /\ LogInv' /\ ManagerInv' /\ CountInv' /\ WaitInv'
      BY <1>1, <1>7, <2>2, <2>3, DurabilityFailedKeeps
    <2>5. faults' \in 0 .. MaxFaults
      <3>1. CASE deferred.failed
        BY <1>t, <1>7, <3>1 DEF TypeOK
      <3>2. CASE ~deferred.failed
        BY <1>t, <1>7, <3>2, FaultTyped
      <3>3. QED
        BY <3>1, <3>2
    <2>6. TypeOK'
      BY <1>t, <1>1, <1>h, <1>7, <2>2, <2>4, <2>5 DEF TypeOK, Managers, Deferreds
    <2>7. QED
      BY <2>4, <2>6 DEF IInv
  <1>8. QED
    BY <1>4, <1>5, <1>7

\* MarkCleanedThrough keeps the invariant: a compaction may then drop only what is durable.
LEMMA MarkCleanedThroughKeeps ==
    ASSUME IInv, NEW seq \in tm.bounds, MarkCleanedThrough(seq)
    PROVE  IInv'
  <1>t. TypeOK
    BY DEF IInv
  <1>w. PICK w : w = Watermark("Cleaned", seq)
    OBVIOUS
  <1>b. PICK b : b = <<w>>
    OBVIOUS
  <1>k. PICK ok : ok = [tm EXCEPT !.cleaned = seq, !.bounds = {x \in @ : x > seq}, !.nextSeq = @ + 1]
    OBVIOUS
  <1>m. PICK m : m = tm
    OBVIOUS
  <1>f. PICK first : first = tm.cleaned + 1
    OBVIOUS
  <1>g. PICK flush \in BOOLEAN : flush = TRUE
    OBVIOUS
  <1>1. /\ tm.valid /\ tm.st = "Idle" /\ Room(1)
        /\ seq = tm.durable /\ marked' = marked
        /\ begun' = begun /\ acked' = acked /\ published' = published
        /\ UNCHANGED <<lock, waiter, restarts>>
        /\ host' = "mounted" <=> host = "mounted"
    BY <1>t DEF MarkCleanedThrough, TypeOK, history
  <1>h. host' \in {"starting", "replaying", "mounted"}
    BY <1>t DEF TypeOK, MarkCleanedThrough
  <1>n. /\ tm \in Managers /\ tm.nextSeq \in Nat /\ tm.accepted \in Nat /\ tm.durable \in Nat
        /\ tm.cleaned \in Nat /\ tm.bounds \subseteq Nat /\ begun \in Nat /\ MaxSequence \in Nat
        /\ deferred.pending \in Nat /\ deferred.durable \in Nat
        /\ log \in Seq(Record) /\ synced \in 0 .. Len(log) /\ tm.pending \in Seq(Nat)
        /\ \A u \in Thread : waiter[u].seq \in Nat /\ waiter[u].target \in Nat
    BY <1>t, NumbersTyped
  <1>2. UsedInv /\ KnownInv /\ BufferInv
    BY <1>1 DEF IInv, ManagerInv
  <1>3. /\ w.kind = "Cleaned" /\ w.n = seq /\ w.seq = tm.nextSeq
        /\ b \in Seq(Record) /\ Elems(b) = {w} /\ Appendable(Elems(b))
        /\ seq \in Nat /\ seq <= tm.accepted /\ seq < tm.nextSeq
        /\ tm.cleaned + 1 \in 1 .. MaxSequence /\ tm.nextSeq <= MaxSequence
        /\ tm.buffered = <<>> /\ Low = tm.nextSeq
    BY <1>1, <1>w, <1>b, WatermarkFacts
  <1>x. tm.nextSeq + 1 \in 1 .. MaxSequence + 2
    <2>1. tm.nextSeq \in Nat /\ MaxSequence \in Nat /\ tm.nextSeq <= MaxSequence
      BY <1>n, <1>3
    <2>2. QED
      BY <2>1
  <1>u. /\ tm.accepted < tm.nextSeq /\ tm.durable < tm.nextSeq
        /\ deferred.pending < tm.nextSeq /\ deferred.durable < tm.nextSeq
        /\ \A u \in Thread : waiter[u].seq < tm.nextSeq /\ waiter[u].target < tm.nextSeq
        /\ \A r \in All : r.kind # "Index" => r.seq < tm.nextSeq
    BY <1>1, NextSeqFacts
  <1>e. PICK E : E = Elems(b)
    OBVIOUS
  <1>6. \A r \in Open : r.id \notin published' => \A q \in Elems(b) : Behind(q, r)
    BY <1>3 DEF Behind
  <1>4. \/ \E s \in {synced, Len(log)} :
           /\ \E o \in Outcomes(s, b, flush, first) :
                  /\ log' = o.log /\ synced' = o.synced /\ faults' = faults + o.faults
                  /\ o.res = "Succeeded" => tm' = ok
                  /\ o.res # "Succeeded" => FailedFrom(tm', m)
           /\ \/ s = synced /\ deferred' = deferred
              \/ s = Len(log) /\ deferred' = [deferred EXCEPT !.durable = deferred.pending]
        \/ /\ deferred.failed \/ faults < MaxFaults
           /\ faults' = IF deferred.failed THEN faults ELSE faults + 1
           /\ tm' = DurabilityFailed
           /\ deferred' = [deferred EXCEPT !.failed = TRUE, !.flushing = FALSE]
           /\ UNCHANGED <<log, synced>>
    <2>1. MarkThrough("Cleaned", seq, ok)
      BY <1>k DEF MarkCleanedThrough
    <2>2. CASE /\ AppendedAfter(synced, b, flush, first, ok, m)
               /\ deferred' = deferred
      BY <2>2 DEF AppendedAfter, Outcomes, FailedFrom
    <2>3. CASE /\ AppendedAfter(Len(log), b, flush, first, ok, m)
               /\ deferred' = [deferred EXCEPT !.durable = deferred.pending]
      BY <2>3 DEF AppendedAfter, Outcomes, FailedFrom
    <2>4. CASE /\ deferred.failed \/ faults < MaxFaults
               /\ faults' = IF deferred.failed THEN faults ELSE faults + 1
               /\ tm' = DurabilityFailed
               /\ deferred' = [deferred EXCEPT !.failed = TRUE, !.flushing = FALSE]
               /\ UNCHANGED <<log, synced>>
      BY <2>4
    <2>5. QED
      BY <2>1, <2>2, <2>3, <2>4, <1>w, <1>b, <1>f, <1>g, <1>m DEF MarkThrough, Appended
  <1>5. ASSUME NEW s \in {synced, Len(log)}, NEW o \in Outcomes(s, b, flush, first),
               log' = o.log, synced' = o.synced, faults' = faults + o.faults,
               o.res = "Succeeded" => tm' = ok, o.res # "Succeeded" => FailedFrom(tm', m),
               \/ s = synced /\ deferred' = deferred
               \/ s = Len(log) /\ deferred' = [deferred EXCEPT !.durable = deferred.pending]
        PROVE  IInv'
    <2>1. /\ LogGrown
          /\ \A r \in All' : r \in All \/ r \in Elems(b) \/ r.kind = "Index"
          /\ \A r \in All' : r \in Flushed' \/ (s = synced /\ r \in All \ Flushed) \/ r \in Elems(b)
          /\ o.res = "Succeeded" => Elems(b) \subseteq All' /\ (flush => All' \subseteq Flushed')
      <3>1. first \in 1 .. MaxSequence /\ begun' = begun /\ published \subseteq published'
        BY <1>f, <1>1, <1>3
      <3>2. QED
        BY <1>1, <1>3, <1>5, <1>6, <3>1, Appending
    <2>2. /\ deferred' \in Deferreds /\ deferred'.pending = deferred.pending
          /\ deferred'.durable \in {deferred.durable, deferred.pending}
          /\ deferred'.durable = deferred.durable \/ s = Len(log)
      <3>1. CASE deferred' = deferred
        BY <1>t, <1>5, <3>1 DEF TypeOK, Deferreds
      <3>2. CASE s = Len(log) /\ deferred' = [deferred EXCEPT !.durable = deferred.pending]
        BY <1>t, <3>2, FlushedFirst
      <3>3. QED
        BY <1>5, <3>1, <3>2
    <2>3. \A r \in All' : r \in All \/ r \in E \/ r.kind = "Index"
      BY <2>1, <1>e
    <2>4. CASE o.res = "Succeeded"
      <3>1. /\ tm' \in Managers /\ tm'.st = "Idle" /\ tm'.tx = tm.tx /\ tm'.pending = tm.pending
            /\ tm'.buffered = <<>> /\ tm'.nextSeq = tm.nextSeq + 1 /\ tm'.nextTx = tm.nextTx
            /\ tm'.accepted = tm.accepted /\ tm'.durable = tm.durable /\ tm'.cleaned = seq
            /\ tm'.bounds \subseteq tm.bounds
        <4>1. PICK x : x = tm.nextSeq + 1
          OBVIOUS
        <4>2. x \in 1 .. MaxSequence + 2
          BY <1>x, <4>1
        <4>3. PICK B : B = {z \in tm.bounds : z > seq}
          OBVIOUS
        <4>4. tm' = [tm EXCEPT !.cleaned = seq, !.bounds = B, !.nextSeq = x]
          BY <1>k, <1>5, <1>n, <2>4, <4>1, <4>3 DEF Managers
        <4>5. B \in SUBSET Nat /\ B \subseteq tm.bounds
          BY <1>n, <4>3
        <4>6. QED
          BY <1>1, <1>n, <1>3, <4>1, <4>2, <4>4, <4>5 DEF Managers
      <3>2. ManagerInv' /\ CountInv'
        <4>1. E = {w} /\ (\A r \in E : r.seq < tm'.nextSeq) /\ \A r \in E : r.kind # "Accepted"
          BY <1>3, <1>e, <1>n, <3>1
        <4>2. Low <= tm'.nextSeq /\ tm'.nextSeq <= MaxSequence + 1
          BY <1>n, <1>3, <3>1
        <4>3. tm'.accepted < tm'.nextSeq /\ tm'.durable < tm'.nextSeq
          BY <1>n, <1>3, <1>u, <3>1
        <4>4. deferred'.pending < tm'.nextSeq /\ deferred'.durable < tm'.nextSeq
          BY <1>n, <1>u, <2>2, <3>1
        <4>5. \A u \in Thread : waiter'[u].seq < tm'.nextSeq /\ waiter'[u].target < tm'.nextSeq
          BY <1>1, <1>n, <1>u, <3>1
        <4>6. tm.accepted <= tm'.accepted /\ tm'.cleaned <= tm'.durable
          BY <1>1, <1>n, <1>2, <1>3, <3>1 DEF KnownInv
        <4>7. \A r \in Accepts : r.seq <= tm'.durable => r.id \in published'
          BY <1>1, <1>2, <3>1 DEF KnownInv
        <4>8. \A z \in tm'.bounds : z <= tm'.accepted
          BY <1>2, <3>1 DEF KnownInv
        <4>9. \A i \in 1 .. Len(tm'.pending) : tm'.pending[i] >= 1 /\ tm'.pending[i] < tm'.nextSeq
          <5>1. \A i \in 1 .. Len(tm.pending) :
                    tm.pending[i] \in Nat /\ tm.pending[i] >= 1 /\ tm.pending[i] < tm.nextSeq
            BY <1>n, <1>2 DEF BufferInv
          <5>2. tm'.pending = tm.pending /\ tm'.nextSeq = tm.nextSeq + 1 /\ tm.nextSeq \in Nat
            BY <1>n, <3>1
          <5>3. \A i \in 1 .. Len(tm.pending) : tm.pending[i] < tm.nextSeq + 1
            BY <5>1, <5>2
          <5>4. QED
            BY <5>1, <5>2, <5>3
        <4>10. tm'.tx <= begun
          BY <3>1 DEF IInv, CountInv
        <4>11. begun' = begun /\ published \subseteq published' /\ tm.valid
          BY <1>1
        <4>12. QED
          BY <2>3, <3>1, <4>1, <4>2, <4>3, <4>4, <4>5, <4>6, <4>7, <4>8, <4>9, <4>10, <4>11, GrownManager
      <3>3. E \subseteq Flushed' /\ Open' \subseteq Flushed'
        BY <1>e, <1>g, <2>1, <2>4 DEF Open, Accepts
      <3>4. LogInv'
        BY <1>1, <2>1, GrownLogSame
      <3>5. WaitInv'
        BY <1>1, <3>3, WaitSettled
      <3>6. TypeOK'
        BY <1>t, <1>1, <1>h, <2>1, <2>2, <3>1 DEF TypeOK, Managers, LogGrown, Deferreds
      <3>7. QED
        BY <3>2, <3>4, <3>5, <3>6 DEF IInv
    <2>5. CASE o.res # "Succeeded"
      <3>1. /\ tm' \in Managers /\ ~tm'.valid /\ tm'.nextSeq = tm.nextSeq
            /\ tm'.nextTx = tm.nextTx /\ tm'.tx = tm.tx
        BY <1>5, <1>m, <1>n, <2>5, FailedFromFacts
      <3>2. PICK D : D = IF deferred'.durable = deferred.durable THEN All \ Flushed ELSE {}
        OBVIOUS
      <3>3. \A r \in All' : r \in Flushed' \/ r \in D \/ r \in E
        <4>1. CASE deferred'.durable = deferred.durable
          BY <1>e, <2>1, <3>2, <4>1
        <4>2. CASE s = Len(log)
          <5>1. s = synced => All \subseteq Flushed
            BY <4>2 DEF All, Flushed, Elems
          <5>2. QED
            BY <1>e, <2>1, <5>1
        <4>3. QED
          BY <2>2, <4>1, <4>2
      <3>4. D \in SUBSET (All \ Flushed) /\ (D # {} => deferred'.durable = deferred.durable)
        BY <3>2
      <3>5. \A r \in E : r.kind = "Accepted" => r.seq \in Nat /\ r.seq >= Low
        BY <1>3, <1>e
      <3>6. marked' = marked /\ acked' = acked /\ published' \subseteq 1 .. begun
            /\ published \subseteq published'
        BY <1>t, <1>1, <3>1 DEF TypeOK
      <3>7. deferred' \in [pending : Nat, durable : Nat, failed : BOOLEAN, flushing : BOOLEAN]
        BY <2>2 DEF Deferreds
      <3>8. QED
        BY <1>1, <1>h, <2>1, <2>2, <3>1, <3>3, <3>4, <3>5, <3>6, <3>7, AppendFailureKeeps
    <2>6. QED
      BY <2>4, <2>5
  <1>7. CASE /\ deferred.failed \/ faults < MaxFaults
             /\ faults' = IF deferred.failed THEN faults ELSE faults + 1
             /\ tm' = DurabilityFailed
             /\ deferred' = [deferred EXCEPT !.failed = TRUE, !.flushing = FALSE]
             /\ UNCHANGED <<log, synced>>
    <2>1. ~tm'.valid
      BY <1>n, <1>7 DEF DurabilityFailed, Managers
    <2>2. marked' = marked /\ UNCHANGED history
      BY <1>1, <2>1 DEF history
    <2>3. \A u \in Thread : waiter'[u].seq \in {0, waiter[u].seq}
      BY <1>1
    <2>4. /\ tm' \in Managers /\ deferred' \in Deferreds
          /\ LogInv' /\ ManagerInv' /\ CountInv' /\ WaitInv'
      BY <1>1, <1>7, <2>2, <2>3, DurabilityFailedKeeps
    <2>5. faults' \in 0 .. MaxFaults
      <3>1. CASE deferred.failed
        BY <1>t, <1>7, <3>1 DEF TypeOK
      <3>2. CASE ~deferred.failed
        BY <1>t, <1>7, <3>2, FaultTyped
      <3>3. QED
        BY <3>1, <3>2
    <2>6. TypeOK'
      BY <1>t, <1>1, <1>h, <1>7, <2>2, <2>4, <2>5 DEF TypeOK, Managers, Deferreds
    <2>7. QED
      BY <2>4, <2>6 DEF IInv
  <1>8. QED
    BY <1>4, <1>5, <1>7

---------------------------------------------------------------------------
(* The invariant, and what follows from it.                                *)

\* It holds at first.
LEMMA InitKeeps == Init => IInv
  <1> SUFFICES ASSUME Init PROVE IInv
    OBVIOUS
  <1>n. /\ MaxSequence \in Nat /\ MaxTransactions \in Nat /\ MaxFaults \in Nat /\ MaxRestarts \in Nat
    BY JournalAssumption
  <1>1. /\ log = <<>> /\ synced = 0 /\ tm = Fresh /\ deferred = NoDeferred /\ lock = Free
        /\ waiter = [t \in Thread |-> NotWaiting] /\ host = "mounted"
        /\ begun = 0 /\ acked = {} /\ published = {} /\ marked = {}
        /\ faults = 0 /\ restarts = 0
    BY DEF Init
  <1>2. log \in Seq(Record) /\ Len(log) = 0 /\ synced \in 0 .. Len(log)
    BY <1>1
  <1>3. /\ tm.st = "Idle" /\ tm.tx = 0 /\ tm.pending = <<>> /\ tm.buffered = <<>>
        /\ tm.nextSeq = 1 /\ tm.nextTx = 1 /\ tm.accepted = 0 /\ tm.durable = 0
        /\ tm.cleaned = 0 /\ tm.bounds = {}
    BY <1>1 DEF Fresh
  <1>4. tm \in Managers
    <2>1. PICK e : e = <<>>
      OBVIOUS
    <2>2. PICK f : f = 1
      OBVIOUS
    <2>3. e \in Seq(Nat) /\ f \in 1 .. MaxSequence + 2
      BY <1>n, <2>1, <2>2
    <2>4. tm = [st |-> "Idle", tx |-> 0, pending |-> e, buffered |-> e,
                nextSeq |-> f, nextTx |-> 1, accepted |-> 0, durable |-> 0, cleaned |-> 0,
                bounds |-> {}, committed |-> 0, valid |-> TRUE, ambiguous |-> FALSE]
      BY <1>1, <2>1, <2>2 DEF Fresh
    <2>5. QED
      BY <2>3, <2>4 DEF Managers
  <1>5. TypeOK
    <2>1. deferred \in [pending : Nat, durable : Nat, failed : BOOLEAN, flushing : BOOLEAN]
      BY <1>1 DEF NoDeferred
    <2>2. waiter \in [Thread -> [pc : {"none", "check", "wait", "window", "flush", "fail"},
                                 seq : Nat, target : Nat]]
      BY <1>1 DEF NotWaiting
    <2>3. begun \in 0 .. MaxTransactions /\ faults \in 0 .. MaxFaults /\ restarts \in 0 .. MaxRestarts
      BY <1>n, <1>1
    <2>4. QED
      BY <1>1, <1>2, <1>4, <2>1, <2>2, <2>3 DEF TypeOK, Managers
  <1>6. All = {} /\ Accepts = {} /\ Open = {}
    BY <1>2 DEF All, Elems, Accepts, Open
  <1>7. LogInv
    BY <1>1, <1>6 DEF LogInv, RecordInv, UniqueInv, OpenInv, AckedInv, MarkedInv
  <1>8. Low = 1
    BY <1>3 DEF Low
  <1>9. ManagerInv
    <2>1. UsedInv
      BY <1>1, <1>3, <1>6, <1>8 DEF UsedInv, NoDeferred, NotWaiting
    <2>2. KnownInv
      BY <1>3, <1>6 DEF KnownInv
    <2>3. BufferInv
      <3>1. Len(tm.buffered) = 0 /\ Len(tm.pending) = 0
        BY <1>3
      <3>2. QED
        BY <1>3, <1>8, <3>1 DEF BufferInv
    <2>4. ActiveInv
      BY <1>3 DEF ActiveInv
    <2>5. QED
      BY <2>1, <2>2, <2>3, <2>4 DEF ManagerInv
  <1>10. CountInv
    BY <1>n, <1>1, <1>3 DEF CountInv
  <1>11. WaitInv
    BY <1>1, <1>6 DEF WaitInv
  <1>12. QED
    BY <1>5, <1>7, <1>9, <1>10, <1>11 DEF IInv

\* A step that changes nothing.
LEMMA StutterKeeps ==
    ASSUME IInv, UNCHANGED vars
    PROVE  IInv'
  <1>1. /\ log' = log /\ synced' = synced /\ tm' = tm /\ deferred' = deferred /\ lock' = lock
        /\ waiter' = waiter /\ host' = host /\ begun' = begun /\ acked' = acked
        /\ published' = published /\ marked' = marked /\ faults' = faults /\ restarts' = restarts
    BY DEF vars, history
  <1>2. All' = All /\ Flushed' = Flushed /\ Accepts' = Accepts /\ Open' = Open /\ Low' = Low
    BY <1>1 DEF All, Flushed, Accepts, Open, Low
  <1>3. TypeOK'
    BY <1>1 DEF IInv, TypeOK
  <1>4. LogInv'
    BY <1>1, <1>2 DEF IInv, LogInv, RecordInv, RecordOK, UniqueInv, OpenInv, AckedInv, MarkedInv
  <1>5. ManagerInv'
    BY <1>1, <1>2 DEF IInv, ManagerInv, UsedInv, KnownInv, BufferInv, ActiveInv
  <1>6. CountInv'
    BY <1>1 DEF IInv, CountInv
  <1>7. WaitInv'
    BY <1>1, <1>2 DEF IInv, WaitInv, Awaited, Forsaken
  <1>8. QED
    BY <1>3, <1>4, <1>5, <1>6, <1>7 DEF IInv

\* Every step keeps it.
LEMMA NextKeeps == IInv /\ [Next]_vars => IInv'
  <1> SUFFICES ASSUME IInv, [Next]_vars PROVE IInv'
    OBVIOUS
  <1>1. CASE Transactions
    <2>1. CASE Begin
      BY <2>1, BeginKeeps
    <2>2. CASE RecordMutation
      BY <2>2, RecordMutationKeeps
    <2>3. CASE FlushPreparedRecords
      BY <2>3, FlushPreparedRecordsKeeps
    <2>4. CASE Accept
      BY <2>4, AcceptKeeps
    <2>5. CASE Commit
      BY <2>5, CommitKeeps
    <2>6. CASE Abort
      BY <2>6, AbortKeeps
    <2>7. QED
      BY <1>1, <2>1, <2>2, <2>3, <2>4, <2>5, <2>6 DEF Transactions
  <1>2. CASE Watermarks
    <2>1. ASSUME NEW seq \in tm.bounds, FlushAcceptedEvidence(seq)
          PROVE  IInv'
      BY <2>1, FlushAcceptedEvidenceKeeps
    <2>2. ASSUME NEW seq \in tm.bounds, Publish(seq)
          PROVE  IInv'
      BY <2>2, PublishKeeps
    <2>3. ASSUME NEW seq \in tm.bounds, MarkApfsDurableThrough(seq)
          PROVE  IInv'
      BY <2>3, MarkApfsDurableThroughKeeps
    <2>4. ASSUME NEW seq \in tm.bounds, MarkCleanedThrough(seq)
          PROVE  IInv'
      BY <2>4, MarkCleanedThroughKeeps
    <2>5. CASE Reseed
      BY <2>5, ReseedKeeps
    <2>6. QED
      BY <1>2, <2>1, <2>2, <2>3, <2>4, <2>5 DEF Watermarks
  <1>3. ASSUME NEW t \in Thread, Waiting(t)
        PROVE  IInv'
    <2>1. CASE CheckDurability(t)
      BY <2>1, CheckDurabilityKeeps
    <2>2. CASE Notified(t)
      BY <2>2, NotifiedKeeps
    <2>3. CASE LockAppends(t)
      BY <2>3, LockAppendsKeeps
    <2>4. CASE FlushPendingAppends(t)
      BY <2>4, FlushPendingAppendsKeeps
    <2>5. CASE MarkDeferredAcceptanceDurabilityFailure(t)
      BY <2>5, DurabilityFailureKeeps
    <2>6. QED
      BY <1>3, <2>1, <2>2, <2>3, <2>4, <2>5 DEF Waiting
  <1>4. ASSUME NEW t \in Thread, FlushFails(t)
        PROVE  IInv'
    BY <1>4, FlushFailsKeeps
  <1>5. ASSUME NEW t \in Thread, AcceptForDeferredCommit(t)
        PROVE  IInv'
    BY <1>5, AcceptForDeferredCommitKeeps
  <1>6. ASSUME NEW t \in Thread, WaitForExisting(t)
        PROVE  IInv'
    BY <1>6, WaitForExistingKeeps
  <1>7. CASE ReplayAll \/ Mount
    BY <1>7, ReplayAllKeeps, MountKeeps
  <1>8. CASE ProcessEnds
    BY <1>8, ProcessEndsKeeps
  <1>9. CASE PowerLoss
    BY <1>9, PowerLossKeeps
  <1>10. CASE UNCHANGED vars
    BY <1>10, StutterKeeps
  <1>11. QED
    BY <1>1, <1>2, <1>3, <1>4, <1>5, <1>6, <1>7, <1>8, <1>9, <1>10 DEF Next

---------------------------------------------------------------------------
(* A second invariant, on top of the first: a log that the start admits    *)
(* has all records of what is outstanding in it.  The validation waives    *)
(* the count of prepared records for the marker at the compaction floor,   *)
(* so no outstanding marker may be there.                                  *)

\* The record q says that the transaction of the marker r is in a checkpoint.
Passed(q, r) == \/ q.kind = "Committed" /\ q.seq >= r.seq
                \/ q.kind = "Durable" /\ q.n >= r.seq

\* An accept marker is behind its records, and at a floor only if it is passed.
FloorInv ==
    \A r \in Accepts :
        /\ r.seq >= 2
        /\ \A x \in All : x.kind = "Index" /\ x.seq = r.seq => \E q \in Flushed : Passed(q, r)

\* What the manager takes for durable is passed in the log.
PassedInv == \A r \in Accepts : r.seq <= tm.durable => \E q \in All : Passed(q, r)

\* The floors that an append of the open transaction may bring are not yet in use.
FirstInv ==
    /\ \A r \in All : r.seq < Low
    /\ First <= Low /\ tm.accepted < First
    /\ tm.st # "Active" => tm.pending = <<>>

Admission == FloorInv /\ (tm.valid => PassedInv /\ FirstInv)

\* The log L of which y records are durable comes from an append of E to the log, or to what a
\* compaction to f left of it.
Regrown(L, y, E, f) ==
    /\ L \in Seq(Record) /\ y \in 0 .. Len(L)
    /\ Elems(L) \subseteq All \cup E \cup {IndexRecord(f)}
    /\ \/ /\ All \subseteq Elems(L) /\ Flushed \subseteq Pre(L, y)
          /\ Elems(L) \subseteq All \cup E
       \/ /\ \A r \in All : r.seq >= f => r \in Pre(L, y)
          /\ \A r \in Elems(L) : r \in E \/ r.kind = "Index" \/ r.seq >= f

\* An append to what a compaction to f left.
LEMMA CompactedRegrown ==
    ASSUME log \in Seq(Record), NEW f \in Nat, NEW c, c = Compacted(f), NEW E,
           NEW L \in Seq(Record), NEW y \in 0 .. Len(L),
           Elems(L) \subseteq Elems(c) \cup E, Elems(c) \subseteq Pre(L, y)
    PROVE  Regrown(L, y, E, f)
  <1>1. Elems(c) = {r \in All : r.kind = "Index" \/ r.seq >= f} \cup {IndexRecord(f)}
    BY CompactedFacts
  <1>2. IndexRecord(f).kind = "Index"
    BY DEF IndexRecord
  <1>3. Elems(L) \subseteq All \cup E \cup {IndexRecord(f)}
    BY <1>1
  <1>4. \A r \in All : r.seq >= f => r \in Pre(L, y)
    BY <1>1
  <1>5. \A r \in Elems(L) : r \in E \/ r.kind = "Index" \/ r.seq >= f
    BY <1>1, <1>2
  <1>6. QED
    BY <1>3, <1>4, <1>5 DEF Regrown

\* An append that no compaction came before.
LEMMA PlainRegrown ==
    ASSUME log \in Seq(Record), synced \in 0 .. Len(log), NEW s \in 0 .. Len(log), synced <= s,
           NEW b \in Seq(Record), NEW f \in Nat, NEW flush \in BOOLEAN,
           NEW o, Extends(o, log, s, b, flush)
    PROVE  Regrown(o.log, o.synced, Elems(b), f)
  <1> PICK L : L = o.log
    OBVIOUS
  <1> PICK y : y = o.synced
    OBVIOUS
  <1> PICK E : E = Elems(b)
    OBVIOUS
  <1>1. /\ L \in Seq(Record) /\ y \in 0 .. Len(L)
        /\ All \subseteq Elems(L) /\ Elems(L) \subseteq All \cup E /\ Pre(log, s) \subseteq Pre(L, y)
    BY DEF Extends, All
  <1>2. Flushed \subseteq Pre(log, s)
    <2>1. \A i \in 1 .. synced : i \in 1 .. s
      OBVIOUS
    <2>2. QED
      BY <2>1 DEF Flushed, Pre
  <1>3. Regrown(L, y, E, f)
    BY <1>1, <1>2 DEF Regrown
  <1>4. QED
    BY <1>3

\* What an append with its retry leaves of the log.
LEMMA OutcomeRegrown ==
    ASSUME log \in Seq(Record), synced \in 0 .. Len(log), faults \in 0 .. MaxFaults,
           NEW s \in 0 .. Len(log), synced <= s,
           NEW b \in Seq(Record), NEW flush \in BOOLEAN, NEW first,
           NEW f \in Nat, f = SafeCompactionFloor(first), NEW o \in Outcomes(s, b, flush, first)
    PROVE  Regrown(o.log, o.synced, Elems(b), f)
  <1>0. MaxFaults \in Nat /\ faults \in Nat /\ 0 \in Nat /\ faults + 0 <= MaxFaults
    BY JournalAssumption
  <1>1. PICK p \in Appends(log, s, b, flush, 0) : o \in Retries(p, b, flush, first)
    BY DEF Outcomes
  <1>2. Extends(p, log, s, b, flush)
    BY <1>0, AppendsFacts
  <1>3. CASE p.res # "RejectedBeforeWrite"
    <2>1. o = p
      BY <1>1, <1>3 DEF Retries
    <2>2. QED
      BY <1>2, <2>1, PlainRegrown
  <1>4. CASE p.res = "RejectedBeforeWrite"
    <2>1. p.log = log /\ p.synced = s /\ p.faults \in Nat /\ faults + p.faults <= MaxFaults
      BY <1>2, <1>4 DEF Extends
    <2>2. PICK c \in Compactions(s, f, p.faults) :
              o \in IF c.res = "Succeeded" THEN Appends(c.log, c.synced, b, flush, c.faults)
                    ELSE {c}
      BY <1>1, <1>4, <2>1 DEF Retries
    <2>3. PICK d : d = Compacted(f)
      OBVIOUS
    <2>4. d \in Seq(Record) /\ Len(d) \in 0 .. Len(d) /\ Pre(d, Len(d)) = Elems(d)
      BY <2>3, CompactedFacts DEF Pre, Elems
    <2>5. CASE c = Outcome("Succeeded", d, Len(d), p.faults)
      <3>1. c.res = "Succeeded" /\ c.log = d /\ c.synced = Len(d) /\ c.faults = p.faults
        BY <2>5 DEF Outcome
      <3>2. o \in Appends(d, Len(d), b, flush, p.faults)
        BY <2>2, <3>1
      <3>3. Extends(o, d, Len(d), b, flush)
        BY <1>0, <2>1, <2>4, <3>2, AppendsFacts
      <3>4. /\ o.log \in Seq(Record) /\ o.synced \in 0 .. Len(o.log)
            /\ Elems(o.log) \subseteq Elems(d) \cup Elems(b)
            /\ Elems(d) \subseteq Pre(o.log, o.synced)
        BY <2>4, <3>3 DEF Extends
      <3>5. QED
        BY <2>3, <3>4, CompactedRegrown
    <2>6. CASE \E x \in {"RejectedBeforeWrite", "BytesMayHavePersisted"} :
                  c = Outcome(x, log, s, p.faults + 1) /\ faults + (p.faults + 1) <= MaxFaults
      <3>1. PICK x \in {"RejectedBeforeWrite", "BytesMayHavePersisted"} :
                  c = Outcome(x, log, s, p.faults + 1) /\ faults + (p.faults + 1) <= MaxFaults
        BY <2>6
      <3>2. c.res = x /\ c.log = log /\ c.synced = s /\ c.faults = p.faults + 1
        BY <3>1 DEF Outcome
      <3>3. o = c
        BY <2>2, <3>1, <3>2
      <3>4. Extends(o, log, s, b, flush)
        BY <2>1, <3>1, <3>2, <3>3 DEF Extends
      <3>5. QED
        BY <3>4, PlainRegrown
    <2>7. CASE c = Outcome("BytesMayHavePersisted", d, Len(d), p.faults + 1)
      <3>1. c.res = "BytesMayHavePersisted" /\ c.log = d /\ c.synced = Len(d)
        BY <2>7 DEF Outcome
      <3>2. o = c
        BY <2>2, <3>1
      <3>3. /\ o.log = d /\ o.synced = Len(d)
            /\ Elems(d) \subseteq Elems(d) \cup Elems(b) /\ Elems(d) \subseteq Pre(d, Len(d))
        BY <2>4, <3>1, <3>2
      <3>4. Regrown(d, Len(d), Elems(b), f)
        BY <2>3, <2>4, <3>3, CompactedRegrown
      <3>5. QED
        BY <3>3, <3>4
    <2>8. QED
      BY <2>2, <2>3, <2>5, <2>6, <2>7 DEF Compactions, May
  <1>5. QED
    BY <1>3, <1>4

\* An append keeps FloorInv, and what the manager took for durable stays passed.
LEMMA FloorKept ==
    ASSUME IInv, Admission, tm.valid, NEW f \in Nat, NEW E,
           f = 1 \/ tm.accepted < f \/ f <= tm.cleaned,
           Regrown(log', synced', E, f),
           \A r \in E : r.kind # "Index",
           \A r \in E : r.kind = "Accepted" =>
               r.seq \in Nat /\ r.seq >= 2 /\ f < r.seq /\ \A x \in All : x.seq < r.seq
    PROVE  /\ FloorInv'
           /\ \A r \in Accepts' : r \in E \/ r \in Accepts
           /\ \A r \in Accepts : r \in All' /\ r.seq <= tm.durable => \E q \in All' : Passed(q, r)
  <1>1. /\ \A r \in All : r.seq \in Nat /\ r.n \in Nat
        /\ Flushed \subseteq All
        /\ tm.accepted \in Nat /\ tm.durable \in Nat /\ tm.cleaned \in Nat
    <2>1. log \in Seq(Record) /\ synced \in 0 .. Len(log)
      BY NumbersTyped DEF IInv
    <2>2. tm.accepted \in Nat /\ tm.durable \in Nat /\ tm.cleaned \in Nat
      BY NumbersTyped DEF IInv
    <2>3. QED
      BY <2>1, <2>2, RecordsTyped
  <1>2. All' = Elems(log') /\ Flushed' = Pre(log', synced') /\ Flushed' \subseteq All'
    <2>1. log' \in Seq(Record) /\ synced' \in 0 .. Len(log')
      BY DEF Regrown
    <2>2. \A i \in 1 .. synced' : i \in 1 .. Len(log')
      BY <2>1
    <2>3. QED
      BY <2>2 DEF All, Flushed, Pre, Elems
  <1>3. \A r \in All' : r \in All \/ r \in E \/ r = IndexRecord(f)
    BY <1>2 DEF Regrown
  <1>4. \/ All \subseteq All' /\ Flushed \subseteq Flushed' /\ All' \subseteq All \cup E
        \/ /\ \A r \in All : r.seq >= f => r \in Flushed'
           /\ \A r \in All' : r \in E \/ r.kind = "Index" \/ r.seq >= f
    BY <1>2 DEF Regrown
  <1>5. IndexRecord(f).kind = "Index" /\ IndexRecord(f).seq = f
    BY DEF IndexRecord
  <1>6. \A r \in Accepts : r \in All /\ r.kind = "Accepted" /\ r.seq >= 2 /\ r.seq <= tm.accepted
    BY DEF Accepts, Admission, FloorInv, IInv, ManagerInv, KnownInv
  <1>7. \A r \in Accepts' : r \in All' /\ r.kind = "Accepted" /\ (r \in E \/ r \in Accepts)
    BY <1>3, <1>5 DEF Accepts
  \* A record that passes a marker is not below it.
  <1>8. \A r \in Accepts, q \in All : Passed(q, r) => q.seq >= r.seq
    <2> TAKE r \in Accepts, q \in All
    <2>1. r.seq \in Nat /\ q.seq \in Nat /\ q.n \in Nat
      BY <1>1, <1>6
    <2>2. q.kind = "Durable" => q.n < q.seq
      BY DEF IInv, LogInv, RecordInv, RecordOK
    <2>3. QED
      BY <2>1, <2>2 DEF Passed
  \* Those that a kept marker has are kept.
  <1>9. ASSUME NEW r \in Accepts, r \in All', NEW q \in All, Passed(q, r)
        PROVE  /\ q \in All' /\ (q \in Flushed => q \in Flushed')
               /\ q \in Flushed' \/ All' \subseteq All \cup E
    <2>1. CASE All \subseteq All' /\ Flushed \subseteq Flushed' /\ All' \subseteq All \cup E
      BY <1>9, <2>1
    <2>2. CASE /\ \A z \in All : z.seq >= f => z \in Flushed'
               /\ \A z \in All' : z \in E \/ z.kind = "Index" \/ z.seq >= f
      <3>1. r.seq \in Nat /\ q.seq \in Nat /\ q.seq >= r.seq
        BY <1>1, <1>6, <1>8, <1>9
      <3>2. CASE r \in E
        <4>1. q.seq < r.seq
          BY <1>6, <1>9, <3>2
        <4>2. QED
          BY <3>1, <4>1
      <3>3. CASE r \notin E
        <4>1. r.seq >= f
          BY <1>6, <1>9, <2>2, <3>3
        <4>2. q.seq >= f
          BY <3>1, <4>1
        <4>3. QED
          BY <1>2, <1>9, <2>2, <4>2
      <3>4. QED
        BY <3>2, <3>3
    <2>3. QED
      BY <1>4, <2>1, <2>2
  <1>10. ASSUME NEW r \in Accepts', NEW x \in All', x.kind = "Index", x.seq = r.seq
         PROVE  \E q \in Flushed' : Passed(q, r)
    <2>1. x \notin E
      BY <1>10
    <2>2. CASE r \in E
      <3>1. r.seq \in Nat /\ f < r.seq /\ \A z \in All : z.seq < r.seq
        BY <1>7, <2>2
      <3>2. x \in All \/ x.seq = f
        BY <1>3, <1>5, <2>1
      <3>3. x.seq < r.seq
        BY <3>1, <3>2, <1>10
      <3>4. QED
        BY <1>10, <3>1, <3>3
    <2>3. CASE r \notin E
      <3>1. r \in Accepts /\ r \in All'
        BY <1>7, <2>3
      <3>2. CASE x \in All
        <4>1. PICK q \in Flushed : Passed(q, r)
          BY <1>10, <3>1, <3>2 DEF Admission, FloorInv
        <4>2. q \in Flushed'
          BY <1>1, <1>9, <3>1, <4>1
        <4>3. QED
          BY <4>1, <4>2
      <3>3. CASE x \notin All
        <4>1. x.seq = f /\ r.seq = f
          BY <1>3, <1>5, <1>10, <2>1, <3>3
        <4>2. r.seq \in Nat /\ r.seq >= 2 /\ r.seq <= tm.accepted
          BY <1>1, <1>6, <3>1
        <4>3. tm.cleaned <= tm.durable
          BY DEF IInv, ManagerInv, KnownInv
        <4>4. r.seq <= tm.durable
          BY <1>1, <4>1, <4>2, <4>3
        <4>5. PICK q \in All : Passed(q, r)
          BY <3>1, <4>4 DEF Admission, PassedInv
        <4>6. q \in Flushed'
          BY <1>9, <1>10, <2>1, <2>3, <3>1, <3>3, <4>5
        <4>7. QED
          BY <4>5, <4>6
      <3>4. QED
        BY <3>2, <3>3
    <2>4. QED
      BY <2>2, <2>3
  <1>11. \A r \in Accepts' : r.seq >= 2
    BY <1>6, <1>7
  <1>12. FloorInv'
    BY <1>10, <1>11 DEF FloorInv
  <1>13. ASSUME NEW r \in Accepts, r \in All', r.seq <= tm.durable
         PROVE  \E q \in All' : Passed(q, r)
    <2>1. PICK q \in All : Passed(q, r)
      BY <1>13 DEF Admission, PassedInv
    <2>2. q \in All'
      BY <1>9, <1>13, <2>1
    <2>3. QED
      BY <2>1, <2>2
  <1>14. QED
    BY <1>7, <1>12, <1>13

\* The floor of the compaction that an append may bring.
LEMMA FloorIs ==
    ASSUME IInv, NEW first \in 1 .. MaxSequence, tm.accepted <= tm.cleaned => tm.accepted < first
    PROVE  LET f == SafeCompactionFloor(first)
           IN  f \in Nat /\ f <= first /\ (f = 1 \/ tm.accepted < f \/ f <= tm.cleaned)
  <1>1. tm.accepted \in Nat /\ tm.cleaned \in Nat /\ tm.committed \in Nat /\ MaxSequence \in Nat
    BY NumbersTyped DEF IInv
  <1>2. first \in Nat /\ first >= 1
    BY <1>1
  <1>3. QED
    BY <1>1, <1>2 DEF SafeCompactionFloor, Min2

\* An append, whatever becomes of it.
LEMMA AppendAdmission ==
    ASSUME IInv, Admission, tm.valid, NEW s \in {synced, Len(log)}, NEW b \in Seq(Record),
           NEW flush \in BOOLEAN, NEW first \in 1 .. MaxSequence,
           tm.accepted <= tm.cleaned => tm.accepted < first,
           NEW o \in Outcomes(s, b, flush, first), log' = o.log, synced' = o.synced,
           \A r \in Elems(b) : r.kind # "Index",
           \A r \in Elems(b) : r.kind = "Accepted" => r.seq = tm.nextSeq /\ first < tm.nextSeq
    PROVE  /\ FloorInv'
           /\ \A r \in Accepts' : r \in Elems(b) \/ r \in Accepts
           /\ \A r \in Accepts : r \in All' /\ r.seq <= tm.durable => \E q \in All' : Passed(q, r)
           /\ \A r \in All' : r \in All \/ r \in Elems(b) \/ (r.seq \in Nat /\ r.seq <= first)
  <1>n. /\ log \in Seq(Record) /\ synced \in 0 .. Len(log) /\ MaxSequence \in Nat
        /\ tm.nextSeq \in Nat /\ Low \in Nat
    BY NumbersTyped DEF IInv
  <1>f. PICK f : f = SafeCompactionFloor(first)
    OBVIOUS
  <1>1. f \in Nat /\ f <= first /\ (f = 1 \/ tm.accepted < f \/ f <= tm.cleaned)
    BY <1>f, FloorIs
  <1>2. s \in 0 .. Len(log) /\ synced <= s /\ faults \in 0 .. MaxFaults
    <2>1. Len(log) \in Nat
      BY <1>n
    <2>2. faults \in 0 .. MaxFaults
      BY DEF IInv, TypeOK
    <2>3. QED
      BY <1>n, <2>1, <2>2
  <1>e. PICK E : E = Elems(b)
    OBVIOUS
  <1>3. Regrown(log', synced', E, f)
    <2>1. log \in Seq(Record) /\ synced \in 0 .. Len(log)
      BY <1>n
    <2>2. Regrown(o.log, o.synced, Elems(b), f)
      BY <2>1, <1>2, <1>f, <1>1, OutcomeRegrown
    <2>3. QED
      BY <1>e, <2>2
  <1>4. \A r \in All : r.seq \in Nat /\ r.seq < tm.nextSeq
    <2>1. \A r \in All : r.seq \in Nat
      BY <1>n, RecordsTyped
    <2>2. \A r \in All : r.seq < Low
      BY DEF Admission, FirstInv
    <2>3. Low <= tm.nextSeq
      BY NextSeqFacts
    <2>4. QED
      BY <1>n, <2>1, <2>2, <2>3
  <1>5. \A r \in E : r.kind = "Accepted" =>
            r.seq \in Nat /\ r.seq >= 2 /\ f < r.seq /\ \A x \in All : x.seq < r.seq
    <2> TAKE r \in E
    <2> HAVE r.kind = "Accepted"
    <2>1. r.seq = tm.nextSeq /\ first < tm.nextSeq
      BY <1>e
    <2>2. first \in Nat /\ first >= 1
      BY <1>n
    <2>3. QED
      BY <1>n, <1>1, <1>4, <2>1, <2>2
  <1>6. \A r \in E : r.kind # "Index"
    BY <1>e
  <1>7. /\ FloorInv'
        /\ \A r \in Accepts' : r \in E \/ r \in Accepts
        /\ \A r \in Accepts : r \in All' /\ r.seq <= tm.durable => \E q \in All' : Passed(q, r)
    BY <1>1, <1>3, <1>5, <1>6, FloorKept
  <1>8. \A r \in All' : r \in All \/ r \in E \/ r = IndexRecord(f)
    BY <1>3 DEF Regrown, All
  <1>9. IndexRecord(f).seq = f
    BY DEF IndexRecord
  <1>10. \A r \in All' : r \in All \/ r \in E \/ (r.seq \in Nat /\ r.seq <= first)
    BY <1>1, <1>8, <1>9
  <1>11. QED
    BY <1>e, <1>7, <1>10

\* The manager after an append that succeeded.
LEMMA SuccessAdmission ==
    ASSUME IInv, Admission, tm.valid, tm' \in Managers, NEW E, NEW first \in Nat, FloorInv',
           \A r \in Accepts' : r \in E \/ r \in Accepts,
           \A r \in Accepts : r \in All' /\ r.seq <= tm.durable => \E q \in All' : Passed(q, r),
           \A r \in All' : r \in All \/ r \in E \/ (r.seq \in Nat /\ r.seq <= first),
           \A r \in E : r.seq < tm'.nextSeq /\ (r.kind = "Accepted" => r.seq \in Nat /\ r.seq > tm'.durable),
           first < tm'.nextSeq, Low <= tm'.nextSeq, tm'.buffered = <<>>,
           tm'.durable = tm.durable \/ \E w \in All' : w.kind = "Durable" /\ w.n = tm'.durable,
           \/ tm'.pending = <<>> /\ tm'.accepted < tm'.nextSeq
           \/ /\ tm'.pending = tm.pending /\ tm'.nextSeq = tm.nextSeq
              /\ tm'.accepted = tm.accepted /\ tm'.st = "Active"
    PROVE  Admission'
  <1>1. /\ tm'.nextSeq \in Nat /\ tm'.accepted \in Nat /\ tm'.durable \in Nat
        /\ tm.nextSeq \in Nat /\ Low \in Nat /\ tm.accepted \in Nat
    <2>1. MaxSequence \in Nat /\ tm.nextSeq \in Nat /\ Low \in Nat /\ tm.accepted \in Nat
      BY NumbersTyped DEF IInv
    <2>2. QED
      BY <2>1 DEF Managers
  <1>2. \A r \in All : r.seq \in Nat /\ r.seq < Low
    <2>1. log \in Seq(Record) /\ synced \in 0 .. Len(log)
      BY NumbersTyped DEF IInv
    <2>2. QED
      BY <2>1, RecordsTyped DEF Admission, FirstInv
  <1>3. Low' = tm'.nextSeq
    BY DEF Low
  <1>4. \A r \in All' : r.seq < Low'
    BY <1>1, <1>2, <1>3
  <1>5. PassedInv'
    <2> SUFFICES ASSUME NEW r \in Accepts', r.seq <= tm'.durable
                 PROVE  \E q \in All' : Passed(q, r)
      BY DEF PassedInv
    <2>1. r \in All' /\ r.kind = "Accepted"
      BY DEF Accepts
    <2>2. r \notin E
      BY <1>1, <2>1
    <2>3. r \in Accepts
      BY <2>2
    <2>4. CASE tm'.durable = tm.durable
      BY <2>1, <2>3, <2>4
    <2>5. CASE \E w \in All' : w.kind = "Durable" /\ w.n = tm'.durable
      <3>1. PICK w \in All' : w.kind = "Durable" /\ w.n = tm'.durable
        BY <2>5
      <3>2. r.seq \in Nat
        BY <1>2, <2>3 DEF Accepts
      <3>3. Passed(w, r)
        BY <1>1, <3>1, <3>2 DEF Passed
      <3>4. QED
        BY <3>3
    <2>6. QED
      BY <2>4, <2>5
  <1>6. FirstInv'
    <2>1. CASE tm'.pending = <<>> /\ tm'.accepted < tm'.nextSeq
      <3>1. First' = tm'.nextSeq
        BY <2>1 DEF First
      <3>2. QED
        BY <1>1, <1>3, <1>4, <2>1, <3>1 DEF FirstInv
    <2>2. CASE /\ tm'.pending = tm.pending /\ tm'.nextSeq = tm.nextSeq
               /\ tm'.accepted = tm.accepted /\ tm'.st = "Active"
      <3>1. First' = First
        BY <2>2 DEF First
      <3>2. First <= Low /\ tm.accepted < First
        BY DEF Admission, FirstInv
      <3>3. First \in Nat
        <4>1. CASE tm.pending = <<>>
          BY <1>1, <4>1 DEF First
        <4>2. CASE tm.pending # <<>>
          <5>1. tm.pending \in Seq(Nat)
            BY NumbersTyped DEF IInv
          <5>2. QED
            BY <4>2, <5>1 DEF First
        <4>3. QED
          BY <4>1, <4>2
      <3>4. First' <= Low'
        BY <1>1, <1>3, <3>1, <3>2, <3>3
      <3>5. QED
        BY <1>4, <2>2, <3>1, <3>2, <3>4 DEF FirstInv
    <2>3. QED
      BY <2>1, <2>2
  <1>7. QED
    BY <1>5, <1>6 DEF Admission

\* An append that failed.
LEMMA FailureAdmission ==
    ASSUME FloorInv', NEW x \in Managers, FailedFrom(tm', x)
    PROVE  Admission'
  <1>1. ~tm'.valid
    BY FailedFromFacts
  <1>2. QED
    BY <1>1 DEF Admission

\* The records stay, more of them may become durable, and the manager stays or is unknown.
LEMMA QuietAdmission ==
    ASSUME IInv, Admission, log' = log, synced' = synced \/ synced' = Len(log), tm' = tm \/ ~tm'.valid
    PROVE  Admission'
  <1>1. log \in Seq(Record) /\ synced \in 0 .. Len(log)
    BY NumbersTyped DEF IInv
  <1>2. All' = All /\ Accepts' = Accepts
    BY DEF All, Accepts
  <1>3. Flushed \subseteq Flushed'
    <2>1. \A i \in 1 .. synced : i \in 1 .. synced'
      BY <1>1
    <2>2. QED
      BY <2>1 DEF Flushed
  <1>4. FloorInv'
    BY <1>2, <1>3 DEF Admission, FloorInv
  <1>5. CASE tm' = tm
    <2>1. Low' = Low /\ First' = First
      BY <1>5 DEF Low, First
    <2>2. tm.valid => PassedInv' /\ FirstInv'
      BY <1>2, <1>5, <2>1 DEF Admission, PassedInv, FirstInv
    <2>3. QED
      BY <1>4, <1>5, <2>2 DEF Admission
  <1>6. CASE ~tm'.valid
    BY <1>4, <1>6 DEF Admission
  <1>7. QED
    BY <1>5, <1>6

\* The manager after it has read the log.
LEMMA SeedAdmission ==
    ASSUME TypeOK', NEW m, NEW x, ReadFrom(tm', m, All', x), FloorInv',
           tm'.buffered = <<>>, tm'.pending = <<>>
    PROVE  Admission'
  <1> SUFFICES ASSUME tm'.valid
               PROVE  PassedInv' /\ FirstInv'
    BY DEF Admission
  <1>1. tm'.nextSeq \in Nat /\ tm'.nextSeq >= 1 /\ tm'.accepted \in Nat /\ tm'.durable \in Nat
    BY JournalAssumption DEF ReadFrom, Managers
  <1>2. Low' = tm'.nextSeq /\ First' = tm'.nextSeq
    BY DEF Low, First
  <1>3. /\ \A r \in All' : r.seq < tm'.nextSeq
        /\ \/ tm'.accepted = 0
           \/ \E r \in All' : r.kind \in {"Accepted", "Committed"} /\ r.seq = tm'.accepted
        /\ \/ tm'.durable = 0
           \/ \E r \in All' : \/ r.kind = "Committed" /\ r.seq = tm'.durable
                              \/ r.kind = "Durable" /\ r.n = tm'.durable
    BY DEF ReadFrom
  <1>4. tm'.accepted < First'
    BY <1>1, <1>2, <1>3
  <1>5. FirstInv'
    BY <1>1, <1>2, <1>3, <1>4 DEF FirstInv
  <1>6. PassedInv'
    <2> SUFFICES ASSUME NEW r \in Accepts', r.seq <= tm'.durable
                 PROVE  \E q \in All' : Passed(q, r)
      BY DEF PassedInv
    <2>1. r.seq \in Nat /\ r.seq >= 2
      <3>1. log' \in Seq(Record)
        BY DEF TypeOK
      <3>2. r \in Record
        BY <3>1 DEF Accepts, All, Elems
      <3>3. QED
        BY <3>2 DEF Record, FloorInv
    <2>2. tm'.durable # 0
      BY <1>1, <2>1
    <2>3. PICK q \in All' : \/ q.kind = "Committed" /\ q.seq = tm'.durable
                            \/ q.kind = "Durable" /\ q.n = tm'.durable
      BY <1>3, <2>2
    <2>4. Passed(q, r)
      BY <1>1, <2>1, <2>3 DEF Passed
    <2>5. QED
      BY <2>4
  <1>7. QED
    BY <1>5, <1>6

\* Where the next append of the open transaction may put a floor.
LEMMA FirstFacts ==
    ASSUME IInv, Admission, Active
    PROVE  /\ First \in Nat /\ First \in 1 .. MaxSequence /\ First <= Low /\ tm.accepted < First
           /\ tm.pending # <<>> => First < tm.nextSeq
  <1>1. First \in 1 .. MaxSequence /\ MaxSequence \in Nat /\ BufferInv /\ tm.pending \in Seq(Nat) /\ tm.valid
    BY ActiveFacts
  <1>2. First <= Low /\ tm.accepted < First
    BY <1>1 DEF Admission, FirstInv
  <1>3. ASSUME tm.pending # <<>>
        PROVE  First < tm.nextSeq
    <2>1. 1 \in 1 .. Len(tm.pending) /\ First = tm.pending[1]
      BY <1>1, <1>3 DEF First
    <2>2. QED
      BY <1>1, <2>1 DEF BufferInv
  <1>4. QED
    BY <1>1, <1>2, <1>3

\* Begin keeps it.
LEMMA BeginAdmits ==
    ASSUME IInv, Admission, Begin
    PROVE  Admission'
  <1>1. /\ tm.valid /\ tm.st = "Idle" /\ log' = log /\ synced' = synced
        /\ tm' = [tm EXCEPT !.st = "Active", !.tx = tm.nextTx, !.nextTx = @ + 1,
                            !.pending = <<>>, !.buffered = <<>>]
    BY DEF Begin
  <1>2. /\ tm \in Managers /\ tm.nextSeq \in Nat /\ Low \in Nat /\ tm.accepted \in Nat
    BY NumbersTyped DEF IInv
  <1>3. /\ tm'.pending = <<>> /\ tm'.buffered = <<>> /\ tm'.nextSeq = tm.nextSeq
        /\ tm'.accepted = tm.accepted /\ tm'.durable = tm.durable /\ tm'.st = "Active"
    BY <1>1, <1>2 DEF Managers
  <1>4. Low = tm.nextSeq /\ Low' = tm.nextSeq /\ First' = tm.nextSeq
    BY <1>1, <1>3 DEF IInv, ManagerInv, BufferInv, Low, First
  <1>5. tm.accepted < Low
    BY <1>1 DEF IInv, ManagerInv, UsedInv
  <1>6. All' = All /\ Accepts' = Accepts /\ Flushed' = Flushed
    BY <1>1 DEF All, Accepts, Flushed
  <1>7. FloorInv'
    BY <1>6 DEF Admission, FloorInv
  <1>8. PassedInv'
    BY <1>1, <1>3, <1>6 DEF Admission, PassedInv
  <1>9. FirstInv'
    BY <1>1, <1>2, <1>3, <1>4, <1>5, <1>6 DEF Admission, FirstInv
  <1>10. QED
    BY <1>7, <1>8, <1>9 DEF Admission

\* The first number stays when one is appended.
LEMMA FirstAppended ==
    ASSUME NEW p \in Seq(Nat), NEW e \in Nat, NEW c, c = Append(p, e)
    PROVE  c # <<>> /\ c[1] = IF p = <<>> THEN e ELSE p[1]
  <1>1. /\ Len(p) \in Nat /\ c \in Seq(Nat) /\ Len(c) = Len(p) + 1
        /\ \A i \in 1 .. Len(c) : c[i] = IF i <= Len(p) THEN p[i] ELSE e
    BY NumberAppended
  <1>2. 1 \in 1 .. Len(c) /\ c # <<>>
    BY <1>1
  <1>3. c[1] = IF 1 <= Len(p) THEN p[1] ELSE e
    BY <1>1, <1>2
  <1>4. p = <<>> <=> ~(1 <= Len(p))
    BY <1>1
  <1>5. QED
    BY <1>2, <1>3, <1>4

\* RecordMutation keeps it: the first free number and the first floor stay.
LEMMA RecordMutationAdmits ==
    ASSUME IInv, Admission, RecordMutation
    PROVE  Admission'
  <1>1. /\ Active /\ log' = log /\ synced' = synced
        /\ tm' = [tm EXCEPT !.pending = Append(@, tm.nextSeq), !.buffered = Append(@, tm.nextSeq),
                            !.nextSeq = @ + 1]
    BY DEF RecordMutation
  <1>2. /\ tm \in Managers /\ tm.nextSeq \in Nat /\ tm.pending \in Seq(Nat)
        /\ tm.buffered \in Seq(Nat) /\ tm.valid /\ tm.st = "Active" /\ BufferInv
    BY <1>1, ActiveFacts
  <1>3. /\ tm'.pending = Append(tm.pending, tm.nextSeq) /\ tm'.st = "Active"
        /\ tm'.buffered = Append(tm.buffered, tm.nextSeq)
        /\ tm'.accepted = tm.accepted /\ tm'.durable = tm.durable
    BY <1>1, <1>2 DEF Managers
  <1>4. First' = First
    <2>1. PICK p : p = tm.pending
      OBVIOUS
    <2>2. PICK c : c = tm'.pending
      OBVIOUS
    <2>3. p \in Seq(Nat) /\ tm.nextSeq \in Nat /\ c = Append(p, tm.nextSeq)
      BY <1>2, <1>3, <2>1, <2>2
    <2>4. c # <<>> /\ c[1] = IF p = <<>> THEN tm.nextSeq ELSE p[1]
      BY <2>3, FirstAppended
    <2>5. QED
      BY <2>1, <2>2, <2>4 DEF First
  <1>5. Low' = Low
    <2>1. PICK p : p = tm.buffered
      OBVIOUS
    <2>2. PICK c : c = tm'.buffered
      OBVIOUS
    <2>3. p \in Seq(Nat) /\ tm.nextSeq \in Nat /\ c = Append(p, tm.nextSeq)
      BY <1>2, <1>3, <2>1, <2>2
    <2>4. c # <<>> /\ c[1] = IF p = <<>> THEN tm.nextSeq ELSE p[1]
      BY <2>3, FirstAppended
    <2>5. QED
      BY <2>1, <2>2, <2>4 DEF Low
  <1>6. All' = All /\ Accepts' = Accepts /\ Flushed' = Flushed
    BY <1>1 DEF All, Accepts, Flushed
  <1>7. FloorInv'
    BY <1>6 DEF Admission, FloorInv
  <1>8. PassedInv'
    BY <1>2, <1>3, <1>6 DEF Admission, PassedInv
  <1>9. FirstInv'
    BY <1>2, <1>3, <1>4, <1>5, <1>6 DEF Admission, FirstInv
  <1>10. QED
    BY <1>7, <1>8, <1>9 DEF Admission

\* FlushPreparedRecords keeps it.
LEMMA FlushPreparedRecordsAdmits ==
    ASSUME IInv, Admission, FlushPreparedRecords
    PROVE  Admission'
  <1>1. PICK ok : ok = [tm EXCEPT !.buffered = <<>>]
    OBVIOUS
  <1>b. PICK b : b = Prepared
    OBVIOUS
  <1>m. PICK m : m = tm
    OBVIOUS
  <1>s. PICK s : s = synced
    OBVIOUS
  <1>f. PICK first : first = First
    OBVIOUS
  <1>g. PICK flush \in BOOLEAN : flush = TRUE
    OBVIOUS
  <1>2. Active /\ tm.buffered # <<>>
    BY DEF FlushPreparedRecords
  <1>o. PICK o \in Outcomes(s, b, flush, first) :
            /\ log' = o.log /\ synced' = o.synced
            /\ o.res = "Succeeded" => tm' = ok
            /\ o.res # "Succeeded" => FailedFrom(tm', m)
    BY <1>1, <1>b, <1>m, <1>s, <1>f, <1>g DEF FlushPreparedRecords, Appended, AppendedAfter, Outcomes, FailedFrom
  <1>3. /\ tm.valid /\ tm.st = "Active" /\ tm \in Managers /\ tm.nextSeq \in Nat /\ Low \in Nat
        /\ tm.buffered \in Seq(Nat) /\ BufferInv /\ Low <= tm.nextSeq
    BY <1>2, ActiveFacts
  <1>4. /\ b \in Seq(Record)
        /\ \A r \in Elems(b) : r.kind = "Prepared" /\ r.seq < tm.nextSeq
    BY <1>2, <1>b, PreparedFacts
  <1>5. first \in Nat /\ first \in 1 .. MaxSequence /\ first <= Low /\ tm.accepted < first
    BY <1>2, <1>f, FirstFacts
  <1>6. first < tm.nextSeq
    <2>1. 1 \in 1 .. Len(tm.buffered) /\ Low = tm.buffered[1]
      BY <1>2, <1>3 DEF Low
    <2>2. Low < tm.nextSeq
      BY <1>3, <2>1 DEF BufferInv
    <2>3. QED
      BY <1>3, <1>5, <2>2
  <1>7. /\ FloorInv'
        /\ \A r \in Accepts' : r \in Elems(b) \/ r \in Accepts
        /\ \A r \in Accepts : r \in All' /\ r.seq <= tm.durable => \E q \in All' : Passed(q, r)
        /\ \A r \in All' : r \in All \/ r \in Elems(b) \/ (r.seq \in Nat /\ r.seq <= first)
    <2>1. s \in {synced, Len(log)} /\ tm.valid
      BY <1>s, <1>3
    <2>2. QED
      BY <1>o, <1>4, <1>5, <2>1, AppendAdmission
  <1>8. CASE o.res = "Succeeded"
    <2>1. PICK e : e = <<>>
      OBVIOUS
    <2>2. e \in Seq(Nat) /\ tm' = [tm EXCEPT !.buffered = e]
      BY <1>o, <1>1, <1>8, <2>1
    <2>3. /\ tm' \in Managers /\ tm'.buffered = e /\ tm'.pending = tm.pending
          /\ tm'.nextSeq = tm.nextSeq /\ tm'.accepted = tm.accepted /\ tm'.durable = tm.durable
          /\ tm'.st = "Active"
      BY <1>3, <2>2 DEF Managers
    <2>4. PICK E : E = Elems(b)
      OBVIOUS
    <2>5. \A r \in E : r.seq < tm'.nextSeq /\ (r.kind = "Accepted" => r.seq \in Nat /\ r.seq > tm'.durable)
      BY <1>4, <2>3, <2>4
    <2>6. first < tm'.nextSeq /\ Low <= tm'.nextSeq /\ tm'.buffered = <<>>
      BY <1>3, <1>6, <2>1, <2>3
    <2>7. QED
      BY <1>3, <1>5, <1>7, <2>3, <2>4, <2>5, <2>6, SuccessAdmission
  <1>9. CASE o.res # "Succeeded"
    BY <1>o, <1>m, <1>3, <1>7, <1>9, FailureAdmission
  <1>10. QED
    BY <1>8, <1>9

\* The append of a group with its marker.
LEMMA GroupAdmits ==
    ASSUME IInv, Admission, Active, NEW kind \in {"Accepted", "Committed"},
           kind = "Accepted" => tm.pending # <<>>,
           NEW flush \in BOOLEAN, NEW ok \in Managers,
           ok.pending = <<>>, ok.buffered = <<>>, ok.nextSeq = tm.nextSeq + 1,
           ok.durable = tm.durable, ok.accepted \in {tm.accepted, tm.nextSeq},
           NEW o \in Outcomes(synced, Group(kind), flush, First),
           log' = o.log, synced' = o.synced,
           o.res = "Succeeded" => tm' = ok, o.res # "Succeeded" => FailedFrom(tm', Failed)
    PROVE  Admission'
  <1>b. PICK b : b = Group(kind)
    OBVIOUS
  <1>s. PICK s : s = synced
    OBVIOUS
  <1>f. PICK first : first = First
    OBVIOUS
  <1>x. PICK x : x = Of(kind, tm.nextSeq, Len(tm.pending))
    OBVIOUS
  <1>3. /\ tm.valid /\ tm \in Managers /\ tm.nextSeq \in Nat /\ Low \in Nat /\ Low <= tm.nextSeq
        /\ tm.nextSeq <= MaxSequence /\ MaxSequence \in Nat
    BY ActiveFacts
  <1>n. tm.accepted \in Nat /\ tm.durable \in Nat
    BY NumbersTyped DEF IInv
  <1>u. tm.accepted < tm.nextSeq /\ tm.durable < tm.nextSeq
    BY <1>3, NextSeqFacts
  <1>4. /\ b \in Seq(Record) /\ x.kind = kind /\ x.seq = tm.nextSeq
        /\ \A r \in Elems(b) : r.seq \in Nat /\ r.seq <= tm.nextSeq /\ (r.kind = "Prepared" \/ r = x)
    BY <1>b, <1>x, GroupFacts
  <1>5. /\ first \in Nat /\ first \in 1 .. MaxSequence /\ first <= Low /\ tm.accepted < first
        /\ tm.pending # <<>> => first < tm.nextSeq
    BY <1>f, FirstFacts
  <1>6. /\ FloorInv'
        /\ \A r \in Accepts' : r \in Elems(b) \/ r \in Accepts
        /\ \A r \in Accepts : r \in All' /\ r.seq <= tm.durable => \E q \in All' : Passed(q, r)
        /\ \A r \in All' : r \in All \/ r \in Elems(b) \/ (r.seq \in Nat /\ r.seq <= first)
    <2>1. s \in {synced, Len(log)} /\ o \in Outcomes(s, b, flush, first)
      BY <1>s, <1>b, <1>f
    <2>2. \A r \in Elems(b) : r.kind # "Index"
      BY <1>4
    <2>3. \A r \in Elems(b) : r.kind = "Accepted" => r.seq = tm.nextSeq /\ first < tm.nextSeq
      BY <1>4, <1>5
    <2>4. QED
      BY <1>3, <1>4, <1>5, <2>1, <2>2, <2>3, AppendAdmission
  <1>7. CASE o.res = "Succeeded"
    <2>1. tm' = ok
      BY <1>7
    <2>2. PICK E : E = Elems(b)
      OBVIOUS
    <2>3. \A r \in E : r.seq < tm'.nextSeq /\ (r.kind = "Accepted" => r.seq \in Nat /\ r.seq > tm'.durable)
      <3> TAKE r \in E
      <3>1. r.seq \in Nat /\ r.seq <= tm.nextSeq /\ (r.kind = "Prepared" \/ r.seq = tm.nextSeq)
        BY <1>4, <2>2
      <3>2. r.seq < tm'.nextSeq
        BY <1>3, <2>1, <3>1
      <3>3. r.kind = "Accepted" => r.seq > tm'.durable
        BY <1>3, <1>n, <1>u, <2>1, <3>1
      <3>4. QED
        BY <3>1, <3>2, <3>3
    <2>4. first < tm'.nextSeq /\ Low <= tm'.nextSeq /\ tm'.buffered = <<>> /\ tm'.pending = <<>>
      BY <1>3, <1>5, <2>1
    <2>5. tm'.accepted < tm'.nextSeq /\ tm'.durable = tm.durable
      BY <1>3, <1>n, <1>u, <2>1
    <2>6. QED
      BY <1>3, <1>5, <1>6, <2>1, <2>2, <2>3, <2>4, <2>5, SuccessAdmission
  <1>8. CASE o.res # "Succeeded"
    <2>1. Failed \in Managers
      BY <1>3, ClosedFacts
    <2>2. QED
      BY <1>6, <1>8, <2>1, FailureAdmission
  <1>9. QED
    BY <1>7, <1>8

\* Accept keeps it.
LEMMA AcceptAdmits ==
    ASSUME IInv, Admission, Accept
    PROVE  Admission'
  <1>b. PICK b : b = Group("Accepted")
    OBVIOUS
  <1>k. PICK ok : ok = AcceptedTm
    OBVIOUS
  <1>m. PICK m : m = Failed
    OBVIOUS
  <1>f. PICK first : first = First
    OBVIOUS
  <1>g. PICK flush \in BOOLEAN : flush = TRUE
    OBVIOUS
  <1>2. Active /\ tm.pending # <<>>
    BY DEF Accept
  <1>o. PICK o \in Outcomes(synced, b, flush, first) :
            /\ log' = o.log /\ synced' = o.synced
            /\ o.res = "Succeeded" => tm' = ok
            /\ o.res # "Succeeded" => FailedFrom(tm', m)
    BY <1>b, <1>k, <1>m, <1>f, <1>g DEF Accept, Appended, AppendedAfter, Outcomes, FailedFrom
  <1>3. /\ ok \in Managers /\ ok.pending = <<>> /\ ok.buffered = <<>> /\ ok.nextSeq = tm.nextSeq + 1
        /\ ok.durable = tm.durable /\ ok.accepted = tm.nextSeq
    BY <1>2, <1>k, AcceptedTmFacts
  <1>4. QED
    BY <1>2, <1>o, <1>3, <1>b, <1>m, <1>f, GroupAdmits

\* AcceptForDeferredCommit keeps it.
LEMMA AcceptForDeferredCommitAdmits ==
    ASSUME IInv, Admission, NEW t \in Thread, AcceptForDeferredCommit(t)
    PROVE  Admission'
  <1>b. PICK b : b = Group("Accepted")
    OBVIOUS
  <1>k. PICK ok : ok = AcceptedTm
    OBVIOUS
  <1>m. PICK m : m = Failed
    OBVIOUS
  <1>f. PICK first : first = First
    OBVIOUS
  <1>g. PICK flush \in BOOLEAN : flush = FALSE
    OBVIOUS
  <1>2. Active /\ tm.pending # <<>>
    BY DEF AcceptForDeferredCommit
  <1>o. PICK o \in Outcomes(synced, b, flush, first) :
            /\ log' = o.log /\ synced' = o.synced
            /\ o.res = "Succeeded" => tm' = ok
            /\ o.res # "Succeeded" => FailedFrom(tm', m)
    BY <1>b, <1>k, <1>m, <1>f, <1>g
    DEF AcceptForDeferredCommit, Appended, AppendedAfter, Outcomes, FailedFrom
  <1>3. /\ ok \in Managers /\ ok.pending = <<>> /\ ok.buffered = <<>> /\ ok.nextSeq = tm.nextSeq + 1
        /\ ok.durable = tm.durable /\ ok.accepted = tm.nextSeq
    BY <1>2, <1>k, AcceptedTmFacts
  <1>4. QED
    BY <1>2, <1>o, <1>3, <1>b, <1>m, <1>f, GroupAdmits

\* Commit keeps it.
LEMMA CommitAdmits ==
    ASSUME IInv, Admission, Commit
    PROVE  Admission'
  <1>b. PICK b : b = Group("Committed")
    OBVIOUS
  <1>k. PICK ok : ok = [Closed EXCEPT !.committed = tm.nextSeq]
    OBVIOUS
  <1>m. PICK m : m = Failed
    OBVIOUS
  <1>f. PICK first : first = First
    OBVIOUS
  <1>g. PICK flush \in BOOLEAN : flush = TRUE
    OBVIOUS
  <1>2. Active
    BY DEF Commit
  <1>o. PICK o \in Outcomes(synced, b, flush, first) :
            /\ log' = o.log /\ synced' = o.synced
            /\ o.res = "Succeeded" => tm' = ok
            /\ o.res # "Succeeded" => FailedFrom(tm', m)
    BY <1>b, <1>k, <1>m, <1>f, <1>g DEF Commit, Appended, AppendedAfter, Outcomes, FailedFrom
  <1>3. /\ tm \in Managers /\ tm.nextSeq \in Nat /\ tm.nextSeq <= MaxSequence /\ MaxSequence \in Nat
    BY <1>2, ActiveFacts
  <1>c. PICK c : c = Closed
    OBVIOUS
  <1>4. /\ c \in Managers /\ c.pending = <<>> /\ c.buffered = <<>> /\ c.nextSeq = tm.nextSeq + 1
        /\ c.durable = tm.durable /\ c.accepted = tm.accepted
    BY <1>3, <1>c, ClosedFacts
  <1>5. ok = [c EXCEPT !.committed = tm.nextSeq]
    BY <1>k, <1>c
  <1>6. /\ ok \in Managers /\ ok.pending = c.pending /\ ok.buffered = c.buffered
        /\ ok.nextSeq = c.nextSeq /\ ok.durable = c.durable /\ ok.accepted = c.accepted
    BY <1>3, <1>4, <1>5 DEF Managers
  <1>7. QED
    BY <1>2, <1>o, <1>4, <1>6, <1>b, <1>m, <1>f, GroupAdmits

\* Abort keeps it: the number it uses again is above every floor.
LEMMA AbortAdmits ==
    ASSUME IInv, Admission, Abort
    PROVE  Admission'
  <1>b. PICK b : b = <<Of("Aborted", Low, Len(tm.pending))>>
    OBVIOUS
  <1>k. PICK ok : ok = [Closed EXCEPT !.nextSeq = Low + 1]
    OBVIOUS
  <1>m. PICK m : m = Failed
    OBVIOUS
  <1>s. PICK s : s = synced
    OBVIOUS
  <1>f. PICK first : first = First
    OBVIOUS
  <1>g. PICK flush \in BOOLEAN : flush = TRUE
    OBVIOUS
  <1>2. Active
    BY DEF Abort, Active
  <1>a. AppendedAfter(synced, <<Of("Aborted", Low, Len(tm.pending))>>, TRUE, First,
                      [Closed EXCEPT !.nextSeq = Low + 1], Failed)
    BY DEF Abort, Appended, Low
  <1>o. PICK o \in Outcomes(s, b, flush, first) :
            /\ log' = o.log /\ synced' = o.synced
            /\ o.res = "Succeeded" => tm' = ok
            /\ o.res # "Succeeded" => FailedFrom(tm', m)
    BY <1>b, <1>k, <1>m, <1>s, <1>f, <1>g, <1>a DEF Free, AppendedAfter, Outcomes, FailedFrom
  <1>3. /\ tm.valid /\ tm \in Managers /\ tm.nextSeq \in Nat /\ Low \in Nat /\ Low >= 1
        /\ Low <= tm.nextSeq /\ tm.nextSeq <= MaxSequence /\ MaxSequence \in Nat /\ begun \in Nat
        /\ UsedInv
    BY <1>2, ActiveFacts
  <1>x. PICK x : x = Of("Aborted", Low, Len(tm.pending))
    OBVIOUS
  <1>4. b \in Seq(Record) /\ \A r \in Elems(b) : r.kind = "Aborted" /\ r.seq = Low
    <2>1. tm.tx \in Nat /\ Len(tm.pending) \in Nat
      BY <1>2, ActiveFacts
    <2>2. x \in Record /\ x.kind = "Aborted" /\ x.seq = Low
      BY <1>3, <1>x, <2>1 DEF Of, Record, Kind
    <2>3. b = <<x>>
      BY <1>b, <1>x
    <2>4. b \in Seq(Record) /\ Len(b) = 1 /\ b[1] = x
      BY <2>2, <2>3
    <2>5. Elems(b) = {x}
      BY <2>4 DEF Elems
    <2>6. QED
      BY <2>2, <2>4, <2>5
  <1>5. first \in Nat /\ first \in 1 .. MaxSequence /\ first <= Low /\ tm.accepted < first
    BY <1>2, <1>f, FirstFacts
  <1>6. /\ FloorInv'
        /\ \A r \in Accepts' : r \in Elems(b) \/ r \in Accepts
        /\ \A r \in Accepts : r \in All' /\ r.seq <= tm.durable => \E q \in All' : Passed(q, r)
        /\ \A r \in All' : r \in All \/ r \in Elems(b) \/ (r.seq \in Nat /\ r.seq <= first)
    <2>1. s \in {synced, Len(log)}
      BY <1>s
    <2>2. QED
      BY <1>o, <1>3, <1>4, <1>5, <2>1, AppendAdmission
  <1>7. CASE o.res = "Succeeded"
    <2>c. PICK c : c = Closed
      OBVIOUS
    <2>1. /\ c \in Managers /\ c.pending = <<>> /\ c.buffered = <<>>
          /\ c.durable = tm.durable /\ c.accepted = tm.accepted
      BY <1>3, <2>c, ClosedFacts
    <2>2. PICK z : z = Low + 1
      OBVIOUS
    <2>3. z \in 1 .. MaxSequence + 2 /\ z \in Nat
      BY <1>3, <2>2
    <2>4. tm' = [c EXCEPT !.nextSeq = z]
      BY <1>k, <1>o, <1>7, <2>c, <2>2
    <2>5. /\ tm' \in Managers /\ tm'.pending = c.pending /\ tm'.buffered = c.buffered
          /\ tm'.nextSeq = z /\ tm'.durable = c.durable /\ tm'.accepted = c.accepted
      BY <2>1, <2>3, <2>4 DEF Managers
    <2>6. PICK E : E = Elems(b)
      OBVIOUS
    <2>7. \A r \in E : r.seq < tm'.nextSeq /\ (r.kind = "Accepted" => r.seq \in Nat /\ r.seq > tm'.durable)
      BY <1>3, <1>4, <2>2, <2>5, <2>6
    <2>8. first < tm'.nextSeq /\ Low <= tm'.nextSeq /\ tm'.buffered = <<>> /\ tm'.pending = <<>>
      BY <1>3, <1>5, <2>1, <2>2, <2>5
    <2>9. tm'.accepted < tm'.nextSeq /\ tm'.durable = tm.durable
      <3>1. tm.accepted \in Nat /\ tm.accepted < Low
        BY <1>3, NumbersTyped DEF IInv, UsedInv
      <3>2. QED
        BY <1>3, <2>1, <2>2, <2>5, <3>1
    <2>10. QED
      BY <1>3, <1>5, <1>6, <2>5, <2>6, <2>7, <2>8, <2>9, SuccessAdmission
  <1>8. CASE o.res # "Succeeded"
    <2>1. Failed \in Managers
      BY <1>3, ClosedFacts
    <2>2. QED
      BY <1>o, <1>m, <1>6, <1>8, <2>1, FailureAdmission
  <1>9. QED
    BY <1>7, <1>8

\* The append of a watermark, with or without a flush before it.
LEMMA MarkAdmits ==
    ASSUME IInv, Admission, tm.valid, tm.st = "Idle", Room(1), NEW kind \in {"Durable", "Cleaned"},
           NEW seq \in tm.bounds, NEW ok \in Managers, MarkThrough(kind, seq, ok),
           ok.pending = tm.pending, ok.buffered = tm.buffered, ok.nextSeq = tm.nextSeq + 1,
           ok.accepted = tm.accepted,
           ok.durable = IF kind = "Durable" THEN seq ELSE tm.durable
    PROVE  Admission'
  <1>w. PICK w : w = Watermark(kind, seq)
    OBVIOUS
  <1>b. PICK b : b = <<w>>
    OBVIOUS
  <1>m. PICK m : m = tm
    OBVIOUS
  <1>f. PICK first : first = tm.cleaned + 1
    OBVIOUS
  <1>g. PICK flush \in BOOLEAN : flush = TRUE
    OBVIOUS
  <1>n. /\ tm \in Managers /\ tm.nextSeq \in Nat /\ tm.accepted \in Nat /\ tm.durable \in Nat
        /\ tm.cleaned \in Nat /\ log \in Seq(Record) /\ MaxSequence \in Nat /\ Low \in Nat
    BY NumbersTyped DEF IInv
  <1>u. tm.accepted < tm.nextSeq /\ tm.durable < tm.nextSeq /\ tm.cleaned <= tm.durable
    BY NextSeqFacts DEF IInv, ManagerInv, KnownInv
  <1>1. /\ w.kind = kind /\ w.n = seq /\ w.seq = tm.nextSeq
        /\ b \in Seq(Record) /\ Elems(b) = {w}
        /\ first \in 1 .. MaxSequence /\ tm.buffered = <<>> /\ Low = tm.nextSeq
    BY <1>w, <1>b, <1>f, WatermarkFacts
  <1>2. tm.pending = <<>>
    BY DEF Admission, FirstInv
  <1>3. \/ \E s \in {synced, Len(log)} : \E o \in Outcomes(s, b, flush, first) :
               /\ log' = o.log /\ synced' = o.synced
               /\ o.res = "Succeeded" => tm' = ok
               /\ o.res # "Succeeded" => FailedFrom(tm', m)
        \/ tm' = DurabilityFailed /\ UNCHANGED <<log, synced>>
    <2>1. CASE AppendedAfter(synced, b, flush, first, ok, m)
      BY <2>1 DEF AppendedAfter, Outcomes, FailedFrom
    <2>2. CASE AppendedAfter(Len(log), b, flush, first, ok, m)
      BY <2>2 DEF AppendedAfter, Outcomes, FailedFrom
    <2>3. CASE tm' = DurabilityFailed /\ UNCHANGED <<log, synced>>
      BY <2>3
    <2>4. QED
      BY <2>1, <2>2, <2>3, <1>w, <1>b, <1>f, <1>g, <1>m DEF MarkThrough, Appended
  <1>4. CASE tm' = DurabilityFailed /\ UNCHANGED <<log, synced>>
    <2>1. ~tm'.valid
      BY <1>n, <1>4 DEF DurabilityFailed, Managers
    <2>2. QED
      BY <1>4, <2>1, QuietAdmission
  <1>5. ASSUME NEW s \in {synced, Len(log)}, NEW o \in Outcomes(s, b, flush, first),
               log' = o.log, synced' = o.synced,
               o.res = "Succeeded" => tm' = ok, o.res # "Succeeded" => FailedFrom(tm', m)
        PROVE  Admission'
    <2>1. \A r \in Elems(b) : r.kind # "Index" /\ r.kind # "Accepted"
      BY <1>1
    <2>2. tm.accepted <= tm.cleaned => tm.accepted < first
      BY <1>f, <1>n
    <2>3. /\ FloorInv'
          /\ \A r \in Accepts' : r \in Elems(b) \/ r \in Accepts
          /\ \A r \in Accepts : r \in All' /\ r.seq <= tm.durable => \E q \in All' : Passed(q, r)
          /\ \A r \in All' : r \in All \/ r \in Elems(b) \/ (r.seq \in Nat /\ r.seq <= first)
      BY <1>1, <1>5, <2>1, <2>2, AppendAdmission
    <2>4. CASE o.res = "Succeeded"
      <3>1. tm' = ok
        BY <1>5, <2>4
      <3>2. tm'.durable = tm.durable \/ \E z \in All' : z.kind = "Durable" /\ z.n = tm'.durable
        <4>1. CASE kind = "Durable"
          <5>1. w \in All'
            <6>1. Result(o, b, flush, Pre(log, s), SafeCompactionFloor(first))
              <7>1. SafeCompactionFloor(first) \in Nat
                BY <1>1, <2>2, FloorIs
              <7>2. log \in Seq(Record) /\ s \in 0 .. Len(log) /\ faults \in 0 .. MaxFaults
                <8>1. synced \in 0 .. Len(log) /\ faults \in 0 .. MaxFaults
                  BY DEF IInv, TypeOK
                <8>2. Len(log) \in 0 .. Len(log)
                  BY <1>n
                <8>3. QED
                  BY <1>n, <8>1, <8>2
              <7>3. QED
                BY <1>1, <7>1, <7>2, OutcomeFacts
            <6>2. Elems(b) \subseteq Elems(o.log)
              BY <2>4, <6>1 DEF Result
            <6>3. QED
              BY <1>1, <1>5, <6>2 DEF All
          <5>2. w.kind = "Durable" /\ w.n = tm'.durable
            BY <1>1, <3>1, <4>1
          <5>3. QED
            BY <5>1, <5>2
        <4>2. CASE kind # "Durable"
          BY <3>1, <4>2
        <4>3. QED
          BY <4>1, <4>2
      <3>3. PICK E : E = Elems(b)
        OBVIOUS
      <3>4. \A r \in E : r.seq < tm'.nextSeq /\ (r.kind = "Accepted" => r.seq \in Nat /\ r.seq > tm'.durable)
        BY <1>n, <1>1, <2>1, <3>1, <3>3
      <3>5. first < tm'.nextSeq /\ Low <= tm'.nextSeq /\ tm'.buffered = <<>> /\ tm'.pending = <<>>
        BY <1>n, <1>u, <1>f, <1>1, <1>2, <3>1
      <3>6. first \in Nat /\ tm' \in Managers /\ tm'.accepted < tm'.nextSeq
        BY <1>n, <1>u, <1>f, <3>1
      <3>7. QED
        BY <2>3, <3>2, <3>3, <3>4, <3>5, <3>6, SuccessAdmission
    <2>5. CASE o.res # "Succeeded"
      BY <1>m, <1>n, <1>5, <2>3, <2>5, FailureAdmission
    <2>6. QED
      BY <2>4, <2>5
  <1>6. QED
    BY <1>3, <1>4, <1>5

\* MarkApfsDurableThrough keeps it: its watermark passes what it makes durable.
LEMMA MarkApfsDurableThroughAdmits ==
    ASSUME IInv, Admission, NEW seq \in tm.bounds, MarkApfsDurableThrough(seq)
    PROVE  Admission'
  <1>k. PICK ok : ok = [tm EXCEPT !.durable = seq, !.nextSeq = @ + 1]
    OBVIOUS
  <1>1. /\ tm.valid /\ tm.st = "Idle" /\ Room(1) /\ MarkThrough("Durable", seq, ok)
    BY <1>k DEF MarkApfsDurableThrough
  <1>2. /\ tm \in Managers /\ tm.nextSeq \in Nat /\ tm.bounds \subseteq Nat /\ MaxSequence \in Nat
    BY NumbersTyped DEF IInv
  <1>3. tm.nextSeq + 1 \in 1 .. MaxSequence + 2
    BY <1>1, <1>2 DEF Room
  <1>4. /\ ok \in Managers /\ ok.pending = tm.pending /\ ok.buffered = tm.buffered
        /\ ok.nextSeq = tm.nextSeq + 1 /\ ok.accepted = tm.accepted /\ ok.durable = seq
    BY <1>k, <1>2, <1>3 DEF Managers
  <1>5. QED
    BY <1>1, <1>4, MarkAdmits

\* MarkCleanedThrough keeps it.
LEMMA MarkCleanedThroughAdmits ==
    ASSUME IInv, Admission, NEW seq \in tm.bounds, MarkCleanedThrough(seq)
    PROVE  Admission'
  <1>k. PICK ok : ok = [tm EXCEPT !.cleaned = seq, !.bounds = {s \in @ : s > seq}, !.nextSeq = @ + 1]
    OBVIOUS
  <1>1. /\ tm.valid /\ tm.st = "Idle" /\ Room(1) /\ MarkThrough("Cleaned", seq, ok)
    BY <1>k DEF MarkCleanedThrough
  <1>2. /\ tm \in Managers /\ tm.nextSeq \in Nat /\ tm.bounds \subseteq Nat /\ MaxSequence \in Nat
    BY NumbersTyped DEF IInv
  <1>3. tm.nextSeq + 1 \in 1 .. MaxSequence + 2
    BY <1>1, <1>2 DEF Room
  <1>4. PICK B : B = {s \in tm.bounds : s > seq}
    OBVIOUS
  <1>5. B \in SUBSET Nat /\ ok = [tm EXCEPT !.cleaned = seq, !.bounds = B, !.nextSeq = tm.nextSeq + 1]
    BY <1>k, <1>2, <1>4 DEF Managers
  <1>6. /\ ok \in Managers /\ ok.pending = tm.pending /\ ok.buffered = tm.buffered
        /\ ok.nextSeq = tm.nextSeq + 1 /\ ok.accepted = tm.accepted /\ ok.durable = tm.durable
    BY <1>2, <1>3, <1>5 DEF Managers
  <1>7. QED
    BY <1>1, <1>6, MarkAdmits

\* Reading the log again keeps it.
LEMMA ReseedAdmits ==
    ASSUME IInv, IInv', Admission, Reseed
    PROVE  Admission'
  <1>n. tm \in Managers /\ begun \in Nat /\ log \in Seq(Record) /\ BufferInv
    BY NumbersTyped DEF IInv, ManagerInv, Reseed
  <1>1. /\ tm.valid /\ tm.st = "Idle" /\ tm' = Seed(tm, log) /\ log' = log /\ synced' = synced
    BY DEF Reseed
  <1>2. All' = All /\ Flushed' = Flushed /\ Accepts' = Accepts
    BY <1>1 DEF All, Flushed, Accepts
  <1>m. PICK m : m = tm
    OBVIOUS
  <1>3. ReadFrom(tm', m, All, begun)
    <2>1. \A r \in All : /\ r.seq \in 1 .. MaxSequence /\ r.tx <= begun
                         /\ r.kind \in {"Durable", "Cleaned"} => r.n < r.seq
      BY DEF IInv, LogInv, RecordInv, RecordOK
    <2>2. ReadFrom(Seed(tm, log), tm, Elems(log), begun)
      BY <1>n, <2>1, SeedFacts DEF All
    <2>3. QED
      BY <1>1, <1>m, <2>2 DEF All
  <1>4. tm'.pending = <<>> /\ tm'.buffered = <<>>
    <2>1. tm.pending = <<>> /\ tm.buffered = <<>>
      BY <1>n, <1>1 DEF Admission, FirstInv, BufferInv
    <2>2. QED
      BY <1>3, <1>m, <2>1 DEF ReadFrom
  <1>5. FloorInv'
    BY <1>2 DEF Admission, FloorInv
  <1>6. QED
    BY <1>2, <1>3, <1>4, <1>5, SeedAdmission DEF IInv

\* A restart keeps it.
LEMMA RestartAdmits ==
    ASSUME IInv, IInv', Admission, NEW n \in synced .. Len(log), NEW s \in synced .. n, Restart(n, s)
    PROVE  Admission'
  <1>n. begun \in Nat /\ MaxSequence \in Nat /\ log \in Seq(Record) /\ synced \in 0 .. Len(log)
    BY NumbersTyped DEF IInv
  <1>1. log' = SubSeq(log, 1, n) /\ synced' = s /\ tm' = Seed(Fresh, log')
    BY DEF Restart
  <1>2. /\ Len(log) \in Nat /\ n \in 0 .. Len(log) /\ s \in 0 .. n
        /\ \A i \in 1 .. synced : i \in 1 .. s
        /\ \A i \in 1 .. s : i \in 1 .. n
        /\ \A i \in 1 .. n : i \in 1 .. Len(log)
    BY <1>n
  <1>3. log' \in Seq(Record) /\ Elems(log') = {log[i] : i \in 1 .. n}
    BY <1>n, <1>1, <1>2, PrefixFacts
  <1>4. All' \subseteq All /\ Accepts' \subseteq Accepts
    BY <1>2, <1>3 DEF All, Elems, Accepts
  <1>5. Flushed \subseteq Flushed'
    <2>1. PICK p : p = SubSeq(log, 1, n)
      OBVIOUS
    <2>2. \A i \in 1 .. n : p[i] = log[i]
      BY <1>n, <1>2, <2>1, SubSeqProperties
    <2>3. \A i \in 1 .. s : log'[i] = log[i]
      BY <1>1, <1>2, <2>1, <2>2
    <2>4. QED
      BY <1>1, <1>2, <2>3 DEF Flushed
  <1>6. FloorInv'
    BY <1>4, <1>5 DEF Admission, FloorInv
  <1>7. Fresh \in Managers /\ Fresh.buffered = <<>> /\ Fresh.pending = <<>>
    BY <1>n DEF Fresh, Managers
  <1>8. ReadFrom(tm', Fresh, All', begun)
    <2>1. PICK l : l = log'
      OBVIOUS
    <2>2. \A r \in Elems(l) : /\ r.seq \in 1 .. MaxSequence /\ r.tx <= begun
                              /\ r.kind \in {"Durable", "Cleaned"} => r.n < r.seq
      BY <1>4, <2>1 DEF All, IInv, LogInv, RecordInv, RecordOK
    <2>3. ReadFrom(Seed(Fresh, l), Fresh, Elems(l), begun)
      BY <1>n, <1>3, <1>7, <2>1, <2>2, SeedFacts
    <2>4. QED
      BY <1>1, <2>1, <2>3 DEF All
  <1>9. tm'.pending = <<>> /\ tm'.buffered = <<>>
    BY <1>7, <1>8 DEF ReadFrom
  <1>10. QED
    BY <1>6, <1>8, <1>9, SeedAdmission DEF IInv

\* Every step keeps it.
LEMMA NextAdmits == IInv /\ IInv' /\ Admission /\ [Next]_vars => Admission'
  <1> SUFFICES ASSUME IInv, IInv', Admission, [Next]_vars PROVE Admission'
    OBVIOUS
  <1>n. log \in Seq(Record) /\ synced \in 0 .. Len(log) /\ tm \in Managers
    BY NumbersTyped DEF IInv
  <1>d. ~DurabilityFailed.valid
    BY <1>n DEF DurabilityFailed, Managers
  <1>1. CASE Transactions
    BY <1>1, BeginAdmits, RecordMutationAdmits, FlushPreparedRecordsAdmits, AcceptAdmits,
       CommitAdmits, AbortAdmits DEF Transactions
  <1>2. CASE Watermarks
    <2>1. ASSUME NEW seq \in tm.bounds, FlushAcceptedEvidence(seq)
          PROVE  Admission'
      <3>1. /\ log' = log
            /\ synced' = synced \/ synced' = Len(log)
            /\ tm' = tm \/ ~tm'.valid
        BY <1>d, <2>1 DEF FlushAcceptedEvidence
      <3>2. QED
        BY <3>1, QuietAdmission
    <2>2. ASSUME NEW seq \in tm.bounds, Publish(seq)
          PROVE  Admission'
      BY <2>2, QuietAdmission DEF Publish
    <2>3. ASSUME NEW seq \in tm.bounds, MarkApfsDurableThrough(seq)
          PROVE  Admission'
      BY <2>3, MarkApfsDurableThroughAdmits
    <2>4. ASSUME NEW seq \in tm.bounds, MarkCleanedThrough(seq)
          PROVE  Admission'
      BY <2>4, MarkCleanedThroughAdmits
    <2>5. CASE Reseed
      BY <2>5, ReseedAdmits
    <2>6. QED
      BY <1>2, <2>1, <2>2, <2>3, <2>4, <2>5 DEF Watermarks
  <1>3. ASSUME NEW t \in Thread, Waiting(t)
        PROVE  Admission'
    <2>1. CASE CheckDurability(t)
      BY <2>1, QuietAdmission DEF CheckDurability
    <2>2. CASE Notified(t)
      BY <2>2, QuietAdmission DEF Notified
    <2>3. CASE LockAppends(t)
      BY <2>3, QuietAdmission DEF LockAppends
    <2>4. CASE FlushPendingAppends(t)
      BY <2>4, QuietAdmission DEF FlushPendingAppends
    <2>5. CASE MarkDeferredAcceptanceDurabilityFailure(t)
      BY <1>d, <2>5, QuietAdmission DEF MarkDeferredAcceptanceDurabilityFailure
    <2>6. QED
      BY <1>3, <2>1, <2>2, <2>3, <2>4, <2>5 DEF Waiting
  <1>4. ASSUME NEW t \in Thread, FlushFails(t)
        PROVE  Admission'
    BY <1>4, QuietAdmission DEF FlushFails
  <1>5. ASSUME NEW t \in Thread, AcceptForDeferredCommit(t)
        PROVE  Admission'
    BY <1>5, AcceptForDeferredCommitAdmits
  <1>6. ASSUME NEW t \in Thread, WaitForExisting(t)
        PROVE  Admission'
    BY <1>6, QuietAdmission DEF WaitForExisting
  <1>7. CASE ReplayAll \/ Mount
    BY <1>7, QuietAdmission DEF ReplayAll, Mount
  <1>8. CASE ProcessEnds
    <2>1. Len(log) \in synced .. Len(log) /\ synced \in synced .. Len(log)
      BY <1>n
    <2>2. QED
      BY <1>8, <2>1, RestartAdmits DEF ProcessEnds
  <1>9. CASE PowerLoss
    <2>1. PICK n \in synced .. Len(log) : Restart(n, n)
      BY <1>9 DEF PowerLoss
    <2>2. n \in synced .. n
      BY <1>n
    <2>3. QED
      BY <2>1, <2>2, RestartAdmits
  <1>10. CASE UNCHANGED vars
    BY <1>10, QuietAdmission DEF vars
  <1>11. QED
    BY <1>1, <1>2, <1>3, <1>4, <1>5, <1>6, <1>7, <1>8, <1>9, <1>10 DEF Next

\* It holds initially.
LEMMA InitAdmits == Init => Admission
  <1> SUFFICES ASSUME Init PROVE Admission
    OBVIOUS
  <1>1. log = <<>> /\ Len(log) = 0 /\ tm = Fresh
    BY DEF Init
  <1>2. All = {} /\ Accepts = {}
    BY <1>1 DEF All, Elems, Accepts
  <1>3. /\ tm.st = "Idle" /\ tm.pending = <<>> /\ tm.buffered = <<>> /\ tm.nextSeq = 1
        /\ tm.accepted = 0
    BY <1>1 DEF Fresh
  <1>4. Low = 1 /\ First = 1
    BY <1>3 DEF Low, First
  <1>5. QED
    BY <1>2, <1>3, <1>4 DEF Admission, FloorInv, PassedInv, FirstInv

\* What a power loss can leave of the log has every durable record and no other than the log's.
LEMMA LeftBehind ==
    ASSUME IInv, NEW n \in synced .. Len(log), NEW l, l = SubSeq(log, 1, n)
    PROVE  /\ l \in Seq(Record) /\ Flushed \subseteq Elems(l) /\ Elems(l) \subseteq All
           /\ Below(Elems(l), MaxSequence)
  <1>1. log \in Seq(Record) /\ synced \in 0 .. Len(log) /\ Len(log) \in Nat /\ MaxSequence \in Nat
    BY NumbersTyped DEF IInv
  <1>2. n \in 0 .. Len(log) /\ 1 .. synced \subseteq 1 .. n /\ 1 .. n \subseteq 1 .. Len(log)
    BY <1>1
  <1>3. l \in Seq(Record) /\ Elems(l) = {log[i] : i \in 1 .. n}
    BY <1>1, <1>2, PrefixFacts
  <1>4. Flushed \subseteq Elems(l) /\ Elems(l) \subseteq All
    BY <1>2, <1>3 DEF Flushed, All, Elems
  <1>5. ASSUME NEW r \in All
        PROVE  /\ r \in Record /\ r.seq <= MaxSequence
               /\ r.kind \in {"Durable", "Cleaned"} => r.n <= MaxSequence
    <2>1. r \in Record /\ r.seq \in Nat /\ r.n \in Nat
      BY <1>1, RecordsTyped
    <2>2. RecordOK(r)
      BY DEF IInv, LogInv, RecordInv
    <2>3. r.seq <= MaxSequence /\ (r.kind \in {"Durable", "Cleaned"} => r.n < r.seq)
      BY <1>1, <2>2 DEF RecordOK
    <2>4. QED
      BY <1>1, <2>1, <2>3
  <1>6. Below(Elems(l), MaxSequence)
    BY <1>4, <1>5 DEF Below
  <1>7. QED
    BY <1>3, <1>4, <1>6

\* The floor of a log is that of one of its indexes.
LEMMA FloorOf ==
    ASSUME NEW l \in Seq(Record), NEW m \in Nat, Below(Elems(l), m), Floor(l) # 0
    PROVE  \E x \in Elems(l) : x.kind = "Index" /\ x.seq = Floor(l)
  <1> DEFINE S == {l[i].seq : i \in {j \in 1 .. Len(l) : l[j].kind = "Index"}}
  <1>1. Floor(l) = MaxOf(S)
    BY DEF Floor
  <1>2. S \subseteq Nat /\ \A x \in S : x <= m
    <2>1. \A i \in 1 .. Len(l) : l[i].seq \in Nat /\ l[i].seq <= m
      BY DEF Below, Elems, Record
    <2>2. QED
      BY <2>1
  <1> HIDE DEF S
  <1>3. S # {} => Floor(l) \in S
    BY <1>1, <1>2, MaxOfIs
  <1>4. S = {} => Floor(l) = 0
    BY <1>1, <1>2, MaxOfIs
  <1>5. Floor(l) \in S
    BY <1>3, <1>4
  <1>6. QED
    BY <1>5 DEF S, Elems

\* Where something accepted is outstanding, so is the last accepted transaction.
LEMMA LatestOutstanding ==
    ASSUME NEW l \in Seq(Record), NEW m \in Nat, Below(Elems(l), m), NEW b, b = Body(l), NEW d,
           d = DurableAt(b, Len(b)), AcceptedAt(b, Len(b)) > d
    PROVE  MaxOf({b[i].seq : i \in Unapplied(b)}) = AcceptedAt(b, Len(b))
  <1> DEFINE A == Seqs(b, Len(b), {"Accepted", "Committed"})
             U == {b[i].seq : i \in Unapplied(b)}
  <1>1. b \in Seq(Record) /\ Elems(b) = {r \in Elems(l) : r.kind # "Index"}
    BY BodyFacts
  <1>2. \A i \in 1 .. Len(b) : b[i] \in Elems(l) /\ b[i].seq \in Nat /\ b[i].seq <= m
    <2> TAKE i \in 1 .. Len(b)
    <2>1. PICK r : r = b[i]
      OBVIOUS
    <2>2. r \in Elems(b)
      BY <2>1 DEF Elems
    <2>3. r \in Elems(l) /\ r \in Record /\ r.seq <= m
      BY <1>1, <2>2 DEF Below
    <2>4. r.seq \in Nat
      BY <2>3 DEF Record
    <2>5. QED
      BY <2>1, <2>3, <2>4
  <1>3. A \subseteq Nat /\ \A x \in A : x <= m
    BY <1>2 DEF Seqs
  <1>4. PICK a : a = AcceptedAt(b, Len(b))
    OBVIOUS
  <1>5. a = MaxOf(A)
    BY <1>4 DEF AcceptedAt
  <1>6. U \subseteq A
    BY DEF Unapplied, Seqs
  <1>7. /\ d \in Nat
        /\ \A r \in Elems(l) : r.kind = "Committed" => r.seq <= d
    BY DurableFacts
  <1>8. A # {} => a \in U
    <2> SUFFICES ASSUME A # {} PROVE a \in U
      OBVIOUS
    <2> HIDE DEF A
    <2>1. a \in A
      BY <1>3, <1>5, MaxOfIs
    <2>2. PICK k \in 1 .. Len(b) : b[k].kind \in {"Accepted", "Committed"} /\ b[k].seq = a
      BY <2>1 DEF A, Seqs
    <2>3. a > d /\ a \in Nat
      BY <1>2, <1>4, <2>2
    <2>4. b[k].kind = "Accepted"
      BY <1>2, <1>7, <2>2, <2>3
    <2>5. k \in Unapplied(b)
      BY <2>2, <2>3, <2>4 DEF Unapplied
    <2>6. QED
      BY <2>2, <2>5
  <1> HIDE DEF A, U
  <1>9. A # {}
    <2>1. A = {} => a = 0
      BY <1>3, <1>5, MaxOfIs
    <2>2. QED
      BY <1>4, <1>7, <2>1
  <1>10. a \in Nat /\ \A x \in A : x <= a
    BY <1>3, <1>5, MaxOfIs
  <1>11. U \subseteq Nat /\ (\A x \in U : x <= a) /\ a \in U
    BY <1>3, <1>6, <1>8, <1>9, <1>10
  <1>12. MaxOf(U) \in Nat /\ MaxOf(U) <= a /\ \A x \in U : x <= MaxOf(U)
    BY <1>10, <1>11, MaxOfIs
  <1>13. MaxOf(U) = a
    BY <1>10, <1>11, <1>12
  <1>14. QED
    BY <1>4, <1>13 DEF U

\* What a power loss can leave of the log is complete, if the start admits it.
LEMMA AdmittedIsComplete ==
    ASSUME IInv, Admission, NEW n \in synced .. Len(log), NEW l, l = SubSeq(log, 1, n), SeedValid(l)
    PROVE  Complete(l)
  <1>n. MaxSequence \in Nat /\ log \in Seq(Record) /\ synced \in 0 .. Len(log)
    BY NumbersTyped DEF IInv
  <1>1. /\ l \in Seq(Record) /\ Flushed \subseteq Elems(l) /\ Elems(l) \subseteq All
        /\ Below(Elems(l), MaxSequence)
    BY LeftBehind
  <1>b. PICK b : b = Body(l)
    OBVIOUS
  <1>d. PICK d : d = DurableAt(b, Len(b))
    OBVIOUS
  <1>2. b \in Seq(Record) /\ Elems(b) = {r \in Elems(l) : r.kind # "Index"}
    BY <1>b, <1>1, BodyFacts
  <1>3. /\ d \in Nat
        /\ \A r \in Elems(l) : /\ r.kind = "Committed" => r.seq <= d
                               /\ r.kind = "Durable" => r.n <= d
    BY <1>n, <1>b, <1>d, <1>1, DurableFacts
  <1>4. ASSUME NEW i \in Unapplied(b)
        PROVE  PreparedBefore(b, i) = b[i].n /\ b[i].n # 0
    <2>1. i \in 1 .. Len(b) /\ b[i].kind = "Accepted" /\ b[i].seq > d
      BY <1>d DEF Unapplied
    <2>2. PICK r : r = b[i]
      OBVIOUS
    <2>3. r \in Elems(l) /\ r \in All /\ r \in Accepts
      BY <1>1, <1>2, <2>1, <2>2 DEF Elems, Accepts
    <2>4. r.seq \in Nat /\ r.seq >= 2
      BY <1>n, <2>3, RecordsTyped DEF Admission, FloorInv
    <2>5. r.seq # Floor(l)
      <3> SUFFICES ASSUME r.seq = Floor(l) PROVE FALSE
        OBVIOUS
      <3>1. Floor(l) # 0
        BY <2>4
      <3>2. PICK x \in Elems(l) : x.kind = "Index" /\ x.seq = Floor(l)
        BY <1>n, <1>1, <3>1, FloorOf
      <3>3. PICK q \in Flushed : Passed(q, r)
        BY <1>1, <2>3, <3>2 DEF Admission, FloorInv
      <3>4. q \in Elems(l) /\ q \in All /\ q.seq \in Nat /\ q.n \in Nat
        BY <1>n, <1>1, <3>3, RecordsTyped
      <3>5. r.seq <= d
        BY <1>3, <2>4, <3>3, <3>4 DEF Passed
      <3>6. QED
        BY <1>3, <2>1, <2>2, <2>4, <3>5
    <2>6. MarkerValid(b, i, Floor(l))
      BY <1>b, <2>1 DEF SeedValid, ValidateWalSemantics, Marker
    <2>7. QED
      BY <2>1, <2>2, <2>5, <2>6 DEF MarkerValid
  <1>5. AcceptedAt(b, Len(b)) > DurableAt(b, Len(b)) =>
            MaxOf({b[i].seq : i \in Unapplied(b)}) = AcceptedAt(b, Len(b))
    BY <1>n, <1>1, <1>b, LatestOutstanding
  <1>6. QED
    BY <1>4, <1>5, <1>b DEF Complete

\* What was acknowledged is still in the log after a power loss.
LEMMA AcknowledgedOutstanding ==
    ASSUME IInv, NEW n \in synced .. Len(log), NEW a \in acked \ published
    PROVE  a \in Outstanding(SubSeq(log, 1, n))
  <1>1. PICK l : l = SubSeq(log, 1, n)
    OBVIOUS
  <1>2. /\ l \in Seq(Record) /\ Flushed \subseteq Elems(l) /\ Elems(l) \subseteq All
        /\ Below(Elems(l), MaxSequence)
    BY <1>1, LeftBehind
  <1>3. PICK r \in Flushed : r.kind = "Accepted" /\ r.id = a
    BY DEF IInv, LogInv, AckedInv
  <1>4. r \in Open
    BY <1>2, <1>3 DEF Open, Accepts
  <1>5. \A q \in Elems(l) : Behind(q, r)
    BY <1>2, <1>4 DEF IInv, LogInv, OpenInv
  <1>6. r.seq >= 1
    <2>1. r.seq \in 1 .. MaxSequence
      BY <1>2, <1>3 DEF IInv, LogInv, RecordInv, RecordOK
    <2>2. QED
      BY <2>1, JournalAssumption
  <1>7. MaxSequence \in Nat
    BY JournalAssumption
  <1>8. r.id \in Outstanding(l)
    BY <1>2, <1>3, <1>5, <1>6, <1>7, OutstandingFacts
  <1>9. QED
    BY <1>1, <1>3, <1>8

\* And a start that admits the log replays it.
LEMMA AcknowledgedFollows == IInv /\ Admission => AcknowledgedSurvive
  <1> SUFFICES ASSUME IInv, Admission, NEW a \in acked \ published,
                      NEW n \in synced .. Len(log)
               PROVE  LET l == SubSeq(log, 1, n)
                      IN  a \in IF SeedValid(l) THEN Replayed(l) ELSE Outstanding(l)
    BY DEF AcknowledgedSurvive
  <1>1. PICK l : l = SubSeq(log, 1, n)
    OBVIOUS
  <1>2. a \in Outstanding(l)
    BY <1>1, AcknowledgedOutstanding
  <1>3. ASSUME SeedValid(l)
        PROVE  a \in Replayed(l)
    <2>1. Complete(l)
      BY <1>1, <1>3, AdmittedIsComplete
    <2>2. QED
      BY <1>2, <1>3, <2>1 DEF Replayed
  <1>4. QED
    BY <1>1, <1>2, <1>3

\* What was marked durable is not outstanding.
LEMMA MarkedFollows == IInv => MarkedStays
  <1> SUFFICES ASSUME IInv, NEW n \in synced .. Len(log),
                      NEW a \in Outstanding(SubSeq(log, 1, n)), a \in marked
               PROVE  FALSE
    BY DEF MarkedStays
  <1>1. PICK l : l = SubSeq(log, 1, n)
    OBVIOUS
  <1>2. /\ l \in Seq(Record) /\ Flushed \subseteq Elems(l) /\ Elems(l) \subseteq All
        /\ Below(Elems(l), MaxSequence) /\ MaxSequence \in Nat
    BY <1>1, LeftBehind, JournalAssumption
  <1>3. a \in Outstanding(l)
    BY <1>1
  <1>4. PICK r \in Elems(l) : /\ r.kind = "Accepted" /\ r.id = a
                              /\ \A w \in Elems(l) : w.kind = "Durable" => w.n < r.seq
    BY <1>2, <1>3, OutstandingFacts
  <1>5. r \in Accepts
    BY <1>2, <1>4 DEF Accepts
  <1>6. PICK w \in Flushed : Covers(w, r)
    BY <1>4, <1>5 DEF IInv, LogInv, MarkedInv
  <1>7. w.kind = "Durable" /\ w.n >= r.seq /\ w.n < r.seq
    BY <1>2, <1>4, <1>6 DEF Covers
  <1>8. r.seq \in Nat /\ w.n \in Nat
    <2>1. log \in Seq(Record) /\ synced \in 0 .. Len(log)
      BY NumbersTyped DEF IInv
    <2>2. QED
      BY <1>2, <1>4, <1>6, <2>1, RecordsTyped
  <1>9. QED
    BY <1>7, <1>8

(* The inductive invariant holds in every state of the journal.            *)
THEOREM JournalInvariant == Spec => []IInv
  <1>1. Init => IInv
    BY InitKeeps
  <1>2. IInv /\ [Next]_vars => IInv'
    BY NextKeeps
  <1>3. QED
    BY <1>1, <1>2, PTL DEF Spec

(* The manager, its log and its waiting threads stay within their types:   *)
(* among others, every sequence number handed out fits its bound and every *)
(* history set names transactions that were begun.                         *)
THEOREM JournalTypeCorrect == Spec => []TypeOK
  <1>1. IInv => TypeOK
    BY DEF IInv
  <1>2. QED
    BY <1>1, JournalInvariant, PTL

(* Both invariants hold in every state: no accept marker is at the floor   *)
(* of a compaction unless a record behind it says that its transaction is  *)
(* in a checkpoint.                                                        *)
THEOREM AdmissionInvariant == Spec => [](IInv /\ Admission)
  <1>1. Init => Admission
    BY InitAdmits
  <1>2. IInv /\ IInv' /\ Admission /\ [Next]_vars => Admission'
    BY NextAdmits
  <1>3. QED
    BY <1>1, <1>2, JournalInvariant, PTL DEF Spec

(* Whatever the power loss leaves of the log, every transaction that a     *)
(* client was told is durable and no checkpoint holds is in it, and a      *)
(* start that admits the log replays it with all its records: after any    *)
(* interleaving of direct and deferred acceptances, failed appends,        *)
(* compactions on retry, watermarks and restarts.                          *)
THEOREM AcknowledgedAreReplayed == Spec => []AcknowledgedSurvive
  <1>1. IInv /\ Admission => AcknowledgedSurvive
    BY AcknowledgedFollows
  <1>2. QED
    BY <1>1, AdmissionInvariant, PTL

(* A transaction reported as marked durable is never replayed again, even  *)
(* if a compaction drops records from the front of the log and a power     *)
(* loss records from its end.                                              *)
THEOREM MarkedAreNotReplayed == Spec => []MarkedStays
  <1>1. IInv => MarkedStays
    BY MarkedFollows
  <1>2. QED
    BY <1>1, JournalInvariant, PTL
=============================================================================
