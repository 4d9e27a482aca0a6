---------------------------- MODULE PayloadSpool ----------------------------
(* The payload spool of a mounted volume: the file that holds the bytes of   *)
(* writes until a checkpoint has them, and its index.  The host appends a    *)
(* write's bytes here before the journal record that refers to them, flushes *)
(* them before the record is accepted unless the record carries the bytes    *)
(* itself, and retires them once the checkpoint is marked durable.  A start  *)
(* rebuilds the index from the accepted records, and refuses to serve when   *)
(* it finds bytes that no record explains.                                   *)
(*                                                                           *)
(* A write fills one cell of the file, named by its place, 1, 2, ...  A      *)
(* payload is the number of its write, so equal numbers stand for equal      *)
(* digests.  An absent file is an empty one, which the code treats alike.    *)
(* The journal is a sequence: a record's sequence number is its place in it. *)
(* Every call to the file system may fail; with the default FailClosed       *)
(* policy the host then takes no more writes until it is started again.      *)
EXTENDS Integers, Sequences, FiniteSets, FiniteSetsExt, SequencesExt

CONSTANTS MaxWrites,   \* writes in a behaviour
          Threshold,   \* appends after which the spool is flushed
          Quota        \* cells the spool may hold

ASSUME SpoolBounds == {MaxWrites, Threshold, Quota} \subseteq Nat \ {0}

VARIABLES seen,      \* the files as the process reads them
          stable,    \* the files as a power loss would leave them at worst
          gone,      \* names removed, but not yet from stable storage
          spool,     \* the spool's memory
          buffered,  \* records of the open transaction
          log,       \* accepted records
          durable, cleaned,  \* the journal's watermarks
          published, \* records the newest checkpoint holds
          writes,    \* writes so far
          pc, task   \* the step the host is at, and what it is done for

files == <<seen, stable, gone>>
journal == <<log, durable, cleaned>>
control == <<pc, task>>
vars == <<files, spool, buffered, journal, published, writes, control>>

(* A cell of the file: the number of the write whose bytes it holds, less    *)
(* than zero when they are not all there, or the zeros of a gap.             *)
Gap == 0
Torn(cell) == IF cell > 0 THEN -cell ELSE cell
WriteOf(cell) == IF cell < 0 THEN -cell ELSE cell

NoIndex == [there |-> FALSE, torn |-> FALSE, ranges |-> {}, size |-> 0]

(* The spool's memory: the live ranges, the end of the file, the appends     *)
(* since the last flush; whether the index differs from the ranges, the      *)
(* ranges it lacks, whether it needs a snapshot, and whether the file has one.*)
Empty == [ranges |-> {}, next |-> 0, unsynced |-> 0,
          dirty |-> FALSE, pending |-> {}, snapshot |-> FALSE, started |-> FALSE]

Holds(file, r) == r.off <= Len(file) /\ file[r.off] = r.id

Ref(s) == [seq |-> s, off |-> log[s].off, id |-> log[s].id]

Unpublished == published + 1 .. Len(log)

-----------------------------------------------------------------------------
(* The file system.  Changes of the directory become durable in their order, *)
(* and before a later change of the journal does: a record found again after *)
(* a failed flush has them with it.                                          *)

Settled == [file |-> IF "file" \in gone THEN <<>> ELSE stable.file,
            index |-> IF "index" \in gone THEN NoIndex ELSE stable.index]

FlushLog == stable' = Settled /\ gone' = {}

FlushFile == stable' = [Settled EXCEPT !.file = seen.file] /\ gone' = {}

FlushIndex(index) == stable' = [Settled EXCEPT !.index = index] /\ gone' = {}

\* What a power loss leaves of a file that stable storage holds as old and
\* the process as new.
Survivors(old, new) ==
    LET short == Min({Len(old), Len(new)})
        long == Max({Len(old), Len(new)})
        CellOf(i) == IF i > Len(old) THEN {new[i], Torn(new[i])}
                     ELSE IF i > Len(new) THEN {old[i]} ELSE {old[i], new[i]}
    IN  UNION {{f \in [1 .. n -> -MaxWrites .. MaxWrites] : \A i \in 1 .. n : f[i] \in CellOf(i)} :
                  n \in short .. long}

IndexSurvivors(old, new) ==
    {old, new} \cup (IF old = new THEN {} ELSE {[old EXCEPT !.torn = TRUE]})

-----------------------------------------------------------------------------
Goto(at, for) == pc' = at /\ task' = for

Block == Goto("blocked", "none")

Init == /\ seen = [file |-> <<>>, index |-> NoIndex] /\ stable = seen /\ gone = {}
        /\ spool = Empty /\ buffered = <<>> /\ log = <<>>
        /\ durable = 0 /\ cleaned = 0 /\ published = 0 /\ writes = 0
        /\ pc = "serve" /\ task = "none"

\* A record may carry its payload unless one before it in the transaction does
\* not; payloads too large for the journal never do.
CanAddInlinePayload == \A i \in DOMAIN buffered : buffered[i].inline

Added == [seq |-> Len(log) + Len(buffered) + 1, off |-> spool.next + 1, id |-> writes + 1]

\* A write with room in the spool: its bytes, then its range, and at the
\* threshold the flush of both.
Write(inline) ==
    /\ pc = "serve" /\ writes < MaxWrites /\ spool.next < Quota
    /\ inline => CanAddInlinePayload
    /\ seen' = [seen EXCEPT !.file = Append(@, writes + 1)]
    /\ spool' = [spool EXCEPT !.ranges = @ \cup {Added}, !.next = @ + 1, !.unsynced = @ + 1,
                              !.dirty = TRUE,
                              !.pending = IF spool.snapshot THEN @ ELSE @ \cup {Added}]
    /\ writes' = writes + 1
    /\ IF spool.unsynced + 1 >= Threshold
       THEN Goto("flush", IF inline THEN "append inline" ELSE "append")
       ELSE Goto("record", IF inline THEN "append inline" ELSE "append")
    /\ UNCHANGED <<stable, gone, buffered, journal, published>>

\* The write to the file fails, and so may cutting it back.
WriteFails ==
    /\ pc = "serve" /\ writes < MaxWrites /\ spool.next < Quota
    /\ \E left \in {<<>>, <<Torn(writes + 1)>>} : seen' = [seen EXCEPT !.file = @ \o left]
    /\ writes' = writes + 1 /\ buffered' = <<>> /\ Block
    /\ UNCHANGED <<stable, gone, spool, journal, published>>

RecordMutation ==
    /\ pc = "record"
    /\ buffered' = Append(buffered, [off |-> spool.next, id |-> writes,
                                     inline |-> task = "append inline"])
    /\ Goto("serve", "none")
    /\ UNCHANGED <<files, spool, journal, published, writes>>

\* The record is refused: its sequence is discarded from the spool.
RecordFails ==
    /\ pc = "record"
    /\ buffered' = <<>> /\ Goto("flush", "discard")
    /\ UNCHANGED <<files, spool, journal, published, writes>>

-----------------------------------------------------------------------------
(* Flushing: the payload, then the index, as a new file or as a frame that   *)
(* is appended and flushed.                                                  *)

Served(for) == CASE for \in {"append", "append inline"} -> "record"
                 [] for = "accept" -> "log"
                 [] for = "drain" -> "log"
                 [] for = "final" -> "mark"
                 [] for = "clean" -> "cleaned"
                 [] for = "discard" -> "discard"
                 [] for = "discarded" -> "blocked"

PayloadOnly(for) == for \in {"accept", "drain"}

FlushPayloadBytes ==
    /\ pc = "flush"
    /\ IF spool.unsynced = 0 THEN UNCHANGED files ELSE FlushFile /\ seen' = seen
    /\ spool' = [spool EXCEPT !.unsynced = 0]
    /\ IF PayloadOnly(task) THEN Goto(Served(task), task) ELSE Goto("index", task)
    /\ UNCHANGED <<buffered, journal, published, writes>>

NewIndex ==
    [there |-> TRUE, size |-> spool.next,
     torn |-> spool.started /\ (seen.index.torn \/ ~seen.index.there),
     ranges |-> IF spool.started /\ ~spool.snapshot /\ spool.pending # {}
                THEN seen.index.ranges \cup spool.pending ELSE spool.ranges]

Indexed == [spool EXCEPT !.dirty = FALSE, !.pending = {}, !.snapshot = FALSE, !.started = TRUE]

PersistIndex ==
    /\ pc = "index"
    /\ \/ ~spool.dirty /\ UNCHANGED <<files, spool>> /\ Goto(Served(task), task)
       \/ /\ spool.dirty /\ ~spool.started
          /\ seen' = [seen EXCEPT !.index = NewIndex] /\ FlushIndex(NewIndex)
          /\ spool' = Indexed /\ Goto(Served(task), task)
       \/ /\ spool.dirty /\ spool.started
          /\ seen' = [seen EXCEPT !.index = NewIndex] /\ Goto("frame", task)
          /\ UNCHANGED <<stable, gone, spool>>
    /\ UNCHANGED <<buffered, journal, published, writes>>

FlushFrame ==
    /\ pc = "frame"
    /\ FlushIndex(seen.index) /\ seen' = seen
    /\ spool' = Indexed /\ Goto(Served(task), task)
    /\ UNCHANGED <<buffered, journal, published, writes>>

\* What a frame that could not be appended and flushed leaves of the index x.
FrameLeft(x) ==
    IF pc = "index" /\ spool.dirty /\ spool.started THEN IndexSurvivors(x, NewIndex) ELSE {x}

\* A failed append is cut off the file again, and a failed frame off the index,
\* but that is not flushed and may fail too.  A finalization that cannot flush
\* is tried again by the next drain; every other failure blocks, and so does an
\* index that could not be cut.
FlushFails ==
    /\ pc \in {"flush", "index"}
    /\ \E file \in {seen.file} \cup (IF Served(task) = "record" THEN {Front(seen.file)} ELSE {}),
          index \in FrameLeft(seen.index), kept \in FrameLeft(stable.index) :
          /\ seen' = [file |-> file, index |-> index]
          /\ stable' = [stable EXCEPT !.index = kept]
          /\ IF task = "final" /\ index = seen.index THEN Goto("serve", "none") ELSE Block
    /\ buffered' = <<>>
    /\ UNCHANGED <<gone, spool, journal, published, writes>>

-----------------------------------------------------------------------------
(* Acceptance, commit and finalization.                                      *)

\* Seeded fault: one record with its payload is enough.
AcceptsIfAnyInline(records) == \E i \in DOMAIN records : records[i].inline

CanAcceptWithoutPayloadSpoolFlush(records) == \A i \in DOMAIN records : records[i].inline

Accepting(for) ==
    Goto(IF CanAcceptWithoutPayloadSpoolFlush(buffered) THEN "log" ELSE "flush", for)

AcceptMutationJournal ==
    /\ pc = "serve" /\ buffered # <<>>
    /\ Accepting("accept")
    /\ UNCHANGED <<files, spool, buffered, journal, published, writes>>

\* A drain, of the worker or of a write that finds the spool full, accepts
\* what is buffered first.
Drain ==
    /\ pc = "serve" /\ (buffered # <<>> \/ durable < Len(log))
    /\ IF buffered # <<>> THEN Accepting("drain") ELSE Goto("commit", "drain")
    /\ UNCHANGED <<files, spool, buffered, journal, published, writes>>

AppendAccepted ==
    /\ pc = "log"
    /\ log' = log \o buffered /\ buffered' = <<>>
    /\ FlushLog
    /\ IF task = "drain" THEN Goto("commit", "drain") ELSE Goto("serve", "none")
    /\ UNCHANGED <<seen, spool, durable, cleaned, published, writes>>

\* The journal reports a failure, with the records in it or not.
AcceptFails ==
    /\ pc = "log"
    /\ buffered' = <<>> /\ Block
    /\ \/ UNCHANGED <<log, stable, gone>>
       \/ log' = log \o buffered /\ FlushLog
    /\ UNCHANGED <<seen, spool, durable, cleaned, published, writes>>

\* The commit reads the payload of what it publishes through the live ranges.
ReadPersistedRange(s) == Ref(s) \in spool.ranges /\ Holds(seen.file, Ref(s))

CommitApfs ==
    /\ pc = "commit" /\ \A s \in Unpublished : ReadPersistedRange(s)
    /\ published' = Len(log)
    /\ Goto(IF task = "replay" THEN "mark" ELSE "final", task)
    /\ UNCHANGED <<files, spool, buffered, journal, writes>>

\* The commit is refused, or interrupted after the checkpoint was selected.
CommitFails ==
    /\ pc = "commit"
    /\ \/ UNCHANGED published
       \/ (\A s \in Unpublished : ReadPersistedRange(s)) /\ published' = Len(log)
    /\ Block
    /\ UNCHANGED <<files, spool, buffered, journal, writes>>

CanFinalizeWithoutPayloadSpoolFlush ==
    durable < Len(log) /\ \A s \in durable + 1 .. Len(log) : log[s].inline

FinalizeMutationJournal ==
    /\ pc = "final"
    /\ Goto(IF CanFinalizeWithoutPayloadSpoolFlush THEN "mark" ELSE "flush", "final")
    /\ UNCHANGED <<files, spool, buffered, journal, published, writes>>

MarkApfsDurableThrough ==
    /\ pc = "mark"
    /\ durable' = Len(log) /\ FlushLog
    /\ Goto("clean", "clean")
    /\ UNCHANGED <<seen, spool, buffered, log, cleaned, published, writes>>

\* The mark of a finalization, or that of the prefix a start has verified.
MarkFails ==
    /\ pc \in {"mark", "prefix"}
    /\ Block
    /\ \/ UNCHANGED <<durable, stable, gone>>
       \/ durable' = Max({durable, published}) /\ FlushLog
    /\ UNCHANGED <<seen, spool, buffered, log, cleaned, published, writes>>

-----------------------------------------------------------------------------
(* Retirement of ranges.                                                     *)

\* Seeded fault: the range of the last sequence stays.
LiveAtOrAbove(sequence) == {r \in spool.ranges : r.seq >= sequence}

LiveAfter(sequence) == {r \in spool.ranges : r.seq > sequence}

\* With live ranges the offsets stay and only the index is written; without
\* any, both files are removed.
Keep(live, for) ==
    IF live = {} THEN Goto("unlink", for) /\ UNCHANGED spool
    ELSE /\ Goto(IF for = "clean" THEN "flush" ELSE "index", for)
         /\ spool' = [spool EXCEPT !.ranges = live, !.dirty = TRUE, !.pending = {}]

CleanupThroughSequence ==
    /\ pc = "clean"
    /\ IF LiveAfter(durable) = spool.ranges
       THEN Goto("cleaned", "clean") /\ UNCHANGED spool
       ELSE Keep(LiveAfter(durable), "clean")
    /\ UNCHANGED <<files, buffered, journal, published, writes>>

DiscardSequence ==
    /\ pc = "discard"
    /\ Keep({r \in spool.ranges : r.id # writes}, "discarded")
    /\ UNCHANGED <<files, buffered, journal, published, writes>>

UnlinkIndex ==
    /\ pc = "unlink"
    /\ seen' = [seen EXCEPT !.index = NoIndex]
    /\ gone' = IF seen.index.there THEN gone \cup {"index"} ELSE gone
    /\ Goto("remove", task)
    /\ UNCHANGED <<stable, spool, buffered, journal, published, writes>>

\* What had reached stable storage before the file went is chosen here: of its
\* bytes, and of the removal of a file of the same name before it.
RemoveFile ==
    /\ pc = "remove"
    /\ seen' = [seen EXCEPT !.file = <<>>]
    /\ \/ /\ "file" \notin gone /\ gone' = gone \cup {"file"}
          /\ \E f \in Survivors(stable.file, seen.file) : stable' = [stable EXCEPT !.file = f]
       \/ "file" \in gone /\ UNCHANGED <<stable, gone>>
       \/ /\ "file" \in gone /\ gone' = {"file"}
          /\ \E f \in Survivors(<<>>, seen.file) : stable' = [Settled EXCEPT !.file = f]
    /\ spool' = Empty
    /\ CASE task = "rebuild" -> Goto("prefix", "none")
         [] task = "resolve" -> Goto("serve", "none")
         [] OTHER -> Goto(Served(task), task)
    /\ UNCHANGED <<buffered, journal, published, writes>>

RemovalFails ==
    /\ pc \in {"unlink", "remove"} /\ Block
    /\ UNCHANGED <<files, spool, buffered, journal, published, writes>>

\* A prefix is retired at startup before the rest is replayed.
MarkCleanedThrough ==
    /\ pc = "cleaned"
    /\ cleaned' = durable /\ FlushLog
    /\ Goto(IF durable < Len(log) THEN "restore" ELSE "serve", "none")
    /\ UNCHANGED <<seen, spool, buffered, log, durable, published, writes>>

MarkCleanedFails ==
    /\ pc = "cleaned"
    /\ Block
    /\ \/ UNCHANGED <<cleaned, stable, gone>>
       \/ cleaned' = durable /\ FlushLog
    /\ UNCHANGED <<seen, spool, buffered, log, durable, published, writes>>

-----------------------------------------------------------------------------
(* Startup.                                                                  *)

LoadsIndex == /\ seen.index.there /\ ~seen.index.torn
              /\ seen.index.size <= Len(seen.file)
              /\ \A r \in seen.index.ranges : Holds(seen.file, r)

Loaded == [Empty EXCEPT !.next = Len(seen.file),
                        !.ranges = IF LoadsIndex THEN seen.index.ranges ELSE {},
                        !.started = LoadsIndex]

RecoveryRequired == (seen.index.there /\ ~LoadsIndex) \/ Loaded.ranges # {} \/ Loaded.next # 0

RecoveryPending == durable < Len(log) \/ cleaned < durable

\* The constructor reads the index; what follows depends on the journal.
LoadIndex ==
    /\ pc = "down"
    /\ spool' = Loaded
    /\ Goto(IF RecoveryPending THEN IF RecoveryRequired THEN "rebuild" ELSE "prefix"
            ELSE IF RecoveryRequired THEN "resolve" ELSE "serve", "none")
    /\ UNCHANGED <<files, buffered, journal, published, writes>>

\* Seeded fault: a record that carries its payload needs the spool's copy too.
DiscardableDurable == {s \in cleaned + 1 .. Len(log) : s <= durable}

\* Records whose bytes the spool need not keep.
Discardable == {s \in cleaned + 1 .. Len(log) : log[s].inline \/ s <= durable}

References == {Ref(s) : s \in (cleaned + 1 .. Len(log)) \ Discardable}

\* Every range the index holds is that of a record.
Explained(r) ==
    \/ r.seq <= durable
    \/ r.seq \in cleaned + 1 .. Len(log) /\ Ref(r.seq) = r

TailAccountedFor ==
    \/ spool.next = 0
    \/ References # {} /\ Max({r.off : r \in References}) = spool.next
    \/ \E s \in Discardable : spool.next \in {log[s].off - 1, log[s].off}

RebuildComplete == /\ \A r \in References : Holds(seen.file, r)
                   /\ \A r \in spool.ranges : Explained(r)
                   /\ TailAccountedFor

RebuildIndexFromReferences ==
    /\ pc = "rebuild" /\ RebuildComplete
    /\ IF References = {} /\ Discardable # {}
       THEN Goto("unlink", "rebuild") /\ UNCHANGED spool
       ELSE /\ Goto("prefix", "none")
            /\ spool' = [spool EXCEPT !.ranges = References, !.dirty = TRUE,
                                      !.snapshot = TRUE, !.pending = {}]
    /\ UNCHANGED <<files, buffered, journal, published, writes>>

RebuildRefused ==
    /\ pc = "rebuild" /\ ~RebuildComplete /\ Goto("refused", "none")
    /\ UNCHANGED <<files, spool, buffered, journal, published, writes>>

\* Without accepted work, bytes that never had an index are dropped.
ResolveUnindexedPayload ==
    /\ pc = "resolve"
    /\ IF spool.ranges = {} /\ spool.next # 0 /\ ~seen.index.there
       THEN Goto("remove", "resolve") ELSE Goto("refused", "none")
    /\ UNCHANGED <<files, spool, buffered, journal, published, writes>>

\* Records the checkpoint is proved to hold are marked before the replay.
MarkVerifiedPrefix ==
    /\ pc = "prefix"
    /\ durable' = Max({durable, published})
    /\ IF published > durable THEN FlushLog ELSE UNCHANGED <<stable, gone>>
    /\ IF cleaned < durable' THEN Goto("clean", "clean") ELSE Goto("restore", "none")
    /\ UNCHANGED <<seen, spool, buffered, log, cleaned, published, writes>>

ToRestore == {s \in Unpublished : log[s].inline /\ Ref(s) \notin spool.ranges}

Unreadable == {s \in Unpublished : ~log[s].inline /\ ~ReadPersistedRange(s)}

Clashes(s) == \E r \in spool.ranges : r # Ref(s) /\ (r.seq = s \/ r.off = log[s].off)

\* The next inline payload is put back at its offset unless it is there.
RestoreInlineRange ==
    /\ pc = "restore" /\ ToRestore # {} /\ Unreadable = {}
    /\ LET s == Min(ToRestore)
           off == log[s].off
           end == Max({Len(seen.file), off})
       IN  /\ ~Clashes(s)
           /\ seen' = [seen EXCEPT !.file =
                         [i \in 1 .. end |-> IF i = off THEN log[s].id
                                             ELSE IF i <= Len(@) THEN @[i] ELSE Gap]]
           /\ spool' = [spool EXCEPT !.ranges = @ \cup {Ref(s)}, !.next = Max({@, off}),
                                     !.dirty = TRUE, !.snapshot = TRUE, !.pending = {}]
           /\ Goto(IF Holds(seen.file, Ref(s)) THEN "restore" ELSE "restored", "none")
    /\ UNCHANGED <<stable, gone, buffered, journal, published, writes>>

FlushRestored ==
    /\ pc = "restored" /\ FlushFile /\ Goto("restore", "none")
    /\ UNCHANGED <<seen, spool, buffered, journal, published, writes>>

Replay ==
    /\ pc = "restore" /\ ToRestore = {} /\ Unreadable = {} /\ Goto("commit", "replay")
    /\ UNCHANGED <<files, spool, buffered, journal, published, writes>>

\* A payload cannot be read or put back.
ReplayFails ==
    /\ pc \in {"restore", "restored"} /\ Block
    /\ UNCHANGED <<files, spool, buffered, journal, published, writes>>

-----------------------------------------------------------------------------
(* The process is killed, or the power goes.                                 *)

Lose == spool' = Empty /\ buffered' = <<>> /\ Goto("down", "none")

Kill ==
    /\ pc # "down" /\ Lose
    /\ UNCHANGED <<files, journal, published, writes>>

PowerLoss ==
    /\ pc # "down" /\ Lose
    /\ \E kept \in {{}, gone \ {"file"}, gone} :
       \E file \in IF gone \ kept = {} \/ "file" \notin gone
                   THEN Survivors(IF "file" \in kept THEN <<>> ELSE stable.file, seen.file)
                   ELSE {stable.file} :
       \E index \in IF "index" \in gone \ kept THEN {stable.index}
                    ELSE IF "index" \in kept THEN {NoIndex}
                    ELSE IndexSurvivors(stable.index, seen.index) :
          stable' = [file |-> file, index |-> index]
    /\ seen' = stable' /\ gone' = {}
    /\ UNCHANGED <<journal, published, writes>>

Next ==
    \/ \E inline \in BOOLEAN : Write(inline)
    \/ WriteFails \/ RecordMutation \/ RecordFails
    \/ FlushPayloadBytes \/ PersistIndex \/ FlushFrame \/ FlushFails
    \/ AcceptMutationJournal \/ Drain \/ AppendAccepted \/ AcceptFails
    \/ CommitApfs \/ CommitFails \/ FinalizeMutationJournal
    \/ MarkApfsDurableThrough \/ MarkFails
    \/ CleanupThroughSequence \/ DiscardSequence \/ UnlinkIndex \/ RemoveFile \/ RemovalFails
    \/ MarkCleanedThrough \/ MarkCleanedFails
    \/ LoadIndex \/ RebuildIndexFromReferences \/ RebuildRefused \/ ResolveUnindexedPayload
    \/ MarkVerifiedPrefix \/ RestoreInlineRange \/ FlushRestored \/ Replay \/ ReplayFails
    \/ Kill \/ PowerLoss

Spec == Init /\ [][Next]_vars

-----------------------------------------------------------------------------
(* The payload of an accepted record is available until a checkpoint holds   *)
(* it: a record that does not carry it finds it at its offset on stable      *)
(* storage, whatever power loss, cleanup or recovery came in between, and a  *)
(* serving host can read it through a live range, as its commit will have to.*)
PayloadKept ==
    /\ \A s \in Unpublished :
          ~log[s].inline => Holds(stable.file, Ref(s)) /\ Holds(seen.file, Ref(s))
    /\ pc \in {"serve", "commit"} => \A s \in Unpublished : ReadPersistedRange(s)

(* A start refuses to serve only over bytes or ranges of a write that was    *)
(* never accepted, or where the file ends inside a gap: the power went while *)
(* a payload was put back behind the places of records cleaned before.       *)
RefusedOnlyIfUnaccepted ==
    pc = "refused" =>
        \/ \E i \in DOMAIN seen.file :
              seen.file[i] # Gap /\ \A s \in DOMAIN log : log[s].id # WriteOf(seen.file[i])
        \/ \E r \in seen.index.ranges : \A s \in DOMAIN log : Ref(s) # r
        \/ seen.file # <<>> /\ Last(seen.file) = Gap

(* A host that owes nothing has an empty spool: the quota drain of a write   *)
(* that finds the spool full always makes room, and no start finds leftovers *)
(* of finished work.                                                         *)
NothingLeftBehind ==
    pc = "serve" /\ buffered = <<>> /\ cleaned = Len(log) =>
        seen = [file |-> <<>>, index |-> NoIndex] /\ spool = Empty
=============================================================================
