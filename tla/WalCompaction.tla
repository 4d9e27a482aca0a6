---------------------------- MODULE WalCompaction ----------------------------
(***************************************************************************)
(* The write-ahead log of one volume: opening it, appending, flushing and  *)
(* the crash-safe compaction that replaces its file, with the intent file  *)
(* that lets a later opening finish or undo a compaction.                  *)
(*                                                                         *)
(* The directory is what makes it hard.  A name that was created, linked,  *)
(* unlinked or renamed is visible at once and durable only after the       *)
(* directory was flushed; a power loss keeps a prefix of the changes.  So  *)
(* dirs is the sequence of directory states since the last flush, the last *)
(* of which is the visible one.  A log file likewise has data and a        *)
(* durable prefix of it.  The process can stop between any two calls.      *)
(*                                                                         *)
(* A record of the log is its number; Torn is a frame that is cut short.   *)
(***************************************************************************)
EXTENDS Naturals, Sequences, FiniteSets

CONSTANTS
    MaxFiles,      \* bound: files ever created in the directory
    MaxRecords,    \* bound: records ever appended
    MaxFaults,     \* bound: calls to the file system that fail
    MaxCrashes     \* bound: times the process or the power goes

ASSUME WalAssumption ==
    /\ MaxFiles \in Nat \ {0} /\ MaxRecords \in Nat
    /\ MaxFaults \in Nat /\ MaxCrashes \in Nat

VARIABLES
    dirs,       \* directory states since the last flush, oldest first
    wal,        \* contents of the log files
    intents,    \* contents of the intent files
    files,      \* number of files created so far
    pc,         \* the next call of the operation in progress
    goal,       \* what resolving the intent is part of
    want,       \* the intent state being persisted
    after,      \* where to go once it is persisted or cleared
    handle,     \* append_handle_, or NoFile
    pred, repl, \* the files of the compaction in progress
    written,    \* number of records appended so far
    acked,      \* records whose flush succeeded
    floor,      \* minimum_sequence_to_keep of the last compaction
    result,     \* the last CompactionResult
    before,     \* the log file when that compaction began
    faults, crashes

disk  == <<dirs, wal, intents, files>>
proc  == <<goal, want, after, handle, pred, repl>>
hist  == <<written, acked, floor, result, before>>
bound == <<faults, crashes>>
vars  == <<disk, pc, proc, hist, bound>>

NoFile == 0
Torn   == 0
File   == 1 .. MaxFiles
Dir    == [wal : File \cup {NoFile}, intent : File \cup {NoFile},
           guards : SUBSET File, temps : SUBSET File]
State  == {"Prepared", "PublishArmed", "Checkpointed", "CleanupArmed",
           "Cleaned", "NamespaceDurable"}
Intent == [st : State, pred : File, repl : File]
Result == {"None", "Succeeded", "RejectedBeforeWrite", "BytesMayHavePersisted"}
Goal   == {"open", "reopened", "clear", "build", "rollback", "undo", "finish"}
Step   == {"closed", "restoreFlush", "orphans", "orphansFlush", "inspect", "ready",
           "persist", "persistFlush", "persistRename", "persistDirFlush",
           "clearIntent", "clearFlush", "resolve", "resolving", "resolved",
           "rollbackFlush", "retained", "retainedFlush", "tombstone",
           "tombstoneFlush", "temp", "link", "linkFlush", "arm", "unlink",
           "unlinkFlush", "rename", "renameFlush", "reopen", "abandon",
           "abandonFlush", "failed", "refused"}

Cur        == dirs[Len(dirs)]
Last(s)    == s[Len(s)]
Links(f)   == Cardinality({n \in {"wal", "guard", "temp"} :
                  \/ n = "wal" /\ Cur.wal = f
                  \/ n = "guard" /\ f \in Cur.guards
                  \/ n = "temp" /\ f \in Cur.temps})
Items(f)   == {wal[f].data[i] : i \in 1 .. Len(wal[f].data)} \ {Torn}
Pending    == Cur.intent # NoFile

(* ReadLatestCompactionIntent: the last complete record of the history.    *)
Latest     == Last(intents[Cur.intent])

(* A frame cut short at the end is recovered; inside the log it is damage. *)
Decodes(f) == \A i \in 1 .. Len(wal[f].data) :
                  wal[f].data[i] = Torn => i = Len(wal[f].data)
TornTail(f) == wal[f].data # <<>> /\ Last(wal[f].data) = Torn

---------------------------------------------------------------------------
(* The file system.                                                        *)

Change(d)   == dirs' = Append(dirs, d)
DirFlush    == dirs' = <<Cur>>

Named(d, f) == d.wal = f \/ d.intent = f \/ f \in d.guards \/ f \in d.temps
FirstNamed(f) == CHOOSE i \in 1 .. Len(dirs) :
                     /\ Named(dirs[i], f)
                     /\ \A j \in 1 .. i - 1 : ~Named(dirs[j], f)

(* FlushFileBuffers on a file: its data, and the creation of its name.     *)
FlushFile(f) ==
    /\ wal' = [wal EXCEPT ![f].dur = Len(wal[f].data)]
    /\ dirs' = SubSeq(dirs, FirstNamed(f), Len(dirs))

NewFile == files + 1
Create  == files < MaxFiles /\ files' = NewFile

Durable(s) == [data |-> s, dur |-> Len(s)]

(* IsValidCompactionIntentTransition.                                      *)
ValidTransition(a, b) ==
    /\ a.pred = b.pred /\ a.repl = b.repl
    /\ <<a.st, b.st>> \in
         {<<"Prepared", "PublishArmed">>, <<"Prepared", "Checkpointed">>,
          <<"PublishArmed", "Checkpointed">>, <<"Checkpointed", "CleanupArmed">>,
          <<"CleanupArmed", "Cleaned">>, <<"Cleaned", "NamespaceDurable">>}

---------------------------------------------------------------------------
Init ==
    /\ dirs = <<[wal |-> NoFile, intent |-> NoFile, guards |-> {}, temps |-> {}]>>
    /\ wal = [f \in File |-> Durable(<<>>)]
    /\ intents = [f \in File |-> <<>>]
    /\ files = 0
    /\ pc = "closed" /\ goal = "open" /\ want = "Prepared" /\ after = "closed"
    /\ handle = NoFile /\ pred = NoFile /\ repl = NoFile
    /\ written = 0 /\ acked = {} /\ floor = 1
    /\ result = "None" /\ before = NoFile
    /\ faults = 0 /\ crashes = 0

Goto(p, q) == pc = p /\ pc' = q

---------------------------------------------------------------------------
(* EnsureAppendHandle.                                                     *)

OpenExisting ==
    /\ pc = "closed" /\ Cur.wal # NoFile
    /\ pc' = IF Decodes(Cur.wal) /\ (Pending \/ Links(Cur.wal) = 1)
             THEN "orphans" ELSE "refused"
    /\ handle' = Cur.wal
    /\ goal' = "open"
    /\ UNCHANGED <<disk, want, after, pred, repl, hist, bound>>

CreateNew ==
    /\ Goto("closed", "orphans") /\ Cur.wal = NoFile /\ ~Pending
    /\ Create /\ handle' = NewFile
    /\ Change([Cur EXCEPT !.wal = NewFile])
    /\ goal' = "open" /\ result' = "None"
    /\ UNCHANGED <<wal, intents, want, after, pred, repl, written, acked, floor,
                   before, bound>>

(* RestoreMissingCanonicalForPublishArmedIntent: the guard becomes the log *)
(* again.                                                                  *)
CanRestore == /\ Latest.st = "PublishArmed" /\ Latest.pred \in Cur.guards
              /\ Links(Latest.pred) = 1

RestoreMissingCanonical ==
    /\ pc = "closed" /\ Cur.wal = NoFile /\ Pending
    /\ IF CanRestore
       THEN /\ pc' = "restoreFlush"
            /\ Change([Cur EXCEPT !.wal = Latest.pred,
                                  !.guards = @ \ {Latest.pred}])
       ELSE pc' = "refused" /\ UNCHANGED dirs
    /\ UNCHANGED <<wal, intents, files, proc, hist, bound>>

RestoreFlush ==
    /\ Goto("restoreFlush", "closed")
    /\ DirFlush
    /\ UNCHANGED <<wal, intents, files, proc, hist, bound>>

(* CleanupPreIntentCompactionOrphans.                                      *)
AfterOrphans == IF goal = "reopened" THEN "inspect" ELSE "resolve"

NoOrphans ==
    /\ Goto("orphans", AfterOrphans)
    /\ Pending \/ Cur.temps = {}
    /\ UNCHANGED <<disk, proc, hist, bound>>

CleanupOrphans ==
    /\ Goto("orphans", "orphansFlush") /\ ~Pending
    /\ \E f \in Cur.temps : Change([Cur EXCEPT !.temps = @ \ {f}])
    /\ UNCHANGED <<wal, intents, files, proc, hist, bound>>

OrphansFlush ==
    /\ Goto("orphansFlush", "orphans")
    /\ DirFlush
    /\ UNCHANGED <<wal, intents, files, proc, hist, bound>>

(* ReadAllWithExclusiveWriterLease: a torn tail is cut off before use.     *)
Inspect ==
    /\ pc = "inspect"
    /\ pc' = IF Links(handle) = 1 THEN "ready" ELSE "refused"
    /\ wal' = IF TornTail(handle)
              THEN [wal EXCEPT ![handle] = Durable(SubSeq(@.data, 1, Len(@.data) - 1))]
              ELSE wal
    /\ UNCHANGED <<dirs, intents, files, proc, hist, bound>>

---------------------------------------------------------------------------
(* PersistCompactionIntent(want), for the compaction that pred and repl    *)
(* name: appended to an existing intent file, or published as a new one.   *)
(* The file is opened for writing through: what was written is durable.    *)

Wanted == [st |-> want, pred |-> pred, repl |-> repl]

Persist(st, next) == /\ pc' = "persist" /\ want' = st /\ after' = next

PersistAppend ==
    /\ pc = "persist" /\ Pending
    /\ pc' = IF Latest = Wanted THEN after
             ELSE IF ValidTransition(Latest, Wanted) THEN "persistFlush" ELSE "refused"
    /\ intents' = IF pc' = "persistFlush"
                  THEN [intents EXCEPT ![Cur.intent] = Append(@, Wanted)] ELSE intents
    /\ UNCHANGED <<dirs, wal, files, proc, hist, bound>>

PersistFlush ==
    /\ Goto("persistFlush", after)
    /\ UNCHANGED <<disk, proc, hist, bound>>

PersistTemp ==
    /\ Goto("persist", "persistRename") /\ ~Pending
    /\ Create /\ intents' = [intents EXCEPT ![NewFile] = <<Wanted>>]
    /\ Change([Cur EXCEPT !.temps = @ \cup {NewFile}])
    /\ UNCHANGED <<wal, proc, hist, bound>>

PersistRename ==
    /\ Goto("persistRename", "persistDirFlush")
    /\ Change([Cur EXCEPT !.temps = @ \ {files}, !.intent = files])
    /\ UNCHANGED <<wal, intents, files, proc, hist, bound>>

PersistDirFlush ==
    /\ Goto("persistDirFlush", after)
    /\ DirFlush
    /\ UNCHANGED <<wal, intents, files, proc, hist, bound>>

---------------------------------------------------------------------------
(* ClearCompactionIntent(intent): the name goes, the directory is flushed. *)

ClearIntent ==
    /\ Goto("clearIntent", "clearFlush")
    /\ want' = IF Latest.st = "NamespaceDurable" THEN "Cleaned" ELSE Latest.st
    /\ Change([Cur EXCEPT !.intent = NoFile])
    /\ UNCHANGED <<wal, intents, files, goal, after, handle, pred, repl, hist, bound>>

ClearFlush ==
    /\ Goto("clearFlush", after)
    /\ DirFlush
    /\ UNCHANGED <<wal, intents, files, proc, hist, bound>>

(* The flush failed: the intent is published again, and the operation      *)
(* fails whatever comes of that.                                           *)
ClearRestored ==
    /\ pc = "clearFlush" /\ faults < MaxFaults
    /\ Persist(want, "failed")
    /\ faults' = faults + 1
    /\ UNCHANGED <<disk, goal, handle, pred, repl, hist, crashes>>

---------------------------------------------------------------------------
(* ResolvePendingCompactionIntent: finish or undo what the intent records. *)

Early      == Latest.st \in {"Prepared", "PublishArmed"}
IsPred     == handle = Latest.pred
IsRepl     == handle = Latest.repl
Guarded    == Latest.pred \in Cur.guards
Tombstone  == wal[Latest.pred].data = <<>>

(* What the intent's state, the current log and the guard must satisfy for *)
(* any of the steps below; otherwise the evidence is kept and refused.     *)
Provable ==
    /\ IF Early THEN IsPred \/ IsRepl ELSE IsRepl
    /\ IF Guarded
       THEN /\ Links(Latest.pred) = (IF IsPred THEN 2 ELSE 1)
            /\ Links(handle) = (IF IsPred THEN 2 ELSE 1)
            /\ Latest.st \in {"Cleaned", "NamespaceDurable"} => Tombstone
       ELSE /\ Links(handle) = 1
            /\ \/ Latest.st \in {"Cleaned", "NamespaceDurable"}
               \/ Early /\ IsPred

Resolve ==
    /\ pc = "resolve"
    /\ pc' = IF ~Pending THEN "resolved" ELSE IF Provable THEN "resolving" ELSE "refused"
    /\ UNCHANGED <<disk, proc, hist, bound>>

Resolving == pc = "resolving"

TakeUp == pred' = Latest.pred /\ repl' = Latest.repl

(* The replacement is the log: its name is made durable, then recorded.    *)
ResolveReplacement ==
    /\ Resolving /\ Early /\ IsRepl
    /\ DirFlush
    /\ Persist("Checkpointed", "resolve") /\ TakeUp
    /\ UNCHANGED <<wal, intents, files, goal, handle, hist, bound>>

ResolveCheckpointed ==
    /\ Resolving /\ Latest.st = "Checkpointed"
    /\ Persist("CleanupArmed", "resolve") /\ TakeUp
    /\ UNCHANGED <<disk, goal, handle, hist, bound>>

(* The predecessor is cut to nothing, and only then recorded as cleaned.   *)
ResolveCleanupArmed ==
    /\ Resolving /\ Latest.st = "CleanupArmed"
    /\ wal' = [wal EXCEPT ![Latest.pred] = Durable(<<>>)]
    /\ Persist("Cleaned", "resolve") /\ TakeUp
    /\ UNCHANGED <<dirs, intents, files, goal, handle, hist, bound>>

\* Seeded fault: the cleaned state is recorded again, not its durability.
ResolveCleanedAgain ==
    /\ Resolving /\ Latest.st = "Cleaned"
    /\ DirFlush
    /\ Persist("Cleaned", "resolve") /\ TakeUp
    /\ UNCHANGED <<wal, intents, files, goal, handle, hist, bound>>

ResolveCleaned ==
    /\ Resolving /\ Latest.st = "Cleaned"
    /\ DirFlush
    /\ Persist("NamespaceDurable", "resolve") /\ TakeUp
    /\ UNCHANGED <<wal, intents, files, goal, handle, hist, bound>>

(* The predecessor is still the log: the compaction is undone.             *)
RollBackGuard ==
    /\ Resolving /\ Early /\ IsPred
    /\ pc' = "rollbackFlush" /\ after' = "resolve" /\ TakeUp
    /\ IF Guarded THEN Change([Cur EXCEPT !.guards = @ \ {Latest.pred}])
                  ELSE UNCHANGED dirs
    /\ UNCHANGED <<wal, intents, files, goal, want, handle, hist, bound>>

RollBackFlush ==
    /\ Goto("rollbackFlush", "retained")
    /\ DirFlush
    /\ UNCHANGED <<wal, intents, files, proc, hist, bound>>

(* DeleteRetainedCompactionTemp.                                           *)
NothingRetained ==
    /\ Goto("retained", "clearIntent") /\ repl \notin Cur.temps
    /\ UNCHANGED <<disk, proc, hist, bound>>

DeleteRetained ==
    /\ Goto("retained", "retainedFlush") /\ repl \in Cur.temps
    /\ Change([Cur EXCEPT !.temps = @ \ {repl}])
    /\ UNCHANGED <<wal, intents, files, proc, hist, bound>>

RetainedFlush ==
    /\ Goto("retainedFlush", "clearIntent")
    /\ DirFlush
    /\ UNCHANGED <<wal, intents, files, proc, hist, bound>>

(* Nothing is pending any more, or only a completed intent is kept.        *)
Resolved ==
    /\ \/ pc = "resolved"
       \/ Resolving /\ Latest.st = "NamespaceDurable"
    /\ CASE goal = "open"     -> /\ pc' = "orphans" /\ goal' = "reopened"
                                 /\ handle' = Cur.wal /\ UNCHANGED result
         [] goal = "rollback" -> /\ pc' = "ready" /\ UNCHANGED <<goal, handle>>
                                 /\ result' = "RejectedBeforeWrite"
         [] goal = "undo"     -> /\ pc' = "ready" /\ UNCHANGED <<goal, handle>>
                                 /\ result' = "BytesMayHavePersisted"
         [] goal = "finish"   -> /\ pc' = "ready" /\ UNCHANGED <<goal, handle>>
                                 /\ result' = "Succeeded"
    /\ UNCHANGED <<disk, want, after, pred, repl, written, acked, floor, before, bound>>

---------------------------------------------------------------------------
(* AppendEncoded and FlushPendingAppends.                                  *)

AppendRecord ==
    /\ pc = "ready" /\ written < MaxRecords
    /\ written' = written + 1
    /\ wal' = [wal EXCEPT ![handle].data = Append(@, written')]
    /\ UNCHANGED <<dirs, intents, files, pc, proc, acked, floor, result, before, bound>>

FlushPendingAppends ==
    /\ pc = "ready"
    /\ FlushFile(handle)
    /\ acked' = acked \cup Items(handle)
    /\ UNCHANGED <<intents, files, pc, proc, written, floor, result, before, bound>>

(* Part of the frame was written: the handle is given up.                  *)
AppendTorn ==
    /\ Goto("ready", "closed") /\ written < MaxRecords /\ faults < MaxFaults
    /\ written' = written + 1 /\ faults' = faults + 1
    /\ wal' = [wal EXCEPT ![handle].data = Append(@, Torn)]
    /\ handle' = NoFile /\ goal' = "open"
    /\ UNCHANGED <<dirs, intents, files, want, after, pred, repl, acked, floor,
                   result, before, crashes>>

---------------------------------------------------------------------------
(* CompactOrdinaryWithResult.                                              *)

\* Seeded fault: the record at the floor is dropped too.
KeptAbove(f) == SelectSeq(wal[handle].data, LAMBDA r : r > f)

(* The log is copied from its start; records below f are left out.         *)
Kept(f) ==
    LET data == wal[handle].data
        Copied[i \in 0 .. Len(data)] ==
            IF i = 0 THEN <<>>
            ELSE IF data[i] >= f THEN Append(Copied[i - 1], data[i]) ELSE Copied[i - 1]
    IN  Copied[Len(data)]

(* Bound: two files for the compaction, and one for every failure to come. *)
RoomToCompact == files + 2 + (MaxFaults - faults) + (MaxCrashes - crashes) <= MaxFiles

BeginCompaction(f) ==
    /\ pc = "ready" /\ f \in floor .. written + 1 /\ RoomToCompact
    /\ pc' = IF Pending THEN "tombstone" ELSE "temp"
    /\ goal' = IF Pending THEN "clear" ELSE "build"
    /\ floor' = f /\ result' = "None" /\ before' = handle
    /\ UNCHANGED <<disk, want, after, handle, pred, repl, written, acked, bound>>

(* ClearCompletedCompactionIntentForNewCompaction.                         *)
DeleteTombstone ==
    /\ Goto("tombstone", "tombstoneFlush")
    /\ Change([Cur EXCEPT !.guards = @ \ {Latest.pred}])
    /\ pred' = Latest.pred /\ repl' = Latest.repl
    /\ UNCHANGED <<wal, intents, files, goal, want, after, handle, hist, bound>>

TombstoneFlush ==
    /\ Goto("tombstoneFlush", "clearIntent")
    /\ DirFlush
    /\ after' = "temp"
    /\ UNCHANGED <<wal, intents, files, goal, want, handle, pred, repl, hist, bound>>

\* Seeded fault: the identity of the log that is replaced is never read, and the
\* intent names no file.
WriteTempUnidentified ==
    /\ pc = "temp"
    /\ Create /\ repl' = NewFile /\ goal' = "build"
    /\ wal' = [wal EXCEPT ![NewFile] = Durable(Kept(floor))]
    /\ Change([Cur EXCEPT !.temps = @ \cup {NewFile}])
    /\ Persist("Prepared", "link")
    /\ UNCHANGED <<intents, handle, pred, hist, bound>>

WriteTemp ==
    /\ pc = "temp"
    /\ Create /\ repl' = NewFile /\ pred' = handle /\ goal' = "build"
    /\ wal' = [wal EXCEPT ![NewFile] = Durable(Kept(floor))]
    /\ Change([Cur EXCEPT !.temps = @ \cup {NewFile}])
    /\ Persist("Prepared", "link")
    /\ UNCHANGED <<intents, handle, hist, bound>>

CreateHardLink ==
    /\ Goto("link", "linkFlush")
    /\ Change([Cur EXCEPT !.guards = @ \cup {pred}])
    /\ UNCHANGED <<wal, intents, files, proc, hist, bound>>

LinkFlush ==
    /\ Goto("linkFlush", "arm")
    /\ DirFlush
    /\ UNCHANGED <<wal, intents, files, proc, hist, bound>>

\* Seeded fault: the log is unlinked without arming the intent first.
UnlinkUnarmed ==
    /\ Goto("arm", "unlink")
    /\ FlushFile(handle)
    /\ UNCHANGED <<intents, files, proc, hist, bound>>

ArmPublish ==
    /\ pc = "arm"
    /\ FlushFile(handle)
    /\ Persist("PublishArmed", "unlink")
    /\ UNCHANGED <<intents, files, goal, handle, pred, repl, hist, bound>>

UnlinkCanonical ==
    /\ Goto("unlink", "unlinkFlush")
    /\ Change([Cur EXCEPT !.wal = NoFile]) /\ handle' = NoFile
    /\ UNCHANGED <<wal, intents, files, goal, want, after, pred, repl, hist, bound>>

UnlinkFlush ==
    /\ Goto("unlinkFlush", "rename")
    /\ DirFlush
    /\ UNCHANGED <<wal, intents, files, proc, hist, bound>>

RenameReplacement ==
    /\ Goto("rename", "renameFlush")
    /\ Change([Cur EXCEPT !.wal = repl, !.temps = @ \ {repl}])
    /\ UNCHANGED <<wal, intents, files, proc, hist, bound>>

RenameFlush ==
    /\ Goto("renameFlush", "reopen")
    /\ DirFlush
    /\ UNCHANGED <<wal, intents, files, proc, hist, bound>>

Reopen ==
    /\ Goto("reopen", "resolve")
    /\ handle' = Cur.wal /\ goal' = "finish"
    /\ FlushFile(Cur.wal)
    /\ UNCHANGED <<intents, files, want, after, pred, repl, hist, bound>>

(* abandon_temp: the temporary file is deleted and the directory flushed.  *)
Abandon ==
    /\ Goto("abandon", "abandonFlush")
    /\ Change([Cur EXCEPT !.temps = @ \ {repl}])
    /\ UNCHANGED <<wal, intents, files, proc, hist, bound>>

Close == pc' = "closed" /\ handle' = NoFile /\ goal' = "open"

AbandonFlush ==
    /\ pc = "abandonFlush"
    /\ DirFlush
    /\ IF goal = "rollback" THEN pc' = "resolve" /\ UNCHANGED <<handle, goal>> ELSE Close
    /\ UNCHANGED <<wal, intents, files, want, after, pred, repl, hist, bound>>

---------------------------------------------------------------------------
(* A call fails.  What the operation then does, and what it tells its      *)
(* caller, depends on how far it had come.                                 *)

Persisting == pc \in {"persist", "persistFlush", "persistRename", "persistDirFlush"}
Fault      == faults < MaxFaults /\ faults' = faults + 1

\* Seeded fault: every failure before the intent is resolved is a rejection.
ExitRejected == IF goal \in {"open", "reopened"} THEN result
                ELSE IF goal \in {"clear", "build"} THEN "RejectedBeforeWrite"
                ELSE "BytesMayHavePersisted"

ExitResult == IF goal \in {"open", "reopened"} THEN result
              ELSE IF goal = "clear" THEN "RejectedBeforeWrite"
              ELSE "BytesMayHavePersisted"

Leave == /\ Close /\ result' = ExitResult
         /\ UNCHANGED <<disk, want, after, pred, repl, written, acked, floor, before>>

(* A file that could not be written is deleted again.  When that fails too *)
(* it stays, and nothing reads it: what it holds is left out.              *)
Orphan == Create /\ Change([Cur EXCEPT !.temps = @ \cup {NewFile}])

(* Nothing that a later opening must look at exists yet.                   *)
TempFails ==
    /\ Goto("temp", "ready") /\ Fault
    /\ result' = "RejectedBeforeWrite"
    /\ Orphan \/ UNCHANGED <<dirs, files>>
    /\ UNCHANGED <<wal, intents, proc, written, acked, floor, before, crashes>>

(* The intent was not created, or was written and taken back; or it is not *)
(* known whether it will be there.                                         *)
PrepareFails ==
    /\ Persisting /\ after = "link" /\ Fault /\ pc' = "abandon"
    /\ \/ /\ pc = "persist" /\ result' = "RejectedBeforeWrite"
          /\ Orphan \/ UNCHANGED <<dirs, files>> \/ (DirFlush /\ UNCHANGED files)
       \/ /\ pc = "persistRename" /\ result' = "RejectedBeforeWrite"
          /\ dirs' = <<[Cur EXCEPT !.temps = @ \ {files}]>> /\ UNCHANGED files
       \/ /\ pc # "persist" /\ result' = "BytesMayHavePersisted"
          /\ UNCHANGED <<dirs, files>>
    /\ UNCHANGED <<wal, intents, proc, written, acked, floor, before, crashes>>

LinkFails ==
    /\ Goto("link", "abandon") /\ Fault /\ goal' = "rollback"
    /\ UNCHANGED <<disk, want, after, handle, pred, repl, hist, crashes>>

(* Up to the checks just before the log is unlinked.                       *)
GuardFails ==
    /\ pc \in {"linkFlush", "arm", "unlink"} /\ pc' = "abandon" /\ Fault
    /\ result' = "BytesMayHavePersisted"
    /\ UNCHANGED <<disk, proc, written, acked, floor, before, crashes>>

AbandonFails ==
    /\ pc \in {"abandon", "abandonFlush"} /\ Fault
    /\ result' = "BytesMayHavePersisted"
    /\ IF goal = "rollback" THEN pc' = "resolve" /\ goal' = "undo" /\ UNCHANGED handle
                            ELSE Close
    /\ UNCHANGED <<disk, want, after, pred, repl, written, acked, floor, before, crashes>>

CallFails ==
    /\ \/ pc \in {"restoreFlush", "orphans", "orphansFlush", "inspect", "resolving",
                  "rollbackFlush", "retained", "retainedFlush", "clearIntent",
                  "tombstone", "tombstoneFlush", "unlink", "unlinkFlush", "rename",
                  "renameFlush", "reopen"}
       \/ Persisting /\ after # "link"
    /\ Leave /\ Fault /\ UNCHANGED crashes

Failed ==
    /\ pc = "failed"
    /\ Leave /\ UNCHANGED bound

(* A flush that is part of an append gives the handle up, one by itself    *)
(* leaves the log open.                                                    *)
FlushFails ==
    /\ pc = "ready" /\ Fault
    /\ Close \/ UNCHANGED <<pc, handle, goal>>
    /\ UNCHANGED <<disk, want, after, pred, repl, hist, crashes>>

---------------------------------------------------------------------------
(* The process ends, or the power goes: then each file keeps its durable   *)
(* prefix and some of the rest, and the directory some of its changes.     *)

Stop ==
    /\ crashes < MaxCrashes /\ crashes' = crashes + 1
    /\ Close
    /\ result' = IF pc = "ready" \/ goal \in {"open", "reopened"} THEN result ELSE "None"
    /\ UNCHANGED <<files, want, after, pred, repl, written, acked, floor, before, faults>>

ProcessEnds == Stop /\ UNCHANGED <<dirs, wal, intents>>

Cut(file, n, more) ==
    LET k == IF n < file.dur THEN file.dur
             ELSE IF n > Len(file.data) THEN Len(file.data) ELSE n
    IN  Durable(SubSeq(file.data, 1, k) \o
                IF k < Len(file.data) THEN more ELSE <<>>)

PowerLoss ==
    /\ Stop
    /\ \E i \in 1 .. Len(dirs) : dirs' = <<dirs[i]>>
    /\ \E n \in 0 .. MaxRecords, more \in {<<>>, <<Torn>>} :
           wal' = [f \in File |-> Cut(wal[f], n, more)]
    /\ UNCHANGED intents

---------------------------------------------------------------------------
Opening ==
    \/ OpenExisting \/ CreateNew \/ RestoreMissingCanonical
    \/ RestoreFlush \/ NoOrphans \/ CleanupOrphans \/ OrphansFlush \/ Inspect

Persistence ==
    \/ PersistAppend \/ PersistFlush \/ PersistTemp
    \/ PersistRename \/ PersistDirFlush \/ ClearIntent \/ ClearFlush

Resolution ==
    \/ Resolve \/ ResolveReplacement \/ ResolveCheckpointed
    \/ ResolveCleanupArmed \/ ResolveCleaned \/ RollBackGuard \/ RollBackFlush
    \/ NothingRetained \/ DeleteRetained \/ RetainedFlush \/ Resolved

Compaction ==
    \/ DeleteTombstone \/ TombstoneFlush \/ WriteTemp \/ CreateHardLink
    \/ LinkFlush \/ ArmPublish \/ UnlinkCanonical \/ UnlinkFlush
    \/ RenameReplacement \/ RenameFlush \/ Reopen \/ Abandon \/ AbandonFlush
    \/ Failed

Failure ==
    \/ ClearRestored \/ AppendTorn \/ TempFails \/ PrepareFails \/ LinkFails
    \/ GuardFails \/ AbandonFails \/ CallFails \/ FlushFails

Client == AppendRecord \/ FlushPendingAppends \/ \E f \in 1 .. MaxRecords + 1 : BeginCompaction(f)

Next == Opening \/ Persistence \/ Resolution \/ Compaction \/ Failure
        \/ Client \/ ProcessEnds \/ PowerLoss

(* The calls return, and whoever uses the log opens it again after a       *)
(* failure; appending and compacting are up to the client.                 *)
Spec == Init /\ [][Next]_vars
        /\ WF_vars(Opening \/ Persistence \/ Resolution \/ Compaction)

---------------------------------------------------------------------------
TypeOK ==
    /\ dirs \in Seq(Dir) /\ Len(dirs) > 0
    /\ wal \in [File -> [data : Seq(0 .. MaxRecords), dur : 0 .. MaxRecords]]
    /\ intents \in [File -> Seq(Intent)]
    /\ files \in 0 .. MaxFiles
    /\ handle \in File \cup {NoFile} /\ pred \in File \cup {NoFile}
    /\ repl \in File \cup {NoFile}
    /\ pc \in Step /\ goal \in Goal /\ want \in State /\ after \in Step
    /\ written \in 0 .. MaxRecords /\ acked \subseteq 1 .. MaxRecords
    /\ floor \in 1 .. MaxRecords + 1 /\ result \in Result
    /\ before \in File \cup {NoFile}
    /\ faults \in 0 .. MaxFaults /\ crashes \in 0 .. MaxCrashes

(* No crash and no failing call leads to a directory that the opening code *)
(* cannot make sense of: what EnsureAppendHandle and                       *)
(* ResolvePendingCompactionIntent refuse for its shape never arises.       *)
NeverRefused == pc # "refused"

(* What a compaction reported stays true of every later opening, whatever  *)
(* power loss comes between: after RejectedBeforeWrite the log is still    *)
(* the file it was, after Succeeded it is the replacement.                 *)
ResultStands ==
    pc = "ready" =>
        /\ result = "RejectedBeforeWrite" => handle = before
        /\ result = "Succeeded" => handle # before

(* Every opening, however often it is interrupted, ends with a usable log. *)
OpensEventually == pc # "ready" ~> pc = "ready"

(* The records a reader is given: of the log, or of the guard that the     *)
(* next opening will restore.                                              *)
Readable ==
    IF Cur.wal # NoFile THEN Items(Cur.wal)
    ELSE IF Pending THEN Items(Latest.pred) ELSE {}

Abstract == INSTANCE DurableLog WITH log <- Readable

(* The whole protocol implements the promise of DurableLog.                *)
ImplementsDurableLog == Abstract!Spec
=============================================================================
