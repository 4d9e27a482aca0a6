--------------------------- MODULE UpdateReplacement ---------------------------
(***************************************************************************)
(* The updater's UpdateReplacementEngine: it waits for the old tray to     *)
(* exit, renames the launcher to a backup and the downloaded file to the   *)
(* launcher, starts it and waits for the receipt of the tray that it       *)
(* brings up; then it deletes the backup, or puts the old launcher back.   *)
(*                                                                         *)
(* The started launcher only extracts and starts the tray and exits, so    *)
(* the process that was started and the one that answers differ.  Any file *)
(* call may fail, any process may end, the updater itself may be killed,   *)
(* and somebody else may change a file that the updater holds no handle    *)
(* of.                                                                     *)
(***************************************************************************)
EXTENDS Naturals, FiniteSets

CONSTANTS
    PollLimit,   \* OldProcessPollLimit and ReadinessPollLimit
    MaxFaults,   \* bound: calls that fail
    MaxDamage    \* bound: files that somebody else changes

ASSUME UpdateAssumption == PollLimit \in Nat /\ MaxFaults \in Nat /\ MaxDamage \in Nat

VARIABLES
    file,      \* what each path holds
    receipt,   \* the phase in the receipt file
    old,       \* the old tray, and later the one that a rollback starts
    boot,      \* the launcher process the updater started
    tray,      \* the new tray, started by the launcher process
    pc,        \* where the updater is
    polls,     \* polls of the current wait
    target,    \* launchedProcess
    seen,      \* receiptProcess is known
    code,      \* failureCode
    result,    \* what the updater returned
    spoiled,   \* contents that somebody else has overwritten
    faults

procs == <<old, boot, tray>>
vars  == <<file, receipt, procs, pc, polls, target, seen, code, result, spoiled, faults>>

Path    == {"launcher", "ready", "backup", "hold"}
Content == {"none", "old", "new", "bad"}

Init ==
    /\ file = [p \in Path |-> IF p = "launcher" THEN "old"
                           ELSE IF p = "ready" THEN "new" ELSE "none"]
    /\ receipt = "none"
    /\ old = "running" /\ boot = "none" /\ tray = "none"
    /\ pc = "validate" /\ polls = 0 /\ target = "none" /\ seen = FALSE
    /\ code = "ReplacementFailed" /\ result = "none" /\ spoiled = {} /\ faults = 0

---------------------------------------------------------------------------
Goto(p)   == pc' = p /\ UNCHANGED <<code, result>>
Return(r) == pc' = "done" /\ result' = r /\ UNCHANGED code
Fault     == faults < MaxFaults /\ faults' = faults + 1

(* What Observe says of a process; Unknown is a call that fails.           *)
Matching(p) == p = "running"

Moved(from, to) == [file EXCEPT ![to] = file[from], ![from] = "none"]

Launched == CASE target = "boot" -> boot [] target = "tray" -> tray [] OTHER -> "none"

---------------------------------------------------------------------------
(* TryLoadManifest.                                                        *)
Validate ==
    /\ pc = "validate"
    /\ IF file["launcher"] = "old" /\ file["ready"] = "new" /\ file["backup"] = "none"
       THEN Goto("waitOld") ELSE Return("InvalidManifest")
    /\ UNCHANGED <<file, receipt, procs, polls, target, seen, spoiled, faults>>

WaitForOldProcessExit ==
    /\ pc = "waitOld"
    /\ \/ ~Matching(old) /\ Goto("open") /\ polls' = 0 /\ UNCHANGED faults
       \/ /\ (Matching(old) /\ UNCHANGED faults) \/ Fault
          /\ IF polls < PollLimit THEN Goto("waitOld") /\ polls' = polls + 1
             ELSE Return("OldProcessTimeout") /\ UNCHANGED polls
    /\ UNCHANGED <<file, receipt, procs, target, seen, spoiled>>

(* From here until the new launcher is in place the updater holds handles  *)
(* that nobody can write or rename under.  A file that was replaced before *)
(* has another identity; one that was changed in place is found by its     *)
(* hash in the next step.                                                  *)
OpenTransition ==
    /\ pc = "open"
    /\ \/ Goto("rename")
       \/ "bad" \in {file["launcher"], file["ready"]} /\ Return("ReplacementFailed")
    /\ UNCHANGED <<file, receipt, procs, polls, target, seen, spoiled, faults>>

RenameLauncher ==
    /\ pc = "rename"
    /\ IF file["launcher"] = "old" /\ file["ready"] = "new"
       THEN file' = Moved("launcher", "backup") /\ Goto("install")
       ELSE UNCHANGED file /\ Return("ReplacementFailed")
    /\ UNCHANGED <<receipt, procs, polls, target, seen, spoiled, faults>>

InstallReady ==
    /\ pc = "install"
    /\ file' = Moved("ready", "launcher") /\ Goto("verify")
    /\ UNCHANGED <<receipt, procs, polls, target, seen, spoiled, faults>>

Held == pc \in {"rename", "install"}

VerifyInstalled ==
    /\ pc = "verify"
    /\ IF file["launcher"] = "new"
       THEN pc' = "launch" /\ code' = "ReadinessFailed" ELSE pc' = "rollback" /\ UNCHANGED code
    /\ UNCHANGED <<file, receipt, procs, polls, target, seen, result, spoiled, faults>>

StartLauncher ==
    /\ pc = "launch"
    /\ boot' = "running" /\ target' = "boot" /\ Goto("readiness")
    /\ UNCHANGED <<file, receipt, old, tray, polls, seen, spoiled, faults>>

(* WaitForReadinessAsync, a poll at a time; the last poll only reads the   *)
(* receipt.                                                                *)
Ready == receipt = "ready" /\ Matching(tray)

\* Seeded fault: the wait has no limit while the started process runs.
PollUnlimited ==
    /\ pc = "readiness"
    /\ seen' = seen
    /\ IF Ready THEN Goto("recheck") /\ target' = "tray"
       ELSE Goto(IF Matching(boot) THEN "readiness" ELSE "rollback") /\ UNCHANGED target
    /\ UNCHANGED <<file, receipt, procs, polls, spoiled, faults>>

Poll ==
    /\ pc = "readiness"
    /\ seen' = (seen \/ (receipt # "none" /\ Matching(tray)))
    /\ IF Ready THEN Goto("recheck") /\ target' = "tray" /\ UNCHANGED <<polls, faults>>
       ELSE IF polls < PollLimit
       THEN \/ Goto("readiness") /\ polls' = polls + 1 /\ UNCHANGED <<target, faults>>
            \/ Fault /\ ~seen' /\ Goto("rollback") /\ UNCHANGED <<polls, target>>
       ELSE /\ Goto("rollback") /\ target' = IF seen' THEN "tray" ELSE "boot"
            /\ UNCHANGED <<polls, faults>>
    /\ UNCHANGED <<file, receipt, procs, spoiled>>

Recheck ==
    /\ pc = "recheck"
    /\ Goto(IF file["backup"] = "old" /\ file["launcher"] = "new" THEN "observe" ELSE "rollback")
    /\ UNCHANGED <<file, receipt, procs, polls, target, seen, spoiled, faults>>

ObserveLaunched ==
    /\ pc = "observe"
    /\ \/ Goto(IF Matching(Launched) THEN "commit" ELSE "rollback") /\ UNCHANGED faults
       \/ Fault /\ Goto("rollback")
    /\ UNCHANGED <<file, receipt, procs, polls, target, seen, spoiled>>

Commit ==
    /\ pc = "commit"
    /\ file' = [file EXCEPT !["backup"] = "none"]
    /\ receipt' \in {"none", receipt}
    /\ Return("Success")
    /\ UNCHANGED <<procs, polls, target, seen, spoiled, faults>>

\* Seeded fault: backupCreated is set too late.
CallFailsUnrestored ==
    /\ Fault
    /\ pc \in {"open", "rename", "install"} /\ Return("ReplacementFailed")
    /\ UNCHANGED <<file, receipt, procs, polls, target, seen, spoiled>>

(* A file or process call fails.  Before the backup exists the updater     *)
(* just returns; after that it rolls back.  A launcher may have been       *)
(* started whose identity could not be read: the updater does not know it. *)
CallFails ==
    /\ Fault
    /\ \/ pc = "validate" /\ Return("InvalidManifest")
       \/ pc \in {"open", "rename"} /\ Return("ReplacementFailed")
       \/ pc \in {"install", "verify", "launch", "recheck", "commit"} /\ Goto("rollback")
       \/ pc = "rollback" /\ Goto("layout")
    /\ boot' = boot \/ (pc = "launch" /\ boot' = "running")
    /\ UNCHANGED <<file, receipt, old, tray, polls, target, seen, spoiled>>

---------------------------------------------------------------------------
(* TryRestoreAndRelaunchOldAsync.                                          *)

Rollback ==
    /\ pc = "rollback"
    /\ IF file["backup"] = "old" THEN Goto("terminate") ELSE Return("RollbackFailed")
    /\ UNCHANGED <<file, receipt, procs, polls, target, seen, spoiled, faults>>

TerminateExact ==
    /\ pc = "terminate"
    /\ \/ /\ boot' = IF target = "boot" /\ Matching(boot) THEN "exited" ELSE boot
          /\ tray' = IF target = "tray" /\ Matching(tray) THEN "exited" ELSE tray
          /\ Goto("hold") /\ UNCHANGED faults
       \/ target # "none" /\ Fault /\ Return("RollbackFailed") /\ UNCHANGED <<boot, tray>>
    /\ UNCHANGED <<file, receipt, old, polls, target, seen, spoiled>>

\* Seeded fault: the candidate is deleted to make room.
DeleteCandidate ==
    /\ pc = "hold"
    /\ file' = [file EXCEPT !["launcher"] = "none"] /\ Goto("restore")
    /\ UNCHANGED <<receipt, procs, polls, target, seen, spoiled, faults>>

HoldCandidate ==
    /\ pc = "hold"
    /\ \/ /\ file' = IF file["launcher"] = "none" THEN file ELSE Moved("launcher", "hold")
          /\ Goto("restore") /\ UNCHANGED faults
       \/ file["launcher"] # "none" /\ Fault /\ Goto("layout") /\ UNCHANGED file
    /\ UNCHANGED <<receipt, procs, polls, target, seen, spoiled>>

RestoreBackup ==
    /\ pc = "restore"
    /\ \/ /\ file["backup"] = "old"
          /\ file' = Moved("backup", "launcher") /\ Goto("startOld") /\ UNCHANGED faults
       \/ file["backup"] # "old" /\ Goto("layout") /\ UNCHANGED <<file, faults>>
       \/ Fault /\ Goto("layout") /\ UNCHANGED file
    /\ UNCHANGED <<receipt, procs, polls, target, seen, spoiled>>

StartOld ==
    /\ pc = "startOld"
    /\ \/ file["launcher"] = "old" /\ old' = "running" /\ Goto("observeOld") /\ UNCHANGED faults
       \/ file["launcher"] # "old" /\ Goto("layout") /\ UNCHANGED <<old, faults>>
       \/ Fault /\ Goto("layout") /\ old' \in {old, "running"}
    /\ UNCHANGED <<file, receipt, boot, tray, polls, target, seen, spoiled>>

ObserveOld ==
    /\ pc = "observeOld"
    /\ \/ Goto(IF Matching(old) THEN "discard" ELSE "layout") /\ UNCHANGED faults
       \/ Fault /\ Return("RollbackFailed")
    /\ UNCHANGED <<file, receipt, procs, polls, target, seen, spoiled>>

DiscardCandidate ==
    /\ pc = "discard"
    /\ \/ file' = [file EXCEPT !["hold"] = "none"] /\ UNCHANGED faults
       \/ Fault /\ UNCHANGED file
    /\ Return(code)
    /\ UNCHANGED <<receipt, procs, polls, target, seen, spoiled>>

(* RestorePreRollbackLayout.                                               *)
\* Seeded fault: the held candidate is put back over the restored launcher.
RestoreLayoutOver ==
    /\ pc = "layout"
    /\ file' = IF file["hold"] # "none" THEN Moved("hold", "launcher") ELSE file
    /\ Return("RollbackFailed") /\ UNCHANGED faults
    /\ UNCHANGED <<receipt, procs, polls, target, seen, spoiled>>

RestorePreRollbackLayout ==
    /\ pc = "layout"
    /\ \/ /\ file["launcher"] # "none" /\ file["backup"] = "none"
          /\ file' = Moved("launcher", "backup") /\ Goto("layout") /\ UNCHANGED faults
       \/ /\ file["launcher"] = "none" /\ file["hold"] # "none"
          /\ file' = Moved("hold", "launcher") /\ Return("RollbackFailed") /\ UNCHANGED faults
       \/ /\ file["launcher"] = "none" => file["hold"] = "none"
          /\ file["launcher"] # "none" => file["backup"] # "none"
          /\ Return("RollbackFailed") /\ UNCHANGED <<file, faults>>
       \/ Fault /\ Return("RollbackFailed") /\ UNCHANGED file
    /\ UNCHANGED <<receipt, procs, polls, target, seen, spoiled>>

---------------------------------------------------------------------------
(* Everybody else.                                                         *)

Ends ==
    /\ \/ old = "running" /\ old' = "exited" /\ UNCHANGED <<boot, tray>>
       \/ boot = "running" /\ boot' = "exited" /\ UNCHANGED <<old, tray>>
       \/ tray = "running" /\ tray' = "exited" /\ UNCHANGED <<old, boot>>
    /\ UNCHANGED <<file, receipt, pc, polls, target, seen, code, result, spoiled, faults>>

(* The launcher process starts the tray and exits.                         *)
StartTray ==
    /\ boot = "running" /\ tray = "none"
    /\ tray' = "running" /\ boot' = "exited"
    /\ UNCHANGED <<file, receipt, old, pc, polls, target, seen, code, result, spoiled, faults>>

(* The tray writes each phase once and goes on if that fails.              *)
WriteReceipt ==
    /\ tray = "running" /\ result # "Success"
    /\ \/ receipt = "none" /\ receipt' = "launched"
       \/ receipt # "ready" /\ receipt' = "ready"
    /\ UNCHANGED <<file, procs, pc, polls, target, seen, code, result, spoiled, faults>>

Damage(p) ==
    /\ Cardinality(spoiled) < MaxDamage /\ ~Held /\ result = "none" /\ file[p] \in {"old", "new"}
    /\ spoiled' = spoiled \cup {file[p]}
    /\ file' = [file EXCEPT ![p] = "bad"]
    /\ UNCHANGED <<receipt, procs, pc, polls, target, seen, code, result, faults>>

Killed ==
    /\ pc # "done" /\ pc # "killed"
    /\ Goto("killed")
    /\ UNCHANGED <<file, receipt, procs, polls, target, seen, spoiled, faults>>

Updater ==
    \/ Validate \/ WaitForOldProcessExit \/ OpenTransition \/ RenameLauncher \/ InstallReady
    \/ VerifyInstalled \/ StartLauncher \/ Poll \/ Recheck \/ ObserveLaunched \/ Commit
    \/ Rollback \/ TerminateExact \/ HoldCandidate \/ RestoreBackup \/ StartOld
    \/ ObserveOld \/ DiscardCandidate \/ RestorePreRollbackLayout

Next ==
    \/ Updater \/ CallFails \/ Killed
    \/ Ends \/ StartTray \/ WriteReceipt \/ \E p \in Path : Damage(p)

(* The updater keeps running; nothing is assumed of the other processes.   *)
Spec == Init /\ [][Next]_vars /\ WF_vars(Updater)

---------------------------------------------------------------------------
TypeOK ==
    /\ file \in [Path -> Content]
    /\ receipt \in {"none", "launched", "ready"}
    /\ {old, boot, tray} \subseteq {"none", "running", "exited"}
    /\ pc \in {"validate", "waitOld", "open", "rename", "install", "verify", "launch",
               "readiness", "recheck", "observe", "commit", "rollback", "terminate", "hold",
               "restore", "startOld", "observeOld", "discard", "layout", "done", "killed"}
    /\ polls \in 0 .. PollLimit
    /\ target \in {"none", "boot", "tray"} /\ seen \in BOOLEAN
    /\ code \in {"ReplacementFailed", "ReadinessFailed"}
    /\ result \in {"none", "Success", "InvalidManifest", "OldProcessTimeout",
                   "ReplacementFailed", "ReadinessFailed", "RollbackFailed"}
    /\ spoiled \subseteq {"old", "new"} /\ faults \in 0 .. MaxFaults

Holds(c, P) == \E p \in P : file[p] = c

(* Whenever the updater is killed, and however it ends, the old launcher   *)
(* is in its place or in the backup, until the new tray was ready and the  *)
(* backup was given up.                                                    *)
OldKept == result = "Success" \/ "old" \in spoiled \/ Holds("old", {"launcher", "backup"})

(* An update that failed and says that the old launcher was restored left  *)
(* it in its place, with no backup beside it.                              *)
ReportedRestored ==
    result \in {"InvalidManifest", "OldProcessTimeout", "ReplacementFailed", "ReadinessFailed"} =>
        /\ file["launcher"] = "old" \/ "old" \in spoiled
        /\ file["backup"] = "none"

(* "Preserve whatever recovery objects remain; do not delete either one":  *)
(* a rollback that failed left the new launcher somewhere as well.         *)
FailedRollbackKeepsBoth ==
    result = "RollbackFailed" /\ "new" \notin spoiled => Holds("new", {"launcher", "hold", "ready"})

(* The updater ends, whatever the processes it waits for do.               *)
UpdateEnds == <>(pc \in {"done", "killed"})
=============================================================================
