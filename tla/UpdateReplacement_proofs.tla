---------------------- MODULE UpdateReplacement_proofs ----------------------
(* What the self-update leaves on disk, for every number of polls, of      *)
(* failing calls and of files that somebody else changes.                  *)
EXTENDS UpdateReplacement, TLAPS

Before == {"validate", "waitOld", "open", "rename"}
Backed == {"install", "verify", "launch", "readiness", "recheck", "observe", "commit",
           "rollback", "terminate", "hold", "restore"}
Back   == {"startOld", "observeOld", "discard"}

(* The updater ends by returning, and returns once.                        *)
ResultOK == result # "none" <=> pc = "done"

(* Where the two launchers are at each step: the backup stands before the  *)
(* launcher's place is given up, and the place is free whenever a file is  *)
(* moved into it.                                                          *)
PlacesOK ==
    /\ pc \in {"install", "restore"} => file["launcher"] = "none"
    /\ pc \in {"terminate", "hold"} => file["backup"] = "old" \/ "old" \in spoiled
    /\ pc \in Backed => file["backup"] # "none"
    /\ pc \in Before \cup Back =>
           file["backup"] = "none" /\ (file["launcher"] = "old" \/ "old" \in spoiled)
    /\ pc \in Back => file["launcher"] # "new"
    /\ pc \in (Before \cup Backed) \ {"restore"} => file["hold"] = "none"
    /\ pc = "layout" => file["launcher"] # "new" \/ file["backup"] # "none"

(* The new launcher is deleted only once the old one runs again.           *)
NewKept ==
    \/ "new" \in spoiled
    \/ result \in {"ReplacementFailed", "ReadinessFailed"}
    \/ Holds("new", {"launcher", "hold", "ready"})

LayoutInv == ResultOK /\ PlacesOK /\ OldKept /\ ReportedRestored /\ NewKept

IInv == TypeOK /\ LayoutInv

(* The files as Init describes them.                                       *)
LEMMA InitialLayout == Init => IInv
  <1> SUFFICES ASSUME Init PROVE IInv
    OBVIOUS
  <1>1. TypeOK
    <2>1. file \in [Path -> Content]
      BY DEF Init, Path, Content
    <2>2. seen \in BOOLEAN
      BY Zenon DEF Init
    <2>3. polls \in 0 .. PollLimit /\ faults \in 0 .. MaxFaults
      BY UpdateAssumption DEF Init
    <2>4. receipt = "none" /\ old = "running" /\ boot = "none" /\ tray = "none"
      BY Zenon DEF Init
    <2>5. pc = "validate" /\ target = "none" /\ code = "ReplacementFailed"
      BY Zenon DEF Init
    <2>6. result = "none" /\ spoiled = {}
      BY Zenon DEF Init
    <2> QED BY <2>1, <2>2, <2>3, <2>4, <2>5, <2>6 DEF TypeOK
  <1>2. /\ file["launcher"] = "old" /\ file["ready"] = "new"
        /\ file["backup"] = "none" /\ file["hold"] = "none"
    BY DEF Init, Path
  <1>3. ResultOK /\ ReportedRestored
    BY DEF Init, ResultOK, ReportedRestored
  <1>4. PlacesOK
    BY <1>2 DEF Init, PlacesOK, Before, Backed, Back
  <1>5. OldKept /\ NewKept
    BY <1>2 DEF OldKept, NewKept, Holds
  <1> QED BY <1>1, <1>3, <1>4, <1>5 DEF IInv, LayoutInv

(* Every step of the updater and of everybody else is well typed.          *)
LEMMA StepType == TypeOK /\ [Next]_vars => TypeOK'
  <1> SUFFICES ASSUME TypeOK, [Next]_vars PROVE TypeOK'
    OBVIOUS
  <1> USE UpdateAssumption DEF TypeOK, Path, Content, Goto, Return, Fault, procs
  <1>1. CASE Validate BY <1>1 DEF Validate
  <1>2. CASE WaitForOldProcessExit BY <1>2 DEF WaitForOldProcessExit
  <1>3. CASE OpenTransition BY <1>3 DEF OpenTransition
  <1>4. CASE RenameLauncher BY <1>4 DEF RenameLauncher, Moved
  <1>5. CASE InstallReady BY <1>5 DEF InstallReady, Moved
  <1>6. CASE VerifyInstalled BY <1>6 DEF VerifyInstalled
  <1>7. CASE StartLauncher BY <1>7 DEF StartLauncher
  <1>8. CASE Poll BY <1>8 DEF Poll
  <1>9. CASE Recheck BY <1>9 DEF Recheck
  <1>10. CASE ObserveLaunched BY <1>10 DEF ObserveLaunched
  <1>11. CASE Commit BY <1>11 DEF Commit
  <1>12. CASE Rollback BY <1>12 DEF Rollback
  <1>13. CASE TerminateExact BY <1>13 DEF TerminateExact
  <1>14. CASE HoldCandidate BY <1>14 DEF HoldCandidate, Moved
  <1>15. CASE RestoreBackup BY <1>15 DEF RestoreBackup, Moved
  <1>16. CASE StartOld BY <1>16 DEF StartOld
  <1>17. CASE ObserveOld BY <1>17 DEF ObserveOld
  <1>18. CASE DiscardCandidate BY <1>18 DEF DiscardCandidate
  <1>19. CASE RestorePreRollbackLayout BY <1>19 DEF RestorePreRollbackLayout, Moved
  <1>20. CASE CallFails BY <1>20 DEF CallFails
  <1>21. CASE Killed BY <1>21 DEF Killed
  <1>22. CASE Ends BY <1>22 DEF Ends
  <1>23. CASE StartTray BY <1>23 DEF StartTray
  <1>24. CASE WriteReceipt BY <1>24 DEF WriteReceipt
  <1>25. ASSUME NEW p \in Path, Damage(p) PROVE TypeOK' BY <1>25 DEF Damage
  <1>26. CASE UNCHANGED vars BY <1>26 DEF vars
  <1> QED
    BY <1>1, <1>2, <1>3, <1>4, <1>5, <1>6, <1>7, <1>8, <1>9, <1>10, <1>11, <1>12, <1>13, <1>14,
       <1>15, <1>16, <1>17, <1>18, <1>19, <1>20, <1>21, <1>22, <1>23, <1>24, <1>25, <1>26
    DEF Next, Updater

(* No step loses a launcher that it has to keep, or misreports what is on  *)
(* disk.                                                                   *)
LEMMA StepLayout == IInv /\ [Next]_vars => LayoutInv'
  <1> SUFFICES ASSUME IInv, [Next]_vars PROVE LayoutInv'
    OBVIOUS
  <1> USE DEF IInv, LayoutInv, TypeOK, ResultOK, PlacesOK, OldKept, ReportedRestored, NewKept,
              Holds, Path, Content, Before, Backed, Back, Goto, Return, Fault, procs
  <1>1. CASE Validate BY <1>1 DEF Validate
  <1>2. CASE WaitForOldProcessExit BY <1>2 DEF WaitForOldProcessExit
  <1>3. CASE OpenTransition BY <1>3 DEF OpenTransition
  <1>4. CASE RenameLauncher BY <1>4 DEF RenameLauncher, Moved
  <1>5. CASE InstallReady BY <1>5 DEF InstallReady, Moved
  <1>6. CASE VerifyInstalled BY <1>6 DEF VerifyInstalled
  <1>7. CASE StartLauncher BY <1>7 DEF StartLauncher
  <1>8. CASE Poll BY <1>8 DEF Poll
  <1>9. CASE Recheck BY <1>9 DEF Recheck
  <1>10. CASE ObserveLaunched BY <1>10 DEF ObserveLaunched
  <1>11. CASE Commit BY <1>11 DEF Commit
  <1>12. CASE Rollback BY <1>12 DEF Rollback
  <1>13. CASE TerminateExact BY <1>13 DEF TerminateExact
  <1>14. CASE HoldCandidate BY <1>14 DEF HoldCandidate, Moved
  <1>15. CASE RestoreBackup BY <1>15 DEF RestoreBackup, Moved
  <1>16. CASE StartOld BY <1>16 DEF StartOld
  <1>17. CASE ObserveOld BY <1>17 DEF ObserveOld
  <1>18. CASE DiscardCandidate BY <1>18 DEF DiscardCandidate
  <1>19. CASE RestorePreRollbackLayout BY <1>19 DEF RestorePreRollbackLayout, Moved
  <1>20. CASE CallFails BY <1>20 DEF CallFails
  <1>21. CASE Killed BY <1>21 DEF Killed
  <1>22. CASE Ends BY <1>22 DEF Ends
  <1>23. CASE StartTray BY <1>23 DEF StartTray
  <1>24. CASE WriteReceipt BY <1>24 DEF WriteReceipt
  <1>25. ASSUME NEW p \in Path, Damage(p) PROVE LayoutInv' BY <1>25 DEF Damage, Held
  <1>26. CASE UNCHANGED vars BY <1>26 DEF vars
  <1> HIDE DEF IInv, LayoutInv, TypeOK
  <1> QED
    BY <1>1, <1>2, <1>3, <1>4, <1>5, <1>6, <1>7, <1>8, <1>9, <1>10, <1>11, <1>12, <1>13, <1>14,
       <1>15, <1>16, <1>17, <1>18, <1>19, <1>20, <1>21, <1>22, <1>23, <1>24, <1>25, <1>26
    DEF Next, Updater

LEMMA Inductive == Spec => []IInv
  <1>1. IInv /\ [Next]_vars => IInv' BY StepType, StepLayout DEF IInv
  <1> QED BY InitialLayout, <1>1, PTL DEF Spec

(* Every reachable state of the updater is well typed, whatever fails.     *)
THEOREM UpdateTypeCorrect == Spec => []TypeOK
  <1>1. IInv => TypeOK BY DEF IInv
  <1> QED BY Inductive, <1>1, PTL

(* Whenever the updater is killed and however it ends, the old launcher is *)
(* in its place or in the backup until the new tray was ready.             *)
THEOREM OldLauncherKept == Spec => []OldKept
  <1>1. IInv => OldKept BY DEF IInv, LayoutInv
  <1> QED BY Inductive, <1>1, PTL

(* An exit code that says the old launcher was restored is true.           *)
THEOREM ExitCodeTrue == Spec => []ReportedRestored
  <1>1. IInv => ReportedRestored BY DEF IInv, LayoutInv
  <1> QED BY Inductive, <1>1, PTL

(* A rollback that failed deleted neither launcher.                        *)
THEOREM FailedRollbackDeletesNothing == Spec => []FailedRollbackKeepsBoth
  <1>1. IInv => FailedRollbackKeepsBoth
    BY DEF IInv, LayoutInv, NewKept, FailedRollbackKeepsBoth
  <1> QED BY Inductive, <1>1, PTL

============================================================================
