-------------------------- MODULE PatchStoreProofs --------------------------
(***************************************************************************)
(* Proofs about PatchStore, for every set of files and keys and every      *)
(* bound. IInv is inductive; the properties the runs check follow from it. *)
(***************************************************************************)
EXTENDS PatchStore, TLAPS

USE DEF Missing, Partial, Original

\* The inductive invariant holds of the untouched application with no log.
LEMMA InitIInv == Init => IInv
<1> SUFFICES ASSUME Init PROVE IInv
  OBVIOUS
<1> USE StoreAssumption DEF Init, Shipped
<1>1. TypeOK
  BY DEF TypeOK, Pcs, RestorePcs, ApplyPcs, TestPcs
<1>2. OriginalRecoverable /\ LoggedBackupsOriginal /\ MadeUpFiles
  BY DEF OriginalRecoverable, LoggedBackupsOriginal, MadeUpFiles
<1>3. RestoredIsShipped /\ (pc = "ready" => log = {}) /\ UntouchedKeys /\ HandledEntries
  BY DEF RestoredIsShipped, UntouchedKeys, HandledEntries, RestorePcs, ApplyPcs
<1>4. CurrentFile /\ EditedFiles
  BY DEF CurrentFile, EditedFiles, MidRestore, ApplyPcs, TestPcs
<1>5. QED
  BY <1>1, <1>2, <1>3, <1>4 DEF IInv

\* Every step of restore_app_from_baks, its exception included, preserves it.
LEMMA RestoreStepKeepsIInv == IInv /\ RestoreStep => IInv'
<1> SUFFICES ASSUME IInv, RestoreStep PROVE IInv'
  OBVIOUS
<1> USE StoreAssumption
    DEF IInv, TypeOK, OriginalRecoverable, LoggedBackupsOriginal, RestoredIsShipped,
        UntouchedKeys, CurrentFile, HandledEntries, EditedFiles, MadeUpFiles, MidRestore,
        Shipped, Pcs, RestorePcs, ApplyPcs, TestPcs, disk
<1>1. ASSUME NEW f \in Files, SkipEntry(f) PROVE IInv'
  BY <1>1 DEF SkipEntry
<1>2. ASSUME NEW f \in Files, UnlinkPatched(f) PROVE IInv'
  BY <1>2 DEF UnlinkPatched
<1>3. ASSUME NEW f \in Files, UnlinkRaises(f) PROVE IInv'
  BY <1>3 DEF UnlinkRaises
<1>4. CASE OpenCopyBack
  BY <1>4 DEF OpenCopyBack
<1>5. CASE FillCopyBack
  BY <1>5 DEF FillCopyBack
<1>6. CASE DropBak
  BY <1>6 DEF DropBak
<1>7. CASE DropLog
  BY <1>7 DEF DropLog
<1>8. QED
  BY <1>1, <1>2, <1>3, <1>4, <1>5, <1>6, <1>7 DEF RestoreStep

\* Every step of an attempt preserves it. UnlinkOldBak is where distinct keys are
\* needed: it deletes a backup, and that backup must not be one the log counts on.
LEMMA AttemptStepKeepsIInv ==
    ASSUME KeysDistinct, IInv, AttemptStep \/ BeginAttempt
    PROVE  IInv'
<1> USE StoreAssumption
    DEF IInv, TypeOK, OriginalRecoverable, LoggedBackupsOriginal, RestoredIsShipped,
        UntouchedKeys, CurrentFile, HandledEntries, EditedFiles, MadeUpFiles, MidRestore,
        Shipped, Pcs, RestorePcs, ApplyPcs, TestPcs, disk
<1>1. ASSUME NEW k \in Keys, UnlinkOldBak(k) PROVE IInv'
  BY <1>1 DEF UnlinkOldBak, KeysDistinct
<1>2. CASE OpenBackup
  BY <1>2 DEF OpenBackup
<1>3. CASE BackupRaises
  BY <1>3 DEF BackupRaises
<1>4. CASE FillBackup
  BY <1>4 DEF FillBackup
<1>5. CASE LogBackup
  BY <1>5 DEF LogBackup
<1>6. CASE MergeGivesUp
  BY <1>6 DEF MergeGivesUp
<1>7. CASE OpenMerge
  BY <1>7 DEF OpenMerge
<1>8. CASE FillMerge
  BY <1>8 DEF FillMerge
<1>9. CASE EndAttempt
  BY <1>9 DEF EndAttempt
<1>10. CASE BeginAttempt
  BY <1>10 DEF BeginAttempt
<1>11. QED
  BY <1>1, <1>2, <1>3, <1>4, <1>5, <1>6, <1>7, <1>8, <1>9, <1>10 DEF AttemptStep

\* IInv is preserved by every step, a kill between any two of them included.
LEMMA NextKeepsIInv ==
    ASSUME KeysDistinct, IInv, [Next]_vars
    PROVE  IInv'
<1>1. CASE RestoreStep
  BY <1>1, RestoreStepKeepsIInv
<1>2. CASE AttemptStep \/ BeginAttempt
  BY <1>2, AttemptStepKeepsIInv
<1>3. CASE StartRun \/ Retry
  BY <1>3, StoreAssumption
     DEF StartRun, Retry, BeginRestore, IInv, TypeOK, OriginalRecoverable,
         LoggedBackupsOriginal, RestoredIsShipped, UntouchedKeys, CurrentFile, HandledEntries,
         EditedFiles, MadeUpFiles, MidRestore, Shipped, Pcs, RestorePcs, ApplyPcs, TestPcs, disk
<1>4. CASE StopRun \/ Crash
  BY <1>4, StoreAssumption
     DEF StopRun, Crash, IInv, TypeOK, OriginalRecoverable,
         LoggedBackupsOriginal, RestoredIsShipped, UntouchedKeys, CurrentFile, HandledEntries,
         EditedFiles, MadeUpFiles, MidRestore, Shipped, Pcs, RestorePcs, ApplyPcs, TestPcs, disk
<1>5. CASE UNCHANGED vars
  BY <1>5
     DEF vars, disk, IInv, TypeOK, OriginalRecoverable,
         LoggedBackupsOriginal, RestoredIsShipped, UntouchedKeys, CurrentFile, HandledEntries,
         EditedFiles, MadeUpFiles, MidRestore, Shipped, Pcs, RestorePcs, ApplyPcs, TestPcs
<1>6. QED
  BY <1>1, <1>2, <1>3, <1>4, <1>5 DEF Next

\* The inductive invariant holds in every reachable state, crashes included.
THEOREM StoreInvariant ==
    ASSUME KeysDistinct
    PROVE  Spec => []IInv
<1>1. Init => IInv
  BY InitIInv
<1>2. IInv /\ [Next]_vars => IInv'
  BY NextKeepsIInv
<1>3. QED
  BY <1>1, <1>2, PTL DEF Spec

\* Every variable of the store keeps its type.
THEOREM StoreTypeCorrect ==
    ASSUME KeysDistinct
    PROVE  Spec => []TypeOK
<1>1. IInv => TypeOK
  BY DEF IInv
<1>2. QED
  BY <1>1, StoreInvariant, PTL

\* Wherever the process is killed, the shipped text of every application file
\* is in place or in a backup /tmp/patch_bak.log points to.
THEOREM StoreOriginalRecoverable ==
    ASSUME KeysDistinct
    PROVE  Spec => []OriginalRecoverable
<1>1. IInv => OriginalRecoverable
  BY DEF IInv
<1>2. QED
  BY <1>1, StoreInvariant, PTL

\* restore_app_from_baks never has a torn or patched backup to copy.
THEOREM StoreLoggedBackupsOriginal ==
    ASSUME KeysDistinct
    PROVE  Spec => []LoggedBackupsOriginal
<1>1. IInv => LoggedBackupsOriginal
  BY DEF IInv
<1>2. QED
  BY <1>1, StoreInvariant, PTL

\* An attempt starts from the shipped application.
THEOREM StoreRestoredIsShipped ==
    ASSUME KeysDistinct
    PROVE  Spec => []RestoredIsShipped
<1>1. IInv => RestoredIsShipped
  BY DEF IInv
<1>2. QED
  BY <1>1, StoreInvariant, PTL

\* What is tested is the shipped application plus the current attempt.
THEOREM StoreOnePatchUnderTest ==
    ASSUME KeysDistinct
    PROVE  Spec => []OnePatchUnderTest
<1>1. IInv => OnePatchUnderTest
  BY DEF IInv, OnePatchUnderTest, EditedFiles, TestPcs
<1>2. QED
  BY <1>1, StoreInvariant, PTL

-----------------------------------------------------------------------------
(* The refinement: every step of the store is a step of RevertibleApp, or  *)
(* leaves its two mapped variables alone.                                  *)

\* The store starts as an untouched application that nobody works on.
LEMMA InitMapsToInit == Init => App!Init
BY StoreAssumption
   DEF Init, App!Init, imageBar, stageBar, Shipped, RestorePcs, TestPcs

\* Writing one path changes the image of one file.
LEMMA OneFileChanges ==
    ASSUME TypeOK, NEW f \in Files, NEW v, content' = [content EXCEPT ![f] = v]
    PROVE  \E g \in Files, w \in {"original", "modified"} :
                imageBar' = [imageBar EXCEPT ![g] = w]
<1> DEFINE w == IF v = Shipped(f) THEN "original" ELSE "modified"
<1>1. ASSUME NEW g \in Files
      PROVE  imageBar'[g] = [imageBar EXCEPT ![f] = w][g]
  BY DEF imageBar, TypeOK
<1>2. imageBar' = [imageBar EXCEPT ![f] = w]
  BY <1>1 DEF imageBar
<1>3. w \in {"original", "modified"}
  OBVIOUS
<1>4. QED
  BY <1>2, <1>3

\* Each step of the store is a step of RevertibleApp or a stuttering one. That
\* DropLog opens a stage on original files only needs the invariant.
LEMMA StepMapsToStep ==
    ASSUME IInv, [Next]_vars
    PROVE  [App!Next]_(App!vars)
<1> USE DEF stageBar, RestorePcs, ApplyPcs, TestPcs
<1>0. TypeOK
  BY DEF IInv
<1>1. CASE StartRun \/ Retry
  BY <1>1 DEF StartRun, Retry, BeginRestore, disk, imageBar, App!Next, App!Revert
<1>2. CASE StopRun \/ Crash
  BY <1>2 DEF StopRun, Crash, disk, imageBar, App!Next, App!Halt
<1>3. CASE RestoreStep
  <2>1. ASSUME NEW f \in Files, SkipEntry(f) PROVE UNCHANGED App!vars
    BY <2>1 DEF SkipEntry, disk, imageBar, App!vars
  <2>2. ASSUME NEW f \in Files, UnlinkPatched(f) PROVE App!PutBack
    BY <1>0, <2>2, OneFileChanges DEF UnlinkPatched, App!PutBack
  <2>3. ASSUME NEW f \in Files, UnlinkRaises(f) PROVE App!Halt
    BY <2>3 DEF UnlinkRaises, disk, imageBar, App!Halt
  <2>4. CASE OpenCopyBack
    <3>1. cur \in Files
      BY <1>0, <2>4 DEF OpenCopyBack, TypeOK
    <3>2. App!PutBack
      BY <1>0, <2>4, <3>1, OneFileChanges DEF OpenCopyBack, App!PutBack
    <3>3. QED
      BY <3>2 DEF App!Next
  <2>5. CASE FillCopyBack
    <3>1. cur \in Files
      BY <1>0, <2>5 DEF FillCopyBack, TypeOK
    <3>2. App!PutBack
      BY <1>0, <2>5, <3>1, OneFileChanges DEF FillCopyBack, App!PutBack
    <3>3. QED
      BY <3>2 DEF App!Next
  <2>6. CASE DropBak
    BY <2>6 DEF DropBak, imageBar, App!vars
  <2>7. CASE DropLog
    <3>1. \A f \in Files : content[f] = Shipped(f)
      BY <2>7 DEF DropLog, IInv, HandledEntries, MadeUpFiles, Shipped
    <3>2. App!Open
      BY <2>7, <3>1 DEF DropLog, App!Open, App!AllOriginal, imageBar
    <3>3. QED
      BY <3>2 DEF App!Next
  <2>8. QED
    BY <1>3, <2>1, <2>2, <2>3, <2>4, <2>5, <2>6, <2>7 DEF RestoreStep, App!Next
<1>4. CASE AttemptStep
  <2>1. ASSUME NEW k \in Keys, UnlinkOldBak(k) PROVE UNCHANGED App!vars
    BY <2>1 DEF UnlinkOldBak, imageBar, App!vars
  <2>2. CASE OpenBackup \/ BackupRaises \/ FillBackup \/ LogBackup \/ MergeGivesUp
    BY <2>2 DEF OpenBackup, BackupRaises, FillBackup, LogBackup, MergeGivesUp,
                disk, imageBar, App!vars
  <2>3. CASE OpenMerge
    <3>1. cur \in Files
      BY <1>0, <2>3 DEF OpenMerge, TypeOK
    <3>2. App!Edit
      BY <1>0, <2>3, <3>1, OneFileChanges DEF OpenMerge, App!Edit
    <3>3. QED
      BY <3>2 DEF App!Next
  <2>4. CASE FillMerge
    <3>1. cur \in Files
      BY <1>0, <2>4 DEF FillMerge, TypeOK
    <3>2. App!Edit
      BY <1>0, <2>4, <3>1, OneFileChanges DEF FillMerge, App!Edit
    <3>3. QED
      BY <3>2 DEF App!Next
  <2>5. CASE EndAttempt
    BY <2>5 DEF EndAttempt, disk, imageBar, App!Next, App!Seal
  <2>6. QED
    BY <1>4, <2>1, <2>2, <2>3, <2>4, <2>5 DEF AttemptStep
<1>5. CASE BeginAttempt
  BY <1>5 DEF BeginAttempt, disk, imageBar, App!vars
<1>6. CASE UNCHANGED vars
  BY <1>6 DEF vars, imageBar, App!vars
<1>7. QED
  BY <1>1, <1>2, <1>3, <1>4, <1>5, <1>6 DEF Next

\* The store implements RevertibleApp: attempts open on the shipped application
\* only, and an application under test is left alone.
THEOREM StoreImplementsRevertibleApp ==
    ASSUME KeysDistinct
    PROVE  Spec => ImplementsRevertibleApp
<1>1. Init => App!Init
  BY InitMapsToInit
<1>2. IInv /\ [Next]_vars => [App!Next]_(App!vars)
  BY StepMapsToStep
<1>3. QED
  BY <1>1, <1>2, StoreInvariant, PTL DEF Spec, App!Spec, ImplementsRevertibleApp
=============================================================================
