----------------------------- MODULE PatchStore -----------------------------
(***************************************************************************)
(* The files of the application under repair, their .bak copies and        *)
(* /tmp/patch_bak.log, as PatchFactory.apply_patch edits them and          *)
(* restore_app_from_baks puts them back, one file-system step at a time.   *)
(*                                                                         *)
(* One Python process does the work. It may be killed between any two      *)
(* steps and started again; what survives is the disk: content, bak and    *)
(* log. The process that drives the store starts every run with a restore, *)
(* applies one LLM answer (a set of keys, each naming a file), tests it,   *)
(* and restores before the next attempt.                                   *)
(*                                                                         *)
(* The text of a file is abstracted to where it comes from: 0 is the       *)
(* original text, n > 0 is what the merge of attempt n wrote.              *)
(***************************************************************************)
EXTENDS Integers

CONSTANTS
    Files,        \* paths an LLM answer can name
    InApp,        \* those that exist in the application
    Keys,         \* keys of the "patch" object of an LLM answer
    FileOf,       \* the path a key stands for: '+' replaced, '/' prefixed
    MaxAttempts,  \* bound on the attempts of a behaviour
    MaxCrashes    \* bound on the times the process is killed

ASSUME StoreAssumption ==
    /\ InApp \subseteq Files
    /\ FileOf \in [Keys -> Files]
    /\ MaxAttempts \in Nat
    /\ MaxCrashes \in Nat

VARIABLES
    content,   \* content[f]: text at path f
    bak,       \* bak[f]: text at path f.bak
    log,       \* the paths listed in /tmp/patch_bak.log ({}: there is no log)
    pc,        \* what the process is about to do
    cur,       \* the file it is doing it to
    todoLog,   \* log entries restore_app_from_baks has not handled yet
    todoKeys,  \* keys of the answer that have not been applied yet
    ok,        \* succ_patch: no key of this attempt has raised
    attempt,   \* number of the attempt; what its merges write
    crashes

disk == <<content, bak, log>>
vars == <<content, bak, log, pc, cur, todoLog, todoKeys, ok, attempt, crashes>>

Missing  == -2   \* there is no file at the path
Partial  == -1   \* opened for writing and truncated, not yet complete
Original == 0

\* The text the path has in the application as it was shipped.
Shipped(f) == IF f \in InApp THEN Original ELSE Missing

RestorePcs == {"restore", "copyBack", "copying", "dropBak"}
ApplyPcs   == {"apply", "backup", "backingUp", "logging", "merge", "writing"}
TestPcs    == {"tested", "failed"}
Pcs        == {"stopped", "ready"} \cup RestorePcs \cup ApplyPcs \cup TestPcs

TypeOK ==
    /\ content \in [Files -> {Missing, Partial} \cup Nat]
    /\ bak \in [Files -> {Missing, Partial} \cup Nat]
    /\ log \subseteq Files
    /\ pc \in Pcs
    /\ pc \in (RestorePcs \cup ApplyPcs) \ {"restore", "apply"} => cur \in Files
    /\ todoLog \subseteq Files
    /\ todoKeys \subseteq Keys
    /\ ok \in BOOLEAN
    /\ attempt \in Nat
    /\ crashes \in Nat

Init ==
    /\ content = [f \in Files |-> Shipped(f)]
    /\ bak = [f \in Files |-> Missing]
    /\ log = {}
    /\ pc = "stopped"
    /\ cur = ""
    /\ todoLog = {}
    /\ todoKeys = {}
    /\ ok = TRUE
    /\ attempt = 0
    /\ crashes = 0

-----------------------------------------------------------------------------
(* restore_app_from_baks. The order of the log's lines is abstracted: the  *)
(* entries are handled in any order.                                       *)

BeginRestore ==
    /\ pc' = "restore"
    /\ todoLog' = log
    /\ UNCHANGED <<disk, cur, todoKeys, ok, attempt, crashes>>

\* os.path.exists(line) is false: the entry is skipped.
SkipEntry(f) ==
    /\ pc = "restore"
    /\ f \in todoLog
    /\ bak[f] = Missing
    /\ todoLog' = todoLog \ {f}
    /\ UNCHANGED <<disk, pc, cur, todoKeys, ok, attempt, crashes>>

\* os.unlink of the patched file.
UnlinkPatched(f) ==
    /\ pc = "restore"
    /\ f \in todoLog
    /\ bak[f] # Missing
    /\ content[f] # Missing
    /\ content' = [content EXCEPT ![f] = Missing]
    /\ cur' = f
    /\ pc' = "copyBack"
    /\ UNCHANGED <<bak, log, todoLog, todoKeys, ok, attempt, crashes>>

\* Slip: the exception is swallowed and the next line handled.
UnlinkRaisesUnseen(f) ==
    /\ pc = "restore"
    /\ f \in todoLog
    /\ bak[f] # Missing
    /\ content[f] = Missing
    /\ todoLog' = todoLog \ {f}
    /\ UNCHANGED <<disk, pc, cur, todoKeys, ok, attempt, crashes>>

\* os.unlink raises FileNotFoundError: the run is over, nothing was restored.
UnlinkRaises(f) ==
    /\ pc = "restore"
    /\ f \in todoLog
    /\ bak[f] # Missing
    /\ content[f] = Missing
    /\ pc' = "stopped"
    /\ UNCHANGED <<disk, cur, todoLog, todoKeys, ok, attempt, crashes>>

\* shutil.copy(bak, original): the target is created, then filled.
OpenCopyBack ==
    /\ pc = "copyBack"
    /\ content' = [content EXCEPT ![cur] = Partial]
    /\ pc' = "copying"
    /\ UNCHANGED <<bak, log, cur, todoLog, todoKeys, ok, attempt, crashes>>

FillCopyBack ==
    /\ pc = "copying"
    /\ content' = [content EXCEPT ![cur] = bak[cur]]
    /\ pc' = "dropBak"
    /\ UNCHANGED <<bak, log, cur, todoLog, todoKeys, ok, attempt, crashes>>

DropBak ==
    /\ pc = "dropBak"
    /\ bak' = [bak EXCEPT ![cur] = Missing]
    /\ todoLog' = todoLog \ {cur}
    /\ pc' = "restore"
    /\ UNCHANGED <<content, log, cur, todoKeys, ok, attempt, crashes>>

\* Slip: the log goes after its first line.
DropLogEarly ==
    /\ pc = "restore"
    /\ log' = {}
    /\ pc' = "ready"
    /\ UNCHANGED <<content, bak, cur, todoLog, todoKeys, ok, attempt, crashes>>

\* Every line handled: the log itself is removed.
DropLog ==
    /\ pc = "restore"
    /\ todoLog = {}
    /\ log' = {}
    /\ pc' = "ready"
    /\ UNCHANGED <<content, bak, cur, todoLog, todoKeys, ok, attempt, crashes>>

RestoreStep ==
    \/ \E f \in Files : SkipEntry(f) \/ UnlinkPatched(f) \/ UnlinkRaises(f)
    \/ OpenCopyBack
    \/ FillCopyBack
    \/ DropBak
    \/ DropLog

-----------------------------------------------------------------------------
(* One attempt: the loop over the files of the answer, apply_patch for     *)
(* each of them.                                                           *)

\* An LLM answer names at least one key (an empty patch is rejected).
BeginAttempt ==
    /\ pc = "ready"
    /\ attempt < MaxAttempts
    /\ attempt' = attempt + 1
    /\ todoKeys' \in (SUBSET Keys) \ {{}}
    /\ ok' = TRUE
    /\ pc' = "apply"
    /\ UNCHANGED <<disk, cur, todoLog, crashes>>

\* apply_patch starts by removing a backup that is already there.
UnlinkOldBak(k) ==
    /\ pc = "apply"
    /\ k \in todoKeys
    /\ todoKeys' = todoKeys \ {k}
    /\ cur' = FileOf[k]
    /\ bak' = [bak EXCEPT ![FileOf[k]] = Missing]
    /\ pc' = "backup"
    /\ UNCHANGED <<content, log, todoLog, ok, attempt, crashes>>

\* Slip: the original is moved away, not copied.
OpenBackupMoves ==
    /\ pc = "backup"
    /\ content[cur] # Missing
    /\ bak' = [bak EXCEPT ![cur] = content[cur]]
    /\ content' = [content EXCEPT ![cur] = Missing]
    /\ pc' = "logging"
    /\ UNCHANGED <<log, cur, todoLog, todoKeys, ok, attempt, crashes>>

\* shutil.copy(original, bak): there must be an original to copy.
OpenBackup ==
    /\ pc = "backup"
    /\ content[cur] # Missing
    /\ bak' = [bak EXCEPT ![cur] = Partial]
    /\ pc' = "backingUp"
    /\ UNCHANGED <<content, log, cur, todoLog, todoKeys, ok, attempt, crashes>>

\* It raises otherwise; the caller notes it and goes on with the next key.
BackupRaises ==
    /\ pc = "backup"
    /\ content[cur] = Missing
    /\ ok' = FALSE
    /\ pc' = "apply"
    /\ UNCHANGED <<disk, cur, todoLog, todoKeys, attempt, crashes>>

FillBackup ==
    /\ pc = "backingUp"
    /\ bak' = [bak EXCEPT ![cur] = content[cur]]
    /\ pc' = "logging"
    /\ UNCHANGED <<content, log, cur, todoLog, todoKeys, ok, attempt, crashes>>

LogBackup ==
    /\ pc = "logging"
    /\ log' = log \cup {cur}
    /\ pc' = "merge"
    /\ UNCHANGED <<content, bak, cur, todoLog, todoKeys, ok, attempt, crashes>>

\* The PHP merge script gives up before it writes. It does so with die("..."),
\* whose exit status is 0; and apply_patch's return value is not looked at.
MergeGivesUp ==
    /\ pc = "merge"
    /\ pc' = "apply"
    /\ UNCHANGED <<disk, cur, todoLog, todoKeys, ok, attempt, crashes>>

\* file_put_contents onto the original path: truncate, then write.
OpenMerge ==
    /\ pc = "merge"
    /\ content' = [content EXCEPT ![cur] = Partial]
    /\ pc' = "writing"
    /\ UNCHANGED <<bak, log, cur, todoLog, todoKeys, ok, attempt, crashes>>

FillMerge ==
    /\ pc = "writing"
    /\ content' = [content EXCEPT ![cur] = attempt]
    /\ pc' = "apply"
    /\ UNCHANGED <<bak, log, cur, todoLog, todoKeys, ok, attempt, crashes>>

EndAttempt ==
    /\ pc = "apply"
    /\ todoKeys = {}
    /\ pc' = IF ok THEN "tested" ELSE "failed"
    /\ UNCHANGED <<disk, cur, todoLog, todoKeys, ok, attempt, crashes>>

AttemptStep ==
    \/ \E k \in Keys : UnlinkOldBak(k)
    \/ OpenBackup
    \/ BackupRaises
    \/ FillBackup
    \/ LogBackup
    \/ MergeGivesUp
    \/ OpenMerge
    \/ FillMerge
    \/ EndAttempt

-----------------------------------------------------------------------------
(* The driver: every run restores first, every further attempt and every   *)
(* further round restores before it applies anything.                      *)

StartRun == pc = "stopped" /\ BeginRestore

Retry == pc \in TestPcs \cup {"ready"} /\ BeginRestore

\* Success, the last attempt of the last round, the budget or an exception.
StopRun ==
    /\ pc \in TestPcs \cup {"ready"}
    /\ pc' = "stopped"
    /\ UNCHANGED <<disk, cur, todoLog, todoKeys, ok, attempt, crashes>>

\* The process is killed; the next run knows the disk only.
Crash ==
    /\ pc # "stopped"
    /\ crashes < MaxCrashes
    /\ crashes' = crashes + 1
    /\ pc' = "stopped"
    /\ UNCHANGED <<disk, cur, todoLog, todoKeys, ok, attempt>>

Next ==
    \/ StartRun
    \/ Retry
    \/ StopRun
    \/ RestoreStep
    \/ BeginAttempt
    \/ AttemptStep
    \/ Crash

Spec == Init /\ [][Next]_vars

\* The operator (or batch_patching.sh) starts another run, and a run that is
\* restoring goes on: it is straight-line code.
Fairness ==
    /\ WF_vars(StartRun)
    /\ WF_vars(RestoreStep)

FairSpec == Spec /\ Fairness

-----------------------------------------------------------------------------
(* Properties.                                                             *)

\* No two keys of an answer name the same file.
KeysDistinct == \A j, k \in Keys : FileOf[j] = FileOf[k] => j = k

\* apply_patch and restore_app_from_baks, with crashes anywhere between their
\* steps: at every moment the original text of every file of the application
\* is either in place or in a backup the log points to.
OriginalRecoverable ==
    \A f \in InApp :
        \/ content[f] = Original
        \/ f \in log /\ bak[f] = Original

\* What restore_app_from_baks would overwrite a file with is never a torn or
\* patched text: a backup the log points to is complete and original.
LoggedBackupsOriginal ==
    \A f \in log : bak[f] \in {Missing, Original}

\* When restore_app_from_baks has returned, the application is as shipped.
RestoredIsShipped ==
    pc = "ready" => \A f \in Files : content[f] = Shipped(f)

\* The code the POC and the fuzzer judge is the shipped application with the
\* files of the current attempt and of no earlier one, and with no torn file.
OnePatchUnderTest ==
    pc \in TestPcs => \A f \in Files : content[f] \in {Shipped(f), attempt}

\* The strengthening that makes the three safety properties above inductive:
\* what each step of the two operations may rely on.
MidRestore == pc \in {"copyBack", "copying", "dropBak"}

UntouchedKeys ==
    pc \in ApplyPcs =>
        \A k \in todoKeys : content[FileOf[k]] = Shipped(FileOf[k]) /\ FileOf[k] \notin log

CurrentFile ==
    /\ MidRestore => cur \in todoLog /\ bak[cur] = Original /\ cur \in InApp
    /\ pc = "dropBak" => content[cur] = Original
    /\ pc \in ApplyPcs \ {"apply"} => \A k \in todoKeys : FileOf[k] # cur
    /\ pc \in {"backup", "backingUp", "logging"} =>
            content[cur] = Shipped(cur) /\ cur \notin log
    /\ pc \in {"backingUp", "logging"} => cur \in InApp
    /\ pc = "logging" => bak[cur] = Original
    /\ pc \in {"merge", "writing"} => cur \in log /\ cur \in InApp /\ bak[cur] = Original

HandledEntries ==
    pc \in RestorePcs =>
        /\ todoLog \subseteq log
        /\ \A f \in InApp \ todoLog : content[f] = Original

EditedFiles ==
    pc \in ApplyPcs \cup TestPcs =>
        \A f \in Files :
            \/ content[f] \in {Shipped(f), attempt}
            \/ pc = "writing" /\ f = cur

MadeUpFiles == \A f \in Files \ InApp : content[f] = Missing /\ f \notin log

IInv ==
    /\ TypeOK
    /\ OriginalRecoverable
    /\ LoggedBackupsOriginal
    /\ RestoredIsShipped
    /\ pc = "ready" => log = {}
    /\ UntouchedKeys
    /\ CurrentFile
    /\ HandledEntries
    /\ EditedFiles
    /\ MadeUpFiles

\* However a run ended (success, failure, an exception while a patch was being
\* applied), the restore_app_from_baks of the next one does not raise: only a
\* process that is killed leaves a log it cannot work off.
RestoresUnlessKilled == pc = "stopped" /\ crashes = 0 ~> pc = "ready" \/ crashes > 0

-----------------------------------------------------------------------------
(* The store implements RevertibleApp.                                     *)

imageBar == [f \in Files |-> IF content[f] = Shipped(f) THEN "original" ELSE "modified"]

stageBar ==
    CASE pc = "stopped" -> "stopped"
      [] pc \in RestorePcs -> "reverting"
      [] pc \in TestPcs -> "sealed"
      [] OTHER -> "open"

App == INSTANCE RevertibleApp WITH image <- imageBar, stage <- stageBar

\* Seen file by file as original or modified, every step of the store is one
\* the pipeline promises: attempts open on the original application only, and
\* an application under test does not change.
ImplementsRevertibleApp == App!Spec
=============================================================================
