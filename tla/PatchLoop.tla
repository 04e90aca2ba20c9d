----------------------------- MODULE PatchLoop -----------------------------
(***************************************************************************)
(* The control flow of start_patching_loop.py: runs, each with rounds of   *)
(* localisation and slicing, each with attempts of generating a patch,     *)
(* applying it, running the POC and fuzzing it. One sequential process; pc *)
(* is the call it is about to make.                                        *)
(*                                                                         *)
(* The environment decides what the LLM answers, what the analyses find,   *)
(* what the POC sees and what the fuzzer reports. The application is       *)
(* reduced to which patch is in it (PatchStore has the files).             *)
(***************************************************************************)
EXTENDS Budget, Verdicts

CONSTANTS
    MaxRuns,        \* -n
    MaxRounds,      \* max_patching_attempts (3)
    MaxAttempts,    \* max_patch_attempts_per_round (10)
    MaxIterations,  \* of locate_vulnerability (5)
    ExploitLog,     \* the log the exploit leaves, or NoLog if it shows in the response
    OtherLogs

ASSUME LoopAssumption ==
    /\ MaxRuns \in Nat /\ MaxRounds \in Nat
    /\ MaxAttempts \in Nat /\ MaxIterations \in Nat

\* What is in the application's files.
Original == 0    \* no patch
Mixed    == -1   \* some files of a patch, or two patches on top of each other
\* n > 0: the n-th patch the LLM generated, all of it

VARIABLES
    pc,
    after,      \* where restore_app_from_baks returns to
    run, restart, assembled,
    round, iteration, attempt,
    budget,
    patches,    \* patches generated so far; the last one is the current one
    image,      \* what is in the application
    logged,     \* /tmp/patch_bak.log lists a backup
    preLog,     \* /tmp/pre_patch.log
    judged,     \* what was in the application when the POC accepted / the fuzzer passed
    archive,    \* /test/succeed_patches/<cve>: what was saved, None or Partial
    result      \* of the last run: none, success, failure

loopVars == <<run, restart, assembled, round, iteration, attempt>>
app      == <<image, logged>>
vars     == <<pc, after, loopVars, budget, patches, app, preLog, judged, archive, result>>

None    == -2
Partial == -3

Pcs == {"idle", "setup", "restoring", "restored", "prePoc", "assemble", "round", "locate", "examine",
        "slice", "attempt", "generate", "undo", "apply", "applied", "notApplied", "postPoc", "fuzz",
        "rejected", "misled", "roundFailed", "over"}

TypeOK ==
    /\ pc \in Pcs /\ after \in Pcs
    /\ run \in 0 .. MaxRuns /\ restart \in BOOLEAN /\ assembled \in BOOLEAN
    /\ round \in 0 .. MaxRounds
    /\ iteration \in 0 .. MaxIterations
    /\ attempt \in 0 .. MaxAttempts
    /\ budget \in BudgetType
    /\ patches \in Nat
    /\ image \in Nat \cup {Mixed}
    /\ logged \in BOOLEAN
    /\ preLog \in {ExploitLog, NoLog}
    /\ judged \in [poc : Int, fuzz : Int]
    /\ archive \in Nat \cup {None, Partial, Mixed}
    /\ result \in {"none", "success", "failure"}

Init ==
    /\ pc = "idle" /\ after = "idle"
    /\ run = 0 /\ restart \in BOOLEAN /\ assembled \in BOOLEAN
    /\ round = 0 /\ iteration = 0 /\ attempt = 0
    /\ budget = FreshBudget
    /\ patches = 0
    /\ image \in {Original, Mixed}     \* an earlier invocation may have left a patch,
    /\ logged \in BOOLEAN              \* and then it left a log, too
    /\ image # Original => logged
    /\ preLog = NoLog
    /\ judged = [poc |-> None, fuzz |-> None]
    /\ archive = None
    /\ result = "none"

Goto(label) == pc' = label

-----------------------------------------------------------------------------
(* main and execute_single_run.                                            *)

StartRun ==
    /\ pc \in {"idle", "over"}
    /\ run < MaxRuns
    /\ run' = run + 1
    /\ restart' = (restart \/ run > 0)
    /\ budget' = FreshBudget
    /\ round' = 0 /\ iteration' = 0 /\ attempt' = 0
    /\ preLog' = NoLog                 \* POCFactory() removes the file
    /\ judged' = [poc |-> None, fuzz |-> None]
    /\ result' = "none"
    /\ Goto("setup")
    /\ UNCHANGED <<after, assembled, patches, app, archive>>

Fail == Goto("over") /\ result' = "failure"

\* An exception before, or inside, a step that has no handler of its own.
Raises(label) ==
    /\ pc = label
    /\ Fail
    /\ UNCHANGED <<after, loopVars, budget, patches, app, preLog, judged, archive>>

\* restore_app_from_baks is called; without a log it does nothing.
CallRestore(next) ==
    /\ Goto("restoring")
    /\ after' = next

Setup ==
    /\ pc = "setup"
    /\ CallRestore(IF restart \/ ~assembled THEN "prePoc" ELSE "round")
    /\ UNCHANGED <<loopVars, budget, patches, app, preLog, judged, archive, result>>

PutBack ==
    /\ pc = "restoring"
    /\ image' = IF logged THEN Original ELSE image
    /\ logged' = FALSE
    /\ Goto("restored")
    /\ UNCHANGED <<after, loopVars, budget, patches, preLog, judged, archive, result>>

\* A file it wants to replace is gone: only a process that was killed leaves
\* such a log behind (PatchStore).
RestoreRaises ==
    /\ pc = "restoring"
    /\ image = Mixed
    /\ patches = 0
    /\ Fail
    /\ UNCHANGED <<after, loopVars, budget, patches, app, preLog, judged, archive>>

RestoreReturns ==
    /\ pc = "restored"
    /\ Goto(after)
    /\ UNCHANGED <<after, loopVars, budget, patches, app, preLog, judged, archive, result>>

\* verify_pre_patch_vulnerability: the script's exit code, and the log it left.
PrePoc ==
    /\ pc = "prePoc"
    /\ \E code \in {Clean, Detected, NoAnswer, Unexpected, TimedOut}, log \in {ExploitLog, NoLog} :
        /\ preLog' = log
        /\ IF PreContinues(code) THEN Goto("assemble") /\ UNCHANGED result ELSE Fail
    /\ UNCHANGED <<after, loopVars, budget, patches, app, judged, archive>>

\* Coverage blending may raise; the assembler's and the parser's errors are
\* caught and only reported.
Assemble ==
    /\ pc = "assemble"
    /\ assembled' = TRUE
    /\ Goto("round")
    /\ UNCHANGED <<after, run, restart, round, iteration, attempt, budget, patches, app,
                   preLog, judged, archive, result>>

-----------------------------------------------------------------------------
(* patching_loop_with_retry.                                               *)

BeginRound ==
    /\ pc = "round"
    /\ round < MaxRounds
    /\ round' = round + 1
    /\ iteration' = 0
    /\ attempt' = 0
    /\ IF WithinBudget(budget, 0) THEN Goto("locate") /\ UNCHANGED result ELSE Fail
    /\ UNCHANGED <<after, run, restart, assembled, budget, patches, app, preLog, judged,
                   archive>>

RoundsExhausted ==
    /\ pc = "round"
    /\ round = MaxRounds
    /\ Fail
    /\ UNCHANGED <<after, loopVars, budget, patches, app, preLog, judged, archive>>

\* One LLM call: refused for lack of budget, failed (nothing is charged), or
\* answered and charged. BudgetExceededException ends the run wherever it is
\* raised: no handler on its way restores the application.
Refused(call) == ~WithinBudget(budget, call.est)

\* Slip: the call is made before the budget is looked at.
AskUnchecked(call) == budget' = Charge(budget, call)

Ask(call) ==
    /\ WithinBudget(budget, call.est)
    /\ budget' = Charge(budget, call)

BudgetExceeded ==
    /\ pc \in {"locate", "examine", "generate"}
    /\ \E call \in Calls : Refused(call)
    /\ Fail
    /\ UNCHANGED <<after, loopVars, budget, patches, app, preLog, judged, archive>>

\* query_llm_for_file_path, then up to MaxIterations of examining a file.
AskForFile ==
    /\ pc = "locate"
    /\ \E call \in Calls : Ask(call)
    /\ pc' \in {"examine", "round"}    \* "round": no file in the answer
    /\ UNCHANGED <<after, loopVars, patches, app, preLog, judged, archive, result>>

AskForLine ==
    /\ pc = "examine"
    /\ iteration < MaxIterations
    /\ iteration' = iteration + 1
    /\ \E call \in Calls : Ask(call)
    /\ pc' \in {"examine", "slice", "round"}
    /\ UNCHANGED <<after, run, restart, assembled, round, attempt, patches, app, preLog,
                   judged, archive, result>>

\* The API fails (nothing is charged), there is nothing to read, or the last
\* iteration has not found the line.
NotLocated ==
    /\ pc \in {"locate", "examine"}
    /\ Goto("round")
    /\ UNCHANGED <<after, loopVars, budget, patches, app, preLog, judged, archive, result>>

\* No target node or no slice: the round is skipped.
Slice ==
    /\ pc = "slice"
    /\ pc' \in {"attempt", "round"}
    /\ UNCHANGED <<after, loopVars, budget, patches, app, preLog, judged, archive, result>>

\* Slip: the next round starts on what the last attempt left.
RoundFailsKeepingPatch ==
    /\ pc = "roundFailed"
    /\ Goto("round")
    /\ UNCHANGED <<after, loopVars, budget, patches, app, preLog, judged, archive, result>>

\* The application is restored between rounds, not after the last one.
RoundFails ==
    /\ pc = "roundFailed"
    /\ IF round < MaxRounds THEN CallRestore("round") ELSE Goto("round") /\ UNCHANGED after
    /\ UNCHANGED <<loopVars, budget, patches, app, preLog, judged, archive, result>>

-----------------------------------------------------------------------------
(* apply_patch_with_retry_loop_internal and one attempt of                 *)
(* generate_and_apply_patch_with_factory.                                  *)

\* Slip: an attempt that yields no patch is not counted.
BeginAttemptUncounted ==
    /\ pc = "attempt"
    /\ attempt < MaxAttempts
    /\ Goto("generate")
    /\ UNCHANGED <<after, loopVars, budget, patches, app, preLog, judged, archive, result>>

BeginAttempt ==
    /\ pc = "attempt"
    /\ attempt < MaxAttempts
    /\ IF WithinBudget(budget, 0)
       THEN attempt' = attempt + 1 /\ Goto("generate")
       ELSE attempt' = attempt /\ Goto("roundFailed")
    /\ UNCHANGED <<after, run, restart, assembled, round, iteration, budget, patches, app,
                   preLog, judged, archive, result>>

AttemptsExhausted ==
    /\ pc = "attempt"
    /\ attempt = MaxAttempts
    /\ Goto("roundFailed")
    /\ UNCHANGED <<after, loopVars, budget, patches, app, preLog, judged, archive, result>>

\* Where an attempt goes whose feedback is in the words of others: an "error" in the
\* LLM's answer, the details of a difference, Apache's log, the response to a crash.
Told == {"rejected", "misled"}

\* The answer is charged even when no patch can be read from it, or when it has an
\* "error" beside the patch.
Generate ==
    /\ pc = "generate"
    /\ \E call \in Calls : Ask(call)
    /\ \/ patches' = patches + 1 /\ Goto("undo")
       \/ patches' = patches /\ pc' \in Told
    /\ judged' = [poc |-> None, fuzz |-> None]
    /\ UNCHANGED <<after, loopVars, app, preLog, archive, result>>

GenerateFails ==
    /\ pc = "generate"
    /\ \E call \in Calls : ~Refused(call)
    /\ Goto("rejected")
    /\ UNCHANGED <<after, loopVars, budget, patches, app, preLog, judged, archive, result>>

\* "Restoring original files before applying new patch": from the second
\* attempt of a round on; the first relies on what came before.
UndoPrevious ==
    /\ pc = "undo"
    /\ IF attempt > 1 THEN CallRestore("apply") ELSE Goto("apply") /\ UNCHANGED after
    /\ UNCHANGED <<loopVars, budget, patches, app, preLog, judged, archive, result>>

\* Every file of the patch is written, some are, or none is. A merge script
\* that gives up goes unnoticed; a file that cannot be backed up does not, and
\* may have been the only one.
Apply ==
    /\ pc = "apply"
    /\ image' \in {IF image = Original THEN patches ELSE Mixed, Mixed, image}
    /\ logged' \in {logged, TRUE}
    /\ pc' \in {"applied", "notApplied"}
    /\ ~logged' => pc' = "notApplied" /\ image' = image
    /\ pc' = "notApplied" => image' # patches
    /\ UNCHANGED <<after, loopVars, budget, patches, preLog, judged, archive, result>>

EndApply ==
    /\ pc \in {"applied", "notApplied"}
    /\ Goto(IF pc = "applied" THEN "postPoc" ELSE "rejected")
    /\ UNCHANGED <<after, loopVars, budget, patches, app, preLog, judged, archive, result>>

\* Slip: the fuzzer runs whatever the POC showed.
PostPocUnread ==
    /\ pc = "postPoc"
    /\ Goto("fuzz")
    /\ UNCHANGED <<after, loopVars, budget, patches, app, preLog, judged, archive, result>>

\* verify_post_patch_vulnerability. A POC that is answered by the original code
\* detects what it detected before; one that is not answered may leave the log
\* of an earlier request behind.
PostPoc ==
    /\ pc = "postPoc"
    /\ \E code \in {Clean, Detected, NoAnswer, Unexpected, TimedOut},
          log \in {ExploitLog, NoLog} \cup OtherLogs :
        /\ image = Original =>
              code # Clean /\ (code = Detected => log \in {ExploitLog, preLog})
        /\ IF Accepted(PostVerdict(preLog, log, code))
           THEN Goto("fuzz") /\ judged' = [judged EXCEPT !.poc = image]
           ELSE Goto("rejected") /\ UNCHANGED judged
    /\ UNCHANGED <<after, loopVars, budget, patches, app, preLog, archive, result>>

\* verify_differential_fuzzing passes; the archive directory is replaced, and
\* an error while it is being removed or filled is swallowed.
FuzzPasses ==
    /\ pc = "fuzz"
    /\ judged' = [judged EXCEPT !.fuzz = image]
    /\ archive' \in {image, None, Partial, archive}
    /\ result' = "success"
    /\ Goto("over")
    /\ UNCHANGED <<after, loopVars, budget, patches, app, preLog>>

\* Slip: the archive is filled before the verdict is looked at.
FuzzFailsArchived ==
    /\ pc = "fuzz"
    /\ archive' = image
    /\ Goto("rejected")
    /\ UNCHANGED <<after, loopVars, budget, patches, app, preLog, judged, result>>

\* It reports a difference, an error or a crash, or raises.
FuzzFails ==
    /\ pc = "fuzz"
    /\ pc' \in Told
    /\ UNCHANGED <<after, loopVars, budget, patches, app, preLog, judged, archive, result>>

\* The feedback goes into the next prompt of the round.
Reject ==
    /\ pc = "rejected"
    /\ Goto("attempt")
    /\ UNCHANGED <<after, loopVars, budget, patches, app, preLog, judged, archive, result>>

\* Feedback with "Please check the targets and try again." in it: while True, a line is
\* printed every five seconds.
PrintForever ==
    /\ pc = "misled"
    /\ UNCHANGED vars

-----------------------------------------------------------------------------

RaisingPcs == {"setup", "prePoc", "assemble", "slice", "postPoc"}

Next ==
    \/ StartRun \/ Setup \/ PutBack \/ RestoreRaises \/ RestoreReturns \/ PrePoc \/ Assemble
    \/ \E label \in RaisingPcs : Raises(label)
    \/ BeginRound \/ RoundsExhausted \/ AskForFile \/ AskForLine \/ NotLocated \/ Slice \/ RoundFails
    \/ BudgetExceeded
    \/ BeginAttempt \/ AttemptsExhausted \/ Generate \/ GenerateFails \/ UndoPrevious
    \/ Apply \/ EndApply \/ PostPoc \/ FuzzPasses \/ FuzzFails \/ Reject \/ PrintForever

Spec == Init /\ [][Next]_vars

\* One process, every call of which returns: LLM calls, the POC and the fuzzer
\* all have timeouts.
FairSpec == Spec /\ WF_vars(Next)

-----------------------------------------------------------------------------
(* Properties.                                                             *)

\* A run that succeeds leaves in the application exactly the code that both the
\* POC and the fuzzer judged in this attempt.
SuccessWasJudged ==
    result = "success" => judged.poc = image /\ judged.fuzz = image

\* The archive is emptied, begun or replaced only for code that both the POC and the
\* fuzzer have judged, and is never filled with other code: an attempt that fails in a
\* later run leaves alone what an earlier one has archived.
ArchiveWasJudged ==
    [][archive' # archive => /\ judged'.poc = image' /\ judged'.fuzz = image'
                             /\ archive' \in {image', Partial, None}]_vars

\* The budget is overrun by at most what one call costs beyond its estimate.
Overruns == {c.input + c.output - c.est : c \in Calls}
CostOverruns ==
    {c.input * InputPrice + c.output * OutputPrice - c.est * EstimatePrice : c \in Calls}

BudgetBounded ==
    /\ budget.tokens <= MaxTokens \/ \E d \in Overruns : budget.tokens <= MaxTokens + d
    /\ budget.cost <= MaxCost \/ \E d \in CostOverruns : budget.cost <= MaxCost + d

\* Every run ends with a result, unless the text of an LLM, a page or a log gets it into
\* the loop that prints for ever.
RunEnds == pc = "setup" ~> (pc = "over" /\ result # "none") \/ pc = "misled"

-----------------------------------------------------------------------------
(* The loop drives RevertibleApp: one file stands for the application.     *)

imageBar == [f \in {"app"} |-> IF image = Original THEN "original" ELSE "modified"]

\* An attempt seals the application when its files are written; it stays sealed
\* (there is a log of backups) until restore_app_from_baks is called.
stageBar ==
    CASE pc \in {"idle", "setup", "over"} -> "stopped"
      [] pc \in {"restoring", "restored"} -> "reverting"
      [] pc \in {"apply", "applied", "notApplied"} -> "open"
      [] OTHER -> IF logged THEN "sealed" ELSE "open"

App == INSTANCE RevertibleApp WITH Files <- {"app"}, image <- imageBar, stage <- stageBar

\* "as we restart from original unmodified app code each time", says the prompt:
\* the loop edits the application only between a restore and the verdict on the
\* patch it writes, and whichever way an attempt, a round or a run ends, the next
\* patch meets the original code.
ImplementsRevertibleApp == App!Spec
=============================================================================
