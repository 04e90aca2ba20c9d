--------------------------- MODULE PatchLoopProofs ---------------------------
(***************************************************************************)
(* The patching loop, for any numbers of runs, rounds, attempts and        *)
(* iterations, any budget, any calls and any logs: a run that announces    *)
(* success leaves the code that the POC and the fuzzer judged, the archive *)
(* holds nothing else, the budget is overrun by one call at most, and the  *)
(* loop drives RevertibleApp. The argument for the last is where the log   *)
(* of backups is known to be empty: at every place from which an attempt   *)
(* can open without a restore before it.                                   *)
(***************************************************************************)
EXTENDS PatchLoop, TLAPS

\* Without a log of backups there is nothing to restore.
Restored == ~logged => image = Original

\* Where the log is empty.
Clear ==
    /\ pc \in {"restored", "prePoc", "assemble", "locate", "examine", "slice", "apply"} => ~logged
    /\ pc = "round" => ~logged \/ round = MaxRounds
    /\ pc = "attempt" /\ attempt = 0 => ~logged
    /\ pc \in {"generate", "undo"} /\ attempt <= 1 => ~logged

\* Where an attempt is under way, and what a restore returns to.
Places ==
    /\ pc \in {"generate", "undo", "apply", "applied", "notApplied", "postPoc", "fuzz", "rejected"}
           => attempt >= 1
    /\ pc \in {"restoring", "restored"} => after \in {"prePoc", "round", "apply"}
    /\ pc \in {"restoring", "restored"} /\ after = "apply" => attempt >= 1

\* Nothing touches the application between the verdicts and the end of the run.
Judged ==
    /\ result = "success" => pc = "over"
    /\ pc = "fuzz" => judged.poc = image

LoopInv == TypeOK /\ Restored /\ Clear /\ Places /\ Judged /\ SuccessWasJudged /\ BudgetBounded

-----------------------------------------------------------------------------
\* What is charged for a call.
LEMMA ChargeType ==
    ASSUME NEW b \in BudgetType, NEW call \in Calls
    PROVE  Charge(b, call) \in BudgetType
  <1>1. /\ b.tokens \in Nat /\ b.cost \in Nat /\ call.input \in Nat /\ call.output \in Nat
        /\ InputPrice \in Nat /\ OutputPrice \in Nat
    BY BudgetAssumption DEF BudgetType
  <1>2. \A x, y \in Nat : x * y \in Nat
    OBVIOUS
  <1>3. call.input * InputPrice \in Nat /\ call.output * OutputPrice \in Nat
    BY <1>1, <1>2
  <1>4. /\ b.tokens + call.input + call.output \in Nat
        /\ b.cost + call.input * InputPrice + call.output * OutputPrice \in Nat
    BY <1>1, <1>3
  <1>. QED BY <1>4 DEF Charge, BudgetType

\* The invariant holds before the first run.
LEMMA LoopInitially == Init => LoopInv
  <1> SUFFICES ASSUME Init PROVE LoopInv
    OBVIOUS
  <1>1. TypeOK
    <2>1. FreshBudget \in BudgetType
      BY DEF FreshBudget, BudgetType
    <2>. QED BY <2>1, LoopAssumption DEF Init, TypeOK, Pcs, Original, Mixed, None
  <1>2. Restored /\ Clear /\ Places /\ Judged /\ SuccessWasJudged
    BY DEF Init, Restored, Clear, Places, Judged, SuccessWasJudged
  <1>3. BudgetBounded
    BY BudgetAssumption DEF Init, BudgetBounded, FreshBudget
  <1>. QED BY <1>1, <1>2, <1>3 DEF LoopInv

\* Type correctness.
LEMMA TypeStep == LoopInv /\ [Next]_vars => TypeOK'
  <1> SUFFICES ASSUME LoopInv, [Next]_vars PROVE TypeOK'
    OBVIOUS
  <1> USE LoopAssumption
      DEF LoopInv, Goto, Fail, CallRestore, loopVars, app, TypeOK, Pcs, RaisingPcs, Original,
          Mixed, None, Partial
  <1>1. CASE StartRun
    <2>1. FreshBudget \in BudgetType
      BY DEF FreshBudget, BudgetType
    <2>. QED BY <1>1, <2>1 DEF StartRun
  <1>2. CASE Setup
    BY <1>2 DEF Setup
  <1>3. CASE PutBack
    <2>1. image' \in {Original, image} /\ logged' \in BOOLEAN
      BY <1>3 DEF PutBack
    <2>2. UNCHANGED <<after, loopVars, budget, patches, preLog, judged, archive, result>>
      BY <1>3 DEF PutBack
    <2>. QED BY <1>3, <2>1, <2>2 DEF PutBack
  <1>4. CASE RestoreRaises
    BY <1>4 DEF RestoreRaises
  <1>5. CASE RestoreReturns
    BY <1>5 DEF RestoreReturns
  <1>6. CASE PrePoc
    BY <1>6 DEF PrePoc
  <1>7. CASE Assemble
    BY <1>7 DEF Assemble
  <1>8. ASSUME NEW label \in RaisingPcs, Raises(label) PROVE TypeOK'
    BY <1>8 DEF Raises
  <1>9. CASE BeginRound
    BY <1>9 DEF BeginRound
  <1>10. CASE RoundsExhausted
    BY <1>10 DEF RoundsExhausted
  <1>11. CASE AskForFile
    <2>1. budget' \in BudgetType
      BY <1>11, ChargeType DEF AskForFile, Ask
    <2>. QED BY <1>11, <2>1 DEF AskForFile
  <1>12. CASE AskForLine
    <2>1. budget' \in BudgetType
      BY <1>12, ChargeType DEF AskForLine, Ask
    <2>. QED BY <1>12, <2>1 DEF AskForLine
  <1>13. CASE NotLocated
    BY <1>13 DEF NotLocated
  <1>14. CASE Slice
    BY <1>14 DEF Slice
  <1>15. CASE RoundFails
    BY <1>15 DEF RoundFails
  <1>16. CASE BudgetExceeded
    BY <1>16 DEF BudgetExceeded
  <1>17. CASE BeginAttempt
    BY <1>17 DEF BeginAttempt
  <1>18. CASE AttemptsExhausted
    BY <1>18 DEF AttemptsExhausted
  <1>19. CASE Generate
    <2>1. budget' \in BudgetType
      BY <1>19, ChargeType DEF Generate, Ask
    <2>. QED BY <1>19, <2>1 DEF Generate, Told
  <1>20. CASE GenerateFails
    BY <1>20 DEF GenerateFails
  <1>21. CASE UndoPrevious
    BY <1>21 DEF UndoPrevious
  <1>22. CASE Apply
    <2>1. image' \in {patches, Mixed, image} /\ logged' \in BOOLEAN
      BY <1>22 DEF Apply
    <2>2. pc' \in Pcs /\ UNCHANGED <<after, loopVars, budget, patches, preLog, judged, archive, result>>
      BY <1>22 DEF Apply
    <2>. QED BY <2>1, <2>2
  <1>23. CASE EndApply
    BY <1>23 DEF EndApply
  <1>24. CASE PostPoc
    BY <1>24 DEF PostPoc
  <1>25. CASE FuzzPasses
    BY <1>25 DEF FuzzPasses
  <1>26. CASE FuzzFails
    BY <1>26 DEF FuzzFails, Told
  <1>27. CASE Reject
    BY <1>27 DEF Reject
  <1>28. CASE PrintForever \/ UNCHANGED vars
    BY <1>28 DEF PrintForever, vars
  <1>. QED BY <1>1, <1>2, <1>3, <1>4, <1>5, <1>6, <1>7, <1>8, <1>9, <1>10, <1>11, <1>12, <1>13,
              <1>14, <1>15, <1>16, <1>17, <1>18, <1>19, <1>20, <1>21, <1>22, <1>23, <1>24,
              <1>25, <1>26, <1>27, <1>28 DEF Next

\* Where the log is empty, step by step.
LEMMA ClearStep == LoopInv /\ [Next]_vars => (Restored /\ Clear /\ Places)'
  <1> SUFFICES ASSUME LoopInv, [Next]_vars PROVE (Restored /\ Clear /\ Places)'
    OBVIOUS
  <1> USE LoopAssumption
      DEF LoopInv, Goto, Fail, CallRestore, loopVars, app, Restored, Clear, Places, TypeOK,
          RaisingPcs, Original, Mixed
  <1>1. CASE StartRun
    BY <1>1 DEF StartRun
  <1>2. CASE Setup
    BY <1>2 DEF Setup
  <1>3. CASE PutBack
    BY <1>3 DEF PutBack
  <1>4. CASE RestoreRaises
    BY <1>4 DEF RestoreRaises
  <1>5. CASE RestoreReturns
    BY <1>5 DEF RestoreReturns
  <1>6. CASE PrePoc
    BY <1>6 DEF PrePoc
  <1>7. CASE Assemble
    BY <1>7 DEF Assemble
  <1>8. ASSUME NEW label \in RaisingPcs, Raises(label) PROVE (Restored /\ Clear /\ Places)'
    BY <1>8 DEF Raises
  <1>9. CASE BeginRound
    BY <1>9 DEF BeginRound
  <1>10. CASE RoundsExhausted
    BY <1>10 DEF RoundsExhausted
  <1>11. CASE AskForFile
    BY <1>11 DEF AskForFile
  <1>12. CASE AskForLine
    BY <1>12 DEF AskForLine
  <1>13. CASE NotLocated
    BY <1>13 DEF NotLocated
  <1>14. CASE Slice
    BY <1>14 DEF Slice
  <1>15. CASE RoundFails
    BY <1>15 DEF RoundFails
  <1>16. CASE BudgetExceeded
    BY <1>16 DEF BudgetExceeded
  <1>17. CASE BeginAttempt
    BY <1>17 DEF BeginAttempt
  <1>18. CASE AttemptsExhausted
    BY <1>18 DEF AttemptsExhausted
  <1>19. CASE Generate
    BY <1>19 DEF Generate, Told
  <1>20. CASE GenerateFails
    BY <1>20 DEF GenerateFails
  <1>21. CASE UndoPrevious
    BY <1>21 DEF UndoPrevious
  <1>22. CASE Apply
    BY <1>22 DEF Apply
  <1>23. CASE EndApply
    BY <1>23 DEF EndApply
  <1>24. CASE PostPoc
    BY <1>24 DEF PostPoc
  <1>25. CASE FuzzPasses
    BY <1>25 DEF FuzzPasses
  <1>26. CASE FuzzFails
    BY <1>26 DEF FuzzFails, Told
  <1>27. CASE Reject
    BY <1>27 DEF Reject
  <1>28. CASE PrintForever \/ UNCHANGED vars
    BY <1>28 DEF PrintForever, vars
  <1>. QED BY <1>1, <1>2, <1>3, <1>4, <1>5, <1>6, <1>7, <1>8, <1>9, <1>10, <1>11, <1>12, <1>13,
              <1>14, <1>15, <1>16, <1>17, <1>18, <1>19, <1>20, <1>21, <1>22, <1>23, <1>24,
              <1>25, <1>26, <1>27, <1>28 DEF Next

\* What was judged is what is there.
LEMMA JudgedStep == LoopInv /\ [Next]_vars => (Judged /\ SuccessWasJudged)'
  <1> SUFFICES ASSUME LoopInv, [Next]_vars PROVE (Judged /\ SuccessWasJudged)'
    OBVIOUS
  <1> USE LoopAssumption
      DEF LoopInv, Goto, Fail, CallRestore, loopVars, app, Judged, SuccessWasJudged, TypeOK,
          RaisingPcs, None, Original, Mixed
  <1>1. CASE StartRun
    BY <1>1 DEF StartRun
  <1>2. CASE Setup
    BY <1>2 DEF Setup
  <1>3. CASE PutBack
    BY <1>3 DEF PutBack
  <1>4. CASE RestoreRaises
    BY <1>4 DEF RestoreRaises
  <1>5. CASE RestoreReturns
    BY <1>5 DEF RestoreReturns, Places
  <1>6. CASE PrePoc
    BY <1>6 DEF PrePoc
  <1>7. CASE Assemble
    BY <1>7 DEF Assemble
  <1>8. ASSUME NEW label \in RaisingPcs, Raises(label) PROVE (Judged /\ SuccessWasJudged)'
    BY <1>8 DEF Raises
  <1>9. CASE BeginRound
    BY <1>9 DEF BeginRound
  <1>10. CASE RoundsExhausted
    BY <1>10 DEF RoundsExhausted
  <1>11. CASE AskForFile
    BY <1>11 DEF AskForFile
  <1>12. CASE AskForLine
    BY <1>12 DEF AskForLine
  <1>13. CASE NotLocated
    BY <1>13 DEF NotLocated
  <1>14. CASE Slice
    BY <1>14 DEF Slice
  <1>15. CASE RoundFails
    BY <1>15 DEF RoundFails
  <1>16. CASE BudgetExceeded
    BY <1>16 DEF BudgetExceeded
  <1>17. CASE BeginAttempt
    BY <1>17 DEF BeginAttempt
  <1>18. CASE AttemptsExhausted
    BY <1>18 DEF AttemptsExhausted
  <1>19. CASE Generate
    BY <1>19 DEF Generate, Told
  <1>20. CASE GenerateFails
    BY <1>20 DEF GenerateFails
  <1>21. CASE UndoPrevious
    BY <1>21 DEF UndoPrevious
  <1>22. CASE Apply
    BY <1>22 DEF Apply
  <1>23. CASE EndApply
    BY <1>23 DEF EndApply
  <1>24. CASE PostPoc
    BY <1>24 DEF PostPoc
  <1>25. CASE FuzzPasses
    BY <1>25 DEF FuzzPasses
  <1>26. CASE FuzzFails
    BY <1>26 DEF FuzzFails, Told
  <1>27. CASE Reject
    BY <1>27 DEF Reject
  <1>28. CASE PrintForever \/ UNCHANGED vars
    BY <1>28 DEF PrintForever, vars
  <1>. QED BY <1>1, <1>2, <1>3, <1>4, <1>5, <1>6, <1>7, <1>8, <1>9, <1>10, <1>11, <1>12, <1>13,
              <1>14, <1>15, <1>16, <1>17, <1>18, <1>19, <1>20, <1>21, <1>22, <1>23, <1>24,
              <1>25, <1>26, <1>27, <1>28 DEF Next

\* A call that was let through overruns by what it costs beyond its estimate.
LEMMA AskBounded ==
    ASSUME LoopInv, NEW call \in Calls, Ask(call)
    PROVE  BudgetBounded'
  <1> DEFINE d == call.input + call.output - call.est
             c == call.input * InputPrice + call.output * OutputPrice - call.est * EstimatePrice
  <1>1. d \in Overruns /\ c \in CostOverruns
    BY DEF Overruns, CostOverruns
  <1>2. /\ budget.tokens + call.est <= MaxTokens
        /\ budget.cost + call.est * EstimatePrice <= MaxCost
        /\ budget'.tokens = budget.tokens + call.input + call.output
        /\ budget'.cost = budget.cost + call.input * InputPrice + call.output * OutputPrice
    BY DEF Ask, WithinBudget, Charge
  <1>3. /\ budget.tokens \in Nat /\ budget.cost \in Nat
        /\ call.est \in Nat /\ call.input \in Nat /\ call.output \in Nat
        /\ InputPrice \in Nat /\ OutputPrice \in Nat /\ EstimatePrice \in Nat
        /\ MaxTokens \in Nat /\ MaxCost \in Nat
    BY BudgetAssumption DEF LoopInv, TypeOK, BudgetType
  <1>4. budget'.tokens <= MaxTokens + d
    BY <1>2, <1>3
  <1>5. \A x, y \in Nat : x * y \in Nat
    OBVIOUS
  <1>6. budget'.cost <= MaxCost + c
    <2>1. ASSUME NEW p \in Nat, NEW q \in Nat, NEW r \in Nat, NEW b \in Nat, NEW m \in Nat, b + r <= m
          PROVE  b + p + q <= m + (p + q - r)
      BY <2>1
    <2>2. /\ call.input * InputPrice \in Nat /\ call.output * OutputPrice \in Nat
          /\ call.est * EstimatePrice \in Nat
      BY <1>3, <1>5
    <2>. QED BY <1>2, <1>3, <2>1, <2>2
  <1> HIDE DEF d, c
  <1>. QED BY <1>1, <1>4, <1>6 DEF BudgetBounded

\* Every step keeps the budget within its bound.
LEMMA BudgetStep == LoopInv /\ [Next]_vars => BudgetBounded'
  <1> SUFFICES ASSUME LoopInv, [Next]_vars PROVE BudgetBounded'
    OBVIOUS
  <1>1. CASE UNCHANGED budget
    BY <1>1 DEF LoopInv, BudgetBounded
  <1>2. CASE StartRun
    BY <1>2, BudgetAssumption DEF StartRun, FreshBudget, BudgetBounded
  <1>3. CASE AskForFile \/ AskForLine \/ Generate
    <2>1. PICK call \in Calls : Ask(call)
      BY <1>3 DEF AskForFile, AskForLine, Generate
    <2>. QED BY <2>1, AskBounded
  <1>. QED BY <1>1, <1>2, <1>3 DEF Next, vars, Setup, PutBack, RestoreRaises, RestoreReturns, PrePoc,
              Assemble, Raises, BeginRound, RoundsExhausted, NotLocated, Slice, RoundFails,
              BudgetExceeded, BeginAttempt, AttemptsExhausted, GenerateFails, UndoPrevious, Apply,
              EndApply, PostPoc, FuzzPasses, FuzzFails, Reject, PrintForever

-----------------------------------------------------------------------------
\* The strengthened invariant of the loop.
THEOREM LoopInvariant == Spec => []LoopInv
  <1>1. LoopInv /\ [Next]_vars => LoopInv'
    BY TypeStep, ClearStep, JudgedStep, BudgetStep DEF LoopInv
  <1>. QED BY <1>1, LoopInitially, PTL DEF Spec

\* Every variable of the loop keeps its type.
THEOREM LoopTypeCorrect == Spec => []TypeOK
  <1>1. LoopInv => TypeOK BY DEF LoopInv
  <1>. QED BY <1>1, LoopInvariant, PTL

\* A run that succeeds leaves the code that was judged.
THEOREM LoopSuccessWasJudged == Spec => []SuccessWasJudged
  <1>1. LoopInv => SuccessWasJudged BY DEF LoopInv
  <1>. QED BY <1>1, LoopInvariant, PTL

\* No more than one call's excess is spent beyond the budget.
THEOREM LoopBudgetBounded == Spec => []BudgetBounded
  <1>1. LoopInv => BudgetBounded BY DEF LoopInv
  <1>. QED BY <1>1, LoopInvariant, PTL

\* The archive, as an action.
Archived ==
    archive' # archive => /\ judged'.poc = image' /\ judged'.fuzz = image'
                          /\ archive' \in {image', Partial, None}

\* The archive is touched only for code that passed both.
THEOREM LoopArchiveWasJudged == Spec => ArchiveWasJudged
  <1>1. LoopInv /\ [Next]_vars => [Archived]_vars
    <2> SUFFICES ASSUME LoopInv, Next PROVE Archived
      BY DEF vars
    <2>1. CASE FuzzPasses
      BY <2>1 DEF FuzzPasses, Archived, LoopInv, Judged, TypeOK, app
    <2>2. CASE UNCHANGED archive
      BY <2>2 DEF Archived
    <2>. QED BY <2>1, <2>2 DEF Next, StartRun, Setup, PutBack, RestoreRaises, RestoreReturns, PrePoc,
              Assemble, Raises, BeginRound, RoundsExhausted, AskForFile, AskForLine, NotLocated, Slice,
              RoundFails, BudgetExceeded, BeginAttempt, AttemptsExhausted, Generate, GenerateFails,
              UndoPrevious, Apply, EndApply, PostPoc, FuzzFails, Reject, PrintForever, vars
  <1>. QED BY <1>1, LoopInvariant, PTL DEF Spec, ArchiveWasJudged, Archived


-----------------------------------------------------------------------------
(* The refinement: every step of the loop is a step of RevertibleApp, or   *)
(* leaves its two mapped variables alone.                                  *)

\* The loop starts with a stopped application, patched or not.
LEMMA LoopInitMapsToInit == Init => App!Init
  BY DEF Init, App!Init, imageBar, stageBar

\* The application's one bit may be written to anything.
LEMMA OneBitChanges ==
    \E f \in {"app"}, v \in {"original", "modified"} : imageBar' = [imageBar EXCEPT ![f] = v]
  <1> DEFINE v == IF image' = Original THEN "original" ELSE "modified"
  <1>1. imageBar' = [imageBar EXCEPT !["app"] = v]
    BY DEF imageBar
  <1>2. v \in {"original", "modified"}
    OBVIOUS
  <1> HIDE DEF v
  <1>. QED BY <1>1, <1>2

\* A step that ends the run, whatever the stage.
LEMMA OverHalts == pc' = "over" /\ image' = image => App!Halt
  BY DEF App!Halt, stageBar, imageBar

\* A step between two places of a run that leaves the application and its log
\* alone does not show.
Between == Pcs \ {"idle", "setup", "over", "restoring", "restored", "apply", "applied", "notApplied"}

\* Steps within a run that touch neither image nor log are stutters of the abstract application.
LEMMA BetweenStutters ==
    pc \in Between /\ pc' \in Between /\ image' = image /\ logged' = logged => UNCHANGED App!vars
  <1> SUFFICES ASSUME pc \in Between, pc' \in Between, image' = image, logged' = logged
               PROVE  imageBar' = imageBar /\ stageBar' = stageBar
    BY DEF App!vars
  <1>1. imageBar' = imageBar
    BY DEF imageBar
  <1>2. stageBar = (IF logged THEN "sealed" ELSE "open")
    BY DEF stageBar, Between
  <1>3. stageBar' = (IF logged' THEN "sealed" ELSE "open")
    BY DEF stageBar, Between
  <1>. QED BY <1>1, <1>2, <1>3

\* A step that calls restore_app_from_baks.
LEMMA RestoringReverts == pc' = "restoring" /\ image' = image => App!Revert
  BY DEF App!Revert, stageBar, imageBar

\* Each step of the loop is a step of RevertibleApp or a stuttering one. That the
\* return of a restore, and the first attempt of a round, find original code needs
\* the invariant.
LEMMA LoopStepMapsToStep ==
    ASSUME LoopInv, [Next]_vars
    PROVE  [App!Next]_(App!vars)
  <1> USE DEF Goto, Fail, CallRestore, app
  <1>0. TypeOK /\ Restored /\ Clear /\ Places
    BY DEF LoopInv
  <1>1. CASE StartRun
    BY <1>1 DEF StartRun, App!vars, imageBar, stageBar
  <1>2. CASE Setup
    BY <1>2, RestoringReverts DEF Setup, App!Next
  <1>3. CASE PutBack
    <2>1. stageBar = "reverting" /\ stageBar' = "reverting"
      BY <1>3 DEF PutBack, stageBar
    <2>. QED BY <2>1, OneBitChanges DEF App!PutBack, App!Next
  <1>4. CASE RestoreReturns
    <2>1. ~logged /\ image = Original /\ after \in {"prePoc", "round", "apply"}
      BY <1>0, <1>4 DEF RestoreReturns, Restored, Clear, Places
    <2>2. stageBar = "reverting" /\ stageBar' = "open" /\ imageBar' = imageBar
      BY <1>4, <2>1 DEF RestoreReturns, stageBar, imageBar
    <2>3. App!AllOriginal
      BY <2>1 DEF App!AllOriginal, imageBar
    <2>. QED BY <2>2, <2>3 DEF App!Open, App!Next
  <1>5. CASE RestoreRaises \/ RoundsExhausted \/ BudgetExceeded \/ FuzzPasses
            \/ \E label \in RaisingPcs : Raises(label)
    <2>1. pc' = "over" /\ image' = image
      BY <1>5 DEF RestoreRaises, RoundsExhausted, BudgetExceeded, FuzzPasses, Raises
    <2>. QED BY <2>1, OverHalts DEF App!Next
  <1>6. CASE PrePoc \/ BeginRound
    <2>1. pc' = "over" \/ (pc \in Between /\ pc' \in Between)
      BY <1>6 DEF PrePoc, BeginRound, Between, Pcs
    <2>2. image' = image /\ logged' = logged
      BY <1>6 DEF PrePoc, BeginRound
    <2>. QED BY <2>1, <2>2, OverHalts, BetweenStutters DEF App!Next
  <1>7. CASE Assemble \/ NotLocated \/ Slice \/ AttemptsExhausted \/ GenerateFails
            \/ PostPoc \/ FuzzFails \/ Reject
    <2>1. pc \in Between /\ pc' \in Between
      BY <1>7 DEF Assemble, NotLocated, Slice, AttemptsExhausted, GenerateFails, PostPoc,
                  FuzzFails, Told, Reject, Between, Pcs
    <2>2. image' = image /\ logged' = logged
      BY <1>7 DEF Assemble, NotLocated, Slice, AttemptsExhausted, GenerateFails, PostPoc,
                  FuzzFails, Reject
    <2>. QED BY <2>1, <2>2, BetweenStutters
  <1>8. CASE AskForFile \/ AskForLine \/ BeginAttempt \/ Generate
    <2>1. pc \in Between /\ pc' \in Between
      BY <1>8 DEF AskForFile, AskForLine, BeginAttempt, Generate, Told, Between, Pcs
    <2>2. image' = image /\ logged' = logged
      BY <1>8 DEF AskForFile, AskForLine, BeginAttempt, Generate
    <2>. QED BY <2>1, <2>2, BetweenStutters
  <1>9. CASE RoundFails
    <2>1. CASE round < MaxRounds
      BY <1>9, <2>1, RestoringReverts DEF RoundFails, App!Next
    <2>2. CASE ~(round < MaxRounds)
      <3>1. pc \in Between /\ pc' \in Between /\ image' = image /\ logged' = logged
        BY <1>9, <2>2 DEF RoundFails, Between, Pcs
      <3>. QED BY <3>1, BetweenStutters
    <2>. QED BY <2>1, <2>2
  <1>10. CASE UndoPrevious
    <2>1. CASE attempt > 1
      BY <1>10, <2>1, RestoringReverts DEF UndoPrevious, App!Next
    <2>2. CASE ~(attempt > 1)
      <3>1. ~logged
        BY <1>0, <1>10, <2>2 DEF UndoPrevious, Clear, TypeOK
      <3>2. pc = "undo" /\ pc' = "apply" /\ image' = image
        BY <1>10, <2>2 DEF UndoPrevious
      <3>. QED BY <3>1, <3>2 DEF stageBar, imageBar, App!vars
    <2>. QED BY <2>1, <2>2
  <1>11. CASE Apply
    <2>1. stageBar = "open" /\ stageBar' = "open"
      BY <1>11 DEF Apply, stageBar
    <2>. QED BY <2>1, OneBitChanges DEF App!Edit, App!Next
  <1>12. CASE EndApply
    <2>1. stageBar = "open" /\ stageBar' \in {"open", "sealed"} /\ imageBar' = imageBar
      BY <1>12 DEF EndApply, stageBar, imageBar
    <2>. QED BY <2>1 DEF App!Seal, App!Next, App!vars
  <1>13. CASE PrintForever \/ UNCHANGED vars
    BY <1>13 DEF PrintForever, vars, imageBar, stageBar, App!vars
  <1>. QED BY <1>1, <1>2, <1>3, <1>4, <1>5, <1>6, <1>7, <1>8, <1>9, <1>10, <1>11, <1>12,
              <1>13 DEF Next

\* The loop implements RevertibleApp: a patch is written to original code only,
\* and an application under test is left alone.
THEOREM LoopImplementsRevertibleApp == Spec => ImplementsRevertibleApp
  <1>1. Init => App!Init
    BY LoopInitMapsToInit
  <1>2. LoopInv /\ [Next]_vars => [App!Next]_(App!vars)
    BY LoopStepMapsToStep
  <1>. QED BY <1>1, <1>2, LoopInvariant, PTL DEF Spec, App!Spec, ImplementsRevertibleApp

-----------------------------------------------------------------------------
(* That the loop comes to an end.                                          *)

\* The places of a run in the order in which they come, the last one first; a restore
\* takes two steps to where it returns to.
Place(label) ==
    CASE label = "round" -> 1       [] label = "roundFailed" -> 4   [] label = "attempt" -> 5
      [] label = "rejected" -> 6    [] label = "fuzz" -> 7          [] label = "postPoc" -> 8
      [] label = "applied" -> 9     [] label = "notApplied" -> 9    [] label = "apply" -> 10
      [] label = "undo" -> 13       [] label = "generate" -> 14     [] label = "slice" -> 15
      [] label = "examine" -> 16    [] label = "locate" -> 17       [] label = "assemble" -> 18
      [] label = "prePoc" -> 19     [] label = "setup" -> 22        [] OTHER -> 0

StepsLeft(label, back) ==
    CASE label = "restoring" -> Place(back) + 2
      [] label = "restored" -> Place(back) + 1
      [] OTHER -> Place(label)

\* A step begins a run, a round, an attempt or an iteration, or goes on within one.
GoesOn ==
    \/ run' > run
    \/ run' = run /\ round' > round
    \/ run' = run /\ round' = round /\ attempt' > attempt
    \/ run' = run /\ round' = round /\ attempt' = attempt /\ iteration' > iteration
    \/ /\ run' = run /\ round' = round /\ attempt' = attempt /\ iteration' = iteration
       /\ StepsLeft(pc', after') < StepsLeft(pc, after)

\* A run that has been misled takes no step any more; that happens only where the
\* LLM's answer or the fuzzer's findings become feedback.
Advances ==
    /\ GoesOn
    /\ pc # "misled"
    /\ pc' = "misled" => pc \in {"generate", "fuzz"}

\* Every step but that of printing goes on.
LEMMA LoopGoesOn == LoopInv /\ Next => GoesOn \/ UNCHANGED vars
  <1>1. ASSUME LoopInv, Next  PROVE GoesOn \/ UNCHANGED vars
    <2> USE DEF Goto, Fail, CallRestore, loopVars, Place, StepsLeft
    <2>0. /\ run \in Nat /\ round \in Nat /\ attempt \in Nat /\ iteration \in Nat
          /\ pc \in {"restoring", "restored"} => after \in {"prePoc", "round", "apply"}
      BY <1>1, LoopAssumption DEF LoopInv, TypeOK, Places
    <2>1. CASE StartRun
      BY <2>0, <2>1 DEF StartRun, GoesOn
    <2>2. CASE BeginRound
      BY <2>0, <2>2 DEF BeginRound, GoesOn
    <2>3. CASE BeginAttempt
      BY <2>0, <2>3 DEF BeginAttempt, GoesOn
    <2>4. CASE AskForLine
      BY <2>0, <2>4 DEF AskForLine, GoesOn
    <2>5. ASSUME /\ UNCHANGED <<run, round, attempt, iteration>>
                 /\ StepsLeft(pc', after') < StepsLeft(pc, after)
          PROVE  GoesOn
      BY <2>5 DEF GoesOn
    <2>6. CASE Setup \/ PrePoc \/ Assemble
      <3>1. UNCHANGED <<run, round, attempt, iteration>>
        BY <2>6 DEF Setup, PrePoc, Assemble
      <3>2. StepsLeft(pc', after') < StepsLeft(pc, after)
        BY <2>0, <2>6 DEF Setup, PrePoc, Assemble
      <3>. QED BY <2>5, <3>1, <3>2
    <2>7. CASE PutBack \/ RestoreRaises \/ RestoreReturns
      <3>1. UNCHANGED <<run, round, attempt, iteration>>
        BY <2>7 DEF PutBack, RestoreRaises, RestoreReturns
      <3>2. StepsLeft(pc', after') < StepsLeft(pc, after)
        BY <2>0, <2>7 DEF PutBack, RestoreRaises, RestoreReturns
      <3>. QED BY <2>5, <3>1, <3>2
    <2>8. CASE RoundsExhausted \/ AskForFile \/ NotLocated \/ Slice
      <3>1. UNCHANGED <<run, round, attempt, iteration>>
        BY <2>8 DEF RoundsExhausted, AskForFile, NotLocated, Slice
      <3>2. StepsLeft(pc', after') < StepsLeft(pc, after)
        BY <2>0, <2>8 DEF RoundsExhausted, AskForFile, NotLocated, Slice
      <3>. QED BY <2>5, <3>1, <3>2
    <2>9. CASE RoundFails \/ UndoPrevious
      <3>1. UNCHANGED <<run, round, attempt, iteration>>
        BY <2>9 DEF RoundFails, UndoPrevious
      <3>2. StepsLeft(pc', after') < StepsLeft(pc, after)
        BY <2>0, <2>9 DEF RoundFails, UndoPrevious
      <3>. QED BY <2>5, <3>1, <3>2
    <2>10. CASE BudgetExceeded \/ AttemptsExhausted
      <3>1. UNCHANGED <<run, round, attempt, iteration>>
        BY <2>10 DEF BudgetExceeded, AttemptsExhausted
      <3>2. StepsLeft(pc', after') < StepsLeft(pc, after)
        BY <2>0, <2>10 DEF BudgetExceeded, AttemptsExhausted
      <3>. QED BY <2>5, <3>1, <3>2
    <2>11. CASE Generate \/ GenerateFails
      <3>1. UNCHANGED <<run, round, attempt, iteration>>
        BY <2>11 DEF Generate, GenerateFails, Told
      <3>2. StepsLeft(pc', after') < StepsLeft(pc, after)
        BY <2>0, <2>11 DEF Generate, GenerateFails, Told
      <3>. QED BY <2>5, <3>1, <3>2
    <2>12. CASE Apply \/ EndApply
      <3>1. UNCHANGED <<run, round, attempt, iteration>>
        BY <2>12 DEF Apply, EndApply
      <3>2. StepsLeft(pc', after') < StepsLeft(pc, after)
        <4>1. \/ pc = "apply" /\ pc' \in {"applied", "notApplied"}
              \/ pc \in {"applied", "notApplied"} /\ pc' \in {"postPoc", "rejected"}
          BY <2>12 DEF Apply, EndApply
        <4>. QED BY <4>1
      <3>. QED BY <2>5, <3>1, <3>2
    <2>13. CASE PostPoc \/ FuzzPasses \/ FuzzFails \/ Reject
      <3>1. UNCHANGED <<run, round, attempt, iteration>>
        BY <2>13 DEF PostPoc, FuzzPasses, FuzzFails, Told, Reject
      <3>2. StepsLeft(pc', after') < StepsLeft(pc, after)
        BY <2>0, <2>13 DEF PostPoc, FuzzPasses, FuzzFails, Told, Reject
      <3>. QED BY <2>5, <3>1, <3>2
    <2>14. ASSUME NEW label \in RaisingPcs, Raises(label)  PROVE GoesOn
      <3>1. UNCHANGED <<run, round, attempt, iteration>> /\ StepsLeft(pc', after') < StepsLeft(pc, after)
        BY <2>14 DEF Raises, RaisingPcs
      <3>. QED BY <2>5, <3>1
    <2>. QED BY <1>1, <2>1, <2>2, <2>3, <2>4, <2>6, <2>7, <2>8, <2>9, <2>10, <2>11, <2>12, <2>13,
                <2>14 DEF Next, PrintForever
  <1>. QED BY <1>1

\* Only what others say misleads a run, and for good.
LEMMA OnlyTold ==
    ASSUME LoopInv, Next
    PROVE  \/ UNCHANGED vars
           \/ pc # "misled" /\ (pc' = "misled" => pc \in {"generate", "fuzz"})
  <1> USE DEF Goto, Fail, CallRestore
  <1>1. CASE \/ StartRun \/ Setup \/ PutBack \/ RestoreRaises \/ PrePoc \/ Assemble
             \/ \E label \in RaisingPcs : Raises(label)
    BY <1>1 DEF StartRun, Setup, PutBack, RestoreRaises, PrePoc, Assemble, Raises, RaisingPcs
  <1>2. CASE \/ BeginRound \/ RoundsExhausted \/ AskForFile \/ AskForLine \/ NotLocated \/ Slice
             \/ RoundFails \/ BudgetExceeded
    BY <1>2 DEF BeginRound, RoundsExhausted, AskForFile, AskForLine, NotLocated, Slice,
                RoundFails, BudgetExceeded
  <1>3. CASE BeginAttempt \/ AttemptsExhausted \/ Generate \/ GenerateFails \/ UndoPrevious
    BY <1>3 DEF BeginAttempt, AttemptsExhausted, Generate, GenerateFails, UndoPrevious, Told
  <1>4. CASE Apply \/ EndApply \/ PostPoc \/ FuzzPasses \/ FuzzFails \/ Reject
    BY <1>4 DEF Apply, EndApply, PostPoc, FuzzPasses, FuzzFails, Reject, Told
  <1>5. CASE RestoreReturns
    BY <1>5 DEF RestoreReturns, LoopInv, Places
  <1>6. CASE PrintForever
    BY <1>6 DEF PrintForever
  <1>. QED BY <1>1, <1>2, <1>3, <1>4, <1>5, <1>6 DEF Next

\* Every step begins a run, a round, an attempt or an iteration, of each of which there
\* are no more than its limit (TypeOK), or comes closer to the end of what was begun: a
\* run can only end, stop, or print for ever ("Please check the targets and try again."),
\* and it gets to printing only from what the LLM or the fuzzer says, never from what
\* applying the patch or running the POC comes to.
THEOREM LoopAdvances == Spec => [][Advances]_vars
  <1>1. LoopInv /\ [Next]_vars => [Advances]_vars
    BY LoopGoesOn, OnlyTold DEF Advances
  <1>. QED BY <1>1, LoopInvariant, PTL DEF Spec

=============================================================================
