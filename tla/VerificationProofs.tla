-------------------------- MODULE VerificationProofs --------------------------
(***************************************************************************)
(* The two verifications a patch goes through, each on its own.            *)
(*                                                                         *)
(* The POC verifications of a run, for any number of attempts, any logs    *)
(* and any window of comparison, with a script and a server that may be    *)
(* late, hang or die: which request a log that decides a verdict came      *)
(* from, and that the exploit's own trace never gets a patch accepted.     *)
(*                                                                         *)
(* The differential fuzzing verification, for every set of monitors, every *)
(* interleaving of their threads with the main thread and every behaviour  *)
(* of Witcher: a verification that blames Witcher is right. The point is   *)
(* the gap between the flag a monitor sets and the monitoring it then      *)
(* stops: monitoring that has stopped before the main thread's loop ends   *)
(* has a flag set already.                                                 *)
(***************************************************************************)
EXTENDS PocVerdict, DiffMonitor, FiniteSetTheorems, TLAPS

Codes == {Clean, Detected, NoAnswer, Unexpected, TimedOut}

\* How far the script of this verification has come.
Progress ==
    /\ script # "off" <=> step = "running"
    /\ script \in {"send", "await", "check"} => cleaned
    /\ script = "check" => answer \in {"marker", "clean", "empty"} /\ server[n] = "idle"
    /\ step = "exited" /\ code = Detected => cleaned
    /\ step = "exited" /\ code = Clean => answer = "clean" /\ server[n] = "idle"

\* Which requests may still be at work: none of a later verification, not this
\* one's before it is sent, and only this one's after a cleanup without overlap.
Requests ==
    /\ \A m \in Numbers : m > n => server[m] = "idle"
    /\ step = "begin" \/ script \in {"login", "cleanup", "send"} => server[n] = "idle"
    /\ cleaned /\ ~overlap /\ step \in {"running", "exited", "judged"}
           => \A m \in Numbers : m # n => server[m] = "idle"
    /\ n = 0 /\ cleaned => ~overlap

\* Whose log is in the file, and what it says.
Authors ==
    /\ cleaned /\ ~overlap /\ step \in {"running", "exited", "judged"} /\ vulLog.text # NoLog
           => vulLog.by = n
    /\ vulLog.by = 0 => vulLog.text = ExploitLog
    /\ vulLog.by \in Numbers => vulLog.text # NoLog
    /\ n = 0 /\ step # "stopped" => preLog.text = NoLog
    /\ n > 0 /\ preLog.text # NoLog => preLog.by = 0 /\ preLog.text = ExploitLog
    /\ step = "exited" /\ code = Clean /\ ReadsLog => vulLog.by # n

PocInv ==
    TypeOK /\ Progress /\ Requests /\ Authors /\ JudgedLogIsOwn /\ UnreferencedNeedsAnswer

-----------------------------------------------------------------------------
\* The texts of logs are sequences, and none of the logs that are written is empty.
LEMMA TextType ==
    ASSUME NEW t \in Logs
    PROVE  t \in Seq(STRING) /\ t # NoLog
  BY PocAssumption DEF Logs

\* A log is similar to itself, whatever the window.
LEMMA SimilarToItself ==
    ASSUME NEW log \in Seq(STRING), log # NoLog
    PROVE  ~Dissimilar(log, log)
  <1> DEFINE w == Window(log)
  <1>1. Len(log) \in Nat /\ LogWindow \in Nat
    BY LogWindowAssumption
  <1>2. Min2(Len(log), LogWindow) \in Nat /\ Min2(Len(log), LogWindow) <= Len(log)
    BY <1>1 DEF Min2
  <1>3. w \in Seq(STRING)
    BY <1>2 DEF Window
  <1>4. Len(w) \in Nat
    BY <1>3
  <1> HIDE DEF w
  <1>5. Min2(Len(w), Len(w)) = Len(w) /\ Max2(Len(w), Len(w)) = Len(w)
    BY <1>4 DEF Min2, Max2
  <1>6. {i \in 1 .. Min2(Len(w), Len(w)) : w[i] = w[i]} = 1 .. Len(w)
    BY <1>5
  <1>7. Cardinality(1 .. Len(w)) = Len(w)
    <2>1. \A k \in Nat : Cardinality(1 .. k) = IF 1 > k THEN 0 ELSE k - 1 + 1
      BY FS_Interval
    <2>. QED BY <1>4, <2>1
  <1>8. Matches(w, w) = Len(w)
    BY <1>6, <1>7 DEF Matches
  <1>. QED BY <1>4, <1>5, <1>8 DEF Dissimilar, w

\* What a verdict is made of.
LEMMA VerdictType ==
    ASSUME NEW pre, NEW post, NEW c \in Codes
    PROVE  PostVerdict(pre, post, c) \in [vulnerable : BOOLEAN, exit : Codes]
  <1>1. PocStatus(c) \in [vulnerable : BOOLEAN, exit : Codes]
    BY DEF PocStatus
  <1>. QED BY <1>1 DEF PostVerdict, Codes

\* The invariant holds before the first verification.
LEMMA PocInitially == Init => PocInv
  <1> SUFFICES ASSUME Init PROVE PocInv
    OBVIOUS
  <1>1. MaxPost \in Nat /\ 0 \in Numbers /\ 1 \in Numbers
    BY PocAssumption DEF Numbers
  <1>2. Empty \in LogFiles /\ Empty.text = NoLog /\ Empty.by = -3
    BY DEF Empty, LogFiles, Nobody
  <1>3. vulLog \in LogFiles /\ vulLog.by < 0
    <2>1. CASE vulLog = Empty
      BY <1>2, <2>1
    <2>2. ASSUME NEW t \in Logs, vulLog = [text |-> t, by |-> Earlier]
          PROVE  vulLog \in LogFiles /\ vulLog.by < 0
      BY <2>2 DEF LogFiles, Earlier
    <2>. QED BY <2>1, <2>2 DEF Init
  <1>4. NoVerdict \in [vulnerable : BOOLEAN, exit : Codes]
    BY DEF NoVerdict, Codes
  <1>5. TypeOK
    BY <1>1, <1>2, <1>3, <1>4 DEF Init, TypeOK, Codes
  <1>6. Progress
    BY DEF Init, Progress
  <1>7. Requests
    BY <1>1 DEF Init, Requests
  <1>8. Authors
    BY <1>1, <1>2, <1>3 DEF Init, Authors, Numbers
  <1>9. JudgedLogIsOwn /\ UnreferencedNeedsAnswer
    BY <1>2 DEF Init, JudgedLogIsOwn, UnreferencedNeedsAnswer
  <1>. QED BY <1>5, <1>6, <1>7, <1>8, <1>9 DEF PocInv

\* The script's steps, in which the verification is not judged.
LEMMA ScriptKeeps ==
    ASSUME PocInv, StartScript \/ ScriptStep \/ KillScript
    PROVE  PocInv'
  <1> USE DEF PocInv, TypeOK, Progress, Requests, Authors, JudgedLogIsOwn,
              UnreferencedNeedsAnswer, Exit, Clean, Detected, NoAnswer, Unexpected, TimedOut
  <1>0. n \in Numbers /\ MaxPost \in Nat
    BY PocAssumption
  <1>1. CASE StartScript
    BY <1>1 DEF StartScript
  <1>2. CASE LoggedIn
    BY <1>2 DEF LoggedIn
  <1>3. CASE LoginFails
    BY <1>3 DEF LoginFails
  <1>4. CASE CleanupLogs
    <2>1. Empty \in LogFiles /\ Empty.text = NoLog /\ Empty.by = -3
      BY DEF Empty, LogFiles, Nobody
    <2>2. n = 0 => ~overlap'
      BY <1>0, <1>4 DEF CleanupLogs, Numbers
    <2>3. ~overlap' => \A m \in Numbers : server[m] = "idle"
      BY <1>4 DEF CleanupLogs
    <2>4. vulLog' = Empty /\ cleaned' /\ script' = "send" /\ script = "cleanup"
      BY <1>4 DEF CleanupLogs
    <2>5. UNCHANGED <<n, step, code, answer, server, preLog, verdict>> /\ overlap' \in BOOLEAN
      BY <1>4 DEF CleanupLogs
    <2>6. -3 \notin Numbers
      BY <1>0 DEF Numbers
    <2>. QED BY <2>1, <2>2, <2>3, <2>4, <2>5, <2>6
  <1>5. CASE SendRequest
    BY <1>0, <1>5 DEF SendRequest, Numbers
  <1>6. CASE RequestTimesOut
    BY <1>6 DEF RequestTimesOut
  <1>7. CASE CheckAnswer
    BY <1>0, <1>7 DEF CheckAnswer
  <1>8. CASE ScriptDies
    BY <1>8 DEF ScriptDies
  <1>9. CASE KillScript
    BY <1>9 DEF KillScript
  <1>. QED BY <1>1, <1>2, <1>3, <1>4, <1>5, <1>6, <1>7, <1>8, <1>9 DEF ScriptStep

\* The server's steps, whether anyone still waits for its answer or not.
LEMMA ServerKeeps ==
    ASSUME PocInv, NEW m \in Numbers, HookLogs(m) \/ Respond(m)
    PROVE  PocInv'
  <1> USE DEF PocInv, TypeOK, Progress, Requests, Authors, JudgedLogIsOwn,
              UnreferencedNeedsAnswer
  <1>0. n \in Numbers /\ MaxPost \in Nat /\ m \in 0 .. MaxPost
    BY PocAssumption DEF Numbers
  <1>1. CASE HookLogs(m)
    <2>1. PICK t \in Logs : /\ vulLog' = [text |-> t, by |-> m]
                            /\ m = 0 => t = ExploitLog
      BY <1>1 DEF HookLogs, Logs
    <2>2. vulLog' \in LogFiles /\ vulLog'.by = m /\ vulLog'.text = t /\ t # NoLog
      BY <2>1, TextType DEF LogFiles
    <2>3. /\ server[m] = "working" /\ server' = [server EXCEPT ![m] = "logged"]
          /\ UNCHANGED <<n, step, script, code, answer, preLog, cleaned, overlap, verdict>>
      BY <1>1 DEF HookLogs
    <2>. QED BY <1>0, <2>1, <2>2, <2>3 DEF Numbers
  <1>2. CASE Respond(m)
    <2>1. CASE m = n /\ script = "await"
      BY <1>0, <1>2, <2>1 DEF Respond
    <2>2. CASE ~(m = n /\ script = "await")
      BY <1>0, <1>2, <2>2 DEF Respond
    <2>. QED BY <2>1, <2>2
  <1>. QED BY <1>1, <1>2

\* The pipeline's steps.
LEMMA PipelineKeeps ==
    ASSUME PocInv, JudgePre \/ JudgePost \/ NextAttempt
    PROVE  PocInv'
  <1> USE DEF PocInv, TypeOK, Progress, Requests, Authors, JudgedLogIsOwn,
              UnreferencedNeedsAnswer
  <1>0. MaxPost \in Nat \ {0} /\ n \in 0 .. MaxPost
    BY PocAssumption DEF Numbers
  <1>1. CASE JudgePre
    <2>1. preLog' \in {preLog, vulLog} /\ preLog' \in LogFiles
      BY <1>1 DEF JudgePre
    <2>2. CASE PreContinues(code)
      <3>1. code = Detected
        BY <2>2 DEF PreContinues
      <3>2. n = 0 /\ cleaned /\ ~overlap /\ step = "exited" /\ script = "off"
        BY <1>1, <3>1 DEF JudgePre
      <3>3. preLog'.text # NoLog => preLog'.by = 0 /\ preLog'.text = ExploitLog
        BY <1>1, <3>2 DEF JudgePre
      <3>4. n' = 1 /\ step' = "begin" /\ n' \in Numbers
        BY <1>0, <1>1, <2>2 DEF JudgePre, Numbers
      <3>5. UNCHANGED <<script, code, answer, server, vulLog, cleaned, overlap, verdict>>
        BY <1>1 DEF JudgePre
      <3>. QED BY <1>0, <2>1, <3>2, <3>3, <3>4, <3>5 DEF Numbers
    <2>3. CASE ~PreContinues(code)
      BY <1>0, <1>1, <2>1, <2>3 DEF JudgePre
    <2>. QED BY <2>2, <2>3
  <1>2. CASE JudgePost
    <2>1. verdict' \in [vulnerable : BOOLEAN, exit : Codes]
      BY <1>2, VerdictType DEF JudgePost, Codes
    <2>2. preLog.text = NoLog /\ Accepted(verdict') => code = Clean
      BY <1>2 DEF JudgePost, PostVerdict, PocStatus, Accepted
    <2>3. /\ n > 0 /\ step = "exited" /\ step' = "judged"
          /\ UNCHANGED <<n, script, code, answer, server, vulLog, preLog, cleaned, overlap>>
      BY <1>2 DEF JudgePost
    <2>. QED BY <2>1, <2>2, <2>3 DEF Codes
  <1>3. CASE NextAttempt
    <2>2. NoVerdict \in [vulnerable : BOOLEAN, exit : Codes]
      BY DEF NoVerdict, Codes
    <2>3. vulLog' = vulLog \/ \E t \in Logs : vulLog' = [text |-> t, by |-> -1]
      BY <1>3 DEF NextAttempt, Fuzzer
    <2>4. vulLog' \in LogFiles /\ (vulLog' = vulLog \/ vulLog'.by = -1)
      BY <2>3 DEF LogFiles, Fuzzer
    <2>5. /\ n' = n + 1 /\ n' \in Numbers /\ step = "judged" /\ step' = "begin"
          /\ verdict' = NoVerdict
          /\ UNCHANGED <<script, code, answer, server, preLog, cleaned, overlap>>
      BY <1>0, <1>3 DEF NextAttempt, Numbers
    <2>. QED BY <1>0, <2>2, <2>4, <2>5 DEF Numbers, Codes
  <1>. QED BY <1>1, <1>2, <1>3

\* Every step preserves it.
LEMMA PocStep == PocInv /\ [Next]_vars => PocInv'
  <1> SUFFICES ASSUME PocInv, [Next]_vars PROVE PocInv'
    OBVIOUS
  <1>1. CASE UNCHANGED vars
    BY <1>1 DEF vars, PocInv, TypeOK, Progress, Requests, Authors, JudgedLogIsOwn,
                UnreferencedNeedsAnswer
  <1>. QED BY <1>1, ScriptKeeps, ServerKeeps, PipelineKeeps DEF Next

-----------------------------------------------------------------------------
\* The strengthened invariant of the verifications.
THEOREM PocInvariant == Spec => []PocInv
  BY PocInitially, PocStep, PTL DEF Spec

\* Every variable of the verifications keeps its type.
THEOREM PocTypeCorrect == Spec => []TypeOK
  <1>1. PocInv => TypeOK BY DEF PocInv
  <1>. QED BY <1>1, PocInvariant, PTL

\* A log that decides a verdict was written by the request it is taken for.
THEOREM PocJudgedLogIsOwn == Spec => []JudgedLogIsOwn
  <1>1. PocInv => JudgedLogIsOwn BY DEF PocInv
  <1>. QED BY <1>1, PocInvariant, PTL

\* Without a reference log only a clean answer gets a patch accepted.
THEOREM PocUnreferencedNeedsAnswer == Spec => []UnreferencedNeedsAnswer
  <1>1. PocInv => UnreferencedNeedsAnswer BY DEF PocInv
  <1>. QED BY <1>1, PocInvariant, PTL

\* A verdict in the presence of the exploit's own trace, as an action.
Untricked ==
    JudgePost /\ vulLog.by = n /\ vulLog.text = ExploitLog /\ ReadsLog => ~Accepted(verdict')

\* The exploit's own trace never gets a patch accepted.
THEOREM PocTracedExploitNotAccepted == Spec => TracedExploitNotAccepted
  <1>1. PocInv /\ [Next]_vars => [Untricked]_vars
    <2> SUFFICES ASSUME PocInv, JudgePost, vulLog.by = n, vulLog.text = ExploitLog, ReadsLog
                 PROVE  ~Accepted(verdict')
      BY DEF Untricked
    <2>1. ExploitLog \in Seq(STRING) /\ ExploitLog # NoLog
      BY TextType DEF Logs
    <2>2. verdict' = PostVerdict(preLog.text, ExploitLog, code)
      BY DEF JudgePost
    <2>3. CASE preLog.text = NoLog
      <3>1. code # Clean
        BY DEF PocInv, Authors, JudgePost
      <3>. QED BY <2>2, <2>3, <3>1 DEF PostVerdict, PocStatus, Accepted
    <2>4. CASE preLog.text # NoLog
      <3>1. preLog.text = ExploitLog
        BY <2>4 DEF PocInv, Authors, JudgePost
      <3>2. ~Dissimilar(preLog.text, ExploitLog)
        BY <2>1, <3>1, SimilarToItself
      <3>. QED BY <2>1, <2>2, <2>4, <3>2 DEF PostVerdict, Accepted
    <2>. QED BY <2>3, <2>4
  <1>. QED BY <1>1, PocInvariant, PTL DEF Spec, TracedExploitNotAccepted, Untricked

-----------------------------------------------------------------------------
(* The differential fuzzing verification. *)

Watching == {"popen", "loop", "clock", "terminate", "grace", "timedOut"}

\* A monitor stops the monitoring after it has set its flag.
FlagFirst ==
    /\ \A k \in Monitors : thread[k] = "close" => k \in found
    /\ main \in Watching => active \/ found # {}
    /\ main = "stopped" => witcher = "exited" \/ found # {}

\* Witcher while it is watched, and the verdict until there is one.
Watched ==
    /\ main \in Watching \ {"popen", "timedOut"} => witcher \in {"running", "exited"}
    /\ main \in Watching \cup {"idle", "stopped"} => outcome = "none"

MonitorInv == DFTypeOK /\ FlagFirst /\ Watched /\ ReasonIsTrue

-----------------------------------------------------------------------------
\* The invariant holds when the monitors are started.
LEMMA MonitorInitially ==
    ASSUME DFInit
    PROVE  MonitorInv
  <1>1. DFTypeOK
    <2>1. evidence["apache"] \in {{}, {"real"}, {"spurious"}}
      BY MonitorAssumption DEF DFInit, Traces
    <2>. QED BY <2>1 DEF DFInit, DFTypeOK
  <1>2. FlagFirst /\ Watched /\ ReasonIsTrue
    BY DEF DFInit, FlagFirst, Watched, Watching, ReasonIsTrue
  <1>. QED BY <1>1, <1>2 DEF MonitorInv

\* What the monitors may find keeps its type, Apache's single line included.
LEMMA EvidenceStep ==
    ASSUME DFTypeOK, [DFNext]_dfvars
    PROVE  /\ evidence' \in [Monitors -> SUBSET {"real", "spurious"}]
           /\ evidence'["apache"] \in {{}, {"real"}, {"spurious"}}
  <1> USE DEF DFTypeOK
  <1>1. "apache" \in Monitors /\ "crashes" \in Monitors
    BY MonitorAssumption
  <1>2. CASE LogLine
    <2>1. PICK line \in {{}, {"real"}, {"spurious"}} :
              evidence' = [evidence EXCEPT !["apache"] = line]
      BY <1>2 DEF LogLine
    <2>2. evidence'["apache"] = line
      BY <1>1, <2>1
    <2>. QED BY <2>1, <2>2
  <1>3. CASE Truncate
    <2>1. evidence'["apache"] = {}
      BY <1>1, <1>3 DEF Truncate
    <2>. QED BY <1>3, <2>1 DEF Truncate
  <1>4. CASE DropCrash
    BY <1>1, <1>4 DEF DropCrash
  <1>5. ASSUME NEW k \in FileKinds, LeaveFile(k)
        PROVE  /\ evidence' \in [Monitors -> SUBSET {"real", "spurious"}]
               /\ evidence'["apache"] \in {{}, {"real"}, {"spurious"}}
    <2>1. k \in Monitors /\ k # "apache"
      BY DEF FileKinds
    <2>2. PICK e \in {"real", "spurious"} : evidence' = [evidence EXCEPT ![k] = @ \cup {e}]
      BY <1>5 DEF LeaveFile
    <2>. QED BY <1>1, <2>1, <2>2
  <1>6. CASE UNCHANGED evidence
    BY <1>6
  <1>. QED BY <1>2, <1>3, <1>4, <1>5, <1>6
           DEF DFNext, dfvars, MainStep, ThreadStep, StartFails,
               StartThreads, StartWitcher, LoopTest, ClockTest,
               SendTerm, GraceEnds, ReturnTimeout, Judge, JudgeRaises,
               CleanupJoins, Reap, Test, LookFinds, LookFindsNothing,
               ForeignError, Flag, Close, WitcherExits, TimePasses

\* The steps of the main thread.
LEMMA MainKeeps ==
    ASSUME MonitorInv, StartFails \/ MainStep
    PROVE  (FlagFirst /\ Watched /\ ReasonIsTrue)'
  <1> USE DEF MonitorInv, FlagFirst, Watched, Watching, ReasonIsTrue, DFTypeOK
  <1>1. CASE StartFails
    BY <1>1 DEF StartFails
  <1>2. CASE StartThreads
    BY <1>2 DEF StartThreads
  <1>3. CASE StartWitcher
    BY <1>3 DEF StartWitcher
  <1>4. CASE LoopTest
    BY <1>4 DEF LoopTest
  <1>5. CASE ClockTest
    BY <1>5 DEF ClockTest
  <1>6. CASE SendTerm
    BY <1>6 DEF SendTerm
  <1>7. CASE GraceEnds
    BY <1>7 DEF GraceEnds
  <1>8. CASE ReturnTimeout
    BY <1>8 DEF ReturnTimeout
  <1>9. CASE Judge
    <2>1. outcome' = "stopped" => found = {}
      BY <1>9, MonitorAssumption DEF Judge, AllMonitors
    <2>. QED BY <1>9, <2>1 DEF Judge
  <1>10. CASE CleanupJoins \/ Reap
    BY <1>10 DEF CleanupJoins, Reap, Killed
  <1>11. CASE JudgeRaises
    BY <1>11 DEF JudgeRaises
  <1>. QED BY <1>1, <1>2, <1>3, <1>4, <1>5, <1>6, <1>7, <1>8, <1>9, <1>10, <1>11 DEF
         MainStep

\* The steps of a monitor, and of what it monitors.
LEMMA OthersKeep ==
    ASSUME MonitorInv, [DFNext]_dfvars,
           ~(StartFails \/ MainStep)
    PROVE  (FlagFirst /\ Watched /\ ReasonIsTrue)'
  <1> USE DEF MonitorInv, FlagFirst, Watched, Watching, ReasonIsTrue, DFTypeOK
  <1>1. ASSUME NEW k \in Monitors, ThreadStep(k)
        PROVE  (FlagFirst /\ Watched /\ ReasonIsTrue)'
    <2>1. CASE Test(k) \/ LookFinds(k) \/ LookFindsNothing(k)
      BY <2>1 DEF Test, LookFinds, LookFindsNothing
    <2>2. CASE Flag(k)
      BY <2>2 DEF Flag
    <2>3. CASE Close(k)
      <3>1. found # {}
        BY <2>3 DEF Close
      <3>. QED BY <2>3, <3>1 DEF Close
    <2>4. CASE DropCrash
      BY <2>4 DEF DropCrash
    <2>5. CASE ForeignError \/ Truncate
      BY <2>5 DEF ForeignError, Truncate
    <2>. QED BY <1>1, <2>1, <2>2, <2>3, <2>4, <2>5 DEF ThreadStep
  <1>2. ASSUME NEW k \in FileKinds, LeaveFile(k)
        PROVE  (FlagFirst /\ Watched /\ ReasonIsTrue)'
    BY <1>2 DEF LeaveFile
  <1>3. CASE LogLine
    BY <1>3 DEF LogLine
  <1>4. CASE WitcherExits
    BY <1>4 DEF WitcherExits
  <1>5. CASE TimePasses
    BY <1>5 DEF TimePasses
  <1>6. CASE UNCHANGED dfvars
    BY <1>6 DEF dfvars
  <1>. QED BY <1>1, <1>2, <1>3, <1>4, <1>5, <1>6 DEF DFNext

\* Every variable but the evidence.
LEMMA TypeStep ==
    ASSUME DFTypeOK, [DFNext]_dfvars
    PROVE  DFTypeOK'
  <1>1. /\ evidence' \in [Monitors -> SUBSET {"real", "spurious"}]
        /\ evidence'["apache"] \in {{}, {"real"}, {"spurious"}}
    BY EvidenceStep
  <1> USE DEF DFTypeOK, Reasons
  <1>2. CASE \/ StartFails \/ StartThreads \/ StartWitcher
             \/ LoopTest \/ ClockTest
    BY <1>1, <1>2 DEF StartFails, StartThreads, StartWitcher, LoopTest,
                      ClockTest
  <1>3. CASE SendTerm \/ GraceEnds \/ ReturnTimeout \/ JudgeRaises \/ CleanupJoins \/ Reap
    BY <1>1, <1>3 DEF SendTerm, GraceEnds, Killed, ReturnTimeout, JudgeRaises, CleanupJoins,
                      Reap
  <1>4. CASE Judge
    <2>1. outcome' \in {"none", "pass"} \cup Reasons
      BY <1>4 DEF Judge
    <2>. QED BY <1>1, <1>4, <2>1 DEF Judge
  <1>5. ASSUME NEW k \in Monitors, ThreadStep(k) PROVE DFTypeOK'
    BY <1>1, <1>5 DEF ThreadStep, Test, LookFinds, LookFindsNothing,
                      Flag, Close, DropCrash, ForeignError, Truncate
  <1>6. CASE LogLine \/ WitcherExits \/ TimePasses
    BY <1>1, <1>6 DEF LogLine, WitcherExits, TimePasses
  <1>7. ASSUME NEW k \in FileKinds, LeaveFile(k) PROVE DFTypeOK'
    BY <1>1, <1>7 DEF LeaveFile
  <1>8. CASE UNCHANGED dfvars
    BY <1>8 DEF dfvars
  <1>. QED BY <1>2, <1>3, <1>4, <1>5, <1>6, <1>7, <1>8 DEF DFNext, MainStep

-----------------------------------------------------------------------------
\* The strengthened invariant of a verification.
THEOREM MonitorInvariant == DFSpec => []MonitorInv
  <1>1. MonitorInv /\ [DFNext]_dfvars => MonitorInv'
    BY MainKeeps, OthersKeep, TypeStep DEF MonitorInv
  <1>. QED BY <1>1, MonitorInitially, PTL DEF DFSpec

\* Every variable of the verification keeps its type.
THEOREM MonitorTypeCorrect == DFSpec => []DFTypeOK
  <1>1. MonitorInv => DFTypeOK BY DEF MonitorInv
  <1>. QED BY <1>1, MonitorInvariant, PTL

\* A failure put down to Witcher's own end is one.
THEOREM MonitorReasonIsTrue == DFSpec => []ReasonIsTrue
  <1>1. MonitorInv => ReasonIsTrue BY DEF MonitorInv
  <1>. QED BY <1>1, MonitorInvariant, PTL

=============================================================================
