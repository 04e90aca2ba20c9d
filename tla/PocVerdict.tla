----------------------------- MODULE PocVerdict -----------------------------
(***************************************************************************)
(* One run's POC verifications: number 0 against the original application, *)
(* numbers 1, 2, ... against the patched one. Four actors take part:       *)
(*   the pipeline, which starts the script, kills it after 30 seconds and  *)
(*     compares logs;                                                      *)
(*   the script, which logs in, deletes old logs, sends one request with a *)
(*     10 second timeout and looks at the answer and the log;              *)
(*   the web server, which works on a request for as long as it likes,     *)
(*     whether or not anyone still waits, and whose database hook writes   *)
(*     /tmp/sqli.log while it does;                                        *)
(*   the differential fuzzer, whose requests go through the same hook.     *)
(***************************************************************************)
EXTENDS Verdicts

CONSTANTS
    ExploitLog,   \* what the hook logs when the POC hits the original code
    OtherLogs,    \* what else it may log
    ReadsLog,     \* the POC's indicator looks at the log (SQL, command injection)
    MaxPost       \* bound on the post-patch verifications

ASSUME PocAssumption ==
    /\ ExploitLog \in Seq(STRING) \ {NoLog}
    /\ OtherLogs \subseteq Seq(STRING) \ {NoLog}
    /\ ReadsLog \in BOOLEAN
    /\ MaxPost \in Nat \ {0}

Fuzzer  == -1                   \* author of logs the fuzzer's requests cause
Earlier == -2                   \* author of a log an earlier run left behind
Nobody  == -3
Numbers == 0 .. MaxPost
Logs    == {ExploitLog} \cup OtherLogs

VARIABLES
    n,         \* the verification at hand
    step,      \* the pipeline: begin, running, exited, judged, stopped
    script,    \* the script: off, login, cleanup, send, await, check
    code,      \* its exit code, once exited
    answer,    \* the response it got: none, marker, clean, empty
    server,    \* server[m]: the request of verification m: idle, working, logged
    vulLog,    \* the log file: [text, by]
    preLog,    \* /tmp/pre_patch.log: [text, by]
    cleaned,   \* the script of this verification deleted old logs
    overlap,   \* an older request was still being worked on when it did
    verdict    \* of the verification at hand

vars == <<n, step, script, code, answer, server, vulLog, preLog, cleaned, overlap, verdict>>

NoVerdict == [vulnerable |-> TRUE, exit |-> Unexpected]
Empty     == [text |-> NoLog, by |-> Nobody]
LogFiles  == [text : Logs \cup {NoLog}, by : Numbers \cup {Fuzzer, Earlier, Nobody}]

TypeOK ==
    /\ n \in Numbers
    /\ step \in {"begin", "running", "exited", "judged", "stopped"}
    /\ script \in {"off", "login", "cleanup", "send", "await", "check"}
    /\ code \in {Clean, Detected, NoAnswer, Unexpected, TimedOut}
    /\ answer \in {"none", "marker", "clean", "empty"}
    /\ server \in [Numbers -> {"idle", "working", "logged"}]
    /\ vulLog \in LogFiles
    /\ preLog \in LogFiles
    /\ cleaned \in BOOLEAN
    /\ overlap \in BOOLEAN
    /\ verdict \in [vulnerable : BOOLEAN, exit : {Clean, Detected, NoAnswer, Unexpected, TimedOut}]

\* POCFactory() removes /tmp/pre_patch.log, not the logs of an earlier run. A
\* run that resumes (no restart) skips the verification of the original code.
Init ==
    /\ n \in {0, 1}
    /\ step = "begin"
    /\ script = "off"
    /\ code = Clean
    /\ answer = "none"
    /\ server = [m \in Numbers |-> "idle"]
    /\ vulLog \in {Empty} \cup {[text |-> t, by |-> Earlier] : t \in Logs}
    /\ preLog = Empty
    /\ cleaned = FALSE
    /\ overlap = FALSE
    /\ verdict = NoVerdict

-----------------------------------------------------------------------------
(* The script.                                                             *)

StartScript ==
    /\ step = "begin"
    /\ step' = "running"
    /\ script' = "login"
    /\ answer' = "none"
    /\ cleaned' = FALSE
    /\ overlap' = FALSE
    /\ UNCHANGED <<n, code, server, vulLog, preLog, verdict>>

Exit(c) ==
    /\ step' = "exited"
    /\ script' = "off"
    /\ code' = c

\* Scripts without a login pass straight on.
LoggedIn ==
    /\ script = "login"
    /\ script' = "cleanup"
    /\ UNCHANGED <<n, step, code, answer, server, vulLog, preLog, cleaned, overlap, verdict>>

\* A failing login leaves through the except clause, before any log is deleted.
LoginFails ==
    /\ script = "login"
    /\ Exit(NoAnswer)
    /\ UNCHANGED <<n, answer, server, vulLog, preLog, cleaned, overlap, verdict>>

\* Slip: the log file is announced as removed, and is not.
CleanupLogsUndone ==
    /\ script = "cleanup"
    /\ cleaned' = TRUE
    /\ overlap' = (\E m \in Numbers : server[m] # "idle")
    /\ script' = "send"
    /\ UNCHANGED <<n, step, code, answer, server, vulLog, preLog, verdict>>

CleanupLogs ==
    /\ script = "cleanup"
    /\ vulLog' = Empty
    /\ cleaned' = TRUE
    /\ overlap' = (\E m \in Numbers : server[m] # "idle")
    /\ script' = "send"
    /\ UNCHANGED <<n, step, code, answer, server, preLog, verdict>>

SendRequest ==
    /\ script = "send"
    /\ server' = [server EXCEPT ![n] = "working"]
    /\ script' = "await"
    /\ UNCHANGED <<n, step, code, answer, vulLog, preLog, cleaned, overlap, verdict>>

\* requests gives up after 10 seconds; the server does not notice.
RequestTimesOut ==
    /\ script = "await"
    /\ Exit(NoAnswer)
    /\ UNCHANGED <<n, answer, server, vulLog, preLog, cleaned, overlap, verdict>>

\* The indicator looks at the response, then at the log.
CheckAnswer ==
    /\ script = "check"
    /\ Exit(IF answer = "marker" \/ (ReadsLog /\ vulLog.text # NoLog) THEN Detected
            ELSE IF answer = "empty" THEN NoAnswer
            ELSE Clean)
    /\ UNCHANGED <<n, answer, server, vulLog, preLog, cleaned, overlap, verdict>>

\* The script ends in a way of its own (killed from outside, say).
ScriptDies ==
    /\ script # "off"
    /\ Exit(Unexpected)
    /\ UNCHANGED <<n, answer, server, vulLog, preLog, cleaned, overlap, verdict>>

\* Slip: no timeout is passed.
KillScriptNever == FALSE /\ UNCHANGED vars

\* subprocess.run(timeout=30) kills it and raises TimeoutExpired.
KillScript ==
    /\ script # "off"
    /\ Exit(TimedOut)
    /\ UNCHANGED <<n, answer, server, vulLog, preLog, cleaned, overlap, verdict>>

ScriptStep ==
    \/ LoggedIn
    \/ LoginFails
    \/ CleanupLogs
    \/ SendRequest
    \/ RequestTimesOut
    \/ CheckAnswer
    \/ ScriptDies

-----------------------------------------------------------------------------
(* The web server and the hook in its database client.                     *)

\* The original code has one thing to log; patched code may log anything.
HookLogs(m) ==
    /\ server[m] = "working"
    /\ \E t \in IF m = 0 THEN {ExploitLog} ELSE Logs :
            vulLog' = [text |-> t, by |-> m]
    /\ server' = [server EXCEPT ![m] = "logged"]
    /\ UNCHANGED <<n, step, script, code, answer, preLog, cleaned, overlap, verdict>>

\* The request ends; its answer reaches the script if that still waits for it.
Respond(m) ==
    /\ server[m] # "idle"
    /\ server' = [server EXCEPT ![m] = "idle"]
    /\ IF m = n /\ script = "await"
       THEN /\ answer' \in {"marker", "clean", "empty"}
            /\ script' = "check"
       ELSE UNCHANGED <<answer, script>>
    /\ UNCHANGED <<n, step, code, vulLog, preLog, cleaned, overlap, verdict>>

-----------------------------------------------------------------------------
(* The pipeline.                                                           *)

JudgePre ==
    /\ step = "exited"
    /\ n = 0
    /\ preLog' = IF vulLog.text # NoLog THEN vulLog ELSE preLog
    /\ IF PreContinues(code)
       THEN n' = 1 /\ step' = "begin"
       ELSE n' = n /\ step' = "stopped"
    /\ UNCHANGED <<script, code, answer, server, vulLog, cleaned, overlap, verdict>>

JudgePost ==
    /\ step = "exited"
    /\ n > 0
    /\ verdict' = PostVerdict(preLog.text, vulLog.text, code)
    /\ step' = "judged"
    /\ UNCHANGED <<n, script, code, answer, server, vulLog, preLog, cleaned, overlap>>

\* An accepted patch is fuzzed, which may leave a log; the fuzzer finds a
\* difference, so the next attempt is verified in its turn.
NextAttempt ==
    /\ step = "judged"
    /\ n < MaxPost
    /\ n' = n + 1
    /\ step' = "begin"
    /\ verdict' = NoVerdict
    /\ vulLog' \in {vulLog} \cup
            IF Accepted(verdict) THEN {[text |-> t, by |-> Fuzzer] : t \in Logs} ELSE {}
    /\ UNCHANGED <<script, code, answer, server, preLog, cleaned, overlap>>

Next ==
    \/ StartScript
    \/ ScriptStep
    \/ KillScript
    \/ \E m \in Numbers : HookLogs(m) \/ Respond(m)
    \/ JudgePre
    \/ JudgePost
    \/ NextAttempt

Spec == Init /\ [][Next]_vars

\* The pipeline is straight-line code and its timeout fires. Nothing is asked
\* of the script or of the server: either may hang.
Fairness == WF_vars(StartScript) /\ WF_vars(KillScript) /\ WF_vars(JudgePre \/ JudgePost)

FairSpec == Spec /\ Fairness

-----------------------------------------------------------------------------
(* Properties.                                                             *)

\* _cleanup_vulnerability_logs: a log that decides a verdict was written by the
\* request of that verification, unless the script never came to delete the old
\* one or an older request was still running when it did. The reference log a run
\* goes on with was written by the POC's own request to the original code: a log
\* of an earlier run cannot become the reference.
JudgedLogIsOwn ==
    /\ step = "judged" /\ cleaned /\ ~overlap /\ preLog.text # NoLog /\ vulLog.text # NoLog
           => vulLog.by = n
    /\ n > 0 /\ preLog.text # NoLog => preLog.by = 0

\* While the exploit's trace of this very verification is in the log file, no
\* timeout, kill or late answer gets the patch accepted.
TracedExploitNotAccepted ==
    [][JudgePost /\ vulLog.by = n /\ vulLog.text = ExploitLog /\ ReadsLog
        => ~Accepted(verdict')]_vars

\* Without a reference log a patch is accepted only on an answer the script saw
\* and found clean.
UnreferencedNeedsAnswer ==
    step = "judged" /\ preLog.text = NoLog /\ Accepted(verdict) => answer = "clean"

\* A patch is announced as "SUCCESSFUL! Vulnerability has been fixed." only when
\* the POC request was answered.
FixedNeedsAnswer == step = "judged" /\ Accepted(verdict) => answer # "none"

\* The 30 second timeout: a verification that starts is judged, even if neither
\* the script nor the server ever makes a step.
EveryVerificationEnds == step = "begin" ~> step \in {"judged", "stopped"}
=============================================================================
