---------------------------- MODULE DiffMonitor ----------------------------
(***************************************************************************)
(* One differential fuzzing verification: Predator starts four monitor     *)
(* threads and the Witcher process, and then looks once a second whether   *)
(* Witcher still runs, whether a monitor has stopped the monitoring, and   *)
(* whether the time is up. The threads share the attributes of Predator    *)
(* without a lock; what they watch for are files that Witcher leaves and   *)
(* the last line of Apache's error log.                                    *)
(***************************************************************************)
EXTENDS Integers

CONSTANT Monitors   \* the monitor threads: all of AllMonitors in the code

AllMonitors == {"differential", "apache", "xss", "crashes"}

ASSUME MonitorAssumption == {"apache", "crashes"} \subseteq Monitors /\ Monitors \subseteq AllMonitors

VARIABLES
    main,      \* what the main thread is about to do
    active,    \* monitoring_active
    thread,    \* thread[k]: what monitor k is about to do
    found,     \* the monitors whose *_found flag is set
    evidence,  \* evidence[k]: what monitor k would find: "real", "spurious"
    witcher,   \* the shell Popen started: none, running, exited (by itself), killed
    timeUp,    \* more than timeout seconds since the start
    outcome    \* what is returned: none, pass, or the reason of a failure

dfvars == <<main, active, thread, found, evidence, witcher, timeUp, outcome>>

FileKinds == Monitors \ {"apache"}
Reasons   == Monitors \cup {"stopped", "error"}

DFTypeOK ==
    /\ main \in {"idle", "popen", "loop", "clock", "terminate", "grace", "timedOut", "stopped",
                 "cleanup", "reap", "again", "reapAgain", "done"}
    /\ active \in BOOLEAN
    /\ thread \in [Monitors -> {"off", "test", "look", "rest", "clear", "flag", "close", "ended"}]
    /\ found \subseteq Monitors
    /\ evidence \in [Monitors -> SUBSET {"real", "spurious"}]
    /\ evidence["apache"] \in {{}, {"real"}, {"spurious"}}
    /\ witcher \in {"none", "running", "exited", "killed"}
    /\ timeUp \in BOOLEAN
    /\ outcome \in {"none", "pass"} \cup Reasons

\* What a monitor may come upon: several files, or one line of the log. Only crashes, and
\* errors of PHP, may be those of something else.
Traces(k) ==
    CASE k = "apache" -> {{}, {"real"}, {"spurious"}}
      [] k = "crashes" -> SUBSET {"real", "spurious"}
      [] OTHER -> {{}, {"real"}}

\* What an earlier verification left in the WICHR directory is there as far as it could
\* not be removed; Apache's log keeps its last line until the monitor's thread gets to
\* truncate it.
DFInit ==
    /\ main = "idle"
    /\ active = FALSE
    /\ thread = [k \in Monitors |-> "off"]
    /\ found = {}
    /\ evidence \in [Monitors -> SUBSET {"real", "spurious"}]
    /\ \A k \in Monitors : evidence[k] \in Traces(k)
    /\ witcher = "none"
    /\ timeUp = FALSE
    /\ outcome = "none"

-----------------------------------------------------------------------------
(* execute_witcher_with_monitoring.                                        *)

\* No such user, or an exception on the way to the threads or to Popen.
StartFails ==
    /\ main \in {"idle", "popen"}
    /\ active' = FALSE
    /\ outcome' = "error"
    /\ main' = "cleanup"
    /\ UNCHANGED <<thread, found, evidence, witcher, timeUp>>

\* The Apache monitor begins by truncating the log.
StartThreads ==
    /\ main = "idle"
    /\ active' = TRUE
    /\ found' = {}
    /\ thread' = [k \in Monitors |-> IF k = "apache" THEN "clear" ELSE "test"]
    /\ main' = "popen"
    /\ UNCHANGED <<evidence, witcher, timeUp, outcome>>

StartWitcher ==
    /\ main = "popen"
    /\ witcher' = "running"
    /\ main' = "loop"
    /\ UNCHANGED <<active, thread, found, evidence, timeUp, outcome>>

\* Slip: only the process is looked at.
LoopTestDeaf ==
    /\ main = "loop"
    /\ IF witcher = "running"
       THEN main' = "clock" /\ UNCHANGED active
       ELSE main' = "stopped" /\ active' = FALSE
    /\ UNCHANGED <<thread, found, evidence, witcher, timeUp, outcome>>

\* while poll() is None and monitoring_active
LoopTest ==
    /\ main = "loop"
    /\ IF witcher = "running" /\ active
       THEN main' = "clock" /\ UNCHANGED active
       ELSE main' = "stopped" /\ active' = FALSE
    /\ UNCHANGED <<thread, found, evidence, witcher, timeUp, outcome>>

\* Slip: no timeout.
ClockTestNever ==
    /\ main = "clock"
    /\ main' = "loop"
    /\ UNCHANGED <<active, thread, found, evidence, witcher, timeUp, outcome>>

ClockTest ==
    /\ main = "clock"
    /\ main' = IF timeUp THEN "terminate" ELSE "loop"
    /\ UNCHANGED <<active, thread, found, evidence, witcher, timeUp, outcome>>

\* terminate_witcher_process: SIGTERM to the group, two seconds, SIGKILL. The
\* monitors are still active. That a signal cannot be sent is reported and ignored.
SendTerm ==
    /\ main = "terminate"
    /\ main' \in IF witcher = "running" THEN {"grace", "timedOut"} ELSE {"timedOut"}
    /\ UNCHANGED <<active, thread, found, evidence, witcher, timeUp, outcome>>

Killed == IF witcher = "running" THEN {"killed", "running"} ELSE {witcher}

GraceEnds ==
    /\ main = "grace"
    /\ witcher' \in Killed
    /\ main' = "timedOut"
    /\ UNCHANGED <<active, thread, found, evidence, timeUp, outcome>>

ReturnTimeout ==
    /\ main = "timedOut"
    /\ active' = FALSE
    /\ outcome' = "pass"
    /\ main' = "cleanup"
    /\ UNCHANGED <<thread, found, evidence, witcher, timeUp>>

\* The flags, in this order; none is set when Witcher has stopped by itself.
Judge ==
    /\ main = "stopped"
    /\ outcome' = CASE "differential" \in found -> "differential"
                    [] "apache" \in found -> "apache"
                    [] "xss" \in found -> "xss"
                    [] "crashes" \in found -> "crashes"
                    [] OTHER -> "stopped"
    /\ main' = "cleanup"
    /\ UNCHANGED <<active, thread, found, evidence, witcher, timeUp>>

\* What the feedback quotes, a .cmp file or the crash, cannot be read: the verification
\* fails with the exception.
JudgeRaises ==
    /\ main = "stopped"
    /\ "differential" \in found \/ found = {"crashes"}
    /\ active' = FALSE
    /\ outcome' = "error"
    /\ main' = "cleanup"
    /\ UNCHANGED <<thread, found, evidence, witcher, timeUp>>

\* Every join gives up after five seconds. verify_differential_fuzzing calls cleanup
\* again.
CleanupJoins ==
    /\ main \in {"cleanup", "again"}
    /\ active' = FALSE
    /\ main' = IF main = "cleanup" THEN "reap" ELSE "reapAgain"
    /\ UNCHANGED <<thread, found, evidence, witcher, timeUp, outcome>>

\* Again, SIGTERM and SIGKILL may come to nothing.
Reap ==
    /\ main \in {"reap", "reapAgain"}
    /\ witcher' \in Killed
    /\ main' = IF main = "reap" THEN "again" ELSE "done"
    /\ UNCHANGED <<active, thread, found, evidence, timeUp, outcome>>

MainStep ==
    \/ StartThreads \/ StartWitcher
    \/ LoopTest \/ ClockTest
    \/ SendTerm \/ GraceEnds \/ ReturnTimeout
    \/ Judge \/ JudgeRaises
    \/ CleanupJoins \/ Reap

-----------------------------------------------------------------------------
(* The monitors.                                                           *)

\* while self.monitoring_active
Test(k) ==
    /\ thread[k] = "test"
    /\ thread' = [thread EXCEPT ![k] = IF active THEN "look" ELSE "ended"]
    /\ UNCHANGED <<main, active, found, evidence, witcher, timeUp, outcome>>

\* A crash whose crash_fields cannot be checked, or that cannot be deleted, counts.
LookFinds(k) ==
    /\ thread[k] \in {"look", "rest"}
    /\ "real" \in evidence[k] \/ (k = "crashes" /\ "spurious" \in evidence[k])
    /\ thread' = [thread EXCEPT ![k] = "flag"]
    /\ UNCHANGED <<main, active, found, evidence, witcher, timeUp, outcome>>

\* There is nothing, or an exception while looking: it tries again a second later.
LookFindsNothing(k) ==
    /\ thread[k] \in {"look", "rest"}
    /\ thread' = [thread EXCEPT ![k] = "test"]
    /\ UNCHANGED <<main, active, found, evidence, witcher, timeUp, outcome>>

\* The crashes without the POC's crash_fields are deleted; there is the rest of the list.
DropCrash ==
    /\ thread["crashes"] = "look"
    /\ "spurious" \in evidence["crashes"]
    /\ evidence' = [evidence EXCEPT !["crashes"] = @ \ {"spurious"}]
    /\ thread' = [thread EXCEPT !["crashes"] = "rest"]
    /\ UNCHANGED <<main, active, found, witcher, timeUp, outcome>>

\* An error of another file, or a benign one: the log is to be truncated ...
ForeignError ==
    /\ thread["apache"] = "look"
    /\ "spurious" \in evidence["apache"]
    /\ thread' = [thread EXCEPT !["apache"] = "clear"]
    /\ UNCHANGED <<main, active, found, evidence, witcher, timeUp, outcome>>

\* ... by a command of its own, whatever the log holds by then.
Truncate ==
    /\ thread["apache"] = "clear"
    /\ evidence' = [evidence EXCEPT !["apache"] = {}]
    /\ thread' = [thread EXCEPT !["apache"] = "test"]
    /\ UNCHANGED <<main, active, found, witcher, timeUp, outcome>>

\* Slip: the flag is set after the monitoring is stopped.
FlagLater(k) ==
    /\ thread[k] = "flag"
    /\ active' = FALSE
    /\ thread' = [thread EXCEPT ![k] = "close"]
    /\ UNCHANGED <<main, found, evidence, witcher, timeUp, outcome>>

Flag(k) ==
    /\ thread[k] = "flag"
    /\ found' = found \cup {k}
    /\ thread' = [thread EXCEPT ![k] = "close"]
    /\ UNCHANGED <<main, active, evidence, witcher, timeUp, outcome>>

Close(k) ==
    /\ thread[k] = "close"
    /\ active' = FALSE
    /\ thread' = [thread EXCEPT ![k] = "ended"]
    /\ UNCHANGED <<main, found, evidence, witcher, timeUp, outcome>>

ThreadStep(k) ==
    \/ Test(k) \/ LookFinds(k) \/ LookFindsNothing(k) \/ Flag(k) \/ Close(k)
    \/ k = "crashes" /\ DropCrash
    \/ k = "apache" /\ (ForeignError \/ Truncate)

-----------------------------------------------------------------------------
(* Witcher, the web server, the clock.                                     *)

LeaveFile(k) ==
    /\ witcher = "running"
    /\ \E e \in IF k = "crashes" THEN {"real", "spurious"} ELSE {"real"} :
            evidence' = [evidence EXCEPT ![k] = @ \cup {e}]
    /\ UNCHANGED <<main, active, thread, found, witcher, timeUp, outcome>>

\* The new line is the last one, and the only one tail -n 1 shows.
LogLine ==
    /\ witcher = "running"
    /\ \E line \in {{}, {"real"}, {"spurious"}} : evidence' = [evidence EXCEPT !["apache"] = line]
    /\ UNCHANGED <<main, active, thread, found, witcher, timeUp, outcome>>

WitcherExits ==
    /\ witcher = "running"
    /\ witcher' = "exited"
    /\ UNCHANGED <<main, active, thread, found, evidence, timeUp, outcome>>

TimePasses ==
    /\ ~timeUp
    /\ main \notin {"idle", "popen", "done"}
    /\ timeUp' = TRUE
    /\ UNCHANGED <<main, active, thread, found, evidence, witcher, outcome>>

DFNext ==
    \/ StartFails \/ MainStep
    \/ \E k \in Monitors : ThreadStep(k)
    \/ \E k \in FileKinds : LeaveFile(k)
    \/ LogLine \/ WitcherExits \/ TimePasses

DFSpec == DFInit /\ [][DFNext]_dfvars

\* Time passes and Python runs every thread. Nothing is asked of Witcher.
DFFairness ==
    /\ WF_dfvars(MainStep)
    /\ WF_dfvars(TimePasses)
    /\ \A k \in Monitors : WF_dfvars(ThreadStep(k))

DFFairSpec == DFSpec /\ DFFairness

-----------------------------------------------------------------------------
(* Properties.                                                             *)

\* "Witcher stopped with return code": whenever the main loop ends for want of
\* monitoring, the flag of the monitor that ended it is already up, so a failure
\* is put down to Witcher only if Witcher has ended by itself.
ReasonIsTrue == outcome = "stopped" => witcher = "exited"

\* When the monitoring has been stopped by the time the main loop looks, the patch fails,
\* for one of the reasons the code knows: never does the timeout make it pass any more.
FindingFails == main = "loop" /\ ~active ~> outcome \in Reasons

\* The verification is over some time after its timeout, even if Witcher hangs,
\* and the monitor threads that a join has given up on end, too.
VerificationEnds ==
    main = "idle" ~> main = "done" /\ \A k \in Monitors : thread[k] \in {"off", "ended"}
=============================================================================
