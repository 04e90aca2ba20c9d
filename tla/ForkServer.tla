----------------------------- MODULE ForkServer -----------------------------
(***************************************************************************)
(* One execution of the target: run_target of afl-fuzz.c on one side of    *)
(* two pipes, afl_forkserver of zend_witcher_trace.c on the other, the     *)
(* child that runs the PHP script, and two signal handlers of afl-fuzz     *)
(* that may come between any two of their steps: the alarm of a timeout    *)
(* and Ctrl-C.                                                             *)
(*                                                                         *)
(* Of process ids it only matters whether the one that afl-fuzz holds is   *)
(* that of this child or of an earlier one: two are enough. The fork       *)
(* server does not look at the four bytes it is sent (prev_timed_out), and *)
(* the target is traced by InstrInfo: both are left out.                   *)
(***************************************************************************)
EXTENDS Integers, Sequences

VARIABLES
    afl,     \* where afl-fuzz is in init_forkserver and run_target
    server,  \* where the fork server is
    child,   \* the last child: its pid, whether it runs, and what ended it
    ctl,     \* the control pipe holds a request
    st,      \* the status pipe: hello, a pid, a status
    child_pid, child_timed_out, stop_soon,
    timer,   \* setitimer is armed
    fault    \* what run_target returned

fsvars == <<afl, server, child, ctl, st, child_pid, child_timed_out, stop_soon, timer, fault>>

Pid   == 1 .. 2
Cause == {"none", "exit", "signal", "alarm", "stop"}

\* status is what a waitpid of the child says: how it ended.
Message == [kind : {"hello"}] \cup [kind : {"pid"}, pid : Pid]
           \cup [kind : {"status"}, status : Cause \ {"none"}]

FSTypeOK ==
    /\ afl \in {"init", "idle", "request", "pid", "arm", "status", "clear", "disarm", "fatal"}
    /\ server \in {"starting", "await", "forked", "wait", "dead"}
    /\ child \in [pid : Pid, running : BOOLEAN, cause : Cause]
    /\ ctl \in BOOLEAN
    /\ st \in Seq(Message) /\ Len(st) <= 2
    /\ child_pid \in Pid \cup {-1, 0}
    /\ child_timed_out \in BOOLEAN /\ stop_soon \in BOOLEAN /\ timer \in BOOLEAN
    /\ fault \in {"none", "tmout", "crash"}

FSInit ==
    /\ afl = "init" /\ server = "starting"
    /\ child = [pid |-> 1, running |-> FALSE, cause |-> "none"]
    /\ ctl = FALSE /\ st = <<>>
    /\ child_pid = -1 /\ child_timed_out = FALSE /\ stop_soon = FALSE
    /\ timer = TRUE
    /\ fault = "none"

\* The child ends, for that cause.
Ended(cause) == [child EXCEPT !.running = FALSE, !.cause = cause]

-----------------------------------------------------------------------------
(* The fork server.                                                        *)

Hello ==
    /\ server = "starting"
    /\ st' = Append(st, [kind |-> "hello"])
    /\ server' = "await"
    /\ UNCHANGED <<afl, child, ctl, child_pid, child_timed_out, stop_soon, timer, fault>>

\* A new process gets a number other than the one that afl-fuzz holds.
NewPids == IF child_pid = 1 THEN {2} ELSE {1}

Fork ==
    /\ server = "await" /\ ctl
    /\ ctl' = FALSE
    /\ \E pid \in NewPids : child' = [pid |-> pid, running |-> TRUE, cause |-> "none"]
    /\ server' = "forked"
    /\ UNCHANGED <<afl, st, child_pid, child_timed_out, stop_soon, timer, fault>>

TellPid ==
    /\ server = "forked"
    /\ st' = Append(st, [kind |-> "pid", pid |-> child.pid])
    /\ server' = "wait"
    /\ UNCHANGED <<afl, child, ctl, child_pid, child_timed_out, stop_soon, timer, fault>>

\* Slip: the server does not wait for the child's end.
TellStatusEarly ==
    /\ server = "wait"
    /\ st' = Append(st, [kind |-> "status",
                         status |-> IF child.running THEN "exit" ELSE child.cause])
    /\ server' = "await"
    /\ UNCHANGED <<afl, child, ctl, child_pid, child_timed_out, stop_soon, timer, fault>>

TellStatus ==
    /\ server = "wait" /\ ~child.running
    /\ st' = Append(st, [kind |-> "status", status |-> child.cause])
    /\ server' = "await"
    /\ UNCHANGED <<afl, child, ctl, child_pid, child_timed_out, stop_soon, timer, fault>>

\* The child exits or crashes; it may never do.
ChildEnds ==
    /\ child.running
    /\ \E cause \in {"exit", "signal"} : child' = Ended(cause)
    /\ UNCHANGED <<afl, server, ctl, st, child_pid, child_timed_out, stop_soon, timer, fault>>

-----------------------------------------------------------------------------
(* afl-fuzz.                                                               *)

\* The handshake of init_forkserver.
Up ==
    /\ afl = "init" /\ st # <<>>
    /\ st' = Tail(st)
    /\ timer' = FALSE
    /\ afl' = "idle"
    /\ UNCHANGED <<server, child, ctl, child_pid, child_timed_out, stop_soon, fault>>

\* "Timeout while initializing fork server", or it died.
NotUp ==
    /\ afl = "init" /\ st = <<>> /\ server = "dead"
    /\ timer' = FALSE
    /\ afl' = "fatal"
    /\ UNCHANGED <<server, child, ctl, st, child_pid, child_timed_out, stop_soon, fault>>

\* A call of run_target.
Call ==
    /\ afl = "idle"
    /\ child_timed_out' = FALSE
    /\ afl' = "request"
    /\ UNCHANGED <<server, child, ctl, st, child_pid, stop_soon, timer, fault>>

\* A pipe whose other end is gone: "if (stop_soon) return 0", or RPFATAL.
Broken ==
    /\ afl' = IF stop_soon THEN "idle" ELSE "fatal"
    /\ fault' = "none"
    /\ UNCHANGED <<server, child, ctl, st, child_pid, child_timed_out, stop_soon, timer>>

Request ==
    /\ afl = "request"
    /\ \/ server = "dead" /\ Broken
       \/ /\ server # "dead"
          /\ ctl' = TRUE
          /\ afl' = "pid"
          /\ UNCHANGED <<server, child, st, child_pid, child_timed_out, stop_soon, timer, fault>>

ReadPid ==
    /\ afl = "pid"
    /\ \/ st = <<>> /\ server = "dead" /\ Broken
       \/ /\ st # <<>>
          /\ child_pid' = Head(st).pid
          /\ st' = Tail(st)
          /\ afl' = "arm"
          /\ UNCHANGED <<server, child, ctl, child_timed_out, stop_soon, timer, fault>>

\* Slip: the timer is not set anew.
ArmOnce ==
    /\ afl = "arm"
    /\ UNCHANGED timer
    /\ afl' = "status"
    /\ UNCHANGED <<server, child, ctl, st, child_pid, child_timed_out, stop_soon, fault>>

Arm ==
    /\ afl = "arm"
    /\ timer' = TRUE
    /\ afl' = "status"
    /\ UNCHANGED <<server, child, ctl, st, child_pid, child_timed_out, stop_soon, fault>>

\* Slip: any end after the alarm is a timeout.
FaultOfTimeout(status) ==
    IF status = "exit" \/ stop_soon THEN "none"
    ELSE IF child_timed_out THEN "tmout"
    ELSE "crash"

\* What run_target will return for that status, at this moment. A SIGKILL that
\* was not the alarm's is a crash.
FaultOf(status) ==
    IF status = "exit" \/ stop_soon THEN "none"
    ELSE IF status \in {"alarm", "stop"} /\ child_timed_out THEN "tmout"
    ELSE "crash"

\* The status is kept in st until run_target is through with it.
ReadStatus ==
    /\ afl = "status"
    /\ \/ st = <<>> /\ server = "dead" /\ Broken
       \/ /\ st # <<>>
          /\ afl' = "clear"
          /\ UNCHANGED <<server, child, ctl, st, child_pid, child_timed_out, stop_soon, timer,
                         fault>>

\* From here on the alarm has no one to kill.
Clear ==
    /\ afl = "clear"
    /\ child_pid' = 0
    /\ afl' = "disarm"
    /\ UNCHANGED <<server, child, ctl, st, child_timed_out, stop_soon, timer, fault>>

Return ==
    /\ afl = "disarm"
    /\ timer' = FALSE
    /\ fault' = FaultOf(Head(st).status)
    /\ st' = Tail(st)
    /\ afl' = "idle"
    /\ UNCHANGED <<server, child, ctl, child_pid, child_timed_out, stop_soon>>

-----------------------------------------------------------------------------
(* The signal handlers. A kill of a child that has ended does nothing, as  *)
(* long as its pid is not given to another process.                        *)

Killed(cause) == IF child.running /\ child_pid = child.pid THEN Ended(cause) ELSE child

\* handle_timeout.
Alarm ==
    /\ timer
    /\ timer' = FALSE
    /\ IF child_pid > 0
       THEN child_timed_out' = TRUE /\ child' = Killed("alarm") /\ UNCHANGED server
       ELSE IF child_pid = -1
       THEN child_timed_out' = TRUE /\ server' = "dead" /\ UNCHANGED child
       ELSE UNCHANGED <<child_timed_out, child, server>>
    /\ UNCHANGED <<afl, ctl, st, child_pid, stop_soon, fault>>

\* handle_stop_sig.
StopSignal ==
    /\ ~stop_soon
    /\ stop_soon' = TRUE
    /\ child' = Killed("stop")
    /\ server' = "dead"
    /\ UNCHANGED <<afl, ctl, st, child_pid, child_timed_out, timer, fault>>

-----------------------------------------------------------------------------
RunTarget  == Request \/ ReadPid \/ Arm \/ ReadStatus \/ Clear \/ Return
ServerStep == Hello \/ Fork \/ TellPid \/ TellStatus

FSNext == Up \/ NotUp \/ Call \/ RunTarget \/ ServerStep \/ ChildEnds \/ Alarm \/ StopSignal

FSSpec == FSInit /\ [][FSNext]_fsvars

-----------------------------------------------------------------------------
(* Properties                                                              *)

\* What run_target reports is what became of the child it asked for: a timeout
\* is a child its own alarm has killed, a crash one that died by itself, even
\* when the alarm went off just after. After Ctrl-C it reports nothing.
FaultIsTrue ==
    afl = "idle" /\ fault # "none" => child.cause = IF fault = "tmout" THEN "alarm" ELSE "signal"

\* Between two executions no child runs, so that the bits of the next one are
\* its own. After Ctrl-C one may: handle_stop_sig kills the child whose pid was
\* read, and a child that was forked but not yet read loses its server only.
NoChildBetween == afl = "idle" /\ child.running => stop_soon
=============================================================================
