---------------------------- MODULE FuzzerProofs ----------------------------
(***************************************************************************)
(* Two sides of afl-fuzz: the turn of one fuzzer and what it asks of its   *)
(* fork server (FuzzOne), and the sessions of fuzzers that share a         *)
(* directory (AflSession), for any inputs, dictionaries, seeds and numbers *)
(* of fuzzers and kills.                                                   *)
(*                                                                         *)
(* The turn: what run_target reports is what became of the child it asked  *)
(* for, and no child is left between two executions. The argument is an    *)
(* invariant that says, for every place in run_target, where the server    *)
(* may be and what lies in the pipes; it holds of ForkServer alone, and    *)
(* fuzz_one is shown to do nothing to the protocol but call run_target.    *)
(* What fuzz_one changes in the input it puts back (TurnInvariant).        *)
(*                                                                         *)
(* The sessions: for every point of a start-up, which files the next start *)
(* in place would go on with (Kept), that they have every input the queue  *)
(* was given, and that what readers take for read of a queue stands, by its*)
(* number, for an input they have executed (SessionIInv).                  *)
(***************************************************************************)
EXTENDS FuzzOne, AflSession, SequenceTheorems, FiniteSetTheorems, WellFoundedInduction, TLAPS

PidMsg    == [kind |-> "pid", pid |-> child.pid]
StatusMsg == [kind |-> "status", status |-> child.cause]

-----------------------------------------------------------------------------
(* Where the two sides may be.                                             *)

Dead  == server = "dead"
Quiet == server = "await" /\ ~ctl /\ ~child.running
Finished  == ~child.running /\ child.cause # "none"

InInit ==
    afl = "init" =>
        /\ child_pid = -1 /\ ~child.running /\ ~ctl /\ child.cause = "none" /\ fault = "none"
        /\ \/ server = "starting" /\ st = <<>>
           \/ server = "await" /\ st = <<[kind |-> "hello"]>>
           \/ Dead /\ st \in {<<>>, <<[kind |-> "hello"]>>}

InIdle ==
    afl \in {"idle", "request"} => st = <<>> /\ (Dead \/ (Quiet /\ child_pid <= 0))

InPid ==
    afl = "pid" =>
        /\ child_pid <= 0
        /\ \/ st = <<>> /\ server = "await" /\ ctl /\ ~child.running
           \/ st = <<>> /\ server = "forked" /\ ~ctl
           \/ st = <<PidMsg>> /\ server = "wait" /\ ~ctl
           \/ st = <<PidMsg, StatusMsg>> /\ Finished /\ (Dead \/ Quiet)
           \/ st \in {<<>>, <<PidMsg>>} /\ Dead

InStatus ==
    afl \in {"arm", "status"} =>
        /\ child_pid = child.pid
        /\ \/ st = <<>> /\ (Dead \/ (server = "wait" /\ ~ctl))
           \/ st = <<StatusMsg>> /\ Finished /\ (Dead \/ Quiet)

InClear ==
    afl \in {"clear", "disarm"} =>
        /\ st = <<StatusMsg>> /\ Finished /\ (Dead \/ Quiet)
        /\ afl = "disarm" => child_pid = 0

\* A server that runs was not stopped, and is not left by a fuzzer that gave up.
Alive ==
    /\ afl = "fatal" => Dead
    /\ Dead => stop_soon \/ ~child.running
    /\ afl = "idle" /\ child.running => fault = "none"
    /\ child_pid = -1 /\ timer => afl = "init"
    /\ server \in {"forked", "wait"} => child.running \/ child.cause # "none"

\* Who killed the child has noted it.
Causes ==
    /\ child.cause = "stop" => stop_soon
    /\ child.cause = "alarm" =>
           \/ child_timed_out
           \/ afl \in {"idle", "request", "fatal"}
           \/ afl = "pid" /\ st = <<>> /\ server \in {"await", "dead"}

FSInv ==
    /\ FSTypeOK
    /\ InInit /\ InIdle /\ InPid /\ InStatus /\ InClear
    /\ Alive /\ Causes
    /\ FaultIsTrue

-----------------------------------------------------------------------------
\* A pipe of at most two messages.
LEMMA Pipe ==
    ASSUME NEW S, NEW d \in S, NEW e \in S
    PROVE  /\ Append(<<>>, e) = <<e>> /\ Append(<<d>>, e) = <<d, e>>
           /\ Tail(<<e>>) = <<>> /\ Tail(<<d, e>>) = <<e>>
           /\ Head(<<e>>) = e /\ Head(<<d, e>>) = d
           /\ <<e>> # <<>> /\ <<d, e>> # <<>> /\ <<d, e>> # <<e>>
           /\ Len(<<e>>) = 1 /\ Len(<<d, e>>) = 2
  <1>1. Append(<<>>, e) = <<e>> OBVIOUS
  <1>2. Append(<<d>>, e) = <<d, e>>
    <2>1. Append(<<d>>, e) \in Seq(S) /\ <<d, e>> \in Seq(S) OBVIOUS
    <2>2. Len(Append(<<d>>, e)) = 2 /\ Len(<<d, e>>) = 2 OBVIOUS
    <2>3. \A i \in 1 .. 2 : Append(<<d>>, e)[i] = <<d, e>>[i] OBVIOUS
    <2>. QED BY <2>1, <2>2, <2>3, SeqEqual
  <1>3. Tail(<<e>>) = <<>> OBVIOUS
  <1>4. Tail(<<d, e>>) = <<e>> OBVIOUS
  <1>5. Head(<<e>>) = e /\ Head(<<d, e>>) = d OBVIOUS
  <1>6. Len(<<e>>) = 1 /\ Len(<<d, e>>) = 2 /\ Len(<<>>) = 0 OBVIOUS
  <1>7. <<e>> # <<>> /\ <<d, e>> # <<>> /\ <<d, e>> # <<e>> BY <1>6
  <1>. QED BY <1>1, <1>2, <1>3, <1>4, <1>5, <1>6, <1>7

\* The invariant holds before the server is started.
LEMMA FSInitially == FSInit => FSInv
  <1> SUFFICES ASSUME FSInit PROVE FSInv
    OBVIOUS
  <1>1. FSTypeOK
    <2>1. st \in Seq(Message) /\ Len(st) <= 2
      BY EmptySeq DEF FSInit
    <2>2. child \in [pid : Pid, running : BOOLEAN, cause : Cause]
      BY DEF FSInit, Pid, Cause
    <2>. QED BY <2>1, <2>2 DEF FSInit, FSTypeOK
  <1>2. InInit /\ InIdle /\ InPid /\ InStatus /\ InClear
    BY DEF FSInit, InInit, InIdle, InPid, InStatus, InClear
  <1>3. Alive /\ Causes /\ FaultIsTrue
    BY DEF FSInit, Alive, Causes, FaultIsTrue
  <1>. QED BY <1>1, <1>2, <1>3 DEF FSInv

\* The pipe of a child that has been announced, and of one that has ended.
LEMMA ChildPipe ==
    ASSUME PidMsg \in Message
    PROVE  /\ Head(<<PidMsg>>) = PidMsg /\ Tail(<<PidMsg>>) = <<>>
           /\ Append(<<>>, PidMsg) = <<PidMsg>> /\ <<PidMsg>> # <<>>
           /\ StatusMsg \in Message =>
                  /\ Append(<<PidMsg>>, StatusMsg) = <<PidMsg, StatusMsg>>
                  /\ Append(<<>>, StatusMsg) = <<StatusMsg>> /\ <<StatusMsg>> # <<>>
                  /\ Head(<<PidMsg, StatusMsg>>) = PidMsg
                  /\ Tail(<<PidMsg, StatusMsg>>) = <<StatusMsg>>
                  /\ <<PidMsg, StatusMsg>> \in Seq(Message) /\ Len(<<PidMsg, StatusMsg>>) = 2
                  /\ <<StatusMsg>> \in Seq(Message) /\ Len(<<StatusMsg>>) = 1
  <1>1. /\ Head(<<PidMsg>>) = PidMsg /\ Tail(<<PidMsg>>) = <<>>
        /\ Append(<<>>, PidMsg) = <<PidMsg>> /\ <<PidMsg>> # <<>>
    BY Pipe
  <1>2. ASSUME StatusMsg \in Message
        PROVE  /\ Append(<<PidMsg>>, StatusMsg) = <<PidMsg, StatusMsg>>
               /\ Append(<<>>, StatusMsg) = <<StatusMsg>> /\ <<StatusMsg>> # <<>>
               /\ Head(<<PidMsg, StatusMsg>>) = PidMsg
               /\ Tail(<<PidMsg, StatusMsg>>) = <<StatusMsg>>
    BY <1>2, Pipe
  <1>3. ASSUME StatusMsg \in Message
        PROVE  /\ <<PidMsg, StatusMsg>> \in Seq(Message) /\ Len(<<PidMsg, StatusMsg>>) = 2
               /\ <<StatusMsg>> \in Seq(Message) /\ Len(<<StatusMsg>>) = 1
    BY <1>3
  <1>. QED BY <1>1, <1>2, <1>3

\* A child, as FSTypeOK has it.
LEMMA ChildType ==
    ASSUME NEW p \in Pid, NEW r \in BOOLEAN, NEW c \in Cause
    PROVE  [pid |-> p, running |-> r, cause |-> c] \in [pid : Pid, running : BOOLEAN, cause : Cause]
  OBVIOUS

\* One step for each action: what it says of the place it is taken at, then the
\* parts of the invariant.
LEMMA FSStep == FSInv /\ [FSNext]_fsvars => FSInv'
  <1> SUFFICES ASSUME FSInv, [FSNext]_fsvars PROVE FSInv'
    OBVIOUS
  <1> USE DEF FSInv, Quiet, Dead
  <1>1. CASE Hello
    <2>1. st = <<>> /\ afl = "init"
      BY <1>1 DEF Hello, InInit, InIdle, InPid, InStatus, InClear, Alive, FSTypeOK, Pid, Cause
    <2>2. st' = <<[kind |-> "hello"]>>
      BY <1>1, <2>1, Pipe DEF Hello, Message
    <2>3. st' \in Seq(Message) /\ Len(st') <= 2
      BY <2>2 DEF Message
    <2>4. FSTypeOK'
      BY <1>1, <2>1, <2>2, <2>3 DEF Hello, FSTypeOK, Pid, Cause
    <2>5. InInit' /\ InIdle'
      BY <1>1, <2>1, <2>2, <2>3 DEF Hello, FSTypeOK, Pid, Cause, InInit, InIdle
    <2>6. InPid'
      BY <1>1, <2>1, <2>2, <2>3 DEF Hello, FSTypeOK, Pid, Cause, InPid, PidMsg, StatusMsg, Finished
    <2>7. InStatus'
      BY <1>1, <2>1, <2>2, <2>3 DEF Hello, FSTypeOK, Pid, Cause, InStatus, PidMsg, StatusMsg, Finished
    <2>8. InClear'
      BY <1>1, <2>1, <2>2, <2>3 DEF Hello, FSTypeOK, Pid, Cause, InClear, StatusMsg, Finished
    <2>9. Alive'
      BY <1>1, <2>1, <2>2, <2>3 DEF Hello, FSTypeOK, Pid, Cause, Alive
    <2>10. Causes'
      BY <1>1, <2>1, <2>2, <2>3 DEF Hello, FSTypeOK, Pid, Cause, Causes
    <2>11. FaultIsTrue'
      BY <1>1, <2>1, <2>2, <2>3 DEF Hello, FSTypeOK, Pid, Cause, FaultIsTrue, Alive, Causes
    <2>. QED BY <2>4, <2>5, <2>6, <2>7, <2>8, <2>9, <2>10, <2>11
  <1>2. CASE Fork
    <2>1. st = <<>> /\ afl = "pid" /\ child_pid <= 0
      BY <1>2 DEF Fork, InInit, InIdle, InPid, InStatus, InClear, Alive, FSTypeOK, Pid, Cause
    <2>2. NewPids = {1}
      BY <2>1 DEF NewPids
    <2>3. child' = [pid |-> 1, running |-> TRUE, cause |-> "none"]
      BY <1>2, <2>2 DEF Fork
    <2>4. child' \in [pid : Pid, running : BOOLEAN, cause : Cause]
      BY <2>3, ChildType DEF Pid, Cause
    <2>5. FSTypeOK'
      BY <1>2, <2>1, <2>2, <2>3, <2>4 DEF Fork, FSTypeOK, Pid, Cause
    <2>6. InInit' /\ InIdle'
      BY <1>2, <2>1, <2>2, <2>3, <2>4 DEF Fork, FSTypeOK, Pid, Cause, InInit, InIdle
    <2>7. InPid'
      BY <1>2, <2>1, <2>2, <2>3, <2>4 DEF Fork, FSTypeOK, Pid, Cause, InPid, PidMsg, StatusMsg, Finished
    <2>8. InStatus'
      BY <1>2, <2>1, <2>2, <2>3, <2>4 DEF Fork, FSTypeOK, Pid, Cause, InStatus, PidMsg, StatusMsg, Finished
    <2>9. InClear'
      BY <1>2, <2>1, <2>2, <2>3, <2>4 DEF Fork, FSTypeOK, Pid, Cause, InClear, StatusMsg, Finished
    <2>10. Alive'
      BY <1>2, <2>1, <2>2, <2>3, <2>4 DEF Fork, FSTypeOK, Pid, Cause, Alive
    <2>11. Causes'
      BY <1>2, <2>1, <2>2, <2>3, <2>4 DEF Fork, FSTypeOK, Pid, Cause, Causes
    <2>12. FaultIsTrue'
      BY <1>2, <2>1, <2>2, <2>3, <2>4 DEF Fork, FSTypeOK, Pid, Cause, FaultIsTrue, Alive, Causes
    <2>. QED BY <2>5, <2>6, <2>7, <2>8, <2>9, <2>10, <2>11, <2>12
  <1>3. CASE TellPid
    <2>1. st = <<>> /\ afl = "pid"
      BY <1>3 DEF TellPid, InInit, InIdle, InPid, InStatus, InClear, Alive, FSTypeOK, Pid, Cause
    <2>2. st' = <<PidMsg>>
      BY <1>3, <2>1, Pipe DEF TellPid, Message, PidMsg, FSTypeOK
    <2>3. st' \in Seq(Message) /\ Len(st') <= 2
      BY <1>3, <2>2 DEF Message, PidMsg, TellPid, FSTypeOK
    <2>4. FSTypeOK'
      BY <1>3, <2>1, <2>2, <2>3 DEF TellPid, FSTypeOK, Pid, Cause
    <2>5. InInit' /\ InIdle'
      BY <1>3, <2>1, <2>2, <2>3 DEF TellPid, FSTypeOK, Pid, Cause, InInit, InIdle
    <2>6. InPid'
      BY <1>3, <2>1, <2>2, <2>3 DEF TellPid, FSTypeOK, Pid, Cause, InPid, PidMsg, StatusMsg, Finished
    <2>7. InStatus'
      BY <1>3, <2>1, <2>2, <2>3 DEF TellPid, FSTypeOK, Pid, Cause, InStatus, PidMsg, StatusMsg, Finished
    <2>8. InClear'
      BY <1>3, <2>1, <2>2, <2>3 DEF TellPid, FSTypeOK, Pid, Cause, InClear, StatusMsg, Finished
    <2>9. Alive'
      BY <1>3, <2>1, <2>2, <2>3 DEF TellPid, FSTypeOK, Pid, Cause, Alive
    <2>10. Causes'
      BY <1>3, <2>1, <2>2, <2>3 DEF TellPid, FSTypeOK, Pid, Cause, Causes
    <2>11. FaultIsTrue'
      BY <1>3, <2>1, <2>2, <2>3 DEF TellPid, FSTypeOK, Pid, Cause, FaultIsTrue, Alive, Causes
    <2>. QED BY <2>4, <2>5, <2>6, <2>7, <2>8, <2>9, <2>10, <2>11
  <1>4. CASE TellStatus
    <2>1. afl \in {"pid", "arm", "status"} /\ Finished
      BY <1>4 DEF TellStatus, Finished, InInit, InIdle, InPid, InStatus, InClear, Alive, FSTypeOK, Pid, Cause
    <2>2. afl = "pid" => st = <<PidMsg>>
      BY <1>4 DEF TellStatus, InPid
    <2>3. afl # "pid" => st = <<>>
      BY <1>4, <2>1 DEF TellStatus, InStatus
    <2>4. PidMsg \in Message /\ StatusMsg \in Message
      BY <2>1 DEF Finished, PidMsg, StatusMsg, Message, FSTypeOK, Cause
    <2>5. st' = Append(st, StatusMsg)
      BY <1>4 DEF TellStatus, StatusMsg
    <2>6. afl = "pid" => st' = <<PidMsg, StatusMsg>>
      BY <2>2, <2>4, <2>5, ChildPipe
    <2>7. afl # "pid" => st' = <<StatusMsg>>
      BY <2>3, <2>4, <2>5, ChildPipe
    <2>8. <<PidMsg, StatusMsg>> \in Seq(Message) /\ <<StatusMsg>> \in Seq(Message)
      BY <2>4, ChildPipe
    <2>9. Len(<<PidMsg, StatusMsg>>) <= 2 /\ Len(<<StatusMsg>>) <= 2
      BY <2>4, ChildPipe
    <2>10. st' \in Seq(Message) /\ Len(st') <= 2
      <3>1. CASE afl = "pid" BY <2>6, <2>8, <2>9, <3>1, Zenon
      <3>2. CASE afl # "pid" BY <2>7, <2>8, <2>9, <3>2, Zenon
      <3>. QED BY <3>1, <3>2
    <2>11. FSTypeOK'
      BY <1>4, <2>1, <2>2, <2>3, <2>4, <2>5, <2>6, <2>7, <2>8, <2>9, <2>10 DEF TellStatus, FSTypeOK, Pid, Cause
    <2>12. InInit' /\ InIdle'
      BY <1>4, <2>1, <2>2, <2>3, <2>4, <2>5, <2>6, <2>7, <2>8, <2>9, <2>10 DEF TellStatus, FSTypeOK, Pid, Cause, InInit, InIdle
    <2>13. InPid'
      BY <1>4, <2>1, <2>2, <2>3, <2>4, <2>5, <2>6, <2>7, <2>8, <2>9, <2>10 DEF TellStatus, FSTypeOK, Pid, Cause, InPid, PidMsg, StatusMsg, Finished
    <2>14. InStatus'
      BY <1>4, <2>1, <2>2, <2>3, <2>4, <2>5, <2>6, <2>7, <2>8, <2>9, <2>10 DEF TellStatus, FSTypeOK, Pid, Cause, InStatus, PidMsg, StatusMsg, Finished
    <2>15. InClear'
      BY <1>4, <2>1, <2>2, <2>3, <2>4, <2>5, <2>6, <2>7, <2>8, <2>9, <2>10 DEF TellStatus, FSTypeOK, Pid, Cause, InClear, StatusMsg, Finished
    <2>16. Alive'
      BY <1>4, <2>1, <2>2, <2>3, <2>4, <2>5, <2>6, <2>7, <2>8, <2>9, <2>10 DEF TellStatus, FSTypeOK, Pid, Cause, Alive
    <2>17. Causes'
      BY <1>4, <2>1, <2>2, <2>3, <2>4, <2>5, <2>6, <2>7, <2>8, <2>9, <2>10 DEF TellStatus, FSTypeOK, Pid, Cause, Causes
    <2>18. FaultIsTrue'
      BY <1>4, <2>1, <2>2, <2>3, <2>4, <2>5, <2>6, <2>7, <2>8, <2>9, <2>10 DEF TellStatus, FSTypeOK, Pid, Cause, FaultIsTrue, Alive, Causes
    <2>. QED BY <2>11, <2>12, <2>13, <2>14, <2>15, <2>16, <2>17, <2>18
  <1>5. CASE ChildEnds
    <2>1. child.running /\ \E cause \in {"exit", "signal"} :
           child' = [pid |-> child.pid, running |-> FALSE, cause |-> cause]
      BY <1>5 DEF ChildEnds, Ended, FSTypeOK
    <2>2. FSTypeOK'
      BY <1>5, <2>1 DEF ChildEnds, FSTypeOK, Pid, Cause
    <2>3. InInit' /\ InIdle'
      BY <1>5, <2>1 DEF ChildEnds, FSTypeOK, Pid, Cause, InInit, InIdle
    <2>4. InPid'
      BY <1>5, <2>1 DEF ChildEnds, FSTypeOK, Pid, Cause, InPid, PidMsg, StatusMsg, Finished
    <2>5. InStatus'
      BY <1>5, <2>1 DEF ChildEnds, FSTypeOK, Pid, Cause, InStatus, PidMsg, StatusMsg, Finished
    <2>6. InClear'
      BY <1>5, <2>1 DEF ChildEnds, FSTypeOK, Pid, Cause, InClear, StatusMsg, Finished
    <2>7. Alive'
      BY <1>5, <2>1 DEF ChildEnds, FSTypeOK, Pid, Cause, Alive
    <2>8. Causes'
      BY <1>5, <2>1 DEF ChildEnds, FSTypeOK, Pid, Cause, Causes
    <2>9. FaultIsTrue'
      BY <1>5, <2>1 DEF ChildEnds, FSTypeOK, Pid, Cause, FaultIsTrue, Alive, Causes
    <2>. QED BY <2>2, <2>3, <2>4, <2>5, <2>6, <2>7, <2>8, <2>9
  <1>6. CASE Up
    <2>1. st = <<[kind |-> "hello"]>> /\ server # "starting"
      BY <1>6 DEF Up, InInit
    <2>2. st' = <<>>
      BY <1>6, <2>1, Pipe DEF Up
    <2>3. st' \in Seq(Message) /\ Len(st') <= 2
      BY <2>2, EmptySeq
    <2>4. FSTypeOK'
      BY <1>6, <2>1, <2>2, <2>3 DEF Up, InInit, FSTypeOK, Pid, Cause
    <2>5. InInit' /\ InIdle'
      BY <1>6, <2>1, <2>2, <2>3 DEF Up, InInit, FSTypeOK, Pid, Cause, InInit, InIdle
    <2>6. InPid'
      BY <1>6, <2>1, <2>2, <2>3 DEF Up, InInit, FSTypeOK, Pid, Cause, InPid, PidMsg, StatusMsg, Finished
    <2>7. InStatus'
      BY <1>6, <2>1, <2>2, <2>3 DEF Up, InInit, FSTypeOK, Pid, Cause, InStatus, PidMsg, StatusMsg, Finished
    <2>8. InClear'
      BY <1>6, <2>1, <2>2, <2>3 DEF Up, InInit, FSTypeOK, Pid, Cause, InClear, StatusMsg, Finished
    <2>9. Alive'
      BY <1>6, <2>1, <2>2, <2>3 DEF Up, InInit, FSTypeOK, Pid, Cause, Alive
    <2>10. Causes'
      BY <1>6, <2>1, <2>2, <2>3 DEF Up, InInit, FSTypeOK, Pid, Cause, Causes
    <2>11. FaultIsTrue'
      BY <1>6, <2>1, <2>2, <2>3 DEF Up, InInit, FSTypeOK, Pid, Cause, FaultIsTrue, Alive, Causes
    <2>. QED BY <2>4, <2>5, <2>6, <2>7, <2>8, <2>9, <2>10, <2>11
  <1>7. CASE NotUp
    <2>1. FSTypeOK'
      BY <1>7 DEF NotUp, FSTypeOK, Pid, Cause
    <2>2. InInit' /\ InIdle'
      BY <1>7 DEF NotUp, FSTypeOK, Pid, Cause, InInit, InIdle
    <2>3. InPid'
      BY <1>7 DEF NotUp, FSTypeOK, Pid, Cause, InPid, PidMsg, StatusMsg, Finished
    <2>4. InStatus'
      BY <1>7 DEF NotUp, FSTypeOK, Pid, Cause, InStatus, PidMsg, StatusMsg, Finished
    <2>5. InClear'
      BY <1>7 DEF NotUp, FSTypeOK, Pid, Cause, InClear, StatusMsg, Finished
    <2>6. Alive'
      BY <1>7 DEF NotUp, FSTypeOK, Pid, Cause, Alive
    <2>7. Causes'
      BY <1>7 DEF NotUp, FSTypeOK, Pid, Cause, Causes
    <2>8. FaultIsTrue'
      BY <1>7 DEF NotUp, FSTypeOK, Pid, Cause, FaultIsTrue, Alive, Causes
    <2>. QED BY <2>1, <2>2, <2>3, <2>4, <2>5, <2>6, <2>7, <2>8
  <1>8. CASE Call
    <2>1. FSTypeOK'
      BY <1>8 DEF Call, FSTypeOK, Pid, Cause
    <2>2. InInit' /\ InIdle'
      BY <1>8 DEF Call, FSTypeOK, Pid, Cause, InInit, InIdle
    <2>3. InPid'
      BY <1>8 DEF Call, FSTypeOK, Pid, Cause, InPid, PidMsg, StatusMsg, Finished
    <2>4. InStatus'
      BY <1>8 DEF Call, FSTypeOK, Pid, Cause, InStatus, PidMsg, StatusMsg, Finished
    <2>5. InClear'
      BY <1>8 DEF Call, FSTypeOK, Pid, Cause, InClear, StatusMsg, Finished
    <2>6. Alive'
      BY <1>8 DEF Call, FSTypeOK, Pid, Cause, Alive
    <2>7. Causes'
      BY <1>8 DEF Call, FSTypeOK, Pid, Cause, Causes
    <2>8. FaultIsTrue'
      BY <1>8 DEF Call, FSTypeOK, Pid, Cause, FaultIsTrue, Alive, Causes
    <2>. QED BY <2>1, <2>2, <2>3, <2>4, <2>5, <2>6, <2>7, <2>8
  <1>9. CASE Request
    <2>1. FSTypeOK'
      BY <1>9 DEF Request, Broken, InIdle, FSTypeOK, Pid, Cause
    <2>2. InInit' /\ InIdle'
      BY <1>9 DEF Request, Broken, InIdle, FSTypeOK, Pid, Cause, InInit, InIdle
    <2>3. InPid'
      BY <1>9 DEF Request, Broken, InIdle, FSTypeOK, Pid, Cause, InPid, PidMsg, StatusMsg, Finished
    <2>4. InStatus'
      BY <1>9 DEF Request, Broken, InIdle, FSTypeOK, Pid, Cause, InStatus, PidMsg, StatusMsg, Finished
    <2>5. InClear'
      BY <1>9 DEF Request, Broken, InIdle, FSTypeOK, Pid, Cause, InClear, StatusMsg, Finished
    <2>6. Alive'
      BY <1>9 DEF Request, Broken, InIdle, FSTypeOK, Pid, Cause, Alive
    <2>7. Causes'
      BY <1>9 DEF Request, Broken, InIdle, FSTypeOK, Pid, Cause, Causes
    <2>8. FaultIsTrue'
      BY <1>9 DEF Request, Broken, InIdle, FSTypeOK, Pid, Cause, FaultIsTrue, Alive, Causes
    <2>. QED BY <2>1, <2>2, <2>3, <2>4, <2>5, <2>6, <2>7, <2>8
  <1>10. CASE ReadPid
    <2>1. CASE st = <<>>
      <3>1. Dead /\ Broken
        BY <1>10, <2>1 DEF ReadPid
      <3>. QED BY <1>10, <2>1, <3>1 DEF ReadPid, Broken, InInit, InIdle, InPid, InStatus, InClear,
                                        Alive, Causes, FaultIsTrue, FSTypeOK
    <2>2. CASE st # <<>>
      <3>1. /\ child_pid' = Head(st).pid /\ st' = Tail(st) /\ afl' = "arm"
            /\ UNCHANGED <<server, child, ctl, child_timed_out, stop_soon, timer, fault>>
        BY <1>10, <2>2 DEF ReadPid
      <3>14. afl = "pid" BY <1>10 DEF ReadPid
      <3>2. \/ st = <<PidMsg>> /\ (Dead \/ (server = "wait" /\ ~ctl))
            \/ st = <<PidMsg, StatusMsg>> /\ Finished /\ (Dead \/ Quiet)
        BY <2>2, <3>14 DEF InPid
      <3>3. PidMsg \in Message /\ (Finished => StatusMsg \in Message)
        BY DEF Finished, PidMsg, StatusMsg, Message, FSTypeOK, Cause
      <3>4. Head(st) = PidMsg
        BY <3>2, <3>3, ChildPipe
      <3>5. child_pid' = child.pid
        BY <3>1, <3>4 DEF PidMsg
      <3>6. st' = <<>> \/ (st' = <<StatusMsg>> /\ Finished /\ (Dead \/ Quiet))
        BY <3>1, <3>2, <3>3, ChildPipe
      <3>7. st' = <<>> => Dead \/ (server = "wait" /\ ~ctl)
        BY <3>1, <3>2, <3>3, ChildPipe
      <3>8. st' \in Seq(Message) /\ Len(st') <= 2
        <4>1. CASE st' = <<>>
          BY <4>1, EmptySeq
        <4>2. CASE st' = <<StatusMsg>> /\ Finished
          <5>1. <<StatusMsg>> \in Seq(Message) /\ Len(<<StatusMsg>>) = 1
            BY <3>3, <4>2, ChildPipe
          <5>. QED BY <4>2, <5>1
        <4>. QED BY <3>6, <4>1, <4>2
      <3>9. FSTypeOK'
        BY <3>1, <3>5, <3>8 DEF FSTypeOK
      <3>10. InInit' /\ InIdle' /\ InPid' /\ InClear'
        BY <3>1 DEF InInit, InIdle, InPid, InClear
      <3>11. InStatus'
        BY <3>1, <3>5, <3>6, <3>7 DEF InStatus, StatusMsg, Finished
      <3>12. Alive'
        BY <3>1, <3>5 DEF Alive, FSTypeOK, Pid
      <3>13. Causes' /\ FaultIsTrue'
        BY <1>10, <2>2, <3>1 DEF ReadPid, Causes, FaultIsTrue
      <3>. QED BY <3>9, <3>10, <3>11, <3>12, <3>13
    <2>. QED BY <2>1, <2>2
  <1>11. CASE Arm
    <2>1. child_pid # -1
      BY <1>11 DEF Arm, InStatus, FSTypeOK, Pid
    <2>2. FSTypeOK'
      BY <1>11, <2>1 DEF Arm, FSTypeOK, Pid, Cause
    <2>3. InInit' /\ InIdle'
      BY <1>11, <2>1 DEF Arm, FSTypeOK, Pid, Cause, InInit, InIdle
    <2>4. InPid'
      BY <1>11, <2>1 DEF Arm, FSTypeOK, Pid, Cause, InPid, PidMsg, StatusMsg, Finished
    <2>5. InStatus'
      BY <1>11, <2>1 DEF Arm, FSTypeOK, Pid, Cause, InStatus, PidMsg, StatusMsg, Finished
    <2>6. InClear'
      BY <1>11, <2>1 DEF Arm, FSTypeOK, Pid, Cause, InClear, StatusMsg, Finished
    <2>7. Alive'
      BY <1>11, <2>1 DEF Arm, FSTypeOK, Pid, Cause, Alive
    <2>8. Causes'
      BY <1>11, <2>1 DEF Arm, FSTypeOK, Pid, Cause, Causes
    <2>9. FaultIsTrue'
      BY <1>11, <2>1 DEF Arm, FSTypeOK, Pid, Cause, FaultIsTrue, Alive, Causes
    <2>. QED BY <2>2, <2>3, <2>4, <2>5, <2>6, <2>7, <2>8, <2>9
  <1>12. CASE ReadStatus
    <2>1. st # <<>> => st = <<StatusMsg>> /\ Finished /\ (Dead \/ Quiet)
      BY <1>12 DEF ReadStatus, InStatus
    <2>2. IF st = <<>> THEN Dead /\ Broken ELSE afl' = "clear"
      BY <1>12 DEF ReadStatus
    <2>3. FSTypeOK'
      BY <1>12, <2>1, <2>2 DEF ReadStatus, Broken, FSTypeOK, Pid, Cause
    <2>4. InInit' /\ InIdle'
      BY <1>12, <2>1, <2>2 DEF ReadStatus, Broken, FSTypeOK, Pid, Cause, InInit, InIdle
    <2>5. InPid'
      BY <1>12, <2>1, <2>2 DEF ReadStatus, Broken, FSTypeOK, Pid, Cause, InPid, PidMsg, StatusMsg, Finished
    <2>6. InStatus'
      BY <1>12, <2>1, <2>2 DEF ReadStatus, Broken, FSTypeOK, Pid, Cause, InStatus, PidMsg, StatusMsg, Finished
    <2>7. InClear'
      BY <1>12, <2>1, <2>2 DEF ReadStatus, Broken, FSTypeOK, Pid, Cause, InClear, StatusMsg, Finished
    <2>8. Alive'
      BY <1>12, <2>1, <2>2 DEF ReadStatus, Broken, FSTypeOK, Pid, Cause, Alive
    <2>9. Causes'
      BY <1>12, <2>1, <2>2 DEF ReadStatus, Broken, FSTypeOK, Pid, Cause, Causes
    <2>10. FaultIsTrue'
      BY <1>12, <2>1, <2>2 DEF ReadStatus, Broken, FSTypeOK, Pid, Cause, FaultIsTrue, Alive, Causes
    <2>. QED BY <2>3, <2>4, <2>5, <2>6, <2>7, <2>8, <2>9, <2>10
  <1>13. CASE Clear
    <2>1. FSTypeOK'
      BY <1>13 DEF Clear, FSTypeOK, Pid, Cause
    <2>2. InInit' /\ InIdle'
      BY <1>13 DEF Clear, FSTypeOK, Pid, Cause, InInit, InIdle
    <2>3. InPid'
      BY <1>13 DEF Clear, FSTypeOK, Pid, Cause, InPid, PidMsg, StatusMsg, Finished
    <2>4. InStatus'
      BY <1>13 DEF Clear, FSTypeOK, Pid, Cause, InStatus, PidMsg, StatusMsg, Finished
    <2>5. InClear'
      BY <1>13 DEF Clear, FSTypeOK, Pid, Cause, InClear, StatusMsg, Finished
    <2>6. Alive'
      BY <1>13 DEF Clear, FSTypeOK, Pid, Cause, Alive
    <2>7. Causes'
      BY <1>13 DEF Clear, FSTypeOK, Pid, Cause, Causes
    <2>8. FaultIsTrue'
      BY <1>13 DEF Clear, FSTypeOK, Pid, Cause, FaultIsTrue, Alive, Causes
    <2>. QED BY <2>1, <2>2, <2>3, <2>4, <2>5, <2>6, <2>7, <2>8
  <1>14. CASE Return
    <2>1. st = <<StatusMsg>> /\ Finished /\ (Dead \/ Quiet) /\ child_pid = 0
      BY <1>14 DEF Return, InClear
    <2>2. Head(st) = StatusMsg /\ st' = <<>>
      BY <1>14, <2>1, Pipe DEF Return
    <2>3. fault' = FaultOf(child.cause)
      BY <1>14, <2>2 DEF Return, StatusMsg
    <2>4. st' \in Seq(Message) /\ Len(st') <= 2
      BY <2>2, EmptySeq
    <2>5. FSTypeOK'
      BY <1>14, <2>1, <2>2, <2>3, <2>4 DEF Return, FaultOf, Finished, FSTypeOK, Pid, Cause
    <2>6. InInit' /\ InIdle'
      BY <1>14, <2>1, <2>2, <2>3, <2>4 DEF Return, FaultOf, Finished, FSTypeOK, Pid, Cause, InInit, InIdle
    <2>7. InPid'
      BY <1>14, <2>1, <2>2, <2>3, <2>4 DEF Return, FaultOf, Finished, FSTypeOK, Pid, Cause, InPid, PidMsg, StatusMsg, Finished
    <2>8. InStatus'
      BY <1>14, <2>1, <2>2, <2>3, <2>4 DEF Return, FaultOf, Finished, FSTypeOK, Pid, Cause, InStatus, PidMsg, StatusMsg, Finished
    <2>9. InClear'
      BY <1>14, <2>1, <2>2, <2>3, <2>4 DEF Return, FaultOf, Finished, FSTypeOK, Pid, Cause, InClear, StatusMsg, Finished
    <2>10. Alive'
      BY <1>14, <2>1, <2>2, <2>3, <2>4 DEF Return, FaultOf, Finished, FSTypeOK, Pid, Cause, Alive
    <2>11. Causes'
      BY <1>14, <2>1, <2>2, <2>3, <2>4 DEF Return, FaultOf, Finished, FSTypeOK, Pid, Cause, Causes
    <2>12. FaultIsTrue'
      BY <1>14, <2>1, <2>2, <2>3, <2>4 DEF Return, FaultOf, Finished, FSTypeOK, Pid, Cause, FaultIsTrue, Alive, Causes
    <2>. QED BY <2>5, <2>6, <2>7, <2>8, <2>9, <2>10, <2>11, <2>12
  <1>15. CASE Alarm
    <2>1. child' = child \/ (child.running /\ child_pid = child.pid
           /\ child' = [pid |-> child.pid, running |-> FALSE, cause |-> "alarm"])
      BY <1>15 DEF Alarm, Killed, Ended, FSTypeOK
    <2>2. child' # child => child_timed_out'
      BY <1>15 DEF Alarm
    <2>3. child' \in [pid : Pid, running : BOOLEAN, cause : Cause]
      BY <2>1, ChildType DEF FSTypeOK, Pid, Cause
    <2>4. FSTypeOK'
      BY <1>15, <2>1, <2>2, <2>3 DEF Alarm, InInit, FSTypeOK, Pid, Cause
    <2>5. InInit' /\ InIdle'
      BY <1>15, <2>1, <2>2, <2>3 DEF Alarm, InInit, FSTypeOK, Pid, Cause, InInit, InIdle
    <2>6. InPid'
      BY <1>15, <2>1, <2>2, <2>3 DEF Alarm, InInit, FSTypeOK, Pid, Cause, InPid, PidMsg, StatusMsg, Finished
    <2>7. InStatus'
      BY <1>15, <2>1, <2>2, <2>3 DEF Alarm, InInit, FSTypeOK, Pid, Cause, InStatus, PidMsg, StatusMsg, Finished
    <2>8. InClear'
      BY <1>15, <2>1, <2>2, <2>3 DEF Alarm, InInit, FSTypeOK, Pid, Cause, InClear, StatusMsg, Finished
    <2>9. Alive'
      BY <1>15, <2>1, <2>2, <2>3 DEF Alarm, InInit, FSTypeOK, Pid, Cause, Alive
    <2>10. Causes'
      BY <1>15, <2>1, <2>2, <2>3 DEF Alarm, InInit, FSTypeOK, Pid, Cause, Causes
    <2>11. FaultIsTrue'
      BY <1>15, <2>1, <2>2, <2>3 DEF Alarm, InInit, FSTypeOK, Pid, Cause, FaultIsTrue, Alive, Causes
    <2>. QED BY <2>4, <2>5, <2>6, <2>7, <2>8, <2>9, <2>10, <2>11
  <1>16. CASE StopSignal
    <2>1. child' = child \/ (child.running /\ child_pid = child.pid
           /\ child' = [pid |-> child.pid, running |-> FALSE, cause |-> "stop"])
      BY <1>16 DEF StopSignal, Killed, Ended, FSTypeOK
    <2>2. child' \in [pid : Pid, running : BOOLEAN, cause : Cause]
      BY <2>1, ChildType DEF FSTypeOK, Pid, Cause
    <2>3. FSTypeOK'
      BY <1>16, <2>1, <2>2 DEF StopSignal, InIdle, FSTypeOK, Pid, Cause
    <2>4. InInit' /\ InIdle'
      BY <1>16, <2>1, <2>2 DEF StopSignal, InIdle, FSTypeOK, Pid, Cause, InInit, InIdle
    <2>5. InPid'
      BY <1>16, <2>1, <2>2 DEF StopSignal, InIdle, FSTypeOK, Pid, Cause, InPid, PidMsg, StatusMsg, Finished
    <2>6. InStatus'
      BY <1>16, <2>1, <2>2 DEF StopSignal, InIdle, FSTypeOK, Pid, Cause, InStatus, PidMsg, StatusMsg, Finished
    <2>7. InClear'
      BY <1>16, <2>1, <2>2 DEF StopSignal, InIdle, FSTypeOK, Pid, Cause, InClear, StatusMsg, Finished
    <2>8. Alive'
      BY <1>16, <2>1, <2>2 DEF StopSignal, InIdle, FSTypeOK, Pid, Cause, Alive
    <2>9. Causes'
      BY <1>16, <2>1, <2>2 DEF StopSignal, InIdle, FSTypeOK, Pid, Cause, Causes
    <2>10. FaultIsTrue'
      BY <1>16, <2>1, <2>2 DEF StopSignal, InIdle, FSTypeOK, Pid, Cause, FaultIsTrue, Alive, Causes
    <2>. QED BY <2>3, <2>4, <2>5, <2>6, <2>7, <2>8, <2>9, <2>10
  <1>17. CASE UNCHANGED fsvars
    <2>1. FSTypeOK'
      BY <1>17 DEF fsvars, FSTypeOK, Pid, Cause
    <2>2. InInit' /\ InIdle'
      BY <1>17 DEF fsvars, FSTypeOK, Pid, Cause, InInit, InIdle
    <2>3. InPid'
      BY <1>17 DEF fsvars, FSTypeOK, Pid, Cause, InPid, PidMsg, StatusMsg, Finished
    <2>4. InStatus'
      BY <1>17 DEF fsvars, FSTypeOK, Pid, Cause, InStatus, PidMsg, StatusMsg, Finished
    <2>5. InClear'
      BY <1>17 DEF fsvars, FSTypeOK, Pid, Cause, InClear, StatusMsg, Finished
    <2>6. Alive'
      BY <1>17 DEF fsvars, FSTypeOK, Pid, Cause, Alive
    <2>7. Causes'
      BY <1>17 DEF fsvars, FSTypeOK, Pid, Cause, Causes
    <2>8. FaultIsTrue'
      BY <1>17 DEF fsvars, FSTypeOK, Pid, Cause, FaultIsTrue, Alive, Causes
    <2>. QED BY <2>1, <2>2, <2>3, <2>4, <2>5, <2>6, <2>7, <2>8
  <1>. QED BY <1>1, <1>2, <1>3, <1>4, <1>5, <1>6, <1>7, <1>8, <1>9, <1>10, <1>11, <1>12, <1>13,
              <1>14, <1>15, <1>16, <1>17 DEF FSNext, RunTarget, ServerStep

\* It says that no child runs between two executions.
LEMMA FSInvNoChild == FSInv => NoChildBetween
  BY DEF FSInv, InIdle, Alive, Dead, Quiet, NoChildBetween

-----------------------------------------------------------------------------
(* The fork server under fuzz_one.                                         *)

\* A step of the straight-line code calls run_target or leaves the protocol alone.
LEMMA TurnStepCalls == TurnStep => Call \/ UNCHANGED fsvars
  BY DEF TurnStep, SkipDet, BeginDet, Mutate, SkipTry, NextPosition, NextStage, DetDone, SkipHttp,
         Stopped, Skipped, Boring, KeepPath, KeepCrash, Rerun, KeepHang, RerunInVain, Calibrate,
         EndCalibrate, Restore, BeginHavoc, Havoc, RestoreHavoc, Splice, RetrySplice, EndTurn, Run

\* Every step of a turn is one of the fork server or leaves it alone.
LEMMA NextRunsServer == [Next]_vars => [FSNext]_fsvars
  BY TurnStepCalls DEF Next, StartTurn, SkipRequest, Below, FSNext, vars

\* fuzz_one uses the fork server as ForkServer describes it.
THEOREM FuzzOneUsesForkServer == Spec => FSSpec
  <1>1. Init => FSInit
    BY DEF Init
  <1>. QED BY <1>1, NextRunsServer, PTL DEF Spec, FSSpec

\* The invariant of the protocol holds whenever fuzz_one runs.
THEOREM ForkServerInvariant == Spec => []FSInv
  <1>1. FSSpec => []FSInv
    BY FSInitially, FSStep, PTL DEF FSSpec
  <1>. QED BY <1>1, FuzzOneUsesForkServer, PTL

\* What run_target reports is what became of the child it asked for.
THEOREM RunTargetFaultIsTrue == Spec => []FaultIsTrue
  <1>1. FSInv => FaultIsTrue
    BY DEF FSInv
  <1>. QED BY <1>1, ForkServerInvariant, PTL

\* Between two executions no child runs, unless Ctrl-C has come.
THEOREM RunTargetNoChildBetween == Spec => []NoChildBetween
  BY FSInvNoChild, ForkServerInvariant, PTL

-----------------------------------------------------------------------------
(* What is kept.                                                           *)

\* A report of no fault means a child that has finished, once there was one.
Ran ==
    /\ afl = "idle" /\ fault = "none" /\ ~stop_soon => child.cause \in {"none", "exit"}
    /\ pc \in {"common", "rerun"} /\ afl = "idle" /\ ~stop_soon => child.cause # "none"
    /\ afl = "init" => pc = "end"

KeptInv == Ran /\ KeptIsTrue /\ (kept # "nothing" => afl = "idle" /\ ~child.running)

\* A step of the protocol leaves fuzz_one where it is.
ServerSide == Up \/ NotUp \/ RunTarget \/ ServerStep \/ ChildEnds \/ Alarm \/ StopSignal

\* What the server does by itself keeps what was kept.
LEMMA KeptBelow ==
    ASSUME FSInv, KeptInv, ServerSide \/ UNCHANGED fsvars, UNCHANGED fovars
    PROVE  KeptInv'
  <1> USE DEF FSInv, KeptInv, Ran, KeptIsTrue, fovars
  <1>1. CASE Hello
    BY <1>1 DEF Hello
  <1>2. CASE Fork
    BY <1>2 DEF Fork, InIdle, Dead, Quiet
  <1>3. CASE TellPid
    BY <1>3 DEF TellPid
  <1>4. CASE TellStatus
    BY <1>4 DEF TellStatus
  <1>5. CASE ChildEnds
    BY <1>5, FSInvNoChild DEF ChildEnds, Ended, FSTypeOK, NoChildBetween
  <1>6. CASE Up
    BY <1>6 DEF Up, InInit
  <1>7. CASE NotUp
    BY <1>7 DEF NotUp
  <1>8. CASE Request
    BY <1>8 DEF Request, Broken
  <1>9. CASE ReadPid
    BY <1>9 DEF ReadPid, Broken
  <1>10. CASE Arm
    BY <1>10 DEF Arm
  <1>11. CASE ReadStatus
    BY <1>11 DEF ReadStatus, Broken
  <1>12. CASE Clear
    BY <1>12 DEF Clear
  <1>13. CASE Return
    <2>1. st = <<StatusMsg>> /\ Finished
      BY <1>13 DEF Return, InClear
    <2>2. Head(st) = StatusMsg
      BY <2>1, Pipe
    <2>3. fault' = FaultOf(child.cause)
      BY <1>13, <2>2 DEF Return, StatusMsg
    <2>4. UNCHANGED <<child, stop_soon>> /\ afl' = "idle" /\ child.cause # "none"
      BY <1>13, <2>1 DEF Return, Finished
    <2>5. fault' = "none" /\ ~stop_soon => child.cause = "exit"
      BY <2>3 DEF FaultOf
    <2>6. kept = "nothing"
      BY <1>13 DEF Return
    <2>. QED BY <2>4, <2>5, <2>6
  <1>14. CASE Alarm
    BY <1>14, FSInvNoChild DEF Alarm, Killed, Ended, FSTypeOK, NoChildBetween
  <1>15. CASE StopSignal
    BY <1>15 DEF StopSignal, Killed, Ended, Alive
  <1>16. CASE UNCHANGED fsvars
    BY <1>16 DEF fsvars
  <1>. QED BY <1>1, <1>2, <1>3, <1>4, <1>5, <1>6, <1>7, <1>8, <1>9, <1>10, <1>11, <1>12, <1>13,
              <1>14, <1>15, <1>16 DEF ServerSide, RunTarget, ServerStep

\* What a step of fuzz_one can do to kept: forget it, leave it, or set it after
\* an execution whose report says so.
Keeps ==
    \/ Call /\ kept' = "nothing"
    \/ /\ UNCHANGED fsvars
       /\ pc' \in {"common", "rerun"} => pc' = pc
       /\ pc = "end" => pc' = "end" \/ afl = "idle"
       /\ \/ kept' \in {kept, "nothing"}
          \/ /\ pc \in {"common", "rerun"} /\ afl = "idle" /\ ~stop_soon
             /\ \/ kept' = "path" /\ fault = "none"
                \/ kept' = "crash" /\ fault = "crash"
                \/ kept' = "hang" /\ fault = "tmout"

\* A step of fuzz_one keeps an input only after its execution was judged.
LEMMA TurnStepKeeps == StartTurn \/ TurnStep \/ SkipRequest => Keeps
  <1> USE DEF Keeps, InLoop, Returned, HavocOver
  <1>1. CASE StartTurn BY <1>1 DEF StartTurn
  <1>2. CASE SkipRequest BY <1>2 DEF SkipRequest
  <1>3. CASE SkipDet BY <1>3 DEF SkipDet, EnterStage
  <1>4. CASE BeginDet BY <1>4 DEF BeginDet, EnterStage
  <1>5. CASE Mutate BY <1>5 DEF Mutate, Run
  <1>6. CASE SkipTry BY <1>6 DEF SkipTry
  <1>7. CASE NextPosition BY <1>7 DEF NextPosition
  <1>8. CASE NextStage BY <1>8 DEF NextStage, EnterStage
  <1>9. CASE DetDone BY <1>9 DEF DetDone, EnterStage
  <1>10. CASE SkipHttp BY <1>10 DEF SkipHttp, EnterStage
  <1>11. CASE Stopped BY <1>11 DEF Stopped, Abandon
  <1>12. CASE Skipped BY <1>12 DEF Skipped, Abandon
  <1>13. CASE Boring BY <1>13 DEF Boring
  <1>14. CASE KeepPath BY <1>14 DEF KeepPath, Returned, Unjudged
  <1>15. CASE KeepCrash BY <1>15 DEF KeepCrash, Returned, Unjudged
  <1>16. CASE Rerun BY <1>16 DEF Rerun, Run
  <1>17. CASE KeepHang BY <1>17 DEF KeepHang, Returned
  <1>18. CASE RerunInVain BY <1>18 DEF RerunInVain
  <1>19. CASE Calibrate BY <1>19 DEF Calibrate, Run
  <1>20. CASE EndCalibrate BY <1>20 DEF EndCalibrate, Abandon
  <1>21. CASE Restore BY <1>21 DEF Restore
  <1>22. CASE BeginHavoc BY <1>22 DEF BeginHavoc
  <1>23. CASE Havoc BY <1>23 DEF Havoc, Run
  <1>24. CASE RestoreHavoc BY <1>24 DEF RestoreHavoc
  <1>25. CASE Splice BY <1>25 DEF Splice
  <1>26. CASE RetrySplice BY <1>26 DEF RetrySplice
  <1>27. CASE EndTurn BY <1>27 DEF EndTurn, Abandon
  <1>. QED BY <1>1, <1>2, <1>3, <1>4, <1>5, <1>6, <1>7, <1>8, <1>9, <1>10, <1>11, <1>12, <1>13,
              <1>14, <1>15, <1>16, <1>17, <1>18, <1>19, <1>20, <1>21, <1>22, <1>23, <1>24, <1>25,
              <1>26, <1>27 DEF TurnStep

\* Every step keeps what was kept true.
LEMMA KeptStep == FSInv /\ KeptInv /\ [Next]_vars => KeptInv'
  <1> SUFFICES ASSUME FSInv, KeptInv, [Next]_vars PROVE KeptInv'
    OBVIOUS
  <1>1. CASE Keeps
    <2>1. CASE Call /\ kept' = "nothing"
      BY <2>1 DEF Call, KeptInv, Ran, KeptIsTrue
    <2>2. CASE ~(Call /\ kept' = "nothing")
      <3>1. UNCHANGED <<afl, fault, child, stop_soon>>
        BY <1>1, <2>2 DEF Keeps, fsvars
      <3>2. Ran'
        BY <1>1, <2>2, <3>1 DEF Keeps, KeptInv, Ran
      <3>3. CASE kept' \in {kept, "nothing"}
        BY <3>1, <3>2, <3>3 DEF KeptInv, KeptIsTrue
      <3>4. CASE kept' \notin {kept, "nothing"}
        <4>1. /\ pc \in {"common", "rerun"} /\ afl = "idle" /\ ~stop_soon
              /\ \/ kept' = "path" /\ fault = "none"
                 \/ kept' = "crash" /\ fault = "crash"
                 \/ kept' = "hang" /\ fault = "tmout"
          BY <1>1, <2>2, <3>4 DEF Keeps
        <4>2. ~child.running
          BY <4>1, FSInvNoChild DEF NoChildBetween
        <4>3. KeptIsTrue'
          BY <3>1, <4>1 DEF KeptIsTrue, KeptInv, Ran, FSInv, FaultIsTrue
        <4>. QED BY <3>1, <3>2, <4>1, <4>2, <4>3 DEF KeptInv
      <3>. QED BY <3>3, <3>4
    <2>. QED BY <2>1, <2>2
  <1>2. CASE UNCHANGED fovars /\ (ServerSide \/ UNCHANGED fsvars)
    BY <1>2, KeptBelow
  <1>3. UNCHANGED vars => UNCHANGED fovars /\ UNCHANGED fsvars
    BY DEF vars
  <1>. QED BY <1>1, <1>2, <1>3, TurnStepKeeps DEF Next, Below, ServerSide

\* What is kept is what it is kept as: the trace of a child that Ctrl-C or an
\* alarm cut short is never kept as a path.
THEOREM FuzzOneKeptIsTrue == Spec => []KeptIsTrue
  <1>1. Init => KeptInv
    BY DEF Init, FSInit, KeptInv, Ran, KeptIsTrue
  <1>2. KeptInv => KeptIsTrue
    BY DEF KeptInv
  <1>. QED BY <1>1, <1>2, KeptStep, ForkServerInvariant, PTL DEF Spec
-----------------------------------------------------------------------------
(* The mutations of the deterministic stages. Between two tries out_buf is *)
(* the input again, or, in the stages that overwrite, the input under the  *)
(* last token: as the tokens are sorted by size, the next one covers it.   *)

Looping == stage \in DetStages \cup {"http"}

\* The dictionary of a stage that overwrites.
Tokens == IF stage = "user_over" THEN ExtraLens ELSE AutoLens

\* Before the loops out_buf is the input.
Untouched == stage \in {"recalibration", "det_done"} \/ pc = "calibrated" => mutated = {}

\* Between two tries: every mutation is taken back but, in the stages that
\* overwrite, the tokens tried at this position, which the last of them covers.
TakenBack ==
    pc = "mutate" /\ Looping =>
        /\ mutated = IF Overwrites THEN Clobbered ELSE {}
        /\ Overwrites => /\ Clobbered \subseteq Input
                         /\ last_len # 0 => \E j \in 1 .. try : j \in DOMAIN Tokens /\ last_len = Tokens[j]

\* While a try is executed and judged: its mutation, and nothing else.
OneMutation ==
    pc \in {"common", "rerun", "calibrate", "restore"} /\ Looping =>
        /\ pos < Stage.positions /\ try < Stage.tries
        /\ mutated = Stage.bytes /\ mutated \subseteq Input
        /\ Overwrites => last_len = Tokens[try + 1]

ScoreDoubles == stage_max = 0 \/ stage_max = HavocMin * perf_score

TurnInv == TypeOK /\ Untouched /\ TakenBack /\ OneMutation /\ ScoreDoubles

\* The bits of the input are in its bytes.
LEMMA BitInByte ==
    ASSUME NEW l \in Nat, NEW w \in Nat \ {0}, NEW i \in Nat, i < l * w
    PROVE  i \div w \in 0 .. l - 1
  <1> DEFINE q == i \div w
             r == i % w
  <1>1. q \in Nat /\ r \in Nat /\ i = w * q + r
    OBVIOUS
  <1> HIDE DEF q, r
  <1>2. ASSUME q >= l PROVE FALSE
    <2>1. PICK d \in Nat : q = l + d
      <3>1. q - l \in Nat /\ q = l + (q - l)
        BY <1>1, <1>2
      <3>. QED BY <3>1
    <2>2. w * q = w * l + w * d /\ w * d \in Nat /\ w * l = l * w /\ l * w \in Nat
      BY <2>1
    <2>. QED BY <1>1, <2>2
  <1>. QED BY <1>1, <1>2 DEF q

\* A stage is a number of positions, one of tries, bytes, and a stage to go on with;
\* the bytes are bytes of the input.
IsLoop(s) ==
    /\ s.positions \in Int /\ s.tries \in Nat /\ s.bytes \in SUBSET Int
    /\ s.next \in DetStages \cup {"det_done", "http", "havoc"}
Within(s) ==
    pos < s.positions /\ (Overwrites => Fits(s.bytes)) => s.bytes \subseteq Input

\* The stage at work is a loop within the input.
LEMMA StageFacts == ASSUME TypeOK, Looping PROVE IsLoop(Stage) /\ Within(Stage)
  <1>1. /\ len \in Nat \ {0} /\ pos \in Nat /\ try \in Nat
        /\ ByteBits \in Nat \ {0} /\ len * ByteBits \in Nat
        /\ 2 * ArithMax \in Nat /\ 4 * ArithMax \in Nat
        /\ Interesting \in Nat /\ 2 * Interesting \in Nat
        /\ Len(ExtraLens) \in Nat /\ Len(AutoLens) \in Nat
    <2>1. len \in Nat \ {0}
      BY FuzzOneAssumption DEF TypeOK
    <2>2. pos \in Nat /\ try \in Nat
      BY DEF TypeOK
    <2>3. ByteBits \in Nat \ {0} /\ ArithMax \in Nat \ {0} /\ Interesting \in Nat \ {0}
      BY FuzzOneAssumption
    <2>4. Len(ExtraLens) \in Nat /\ Len(AutoLens) \in Nat
      BY FuzzOneAssumption, LenProperties
    <2>. QED BY <2>1, <2>2, <2>3, <2>4
  <1>2. ASSUME NEW k \in 1 .. 4, pos < len * ByteBits - (k - 1)
        PROVE  BitBytes(pos, k) \subseteq Input
    <2>1. pos \div ByteBits \in Nat
      BY <1>1
    <2>2. pos + k - 1 \in Nat /\ pos + k - 1 < len * ByteBits
      BY <1>1, <1>2
    <2>3. (pos + k - 1) \div ByteBits \in 0 .. len - 1
      BY <1>1, <2>2, BitInByte
    <2>. QED BY <1>1, <2>1, <2>3 DEF BitBytes, Input
  <1>3. \A k \in 1 .. 4 : BitBytes(pos, k) \in SUBSET Int
    BY DEF BitBytes
  <1>4. CASE stage = "flip1"
    <2>1. Stage = Flip1
      BY <1>4 DEF Stage
    <2>2. IsLoop(Flip1)
      BY <1>1, <1>3 DEF Flip1, Loop, IsLoop, DetStages
    <2>3. Within(Flip1)
      BY <1>1, <1>2, <1>4 DEF Flip1, Loop, Within, Overwrites
    <2>. QED BY <2>1, <2>2, <2>3
  <1>5. CASE stage = "flip2"
    <2>1. Stage = Flip2
      BY <1>5 DEF Stage
    <2>2. IsLoop(Flip2)
      BY <1>1, <1>3 DEF Flip2, Loop, IsLoop, DetStages
    <2>3. Within(Flip2)
      BY <1>1, <1>2, <1>5 DEF Flip2, Loop, Within, Overwrites
    <2>. QED BY <2>1, <2>2, <2>3
  <1>6. CASE stage = "flip4"
    <2>1. Stage = Flip4
      BY <1>6 DEF Stage
    <2>2. IsLoop(Flip4)
      BY <1>1, <1>3 DEF Flip4, Loop, IsLoop, DetStages
    <2>3. Within(Flip4)
      BY <1>1, <1>2, <1>6 DEF Flip4, Loop, Within, Overwrites
    <2>. QED BY <2>1, <2>2, <2>3
  <1>7. CASE stage = "flip8"
    <2>1. Stage = Flip8
      BY <1>7 DEF Stage
    <2>2. IsLoop(Flip8)
      BY <1>1, <1>3 DEF Flip8, Loop, IsLoop, DetStages, Bytes, AfterFlips, AfterArith
    <2>3. Within(Flip8)
      BY <1>1, <1>2, <1>7 DEF Flip8, Loop, Within, Overwrites, Bytes, Input
    <2>. QED BY <2>1, <2>2, <2>3
  <1>8. CASE stage = "flip16"
    <2>1. Stage = Flip16
      BY <1>8 DEF Stage
    <2>2. IsLoop(Flip16)
      BY <1>1, <1>3 DEF Flip16, Loop, IsLoop, DetStages, Bytes, AfterFlips, AfterArith
    <2>3. Within(Flip16)
      BY <1>1, <1>2, <1>8 DEF Flip16, Loop, Within, Overwrites, Bytes, Input
    <2>. QED BY <2>1, <2>2, <2>3
  <1>9. CASE stage = "flip32"
    <2>1. Stage = Flip32
      BY <1>9 DEF Stage
    <2>2. IsLoop(Flip32)
      BY <1>1, <1>3 DEF Flip32, Loop, IsLoop, DetStages, Bytes, AfterFlips, AfterArith
    <2>3. Within(Flip32)
      BY <1>1, <1>2, <1>9 DEF Flip32, Loop, Within, Overwrites, Bytes, Input
    <2>. QED BY <2>1, <2>2, <2>3
  <1>10. CASE stage = "arith8"
    <2>1. Stage = Arith8
      BY <1>10 DEF Stage
    <2>2. IsLoop(Arith8)
      BY <1>1, <1>3 DEF Arith8, Loop, IsLoop, DetStages, Bytes, AfterArith
    <2>3. Within(Arith8)
      BY <1>1, <1>2, <1>10 DEF Arith8, Loop, Within, Overwrites, Bytes, Input
    <2>. QED BY <2>1, <2>2, <2>3
  <1>11. CASE stage = "arith16"
    <2>1. Stage = Arith16
      BY <1>11 DEF Stage
    <2>2. IsLoop(Arith16)
      BY <1>1, <1>3 DEF Arith16, Loop, IsLoop, DetStages, Bytes, AfterArith
    <2>3. Within(Arith16)
      BY <1>1, <1>2, <1>11 DEF Arith16, Loop, Within, Overwrites, Bytes, Input
    <2>. QED BY <2>1, <2>2, <2>3
  <1>12. CASE stage = "arith32"
    <2>1. Stage = Arith32
      BY <1>12 DEF Stage
    <2>2. IsLoop(Arith32)
      BY <1>1, <1>3 DEF Arith32, Loop, IsLoop, DetStages, Bytes, AfterArith
    <2>3. Within(Arith32)
      BY <1>1, <1>2, <1>12 DEF Arith32, Loop, Within, Overwrites, Bytes, Input
    <2>. QED BY <2>1, <2>2, <2>3
  <1>13. CASE stage = "int8"
    <2>1. Stage = Int8
      BY <1>13 DEF Stage
    <2>2. IsLoop(Int8)
      BY <1>1, <1>3 DEF Int8, Loop, IsLoop, DetStages, Bytes, AfterInterest, AfterUser
    <2>3. Within(Int8)
      BY <1>1, <1>2, <1>13 DEF Int8, Loop, Within, Overwrites, Bytes, Input
    <2>. QED BY <2>1, <2>2, <2>3
  <1>14. CASE stage = "int16"
    <2>1. Stage = Int16
      BY <1>14 DEF Stage
    <2>2. IsLoop(Int16)
      BY <1>1, <1>3 DEF Int16, Loop, IsLoop, DetStages, Bytes, AfterInterest, AfterUser
    <2>3. Within(Int16)
      BY <1>1, <1>2, <1>14 DEF Int16, Loop, Within, Overwrites, Bytes, Input
    <2>. QED BY <2>1, <2>2, <2>3
  <1>15. CASE stage = "int32"
    <2>1. Stage = Int32
      BY <1>15 DEF Stage
    <2>2. IsLoop(Int32)
      BY <1>1, <1>3 DEF Int32, Loop, IsLoop, DetStages, Bytes, AfterInterest, AfterUser
    <2>3. Within(Int32)
      BY <1>1, <1>2, <1>15 DEF Int32, Loop, Within, Overwrites, Bytes, Input
    <2>. QED BY <2>1, <2>2, <2>3
  <1>16. CASE stage = "user_over"
    <2>1. Stage = UserOver
      BY <1>16 DEF Stage
    <2>2. IsLoop(UserOver)
      BY <1>1, <1>3 DEF UserOver, Loop, IsLoop, DetStages, Over, Bytes
    <2>3. Within(UserOver)
      BY <1>1, <1>2, <1>16 DEF UserOver, Loop, Within, Overwrites, Over, Fits
    <2>. QED BY <2>1, <2>2, <2>3
  <1>17. CASE stage = "auto_over"
    <2>1. Stage = AutoOver
      BY <1>17 DEF Stage
    <2>2. IsLoop(AutoOver)
      BY <1>1, <1>3 DEF AutoOver, Loop, IsLoop, DetStages, Over, Bytes
    <2>3. Within(AutoOver)
      BY <1>1, <1>2, <1>17 DEF AutoOver, Loop, Within, Overwrites, Over, Fits
    <2>. QED BY <2>1, <2>2, <2>3
  <1>18. CASE stage = "user_insert"
    <2>1. Stage = UserInsert
      BY <1>18 DEF Stage
    <2>2. IsLoop(UserInsert)
      BY <1>1, <1>3 DEF UserInsert, Loop, IsLoop, DetStages, AfterUser
    <2>3. Within(UserInsert)
      BY <1>1, <1>2, <1>18 DEF UserInsert, Loop, Within, Overwrites, Input
    <2>. QED BY <2>1, <2>2, <2>3
  <1>19. CASE stage = "http"
    <2>1. Stage = HttpDictionary
      BY <1>19 DEF Stage
    <2>2. IsLoop(HttpDictionary)
      BY <1>1, <1>3 DEF HttpDictionary, Loop, IsLoop, DetStages
    <2>3. Within(HttpDictionary)
      BY <1>1, <1>2, <1>19 DEF HttpDictionary, Loop, Within, Overwrites, Input
    <2>. QED BY <2>1, <2>2, <2>3
  <1>. QED BY <1>4, <1>5, <1>6, <1>7, <1>8, <1>9, <1>10, <1>11, <1>12, <1>13, <1>14, <1>15, <1>16, <1>17, <1>18, <1>19 DEF Looping, DetStages

\* The stages that overwrite, token by token.
LEMMA OverFacts ==
    ASSUME TypeOK, Overwrites
    PROVE  /\ Stage.tries = Len(Tokens) /\ Stage.positions = len
           /\ Stage.bytes = IF try < Len(Tokens) THEN Bytes(pos, Tokens[try + 1]) ELSE {}
           /\ Tokens \in Seq(Nat \ {0}) /\ Sorted(Tokens)
           /\ Len(Tokens) \in Nat /\ DOMAIN Tokens = 1 .. Len(Tokens)
           /\ \A j \in 1 .. Len(Tokens) : Tokens[j] \in Nat \ {0}
  <1>1. Tokens \in Seq(Nat \ {0}) /\ Sorted(Tokens)
    BY FuzzOneAssumption DEF Tokens
  <1>2. /\ Len(Tokens) \in Nat /\ DOMAIN Tokens = 1 .. Len(Tokens)
        /\ \A j \in 1 .. Len(Tokens) : Tokens[j] \in Nat \ {0}
    BY <1>1, LenProperties, ElementOfSeq
  <1>3. CASE stage = "user_over"
    BY <1>1, <1>2, <1>3 DEF Stage, UserOver, Over, Loop, Tokens
  <1>4. CASE stage = "auto_over"
    BY <1>1, <1>2, <1>4 DEF Stage, AutoOver, Over, Loop, Tokens
  <1>. QED BY <1>3, <1>4 DEF Overwrites

\* It is the same stage while nothing of the loop moves.
LEMMA StageSame == UNCHANGED <<stage, pos, try, len>> => Stage' = Stage
  BY DEF Stage, Flip1, Flip2, Flip4, Flip8, Flip16, Flip32, Arith8, Arith16, Arith32, Int8, Int16,
         Int32, UserOver, AutoOver, Over, UserInsert, HttpDictionary, Loop, AfterFlips, AfterArith,
         AfterInterest, AfterUser, Bytes, BitBytes
\* Initially nothing has been changed.
LEMMA InitTurn == Init => TypeOK /\ Untouched /\ TakenBack /\ OneMutation /\ ScoreDoubles
  <1> SUFFICES ASSUME Init PROVE TypeOK /\ Untouched /\ TakenBack /\ OneMutation /\ ScoreDoubles
    OBVIOUS
  <1>1. TypeOK
    <2>1. FSTypeOK
      BY FSInitially DEF Init, FSInv
    <2>2. 1 \in 1 .. 2 * HavocMaxMult /\ 0 \in 0 .. SpliceCycles + 1 /\ 0 \in 0 .. CalCycles
      BY FuzzOneAssumption
    <2>3. 0 \in 0 .. HavocMin * (2 * HavocMaxMult)
      <3>1. HavocMin \in Nat /\ HavocMaxMult \in Nat
        BY FuzzOneAssumption
      <3>2. \A m, n \in Nat : 0 \in 0 .. m * (2 * n)
        OBVIOUS
      <3>. QED BY <3>1, <3>2
    <2>. QED BY <2>1, <2>2, <2>3 DEF Init, TypeOK
  <1>. QED BY <1>1 DEF Init, Untouched, TakenBack, OneMutation, ScoreDoubles

\* What is executed and judged stays what it was.
LEMMA JudgedSame ==
    ASSUME Untouched, OneMutation, UNCHANGED <<stage, loop, out_buf, len>>,
           pc \in {"common", "rerun", "calibrate", "restore"},
           \/ pc' \in {"common", "rerun", "calibrate", "restore", "end"}
           \/ pc' = "calibrated" /\ stage = "recalibration"
    PROVE  Untouched' /\ TakenBack' /\ OneMutation'
  <1>1. Untouched'
    BY DEF Untouched, out_buf
  <1>2. TakenBack'
    BY DEF TakenBack
  <1>3. UNCHANGED <<stage, pos, try, last_len, mutated, len>>
    BY DEF loop, out_buf
  <1>4. Stage' = Stage
    BY <1>3, StageSame
  <1>5. Looping' <=> Looping
    BY <1>3 DEF Looping
  <1>6. (Overwrites' <=> Overwrites) /\ Tokens' = Tokens /\ Input' = Input
    BY <1>3 DEF Overwrites, Tokens, Input
  <1>7. OneMutation'
    BY <1>3, <1>4, <1>5, <1>6 DEF OneMutation
  <1>. QED BY <1>1, <1>2, <1>7

\* A stage is entered with out_buf as it is in the file.
LEMMA EnterFresh ==
    ASSUME NEW s, EnterStage(s), mutated' = {}
    PROVE  Untouched' /\ TakenBack' /\ OneMutation'
  <1>1. Untouched' /\ OneMutation'
    BY DEF EnterStage, Untouched, OneMutation
  <1>2. Clobbered' = {}
    <2>1. Bytes(0, 0) = {}
      BY DEF Bytes
    <2>. QED BY <2>1 DEF EnterStage, Clobbered, Bytes
  <1>3. TakenBack'
    BY <1>2 DEF EnterStage, TakenBack
  <1>. QED BY <1>1, <1>3

\* One mutation is made.
LEMMA MutateStep == TypeOK /\ TakenBack /\ Mutate => Untouched' /\ TakenBack' /\ OneMutation'
  <1> SUFFICES ASSUME TypeOK, TakenBack, Mutate PROVE Untouched' /\ TakenBack' /\ OneMutation'
    OBVIOUS
  <1>1. /\ pc = "mutate" /\ Looping /\ stage \in DetStages \cup {"http"}
        /\ pos < Stage.positions /\ try < Stage.tries
        /\ Overwrites => Fits(Stage.bytes)
        /\ mutated' = mutated \cup Stage.bytes
        /\ last_len' = IF Overwrites THEN Cardinality(Stage.bytes) ELSE 0
        /\ pc' = "common" /\ UNCHANGED <<stage, pos, try, len>>
    BY DEF Mutate, InLoop, Run, Looping, entry
  <1>2. Stage.bytes \subseteq Input
    BY <1>1, StageFacts DEF Within
  <1>3. Stage' = Stage /\ Input' = Input
    BY <1>1, StageSame DEF Input
  <1>4. /\ mutated = IF Overwrites THEN Clobbered ELSE {}
        /\ Overwrites /\ last_len # 0 => \E j \in 1 .. try : j \in DOMAIN Tokens /\ last_len = Tokens[j]
    BY <1>1 DEF TakenBack
  <1>5. mutated' = Stage.bytes /\ (Overwrites => last_len' = Tokens[try + 1])
    <2>1. CASE ~Overwrites
      BY <1>1, <1>4, <2>1
    <2>2. CASE Overwrites
      <3>1. /\ Stage.bytes = Bytes(pos, Tokens[try + 1])
            /\ try + 1 \in 1 .. Len(Tokens) /\ Tokens[try + 1] \in Nat \ {0}
            /\ Sorted(Tokens) /\ DOMAIN Tokens = 1 .. Len(Tokens) /\ Len(Tokens) \in Nat
            /\ \A j \in 1 .. Len(Tokens) : Tokens[j] \in Nat \ {0}
            /\ pos \in Nat /\ try \in Nat
        BY <1>1, <2>2, OverFacts DEF TypeOK
      <3>2. last_len <= Tokens[try + 1] /\ last_len \in Nat
        <4>1. CASE last_len = 0
          BY <3>1, <4>1
        <4>2. CASE last_len # 0
          <5>1. PICK j \in 1 .. try : j \in DOMAIN Tokens /\ last_len = Tokens[j]
            BY <1>4, <2>2, <4>2
          <5>. QED BY <3>1, <5>1 DEF Sorted
        <4>. QED BY <4>1, <4>2
      <3>3. Clobbered \subseteq Stage.bytes
        BY <3>1, <3>2 DEF Clobbered, Bytes
      <3>4. Cardinality(Stage.bytes) = Tokens[try + 1]
        <4>1. \A m, n \in Nat : Cardinality(m .. m + n - 1) = n
          <5> SUFFICES ASSUME NEW m \in Nat, NEW n \in Nat PROVE Cardinality(m .. m + n - 1) = n
            OBVIOUS
          <5>1. m \in Int /\ m + n - 1 \in Int
            OBVIOUS
          <5>2. Cardinality(m .. m + n - 1) = IF m > m + n - 1 THEN 0 ELSE (m + n - 1) - m + 1
            BY <5>1, FS_Interval
          <5>3. (IF m > m + n - 1 THEN 0 ELSE (m + n - 1) - m + 1) = n
            OBVIOUS
          <5>. QED BY <5>2, <5>3
        <4>. QED BY <3>1, <4>1 DEF Bytes
      <3>. QED BY <1>1, <1>4, <2>2, <3>3, <3>4
    <2>. QED BY <2>1, <2>2
  <1>6. (Overwrites' <=> Overwrites) /\ Tokens' = Tokens
    BY <1>1 DEF Overwrites, Tokens
  <1>7. OneMutation'
    BY <1>1, <1>2, <1>3, <1>5, <1>6 DEF OneMutation
  <1>8. Untouched' /\ TakenBack'
    BY <1>1 DEF Untouched, TakenBack, Looping, DetStages
  <1>. QED BY <1>7, <1>8

\* The mutation is taken back, or covered by what the last token has clobbered.
LEMMA RestoreStep ==
    TypeOK /\ Untouched /\ OneMutation /\ Restore => Untouched' /\ TakenBack' /\ OneMutation'
  <1> SUFFICES ASSUME TypeOK, Untouched, OneMutation, Restore
               PROVE  Untouched' /\ TakenBack' /\ OneMutation'
    OBVIOUS
  <1>1. /\ pc = "restore" /\ pc' = "mutate"
        /\ mutated' = IF Overwrites THEN mutated ELSE mutated \ Stage.bytes
        /\ try' = try + 1
        /\ UNCHANGED <<stage, pos, last_len, len>>
    BY DEF Restore
  <1>2. OneMutation'
    BY <1>1 DEF OneMutation
  <1>3. Untouched'
    BY <1>1 DEF Untouched
  <1>4. TakenBack'
    <2> SUFFICES ASSUME Looping
                 PROVE  /\ mutated' = IF Overwrites THEN Clobbered ELSE {}
                        /\ Overwrites => Clobbered \subseteq Input
                        /\ Overwrites => \E j \in 1 .. try' : j \in DOMAIN Tokens /\ last_len = Tokens[j]
      BY <1>1 DEF TakenBack, Looping, Overwrites, Clobbered, Bytes, Input, Tokens
    <2>1. /\ try < Stage.tries /\ mutated = Stage.bytes /\ mutated \subseteq Input
          /\ Overwrites => last_len = Tokens[try + 1]
      BY <1>1 DEF OneMutation
    <2>2. CASE ~Overwrites
      BY <1>1, <2>1, <2>2
    <2>3. CASE Overwrites
      <3>1. try \in Nat /\ Stage.bytes = Bytes(pos, Tokens[try + 1]) /\ try + 1 \in DOMAIN Tokens
        BY <2>1, <2>3, OverFacts DEF TypeOK
      <3>2. mutated' = Clobbered /\ Clobbered \subseteq Input
        BY <1>1, <2>1, <2>3, <3>1 DEF Clobbered
      <3>3. try + 1 \in 1 .. try'
        BY <1>1, <3>1
      <3>. QED BY <2>1, <2>3, <3>1, <3>2, <3>3
    <2>. QED BY <2>2, <2>3
  <1>. QED BY <1>2, <1>3, <1>4

\* The loops themselves.
LEMMA LoopStep ==
    ASSUME TypeOK, Untouched, TakenBack, SkipTry \/ NextPosition \/ NextStage
    PROVE  Untouched' /\ TakenBack' /\ OneMutation'
  <1>1. CASE SkipTry
    <2>1. /\ pc = "mutate" /\ pc' = "mutate" /\ Looping
          /\ try' = try + 1 /\ UNCHANGED <<stage, pos, last_len, mutated, len>>
      BY <1>1 DEF SkipTry, InLoop, Looping, out_buf, entry
    <2>2. Untouched' /\ OneMutation'
      BY <2>1 DEF Untouched, OneMutation
    <2>3. 1 .. try \subseteq 1 .. try'
      BY <2>1 DEF TypeOK
    <2>4. /\ Clobbered' = Clobbered /\ Input' = Input /\ Tokens' = Tokens
          /\ (Overwrites' <=> Overwrites) /\ (Looping' <=> Looping)
      BY <2>1 DEF Clobbered, Bytes, Input, Tokens, Overwrites, Looping
    <2>5. TakenBack'
      BY <2>1, <2>3, <2>4 DEF TakenBack
    <2>. QED BY <2>2, <2>5
  <1>2. CASE NextPosition
    <2>1. /\ pc = "mutate" /\ pc' = "mutate" /\ Looping /\ pos' = pos + 1
          /\ mutated' = mutated \ Clobbered /\ try' = 0 /\ last_len' = 0
          /\ UNCHANGED <<stage, len>>
      BY <1>2 DEF NextPosition, InLoop, Looping, entry
    <2>2. mutated' = {}
      BY <2>1 DEF TakenBack
    <2>3. Clobbered' = {}
      <3>1. pos + 1 \in Nat
        BY DEF TypeOK
      <3>2. Bytes(pos + 1, 0) = {}
        BY <3>1 DEF Bytes
      <3>. QED BY <2>1, <3>2 DEF Clobbered, Bytes
    <2>. QED BY <2>1, <2>2, <2>3 DEF Untouched, TakenBack, OneMutation
  <1>3. CASE NextStage
    <2>1. /\ pc = "mutate" /\ Looping /\ pos >= Stage.positions
          /\ EnterStage(Stage.next) /\ mutated' = mutated
      BY <1>3 DEF NextStage, InLoop, Looping, out_buf
    <2>2. mutated = {}
      <3>1. CASE ~Overwrites
        BY <2>1, <3>1 DEF TakenBack
      <3>2. CASE Overwrites
        <4>1. /\ mutated = Clobbered /\ Clobbered \subseteq Input
          BY <2>1, <3>2 DEF TakenBack
        <4>2. pos >= len /\ pos \in Nat /\ last_len \in Nat /\ len \in Nat
          BY <2>1, <3>2, OverFacts, FuzzOneAssumption DEF TypeOK
        <4>3. ASSUME last_len > 0 PROVE FALSE
          BY <4>1, <4>2, <4>3 DEF Clobbered, Bytes, Input
        <4>4. last_len = 0
          BY <4>2, <4>3
        <4>. QED BY <4>1, <4>2, <4>4 DEF Clobbered, Bytes
      <3>. QED BY <3>1, <3>2
    <2>. QED BY <2>1, <2>2, EnterFresh
  <1>. QED BY <1>1, <1>2, <1>3
\* Every step of fuzz_one keeps the mutations apart.
LEMMA MutationStep ==
    ASSUME TypeOK, Untouched, TakenBack, OneMutation, StartTurn \/ TurnStep \/ SkipRequest
    PROVE  Untouched' /\ TakenBack' /\ OneMutation'
  <1>1. CASE StartTurn
    BY <1>1 DEF StartTurn, Untouched, TakenBack, OneMutation, Looping, DetStages
  <1>2. CASE SkipRequest
    <2>1. UNCHANGED <<pc, stage, pos, try, last_len, mutated, len>>
      BY <1>2 DEF SkipRequest, loop, out_buf, entry
    <2>2. Stage' = Stage
      BY <2>1, StageSame
    <2>3. /\ Clobbered' = Clobbered /\ Input' = Input /\ Tokens' = Tokens
          /\ (Overwrites' <=> Overwrites) /\ (Looping' <=> Looping)
      BY <2>1 DEF Clobbered, Bytes, Input, Tokens, Overwrites, Looping
    <2>. QED BY <2>1, <2>2, <2>3 DEF Untouched, TakenBack, OneMutation
  <1>3. CASE SkipDet \/ BeginDet
    <2>1. mutated' = {}
      BY <1>3 DEF SkipDet, BeginDet, Untouched, out_buf
    <2>. QED BY <1>3, <2>1, EnterFresh DEF SkipDet, BeginDet
  <1>4. CASE Mutate
    BY <1>4, MutateStep
  <1>5. CASE SkipTry \/ NextPosition \/ NextStage
    BY <1>5, LoopStep
  <1>6. CASE DetDone
    BY <1>6, EnterFresh DEF DetDone, Untouched, out_buf
  <1>7. CASE SkipHttp
    <2>1. mutated = {}
      BY <1>7 DEF SkipHttp, InLoop, TakenBack, Looping, Overwrites
    <2>. QED BY <1>7, <2>1, EnterFresh DEF SkipHttp, out_buf
  <1>8. CASE Stopped \/ Skipped \/ Boring \/ KeepPath \/ KeepCrash \/ Rerun \/ KeepHang
             \/ RerunInVain \/ Calibrate \/ EndCalibrate
    <2>1. /\ UNCHANGED <<stage, loop, out_buf, len>>
          /\ pc \in {"common", "rerun", "calibrate", "restore"}
          /\ \/ pc' \in {"common", "rerun", "calibrate", "restore", "end"}
             \/ pc' = "calibrated" /\ stage = "recalibration"
      BY <1>8 DEF Stopped, Skipped, Boring, KeepPath, KeepCrash, Rerun, KeepHang, RerunInVain,
                  Calibrate, EndCalibrate, Returned, Abandon, Run, entry
    <2>. QED BY <2>1, JudgedSame
  <1>9. CASE Restore
    BY <1>9, RestoreStep
  <1>10. CASE BeginHavoc \/ Havoc \/ RestoreHavoc \/ Splice \/ RetrySplice \/ EndTurn
    <2>1. stage = "havoc" /\ stage' = "havoc" /\ pc' # "calibrated"
      <3>1. BeginHavoc \/ Havoc \/ RestoreHavoc =>
                stage = "havoc" /\ stage' = stage /\ pc' \in {"mutate", "common"}
        BY DEF BeginHavoc, Havoc, RestoreHavoc, Run
      <3>2. Splice \/ RetrySplice \/ EndTurn =>
                stage = "havoc" /\ stage' = stage /\ pc' \in {"mutate", "end"}
        BY DEF Splice, RetrySplice, EndTurn, HavocOver, Abandon
      <3>. QED BY <1>10, <3>1, <3>2
    <2>. QED BY <2>1 DEF Untouched, TakenBack, OneMutation, Looping, DetStages
  <1>. QED BY <1>1, <1>2, <1>3, <1>4, <1>5, <1>6, <1>7, <1>8, <1>9, <1>10 DEF TurnStep

\* The doubling of a havoc that finds something stays below its bound.
LEMMA ScoreStep ==
    ASSUME TypeOK, ScoreDoubles, StartTurn \/ TurnStep \/ SkipRequest
    PROVE  /\ ScoreDoubles'
           /\ perf_score' \in 1 .. 2 * HavocMaxMult
           /\ stage_max' \in 0 .. HavocMin * (2 * HavocMaxMult)
  <1>1. /\ HavocMin \in Nat \ {0} /\ HavocMaxMult \in Nat \ {0}
        /\ perf_score \in 1 .. 2 * HavocMaxMult
    BY FuzzOneAssumption DEF TypeOK
  <1>2. ASSUME perf_score' \in 1 .. 2 * HavocMaxMult, ScoreDoubles'
        PROVE  stage_max' \in 0 .. HavocMin * (2 * HavocMaxMult)
    <2>1. \A h, n \in Nat : \A m \in 0 .. n : h * m \in 0 .. h * n
      <3> SUFFICES ASSUME NEW h \in Nat, NEW n \in Nat, NEW m \in 0 .. n PROVE h * m \in 0 .. h * n
        OBVIOUS
      <3>1. n - m \in Nat /\ m \in Nat
        OBVIOUS
      <3>2. h * n = h * m + h * (n - m)
        BY <3>1
      <3>3. h * (n - m) \in Nat /\ h * m \in Nat
        BY <3>1
      <3>. QED BY <3>2, <3>3
    <2>2. 2 * HavocMaxMult \in Nat /\ perf_score' \in 0 .. 2 * HavocMaxMult
      BY <1>1, <1>2
    <2>3. HavocMin * perf_score' \in 0 .. HavocMin * (2 * HavocMaxMult)
      BY <1>1, <2>1, <2>2
    <2>4. HavocMin * 0 = 0 /\ HavocMin * 0 \in 0 .. HavocMin * (2 * HavocMaxMult)
      <3>1. 0 \in 0 .. 2 * HavocMaxMult
        BY <1>1
      <3>2. HavocMin * 0 \in 0 .. HavocMin * (2 * HavocMaxMult)
        BY <1>1, <2>1, <2>2, <3>1
      <3>. QED BY <1>1, <3>2
    <2>. QED BY <1>2, <2>3, <2>4 DEF ScoreDoubles
  <1>3. CASE UNCHANGED <<perf_score, stage_max>>
    BY <1>1, <1>2, <1>3 DEF ScoreDoubles
  <1>4. CASE stage_max' = 0 /\ perf_score' \in {1, perf_score}
    BY <1>1, <1>2, <1>4 DEF ScoreDoubles
  <1>5. CASE BeginHavoc
    <2>1. HavocMin * 1 = HavocMin
      BY <1>1
    <2>2. stage_max' = HavocMin /\ perf_score' = 1
      BY <1>5 DEF BeginHavoc
    <2>. QED BY <1>1, <1>2, <2>1, <2>2 DEF ScoreDoubles
  <1>6. CASE RestoreHavoc /\ MoreHavoc
    <2>1. stage_max' = 2 * stage_max /\ perf_score' = 2 * perf_score /\ perf_score <= HavocMaxMult
      BY <1>6 DEF RestoreHavoc, MoreHavoc
    <2>2. 2 * (HavocMin * perf_score) = HavocMin * (2 * perf_score)
      BY <1>1
    <2>3. ScoreDoubles'
      BY <2>1, <2>2 DEF ScoreDoubles
    <2>. QED BY <1>1, <1>2, <2>1, <2>3
  <1>7. \/ UNCHANGED <<perf_score, stage_max>>
        \/ stage_max' = 0 /\ perf_score' \in {1, perf_score}
        \/ BeginHavoc
        \/ RestoreHavoc /\ MoreHavoc
    BY DEF StartTurn, SkipRequest, TurnStep, SkipDet, BeginDet, Mutate, SkipTry, NextPosition,
           NextStage, DetDone, SkipHttp, Stopped, Skipped, Boring, KeepPath, KeepCrash, Rerun,
           KeepHang, RerunInVain, Calibrate, EndCalibrate, Restore, Havoc, RestoreHavoc, Splice,
           RetrySplice, EndTurn, score
  <1>. QED BY <1>3, <1>4, <1>5, <1>6, <1>7
\* The tries stay in their types, whatever the children do.
LEMMA TurnTypeStep ==
    ASSUME TypeOK, OneMutation, ScoreDoubles, StartTurn \/ TurnStep \/ SkipRequest, FSTypeOK'
    PROVE  TypeOK'
  <1> DEFINE Places == {"calibrated", "mutate", "common", "rerun", "calibrate", "restore", "end"}
             Stages == DetStages \cup {"recalibration", "det_done", "http", "havoc"}
             Loops  == pos' \in Nat /\ try' \in Nat /\ last_len' \in Nat
             Buffer == /\ len' \in Lens /\ foreign' \subseteq 0 .. len' - 1 /\ mutated' \subseteq Nat
                       /\ eff_map' \subseteq Nat /\ passed_det' \in BOOLEAN
             Rest   == /\ new_paths' \in BOOLEAN /\ splice_cycle' \in 0 .. SpliceCycles + 1
                       /\ cycle' \in 0 .. CalCycles /\ skip_requested' \in BOOLEAN
                       /\ kept' \in {"nothing", "path", "crash", "hang"}
  <1>1. /\ perf_score' \in 1 .. 2 * HavocMaxMult
        /\ stage_max' \in 0 .. HavocMin * (2 * HavocMaxMult)
    BY ScoreStep
  <1>2. /\ pc \in Places /\ stage \in Stages
        /\ pos \in Nat /\ try \in Nat /\ last_len \in Nat
        /\ len \in Lens /\ len \in Nat \ {0}
        /\ foreign \subseteq 0 .. len - 1 /\ mutated \subseteq Nat /\ eff_map \subseteq Nat
        /\ passed_det \in BOOLEAN /\ new_paths \in BOOLEAN /\ skip_requested \in BOOLEAN
        /\ splice_cycle \in 0 .. SpliceCycles + 1 /\ cycle \in 0 .. CalCycles
        /\ kept \in {"nothing", "path", "crash", "hang"}
    BY FuzzOneAssumption DEF TypeOK
  <1>3. \A b \in Nat : Block(b) \in Nat
    <2>1. EffScale \in Nat \ {0}
      BY FuzzOneAssumption
    <2>. QED BY <2>1 DEF Block
  <1>4. ASSUME NEW bs \in SUBSET Nat PROVE Blocks(bs) \subseteq Nat
    BY <1>3 DEF Blocks
  <1>5. Input \subseteq Nat
    BY <1>2 DEF Input
  <1>6. pc' \in Places /\ stage' \in Stages
    <2>1. CASE NextStage
      BY <1>2, <2>1, StageFacts DEF NextStage, EnterStage, InLoop, Looping, IsLoop
    <2>2. CASE StartTurn \/ SkipRequest
      BY <1>2, <2>2 DEF StartTurn, SkipRequest
    <2>3. CASE SkipDet \/ BeginDet \/ Mutate \/ SkipTry \/ NextPosition \/ DetDone \/ SkipHttp
      BY <1>2, <2>3 DEF SkipDet, BeginDet, Mutate, SkipTry, NextPosition, DetDone, SkipHttp,
                        EnterStage, Run, DetStages
    <2>4. CASE Stopped \/ Skipped \/ Boring \/ KeepPath \/ KeepCrash \/ Rerun \/ KeepHang
               \/ RerunInVain
      BY <1>2, <2>4 DEF Stopped, Skipped, Boring, KeepPath, KeepCrash, Rerun, KeepHang,
                        RerunInVain, Run, Abandon
    <2>5. CASE Calibrate \/ EndCalibrate \/ Restore
      BY <1>2, <2>5 DEF Calibrate, EndCalibrate, Restore, Run, Abandon
    <2>6. CASE BeginHavoc \/ Havoc \/ RestoreHavoc \/ Splice \/ RetrySplice \/ EndTurn
      BY <1>2, <2>6 DEF BeginHavoc, Havoc, RestoreHavoc, Splice, RetrySplice, EndTurn, Run, Abandon
    <2>. QED BY <2>1, <2>2, <2>3, <2>4, <2>5, <2>6 DEF TurnStep
  <1>7. Loops
    <2>1. CASE Mutate
      <3>1. Overwrites => Cardinality(Stage.bytes) \in Nat
        <4> SUFFICES ASSUME Overwrites PROVE Cardinality(Stage.bytes) \in Nat
          OBVIOUS
        <4>1. Stage.bytes \subseteq Input
          BY <2>1, StageFacts DEF Mutate, InLoop, Looping, Within
        <4>2. IsFiniteSet(Stage.bytes)
          <5>1. 0 \in Int /\ len - 1 \in Int
            BY <1>2
          <5>2. IsFiniteSet(Input)
            BY <5>1, FS_Interval DEF Input
          <5>. QED BY <4>1, <5>2, FS_Subset
        <4>. QED BY <4>2, FS_CardinalityType
      <3>. QED BY <1>2, <2>1, <3>1 DEF Mutate
    <2>. QED BY <1>2, <2>1 DEF StartTurn, SkipRequest, TurnStep, SkipDet, BeginDet,
           SkipTry, NextPosition, NextStage, DetDone, SkipHttp, Stopped, Skipped, Boring, KeepPath,
           KeepCrash, Rerun, KeepHang, RerunInVain, Calibrate, EndCalibrate, Restore, BeginHavoc,
           Havoc, RestoreHavoc, Splice, RetrySplice, EndTurn, EnterStage, loop
  <1>8. Buffer
    <2>1. CASE UNCHANGED <<out_buf, entry>>
      BY <1>2, <2>1 DEF out_buf, entry
    <2>2. CASE StartTurn
      <3>1. \A l \in Lens : 0 .. l - 1 \subseteq 0 .. l - 1
        OBVIOUS
      <3>. QED BY <2>2 DEF StartTurn
    <2>3. CASE Mutate
      <3>1. Stage.bytes \subseteq Nat
        BY <1>5, <2>3, StageFacts DEF Mutate, InLoop, Looping, Within
      <3>. QED BY <1>2, <2>3, <3>1 DEF Mutate, entry
    <2>4. CASE NextPosition
      BY <1>2, <2>4 DEF NextPosition, entry
    <2>5. CASE NextStage
      <3>1. {0, Block(len - 1)} \subseteq Nat
        <4>1. len - 1 \in Nat
          BY <1>2
        <4>. QED BY <1>3, <4>1
      <3>2. Blocks(Input) \subseteq Nat
        BY <1>4, <1>5
      <3>3. eff_map' \in {{0, Block(len - 1)}, Blocks(Input), eff_map}
        BY <2>5 DEF NextStage
      <3>4. eff_map' \subseteq Nat
        BY <1>2, <3>1, <3>2, <3>3
      <3>. QED BY <1>2, <2>5, <3>4 DEF NextStage, out_buf
    <2>6. CASE DetDone
      BY <1>2, <2>6 DEF DetDone, out_buf
    <2>7. CASE Restore
      <3>1. stage = "flip8" => Stage.bytes \in SUBSET Nat
        <4>1. stage = "flip8" => Looping
          BY DEF Looping, DetStages
        <4>2. pc = "restore"
          BY <2>7 DEF Restore
        <4>. QED BY <1>5, <4>1, <4>2 DEF OneMutation
      <3>2. stage = "flip8" => Blocks(Stage.bytes) \subseteq Nat
        BY <1>4, <3>1
      <3>3. eff_map' \subseteq Nat
        BY <1>2, <2>7, <3>2 DEF Restore
      <3>4. mutated' \subseteq mutated /\ UNCHANGED <<len, foreign, passed_det>>
        BY <2>7 DEF Restore
      <3>. QED BY <1>2, <3>3, <3>4
    <2>8. CASE Havoc
      BY <1>2, <1>5, <2>8 DEF Havoc, entry
    <2>9. CASE RestoreHavoc
      BY <1>2, <2>9 DEF RestoreHavoc, entry
    <2>10. CASE Splice
      BY <1>2, <2>10 DEF Splice
    <2>. QED BY <2>1, <2>2, <2>3, <2>4, <2>5, <2>6, <2>7, <2>8, <2>9, <2>10
             DEF SkipRequest, TurnStep, SkipDet, BeginDet,
           SkipTry, SkipHttp, Stopped, Skipped, Boring, KeepPath, KeepCrash,
           Rerun, KeepHang, RerunInVain, Calibrate, EndCalibrate, BeginHavoc,
           RetrySplice, EndTurn
  <1>9. Rest
    <2>1. CASE Calibrate
      <3>1. cycle + 1 \in 0 .. CalCycles
        BY <1>2, <2>1, FuzzOneAssumption DEF Calibrate, CalibrationOver
      <3>. QED BY <1>2, <2>1, <3>1 DEF Calibrate, Run, score
    <2>2. CASE Splice \/ RetrySplice
      <3>1. splice_cycle + 1 \in 0 .. SpliceCycles + 1
        BY <1>2, <2>2, FuzzOneAssumption DEF Splice, RetrySplice
      <3>. QED BY <1>2, <2>2, <3>1 DEF Splice, RetrySplice
    <2>3. 0 \in 0 .. SpliceCycles + 1 /\ 0 \in 0 .. CalCycles
      BY FuzzOneAssumption
    <2>. QED BY <1>2, <2>1, <2>2, <2>3 DEF StartTurn, SkipRequest, TurnStep, SkipDet, BeginDet,
           Mutate, SkipTry, NextPosition, NextStage, DetDone, SkipHttp, Stopped, Skipped, Boring,
           KeepPath, KeepCrash, Rerun, KeepHang, RerunInVain, EndCalibrate, Restore,
           BeginHavoc, Havoc, RestoreHavoc, EndTurn, Run, score
  <1>. QED BY <1>1, <1>6, <1>7, <1>8, <1>9 DEF TypeOK

\* The inductive invariant of a turn, on top of the one of the fork server.
LEMMA TurnInvStep == FSInv' /\ TurnInv /\ [Next]_vars => TurnInv'
  <1> SUFFICES ASSUME FSInv', TurnInv, [Next]_vars PROVE TurnInv'
    OBVIOUS
  <1> USE DEF TurnInv
  <1>1. FSTypeOK'
    BY DEF FSInv
  <1>2. CASE StartTurn \/ TurnStep \/ SkipRequest
    BY <1>1, <1>2, MutationStep, ScoreStep, TurnTypeStep
  <1>3. CASE UNCHANGED fovars
    <2>1. UNCHANGED <<pc, stage, pos, try, last_len, mutated, foreign, len, passed_det, eff_map,
                      perf_score, splice_cycle, stage_max, new_paths, cycle, kept, skip_requested>>
      BY <1>3 DEF fovars, loop, out_buf, entry, score
    <2>2. Stage' = Stage
      BY <2>1, StageSame
    <2>3. /\ Clobbered' = Clobbered /\ Input' = Input /\ Tokens' = Tokens
          /\ (Overwrites' <=> Overwrites) /\ (Looping' <=> Looping)
      BY <2>1 DEF Clobbered, Bytes, Input, Tokens, Overwrites, Looping
    <2>4. TypeOK'
      BY <1>1, <2>1 DEF TypeOK
    <2>. QED BY <2>1, <2>2, <2>3, <2>4 DEF Untouched, TakenBack, OneMutation, ScoreDoubles
  <1>. QED BY <1>2, <1>3 DEF Next, Below, vars

\* The invariant of a turn holds whenever fuzz_one runs.
THEOREM TurnInvariant == Spec => []TurnInv
  <1>1. Init => TurnInv
    BY InitTurn DEF TurnInv
  <1>. QED BY <1>1, TurnInvStep, ForkServerInvariant, PTL DEF Spec

\* Every variable of fuzz_one keeps its type; the bytes that a stage mutates are
\* in the input, and a havoc stops doubling.
THEOREM FuzzOneTypeCorrect == Spec => []TypeOK
  <1>1. TurnInv => TypeOK
    BY DEF TurnInv
  <1>. QED BY <1>1, TurnInvariant, PTL

\* An execution of a deterministic stage has the one change of that stage at that
\* place, inside the buffer, and none that an earlier one left behind.
THEOREM FuzzOneMutationsAlone == Spec => []MutationsAlone
  <1>1. TurnInv => MutationsAlone
    BY DEF TurnInv, OneMutation, MutationsAlone, Looping
  <1>. QED BY <1>1, TurnInvariant, PTL

-----------------------------------------------------------------------------
(* The sessions: the inductive invariant.                                  *)

\* The session was started from seeds.
Fresh(f) == ~in_place_resume[f]

\* _resume/ has something in it: rename fails, and the next start in place goes on with it.
Left(f) == resume[f].there /\ ~Bare(resume[f])

\* The files the next start in place goes on with.
Kept(f) ==
    IF Left(f) /\ ~At(f, "nuke") THEN resume[f].files
    ELSE IF queue[f].there THEN queue[f].files ELSE NoFiles

\* A start from seeds is deleting these.
Removing(f) == At(f, "clean") /\ Fresh(f) /\ ~Left(f)

\* Nothing is left to go on with.
Fading(f) ==
    \/ Removing(f)
    \/ /\ DOMAIN Kept(f) = {}
       /\ \/ phase[f] \in {"off", "rename", "unsync", "clean", "mkdir"}
          \/ At(f, "read") /\ ~Fresh(f)

\* Numbered without gaps, nothing twice, and only the last one may have nothing in it.
Tidy(files) ==
    \E n \in Nat :
        /\ files \in [0 .. n - 1 -> Inputs \cup {Empty}]
        /\ \A i \in 0 .. n - 1 : files[i] = Empty => i = n - 1
        /\ \A i, j \in 0 .. n - 1 : files[i] = files[j] => i = j

\* A directory, or none.
Made(d) == \/ d = NoDir
           \/ d.state \in BOOLEAN /\ d = Dir(d.files, d.state)

\* What a directory holds: numbered files, finitely many.
Files == UNION {[N -> Inputs \cup {Empty}] : N \in {N \in SUBSET Nat : IsFiniteSet(N)}}

\* The list in memory, and the files that were made of its first k.
IsList(es)          == es \in Seq(Inputs) /\ Len(es) > 0 /\ IsInjective(es)
Holds(files, es, k) == files \in [0 .. k - 1 -> Inputs \cup {Empty}]
                       /\ \A i \in 0 .. k - 1 : files[i] = es[i + 1]

\* _resume/ as it was read into the list, or what is left of it.
ReadFrom(files, es) ==
    \A i \in DOMAIN files : \/ i < Len(es) /\ files[i] = es[i + 1]
                            \/ i = Len(es) /\ files[i] = Empty

\* From the dry run on, the queue is as it was linked or read.
Running == {"dry run", "stats", "fuzz", "write", "sync"}

\* Where the start-up is, whatever happened to the directories.
Begun(f) ==
    /\ Made(queue[f]) /\ Made(resume[f])
    /\ f \notin made => queue[f] = NoDir /\ phase[f] \in {"off", "mkdir"}
    /\ At(f, "mkdir") => queue[f] = NoDir
    /\ At(f, "read") => queue[f] = Dir(NoFiles, TRUE)
    /\ phase[f] \in {"pivot", "nuke"} \cup Running => queue[f].there
    /\ At(f, "rename") \/ At(f, "nuke") => ~Fresh(f)
    /\ At(f, "unsync") => Fresh(f)
    /\ phase[f] \in {"unsync", "clean", "mkdir", "read"} /\ Fresh(f) => work[f] = {}

\* What is there of queue/ and _resume/ at each point.
Linking(f) ==
    /\ At(f, "pivot") =>
        /\ queue[f].there /\ IsList(entries[f])
        /\ \E k \in 0 .. Len(entries[f]) :
             Holds(queue[f].files, entries[f], k) /\ \A i \in 1 .. k : entries[f][i] \in work[f]
        /\ IF Fresh(f) THEN ~Left(f)
           ELSE /\ Left(f) /\ ReadFrom(resume[f].files, entries[f])
                /\ 0 .. Len(entries[f]) - 1 \subseteq DOMAIN resume[f].files
    /\ At(f, "nuke") =>
        /\ queue[f].there /\ IsList(entries[f])
        /\ Holds(queue[f].files, entries[f], Len(entries[f])) /\ ToSet(entries[f]) \subseteq work[f]
        /\ resume[f].there => /\ ReadFrom(resume[f].files, entries[f])
                              /\ DOMAIN resume[f].files = {} => ~resume[f].state
    /\ phase[f] \in Running =>
        /\ queue[f].there /\ ~Left(f) /\ IsList(entries[f])
        /\ IF At(f, "write")
           THEN LET n == Len(entries[f]) - 1
                IN /\ queue[f].files \in [0 .. n -> Inputs \cup {Empty}]
                   /\ \A i \in 0 .. n - 1 : queue[f].files[i] = entries[f][i + 1]
                   /\ queue[f].files[n] = Empty /\ hand[f] = entries[f][n + 1]
           ELSE Holds(queue[f].files, entries[f], Len(entries[f]))

\* What the next start in place goes on with holds every input queue/ was given, and queue/
\* agrees with _resume/ while it is linked back from it.
Whole(f) ==
    /\ \A d \in {queue[f], resume[f]} : d.there => d.files \in Files
    /\ work[f] \subseteq Inputs /\ work[f] \subseteq Range(Kept(f))
    /\ Removing(f) \/ Tidy(Kept(f))
    /\ Left(f) /\ ~At(f, "nuke") /\ queue[f].there =>
        \A i \in DOMAIN queue[f].files :
            i \in DOMAIN resume[f].files /\ resume[f].files[i] = queue[f].files[i]
    /\ At(f, "clean") /\ ~Fresh(f) /\ queue[f].there => Left(f)
    /\ At(f, "read") /\ Fresh(f) => ~Left(f)
    /\ Linking(f)

\* The numbers of g's files that f takes for read.
Known(f, g) ==
    {i \in 0 .. synced[f][g] - 1 : i \notin missed[f][g]}
    \cup IF sync[f] # NoSync /\ sync[f].party = g THEN sync[f].got ELSE {}

\* The record of a pass over the queue of another.
SyncRecs(f) ==
    [at : {"queue", "resume", "gone"}, party : Fuzzers \ {f}, min_accept : Nat,
     due : SUBSET Nat, seen : SUBSET Nat, got : SUBSET Nat]

\* A pass reads numbers from the one remembered on, and boundedly many of them.
Reading(f) ==
    /\ At(f, "sync") => sync[f] # NoSync
    /\ sync[f] # NoSync =>
        /\ sync[f] \in SyncRecs(f) /\ phase[f] \in {"sync", "write"}
        /\ sync[f].min_accept = synced[f][sync[f].party]
        /\ \A i \in sync[f].seen : i >= sync[f].min_accept
        /\ \E b \in Nat : \A i \in sync[f].seen : i <= b

\* What f takes for read of g it has executed, as it is in the files g goes on with.
Executed(f, g) ==
    /\ \A i \in Known(f, g) \cap DOMAIN Kept(g) : Kept(g)[i] # Empty /\ Kept(g)[i] \in ran[f]
    /\ ~Fading(g) => Known(f, g) \subseteq DOMAIN Kept(g)

\* Every fuzzer has its part of each variable.
Shapes ==
    /\ DOMAIN queue = Fuzzers /\ DOMAIN resume = Fuzzers /\ DOMAIN phase = Fuzzers
    /\ DOMAIN in_place_resume = Fuzzers /\ DOMAIN entries = Fuzzers /\ DOMAIN hand = Fuzzers
    /\ DOMAIN sync = Fuzzers /\ DOMAIN work = Fuzzers /\ DOMAIN ran = Fuzzers
    /\ DOMAIN missed = Fuzzers
    /\ \A f \in Fuzzers : DOMAIN missed[f] = Fuzzers
    /\ synced \in [Fuzzers -> [Fuzzers -> Nat]]
    /\ harmed \subseteq Fuzzers

\* All of it; the fuzzers that are harmed promise nothing.
SessionInv ==
    /\ Shapes
    /\ \A f \in Fuzzers : Begun(f) /\ Reading(f)
    /\ \A f \in Fuzzers \ harmed : Whole(f)
    /\ \A f \in Fuzzers, g \in Fuzzers \ harmed : Executed(f, g)

\* What is in the directories, in memory, and in the history.
Contents(f) ==
    /\ \A d \in {queue[f], resume[f]} : d.there => d.files \in Files
    /\ entries[f] \in Seq(Inputs) /\ hand[f] \in Inputs \cup {Empty}
    /\ work[f] \subseteq Inputs /\ ran[f] \subseteq Inputs

\* The places of a session.
Phases == Starting \cup {"off", "stats", "fuzz", "write", "sync"}

\* The variables that are not about files.
Marks ==
    /\ made \subseteq Fuzzers /\ kills \in 0 .. MaxKills
    /\ stats \in [Fuzzers -> {"none", "torn", "short", "long"}]
    /\ phase \in [Fuzzers -> Phases]
    /\ in_place_resume \in [Fuzzers -> BOOLEAN]
    /\ missed \in [Fuzzers -> [Fuzzers -> SUBSET Nat]]

\* A file is created with something to write in hand.
Writing(f) == At(f, "write") => entries[f] # <<>> /\ hand[f] \in Inputs

\* What the variables hold, over SessionInv.
Typed == Marks /\ \A f \in Fuzzers : Contents(f) /\ Writing(f)

\* The handle of a pass is of a directory that is there, unless it is gone.
Handles(h) ==
    sync[h] # NoSync =>
        /\ sync[h].at = "queue" => queue[sync[h].party].there
        /\ sync[h].at = "resume" => resume[sync[h].party].there

\* The inductive invariant.
SessionIInv == SessionInv /\ Typed /\ \A h \in Fuzzers : Handles(h)

-----------------------------------------------------------------------------
(* What a step leaves alone.                                               *)

\* Nothing of g as the owner of a queue is touched.
SameOwner(g) ==
    /\ queue'[g] = queue[g] /\ resume'[g] = resume[g] /\ phase'[g] = phase[g]
    /\ in_place_resume'[g] = in_place_resume[g] /\ entries'[g] = entries[g]
    /\ hand'[g] = hand[g] /\ work'[g] = work[g] /\ (g \in made' <=> g \in made)

\* What is said of an owner depends on what it has and on nothing else.
LEMMA OwnerStays ==
    ASSUME NEW g, SameOwner(g)
    PROVE  /\ Left(g)' <=> Left(g)
           /\ Kept(g)' = Kept(g)
           /\ Fading(g)' <=> Fading(g)
           /\ Begun(g)' <=> Begun(g)
           /\ Whole(g)' <=> Whole(g)
<1> USE DEF SameOwner
<1>1. (Left(g)' <=> Left(g)) /\ (Fresh(g)' <=> Fresh(g)) /\ (\A p : At(g, p)' <=> At(g, p))
  BY DEF Left, Fresh, At
<1>2. Kept(g)' = Kept(g)
  BY <1>1 DEF Kept
<1>3. (Removing(g)' <=> Removing(g))
  BY <1>1 DEF Removing
<1>4. Fading(g)' <=> Fading(g)
  BY <1>1, <1>2, <1>3 DEF Fading
<1>5. Begun(g)' <=> Begun(g)
  BY <1>1 DEF Begun
<1>6. Linking(g)' <=> Linking(g)
  BY <1>1 DEF Linking
<1>7. Whole(g)' <=> Whole(g)
  BY <1>1, <1>2, <1>3, <1>6 DEF Whole
<1> QED  BY <1>1, <1>2, <1>4, <1>5, <1>7

\* A reader that is left alone, its pass with it.
LEMMA ReaderStays ==
    ASSUME NEW f \in Fuzzers, Reading(f), synced'[f] = synced[f], sync'[f] = sync[f],
           sync[f] # NoSync \/ phase'[f] = "sync" => phase'[f] = phase[f]
    PROVE  Reading(f)'
BY DEF Reading, At, SyncRecs

\* It takes the same numbers for read.
LEMMA KnownStays ==
    ASSUME NEW f, NEW g, synced'[f] = synced[f], sync'[f] = sync[f], missed'[f] = missed[f]
    PROVE  Known(f, g)' = Known(f, g)
BY DEF Known

\* And what they stand for is the same, so it was executed.
LEMMA ExecutedStays ==
    ASSUME NEW f, NEW g, Executed(f, g), Known(f, g)' \subseteq Known(f, g),
           ran[f] \subseteq ran'[f], Kept(g)' = Kept(g), Fading(g) => Fading(g)'
    PROVE  Executed(f, g)'
BY DEF Executed

\* Files that are only added, or filled, by the owner change nothing for its readers.
LEMMA ExecutedGrows ==
    ASSUME NEW f, NEW g, Executed(f, g), Known(f, g)' \subseteq Known(f, g),
           ran[f] \subseteq ran'[f], ~Fading(g), DOMAIN Kept(g) \subseteq DOMAIN Kept(g)',
           \A i \in DOMAIN Kept(g) : Kept(g)[i] # Empty => Kept(g)'[i] = Kept(g)[i]
    PROVE  Executed(f, g)'
BY DEF Executed

\* A step of f: the others keep what they have, so f and its readers are what is to show.
LEMMA StepOf ==
    ASSUME SessionInv, NEW f \in Fuzzers, Shapes',
           \A g \in Fuzzers \ {f} : SameOwner(g) /\ (g \in harmed' <=> g \in harmed),
           \A h \in Fuzzers : Reading(h)',
           \A h \in Fuzzers, g \in Fuzzers \ {f} : g \notin harmed => Executed(h, g)',
           Begun(f)', f \notin harmed' => Whole(f)',
           f \notin harmed' => \A h \in Fuzzers : Executed(h, f)'
    PROVE  SessionInv'
<1>1. \A g \in Fuzzers : Begun(g)'
  BY OwnerStays DEF SessionInv
<1>2. \A g \in Fuzzers \ harmed' : Whole(g)'
  BY OwnerStays DEF SessionInv
<1> QED  BY <1>1, <1>2 DEF SessionInv

\* A step of f that leaves the readers alone.
QuietReaders(f) ==
    /\ sync' = sync /\ synced' = synced /\ missed' = missed
    /\ \A h \in Fuzzers : ran[h] \subseteq ran'[h]
    /\ \A h \in Fuzzers \ {f} : phase'[h] = phase[h]
    /\ \/ sync[f] = NoSync /\ phase'[f] # "sync"
       \/ phase'[f] = phase[f]
       \/ sync[f] # NoSync /\ phase'[f] \in {"sync", "write"}

\* A step of f that leaves the readers alone and what f goes on with, or adds to it.
LEMMA QuietStep ==
    ASSUME SessionInv, NEW f \in Fuzzers, Shapes', QuietReaders(f),
           \A g \in Fuzzers \ {f} : SameOwner(g), harmed' = harmed,
           Begun(f)', f \notin harmed => Whole(f)',
           f \notin harmed => \/ Kept(f)' = Kept(f) /\ (Fading(f) => Fading(f)')
                              \/ /\ ~Fading(f) /\ DOMAIN Kept(f) \subseteq DOMAIN Kept(f)'
                                 /\ \A i \in DOMAIN Kept(f) : Kept(f)[i] # Empty => Kept(f)'[i] = Kept(f)[i]
    PROVE  SessionInv'
<1>1. \A h \in Fuzzers : Reading(h)'
  <2> SUFFICES ASSUME NEW h \in Fuzzers  PROVE Reading(h)'
    OBVIOUS
  <2>1. Reading(h)
    BY DEF SessionInv
  <2>2. CASE h # f
    BY <2>1, <2>2, ReaderStays DEF QuietReaders
  <2>3. CASE h = f
    BY <2>1, <2>3 DEF QuietReaders, Reading, At, SyncRecs
  <2> QED  BY <2>2, <2>3
<1>2. \A h, g \in Fuzzers : Known(h, g)' = Known(h, g)
  BY KnownStays DEF QuietReaders
<1>3. \A h \in Fuzzers, g \in Fuzzers \ {f} : g \notin harmed => Executed(h, g)'
  BY <1>2, OwnerStays, ExecutedStays DEF SessionInv, QuietReaders
<1>4. f \notin harmed => \A h \in Fuzzers : Executed(h, f)'
  <2> SUFFICES ASSUME f \notin harmed, NEW h \in Fuzzers  PROVE Executed(h, f)'
    OBVIOUS
  <2>1. Executed(h, f) /\ Known(h, f)' \subseteq Known(h, f) /\ ran[h] \subseteq ran'[h]
    BY <1>2 DEF SessionInv, QuietReaders
  <2> QED  BY <2>1, ExecutedStays, ExecutedGrows
<1> QED  BY <1>1, <1>3, <1>4, StepOf

-----------------------------------------------------------------------------
(* The start-up, step by step.                                             *)

\* With the directories as they were, and the removal of _resume/ neither begun nor ended.
LEMMA KeptBy ==
    ASSUME NEW f, queue'[f] = queue[f], resume'[f] = resume[f],
           At(f, "nuke")' <=> At(f, "nuke")
    PROVE  (Left(f)' <=> Left(f)) /\ Kept(f)' = Kept(f)
BY DEF Left, Kept, At

\* setup_dirs_fds begins; a start from seeds forgets what the queue was given.
LEMMA StartStep ==
    ASSUME SessionInv, NEW f \in Fuzzers, Start(f)  PROVE SessionInv'
<1> USE DEF At, Goes
<1>1. PICK inPlace \in BOOLEAN :
         /\ inPlace => f \in made
         /\ in_place_resume' = [in_place_resume EXCEPT ![f] = inPlace]
         /\ phase' = [phase EXCEPT ![f] = IF inPlace THEN "rename" ELSE IF f \in made THEN "unsync" ELSE "mkdir"]
         /\ work' = IF inPlace THEN work ELSE [work EXCEPT ![f] = {}]
  BY DEF Start
<1>2. phase[f] = "off" /\ UNCHANGED <<made, queue, resume, synced, entries, hand, sync, harmed, ran, missed>>
  BY DEF Start, disk
<1>3. Shapes /\ Begun(f) /\ Reading(f) /\ (f \notin harmed => Whole(f))
  BY DEF SessionInv
<1>4. Shapes'
  BY <1>1, <1>2, <1>3 DEF Shapes
<1>5. /\ phase'[f] = IF inPlace THEN "rename" ELSE IF f \in made THEN "unsync" ELSE "mkdir"
      /\ in_place_resume'[f] = inPlace
      /\ work'[f] = IF inPlace THEN work[f] ELSE {}
  BY <1>1, <1>3 DEF Shapes
<1>6. \A g \in Fuzzers \ {f} : SameOwner(g)
  BY <1>1, <1>2, <1>3 DEF Shapes, SameOwner
<1>7. QuietReaders(f)
  BY <1>1, <1>2, <1>3, <1>5 DEF QuietReaders, Shapes, Reading
<1>8. (Left(f)' <=> Left(f)) /\ Kept(f)' = Kept(f)
  BY <1>2, <1>5, KeptBy
<1>9. Begun(f)'
  <2>1. Fresh(f)' <=> ~inPlace
    BY <1>5 DEF Fresh
  <2>2. CASE inPlace
    <3>1. phase'[f] = "rename" /\ f \in made
      BY <1>1, <1>5, <2>2, Zenon
    <3> QED  BY <1>2, <1>3, <2>1, <2>2, <3>1 DEF Begun, Running
  <2>3. CASE ~inPlace
    <3>1. phase'[f] = (IF f \in made THEN "unsync" ELSE "mkdir") /\ work'[f] = {}
      BY <1>5, <2>3, Zenon
    <3> QED  BY <1>2, <1>3, <2>1, <2>3, <3>1 DEF Begun, Running
  <2> QED  BY <2>2, <2>3
<1>10. Fading(f) => Fading(f)'
  BY <1>2, <1>5, <1>8 DEF Fading, Removing
<1>11. f \notin harmed => Whole(f)'
  <2> SUFFICES ASSUME f \notin harmed  PROVE Whole(f)'
    OBVIOUS
  <2>1. Whole(f) /\ ~Removing(f)
    BY <1>2, <1>3 DEF Removing
  <2>2. Tidy(Kept(f))'
    BY <2>1, <1>8 DEF Whole, Tidy, Inputs
  <2>3. Linking(f)'
    BY <1>5 DEF Linking, Running
  <2> QED  BY <2>1, <2>2, <2>3, <1>2, <1>5, <1>8 DEF Whole, Files
<1> QED  BY <1>2, <1>4, <1>6, <1>7, <1>8, <1>9, <1>10, <1>11, QuietStep

\* A handle that follows its directory changes in nothing else.
LEMMA HandleMoves ==
    ASSUME NEW h, NEW r \in SyncRecs(h), NEW v \in {"queue", "resume", "gone"},
           NEW q, q = [r EXCEPT !.at = v]
    PROVE  /\ q \in SyncRecs(h) /\ q # NoSync /\ q.party = r.party
           /\ q.min_accept = r.min_accept /\ q.seen = r.seen /\ q.got = r.got
<1>1. /\ q \in SyncRecs(h) /\ q.at = v /\ q.party = r.party
      /\ q.min_accept = r.min_accept /\ q.seen = r.seen /\ q.got = r.got
  BY DEF SyncRecs
<1>2. q # NoSync
  BY <1>1 DEF NoSync
<1> QED  BY <1>1, <1>2

\* Readers whose handles follow a directory take the same numbers for read.
LEMMA MovedKeeps ==
    ASSUME Shapes, NEW f, NEW to, Moved(f, to), NEW h \in Fuzzers, Reading(h),
           \A p \in DOMAIN to : to[p] \in {"queue", "resume", "gone"},
           phase'[h] = phase[h], synced'[h] = synced[h], missed'[h] = missed[h]
    PROVE  Reading(h)' /\ \A g : Known(h, g)' = Known(h, g)
<1>1. DOMAIN sync' = Fuzzers /\ \/ sync'[h] = sync[h]
                                \/ /\ sync[h] # NoSync /\ sync[h].at \in DOMAIN to
                                   /\ sync'[h] = [sync[h] EXCEPT !.at = to[sync[h].at]]
  BY DEF Moved, Shapes
<1>2. CASE sync'[h] = sync[h]
  BY <1>2 DEF Reading, Known, At, SyncRecs
<1>3. CASE /\ sync[h] # NoSync /\ sync[h].at \in DOMAIN to
           /\ sync'[h] = [sync[h] EXCEPT !.at = to[sync[h].at]]
  <2>1. sync[h] \in SyncRecs(h)
    BY <1>3 DEF Reading
  <2>2. /\ sync'[h] \in SyncRecs(h) /\ sync'[h].party = sync[h].party
        /\ sync'[h].min_accept = sync[h].min_accept
        /\ sync'[h].seen = sync[h].seen /\ sync'[h].got = sync[h].got
        /\ sync'[h] # NoSync
    <3>1. to[sync[h].at] \in {"queue", "resume", "gone"}
      BY <1>3
    <3>2. \A r \in SyncRecs(h), v \in {"queue", "resume", "gone"} : \A q :
            q = [r EXCEPT !.at = v] =>
                /\ q \in SyncRecs(h) /\ q # NoSync /\ q.party = r.party
                /\ q.min_accept = r.min_accept /\ q.seen = r.seen /\ q.got = r.got
      BY HandleMoves
    <3> HIDE DEF NoSync
    <3>3. sync'[h] = [sync[h] EXCEPT !.at = to[sync[h].at]]
      BY <1>3
    <3> DEFINE q == sync'[h]  r == sync[h]  v == to[sync[h].at]
    <3>4. q = [r EXCEPT !.at = v] /\ r \in SyncRecs(h) /\ v \in {"queue", "resume", "gone"}
      BY <2>1, <3>1, <3>3, Zenon
    <3> HIDE DEF q, r, v
    <3>5. /\ q \in SyncRecs(h) /\ q # NoSync /\ q.party = r.party
          /\ q.min_accept = r.min_accept /\ q.seen = r.seen /\ q.got = r.got
      BY <3>2, <3>4, Zenon
    <3> QED  BY <3>5, Zenon DEF q, r
  <2>5. Reading(h)'
    BY <1>3, <2>2 DEF Reading, At, SyncRecs
  <2>6. \A g : Known(h, g)' = Known(h, g)
    BY <1>3, <2>2 DEF Known
  <2> QED  BY <2>5, <2>6
<1> QED  BY <1>1, <1>2, <1>3

\* A step of f in which handles follow.
MovingReaders(f) ==
    /\ \/ sync' = sync
       \/ \E to : Moved(f, to) /\ \A p \in DOMAIN to : to[p] \in {"queue", "resume", "gone"}
    /\ synced' = synced /\ missed' = missed /\ ran' = ran
    /\ \A h \in Fuzzers \ {f} : phase'[h] = phase[h]
    /\ phase[f] \notin {"sync", "write"} /\ phase'[f] # "sync"

\* A step of f that moves or removes one of its directories.
LEMMA MovingStep ==
    ASSUME SessionInv, NEW f \in Fuzzers, Shapes', MovingReaders(f),
           \A g \in Fuzzers \ {f} : SameOwner(g), harmed' = harmed,
           Begun(f)', f \notin harmed => Whole(f)',
           f \notin harmed => \/ Kept(f)' = Kept(f) /\ (Fading(f) => Fading(f)')
                              \/ \A h \in Fuzzers : Known(h, f)' = Known(h, f) => Executed(h, f)'
    PROVE  SessionInv'
<1>0. /\ sync[f] = NoSync /\ Shapes
      /\ \A h \in Fuzzers : Reading(h)
  BY DEF SessionInv, Reading, MovingReaders
<1>1. \A h \in Fuzzers : Reading(h)' /\ \A g : Known(h, g)' = Known(h, g)
  <2> SUFFICES ASSUME NEW h \in Fuzzers  PROVE Reading(h)' /\ \A g : Known(h, g)' = Known(h, g)
    OBVIOUS
  <2>1. synced'[h] = synced[h] /\ missed'[h] = missed[h] /\ Reading(h)
    BY <1>0 DEF MovingReaders
  <2>2. CASE sync' = sync
    BY <1>0, <2>1, <2>2, ReaderStays, KnownStays DEF MovingReaders
  <2>3. CASE \E to : Moved(f, to) /\ \A p \in DOMAIN to : to[p] \in {"queue", "resume", "gone"}
    <3>1. PICK to : Moved(f, to) /\ \A p \in DOMAIN to : to[p] \in {"queue", "resume", "gone"}
      BY <2>3
    <3>2. CASE h # f
      BY <1>0, <2>1, <3>1, <3>2, MovedKeeps DEF MovingReaders
    <3>3. CASE h = f
      <4>1. sync'[f] = sync[f]
        BY <1>0, <3>1 DEF Moved, Shapes
      <4> QED  BY <1>0, <2>1, <3>3, <4>1, ReaderStays, KnownStays DEF MovingReaders
    <3> QED  BY <3>2, <3>3
  <2> QED  BY <2>2, <2>3 DEF MovingReaders
<1>2. \A h \in Fuzzers, g \in Fuzzers \ {f} : g \notin harmed => Executed(h, g)'
  BY <1>1, OwnerStays, ExecutedStays DEF SessionInv, MovingReaders
<1>3. f \notin harmed => \A h \in Fuzzers : Executed(h, f)'
  <2> SUFFICES ASSUME f \notin harmed, NEW h \in Fuzzers  PROVE Executed(h, f)'
    OBVIOUS
  <2>1. Executed(h, f) /\ Known(h, f)' = Known(h, f) /\ ran[h] \subseteq ran'[h]
    BY <1>1 DEF SessionInv, MovingReaders
  <2> QED  BY <2>1, ExecutedStays
<1> QED  BY <1>1, <1>2, <1>3, StepOf

\* A directory without files is in order.
LEMMA NoFilesIs == DOMAIN NoFiles = {} /\ Range(NoFiles) = {} /\ Tidy(NoFiles) /\ NoFiles \in Files
<1>1. DOMAIN NoFiles = {}
  BY DEF NoFiles
<1>2. Range(NoFiles) = {}
  BY <1>1 DEF Range
<1>3. NoFiles \in [{} -> Inputs \cup {Empty}]
  BY DEF NoFiles
<1>4. 0 .. 0 - 1 = {}
  OBVIOUS
<1>5. Tidy(NoFiles)
  BY <1>3, <1>4 DEF Tidy
<1>6. NoFiles \in Files
  BY <1>3, FS_EmptySet DEF Files
<1> QED  BY <1>1, <1>2, <1>5, <1>6

\* What Dir makes is a directory, and NoDir is none.
LEMMA DirIs ==
    ASSUME NEW F, NEW b \in BOOLEAN
    PROVE  /\ Dir(F, b).there /\ Dir(F, b).files = F /\ Dir(F, b).state = b
           /\ Dir(F, b) # NoDir /\ ~NoDir.there /\ Made(Dir(F, b)) /\ Made(NoDir)
<1>1. Dir(F, b).there = TRUE /\ Dir(F, b).files = F /\ Dir(F, b).state = b
  BY DEF Dir
<1>2. NoDir.there = FALSE
  BY DEF NoDir
<1>3. Dir(F, b) # NoDir
  BY <1>1, <1>2
<1>4. Dir(F, b).state \in BOOLEAN /\ Dir(F, b) = Dir(Dir(F, b).files, Dir(F, b).state)
  BY <1>1, Zenon
<1>5. Made(Dir(F, b)) /\ Made(NoDir)
  BY <1>4 DEF Made
<1> QED  BY <1>1, <1>2, <1>3, <1>5

\* A directory has files and a mark, and no directory has neither.
LEMMA MadeIs ==
    ASSUME NEW d, Made(d)
    PROVE  /\ d.there <=> d # NoDir
           /\ d.there => d = Dir(d.files, d.state) /\ d.state \in BOOLEAN
           /\ Bare(d) => d.there /\ d.files = NoFiles /\ d.state = FALSE
<1>1. CASE d = NoDir
  BY <1>1, DirIs DEF Bare
<1>2. CASE d.state \in BOOLEAN /\ d = Dir(d.files, d.state)
  <2>1. Dir(d.files, d.state).there /\ Dir(d.files, d.state) # NoDir
    BY <1>2, DirIs
  <2>2. d.there /\ d # NoDir
    BY <1>2, <2>1, Zenon
  <2>3. Bare(d) => d.files = NoFiles /\ d.state = FALSE
    BY <1>2, Zenon DEF Bare
  <2> QED  BY <1>2, <2>2, <2>3
<1> QED  BY <1>1, <1>2 DEF Made

\* One whose mark is removed, or whose files change, is a directory still.
LEMMA DirChanges ==
    ASSUME NEW d, Made(d), d.there
    PROVE  /\ LET e == [d EXCEPT !.state = FALSE] IN Made(e) /\ e = Dir(d.files, FALSE)
           /\ \A F : LET e == [d EXCEPT !.files = F] IN Made(e) /\ e = Dir(F, d.state)
<1>1. d = Dir(d.files, d.state) /\ d.state \in BOOLEAN
  BY MadeIs
<1>2. ASSUME NEW F, NEW b  PROVE Dir(F, b) \in [there : {TRUE}, files : {F}, state : {b}]
  BY DEF Dir
<1>3. ASSUME NEW F, NEW b, NEW r \in [there : {TRUE}, files : {F}, state : {b}]  PROVE r = Dir(F, b)
  BY DEF Dir
<1>4. PICK F, b : F = d.files /\ b = d.state
  OBVIOUS
<1>5. d \in [there : {TRUE}, files : {F}, state : {b}]
  <2>1. Dir(F, b) \in [there : {TRUE}, files : {F}, state : {b}]
    BY <1>2
  <2>2. d = Dir(F, b)
    BY <1>1, <1>4
  <2> QED  BY <2>1, <2>2, Zenon
<1>6. [d EXCEPT !.state = FALSE] \in [there : {TRUE}, files : {F}, state : {FALSE}]
  BY <1>5
<1>7. ASSUME NEW G  PROVE [d EXCEPT !.files = G] \in [there : {TRUE}, files : {G}, state : {b}]
  BY <1>5
<1>8. [d EXCEPT !.state = FALSE] = Dir(F, FALSE)
  BY <1>3, <1>6, Zenon
<1>9. \A G : [d EXCEPT !.files = G] = Dir(G, b)
  BY <1>3, <1>7, Zenon
<1>10. Made(Dir(F, FALSE)) /\ \A G : Made(Dir(G, b))
  BY <1>1, <1>4, DirIs
<1>11. Made([d EXCEPT !.state = FALSE]) /\ [d EXCEPT !.state = FALSE] = Dir(d.files, FALSE)
  BY <1>4, <1>8, <1>10, Zenon
<1>12. \A G : Made([d EXCEPT !.files = G]) /\ [d EXCEPT !.files = G] = Dir(G, d.state)
  BY <1>4, <1>9, <1>10, Zenon
<1> QED  BY <1>11, <1>12, Zenon

\* rename of queue/ to _resume/: the next start goes on with the same files, wherever they are.
LEMMA RenameStep ==
    ASSUME SessionInv, NEW f \in Fuzzers, Rename(f)  PROVE SessionInv'
<1> USE DEF At, Goes
<1> DEFINE Moves == queue[f].there /\ (resume[f] = NoDir \/ Bare(resume[f]))
           to == [queue |-> "resume", resume |-> "gone"]
<1>1. /\ phase[f] = "rename" /\ phase' = [phase EXCEPT ![f] = "clean"]
      /\ UNCHANGED <<made, synced, in_place_resume, entries, hand, work, harmed, ran, missed>>
  BY DEF Rename, history
<1>2. Shapes /\ Begun(f) /\ (f \notin harmed => Whole(f))
  BY DEF SessionInv
<1>3. CASE Moves
  <2>1. /\ resume' = [resume EXCEPT ![f] = queue[f]] /\ queue' = [queue EXCEPT ![f] = NoDir]
        /\ Moved(f, to)
    BY <1>3 DEF Rename
  <2>2. DOMAIN sync' = Fuzzers
    BY <2>1, <1>2 DEF Moved, Shapes
  <2>3. Shapes'
    BY <1>1, <1>2, <2>1, <2>2 DEF Shapes
  <2>4. /\ phase'[f] = "clean" /\ resume'[f] = queue[f] /\ queue'[f] = NoDir
        /\ in_place_resume'[f] = in_place_resume[f] /\ work'[f] = work[f]
    BY <1>1, <1>2, <2>1 DEF Shapes
  <2>5. \A g \in Fuzzers \ {f} : SameOwner(g)
    BY <1>1, <1>2, <2>1 DEF Shapes, SameOwner
  <2>6. MovingReaders(f)
    <3>1. \A p \in DOMAIN to : to[p] \in {"queue", "resume", "gone"}
      OBVIOUS
    <3> QED  BY <1>1, <1>2, <2>1, <3>1 DEF MovingReaders, Shapes
  <2>7. ~Left(f) /\ queue[f].there /\ ~NoDir.there /\ Kept(f) = queue[f].files
    BY <1>1, <1>3, DirIs DEF Left, Kept
  <2>8. Left(f)' <=> ~Bare(queue[f])
    BY <2>4, <2>7 DEF Left
  <2>9. Kept(f)' = Kept(f)
    <3>1. CASE Bare(queue[f])
      BY <2>4, <2>7, <2>8, <3>1, MadeIs DEF Kept, Bare
    <3>2. CASE ~Bare(queue[f])
      BY <2>4, <2>7, <2>8, <3>2 DEF Kept
    <3> QED  BY <3>1, <3>2
  <2>10. Begun(f)'
    BY <1>1, <1>2, <2>4, DirIs DEF Begun, Running, Fresh
  <2>11. Fading(f) => Fading(f)'
    BY <1>1, <2>4, <2>9 DEF Fading, Removing
  <2>12. f \notin harmed => Whole(f)'
    <3> SUFFICES ASSUME f \notin harmed  PROVE Whole(f)'
      OBVIOUS
    <3>1. Whole(f) /\ ~Removing(f)
      BY <1>1, <1>2 DEF Removing
    <3>2. Tidy(Kept(f))'
      BY <3>1, <2>9 DEF Whole, Tidy, Inputs
    <3>3. Linking(f)'
      BY <2>4 DEF Linking, Running
    <3> QED  BY <3>1, <3>2, <3>3, <2>4, <2>7, <2>9 DEF Whole, Files
  <2> QED  BY <1>1, <2>3, <2>5, <2>6, <2>9, <2>10, <2>11, <2>12, MovingStep
<1>4. CASE ~Moves
  <2>1. UNCHANGED <<queue, resume, sync>>
    BY <1>4 DEF Rename
  <2>2. Shapes'
    BY <1>1, <1>2, <2>1 DEF Shapes
  <2>3. phase'[f] = "clean"
    BY <1>1, <1>2 DEF Shapes
  <2>4. \A g \in Fuzzers \ {f} : SameOwner(g)
    BY <1>1, <1>2, <2>1 DEF Shapes, SameOwner
  <2>5. MovingReaders(f)
    BY <1>1, <1>2, <2>1, <2>3 DEF MovingReaders, Shapes
  <2>6. (Left(f)' <=> Left(f)) /\ Kept(f)' = Kept(f)
    BY <1>1, <2>1, <2>3, KeptBy
  <2>7. Begun(f)'
    BY <1>1, <1>2, <2>1, <2>3 DEF Begun, Running, Fresh
  <2>8. Fading(f) => Fading(f)'
    BY <1>1, <2>3, <2>6 DEF Fading, Removing
  <2>9. f \notin harmed => Whole(f)'
    <3> SUFFICES ASSUME f \notin harmed  PROVE Whole(f)'
      OBVIOUS
    <3>1. Whole(f) /\ ~Removing(f)
      BY <1>1, <1>2 DEF Removing
    <3>2. Tidy(Kept(f))'
      BY <3>1, <2>6 DEF Whole, Tidy, Inputs
    <3>3. Linking(f)'
      BY <2>3 DEF Linking, Running
    <3>4. queue[f].there => Left(f)
      BY <1>2, <1>4, MadeIs DEF Left, Begun
    <3>5. ~Fresh(f)'
      BY <1>1, <1>2 DEF Begun, Fresh
    <3> QED  BY <3>1, <3>2, <3>3, <3>4, <3>5, <1>1, <2>1, <2>3, <2>6 DEF Whole, Files
  <2> QED  BY <1>1, <2>2, <2>4, <2>5, <2>6, <2>7, <2>8, <2>9, MovingStep
<1> QED  BY <1>3, <1>4

\* .synced/ is removed: f takes nothing for read.
LEMMA UnsyncStep ==
    ASSUME SessionInv, NEW f \in Fuzzers, Unsync(f)  PROVE SessionInv'
<1> USE DEF At, Goes
<1>1. /\ phase[f] = "unsync" /\ phase' = [phase EXCEPT ![f] = "clean"]
      /\ synced' = [synced EXCEPT ![f] = [g \in Fuzzers |-> 0]]
      /\ missed' = [missed EXCEPT ![f] = [g \in Fuzzers |-> {}]]
      /\ UNCHANGED <<made, queue, resume, in_place_resume, entries, hand, sync, work, harmed, ran>>
  BY DEF Unsync, memory
<1>2. Shapes /\ Begun(f) /\ (f \notin harmed => Whole(f)) /\ \A h \in Fuzzers : Reading(h)
  BY DEF SessionInv
<1>3. Shapes' /\ phase'[f] = "clean"
  BY <1>1, <1>2 DEF Shapes
<1>4. \A g \in Fuzzers \ {f} : SameOwner(g)
  BY <1>1, <1>2 DEF Shapes, SameOwner
<1>5. (Left(f)' <=> Left(f)) /\ Kept(f)' = Kept(f)
  BY <1>1, <1>3, KeptBy
<1>6. sync[f] = NoSync
  BY <1>1, <1>2 DEF Reading
<1>7. \A h \in Fuzzers : Reading(h)'
  <2> SUFFICES ASSUME NEW h \in Fuzzers  PROVE Reading(h)'
    OBVIOUS
  <2>1. CASE h = f
    BY <1>1, <1>3, <1>6, <2>1 DEF Reading, NoSync
  <2>2. CASE h # f
    BY <1>1, <1>2, <2>2, ReaderStays DEF Shapes
  <2> QED  BY <2>1, <2>2
<1>8. \A h, g \in Fuzzers : Known(h, g)' \subseteq Known(h, g)
  <2> SUFFICES ASSUME NEW h \in Fuzzers, NEW g \in Fuzzers  PROVE Known(h, g)' \subseteq Known(h, g)
    OBVIOUS
  <2>1. CASE h = f
    <3>1. synced'[f][g] = 0 /\ sync'[f] = NoSync
      BY <1>1, <1>2, <1>6 DEF Shapes, NoSync
    <3>2. Known(f, g)' = {}
      BY <1>6, <3>1 DEF Known, NoSync
    <3> QED  BY <2>1, <3>2
  <2>2. CASE h # f
    BY <1>1, <1>2, <2>2, KnownStays DEF Shapes
  <2> QED  BY <2>1, <2>2
<1>9. \A h \in Fuzzers, g \in Fuzzers \ {f} : g \notin harmed => Executed(h, g)'
  BY <1>1, <1>4, <1>8, OwnerStays, ExecutedStays DEF SessionInv
<1>10. Fading(f) => Fading(f)'
  BY <1>1, <1>3, <1>5 DEF Fading, Removing
<1>11. f \notin harmed => \A h \in Fuzzers : Executed(h, f)'
  BY <1>1, <1>5, <1>8, <1>10, ExecutedStays DEF SessionInv
<1>12. Begun(f)'
  BY <1>1, <1>2, <1>3 DEF Begun, Running, Fresh
<1>13. f \notin harmed => Whole(f)'
  <2> SUFFICES ASSUME f \notin harmed  PROVE Whole(f)'
    OBVIOUS
  <2>1. Whole(f) /\ ~Removing(f) /\ Fresh(f)'
    BY <1>1, <1>2 DEF Removing, Begun, Fresh
  <2>2. Tidy(Kept(f))'
    BY <2>1, <1>5 DEF Whole, Tidy, Inputs
  <2>3. Linking(f)'
    BY <1>3 DEF Linking, Running
  <2> QED  BY <2>1, <2>2, <2>3, <1>1, <1>3, <1>5 DEF Whole, Files
<1> QED  BY <1>1, <1>3, <1>4, <1>7, <1>9, <1>11, <1>12, <1>13, StepOf

\* With a file less, the others are what they were.
LEMMA RestrictFiles ==
    ASSUME NEW F \in Files, NEW i
    PROVE  LET G == Restrict(F, DOMAIN F \ {i})
           IN /\ G \in Files /\ DOMAIN G = DOMAIN F \ {i}
              /\ \A j \in DOMAIN G : G[j] = F[j]
<1> DEFINE G == Restrict(F, DOMAIN F \ {i})
<1>1. PICK N \in SUBSET Nat : IsFiniteSet(N) /\ F \in [N -> Inputs \cup {Empty}]
  BY DEF Files
<1>2. G = [j \in N \ {i} |-> F[j]]
  BY <1>1 DEF Restrict
<1>3. G \in [N \ {i} -> Inputs \cup {Empty}]
  BY <1>1, <1>2
<1>4. N \ {i} \in SUBSET Nat /\ IsFiniteSet(N \ {i})
  BY <1>1, FS_RemoveElement
<1>5. G \in Files
  BY <1>3, <1>4 DEF Files
<1> QED  BY <1>1, <1>2, <1>5

\* One step of delete_files, on the directory d that becomes e.
Deletes(d, e) ==
    \/ d.there /\ d.state /\ e = Dir(d.files, FALSE)
    \/ /\ d.there /\ ~d.state
       /\ \E i \in DOMAIN d.files : e = Dir(Restrict(d.files, DOMAIN d.files \ {i}), d.state)

\* A step of delete_files leaves a directory, with fewer files or without its mark.
LEMMA DeletesOne ==
    ASSUME NEW d, NEW e, Made(d), Deletes(d, e)
    PROVE  /\ d.there /\ Made(e) /\ e.there /\ ~e.state
           /\ DOMAIN e.files = {} => ~e.state
           /\ d.files \in Files =>
                /\ e.files \in Files /\ DOMAIN e.files \subseteq DOMAIN d.files
                /\ \A j \in DOMAIN e.files : e.files[j] = d.files[j]
<1>1. CASE d.there /\ d.state /\ e = Dir(d.files, FALSE)
  <2>1. /\ Made(Dir(d.files, FALSE)) /\ Dir(d.files, FALSE).there
        /\ Dir(d.files, FALSE).files = d.files /\ Dir(d.files, FALSE).state = FALSE
    BY DirIs
  <2> QED  BY <1>1, <2>1
<1>2. CASE /\ d.there /\ ~d.state
           /\ \E i \in DOMAIN d.files : e = Dir(Restrict(d.files, DOMAIN d.files \ {i}), d.state)
  <2>1. PICK i \in DOMAIN d.files : e = Dir(Restrict(d.files, DOMAIN d.files \ {i}), d.state)
    BY <1>2
  <2> DEFINE G == Restrict(d.files, DOMAIN d.files \ {i})
  <2>2. d.state \in BOOLEAN
    BY <1>2, MadeIs
  <2>3. d.files \in Files => /\ G \in Files /\ DOMAIN G = DOMAIN d.files \ {i}
                             /\ \A j \in DOMAIN G : G[j] = d.files[j]
    BY RestrictFiles
  <2>4. e = Dir(G, d.state)
    BY <2>1
  <2> HIDE DEF G
  <2>5. Made(Dir(G, d.state)) /\ Dir(G, d.state).there /\ Dir(G, d.state).files = G
        /\ Dir(G, d.state).state = d.state
    BY <2>2, DirIs
  <2>6. Made(e) /\ e.there /\ e.files = G /\ e.state = d.state
    BY <2>4, <2>5
  <2> QED  BY <1>2, <2>3, <2>6
<1> QED  BY <1>1, <1>2 DEF Deletes

\* delete_files on queue/, step by step.
LEMMA CleanDoes ==
    ASSUME NEW f \in Fuzzers, Shapes, Made(queue[f]), DeleteStep(f, queue, "queue", "mkdir")
    PROVE  /\ DOMAIN queue' = Fuzzers /\ \A g \in Fuzzers \ {f} : queue'[g] = queue[g]
           /\ \/ Deletes(queue[f], queue'[f]) /\ UNCHANGED <<phase, sync>>
              \/ /\ queue[f] = NoDir \/ Bare(queue[f])
                 /\ queue'[f] = NoDir
                 /\ Moved(f, [d \in {"queue"} |-> "gone"])
                 /\ phase' = [phase EXCEPT ![f] = "mkdir"]
<1>0. DOMAIN queue = Fuzzers
  BY DEF Shapes
<1>1. CASE /\ queue[f].there /\ queue[f].state
           /\ queue' = [queue EXCEPT ![f].state = FALSE]
           /\ UNCHANGED <<phase, sync>>
  <2>1. queue' = [queue EXCEPT ![f] = [queue[f] EXCEPT !.state = FALSE]]
    BY <1>1
  <2>2. [queue[f] EXCEPT !.state = FALSE] = Dir(queue[f].files, FALSE)
    BY <1>1, DirChanges
  <2> QED  BY <1>0, <1>1, <2>1, <2>2 DEF Deletes
<1>2. CASE /\ queue[f].there /\ ~queue[f].state
           /\ \E i \in DOMAIN queue[f].files : queue' = [queue EXCEPT ![f] = Without(@, i)]
           /\ UNCHANGED <<phase, sync>>
  <2>1. PICK i \in DOMAIN queue[f].files : queue' = [queue EXCEPT ![f] = Without(queue[f], i)]
    BY <1>2
  <2>2. Without(queue[f], i) = Dir(Restrict(queue[f].files, DOMAIN queue[f].files \ {i}), queue[f].state)
    BY <1>2, DirChanges DEF Without
  <2> QED  BY <1>0, <1>2, <2>1, <2>2 DEF Deletes
<1>3. CASE /\ queue[f] = NoDir \/ Bare(queue[f])
           /\ queue' = [queue EXCEPT ![f] = NoDir]
           /\ Moved(f, [d \in {"queue"} |-> "gone"])
           /\ Goes(f, "mkdir")
  BY <1>0, <1>3 DEF Goes
<1> QED  BY <1>1, <1>2, <1>3 DEF DeleteStep

\* delete_files on _resume/, step by step.
LEMMA NukeDoes ==
    ASSUME NEW f \in Fuzzers, Shapes, Made(resume[f]), DeleteStep(f, resume, "resume", "dry run")
    PROVE  /\ DOMAIN resume' = Fuzzers /\ \A g \in Fuzzers \ {f} : resume'[g] = resume[g]
           /\ \/ Deletes(resume[f], resume'[f]) /\ UNCHANGED <<phase, sync>>
              \/ /\ resume[f] = NoDir \/ Bare(resume[f])
                 /\ resume'[f] = NoDir
                 /\ Moved(f, [d \in {"resume"} |-> "gone"])
                 /\ phase' = [phase EXCEPT ![f] = "dry run"]
<1>0. DOMAIN resume = Fuzzers
  BY DEF Shapes
<1>1. CASE /\ resume[f].there /\ resume[f].state
           /\ resume' = [resume EXCEPT ![f].state = FALSE]
           /\ UNCHANGED <<phase, sync>>
  <2>1. resume' = [resume EXCEPT ![f] = [resume[f] EXCEPT !.state = FALSE]]
    BY <1>1
  <2>2. [resume[f] EXCEPT !.state = FALSE] = Dir(resume[f].files, FALSE)
    BY <1>1, DirChanges
  <2> QED  BY <1>0, <1>1, <2>1, <2>2 DEF Deletes
<1>2. CASE /\ resume[f].there /\ ~resume[f].state
           /\ \E i \in DOMAIN resume[f].files : resume' = [resume EXCEPT ![f] = Without(@, i)]
           /\ UNCHANGED <<phase, sync>>
  <2>1. PICK i \in DOMAIN resume[f].files : resume' = [resume EXCEPT ![f] = Without(resume[f], i)]
    BY <1>2
  <2>2. Without(resume[f], i) = Dir(Restrict(resume[f].files, DOMAIN resume[f].files \ {i}), resume[f].state)
    BY <1>2, DirChanges DEF Without
  <2> QED  BY <1>0, <1>2, <2>1, <2>2 DEF Deletes
<1>3. CASE /\ resume[f] = NoDir \/ Bare(resume[f])
           /\ resume' = [resume EXCEPT ![f] = NoDir]
           /\ Moved(f, [d \in {"resume"} |-> "gone"])
           /\ Goes(f, "dry run")
  BY <1>0, <1>3 DEF Goes
<1> QED  BY <1>1, <1>2, <1>3 DEF DeleteStep

\* The deletion of queue/ takes nothing that the next start in place would go on with, unless
\* f was started from seeds.
LEMMA CleanStep ==
    ASSUME SessionInv, NEW f \in Fuzzers, Clean(f)  PROVE SessionInv'
<1> USE DEF At, Goes
<1>1. /\ phase[f] = "clean" /\ DeleteStep(f, queue, "queue", "mkdir")
      /\ UNCHANGED <<made, resume, synced, in_place_resume, entries, hand, work, harmed, ran, missed>>
  BY DEF Clean, history
<1>2. Shapes /\ Begun(f) /\ (f \notin harmed => Whole(f)) /\ Made(queue[f])
  BY DEF SessionInv, Begun
<1>3. /\ DOMAIN queue' = Fuzzers /\ \A g \in Fuzzers \ {f} : queue'[g] = queue[g]
      /\ \/ Deletes(queue[f], queue'[f]) /\ UNCHANGED <<phase, sync>>
         \/ /\ queue[f] = NoDir \/ Bare(queue[f])
            /\ queue'[f] = NoDir
            /\ Moved(f, [d \in {"queue"} |-> "gone"])
            /\ phase' = [phase EXCEPT ![f] = "mkdir"]
  BY <1>1, <1>2, CleanDoes
<1>4. /\ DOMAIN phase' = Fuzzers /\ DOMAIN sync' = Fuzzers
      /\ \A g \in Fuzzers \ {f} : phase'[g] = phase[g]
      /\ phase'[f] \in {"clean", "mkdir"}
  BY <1>1, <1>2, <1>3 DEF Shapes, Moved
<1>5. Shapes'
  BY <1>1, <1>2, <1>3, <1>4 DEF Shapes
<1>6. \A g \in Fuzzers \ {f} : SameOwner(g)
  BY <1>1, <1>3, <1>4 DEF SameOwner
<1>7. MovingReaders(f)
  <2>1. \A p \in DOMAIN [d \in {"queue"} |-> "gone"] :
            [d \in {"queue"} |-> "gone"][p] \in {"queue", "resume", "gone"}
    OBVIOUS
  <2>2. sync' = sync \/ Moved(f, [d \in {"queue"} |-> "gone"])
    BY <1>3
  <2> QED  BY <1>1, <1>4, <2>1, <2>2 DEF MovingReaders
<1>8. (Left(f)' <=> Left(f)) /\ (Fresh(f)' <=> Fresh(f))
  BY <1>1 DEF Left, Fresh
<1>9. Made(queue'[f]) /\ (phase'[f] = "clean" => Deletes(queue[f], queue'[f]))
  <2>1. phase' = [phase EXCEPT ![f] = "mkdir"] => phase'[f] = "mkdir"
    BY <1>2 DEF Shapes
  <2> QED  BY <1>2, <1>3, <2>1, DirIs, DeletesOne
<1>10. Begun(f)'
  <2>1. f \in made
    BY <1>1, <1>2 DEF Begun
  <2>2. phase'[f] = "mkdir" => queue'[f] = NoDir
    BY <1>1, <1>3
  <2> QED  BY <1>1, <1>2, <1>4, <1>8, <1>9, <2>1, <2>2 DEF Begun, Running
<1>11. Left(f) => Kept(f)' = Kept(f)
  BY <1>1, <1>4, <1>8 DEF Kept
<1>12. ~Left(f) => /\ Kept(f) = IF queue[f].there THEN queue[f].files ELSE NoFiles
                   /\ Kept(f)' = IF queue'[f].there THEN queue'[f].files ELSE NoFiles
  BY <1>8 DEF Kept
\* One file less, in whatever directory it was; then the directory.
<1>13. CASE phase'[f] = "mkdir"
  <2>1. (queue[f] = NoDir \/ Bare(queue[f])) /\ queue'[f] = NoDir
    BY <1>1, <1>3, <1>13
  <2>2. (queue[f].there => queue[f].files = NoFiles) /\ ~queue'[f].there
    BY <1>2, <2>1, MadeIs, DirIs
  <2>3. Kept(f)' = Kept(f) /\ (~Left(f) => Kept(f)' = NoFiles)
    BY <1>11, <1>12, <2>2
  <2>4. Fading(f) => Fading(f)'
    BY <1>1, <1>8, <1>13, <2>3, NoFilesIs DEF Fading, Removing
  <2>5. f \notin harmed => Whole(f)'
    <3> SUFFICES ASSUME f \notin harmed  PROVE Whole(f)'
      OBVIOUS
    <3>1. Whole(f)
      BY <1>2
    <3>2. Tidy(Kept(f))'
      <4>1. Tidy(Kept(f))
        BY <2>3, <3>1, NoFilesIs DEF Whole, Removing
      <4> QED  BY <4>1, <2>3 DEF Tidy, Inputs
    <3>3. Linking(f)'
      BY <1>13 DEF Linking, Running
    <3>4. work'[f] \subseteq Inputs /\ work'[f] \subseteq Range(Kept(f)')
      BY <1>1, <2>3, <3>1 DEF Whole
    <3> QED  BY <3>1, <3>2, <3>3, <3>4, <1>1, <1>8, <1>13, <2>2 DEF Whole, Files
  <2> QED  BY <1>1, <1>5, <1>6, <1>7, <1>10, <2>3, <2>4, <2>5, MovingStep
<1>14. CASE phase'[f] = "clean"
  <2>1. queue[f].there /\ queue'[f].there
    BY <1>2, <1>9, <1>14, DeletesOne
  <2>2. f \notin harmed =>
            /\ queue[f].files \in Files /\ queue'[f].files \in Files
            /\ DOMAIN queue'[f].files \subseteq DOMAIN queue[f].files
            /\ \A j \in DOMAIN queue'[f].files : queue'[f].files[j] = queue[f].files[j]
    BY <1>2, <1>9, <1>14, <2>1, DeletesOne DEF Whole
  <2>3. Removing(f)' <=> Removing(f)
    BY <1>1, <1>8, <1>14 DEF Removing
  <2>4. f \notin harmed /\ ~Removing(f) => Left(f) /\ Kept(f)' = Kept(f)
    BY <1>1, <1>2, <1>11, <2>1 DEF Whole, Removing
  <2>5. Fading(f) /\ Kept(f)' = Kept(f) => Fading(f)'
    BY <1>14, <2>3 DEF Fading
  <2>6. f \notin harmed /\ Removing(f) =>
            \A h \in Fuzzers : Known(h, f)' = Known(h, f) => Executed(h, f)'
    <3> SUFFICES ASSUME f \notin harmed, Removing(f), NEW h \in Fuzzers, Known(h, f)' = Known(h, f)
                 PROVE  Executed(h, f)'
      OBVIOUS
    <3>1. Kept(f) = queue[f].files /\ Kept(f)' = queue'[f].files
      BY <1>12, <2>1 DEF Removing
    <3>2. Executed(h, f)
      BY DEF SessionInv
    <3>3. Fading(f)'
      BY <2>3 DEF Fading
    <3> QED  BY <1>1, <2>2, <3>1, <3>2, <3>3 DEF Executed
  <2>7. f \notin harmed => Whole(f)'
    <3> SUFFICES ASSUME f \notin harmed  PROVE Whole(f)'
      OBVIOUS
    <3>1. Whole(f)
      BY <1>2
    <3>2. Removing(f)' \/ Tidy(Kept(f))'
      <4>1. CASE Removing(f)
        BY <2>3, <4>1
      <4>2. CASE ~Removing(f)
        BY <2>4, <3>1, <4>2 DEF Whole, Tidy, Inputs
      <4> QED  BY <4>1, <4>2
    <3>3. Linking(f)'
      BY <1>14 DEF Linking, Running
    <3>4. work'[f] \subseteq Inputs /\ work'[f] \subseteq Range(Kept(f)')
      <4>1. CASE Removing(f)
        BY <1>1, <1>2, <4>1 DEF Begun, Removing
      <4>2. CASE ~Removing(f)
        BY <1>1, <2>4, <3>1, <4>2 DEF Whole
      <4> QED  BY <4>1, <4>2
    <3>5. /\ \A d \in {queue'[f], resume'[f]} : d.there => d.files \in Files
          /\ ~Fresh(f)' => Left(f)'
      BY <3>1, <1>1, <1>8, <2>1, <2>2 DEF Whole
    <3>6. Left(f)' => \A i \in DOMAIN queue'[f].files :
                i \in DOMAIN resume'[f].files /\ resume'[f].files[i] = queue'[f].files[i]
      BY <1>1, <1>8, <2>1, <2>2, <3>1 DEF Whole
    <3>7. Files' = Files
      BY DEF Files, Inputs
    <3> QED  BY <3>2, <3>3, <3>4, <3>5, <3>6, <3>7, <1>14 DEF Whole
  <2>8. f \notin harmed => \/ Kept(f)' = Kept(f) /\ (Fading(f) => Fading(f)')
                           \/ \A h \in Fuzzers : Known(h, f)' = Known(h, f) => Executed(h, f)'
    BY <2>4, <2>5, <2>6
  <2> QED  BY <1>1, <1>5, <1>6, <1>7, <1>10, <2>7, <2>8, MovingStep
<1> QED  BY <1>4, <1>13, <1>14

\* The deletion of _resume/ takes nothing that queue/ does not hold.
LEMMA NukeStep ==
    ASSUME SessionInv, NEW f \in Fuzzers, NukeResumeDir(f)  PROVE SessionInv'
<1> USE DEF At, Goes
<1>1. /\ phase[f] = "nuke" /\ DeleteStep(f, resume, "resume", "dry run")
      /\ UNCHANGED <<made, queue, synced, in_place_resume, entries, hand, work, harmed, ran, missed>>
  BY DEF NukeResumeDir, history
<1>2. Shapes /\ Begun(f) /\ (f \notin harmed => Whole(f)) /\ Made(resume[f])
  BY DEF SessionInv, Begun
<1>3. /\ DOMAIN resume' = Fuzzers /\ \A g \in Fuzzers \ {f} : resume'[g] = resume[g]
      /\ \/ Deletes(resume[f], resume'[f]) /\ UNCHANGED <<phase, sync>>
         \/ /\ resume[f] = NoDir \/ Bare(resume[f])
            /\ resume'[f] = NoDir
            /\ Moved(f, [d \in {"resume"} |-> "gone"])
            /\ phase' = [phase EXCEPT ![f] = "dry run"]
  BY <1>1, <1>2, NukeDoes
<1>4. /\ DOMAIN phase' = Fuzzers /\ DOMAIN sync' = Fuzzers
      /\ \A g \in Fuzzers \ {f} : phase'[g] = phase[g]
      /\ \/ phase'[f] = "nuke" /\ Deletes(resume[f], resume'[f])
         \/ phase'[f] = "dry run" /\ resume'[f] = NoDir
  BY <1>1, <1>2, <1>3 DEF Shapes, Moved
<1>5. Shapes'
  BY <1>1, <1>2, <1>3, <1>4 DEF Shapes
<1>6. \A g \in Fuzzers \ {f} : SameOwner(g)
  BY <1>1, <1>3, <1>4 DEF SameOwner
<1>7. MovingReaders(f)
  <2>1. \A p \in DOMAIN [d \in {"resume"} |-> "gone"] :
            [d \in {"resume"} |-> "gone"][p] \in {"queue", "resume", "gone"}
    OBVIOUS
  <2>2. sync' = sync \/ Moved(f, [d \in {"resume"} |-> "gone"])
    BY <1>3
  <2> QED  BY <1>1, <1>4, <2>1, <2>2 DEF MovingReaders
<1>8. Begun(f)'
  <2>1. Made(resume'[f])
    BY <1>2, <1>4, DirIs, DeletesOne
  <2>2. f \in made
    BY <1>1, <1>2 DEF Begun
  <2> QED  BY <1>1, <1>2, <1>4, <2>1, <2>2 DEF Begun, Fresh
<1>9. f \notin harmed => /\ Kept(f) = queue[f].files /\ Kept(f)' = Kept(f) /\ ~Fading(f)
                        /\ (phase'[f] = "dry run" => ~Left(f)')
  <2> SUFFICES ASSUME f \notin harmed
               PROVE  /\ Kept(f) = queue[f].files /\ Kept(f)' = Kept(f) /\ ~Fading(f)
                      /\ (phase'[f] = "dry run" => ~Left(f)')
    OBVIOUS
  <2>1. queue[f].there /\ queue'[f] = queue[f]
    BY <1>1, <1>2 DEF Whole, Linking
  <2>2. phase'[f] = "dry run" => ~Left(f)'
    BY <1>4, DirIs DEF Left
  <2>3. Kept(f) = queue[f].files /\ Kept(f)' = queue[f].files
    BY <1>1, <1>4, <2>1, <2>2 DEF Kept
  <2>4. ~Fading(f)
    BY <1>1 DEF Fading, Removing
  <2> QED  BY <2>2, <2>3, <2>4
<1>10. f \notin harmed => Whole(f)'
  <2> SUFFICES ASSUME f \notin harmed  PROVE Whole(f)'
    OBVIOUS
  <2>1. Whole(f) /\ ~Removing(f)
    BY <1>1, <1>2 DEF Removing
  <2>2. Tidy(Kept(f))'
    <3>1. Tidy(Kept(f)) /\ Kept(f)' = Kept(f)
      BY <2>1, <1>9 DEF Whole
    <3> QED  BY <3>1 DEF Tidy, Inputs
  <2>3. /\ queue[f].there /\ IsList(entries[f])
        /\ Holds(queue[f].files, entries[f], Len(entries[f])) /\ ToSet(entries[f]) \subseteq work[f]
        /\ resume[f].there => ReadFrom(resume[f].files, entries[f])
    BY <1>1, <2>1 DEF Whole, Linking
  <2>4. phase'[f] = "nuke" =>
            /\ resume'[f].files \in Files /\ ~resume'[f].state
            /\ ReadFrom(resume'[f].files, entries[f])
    <3> SUFFICES ASSUME phase'[f] = "nuke"
                 PROVE  /\ resume'[f].files \in Files /\ ~resume'[f].state
                        /\ ReadFrom(resume'[f].files, entries[f])
      OBVIOUS
    <3>1. resume[f].there /\ ~resume'[f].state
      BY <1>2, <1>4, DeletesOne
    <3>2. resume[f].files \in Files
      BY <2>1, <3>1 DEF Whole
    <3>3. /\ resume'[f].files \in Files /\ DOMAIN resume'[f].files \subseteq DOMAIN resume[f].files
          /\ \A j \in DOMAIN resume'[f].files : resume'[f].files[j] = resume[f].files[j]
      BY <1>2, <1>4, <3>2, DeletesOne
    <3> QED  BY <2>3, <3>1, <3>3 DEF ReadFrom
  <2>5. /\ queue'[f].there /\ IsList(entries[f])'
        /\ Holds(queue[f].files, entries[f], Len(entries[f]))'
        /\ ToSet(entries[f])' \subseteq work'[f]
    BY <1>1, <2>3 DEF IsList, Holds, Inputs
  <2>6. Linking(f)'
    <3>1. CASE phase'[f] = "nuke"
      <4>1. ReadFrom(resume[f].files, entries[f])' /\ ~resume'[f].state
        BY <1>1, <2>4, <3>1 DEF ReadFrom
      <4> QED  BY <2>5, <3>1, <4>1 DEF Linking, Running
    <3>2. CASE phase'[f] = "dry run"
      BY <1>9, <2>5, <3>2 DEF Linking, Running
    <3> QED  BY <1>4, <3>1, <3>2
  <2>7. \A d \in {queue'[f], resume'[f]} : d.there => d.files \in Files
    <3>1. ~NoDir.there
      BY DirIs
    <3>2. queue[f].there => queue[f].files \in Files
      BY <2>1 DEF Whole
    <3>3. resume'[f].there => resume'[f].files \in Files
      BY <1>4, <2>4, <3>1
    <3> QED  BY <1>1, <3>2, <3>3
  <2>8. Files' = Files
    BY DEF Files, Inputs
  <2>9. work'[f] \subseteq Inputs /\ work'[f] \subseteq Range(Kept(f)')
    BY <1>1, <1>9, <2>1 DEF Whole
  <2> QED  BY <1>4, <1>9, <2>2, <2>6, <2>7, <2>8, <2>9 DEF Whole
<1> QED  BY <1>1, <1>5, <1>6, <1>7, <1>8, <1>9, <1>10, MovingStep

\* Files in order are read into the list in the order of their numbers, the empty one left out.
LEMMA TidyInOrder ==
    ASSUME NEW files, Tidy(files)
    PROVE  LET es == InOrder(files)
           IN /\ es \in Seq(Inputs) /\ IsInjective(es) /\ ReadFrom(files, es)
              /\ 0 .. Len(es) - 1 \subseteq DOMAIN files
<1>1. PICK n \in Nat :
        /\ files \in [0 .. n - 1 -> Inputs \cup {Empty}]
        /\ \A i \in 0 .. n - 1 : files[i] = Empty => i = n - 1
        /\ \A i, j \in 0 .. n - 1 : files[i] = files[j] => i = j
  BY DEF Tidy
<1> DEFINE full == {i \in DOMAIN files : files[i] # Empty}
           m == IF n > 0 /\ files[n - 1] = Empty THEN n - 1 ELSE n
           nth(k) == CHOOSE i \in full : Cardinality({j \in full : j < i}) = k - 1
           es == [k \in 1 .. m |-> files[k - 1]]
<1>2. m \in Nat /\ m <= n /\ n <= m + 1
  BY <1>1
<1>3. full = 0 .. m - 1
  BY <1>1
<1>4. \A k \in Nat : Cardinality(0 .. k - 1) = k
  <2> SUFFICES ASSUME NEW k \in Nat  PROVE Cardinality(0 .. k - 1) = k
    OBVIOUS
  <2>1. Cardinality(0 .. k - 1) = IF 0 > k - 1 THEN 0 ELSE k - 1 - 0 + 1
    BY FS_Interval
  <2> QED  BY <2>1
<1> HIDE DEF m, full
<1>5. \A i \in full : {j \in full : j < i} = 0 .. i - 1 /\ i \in Nat
  BY <1>2, <1>3
<1>6. \A i \in full : Cardinality({j \in full : j < i}) = i
  BY <1>4, <1>5
<1>7. ASSUME NEW k \in 1 .. m  PROVE nth(k) = k - 1
  <2>1. k - 1 \in full /\ Cardinality({j \in full : j < k - 1}) = k - 1
    BY <1>2, <1>3, <1>6
  <2>2. \A i \in full : Cardinality({j \in full : j < i}) = k - 1 => i = k - 1
    BY <1>6
  <2> QED  BY <2>1, <2>2
<1>8. InOrder(files) = es
  <2>1. Cardinality(full) = m
    BY <1>2, <1>3, <1>4
  <2>2. InOrder(files) = [k \in 1 .. Cardinality(full) |-> files[nth(k)]]
    BY DEF InOrder, full
  <2> HIDE DEF nth
  <2> QED  BY <1>7, <2>1, <2>2
<1>9. \A k \in 1 .. m : k - 1 \in 0 .. n - 1 /\ files[k - 1] \in Inputs
  <2> SUFFICES ASSUME NEW k \in 1 .. m  PROVE k - 1 \in 0 .. n - 1 /\ files[k - 1] \in Inputs
    OBVIOUS
  <2>1. k - 1 \in full
    BY <1>2, <1>3
  <2> QED  BY <1>1, <1>2, <2>1 DEF full
<1>10. es \in Seq(Inputs) /\ Len(es) = m
  BY <1>2, <1>9
<1>11. IsInjective(es)
  BY <1>1, <1>2, <1>9 DEF IsInjective
<1>12. ReadFrom(files, es)
  <2> SUFFICES ASSUME NEW i \in DOMAIN files
               PROVE  \/ i < m /\ files[i] = es[i + 1]
                      \/ i = m /\ files[i] = Empty
    BY <1>10 DEF ReadFrom
  <2>1. i \in 0 .. n - 1
    BY <1>1
  <2>2. CASE i < m
    BY <1>2, <2>1, <2>2
  <2>3. CASE ~(i < m)
    <3>1. i = m /\ i \notin full
      BY <1>2, <1>3, <2>1, <2>3
    <3> QED  BY <3>1 DEF full
  <2> QED  BY <2>2, <2>3
<1>13. 0 .. Len(es) - 1 \subseteq DOMAIN files
  BY <1>1, <1>2, <1>10
<1> HIDE DEF es
<1> QED  BY <1>8, <1>10, <1>11, <1>12, <1>13

\* A start from seeds makes its directories: what readers remembered of f is of no account.
LEMMA AnewStep ==
    ASSUME SessionInv, NEW f \in Fuzzers, Mkdir(f), Fresh(f)  PROVE SessionInv'
<1> USE DEF At, Goes
<1>1. /\ phase[f] = "mkdir" /\ phase' = [phase EXCEPT ![f] = "read"]
      /\ queue' = [queue EXCEPT ![f] = Dir(NoFiles, TRUE)] /\ made' = made \cup {f}
      /\ UNCHANGED <<resume, synced, in_place_resume, entries, hand, work, ran>>
      /\ Anew(f)
  BY DEF Mkdir, Fresh
<1>2. Shapes /\ Begun(f) /\ \A h \in Fuzzers : Reading(h)
  BY DEF SessionInv
<1>3. /\ harmed' = IF Left(f) THEN harmed \cup {f} ELSE harmed \ {f}
      /\ missed' = [g \in Fuzzers |-> [missed[g] EXCEPT ![f] = @ \cup 0 .. synced[g][f] - 1]]
      /\ sync' = [g \in Fuzzers |-> IF sync[g] # NoSync /\ sync[g].party = f
                                  THEN [sync[g] EXCEPT !.got = {}] ELSE sync[g]]
  BY <1>1 DEF Anew, Left
<1>4. Shapes'
  BY <1>1, <1>2, <1>3 DEF Shapes
<1>5. /\ phase'[f] = "read" /\ queue'[f] = Dir(NoFiles, TRUE)
      /\ \A g \in Fuzzers \ {f} : phase'[g] = phase[g] /\ queue'[g] = queue[g]
  BY <1>1, <1>2 DEF Shapes
<1>6. \A g \in Fuzzers \ {f} : SameOwner(g) /\ (g \in harmed' <=> g \in harmed)
  BY <1>1, <1>3, <1>5 DEF SameOwner
<1>7. sync[f] = NoSync
  BY <1>1, <1>2 DEF Reading
<1>8. ASSUME NEW h \in Fuzzers
      PROVE  /\ sync'[h] = NoSync <=> sync[h] = NoSync
             /\ sync[h] # NoSync => /\ sync'[h] \in SyncRecs(h) /\ sync'[h].party = sync[h].party
                                    /\ sync'[h].min_accept = sync[h].min_accept
                                    /\ sync'[h].seen = sync[h].seen
                                    /\ sync'[h].got = IF sync[h].party = f THEN {} ELSE sync[h].got
  <2>1. CASE sync[h] # NoSync /\ sync[h].party = f
    <3>1. PICK r \in SyncRecs(h) : r = sync[h]
      BY <1>2, <2>1 DEF Reading
    <3>2. sync'[h] = [r EXCEPT !.got = {}]
      BY <1>3, <2>1, <3>1
    <3>3. /\ sync'[h] \in SyncRecs(h) /\ sync'[h].party = r.party /\ sync'[h].at = r.at
          /\ sync'[h].min_accept = r.min_accept /\ sync'[h].seen = r.seen /\ sync'[h].got = {}
      BY <3>1, <3>2 DEF SyncRecs
    <3>4. sync'[h] # NoSync
      BY <3>3 DEF SyncRecs, NoSync
    <3> QED  BY <2>1, <3>1, <3>3, <3>4
  <2>2. CASE ~(sync[h] # NoSync /\ sync[h].party = f)
    <3>1. sync'[h] = sync[h]
      BY <1>3, <2>2
    <3> QED  BY <1>2, <2>2, <3>1 DEF Reading
  <2> QED  BY <2>1, <2>2
<1>9. \A h \in Fuzzers : Reading(h)'
  <2> SUFFICES ASSUME NEW h \in Fuzzers  PROVE Reading(h)'
    OBVIOUS
  <2>1. Reading(h) /\ synced'[h] = synced[h]
    BY <1>1, <1>2
  <2>2. (sync[h] # NoSync \/ phase'[h] = "sync") => phase'[h] = phase[h]
    BY <1>5, <1>7
  <2>3. NoSync' = NoSync /\ SyncRecs(h)' = SyncRecs(h)
    BY DEF NoSync, SyncRecs
  <2> QED  BY <1>8, <2>1, <2>2, <2>3 DEF Reading
<1>10. \A h \in Fuzzers, g \in Fuzzers \ {f} : Known(h, g)' = Known(h, g)
  <2> SUFFICES ASSUME NEW h \in Fuzzers, NEW g \in Fuzzers \ {f}  PROVE Known(h, g)' = Known(h, g)
    OBVIOUS
  <2>1. missed'[h][g] = missed[h][g] /\ synced'[h] = synced[h]
    BY <1>1, <1>2, <1>3 DEF Shapes
  <2> QED  BY <1>8, <2>1 DEF Known, NoSync
<1>11. \A h \in Fuzzers : Known(h, f)' = {}
  <2> SUFFICES ASSUME NEW h \in Fuzzers  PROVE Known(h, f)' = {}
    OBVIOUS
  <2>1. /\ missed'[h][f] = missed[h][f] \cup 0 .. synced[h][f] - 1
        /\ synced'[h][f] = synced[h][f]
    BY <1>1, <1>2, <1>3 DEF Shapes
  <2> QED  BY <1>8, <2>1 DEF Known, NoSync
<1>12. \A h \in Fuzzers, g \in Fuzzers \ {f} : g \notin harmed => Executed(h, g)'
  BY <1>1, <1>6, <1>10, OwnerStays, ExecutedStays DEF SessionInv
<1>13. \A h \in Fuzzers : Executed(h, f)'
  BY <1>11 DEF Executed
<1>14. Begun(f)'
  <2>1. Made(Dir(NoFiles, TRUE))
    BY DirIs
  <2> QED  BY <1>1, <1>2, <1>5, <2>1 DEF Begun, Fresh, Dir, NoFiles, Empty
<1>15. f \notin harmed' => Whole(f)'
  <2> SUFFICES ASSUME f \notin harmed'  PROVE Whole(f)'
    OBVIOUS
  <2>1. ~Left(f) /\ ~Left(f)' /\ Fresh(f)' /\ work'[f] = {}
    BY <1>1, <1>2, <1>3 DEF Left, Fresh, Begun
  <2>2. queue'[f].there /\ queue'[f].files = NoFiles
    BY <1>5, DirIs
  <2>3. Kept(f)' = NoFiles
    BY <2>1, <2>2 DEF Kept
  <2>4. Tidy(Kept(f))'
    <3>1. Tidy(NoFiles)
      BY NoFilesIs
    <3> QED  BY <2>3, <3>1 DEF Tidy, Inputs
  <2>5. Linking(f)'
    BY <1>5 DEF Linking, Running
  <2>6. resume'[f].there => resume'[f].files = NoFiles
    BY <1>1, <1>2, <2>1, MadeIs DEF Left, Begun
  <2>7. \A d \in {queue'[f], resume'[f]} : d.there => d.files \in Files
    BY <2>2, <2>6, NoFilesIs
  <2>8. Files' = Files
    BY DEF Files, Inputs
  <2> QED  BY <1>5, <2>1, <2>4, <2>5, <2>7, <2>8 DEF Whole
<1> QED  BY <1>4, <1>6, <1>9, <1>12, <1>13, <1>14, <1>15, StepOf

\* A start in place makes them: _resume/ is what it goes on with.
LEMMA MkdirInPlaceStep ==
    ASSUME SessionInv, NEW f \in Fuzzers, Mkdir(f), ~Fresh(f)  PROVE SessionInv'
<1> USE DEF At, Goes
<1>1. /\ phase[f] = "mkdir" /\ phase' = [phase EXCEPT ![f] = "read"]
      /\ queue' = [queue EXCEPT ![f] = Dir(NoFiles, TRUE)] /\ made' = made \cup {f}
      /\ UNCHANGED <<resume, synced, in_place_resume, entries, hand, work, ran, sync, harmed, missed>>
  BY DEF Mkdir, Fresh
<1>2. Shapes /\ Begun(f) /\ Reading(f) /\ (f \notin harmed => Whole(f))
  BY DEF SessionInv
<1>3. Shapes'
  BY <1>1, <1>2 DEF Shapes
<1>4. phase'[f] = "read" /\ queue'[f] = Dir(NoFiles, TRUE) /\ queue[f] = NoDir
  BY <1>1, <1>2 DEF Shapes, Begun
<1>5. \A g \in Fuzzers \ {f} : SameOwner(g)
  BY <1>1, <1>2 DEF Shapes, SameOwner
<1>6. QuietReaders(f)
  BY <1>1, <1>2, <1>4 DEF QuietReaders, Shapes, Reading
<1>7. queue'[f].there /\ queue'[f].files = NoFiles /\ ~queue[f].there
  BY <1>4, DirIs
<1>8. (Left(f)' <=> Left(f)) /\ ~Fresh(f)'
  BY <1>1 DEF Left, Fresh
<1>9. Kept(f)' = Kept(f)
  BY <1>1, <1>4, <1>7, <1>8 DEF Kept
<1>10. Fading(f) => Fading(f)'
  BY <1>1, <1>4, <1>8, <1>9 DEF Fading, Removing
<1>11. Begun(f)'
  <2>1. Made(Dir(NoFiles, TRUE))
    BY DirIs
  <2> QED  BY <1>1, <1>2, <1>4, <1>8, <2>1 DEF Begun, Dir, NoFiles, Empty
<1>12. f \notin harmed => Whole(f)'
  <2> SUFFICES ASSUME f \notin harmed  PROVE Whole(f)'
    OBVIOUS
  <2>1. Whole(f) /\ ~Removing(f)
    BY <1>1, <1>2 DEF Removing
  <2>2. Tidy(Kept(f))'
    <3>1. Tidy(Kept(f))
      BY <2>1 DEF Whole
    <3> QED  BY <1>9, <3>1 DEF Tidy, Inputs
  <2>3. Linking(f)'
    BY <1>4 DEF Linking, Running
  <2>4. \A d \in {queue'[f], resume'[f]} : d.there => d.files \in Files
    BY <1>1, <1>7, <2>1, NoFilesIs DEF Whole
  <2>5. Files' = Files
    BY DEF Files, Inputs
  <2>6. DOMAIN queue'[f].files = {}
    BY <1>7, NoFilesIs
  <2> QED  BY <1>1, <1>4, <1>8, <1>9, <2>1, <2>2, <2>3, <2>4, <2>5, <2>6 DEF Whole
<1> QED  BY <1>1, <1>3, <1>5, <1>6, <1>9, <1>10, <1>11, <1>12, QuietStep

\* read_testcases fills the list, or the fuzzer gives up.
LEMMA ReadStep ==
    ASSUME SessionInv, SessionAssumption, NEW f \in Fuzzers, ReadTestcases(f)  PROVE SessionInv'
<1> USE DEF At, Goes
<1> DEFINE found == IF ~in_place_resume[f] THEN Seeds
                    ELSE IF resume[f].there THEN InOrder(resume[f].files) ELSE <<>>
<1>1. /\ phase[f] = "read" /\ phase' = [phase EXCEPT ![f] = IF found = <<>> THEN "off" ELSE "pivot"]
      /\ entries' = [entries EXCEPT ![f] = found]
      /\ UNCHANGED <<made, queue, resume, synced, in_place_resume, hand, sync, work, harmed, ran, missed>>
  BY DEF ReadTestcases, disk, history
<1>2. Shapes /\ Begun(f) /\ Reading(f) /\ (f \notin harmed => Whole(f))
  BY DEF SessionInv
<1>3. Fresh(f) => found = Seeds
  BY DEF Fresh
<1>4. ~Fresh(f) => found = IF resume[f].there THEN InOrder(resume[f].files) ELSE <<>>
  BY DEF Fresh
<1> HIDE DEF found
<1>5. Shapes'
  BY <1>1, <1>2 DEF Shapes
<1>6. entries'[f] = found /\ phase'[f] = IF found = <<>> THEN "off" ELSE "pivot"
  BY <1>1, <1>2 DEF Shapes
<1>7. \A g \in Fuzzers \ {f} : SameOwner(g)
  BY <1>1, <1>2 DEF Shapes, SameOwner
<1>8. QuietReaders(f)
  BY <1>1, <1>2, <1>6 DEF QuietReaders, Shapes, Reading
<1>9. (Left(f)' <=> Left(f)) /\ (Fresh(f)' <=> Fresh(f)) /\ Kept(f)' = Kept(f)
  BY <1>1, <1>6 DEF Left, Kept, Fresh
<1>10. Begun(f)'
  <2>1. phase'[f] \in {"off", "pivot"} /\ f \in made
    BY <1>1, <1>2, <1>6 DEF Begun
  <2>2. queue[f].there
    BY <1>1, <1>2, DirIs DEF Begun
  <2> QED  BY <1>1, <1>2, <2>1, <2>2 DEF Begun, Running
<1>11. /\ queue[f].there /\ queue[f].files = NoFiles /\ (~Left(f) => Kept(f) = NoFiles)
       /\ (Left(f) => Kept(f) = resume[f].files)
  BY <1>1, <1>2, DirIs DEF Begun, Kept
\* In place, there is something to read only in what the start went on with.
<1>12. f \notin harmed /\ ~Fresh(f) /\ found # <<>> =>
            /\ Left(f) /\ DOMAIN Kept(f) # {} /\ IsList(found) /\ ReadFrom(resume[f].files, found)
            /\ 0 .. Len(found) - 1 \subseteq DOMAIN resume[f].files
  <2> SUFFICES ASSUME f \notin harmed, ~Fresh(f), found # <<>>
               PROVE  /\ Left(f) /\ DOMAIN Kept(f) # {} /\ IsList(found) /\ ReadFrom(resume[f].files, found)
                      /\ 0 .. Len(found) - 1 \subseteq DOMAIN resume[f].files
    OBVIOUS
  <2>1. resume[f].there /\ found = InOrder(resume[f].files)
    BY <1>4
  <2>2. Tidy(resume[f].files)
    <3>1. CASE Left(f)
      BY <1>1, <1>2, <1>11, <3>1 DEF Whole, Removing
    <3>2. CASE ~Left(f)
      BY <2>1, <3>2, NoFilesIs DEF Left, Bare
    <3> QED  BY <3>1, <3>2
  <2>3. /\ found \in Seq(Inputs) /\ IsInjective(found) /\ ReadFrom(resume[f].files, found)
        /\ 0 .. Len(found) - 1 \subseteq DOMAIN resume[f].files
    BY <2>1, <2>2, TidyInOrder
  <2>4. Len(found) > 0 /\ 0 \in DOMAIN resume[f].files
    BY <2>3
  <2>5. Left(f)
    BY <2>1, <2>4, NoFilesIs DEF Left, Bare
  <2> QED  BY <1>11, <2>3, <2>4, <2>5 DEF IsList
<1>13. f \notin harmed => (Fading(f) => Fading(f)')
  <2> SUFFICES ASSUME f \notin harmed, Fading(f)  PROVE Fading(f)'
    OBVIOUS
  <2>1. DOMAIN Kept(f) = {} /\ ~Fresh(f)
    BY <1>1 DEF Fading, Removing
  <2>2. phase'[f] = "off"
    BY <1>6, <1>12, <2>1
  <2> QED  BY <1>9, <2>1, <2>2 DEF Fading
<1>14. f \notin harmed => Whole(f)'
  <2> SUFFICES ASSUME f \notin harmed  PROVE Whole(f)'
    OBVIOUS
  <2>1. Whole(f) /\ ~Removing(f)
    BY <1>1, <1>2 DEF Removing
  <2>2. Tidy(Kept(f))'
    <3>1. Tidy(Kept(f))
      BY <2>1 DEF Whole
    <3> QED  BY <1>9, <3>1 DEF Tidy, Inputs
  <2>3. phase'[f] = "pivot" => Linking(f)'
    <3> SUFFICES ASSUME phase'[f] = "pivot"  PROVE Linking(f)'
      OBVIOUS
    <3>1. found # <<>>
      BY <1>6
    <3>2. IsList(found)
      <4>1. CASE Fresh(f)
        <5>1. Seeds \in Seq(Inputs) /\ Seeds # <<>> /\ IsInjective(Seeds)
          BY DEF SessionAssumption
        <5> QED  BY <1>3, <4>1, <5>1 DEF IsList
      <4>2. CASE ~Fresh(f)
        BY <1>12, <3>1, <4>2
      <4> QED  BY <4>1, <4>2
    <3>3. 0 \in 0 .. Len(found) /\ Holds(NoFiles, found, 0) /\ \A i \in 1 .. 0 : found[i] \in work[f]
      BY <3>2 DEF IsList, Holds, NoFiles
    <3>4. /\ queue'[f].there /\ IsList(entries[f])' /\ entries'[f] = found
          /\ \E k \in 0 .. Len(entries'[f]) :
               Holds(queue'[f].files, entries'[f], k) /\ \A i \in 1 .. k : entries'[f][i] \in work'[f]
      BY <1>1, <1>6, <1>11, <3>2, <3>3 DEF IsList
    <3>5. IF Fresh(f)' THEN ~Left(f)'
          ELSE /\ Left(f)' /\ ReadFrom(resume[f].files, entries[f])'
               /\ 0 .. Len(entries'[f]) - 1 \subseteq DOMAIN resume'[f].files
      <4>1. CASE Fresh(f)
        BY <1>1, <1>9, <2>1, <4>1 DEF Whole
      <4>2. CASE ~Fresh(f)
        BY <1>1, <1>6, <1>9, <1>12, <3>1, <4>2 DEF ReadFrom
      <4> QED  BY <4>1, <4>2
    <3> QED  BY <3>4, <3>5 DEF Linking, Running, Holds, Inputs
  <2>4. phase'[f] = "off" => Linking(f)'
    BY DEF Linking, Running
  <2>5. Files' = Files
    BY DEF Files, Inputs
  <2> QED  BY <1>1, <1>6, <1>9, <2>1, <2>2, <2>3, <2>4, <2>5 DEF Whole
<1> QED  BY <1>1, <1>5, <1>7, <1>8, <1>9, <1>10, <1>13, <1>14, QuietStep

\* Files, and one more.
Put(files, i, x) == [j \in DOMAIN files \cup {i} |-> IF j = i THEN x ELSE files[j]]

\* A directory with one file more, or one file filled.
LEMMA WithIs ==
    ASSUME NEW d, Made(d), d.there, NEW i, NEW x
    PROVE  /\ Made(With(d, i, x)) /\ With(d, i, x).there
           /\ With(d, i, x).files = Put(d.files, i, x)
<1> DEFINE F == Put(d.files, i, x)
<1>1. With(d, i, x) = [d EXCEPT !.files = F]
  BY DEF With, Put
<1> HIDE DEF F
<1>2. Made(With(d, i, x)) /\ With(d, i, x) = Dir(F, d.state) /\ d.state \in BOOLEAN
  <2>1. Made([d EXCEPT !.files = F]) /\ [d EXCEPT !.files = F] = Dir(F, d.state)
    BY DirChanges
  <2>2. d.state \in BOOLEAN
    BY MadeIs
  <2> QED  BY <1>1, <2>1, <2>2, Zenon
<1>3. Dir(F, d.state).there /\ Dir(F, d.state).files = F
  BY <1>2, DirIs
<1> QED  BY <1>2, <1>3 DEF F

\* What d holds of the list, and a file numbered k.
OneMore(d, e, es, k, x) ==
    /\ e.files \in [0 .. k -> Inputs \cup {Empty}] /\ e.files[k] = x
    /\ \A i \in 0 .. k - 1 : e.files[i] = d.files[i] /\ e.files[i] = es[i + 1]
    /\ DOMAIN d.files = 0 .. k - 1 /\ DOMAIN e.files = 0 .. k

\* A directory that holds the first k of the list and is given number k.
LEMMA NextNumber ==
    ASSUME NEW d, Made(d), d.there, NEW es \in Seq(Inputs), NEW k \in Nat,
           NEW x \in Inputs \cup {Empty}, Holds(d.files, es, k)
    PROVE  OneMore(d, With(d, k, x), es, k, x)
<1> DEFINE F == d.files  G == With(d, k, x).files
<1>1. DOMAIN F = 0 .. k - 1 /\ F \in [0 .. k - 1 -> Inputs \cup {Empty}]
  BY DEF Holds
<1>2. DOMAIN F \cup {k} = 0 .. k
  BY <1>1
<1>3. G = [j \in DOMAIN F \cup {k} |-> IF j = k THEN x ELSE F[j]]
  <2>1. With(d, k, x).files = Put(d.files, k, x)
    BY WithIs
  <2> QED  BY <2>1 DEF Put
<1>4. \A i \in 0 .. k - 1 : F[i] = es[i + 1]
  BY DEF Holds
<1> HIDE DEF F, G
<1>5. G = [j \in 0 .. k |-> IF j = k THEN x ELSE F[j]]
  BY <1>2, <1>3
<1>6. G \in [0 .. k -> Inputs \cup {Empty}]
  BY <1>1, <1>5
<1>7. G[k] = x /\ \A i \in 0 .. k - 1 : G[i] = F[i]
  BY <1>5
<1> QED  BY <1>1, <1>4, <1>6, <1>7 DEF F, G, OneMore

\* It is a directory still.
LEMMA WithMade ==
    ASSUME NEW d, Made(d), d.there, NEW i, NEW x, NEW e, e = With(d, i, x)
    PROVE  Made(e) /\ e.there
BY WithIs

\* It holds the first k + 1 when what it is given is the next of the list.
LEMMA HoldsNext ==
    ASSUME NEW files, NEW es, NEW k \in Nat, files \in [0 .. k -> Inputs \cup {Empty}],
           \A i \in 0 .. k : files[i] = es[i + 1]
    PROVE  Holds(files, es, k + 1)
<1>1. k + 1 - 1 = k
  OBVIOUS
<1> QED  BY <1>1 DEF Holds

\* There are j numbers below j.
LEMMA CountBelow ==
    ASSUME NEW j \in Nat  PROVE Cardinality(0 .. j - 1) = j
<1>1. 0 \in Int /\ j - 1 \in Int
  OBVIOUS
<1>2. Cardinality(0 .. j - 1) = IF 0 > j - 1 THEN 0 ELSE j - 1 - 0 + 1
  BY <1>1, FS_Interval
<1> QED  BY <1>2

\* What holds the first of a list that has nothing twice is in order.
LEMMA HoldsLess ==
    ASSUME NEW es \in Seq(Inputs), IsInjective(es), NEW k \in 0 .. Len(es), NEW files, Holds(files, es, k)
    PROVE  Tidy(files) /\ files \in Files /\ DOMAIN files = 0 .. k - 1
           /\ \A i \in 0 .. k - 1 : files[i] = es[i + 1] /\ files[i] \in Inputs
<1>1. \A i \in 0 .. k - 1 : files[i] = es[i + 1] /\ files[i] \in Inputs /\ i + 1 \in DOMAIN es
  BY DEF Holds
<1>2. files \in [0 .. k - 1 -> Inputs \cup {Empty}] /\ k \in Nat
  BY DEF Holds
<1>3. \A i, j \in 0 .. k - 1 : files[i] = files[j] => i = j
  <2>1. TAKE i, j \in 0 .. k - 1
  <2>2. HAVE files[i] = files[j]
  <2>3. es[i + 1] = es[j + 1] /\ i + 1 \in DOMAIN es /\ j + 1 \in DOMAIN es
    BY <1>1, <2>2
  <2>4. i + 1 = j + 1
    BY <2>3 DEF IsInjective
  <2> QED  BY <2>4
<1>4. SessionAssumption => Empty \notin Inputs
  BY DEF SessionAssumption, Empty
<1>5. Tidy(files)
  BY <1>1, <1>2, <1>3, <1>4, SessionAssumption DEF Tidy
<1>6. 0 .. k - 1 \in SUBSET Nat /\ IsFiniteSet(0 .. k - 1)
  BY FS_Interval
<1> QED  BY <1>1, <1>2, <1>5, <1>6 DEF Files

\* pivot_inputs links the next entry: the number it gets is the one it had.
LEMMA PivotStep ==
    ASSUME SessionInv, SessionAssumption, NEW f \in Fuzzers, Pivot(f)  PROVE SessionInv'
<1> USE DEF At, Goes
<1> DEFINE k == Linked(f)  x == entries[f][k + 1]  es == entries[f]
<1>1. /\ phase[f] = "pivot" /\ k < Len(es)
      /\ queue' = [queue EXCEPT ![f] = With(queue[f], k, x)]
      /\ work' = [work EXCEPT ![f] = work[f] \cup {x}]
      /\ UNCHANGED <<made, resume, synced, phase, in_place_resume, entries, hand, sync, harmed, ran, missed>>
  BY DEF Pivot, memory
<1>2. Shapes /\ Begun(f) /\ Reading(f) /\ (f \notin harmed => Whole(f)) /\ Made(queue[f])
      /\ queue[f].there
  BY <1>1 DEF SessionInv, Begun
<1> HIDE DEF k, x, es
<1>3. Shapes'
  BY <1>1, <1>2 DEF Shapes
<1>4. /\ queue'[f] = With(queue[f], k, x) /\ work'[f] = work[f] \cup {x}
      /\ phase'[f] = "pivot"
  BY <1>1, <1>2 DEF Shapes
<1>5. \A g \in Fuzzers \ {f} : SameOwner(g)
  BY <1>1, <1>2 DEF Shapes, SameOwner
<1>6. QuietReaders(f)
  BY <1>1 DEF QuietReaders
<1>7. (Left(f)' <=> Left(f)) /\ (Fresh(f)' <=> Fresh(f))
  BY <1>1 DEF Left, Fresh
<1>8. Made(queue'[f]) /\ queue'[f].there
  BY <1>2, <1>4, WithMade
<1>9. Begun(f)'
  BY <1>1, <1>2, <1>4, <1>7, <1>8 DEF Begun, Running
<1>10. SUFFICES ASSUME f \notin harmed
                PROVE  /\ Whole(f)'
                       /\ \/ Kept(f)' = Kept(f) /\ (Fading(f) => Fading(f)')
                          \/ /\ ~Fading(f) /\ DOMAIN Kept(f) \subseteq DOMAIN Kept(f)'
                             /\ \A i \in DOMAIN Kept(f) : Kept(f)[i] # Empty => Kept(f)'[i] = Kept(f)[i]
  BY <1>1, <1>3, <1>5, <1>6, <1>9, QuietStep
<1>11. /\ Whole(f) /\ IsList(es) /\ es \in Seq(Inputs) /\ ~Removing(f) /\ ~Fading(f)
       /\ IF Fresh(f) THEN ~Left(f)
          ELSE /\ Left(f) /\ ReadFrom(resume[f].files, es)
               /\ 0 .. Len(es) - 1 \subseteq DOMAIN resume[f].files
  <2>1. Whole(f) /\ Linking(f)
    BY <1>2, <1>10 DEF Whole
  <2>2. ~Removing(f) /\ ~Fading(f)
    BY <1>1 DEF Removing, Fading
  <2>3. IsList(es)
    BY <1>1, <2>1 DEF Linking, es
  <2>4. IF Fresh(f) THEN ~Left(f)
        ELSE /\ Left(f) /\ ReadFrom(resume[f].files, es)
             /\ 0 .. Len(es) - 1 \subseteq DOMAIN resume[f].files
    BY <1>1, <2>1 DEF Linking, es
  <2> QED  BY <2>1, <2>2, <2>3, <2>4 DEF IsList
<1>12. /\ k \in 0 .. Len(es) - 1 /\ Holds(queue[f].files, es, k)
       /\ \A i \in 1 .. k : es[i] \in work[f]
  <2>1. PICK j \in 0 .. Len(es) :
          Holds(queue[f].files, es, j) /\ \A i \in 1 .. j : es[i] \in work[f]
    BY <1>1, <1>11 DEF Whole, Linking, es
  <2>2. DOMAIN queue[f].files = 0 .. j - 1 /\ j \in Nat /\ Len(es) \in Nat
    BY <1>11, <2>1 DEF Holds
  <2>3. Cardinality(0 .. j - 1) = j
    BY <2>2, CountBelow
  <2>4. k = j
    BY <2>2, <2>3 DEF Linked, k
  <2> QED  BY <1>1, <2>1, <2>2, <2>4
<1>13. x = es[k + 1] /\ x \in Inputs
  BY <1>11, <1>12 DEF x, es
<1>14. /\ DOMAIN queue[f].files = 0 .. k - 1 /\ DOMAIN queue'[f].files = 0 .. k
       /\ \A i \in 0 .. k - 1 : queue'[f].files[i] = queue[f].files[i]
       /\ Holds(queue'[f].files, es, k + 1)
  <2>1. k \in Nat /\ x \in Inputs \cup {Empty}
    BY <1>12, <1>13
  <2>2. /\ queue'[f].files \in [0 .. k -> Inputs \cup {Empty}] /\ queue'[f].files[k] = x
        /\ \A i \in 0 .. k - 1 : queue'[f].files[i] = queue[f].files[i] /\ queue'[f].files[i] = es[i + 1]
        /\ DOMAIN queue[f].files = 0 .. k - 1 /\ DOMAIN queue'[f].files = 0 .. k
    <3>1. OneMore(queue[f], With(queue[f], k, x), es, k, x)
      BY <1>2, <1>11, <1>12, <2>1, NextNumber
    <3>2. OneMore(queue[f], queue'[f], es, k, x)
      BY <1>4, <3>1
    <3> QED  BY <3>2 DEF OneMore
  <2>4. \A i \in 0 .. k : queue'[f].files[i] = es[i + 1]
    BY <1>13, <2>1, <2>2
  <2>5. Holds(queue'[f].files, es, k + 1)
    BY <2>1, <2>2, <2>4, HoldsNext
  <2> QED  BY <2>2, <2>5
<1>15. k + 1 \in 0 .. Len(es) /\ Tidy(queue'[f].files) /\ queue'[f].files \in Files
  <2>1. k + 1 \in 0 .. Len(es)
    BY <1>11, <1>12
  <2> QED  BY <1>11, <1>14, <2>1, HoldsLess DEF IsList
<1>16. Linking(f)'
  <2>1. \A i \in 1 .. k + 1 : es[i] \in work'[f]
    BY <1>4, <1>12, <1>13
  <2>2. es = entries'[f]
    BY <1>1 DEF es
  <2>3. \E j \in 0 .. Len(entries'[f]) :
             Holds(queue'[f].files, entries'[f], j) /\ \A i \in 1 .. j : entries'[f][i] \in work'[f]
    BY <1>14, <1>15, <2>1, <2>2
  <2>4. IsList(entries'[f]) /\ (resume' = resume)
    BY <1>1, <1>11, <2>2
  <2>5. IF Fresh(f)' THEN ~Left(f)'
        ELSE /\ Left(f)' /\ ReadFrom(resume'[f].files, entries'[f])
             /\ 0 .. Len(entries'[f]) - 1 \subseteq DOMAIN resume'[f].files
    BY <1>7, <1>11, <2>2, <2>4
  <2> QED  BY <1>4, <1>8, <2>3, <2>4, <2>5 DEF Linking, Running, IsList, Holds, ReadFrom
<1>17. Files' = Files
  BY DEF Files, Inputs
<1>18. \A d \in {queue'[f], resume'[f]} : d.there => d.files \in Files
  BY <1>1, <1>11, <1>15 DEF Whole
<1>19. CASE Fresh(f)
  <2>1. Kept(f) = queue[f].files /\ Kept(f)' = queue'[f].files /\ ~Left(f)'
    BY <1>2, <1>7, <1>8, <1>11, <1>19 DEF Kept
  <2>2. work'[f] \subseteq Inputs /\ work'[f] \subseteq Range(Kept(f)')
    <3>1. work[f] \subseteq Inputs /\ work[f] \subseteq Range(queue[f].files)
      BY <1>11, <2>1 DEF Whole
    <3>2. queue'[f].files[k] = x /\ k \in 0 .. k /\ \A i \in 0 .. k - 1 : i \in 0 .. k
      BY <1>12, <1>13, <1>14 DEF Holds
    <3> QED  BY <1>4, <1>13, <1>14, <2>1, <3>1, <3>2 DEF Range
  <2>3. Tidy(Kept(f))'
    BY <1>15, <2>1 DEF Tidy, Inputs
  <2>4. Whole(f)'
    BY <1>4, <1>7, <1>16, <1>17, <1>18, <2>1, <2>2, <2>3 DEF Whole
  <2>5. DOMAIN Kept(f) \subseteq DOMAIN Kept(f)'
    BY <1>12, <1>14, <2>1
  <2> QED  BY <1>11, <1>14, <2>1, <2>4, <2>5
<1>20. CASE ~Fresh(f)
  <2>1. Kept(f) = resume[f].files /\ Kept(f)' = resume[f].files
    BY <1>1, <1>4, <1>7, <1>11, <1>20 DEF Kept
  <2>2. resume[f].files[k] = x /\ k \in DOMAIN resume[f].files
    <3>1. k \in DOMAIN resume[f].files /\ ~(k = Len(es))
      BY <1>11, <1>12, <1>20
    <3> QED  BY <1>11, <1>13, <1>20, <3>1 DEF ReadFrom
  <2>3. work'[f] \subseteq Inputs /\ work'[f] \subseteq Range(Kept(f)')
    BY <1>4, <1>11, <1>13, <2>1, <2>2 DEF Range, Whole
  <2>4. Tidy(Kept(f))'
    <3>1. Tidy(Kept(f))
      BY <1>11 DEF Whole
    <3> QED  BY <2>1, <3>1 DEF Tidy, Inputs
  <2>5. \A i \in DOMAIN queue'[f].files :
            i \in DOMAIN resume[f].files /\ resume[f].files[i] = queue'[f].files[i]
    <3> SUFFICES ASSUME NEW i \in 0 .. k
                 PROVE  i \in DOMAIN resume[f].files /\ resume[f].files[i] = queue'[f].files[i]
      BY <1>14
    <3>1. i \in 0 .. Len(es) - 1 /\ i < Len(es) /\ i # Len(es) /\ i \in 0 .. k + 1 - 1
      BY <1>11, <1>12
    <3>2. queue'[f].files[i] = es[i + 1]
      BY <1>14, <3>1 DEF Holds
    <3> QED  BY <1>11, <1>20, <3>1, <3>2 DEF ReadFrom
  <2>6. Whole(f)'
    BY <1>1, <1>4, <1>7, <1>16, <1>17, <1>18, <1>20, <2>3, <2>4, <2>5 DEF Whole
  <2> QED  BY <1>11, <2>1, <2>6
<1> QED  BY <1>19, <1>20

\* All entries are linked: _resume/ may go.
LEMMA EndPivotStep ==
    ASSUME SessionInv, SessionAssumption, NEW f \in Fuzzers, EndPivot(f)  PROVE SessionInv'
<1> USE DEF At, Goes
<1> DEFINE es == entries[f]
<1>1. /\ phase[f] = "pivot" /\ Linked(f) = Len(es)
      /\ phase' = [phase EXCEPT ![f] = IF in_place_resume[f] THEN "nuke" ELSE "dry run"]
      /\ UNCHANGED <<made, queue, resume, synced, in_place_resume, entries, hand, sync, work, harmed, ran, missed>>
  BY DEF EndPivot, disk, memory, history
<1>2. Shapes /\ Begun(f) /\ Reading(f) /\ (f \notin harmed => Whole(f)) /\ queue[f].there
  BY <1>1 DEF SessionInv, Begun
<1> HIDE DEF es
<1>3. Shapes'
  BY <1>1, <1>2 DEF Shapes
<1>4. phase'[f] = IF Fresh(f) THEN "dry run" ELSE "nuke"
  BY <1>1, <1>2 DEF Shapes, Fresh
<1>5. \A g \in Fuzzers \ {f} : SameOwner(g)
  BY <1>1, <1>2 DEF Shapes, SameOwner
<1>6. QuietReaders(f)
  BY <1>1, <1>2, <1>4 DEF QuietReaders, Shapes, Reading
<1>7. (Left(f)' <=> Left(f)) /\ (Fresh(f)' <=> Fresh(f))
  BY <1>1 DEF Left, Fresh
<1>8. Begun(f)'
  <2>1. f \in made
    BY <1>1, <1>2 DEF Begun
  <2>2. CASE Fresh(f)
    <3>1. phase'[f] = "dry run" /\ Fresh(f)'
      BY <1>4, <1>7, <2>2
    <3> QED  BY <1>1, <1>2, <2>1, <3>1 DEF Begun
  <2>3. CASE ~Fresh(f)
    <3>1. phase'[f] = "nuke" /\ ~Fresh(f)'
      BY <1>4, <1>7, <2>3
    <3> QED  BY <1>1, <1>2, <2>1, <3>1 DEF Begun
  <2> QED  BY <2>2, <2>3
<1>9. SUFFICES ASSUME f \notin harmed
               PROVE  /\ Whole(f)'
                      /\ \/ Kept(f)' = Kept(f) /\ (Fading(f) => Fading(f)')
                         \/ \A h \in Fuzzers : Known(h, f)' = Known(h, f) => Executed(h, f)'
  <2>1. MovingReaders(f)
    <3>1. phase'[f] # "sync"
      BY <1>4
    <3> QED  BY <1>1, <1>6, <3>1 DEF MovingReaders, QuietReaders
  <2> QED  BY <1>1, <1>3, <1>5, <1>8, <1>9, <2>1, MovingStep
<1>10. /\ Whole(f) /\ IsList(es) /\ es \in Seq(Inputs) /\ ~Removing(f) /\ ~Fading(f)
       /\ IF Fresh(f) THEN ~Left(f)
          ELSE /\ Left(f) /\ ReadFrom(resume[f].files, es)
               /\ 0 .. Len(es) - 1 \subseteq DOMAIN resume[f].files
  <2>1. Whole(f) /\ Linking(f)
    BY <1>2, <1>9 DEF Whole
  <2>2. ~Removing(f) /\ ~Fading(f)
    BY <1>1 DEF Removing, Fading
  <2>3. IsList(es)
    BY <1>1, <2>1 DEF Linking, es
  <2>4. IF Fresh(f) THEN ~Left(f)
        ELSE /\ Left(f) /\ ReadFrom(resume[f].files, es)
             /\ 0 .. Len(es) - 1 \subseteq DOMAIN resume[f].files
    BY <1>1, <2>1 DEF Linking, es
  <2> QED  BY <2>1, <2>2, <2>3, <2>4 DEF IsList
<1>11. /\ Holds(queue[f].files, es, Len(es)) /\ \A i \in 1 .. Len(es) : es[i] \in work[f]
  <2>1. PICK j \in 0 .. Len(es) :
          Holds(queue[f].files, es, j) /\ \A i \in 1 .. j : es[i] \in work[f]
    BY <1>1, <1>10 DEF Whole, Linking, es
  <2>2. DOMAIN queue[f].files = 0 .. j - 1 /\ j \in Nat /\ Len(es) \in Nat
    BY <1>10, <2>1 DEF Holds
  <2>4. Cardinality(0 .. j - 1) = j
    BY <2>2, CountBelow
  <2>5. Linked(f) = Cardinality(0 .. j - 1)
    BY <2>2 DEF Linked
  <2>6. Len(es) = j
    BY <1>1, <2>4, <2>5
  <2> QED  BY <2>1, <2>6
<1>12. Tidy(queue[f].files) /\ DOMAIN queue[f].files = 0 .. Len(es) - 1
       /\ \A i \in 0 .. Len(es) - 1 : queue[f].files[i] = es[i + 1] /\ queue[f].files[i] \in Inputs
  <2>1. Len(es) \in 0 .. Len(es)
    BY <1>10
  <2> QED  BY <1>10, <1>11, <2>1, HoldsLess DEF IsList
<1>13. Kept(f)' = queue[f].files
  BY <1>1, <1>2, <1>4, <1>7, <1>10 DEF Kept
<1>14. ToSet(es) \subseteq work[f]
  <2>1. DOMAIN es = 1 .. Len(es)
    BY <1>10
  <2> QED  BY <1>11, <2>1 DEF ToSet
<1>15. Linking(f)'
  <2>1. es = entries'[f] /\ queue'[f] = queue[f] /\ resume'[f] = resume[f] /\ work'[f] = work[f]
    BY <1>1 DEF es
  <2>2. CASE Fresh(f)
    BY <1>2, <1>4, <1>7, <1>10, <1>11, <2>1, <2>2 DEF Linking, Running, IsList, Holds
  <2>3. CASE ~Fresh(f)
    <3>1. DOMAIN resume[f].files # {}
      <4>1. 0 \in 0 .. Len(es) - 1
        BY <1>10 DEF IsList
      <4> QED  BY <1>10, <2>3, <4>1
    <3>2. phase'[f] = "nuke" /\ ReadFrom(resume[f].files, es)
      BY <1>4, <1>10, <2>3
    <3> QED  BY <1>2, <1>10, <1>11, <1>14, <2>1, <3>1, <3>2 DEF Linking, Running, IsList, Holds, ReadFrom, ToSet
  <2> QED  BY <2>2, <2>3
\* In place, the files are those that were linked; so is what they were given.
<1>16. ~Fresh(f) => \A i \in DOMAIN resume[f].files :
            \/ resume[f].files[i] = Empty
            \/ i \in DOMAIN queue[f].files /\ queue[f].files[i] = resume[f].files[i]
  <2> SUFFICES ASSUME ~Fresh(f), NEW i \in DOMAIN resume[f].files, resume[f].files[i] # Empty
               PROVE  i \in DOMAIN queue[f].files /\ queue[f].files[i] = resume[f].files[i]
    OBVIOUS
  <2>1. i < Len(es) /\ resume[f].files[i] = es[i + 1]
    BY <1>10 DEF ReadFrom
  <2>2. i \in Nat
    BY <1>10 DEF Whole, Left, Files
  <2>3. i \in 0 .. Len(es) - 1
    BY <1>10, <2>1, <2>2
  <2> QED  BY <1>12, <2>1, <2>3
<1>17. Kept(f) = IF Fresh(f) THEN queue[f].files ELSE resume[f].files
  BY <1>1, <1>2, <1>10 DEF Kept
<1>18. work[f] \subseteq Range(queue[f].files) /\ work[f] \subseteq Inputs
  <2>1. work[f] \subseteq Range(Kept(f)) /\ work[f] \subseteq Inputs /\ Empty \notin Inputs
    BY <1>10 DEF Whole, SessionAssumption, Empty
  <2> QED  BY <1>16, <1>17, <2>1 DEF Range
<1>19. Whole(f)'
  <2>1. Tidy(Kept(f))'
    BY <1>12, <1>13 DEF Tidy, Inputs
  <2>2. Files' = Files
    BY DEF Files, Inputs
  <2>3. phase'[f] # "nuke" => ~Left(f)'
    BY <1>4, <1>7, <1>10
  <2>4. \A d \in {queue'[f], resume'[f]} : d.there => d.files \in Files
    BY <1>1, <1>10 DEF Whole
  <2>5. work'[f] \subseteq Inputs /\ work'[f] \subseteq Range(Kept(f)')
    BY <1>1, <1>13, <1>18
  <2> QED  BY <1>4, <1>15, <2>1, <2>2, <2>3, <2>4, <2>5 DEF Whole
<1>20. ASSUME NEW h \in Fuzzers, Known(h, f)' = Known(h, f)  PROVE Executed(h, f)'
  <2>1. Executed(h, f)
    BY <1>9 DEF SessionInv
  <2>2. \A i \in Known(h, f) : i \in DOMAIN Kept(f) /\ Kept(f)[i] # Empty /\ Kept(f)[i] \in ran[h]
    BY <1>10, <2>1 DEF Executed
  <2>3. \A i \in Known(h, f) : i \in DOMAIN queue[f].files /\ queue[f].files[i] = Kept(f)[i]
    BY <1>16, <1>17, <2>2
  <2> QED  BY <1>1, <1>13, <1>20, <2>2, <2>3 DEF Executed
<1> QED  BY <1>19, <1>20

-----------------------------------------------------------------------------
(* Types.                                                                  *)

\* Every step keeps the types of the variables that are not about files.
LEMMA MarksStay ==
    ASSUME SessionInv, SessionAssumption, Marks, SENext  PROVE Marks'
<1> USE DEF Goes, Marks, Phases, Starting
<1>20. missed \in [Fuzzers -> [Fuzzers -> SUBSET Nat]] /\ kills \in 0 .. MaxKills
       /\ stats \in [Fuzzers -> {"none", "torn", "short", "long"}] /\ phase \in [Fuzzers -> Phases]
  BY Zenon
<1>1. PICK f \in Fuzzers :
    \/ Start(f) \/ Rename(f) \/ Unsync(f) \/ Clean(f) \/ Mkdir(f) \/ ReadTestcases(f)
    \/ Pivot(f) \/ EndPivot(f) \/ NukeResumeDir(f) \/ DryRun(f)
    \/ WriteStats(f) \/ Find(f) \/ Write(f)
    \/ BeginSync(f) \/ Import(f) \/ PassOver(f) \/ EndSync(f)
    \/ Kill(f)
  BY DEF SENext
<1>2. CASE Start(f)
  <2>1. PICK inPlace \in BOOLEAN :
           /\ in_place_resume' = [in_place_resume EXCEPT ![f] = inPlace]
           /\ phase' = [phase EXCEPT ![f] = IF inPlace THEN "rename" ELSE IF f \in made THEN "unsync" ELSE "mkdir"]
    BY <1>2 DEF Start
  <2> QED  BY <1>2, <2>1 DEF Start, disk
<1>3. CASE Rename(f)
  BY <1>3 DEF Rename, history
<1>4. CASE Unsync(f)
  BY <1>4 DEF Unsync, memory
<1>5. CASE Clean(f)
  BY <1>5 DEF Clean, DeleteStep, history
<1>6. CASE Mkdir(f)
  <2>1. synced \in [Fuzzers -> [Fuzzers -> Nat]]
    BY DEF SessionInv, Shapes
  <2>2. missed' = missed \/ missed' = [g \in Fuzzers |-> [missed[g] EXCEPT ![f] = @ \cup 0 .. synced[g][f] - 1]]
    BY <1>6 DEF Mkdir, Anew
  <2>3. \A g \in Fuzzers : [missed[g] EXCEPT ![f] = @ \cup 0 .. synced[g][f] - 1]
                                \in [Fuzzers -> SUBSET Nat]
    <3> SUFFICES ASSUME NEW g \in Fuzzers
                 PROVE  [missed[g] EXCEPT ![f] = @ \cup 0 .. synced[g][f] - 1] \in [Fuzzers -> SUBSET Nat]
      OBVIOUS
    <3> HIDE DEF Marks
    <3>1. missed[g] \in [Fuzzers -> SUBSET Nat]
      BY <1>20
    <3>3. 0 .. synced[g][f] - 1 \in SUBSET Nat
      BY <2>1
    <3>2. missed[g][f] \cup 0 .. synced[g][f] - 1 \in SUBSET Nat
      BY <3>1, <3>3
    <3> QED  BY <3>1, <3>2
  <2>4. missed' \in [Fuzzers -> [Fuzzers -> SUBSET Nat]]
    <3> HIDE DEF Marks
    <3> DEFINE E(g) == [missed[g] EXCEPT ![f] = @ \cup 0 .. synced[g][f] - 1]
    <3>1. missed' = missed \/ missed' = [g \in Fuzzers |-> E(g)]
      BY <2>2
    <3>2. \A g \in Fuzzers : E(g) \in [Fuzzers -> SUBSET Nat]
      BY <2>3
    <3> HIDE DEF E
    <3>3. [g \in Fuzzers |-> E(g)] \in [Fuzzers -> [Fuzzers -> SUBSET Nat]]
      BY <3>2, Zenon
    <3>4. missed \in [Fuzzers -> [Fuzzers -> SUBSET Nat]]
      BY <1>20
    <3> QED  BY <3>1, <3>3, <3>4, Zenon
  <2> QED  BY <1>6, <2>4 DEF Mkdir
<1>7. CASE ReadTestcases(f)
  BY <1>7 DEF ReadTestcases, disk, history
<1>8. CASE Pivot(f)
  BY <1>8 DEF Pivot, memory
<1>9. CASE EndPivot(f)
  BY <1>9 DEF EndPivot, disk, memory, history
<1>10. CASE NukeResumeDir(f)
  BY <1>10 DEF NukeResumeDir, DeleteStep, history
<1>11. CASE DryRun(f)
  BY <1>11 DEF DryRun, memory
<1>12. CASE WriteStats(f)
  <2>1. /\ stats' \in [Fuzzers -> {"none", "torn", "short", "long"}]
        /\ phase' \in [Fuzzers -> Phases]
    <3> HIDE DEF Marks
    <3>1. \E age \in {"torn", "short", "long"} : stats' = [stats EXCEPT ![f] = age]
      BY <1>12 DEF WriteStats
    <3>2. \E p \in {"fuzz", "stats"} : phase' = [phase EXCEPT ![f] = p]
      BY <1>12 DEF WriteStats
    <3> QED  BY <1>20, <3>1, <3>2
  <2> QED  BY <1>12, <2>1 DEF WriteStats, memory, history
<1>13. CASE Find(f)
  BY <1>13 DEF Find, Queue
<1>14. CASE Write(f)
  BY <1>14 DEF Write
<1>15. CASE BeginSync(f)
  BY <1>15 DEF BeginSync, disk, history
<1>16. CASE Import(f)
  BY <1>16 DEF Import, Queue
<1>17. CASE PassOver(f)
  BY <1>17 DEF PassOver, disk, history
<1>18. CASE EndSync(f)
  <2>1. phase[f] = "sync" /\ sync[f] \in SyncRecs(f)
    BY <1>18 DEF EndSync, At, SessionInv, Reading
  <2>2. LeftBehind(f) \subseteq Nat
    <3>1. sync[f].seen \subseteq Nat /\ sync[f].min_accept \in Nat
      BY <2>1 DEF SyncRecs
    <3> HIDE DEF Marks
    <3>2. \A i \in sync[f].seen : sync[f].min_accept .. i \subseteq Nat
      BY <3>1
    <3> QED  BY <3>2 DEF LeftBehind
  <2>3. missed' = [missed EXCEPT ![f][sync[f].party] = @ \cup LeftBehind(f)]
    BY <1>18 DEF EndSync
  <2>4. sync[f].party \in Fuzzers
    BY <2>1 DEF SyncRecs
  <2> HIDE DEF Starting, Phases
  <2>5. missed' \in [Fuzzers -> [Fuzzers -> SUBSET Nat]]
    BY <2>2, <2>3, <2>4
  <2> USE DEF Starting, Phases
  <2> QED  BY <1>18, <2>5 DEF EndSync
<1>19. CASE Kill(f)
  <2>1. MaxKills \in Nat /\ kills < MaxKills /\ kills' = kills + 1
    BY <1>19 DEF Kill, SessionAssumption
  <2>2. kills' \in 0 .. MaxKills
    <3> HIDE DEF Marks
    <3>1. kills \in 0 .. MaxKills
      BY <1>20
    <3>2. kills + 1 \in 0 .. MaxKills
      BY <2>1, <3>1
    <3> QED  BY <2>1, <3>2
  <2> QED  BY <1>19, <2>2 DEF Kill, disk
<1> QED  BY <1>1, <1>2, <1>3, <1>4, <1>5, <1>6, <1>7, <1>8, <1>9, <1>10, <1>11, <1>12, <1>13,
            <1>14, <1>15, <1>16, <1>17, <1>18, <1>19

\* Files and one more are files.
LEMMA PutFiles ==
    ASSUME NEW files \in Files, NEW i \in Nat, NEW x \in Inputs \cup {Empty}
    PROVE  Put(files, i, x) \in Files
<1>1. PICK N \in SUBSET Nat : IsFiniteSet(N) /\ files \in [N -> Inputs \cup {Empty}]
  BY DEF Files
<1>2. N \cup {i} \in SUBSET Nat /\ IsFiniteSet(N \cup {i})
  BY <1>1, FS_AddElement
<1>3. Put(files, i, x) \in [N \cup {i} -> Inputs \cup {Empty}]
  BY <1>1 DEF Put
<1> QED  BY <1>2, <1>3 DEF Files

\* So are those of a directory that is given one.
LEMMA WithTyped ==
    ASSUME NEW d, Made(d), d.there, d.files \in Files, NEW i \in Nat, NEW x \in Inputs \cup {Empty}
    PROVE  With(d, i, x).files \in Files
BY WithIs, PutFiles

\* Among finitely many numbers, every place up to their count has one.
LEMMA Ranked ==
    ASSUME NEW S \in SUBSET Nat, IsFiniteSet(S)
    PROVE  /\ Cardinality(S) \in Nat
           /\ \A k \in 1 .. Cardinality(S) : \E i \in S : Cardinality({j \in S : j < i}) = k - 1
<1> DEFINE below(i) == {j \in S : j < i}
           m == Cardinality(S)
           rank == [i \in S |-> Cardinality(below(i))]
<1>1. m \in Nat
  BY FS_CardinalityType
<1>2. ASSUME NEW i \in S
      PROVE  IsFiniteSet(below(i)) /\ rank[i] \in 0 .. m - 1
  <2>1. below(i) \in SUBSET S /\ below(i) # S
    OBVIOUS
  <2>2. IsFiniteSet(below(i)) /\ Cardinality(below(i)) <= m /\ Cardinality(below(i)) # m
    BY <2>1, FS_Subset
  <2>3. Cardinality(below(i)) \in Nat
    BY <2>2, FS_CardinalityType
  <2> QED  BY <1>1, <2>2, <2>3
<1>3. ASSUME NEW i \in S, NEW j \in S, i < j  PROVE rank[i] # rank[j]
  <2>1. below(i) \in SUBSET below(j) /\ below(i) # below(j)
    <3>1. i \in Nat /\ j \in Nat /\ i \in below(j) /\ i \notin below(i)
      BY <1>3
    <3>2. \A l \in below(i) : l \in below(j)
      BY <1>3, <3>1
    <3> QED  BY <3>1, <3>2
  <2>2. Cardinality(below(j)) # Cardinality(below(i))
    BY <1>2, <2>1, FS_Subset
  <2> QED  BY <2>2
<1>4. \A i, j \in S : i # j => i < j \/ j < i
  OBVIOUS
<1> HIDE DEF m
<1>5. rank \in [S -> 0 .. m - 1] /\ \A i, j \in S : rank[i] = rank[j] => i = j
  <2>1. rank \in [S -> 0 .. m - 1]
    BY <1>2
  <2> HIDE DEF rank
  <2> QED  BY <1>3, <1>4, <2>1
<1>6. rank \in Injection(S, 0 .. m - 1)
  <2> HIDE DEF rank
  <2> QED  BY <1>5 DEF Injection, IsInjective
<1>7. IsFiniteSet(0 .. m - 1) /\ Cardinality(0 .. m - 1) = m
  <2>1. IsFiniteSet(0 .. m - 1) /\ Cardinality(0 .. m - 1) = IF 0 > m - 1 THEN 0 ELSE m - 1 - 0 + 1
    BY <1>1, FS_Interval
  <2> QED  BY <1>1, <2>1
<1>8. rank \in Surjection(S, 0 .. m - 1)
  <2> HIDE DEF rank
  <2> QED  BY <1>6, <1>7, FS_Injection DEF m
<1>9. ASSUME NEW k \in 1 .. m  PROVE \E i \in S : Cardinality(below(i)) = k - 1
  <2>1. k - 1 \in 0 .. m - 1
    BY <1>1
  <2>2. PICK i \in S : rank[i] = k - 1
    <3> HIDE DEF rank
    <3> QED  BY <1>8, <2>1 DEF Surjection
  <2> QED  BY <2>2
<1> QED  BY <1>1, <1>9 DEF m

\* Whatever the files are, read_testcases makes a list of inputs of them.
LEMMA FilesEntries ==
    ASSUME NEW files \in Files
    PROVE  /\ InOrder(files) \in Seq(Inputs)
           /\ Cardinality(DOMAIN files) \in Nat
           /\ \A i \in DOMAIN files : i \in Nat /\ files[i] \in Inputs \cup {Empty}
<1>1. PICK N \in SUBSET Nat : IsFiniteSet(N) /\ files \in [N -> Inputs \cup {Empty}]
  BY DEF Files
<1> DEFINE full == {i \in DOMAIN files : files[i] # Empty}
           nth(k) == CHOOSE i \in full : Cardinality({j \in full : j < i}) = k - 1
           m == Cardinality(full)
<1>2. full \in SUBSET N /\ full \in SUBSET Nat
  BY <1>1
<1>3. IsFiniteSet(full)
  BY <1>1, <1>2, FS_Subset
<1>4. \A i \in full : files[i] \in Inputs
  BY <1>1
<1> HIDE DEF full
<1>5. m \in Nat /\ \A k \in 1 .. m : nth(k) \in full
  BY <1>2, <1>3, Ranked
<1>6. InOrder(files) = [k \in 1 .. m |-> files[nth(k)]]
  BY DEF InOrder, full
<1> HIDE DEF nth, m
<1>7. InOrder(files) \in Seq(Inputs)
  BY <1>4, <1>5, <1>6
<1>8. Cardinality(DOMAIN files) \in Nat
  BY <1>1, FS_CardinalityType
<1> QED  BY <1>1, <1>7, <1>8

\* What is left alone keeps its types.
LEMMA ContentsStay ==
    ASSUME NEW f, Contents(f), queue'[f] = queue[f], resume'[f] = resume[f],
           entries'[f] = entries[f], hand'[f] = hand[f], work'[f] = work[f], ran'[f] = ran[f]
    PROVE  Contents(f)'
<1>1. Files' = Files
  BY DEF Files, Inputs
<1> QED  BY <1>1 DEF Contents, Inputs

\* The seeds and the finds are inputs, and the constants stay what they are.
LEMMA InputsTyped ==
    ASSUME SessionAssumption
    PROVE  /\ ToSet(Seeds) \subseteq Inputs /\ Seeds \in Seq(Inputs)
           /\ \A f \in Fuzzers : Finds[f] \subseteq Inputs
           /\ Files' = Files /\ Inputs' = Inputs /\ Empty \notin Inputs
<1>1. /\ ToSet(Seeds) \subseteq Inputs
      /\ \A f \in Fuzzers : Finds[f] \subseteq Inputs
  BY DEF Inputs
<1>2. Files' = Files /\ Inputs' = Inputs
  BY DEF Files, Inputs
<1> QED  BY <1>1, <1>2 DEF SessionAssumption, Empty

\* What others have is not touched.
OthersStay(f) ==
    \A g \in Fuzzers \ {f} :
        /\ queue'[g] = queue[g] /\ resume'[g] = resume[g] /\ entries'[g] = entries[g]
        /\ hand'[g] = hand[g] /\ work'[g] = work[g] /\ ran'[g] = ran[g]

\* The start-up steps that change directories put nothing in them.
LEMMA DirectoriesTyped ==
    ASSUME SessionInv, SessionAssumption, NEW f \in Fuzzers, \A g \in Fuzzers : Contents(g),
           Start(f) \/ Rename(f) \/ Clean(f) \/ Mkdir(f) \/ NukeResumeDir(f)
    PROVE  Contents(f)' /\ OthersStay(f)
<1>1. Shapes /\ Begun(f) /\ Made(queue[f]) /\ Made(resume[f])
  BY DEF SessionInv, Begun
<1>2. Contents(f) /\ ~NoDir.there /\ Files' = Files /\ Inputs' = Inputs
  BY InputsTyped, DirIs
<1>3. CASE Start(f)
  <2>1. UNCHANGED <<queue, resume, entries, hand, ran>>
    BY <1>3 DEF Start, disk
  <2>2. work'[f] \in {work[f], {}} /\ \A g \in Fuzzers \ {f} : work'[g] = work[g]
    BY <1>1, <1>3 DEF Start, Shapes
  <2> QED  BY <1>2, <2>1, <2>2 DEF Contents, OthersStay
<1>4. CASE Rename(f)
  <2>1. UNCHANGED <<entries, hand, work, ran>>
    BY <1>4 DEF Rename, history
  <2>2. /\ \/ queue'[f] = queue[f] /\ resume'[f] = resume[f]
           \/ queue'[f] = NoDir /\ resume'[f] = queue[f]
        /\ \A g \in Fuzzers \ {f} : queue'[g] = queue[g] /\ resume'[g] = resume[g]
    BY <1>1, <1>4 DEF Rename, Shapes
  <2> QED  BY <1>2, <2>1, <2>2 DEF Contents, OthersStay
<1>5. CASE Clean(f)
  <2>1. UNCHANGED <<resume, entries, hand, work, ran>>
    BY <1>5 DEF Clean, history
  <2>2. /\ Deletes(queue[f], queue'[f]) \/ queue'[f] = NoDir
        /\ \A g \in Fuzzers \ {f} : queue'[g] = queue[g]
    BY <1>1, <1>5, CleanDoes DEF Clean
  <2>3. queue'[f].there => queue'[f].files \in Files
    BY <1>1, <1>2, <2>2, DeletesOne DEF Contents
  <2> QED  BY <1>2, <2>1, <2>2, <2>3 DEF Contents, OthersStay
<1>6. CASE NukeResumeDir(f)
  <2>1. UNCHANGED <<queue, entries, hand, work, ran>>
    BY <1>6 DEF NukeResumeDir, history
  <2>2. /\ Deletes(resume[f], resume'[f]) \/ resume'[f] = NoDir
        /\ \A g \in Fuzzers \ {f} : resume'[g] = resume[g]
    BY <1>1, <1>6, NukeDoes DEF NukeResumeDir
  <2>3. resume'[f].there => resume'[f].files \in Files
    BY <1>1, <1>2, <2>2, DeletesOne DEF Contents
  <2> QED  BY <1>2, <2>1, <2>2, <2>3 DEF Contents, OthersStay
<1>7. CASE Mkdir(f)
  <2>1. UNCHANGED <<resume, entries, hand, work, ran>>
    BY <1>7 DEF Mkdir
  <2>2. queue'[f] = Dir(NoFiles, TRUE) /\ \A g \in Fuzzers \ {f} : queue'[g] = queue[g]
    BY <1>1, <1>7 DEF Mkdir, Shapes
  <2>3. queue'[f].files \in Files
    BY <2>2, DirIs, NoFilesIs
  <2> QED  BY <1>2, <2>1, <2>2, <2>3 DEF Contents, OthersStay
<1> QED  BY <1>3, <1>4, <1>5, <1>6, <1>7

\* What is read into the list, executed or dropped by a kill is inputs.
LEMMA ReadTyped ==
    ASSUME SessionInv, SessionAssumption, NEW f \in Fuzzers, Contents(f),
           ReadTestcases(f) \/ DryRun(f) \/ Kill(f)
    PROVE  Contents(f)' /\ OthersStay(f)
<1>1. Shapes /\ Files' = Files /\ Inputs' = Inputs
  BY InputsTyped DEF SessionInv
<1>2. CASE ReadTestcases(f)
  <2>1. UNCHANGED <<queue, resume, hand, work, ran>>
    BY <1>2 DEF ReadTestcases, disk, history
  <2>2. /\ \/ entries'[f] = Seeds
           \/ entries'[f] = <<>>
           \/ resume[f].there /\ entries'[f] = InOrder(resume[f].files)
        /\ \A g \in Fuzzers \ {f} : entries'[g] = entries[g]
    BY <1>1, <1>2 DEF ReadTestcases, Shapes
  <2>3. <<>> \in Seq(Inputs)
    OBVIOUS
  <2>4. entries'[f] \in Seq(Inputs)
    <3>1. resume[f].there => resume[f].files \in Files
      BY DEF Contents
    <3>2. resume[f].there => InOrder(resume[f].files) \in Seq(Inputs)
      BY <3>1, FilesEntries
    <3> QED  BY <2>2, <2>3, <3>2, InputsTyped
  <2> QED  BY <1>1, <2>1, <2>2, <2>4 DEF Contents, OthersStay
<1>3. CASE DryRun(f)
  <2>1. UNCHANGED <<queue, resume, entries, hand, work>>
    BY <1>3 DEF DryRun, memory
  <2>2. /\ ran'[f] = ran[f] \cup ToSet(entries[f])
        /\ \A g \in Fuzzers \ {f} : ran'[g] = ran[g]
    BY <1>1, <1>3 DEF DryRun, Shapes
  <2>3. ToSet(entries[f]) \subseteq Inputs
    <3>1. entries[f] \in Seq(Inputs)
      BY DEF Contents
    <3> QED  BY <3>1 DEF ToSet
  <2> QED  BY <1>1, <2>1, <2>2, <2>3 DEF Contents, OthersStay
<1>4. CASE Kill(f)
  <2>1. UNCHANGED <<queue, resume, work, ran>>
    BY <1>4 DEF Kill, disk
  <2>2. /\ entries'[f] = <<>> /\ hand'[f] = Empty
        /\ \A g \in Fuzzers \ {f} : entries'[g] = entries[g] /\ hand'[g] = hand[g]
    BY <1>1, <1>4 DEF Kill, Shapes
  <2>3. <<>> \in Seq(Inputs)
    OBVIOUS
  <2> QED  BY <1>1, <2>1, <2>2, <2>3 DEF Contents, OthersStay
<1> QED  BY <1>2, <1>3, <1>4

\* A file more in queue/, and what it was given.
LEMMA FileTyped ==
    ASSUME SessionInv, SessionAssumption, NEW f \in Fuzzers, \A g \in Fuzzers : Contents(g),
           queue[f].there, NEW i \in Nat, NEW x \in Inputs \cup {Empty},
           queue' = [queue EXCEPT ![f] = With(@, i, x)], resume' = resume
    PROVE  /\ \A d \in {queue'[f], resume'[f]} : d.there => d.files \in Files'
           /\ \A g \in Fuzzers \ {f} : queue'[g] = queue[g] /\ resume'[g] = resume[g]
<1>1. Shapes /\ Made(queue[f]) /\ Files' = Files /\ Contents(f)
  BY InputsTyped DEF SessionInv, Begun
<1>2. queue'[f] = With(queue[f], i, x) /\ \A g \in Fuzzers \ {f} : queue'[g] = queue[g]
  BY <1>1 DEF Shapes
<1>3. queue[f].files \in Files
  BY <1>1 DEF Contents
<1>4. queue'[f].files \in Files
  BY <1>1, <1>2, <1>3, WithTyped
<1> QED  BY <1>1, <1>2, <1>4 DEF Contents

\* What is linked is an entry of the list.
LEMMA PivotTyped ==
    ASSUME SessionInv, SessionAssumption, NEW f \in Fuzzers, \A g \in Fuzzers : Contents(g), Pivot(f)
    PROVE  Contents(f)' /\ OthersStay(f)
<1> DEFINE k == Linked(f)  x == entries[f][k + 1]
<1>1. /\ k < Len(entries[f]) /\ queue' = [queue EXCEPT ![f] = With(@, k, x)]
      /\ work' = [work EXCEPT ![f] = @ \cup {x}] /\ resume' = resume
      /\ UNCHANGED <<entries, hand, ran>> /\ phase[f] = "pivot"
  BY DEF Pivot, memory, At
<1>2. Shapes /\ queue[f].there /\ Contents(f) /\ Files' = Files /\ Inputs' = Inputs
  BY <1>1, InputsTyped DEF SessionInv, Begun
<1>3. k \in Nat
  BY <1>2, FilesEntries DEF Linked, Contents
<1>4. x \in Inputs
  <2>1. k + 1 \in 1 .. Len(entries[f]) /\ entries[f] \in Seq(Inputs)
    BY <1>1, <1>2, <1>3 DEF Contents
  <2> QED  BY <2>1
<1> HIDE DEF k, x
<1>5. /\ \A d \in {queue'[f], resume'[f]} : d.there => d.files \in Files'
      /\ \A g \in Fuzzers \ {f} : queue'[g] = queue[g] /\ resume'[g] = resume[g]
  BY <1>1, <1>2, <1>3, <1>4, FileTyped
<1>6. work'[f] = work[f] \cup {x} /\ \A g \in Fuzzers \ {f} : work'[g] = work[g]
  BY <1>1, <1>2 DEF Shapes
<1> QED  BY <1>1, <1>2, <1>4, <1>5, <1>6 DEF Contents, OthersStay

\* What is written is what was in hand.
LEMMA WriteTyped ==
    ASSUME SessionInv, SessionAssumption, NEW f \in Fuzzers, \A g \in Fuzzers : Contents(g), Writing(f),
           Write(f)
    PROVE  Contents(f)' /\ OthersStay(f)
<1> DEFINE k == Len(entries[f]) - 1  x == hand[f]
<1>1. /\ queue' = [queue EXCEPT ![f] = With(@, k, x)]
      /\ work' = [work EXCEPT ![f] = @ \cup {x}] /\ hand' = [hand EXCEPT ![f] = Empty]
      /\ UNCHANGED <<resume, entries, ran>> /\ phase[f] = "write"
  BY DEF Write, At
<1>2. Shapes /\ queue[f].there /\ Contents(f) /\ Files' = Files /\ Inputs' = Inputs
  BY <1>1, InputsTyped DEF SessionInv, Begun, Running
<1>3. k \in Nat /\ x \in Inputs
  BY <1>1, <1>2 DEF Writing, At, Contents
<1> HIDE DEF k, x
<1>5. /\ \A d \in {queue'[f], resume'[f]} : d.there => d.files \in Files'
      /\ \A g \in Fuzzers \ {f} : queue'[g] = queue[g] /\ resume'[g] = resume[g]
  BY <1>1, <1>2, <1>3, FileTyped
<1>6. /\ work'[f] = work[f] \cup {x} /\ hand'[f] = Empty
      /\ \A g \in Fuzzers \ {f} : work'[g] = work[g] /\ hand'[g] = hand[g]
  BY <1>1, <1>2 DEF Shapes
<1> QED  BY <1>1, <1>2, <1>3, <1>5, <1>6 DEF Contents, OthersStay

\* Find and Import: the input is one that can be come upon, or is in another's queue/.
LEMMA QueueTyped ==
    ASSUME SessionInv, SessionAssumption, NEW f \in Fuzzers, \A g \in Fuzzers : Contents(g),
           NEW x \in Inputs, Queue(f, x), queue[f].there, UNCHANGED <<resume, work>>,
           ran' = [ran EXCEPT ![f] = @ \cup {x}]
    PROVE  Contents(f)' /\ OthersStay(f) /\ entries'[f] # <<>> /\ hand'[f] \in Inputs
<1> DEFINE k == Len(entries[f])
<1>1. /\ queue' = [queue EXCEPT ![f] = With(@, k, Empty)]
      /\ entries' = [entries EXCEPT ![f] = Append(@, x)] /\ hand' = [hand EXCEPT ![f] = x]
  BY DEF Queue
<1>2. Shapes /\ Contents(f) /\ Files' = Files /\ Inputs' = Inputs
  BY <1>1, InputsTyped DEF SessionInv
<1>3. k \in Nat /\ entries[f] \in Seq(Inputs)
  BY <1>2 DEF Contents
<1> HIDE DEF k
<1>5. /\ \A d \in {queue'[f], resume'[f]} : d.there => d.files \in Files'
      /\ \A g \in Fuzzers \ {f} : queue'[g] = queue[g] /\ resume'[g] = resume[g]
  <2>1. Empty \in Inputs \cup {Empty}
    OBVIOUS
  <2> QED  BY <1>1, <1>3, <2>1, FileTyped
<1>6. /\ entries'[f] = Append(entries[f], x) /\ hand'[f] = x /\ ran'[f] = ran[f] \cup {x}
      /\ \A g \in Fuzzers \ {f} : entries'[g] = entries[g] /\ hand'[g] = hand[g] /\ ran'[g] = ran[g]
  BY <1>1, <1>2 DEF Shapes
<1>7. entries'[f] \in Seq(Inputs) /\ entries'[f] # <<>>
  BY <1>3, <1>6
<1> QED  BY <1>1, <1>2, <1>5, <1>6, <1>7 DEF Contents, OthersStay

\* A file that can be read holds an input.
LEMMA OpensInput ==
    ASSUME NEW f, NEW i, Contents(sync[f].party), Opens(f, i)
    PROVE  queue[sync[f].party].files[i] \in Inputs
BY FilesEntries DEF Contents, Opens

-----------------------------------------------------------------------------
(* The main loop, sync_fuzzers and kills.                                  *)

\* While f runs, its queue/ is what it would go on with, and nothing of it fades.
LEMMA RunningIs ==
    ASSUME SessionInv, NEW f \in Fuzzers \ harmed, phase[f] \in Running
    PROVE  /\ Whole(f) /\ Linking(f) /\ queue[f].there /\ ~Left(f) /\ IsList(entries[f])
           /\ entries[f] \in Seq(Inputs) /\ Len(entries[f]) \in Nat \ {0}
           /\ Kept(f) = queue[f].files /\ ~Fading(f) /\ ~Removing(f)
<1>1. Whole(f) /\ Linking(f)
  BY DEF SessionInv, Whole
<1>2. queue[f].there /\ ~Left(f) /\ IsList(entries[f])
  BY <1>1 DEF Linking
<1>3. Kept(f) = queue[f].files
  BY <1>2 DEF Kept
<1>4. ~Removing(f) /\ ~Fading(f)
  BY DEF Fading, Removing, At, Running
<1> QED  BY <1>1, <1>2, <1>3, <1>4 DEF IsList

\* Files 0 to k with nothing twice, of which only k may be empty, are in order.
LEMMA TidyTo ==
    ASSUME NEW files, NEW k \in Nat, files \in [0 .. k -> Inputs \cup {Empty}],
           \A i \in 0 .. k : files[i] = Empty => i = k,
           \A i, j \in 0 .. k : files[i] = files[j] => i = j
    PROVE  Tidy(files) /\ files \in Files
<1>1. PICK n \in Nat : n = k + 1
  OBVIOUS
<1>2. n - 1 = k
  BY <1>1
<1>3. Tidy(files)
  BY <1>2 DEF Tidy
<1>4. 0 .. k \in SUBSET Nat /\ IsFiniteSet(0 .. k)
  BY FS_Interval
<1> QED  BY <1>3, <1>4 DEF Files

\* Files in order stay so when they are not touched.
LEMMA TidyStays ==
    ASSUME NEW f, Tidy(Kept(f)), Kept(f)' = Kept(f)  PROVE Tidy(Kept(f))'
BY DEF Tidy, Inputs

\* f goes on to another phase of the main loop with its files as they are.
LEMMA GoesOnOwner ==
    ASSUME SessionInv, NEW f \in Fuzzers, phase[f] \in {"dry run", "stats", "fuzz", "sync"},
           phase'[f] \in {"stats", "fuzz", "sync"}, f \in made', f \in made,
           queue'[f] = queue[f], resume'[f] = resume[f], in_place_resume'[f] = in_place_resume[f],
           entries'[f] = entries[f], work'[f] = work[f]
    PROVE  /\ Begun(f)' /\ Kept(f)' = Kept(f)
           /\ f \notin harmed => Whole(f)' /\ ~Fading(f)
<1>1. Begun(f)
  BY DEF SessionInv
<1>2. (Left(f)' <=> Left(f)) /\ Kept(f)' = Kept(f) /\ (Fresh(f)' <=> Fresh(f))
  BY DEF Left, Kept, At, Fresh
<1>3. Begun(f)'
  BY <1>1, <1>2 DEF Begun, At, Running
<1>4. ASSUME f \notin harmed  PROVE Whole(f)' /\ ~Fading(f)
  <2>1. /\ Whole(f) /\ Linking(f) /\ queue[f].there /\ ~Left(f) /\ IsList(entries[f])
        /\ ~Fading(f) /\ ~Removing(f)
    BY <1>4, RunningIs DEF Running
  <2>2. Holds(queue[f].files, entries[f], Len(entries[f]))
    BY <2>1 DEF Linking, Running, At
  <2>3. Linking(f)'
    BY <1>2, <2>1, <2>2 DEF Linking, Running, At, IsList, Holds, Inputs
  <2>4. Tidy(Kept(f))'
    <3>1. Tidy(Kept(f))
      BY <2>1 DEF Whole
    <3> QED  BY <1>2, <3>1, TidyStays
  <2> QED  BY <1>2, <2>1, <2>3, <2>4 DEF Whole, At, Files, Inputs
<1> QED  BY <1>2, <1>3, <1>4

\* Such a step changes nothing else but what f has executed.
LEMMA GoesOnStep ==
    ASSUME SessionInv, NEW f \in Fuzzers, phase[f] \in {"dry run", "stats", "fuzz"},
           NEW p \in {"stats", "fuzz"}, phase' = [phase EXCEPT ![f] = p],
           UNCHANGED <<made, queue, resume, synced, in_place_resume, entries, hand, sync, work,
                       harmed, missed>>,
           DOMAIN ran' = Fuzzers, \A h \in Fuzzers : ran[h] \subseteq ran'[h]
    PROVE  SessionInv'
<1>1. Shapes /\ Begun(f) /\ Reading(f)
  BY DEF SessionInv
<1>2. Shapes' /\ phase'[f] = p /\ f \in made
  BY <1>1 DEF Shapes, Begun
<1>3. \A g \in Fuzzers \ {f} : SameOwner(g)
  BY <1>1 DEF Shapes, SameOwner
<1>4. QuietReaders(f)
  BY <1>1, <1>2 DEF QuietReaders, Reading, Shapes
<1>5. /\ Begun(f)' /\ Kept(f)' = Kept(f)
      /\ f \notin harmed => Whole(f)' /\ ~Fading(f)
  BY <1>2, GoesOnOwner
<1> QED  BY <1>2, <1>3, <1>4, <1>5, QuietStep

\* perform_dry_run.
LEMMA DryRunStep ==
    ASSUME SessionInv, NEW f \in Fuzzers, DryRun(f)  PROVE SessionInv'
<1>1. Shapes
  BY DEF SessionInv
<1>2. /\ DOMAIN ran' = Fuzzers /\ \A h \in Fuzzers : ran[h] \subseteq ran'[h]
  BY <1>1 DEF DryRun, Shapes
<1> QED  BY <1>2, GoesOnStep DEF DryRun, memory, At, Goes

\* write_stats_file.
LEMMA WriteStatsStep ==
    ASSUME SessionInv, NEW f \in Fuzzers, WriteStats(f)  PROVE SessionInv'
<1>1. Shapes
  BY DEF SessionInv
<1>2. /\ DOMAIN ran' = Fuzzers /\ \A h \in Fuzzers : ran[h] \subseteq ran'[h]
      /\ UNCHANGED <<made, queue, resume, synced, in_place_resume, entries, hand, sync, work,
                       harmed, missed>>
  BY <1>1 DEF WriteStats, Shapes, memory, history
<1>3. PICK p \in {"stats", "fuzz"} : phase' = [phase EXCEPT ![f] = p]
  BY DEF WriteStats, Goes
<1>4. phase[f] \in {"dry run", "stats", "fuzz"}
  BY DEF WriteStats, At
<1> QED  BY <1>2, <1>3, <1>4, GoesOnStep

\* save_if_interesting: an entry more, and the file of the next number with nothing in it yet.
LEMMA QueuedOwner ==
    ASSUME SessionInv, SessionAssumption, NEW f \in Fuzzers, phase[f] \in {"fuzz", "sync"},
           NEW x \in Inputs, Queue(f, x), UNCHANGED <<made, resume, in_place_resume, work>>
    PROVE  /\ Begun(f)'
           /\ f \notin harmed =>
                /\ Whole(f)' /\ ~Fading(f) /\ DOMAIN Kept(f) \subseteq DOMAIN Kept(f)'
                /\ \A i \in DOMAIN Kept(f) : Kept(f)[i] # Empty => Kept(f)'[i] = Kept(f)[i]
<1> DEFINE es == entries[f]  n == Len(es)
<1>1. Shapes /\ Begun(f) /\ Made(queue[f]) /\ queue[f].there /\ f \in made
  BY DEF SessionInv, Begun, Running
<1>2. /\ x \notin ToSet(es) /\ phase'[f] = "write" /\ hand'[f] = x
      /\ entries'[f] = Append(es, x) /\ queue'[f] = With(queue[f], n, Empty)
  BY <1>1 DEF Queue, Shapes, Goes
<1>3. (Left(f)' <=> Left(f)) /\ (Fresh(f)' <=> Fresh(f))
  BY DEF Left, Fresh
<1>4. Made(queue'[f]) /\ queue'[f].there
  BY <1>1, <1>2, WithMade
<1>5. Begun(f)'
  BY <1>1, <1>2, <1>3, <1>4 DEF Begun, At, Running
<1>6. SUFFICES ASSUME f \notin harmed
               PROVE  /\ Whole(f)' /\ ~Fading(f) /\ DOMAIN Kept(f) \subseteq DOMAIN Kept(f)'
                      /\ \A i \in DOMAIN Kept(f) : Kept(f)[i] # Empty => Kept(f)'[i] = Kept(f)[i]
  BY <1>5
<1>7. /\ Whole(f) /\ Linking(f) /\ queue[f].there /\ ~Left(f) /\ IsList(es)
      /\ es \in Seq(Inputs) /\ n \in Nat
      /\ Kept(f) = queue[f].files /\ ~Fading(f) /\ ~Removing(f)
  BY <1>6, RunningIs DEF Running
<1>8. Holds(queue[f].files, es, n)
  BY <1>7 DEF Linking, Running, At
<1>9. OneMore(queue[f], queue'[f], es, n, Empty)
  <2>1. Empty \in Inputs \cup {Empty}
    OBVIOUS
  <2>2. OneMore(queue[f], With(queue[f], n, Empty), es, n, Empty)
    <3> HIDE DEF n, es
    <3> QED  BY <1>1, <1>7, <1>8, <2>1, NextNumber
  <2> QED  BY <1>2, <2>2
<1> DEFINE F == queue[f].files  G == queue'[f].files  fs == entries'[f]
<1>10. /\ G \in [0 .. n -> Inputs \cup {Empty}] /\ G[n] = Empty
       /\ \A i \in 0 .. n - 1 : G[i] = F[i] /\ G[i] = es[i + 1] /\ G[i] \in Inputs
       /\ DOMAIN F = 0 .. n - 1 /\ DOMAIN G = 0 .. n
  <2>1. \A i \in 0 .. n - 1 : es[i + 1] \in Inputs
    BY <1>7
  <2> QED  BY <1>9, <2>1 DEF OneMore
<1>11. /\ fs \in Seq(Inputs) /\ Len(fs) = n + 1 /\ fs[n + 1] = x
       /\ \A i \in 0 .. n - 1 : fs[i + 1] = es[i + 1]
  <2>1. fs = Append(es, x)
    BY <1>2
  <2> HIDE DEF fs
  <2> QED  BY <1>7, <2>1
<1>12. IsList(fs)
  <2>1. \A i, j \in 1 .. n : es[i] = es[j] => i = j
    BY <1>7 DEF IsList, IsInjective
  <2>2. \A i \in 1 .. n : es[i] # x /\ fs[i] = es[i]
    <3>1. \A i \in 1 .. n : es[i] \in ToSet(es)
      BY <1>7 DEF ToSet
    <3>2. fs = Append(es, x)
      BY <1>2
    <3>3. \A i \in 1 .. n : es[i] # x
      BY <1>2, <3>1
    <3> HIDE DEF fs
    <3>4. \A i \in 1 .. n : fs[i] = es[i]
      BY <1>7, <3>2
    <3> QED  BY <3>3, <3>4
  <2> HIDE DEF fs, es, n
  <2>3. \A i, j \in 1 .. n + 1 : fs[i] = fs[j] => i = j
    <3>1. n \in Nat
      BY <1>7
    <3>2. \A i \in 1 .. n + 1 : i \in 1 .. n \/ i = n + 1
      BY <3>1
    <3> QED  BY <1>11, <2>1, <2>2, <3>2
  <2> QED  BY <1>7, <1>11, <2>3 DEF IsList, IsInjective
<1>13. Empty \notin Inputs /\ Files' = Files /\ Inputs' = Inputs
  BY InputsTyped
<1> HIDE DEF F, G, es, fs, n
<1>14. Tidy(G) /\ G \in Files
  <2>1. \A i \in 0 .. n : G[i] = Empty => i = n
    BY <1>7, <1>10, <1>13
  <2>2. \A i, j \in 0 .. n : G[i] = G[j] => i = j
    <3>1. \A i, j \in 0 .. n - 1 : G[i] = G[j] => i = j
      <4>1. \A i, j \in 0 .. n - 1 : i + 1 \in DOMAIN es /\ j + 1 \in DOMAIN es
        BY <1>7 DEF n
      <4>2. ASSUME NEW i \in 0 .. n - 1, NEW j \in 0 .. n - 1, G[i] = G[j]  PROVE i + 1 = j + 1
        <5>1. es[i + 1] = es[j + 1]
          BY <1>10, <4>2
        <5>2. IsInjective(es)
          BY <1>7 DEF IsList
        <5> QED  BY <4>1, <5>1, <5>2 DEF IsInjective
      <4> QED  BY <4>2
    <3>2. \A i \in 0 .. n : i \in 0 .. n - 1 \/ i = n
      BY <1>7
    <3> QED  BY <1>10, <1>13, <3>1, <3>2
  <2> QED  BY <1>7, <1>10, <2>1, <2>2, TidyTo
<1>15. Kept(f)' = G /\ Kept(f) = F
  BY <1>3, <1>4, <1>7 DEF Kept, F, G
<1>16. Linking(f)'
  <2>1. Len(entries'[f]) - 1 = n /\ fs = entries'[f] /\ G = queue'[f].files
    BY <1>7, <1>11 DEF fs, G
  <2>2. LET m == Len(entries'[f]) - 1
        IN /\ queue'[f].files \in [0 .. m -> Inputs' \cup {Empty}]
           /\ \A i \in 0 .. m - 1 : queue'[f].files[i] = entries'[f][i + 1]
           /\ queue'[f].files[m] = Empty /\ hand'[f] = entries'[f][m + 1]
    <3>1. /\ G \in [0 .. n -> Inputs \cup {Empty}] /\ G[n] = Empty
          /\ \A i \in 0 .. n - 1 : G[i] = fs[i + 1]
          /\ hand'[f] = fs[n + 1]
      BY <1>2, <1>10, <1>11
    <3> QED  BY <1>13, <2>1, <3>1
  <2>3. IsList(entries[f])'
    BY <1>12, <1>13, <2>1 DEF IsList
  <2> QED  BY <1>2, <1>3, <1>4, <1>7, <2>2, <2>3 DEF Linking, Running, At
<1>17. Whole(f)'
  <2>1. Tidy(Kept(f))'
    BY <1>13, <1>14, <1>15 DEF Tidy
  <2>2. work'[f] \subseteq Inputs /\ work'[f] \subseteq Range(Kept(f)')
    <3>1. work[f] \subseteq Inputs /\ work[f] \subseteq Range(F)
      BY <1>7, <1>15 DEF Whole
    <3>2. \A i \in 0 .. n - 1 : i \in 0 .. n
      BY <1>7
    <3> QED  BY <1>10, <1>15, <3>1, <3>2 DEF Range
  <2>3. \A d \in {queue'[f], resume'[f]} : d.there => d.files \in Files
    BY <1>7, <1>14 DEF Whole, G
  <2> QED  BY <1>2, <1>3, <1>7, <1>13, <1>16, <2>1, <2>2, <2>3 DEF Whole, At
<1>18. 0 .. n - 1 \subseteq 0 .. n
  BY <1>7
<1> QED  BY <1>7, <1>10, <1>15, <1>17, <1>18

\* An interesting input of f's own.
LEMMA FindStep ==
    ASSUME SessionInv, SessionAssumption, NEW f \in Fuzzers, Find(f)  PROVE SessionInv'
<1>1. Shapes /\ Reading(f)
  BY DEF SessionInv
<1>2. /\ phase[f] = "fuzz"
      /\ UNCHANGED <<made, resume, synced, in_place_resume, sync, work, harmed, missed>>
  BY DEF Find, At
<1>3. PICK x \in Finds[f] : Queue(f, x) /\ ran' = [ran EXCEPT ![f] = @ \cup {x}]
  BY DEF Find
<1>4. x \in Inputs
  BY InputsTyped
<1>5. /\ Begun(f)'
      /\ f \notin harmed =>
           /\ Whole(f)' /\ ~Fading(f) /\ DOMAIN Kept(f) \subseteq DOMAIN Kept(f)'
           /\ \A i \in DOMAIN Kept(f) : Kept(f)[i] # Empty => Kept(f)'[i] = Kept(f)[i]
  BY <1>2, <1>3, <1>4, QueuedOwner
<1>6. /\ Shapes' /\ phase'[f] = "write" /\ \A g \in Fuzzers \ {f} : SameOwner(g)
      /\ \A g \in Fuzzers \ {f} : phase'[g] = phase[g]
  BY <1>1, <1>2, <1>3 DEF Shapes, Queue, Goes, SameOwner
<1>7. QuietReaders(f)
  <2>1. sync[f] = NoSync
    BY <1>1, <1>2 DEF Reading
  <2>2. \A h \in Fuzzers : ran[h] \subseteq ran'[h]
    BY <1>1, <1>3 DEF Shapes
  <2> QED  BY <1>2, <1>6, <2>1, <2>2 DEF QuietReaders
<1> QED  BY <1>2, <1>5, <1>6, <1>7, QuietStep

\* ck_write: the last file gets what is in hand.
LEMMA WriteStep ==
    ASSUME SessionInv, SessionAssumption, NEW f \in Fuzzers, Contents(f), Writing(f), Write(f)
    PROVE  SessionInv'
<1> DEFINE es == entries[f]  n == Len(es) - 1  x == hand[f]
<1>1. /\ phase[f] = "write" /\ queue' = [queue EXCEPT ![f] = With(@, n, x)]
      /\ hand' = [hand EXCEPT ![f] = Empty] /\ work' = [work EXCEPT ![f] = @ \cup {x}]
      /\ phase' = [phase EXCEPT ![f] = IF sync[f] = NoSync THEN "fuzz" ELSE "sync"]
      /\ UNCHANGED <<made, resume, synced, in_place_resume, entries, sync, harmed, ran, missed>>
  BY DEF Write, At, Goes
<1>2. Shapes /\ Begun(f) /\ Reading(f) /\ Made(queue[f]) /\ queue[f].there /\ f \in made
  BY <1>1 DEF SessionInv, Begun, Running
<1>3. /\ Shapes' /\ phase'[f] = (IF sync[f] = NoSync THEN "fuzz" ELSE "sync")
      /\ queue'[f] = With(queue[f], n, x) /\ work'[f] = work[f] \cup {x}
      /\ \A g \in Fuzzers \ {f} : SameOwner(g) /\ phase'[g] = phase[g]
  BY <1>1, <1>2 DEF Shapes, SameOwner
<1>4. QuietReaders(f)
  BY <1>1, <1>2, <1>3 DEF QuietReaders, Reading
<1>5. (Left(f)' <=> Left(f)) /\ (Fresh(f)' <=> Fresh(f))
  BY <1>1 DEF Left, Fresh
<1>6. Made(queue'[f]) /\ queue'[f].there
  BY <1>2, <1>3, WithMade
<1>7. Begun(f)'
  <2>1. phase'[f] \in {"fuzz", "sync"} /\ f \in made'
    BY <1>1, <1>2, <1>3
  <2>2. Made(resume'[f])
    BY <1>1, <1>2 DEF Begun
  <2> HIDE DEF es, n, x
  <2> QED  BY <1>5, <1>6, <2>1, <2>2 DEF Begun, At, Running
<1>8. SUFFICES ASSUME f \notin harmed
               PROVE  /\ Whole(f)' /\ ~Fading(f) /\ DOMAIN Kept(f) \subseteq DOMAIN Kept(f)'
                      /\ \A i \in DOMAIN Kept(f) : Kept(f)[i] # Empty => Kept(f)'[i] = Kept(f)[i]
  BY <1>1, <1>3, <1>4, <1>7, QuietStep
<1>9. /\ Whole(f) /\ Linking(f) /\ queue[f].there /\ ~Left(f) /\ IsList(es)
      /\ es \in Seq(Inputs) /\ n \in Nat /\ Len(es) = n + 1
      /\ Kept(f) = queue[f].files /\ ~Fading(f) /\ ~Removing(f)
  <2>1. phase[f] \in Running
    BY <1>1 DEF Running
  <2>2. /\ Whole(f) /\ Linking(f) /\ queue[f].there /\ ~Left(f) /\ IsList(es)
        /\ es \in Seq(Inputs) /\ Len(es) \in Nat \ {0}
        /\ Kept(f) = queue[f].files /\ ~Fading(f) /\ ~Removing(f)
    BY <1>8, <2>1, RunningIs
  <2>3. n \in Nat /\ Len(es) = n + 1
    BY <2>2
  <2> QED  BY <2>2, <2>3
<1> DEFINE F == queue[f].files  G == queue'[f].files
<1>10. /\ F \in [0 .. n -> Inputs \cup {Empty}] /\ F[n] = Empty /\ x = es[n + 1]
       /\ \A i \in 0 .. n - 1 : F[i] = es[i + 1]
  BY <1>1, <1>9 DEF Linking, Running, At
<1>11. x \in Inputs
  BY <1>9, <1>10
<1>12. G = Put(F, n, x)
  BY <1>2, <1>3, WithIs
<1> HIDE DEF F, G, n, x, es
<1>13. /\ G \in [0 .. n -> Inputs \cup {Empty}] /\ DOMAIN F = 0 .. n /\ DOMAIN G = 0 .. n /\ G[n] = x
       /\ \A i \in 0 .. n - 1 : G[i] = F[i]
  <2>1. DOMAIN F \cup {n} = 0 .. n
    BY <1>9, <1>10
  <2>2. G = [j \in 0 .. n |-> IF j = n THEN x ELSE F[j]]
    BY <1>12, <2>1 DEF Put
  <2> QED  BY <1>9, <1>10, <1>11, <2>2
<1>14. \A i \in 0 .. n : G[i] = es[i + 1]
  <2>1. \A i \in 0 .. n : i \in 0 .. n - 1 \/ i = n
    BY <1>9
  <2> QED  BY <1>10, <1>13, <2>1
<1>15. Holds(G, es, Len(es))
  BY <1>9, <1>13, <1>14, HoldsNext
<1>16. Tidy(G) /\ G \in Files
  <2>1. Len(es) \in 0 .. Len(es) /\ IsInjective(es)
    BY <1>9 DEF IsList
  <2> QED  BY <1>9, <1>15, <2>1, HoldsLess
<1>17. Kept(f)' = G /\ Kept(f) = F
  BY <1>5, <1>6, <1>9 DEF Kept, F, G
<1>18. Files' = Files /\ Inputs' = Inputs
  BY InputsTyped
<1>19. Linking(f)'
  <2>1. es = entries'[f] /\ G = queue'[f].files
    BY <1>1 DEF es, G
  <2>2. Holds(queue[f].files, entries[f], Len(entries[f]))' /\ IsList(entries[f])'
    BY <1>9, <1>15, <1>18, <2>1 DEF Holds, IsList
  <2> QED  BY <1>3, <1>5, <1>6, <1>9, <2>2 DEF Linking, Running, At
<1>20. Whole(f)'
  <2>1. Tidy(Kept(f))'
    BY <1>16, <1>17, <1>18 DEF Tidy
  <2>2. work'[f] \subseteq Inputs /\ work'[f] \subseteq Range(Kept(f)')
    <3>1. work[f] \subseteq Inputs /\ work[f] \subseteq Range(F) /\ Empty \notin Inputs
      BY <1>9, <1>17, InputsTyped DEF Whole
    <3>2. \A i \in 0 .. n : i \in 0 .. n - 1 \/ i = n
      BY <1>9
    <3>3. \A i \in DOMAIN F : F[i] \in Inputs => i \in 0 .. n /\ G[i] = F[i]
      BY <1>10, <1>13, <3>1, <3>2
    <3>4. n \in DOMAIN G
      BY <1>9, <1>13
    <3> QED  BY <1>3, <1>11, <1>13, <1>17, <3>1, <3>3, <3>4 DEF Range
  <2>3. \A d \in {queue'[f], resume'[f]} : d.there => d.files \in Files
    BY <1>1, <1>9, <1>16 DEF Whole, G
  <2> QED  BY <1>1, <1>3, <1>5, <1>9, <1>18, <1>19, <2>1, <2>2, <2>3 DEF Whole, At
<1>21. \A i \in DOMAIN F : F[i] # Empty => G[i] = F[i]
  <2>1. \A i \in 0 .. n : i \in 0 .. n - 1 \/ i = n
    BY <1>9
  <2> QED  BY <1>10, <1>13, <2>1
<1> QED  BY <1>9, <1>13, <1>17, <1>20, <1>21

\* A pass over another queue begins at the number remembered.
LEMMA BeginSyncStep ==
    ASSUME SessionInv, SessionAssumption, NEW f \in Fuzzers, \A g \in Fuzzers : Contents(g),
           BeginSync(f)
    PROVE  SessionInv'
<1>1. PICK g \in Fuzzers \ {f} :
         /\ queue[g].there
         /\ sync' = [sync EXCEPT ![f] =
                [at |-> "queue", party |-> g, min_accept |-> synced[f][g],
                 due |-> DOMAIN queue[g].files, seen |-> {}, got |-> {}]]
  BY DEF BeginSync
<1>2. /\ phase[f] = "fuzz" /\ phase' = [phase EXCEPT ![f] = "sync"]
      /\ UNCHANGED <<made, queue, resume, synced, in_place_resume, entries, hand, work, harmed,
                     ran, missed>>
  BY DEF BeginSync, At, Goes, disk, history
<1>3. Shapes /\ Begun(f) /\ \A h \in Fuzzers : Reading(h)
  BY DEF SessionInv
<1>4. /\ Shapes' /\ phase'[f] = "sync" /\ f \in made
      /\ \A h \in Fuzzers \ {f} : SameOwner(h) /\ phase'[h] = phase[h] /\ sync'[h] = sync[h]
  BY <1>1, <1>2, <1>3 DEF Shapes, SameOwner, Begun
<1>5. /\ Begun(f)' /\ Kept(f)' = Kept(f)
      /\ f \notin harmed => Whole(f)' /\ ~Fading(f)
  BY <1>2, <1>4, GoesOnOwner
<1>6. sync[f] = NoSync
  BY <1>2, <1>3 DEF Reading
<1>7. /\ sync'[f] \in SyncRecs(f) /\ sync'[f].min_accept = synced[f][sync'[f].party]
      /\ sync'[f].seen = {} /\ sync'[f].got = {}
  <2>1. queue[g].files \in Files
    BY <1>1 DEF Contents
  <2>2. DOMAIN queue[g].files \in SUBSET Nat
    BY <2>1 DEF Files
  <2>3. synced[f][g] \in Nat
    BY <1>3 DEF Shapes
  <2> DEFINE due == DOMAIN queue[g].files
             r == [at |-> "queue", party |-> g, min_accept |-> synced[f][g],
                   due |-> due, seen |-> {}, got |-> {}]
  <2>4. sync'[f] = r
    BY <1>1, <1>3 DEF Shapes
  <2> HIDE DEF due
  <2>5. due \in SUBSET Nat
    BY <2>2 DEF due
  <2>6. r \in SyncRecs(f)
    BY <2>3, <2>5 DEF SyncRecs
  <2> QED  BY <2>4, <2>6
<1>8. \A h \in Fuzzers : Reading(h)'
  <2> SUFFICES ASSUME NEW h \in Fuzzers  PROVE Reading(h)'
    OBVIOUS
  <2>1. CASE h = f
    <3>1. SyncRecs(f)' = SyncRecs(f) /\ 0 \in Nat
      BY DEF SyncRecs
    <3>2. /\ sync'[f].min_accept = synced'[f][sync'[f].party]
          /\ \A i \in sync'[f].seen : i >= sync'[f].min_accept
          /\ \E b \in Nat : \A i \in sync'[f].seen : i <= b
      BY <1>2, <1>7, <3>1
    <3>3. sync'[f] # NoSync
      BY <1>7 DEF SyncRecs, NoSync
    <3> QED  BY <1>4, <1>7, <2>1, <3>1, <3>2, <3>3 DEF Reading, At
  <2>2. CASE h # f
    BY <1>2, <1>3, <1>4, <2>2, ReaderStays
  <2> QED  BY <2>1, <2>2
<1>9. \A h, g2 \in Fuzzers : Known(h, g2)' = Known(h, g2)
  <2> SUFFICES ASSUME NEW h \in Fuzzers, NEW g2 \in Fuzzers  PROVE Known(h, g2)' = Known(h, g2)
    OBVIOUS
  <2>1. CASE h = f
    BY <1>2, <1>6, <1>7, <2>1 DEF Known
  <2>2. CASE h # f
    BY <1>2, <1>4, <2>2, KnownStays
  <2> QED  BY <2>1, <2>2
<1>10. \A h \in Fuzzers, g2 \in Fuzzers \ {f} : g2 \notin harmed => Executed(h, g2)'
  BY <1>2, <1>4, <1>9, OwnerStays, ExecutedStays DEF SessionInv
<1>11. f \notin harmed' => \A h \in Fuzzers : Executed(h, f)'
  BY <1>2, <1>5, <1>9, ExecutedStays DEF SessionInv
<1> QED  BY <1>2, <1>4, <1>5, <1>8, <1>10, <1>11, StepOf

\* A record with one number more that was listed, and one that was read too.
SeenToo(r, i) == [r EXCEPT !.seen = @ \cup {i}]
ReadToo(r, i) == [r EXCEPT !.seen = @ \cup {i}, !.got = @ \cup {i}]

\* What a number more does to the record of a pass.
LEMMA SeenMore ==
    ASSUME NEW h, NEW r \in SyncRecs(h), NEW i \in Nat, NEW q, q = SeenToo(r, i) \/ q = ReadToo(r, i)
    PROVE  /\ q \in SyncRecs(h) /\ q # NoSync /\ q.party = r.party /\ q.at = r.at
           /\ q.min_accept = r.min_accept /\ q.seen = r.seen \cup {i}
           /\ q.got \subseteq r.got \cup {i}
           /\ q = SeenToo(r, i) => q.got = r.got
<1>1. CASE q = SeenToo(r, i)
  <2>1. /\ q \in SyncRecs(h) /\ q.party = r.party /\ q.at = r.at
        /\ q.min_accept = r.min_accept /\ q.seen = r.seen \cup {i} /\ q.got = r.got
    BY <1>1 DEF SyncRecs, SeenToo
  <2>2. q # NoSync
    BY <2>1 DEF SyncRecs, NoSync
  <2> QED  BY <2>1, <2>2
<1>2. CASE q = ReadToo(r, i)
  <2>1. /\ q \in SyncRecs(h) /\ q.party = r.party /\ q.at = r.at
        /\ q.min_accept = r.min_accept /\ q.seen = r.seen \cup {i} /\ q.got = r.got \cup {i}
    BY <1>2 DEF SyncRecs, ReadToo
  <2>2. q # NoSync
    BY <2>1 DEF SyncRecs, NoSync
  <2>3. q = SeenToo(r, i) => q.got = r.got
    BY DEF SyncRecs, SeenToo
  <2> QED  BY <2>1, <2>2, <2>3
<1> QED  BY <1>1, <1>2

\* What is listed is a number from the one remembered on.
LEMMA ListedIs ==
    ASSUME Shapes, NEW f \in Fuzzers, sync[f] \in SyncRecs(f), sync[f] # NoSync, Handles(f),
           Contents(sync[f].party), NEW i \in Listed(f)
    PROVE  i \in Nat /\ i >= sync[f].min_accept
<1>1. PICK files : /\ i \in files /\ i >= sync[f].min_accept
                   /\ \/ sync[f].at = "queue" /\ files = DOMAIN queue[sync[f].party].files
                      \/ sync[f].at = "resume" /\ files = DOMAIN resume[sync[f].party].files
  <2>1. CASE sync[f].at = "queue"
    BY <2>1 DEF Listed
  <2>2. CASE sync[f].at = "resume"
    BY <2>2 DEF Listed
  <2>3. CASE sync[f].at = "gone"
    BY <2>3 DEF Listed
  <2> QED  BY <2>1, <2>2, <2>3 DEF SyncRecs
<1>2. \E F \in Files : files = DOMAIN F
  BY <1>1 DEF Handles, Contents
<1> QED  BY <1>1, <1>2 DEF Files

\* The pass of f goes on: what it takes for read of its party may be one number more.
LEMMA SeenReading ==
    ASSUME NEW f \in Fuzzers, Reading(f), sync[f] # NoSync, NEW i \in Nat, i >= sync[f].min_accept,
           sync'[f] \in SyncRecs(f), sync'[f] # NoSync, sync'[f].party = sync[f].party,
           sync'[f].min_accept = sync[f].min_accept, sync'[f].seen = sync[f].seen \cup {i},
           synced'[f] = synced[f], phase'[f] \in {"sync", "write"}
    PROVE  Reading(f)'
<1>1. PICK b \in Nat : \A j \in sync[f].seen : j <= b
  BY DEF Reading
<1>2. PICK c \in Nat : c >= b /\ c >= i
  BY <1>1
<1>3. \A j \in sync'[f].seen : j <= c
  <2>1. \A j \in sync[f].seen : j \in Nat
    BY DEF Reading, SyncRecs
  <2> QED  BY <1>1, <1>2, <2>1
<1>4. \A j \in sync'[f].seen : j >= sync'[f].min_accept
  BY DEF Reading
<1>5. SyncRecs(f)' = SyncRecs(f)
  BY DEF SyncRecs
<1> QED  BY <1>2, <1>3, <1>4, <1>5 DEF Reading

\* A file that cannot be opened or has nothing in it is passed over: it is not taken for read.
LEMMA PassOverStep ==
    ASSUME SessionInv, SessionAssumption, NEW f \in Fuzzers, \A g \in Fuzzers : Contents(g),
           Handles(f), PassOver(f)
    PROVE  SessionInv'
<1>1. PICK i \in Listed(f) : sync' = [sync EXCEPT ![f].seen = @ \cup {i}]
  BY DEF PassOver
<1>2. /\ phase[f] = "sync"
      /\ UNCHANGED <<phase, made, queue, resume, synced, in_place_resume, entries, hand, work,
                     harmed, ran, missed>>
  BY DEF PassOver, At, disk, history
<1>3. Shapes /\ Begun(f) /\ f \in made /\ \A h \in Fuzzers : Reading(h)
  BY <1>2 DEF SessionInv, Begun
<1>4. /\ Shapes' /\ \A h \in Fuzzers \ {f} : SameOwner(h) /\ sync'[h] = sync[h]
  BY <1>1, <1>2, <1>3 DEF Shapes, SameOwner
<1>5. sync[f] # NoSync /\ sync[f] \in SyncRecs(f) /\ sync[f].party \in Fuzzers
  <2>1. sync[f] # NoSync /\ sync[f] \in SyncRecs(f)
    BY <1>2, <1>3 DEF Reading, At
  <2> QED  BY <2>1 DEF SyncRecs
<1>6. i \in Nat /\ i >= sync[f].min_accept
  BY <1>3, <1>5, ListedIs
<1>7. /\ sync'[f] \in SyncRecs(f) /\ sync'[f] # NoSync /\ sync'[f].party = sync[f].party
      /\ sync'[f].min_accept = sync[f].min_accept /\ sync'[f].seen = sync[f].seen \cup {i}
      /\ sync'[f].got = sync[f].got
  <2>1. PICK r \in SyncRecs(f) : r = sync[f]
    BY <1>5
  <2>2. sync'[f] = SeenToo(r, i)
    BY <1>1, <1>3, <2>1 DEF Shapes, SeenToo
  <2> QED  BY <1>6, <2>1, <2>2, SeenMore
<1>8. \A h \in Fuzzers : Reading(h)'
  <2>1. Reading(f)'
    BY <1>2, <1>3, <1>5, <1>6, <1>7, SeenReading
  <2> QED  BY <1>2, <1>3, <1>4, <2>1, ReaderStays
<1>9. \A h, g \in Fuzzers : Known(h, g)' = Known(h, g)
  <2> SUFFICES ASSUME NEW h \in Fuzzers, NEW g \in Fuzzers  PROVE Known(h, g)' = Known(h, g)
    OBVIOUS
  <2>1. CASE h = f
    BY <1>2, <1>5, <1>7, <2>1 DEF Known
  <2>2. CASE h # f
    BY <1>2, <1>4, <2>2, KnownStays
  <2> QED  BY <2>1, <2>2
<1>10. SameOwner(f)
  BY <1>2 DEF SameOwner
<1>11. \A h, g \in Fuzzers : g \notin harmed => Executed(h, g)'
  BY <1>2, <1>4, <1>9, <1>10, OwnerStays, ExecutedStays DEF SessionInv
<1>12. Begun(f)' /\ (f \notin harmed => Whole(f)')
  BY <1>10, OwnerStays DEF SessionInv
<1> QED  BY <1>2, <1>4, <1>8, <1>11, <1>12, StepOf

\* A file that is read was executed, whether it is kept or not.
LEMMA ImportStep ==
    ASSUME SessionInv, SessionAssumption, NEW f \in Fuzzers, \A g \in Fuzzers : Contents(g),
           Handles(f), Import(f)
    PROVE  SessionInv'
<1>4. PICK g : g = sync[f].party
  OBVIOUS
<1>1. PICK i \in Listed(f) :
         /\ Opens(f, i)
         /\ sync' = [sync EXCEPT ![f].seen = @ \cup {i}, ![f].got = @ \cup {i}]
         /\ ran' = [ran EXCEPT ![f] = @ \cup {queue[g].files[i]}]
         /\ Queue(f, queue[g].files[i]) \/ UNCHANGED <<phase, entries, hand, queue>>
  BY <1>4 DEF Import
<1> DEFINE x == queue[g].files[i]
<1>2. /\ phase[f] = "sync"
      /\ UNCHANGED <<made, resume, synced, in_place_resume, work, harmed, missed>>
  BY DEF Import, At
<1>3. Shapes /\ Begun(f) /\ f \in made /\ \A h \in Fuzzers : Reading(h)
  BY <1>2 DEF SessionInv, Begun
<1>5. sync[f] # NoSync /\ sync[f] \in SyncRecs(f) /\ g \in Fuzzers \ {f}
  <2>1. sync[f] # NoSync /\ sync[f] \in SyncRecs(f)
    BY <1>2, <1>3 DEF Reading, At
  <2> QED  BY <1>4, <2>1 DEF SyncRecs
<1>6. i \in Nat /\ i >= sync[f].min_accept /\ x \in Inputs
  BY <1>1, <1>3, <1>4, <1>5, ListedIs, OpensInput
<1>7. /\ sync'[f] \in SyncRecs(f) /\ sync'[f] # NoSync /\ sync'[f].party = g
      /\ sync'[f].min_accept = sync[f].min_accept /\ sync'[f].seen = sync[f].seen \cup {i}
      /\ sync'[f].got \subseteq sync[f].got \cup {i}
  <2>1. PICK r \in SyncRecs(f) : r = sync[f]
    BY <1>5
  <2>2. sync'[f] = ReadToo(r, i)
    BY <1>1, <1>3, <2>1 DEF Shapes, ReadToo
  <2> QED  BY <1>4, <1>6, <2>1, <2>2, SeenMore
<1> HIDE DEF x
<1>8. /\ ran'[f] = ran[f] \cup {x} /\ \A h \in Fuzzers : ran[h] \subseteq ran'[h]
      /\ DOMAIN ran' = Fuzzers /\ DOMAIN sync' = Fuzzers
      /\ \A h \in Fuzzers \ {f} : sync'[h] = sync[h]
  BY <1>1, <1>3 DEF Shapes, x
<1>9. Queue(f, x) \/ UNCHANGED <<phase, entries, hand, queue>>
  BY <1>1 DEF x
<1>10. /\ Shapes' /\ phase'[f] \in {"sync", "write"}
       /\ \A h \in Fuzzers \ {f} : SameOwner(h) /\ phase'[h] = phase[h]
  BY <1>2, <1>3, <1>8, <1>9 DEF Shapes, SameOwner, Queue, Goes
<1>11. /\ Begun(f)'
       /\ f \notin harmed =>
            /\ Whole(f)'
            /\ \/ Kept(f)' = Kept(f) /\ (Fading(f) => Fading(f)')
               \/ /\ ~Fading(f) /\ DOMAIN Kept(f) \subseteq DOMAIN Kept(f)'
                  /\ \A j \in DOMAIN Kept(f) : Kept(f)[j] # Empty => Kept(f)'[j] = Kept(f)[j]
  <2>1. CASE Queue(f, x)
    BY <1>2, <1>6, <2>1, QueuedOwner
  <2>2. CASE UNCHANGED <<phase, entries, hand, queue>>
    <3>1. SameOwner(f)
      BY <1>2, <2>2 DEF SameOwner
    <3> QED  BY <3>1, OwnerStays DEF SessionInv
  <2> QED  BY <1>9, <2>1, <2>2
<1>12. \A h \in Fuzzers : Reading(h)'
  <2>1. Reading(f)'
    BY <1>2, <1>3, <1>5, <1>6, <1>7, <1>10, <1>4, SeenReading
  <2> QED  BY <1>2, <1>3, <1>8, <1>10, <2>1, ReaderStays
<1>13. /\ \A h, g2 \in Fuzzers : <<h, g2>> # <<f, g>> => Known(h, g2)' = Known(h, g2)
       /\ Known(f, g)' \subseteq Known(f, g) \cup {i}
  <2>1. \A h \in Fuzzers \ {f}, g2 \in Fuzzers : Known(h, g2)' = Known(h, g2)
    BY <1>2, <1>8, KnownStays
  <2>2. \A g2 \in Fuzzers \ {g} : Known(f, g2)' = Known(f, g2)
    BY <1>2, <1>4, <1>5, <1>7 DEF Known
  <2>3. Known(f, g)' \subseteq Known(f, g) \cup {i}
    BY <1>2, <1>4, <1>5, <1>7 DEF Known
  <2> QED  BY <2>1, <2>2, <2>3
\* What was opened in queue/ is in what g goes on with, too.
<1>14. g \notin harmed => Executed(f, g)'
  <2> SUFFICES ASSUME g \notin harmed  PROVE Executed(f, g)'
    OBVIOUS
  <2>1. Executed(f, g) /\ Whole(g) /\ SameOwner(g)
    BY <1>5, <1>10 DEF SessionInv
  <2>5. Kept(g)' = Kept(g) /\ (Fading(g)' <=> Fading(g))
    BY <2>1, OwnerStays
  <2>2. queue[g].there /\ i \in DOMAIN queue[g].files /\ queue[g].files[i] = x
    BY <1>1, <1>4 DEF Opens, x
  <2>3. i \in DOMAIN Kept(g) /\ Kept(g)[i] = x
    BY <2>1, <2>2 DEF Whole, Kept
  <2>4. x # Empty
    BY <1>6, InputsTyped
  <2> QED  BY <1>8, <1>13, <2>1, <2>3, <2>4, <2>5 DEF Executed
<1>15. \A h \in Fuzzers, g2 \in Fuzzers \ {f} : g2 \notin harmed => Executed(h, g2)'
  <2> SUFFICES ASSUME NEW h \in Fuzzers, NEW g2 \in Fuzzers \ {f}, g2 \notin harmed
               PROVE  Executed(h, g2)'
    OBVIOUS
  <2>1. CASE <<h, g2>> = <<f, g>>
    BY <1>14, <2>1
  <2>2. CASE <<h, g2>> # <<f, g>>
    <3>1. Executed(h, g2) /\ SameOwner(g2) /\ ran[h] \subseteq ran'[h]
      BY <1>8, <1>10 DEF SessionInv
    <3>2. Known(h, g2)' = Known(h, g2)
      BY <1>13, <2>2
    <3>3. Kept(g2)' = Kept(g2) /\ (Fading(g2)' <=> Fading(g2))
      BY <3>1, OwnerStays
    <3> QED  BY <3>1, <3>2, <3>3, ExecutedStays
  <2> QED  BY <2>1, <2>2
<1>16. f \notin harmed => \A h \in Fuzzers : Executed(h, f)'
  <2> SUFFICES ASSUME f \notin harmed, NEW h \in Fuzzers  PROVE Executed(h, f)'
    OBVIOUS
  <2>1. Executed(h, f) /\ Known(h, f)' \subseteq Known(h, f) /\ ran[h] \subseteq ran'[h]
    BY <1>5, <1>8, <1>13 DEF SessionInv
  <2> QED  BY <1>11, <2>1, ExecutedStays, ExecutedGrows
<1> QED  BY <1>2, <1>10, <1>11, <1>12, <1>15, <1>16, StepOf

\* Numbers have a least one.
LEMMA LeastNumber ==
    ASSUME NEW S \in SUBSET Nat, S # {}
    PROVE  \E x \in S : \A y \in S : x <= y
<1> DEFINE Less == {ss \in Nat \X Nat : ss[1] < ss[2]}
<1>1. IsWellFoundedOn(Less, Nat)
  BY NatLessThanWellFounded DEF OpToRel
<1>2. PICK x \in S : \A y \in S : ~(<<y, x>> \in Less)
  BY <1>1, WFMin
<1>3. ASSUME NEW y \in S, ~(x <= y)  PROVE FALSE
  <2>1. x \in Nat /\ y \in Nat /\ y < x
    BY <1>3
  <2>2. <<y, x>> \in Less
    BY <2>1
  <2> QED  BY <1>2, <2>2
<1> QED  BY <1>3

\* The greatest of numbers that have a bound.
LEMMA MaxIs ==
    ASSUME NEW S \in SUBSET Nat, S # {}, NEW b \in Nat, \A y \in S : y <= b
    PROVE  Max(S) \in S /\ \A y \in S : y <= Max(S)
<1> DEFINE T == {u \in Nat : \A y \in S : y <= u}
<1>1. b \in T
  OBVIOUS
<1>2. PICK u \in T : \A v \in T : u <= v
  BY <1>1, LeastNumber
<1>3. u \in S
  <2> SUFFICES ASSUME u \notin S  PROVE FALSE
    OBVIOUS
  <2>1. PICK y \in S : TRUE
    OBVIOUS
  <2>2. u > 0 /\ u - 1 \in Nat
    BY <2>1
  <2>3. \A z \in S : z <= u - 1
    OBVIOUS
  <2> QED  BY <1>2, <2>2, <2>3
<1>4. u \in S /\ \A y \in S : u >= y
  BY <1>3
<1>5. Max(S) \in S /\ \A y \in S : Max(S) >= y
  BY <1>4 DEF Max
<1> QED  BY <1>5

\* Every number below the one remembered next was below the old one, read, or left behind.
LEMMA NextMin ==
    ASSUME NEW f \in Fuzzers, Reading(f), sync[f] # NoSync
    PROVE  /\ NextMinAccept(f) \in Nat
           /\ \A i \in Nat : i < NextMinAccept(f) =>
                \/ i < sync[f].min_accept
                \/ i \in sync[f].got
                \/ i \in LeftBehind(f)
<1> DEFINE min == sync[f].min_accept  seen == sync[f].seen
           S == {min} \cup {i + 1 : i \in seen}
<1>1. min \in Nat /\ seen \in SUBSET Nat
  BY DEF Reading, SyncRecs
<1>2. PICK b \in Nat : \A i \in seen : i <= b
  BY DEF Reading
<1>3. S \in SUBSET Nat /\ S # {} /\ min + b + 1 \in Nat /\ \A y \in S : y <= min + b + 1
  BY <1>1, <1>2
<1>4. Max(S) \in S
  <2> HIDE DEF S
  <2> QED  BY <1>3, MaxIs
<1>5. NextMinAccept(f) = Max(S)
  BY DEF NextMinAccept
<1>6. NextMinAccept(f) \in Nat
  BY <1>3, <1>4, <1>5
<1>7. ASSUME NEW i \in Nat, i < NextMinAccept(f), ~(i < min), i \notin sync[f].got
      PROVE  i \in LeftBehind(f)
  <2>1. PICK j \in seen : Max(S) = j + 1
    BY <1>1, <1>4, <1>5, <1>7
  <2>2. i \in min .. j
    BY <1>1, <1>5, <1>7, <2>1
  <2>3. LeftBehind(f) = (UNION {min .. l : l \in seen}) \ sync[f].got
    BY DEF LeftBehind
  <2>4. min .. j \in {min .. l : l \in seen}
    BY <2>1
  <2>5. i \in UNION {min .. l : l \in seen}
    BY <2>2, <2>4, Zenon
  <2> QED  BY <1>7, <2>3, <2>5
<1> QED  BY <1>6, <1>7

\* The end of a pass: the numbers it skipped are remembered as left behind.
LEMMA EndSyncStep ==
    ASSUME SessionInv, NEW f \in Fuzzers, EndSync(f)  PROVE SessionInv'
<1>1. PICK g : g = sync[f].party
  OBVIOUS
<1>2. /\ phase[f] = "sync" /\ phase' = [phase EXCEPT ![f] = "fuzz"]
      /\ synced' = [synced EXCEPT ![f][g] = NextMinAccept(f)]
      /\ missed' = [missed EXCEPT ![f][g] = @ \cup LeftBehind(f)]
      /\ sync' = [sync EXCEPT ![f] = NoSync]
      /\ UNCHANGED <<made, queue, resume, in_place_resume, entries, hand, work, harmed, ran>>
  BY <1>1 DEF EndSync, At, Goes
<1>3. Shapes /\ Begun(f) /\ f \in made /\ \A h \in Fuzzers : Reading(h)
  BY <1>2 DEF SessionInv, Begun
<1>4. sync[f] # NoSync /\ g \in Fuzzers \ {f} /\ sync[f].min_accept = synced[f][g]
  BY <1>1, <1>2, <1>3 DEF Reading, At, SyncRecs
<1>5. /\ NextMinAccept(f) \in Nat
      /\ \A i \in Nat : i < NextMinAccept(f) =>
           i < synced[f][g] \/ i \in sync[f].got \/ i \in LeftBehind(f)
  BY <1>3, <1>4, NextMin
<1>6. synced' \in [Fuzzers -> [Fuzzers -> Nat]]
  <2>1. synced \in [Fuzzers -> [Fuzzers -> Nat]]
    BY <1>3 DEF Shapes
  <2> QED  BY <1>2, <1>4, <1>5, <2>1
<1>7. /\ Shapes' /\ phase'[f] = "fuzz" /\ sync'[f] = NoSync
      /\ \A h \in Fuzzers \ {f} : /\ SameOwner(h) /\ phase'[h] = phase[h] /\ sync'[h] = sync[h]
                                  /\ synced'[h] = synced[h] /\ missed'[h] = missed[h]
  BY <1>2, <1>3, <1>6 DEF Shapes, SameOwner
<1>8. /\ Begun(f)' /\ Kept(f)' = Kept(f)
      /\ f \notin harmed => Whole(f)' /\ ~Fading(f)
  BY <1>2, <1>3, <1>7, GoesOnOwner
<1>9. \A h \in Fuzzers : Reading(h)'
  <2>1. Reading(f)'
    BY <1>7 DEF Reading, At, NoSync
  <2> QED  BY <1>3, <1>7, <2>1, ReaderStays
<1>10. /\ synced'[f][g] = NextMinAccept(f) /\ missed'[f][g] = missed[f][g] \cup LeftBehind(f)
       /\ \A g2 \in Fuzzers \ {g} : synced'[f][g2] = synced[f][g2] /\ missed'[f][g2] = missed[f][g2]
  <2>1. DOMAIN synced[f] = Fuzzers /\ DOMAIN missed[f] = Fuzzers
    BY <1>3 DEF Shapes
  <2> QED  BY <1>2, <1>3, <1>4, <2>1 DEF Shapes
<1>11. Known(f, g)' \subseteq Known(f, g)
  <2>1. Known(f, g)' = {i \in 0 .. NextMinAccept(f) - 1 : i \notin missed[f][g] \cup LeftBehind(f)}
    BY <1>7, <1>10 DEF Known
  <2>2. Known(f, g) = {i \in 0 .. synced[f][g] - 1 : i \notin missed[f][g]} \cup sync[f].got
    BY <1>1, <1>4 DEF Known
  <2>3. synced[f][g] \in Nat
    BY <1>3, <1>4 DEF Shapes
  <2>4. ASSUME NEW i \in 0 .. NextMinAccept(f) - 1, i \notin missed[f][g], i \notin LeftBehind(f)
        PROVE  i \in Known(f, g)
    <3>1. i \in Nat /\ i < NextMinAccept(f)
      BY <1>5
    <3>2. i < synced[f][g] \/ i \in sync[f].got
      BY <1>5, <2>4, <3>1
    <3>3. i < synced[f][g] => i \in 0 .. synced[f][g] - 1
      BY <2>3, <3>1
    <3> QED  BY <2>2, <2>4, <3>2, <3>3
  <2> QED  BY <2>1, <2>4
<1>12. \A h, g2 \in Fuzzers : Known(h, g2)' \subseteq Known(h, g2)
  <2> SUFFICES ASSUME NEW h \in Fuzzers, NEW g2 \in Fuzzers
               PROVE  Known(h, g2)' \subseteq Known(h, g2)
    OBVIOUS
  <2>1. CASE h # f
    BY <1>7, <2>1, KnownStays
  <2>2. CASE h = f /\ g2 = g
    BY <1>11, <2>2
  <2>3. CASE h = f /\ g2 # g
    BY <1>7, <1>10, <2>3 DEF Known
  <2> QED  BY <2>1, <2>2, <2>3
<1>13. \A h \in Fuzzers, g2 \in Fuzzers \ {f} : g2 \notin harmed => Executed(h, g2)'
  <2> SUFFICES ASSUME NEW h \in Fuzzers, NEW g2 \in Fuzzers \ {f}, g2 \notin harmed
               PROVE  Executed(h, g2)'
    OBVIOUS
  <2>1. Executed(h, g2) /\ SameOwner(g2) /\ ran[h] \subseteq ran'[h]
    BY <1>2, <1>7 DEF SessionInv
  <2>2. Kept(g2)' = Kept(g2) /\ (Fading(g2)' <=> Fading(g2))
    BY <2>1, OwnerStays
  <2> QED  BY <1>12, <2>1, <2>2, ExecutedStays
<1>14. f \notin harmed => \A h \in Fuzzers : Executed(h, f)'
  <2> SUFFICES ASSUME f \notin harmed, NEW h \in Fuzzers  PROVE Executed(h, f)'
    OBVIOUS
  <2>1. Executed(h, f) /\ ran[h] \subseteq ran'[h]
    BY <1>2 DEF SessionInv
  <2> QED  BY <1>8, <1>12, <2>1, ExecutedStays
<1> QED  BY <1>2, <1>7, <1>8, <1>9, <1>13, <1>14, StepOf

\* Killed while _resume/ is deleted: if it has not lost an input it is as good as queue/.
LEMMA NukeKilled ==
    ASSUME SessionInv, SessionAssumption, NEW f \in Fuzzers \ harmed, At(f, "nuke"), ~Half(f), Left(f)
    PROVE  LET F == resume[f].files  Q == queue[f].files
           IN /\ Tidy(F) /\ work[f] \subseteq Range(F)
              /\ DOMAIN Q \subseteq DOMAIN F /\ \A i \in DOMAIN Q : F[i] = Q[i]
<1> DEFINE F == resume[f].files  Q == queue[f].files  es == entries[f]  n == Len(es)
<1>1. /\ Whole(f) /\ Linking(f) /\ resume[f].there
      /\ IsList(es) /\ es \in Seq(Inputs) /\ n \in Nat
      /\ Holds(Q, es, n) /\ ToSet(es) \subseteq work[f]
      /\ ReadFrom(F, es) /\ (DOMAIN F = {} => ~resume[f].state)
  <2>1. Whole(f) /\ Linking(f) /\ resume[f].there
    BY DEF SessionInv, Whole, Left
  <2>2. /\ IsList(es) /\ Holds(Q, es, n) /\ ToSet(es) \subseteq work[f]
        /\ ReadFrom(F, es) /\ (DOMAIN F = {} => ~resume[f].state)
    BY <2>1 DEF Linking
  <2> QED  BY <2>1, <2>2 DEF IsList
<1>2. F # NoFiles
  <2>1. F = NoFiles => DOMAIN F = {}
    BY NoFilesIs
  <2> QED  BY <1>1, <2>1 DEF Left, Bare
<1>3. work[f] \subseteq Range(F)
  BY <1>1, <1>2 DEF Half
<1>4. F \in Files /\ Empty \notin Inputs
  BY <1>1, InputsTyped DEF Whole
<1> HIDE DEF F, Q, es, n
<1>5. \A i \in DOMAIN F : i \in Nat
  BY <1>4 DEF Files
<1>6. ASSUME NEW k \in 0 .. n - 1  PROVE k \in DOMAIN F /\ F[k] = es[k + 1] /\ es[k + 1] \in Inputs
  <2>1. k + 1 \in DOMAIN es /\ es[k + 1] \in Inputs /\ es[k + 1] \in ToSet(es)
    BY <1>1 DEF n, ToSet
  <2>2. PICK i \in DOMAIN F : F[i] = es[k + 1]
    BY <1>1, <1>3, <2>1 DEF Range
  <2>3. i < Len(es) /\ F[i] = es[i + 1] /\ i \in Nat
    BY <1>1, <1>4, <1>5, <2>1, <2>2 DEF ReadFrom
  <2>4. i + 1 \in DOMAIN es
    BY <1>1, <2>3
  <2>5. i + 1 = k + 1
    BY <1>1, <2>1, <2>2, <2>3, <2>4 DEF IsList, IsInjective
  <2>6. i = k
    BY <2>3, <2>5
  <2> QED  BY <2>1, <2>2, <2>6
<1>7. DOMAIN Q = 0 .. n - 1 /\ \A i \in 0 .. n - 1 : Q[i] = es[i + 1]
  BY <1>1 DEF Holds
<1>8. DOMAIN Q \subseteq DOMAIN F /\ \A i \in DOMAIN Q : F[i] = Q[i]
  BY <1>6, <1>7
<1>9. \A i \in DOMAIN F : \/ i \in 0 .. n - 1
                          \/ i = n /\ F[i] = Empty
  BY <1>1, <1>5 DEF ReadFrom, n
<1>10. n > 0
  BY <1>1 DEF IsList, n
<1>11. Tidy(F)
  <2>1. PICK k \in Nat : k = IF n \in DOMAIN F THEN n ELSE n - 1
    BY <1>1, <1>10
  <2>2. DOMAIN F = 0 .. k
    <3>1. CASE n \in DOMAIN F
      <4>1. \A i : i \in 0 .. n <=> i \in 0 .. n - 1 \/ i = n
        BY <1>1
      <4>2. k = n
        BY <2>1, <3>1
      <4> QED  BY <1>6, <1>9, <3>1, <4>1, <4>2, Zenon
    <3>2. CASE n \notin DOMAIN F
      <4>1. k = n - 1
        BY <2>1, <3>2
      <4> QED  BY <1>6, <1>9, <3>2, <4>1
    <3> QED  BY <3>1, <3>2
  <2>3. F \in [0 .. k -> Inputs \cup {Empty}]
    <3>1. PICK N \in SUBSET Nat : F \in [N -> Inputs \cup {Empty}]
      BY <1>4 DEF Files
    <3> QED  BY <2>2, <3>1
  <2>4. \A i \in 0 .. k : F[i] = Empty => i = k
    BY <1>1, <1>4, <1>6, <1>9, <2>1, <2>2
  <2>5. \A i, j \in 0 .. n - 1 : F[i] = F[j] => i = j
    <3> SUFFICES ASSUME NEW i \in 0 .. n - 1, NEW j \in 0 .. n - 1, F[i] = F[j]  PROVE i = j
      OBVIOUS
    <3>1. es[i + 1] = es[j + 1] /\ i + 1 \in DOMAIN es /\ j + 1 \in DOMAIN es
      BY <1>1, <1>6 DEF n
    <3>2. i + 1 = j + 1
      BY <1>1, <3>1 DEF IsList, IsInjective
    <3> QED  BY <3>2
  <2>6. \A i, j \in 0 .. k : F[i] = F[j] => i = j
    BY <1>4, <1>6, <1>9, <2>2, <2>5
  <2> QED  BY <2>3, <2>4, <2>6, TidyTo
<1> QED  BY <1>3, <1>8, <1>11 DEF F, Q

\* A kill at any point: what the next start in place goes on with is all there, or f is harmed.
LEMMA KillStep ==
    ASSUME SessionInv, SessionAssumption, NEW f \in Fuzzers, Kill(f)  PROVE SessionInv'
<1>1. /\ phase' = [phase EXCEPT ![f] = "off"] /\ sync' = [sync EXCEPT ![f] = NoSync]
      /\ entries' = [entries EXCEPT ![f] = <<>>] /\ hand' = [hand EXCEPT ![f] = Empty]
      /\ harmed' = IF Half(f) THEN harmed \cup {f} ELSE harmed
      /\ UNCHANGED <<made, queue, resume, synced, in_place_resume, work, ran, missed>>
  BY DEF Kill, Goes, disk
<1>2. Shapes /\ Begun(f) /\ (f \notin harmed => Whole(f)) /\ \A h \in Fuzzers : Reading(h)
  BY DEF SessionInv
<1>3. /\ Shapes' /\ phase'[f] = "off" /\ sync'[f] = NoSync
      /\ \A h \in Fuzzers \ {f} : /\ SameOwner(h) /\ phase'[h] = phase[h] /\ sync'[h] = sync[h]
                                  /\ (h \in harmed' <=> h \in harmed)
  BY <1>1, <1>2 DEF Shapes, SameOwner
<1>4. \A h \in Fuzzers : Reading(h)'
  <2>1. Reading(f)'
    BY <1>3 DEF Reading, At, NoSync
  <2> QED  BY <1>1, <1>2, <1>3, <2>1, ReaderStays
<1>5. \A h, g \in Fuzzers : Known(h, g)' \subseteq Known(h, g)
  <2> SUFFICES ASSUME NEW h \in Fuzzers, NEW g \in Fuzzers  PROVE Known(h, g)' \subseteq Known(h, g)
    OBVIOUS
  <2>1. CASE h = f
    BY <1>1, <1>3, <2>1 DEF Known
  <2>2. CASE h # f
    BY <1>1, <1>3, <2>2, KnownStays
  <2> QED  BY <2>1, <2>2
<1>6. \A h \in Fuzzers, g \in Fuzzers \ {f} : g \notin harmed => Executed(h, g)'
  <2> SUFFICES ASSUME NEW h \in Fuzzers, NEW g \in Fuzzers \ {f}, g \notin harmed
               PROVE  Executed(h, g)'
    OBVIOUS
  <2>1. Executed(h, g) /\ SameOwner(g) /\ ran[h] \subseteq ran'[h]
    BY <1>1, <1>3 DEF SessionInv
  <2>2. Kept(g)' = Kept(g) /\ (Fading(g)' <=> Fading(g))
    BY <2>1, OwnerStays
  <2> QED  BY <1>5, <2>1, <2>2, ExecutedStays
<1>7. (Left(f)' <=> Left(f)) /\ (Fresh(f)' <=> Fresh(f))
  BY <1>1 DEF Left, Fresh
<1>8. Begun(f)'
  BY <1>1, <1>2, <1>3, <1>7 DEF Begun, At, Running
<1>9. SUFFICES ASSUME f \notin harmed, ~Half(f)
               PROVE  Whole(f)' /\ \A h \in Fuzzers : Executed(h, f)'
  <2>1. f \notin harmed' => f \notin harmed /\ ~Half(f)
    BY <1>1
  <2> QED  BY <1>3, <1>4, <1>6, <1>8, <1>9, <2>1, StepOf
<1>10. Files' = Files /\ Inputs' = Inputs
  BY InputsTyped
\* What it goes on with now.
<1>11. /\ Tidy(Kept(f)') /\ work[f] \subseteq Range(Kept(f)')
       /\ Left(f) /\ queue[f].there =>
            \A i \in DOMAIN queue[f].files :
                i \in DOMAIN resume[f].files /\ resume[f].files[i] = queue[f].files[i]
       /\ DOMAIN Kept(f) \subseteq DOMAIN Kept(f)' /\ \A i \in DOMAIN Kept(f) : Kept(f)'[i] = Kept(f)[i]
       /\ Kept(f)' = Kept(f) \/ ~Fading(f)
  <2>1. CASE At(f, "nuke") /\ Left(f)
    <3>1. Kept(f) = queue[f].files /\ Kept(f)' = resume[f].files
      BY <1>1, <1>2, <1>3, <1>7, <1>9, <2>1 DEF Kept, At, Whole, Linking
    <3>2. ~Fading(f)
      BY <2>1 DEF Fading, Removing, At
    <3> QED  BY <1>9, <2>1, <3>1, <3>2, NukeKilled
  <2>2. CASE ~(At(f, "nuke") /\ Left(f))
    <3>1. Kept(f)' = Kept(f)
      BY <1>1, <1>3, <1>7, <2>2 DEF Kept, At
    <3>2. Tidy(Kept(f))
      <4>1. CASE Removing(f)
        <5>1. ~queue[f].there \/ queue[f].files = NoFiles
          BY <1>9, <4>1 DEF Half, Removing, Fresh
        <5>2. Kept(f) = NoFiles
          BY <4>1, <5>1 DEF Kept, Removing
        <5> QED  BY <5>2, NoFilesIs
      <4>2. CASE ~Removing(f)
        BY <1>2, <1>9, <4>2 DEF Whole
      <4> QED  BY <4>1, <4>2
    <3>3. /\ work[f] \subseteq Range(Kept(f))
          /\ Left(f) /\ queue[f].there =>
               \A i \in DOMAIN queue[f].files :
                   i \in DOMAIN resume[f].files /\ resume[f].files[i] = queue[f].files[i]
      BY <1>2, <1>9, <2>2 DEF Whole
    <3> QED  BY <3>1, <3>2, <3>3
  <2> QED  BY <2>1, <2>2
<1>12. Whole(f)'
  <2>1. Tidy(Kept(f))'
    BY <1>10, <1>11 DEF Tidy
  <2>2. Linking(f)'
    BY <1>3 DEF Linking, Running, At
  <2>3. /\ \A d \in {queue'[f], resume'[f]} : d.there => d.files \in Files
        /\ work'[f] \subseteq Inputs
    BY <1>1, <1>2, <1>9 DEF Whole
  <2> QED  BY <1>1, <1>3, <1>7, <1>10, <1>11, <2>1, <2>2, <2>3 DEF Whole, At
<1>14. ASSUME NEW h \in Fuzzers  PROVE Executed(h, f)'
  <2>1. Executed(h, f) /\ Known(h, f)' \subseteq Known(h, f) /\ ran'[h] = ran[h]
    BY <1>1, <1>5, <1>9 DEF SessionInv
  <2>2. CASE ~Fading(f)
    <3>1. Known(h, f) \subseteq DOMAIN Kept(f)
      BY <2>1, <2>2 DEF Executed
    <3> QED  BY <1>11, <2>1, <3>1 DEF Executed
  <2>3. CASE Fading(f)
    <3>1. Kept(f)' = Kept(f)
      BY <1>11, <2>3
    <3>2. Fading(f)'
      <4>1. CASE Removing(f)
        <5>1. ~queue[f].there \/ queue[f].files = NoFiles
          BY <1>9, <4>1 DEF Half, Removing, Fresh
        <5>2. Kept(f) = NoFiles
          BY <4>1, <5>1 DEF Kept, Removing
        <5> QED  BY <1>3, <3>1, <5>2, NoFilesIs DEF Fading
      <4>2. CASE ~Removing(f)
        BY <1>3, <2>3, <3>1, <4>2 DEF Fading
      <4> QED  BY <4>1, <4>2
    <3> QED  BY <2>1, <3>1, <3>2, ExecutedStays
  <2> QED  BY <2>2, <2>3
<1> QED  BY <1>12, <1>14

-----------------------------------------------------------------------------
(* Handles.                                                                *)

\* A handle whose directories are not removed.
LEMMA HandleStays ==
    ASSUME NEW h \in Fuzzers, Reading(h), Handles(h),
           \/ sync'[h] = sync[h]
           \/ sync[h] # NoSync /\ sync'[h].at = sync[h].at /\ sync'[h].party = sync[h].party
           \/ sync'[h] = NoSync,
           \A g \in Fuzzers : (queue[g].there => queue'[g].there) /\ (resume[g].there => resume'[g].there)
    PROVE  Handles(h)'
<1>1. sync[h] # NoSync => sync[h].party \in Fuzzers
  BY DEF Reading, SyncRecs
<1> QED  BY <1>1 DEF Handles, NoSync

\* A handle that is turned to another directory is still of the same fuzzer.
LEMMA HandleTurns ==
    ASSUME NEW h, NEW r \in SyncRecs(h), NEW v, NEW q, q = [r EXCEPT !.at = v]
    PROVE  q.at = v /\ q.party = r.party
BY DEF SyncRecs

\* The handle of h after its directories moved.
LEMMA HandleMoved ==
    ASSUME Shapes, NEW f \in Fuzzers, NEW to, Moved(f, to), NEW h \in Fuzzers, Reading(h), Handles(h),
           \A g \in Fuzzers \ {f} : queue'[g] = queue[g] /\ resume'[g] = resume[g],
           "queue" \in DOMAIN to \/ (queue[f].there => queue'[f].there),
           "resume" \in DOMAIN to \/ (resume[f].there => resume'[f].there),
           \A p \in DOMAIN to : to[p] \in {"resume", "gone"},
           \A p \in DOMAIN to : to[p] = "resume" => resume'[f].there
    PROVE  Handles(h)'
<1>1. \/ sync'[h] = sync[h] /\ (sync[h] # NoSync => sync[h].party # f \/ sync[h].at \notin DOMAIN to)
      \/ /\ sync[h] # NoSync /\ sync[h].party = f /\ sync[h].at \in DOMAIN to
         /\ sync'[h] = [sync[h] EXCEPT !.at = to[sync[h].at]]
  BY DEF Moved, Shapes
<1>2. sync[h] # NoSync => sync[h] \in SyncRecs(h) /\ sync[h].party \in Fuzzers
  BY DEF Reading, SyncRecs
<1>3. CASE sync'[h] = sync[h] /\ (sync[h] # NoSync => sync[h].party # f \/ sync[h].at \notin DOMAIN to)
  BY <1>2, <1>3 DEF Handles
<1>4. CASE /\ sync[h] # NoSync /\ sync[h].party = f /\ sync[h].at \in DOMAIN to
           /\ sync'[h] = [sync[h] EXCEPT !.at = to[sync[h].at]]
  <2>1. sync'[h].at = to[sync[h].at] /\ sync'[h].party = f
    BY <1>2, <1>4, HandleTurns
  <2> QED  BY <1>4, <2>1 DEF Handles
<1> QED  BY <1>1, <1>3, <1>4

\* The steps that move or remove a directory of f.
LEMMA HandlesFollow ==
    ASSUME SessionInv, NEW f \in Fuzzers, Rename(f) \/ Clean(f) \/ NukeResumeDir(f),
           NEW h \in Fuzzers, Handles(h)
    PROVE  Handles(h)'
<1>1. Shapes /\ Made(queue[f]) /\ Made(resume[f]) /\ Reading(h) /\ ~NoDir.there
  BY DEF SessionInv, Begun, NoDir
<1>2. CASE Rename(f)
  <2> DEFINE to == [queue |-> "resume", resume |-> "gone"]
  <2>1. CASE queue[f].there /\ (resume[f] = NoDir \/ Bare(resume[f]))
    <3>1. /\ resume' = [resume EXCEPT ![f] = queue[f]] /\ queue' = [queue EXCEPT ![f] = NoDir]
          /\ Moved(f, to)
      BY <1>2, <2>1 DEF Rename
    <3>2. resume'[f].there /\ \A g \in Fuzzers \ {f} : queue'[g] = queue[g] /\ resume'[g] = resume[g]
      BY <1>1, <2>1, <3>1 DEF Shapes
    <3>3. /\ DOMAIN to = {"queue", "resume"} /\ \A p \in DOMAIN to : to[p] \in {"resume", "gone"}
      OBVIOUS
    <3> HIDE DEF to
    <3> QED  BY <1>1, <3>1, <3>2, <3>3, HandleMoved
  <2>2. CASE ~(queue[f].there /\ (resume[f] = NoDir \/ Bare(resume[f])))
    <3>1. UNCHANGED <<queue, resume, sync>>
      BY <1>2, <2>2 DEF Rename
    <3> QED  BY <1>1, <3>1, HandleStays
  <2> QED  BY <2>1, <2>2
<1>3. CASE Clean(f)
  <2> DEFINE to == [d \in {"queue"} |-> "gone"]
  <2>0. resume' = resume /\ DeleteStep(f, queue, "queue", "mkdir")
    BY <1>3 DEF Clean
  <2>1. /\ \A g \in Fuzzers \ {f} : queue'[g] = queue[g]
        /\ \/ Deletes(queue[f], queue'[f]) /\ sync' = sync
           \/ Moved(f, to)
    BY <1>1, <2>0, CleanDoes
  <2>2. CASE Deletes(queue[f], queue'[f]) /\ sync' = sync
    <3>1. queue'[f].there
      BY <1>1, <2>2, DeletesOne
    <3>2. \A g \in Fuzzers : queue[g].there => queue'[g].there
      BY <2>1, <3>1
    <3> QED  BY <1>1, <2>0, <2>2, <3>2, HandleStays
  <2>3. CASE Moved(f, to)
    <3>1. DOMAIN to = {"queue"} /\ to["queue"] = "gone"
      OBVIOUS
    <3> HIDE DEF to
    <3> QED  BY <1>1, <2>0, <2>1, <2>3, <3>1, HandleMoved
  <2> QED  BY <2>1, <2>2, <2>3
<1>4. CASE NukeResumeDir(f)
  <2> DEFINE to == [d \in {"resume"} |-> "gone"]
  <2>0. queue' = queue /\ DeleteStep(f, resume, "resume", "dry run")
    BY <1>4 DEF NukeResumeDir
  <2>1. /\ \A g \in Fuzzers \ {f} : resume'[g] = resume[g]
        /\ \/ Deletes(resume[f], resume'[f]) /\ sync' = sync
           \/ Moved(f, to)
    BY <1>1, <2>0, NukeDoes
  <2>2. CASE Deletes(resume[f], resume'[f]) /\ sync' = sync
    <3>1. resume'[f].there
      BY <1>1, <2>2, DeletesOne
    <3>2. \A g \in Fuzzers : resume[g].there => resume'[g].there
      BY <2>1, <3>1
    <3> QED  BY <1>1, <2>0, <2>2, <3>2, HandleStays
  <2>3. CASE Moved(f, to)
    <3>1. DOMAIN to = {"resume"} /\ to["resume"] = "gone"
      OBVIOUS
    <3> HIDE DEF to
    <3> QED  BY <1>1, <2>0, <2>1, <2>3, <3>1, HandleMoved
  <2> QED  BY <2>1, <2>2, <2>3
<1> QED  BY <1>2, <1>3, <1>4

\* A record whose numbers read are cleared has the same handle.
LEMMA GotTurns ==
    ASSUME NEW h, NEW r \in SyncRecs(h), NEW q, q = [r EXCEPT !.got = {}]
    PROVE  q.at = r.at /\ q.party = r.party
BY DEF SyncRecs

\* Every step keeps handles on directories that are there.
LEMMA HandlesStay ==
    ASSUME SessionInv, SessionAssumption, SENext, \A g \in Fuzzers : Contents(g),
           NEW h \in Fuzzers, Handles(h)
    PROVE  Handles(h)'
<1>0. /\ Shapes /\ Reading(h)
      /\ \A g \in Fuzzers : Begun(g) /\ Made(queue[g]) /\ Made(resume[g])
  BY DEF SessionInv, Begun
<1>1. PICK f \in Fuzzers :
    \/ Start(f) \/ Rename(f) \/ Unsync(f) \/ Clean(f) \/ Mkdir(f) \/ ReadTestcases(f)
    \/ Pivot(f) \/ EndPivot(f) \/ NukeResumeDir(f) \/ DryRun(f)
    \/ WriteStats(f) \/ Find(f) \/ Write(f)
    \/ BeginSync(f) \/ Import(f) \/ PassOver(f) \/ EndSync(f)
    \/ Kill(f)
  BY DEF SENext
<1>2. CASE \/ Start(f) \/ Unsync(f) \/ ReadTestcases(f) \/ EndPivot(f) \/ DryRun(f)
           \/ WriteStats(f)
  <2>1. UNCHANGED <<queue, resume, sync>>
    BY <1>2 DEF Start, Unsync, ReadTestcases, EndPivot, DryRun, WriteStats, disk, memory
  <2> QED  BY <1>0, <2>1, HandleStays
<1>3. CASE Rename(f) \/ Clean(f) \/ NukeResumeDir(f)
  BY <1>3, HandlesFollow
<1>4. CASE Mkdir(f)
  <2>1. queue' = [queue EXCEPT ![f] = Dir(NoFiles, TRUE)] /\ resume' = resume
    BY <1>4 DEF Mkdir
  <2>2. \A g \in Fuzzers : queue[g].there => queue'[g].there
    BY <1>0, <2>1, DirIs DEF Shapes
  <2>3. \/ sync'[h] = sync[h]
        \/ sync[h] # NoSync /\ sync'[h] = [sync[h] EXCEPT !.got = {}]
    BY <1>4 DEF Mkdir, Anew
  <2>4. CASE sync[h] # NoSync /\ sync'[h] = [sync[h] EXCEPT !.got = {}]
    <3>1. sync[h] \in SyncRecs(h)
      BY <1>0, <2>4 DEF Reading
    <3>2. sync'[h].at = sync[h].at /\ sync'[h].party = sync[h].party
      BY <2>4, <3>1, GotTurns
    <3> QED  BY <1>0, <2>1, <2>2, <2>4, <3>2, HandleStays
  <2> QED  BY <1>0, <2>1, <2>2, <2>3, <2>4, HandleStays
<1>5. ASSUME NEW i, NEW x, queue[f].there, resume' = resume,
             queue' = [queue EXCEPT ![f] = With(@, i, x)]
      PROVE  \A g \in Fuzzers : (queue[g].there => queue'[g].there) /\ (resume[g].there => resume'[g].there)
  <2>1. queue'[f] = With(queue[f], i, x) /\ \A g \in Fuzzers \ {f} : queue'[g] = queue[g]
    BY <1>0, <1>5 DEF Shapes
  <2>2. queue'[f].there
    BY <1>0, <1>5, <2>1, WithMade
  <2> QED  BY <1>5, <2>1, <2>2
<1>6. phase[f] \in {"pivot"} \cup Running => queue[f].there
  BY <1>0 DEF Begun
<1>7. CASE Pivot(f) \/ Find(f) \/ Write(f)
  <2>1. /\ resume' = resume /\ sync' = sync /\ queue[f].there
        /\ \E i, x : queue' = [queue EXCEPT ![f] = With(@, i, x)]
    BY <1>6, <1>7, Zenon DEF Pivot, Find, Write, Queue, At, Running, memory
  <2> QED  BY <1>0, <1>5, <2>1, HandleStays
<1>8. CASE BeginSync(f)
  <2>1. PICK g \in Fuzzers \ {f} :
         /\ queue[g].there
         /\ sync' = [sync EXCEPT ![f] =
                [at |-> "queue", party |-> g, min_accept |-> synced[f][g],
                 due |-> DOMAIN queue[g].files, seen |-> {}, got |-> {}]]
    BY <1>8 DEF BeginSync
  <2>2. queue' = queue /\ resume' = resume
    BY <1>8 DEF BeginSync, disk
  <2>3. CASE h # f
    <3>1. sync'[h] = sync[h]
      BY <2>1, <2>3
    <3> QED  BY <1>0, <2>2, <3>1, HandleStays
  <2>4. CASE h = f
    <3>1. sync'[h].at = "queue" /\ sync'[h].party = g
      BY <1>0, <2>1, <2>4 DEF Shapes
    <3> QED  BY <2>1, <2>2, <3>1 DEF Handles
  <2> QED  BY <2>3, <2>4
<1>9. CASE PassOver(f)
  <2>1. PICK i \in Listed(f) : sync' = [sync EXCEPT ![f].seen = @ \cup {i}]
    BY <1>9 DEF PassOver
  <2>2. queue' = queue /\ resume' = resume /\ At(f, "sync")
    BY <1>9 DEF PassOver, disk
  <2>3. CASE h # f
    <3>1. sync'[h] = sync[h]
      BY <2>1, <2>3
    <3> QED  BY <1>0, <2>2, <3>1, HandleStays
  <2>4. CASE h = f
    <3>1. sync[h] # NoSync /\ sync[h] \in SyncRecs(h)
      BY <1>0, <2>2, <2>4 DEF Reading
    <3>2. sync'[h] = SeenToo(sync[h], i)
      BY <1>0, <2>1, <2>4, Zenon DEF SeenToo, Shapes
    <3>3. i \in Nat
      BY <1>0, <2>4, <3>1, ListedIs DEF SyncRecs
    <3>4. sync'[h].at = sync[h].at /\ sync'[h].party = sync[h].party
      BY <3>1, <3>2, <3>3, SeenMore
    <3> QED  BY <1>0, <2>2, <3>1, <3>4, HandleStays
  <2> QED  BY <2>3, <2>4
<1>10. CASE Import(f)
  <2>1. PICK i \in Listed(f) : /\ sync' = [sync EXCEPT ![f].seen = @ \cup {i}, ![f].got = @ \cup {i}]
                               /\ \/ Queue(f, queue[sync[f].party].files[i])
                                  \/ queue' = queue
    BY <1>10 DEF Import
  <2>2. resume' = resume /\ At(f, "sync") /\ queue[f].there
    BY <1>6, <1>10 DEF Import, At, Running
  <2>3. \A g \in Fuzzers : (queue[g].there => queue'[g].there) /\ (resume[g].there => resume'[g].there)
    <3>1. CASE queue' = queue
      BY <2>2, <3>1
    <3>2. CASE Queue(f, queue[sync[f].party].files[i])
      <4>1. queue' = [queue EXCEPT ![f] = With(@, Len(entries[f]), Empty)]
        BY <3>2 DEF Queue
      <4> QED  BY <1>5, <2>2, <4>1
    <3> QED  BY <2>1, <3>1, <3>2
  <2>4. CASE h # f
    <3>1. sync'[h] = sync[h]
      BY <1>0, <2>1, <2>4 DEF Shapes
    <3> QED  BY <1>0, <2>3, <3>1, HandleStays
  <2>5. CASE h = f
    <3>1. sync[h] # NoSync /\ sync[h] \in SyncRecs(h)
      BY <1>0, <2>2, <2>5 DEF Reading
    <3>2. sync'[h] = ReadToo(sync[h], i)
      BY <1>0, <2>1, <2>5, Zenon DEF ReadToo, Shapes
    <3>3. i \in Nat
      BY <1>0, <2>5, <3>1, ListedIs DEF SyncRecs
    <3>4. sync'[h].at = sync[h].at /\ sync'[h].party = sync[h].party
      BY <3>1, <3>2, <3>3, SeenMore
    <3> QED  BY <1>0, <2>3, <3>1, <3>4, HandleStays
  <2> QED  BY <2>4, <2>5
<1>11. CASE EndSync(f) \/ Kill(f)
  <2>1. queue' = queue /\ resume' = resume /\ sync' = [sync EXCEPT ![f] = NoSync]
    BY <1>11 DEF EndSync, Kill, disk
  <2>2. sync'[h] = sync[h] \/ sync'[h] = NoSync
    BY <1>0, <2>1 DEF Shapes
  <2> QED  BY <1>0, <2>1, <2>2, HandleStays
<1> QED  BY <1>1, <1>2, <1>3, <1>4, <1>7, <1>8, <1>9, <1>10, <1>11

-----------------------------------------------------------------------------
(* Every step.                                                             *)

\* The steps of f that change, of the contents, at most what f has executed.
LEMMA OnlyRan ==
    ASSUME SessionInv, SessionAssumption, NEW f \in Fuzzers, Contents(f),
           UNCHANGED <<queue, resume, entries, hand, work>>,
           ran' = ran \/ \E x \in Inputs : ran' = [ran EXCEPT ![f] = @ \cup {x}]
    PROVE  Contents(f)' /\ OthersStay(f)
<1>1. Files' = Files /\ Inputs' = Inputs
  BY InputsTyped
<1>2. ran'[f] \subseteq Inputs /\ \A g \in Fuzzers \ {f} : ran'[g] = ran[g]
  BY DEF SessionInv, Shapes, Contents
<1>3. Contents(f)'
  BY <1>1, <1>2 DEF Contents
<1> QED  BY <1>2, <1>3 DEF OthersStay

\* A step of f keeps the types of its own contents and does not touch those of others.
LEMMA ContentsStep ==
    ASSUME SessionInv, SessionAssumption, Typed, \A h \in Fuzzers : Handles(h), NEW f \in Fuzzers,
           \/ Start(f) \/ Rename(f) \/ Unsync(f) \/ Clean(f) \/ Mkdir(f) \/ ReadTestcases(f)
           \/ Pivot(f) \/ EndPivot(f) \/ NukeResumeDir(f) \/ DryRun(f)
           \/ WriteStats(f) \/ Find(f) \/ Write(f)
           \/ BeginSync(f) \/ Import(f) \/ PassOver(f) \/ EndSync(f)
           \/ Kill(f)
    PROVE  Contents(f)' /\ OthersStay(f) /\ Writing(f)'
<1>0. /\ Shapes /\ Begun(f) /\ Reading(f) /\ Writing(f) /\ \A g \in Fuzzers : Contents(g)
  BY DEF SessionInv, Typed
<1>1. phase'[f] = "write" \/ Writing(f)'
  BY DEF Writing, At
<1>i. Inputs' = Inputs
  BY InputsTyped
<1>2. CASE Start(f) \/ Rename(f) \/ Clean(f) \/ Mkdir(f) \/ NukeResumeDir(f)
  <2>1. phase'[f] # "write"
    <3>1. phase[f] # "write"
      BY <1>2 DEF Start, Rename, Clean, Mkdir, NukeResumeDir, At
    <3>2. phase' = phase \/ \E p \in {"rename", "unsync", "mkdir", "clean", "read", "dry run"} :
                                phase' = [phase EXCEPT ![f] = p]
      BY <1>2 DEF Start, Rename, Clean, Mkdir, NukeResumeDir, DeleteStep, Goes
    <3> QED  BY <1>0, <3>1, <3>2 DEF Shapes
  <2>2. Contents(f)' /\ OthersStay(f)
    BY <1>0, <1>2, DirectoriesTyped
  <2> QED  BY <1>1, <2>1, <2>2
<1>3. CASE ReadTestcases(f) \/ DryRun(f) \/ Kill(f)
  <2>1. phase'[f] # "write"
    <3>1. \E p \in {"off", "pivot", "stats"} : phase' = [phase EXCEPT ![f] = p]
      BY <1>3 DEF ReadTestcases, DryRun, Kill, Goes
    <3> QED  BY <1>0, <3>1 DEF Shapes
  <2>2. Contents(f)' /\ OthersStay(f)
    BY <1>0, <1>3, ReadTyped
  <2> QED  BY <1>1, <2>1, <2>2
<1>4. CASE Pivot(f)
  <2>1. phase'[f] # "write"
    BY <1>4 DEF Pivot, At
  <2> QED  BY <1>0, <1>1, <1>4, <2>1, PivotTyped
<1>5. CASE Write(f)
  <2>1. phase'[f] # "write"
    BY <1>0, <1>5 DEF Write, Goes, Shapes
  <2> QED  BY <1>0, <1>1, <1>5, <2>1, WriteTyped
<1>6. phase[f] \in Running => queue[f].there
  BY <1>0 DEF Begun
<1>7. CASE Find(f)
  <2>1. PICK x \in Finds[f] : Queue(f, x) /\ ran' = [ran EXCEPT ![f] = @ \cup {x}]
    BY <1>7 DEF Find
  <2>2. x \in Inputs /\ queue[f].there /\ UNCHANGED <<resume, work>>
    BY <1>6, <1>7, InputsTyped DEF Find, At, Running
  <2>3. Contents(f)' /\ OthersStay(f) /\ entries'[f] # <<>> /\ hand'[f] \in Inputs
    BY <1>0, <2>1, <2>2, QueueTyped
  <2> QED  BY <1>i, <2>3 DEF Writing
<1>8. CASE Unsync(f) \/ EndPivot(f) \/ WriteStats(f) \/ BeginSync(f) \/ PassOver(f) \/ EndSync(f)
  <2>1. UNCHANGED <<queue, resume, entries, hand, work, ran>>
    BY <1>8 DEF Unsync, EndPivot, WriteStats, BeginSync, PassOver, EndSync, disk, memory, history
  <2>2. phase'[f] # "write"
    <3>1. phase[f] # "write"
      BY <1>8 DEF Unsync, EndPivot, WriteStats, BeginSync, PassOver, EndSync, At
    <3>2. phase' = phase \/ \E p \in {"clean", "nuke", "dry run", "stats", "fuzz", "sync"} :
                                phase' = [phase EXCEPT ![f] = p]
      BY <1>8 DEF Unsync, EndPivot, WriteStats, BeginSync, PassOver, EndSync, Goes
    <3> QED  BY <1>0, <3>1, <3>2 DEF Shapes
  <2> QED  BY <1>0, <1>1, <2>1, <2>2, OnlyRan
<1>9. CASE Import(f)
  <2>1. PICK i \in Listed(f) :
         /\ Opens(f, i)
         /\ ran' = [ran EXCEPT ![f] = @ \cup {queue[sync[f].party].files[i]}]
         /\ \/ Queue(f, queue[sync[f].party].files[i])
            \/ UNCHANGED <<phase, entries, hand, queue>>
    BY <1>9 DEF Import
  <2>2. UNCHANGED <<resume, work>> /\ phase[f] = "sync" /\ queue[f].there
    BY <1>6, <1>9 DEF Import, At, Running
  <2>3. PICK x : x = queue[sync[f].party].files[i]
    OBVIOUS
  <2>4. x \in Inputs
    <3>1. sync[f].party \in Fuzzers
      BY <1>0, <2>2 DEF Reading, At, SyncRecs
    <3> QED  BY <1>0, <2>1, <2>3, <3>1, OpensInput
  <2>5. CASE Queue(f, x)
    <3>1. Contents(f)' /\ OthersStay(f) /\ entries'[f] # <<>> /\ hand'[f] \in Inputs
      BY <1>0, <2>1, <2>2, <2>3, <2>4, <2>5, QueueTyped
    <3> QED  BY <1>i, <3>1 DEF Writing
  <2>6. CASE UNCHANGED <<phase, entries, hand, queue>>
    <3>1. phase'[f] # "write"
      BY <2>2, <2>6
    <3>2. \E y \in Inputs : ran' = [ran EXCEPT ![f] = @ \cup {y}]
      BY <2>1, <2>3, <2>4
    <3> QED  BY <1>0, <1>1, <2>2, <2>6, <3>1, <3>2, OnlyRan
  <2> QED  BY <2>1, <2>3, <2>5, <2>6
<1> QED  BY <1>2, <1>3, <1>4, <1>5, <1>7, <1>8, <1>9

\* Every step keeps the types.
LEMMA TypedStep ==
    ASSUME SessionInv, SessionAssumption, Typed, \A h \in Fuzzers : Handles(h), SENext
    PROVE  Typed'
<1>1. Marks'
  BY MarksStay DEF Typed
<1>2. PICK f \in Fuzzers :
    \/ Start(f) \/ Rename(f) \/ Unsync(f) \/ Clean(f) \/ Mkdir(f) \/ ReadTestcases(f)
    \/ Pivot(f) \/ EndPivot(f) \/ NukeResumeDir(f) \/ DryRun(f)
    \/ WriteStats(f) \/ Find(f) \/ Write(f)
    \/ BeginSync(f) \/ Import(f) \/ PassOver(f) \/ EndSync(f)
    \/ Kill(f)
  BY DEF SENext
<1>3. Contents(f)' /\ OthersStay(f) /\ Writing(f)'
  BY <1>2, ContentsStep
<1>4. Inputs' = Inputs
  BY InputsTyped
<1>5. Shapes
  BY DEF SessionInv
<1>6. \A h \in Fuzzers \ {f} : phase'[h] = phase[h]
  <2>1. UNCHANGED phase \/ \E p : phase' = [phase EXCEPT ![f] = p]
    BY <1>2, Zenon DEF Start, Rename, Unsync, Clean, Mkdir, ReadTestcases, Pivot, EndPivot, NukeResumeDir,
                  DryRun, WriteStats, Find, Write, BeginSync, Import, PassOver, EndSync, Kill,
                  Queue, DeleteStep, Goes
  <2> QED  BY <1>5, <2>1 DEF Shapes
<1>7. \A h \in Fuzzers \ {f} : Contents(h)' /\ Writing(h)'
  <2> SUFFICES ASSUME NEW h \in Fuzzers \ {f}  PROVE Contents(h)' /\ Writing(h)'
    OBVIOUS
  <2>1. Contents(h) /\ Writing(h)
    BY DEF Typed
  <2>2. /\ queue'[h] = queue[h] /\ resume'[h] = resume[h] /\ entries'[h] = entries[h]
        /\ hand'[h] = hand[h] /\ work'[h] = work[h] /\ ran'[h] = ran[h]
    BY <1>3 DEF OthersStay
  <2> QED  BY <1>4, <1>6, <2>1, <2>2, ContentsStay DEF Writing, At
<1> QED  BY <1>1, <1>3, <1>7 DEF Typed

\* It holds before any fuzzer is started.
LEMMA SessionIInvInit == ASSUME SessionAssumption, SEInit  PROVE SessionIInv
<1>1. \A f \in Fuzzers : /\ queue[f] = NoDir /\ resume[f] = NoDir /\ phase[f] = "off" /\ sync[f] = NoSync
                         /\ work[f] = {} /\ ran[f] = {} /\ entries[f] = <<>> /\ hand[f] = Empty
                         /\ \A g \in Fuzzers : synced[f][g] = 0 /\ missed[f][g] = {}
  BY DEF SEInit
<1>2. made = {} /\ harmed = {}
  BY DEF SEInit
<1>3. Shapes
  BY DEF SEInit, Shapes
<1>4. ASSUME NEW f \in Fuzzers  PROVE Begun(f) /\ Reading(f) /\ Handles(f)
  <2>1. Begun(f)
    BY <1>1, <1>2 DEF Begun, Made, At, Running
  <2> QED  BY <1>1, <2>1 DEF Reading, At, Handles
<1>5. ASSUME NEW f \in Fuzzers  PROVE Whole(f) /\ ~Left(f) /\ Kept(f) = NoFiles
  <2>1. ~NoDir.there
    BY DEF NoDir
  <2>2. ~Left(f) /\ Kept(f) = NoFiles
    BY <1>1, <2>1 DEF Left, Kept
  <2>3. Linking(f)
    BY <1>1 DEF Linking, At, Running
  <2> QED  BY <1>1, <2>1, <2>2, <2>3, NoFilesIs DEF Whole, At
<1>6. ASSUME NEW f \in Fuzzers, NEW g \in Fuzzers  PROVE Executed(f, g)
  <2>1. synced[f][g] = 0 /\ sync[f] = NoSync
    BY <1>1
  <2>2. 0 .. synced[f][g] - 1 = {}
    BY <2>1
  <2>3. Known(f, g) = {}
    BY <2>1, <2>2 DEF Known
  <2> QED  BY <2>3 DEF Executed
<1>7. Typed
  <2>1. Marks
    BY DEF SEInit, Marks, Phases, SessionAssumption
  <2>2. ASSUME NEW f \in Fuzzers  PROVE Contents(f) /\ Writing(f)
    <3>1. Writing(f)
      BY <1>1 DEF Writing, At
    <3>2. \A d \in {queue[f], resume[f]} : ~d.there
      BY <1>1 DEF NoDir
    <3>3. entries[f] \in Seq(Inputs) /\ hand[f] \in Inputs \cup {Empty}
      <4>1. entries[f] = <<>> /\ hand[f] = Empty
        BY <1>1
      <4>2. <<>> \in Seq(Inputs)
        OBVIOUS
      <4> QED  BY <4>1, <4>2, Zenon
    <3>4. work[f] \subseteq Inputs /\ ran[f] \subseteq Inputs
      BY <1>1
    <3> QED  BY <3>1, <3>2, <3>3, <3>4, Zenon DEF Contents
  <2> QED  BY <2>1, <2>2 DEF Typed
<1> QED  BY <1>3, <1>4, <1>5, <1>6, <1>7 DEF SessionIInv, SessionInv

\* Every step preserves it.
LEMMA SessionIInvStep == ASSUME SessionAssumption, SessionIInv, SENext  PROVE SessionIInv'
<1>1. SessionInv /\ Typed /\ \A h \in Fuzzers : Handles(h) /\ Contents(h) /\ Writing(h)
  BY DEF SessionIInv, Typed
<1>2. PICK f \in Fuzzers :
    \/ Start(f) \/ Rename(f) \/ Unsync(f) \/ Clean(f) \/ Mkdir(f) \/ ReadTestcases(f)
    \/ Pivot(f) \/ EndPivot(f) \/ NukeResumeDir(f) \/ DryRun(f)
    \/ WriteStats(f) \/ Find(f) \/ Write(f)
    \/ BeginSync(f) \/ Import(f) \/ PassOver(f) \/ EndSync(f)
    \/ Kill(f)
  BY DEF SENext
<1>3. SessionInv'
  <2>1. CASE \/ Start(f) \/ Rename(f) \/ Unsync(f) \/ Clean(f) \/ Mkdir(f)
    BY <1>1, <2>1, StartStep, RenameStep, UnsyncStep, CleanStep, AnewStep, MkdirInPlaceStep
  <2>2. CASE ReadTestcases(f) \/ Pivot(f) \/ EndPivot(f) \/ NukeResumeDir(f)
    BY <1>1, <2>2, ReadStep, PivotStep, EndPivotStep, NukeStep
  <2>3. CASE DryRun(f) \/ WriteStats(f) \/ Find(f) \/ Write(f) \/ Kill(f)
    BY <1>1, <2>3, DryRunStep, WriteStatsStep, FindStep, WriteStep, KillStep
  <2>4. CASE BeginSync(f) \/ Import(f) \/ PassOver(f) \/ EndSync(f)
    BY <1>1, <2>4, BeginSyncStep, ImportStep, PassOverStep, EndSyncStep
  <2> QED  BY <1>2, <2>1, <2>2, <2>3, <2>4
<1>4. Typed' /\ \A h \in Fuzzers : Handles(h)'
  BY <1>1, TypedStep, HandlesStay
<1> QED  BY <1>3, <1>4 DEF SessionIInv

\* It speaks of the variables only.
LEMMA SessionIInvStutters == ASSUME SessionAssumption, SessionIInv, UNCHANGED sevars  PROVE SessionIInv'
<1>1. UNCHANGED <<made, queue, resume, synced, stats, phase, in_place_resume, entries, hand, sync, kills,
                  work, harmed, ran, missed>>
  BY DEF sevars, disk, memory, history
<1>2. SessionInv /\ Typed /\ \A h \in Fuzzers : Handles(h)
  BY DEF SessionIInv
<1>3. SessionInv'
  <2>1. Shapes' /\ \A h \in Fuzzers : Begun(h)'
    BY <1>1, <1>2 DEF SessionInv, Shapes, Begun, Made, At, Fresh, Running
  <2>2. \A h \in Fuzzers : Reading(h)'
    BY <1>1, <1>2, ReaderStays DEF SessionInv
  <2>3. \A h \in Fuzzers : SameOwner(h)
    BY <1>1 DEF SameOwner
  <2>4. \A h \in Fuzzers \ harmed' : Whole(h)'
    BY <1>1, <1>2, <2>3, OwnerStays DEF SessionInv
  <2>5. \A h \in Fuzzers, g \in Fuzzers \ harmed' : Executed(h, g)'
    BY <1>1, <1>2, <2>3, OwnerStays, KnownStays, ExecutedStays DEF SessionInv
  <2> QED  BY <2>1, <2>2, <2>4, <2>5 DEF SessionInv
<1>4. Typed'
  <2>1. Marks'
    BY <1>1, <1>2 DEF Typed, Marks, Phases
  <2>2. \A h \in Fuzzers : Contents(h)' /\ Writing(h)'
    BY <1>1, <1>2, InputsTyped, ContentsStay DEF Typed, Writing, At
  <2> QED  BY <2>1, <2>2 DEF Typed
<1>5. \A h \in Fuzzers : Handles(h)'
  BY <1>1, <1>2 DEF Handles
<1> QED  BY <1>3, <1>4, <1>5 DEF SessionIInv

\* What the next start in place would go on with has, without gaps, every input that the queue
\* was given, and every number a reader takes for read is of a file it has executed.
THEOREM SessionInvariant == SESpec => []SessionIInv
BY SessionAssumption, SessionIInvInit, SessionIInvStep, SessionIInvStutters, PTL DEF SESpec

\* The type invariant of the sessions, for any fuzzers, seeds, finds and number of kills.
THEOREM SessionTypeCorrect == SESpec => []SETypeOK
<1>1. SessionIInv => SETypeOK
  <2> SUFFICES ASSUME SessionIInv  PROVE SETypeOK
    OBVIOUS
  <2>1. SessionInv /\ Typed /\ Marks /\ Shapes /\ \A f \in Fuzzers : Contents(f) /\ Begun(f) /\ Reading(f)
    BY DEF SessionIInv, SessionInv, Typed
  <2>2. ASSUME NEW f \in Fuzzers, NEW d \in {queue[f], resume[f]}, d.there
        PROVE  /\ d.state \in BOOLEAN
               /\ DOMAIN d.files \subseteq Nat /\ IsFiniteSet(DOMAIN d.files)
               /\ d.files \in [DOMAIN d.files -> Inputs \cup {Empty}]
    <3>1. Made(d) /\ d.files \in Files
      BY <2>1, <2>2 DEF Begun, Contents
    <3>2. d.state \in BOOLEAN
      BY <2>2, <3>1, MadeIs
    <3> QED  BY <3>1, <3>2 DEF Files
  <2>3. ASSUME NEW f \in Fuzzers  PROVE sync[f].at \in {"none", "queue", "resume", "gone"}
    <3>1. sync[f] = NoSync \/ sync[f] \in SyncRecs(f)
      BY <2>1 DEF Reading
    <3> QED  BY <3>1 DEF NoSync, SyncRecs
  <2>4. ASSUME NEW f \in Fuzzers
        PROVE  /\ synced[f] \in [Fuzzers -> Nat]
               /\ stats[f] \in {"none", "torn", "short", "long"}
               /\ phase[f] \in Starting \cup {"off", "stats", "fuzz", "write", "sync"}
               /\ in_place_resume[f] \in BOOLEAN
               /\ entries[f] \in Seq(Inputs) /\ hand[f] \in Inputs \cup {Empty}
               /\ work[f] \subseteq Inputs /\ ran[f] \subseteq Inputs
               /\ missed[f] \in [Fuzzers -> SUBSET Nat]
    BY <2>1, Zenon DEF Marks, Shapes, Contents, Phases
  <2>5. made \subseteq Fuzzers /\ harmed \subseteq Fuzzers /\ kills \in 0 .. MaxKills
    BY <2>1 DEF Marks, Shapes
  <2> QED  BY <2>2, <2>3, <2>4, <2>5 DEF SETypeOK
<1> QED  BY <1>1, SessionInvariant, PTL

\* "To avoid data loss": no input written to a queue is lost, whenever the fuzzers are killed
\* and however often they are resumed, but for the two stories of harmed.
THEOREM SessionInputsSurvive == SESpec => []InputsSurvive
<1>1. SessionIInv => InputsSurvive
  <2> SUFFICES ASSUME SessionIInv, NEW f \in Fuzzers \ harmed
               PROVE  work[f] \subseteq InputsOf(queue[f]) \cup InputsOf(resume[f])
    BY DEF InputsSurvive
  <2>1. work[f] \subseteq Range(Kept(f))
    BY DEF SessionIInv, SessionInv, Whole
  <2>2. CASE Left(f) /\ ~At(f, "nuke")
    BY <2>1, <2>2 DEF Kept, Left, InputsOf
  <2>3. CASE ~(Left(f) /\ ~At(f, "nuke")) /\ queue[f].there
    BY <2>1, <2>3 DEF Kept, InputsOf
  <2>4. CASE ~(Left(f) /\ ~At(f, "nuke")) /\ ~queue[f].there
    <3>1. Range(Kept(f)) = {}
      BY <2>4, NoFilesIs DEF Kept
    <3> QED  BY <2>1, <3>1
  <2> QED  BY <2>2, <2>3, <2>4
<1> QED  BY <1>1, SessionInvariant, PTL

\* sync_fuzzers: a file below the number remembered was executed, unless a pass left it behind
\* or its owner began anew, for any number of fuzzers that read from each other.
THEOREM SessionSyncedWasRun == SESpec => []SyncedWasRun
<1>1. SessionIInv => SyncedWasRun
  <2> SUFFICES ASSUME SessionIInv, NEW f \in Fuzzers, NEW g \in Fuzzers, g \notin harmed, queue[g].there,
                      NEW i \in DOMAIN queue[g].files,
                      i < synced[f][g], i \notin missed[f][g], queue[g].files[i] # Empty
               PROVE  queue[g].files[i] \in ran[f]
    BY DEF SyncedWasRun
  <2>1. Shapes /\ Whole(g) /\ Executed(f, g) /\ Contents(g)
    BY DEF SessionIInv, SessionInv, Typed
  <2>2. i \in Known(f, g)
    <3>1. i \in Nat
      BY <2>1, FilesEntries DEF Contents
    <3>2. synced[f][g] \in Nat
      BY <2>1 DEF Shapes
    <3>3. i \in 0 .. synced[f][g] - 1
      BY <3>1, <3>2
    <3> QED  BY <3>3 DEF Known
  <2>3. i \in DOMAIN Kept(g) /\ Kept(g)[i] = queue[g].files[i]
    <3>1. CASE Left(g) /\ ~At(g, "nuke")
      BY <2>1, <3>1 DEF Kept, Whole
    <3>2. CASE ~(Left(g) /\ ~At(g, "nuke"))
      BY <3>2 DEF Kept
    <3> QED  BY <3>1, <3>2
  <2> QED  BY <2>1, <2>2, <2>3 DEF Executed
<1> QED  BY <1>1, SessionInvariant, PTL
=============================================================================
