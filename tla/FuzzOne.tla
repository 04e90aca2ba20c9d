------------------------------ MODULE FuzzOne ------------------------------
(***************************************************************************)
(* fuzz_one of afl-fuzz.c: one turn of a queue entry, from its calibration *)
(* through the deterministic stages, the HTTP dictionary, havoc and        *)
(* splicing to abandon_entry, with an execution of ForkServer for every    *)
(* mutation, and with Ctrl-C and SIGUSR1 at any moment.                    *)
(*                                                                         *)
(* Of out_buf the model keeps which bytes are not those of in_buf, and     *)
(* which ones a mutation has changed. What an execution covers is a        *)
(* choice: the queue that results is the subject of AflQueue. The HTTP     *)
(* stage throws dice until it meets a token that begins with '&', or one   *)
(* that does not; with a dictionary that lacks one of the kinds it never   *)
(* ends, and it is modelled for one that has both.                         *)
(***************************************************************************)
EXTENDS ForkServer, FiniteSets

CONSTANTS
    Lens,         \* lengths of inputs
    ByteBits,     \* bits of a byte
    EffScale,     \* 2 ^ EFF_MAP_SCALE2: bytes of a block of the effector map
    EffMaxPerc,   \* EFF_MAX_PERC
    ArithMax,     \* ARITH_MAX
    Interesting,  \* how many interesting values there are of each width
    ExtraLens,    \* extras[]: the lengths of the tokens of the dictionary
    AutoLens,     \* a_extras[]: the same of the automatic ones
    NoArith,      \* no_arith
    CalCycles,    \* CAL_CYCLES
    HavocMin,     \* HAVOC_MIN, stage_max of a havoc that finds nothing
    HavocMaxMult, \* HAVOC_MAX_MULT
    SpliceCycles  \* SPLICE_CYCLES

Sorted(s) == \A i, j \in DOMAIN s : i < j => s[i] <= s[j]

\* load_extras and maybe_add_auto sort the tokens by size.
ASSUME FuzzOneAssumption ==
    /\ Lens \subseteq Nat \ {0}
    /\ {ByteBits, EffScale, EffMaxPerc, ArithMax, Interesting, CalCycles, HavocMin,
        HavocMaxMult} \subseteq Nat \ {0}
    /\ ExtraLens \in Seq(Nat \ {0}) /\ Sorted(ExtraLens)
    /\ AutoLens \in Seq(Nat \ {0}) /\ Sorted(AutoLens)
    /\ NoArith \in BOOLEAN /\ SpliceCycles \in Nat

VARIABLES
    pc,        \* where fuzz_one is; in a call of run_target, who has called it
    stage,     \* the stage at hand
    pos, try,  \* the loops of a stage: the outer one over the input, the inner one
    len,
    foreign,   \* the bytes of out_buf that were never copied from in_buf
    mutated,   \* those that a mutation has changed and none has restored
    eff_map,   \* the blocks flagged in the effector map
    last_len,  \* what the restore of the "over" stages has to copy back
    passed_det,
    perf_score, splice_cycle, stage_max,
    new_paths, \* queued_paths # havoc_queued, in havoc
    cycle,     \* of a calibration
    kept,      \* what save_if_interesting has kept of the last execution
    skip_requested

loop    == <<pos, try, last_len>>
out_buf == <<foreign, mutated>>
score   == <<perf_score, splice_cycle, stage_max>>
entry   == <<len, passed_det, eff_map>>
fovars  == <<pc, stage, loop, out_buf, entry, score, new_paths, cycle, kept, skip_requested>>
vars   == <<fsvars, fovars>>

DetStages == {"flip1", "flip2", "flip4", "flip8", "flip16", "flip32", "arith8", "arith16",
              "arith32", "int8", "int16", "int32", "user_over", "user_insert", "auto_over"}

TypeOK ==
    /\ FSTypeOK
    /\ pc \in {"calibrated", "mutate", "common", "rerun", "calibrate", "restore", "end"}
    /\ stage \in DetStages \cup {"recalibration", "det_done", "http", "havoc"}
    /\ pos \in Nat /\ try \in Nat /\ last_len \in Nat
    /\ len \in Lens
    /\ foreign \subseteq 0 .. len - 1 /\ mutated \subseteq Nat
    /\ eff_map \subseteq Nat
    /\ passed_det \in BOOLEAN /\ new_paths \in BOOLEAN
    /\ perf_score \in 1 .. 2 * HavocMaxMult
    /\ splice_cycle \in 0 .. SpliceCycles + 1
    /\ stage_max \in 0 .. HavocMin * (2 * HavocMaxMult)
    /\ cycle \in 0 .. CalCycles
    /\ kept \in {"nothing", "path", "crash", "hang"}
    /\ skip_requested \in BOOLEAN

Init ==
    /\ FSInit
    /\ pc = "end" /\ stage = "recalibration" /\ pos = 0 /\ try = 0 /\ last_len = 0
    /\ len \in Lens /\ foreign = {} /\ mutated = {} /\ eff_map = {}
    /\ passed_det = FALSE
    /\ perf_score = 1 /\ splice_cycle = 0 /\ stage_max = 0
    /\ new_paths = FALSE /\ cycle = 0 /\ kept = "nothing" /\ skip_requested = FALSE

-----------------------------------------------------------------------------
(* The deterministic stages. Each is a loop over positions, with an inner  *)
(* loop of tries: how many of both there are, the bytes a position stands  *)
(* for, whether the effector map is consulted, and what comes next.        *)

\* The k bytes from the i-th on, the byte of bit i, those of k bits.
Bytes(i, k)  == i .. i + k - 1
BitBytes(i, k) == i \div ByteBits .. (i + k - 1) \div ByteBits

Block(b)  == b \div EffScale
Blocks(bs) == {Block(b) : b \in bs}
EffAlen == Cardinality(Blocks(0 .. len - 1))

Loop(positions, tries, bytes, map, next) ==
    [positions |-> positions, tries |-> tries, bytes |-> bytes, map |-> map, next |-> next]

Flip1 == Loop(len * ByteBits, 1, BitBytes(pos, 1), FALSE, "flip2")
Flip2 == Loop(len * ByteBits - 1, 1, BitBytes(pos, 2), FALSE, "flip4")
Flip4 == Loop(len * ByteBits - 3, 1, BitBytes(pos, 4), FALSE, "flip8")

\* The label skip_arith, and skip_bitflip before it.
AfterArith == "int8"
AfterFlips == IF NoArith THEN AfterArith ELSE "arith8"

Flip8  == Loop(len, 1, Bytes(pos, 1), FALSE, IF len < 2 THEN AfterFlips ELSE "flip16")

Flip16 == Loop(len - 1, 1, Bytes(pos, 2), TRUE, IF len < 4 THEN AfterFlips ELSE "flip32")
Flip32 == Loop(len - 3, 1, Bytes(pos, 4), TRUE, AfterFlips)

Arith8  == Loop(len, 2 * ArithMax, Bytes(pos, 1), TRUE,
                IF len < 2 THEN AfterArith ELSE "arith16")
Arith16 == Loop(len - 1, 4 * ArithMax, Bytes(pos, 2), TRUE,
                IF len < 4 THEN AfterArith ELSE "arith32")
Arith32 == Loop(len - 3, 4 * ArithMax, Bytes(pos, 4), TRUE, AfterArith)

\* The labels skip_user_extras and skip_interest.
AfterUser     == IF AutoLens = <<>> THEN "det_done" ELSE "auto_over"
AfterInterest == IF ExtraLens = <<>> THEN AfterUser ELSE "user_over"

Int8  == Loop(len, Interesting, Bytes(pos, 1), TRUE,
              IF NoArith \/ len < 2 THEN AfterInterest ELSE "int16")
Int16 == Loop(len - 1, 2 * Interesting, Bytes(pos, 2), TRUE,
              IF len < 4 THEN AfterInterest ELSE "int32")
Int32 == Loop(len - 3, 2 * Interesting, Bytes(pos, 4), TRUE, AfterInterest)

\* The j-th token of a dictionary over position i; it is skipped where there is
\* no room for it, like one that no flagged block meets.
Over(lens, next) ==
    Loop(len, Len(lens), IF try < Len(lens) THEN Bytes(pos, lens[try + 1]) ELSE {}, TRUE, next)

UserOver   == Over(ExtraLens, "user_insert")
\* The token goes into a copy, between two bytes of out_buf.
UserInsert == Loop(len + 1, Len(ExtraLens), {}, FALSE, AfterUser)
AutoOver   == Over(AutoLens, "det_done")

\* One input for each token, put together in a buffer of its own.
HttpDictionary == Loop(Len(ExtraLens), 1, {}, FALSE, "havoc")

Stage ==
    CASE stage = "flip1"  -> Flip1  [] stage = "flip2"   -> Flip2   [] stage = "flip4"   -> Flip4
      [] stage = "flip8"  -> Flip8  [] stage = "flip16"  -> Flip16  [] stage = "flip32"  -> Flip32
      [] stage = "arith8" -> Arith8 [] stage = "arith16" -> Arith16 [] stage = "arith32" -> Arith32
      [] stage = "int8"   -> Int8   [] stage = "int16"   -> Int16   [] stage = "int32"   -> Int32
      [] stage = "user_over"   -> UserOver
      [] stage = "user_insert" -> UserInsert
      [] stage = "auto_over"   -> AutoOver
      [] stage = "http"        -> HttpDictionary

Overwrites == stage \in {"user_over", "auto_over"}

-----------------------------------------------------------------------------
(* The turn begins.                                                        *)

Input == 0 .. len - 1

\* The beginning of fuzz_one. in_buf is the file; out_buf is not copied from it
\* and holds what malloc returns, which may be what the last turn left there.
\* An entry that was fuzzed before goes the way of one that passed_det.
StartTurn ==
    /\ pc = "end" /\ afl = "idle" /\ ~stop_soon
    /\ len' \in Lens
    /\ foreign' = 0 .. len' - 1 /\ mutated' = {}
    /\ passed_det' \in BOOLEAN /\ eff_map' = {}
    /\ perf_score' = 1 /\ splice_cycle' = 0 /\ stage_max' = 0
    /\ stage' = "recalibration" /\ pc' \in {"calibrated", "calibrate"}
    /\ pos' = 0 /\ try' = 0 /\ last_len' = 0
    /\ cycle' = 0 /\ kept' = "nothing" /\ new_paths' = FALSE
    /\ UNCHANGED <<fsvars, skip_requested>>

EnterStage(s) == stage' = s /\ pc' = "mutate" /\ pos' = 0 /\ try' = 0 /\ last_len' = 0

\* passed_det, a distance that is unknown, a throw of dice or the share of
\* another master: straight to the dictionary.
SkipDet ==
    /\ pc = "calibrated"
    /\ EnterStage("http")
    /\ UNCHANGED <<fsvars, out_buf, entry, score, new_paths, cycle, kept, skip_requested>>

BeginDet ==
    /\ pc = "calibrated" /\ ~passed_det
    /\ EnterStage("flip1")
    /\ UNCHANGED <<fsvars, out_buf, entry, score, new_paths, cycle, kept, skip_requested>>

-----------------------------------------------------------------------------
(* The loops.                                                              *)

InLoop == pc = "mutate" /\ afl = "idle" /\ stage \in DetStages \cup {"http"}

Run(who) == Call /\ pc' = who /\ kept' = "nothing"

Flagged(bytes) == Blocks(bytes) \cap eff_map # {}

\* Slip: a token may reach beyond the input.
FitsBut(bytes) == \A b \in bytes : b <= len

Fits(bytes) == bytes \subseteq Input

\* One mutation, and common_fuzz_stuff on the result.
Mutate ==
    /\ InLoop
    /\ pos < Stage.positions /\ try < Stage.tries
    /\ Overwrites => Fits(Stage.bytes)
    /\ Stage.map => Flagged(Stage.bytes)
    /\ mutated' = mutated \cup Stage.bytes
    /\ last_len' = IF Overwrites THEN Cardinality(Stage.bytes) ELSE 0
    /\ Run("common")
    /\ UNCHANGED <<stage, pos, try, foreign, entry, score, new_paths, cycle, skip_requested>>

\* A try that is left out: no flagged block, no room, the product of another
\* stage (could_be_bitflip ...), the same token, or a throw of dice.
SkipTry ==
    /\ InLoop
    /\ pos < Stage.positions /\ try < Stage.tries
    /\ Stage.map
    /\ try' = try + 1
    /\ stage \in {"flip16", "flip32"} => ~Flagged(Stage.bytes)
    /\ UNCHANGED <<fsvars, pc, stage, pos, last_len, out_buf, entry, score, new_paths, cycle, kept,
                   skip_requested>>

\* The bytes that the restore of the outer loop copies from in_buf.
Clobbered == Bytes(pos, last_len)

\* The end of the inner loop.
NextPosition ==
    /\ InLoop
    /\ pos < Stage.positions /\ try >= Stage.tries
    /\ foreign' = foreign \ Clobbered /\ mutated' = mutated \ Clobbered
    /\ pos' = pos + 1 /\ try' = 0 /\ last_len' = 0
    /\ UNCHANGED <<fsvars, pc, stage, entry, score, new_paths, cycle, kept, skip_requested>>

\* The end of a stage. The effector map is made before flip8, and flagged as a
\* whole behind it when it is dense.
NextStage ==
    /\ InLoop
    /\ pos >= Stage.positions
    /\ EnterStage(Stage.next)
    /\ eff_map' = CASE stage = "flip4" -> {0, Block(len - 1)}
                    [] stage = "flip8" ->
                         IF (Cardinality(eff_map) * 100) \div EffAlen > EffMaxPerc
                         THEN Blocks(Input) ELSE eff_map
                    [] OTHER -> eff_map
    /\ UNCHANGED <<fsvars, out_buf, len, passed_det, score, new_paths, cycle, kept,
                   skip_requested>>

\* mark_as_det_done.
DetDone ==
    /\ pc = "mutate" /\ stage = "det_done"
    /\ passed_det' = TRUE
    /\ EnterStage("http")
    /\ UNCHANGED <<fsvars, out_buf, len, eff_map, score, new_paths, cycle, kept,
                   skip_requested>>

\* skip_http_dict, or a throw of dice that a known distance allows.
SkipHttp ==
    /\ InLoop /\ stage = "http" /\ pos = 0
    /\ EnterStage("havoc")
    /\ UNCHANGED <<fsvars, out_buf, entry, score, new_paths, cycle, kept, skip_requested>>

-----------------------------------------------------------------------------
(* What becomes of an execution: common_fuzz_stuff, save_if_interesting.   *)

Returned(who) == pc = who /\ afl = "idle"

\* Slip: only the request to skip is looked at.
UnjudgedStopped == ~skip_requested

Unjudged == ~stop_soon /\ ~skip_requested

\* The label abandon_entry.
Abandon == pc' = "end"

Stopped ==
    /\ Returned("common") /\ stop_soon
    /\ Abandon
    /\ UNCHANGED <<fsvars, stage, loop, out_buf, entry, score, new_paths, cycle, kept,
                   skip_requested>>

Skipped ==
    /\ Returned("common") /\ ~stop_soon /\ skip_requested
    /\ skip_requested' = FALSE
    /\ Abandon
    /\ UNCHANGED <<fsvars, stage, loop, out_buf, entry, score, new_paths, cycle, kept>>

\* No new bits in the map for that fault.
Boring ==
    /\ Returned("common") /\ Unjudged
    /\ pc' = "restore"
    /\ UNCHANGED <<fsvars, stage, loop, out_buf, entry, score, new_paths, cycle, kept,
                   skip_requested>>

\* A new path: add_to_queue and the calibration inline.
KeepPath ==
    /\ Returned("common") /\ Unjudged /\ fault = "none"
    /\ kept' = "path" /\ new_paths' = (stage = "havoc")
    /\ pc' = "calibrate" /\ cycle' = 0
    /\ UNCHANGED <<fsvars, stage, loop, out_buf, entry, score, skip_requested>>

\* A crash, found at once or by the generous timeout.
KeepCrash ==
    /\ \/ Returned("common") /\ Unjudged
       \/ Returned("rerun") /\ ~stop_soon
    /\ fault = "crash"
    /\ kept' = "crash"
    /\ pc' = "restore"
    /\ UNCHANGED <<fsvars, stage, loop, out_buf, entry, score, new_paths, cycle, skip_requested>>

\* A hang with new bits is run again, exec_tmout < hang_tmout.
Rerun ==
    /\ Returned("common") /\ Unjudged /\ fault = "tmout"
    /\ Run("rerun")
    /\ UNCHANGED <<stage, loop, out_buf, entry, score, new_paths, cycle, skip_requested>>

KeepHang ==
    /\ Returned("rerun") /\ ~stop_soon /\ fault = "tmout"
    /\ kept' = "hang"
    /\ pc' = "restore"
    /\ UNCHANGED <<fsvars, stage, loop, out_buf, entry, score, new_paths, cycle, skip_requested>>

\* It was no hang, no new crash, or Ctrl-C came.
RerunInVain ==
    /\ Returned("rerun")
    /\ stop_soon \/ fault # "tmout"
    /\ pc' = "restore"
    /\ UNCHANGED <<fsvars, stage, loop, out_buf, entry, score, new_paths, cycle, kept,
                   skip_requested>>

CalibrationOver == cycle > 0 /\ (stop_soon \/ fault # "none" \/ cycle = CalCycles)

\* An execution of calibrate_case.
Calibrate ==
    /\ Returned("calibrate") /\ ~CalibrationOver
    /\ cycle' = cycle + 1
    /\ Run("calibrate")
    /\ UNCHANGED <<stage, loop, out_buf, entry, score, new_paths, skip_requested>>

\* Its end. Only Ctrl-C makes fuzz_one give up the entry it recalibrates.
EndCalibrate ==
    /\ Returned("calibrate") /\ CalibrationOver
    /\ cycle' = 0
    /\ IF stage # "recalibration" THEN pc' = "restore"
       ELSE IF stop_soon THEN Abandon ELSE pc' = "calibrated"
    /\ UNCHANGED <<fsvars, stage, loop, out_buf, entry, score, new_paths, kept, skip_requested>>

\* Back in the loop: the mutation is taken back, byte by byte as it was made.
\* The stages that overwrite do it at the end of the position. flip8 flags the
\* block whose bytes make a difference.
Restore ==
    /\ pc = "restore" /\ stage # "havoc"
    /\ mutated' = IF Overwrites THEN mutated ELSE mutated \ Stage.bytes
    /\ try' = try + 1
    /\ eff_map' \in IF stage = "flip8" THEN {eff_map, eff_map \cup Blocks(Stage.bytes)}
                    ELSE {eff_map}
    /\ pc' = "mutate"
    /\ UNCHANGED <<fsvars, stage, pos, last_len, foreign, len, passed_det, score,
                   new_paths, cycle, kept, skip_requested>>

-----------------------------------------------------------------------------
(* Havoc and splicing.                                                     *)

\* The label havoc_stage, with the score of the entry or of the splice cycle.
BeginHavoc ==
    /\ pc = "mutate" /\ stage = "havoc" /\ stage_max = 0
    /\ stage_max' = HavocMin /\ perf_score' = 1
    /\ new_paths' = FALSE
    /\ UNCHANGED <<fsvars, pc, stage, loop, out_buf, entry, splice_cycle, cycle, kept,
                   skip_requested>>

\* A stack of random tweaks.
Havoc ==
    /\ pc = "mutate" /\ afl = "idle" /\ stage = "havoc" /\ pos < stage_max
    /\ mutated' = Input
    /\ Run("common")
    /\ UNCHANGED <<stage, loop, foreign, entry, score, new_paths, cycle, skip_requested>>

\* "If we're finding new stuff, let's run for a bit longer, limits permitting."
MoreHavoc == new_paths /\ perf_score <= HavocMaxMult

RestoreHavoc ==
    /\ pc = "restore" /\ stage = "havoc"
    /\ foreign' = {} /\ mutated' = {}
    /\ pos' = pos + 1
    /\ IF MoreHavoc
       THEN stage_max' = 2 * stage_max /\ perf_score' = 2 * perf_score
       ELSE UNCHANGED <<stage_max, perf_score>>
    /\ new_paths' = FALSE
    /\ pc' = "mutate"
    /\ UNCHANGED <<fsvars, stage, try, last_len, entry, splice_cycle, cycle, kept, skip_requested>>

HavocOver == pc = "mutate" /\ stage = "havoc" /\ stage_max > 0 /\ pos >= stage_max

\* use_splicing: the entry is spliced with another one and goes back to havoc.
Splice ==
    /\ HavocOver
    /\ splice_cycle < SpliceCycles /\ len > 1
    /\ splice_cycle' = splice_cycle + 1
    /\ len' \in Lens \ {1}
    /\ foreign' = {} /\ mutated' = {}
    /\ pos' = 0 /\ stage_max' = 0
    /\ UNCHANGED <<fsvars, pc, stage, try, last_len, passed_det, eff_map, perf_score,
                   new_paths, cycle, kept, skip_requested>>

\* retry_splicing: no target that is long enough, or differs.
RetrySplice ==
    /\ HavocOver
    /\ splice_cycle < SpliceCycles /\ len > 1
    /\ splice_cycle' = splice_cycle + 1
    /\ UNCHANGED <<fsvars, pc, stage, loop, out_buf, entry, perf_score, stage_max, new_paths,
                   cycle, kept, skip_requested>>

\* The end of fuzz_one: splicing is not in use, or its cycles are over.
EndTurn ==
    /\ HavocOver
    /\ Abandon
    /\ UNCHANGED <<fsvars, stage, loop, out_buf, entry, score, new_paths, cycle, kept,
                   skip_requested>>

\* handle_skipreq.
SkipRequest ==
    /\ ~skip_requested
    /\ skip_requested' = TRUE
    /\ UNCHANGED <<fsvars, pc, stage, loop, out_buf, entry, score, new_paths, cycle, kept>>

-----------------------------------------------------------------------------
\* The straight-line code of fuzz_one, once it has been called.
TurnStep ==
    \/ SkipDet \/ BeginDet
    \/ Mutate \/ SkipTry \/ NextPosition \/ NextStage \/ DetDone \/ SkipHttp
    \/ Stopped \/ Skipped \/ Boring \/ KeepPath \/ KeepCrash \/ Rerun \/ KeepHang \/ RerunInVain
    \/ Calibrate \/ EndCalibrate \/ Restore
    \/ BeginHavoc \/ Havoc \/ RestoreHavoc \/ Splice \/ RetrySplice \/ EndTurn

\* What goes on below it.
Below(A) == A /\ UNCHANGED fovars

Next ==
    \/ StartTurn \/ TurnStep \/ SkipRequest
    \/ Below(Up) \/ Below(NotUp) \/ Below(RunTarget) \/ Below(ServerStep)
    \/ Below(ChildEnds) \/ Below(Alarm) \/ Below(StopSignal)

Spec == Init /\ [][Next]_vars

\* The fuzzer and its server run, and an alarm that is set goes off. A child
\* may hang, and no signal is owed.
FairSpec ==
    /\ Spec
    /\ WF_vars(TurnStep) /\ WF_vars(Below(RunTarget)) /\ WF_vars(Below(ServerStep))
    /\ WF_vars(Below(Alarm))

-----------------------------------------------------------------------------
(* Properties                                                              *)

\* What is kept is what it is kept as: a path comes from a child that finished,
\* a crash from one that crashed, a hang from one its alarm killed. The trace
\* of a child that Ctrl-C cut short is used for nothing.
KeptIsTrue ==
    /\ kept = "path"  => child.cause = "exit"
    /\ kept = "crash" => child.cause = "signal"
    /\ kept = "hang"  => child.cause = "alarm"

\* "bitflip L/S", "arith L/8" ...: an execution of a deterministic stage has the
\* one change of that stage at that place, inside the buffer, and none that an
\* earlier one left behind.
MutationsAlone ==
    pc = "common" /\ stage \in DetStages => mutated = Stage.bytes /\ mutated \subseteq Input

\* A turn ends, whatever the children do: they hang, find something in every
\* run, or are killed. The only other end is the one of afl-fuzz, when the alarm
\* of the handshake kills the fork server that has just said hello.
TurnEnds == pc # "end" ~> pc = "end" \/ afl = "fatal"
=============================================================================
