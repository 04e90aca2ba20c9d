------------------------------ MODULE AflQueue ------------------------------
(***************************************************************************)
(* The queue of afl-fuzz.c: how entries are calibrated, rated, marked as   *)
(* favored and counted, from the dry run over the initial inputs through   *)
(* the passes of the main loop. A completed execution of the target is a   *)
(* sample: its trace and its distance. What happens inside an execution is *)
(* the subject of ForkServer, what fuzz_one does between two executions    *)
(* that of FuzzOne.                                                        *)
(*                                                                         *)
(* Nobody else writes this state, but the counters are kept up to date in  *)
(* five functions, and a Ctrl-C may end any of them half way.              *)
(***************************************************************************)
EXTENDS Integers, Sequences, FiniteSets, FiniteSetsExt

CONSTANTS
    MapSize,    \* MAP_SIZE: positions 0 .. MapSize-1 of trace_bits
    Traces,     \* what an execution may leave in them, as hit count buckets
    MaxDist,    \* the distances are 1 .. MaxDist, or NoDistance
    Factors,    \* the values exec_us * len may have
    Samples,    \* what a completed execution shows: its trace and its distance
    Tolerated,  \* faults the dry run only skips: timeout_given > 1, AFL_SKIP_CRASHES
    CalCycles,  \* CAL_CYCLES
    CalChances, \* CAL_CHANCES
    FewPaths,   \* a queue of at most so many entries is worked on in full
    Seeds,      \* number of initial inputs
    MaxPaths    \* bound on the queue

Byte       == 0 .. MapSize - 1
NoDistance == -1
NoSum      == [b \in Byte |-> -1]   \* exec_cksum = 0

ASSUME QueueAssumption ==
    /\ MapSize \in Nat /\ MaxDist \in Nat
    /\ \A t \in Traces : t \in [Byte -> Nat]
    /\ Factors \subseteq Nat
    /\ Samples \subseteq [trace : Traces, dist : 1 .. MaxDist \cup {NoDistance}]
    /\ Tolerated \subseteq {"tmout", "crash"}
    /\ CalCycles \in Nat \ {0} /\ CalChances \in Nat \ {0}
    /\ FewPaths \in Nat
    /\ Seeds \in Nat \ {0} /\ MaxPaths \in Nat

VARIABLES
    queue,       \* the entries, in the order of their discovery
    top_rated,   \* top_rated[b]: the best entry for position b, or 0
    seen,        \* the bits cleared in virgin_bits: seen[b] is a set of buckets
    score_changed,
    pending_not_fuzzed, pending_favored,
    queued_favored, queued_with_cov, queued_variable,
    min_distance, max_distance,
    cal_failures,  \* initial inputs the dry run has given up on
    measured,      \* total_cal_cycles > 0
    queue_cur,     \* the entry at hand; in the dry run, the next one; 0 is NULL
    stop_soon,
    pc           \* dry run, loop (its head), pick and fuzz (in fuzz_one), sync, the end

counters == <<pending_not_fuzzed, pending_favored, queued_favored, queued_with_cov,
              queued_variable>>
rating   == <<top_rated, score_changed>>
range    == <<min_distance, max_distance>>
vars     == <<queue, rating, seen, counters, range, cal_failures, measured, queue_cur,
              stop_soon, pc>>

Distance == 1 .. MaxDist \cup {NoDistance}

\* scored is no field of the code: the positions in the trace the entry was
\* rated with, which trace_mini holds only as long as the entry is a winner.
QueueEntry ==
    [cal_failed : 0 .. CalChances, was_fuzzed : BOOLEAN, favored : BOOLEAN,
     has_new_cov : BOOLEAN, var_behavior : BOOLEAN, cksum : Traces \cup {NoSum},
     distance : Distance, factor : Factors \cup {0}, tc_ref : Nat,
     trace_mini : SUBSET Byte, scored : SUBSET Byte]

TypeOK ==
    /\ queue \in Seq(QueueEntry)
    /\ top_rated \in [Byte -> 0 .. Len(queue)]
    /\ seen \in [Byte -> SUBSET Nat]
    /\ score_changed \in BOOLEAN /\ measured \in BOOLEAN /\ stop_soon \in BOOLEAN
    /\ pending_not_fuzzed \in Nat /\ pending_favored \in Nat
    /\ queued_favored \in Nat /\ queued_with_cov \in Nat /\ queued_variable \in Nat
    /\ min_distance \in Distance /\ max_distance \in Distance
    /\ cal_failures \in Nat
    /\ queue_cur \in 0 .. Len(queue)
    /\ pc \in {"dry run", "started", "loop", "pick", "fuzz", "sync", "end", "fatal"}

-----------------------------------------------------------------------------
(* The map of what has been seen.                                          *)

\* The positions an execution went through: minimize_bits.
BytesOf(t) == {b \in Byte : t[b] # 0}

\* What has_new_bits returns: 2 for a position never seen, 1 for a hit count
\* never seen there.
HasNewBits(s, t) ==
    IF \E b \in BytesOf(t) : s[b] = {} THEN 2
    ELSE IF \E b \in BytesOf(t) : t[b] \notin s[b] THEN 1 ELSE 0

\* And what it does to the map, for one sample or several: "subsequent calls
\* will always return 0".
Seen(s, samples) ==
    [b \in Byte |-> s[b] \cup ({e.trace[b] : e \in samples} \ {0})]

-----------------------------------------------------------------------------
(* Distances: the widest range of any distance an entry ever had.          *)

Known(samples) == {e.dist : e \in samples} \ {NoDistance}

Widen(samples) ==
    LET all == Known(samples) \cup ({min_distance, max_distance} \ {NoDistance})
    IN IF Known(samples) = {} THEN UNCHANGED range
       ELSE min_distance' = Min(all) /\ max_distance' = Max(all)

\* add_to_queue: a new entry at the end of the queue.
NewEntry(dist, sum) ==
    [cal_failed |-> 0, was_fuzzed |-> FALSE, favored |-> FALSE, has_new_cov |-> FALSE,
     var_behavior |-> FALSE, cksum |-> sum, distance |-> dist, factor |-> 0, tc_ref |-> 0,
     trace_mini |-> {}, scored |-> {}]

-----------------------------------------------------------------------------
(* Rating.                                                                 *)

\* Slip: a larger entry may take a position from a smaller one.
WinsAlways(q, i, trace, factor) == BytesOf(trace)

\* The positions entry i wins with that factor: no holder, or not a better one.
Wins(q, i, trace, factor) ==
    {b \in BytesOf(trace) : top_rated[b] = 0 \/ factor <= q[top_rated[b]].factor}

\* Slip: a holder that loses several positions is charged for one of them.
RatedOnce(q, i, trace, factor) ==
    LET won     == Wins(q, i, trace, factor)
        lost(k) == {b \in won : top_rated[b] = k}
    IN [k \in 1 .. Len(q) |->
          [q[k] EXCEPT !.tc_ref = @ + (IF k = i THEN Cardinality(won) ELSE 0)
                                    - (IF lost(k) = {} THEN 0 ELSE 1),
                       !.trace_mini = IF k = i /\ won # {} THEN BytesOf(trace) ELSE @,
                       !.factor = IF k = i THEN factor ELSE @,
                       !.scored = IF k = i THEN BytesOf(trace) ELSE @]]

\* update_bitmap_score of entry i of q: it takes the positions it wins from
\* their holders. The last one a holder loses costs it its trace_mini.
Rated(q, i, trace, factor) ==
    LET won      == Wins(q, i, trace, factor)
        lost(k)  == Cardinality({b \in won : top_rated[b] = k})
        refs(k)  == q[k].tc_ref - lost(k) + IF k = i THEN Cardinality(won) ELSE 0
        mini(k)  == IF refs(k) = 0 /\ lost(k) > 0 THEN {}
                    ELSE IF k = i /\ won # {} /\ q[k].trace_mini = {} THEN BytesOf(trace)
                    ELSE q[k].trace_mini
    IN [k \in 1 .. Len(q) |->
          [q[k] EXCEPT !.tc_ref = refs(k), !.trace_mini = mini(k),
                       !.factor = IF k = i THEN factor ELSE @,
                       !.scored = IF k = i THEN BytesOf(trace) ELSE @]]

NewWinner(q, i, trace, factor) ==
    [b \in Byte |-> IF b \in Wins(q, i, trace, factor) THEN i ELSE top_rated[b]]

-----------------------------------------------------------------------------
(* Calibration.                                                            *)

\* What calibrate_case may meet: CalCycles samples, or fewer and then a fault
\* or a Ctrl-C, and the factor it measures. (The longer calibration of a
\* variable entry only takes more samples.)
Calibration ==
    UNION {[samples : [1 .. n -> Samples], factor : Factors,
            end : IF n = CalCycles THEN {"done"} ELSE {"tmout", "crash", "stop"}]
           : n \in 0 .. CalCycles}

Drawn(c) == {c.samples[k] : k \in DOMAIN c.samples}
LastOf(c) == c.samples[CalCycles]

\* hnb of the k-th sample, whose bits were marked one call before, when the
\* distance was read.
NewBits(s, c, k) == HasNewBits(Seen(s, {c.samples[j] : j \in 1 .. k}), c.samples[k].trace)

\* calibrate_case of entry i of q: an aborted calibration keeps its count of
\* failures, its distance and what it knows of the checksum.
Calibrated(q, i, s, c) ==
    LET e   == q[i]
        n   == Cardinality(DOMAIN c.samples)
        sum == IF e.cksum # NoSum \/ n = 0 THEN e.cksum ELSE c.samples[1].trace
        f   == [e EXCEPT
                  !.cal_failed   = IF c.end = "done" THEN 0 ELSE @ + 1,
                  !.distance     = IF n = 0 THEN @ ELSE c.samples[n].dist,
                  !.cksum        = sum,
                  !.var_behavior = @ \/ \E k \in 1 .. n : c.samples[k].trace # sum,
                  !.has_new_cov  = @ \/ \E k \in 1 .. n : NewBits(s, c, k) = 2]
        p   == [q EXCEPT ![i] = f]
    IN IF c.end = "done" THEN Rated(p, i, LastOf(c).trace, c.factor) ELSE p

\* The rest of what it changes.
Calibrate(q, i, s, c) ==
    LET e == Calibrated(q, i, s, c)[i]
    IN /\ stop_soon => c.end = "stop" /\ c.samples = <<>>
       /\ IF c.end = "done"
          THEN /\ top_rated' = NewWinner(q, i, LastOf(c).trace, c.factor)
               /\ score_changed' = (score_changed \/ Wins(q, i, LastOf(c).trace, c.factor) # {})
               /\ measured' = TRUE
          ELSE UNCHANGED <<rating, measured>>
       /\ seen' = Seen(s, Drawn(c))
       /\ queued_variable' = queued_variable + IF e.var_behavior /\ ~q[i].var_behavior THEN 1 ELSE 0
       /\ stop_soon' = (c.end = "stop")

-----------------------------------------------------------------------------
(* The dry run.                                                            *)

Init ==
    /\ queue = [i \in 1 .. Seeds |-> NewEntry(NoDistance, NoSum)]
    /\ top_rated = [b \in Byte |-> 0] /\ score_changed = FALSE
    /\ seen = [b \in Byte |-> {}]
    /\ pending_not_fuzzed = Seeds /\ pending_favored = 0
    /\ queued_favored = 0 /\ queued_with_cov = 0 /\ queued_variable = 0
    /\ min_distance = NoDistance /\ max_distance = NoDistance
    /\ cal_failures = 0 /\ measured = FALSE
    /\ queue_cur = 1 /\ stop_soon = FALSE /\ pc = "dry run"

\* One round of perform_dry_run: a fault is fatal, or the entry is given up.
\* The last round fails when every entry was given up.
DryRun ==
    /\ pc = "dry run"
    /\ \E c \in Calibration :
         LET q     == Calibrated(queue, queue_cur, seen, c)
             given == c.end \in Tolerated
         IN /\ Calibrate(queue, queue_cur, seen, c)
            /\ Widen(Drawn(c))
            /\ queue' = IF given THEN [q EXCEPT ![queue_cur].cal_failed = CalChances] ELSE q
            /\ cal_failures' = cal_failures + IF given THEN 1 ELSE 0
            /\ queued_with_cov' = queued_with_cov + IF q[queue_cur].has_new_cov THEN 1 ELSE 0
            /\ IF c.end \in {"done", "stop"} \cup Tolerated
               THEN IF queue_cur = Seeds \/ c.end = "stop"
                    THEN /\ pc' = IF cal_failures' = Seeds THEN "fatal" ELSE "started"
                         /\ queue_cur' = 0
                    ELSE queue_cur' = queue_cur + 1 /\ UNCHANGED pc
               ELSE pc' = "fatal" /\ UNCHANGED queue_cur
    /\ UNCHANGED <<pending_not_fuzzed, pending_favored, queued_favored>>

-----------------------------------------------------------------------------
(* Culling.                                                                *)

\* temp_v when the walk comes to position b: what no favored entry covers yet.
Left[b \in 0 .. MapSize] ==
    IF b = 0 THEN Byte
    ELSE IF top_rated[b - 1] # 0 /\ (b - 1) \in Left[b - 1]
         THEN Left[b - 1] \ queue[top_rated[b - 1]].trace_mini
         ELSE Left[b - 1]

\* The positions whose winner is grabbed.
Grabbed == {b \in Byte : top_rated[b] # 0 /\ b \in Left[b]}

\* Slip: the count of the pass before is not reset.
CullQueueAdding ==
    IF score_changed
    THEN /\ score_changed' = FALSE
         /\ queue' = [i \in DOMAIN queue |->
                        [queue[i] EXCEPT !.favored = \E b \in Grabbed : top_rated[b] = i]]
         /\ queued_favored' = Cardinality(Grabbed)
         /\ pending_favored' = pending_favored
                + Cardinality({b \in Grabbed : ~queue[top_rated[b]].was_fuzzed})
         /\ UNCHANGED top_rated
    ELSE UNCHANGED <<queue, rating, queued_favored, pending_favored>>

\* cull_queue.
CullQueue ==
    IF score_changed
    THEN /\ score_changed' = FALSE
         /\ queue' = [i \in DOMAIN queue |->
                        [queue[i] EXCEPT !.favored = \E b \in Grabbed : top_rated[b] = i]]
         /\ queued_favored' = Cardinality(Grabbed)
         /\ pending_favored' = Cardinality({b \in Grabbed : ~queue[top_rated[b]].was_fuzzed})
         /\ UNCHANGED top_rated
    ELSE UNCHANGED <<queue, rating, queued_favored, pending_favored>>

\* main after the dry run.
Start ==
    /\ pc = "started"
    /\ CullQueue
    /\ pc' = IF stop_soon THEN "end" ELSE "loop"
    /\ UNCHANGED <<seen, pending_not_fuzzed, queued_with_cov, queued_variable, range,
                   cal_failures, measured, queue_cur, stop_soon>>

-----------------------------------------------------------------------------
(* The main loop.                                                          *)

\* Its head: cull, and begin a new pass when the last one is over.
BeginTurn ==
    /\ pc = "loop"
    /\ CullQueue
    /\ queue_cur' = IF queue_cur = 0 THEN 1 ELSE queue_cur
    /\ pc' = "pick"
    /\ UNCHANGED <<seen, pending_not_fuzzed, queued_with_cov, queued_variable, range,
                   cal_failures, measured, stop_soon>>

\* Slip: an entry that was fuzzed is never passed over, a new one may be.
MaySkipNew(e) ==
    IF pending_favored > 0 THEN ~e.was_fuzzed \/ ~e.favored
    ELSE ~e.favored /\ Len(queue) > FewPaths

\* Whether fuzz_one may give up an entry by a throw of dice.
MaySkip(e) ==
    IF pending_favored > 0 THEN e.was_fuzzed \/ ~e.favored
    ELSE ~e.favored /\ Len(queue) > FewPaths

\* The end of an iteration of main's loop.
Advance ==
    /\ pc' = IF stop_soon THEN "end" ELSE "loop"
    /\ queue_cur' = IF stop_soon THEN queue_cur
                    ELSE IF queue_cur = Len(queue) THEN 0 ELSE queue_cur + 1

Skip ==
    /\ pc = "pick"
    /\ MaySkip(queue[queue_cur])
    /\ Advance
    /\ UNCHANGED <<queue, rating, seen, counters, range, cal_failures, measured, stop_soon>>

MayCalibrate(e) == e.cal_failed \in 1 .. CalChances - 1

\* fuzz_one on an entry that was calibrated, or that never will be.
Pick ==
    /\ pc = "pick"
    /\ ~MayCalibrate(queue[queue_cur])
    /\ pc' = "fuzz"
    /\ UNCHANGED <<queue, rating, seen, counters, range, cal_failures, measured, queue_cur,
                   stop_soon>>

\* The calibration of fuzz_one. Its failure does not keep it from going on.
Recalibrate ==
    /\ pc = "pick"
    /\ MayCalibrate(queue[queue_cur])
    /\ \E c \in Calibration :
         /\ Calibrate(queue, queue_cur, seen, c)
         /\ Widen(Drawn(c))
         /\ queue' = Calibrated(queue, queue_cur, seen, c)
         /\ queued_with_cov' = queued_with_cov
                + IF queue'[queue_cur].has_new_cov /\ ~queue[queue_cur].has_new_cov THEN 1 ELSE 0
    /\ pc' = "fuzz"
    /\ UNCHANGED <<pending_not_fuzzed, pending_favored, queued_favored, cal_failures, queue_cur>>

\* save_if_interesting of a sample with new bits: append, then calibrate. It
\* is called by every stage of fuzz_one and for each file of sync_fuzzers.
Save ==
    /\ pc \in {"fuzz", "sync"} /\ ~stop_soon
    /\ Len(queue) < MaxPaths
    /\ \E e \in Samples, c \in Calibration :
         LET hnb == HasNewBits(seen, e.trace)
             new == [NewEntry(e.dist, e.trace) EXCEPT !.has_new_cov = hnb = 2]
             q   == Append(queue, new)
         IN /\ hnb > 0
            /\ Calibrate(q, Len(q), Seen(seen, {e}), c)
            /\ Widen(Drawn(c) \cup {e})
            /\ queue' = Calibrated(q, Len(q), Seen(seen, {e}), c)
            /\ queued_with_cov' = queued_with_cov + IF queue'[Len(q)].has_new_cov THEN 1 ELSE 0
    /\ pending_not_fuzzed' = pending_not_fuzzed + 1
    /\ UNCHANGED <<pending_favored, queued_favored, cal_failures, queue_cur, pc>>

\* The label abandon_entry, reached at the end of the stages or by a stop.
Abandon ==
    /\ pc = "fuzz"
    /\ LET e == queue[queue_cur] IN
       IF ~stop_soon /\ e.cal_failed = 0 /\ ~e.was_fuzzed
       THEN /\ queue' = [queue EXCEPT ![queue_cur].was_fuzzed = TRUE]
            /\ pending_not_fuzzed' = pending_not_fuzzed - 1
            /\ pending_favored' = pending_favored - IF e.favored THEN 1 ELSE 0
       ELSE UNCHANGED <<queue, pending_not_fuzzed, pending_favored>>
    /\ pc' = "sync"
    /\ UNCHANGED <<rating, seen, queued_favored, queued_with_cov, queued_variable, range,
                   cal_failures, measured, queue_cur, stop_soon>>

\* The end of an import, or none is due.
NextEntry ==
    /\ pc = "sync"
    /\ Advance
    /\ UNCHANGED <<queue, rating, seen, counters, range, cal_failures, measured, stop_soon>>

\* Ctrl-C outside an execution.
Stop ==
    /\ pc \notin {"end", "fatal"} /\ ~stop_soon
    /\ stop_soon' = TRUE
    /\ UNCHANGED <<queue, rating, seen, counters, range, cal_failures, measured, queue_cur, pc>>

Step == DryRun \/ Start \/ BeginTurn \/ Skip \/ Pick \/ Recalibrate \/ Abandon \/ NextEntry

Next == Step \/ Save \/ Stop

Spec == Init /\ [][Next]_vars

\* The fuzzer goes on; that it finds anything, or is stopped, is not asked.
FairSpec == Spec /\ WF_vars(Step)

-----------------------------------------------------------------------------
(* Properties                                                              *)

\* The counters that steer skipping and that the user sees are what a count of
\* the entries gives, though five functions keep them, some calibrations fail
\* half way and a Ctrl-C may come anywhere; pending_not_fuzzed is off when an
\* entry that was given up, or was interrupted, counts as fuzzed.
CountsAreExact ==
    /\ pending_not_fuzzed = Cardinality({i \in DOMAIN queue : ~queue[i].was_fuzzed})
    /\ pending_favored = Cardinality({i \in DOMAIN queue : queue[i].favored /\ ~queue[i].was_fuzzed})
    /\ queued_favored = Cardinality({i \in DOMAIN queue : queue[i].favored})
    /\ queued_with_cov = Cardinality({i \in DOMAIN queue : queue[i].has_new_cov})
    /\ queued_variable = Cardinality({i \in DOMAIN queue : queue[i].var_behavior})

\* trace_mini is there exactly as long as something may read it: cull_queue
\* reads the one of a winner, update_bitmap_score frees it with the last
\* position it loses.
WinnersKeepTraces ==
    \A i \in DOMAIN queue :
        LET held == {b \in Byte : top_rated[b] = i}
        IN /\ queue[i].tc_ref = Cardinality(held)
           /\ held \subseteq queue[i].trace_mini
           /\ held = {} => queue[i].trace_mini = {}

\* "we only want to use top_rated[] entries": every position a calibrated entry
\* goes through is held by one that is no more expensive, and after culling a
\* favored entry goes through it.
FavoredCover ==
    \A b \in UNION {queue[i].scored : i \in DOMAIN queue} :
        /\ top_rated[b] # 0
        /\ \A i \in DOMAIN queue :
              b \in queue[i].scored => queue[top_rated[b]].factor <= queue[i].factor
        /\ ~score_changed => \E i \in DOMAIN queue : queue[i].favored /\ b \in queue[i].trace_mini

\* The range the probabilities of fuzz_one are computed from spans the
\* distance of every entry, whichever of three places it came from.
DistancesBounded ==
    \A i \in DOMAIN queue :
        queue[i].distance # NoDistance => queue[i].distance \in min_distance .. max_distance

Waiting(i) == i \in DOMAIN queue /\ queue[i].favored /\ ~queue[i].was_fuzzed

\* A favored entry that was not fuzzed gets its turn, or is no longer favored,
\* or the fuzzer is stopped: nothing that may be passed over by a throw of dice
\* keeps it off for ever.
FavoredGetsFuzzed == \A i \in 1 .. MaxPaths : Waiting(i) ~> ~Waiting(i) \/ stop_soon
=============================================================================
