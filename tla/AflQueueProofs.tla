--------------------------- MODULE AflQueueProofs ---------------------------
(***************************************************************************)
(* AFL's queue, for maps of any size, any traces, distances, factors and   *)
(* numbers of calibration cycles. A first invariant, QueueInv, has the     *)
(* types (no counter drops below zero, no reference count does), the       *)
(* ownership of trace_mini and the range of distances. A second one,       *)
(* Books, is proved on top of it: the counters are exact, and the favored  *)
(* entries cover what the rated ones go through. Both come down to the     *)
(* walk of cull_queue over the positions, Left: it only ever covers more,  *)
(* so two grabbed positions have two winners, and it leaves out a held     *)
(* position only when a grabbed winner goes through it.                    *)
(***************************************************************************)
EXTENDS AflQueue, FiniteSetTheorems, WellFoundedInduction, TLAPS

Held(top, i) == {b \in Byte : top[b] = i}

\* WinnersKeepTraces of any queue and any winners.
Keeps(q, top) ==
    \A i \in 1 .. Len(q) :
        /\ q[i].tc_ref = Cardinality(Held(top, i))
        /\ Held(top, i) \subseteq q[i].trace_mini
        /\ Held(top, i) = {} => q[i].trace_mini = {}

\* The entries that never were calibrated to the end hold no position.
Unrated(q, top) == \A i \in 1 .. Len(q) : q[i].cal_failed # 0 => Held(top, i) = {}

NotFuzzed(q)     == {i \in 1 .. Len(q) : ~q[i].was_fuzzed}
FavoredLeft(q)   == {i \in 1 .. Len(q) : q[i].favored /\ ~q[i].was_fuzzed}

\* The counters that are decreased.
Pending ==
    /\ pending_not_fuzzed = Cardinality(NotFuzzed(queue))
    /\ pending_favored >= Cardinality(FavoredLeft(queue))

Span ==
    /\ min_distance = NoDistance <=> max_distance = NoDistance
    /\ min_distance <= max_distance

\* The entry at hand; the ones the dry run has not come to are untouched.
AtHand ==
    /\ pc \in {"pick", "fuzz", "sync"} => queue_cur # 0
    /\ Len(queue) >= Seeds
    /\ pc = "dry run" =>
          /\ queue_cur \in 1 .. Seeds /\ Len(queue) = Seeds
          /\ \A i \in queue_cur .. Seeds : queue[i].cal_failed = 0 /\ Held(top_rated, i) = {}

QueueInv ==
    /\ TypeOK /\ Keeps(queue, top_rated) /\ Unrated(queue, top_rated) /\ Pending
    /\ Span /\ DistancesBounded /\ AtHand

-----------------------------------------------------------------------------
(* Sets and their sizes.                                                   *)

\* Sets of map positions are finite.
LEMMA ByteSets ==
    ASSUME NEW S \in SUBSET Byte
    PROVE  IsFiniteSet(S) /\ Cardinality(S) \in Nat /\ (Cardinality(S) = 0 <=> S = {})
  <1>1. IsFiniteSet(Byte)
    BY QueueAssumption, FS_Interval DEF Byte
  <1>. QED BY <1>1, FS_Subset, FS_CardinalityType, FS_EmptySet

\* So are sets of places in the queue.
LEMMA IndexSets ==
    ASSUME NEW n \in Nat, NEW S \in SUBSET (1 .. n)
    PROVE  IsFiniteSet(S) /\ Cardinality(S) \in Nat
  <1>1. IsFiniteSet(1 .. n)
    BY FS_Interval
  <1>. QED BY <1>1, FS_Subset, FS_CardinalityType

\* Every non-empty set of natural numbers has a least element.
LEMMA LeastElement ==
    ASSUME NEW S \in SUBSET Nat, S # {}
    PROVE  \E x \in S : \A y \in S : x <= y
  <1> DEFINE Less == {ss \in Nat \X Nat : ss[1] < ss[2]}
  <1>1. IsWellFoundedOn(Less, Nat)
    BY NatLessThanWellFounded DEF OpToRel
  <1>2. PICK x \in S : \A y \in S : ~(<<y, x>> \in Less)
    BY <1>1, WFMin
  <1>3. ASSUME NEW y \in S, ~(x <= y) PROVE FALSE
    <2>1. x \in Nat /\ y \in Nat /\ y < x
      BY <1>3
    <2>2. <<y, x>> \in Less
      BY <2>1
    <2>. QED BY <1>2, <2>2
  <1>. QED BY <1>3

\* What the community modules' Min and Max return of a set of distances.
LEMMA EndsOfDistances ==
    ASSUME NEW S \in SUBSET (1 .. MaxDist), S # {}
    PROVE  /\ Min(S) \in S /\ Max(S) \in S
           /\ \A x \in S : Min(S) <= x /\ x <= Max(S)
  <1>1. MaxDist \in Nat
    BY QueueAssumption
  <1>2. \E x \in S : \A y \in S : x <= y
    <2>1. S \in SUBSET Nat
      BY <1>1
    <2>. QED BY <2>1, LeastElement
  <1>3. \E x \in S : \A y \in S : x >= y
    <2> DEFINE Flipped == {d \in Nat : MaxDist - d \in S}
    <2>1. PICK s \in S : TRUE
      OBVIOUS
    <2>2. MaxDist - s \in Flipped
      BY <1>1
    <2>3. PICK d \in Flipped : \A e \in Flipped : d <= e
      BY <2>2, LeastElement
    <2>4. ASSUME NEW y \in S PROVE MaxDist - d >= y
      <3>1. MaxDist - y \in Flipped
        BY <1>1
      <3>2. d <= MaxDist - y
        BY <2>3, <3>1
      <3>. QED BY <1>1, <3>2
    <2>. QED BY <2>4
  <1>4. Min(S) \in S /\ \A y \in S : Min(S) <= y
    BY <1>2 DEF Min
  <1>5. Max(S) \in S /\ \A y \in S : Max(S) >= y
    BY <1>3 DEF Max
  <1>. QED BY <1>1, <1>4, <1>5

\* What a calibration consists of.
LEMMA CalibrationType ==
    ASSUME NEW c \in Calibration
    PROVE  \E n \in 0 .. CalCycles :
              /\ c.samples \in [1 .. n -> Samples] /\ DOMAIN c.samples = 1 .. n
              /\ Cardinality(DOMAIN c.samples) = n
              /\ c.factor \in Factors
              /\ c.end \in {"done", "tmout", "crash", "stop"}
              /\ c.end = "done" => n = CalCycles
              /\ n = CalCycles => c.end = "done"
  <1>1. PICK n \in 0 .. CalCycles :
            c \in [samples : [1 .. n -> Samples], factor : Factors,
                   end : IF n = CalCycles THEN {"done"} ELSE {"tmout", "crash", "stop"}]
    BY DEF Calibration
  <1>2. n \in Nat
    BY QueueAssumption
  <1>3. Cardinality(1 .. n) = n
    <2>1. \A k \in Nat : Cardinality(1 .. k) = IF 1 > k THEN 0 ELSE k - 1 + 1
      BY FS_Interval
    <2>. QED BY <1>2, <2>1
  <1>4. c.samples \in [1 .. n -> Samples] /\ c.factor \in Factors
    BY <1>1
  <1>5. c.end \in IF n = CalCycles THEN {"done"} ELSE {"tmout", "crash", "stop"}
    BY <1>1
  <1>. QED BY <1>3, <1>4, <1>5

\* What is drawn, and what is known of it.
LEMMA DrawnType ==
    ASSUME NEW c \in Calibration
    PROVE  Drawn(c) \in SUBSET Samples
  BY CalibrationType DEF Drawn

\* The known distances among samples.
LEMMA KnownType ==
    ASSUME NEW S \in SUBSET Samples
    PROVE  /\ Known(S) \in SUBSET (1 .. MaxDist)
           /\ \A e \in S : e.dist = NoDistance \/ e.dist \in Known(S)
  <1>1. ASSUME NEW e \in S PROVE e.dist \in 1 .. MaxDist \cup {NoDistance}
    BY QueueAssumption
  <1>. QED BY <1>1 DEF Known

\* The range never narrows, and takes in what is known of the samples.
LEMMA WidenKeeps ==
    ASSUME NEW S \in SUBSET Samples, Widen(S), Span,
           min_distance \in Distance, max_distance \in Distance
    PROVE  /\ min_distance' \in Distance /\ max_distance' \in Distance /\ Span'
           /\ Known(S) \subseteq min_distance' .. max_distance'
           /\ \A d \in 1 .. MaxDist : d \in min_distance .. max_distance
                                       => d \in min_distance' .. max_distance'
  <1> DEFINE all == Known(S) \cup ({min_distance, max_distance} \ {NoDistance})
  <1>1. Known(S) \in SUBSET (1 .. MaxDist) /\ MaxDist \in Nat
    BY KnownType, QueueAssumption
  <1>2. CASE Known(S) = {}
    BY <1>2 DEF Widen, range, Span
  <1>3. CASE Known(S) # {}
    <2>1. all \in SUBSET (1 .. MaxDist) /\ all # {}
      BY <1>1, <1>3 DEF Distance
    <2>2. min_distance' = Min(all) /\ max_distance' = Max(all)
      BY <1>3 DEF Widen
    <2>3. /\ Min(all) \in all /\ Max(all) \in all
          /\ \A x \in all : Min(all) <= x /\ x <= Max(all)
      BY <2>1, EndsOfDistances
    <2>4. Known(S) \subseteq all
      OBVIOUS
    <2>5. min_distance # NoDistance => min_distance \in all /\ max_distance \in all
      BY DEF Span
    <2> HIDE DEF all
    <2>6. Min(all) \in 1 .. MaxDist /\ Max(all) \in 1 .. MaxDist /\ Min(all) <= Max(all)
      BY <2>1, <2>3
    <2>7. \A x \in all : x \in Min(all) .. Max(all)
      BY <2>1, <2>3, <2>6
    <2>8. ASSUME NEW d \in 1 .. MaxDist, d \in min_distance .. max_distance
          PROVE  d \in Min(all) .. Max(all)
      <3>1. CASE min_distance = NoDistance
        BY <2>8, <3>1 DEF Span, NoDistance
      <3>2. CASE min_distance # NoDistance
        <4>1. Min(all) <= min_distance /\ max_distance <= Max(all)
          BY <2>3, <2>5, <3>2
        <4>. QED BY <1>1, <2>6, <2>8, <3>2, <4>1 DEF Distance, Span, NoDistance
      <3>. QED BY <3>1, <3>2
    <2>. QED BY <2>2, <2>4, <2>6, <2>7, <2>8 DEF Distance, Span, NoDistance
  <1>. QED BY <1>2, <1>3

-----------------------------------------------------------------------------
(* Rating.                                                                 *)

\* What rating entry i of q leaves of the entries and makes of the winners:
\* references and traces agree with them.
Kept(q, i, r, w) ==
    /\ r \in Seq(QueueEntry) /\ Len(r) = Len(q)
    /\ w \in [Byte -> 0 .. Len(q)]
    /\ Keeps(r, w)
    /\ \A k \in 1 .. Len(q) :
          /\ r[k].cal_failed = q[k].cal_failed /\ r[k].was_fuzzed = q[k].was_fuzzed
          /\ r[k].favored = q[k].favored /\ r[k].distance = q[k].distance
    /\ \A k \in 1 .. Len(q) : k # i /\ Held(top_rated, k) = {} => Held(w, k) = {}

\* An entry that holds no position may be rated.
LEMMA RatedKeeps ==
    ASSUME NEW q \in Seq(QueueEntry), NEW i \in 1 .. Len(q), NEW t \in Traces, NEW f \in Factors,
           top_rated \in [Byte -> 0 .. Len(q)], Keeps(q, top_rated), Held(top_rated, i) = {}
    PROVE  Kept(q, i, Rated(q, i, t, f), NewWinner(q, i, t, f))
  <1> DEFINE r == Rated(q, i, t, f)
             w == NewWinner(q, i, t, f)
  <1> DEFINE won     == Wins(q, i, t, f)
             lost(k) == {b \in won : top_rated[b] = k}
             refs(k) == q[k].tc_ref - Cardinality(lost(k)) + IF k = i THEN Cardinality(won) ELSE 0
             mini(k) == IF refs(k) = 0 /\ Cardinality(lost(k)) > 0 THEN {}
                        ELSE IF k = i /\ won # {} /\ q[k].trace_mini = {} THEN BytesOf(t)
                        ELSE q[k].trace_mini
  <1>1. won \in SUBSET Byte /\ won \subseteq BytesOf(t) /\ BytesOf(t) \in SUBSET Byte
    BY DEF Wins, BytesOf
  <1>2. w = [b \in Byte |-> IF b \in won THEN i ELSE top_rated[b]]
    BY DEF NewWinner
  <1>3. r = [k \in 1 .. Len(q) |->
               [q[k] EXCEPT !.tc_ref = refs(k), !.trace_mini = mini(k),
                            !.factor = IF k = i THEN f ELSE @,
                            !.scored = IF k = i THEN BytesOf(t) ELSE @]]
    BY DEF Rated
  <1>4. Len(q) \in Nat /\ \A k \in 1 .. Len(q) : q[k] \in QueueEntry
    OBVIOUS
  <1>5. w \in [Byte -> 0 .. Len(q)]
    BY <1>2, <1>4
  <1> HIDE DEF won, r, w
  <1>6. ASSUME NEW k \in 1 .. Len(q)
        PROVE  /\ refs(k) \in Nat /\ refs(k) = Cardinality(Held(w, k))
               /\ mini(k) \in SUBSET Byte
               /\ Held(w, k) \subseteq mini(k) /\ (Held(w, k) = {} => mini(k) = {})
               /\ k # i /\ Held(top_rated, k) = {} => Held(w, k) = {}
    <2>1. lost(k) \in SUBSET Byte /\ lost(k) \subseteq Held(top_rated, k)
      BY <1>1 DEF Held
    <2>2. /\ q[k].tc_ref = Cardinality(Held(top_rated, k))
          /\ Held(top_rated, k) \subseteq q[k].trace_mini
          /\ Held(top_rated, k) = {} => q[k].trace_mini = {}
          /\ q[k].trace_mini \in SUBSET Byte
      BY <1>4 DEF Keeps, QueueEntry
    <2>3. CASE k = i
      <3>1. lost(k) = {} /\ Held(w, k) = won
        BY <1>1, <1>2, <2>1, <2>3 DEF Held
      <3>2. Cardinality(lost(k)) = 0 /\ Cardinality(won) \in Nat
            /\ (Cardinality(won) = 0 <=> won = {}) /\ q[k].tc_ref = 0
        BY <1>1, <2>2, <2>3, <3>1, ByteSets, FS_EmptySet
      <3>3. refs(k) = Cardinality(won)
        BY <2>3, <3>2
      <3>4. mini(k) = IF won # {} THEN BytesOf(t) ELSE {}
        <4>1. q[k].trace_mini = {} /\ ~(Cardinality(lost(k)) > 0)
          BY <2>2, <2>3, <3>2
        <4> HIDE DEF refs, lost
        <4>. QED BY <2>3, <4>1
      <3>. QED BY <1>1, <2>3, <3>1, <3>2, <3>3, <3>4
    <2>4. CASE k # i
      <3>1. Held(w, k) = Held(top_rated, k) \ lost(k)
        BY <1>1, <1>2, <2>4 DEF Held
      <3>2. Held(top_rated, k) \in SUBSET Byte /\ Held(w, k) \in SUBSET Byte
        BY DEF Held
      <3>3. /\ Cardinality(Held(w, k)) =
                  Cardinality(Held(top_rated, k)) - Cardinality(Held(top_rated, k) \cap lost(k))
            /\ Held(top_rated, k) \cap lost(k) = lost(k)
        BY <2>1, <3>1, <3>2, ByteSets, FS_Difference
      <3>4. /\ Cardinality(lost(k)) \in Nat /\ Cardinality(Held(top_rated, k)) \in Nat
            /\ Cardinality(Held(w, k)) \in Nat
            /\ (Cardinality(lost(k)) = 0 <=> lost(k) = {})
            /\ (Cardinality(Held(w, k)) = 0 <=> Held(w, k) = {})
        BY <2>1, <3>2, ByteSets
      <3>5. refs(k) = Cardinality(Held(w, k))
        <4>1. refs(k) = q[k].tc_ref - Cardinality(lost(k)) + 0
          BY <2>4
        <4>2. Cardinality(Held(w, k)) = Cardinality(Held(top_rated, k)) - Cardinality(lost(k))
          BY <3>3
        <4> HIDE DEF refs, lost
        <4>. QED BY <2>2, <3>4, <4>1, <4>2
      <3>6. mini(k) = IF Held(w, k) = {} /\ lost(k) # {} THEN {} ELSE q[k].trace_mini
        BY <2>4, <3>4, <3>5
      <3> HIDE DEF lost, refs, mini
      <3>. QED BY <2>2, <2>4, <3>1, <3>4, <3>5, <3>6
    <2>. QED BY <2>3, <2>4
  <1> HIDE DEF refs, mini
  <1>7. ASSUME NEW k \in 1 .. Len(q)
        PROVE  /\ r[k] \in QueueEntry
               /\ r[k].tc_ref = refs(k) /\ r[k].trace_mini = mini(k)
               /\ r[k].cal_failed = q[k].cal_failed /\ r[k].was_fuzzed = q[k].was_fuzzed
               /\ r[k].favored = q[k].favored /\ r[k].distance = q[k].distance
    <2>1. /\ q[k] \in QueueEntry /\ q[k].factor \in Factors \cup {0}
          /\ q[k].scored \in SUBSET Byte
      BY <1>4 DEF QueueEntry
    <2> DEFINE ff == IF k = i THEN f ELSE q[k].factor
               bb == IF k = i THEN BytesOf(t) ELSE q[k].scored
    <2>2. r[k] = [q[k] EXCEPT !.tc_ref = refs(k), !.trace_mini = mini(k),
                              !.factor = ff, !.scored = bb]
      BY <1>3, <2>1 DEF QueueEntry
    <2>3. ff \in Factors \cup {0} /\ bb \in SUBSET Byte
      BY <1>1, <2>1
    <2>4. refs(k) \in Nat /\ mini(k) \in SUBSET Byte
      BY <1>6
    <2> DEFINE rk == r[k]
    <2>5. rk = [q[k] EXCEPT !.tc_ref = refs(k), !.trace_mini = mini(k),
                            !.factor = ff, !.scored = bb]
      BY <2>2
    <2> HIDE DEF ff, bb, rk
    <2>6. /\ rk \in QueueEntry
          /\ rk.tc_ref = refs(k) /\ rk.trace_mini = mini(k)
          /\ rk.cal_failed = q[k].cal_failed /\ rk.was_fuzzed = q[k].was_fuzzed
          /\ rk.favored = q[k].favored /\ rk.distance = q[k].distance
      <3> DEFINE e == q[k]
                 rr == refs(k)
                 mm == mini(k)
      <3>1. /\ e \in QueueEntry /\ rr \in Nat /\ mm \in SUBSET Byte
            /\ rk = [e EXCEPT !.tc_ref = rr, !.trace_mini = mm, !.factor = ff, !.scored = bb]
        BY <2>1, <2>4, <2>5
      <3> HIDE DEF e, rr, mm
      <3>2. /\ rk \in QueueEntry
            /\ rk.tc_ref = rr /\ rk.trace_mini = mm
            /\ rk.cal_failed = e.cal_failed /\ rk.was_fuzzed = e.was_fuzzed
            /\ rk.favored = e.favored /\ rk.distance = e.distance
        BY <2>3, <3>1 DEF QueueEntry
      <3>. QED BY <3>2 DEF e, rr, mm
    <2>. QED BY <2>6 DEF rk
  <1>8. r \in Seq(QueueEntry) /\ Len(r) = Len(q)
    <2>1. r \in [1 .. Len(q) -> QueueEntry]
      BY <1>3, <1>7
    <2>. QED BY <1>4, <2>1
  <1>9. Keeps(r, w)
    BY <1>6, <1>7, <1>8 DEF Keeps
  <1>. QED BY <1>5, <1>6, <1>7, <1>8, <1>9 DEF r, w, Kept

-----------------------------------------------------------------------------
(* Calibration.                                                            *)

\* The winners after a calibration.
Top(q, i, c) == IF c.end = "done" THEN NewWinner(q, i, LastOf(c).trace, c.factor) ELSE top_rated

\* The distances of what is drawn.
Dists(c) == {e.dist : e \in Drawn(c)}

\* What a calibration leaves of the entries, completed or not.
Tried(q, i, c, r, w) ==
    /\ r \in Seq(QueueEntry) /\ Len(r) = Len(q)
    /\ w \in [Byte -> 0 .. Len(q)]
    /\ Keeps(r, w) /\ Unrated(r, w)
    /\ \A k \in 1 .. Len(q) : r[k].was_fuzzed = q[k].was_fuzzed /\ r[k].favored = q[k].favored
    /\ \A k \in 1 .. Len(q) \ {i} :
          r[k].cal_failed = q[k].cal_failed /\ r[k].distance = q[k].distance
    /\ \A k \in 1 .. Len(q) \ {i} : Held(top_rated, k) = {} => Held(w, k) = {}
    /\ r[i].distance \in {q[i].distance} \cup Dists(c)
    /\ c.end # "done" => Held(w, i) = {}

\* What calibrate_case itself writes: entry f in place of entry i, which is then
\* rated if the calibration was completed.
Measures(q, i, s, c, f) ==
    /\ Calibrated(q, i, s, c) =
          IF c.end = "done" THEN Rated([q EXCEPT ![i] = f], i, LastOf(c).trace, c.factor)
          ELSE [q EXCEPT ![i] = f]
    /\ c.end = "done" => f.cal_failed = 0
    /\ f.distance \in {q[i].distance} \cup Dists(c)
    /\ q[i].has_new_cov => f.has_new_cov
    /\ q[i].var_behavior => f.var_behavior
    /\ f.was_fuzzed = q[i].was_fuzzed /\ f.favored = q[i].favored
    /\ f.tc_ref = q[i].tc_ref /\ f.trace_mini = q[i].trace_mini
    /\ f.factor = q[i].factor /\ f.scored = q[i].scored

\* What a calibration that is begun makes of its entry.
LEMMA CalibratedEntry ==
    ASSUME NEW q \in Seq(QueueEntry), NEW i \in 1 .. Len(q), NEW s, NEW c \in Calibration,
           q[i].cal_failed < CalChances
    PROVE  \E f \in QueueEntry : Measures(q, i, s, c, f)
  <1>1. PICK n \in 0 .. CalCycles :
              /\ c.samples \in [1 .. n -> Samples] /\ DOMAIN c.samples = 1 .. n
              /\ Cardinality(DOMAIN c.samples) = n
    BY CalibrationType
  <1>2. Len(q) \in Nat /\ q[i] \in QueueEntry /\ CalCycles \in Nat \ {0} /\ CalChances \in Nat \ {0}
    BY QueueAssumption
  <1> DEFINE e    == q[i]
             sum  == IF e.cksum # NoSum \/ n = 0 THEN e.cksum ELSE c.samples[1].trace
             fail == IF c.end = "done" THEN 0 ELSE e.cal_failed + 1
             dist == IF n = 0 THEN e.distance ELSE c.samples[n].dist
             vary == e.var_behavior \/ \E k \in 1 .. n : c.samples[k].trace # sum
             cov  == e.has_new_cov \/ \E k \in 1 .. n : NewBits(s, c, k) = 2
             f    == [e EXCEPT !.cal_failed = fail, !.distance = dist, !.cksum = sum,
                               !.var_behavior = vary, !.has_new_cov = cov]
  <1>3. Calibrated(q, i, s, c) =
            IF c.end = "done" THEN Rated([q EXCEPT ![i] = f], i, LastOf(c).trace, c.factor)
            ELSE [q EXCEPT ![i] = f]
    BY <1>1 DEF Calibrated
  <1>4. n # 0 => /\ c.samples[n] \in Samples /\ c.samples[1] \in Samples
                 /\ c.samples[n] \in Drawn(c)
    <2>1. n # 0 => n \in 1 .. n /\ 1 \in 1 .. n
      BY <1>2
    <2>. QED BY <1>1, <2>1 DEF Drawn
  <1>5. \A x \in Samples : x.trace \in Traces /\ x.dist \in Distance
    BY QueueAssumption DEF Distance
  <1>6. /\ fail \in 0 .. CalChances
        /\ dist \in Distance /\ dist \in {e.distance} \cup Dists(c)
        /\ sum \in Traces \cup {NoSum}
        /\ vary \in BOOLEAN /\ cov \in BOOLEAN
    <2>1. e.cal_failed \in 0 .. CalChances /\ e.distance \in Distance
          /\ e.cksum \in Traces \cup {NoSum} /\ e.var_behavior \in BOOLEAN
          /\ e.has_new_cov \in BOOLEAN
      BY <1>2 DEF QueueEntry
    <2>2. fail \in 0 .. CalChances
      BY <1>2, <2>1
    <2>3. dist \in Distance /\ dist \in {e.distance} \cup Dists(c)
      BY <1>4, <1>5, <2>1 DEF Dists
    <2>4. sum \in Traces \cup {NoSum}
      BY <1>4, <1>5, <2>1
    <2>5. vary \in BOOLEAN /\ cov \in BOOLEAN
      BY <2>1
    <2>. QED BY <2>2, <2>3, <2>4, <2>5
  <1>7. /\ e.has_new_cov => cov
        /\ e.var_behavior => vary
        /\ c.end = "done" => fail = 0
    OBVIOUS
  <1>8. /\ f \in QueueEntry
        /\ f.cal_failed = fail /\ f.distance = dist /\ f.has_new_cov = cov /\ f.var_behavior = vary
        /\ f.was_fuzzed = e.was_fuzzed /\ f.favored = e.favored
        /\ f.tc_ref = e.tc_ref /\ f.trace_mini = e.trace_mini /\ f.factor = e.factor
        /\ f.scored = e.scored
    <2>1. e \in QueueEntry
      BY <1>2
    <2> HIDE DEF e, sum, fail, dist, vary, cov
    <2>. QED BY <1>6, <2>1 DEF QueueEntry
  <1> HIDE DEF f, fail, dist, vary, cov
  <1>. QED BY <1>3, <1>6, <1>7, <1>8 DEF Measures

\* A calibration of an entry that holds no position keeps the winners in order.
LEMMA CalibratedKeeps ==
    ASSUME NEW q \in Seq(QueueEntry), NEW i \in 1 .. Len(q), NEW s, NEW c \in Calibration,
           top_rated \in [Byte -> 0 .. Len(q)], Keeps(q, top_rated), Unrated(q, top_rated),
           Held(top_rated, i) = {}, q[i].cal_failed < CalChances
    PROVE  Tried(q, i, c, Calibrated(q, i, s, c), Top(q, i, c))
  <1> DEFINE r == Calibrated(q, i, s, c)
             w == Top(q, i, c)
  <1> SUFFICES Tried(q, i, c, r, w)
    OBVIOUS
  <1>1. PICK f \in QueueEntry : Measures(q, i, s, c, f)
    BY CalibratedEntry
  <1>2. Len(q) \in Nat
    OBVIOUS
  <1> DEFINE p == [q EXCEPT ![i] = f]
  <1>3. r = IF c.end = "done" THEN Rated(p, i, LastOf(c).trace, c.factor) ELSE p
    BY <1>1 DEF Measures
  <1>0. w = IF c.end = "done" THEN NewWinner(q, i, LastOf(c).trace, c.factor) ELSE top_rated
    BY DEF Top
  <1> HIDE DEF r, w
  <1>8. /\ p \in Seq(QueueEntry) /\ Len(p) = Len(q) /\ p[i] = f
        /\ \A k \in 1 .. Len(q) : k # i => p[k] = q[k]
    OBVIOUS
  <1>12. /\ f.distance \in {q[i].distance} \cup Dists(c)
         /\ c.end = "done" => f.cal_failed = 0
         /\ f.was_fuzzed = q[i].was_fuzzed /\ f.favored = q[i].favored
         /\ f.tc_ref = q[i].tc_ref /\ f.trace_mini = q[i].trace_mini
         /\ f.factor = q[i].factor
    BY <1>1 DEF Measures
  <1> HIDE DEF p
  <1>9. Keeps(p, top_rated)
    BY <1>8, <1>12 DEF Keeps
  <1>10. CASE c.end # "done"
    <2>1. r = p /\ w = top_rated
      BY <1>0, <1>3, <1>10
    <2>2. Unrated(p, top_rated)
      BY <1>8 DEF Unrated
    <2>3. \A k \in 1 .. Len(q) : p[k].was_fuzzed = q[k].was_fuzzed /\ p[k].favored = q[k].favored
      BY <1>8, <1>12
    <2>4. p[i].distance \in {q[i].distance} \cup Dists(c)
      BY <1>8, <1>12
    <2>5. \A k \in 1 .. Len(q) \ {i} :
              p[k].cal_failed = q[k].cal_failed /\ p[k].distance = q[k].distance
      BY <1>8
    <2>6. \A k \in 1 .. Len(q) \ {i} : Held(top_rated, k) = {} => Held(w, k) = {}
      BY <2>1
    <2>7. p \in Seq(QueueEntry) /\ Len(p) = Len(q) /\ w \in [Byte -> 0 .. Len(q)]
      BY <1>8, <2>1
    <2>8. Keeps(p, w) /\ Unrated(p, w) /\ Held(w, i) = {}
      BY <1>9, <2>1, <2>2
    <2>9. Tried(q, i, c, p, w)
      BY <2>3, <2>4, <2>5, <2>6, <2>7, <2>8 DEF Tried
    <2>. QED BY <2>1, <2>9
  <1>11. CASE c.end = "done"
    <2>1. LastOf(c) \in Samples /\ LastOf(c).trace \in Traces
      <3>1. /\ c.samples \in [1 .. CalCycles -> Samples] /\ CalCycles \in 1 .. CalCycles
        BY <1>11, CalibrationType, QueueAssumption
      <3>. QED BY <3>1, QueueAssumption DEF LastOf
    <2>2. Wins(p, i, LastOf(c).trace, c.factor) = Wins(q, i, LastOf(c).trace, c.factor)
      <3>1. \A k \in 1 .. Len(q) : p[k].factor = q[k].factor
        BY <1>8, <1>12
      <3>2. \A b \in BytesOf(LastOf(c).trace) :
                b \in Byte /\ (top_rated[b] = 0 \/ top_rated[b] \in 1 .. Len(q))
        BY <1>2 DEF BytesOf
      <3>. QED BY <3>1, <3>2 DEF Wins
    <2>3. w = NewWinner(p, i, LastOf(c).trace, c.factor)
      BY <1>0, <1>11, <2>2 DEF NewWinner
    <2>4. r = Rated(p, i, LastOf(c).trace, c.factor)
      BY <1>3, <1>11
    <2>5. Kept(p, i, r, w)
      <3>1. /\ p \in Seq(QueueEntry) /\ i \in 1 .. Len(p) /\ c.factor \in Factors
            /\ top_rated \in [Byte -> 0 .. Len(p)] /\ Held(top_rated, i) = {}
        BY <1>8, CalibrationType
      <3>. QED BY <1>9, <2>1, <2>3, <2>4, <3>1, RatedKeeps
    <2>6. r[i].cal_failed = 0 /\ r[i].distance = f.distance
      BY <1>8, <1>11, <1>12, <2>5 DEF Kept
    <2>7. Unrated(r, w)
      BY <1>8, <2>5, <2>6 DEF Unrated, Kept
    <2>8. \A k \in 1 .. Len(q) : p[k].was_fuzzed = q[k].was_fuzzed /\ p[k].favored = q[k].favored
      BY <1>8, <1>12
    <2>9. r[i].distance \in {q[i].distance} \cup Dists(c)
      BY <1>12, <2>6
    <2>10. \A k \in 1 .. Len(q) : /\ r[k].was_fuzzed = q[k].was_fuzzed
                                  /\ r[k].favored = q[k].favored
      BY <1>8, <2>5, <2>8 DEF Kept
    <2>11. \A k \in 1 .. Len(q) \ {i} :
              r[k].cal_failed = q[k].cal_failed /\ r[k].distance = q[k].distance
      BY <1>8, <2>5 DEF Kept
    <2>13. \A k \in 1 .. Len(q) \ {i} : Held(top_rated, k) = {} => Held(w, k) = {}
      BY <1>8, <2>5 DEF Kept
    <2>12. /\ r \in Seq(QueueEntry) /\ Len(r) = Len(q) /\ w \in [Byte -> 0 .. Len(q)]
           /\ Keeps(r, w)
      BY <1>8, <2>5 DEF Kept
    <2>. QED BY <1>11, <2>7, <2>9, <2>10, <2>11, <2>12, <2>13 DEF Tried
  <1>. QED BY <1>10, <1>11

-----------------------------------------------------------------------------
(* The steps that calibrate.                                               *)

\* What has been seen keeps its type.
LEMMA SeenType ==
    ASSUME NEW s \in [Byte -> SUBSET Nat], NEW S \in SUBSET Samples
    PROVE  Seen(s, S) \in [Byte -> SUBSET Nat]
  <1>1. ASSUME NEW e \in S, NEW b \in Byte PROVE e.trace[b] \in Nat
    BY QueueAssumption
  <1>. QED BY <1>1 DEF Seen

InRange(d, S) == d \in {NoDistance} \cup Known(S) \cup (min_distance .. max_distance)

\* A calibration and what goes with it, whoever asks for it.
LEMMA CalibrationStep ==
    ASSUME TypeOK, Span,
           NEW q \in Seq(QueueEntry), NEW i \in 1 .. Len(q), NEW s \in [Byte -> SUBSET Nat],
           NEW c \in Calibration, Calibrate(q, i, s, c),
           NEW S \in SUBSET Samples, Drawn(c) \subseteq S, Widen(S),
           top_rated \in [Byte -> 0 .. Len(q)], Keeps(q, top_rated), Unrated(q, top_rated),
           Held(top_rated, i) = {}, q[i].cal_failed < CalChances,
           \A k \in 1 .. Len(q) : InRange(q[k].distance, S)
    PROVE  /\ Tried(q, i, c, Calibrated(q, i, s, c), top_rated')
           /\ Span' /\ min_distance' \in Distance /\ max_distance' \in Distance
           /\ \A k \in 1 .. Len(q) :
                 Calibrated(q, i, s, c)[k].distance
                     \in {NoDistance} \cup (min_distance' .. max_distance')
           /\ score_changed' \in BOOLEAN /\ measured' \in BOOLEAN /\ stop_soon' \in BOOLEAN
           /\ seen' \in [Byte -> SUBSET Nat] /\ queued_variable' \in Nat
  <1> DEFINE r == Calibrated(q, i, s, c)
  <1>1. top_rated' = Top(q, i, c)
    BY DEF Calibrate, Top, rating
  <1>2. Tried(q, i, c, r, top_rated')
    BY <1>1, CalibratedKeeps
  <1>3. /\ score_changed' \in BOOLEAN /\ measured' \in BOOLEAN /\ stop_soon' \in BOOLEAN
        /\ queued_variable' \in Nat
    <2>1. score_changed \in BOOLEAN /\ measured \in BOOLEAN /\ queued_variable \in Nat
      BY DEF TypeOK
    <2>2. stop_soon' \in BOOLEAN
      BY DEF Calibrate
    <2>3. queued_variable' = queued_variable + 1 \/ queued_variable' = queued_variable + 0
      BY DEF Calibrate
    <2>4. CASE c.end = "done"
      BY <2>1, <2>2, <2>3, <2>4 DEF Calibrate
    <2>5. CASE c.end # "done"
      BY <2>1, <2>2, <2>3, <2>5 DEF Calibrate, rating
    <2>. QED BY <2>4, <2>5
  <1>4. seen' \in [Byte -> SUBSET Nat]
    BY DrawnType, SeenType DEF Calibrate
  <1>5. /\ min_distance' \in Distance /\ max_distance' \in Distance /\ Span'
        /\ Known(S) \subseteq min_distance' .. max_distance'
        /\ \A d \in 1 .. MaxDist : d \in min_distance .. max_distance
                                    => d \in min_distance' .. max_distance'
    BY WidenKeeps DEF TypeOK
  <1> HIDE DEF r
  <1>6. ASSUME NEW k \in 1 .. Len(q)
        PROVE  r[k].distance \in {NoDistance} \cup (min_distance' .. max_distance')
    <2>0. q[k] \in QueueEntry
      OBVIOUS
    <2>1. q[k].distance \in Distance
      BY <2>0 DEF QueueEntry
    <2>2. q[k].distance \in {NoDistance} \cup (min_distance' .. max_distance')
      BY <1>5, <2>1 DEF InRange, Distance
    <2>3. \A e \in Drawn(c) : e.dist \in {NoDistance} \cup Known(S)
      BY KnownType
    <2>4. r[k].distance = q[k].distance \/ \E e \in Drawn(c) : r[k].distance = e.dist
      BY <1>2 DEF Tried, Dists
    <2>. QED BY <1>5, <2>2, <2>3, <2>4
  <1>. QED BY <1>2, <1>3, <1>4, <1>5, <1>6 DEF r

\* The entries that wait are the same ones.
LEMMA SameWaiting ==
    ASSUME NEW q, NEW r, Len(r) = Len(q),
           \A k \in 1 .. Len(q) : r[k].was_fuzzed = q[k].was_fuzzed /\ r[k].favored = q[k].favored
    PROVE  NotFuzzed(r) = NotFuzzed(q) /\ FavoredLeft(r) = FavoredLeft(q)
  BY DEF NotFuzzed, FavoredLeft

\* The calibration of fuzz_one.
LEMMA RecalibrateKeeps ==
    ASSUME QueueInv, Recalibrate
    PROVE  QueueInv'
  <1>1. PICK c \in Calibration :
              /\ Calibrate(queue, queue_cur, seen, c)
              /\ Widen(Drawn(c))
              /\ queue' = Calibrated(queue, queue_cur, seen, c)
              /\ queued_with_cov' = queued_with_cov
                     + IF queue'[queue_cur].has_new_cov /\ ~queue[queue_cur].has_new_cov THEN 1 ELSE 0
    BY DEF Recalibrate
  <1>2. /\ TypeOK /\ Span /\ queue \in Seq(QueueEntry) /\ queue_cur \in 1 .. Len(queue)
        /\ seen \in [Byte -> SUBSET Nat] /\ top_rated \in [Byte -> 0 .. Len(queue)]
        /\ Keeps(queue, top_rated) /\ Unrated(queue, top_rated)
    BY DEF QueueInv, TypeOK, AtHand, Recalibrate
  <1>3. /\ queue[queue_cur].cal_failed < CalChances /\ Held(top_rated, queue_cur) = {}
    <2>1. queue[queue_cur].cal_failed \in 1 .. CalChances - 1
      BY DEF Recalibrate, MayCalibrate
    <2>. QED BY <1>2, <2>1, QueueAssumption DEF Unrated
  <1>4. Drawn(c) \in SUBSET Samples
    BY DrawnType
  <1>5. \A k \in 1 .. Len(queue) : InRange(queue[k].distance, Drawn(c))
    BY <1>2 DEF QueueInv, DistancesBounded, InRange
  <1>6. /\ Tried(queue, queue_cur, c, queue', top_rated')
        /\ Span' /\ min_distance' \in Distance /\ max_distance' \in Distance
        /\ \A k \in 1 .. Len(queue) :
              queue'[k].distance \in {NoDistance} \cup (min_distance' .. max_distance')
        /\ score_changed' \in BOOLEAN /\ measured' \in BOOLEAN /\ stop_soon' \in BOOLEAN
        /\ seen' \in [Byte -> SUBSET Nat] /\ queued_variable' \in Nat
    BY <1>1, <1>2, <1>3, <1>4, <1>5, CalibrationStep
  <1>7. /\ pc' = "fuzz" /\ pc = "pick"
        /\ UNCHANGED <<pending_not_fuzzed, pending_favored, queued_favored, cal_failures, queue_cur>>
    BY DEF Recalibrate
  <1>8. queue' \in Seq(QueueEntry) /\ Len(queue') = Len(queue)
        /\ top_rated' \in [Byte -> 0 .. Len(queue')]
    BY <1>6 DEF Tried
  <1>9. queued_with_cov' \in Nat
    <2>1. queued_with_cov' = queued_with_cov + 1 \/ queued_with_cov' = queued_with_cov + 0
      BY <1>1
    <2>2. queued_with_cov \in Nat
      BY <1>2 DEF TypeOK
    <2>. QED BY <2>1, <2>2
  <1>10. TypeOK'
    BY <1>2, <1>6, <1>7, <1>8, <1>9 DEF TypeOK
  <1>11. Keeps(queue', top_rated') /\ Unrated(queue', top_rated')
    BY <1>6 DEF Tried
  <1>12. Pending'
    <2>1. NotFuzzed(queue') = NotFuzzed(queue) /\ FavoredLeft(queue') = FavoredLeft(queue)
      BY <1>6, <1>8, SameWaiting DEF Tried
    <2>. QED BY <1>7, <2>1 DEF Pending, QueueInv
  <1>13. DistancesBounded'
    BY <1>6, <1>8 DEF DistancesBounded
  <1>14. AtHand'
    BY <1>2, <1>7, <1>8 DEF AtHand, QueueInv
  <1>. QED BY <1>6, <1>10, <1>11, <1>12, <1>13, <1>14 DEF QueueInv

\* Giving up an entry whose calibration was aborted.
GivenUp(r, i, w, g) ==
    /\ g \in Seq(QueueEntry) /\ Len(g) = Len(r)
    /\ Keeps(g, w) /\ Unrated(g, w)
    /\ \A k \in 1 .. Len(r) :
          /\ g[k].was_fuzzed = r[k].was_fuzzed /\ g[k].favored = r[k].favored
          /\ g[k].distance = r[k].distance
          /\ k # i => g[k].cal_failed = r[k].cal_failed

\* An entry that is given up held no position.
LEMMA GiveUpKeeps ==
    ASSUME NEW r \in Seq(QueueEntry), NEW i \in 1 .. Len(r), NEW w,
           Keeps(r, w), Unrated(r, w), Held(w, i) = {}
    PROVE  GivenUp(r, i, w, [r EXCEPT ![i].cal_failed = CalChances])
  <1> DEFINE g == [r EXCEPT ![i].cal_failed = CalChances]
  <1>1. CalChances \in 0 .. CalChances
    BY QueueAssumption
  <1>2. r[i] \in QueueEntry
    OBVIOUS
  <1> DEFINE e == [r[i] EXCEPT !.cal_failed = CalChances]
  <1>3. g = [r EXCEPT ![i] = e]
    OBVIOUS
  <1>4. /\ e \in QueueEntry
        /\ e.was_fuzzed = r[i].was_fuzzed /\ e.favored = r[i].favored
        /\ e.distance = r[i].distance
        /\ e.tc_ref = r[i].tc_ref /\ e.trace_mini = r[i].trace_mini
    BY <1>1, <1>2 DEF QueueEntry
  <1> SUFFICES GivenUp(r, i, w, g)
    OBVIOUS
  <1> HIDE DEF e, g
  <1>5. /\ g \in Seq(QueueEntry) /\ Len(g) = Len(r) /\ g[i] = e
        /\ \A k \in 1 .. Len(r) \ {i} : g[k] = r[k]
    BY <1>3, <1>4
  <1>6. \A k \in 1 .. Len(r) :
            /\ g[k].was_fuzzed = r[k].was_fuzzed /\ g[k].favored = r[k].favored
            /\ g[k].distance = r[k].distance
            /\ g[k].tc_ref = r[k].tc_ref /\ g[k].trace_mini = r[k].trace_mini
            /\ k # i => g[k].cal_failed = r[k].cal_failed
    BY <1>4, <1>5
  <1>7. Keeps(g, w)
    BY <1>5, <1>6 DEF Keeps
  <1>8. Unrated(g, w)
    BY <1>5, <1>6 DEF Unrated
  <1>. QED BY <1>5, <1>6, <1>7, <1>8 DEF GivenUp

\* A round of the dry run.
LEMMA DryRunKeeps ==
    ASSUME QueueInv, DryRun
    PROVE  QueueInv'
  <1>1. PICK c \in Calibration :
              LET r == Calibrated(queue, queue_cur, seen, c) IN
              /\ Calibrate(queue, queue_cur, seen, c)
              /\ Widen(Drawn(c))
              /\ queue' = IF c.end \in Tolerated
                          THEN [r EXCEPT ![queue_cur].cal_failed = CalChances] ELSE r
              /\ cal_failures' = cal_failures + IF c.end \in Tolerated THEN 1 ELSE 0
              /\ queued_with_cov' = queued_with_cov + IF r[queue_cur].has_new_cov THEN 1 ELSE 0
              /\ IF c.end \in {"done", "stop"} \cup Tolerated
                 THEN IF queue_cur = Seeds \/ c.end = "stop"
                      THEN /\ pc' = IF cal_failures' = Seeds THEN "fatal" ELSE "started"
                           /\ queue_cur' = 0
                      ELSE queue_cur' = queue_cur + 1 /\ UNCHANGED pc
                 ELSE pc' = "fatal" /\ UNCHANGED queue_cur
    BY DEF DryRun
  <1> DEFINE r == Calibrated(queue, queue_cur, seen, c)
  <1> HIDE DEF r
  <1>2. /\ TypeOK /\ Span /\ queue \in Seq(QueueEntry) /\ queue_cur \in 1 .. Len(queue)
        /\ seen \in [Byte -> SUBSET Nat] /\ top_rated \in [Byte -> 0 .. Len(queue)]
        /\ Keeps(queue, top_rated) /\ Unrated(queue, top_rated)
    BY QueueAssumption DEF QueueInv, TypeOK, AtHand, DryRun
  <1>22. pc = "dry run"
    BY DEF DryRun
  <1>20. queue_cur \in 1 .. Seeds /\ Len(queue) = Seeds /\ Seeds \in Nat \ {0}
    BY <1>22, QueueAssumption DEF QueueInv, AtHand
  <1>21. \A k \in queue_cur .. Seeds : queue[k].cal_failed = 0 /\ Held(top_rated, k) = {}
    BY <1>22 DEF QueueInv, AtHand
  <1>3. /\ queue[queue_cur].cal_failed < CalChances /\ Held(top_rated, queue_cur) = {}
    <2>1. queue_cur \in queue_cur .. Seeds
      BY <1>20
    <2>2. queue[queue_cur].cal_failed = 0 /\ Held(top_rated, queue_cur) = {}
      BY <1>21, <2>1
    <2>. QED BY <2>2, QueueAssumption
  <1>4. Drawn(c) \in SUBSET Samples
    BY DrawnType
  <1>5. \A k \in 1 .. Len(queue) : InRange(queue[k].distance, Drawn(c))
    <2>1. queue \in Seq(QueueEntry)
      BY <1>2
    <2>. QED BY <2>1 DEF QueueInv, DistancesBounded, InRange
  <1>6. /\ Tried(queue, queue_cur, c, r, top_rated')
        /\ Span' /\ min_distance' \in Distance /\ max_distance' \in Distance
        /\ \A k \in 1 .. Len(queue) :
              r[k].distance \in {NoDistance} \cup (min_distance' .. max_distance')
        /\ score_changed' \in BOOLEAN /\ measured' \in BOOLEAN /\ stop_soon' \in BOOLEAN
        /\ seen' \in [Byte -> SUBSET Nat] /\ queued_variable' \in Nat
    BY <1>1, <1>2, <1>3, <1>4, <1>5, CalibrationStep DEF r
  <1>7. /\ UNCHANGED <<pending_not_fuzzed, pending_favored, queued_favored>>
        /\ cal_failures' \in Nat /\ queued_with_cov' \in Nat
    <2>1. cal_failures \in Nat /\ queued_with_cov \in Nat
      BY <1>2 DEF TypeOK
    <2>2. /\ cal_failures' = cal_failures + 1 \/ cal_failures' = cal_failures + 0
          /\ queued_with_cov' = queued_with_cov + 1 \/ queued_with_cov' = queued_with_cov + 0
      BY <1>1
    <2>3. cal_failures' \in Nat /\ queued_with_cov' \in Nat
      BY <2>1, <2>2
    <2>. QED BY <2>3 DEF DryRun
  <1>8. /\ queue' \in Seq(QueueEntry) /\ Len(queue') = Len(queue)
        /\ Keeps(queue', top_rated') /\ Unrated(queue', top_rated')
        /\ \A k \in 1 .. Len(queue) :
              /\ queue'[k].was_fuzzed = r[k].was_fuzzed /\ queue'[k].favored = r[k].favored
              /\ queue'[k].distance = r[k].distance
              /\ k # queue_cur => queue'[k].cal_failed = r[k].cal_failed
    <2>1. /\ r \in Seq(QueueEntry) /\ Len(r) = Len(queue)
          /\ Keeps(r, top_rated') /\ Unrated(r, top_rated')
      BY <1>6 DEF Tried
    <2>2. CASE c.end \in Tolerated
      <3>1. c.end # "done"
        BY <2>2, QueueAssumption
      <3>2. Held(top_rated', queue_cur) = {}
        BY <1>6, <3>1 DEF Tried
      <3>3. queue' = [r EXCEPT ![queue_cur].cal_failed = CalChances]
        BY <1>1, <2>2 DEF r
      <3>4. queue_cur \in 1 .. Len(r)
        BY <1>2, <2>1
      <3>5. GivenUp(r, queue_cur, top_rated', queue')
        BY <2>1, <3>2, <3>3, <3>4, GiveUpKeeps
      <3>. QED BY <2>1, <3>5 DEF GivenUp
    <2>3. CASE c.end \notin Tolerated
      <3>1. queue' = r
        BY <1>1, <2>3 DEF r
      <3>. QED BY <2>1, <3>1
    <2>. QED BY <2>2, <2>3
  <1>9. \A k \in 1 .. Len(queue) : /\ r[k].was_fuzzed = queue[k].was_fuzzed
                                   /\ r[k].favored = queue[k].favored
    BY <1>6 DEF Tried
  <1>10. top_rated' \in [Byte -> 0 .. Len(queue')]
    BY <1>6, <1>8 DEF Tried
  <1>11. /\ pc' \in {"dry run", "started", "fatal"} /\ queue_cur' \in 0 .. Len(queue)
         /\ pc' = "dry run" => queue_cur' = queue_cur + 1 /\ queue_cur' \in 1 .. Seeds
    <2>1. CASE c.end \in {"done", "stop"} \cup Tolerated
      <3>1. CASE queue_cur = Seeds \/ c.end = "stop"
        <4>1. pc' \in {"fatal", "started"} /\ queue_cur' = 0
          BY <1>1, <2>1, <3>1
        <4>2. 0 \in 0 .. Len(queue)
          BY <1>20
        <4>. QED BY <4>1, <4>2
      <3>2. CASE ~(queue_cur = Seeds \/ c.end = "stop")
        <4>1. queue_cur' = queue_cur + 1 /\ pc' = pc
          BY <1>1, <2>1, <3>2
        <4>2. queue_cur # Seeds
          BY <3>2
        <4>3. queue_cur + 1 \in 1 .. Seeds /\ queue_cur + 1 \in 0 .. Len(queue)
          BY <1>20, <4>2
        <4>. QED BY <1>22, <4>1, <4>3
      <3>. QED BY <3>1, <3>2
    <2>2. CASE c.end \notin {"done", "stop"} \cup Tolerated
      <3>1. pc' = "fatal" /\ queue_cur' = queue_cur
        BY <1>1, <2>2
      <3>2. queue_cur \in 0 .. Len(queue)
        BY <1>20
      <3>. QED BY <3>1, <3>2
    <2>. QED BY <2>1, <2>2
  <1>12. TypeOK'
    BY <1>2, <1>6, <1>7, <1>8, <1>10, <1>11 DEF TypeOK
  <1>13. Pending'
    <2>1. NotFuzzed(queue') = NotFuzzed(queue) /\ FavoredLeft(queue') = FavoredLeft(queue)
      BY <1>8, <1>9, SameWaiting
    <2>. QED BY <1>7, <2>1 DEF Pending, QueueInv
  <1>14. DistancesBounded'
    BY <1>6, <1>8 DEF DistancesBounded
  <1>15. AtHand'
    <2>1. ASSUME pc' = "dry run", NEW k \in queue_cur' .. Seeds
          PROVE  queue'[k].cal_failed = 0 /\ Held(top_rated', k) = {}
      <3>0. queue_cur' = queue_cur + 1
        BY <1>11, <2>1
      <3>1. k \in queue_cur .. Seeds /\ k # queue_cur /\ k \in 1 .. Len(queue)
        BY <1>20, <3>0
      <3>2. r[k].cal_failed = 0 /\ Held(top_rated', k) = {}
        <4>1. queue[k].cal_failed = 0 /\ Held(top_rated, k) = {}
          BY <1>21, <3>1
        <4>2. k \in (1 .. Len(queue)) \ {queue_cur}
          BY <3>1
        <4>. QED BY <1>6, <4>1, <4>2 DEF Tried
      <3>. QED BY <1>8, <3>1, <3>2
    <2>2. Len(queue') = Seeds /\ Len(queue') >= Seeds
      BY <1>8, <1>20
    <2>3. pc' \notin {"pick", "fuzz", "sync"}
      BY <1>11
    <2>4. pc' = "dry run" => queue_cur' \in 1 .. Seeds
      BY <1>11
    <2>. QED BY <2>1, <2>2, <2>3, <2>4 DEF AtHand
  <1>. QED BY <1>6, <1>8, <1>12, <1>13, <1>14, <1>15 DEF QueueInv

\* Appending an entry that nothing refers to yet.
Grown(r, w, q) ==
    /\ q \in Seq(QueueEntry) /\ Len(q) = Len(r) + 1
    /\ w \in [Byte -> 0 .. Len(q)] /\ Held(w, Len(q)) = {}
    /\ Keeps(q, w) /\ Unrated(q, w)
    /\ \A k \in 1 .. Len(r) : q[k] = r[k]

\* A new entry holds no position and nobody loses one.
LEMMA AppendKeeps ==
    ASSUME NEW r \in Seq(QueueEntry), NEW w \in [Byte -> 0 .. Len(r)], NEW e \in QueueEntry,
           Keeps(r, w), Unrated(r, w), e.tc_ref = 0, e.trace_mini = {}
    PROVE  Grown(r, w, Append(r, e)) /\ Append(r, e)[Len(r) + 1] = e
  <1> DEFINE q == Append(r, e)
  <1>1. /\ q \in Seq(QueueEntry) /\ Len(q) = Len(r) + 1 /\ q[Len(r) + 1] = e
        /\ \A k \in 1 .. Len(r) : q[k] = r[k]
    OBVIOUS
  <1> SUFFICES Grown(r, w, q)
    BY <1>1
  <1> HIDE DEF q
  <1>2. Len(r) \in Nat
    OBVIOUS
  <1>3. w \in [Byte -> 0 .. Len(q)]
    BY <1>1, <1>2
  <1>4. Held(w, Len(q)) = {}
    BY <1>1, <1>2 DEF Held
  <1>5. ASSUME NEW k \in 1 .. Len(q) PROVE k \in 1 .. Len(r) \/ k = Len(q)
    BY <1>1, <1>2
  <1>6. Cardinality({}) = 0
    BY FS_EmptySet
  <1>7. Keeps(q, w)
    <2> SUFFICES ASSUME NEW k \in 1 .. Len(q)
                 PROVE  /\ q[k].tc_ref = Cardinality(Held(w, k))
                        /\ Held(w, k) \subseteq q[k].trace_mini
                        /\ Held(w, k) = {} => q[k].trace_mini = {}
      BY DEF Keeps
    <2>1. CASE k \in 1 .. Len(r)
      BY <1>1, <2>1 DEF Keeps
    <2>2. CASE k = Len(q)
      <3>1. q[k] = e /\ Held(w, k) = {}
        BY <1>1, <1>4, <2>2
      <3>. QED BY <1>6, <3>1
    <2>. QED BY <1>5, <2>1, <2>2
  <1>8. Unrated(q, w)
    <2> SUFFICES ASSUME NEW k \in 1 .. Len(q), q[k].cal_failed # 0 PROVE Held(w, k) = {}
      BY DEF Unrated
    <2>1. CASE k \in 1 .. Len(r)
      BY <1>1, <2>1 DEF Unrated
    <2>2. CASE k = Len(q)
      BY <1>4, <2>2
    <2>. QED BY <1>5, <2>1, <2>2
  <1>. QED BY <1>1, <1>3, <1>4, <1>7, <1>8 DEF Grown

\* A new entry waits to be fuzzed, and no other one is added.
LEMMA OneMoreWaiting ==
    ASSUME NEW r \in Seq(QueueEntry), NEW q \in Seq(QueueEntry), Len(q) = Len(r) + 1,
           ~q[Len(q)].was_fuzzed, ~q[Len(q)].favored,
           \A k \in 1 .. Len(r) : q[k].was_fuzzed = r[k].was_fuzzed /\ q[k].favored = r[k].favored
    PROVE  /\ Cardinality(NotFuzzed(q)) = Cardinality(NotFuzzed(r)) + 1
           /\ FavoredLeft(q) = FavoredLeft(r)
  <1>1. Len(r) \in Nat
    OBVIOUS
  <1>2. \A k \in 1 .. Len(q) : k \in 1 .. Len(r) \/ k = Len(q)
    BY <1>1
  <1>3. \A k \in 1 .. Len(r) : k \in 1 .. Len(q)
    BY <1>1
  <1>4. Len(q) \in 1 .. Len(q) /\ Len(q) \notin 1 .. Len(r)
    BY <1>1
  <1>5. NotFuzzed(q) = NotFuzzed(r) \cup {Len(q)} /\ Len(q) \notin NotFuzzed(r)
    BY <1>2, <1>3, <1>4 DEF NotFuzzed
  <1>6. FavoredLeft(q) = FavoredLeft(r)
    BY <1>2, <1>3 DEF FavoredLeft
  <1>7. IsFiniteSet(NotFuzzed(r))
    BY <1>1, IndexSets DEF NotFuzzed
  <1>. QED BY <1>5, <1>6, <1>7, FS_AddElement

\* Keeping an input with new bits.
LEMMA SaveKeeps ==
    ASSUME QueueInv, Save
    PROVE  QueueInv'
  <1>1. PICK e \in Samples, c \in Calibration :
            LET hnb == HasNewBits(seen, e.trace)
                new == [NewEntry(e.dist, e.trace) EXCEPT !.has_new_cov = hnb = 2]
                q   == Append(queue, new)
            IN /\ hnb > 0
               /\ Calibrate(q, Len(q), Seen(seen, {e}), c)
               /\ Widen(Drawn(c) \cup {e})
               /\ queue' = Calibrated(q, Len(q), Seen(seen, {e}), c)
               /\ queued_with_cov' = queued_with_cov + IF queue'[Len(q)].has_new_cov THEN 1 ELSE 0
    BY DEF Save
  <1> DEFINE cov == HasNewBits(seen, e.trace) = 2
             new == [NewEntry(e.dist, e.trace) EXCEPT !.has_new_cov = cov]
             q   == Append(queue, new)
             s   == Seen(seen, {e})
             S   == Drawn(c) \cup {e}
  <1>2. /\ TypeOK /\ Span /\ queue \in Seq(QueueEntry) /\ queue_cur \in 0 .. Len(queue)
        /\ seen \in [Byte -> SUBSET Nat] /\ top_rated \in [Byte -> 0 .. Len(queue)]
        /\ Keeps(queue, top_rated) /\ Unrated(queue, top_rated)
    BY DEF QueueInv, TypeOK
  <1>3. /\ new \in QueueEntry /\ new.tc_ref = 0 /\ new.trace_mini = {} /\ new.cal_failed = 0
        /\ ~new.was_fuzzed /\ ~new.favored /\ new.distance = e.dist
    <2>1. e.trace \in Traces /\ e.dist \in Distance /\ cov \in BOOLEAN /\ 0 \in 0 .. CalChances
      BY QueueAssumption DEF Distance
    <2> HIDE DEF cov
    <2>. QED BY <2>1 DEF QueueEntry, NewEntry
  <1>4. /\ Calibrate(q, Len(q), s, c) /\ Widen(S)
        /\ queue' = Calibrated(q, Len(q), s, c)
        /\ queued_with_cov' = queued_with_cov + IF queue'[Len(q)].has_new_cov THEN 1 ELSE 0
    BY <1>1
  <1> HIDE DEF new
  <1>5. Grown(queue, top_rated, q) /\ q[Len(queue) + 1] = new
    BY <1>2, <1>3, AppendKeeps
  <1>6. s \in [Byte -> SUBSET Nat]
    BY <1>2, SeenType
  <1>7. S \in SUBSET Samples /\ Drawn(c) \subseteq S
    BY DrawnType
  <1> HIDE DEF q, s
  <1>8. /\ q \in Seq(QueueEntry) /\ Len(q) = Len(queue) + 1 /\ Len(queue) \in Nat
        /\ q[Len(q)] = new /\ \A k \in 1 .. Len(queue) : q[k] = queue[k]
        /\ top_rated \in [Byte -> 0 .. Len(q)] /\ Held(top_rated, Len(q)) = {}
        /\ Keeps(q, top_rated) /\ Unrated(q, top_rated)
    BY <1>2, <1>5 DEF Grown
  <1>9. Len(q) \in 1 .. Len(q) /\ \A k \in 1 .. Len(q) : k \in 1 .. Len(queue) \/ k = Len(q)
    BY <1>8
  <1>10. \A k \in 1 .. Len(q) : InRange(q[k].distance, S)
    <2>1. e.dist \in {NoDistance} \cup Known(S)
      BY <1>7, KnownType
    <2>2. \A k \in 1 .. Len(queue) :
              queue[k].distance \in {NoDistance} \cup (min_distance .. max_distance)
      BY <1>2 DEF QueueInv, DistancesBounded
    <2>. QED BY <1>3, <1>8, <1>9, <2>1, <2>2 DEF InRange
  <1>11. q[Len(q)].cal_failed < CalChances
    BY <1>3, <1>8, QueueAssumption
  <1> HIDE DEF S
  <1>12. /\ Tried(q, Len(q), c, queue', top_rated')
         /\ Span' /\ min_distance' \in Distance /\ max_distance' \in Distance
         /\ \A k \in 1 .. Len(q) :
               queue'[k].distance \in {NoDistance} \cup (min_distance' .. max_distance')
         /\ score_changed' \in BOOLEAN /\ measured' \in BOOLEAN /\ stop_soon' \in BOOLEAN
         /\ seen' \in [Byte -> SUBSET Nat] /\ queued_variable' \in Nat
    BY <1>2, <1>4, <1>6, <1>7, <1>8, <1>9, <1>10, <1>11, CalibrationStep
  <1>13. /\ pc' = pc /\ pc \in {"fuzz", "sync"}
         /\ pending_not_fuzzed' = pending_not_fuzzed + 1
         /\ UNCHANGED <<pending_favored, queued_favored, cal_failures, queue_cur>>
    BY DEF Save
  <1>14. /\ queue' \in Seq(QueueEntry) /\ Len(queue') = Len(queue) + 1
         /\ top_rated' \in [Byte -> 0 .. Len(queue')]
         /\ Keeps(queue', top_rated') /\ Unrated(queue', top_rated')
         /\ \A k \in 1 .. Len(q) : /\ queue'[k].was_fuzzed = q[k].was_fuzzed
                                   /\ queue'[k].favored = q[k].favored
    BY <1>8, <1>12 DEF Tried
  <1>15. /\ pending_not_fuzzed' \in Nat /\ queued_with_cov' \in Nat /\ queue_cur' \in 0 .. Len(queue')
    <2>1. pending_not_fuzzed \in Nat /\ queued_with_cov \in Nat
      BY <1>2 DEF TypeOK
    <2>2. queued_with_cov' = queued_with_cov + 1 \/ queued_with_cov' = queued_with_cov + 0
      BY <1>4
    <2>3. pending_not_fuzzed' \in Nat
      BY <1>13, <2>1
    <2>4. queued_with_cov' \in Nat
      BY <2>1, <2>2
    <2>5. queue_cur' \in 0 .. Len(queue')
      BY <1>2, <1>8, <1>13, <1>14
    <2>. QED BY <2>3, <2>4, <2>5
  <1>16. TypeOK'
    BY <1>2, <1>12, <1>13, <1>14, <1>15 DEF TypeOK
  <1>17. Pending'
    <2>1. ~queue'[Len(queue')].was_fuzzed /\ ~queue'[Len(queue')].favored
      BY <1>3, <1>8, <1>9, <1>14
    <2>2. \A k \in 1 .. Len(queue) : /\ queue'[k].was_fuzzed = queue[k].was_fuzzed
                                     /\ queue'[k].favored = queue[k].favored
      BY <1>8, <1>14
    <2>3. /\ Cardinality(NotFuzzed(queue')) = Cardinality(NotFuzzed(queue)) + 1
          /\ FavoredLeft(queue') = FavoredLeft(queue)
      BY <1>2, <1>14, <2>1, <2>2, OneMoreWaiting
    <2>. QED BY <1>13, <2>3 DEF Pending, QueueInv
  <1>18. DistancesBounded'
    <2>1. \A k \in 1 .. Len(queue') :
              queue'[k].distance \in {NoDistance} \cup (min_distance' .. max_distance')
      BY <1>8, <1>12, <1>14
    <2>. QED BY <1>14, <2>1 DEF DistancesBounded
  <1>19. AtHand'
    <2>0. Len(queue) >= Seeds
      BY DEF QueueInv, AtHand
    <2>1. queue_cur' = queue_cur /\ Len(queue') >= Seeds
      BY <1>8, <1>13, <1>14, <2>0, QueueAssumption
    <2>2. pc \in {"pick", "fuzz", "sync"} => queue_cur # 0
      BY DEF QueueInv, AtHand
    <2>. QED BY <1>13, <2>1, <2>2 DEF AtHand
  <1>. QED BY <1>12, <1>14, <1>16, <1>17, <1>18, <1>19 DEF QueueInv

-----------------------------------------------------------------------------
(* The steps that do not calibrate.                                        *)

\* Entries that differ only in their marks.
Remarked(r, q) ==
    /\ q \in Seq(QueueEntry) /\ Len(q) = Len(r)
    /\ \A k \in 1 .. Len(r) :
          /\ q[k].tc_ref = r[k].tc_ref /\ q[k].trace_mini = r[k].trace_mini
          /\ q[k].cal_failed = r[k].cal_failed /\ q[k].distance = r[k].distance

\* Marks that do not touch positions keep the winners in order.
LEMMA RemarkedKeeps ==
    ASSUME NEW r, NEW q, NEW w, Remarked(r, q), Keeps(r, w), Unrated(r, w)
    PROVE  Keeps(q, w) /\ Unrated(q, w)
  BY DEF Remarked, Keeps, Unrated

\* cull_queue: a favored entry was grabbed at some position.
LEMMA CullKeeps ==
    ASSUME QueueInv, CullQueue
    PROVE  /\ Remarked(queue, queue') /\ top_rated' = top_rated
           /\ score_changed' \in BOOLEAN /\ queued_favored' \in Nat /\ pending_favored' \in Nat
           /\ NotFuzzed(queue') = NotFuzzed(queue)
           /\ pending_favored' >= Cardinality(FavoredLeft(queue'))
  <1>1. /\ queue \in Seq(QueueEntry) /\ top_rated \in [Byte -> 0 .. Len(queue)]
        /\ score_changed \in BOOLEAN /\ queued_favored \in Nat /\ pending_favored \in Nat
        /\ pending_favored >= Cardinality(FavoredLeft(queue))
    BY DEF QueueInv, TypeOK, Pending
  <1>2. CASE ~score_changed
    BY <1>1, <1>2 DEF CullQueue, Remarked, rating
  <1>3. CASE score_changed
    <2> DEFINE fav(k) == \E b \in Grabbed : top_rated[b] = k
               G      == {b \in Grabbed : ~queue[top_rated[b]].was_fuzzed}
    <2>1. /\ score_changed' = FALSE /\ top_rated' = top_rated
          /\ queue' = [k \in DOMAIN queue |-> [queue[k] EXCEPT !.favored = fav(k)]]
          /\ queued_favored' = Cardinality(Grabbed)
          /\ pending_favored' = Cardinality(G)
      BY <1>3 DEF CullQueue
    <2>2. Grabbed \in SUBSET Byte /\ G \in SUBSET Byte /\ \A b \in Grabbed : top_rated[b] # 0
      BY DEF Grabbed
    <2>3. queued_favored' \in Nat /\ pending_favored' \in Nat /\ IsFiniteSet(G)
      BY <2>1, <2>2, ByteSets
    <2>4. \A k \in 1 .. Len(queue) : fav(k) \in BOOLEAN
      OBVIOUS
    <2>5. \A b \in Grabbed : top_rated[b] \in 1 .. Len(queue)
      <3>1. Len(queue) \in Nat
        BY <1>1
      <3>. QED BY <1>1, <2>2, <3>1
    <2>6. \A k \in 1 .. Len(queue) : fav(k) <=> \E b \in Grabbed : top_rated[b] = k
      OBVIOUS
    <2> HIDE DEF fav
    <2>7. DOMAIN queue = 1 .. Len(queue) /\ Len(queue) \in Nat
      BY <1>1
    <2>8. ASSUME NEW k \in 1 .. Len(queue)
          PROVE  /\ queue'[k] \in QueueEntry
                 /\ queue'[k].tc_ref = queue[k].tc_ref
                 /\ queue'[k].trace_mini = queue[k].trace_mini
                 /\ queue'[k].cal_failed = queue[k].cal_failed
                 /\ queue'[k].distance = queue[k].distance
                 /\ queue'[k].was_fuzzed = queue[k].was_fuzzed
                 /\ queue'[k].favored = fav(k)
      <3> DEFINE e == queue[k]
                 f == fav(k)
                 x == queue'[k]
      <3>1. x = [e EXCEPT !.favored = f] /\ e \in QueueEntry /\ f \in BOOLEAN
        BY <1>1, <2>1, <2>4, <2>7
      <3> HIDE DEF e, f, x
      <3>2. /\ x \in QueueEntry /\ x.tc_ref = e.tc_ref /\ x.trace_mini = e.trace_mini
            /\ x.cal_failed = e.cal_failed /\ x.distance = e.distance
            /\ x.was_fuzzed = e.was_fuzzed /\ x.favored = f
        BY <3>1 DEF QueueEntry
      <3>. QED BY <3>2 DEF e, f, x
    <2>9. queue' \in Seq(QueueEntry) /\ Len(queue') = Len(queue)
      <3>1. queue' \in [1 .. Len(queue) -> QueueEntry]
        BY <2>1, <2>7, <2>8
      <3>. QED BY <2>7, <3>1
    <2>10. Remarked(queue, queue')
      BY <2>8, <2>9 DEF Remarked
    <2>11. NotFuzzed(queue') = NotFuzzed(queue)
      BY <2>8, <2>9 DEF NotFuzzed
    <2> DEFINE F == FavoredLeft(queue')
               g == [b \in G |-> top_rated[b]]
    <2>12. g \in Surjection(G, F)
      <3>1. \A b \in G : top_rated[b] \in F
        BY <2>5, <2>6, <2>8, <2>9 DEF FavoredLeft
      <3>2. \A k \in F : \E b \in G : top_rated[b] = k
        <4>1. \A k \in F : k \in 1 .. Len(queue) /\ fav(k) /\ ~queue[k].was_fuzzed
          BY <2>8, <2>9 DEF FavoredLeft
        <4>. QED BY <2>6, <4>1
      <3> HIDE DEF F, G
      <3>3. g \in [G -> F]
        BY <3>1
      <3>4. \A k \in F : \E b \in G : g[b] = k
        BY <3>2
      <3> HIDE DEF g
      <3>. QED BY <3>3, <3>4 DEF Surjection
    <2> HIDE DEF F, G, g
    <2>13. Cardinality(F) <= Cardinality(G)
      BY <2>3, <2>12, FS_Surjection
    <2>14. IsFiniteSet(F)
      BY <2>3, <2>12, FS_Surjection
    <2>15. pending_favored' >= Cardinality(F)
      BY <2>1, <2>3, <2>13, <2>14, FS_CardinalityType
    <2>. QED BY <2>1, <2>3, <2>10, <2>11, <2>15 DEF F
  <1>. QED BY <1>2, <1>3

\* Places after a place of the queue, up to its end.
LEMMA LaterIndex == \A n \in Nat : \A i \in 1 .. n : \A k \in i .. n : k \in 1 .. n
  OBVIOUS

\* The domains of queues of one length.
LEMMA SameDomain ==
    \A r, q \in Seq(QueueEntry) : Len(q) = Len(r) => /\ DOMAIN r = 1 .. Len(r)
                                                   /\ DOMAIN q = 1 .. Len(q)
  OBVIOUS

\* The steps that only mark entries and move on.
LEMMA MarkKeeps ==
    ASSUME QueueInv, Remarked(queue, queue'),
           UNCHANGED <<top_rated, seen, queued_with_cov, queued_variable, range, cal_failures,
                       measured>>,
           score_changed' \in BOOLEAN, stop_soon' \in BOOLEAN,
           pending_not_fuzzed' \in Nat, pending_favored' \in Nat, queued_favored' \in Nat,
           Pending', queue_cur' \in 0 .. Len(queue),
           pc' \in {"dry run", "started", "loop", "pick", "fuzz", "sync", "end", "fatal"},
           pc' \in {"pick", "fuzz", "sync"} => queue_cur' # 0,
           pc' = "dry run" => pc = "dry run" /\ queue_cur' = queue_cur
    PROVE  QueueInv'
  <1>1. /\ TypeOK /\ Keeps(queue, top_rated) /\ Unrated(queue, top_rated) /\ Span
        /\ DistancesBounded /\ AtHand
    BY DEF QueueInv
  <1>2. /\ queue' \in Seq(QueueEntry) /\ Len(queue') = Len(queue)
        /\ \A k \in 1 .. Len(queue) : /\ queue'[k].cal_failed = queue[k].cal_failed
                                      /\ queue'[k].distance = queue[k].distance
    BY DEF Remarked
  <1>3. Keeps(queue', top_rated') /\ Unrated(queue', top_rated')
    BY <1>1, RemarkedKeeps
  <1>4. /\ min_distance' = min_distance /\ max_distance' = max_distance /\ top_rated' = top_rated
        /\ seen' = seen /\ queued_with_cov' = queued_with_cov
        /\ queued_variable' = queued_variable /\ cal_failures' = cal_failures
        /\ measured' = measured
    BY DEF range
  <1>5. TypeOK'
    <2>1. top_rated' \in [Byte -> 0 .. Len(queue')] /\ queue_cur' \in 0 .. Len(queue')
      BY <1>1, <1>2, <1>4 DEF TypeOK
    <2>. QED BY <1>1, <1>2, <1>4, <2>1 DEF TypeOK
  <1>6. Span'
    BY <1>1, <1>4 DEF Span
  <1>7. DistancesBounded'
    <2>1. queue \in Seq(QueueEntry)
      BY <1>1 DEF TypeOK
    <2>3. queue' \in Seq(QueueEntry) /\ Len(queue') = Len(queue)
      BY <1>2
    <2>4. DOMAIN queue = 1 .. Len(queue) /\ DOMAIN queue' = 1 .. Len(queue')
      BY <2>1, <2>3, SameDomain
    <2>2. DOMAIN queue = 1 .. Len(queue) /\ DOMAIN queue' = 1 .. Len(queue)
      BY <2>3, <2>4
    <2>. QED BY <1>1, <1>2, <1>4, <2>2 DEF DistancesBounded
  <1>8. AtHand'
    <2>1. Len(queue') >= Seeds
      BY <1>1, <1>2 DEF AtHand
    <2>2. ASSUME pc' = "dry run"
          PROVE  /\ queue_cur' \in 1 .. Seeds /\ Len(queue') = Seeds
                 /\ \A k \in queue_cur' .. Seeds : queue'[k].cal_failed = 0 /\ Held(top_rated', k) = {}
      <3>1. pc = "dry run" /\ queue_cur' = queue_cur
        BY <2>2
      <3>2. /\ queue_cur \in 1 .. Seeds /\ Len(queue) = Seeds
            /\ \A k \in queue_cur .. Seeds : queue[k].cal_failed = 0 /\ Held(top_rated, k) = {}
        BY <1>1, <3>1 DEF AtHand
      <3>3. queue_cur' = queue_cur
        BY <3>1
      <3>4. \A k \in queue_cur .. Seeds : k \in 1 .. Len(queue)
        <4>1. queue_cur \in 1 .. Seeds /\ Len(queue) = Seeds
          BY <3>2
        <4>2. Seeds \in Nat
          BY QueueAssumption
        <4>. QED BY <4>1, <4>2, LaterIndex
      <3>. QED BY <1>2, <1>4, <3>2, <3>3, <3>4
    <2>. QED BY <2>1, <2>2 DEF AtHand
  <1>. QED BY <1>3, <1>5, <1>6, <1>7, <1>8 DEF QueueInv

\* The first culling, and the one at the head of the loop.
LEMMA StartKeeps ==
    ASSUME QueueInv, Start \/ BeginTurn
    PROVE  QueueInv'
  <1>1. CullQueue
    BY DEF Start, BeginTurn
  <1>2. /\ Remarked(queue, queue') /\ top_rated' = top_rated
        /\ score_changed' \in BOOLEAN /\ queued_favored' \in Nat /\ pending_favored' \in Nat
        /\ NotFuzzed(queue') = NotFuzzed(queue)
        /\ pending_favored' >= Cardinality(FavoredLeft(queue'))
    BY <1>1, CullKeeps
  <1>3. UNCHANGED <<seen, pending_not_fuzzed, queued_with_cov, queued_variable, range,
                    cal_failures, measured, stop_soon>>
    BY DEF Start, BeginTurn
  <1>8. TypeOK /\ Pending /\ AtHand
    BY DEF QueueInv
  <1>9. queue \in Seq(QueueEntry)
    BY <1>8 DEF TypeOK
  <1>10. Len(queue) \in Nat
    BY <1>9
  <1>11. Len(queue) >= Seeds
    BY <1>8 DEF AtHand
  <1>12. /\ pending_not_fuzzed \in Nat /\ stop_soon \in BOOLEAN
         /\ queue_cur \in 0 .. Len(queue)
    BY <1>8 DEF TypeOK
  <1>4. /\ pending_not_fuzzed \in Nat /\ stop_soon \in BOOLEAN
        /\ queue_cur \in 0 .. Len(queue) /\ Len(queue) >= Seeds /\ Len(queue) \in Nat
        /\ pending_not_fuzzed = Cardinality(NotFuzzed(queue))
    BY <1>8, <1>10, <1>11, <1>12 DEF Pending
  <1>5. Pending'
    BY <1>2, <1>3, <1>4 DEF Pending
  <1>6. CASE Start
    <2>1. pc' \in {"end", "loop"} /\ queue_cur' = queue_cur
      BY <1>6 DEF Start
    <2>2. pc' \notin {"pick", "fuzz", "sync"} /\ pc' # "dry run"
      BY <2>1
    <2>. QED BY <1>2, <1>3, <1>4, <1>5, <2>1, <2>2, MarkKeeps
  <1>7. CASE BeginTurn
    <2>1. pc' = "pick" /\ queue_cur' = IF queue_cur = 0 THEN 1 ELSE queue_cur
      BY <1>7 DEF BeginTurn
    <2>2. queue_cur' \in 0 .. Len(queue) /\ queue_cur' # 0
      <3>1. queue_cur' = IF queue_cur = 0 THEN 1 ELSE queue_cur
        BY <2>1
      <3>. QED BY <1>4, <3>1, QueueAssumption
    <2>3. pc' \in {"dry run", "started", "loop", "pick", "fuzz", "sync", "end", "fatal"}
          /\ pc' # "dry run"
      BY <2>1
    <2>. QED BY <1>2, <1>3, <1>4, <1>5, <2>2, <2>3, MarkKeeps
  <1>. QED BY <1>6, <1>7

\* The steps that leave the entries alone.
LEMMA MoveKeeps ==
    ASSUME QueueInv, Skip \/ Pick \/ NextEntry \/ Stop
    PROVE  QueueInv'
  <1>1. UNCHANGED <<queue, rating, seen, counters, range, cal_failures, measured>>
    BY DEF Skip, Pick, NextEntry, Stop
  <1>2. /\ queue' = queue /\ top_rated' = top_rated /\ score_changed' = score_changed
        /\ pending_not_fuzzed' = pending_not_fuzzed /\ pending_favored' = pending_favored
        /\ queued_favored' = queued_favored
        /\ UNCHANGED <<seen, queued_with_cov, queued_variable, range, cal_failures, measured>>
    BY <1>1 DEF rating, counters
  <1>10. TypeOK /\ Pending /\ AtHand
    BY DEF QueueInv
  <1>11. queue \in Seq(QueueEntry) /\ queue_cur \in 0 .. Len(queue)
    BY <1>10 DEF TypeOK
  <1>12. Len(queue) \in Nat
    BY <1>11
  <1>3. /\ TypeOK /\ Pending /\ queue \in Seq(QueueEntry)
        /\ queue_cur \in 0 .. Len(queue) /\ Len(queue) \in Nat
        /\ pc \in {"pick", "fuzz", "sync"} => queue_cur # 0
    BY <1>10, <1>11, <1>12 DEF AtHand
  <1>4. Remarked(queue, queue') /\ Pending'
    BY <1>2, <1>3 DEF Remarked, Pending
  <1>5. /\ score_changed' \in BOOLEAN /\ pending_not_fuzzed' \in Nat /\ pending_favored' \in Nat
        /\ queued_favored' \in Nat
    BY <1>2, <1>3 DEF TypeOK
  <1>6. stop_soon' \in BOOLEAN
    <2>1. stop_soon' = stop_soon \/ stop_soon' = TRUE
      BY DEF Skip, Pick, NextEntry, Stop
    <2>. QED BY <1>3, <2>1 DEF TypeOK
  <1>7. CASE Skip \/ NextEntry
    <2>1. Advance /\ pc \in {"pick", "sync"}
      BY <1>7 DEF Skip, NextEntry
    <2>2. pc' \in {"end", "loop"}
      BY <2>1 DEF Advance
    <2>3. queue_cur' = queue_cur \/ queue_cur' = 0
          \/ (queue_cur # Len(queue) /\ queue_cur' = queue_cur + 1)
      BY <2>1 DEF Advance
    <2>4. queue_cur' \in 0 .. Len(queue)
      BY <1>3, <2>3
    <2>5. /\ pc' \in {"dry run", "started", "loop", "pick", "fuzz", "sync", "end", "fatal"}
          /\ pc' \notin {"pick", "fuzz", "sync"} /\ pc' # "dry run"
      BY <2>2
    <2>. QED BY <1>2, <1>4, <1>5, <1>6, <2>4, <2>5, MarkKeeps
  <1>8. CASE Pick
    <2>1. pc = "pick" /\ pc' = "fuzz" /\ queue_cur' = queue_cur
      BY <1>8 DEF Pick
    <2>2. /\ pc' \in {"dry run", "started", "loop", "pick", "fuzz", "sync", "end", "fatal"}
          /\ pc' # "dry run" /\ pc \in {"pick", "fuzz", "sync"}
      BY <2>1
    <2>3. queue_cur' \in 0 .. Len(queue) /\ queue_cur' # 0
      BY <1>3, <2>1, <2>2
    <2>. QED BY <1>2, <1>4, <1>5, <1>6, <2>2, <2>3, MarkKeeps
  <1>9. CASE Stop
    <2>1. pc' = pc /\ queue_cur' = queue_cur
      BY <1>9 DEF Stop
    <2>2. pc \in {"dry run", "started", "loop", "pick", "fuzz", "sync", "end", "fatal"}
      BY <1>3 DEF TypeOK
    <2>3. /\ pc' \in {"dry run", "started", "loop", "pick", "fuzz", "sync", "end", "fatal"}
          /\ pc' = "dry run" => pc = "dry run" /\ queue_cur' = queue_cur
          /\ pc' \in {"pick", "fuzz", "sync"} => queue_cur' # 0
          /\ queue_cur' \in 0 .. Len(queue)
      BY <1>3, <2>1, <2>2
    <2>. QED BY <1>2, <1>4, <1>5, <1>6, <2>3, MarkKeeps
  <1>. QED BY <1>7, <1>8, <1>9

\* The end of fuzz_one: an entry counts as fuzzed once.
LEMMA AbandonKeeps ==
    ASSUME QueueInv, Abandon
    PROVE  QueueInv'
  <1>1. TypeOK /\ Pending /\ AtHand
    BY DEF QueueInv
  <1>2. /\ queue \in Seq(QueueEntry) /\ queue_cur \in 0 .. Len(queue)
        /\ score_changed \in BOOLEAN /\ stop_soon \in BOOLEAN
        /\ pending_not_fuzzed \in Nat /\ pending_favored \in Nat /\ queued_favored \in Nat
    BY <1>1 DEF TypeOK
  <1>3. queue_cur # 0
    <2>1. pc \in {"pick", "fuzz", "sync"}
      BY DEF Abandon
    <2>. QED BY <1>1, <2>1 DEF AtHand
  <1>4. queue_cur \in 1 .. Len(queue) /\ Len(queue) \in Nat
    <2>1. Len(queue) \in Nat
      BY <1>2
    <2>. QED BY <1>2, <1>3, <2>1
  <1>5. /\ pc' = "sync" /\ queue_cur' = queue_cur /\ stop_soon' = stop_soon
        /\ top_rated' = top_rated /\ score_changed' = score_changed
        /\ queued_favored' = queued_favored
        /\ UNCHANGED <<seen, queued_with_cov, queued_variable, range, cal_failures, measured>>
    BY DEF Abandon, rating
  <1>6. /\ pc' \in {"dry run", "started", "loop", "pick", "fuzz", "sync", "end", "fatal"}
        /\ pc' # "dry run"
    BY <1>5
  <1>7. CASE stop_soon \/ queue[queue_cur].cal_failed # 0 \/ queue[queue_cur].was_fuzzed
    <2>1. /\ queue' = queue /\ pending_not_fuzzed' = pending_not_fuzzed
          /\ pending_favored' = pending_favored
      BY <1>7 DEF Abandon
    <2>2. Remarked(queue, queue') /\ Pending'
      BY <1>1, <1>2, <2>1 DEF Remarked, Pending
    <2>. QED BY <1>2, <1>3, <1>5, <1>6, <2>1, <2>2, MarkKeeps
  <1>8. CASE ~(stop_soon \/ queue[queue_cur].cal_failed # 0 \/ queue[queue_cur].was_fuzzed)
    <2>1. /\ queue' = [queue EXCEPT ![queue_cur].was_fuzzed = TRUE]
          /\ pending_not_fuzzed' = pending_not_fuzzed - 1
          /\ pending_favored' = pending_favored - IF queue[queue_cur].favored THEN 1 ELSE 0
      BY <1>8 DEF Abandon
    <2> DEFINE e == [queue[queue_cur] EXCEPT !.was_fuzzed = TRUE]
    <2>2. queue[queue_cur] \in QueueEntry
      BY <1>2, <1>4
    <2>3. /\ e \in QueueEntry /\ e.was_fuzzed
          /\ e.favored = queue[queue_cur].favored /\ e.distance = queue[queue_cur].distance
          /\ e.cal_failed = queue[queue_cur].cal_failed
          /\ e.tc_ref = queue[queue_cur].tc_ref /\ e.trace_mini = queue[queue_cur].trace_mini
      BY <2>2 DEF QueueEntry
    <2>4. queue' = [queue EXCEPT ![queue_cur] = e]
      BY <2>1
    <2> HIDE DEF e
    <2>5. /\ queue' \in Seq(QueueEntry) /\ Len(queue') = Len(queue) /\ queue'[queue_cur] = e
          /\ \A k \in 1 .. Len(queue) : k # queue_cur => queue'[k] = queue[k]
      BY <1>2, <1>4, <2>3, <2>4
    <2>6. Remarked(queue, queue')
      BY <2>3, <2>5 DEF Remarked
    <2>7. /\ NotFuzzed(queue') = NotFuzzed(queue) \ {queue_cur}
          /\ queue_cur \in NotFuzzed(queue)
      BY <1>4, <1>8, <2>3, <2>5 DEF NotFuzzed
    <2>8. /\ FavoredLeft(queue') = FavoredLeft(queue) \ {queue_cur}
          /\ queue_cur \in FavoredLeft(queue) <=> queue[queue_cur].favored
      BY <1>4, <1>8, <2>3, <2>5 DEF FavoredLeft
    <2>9. /\ IsFiniteSet(NotFuzzed(queue)) /\ IsFiniteSet(FavoredLeft(queue))
          /\ Cardinality(NotFuzzed(queue')) \in Nat /\ Cardinality(FavoredLeft(queue')) \in Nat
          /\ Cardinality(FavoredLeft(queue)) \in Nat
      <3>1. /\ NotFuzzed(queue) \in SUBSET (1 .. Len(queue))
            /\ FavoredLeft(queue) \in SUBSET (1 .. Len(queue))
        BY DEF NotFuzzed, FavoredLeft
      <3>2. /\ NotFuzzed(queue') \in SUBSET (1 .. Len(queue))
            /\ FavoredLeft(queue') \in SUBSET (1 .. Len(queue))
        BY <2>7, <2>8, <3>1
      <3>. QED BY <1>4, <3>1, <3>2, IndexSets
    <2>10. Cardinality(NotFuzzed(queue')) = Cardinality(NotFuzzed(queue)) - 1
      BY <2>7, <2>9, FS_RemoveElement
    <2>11. Cardinality(FavoredLeft(queue')) =
              IF queue[queue_cur].favored THEN Cardinality(FavoredLeft(queue)) - 1
              ELSE Cardinality(FavoredLeft(queue))
      BY <2>8, <2>9, FS_RemoveElement
    <2>12. /\ pending_not_fuzzed = Cardinality(NotFuzzed(queue))
           /\ pending_favored >= Cardinality(FavoredLeft(queue))
      BY <1>1 DEF Pending
    <2>13. /\ pending_not_fuzzed' \in Nat
           /\ pending_not_fuzzed' = Cardinality(NotFuzzed(queue'))
      BY <2>1, <2>9, <2>10, <2>12
    <2>14. /\ pending_favored' \in Nat
           /\ pending_favored' >= Cardinality(FavoredLeft(queue'))
      <3>1. CASE queue[queue_cur].favored
        <4>1. /\ pending_favored' = pending_favored - 1
              /\ Cardinality(FavoredLeft(queue')) = Cardinality(FavoredLeft(queue)) - 1
          BY <2>1, <2>11, <3>1
        <4>. QED BY <1>2, <2>9, <2>12, <4>1
      <3>2. CASE ~queue[queue_cur].favored
        <4>1. /\ pending_favored' = pending_favored - 0
              /\ Cardinality(FavoredLeft(queue')) = Cardinality(FavoredLeft(queue))
          BY <2>1, <2>11, <3>2
        <4>. QED BY <1>2, <2>9, <2>12, <4>1
      <3>. QED BY <3>1, <3>2
    <2>15. Pending'
      BY <2>13, <2>14 DEF Pending
    <2>. QED BY <1>2, <1>3, <1>5, <1>6, <2>6, <2>13, <2>14, <2>15, MarkKeeps
  <1>. QED BY <1>7, <1>8

-----------------------------------------------------------------------------
(* The invariant.                                                          *)

\* The invariant holds of the queue that read_testcases makes.
LEMMA InitHolds ==
    ASSUME Init
    PROVE  QueueInv
  <1>1. Seeds \in Nat \ {0} /\ CalChances \in Nat \ {0}
    BY QueueAssumption
  <1> DEFINE new == NewEntry(NoDistance, NoSum)
  <1>2. /\ new \in QueueEntry /\ new.tc_ref = 0 /\ new.trace_mini = {} /\ new.cal_failed = 0
        /\ ~new.was_fuzzed /\ ~new.favored /\ new.distance = NoDistance
    <2>1. 0 \in 0 .. CalChances /\ NoDistance \in Distance
      BY <1>1 DEF Distance
    <2>. QED BY <2>1 DEF NewEntry, QueueEntry
  <1>3. queue = [k \in 1 .. Seeds |-> new]
    BY DEF Init
  <1> HIDE DEF new
  <1>4. /\ queue \in Seq(QueueEntry) /\ Len(queue) = Seeds /\ DOMAIN queue = 1 .. Seeds
        /\ \A k \in 1 .. Seeds : queue[k] = new
    BY <1>1, <1>2, <1>3
  <1>0. top_rated = [b \in Byte |-> 0] /\ seen = [b \in Byte |-> {}]
    BY DEF Init
  <1>5. \A k \in 1 .. Seeds : Held(top_rated, k) = {}
    <2>1. \A k \in 1 .. Seeds : k # 0
      BY <1>1
    <2>. QED BY <1>0, <2>1 DEF Held
  <1>6. Cardinality({}) = 0
    BY FS_EmptySet
  <1>7. Keeps(queue, top_rated) /\ Unrated(queue, top_rated)
    BY <1>2, <1>4, <1>5, <1>6 DEF Keeps, Unrated
  <1>8. DistancesBounded
    BY <1>2, <1>4 DEF DistancesBounded
  <1>9. Pending
    <2>1. NotFuzzed(queue) = 1 .. Seeds /\ FavoredLeft(queue) = {}
      BY <1>2, <1>4 DEF NotFuzzed, FavoredLeft
    <2>2. Cardinality(1 .. Seeds) = Seeds
      <3>1. \A k \in Nat : Cardinality(1 .. k) = IF 1 > k THEN 0 ELSE k - 1 + 1
        BY FS_Interval
      <3>. QED BY <1>1, <3>1
    <2>3. pending_not_fuzzed = Seeds /\ pending_favored = 0
      BY DEF Init
    <2>4. pending_favored >= Cardinality(FavoredLeft(queue))
      BY <1>6, <2>1, <2>3
    <2>. QED BY <2>1, <2>2, <2>3, <2>4 DEF Pending
  <1>10. Span
    <2>1. min_distance = NoDistance /\ max_distance = NoDistance
      BY DEF Init
    <2>2. NoDistance <= NoDistance
      BY DEF NoDistance
    <2>. QED BY <2>1, <2>2 DEF Span
  <1>11. AtHand
    <2>1. queue_cur = 1 /\ pc = "dry run"
      BY DEF Init
    <2>2. 1 \in 1 .. Seeds /\ Len(queue) >= Seeds
      BY <1>1, <1>4
    <2>3. \A k \in 1 .. Seeds : queue[k].cal_failed = 0 /\ Held(top_rated, k) = {}
      BY <1>2, <1>4, <1>5
    <2>. QED BY <1>4, <2>1, <2>2, <2>3 DEF AtHand
  <1>12. TypeOK
    <2>1. top_rated \in [Byte -> 0 .. Len(queue)] /\ seen \in [Byte -> SUBSET Nat]
      <3>1. Len(queue) \in Nat /\ 0 \in 0 .. Len(queue)
        BY <1>1, <1>4
      <3>. QED BY <1>0, <3>1
    <2>2. queue_cur \in 0 .. Len(queue) /\ pending_not_fuzzed \in Nat
      <3>1. queue_cur = 1 /\ pending_not_fuzzed = Seeds
        BY DEF Init
      <3>. QED BY <1>1, <1>4, <3>1
    <2>3. /\ score_changed \in BOOLEAN /\ measured \in BOOLEAN /\ stop_soon \in BOOLEAN
          /\ min_distance \in Distance /\ max_distance \in Distance
          /\ pc \in {"dry run", "started", "loop", "pick", "fuzz", "sync", "end", "fatal"}
      BY DEF Init, Distance
    <2>4. /\ pending_favored \in Nat /\ queued_favored \in Nat /\ queued_with_cov \in Nat
          /\ queued_variable \in Nat /\ cal_failures \in Nat
      BY DEF Init
    <2>. QED BY <1>4, <2>1, <2>2, <2>3, <2>4 DEF TypeOK
  <1>. QED BY <1>7, <1>8, <1>9, <1>10, <1>11, <1>12 DEF QueueInv

\* Every step preserves it.
LEMMA NextKeeps ==
    ASSUME QueueInv, [Next]_vars
    PROVE  QueueInv'
  <1>1. CASE Next
    BY <1>1, DryRunKeeps, StartKeeps, MoveKeeps, RecalibrateKeeps, AbandonKeeps, SaveKeeps
       DEF Next, Step
  <1>2. CASE UNCHANGED vars
    <2>1. /\ queue' = queue /\ top_rated' = top_rated /\ score_changed' = score_changed
          /\ UNCHANGED <<seen, queued_with_cov, queued_variable, range, cal_failures, measured>>
          /\ pending_not_fuzzed' = pending_not_fuzzed /\ pending_favored' = pending_favored
          /\ queued_favored' = queued_favored /\ stop_soon' = stop_soon
          /\ queue_cur' = queue_cur /\ pc' = pc
      BY <1>2 DEF vars, rating, counters
    <2>2. TypeOK /\ Pending /\ AtHand
      BY DEF QueueInv
    <2>3. Remarked(queue, queue')
      BY <2>1, <2>2 DEF Remarked, TypeOK
    <2>4. Pending'
      BY <2>1, <2>2 DEF Pending
    <2>5. /\ score_changed' \in BOOLEAN /\ stop_soon' \in BOOLEAN
          /\ pending_not_fuzzed' \in Nat /\ pending_favored' \in Nat /\ queued_favored' \in Nat
          /\ queue_cur' \in 0 .. Len(queue)
      BY <2>1, <2>2 DEF TypeOK
    <2>6. pc' \in {"dry run", "started", "loop", "pick", "fuzz", "sync", "end", "fatal"}
      BY <2>1, <2>2 DEF TypeOK
    <2>7. /\ pc' \in {"pick", "fuzz", "sync"} => queue_cur' # 0
          /\ pc' = "dry run" => pc = "dry run" /\ queue_cur' = queue_cur
      BY <2>1, <2>2 DEF AtHand
    <2>. QED BY <2>1, <2>3, <2>4, <2>5, <2>6, <2>7, MarkKeeps
  <1>. QED BY <1>1, <1>2

\* What the queue keeps, whatever the target does and whenever it is stopped.
THEOREM QueueInvariant == Spec => []QueueInv
  <1>. QED BY InitHolds, NextKeeps, PTL DEF Spec

\* The counters stay natural numbers: none is decreased below zero, and no
\* winner loses more references than it has.
THEOREM QueueTypeCorrect == Spec => []TypeOK
  <1>1. QueueInv => TypeOK
    BY DEF QueueInv
  <1>. QED BY <1>1, QueueInvariant, PTL

\* A winner has its trace_mini, and the last position an entry loses frees it.
THEOREM QueueWinnersKeepTraces == Spec => []WinnersKeepTraces
  <1>1. ASSUME QueueInv PROVE WinnersKeepTraces
    <2>1. queue \in Seq(QueueEntry) /\ Keeps(queue, top_rated)
      BY <1>1 DEF QueueInv, TypeOK
    <2>2. DOMAIN queue = 1 .. Len(queue)
      BY <2>1
    <2>. QED BY <2>1, <2>2 DEF Keeps, Held, WinnersKeepTraces
  <1>. QED BY <1>1, QueueInvariant, PTL

\* The range of distances spans that of every entry.
THEOREM QueueDistancesBounded == Spec => []DistancesBounded
  <1>1. QueueInv => DistancesBounded
    BY DEF QueueInv
  <1>. QED BY <1>1, QueueInvariant, PTL

-----------------------------------------------------------------------------
(* The walk of cull_queue over the positions. Left is a recursive          *)
(* function: it is there because a walk of every length is, as there would *)
(* be a shortest one that is not.                                          *)

\* One step of the walk over the positions.
Covered(b, S) ==
    IF top_rated[b] # 0 /\ b \in S THEN S \ queue[top_rated[b]].trace_mini ELSE S

Walk(f, n) == f = [b \in 0 .. n |-> IF b = 0 THEN Byte ELSE Covered(b - 1, f[b - 1])]

\* A walk over any number of positions exists: there is no least number without one.
LEMMA WalkExists ==
    \A n \in Nat : \E f : Walk(f, n)
  <1> DEFINE Bad == {n \in Nat : ~ \E f : Walk(f, n)}
  <1> SUFFICES ASSUME Bad # {} PROVE FALSE
    OBVIOUS
  <1>1. PICK n \in Bad : \A m \in Bad : n <= m
    <2>1. Bad \in SUBSET Nat
      OBVIOUS
    <2> HIDE DEF Bad
    <2>. QED BY <2>1, LeastElement
  <1>2. n # 0
    <2>1. Walk([b \in 0 .. 0 |-> Byte], 0)
      BY DEF Walk
    <2>. QED BY <1>1, <2>1
  <1>3. n - 1 \in Nat /\ n - 1 \notin Bad
    BY <1>1, <1>2
  <1>4. PICK f : Walk(f, n - 1)
    BY <1>3
  <1> DEFINE g == [b \in 0 .. n |-> IF b = n THEN Covered(n - 1, f[n - 1]) ELSE f[b]]
  <1>5. ASSUME NEW b \in 0 .. n
        PROVE  g[b] = IF b = 0 THEN Byte ELSE Covered(b - 1, g[b - 1])
    <2>1. CASE b = n
      BY <1>2, <1>3, <2>1
    <2>2. CASE b # n
      <3>1. b \in 0 .. n - 1 /\ (b # 0 => b - 1 \in 0 .. n /\ b - 1 # n)
        BY <1>1, <2>2
      <3>2. f[b] = IF b = 0 THEN Byte ELSE Covered(b - 1, f[b - 1])
        BY <1>4, <3>1 DEF Walk
      <3>. QED BY <2>2, <3>1, <3>2
    <2>. QED BY <2>1, <2>2
  <1>6. Walk(g, n)
    <2>1. g = [b \in 0 .. n |-> g[b]]
      OBVIOUS
    <2> HIDE DEF g
    <2>. QED BY <1>5, <2>1 DEF Walk
  <1>. QED BY <1>1, <1>6

\* What is left before and after a position.
LEMMA LeftUnfolds ==
    /\ Left[0] = Byte
    /\ \A b \in Byte : Left[b + 1] = Covered(b, Left[b])
  <1>1. MapSize \in Nat
    BY QueueAssumption
  <1>2. \E f : Walk(f, MapSize)
    BY <1>1, WalkExists
  <1>3. Left = CHOOSE f : Walk(f, MapSize)
    BY DEF Left, Walk, Covered
  <1>4. Walk(Left, MapSize)
    BY <1>2, <1>3
  <1>. QED BY <1>1, <1>4 DEF Walk, Byte

\* The walk only ever covers more.
LEMMA LeftShrinks ==
    \A m, n \in 0 .. MapSize : m <= n => Left[n] \subseteq Left[m]
  <1> SUFFICES ASSUME NEW m \in 0 .. MapSize
               PROVE  \A n \in 0 .. MapSize : m <= n => Left[n] \subseteq Left[m]
    OBVIOUS
  <1>1. MapSize \in Nat
    BY QueueAssumption
  <1> DEFINE Bad == {n \in 0 .. MapSize : m <= n /\ ~(Left[n] \subseteq Left[m])}
  <1> SUFFICES ASSUME Bad # {} PROVE FALSE
    OBVIOUS
  <1>2. PICK n \in Bad : \A k \in Bad : n <= k
    <2>1. Bad \in SUBSET Nat
      BY <1>1
    <2> HIDE DEF Bad
    <2>. QED BY <2>1, LeastElement
  <1>3. n \in 0 .. MapSize /\ m <= n /\ n # m
    BY <1>2
  <1>4. n - 1 \in Byte /\ n - 1 \in 0 .. MapSize /\ m <= n - 1 /\ n - 1 < n
    BY <1>1, <1>3 DEF Byte
  <1>5. n - 1 \notin Bad
    BY <1>1, <1>2, <1>3, <1>4
  <1>6. Left[n - 1] \subseteq Left[m]
    BY <1>4, <1>5
  <1>7. Left[(n - 1) + 1] = Covered(n - 1, Left[n - 1]) /\ (n - 1) + 1 = n
    BY <1>1, <1>3, <1>4, LeftUnfolds
  <1>8. Left[n] \subseteq Left[n - 1]
    BY <1>7 DEF Covered
  <1>. QED BY <1>2, <1>6, <1>8

\* What is grabbed takes its trace from what is left.
LEMMA GrabbedLeaves ==
    ASSUME NEW b \in Grabbed, NEW n \in 0 .. MapSize, b < n
    PROVE  Left[n] \cap queue[top_rated[b]].trace_mini = {}
  <1>1. MapSize \in Nat /\ b \in Byte /\ top_rated[b] # 0 /\ b \in Left[b]
    BY QueueAssumption DEF Grabbed
  <1>2. b + 1 \in 0 .. MapSize /\ b + 1 <= n
    BY <1>1 DEF Byte
  <1>3. Left[b + 1] = Left[b] \ queue[top_rated[b]].trace_mini
    BY <1>1, LeftUnfolds DEF Covered
  <1>4. Left[n] \subseteq Left[b + 1]
    BY <1>2, LeftShrinks
  <1>. QED BY <1>3, <1>4

\* Two grabbed positions have two winners.
LEMMA GrabbedOnce ==
    ASSUME QueueInv, NEW a \in Grabbed, NEW b \in Grabbed, top_rated[a] = top_rated[b]
    PROVE  a = b
  <1>1. /\ a \in Byte /\ b \in Byte /\ top_rated[a] # 0 /\ top_rated[b] # 0
        /\ a \in Left[a] /\ b \in Left[b] /\ MapSize \in Nat
    BY QueueAssumption DEF Grabbed
  <1>2. a \in Int /\ b \in Int /\ a \in 0 .. MapSize /\ b \in 0 .. MapSize
    BY <1>1 DEF Byte
  <1>3. /\ queue \in Seq(QueueEntry) /\ top_rated \in [Byte -> 0 .. Len(queue)]
        /\ Keeps(queue, top_rated)
    BY DEF QueueInv, TypeOK
  <1>4. top_rated[a] \in 1 .. Len(queue)
    <2>1. Len(queue) \in Nat /\ top_rated[a] \in 0 .. Len(queue)
      BY <1>1, <1>3
    <2>. QED BY <1>1, <2>1
  <1>5. /\ a \in Held(top_rated, top_rated[a])
        /\ b \in Held(top_rated, top_rated[a])
    BY <1>1 DEF Held
  <1>6. a \in queue[top_rated[a]].trace_mini /\ b \in queue[top_rated[a]].trace_mini
    BY <1>3, <1>4, <1>5 DEF Keeps
  <1>7. CASE a < b
    BY <1>1, <1>2, <1>6, <1>7, GrabbedLeaves
  <1>8. CASE b < a
    BY <1>1, <1>2, <1>6, <1>8, GrabbedLeaves
  <1>. QED BY <1>2, <1>7, <1>8

\* A held position is in the trace of a winner that was grabbed.
LEMMA HeldIsGrabbed ==
    ASSUME QueueInv, NEW b \in Byte, top_rated[b] # 0
    PROVE  \E a \in Grabbed : b \in queue[top_rated[a]].trace_mini
  <1>1. MapSize \in Nat /\ b \in 0 .. MapSize /\ b \in Nat
    BY QueueAssumption DEF Byte
  <1>2. CASE b \in Left[b]
    <2>1. b \in Grabbed
      BY <1>2 DEF Grabbed
    <2>2. /\ queue \in Seq(QueueEntry) /\ top_rated \in [Byte -> 0 .. Len(queue)]
          /\ Keeps(queue, top_rated)
      BY DEF QueueInv, TypeOK
    <2>3. top_rated[b] \in 1 .. Len(queue)
      <3>1. Len(queue) \in Nat /\ top_rated[b] \in 0 .. Len(queue)
        BY <2>2
      <3>. QED BY <3>1
    <2>4. b \in Held(top_rated, top_rated[b])
      BY DEF Held
    <2>5. b \in queue[top_rated[b]].trace_mini
      BY <2>2, <2>3, <2>4 DEF Keeps
    <2>. QED BY <2>1, <2>5
  <1>3. CASE b \notin Left[b]
    <2> DEFINE Gone == {n \in 0 .. MapSize : b \notin Left[n]}
    <2>1. PICK n \in Gone : \A m \in Gone : n <= m
      <3>1. Gone \in SUBSET Nat /\ b \in Gone
        BY <1>1, <1>3
      <3> HIDE DEF Gone
      <3>. QED BY <3>1, LeastElement
    <2>2. n \in 0 .. MapSize /\ n # 0
      BY <2>1, LeftUnfolds
    <2>3. n - 1 \in Byte /\ n - 1 \in 0 .. MapSize /\ n - 1 < n
      BY <1>1, <2>2 DEF Byte
    <2>4. b \in Left[n - 1]
      BY <1>1, <2>1, <2>2, <2>3
    <2>5. Left[(n - 1) + 1] = Covered(n - 1, Left[n - 1]) /\ (n - 1) + 1 = n
      BY <1>1, <2>2, <2>3, LeftUnfolds
    <2>6. b \notin Covered(n - 1, Left[n - 1])
      BY <2>1, <2>5
    <2>7. /\ top_rated[n - 1] # 0 /\ n - 1 \in Left[n - 1]
          /\ b \in queue[top_rated[n - 1]].trace_mini
      BY <2>4, <2>6 DEF Covered
    <2>8. n - 1 \in Grabbed
      BY <2>3, <2>7 DEF Grabbed
    <2>. QED BY <2>7, <2>8
  <1>. QED BY <1>2, <1>3

-----------------------------------------------------------------------------
(* What a calibration does to the other fields.                            *)

\* The fields that neither the references nor the distances are about.
Calibrates(q, i, c, r) ==
    /\ \A k \in 1 .. Len(q) : r[k].was_fuzzed = q[k].was_fuzzed /\ r[k].favored = q[k].favored
    /\ \A k \in 1 .. Len(q) \ {i} :
          /\ r[k].has_new_cov = q[k].has_new_cov /\ r[k].var_behavior = q[k].var_behavior
          /\ r[k].factor = q[k].factor /\ r[k].scored = q[k].scored
    /\ q[i].has_new_cov => r[i].has_new_cov
    /\ q[i].var_behavior => r[i].var_behavior
    /\ c.end = "done" => r[i].factor = c.factor /\ r[i].scored = BytesOf(LastOf(c).trace)
    /\ c.end # "done" => r[i].factor = q[i].factor /\ r[i].scored = q[i].scored
    /\ (c.end = "done" => Wins(q, i, LastOf(c).trace, c.factor) = {})
          => \A k \in 1 .. Len(q) : r[k].trace_mini = q[k].trace_mini

\* update_bitmap_score leaves alone all fields but those of the rating.
LEMMA RatedFields ==
    ASSUME NEW q \in Seq(QueueEntry), NEW i \in 1 .. Len(q), NEW t, NEW f, NEW k \in 1 .. Len(q)
    PROVE  LET r == Rated(q, i, t, f) IN
           /\ r[k].was_fuzzed = q[k].was_fuzzed /\ r[k].favored = q[k].favored
           /\ r[k].has_new_cov = q[k].has_new_cov /\ r[k].var_behavior = q[k].var_behavior
           /\ r[k].factor = IF k = i THEN f ELSE q[k].factor
           /\ r[k].scored = IF k = i THEN BytesOf(t) ELSE q[k].scored
           /\ Wins(q, i, t, f) = {} => r[k].trace_mini = q[k].trace_mini
  <1> DEFINE r       == Rated(q, i, t, f)
             won     == Wins(q, i, t, f)
             lost    == Cardinality({b \in won : top_rated[b] = k})
             refs    == q[k].tc_ref - lost + IF k = i THEN Cardinality(won) ELSE 0
             mini    == IF refs = 0 /\ lost > 0 THEN {}
                        ELSE IF k = i /\ won # {} /\ q[k].trace_mini = {} THEN BytesOf(t)
                        ELSE q[k].trace_mini
             ff      == IF k = i THEN f ELSE q[k].factor
             bb      == IF k = i THEN BytesOf(t) ELSE q[k].scored
             e       == q[k]
             x       == r[k]
  <1>1. x = [e EXCEPT !.tc_ref = refs, !.trace_mini = mini,
                      !.factor = IF k = i THEN f ELSE @, !.scored = IF k = i THEN BytesOf(t) ELSE @]
    BY DEF Rated
  <1>2. e \in QueueEntry
    OBVIOUS
  <1>3. x = [e EXCEPT !.tc_ref = refs, !.trace_mini = mini, !.factor = ff, !.scored = bb]
    BY <1>1, <1>2 DEF QueueEntry
  <1>4. won = {} => mini = e.trace_mini
    <2> SUFFICES ASSUME won = {} PROVE mini = e.trace_mini
      OBVIOUS
    <2>1. {b \in won : top_rated[b] = k} = {}
      OBVIOUS
    <2>2. lost = 0
      BY <2>1, FS_EmptySet
    <2> HIDE DEF lost, refs, won
    <2>. QED BY <2>2
  <1> HIDE DEF e, x, refs, mini
  <1>5. /\ x.was_fuzzed = e.was_fuzzed /\ x.favored = e.favored
        /\ x.has_new_cov = e.has_new_cov /\ x.var_behavior = e.var_behavior
        /\ x.factor = ff /\ x.scored = bb /\ x.trace_mini = mini
    BY <1>2, <1>3 DEF QueueEntry
  <1>. QED BY <1>4, <1>5 DEF e, x

\* What calibrate_case does to the fields that are counted.
LEMMA CalibratedFields ==
    ASSUME NEW q \in Seq(QueueEntry), NEW i \in 1 .. Len(q), NEW s, NEW c \in Calibration,
           q[i].cal_failed < CalChances, top_rated \in [Byte -> 0 .. Len(q)]
    PROVE  Calibrates(q, i, c, Calibrated(q, i, s, c))
  <1> DEFINE r == Calibrated(q, i, s, c)
  <1> SUFFICES Calibrates(q, i, c, r)
    OBVIOUS
  <1>1. PICK f \in QueueEntry : Measures(q, i, s, c, f)
    BY CalibratedEntry
  <1> DEFINE p == [q EXCEPT ![i] = f]
  <1>2. /\ p \in Seq(QueueEntry) /\ Len(p) = Len(q) /\ i \in 1 .. Len(p) /\ p[i] = f
        /\ \A k \in 1 .. Len(q) \ {i} : p[k] = q[k]
    OBVIOUS
  <1>3. /\ c.end = "done" => r = Rated(p, i, LastOf(c).trace, c.factor)
        /\ c.end # "done" => r = p
    BY <1>1 DEF Measures
  <1>6. /\ q[i].has_new_cov => f.has_new_cov
        /\ q[i].var_behavior => f.var_behavior
        /\ f.was_fuzzed = q[i].was_fuzzed /\ f.favored = q[i].favored
        /\ f.trace_mini = q[i].trace_mini
        /\ f.factor = q[i].factor /\ f.scored = q[i].scored
    BY <1>1 DEF Measures
  <1> HIDE DEF p, r
  <1>4. CASE c.end # "done"
    BY <1>6, <1>2, <1>3, <1>4 DEF Calibrates
  <1>5. CASE c.end = "done"
    <2> DEFINE t == LastOf(c).trace
    <2>1. \A k \in 1 .. Len(q) :
              /\ r[k].was_fuzzed = p[k].was_fuzzed /\ r[k].favored = p[k].favored
              /\ r[k].has_new_cov = p[k].has_new_cov /\ r[k].var_behavior = p[k].var_behavior
              /\ r[k].factor = IF k = i THEN c.factor ELSE p[k].factor
              /\ r[k].scored = IF k = i THEN BytesOf(t) ELSE p[k].scored
              /\ Wins(p, i, t, c.factor) = {} => r[k].trace_mini = p[k].trace_mini
      BY <1>2, <1>3, <1>5, RatedFields
    <2>2. Wins(p, i, t, c.factor) = Wins(q, i, t, c.factor)
      <3>1. \A k \in 1 .. Len(q) : p[k].factor = q[k].factor
        BY <1>6, <1>2
      <3>2. \A b \in BytesOf(t) : b \in Byte /\ (top_rated[b] = 0 \/ top_rated[b] \in 1 .. Len(q))
        BY DEF BytesOf
      <3>. QED BY <3>1, <3>2 DEF Wins
    <2>3. \A k \in 1 .. Len(q) : p[k].was_fuzzed = q[k].was_fuzzed /\ p[k].favored = q[k].favored
                                 /\ p[k].trace_mini = q[k].trace_mini
      BY <1>6, <1>2
    <2>4. \A k \in 1 .. Len(q) : r[k].was_fuzzed = q[k].was_fuzzed /\ r[k].favored = q[k].favored
      BY <2>1, <2>3
    <2>5. \A k \in 1 .. Len(q) \ {i} :
              /\ r[k].has_new_cov = q[k].has_new_cov /\ r[k].var_behavior = q[k].var_behavior
              /\ r[k].factor = q[k].factor /\ r[k].scored = q[k].scored
      BY <1>2, <2>1
    <2>6. /\ q[i].has_new_cov => r[i].has_new_cov
          /\ q[i].var_behavior => r[i].var_behavior
          /\ r[i].factor = c.factor /\ r[i].scored = BytesOf(t)
      BY <1>2, <1>6, <2>1
    <2>7. Wins(q, i, t, c.factor) = {} => \A k \in 1 .. Len(q) : r[k].trace_mini = q[k].trace_mini
      BY <2>1, <2>2, <2>3
    <2>. QED BY <1>5, <2>4, <2>5, <2>6, <2>7 DEF Calibrates
  <1>. QED BY <1>4, <1>5

-----------------------------------------------------------------------------
(* The counters, and the winners.                                          *)

Favored(q)  == {i \in 1 .. Len(q) : q[i].favored}
Covering(q) == {i \in 1 .. Len(q) : q[i].has_new_cov}
Variable(q) == {i \in 1 .. Len(q) : q[i].var_behavior}

\* The counters, and why the dry run counts right: it does not look whether an
\* entry was counted before.
Counted ==
    /\ pending_favored = Cardinality(FavoredLeft(queue))
    /\ queued_favored = Cardinality(Favored(queue))
    /\ queued_with_cov = Cardinality(Covering(queue))
    /\ queued_variable = Cardinality(Variable(queue))
    /\ pc = "dry run" => \A k \in queue_cur .. Seeds : ~queue[k].has_new_cov

\* No rated entry is cheaper than the winners of the positions it goes through.
Cheap(q, top) ==
    \A k \in 1 .. Len(q) : \A b \in q[k].scored :
        top[b] # 0 /\ q[top[b]].factor <= q[k].factor

\* Every position that is held is in the trace of a favored entry.
CoveredBy(q, top) ==
    \A b \in Byte : top[b] # 0 => \E k \in 1 .. Len(q) : q[k].favored /\ b \in q[k].trace_mini

Cover ==
    /\ Cheap(queue, top_rated)
    /\ ~score_changed => CoveredBy(queue, top_rated)

\* Sets of entries that differ in one entry at most.
LEMMA OneMore ==
    ASSUME NEW n \in Nat, NEW i \in 1 .. n, NEW S \in SUBSET (1 .. n), NEW T \in SUBSET (1 .. n),
           \A k \in (1 .. n) \ {i} : k \in S <=> k \in T, i \in S => i \in T
    PROVE  Cardinality(T) = Cardinality(S) + IF i \in T /\ i \notin S THEN 1 ELSE 0
  <1>1. IsFiniteSet(S) /\ Cardinality(S) \in Nat
    BY IndexSets
  <1>2. CASE i \in T /\ i \notin S
    <2>1. T = S \cup {i}
      BY <1>2
    <2>. QED BY <1>1, <1>2, <2>1, FS_AddElement
  <1>3. CASE ~(i \in T /\ i \notin S)
    <2>1. \A k \in 1 .. n : k \in S <=> k \in T
      BY <1>3
    <2>2. T = S
      BY <2>1
    <2>. QED BY <1>1, <1>3, <2>2
  <1>. QED BY <1>2, <1>3

\* What a calibration does to the counts.
LEMMA CalibratedCounts ==
    ASSUME NEW q \in Seq(QueueEntry), NEW r \in Seq(QueueEntry), Len(r) = Len(q),
           NEW i \in 1 .. Len(q), NEW c, Calibrates(q, i, c, r)
    PROVE  /\ Favored(r) = Favored(q) /\ FavoredLeft(r) = FavoredLeft(q)
           /\ Cardinality(Covering(r)) = Cardinality(Covering(q))
                 + IF r[i].has_new_cov /\ ~q[i].has_new_cov THEN 1 ELSE 0
           /\ Cardinality(Variable(r)) = Cardinality(Variable(q))
                 + IF r[i].var_behavior /\ ~q[i].var_behavior THEN 1 ELSE 0
  <1>1. Len(q) \in Nat
    OBVIOUS
  <1>2. \A k \in 1 .. Len(q) : r[k].was_fuzzed = q[k].was_fuzzed /\ r[k].favored = q[k].favored
    BY DEF Calibrates
  <1>3. Favored(r) = Favored(q) /\ FavoredLeft(r) = FavoredLeft(q)
    BY <1>2 DEF Favored, FavoredLeft
  <1>4. /\ Covering(q) \in SUBSET (1 .. Len(q)) /\ Covering(r) \in SUBSET (1 .. Len(q))
        /\ Variable(q) \in SUBSET (1 .. Len(q)) /\ Variable(r) \in SUBSET (1 .. Len(q))
    BY DEF Covering, Variable
  <1>5. /\ \A k \in (1 .. Len(q)) \ {i} : k \in Covering(q) <=> k \in Covering(r)
        /\ \A k \in (1 .. Len(q)) \ {i} : k \in Variable(q) <=> k \in Variable(r)
    BY DEF Calibrates, Covering, Variable
  <1>6. /\ i \in Covering(q) <=> q[i].has_new_cov
        /\ i \in Covering(r) <=> r[i].has_new_cov
        /\ i \in Variable(q) <=> q[i].var_behavior
        /\ i \in Variable(r) <=> r[i].var_behavior
    BY DEF Covering, Variable
  <1>7. /\ i \in Covering(q) => i \in Covering(r)
        /\ i \in Variable(q) => i \in Variable(r)
    BY <1>6 DEF Calibrates
  <1>8. Cardinality(Covering(r)) = Cardinality(Covering(q))
            + IF i \in Covering(r) /\ i \notin Covering(q) THEN 1 ELSE 0
    <2> DEFINE n == Len(q)
               S == Covering(q)
               T == Covering(r)
    <2>1. /\ n \in Nat /\ i \in 1 .. n /\ S \in SUBSET (1 .. n) /\ T \in SUBSET (1 .. n)
          /\ \A k \in (1 .. n) \ {i} : k \in S <=> k \in T
          /\ i \in S => i \in T
      BY <1>1, <1>4, <1>5, <1>7
    <2> HIDE DEF n, S, T
    <2>2. Cardinality(T) = Cardinality(S) + IF i \in T /\ i \notin S THEN 1 ELSE 0
      BY <2>1, OneMore
    <2>. QED BY <2>2 DEF S, T
  <1>9. Cardinality(Variable(r)) = Cardinality(Variable(q))
            + IF i \in Variable(r) /\ i \notin Variable(q) THEN 1 ELSE 0
    <2> DEFINE n == Len(q)
               S == Variable(q)
               T == Variable(r)
    <2>1. /\ n \in Nat /\ i \in 1 .. n /\ S \in SUBSET (1 .. n) /\ T \in SUBSET (1 .. n)
          /\ \A k \in (1 .. n) \ {i} : k \in S <=> k \in T
          /\ i \in S => i \in T
      BY <1>1, <1>4, <1>5, <1>7
    <2> HIDE DEF n, S, T
    <2>2. Cardinality(T) = Cardinality(S) + IF i \in T /\ i \notin S THEN 1 ELSE 0
      BY <2>1, OneMore
    <2>. QED BY <2>2 DEF S, T
  <1>. QED BY <1>3, <1>6, <1>8, <1>9

\* A calibration keeps the winners the cheapest, and says so when it changes them.
LEMMA CalibratedCover ==
    ASSUME NEW q \in Seq(QueueEntry), NEW i \in 1 .. Len(q), NEW s, NEW c \in Calibration,
           Calibrate(q, i, s, c), q[i].cal_failed < CalChances,
           NEW r, r = Calibrated(q, i, s, c),
           top_rated \in [Byte -> 0 .. Len(q)], Held(top_rated, i) = {}, score_changed \in BOOLEAN,
           r \in Seq(QueueEntry), Len(r) = Len(q),
           Cheap(q, top_rated), ~score_changed => CoveredBy(q, top_rated)
    PROVE  Cheap(r, top_rated') /\ (~score_changed' => CoveredBy(r, top_rated'))
  <1>1. Calibrates(q, i, c, r)
    BY CalibratedFields
  <1>2. /\ Len(q) \in Nat
        /\ \A k \in 1 .. Len(q) : q[k].factor \in Nat /\ q[k].scored \in SUBSET Byte
    <2>1. \A k \in 1 .. Len(q) : q[k] \in QueueEntry
      OBVIOUS
    <2>2. \A e \in QueueEntry : e.factor \in Nat /\ e.scored \in SUBSET Byte
      <3>1. Factors \cup {0} \subseteq Nat
        BY QueueAssumption
      <3>. QED BY <3>1 DEF QueueEntry
    <2>3. Len(q) \in Nat
      OBVIOUS
    <2>. QED BY <2>1, <2>2, <2>3
  <1>3. \A b \in Byte : top_rated[b] # i /\ (top_rated[b] # 0 => top_rated[b] \in (1 .. Len(q)) \ {i})
    BY <1>2 DEF Held
  <1>4. CASE c.end # "done"
    <2>1. top_rated' = top_rated /\ score_changed' = score_changed
      BY <1>4 DEF Calibrate, rating
    <2>2. \A k \in 1 .. Len(q) : /\ r[k].factor = q[k].factor /\ r[k].scored = q[k].scored
                                 /\ r[k].favored = q[k].favored /\ r[k].trace_mini = q[k].trace_mini
      BY <1>1, <1>4 DEF Calibrates
    <2>3. ASSUME NEW k \in 1 .. Len(q), NEW b \in r[k].scored
          PROVE  top_rated[b] # 0 /\ r[top_rated[b]].factor <= r[k].factor
      <3>1. b \in q[k].scored /\ b \in Byte
        BY <1>2, <2>2, <2>3
      <3>2. top_rated[b] # 0 /\ q[top_rated[b]].factor <= q[k].factor
        BY <3>1 DEF Cheap
      <3>3. top_rated[b] \in 1 .. Len(q)
        BY <1>3, <3>1, <3>2
      <3>. QED BY <2>2, <3>2, <3>3
    <2>5. Cheap(r, top_rated)
      BY <2>3 DEF Cheap
    <2>4. CoveredBy(q, top_rated) => CoveredBy(r, top_rated)
      BY <2>2 DEF CoveredBy
    <2>. QED BY <2>1, <2>4, <2>5
  <1>5. CASE c.end = "done"
    <2> DEFINE t   == LastOf(c).trace
               won == Wins(q, i, t, c.factor)
    <2>1. /\ top_rated' = [b \in Byte |-> IF b \in won THEN i ELSE top_rated[b]]
          /\ score_changed' = (score_changed \/ won # {})
      BY <1>5 DEF Calibrate, NewWinner
    <2>2. won = {b \in BytesOf(t) : top_rated[b] = 0 \/ c.factor <= q[top_rated[b]].factor}
      BY DEF Wins
    <2>3. /\ c.factor \in Nat /\ BytesOf(t) \in SUBSET Byte
      BY CalibrationType, QueueAssumption DEF BytesOf
    <2>4. /\ r[i].factor = c.factor /\ r[i].scored = BytesOf(t)
          /\ \A k \in (1 .. Len(q)) \ {i} : r[k].factor = q[k].factor /\ r[k].scored = q[k].scored
          /\ \A k \in 1 .. Len(q) : r[k].favored = q[k].favored
          /\ won = {} => \A k \in 1 .. Len(q) : r[k].trace_mini = q[k].trace_mini
      BY <1>1, <1>5 DEF Calibrates
    <2> HIDE DEF t, won
    <2>5. ASSUME NEW k \in 1 .. Len(q), NEW b \in r[k].scored
          PROVE  top_rated'[b] # 0 /\ r[top_rated'[b]].factor <= r[k].factor
      <3>1. b \in Byte
        BY <1>2, <2>3, <2>4, <2>5
      <3>2. CASE b \in won
        <4>1. top_rated'[b] = i /\ i # 0
          BY <1>2, <2>1, <3>1, <3>2
        <4>2. CASE k = i
          BY <2>3, <2>4, <4>1, <4>2
        <4>3. CASE k # i
          <5>1. b \in q[k].scored
            BY <2>4, <2>5, <4>3
          <5>2. top_rated[b] # 0 /\ q[top_rated[b]].factor <= q[k].factor
            BY <5>1 DEF Cheap
          <5>3. c.factor <= q[top_rated[b]].factor
            BY <2>2, <3>2, <5>2
          <5>4. q[top_rated[b]].factor \in Nat /\ q[k].factor \in Nat
            BY <1>2, <1>3, <3>1, <5>2
          <5>. QED BY <2>3, <2>4, <4>1, <4>3, <5>2, <5>3, <5>4
        <4>. QED BY <4>2, <4>3
      <3>3. CASE b \notin won
        <4>1. top_rated'[b] = top_rated[b]
          BY <2>1, <3>1, <3>3
        <4>2. CASE k = i
          <5>1. b \in BytesOf(t)
            BY <2>4, <2>5, <4>2
          <5>2. top_rated[b] # 0 /\ ~(c.factor <= q[top_rated[b]].factor)
            BY <2>2, <3>3, <5>1
          <5>3. top_rated[b] \in (1 .. Len(q)) \ {i}
            BY <1>3, <3>1, <5>2
          <5>. QED BY <1>2, <2>3, <2>4, <4>1, <4>2, <5>2, <5>3
        <4>3. CASE k # i
          <5>1. b \in q[k].scored
            BY <2>4, <2>5, <4>3
          <5>2. top_rated[b] # 0 /\ q[top_rated[b]].factor <= q[k].factor
            BY <5>1 DEF Cheap
          <5>3. top_rated[b] \in (1 .. Len(q)) \ {i}
            BY <1>3, <3>1, <5>2
          <5>. QED BY <2>4, <4>1, <4>3, <5>2, <5>3
        <4>. QED BY <4>2, <4>3
      <3>. QED BY <3>2, <3>3
    <2>6. Cheap(r, top_rated')
      BY <2>5 DEF Cheap
    <2>7. ASSUME ~score_changed' PROVE CoveredBy(r, top_rated')
      <3>1. ~score_changed /\ won = {}
        BY <2>1, <2>7
      <3>2. \A b \in Byte : top_rated'[b] = top_rated[b]
        BY <2>1, <3>1
      <3>3. CoveredBy(q, top_rated)
        BY <3>1
      <3>. QED BY <2>4, <3>1, <3>2, <3>3 DEF CoveredBy
    <2>. QED BY <2>6, <2>7
  <1>. QED BY <1>4, <1>5

\* What is said of the counters and of the positions together.
Books == Counted /\ Cover

\* What QueueInv says of the entries before and after a step.
LEMMA QueueTypes ==
    ASSUME QueueInv
    PROVE  /\ queue \in Seq(QueueEntry) /\ Len(queue) \in Nat /\ DOMAIN queue = 1 .. Len(queue)
           /\ top_rated \in [Byte -> 0 .. Len(queue)] /\ score_changed \in BOOLEAN
           /\ seen \in [Byte -> SUBSET Nat]
  <1>1. /\ queue \in Seq(QueueEntry) /\ score_changed \in BOOLEAN /\ seen \in [Byte -> SUBSET Nat]
        /\ top_rated \in [Byte -> 0 .. Len(queue)]
    BY DEF QueueInv, TypeOK
  <1>. QED BY <1>1

\* A calibration at the beginning of a turn keeps the books.
LEMMA RecalibrateBooks ==
    ASSUME QueueInv, QueueInv', Books, Recalibrate
    PROVE  Books'
  <1>1. PICK c \in Calibration :
              /\ Calibrate(queue, queue_cur, seen, c)
              /\ Widen(Drawn(c))
              /\ queue' = Calibrated(queue, queue_cur, seen, c)
              /\ queued_with_cov' = queued_with_cov
                     + IF queue'[queue_cur].has_new_cov /\ ~queue[queue_cur].has_new_cov THEN 1 ELSE 0
    BY DEF Recalibrate
  <1>2. /\ queue \in Seq(QueueEntry) /\ queue_cur \in 1 .. Len(queue)
        /\ top_rated \in [Byte -> 0 .. Len(queue)] /\ score_changed \in BOOLEAN
    <2>1. queue_cur \in 0 .. Len(queue) /\ queue_cur # 0
      BY DEF QueueInv, TypeOK, AtHand, Recalibrate
    <2>. QED BY <2>1, QueueTypes
  <1>3. queue[queue_cur].cal_failed < CalChances /\ Held(top_rated, queue_cur) = {}
    <2>1. queue[queue_cur].cal_failed \in 1 .. CalChances - 1
      BY DEF Recalibrate, MayCalibrate
    <2>. QED BY <1>2, <2>1, QueueAssumption DEF QueueInv, Unrated
  <1>4. queue' \in Seq(QueueEntry) /\ Len(queue') = Len(queue)
    <2>1. Tried(queue, queue_cur, c, queue', Top(queue, queue_cur, c))
      BY <1>1, <1>2, <1>3, CalibratedKeeps DEF QueueInv
    <2>. QED BY <2>1 DEF Tried
  <1>5. Calibrates(queue, queue_cur, c, queue')
    BY <1>1, <1>2, <1>3, CalibratedFields
  <1>6. /\ Favored(queue') = Favored(queue) /\ FavoredLeft(queue') = FavoredLeft(queue)
        /\ Cardinality(Covering(queue')) = Cardinality(Covering(queue))
              + IF queue'[queue_cur].has_new_cov /\ ~queue[queue_cur].has_new_cov THEN 1 ELSE 0
        /\ Cardinality(Variable(queue')) = Cardinality(Variable(queue))
              + IF queue'[queue_cur].var_behavior /\ ~queue[queue_cur].var_behavior THEN 1 ELSE 0
    BY <1>2, <1>4, <1>5, CalibratedCounts
  <1>7. /\ pending_favored' = pending_favored /\ queued_favored' = queued_favored
        /\ queued_variable' = queued_variable
              + IF queue'[queue_cur].var_behavior /\ ~queue[queue_cur].var_behavior THEN 1 ELSE 0
        /\ pc' = "fuzz"
    BY <1>1 DEF Recalibrate, Calibrate
  <1>8. Counted'
    <2>1. /\ pending_favored = Cardinality(FavoredLeft(queue))
          /\ queued_favored = Cardinality(Favored(queue))
          /\ queued_with_cov = Cardinality(Covering(queue))
          /\ queued_variable = Cardinality(Variable(queue))
      BY DEF Books, Counted
    <2>. QED BY <1>1, <1>6, <1>7, <2>1 DEF Counted
  <1>9. Cover'
    <2>1. Cheap(queue, top_rated) /\ (~score_changed => CoveredBy(queue, top_rated))
      BY DEF Books, Cover
    <2>2. Cheap(queue', top_rated') /\ (~score_changed' => CoveredBy(queue', top_rated'))
      BY <1>1, <1>2, <1>3, <1>4, <2>1, CalibratedCover
    <2>. QED BY <2>2 DEF Cover
  <1>. QED BY <1>8, <1>9 DEF Books

\* The dry run of an entry does, whether it is given up or not.
LEMMA DryRunBooks ==
    ASSUME QueueInv, QueueInv', Books, DryRun
    PROVE  Books'
  <1>1. PICK c \in Calibration :
              LET r == Calibrated(queue, queue_cur, seen, c) IN
              /\ Calibrate(queue, queue_cur, seen, c)
              /\ queue' = IF c.end \in Tolerated
                          THEN [r EXCEPT ![queue_cur].cal_failed = CalChances] ELSE r
              /\ queued_with_cov' = queued_with_cov + IF r[queue_cur].has_new_cov THEN 1 ELSE 0
              /\ IF c.end \in {"done", "stop"} \cup Tolerated
                 THEN IF queue_cur = Seeds \/ c.end = "stop"
                      THEN /\ pc' = IF cal_failures' = Seeds THEN "fatal" ELSE "started"
                           /\ queue_cur' = 0
                      ELSE queue_cur' = queue_cur + 1 /\ UNCHANGED pc
                 ELSE pc' = "fatal" /\ UNCHANGED queue_cur
    BY DEF DryRun
  <1> DEFINE r == Calibrated(queue, queue_cur, seen, c)
             i == queue_cur
  <1>2. /\ i \in 1 .. Seeds /\ Len(queue) = Seeds /\ Seeds \in Nat
        /\ \A k \in i .. Seeds :
              queue[k].cal_failed = 0 /\ Held(top_rated, k) = {} /\ ~queue[k].has_new_cov
    BY QueueAssumption DEF DryRun, QueueInv, AtHand, Books, Counted
  <1>3. /\ queue \in Seq(QueueEntry) /\ i \in 1 .. Len(queue) /\ i \in i .. Seeds
        /\ top_rated \in [Byte -> 0 .. Len(queue)] /\ score_changed \in BOOLEAN
    BY <1>2, QueueTypes
  <1>4. /\ queue[i].cal_failed < CalChances /\ Held(top_rated, i) = {}
        /\ ~queue[i].has_new_cov
    BY <1>2, <1>3, QueueAssumption
  <1>5. r \in Seq(QueueEntry) /\ Len(r) = Len(queue)
    <2>1. Tried(queue, i, c, r, Top(queue, i, c))
      BY <1>1, <1>3, <1>4, CalibratedKeeps DEF QueueInv
    <2>. QED BY <2>1 DEF Tried
  <1>6. Calibrates(queue, i, c, r)
    BY <1>3, <1>4, CalibratedFields
  <1>7. /\ Favored(r) = Favored(queue) /\ FavoredLeft(r) = FavoredLeft(queue)
        /\ Cardinality(Covering(r)) = Cardinality(Covering(queue))
              + IF r[i].has_new_cov /\ ~queue[i].has_new_cov THEN 1 ELSE 0
        /\ Cardinality(Variable(r)) = Cardinality(Variable(queue))
              + IF r[i].var_behavior /\ ~queue[i].var_behavior THEN 1 ELSE 0
    <2> HIDE DEF r, i
    <2>. QED BY <1>3, <1>5, <1>6, CalibratedCounts
  <1>8. Cheap(r, top_rated') /\ (~score_changed' => CoveredBy(r, top_rated'))
    <2>1. Cheap(queue, top_rated) /\ (~score_changed => CoveredBy(queue, top_rated))
      BY DEF Books, Cover
    <2>. QED BY <1>1, <1>3, <1>4, <1>5, <2>1, CalibratedCover
  <1>9. /\ queued_variable' = queued_variable
              + IF r[i].var_behavior /\ ~queue[i].var_behavior THEN 1 ELSE 0
        /\ pending_favored' = pending_favored /\ queued_favored' = queued_favored
        /\ queued_with_cov' = queued_with_cov + IF r[i].has_new_cov THEN 1 ELSE 0
    BY <1>1 DEF DryRun, Calibrate
  <1>10. queue' = r \/ queue' = [r EXCEPT ![i].cal_failed = CalChances]
    BY <1>1
  <1>11. pc' = "dry run" => queue_cur' = i + 1
    BY <1>1
  <1> HIDE DEF r, i
  <1>12. /\ Len(queue') = Len(r)
         /\ \A k \in 1 .. Len(r) :
               /\ queue'[k].was_fuzzed = r[k].was_fuzzed /\ queue'[k].favored = r[k].favored
               /\ queue'[k].has_new_cov = r[k].has_new_cov
               /\ queue'[k].var_behavior = r[k].var_behavior
               /\ queue'[k].factor = r[k].factor /\ queue'[k].scored = r[k].scored
               /\ queue'[k].trace_mini = r[k].trace_mini
    <2>1. CASE queue' = r
      BY <2>1
    <2>2. CASE queue' = [r EXCEPT ![i].cal_failed = CalChances]
      <3> DEFINE g == [r[i] EXCEPT !.cal_failed = CalChances]
      <3>1. queue' = [r EXCEPT ![i] = g] /\ r[i] \in QueueEntry
        BY <1>3, <1>5, <2>2
      <3>2. /\ g.was_fuzzed = r[i].was_fuzzed /\ g.favored = r[i].favored
            /\ g.has_new_cov = r[i].has_new_cov /\ g.var_behavior = r[i].var_behavior
            /\ g.factor = r[i].factor /\ g.scored = r[i].scored /\ g.trace_mini = r[i].trace_mini
        BY <3>1 DEF QueueEntry
      <3> HIDE DEF g
      <3>. QED BY <1>5, <3>1, <3>2
    <2>. QED BY <1>10, <2>1, <2>2
  <1>13. /\ Favored(queue') = Favored(r) /\ FavoredLeft(queue') = FavoredLeft(r)
         /\ Covering(queue') = Covering(r) /\ Variable(queue') = Variable(r)
    BY <1>12 DEF Favored, FavoredLeft, Covering, Variable
  <1>14. Counted'
    <2>1. /\ pending_favored = Cardinality(FavoredLeft(queue))
          /\ queued_favored = Cardinality(Favored(queue))
          /\ queued_with_cov = Cardinality(Covering(queue))
          /\ queued_variable = Cardinality(Variable(queue))
      BY DEF Books, Counted
    <2>2. ASSUME pc' = "dry run", NEW k \in queue_cur' .. Seeds PROVE ~queue'[k].has_new_cov
      <3>1. k \in i .. Seeds /\ k \in (1 .. Len(queue)) \ {i} /\ k \in 1 .. Len(r)
        <4>1. /\ i \in 1 .. Seeds /\ Seeds \in Nat /\ Len(queue) = Seeds /\ Len(r) = Seeds
              /\ queue_cur' = i + 1
          BY <1>2, <1>5, <1>11, <2>2
        <4>2. k \in i + 1 .. Seeds
          BY <4>1
        <4>3. k \in Int /\ i < k /\ k <= Seeds /\ 1 <= k
          BY <4>1, <4>2
        <4>4. k \in i .. Seeds /\ k \in 1 .. Seeds /\ k # i
          BY <4>1, <4>3
        <4>. QED BY <4>1, <4>4
      <3>2. r[k].has_new_cov = queue[k].has_new_cov
        BY <1>6, <3>1 DEF Calibrates
      <3>3. queue'[k].has_new_cov = r[k].has_new_cov
        BY <1>12, <3>1
      <3>4. ~queue[k].has_new_cov
        BY <1>2, <3>1
      <3>. QED BY <3>2, <3>3, <3>4
    <2>3. Cardinality(Covering(r)) = queued_with_cov'
      BY <1>4, <1>7, <1>9, <2>1
    <2>. QED BY <1>7, <1>9, <1>13, <2>1, <2>2, <2>3 DEF Counted
  <1>15. Cover'
    <2>1. Cheap(queue', top_rated')
      <3>1. \A b \in Byte : top_rated'[b] # 0 => top_rated'[b] \in 1 .. Len(r)
        <4>1. top_rated' \in [Byte -> 0 .. Len(queue')]
          BY DEF QueueInv, TypeOK
        <4>2. Len(r) \in Nat
          BY <1>5
        <4>. QED BY <1>12, <4>1, <4>2
      <3>2. \A k \in 1 .. Len(r) : r[k].scored \in SUBSET Byte
        <4>1. \A k \in 1 .. Len(r) : r[k] \in QueueEntry
          BY <1>5
        <4>. QED BY <4>1 DEF QueueEntry
      <3>3. ASSUME NEW k \in 1 .. Len(queue'), NEW b \in queue'[k].scored
            PROVE  top_rated'[b] # 0 /\ queue'[top_rated'[b]].factor <= queue'[k].factor
        <4>1. k \in 1 .. Len(r) /\ b \in r[k].scored /\ b \in Byte
          BY <1>12, <3>2, <3>3
        <4>2. top_rated'[b] # 0 /\ r[top_rated'[b]].factor <= r[k].factor
          BY <1>8, <4>1 DEF Cheap
        <4>. QED BY <1>12, <3>1, <4>1, <4>2
      <3>. QED BY <3>3 DEF Cheap
    <2>2. CoveredBy(r, top_rated') => CoveredBy(queue', top_rated')
      BY <1>12 DEF CoveredBy
    <2>. QED BY <1>8, <2>1, <2>2 DEF Cover
  <1>. QED BY <1>14, <1>15 DEF Books

\* So does an entry that is saved and calibrated.
LEMMA SaveBooks ==
    ASSUME QueueInv, QueueInv', Books, Save
    PROVE  Books'
  <1>1. PICK e \in Samples, c \in Calibration :
            LET hnb == HasNewBits(seen, e.trace)
                new == [NewEntry(e.dist, e.trace) EXCEPT !.has_new_cov = hnb = 2]
                q   == Append(queue, new)
            IN /\ Calibrate(q, Len(q), Seen(seen, {e}), c)
               /\ queue' = Calibrated(q, Len(q), Seen(seen, {e}), c)
               /\ queued_with_cov' = queued_with_cov + IF queue'[Len(q)].has_new_cov THEN 1 ELSE 0
    BY DEF Save
  <1> DEFINE cov == HasNewBits(seen, e.trace) = 2
             new == [NewEntry(e.dist, e.trace) EXCEPT !.has_new_cov = cov]
             q   == Append(queue, new)
             i   == Len(q)
             s   == Seen(seen, {e})
  <1>2. /\ new \in QueueEntry /\ new.tc_ref = 0 /\ new.trace_mini = {} /\ new.cal_failed = 0
        /\ ~new.was_fuzzed /\ ~new.favored /\ ~new.var_behavior /\ new.scored = {}
    <2>1. e.trace \in Traces /\ e.dist \in Distance /\ cov \in BOOLEAN /\ 0 \in 0 .. CalChances
      BY QueueAssumption DEF Distance
    <2> HIDE DEF cov
    <2>. QED BY <2>1 DEF QueueEntry, NewEntry
  <1>3. /\ Calibrate(q, i, s, c) /\ queue' = Calibrated(q, i, s, c)
        /\ queued_with_cov' = queued_with_cov + IF queue'[i].has_new_cov THEN 1 ELSE 0
    BY <1>1
  <1>4. /\ queue \in Seq(QueueEntry) /\ Len(queue) \in Nat
        /\ top_rated \in [Byte -> 0 .. Len(queue)] /\ score_changed \in BOOLEAN
        /\ Keeps(queue, top_rated) /\ Unrated(queue, top_rated)
    BY QueueTypes DEF QueueInv
  <1> HIDE DEF new
  <1>5. Grown(queue, top_rated, q) /\ q[Len(queue) + 1] = new
    BY <1>2, <1>4, AppendKeeps
  <1> HIDE DEF q, s
  <1>6. /\ q \in Seq(QueueEntry) /\ i = Len(queue) + 1 /\ i \in 1 .. Len(q)
        /\ q[i] = new /\ \A k \in 1 .. Len(queue) : q[k] = queue[k]
        /\ top_rated \in [Byte -> 0 .. Len(q)] /\ Held(top_rated, i) = {}
        /\ Keeps(q, top_rated) /\ Unrated(q, top_rated)
    BY <1>4, <1>5 DEF Grown
  <1>7. /\ \A k \in 1 .. Len(q) : k \in 1 .. Len(queue) \/ k = i
        /\ \A k \in 1 .. Len(queue) : k \in 1 .. Len(q) /\ k # i
        /\ i \notin 1 .. Len(queue)
    BY <1>4, <1>6
  <1>8. q[i].cal_failed < CalChances
    BY <1>2, <1>6, QueueAssumption
  <1>9. queue' \in Seq(QueueEntry) /\ Len(queue') = Len(q)
    <2>1. Tried(q, i, c, queue', Top(q, i, c))
      BY <1>3, <1>6, <1>8, CalibratedKeeps
    <2>. QED BY <2>1 DEF Tried
  <1>10. Calibrates(q, i, c, queue')
    BY <1>3, <1>6, <1>8, CalibratedFields
  <1>11. /\ Favored(queue') = Favored(q) /\ FavoredLeft(queue') = FavoredLeft(q)
         /\ Cardinality(Covering(queue')) = Cardinality(Covering(q))
               + IF queue'[i].has_new_cov /\ ~q[i].has_new_cov THEN 1 ELSE 0
         /\ Cardinality(Variable(queue')) = Cardinality(Variable(q))
               + IF queue'[i].var_behavior /\ ~q[i].var_behavior THEN 1 ELSE 0
    <2> HIDE DEF i
    <2>. QED BY <1>6, <1>9, <1>10, CalibratedCounts
  <1>12. /\ Favored(q) = Favored(queue) /\ FavoredLeft(q) = FavoredLeft(queue)
         /\ Variable(q) = Variable(queue)
         /\ Covering(q) = Covering(queue) \cup (IF q[i].has_new_cov THEN {i} ELSE {})
    BY <1>2, <1>6, <1>7 DEF Favored, FavoredLeft, Variable, Covering
  <1>13. Cardinality(Covering(q)) = Cardinality(Covering(queue)) + IF q[i].has_new_cov THEN 1 ELSE 0
    <2>1. IsFiniteSet(Covering(queue)) /\ Cardinality(Covering(queue)) \in Nat
      <3>1. Covering(queue) \in SUBSET (1 .. Len(queue))
        BY DEF Covering
      <3>. QED BY <1>4, <3>1, IndexSets
    <2>2. i \notin Covering(queue)
      BY <1>7 DEF Covering
    <2> HIDE DEF i
    <2>3. CASE q[i].has_new_cov
      BY <1>12, <2>1, <2>2, <2>3, FS_AddElement
    <2>4. CASE ~q[i].has_new_cov
      BY <1>12, <2>1, <2>4
    <2>. QED BY <2>3, <2>4
  <1>14. /\ pending_favored' = pending_favored /\ queued_favored' = queued_favored
         /\ queued_variable' = queued_variable
               + IF queue'[i].var_behavior /\ ~q[i].var_behavior THEN 1 ELSE 0
         /\ pc' = pc /\ pc \in {"fuzz", "sync"}
    BY <1>3 DEF Save, Calibrate
  <1>15. q[i].has_new_cov => queue'[i].has_new_cov
    BY <1>10 DEF Calibrates
  <1> HIDE DEF i
  <1>16. Counted'
    <2>1. /\ pending_favored = Cardinality(FavoredLeft(queue))
          /\ queued_favored = Cardinality(Favored(queue))
          /\ queued_with_cov = Cardinality(Covering(queue))
          /\ queued_variable = Cardinality(Variable(queue))
      BY DEF Books, Counted
    <2>2. queued_with_cov' = Cardinality(Covering(queue'))
      <3>1. Cardinality(Covering(queue)) \in Nat
        <4>1. Covering(queue) \in SUBSET (1 .. Len(queue))
          BY DEF Covering
        <4>. QED BY <1>4, <4>1, IndexSets
      <3> DEFINE a == Cardinality(Covering(queue))
                 d == Cardinality(Covering(q))
                 z == Cardinality(Covering(queue'))
      <3>2. /\ a \in Nat /\ queued_with_cov' = a + (IF queue'[i].has_new_cov THEN 1 ELSE 0)
            /\ d = a + (IF q[i].has_new_cov THEN 1 ELSE 0)
            /\ z = d + (IF queue'[i].has_new_cov /\ ~q[i].has_new_cov THEN 1 ELSE 0)
        BY <1>3, <1>11, <1>13, <2>1, <3>1
      <3> HIDE DEF a, d, z
      <3>3. queued_with_cov' = z
        BY <1>15, <3>2
      <3>. QED BY <3>3 DEF z
    <2>3. queued_variable' = Cardinality(Variable(queue'))
      BY <1>11, <1>12, <1>14, <2>1
    <2>. QED BY <1>11, <1>12, <1>14, <2>1, <2>2, <2>3 DEF Counted
  <1>17. Cover'
    <2>1. Cheap(queue, top_rated) /\ (~score_changed => CoveredBy(queue, top_rated))
      BY DEF Books, Cover
    <2>2. Cheap(q, top_rated)
      <3>1. ASSUME NEW k \in 1 .. Len(q), NEW b \in q[k].scored
            PROVE  top_rated[b] # 0 /\ q[top_rated[b]].factor <= q[k].factor
        <4>1. k \in 1 .. Len(queue) /\ q[k] = queue[k] /\ q[k] \in QueueEntry
          BY <1>2, <1>6, <1>7, <3>1
        <4>2. b \in Byte
          BY <3>1, <4>1 DEF QueueEntry
        <4>3. top_rated[b] # 0 /\ queue[top_rated[b]].factor <= queue[k].factor
          BY <2>1, <3>1, <4>1 DEF Cheap
        <4>4. top_rated[b] \in 1 .. Len(queue)
          BY <1>4, <4>2, <4>3
        <4>. QED BY <1>6, <4>1, <4>3, <4>4
      <3>. QED BY <3>1 DEF Cheap
    <2>3. CoveredBy(queue, top_rated) => CoveredBy(q, top_rated)
      <3> SUFFICES ASSUME CoveredBy(queue, top_rated), NEW b \in Byte, top_rated[b] # 0
                   PROVE  \E k \in 1 .. Len(q) : q[k].favored /\ b \in q[k].trace_mini
        BY DEF CoveredBy
      <3>1. PICK k \in 1 .. Len(queue) : queue[k].favored /\ b \in queue[k].trace_mini
        BY DEF CoveredBy
      <3>2. k \in 1 .. Len(q) /\ q[k] = queue[k]
        BY <1>6, <1>7
      <3>. QED BY <3>1, <3>2
    <2>4. Cheap(queue', top_rated') /\ (~score_changed' => CoveredBy(queue', top_rated'))
      BY <1>3, <1>4, <1>6, <1>8, <1>9, <2>1, <2>2, <2>3, CalibratedCover
    <2>. QED BY <2>4 DEF Cover
  <1>. QED BY <1>16, <1>17 DEF Books

\* cull_queue favors one entry per grabbed position, and covers what is held.
LEMMA CullBooks ==
    ASSUME QueueInv, QueueInv', Books, Start \/ BeginTurn
    PROVE  Books'
  <1>1. /\ CullQueue /\ pc' # "dry run"
        /\ queued_with_cov' = queued_with_cov /\ queued_variable' = queued_variable
    BY DEF Start, BeginTurn
  <1>2. /\ queue \in Seq(QueueEntry) /\ Len(queue) \in Nat /\ DOMAIN queue = 1 .. Len(queue)
        /\ top_rated \in [Byte -> 0 .. Len(queue)] /\ score_changed \in BOOLEAN
    BY QueueTypes
  <1>3. /\ Counted /\ Cheap(queue, top_rated)
        /\ ~score_changed => CoveredBy(queue, top_rated)
    BY DEF Books, Cover
  <1>4. CASE ~score_changed
    <2>1. /\ queue' = queue /\ top_rated' = top_rated /\ score_changed' = score_changed
          /\ queued_favored' = queued_favored /\ pending_favored' = pending_favored
      BY <1>1, <1>4 DEF CullQueue, rating
    <2>. QED BY <1>1, <1>3, <2>1 DEF Counted, Cover, Books
  <1>5. CASE score_changed
    <2> DEFINE fav(k) == \E b \in Grabbed : top_rated[b] = k
               G      == {b \in Grabbed : ~queue[top_rated[b]].was_fuzzed}
    <2>1. /\ top_rated' = top_rated
          /\ queue' = [k \in DOMAIN queue |-> [queue[k] EXCEPT !.favored = fav(k)]]
          /\ queued_favored' = Cardinality(Grabbed)
          /\ pending_favored' = Cardinality(G)
      BY <1>1, <1>5 DEF CullQueue
    <2>2. /\ Grabbed \in SUBSET Byte /\ G \in SUBSET Grabbed
          /\ \A b \in Grabbed : top_rated[b] \in 1 .. Len(queue)
      BY <1>2 DEF Grabbed
    <2>3. \A k \in 1 .. Len(queue) : fav(k) \in BOOLEAN /\ (fav(k) <=> \E b \in Grabbed : top_rated[b] = k)
      OBVIOUS
    <2> HIDE DEF fav
    <2>4. ASSUME NEW k \in 1 .. Len(queue)
          PROVE  /\ queue'[k].was_fuzzed = queue[k].was_fuzzed /\ queue'[k].favored = fav(k)
                 /\ queue'[k].has_new_cov = queue[k].has_new_cov
                 /\ queue'[k].var_behavior = queue[k].var_behavior
                 /\ queue'[k].factor = queue[k].factor /\ queue'[k].scored = queue[k].scored
                 /\ queue'[k].trace_mini = queue[k].trace_mini
      <3> DEFINE e == queue[k]
                 f == fav(k)
                 x == queue'[k]
      <3>1. x = [e EXCEPT !.favored = f] /\ e \in QueueEntry /\ f \in BOOLEAN
        BY <1>2, <2>1, <2>3
      <3> HIDE DEF e, f, x
      <3>2. /\ x.was_fuzzed = e.was_fuzzed /\ x.favored = f
            /\ x.has_new_cov = e.has_new_cov /\ x.var_behavior = e.var_behavior
            /\ x.factor = e.factor /\ x.scored = e.scored /\ x.trace_mini = e.trace_mini
        BY <3>1 DEF QueueEntry
      <3>. QED BY <3>2 DEF e, f, x
    <2>5. Len(queue') = Len(queue)
      BY <1>2, <2>1
    <2>6. /\ Favored(queue') = {k \in 1 .. Len(queue) : fav(k)}
          /\ FavoredLeft(queue') = {k \in 1 .. Len(queue) : fav(k) /\ ~queue[k].was_fuzzed}
          /\ Covering(queue') = Covering(queue) /\ Variable(queue') = Variable(queue)
      BY <2>4, <2>5 DEF Favored, FavoredLeft, Covering, Variable
    <2>7. IsFiniteSet(Grabbed) /\ IsFiniteSet(G)
      BY <2>2, ByteSets
    <2>8. \A a, b \in Grabbed : top_rated[a] = top_rated[b] => a = b
      BY GrabbedOnce
    <2>9. Cardinality(Grabbed) = Cardinality(Favored(queue'))
      <3> DEFINE g == [b \in Grabbed |-> top_rated[b]]
                 F == Favored(queue')
      <3>1. \A b \in Grabbed : top_rated[b] \in F
        BY <2>2, <2>3, <2>6
      <3>2. \A k \in F : \E b \in Grabbed : top_rated[b] = k
        BY <2>3, <2>6
      <3> HIDE DEF F
      <3>3. g \in Bijection(Grabbed, F)
        <4>1. g \in [Grabbed -> F] /\ \A a, b \in Grabbed : g[a] = g[b] => a = b
          BY <2>8, <3>1
        <4>2. \A k \in F : \E b \in Grabbed : g[b] = k
          BY <3>2
        <4> HIDE DEF g
        <4>3. g \in Surjection(Grabbed, F)
          BY <4>1, <4>2 DEF Surjection
        <4>4. g \in Injection(Grabbed, F)
          BY <4>1 DEF Injection, IsInjective
        <4>. QED BY <4>3, <4>4 DEF Bijection
      <3> HIDE DEF g
      <3>4. Cardinality(Grabbed) = Cardinality(F)
        <4>1. ExistsBijection(Grabbed, F)
          BY <3>3 DEF ExistsBijection
        <4>. QED BY <2>7, <4>1, FS_Bijection
      <3>. QED BY <3>4 DEF F
    <2>10. Cardinality(G) = Cardinality(FavoredLeft(queue'))
      <3> DEFINE g == [b \in G |-> top_rated[b]]
                 F == FavoredLeft(queue')
      <3>1. \A b \in G : top_rated[b] \in F
        BY <2>2, <2>3, <2>6
      <3>2. \A k \in F : \E b \in G : top_rated[b] = k
        BY <2>3, <2>6
      <3>3. \A a, b \in G : top_rated[a] = top_rated[b] => a = b
        BY <2>2, <2>8
      <3> HIDE DEF F, G
      <3>4. g \in Bijection(G, F)
        <4>1. g \in [G -> F] /\ \A a, b \in G : g[a] = g[b] => a = b
          BY <3>3, <3>1
        <4>2. \A k \in F : \E b \in G : g[b] = k
          BY <3>2
        <4> HIDE DEF g
        <4>3. g \in Surjection(G, F)
          BY <4>1, <4>2 DEF Surjection
        <4>4. g \in Injection(G, F)
          BY <4>1 DEF Injection, IsInjective
        <4>. QED BY <4>3, <4>4 DEF Bijection
      <3> HIDE DEF g
      <3>5. Cardinality(G) = Cardinality(F)
        <4>1. ExistsBijection(G, F)
          BY <3>4 DEF ExistsBijection
        <4>. QED BY <2>7, <4>1, FS_Bijection
      <3>. QED BY <3>5 DEF F
    <2>11. Counted'
      BY <1>1, <1>3, <2>1, <2>6, <2>9, <2>10 DEF Counted
    <2>12. Cheap(queue', top_rated')
      <3>1. ASSUME NEW k \in 1 .. Len(queue'), NEW b \in queue'[k].scored
            PROVE  top_rated[b] # 0 /\ queue'[top_rated[b]].factor <= queue'[k].factor
        <4>1. k \in 1 .. Len(queue) /\ b \in queue[k].scored /\ queue[k] \in QueueEntry
          BY <1>2, <2>4, <2>5, <3>1
        <4>2. b \in Byte
          BY <4>1 DEF QueueEntry
        <4>3. top_rated[b] # 0 /\ queue[top_rated[b]].factor <= queue[k].factor
          BY <1>3, <4>1 DEF Cheap
        <4>4. top_rated[b] \in 1 .. Len(queue)
          BY <1>2, <4>2, <4>3
        <4>. QED BY <2>4, <4>1, <4>3, <4>4
      <3>. QED BY <2>1, <3>1 DEF Cheap
    <2>13. CoveredBy(queue', top_rated')
      <3> SUFFICES ASSUME NEW b \in Byte, top_rated'[b] # 0
                   PROVE  \E k \in 1 .. Len(queue') : queue'[k].favored /\ b \in queue'[k].trace_mini
        BY DEF CoveredBy
      <3>1. PICK a \in Grabbed : b \in queue[top_rated[a]].trace_mini
        BY <2>1, HeldIsGrabbed
      <3>2. top_rated[a] \in 1 .. Len(queue) /\ fav(top_rated[a])
        BY <2>2, <2>3
      <3>. QED BY <2>4, <2>5, <3>1, <3>2
    <2>. QED BY <2>11, <2>12, <2>13 DEF Cover, Books
  <1>. QED BY <1>2, <1>4, <1>5

\* Steps that count nothing.
LEMMA MoveBooks ==
    ASSUME Books, \/ Skip \/ Pick \/ NextEntry \/ Stop \/ UNCHANGED vars
    PROVE  Books'
  <1>1. /\ queue' = queue /\ top_rated' = top_rated /\ score_changed' = score_changed
        /\ pending_favored' = pending_favored /\ queued_favored' = queued_favored
        /\ queued_with_cov' = queued_with_cov /\ queued_variable' = queued_variable
    BY DEF Skip, Pick, NextEntry, Stop, vars, rating, counters
  <1>2. pc' = "dry run" => pc = "dry run" /\ queue_cur' = queue_cur
    BY DEF Skip, Pick, NextEntry, Stop, Advance, vars
  <1>. QED BY <1>1, <1>2 DEF Books, Counted, Cover

\* The end of a turn: the entry is not counted as pending twice.
LEMMA AbandonBooks ==
    ASSUME QueueInv, QueueInv', Books, Abandon
    PROVE  Books'
  <1>1. /\ pc' = "sync" /\ queue_cur # 0
        /\ top_rated' = top_rated /\ score_changed' = score_changed
        /\ queued_favored' = queued_favored /\ queued_with_cov' = queued_with_cov
        /\ queued_variable' = queued_variable
    BY DEF Abandon, rating, QueueInv, AtHand
  <1>2. /\ queue \in Seq(QueueEntry) /\ Len(queue) \in Nat /\ queue_cur \in 1 .. Len(queue)
        /\ top_rated \in [Byte -> 0 .. Len(queue)]
    <2>1. queue_cur \in 0 .. Len(queue)
      BY DEF QueueInv, TypeOK
    <2>. QED BY <1>1, <2>1, QueueTypes
  <1>3. Counted /\ Cheap(queue, top_rated) /\ (~score_changed => CoveredBy(queue, top_rated))
    BY DEF Books, Cover
  <1>4. CASE stop_soon \/ queue[queue_cur].cal_failed # 0 \/ queue[queue_cur].was_fuzzed
    <2>1. queue' = queue /\ pending_favored' = pending_favored
      BY <1>4 DEF Abandon
    <2>. QED BY <1>1, <1>3, <2>1 DEF Books, Counted, Cover
  <1>5. CASE ~(stop_soon \/ queue[queue_cur].cal_failed # 0 \/ queue[queue_cur].was_fuzzed)
    <2>1. /\ queue' = [queue EXCEPT ![queue_cur].was_fuzzed = TRUE]
          /\ pending_favored' = pending_favored - IF queue[queue_cur].favored THEN 1 ELSE 0
      BY <1>5 DEF Abandon
    <2> DEFINE e == [queue[queue_cur] EXCEPT !.was_fuzzed = TRUE]
    <2>2. queue' = [queue EXCEPT ![queue_cur] = e] /\ queue[queue_cur] \in QueueEntry
      BY <1>2, <2>1
    <2>3. /\ e.was_fuzzed /\ e.favored = queue[queue_cur].favored
          /\ e.has_new_cov = queue[queue_cur].has_new_cov
          /\ e.var_behavior = queue[queue_cur].var_behavior
          /\ e.factor = queue[queue_cur].factor /\ e.scored = queue[queue_cur].scored
          /\ e.trace_mini = queue[queue_cur].trace_mini
      BY <2>2 DEF QueueEntry
    <2> HIDE DEF e
    <2>4. /\ Len(queue') = Len(queue) /\ queue'[queue_cur] = e
          /\ \A k \in (1 .. Len(queue)) \ {queue_cur} : queue'[k] = queue[k]
      BY <1>2, <2>2
    <2>5. \A k \in 1 .. Len(queue) :
              /\ queue'[k].favored = queue[k].favored
              /\ queue'[k].has_new_cov = queue[k].has_new_cov
              /\ queue'[k].var_behavior = queue[k].var_behavior
              /\ queue'[k].factor = queue[k].factor /\ queue'[k].scored = queue[k].scored
              /\ queue'[k].trace_mini = queue[k].trace_mini
      BY <2>3, <2>4
    <2>6. /\ Favored(queue') = Favored(queue) /\ Covering(queue') = Covering(queue)
          /\ Variable(queue') = Variable(queue)
      BY <2>4, <2>5 DEF Favored, Covering, Variable
    <2>7. /\ FavoredLeft(queue') = FavoredLeft(queue) \ {queue_cur}
          /\ queue_cur \in FavoredLeft(queue) <=> queue[queue_cur].favored
      BY <1>2, <1>5, <2>3, <2>4 DEF FavoredLeft
    <2>8. IsFiniteSet(FavoredLeft(queue)) /\ Cardinality(FavoredLeft(queue)) \in Nat
      <3>1. FavoredLeft(queue) \in SUBSET (1 .. Len(queue))
        BY DEF FavoredLeft
      <3>. QED BY <1>2, <3>1, IndexSets
    <2>9. Cardinality(FavoredLeft(queue')) =
              IF queue[queue_cur].favored THEN Cardinality(FavoredLeft(queue)) - 1
              ELSE Cardinality(FavoredLeft(queue))
      BY <2>7, <2>8, FS_RemoveElement
    <2>10. Counted'
      <3>1. pending_favored = Cardinality(FavoredLeft(queue))
        BY <1>3 DEF Counted
      <3>2. pending_favored' = Cardinality(FavoredLeft(queue'))
        BY <2>1, <2>8, <2>9, <3>1
      <3>. QED BY <1>1, <1>3, <2>6, <3>2 DEF Counted
    <2>11. Cheap(queue', top_rated')
      <3>1. ASSUME NEW k \in 1 .. Len(queue'), NEW b \in queue'[k].scored
            PROVE  top_rated[b] # 0 /\ queue'[top_rated[b]].factor <= queue'[k].factor
        <4>1. k \in 1 .. Len(queue) /\ b \in queue[k].scored /\ queue[k] \in QueueEntry
          BY <1>2, <2>4, <2>5, <3>1
        <4>2. b \in Byte
          BY <4>1 DEF QueueEntry
        <4>3. top_rated[b] # 0 /\ queue[top_rated[b]].factor <= queue[k].factor
          BY <1>3, <4>1 DEF Cheap
        <4>4. top_rated[b] \in 1 .. Len(queue)
          BY <1>2, <4>2, <4>3
        <4>. QED BY <2>5, <4>1, <4>3, <4>4
      <3>. QED BY <1>1, <3>1 DEF Cheap
    <2>12. CoveredBy(queue, top_rated) => CoveredBy(queue', top_rated')
      BY <1>1, <2>4, <2>5 DEF CoveredBy
    <2>. QED BY <1>1, <1>3, <2>10, <2>11, <2>12 DEF Books, Cover
  <1>. QED BY <1>4, <1>5

\* The books of the first queue.
LEMMA InitBooks ==
    ASSUME Init
    PROVE  Books
  <1>1. Seeds \in Nat
    BY QueueAssumption
  <1>2. /\ queue = [i \in 1 .. Seeds |-> NewEntry(NoDistance, NoSum)]
        /\ top_rated = [b \in Byte |-> 0] /\ score_changed = FALSE
        /\ pending_favored = 0 /\ queued_favored = 0 /\ queued_with_cov = 0
        /\ queued_variable = 0 /\ queue_cur = 1
    BY DEF Init
  <1>3. /\ Len(queue) = Seeds
        /\ \A k \in 1 .. Seeds : /\ ~queue[k].favored /\ ~queue[k].has_new_cov
                                 /\ ~queue[k].var_behavior /\ queue[k].scored = {}
    BY <1>1, <1>2 DEF NewEntry
  <1>4. /\ Favored(queue) = {} /\ FavoredLeft(queue) = {} /\ Covering(queue) = {}
        /\ Variable(queue) = {}
    BY <1>3 DEF Favored, FavoredLeft, Covering, Variable
  <1>5. Counted
    BY <1>2, <1>3, <1>4, FS_EmptySet DEF Counted
  <1>6. Cover
    BY <1>2, <1>3 DEF Cover, Cheap, CoveredBy
  <1>. QED BY <1>5, <1>6 DEF Books

\* Every step keeps them.
LEMMA NextBooks ==
    ASSUME QueueInv, QueueInv', Books, [Next]_vars
    PROVE  Books'
  BY DryRunBooks, CullBooks, MoveBooks, RecalibrateBooks, AbandonBooks, SaveBooks DEF Next, Step

\* The invariant of the queue, its counters and its winners.
THEOREM QueueBooks == Spec => []Books
  <1>. QED BY QueueInvariant, InitBooks, NextBooks, PTL DEF Spec

\* The five counters are what a count of the entries gives, though five
\* functions keep them: cull_queue adds one per grabbed position, and two
\* grabbed positions have two winners.
THEOREM QueueCountsAreExact == Spec => []CountsAreExact
  <1>1. ASSUME QueueInv, Books PROVE CountsAreExact
    <2>1. DOMAIN queue = 1 .. Len(queue)
      BY <1>1, QueueTypes
    <2>2. Pending /\ Counted
      BY <1>1 DEF QueueInv, Books
    <2>. QED BY <2>1, <2>2 DEF Pending, Counted, CountsAreExact, NotFuzzed, FavoredLeft, Favored,
                               Covering, Variable
  <1>. QED BY <1>1, QueueInvariant, QueueBooks, PTL

\* A position that a rated entry goes through is held by one that is no more
\* expensive, and is in the trace of a favored one once the queue was culled.
THEOREM QueueFavoredCover == Spec => []FavoredCover
  <1>1. ASSUME QueueInv, Books PROVE FavoredCover
    <2>1. queue \in Seq(QueueEntry) /\ DOMAIN queue = 1 .. Len(queue)
      BY <1>1, QueueTypes
    <2>2. Cheap(queue, top_rated) /\ (~score_changed => CoveredBy(queue, top_rated))
      BY <1>1 DEF Books, Cover
    <2>3. \A k \in 1 .. Len(queue) : queue[k].scored \in SUBSET Byte
      <3>1. \A k \in 1 .. Len(queue) : queue[k] \in QueueEntry
        BY <2>1
      <3>. QED BY <3>1 DEF QueueEntry
    <2> SUFFICES ASSUME NEW b \in UNION {queue[i].scored : i \in DOMAIN queue}
                 PROVE  /\ top_rated[b] # 0
                        /\ \A i \in DOMAIN queue :
                              b \in queue[i].scored => queue[top_rated[b]].factor <= queue[i].factor
                        /\ ~score_changed =>
                              \E i \in DOMAIN queue : queue[i].favored /\ b \in queue[i].trace_mini
      BY DEF FavoredCover
    <2>4. PICK i \in 1 .. Len(queue) : b \in queue[i].scored
      BY <2>1
    <2>5. b \in Byte /\ top_rated[b] # 0
      BY <2>2, <2>3, <2>4 DEF Cheap
    <2>. QED BY <2>1, <2>2, <2>5 DEF Cheap, CoveredBy
  <1>. QED BY <1>1, QueueInvariant, QueueBooks, PTL
=============================================================================
