------------------------ MODULE InstrumentationProofs ------------------------
(***************************************************************************)
(* What the fuzzers' programs are instrumented with. InstrInfo, for every  *)
(* number of children, every table and every bound: the table of distances *)
(* that they share. Distances, for every graph, every set of targets and   *)
(* any units: the calculation that the distances come from.                *)
(***************************************************************************)
EXTENDS InstrInfo, Distances, TLAPS, SequenceTheorems, FiniteSetTheorems, WellFoundedInduction

-----------------------------------------------------------------------------
(* The walk through a table.                                               *)

\* A set of natural numbers that is not empty has a least element.
LEMMA LeastNatural ==
    ASSUME NEW S \in SUBSET Nat, S # {}
    PROVE  Min(S) \in S /\ \A y \in S : Min(S) <= y
<1> DEFINE Less == {ss \in Nat \X Nat : ss[1] < ss[2]}
<1>1. IsWellFoundedOn(Less, Nat)
  BY NatLessThanWellFounded DEF OpToRel
<1>2. PICK x \in S : \A y \in S : ~(<<y, x>> \in Less)
  BY <1>1, WFMin
<1>3. \A y \in S : x <= y
  <2> SUFFICES ASSUME NEW y \in S, ~(x <= y) PROVE FALSE
    OBVIOUS
  <2>1. x \in Nat /\ y \in Nat /\ y < x
    OBVIOUS
  <2>2. <<y, x>> \in Less
    BY <2>1
  <2>3. QED
    BY <1>2, <2>2
<1>4. QED
  BY <1>3 DEF Min

\* It has only one.
LEMMA LeastIsUnique ==
    ASSUME NEW S \in SUBSET Nat, NEW f \in S, \A y \in S : f <= y
    PROVE  Min(S) = f
<1>1. Min(S) \in S /\ Min(S) <= f
  BY LeastNatural
<1>2. f <= Min(S)
  BY <1>1
<1>3. Min(S) \in Nat /\ f \in Nat
  BY <1>1
<1>4. QED
  BY <1>1, <1>2, <1>3

\* get_info answers with the distance of a row.
LEMMA DistanceType ==
    ASSUME NEW rows \in Seq(Rows), NEW p \in Points, Listed(rows, p)
    PROVE  Distance(rows, p) \in 1 .. MaxDistance
<1>1. Found(rows, p) \subseteq DOMAIN rows
  BY DEF Found, Passed
<1>2. DOMAIN rows = 1 .. Len(rows) /\ Len(rows) \in Nat
  BY LenProperties
<1>3. Min(Found(rows, p)) \in 1 .. Len(rows)
  BY <1>1, <1>2, LeastNatural DEF Listed
<1>4. rows[Min(Found(rows, p))] \in Rows
  BY <1>3, ElementOfSeq
<1>5. rows[Min(Found(rows, p))].line # 0
  <2>1. Found(rows, p) \in SUBSET Nat
    BY <1>1, <1>2
  <2>2. Min(Found(rows, p)) \in Found(rows, p)
    BY <2>1, LeastNatural DEF Listed
  <2>3. rows[Min(Found(rows, p))].line = p.line
    BY <2>2 DEF Found
  <2>4. p \in [file : Files, line : Nat \ {0}]
    BY InstrAssumption
  <2>5. QED
    BY <2>3, <2>4
<1>6. QED
  BY <1>4, <1>5 DEF Rows, Distance

\* insert_into_info_list makes a table of a table.
LEMMA InsertType ==
    ASSUME NEW rows \in Seq(Rows), NEW p \in Points, NEW d \in 1 .. MaxDistance
    PROVE  Insert(rows, p, d) \in Seq(Rows)
<1>1. CASE ~HasSection(rows, p.file)
  BY <1>1 DEF Insert
<1>2. CASE HasSection(rows, p.file)
  <2> DEFINE new == [i \in 1 .. Len(rows) + 1 |->
                        IF i \in Passed(rows, p) THEN rows[i]
                        ELSE IF i - 1 \in Passed(rows, p) THEN Row(p.line, d)
                        ELSE rows[i - 1]]
  <2>1. Insert(rows, p, d) = new
    BY <1>2 DEF Insert
  <2>2. /\ Len(rows) \in Nat
        /\ DOMAIN rows = 1 .. Len(rows)
        /\ \A i \in 1 .. Len(rows) : rows[i] \in Rows
    BY LenProperties, ElementOfSeq
  <2>3. Row(p.line, d) \in Rows
    <3>1. p \in [file : Files, line : Nat \ {0}]
      BY InstrAssumption
    <3>2. p.line \in Nat \ {0}
      BY <3>1
    <3>3. QED
      BY <3>2 DEF Row, Rows
  <2>4. Passed(rows, p) \subseteq 1 .. Len(rows)
    BY <2>2 DEF Passed
  <2>5. 1 \in Passed(rows, p)
    <3>1. 1 \in 1 .. Len(rows)
      BY <1>2, <2>2 DEF HasSection
    <3>2. \A j \in 1 .. 1 : ~Behind(rows, p.file, j)
      BY DEF Behind
    <3>3. QED
      BY <2>2, <3>1, <3>2 DEF Passed
  <2>6. \A i \in 1 .. Len(rows) + 1 : new[i] \in Rows
    <3> SUFFICES ASSUME NEW i \in 1 .. Len(rows) + 1 PROVE new[i] \in Rows
      OBVIOUS
    <3>1. CASE i \in Passed(rows, p)
      BY <2>2, <2>4, <3>1
    <3>2. CASE i \notin Passed(rows, p) /\ i - 1 \in Passed(rows, p)
      BY <2>3, <3>2
    <3>3. CASE i \notin Passed(rows, p) /\ i - 1 \notin Passed(rows, p)
      <4>1. i - 1 \in 1 .. Len(rows)
        BY <2>2, <2>5, <3>3
      <4>2. QED
        BY <2>2, <3>3, <4>1
    <3>4. QED
      BY <3>1, <3>2, <3>3
  <2>7. new \in [1 .. Len(rows) + 1 -> Rows]
    BY <2>6
  <2>8. QED
    BY <2>1, <2>2, <2>7
<1>3. QED
  BY <1>1, <1>2

\* What get_info finds is a row behind the section's header, with the lines ahead of
\* it in the section no greater; it is the first such row.
LEMMA LookupFacts ==
    ASSUME NEW rows \in Seq(Rows), NEW q \in Points, Listed(rows, q)
    PROVE  LET f == Min(Found(rows, q))
           IN  /\ f \in Found(rows, q)
               /\ \A g \in Found(rows, q) : f <= g
               /\ f \in 1 .. Len(rows)
               /\ Behind(rows, q.file, f) /\ rows[f].line = q.line
               /\ \A j \in 1 .. f : Behind(rows, q.file, j) => rows[j].line \in 1 .. q.line
<1>1. DOMAIN rows = 1 .. Len(rows) /\ Len(rows) \in Nat
  BY LenProperties
<1>2. Found(rows, q) \in SUBSET Nat
  BY <1>1 DEF Found, Passed
<1>3. /\ Min(Found(rows, q)) \in Found(rows, q)
      /\ \A g \in Found(rows, q) : Min(Found(rows, q)) <= g
  BY <1>2, LeastNatural DEF Listed
<1>4. QED
  BY <1>1, <1>3 DEF Found, Passed

\* A table that agrees with another one up to the row found there gives its answer.
LEMMA PrefixDecides ==
    ASSUME NEW rows \in Seq(Rows), NEW new \in Seq(Rows), NEW q \in Points,
           Listed(rows, q),
           Min(Found(rows, q)) <= Len(new),
           \A i \in 1 .. Min(Found(rows, q)) : new[i] = rows[i]
    PROVE  Listed(new, q) /\ Distance(new, q) = Distance(rows, q)
<1> DEFINE f == Min(Found(rows, q))
<1>1. /\ f \in 1 .. Len(rows)
      /\ Behind(rows, q.file, f) /\ rows[f].line = q.line
      /\ \A j \in 1 .. f : Behind(rows, q.file, j) => rows[j].line \in 1 .. q.line
      /\ \A g \in Found(rows, q) : f <= g
  BY LookupFacts
<1>2. /\ DOMAIN rows = 1 .. Len(rows) /\ Len(rows) \in Nat
      /\ DOMAIN new = 1 .. Len(new) /\ Len(new) \in Nat
  BY LenProperties
<1>3. f \in 1 .. Len(new) /\ \A i \in 1 .. f : new[i] = rows[i]
  BY <1>1, <1>2
<1> HIDE DEF f
<1>4. \A i \in 1 .. f : Behind(new, q.file, i) <=> Behind(rows, q.file, i)
  BY <1>1, <1>2, <1>3 DEF Behind
<1>5. f \in Found(new, q)
  BY <1>1, <1>2, <1>3, <1>4 DEF Found, Passed
<1>6. \A g \in Found(new, q) : f <= g
  <2> SUFFICES ASSUME NEW g \in Found(new, q), g < f PROVE FALSE
    BY <1>1, <1>2 DEF Found, Passed
  <2>1. g \in 1 .. f /\ g \in DOMAIN rows
    BY <1>1, <1>2, <1>3 DEF Found, Passed
  <2>2. g \in Found(rows, q)
    BY <1>1, <1>2, <1>3, <1>4, <2>1 DEF Found, Passed
  <2>3. QED
    BY <1>1, <2>1, <2>2
<1>7. Found(new, q) \in SUBSET Nat
  BY <1>2 DEF Found, Passed
<1>8. Min(Found(new, q)) = f
  BY <1>5, <1>6, <1>7, LeastIsUnique
<1>9. QED
  BY <1>1, <1>3, <1>5, <1>8 DEF Listed, Distance, f

\* insert_into_info_list hides no row from get_info, in whatever order the table is.
LEMMA InsertKeepsLookups ==
    ASSUME NEW rows \in Seq(Rows), NEW p \in Points, NEW q \in Points,
           NEW d \in 1 .. MaxDistance, Listed(rows, q)
    PROVE  /\ Listed(Insert(rows, p, d), q)
           /\ Distance(Insert(rows, p, d), q) = Distance(rows, q)
<1>1. CASE ~HasSection(rows, p.file)
  BY <1>1 DEF Insert
<1>2. CASE HasSection(rows, p.file)
  <2> DEFINE new  == Insert(rows, p, d)
             kept == Passed(rows, p)
             f    == Min(Found(rows, q))
             size == Len(rows)
  <2>1. /\ size \in Nat /\ DOMAIN rows = 1 .. size
        /\ new \in Seq(Rows)
        /\ kept \subseteq 1 .. size
    BY LenProperties, InsertType DEF Passed
  <2>2. new = [i \in 1 .. size + 1 |-> IF i \in kept THEN rows[i]
                                    ELSE IF i - 1 \in kept THEN Row(p.line, d)
                                    ELSE rows[i - 1]]
    BY <1>2 DEF Insert
  <2>3. Len(new) = size + 1 /\ DOMAIN new = 1 .. size + 1
    BY <2>1, <2>2, LenProperties
  <2>4. /\ f \in 1 .. size
        /\ Behind(rows, q.file, f) /\ rows[f].line = q.line
        /\ \A j \in 1 .. f : Behind(rows, q.file, j) => rows[j].line \in 1 .. q.line
        /\ \A g \in Found(rows, q) : f <= g
    BY LookupFacts
  <2>5. \A i \in kept : \A j \in 1 .. i : j \in kept
    BY <2>1 DEF Passed
  <2>6. p.line \in Nat \ {0} /\ q.line \in Nat \ {0}
    <3>1. p \in [file : Files, line : Nat \ {0}] /\ q \in [file : Files, line : Nat \ {0}]
      BY InstrAssumption
    <3>2. QED
      BY <3>1
  <2>7. CASE f \in kept
    <3>1. \A i \in 1 .. f : new[i] = rows[i]
      BY <2>1, <2>2, <2>4, <2>5, <2>7
    <3>2. f <= Len(new)
      BY <2>1, <2>3, <2>4
    <3>3. QED
      BY <2>1, <3>1, <3>2, PrefixDecides
  <2>8. CASE f \notin kept
    <3> DEFINE P == Min({i \in 1 .. f : i \notin kept})
    <3>1. P \in 1 .. f /\ P \notin kept /\ \A i \in 1 .. P - 1 : i \in kept
      <4>1. {i \in 1 .. f : i \notin kept} \in SUBSET Nat /\ f \in {i \in 1 .. f : i \notin kept}
        BY <2>1, <2>4, <2>8
      <4>2. /\ P \in {i \in 1 .. f : i \notin kept}
            /\ \A i \in {j \in 1 .. f : j \notin kept} : P <= i
        BY <4>1, LeastNatural
      <4> HIDE DEF P, kept, f, size
      <4>3. P \in 1 .. f /\ P \notin kept /\ f \in Nat
        BY <2>1, <2>4, <4>2
      <4>4. \A i \in 1 .. P - 1 : i \in kept
        BY <4>2, <4>3
      <4>5. QED
        BY <4>3, <4>4
    <3> HIDE DEF P
    <3>2. P - 1 \in kept
      <4>1. HasSection(rows, p.file) => 1 \in kept
        BY <2>1 DEF Passed, Behind, HasSection
      <4>2. QED
        BY <1>2, <3>1, <4>1
    <3>3. /\ \A i \in 1 .. P - 1 : new[i] = rows[i]
          /\ new[P] = Row(p.line, d)
          /\ \A i \in P + 1 .. size + 1 : new[i] = rows[i - 1]
      <4>1. \A i \in P .. size + 1 : i \notin kept
        BY <2>1, <2>4, <2>5, <3>1
      <4>2. QED
        BY <2>1, <2>2, <2>4, <3>1, <3>2, <4>1
    <3> HIDE DEF new, kept, f, size
    <3>4. /\ P \in 1 .. f /\ f \in 1 .. size /\ size \in Nat
          /\ \A h : rows[h] = Header(q.file) \/ rows[h] = Header(p.file) => rows[h].line = 0
          /\ Row(p.line, d) # Header(q.file) /\ Row(p.line, d).line = p.line
      BY <2>1, <2>4, <2>6, <3>1 DEF Header, Row
    \* The rows behind the section's header are the same ones, moved.
    <3>5. \A i \in 1 .. P : Behind(new, q.file, i) <=> Behind(rows, q.file, i)
      <4> SUFFICES ASSUME NEW i \in 1 .. P
                   PROVE  Behind(new, q.file, i) <=> Behind(rows, q.file, i)
        OBVIOUS
      <4>1. \A h \in 1 .. i - 1 : new[h] = rows[h]
        BY <3>3, <3>4
      <4>2. QED
        BY <4>1 DEF Behind
    <3>6. \A i \in P + 1 .. size + 1 : Behind(new, q.file, i) <=> Behind(rows, q.file, i - 1)
      <4> SUFFICES ASSUME NEW i \in P + 1 .. size + 1
                   PROVE  Behind(new, q.file, i) <=> Behind(rows, q.file, i - 1)
        OBVIOUS
      <4>1. ASSUME NEW h \in 1 .. i - 1, new[h] = Header(q.file)
            PROVE  \E k \in 1 .. i - 2 : rows[k] = Header(q.file)
        <5>1. CASE h < P
          BY <3>3, <3>4, <4>1, <5>1
        <5>2. CASE h = P
          BY <3>3, <3>4, <4>1, <5>2
        <5>3. CASE h > P
          <6>1. rows[h - 1] = Header(q.file) /\ h - 1 \in 1 .. i - 2
            BY <3>3, <3>4, <4>1, <5>3
          <6>2. QED
            BY <6>1
        <5>4. QED
          BY <3>4, <5>1, <5>2, <5>3
      <4>2. ASSUME NEW k \in 1 .. i - 2, rows[k] = Header(q.file)
            PROVE  \E h \in 1 .. i - 1 : new[h] = Header(q.file)
        <5>1. CASE k < P
          BY <3>3, <3>4, <4>2, <5>1
        <5>2. CASE k >= P
          <6>1. new[k + 1] = Header(q.file) /\ k + 1 \in 1 .. i - 1
            BY <3>3, <3>4, <4>2, <5>2
          <6>2. QED
            BY <6>1
        <5>3. QED
          BY <3>4, <5>1, <5>2
      <4>3. i - 1 - 1 = i - 2
        BY <3>4
      <4>4. QED
        BY <4>1, <4>2, <4>3 DEF Behind
    \* The walk to the new row went beyond p's line in p's section.
    <3>7. PICK j \in 1 .. P : Behind(rows, p.file, j) /\ rows[j].line \notin 1 .. p.line
      BY <2>1, <3>1, <3>4 DEF kept, Passed
    \* If the new row is in the section of q, it is a row of an earlier line.
    <3>8. Behind(rows, q.file, P) => q.file = p.file /\ p.line < q.line
      <4> SUFFICES ASSUME Behind(rows, q.file, P)
                   PROVE  q.file = p.file /\ p.line < q.line
        OBVIOUS
      <4>1. PICK h \in 1 .. P - 1 : rows[h] = Header(q.file)
        BY DEF Behind
      <4>2. PICK k \in 1 .. j - 1 : rows[k] = Header(p.file)
        BY <3>7 DEF Behind
      <4>3. CASE q.file = p.file
        BY <2>4, <2>6, <3>4, <3>7, <4>3
      <4>4. CASE q.file # p.file
        <5>1. h # k
          BY <4>1, <4>2, <4>4 DEF Header
        <5>2. CASE k < h
          <6>1. h \in kept /\ Behind(rows, p.file, h)
            BY <3>1, <3>4, <4>1, <4>2, <5>2 DEF Behind
          <6>2. rows[h].line \in 1 .. p.line
            BY <3>4, <6>1 DEF kept, Passed
          <6>3. QED
            BY <3>4, <4>1, <6>2
        <5>3. CASE h < k
          <6>1. k \in 1 .. f /\ Behind(rows, q.file, k)
            BY <3>4, <4>1, <4>2, <5>3 DEF Behind
          <6>2. rows[k].line \in 1 .. q.line
            BY <2>4, <6>1
          <6>3. QED
            BY <3>4, <4>2, <6>2
        <5>4. QED
          BY <3>4, <5>1, <5>2, <5>3
      <4>5. QED
        BY <4>3, <4>4
    <3>9. f + 1 \in Found(new, q)
      <4>1. f + 1 \in P + 1 .. size + 1 /\ new[f + 1] = rows[f] /\ Behind(new, q.file, f + 1)
        BY <2>4, <3>3, <3>4, <3>6
      <4>2. ASSUME NEW i \in 1 .. f + 1, Behind(new, q.file, i)
            PROVE  new[i].line \in 1 .. q.line
        <5>1. CASE i < P
          BY <2>4, <3>3, <3>4, <3>5, <4>2, <5>1
        <5>2. CASE i = P
          BY <2>6, <3>3, <3>4, <3>5, <3>8, <4>2, <5>2
        <5>3. CASE i > P
          <6>1. i - 1 \in 1 .. f /\ new[i] = rows[i - 1] /\ Behind(rows, q.file, i - 1)
            BY <3>3, <3>4, <3>6, <4>2, <5>3
          <6>2. QED
            BY <2>4, <6>1
        <5>4. QED
          BY <3>4, <5>1, <5>2, <5>3
      <4>3. QED
        BY <2>3, <2>4, <3>4, <4>1, <4>2 DEF Found, Passed
    <3>10. \A g \in Found(new, q) : f + 1 <= g
      <4> SUFFICES ASSUME NEW g \in Found(new, q), g < f + 1
                   PROVE  FALSE
        BY <2>3, <3>4 DEF Found, Passed
      <4>1. /\ g \in 1 .. f /\ Behind(new, q.file, g) /\ new[g].line = q.line
            /\ \A i \in 1 .. g : Behind(new, q.file, i) => new[i].line \in 1 .. q.line
        BY <2>3, <3>4 DEF Found, Passed
      <4>2. CASE g < P
        <5>1. g \in Found(rows, q)
          BY <2>1, <3>3, <3>4, <3>5, <4>1, <4>2 DEF Found, Passed
        <5>2. QED
          BY <2>4, <3>4, <4>1, <4>2, <5>1
      <4>3. CASE g = P
        BY <2>6, <3>3, <3>4, <3>5, <3>8, <4>1, <4>3
      <4>4. CASE g > P
        <5>1. ASSUME NEW i \in 1 .. g - 1, Behind(rows, q.file, i)
              PROVE  rows[i].line \in 1 .. q.line
          <6>1. i \in 1 .. f
            BY <3>4, <4>1
          <6>2. QED
            BY <2>4, <5>1, <6>1
        <5>2. g - 1 \in 1 .. size /\ Behind(rows, q.file, g - 1) /\ rows[g - 1].line = q.line
          BY <3>3, <3>4, <3>6, <4>1, <4>4
        <5>3. g - 1 \in Found(rows, q)
          BY <2>1, <5>1, <5>2 DEF Found, Passed
        <5>4. QED
          BY <2>4, <3>4, <4>1, <5>3
      <4>5. QED
        BY <3>4, <4>1, <4>2, <4>3, <4>4
    <3>11. Found(new, q) \in SUBSET Nat
      BY <2>3, <3>4 DEF Found, Passed
    <3>12. Min(Found(new, q)) = f + 1
      BY <3>9, <3>10, <3>11, LeastIsUnique
    <3>13. new[f + 1] = rows[f]
      BY <3>3, <3>4
    <3>14. QED
      BY <3>9, <3>12, <3>13 DEF Listed, Distance, new, f
  <2>9. QED
    BY <2>7, <2>8
<1>3. QED
  BY <1>1, <1>2

-----------------------------------------------------------------------------
(* The inductive invariant.                                                *)

\* What a child has reported is what it has passed: initially.
LEMMA InitReports == Init => ClosestIsLeast /\ CountFollowsHits
<1> SUFFICES ASSUME Init PROVE ClosestIsLeast /\ CountFollowsHits
  OBVIOUS
<1>1. Cardinality({}) = 0
  BY FS_EmptySet
<1>2. QED
  BY <1>1 DEF Init, ClosestIsLeast, CountFollowsHits

\* Initially nobody runs.
LEMMA InitIInv == Init => IInv
<1> SUFFICES ASSUME Init PROVE IInv
  OBVIOUS
<1> USE InstrAssumption DEF Init
<1>1. TypeOK
  <2>1. 0 \in 0 .. CountMod - 1 /\ 0 \in 0 .. MaxKills /\ Unreached \in 0 .. Unreached
    BY DEF Unreached
  <2>2. << >> \in Seq(Rows)
    BY EmptySeq
  <2>3. QED
    BY <2>1, <2>2 DEF TypeOK
<1>2. LockHolderWrites /\ OnlyHolderWrites /\ WritersDoNotMix
  BY DEF LockHolderWrites, OnlyHolderWrites, WritersDoNotMix
<1>3. QED
  BY <1>1, <1>2, InitReports DEF IInv

\* The end of a buffer lies in the table.
LEMMA BufferEnd ==
    ASSUME NEW m \in Nat, NEW n \in Nat
    PROVE  Min({m + BufferRows, n}) \in 0 .. n
<1>1. {m + BufferRows, n} \in SUBSET Nat /\ n \in {m + BufferRows, n}
  BY InstrAssumption
<1>2. Min({m + BufferRows, n}) \in {m + BufferRows, n} /\ Min({m + BufferRows, n}) <= n
  BY <1>1, LeastNatural
<1>3. QED
  BY <1>1, <1>2

\* The rows that are read or written are rows of a table.
LEMMA SubSeqType ==
    ASSUME NEW rows \in Seq(Rows), NEW m \in Nat \ {0}, NEW n \in 0 .. Len(rows)
    PROVE  SubSeq(rows, m, n) \in Seq(Rows)
<1>1. Len(rows) \in Nat
  BY LenProperties
<1>2. \A i \in m .. n : rows[i] \in Rows
  BY <1>1, ElementOfSeq
<1>3. QED
  BY <1>1, <1>2, SubSeqProperties

\* A beginning of a table is a prefix of it.
LEMMA BeginningIsPrefix ==
    ASSUME NEW rows \in Seq(Rows), NEW n \in 0 .. Len(rows)
    PROVE  IsPrefix(SubSeq(rows, 1, n), rows)
<1>1. Len(rows) \in Nat
  BY LenProperties
<1>2. \A i \in 1 .. n : rows[i] \in Rows
  BY <1>1, ElementOfSeq
<1>3. SubSeq(rows, 1, n) \in Seq(Rows) /\ Len(SubSeq(rows, 1, n)) = n
  BY <1>1, <1>2, SubSeqProperties
<1>4. SubSeq(SubSeq(rows, 1, n), 1, n) = SubSeq(rows, 1, n)
  BY <1>3, SubSeqFull
<1>5. QED
  BY <1>1, <1>3, <1>4 DEF IsPrefix

\* Every step keeps the types.
LEMMA TypeStep == ASSUME TypeOK, [Next]_vars PROVE TypeOK'
<1> USE InstrAssumption
<1>1. CASE UNCHANGED vars
  BY <1>1 DEF TypeOK, vars, tracing
<1>2. ASSUME NEW c \in Children, Start(c) PROVE TypeOK'
  <2>1. Unreached \in 0 .. Unreached /\ 0 \in 0 .. CountMod - 1
    BY DEF Unreached
  <2>2. QED
    BY <1>2, <2>1 DEF Start, Goto, TypeOK
<1>3. ASSUME NEW c \in Children, ReadBlock(c) PROVE TypeOK'
  <2> DEFINE end == Min({Len(table[c]) + BufferRows, Len(csv)})
  <2>1. table[c] \in Seq(Rows) /\ csv \in Seq(Rows)
    BY DEF TypeOK
  <2>2. Len(table[c]) \in Nat /\ Len(csv) \in Nat
    BY <2>1, LenProperties
  <2>3. end \in 0 .. Len(csv) /\ Len(table[c]) + 1 \in Nat \ {0}
    <3>1. end \in 0 .. Len(csv)
      BY <2>2, BufferEnd
    <3>2. Len(table[c]) + 1 \in Nat \ {0}
      BY <2>2
    <3>3. QED
      BY <3>1, <3>2
  <2>4. SubSeq(csv, Len(table[c]) + 1, end) \in Seq(Rows)
    <3> HIDE DEF end
    <3>1. QED
      BY <2>1, <2>3, SubSeqType
  <2>5. table[c] \o SubSeq(csv, Len(table[c]) + 1, end) \in Seq(Rows)
    BY <2>1, <2>4, ConcatProperties
  <2>6. QED
    BY <1>3, <2>5 DEF ReadBlock, TypeOK
<1>4. ASSUME NEW c \in Children, EndRead(c) PROVE TypeOK'
  BY <1>4 DEF EndRead, Goto, TypeOK, tracing
<1>5. ASSUME NEW c \in Children, NEW p \in Points, NEW kind \in {"jump", "call", "other"},
             Trace(c, p, kind)
      PROVE  TypeOK'
  <2> DEFINE known == Listed(table[c], p)
             d     == Distance(table[c], p)
             waits == IF kind = "call" /\ ~known THEN p ELSE pending[c]
             learn == waits \notin {NoCall, p} /\ known /\ ~Listed(table[c], waits)
  <2>1. table[c] \in Seq(Rows) /\ pending[c] \in Points \cup {NoCall}
    BY DEF TypeOK
  <2>2. known => d \in 1 .. MaxDistance
    BY <2>1, DistanceType
  <2> HIDE DEF known, d
  <2>3. closest' \in [Children -> 0 .. Unreached] /\ count' \in [Children -> 0 .. CountMod - 1]
    <3>1. CASE known /\ kind # "other"
      <4>1. d \in 0 .. Unreached
        BY <2>2, <3>1 DEF Unreached
      <4>2. (count[c] + 1) % CountMod \in 0 .. CountMod - 1
        <5>1. count[c] \in 0 .. CountMod - 1
          BY DEF TypeOK
        <5>2. QED
          BY <5>1
      <4>3. Report(c, d)
        BY <1>5, <3>1 DEF Trace, known, d
      <4>4. CASE closest[c] > d /\ d > 0
        <5>1. /\ closest' = [closest EXCEPT ![c] = d]
              /\ count' = [count EXCEPT ![c] = (count[c] + 1) % CountMod]
          BY <4>3, <4>4 DEF Report
        <5>2. QED
          BY <4>1, <4>2, <5>1 DEF TypeOK
      <4>5. CASE ~(closest[c] > d /\ d > 0)
        <5>1. UNCHANGED <<closest, count>>
          BY <4>3, <4>5 DEF Report
        <5>2. QED
          BY <5>1 DEF TypeOK
      <4>6. QED
        BY <4>4, <4>5
    <3>2. CASE ~(known /\ kind # "other")
      <4>1. UNCHANGED <<closest, count>>
        BY <1>5, <3>2 DEF Trace, known
      <4>2. QED
        BY <4>1 DEF TypeOK
    <3>3. QED
      BY <3>1, <3>2
  <2>4. hit' \in [Children -> SUBSET (1 .. MaxDistance)]
    <3>1. CASE known /\ kind # "other"
      <4>1. hit' = [hit EXCEPT ![c] = @ \cup {d}]
        BY <1>5, <3>1 DEF Trace, known, d
      <4>2. QED
        BY <2>2, <3>1, <4>1 DEF TypeOK
    <3>2. CASE ~(known /\ kind # "other")
      <4>1. hit' = hit
        BY <1>5, <3>2 DEF Trace, known
      <4>2. QED
        BY <4>1 DEF TypeOK
    <3>3. QED
      BY <3>1, <3>2
  <2>5. waits \in Points \cup {NoCall}
    BY <2>1
  <2>6. pending' \in [Children -> Points \cup {NoCall}]
    <3>1. pending' = [pending EXCEPT ![c] = IF waits = p THEN p ELSE NoCall]
      BY <1>5 DEF Trace, known
    <3>2. QED
      BY <3>1 DEF TypeOK
  <2>7. /\ table' \in [Children -> Seq(Rows)]
        /\ pc' \in [Children -> {"off", "read", "trace", "lock", "open", "write"}]
    <3>1. CASE learn
      <4>1. /\ 2 * d <= MaxDistance
            /\ table' = [table EXCEPT ![c] = Insert(@, waits, 2 * Distance(@, p))]
            /\ Goto(c, "lock")
        BY <1>5, <3>1 DEF Trace, known, d
      <4>2. waits \in Points /\ 2 * d \in 1 .. MaxDistance
        BY <2>2, <2>5, <3>1, <4>1
      <4>3. Insert(table[c], waits, 2 * d) \in Seq(Rows)
        BY <2>1, <4>2, InsertType
      <4> HIDE DEF waits
      <4>4. table' \in [Children -> Seq(Rows)]
        BY <4>1, <4>3 DEF TypeOK, d
      <4>5. QED
        BY <4>1, <4>4 DEF TypeOK, Goto
    <3>2. CASE ~learn
      <4>1. UNCHANGED <<table, pc>>
        BY <1>5, <3>2 DEF Trace, known
      <4>2. QED
        BY <4>1 DEF TypeOK
    <3>3. QED
      BY <3>1, <3>2
  <2>8. UNCHANGED <<csv, lock, kills>>
    BY <1>5 DEF Trace
  <2>9. QED
    BY <2>3, <2>4, <2>6, <2>7, <2>8 DEF TypeOK
<1>6. ASSUME NEW c \in Children, Finish(c) PROVE TypeOK'
  BY <1>6, EmptySeq DEF Finish, Exit, Goto, TypeOK
<1>7. ASSUME NEW c \in Children, Kill(c) PROVE TypeOK'
  BY <1>7, EmptySeq DEF Kill, Exit, Goto, TypeOK
<1>8. ASSUME NEW c \in Children, Lock(c) PROVE TypeOK'
  BY <1>8 DEF Lock, Goto, TypeOK, tracing
<1>9. ASSUME NEW c \in Children, Truncate(c) PROVE TypeOK'
  BY <1>9, EmptySeq DEF Truncate, Goto, TypeOK, tracing
<1>10. ASSUME NEW c \in Children, WriteBlock(c) PROVE TypeOK'
  <2>1. table[c] \in Seq(Rows) /\ csv \in Seq(Rows)
    BY DEF TypeOK
  <2>2. Len(table[c]) \in Nat /\ Len(csv) \in Nat
    BY <2>1, LenProperties
  <2>3. Min({Len(csv) + BufferRows, Len(table[c])}) \in 0 .. Len(table[c])
    BY <2>2, BufferEnd
  <2>4. csv' \in Seq(Rows)
    <3>1. \A n \in 0 .. Len(table[c]) : SubSeq(table[c], 1, n) \in Seq(Rows)
      BY <2>1, SubSeqType
    <3>2. QED
      BY <1>10, <2>3, <3>1 DEF WriteBlock
  <2>5. QED
    BY <1>10, <2>4 DEF WriteBlock, TypeOK, tracing
<1>11. ASSUME NEW c \in Children, CloseAndUnlock(c) PROVE TypeOK'
  BY <1>11 DEF CloseAndUnlock, Goto, TypeOK, tracing
<1>12. QED
  BY <1>1, <1>2, <1>3, <1>4, <1>5, <1>6, <1>7, <1>8, <1>9, <1>10, <1>11 DEF Next

\* Every step keeps it that the lock is with the child that writes, and nobody else.
LEMMA LockStep ==
    ASSUME IInv, [Next]_vars
    PROVE  LockHolderWrites' /\ OnlyHolderWrites'
<1> USE InstrAssumption DEF IInv, LockHolderWrites, OnlyHolderWrites
<1>0. TypeOK
  OBVIOUS
<1>1. CASE UNCHANGED vars
  BY <1>1 DEF vars
<1>2. ASSUME NEW c \in Children, Start(c) \/ EndRead(c)
      PROVE  LockHolderWrites' /\ OnlyHolderWrites'
  BY <1>0, <1>2 DEF Start, EndRead, Goto, TypeOK
<1>3. ASSUME NEW c \in Children, ReadBlock(c) \/ WriteBlock(c)
      PROVE  LockHolderWrites' /\ OnlyHolderWrites'
  BY <1>0, <1>3 DEF ReadBlock, WriteBlock
<1>4. ASSUME NEW c \in Children, NEW p \in Points, NEW kind \in {"jump", "call", "other"},
             Trace(c, p, kind)
      PROVE  LockHolderWrites' /\ OnlyHolderWrites'
  <2>1. pc[c] = "trace" /\ lock' = lock /\ (pc' = pc \/ Goto(c, "lock"))
    BY <1>4 DEF Trace
  <2>2. QED
    BY <1>0, <2>1 DEF Goto, TypeOK
<1>5. ASSUME NEW c \in Children, Finish(c) \/ Kill(c)
      PROVE  LockHolderWrites' /\ OnlyHolderWrites'
  <2>1. /\ pc'[c] = "off" /\ \A e \in Children \ {c} : pc'[e] = pc[e]
        /\ (lock' = lock /\ lock # c) \/ (lock' = None /\ lock = c)
    BY <1>0, <1>5 DEF Finish, Kill, Exit, Goto, TypeOK
  <2>2. QED
    BY <2>1
<1>6. ASSUME NEW c \in Children, Lock(c) \/ Truncate(c) \/ CloseAndUnlock(c)
      PROVE  LockHolderWrites' /\ OnlyHolderWrites'
  BY <1>0, <1>6 DEF Lock, Truncate, CloseAndUnlock, Goto, TypeOK
<1>7. QED
  BY <1>1, <1>2, <1>3, <1>4, <1>5, <1>6 DEF Next

\* Every step keeps the file a beginning of its writer's table.
LEMMA WriterStep == ASSUME IInv, [Next]_vars PROVE WritersDoNotMix'
<1> USE InstrAssumption
<1>0. TypeOK /\ OnlyHolderWrites /\ WritersDoNotMix
  BY DEF IInv
<1>1. CASE UNCHANGED vars
  BY <1>0, <1>1 DEF vars, tracing, WritersDoNotMix
<1>2. ASSUME NEW c \in Children, csv' = csv, pc'[c] # "write",
             \A e \in Children \ {c} : pc'[e] = pc[e] /\ table'[e] = table[e]
      PROVE  WritersDoNotMix'
  BY <1>0, <1>2 DEF WritersDoNotMix
<1>3. ASSUME NEW c \in Children, Truncate(c) PROVE WritersDoNotMix'
  <2> SUFFICES ASSUME NEW e \in Children, pc'[e] = "write" PROVE IsPrefix(csv', table'[e])
    BY DEF WritersDoNotMix
  <2>1. csv' = << >> /\ table' = table /\ table[e] \in Seq(Rows)
    BY <1>0, <1>3 DEF Truncate, TypeOK, tracing
  <2>2. SubSeq(table[e], 1, 0) = << >> /\ Len(table[e]) \in Nat
    BY <2>1, SubSeqEmpty, LenProperties
  <2>3. IsPrefix(SubSeq(table[e], 1, 0), table[e])
    BY <2>1, <2>2, BeginningIsPrefix
  <2>4. QED
    BY <2>1, <2>2, <2>3
<1>4. ASSUME NEW c \in Children, WriteBlock(c) PROVE WritersDoNotMix'
  <2> SUFFICES ASSUME NEW e \in Children, pc'[e] = "write" PROVE IsPrefix(csv', table'[e])
    BY DEF WritersDoNotMix
  <2>1. e = c
    BY <1>0, <1>4 DEF WriteBlock, OnlyHolderWrites
  <2>2. /\ table' = table /\ table[c] \in Seq(Rows) /\ csv \in Seq(Rows)
        /\ csv' = SubSeq(table[c], 1, Min({Len(csv) + BufferRows, Len(table[c])}))
    BY <1>0, <1>4 DEF WriteBlock, TypeOK, tracing
  <2>3. Len(table[c]) \in Nat /\ Len(csv) \in Nat
    BY <2>2, LenProperties
  <2>4. Min({Len(csv) + BufferRows, Len(table[c])}) \in 0 .. Len(table[c])
    BY <2>3, BufferEnd
  <2>5. \A n \in 0 .. Len(table[c]) : IsPrefix(SubSeq(table[c], 1, n), table[c])
    BY <2>2, BeginningIsPrefix
  <2>6. QED
    BY <2>1, <2>2, <2>4, <2>5
<1>5. ASSUME NEW c \in Children,
             \/ Start(c) \/ ReadBlock(c) \/ EndRead(c) \/ Finish(c) \/ Kill(c)
             \/ Lock(c) \/ CloseAndUnlock(c)
      PROVE  WritersDoNotMix'
  <2>1. /\ csv' = csv /\ pc'[c] # "write"
        /\ \A e \in Children \ {c} : pc'[e] = pc[e] /\ table'[e] = table[e]
    BY <1>0, <1>5 DEF Start, ReadBlock, EndRead, Finish, Kill, Exit, Lock, CloseAndUnlock,
                      Goto, TypeOK, tracing
  <2>2. QED
    BY <1>2, <2>1
<1>6. ASSUME NEW c \in Children, NEW p \in Points, NEW kind \in {"jump", "call", "other"},
             Trace(c, p, kind)
      PROVE  WritersDoNotMix'
  <2>1. /\ csv' = csv /\ pc[c] = "trace"
        /\ \/ pc' = pc /\ table' = table
           \/ Goto(c, "lock") /\ \E rows : table' = [table EXCEPT ![c] = rows]
    BY <1>6 DEF Trace
  <2>2. /\ pc'[c] # "write"
        /\ \A e \in Children \ {c} : pc'[e] = pc[e] /\ table'[e] = table[e]
    BY <1>0, <2>1 DEF Goto, TypeOK
  <2>3. QED
    BY <1>2, <2>1, <2>2
<1>7. QED
  BY <1>1, <1>3, <1>4, <1>5, <1>6 DEF Next

\* The least of a set of numbers and one more.
LEMMA LeastOfMore ==
    ASSUME NEW S \in SUBSET Nat, NEW d \in Nat
    PROVE  Min(S \cup {d}) = IF S # {} /\ Min(S) <= d THEN Min(S) ELSE d
<1>1. CASE S # {} /\ Min(S) <= d
  <2>1. Min(S) \in S /\ \A y \in S : Min(S) <= y
    BY <1>1, LeastNatural
  <2>2. S \cup {d} \in SUBSET Nat /\ Min(S) \in S \cup {d} /\ \A y \in S \cup {d} : Min(S) <= y
    BY <1>1, <2>1
  <2>3. QED
    BY <1>1, <2>2, LeastIsUnique
<1>2. CASE S = {} \/ ~(Min(S) <= d)
  <2>1. ASSUME NEW y \in S PROVE d <= y
    <3>1. Min(S) \in S /\ Min(S) <= y
      BY <2>1, LeastNatural
    <3>2. Min(S) \in Nat /\ y \in Nat
      BY <3>1
    <3>3. QED
      BY <1>2, <2>1, <3>1, <3>2
  <2>2. S \cup {d} \in SUBSET Nat /\ d \in S \cup {d} /\ \A y \in S \cup {d} : d <= y
    BY <2>1
  <2>3. QED
    BY <1>2, <2>2, LeastIsUnique
<1>3. QED
  BY <1>1, <1>2

\* update_bitmap, called for a distance below the one in the map, keeps the map at
\* the least one, and the counter within the number of those that were passed.
LEMMA ReportStep ==
    ASSUME TypeOK, ClosestIsLeast, CountFollowsHits,
           NEW c \in Children, NEW d \in 1 .. MaxDistance,
           Report(c, d), hit' = [hit EXCEPT ![c] = @ \cup {d}]
    PROVE  ClosestIsLeast' /\ CountFollowsHits'
<1> USE InstrAssumption
<1>1. /\ hit[c] \in SUBSET Nat /\ hit[c] \in SUBSET (1 .. MaxDistance)
      /\ closest[c] \in 0 .. Unreached /\ count[c] \in 0 .. CountMod - 1
      /\ d \in Nat /\ Unreached \in Nat /\ d < Unreached
  BY DEF TypeOK, Unreached
<1>2. IsFiniteSet(hit[c])
  <2>1. IsFiniteSet(1 .. MaxDistance)
    BY FS_Interval
  <2>2. QED
    BY <1>1, <2>1, FS_Subset
<1>3. /\ Cardinality(hit[c]) \in Nat
      /\ Cardinality(hit'[c]) =
            IF d \in hit[c] THEN Cardinality(hit[c]) ELSE Cardinality(hit[c]) + 1
  <2>1. hit'[c] = hit[c] \cup {d}
    BY DEF TypeOK
  <2>2. /\ Cardinality(hit[c]) \in Nat
        /\ Cardinality(hit[c] \cup {d}) =
              IF d \in hit[c] THEN Cardinality(hit[c]) ELSE Cardinality(hit[c]) + 1
    BY <1>2, FS_CardinalityType, FS_AddElement
  <2>3. QED
    BY <2>1, <2>2, Zenon
<1>4. closest[c] = IF hit[c] = {} THEN Unreached ELSE Min(hit[c])
  BY DEF ClosestIsLeast
<1>5. hit'[c] = hit[c] \cup {d}
  BY DEF TypeOK
<1>6. Min(hit'[c]) = IF closest[c] > d THEN d ELSE closest[c]
  <2>1. Min(hit[c] \cup {d}) =
          IF hit[c] # {} /\ Min(hit[c]) <= d THEN Min(hit[c]) ELSE d
    BY <1>1, LeastOfMore
  <2>2. Min(hit'[c]) = IF hit[c] # {} /\ Min(hit[c]) <= d THEN Min(hit[c]) ELSE d
    BY <1>5, <2>1, Zenon
  <2>3. QED
    BY <1>1, <1>4, <2>2
<1>7. \A e \in Children \ {c} : hit'[e] = hit[e] /\ closest'[e] = closest[e] /\ count'[e] = count[e]
  BY DEF Report, TypeOK
<1>8. closest'[c] = IF closest[c] > d THEN d ELSE closest[c]
  BY <1>1 DEF Report, TypeOK
<1>9. ClosestIsLeast'
  BY <1>5, <1>6, <1>7, <1>8 DEF ClosestIsLeast
<1>10. ASSUME Cardinality(hit'[c]) < CountMod
       PROVE  count'[c] <= Cardinality(hit'[c]) /\ count'[c] # 0
  <2>1. /\ Cardinality(hit[c]) < CountMod
        /\ count[c] <= Cardinality(hit[c]) /\ (count[c] = 0 <=> hit[c] = {})
    <3>1. Cardinality(hit[c]) < CountMod
      BY <1>3, <1>5, <1>10
    <3>2. QED
      BY <3>1 DEF CountFollowsHits
  <2>2. CASE closest[c] > d
    <3>1. d \notin hit[c]
      BY <1>1, <1>4, <2>2, LeastNatural
    <3>2. Cardinality(hit'[c]) = Cardinality(hit[c]) + 1
      BY <1>3, <1>5, <3>1
    <3>3. (count[c] + 1) % CountMod = count[c] + 1
      <4>1. count[c] + 1 \in 0 .. CountMod - 1
        BY <1>1, <1>3, <1>10, <2>1, <3>2
      <4>2. QED
        BY <4>1
    <3>4. count'[c] = count[c] + 1
      BY <1>1, <2>2, <3>3 DEF Report, TypeOK
    <3>5. QED
      BY <1>1, <1>3, <2>1, <3>2, <3>4
  <2>3. CASE ~(closest[c] > d)
    <3>1. count'[c] = count[c] /\ hit[c] # {}
      BY <1>1, <1>4, <2>3 DEF Report
    <3>2. Cardinality(hit[c]) <= Cardinality(hit'[c])
      BY <1>3, <1>5
    <3>3. QED
      BY <1>1, <1>3, <1>5, <2>1, <3>1, <3>2
  <2>4. QED
    BY <2>2, <2>3
<1>11. CountFollowsHits'
  BY <1>5, <1>7, <1>10 DEF CountFollowsHits
<1>12. QED
  BY <1>9, <1>11

\* Every step keeps the reports true to what was passed.
LEMMA ReportsStep ==
    ASSUME TypeOK, ClosestIsLeast, CountFollowsHits, [Next]_vars
    PROVE  ClosestIsLeast' /\ CountFollowsHits'
<1>1. ASSUME UNCHANGED <<closest, count, hit>>
      PROVE  ClosestIsLeast' /\ CountFollowsHits'
  BY <1>1 DEF ClosestIsLeast, CountFollowsHits
<1>2. CASE UNCHANGED vars
  BY <1>1, <1>2 DEF vars, tracing
<1>3. ASSUME NEW c \in Children, Start(c) PROVE ClosestIsLeast' /\ CountFollowsHits'
  <2>1. Cardinality({}) = 0
    BY FS_EmptySet
  <2>2. QED
    BY <1>3, <2>1 DEF Start, TypeOK, ClosestIsLeast, CountFollowsHits
<1>4. ASSUME NEW c \in Children, NEW p \in Points, NEW kind \in {"jump", "call", "other"},
             Trace(c, p, kind)
      PROVE  ClosestIsLeast' /\ CountFollowsHits'
  <2>1. CASE Listed(table[c], p) /\ kind # "other"
    <3>1. /\ Report(c, Distance(table[c], p))
          /\ hit' = [hit EXCEPT ![c] = @ \cup {Distance(table[c], p)}]
      BY <1>4, <2>1 DEF Trace
    <3>2. Distance(table[c], p) \in 1 .. MaxDistance
      BY <2>1, DistanceType DEF TypeOK
    <3>3. QED
      BY <3>1, <3>2, ReportStep
  <2>2. CASE ~(Listed(table[c], p) /\ kind # "other")
    BY <1>1, <1>4, <2>2 DEF Trace
  <2>3. QED
    BY <2>1, <2>2
<1>5. ASSUME NEW c \in Children,
             \/ ReadBlock(c) \/ EndRead(c) \/ Finish(c) \/ Kill(c)
             \/ Lock(c) \/ Truncate(c) \/ WriteBlock(c) \/ CloseAndUnlock(c)
      PROVE  ClosestIsLeast' /\ CountFollowsHits'
  BY <1>1, <1>5 DEF ReadBlock, EndRead, Finish, Kill, Exit, Lock, Truncate, WriteBlock,
                    CloseAndUnlock, tracing
<1>6. QED
  BY <1>2, <1>3, <1>4, <1>5 DEF Next

\* The inductive invariant: the types, a lock that is held by exactly the child
\* between fopen and fclose, and a map that says what was passed.
THEOREM InstrInvariant == Spec => []IInv
<1>1. Init => IInv
  BY InitIInv
<1>2. IInv /\ [Next]_vars => IInv'
  BY TypeStep, LockStep, WriterStep, ReportsStep DEF IInv
<1>3. QED
  BY <1>1, <1>2, PTL DEF Spec

\* Every variable keeps its type; above all a table read in pieces, extended and
\* written back is a table.
THEOREM InstrTypeCorrect == Spec => []TypeOK
<1>1. IInv => TypeOK
  BY DEF IInv
<1>2. QED
  BY <1>1, InstrInvariant, PTL

\* update_csv: the file under the lock is a beginning of its writer's table.
THEOREM InstrWritersDoNotMix == Spec => []WritersDoNotMix
<1>1. IInv => WritersDoNotMix
  BY DEF IInv
<1>2. QED
  BY <1>1, InstrInvariant, PTL

\* update_csv: nobody dead or busy elsewhere has the lock.
THEOREM InstrLockHolderWrites == Spec => []LockHolderWrites
<1>1. IInv => LockHolderWrites
  BY DEF IInv
<1>2. QED
  BY <1>1, InstrInvariant, PTL

\* has_new_bits: as long as a request meets fewer distances than the counter has
\* values, the fuzzer learns the least distance of the points that were passed.
THEOREM InstrFeedbackIsClosest == Spec => []FeedbackIsClosest
<1>1. IInv => FeedbackIsClosest
  <2> SUFFICES ASSUME IInv, NEW c \in Children, Cardinality(hit[c]) < CountMod
               PROVE  Feedback(c) = IF hit[c] = {} THEN NoDistance ELSE Min(hit[c])
    BY DEF FeedbackIsClosest
  <2>1. /\ closest[c] = IF hit[c] = {} THEN Unreached ELSE Min(hit[c])
        /\ count[c] = 0 <=> hit[c] = {}
    BY DEF IInv, ClosestIsLeast, CountFollowsHits
  <2>2. count[c] \in 0 .. CountMod - 1
    BY DEF IInv, TypeOK
  <2>3. QED
    BY <2>1, <2>2, InstrAssumption DEF Feedback
<1>2. QED
  BY <1>1, InstrInvariant, PTL

\* insert_into_info_list never changes an answer of get_info.
THEOREM InstrLookupsKept == Spec => LookupsKept
<1>1. IInv /\ [Next]_vars => [LearningKeepsLookups]_vars
  <2> SUFFICES ASSUME IInv, Next,
                      NEW c \in Children, Learns(c), NEW q \in Points, Listed(table[c], q)
               PROVE  Listed(table'[c], q) /\ Distance(table'[c], q) = Distance(table[c], q)
    BY DEF LearningKeepsLookups, LookupsSame
  <2> USE DEF Learns
  <2>0. TypeOK
    BY DEF IInv
  <2>1. PICK e \in Children :
           \/ Start(e) \/ ReadBlock(e) \/ EndRead(e) \/ Finish(e) \/ Kill(e)
           \/ \E p \in Points, kind \in {"jump", "call", "other"} : Trace(e, p, kind)
           \/ Lock(e) \/ Truncate(e) \/ WriteBlock(e) \/ CloseAndUnlock(e)
    BY DEF Next
  <2>2. PICK p \in Points, kind \in {"jump", "call", "other"} : Trace(e, p, kind) /\ e = c
    <3>1. ASSUME \/ Start(e) \/ ReadBlock(e) \/ EndRead(e) \/ Finish(e) \/ Kill(e)
                 \/ Lock(e) \/ Truncate(e) \/ WriteBlock(e) \/ CloseAndUnlock(e)
          PROVE  FALSE
      BY <2>0, <3>1 DEF Start, ReadBlock, EndRead, Finish, Kill, Exit, Lock, Truncate,
                        WriteBlock, CloseAndUnlock, Goto, TypeOK, tracing
    <3>2. PICK p \in Points, kind \in {"jump", "call", "other"} : Trace(e, p, kind)
      BY <2>1, <3>1
    <3>3. e = c
      <4>1. pc' = pc \/ Goto(e, "lock")
        BY <3>2 DEF Trace
      <4>2. QED
        BY <2>0, <4>1 DEF Goto, TypeOK
    <3>4. QED
      BY <3>2, <3>3
  <2> DEFINE known == Listed(table[c], p)
             d     == Distance(table[c], p)
             waits == IF kind = "call" /\ ~known THEN p ELSE pending[c]
             learn == waits \notin {NoCall, p} /\ known /\ ~Listed(table[c], waits)
  <2>3. learn /\ 2 * d <= MaxDistance /\ table'[c] = Insert(table[c], waits, 2 * d)
    <3>1. learn
      <4>1. pc' # pc
        BY <2>0 DEF TypeOK
      <4>2. QED
        BY <2>2, <4>1 DEF Trace
    <3>2. /\ 2 * d <= MaxDistance
          /\ table' = [table EXCEPT ![c] = Insert(table[c], waits, 2 * d)]
      BY <2>2, <3>1 DEF Trace
    <3>3. QED
      BY <2>0, <3>1, <3>2 DEF TypeOK
  <2>4. table[c] \in Seq(Rows) /\ waits \in Points
    BY <2>0, <2>3 DEF TypeOK
  <2>5. 2 * d \in 1 .. MaxDistance
    <3>1. d \in 1 .. MaxDistance
      BY <2>3, <2>4, DistanceType
    <3> HIDE DEF d, known, waits
    <3>2. QED
      BY <2>3, <3>1, InstrAssumption
  <2> HIDE DEF d, waits, known, learn
  <2>6. QED
    BY <2>3, <2>4, <2>5, InsertKeepsLookups
<1>2. QED
  BY <1>1, InstrInvariant, PTL DEF Spec, LookupsKept

-----------------------------------------------------------------------------
(* The calculation of the distances: the loops and the calls of cal_prob.  *)

\* The nodes that the loop at hand has yet to come to.
Ahead == IF phase = "first" THEN ahead ELSE Range(queue)

\* Each call has a node the loop has yet to come to; it asks its successors, its sum
\* is no more than those it has asked could amount to, and anything in it comes
\* from a successor that reaches a target.
CallsInOrder ==
    \A i \in 1 .. Len(stack) :
        LET c == stack[i] IN
        /\ c.node \in Ahead
        /\ c.todo \subseteq succs[c.node]
        /\ c.total <= One * (Cardinality(succs[c.node]) - Cardinality(c.todo))
        /\ c.total > 0 => succs[c.node] \cap Reaches # {}

\* What is marked as being computed is. Who is not computed has the loop yet to come.
Marks ==
    /\ \A n \in Node : bb_set[n] = 1 => \E i \in 1 .. Len(stack) : stack[i].node = n
    /\ \A n \in Node : bb_set[n] # 2 => n \in Ahead

\* The loops: calls are made for a node at hand, the first loop queues nothing, and at
\* the end nothing is left.
Loops ==
    /\ stack # <<>> => Working
    /\ phase = "first" => queue = <<>>
    /\ phase = "done" => queue = <<>>
    /\ phase # "done" => divergent = {}

\* Apart from the nodes the loop has yet to come to, a distance is that of the probability.
Current == \A n \in Node : n \notin Ahead => dist[n] = CalDist(prob[n])

ChanceMeansReachable == \A n \in Node : prob[n] > 0 => n \in Reaches

CalcInv ==
    /\ DSTypeOK /\ CallsInOrder /\ Marks /\ Loops /\ Current
    /\ ChanceMeansReachable /\ DistanceMeansReachable /\ DivergentIsTrue


-----------------------------------------------------------------------------
(* Sets in order, what reaches a target, and probabilities.                *)

\* A sequence of the members of T in their order.
InOrder(q, T) ==
    q \in [1 .. Cardinality(T) -> T] /\ \A i, j \in DOMAIN q : i < j => q[i] < q[j]

\* Every finite set of numbers can be put in order.
LEMMA OrderExists ==
    ASSUME NEW S \in SUBSET Nat, IsFiniteSet(S)
    PROVE  \E q : InOrder(q, S)
<1> DEFINE Bad == {k \in Nat : \E T \in SUBSET Nat :
                     IsFiniteSet(T) /\ Cardinality(T) = k /\ ~\E q : InOrder(q, T)}
<1>1. SUFFICES ASSUME Bad # {}  PROVE FALSE
  <2>1. Cardinality(S) \in Nat
    BY FS_CardinalityType
  <2> QED  BY <1>1, <2>1
<1>2. PICK k \in Bad : \A l \in Bad : k <= l
  <2> HIDE DEF Bad
  <2>1. Bad \in SUBSET Nat
    BY DEF Bad
  <2> QED  BY <1>1, <2>1, LeastNatural
<1>3. PICK T \in SUBSET Nat : IsFiniteSet(T) /\ Cardinality(T) = k /\ ~\E q : InOrder(q, T)
  BY <1>2
<1>4. T # {}
  <2>1. ASSUME T = {}  PROVE FALSE
    <3>1. k = 0
      BY <1>3, <2>1, FS_EmptySet
    <3>2. InOrder([i \in 1 .. 0 |-> i], T)
      BY <1>3, <3>1 DEF InOrder
    <3> QED  BY <1>3, <3>2
  <2> QED  BY <2>1
<1> DEFINE x == Min(T)  R == T \ {x}
<1>5. x \in T /\ \A y \in T : x <= y
  BY <1>4, LeastNatural
<1> HIDE DEF x
<1>6. IsFiniteSet(R) /\ Cardinality(R) = k - 1 /\ k \in Nat /\ R \in SUBSET Nat
  BY <1>2, <1>3, <1>5, FS_RemoveElement
<1>7. k - 1 \in Nat
  BY <1>6, FS_CardinalityType
<1>8. k - 1 \notin Bad
  BY <1>2, <1>6
<1>9. PICK q : InOrder(q, R)
  <2> HIDE DEF R
  <2> QED  BY <1>6, <1>7, <1>8
<1> DEFINE p == [i \in 1 .. k |-> IF i = 1 THEN x ELSE q[i - 1]]
<1>10. q \in [1 .. k - 1 -> R] /\ \A i, j \in 1 .. k - 1 : i < j => q[i] < q[j]
  BY <1>6, <1>9 DEF InOrder
<1>11. \A i \in 1 .. k : i # 1 => i - 1 \in 1 .. k - 1
  BY <1>6
<1>12. p \in [1 .. k -> T]
  BY <1>5, <1>10, <1>11
<1>13. \A i, j \in 1 .. k : i < j => p[i] < p[j]
  <2>1. TAKE i, j \in 1 .. k
  <2>2. HAVE i < j
  <2>3. j # 1 /\ p[j] = q[j - 1] /\ q[j - 1] \in R
    BY <1>6, <1>10, <1>11, <2>2
  <2>4. CASE i = 1
    <3>1. q[j - 1] \in T /\ q[j - 1] # x /\ x <= q[j - 1]
      BY <1>5, <2>3
    <3>2. x < q[j - 1]
      <4>1. x \in Nat /\ q[j - 1] \in Nat
        BY <1>3, <1>5, <3>1
      <4> QED  BY <3>1, <4>1
    <3> QED  BY <2>3, <2>4, <3>2
  <2>5. CASE i # 1
    <3>1. p[i] = q[i - 1] /\ i - 1 \in 1 .. k - 1 /\ j - 1 \in 1 .. k - 1 /\ i - 1 < j - 1
      BY <1>6, <1>11, <2>2, <2>3, <2>5
    <3> HIDE DEF p
    <3> QED  BY <1>10, <2>3, <3>1
  <2> QED  BY <2>4, <2>5
<1>14. InOrder(p, T)
  <2> HIDE DEF p
  <2> QED  BY <1>3, <1>12, <1>13 DEF InOrder
<1> QED  BY <1>3, <1>14

\* Nothing is in a sequence twice.
Once(q) == \A i, j \in 1 .. Len(q) : q[i] = q[j] => i = j

\* The nodes of a set, each of them once, in a sequence.
LEMMA AscendingIs ==
    ASSUME NEW S \in SUBSET Node, DistancesAssumption
    PROVE  /\ Ascending(S) \in Seq(Node) /\ Range(Ascending(S)) = S
           /\ Once(Ascending(S))
<1> DEFINE k == Cardinality(S)  q == Ascending(S)
<1>1. S \in SUBSET Nat /\ IsFiniteSet(S) /\ k \in Nat
  <2>1. Node \in SUBSET Nat /\ IsFiniteSet(Node)
    BY FS_Interval DEF Node, DistancesAssumption
  <2>2. IsFiniteSet(S)
    BY <2>1, FS_Subset
  <2> QED  BY <2>1, <2>2, FS_CardinalityType
<1>2. PICK p : InOrder(p, S)
  BY <1>1, OrderExists
<1>3. q \in [1 .. k -> S] /\ \A i, j \in DOMAIN q : i < j => q[i] < q[j]
  BY <1>2 DEF InOrder, Ascending
<1> HIDE DEF q, k
<1>4. \A i, j \in 1 .. k : q[i] = q[j] => i = j
  <2>1. TAKE i, j \in 1 .. k
  <2>2. HAVE q[i] = q[j]
  <2>3. i \in Nat /\ j \in Nat
    BY <1>1
  <2>4. ~(i < j) /\ ~(j < i)
    <3>1. q[i] \in Nat /\ q[j] \in Nat
      <4>1. q[i] \in S /\ q[j] \in S
        BY <1>3
      <4> QED  BY <1>1, <4>1
    <3>2. DOMAIN q = 1 .. k
      BY <1>3
    <3> QED  BY <1>3, <2>2, <3>1, <3>2
  <2> QED  BY <2>3, <2>4
<1>5. q \in Injection(1 .. k, S)
  BY <1>3, <1>4 DEF Injection, IsInjective
<1>6. Cardinality(1 .. k) = k
  BY <1>1, FS_Interval
<1>7. q \in Surjection(1 .. k, S)
  BY <1>1, <1>5, <1>6, FS_Injection DEF k
<1>8. Range(q) = S
  BY <1>3, <1>7 DEF Surjection, Range
<1>9. q \in Seq(Node)
  <2>1. q \in [1 .. k -> Node] /\ k \in Nat
    BY <1>1, <1>3
  <2> QED  BY <2>1
<1>10. Once(q)
  <2>1. Len(q) = k
    BY <1>1, <1>3
  <2> QED  BY <1>4, <2>1 DEF Once
<1> QED  BY <1>8, <1>9, <1>10 DEF q

\* From where it can go on to a node that reaches a target, a node reaches one.
LEMMA ReachesOn ==
    ASSUME DSTypeOK
    PROVE  /\ targets \subseteq Reaches
           /\ \A n \in Node : succs[n] \cap Reaches # {} => n \in Reaches
<1>1. targets \subseteq Reaches
  BY DEF DSTypeOK, Reaches
<1>2. ASSUME NEW n \in Node, succs[n] \cap Reaches # {}  PROVE n \in Reaches
  <2>1. PICK m \in succs[n] : m \in Reaches
    BY <1>2
  <2>2. ASSUME NEW S \in SUBSET Node, targets \subseteq S,
               \A l \in Node : succs[l] \cap S # {} => l \in S
        PROVE  n \in S
    <3>1. m \in S
      BY <2>1, <2>2 DEF Reaches
    <3> QED  BY <2>1, <2>2, <3>1
  <2> QED  BY <2>2 DEF Reaches
<1> QED  BY <1>1, <1>2

\* A probability above the cutoff, and no other, yields a distance.
LEMMA CalDistIs ==
    ASSUME NEW p \in 0 .. One, DistancesAssumption
    PROVE  CalDist(p) \in Nat /\ (CalDist(p) = Far <=> p <= Cut)
<1>1. CASE p <= Cut
  BY <1>1 DEF CalDist, Far
<1>2. CASE ~(p <= Cut)
  <2>1. p \in Nat /\ p > 0 /\ 1000 * One \in Nat /\ 1000 * One >= p
    BY <1>2 DEF DistancesAssumption
  <2>2. (1000 * One) \div p \in Nat /\ (1000 * One) \div p > 0
    <3> DEFINE t == 1000 * One
    <3> HIDE DEF t
    <3>1. t \in Nat /\ t >= p
      BY <2>1 DEF t
    <3>2. t \div p \in Nat /\ t \div p > 0
      BY <2>1, <3>1
    <3> QED  BY <3>2 DEF t
  <2> QED  BY <1>2, <2>2 DEF CalDist, Far
<1> QED  BY <1>1, <1>2

-----------------------------------------------------------------------------
(* cal_prob, step by step.                                                 *)

\* The node at hand is one of those the loop has yet to come to.
LEMMA AtHandIs ==
    ASSUME DSTypeOK, Loops, Working, DistancesAssumption
    PROVE  AtHand \in Ahead /\ AtHand \in Node
<1>1. CASE phase = "first"
  <2>1. ahead \in SUBSET Nat /\ ahead # {}
    BY <1>1 DEF DSTypeOK, Working, Node
  <2>2. Min(ahead) \in ahead
    BY <2>1, LeastNatural
  <2> QED  BY <1>1, <2>2 DEF AtHand, Ahead, DSTypeOK
<1>2. CASE phase # "first"
  <2>1. queue \in Seq(Node) /\ queue # <<>>
    BY <1>2 DEF DSTypeOK, Working
  <2>2. Head(queue) \in Node /\ Head(queue) = queue[1] /\ 1 \in DOMAIN queue
    BY <2>1
  <2> QED  BY <1>2, <2>2 DEF AtHand, Ahead, Range
<1> QED  BY <1>1, <1>2

\* Those the loop has yet to come to are nodes.
LEMMA AheadTyped ==
    ASSUME DSTypeOK  PROVE Ahead \in SUBSET Node
<1>1. queue \in Seq(Node) => Range(queue) \in SUBSET Node
  BY DEF Range
<1> QED  BY <1>1 DEF DSTypeOK, Ahead

\* What the walk does not touch.
LEMMA LoopsStay ==
    ASSUME UNCHANGED loops
    PROVE  /\ Ahead' = Ahead /\ AtHand' = AtHand /\ (Working' <=> Working) /\ Reaches' = Reaches
           /\ UNCHANGED <<succs, targets, phase, ahead, dist, queue, re_caled, dist_changed, divergent>>
BY DEF loops, graph, Ahead, AtHand, Working, Reaches

\* A node that is not marked is entered.
LEMMA EnterStep ==
    ASSUME CalcInv, DistancesAssumption, Working, NEW n \in Node, n \in Ahead, Enter(n)
    PROVE  CalcInv'
<1> USE DEF CalcInv
<1>1. /\ UNCHANGED <<succs, targets, phase, ahead, dist, queue, re_caled, dist_changed, divergent>>
      /\ Ahead' = Ahead /\ Reaches' = Reaches /\ Working'
  BY LoopsStay DEF Enter
<1>2. One \in Nat \ {0} /\ prob \in [Node -> 0 .. One] /\ bb_set \in [Node -> 0 .. 2]
      /\ stack \in Seq(Calls) /\ succs[n] \in SUBSET Node
  BY DEF DistancesAssumption, DSTypeOK
<1>3. CASE n \in targets
  <2>1. prob' = [prob EXCEPT ![n] = One] /\ bb_set' = [bb_set EXCEPT ![n] = 2] /\ stack' = stack
    BY <1>3 DEF Enter
  <2>2. DSTypeOK'
    BY <1>1, <1>2, <2>1 DEF DSTypeOK
  <2>3. CallsInOrder'
    BY <1>1, <2>1 DEF CallsInOrder
  <2>4. Marks'
    BY <1>1, <1>2, <2>1 DEF Marks
  <2>5. Loops'
    BY <1>1, <2>1 DEF Loops
  <2>6. Current'
    BY <1>1, <1>2, <2>1 DEF Current
  <2>7. ChanceMeansReachable'
    <3>1. n \in Reaches
      BY <1>3, ReachesOn
    <3> QED  BY <1>1, <1>2, <2>1, <3>1 DEF ChanceMeansReachable
  <2>8. DistanceMeansReachable' /\ DivergentIsTrue'
    BY <1>1 DEF DistanceMeansReachable, DivergentIsTrue
  <2> QED  BY <2>2, <2>3, <2>4, <2>5, <2>6, <2>7, <2>8
<1>4. CASE n \notin targets
  <2> DEFINE c == [node |-> n, todo |-> succs[n], total |-> 0]
  <2>1. prob' = prob /\ bb_set' = [bb_set EXCEPT ![n] = 1] /\ stack' = Append(stack, c)
    BY <1>4 DEF Enter
  <2>2. c \in Calls
    BY <1>2 DEF Calls
  <2>3. /\ stack' \in Seq(Calls) /\ Len(stack') = Len(stack) + 1 /\ Len(stack) \in Nat
        /\ \A i \in 1 .. Len(stack) : stack'[i] = stack[i]
        /\ stack'[Len(stack) + 1] = c
    BY <1>2, <2>1, <2>2
  <2> HIDE DEF c
  <2>4. DSTypeOK'
    BY <1>1, <1>2, <2>1, <2>3 DEF DSTypeOK
  <2>5. CallsInOrder'
    <3>1. ASSUME NEW i \in 1 .. Len(stack')
          PROVE  /\ stack'[i].node \in Ahead'
                 /\ stack'[i].todo \subseteq succs'[stack'[i].node]
                 /\ stack'[i].total <= One * (Cardinality(succs'[stack'[i].node]) - Cardinality(stack'[i].todo))
                 /\ stack'[i].total > 0 => succs'[stack'[i].node] \cap Reaches' # {}
      <4>1. CASE i \in 1 .. Len(stack)
        <5>1. stack'[i] = stack[i]
          BY <2>3, <4>1
        <5> QED  BY <1>1, <4>1, <5>1 DEF CallsInOrder
      <4>2. CASE i = Len(stack) + 1
        <5>1. stack'[i].node = n /\ stack'[i].todo = succs[n] /\ stack'[i].total = 0
          BY <2>3, <4>2 DEF c
        <5>2. 0 <= One * (Cardinality(succs[n]) - Cardinality(succs[n]))
          <6>1. Cardinality(succs[n]) \in Nat
            <7>1. IsFiniteSet(Node)
              BY FS_Interval DEF Node, DistancesAssumption
            <7> QED  BY <1>2, <7>1, FS_Subset, FS_CardinalityType
          <6> QED  BY <1>2, <6>1
        <5> QED  BY <1>1, <5>1, <5>2
      <4> QED  BY <2>3, <4>1, <4>2
    <3> QED  BY <3>1 DEF CallsInOrder
  <2>6. Marks'
    <3>1. ASSUME NEW m \in Node, bb_set'[m] = 1  PROVE \E i \in 1 .. Len(stack') : stack'[i].node = m
      <4>1. CASE m = n
        <5>1. stack'[Len(stack) + 1].node = n /\ Len(stack) + 1 \in 1 .. Len(stack')
          BY <2>3 DEF c
        <5> QED  BY <4>1, <5>1
      <4>2. CASE m # n
        <5>1. bb_set[m] = 1
          BY <1>2, <2>1, <3>1, <4>2
        <5>2. PICK i \in 1 .. Len(stack) : stack[i].node = m
          BY <5>1 DEF Marks
        <5>3. i \in 1 .. Len(stack') /\ stack'[i] = stack[i]
          BY <2>3
        <5> QED  BY <5>2, <5>3
      <4> QED  BY <4>1, <4>2
    <3>2. \A m \in Node : bb_set'[m] # 2 => m \in Ahead
      BY <1>2, <2>1 DEF Marks
    <3> QED  BY <1>1, <3>1, <3>2 DEF Marks
  <2>7. Loops'
    BY <1>1 DEF Loops
  <2>8. Current' /\ ChanceMeansReachable'
    BY <1>1, <2>1 DEF Current, ChanceMeansReachable
  <2>9. DistanceMeansReachable' /\ DivergentIsTrue'
    BY <1>1 DEF DistanceMeansReachable, DivergentIsTrue
  <2> QED  BY <2>4, <2>5, <2>6, <2>7, <2>8, <2>9
<1> QED  BY <1>3, <1>4

\* The call that runs.
LEMMA TopIs ==
    ASSUME CalcInv, stack # <<>>, DistancesAssumption
    PROVE  /\ Len(stack) \in Nat \ {0} /\ Top = stack[Len(stack)] /\ Top \in Calls
           /\ Front(stack) \in Seq(Calls) /\ Len(Front(stack)) = Len(stack) - 1
           /\ \A i \in 1 .. Len(stack) - 1 : Front(stack)[i] = stack[i]
           /\ Top.node \in Ahead /\ Top.node \in Node /\ Top.todo \subseteq succs[Top.node]
           /\ Top.total \in Nat
           /\ Top.total <= One * (Cardinality(succs[Top.node]) - Cardinality(Top.todo))
           /\ Top.total > 0 => succs[Top.node] \cap Reaches # {}
           /\ Working
           /\ Top.todo # {} => Succ \in Top.todo /\ Succ \in Node
<1> USE DEF CalcInv
<1>1. stack \in Seq(Calls) /\ Len(stack) \in Nat \ {0} /\ Len(stack) \in 1 .. Len(stack)
  BY DEF DSTypeOK
<1>2. Top = stack[Len(stack)] /\ Top \in Calls
  BY <1>1 DEF Top, Last
<1>3. /\ Front(stack) \in Seq(Calls) /\ Len(Front(stack)) = Len(stack) - 1
      /\ \A i \in 1 .. Len(stack) - 1 : Front(stack)[i] = stack[i]
  <2> DEFINE k == Len(stack) - 1
  <2>1. k \in Nat /\ k \in 0 .. Len(stack) /\ 1 \in 1 .. Len(stack) + 1
    BY <1>1
  <2>2. /\ SubSeq(stack, 1, k) \in Seq(Calls)
        /\ Len(SubSeq(stack, 1, k)) = IF 1 <= k THEN k - 1 + 1 ELSE 0
        /\ \A i \in 1 .. k - 1 + 1 : SubSeq(stack, 1, k)[i] = stack[1 + i - 1]
    <3> HIDE DEF k
    <3> QED  BY <1>1, <2>1, SubSeqProperties
  <2>3. Front(stack) = SubSeq(stack, 1, k)
    BY DEF Front
  <2>4. \A i \in 1 .. k : i \in 1 .. k - 1 + 1 /\ 1 + i - 1 = i
    BY <2>1
  <2>5. Len(Front(stack)) = k
    <3> HIDE DEF k
    <3> QED  BY <2>1, <2>2, <2>3
  <2>6. \A i \in 1 .. k : Front(stack)[i] = stack[i]
    <3> HIDE DEF k
    <3> QED  BY <2>2, <2>3, <2>4
  <2> QED  BY <2>2, <2>3, <2>5, <2>6
<1>4. /\ Top.node \in Ahead /\ Top.todo \subseteq succs[Top.node]
      /\ Top.total <= One * (Cardinality(succs[Top.node]) - Cardinality(Top.todo))
      /\ Top.total > 0 => succs[Top.node] \cap Reaches # {}
  BY <1>1, <1>2 DEF CallsInOrder
<1>5. Top.node \in Node /\ Top.todo \in SUBSET Node /\ Top.total \in Nat
  BY <1>2 DEF Calls
<1>6. Working
  BY DEF Loops
<1>7. Top.todo # {} => Succ \in Top.todo /\ Succ \in Node
  <2>1. Node \in SUBSET Nat
    BY DEF Node
  <2> QED  BY <1>5, <2>1, LeastNatural DEF Succ
<1> QED  BY <1>1, <1>2, <1>3, <1>4, <1>5, <1>6, <1>7

\* A loop calls for the node at hand.
LEMMA CalProbStep ==
    ASSUME CalcInv, DistancesAssumption, CalProb  PROVE CalcInv'
BY AtHandIs, EnterStep DEF CalProb, CalcInv

\* A call asks a successor that is not marked.
LEMMA DescendStep ==
    ASSUME CalcInv, DistancesAssumption, Descend  PROVE CalcInv'
<1>1. stack # <<>> /\ Top.todo # {} /\ Enter(Succ)
  BY DEF Descend
<1>2. Working /\ Succ \in Node
  BY <1>1, TopIs
<1>3. Succ \in Ahead
  BY <1>1, <1>2 DEF Enter, CalcInv, Marks
<1> QED  BY <1>1, <1>2, <1>3, EnterStep

\* The mean of numbers that are no greater than o is none greater.
LEMMA MeanIs ==
    ASSUME NEW t \in Nat, NEW n \in Nat, n > 0, NEW o \in Nat, t <= o * n
    PROVE  t \div n \in Nat /\ t \div n <= o /\ (t = 0 => t \div n = 0)
<1>1. t \div n \in Nat /\ (t = 0 => t \div n = 0)
  OBVIOUS
<1>2. t \div n <= o
  OBVIOUS
<1> QED  BY <1>1, <1>2

\* A successor is added up.
LEMMA AddStep ==
    ASSUME CalcInv, DistancesAssumption, Add  PROVE CalcInv'
<1> USE DEF CalcInv
<1> DEFINE k == Len(stack)  c == [node |-> Top.node, todo |-> Top.todo \ {Succ}, total |-> Top.total + prob[Succ]]
           n == Top.node
<1>1. /\ stack # <<>> /\ Top.todo # {} /\ stack' = Append(Front(stack), c)
      /\ UNCHANGED <<succs, targets, phase, ahead, dist, queue, re_caled, dist_changed, divergent, prob, bb_set>>
      /\ Ahead' = Ahead /\ Reaches' = Reaches /\ Working'
  <2>1. UNCHANGED loops /\ stack # <<>> /\ Top.todo # {} /\ stack' = Append(Front(stack), c) /\ UNCHANGED <<prob, bb_set>>
    BY DEF Add
  <2> QED  BY <2>1, LoopsStay, TopIs
<1>2. One \in Nat \ {0} /\ prob \in [Node -> 0 .. One] /\ succs \in [Node -> SUBSET Node]
  BY DEF DistancesAssumption, DSTypeOK
<1>3. /\ k \in Nat \ {0} /\ Top = stack[k] /\ Top \in Calls
      /\ Front(stack) \in Seq(Calls) /\ Len(Front(stack)) = k - 1
      /\ \A i \in 1 .. k - 1 : Front(stack)[i] = stack[i]
      /\ n \in Ahead /\ n \in Node /\ Top.todo \subseteq succs[n] /\ Top.total \in Nat
      /\ Top.total <= One * (Cardinality(succs[n]) - Cardinality(Top.todo))
      /\ Top.total > 0 => succs[n] \cap Reaches # {}
      /\ Succ \in Top.todo /\ Succ \in Node
  BY <1>1, TopIs
<1>4. prob[Succ] \in 0 .. One
  BY <1>2, <1>3
<1>5. c.node = n /\ c.todo = Top.todo \ {Succ} /\ c.total = Top.total + prob[Succ] /\ c \in Calls
  <2>1. prob[Succ] \in Nat
    BY <1>2, <1>4
  <2>2. n \in Node /\ Top.todo \ {Succ} \in SUBSET Node /\ Top.total + prob[Succ] \in Nat
    BY <1>2, <1>3, <2>1
  <2> QED  BY <2>2 DEF Calls
<1>6. c.total <= One * (Cardinality(succs[n]) - Cardinality(c.todo))
  <2> DEFINE x == Cardinality(succs[n])  y == Cardinality(Top.todo)
  <2>1. IsFiniteSet(succs[n]) /\ IsFiniteSet(Top.todo)
    <3>1. IsFiniteSet(Node)
      BY FS_Interval DEF Node, DistancesAssumption
    <3> QED  BY <1>2, <1>3, <3>1, FS_Subset
  <2>2. x \in Nat /\ y \in Nat /\ Cardinality(c.todo) = y - 1
    <3>1. x \in Nat /\ y \in Nat
      BY <2>1, FS_CardinalityType
    <3>2. Cardinality(Top.todo \ {Succ}) = y - 1
      BY <1>3, <2>1, FS_RemoveElement
    <3> QED  BY <1>5, <3>1, <3>2
  <2> HIDE DEF c, x, y
  <2>3. One * (x - (y - 1)) = One * (x - y) + One
    BY <1>2, <2>2
  <2>4. Top.total <= One * (x - y)
    BY <1>3 DEF x, y
  <2>5. One * (x - y) \in Int
    BY <1>2, <2>2
  <2>6. c.total <= One * (x - y) + One
    BY <1>2, <1>3, <1>4, <1>5, <2>4, <2>5
  <2>7. c.total <= One * (x - (y - 1))
    BY <2>3, <2>6
  <2> QED  BY <2>2, <2>7 DEF x
<1>7. c.total > 0 => succs[n] \cap Reaches # {}
  <2>1. CASE prob[Succ] > 0
    BY <1>3, <2>1 DEF ChanceMeansReachable
  <2>2. CASE ~(prob[Succ] > 0)
    BY <1>2, <1>3, <1>4, <1>5, <2>2
  <2> QED  BY <2>1, <2>2
<1> HIDE DEF c
<1>8. /\ stack' \in Seq(Calls) /\ Len(stack') = k /\ stack'[k] = c
      /\ \A i \in 1 .. k - 1 : stack'[i] = stack[i]
  <2> HIDE DEF k
  <2> QED  BY <1>1, <1>3, <1>5
<1>9. \A i \in 1 .. k : i = k \/ i \in 1 .. k - 1
  BY <1>3
<1>10. \A i \in 1 .. k : stack'[i].node = stack[i].node
  BY <1>3, <1>5, <1>8, <1>9
<1>11. DSTypeOK'
  BY <1>1, <1>8 DEF DSTypeOK
<1>12. CallsInOrder'
  <2>1. ASSUME NEW i \in 1 .. k
        PROVE  /\ stack'[i].node \in Ahead
               /\ stack'[i].todo \subseteq succs[stack'[i].node]
               /\ stack'[i].total <= One * (Cardinality(succs[stack'[i].node]) - Cardinality(stack'[i].todo))
               /\ stack'[i].total > 0 => succs[stack'[i].node] \cap Reaches # {}
    <3>1. CASE i = k
      BY <1>3, <1>5, <1>6, <1>7, <1>8, <3>1
    <3>2. CASE i \in 1 .. k - 1
      <4>1. stack'[i] = stack[i]
        BY <1>8, <3>2
      <4> QED  BY <4>1 DEF CallsInOrder
    <3> QED  BY <1>9, <3>1, <3>2
  <2> QED  BY <1>1, <1>8, <2>1 DEF CallsInOrder
<1>13. Marks'
  <2>1. ASSUME NEW m \in Node, bb_set[m] = 1  PROVE \E i \in 1 .. k : stack'[i].node = m
    BY <1>10, <2>1 DEF Marks
  <2> QED  BY <1>1, <1>8, <2>1 DEF Marks
<1>14. Loops'
  BY <1>1 DEF Loops
<1>15. Current' /\ ChanceMeansReachable' /\ DistanceMeansReachable' /\ DivergentIsTrue'
  BY <1>1 DEF Current, ChanceMeansReachable, DistanceMeansReachable, DivergentIsTrue
<1> QED  BY <1>11, <1>12, <1>13, <1>14, <1>15

\* A call returns: its node is one the loop has yet to come to.
LEMMA LeaveStep ==
    ASSUME CalcInv, DistancesAssumption, Leave  PROVE CalcInv'
<1> USE DEF CalcInv
<1> DEFINE k == Len(stack)  n == Top.node  num == Cardinality(succs[n])
           p == IF num > 0 THEN Top.total \div num ELSE prob[n]
<1>1. /\ stack # <<>> /\ Top.todo = {} /\ stack' = Front(stack)
      /\ prob' = [prob EXCEPT ![n] = p] /\ bb_set' = [bb_set EXCEPT ![n] = 2]
      /\ UNCHANGED loops
  BY DEF Leave
<1>2. /\ UNCHANGED <<succs, targets, phase, ahead, dist, queue, re_caled, dist_changed, divergent>>
      /\ Ahead' = Ahead /\ Reaches' = Reaches /\ Working'
  BY <1>1, LoopsStay, TopIs
<1>3. One \in Nat \ {0} /\ prob \in [Node -> 0 .. One] /\ bb_set \in [Node -> 0 .. 2]
      /\ succs \in [Node -> SUBSET Node]
  BY DEF DistancesAssumption, DSTypeOK
<1>4. /\ k \in Nat \ {0} /\ Top = stack[k]
      /\ stack' \in Seq(Calls) /\ Len(stack') = k - 1
      /\ \A i \in 1 .. k - 1 : stack'[i] = stack[i]
      /\ n \in Ahead /\ n \in Node /\ Top.total \in Nat
      /\ Top.total <= One * (num - Cardinality(Top.todo))
      /\ Top.total > 0 => succs[n] \cap Reaches # {}
  BY <1>1, TopIs
<1>5. num \in Nat
  <2>1. IsFiniteSet(Node)
    BY FS_Interval DEF Node, DistancesAssumption
  <2> QED  BY <1>3, <1>4, <2>1, FS_Subset, FS_CardinalityType
<1>6. p \in 0 .. One /\ (p > 0 => n \in Reaches)
  <2>1. CASE num > 0
    <3>1. Top.total <= One * num
      <4>1. Cardinality(Top.todo) = 0
        BY <1>1, FS_EmptySet
      <4> HIDE DEF num
      <4> QED  BY <1>4, <1>5, <4>1
    <3> HIDE DEF num
    <3>2. /\ Top.total \div num \in Nat /\ Top.total \div num <= One
          /\ Top.total = 0 => Top.total \div num = 0
      BY <1>3, <1>4, <1>5, <2>1, <3>1, MeanIs
    <3>3. Top.total > 0 => n \in Reaches
      BY <1>4, ReachesOn
    <3> QED  BY <1>3, <1>4, <2>1, <3>2, <3>3
  <2>2. CASE ~(num > 0)
    BY <1>3, <1>4, <2>2 DEF ChanceMeansReachable
  <2> QED  BY <2>1, <2>2
<1> HIDE DEF p
<1>7. \A i \in 1 .. k : i = k \/ i \in 1 .. k - 1
  BY <1>4
<1>8. DSTypeOK'
  BY <1>1, <1>2, <1>3, <1>4, <1>6 DEF DSTypeOK
<1>9. CallsInOrder'
  <2>1. ASSUME NEW i \in 1 .. k - 1
        PROVE  /\ stack'[i].node \in Ahead
               /\ stack'[i].todo \subseteq succs[stack'[i].node]
               /\ stack'[i].total <= One * (Cardinality(succs[stack'[i].node]) - Cardinality(stack'[i].todo))
               /\ stack'[i].total > 0 => succs[stack'[i].node] \cap Reaches # {}
    <3>1. stack'[i] = stack[i] /\ i \in 1 .. k
      BY <1>4
    <3> QED  BY <3>1 DEF CallsInOrder
  <2> QED  BY <1>2, <1>4, <2>1 DEF CallsInOrder
<1>10. Marks'
  <2>1. ASSUME NEW m \in Node, bb_set'[m] = 1  PROVE \E i \in 1 .. k - 1 : stack'[i].node = m
    <3>1. m # n /\ bb_set[m] = 1
      BY <1>1, <1>3, <1>4, <2>1
    <3>2. PICK i \in 1 .. k : stack[i].node = m
      BY <3>1 DEF Marks
    <3>3. i \in 1 .. k - 1
      BY <1>4, <1>7, <3>1, <3>2
    <3> QED  BY <1>4, <3>2, <3>3
  <2>2. \A m \in Node : bb_set'[m] # 2 => m \in Ahead
    BY <1>1, <1>3 DEF Marks
  <2> QED  BY <1>2, <1>4, <2>1, <2>2 DEF Marks
<1>11. Loops'
  BY <1>2 DEF Loops
<1>12. Current'
  BY <1>1, <1>2, <1>3, <1>4 DEF Current
<1>13. ChanceMeansReachable'
  BY <1>1, <1>2, <1>3, <1>4, <1>6 DEF ChanceMeansReachable
<1>14. DistanceMeansReachable' /\ DivergentIsTrue'
  BY <1>2 DEF DistanceMeansReachable, DivergentIsTrue
<1> QED  BY <1>8, <1>9, <1>10, <1>11, <1>12, <1>13, <1>14

-----------------------------------------------------------------------------
(* The loops.                                                              *)

\* The node at hand gets its distance; it is marked as computed.
LEMMA AtHandDone ==
    ASSUME CalcInv, DistancesAssumption, CalDistAtHand
    PROVE  /\ AtHand \in Node /\ bb_set[AtHand] = 2 /\ stack = <<>> /\ Working
           /\ dist' = [dist EXCEPT ![AtHand] = CalDist(prob[AtHand])]
           /\ dist' \in [Node -> Nat]
           /\ \A n \in Node : dist'[n] # Far => n \in Reaches
           /\ dist'[AtHand] = CalDist(prob[AtHand])
<1> USE DEF CalcInv
<1>1. /\ stack = <<>> /\ Working /\ bb_set[AtHand] # 0
      /\ dist' = [dist EXCEPT ![AtHand] = CalDist(prob[AtHand])]
  BY DEF CalDistAtHand
<1>2. AtHand \in Node
  BY <1>1, AtHandIs
<1>3. bb_set[AtHand] \in 0 .. 2 /\ prob[AtHand] \in 0 .. One /\ dist \in [Node -> Nat]
  BY <1>2 DEF DSTypeOK
<1>4. bb_set[AtHand] # 1
  BY <1>1, <1>2 DEF Marks
<1>5. CalDist(prob[AtHand]) \in Nat /\ (CalDist(prob[AtHand]) # Far => prob[AtHand] > 0)
  <2>1. CalDist(prob[AtHand]) # Far => ~(prob[AtHand] <= Cut)
    BY <1>3, CalDistIs
  <2> QED  BY <1>3, <2>1, CalDistIs DEF DistancesAssumption
<1>6. CalDist(prob[AtHand]) # Far => AtHand \in Reaches
  BY <1>2, <1>5 DEF ChanceMeansReachable
<1> QED  BY <1>1, <1>2, <1>3, <1>4, <1>5, <1>6 DEF DistanceMeansReachable

\* The first loop leaves the node at hand behind.
LEMMA FirstStep ==
    ASSUME CalcInv, DistancesAssumption, First  PROVE CalcInv'
<1> USE DEF CalcInv
<1>1. /\ phase = "first" /\ CalDistAtHand /\ ahead' = ahead \ {AtHand}
      /\ UNCHANGED <<succs, targets, prob, bb_set, stack, phase, queue, re_caled, dist_changed, divergent>>
  BY DEF First, graph, walk
<1>2. /\ AtHand \in Node /\ bb_set[AtHand] = 2 /\ stack = <<>> /\ Working
      /\ dist' = [dist EXCEPT ![AtHand] = CalDist(prob[AtHand])]
      /\ dist' \in [Node -> Nat]
      /\ \A n \in Node : dist'[n] # Far => n \in Reaches
      /\ dist'[AtHand] = CalDist(prob[AtHand])
  BY <1>1, AtHandDone
<1>3. Ahead = ahead /\ Ahead' = ahead' /\ Reaches' = Reaches
  BY <1>1 DEF Ahead, Reaches
<1>4. DSTypeOK'
  BY <1>1, <1>2 DEF DSTypeOK
<1>5. CallsInOrder'
  BY <1>1, <1>2 DEF CallsInOrder
<1>6. Marks'
  BY <1>1, <1>2, <1>3 DEF Marks
<1>7. Loops' /\ DivergentIsTrue'
  BY <1>1, <1>2 DEF Loops, DivergentIsTrue
<1>8. Current'
  BY <1>1, <1>2, <1>3 DEF Current, DSTypeOK
<1>9. ChanceMeansReachable' /\ DistanceMeansReachable'
  BY <1>1, <1>2, <1>3 DEF ChanceMeansReachable, DistanceMeansReachable
<1> QED  BY <1>4, <1>5, <1>6, <1>7, <1>8, <1>9

\* Before a round no node is left to come to, so every distance is that of the probability.
LEMMA RoundStep ==
    ASSUME CalcInv, DistancesAssumption, Round  PROVE CalcInv'
<1> USE DEF CalcInv
<1>1. /\ \/ phase = "first" /\ ahead = {}
         \/ phase = "correct" /\ queue = <<>>
      /\ phase' = "correct" /\ queue' = Ascending(Wrong) /\ re_caled' = Wrong
      /\ bb_set' = Forgotten(Wrong, bb_set) /\ dist_changed' = FALSE
      /\ UNCHANGED <<succs, targets, ahead, prob, stack, dist, divergent>>
  BY DEF Round, graph
<1>2. Ahead = {} /\ stack = <<>> /\ divergent = {}
  BY <1>1 DEF Ahead, Loops, Working, Range
<1>3. Wrong \in SUBSET Node
  BY DEF Wrong, nodes_need_calc
<1>4. queue' \in Seq(Node) /\ Ahead' = Wrong /\ Reaches' = Reaches
  BY <1>1, <1>3, AscendingIs DEF Ahead, Reaches
<1>5. bb_set \in [Node -> 0 .. 2] /\ \A n \in Node : bb_set[n] = 2
  BY <1>2 DEF DSTypeOK, Marks
<1>6. bb_set' = [n \in Node |-> IF n \in Wrong THEN 0 ELSE bb_set[n]]
  BY <1>1 DEF Forgotten
<1>7. DSTypeOK'
  <2>1. bb_set' \in [Node -> 0 .. 2]
    BY <1>5, <1>6
  <2>2. phase' = "correct" /\ queue' \in Seq(Node) /\ re_caled' \in SUBSET Node /\ dist_changed' \in BOOLEAN
    BY <1>1, <1>3, <1>4
  <2> QED  BY <1>1, <2>1, <2>2 DEF DSTypeOK
<1>8. CallsInOrder' /\ Loops'
  BY <1>1, <1>2 DEF CallsInOrder, Loops
<1>9. Marks'
  BY <1>4, <1>5, <1>6 DEF Marks
<1>10. Current'
  BY <1>1, <1>2 DEF Current
<1>11. ChanceMeansReachable' /\ DistanceMeansReachable' /\ DivergentIsTrue'
  BY <1>1, <1>2, <1>4 DEF ChanceMeansReachable, DistanceMeansReachable, DivergentIsTrue
<1> QED  BY <1>7, <1>8, <1>9, <1>10, <1>11

\* The node at hand is left, and those from which the walk may go to it are queued.
LEMMA CorrectStep ==
    ASSUME CalcInv, DistancesAssumption, Correct  PROVE CalcInv'
<1> USE DEF CalcInv
<1> DEFINE fresh == Preds(AtHand) \ re_caled
<1>1. /\ phase = "correct" /\ CalDistAtHand
      /\ queue' = Tail(queue) \o Ascending(fresh) /\ re_caled' = re_caled \cup fresh
      /\ bb_set' = Forgotten(fresh, bb_set)
      /\ dist_changed' = (dist_changed \/ Changed(dist[AtHand], dist'[AtHand]))
      /\ UNCHANGED <<succs, targets, phase, ahead, prob, stack, divergent>>
  BY DEF Correct, graph
<1>2. /\ AtHand \in Node /\ bb_set[AtHand] = 2 /\ stack = <<>> /\ Working
      /\ dist' = [dist EXCEPT ![AtHand] = CalDist(prob[AtHand])]
      /\ dist' \in [Node -> Nat]
      /\ \A n \in Node : dist'[n] # Far => n \in Reaches
      /\ dist'[AtHand] = CalDist(prob[AtHand])
  BY <1>1, AtHandDone
<1>3. fresh \in SUBSET Node
  BY DEF Preds
<1> HIDE DEF fresh
<1>4. queue \in Seq(Node) /\ queue # <<>> /\ AtHand = Head(queue)
  BY <1>1, <1>2 DEF DSTypeOK, Working, AtHand
<1>5. Tail(queue) \in Seq(Node) /\ Range(queue) = {AtHand} \cup Range(Tail(queue))
  <2>1. /\ Tail(queue) \in Seq(Node) /\ Len(Tail(queue)) = Len(queue) - 1 /\ Len(queue) \in Nat \ {0}
        /\ \A i \in 1 .. Len(queue) - 1 : Tail(queue)[i] = queue[i + 1]
        /\ AtHand = queue[1]
    BY <1>4
  <2>2. ASSUME NEW i \in 1 .. Len(queue)  PROVE queue[i] \in {AtHand} \cup Range(Tail(queue))
    <3>1. CASE i = 1
      BY <2>1, <3>1
    <3>2. CASE i # 1
      <4>1. i - 1 \in 1 .. Len(queue) - 1 /\ i - 1 + 1 = i
        BY <2>1, <3>2
      <4>2. queue[i] = Tail(queue)[i - 1] /\ i - 1 \in DOMAIN Tail(queue)
        BY <2>1, <4>1
      <4> QED  BY <4>2 DEF Range
    <3> QED  BY <3>1, <3>2
  <2>3. ASSUME NEW i \in 1 .. Len(queue) - 1  PROVE Tail(queue)[i] \in Range(queue)
    <3>1. i + 1 \in DOMAIN queue /\ Tail(queue)[i] = queue[i + 1]
      BY <1>4, <2>1
    <3> QED  BY <3>1 DEF Range
  <2>4. AtHand \in Range(queue)
    <3>1. 1 \in DOMAIN queue
      BY <1>4, <2>1
    <3> QED  BY <2>1, <3>1 DEF Range
  <2> QED  BY <1>4, <2>1, <2>2, <2>3, <2>4 DEF Range
<1>6. /\ queue' \in Seq(Node) /\ Range(queue') = Range(Tail(queue)) \cup fresh
  <2>1. Ascending(fresh) \in Seq(Node) /\ Range(Ascending(fresh)) = fresh
    BY <1>3, AscendingIs
  <2> DEFINE a == Tail(queue)  b == Ascending(fresh)
  <2> HIDE DEF a, b
  <2>2. a \in Seq(Node) /\ b \in Seq(Node) /\ queue' = a \o b
    BY <1>1, <1>5, <2>1 DEF a, b
  <2>3. a \o b \in Seq(Node) /\ Range(a \o b) = Range(a) \cup Range(b)
    BY <2>2, ConcatProperties, RangeConcatenation
  <2> QED  BY <2>1, <2>2, <2>3 DEF a, b
<1>7. Ahead \subseteq {AtHand} \cup Ahead' /\ fresh \subseteq Ahead' /\ Reaches' = Reaches
  BY <1>1, <1>5, <1>6 DEF Ahead, Reaches
<1>8. bb_set \in [Node -> 0 .. 2] /\ bb_set' = [n \in Node |-> IF n \in fresh THEN 0 ELSE bb_set[n]]
  BY <1>1 DEF DSTypeOK, Forgotten
<1>9. DSTypeOK'
  <2>1. dist_changed' \in BOOLEAN
    BY <1>1 DEF DSTypeOK, Changed
  <2> QED  BY <1>1, <1>2, <1>3, <1>6, <1>8, <2>1 DEF DSTypeOK
<1>10. CallsInOrder' /\ Loops' /\ DivergentIsTrue'
  BY <1>1, <1>2 DEF CallsInOrder, Loops, DivergentIsTrue
<1>11. Marks'
  <2>1. ASSUME NEW m \in Node  PROVE bb_set'[m] # 1 /\ (bb_set'[m] # 2 => m \in Ahead')
    <3>1. CASE m \in fresh
      BY <1>7, <1>8, <3>1
    <3>2. CASE m \notin fresh
      <4>1. bb_set'[m] = bb_set[m]
        BY <1>8, <3>2
      <4>2. bb_set[m] # 1
        BY <1>2 DEF Marks
      <4>3. bb_set[m] # 2 => m \in Ahead'
        BY <1>2, <1>7 DEF Marks
      <4> QED  BY <4>1, <4>2, <4>3
    <3> QED  BY <3>1, <3>2
  <2> QED  BY <2>1 DEF Marks
<1>12. Current'
  BY <1>1, <1>2, <1>7 DEF Current, DSTypeOK
<1>13. ChanceMeansReachable' /\ DistanceMeansReachable'
  BY <1>1, <1>2, <1>7 DEF ChanceMeansReachable, DistanceMeansReachable
<1> QED  BY <1>9, <1>10, <1>11, <1>12, <1>13

\* What is chosen is what the probabilities say, and the distances say the same.
LEMMA SiftStep ==
    ASSUME CalcInv, DistancesAssumption, Sift  PROVE CalcInv'
<1> USE DEF CalcInv
<1>1. /\ phase = "correct" /\ queue = <<>> /\ divergent' = {n \in Node : Diverges(n)} /\ phase' = "done"
      /\ UNCHANGED <<succs, targets, ahead, prob, bb_set, stack, dist, queue, re_caled, dist_changed>>
  BY DEF Sift, graph, walk
<1>2. Ahead = {} /\ Ahead' = {} /\ stack = <<>> /\ Reaches' = Reaches
  BY <1>1 DEF Ahead, Loops, Working, Range, Reaches
<1>3. DivergentIsTrue'
  <2>1. ASSUME NEW n \in divergent' \ targets
        PROVE  /\ \E m \in succs[n] : dist[m] = Far
               /\ \E m \in succs[n] : dist[m] # Far
    <3>1. n \in Node /\ (\E m \in succs[n] : prob[m] > Cut) /\ (\E m \in succs[n] : prob[m] <= Cut)
      BY <1>1, <2>1 DEF Diverges
    <3>2. ASSUME NEW m \in succs[n]  PROVE dist[m] = Far <=> prob[m] <= Cut
      <4>1. m \in Node /\ prob[m] \in 0 .. One
        BY <3>1 DEF DSTypeOK
      <4> QED  BY <1>2, <4>1, CalDistIs DEF Current
    <3>3. ASSUME NEW m \in succs[n], prob[m] > Cut  PROVE ~(prob[m] <= Cut)
      <4>1. m \in Node /\ prob[m] \in 0 .. One
        BY <3>1 DEF DSTypeOK
      <4> QED  BY <3>3, <4>1 DEF DistancesAssumption
    <3> QED  BY <3>1, <3>2, <3>3
  <2> QED  BY <1>1, <2>1 DEF DivergentIsTrue
<1>4. DSTypeOK'
  BY <1>1 DEF DSTypeOK
<1>5. CallsInOrder' /\ Loops' /\ Marks' /\ Current'
  BY <1>1, <1>2 DEF CallsInOrder, Loops, Marks, Current
<1>6. ChanceMeansReachable' /\ DistanceMeansReachable'
  BY <1>1, <1>2 DEF ChanceMeansReachable, DistanceMeansReachable
<1> QED  BY <1>3, <1>4, <1>5, <1>6

\* A step of others changes nothing.
LEMMA CalcStays ==
    ASSUME CalcInv, UNCHANGED calcvars  PROVE CalcInv'
<1>1. UNCHANGED <<succs, targets, phase, ahead, prob, bb_set, stack, dist, queue, re_caled, dist_changed, divergent>>
  BY DEF calcvars, graph, walk
<1>2. Ahead' = Ahead /\ Reaches' = Reaches /\ (Working' <=> Working)
  BY <1>1 DEF Ahead, Reaches, Working
<1> QED  BY <1>1, <1>2 DEF CalcInv, DSTypeOK, CallsInOrder, Marks, Loops, Current, ChanceMeansReachable, DistanceMeansReachable, DivergentIsTrue

\* At any step of the calculation, whatever the graph: a distance is that of the
\* probability unless the loop has yet to come to the node, and what has any
\* probability reaches a target.
THEOREM CalcInvariant == CalcSpec => []CalcInv
<1>1. CalcInit => CalcInv
  <2> SUFFICES ASSUME CalcInit  PROVE CalcInv
    OBVIOUS
  <2> USE DistancesAssumption DEF CalcInit
  <2>1. DSTypeOK
    BY DEF DSTypeOK, DistancesAssumption, Far, nodes_need_calc
  <2>2. CallsInOrder /\ Loops
    BY DEF CallsInOrder, Loops
  <2>3. Marks /\ Current
    BY DEF Marks, Current, Ahead, nodes_need_calc
  <2>4. ChanceMeansReachable /\ DistanceMeansReachable /\ DivergentIsTrue
    BY DEF ChanceMeansReachable, DistanceMeansReachable, DivergentIsTrue
  <2> QED  BY <2>1, <2>2, <2>3, <2>4 DEF CalcInv
<1>2. CalcInv /\ [CalcNext]_calcvars => CalcInv'
  <2> SUFFICES ASSUME CalcInv, [CalcNext]_calcvars  PROVE CalcInv'
    OBVIOUS
  <2>1. CASE CalProb
    BY <2>1, DistancesAssumption, CalProbStep
  <2>2. CASE Descend
    BY <2>2, DistancesAssumption, DescendStep
  <2>3. CASE Add
    BY <2>3, DistancesAssumption, AddStep
  <2>4. CASE Leave
    BY <2>4, DistancesAssumption, LeaveStep
  <2>5. CASE First
    BY <2>5, DistancesAssumption, FirstStep
  <2>6. CASE Round
    BY <2>6, DistancesAssumption, RoundStep
  <2>7. CASE Correct
    BY <2>7, DistancesAssumption, CorrectStep
  <2>8. CASE Sift
    BY <2>8, DistancesAssumption, SiftStep
  <2>9. CASE UNCHANGED calcvars
    BY <2>9, CalcStays
  <2> QED  BY <2>1, <2>2, <2>3, <2>4, <2>5, <2>6, <2>7, <2>8, <2>9 DEF CalcNext
<1> QED  BY <1>1, <1>2, PTL DEF CalcSpec

\* Marks, probabilities and the calls under way have their types: no probability
\* exceeds one, however cycles are cut.
THEOREM CalcTypeCorrect == CalcSpec => []DSTypeOK
BY CalcInvariant, PTL DEF CalcInv

\* A distance means that a target can be reached, at every step of the calculation.
THEOREM CalcDistanceMeansReachable == CalcSpec => []DistanceMeansReachable
BY CalcInvariant, PTL DEF CalcInv

\* A branch that is instrumented has a way with a distance and one without.
THEOREM CalcDivergentIsTrue == CalcSpec => []DivergentIsTrue
BY CalcInvariant, PTL DEF CalcInv

-----------------------------------------------------------------------------
(* Sums over nodes.                                                        *)

\* What holds of 0, and of a number when it holds of the one before, holds up to N.
LEMMA UpToN ==
    ASSUME NEW A, 0 \in A, N \in Nat, \A k \in 1 .. N : k - 1 \in A => k \in A
    PROVE  0 .. N \subseteq A
<1> DEFINE Bad == {k \in 0 .. N : k \notin A}
<1> SUFFICES ASSUME Bad # {}  PROVE FALSE
  OBVIOUS
<1>1. Bad \in SUBSET Nat
  OBVIOUS
<1>2. PICK k \in Bad : \A l \in Bad : k <= l
  <2> HIDE DEF Bad
  <2> QED  BY <1>1, LeastNatural
<1>3. k \in 1 .. N /\ k - 1 \in 0 .. N /\ ~(k <= k - 1)
  <2>1. k \in 0 .. N /\ k # 0
    BY <1>2
  <2> QED  BY <2>1
<1>4. k - 1 \in A
  BY <1>2, <1>3
<1> QED  BY <1>2, <1>3, <1>4

\* A sum taken node by node.
SumUpTo(f, p, S) == f = [k \in 0 .. N |-> IF k = 0 THEN 0 ELSE f[k - 1] + (IF k \in S THEN p[k] ELSE 0)]

\* There are such sums, whatever the set.
LEMMA SumExists ==
    ASSUME N \in Nat, NEW S, NEW p, \A k \in S : p[k] \in Nat
    PROVE  \E f : SumUpTo(f, p, S) /\ f \in [0 .. N -> Nat]
<1> DEFINE T(k) == IF k \in S THEN p[k] ELSE 0
           Goes(f, k) == f \in [0 .. k -> Nat] /\ f[0] = 0 /\ \A i \in 1 .. k : f[i] = f[i - 1] + T(i)
           A == {k \in Nat : \E f : Goes(f, k)}
<1>1. 0 \in A
  <2>1. Goes([i \in 0 .. 0 |-> 0], 0)
    OBVIOUS
  <2> QED  BY <2>1
<1>2. ASSUME NEW k \in 1 .. N, k - 1 \in A  PROVE k \in A
  <2>1. PICK f : Goes(f, k - 1)
    BY <1>2
  <2>2. k \in Nat /\ k - 1 \in Nat /\ k - 1 \in 0 .. k - 1 /\ k - 1 \in 0 .. k
    BY <1>2
  <2>3. T(k) \in Nat
    OBVIOUS
  <2> HIDE DEF T
  <2> DEFINE g == [i \in 0 .. k |-> IF i = k THEN f[k - 1] + T(k) ELSE f[i]]
  <2>4. \A i \in 0 .. k : i # k => i \in 0 .. k - 1
    BY <2>2
  <2>5. g \in [0 .. k -> Nat]
    BY <2>1, <2>2, <2>3, <2>4
  <2>6. g[0] = 0
    BY <2>1, <2>2
  <2>7. ASSUME NEW i \in 1 .. k  PROVE g[i] = g[i - 1] + T(i)
    <3>1. i \in 0 .. k /\ i - 1 \in 0 .. k /\ i - 1 # k
      BY <2>2
    <3>2. g[i - 1] = f[i - 1]
      BY <3>1
    <3>3. CASE i = k
      BY <3>1, <3>2, <3>3
    <3>4. CASE i # k
      <4>1. i \in 1 .. k - 1 /\ g[i] = f[i]
        BY <2>2, <3>1, <3>4
      <4> QED  BY <2>1, <3>2, <4>1
    <3> QED  BY <3>3, <3>4
  <2> HIDE DEF g
  <2>8. Goes(g, k)
    BY <2>5, <2>6, <2>7
  <2> QED  BY <2>2, <2>8
<1>3. N \in A
  <2> HIDE DEF A
  <2>1. 0 .. N \subseteq A
    BY <1>1, <1>2, UpToN
  <2> QED  BY <2>1
<1>4. PICK f : Goes(f, N)
  BY <1>3
<1>5. SumUpTo(f, p, S)
  <2>1. f = [k \in 0 .. N |-> f[k]]
    BY <1>4
  <2>2. ASSUME NEW k \in 0 .. N  PROVE f[k] = IF k = 0 THEN 0 ELSE f[k - 1] + T(k)
    <3>1. k # 0 => k \in 1 .. N
      OBVIOUS
    <3> HIDE DEF T
    <3> QED  BY <1>4, <3>1
  <2> QED  BY <2>1, <2>2 DEF SumUpTo
<1> QED  BY <1>4, <1>5

\* The sums up to each node, the last of which is the sum.
Sums(f, p, S) ==
    /\ f \in [0 .. N -> Nat] /\ SumOf(p, S) = f[N] /\ f[0] = 0
    /\ \A k \in 1 .. N : f[k] = f[k - 1] + (IF k \in S THEN p[k] ELSE 0)

\* SumOf is the last of them.
LEMMA SumIs ==
    ASSUME N \in Nat, NEW S, NEW p, \A k \in S : p[k] \in Nat
    PROVE  \E f : Sums(f, p, S)
<1> DEFINE f == CHOOSE h : SumUpTo(h, p, S)
<1>1. SumOf(p, S) = f[N]
  BY DEF SumOf, SumUpTo
<1>2. SumUpTo(f, p, S)
  BY SumExists
<1> HIDE DEF f
<1>3. f[0] = 0 /\ \A k \in 1 .. N : f[k] = f[k - 1] + (IF k \in S THEN p[k] ELSE 0)
  BY <1>2 DEF SumUpTo
<1>4. \A k \in 0 .. N : f[k] \in Nat
  <2> DEFINE A == {k \in 0 .. N : f[k] \in Nat}
  <2>1. 0 \in A
    BY <1>3
  <2>2. \A k \in 1 .. N : k - 1 \in A => k \in A
    BY <1>3
  <2>3. 0 .. N \subseteq A
    <3> HIDE DEF A
    <3> QED  BY <2>1, <2>2, UpToN
  <2> QED  BY <2>3
<1>5. f \in [0 .. N -> Nat]
  <2>1. f = [k \in 0 .. N |-> f[k]]
    BY <1>2 DEF SumUpTo
  <2> QED  BY <1>4, <2>1
<1> QED  BY <1>1, <1>3, <1>5 DEF Sums

\* No nodes amount to nothing.
LEMMA SumOfNone ==
    ASSUME N \in Nat, NEW p  PROVE SumOf(p, {}) = 0
<1>1. PICK f : Sums(f, p, {})
  <2>1. \A k \in {} : p[k] \in Nat
    OBVIOUS
  <2> QED  BY <2>1, SumIs
<1> DEFINE A == {k \in 0 .. N : f[k] = 0}
<1>2. 0 \in A
  BY <1>1 DEF Sums
<1>3. \A k \in 1 .. N : k - 1 \in A => k \in A
  BY <1>1 DEF Sums
<1>4. 0 .. N \subseteq A
  <2> HIDE DEF A
  <2> QED  BY <1>2, <1>3, UpToN
<1> QED  BY <1>1, <1>4 DEF Sums

\* The same numbers for the nodes of S.
Agree(p, q, S) == \A k \in S : p[k] \in Nat /\ q[k] = p[k]

\* One more node adds what it has.
LEMMA SumOfMore ==
    ASSUME N \in Nat, NEW S \in SUBSET Node, NEW m \in Node, m \notin S, NEW p, NEW q,
           Agree(p, q, S), q[m] \in Nat
    PROVE  SumOf(q, S \cup {m}) = SumOf(p, S) + q[m]
<1> USE DEF Agree
<1>1. PICK f : Sums(f, p, S)
  <2>1. \A k \in S : p[k] \in Nat
    OBVIOUS
  <2> QED  BY <2>1, SumIs
<1>2. PICK g : Sums(g, q, S \cup {m})
  <2>1. \A k \in S \cup {m} : q[k] \in Nat
    OBVIOUS
  <2> QED  BY <2>1, SumIs
<1>3. m \in 1 .. N /\ m \in Nat
  BY DEF Node
<1> DEFINE A == {k \in 0 .. N : g[k] = f[k] + (IF m <= k THEN q[m] ELSE 0)}
<1>4. 0 \in A
  <2>1. 0 \in 0 .. N /\ ~(m <= 0)
    BY <1>3
  <2> QED  BY <1>1, <1>2, <2>1 DEF Sums
<1>5. ASSUME NEW k \in 1 .. N, k - 1 \in A  PROVE k \in A
  <2>1. k \in 0 .. N /\ k - 1 \in 0 .. N /\ f[k] \in Nat /\ f[k - 1] \in Nat
    BY <1>1 DEF Sums
  <2>2. /\ f[k] = f[k - 1] + (IF k \in S THEN p[k] ELSE 0)
        /\ g[k] = g[k - 1] + (IF k \in S \cup {m} THEN q[k] ELSE 0)
        /\ g[k - 1] = f[k - 1] + (IF m <= k - 1 THEN q[m] ELSE 0)
    BY <1>1, <1>2, <1>5 DEF Sums
  <2>3. CASE k = m
    <3>1. ~(m <= k - 1) /\ m <= k
      BY <1>3, <2>3
    <3>2. f[k] = f[k - 1] /\ g[k] = g[k - 1] + q[m] /\ g[k - 1] = f[k - 1]
      BY <2>1, <2>2, <2>3, <3>1
    <3> QED  BY <2>1, <3>1, <3>2
  <2>4. CASE k # m
    <3>1. m <= k - 1 <=> m <= k
      BY <1>3, <2>4
    <3> DEFINE d == IF m <= k THEN q[m] ELSE 0
               e == IF k \in S THEN p[k] ELSE 0
    <3>2. d \in Nat /\ e \in Nat
      OBVIOUS
    <3>3. g[k - 1] = f[k - 1] + d /\ f[k] = f[k - 1] + e /\ g[k] = g[k - 1] + e
      BY <2>2, <2>4, <3>1
    <3> HIDE DEF d, e
    <3>4. g[k] = f[k] + d
      BY <2>1, <3>2, <3>3
    <3> QED  BY <2>1, <3>4 DEF d
  <2> QED  BY <2>3, <2>4
<1>6. 0 .. N \subseteq A
  <2> HIDE DEF A
  <2> QED  BY <1>4, <1>5, UpToN
<1>7. N \in 0 .. N /\ m <= N
  BY <1>3
<1> QED  BY <1>1, <1>2, <1>6, <1>7 DEF Sums

-----------------------------------------------------------------------------
(* Sequences without repetition.                                           *)

\* What is left of a sequence without repetition when its head is gone.
LEMMA TailOnce ==
    ASSUME NEW q \in Seq(Node), q # <<>>, Once(q)
    PROVE  /\ Tail(q) \in Seq(Node) /\ Once(Tail(q))
           /\ Head(q) \notin Range(Tail(q)) /\ Range(q) = {Head(q)} \cup Range(Tail(q))
<1>1. /\ Tail(q) \in Seq(Node) /\ Len(Tail(q)) = Len(q) - 1 /\ Len(q) \in Nat \ {0}
      /\ \A i \in 1 .. Len(q) - 1 : Tail(q)[i] = q[i + 1] /\ i + 1 \in 1 .. Len(q) /\ i + 1 # 1
      /\ Head(q) = q[1] /\ 1 \in 1 .. Len(q)
      /\ DOMAIN q = 1 .. Len(q) /\ DOMAIN Tail(q) = 1 .. Len(Tail(q))
  OBVIOUS
<1> DEFINE t == Tail(q)  n == Len(q)
<1> HIDE DEF t, n
<1>2. Once(t)
  <2>1. ASSUME NEW i \in 1 .. n - 1, NEW j \in 1 .. n - 1, t[i] = t[j]  PROVE i = j
    <3>1. q[i + 1] = q[j + 1] /\ i + 1 \in 1 .. n /\ j + 1 \in 1 .. n
      BY <1>1, <2>1 DEF t, n
    <3>2. i + 1 = j + 1
      BY <3>1 DEF Once, n
    <3> QED  BY <3>2
  <2> QED  BY <1>1, <2>1 DEF Once, t, n
<1>3. Head(q) \notin Range(t)
  <2>1. ASSUME NEW i \in 1 .. n - 1, t[i] = Head(q)  PROVE FALSE
    <3>1. q[i + 1] = q[1] /\ i + 1 \in 1 .. n /\ i + 1 # 1 /\ 1 \in 1 .. n
      BY <1>1, <2>1 DEF t, n
    <3> QED  BY <3>1 DEF Once, n
  <2> QED  BY <1>1, <2>1 DEF Range, t, n
<1>4. ASSUME NEW i \in 1 .. n  PROVE q[i] \in {Head(q)} \cup Range(t)
  <2>1. CASE i = 1
    BY <1>1, <2>1
  <2>2. CASE i # 1
    <3>1. i - 1 \in 1 .. n - 1 /\ i - 1 + 1 = i
      BY <1>1, <2>2 DEF n
    <3>2. q[i] = t[i - 1] /\ i - 1 \in DOMAIN t
      BY <1>1, <3>1 DEF t, n
    <3> QED  BY <3>2 DEF Range
  <2> QED  BY <2>1, <2>2
<1>5. Range(q) \subseteq {Head(q)} \cup Range(t)
  BY <1>1, <1>4 DEF Range, n
<1>6. Head(q) \in Range(q) /\ Range(t) \subseteq Range(q)
  BY <1>1 DEF Range, t
<1> QED  BY <1>1, <1>2, <1>3, <1>5, <1>6 DEF t

\* Two sequences without repetition that have nothing in common, one after the other.
LEMMA JoinOnce ==
    ASSUME NEW a \in Seq(Node), NEW b \in Seq(Node), Once(a), Once(b), Range(a) \cap Range(b) = {}
    PROVE  /\ a \o b \in Seq(Node) /\ Once(a \o b)
           /\ Range(a \o b) = Range(a) \cup Range(b)
<1>1. a \o b \in Seq(Node) /\ Range(a \o b) = Range(a) \cup Range(b)
  BY ConcatProperties, RangeConcatenation
<1>2. /\ Len(a \o b) = Len(a) + Len(b) /\ Len(a) \in Nat /\ Len(b) \in Nat
      /\ \A i \in 1 .. Len(a) + Len(b) : (a \o b)[i] = IF i <= Len(a) THEN a[i] ELSE b[i - Len(a)]
  OBVIOUS
<1> DEFINE c == a \o b  m == Len(a)  n == Len(b)
<1> HIDE DEF c, m, n
<1>3. ASSUME NEW i \in 1 .. m + n, NEW j \in 1 .. m + n, c[i] = c[j]  PROVE i = j
  <2>1. /\ i <= m => i \in 1 .. m /\ c[i] = a[i]
        /\ j <= m => j \in 1 .. m /\ c[j] = a[j]
        /\ ~(i <= m) => i - m \in 1 .. n /\ c[i] = b[i - m]
        /\ ~(j <= m) => j - m \in 1 .. n /\ c[j] = b[j - m]
    BY <1>2 DEF c, m, n
  <2>2. /\ \A l \in 1 .. m : a[l] \in Range(a)
        /\ \A l \in 1 .. n : b[l] \in Range(b)
    BY DEF Range, m, n
  <2>3. CASE i <= m /\ j <= m
    BY <1>3, <2>1, <2>3 DEF Once, m
  <2>4. CASE ~(i <= m) /\ ~(j <= m)
    <3>1. i - m = j - m
      BY <1>3, <2>1, <2>4 DEF Once, n
    <3> QED  BY <1>2, <3>1 DEF m
  <2>5. CASE (i <= m) # (j <= m)
    BY <1>3, <2>1, <2>2, <2>5
  <2> QED  BY <2>3, <2>4, <2>5
<1> QED  BY <1>1, <1>2, <1>3 DEF Once, c, m, n

-----------------------------------------------------------------------------
(* What the corrections leave: every node that was computed again is the   *)
(* mean of its successors, as they are now or close to it.                 *)

\* The calls under way are of different nodes, each marked as being computed.
Distinct ==
    /\ \A i \in 1 .. Len(stack) : bb_set[stack[i].node] = 1
    /\ \A i, j \in 1 .. Len(stack) : stack[i].node = stack[j].node => i = j

\* No node is queued twice, and those that are or were queued are known.
Queued == Range(queue) \subseteq re_caled /\ Once(queue)

\* Until it is computed again, a node has the distance of its old probability.
Untouched == phase = "correct" => \A n \in Node : bb_set[n] # 2 => dist[n] = CalDist(prob[n])

\* p is what the probability of m is or was: the one of its distance, the one that it
\* has got and its distance is going to, or one for which its distance did not change.
Near(p, m) ==
    \/ CalDist(p) = dist[m]
    \/ m \in Range(queue) /\ bb_set[m] = 2 /\ p = prob[m]
    \/ m \in re_caled /\ m \notin Range(queue) /\ ~Changed(CalDist(p), dist[m])

\* The probability of a node is the mean of those near its successors'.
Mean(n) ==
    \E p \in [succs[n] -> 0 .. One] :
        /\ \A m \in succs[n] : Near(p[m], m)
        /\ prob[n] = SumOf(p, succs[n]) \div Cardinality(succs[n])

\* The sum of a call is that of probabilities near those of whom it has asked.
CallSum(c) ==
    \E p \in [succs[c.node] -> 0 .. One] :
        /\ \A m \in succs[c.node] \ c.todo : Near(p[m], m)
        /\ c.total = SumOf(p, succs[c.node] \ c.todo)

\* As long as a round of corrections has changed no distance, it has come or is to
\* come to every node without a distance beside one that has one.
Settled == phase = "correct" /\ ~dist_changed

AllRecaled == Settled => Wrong \subseteq re_caled

RecaledIsMean ==
    Settled => \A n \in re_caled : bb_set[n] = 2 =>
                   (n \in targets /\ prob[n] = One) \/ succs[n] = {} \/ Mean(n)

CallSums == Settled => \A i \in 1 .. Len(stack) : CallSum(stack[i])

WalkInv ==
    /\ Distinct /\ Queued /\ Untouched
    /\ AllRecaled /\ RecaledIsMean /\ CallSums
    /\ DistanceIsReachability

\* The walk computes no node again that is computed, so what was near still is.
LEMMA NearStays ==
    ASSUME CalcInv, UNCHANGED loops,
           \A m \in Node : bb_set[m] = 2 => bb_set'[m] = 2 /\ prob'[m] = prob[m]
    PROVE  /\ \A m \in Node, p \in 0 .. One : Near(p, m) => Near(p, m)'
           /\ \A n \in Node : bb_set[n] = 2 /\ Mean(n) => Mean(n)'
           /\ \A c \in Calls : CallSum(c) => CallSum(c)'
           /\ Settled' = Settled /\ Wrong' = Wrong /\ Queued' = Queued
<1>1. UNCHANGED <<succs, targets, phase, ahead, dist, queue, re_caled, dist_changed, divergent>>
  BY LoopsStay
<1>2. succs \in [Node -> SUBSET Node]
  BY DEF CalcInv, DSTypeOK
<1>3. ASSUME NEW m \in Node, NEW p \in 0 .. One, Near(p, m)  PROVE Near(p, m)'
  BY <1>1, <1>3 DEF Near, Range
<1>4. ASSUME NEW n \in Node, bb_set[n] = 2, Mean(n)  PROVE Mean(n)'
  <2>1. PICK p \in [succs[n] -> 0 .. One] :
            /\ \A m \in succs[n] : Near(p[m], m)
            /\ prob[n] = SumOf(p, succs[n]) \div Cardinality(succs[n])
    BY <1>4 DEF Mean
  <2>2. \A m \in succs[n] : Near(p[m], m)'
    <3>1. TAKE m \in succs[n]
    <3>2. m \in Node /\ p[m] \in 0 .. One
      BY <1>2, <2>1
    <3> QED  BY <1>3, <2>1, <3>2
  <2>3. prob'[n] = prob[n] /\ succs' = succs
    BY <1>1, <1>4
  <2> QED  BY <2>1, <2>2, <2>3 DEF Mean
<1>5. ASSUME NEW c \in Calls, CallSum(c)  PROVE CallSum(c)'
  <2>1. PICK p \in [succs[c.node] -> 0 .. One] :
            /\ \A m \in succs[c.node] \ c.todo : Near(p[m], m)
            /\ c.total = SumOf(p, succs[c.node] \ c.todo)
    BY <1>5 DEF CallSum
  <2>2. \A m \in succs[c.node] \ c.todo : Near(p[m], m)'
    <3>1. TAKE m \in succs[c.node] \ c.todo
    <3>2. m \in Node /\ p[m] \in 0 .. One
      BY <1>2, <2>1 DEF Calls
    <3> QED  BY <1>3, <2>1, <3>2
  <2> QED  BY <1>1, <2>1, <2>2 DEF CallSum
<1>6. Settled' = Settled /\ Wrong' = Wrong /\ Queued' = Queued
  BY <1>1 DEF Settled, Wrong, nodes_need_calc, Queued, Range, Once
<1> QED  BY <1>3, <1>4, <1>5, <1>6

\* Where a loop has a node at hand the calculation is not done.
LEMMA NotDone ==
    ASSUME CalcInv, Working, UNCHANGED phase  PROVE DistanceIsReachability'
BY DEF CalcInv, Loops, Working, DistanceIsReachability

\* A node that is not marked is entered: it joins the calls, or is a target.
LEMMA EnterKeeps ==
    ASSUME CalcInv, WalkInv, DistancesAssumption, Working, NEW n \in Node, Enter(n)
    PROVE  WalkInv'
<1> USE DEF WalkInv
<1>1. /\ UNCHANGED <<succs, targets, phase, ahead, dist, queue, re_caled, dist_changed, divergent>>
      /\ UNCHANGED loops /\ bb_set[n] = 0
  BY LoopsStay DEF Enter
<1>2. One \in Nat \ {0} /\ prob \in [Node -> 0 .. One] /\ bb_set \in [Node -> 0 .. 2]
      /\ stack \in Seq(Calls) /\ succs \in [Node -> SUBSET Node] /\ N \in Nat
  BY DEF DistancesAssumption, DSTypeOK, CalcInv
<1>3. /\ prob' = [prob EXCEPT ![n] = One] \/ prob' = prob
      /\ bb_set' = [bb_set EXCEPT ![n] = 1] \/ bb_set' = [bb_set EXCEPT ![n] = 2]
  BY DEF Enter
<1>4. \A m \in Node : bb_set[m] = 2 => bb_set'[m] = 2 /\ prob'[m] = prob[m]
  BY <1>1, <1>2, <1>3
<1>5. /\ \A m \in Node : bb_set[m] = 2 /\ Mean(m) => Mean(m)'
      /\ \A c \in Calls : CallSum(c) => CallSum(c)'
      /\ Settled' = Settled /\ Wrong' = Wrong /\ Queued'
  BY <1>1, <1>4, NearStays
<1>6. \A i \in 1 .. Len(stack) : stack[i] \in Calls /\ stack[i].node \in Node /\ stack[i].node # n
  <2>1. TAKE i \in 1 .. Len(stack)
  <2>2. stack[i] \in Calls
    BY <1>2
  <2>3. bb_set[stack[i].node] = 1
    BY DEF Distinct
  <2> QED  BY <1>1, <2>2, <2>3 DEF Calls
<1>7. AllRecaled' /\ DistanceIsReachability'
  <2>1. AllRecaled'
    BY <1>1, <1>5 DEF AllRecaled
  <2>2. phase' = phase
    BY <1>1
  <2> QED  BY <2>1, <2>2, NotDone
<1>8. CASE n \in targets
  <2>1. prob' = [prob EXCEPT ![n] = One] /\ bb_set' = [bb_set EXCEPT ![n] = 2] /\ stack' = stack
    BY <1>8 DEF Enter
  <2>2. Distinct'
    BY <1>2, <1>6, <2>1 DEF Distinct
  <2>3. Untouched'
    BY <1>1, <1>2, <2>1 DEF Untouched
  <2>4. RecaledIsMean'
    <3>1. ASSUME Settled, NEW m \in re_caled, bb_set'[m] = 2
          PROVE  (m \in targets /\ prob'[m] = One) \/ succs[m] = {} \/ Mean(m)'
      <4>0. m \in Node
        BY DEF CalcInv, DSTypeOK
      <4>1. CASE m = n
        BY <1>2, <1>8, <2>1, <4>1
      <4>2. CASE m # n
        <5>1. bb_set[m] = 2 /\ prob'[m] = prob[m]
          BY <1>2, <2>1, <3>1, <4>0, <4>2
        <5> QED  BY <1>5, <3>1, <4>0, <5>1 DEF RecaledIsMean
      <4> QED  BY <4>1, <4>2
    <3> QED  BY <1>1, <1>5, <3>1 DEF RecaledIsMean
  <2>5. CallSums'
    BY <1>5, <1>6, <2>1 DEF CallSums
  <2> QED  BY <1>5, <1>7, <2>2, <2>3, <2>4, <2>5
<1>9. CASE n \notin targets
  <2>1. PICK c \in Calls : /\ c.node = n /\ c.todo = succs[n] /\ c.total = 0
                           /\ stack' = Append(stack, c)
    <3> DEFINE d == [node |-> n, todo |-> succs[n], total |-> 0]
    <3>1. d \in Calls
      BY <1>2 DEF Calls
    <3>2. d.node = n /\ d.todo = succs[n] /\ d.total = 0 /\ stack' = Append(stack, d)
      BY <1>9 DEF Enter
    <3> HIDE DEF d
    <3> QED  BY <3>1, <3>2
  <2>2. prob' = prob /\ bb_set' = [bb_set EXCEPT ![n] = 1]
    BY <1>9 DEF Enter
  <2>3. /\ Len(stack') = Len(stack) + 1 /\ Len(stack) \in Nat
        /\ \A i \in 1 .. Len(stack) : stack'[i] = stack[i]
        /\ stack'[Len(stack) + 1] = c
    BY <1>2, <2>1
  <2>4. CallSum(c)'
    <3> DEFINE p == [m \in succs[n] |-> 0]
    <3>1. p \in [succs[n] -> 0 .. One]
      BY <1>2
    <3>2. SumOf(p, {}) = 0
      BY <1>2, SumOfNone
    <3>3. succs[n] \ c.todo = {}
      BY <2>1
    <3> HIDE DEF p
    <3> QED  BY <1>1, <2>1, <3>1, <3>2, <3>3 DEF CallSum
  <2>6. \A i \in 1 .. Len(stack') : i \in 1 .. Len(stack) \/ i = Len(stack) + 1
    BY <2>3
  <2>7. Distinct'
    <3>1. \A i \in 1 .. Len(stack') : bb_set'[stack'[i].node] = 1
      BY <1>2, <1>6, <2>1, <2>2, <2>3, <2>6 DEF Distinct
    <3>2. \A i, j \in 1 .. Len(stack') : stack'[i].node = stack'[j].node => i = j
      BY <1>6, <2>1, <2>3, <2>6 DEF Distinct
    <3> QED  BY <3>1, <3>2 DEF Distinct
  <2>8. Untouched'
    BY <1>1, <1>2, <2>2 DEF Untouched
  <2>9. RecaledIsMean'
    <3>1. ASSUME Settled, NEW m \in re_caled, bb_set'[m] = 2
          PROVE  (m \in targets /\ prob'[m] = One) \/ succs[m] = {} \/ Mean(m)'
      <4>0. m \in Node
        BY DEF CalcInv, DSTypeOK
      <4>1. bb_set[m] = 2 /\ prob'[m] = prob[m]
        BY <1>2, <2>2, <3>1, <4>0
      <4> QED  BY <1>5, <3>1, <4>0, <4>1 DEF RecaledIsMean
    <3> QED  BY <1>1, <1>5, <3>1 DEF RecaledIsMean
  <2>10. CallSums'
    <3>1. ASSUME Settled, NEW i \in 1 .. Len(stack')  PROVE CallSum(stack[i])' 
      <4>1. CASE i \in 1 .. Len(stack)
        <5>1. stack[i] \in Calls /\ CallSum(stack[i])
          BY <1>6, <3>1, <4>1 DEF CallSums
        <5>2. PICK d \in Calls : d = stack[i] /\ d = stack'[i]
          BY <2>3, <4>1, <5>1
        <5>3. CallSum(d)
          BY <5>1, <5>2
        <5>4. CallSum(d)'
          BY <1>5, <5>3
        <5> QED  BY <5>2, <5>4 DEF CallSum
      <4>2. CASE i = Len(stack) + 1
        <5>1. stack'[i] = c
          BY <2>3, <4>2
        <5> QED  BY <2>4, <5>1 DEF CallSum
      <4> QED  BY <2>6, <4>1, <4>2
    <3> QED  BY <1>5, <3>1 DEF CallSums
  <2> QED  BY <1>5, <1>7, <2>7, <2>8, <2>9, <2>10
<1> QED  BY <1>8, <1>9

\* A loop calls for the node at hand.
LEMMA CalProbKeeps ==
    ASSUME CalcInv, WalkInv, DistancesAssumption, CalProb  PROVE WalkInv'
BY AtHandIs, EnterKeeps DEF CalProb, CalcInv

\* A call asks a successor that is not marked.
LEMMA DescendKeeps ==
    ASSUME CalcInv, WalkInv, DistancesAssumption, Descend  PROVE WalkInv'
<1>1. stack # <<>> /\ Top.todo # {} /\ Enter(Succ)
  BY DEF Descend
<1>2. Working /\ Succ \in Node
  BY <1>1, TopIs
<1> QED  BY <1>1, <1>2, EnterKeeps

\* A successor that is added up is added as what it is or was.
LEMMA AddKeeps ==
    ASSUME CalcInv, WalkInv, DistancesAssumption, Add  PROVE WalkInv'
<1> USE DEF WalkInv
<1> DEFINE k == Len(stack)
<1>0. PICK n \in Node, m \in Node, v \in 0 .. One : n = Top.node /\ m = Succ /\ v = prob[m]
  <2>1. Top.node \in Node /\ Succ \in Node
    BY TopIs DEF Add
  <2>2. prob[Succ] \in 0 .. One
    BY <2>1 DEF CalcInv, DSTypeOK
  <2> QED  BY <2>1, <2>2
<1>1. PICK c \in Calls :
          /\ c.node = n /\ c.todo = Top.todo \ {m} /\ c.total = Top.total + v
          /\ stack' = Append(Front(stack), c)
  <2> DEFINE d == [node |-> n, todo |-> Top.todo \ {m}, total |-> Top.total + v]
  <2>1. stack # <<>> /\ Top.todo # {} /\ stack' = Append(Front(stack), d)
    BY <1>0 DEF Add
  <2>2. n \in Node /\ Top.todo \ {m} \in SUBSET Node /\ Top.total + v \in Nat
    <3>1. Top \in Calls /\ Top.total \in Nat
      BY <2>1, TopIs
    <3>2. v \in Nat
      BY DEF DistancesAssumption
    <3> QED  BY <3>1, <3>2 DEF Calls
  <2>3. d \in Calls
    BY <2>2 DEF Calls
  <2>4. d.node = n /\ d.todo = Top.todo \ {m} /\ d.total = Top.total + v
    OBVIOUS
  <2> HIDE DEF d
  <2> QED  BY <2>1, <2>3, <2>4
<1>2. /\ UNCHANGED loops /\ prob' = prob /\ bb_set' = bb_set /\ stack # <<>> /\ Top.todo # {}
      /\ UNCHANGED <<succs, targets, phase, ahead, dist, queue, re_caled, dist_changed, divergent>>
  BY LoopsStay DEF Add
<1>3. /\ One \in Nat \ {0} /\ prob \in [Node -> 0 .. One] /\ succs \in [Node -> SUBSET Node]
      /\ bb_set \in [Node -> 0 .. 2] /\ stack \in Seq(Calls) /\ N \in Nat
  BY DEF DistancesAssumption, CalcInv, DSTypeOK
<1>4. /\ k \in Nat \ {0} /\ Top = stack[k] /\ Top \in Calls
      /\ Front(stack) \in Seq(Calls) /\ Len(Front(stack)) = k - 1
      /\ \A i \in 1 .. k - 1 : Front(stack)[i] = stack[i]
      /\ n \in Node /\ Top.todo \subseteq succs[n] /\ Top.total \in Nat
      /\ m \in Top.todo /\ m \in Node /\ Working
  BY <1>0, <1>2, TopIs
<1>5. /\ \A l \in Node : bb_set[l] = 2 /\ Mean(l) => Mean(l)'
      /\ \A d \in Calls : CallSum(d) => CallSum(d)'
      /\ \A l \in Node, q \in 0 .. One : Near(q, l) => Near(q, l)'
      /\ Settled' = Settled /\ Wrong' = Wrong /\ Queued'
  BY <1>2, NearStays
<1> HIDE DEF k
<1>6. /\ Len(stack') = k /\ stack'[k] = c
      /\ \A i \in 1 .. k - 1 : stack'[i] = stack[i]
  BY <1>1, <1>4
<1>7. \A i \in 1 .. k : i = k \/ i \in 1 .. k - 1
  BY <1>4
<1>8. \A i \in 1 .. k : stack'[i].node = stack[i].node
  BY <1>0, <1>1, <1>4, <1>6, <1>7
<1>9. Distinct'
  BY <1>2, <1>6, <1>8 DEF Distinct, k
<1>10. Untouched' /\ AllRecaled' /\ DistanceIsReachability'
  <2>1. Untouched'
    BY <1>2 DEF Untouched
  <2>2. AllRecaled'
    BY <1>2, <1>5 DEF AllRecaled
  <2>3. phase' = phase
    BY <1>2
  <2> QED  BY <1>4, <2>1, <2>2, <2>3, NotDone
<1>11. RecaledIsMean'
  <2>1. \A l \in re_caled : l \in Node
    BY DEF CalcInv, DSTypeOK
  <2> QED  BY <1>2, <1>5, <2>1 DEF RecaledIsMean
<1>12. Settled => Near(v, m)
  <2>1. CASE bb_set[m] # 2
    BY <1>0, <1>4, <2>1 DEF Untouched, Settled, Near
  <2>2. CASE bb_set[m] = 2 /\ m \in Range(queue)
    BY <1>0, <2>2 DEF Near
  <2>3. CASE m \notin Range(queue)
    BY <1>0, <1>4, <2>3 DEF CalcInv, Current, Ahead, Settled, Near
  <2> QED  BY <2>1, <2>2, <2>3
<1>13. Settled => CallSum(c)'
  <2> HAVE Settled
  <2> DEFINE asked == succs[n] \ Top.todo
  <2>1. CallSum(Top)
    BY <1>4 DEF CallSums, k
  <2>2. PICK p \in [succs[n] -> 0 .. One] :
            /\ \A l \in asked : Near(p[l], l)
            /\ Top.total = SumOf(p, asked)
    BY <1>0, <2>1 DEF CallSum
  <2> DEFINE q == [p EXCEPT ![m] = v]
  <2>3. asked \in SUBSET Node /\ m \notin asked /\ m \in succs[n] /\ succs[n] \ c.todo = asked \cup {m}
    BY <1>1, <1>3, <1>4
  <2>4. q \in [succs[n] -> 0 .. One] /\ q[m] = v /\ \A l \in asked : q[l] = p[l]
    BY <1>3, <1>4, <2>2, <2>3
  <2> HIDE DEF q
  <2>5. SumOf(q, asked \cup {m}) = SumOf(p, asked) + q[m]
    <3>1. Agree(p, q, asked)
      <4> SUFFICES \A l \in asked : p[l] \in Nat /\ q[l] = p[l]
        BY DEF Agree
      <4>1. TAKE l \in asked
      <4>2. p[l] \in 0 .. One
        BY <2>2
      <4> QED  BY <1>3, <2>4, <4>2
    <3>2. q[m] \in Nat
      BY <1>3, <2>4
    <3>3. N \in Nat /\ asked \in SUBSET Node /\ m \notin asked
      BY <1>3, <2>3
    <3> HIDE DEF asked
    <3> QED  BY <3>1, <3>2, <3>3, SumOfMore
  <2>6. \A l \in asked \cup {m} : Near(q[l], l)'
    <3>1. TAKE l \in asked \cup {m}
    <3>2. l \in Node /\ q[l] \in 0 .. One
      BY <1>4, <2>3, <2>4
    <3>3. Near(q[l], l)
      <4>1. CASE l = m
        BY <1>12, <2>4, <4>1
      <4>2. CASE l \in asked
        BY <2>2, <2>4, <4>2
      <4> QED  BY <4>1, <4>2
    <3> QED  BY <1>5, <3>2, <3>3
  <2>7. c.node = n /\ c.total = SumOf(q, succs[n] \ c.todo) /\ succs' = succs
    BY <1>1, <1>2, <2>2, <2>3, <2>4, <2>5
  <2> HIDE DEF asked
  <2> QED  BY <2>3, <2>4, <2>6, <2>7 DEF CallSum
<1>14. CallSums'
  <2>1. ASSUME Settled, NEW i \in 1 .. k  PROVE CallSum(stack[i])'
    <3>1. CASE i = k
      BY <1>6, <1>13, <2>1, <3>1 DEF CallSum
    <3>2. CASE i \in 1 .. k - 1
      <4>1. stack[i] \in Calls /\ CallSum(stack[i])
        BY <1>3, <2>1, <3>2 DEF CallSums, k
      <4>2. PICK d \in Calls : d = stack[i] /\ d = stack'[i]
        BY <1>6, <3>2, <4>1
      <4>3. CallSum(d)
        BY <4>1, <4>2
      <4>4. CallSum(d)'
        BY <1>5, <4>3
      <4> QED  BY <4>2, <4>4 DEF CallSum
    <3> QED  BY <1>7, <3>1, <3>2
  <2> QED  BY <1>5, <1>6, <2>1 DEF CallSums
<1> QED  BY <1>5, <1>9, <1>10, <1>11, <1>14

\* A call returns the mean of what it has added up.
LEMMA LeaveKeeps ==
    ASSUME CalcInv, WalkInv, DistancesAssumption, Leave  PROVE WalkInv'
<1> USE DEF WalkInv
<1> DEFINE k == Len(stack)
<1>0. PICK n \in Node : n = Top.node
  BY TopIs DEF Leave
<1> DEFINE num == Cardinality(succs[n])
           p == IF num > 0 THEN Top.total \div num ELSE prob[n]
<1>1. /\ stack # <<>> /\ Top.todo = {} /\ stack' = Front(stack)
      /\ prob' = [prob EXCEPT ![n] = p] /\ bb_set' = [bb_set EXCEPT ![n] = 2]
      /\ UNCHANGED loops
  BY <1>0 DEF Leave
<1>2. UNCHANGED <<succs, targets, phase, ahead, dist, queue, re_caled, dist_changed, divergent>>
  BY <1>1, LoopsStay
<1>3. /\ One \in Nat \ {0} /\ prob \in [Node -> 0 .. One] /\ succs \in [Node -> SUBSET Node]
      /\ bb_set \in [Node -> 0 .. 2] /\ stack \in Seq(Calls) /\ N \in Nat
  BY DEF DistancesAssumption, CalcInv, DSTypeOK
<1>4. /\ k \in Nat \ {0} /\ Top = stack[k] /\ Top \in Calls
      /\ stack' \in Seq(Calls) /\ Len(stack') = k - 1
      /\ \A i \in 1 .. k - 1 : stack'[i] = stack[i]
      /\ n \in Node /\ Working
  BY <1>0, <1>1, TopIs
<1>5. k \in 1 .. k /\ \A i \in 1 .. k - 1 : i \in 1 .. k /\ i # k
  <2> HIDE DEF k
  <2> QED  BY <1>4
<1>6. bb_set[n] = 1 /\ \A i \in 1 .. k - 1 : stack[i].node # n
  BY <1>0, <1>4, <1>5 DEF Distinct
<1> HIDE DEF p, num, k
<1>7. \A m \in Node : bb_set[m] = 2 => bb_set'[m] = 2 /\ prob'[m] = prob[m]
  BY <1>1, <1>3, <1>4, <1>6
<1>8. /\ \A l \in Node : bb_set[l] = 2 /\ Mean(l) => Mean(l)'
      /\ \A d \in Calls : CallSum(d) => CallSum(d)'
      /\ \A l \in Node, q \in 0 .. One : Near(q, l) => Near(q, l)'
      /\ Settled' = Settled /\ Wrong' = Wrong /\ Queued'
  BY <1>1, <1>7, NearStays
<1>9. Distinct'
  <2>1. \A i \in 1 .. k - 1 : stack[i] \in Calls /\ stack[i].node \in Node
    <3>1. TAKE i \in 1 .. k - 1
    <3>2. i \in 1 .. Len(stack)
      BY <1>5 DEF k
    <3>3. stack[i] \in Calls
      BY <1>3, <3>2
    <3> QED  BY <3>3 DEF Calls
  <2>2. \A i \in 1 .. k - 1 : bb_set'[stack'[i].node] = 1
    BY <1>1, <1>3, <1>4, <1>5, <1>6, <2>1 DEF Distinct, k
  <2>3. \A i, j \in 1 .. k - 1 : stack'[i].node = stack'[j].node => i = j
    BY <1>4, <1>5 DEF Distinct, k
  <2> QED  BY <1>4, <2>2, <2>3 DEF Distinct
<1>10. Untouched' /\ AllRecaled' /\ DistanceIsReachability'
  <2>1. Untouched'
    BY <1>1, <1>2, <1>3, <1>4 DEF Untouched
  <2>2. AllRecaled'
    BY <1>2, <1>8 DEF AllRecaled
  <2>3. phase' = phase
    BY <1>2
  <2> QED  BY <1>4, <2>1, <2>2, <2>3, NotDone
<1>11. Settled => succs[n] = {} \/ Mean(n)'
  <2> HAVE Settled
  <2>1. CASE num > 0
    <3>1. CallSum(Top)
      BY <1>4, <1>5 DEF CallSums, k
    <3>2. PICK q \in [succs[n] -> 0 .. One] :
              (\A l \in succs[n] : Near(q[l], l)) /\ Top.total = SumOf(q, succs[n])
      BY <1>0, <1>1, <3>1 DEF CallSum
    <3>3. \A l \in succs[n] : Near(q[l], l)'
      <4>1. TAKE l \in succs[n]
      <4>2. l \in Node /\ q[l] \in 0 .. One
        BY <1>3, <1>4, <3>2
      <4> QED  BY <1>8, <3>2, <4>2
    <3>4. prob'[n] = SumOf(q, succs[n]) \div Cardinality(succs[n])
      BY <1>1, <1>3, <1>4, <2>1, <3>2 DEF p, num
    <3> QED  BY <1>2, <3>2, <3>3, <3>4 DEF Mean
  <2>2. CASE ~(num > 0)
    <3>1. IsFiniteSet(Node)
      BY FS_Interval DEF Node, DistancesAssumption
    <3>2. IsFiniteSet(succs[n]) /\ num \in Nat
      BY <1>3, <1>4, <3>1, FS_Subset, FS_CardinalityType DEF num
    <3>3. num = 0
      BY <2>2, <3>2
    <3> QED  BY <3>2, <3>3, FS_EmptySet DEF num
  <2> QED  BY <2>1, <2>2
<1>12. RecaledIsMean'
  <2>1. ASSUME Settled, NEW m \in re_caled, bb_set'[m] = 2
        PROVE  (m \in targets /\ prob'[m] = One) \/ succs[m] = {} \/ Mean(m)'
    <3>0. m \in Node
      BY DEF CalcInv, DSTypeOK
    <3>1. CASE m = n
      BY <1>11, <2>1, <3>1
    <3>2. CASE m # n
      <4>1. bb_set[m] = 2 /\ prob'[m] = prob[m]
        BY <1>1, <1>3, <1>4, <2>1, <3>0, <3>2
      <4> QED  BY <1>8, <2>1, <3>0, <4>1 DEF RecaledIsMean
    <3> QED  BY <3>1, <3>2
  <2> QED  BY <1>2, <1>8, <2>1 DEF RecaledIsMean
<1>13. CallSums'
  <2>1. ASSUME Settled, NEW i \in 1 .. k - 1  PROVE CallSum(stack[i])'
    <3>1. stack[i] \in Calls /\ CallSum(stack[i])
      BY <1>3, <1>5, <2>1 DEF CallSums, k
    <3>2. PICK d \in Calls : d = stack[i] /\ d = stack'[i]
      BY <1>4, <3>1
    <3>3. CallSum(d)
      BY <3>1, <3>2
    <3>4. CallSum(d)'
      BY <1>8, <3>3
    <3> QED  BY <3>2, <3>4 DEF CallSum
  <2> QED  BY <1>4, <1>8, <2>1 DEF CallSums
<1> QED  BY <1>8, <1>9, <1>10, <1>12, <1>13

\* The first loop corrects nothing.
LEMMA FirstKeeps ==
    ASSUME CalcInv, WalkInv, DistancesAssumption, First  PROVE WalkInv'
<1> USE DEF WalkInv
<1>1. /\ phase = "first" /\ CalDistAtHand
      /\ UNCHANGED <<succs, targets, prob, bb_set, stack, phase, queue, re_caled, dist_changed, divergent>>
  BY DEF First, graph, walk
<1>2. Distinct'
  BY <1>1 DEF Distinct
<1>3. Queued'
  BY <1>1 DEF Queued, Range, Once
<1>4. Untouched'
  BY <1>1 DEF Untouched
<1>5. ~Settled'
  BY <1>1 DEF Settled
<1>6. AllRecaled' /\ RecaledIsMean' /\ CallSums'
  BY <1>5 DEF AllRecaled, RecaledIsMean, CallSums
<1>7. DistanceIsReachability'
  BY <1>1 DEF DistanceIsReachability
<1> QED  BY <1>2, <1>3, <1>4, <1>6, <1>7

\* A round queues every node it has to come to.
LEMMA RoundKeeps ==
    ASSUME CalcInv, WalkInv, DistancesAssumption, Round  PROVE WalkInv'
<1> USE DEF WalkInv
<1>1. /\ \/ phase = "first" /\ ahead = {}
         \/ phase = "correct" /\ queue = <<>>
      /\ phase' = "correct" /\ queue' = Ascending(Wrong) /\ re_caled' = Wrong
      /\ bb_set' = Forgotten(Wrong, bb_set) /\ dist_changed' = FALSE
      /\ UNCHANGED <<succs, targets, ahead, prob, stack, dist, divergent>>
  BY DEF Round, graph
<1>2. Ahead = {} /\ stack = <<>>
  BY <1>1 DEF CalcInv, Ahead, Loops, Working, Range
<1>3. Wrong \in SUBSET Node /\ Wrong' = Wrong
  BY <1>1 DEF Wrong, nodes_need_calc
<1>4. bb_set' = [n \in Node |-> IF n \in Wrong THEN 0 ELSE bb_set[n]]
  BY <1>1 DEF Forgotten
<1>5. Distinct' /\ CallSums'
  BY <1>1, <1>2 DEF Distinct, CallSums
<1>6. Queued'
  <2>1. Range(Ascending(Wrong)) = Wrong /\ Once(Ascending(Wrong))
    BY <1>3, AscendingIs
  <2>2. Range(queue') = Wrong /\ Once(queue')
    BY <1>1, <2>1
  <2>3. Range(queue)' = Range(queue') /\ (Once(queue)' <=> Once(queue'))
    BY DEF Range, Once
  <2> QED  BY <1>1, <2>2, <2>3 DEF Queued
<1>7. Untouched'
  BY <1>1, <1>2 DEF Untouched, CalcInv, Current
<1>8. AllRecaled'
  BY <1>1, <1>3 DEF AllRecaled
<1>9. RecaledIsMean'
  <2>1. \A n \in Wrong : bb_set'[n] # 2
    BY <1>3, <1>4
  <2> QED  BY <1>1, <2>1 DEF RecaledIsMean
<1>10. DistanceIsReachability'
  BY <1>1 DEF DistanceIsReachability
<1> QED  BY <1>5, <1>6, <1>7, <1>8, <1>9, <1>10

\* A distance that is not said to have changed stays one, or stays none.
LEMMA UnchangedFar ==
    ASSUME NEW a \in Nat, NEW b \in Nat
    PROVE  /\ ~Changed(a, b) => (a = Far <=> b = Far)
           /\ a = b => ~Changed(a, b)
BY DEF Changed, Far

\* A correction keeps what was near: the node at hand has changed no more than the
\* round can tell, or the round is known to have changed something.
LEMMA CorrectKeeps ==
    ASSUME CalcInv, WalkInv, DistancesAssumption, Correct  PROVE WalkInv'
<1> USE DEF WalkInv
<1>0. PICK h \in Node : h = AtHand
  BY AtHandDone DEF Correct
<1> DEFINE fresh == Preds(AtHand) \ re_caled
<1>1. /\ phase = "correct" /\ CalDistAtHand
      /\ queue' = Tail(queue) \o Ascending(fresh) /\ re_caled' = re_caled \cup fresh
      /\ bb_set' = Forgotten(fresh, bb_set)
      /\ dist_changed' = (dist_changed \/ Changed(dist[h], dist'[h]))
      /\ UNCHANGED <<succs, targets, phase, ahead, prob, stack, divergent>>
  BY <1>0 DEF Correct, graph
<1>2. /\ bb_set[h] = 2 /\ stack = <<>> /\ Working
      /\ dist' = [dist EXCEPT ![h] = CalDist(prob[h])]
      /\ dist' \in [Node -> Nat] /\ dist'[h] = CalDist(prob[h])
  BY <1>0, <1>1, AtHandDone
<1>3. fresh \in SUBSET Node /\ fresh \cap re_caled = {}
  BY DEF Preds
<1>4. PICK new \in SUBSET Node : new = fresh
  BY <1>3
<1> HIDE DEF fresh
<1>5. /\ prob \in [Node -> 0 .. One] /\ succs \in [Node -> SUBSET Node] /\ dist \in [Node -> Nat]
      /\ bb_set \in [Node -> 0 .. 2] /\ re_caled \in SUBSET Node /\ queue \in Seq(Node)
      /\ dist_changed \in BOOLEAN
  BY DEF CalcInv, DSTypeOK
<1>6. queue # <<>> /\ h = Head(queue)
  BY <1>0, <1>1, <1>2 DEF Working, AtHand
<1>7. /\ Tail(queue) \in Seq(Node) /\ Once(Tail(queue))
      /\ h \notin Range(Tail(queue)) /\ Range(queue) = {h} \cup Range(Tail(queue))
  BY <1>5, <1>6, TailOnce DEF Queued
<1>8. Range(queue) \subseteq re_caled
  BY DEF Queued
<1>9. Ascending(new) \in Seq(Node) /\ Range(Ascending(new)) = new /\ Once(Ascending(new))
  BY AscendingIs
<1>10. Range(queue') = Range(Tail(queue)) \cup new /\ Once(queue')
  <2> DEFINE a == Tail(queue)  b == Ascending(new)
  <2>1. a \in Seq(Node) /\ b \in Seq(Node) /\ Once(a) /\ Once(b) /\ Range(a) \cap Range(b) = {}
    BY <1>3, <1>4, <1>7, <1>8, <1>9
  <2>2. queue' = a \o b
    BY <1>1, <1>4
  <2> HIDE DEF a, b
  <2>3. Once(a \o b) /\ Range(a \o b) = Range(a) \cup Range(b)
    BY <2>1, JoinOnce
  <2>4. Range(b) = new
    BY <1>9 DEF b
  <2> QED  BY <2>2, <2>3, <2>4 DEF a
<1>11. Range(queue)' = Range(queue') /\ (Once(queue)' <=> Once(queue'))
  BY DEF Range, Once
<1>12. Distinct' /\ CallSums'
  BY <1>1, <1>2 DEF Distinct, CallSums
<1>13. Queued'
  BY <1>1, <1>4, <1>7, <1>8, <1>10, <1>11 DEF Queued
<1>14. h \notin new /\ h \in re_caled /\ h \notin Range(queue')
       /\ \A m \in new : m \notin re_caled /\ m \notin Range(queue)
  BY <1>3, <1>4, <1>7, <1>8, <1>10
<1>15. bb_set' = [m \in Node |-> IF m \in new THEN 0 ELSE bb_set[m]]
  BY <1>1, <1>4 DEF Forgotten
<1>16. \A m \in Node : m # h => dist'[m] = dist[m]
  BY <1>2, <1>5
<1>17. Untouched'
  <2>1. ASSUME NEW m \in Node, bb_set'[m] # 2  PROVE dist'[m] = CalDist(prob[m])
    <3>1. CASE m \in new
      <4>1. m # h /\ m \notin Range(queue)
        BY <1>14, <3>1
      <4> QED  BY <1>1, <1>16, <4>1 DEF CalcInv, Current, Ahead
    <3>2. CASE m \notin new
      <4>1. bb_set[m] # 2 /\ m # h
        BY <1>2, <1>15, <2>1, <3>2
      <4> QED  BY <1>1, <1>16, <4>1 DEF Untouched
    <3> QED  BY <3>1, <3>2
  <2> QED  BY <1>1, <2>1 DEF Untouched
<1>18. Settled' => Settled /\ ~Changed(dist[h], dist'[h])
  BY <1>1, <1>5 DEF Settled
<1>19. AllRecaled'
  <2> SUFFICES ASSUME Settled'  PROVE Wrong' \subseteq re_caled'
    BY DEF AllRecaled
  <2>1. \A m \in Node : dist'[m] = Far <=> dist[m] = Far
    <3>1. dist[h] \in Nat /\ dist'[h] \in Nat
      BY <1>2, <1>5
    <3> QED  BY <1>16, <1>18, <3>1, UnchangedFar
  <2>2. Wrong' = Wrong
    <3>1. \A m \in Node : succs[m] \in SUBSET Node
      BY <1>5
    <3> QED  BY <1>1, <2>1, <3>1 DEF Wrong, nodes_need_calc
  <2> QED  BY <1>1, <1>18, <2>2 DEF AllRecaled
<1>20. ASSUME Settled', NEW m \in Node, NEW p \in 0 .. One, Near(p, m)  PROVE Near(p, m)'
  <2>0. dist'[m] \in Nat /\ CalDist(p) \in Nat
    BY <1>2, DistancesAssumption, CalDistIs
  <2>1. CASE m = h
    <3>1. CASE CalDist(p) = dist[h]
      <4>1. ~Changed(CalDist(p), dist'[h]) /\ h \in re_caled' /\ h \notin Range(queue')
        BY <1>1, <1>14, <1>18, <1>20, <3>1
      <4> QED  BY <1>11, <2>1, <4>1 DEF Near
    <3>2. CASE p = prob[h]
      BY <1>2, <2>1, <3>2 DEF Near
    <3> QED  BY <1>7, <1>20, <2>1, <3>1, <3>2 DEF Near
  <2>2. CASE m # h
    <3>1. dist'[m] = dist[m] /\ prob' = prob
      BY <1>1, <1>16, <2>2
    <3>2. CASE CalDist(p) = dist[m]
      BY <3>1, <3>2 DEF Near
    <3>3. CASE m \in Range(queue) /\ bb_set[m] = 2 /\ p = prob[m]
      <4>1. m \in Range(queue') /\ bb_set'[m] = 2
        BY <1>7, <1>10, <1>14, <1>15, <2>2, <3>3
      <4> QED  BY <1>11, <3>1, <3>3, <4>1 DEF Near
    <3>4. CASE m \in re_caled /\ m \notin Range(queue) /\ ~Changed(CalDist(p), dist[m])
      <4>1. m \in re_caled' /\ m \notin Range(queue')
        BY <1>1, <1>7, <1>10, <1>14, <3>4
      <4> QED  BY <1>11, <3>1, <3>4, <4>1 DEF Near
    <3> QED  BY <1>20, <3>2, <3>3, <3>4 DEF Near
  <2> QED  BY <2>1, <2>2
<1>21. RecaledIsMean'
  <2> SUFFICES ASSUME Settled', NEW m \in re_caled', bb_set'[m] = 2
               PROVE  (m \in targets' /\ prob'[m] = One) \/ succs'[m] = {} \/ Mean(m)'
    BY DEF RecaledIsMean
  <2>1. m \in re_caled /\ m \in Node /\ bb_set[m] = 2
    BY <1>1, <1>4, <1>5, <1>15
  <2>2. CASE Mean(m)
    <3>1. PICK p \in [succs[m] -> 0 .. One] :
              /\ \A l \in succs[m] : Near(p[l], l)
              /\ prob[m] = SumOf(p, succs[m]) \div Cardinality(succs[m])
      BY <2>2 DEF Mean
    <3>2. \A l \in succs[m] : Near(p[l], l)'
      <4>1. TAKE l \in succs[m]
      <4>2. l \in Node /\ p[l] \in 0 .. One
        BY <1>5, <2>1, <3>1
      <4> QED  BY <1>20, <3>1, <4>2
    <3> QED  BY <1>1, <3>1, <3>2 DEF Mean
  <2>3. CASE ~Mean(m)
    <3>1. (m \in targets /\ prob[m] = One) \/ succs[m] = {}
      BY <1>18, <2>1, <2>3 DEF RecaledIsMean
    <3> QED  BY <1>1, <3>1
  <2> QED  BY <2>2, <2>3
<1>22. DistanceIsReachability'
  BY <1>1 DEF DistanceIsReachability
<1> QED  BY <1>12, <1>13, <1>17, <1>19, <1>21, <1>22

\* When a round has changed nothing, a node that has no distance beside one that has
\* one has been computed again, and what it is the mean of is too little.
LEMMA SiftKeeps ==
    ASSUME CalcInv, CalcInv', WalkInv, DistancesAssumption, Sift  PROVE WalkInv'
<1> USE DEF WalkInv
<1>1. /\ phase = "correct" /\ queue = <<>> /\ ~dist_changed /\ phase' = "done"
      /\ UNCHANGED <<succs, targets, ahead, prob, bb_set, stack, dist, queue, re_caled, dist_changed>>
  BY DEF Sift, graph, walk
<1>2. Ahead = {} /\ Range(queue) = {} /\ Settled
  BY <1>1 DEF Ahead, Range, Settled
<1>3. Distinct' /\ Queued'
  BY <1>1 DEF Distinct, Queued, Range, Once
<1>4. ~Settled' /\ Untouched'
  BY <1>1 DEF Settled, Untouched
<1>5. AllRecaled' /\ RecaledIsMean' /\ CallSums'
  BY <1>4 DEF AllRecaled, RecaledIsMean, CallSums
<1>6. ASSUME NEW n \in Node, dist[n] = Far, \E m \in succs[n] : dist[m] # Far
      PROVE  \E p \in [succs[n] -> 0 .. One] :
                 /\ \A m \in succs[n] : ~Changed(CalDist(p[m]), dist[m])
                 /\ SumOf(p, succs[n]) \div Cardinality(succs[n]) <= Cut
  <2>1. n \in re_caled
    BY <1>2, <1>6 DEF AllRecaled, Wrong, nodes_need_calc
  <2>2. bb_set[n] = 2 /\ dist[n] = CalDist(prob[n])
    BY <1>2 DEF CalcInv, Marks, Current
  <2>3. /\ prob[n] \in 0 .. One /\ succs[n] \in SUBSET Node /\ dist \in [Node -> Nat]
        /\ One \in Nat \ {0} /\ Cut \in 0 .. One - 1
    BY DEF CalcInv, DSTypeOK, DistancesAssumption
  <2>4. prob[n] <= Cut
    BY <1>6, <2>2, <2>3, DistancesAssumption, CalDistIs
  <2>5. prob[n] # One
    BY <2>3, <2>4
  <2>6. Mean(n)
    BY <1>2, <1>6, <2>1, <2>2, <2>5 DEF RecaledIsMean
  <2>7. PICK p \in [succs[n] -> 0 .. One] :
            /\ \A m \in succs[n] : Near(p[m], m)
            /\ prob[n] = SumOf(p, succs[n]) \div Cardinality(succs[n])
    BY <2>6 DEF Mean
  <2>8. \A m \in succs[n] : ~Changed(CalDist(p[m]), dist[m])
    <3>1. TAKE m \in succs[n]
    <3>2. p[m] \in 0 .. One /\ dist[m] \in Nat
      BY <2>3, <2>7
    <3>3. CalDist(p[m]) \in Nat
      BY <3>2, DistancesAssumption, CalDistIs
    <3>4. CalDist(p[m]) = dist[m] => ~Changed(CalDist(p[m]), dist[m])
      BY <3>2, <3>3, UnchangedFar
    <3> QED  BY <1>2, <2>7, <3>4 DEF Near
  <2> QED  BY <2>4, <2>7, <2>8
<1>7. DistanceIsReachability'
  <2>1. DistanceMeansReachable'
    BY DEF CalcInv
  <2>2. succs' = succs /\ dist' = dist
    BY <1>1
  <2>3. \A n \in Node : dist'[n] = Far /\ (\E m \in succs'[n] : dist'[m] # Far) =>
            \E p \in [succs'[n] -> 0 .. One] :
                /\ \A m \in succs'[n] : ~Changed(CalDist(p[m]), dist'[m])
                /\ SumOf(p, succs'[n]) \div Cardinality(succs'[n]) <= Cut
    BY <1>6, <2>2
  <2> QED  BY <2>1, <2>3 DEF DistanceIsReachability
<1> QED  BY <1>3, <1>4, <1>5, <1>7

\* A step of others changes nothing.
LEMMA WalkStays ==
    ASSUME CalcInv, WalkInv, UNCHANGED calcvars  PROVE WalkInv'
<1> USE DEF WalkInv
<1>1. /\ UNCHANGED loops /\ stack' = stack /\ prob' = prob /\ bb_set' = bb_set
      /\ UNCHANGED <<succs, targets, phase, dist, re_caled>>
  BY DEF calcvars, walk, loops, graph
<1>2. /\ \A n \in Node : bb_set[n] = 2 /\ Mean(n) => Mean(n)'
      /\ \A c \in Calls : CallSum(c) => CallSum(c)'
      /\ Settled' = Settled /\ Wrong' = Wrong /\ Queued'
  <2>1. \A m \in Node : bb_set[m] = 2 => bb_set'[m] = 2 /\ prob'[m] = prob[m]
    BY <1>1
  <2> QED  BY <1>1, <2>1, NearStays
<1>3. re_caled \in SUBSET Node /\ stack \in Seq(Calls)
  BY DEF CalcInv, DSTypeOK
<1>4. Distinct' /\ Untouched' /\ AllRecaled'
  BY <1>1, <1>2 DEF Distinct, Untouched, AllRecaled
<1>5. RecaledIsMean'
  BY <1>1, <1>2, <1>3 DEF RecaledIsMean
<1>6. CallSums'
  <2>1. ASSUME Settled, NEW i \in 1 .. Len(stack)  PROVE CallSum(stack[i])'
    <3>1. stack[i] \in Calls /\ CallSum(stack[i])
      BY <1>3, <2>1 DEF CallSums
    <3>2. PICK d \in Calls : d = stack[i] /\ d = stack'[i]
      BY <1>1, <3>1
    <3>3. CallSum(d)'
      BY <1>2, <3>1, <3>2
    <3> QED  BY <3>2, <3>3 DEF CallSum
  <2> QED  BY <1>1, <1>2, <2>1 DEF CallSums
<1>7. DistanceIsReachability'
  <2>1. DistanceMeansReachable'
    BY CalcStays DEF CalcInv
  <2>2. succs' = succs /\ dist' = dist /\ phase' = phase
    BY <1>1
  <2>3. phase' = "done" =>
          \A n \in Node : dist'[n] = Far /\ (\E m \in succs'[n] : dist'[m] # Far) =>
            \E p \in [succs'[n] -> 0 .. One] :
                /\ \A m \in succs'[n] : ~Changed(CalDist(p[m]), dist'[m])
                /\ SumOf(p, succs'[n]) \div Cardinality(succs'[n]) <= Cut
    BY <2>2 DEF DistanceIsReachability
  <2> QED  BY <2>1, <2>3 DEF DistanceIsReachability
<1> QED  BY <1>2, <1>4, <1>5, <1>6, <1>7

\* While a round of corrections has changed nothing, it has come or is to come to
\* every node without a distance beside one that has one, and those computed again
\* are the mean of what their successors are, or were before a change that the round
\* does not tell.
THEOREM CalcRoundInvariant == CalcSpec => []WalkInv
<1>1. CalcInit => WalkInv
  <2> SUFFICES ASSUME CalcInit  PROVE WalkInv
    OBVIOUS
  <2>1. /\ stack = <<>> /\ queue = <<>> /\ phase = "first"
    BY DEF CalcInit
  <2>2. Distinct /\ Queued /\ Untouched
    BY <2>1 DEF Distinct, Queued, Untouched, Range, Once
  <2>3. ~Settled
    BY <2>1 DEF Settled
  <2>4. AllRecaled /\ RecaledIsMean /\ CallSums
    BY <2>3 DEF AllRecaled, RecaledIsMean, CallSums
  <2>5. DistanceIsReachability
    BY <2>1 DEF DistanceIsReachability
  <2> QED  BY <2>2, <2>4, <2>5 DEF WalkInv
<1>2. CalcInv /\ CalcInv' /\ WalkInv /\ [CalcNext]_calcvars => WalkInv'
  <2> SUFFICES ASSUME CalcInv, CalcInv', WalkInv, [CalcNext]_calcvars  PROVE WalkInv'
    OBVIOUS
  <2>1. CASE CalProb
    BY <2>1, DistancesAssumption, CalProbKeeps
  <2>2. CASE Descend
    BY <2>2, DistancesAssumption, DescendKeeps
  <2>3. CASE Add
    BY <2>3, DistancesAssumption, AddKeeps
  <2>4. CASE Leave
    BY <2>4, DistancesAssumption, LeaveKeeps
  <2>5. CASE First
    BY <2>5, DistancesAssumption, FirstKeeps
  <2>6. CASE Round
    BY <2>6, DistancesAssumption, RoundKeeps
  <2>7. CASE Correct
    BY <2>7, DistancesAssumption, CorrectKeeps
  <2>8. CASE Sift
    BY <2>8, DistancesAssumption, SiftKeeps
  <2>9. CASE UNCHANGED calcvars
    BY <2>9, WalkStays
  <2> QED  BY <2>1, <2>2, <2>3, <2>4, <2>5, <2>6, <2>7, <2>8, <2>9 DEF CalcNext
<1> QED  BY <1>1, <1>2, CalcInvariant, PTL DEF CalcSpec

\* When the calculation is done, whatever the graph, the targets and the units, a
\* distance means that a target can be reached, and a node without one beside a node
\* that has one owes it to the cutoff: neither the order of the walk nor the cut of
\* the cycles has hidden a target from it.
THEOREM CalcDistanceIsReachability == CalcSpec => []DistanceIsReachability
BY CalcRoundInvariant, PTL DEF WalkInv

-----------------------------------------------------------------------------
(* That every walk and every round come to an end.                         *)

Fewer(S, T) == S \subseteq T /\ S # T

Unmarked == {n \in Node : bb_set[n] = 0}

\* A step takes a node from the first loop, queues nodes that this round has not had,
\* or takes one from the queue; or else it marks a node, returns from a call, or has
\* one successor less to ask.
Advances ==
    \/ Fewer(ahead', ahead)
    \/ ahead' = ahead /\ Fewer(re_caled, re_caled')
    \/ ahead' = ahead /\ re_caled' = re_caled /\ Len(queue') < Len(queue)
    \/ /\ UNCHANGED <<ahead, re_caled, queue>>
       /\ \/ Fewer(Unmarked', Unmarked)
          \/ Unmarked' = Unmarked /\ Len(stack') < Len(stack)
          \/ Unmarked' = Unmarked /\ Len(stack') = Len(stack) /\ Fewer(Top'.todo, Top.todo)


\* A node that is entered is marked.
LEMMA EnterAdvances ==
    ASSUME CalcInv, NEW n \in Node, Enter(n)  PROVE Advances
<1>1. UNCHANGED <<ahead, re_caled, queue>> /\ bb_set[n] = 0
  BY LoopsStay DEF Enter
<1>2. bb_set' = [bb_set EXCEPT ![n] = 1] \/ bb_set' = [bb_set EXCEPT ![n] = 2]
  BY DEF Enter
<1>3. bb_set \in [Node -> 0 .. 2]
  BY DEF CalcInv, DSTypeOK
<1>4. n \in Unmarked /\ n \notin Unmarked' /\ Unmarked' \subseteq Unmarked
  BY <1>1, <1>2, <1>3 DEF Unmarked
<1> QED  BY <1>1, <1>4 DEF Advances, Fewer

\* In every graph, whatever its cycles and however often the walk meets a node, every
\* step but the beginning of a round and the end of the calculation comes closer to the
\* end of the walk, of the round or of the first loop. There are finitely many nodes,
\* so none of them goes on for ever.
THEOREM CalcAdvances == CalcSpec => [][Round \/ Sift \/ Advances]_calcvars
<1>1. ASSUME CalcInv, WalkInv, CalcNext  PROVE Round \/ Sift \/ Advances
  <2>1. CASE CalProb
    <3>1. AtHand \in Node
      BY <1>1, <2>1, DistancesAssumption, AtHandIs DEF CalProb, CalcInv
    <3> QED  BY <1>1, <2>1, <3>1, EnterAdvances DEF CalProb
  <2>2. CASE Descend
    <3>1. Succ \in Node
      BY <1>1, <2>2, DistancesAssumption, TopIs DEF Descend
    <3> QED  BY <1>1, <2>2, <3>1, EnterAdvances DEF Descend
  <2>3. CASE Add
    <3>1. PICK c \in Calls : c.todo = Top.todo \ {Succ} /\ stack' = Append(Front(stack), c)
      <4>1. /\ Top.node \in Node /\ Top \in Calls /\ Succ \in Node
        BY <1>1, <2>3, DistancesAssumption, TopIs DEF Add
      <4>2. prob[Succ] \in Nat
        BY <1>1, <4>1, DistancesAssumption DEF CalcInv, DSTypeOK, DistancesAssumption
      <4> DEFINE d == [node |-> Top.node, todo |-> Top.todo \ {Succ},
                       total |-> Top.total + prob[Succ]]
      <4>3. d \in Calls
        BY <4>1, <4>2 DEF Calls
      <4>4. d.todo = Top.todo \ {Succ} /\ stack' = Append(Front(stack), d)
        BY <2>3 DEF Add
      <4> HIDE DEF d
      <4> QED  BY <4>3, <4>4
    <3>2. /\ Front(stack) \in Seq(Calls) /\ Len(Front(stack)) = Len(stack) - 1
          /\ Len(stack) \in Nat \ {0} /\ Succ \in Top.todo
      BY <1>1, <2>3, DistancesAssumption, TopIs DEF Add
    <3>3. Len(stack') = Len(stack) /\ stack'[Len(stack')] = c
      BY <3>1, <3>2
    <3>4. Fewer(Top'.todo, Top.todo)
      BY <3>1, <3>2, <3>3 DEF Fewer, Top, Last
    <3>5. UNCHANGED <<ahead, re_caled, queue>> /\ Unmarked' = Unmarked
      BY <2>3, LoopsStay DEF Add, Unmarked
    <3> QED  BY <3>3, <3>4, <3>5 DEF Advances
  <2>4. CASE Leave
    <3>1. /\ Len(stack) \in Nat \ {0} /\ Len(stack') = Len(stack) - 1
          /\ Top.node \in Node /\ Top = stack[Len(stack)]
      BY <1>1, <2>4, DistancesAssumption, TopIs DEF Leave
    <3>2. bb_set[Top.node] = 1
      BY <1>1, <3>1 DEF WalkInv, Distinct
    <3>3. Unmarked' = Unmarked
      <4>1. bb_set \in [Node -> 0 .. 2] /\ bb_set' = [bb_set EXCEPT ![Top.node] = 2]
        BY <1>1, <2>4 DEF CalcInv, DSTypeOK, Leave
      <4> QED  BY <3>1, <3>2, <4>1 DEF Unmarked
    <3>4. UNCHANGED <<ahead, re_caled, queue>>
      BY <2>4, LoopsStay DEF Leave
    <3> QED  BY <3>1, <3>3, <3>4 DEF Advances
  <2>5. CASE First
    <3>1. AtHand \in ahead
      BY <1>1, <2>5, DistancesAssumption, AtHandIs DEF First, CalDistAtHand, CalcInv, Ahead
    <3> QED  BY <2>5, <3>1 DEF First, Advances, Fewer
  <2>6. CASE Correct
    <3> DEFINE fresh == Preds(AtHand) \ re_caled
    <3>1. queue' = Tail(queue) \o Ascending(fresh) /\ re_caled' = re_caled \cup fresh /\ ahead' = ahead
      BY <2>6 DEF Correct
    <3>2. queue \in Seq(Node) /\ queue # <<>>
      BY <1>1, <2>6 DEF CalcInv, DSTypeOK, Correct, CalDistAtHand, Working
    <3>3. fresh \in SUBSET Node /\ fresh \cap re_caled = {}
      BY DEF Preds
    <3> HIDE DEF fresh
    <3>4. CASE fresh = {}
      <4>1. Ascending(fresh) \in Seq(Node) /\ Range(Ascending(fresh)) = {}
        BY <3>3, <3>4, DistancesAssumption, AscendingIs
      <4> DEFINE a == Ascending(fresh)
      <4> HIDE DEF a
      <4>2. Len(a) = 0
        <5>1. a \in Seq(Node) /\ \A i \in 1 .. Len(a) : a[i] \in Range(a)
          BY <4>1 DEF a, Range
        <5> QED  BY <4>1, <5>1 DEF a
      <4>3. Len(Tail(queue) \o a) = Len(queue) - 1 /\ Len(queue) \in Nat
        BY <3>2, <4>1, <4>2 DEF a
      <4>4. Len(queue') < Len(queue)
        BY <3>1, <4>3 DEF a
      <4> QED  BY <3>1, <3>4, <4>4 DEF Advances
    <3>5. CASE fresh # {}
      BY <3>1, <3>3, <3>5 DEF Advances, Fewer
    <3> QED  BY <3>4, <3>5
  <2> QED  BY <1>1, <2>1, <2>2, <2>3, <2>4, <2>5, <2>6 DEF CalcNext
<1>2. CalcInv /\ WalkInv /\ [CalcNext]_calcvars => [Round \/ Sift \/ Advances]_calcvars
  BY <1>1
<1> QED  BY <1>2, CalcInvariant, CalcRoundInvariant, PTL DEF CalcSpec
=============================================================================
