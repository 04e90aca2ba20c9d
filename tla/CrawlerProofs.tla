---------------------------- MODULE CrawlerProofs ----------------------------
(***************************************************************************)
(* The request crawler, for any site, whatever its pages yield and however *)
(* browser, timers and handlers run into each other and the crawler is     *)
(* killed: the counter that decides whether a request is tried again never *)
(* counts more than was added, the file knows of the request at hand, and  *)
(* no request is tried more often than there are rounds in vain.           *)
(***************************************************************************)
EXTENDS Crawler, FiniteSetTheorems, TLAPS

\* What runs between two saves, up to the verdict on the request.
Started == Exploring \cup {"launch", "login", "exercise", "judge"}

\* A request is handed out in the first round at the earliest.
InARound == pc \in Started \cup {"save"} => currentURLRound >= 1

\* A pass of the loop over the page has begun: there was one left.
Passing == pc \in {"scan", "settle", "init_again", "poll", "count"} => cnt < timeoutLoops

\* The counter as it was before the scan, and what the scan has found since, were added.
ScanIsSound == pc = "scan" /\ base # NaN => base + scanned <= fresh

\* Every exploration in vain is one of the attempts, in memory and in the file.
AttemptsCount ==
    /\ pc \notin {"load", "dead"} => \A r \in Requests : fruitless[r] <= attempts[r]
    /\ disk.text = "whole" => \A r \in Requests : fruitless[r] <= disk.attempts[r]
    /\ disk = NoFile => \A r \in Requests : fruitless[r] = 0

Course    == InARound /\ Passing
Counters  == ScanIsSound /\ CounterIsSound
Efforts   == AttemptsCount /\ EffortBounded

CrawlerInv == TypeOK /\ Course /\ Counters /\ StartedIsOnDisk /\ Efforts

-----------------------------------------------------------------------------
\* A set of natural numbers that is not empty has a least element.
LEMMA LeastNatural ==
    ASSUME NEW S \in SUBSET Nat, S # {}
    PROVE  Min(S) \in S /\ \A y \in S : Min(S) <= y
  <1> DEFINE Less == {ss \in Nat \X Nat : ss[1] < ss[2]}
  <1>1. IsWellFoundedOn(Less, Nat)
    BY NatLessThanWellFounded DEF OpToRel
  <1>2. PICK x \in S : \A y \in S : ~(<<y, x>> \in Less)
    BY <1>1, WFMin
  <1>3. \A y \in S : x <= y
    <2> SUFFICES ASSUME NEW y \in S, ~(x <= y) PROVE FALSE
      OBVIOUS
    <2>1. x \in Nat /\ y \in Nat /\ y < x
      OBVIOUS
    <2>2. <<y, x>> \in Less
      BY <2>1
    <2>. QED BY <1>2, <2>2
  <1>. QED BY <1>3 DEF Min

\* The loop's counter is taken back by three, and to zero at most.
LEMMA TakenBack ==
    ASSUME NEW c \in Nat
    PROVE  Max({c - 3, 0}) \in 0 .. c
  <1> DEFINE m == IF c - 3 >= 0 THEN c - 3 ELSE 0
  <1>1. m \in {c - 3, 0} /\ \A x \in {c - 3, 0} : m >= x
    OBVIOUS
  <1>2. PICK x \in {c - 3, 0} : x = Max({c - 3, 0}) /\ \A y \in {c - 3, 0} : x >= y
    BY <1>1 DEF Max
  <1>. QED BY <1>2

\* A sequence is a beginning of itself, and stays one of what is appended to.
LEMMA PrefixKept ==
    ASSUME NEW s \in Seq(Requests)
    PROVE  /\ IsPrefix(s, s)
           /\ \A t \in Seq(Requests), r \in Requests :
                 IsPrefix(s, t) => IsPrefix(s, Append(t, r))
  <1>1. IsPrefix(s, s)
    BY DEF IsPrefix
  <1>2. ASSUME NEW t \in Seq(Requests), NEW r \in Requests, IsPrefix(s, t)
        PROVE  IsPrefix(s, Append(t, r))
    <2>1. Len(s) <= Len(t) /\ Len(Append(t, r)) = Len(t) + 1
      BY <1>2 DEF IsPrefix
    <2>2. SubSeq(Append(t, r), 1, Len(s)) = SubSeq(t, 1, Len(s))
      BY <2>1
    <2>. QED BY <1>2, <2>1, <2>2 DEF IsPrefix
  <1>. QED BY <1>1, <1>2

\* What the scanner reports is a sequence of requests, in whatever order.
LEMMA ReportedIsSeq ==
    ASSUME NEW S \in SUBSET Scanner, NEW more \in SetToSeqs(S)
    PROVE  more \in Seq(Requests)
  <1>1. Scanner \subseteq Requests /\ IsFiniteSet(Scanner)
    BY CrawlerAssumption
  <1>2. IsFiniteSet(S)
    BY <1>1, FS_Subset
  <1>3. Cardinality(S) \in Nat
    BY <1>2, FS_CardinalityType
  <1>4. more \in [1 .. Cardinality(S) -> S]
    BY DEF SetToSeqs
  <1>. QED BY <1>1, <1>3, <1>4

\* What getNextRequest does when it finds a request: the request's attempts grow by one,
\* to the round at most, and nobody's become fewer.
HandsOut(r, round) ==
    /\ attempts[r] < round /\ attempts'[r] = attempts[r] + 1
    /\ \A q \in Requests : attempts'[q] >= attempts[q]
    /\ currentURLRound' = round /\ currentRequest' = r
    /\ fruitless' = [fruitless EXCEPT ![r] = @ + 1]
    /\ disk' = Torn /\ pc' = "save"

\* The requests not to be visited are given up, which takes no attempts back.
LEMMA GivingUp ==
    ASSUME TypeOK, NEW i \in Nat
    PROVE  /\ GivenUp(attempts, i) \in [Requests -> 0 .. MAX_NUM_ROUNDS]
           /\ \A q \in Requests : GivenUp(attempts, i)[q] >= attempts[q]
           /\ \A q \in Requests \ Ignored : GivenUp(attempts, i)[q] = attempts[q]
  <1>1. MAX_NUM_ROUNDS \in Nat
    BY CrawlerAssumption
  <1>2. \A q \in Requests : attempts[q] \in 0 .. MAX_NUM_ROUNDS
    BY DEF TypeOK
  <1>. QED BY <1>1, <1>2 DEF GivenUp

\* getNextRequest hands out a request, or the crawl is over.
LEMMA NextRequest ==
    ASSUME TypeOK, getNextRequest
    PROVE  /\ attempts' \in [Requests -> 0 .. MAX_NUM_ROUNDS]
           /\ \/ /\ pc' = "over" /\ currentURLRound' = MAX_NUM_ROUNDS + 1
                 /\ \A q \in Requests : attempts'[q] >= attempts[q]
                 /\ UNCHANGED <<currentRequest, disk, fruitless>>
              \/ \E r \in Requests, round \in 1 .. MAX_NUM_ROUNDS : HandsOut(r, round)
  <1> DEFINE rounds == {k \in currentURLRound .. MAX_NUM_ROUNDS : Eligible(k) # {}}
  <1>1. MAX_NUM_ROUNDS \in Nat /\ currentURLRound \in Nat /\ keys \in Seq(Requests)
    BY CrawlerAssumption DEF TypeOK
  <1>2. Len(keys) \in Nat
    BY <1>1
  <1>3. CASE rounds = {}
    <2>1. attempts' = GivenUp(attempts, Len(keys))
      BY <1>3 DEF getNextRequest
    <2>. QED BY <1>2, <1>3, <2>1, GivingUp DEF getNextRequest
  <1>4. CASE rounds # {}
    <2> DEFINE round == Min(rounds)
               i     == Min(Eligible(round))
               seen  == IF round = currentURLRound THEN i ELSE Len(keys)
    <2>1. rounds \in SUBSET Nat
      BY <1>1
    <2>2. round \in rounds
      BY <1>4, <2>1, LeastNatural
    <2>3. Eligible(round) # {} /\ round \in currentURLRound .. MAX_NUM_ROUNDS
      BY <2>2
    <2>4. Eligible(round) \in SUBSET Nat
      BY <1>1 DEF Eligible
    <2>5. i \in Eligible(round)
      BY <2>3, <2>4, LeastNatural
    <2>6. i \in DOMAIN keys /\ keys[i] \notin Ignored /\ attempts[keys[i]] < round
      BY <2>5 DEF Eligible
    <2>7. i \in Nat /\ keys[i] \in Requests
      BY <1>1, <2>6
    <2>8. attempts[keys[i]] \in Nat /\ attempts[keys[i]] <= MAX_NUM_ROUNDS
      BY <1>1, <2>7 DEF TypeOK
    <2>9. round \in 1 .. MAX_NUM_ROUNDS
      BY <1>1, <2>3, <2>6, <2>8
    <2>10. seen \in Nat
      BY <1>2, <2>7
    <2>11. /\ currentURLRound' = round
           /\ attempts' = [GivenUp(attempts, seen) EXCEPT ![keys[i]] = @ + 1]
           /\ currentRequest' = keys[i]
           /\ fruitless' = [fruitless EXCEPT ![keys[i]] = @ + 1]
           /\ disk' = Torn /\ pc' = "save"
      BY <1>4 DEF getNextRequest
    <2>12. HIDE DEF rounds, round, i, seen
    <2>13. GivenUp(attempts, seen)[keys[i]] = attempts[keys[i]]
      BY <2>6, <2>7, <2>10, GivingUp
    <2>14. attempts[keys[i]] + 1 \in 0 .. MAX_NUM_ROUNDS
      BY <1>1, <2>6, <2>8, <2>9
    <2>15. /\ attempts' \in [Requests -> 0 .. MAX_NUM_ROUNDS]
           /\ attempts'[keys[i]] = attempts[keys[i]] + 1
      BY <2>7, <2>10, <2>11, <2>13, <2>14, GivingUp
    <2>16. ASSUME NEW q \in Requests PROVE attempts'[q] >= attempts[q]
      <3>1. GivenUp(attempts, seen)[q] >= attempts[q] /\ attempts[q] \in Nat
        BY <1>1, <2>10, GivingUp DEF TypeOK
      <3>2. CASE q = keys[i]
        BY <2>15, <3>1, <3>2
      <3>3. CASE q # keys[i]
        BY <2>7, <2>10, <2>11, <3>1, <3>3, GivingUp
      <3>. QED BY <3>2, <3>3
    <2>17. HandsOut(keys[i], round)
      BY <2>6, <2>11, <2>15, <2>16 DEF HandsOut
    <2>. QED BY <2>7, <2>9, <2>15, <2>17
  <1>. QED BY <1>3, <1>4

-----------------------------------------------------------------------------
\* The bounds of rounds, passes and waits.
LEMMA Bounds ==
    /\ MAX_NUM_ROUNDS \in Nat \ {0} /\ timeoutLoops \in Nat \ {0} /\ Errors \in Nat \ {0}
    /\ Horde \in Nat \ {0} /\ Patience \in Nat \ {0} /\ MaxCrashes \in Nat /\ Many \in Nat
  BY CrawlerAssumption

\* The invariant holds of a crawler that was not started.
LEMMA CrawlerInitially == Init => CrawlerInv
  <1> SUFFICES ASSUME Init PROVE CrawlerInv
    OBVIOUS
  <1> USE CrawlerAssumption
  <1>1. disk \in {NoFile, Saved(Given, [r \in Requests |-> 0])}
    BY DEF Init
  <1>2. disk \in {NoFile, Torn} \cup [text : {"whole"}, keys : Seq(Requests),
                                      attempts : [Requests -> 0 .. MAX_NUM_ROUNDS]]
    BY <1>1 DEF Saved
  <1>3. TypeOK
    <2>1. keys \in Seq(Requests) /\ pc = "load" /\ requestsAdded = [n |-> 0, text |-> FALSE]
      BY DEF Init, Zero
    <2>2. requestsAdded \in [n : Nat \cup {NaN}, text : BOOLEAN]
      BY <2>1
    <2>3. /\ attempts \in [Requests -> 0 .. MAX_NUM_ROUNDS] /\ fruitless \in [Requests -> Nat]
          /\ currentURLRound \in 0 .. MAX_NUM_ROUNDS + 1 /\ crashes \in 0 .. MaxCrashes
      BY Bounds DEF Init
    <2>4. /\ tries \in 0 .. 2 /\ cnt \in 0 .. timeoutLoops /\ errorLoopcnt \in 0 .. Errors - 1
          /\ ticks \in 0 .. Patience /\ gremlinsTime \in 0 .. Horde
      BY Bounds DEF Init
    <2>. QED BY <1>2, <2>1, <2>2, <2>3, <2>4 DEF Init, TypeOK
  <1>4. Course /\ Counters /\ StartedIsOnDisk
    BY DEF Init, Zero, Course, InARound, Passing, Counters, ScanIsSound, CounterIsSound,
           StartedIsOnDisk, Started, Exploring
  <1>5. Efforts
    <2>1. disk.text = "whole" => \A r \in Requests : disk.attempts[r] = 0
      BY <1>1 DEF Saved, NoFile
    <2>. QED BY <2>1 DEF Init, Efforts, AttemptsCount, EffortBounded
  <1>. QED BY <1>3, <1>4, <1>5 DEF CrawlerInv

\* What the handlers of the browser's events change is the counter, and the keys.
LEMMA CounterType ==
    ASSUME NEW c \in [n : Nat \cup {NaN}, text : BOOLEAN]
    PROVE  /\ PlusPlus(c) \in [n : Nat \cup {NaN}, text : BOOLEAN]
           /\ PlusOne(c) \in [n : Nat \cup {NaN}, text : BOOLEAN]
           /\ AddPromise(c) \in [n : Nat \cup {NaN}, text : BOOLEAN]
           /\ ParseInt(c) \in [n : Nat \cup {NaN}, text : BOOLEAN]
           /\ PlusPlus(c).n \in {NaN, c.n + 1} /\ PlusOne(c).n \in {c.n, c.n + 1}
           /\ (c.n = NaN => PlusPlus(c).n = NaN /\ PlusOne(c).n = NaN)
           /\ AddPromise(c).n = c.n /\ ParseInt(c).n = c.n
  <1>1. c = [n |-> c.n, text |-> c.text] /\ c.n \in Nat \cup {-1} /\ c.text \in BOOLEAN
    BY DEF NaN
  <1>2. /\ AddPromise(c) \in [n : Nat \cup {NaN}, text : BOOLEAN] /\ AddPromise(c).n = c.n
        /\ ParseInt(c) \in [n : Nat \cup {NaN}, text : BOOLEAN] /\ ParseInt(c).n = c.n
    BY DEF AddPromise, ParseInt
  <1>3. CASE c.text \/ c.n = NaN
    BY <1>1, <1>2, <1>3 DEF PlusPlus, PlusOne, NaN
  <1>4. CASE ~(c.text \/ c.n = NaN)
    <2>1. /\ PlusPlus(c) = [n |-> c.n + 1, text |-> c.text]
          /\ PlusOne(c) = [n |-> c.n + 1, text |-> c.text]
      BY <1>1, <1>4 DEF PlusPlus, PlusOne, NaN
    <2>. QED BY <1>1, <1>2, <1>4, <2>1 DEF NaN
  <1>. QED BY <1>3, <1>4

\* Requests are appended to the keys.
LEMMA KeysGrow ==
    ASSUME TypeOK, NEW r \in Links, addRequest(r)
    PROVE  /\ keys' \in Seq(Requests)
           /\ \A s \in Seq(Requests) : IsPrefix(s, keys) => IsPrefix(s, keys')
  <1>1. r \in Requests /\ keys \in Seq(Requests)
    BY CrawlerAssumption DEF TypeOK
  <1>. QED BY <1>1, PrefixKept DEF addRequest

\* Loading gives every variable of AppData its type, and what the file says.
LEMMA LoadType ==
    ASSUME TypeOK, Load, disk.text = "whole"
    PROVE  /\ keys' = disk.keys /\ keys' \in Seq(Requests)
           /\ attempts' = disk.attempts /\ currentURLRound' \in 0 .. 1
  <1> DEFINE tried == {disk.attempts[r] : r \in ToSet(disk.keys)}
  <1>1. MAX_NUM_ROUNDS \in Nat \ {0}
    BY CrawlerAssumption
  <1>2. disk.keys \in Seq(Requests) /\ disk.attempts \in [Requests -> 0 .. MAX_NUM_ROUNDS]
    BY DEF TypeOK, NoFile, Torn
  <1>3. ToSet(disk.keys) \subseteq Requests
    BY <1>2 DEF ToSet
  <1>4. {1} \cup tried \in SUBSET Nat
    BY <1>1, <1>2, <1>3
  <1>5. Min({1} \cup tried) \in Nat /\ Min({1} \cup tried) <= 1
    BY <1>4, LeastNatural
  <1>6. /\ keys' = disk.keys /\ currentURLRound' = Min({1} \cup tried)
        /\ attempts' = [r \in Requests |-> disk.attempts[r]]
    BY DEF Load, StartingAttempts, NoFile, Torn
  <1>. QED BY <1>2, <1>5, <1>6

\* The types of AppData and its files, of the counter, and of the loops.
DataTyped ==
    /\ keys \in Seq(Requests)
    /\ attempts \in [Requests -> 0 .. MAX_NUM_ROUNDS]
    /\ currentURLRound \in 0 .. MAX_NUM_ROUNDS + 1
    /\ currentRequest \in Requests \cup {NoRequest}
    /\ disk \in {NoFile, Torn} \cup [text : {"whole"}, keys : Seq(Requests),
                                     attempts : [Requests -> 0 .. MAX_NUM_ROUNDS]]
    /\ scanner \in BOOLEAN
    /\ crashes \in 0 .. MaxCrashes /\ fruitless \in [Requests -> Nat]

CountTyped ==
    /\ requestsAdded \in [n : Nat \cup {NaN}, text : BOOLEAN]
    /\ base \in Nat \cup {NaN} /\ scanned \in Nat /\ fresh \in Nat

LoopsTyped ==
    /\ thrown \in BOOLEAN /\ changed \in BOOLEAN
    /\ tries \in 0 .. 2 /\ cnt \in 0 .. timeoutLoops /\ errorLoopcnt \in 0 .. Errors - 1
    /\ ticks \in 0 .. Patience /\ gremlinsTime \in 0 .. Horde

PlacesTyped ==
    /\ pc \in Exploring \cup {"load", "pick", "save", "launch", "login", "exercise", "judge",
                              "close", "update", "over", "dead"}
    /\ browser \in {"off", "up", "closed"}

\* The type invariant in four parts.
LEMMA TypeParts == TypeOK <=> DataTyped /\ CountTyped /\ LoopsTyped /\ PlacesTyped
  BY DEF TypeOK, DataTyped, CountTyped, LoopsTyped, PlacesTyped

\* And of the state after a step.
LEMMA TypePartsPrimed == TypeOK' <=> (DataTyped /\ CountTyped /\ LoopsTyped /\ PlacesTyped)'
  BY DEF TypeOK, DataTyped, CountTyped, LoopsTyped, PlacesTyped

\* AppData and its files keep their types.
LEMMA DataTypeStep ==
    ASSUME CrawlerInv, [Next]_vars
    PROVE  DataTyped'
  <1> USE Bounds DEF DataTyped
  <1>0. DataTyped /\ TypeOK
    BY TypeParts DEF CrawlerInv
  <1>1. CASE Load
    <2>1. CASE disk.text = "whole"
      <3>1. /\ keys' \in Seq(Requests) /\ currentURLRound' \in 0 .. MAX_NUM_ROUNDS + 1
            /\ attempts' \in [Requests -> 0 .. MAX_NUM_ROUNDS]
        BY <1>0, <1>1, <2>1, LoadType DEF NoFile, Torn
      <3>. QED BY <1>0, <1>1, <3>1 DEF Load, files
    <2>2. CASE disk = NoFile
      <3>1. keys' \in Seq(Requests)
        BY <1>1, <2>2, CrawlerAssumption DEF Load, NoFile, Torn
      <3>2. /\ currentURLRound' = 1
            /\ UNCHANGED <<attempts, currentRequest, files, crashes, fruitless>>
        BY <1>1, <2>2 DEF Load, NoFile, Torn
      <3>. QED BY <1>0, <3>1, <3>2 DEF files
    <2>3. CASE disk = Torn
      <3>1. UNCHANGED <<keys, attempts, currentURLRound, currentRequest, files, crashes, fruitless>>
        BY <1>1, <2>3 DEF Load, NoFile, Torn
      <3>. QED BY <1>0, <3>1 DEF files
    <2>. QED BY <1>0, <2>1, <2>2, <2>3
  <1>2. CASE getNextRequest
    <2>1. /\ attempts' \in [Requests -> 0 .. MAX_NUM_ROUNDS]
          /\ \/ /\ currentURLRound' = MAX_NUM_ROUNDS + 1
                /\ UNCHANGED <<currentRequest, disk, fruitless>>
             \/ \E r \in Requests, round \in 1 .. MAX_NUM_ROUNDS : HandsOut(r, round)
      BY <1>0, <1>2, NextRequest
    <2>2. UNCHANGED <<keys, scanner, crashes>>
      BY <1>2 DEF getNextRequest
    <2>3. CASE /\ currentURLRound' = MAX_NUM_ROUNDS + 1
               /\ UNCHANGED <<currentRequest, disk, fruitless>>
      BY <1>0, <2>1, <2>2, <2>3
    <2>4. ASSUME NEW r \in Requests, NEW round \in 1 .. MAX_NUM_ROUNDS, HandsOut(r, round)
          PROVE  DataTyped'
      <3>1. /\ currentURLRound' = round /\ currentRequest' = r /\ disk' = Torn
            /\ fruitless' = [fruitless EXCEPT ![r] = @ + 1]
        BY <2>4 DEF HandsOut
      <3>2. fruitless' \in [Requests -> Nat]
        BY <1>0, <3>1
      <3>. QED BY <1>0, <2>1, <2>2, <3>1, <3>2
    <2>. QED BY <2>1, <2>3, <2>4
  <1>3. CASE save
    <2>1. disk' \in [text : {"whole"}, keys : Seq(Requests),
                     attempts : [Requests -> 0 .. MAX_NUM_ROUNDS]]
      BY <1>0, <1>3 DEF save, Saved
    <2>. QED BY <1>0, <1>3, <2>1 DEF save, pool
  <1>4. CASE updateReqsFromExternal
    <2>1. CASE scanner
      <3>1. PICK more \in SetToSeqs(Scanner \ Known) : keys' = keys \o more
        BY <1>4, <2>1 DEF updateReqsFromExternal
      <3>2. more \in Seq(Requests)
        BY ReportedIsSeq
      <3>3. keys' \in Seq(Requests)
        BY <1>0, <3>1, <3>2
      <3>. QED BY <1>0, <1>4, <2>1, <3>3 DEF updateReqsFromExternal, files
    <2>. QED BY <1>0, <1>4, <2>1 DEF updateReqsFromExternal, files
  <1>5. CASE Judge
    <2>1. currentURLRound >= 1
      BY <1>5 DEF Judge, CrawlerInv, Course, InARound, Started
    <2>2. currentURLRound - 1 \in 0 .. MAX_NUM_ROUNDS
      BY <1>0, <2>1
    <2>3. \/ attempts' = attempts
          \/ attempts' = [attempts EXCEPT ![currentRequest] = currentURLRound - 1]
      BY <1>5 DEF Judge, resetRequestsAttempts
    <2>4. attempts' \in [Requests -> 0 .. MAX_NUM_ROUNDS]
      BY <1>0, <2>2, <2>3
    <2>5. fruitless' = fruitless \/ fruitless' = [fruitless EXCEPT ![currentRequest] = 0]
      BY <1>5 DEF Judge
    <2>6. fruitless' \in [Requests -> Nat]
      <3>1. fruitless \in [Requests -> Nat]
        BY <1>0
      <3>2. CASE fruitless' = fruitless
        BY <3>1, <3>2
      <3>3. CASE fruitless' = [fruitless EXCEPT ![currentRequest] = 0]
        BY <3>1, <3>3
      <3>. QED BY <2>5, <3>2, <3>3
    <2>7. UNCHANGED <<keys, currentURLRound, currentRequest, disk, scanner, crashes>>
      BY <1>5 DEF Judge, files
    <2>. QED BY <1>0, <2>4, <2>6, <2>7
  <1>6. CASE ScanFinds
    BY <1>0, <1>6, KeysGrow DEF ScanFinds, files
  <1>7. CASE processRequest
    BY <1>0, <1>7, KeysGrow DEF processRequest, files
  <1>8. CASE targetChanged
    <2>1. keys' \in Seq(Requests)
      BY <1>0, <1>8, KeysGrow DEF targetChanged
    <2>. QED BY <1>0, <1>8, <2>1 DEF targetChanged, files
  <1>9. CASE ScannerReports
    BY <1>0, <1>9 DEF ScannerReports, pool
  <1>10. CASE Crash
    <2>1. keys' = <<>> /\ attempts' = [r \in Requests |-> 0] /\ currentURLRound' = 1
      BY <1>10 DEF Crash
    <2>2. keys' \in Seq(Requests) /\ attempts' \in [Requests -> 0 .. MAX_NUM_ROUNDS]
      BY <2>1
    <2>3. crashes' \in 0 .. MaxCrashes
      BY <1>0, <1>10 DEF Crash
    <2>4. currentRequest' = NoRequest /\ UNCHANGED <<disk, scanner, fruitless>>
      BY <1>10 DEF Crash, files
    <2>5. currentURLRound' \in 0 .. MAX_NUM_ROUNDS + 1
      BY <2>1
    <2>6. currentRequest' \in Requests \cup {NoRequest}
      BY <2>4
    <2>7. disk' \in {NoFile, Torn} \cup [text : {"whole"}, keys : Seq(Requests),
                                        attempts : [Requests -> 0 .. MAX_NUM_ROUNDS]]
      BY <1>0, <2>4
    <2>8. scanner' \in BOOLEAN /\ fruitless' \in [Requests -> Nat]
      BY <1>0, <2>4
    <2>. QED BY <2>2, <2>3, <2>5, <2>6, <2>7, <2>8
  <1>11. CASE UNCHANGED <<pool, files, crashes, fruitless>>
    BY <1>0, <1>11 DEF pool, files
  <1>. QED BY <1>1, <1>2, <1>3, <1>4, <1>5, <1>6, <1>7, <1>8, <1>9, <1>10, <1>11
           DEF Next, explorationWorker, vars, Only, Launch, do_login, exerciseTarget, LoadThrows,
               BadResponse, InitPage, PageReady, BeginScan, EndScan, SamePage, LoopThrows, Poll,
               GremlinsDone, GremlinsLate, PollThrows, CountGremlins, EndLoop, Close, PageTimer,
               GremlinsErrorTest

\* The counter keeps its type, and a number in it never exceeds what was added.
LEMMA CounterStep ==
    ASSUME CrawlerInv, [Next]_vars
    PROVE  CountTyped' /\ Counters'
  <1> USE DEF CountTyped, Counters, ScanIsSound, CounterIsSound
  <1>0. CountTyped /\ Counters
    BY TypeParts DEF CrawlerInv
  <1> DEFINE Counter == [n : Nat \cup {NaN}, text : BOOLEAN]
             c == requestsAdded
  <1>c. /\ {PlusPlus(c), PlusOne(c), AddPromise(c), ParseInt(c)} \subseteq Counter
        /\ PlusPlus(c).n \in {NaN, c.n + 1} /\ PlusOne(c).n \in {c.n, c.n + 1}
        /\ (c.n = NaN => PlusPlus(c).n = NaN /\ PlusOne(c).n = NaN)
        /\ AddPromise(c).n = c.n /\ ParseInt(c).n = c.n
    BY <1>0, CounterType
  <1>n. c.n \in Nat \cup {NaN}
    BY <1>0
  <1>1. CASE processRequest
    <2>1. \/ UNCHANGED <<requestsAdded, fresh>>
          \/ requestsAdded' = PlusPlus(requestsAdded) /\ fresh' = fresh + 1
      BY <1>1 DEF processRequest
    <2>2. requestsAdded' \in Counter
      BY <1>0, <1>c, <2>1
    <2>3. requestsAdded'.n # NaN => requestsAdded'.n <= fresh'
      BY <1>0, <1>c, <1>n, <2>1 DEF NaN
    <2>. QED BY <1>0, <1>1, <2>1, <2>2, <2>3 DEF processRequest, NaN
  <1>2. CASE targetChanged
    <2>1. \/ UNCHANGED <<requestsAdded, fresh>>
          \/ requestsAdded' = PlusOne(requestsAdded) /\ fresh' = fresh + 1
      BY <1>2 DEF targetChanged
    <2>2. requestsAdded' \in Counter
      BY <1>0, <1>c, <2>1
    <2>3. requestsAdded'.n # NaN => requestsAdded'.n <= fresh'
      BY <1>0, <1>c, <1>n, <2>1 DEF NaN
    <2>. QED BY <1>0, <1>2, <2>1, <2>2, <2>3 DEF targetChanged, NaN
  <1>3. CASE InitPage
    <2>1. requestsAdded' \in Counter /\ requestsAdded'.n = requestsAdded.n /\ pc' # "scan"
      BY <1>0, <1>c, <1>3 DEF InitPage, initpage
    <2>. QED BY <1>0, <1>3, <2>1 DEF InitPage, Only
  <1>4. CASE BeginScan
    <2>1. /\ requestsAdded' \in Counter /\ requestsAdded'.n = requestsAdded.n
          /\ base' = requestsAdded.n /\ scanned' = 0 /\ fresh' = fresh
      BY <1>0, <1>c, <1>4 DEF BeginScan, Only
    <2>. QED BY <1>0, <2>1 DEF NaN
  <1>5. CASE ScanFinds
    <2>1. scanned' = scanned + 1 /\ fresh' = fresh + 1 /\ UNCHANGED <<requestsAdded, base, pc>>
      BY <1>5 DEF ScanFinds
    <2>. QED BY <1>0, <2>1 DEF NaN
  <1>6. CASE EndScan
    <2>1. /\ requestsAdded' = [n |-> Plus(base, scanned), text |-> FALSE]
          /\ UNCHANGED <<base, scanned, fresh>> /\ pc = "scan" /\ pc' # "scan"
      BY <1>6 DEF EndScan, Only
    <2>2. Plus(base, scanned) \in {NaN, base + scanned} /\ (base = NaN => Plus(base, scanned) = NaN)
      BY DEF Plus
    <2>3. Plus(base, scanned) \in Nat \cup {NaN}
      BY <1>0 DEF Plus
    <2>4. requestsAdded' \in Counter /\ requestsAdded'.n = Plus(base, scanned)
      BY <2>1, <2>3
    <2>. QED BY <1>0, <2>1, <2>2, <2>4
  <1>7. CASE exerciseTarget
    <2>1. requestsAdded' = [n |-> 0, text |-> FALSE]
      BY <1>7 DEF exerciseTarget, Zero
    <2>2. UNCHANGED <<base, scanned>> /\ fresh' = 0 /\ pc' # "scan"
      BY <1>7 DEF exerciseTarget, Only
    <2>3. requestsAdded' \in Counter /\ requestsAdded'.n = 0
      BY <2>1
    <2>. QED BY <1>0, <2>2, <2>3
  <1>8. CASE Close \/ Crash
    <2>1. requestsAdded' = [n |-> 0, text |-> FALSE]
      BY <1>8 DEF Close, Crash, DropExplorer, Zero
    <2>2. base' = 0 /\ scanned' = 0 /\ fresh' = 0 /\ pc' # "scan"
      BY <1>8 DEF Close, Crash, DropExplorer
    <2>3. requestsAdded' \in Counter /\ requestsAdded'.n = 0
      BY <2>1
    <2>. QED BY <2>2, <2>3
  <1>9. CASE UNCHANGED <<counting, fresh>> /\ (pc' = "scan" => pc = "scan")
    BY <1>0, <1>9 DEF counting
  <1>. QED BY <1>1, <1>2, <1>3, <1>4, <1>5, <1>6, <1>7, <1>8, <1>9
           DEF Next, explorationWorker, vars, Only, Load, getNextRequest, save,
               updateReqsFromExternal, Launch, do_login, LoadThrows, BadResponse, PageReady,
               SamePage, LoopThrows, Poll, GremlinsDone, GremlinsLate, PollThrows, CountGremlins,
               EndLoop, Judge, PageTimer, GremlinsErrorTest, ScannerReports

\* The loops' counters keep their types, and a pass over the page begins while one is left.
LEMMA LoopsStep ==
    ASSUME CrawlerInv, [Next]_vars
    PROVE  LoopsTyped' /\ Passing'
  <1> USE Bounds DEF LoopsTyped, Passing, loops, polling
  <1>0. LoopsTyped /\ Passing
    BY TypeParts DEF CrawlerInv, Course
  <1>1. CASE LoadThrows
    BY <1>0, <1>1 DEF LoadThrows, Only
  <1>2. CASE BeginScan
    BY <1>0, <1>2 DEF BeginScan, Only
  <1>3. CASE EndScan
    <2>1. Max({cnt - 3, 0}) \in 0 .. cnt
      BY <1>0, TakenBack
    <2>2. cnt' \in 0 .. cnt
      BY <1>0, <1>3, <2>1 DEF EndScan
    <2>3. UNCHANGED <<tries, errorLoopcnt, thrown, polling>> /\ pc = "scan"
      BY <1>3 DEF EndScan, Only
    <2>. QED BY <1>0, <2>2, <2>3
  <1>4. CASE Poll
    <2>1. /\ changed' = FALSE /\ UNCHANGED <<loops, pc>>
          /\ ticks \in 0 .. Patience - 1 /\ gremlinsTime \in 0 .. Horde - 1
      BY <1>0, <1>4 DEF Poll, Only
    <2>2. \/ ticks' = 0 /\ gremlinsTime' = 0
          \/ ticks' = ticks + 1 /\ gremlinsTime' \in {gremlinsTime, gremlinsTime + 1}
      BY <1>0, <1>4 DEF Poll
    <2>3. ticks' \in 0 .. Patience /\ gremlinsTime' \in 0 .. Horde
      BY <2>1, <2>2
    <2>. QED BY <1>0, <2>1, <2>3
  <1>5. CASE PollThrows
    BY <1>0, <1>5 DEF PollThrows, Only
  <1>6. CASE CountGremlins
    BY <1>0, <1>6 DEF CountGremlins, Only
  <1>7. CASE LoopThrows
    BY <1>0, <1>7 DEF LoopThrows, Only
  <1>8. CASE PageReady \/ SamePage
    <2>1. changed' = FALSE /\ ticks' = 0 /\ gremlinsTime' = 0 /\ UNCHANGED loops
      BY <1>8 DEF PageReady, SamePage, Only
    <2>2. pc' = "loop" \/ pc \in {"settle", "init_again"}
      BY <1>8 DEF PageReady, SamePage
    <2>3. ticks' \in 0 .. Patience /\ gremlinsTime' \in 0 .. Horde
      BY <2>1
    <2>. QED BY <1>0, <2>1, <2>2, <2>3
  <1>9. CASE InitPage
    BY <1>0, <1>9 DEF InitPage, initpage, Only
  <1>10. CASE exerciseTarget
    BY <1>0, <1>10 DEF exerciseTarget, Only
  <1>11. CASE Close \/ Crash
    <2>1. /\ thrown' = FALSE /\ changed' = FALSE /\ tries' = 0 /\ cnt' = 0
          /\ errorLoopcnt' = 0 /\ ticks' = 0 /\ gremlinsTime' = 0 /\ pc' \in {"update", "load"}
      BY <1>11 DEF Close, Crash, DropExplorer
    <2>2. /\ tries' \in 0 .. 2 /\ cnt' \in 0 .. timeoutLoops /\ errorLoopcnt' \in 0 .. Errors - 1
          /\ ticks' \in 0 .. Patience /\ gremlinsTime' \in 0 .. Horde
      BY <2>1
    <2>. QED BY <2>1, <2>2
  <1>12. CASE processRequest \/ targetChanged
    BY <1>0, <1>12 DEF processRequest, targetChanged
  <1>13. CASE GremlinsDone \/ GremlinsLate
    BY <1>0, <1>13 DEF GremlinsDone, GremlinsLate, Only
  <1>14. CASE /\ UNCHANGED <<loops, polling>>
              /\ \/ UNCHANGED pc
                 \/ pc' \notin {"scan", "settle", "init_again", "poll", "count"}
    BY <1>0, <1>14
  <1>. QED BY <1>1, <1>2, <1>3, <1>4, <1>5, <1>6, <1>7, <1>8, <1>9, <1>10, <1>11, <1>12,
              <1>13, <1>14, NextRequest
           DEF Next, explorationWorker, vars, Only, Load, getNextRequest, save,
               updateReqsFromExternal, Launch, do_login, BadResponse, EndLoop, Judge, PageTimer,
               GremlinsErrorTest, ScannerReports, ScanFinds

\* Where the explorer is, and the round that it got its request from.
LEMMA PlacesStep ==
    ASSUME CrawlerInv, [Next]_vars
    PROVE  PlacesTyped' /\ InARound'
  <1> USE DEF PlacesTyped, InARound, Started, Exploring
  <1>0. PlacesTyped /\ InARound /\ TypeOK
    BY TypeParts DEF CrawlerInv, Course
  <1>1. CASE Load
    BY <1>0, <1>1 DEF Load
  <1>2. CASE getNextRequest
    <2>1. \/ pc' = "over"
          \/ \E r \in Requests, round \in 1 .. MAX_NUM_ROUNDS : HandsOut(r, round)
      BY <1>0, <1>2, NextRequest
    <2>2. pc' = "over" \/ (pc' = "save" /\ currentURLRound' \in 1 .. MAX_NUM_ROUNDS)
      BY <2>1 DEF HandsOut
    <2>3. UNCHANGED browser
      BY <1>2 DEF getNextRequest
    <2>. QED BY <1>0, <2>2, <2>3, Bounds
  <1>3. CASE save
    BY <1>0, <1>3 DEF save, pool
  <1>4. CASE updateReqsFromExternal
    BY <1>0, <1>4 DEF updateReqsFromExternal
  <1>5. CASE ScanFinds \/ processRequest \/ targetChanged \/ ScannerReports
    BY <1>0, <1>5 DEF ScanFinds, processRequest, targetChanged, ScannerReports, pool
  <1>6. CASE Crash
    BY <1>0, <1>6 DEF Crash
  <1>7. CASE Judge \/ Close
    BY <1>0, <1>7 DEF Judge, Close
  <1>8. CASE Launch \/ do_login \/ exerciseTarget \/ LoadThrows \/ BadResponse \/ PageReady
    BY <1>0, <1>8 DEF Launch, do_login, exerciseTarget, LoadThrows, BadResponse, PageReady, Only,
                      pool
  <1>9. CASE InitPage \/ BeginScan \/ EndScan \/ SamePage \/ LoopThrows
    BY <1>0, <1>9 DEF InitPage, initpage, BeginScan, EndScan, SamePage, LoopThrows, Only, pool
  <1>10. CASE Poll \/ GremlinsDone \/ GremlinsLate \/ PollThrows \/ CountGremlins \/ EndLoop
    BY <1>0, <1>10 DEF Poll, GremlinsDone, GremlinsLate, PollThrows, CountGremlins, EndLoop, Only,
                       pool
  <1>11. CASE PageTimer \/ GremlinsErrorTest
    BY <1>0, <1>11 DEF PageTimer, GremlinsErrorTest, pool
  <1>12. CASE UNCHANGED vars
    BY <1>0, <1>12 DEF vars, pool
  <1>. QED BY <1>1, <1>2, <1>3, <1>4, <1>5, <1>6, <1>7, <1>8, <1>9, <1>10, <1>11, <1>12
           DEF Next, explorationWorker

\* The steps that leave the requests, their attempts and the file alone.
ExplorerStep ==
    \/ Launch \/ do_login \/ exerciseTarget \/ LoadThrows \/ BadResponse \/ InitPage
    \/ PageReady \/ BeginScan \/ EndScan \/ SamePage \/ LoopThrows \/ Poll
    \/ GremlinsDone \/ GremlinsLate \/ PollThrows \/ CountGremlins \/ EndLoop \/ Close
    \/ PageTimer \/ GremlinsErrorTest

\* None of them begins anything that the file does not know of.
LEMMA ExplorerLeaves ==
    ASSUME ExplorerStep
    PROVE  /\ UNCHANGED <<keys, attempts, currentURLRound, currentRequest, disk, fruitless>>
           /\ pc \notin {"load", "dead", "pick", "save", "update", "over"}
           /\ pc' \notin {"load", "dead"}
           /\ pc' \in Started => pc \in Started
  <1> USE DEF Only, pool, files, Started, Exploring
  <1>1. CASE Launch \/ do_login \/ exerciseTarget \/ LoadThrows \/ BadResponse \/ InitPage
    BY <1>1 DEF Launch, do_login, exerciseTarget, LoadThrows, BadResponse, InitPage, initpage
  <1>2. CASE PageReady \/ BeginScan \/ EndScan \/ SamePage \/ LoopThrows \/ Poll
    BY <1>2 DEF PageReady, BeginScan, EndScan, SamePage, LoopThrows, Poll
  <1>3. CASE GremlinsDone \/ GremlinsLate \/ PollThrows \/ CountGremlins \/ EndLoop \/ Close
    BY <1>3 DEF GremlinsDone, GremlinsLate, PollThrows, CountGremlins, EndLoop, Close
  <1>4. CASE PageTimer \/ GremlinsErrorTest
    BY <1>4 DEF PageTimer, GremlinsErrorTest
  <1>. QED BY <1>1, <1>2, <1>3, <1>4 DEF ExplorerStep

\* Only save lets an exploration begin, and until it is judged the file says what it said.
LEMMA OnDiskStep ==
    ASSUME CrawlerInv, [Next]_vars
    PROVE  StartedIsOnDisk'
  <1> DEFINE OnDisk == /\ disk.text = "whole" /\ IsPrefix(disk.keys, keys)
                       /\ disk.attempts[currentRequest] = attempts[currentRequest]
  <1>0. TypeOK /\ (pc \in Started => OnDisk)
    BY DEF CrawlerInv, StartedIsOnDisk, Started
  <1>1. SUFFICES pc' \in Started => OnDisk'
    BY DEF StartedIsOnDisk, Started
  <1>2. CASE Load \/ getNextRequest \/ updateReqsFromExternal \/ Judge \/ Crash
    <2>1. pc' \in {"pick", "dead", "over", "save", "close", "load"}
      BY <1>2 DEF Load, getNextRequest, updateReqsFromExternal, Judge, Crash
    <2>. QED BY <2>1 DEF Started, Exploring
  <1>3. CASE save
    <2>1. disk' = Saved(keys, attempts) /\ UNCHANGED <<keys, attempts, currentRequest>>
      BY <1>3 DEF save, pool
    <2>2. IsPrefix(keys, keys)
      BY <1>0, PrefixKept DEF TypeOK
    <2>. QED BY <2>1, <2>2 DEF Saved
  <1>4. CASE ScanFinds \/ processRequest \/ targetChanged
    <2>1. UNCHANGED keys \/ \E r \in Links : addRequest(r)
      BY <1>4 DEF ScanFinds, processRequest, targetChanged
    <2>2. UNCHANGED <<attempts, currentRequest, disk, pc>>
      BY <1>4 DEF ScanFinds, processRequest, targetChanged, files
    <2>3. disk.text = "whole" => disk.keys \in Seq(Requests)
      BY <1>0 DEF TypeOK, NoFile, Torn
    <2>. QED BY <1>0, <2>1, <2>2, <2>3, KeysGrow
  <1>5. CASE ExplorerStep
    BY <1>0, <1>5, ExplorerLeaves
  <1>6. CASE ScannerReports
    BY <1>0, <1>6 DEF ScannerReports, pool
  <1>7. CASE UNCHANGED vars
    BY <1>0, <1>7 DEF vars, pool, files
  <1>. QED BY <1>2, <1>3, <1>4, <1>5, <1>6, <1>7 DEF Next, explorationWorker, ExplorerStep

\* The attempts grow with the explorations in vain, in memory and, before the next kill
\* can cost them, in the file.
LEMMA EffortsStep ==
    ASSUME CrawlerInv, [Next]_vars
    PROVE  Efforts'
  <1> USE DEF Efforts, AttemptsCount, EffortBounded
  <1>0. TypeOK /\ Efforts
    BY DEF CrawlerInv
  <1>t. /\ attempts \in [Requests -> Nat] /\ fruitless \in [Requests -> Nat]
        /\ MAX_NUM_ROUNDS \in Nat
    BY <1>0, Bounds DEF TypeOK
  <1>1. CASE Load
    <2>1. CASE disk.text = "whole"
      <3>1. attempts' = disk.attempts
        BY <1>0, <1>1, <2>1, LoadType
      <3>2. UNCHANGED <<disk, fruitless>>
        BY <1>1 DEF Load, files
      <3>. QED BY <1>0, <2>1, <3>1, <3>2
    <2>2. CASE disk = NoFile
      <3>1. UNCHANGED <<attempts, disk, fruitless>>
        BY <1>1, <2>2 DEF Load, files, NoFile, Torn
      <3>. QED BY <1>0, <1>t, <2>2, <3>1
    <2>3. CASE disk = Torn
      <3>1. pc' = "dead" /\ UNCHANGED <<disk, fruitless>>
        BY <1>1, <2>3 DEF Load, files, NoFile, Torn
      <3>. QED BY <1>0, <2>3, <3>1
    <2>. QED BY <1>0, <2>1, <2>2, <2>3 DEF TypeOK
  <1>2. CASE getNextRequest
    <2>1. pc = "pick" /\ \A r \in Requests : fruitless[r] <= attempts[r]
      BY <1>0, <1>2 DEF getNextRequest
    <2>2. attempts' \in [Requests -> 0 .. MAX_NUM_ROUNDS]
      BY <1>0, <1>2, NextRequest
    <2>3. CASE /\ \A q \in Requests : attempts'[q] >= attempts[q]
               /\ UNCHANGED <<disk, fruitless>>
      <3>1. \A q \in Requests : fruitless[q] <= attempts'[q]
        BY <1>t, <2>1, <2>2, <2>3
      <3>. QED BY <1>0, <2>3, <3>1
    <2>4. ASSUME NEW r \in Requests, NEW round \in 1 .. MAX_NUM_ROUNDS, HandsOut(r, round)
          PROVE  Efforts'
      <3>1. /\ attempts'[r] = attempts[r] + 1 /\ \A q \in Requests : attempts'[q] >= attempts[q]
            /\ fruitless' = [fruitless EXCEPT ![r] = @ + 1] /\ disk' = Torn
        BY <2>4 DEF HandsOut
      <3>2. \A q \in Requests : fruitless'[q] <= attempts'[q]
        BY <1>t, <2>1, <2>2, <3>1
      <3>3. fruitless' \in [Requests -> Nat]
        BY <1>t, <3>1
      <3>4. \A q \in Requests : fruitless'[q] <= MAX_NUM_ROUNDS
        BY <1>t, <2>2, <3>2, <3>3
      <3>. QED BY <3>1, <3>2, <3>4 DEF Torn, NoFile
    <2>. QED BY <1>0, <1>2, <2>3, <2>4, NextRequest
  <1>3. CASE save
    <2>1. disk' = Saved(keys, attempts) /\ UNCHANGED <<attempts, fruitless>>
      BY <1>3 DEF save, pool
    <2>2. \A r \in Requests : fruitless[r] <= attempts[r]
      BY <1>0, <1>3 DEF save
    <2>. QED BY <1>0, <2>1, <2>2 DEF Saved, NoFile
  <1>4. CASE Judge
    <2>1. currentURLRound >= 1 /\ currentURLRound \in Nat
      BY <1>0, <1>4 DEF Judge, CrawlerInv, Course, InARound, Started, TypeOK
    <2>2. pc = "judge" /\ pc' = "close" /\ UNCHANGED disk
      BY <1>4 DEF Judge, files
    <2>3. \/ UNCHANGED <<attempts, fruitless>>
          \/ /\ attempts' = [attempts EXCEPT ![currentRequest] = currentURLRound - 1]
             /\ fruitless' = [fruitless EXCEPT ![currentRequest] = 0]
      BY <1>4 DEF Judge, resetRequestsAttempts
    <2>4. \A r \in Requests : fruitless'[r] <= attempts'[r] /\ fruitless'[r] <= fruitless[r]
                              /\ fruitless'[r] \in Nat
      BY <1>0, <1>t, <2>1, <2>2, <2>3
    <2>5. disk.text = "whole" => disk.attempts \in [Requests -> Nat]
      BY <1>0, Bounds DEF TypeOK, NoFile, Torn
    <2>6. disk.text = "whole" => \A r \in Requests : fruitless'[r] <= disk.attempts[r]
      BY <1>0, <1>t, <2>4, <2>5
    <2>7. disk = NoFile => \A r \in Requests : fruitless'[r] = 0
      BY <1>0, <1>t, <2>4
    <2>8. \A r \in Requests : fruitless'[r] <= MAX_NUM_ROUNDS
      BY <1>0, <1>t, <2>4
    <2>. QED BY <2>2, <2>4, <2>6, <2>7, <2>8
  <1>5. CASE Crash
    <2>1. pc' = "load" /\ UNCHANGED <<disk, fruitless>>
      BY <1>5 DEF Crash, files
    <2>. QED BY <1>0, <2>1
  <1>6. CASE updateReqsFromExternal \/ ScanFinds \/ processRequest \/ targetChanged
    <2>1. pc \notin {"load", "dead"} /\ UNCHANGED <<attempts, disk, fruitless>>
      BY <1>6 DEF updateReqsFromExternal, ScanFinds, processRequest, targetChanged, files,
                  Listening, Exploring
    <2>. QED BY <1>0, <2>1
  <1>7. CASE ExplorerStep
    BY <1>0, <1>7, ExplorerLeaves
  <1>8. CASE ScannerReports
    BY <1>0, <1>8 DEF ScannerReports, pool
  <1>9. CASE UNCHANGED vars
    BY <1>0, <1>9 DEF vars, pool, files
  <1>. QED BY <1>1, <1>2, <1>3, <1>4, <1>5, <1>6, <1>7, <1>8, <1>9
           DEF Next, explorationWorker, ExplorerStep

-----------------------------------------------------------------------------
\* The strengthened invariant of the crawler.
THEOREM CrawlerInvariant == Spec => []CrawlerInv
  <1>1. CrawlerInv /\ [Next]_vars => CrawlerInv'
    BY DataTypeStep, CounterStep, LoopsStep, PlacesStep, OnDiskStep, EffortsStep, TypePartsPrimed
       DEF CrawlerInv, Course
  <1>. QED BY <1>1, CrawlerInitially, PTL DEF Spec

\* Every variable of the crawler keeps its type.
THEOREM CrawlerTypeCorrect == Spec => []TypeOK
  <1>1. CrawlerInv => TypeOK BY DEF CrawlerInv
  <1>. QED BY <1>1, CrawlerInvariant, PTL

\* The counter of a request's yield never counts more than was added.
THEOREM CrawlerCounterIsSound == Spec => []CounterIsSound
  <1>1. CrawlerInv => CounterIsSound BY DEF CrawlerInv, Counters
  <1>. QED BY <1>1, CrawlerInvariant, PTL

\* While a request is explored, the file says that it was tried.
THEOREM CrawlerStartedIsOnDisk == Spec => []StartedIsOnDisk
  <1>1. CrawlerInv => StartedIsOnDisk BY DEF CrawlerInv
  <1>. QED BY <1>1, CrawlerInvariant, PTL

\* No request is explored in vain more often than there are rounds, over any kills.
THEOREM CrawlerEffortBounded == Spec => []EffortBounded
  <1>1. CrawlerInv => EffortBounded BY DEF CrawlerInv, Efforts
  <1>. QED BY <1>1, CrawlerInvariant, PTL

=============================================================================
