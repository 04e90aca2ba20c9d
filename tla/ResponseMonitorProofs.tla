------------------------ MODULE ResponseMonitorProofs ------------------------
(***************************************************************************)
(* Witcher's response monitor, for any pairs, any number of workers and    *)
(* queues of any length: no pair is compared twice, and a stop in which no *)
(* timeout expires leaves no pair behind that was queued when it began.    *)
(* The argument follows a response from the list of new files to a queue   *)
(* and into a worker's hands: it is in one place at a time, and once it    *)
(* was handed out it is recorded, or removed, and never listed again.      *)
(***************************************************************************)
EXTENDS ResponseMonitor, SequenceTheorems, TLAPS

\* Where a response may be.
InQueue(q, n) == \E w \in Worker : \E i \in 1 .. Len(q[w]) : q[w][i] = Rsp(n)
InHand(w, n)  == worker[w].file = Rsp(n)

\* A queue holds a response at one place only.
Once(q) ==
    \A v, w \in Worker : \A i \in 1 .. Len(q[v]), j \in 1 .. Len(q[w]) : \A n \in Names :
        q[v][i] = Rsp(n) /\ q[w][j] = Rsp(n) => v = w /\ i = j

\* What a worker has at hand, by where it is.
Hands ==
    \A w \in Worker :
        /\ worker[w].at \in {"get", "over"} => worker[w].file = None
        /\ worker[w].at = "start" => worker[w].file \in File
        /\ worker[w].at \in {"http", "remove rsp", "remove req"}
               => \E n \in Names : InHand(w, n)

\* It was put into a queue, is there, or has been.
Handed(n) == InQueue(response_queues, n) \/ (\E w \in Worker : InHand(w, n)) \/ compared[n] > 0

\* It waits for a comparison, in a queue or with a worker.
AtWork(w, n) == InHand(w, n) /\ worker[w].at \in {"start", "http"}
Waits(n)     == InQueue(response_queues, n) \/ \E w \in Worker : AtWork(w, n)

Recorded ==
    \A n \in Names : Handed(n) =>
        saved[n] = "filled" /\ Rsp(n) \in processed_files \cup removed

Listed == \A n \in Names : Rsp(n) \in new_files => ~Handed(n) /\ saved[n] = "filled"

OnePlace ==
    /\ Once(response_queues)
    /\ \A n \in Names : InQueue(response_queues, n) => \A w \in Worker : ~InHand(w, n)
    /\ \A n \in Names : \A v, w \in Worker : InHand(v, n) /\ InHand(w, n) => v = w

Uncompared == \A n \in Names : Waits(n) => compared[n] = 0

\* The pair of a response that is still to be compared is there, or was given up.
Whole(n) == n \in given_up \/ {Req(n), Rsp(n)} \cap removed = {}

Complete ==
    stop # "done" => \A n \in Names : Waits(n) \/ Rsp(n) \in new_files => Whole(n)

Settled(n) == compared[n] = 1 \/ n \in given_up

\* What the stop owes, step by step.
Debts ==
    /\ stop = "off" => owed = {}
    /\ stop = "drain" => \A n \in owed : Waits(n) \/ Settled(n)
    /\ stop = "signal" => \A n \in owed : (\E w \in Worker : AtWork(w, n)) \/ Settled(n)
    /\ stop = "join" => \A n \in owed : (\E w \in stopped .. Cores - 1 : AtWork(w, n)) \/ Settled(n)
    /\ stop \in {"clean", "done"} => \A n \in owed : Settled(n)

PlaceInv == TypeOK /\ Hands /\ Recorded /\ Listed /\ OnePlace /\ Uncompared /\ ComparedOnce

ResponseInv == PlaceInv /\ Complete /\ Debts

-----------------------------------------------------------------------------
(* Queues.                                                                 *)

\* Workers are numbers from 0 on.
LEMMA WorkerType == Worker \subseteq Int /\ 0 \in Worker
  BY ResponseAssumption DEF Worker

\* A file is one of a request or one of a response, of one name.
LEMMA SameFile ==
    /\ \A m, n : Rsp(m) = Rsp(n) => m = n
    /\ \A m, n : Req(m) = Req(n) => m = n
    /\ \A m, n : Req(m) # Rsp(n)
    /\ \A n : Rsp(n) # None /\ Req(n) # None
    /\ \A n \in Names : Req(n) \in File /\ Rsp(n) \in File
    /\ \A f \in File : f.name \in Names /\ (f = Req(f.name) \/ f = Rsp(f.name))
  <1>1. \A m, n : Rsp(m) = Rsp(n) => m = n
    <2>1. \A n : Rsp(n).name = n
      BY DEF Rsp
    <2> QED  BY <2>1
  <1>2. \A m, n : Req(m) = Req(n) => m = n
    <2>1. \A n : Req(n).name = n
      BY DEF Req
    <2> QED  BY <2>1
  <1>3. /\ \A m, n : Req(m) # Rsp(n)
        /\ \A n : Rsp(n) # None /\ Req(n) # None
    <2>1. \A n : Rsp(n).kind = "rsp" /\ Req(n).kind = "req" /\ None.kind = "none"
      BY DEF Rsp, Req, None
    <2> QED  BY <2>1
  <1>4. \A n \in Names : Req(n) \in File /\ Rsp(n) \in File
    BY DEF Req, Rsp, File
  <1>5. \A f \in File : f.name \in Names /\ (f = Req(f.name) \/ f = Rsp(f.name))
    BY DEF Req, Rsp, File
  <1> QED  BY <1>1, <1>2, <1>3, <1>4, <1>5

\* Both files of a pair bear its name.
LEMMA FileName == \A n : Rsp(n).name = n /\ Req(n).name = n
  BY DEF Rsp, Req

QueueType == [Worker -> Seq(File \cup {None})]

\* A file is put at the end of a queue, or taken from its head.
Puts(q, v, x, r) == r = [q EXCEPT ![v] = Append(@, x)]
Pops(q, v, r)    == q[v] # <<>> /\ r = [q EXCEPT ![v] = Tail(@)]

PutPlaces(q, v, x, r) ==
    /\ r \in QueueType
    /\ \A n \in Names : InQueue(r, n) <=> InQueue(q, n) \/ x = Rsp(n)
    /\ Once(q) /\ (\A n \in Names : x = Rsp(n) => ~InQueue(q, n)) => Once(r)

PopPlaces(q, v, r) ==
    /\ r \in QueueType /\ Head(q[v]) \in File \cup {None}
    /\ \A n \in Names : InQueue(q, n) <=> InQueue(r, n) \/ Head(q[v]) = Rsp(n)
    /\ Once(q) => Once(r)
    /\ Once(q) => \A n \in Names : Head(q[v]) = Rsp(n) => ~InQueue(r, n)

\* What an append does to the places.
LEMMA AppendPlaces ==
    ASSUME NEW q \in QueueType, NEW v \in Worker, NEW x \in File \cup {None}, NEW r,
           Puts(q, v, x, r)
    PROVE  PutPlaces(q, v, x, r)
  <1>1. q[v] \in Seq(File \cup {None})
    BY DEF QueueType
  <1>2. /\ r[v] = Append(q[v], x) /\ \A w \in Worker : w # v => r[w] = q[w]
        /\ r \in QueueType
    BY <1>1 DEF QueueType, Puts
  <1>3. /\ Len(r[v]) = Len(q[v]) + 1 /\ Len(q[v]) \in Nat
        /\ r[v][Len(q[v]) + 1] = x
        /\ \A i \in 1 .. Len(q[v]) : r[v][i] = q[v][i]
    BY <1>1, <1>2
  <1>4. \A n \in Names : InQueue(r, n) <=> InQueue(q, n) \/ x = Rsp(n)
    BY <1>2, <1>3 DEF InQueue
  <1>5. ASSUME Once(q), \A n \in Names : x = Rsp(n) => ~InQueue(q, n)
        PROVE  Once(r)
    <2> SUFFICES ASSUME NEW u \in Worker, NEW w \in Worker, NEW i \in 1 .. Len(r[u]),
                        NEW j \in 1 .. Len(r[w]), NEW n \in Names,
                        r[u][i] = Rsp(n), r[w][j] = Rsp(n)
                 PROVE  u = w /\ i = j
      BY DEF Once
    <2>1. (u # v \/ i \in 1 .. Len(q[v])) \/ (u = v /\ i = Len(q[v]) + 1)
      BY <1>2, <1>3
    <2>2. (w # v \/ j \in 1 .. Len(q[v])) \/ (w = v /\ j = Len(q[v]) + 1)
      BY <1>2, <1>3
    <2>3. (u # v \/ i \in 1 .. Len(q[v])) => i \in 1 .. Len(q[u]) /\ q[u][i] = Rsp(n)
      BY <1>2, <1>3
    <2>4. (w # v \/ j \in 1 .. Len(q[v])) => j \in 1 .. Len(q[w]) /\ q[w][j] = Rsp(n)
      BY <1>2, <1>3
    <2>5. x = Rsp(n) => ~InQueue(q, n)
      BY <1>5
    <2>6. CASE (u # v \/ i \in 1 .. Len(q[v])) /\ (w # v \/ j \in 1 .. Len(q[v]))
      BY <1>5, <2>3, <2>4, <2>6 DEF Once
    <2>7. CASE u = v /\ i = Len(q[v]) + 1 /\ w = v /\ j = Len(q[v]) + 1
      BY <2>7
    <2>8. CASE u = v /\ i = Len(q[v]) + 1 /\ (w # v \/ j \in 1 .. Len(q[v]))
      <3>1. x = Rsp(n)
        BY <1>3, <2>8
      <3> QED  BY <2>4, <2>5, <2>8, <3>1 DEF InQueue
    <2>9. CASE w = v /\ j = Len(q[v]) + 1 /\ (u # v \/ i \in 1 .. Len(q[v]))
      <3>1. x = Rsp(n)
        BY <1>3, <2>9
      <3> QED  BY <2>3, <2>5, <2>9, <3>1 DEF InQueue
    <2> QED  BY <2>1, <2>2, <2>6, <2>7, <2>8, <2>9
  <1> QED  BY <1>2, <1>4, <1>5 DEF PutPlaces

\* And what a removal at the head does.
LEMMA TailPlaces ==
    ASSUME NEW q \in QueueType, NEW v \in Worker, NEW r, Pops(q, v, r)
    PROVE  PopPlaces(q, v, r)
  <1>1. q[v] \in Seq(File \cup {None})
    BY DEF QueueType
  <1>2. /\ r[v] = Tail(q[v]) /\ \A w \in Worker : w # v => r[w] = q[w]
        /\ r \in QueueType /\ Head(q[v]) \in File \cup {None} /\ q[v] # <<>>
    BY <1>1 DEF QueueType, Pops
  <1>3. /\ Len(r[v]) = Len(q[v]) - 1 /\ Len(q[v]) \in Nat \ {0}
        /\ Head(q[v]) = q[v][1]
        /\ \A i \in 1 .. Len(r[v]) : i + 1 \in 1 .. Len(q[v]) /\ r[v][i] = q[v][i + 1]
        /\ \A i \in 1 .. Len(q[v]) : i = 1 \/ (i - 1 \in 1 .. Len(r[v]) /\ r[v][i - 1] = q[v][i])
    <2>1. Len(r[v]) = Len(q[v]) - 1 /\ Len(q[v]) \in Nat \ {0} /\ Head(q[v]) = q[v][1]
      <3>1. Len(q[v]) \in Nat /\ Len(q[v]) # 0
        BY <1>1, <1>2, EmptySeq
      <3>2. Len(Tail(q[v])) = Len(q[v]) - 1
        BY <1>1, <1>2, HeadTailProperties
      <3>3. Head(q[v]) = q[v][1]
        BY <1>1, <1>2, HeadTailProperties
      <3> QED  BY <1>2, <3>1, <3>2, <3>3
    <2>2. \A i \in 1 .. Len(r[v]) : i + 1 \in 1 .. Len(q[v]) /\ r[v][i] = q[v][i + 1]
      BY <1>1, <1>2, <2>1, HeadTailProperties
    <2>3. \A i \in 1 .. Len(q[v]) : i = 1 \/ i - 1 \in 1 .. Len(r[v])
      BY <2>1
    <2>4. \A i \in 1 .. Len(q[v]) : i = 1 \/ r[v][i - 1] = q[v][i]
      BY <2>2, <2>3
    <2> QED  BY <2>1, <2>2, <2>3, <2>4
  <1>4. \A n \in Names : InQueue(q, n) <=> InQueue(r, n) \/ Head(q[v]) = Rsp(n)
    <2> TAKE n \in Names
    <2>1. ASSUME NEW w \in Worker, NEW i \in 1 .. Len(q[w]), q[w][i] = Rsp(n)
          PROVE  InQueue(r, n) \/ Head(q[v]) = Rsp(n)
      <3>1. CASE w # v
        BY <1>2, <2>1, <3>1 DEF InQueue
      <3>2. CASE w = v /\ i = 1
        BY <1>3, <2>1, <3>2
      <3>3. CASE w = v /\ i # 1
        BY <1>3, <2>1, <3>3 DEF InQueue
      <3> QED  BY <3>1, <3>2, <3>3
    <2>2. ASSUME NEW w \in Worker, NEW i \in 1 .. Len(r[w]), r[w][i] = Rsp(n)
          PROVE  InQueue(q, n)
      <3>1. CASE w # v
        BY <1>2, <2>2, <3>1 DEF InQueue
      <3>2. CASE w = v
        BY <1>3, <2>2, <3>2 DEF InQueue
      <3> QED  BY <3>1, <3>2
    <2>3. Head(q[v]) = Rsp(n) => InQueue(q, n)
      BY <1>3 DEF InQueue
    <2> QED  BY <2>1, <2>2, <2>3 DEF InQueue
  <1>5. ASSUME Once(q) PROVE Once(r)
    <2> SUFFICES \A u, w \in Worker : \A i \in 1 .. Len(r[u]), j \in 1 .. Len(r[w]) :
                     \A n \in Names : r[u][i] = Rsp(n) /\ r[w][j] = Rsp(n) => u = w /\ i = j
      BY Zenon DEF Once
    <2> TAKE u, w \in Worker
    <2> TAKE i \in 1 .. Len(r[u]), j \in 1 .. Len(r[w])
    <2> TAKE n \in Names
    <2> HAVE r[u][i] = Rsp(n) /\ r[w][j] = Rsp(n)
    <2>1. CASE u = v /\ w = v
      <3>1. i + 1 \in 1 .. Len(q[v]) /\ q[v][i + 1] = Rsp(n)
        BY <1>3, <2>1
      <3>2. j + 1 \in 1 .. Len(q[v]) /\ q[v][j + 1] = Rsp(n)
        BY <1>3, <2>1
      <3>3. i + 1 = j + 1
        BY <1>5, <3>1, <3>2 DEF Once
      <3>4. i \in Int /\ j \in Int
        BY <1>3, <2>1
      <3> QED  BY <2>1, <3>3, <3>4
    <2>2. CASE u = v /\ w # v
      <3>1. i + 1 \in 1 .. Len(q[u]) /\ q[u][i + 1] = Rsp(n)
        BY <1>3, <2>2
      <3>2. j \in 1 .. Len(q[w]) /\ q[w][j] = Rsp(n)
        BY <1>2, <2>2
      <3> QED  BY <1>5, <2>2, <3>1, <3>2 DEF Once
    <2>3. CASE u # v /\ w = v
      <3>1. i \in 1 .. Len(q[u]) /\ q[u][i] = Rsp(n)
        BY <1>2, <2>3
      <3>2. j + 1 \in 1 .. Len(q[w]) /\ q[w][j + 1] = Rsp(n)
        BY <1>3, <2>3
      <3> QED  BY <1>5, <2>3, <3>1, <3>2 DEF Once
    <2>4. CASE u # v /\ w # v
      BY <1>2, <1>5, <2>4 DEF Once
    <2> QED  BY <2>1, <2>2, <2>3, <2>4
  <1>6. ASSUME Once(q), NEW n \in Names, Head(q[v]) = Rsp(n), InQueue(r, n)
        PROVE  FALSE
    <2>1. PICK w \in Worker : \E i \in 1 .. Len(r[w]) : r[w][i] = Rsp(n)
      BY <1>6 DEF InQueue
    <2>2. PICK i \in 1 .. Len(r[w]) : r[w][i] = Rsp(n)
      BY <2>1
    <2>3. 1 \in 1 .. Len(q[v]) /\ q[v][1] = Rsp(n)
      BY <1>3, <1>6
    <2>4. CASE w = v
      <3>1. i + 1 \in 1 .. Len(q[v]) /\ q[v][i + 1] = Rsp(n) /\ i + 1 # 1
        BY <1>3, <2>2, <2>4
      <3> QED  BY <1>6, <2>3, <3>1 DEF Once
    <2>5. CASE w # v
      BY <1>2, <1>6, <2>2, <2>3, <2>5 DEF Once
    <2> QED  BY <2>4, <2>5
  <1> QED  BY <1>2, <1>4, <1>5, <1>6 DEF PopPlaces

\* A file that was written is there until it is removed.
LEMMA FileThere ==
    ASSUME NEW n \in Names, saved[n] = "filled"
    PROVE  /\ There(Rsp(n)) <=> Rsp(n) \notin removed
           /\ There(Req(n)) <=> Req(n) \notin removed
  <1>1. Rsp(n).kind = "rsp" /\ Rsp(n).name = n /\ Req(n).kind = "req" /\ Req(n).name = n
    BY DEF Rsp, Req
  <1> QED  BY <1>1 DEF There

-----------------------------------------------------------------------------
(* What the step of a worker, and a step that moves no file, do to the     *)
(* places.                                                                 *)

WorkerStates == [Worker -> [at : {"get", "start", "http", "remove rsp", "remove req", "over"},
                            file : File \cup {None}]]

\* A step that touches neither queues nor workers.
LEMMA Elsewhere ==
    ASSUME UNCHANGED <<response_queues, worker, compared>>
    PROVE  /\ Hands => Hands'
           /\ OnePlace => OnePlace'
           /\ Uncompared => Uncompared'
           /\ ComparedOnce => ComparedOnce'
           /\ \A n \in Names : /\ Handed(n)' <=> Handed(n)
                               /\ Waits(n)' <=> Waits(n)
                               /\ InQueue(response_queues, n)' <=> InQueue(response_queues, n)
                               /\ \A w \in Worker : AtWork(w, n)' <=> AtWork(w, n)
  <1>1. Hands => Hands'
    BY DEF Hands, InHand
  <1>2. OnePlace => OnePlace'
    BY Zenon DEF OnePlace, InHand
  <1>3. \A n \in Names : /\ Handed(n)' <=> Handed(n)
                         /\ InQueue(response_queues, n)' <=> InQueue(response_queues, n)
    BY Zenon DEF Handed, InHand
  <1>4. \A n \in Names, w \in Worker : AtWork(w, n)' <=> AtWork(w, n)
    BY DEF AtWork, InHand
  <1>5. \A n \in Names : Waits(n)' <=> Waits(n)
    BY <1>3, <1>4 DEF Waits
  <1>6. (Uncompared => Uncompared') /\ (ComparedOnce => ComparedOnce')
    BY <1>5 DEF Uncompared, ComparedOnce
  <1> QED  BY <1>1, <1>2, <1>3, <1>4, <1>5, <1>6

\* The workers that are still to be told or joined.
LEMMA StoppedWorkers == stopped \in Worker => stopped .. Cores - 1 \subseteq Worker
  BY ResponseAssumption DEF Worker

\* A step of the others keeps the stop's debts if it settles what it takes away.
LEMMA DebtsStay ==
    ASSUME TypeOK, Debts, UNCHANGED <<stop, owed, stopped>>,
           \A n \in Names : /\ Settled(n) => Settled(n)'
                            /\ Waits(n) => Waits(n)' \/ Settled(n)' \/ n \notin owed
                            /\ \A w \in Worker :
                                   AtWork(w, n) => AtWork(w, n)' \/ Settled(n)' \/ n \notin owed
    PROVE  Debts'
  <1>1. owed \subseteq Names /\ stopped .. Cores - 1 \subseteq Worker
    BY StoppedWorkers DEF TypeOK
  <1>2. stop = "off" => owed' = {}
    BY DEF Debts
  <1>3. stop = "drain" => \A n \in owed : Waits(n)' \/ Settled(n)'
    BY <1>1 DEF Debts
  <1>4. stop = "signal" => \A n \in owed : (\E w \in Worker : AtWork(w, n)') \/ Settled(n)'
    BY <1>1 DEF Debts
  <1>5. stop = "join" => \A n \in owed : (\E w \in stopped .. Cores - 1 : AtWork(w, n)') \/ Settled(n)'
    BY <1>1 DEF Debts
  <1>6. stop \in {"clean", "done"} => \A n \in owed : Settled(n)'
    BY <1>1 DEF Debts
  <1> QED  BY <1>2, <1>3, <1>4, <1>5, <1>6 DEF Debts

\* A worker is through with its file.
LEMMA Drops ==
    ASSUME worker \in WorkerStates, response_monitor_active \in BOOLEAN,
           Hands, OnePlace, NEW w \in Worker, Done(w), UNCHANGED response_queues
    PROVE  /\ worker' \in WorkerStates /\ Hands' /\ OnePlace'
           /\ \A v \in Worker, n \in Names : /\ InHand(v, n)' <=> InHand(v, n) /\ v # w
                                             /\ AtWork(v, n)' <=> AtWork(v, n) /\ v # w
  <1>1. /\ worker' \in WorkerStates
        /\ worker'[w].at \in {"get", "over"} /\ worker'[w].file = None
        /\ \A v \in Worker \ {w} : worker'[v] = worker[v]
    BY DEF Done, WorkerStates
  <1>2. \A v \in Worker, n \in Names : /\ InHand(v, n)' <=> InHand(v, n) /\ v # w
                                       /\ AtWork(v, n)' <=> AtWork(v, n) /\ v # w
    BY <1>1, SameFile DEF InHand, AtWork
  <1>3. Hands'
    <2> SUFFICES ASSUME NEW v \in Worker
                 PROVE  /\ worker'[v].at \in {"get", "over"} => worker'[v].file = None
                        /\ worker'[v].at = "start" => worker'[v].file \in File
                        /\ worker'[v].at \in {"http", "remove rsp", "remove req"}
                               => \E n \in Names : InHand(v, n)'
      BY DEF Hands
    <2>1. CASE v = w
      BY <1>1, <2>1
    <2>2. CASE v # w
      BY <1>1, <1>2, <2>2 DEF Hands
    <2> QED  BY <2>1, <2>2
  <1>4. OnePlace'
    BY <1>2 DEF OnePlace
  <1> QED  BY <1>1, <1>2, <1>3, <1>4

\* It goes on with its response.
LEMMA Moves ==
    ASSUME worker \in WorkerStates, Hands, OnePlace, NEW w \in Worker,
           NEW m \in Names, InHand(w, m),
           NEW place \in {"http", "remove rsp", "remove req"}, Goes(w, place),
           UNCHANGED response_queues
    PROVE  /\ worker' \in WorkerStates /\ Hands' /\ OnePlace'
           /\ \A v \in Worker, n \in Names : InHand(v, n)' <=> InHand(v, n)
           /\ \A v \in Worker, n \in Names : v # w => (AtWork(v, n)' <=> AtWork(v, n))
           /\ \A n \in Names : AtWork(w, n)' <=> n = m /\ place = "http"
  <1>1. /\ worker' \in WorkerStates
        /\ worker'[w].at = place /\ worker'[w].file = worker[w].file
        /\ \A v \in Worker \ {w} : worker'[v] = worker[v]
    BY DEF Goes, WorkerStates
  <1>2. \A v \in Worker, n \in Names : InHand(v, n)' <=> InHand(v, n)
    BY <1>1 DEF InHand
  <1>3. \A v \in Worker, n \in Names : v # w => (AtWork(v, n)' <=> AtWork(v, n))
    BY <1>1, <1>2 DEF AtWork
  <1>4. \A n \in Names : AtWork(w, n)' <=> n = m /\ place = "http"
    <2>1. \A n \in Names : InHand(w, n) <=> n = m
      BY SameFile DEF InHand
    <2> QED  BY <1>1, <1>2, <2>1 DEF AtWork
  <1>5. Hands'
    <2> SUFFICES ASSUME NEW v \in Worker
                 PROVE  /\ worker'[v].at \in {"get", "over"} => worker'[v].file = None
                        /\ worker'[v].at = "start" => worker'[v].file \in File
                        /\ worker'[v].at \in {"http", "remove rsp", "remove req"}
                               => \E n \in Names : InHand(v, n)'
      BY DEF Hands
    <2>1. CASE v = w
      BY <1>1, <1>2, <2>1
    <2>2. CASE v # w
      BY <1>1, <1>2, <2>2 DEF Hands
    <2> QED  BY <2>1, <2>2
  <1>6. OnePlace'
    BY <1>2 DEF OnePlace
  <1> QED  BY <1>1, <1>2, <1>3, <1>4, <1>5, <1>6

\* It takes a file from its queue.
LEMMA Takes ==
    ASSUME TypeOK, Hands, OnePlace, NEW w \in Worker, Get(w)
    PROVE  /\ worker' \in WorkerStates /\ response_queues' \in QueueType /\ Hands' /\ OnePlace'
           /\ \A v \in Worker : Len(response_queues'[v]) <= Len(response_queues[v])
           /\ \A n \in Names : InQueue(response_queues, n)
                  <=> InQueue(response_queues', n) \/ InHand(w, n)'
           /\ \A v \in Worker, n \in Names : v # w => (InHand(v, n)' <=> InHand(v, n))
           /\ \A v \in Worker, n \in Names : v # w => (AtWork(v, n)' <=> AtWork(v, n))
           /\ \A n \in Names : ~InHand(w, n) /\ (AtWork(w, n)' <=> InHand(w, n)')
  <1> DEFINE f == Head(response_queues[w])
  <1>1. /\ worker \in WorkerStates /\ response_queues \in QueueType
        /\ worker[w].at = "get" /\ response_queues[w] # <<>>
        /\ worker' = [worker EXCEPT ![w] = [at |-> IF f = None THEN "over" ELSE "start", file |-> f]]
        /\ response_queues' = [response_queues EXCEPT ![w] = Tail(@)]
    BY DEF TypeOK, WorkerStates, QueueType, Get, At
  <1>2. /\ response_queues' \in QueueType /\ f \in File \cup {None}
        /\ \A n \in Names : InQueue(response_queues, n) <=> InQueue(response_queues', n) \/ f = Rsp(n)
        /\ Once(response_queues')
        /\ \A n \in Names : f = Rsp(n) => ~InQueue(response_queues', n)
    <2>1. Once(response_queues)
      BY DEF OnePlace
    <2>2. Pops(response_queues, w, response_queues')
      BY <1>1 DEF Pops
    <2>3. PopPlaces(response_queues, w, response_queues')
      BY <1>1, <2>2, TailPlaces, Zenon
    <2> QED  BY <2>1, <2>3 DEF PopPlaces
  <1>3. /\ worker' \in WorkerStates
        /\ worker'[w].file = f /\ worker'[w].at = (IF f = None THEN "over" ELSE "start")
        /\ \A v \in Worker \ {w} : worker'[v] = worker[v]
    <2> HIDE DEF f
    <2> QED  BY <1>1, <1>2 DEF WorkerStates
  <1>4. \A v \in Worker : Len(response_queues'[v]) <= Len(response_queues[v])
    <2> SUFFICES ASSUME NEW v \in Worker
                 PROVE  Len(response_queues'[v]) <= Len(response_queues[v])
      OBVIOUS
    <2>1. response_queues[v] \in Seq(File \cup {None})
      BY <1>1 DEF QueueType
    <2>2. CASE v = w
      <3>1. response_queues'[v] = Tail(response_queues[v])
        BY <1>1, <2>2 DEF QueueType
      <3>2. Len(Tail(response_queues[v])) = Len(response_queues[v]) - 1
        BY <1>1, <2>1, <2>2, HeadTailProperties
      <3>3. Len(response_queues[v]) \in Nat
        BY <2>1
      <3> QED  BY <3>1, <3>2, <3>3
    <2>3. CASE v # w
      <3>1. response_queues'[v] = response_queues[v]
        BY <1>1, <2>3 DEF QueueType
      <3> QED  BY <2>1, <3>1
    <2> QED  BY <2>2, <2>3
  <1> HIDE DEF f
  <1>5. \A n \in Names : (InHand(w, n)' <=> f = Rsp(n)) /\ ~InHand(w, n)
    BY <1>1, <1>3, SameFile DEF InHand, Hands
  <1>6. \A v \in Worker, n \in Names : v # w => (InHand(v, n)' <=> InHand(v, n))
    BY <1>3 DEF InHand
  <1>7. \A v \in Worker, n \in Names : v # w => (AtWork(v, n)' <=> AtWork(v, n))
    BY <1>3, <1>6 DEF AtWork
  <1>8. \A n \in Names : AtWork(w, n)' <=> InHand(w, n)'
    BY <1>3, <1>5, SameFile DEF AtWork
  <1>9. Hands'
    <2> SUFFICES ASSUME NEW v \in Worker
                 PROVE  /\ worker'[v].at \in {"get", "over"} => worker'[v].file = None
                        /\ worker'[v].at = "start" => worker'[v].file \in File
                        /\ worker'[v].at \in {"http", "remove rsp", "remove req"}
                               => \E n \in Names : InHand(v, n)'
      BY DEF Hands
    <2>1. CASE v = w
      BY <1>2, <1>3, <2>1
    <2>2. CASE v # w
      BY <1>3, <1>6, <2>2 DEF Hands
    <2> QED  BY <2>1, <2>2
  <1>10. OnePlace'
    <2>1. \A n \in Names : InQueue(response_queues', n) => \A v \in Worker : ~InHand(v, n)'
      BY <1>2, <1>5, <1>6 DEF OnePlace
    <2>2. \A n \in Names : \A u, v \in Worker : InHand(u, n)' /\ InHand(v, n)' => u = v
      BY <1>2, <1>5, <1>6 DEF OnePlace
    <2> QED  BY <1>2, <2>1, <2>2 DEF OnePlace
  <1> QED  BY <1>2, <1>3, <1>4, <1>5, <1>6, <1>7, <1>8, <1>9, <1>10

-----------------------------------------------------------------------------
(* The invariant holds, action by action.                                  *)

\* The invariant holds before the monitor is started.
LEMMA ResponseInitial == Init => ResponseInv
  <1> SUFFICES ASSUME Init PROVE ResponseInv
    OBVIOUS
  <1>1. \A w \in Worker : response_queues[w] = <<>> /\ worker[w] = [at |-> "get", file |-> None]
    BY DEF Init
  <1>2. TypeOK
    BY ResponseAssumption, WorkerType DEF Init, TypeOK, SaveStages
  <1>3. \A n \in Names : ~Handed(n) /\ ~Waits(n) /\ ~InQueue(response_queues, n)
    <2> TAKE n \in Names
    <2>1. ~InQueue(response_queues, n)
      BY <1>1, EmptySeq DEF InQueue
    <2>2. \A w \in Worker : ~InHand(w, n)
      BY <1>1, SameFile DEF InHand
    <2>3. ~(compared[n] > 0)
      BY DEF Init
    <2> QED  BY <2>1, <2>2, <2>3 DEF Handed, Waits, AtWork
  <1>4. Hands
    <2>1. \A w \in Worker : worker[w].at = "get" /\ worker[w].file = None
      BY <1>1
    <2> QED  BY <2>1 DEF Hands
  <1>5. OnePlace
    <2>1. Once(response_queues)
      BY <1>1, EmptySeq DEF Once
    <2>2. \A n \in Names : \A w \in Worker : ~InHand(w, n)
      BY <1>1, SameFile DEF InHand
    <2> QED  BY <2>1, <2>2 DEF OnePlace
  <1>6. Recorded /\ Listed /\ Uncompared /\ Complete
    BY <1>3 DEF Init, Recorded, Listed, Uncompared, Complete
  <1>7. ComparedOnce
    BY DEF Init, ComparedOnce
  <1>8. Debts
    BY DEF Init, Debts
  <1> QED  BY <1>2, <1>4, <1>5, <1>6, <1>7, <1>8 DEF ResponseInv, PlaceInv

\* The fuzzer creates or fills a file.
LEMMA SaveStep ==
    ASSUME ResponseInv, NEW n \in Names, Save(n)
    PROVE  ResponseInv'
  <1>1. TypeOK /\ Hands /\ Recorded /\ Listed /\ OnePlace /\ Uncompared /\ ComparedOnce
        /\ Complete /\ Debts
    BY DEF ResponseInv, PlaceInv
  <1>2. UNCHANGED <<response_queues, worker, compared>>
        /\ UNCHANGED <<removed, processed_files, new_files, stop, owed, stopped, given_up>>
    BY DEF Save, polling, ending, history
  <1>3. Hands' /\ OnePlace' /\ Uncompared' /\ ComparedOnce'
    BY <1>1, <1>2, Elsewhere
  <1>4. TypeOK'
    <2>1. saved' \in [Names -> SaveStages]
      <3>1. saved[n] \in {"no", "req", "closed", "rsp"}
        BY <1>1 DEF TypeOK, Save, SaveStages
      <3>2. SaveNext[saved[n]] \in SaveStages
        BY <3>1 DEF SaveNext, SaveStages
      <3> QED  BY <1>1, <3>2 DEF TypeOK, Save
    <2> QED  BY <1>1, <2>1 DEF TypeOK, Save, polling, ending, history
  <1>5. \A m \in Names : saved[m] = "filled" => saved'[m] = "filled"
    BY <1>1 DEF TypeOK, Save
  <1>6. \A m \in Names : /\ Handed(m)' <=> Handed(m)
                         /\ Waits(m)' <=> Waits(m)
                         /\ \A w \in Worker : AtWork(w, m)' <=> AtWork(w, m)
    BY <1>2, Elsewhere
  <1>7. Recorded' /\ Listed'
    BY <1>1, <1>2, <1>5, <1>6 DEF Recorded, Listed
  <1>8. Complete'
    BY <1>1, <1>2, <1>6 DEF Complete, Whole
  <1>9. Debts'
    BY <1>1, <1>2, <1>6 DEF Debts, Settled, Save
  <1> QED  BY <1>3, <1>4, <1>7, <1>8, <1>9 DEF ResponseInv, PlaceInv

\* The polling thread lists the directory.
LEMMA ScanStep ==
    ASSUME ResponseInv, Scan
    PROVE  ResponseInv'
  <1>1. TypeOK /\ Hands /\ Recorded /\ Listed /\ OnePlace /\ Uncompared /\ ComparedOnce
        /\ Complete /\ Debts
    BY DEF ResponseInv, PlaceInv
  <1>2. UNCHANGED <<response_queues, worker, compared>>
        /\ UNCHANGED <<saved, removed, response_monitor_active, file_counter, stop, owed, stopped,
                       given_up>>
    BY DEF Scan, files, ending, history
  <1>3. Hands' /\ OnePlace' /\ Uncompared' /\ ComparedOnce'
    BY <1>1, <1>2, Elsewhere
  <1>4. \A m \in Names : /\ Handed(m)' <=> Handed(m)
                         /\ Waits(m)' <=> Waits(m)
                         /\ \A w \in Worker : AtWork(w, m)' <=> AtWork(w, m)
    BY <1>2, Elsewhere
  <1>5. Debts'
    BY <1>1, <1>2, <1>4, DebtsStay DEF Settled
  <1>6. CASE ~response_monitor_active
    <2>1. UNCHANGED <<new_files, processed_files>> /\ poll' = "over"
      BY <1>6 DEF Scan
    <2>2. TypeOK'
      BY <1>1, <1>2, <2>1 DEF TypeOK
    <2>3. Recorded' /\ Listed' /\ Complete'
      BY <1>1, <1>2, <1>4, <2>1 DEF Recorded, Listed, Complete, Whole
    <2> QED  BY <1>3, <1>5, <2>2, <2>3 DEF ResponseInv, PlaceInv
  <1>7. CASE response_monitor_active
    <2>1. /\ new_files' = {f \in File : IsNew(f)}
          /\ processed_files' = {f \in processed_files : There(f)}
                                \cup {Req(f.name) : f \in {g \in new_files' : g.kind = "rsp"}}
          /\ poll' = poll
      BY <1>7 DEF Scan
    <2>2. TypeOK'
      <3>1. new_files' \subseteq File /\ processed_files' \subseteq File
        <4>1. new_files' \subseteq File
          BY <2>1
        <4>2. \A f \in new_files' : Req(f.name) \in File
          BY <4>1, SameFile
        <4> QED  BY <1>1, <2>1, <4>1, <4>2 DEF TypeOK
      <3> QED  BY <1>1, <1>2, <2>1, <3>1 DEF TypeOK
    <2>3. Recorded'
      <3> SUFFICES ASSUME NEW n \in Names, Handed(n)'
                   PROVE  saved'[n] = "filled" /\ Rsp(n) \in processed_files' \cup removed'
        BY DEF Recorded
      <3>1. saved[n] = "filled" /\ Rsp(n) \in processed_files \cup removed
        BY <1>1, <1>4 DEF Recorded
      <3>2. Rsp(n) \in removed \/ There(Rsp(n))
        BY <3>1, FileThere
      <3> QED  BY <1>2, <2>1, <3>1, <3>2
    <2>4. ASSUME NEW n \in Names, Rsp(n) \in new_files'
          PROVE  ~Handed(n) /\ saved[n] = "filled" /\ Whole(n)
      <3>1. IsNew(Rsp(n)) /\ Rsp(n).kind = "rsp" /\ Rsp(n).name = n
        BY <2>1, <2>4 DEF Rsp
      <3>2. /\ Rsp(n) \notin processed_files /\ There(Rsp(n)) /\ There(Req(n))
            /\ saved[n] = "filled"
        BY <3>1 DEF IsNew, Filled
      <3>3. Rsp(n) \notin removed /\ Req(n) \notin removed
        BY <3>2, FileThere
      <3> QED  BY <1>1, <3>2, <3>3 DEF Recorded, Whole
    <2>5. Listed'
      BY <1>2, <1>4, <2>4 DEF Listed
    <2>6. Complete'
      BY <1>1, <1>2, <1>4, <2>4 DEF Complete, Whole
    <2> QED  BY <1>3, <1>5, <2>2, <2>3, <2>5, <2>6 DEF ResponseInv, PlaceInv
  <1> QED  BY <1>6, <1>7

\* file_counter names a worker.
LEMMA CounterType == file_counter \in Worker => (file_counter + 1) % Cores \in Worker
  BY ResponseAssumption DEF Worker

\* A pair is put on the queue of a worker.
LEMMA PutStep ==
    ASSUME ResponseInv, Put
    PROVE  ResponseInv'
  <1>1. TypeOK /\ Hands /\ Recorded /\ Listed /\ OnePlace /\ Uncompared /\ ComparedOnce
        /\ Complete /\ Debts
    BY DEF ResponseInv, PlaceInv
  <1>2. /\ UNCHANGED <<saved, removed, response_monitor_active, poll, worker, stop, owed, stopped,
                       given_up, compared>>
        /\ file_counter' = (file_counter + 1) % Cores
        /\ Len(response_queues[file_counter]) < QueueSize
        /\ stop # "done"
    BY DEF Put, Room, files, ending, history
  <1>3. PICK f \in new_files :
            /\ response_queues' = [response_queues EXCEPT ![file_counter] = Append(@, f)]
            /\ processed_files' = processed_files \cup {f}
            /\ new_files' = new_files \ {f}
    BY Zenon DEF Put
  <1>4. file_counter \in Worker /\ f \in File /\ response_queues \in QueueType
    BY <1>1 DEF TypeOK, QueueType
  <1>5. PutPlaces(response_queues, file_counter, f, response_queues')
    <2>1. Puts(response_queues, file_counter, f, response_queues')
      BY <1>3 DEF Puts
    <2>2. f \in File \cup {None}
      BY <1>4
    <2> QED  BY <1>4, <2>1, <2>2, AppendPlaces, Zenon
  <1>6. \A n \in Names : f = Rsp(n) => ~Handed(n) /\ saved[n] = "filled" /\ Whole(n)
    BY <1>1, <1>2 DEF Listed, Complete
  <1>7. \A n \in Names : InQueue(response_queues', n) <=> InQueue(response_queues, n) \/ f = Rsp(n)
    BY <1>5 DEF PutPlaces
  <1>8. \A w \in Worker, n \in Names : /\ InHand(w, n)' <=> InHand(w, n)
                                       /\ AtWork(w, n)' <=> AtWork(w, n)
    BY <1>2 DEF InHand, AtWork
  <1>9. \A n \in Names : /\ Handed(n)' <=> Handed(n) \/ f = Rsp(n)
                         /\ Waits(n)' <=> Waits(n) \/ f = Rsp(n)
    BY <1>2, <1>7, <1>8 DEF Handed, Waits
  <1>10. TypeOK'
    <2>1. response_queues' \in QueueType
      BY <1>5 DEF PutPlaces
    <2>2. \A w \in Worker : Len(response_queues'[w]) <= QueueSize
      <3> SUFFICES ASSUME NEW w \in Worker PROVE Len(response_queues'[w]) <= QueueSize
        OBVIOUS
      <3>1. response_queues[w] \in Seq(File \cup {None})
        BY <1>4 DEF QueueType
      <3>2. CASE w = file_counter
        <4>1. response_queues'[w] = Append(response_queues[w], f)
          BY <1>3, <1>4, <3>2 DEF QueueType
        <4>2. Len(Append(response_queues[w], f)) = Len(response_queues[w]) + 1
              /\ Len(response_queues[w]) \in Nat
          BY <1>4, <3>1
        <4> QED  BY <1>2, <3>2, <4>1, <4>2, ResponseAssumption
      <3>3. CASE w # file_counter
        <4>1. response_queues'[w] = response_queues[w]
          BY <1>3, <1>4, <3>3 DEF QueueType
        <4> QED  BY <1>1, <4>1 DEF TypeOK
      <3> QED  BY <3>2, <3>3
    <2>3. file_counter' \in Worker
      BY <1>2, <1>4, CounterType
    <2>4. processed_files' \subseteq File /\ new_files' \subseteq File
      BY <1>1, <1>3, <1>4 DEF TypeOK
    <2> QED  BY <1>1, <1>2, <2>1, <2>2, <2>3, <2>4 DEF TypeOK, QueueType
  <1>11. Hands'
    BY <1>1, <1>2, <1>8 DEF Hands
  <1>12. Recorded'
    BY <1>1, <1>2, <1>3, <1>6, <1>9 DEF Recorded
  <1>13. Listed'
    BY <1>1, <1>2, <1>3, <1>9 DEF Listed
  <1>14. OnePlace'
    <2>1. Once(response_queues')
      BY <1>1, <1>5, <1>6 DEF PutPlaces, OnePlace, Handed
    <2>2. \A n \in Names : InQueue(response_queues', n) => \A w \in Worker : ~InHand(w, n)'
      BY <1>1, <1>6, <1>7, <1>8 DEF OnePlace, Handed
    <2>3. \A n \in Names : \A v, w \in Worker : InHand(v, n)' /\ InHand(w, n)' => v = w
      BY <1>1, <1>8 DEF OnePlace
    <2> QED  BY <2>1, <2>2, <2>3 DEF OnePlace
  <1>15. Uncompared' /\ ComparedOnce'
    <2>1. \A n \in Names : compared[n] \in Nat
      BY <1>1 DEF TypeOK
    <2>2. \A n \in Names : f = Rsp(n) => compared[n] = 0
      BY <1>6, <2>1 DEF Handed
    <2> QED  BY <1>1, <1>2, <1>9, <2>2 DEF Uncompared, ComparedOnce
  <1>16. Complete'
    BY <1>1, <1>2, <1>3, <1>6, <1>9 DEF Complete, Whole
  <1>17. Debts'
    BY <1>1, <1>2, <1>8, <1>9, DebtsStay DEF Settled
  <1> QED  BY <1>10, <1>11, <1>12, <1>13, <1>14, <1>15, <1>16, <1>17 DEF ResponseInv, PlaceInv

\* A pair is given up because the queue is full.
LEMMA DropStep ==
    ASSUME ResponseInv, Drop
    PROVE  ResponseInv'
  <1>1. TypeOK /\ Hands /\ Recorded /\ Listed /\ OnePlace /\ Uncompared /\ ComparedOnce
        /\ Complete /\ Debts
    BY DEF ResponseInv, PlaceInv
  <1>2. /\ UNCHANGED <<response_queues, worker, compared>>
        /\ UNCHANGED <<saved, response_monitor_active, poll, processed_files, file_counter, stop,
                       owed, stopped>>
    BY DEF Drop, ending
  <1>3. PICK f \in new_files :
            /\ removed' = removed \cup {g \in Pair(f) : There(g)}
            /\ given_up' = given_up \cup {f.name}
            /\ new_files' = new_files \ {f}
    BY Zenon DEF Drop
  <1>4. f \in File /\ f.name \in Names
    BY <1>1, SameFile DEF TypeOK
  <1>5. Hands' /\ OnePlace' /\ Uncompared' /\ ComparedOnce'
    BY <1>1, <1>2, Elsewhere
  <1>6. \A m \in Names : /\ Handed(m)' <=> Handed(m)
                         /\ Waits(m)' <=> Waits(m)
                         /\ \A w \in Worker : AtWork(w, m)' <=> AtWork(w, m)
    BY <1>2, Elsewhere
  <1>7. TypeOK'
    <2>1. removed' \subseteq File /\ given_up' \subseteq Names /\ new_files' \subseteq File
      BY <1>1, <1>3, <1>4, SameFile DEF TypeOK, Pair
    <2> QED  BY <1>1, <1>2, <2>1 DEF TypeOK
  <1>8. Recorded' /\ Listed'
    BY <1>1, <1>2, <1>3, <1>6 DEF Recorded, Listed
  <1>9. \A n \in Names : Whole(n) => Whole(n)'
    <2> SUFFICES ASSUME NEW n \in Names, Whole(n), n # f.name
                 PROVE  Whole(n)'
      BY <1>3 DEF Whole
    <2>1. Req(n) \notin Pair(f) /\ Rsp(n) \notin Pair(f)
      BY SameFile DEF Pair
    <2> QED  BY <1>3, <2>1 DEF Whole
  <1>10. Complete'
    BY <1>1, <1>2, <1>3, <1>6, <1>9 DEF Complete
  <1>11. Debts'
    BY <1>1, <1>2, <1>3, <1>6, DebtsStay DEF Settled
  <1> QED  BY <1>5, <1>7, <1>8, <1>10, <1>11 DEF ResponseInv, PlaceInv

\* A put that raises.
LEMMA PutFailsStep ==
    ASSUME ResponseInv, PutFails
    PROVE  ResponseInv'
  <1>1. TypeOK /\ Hands /\ Recorded /\ Listed /\ OnePlace /\ Uncompared /\ ComparedOnce
        /\ Complete /\ Debts
    BY DEF ResponseInv, PlaceInv
  <1>2. /\ UNCHANGED <<response_queues, worker, compared>>
        /\ UNCHANGED <<saved, removed, response_monitor_active, poll, processed_files, file_counter,
                       stop, owed, stopped, given_up>>
        /\ new_files' = {}
    BY DEF PutFails, files, ending, history
  <1>3. Hands' /\ OnePlace' /\ Uncompared' /\ ComparedOnce'
    BY <1>1, <1>2, Elsewhere
  <1>4. \A m \in Names : /\ Handed(m)' <=> Handed(m)
                         /\ Waits(m)' <=> Waits(m)
                         /\ \A w \in Worker : AtWork(w, m)' <=> AtWork(w, m)
    BY <1>2, Elsewhere
  <1>5. TypeOK'
    BY <1>1, <1>2 DEF TypeOK
  <1>6. Recorded' /\ Listed' /\ Complete'
    BY <1>1, <1>2, <1>4 DEF Recorded, Listed, Complete, Whole
  <1>7. Debts'
    BY <1>1, <1>2, <1>4, DebtsStay DEF Settled
  <1> QED  BY <1>3, <1>5, <1>6, <1>7 DEF ResponseInv, PlaceInv

\* A worker leaves its loop.
LEMMA LeaveStep ==
    ASSUME ResponseInv, NEW w \in Worker, Leave(w)
    PROVE  ResponseInv'
  <1>1. TypeOK /\ Hands /\ Recorded /\ Listed /\ OnePlace /\ Uncompared /\ ComparedOnce
        /\ Complete /\ Debts
    BY DEF ResponseInv, PlaceInv
  <1>2. UNCHANGED <<saved, removed, response_monitor_active, response_queues, poll, new_files,
                    processed_files, file_counter, stop, stopped, owed, compared, given_up>>
    BY DEF Leave, files, polling, ending, history
  <1>3. /\ worker[w].at = "get" /\ worker'[w].at = "over" /\ worker'[w].file = worker[w].file
        /\ \A v \in Worker \ {w} : worker'[v] = worker[v]
        /\ worker' \in WorkerStates
    BY <1>1 DEF TypeOK, Leave, At, Goes, WorkerStates
  <1>4. \A v \in Worker, n \in Names : /\ InHand(v, n)' <=> InHand(v, n)
                                       /\ AtWork(v, n)' <=> AtWork(v, n)
    BY <1>3 DEF InHand, AtWork
  <1>5. \A n \in Names : (Handed(n)' <=> Handed(n)) /\ (Waits(n)' <=> Waits(n))
    BY <1>2, <1>4 DEF Handed, Waits
  <1>6. TypeOK'
    BY <1>1, <1>2, <1>3 DEF TypeOK, WorkerStates
  <1>7. Hands'
    BY <1>1, <1>3, <1>4 DEF Hands
  <1>8. OnePlace'
    BY <1>1, <1>2, <1>4 DEF OnePlace
  <1>9. Recorded' /\ Listed' /\ Uncompared' /\ ComparedOnce' /\ Complete'
    BY <1>1, <1>2, <1>5 DEF Recorded, Listed, Uncompared, ComparedOnce, Complete, Whole
  <1>10. Debts'
    BY <1>1, <1>2, <1>4, <1>5, DebtsStay DEF Settled
  <1> QED  BY <1>6, <1>7, <1>8, <1>9, <1>10 DEF ResponseInv, PlaceInv

\* It takes a pair from its queue.
LEMMA GetStep ==
    ASSUME ResponseInv, NEW w \in Worker, Get(w)
    PROVE  ResponseInv'
  <1>1. TypeOK /\ Hands /\ Recorded /\ Listed /\ OnePlace /\ Uncompared /\ ComparedOnce
        /\ Complete /\ Debts
    BY DEF ResponseInv, PlaceInv
  <1>2. UNCHANGED <<saved, removed, response_monitor_active, poll, new_files,
                    processed_files, file_counter, stop, stopped, owed, compared, given_up>>
    BY DEF Get, files, polling, ending, history
  <1>3. /\ worker' \in WorkerStates /\ response_queues' \in QueueType /\ Hands' /\ OnePlace'
        /\ \A v \in Worker : Len(response_queues'[v]) <= Len(response_queues[v])
        /\ \A n \in Names : InQueue(response_queues, n)
               <=> InQueue(response_queues', n) \/ InHand(w, n)'
        /\ \A v \in Worker, n \in Names : v # w => (InHand(v, n)' <=> InHand(v, n))
        /\ \A v \in Worker, n \in Names : v # w => (AtWork(v, n)' <=> AtWork(v, n))
        /\ \A n \in Names : ~InHand(w, n) /\ (AtWork(w, n)' <=> InHand(w, n)')
    BY <1>1, Takes
  <1>4. \A n \in Names : ~AtWork(w, n)
    BY <1>3 DEF AtWork
  <1>5. \A n \in Names : (Handed(n)' <=> Handed(n)) /\ (Waits(n)' <=> Waits(n))
    <2> TAKE n \in Names
    <2>1. InQueue(response_queues, n)' \/ (\E v \in Worker : InHand(v, n)')
          <=> InQueue(response_queues, n) \/ (\E v \in Worker : InHand(v, n))
      BY <1>3
    <2>2. InQueue(response_queues, n)' \/ (\E v \in Worker : AtWork(v, n)')
          <=> InQueue(response_queues, n) \/ (\E v \in Worker : AtWork(v, n))
      BY <1>3, <1>4
    <2> QED  BY <1>2, <2>1, <2>2 DEF Handed, Waits
  <1>6. TypeOK'
    <2>1. \A v \in Worker : Len(response_queues'[v]) <= QueueSize
      <3> SUFFICES ASSUME NEW v \in Worker PROVE Len(response_queues'[v]) <= QueueSize
        OBVIOUS
      <3>1. response_queues[v] \in Seq(File \cup {None}) /\ response_queues'[v] \in Seq(File \cup {None})
        BY <1>1, <1>3 DEF TypeOK, QueueType
      <3>2. Len(response_queues[v]) \in Nat /\ Len(response_queues'[v]) \in Nat
        BY <3>1
      <3>3. Len(response_queues[v]) <= QueueSize
        BY <1>1 DEF TypeOK
      <3> QED  BY <1>3, <3>2, <3>3, ResponseAssumption
    <2> QED  BY <1>1, <1>2, <1>3, <2>1 DEF TypeOK, WorkerStates, QueueType
  <1>7. Recorded' /\ Listed' /\ Uncompared' /\ ComparedOnce' /\ Complete'
    BY <1>1, <1>2, <1>5 DEF Recorded, Listed, Uncompared, ComparedOnce, Complete, Whole
  <1>8. Debts'
    BY <1>1, <1>2, <1>3, <1>4, <1>5, DebtsStay DEF Settled
  <1> QED  BY <1>3, <1>6, <1>7, <1>8 DEF ResponseInv, PlaceInv

\* A file that was removed by its worker belonged to no other.
LEMMA HandIsAlone ==
    ASSUME Recorded, Listed, OnePlace, NEW w \in Worker, NEW n \in Names, InHand(w, n)
    PROVE  /\ saved[n] = "filled" /\ Rsp(n) \notin new_files
           /\ ~InQueue(response_queues, n) /\ \A v \in Worker : AtWork(v, n) => v = w
           /\ Handed(n)
  BY DEF Recorded, Listed, OnePlace, Handed, AtWork

\* What the step of a worker with a response at hand must keep.
LEMMA HandStep ==
    ASSUME ResponseInv, NEW w \in Worker, NEW n \in Names, InHand(w, n),
           UNCHANGED <<saved, response_queues, new_files, processed_files, compared, given_up,
                       stop, stopped, owed>>,
           OnePlace',
           removed \subseteq removed',
           \A m \in Names \ {n} : Whole(m) => Whole(m)',
           \A v \in Worker, m \in Names : InHand(v, m)' => InHand(v, m),
           \A v \in Worker, m \in Names : AtWork(v, m)' => AtWork(v, m),
           \A v \in Worker, m \in Names : AtWork(v, m) /\ ~AtWork(v, m)' => Settled(m) \/ m \notin owed,
           Waits(n)' /\ Whole(n) => Whole(n)'
    PROVE  Recorded' /\ Listed' /\ Uncompared' /\ ComparedOnce' /\ Complete' /\ Debts'
  <1>1. TypeOK /\ Hands /\ Recorded /\ Listed /\ OnePlace /\ Uncompared /\ ComparedOnce
        /\ Complete /\ Debts
    BY DEF ResponseInv, PlaceInv
  <1>2. \A m \in Names : (Handed(m)' => Handed(m)) /\ (Waits(m)' => Waits(m))
    BY DEF Handed, Waits
  <1>3. Rsp(n) \notin new_files
    BY <1>1, HandIsAlone
  <1>4. Recorded' /\ Listed' /\ Uncompared' /\ ComparedOnce'
    BY <1>1, <1>2 DEF Recorded, Listed, Uncompared, ComparedOnce
  <1>5. Complete'
    BY <1>1, <1>2, <1>3 DEF Complete
  <1>6. Debts'
    <2>1. \A m \in Names : Settled(m) => Settled(m)'
      BY DEF Settled
    <2>2. \A m \in Names : Waits(m) => Waits(m)' \/ Settled(m)' \/ m \notin owed
      BY <2>1 DEF Waits
    <2>3. \A m \in Names : \A v \in Worker :
              AtWork(v, m) => AtWork(v, m)' \/ Settled(m)' \/ m \notin owed
      BY <2>1
    <2> QED  BY <1>1, <2>1, <2>2, <2>3, DebtsStay
  <1> QED  BY <1>4, <1>5, <1>6

\* It is handed a request without a response and removes it.
LEMMA LoneStep ==
    ASSUME ResponseInv, NEW w \in Worker, Lone(w)
    PROVE  ResponseInv'
  <1>1. TypeOK /\ Hands /\ Recorded /\ Listed /\ OnePlace /\ Uncompared /\ ComparedOnce
        /\ Complete /\ Debts
    BY DEF ResponseInv, PlaceInv
  <1>2. UNCHANGED <<saved, response_monitor_active, response_queues, poll, new_files,
                    processed_files, file_counter, stop, stopped, owed, compared>>
    BY DEF Lone, polling, ending
  <1> DEFINE f == worker[w].file
  <1>3. f \in File /\ f.kind = "req" /\ f.name \in Names /\ f = Req(f.name)
    <2>1. worker[w].at = "start" /\ f.kind = "req"
      BY DEF Lone, At
    <2>2. f \in File
      BY <1>1, <2>1 DEF Hands
    <2>3. f # Rsp(f.name)
      BY <2>1 DEF Rsp
    <2> QED  BY <2>1, <2>2, <2>3, SameFile
  <1>4. /\ removed' = removed \cup {f} /\ Done(w)
        /\ given_up' = IF There(f) THEN given_up \cup {f.name} ELSE given_up
    BY DEF Lone
  <1> HIDE DEF f
  <1>5. /\ worker' \in WorkerStates /\ Hands' /\ OnePlace'
        /\ \A v \in Worker, n \in Names : /\ InHand(v, n)' <=> InHand(v, n) /\ v # w
                                          /\ AtWork(v, n)' <=> AtWork(v, n) /\ v # w
    <2>1. worker \in WorkerStates /\ response_monitor_active \in BOOLEAN
      BY <1>1 DEF TypeOK, WorkerStates
    <2> QED  BY <1>1, <1>2, <1>4, <2>1, Drops
  <1>6. \A n \in Names : ~InHand(w, n)
    BY <1>3, SameFile DEF InHand, f
  <1>7. \A v \in Worker, n \in Names : /\ InHand(v, n)' <=> InHand(v, n)
                                       /\ AtWork(v, n)' <=> AtWork(v, n)
    BY <1>5, <1>6 DEF AtWork
  <1>8. \A n \in Names : (Handed(n)' <=> Handed(n)) /\ (Waits(n)' <=> Waits(n))
    BY <1>2, <1>7 DEF Handed, Waits
  <1>9. TypeOK'
    <2>1. removed' \subseteq File /\ given_up' \subseteq Names
      BY <1>1, <1>3, <1>4 DEF TypeOK
    <2> QED  BY <1>1, <1>2, <1>5, <2>1 DEF TypeOK, WorkerStates
  <1>10. Recorded' /\ Listed' /\ Uncompared' /\ ComparedOnce'
    BY <1>1, <1>2, <1>4, <1>8 DEF Recorded, Listed, Uncompared, ComparedOnce
  <1>11. ASSUME NEW n \in Names, saved[n] = "filled", Whole(n)
         PROVE  Whole(n)'
    <2>1. CASE n \in given_up
      BY <1>4, <2>1 DEF Whole
    <2>2. CASE n \notin given_up /\ f = Req(n)
      <3>1. There(f)
        BY <1>11, <2>2, FileThere DEF Whole
      <3>2. f.name = n
        BY <1>3, <2>2, SameFile
      <3> QED  BY <1>4, <3>1, <3>2 DEF Whole
    <2>3. CASE n \notin given_up /\ f # Req(n)
      <3>1. f # Rsp(n)
        BY <1>3, SameFile
      <3> QED  BY <1>4, <1>11, <2>3, <3>1 DEF Whole
    <2> QED  BY <2>1, <2>2, <2>3
  <1>12. Complete'
    <2>1. \A n \in Names : Waits(n) \/ Rsp(n) \in new_files => saved[n] = "filled"
      BY <1>1 DEF Recorded, Listed, Handed, Waits, AtWork
    <2> QED  BY <1>1, <1>2, <1>8, <1>11, <2>1 DEF Complete
  <1>13. Debts'
    <2>1. \A n \in Names : Settled(n) => Settled(n)'
      BY <1>2, <1>4 DEF Settled
    <2> QED  BY <1>1, <1>2, <1>7, <1>8, <2>1, DebtsStay
  <1> QED  BY <1>5, <1>9, <1>10, <1>12, <1>13 DEF ResponseInv, PlaceInv

\* It opens both files, or finds them gone.
LEMMA OpenStep ==
    ASSUME ResponseInv, NEW w \in Worker, Open(w)
    PROVE  ResponseInv'
  <1>1. TypeOK /\ Hands /\ Recorded /\ Listed /\ OnePlace /\ Uncompared /\ ComparedOnce
        /\ Complete /\ Debts
    BY DEF ResponseInv, PlaceInv
  <1>2. UNCHANGED <<saved, removed, response_monitor_active, response_queues, poll, new_files,
                    processed_files, file_counter, stop, stopped, owed, compared, given_up>>
    BY DEF Open, files, polling, ending, history
  <1>3. PICK n \in Names : worker[w].file = Rsp(n)
    <2>1. worker[w].at = "start" /\ worker[w].file.kind = "rsp"
      BY DEF Open, At
    <2>2. worker[w].file \in File
      BY <1>1, <2>1 DEF Hands
    <2>3. \A m : worker[w].file # Req(m)
      BY <2>1 DEF Req
    <2> QED  BY <2>2, <2>3, SameFile
  <1>4. InHand(w, n) /\ AtWork(w, n) /\ worker[w].file.name = n
    <2>1. worker[w].at = "start"
      BY DEF Open, At
    <2> QED  BY <1>3, <2>1, FileName DEF InHand, AtWork
  <1>5. /\ saved[n] = "filled" /\ ~InQueue(response_queues, n)
        /\ \A v \in Worker : AtWork(v, n) => v = w
    BY <1>1, <1>4, HandIsAlone
  <1>6. ~There(Rsp(n)) \/ ~There(Req(n)) => Settled(n) \/ n \notin owed
    <2>1. CASE stop # "done"
      <3>1. Whole(n)
        BY <1>1, <1>4, <2>1 DEF Complete, Waits
      <3> QED  BY <1>5, <3>1, FileThere DEF Whole, Settled
    <2>2. CASE stop = "done"
      BY <1>1, <2>2 DEF Debts
    <2> QED  BY <2>1, <2>2
  <1>7. worker \in WorkerStates /\ response_monitor_active \in BOOLEAN
    BY <1>1 DEF TypeOK, WorkerStates
  <1>8. CASE Done(w) /\ ~There(Rsp(n))
    <2>1. /\ worker' \in WorkerStates /\ Hands' /\ OnePlace'
          /\ \A v \in Worker, m \in Names : /\ InHand(v, m)' <=> InHand(v, m) /\ v # w
                                            /\ AtWork(v, m)' <=> AtWork(v, m) /\ v # w
      BY <1>1, <1>2, <1>7, <1>8, Drops
    <2>2. TypeOK'
      BY <1>1, <1>2, <2>1 DEF TypeOK, WorkerStates
    <2>3. \A m \in Names : AtWork(w, m) => m = n
      BY <1>4, SameFile DEF AtWork, InHand
    <2>4. \A v \in Worker, m \in Names : AtWork(v, m) /\ ~AtWork(v, m)' => Settled(m) \/ m \notin owed
      BY <1>6, <1>8, <2>1, <2>3
    <2>5. ~Waits(n)'
      BY <1>2, <1>5, <2>1 DEF Waits
    <2>6. \A m \in Names : Whole(m) => Whole(m)'
      BY <1>2 DEF Whole
    <2>7. Recorded' /\ Listed' /\ Uncompared' /\ ComparedOnce' /\ Complete' /\ Debts'
      BY <1>2, <1>4, <2>1, <2>4, <2>5, <2>6, HandStep
    <2> QED  BY <2>1, <2>2, <2>7 DEF ResponseInv, PlaceInv
  <1>9. CASE \E place \in {"http", "remove rsp"} :
                Goes(w, place) /\ (place = "remove rsp" => ~There(Req(n)))
    <2>1. PICK place \in {"http", "remove rsp"} :
              Goes(w, place) /\ (place = "remove rsp" => ~There(Req(n)))
      BY <1>9
    <2>2. /\ worker' \in WorkerStates /\ Hands' /\ OnePlace'
          /\ \A v \in Worker, m \in Names : InHand(v, m)' <=> InHand(v, m)
          /\ \A v \in Worker, m \in Names : v # w => (AtWork(v, m)' <=> AtWork(v, m))
          /\ \A m \in Names : AtWork(w, m)' <=> m = n /\ place = "http"
      <3>1. place \in {"http", "remove rsp", "remove req"} /\ Goes(w, place)
        BY <2>1
      <3>2. Hands /\ OnePlace /\ InHand(w, n) /\ UNCHANGED response_queues
        BY <1>1, <1>2, <1>4
      <3> QED  BY <1>7, <3>1, <3>2, Moves, Zenon
    <2>3. TypeOK'
      BY <1>1, <1>2, <2>2 DEF TypeOK, WorkerStates
    <2>4. \A m \in Names : AtWork(w, m) => m = n
      BY <1>4, SameFile DEF AtWork, InHand
    <2>5. \A v \in Worker, m \in Names : AtWork(v, m)' => AtWork(v, m)
      BY <1>4, <2>2
    <2>6. \A v \in Worker, m \in Names : AtWork(v, m) /\ ~AtWork(v, m)' => Settled(m) \/ m \notin owed
      BY <1>6, <2>1, <2>2, <2>4
    <2>7. \A m \in Names : Whole(m) => Whole(m)'
      BY <1>2 DEF Whole
    <2>8. Recorded' /\ Listed' /\ Uncompared' /\ ComparedOnce' /\ Complete' /\ Debts'
      BY <1>2, <1>4, <2>2, <2>5, <2>6, <2>7, HandStep
    <2> QED  BY <2>2, <2>3, <2>8 DEF ResponseInv, PlaceInv
  <1> QED  BY <1>4, <1>8, <1>9, <1>3 DEF Open

\* It compares the pair.
LEMMA CompareStep ==
    ASSUME ResponseInv, NEW w \in Worker, Compare(w)
    PROVE  ResponseInv'
  <1>1. TypeOK /\ Hands /\ Recorded /\ Listed /\ OnePlace /\ Uncompared /\ ComparedOnce
        /\ Complete /\ Debts
    BY DEF ResponseInv, PlaceInv
  <1>2. UNCHANGED <<saved, removed, response_monitor_active, response_queues, poll, new_files,
                    processed_files, file_counter, stop, stopped, owed, given_up>>
    BY DEF Compare, files, polling, ending
  <1>3. PICK n \in Names : InHand(w, n)
    BY <1>1 DEF Hands, Compare, At
  <1>4. AtWork(w, n) /\ worker[w].file.name = n
    <2>1. worker[w].at = "http"
      BY DEF Compare, At
    <2> QED  BY <1>3, <2>1, FileName DEF InHand, AtWork
  <1>5. /\ saved[n] = "filled" /\ ~InQueue(response_queues, n) /\ Rsp(n) \notin new_files
        /\ \A v \in Worker : AtWork(v, n) => v = w
    BY <1>1, <1>3, HandIsAlone
  <1>6. /\ compared' \in [Names -> Nat] /\ compared'[n] = 1
        /\ \A m \in Names \ {n} : compared'[m] = compared[m]
    <2>1. compared[n] = 0
      BY <1>1, <1>4 DEF Uncompared, Waits
    <2>2. compared \in [Names -> Nat]
      BY <1>1 DEF TypeOK
    <2>3. compared' = [compared EXCEPT ![n] = @ + 1]
      BY <1>4 DEF Compare
    <2> QED  BY <2>1, <2>2, <2>3
  <1>7. /\ worker' \in WorkerStates /\ Hands' /\ OnePlace'
        /\ \A v \in Worker, m \in Names : InHand(v, m)' <=> InHand(v, m)
        /\ \A v \in Worker, m \in Names : v # w => (AtWork(v, m)' <=> AtWork(v, m))
        /\ \A m \in Names : ~AtWork(w, m)'
    <2>1. worker \in WorkerStates
      BY <1>1 DEF TypeOK, WorkerStates
    <2>2. Goes(w, "remove rsp")
      BY DEF Compare
    <2> QED  BY <1>1, <1>2, <1>3, <2>1, <2>2, Moves
  <1>8. \A m \in Names : AtWork(w, m) => m = n
    BY <1>4, SameFile DEF AtWork, InHand
  <1>9. TypeOK'
    BY <1>1, <1>2, <1>6, <1>7 DEF TypeOK, WorkerStates
  <1>10. \A m \in Names : (Handed(m)' => Handed(m)) /\ (Waits(m)' => Waits(m) /\ m # n)
    <2> TAKE m \in Names
    <2>1. Handed(n)
      BY <1>3 DEF Handed
    <2>2. Handed(m)' => Handed(m)
      BY <1>2, <1>6, <1>7, <2>1 DEF Handed
    <2>3. Waits(m)' => Waits(m) /\ m # n
      BY <1>2, <1>5, <1>7 DEF Waits
    <2> QED  BY <2>2, <2>3
  <1>11. Recorded' /\ Listed' /\ Complete'
    BY <1>1, <1>2, <1>10 DEF Recorded, Listed, Complete, Whole
  <1>12. Uncompared' /\ ComparedOnce'
    BY <1>1, <1>6, <1>10 DEF Uncompared, ComparedOnce
  <1>13. Debts'
    <2>1. \A m \in Names : Settled(m) => Settled(m)'
      BY <1>2, <1>6 DEF Settled
    <2>2. Settled(n)'
      BY <1>6 DEF Settled
    <2>3. \A m \in Names : \A v \in Worker : AtWork(v, m) => AtWork(v, m)' \/ Settled(m)'
      BY <1>7, <1>8, <2>2
    <2>4. \A m \in Names : Waits(m) => Waits(m)' \/ Settled(m)'
      BY <1>2, <2>3 DEF Waits
    <2> QED  BY <1>1, <1>2, <2>1, <2>3, <2>4, DebtsStay
  <1> QED  BY <1>7, <1>9, <1>11, <1>12, <1>13 DEF ResponseInv, PlaceInv

\* The removals: the pair at hand waits no more.
LEMMA RemovalStep ==
    ASSUME ResponseInv, NEW w \in Worker, NEW n \in Names, InHand(w, n),
           At(w, "remove rsp") \/ At(w, "remove req"),
           removed \subseteq removed', removed' \subseteq removed \cup Pair(Rsp(n)),
           Done(w) \/ Goes(w, "remove req"),
           UNCHANGED <<saved, response_monitor_active, response_queues, polling, ending, history>>
    PROVE  ResponseInv'
  <1>1. TypeOK /\ Hands /\ Recorded /\ Listed /\ OnePlace /\ Uncompared /\ ComparedOnce
        /\ Complete /\ Debts
    BY DEF ResponseInv, PlaceInv
  <1>2. UNCHANGED <<saved, response_monitor_active, response_queues, poll, new_files,
                    processed_files, file_counter, stop, stopped, owed, compared, given_up>>
    BY DEF polling, ending, history
  <1>3. \A m \in Names : ~AtWork(w, m)
    BY DEF AtWork, At
  <1>4. worker \in WorkerStates /\ response_monitor_active \in BOOLEAN
    BY <1>1 DEF TypeOK, WorkerStates
  <1>5. /\ worker' \in WorkerStates /\ Hands' /\ OnePlace'
        /\ \A v \in Worker, m \in Names : InHand(v, m)' => InHand(v, m)
        /\ \A v \in Worker, m \in Names : AtWork(v, m)' <=> AtWork(v, m)
    <2>1. CASE Done(w)
      BY <1>1, <1>2, <1>3, <1>4, <2>1, Drops
    <2>2. CASE Goes(w, "remove req")
      BY <1>1, <1>2, <1>3, <1>4, <2>2, Moves
    <2> QED  BY <2>1, <2>2
  <1>6. TypeOK'
    <2>1. removed' \subseteq File
      <3>1. Pair(Rsp(n)) = {Req(n), Rsp(n)}
        BY FileName DEF Pair
      <3>2. removed \subseteq File /\ Req(n) \in File /\ Rsp(n) \in File
        BY <1>1, SameFile DEF TypeOK
      <3> QED  BY <3>1, <3>2
    <2> QED  BY <1>1, <1>2, <1>5, <2>1 DEF TypeOK, WorkerStates
  <1>7. ~Waits(n)'
    <2>1. ~InQueue(response_queues, n) /\ \A v \in Worker : ~AtWork(v, n)
      BY <1>1, <1>3, HandIsAlone
    <2> QED  BY <1>2, <1>5, <2>1 DEF Waits
  <1>8. removed \subseteq removed' /\ \A m \in Names \ {n} : Whole(m) => Whole(m)'
    <2>1. Pair(Rsp(n)) = {Req(n), Rsp(n)}
      BY FileName DEF Pair
    <2>2. \A m \in Names \ {n} : Req(m) \notin Pair(Rsp(n)) /\ Rsp(m) \notin Pair(Rsp(n))
      BY <2>1, SameFile
    <2> QED  BY <1>2, <2>2 DEF Whole
  <1>9. Recorded' /\ Listed' /\ Uncompared' /\ ComparedOnce' /\ Complete' /\ Debts'
    BY <1>2, <1>5, <1>7, <1>8, HandStep
  <1> QED  BY <1>5, <1>6, <1>9 DEF ResponseInv, PlaceInv

\* It removes the files, one after the other.
LEMMA RemoveSteps ==
    ASSUME ResponseInv, NEW w \in Worker, RemoveRsp(w) \/ RemoveReq(w)
    PROVE  ResponseInv'
  <1>1. Hands
    BY DEF ResponseInv, PlaceInv
  <1>2. CASE RemoveRsp(w)
    <2>1. PICK n \in Names : InHand(w, n)
      BY <1>1, <1>2 DEF Hands, RemoveRsp, At
    <2>2. removed \subseteq removed' /\ removed' \subseteq removed \cup {Rsp(n)}
          /\ (Done(w) \/ Goes(w, "remove req"))
      BY <1>2, <2>1 DEF RemoveRsp, InHand
    <2>5. Rsp(n) \in Pair(Rsp(n))
      BY FileName DEF Pair
    <2>3. UNCHANGED <<saved, response_monitor_active, response_queues, polling, ending, history>>
      BY <1>2 DEF RemoveRsp
    <2>4. At(w, "remove rsp")
      BY <1>2 DEF RemoveRsp
    <2> QED  BY <2>1, <2>2, <2>3, <2>4, <2>5, RemovalStep
  <1>3. CASE RemoveReq(w)
    <2>1. PICK n \in Names : InHand(w, n)
      BY <1>1, <1>3 DEF Hands, RemoveReq, At
    <2>2. worker[w].file.name = n
      BY <2>1, FileName DEF InHand
    <2>3. removed' = removed \cup {Req(n)} /\ Done(w) /\ Req(n) \in Pair(Rsp(n))
      BY <1>3, <2>2, FileName DEF RemoveReq, Pair
    <2>4. UNCHANGED <<saved, response_monitor_active, response_queues, polling, ending, history>>
      BY <1>3 DEF RemoveReq
    <2>5. At(w, "remove req")
      BY <1>3 DEF RemoveReq
    <2> QED  BY <2>1, <2>3, <2>4, <2>5, RemovalStep
  <1> QED  BY <1>2, <1>3

\* The conjuncts that a step of the stop leaves alone if it moves no file.
LEMMA StopKeeps ==
    ASSUME ResponseInv,
           UNCHANGED <<saved, new_files, processed_files, worker, compared, given_up>>,
           response_queues' \in QueueType,
           \A n \in Names : InQueue(response_queues', n) <=> InQueue(response_queues, n),
           Once(response_queues'),
           removed \subseteq removed', removed' = removed \/ stop' = "done",
           stop' = "done" \/ stop # "done"
    PROVE  /\ Hands' /\ Recorded' /\ Listed' /\ OnePlace' /\ Uncompared' /\ ComparedOnce' /\ Complete'
           /\ \A n \in Names : /\ Waits(n)' <=> Waits(n)
                               /\ Settled(n)' <=> Settled(n)
                               /\ \A w \in Worker : AtWork(w, n)' <=> AtWork(w, n)
  <1>1. TypeOK /\ Hands /\ Recorded /\ Listed /\ OnePlace /\ Uncompared /\ ComparedOnce
        /\ Complete
    BY DEF ResponseInv, PlaceInv
  <1>2. \A n \in Names, w \in Worker : /\ InHand(w, n)' <=> InHand(w, n)
                                       /\ AtWork(w, n)' <=> AtWork(w, n)
    BY DEF InHand, AtWork
  <1>3. \A n \in Names : (Handed(n)' <=> Handed(n)) /\ (Waits(n)' <=> Waits(n))
    BY <1>2 DEF Handed, Waits
  <1>4. Hands'
    BY <1>1, <1>2 DEF Hands
  <1>5. OnePlace'
    BY <1>1, <1>2 DEF OnePlace
  <1>6. Recorded' /\ Listed' /\ Uncompared' /\ ComparedOnce'
    BY <1>1, <1>3 DEF Recorded, Listed, Uncompared, ComparedOnce
  <1>7. Complete'
    <2>1. CASE stop' = "done"
      BY <2>1 DEF Complete
    <2>2. CASE stop' # "done"
      BY <1>1, <1>3, <2>2 DEF Complete, Whole
    <2> QED  BY <2>1, <2>2
  <1>8. \A n \in Names : Settled(n)' <=> Settled(n)
    BY DEF Settled
  <1> QED  BY <1>2, <1>3, <1>4, <1>5, <1>6, <1>7, <1>8

\* Of the pairs that wait, those that are in no queue are with a worker.
LEMMA NothingQueued ==
    ASSUME TypeOK, NonePending
    PROVE  \A n \in Names : ~InQueue(response_queues, n) /\ ~Queued(n)
  <1>1. \A w \in Worker : response_queues[w] = <<>>
    BY DEF NonePending
  <1>2. \A w \in Worker : Len(response_queues[w]) = 0 /\ DOMAIN response_queues[w] = {}
    BY <1>1
  <1> QED  BY <1>2 DEF InQueue, Queued

\* A stop begins: what is queued is owed.
LEMMA StopStep ==
    ASSUME ResponseInv, Stop
    PROVE  ResponseInv'
  <1>1. TypeOK /\ OnePlace
    BY DEF ResponseInv, PlaceInv
  <1>2. /\ UNCHANGED <<saved, removed, response_queues, poll, new_files, processed_files, file_counter,
                       worker, stopped, compared, given_up>>
        /\ owed' = {n \in Names : Queued(n)} /\ stop = "off"
        /\ IF NonePending THEN response_monitor_active' = FALSE /\ stop' = "signal"
           ELSE stop' = "drain" /\ UNCHANGED response_monitor_active
    BY DEF Stop, Deactivate, files, polling, history
  <1>3. /\ Hands' /\ Recorded' /\ Listed' /\ OnePlace' /\ Uncompared' /\ ComparedOnce' /\ Complete'
        /\ \A n \in Names : Waits(n)' <=> Waits(n)
    <2>1. response_queues' \in QueueType /\ Once(response_queues')
      BY <1>1, <1>2 DEF TypeOK, QueueType, OnePlace
    <2>2. \A n \in Names : InQueue(response_queues', n) <=> InQueue(response_queues, n)
      BY <1>2
    <2>3. removed' = removed /\ stop # "done"
      BY <1>2
    <2> QED  BY <1>2, <2>1, <2>2, <2>3, StopKeeps
  <1>4. TypeOK'
    <2>1. stop' \in {"signal", "drain"} /\ response_monitor_active' \in BOOLEAN
      BY <1>1, <1>2 DEF TypeOK
    <2>2. owed' \subseteq Names
      BY <1>2
    <2> QED  BY <1>1, <1>2, <2>1, <2>2 DEF TypeOK
  <1>5. Debts'
    <2>1. CASE NonePending
      <3>1. owed' = {} /\ stop' = "signal"
        BY <1>1, <1>2, <2>1, NothingQueued
      <3> QED  BY <3>1 DEF Debts
    <2>2. CASE ~NonePending
      <3>1. \A w \in Worker : DOMAIN response_queues[w] = 1 .. Len(response_queues[w])
        <4>1. \A w \in Worker : response_queues[w] \in Seq(File \cup {None})
          BY <1>1 DEF TypeOK
        <4> QED  BY <4>1
      <3>2. \A n \in owed' : Waits(n)'
        BY <1>2, <1>3, <3>1 DEF Queued, Waits, InQueue
      <3> QED  BY <1>2, <2>2, <3>2 DEF Debts
    <2> QED  BY <2>1, <2>2
  <1> QED  BY <1>3, <1>4, <1>5 DEF ResponseInv, PlaceInv

\* It waits for the queues, or its timeout expires.
LEMMA DrainStep ==
    ASSUME ResponseInv, Drain
    PROVE  ResponseInv'
  <1>1. TypeOK /\ OnePlace /\ Debts
    BY DEF ResponseInv, PlaceInv
  <1>2. /\ UNCHANGED <<saved, removed, response_queues, poll, new_files, processed_files, file_counter,
                       worker, stopped, compared, given_up>>
        /\ owed' = (IF NonePending THEN owed ELSE {}) /\ stop = "drain"
        /\ response_monitor_active' = FALSE /\ stop' = "signal"
    BY DEF Drain, Deactivate, files, polling, history
  <1>3. /\ Hands' /\ Recorded' /\ Listed' /\ OnePlace' /\ Uncompared' /\ ComparedOnce' /\ Complete'
        /\ \A n \in Names : /\ Settled(n)' <=> Settled(n)
                            /\ \A w \in Worker : AtWork(w, n)' <=> AtWork(w, n)
    <2>1. response_queues' \in QueueType /\ Once(response_queues')
      BY <1>1, <1>2 DEF TypeOK, QueueType, OnePlace
    <2>2. \A n \in Names : InQueue(response_queues', n) <=> InQueue(response_queues, n)
      BY <1>2
    <2>3. removed' = removed /\ stop # "done"
      BY <1>2
    <2> QED  BY <1>2, <2>1, <2>2, <2>3, StopKeeps
  <1>4. owed' \subseteq Names
    BY <1>1, <1>2 DEF TypeOK
  <1>5. TypeOK'
    BY <1>1, <1>2, <1>4 DEF TypeOK
  <1>6. Debts'
    <2>1. \A n \in owed' : (\E w \in Worker : AtWork(w, n)') \/ Settled(n)'
      <3> SUFFICES ASSUME NEW n \in owed'
                   PROVE  (\E w \in Worker : AtWork(w, n)') \/ Settled(n)'
        OBVIOUS
      <3>1. NonePending /\ n \in owed /\ n \in Names
        BY <1>2, <1>4
      <3>2. Waits(n) \/ Settled(n)
        BY <1>1, <1>2, <3>1 DEF Debts
      <3>3. ~InQueue(response_queues, n)
        BY <1>1, <3>1, NothingQueued
      <3> QED  BY <1>3, <3>1, <3>2, <3>3 DEF Waits
    <2> QED  BY <1>2, <2>1 DEF Debts
  <1> QED  BY <1>3, <1>5, <1>6 DEF ResponseInv, PlaceInv

\* The stop goes on to the next worker or is done with them.
LEMMA OnwardWorkers ==
    ASSUME stopped \in Worker, NEW next, Onward(next)
    PROVE  /\ stopped' \in Worker /\ stop' \in {stop, next}
           /\ stopped + 1 < Cores => stopped' = stopped + 1 /\ stop' = stop
           /\ ~(stopped + 1 < Cores) =>
                  stopped' = 0 /\ stop' = next /\ \A w \in stopped .. Cores - 1 : w = stopped
  <1>1. stopped \in Nat /\ Cores \in Nat \ {0} /\ stopped < Cores
    BY ResponseAssumption DEF Worker
  <1>2. CASE stopped + 1 < Cores
    BY <1>1, <1>2 DEF Onward, Worker
  <1>3. CASE ~(stopped + 1 < Cores)
    BY <1>1, <1>3 DEF Onward, Worker
  <1> QED  BY <1>2, <1>3

\* A worker is told to stop.
LEMMA SignalStep ==
    ASSUME ResponseInv, Signal
    PROVE  ResponseInv'
  <1>1. TypeOK /\ OnePlace /\ Debts
    BY DEF ResponseInv, PlaceInv
  <1>2. /\ UNCHANGED <<saved, removed, response_monitor_active, poll, new_files, processed_files,
                       file_counter, worker, compared, given_up, owed>>
        /\ response_queues' = (IF Room(stopped)
                               THEN [response_queues EXCEPT ![stopped] = Append(@, None)]
                               ELSE response_queues)
        /\ stop = "signal" /\ Onward("join")
    BY DEF Signal, files, polling, history
  <1>3. stopped \in Worker /\ response_queues \in QueueType /\ owed \subseteq Names
        /\ \A w \in Worker : Len(response_queues[w]) <= QueueSize
    BY <1>1 DEF TypeOK, QueueType
  <1>4. stopped' \in Worker /\ (stop' = "signal" \/ (stop' = "join" /\ stopped' = 0))
    BY <1>2, <1>3, OnwardWorkers
  <1>5. /\ response_queues' \in QueueType /\ Once(response_queues')
        /\ \A n \in Names : InQueue(response_queues', n) <=> InQueue(response_queues, n)
        /\ \A w \in Worker : Len(response_queues'[w]) <= QueueSize
    <2>1. CASE ~Room(stopped)
      BY <1>1, <1>2, <1>3, <2>1 DEF OnePlace
    <2>2. CASE Room(stopped)
      <3>1. Puts(response_queues, stopped, None, response_queues')
        BY <1>2, <2>2 DEF Puts
      <3>2. PutPlaces(response_queues, stopped, None, response_queues')
        <4>1. None \in File \cup {None}
          OBVIOUS
        <4> QED  BY <1>3, <3>1, <4>1, AppendPlaces, Zenon
      <3>3. \A n \in Names : None # Rsp(n)
        BY SameFile
      <3>4. \A w \in Worker : Len(response_queues'[w]) <= QueueSize
        <4> SUFFICES ASSUME NEW w \in Worker PROVE Len(response_queues'[w]) <= QueueSize
          OBVIOUS
        <4>1. response_queues[w] \in Seq(File \cup {None})
          BY <1>3 DEF QueueType
        <4>2. CASE w = stopped
          <5>1. response_queues'[w] = Append(response_queues[w], None)
            BY <1>2, <1>3, <2>2, <4>2 DEF QueueType
          <5>2. Len(Append(response_queues[w], None)) = Len(response_queues[w]) + 1
                /\ Len(response_queues[w]) \in Nat
            BY <4>1
          <5>3. Len(response_queues[w]) < QueueSize
            BY <2>2, <4>2 DEF Room
          <5> QED  BY <5>1, <5>2, <5>3, ResponseAssumption
        <4>3. CASE w # stopped
          <5>1. response_queues'[w] = response_queues[w]
            BY <1>2, <1>3, <2>2, <4>3 DEF QueueType
          <5> QED  BY <1>3, <5>1
        <4> QED  BY <4>2, <4>3
      <3> QED  BY <1>1, <3>2, <3>3, <3>4 DEF PutPlaces, OnePlace
    <2> QED  BY <2>1, <2>2
  <1>6. /\ Hands' /\ Recorded' /\ Listed' /\ OnePlace' /\ Uncompared' /\ ComparedOnce' /\ Complete'
        /\ \A n \in Names : /\ Settled(n)' <=> Settled(n)
                            /\ \A w \in Worker : AtWork(w, n)' <=> AtWork(w, n)
    <2>1. removed' = removed /\ stop # "done"
      BY <1>2
    <2> QED  BY <1>2, <1>5, <2>1, StopKeeps
  <1>7. TypeOK'
    <2>1. stop' \in {"signal", "join"}
      BY <1>4
    <2> QED  BY <1>1, <1>2, <1>4, <1>5, <2>1 DEF TypeOK, QueueType
  <1>8. Debts'
    <2>1. \A n \in owed' : (\E w \in Worker : AtWork(w, n)') \/ Settled(n)'
      BY <1>1, <1>2, <1>3, <1>6 DEF Debts
    <2>2. stopped' = 0 => \A w \in Worker : w \in stopped' .. Cores - 1
      BY ResponseAssumption DEF Worker
    <2> QED  BY <1>4, <2>1, <2>2 DEF Debts
  <1> QED  BY <1>6, <1>7, <1>8 DEF ResponseInv, PlaceInv

\* A worker is joined, or its timeout expires.
LEMMA JoinStep ==
    ASSUME ResponseInv, Join
    PROVE  ResponseInv'
  <1>1. TypeOK /\ Hands /\ OnePlace /\ Debts
    BY DEF ResponseInv, PlaceInv
  <1>2. /\ UNCHANGED <<saved, removed, response_monitor_active, response_queues, poll, new_files,
                       processed_files, file_counter, worker, compared, given_up>>
        /\ owed' = (IF At(stopped, "over") THEN owed ELSE {})
        /\ stop = "join" /\ Onward("clean")
    BY DEF Join, files, polling, history
  <1>3. stopped \in Worker /\ owed \subseteq Names /\ owed' \subseteq Names
    BY <1>1, <1>2 DEF TypeOK
  <1>4. stopped' \in Worker /\ stop' \in {"join", "clean"}
    BY <1>2, <1>3, OnwardWorkers
  <1>5. /\ Hands' /\ Recorded' /\ Listed' /\ OnePlace' /\ Uncompared' /\ ComparedOnce' /\ Complete'
        /\ \A n \in Names : /\ Settled(n)' <=> Settled(n)
                            /\ \A w \in Worker : AtWork(w, n)' <=> AtWork(w, n)
    <2>1. response_queues' \in QueueType /\ Once(response_queues')
      BY <1>1, <1>2 DEF TypeOK, QueueType, OnePlace
    <2>2. \A n \in Names : InQueue(response_queues', n) <=> InQueue(response_queues, n)
      BY <1>2
    <2>3. removed' = removed /\ stop # "done"
      BY <1>2
    <2> QED  BY <1>2, <2>1, <2>2, <2>3, StopKeeps
  <1>6. TypeOK'
    BY <1>1, <1>2, <1>3, <1>4 DEF TypeOK
  <1>7. Debts'
    <2> SUFFICES ASSUME NEW n \in owed'
                 PROVE  /\ stop' = "join" =>
                               (\E w \in stopped' .. Cores - 1 : AtWork(w, n)') \/ Settled(n)'
                        /\ stop' = "clean" => Settled(n)'
      BY <1>4 DEF Debts
    <2>1. At(stopped, "over") /\ n \in owed /\ n \in Names
      BY <1>2, <1>3
    <2>2. ~AtWork(stopped, n)
      BY <2>1 DEF At, AtWork
    <2>3. (\E w \in stopped .. Cores - 1 : AtWork(w, n)) \/ Settled(n)
      BY <1>1, <1>2, <2>1 DEF Debts
    <2>4. CASE Settled(n)
      BY <1>5, <2>1, <2>4
    <2>5. CASE ~Settled(n)
      <3>1. PICK w \in stopped .. Cores - 1 : AtWork(w, n)
        BY <2>3, <2>5
      <3>2. w # stopped /\ w \in Worker
        BY <1>3, <2>2, <3>1, StoppedWorkers
      <3>3. stopped + 1 < Cores /\ stopped' = stopped + 1 /\ stop' = "join"
        BY <1>2, <1>3, <3>2, OnwardWorkers
      <3>4. w \in stopped' .. Cores - 1
        BY <1>3, <3>2, <3>3, ResponseAssumption DEF Worker
      <3>5. AtWork(w, n)'
        BY <1>5, <2>1, <3>1, <3>2
      <3> QED  BY <3>3, <3>4, <3>5
    <2> QED  BY <2>4, <2>5
  <1> QED  BY <1>5, <1>6, <1>7 DEF ResponseInv, PlaceInv

\* The directory is emptied.
LEMMA CleanUpStep ==
    ASSUME ResponseInv, CleanUp
    PROVE  ResponseInv'
  <1>1. TypeOK /\ OnePlace /\ Debts
    BY DEF ResponseInv, PlaceInv
  <1>2. /\ UNCHANGED <<saved, response_monitor_active, response_queues, poll, new_files,
                       processed_files, file_counter, worker, compared, given_up, stopped, owed>>
        /\ removed' = removed \cup {f \in File : There(f)}
        /\ stop = "clean" /\ stop' = "done"
    BY DEF CleanUp, polling, history
  <1>3. /\ Hands' /\ Recorded' /\ Listed' /\ OnePlace' /\ Uncompared' /\ ComparedOnce' /\ Complete'
        /\ \A n \in Names : Settled(n)' <=> Settled(n)
    <2>1. response_queues' \in QueueType /\ Once(response_queues')
      BY <1>1, <1>2 DEF TypeOK, QueueType, OnePlace
    <2>2. \A n \in Names : InQueue(response_queues', n) <=> InQueue(response_queues, n)
      BY <1>2
    <2>3. removed \subseteq removed'
      BY <1>2
    <2> QED  BY <1>2, <2>1, <2>2, <2>3, StopKeeps
  <1>4. TypeOK'
    <2>1. removed' \subseteq File
      BY <1>1, <1>2 DEF TypeOK
    <2> QED  BY <1>1, <1>2, <2>1 DEF TypeOK
  <1>5. Debts'
    <2>1. owed \subseteq Names
      BY <1>1 DEF TypeOK
    <2> QED  BY <1>1, <1>2, <1>3, <2>1 DEF Debts
  <1> QED  BY <1>3, <1>4, <1>5 DEF ResponseInv, PlaceInv

\* The invariant speaks of the variables only.
LEMMA StutterStep == ResponseInv /\ UNCHANGED vars => ResponseInv'
  <1> SUFFICES ASSUME ResponseInv, UNCHANGED vars PROVE ResponseInv'
    OBVIOUS
  <1>1. UNCHANGED <<saved, removed, response_monitor_active, response_queues, poll, new_files,
                    processed_files, file_counter, worker, stop, stopped, owed, compared, given_up>>
    BY DEF vars, files, polling, ending, history
  <1>2. TypeOK /\ Hands /\ Recorded /\ Listed /\ OnePlace /\ Uncompared /\ ComparedOnce
        /\ Complete /\ Debts
    BY DEF ResponseInv, PlaceInv
  <1>3. Hands' /\ OnePlace' /\ Uncompared' /\ ComparedOnce'
        /\ \A n \in Names : /\ Handed(n)' <=> Handed(n)
                            /\ Waits(n)' <=> Waits(n)
                            /\ \A w \in Worker : AtWork(w, n)' <=> AtWork(w, n)
    BY <1>1, <1>2, Elsewhere
  <1>4. TypeOK'
    BY <1>1, <1>2 DEF TypeOK
  <1>5. Recorded' /\ Listed' /\ Complete'
    BY <1>1, <1>2, <1>3 DEF Recorded, Listed, Complete, Whole
  <1>6. Debts'
    BY <1>1, <1>2, <1>3, DebtsStay DEF Settled
  <1> QED  BY <1>3, <1>4, <1>5, <1>6 DEF ResponseInv, PlaceInv

\* Every step preserves it.
LEMMA ResponseInductive == ResponseInv /\ [Next]_vars => ResponseInv'
  <1> SUFFICES ASSUME ResponseInv, [Next]_vars PROVE ResponseInv'
    OBVIOUS
  <1>1. ASSUME NEW n \in Names, Save(n) PROVE ResponseInv'
    BY <1>1, SaveStep
  <1>2. CASE Polling
    BY <1>2, ScanStep, PutStep, DropStep, PutFailsStep DEF Polling
  <1>3. ASSUME NEW w \in Worker, Working(w) PROVE ResponseInv'
    BY <1>3, LeaveStep, GetStep, LoneStep, OpenStep, RemoveSteps DEF Working
  <1>4. ASSUME NEW w \in Worker, Compare(w) PROVE ResponseInv'
    BY <1>4, CompareStep
  <1>5. CASE Stop
    BY <1>5, StopStep
  <1>6. CASE Stopping
    BY <1>6, DrainStep, SignalStep, JoinStep, CleanUpStep DEF Stopping
  <1>7. CASE UNCHANGED vars
    BY <1>7, StutterStep
  <1> QED  BY <1>1, <1>2, <1>3, <1>4, <1>5, <1>6, <1>7 DEF Next

-----------------------------------------------------------------------------
(* What follows.                                                           *)

\* The strengthened invariant of the polling thread, the workers and the stop holds,
\* for any pairs, any number of workers, queues of any length, with and without the
\* search for XSS.
THEOREM ResponseInvariant == Spec => []ResponseInv
  BY ResponseInitial, ResponseInductive, PTL DEF Spec

\* Every variable keeps its type: no queue is longer than its maximum, and the polling
\* thread counts through the queues there are.
THEOREM ResponseTypeCorrect == Spec => []TypeOK
  <1>1. ResponseInv => TypeOK
    BY DEF ResponseInv, PlaceInv
  <1> QED  BY <1>1, ResponseInvariant, PTL

\* No pair is compared twice, by one worker or by two.
THEOREM ResponseComparedOnce == Spec => []ComparedOnce
  <1>1. ResponseInv => ComparedOnce
    BY DEF ResponseInv, PlaceInv
  <1> QED  BY <1>1, ResponseInvariant, PTL

\* A stop in which no timeout has expired has compared every pair that was queued when
\* it began, or the pair was given up before.
THEOREM ResponseQueuedIsSettled == Spec => []QueuedIsSettled
  <1>1. ResponseInv => QueuedIsSettled
    BY DEF ResponseInv, Debts, QueuedIsSettled, Settled
  <1> QED  BY <1>1, ResponseInvariant, PTL
=============================================================================
