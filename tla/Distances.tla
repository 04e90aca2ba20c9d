------------------------------ MODULE Distances ------------------------------
(***************************************************************************)
(* DistanceCalculator.calculate: how far each node of the interprocedural  *)
(* control flow graph is from a target. The distance is the inverse of the *)
(* probability of getting there when every branch is taken with the same   *)
(* chance; a depth-first walk computes the probabilities, cuts the cycles  *)
(* it meets, and is then repeated where that cut has lost a node.          *)
(*                                                                         *)
(* Probabilities are whole numbers of units, One of which are 1.0, and     *)
(* divisions round down; 1e-9, up to which a probability is none, is Cut   *)
(* units. The graph and the targets are chosen at the start.               *)
(***************************************************************************)
EXTENDS Integers, FiniteSets, Sequences, SequencesExt, FiniteSetsExt

CONSTANTS
    N,         \* the nodes are 1 .. N, in the order of icfg.nodes()
    MaxOut,    \* at most that many successors
    TargetSets,
    CallSites, \* the nodes of the call graph that call something
    One, Cut

Node == 1 .. N
Far  == 0      \* float('inf')

ASSUME DistancesAssumption ==
    /\ N \in Nat \ {0} /\ MaxOut \in Nat
    /\ TargetSets \subseteq SUBSET Node /\ CallSites \subseteq Node
    /\ One \in Nat \ {0} /\ Cut \in 0 .. One - 1

VARIABLES
    succs, targets,
    phase,        \* the loop that runs
    ahead,        \* the nodes the first one has not come to
    prob, bb_set, \* bb_set: 0 not computed, 1 being computed, 2 computed
    stack,        \* the calls of cal_prob under way, the innermost last
    dist,
    queue, re_caled,  \* wrong_node_queue, re_caled_nodes
    dist_changed,
    divergent     \* the keys of divergent_dist

graph    == <<succs, targets>>
walk     == <<prob, bb_set, stack>>
calcvars == <<graph, phase, ahead, walk, dist, queue, re_caled, dist_changed, divergent>>

\* A call of cal_prob: the successors it has yet to ask, and the sum so far.
Calls == [node : Node, todo : SUBSET Node, total : Nat]

DSTypeOK ==
    /\ succs \in [Node -> SUBSET Node] /\ targets \in SUBSET Node
    /\ phase \in {"first", "correct", "done"} /\ ahead \in SUBSET Node
    /\ prob \in [Node -> 0 .. One] /\ bb_set \in [Node -> 0 .. 2]
    /\ stack \in Seq(Calls)
    /\ dist \in [Node -> Nat]
    /\ queue \in Seq(Node) /\ re_caled \in SUBSET Node
    /\ dist_changed \in BOOLEAN /\ divergent \in SUBSET Node

\* The nodes of a set in their order.
Ascending(S) ==
    CHOOSE q \in [1 .. Cardinality(S) -> S] : \A i, j \in DOMAIN q : i < j => q[i] < q[j]

Preds(n) == {m \in Node : n \in succs[m]}

-----------------------------------------------------------------------------
(* cal_dist.                                                               *)

\* In thousandths: round(1 / p, 3).
CalDist(p) == IF p <= Cut THEN Far ELSE (1000 * One) \div p

\* Slip: the difference of two infinities is not a number, and close to none.
ChangedFar(old, new) == IF Far \in {old, new} THEN TRUE ELSE old - new \notin -1000 .. 1000

\* not math.isclose(old, new, abs_tol=1).
Changed(old, new) ==
    IF Far \in {old, new} THEN old # new ELSE old - new \notin -1000 .. 1000

-----------------------------------------------------------------------------
\* Slip: the assignment marked "TMP DEBUG" is gone, the set made before it is used.
BranchesNeedCalc == {n \in Node : Cardinality(succs[n]) >= 2 \/ n \in targets}

nodes_need_calc == Node

CalcInit ==
    /\ succs \in [Node -> {S \in SUBSET Node : Cardinality(S) <= MaxOut}]
    /\ targets \in TargetSets
    /\ phase = "first" /\ ahead = nodes_need_calc
    /\ prob = [n \in Node |-> 0] /\ bb_set = [n \in Node |-> 0] /\ stack = <<>>
    /\ dist = [n \in Node |-> Far]
    /\ queue = <<>> /\ re_caled = {} /\ dist_changed = TRUE
    /\ divergent = {}

-----------------------------------------------------------------------------
(* cal_prob(n), from the call to its return.                               *)

\* The node whose distance a loop is setting.
AtHand  == IF phase = "first" THEN Min(ahead) ELSE Head(queue)
Working == IF phase = "first" THEN ahead # {} ELSE queue # <<>>

loops == <<graph, phase, ahead, dist, queue, re_caled, dist_changed, divergent>>

\* A node that is not marked: a target is done at once, any other asks its successors.
Enter(n) ==
    /\ bb_set[n] = 0
    /\ IF n \in targets
       THEN /\ prob' = [prob EXCEPT ![n] = One] /\ bb_set' = [bb_set EXCEPT ![n] = 2]
            /\ UNCHANGED stack
       ELSE /\ bb_set' = [bb_set EXCEPT ![n] = 1]
            /\ stack' = Append(stack, [node |-> n, todo |-> succs[n], total |-> 0])
            /\ UNCHANGED prob
    /\ UNCHANGED loops

CalProb == stack = <<>> /\ Working /\ Enter(AtHand)

Top  == Last(stack)
Succ == Min(Top.todo)

Descend == stack # <<>> /\ Top.todo # {} /\ Enter(Succ)

\* A successor that is marked is added up: one that is being computed as what it was.
Add ==
    /\ stack # <<>> /\ Top.todo # {} /\ bb_set[Succ] # 0
    /\ stack' = Append(Front(stack), [node |-> Top.node, todo |-> Top.todo \ {Succ},
                                      total |-> Top.total + prob[Succ]])
    /\ UNCHANGED <<loops, prob, bb_set>>

\* The caller finds the node marked, and adds it up.
Leave ==
    /\ stack # <<>> /\ Top.todo = {}
    /\ LET n   == Top.node
           num == Cardinality(succs[n])
       IN  /\ prob' = [prob EXCEPT ![n] = IF num > 0 THEN Top.total \div num ELSE @]
           /\ bb_set' = [bb_set EXCEPT ![n] = 2]
    /\ stack' = Front(stack)
    /\ UNCHANGED loops

\* self.dist[node_id] = self.cal_dist(node_id), when cal_prob has returned.
CalDistAtHand ==
    /\ stack = <<>> /\ Working /\ bb_set[AtHand] # 0
    /\ dist' = [dist EXCEPT ![AtHand] = CalDist(prob[AtHand])]

-----------------------------------------------------------------------------
First ==
    /\ phase = "first" /\ CalDistAtHand
    /\ ahead' = ahead \ {AtHand}
    /\ UNCHANGED <<graph, walk, phase, queue, re_caled, dist_changed, divergent>>

\* Slip: the nodes that were never walked.
WrongUnwalked == {n \in nodes_need_calc : dist[n] = Far /\ bb_set[n] = 0}

\* Nodes without a distance next to one that has one.
Wrong == {n \in nodes_need_calc : dist[n] = Far /\ \E m \in succs[n] : dist[m] # Far}

Forgotten(nodes, bb) == [n \in Node |-> IF n \in nodes THEN 0 ELSE bb[n]]

\* A round of corrections: the wrong nodes are queued.
Round ==
    /\ \/ phase = "first" /\ ahead = {}
       \/ phase = "correct" /\ queue = <<>> /\ dist_changed
    /\ phase' = "correct"
    /\ queue' = Ascending(Wrong) /\ re_caled' = Wrong
    /\ bb_set' = Forgotten(Wrong, bb_set)
    /\ dist_changed' = FALSE
    /\ UNCHANGED <<graph, ahead, prob, stack, dist, divergent>>

\* A node of the queue is computed again, and its predecessors are queued.
Correct ==
    /\ phase = "correct" /\ CalDistAtHand
    /\ LET fresh == Preds(AtHand) \ re_caled
       IN  /\ queue' = Tail(queue) \o Ascending(fresh)
           /\ re_caled' = re_caled \cup fresh
           /\ bb_set' = Forgotten(fresh, bb_set)
    /\ dist_changed' = (dist_changed \/ Changed(dist[AtHand], dist'[AtHand]))
    /\ UNCHANGED <<graph, phase, ahead, prob, stack, divergent>>

\* sift_divergent_dist: the targets, and the branches at which one way leads to
\* a target and another does not.
Diverges(n) ==
    \/ n \in targets
    \/ /\ Cardinality(succs[n]) >= 2 /\ n \notin CallSites
       /\ \E m \in succs[n] : prob[m] > Cut
       /\ \E m \in succs[n] : prob[m] <= Cut
       /\ dist[n] # Far

Sift ==
    /\ phase = "correct" /\ queue = <<>> /\ ~dist_changed
    /\ divergent' = {n \in Node : Diverges(n)}
    /\ phase' = "done"
    /\ UNCHANGED <<graph, ahead, walk, dist, queue, re_caled, dist_changed>>

CalcNext == CalProb \/ Descend \/ Add \/ Leave \/ First \/ Round \/ Correct \/ Sift

CalcSpec == CalcInit /\ [][CalcNext]_calcvars /\ WF_calcvars(CalcNext)

-----------------------------------------------------------------------------
(* Properties                                                              *)

\* Nodes from which a target can be reached.
Reaches ==
    {n \in Node : \A S \in SUBSET Node :
        targets \subseteq S /\ (\A m \in Node : succs[m] \cap S # {} => m \in S) => n \in S}

\* A distance means that a target can be reached, at any time.
DistanceMeansReachable == \A n \in Node : dist[n] # Far => n \in Reaches

\* The sum of p over a set of nodes.
SumOf(p, S) ==
    LET upto[k \in 0 .. N] == IF k = 0 THEN 0 ELSE upto[k - 1] + (IF k \in S THEN p[k] ELSE 0)
    IN  upto[N]

\* When the calculation is done, a distance means that a target can be reached,
\* and a node without one beside a node that has one is there by the cutoff alone:
\* what its successors' probabilities amount to is too little, up to what the
\* corrections take for no change of a distance. The order of the walk and the cut
\* of the cycles hide no target.
DistanceIsReachability ==
    phase = "done" =>
        /\ DistanceMeansReachable
        /\ \A n \in Node :
             dist[n] = Far /\ (\E m \in succs[n] : dist[m] # Far) =>
                 \E p \in [succs[n] -> 0 .. One] :
                     /\ \A m \in succs[n] : ~Changed(CalDist(p[m]), dist[m])
                     /\ SumOf(p, succs[n]) \div Cardinality(succs[n]) <= Cut

\* A branch that is instrumented has a way that is nearer and a way that leads
\* nowhere, by the distances that are handed out with it.
DivergentIsTrue ==
    \A n \in divergent \ targets : /\ \E m \in succs[n] : dist[m] = Far
                                   /\ \E m \in succs[n] : dist[m] # Far

\* The corrections come to an end.
CalcEnds == <>(phase = "done")
=============================================================================
