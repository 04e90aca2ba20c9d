----------------------------- MODULE MCAflSession -----------------------------
(* Two fuzzers on one seed: the first one may find two inputs, the other       *)
(* imports. With both inputs found there is one kill, with one of them two.    *)
EXTENDS AflSession

CONSTANTS seed, find1, find2

MCSeeds == <<seed>>
MCFinds == [f \in Fuzzers |-> IF f = "fuzzer-master" THEN {find1, find2} ELSE {}]

FindsAndKills == kills + Cardinality(UNION {ran[f] : f \in Fuzzers}) <= 4
Symmetry      == Permutations({find1, find2})
=============================================================================
