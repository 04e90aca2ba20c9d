---------------------------- MODULE MCDistances ----------------------------
(* All graphs of four nodes and at most two successors each. *)
EXTENDS Distances

MCTargetSets == {{1}, {4}}
=============================================================================
