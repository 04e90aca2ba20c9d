----------------------------- MODULE MCAflQueue -----------------------------
(* The queue with two positions, one of which is met with two hit counts. *)
EXTENDS AflQueue

T(m, n) == [b \in Byte |-> IF b = 0 THEN m ELSE n]

MCTraces  == {T(1, 0), T(0, 1), T(2, 1)}
MCSamples == {[trace |-> T(1, 0), dist |-> 2], [trace |-> T(0, 1), dist |-> NoDistance],
              [trace |-> T(2, 1), dist |-> 1]}
=============================================================================
