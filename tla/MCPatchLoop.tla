---------------------------- MODULE MCPatchLoop ----------------------------
(***************************************************************************)
(* Two runs of two rounds of two attempts. A budget of nine tokens is hit   *)
(* after a few calls, by an answer longer than the estimate or by price.   *)
(* The exploit leaves a log of five characters; the other log agrees with  *)
(* it in two of them, which is not similar.                                *)
(***************************************************************************)
EXTENDS PatchLoop

MCExploit == <<"e", "r", "r", "o", "r">>
MCOthers  == {<<"e", "r", "x", "x", "x">>}

MCCalls == {[est |-> 1, input |-> 1, output |-> 0], [est |-> 1, input |-> 1, output |-> 2]}
=============================================================================
