----------------------------- MODULE MCFuzzOne -----------------------------
(* A dictionary of two tokens and an automatic one. *)
EXTENDS FuzzOne

MCExtras == <<1, 2>>
MCAutos  == <<2>>
=============================================================================
