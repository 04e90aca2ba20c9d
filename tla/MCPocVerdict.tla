---------------------------- MODULE MCPocVerdict ----------------------------
(***************************************************************************)
(* Logs of five characters and a window of five: "near" agrees with the    *)
(* exploit's log in four of them (80 percent, still similar), "far" in     *)
(* three.                                                                  *)
(***************************************************************************)
EXTENDS PocVerdict

MCExploit == <<"e", "r", "r", "o", "r">>
MCNear    == <<"e", "r", "r", "o", "x">>
MCFar     == <<"e", "r", "r", "x", "x">>
MCOthers  == {MCNear, MCFar}
=============================================================================
