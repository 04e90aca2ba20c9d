---------------------------- MODULE MCPatchStore ----------------------------
(***************************************************************************)
(* Three paths, one of which the LLM made up.                              *)
(***************************************************************************)
EXTENDS PatchStore

MCFiles == {"index.php", "lib.php", "ghost.php"}
MCInApp == {"index.php", "lib.php"}
MCFileOf == [k \in MCFiles |-> k]
=============================================================================
