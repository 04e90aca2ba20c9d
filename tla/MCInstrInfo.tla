---------------------------- MODULE MCInstrInfo ----------------------------
(***************************************************************************)
(* One file with a section: the target, a point ahead of it, and between   *)
(* the two a call that is not listed. The only call of another file, which *)
(* has no section, is not listed either. A buffer holds one row: a reader  *)
(* may stop anywhere. Three updates wrap the counter.                      *)
(***************************************************************************)
EXTENDS InstrInfo

At(f, l) == [file |-> f, line |-> l]

MCPoints == {At("a", 2), At("a", 3), At("a", 5), At("c", 1)}
MCRows   == <<Header("a"), Row(2, 2), Row(5, 1)>>
AnyChild == Permutations(Children)
=============================================================================
