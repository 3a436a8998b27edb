---------------------------- MODULE MCFdManager ----------------------------
(* TLC instances of FdManager: the configurations choose the sets. *)
EXTENDS FdManager, TLC

Sym == Permutations(Paths) \cup Permutations(FDs) \cup Permutations(Workers)
=============================================================================
