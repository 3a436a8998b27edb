---------------------------- MODULE MCUserServer ----------------------------
(* TLC instance of UserServer. *)
EXTENDS UserServer, TLC

Sym == Permutations(Threads) \cup Permutations(Passwords)
=============================================================================
