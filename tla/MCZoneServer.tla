---------------------------- MODULE MCZoneServer ----------------------------
(* TLC instances of ZoneServer. *)
EXTENDS ZoneServer, TLC

Sym ==
  Permutations(Threads) \cup Permutations(SpaceIDs) \cup Permutations(ZoneIDs)
  \cup Permutations(Storages)

(* Bound: one call fails, of the space service or of the zone service. *)
OneFault == faults + zfaults <= 1
=============================================================================
