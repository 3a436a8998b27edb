--------------------------- MODULE MCReplication ---------------------------
(* TLC instances of Replication, with the ranges that clients read.          *)
EXTENDS Replication

\* A read through the page cache of the client's kernel.
PageReads == {r \in {<<p * PageSize, q * PageSize>> : p, q \in 0 .. NPages} : r[1] < r[2]}
\* A read that bypasses it (O_DIRECT).
AnyReads == {<<lo, hi>> \in Sizes \X Sizes : lo < hi}
=============================================================================
