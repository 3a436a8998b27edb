---------------------------- MODULE MCFuseClient ----------------------------
(***************************************************************************)
(* The attribute cache, the write-back queue and the read-ahead, each with *)
(* the operations that matter for it.                                      *)
(***************************************************************************)
EXTENDS FuseClient

File(n) == [by |-> 0, data |-> [i \in 1 .. n |-> 0]]
Only(n) == [p \in Paths |-> IF p = "a" THEN File(n) ELSE NoFile]

(* Calls of kinds for sectors of paths in n operations with f faults. *)
Load(threads, kinds, paths, secs, n, f) ==
    [threads |-> threads, kinds |-> kinds, paths |-> paths, secs |-> secs, ops |-> n, faults |-> f,
     cache |-> 0, async |-> FALSE, ahead |-> 0, files |-> Only(2)]

Cached(c, l) == [l EXCEPT !.cache = c, !.files = Only(1)]
Async(l) == [l EXCEPT !.async = TRUE]
Ahead(n, l) == [l EXCEPT !.ahead = 2, !.files = Only(n)]

MCLoads ==
    {Cached(1, Load(Threads, DOMAIN gvdsfs_oper, Paths, {0}, 2, 1)),
     Cached(2, Load(Threads, {"getattr", "readdir", "rename", "unlink", "create"}, Paths, {0}, 3, 1)),
     Cached(1, Async(Load(Threads, {"getattr", "write"}, Paths, {0}, 3, 1))),
     Async(Load(Threads, {"write", "truncate"}, {"a"}, Sectors, 3, 1)),
     Async(Load(Threads, {"write"}, {"a"}, Sectors, 4, 0)),
     Ahead(3, Load(Threads, {"read", "write", "truncate"}, {"a"}, {0}, 3, 1)),
     Ahead(2, Load({"t1"}, {"read", "write"}, Paths, {0}, 6, 0))}

(* One reader of a long file, which then writes into what is on its way. *)
MCClearLoads == {Ahead(6, Load({"t1"}, {"read", "write"}, {"a"}, {0, 1, 4}, 4, 0))}
=============================================================================
