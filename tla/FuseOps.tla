------------------------------- MODULE FuseOps -------------------------------
(***************************************************************************)
(* The FUSE operations of the client (client/gvds_fuse_impl.cc) and what   *)
(* the I/O proxy does for them (ProxyOP::do_op, io_proxy/proxy_op.cc).     *)
(* Paths lie below a space and are mapped to an I/O proxy; an operation on *)
(* another path, or without a proxy, returns before it changes anything.   *)
(***************************************************************************)
EXTENDS Integers, Sequences, FiniteSets

CONSTANTS
    Paths,     \* remote paths, entries of one directory
    Sectors,   \* numbers of sectors (2^18 bytes each) that are read and written
    NoFile     \* what the proxy has at a path without an entry

(* A file at the proxy: by is the operation that changed its attributes    *)
(* last, data its sectors.                                                 *)
RemoteFile == [by : Nat, data : Seq(Nat)]

ASSUME FuseAssumption == Sectors \subseteq Nat /\ NoFile \notin Nat \cup RemoteFile

-----------------------------------------------------------------------------
(* What a handler does on the client.  looks: asks the attribute cache     *)
(* first; clears: drops the read-ahead buffers of the path; expires: drops *)
(* cached attributes of the path (1) and of the new path (2); sends:       *)
(* submits the operation; stores: what of the answer it caches.            *)
Handler(expires, sends) ==
    [looks |-> FALSE, clears |-> FALSE, expires |-> expires, sends |-> sends, stores |-> "none"]

gvdsfs_getattr == [Handler({}, TRUE) EXCEPT !.looks = TRUE, !.stores = "path"]
gvdsfs_readdir == [Handler({}, TRUE) EXCEPT !.stores = "entries"]
gvdsfs_open == Handler({1}, TRUE)
gvdsfs_read == Handler({}, TRUE)

(* Mutant: the write leaves the read-ahead buffers alone. *)
write_blind == Handler({1}, TRUE)
gvdsfs_write == [Handler({1}, TRUE) EXCEPT !.clears = TRUE]

gvdsfs_access == Handler({}, TRUE)
gvdsfs_truncate == Handler({1}, TRUE)
gvdsfs_mkdir == Handler({1}, TRUE)
gvdsfs_unlink == Handler({1}, TRUE)
gvdsfs_rmdir == Handler({1}, TRUE)

(* Mutant: rename expires the old path only. *)
rename_old == Handler({1}, TRUE)
gvdsfs_rename == Handler({1, 2}, TRUE)

gvdsfs_chmod == Handler({1}, TRUE)
gvdsfs_chown == Handler({1}, FALSE)
gvdsfs_create == Handler({1}, TRUE)
gvdsfs_utimens == Handler({1}, TRUE)
gvdsfs_setxattr == Handler({}, TRUE)
gvdsfs_getxattr == Handler({}, TRUE)
gvdsfs_listxattr == Handler({}, TRUE)
gvdsfs_removexattr == Handler({}, TRUE)

gvdsfs_oper ==
    [getattr |-> gvdsfs_getattr, readdir |-> gvdsfs_readdir, open |-> gvdsfs_open,
     read |-> gvdsfs_read, write |-> gvdsfs_write, access |-> gvdsfs_access,
     truncate |-> gvdsfs_truncate, mkdir |-> gvdsfs_mkdir, unlink |-> gvdsfs_unlink,
     rmdir |-> gvdsfs_rmdir, rename |-> gvdsfs_rename, chmod |-> gvdsfs_chmod,
     chown |-> gvdsfs_chown, create |-> gvdsfs_create, utimens |-> gvdsfs_utimens,
     setxattr |-> gvdsfs_setxattr, getxattr |-> gvdsfs_getxattr,
     listxattr |-> gvdsfs_listxattr, removexattr |-> gvdsfs_removexattr]

-----------------------------------------------------------------------------
(* A request: operation number id of the kind, on path p; q is the new     *)
(* path of a rename; s is the first sector of a read or a write and the    *)
(* length of a truncate; vals are the sectors to write, each the number of *)
(* the operation that wrote it.                                            *)
Request(id, kind, p, q, s) ==
    [id |-> id, kind |-> kind, p |-> p, q |-> q, s |-> s, vals |-> <<id>>]

Span(o) == o.s .. o.s + Len(o.vals) - 1

Expired(o) == {IF n = 1 THEN o.p ELSE o.q : n \in gvdsfs_oper[o.kind].expires}

(* A write beyond the end leaves a hole of zeros. *)
pwrite(f, o) ==
    [by   |-> o.id,
     data |-> [n \in 1 .. (IF Len(f.data) < o.s + Len(o.vals) THEN o.s + Len(o.vals) ELSE Len(f.data)) |->
                IF n - 1 \in Span(o) THEN o.vals[n - o.s]
                ELSE IF n <= Len(f.data) THEN f.data[n] ELSE 0]]

(* resize_file gets the field "size" of the request, which the client      *)
(* leaves at 0: it puts the length into io_param.                          *)
resize_file(f, o) == [by |-> o.id, data |-> <<>>]

Touching == {"chmod", "utimens", "setxattr", "removexattr"}
Making == {"create", "mkdir"}
Removing == {"unlink", "rmdir"}
Changing == {"write", "truncate", "rename"} \cup Touching \cup Making \cup Removing

(* The paths whose attributes the operation changes. *)
Changed(o) == IF o.kind \notin Changing THEN {} ELSE IF o.kind = "rename" THEN {o.p, o.q} ELSE {o.p}

(* What the proxy has after the operation; create keeps a file that is     *)
(* there, and remove takes files and directories.                          *)
do_op(rem, o) ==
    LET f == rem[o.p] IN
    CASE o.kind \in Making /\ f = NoFile    -> [rem EXCEPT ![o.p] = [by |-> o.id, data |-> <<>>]]
      [] o.kind \in Removing                -> [rem EXCEPT ![o.p] = NoFile]
      [] o.kind \in Touching /\ f # NoFile   -> [rem EXCEPT ![o.p].by = o.id]
      [] o.kind = "write" /\ f # NoFile   -> [rem EXCEPT ![o.p] = pwrite(f, o)]
      [] o.kind = "truncate" /\ f # NoFile -> [rem EXCEPT ![o.p] = resize_file(f, o)]
      [] o.kind = "rename" /\ f # NoFile  -> [rem EXCEPT ![o.p] = NoFile, ![o.q] = [f EXCEPT !.by = o.id]]
      [] OTHER -> rem

(* get_attr: the attributes, or NoFile. *)
Stat(rem, p) == IF rem[p] = NoFile THEN NoFile ELSE rem[p].by

(* The answer to a read of a sector: its value, the end of the file (0     *)
(* bytes), or an error without a file.                                     *)
Eof == -1
Err == -2
Sector(rem, p, s) ==
    IF rem[p] = NoFile THEN Err
    ELSE IF s < Len(rem[p].data) THEN rem[p].data[s + 1] ELSE Eof
=============================================================================
