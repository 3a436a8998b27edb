----------------------------- MODULE FdManager -----------------------------
(***************************************************************************)
(* The file-descriptor cache of an I/O proxy (src/io_proxy/fd_mgr.cc) and  *)
(* the gRPC workers that use it (src/io_proxy/proxy_op.cc, replica_mgr.cc).*)
(*                                                                         *)
(* Every FdManager method runs under fdm_mu and is one atomic step.  The   *)
(* number it returns is used by the worker after the lock is released:     *)
(* pread, pwrite, fallocate and the bitmap calls of HvsFileHandler are     *)
(* steps of their own, so that other workers can evict, close and reuse    *)
(* the descriptor in between.                                              *)
(*                                                                         *)
(* The kernel is external: fdtab is the process's descriptor table, names  *)
(* the namespace; an inode number is never reused.  File contents are left *)
(* out, so operations that change only contents or attributes (O_TRUNC,    *)
(* truncate, chmod, fsync) have no action.                                 *)
(***************************************************************************)
EXTENDS LRU

CONSTANTS Paths,      \* paths below the proxy's data directory
          FDs,        \* descriptor numbers the kernel can hand out
          Workers,    \* gRPC worker threads
          Requests,   \* the operations among Ops that clients and peers send
          NoPath,     \* the path of a worker without a request
          NoFd,       \* the descriptor of a worker that holds none
          MaxFdNum,   \* max_fd_num: capacity of the cache
          MaxIno      \* bound: number of inodes created in a behaviour

ASSUME MaxFdNumAssumption == MaxFdNum \in Nat \ {0}
ASSUME MaxInoAssumption   == MaxIno \in Nat
ASSUME NoPathAssumption   == NoPath \notin Paths
ASSUME NoFdAssumption     == NoFd \notin FDs

VARIABLES names,          \* path -> inode, 0 if there is no such file
          nextIno,        \* next inode the file system allocates
          fdtab,          \* descriptor -> inode, 0 if closed
          fds,            \* FdManager::fds, newest first
          wk,             \* what each worker is doing
          crashed,        \* the process has dereferenced a null handler
          moved,          \* history: cached paths renamed since they were cached
          hist            \* history: what happened since a worker's open

kernel == <<names, nextIno, fdtab>>
vars == <<names, nextIno, fdtab, fds, wk, crashed, moved, hist>>

-----------------------------------------------------------------------------
Inodes == 1 .. MaxIno

(***************************************************************************)
(* pc: "idle"; "sync" - do_op holds fd, with `syncs` calls of              *)
(* sync_filedata still to make before the system call of the operation;    *)
(* "handler" - inside sync_filedata, _handle_file_sync_data or             *)
(* _handle_file_index_update, holding the handler that get_file_handler    *)
(* made for descriptor hfd.                                                *)
(***************************************************************************)
Ops == {"read", "write", "fallocate", "rep_sync_data", "rep_update_index"}
Worker == [pc : {"idle", "sync", "handler"}, op : Ops, path : Paths \cup {NoPath},
           fd : FDs \cup {NoFd}, syncs : 0 .. 2, hfd : FDs \cup {NoFd}]
History == [ino : 0 .. MaxIno, hino : 0 .. MaxIno, since : SUBSET Paths,
            dropped : BOOLEAN]

IdleWorker == [pc |-> "idle", op |-> "read", path |-> NoPath, fd |-> NoFd,
               syncs |-> 0, hfd |-> NoFd]
NoHistory == [ino |-> 0, hino |-> 0, since |-> {}, dropped |-> FALSE]

\* Calls of sync_filedata before the system call: read makes one, write one
\* for each unaligned end of its range (sync_unalign_page), fallocate none.
SyncCalls(o) == CASE o = "read" -> {1} [] o = "write" -> 0 .. 2 [] OTHER -> {0}

LocalOps == {"read", "write", "fallocate"}
PeerOps  == {"rep_sync_data", "rep_update_index"}

-----------------------------------------------------------------------------
(***************************************************************************)
(* The methods of FdManager.  Each operator below constrains names,        *)
(* nextIno, fdtab, fds and moved; histories are kept by the callers.       *)
(***************************************************************************)

\* checkAndExpire(): entries past the capacity leave from the tail...
Kept(l) == SubSeq(l, 1, IF Len(l) > MaxFdNum THEN MaxFdNum ELSE Len(l))
\* ...and their descriptors are closed.
Expired(l) == {l[i].data : i \in {j \in DOMAIN l : j > MaxFdNum}}

\* ::open of a path: the inode it leads to afterwards (O_CREAT may make it).
SysOpen(p, creat) ==
  \/ names[p] # 0 /\ UNCHANGED <<names, nextIno>>
  \/ /\ names[p] = 0 /\ creat /\ nextIno \in Inodes
     /\ names' = [names EXCEPT ![p] = nextIno]
     /\ nextIno' = nextIno + 1

\* Mutant: a hit does not refresh the entry's position.
OpenHitNoRefresh(p, f) ==
  /\ p \in LruKeys(fds)
  /\ f = LruData(fds, p)
  /\ UNCHANGED <<kernel, fds, moved>>

OpenHit(p, f) ==
  /\ p \in LruKeys(fds)
  /\ f = LruData(fds, p)
  /\ fds' = LruHit(fds, p)
  /\ UNCHANGED <<kernel, moved>>

OpenMiss(p, creat, f) ==
  /\ p \notin LruKeys(fds)
  /\ fdtab[f] = 0
  /\ SysOpen(p, creat)
  /\ LET full == LruTouch(fds, p, f, 0) IN
       /\ fds' = Kept(full)
       /\ fdtab' = [g \in FDs |-> IF g \in Expired(full) THEN 0
                                  ELSE IF g = f THEN names'[p] ELSE fdtab[g]]
  /\ moved' = (moved \ {p}) \cap LruKeys(fds')

\* FdManager::open succeeds and returns descriptor f.
fdm_open(p, creat, f) == OpenHit(p, f) \/ OpenMiss(p, creat, f)

\* FdManager::open returns -ENOENT or -EMFILE; nothing has changed.
fdm_open_fails(p, creat) ==
  /\ p \notin LruKeys(fds)
  /\ \/ names[p] = 0 /\ ~creat
     \/ \A f \in FDs : fdtab[f] # 0

\* Mutant: the entry is dropped but its descriptor is not closed.
DropCachedLeak(p) == fds' = LruRemove(fds, p) /\ UNCHANGED fdtab

\* Drop the cached descriptor of a path and close it (create, remove).
DropCached(p) ==
  /\ fds' = LruRemove(fds, p)
  /\ fdtab' = IF p \in LruKeys(fds) THEN [fdtab EXCEPT ![LruData(fds, p)] = 0] ELSE fdtab

\* FdManager::create: fd_new needs a free number but is closed again before
\* the method returns, so only the drop of the old descriptor remains.
fdm_create(p) ==
  /\ \E f \in FDs : fdtab[f] = 0
  /\ SysOpen(p, TRUE)
  /\ DropCached(p)
  /\ moved' = moved \ {p}

\* Mutant: unlink leaves the cached descriptor in place.
fdm_remove_keep(p) ==
  /\ names' = [names EXCEPT ![p] = 0]
  /\ moved' = moved \ {p}
  /\ UNCHANGED <<nextIno, fdtab, fds>>

\* FdManager::remove: the cached descriptor goes even if unlink fails.
fdm_remove(p) ==
  /\ DropCached(p)
  /\ names' = [names EXCEPT ![p] = 0]
  /\ moved' = moved \ {p}
  /\ UNCHANGED nextIno

-----------------------------------------------------------------------------
(***************************************************************************)
(* Histories.  since: the other paths opened since the worker's operation  *)
(* began, counted up to MaxFdNum; dropped: its path was created or         *)
(* unlinked since (nothing is counted from then on); ino and hino: the     *)
(* inodes behind the two descriptors when they were obtained.              *)
(***************************************************************************)
Undisturbed(w) == ~hist[w].dropped /\ Cardinality(hist[w].since) < MaxFdNum

Opened(p) == [v \in Workers |->
                IF wk[v].path \notin {NoPath, p} /\ Undisturbed(v)
                THEN [hist[v] EXCEPT !.since = @ \cup {p}]
                ELSE hist[v]]

Dropped(p) == [v \in Workers |-> IF wk[v].path = p
                                 THEN [hist[v] EXCEPT !.since = {}, !.dropped = TRUE]
                                 ELSE hist[v]]

\* The operation is over: its locals go out of scope.
Finish(w) ==
  /\ wk' = [wk EXCEPT ![w] = IdleWorker]
  /\ hist' = [hist EXCEPT ![w] = NoHistory]

-----------------------------------------------------------------------------
Init ==
  /\ names \in [Paths -> {0} \cup Inodes]
  /\ \A p, q \in Paths : names[p] = names[q] /\ names[p] # 0 => p = q
  /\ nextIno \in 1 .. MaxIno + 1
  /\ \A i \in Inodes : i < nextIno <=> \E p \in Paths : names[p] = i
  /\ fdtab = [f \in FDs |-> 0]
  /\ fds = <<>>
  /\ wk = [w \in Workers |-> IdleWorker]
  /\ crashed = FALSE
  /\ moved = {}
  /\ hist = [w \in Workers |-> NoHistory]

\* do_op, cases read, write and fallocate, up to the return of fdm.open.  A
\* failed open is answered with its error and changes nothing.
Begin(w) ==
  /\ wk[w].pc = "idle"
  /\ \E p \in Paths, o \in LocalOps \cap Requests, f \in FDs :
       /\ fdm_open(p, o = "fallocate", f)
       /\ \E n \in SyncCalls(o) :
            wk' = [wk EXCEPT ![w].pc = "sync", ![w].op = o, ![w].path = p,
                             ![w].fd = f, ![w].syncs = n]
       /\ hist' = [Opened(p) EXCEPT ![w] = [NoHistory EXCEPT !.ino = fdtab'[f]]]
  /\ UNCHANGED crashed

\* get_file_handler called by sync_filedata: its first critical section.
SyncOpen(w) ==
  /\ wk[w].pc = "sync" /\ wk[w].syncs > 0
  /\ \E f \in FDs :
       /\ fdm_open(wk[w].path, FALSE, f)
       /\ wk' = [wk EXCEPT ![w].pc = "handler", ![w].hfd = f]
       /\ hist' = [Opened(wk[w].path) EXCEPT ![w].hino = fdtab'[f]]
  /\ UNCHANGED crashed

\* rep_sync_data and rep_update_index from a peer start with get_file_handler.
Serve(w) ==
  /\ wk[w].pc = "idle"
  /\ \E p \in Paths, o \in PeerOps \cap Requests, f \in FDs :
       /\ fdm_open(p, FALSE, f)
       /\ wk' = [wk EXCEPT ![w].pc = "handler", ![w].op = o, ![w].path = p, ![w].hfd = f]
       /\ hist' = [Opened(p) EXCEPT ![w] = [NoHistory EXCEPT !.hino = fdtab'[f]]]
  /\ UNCHANGED crashed

\* get_file_handler returns nullptr when open fails; no caller tests for it.
NullHandler(w) ==
  /\ \/ wk[w].pc = "sync" /\ wk[w].syncs > 0 /\ fdm_open_fails(wk[w].path, FALSE)
     \/ /\ wk[w].pc = "idle" /\ PeerOps \cap Requests # {}
        /\ \E p \in Paths : fdm_open_fails(p, FALSE)
  /\ crashed' = TRUE
  /\ UNCHANGED <<kernel, fds, wk, moved, hist>>

\* sync_filedata: lseek, and pwrite of what the peers hold, through fh->fd;
\* the peer operations: lseek, pread, fallocate and xattr calls through it.
UseHandler(w) ==
  /\ wk[w].pc = "handler"
  /\ \/ wk[w].op \in PeerOps /\ Finish(w)
     \/ /\ wk[w].op \notin PeerOps
        /\ wk' = [wk EXCEPT ![w].pc = "sync", ![w].syncs = @ - 1, ![w].hfd = NoFd]
        /\ hist' = [hist EXCEPT ![w].hino = 0]
  /\ UNCHANGED <<kernel, fds, crashed, moved>>

\* pread, pwrite or fallocate on the descriptor that do_op got from open.
SysCall(w) ==
  /\ wk[w].pc = "sync" /\ wk[w].syncs = 0
  /\ Finish(w)
  /\ UNCHANGED <<kernel, fds, crashed, moved>>

\* do_op, case open: the client's flags may contain O_CREAT.
OpOpen ==
  /\ \E p \in Paths, creat \in BOOLEAN, f \in FDs :
       /\ fdm_open(p, creat, f)
       /\ hist' = Opened(p)
  /\ UNCHANGED <<wk, crashed>>

\* do_op, case create.
OpCreate ==
  /\ \E p \in Paths : fdm_create(p) /\ hist' = Dropped(p)
  /\ UNCHANGED <<wk, crashed>>

\* do_op, case unlink.
OpUnlink ==
  /\ \E p \in Paths : fdm_remove(p) /\ hist' = Dropped(p)
  /\ UNCHANGED <<wk, crashed>>

\* do_op, case rename: fs::rename alone, the cache is not told.
OpRename ==
  /\ \E p, q \in Paths :
       /\ p # q /\ names[p] # 0
       /\ names' = [names EXCEPT ![q] = names[p], ![p] = 0]
       /\ moved' = moved \cup ({p, q} \cap LruKeys(fds))
  /\ UNCHANGED <<nextIno, fdtab, fds, wk, crashed, hist>>

WorkerStep(w) ==
  \/ Begin(w) \/ SyncOpen(w) \/ Serve(w) \/ NullHandler(w)
  \/ UseHandler(w) \/ SysCall(w)

Next ==
  /\ ~crashed
  /\ (\E w \in Workers : WorkerStep(w)) \/ OpOpen \/ OpCreate \/ OpUnlink \/ OpRename

Spec == Init /\ [][Next]_vars

-----------------------------------------------------------------------------
TypeOK ==
  /\ names \in [Paths -> {0} \cup Inodes]
  /\ nextIno \in 1 .. MaxIno + 1
  /\ fdtab \in [FDs -> {0} \cup Inodes]
  /\ fds \in Seq(Entry(Paths, FDs))
  /\ wk \in [Workers -> Worker]
  /\ crashed \in BOOLEAN
  /\ moved \subseteq Paths
  /\ hist \in [Workers -> History]

(***************************************************************************)
(* Descriptor accounting: a descriptor is open exactly if one cache entry  *)
(* holds it.  A path that drops an entry without close leaks a descriptor; *)
(* one that closes without dropping leaves a dangling number in the cache, *)
(* which open would hand out and a later eviction would close again.       *)
(***************************************************************************)
FdAccounting ==
  /\ UniqueKeys(fds)
  /\ \A i, j \in DOMAIN fds : fds[i].data = fds[j].data => i = j
  /\ \A f \in FDs : fdtab[f] # 0 <=> \E i \in DOMAIN fds : fds[i].data = f

(***************************************************************************)
(* The cache never holds more than max_fd_num descriptors once the lock is *)
(* released, whichever mix of opens, creates and unlinks has run.          *)
(***************************************************************************)
CacheBound == Len(fds) <= MaxFdNum

(***************************************************************************)
(* A descriptor the cache would hand out for a path leads to the file that *)
(* path names, unless a rename has moved a file from or to that path since *)
(* the descriptor was cached (OpRename does not touch the cache).  create, *)
(* unlink and eviction never leave a stale entry.                          *)
(***************************************************************************)
CoherentUnlessRenamed ==
  \A i \in DOMAIN fds : fds[i].key \notin moved => fdtab[fds[i].data] = names[fds[i].key]

(***************************************************************************)
(* A worker uses its descriptors after the lock is released.  They still   *)
(* lead to the file they were opened for, unless the path was created or   *)
(* unlinked meanwhile or at least MaxFdNum other paths were opened: the    *)
(* least-recently-used order protects every descriptor in use from fewer   *)
(* opens than that, with whatever interleaving.                            *)
(***************************************************************************)
InFlightFdSafe ==
  \A w \in Workers : Undisturbed(w) =>
    /\ wk[w].fd # NoFd => fdtab[wk[w].fd] = hist[w].ino
    /\ wk[w].hfd # NoFd => fdtab[wk[w].hfd] = hist[w].hino

(***************************************************************************)
(* get_file_handler returns nullptr when its open fails ("file may not     *)
(* exists") and no caller tests for it.  A read or write that holds its    *)
(* file open meets this only if its path was created or unlinked meanwhile *)
(* or at least MaxFdNum other paths were opened: a rename away does not    *)
(* suffice, nor does a full descriptor table.                              *)
(***************************************************************************)
NullHandlerOnlyIfDisturbed ==
  \A w \in Workers : wk[w].pc = "sync" /\ Undisturbed(w) =>
    ~fdm_open_fails(wk[w].path, FALSE)

(***************************************************************************)
(* What fdm_mu is to guarantee: whenever it is free, the cache and the     *)
(* open descriptors are one-to-one and the cache is within its capacity.   *)
(***************************************************************************)
CacheSound == FdAccounting /\ CacheBound

(***************************************************************************)
(* What the workers rely on without holding fdm_mu: neither a descriptor   *)
(* in use nor the handler looked up for it is lost to fewer than MaxFdNum  *)
(* opens of other paths.                                                   *)
(***************************************************************************)
WorkersSafe == InFlightFdSafe /\ NullHandlerOnlyIfDisturbed

=============================================================================
