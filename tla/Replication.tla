---------------------------- MODULE Replication ----------------------------
(***************************************************************************)
(* The data of a file in a replicated space: the read, write and truncate  *)
(* cases of ProxyOP::do_op (src/io_proxy/proxy_op.cc) with sync_filedata,  *)
(* sync_unalign_page, _handle_file_sync_data and _handle_file_index_update *)
(* (src/io_proxy/replica_mgr.cc), and the hole handling of HvsFileHandler  *)
(* (src/io_proxy/fd_mgr.cc).                                               *)
(*                                                                         *)
(* Each center has a copy of the file.  A write goes to the local copy;    *)
(* later the peers are told to punch a hole over its pages.  A read (and a *)
(* write over part of a page) that meets a hole first fetches the range    *)
(* from the peers.  So a hole means "ask the others", and the newest data  *)
(* of a page must be somewhere that is not a hole.                         *)
(*                                                                         *)
(* The file system is external: pages are allocated or holes, a hole and   *)
(* the room behind the end of file read as zeros.  Each center's           *)
(* replication queue is the FIFO channel that module ReplicaQueue refines. *)
(* RPCs between centers succeed here.                                      *)
(***************************************************************************)
EXTENDS Integers, Sequences, FiniteSets

CONSTANTS Centers,
          Home,         \* the center where the space was created
          Workers,      \* operations that can be in progress at once
          PageSize,     \* units per page (_GVDS_BASE_FS_PAGE_SIZE)
          NPages,       \* bound: pages of the file
          ReadRanges,   \* the ranges <<offset, end>> that clients read
          InitSize,     \* size of the file when the space was replicated
          MaxOps        \* bound: writes and truncates in a behaviour

ASSUME HomeAssumption == Home \in Centers
ASSUME CentersAssumption == Centers # {Home}
ASSUME PageAssumption == PageSize \in Nat \ {0} /\ NPages \in Nat \ {0}
ASSUME RangesAssumption == ReadRanges \subseteq Nat \X Nat
ASSUME SizeAssumption == InitSize \in 0 .. PageSize * NPages
ASSUME MaxOpsAssumption == MaxOps \in Nat

VARIABLES file,     \* center -> its copy
          queue,    \* center -> its replication queue
          told,     \* center -> peers that have executed the head of its queue
          op,       \* worker -> the operation it executes
          truth,    \* history: what the file should contain
          ops       \* number of writes and truncates so far

vars == <<file, queue, told, op, truth, ops>>

-----------------------------------------------------------------------------
Units  == 0 .. PageSize * NPages - 1
Sizes  == 0 .. PageSize * NPages
Pages  == 0 .. NPages - 1
Values == 0 .. MaxOps + 1       \* 0: zeros; 1: the initial data; n + 1: write n

Page(u) == u \div PageSize
Span(lo, hi) == {u \in Units : lo <= u /\ u < hi}
Min2(a, b) == IF a < b THEN a ELSE b
Max2(a, b) == IF a < b THEN b ELSE a

Content == [size : Sizes, val : [Units -> Values]]
Update == [type : {"rep_update_index", "truncate"}, lo : Sizes, hi : Sizes]

\* pc: "idle"; "sync" - about to look for holes in the next range of syncs;
\* "fetch" - peers still to be asked; "fill" - an answer to be written;
\* "do" - before the system call; "submit" - before handle_replica_async;
\* "done" - replied.
OpStates == {"idle", "sync", "fetch", "fill", "do", "submit", "done"}

NoData == [u \in {} |-> 0]
NoOp == [pc |-> "idle", type |-> "read", c |-> Home, lo |-> 0, hi |-> 0, syncs |-> <<>>,
         peers |-> {}, reply |-> NoData]

-----------------------------------------------------------------------------
(***************************************************************************)
(* The file system.                                                        *)
(***************************************************************************)
Pwrite(f, data) ==
  LET D == DOMAIN data IN
  [size  |-> IF D = {} THEN f.size
             ELSE Max2(f.size, 1 + CHOOSE u \in D : \A v \in D : v <= u),
   alloc |-> f.alloc \cup {Page(u) : u \in D},
   val   |-> [u \in Units |-> IF u \in D THEN data[u] ELSE f.val[u]]]

Resize(f, n) ==
  [size  |-> n,
   alloc |-> {p \in f.alloc : p * PageSize < n},
   val   |-> [u \in Units |-> IF u < n THEN f.val[u] ELSE 0]]

Punch(f, P) ==
  [f EXCEPT !.alloc = @ \ P, !.val = [u \in Units |-> IF Page(u) \in P THEN 0 ELSE @[u]]]

Pread(f, lo, hi) == [u \in Span(lo, Min2(hi, f.size)) |-> f.val[u]]

(***************************************************************************)
(* HvsFileHandler.                                                         *)
(***************************************************************************)
\* Mutant: the last unit of the range is not looked at.
HolesShort(f, lo, hi) == {u \in Span(lo, Min2(hi, f.size) - 1) : Page(u) \notin f.alloc}

find_holes_in_range(f, lo, hi) == {u \in Span(lo, Min2(hi, f.size)) : Page(u) \notin f.alloc}
find_data_in_range(f, lo, hi)  == {u \in Span(lo, Min2(hi, f.size)) : Page(u) \in f.alloc}

\* Mutant: the end of the range is not extended to its page.
PunchPagesShort(lo, hi) == {p \in Pages : lo \div PageSize <= p /\ p < hi \div PageSize}

\* The range extended to whole pages.
PunchPages(lo, hi) ==
  {p \in Pages : lo \div PageSize <= p /\ p < (hi + PageSize - 1) \div PageSize}

punch_hole_local(f, lo, hi) ==
  Punch(IF hi > f.size THEN Resize(f, hi) ELSE f, PunchPages(lo, hi))

-----------------------------------------------------------------------------
(***************************************************************************)
(* Operations.                                                             *)
(***************************************************************************)
PageRange(p) == <<p * PageSize, (p + 1) * PageSize>>

\* sync_unalign_page: the ranges it passes to sync_filedata.
sync_unalign_page(lo, hi) ==
  (IF lo % PageSize # 0 THEN <<PageRange(lo \div PageSize)>> ELSE <<>>)
  \o (IF hi % PageSize # 0 THEN <<PageRange(hi \div PageSize)>> ELSE <<>>)

Init ==
  /\ file = [c \in Centers |->
       [size  |-> InitSize,
        alloc |-> IF c = Home THEN {p \in Pages : p * PageSize < InitSize} ELSE {},
        val   |-> [u \in Units |-> IF c = Home /\ u < InitSize THEN 1 ELSE 0]]]
  /\ queue = [c \in Centers |-> <<>>]
  /\ told = [c \in Centers |-> {}]
  /\ op = [w \in Workers |-> NoOp]
  /\ truth = [size |-> InitSize, val |-> [u \in Units |-> IF u < InitSize THEN 1 ELSE 0]]
  /\ ops = 0

Start(w, type, c, lo, hi, syncs) ==
  /\ op[w].pc \in {"idle", "done"}
  /\ op' = [op EXCEPT ![w] = [NoOp EXCEPT !.pc = IF syncs = <<>> THEN "do" ELSE "sync",
                                          !.type = type, !.c = c, !.lo = lo, !.hi = hi,
                                          !.syncs = syncs]]
  /\ UNCHANGED <<file, queue, told, truth>>

StartRead(w) ==
  /\ \E c \in Centers, r \in ReadRanges : Start(w, "read", c, r[1], r[2], <<r>>)
  /\ UNCHANGED ops

StartWrite(w) ==
  /\ ops < MaxOps /\ ops' = ops + 1
  /\ \E c \in Centers, lo, hi \in Sizes :
       lo < hi /\ Start(w, "write", c, lo, hi, sync_unalign_page(lo, hi))

StartTruncate(w) ==
  /\ ops < MaxOps /\ ops' = ops + 1
  /\ \E c \in Centers, hi \in Sizes : Start(w, "truncate", c, hi, hi, <<>>)

AfterSync(w) == [op EXCEPT ![w].syncs = Tail(@), ![w].peers = {}, ![w].reply = NoData,
                           ![w].pc = IF Tail(op[w].syncs) = <<>> THEN "do" ELSE "sync"]

\* sync_filedata: nothing to do unless the range has holes.
FindHoles(w) ==
  /\ op[w].pc = "sync"
  /\ LET r == Head(op[w].syncs) IN
       op' = IF find_holes_in_range(file[op[w].c], r[1], r[2]) = {}
             THEN AfterSync(w)
             ELSE [op EXCEPT ![w].pc = "fetch", ![w].peers = Centers \ {op[w].c}]
  /\ UNCHANGED <<file, queue, told, truth, ops>>

\* _handle_file_sync_data at a peer answers with the data it has in the range.
Fetch(w) ==
  /\ op[w].pc = "fetch"
  /\ \/ /\ op[w].peers = {}
        /\ op' = AfterSync(w)
     \/ \E p \in op[w].peers :
          LET r == Head(op[w].syncs) IN
          op' = [op EXCEPT ![w].pc = "fill", ![w].peers = @ \ {p},
                           ![w].reply = [u \in find_data_in_range(file[p], r[1], r[2]) |->
                                           file[p].val[u]]]
  /\ UNCHANGED <<file, queue, told, truth, ops>>

\* sync_filedata writes all of the answer, not only what falls into holes.
Fill(w) ==
  /\ op[w].pc = "fill"
  /\ file' = [file EXCEPT ![op[w].c] = Pwrite(@, op[w].reply)]
  /\ op' = [op EXCEPT ![w].pc = "fetch", ![w].reply = NoData]
  /\ UNCHANGED <<queue, told, truth, ops>>

DoRead(w) ==
  /\ op[w].pc = "do" /\ op[w].type = "read"
  /\ op' = [op EXCEPT ![w].pc = "done",
                      ![w].reply = Pread(file[op[w].c], op[w].lo, op[w].hi)]
  /\ UNCHANGED <<file, queue, told, truth, ops>>

\* The values written are told apart by the number of writes so far.
DoWrite(w) ==
  /\ op[w].pc = "do" /\ op[w].type = "write"
  /\ LET data == [u \in Span(op[w].lo, op[w].hi) |-> ops + 1] IN
       /\ file' = [file EXCEPT ![op[w].c] = Pwrite(@, data)]
       /\ truth' = [size |-> Max2(truth.size, op[w].hi),
                    val  |-> [u \in Units |-> IF u \in DOMAIN data THEN data[u]
                                              ELSE truth.val[u]]]
  /\ op' = [op EXCEPT ![w].pc = "submit"]
  /\ UNCHANGED <<queue, told, ops>>

DoTruncate(w) ==
  /\ op[w].pc = "do" /\ op[w].type = "truncate"
  /\ file' = [file EXCEPT ![op[w].c] = Resize(@, op[w].hi)]
  /\ truth' = [truth EXCEPT !.size = op[w].hi,
                            !.val = [u \in Units |-> IF u < op[w].hi THEN @[u] ELSE 0]]
  /\ op' = [op EXCEPT ![w].pc = "submit"]
  /\ UNCHANGED <<queue, told, ops>>

\* handle_replica_async queues the operation; a write goes without its data.
Submit(w) ==
  /\ op[w].pc = "submit"
  /\ queue' = [queue EXCEPT ![op[w].c] = Append(@,
       [type |-> IF op[w].type = "write" THEN "rep_update_index" ELSE op[w].type,
        lo |-> op[w].lo, hi |-> op[w].hi])]
  /\ op' = [op EXCEPT ![w].pc = "done"]
  /\ UNCHANGED <<file, told, truth, ops>>

\* A queued request at a peer: a truncate, or _handle_file_index_update.
Executed(f, r) ==
  IF r.type = "truncate" THEN Resize(f, r.hi) ELSE punch_hole_local(f, r.lo, r.hi)

\* _flush: the oldest request of a center is executed at one peer after the
\* other, and leaves the queue after the last.
Deliver(c, d) ==
  /\ queue[c] # <<>> /\ d \notin told[c] \cup {c}
  /\ file' = [file EXCEPT ![d] = Executed(@, Head(queue[c]))]
  /\ IF told[c] \cup {c, d} = Centers
     THEN queue' = [queue EXCEPT ![c] = Tail(@)] /\ told' = [told EXCEPT ![c] = {}]
     ELSE told' = [told EXCEPT ![c] = @ \cup {d}] /\ UNCHANGED queue
  /\ UNCHANGED <<op, truth, ops>>

Begin(w) == StartRead(w) \/ StartWrite(w) \/ StartTruncate(w)
Continue(w) == FindHoles(w) \/ Fetch(w) \/ Fill(w) \/ DoRead(w) \/ DoWrite(w)
               \/ DoTruncate(w) \/ Submit(w)

Next ==
  \/ \E w \in Workers : Begin(w) \/ Continue(w)
  \/ \E c, d \in Centers : Deliver(c, d)

Spec == Init /\ [][Next]_vars

\* No operation is in progress and every center has been told of every write.
Quiet == /\ \A w \in Workers : op[w].pc \in {"idle", "done"}
         /\ \A c \in Centers : queue[c] = <<>>

\* The clients take turns and give the centers time to drain their queues.
SerialNext ==
  \/ Quiet /\ \E w \in Workers : Begin(w)
  \/ \E w \in Workers : Continue(w)
  \/ \E c, d \in Centers : Deliver(c, d)

SerialSpec == Init /\ [][SerialNext]_vars

\* One client, which lets a center's queue drain only when it moves on to work
\* at another center.
HandoverNext ==
  \/ \E w \in Workers : Begin(w) /\ \A v \in Workers : op[v].pc \in {"idle", "done"}
                                 /\ \A c \in Centers \ {op'[w].c} : queue[c] = <<>>
  \/ \E w \in Workers : Continue(w)
  \/ \E c, d \in Centers : Deliver(c, d)

HandoverSpec == Init /\ [][HandoverNext]_vars

-----------------------------------------------------------------------------
\* The type of the state; holes and what lies behind the end read as zeros.
TypeOK ==
  /\ DOMAIN file = Centers /\ \A c \in Centers :
       /\ file[c].size \in Sizes /\ file[c].alloc \subseteq Pages
       /\ file[c].val \in [Units -> Values]
       /\ \A u \in Units : u >= file[c].size \/ Page(u) \notin file[c].alloc =>
                             file[c].val[u] = 0
  /\ queue \in [Centers -> Seq(Update)]
  /\ told \in [Centers -> SUBSET Centers]
  /\ DOMAIN op = Workers /\ \A w \in Workers :
       /\ op[w].pc \in OpStates /\ op[w].c \in Centers /\ op[w].lo \in Sizes /\ op[w].hi \in Sizes
       /\ op[w].syncs \in Seq(Sizes \X Sizes) /\ op[w].peers \subseteq Centers
       /\ \A u \in DOMAIN op[w].reply : u \in Units /\ op[w].reply[u] \in Values
  /\ truth \in Content
  /\ ops \in 0 .. MaxOps

\* Clients read whole pages, as they do through the page cache of the kernel.
AlignedReads ==
  \A r \in ReadRanges : r[1] % PageSize = 0 /\ r[2] % PageSize = 0

(***************************************************************************)
(* Clients that take turns, as SerialSpec says, and read whole pages: a    *)
(* read at any center returns what was last written at whichever center,   *)
(* after writes and truncates at any offset.  sync_filedata promises this: *)
(* the proxy has "to sync the specific area before providing the data".    *)
(* It needs sync_unalign_page too: a write over part of a hole would       *)
(* otherwise hide the rest of the page.                                    *)
(***************************************************************************)
ReadsLatest ==
  [][\A w \in Workers : op[w].type = "read" /\ op[w].pc = "do" /\ op'[w].pc = "done" =>
       op'[w].reply = [u \in Span(op[w].lo, Min2(op[w].hi, truth.size)) |-> truth.val[u]]]_vars

(***************************************************************************)
(* At rest, every page that a center holds is the newest one, and a page   *)
(* with data is held by some center: punching holes never leaves a stale   *)
(* page behind and never removes the last copy.                            *)
(***************************************************************************)
CopiesCurrent ==
  Quiet =>
    /\ \A c \in Centers :
         /\ file[c].size = truth.size
         /\ \A u \in Units : Page(u) \in file[c].alloc => file[c].val[u] = truth.val[u]
    /\ \A u \in Units : truth.val[u] # 0 => \E c \in Centers : Page(u) \in file[c].alloc

=============================================================================
