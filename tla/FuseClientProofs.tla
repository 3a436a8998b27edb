-------------------------- MODULE FuseClientProofs --------------------------
(***************************************************************************)
(* Proofs about the file system client: for any paths, sectors, threads,   *)
(* configurations and bounds, what getattr answers from the cache is       *)
(* current unless raced, queued writes land unless crossed, the queue      *)
(* keeps to its limit, and what the read-ahead answers is current unless   *)
(* late.                                                                   *)
(***************************************************************************)
EXTENDS FuseClient, FiniteSetTheorems, SequenceTheorems, TLAPS

-----------------------------------------------------------------------------
(* The types of requests, threads and queues. *)

Kinds == {"getattr", "readdir", "open", "read", "write", "access", "truncate", "mkdir", "unlink",
          "rmdir", "rename", "chmod", "chown", "create", "utimens", "setxattr", "getxattr",
          "listxattr", "removexattr"}
ByXattr == {"setxattr", "removexattr"}
Ids == Nat \ {0}
Requests == [id : Ids, kind : Kinds, p : Paths, q : Paths, s : Sectors, vals : Seq(Ids) \ {<<>>}]
Writes == {o \in Requests : o.kind = "write"}
States == {"idle", "clear", "line", "sent", "back", "status", "task", "wait"}

ThreadOK(t) ==
  /\ th[t].st \in States
  /\ th[t].st # "idle" => th[t].o \in Requests
  /\ th[t].st \in {"clear", "line"} => th[t].o.kind = "write" /\ th[t].o.vals = <<th[t].o.id>>
  /\ th[t].st = "line" => load.async
QueueOK ==
  /\ line \in Seq(Writes) /\ batch \in Seq(Writes)
  /\ ~load.async => line = <<>> /\ batch = <<>>
ClientOK ==
  /\ load \in Loads
  /\ remote \in [Paths -> RemoteFile \cup {NoFile}]
  /\ net \subseteq Requests
  /\ DOMAIN th = Threads /\ \A t \in Threads : ThreadOK(t)
  /\ ops \in Nat
  /\ QueueOK
  /\ want \in [Paths -> [Sectors -> Nat]]

LEMMA KnownKinds == DOMAIN gvdsfs_oper = Kinds
BY DEF gvdsfs_oper, Kinds

LEMMA LoadFacts ==
  ASSUME load \in Loads
  PROVE  /\ load.kinds \subseteq Kinds /\ load.paths \subseteq Paths /\ load.secs \subseteq Sectors
         /\ load.files \in [Paths -> RemoteFile \cup {NoFile}]
         /\ load.cache \in Nat /\ load.async \in BOOLEAN
BY LoadsAssumption, KnownKinds

\* An operation that a user calls.
LEMMA CallsAreRequests ==
  ASSUME ClientOK, NEW o \in Calls
  PROVE  o \in Requests /\ o.vals = <<o.id>>
<1>1. PICK k \in load.kinds, p \in load.paths, q \in Paths, s \in load.secs :
        o = Request(ops + 1, k, p, q, s)
  BY DEF Calls
<1>2. k \in Kinds /\ p \in Paths /\ s \in Sectors /\ ops + 1 \in Ids
  BY LoadFacts DEF ClientOK, Ids
<1>3. <<ops + 1>> \in Seq(Ids) \ {<<>>}
  BY <1>2
<1> QED BY <1>1, <1>2, <1>3 DEF Request, Requests

-----------------------------------------------------------------------------
(* The queue: a buffer is appended to the line, or its sector is appended  *)
(* to the last buffer.                                                     *)

Appends(b) == line' = Append(line, b) /\ batch' = batch
Extends(b) ==
  LET n == Len(line) IN
  /\ n > 0 /\ batch' = batch
  /\ line' \in Seq(Writes) /\ Len(line') = n
  /\ \A i \in 1 .. n - 1 : line'[i] = line[i]
  /\ line'[n].id = b.id /\ line'[n].p = line[n].p /\ line'[n].q = line[n].q /\ line'[n].s = line[n].s
  /\ Len(line'[n].vals) = Len(line[n].vals) + 1
  /\ \A k \in 1 .. Len(line[n].vals) : line'[n].vals[k] = line[n].vals[k]
  /\ line'[n].vals[Len(line[n].vals) + 1] = b.id
  /\ line[n].p = b.p /\ line[n].s + Len(line[n].vals) = b.s

LEMMA MergeEffect ==
  ASSUME QueueOK, NEW b \in Writes, b.vals = <<b.id>>, Merge(b)
  PROVE  Extends(b)
<1> DEFINE n == Len(line)
           m == [line[n] EXCEPT !.vals = @ \o b.vals, !.id = b.id]
<1>1. /\ line \in Seq(Writes) /\ n \in Nat /\ n > 0 /\ line' = [line EXCEPT ![n] = m] /\ batch' = batch
      /\ line[n].p = b.p /\ line[n].s + Len(line[n].vals) = b.s
  <2>1. line \in Seq(Writes) /\ n \in Nat /\ (line # <<>> => n > 0)
    BY DEF QueueOK
  <2>2. line # <<>> /\ line[n].p = b.p /\ line[n].s + Len(line[n].vals) = b.s
    BY DEF Merge, Mergeable, Last
  <2>3. line' = [line EXCEPT ![n] = m] /\ batch' = batch
    BY <2>1, <2>2 DEF Merge
  <2> QED BY <2>1, <2>2, <2>3
<1>2. line[n] \in Writes /\ b \in Requests
  BY <1>1 DEF Writes
<1>3. /\ line[n].vals \in Seq(Ids) /\ line[n].vals # <<>> /\ b.id \in Ids
      /\ line[n] \in Requests
  BY <1>2 DEF Writes, Requests
<1>4. /\ line[n].vals \o b.vals \in Seq(Ids) /\ line[n].vals \o b.vals # <<>>
      /\ Len(line[n].vals \o b.vals) = Len(line[n].vals) + 1
      /\ \A k \in 1 .. Len(line[n].vals) : (line[n].vals \o b.vals)[k] = line[n].vals[k]
      /\ (line[n].vals \o b.vals)[Len(line[n].vals) + 1] = b.id
  BY <1>3
<1>5. /\ m \in Writes /\ m.vals = line[n].vals \o b.vals /\ m.p = line[n].p /\ m.q = line[n].q
      /\ m.s = line[n].s /\ m.id = b.id
  BY <1>2, <1>3, <1>4 DEF Writes, Requests
<1> HIDE DEF m
<1>6. /\ line' \in Seq(Writes) /\ Len(line') = n /\ line'[n] = m
      /\ \A i \in 1 .. n - 1 : line'[i] = line[i]
  BY <1>1, <1>5
<1> QED BY <1>1, <1>4, <1>5, <1>6 DEF Extends

\* queue_buffer for a buffer of one sector.
LEMMA QueueEffect ==
  ASSUME QueueOK, NEW b \in Writes, b.vals = <<b.id>>, Merge(b) \/ Push(b)
  PROVE  /\ Appends(b) \/ Extends(b)
         /\ line' \in Seq(Writes) /\ batch' \in Seq(Writes)
<1>1. CASE Merge(b)
  BY <1>1, MergeEffect DEF Extends, QueueOK
<1>2. CASE Push(b)
  BY <1>2 DEF Push, Appends, QueueOK
<1> QED BY <1>1, <1>2

-----------------------------------------------------------------------------
(* What the steps do to the threads, the requests and the queue. *)

Others(t) == DOMAIN th' = Threads /\ \A u \in Threads : u # t => th'[u] = th[u]
ThreadsOK == DOMAIN th = Threads /\ \A t \in Threads : ThreadOK(t)

LEMMA OneMoves ==
  ASSUME ThreadsOK, NEW t \in Threads, NEW r, th' = [th EXCEPT ![t] = r]
  PROVE  th'[t] = r /\ Others(t)
BY DEF ThreadsOK, Others

LEMMA IdleOK == Idle.st = "idle" /\ Idle.o = NoReq
BY DEF Idle

LEMMA AtOK == \A st, o, ans : At(st, o, ans).st = st /\ At(st, o, ans).o = o /\ At(st, o, ans).ans = ans
BY DEF At

LEMMA ThreadsStay ==
  ASSUME ThreadsOK, load' = load, NEW t \in Threads, Others(t), ThreadOK(t)'
  PROVE  ThreadsOK'
BY DEF ThreadsOK, Others, ThreadOK

\* A thread goes on with its operation outside the queue, or is done.
GoesOn(t) ==
  /\ Others(t) /\ th[t].st \in {"sent", "back", "status", "task", "wait"}
  /\ \/ th'[t] = Idle
     \/ th'[t].st \in {"status", "task", "wait"} /\ th'[t].o = th[t].o

core == <<load, remote, net, line, batch, want, cache>>

LEMMA ReadEffect ==
  ASSUME ThreadsOK, NEW t \in Threads, ReadStatus(t) \/ ReadTask(t) \/ ReadWait(t) \/ Break(t)
  PROVE  GoesOn(t) /\ UNCHANGED <<core, raced, crossed>>
<1>1. UNCHANGED <<core, raced, crossed>> /\ th[t].st \in {"sent", "status", "task", "wait"}
  BY DEF ReadStatus, ReadTask, ReadWait, Break, core, qvars, histvars
<1>2. \/ th' = [th EXCEPT ![t] = Idle]
      \/ \E st \in {"status", "task", "wait"} : \E ans : th' = [th EXCEPT ![t] = At(st, th[t].o, ans)]
  BY DEF ReadStatus, ReadTask, ReadWait, Break, ReadRemote
<1>3. CASE th' = [th EXCEPT ![t] = Idle]
  BY <1>1, <1>3, OneMoves DEF GoesOn
<1>4. CASE \E st \in {"status", "task", "wait"} : \E ans : th' = [th EXCEPT ![t] = At(st, th[t].o, ans)]
  <2>1. PICK st \in {"status", "task", "wait"} : \E ans : th' = [th EXCEPT ![t] = At(st, th[t].o, ans)]
    BY <1>4
  <2>0. PICK ans : th' = [th EXCEPT ![t] = At(st, th[t].o, ans)]
    BY <2>1
  <2>2. th'[t] = At(st, th[t].o, ans) /\ Others(t)
    BY <2>0, OneMoves
  <2> QED BY <1>1, <2>2, AtOK DEF GoesOn
<1> QED BY <1>1, <1>2, <1>3, <1>4

LEMMA GoesOnOK == ASSUME ThreadsOK, NEW t \in Threads, GoesOn(t), load' = load PROVE ThreadsOK'
<1>1. ThreadOK(t)
  BY DEF ThreadsOK
<1>2. ThreadOK(t)'
  BY <1>1, IdleOK DEF GoesOn, ThreadOK, States
<1> QED BY <1>2, ThreadsStay DEF GoesOn

\* The fetching callbacks leave all of it alone.
LEMMA FetchEffect == ASSUME Fetched PROVE UNCHANGED <<core, th, raced, crossed>>
BY DEF Fetched, FetchAnswer, FetchCallback, FetchStore, FetchCrash, FetchChain, core, qvars, cvars, histvars

\* An operation on its way to the proxy or into the queue.
Queues(t, o) ==
  /\ load.async /\ o.kind = "write" /\ net' = net
  /\ \/ /\ th'[t] = Idle /\ (Appends(o) \/ Extends(o)) /\ line' \in Seq(Writes)
        /\ want' = [want EXCEPT ![o.p][o.s] = o.id]
     \/ th'[t].st = "line" /\ th'[t].o = o /\ UNCHANGED <<line, batch, want>>
Sends(t, o) ==
  /\ ~(load.async /\ o.kind = "write") /\ UNCHANGED <<line, batch, want>>
  /\ \/ net' = net \cup {o} /\ th'[t].st = "sent" /\ th'[t].o = o
     \/ net' = net /\ th'[t] = Idle
Goes(t, o) ==
  /\ Others(t)
  /\ Queues(t, o) \/ Sends(t, o)
  /\ IF load.cache > 0
     THEN cache' = expire_stat(cache, Expired(o)) /\ raced' = raced \ Expired(o)
     ELSE UNCHANGED <<cache, raced>>

LEMMA GoEffect ==
  ASSUME ThreadsOK, QueueOK, NEW t \in Threads, NEW o \in Requests, o.vals = <<o.id>>, Go(t, o)
  PROVE  Goes(t, o)
<1>0. IF load.cache > 0
      THEN cache' = expire_stat(cache, Expired(o)) /\ raced' = raced \ Expired(o)
      ELSE UNCHANGED <<cache, raced>>
  BY DEF Go
<1>1. CASE o.kind = "write" /\ load.async
  <2>0. QueueBuffer(t, o) /\ net' = net /\ o \in Writes
    BY <1>1 DEF Go, Writes
  <2>1. CASE /\ Merge(o) \/ Push(o)
             /\ want' = [want EXCEPT ![o.p][o.s] = o.id]
             /\ th' = [th EXCEPT ![t] = Idle]
    <3>1. (Appends(o) \/ Extends(o)) /\ line' \in Seq(Writes)
      BY <2>0, <2>1, QueueEffect
    <3>2. th'[t] = Idle /\ Others(t)
      BY <2>1, OneMoves
    <3> QED BY <1>0, <1>1, <2>0, <2>1, <3>1, <3>2 DEF Goes, Queues
  <2>2. CASE th' = [th EXCEPT ![t] = At("line", o, 0)] /\ UNCHANGED <<qvars, want>>
    <3>0. th'[t] = At("line", o, 0) /\ Others(t)
      BY <2>2, OneMoves
    <3>1. th'[t].st = "line" /\ th'[t].o = o /\ Others(t)
      BY <3>0, AtOK
    <3> QED BY <1>0, <1>1, <2>0, <2>2, <3>1 DEF Goes, Queues, qvars
  <2> QED BY <2>0, <2>1, <2>2 DEF QueueBuffer
<1>2. CASE ~(o.kind = "write" /\ load.async)
  <2>0. UNCHANGED <<line, batch, want>>
    BY <1>2 DEF Go, qvars
  <2>1. CASE net' = net \cup {o} /\ th' = [th EXCEPT ![t] = At("sent", o, 0)]
    <3>0. th'[t] = At("sent", o, 0) /\ Others(t)
      BY <2>1, OneMoves
    <3>1. th'[t].st = "sent" /\ th'[t].o = o /\ Others(t)
      BY <3>0, AtOK
    <3> QED BY <1>0, <1>2, <2>0, <2>1, <3>1 DEF Goes, Sends
  <2>2. CASE th' = [th EXCEPT ![t] = Idle] /\ net' = net
    <3>1. th'[t] = Idle /\ Others(t)
      BY <2>2, OneMoves
    <3> QED BY <1>0, <1>2, <2>0, <2>2, <3>1 DEF Goes, Sends
  <2> QED BY <1>2, <2>1, <2>2 DEF Go, Submit
<1> QED BY <1>1, <1>2

-----------------------------------------------------------------------------
(* The steps, without the read-ahead. *)

Asks(t) ==
  /\ th[t].st = "idle" /\ Others(t) /\ UNCHANGED <<core, raced, crossed>>
  /\ th'[t].st \in {"status", "clear"} /\ th'[t].o \in Requests
  /\ th'[t].st = "clear" => th'[t].o.kind = "write" /\ th'[t].o.vals = <<th'[t].o.id>>
Starts(t, o) ==
  /\ o \in Requests /\ o.vals = <<o.id>> /\ Goes(t, o) /\ UNCHANGED <<load, remote, crossed>>
  /\ th[t].st = "idle" \/ (th[t].st = "clear" /\ th[t].o = o)
Rooms(t) ==
  LET o == th[t].o IN
  /\ th[t].st = "line" /\ Others(t) /\ th'[t] = Idle
  /\ Appends(o) /\ want' = [want EXCEPT ![o.p][o.s] = o.id]
  /\ UNCHANGED <<load, remote, net, cache, raced, crossed>>
Replied(o) ==
  /\ DOMAIN th' = Threads
  /\ \A t \in Threads : \/ th'[t] = th[t]
                        \/ th[t].st = "sent" /\ th'[t].st = "back" /\ th'[t].o = th[t].o
Runs(o) ==
  /\ o \in net /\ net' = net \ {o} /\ Replied(o) /\ UNCHANGED <<load, line, batch, cache>>
  /\ remote' = do_op(remote, o)
  /\ raced' = (IF o.kind \in ByXattr THEN raced \cup {o.p} ELSE raced)
  /\ crossed' = crossed \cup
       {p \in Changed(o) : IF o.kind = "write" THEN remote[p] = NoFile ELSE PendingWrite(p)}
  /\ want' = [p \in Paths |-> IF o.kind # "write" /\ p \in Changed(o)
                              THEN [s \in Sectors |-> 0] ELSE want[p]]
Loses(o) ==
  /\ o \in net /\ net' = net \ {o} /\ Replied(o)
  /\ crossed' = (IF o.kind = "write" THEN crossed \cup {o.p} ELSE crossed)
  /\ UNCHANGED <<load, remote, line, batch, want, cache, raced>>
Stores(t) ==
  /\ th[t].st = "back" /\ Others(t) /\ th'[t] = Idle
  /\ UNCHANGED <<load, remote, net, line, batch, want, crossed>>
  /\ \E P \in SUBSET Paths : \E val :
       /\ load.cache = 0 => P = {}
       /\ cache' \in set_stat(cache, P, val)
       /\ raced' = (raced \ P) \cup {p \in P : p \in Dirty \/ val[p] # Stat(remote, p)}
Takes ==
  /\ batch = <<>> /\ batch' = line /\ line' = <<>>
  /\ UNCHANGED <<load, remote, net, want, cache, th, raced, crossed>>
Hands ==
  LET b == Head(batch) IN
  /\ batch # <<>> /\ batch' = Tail(batch) /\ net' = net \cup {b}
  /\ crossed' = (IF \E o \in net : o.kind = "write" /\ o.p = b.p /\ Span(o) \cap Span(b) # {}
                 THEN crossed \cup {b.p} ELSE crossed)
  /\ UNCHANGED <<load, remote, line, want, cache, th, raced>>
Keeps == UNCHANGED <<core, th, raced>> /\ crossed \subseteq crossed'

OtherEffects ==
  \/ \E t \in Threads : \/ Asks(t) \/ Rooms(t) \/ Stores(t)
                        \/ (GoesOn(t) /\ UNCHANGED <<core, raced, crossed>>)
  \/ \E o \in net : Runs(o) \/ Loses(o)
  \/ Takes \/ Hands \/ Keeps
Effects == OtherEffects \/ \E t \in Threads, o \in Requests : Starts(t, o)

\* Only a write clears the read-ahead.
LEMMA WritesClear == \A k \in Kinds : gvdsfs_oper[k].clears => k = "write"
<1>1. /\ gvdsfs_oper.getattr = gvdsfs_getattr /\ gvdsfs_oper.readdir = gvdsfs_readdir
      /\ gvdsfs_oper.open = gvdsfs_open /\ gvdsfs_oper.read = gvdsfs_read
      /\ gvdsfs_oper.access = gvdsfs_access /\ gvdsfs_oper.truncate = gvdsfs_truncate
      /\ gvdsfs_oper.mkdir = gvdsfs_mkdir /\ gvdsfs_oper.unlink = gvdsfs_unlink
      /\ gvdsfs_oper.rmdir = gvdsfs_rmdir /\ gvdsfs_oper.rename = gvdsfs_rename
      /\ gvdsfs_oper.chmod = gvdsfs_chmod /\ gvdsfs_oper.chown = gvdsfs_chown
      /\ gvdsfs_oper.create = gvdsfs_create /\ gvdsfs_oper.utimens = gvdsfs_utimens
      /\ gvdsfs_oper.setxattr = gvdsfs_setxattr /\ gvdsfs_oper.getxattr = gvdsfs_getxattr
      /\ gvdsfs_oper.listxattr = gvdsfs_listxattr /\ gvdsfs_oper.removexattr = gvdsfs_removexattr
  BY DEF gvdsfs_oper
<1>2. /\ ~gvdsfs_getattr.clears /\ ~gvdsfs_readdir.clears /\ ~gvdsfs_open.clears /\ ~gvdsfs_read.clears
      /\ ~gvdsfs_access.clears /\ ~gvdsfs_truncate.clears /\ ~gvdsfs_mkdir.clears /\ ~gvdsfs_unlink.clears
      /\ ~gvdsfs_rmdir.clears /\ ~gvdsfs_rename.clears /\ ~gvdsfs_chmod.clears /\ ~gvdsfs_chown.clears
      /\ ~gvdsfs_create.clears /\ ~gvdsfs_utimens.clears /\ ~gvdsfs_setxattr.clears /\ ~gvdsfs_getxattr.clears
      /\ ~gvdsfs_listxattr.clears /\ ~gvdsfs_removexattr.clears
  BY DEF Handler, gvdsfs_getattr, gvdsfs_readdir, gvdsfs_open, gvdsfs_read, gvdsfs_access,
         gvdsfs_truncate, gvdsfs_mkdir, gvdsfs_unlink, gvdsfs_rmdir, gvdsfs_rename,
         gvdsfs_chmod, gvdsfs_chown, gvdsfs_create, gvdsfs_utimens, gvdsfs_setxattr,
         gvdsfs_getxattr, gvdsfs_listxattr, gvdsfs_removexattr
<1> QED BY <1>1, <1>2 DEF Kinds

LEMMA BeginEffect ==
  ASSUME ClientOK, NEW t \in Threads, NEW o \in Calls, Begin(t, o)
  PROVE  (Keeps \/ Asks(t) \/ Starts(t, o)) /\ o \in Requests /\ ops' \in Nat
<1> DEFINE h == gvdsfs_oper[o.kind]
<1>1. o \in Requests /\ o.vals = <<o.id>> /\ ThreadsOK /\ QueueOK /\ ops \in Nat /\ o.kind \in Kinds
  BY CallsAreRequests DEF ClientOK, ThreadsOK, Requests
<1>2. th[t].st = "idle" /\ UNCHANGED <<load, remote>> /\ ops' \in Nat
  BY <1>1, IdleOK DEF Begin
<1>3. CASE UNCHANGED <<qvars, avars, net, th, cache, histvars>>
  BY <1>1, <1>2, <1>3 DEF Keeps, core, qvars, histvars
<1>4. CASE /\ th' = [th EXCEPT ![t] = At("status", o, 0)]
           /\ UNCHANGED <<qvars, avars, net, cache, histvars>>
  <2>1. th'[t] = At("status", o, 0) /\ Others(t)
    BY <1>1, <1>4, OneMoves
  <2>2. th'[t].st = "status" /\ th'[t].o = o
    BY <2>1, AtOK
  <2> QED BY <1>1, <1>2, <1>4, <2>1, <2>2 DEF Asks, core, qvars, histvars
<1>5. CASE /\ h.clears
           /\ th' = [th EXCEPT ![t] = At("clear", o, area[0].epoch)]
           /\ UNCHANGED <<qvars, net, cache, raced, want, crossed>>
  <2>1. th'[t] = At("clear", o, area[0].epoch) /\ Others(t)
    BY <1>1, <1>5, OneMoves
  <2>2. th'[t].st = "clear" /\ th'[t].o = o /\ o.kind = "write"
    BY <1>1, <1>5, <2>1, AtOK, WritesClear
  <2> QED BY <1>1, <1>2, <1>5, <2>1, <2>2 DEF Asks, core, qvars, histvars
<1>6. CASE Go(t, o) /\ crossed' = crossed
  <2>1. Goes(t, o)
    BY <1>1, <1>6, GoEffect
  <2> QED BY <1>1, <1>2, <1>6, <2>1 DEF Starts
<1> QED BY <1>3, <1>4, <1>5, <1>6 DEF Begin

LEMMA ThreadEffect ==
  ASSUME ClientOK, NEW t \in Threads, Step(t) \/ Break(t)
  PROVE  (OtherEffects \/ (th[t].st = "clear" /\ ClearSecond(t) /\ Starts(t, th[t].o))) /\ ops' = ops
<1>1. ThreadsOK /\ QueueOK /\ ThreadOK(t)
  BY DEF ClientOK, ThreadsOK
<1>2. CASE ClearSecond(t)
  <2>1. /\ th[t].st = "clear" /\ Go(t, th[t].o) /\ UNCHANGED <<load, remote, crossed, ops>>
        /\ th[t].o \in Requests /\ th[t].o.vals = <<th[t].o.id>>
    BY <1>1, <1>2 DEF ClearSecond, ThreadOK
  <2>2. Goes(t, th[t].o)
    BY <1>1, <2>1, GoEffect
  <2> QED BY <1>2, <2>1, <2>2 DEF Starts
<1>3. CASE Roomed(t)
  <2>1. th' = [th EXCEPT ![t] = Idle] /\ ops' = ops
    BY <1>3 DEF Roomed
  <2>2. th'[t] = Idle /\ Others(t)
    BY <1>1, <2>1, OneMoves
  <2>3. Rooms(t)
    BY <1>3, <2>2 DEF Roomed, Rooms, Push, Appends
  <2> QED BY <2>1, <2>3 DEF OtherEffects
<1>4. CASE Return(t)
  <2> DEFINE P == IF load.cache = 0 THEN {}
                  ELSE CASE gvdsfs_oper[th[t].o.kind].stores = "path" -> {th[t].o.p}
                         [] gvdsfs_oper[th[t].o.kind].stores = "entries" -> {p \in Paths : th[t].ans[p] # NoFile}
                         [] OTHER -> {}
             val == [p \in P |-> IF th[t].o.kind = "readdir" THEN th[t].ans[p] ELSE th[t].ans]
  <2>1. /\ th' = [th EXCEPT ![t] = Idle] /\ ops' = ops /\ th[t].st = "back"
        /\ UNCHANGED <<load, remote, net, line, batch, want, crossed>>
        /\ cache' \in set_stat(cache, P, val)
        /\ raced' = (raced \ P) \cup {p \in P : p \in Dirty \/ val[p] # Stat(remote, p)}
    BY <1>4 DEF Return, qvars
  <2>2. P \subseteq Paths /\ (load.cache = 0 => P = {})
    <3>1. th[t].o.p \in Paths
      BY <1>1, <2>1 DEF ThreadOK, Requests
    <3>2. CASE load.cache = 0
      <4>1. P = {}
        BY <3>2, Zenon
      <4> QED BY <4>1
    <3>3. CASE load.cache # 0 /\ gvdsfs_oper[th[t].o.kind].stores = "path"
      <4>1. P = {th[t].o.p}
        BY <3>3, Zenon
      <4> QED BY <3>1, <3>3, <4>1
    <3>4. CASE load.cache # 0 /\ gvdsfs_oper[th[t].o.kind].stores = "entries"
      <4>1. gvdsfs_oper[th[t].o.kind].stores # "path"
        BY <3>4
      <4>2. P = {p \in Paths : th[t].ans[p] # NoFile}
        BY <3>4, <4>1, Zenon
      <4> QED BY <3>4, <4>2
    <3>5. CASE load.cache # 0 /\ gvdsfs_oper[th[t].o.kind].stores \notin {"path", "entries"}
      <4>1. P = {}
        BY <3>5, Zenon
      <4> QED BY <3>5, <4>1
    <3> HIDE DEF P
    <3> QED BY <3>2, <3>3, <3>4, <3>5
  <2>3. th'[t] = Idle /\ Others(t)
    BY <1>1, <2>1, OneMoves
  <2> HIDE DEF P, val
  <2>4. Stores(t)
    BY <2>1, <2>2, <2>3 DEF Stores
  <2> QED BY <2>1, <2>4 DEF OtherEffects
<1>5. CASE ReadStatus(t) \/ ReadTask(t) \/ ReadWait(t) \/ Break(t)
  <2>1. ops' = ops
    BY <1>5 DEF ReadStatus, ReadTask, ReadWait, Break
  <2> QED BY <1>1, <1>5, <2>1, ReadEffect DEF OtherEffects
<1> QED BY <1>2, <1>3, <1>4, <1>5 DEF Step

LEMMA ExecuteEffect ==
  ASSUME ClientOK, NEW o \in net, Execute(o)
  PROVE  OtherEffects /\ ops' = ops
<1>1. ASSUME NEW ans, Reply(o, ans) PROVE Replied(o)
  <2>1. SUFFICES ASSUME NEW t \in Threads, th[t].st = "sent", th[t].o = o, th'[t] = At("back", o, ans)
                 PROVE  th'[t].st = "back" /\ th'[t].o = th[t].o
    BY <1>1 DEF Reply, Replied, ClientOK
  <2> QED BY <2>1, AtOK
<1>2. Replied(o) /\ net' = net \ {o} /\ UNCHANGED <<load, line, batch, cache, ops>>
  BY <1>1 DEF Execute, qvars
<1>3. CASE /\ remote' = do_op(remote, o)
           /\ raced' = IF o.kind \in {"setxattr", "removexattr"} THEN raced \cup {o.p} ELSE raced
           /\ crossed' = crossed \cup
                {p \in Changed(o) : IF o.kind = "write" THEN remote[p] = NoFile ELSE PendingWrite(p)}
           /\ want' = [p \in Paths |-> IF o.kind # "write" /\ p \in Changed(o)
                                      THEN [s \in Sectors |-> 0] ELSE want[p]]
  <2>1. Runs(o)
    BY <1>2, <1>3 DEF Runs, ByXattr
  <2> QED BY <1>2, <2>1 DEF OtherEffects
<1>4. CASE /\ crossed' = IF o.kind = "write" THEN crossed \cup {o.p} ELSE crossed
           /\ UNCHANGED <<remote, raced, want>>
  <2>1. Loses(o)
    BY <1>2, <1>4 DEF Loses
  <2> QED BY <1>2, <2>1 DEF OtherEffects
<1> QED BY <1>3, <1>4 DEF Execute

LEMMA WorkEffect ==
  ASSUME ClientOK, Queue
  PROVE  OtherEffects /\ ops' = ops
<1>1. CASE QueueDispatch
  BY <1>1 DEF QueueDispatch, Dispatch, OtherEffects, Takes, cvars
<1>2. CASE QueueAssign
  <2>1. Hands /\ ops' = ops
    BY <1>2 DEF QueueAssign, Assign, Hands
  <2> QED BY <2>1 DEF OtherEffects
<1>3. CASE \E b \in onlink : QueueComplete(b)
  BY <1>3 DEF QueueComplete, Complete, OtherEffects, Keeps, core
<1> QED BY <1>1, <1>2, <1>3 DEF Queue

LEMMA NextEffect ==
  ASSUME ClientOK, [Next]_vars
  PROVE  Effects /\ ops' \in Nat
<1>0. ops \in Nat
  BY DEF ClientOK
<1>1. CASE \E t \in Threads, o \in Calls : Begin(t, o)
  BY <1>1, BeginEffect DEF Effects, OtherEffects
<1>2. CASE \E t \in Threads : Step(t) \/ Break(t)
  <2>1. PICK t \in Threads : Step(t) \/ Break(t)
    BY <1>2
  <2>2. ops' = ops /\ (OtherEffects \/ (th[t].st = "clear" /\ Starts(t, th[t].o)))
    BY <2>1, ThreadEffect
  <2>3. th[t].st = "clear" => th[t].o \in Requests
    BY DEF ClientOK, ThreadOK
  <2> QED BY <1>0, <2>2, <2>3 DEF Effects
<1>3. CASE Executes
  BY <1>0, <1>3, ExecuteEffect DEF Executes, Effects
<1>4. CASE Fetched
  <2>1. ops' = ops
    BY <1>4 DEF Fetched, FetchAnswer, FetchCallback, FetchStore, FetchCrash, FetchChain, cvars
  <2> QED BY <1>0, <1>4, <2>1, FetchEffect DEF Effects, OtherEffects, Keeps
<1>5. CASE Queue
  BY <1>0, <1>5, WorkEffect DEF Effects
<1>6. CASE UNCHANGED vars
  BY <1>0, <1>6 DEF vars, qvars, cvars, Effects, OtherEffects, Keeps, core
<1> QED BY <1>1, <1>2, <1>3, <1>4, <1>5, <1>6 DEF Next

-----------------------------------------------------------------------------
(* Type correctness. *)

LEMMA ClientInit == ASSUME Init PROVE ClientOK
<1>1. load \in Loads /\ remote = load.files /\ th = [t \in Threads |-> Idle]
  BY DEF Init
<1>2. remote \in [Paths -> RemoteFile \cup {NoFile}]
  BY <1>1, LoadFacts
<1>3. want \in [Paths -> [Sectors -> Nat]]
  BY DEF Init
<1>4. DOMAIN th = Threads /\ \A t \in Threads : th[t].st = "idle"
  BY <1>1, IdleOK
<1>5. \A t \in Threads : ThreadOK(t)
  BY <1>4 DEF ThreadOK, States
<1>6. line = <<>> /\ batch = <<>> /\ net = {} /\ ops = 0
  BY DEF Init, QueueInit
<1> QED BY <1>1, <1>2, <1>3, <1>4, <1>5, <1>6 DEF ClientOK, QueueOK

LEMMA WiderSeq == ASSUME NEW S, NEW T, S \subseteq T, NEW s \in Seq(S) PROVE s \in Seq(T)
OBVIOUS

\* What the proxy has after any request.
LEMMA FilesStay ==
  ASSUME remote \in [Paths -> RemoteFile \cup {NoFile}], NEW o \in Requests
  PROVE  do_op(remote, o) \in [Paths -> RemoteFile \cup {NoFile}]
<1> DEFINE f == remote[o.p]
<1>0. Sectors \subseteq Nat
  BY FuseAssumption
<1>1. /\ o.id \in Nat /\ o.p \in Paths /\ o.q \in Paths /\ o.s \in Nat
      /\ o.vals \in Seq(Nat) /\ Len(o.vals) \in Nat
  <2>1. o.id \in Ids /\ o.p \in Paths /\ o.q \in Paths /\ o.s \in Sectors /\ o.vals \in Seq(Ids)
    BY DEF Requests
  <2>2. Ids \subseteq Nat
    BY DEF Ids
  <2>3. Len(o.vals) \in Nat
    BY <2>1
  <2>4. o.vals \in Seq(Nat)
    BY <2>1, <2>2, WiderSeq
  <2> QED BY <1>0, <2>1, <2>2, <2>3, <2>4
<1>2. /\ f \in RemoteFile \cup {NoFile}
      /\ NoFile \notin RemoteFile
  BY <1>1, FuseAssumption
<1>3. [by |-> o.id, data |-> <<>>] \in RemoteFile
  BY <1>1 DEF RemoteFile
<1>4. ASSUME f # NoFile PROVE [f EXCEPT !.by = o.id] \in RemoteFile
  BY <1>1, <1>2, <1>4 DEF RemoteFile
<1>5. ASSUME f # NoFile PROVE pwrite(f, o) \in RemoteFile
  <2>1. f.data \in Seq(Nat) /\ Len(f.data) \in Nat
    BY <1>2, <1>5 DEF RemoteFile
  <2> DEFINE m == IF Len(f.data) < o.s + Len(o.vals) THEN o.s + Len(o.vals) ELSE Len(f.data)
             e(n) == IF n - 1 \in Span(o) THEN o.vals[n - o.s]
                     ELSE IF n <= Len(f.data) THEN f.data[n] ELSE 0
  <2>2. m \in Nat
    BY <1>1, <2>1
  <2>3. ASSUME NEW n \in 1 .. m PROVE e(n) \in Nat
    <3>1. CASE n - 1 \in Span(o)
      <4>1. n - o.s \in 1 .. Len(o.vals)
        BY <1>1, <2>2, <2>3, <3>1 DEF Span
      <4> QED BY <1>1, <3>1, <4>1
    <3>2. CASE n - 1 \notin Span(o)
      BY <2>1, <2>2, <2>3, <3>2
    <3> QED BY <3>1, <3>2
  <2> HIDE DEF m, e
  <2>4. [n \in 1 .. m |-> e(n)] \in Seq(Nat)
    BY <2>2, <2>3
  <2> QED BY <1>1, <2>4 DEF pwrite, RemoteFile, m, e
<1>6. ASSUME NEW g \in RemoteFile \cup {NoFile}
      PROVE  [remote EXCEPT ![o.p] = g] \in [Paths -> RemoteFile \cup {NoFile}]
  BY <1>1, <1>6
<1>7. resize_file(f, o) \in RemoteFile
  BY <1>3 DEF resize_file
<1>8. CASE o.kind = "rename" /\ f # NoFile
  <2>1. do_op(remote, o) = [remote EXCEPT ![o.p] = NoFile, ![o.q] = [f EXCEPT !.by = o.id]]
    BY <1>8 DEF do_op, Making, Removing, Touching
  <2> DEFINE g == [f EXCEPT !.by = o.id]
  <2>2. g \in RemoteFile
    BY <1>4, <1>8
  <2> HIDE DEF g, f
  <2>3. do_op(remote, o) = [[remote EXCEPT ![o.p] = NoFile] EXCEPT ![o.q] = g]
    BY <2>1 DEF g, f
  <2> QED BY <1>1, <2>2, <2>3
<1>9. CASE o.kind \in Touching /\ f # NoFile
  <2>1. do_op(remote, o) = [remote EXCEPT ![o.p].by = o.id]
    BY <1>9 DEF do_op, Making, Removing, Touching
  <2> QED BY <1>1, <1>4, <1>6, <1>9, <2>1
<1>10. CASE o.kind = "write" /\ f # NoFile
  <2>1. do_op(remote, o) = [remote EXCEPT ![o.p] = pwrite(f, o)]
    BY <1>10 DEF do_op, Making, Removing, Touching
  <2> QED BY <1>5, <1>6, <1>10, <2>1
<1>11. CASE o.kind = "truncate" /\ f # NoFile
  <2>1. do_op(remote, o) = [remote EXCEPT ![o.p] = resize_file(f, o)]
    BY <1>11 DEF do_op, Making, Removing, Touching
  <2> QED BY <1>6, <1>7, <2>1
<1>12. CASE ~(o.kind \in {"rename", "write", "truncate"} \cup Touching /\ f # NoFile)
  <2>1. CASE o.kind \in Making /\ f = NoFile
    <3>1. do_op(remote, o) = [remote EXCEPT ![o.p] = [by |-> o.id, data |-> <<>>]]
      BY <2>1 DEF do_op, Making, Removing, Touching
    <3> QED BY <1>3, <1>6, <3>1
  <2>2. CASE o.kind \in Removing
    <3>1. do_op(remote, o) = [remote EXCEPT ![o.p] = NoFile]
      BY <2>2 DEF do_op, Making, Removing, Touching
    <3> QED BY <1>6, <3>1
  <2>3. CASE ~(o.kind \in Making /\ f = NoFile) /\ o.kind \notin Removing
    <3>1. do_op(remote, o) = remote
      BY <1>12, <2>3 DEF do_op, Making, Removing, Touching
    <3> QED BY <3>1
  <2> QED BY <2>1, <2>2, <2>3
<1> QED BY <1>8, <1>9, <1>10, <1>11, <1>12

\* A thread that moves on stays well typed.
LEMMA MoversOK ==
  ASSUME ThreadsOK, load' = load, NEW t \in Threads, Others(t),
         \/ th'[t] = Idle
         \/ /\ th'[t].st \in States /\ th'[t].o \in Requests
            /\ th'[t].st \in {"clear", "line"} => th'[t].o.kind = "write" /\ th'[t].o.vals = <<th'[t].o.id>>
            /\ th'[t].st = "line" => load.async
  PROVE  ThreadsOK'
<1>1. ThreadOK(t)'
  BY IdleOK DEF ThreadOK, States
<1> QED BY <1>1, ThreadsStay

LEMMA WritesInQueue == Writes \subseteq Requests /\ \A o \in Requests : o.kind = "write" => o \in Writes
BY DEF Writes

LEMMA WantStays ==
  ASSUME want \in [Paths -> [Sectors -> Nat]], NEW o \in Requests, want' = [want EXCEPT ![o.p][o.s] = o.id]
  PROVE  /\ want' \in [Paths -> [Sectors -> Nat]] /\ want'[o.p][o.s] = o.id
         /\ \A p \in Paths, s \in Sectors : p # o.p \/ s # o.s => want'[p][s] = want[p][s]
<1>1. o.p \in Paths /\ o.s \in Sectors /\ o.id \in Nat
  BY DEF Requests, Ids
<1> QED BY <1>1

LEMMA ClientStep == ASSUME ClientOK, [Next]_vars PROVE ClientOK'
<1>1. /\ load \in Loads /\ ThreadsOK /\ QueueOK /\ net \subseteq Requests
      /\ remote \in [Paths -> RemoteFile \cup {NoFile}] /\ want \in [Paths -> [Sectors -> Nat]]
  BY DEF ClientOK, ThreadsOK
<1>2. SUFFICES /\ load' = load /\ ThreadsOK' /\ QueueOK' /\ net' \subseteq Requests
               /\ remote' \in [Paths -> RemoteFile \cup {NoFile}] /\ want' \in [Paths -> [Sectors -> Nat]]
  BY <1>1, NextEffect DEF ClientOK, ThreadsOK
<1>3. CASE \E t \in Threads : Asks(t)
  <2>1. PICK t \in Threads : Asks(t)
    BY <1>3
  <2>2. load' = load /\ UNCHANGED <<remote, net, line, batch, want>>
    BY <2>1 DEF Asks, core
  <2>3. ThreadsOK'
    BY <1>1, <2>1, <2>2, MoversOK DEF Asks, States
  <2> QED BY <1>1, <2>2, <2>3 DEF QueueOK
<1>4. CASE \E t \in Threads, o \in Requests : Starts(t, o)
  <2>1. PICK t \in Threads, o \in Requests : Starts(t, o)
    BY <1>4
  <2>2. load' = load /\ remote' = remote /\ o.vals = <<o.id>> /\ Others(t)
    BY <2>1 DEF Starts, Goes
  <2>3. CASE Queues(t, o)
    <3>1. ThreadsOK'
      BY <1>1, <2>2, <2>3, MoversOK DEF Queues, States
    <3>2. QueueOK'
      BY <1>1, <2>2, <2>3 DEF Queues, QueueOK, Appends, Extends
    <3>3. want' \in [Paths -> [Sectors -> Nat]]
      BY <1>1, <2>3, WantStays DEF Queues
    <3> QED BY <1>1, <2>2, <2>3, <3>1, <3>2, <3>3 DEF Queues
  <2>4. CASE Sends(t, o)
    <3>1. ThreadsOK'
      BY <1>1, <2>2, <2>4, MoversOK DEF Sends, States
    <3> QED BY <1>1, <2>2, <2>4, <3>1 DEF Sends, QueueOK
  <2> QED BY <2>1, <2>3, <2>4 DEF Starts, Goes
<1>5. CASE \E t \in Threads : Rooms(t)
  <2>1. PICK t \in Threads : Rooms(t)
    BY <1>5
  <2> DEFINE o == th[t].o
  <2>2. o \in Writes /\ load.async
    BY <1>1, <2>1, WritesInQueue DEF Rooms, ThreadsOK, ThreadOK
  <2>3. ThreadsOK' /\ load' = load
    BY <1>1, <2>1, MoversOK DEF Rooms
  <2>4. want' \in [Paths -> [Sectors -> Nat]]
    BY <1>1, <2>1, <2>2, WantStays, WritesInQueue DEF Rooms
  <2> HIDE DEF o
  <2>5. QueueOK'
    BY <1>1, <2>1, <2>2 DEF Rooms, QueueOK, Appends, o
  <2> QED BY <1>1, <2>1, <2>3, <2>4, <2>5 DEF Rooms
<1>6. CASE \E t \in Threads : Stores(t)
  <2>1. PICK t \in Threads : Stores(t)
    BY <1>6
  <2>2. ThreadsOK' /\ load' = load /\ UNCHANGED <<remote, net, line, batch, want>>
    BY <1>1, <2>1, MoversOK DEF Stores
  <2> QED BY <1>1, <2>2 DEF QueueOK
<1>7. CASE \E t \in Threads : GoesOn(t) /\ UNCHANGED <<core, raced, crossed>>
  BY <1>1, <1>7, GoesOnOK DEF core, QueueOK
<1>8. CASE \E o \in net : Runs(o) \/ Loses(o)
  <2>1. PICK o \in net : Runs(o) \/ Loses(o)
    BY <1>8
  <2>2. load' = load /\ Replied(o) /\ UNCHANGED <<line, batch>> /\ net' \subseteq net /\ o \in Requests
    BY <1>1, <2>1 DEF Runs, Loses
  <2>3. ThreadsOK'
    BY <1>1, <2>2 DEF Replied, ThreadsOK, ThreadOK, States
  <2>4. remote' \in [Paths -> RemoteFile \cup {NoFile}]
    BY <1>1, <2>1, <2>2, FilesStay DEF Runs, Loses
  <2>5. want' \in [Paths -> [Sectors -> Nat]]
    BY <1>1, <2>1 DEF Runs, Loses
  <2> QED BY <1>1, <2>2, <2>3, <2>4, <2>5 DEF QueueOK
<1>9. CASE Takes
  BY <1>1, <1>9 DEF Takes, QueueOK, ThreadsOK, ThreadOK
<1>10. CASE Hands
  <2>1. Head(batch) \in Writes /\ Tail(batch) \in Seq(Writes)
    BY <1>1, <1>10 DEF Hands, QueueOK
  <2>2. Head(batch) \in Requests
    BY <2>1, WritesInQueue
  <2>3. QueueOK'
    BY <1>1, <1>10, <2>1 DEF Hands, QueueOK
  <2>4. ThreadsOK'
    BY <1>1, <1>10 DEF Hands, ThreadsOK, ThreadOK
  <2> QED BY <1>1, <1>10, <2>2, <2>3, <2>4 DEF Hands
<1>11. CASE Keeps
  BY <1>1, <1>11 DEF Keeps, core, QueueOK, ThreadsOK, ThreadOK
<1> QED BY <1>3, <1>4, <1>5, <1>6, <1>7, <1>8, <1>9, <1>10, <1>11, NextEffect DEF Effects, OtherEffects

(* The threads, the queue and the requests under way are well typed.       *)
THEOREM ClientTypes == Spec => []ClientOK
<1>1. Init => ClientOK
  BY ClientInit
<1>2. ClientOK /\ [Next]_vars => ClientOK'
  BY ClientStep
<1> QED BY <1>1, <1>2, PTL DEF Spec

-----------------------------------------------------------------------------
(* The attribute cache: an entry that was not raced is that of the proxy,  *)
(* and no request that has passed the expiry will change it.               *)

Sent ==
  net \cup ToSet(line) \cup ToSet(batch) \cup {th[t].o : t \in {u \in Threads : th[u].st = "line"}}
Doomed(p) == \E o \in Sent : p \in Changed(o) /\ o.kind \notin ByXattr

Entry(p) == lookup(cache, p) # "NOT_FOUND"
Current(p) ==
  IF p \in cache.missing THEN remote[p] = NoFile
  ELSE p \in DOMAIN cache.cached => cache.cached[p] = Stat(remote, p)
EntryOK(p) == p \notin raced /\ Entry(p) => Current(p) /\ ~Doomed(p)
CacheOK ==
  /\ load.cache = 0 => DOMAIN cache.cached = {} /\ cache.missing = {}
  /\ \A p \in Paths : EntryOK(p)

LEMMA EntryIs == \A p : Entry(p) <=> p \in cache.missing \/ p \in DOMAIN cache.cached
BY DEF Entry, lookup

\* Each operation expires the paths that it changes, but those of extended attributes.
LEMMA ExpiresChanged ==
  ASSUME NEW o \in Requests, NEW p \in Changed(o), o.kind \notin ByXattr
  PROVE  p \in Expired(o)
<1>1. o.kind \in {"write", "truncate", "rename", "chmod", "utimens", "create", "mkdir", "unlink", "rmdir"}
  BY DEF Changed, Changing, Touching, Making, Removing, ByXattr
<1>2. CASE o.kind = "write"
  <2>1. gvdsfs_oper[o.kind].expires = {1}
    BY <1>2 DEF gvdsfs_oper, gvdsfs_write, Handler
  <2> QED BY <1>2, <2>1 DEF Changed, Expired
<1>3. CASE o.kind = "truncate"
  <2>1. gvdsfs_oper[o.kind].expires = {1}
    BY <1>3 DEF gvdsfs_oper, gvdsfs_truncate, Handler
  <2> QED BY <1>3, <2>1 DEF Changed, Expired
<1>4. CASE o.kind = "rename"
  <2>1. gvdsfs_oper[o.kind].expires = {1, 2}
    BY <1>4 DEF gvdsfs_oper, gvdsfs_rename, Handler
  <2>2. o.p \in Expired(o) /\ o.q \in Expired(o)
    BY <2>1 DEF Expired
  <2> QED BY <1>4, <2>2 DEF Changed
<1>5. CASE o.kind = "chmod"
  <2>1. gvdsfs_oper[o.kind].expires = {1}
    BY <1>5 DEF gvdsfs_oper, gvdsfs_chmod, Handler
  <2> QED BY <1>5, <2>1 DEF Changed, Expired
<1>6. CASE o.kind = "utimens"
  <2>1. gvdsfs_oper[o.kind].expires = {1}
    BY <1>6 DEF gvdsfs_oper, gvdsfs_utimens, Handler
  <2> QED BY <1>6, <2>1 DEF Changed, Expired
<1>7. CASE o.kind = "create"
  <2>1. gvdsfs_oper[o.kind].expires = {1}
    BY <1>7 DEF gvdsfs_oper, gvdsfs_create, Handler
  <2> QED BY <1>7, <2>1 DEF Changed, Expired
<1>8. CASE o.kind = "mkdir"
  <2>1. gvdsfs_oper[o.kind].expires = {1}
    BY <1>8 DEF gvdsfs_oper, gvdsfs_mkdir, Handler
  <2> QED BY <1>8, <2>1 DEF Changed, Expired
<1>9. CASE o.kind = "unlink"
  <2>1. gvdsfs_oper[o.kind].expires = {1}
    BY <1>9 DEF gvdsfs_oper, gvdsfs_unlink, Handler
  <2> QED BY <1>9, <2>1 DEF Changed, Expired
<1>10. CASE o.kind = "rmdir"
  <2>1. gvdsfs_oper[o.kind].expires = {1}
    BY <1>10 DEF gvdsfs_oper, gvdsfs_rmdir, Handler
  <2> QED BY <1>10, <2>1 DEF Changed, Expired
<1> QED BY <1>1, <1>2, <1>3, <1>4, <1>5, <1>6, <1>7, <1>8, <1>9, <1>10

\* The proxy changes nothing else.
LEMMA RunsChanged ==
  ASSUME remote \in [Paths -> RemoteFile \cup {NoFile}], NEW o \in Requests, NEW p \in Paths \ Changed(o)
  PROVE  do_op(remote, o)[p] = remote[p]
<1>1. CASE o.kind \notin Changing
  <2>1. do_op(remote, o) = remote
    BY <1>1 DEF do_op, Changing, Making, Removing, Touching
  <2> QED BY <2>1
<1>2. CASE o.kind = "rename"
  <2>1. p # o.p /\ p # o.q
    BY <1>2 DEF Changed, Changing
  <2> QED BY <1>2, <2>1 DEF do_op, Making, Removing, Touching
<1>3. CASE o.kind \in Changing \ {"rename"}
  <2>1. p # o.p
    BY <1>3 DEF Changed
  <2> DEFINE f == remote[o.p]
  <2>2. \/ \E g : do_op(remote, o) = [remote EXCEPT ![o.p] = g]
        \/ do_op(remote, o) = [remote EXCEPT ![o.p].by = o.id]
        \/ do_op(remote, o) = remote
    <3>1. CASE o.kind \in Making
      BY <3>1 DEF do_op, Making, Removing, Touching
    <3>2. CASE o.kind \in Removing
      BY <3>2 DEF do_op, Making, Removing, Touching
    <3>3. CASE o.kind \in Touching
      BY <3>3 DEF do_op, Making, Removing, Touching
    <3>4. CASE o.kind \in {"write", "truncate"}
      BY <3>4 DEF do_op, Making, Removing, Touching
    <3> QED BY <1>3, <3>1, <3>2, <3>3, <3>4 DEF Changing
  <2> QED BY <2>1, <2>2
<1> QED BY <1>1, <1>2, <1>3

LEMMA SentIs ==
  ASSUME ThreadsOK
  PROVE  \A o : o \in Sent <=> \/ o \in net
                               \/ \E i \in DOMAIN line : o = line[i]
                               \/ \E i \in DOMAIN batch : o = batch[i]
                               \/ \E t \in Threads : th[t].st = "line" /\ th[t].o = o
BY DEF Sent, ToSet, ThreadsOK

LEMMA SentNext ==
  ASSUME ThreadsOK'
  PROVE  \A o : o \in Sent' => \/ o \in net'
                               \/ \E i \in DOMAIN line' : o = line'[i]
                               \/ \E i \in DOMAIN batch' : o = batch'[i]
                               \/ \E t \in Threads : th'[t].st = "line" /\ th'[t].o = o
BY DEF Sent, ToSet, ThreadsOK

LEMMA WriteChanges == \A o \in Writes : Changed(o) = {o.p} /\ o.kind = "write"
BY DEF Writes, Changed, Changing

\* What goes to the proxy or into the queue; a buffer that is merged into another stays of its file.
LEMMA StartSends ==
  ASSUME ClientOK, ClientOK', NEW t \in Threads, NEW o \in Requests, Starts(t, o), NEW m \in Sent'
  PROVE  m \in Sent \/ m = o \/ \E b \in Sent : Changed(b) = Changed(m) /\ b.kind = m.kind
<1>1. ThreadsOK /\ ThreadsOK' /\ line \in Seq(Writes)
  BY DEF ClientOK, ThreadsOK, QueueOK
<1>2. m \in Sent'
  OBVIOUS
<1>3. SUFFICES ASSUME m \notin Sent, m # o
               PROVE  \E b \in Sent : Changed(b) = Changed(m) /\ b.kind = m.kind
  OBVIOUS
<1>4. \/ m \in net'
      \/ \E i \in DOMAIN line' : m = line'[i]
      \/ \E i \in DOMAIN batch' : m = batch'[i]
      \/ \E u \in Threads : th'[u].st = "line" /\ th'[u].o = m
  BY <1>1, <1>2, SentNext
<1>5. CASE Queues(t, o) /\ Extends(o)
  <2>1. net' = net /\ batch' = batch /\ \A u \in Threads : th'[u].st = "line" /\ u # t => th'[u] = th[u]
    BY <1>5 DEF Queues, Extends, Starts, Goes, Others
  <2>2. th'[t] = Idle \/ th'[t].o = o
    BY <1>5 DEF Queues
  <2>3. PICK i \in DOMAIN line' : m = line'[i]
    BY <1>1, <1>3, <1>4, <2>1, <2>2, SentIs, IdleOK
  <2> DEFINE n == Len(line)
  <2>4. /\ n \in Nat /\ n > 0 /\ line' \in Seq(Writes) /\ Len(line') = n
        /\ \A j \in 1 .. n - 1 : line'[j] = line[j]
        /\ line'[n].p = line[n].p
    BY <1>1, <1>5 DEF Extends
  <2>5. i = n
    BY <1>1, <1>3, <2>3, <2>4, SentIs
  <2>6. m \in Writes /\ line[n] \in Writes /\ m.p = line[n].p
    BY <1>1, <2>3, <2>4, <2>5
  <2>7. line[n] \in Sent
    BY <1>1, <2>4, SentIs
  <2> QED BY <2>6, <2>7, WriteChanges
<1>6. CASE Queues(t, o) /\ ~Extends(o)
  <2>1. /\ net' = net /\ \A u \in Threads : u # t => th'[u] = th[u]
        /\ th'[t] = Idle \/ th'[t].o = o
        /\ batch' = batch /\ (line' = line \/ line' = Append(line, o))
    BY <1>6 DEF Queues, Starts, Goes, Others, Appends
  <2> QED BY <1>1, <1>3, <1>4, <2>1, SentIs, IdleOK
<1>7. CASE Sends(t, o)
  <2>1. /\ net' \subseteq net \cup {o} /\ \A u \in Threads : u # t => th'[u] = th[u]
        /\ th'[t] = Idle \/ th'[t].o = o
        /\ batch' = batch /\ line' = line
    BY <1>7 DEF Sends, Starts, Goes, Others
  <2> QED BY <1>1, <1>3, <1>4, <2>1, SentIs, IdleOK
<1> QED BY <1>5, <1>6, <1>7 DEF Starts, Goes

\* It dooms the paths that it changes.
LEMMA StartDooms ==
  ASSUME ClientOK, ClientOK', NEW t \in Threads, NEW o \in Requests, Starts(t, o), NEW p, Doomed(p)'
  PROVE  Doomed(p) \/ (p \in Changed(o) /\ o.kind \notin ByXattr)
<1>1. PICK m \in Sent' : p \in Changed(m) /\ m.kind \notin ByXattr
  BY DEF Doomed
<1>2. m \in Sent \/ m = o \/ \E b \in Sent : Changed(b) = Changed(m) /\ b.kind = m.kind
  BY StartSends
<1> QED BY <1>1, <1>2 DEF Doomed

\* No other step dooms a path.
LEMMA OthersSend ==
  ASSUME ClientOK, ClientOK', OtherEffects
  PROVE  Sent' \subseteq Sent
<1>1. ThreadsOK /\ ThreadsOK' /\ line \in Seq(Writes) /\ batch \in Seq(Writes)
  BY DEF ClientOK, ThreadsOK, QueueOK
<1>2. SUFFICES ASSUME NEW m, m \in Sent' PROVE m \in Sent
  OBVIOUS
<1>3. \/ m \in net'
      \/ \E i \in DOMAIN line' : m = line'[i]
      \/ \E i \in DOMAIN batch' : m = batch'[i]
      \/ \E u \in Threads : th'[u].st = "line" /\ th'[u].o = m
  BY <1>1, <1>2, SentNext
<1>4. CASE \E t \in Threads : \/ Asks(t) \/ Stores(t)
                              \/ (GoesOn(t) /\ UNCHANGED <<core, raced, crossed>>)
  <2>1. PICK t \in Threads : \/ Asks(t) \/ Stores(t) \/ (GoesOn(t) /\ UNCHANGED <<core, raced, crossed>>)
    BY <1>4
  <2>2. UNCHANGED <<net, line, batch>> /\ Others(t) /\ th'[t].st # "line"
    BY <2>1, IdleOK DEF Asks, Stores, GoesOn, core
  <2> QED BY <1>1, <1>3, <2>2, SentIs DEF Others
<1>5. CASE \E t \in Threads : Rooms(t)
  <2>1. PICK t \in Threads : Rooms(t)
    BY <1>5
  <2>2. UNCHANGED <<net, batch>> /\ Others(t) /\ th'[t].st # "line" /\ line' = Append(line, th[t].o)
    BY <2>1, IdleOK DEF Rooms, Appends
  <2>3. th[t].o \in Sent
    BY <1>1, <2>1, SentIs DEF Rooms
  <2>4. ASSUME NEW i \in DOMAIN line', m = line'[i] PROVE m \in Sent
    <3> DEFINE r == th[t].o
    <3>1. line' = Append(line, r) /\ r \in Sent
      BY <2>2, <2>3
    <3> HIDE DEF r
    <3> QED BY <1>1, <2>4, <3>1, SentIs
  <2> QED BY <1>1, <1>3, <2>2, <2>4, SentIs DEF Others
<1>6. CASE \E o \in net : Runs(o) \/ Loses(o)
  <2>1. PICK o \in net : Runs(o) \/ Loses(o)
    BY <1>6
  <2>2. UNCHANGED <<line, batch>> /\ net' \subseteq net /\ Replied(o)
    BY <2>1 DEF Runs, Loses
  <2>3. \A u \in Threads : th'[u].st = "line" => th'[u] = th[u]
    BY <2>2 DEF Replied
  <2> QED BY <1>1, <1>3, <2>2, <2>3, SentIs
<1>7. CASE Takes
  BY <1>1, <1>3, <1>7, SentIs DEF Takes
<1>8. CASE Hands
  <2>1. /\ UNCHANGED <<line, th>> /\ net' = net \cup {batch[1]} /\ 1 \in DOMAIN batch
        /\ Len(batch) \in Nat /\ batch' = Tail(batch)
        /\ \A i \in DOMAIN batch' : batch'[i] = batch[i + 1] /\ i + 1 \in DOMAIN batch
    BY <1>1, <1>8 DEF Hands
  <2> QED BY <1>1, <1>3, <2>1, SentIs
<1>9. CASE Keeps
  BY <1>1, <1>3, <1>9, SentIs DEF Keeps, core
<1> QED BY <1>4, <1>5, <1>6, <1>7, <1>8, <1>9 DEF OtherEffects

\* What the cache says of a path after the attributes of P were stored, and after an expiry.
LEMMA StoreEffect ==
  ASSUME NEW P \in SUBSET Paths, NEW val, cache' \in set_stat(cache, P, val), NEW p \in Paths
  PROVE  /\ p \in P /\ val[p] = NoFile => p \in cache'.missing
         /\ p \in P /\ val[p] # NoFile =>
              p \notin cache'.missing /\ (p \in DOMAIN cache'.cached => cache'.cached[p] = val[p])
         /\ p \notin P => /\ p \in cache'.missing <=> p \in cache.missing
                          /\ p \in DOMAIN cache'.cached <=> p \in DOMAIN cache.cached
                          /\ p \in DOMAIN cache.cached => cache'.cached[p] = cache.cached[p]
<1> DEFINE there == {q \in P : val[q] # NoFile}
           known == DOMAIN cache.cached
<1>1. PICK new \in SUBSET (there \ known) :
        cache' = [cached  |-> [q \in known \cup new |-> IF q \in there THEN val[q] ELSE cache.cached[q]],
                  missing |-> (cache.missing \ there) \cup (P \ there)]
  BY DEF set_stat
<1>2. /\ cache'.missing = (cache.missing \ there) \cup (P \ there)
      /\ DOMAIN cache'.cached = known \cup new
      /\ \A q \in known \cup new : cache'.cached[q] = IF q \in there THEN val[q] ELSE cache.cached[q]
  BY <1>1
<1> QED BY <1>2

LEMMA ExpireEffect ==
  ASSUME NEW P, cache' = expire_stat(cache, P), NEW p
  PROVE  /\ p \in cache'.missing <=> p \in cache.missing \ P
         /\ p \in DOMAIN cache'.cached <=> p \in DOMAIN cache.cached \ P
         /\ p \in DOMAIN cache'.cached => cache'.cached[p] = cache.cached[p]
BY DEF expire_stat

EntryNext(p) == p \in cache'.missing \/ p \in DOMAIN cache'.cached
CurrentNext(p) ==
  IF p \in cache'.missing THEN remote'[p] = NoFile
  ELSE p \in DOMAIN cache'.cached => cache'.cached[p] = (IF remote'[p] = NoFile THEN NoFile ELSE remote'[p].by)

LEMMA EntryNextOK ==
  ASSUME NEW p, p \notin raced' /\ EntryNext(p) => CurrentNext(p) /\ ~Doomed(p)'
  PROVE  EntryOK(p)'
BY DEF EntryOK, Entry, lookup, Current, EntryNext, CurrentNext, Stat

LEMMA CacheInit == ASSUME Init PROVE CacheOK
<1>1. DOMAIN cache.cached = {} /\ cache.missing = {}
  BY DEF Init
<1> QED BY <1>1, EntryIs DEF CacheOK, EntryOK

LEMMA CacheStep == ASSUME ClientOK, CacheOK, [Next]_vars PROVE CacheOK'
<1>0. ClientOK' /\ Effects
  BY ClientStep, NextEffect
<1>1. /\ load \in Loads /\ ThreadsOK /\ net \subseteq Requests /\ load' = load
      /\ remote \in [Paths -> RemoteFile \cup {NoFile}]
  BY <1>0 DEF ClientOK, ThreadsOK, Effects, OtherEffects, Asks, Starts, Rooms, Stores, Runs, Loses, Takes, Hands, Keeps, core
<1>2. ASSUME OtherEffects, NEW p, ~Doomed(p) PROVE ~Doomed(p)'
  <2>1. Sent' \subseteq Sent
    BY <1>0, <1>2, OthersSend
  <2> QED BY <1>2, <2>1 DEF Doomed
<1>3. CASE \E t \in Threads, o \in Requests : Starts(t, o)
  <2>1. PICK t \in Threads, o \in Requests : Starts(t, o)
    BY <1>3
  <2>2. remote' = remote /\ IF load.cache > 0
                            THEN cache' = expire_stat(cache, Expired(o)) /\ raced' = raced \ Expired(o)
                            ELSE UNCHANGED <<cache, raced>>
    BY <2>1 DEF Starts, Goes
  <2>3. CASE load.cache > 0
    <3>1. ASSUME NEW p \in Paths PROVE EntryOK(p)'
      <4>1. SUFFICES ASSUME p \notin raced', EntryNext(p) PROVE CurrentNext(p) /\ ~Doomed(p)'
        BY EntryNextOK
      <4>2. p \notin Expired(o) /\ p \notin raced /\ Entry(p)
        BY <2>2, <2>3, <4>1, ExpireEffect, EntryIs DEF EntryNext
      <4>3. Current(p) /\ ~Doomed(p)
        BY <4>2, <3>1 DEF CacheOK, EntryOK
      <4>4. CurrentNext(p)
        BY <2>2, <2>3, <4>2, <4>3, ExpireEffect DEF Current, CurrentNext, Stat
      <4>5. ~Doomed(p)'
        BY <1>0, <2>1, <4>2, <4>3, StartDooms, ExpiresChanged
      <4> QED BY <4>4, <4>5
    <3>2. load'.cache # 0
      BY <1>1, <2>3, LoadFacts
    <3> QED BY <3>1, <3>2 DEF CacheOK
  <2>4. CASE ~(load.cache > 0)
    <3>1. load.cache = 0
      BY <1>1, <2>4, LoadFacts
    <3>2. DOMAIN cache'.cached = {} /\ cache'.missing = {}
      BY <2>2, <2>4, <3>1 DEF CacheOK
    <3> QED BY <3>2, EntryNextOK DEF CacheOK, EntryNext
  <2> QED BY <2>3, <2>4
<1>4. CASE \E o \in net : Runs(o)
  <2>1. PICK o \in net : Runs(o)
    BY <1>4
  <2>2. /\ cache' = cache /\ remote' = do_op(remote, o) /\ o \in Requests /\ o \in Sent
        /\ raced' = IF o.kind \in ByXattr THEN raced \cup {o.p} ELSE raced
    BY <1>1, <2>1 DEF Runs, Sent
  <2>3. ASSUME NEW p \in Paths PROVE EntryOK(p)'
    <3>1. SUFFICES ASSUME p \notin raced', EntryNext(p) PROVE CurrentNext(p) /\ ~Doomed(p)'
      BY EntryNextOK
    <3>2. p \notin raced /\ Entry(p)
      BY <2>2, <3>1, EntryIs DEF EntryNext
    <3>3. Current(p) /\ ~Doomed(p)
      BY <3>2, <2>3 DEF CacheOK, EntryOK
    <3>4. p \notin Changed(o)
      <4>1. CASE o.kind \in ByXattr
        BY <2>2, <3>1, <4>1 DEF Changed, ByXattr
      <4>2. CASE o.kind \notin ByXattr
        BY <2>2, <3>3, <4>2 DEF Doomed
      <4> QED BY <4>1, <4>2
    <3>5. remote'[p] = remote[p]
      BY <1>1, <2>2, <3>4, RunsChanged
    <3>6. CurrentNext(p)
      BY <2>2, <3>3, <3>5 DEF Current, CurrentNext, Stat
    <3>7. ~Doomed(p)'
      <4>1. OtherEffects
        BY <2>1 DEF OtherEffects
      <4> QED BY <1>2, <3>3, <4>1
    <3> QED BY <3>6, <3>7
  <2> QED BY <1>1, <2>2, <2>3 DEF CacheOK

<1>5. CASE \E t \in Threads : Stores(t)
  <2>1. PICK t \in Threads : Stores(t)
    BY <1>5
  <2>2. PICK P \in SUBSET Paths : \E val :
          /\ load.cache = 0 => P = {}
          /\ cache' \in set_stat(cache, P, val)
          /\ raced' = (raced \ P) \cup {p \in P : p \in Dirty \/ val[p] # Stat(remote, p)}
    BY <2>1 DEF Stores
  <2>3. PICK val :
          /\ load.cache = 0 => P = {}
          /\ cache' \in set_stat(cache, P, val)
          /\ raced' = (raced \ P) \cup {p \in P : p \in Dirty \/ val[p] # Stat(remote, p)}
    BY <2>2
  <2>4. remote' = remote
    BY <2>1 DEF Stores
  <2>5. Sent \subseteq Unexecuted
    BY DEF Sent, Unexecuted
  <2>6. OtherEffects
    BY <2>1 DEF OtherEffects
  <2>7. ASSUME NEW p \in Paths PROVE EntryOK(p)'
    <3>1. SUFFICES ASSUME p \notin raced', EntryNext(p) PROVE CurrentNext(p) /\ ~Doomed(p)'
      BY EntryNextOK
    <3>2. CASE p \in P
      <4>1. p \notin Dirty /\ val[p] = Stat(remote, p)
        BY <2>3, <3>1, <3>2
      <4>2. ~Doomed(p)
        BY <2>5, <4>1 DEF Dirty, Doomed
      <4>3. remote[p] # NoFile => remote[p].by # NoFile
        BY <1>1, FuseAssumption DEF RemoteFile
      <4>4. CASE val[p] = NoFile
        <5>1. p \in cache'.missing
          BY <2>3, <3>2, <4>4, StoreEffect
        <5> QED BY <1>2, <2>4, <2>6, <4>1, <4>2, <4>3, <4>4, <5>1 DEF Stat, CurrentNext
      <4>5. CASE val[p] # NoFile
        <5>1. p \notin cache'.missing /\ (p \in DOMAIN cache'.cached => cache'.cached[p] = val[p])
          BY <2>3, <3>2, <4>5, StoreEffect
        <5> QED BY <1>2, <2>4, <2>6, <4>1, <4>2, <5>1 DEF Stat, CurrentNext
      <4> QED BY <4>4, <4>5
    <3>3. CASE p \notin P
      <4>1. /\ p \in cache'.missing <=> p \in cache.missing
            /\ p \in DOMAIN cache'.cached <=> p \in DOMAIN cache.cached
            /\ p \in DOMAIN cache.cached => cache'.cached[p] = cache.cached[p]
        BY <2>3, <3>3, StoreEffect
      <4>2. p \notin raced /\ Entry(p)
        BY <2>3, <3>1, <3>3, <4>1, EntryIs DEF EntryNext
      <4>3. Current(p) /\ ~Doomed(p)
        BY <4>2, <2>7 DEF CacheOK, EntryOK
      <4>4. CurrentNext(p)
        BY <2>4, <4>1, <4>3 DEF Current, CurrentNext, Stat
      <4> QED BY <1>2, <2>6, <4>3, <4>4
    <3> QED BY <3>2, <3>3
  <2>8. load.cache = 0 => DOMAIN cache'.cached = {} /\ cache'.missing = {}
    <3>1. SUFFICES ASSUME load.cache = 0 PROVE cache' = [cached |-> [q \in {} |-> cache.cached[q]], missing |-> {}]
      OBVIOUS
    <3>2. DOMAIN cache.cached = {} /\ cache.missing = {} /\ P = {}
      BY <2>3, <3>1 DEF CacheOK
    <3> QED BY <2>3, <3>2 DEF set_stat
  <2> QED BY <1>1, <2>7, <2>8 DEF CacheOK
<1>6. CASE OtherEffects /\ UNCHANGED <<cache, raced, remote>>
  <2>1. ASSUME NEW p \in Paths PROVE EntryOK(p)'
    <3>1. SUFFICES ASSUME p \notin raced', EntryNext(p) PROVE CurrentNext(p) /\ ~Doomed(p)'
      BY EntryNextOK
    <3>2. Current(p) /\ ~Doomed(p)
      BY <1>6, <2>1, <3>1, EntryIs DEF CacheOK, EntryOK, EntryNext
    <3> QED BY <1>2, <1>6, <3>2 DEF Current, CurrentNext, Stat
  <2> QED BY <1>1, <1>6, <2>1 DEF CacheOK
<1>7. ASSUME OtherEffects
      PROVE  \/ UNCHANGED <<cache, raced, remote>>
             \/ \E t \in Threads : Stores(t)
             \/ \E o \in net : Runs(o)
  BY <1>7 DEF OtherEffects, Asks, Rooms, Loses, Takes, Hands, Keeps, core
<1> QED BY <1>0, <1>3, <1>4, <1>5, <1>6, <1>7 DEF Effects

(* What getattr answers from the cache is what the proxy has, when no      *)
(* change is under way, unless it was stored during a change or the change *)
(* was one of extended attributes.                                         *)
THEOREM CacheIsCurrent == Spec => []StatCurrentUnlessRaced
<1>1. Init => ClientOK /\ CacheOK
  BY ClientInit, CacheInit
<1>2. ClientOK /\ CacheOK /\ [Next]_vars => (ClientOK /\ CacheOK)'
  BY ClientStep, CacheStep
<1>3. CacheOK => StatCurrentUnlessRaced
  BY EntryIs DEF CacheOK, EntryOK, Current, StatCurrentUnlessRaced, lookup
<1> QED BY <1>1, <1>2, <1>3, PTL DEF Spec

-----------------------------------------------------------------------------
(* Queued writes: the last buffer that covers a sector, along the line,    *)
(* the dispatcher's batch, the requests on link and the file at the proxy, *)
(* carries what was written to the sector last.                            *)

Covers(o, p, s) == o.kind = "write" /\ o.p = p /\ s \in Span(o)
ValueAt(o, s) == o.vals[s - o.s + 1]
NoCover(q, p, s) == \A i \in DOMAIN q : ~Covers(q[i], p, s)
LastGives(q, p, s, v) ==
  \A n \in DOMAIN q :
    Covers(q[n], p, s) /\ (\A m \in DOMAIN q : m > n => ~Covers(q[m], p, s)) => ValueAt(q[n], s) = v
Lands(n, r, p, s, v) ==
  /\ \A o \in n : Covers(o, p, s) => ValueAt(o, s) = v
  /\ (\A o \in n : ~Covers(o, p, s)) => Sector(r, p, s) = v
Carries(l, b, n, r, p, s, v) ==
  /\ LastGives(l, p, s, v)
  /\ NoCover(l, p, s) => LastGives(b, p, s, v)
  /\ NoCover(l, p, s) /\ NoCover(b, p, s) => Lands(n, r, p, s, v)
Apart(n, p) ==
  \A a, b \in n : a # b /\ a.kind = "write" /\ b.kind = "write" /\ a.p = p /\ b.p = p =>
    Span(a) \cap Span(b) = {}

WritesOK ==
  IF load.async
  THEN \A p \in Paths \ crossed :
         /\ Apart(net, p)
         /\ \A s \in Sectors : want[p][s] # 0 => Carries(line, batch, net, remote, p, s, want[p][s])
  ELSE \A p \in Paths, s \in Sectors : want[p][s] = 0

LEMMA OneSector ==
  ASSUME NEW o \in Writes, o.vals = <<o.id>>, NEW p \in Paths, NEW s \in Sectors
  PROVE  /\ Covers(o, p, s) <=> p = o.p /\ s = o.s
         /\ ValueAt(o, o.s) = o.id
<1>1. o.kind = "write" /\ o.s \in Sectors /\ Sectors \subseteq Nat
  BY FuseAssumption DEF Writes, Requests
<1>2. o.s \in Nat /\ s \in Nat /\ Len(o.vals) = 1
  BY <1>1
<1> QED BY <1>1, <1>2 DEF Covers, Span, ValueAt

LEMMA AppendGives ==
  ASSUME NEW q \in Seq(Writes), NEW o \in Writes, o.vals = <<o.id>>, NEW p \in Paths, NEW s \in Sectors,
         NEW v, NEW r, r = Append(q, o)
  PROVE  /\ p = o.p /\ s = o.s => LastGives(r, p, s, o.id) /\ ~NoCover(r, p, s)
         /\ p # o.p \/ s # o.s => /\ LastGives(q, p, s, v) => LastGives(r, p, s, v)
                                  /\ NoCover(r, p, s) <=> NoCover(q, p, s)
<1> DEFINE n == Len(q)
<1>1. /\ n \in Nat /\ DOMAIN q = 1 .. n /\ DOMAIN r = 1 .. n + 1 /\ r[n + 1] = o
      /\ \A i \in 1 .. n : r[i] = q[i]
  OBVIOUS
<1> HIDE DEF n
<1>2. CASE p = o.p /\ s = o.s
  <2>1. Covers(r[n + 1], p, s) /\ ValueAt(r[n + 1], s) = o.id
    BY <1>1, <1>2, OneSector
  <2> QED BY <1>1, <1>2, <2>1 DEF LastGives, NoCover
<1>3. CASE p # o.p \/ s # o.s
  <2>1. ~Covers(r[n + 1], p, s)
    BY <1>1, <1>3, OneSector
  <2> QED BY <1>1, <1>3, <2>1 DEF LastGives, NoCover
<1> QED BY <1>2, <1>3

LEMMA ExtendGives ==
  ASSUME line \in Seq(Writes), NEW o \in Writes, o.vals = <<o.id>>, Extends(o),
         NEW p \in Paths, NEW s \in Sectors, NEW v
  PROVE  /\ p = o.p /\ s = o.s => LastGives(line', p, s, o.id) /\ ~NoCover(line', p, s)
         /\ p # o.p \/ s # o.s => /\ LastGives(line, p, s, v) => LastGives(line', p, s, v)
                                  /\ NoCover(line', p, s) <=> NoCover(line, p, s)
<1> DEFINE n == Len(line)
           a == line[n]
           b == line'[n]
           k == Len(a.vals)
<1>1. /\ n \in Nat /\ n > 0 /\ DOMAIN line = 1 .. n /\ DOMAIN line' = 1 .. n
      /\ \A i \in 1 .. n - 1 : line'[i] = line[i]
      /\ a \in Writes /\ b \in Writes
      /\ b.p = a.p /\ b.s = a.s /\ Len(b.vals) = k + 1 /\ (\A j \in 1 .. k : b.vals[j] = a.vals[j])
      /\ b.vals[k + 1] = o.id /\ a.p = o.p /\ a.s + k = o.s
  BY DEF Extends
<1>2. /\ a.s \in Nat /\ k \in Nat /\ s \in Nat /\ a.kind = "write" /\ b.kind = "write"
      /\ k = Len(a.vals)
  <2>1. Sectors \subseteq Nat
    BY FuseAssumption
  <2>2. a \in Requests /\ a.kind = "write" /\ b.kind = "write"
    BY <1>1 DEF Writes
  <2>3. a.s \in Sectors /\ a.vals \in Seq(Ids)
    BY <2>2 DEF Requests
  <2>4. k \in Nat
    BY <2>3
  <2> QED BY <2>1, <2>2, <2>3, <2>4
<1>3. line'[n] = b /\ line[n] = a
  OBVIOUS
<1> HIDE DEF n, a, b, k
<1>4. Covers(b, p, s) <=> Covers(a, p, s) \/ (p = o.p /\ s = o.s)
  <2>1. /\ Covers(a, p, s) <=> a.p = p /\ s \in a.s .. a.s + k - 1
        /\ Covers(b, p, s) <=> b.p = p /\ s \in b.s .. b.s + (k + 1) - 1
    BY <1>1, <1>2 DEF Covers, Span
  <2>2. s \in b.s .. b.s + (k + 1) - 1 <=> s \in a.s .. a.s + k - 1 \/ s = o.s
    <3>1. b.s = a.s /\ a.s + k = o.s /\ a.s \in Nat /\ k \in Nat /\ s \in Nat
      BY <1>1, <1>2
    <3> QED BY <3>1
  <2>3. b.p = a.p /\ a.p = o.p
    BY <1>1
  <2> QED BY <2>1, <2>2, <2>3
<1>5. CASE p = o.p /\ s = o.s
  <2>1. Covers(b, p, s) /\ s - b.s + 1 = k + 1
    BY <1>1, <1>2, <1>4, <1>5
  <2>2. ValueAt(b, s) = o.id
    BY <1>1, <2>1 DEF ValueAt
  <2> QED BY <1>1, <1>3, <1>5, <2>1, <2>2 DEF LastGives, NoCover
<1>6. CASE p # o.p \/ s # o.s
  <2>1. Covers(b, p, s) <=> Covers(a, p, s)
    BY <1>4, <1>6
  <2>2. Covers(a, p, s) => ValueAt(b, s) = ValueAt(a, s)
    <3>1. SUFFICES ASSUME Covers(a, p, s) PROVE b.vals[s - b.s + 1] = a.vals[s - a.s + 1]
      BY DEF ValueAt
    <3>2. s \in a.s .. a.s + k - 1
      BY <1>2, <3>1 DEF Covers, Span
    <3>3. s - a.s + 1 \in 1 .. k
      BY <1>2, <3>2
    <3> QED BY <1>1, <3>3
  <2>3. \A i \in 1 .. n : /\ Covers(line'[i], p, s) <=> Covers(line[i], p, s)
                          /\ Covers(line[i], p, s) => ValueAt(line'[i], s) = ValueAt(line[i], s)
    <3>1. SUFFICES ASSUME NEW i \in 1 .. n
                   PROVE  /\ Covers(line'[i], p, s) <=> Covers(line[i], p, s)
                          /\ Covers(line[i], p, s) => ValueAt(line'[i], s) = ValueAt(line[i], s)
      OBVIOUS
    <3>2. CASE i = n
      BY <1>3, <2>1, <2>2, <3>2
    <3>3. CASE i # n
      <4>1. line'[i] = line[i]
        BY <1>1, <3>3
      <4> QED BY <4>1
    <3> QED BY <3>2, <3>3
  <2> QED BY <1>1, <1>6, <2>3 DEF LastGives, NoCover
<1> QED BY <1>5, <1>6

LEMMA TailGives ==
  ASSUME NEW q \in Seq(Writes), q # <<>>, NEW p \in Paths, NEW s \in Sectors, NEW v, LastGives(q, p, s, v)
  PROVE  /\ LastGives(Tail(q), p, s, v)
         /\ NoCover(Tail(q), p, s) /\ Covers(Head(q), p, s) => ValueAt(Head(q), s) = v
         /\ NoCover(Tail(q), p, s) /\ ~Covers(Head(q), p, s) => NoCover(q, p, s)
<1> DEFINE n == Len(q)
           r == Tail(q)
<1>1. /\ n \in Nat /\ n > 0 /\ DOMAIN q = 1 .. n /\ DOMAIN r = 1 .. n - 1
      /\ \A i \in 1 .. n - 1 : r[i] = q[i + 1]
      /\ Head(q) = q[1]
  OBVIOUS
<1> HIDE DEF n, r
<1>2. \A i \in 2 .. n : q[i] = r[i - 1] /\ i - 1 \in 1 .. n - 1
  <2>1. SUFFICES ASSUME NEW i \in 2 .. n PROVE q[i] = r[i - 1] /\ i - 1 \in 1 .. n - 1
    OBVIOUS
  <2>2. i - 1 \in 1 .. n - 1 /\ (i - 1) + 1 = i
    BY <1>1
  <2> QED BY <1>1, <2>2
<1>3. LastGives(r, p, s, v)
  <2>1. SUFFICES ASSUME NEW i \in 1 .. n - 1, Covers(r[i], p, s),
                        \A m \in 1 .. n - 1 : m > i => ~Covers(r[m], p, s)
                 PROVE  ValueAt(r[i], s) = v
    BY <1>1 DEF LastGives
  <2>2. r[i] = q[i + 1] /\ i + 1 \in 1 .. n
    BY <1>1
  <2>3. \A m \in 1 .. n : m > i + 1 => ~Covers(q[m], p, s)
    BY <1>1, <1>2, <2>1
  <2> QED BY <1>1, <2>1, <2>2, <2>3 DEF LastGives
<1>4. NoCover(r, p, s) => \A m \in 1 .. n : m > 1 => ~Covers(q[m], p, s)
  BY <1>1, <1>2 DEF NoCover
<1>5. 1 \in 1 .. n /\ \A m \in 1 .. n : m = 1 \/ m > 1
  BY <1>1
<1>6. NoCover(r, p, s) /\ Covers(q[1], p, s) => ValueAt(q[1], s) = v
  BY <1>1, <1>4, <1>5 DEF LastGives
<1>7. NoCover(r, p, s) /\ ~Covers(q[1], p, s) => NoCover(q, p, s)
  BY <1>1, <1>4, <1>5 DEF NoCover
<1> QED BY <1>1, <1>3, <1>6, <1>7 DEF r

\* A sector after a write was executed.
LEMMA WriteLands ==
  ASSUME remote \in [Paths -> RemoteFile \cup {NoFile}], NEW o \in Writes, remote[o.p] # NoFile,
         NEW s \in Sectors, NEW v \in Nat \ {0}
  PROVE  /\ Covers(o, o.p, s) => Sector(do_op(remote, o), o.p, s) = ValueAt(o, s)
         /\ ~Covers(o, o.p, s) /\ Sector(remote, o.p, s) = v => Sector(do_op(remote, o), o.p, s) = v
<1> DEFINE f == remote[o.p]
           w == Len(o.vals)
           d == Len(f.data)
           m == IF d < o.s + w THEN o.s + w ELSE d
           e(n) == IF n - 1 \in Span(o) THEN o.vals[n - o.s] ELSE IF n <= d THEN f.data[n] ELSE 0
           g == [by |-> o.id, data |-> [n \in 1 .. m |-> e(n)]]
<1>1. o \in Requests /\ o.kind = "write"
  BY DEF Writes
<1>2. Sectors \subseteq Nat /\ NoFile \notin RemoteFile
  BY FuseAssumption
<1>3. o.s \in Nat /\ s \in Nat /\ w \in Nat /\ o.p \in Paths
  <2>1. o.s \in Sectors /\ o.p \in Paths /\ o.vals \in Seq(Ids)
    BY <1>1 DEF Requests
  <2>2. w \in Nat
    BY <2>1
  <2>3. o.s \in Nat /\ s \in Nat
    BY <1>2, <2>1
  <2> QED BY <2>1, <2>2, <2>3
<1>4. f \in RemoteFile /\ f.data \in Seq(Nat) /\ d \in Nat
  BY <1>3 DEF RemoteFile
<1>5. g = pwrite(f, o)
  BY DEF pwrite
<1>6. do_op(remote, o) = [remote EXCEPT ![o.p] = pwrite(f, o)]
  BY <1>1 DEF do_op, Making, Removing, Touching
<1>7. do_op(remote, o)[o.p] = g
  BY <1>3, <1>5, <1>6
<1>8. g \in RemoteFile
  <2>1. do_op(remote, o)[o.p] \in RemoteFile \cup {NoFile}
    BY <1>1, <1>3, FilesStay
  <2>2. ASSUME NEW n \in 1 .. m PROVE e(n) \in Nat
    <3>1. CASE n - 1 \in Span(o)
      <4>1. n - o.s \in 1 .. w /\ o.vals \in Seq(Ids)
        BY <1>1, <1>3, <1>4, <3>1 DEF Span, Requests
      <4>2. o.vals[n - o.s] \in Ids
        BY <4>1
      <4> QED BY <3>1, <4>2 DEF Ids
    <3>2. CASE n - 1 \notin Span(o)
      BY <1>3, <1>4, <3>2
    <3> QED BY <3>1, <3>2
  <2>3. m \in Nat
    BY <1>3, <1>4
  <2> HIDE DEF e, m
  <2>4. [n \in 1 .. m |-> e(n)] \in Seq(Nat)
    BY <2>2, <2>3
  <2>5. o.id \in Nat
    BY <1>1 DEF Requests, Ids
  <2> QED BY <2>4, <2>5 DEF RemoteFile
<1>9. g.data \in Seq(Nat) /\ DOMAIN g.data = 1 .. m /\ \A n \in 1 .. m : g.data[n] = e(n)
  BY <1>8 DEF RemoteFile
<1>10. Len(g.data) = m
  <2>1. m \in Nat /\ Len(g.data) \in Nat /\ DOMAIN g.data = 1 .. Len(g.data)
    BY <1>3, <1>4, <1>9
  <2> HIDE DEF g, m
  <2> QED BY <1>9, <2>1
<1>11. g # NoFile
  BY <1>2, <1>8
<1>12. PICK k \in Nat : k = s + 1 /\ k - 1 = s /\ k - o.s = s - o.s + 1
  BY <1>3
<1>13. Sector(do_op(remote, o), o.p, s) = IF s < m THEN e(k) ELSE Eof
  <2>1. s < m => k \in 1 .. m
    BY <1>3, <1>4, <1>12
  <2>2. Sector(do_op(remote, o), o.p, s) = IF s < Len(g.data) THEN g.data[k] ELSE Eof
    BY <1>7, <1>11, <1>12 DEF Sector
  <2> HIDE DEF g, m, e
  <2> QED BY <1>9, <1>10, <2>1, <2>2
<1>14. Sector(remote, o.p, s) = IF s < d THEN f.data[k] ELSE Eof
  BY <1>12 DEF Sector
<1>15. Covers(o, o.p, s) <=> s >= o.s /\ s < o.s + w
  <2>1. Covers(o, o.p, s) <=> s \in o.s .. o.s + w - 1
    BY <1>1 DEF Covers, Span
  <2>2. s \in o.s .. o.s + w - 1 <=> s >= o.s /\ s < o.s + w
    <3> HIDE DEF w
    <3> QED BY <1>3
  <2> QED BY <2>1, <2>2, Zenon
<1>16. s \in Span(o) <=> Covers(o, o.p, s)
  BY <1>1 DEF Covers
<1>17. CASE Covers(o, o.p, s)
  <2>1. s < m
    BY <1>3, <1>4, <1>15, <1>17
  <2>2. e(k) = o.vals[k - o.s]
    <3> HIDE DEF d, f
    <3> QED BY <1>12, <1>16, <1>17
  <2> HIDE DEF e, m
  <2> QED BY <1>12, <1>13, <1>17, <2>1, <2>2 DEF ValueAt
<1>18. CASE ~Covers(o, o.p, s) /\ Sector(remote, o.p, s) = v
  <2>1. s < d /\ v = f.data[k]
    <3> HIDE DEF d, f
    <3> QED BY <1>14, <1>18 DEF Eof
  <2>2. s < m /\ k <= d
    BY <1>3, <1>4, <1>12, <1>15, <1>18, <2>1
  <2>3. e(k) = f.data[k]
    <3> HIDE DEF d, f
    <3> QED BY <1>12, <1>16, <1>18, <2>2
  <2> HIDE DEF e, m
  <2> QED BY <1>13, <1>18, <2>1, <2>2, <2>3
<1> QED BY <1>17, <1>18

LEMMA WritesInit == ASSUME Init PROVE WritesOK
<1>1. ClientOK
  BY ClientInit
<1>2. want = [p \in Paths |-> [s \in Sectors |-> 0]] /\ net = {}
  BY DEF Init
<1> QED BY <1>2 DEF WritesOK, Apart

WrittenNext(p) ==
  /\ Apart(net', p)
  /\ \A s \in Sectors : want'[p][s] # 0 => Carries(line', batch', net', remote', p, s, want'[p][s])

LEMMA WrittenNextOK ==
  ASSUME load' = load, load.async, \A p \in Paths \ crossed' : WrittenNext(p)
  PROVE  WritesOK'
BY DEF WritesOK, WrittenNext

\* A write enters the queue.
LEMMA EntryKeeps ==
  ASSUME ClientOK, WritesOK, load' = load, load.async, NEW o \in Writes, o.vals = <<o.id>>,
         (Appends(o) \/ Extends(o)) /\ UNCHANGED <<net, remote, crossed>>,
         want' = [want EXCEPT ![o.p][o.s] = o.id]
  PROVE  WritesOK'
<1>1. line \in Seq(Writes) /\ o \in Requests /\ want \in [Paths -> [Sectors -> Nat]] /\ batch' = batch
  BY WritesInQueue DEF ClientOK, QueueOK, Appends, Extends
<1>2. ASSUME NEW p \in Paths \ crossed', NEW s \in Sectors, want'[p][s] # 0
      PROVE  Carries(line', batch', net', remote', p, s, want'[p][s])
  <2>1. CASE p = o.p /\ s = o.s
    <3>1. want'[p][s] = o.id
      BY <1>1, <2>1, WantStays
    <3>2. LastGives(line', p, s, o.id) /\ ~NoCover(line', p, s)
      BY <1>1, <2>1, AppendGives, ExtendGives DEF Appends
    <3> QED BY <3>1, <3>2 DEF Carries
  <2>2. CASE p # o.p \/ s # o.s
    <3>1. want'[p][s] = want[p][s]
      BY <1>1, <2>2, WantStays
    <3> DEFINE v == want[p][s]
    <3>2. Carries(line, batch, net, remote, p, s, v)
      BY <1>2, <3>1 DEF WritesOK
    <3> HIDE DEF v
    <3>3. LastGives(line', p, s, v) /\ (NoCover(line', p, s) <=> NoCover(line, p, s))
      BY <1>1, <2>2, <3>2, AppendGives, ExtendGives DEF Carries, Appends
    <3>4. Carries(line', batch', net', remote', p, s, v)
      BY <1>1, <3>2, <3>3 DEF Carries
    <3> QED BY <3>1, <3>4 DEF v
  <2> QED BY <2>1, <2>2
<1>3. \A p \in Paths \ crossed' : WrittenNext(p)
  BY <1>2 DEF WritesOK, WrittenNext
<1> QED BY <1>3, WrittenNextOK

\* The proxy executes a request.
LEMMA RunKeeps ==
  ASSUME ClientOK, WritesOK, load' = load, load.async, NEW o \in net, Runs(o)
  PROVE  WritesOK'
<1>1. /\ line' = line /\ batch' = batch /\ net' = net \ {o} /\ remote' = do_op(remote, o)
      /\ o \in Requests /\ remote \in [Paths -> RemoteFile \cup {NoFile}]
      /\ want \in [Paths -> [Sectors -> Nat]] /\ crossed \subseteq crossed'
  BY DEF Runs, ClientOK
<1>2. ASSUME NEW p \in Paths \ crossed', NEW s \in Sectors, want'[p][s] # 0
      PROVE  Carries(line', batch', net', remote', p, s, want'[p][s])
  <2> DEFINE v == want[p][s]
  <2>1. want'[p][s] = v /\ ~(o.kind # "write" /\ p \in Changed(o))
    BY <1>1, <1>2 DEF Runs
  <2>2. v \in Nat \ {0} /\ Carries(line, batch, net, remote, p, s, v) /\ Apart(net, p)
    BY <1>1, <1>2, <2>1 DEF WritesOK
  <2> HIDE DEF v
  <2>3. SUFFICES ASSUME Lands(net, remote, p, s, v)
                 PROVE  Lands(net', remote', p, s, v)
    BY <1>1, <2>1, <2>2 DEF Carries
  <2>4. CASE o.kind = "write" /\ o.p = p
    <3>1. o \in Writes /\ Changed(o) = {p}
      BY <1>1, <2>4, WritesInQueue, WriteChanges
    <3>2. remote[o.p] # NoFile
      BY <1>2, <2>4, <3>1 DEF Runs
    <3>3. CASE Covers(o, p, s)
      <4>1. \A a \in net' : ~Covers(a, p, s)
        BY <1>1, <2>2, <2>4, <3>3 DEF Apart, Covers
      <4>2. Sector(remote', p, s) = ValueAt(o, s)
        BY <1>1, <2>2, <2>4, <3>1, <3>2, <3>3, WriteLands
      <4> QED BY <2>3, <3>3, <4>1, <4>2 DEF Lands
    <3>4. CASE ~Covers(o, p, s)
      <4>1. (\A a \in net' : ~Covers(a, p, s)) => Sector(remote, p, s) = v
        BY <1>1, <2>3, <3>4 DEF Lands
      <4>2. Sector(remote, p, s) = v => Sector(remote', p, s) = v
        BY <1>1, <2>2, <2>4, <3>1, <3>2, <3>4, WriteLands
      <4> QED BY <1>1, <2>3, <4>1, <4>2 DEF Lands
    <3> QED BY <3>3, <3>4
  <2>5. CASE o.kind # "write" \/ o.p # p
    <3>1. p \notin Changed(o)
      BY <1>1, <2>1, <2>5, WriteChanges, WritesInQueue
    <3>2. remote'[p] = remote[p]
      BY <1>1, <3>1, RunsChanged
    <3>3. ~Covers(o, p, s) /\ Sector(remote', p, s) = Sector(remote, p, s)
      BY <2>5, <3>2 DEF Covers, Sector
    <3> QED BY <1>1, <2>3, <3>3 DEF Lands
  <2> QED BY <2>4, <2>5
<1>3. \A p \in Paths \ crossed' : WrittenNext(p)
  BY <1>1, <1>2 DEF WritesOK, WrittenNext, Apart
<1> QED BY <1>3, WrittenNextOK

\* The dispatcher hands a buffer to a worker, which submits it.
LEMMA HandKeeps ==
  ASSUME ClientOK, WritesOK, load' = load, load.async, Hands
  PROVE  WritesOK'
<1> DEFINE b == Head(batch)
<1>1. /\ batch \in Seq(Writes) /\ batch # <<>> /\ batch' = Tail(batch) /\ net' = net \cup {b}
      /\ UNCHANGED <<line, remote, want>> /\ crossed \subseteq crossed' /\ b \in Writes
      /\ want \in [Paths -> [Sectors -> Nat]]
  BY DEF Hands, ClientOK, QueueOK
<1>2. b.p \notin crossed' => \A o \in net : o.kind = "write" /\ o.p = b.p => Span(o) \cap Span(b) = {}
  BY DEF Hands
<1>3. b.kind = "write" /\ DOMAIN batch' \subseteq Nat
  BY <1>1 DEF Writes
<1> HIDE DEF b
<1>4. ASSUME NEW p \in Paths \ crossed' PROVE Apart(net', p)
  BY <1>1, <1>2, <1>4 DEF WritesOK, Apart
<1>5. ASSUME NEW p \in Paths \ crossed', NEW s \in Sectors, want'[p][s] # 0
      PROVE  Carries(line', batch', net', remote', p, s, want'[p][s])
  <2> DEFINE v == want[p][s]
  <2>1. Carries(line, batch, net, remote, p, s, v)
    BY <1>1, <1>5 DEF WritesOK
  <2> HIDE DEF v
  <2>2. SUFFICES ASSUME NoCover(line, p, s)
                 PROVE  /\ LastGives(batch', p, s, v)
                        /\ NoCover(batch', p, s) => Lands(net', remote, p, s, v)
    BY <1>1, <2>1 DEF Carries, v
  <2>3. LastGives(batch, p, s, v)
    BY <2>1, <2>2 DEF Carries
  <2>4. /\ LastGives(batch', p, s, v)
        /\ NoCover(batch', p, s) /\ Covers(b, p, s) => ValueAt(b, s) = v
        /\ NoCover(batch', p, s) /\ ~Covers(b, p, s) => NoCover(batch, p, s)
    BY <1>1, <2>3, TailGives DEF b
  <2>5. ASSUME NoCover(batch', p, s), Covers(b, p, s) PROVE Lands(net', remote, p, s, v)
    <3>1. \A o \in net : ~Covers(o, p, s)
      BY <1>2, <1>5, <2>5 DEF Covers
    <3> QED BY <1>1, <2>4, <2>5, <3>1 DEF Lands
  <2>6. ASSUME NoCover(batch', p, s), ~Covers(b, p, s) PROVE Lands(net', remote, p, s, v)
    <3>1. Lands(net, remote, p, s, v)
      BY <2>1, <2>2, <2>4, <2>6 DEF Carries
    <3> QED BY <1>1, <2>6, <3>1 DEF Lands
  <2> QED BY <2>4, <2>5, <2>6
<1>6. \A p \in Paths \ crossed' : WrittenNext(p)
  BY <1>4, <1>5 DEF WrittenNext
<1> QED BY <1>6, WrittenNextOK

\* In synchronous mode nothing is queued.
LEMMA SynchronousKeeps ==
  ASSUME ClientOK, WritesOK, load' = load, ~load.async, Effects
  PROVE  WritesOK'
<1>1. \A p \in Paths, s \in Sectors : want[p][s] = 0
  BY DEF WritesOK
<1>2. SUFFICES \A p \in Paths, s \in Sectors : want'[p][s] = 0
  BY DEF WritesOK
<1>3. CASE \E t \in Threads : Rooms(t)
  BY <1>3 DEF Rooms, ClientOK, ThreadOK
<1>4. CASE \E o \in net : Runs(o)
  BY <1>1, <1>4 DEF Runs
<1>5. CASE want' = want
  BY <1>1, <1>5
<1>6. \/ \E t \in Threads : Rooms(t)
      \/ \E o \in net : Runs(o)
      \/ want' = want
  BY DEF Effects, OtherEffects, Asks, Starts, Goes, Queues, Sends, Stores, Loses, Takes, Hands, Keeps, core
<1> QED BY <1>3, <1>4, <1>5, <1>6

LEMMA WritesStep == ASSUME ClientOK, WritesOK, [Next]_vars PROVE WritesOK'
<1>1. Effects
  BY NextEffect
<1>2. /\ ThreadsOK /\ net \subseteq Requests /\ load' = load
  BY <1>1 DEF ClientOK, ThreadsOK, Effects, OtherEffects, Asks, Starts, Rooms, Stores, Runs, Loses,
              Takes, Hands, Keeps, core
<1>3. SUFFICES ASSUME load.async PROVE WritesOK'
  BY <1>1, <1>2, SynchronousKeeps
<1>4. CASE UNCHANGED <<net, line, batch, remote, want>> /\ crossed \subseteq crossed'
  BY <1>2, <1>3, <1>4 DEF WritesOK
<1>5. CASE \E t \in Threads, o \in Requests : Starts(t, o)
  <2>1. PICK t \in Threads, o \in Requests : Starts(t, o)
    BY <1>5
  <2>2. CASE Sends(t, o)
    <3>1. /\ UNCHANGED <<line, batch, want, remote, crossed>> /\ o.kind # "write"
          /\ net' = net \cup {o} \/ net' = net
      BY <1>3, <2>1, <2>2 DEF Sends, Starts
    <3>2. \A p, s : ~Covers(o, p, s)
      BY <3>1 DEF Covers
    <3>3. ASSUME NEW p \in Paths \ crossed' PROVE WrittenNext(p)
      <4>1. Apart(net', p)
        BY <1>3, <3>1, <3>3 DEF WritesOK, Apart
      <4>2. ASSUME NEW s \in Sectors, want'[p][s] # 0
            PROVE  Carries(line', batch', net', remote', p, s, want'[p][s])
        <5> DEFINE v == want[p][s]
        <5>1. Carries(line, batch, net, remote, p, s, v) /\ want'[p][s] = v
          BY <1>3, <3>1, <3>3, <4>2 DEF WritesOK
        <5> HIDE DEF v
        <5> QED BY <3>1, <3>2, <5>1 DEF Carries, Lands
      <4> QED BY <4>1, <4>2 DEF WrittenNext
    <3> QED BY <1>2, <1>3, <3>3, WrittenNextOK
  <2>3. CASE Queues(t, o)
    <3>1. o \in Writes /\ UNCHANGED <<net, remote, crossed>> /\ o.vals = <<o.id>>
      BY <2>1, <2>3, WritesInQueue DEF Queues, Starts
    <3>2. CASE UNCHANGED <<line, batch, want>>
      BY <1>2, <1>3, <3>1, <3>2 DEF WritesOK
    <3>3. CASE (Appends(o) \/ Extends(o)) /\ want' = [want EXCEPT ![o.p][o.s] = o.id]
      BY <1>2, <1>3, <3>1, <3>3, EntryKeeps
    <3> QED BY <2>3, <3>2, <3>3 DEF Queues
  <2> QED BY <2>1, <2>2, <2>3 DEF Starts, Goes
<1>6. CASE \E t \in Threads : Rooms(t)
  <2>1. PICK t \in Threads : Rooms(t)
    BY <1>6
  <2> DEFINE o == th[t].o
  <2>2. o \in Writes /\ o.vals = <<o.id>>
    BY <1>2, <2>1, WritesInQueue DEF Rooms, ThreadsOK, ThreadOK
  <2>3. Appends(o) /\ want' = [want EXCEPT ![o.p][o.s] = o.id] /\ UNCHANGED <<net, remote, crossed>>
    BY <2>1 DEF Rooms
  <2> HIDE DEF o
  <2> QED BY <1>2, <1>3, <2>2, <2>3, EntryKeeps
<1>7. CASE \E o \in net : Runs(o)
  BY <1>2, <1>3, <1>7, RunKeeps
<1>8. CASE \E o \in net : Loses(o)
  <2>1. PICK o \in net : Loses(o)
    BY <1>8
  <2>2. UNCHANGED <<line, batch, want, remote>> /\ net' = net \ {o} /\ crossed \subseteq crossed'
    BY <2>1 DEF Loses
  <2>3. ASSUME NEW p \in Paths \ crossed' PROVE WrittenNext(p)
    <3>1. Apart(net', p)
      BY <1>3, <2>2, <2>3 DEF WritesOK, Apart
    <3>2. \A s : ~Covers(o, p, s)
      BY <2>1, <2>3 DEF Loses, Covers
    <3>3. ASSUME NEW s \in Sectors, want'[p][s] # 0
          PROVE  Carries(line', batch', net', remote', p, s, want'[p][s])
      <4> DEFINE v == want[p][s]
      <4>1. Carries(line, batch, net, remote, p, s, v) /\ want'[p][s] = v
        BY <1>3, <2>2, <2>3, <3>3 DEF WritesOK
      <4> HIDE DEF v
      <4> QED BY <2>2, <3>2, <4>1 DEF Carries, Lands
    <3> QED BY <3>1, <3>3 DEF WrittenNext
  <2> QED BY <1>2, <1>3, <2>3, WrittenNextOK
<1>9. CASE Takes
  <2>1. /\ batch = <<>> /\ batch' = line /\ line' = <<>> /\ UNCHANGED <<net, remote, want, crossed>>
    BY <1>9 DEF Takes
  <2>2. \A p, s, v : NoCover(batch, p, s) /\ NoCover(line', p, s) /\ LastGives(line', p, s, v)
    BY <2>1 DEF NoCover, LastGives
  <2>3. ASSUME NEW p, NEW s, NEW v, Carries(line, batch, net, remote, p, s, v)
        PROVE  Carries(line', batch', net', remote', p, s, v)
    BY <2>1, <2>2, <2>3 DEF Carries
  <2>4. \A p \in Paths \ crossed' : WrittenNext(p)
    BY <1>3, <2>1, <2>3 DEF WritesOK, WrittenNext
  <2> QED BY <1>2, <1>3, <2>4, WrittenNextOK
<1>10. CASE Hands
  BY <1>2, <1>3, <1>10, HandKeeps
<1>11. \/ UNCHANGED <<net, line, batch, remote, want>> /\ crossed \subseteq crossed'
       \/ \E t \in Threads, o \in Requests : Starts(t, o)
       \/ \E t \in Threads : Rooms(t)
       \/ \E o \in net : Runs(o)
       \/ \E o \in net : Loses(o)
       \/ Takes
       \/ Hands
  BY <1>1 DEF Effects, OtherEffects, Asks, Stores, Keeps, core
<1> QED BY <1>4, <1>5, <1>6, <1>7, <1>8, <1>9, <1>10, <1>11

(* When all is quiet, each sector holds what was written to it last in     *)
(* asynchronous mode, unless its writes lost their order or got lost.      *)
THEOREM QueuedWritesLand == Spec => []WritesLandUnlessCrossed
<1>1. Init => ClientOK /\ WritesOK
  BY ClientInit, WritesInit
<1>2. ClientOK /\ WritesOK /\ [Next]_vars => (ClientOK /\ WritesOK)'
  BY ClientStep, WritesStep
<1>3. ClientOK /\ WritesOK => WritesLandUnlessCrossed
  <2>1. SUFFICES ASSUME ClientOK, WritesOK, Unexecuted = {}, NEW p \in Paths \ crossed, NEW s \in Sectors,
                        want[p][s] # 0
                 PROVE  Sector(remote, p, s) = want[p][s]
    BY DEF WritesLandUnlessCrossed
  <2>2. net = {} /\ line = <<>> /\ batch = <<>>
    <3>1. net = {} /\ ToSet(line) = {} /\ ToSet(batch) = {}
      BY <2>1 DEF Unexecuted
    <3>2. line \in Seq(Writes) /\ batch \in Seq(Writes)
      BY <2>1 DEF ClientOK, QueueOK
    <3>3. ASSUME NEW q \in Seq(Writes), ToSet(q) = {} PROVE q = <<>>
      <4>1. DOMAIN q = {}
        BY <3>3 DEF ToSet
      <4> QED BY <4>1
    <3> QED BY <3>1, <3>2, <3>3
  <2>3. Carries(line, batch, net, remote, p, s, want[p][s])
    BY <2>1 DEF WritesOK
  <2>4. NoCover(line, p, s) /\ NoCover(batch, p, s)
    BY <2>2 DEF NoCover
  <2> QED BY <2>2, <2>3, <2>4 DEF Carries, Lands
<1> QED BY <1>1, <1>2, <1>3, PTL DEF Spec

-----------------------------------------------------------------------------
(* The length of the queue: what the line, the dispatcher and the workers  *)
(* hold, counted by buffers and the sectors in them.                       *)

UnitsOf(B) == UNION {{b} \X DOMAIN b.vals : b \in B}

LEMMA UnitsOne ==
  ASSUME NEW b, b.vals \in Seq(Ids)
  PROVE  IsFiniteSet({b} \X DOMAIN b.vals) /\ Cardinality({b} \X DOMAIN b.vals) = Len(b.vals)
<1> DEFINE n == Len(b.vals)
           D == 1 .. n
           f == [k \in D |-> <<b, k>>]
<1>1. DOMAIN b.vals = D /\ n \in Nat
  OBVIOUS
<1>2. f \in Bijection(D, {b} \X D)
  <2> HIDE DEF D
  <2>1. f \in [D -> {b} \X D] /\ \A k \in D : f[k] = <<b, k>>
    OBVIOUS
  <2>2. \A k, m \in D : f[k] = f[m] => k = m
    BY <2>1
  <2>3. \A u \in {b} \X D : \E k \in D : f[k] = u
    BY <2>1
  <2> HIDE DEF f
  <2> QED BY <2>1, <2>2, <2>3 DEF Bijection, Injection, IsInjective, Surjection
<1>3. ExistsBijection(D, {b} \X D)
  BY <1>2 DEF ExistsBijection
<1>4. IsFiniteSet(D) /\ Cardinality(D) = n
  <2>1. 1 \in Int /\ n \in Int /\ (IF 1 > n THEN 0 ELSE n - 1 + 1) = n
    BY <1>1
  <2> QED BY <2>1, FS_Interval
<1> HIDE DEF n, D
<1> QED BY <1>1, <1>3, <1>4, FS_Bijection DEF n

LEMMA UnitsAdd ==
  ASSUME NEW B, NEW b, b \notin B, IsFiniteSet(UnitsOf(B)), b.vals \in Seq(Ids)
  PROVE  /\ IsFiniteSet(UnitsOf(B \cup {b}))
         /\ Cardinality(UnitsOf(B \cup {b})) = Cardinality(UnitsOf(B)) + Len(b.vals)
<1> DEFINE U == UnitsOf(B)
           V == {b} \X DOMAIN b.vals
<1>1. IsFiniteSet(V) /\ Cardinality(V) = Len(b.vals)
  BY UnitsOne
<1>2. UnitsOf(B \cup {b}) = U \cup V
  BY DEF UnitsOf
<1>3. U \cap V = {}
  BY DEF UnitsOf
<1>4. Cardinality(U) \in Nat /\ Len(b.vals) \in Nat /\ Cardinality({}) = 0
  <2>1. Len(b.vals) \in Nat
    OBVIOUS
  <2> HIDE DEF U
  <2>2. IsFiniteSet(U)
    BY DEF U
  <2> QED BY <2>1, <2>2, FS_CardinalityType, FS_EmptySet
<1> HIDE DEF U, V
<1>5. IsFiniteSet(U)
  BY DEF U
<1>6. /\ IsFiniteSet(U \cup V)
      /\ Cardinality(U \cup V) = Cardinality(U) + Cardinality(V) - Cardinality(U \cap V)
  BY <1>1, <1>5, FS_Union
<1>7. Cardinality(U \cup V) = Cardinality(U) + Len(b.vals)
  <2>1. Cardinality(U \cap V) = 0
    BY <1>3, <1>4, Zenon
  <2> QED BY <1>1, <1>4, <1>6, <2>1
<1> QED BY <1>2, <1>6, <1>7 DEF U

LEMMA UnitsRemove ==
  ASSUME NEW B, NEW b \in B, IsFiniteSet(UnitsOf(B)), b.vals \in Seq(Ids)
  PROVE  /\ IsFiniteSet(UnitsOf(B \ {b}))
         /\ Cardinality(UnitsOf(B \ {b})) = Cardinality(UnitsOf(B)) - Len(b.vals)
<1>1. UnitsOf(B \ {b}) \subseteq UnitsOf(B)
  BY DEF UnitsOf
<1>2. IsFiniteSet(UnitsOf(B \ {b}))
  BY <1>1, FS_Subset
<1>3. (B \ {b}) \cup {b} = B /\ b \notin B \ {b}
  OBVIOUS
<1>4. Cardinality(UnitsOf(B)) = Cardinality(UnitsOf(B \ {b})) + Len(b.vals)
  BY <1>2, <1>3, UnitsAdd
<1>5. Cardinality(UnitsOf(B \ {b})) \in Nat /\ Len(b.vals) \in Nat
  BY <1>2, FS_CardinalityType
<1> QED BY <1>2, <1>4, <1>5

\* The numbers of the operations keep the buffers apart.
Pending(t) == th[t].st \in {"clear", "line"}
Ordered(q) == \A i, j \in DOMAIN q : q[i].id = q[j].id => i = j
Unique ==
  /\ Ordered(line) /\ Ordered(batch)
  /\ \A i \in DOMAIN line, j \in DOMAIN batch : line[i].id # batch[j].id
  /\ \A b \in onlink : /\ \A i \in DOMAIN line : line[i].id # b.id
                       /\ \A i \in DOMAIN batch : batch[i].id # b.id
Numbered ==
  /\ \A b \in Queued : b.id <= ops
  /\ \A t \in Threads : Pending(t) => th[t].o.id <= ops /\ \A b \in Queued : b.id # th[t].o.id
  /\ \A t, u \in Threads : Pending(t) /\ Pending(u) /\ th[t].o.id = th[u].o.id => t = u
Counted == IsFiniteSet(UnitsOf(Queued)) /\ inqueue = Cardinality(UnitsOf(Queued))

\* A writer pushes a buffer only within the limit, and merges only into the last one.
Bounded ==
  /\ inqueue < MaxBuf + MaxMerge
  /\ line # <<>> => inqueue - Len(line[Len(line)].vals) <= MaxBuf /\ Len(line[Len(line)].vals) < MaxMerge
LengthOK == onlink \subseteq Writes /\ Unique /\ Numbered /\ Counted /\ Bounded

\* What the steps do to the queue and to the writers that have still to enter it.
Still(t) == Pending(t)' => Pending(t) /\ th'[t].o = th[t].o
Joins ==
  /\ ops' \in Nat /\ ops <= ops'
  /\ \E o \in Writes : /\ o.vals = <<o.id>> /\ (Merge(o) \/ Push(o)) /\ o.id <= ops'
                       /\ \A b \in Queued : b.id # o.id
                       /\ \A t \in Threads : Still(t) /\ (Pending(t)' => th[t].o.id # o.id)
Comes ==
  /\ UNCHANGED qvars /\ ops' = ops + 1
  /\ \E t \in Threads : Pending(t)' /\ th'[t].o.id = ops + 1 /\ \A u \in Threads \ {t} : Still(u)
Rests == UNCHANGED qvars /\ ops' \in Nat /\ ops <= ops' /\ \A t \in Threads : Still(t)
Moves == UNCHANGED <<th, ops>> /\ (Dispatch \/ (\E b : Assign(b)) \/ \E b : Complete(b))

LEMMA OneStays ==
  ASSUME NEW t \in Threads, Others(t), th'[t].st \notin {"clear", "line"}
  PROVE  \A u \in Threads : Still(u) /\ (Pending(u)' => u # t)
BY DEF Others, Still, Pending

\* An operation that is not waiting for the queue any more goes on to it.
LEMMA GoJoins ==
  ASSUME ClientOK, LengthOK, NEW t \in Threads, NEW o \in Requests, o.vals = <<o.id>>, Go(t, o),
         \/ th[t].st = "idle" /\ o.id = ops + 1 /\ ops' = ops + 1
         \/ th[t].st = "clear" /\ o = th[t].o /\ ops' = ops
  PROVE  Joins \/ Comes \/ Rests
<1>1. ThreadsOK /\ ops \in Nat /\ o.id \in Nat /\ ops' \in Nat /\ ops <= ops'
  BY DEF ClientOK, ThreadsOK, Requests, Ids
<1>2. Numbered /\ \A b \in Queued : b \in Writes
  <2>1. line \in Seq(Writes) /\ batch \in Seq(Writes) /\ onlink \subseteq Writes
    BY DEF ClientOK, QueueOK, LengthOK
  <2>2. ToSet(line) \subseteq Writes /\ ToSet(batch) \subseteq Writes
    BY <2>1 DEF ToSet
  <2> QED BY <2>1, <2>2 DEF Queued, LengthOK
<1>3. \A b \in Queued : b.id \in Nat /\ b.id <= ops
  BY <1>2 DEF Numbered, Writes, Requests, Ids
<1>4. \A b \in Queued : b.id # o.id
  BY <1>1, <1>2, <1>3 DEF Numbered, Pending
<1>5. \A u \in Threads \ {t} : Pending(u) => th[u].o.id # o.id
  <2>1. SUFFICES ASSUME NEW u \in Threads \ {t}, Pending(u) PROVE th[u].o.id # o.id
    OBVIOUS
  <2>2. th[u].o.id \in Nat /\ th[u].o.id <= ops
    BY <1>1, <1>2, <2>1 DEF Numbered, Pending, ThreadsOK, ThreadOK, Requests, Ids
  <2> QED BY <1>1, <1>2, <2>1, <2>2 DEF Numbered, Pending
<1>6. CASE o.kind = "write" /\ load.async
  <2>0. QueueBuffer(t, o) /\ o \in Writes
    BY <1>6 DEF Go, Writes
  <2>1. CASE (Merge(o) \/ Push(o)) /\ th' = [th EXCEPT ![t] = Idle]
    <3>1. th'[t] = Idle /\ Others(t)
      BY <1>1, <2>1, OneMoves
    <3>2. \A u \in Threads : Still(u) /\ (Pending(u)' => u # t)
      BY <3>1, OneStays, IdleOK
    <3>3. \A u \in Threads : Pending(u)' => th[u].o.id # o.id
      BY <1>5, <3>2 DEF Still
    <3>4. o.id <= ops'
      BY <1>1, <1>2 DEF Numbered, Pending
    <3> QED BY <1>1, <1>4, <2>0, <2>1, <3>2, <3>3, <3>4 DEF Joins
  <2>2. CASE th' = [th EXCEPT ![t] = At("line", o, 0)] /\ UNCHANGED qvars
    <3>1. th'[t] = At("line", o, 0) /\ Others(t)
      BY <1>1, <2>2, OneMoves
    <3>2. th'[t].st = "line" /\ th'[t].o = o
      BY <3>1, AtOK
    <3>3. \A u \in Threads \ {t} : Still(u)
      BY <3>1 DEF Others, Still, Pending
    <3>4. CASE th[t].st = "clear" /\ o = th[t].o
      BY <1>1, <2>2, <3>2, <3>3, <3>4 DEF Rests, Still, Pending
    <3>5. CASE o.id = ops + 1 /\ ops' = ops + 1
      BY <2>2, <3>2, <3>3, <3>5 DEF Comes, Pending
    <3> QED BY <3>4, <3>5
  <2> QED BY <2>0, <2>1, <2>2 DEF QueueBuffer
<1>7. CASE ~(o.kind = "write" /\ load.async)
  <2>1. UNCHANGED qvars /\ th' \in {[th EXCEPT ![t] = At("sent", o, 0)], [th EXCEPT ![t] = Idle]}
    BY <1>7 DEF Go, Submit
  <2>2. th'[t] \in {At("sent", o, 0), Idle} /\ Others(t)
    BY <1>1, <2>1, OneMoves
  <2>3. th'[t].st \notin {"clear", "line"}
    BY <2>2, AtOK, IdleOK
  <2> QED BY <1>1, <2>1, <2>2, <2>3, OneStays DEF Rests
<1> QED BY <1>6, <1>7

LEMMA QueuedWrites == ASSUME ClientOK, LengthOK PROVE \A b \in Queued : b \in Writes /\ b.id \in Nat
<1>1. line \in Seq(Writes) /\ batch \in Seq(Writes) /\ onlink \subseteq Writes
  BY DEF ClientOK, QueueOK, LengthOK
<1>2. ToSet(line) \subseteq Writes /\ ToSet(batch) \subseteq Writes
  BY <1>1 DEF ToSet
<1>3. \A b \in Writes : b.id \in Nat
  BY DEF Writes, Requests, Ids
<1> QED BY <1>1, <1>2, <1>3 DEF Queued

LEMMA BeginJoins ==
  ASSUME ClientOK, LengthOK, NEW t \in Threads, NEW o \in Calls, Begin(t, o)
  PROVE  Joins \/ Comes \/ Rests
<1> DEFINE h == gvdsfs_oper[o.kind]
<1>1. o \in Requests /\ o.vals = <<o.id>> /\ ThreadsOK /\ ops \in Nat
  BY CallsAreRequests DEF ClientOK, ThreadsOK
<1>2. o.id = ops + 1
  BY DEF Calls, Request
<1>3. th[t].st = "idle" /\ ops' = ops + 1 /\ ops' \in Nat /\ ops <= ops'
  BY <1>1, IdleOK DEF Begin
<1>4. CASE UNCHANGED <<qvars, avars, net, th, cache, histvars>>
  BY <1>3, <1>4 DEF Rests, Still, Pending
<1>5. CASE UNCHANGED qvars /\ th' = [th EXCEPT ![t] = At("status", o, 0)]
  <2>1. th'[t] = At("status", o, 0) /\ Others(t)
    BY <1>1, <1>5, OneMoves
  <2>2. th'[t].st = "status"
    BY <2>1, AtOK
  <2> QED BY <1>3, <1>5, <2>1, <2>2, OneStays DEF Rests
<1>6. CASE UNCHANGED qvars /\ th' = [th EXCEPT ![t] = At("clear", o, area[0].epoch)]
  <2>1. th'[t] = At("clear", o, area[0].epoch) /\ Others(t)
    BY <1>1, <1>6, OneMoves
  <2>2. th'[t].st = "clear" /\ th'[t].o = o
    BY <2>1, AtOK
  <2> QED BY <1>2, <1>3, <1>6, <2>1, <2>2 DEF Comes, Pending, Still, Others
<1>7. CASE Go(t, o)
  BY <1>1, <1>2, <1>3, <1>7, GoJoins
<1> QED BY <1>4, <1>5, <1>6, <1>7 DEF Begin

LEMMA QueueSteps ==
  ASSUME ClientOK, LengthOK, [Next]_vars
  PROVE  Joins \/ Comes \/ Rests \/ Moves
<1>1. ThreadsOK /\ ops \in Nat /\ ops <= ops
  BY DEF ClientOK, ThreadsOK
<1>2. CASE \E t \in Threads, o \in Calls : Begin(t, o)
  BY <1>2, BeginJoins
<1>3. ASSUME NEW t \in Threads, ClearSecond(t) PROVE Joins \/ Comes \/ Rests
  <2>1. th[t].st = "clear" /\ Go(t, th[t].o) /\ ops' = ops
    BY <1>3 DEF ClearSecond
  <2>2. th[t].o \in Requests /\ th[t].o.vals = <<th[t].o.id>>
    BY <1>1, <2>1 DEF ThreadsOK, ThreadOK
  <2> QED BY <2>1, <2>2, GoJoins
<1>4. ASSUME NEW t \in Threads, Roomed(t) PROVE Joins
  <2>1. /\ th[t].st = "line" /\ Push(th[t].o) /\ ops' = ops
        /\ th' = [th EXCEPT ![t] = Idle]
    BY <1>4 DEF Roomed
  <2>2. th'[t] = Idle /\ Others(t)
    BY <1>1, <2>1, OneMoves
  <2>3. \A u \in Threads : Still(u) /\ (Pending(u)' => u # t)
    BY <2>2, OneStays, IdleOK
  <2>4. th[t].o \in Writes /\ th[t].o.vals = <<th[t].o.id>>
    BY <1>1, <2>1, WritesInQueue DEF ThreadsOK, ThreadOK
  <2>5. /\ th[t].o.id <= ops /\ \A b \in Queued : b.id # th[t].o.id
        /\ \A u \in Threads : Pending(u) /\ u # t => th[u].o.id # th[t].o.id
    BY <2>1 DEF LengthOK, Numbered, Pending
  <2>6. \A u \in Threads : Pending(u)' => th[u].o.id # th[t].o.id
    BY <2>3, <2>5 DEF Still
  <2> DEFINE o == th[t].o
  <2>7. /\ o \in Writes /\ o.vals = <<o.id>> /\ Push(o) /\ o.id <= ops'
        /\ \A b \in Queued : b.id # o.id
        /\ \A u \in Threads : Still(u) /\ (Pending(u)' => th[u].o.id # o.id)
    BY <2>1, <2>3, <2>4, <2>5, <2>6
  <2>8. ops' \in Nat /\ ops <= ops'
    BY <1>1, <2>1
  <2> HIDE DEF o
  <2> QED BY <2>7, <2>8 DEF Joins
<1>5. ASSUME NEW t \in Threads, Return(t) PROVE Rests
  <2>1. th' = [th EXCEPT ![t] = Idle] /\ UNCHANGED <<qvars, ops>>
    BY <1>5 DEF Return
  <2>2. th'[t] = Idle /\ Others(t)
    BY <1>1, <2>1, OneMoves
  <2> QED BY <1>1, <2>1, <2>2, OneStays, IdleOK DEF Rests
<1>6. ASSUME NEW t \in Threads, ReadStatus(t) \/ ReadTask(t) \/ ReadWait(t) \/ Break(t) PROVE Rests
  <2>1. GoesOn(t)
    BY <1>1, <1>6, ReadEffect
  <2>2. UNCHANGED <<qvars, ops>>
    BY <1>6 DEF ReadStatus, ReadTask, ReadWait, Break
  <2> QED BY <1>1, <2>1, <2>2, OneStays, IdleOK DEF Rests, GoesOn
<1>7. CASE Executes
  <2>1. PICK o \in net : Execute(o)
    BY <1>7 DEF Executes
  <2>2. UNCHANGED <<qvars, ops>>
    BY <2>1 DEF Execute
  <2>3. ASSUME NEW ans, Reply(o, ans) PROVE \A t \in Threads : Still(t)
    <3>1. SUFFICES ASSUME NEW t \in Threads, th'[t] = At("back", o, ans) PROVE Still(t)
      BY <2>3 DEF Reply, Still, Pending
    <3> QED BY <3>1, AtOK DEF Still, Pending
  <2> QED BY <1>1, <2>1, <2>2, <2>3 DEF Execute, Rests
<1>8. CASE Fetched
  <2>1. UNCHANGED <<qvars, th, ops>>
    BY <1>8 DEF Fetched, FetchAnswer, FetchCallback, FetchStore, FetchCrash, FetchChain, cvars
  <2> QED BY <1>1, <2>1 DEF Rests, Still, Pending
<1>9. CASE Queue
  BY <1>9 DEF Queue, QueueDispatch, QueueAssign, QueueComplete, Moves, cvars
<1>10. CASE UNCHANGED vars
  BY <1>1, <1>10 DEF vars, cvars, Rests, Still, Pending
<1> QED BY <1>2, <1>3, <1>4, <1>5, <1>6, <1>7, <1>8, <1>9, <1>10 DEF Next, Step

\* The buffers after a change of the queue.
LEMMA ToSetEmpty == ToSet(<<>>) = {}
BY DEF ToSet

LEMMA ToSetAppend ==
  ASSUME NEW S, NEW q \in Seq(S), NEW o \in S
  PROVE  ToSet(Append(q, o)) = ToSet(q) \cup {o}
<1> DEFINE n == Len(q)
           r == Append(q, o)
<1>1. /\ n \in Nat /\ DOMAIN q = 1 .. n /\ DOMAIN r = 1 .. n + 1 /\ r[n + 1] = o
      /\ \A i \in 1 .. n : r[i] = q[i]
  OBVIOUS
<1> HIDE DEF n, r
<1>2. \A i \in 1 .. n + 1 : i = n + 1 \/ i \in 1 .. n
  BY <1>1
<1>3. n + 1 \in 1 .. n + 1 /\ 1 .. n \subseteq 1 .. n + 1
  BY <1>1
<1>4. \A x \in ToSet(r) : x \in ToSet(q) \cup {o}
  BY <1>1, <1>2 DEF ToSet
<1>5. \A x \in ToSet(q) \cup {o} : x \in ToSet(r)
  <2>1. o \in ToSet(r)
    BY <1>1, <1>3 DEF ToSet
  <2>2. ASSUME NEW i \in 1 .. n PROVE q[i] \in ToSet(r)
    BY <1>1, <1>3, <2>2 DEF ToSet
  <2> QED BY <1>1, <2>1, <2>2 DEF ToSet
<1> QED BY <1>4, <1>5 DEF r

LEMMA ToSetTail ==
  ASSUME NEW S, NEW q \in Seq(S), q # <<>>
  PROVE  ToSet(q) = ToSet(Tail(q)) \cup {Head(q)}
<1> DEFINE n == Len(q)
           r == Tail(q)
<1>1. /\ n \in Nat /\ n > 0 /\ DOMAIN q = 1 .. n /\ DOMAIN r = 1 .. n - 1 /\ Head(q) = q[1]
      /\ \A i \in 1 .. n - 1 : r[i] = q[i + 1]
  OBVIOUS
<1> HIDE DEF n, r
<1>2. \A i \in 2 .. n : i - 1 \in 1 .. n - 1 /\ (i - 1) + 1 = i
  BY <1>1
<1>3. \A i \in 2 .. n : q[i] = r[i - 1]
  BY <1>1, <1>2
<1>4. \A i \in 1 .. n : i = 1 \/ i \in 2 .. n
  BY <1>1
<1>5. \A x \in ToSet(q) : x \in ToSet(r) \cup {q[1]}
  <2>1. ASSUME NEW i \in 2 .. n PROVE q[i] \in ToSet(r)
    BY <1>1, <1>2, <1>3, <2>1 DEF ToSet
  <2> QED BY <1>1, <1>4, <2>1 DEF ToSet
<1>6. \A x \in ToSet(r) \cup {q[1]} : x \in ToSet(q)
  <2>1. \A i \in 1 .. n - 1 : i + 1 \in 1 .. n
    BY <1>1
  <2>2. 1 \in 1 .. n
    BY <1>1
  <2> QED BY <1>1, <2>1, <2>2 DEF ToSet
<1> QED BY <1>1, <1>5, <1>6 DEF r

LEMMA ToSetLast ==
  ASSUME NEW q \in Seq(Writes), NEW r \in Seq(Writes), Len(r) = Len(q), Len(q) > 0, Ordered(q),
         \A i \in 1 .. Len(q) - 1 : r[i] = q[i]
  PROVE  ToSet(r) = (ToSet(q) \ {q[Len(q)]}) \cup {r[Len(q)]}
<1> DEFINE n == Len(q)
<1>1. /\ n \in Nat /\ n > 0 /\ DOMAIN q = 1 .. n /\ DOMAIN r = 1 .. n
      /\ \A i \in 1 .. n - 1 : r[i] = q[i]
  OBVIOUS
<1> HIDE DEF n
<1>2. \A i \in 1 .. n : i = n \/ i \in 1 .. n - 1
  BY <1>1
<1>3. \A i \in 1 .. n - 1 : i \in 1 .. n /\ q[i] # q[n]
  <2>1. SUFFICES ASSUME NEW i \in 1 .. n - 1 PROVE i \in 1 .. n /\ q[i] # q[n]
    OBVIOUS
  <2>2. i \in 1 .. n /\ n \in 1 .. n /\ i # n
    BY <1>1
  <2> QED BY <1>1, <2>2 DEF Ordered
<1>4. n \in 1 .. n
  BY <1>1
<1>5. \A x \in ToSet(r) : x \in (ToSet(q) \ {q[n]}) \cup {r[n]}
  BY <1>1, <1>2, <1>3 DEF ToSet
<1>6. \A x \in (ToSet(q) \ {q[n]}) \cup {r[n]} : x \in ToSet(r)
  BY <1>1, <1>2, <1>3, <1>4 DEF ToSet
<1> QED BY <1>5, <1>6 DEF n

LEMMA Numbers == Workers \in Nat /\ MaxBuf \in Nat /\ MaxMerge \in Nat /\ MaxMerge > 1
BY QueueAssumption

LEMMA BufferOK == \A b \in Writes : b.vals \in Seq(Ids) /\ Len(b.vals) \in Nat /\ b.id \in Nat
<1>1. SUFFICES ASSUME NEW b \in Writes PROVE b.vals \in Seq(Ids) /\ Len(b.vals) \in Nat /\ b.id \in Nat
  OBVIOUS
<1>2. b.vals \in Seq(Ids) /\ b.id \in Ids
  BY DEF Writes, Requests
<1>3. Len(b.vals) \in Nat
  BY <1>2
<1> QED BY <1>2, <1>3 DEF Ids

\* The numbers of the queued buffers and of the writers that wait, when o has joined as x.
LEMMA JoinNumbers ==
  ASSUME ClientOK, LengthOK, NEW o \in Writes, NEW x, x.id = o.id, Queued' \subseteq Queued \cup {x},
         ops' \in Nat, ops <= ops', o.id <= ops',
         \A t \in Threads : Still(t) /\ (Pending(t)' => th[t].o.id # o.id)
  PROVE  Numbered'
<1>1. ops \in Nat /\ Numbered /\ (\A b \in Queued : b.id \in Nat) /\ o.id \in Nat
  BY QueuedWrites, BufferOK DEF ClientOK, LengthOK
<1>2. \A b \in Queued' : b.id <= ops'
  BY <1>1 DEF Numbered
<1>3. \A t \in Threads : Pending(t)' => Pending(t) /\ th'[t].o = th[t].o /\ th[t].o.id # o.id
  BY DEF Still
<1>4. \A t \in Threads : Pending(t)' => th'[t].o.id <= ops' /\ \A b \in Queued' : b.id # th'[t].o.id
  <2>1. SUFFICES ASSUME NEW t \in Threads, Pending(t)'
                 PROVE  th'[t].o.id <= ops' /\ \A b \in Queued' : b.id # th'[t].o.id
    OBVIOUS
  <2>2. th'[t].o = th[t].o /\ Pending(t) /\ th[t].o.id # o.id
    BY <1>3, <2>1
  <2>3. th[t].o.id \in Nat
    BY <2>2 DEF ClientOK, ThreadOK, Pending, Requests, Ids
  <2> QED BY <1>1, <2>2, <2>3 DEF Numbered
<1>5. \A t, u \in Threads : Pending(t)' /\ Pending(u)' /\ th'[t].o.id = th'[u].o.id => t = u
  BY <1>1, <1>3 DEF Numbered
<1> QED BY <1>2, <1>4, <1>5 DEF Numbered

LEMMA PushKeeps ==
  ASSUME ClientOK, LengthOK, NEW o \in Writes, o.vals = <<o.id>>, Push(o), \A b \in Queued : b.id # o.id
  PROVE  /\ Queued' = Queued \cup {o} /\ (onlink \subseteq Writes)'
         /\ Unique' /\ Counted' /\ Bounded'
<1> DEFINE n == Len(line)
<1>1. /\ inqueue <= MaxBuf /\ line' = Append(line, o) /\ inqueue' = inqueue + Len(o.vals)
      /\ UNCHANGED <<batch, onlink>>
  BY DEF Push, Roomy
<1>2. /\ line \in Seq(Writes) /\ n \in Nat /\ DOMAIN line = 1 .. n /\ DOMAIN line' = 1 .. n + 1
      /\ Len(line') = n + 1 /\ line'[n + 1] = o /\ \A i \in 1 .. n : line'[i] = line[i]
      /\ Len(o.vals) = 1
  BY <1>1 DEF ClientOK, QueueOK
<1>3. Queued' = Queued \cup {o}
  <2>1. ToSet(line') = ToSet(line) \cup {o}
    BY <1>1, <1>2, ToSetAppend
  <2> QED BY <1>1, <2>1 DEF Queued
<1>4. \A i \in DOMAIN line : line[i].id # o.id
  BY DEF Queued, ToSet
<1>5. \A i \in DOMAIN batch : batch[i].id # o.id
  BY DEF Queued, ToSet
<1>6. \A b \in onlink : b.id # o.id
  BY DEF Queued
<1> HIDE DEF n
<1>7. \A i \in 1 .. n + 1 : i \in 1 .. n \/ i = n + 1
  BY <1>2
<1>8. Unique'
  <2>1. Unique
    BY DEF LengthOK
  <2>2. Ordered(line')
    BY <1>2, <1>4, <1>7, <2>1 DEF Unique, Ordered
  <2>3. \A i \in DOMAIN line', j \in DOMAIN batch' : line'[i].id # batch'[j].id
    BY <1>1, <1>2, <1>5, <1>7, <2>1 DEF Unique
  <2>4. \A b \in onlink' : /\ \A i \in DOMAIN line' : line'[i].id # b.id
                           /\ \A i \in DOMAIN batch' : batch'[i].id # b.id
    BY <1>1, <1>2, <1>6, <1>7, <2>1 DEF Unique
  <2> QED BY <1>1, <2>1, <2>2, <2>3, <2>4 DEF Unique
<1>9. Counted' /\ inqueue \in Nat
  <2>1. IsFiniteSet(UnitsOf(Queued)) /\ inqueue = Cardinality(UnitsOf(Queued)) /\ o \notin Queued
    BY DEF LengthOK, Counted
  <2>2. /\ IsFiniteSet(UnitsOf(Queued \cup {o}))
        /\ Cardinality(UnitsOf(Queued \cup {o})) = Cardinality(UnitsOf(Queued)) + Len(o.vals)
    BY <2>1, UnitsAdd, BufferOK
  <2> QED BY <1>1, <1>3, <2>1, <2>2, FS_CardinalityType DEF Counted
<1>10. Bounded'
  <2>1. inqueue' = inqueue + 1 /\ line'[Len(line')] = o
    BY <1>1, <1>2
  <2>2. inqueue' < MaxBuf + MaxMerge /\ inqueue' - 1 <= MaxBuf /\ 1 < MaxMerge
    <3>1. inqueue \in Nat /\ inqueue <= MaxBuf
      BY <1>1, <1>9
    <3> QED BY <2>1, <3>1, Numbers
  <2>3. Len(line'[Len(line')].vals) = 1
    BY <1>2, <2>1
  <2> QED BY <2>2, <2>3 DEF Bounded
<1> QED BY <1>1, <1>3, <1>8, <1>9, <1>10 DEF LengthOK

LEMMA MergeKeeps ==
  ASSUME ClientOK, LengthOK, NEW o \in Writes, o.vals = <<o.id>>, Merge(o), \A b \in Queued : b.id # o.id
  PROVE  /\ \E x : x.id = o.id /\ Queued' \subseteq Queued \cup {x}
         /\ (onlink \subseteq Writes)' /\ Unique' /\ Counted' /\ Bounded'
<1> DEFINE n == Len(line)
           a == line[n]
           x == line'[n]
<1>1. /\ UNCHANGED <<batch, onlink>> /\ inqueue' = inqueue + Len(o.vals)
      /\ line # <<>> /\ Len(line[Len(line)].vals) + Len(o.vals) < MaxMerge
  BY DEF Merge, Mergeable, Last
<1>2. Extends(o) /\ line \in Seq(Writes) /\ Len(o.vals) = 1
  BY MergeEffect DEF ClientOK, QueueOK
<1>3. /\ n \in Nat /\ n > 0 /\ DOMAIN line = 1 .. n /\ DOMAIN line' = 1 .. n /\ Len(line') = n
      /\ line' \in Seq(Writes) /\ \A i \in 1 .. n - 1 : line'[i] = line[i]
  BY <1>2 DEF Extends
<1>4. n \in 1 .. n /\ \A i \in 1 .. n : i = n \/ i \in 1 .. n - 1
  <2> HIDE DEF n
  <2> QED BY <1>3
<1>5. /\ x \in Writes /\ a \in Writes /\ x.id = o.id /\ Len(x.vals) = Len(a.vals) + 1
      /\ a = line[n] /\ x = line'[n]
  <2>1. x.id = o.id /\ Len(x.vals) = Len(a.vals) + 1
    BY <1>2 DEF Extends
  <2>2. a = line[n] /\ x = line'[n]
    OBVIOUS
  <2> HIDE DEF n, a, x
  <2> QED BY <1>2, <1>3, <1>4, <2>1, <2>2
<1>6. Unique /\ Ordered(line)
  BY DEF LengthOK, Unique
<1>7. ToSet(line') = (ToSet(line) \ {a}) \cup {x}
  BY <1>2, <1>3, <1>6, ToSetLast
<1> HIDE DEF n, a, x
<1>8. a \notin ToSet(batch) /\ a \notin onlink /\ a \in ToSet(line)
  <2>1. \A j \in DOMAIN batch : a.id # batch[j].id
    BY <1>3, <1>4, <1>5, <1>6 DEF Unique
  <2>2. \A b \in onlink : a.id # b.id
    BY <1>3, <1>4, <1>5, <1>6 DEF Unique
  <2> QED BY <1>3, <1>4, <1>5, <2>1, <2>2 DEF ToSet
<1>9. Queued' = (Queued \ {a}) \cup {x} /\ a \in Queued
  BY <1>1, <1>7, <1>8 DEF Queued
<1>10. x \notin Queued
  BY <1>5
<1>11. \A i \in DOMAIN line : line[i].id # o.id
  BY DEF Queued, ToSet
<1>12. \A i \in DOMAIN batch : batch[i].id # o.id
  BY DEF Queued, ToSet
<1>13. \A b \in onlink : b.id # o.id
  BY DEF Queued
<1>14. Unique'
  <2>2. Ordered(line')
    BY <1>3, <1>4, <1>5, <1>6, <1>11 DEF Unique, Ordered
  <2>3. \A i \in DOMAIN line', j \in DOMAIN batch' : line'[i].id # batch'[j].id
    BY <1>1, <1>3, <1>4, <1>5, <1>6, <1>12 DEF Unique
  <2>4. \A b \in onlink' : /\ \A i \in DOMAIN line' : line'[i].id # b.id
                           /\ \A i \in DOMAIN batch' : batch'[i].id # b.id
    BY <1>1, <1>3, <1>4, <1>5, <1>6, <1>13 DEF Unique
  <2> QED BY <1>1, <1>6, <2>2, <2>3, <2>4 DEF Unique
<1>15. Counted' /\ inqueue \in Nat
  <2> DEFINE B == Queued \ {a}
  <2>1. IsFiniteSet(UnitsOf(Queued)) /\ inqueue = Cardinality(UnitsOf(Queued))
    BY DEF LengthOK, Counted
  <2>2. /\ IsFiniteSet(UnitsOf(B))
        /\ Cardinality(UnitsOf(B)) = Cardinality(UnitsOf(Queued)) - Len(a.vals)
    BY <1>5, <1>9, <2>1, UnitsRemove, BufferOK
  <2>3. x \notin B
    BY <1>10
  <2> HIDE DEF B
  <2>4. /\ IsFiniteSet(UnitsOf(B \cup {x}))
        /\ Cardinality(UnitsOf(B \cup {x})) = Cardinality(UnitsOf(B)) + Len(x.vals)
    BY <1>5, <2>2, <2>3, UnitsAdd, BufferOK
  <2>5. Cardinality(UnitsOf(Queued)) \in Nat /\ Len(a.vals) \in Nat
    BY <1>5, <2>1, FS_CardinalityType, BufferOK
  <2>6. Queued' = B \cup {x}
    BY <1>9 DEF B
  <2>7. Cardinality(UnitsOf(B \cup {x})) = inqueue + 1
    BY <1>5, <2>1, <2>2, <2>4, <2>5
  <2> QED BY <1>1, <1>2, <2>1, <2>4, <2>5, <2>6, <2>7 DEF Counted
<1>16. Bounded'
  <2>1. inqueue' = inqueue + 1 /\ line'[Len(line')] = x /\ Len(a.vals) \in Nat /\ Len(a.vals) + 1 < MaxMerge
    BY <1>1, <1>2, <1>3, <1>5, BufferOK DEF n, a
  <2>2. inqueue - Len(a.vals) <= MaxBuf
    BY <1>1 DEF LengthOK, Bounded, n, a
  <2>0. inqueue \in Nat /\ Len(x.vals) = Len(a.vals) + 1 /\ inqueue' = inqueue + 1
        /\ Len(a.vals) \in Nat /\ Len(a.vals) + 1 < MaxMerge
    BY <1>5, <1>15, <2>1
  <2>3. inqueue' - Len(x.vals) <= MaxBuf /\ Len(x.vals) < MaxMerge
    <3>1. (inqueue + 1) - (Len(a.vals) + 1) = inqueue - Len(a.vals)
      BY <2>0
    <3>2. inqueue' - Len(x.vals) = inqueue - Len(a.vals)
      BY <2>0, <3>1
    <3> QED BY <2>0, <2>2, <3>2
  <2>4. inqueue' < MaxBuf + MaxMerge
    BY <2>0, <2>2, Numbers
  <2> QED BY <2>1, <2>3, <2>4 DEF Bounded
<1> QED BY <1>1, <1>5, <1>9, <1>14, <1>15, <1>16 DEF LengthOK

LEMMA MoveKeeps ==
  ASSUME ClientOK, LengthOK, Moves
  PROVE  LengthOK'
<1>1. /\ line \in Seq(Writes) /\ batch \in Seq(Writes) /\ onlink \subseteq Writes
      /\ Unique /\ Numbered /\ Counted /\ Bounded /\ UNCHANGED <<th, ops>> /\ inqueue \in Nat
  <2>1. inqueue \in Nat
    BY FS_CardinalityType DEF LengthOK, Counted
  <2> QED BY <2>1 DEF ClientOK, QueueOK, LengthOK, Moves
<1>2. ASSUME Queued' \subseteq Queued PROVE Numbered'
  BY <1>1, <1>2 DEF Numbered, Pending
<1>3. ASSUME Queued' = Queued, inqueue' = inqueue PROVE Counted'
  BY <1>1, <1>3 DEF Counted
<1>4. CASE Dispatch
  <2>1. batch = <<>> /\ batch' = line /\ line' = <<>> /\ UNCHANGED <<onlink, inqueue>>
    BY <1>4 DEF Dispatch
  <2>2. Queued' = Queued
    BY <2>1, ToSetEmpty DEF Queued
  <2>3. Unique'
    BY <1>1, <2>1 DEF Unique, Ordered
  <2>4. Bounded'
    BY <1>1, <2>1 DEF Bounded
  <2> QED BY <1>1, <1>2, <1>3, <2>1, <2>2, <2>3, <2>4 DEF LengthOK
<1>5. CASE \E b : Assign(b)
  <2> DEFINE b == Head(batch)
             n == Len(batch)
  <2>1. batch # <<>> /\ batch' = Tail(batch) /\ onlink' = onlink \cup {b} /\ UNCHANGED <<line, inqueue>>
    BY <1>5 DEF Assign
  <2>2. /\ b \in Writes /\ n \in Nat /\ n > 0 /\ DOMAIN batch = 1 .. n /\ DOMAIN batch' = 1 .. n - 1
        /\ b = batch[1] /\ \A i \in 1 .. n - 1 : batch'[i] = batch[i + 1]
    BY <1>1, <2>1
  <2>3. ToSet(batch) = ToSet(batch') \cup {b}
    BY <1>1, <2>1, ToSetTail
  <2> HIDE DEF b, n
  <2>4. Queued' = Queued
    BY <2>1, <2>3 DEF Queued
  <2>5. 1 \in 1 .. n /\ \A i \in 1 .. n - 1 : i \in Nat /\ i + 1 \in 1 .. n /\ i + 1 # 1
    BY <2>2
  <2>6. Unique'
    <3>1. Ordered(batch')
      <4>1. SUFFICES ASSUME NEW i \in 1 .. n - 1, NEW j \in 1 .. n - 1, batch'[i].id = batch'[j].id
                     PROVE  i = j
        BY <2>2 DEF Ordered
      <4>2. batch[i + 1].id = batch[j + 1].id
        BY <2>2, <4>1
      <4>3. i + 1 = j + 1
        BY <1>1, <2>2, <2>5, <4>2 DEF Unique, Ordered
      <4> QED BY <2>5, <4>3
    <3>2. \A i \in DOMAIN line, j \in DOMAIN batch' : line[i].id # batch'[j].id
      BY <1>1, <2>2, <2>5 DEF Unique
    <3>3. \A i \in DOMAIN line : line[i].id # b.id
      BY <1>1, <2>2, <2>5 DEF Unique
    <3>4. \A j \in DOMAIN batch' : batch'[j].id # b.id
      <4>1. SUFFICES ASSUME NEW j \in 1 .. n - 1 PROVE batch'[j].id # b.id
        BY <2>2
      <4>2. batch'[j] = batch[j + 1] /\ j + 1 \in DOMAIN batch /\ 1 \in DOMAIN batch /\ j + 1 # 1
        BY <2>2, <2>5
      <4> QED BY <1>1, <2>2, <4>2 DEF Unique, Ordered
    <3>5. \A c \in onlink, j \in DOMAIN batch' : batch'[j].id # c.id
      BY <1>1, <2>2, <2>5 DEF Unique
    <3> QED BY <1>1, <2>1, <3>1, <3>2, <3>3, <3>4, <3>5 DEF Unique
  <2>7. Bounded'
    BY <1>1, <2>1 DEF Bounded
  <2> QED BY <1>1, <1>2, <1>3, <2>1, <2>2, <2>4, <2>6, <2>7 DEF LengthOK
<1>6. CASE \E b : Complete(b)
  <2>1. PICK b : Complete(b)
    BY <1>6
  <2>2. /\ b \in onlink /\ onlink' = onlink \ {b} /\ inqueue' = inqueue - Len(b.vals)
        /\ UNCHANGED <<line, batch>>
    BY <2>1 DEF Complete
  <2>3. b \in Writes /\ b.vals \in Seq(Ids) /\ Len(b.vals) \in Nat
    BY <1>1, <2>2, BufferOK
  <2>4. b \notin ToSet(line) /\ b \notin ToSet(batch)
    BY <1>1, <2>2 DEF Unique, ToSet
  <2>5. Queued' = Queued \ {b} /\ b \in Queued
    BY <2>2, <2>4 DEF Queued
  <2>6. /\ IsFiniteSet(UnitsOf(Queued \ {b}))
        /\ Cardinality(UnitsOf(Queued \ {b})) = Cardinality(UnitsOf(Queued)) - Len(b.vals)
    BY <1>1, <2>3, <2>5, UnitsRemove DEF Counted
  <2>7. Counted'
    BY <1>1, <2>2, <2>5, <2>6 DEF Counted
  <2>8. Unique'
    BY <1>1, <2>2 DEF Unique
  <2>9. Bounded'
    <3>1. inqueue' \in Int /\ inqueue' <= inqueue
      BY <1>1, <2>2, <2>3
    <3>2. inqueue' < MaxBuf + MaxMerge
      BY <1>1, <3>1, Numbers DEF Bounded
    <3>3. ASSUME line # <<>> PROVE inqueue' - Len(line[Len(line)].vals) <= MaxBuf
      <4>1. line[Len(line)] \in Writes
        BY <1>1, <3>3
      <4>2. Len(line[Len(line)].vals) \in Nat /\ inqueue - Len(line[Len(line)].vals) <= MaxBuf
        BY <1>1, <3>3, <4>1, BufferOK DEF Bounded
      <4> QED BY <1>1, <3>1, <4>2, Numbers
    <3> QED BY <1>1, <2>2, <3>2, <3>3 DEF Bounded
  <2> QED BY <1>1, <1>2, <2>2, <2>5, <2>7, <2>8, <2>9 DEF LengthOK
<1> QED BY <1>4, <1>5, <1>6 DEF Moves

LEMMA LengthInit == ASSUME Init PROVE LengthOK
<1>1. line = <<>> /\ batch = <<>> /\ onlink = {} /\ inqueue = 0
  BY DEF Init, QueueInit
<1>2. \A t \in Threads : ~Pending(t)
  BY IdleOK DEF Init, Pending
<1>3. Queued = {}
  BY <1>1, ToSetEmpty DEF Queued
<1>4. UnitsOf(Queued) = {}
  BY <1>3 DEF UnitsOf
<1>5. Counted
  BY <1>1, <1>4, FS_EmptySet DEF Counted
<1>6. Bounded
  BY <1>1, Numbers DEF Bounded
<1> QED BY <1>1, <1>2, <1>3, <1>5, <1>6 DEF LengthOK, Unique, Ordered, Numbered

LEMMA LengthStep == ASSUME ClientOK, LengthOK, [Next]_vars PROVE LengthOK'
<1>1. ops \in Nat /\ Numbered /\ \A b \in Queued : b.id \in Nat
  BY QueuedWrites DEF ClientOK, LengthOK
<1>2. ASSUME NEW t \in Threads, Pending(t) PROVE th[t].o.id \in Nat
  BY <1>2 DEF ClientOK, ThreadOK, Pending, Requests, Ids
<1>3. ASSUME UNCHANGED qvars PROVE Queued' = Queued /\ (onlink \subseteq Writes /\ Unique /\ Counted /\ Bounded)'
  BY <1>3 DEF qvars, Queued, LengthOK, Unique, Ordered, Counted, Bounded
<1>4. CASE Joins
  <2>1. PICK o \in Writes : /\ o.vals = <<o.id>> /\ (Merge(o) \/ Push(o)) /\ o.id <= ops'
                            /\ \A b \in Queued : b.id # o.id
                            /\ \A t \in Threads : Still(t) /\ (Pending(t)' => th[t].o.id # o.id)
    BY <1>4 DEF Joins
  <2>2. /\ \E x : x.id = o.id /\ Queued' \subseteq Queued \cup {x}
        /\ (onlink \subseteq Writes)' /\ Unique' /\ Counted' /\ Bounded'
    BY <2>1, PushKeeps, MergeKeeps
  <2>3. Numbered'
    BY <1>4, <2>1, <2>2, JoinNumbers DEF Joins
  <2> QED BY <2>2, <2>3 DEF LengthOK
<1>5. CASE Comes
  <2>1. PICK t \in Threads : Pending(t)' /\ th'[t].o.id = ops + 1 /\ \A u \in Threads \ {t} : Still(u)
    BY <1>5 DEF Comes
  <2>2. UNCHANGED qvars /\ ops' = ops + 1 /\ Queued' = Queued
    BY <1>3, <1>5 DEF Comes
  <2>3. \A u \in Threads \ {t} : Pending(u)' =>
          /\ th'[u].o.id = th[u].o.id /\ Pending(u) /\ th[u].o.id \in Nat /\ th[u].o.id <= ops
    BY <1>1, <1>2, <2>1 DEF Still, Numbered
  <2>4. \A b \in Queued' : b.id <= ops' /\ b.id # ops + 1
    BY <1>1, <2>2 DEF Numbered
  <2>5. \A u \in Threads : Pending(u)' => th'[u].o.id <= ops' /\ \A b \in Queued' : b.id # th'[u].o.id
    BY <1>1, <2>1, <2>2, <2>3, <2>4 DEF Numbered
  <2>6. \A u, v \in Threads : Pending(u)' /\ Pending(v)' /\ th'[u].o.id = th'[v].o.id => u = v
    BY <1>1, <2>1, <2>3 DEF Numbered
  <2>7. Numbered'
    BY <2>4, <2>5, <2>6 DEF Numbered
  <2> QED BY <1>3, <2>2, <2>7 DEF LengthOK
<1>6. CASE Rests
  <2>1. UNCHANGED qvars /\ ops' \in Nat /\ ops <= ops' /\ Queued' = Queued
    BY <1>3, <1>6 DEF Rests
  <2>2. \A u \in Threads : Pending(u)' =>
          /\ th'[u].o.id = th[u].o.id /\ Pending(u) /\ th[u].o.id \in Nat /\ th[u].o.id <= ops
    BY <1>1, <1>2, <1>6 DEF Rests, Still, Numbered
  <2>3. Numbered'
    BY <1>1, <2>1, <2>2 DEF Numbered
  <2> QED BY <1>3, <2>1, <2>3 DEF LengthOK
<1>7. CASE Moves
  BY <1>7, MoveKeeps
<1> QED BY <1>4, <1>5, <1>6, <1>7, QueueSteps

(* buf_inqueue is what is queued, and it passes the limit by less than a   *)
(* merged buffer, however many writers wait and merge at once.             *)
THEOREM QueueIsBounded == Spec => []QueueBound
<1>1. Init => ClientOK /\ LengthOK
  BY ClientInit, LengthInit
<1>2. ClientOK /\ LengthOK /\ [Next]_vars => (ClientOK /\ LengthOK)'
  BY ClientStep, LengthStep
<1>3. LengthOK => QueueBound
  BY DEF LengthOK, Counted, Bounded, QueueBound, UnitsOf
<1> QED BY <1>1, <1>2, <1>3, PTL DEF Spec

-----------------------------------------------------------------------------
(* The read-ahead.  A sector that is in an area, or on its way into one    *)
(* and asked for in time, is that of the proxy.  While a write of its file *)
(* is under way there is none, except in the second area until the         *)
(* clearing has reached it.                                                *)

Replies == {answers[k] : k \in DOMAIN answers} \cup (IF cb = NoCb THEN {} ELSE {cb})
Flights == fetches \cup {c.w : c \in Replies}
Live == {w \in Flights : ~w.raced /\ Timely(w)}
Writing == {p \in Paths : PendingWrite(p)}
Clearing == {p \in Paths : \E t \in Threads : th[t].st = "clear" /\ th[t].o.p = p}

IsArea(a) ==
  DOMAIN a = {"file", "bg", "max", "cur", "cursor", "onlink", "wanted", "have", "epoch", "gen"}
AreaOK(a) ==
  /\ IsArea(a) /\ a.file \in Paths \cup {NoPath} /\ a.epoch \in Nat /\ a.gen \in Nat
  /\ a.file = NoPath => a.bg = 0 /\ a.max = 0 /\ a.cur = 0
ReplyOK(c) == DOMAIN c = {"n", "w", "val"}
FlightOK(w) ==
  w.buf \in Areas /\ w.file \in Paths /\ w.epoch \in Nat /\ w.gen \in Nat /\ w.raced \in BOOLEAN

ShapeOK ==
  /\ DOMAIN area = Areas /\ \A i \in Areas : AreaOK(area[i])
  /\ \E S : answers \in Seq(S)
  /\ \A c \in Replies : ReplyOK(c)
  /\ \A w \in Flights : FlightOK(w)
  /\ \A t \in Threads : th[t].st = "clear" => th[t].ans \in Nat

\* Without read-ahead nothing of it moves.
OffOK ==
  load.ahead = 0 =>
    /\ \A t \in Threads : th[t].st \notin {"status", "task", "wait"}
    /\ \A i \in Areas : area[i].file = NoPath
    /\ Flights = {}

\* An epoch belongs to one file, and the first area has the newest one.
InUse(e, f) ==
  \/ \E w \in Flights : w.epoch = e /\ w.file = f
  \/ \E i \in Areas : area[i].file # NoPath /\ area[i].epoch = e /\ area[i].file = f
EpochsOK ==
  /\ \A e, f : InUse(e, f) => e <= area[0].epoch
  /\ \A e, f, g : InUse(e, f) /\ InUse(e, g) => f = g

\* What is on its way is not newer than its area; what is as new is of the same file.
OrderOK ==
  \A w \in Flights :
    /\ w.gen <= area[w.buf].gen
    /\ w.gen = area[w.buf].gen => w.epoch <= area[w.buf].epoch
    /\ w.gen = area[w.buf].gen /\ w.epoch = area[w.buf].epoch => w.file = area[w.buf].file

Untouched(p, i) ==
  /\ area[i].file = p => DOMAIN area[i].have = {}
  /\ \A w \in Live : w.buf = i => w.file # p
ClearedOK == \A p \in Writing \ late : Untouched(p, 0) /\ (p \in Clearing \/ Untouched(p, 1))

BufferedOK ==
  \A i \in Areas : area[i].file \in Paths \ (late \cup Writing) =>
    \A s \in DOMAIN area[i].have :
      area[i].have[s] # Err /\ area[i].have[s] = Sector(remote, area[i].file, s)
RepliesOK ==
  \A c \in Replies : c.w \in Live /\ c.w.file \notin late \cup Writing =>
    c.val \in {NoReply, Err, Sector(remote, c.w.file, c.w.sec)}

SectorsOK == ShapeOK /\ OffOK /\ EpochsOK /\ OrderOK /\ ClearedOK /\ BufferedOK /\ RepliesOK

-----------------------------------------------------------------------------
(* What the steps do to the areas and to what is on its way. *)

Kept(i) ==
  /\ AreaOK(area'[i]) /\ area'[i].file = area[i].file /\ area'[i].epoch = area[i].epoch
  /\ area'[i].gen = area[i].gen /\ area'[i].have = area[i].have
Tasked(i, p, e) ==
  /\ AreaOK(area'[i]) /\ area'[i].file = p /\ area'[i].epoch = e /\ area'[i].gen = area[i].gen
  /\ DOMAIN area'[i].have = {} /\ p \in Paths /\ e \in Nat /\ area[i].epoch <= e
Fresh(w) ==
  /\ w.buf \in Areas /\ w.file \in Paths /\ w.raced = (w.file \in Dirty)
  /\ w.file = area'[w.buf].file /\ w.epoch = area'[w.buf].epoch /\ w.gen = area'[w.buf].gen
AsksFor(N) == fetches' = fetches \cup N /\ \A w \in N : Fresh(w)
KeepsAreas == DOMAIN area' = Areas /\ \A i \in Areas : Kept(i)
Tasks(i, p, e) == DOMAIN area' = Areas /\ Tasked(i, p, e) /\ \A j \in Areas \ {i} : Kept(j)

LEMMA AskingKeeps ==
  ASSUME NEW a, AreaOK(a), a.file # NoPath \/ a.max = 0
  PROVE  /\ AreaOK(Asking(a)) /\ Asking(a).file = a.file /\ Asking(a).epoch = a.epoch
         /\ Asking(a).gen = a.gen /\ Asking(a).have = a.have
         /\ a.file = NoPath => Asked(a) = {}
<1>1. CASE a.file = NoPath
  <2>1. a.bg = 0 /\ a.max = 0 /\ a.cur = 0
    BY <1>1 DEF AreaOK
  <2>2. Asked(a) = {}
    BY <2>1 DEF Asked, End
  <2>3. Cardinality({}) = 0
    BY FS_EmptySet
  <2>4. Asking(a) = [a EXCEPT !.cur = @ + 0, !.onlink = @ + 0, !.wanted = @ \cup {}]
    BY <2>2, <2>3 DEF Asking
  <2> QED BY <1>1, <2>1, <2>2, <2>4 DEF AreaOK, IsArea
<1>2. CASE a.file # NoPath
  <2>1. PICK x, y, z : Asking(a) = [a EXCEPT !.cur = x, !.onlink = y, !.wanted = z]
    BY DEF Asking
  <2> QED BY <1>2, <2>1 DEF AreaOK, IsArea
<1> QED BY <1>1, <1>2

LEMMA CleanOK ==
  ASSUME NEW e \in Nat, NEW g \in Nat
  PROVE  AreaOK(Clean(e, g)) /\ Clean(e, g).file = NoPath /\ Clean(e, g).epoch = e /\ Clean(e, g).gen = g
BY DEF Clean, AreaOK, IsArea

LEMMA NewTaskOK ==
  ASSUME NEW p \in Paths, NEW s, NEW max, NEW e \in Nat, NEW g \in Nat
  PROVE  LET a == NewTask(p, s, max, e, g)
         IN  AreaOK(a) /\ a.file = p /\ a.epoch = e /\ a.gen = g /\ DOMAIN a.have = {}
<1>1. p # NoPath
  BY AheadAssumption
<1> QED BY <1>1 DEF NewTask, Clean, AreaOK, IsArea

LEMMA OneArea ==
  ASSUME ShapeOK, NEW i \in Areas, NEW a, area' = [area EXCEPT ![i] = a]
  PROVE  DOMAIN area' = Areas /\ area'[i] = a /\ \A j \in Areas \ {i} : area'[j] = area[j] /\ Kept(j)
<1>1. DOMAIN area = Areas /\ \A j \in Areas : AreaOK(area[j])
  BY DEF ShapeOK
<1>2. DOMAIN area' = Areas /\ area'[i] = a /\ \A j \in Areas \ {i} : area'[j] = area[j]
  BY <1>1
<1> QED BY <1>1, <1>2 DEF Kept

LEMMA CursorKeeps ==
  ASSUME ShapeOK, NEW i \in Areas, NEW x, area' = [area EXCEPT ![i] = [@ EXCEPT !.cursor = x]]
  PROVE  KeepsAreas
<1>1. AreaOK(area[i])
  BY DEF ShapeOK
<1> DEFINE a == [area[i] EXCEPT !.cursor = x]
<1>2. AreaOK(a) /\ a.file = area[i].file /\ a.epoch = area[i].epoch /\ a.gen = area[i].gen /\ a.have = area[i].have
  BY <1>1 DEF AreaOK, IsArea
<1>3. area' = [area EXCEPT ![i] = a]
  OBVIOUS
<1> HIDE DEF a
<1>4. DOMAIN area' = Areas /\ area'[i] = a /\ \A j \in Areas \ {i} : Kept(j)
  BY <1>3, OneArea
<1>5. Kept(i)
  BY <1>2, <1>4 DEF Kept
<1> QED BY <1>4, <1>5 DEF KeepsAreas

\* What is asked for an area.
LEMMA FetchesFresh ==
  ASSUME NEW i \in Areas, NEW a, area'[i].file = a.file, area'[i].epoch = a.epoch, area'[i].gen = a.gen,
         a.file \in Paths, NEW w \in Fetches(i, a, Dirty)
  PROVE  Fresh(w)
<1>1. PICK s \in Asked(a) :
        w = [buf |-> i, sec |-> s, file |-> a.file, epoch |-> a.epoch, gen |-> a.gen,
             raced |-> a.file \in Dirty]
  BY DEF Fetches
<1>2. /\ w.buf = i /\ w.file = a.file /\ w.epoch = a.epoch /\ w.gen = a.gen
      /\ w.raced = (a.file \in Dirty)
  BY <1>1, Zenon
<1> QED BY <1>2 DEF Fresh

LEMMA AskEffect ==
  ASSUME ShapeOK, NEW i \in Areas, area' = [area EXCEPT ![i] = Asking(area[i])],
         fetches' = fetches \cup Fetches(i, area[i], Dirty)
  PROVE  KeepsAreas /\ \E N : AsksFor(N)
<1> DEFINE a == area[i]
<1>1. AreaOK(a)
  BY DEF ShapeOK
<1>2. a.file # NoPath \/ a.max = 0
  BY <1>1 DEF AreaOK
<1> HIDE DEF a
<1>3. /\ AreaOK(Asking(a)) /\ Asking(a).file = a.file /\ Asking(a).epoch = a.epoch
      /\ Asking(a).gen = a.gen /\ Asking(a).have = a.have
      /\ a.file = NoPath => Asked(a) = {}
  BY <1>1, <1>2, AskingKeeps
<1>4. DOMAIN area' = Areas /\ area'[i] = Asking(a) /\ \A j \in Areas \ {i} : Kept(j)
  BY OneArea DEF a
<1>5. Kept(i)
  BY <1>3, <1>4 DEF Kept, a
<1>6. ASSUME NEW w \in Fetches(i, a, Dirty) PROVE Fresh(w)
  <2>1. a.file # NoPath
    BY <1>3, <1>6 DEF Fetches
  <2>2. a.file \in Paths
    BY <1>1, <2>1 DEF AreaOK
  <2> QED BY <1>3, <1>4, <2>2, FetchesFresh
<1>7. AsksFor(Fetches(i, a, Dirty))
  BY <1>6 DEF AsksFor, a
<1> QED BY <1>4, <1>5, <1>7 DEF KeepsAreas

\* set_task: refused, or a new task.
LEMMA TaskEffect ==
  ASSUME ShapeOK, NEW i \in Areas, NEW p \in Paths, NEW s, NEW max, NEW e \in Nat,
         SetTask(i, p, s, max, e, Dirty)
  PROVE  \/ KeepsAreas /\ fetches' = fetches
         \/ Tasks(i, p, e) /\ \E N : AsksFor(N)
<1>0. AreaOK(area[i]) /\ area[i].epoch \in Nat /\ area[i].gen \in Nat
  BY DEF ShapeOK, AreaOK
<1>1. CASE Refused(i, p, s, e)
  <2>1. PICK x : area' = [area EXCEPT ![i].cursor = x]
    BY <1>1, Zenon DEF SetTask
  <2>2. fetches' = fetches
    BY <1>1 DEF SetTask
  <2> QED BY <2>1, <2>2, CursorKeeps
<1>2. CASE ~Refused(i, p, s, e)
  <2> DEFINE a == NewTask(p, s, max, e, area[i].gen)
  <2>1. area' = [area EXCEPT ![i] = Asking(a)] /\ fetches' = fetches \cup Fetches(i, a, Dirty)
    BY <1>2 DEF SetTask
  <2>2. ~(e < area[i].epoch)
    BY <1>2 DEF Refused
  <2>3. AreaOK(a) /\ a.file = p /\ a.epoch = e /\ a.gen = area[i].gen /\ DOMAIN a.have = {}
    BY <1>0, NewTaskOK
  <2> HIDE DEF a
  <2>4. a.file # NoPath
    BY <2>3, AheadAssumption
  <2>5. /\ AreaOK(Asking(a)) /\ Asking(a).file = p /\ Asking(a).epoch = e
        /\ Asking(a).gen = area[i].gen /\ Asking(a).have = a.have
    BY <2>3, <2>4, AskingKeeps
  <2>6. DOMAIN area' = Areas /\ area'[i] = Asking(a) /\ \A j \in Areas \ {i} : Kept(j)
    BY <2>1, OneArea
  <2>7. Tasked(i, p, e)
    BY <1>0, <2>2, <2>3, <2>5, <2>6 DEF Tasked
  <2>8. \A w \in Fetches(i, a, Dirty) : Fresh(w)
    BY <2>3, <2>5, <2>6, FetchesFresh
  <2>9. AsksFor(Fetches(i, a, Dirty))
    BY <2>1, <2>8 DEF AsksFor
  <2> QED BY <2>6, <2>7, <2>9 DEF Tasks
<1> QED BY <1>1, <1>2

\* The writes under way and the clearing threads.
Stays ==
  /\ UNCHANGED <<load, remote>> /\ Dirty' = Dirty /\ Writing' = Writing /\ Clearing' = Clearing
  /\ \A t \in Threads : th'[t].st = "clear" => th'[t] = th[t]

LEMMA NothingSent ==
  ASSUME UNCHANGED <<load, remote, net, line, batch>>,
         \A t \in Threads :
           th[t].st \in {"clear", "line"} \/ th'[t].st \in {"clear", "line"} => th'[t] = th[t]
  PROVE  Stays
<1>1. {th'[t].o : t \in {u \in Threads : th'[u].st \in {"clear", "line"}}}
      = {th[t].o : t \in {u \in Threads : th[u].st \in {"clear", "line"}}}
  <2>1. {u \in Threads : th'[u].st \in {"clear", "line"}} = {u \in Threads : th[u].st \in {"clear", "line"}}
    OBVIOUS
  <2>2. \A u \in {v \in Threads : th[v].st \in {"clear", "line"}} : th'[u].o = th[u].o
    OBVIOUS
  <2> QED BY <2>1, <2>2
<1>2. Unexecuted' = Unexecuted
  BY <1>1 DEF Unexecuted
<1>3. Dirty' = Dirty /\ Writing' = Writing
  BY <1>2 DEF Dirty, Writing, PendingWrite
<1>4. Clearing' = Clearing
  BY DEF Clearing
<1> QED BY <1>3, <1>4 DEF Stays

LEMMA WritingIsDirty == \A p \in Writing : p \in Dirty
<1>1. SUFFICES ASSUME NEW p \in Writing PROVE p \in Dirty
  OBVIOUS
<1>2. PICK o \in Unexecuted : o.kind = "write" /\ o.p = p
  BY DEF Writing, PendingWrite
<1>3. p \in Changed(o)
  BY <1>2 DEF Changed, Changing
<1> QED BY <1>2, <1>3 DEF Dirty

\* A reader or the completion thread moves.
Known(i, p, e) ==
  (i = 0 /\ e = area[0].epoch + 1 /\ load.ahead # 0) \/ \E w \in Flights : w.epoch = e /\ w.file = p
Follows(c) ==
  ReplyOK(c) /\ \/ \E d \in Replies : d.w = c.w /\ d.val = c.val
                \/ c.w \in Flights /\ c.val \in {NoReply, Sector(remote, c.w.file, c.w.sec)}
Shifts ==
  /\ Stays /\ late' = late
  /\ KeepsAreas \/ \E i \in Areas, p \in Paths, e \in Nat : Tasks(i, p, e) /\ Known(i, p, e)
  /\ \A w \in Flights' : w \in Flights \/ Fresh(w)
  /\ load.ahead = 0 => Flights' = {}
  /\ \A c \in Replies' : Follows(c)
  /\ \E S : answers' \in Seq(S)

LEMMA RepliesAre ==
  \A c : c \in Replies <=> (\E k \in DOMAIN answers : c = answers[k]) \/ (cb # NoCb /\ c = cb)
BY DEF Replies

LEMMA ReadShifts ==
  ASSUME ClientOK, ShapeOK, OffOK, NEW t \in Threads, ReadStatus(t) \/ ReadTask(t) \/ ReadWait(t)
  PROVE  Shifts
<1>1. th[t].st \in {"status", "task", "wait"} /\ late' = late /\ UNCHANGED <<answers, cb>> /\ load' = load
  BY DEF ReadStatus, ReadTask, ReadWait, histvars
<1>2. GoesOn(t) /\ UNCHANGED <<load, remote, net, line, batch>>
  <2>1. ThreadsOK
    BY DEF ClientOK, ThreadsOK
  <2> QED BY <2>1, ReadEffect DEF core
<1>3. \A u \in Threads : u # t => th'[u] = th[u]
  BY <1>2 DEF GoesOn, Others
<1>4. th'[t].st \notin {"clear", "line"}
  BY <1>2, IdleOK DEF GoesOn
<1>5. Stays
  BY <1>1, <1>2, <1>3, <1>4, NothingSent
<1>6. Replies' = Replies /\ \E S : answers' \in Seq(S)
  BY <1>1 DEF Replies, ShapeOK
<1>7. \A c \in Replies' : Follows(c)
  BY <1>6 DEF Follows, ShapeOK
<1>8. load.ahead # 0
  BY <1>1 DEF OffOK
<1>9. ASSUME NEW N, fetches' = fetches \cup N, \A w \in N : Fresh(w)
      PROVE  \A w \in Flights' : w \in Flights \/ Fresh(w)
  BY <1>6, <1>9 DEF Flights
<1>10. CASE ReadTask(t)
  <2> DEFINE o == th[t].o
             e == area[0].epoch + 1
  <2>1. o.p \in Paths
    BY <1>1 DEF ClientOK, ThreadOK, Requests
  <2>2. e \in Nat /\ 0 \in Areas
    BY DEF ShapeOK, AreaOK, Areas
  <2>3. SetTask(0, o.p, o.s, load.ahead, e, Dirty)
    BY <1>10 DEF ReadTask
  <2> HIDE DEF o
  <2>4. \/ KeepsAreas /\ fetches' = fetches
        \/ Tasks(0, o.p, e) /\ \E N : AsksFor(N)
    BY <2>1, <2>2, <2>3, TaskEffect
  <2>5. \A w \in Flights' : w \in Flights \/ Fresh(w)
    BY <1>6, <1>9, <2>4 DEF AsksFor, Flights
  <2>6. Known(0, o.p, e)
    BY <1>8 DEF Known
  <2> HIDE DEF e
  <2> QED BY <1>1, <1>5, <1>6, <1>7, <1>8, <2>1, <2>2, <2>4, <2>5, <2>6 DEF Shifts
<1>11. CASE ReadStatus(t) \/ ReadWait(t)
  <2>1. fetches' = fetches
    BY <1>11 DEF ReadStatus, ReadWait
  <2>2. area' = area \/ \E i, s : area' = Passed(i, s)
    BY <1>11 DEF ReadStatus, ReadWait
  <2>3. KeepsAreas
    <3>1. CASE area' = area
      BY <3>1 DEF KeepsAreas, Kept, ShapeOK
    <3>2. CASE \E i, s : area' = Passed(i, s)
      <4>1. PICK i, s : area' = Passed(i, s)
        BY <3>2
      <4>2. PICK x : area' = [area EXCEPT ![i] = [@ EXCEPT !.cursor = x]]
        BY <4>1 DEF Passed
      <4>3. CASE i \in Areas
        BY <4>2, <4>3, CursorKeeps
      <4>4. CASE i \notin Areas
        BY <4>2, <4>4 DEF KeepsAreas, Kept, ShapeOK
      <4> QED BY <4>3, <4>4
    <3> QED BY <2>2, <3>1, <3>2
  <2>4. Flights' = Flights
    BY <1>6, <2>1 DEF Flights
  <2> QED BY <1>1, <1>5, <1>6, <1>7, <1>8, <2>3, <2>4 DEF Shifts
<1> QED BY <1>10, <1>11

LEMMA FetchStays == ASSUME ClientOK, Fetched PROVE Stays
<1>1. UNCHANGED <<core, th>>
  BY FetchEffect
<1> QED BY <1>1, NothingSent DEF core

LEMMA AnswerShifts ==
  ASSUME ClientOK, ShapeOK, OffOK, NEW w \in fetches, FetchAnswer(w)
  PROVE  Shifts
<1>1. PICK v \in {NoReply, Sector(remote, w.file, w.sec)} : Answer(w, v)
  BY DEF FetchAnswer
<1> DEFINE c == [n |-> 2, w |-> w, val |-> v]
<1>2. /\ ReplyOK(c) /\ c.w = w /\ c.val = v
  BY DEF ReplyOK
<1>3. fetches' = fetches \ {w} /\ answers' = Append(answers, c) /\ UNCHANGED <<area, seen, cb>>
  BY <1>1 DEF Answer
<1> HIDE DEF c
<1>4. PICK S : answers \in Seq(S)
  BY DEF ShapeOK
<1>5. /\ answers' \in Seq(S \cup {c})
      /\ \A d \in Replies' : d \in Replies \/ d = c
  <2>1. answers \in Seq(S \cup {c})
    BY <1>4
  <2>2. /\ answers' \in Seq(S \cup {c}) /\ Len(answers') = Len(answers) + 1
        /\ \A k \in 1 .. Len(answers) : answers'[k] = answers[k]
        /\ answers'[Len(answers) + 1] = c
    BY <1>3, <2>1
  <2>3. \A k \in DOMAIN answers' : answers'[k] = c \/ (k \in DOMAIN answers /\ answers'[k] = answers[k])
    BY <2>1, <2>2
  <2> QED BY <1>3, <2>2, <2>3 DEF Replies
<1>6. w \in Flights
  BY DEF Flights
<1>7. \A u \in Flights' : u \in Flights
  BY <1>2, <1>3, <1>5, <1>6 DEF Flights
<1>8. \A d \in Replies' : Follows(d)
  <2>1. SUFFICES ASSUME NEW d \in Replies' PROVE Follows(d)
    OBVIOUS
  <2>2. CASE d \in Replies
    BY <2>2 DEF Follows, ShapeOK
  <2>3. CASE d = c
    BY <1>1, <1>2, <1>6, <2>3 DEF Follows
  <2> QED BY <1>5, <2>2, <2>3
<1>9. KeepsAreas
  BY <1>3 DEF KeepsAreas, Kept, ShapeOK
<1>10. Stays /\ late' = late
  BY FetchStays DEF Fetched, FetchAnswer, histvars
<1>11. load.ahead # 0
  BY <1>6 DEF OffOK
<1> QED BY <1>5, <1>7, <1>8, <1>9, <1>10, <1>11 DEF Shifts

LEMMA CallbackShifts ==
  ASSUME ClientOK, ShapeOK, OffOK, FetchCallback
  PROVE  Shifts
<1> DEFINE c == Head(answers)
           i == c.w.buf
           x == (area[i].onlink + Width - 1) % Width
           y == area[i].wanted \ {c.w.sec}
<1>1. cb = NoCb /\ answers # <<>> /\ answers' = Tail(answers) /\ fetches' = fetches
  BY DEF FetchCallback, Callback
<1>2. /\ area' = area \/ area' = [area EXCEPT ![i] = [@ EXCEPT !.onlink = x, !.wanted = y]]
      /\ cb' = cb \/ cb' = c \/ cb' = NoCb
  BY DEF FetchCallback, Callback
<1>3. PICK S : answers \in Seq(S)
  BY DEF ShapeOK
<1>4. /\ 1 \in DOMAIN answers /\ c = answers[1] /\ answers' \in Seq(S)
      /\ \A k \in DOMAIN answers' : k + 1 \in DOMAIN answers /\ answers'[k] = answers[k + 1]
  BY <1>1, <1>3
<1>5. c \in Replies /\ ReplyOK(c)
  BY <1>4 DEF Replies, ShapeOK
<1>6. c.w \in Flights /\ i \in Areas
  BY <1>5 DEF Flights, ShapeOK, FlightOK
<1> HIDE DEF c, x, y
<1>7. \A d \in Replies' : d \in Replies
  BY <1>1, <1>2, <1>4, <1>5 DEF Replies
<1>8. \A d \in Replies' : Follows(d)
  BY <1>7 DEF Follows, ShapeOK
<1>9. \A u \in Flights' : u \in Flights
  BY <1>1, <1>7 DEF Flights
<1>10. KeepsAreas
  <2>1. CASE area' = area
    BY <2>1 DEF KeepsAreas, Kept, ShapeOK
  <2>2. CASE area' = [area EXCEPT ![i] = [@ EXCEPT !.onlink = x, !.wanted = y]]
    <3> DEFINE a == [area[i] EXCEPT !.onlink = x, !.wanted = y]
    <3>1. AreaOK(area[i])
      BY <1>6 DEF ShapeOK
    <3>2. AreaOK(a) /\ a.file = area[i].file /\ a.epoch = area[i].epoch /\ a.gen = area[i].gen /\ a.have = area[i].have
      BY <3>1 DEF AreaOK, IsArea
    <3>3. area' = [area EXCEPT ![i] = a]
      BY <2>2
    <3> HIDE DEF a, i
    <3>4. DOMAIN area' = Areas /\ area'[i] = a /\ \A j \in Areas \ {i} : Kept(j)
      BY <1>6, <3>3, OneArea
    <3>5. Kept(i)
      BY <3>2, <3>4 DEF Kept
    <3> QED BY <3>4, <3>5 DEF KeepsAreas
  <2> QED BY <1>2, <2>1, <2>2
<1>11. Stays /\ late' = late
  BY FetchStays DEF Fetched, FetchCallback, cvars
<1>12. load.ahead # 0
  BY <1>6 DEF OffOK
<1> QED BY <1>4, <1>8, <1>9, <1>10, <1>11, <1>12 DEF Shifts

LEMMA ChainShifts ==
  ASSUME ClientOK, ShapeOK, OffOK, FetchChain
  PROVE  Shifts
<1> DEFINE w == cb.w
           i == w.buf
           j == 1 - i
<1>1. cb # NoCb /\ cb' = NoCb /\ answers' = answers /\ Chain(Dirty)
  BY DEF FetchChain, Chain
<1>2. cb \in Replies /\ ReplyOK(cb) /\ w \in Flights
  BY <1>1 DEF Replies, Flights, ShapeOK
<1>3. FlightOK(w) /\ i \in Areas /\ j \in Areas /\ w.file \in Paths /\ w.epoch \in Nat
  BY <1>2 DEF ShapeOK, FlightOK, Areas
<1>4. \A d \in Replies' : d \in Replies
  BY <1>1 DEF Replies
<1>5. \A d \in Replies' : Follows(d)
  BY <1>4 DEF Follows, ShapeOK
<1>6. ASSUME NEW N, fetches' = fetches \cup N, \A u \in N : Fresh(u)
      PROVE  \A u \in Flights' : u \in Flights \/ Fresh(u)
  BY <1>4, <1>6 DEF Flights
<1>7. \/ UNCHANGED <<area, fetches>>
      \/ \E k \in Areas : /\ area' = [area EXCEPT ![k] = Asking(area[k])]
                          /\ fetches' = fetches \cup Fetches(k, area[k], Dirty)
      \/ SetTask(j, w.file, area[i].cur, area[i].max, w.epoch, Dirty)
  BY <1>1, <1>3, Zenon DEF Chain
<1>8. \/ KeepsAreas /\ fetches' = fetches
      \/ KeepsAreas /\ \E N : AsksFor(N)
      \/ Tasks(j, w.file, w.epoch) /\ \E N : AsksFor(N)
  <2>1. CASE UNCHANGED <<area, fetches>>
    BY <2>1 DEF KeepsAreas, Kept, ShapeOK
  <2>2. CASE \E k \in Areas : /\ area' = [area EXCEPT ![k] = Asking(area[k])]
                              /\ fetches' = fetches \cup Fetches(k, area[k], Dirty)
    BY <2>2, AskEffect
  <2>3. CASE SetTask(j, w.file, area[i].cur, area[i].max, w.epoch, Dirty)
    <3> HIDE DEF w, i, j
    <3> QED BY <1>3, <2>3, TaskEffect
  <2> QED BY <1>7, <2>1, <2>2, <2>3
<1> HIDE DEF i, j
<1>9. \A u \in Flights' : u \in Flights \/ Fresh(u)
  <2>1. CASE fetches' = fetches
    BY <1>4, <2>1 DEF Flights
  <2>2. CASE \E N : AsksFor(N)
    BY <1>6, <2>2 DEF AsksFor
  <2> QED BY <1>8, <2>1, <2>2
<1>10. Known(j, w.file, w.epoch)
  BY <1>2 DEF Known
<1>11. Stays /\ late' = late
  BY FetchStays DEF Fetched, FetchChain, cvars
<1>12. load.ahead # 0
  BY <1>2 DEF OffOK
<1>13. \E S : answers' \in Seq(S)
  BY <1>1 DEF ShapeOK
<1> HIDE DEF w
<1> QED BY <1>3, <1>5, <1>8, <1>9, <1>10, <1>11, <1>12, <1>13 DEF Shifts

-----------------------------------------------------------------------------
(* What the readers and the completion thread do keeps the invariant. *)

LEMMA ShiftedAreas ==
  ASSUME Shifts
  PROVE  /\ DOMAIN area' = Areas
         /\ \/ \A i \in Areas : Kept(i)
            \/ \E i \in Areas, p \in Paths, e \in Nat :
                 Tasked(i, p, e) /\ Known(i, p, e) /\ \A j \in Areas \ {i} : Kept(j)
         /\ \A i \in Areas : Kept(i) \/ \E p \in Paths, e \in Nat : Tasked(i, p, e) /\ Known(i, p, e)
<1>1. KeepsAreas \/ \E i \in Areas, p \in Paths, e \in Nat : Tasks(i, p, e) /\ Known(i, p, e)
  BY DEF Shifts
<1>2. CASE KeepsAreas
  BY <1>2 DEF KeepsAreas
<1>3. CASE \E i \in Areas, p \in Paths, e \in Nat : Tasks(i, p, e) /\ Known(i, p, e)
  <2>1. PICK i \in Areas, p \in Paths, e \in Nat : Tasks(i, p, e) /\ Known(i, p, e)
    BY <1>3
  <2> QED BY <2>1 DEF Tasks
<1> QED BY <1>1, <1>2, <1>3

LEMMA ShiftedShape == ASSUME ShapeOK, Shifts PROVE ShapeOK'
<1>1. \A i \in Areas : AreaOK(area'[i])
  BY ShiftedAreas DEF Kept, Tasked
<1>2. \A c \in Replies' : ReplyOK(c)
  BY DEF Shifts, Follows
<1>3. \A w \in Flights' : FlightOK(w)
  <2>1. ASSUME NEW w, Fresh(w) PROVE FlightOK(w)
    <3>1. w.buf \in Areas /\ w.file \in Paths /\ w.raced \in BOOLEAN
      BY <2>1 DEF Fresh
    <3>2. w.epoch \in Nat /\ w.gen \in Nat
      BY <1>1, <2>1, <3>1 DEF Fresh, AreaOK
    <3> QED BY <3>1, <3>2 DEF FlightOK
  <2> QED BY <2>1 DEF Shifts, ShapeOK
<1>4. \A t \in Threads : th'[t].st = "clear" => th'[t].ans \in Nat
  BY DEF Shifts, Stays, ShapeOK
<1>5. DOMAIN area' = Areas /\ \E S : answers' \in Seq(S)
  BY ShiftedAreas DEF Shifts
<1> QED BY <1>1, <1>2, <1>3, <1>4, <1>5 DEF ShapeOK

\* What was on its way and is timely was timely.
LEMMA ShiftedLive ==
  ASSUME ShapeOK, OrderOK, Shifts, NEW w \in Flights, w \in Live'
  PROVE  w \in Live
<1>1. /\ FlightOK(w) /\ ~w.raced /\ w.gen = area'[w.buf].gen /\ w.epoch = area'[w.buf].epoch
      /\ AreaOK(area[w.buf])
  BY DEF Live, Timely, ShapeOK, FlightOK
<1>2. CASE Kept(w.buf)
  BY <1>1, <1>2 DEF Kept, Live, Timely
<1>3. CASE \E p \in Paths, e \in Nat : Tasked(w.buf, p, e)
  <2>1. PICK p \in Paths, e \in Nat : Tasked(w.buf, p, e)
    BY <1>3
  <2>2. w.gen = area[w.buf].gen /\ w.epoch = e /\ area[w.buf].epoch <= e
    BY <1>1, <2>1 DEF Tasked
  <2>3. w.epoch <= area[w.buf].epoch
    BY <2>2 DEF OrderOK
  <2>4. w.epoch = area[w.buf].epoch
    BY <1>1, <2>2, <2>3 DEF AreaOK
  <2> QED BY <1>1, <2>2, <2>4 DEF Live, Timely
<1> QED BY <1>1, <1>2, <1>3, ShiftedAreas DEF FlightOK

LEMMA FlightEpochs ==
  ASSUME EpochsOK
  PROVE  /\ \A w \in Flights : w.epoch <= area[0].epoch
         /\ \A w, u \in Flights : w.epoch = u.epoch => w.file = u.file
<1>1. \A w \in Flights : InUse(w.epoch, w.file)
  BY DEF InUse
<1> QED BY <1>1 DEF EpochsOK

LEMMA ShiftedOrder == ASSUME ShapeOK, EpochsOK, OrderOK, Shifts PROVE OrderOK'
<1>1. SUFFICES ASSUME NEW w \in Flights'
               PROVE  /\ w.gen <= area'[w.buf].gen
                      /\ w.gen = area'[w.buf].gen => w.epoch <= area'[w.buf].epoch
                      /\ w.gen = area'[w.buf].gen /\ w.epoch = area'[w.buf].epoch => w.file = area'[w.buf].file
  BY DEF OrderOK
<1>2. FlightOK(w) /\ AreaOK(area'[w.buf])
  BY <1>1, ShiftedShape DEF ShapeOK, FlightOK
<1>3. CASE Fresh(w)
  BY <1>2, <1>3 DEF Fresh, FlightOK
<1>4. CASE w \in Flights
  <2>0. AreaOK(area[w.buf]) /\ AreaOK(area[0])
    BY <1>4, <1>2 DEF ShapeOK, FlightOK, Areas
  <2>1. /\ w.gen <= area[w.buf].gen
        /\ w.gen = area[w.buf].gen => w.epoch <= area[w.buf].epoch
        /\ w.gen = area[w.buf].gen /\ w.epoch = area[w.buf].epoch => w.file = area[w.buf].file
    BY <1>4 DEF OrderOK
  <2>2. CASE Kept(w.buf)
    BY <2>1, <2>2 DEF Kept
  <2>3. CASE \E p \in Paths, e \in Nat : Tasked(w.buf, p, e) /\ Known(w.buf, p, e)
    <3>1. PICK p \in Paths, e \in Nat : Tasked(w.buf, p, e) /\ Known(w.buf, p, e)
      BY <2>3
    <3>2. /\ area'[w.buf].gen = area[w.buf].gen /\ area'[w.buf].epoch = e /\ area'[w.buf].file = p
          /\ area[w.buf].epoch <= e
      BY <3>1 DEF Tasked
    <3>3. w.gen = area[w.buf].gen => w.epoch <= e
      BY <1>2, <2>0, <2>1, <3>2 DEF FlightOK, AreaOK
    <3>4. ASSUME w.epoch = e PROVE w.file = p
      <4>1. ~(e = area[0].epoch + 1)
        BY <1>4, <2>0, <3>4, FlightEpochs DEF AreaOK
      <4>2. PICK u \in Flights : u.epoch = e /\ u.file = p
        BY <3>1, <4>1 DEF Known
      <4> QED BY <1>4, <3>4, <4>2, FlightEpochs
    <3> QED BY <2>1, <3>2, <3>3, <3>4
  <2> QED BY <1>2, <2>2, <2>3, ShiftedAreas DEF FlightOK
<1> QED BY <1>1, <1>3, <1>4 DEF Shifts

LEMMA ShiftedCleared == ASSUME ShapeOK, OrderOK, ClearedOK, Shifts PROVE ClearedOK'
<1>1. SUFFICES ASSUME NEW p \in Writing \ late, NEW i \in Areas, Untouched(p, i)
               PROVE  /\ area'[i].file = p => DOMAIN area'[i].have = {}
                      /\ \A w \in Live' : w.buf = i => w.file # p
  BY DEF ClearedOK, Untouched, Shifts, Stays, Areas
<1>2. area'[i].file = p => DOMAIN area'[i].have = {}
  <2>1. CASE Kept(i)
    BY <1>1, <2>1 DEF Kept, Untouched
  <2>2. CASE \E q \in Paths, e \in Nat : Tasked(i, q, e)
    BY <2>2 DEF Tasked
  <2> QED BY <2>1, <2>2, ShiftedAreas
<1>3. ASSUME NEW w \in Live', w.buf = i, w.file = p PROVE FALSE
  <2>1. w \in Flights' /\ ~w.raced
    BY <1>3 DEF Live
  <2>2. p \in Dirty
    BY WritingIsDirty
  <2>3. CASE Fresh(w)
    BY <1>3, <2>1, <2>2, <2>3 DEF Fresh
  <2>4. CASE w \in Flights
    <3>1. w \in Live
      BY <1>3, <2>4, ShiftedLive
    <3> QED BY <1>1, <1>3, <3>1 DEF Untouched
  <2> QED BY <2>1, <2>3, <2>4 DEF Shifts
<1> QED BY <1>2, <1>3

\* The epochs that are in use are those that were, or that of the new task.
InUseNext(e, f) ==
  \/ \E w \in Flights' : w.epoch = e /\ w.file = f
  \/ \E i \in Areas : area'[i].file # NoPath /\ area'[i].epoch = e /\ area'[i].file = f

LEMMA EpochsNext ==
  ASSUME \A e, f : InUseNext(e, f) => e <= area'[0].epoch,
         \A e, f, g : InUseNext(e, f) /\ InUseNext(e, g) => f = g
  PROVE  EpochsOK'
BY DEF EpochsOK, InUse, InUseNext

LEMMA FreshInUse ==
  ASSUME NEW w, Fresh(w)
  PROVE  area'[w.buf].file # NoPath /\ w.buf \in Areas /\ area'[w.buf].epoch = w.epoch /\ area'[w.buf].file = w.file
BY AheadAssumption DEF Fresh

LEMMA ShiftedEpochs == ASSUME ShapeOK, EpochsOK, Shifts PROVE EpochsOK'
<1>0. AreaOK(area[0]) /\ \A i \in Areas : AreaOK(area[i])
  BY DEF ShapeOK, Areas
<1>1. /\ \A e, f : InUse(e, f) => e <= area[0].epoch
      /\ \A e, f, g : InUse(e, f) /\ InUse(e, g) => f = g
  BY DEF EpochsOK
<1>2. ASSUME NEW e, NEW f, InUseNext(e, f)
      PROVE  InUse(e, f) \/ \E i \in Areas : area'[i].file # NoPath /\ area'[i].epoch = e /\ area'[i].file = f
  <2>1. SUFFICES ASSUME NEW w \in Flights', w.epoch = e, w.file = f
                 PROVE  InUse(e, f) \/ \E i \in Areas : area'[i].file # NoPath /\ area'[i].epoch = e /\ area'[i].file = f
    BY <1>2 DEF InUseNext
  <2>2. w \in Flights \/ Fresh(w)
    BY DEF Shifts
  <2>3. CASE w \in Flights
    BY <2>1, <2>3 DEF InUse
  <2>4. CASE Fresh(w)
    BY <2>1, <2>4, FreshInUse
  <2> QED BY <2>2, <2>3, <2>4
<1>3. CASE \A i \in Areas : Kept(i)
  <2>1. ASSUME NEW e, NEW f, InUseNext(e, f) PROVE InUse(e, f)
    BY <1>2, <1>3, <2>1 DEF Kept, InUse
  <2>2. area'[0].epoch = area[0].epoch
    BY <1>3 DEF Kept, Areas
  <2> QED BY <1>1, <2>1, <2>2, EpochsNext
<1>4. CASE \E i \in Areas, p \in Paths, e \in Nat :
             Tasked(i, p, e) /\ Known(i, p, e) /\ \A j \in Areas \ {i} : Kept(j)
  <2>1. PICK i \in Areas, p \in Paths, e \in Nat :
          Tasked(i, p, e) /\ Known(i, p, e) /\ \A j \in Areas \ {i} : Kept(j)
    BY <1>4
  <2>2. ASSUME NEW d, NEW f, InUseNext(d, f) PROVE InUse(d, f) \/ (d = e /\ f = p)
    <3>1. InUse(d, f) \/ \E j \in Areas : area'[j].file # NoPath /\ area'[j].epoch = d /\ area'[j].file = f
      BY <1>2, <2>2
    <3>2. SUFFICES ASSUME NEW j \in Areas, area'[j].file # NoPath, area'[j].epoch = d, area'[j].file = f
                   PROVE  InUse(d, f) \/ (d = e /\ f = p)
      BY <3>1
    <3>3. CASE j = i
      BY <2>1, <3>2, <3>3 DEF Tasked
    <3>4. CASE j # i
      BY <2>1, <3>2, <3>4 DEF Kept, InUse
    <3> QED BY <3>3, <3>4
  <2>3. area[0].epoch <= area'[0].epoch /\ area'[0].epoch \in Nat
    <3>1. CASE i = 0
      BY <2>1, <3>1 DEF Tasked
    <3>2. CASE i # 0
      BY <1>0, <2>1, <3>2 DEF Kept, Areas, AreaOK
    <3> QED BY <3>1, <3>2
  <2>4. CASE i = 0 /\ e = area[0].epoch + 1
    <3>1. area'[0].epoch = e /\ area[0].epoch \in Nat
      BY <1>0, <2>1, <2>4 DEF Tasked, AreaOK
    <3>2. \A f : ~InUse(e, f)
      BY <1>1, <2>4, <3>1
    <3>3. \A d, f : InUse(d, f) => d \in Nat
      <4>1. \A w \in Flights : w.epoch \in Nat
        BY DEF ShapeOK, FlightOK
      <4> QED BY <1>0, <4>1 DEF InUse, AreaOK
    <3>4. \A d, f : InUseNext(d, f) => d <= area'[0].epoch
      BY <1>1, <2>1, <2>2, <2>4, <3>1, <3>3
    <3>5. \A d, f, g : InUseNext(d, f) /\ InUseNext(d, g) => f = g
      BY <1>1, <2>2, <3>2
    <3> QED BY <3>4, <3>5, EpochsNext
  <2>5. CASE InUse(e, p)
    <3>1. \A d, f : InUseNext(d, f) => InUse(d, f)
      BY <2>2, <2>5
    <3>2. \A d, f : InUse(d, f) => d \in Nat
      <4>1. \A w \in Flights : w.epoch \in Nat
        BY DEF ShapeOK, FlightOK
      <4> QED BY <1>0, <4>1 DEF InUse, AreaOK
    <3>3. \A d, f : InUseNext(d, f) => d <= area'[0].epoch
      BY <1>0, <1>1, <2>3, <3>1, <3>2 DEF AreaOK
    <3> QED BY <1>1, <3>1, <3>3, EpochsNext
  <2> QED BY <2>1, <2>4, <2>5 DEF Known, InUse
<1> QED BY <1>3, <1>4, ShiftedAreas

LEMMA ShiftedBuffers == ASSUME ShapeOK, BufferedOK, Shifts PROVE BufferedOK'
<1>1. SUFFICES ASSUME NEW i \in Areas, area'[i].file \in Paths \ (late \cup Writing), NEW s \in DOMAIN area'[i].have
               PROVE  area'[i].have[s] # Err /\ area'[i].have[s] = Sector(remote, area'[i].file, s)
  BY DEF BufferedOK, Shifts, Stays, Sector
<1>2. Kept(i)
  BY <1>1, ShiftedAreas DEF Tasked
<1> QED BY <1>1, <1>2 DEF Kept, BufferedOK

LEMMA ShiftedReplies == ASSUME ShapeOK, OrderOK, RepliesOK, Shifts PROVE RepliesOK'
<1>1. SUFFICES ASSUME NEW c \in Replies', c.w \in Live', c.w.file \notin late \cup Writing
               PROVE  c.val \in {NoReply, Err, Sector(remote, c.w.file, c.w.sec)}
  BY DEF RepliesOK, Shifts, Stays, Sector
<1>2. Follows(c)
  BY <1>1 DEF Shifts
<1>3. CASE c.w \in Flights /\ c.val \in {NoReply, Sector(remote, c.w.file, c.w.sec)}
  BY <1>3
<1>4. CASE \E d \in Replies : d.w = c.w /\ d.val = c.val
  <2>1. PICK d \in Replies : d.w = c.w /\ d.val = c.val
    BY <1>4
  <2>2. c.w \in Flights
    BY <2>1 DEF Flights
  <2>3. c.w \in Live
    BY <1>1, <2>2, ShiftedLive
  <2> QED BY <1>1, <2>1, <2>3 DEF RepliesOK
<1> QED BY <1>2, <1>3, <1>4 DEF Follows

-----------------------------------------------------------------------------
(* Without read-ahead no thread comes to it. *)

Reading(t) == th[t].st \in {"status", "task", "wait"}

LEMMA OffThreads ==
  ASSUME ClientOK, OffOK, load.ahead = 0, [Next]_vars
  PROVE  load' = load /\ \A t \in Threads : th'[t].st \notin {"status", "task", "wait"}
<1>0. ThreadsOK /\ QueueOK /\ (\A t \in Threads : ~Reading(t)) /\ load' = load
  <2>1. load' = load
    BY DEF Next, vars, cvars, Begin, Step, Break, ClearSecond, Roomed, Return, ReadStatus, ReadTask, ReadWait,
           Executes, Execute, Fetched, FetchAnswer, FetchCallback, FetchStore, FetchCrash, FetchChain,
           Queue, QueueDispatch, QueueAssign, QueueComplete
  <2> QED BY <2>1 DEF ClientOK, ThreadsOK, OffOK, Reading
<1>1. SUFFICES \A t \in Threads : th'[t] = th[t] \/ th'[t].st \notin {"status", "task", "wait"}
  BY <1>0 DEF Reading
<1>2. ASSUME NEW t \in Threads, NEW r, r.st \notin {"status", "task", "wait"}, th' = [th EXCEPT ![t] = r]
      PROVE  \A u \in Threads : th'[u] = th[u] \/ th'[u].st \notin {"status", "task", "wait"}
  BY <1>0, <1>2, OneMoves DEF Others
<1>3. ASSUME NEW t \in Threads, NEW o \in Requests, o.vals = <<o.id>>, Go(t, o)
      PROVE  \A u \in Threads : th'[u] = th[u] \/ th'[u].st \notin {"status", "task", "wait"}
  <2>1. Goes(t, o)
    BY <1>0, <1>3, GoEffect
  <2> QED BY <2>1, IdleOK DEF Goes, Others, Queues, Sends
<1>4. CASE \E t \in Threads, o \in Calls : Begin(t, o)
  <2>1. PICK t \in Threads, o \in Calls : Begin(t, o)
    BY <1>4
  <2>2. load.ahead > 0 => FALSE
    OBVIOUS
  <2>3. th' = th \/ Go(t, o)
    BY <2>1, <2>2 DEF Begin
  <2> QED BY <1>3, <2>3, CallsAreRequests
<1>5. CASE \E t \in Threads : Step(t) \/ Break(t)
  <2>1. PICK t \in Threads : Step(t) \/ Break(t)
    BY <1>5
  <2>2. CASE ClearSecond(t)
    <3>1. th[t].o \in Requests /\ th[t].o.vals = <<th[t].o.id>> /\ Go(t, th[t].o)
      BY <2>2 DEF ClearSecond, ClientOK, ThreadOK
    <3> QED BY <1>3, <3>1
  <2>3. CASE Roomed(t) \/ Return(t) \/ Break(t)
    <3>1. th' = [th EXCEPT ![t] = Idle]
      BY <2>3 DEF Roomed, Return, Break
    <3> QED BY <1>2, <3>1, IdleOK
  <2>4. CASE ReadStatus(t) \/ ReadTask(t) \/ ReadWait(t)
    BY <1>0, <2>4 DEF ReadStatus, ReadTask, ReadWait, Reading
  <2> QED BY <2>1, <2>2, <2>3, <2>4 DEF Step
<1>6. CASE Executes
  <2>1. PICK o \in net : Execute(o)
    BY <1>6 DEF Executes
  <2>2. PICK ans : Reply(o, ans)
    BY <2>1 DEF Execute
  <2>3. \A t \in Threads : th'[t] = th[t] \/ th'[t] = At("back", o, ans)
    BY <2>2 DEF Reply
  <2> QED BY <2>3, AtOK
<1>7. CASE Fetched \/ Queue \/ UNCHANGED vars
  <2>1. th' = th
    BY <1>7, FetchEffect DEF vars, cvars, Queue, QueueDispatch, QueueAssign, QueueComplete
  <2> QED BY <2>1
<1> QED BY <1>4, <1>5, <1>6, <1>7 DEF Next

-----------------------------------------------------------------------------
(* A sector is stored. *)

LEMMA StoreKeeps ==
  ASSUME ClientOK, SectorsOK, FetchStore
  PROVE  /\ load.ahead # 0 /\ Stays /\ late \subseteq late'
         /\ \A d \in Replies' : ReplyOK(d) /\ \E c \in Replies : d.w = c.w /\ d.val = c.val
         /\ \A w \in Flights' : w \in Flights
         /\ DOMAIN area' = Areas /\ \A i \in Areas : /\ AreaOK(area'[i]) /\ area'[i].file = area[i].file
                               /\ area'[i].epoch = area[i].epoch /\ area'[i].gen = area[i].gen
         /\ \A w \in Live' : w \in Live
<1>1. cb # NoCb /\ cb \in Replies /\ cb.w \in Flights /\ ReplyOK(cb) /\ FlightOK(cb.w) /\ Store
  BY DEF FetchStore, Store, Replies, Flights, SectorsOK, ShapeOK
<1>2. load.ahead # 0
  BY <1>1 DEF SectorsOK, OffOK
<1>3. Stays /\ late \subseteq late'
  BY FetchStays DEF Fetched, FetchStore
<1>4. fetches' = fetches /\ answers' = answers /\ (cb' = NoCb \/ cb' = [cb EXCEPT !.n = 3])
  BY <1>1 DEF Store
<1>5. \A d \in Replies' : ReplyOK(d) /\ \E c \in Replies : d.w = c.w /\ d.val = c.val
  <2>1. [cb EXCEPT !.n = 3].w = cb.w /\ [cb EXCEPT !.n = 3].val = cb.val /\ ReplyOK([cb EXCEPT !.n = 3])
    BY <1>1 DEF ReplyOK
  <2>2. \A d \in Replies' : d \in Replies \/ d = [cb EXCEPT !.n = 3]
    BY <1>4 DEF Replies
  <2>3. \A c \in Replies : ReplyOK(c)
    BY DEF SectorsOK, ShapeOK
  <2> QED BY <1>1, <2>1, <2>2, <2>3
<1>6. \A w \in Flights' : w \in Flights
  BY <1>4, <1>5 DEF Flights
<1>7. DOMAIN area' = Areas /\ \A i \in Areas : /\ AreaOK(area'[i]) /\ area'[i].file = area[i].file
                         /\ area'[i].epoch = area[i].epoch /\ area'[i].gen = area[i].gen
  <2>0. DOMAIN area = Areas /\ \A i \in Areas : AreaOK(area[i])
    BY DEF SectorsOK, ShapeOK
  <2>1. CASE area' = area
    BY <2>0, <2>1
  <2>2. CASE area' # area
    <3> DEFINE x == [s \in DOMAIN area[cb.w.buf].have \cup {cb.w.sec} |-> IF s = cb.w.sec THEN cb.val ELSE area[cb.w.buf].have[s]]
               a == [area[cb.w.buf] EXCEPT !.have = x]
    <3>1. area' = [area EXCEPT ![cb.w.buf] = a]
      BY <1>1, <2>2 DEF Store
    <3> HIDE DEF x
    <3>2. cb.w.buf \in Areas
      BY <1>1 DEF FlightOK
    <3>3. AreaOK(a) /\ a.file = area[cb.w.buf].file /\ a.epoch = area[cb.w.buf].epoch /\ a.gen = area[cb.w.buf].gen
      BY <2>0, <3>2 DEF AreaOK, IsArea
    <3> HIDE DEF a
    <3> QED BY <2>0, <3>1, <3>2, <3>3
  <2> QED BY <2>1, <2>2
<1>8. \A w \in Live' : w \in Live
  <2>1. SUFFICES ASSUME NEW w \in Flights', ~w.raced, w.gen = area'[w.buf].gen, w.epoch = area'[w.buf].epoch
                 PROVE  w \in Live
    BY DEF Live, Timely
  <2>2. w \in Flights /\ w.buf \in Areas
    BY <1>6 DEF SectorsOK, ShapeOK, FlightOK
  <2> QED BY <1>7, <2>1, <2>2 DEF Live, Timely
<1> QED BY <1>2, <1>3, <1>5, <1>6, <1>7, <1>8

\* Which sector of which area is stored; one that is not live makes its file late if it is wrong.
LEMMA StoreStores ==
  ASSUME ClientOK, SectorsOK, FetchStore
  PROVE  \A i \in Areas :
           \/ area'[i].have = area[i].have
           \/ /\ cb \in Replies /\ cb.w.buf = i /\ cb.val \notin {Err, NoReply}
              /\ \A s \in DOMAIN area'[i].have :
                   (s = cb.w.sec /\ area'[i].have[s] = cb.val)
                   \/ (s \in DOMAIN area[i].have /\ area'[i].have[s] = area[i].have[s])
              /\ cb.w \in Live
                 \/ (area[i].file = NoPath \/ area[i].file \in late'
                     \/ (cb.val = Sector(remote, area[i].file, cb.w.sec) /\ area[i].file \notin Dirty))
<1>1. cb # NoCb /\ cb \in Replies /\ cb.w \in Flights /\ FlightOK(cb.w) /\ Store
  BY DEF FetchStore, Store, Replies, Flights, SectorsOK, ShapeOK
<1>2. SUFFICES ASSUME NEW i \in Areas, area'[i].have # area[i].have
      PROVE  /\ cb \in Replies /\ cb.w.buf = i /\ cb.val \notin {Err, NoReply}
             /\ \A s \in DOMAIN area'[i].have :
                   (s = cb.w.sec /\ area'[i].have[s] = cb.val)
                   \/ (s \in DOMAIN area[i].have /\ area'[i].have[s] = area[i].have[s])
             /\ cb.w \in Live
                 \/ (area[i].file = NoPath \/ area[i].file \in late'
                     \/ (cb.val = Sector(remote, area[i].file, cb.w.sec) /\ area[i].file \notin Dirty))
  OBVIOUS
<1>3. cb.val # NoReply /\ cb.val # Err /\ area' = [area EXCEPT ![cb.w.buf].have =
                 [s \in DOMAIN @ \cup {cb.w.sec} |-> IF s = cb.w.sec THEN cb.val ELSE @[s]]]
  <2>1. area' # area
    BY <1>2
  <2>2. cb.val # Err
    BY <1>1, <2>1, Zenon DEF Store
  <2> QED BY <1>1, <2>2, Zenon DEF Store
<1>4. DOMAIN area = Areas /\ IsArea(area[i]) /\ cb.w.buf \in Areas
  BY <1>1 DEF SectorsOK, ShapeOK, AreaOK, FlightOK
<1>5. cb.w.buf = i
  BY <1>2, <1>3, <1>4
<1>6. area'[i].have = [s \in DOMAIN area[i].have \cup {cb.w.sec} |->
                          IF s = cb.w.sec THEN cb.val ELSE area[i].have[s]]
  BY <1>3, <1>4, <1>5 DEF IsArea
<1>7. \A s \in DOMAIN area'[i].have :
        (s = cb.w.sec /\ area'[i].have[s] = cb.val)
        \/ (s \in DOMAIN area[i].have /\ area'[i].have[s] = area[i].have[s])
  BY <1>6
<1>8. cb.w \in Live
      \/ (area[i].file = NoPath \/ area[i].file \in late'
          \/ (cb.val = Sector(remote, area[i].file, cb.w.sec) /\ area[i].file \notin Dirty))
  <2>1. SUFFICES ASSUME cb.w.raced \/ ~Timely(cb.w), area[i].file # NoPath,
                        cb.val # Sector(remote, area[i].file, cb.w.sec) \/ area[i].file \in Dirty
                 PROVE  area[i].file \in late'
    BY <1>1 DEF Live
  <2> QED BY <1>5, <2>1 DEF FetchStore
<1> QED BY <1>1, <1>3, <1>5, <1>7, <1>8

LEMMA StoredOrder == ASSUME ClientOK, SectorsOK, FetchStore PROVE ShapeOK' /\ EpochsOK' /\ OrderOK'
<1>1. /\ Stays /\ late \subseteq late'
      /\ \A d \in Replies' : ReplyOK(d) /\ \E c \in Replies : d.w = c.w /\ d.val = c.val
      /\ \A w \in Flights' : w \in Flights
      /\ DOMAIN area' = Areas /\ \A i \in Areas : /\ AreaOK(area'[i]) /\ area'[i].file = area[i].file
                                                  /\ area'[i].epoch = area[i].epoch /\ area'[i].gen = area[i].gen
  BY StoreKeeps
<1>2. answers' = answers
  BY DEF FetchStore, Store
<1>3. ShapeOK'
  BY <1>1, <1>2 DEF ShapeOK, SectorsOK, Stays
<1>4. ASSUME NEW e, NEW f, InUseNext(e, f) PROVE InUse(e, f)
  BY <1>1, <1>4 DEF InUseNext, InUse
<1>5. area'[0].epoch = area[0].epoch
  BY <1>1 DEF Areas
<1>6. EpochsOK'
  BY <1>4, <1>5, EpochsNext DEF SectorsOK, EpochsOK
<1>7. OrderOK'
  BY <1>1 DEF OrderOK, SectorsOK, ShapeOK, FlightOK
<1> QED BY <1>3, <1>6, <1>7

LEMMA StoredCleared == ASSUME ClientOK, SectorsOK, FetchStore PROVE ClearedOK'
<1>1. /\ Stays /\ late \subseteq late'
      /\ \A i \in Areas : area'[i].file = area[i].file
      /\ \A w \in Live' : w \in Live
  BY StoreKeeps
<1>2. SUFFICES ASSUME NEW p \in Writing \ late', NEW i \in Areas, Untouched(p, i)
               PROVE  /\ area'[i].file = p => DOMAIN area'[i].have = {}
                      /\ \A w \in Live' : w.buf = i => w.file # p
  BY <1>1 DEF SectorsOK, ClearedOK, Untouched, Stays, Areas
<1>3. ASSUME area[i].file = p, area'[i].have # area[i].have PROVE FALSE
  <2>1. /\ cb \in Replies /\ cb.w.buf = i
        /\ cb.w \in Live
           \/ (area[i].file = NoPath \/ area[i].file \in late'
               \/ (cb.val = Sector(remote, area[i].file, cb.w.sec) /\ area[i].file \notin Dirty))
    BY <1>3, StoreStores
  <2>2. p \in Paths /\ p # NoPath /\ p \in Dirty
    BY WritingIsDirty, AheadAssumption DEF Writing
  <2>3. cb.w \in Live
    BY <1>2, <1>3, <2>1, <2>2
  <2>4. cb.w.file = p
    <3>1. cb.w \in Flights /\ cb.w.gen = area[i].gen /\ cb.w.epoch = area[i].epoch
      BY <2>1, <2>3 DEF Live, Timely
    <3> QED BY <1>3, <2>1, <3>1 DEF SectorsOK, OrderOK
  <2> QED BY <1>2, <2>1, <2>3, <2>4 DEF Untouched
<1>4. area'[i].file = p => DOMAIN area'[i].have = {}
  BY <1>1, <1>2, <1>3 DEF Untouched
<1>5. \A w \in Live' : w.buf = i => w.file # p
  BY <1>1, <1>2 DEF Untouched
<1> QED BY <1>4, <1>5

LEMMA StoredBuffers == ASSUME ClientOK, SectorsOK, FetchStore PROVE BufferedOK'
<1>1. /\ Stays /\ late \subseteq late'
      /\ \A i \in Areas : area'[i].file = area[i].file
  BY StoreKeeps
<1>2. SUFFICES ASSUME NEW i \in Areas, area[i].file \in Paths \ (late' \cup Writing), NEW s \in DOMAIN area'[i].have
               PROVE  area'[i].have[s] # Err /\ area'[i].have[s] = Sector(remote, area[i].file, s)
  BY <1>1 DEF BufferedOK, Stays, Sector
<1>3. CASE s \in DOMAIN area[i].have /\ area'[i].have[s] = area[i].have[s]
  BY <1>1, <1>2, <1>3 DEF SectorsOK, BufferedOK
<1>4. CASE ~(s \in DOMAIN area[i].have /\ area'[i].have[s] = area[i].have[s])
  <2>1. /\ cb \in Replies /\ cb.w.buf = i /\ cb.val \notin {Err, NoReply}
        /\ s = cb.w.sec /\ area'[i].have[s] = cb.val
        /\ cb.w \in Live
           \/ (area[i].file = NoPath \/ area[i].file \in late'
               \/ (cb.val = Sector(remote, area[i].file, cb.w.sec) /\ area[i].file \notin Dirty))
    BY <1>2, <1>4, StoreStores
  <2>2. area[i].file # NoPath
    BY <1>2, AheadAssumption
  <2>3. CASE cb.w \in Live
    <3>1. cb.w \in Flights /\ cb.w.gen = area[i].gen /\ cb.w.epoch = area[i].epoch
      BY <2>1, <2>3 DEF Live, Timely
    <3>2. cb.w.file = area[i].file
      BY <2>1, <3>1 DEF SectorsOK, OrderOK
    <3>3. cb.val \in {NoReply, Err, Sector(remote, area[i].file, s)}
      BY <1>1, <1>2, <2>1, <2>3, <3>2 DEF SectorsOK, RepliesOK
    <3> QED BY <2>1, <3>3
  <2> QED BY <1>2, <2>1, <2>2, <2>3
<1> QED BY <1>3, <1>4

LEMMA StoredReplies == ASSUME ClientOK, SectorsOK, FetchStore PROVE RepliesOK'
<1>1. /\ Stays /\ late \subseteq late'
      /\ \A d \in Replies' : ReplyOK(d) /\ \E c \in Replies : d.w = c.w /\ d.val = c.val
      /\ \A w \in Live' : w \in Live
  BY StoreKeeps
<1>2. SUFFICES ASSUME NEW d \in Replies', d.w \in Live', d.w.file \notin late \cup Writing
               PROVE  d.val \in {NoReply, Err, Sector(remote, d.w.file, d.w.sec)}
  BY <1>1 DEF RepliesOK, Stays, Sector
<1>3. PICK c \in Replies : d.w = c.w /\ d.val = c.val
  BY <1>1, <1>2
<1> QED BY <1>1, <1>2, <1>3 DEF SectorsOK, RepliesOK

-----------------------------------------------------------------------------
(* An area is cleared. *)

Clears(i) ==
  /\ i \in Areas /\ UNCHANGED <<load, remote, fetches, answers, cb>>
  /\ \E e \in Nat : area' = [area EXCEPT ![i] = Clean(e, area[i].gen + 1)] /\ (i = 0 => e = area[0].epoch)
  /\ \A t \in Threads : th'[t].st = "clear" => th'[t].ans \in Nat

LEMMA ClearedArea ==
  ASSUME ShapeOK, NEW i \in Areas, Clears(i)
  PROVE  /\ DOMAIN area' = Areas /\ \A j \in Areas \ {i} : area'[j] = area[j]
         /\ AreaOK(area'[i]) /\ area'[i].file = NoPath /\ area'[i].gen = area[i].gen + 1
         /\ i = 0 => area'[0].epoch = area[0].epoch
<1>1. PICK e \in Nat : area' = [area EXCEPT ![i] = Clean(e, area[i].gen + 1)] /\ (i = 0 => e = area[0].epoch)
  BY DEF Clears
<1> DEFINE a == Clean(e, area[i].gen + 1)
<1>2. area[i].gen \in Nat
  BY DEF ShapeOK, AreaOK
<1>3. AreaOK(a) /\ a.file = NoPath /\ a.epoch = e /\ a.gen = area[i].gen + 1
  BY <1>2, CleanOK
<1> HIDE DEF a
<1>4. area' = [area EXCEPT ![i] = a]
  BY <1>1 DEF a
<1> QED BY <1>1, <1>3, <1>4, OneArea

LEMMA ClearedLive ==
  ASSUME ShapeOK, OrderOK, NEW i \in Areas, Clears(i)
  PROVE  /\ Replies' = Replies /\ Flights' = Flights
         /\ \A w \in Live' : w \in Live /\ w.buf # i
         /\ \A w \in Live : w.buf # i => w \in Live'
<1>1. Replies' = Replies
  BY DEF Clears, Replies
<1>2. Flights' = Flights
  BY <1>1 DEF Clears, Flights
<1>3. ASSUME NEW w \in Flights, w.buf = i PROVE w.gen # area'[i].gen
  <2>1. w.gen <= area[i].gen /\ w.gen \in Nat /\ area[i].gen \in Nat
    BY <1>3 DEF OrderOK, ShapeOK, FlightOK, AreaOK
  <2> QED BY <2>1, ClearedArea
<1>4. ASSUME NEW w \in Flights, w.buf # i PROVE area'[w.buf] = area[w.buf]
  BY <1>4, ClearedArea DEF ShapeOK, FlightOK
<1>5. \A w \in Live' : w \in Live /\ w.buf # i
  <2>1. SUFFICES ASSUME NEW w \in Flights, ~w.raced, w.gen = area'[w.buf].gen, w.epoch = area'[w.buf].epoch
                 PROVE  w \in Live /\ w.buf # i
    BY <1>2 DEF Live, Timely
  <2>2. w.buf # i
    BY <1>3, <2>1
  <2> QED BY <1>4, <2>1, <2>2 DEF Live, Timely
<1>6. \A w \in Live : w.buf # i => w \in Live'
  BY <1>2, <1>4 DEF Live, Timely
<1> QED BY <1>1, <1>2, <1>5, <1>6

LEMMA ClearedOrder == ASSUME SectorsOK, NEW i \in Areas, Clears(i) PROVE ShapeOK' /\ EpochsOK' /\ OrderOK'
<1>1. /\ DOMAIN area' = Areas /\ \A j \in Areas \ {i} : area'[j] = area[j]
      /\ AreaOK(area'[i]) /\ area'[i].file = NoPath /\ area'[i].gen = area[i].gen + 1
      /\ i = 0 => area'[0].epoch = area[0].epoch
  BY ClearedArea DEF SectorsOK
<1>2. Replies' = Replies /\ Flights' = Flights /\ answers' = answers
  BY ClearedLive DEF SectorsOK, Clears
<1>3. ShapeOK'
  BY <1>1, <1>2 DEF ShapeOK, SectorsOK, Clears
<1>4. ASSUME NEW e, NEW f, InUseNext(e, f) PROVE InUse(e, f)
  BY <1>1, <1>2, <1>4 DEF InUseNext, InUse
<1>5. area'[0].epoch = area[0].epoch
  BY <1>1 DEF Areas
<1>6. EpochsOK'
  BY <1>4, <1>5, EpochsNext DEF SectorsOK, EpochsOK
<1>7. OrderOK'
  <2>1. SUFFICES ASSUME NEW w \in Flights
                 PROVE  /\ w.gen <= area'[w.buf].gen
                        /\ w.gen = area'[w.buf].gen => w.epoch <= area'[w.buf].epoch
                        /\ w.gen = area'[w.buf].gen /\ w.epoch = area'[w.buf].epoch => w.file = area'[w.buf].file
    BY <1>2 DEF OrderOK
  <2>2. FlightOK(w) /\ AreaOK(area[w.buf]) /\ w.gen <= area[w.buf].gen
    BY DEF SectorsOK, ShapeOK, OrderOK, FlightOK
  <2>3. CASE w.buf = i
    BY <1>1, <2>2, <2>3 DEF FlightOK, AreaOK
  <2>4. CASE w.buf # i
    BY <1>1, <2>2, <2>4 DEF FlightOK, SectorsOK, OrderOK
  <2> QED BY <2>3, <2>4
<1> QED BY <1>3, <1>6, <1>7

\* The first area: a write of its file begins.
LEMMA FirstCleared ==
  ASSUME SectorsOK, Clears(0), NEW p \in Paths, late' = late \ {p},
         Writing' = Writing \cup {p}, Clearing' = Clearing \cup {p}
  PROVE  ClearedOK' /\ BufferedOK' /\ RepliesOK'
<1>0. 0 \in Areas /\ 1 \in Areas /\ \A j \in Areas : j = 0 \/ j = 1
  BY DEF Areas
<1>1. /\ area'[1] = area[1] /\ area'[0].file = NoPath
      /\ \A w \in Live' : w \in Live /\ w.buf # 0
      /\ Replies' = Replies
  BY <1>0, ClearedArea, ClearedLive DEF SectorsOK
<1>2. \A q \in Paths : q # NoPath
  BY AheadAssumption
<1>3. ClearedOK'
  <2>1. SUFFICES ASSUME NEW q \in Writing', q \notin late'
                 PROVE  /\ area'[0].file # q /\ \A w \in Live' : w.buf # 0
                        /\ \/ q \in Clearing'
                           \/ /\ area'[1].file = q => DOMAIN area'[1].have = {}
                              /\ \A w \in Live' : w.buf = 1 => w.file # q
    BY DEF ClearedOK, Untouched
  <2>2. q # p => q \in Writing \ late
    BY <2>1
  <2>3. q # p => q \in Clearing \/ Untouched(q, 1)
    BY <2>2 DEF SectorsOK, ClearedOK
  <2> QED BY <1>1, <1>2, <2>1, <2>3 DEF Untouched, Writing
<1>4. BufferedOK'
  <2>1. SUFFICES ASSUME NEW i \in Areas, area'[i].file \in Paths, area'[i].file \notin late' \cup Writing',
                        NEW s \in DOMAIN area'[i].have
                 PROVE  area'[i].have[s] # Err /\ area'[i].have[s] = Sector(remote, area'[i].file, s)
    BY DEF BufferedOK, Clears, Sector
  <2>2. i = 1
    BY <1>0, <1>1, <1>2, <2>1
  <2>3. area[1].file \in Paths \ (late \cup Writing)
    BY <1>1, <2>1, <2>2
  <2> QED BY <1>1, <2>1, <2>2, <2>3 DEF SectorsOK, BufferedOK
<1>5. RepliesOK'
  <2>1. SUFFICES ASSUME NEW c \in Replies, c.w \in Live', c.w.file \notin late' \cup Writing'
                 PROVE  c.val \in {NoReply, Err, Sector(remote, c.w.file, c.w.sec)}
    BY <1>1 DEF RepliesOK, Clears, Sector
  <2>2. c.w \in Live /\ c.w.file \notin late \cup Writing
    BY <1>1, <2>1
  <2> QED BY <2>1, <2>2 DEF SectorsOK, RepliesOK
<1> QED BY <1>3, <1>4, <1>5

\* The second one: the write of the clearing thread goes on its way.
LEMMA SecondCleared ==
  ASSUME SectorsOK, Clears(1), late' = late, \A q \in Writing' : q \in Writing
  PROVE  ClearedOK' /\ BufferedOK' /\ RepliesOK'
<1>0. 0 \in Areas /\ 1 \in Areas /\ \A j \in Areas : j = 0 \/ j = 1
  BY DEF Areas
<1>1. /\ area'[0] = area[0] /\ area'[1].file = NoPath
      /\ \A w \in Live' : w \in Live /\ w.buf # 1
      /\ Replies' = Replies
  BY <1>0, ClearedArea, ClearedLive DEF SectorsOK
<1>2. \A q \in Paths : q # NoPath
  BY AheadAssumption
<1>3. \A q \in Writing \ late : Untouched(q, 0)
  BY DEF SectorsOK, ClearedOK
<1>4. ClearedOK'
  <2>1. SUFFICES ASSUME NEW q \in Writing', q \notin late
                 PROVE  /\ area'[0].file = q => DOMAIN area'[0].have = {}
                        /\ \A w \in Live' : w.buf = 0 => w.file # q
                        /\ area'[1].file # q /\ \A w \in Live' : w.buf # 1
    BY DEF ClearedOK, Untouched
  <2> QED BY <1>1, <1>2, <1>3, <2>1 DEF Untouched, Writing
<1>5. BufferedOK'
  <2>1. SUFFICES ASSUME NEW i \in Areas, area'[i].file \in Paths, area'[i].file \notin late,
                        NEW s \in DOMAIN area'[i].have
                 PROVE  area'[i].have[s] # Err /\ area'[i].have[s] = Sector(remote, area'[i].file, s)
    BY DEF BufferedOK, Clears, Sector
  <2>2. i = 0
    BY <1>0, <1>1, <1>2, <2>1
  <2>3. area[0].file \notin Writing
    BY <1>1, <1>3, <2>1, <2>2 DEF Untouched
  <2> QED BY <1>1, <2>1, <2>2, <2>3, <1>0 DEF SectorsOK, BufferedOK
<1>6. RepliesOK'
  <2>1. SUFFICES ASSUME NEW c \in Replies, c.w \in Live', c.w.file \notin late
                 PROVE  c.val \in {NoReply, Err, Sector(remote, c.w.file, c.w.sec)}
    BY <1>1 DEF RepliesOK, Clears, Sector
  <2>2. c.w \in Live /\ c.w \in Flights /\ c.w.buf = 0
    <3>1. c.w \in Flights
      BY DEF Flights
    <3> QED BY <1>0, <1>1, <2>1, <3>1 DEF SectorsOK, ShapeOK, FlightOK
  <2>3. c.w.file \in Paths /\ c.w.file \notin Writing
    BY <1>3, <2>1, <2>2 DEF Untouched, SectorsOK, ShapeOK, FlightOK
  <2> QED BY <2>1, <2>2, <2>3 DEF SectorsOK, RepliesOK
<1> QED BY <1>4, <1>5, <1>6

-----------------------------------------------------------------------------
(* The steps that leave the read-ahead alone. *)

Quiet ==
  /\ UNCHANGED <<load, area, fetches, answers, cb>>
  /\ late \subseteq late' /\ Clearing' = Clearing /\ Clearing' \subseteq Writing'
  /\ \A t \in Threads : th'[t].st = "clear" => th'[t] = th[t]
  /\ \A p \in Writing' \ late' : p \in Writing \/ \A i \in Areas : area[i].file # p
  /\ \A p \in Paths \ (late' \cup Writing) : \A s :
       Sector(remote, p, s) # Err => Sector(remote, p, s) = (Sector(remote, p, s))'

LEMMA QuietKeeps == ASSUME SectorsOK, Quiet
  PROVE ShapeOK' /\ EpochsOK' /\ OrderOK' /\ ClearedOK' /\ BufferedOK' /\ RepliesOK'
<1>1. Replies' = Replies
  BY DEF Quiet, Replies
<1>2. Flights' = Flights
  BY <1>1 DEF Quiet, Flights
<1>3. Live' = Live
  BY <1>2 DEF Quiet, Live, Timely
<1>4. area' = area /\ answers' = answers /\ late \subseteq late'
  BY DEF Quiet
<1>5. ShapeOK'
  BY <1>1, <1>2, <1>4 DEF SectorsOK, ShapeOK, Quiet
<1>6. EpochsOK'
  <2>1. ASSUME NEW e, NEW f, InUseNext(e, f) PROVE InUse(e, f)
    BY <1>2, <1>4, <2>1 DEF InUseNext, InUse
  <2> QED BY <1>4, <2>1, EpochsNext DEF SectorsOK, EpochsOK
<1>7. OrderOK'
  BY <1>2, <1>4 DEF SectorsOK, OrderOK
<1>8. \A p \in Writing \ late : p \notin Clearing => Untouched(p, 0) /\ Untouched(p, 1)
  BY DEF SectorsOK, ClearedOK
<1>9. ClearedOK'
  <2>1. SUFFICES ASSUME NEW p \in Writing' \ late' PROVE Untouched(p, 0) /\ (p \in Clearing \/ Untouched(p, 1))
    BY <1>3, <1>4 DEF ClearedOK, Untouched, Quiet
  <2>2. CASE p \in Writing
    BY <1>4, <2>1, <2>2 DEF SectorsOK, ClearedOK
  <2>3. CASE \A i \in Areas : area[i].file # p
    <3>1. \A w \in Live : w.file = area[w.buf].file /\ w.buf \in Areas
      <4>1. SUFFICES ASSUME NEW w \in Flights, w.gen = area[w.buf].gen, w.epoch = area[w.buf].epoch
                     PROVE  w.file = area[w.buf].file /\ w.buf \in Areas
        BY DEF Live, Timely
      <4> QED BY <4>1 DEF SectorsOK, OrderOK, ShapeOK, FlightOK
    <3> QED BY <2>3, <3>1 DEF Untouched, Areas
  <2> QED BY <2>1, <2>2, <2>3 DEF Quiet
<1>10. BufferedOK'
  <2>1. SUFFICES ASSUME NEW i \in Areas, area[i].file \in Paths \ (late' \cup Writing'), NEW s \in DOMAIN area[i].have
                 PROVE  area[i].have[s] # Err /\ area[i].have[s] = (Sector(remote, area[i].file, s))'
    BY <1>4 DEF BufferedOK, Sector
  <2>2. area[i].file \notin Writing
    BY <1>4, <1>8, <2>1 DEF Untouched, Quiet, Areas
  <2>3. area[i].have[s] # Err /\ area[i].have[s] = Sector(remote, area[i].file, s)
    BY <1>4, <2>1, <2>2 DEF SectorsOK, BufferedOK
  <2>4. \A p \in Paths \ (late' \cup Writing) : Sector(remote, p, s) # Err => Sector(remote, p, s) = (Sector(remote, p, s))'
    BY DEF Quiet
  <2> QED BY <1>4, <2>1, <2>2, <2>3, <2>4 DEF Sector
<1>11. RepliesOK'
  <2>1. SUFFICES ASSUME NEW c \in Replies, c.w \in Live, c.w.file \notin late' \cup Writing'
                 PROVE  c.val \in {NoReply, Err, (Sector(remote, c.w.file, c.w.sec))'}
    BY <1>1, <1>3 DEF RepliesOK, Sector
  <2>2. c.w.file \in Paths /\ c.w.buf \in Areas
    BY DEF SectorsOK, ShapeOK, FlightOK, Flights
  <2>3. c.w.file \notin Writing
    BY <1>4, <1>8, <2>1, <2>2 DEF Untouched, Quiet, Areas
  <2>4. c.val \in {NoReply, Err, Sector(remote, c.w.file, c.w.sec)}
    BY <1>4, <2>1, <2>3 DEF SectorsOK, RepliesOK
  <2>5. \A p \in Paths \ (late' \cup Writing) : Sector(remote, p, c.w.sec) # Err =>
          Sector(remote, p, c.w.sec) = (Sector(remote, p, c.w.sec))'
    BY DEF Quiet
  <2> QED BY <2>1, <2>2, <2>3, <2>4, <2>5
<1> QED BY <1>5, <1>6, <1>7, <1>9, <1>10, <1>11

\* The writes under way are sent or wait for the second area.
LEMMA WritingIs ==
  ASSUME ClientOK
  PROVE  /\ \A o \in Sent : o.kind = "write" /\ o.p \in Paths => o.p \in Writing
         /\ \A p \in Clearing : p \in Writing
<1>1. \A o \in Sent : o \in Unexecuted
  BY DEF Sent, Unexecuted
<1>2. \A p \in Clearing : p \in Writing
  <2>1. SUFFICES ASSUME NEW t \in Threads, th[t].st = "clear", th[t].o.p \in Paths PROVE th[t].o.p \in Writing
    BY DEF Clearing
  <2>2. th[t].o.kind = "write" /\ th[t].o \in Unexecuted
    BY <2>1 DEF ClientOK, ThreadOK, Unexecuted
  <2> QED BY <2>1, <2>2 DEF Writing, PendingWrite
<1> QED BY <1>1, <1>2 DEF Writing, PendingWrite

LEMMA WritingNext ==
  \A p \in Writing' : (\E o \in Sent' : o.kind = "write" /\ o.p = p) \/ p \in Clearing'
<1>1. SUFFICES ASSUME NEW p \in Writing'
               PROVE  (\E o \in Sent' : o.kind = "write" /\ o.p = p) \/ p \in Clearing'
  OBVIOUS
<1>2. PICK o \in Unexecuted' : o.kind = "write" /\ o.p = p
  BY DEF Writing, PendingWrite
<1>3. o \in Sent' \/ \E t \in Threads : th'[t].st = "clear" /\ th'[t].o = o
  BY DEF Unexecuted, Sent
<1> QED BY <1>2, <1>3 DEF Clearing, Writing

LEMMA ClearingNext == ASSUME ClientOK' PROVE \A p \in Clearing' : p \in Writing'
<1>1. SUFFICES ASSUME NEW t \in Threads, th'[t].st = "clear", th'[t].o.p \in Paths PROVE th'[t].o.p \in Writing'
  BY DEF Clearing
<1>2. th'[t].o.kind = "write" /\ th'[t].o \in Unexecuted'
  BY <1>1 DEF ClientOK, ThreadOK, Unexecuted
<1> QED BY <1>1, <1>2 DEF Writing, PendingWrite

LEMMA QuietSteps ==
  ASSUME ClientOK, ClientOK', UNCHANGED <<load, area, fetches, answers, cb>>, late \subseteq late',
         \A t \in Threads : th'[t].st = "clear" \/ th[t].st = "clear" => th'[t] = th[t],
         \A m \in Sent' : m.kind = "write" =>
           \/ \E b \in Sent : b.kind = "write" /\ b.p = m.p
           \/ m.p \in late' \/ \A i \in Areas : area[i].file # m.p,
         \A p \in Paths \ (late' \cup Writing) : \A s :
           Sector(remote, p, s) # Err => Sector(remote, p, s) = (Sector(remote, p, s))'
  PROVE  Quiet
<1>1. Clearing' = Clearing
  BY DEF Clearing
<1>2. \A p \in Clearing' : p \in Writing'
  BY ClearingNext
<1>3. ASSUME NEW p \in Writing', p \notin late' PROVE p \in Writing \/ \A i \in Areas : area[i].file # p
  <2>1. p \in Paths
    BY <1>3 DEF Writing
  <2>2. CASE p \in Clearing'
    BY <1>1, <2>2, WritingIs
  <2>3. CASE \E m \in Sent' : m.kind = "write" /\ m.p = p
    BY <1>3, <2>1, <2>3, WritingIs
  <2> QED BY <1>3, <2>2, <2>3, WritingNext
<1> QED BY <1>1, <1>2, <1>3 DEF Quiet

\* All steps of these kinds but those that run a request.
LEMMA ClearingStays ==
  ASSUME ClientOK, OtherEffects, \A t \in Threads : Asks(t) => th'[t].st # "clear"
  PROVE  \A t \in Threads : th'[t].st = "clear" \/ th[t].st = "clear" => th'[t] = th[t]
<1>1. CASE \E t \in Threads : \/ Asks(t) \/ Rooms(t) \/ Stores(t)
                              \/ (GoesOn(t) /\ UNCHANGED <<core, raced, crossed>>)
  <2>1. PICK t \in Threads : Asks(t) \/ Rooms(t) \/ Stores(t) \/ GoesOn(t)
    BY <1>1
  <2>2. Others(t) /\ th[t].st # "clear" /\ th'[t].st # "clear"
    BY <2>1, IdleOK DEF Asks, Rooms, Stores, GoesOn
  <2> QED BY <2>2 DEF Others
<1>2. CASE \E o \in net : Runs(o) \/ Loses(o)
  BY <1>2 DEF Runs, Loses, Replied
<1>3. CASE Takes \/ Hands \/ Keeps
  BY <1>3 DEF Takes, Hands, Keeps
<1> QED BY <1>1, <1>2, <1>3 DEF OtherEffects

LEMMA OthersQuiet ==
  ASSUME ClientOK, ClientOK', OtherEffects, UNCHANGED <<avars, load>>, late \subseteq late',
         \A t \in Threads : Asks(t) => th'[t].st # "clear",
         \A p \in Paths \ (late' \cup Writing) : \A s :
           Sector(remote, p, s) # Err => Sector(remote, p, s) = (Sector(remote, p, s))'
  PROVE  Quiet
<1>1. Sent' \subseteq Sent
  BY OthersSend
<1>2. \A t \in Threads : th'[t].st = "clear" \/ th[t].st = "clear" => th'[t] = th[t]
  BY ClearingStays
<1>3. \A m \in Sent' : m.kind = "write" => \E b \in Sent : b.kind = "write" /\ b.p = m.p
  BY <1>1
<1> QED BY <1>2, <1>3, QuietSteps DEF avars

\* What a request changes in the sectors of a file that is not late and not written.
LEMMA RunSectors ==
  ASSUME ClientOK, NEW o \in net, Execute(o)
  PROVE  /\ late \subseteq late'
         /\ \A p \in Paths \ (late' \cup Writing) : \A s :
              Sector(remote, p, s) # Err => Sector(remote, p, s) = (Sector(remote, p, s))'
<1>1. o \in Requests /\ remote \in [Paths -> RemoteFile \cup {NoFile}] /\ o.p \in Paths
  BY DEF ClientOK, Requests
<1>2. late \subseteq late'
  BY DEF Execute
<1>3. ASSUME NEW p \in Paths, p \notin late', p \notin Writing, NEW s, Sector(remote, p, s) # Err
      PROVE  Sector(remote, p, s) = (Sector(remote, p, s))'
  <2>1. remote[p] # NoFile
    BY <1>3 DEF Sector
  <2>2. SUFFICES ASSUME remote' # remote
                 PROVE  remote'[p] # NoFile /\ remote'[p].data = remote[p].data
    BY <2>1 DEF Sector
  <2>3. /\ remote' = do_op(remote, o)
        /\ late' = IF o.kind \in {"write"} \cup Touching \cup Making THEN late ELSE late \cup Changed(o)
    BY <2>2 DEF Execute
  <2>4. CASE p \notin Changed(o)
    <3>1. remote'[p] = remote[p]
      BY <1>1, <2>3, <2>4, RunsChanged
    <3> QED BY <2>1, <3>1
  <2>5. CASE p \in Changed(o)
    <3>1. o.kind \in {"write"} \cup Touching \cup Making
      BY <1>3, <2>3, <2>5
    <3>2. p = o.p
      BY <2>5, <3>1 DEF Changed, Touching, Making
    <3>3. o.kind # "write"
      <4>1. o \in Sent
        BY DEF Sent
      <4> QED BY <1>3, <3>2, <4>1, WritingIs
    <3>4. CASE o.kind \in Making
      BY <2>1, <2>2, <2>3, <3>2, <3>4 DEF do_op, Making, Removing, Touching
    <3>5. CASE o.kind \in Touching
      <4>1. remote' = [remote EXCEPT ![o.p].by = o.id]
        BY <2>1, <2>3, <3>2, <3>5 DEF do_op, Making, Removing, Touching
      <4>2. remote[p] \in [by : Nat, data : Seq(Nat)]
        BY <1>1, <2>1 DEF RemoteFile
      <4>3. remote'[p] = [remote[p] EXCEPT !.by = o.id]
        BY <1>1, <3>2, <4>1
      <4>4. remote'[p].data = remote[p].data /\ remote'[p] \in [by : {o.id}, data : Seq(Nat)]
        BY <4>2, <4>3
      <4>5. remote'[p] \in RemoteFile
        BY <1>1, <4>4 DEF RemoteFile, Requests, Ids
      <4> QED BY <4>4, <4>5, FuseAssumption
    <3> QED BY <3>1, <3>3, <3>4, <3>5
  <2> QED BY <2>4, <2>5
<1> QED BY <1>2, <1>3

LEMMA ExecuteQuiet == ASSUME ClientOK, ClientOK', NEW o \in net, Execute(o) PROVE Quiet
<1>1. UNCHANGED <<avars, load>>
  BY DEF Execute
<1>2. PICK ans : Reply(o, ans)
  BY DEF Execute
<1>3. \A t \in Threads : Asks(t) => th'[t].st # "clear"
  <2>1. \A t \in Threads : th'[t] = th[t] \/ th'[t] = At("back", o, ans)
    BY <1>2 DEF Reply
  <2> QED BY <2>1, AtOK DEF Asks
<1> QED BY <1>1, <1>3, ExecuteEffect, RunSectors, OthersQuiet

\* The other steps that leave the sectors and the read-ahead alone.
LEMMA Unmoved ==
  ASSUME ClientOK, ClientOK', OtherEffects, UNCHANGED <<avars, load, remote, late>>,
         th' = th \/ \E t \in Threads : th' = [th EXCEPT ![t] = Idle]
  PROVE  Quiet
<1>1. \A t \in Threads : Asks(t) => th'[t].st # "clear"
  <2>1. \A t \in Threads : th'[t] = th[t] \/ th'[t] = Idle
    BY DEF ClientOK
  <2> QED BY <2>1, IdleOK DEF Asks
<1>2. \A p, s : (Sector(remote, p, s))' = Sector(remote, p, s)
  BY DEF Sector
<1> QED BY <1>1, <1>2, OthersQuiet

LEMMA ThreadQuiet ==
  ASSUME ClientOK, ClientOK', NEW t \in Threads, Roomed(t) \/ Return(t) \/ Break(t)
  PROVE  Quiet
<1>1. UNCHANGED <<avars, load, remote, late>> /\ th' = [th EXCEPT ![t] = Idle]
  BY DEF Roomed, Return, Break, histvars
<1>2. th[t].st # "clear"
  BY DEF Roomed, Return, Break
<1>3. OtherEffects
  BY <1>2, ThreadEffect DEF Step
<1> QED BY <1>1, <1>3, Unmoved

LEMMA WorkQuiet ==
  ASSUME ClientOK, ClientOK', Queue \/ FetchCrash \/ UNCHANGED vars
  PROVE  Quiet
<1>1. UNCHANGED <<avars, load, remote, late, th>>
  BY DEF Queue, QueueDispatch, QueueAssign, QueueComplete, FetchCrash, vars, cvars, histvars
<1>2. CASE Queue
  BY <1>1, <1>2, WorkEffect, Unmoved
<1>3. CASE FetchCrash \/ UNCHANGED vars
  <2>1. Keeps
    BY <1>3 DEF FetchCrash, vars, qvars, cvars, histvars, Keeps, core
  <2> QED BY <1>1, <2>1, Unmoved DEF OtherEffects
<1> QED BY <1>2, <1>3

LEMMA BeginQuiet ==
  ASSUME ClientOK, ClientOK', SectorsOK, NEW t \in Threads, NEW o \in Calls, Begin(t, o), th'[t].st # "clear"
  PROVE  Quiet
<1> DEFINE h == gvdsfs_oper[o.kind]
<1>1. /\ ThreadsOK /\ o \in Requests /\ o.vals = <<o.id>> /\ o.p \in Paths /\ th[t] = Idle
      /\ UNCHANGED <<load, remote>> /\ (Keeps \/ Asks(t) \/ Starts(t, o)) /\ load.ahead \in Nat
  <2>1. load.ahead \in Nat
    BY LoadsAssumption DEF ClientOK
  <2> QED BY <2>1, BeginEffect, CallsAreRequests DEF ClientOK, ThreadsOK, Requests, Begin
<1>2. \A p, s : (Sector(remote, p, s))' = Sector(remote, p, s)
  BY <1>1 DEF Sector
<1>3. CASE UNCHANGED <<qvars, avars, net, th, cache, histvars>>
  <2>1. Keeps
    BY <1>1, <1>3 DEF Keeps, core, qvars, histvars
  <2> QED BY <1>1, <1>3, <2>1, Unmoved DEF OtherEffects, histvars
<1>4. CASE th' = [th EXCEPT ![t] = At("status", o, 0)] /\ UNCHANGED <<qvars, avars, net, cache, histvars>>
  <2>1. th'[t] = At("status", o, 0) /\ Others(t)
    BY <1>1, <1>4, OneMoves
  <2>2. Asks(t) /\ th'[t].st # "clear"
    BY <1>1, <1>4, <2>1, AtOK, IdleOK DEF Asks, core, qvars, histvars
  <2>3. \A u \in Threads : Asks(u) => th'[u].st # "clear"
    <3>1. \A u \in Threads : u # t => th'[u] = th[u]
      BY <2>1 DEF Others
    <3> QED BY <2>2, <3>1 DEF Asks
  <2> QED BY <1>1, <1>2, <1>4, <2>2, <2>3, OthersQuiet DEF OtherEffects, histvars
<1>5. CASE th' = [th EXCEPT ![t] = At("clear", o, area[0].epoch)]
  <2>1. th'[t] = At("clear", o, area[0].epoch)
    BY <1>1, <1>5, OneMoves
  <2> QED BY <2>1, AtOK
<1>6. CASE /\ ~(h.clears /\ load.ahead > 0 /\ area[0].file = o.p)
           /\ Go(t, o)
           /\ late' = IF h.clears /\ area[1].file = o.p THEN late \cup {o.p} ELSE late
           /\ UNCHANGED <<avars, crossed>>
  <2>1. Goes(t, o) /\ Starts(t, o)
    <3>1. Goes(t, o)
      BY <1>1, <1>6, GoEffect DEF ClientOK
    <3> QED BY <1>1, <1>6, <3>1, IdleOK DEF Starts
  <2>2. \A u \in Threads : th'[u].st = "clear" \/ th[u].st = "clear" => th'[u] = th[u]
    <3>1. th'[t].st # "clear" /\ th[t].st # "clear"
      BY <1>1, IdleOK
    <3> QED BY <2>1, <3>1 DEF Goes, Others
  <2>3. o.kind = "write" => o.p \in late' \/ \A i \in Areas : area[i].file # o.p
    <3>1. SUFFICES ASSUME o.kind = "write" PROVE o.p \in late' \/ \A i \in Areas : area[i].file # o.p
      OBVIOUS
    <3>2. h.clears
      BY <3>1 DEF gvdsfs_oper, gvdsfs_write, Handler
    <3> HIDE DEF h
    <3>3. area[1].file = o.p => o.p \in late'
      BY <1>6, <3>2
    <3>4. CASE load.ahead > 0
      BY <1>6, <3>2, <3>3, <3>4 DEF Areas
    <3>5. CASE load.ahead = 0
      <4>1. \A i \in Areas : area[i].file = NoPath
        BY <3>5 DEF SectorsOK, OffOK
      <4> QED BY <1>1, <4>1, AheadAssumption
    <3> QED BY <1>1, <3>4, <3>5
  <2>4. ASSUME NEW m \in Sent', m.kind = "write"
        PROVE  \/ \E b \in Sent : b.kind = "write" /\ b.p = m.p
               \/ m.p \in late' \/ \A i \in Areas : area[i].file # m.p
    <3>1. m \in Sent \/ m = o \/ \E b \in Sent : Changed(b) = Changed(m) /\ b.kind = m.kind
      BY <1>1, <2>1, StartSends
    <3>2. ASSUME NEW b, b.kind = "write", Changed(b) = Changed(m) PROVE b.p = m.p
      BY <2>4, <3>2 DEF Changed, Changing
    <3> QED BY <2>3, <2>4, <3>1, <3>2
  <2>5. late \subseteq late'
    BY <1>6
  <2> QED BY <1>1, <1>2, <1>6, <2>2, <2>4, <2>5, QuietSteps DEF avars
<1>7. \/ UNCHANGED <<qvars, avars, net, th, cache, histvars>>
      \/ th' = [th EXCEPT ![t] = At("status", o, 0)] /\ UNCHANGED <<qvars, avars, net, cache, histvars>>
      \/ th' = [th EXCEPT ![t] = At("clear", o, area[0].epoch)]
      \/ /\ ~(h.clears /\ load.ahead > 0 /\ area[0].file = o.p)
         /\ Go(t, o)
         /\ late' = IF h.clears /\ area[1].file = o.p THEN late \cup {o.p} ELSE late
         /\ UNCHANGED <<avars, crossed>>
  BY DEF Begin
<1> QED BY <1>3, <1>4, <1>5, <1>6, <1>7

\* A write of the file of the first area.
LEMMA BeginClears ==
  ASSUME ClientOK, ClientOK', SectorsOK, NEW t \in Threads, NEW o \in Calls, Begin(t, o), th'[t].st = "clear"
  PROVE  /\ Clears(0) /\ o.p \in Paths /\ late' = late \ {o.p}
         /\ Writing' = Writing \cup {o.p} /\ Clearing' = Clearing \cup {o.p}
<1> DEFINE h == gvdsfs_oper[o.kind]
<1>1. /\ ThreadsOK /\ QueueOK /\ o \in Requests /\ o.vals = <<o.id>> /\ o.p \in Paths /\ th[t] = Idle /\ th[t].st = "idle"
      /\ UNCHANGED <<load, remote>>
  BY CallsAreRequests, IdleOK DEF ClientOK, ThreadsOK, Requests, Begin
<1>2. \/ th' = th
      \/ th' = [th EXCEPT ![t] = At("status", o, 0)]
      \/ Go(t, o)
      \/ /\ ClearArea(0, area[0].epoch)
         /\ th' = [th EXCEPT ![t] = At("clear", o, area[0].epoch)]
         /\ late' = late \ {o.p} /\ h.clears
         /\ UNCHANGED <<qvars, net>>
  BY DEF Begin
<1>3. th' # th
  BY <1>1
<1>4. th' # [th EXCEPT ![t] = At("status", o, 0)]
  BY <1>1, OneMoves, AtOK
<1>5. ~Go(t, o)
  BY <1>1, GoEffect, IdleOK DEF Goes, Queues, Sends
<1>6. /\ ClearArea(0, area[0].epoch)
      /\ th' = [th EXCEPT ![t] = At("clear", o, area[0].epoch)]
      /\ late' = late \ {o.p} /\ h.clears
      /\ UNCHANGED <<qvars, net>>
  BY <1>2, <1>3, <1>4, <1>5
<1>7. th'[t].st = "clear" /\ th'[t].o = o /\ th'[t].ans = area[0].epoch /\ \A u \in Threads : u # t => th'[u] = th[u]
  BY <1>1, <1>6, OneMoves, AtOK DEF Others
<1>8. Clears(0)
  <2>1. 0 \in Areas /\ area[0].epoch \in Nat
    BY DEF SectorsOK, ShapeOK, AreaOK, Areas
  <2>2. \A u \in Threads : th'[u].st = "clear" => th'[u].ans \in Nat
    BY <1>7, <2>1 DEF SectorsOK, ShapeOK
  <2>3. /\ UNCHANGED <<fetches, answers, cb>>
        /\ area' = [area EXCEPT ![0] = Clean(area[0].epoch, area[0].gen + 1)]
    BY <1>6 DEF ClearArea
  <2> QED BY <1>1, <2>1, <2>2, <2>3 DEF Clears
<1>9. Clearing' = Clearing \cup {o.p}
  BY <1>1, <1>7 DEF Clearing
<1>10. Writing' = Writing \cup {o.p}
  <2>1. UNCHANGED <<net, line, batch>>
    BY <1>6 DEF qvars
  <2>2. \A m : m \in Unexecuted' <=> m \in Unexecuted \/ m = o
    BY <1>1, <1>7, <2>1 DEF Unexecuted
  <2>3. o.kind = "write"
    BY <1>1, <1>6, WritesClear DEF Requests
  <2> QED BY <1>1, <2>2, <2>3 DEF Writing, PendingWrite
<1> QED BY <1>1, <1>6, <1>8, <1>9, <1>10

LEMMA SecondClears ==
  ASSUME ClientOK, ClientOK', SectorsOK, NEW t \in Threads, ClearSecond(t)
  PROVE  Clears(1) /\ late' = late /\ \A p \in Writing' : p \in Writing
<1> DEFINE o == th[t].o
<1>1. th[t].st = "clear" /\ ClearArea(1, th[t].ans) /\ UNCHANGED <<load, remote, late>>
  BY DEF ClearSecond
<1>2. o \in Requests /\ o.vals = <<o.id>> /\ o.p \in Clearing
  BY <1>1 DEF ClientOK, ThreadOK, Clearing, Requests
<1>3. Goes(t, o) /\ Starts(t, o)
  <2>1. Go(t, o) /\ ThreadsOK /\ QueueOK /\ crossed' = crossed
    BY DEF ClearSecond, ClientOK, ThreadsOK
  <2>2. Goes(t, o)
    BY <1>2, <2>1, GoEffect
  <2> QED BY <1>1, <1>2, <2>1, <2>2 DEF Starts
<1>4. th'[t].st # "clear" /\ \A u \in Threads : u # t => th'[u] = th[u]
  BY <1>3, IdleOK DEF Goes, Queues, Sends, Others
<1>5. Clears(1)
  <2>1. 1 \in Areas /\ th[t].ans \in Nat
    BY <1>1 DEF SectorsOK, ShapeOK, Areas
  <2>2. \A u \in Threads : th'[u].st = "clear" => th'[u].ans \in Nat
    BY <1>4 DEF SectorsOK, ShapeOK
  <2>3. /\ UNCHANGED <<fetches, answers, cb>>
        /\ area' = [area EXCEPT ![1] = Clean(th[t].ans, area[1].gen + 1)]
    BY <1>1 DEF ClearArea
  <2> DEFINE e == th[t].ans
  <2>4. e \in Nat /\ area' = [area EXCEPT ![1] = Clean(e, area[1].gen + 1)] /\ (1 = 0 => e = area[0].epoch)
    BY <2>1, <2>3
  <2> HIDE DEF e
  <2>5. \E d \in Nat : area' = [area EXCEPT ![1] = Clean(d, area[1].gen + 1)] /\ (1 = 0 => d = area[0].epoch)
    BY <2>4
  <2> QED BY <1>1, <2>1, <2>2, <2>3, <2>5 DEF Clears
<1>6. ASSUME NEW p \in Writing' PROVE p \in Writing
  <2>1. p \in Paths
    BY <1>6 DEF Writing
  <2>2. CASE p \in Clearing'
    <3>1. p \in Clearing
      BY <1>4, <2>2 DEF Clearing
    <3> QED BY <3>1, WritingIs
  <2>3. CASE \E m \in Sent' : m.kind = "write" /\ m.p = p
    <3>1. PICK m \in Sent' : m.kind = "write" /\ m.p = p
      BY <2>3
    <3>2. m \in Sent \/ m = o \/ \E b \in Sent : Changed(b) = Changed(m) /\ b.kind = m.kind
      BY <1>2, <1>3, StartSends
    <3>3. ASSUME NEW b, b.kind = "write", Changed(b) = Changed(m) PROVE b.p = m.p
      BY <3>1, <3>3 DEF Changed, Changing
    <3> QED BY <1>2, <2>1, <3>1, <3>2, <3>3, WritingIs
  <2> QED BY <1>6, <2>2, <2>3, WritingNext
<1> QED BY <1>1, <1>5, <1>6

-----------------------------------------------------------------------------
(* Together. *)

LEMMA ShiftingSteps ==
  ASSUME ClientOK, SectorsOK,
         \/ \E t \in Threads : ReadStatus(t) \/ ReadTask(t) \/ ReadWait(t)
         \/ \E w \in fetches : FetchAnswer(w)
         \/ FetchCallback \/ FetchChain
  PROVE  Shifts
BY ReadShifts, AnswerShifts, CallbackShifts, ChainShifts DEF SectorsOK

\* Every step is of one of five kinds.
LEMMA SectorEffects ==
  ASSUME ClientOK, ClientOK', SectorsOK, [Next]_vars
  PROVE  \/ Shifts \/ Quiet \/ FetchStore
         \/ \E p \in Paths : /\ Clears(0) /\ late' = late \ {p}
                             /\ Writing' = Writing \cup {p} /\ Clearing' = Clearing \cup {p}
         \/ Clears(1) /\ late' = late /\ \A p \in Writing' : p \in Writing
<1>1. CASE \E t \in Threads, o \in Calls : Begin(t, o)
  <2>1. PICK t \in Threads, o \in Calls : Begin(t, o)
    BY <1>1
  <2>2. CASE th'[t].st # "clear"
    BY <2>1, <2>2, BeginQuiet
  <2>3. CASE th'[t].st = "clear"
    <3>1. /\ Clears(0) /\ o.p \in Paths /\ late' = late \ {o.p}
          /\ Writing' = Writing \cup {o.p} /\ Clearing' = Clearing \cup {o.p}
      BY <2>1, <2>3, BeginClears
    <3> QED BY <3>1
  <2> QED BY <2>2, <2>3
<1>2. CASE \E t \in Threads : Step(t) \/ Break(t)
  <2>1. PICK t \in Threads : Step(t) \/ Break(t)
    BY <1>2
  <2>2. CASE ClearSecond(t)
    BY <2>2, SecondClears
  <2>3. CASE Roomed(t) \/ Return(t) \/ Break(t)
    BY <2>3, ThreadQuiet
  <2>4. CASE ReadStatus(t) \/ ReadTask(t) \/ ReadWait(t)
    BY <2>4, ShiftingSteps
  <2> QED BY <2>1, <2>2, <2>3, <2>4 DEF Step
<1>3. CASE Executes
  BY <1>3, ExecuteQuiet DEF Executes
<1>4. CASE Fetched
  BY <1>4, ShiftingSteps, WorkQuiet DEF Fetched
<1>5. CASE Queue \/ UNCHANGED vars
  BY <1>5, WorkQuiet
<1> QED BY <1>1, <1>2, <1>3, <1>4, <1>5 DEF Next

LEMMA OffNext ==
  ASSUME ClientOK, ClientOK', SectorsOK, [Next]_vars
  PROVE  OffOK'
<1>1. load' = load
  <2>1. CASE Shifts
    BY <2>1 DEF Shifts, Stays
  <2>2. CASE Quiet \/ Clears(0) \/ Clears(1)
    BY <2>2 DEF Quiet, Clears
  <2>3. CASE FetchStore
    BY <2>3 DEF FetchStore
  <2> QED BY <2>1, <2>2, <2>3, SectorEffects
<1>2. SUFFICES ASSUME load.ahead = 0
      PROVE  /\ \A t \in Threads : th'[t].st \notin {"status", "task", "wait"}
             /\ \A i \in Areas : area'[i].file = NoPath
             /\ Flights' = {}
  BY <1>1 DEF OffOK
<1>3. \A t \in Threads : th'[t].st \notin {"status", "task", "wait"}
  BY <1>2, OffThreads DEF SectorsOK
<1>4. /\ \A i \in Areas : area[i].file = NoPath
      /\ Flights = {}
  BY <1>2 DEF SectorsOK, OffOK
<1>5. CASE Shifts
  <2>1. Flights' = {}
    BY <1>2, <1>5 DEF Shifts
  <2>2. \A i, p, e : ~Known(i, p, e)
    BY <1>2, <1>4 DEF Known
  <2>3. \A i \in Areas : Kept(i)
    BY <1>5, <2>2, ShiftedAreas
  <2> QED BY <1>3, <1>4, <2>1, <2>3 DEF Kept
<1>6. CASE Quiet
  <2>1. Flights' = Flights
    BY <1>6 DEF Quiet, Flights, Replies
  <2> QED BY <1>3, <1>4, <1>6, <2>1 DEF Quiet
<1>7. CASE FetchStore
  BY <1>2, <1>7, StoreKeeps
<1>8. ASSUME NEW i \in Areas, Clears(i) PROVE (\A j \in Areas : area'[j].file = NoPath) /\ Flights' = {}
  BY <1>4, <1>8, ClearedArea, ClearedLive DEF SectorsOK
<1>9. CASE Clears(0) \/ Clears(1)
  <2>1. 0 \in Areas /\ 1 \in Areas
    BY DEF Areas
  <2> QED BY <1>3, <1>8, <1>9, <2>1
<1> QED BY <1>5, <1>6, <1>7, <1>9, SectorEffects

LEMMA SectorsStep == ASSUME ClientOK, SectorsOK, [Next]_vars PROVE SectorsOK'
<1>1. ClientOK'
  BY ClientStep
<1>2. OffOK'
  BY <1>1, OffNext
<1>3. ShapeOK /\ EpochsOK /\ OrderOK /\ ClearedOK /\ BufferedOK /\ RepliesOK
  BY DEF SectorsOK
<1>4. CASE Shifts
  BY <1>2, <1>3, <1>4, ShiftedShape, ShiftedEpochs, ShiftedOrder, ShiftedCleared, ShiftedBuffers, ShiftedReplies
     DEF SectorsOK
<1>5. CASE Quiet
  BY <1>2, <1>5, QuietKeeps DEF SectorsOK
<1>6. CASE FetchStore
  BY <1>2, <1>6, StoredOrder, StoredCleared, StoredBuffers, StoredReplies DEF SectorsOK
<1>7. CASE \E p \in Paths : /\ Clears(0) /\ late' = late \ {p}
                            /\ Writing' = Writing \cup {p} /\ Clearing' = Clearing \cup {p}
  BY <1>2, <1>7, ClearedOrder, FirstCleared DEF SectorsOK, Areas
<1>8. CASE Clears(1) /\ late' = late /\ \A p \in Writing' : p \in Writing
  BY <1>2, <1>8, ClearedOrder, SecondCleared DEF SectorsOK, Areas
<1> QED BY <1>1, <1>4, <1>5, <1>6, <1>7, <1>8, SectorEffects

LEMMA SectorsInit == ASSUME Init PROVE SectorsOK
<1>1. /\ area = [i \in Areas |-> Clean(0, 0)] /\ fetches = {} /\ answers = <<>> /\ cb = NoCb
      /\ th = [t \in Threads |-> Idle] /\ net = {} /\ line = <<>> /\ batch = <<>>
  BY DEF Init, AheadInit, QueueInit
<1>2. Replies = {} /\ Flights = {} /\ Live = {}
  <2>1. Replies = {}
    BY <1>1 DEF Replies
  <2> QED BY <1>1, <2>1 DEF Flights, Live
<1>3. \A t \in Threads : th[t].st = "idle"
  BY <1>1, IdleOK
<1>4. \A i \in Areas : area[i] = Clean(0, 0)
  BY <1>1
<1>5. AreaOK(Clean(0, 0)) /\ Clean(0, 0).file = NoPath
  BY CleanOK
<1>6. ShapeOK
  <2>1. \E S : answers \in Seq(S)
    BY <1>1
  <2>2. DOMAIN area = Areas
    BY <1>1
  <2> QED BY <1>2, <1>3, <1>4, <1>5, <2>1, <2>2 DEF ShapeOK
<1>7. OffOK
  BY <1>2, <1>3, <1>4, <1>5 DEF OffOK
<1>8. EpochsOK
  <2>1. \A e, f : ~InUse(e, f)
    BY <1>2, <1>4, <1>5 DEF InUse
  <2> QED BY <2>1 DEF EpochsOK
<1>9. Writing = {}
  <2>1. Unexecuted = {}
    BY <1>1, <1>3 DEF Unexecuted, ToSet
  <2> QED BY <2>1 DEF Writing, PendingWrite
<1>10. \A i \in Areas : area[i].file \notin Paths
  BY <1>4, <1>5, AheadAssumption
<1> QED BY <1>2, <1>6, <1>7, <1>8, <1>9, <1>10 DEF SectorsOK, OrderOK, ClearedOK, BufferedOK, RepliesOK

LEMMA SectorsAre == ASSUME SectorsOK PROVE SectorsCurrentUnlessLate
<1>1. SUFFICES ASSUME NEW i \in Areas, NEW p \in Paths \ (late \cup Dirty), NEW s \in DOMAIN area[i].have,
                      Lookup(i, p, s) = "IN_BUFFER"
               PROVE  area[i].have[s] = Sector(remote, p, s)
  BY DEF SectorsCurrentUnlessLate
<1>2. area[i].file = p
  BY <1>1 DEF Lookup
<1>3. p \notin Writing
  BY WritingIsDirty
<1> QED BY <1>1, <1>2, <1>3 DEF SectorsOK, BufferedOK

(* What the read-ahead answers is what the proxy has, when no change of    *)
(* the file is under way, unless the file is late: a write clears the      *)
(* sectors of its file that are there and keeps those away that are on     *)
(* their way, whatever the callbacks and the other threads do meanwhile.   *)
THEOREM SectorsAreCurrent == Spec => []SectorsCurrentUnlessLate
<1>1. Init => ClientOK /\ SectorsOK
  BY ClientInit, SectorsInit
<1>2. (ClientOK /\ SectorsOK) /\ [Next]_vars => (ClientOK /\ SectorsOK)'
  BY ClientStep, SectorsStep
<1>3. ClientOK /\ SectorsOK => SectorsCurrentUnlessLate
  BY SectorsAre
<1> QED BY <1>1, <1>2, <1>3, PTL DEF Spec
=============================================================================
