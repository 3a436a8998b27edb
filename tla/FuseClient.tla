------------------------------ MODULE FuseClient ------------------------------
(***************************************************************************)
(* The file system client: the threads of FUSE run the operations          *)
(* (client/gvds_fuse_impl.cc) over the attribute cache                     *)
(* (client/cache_mod.cc), the read-ahead and the write-back queue, and the *)
(* I/O proxy executes what is submitted (msg/operator_client.hpp).         *)
(*                                                                         *)
(* The proxy executes the requests under way in any order.  A call has no  *)
(* deadline, but its connection may break: then the operation returns an   *)
(* error while its request may still be executed.                          *)
(***************************************************************************)
EXTENDS WriteQueue, ReadAhead

CONSTANTS
    Threads,     \* FUSE threads
    Loads,       \* configurations, files, what users call, and bounds: see load
    NoReq

ASSUME LoadsAssumption ==
    \A l \in Loads :
        /\ l.kinds \subseteq DOMAIN gvdsfs_oper /\ l.paths \subseteq Paths /\ l.secs \subseteq Sectors
        /\ l.files \in [Paths -> RemoteFile \cup {NoFile}]
        /\ l.cache \in Nat /\ l.async \in BOOLEAN /\ l.ahead \in Nat /\ l.ops \in Nat /\ l.faults \in Nat

VARIABLES
    load,      \* cache, async, ahead: the configuration; files: what the proxy has;
               \* threads, kinds, paths, secs: what users call; ops: bound on the operations;
               \* faults: bound on failed executions and broken connections
    remote,    \* the files at the I/O proxy
    net,       \* requests under way to the proxy
    th,        \* the threads: [st, o, ans]
    ops,       \* operations begun
    faults,
    cache,     \* ClientCache: [cached, missing]
    raced,     \* paths cached during a change, or changed behind the cache
    want,      \* the last asynchronous write of each sector, 0 if none
    crossed,   \* paths whose queued writes lost their order, or got lost
    late,      \* paths whose sectors may be buffered although they changed
    up         \* the client has not crashed

cvars == <<load, remote, net, th, ops, faults, cache, raced, want, crossed, late, up>>
vars == <<qvars, avars, cvars>>
histvars == <<raced, want, crossed, late>>

Idle == [st |-> "idle", o |-> NoReq, ans |-> 0]
At(st, o, ans) == [st |-> st, o |-> o, ans |-> ans]

Init ==
    /\ QueueInit /\ AheadInit
    /\ load \in Loads
    /\ remote = load.files
    /\ net = {}
    /\ th = [t \in Threads |-> Idle]
    /\ ops = 0 /\ faults = 0
    /\ cache = [cached |-> <<>>, missing |-> {}]
    /\ raced = {} /\ crossed = {} /\ late = {}
    /\ want = [p \in Paths |-> [s \in Sectors |-> 0]]
    /\ up = TRUE

Fail == faults < load.faults /\ faults' = faults + 1

(* Requests that the proxy has still to execute. *)
Unexecuted ==
    net \cup ToSet(line) \cup ToSet(batch)
    \cup {th[t].o : t \in {u \in Threads : th[u].st \in {"clear", "line"}}}

Dirty == UNION {Changed(o) : o \in Unexecuted}
PendingWrite(p) == \E o \in Unexecuted : o.kind = "write" /\ o.p = p

-----------------------------------------------------------------------------
(* ClientCache *)

lookup(c, p) ==
    IF p \in c.missing THEN "FOUND_MISSING"
    ELSE IF p \in DOMAIN c.cached THEN "FOUND" ELSE "NOT_FOUND"

(* The caches after set_stat was called for the paths of P in some order,  *)
(* with their attributes or NoFile.  Attributes of a new path are not      *)
(* stored in a full cache.                                                 *)
set_stat(c, P, val) ==
    LET there == {p \in P : val[p] # NoFile}
        known == DOMAIN c.cached
        fits(new) ==
            /\ new = {} \/ Cardinality(known \cup new) <= load.cache
            /\ there \subseteq known \cup new \/ Cardinality(known \cup new) >= load.cache
    IN  {[cached  |-> [p \in known \cup new |-> IF p \in there THEN val[p] ELSE c.cached[p]],
          missing |-> (c.missing \ there) \cup (P \ there)] :
            new \in {n \in SUBSET (there \ known) : fits(n)}}

expire_stat(c, P) ==
    [cached  |-> [p \in DOMAIN c.cached \ P |-> c.cached[p]],
     missing |-> c.missing \ P]

-----------------------------------------------------------------------------
(* The operations *)

(* queue_buffer: merge, push, or wait for room. *)
QueueBuffer(t, o) ==
    \/ /\ Merge(o) \/ (~Mergeable(o) /\ Push(o))
       /\ want' = [want EXCEPT ![o.p][o.s] = o.id]
       /\ th' = [th EXCEPT ![t] = Idle]
    \/ /\ ~Mergeable(o) /\ ~Roomy
       /\ th' = [th EXCEPT ![t] = At("line", o, 0)]
       /\ UNCHANGED <<qvars, want>>

Submit(t, o) ==
    /\ net' = net \cup {o}
    /\ th' = [th EXCEPT ![t] = At("sent", o, 0)]

(* The handler from the expiry of the attributes on. *)
Go(t, o) ==
    /\ IF load.cache > 0
       THEN cache' = expire_stat(cache, Expired(o)) /\ raced' = raced \ Expired(o)
       ELSE UNCHANGED <<cache, raced>>
    /\ IF o.kind = "write" /\ load.async
       THEN QueueBuffer(t, o) /\ UNCHANGED net
       ELSE /\ UNCHANGED <<qvars, want>>
            /\ IF gvdsfs_oper[o.kind].sends THEN Submit(t, o)
               ELSE th' = [th EXCEPT ![t] = Idle] /\ UNCHANGED net

(* The operations a user may call next. *)
Calls ==
    {Request(ops + 1, k, p, q, s) : k \in load.kinds, p \in load.paths, q \in Paths, s \in load.secs}
Sensible(o) ==
    /\ (o.kind = "rename") = (o.q # o.p)
    /\ o.kind \in {"read", "write", "truncate"} \/ o.s = 0

(* A handler starts: an answer from the attribute cache, the read-ahead,   *)
(* clear_buf, or the rest at once.                                         *)
Begin(t, o) ==
    LET h == gvdsfs_oper[o.kind] IN
    /\ up /\ t \in load.threads /\ th[t] = Idle /\ ops < load.ops
    /\ o \in Calls /\ Sensible(o)
    /\ ops' = ops + 1
    /\ \/ /\ h.looks /\ load.cache > 0 /\ lookup(cache, o.p) # "NOT_FOUND"
          /\ UNCHANGED <<qvars, avars, net, th, cache, histvars>>
       \/ /\ o.kind = "read" /\ load.ahead > 0
          /\ th' = [th EXCEPT ![t] = At("status", o, 0)]
          /\ UNCHANGED <<qvars, avars, net, cache, histvars>>
       \/ /\ h.clears /\ load.ahead > 0 /\ area[0].file = o.p
          /\ ClearArea(0, area[0].epoch)
          /\ th' = [th EXCEPT ![t] = At("clear", o, area[0].epoch)]
          /\ late' = late \ {o.p}
          /\ UNCHANGED <<qvars, net, cache, raced, want, crossed>>
       \/ /\ ~(h.looks /\ load.cache > 0 /\ lookup(cache, o.p) # "NOT_FOUND")
          /\ ~(o.kind = "read" /\ load.ahead > 0)
          /\ ~(h.clears /\ load.ahead > 0 /\ area[0].file = o.p)
          /\ Go(t, o)
          /\ late' = IF h.clears /\ area[1].file = o.p THEN late \cup {o.p} ELSE late
          /\ UNCHANGED <<avars, crossed>>
    /\ UNCHANGED <<load, remote, faults, up>>

(* The second area, and the rest of the write. *)
ClearSecond(t) ==
    /\ up /\ th[t].st = "clear"
    /\ ClearArea(1, th[t].ans)
    /\ Go(t, th[t].o)
    /\ UNCHANGED <<load, remote, ops, faults, crossed, late, up>>

(* A writer that waited for room. *)
Roomed(t) ==
    /\ up /\ th[t].st = "line"
    /\ Push(th[t].o)
    /\ want' = [want EXCEPT ![th[t].o.p][th[t].o.s] = th[t].o.id]
    /\ th' = [th EXCEPT ![t] = Idle]
    /\ UNCHANGED <<avars, load, remote, net, ops, faults, cache, raced, crossed, late, up>>

Answered(o) ==
    CASE o.kind = "getattr" -> Stat(remote, o.p)
      [] o.kind = "readdir" -> [p \in Paths |-> Stat(remote, p)]
      [] OTHER -> 0

(* An answer reaches the thread that waits for it. *)
Reply(o, ans) ==
    th' = [t \in Threads |-> IF th[t].st = "sent" /\ th[t].o = o THEN At("back", o, ans) ELSE th[t]]

(* The proxy executes a request, or fails to. *)
Execute(o) ==
    /\ up /\ o \in net
    /\ net' = net \ {o}
    /\ \/ /\ remote' = do_op(remote, o)
          /\ Reply(o, Answered(o))
          /\ raced' = IF o.kind \in {"setxattr", "removexattr"} THEN raced \cup {o.p} ELSE raced
          /\ crossed' = crossed \cup
                {p \in Changed(o) : IF o.kind = "write" THEN remote[p] = NoFile ELSE PendingWrite(p)}
          /\ want' = [p \in Paths |-> IF o.kind # "write" /\ p \in Changed(o)
                                      THEN [s \in Sectors |-> 0] ELSE want[p]]
          /\ late' = IF o.kind \in {"write"} \cup Touching \cup Making THEN late ELSE late \cup Changed(o)
          /\ UNCHANGED faults
       \/ /\ Fail
          /\ Reply(o, IF o.kind = "readdir" THEN [p \in Paths |-> NoFile] ELSE NoFile)
          /\ crossed' = IF o.kind = "write" THEN crossed \cup {o.p} ELSE crossed
          /\ UNCHANGED <<remote, raced, want, late>>
    /\ UNCHANGED <<qvars, avars, load, ops, cache, up>>

(* The connection of a submitted operation breaks. *)
Break(t) ==
    /\ up /\ th[t].st = "sent"
    /\ Fail
    /\ th' = [th EXCEPT ![t] = Idle]
    /\ UNCHANGED <<qvars, avars, load, remote, net, ops, cache, histvars, up>>

(* The handler gets the answer and caches what it says. *)
Return(t) ==
    LET o == th[t].o
        stored == IF load.cache = 0 THEN {}
                  ELSE CASE gvdsfs_oper[o.kind].stores = "path" -> {o.p}
                         [] gvdsfs_oper[o.kind].stores = "entries" -> {p \in Paths : th[t].ans[p] # NoFile}
                         [] OTHER -> {}
        val == [p \in stored |-> IF o.kind = "readdir" THEN th[t].ans[p] ELSE th[t].ans]
    IN
    /\ up /\ th[t].st = "back"
    /\ cache' \in set_stat(cache, stored, val)
    /\ raced' = (raced \ stored) \cup {p \in stored : p \in Dirty \/ val[p] # Stat(remote, p)}
    /\ th' = [th EXCEPT ![t] = Idle]
    /\ UNCHANGED <<qvars, avars, load, remote, net, ops, faults, want, crossed, late, up>>

-----------------------------------------------------------------------------
(* Reading with read-ahead *)

(* The read goes to the proxy instead, which changes nothing. *)
ReadRemote(t) == th' = [th EXCEPT ![t] = Idle]

ReadStatus(t) ==
    LET o == th[t].o IN
    /\ up /\ th[t].st = "status"
    /\ seen' = Seen(o.p)
    /\ \E st \in Status(o.p, o.s) :
        \/ /\ st = "IN_BUFFER"
           /\ area' = IF Hit(o.p, o.s) = {} THEN area ELSE Passed(FirstHit(o.p, o.s), o.s)
           /\ th' = [th EXCEPT ![t] = Idle]
        \/ /\ st = "ON_LINK"
           /\ th' = [th EXCEPT ![t] = At("wait", o, FirstHit(o.p, o.s))]
           /\ UNCHANGED area
        \/ /\ st = "MAY_SEQ_READ"
           /\ th' = [th EXCEPT ![t] = At("task", o, 0)]
           /\ UNCHANGED area
        \/ /\ st \in {"UNLIKE_SEQ_READ", "NOT_FOUND"}
           /\ ReadRemote(t)
           /\ UNCHANGED area
    /\ UNCHANGED <<qvars, fetches, answers, cb, load, remote, net, ops, faults, cache, histvars, up>>

(* A new task for the first area, in a new epoch. *)
ReadTask(t) ==
    LET o == th[t].o
        epoch == area[0].epoch + 1
    IN
    /\ up /\ th[t].st = "task"
    /\ SetTask(0, o.p, o.s, load.ahead, epoch, Dirty)
    /\ IF Refused(0, o.p, o.s, epoch)
       THEN ReadRemote(t)
       ELSE th' = [th EXCEPT ![t] = At("status", o, 0)]
    /\ UNCHANGED <<qvars, seen, answers, cb, load, remote, net, ops, faults, cache, histvars, up>>

(* Mutant: the wait for a sector has no time limit. *)
wait_forever(t) ==
    LET o == th[t].o IN
    /\ up /\ th[t].st = "wait"
    /\ Lookup(th[t].ans, o.p, o.s) = "IN_BUFFER"
    /\ area' = Passed(th[t].ans, o.s)
    /\ th' = [th EXCEPT ![t] = Idle]
    /\ UNCHANGED <<qvars, seen, fetches, answers, cb, load, remote, net, ops, faults, cache, histvars, up>>

(* wait_sector ends: the sector is there, or it was given up or did not    *)
(* come within a second.                                                   *)
ReadWait(t) ==
    LET o == th[t].o IN
    /\ up /\ th[t].st = "wait"
    /\ \/ /\ Lookup(th[t].ans, o.p, o.s) = "IN_BUFFER"
          /\ area' = Passed(th[t].ans, o.s)
          /\ th' = [th EXCEPT ![t] = Idle]
       \/ ReadRemote(t) /\ UNCHANGED area
    /\ UNCHANGED <<qvars, seen, fetches, answers, cb, load, remote, net, ops, faults, cache, histvars, up>>

(* The proxy answers a fetch, or the call fails. *)
FetchAnswer(w) ==
    /\ up
    /\ \/ Answer(w, Sector(remote, w.file, w.sec)) /\ UNCHANGED faults
       \/ Fail /\ Answer(w, NoReply)
    /\ UNCHANGED <<qvars, load, remote, net, th, ops, cache, histvars, up>>

FetchCallback ==
    /\ up /\ Callback
    /\ UNCHANGED <<qvars, cvars>>

FetchStore ==
    LET w == cb.w
        file == area[w.buf].file
        stale == file # NoPath /\ (cb.val # Sector(remote, file, w.sec) \/ file \in Dirty)
    IN
    /\ up /\ Store
    /\ late' = IF (w.raced \/ ~Timely(w)) /\ stale THEN late \cup {file} ELSE late
    /\ UNCHANGED <<qvars, load, remote, net, th, ops, faults, cache, raced, want, crossed, up>>

(* The callback of a failed call uses the reply that is not there. *)
FetchCrash ==
    /\ up /\ cb # NoCb /\ cb.n = 2 /\ cb.val = NoReply
    /\ up' = FALSE
    /\ UNCHANGED <<qvars, avars, load, remote, net, th, ops, faults, cache, histvars>>

FetchChain ==
    /\ up /\ cb # NoCb /\ Chain(Dirty)
    /\ UNCHANGED <<qvars, cvars>>

-----------------------------------------------------------------------------
(* The write-back queue *)

QueueDispatch ==
    /\ up /\ Dispatch
    /\ UNCHANGED <<avars, cvars>>

QueueAssign ==
    \E b \in ToSet(batch) :
        /\ up /\ Assign(b)
        /\ net' = net \cup {b}
        /\ crossed' = IF \E o \in net : o.kind = "write" /\ o.p = b.p /\ Span(o) \cap Span(b) # {}
                      THEN crossed \cup {b.p} ELSE crossed
        /\ UNCHANGED <<avars, load, remote, th, ops, faults, cache, raced, want, late, up>>

(* The answer of a write comes, or its connection breaks. *)
QueueComplete(b) ==
    /\ up /\ Complete(b)
    /\ \/ b \notin net /\ UNCHANGED <<faults, crossed>>
       \/ b \in net /\ Fail /\ crossed' = crossed \cup {b.p}
    /\ UNCHANGED <<avars, load, remote, net, th, ops, cache, raced, want, late, up>>

-----------------------------------------------------------------------------
Step(t) ==
    ClearSecond(t) \/ Roomed(t) \/ Return(t) \/ ReadStatus(t) \/ ReadTask(t) \/ ReadWait(t)
Executes == \E o \in net : Execute(o)
Fetched == (\E w \in fetches : FetchAnswer(w)) \/ FetchCallback \/ FetchStore \/ FetchCrash \/ FetchChain
Queue == QueueDispatch \/ QueueAssign \/ \E b \in onlink : QueueComplete(b)

Next ==
    \/ \E t \in Threads, o \in Calls : Begin(t, o)
    \/ \E t \in Threads : Step(t) \/ Break(t)
    \/ Executes
    \/ Fetched
    \/ Queue

(* The threads, the dispatcher, the workers and the completion thread run, *)
(* and the proxy answers or the connection breaks.                         *)
Spec ==
    /\ Init /\ [][Next]_vars
    /\ \A t \in Threads : WF_vars(Step(t))
    /\ WF_vars(Executes) /\ WF_vars(Fetched) /\ WF_vars(Queue)

-----------------------------------------------------------------------------
(* Properties *)

(* The attributes that getattr answers from the cache are those of the     *)
(* file at the proxy, and a path that it says is missing is missing, when  *)
(* no change is under way, unless they were stored during a change or the  *)
(* change was one of extended attributes: each operation expires all of    *)
(* the paths that it changes.                                              *)
StatCurrentUnlessRaced ==
    \A p \in Paths \ (raced \cup Dirty) :
        CASE lookup(cache, p) = "FOUND" -> cache.cached[p] = Stat(remote, p)
          [] lookup(cache, p) = "FOUND_MISSING" -> remote[p] = NoFile
          [] OTHER -> TRUE

(* A sector that the read-ahead would answer is the sector at the proxy,   *)
(* when no change is under way, unless its answer was asked for during a   *)
(* change or before the area was cleared, the file was truncated, removed  *)
(* or renamed, or the first area was busy with another file when it was    *)
(* written.                                                                *)
SectorsCurrentUnlessLate ==
    \A i \in Areas, p \in Paths \ (late \cup Dirty) : \A s \in DOMAIN area[i].have :
        Lookup(i, p, s) = "IN_BUFFER" => area[i].have[s] = Sector(remote, p, s)

(* "increase all buf's epoch to prevent reposonse callback" (clear_buf):   *)
(* what was asked for before an area was cleared does not get past the     *)
(* first lock of its callback.                                             *)
ClearPreventsCallback ==
    [][cb = NoCb /\ cb' # NoCb => cb'.w.gen = area'[cb'.w.buf].gen]_vars

(* When all is quiet, each sector holds what was written to it last in     *)
(* asynchronous mode, unless two writes of the sector were on link at      *)
(* once, a write failed, or the file was truncated, removed or renamed     *)
(* while writes were queued.                                               *)
WritesLandUnlessCrossed ==
    up /\ Unexecuted = {} =>
        \A p \in Paths \ crossed, s \in Sectors :
            want[p][s] # 0 => Sector(remote, p, s) = want[p][s]

(* Every operation returns, also a write that finds the queue full and a   *)
(* read of a sector that never comes, unless the client crashes.           *)
OpsEnd == \A t \in Threads : (th[t].st # "idle") ~> (th[t].st = "idle" \/ ~up)

(* A truncate leaves the file with the length that the user asked for.     *)
TruncateLength ==
    [][\A o \in net \ net' :
        o.kind = "truncate" /\ remote' # remote => Len(remote'[o.p].data) = o.s]_vars
=============================================================================
