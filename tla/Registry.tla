------------------------------ MODULE Registry ------------------------------
(***************************************************************************)
(* What the managers keep about the centers, the I/O proxies and the       *)
(* storage resources: Mconf (manager/mconf/mconf.cc), IOProxy_MGR          *)
(* (manager/ioproxy_mgr.cc) and ResAggregation_MGR                         *)
(* (manager/resaggregation_mgr.cc).  Each center has a manager; all use    *)
(* the same database.  The handlers run on several threads, take no lock   *)
(* and write whole documents back: a step is one call of the database.     *)
(***************************************************************************)
EXTENDS Naturals, FiniteSets, Sequences

CONSTANTS
    Centers,     \* centers; each is also the name of its manager
    Proxies,     \* uuids of I/O proxies, numbers that are ordered as the uuids are
    Cid,         \* Cid[p]: the center of a proxy
    Resources,   \* storage resources
    NoDoc, NoRes,\* no document under a key
    Threads,     \* threads of the managers' HTTP servers
    Loads,       \* what goes on: the kinds of requests, whether a client runs, and what is
                 \* in the database at the start
    MaxOps,      \* bound: requests
    MaxFaults    \* bound: failing calls, lost answers and restarts

ASSUME RegistryAssumption ==
    /\ Proxies \subseteq Nat
    /\ Cid \in [Proxies -> Centers]
    /\ \A s \in SUBSET Centers : NoDoc # s
    /\ \A l \in Loads : /\ l.kinds \subseteq {"centers", "proxies", "resources"}
                        /\ l.client \in BOOLEAN
                        /\ l.doc = NoDoc \/ l.doc \subseteq Centers
                        /\ l.db \subseteq Proxies
                        /\ l.res \subseteq Resources
    /\ MaxOps \in Nat /\ MaxFaults \in Nat

VARIABLES
    load,        \* chosen once
    doc,         \* the document center_information: its centers, or NoDoc
    pool,        \* pool[c]: the account pool of a center
    db,          \* proxies in the database
    live,        \* live[m]: the proxies that manager m lists (live_ioproxy)
    res,         \* res[r]: the document of a resource, or NoRes
    th,          \* th[t]: what a thread does
    ops, faults, \* how often the bounded things have happened
    ver,         \* ver[d]: how often the document d was written (for the properties)
    want,        \* the centers that were added and not deleted, in the order of the writes
    wantP,       \* the proxies that were added and not deleted
    wantR,       \* what the resources would be, had every write seen the one before
    raced,       \* documents written by a thread that had read an older version
    misread,     \* a failed get was taken for a missing document
    drift        \* proxies for which a call failed, or two requests overlapped

dbvars == <<doc, pool, db, res>>
ghosts == <<ver, want, wantP, wantR, raced, misread, drift>>
regvars == <<load, doc, pool, db, live, res, th, ops, faults, ver, want, wantP, wantR, raced,
             misread, drift>>

Idle == [pc |-> "idle"]

CentersIn(d) == IF d = NoDoc THEN {} ELSE d
NewRes == [total |-> 1, used |-> 0]

(* The managers are started on what earlier requests have left.            *)
RegInit ==
    /\ load \in Loads
    /\ doc = load.doc
    /\ pool = [c \in Centers |-> IF c \in CentersIn(doc) THEN "fresh" ELSE "none"]
    /\ db = load.db
    /\ live = [m \in Centers |-> db]
    /\ res = [r \in Resources |-> IF r \in load.res THEN NewRes ELSE NoRes]
    /\ th = [t \in Threads |-> Idle]
    /\ ops = 0
    /\ faults = 0
    /\ ver = [d \in {"centers"} \cup Resources |-> 0]
    /\ want = CentersIn(doc)
    /\ wantP = db
    /\ wantR = res
    /\ raced = {}
    /\ misread = FALSE
    /\ drift = {}

(* A thread takes a request.  *)
Begin(t, pc, arg) ==
    /\ th[t].pc = "idle"
    /\ ops < MaxOps
    /\ ops' = ops + 1
    /\ th' = [th EXCEPT ![t] = [pc |-> pc, arg |-> arg, seen |-> NoDoc, at |-> 0]]

Goto(t, pc) == th' = [th EXCEPT ![t] = [@ EXCEPT !.pc = pc]]
Read(t, pc, seen, at) == th' = [th EXCEPT ![t] = [@ EXCEPT !.pc = pc, !.seen = seen, !.at = at]]
End(t) == th' = [th EXCEPT ![t] = Idle]
Fail == faults < MaxFaults /\ faults' = faults + 1

(* Ghosts of a write of document d by t, which read version th[t].at. *)
Wrote(t, d) ==
    /\ ver' = [ver EXCEPT ![d] = @ + 1]
    /\ raced' = IF th[t].at # ver[d] THEN raced \cup {d} ELSE raced

-----------------------------------------------------------------------------
(* Mconf *)

(* Mutant: the centers that were there are left out. *)
WithCenterOnly(seen, c) == {c}

(* The centers of the new document. *)
WithCenter(seen, c) == CentersIn(seen) \cup {c}

(* addCenter: a get that fails for whatever reason is the first access.    *)
AddGet(t) ==
    /\ th[t].pc = "addget"
    /\ \/ Read(t, "addpool", doc, ver["centers"]) /\ UNCHANGED <<faults, misread>>
       \/ Fail /\ Read(t, "addpool", NoDoc, ver["centers"]) /\ misread' = (misread \/ doc # NoDoc)
    /\ UNCHANGED <<load, doc, pool, db, live, res, ops, ver, want, wantP, wantR, raced, drift>>

(* Mutant: the pool is written for known centers, too. *)
NewCenterAny(seen, c) == TRUE

NewCenter(seen, c) == c \notin CentersIn(seen)

(* A center that the document does not have gets a fresh pool of accounts; *)
(* whether that works is not looked at.                                    *)
AddPool(t) ==
    LET c == th[t].arg
    IN  /\ th[t].pc = "addpool"
        /\ \/ /\ pool' = IF NewCenter(th[t].seen, c) THEN [pool EXCEPT ![c] = "fresh"] ELSE pool
              /\ UNCHANGED faults
           \/ NewCenter(th[t].seen, c) /\ Fail /\ UNCHANGED pool
        /\ Goto(t, "addset")
        /\ UNCHANGED <<load, doc, db, live, res, ops, ghosts>>

AddSet(t) ==
    LET c == th[t].arg
    IN  /\ th[t].pc = "addset"
        /\ \/ /\ doc' = WithCenter(th[t].seen, c)
              /\ want' = want \cup {c}
              /\ Wrote(t, "centers")
              /\ UNCHANGED faults
           \/ Fail /\ UNCHANGED <<load, doc, want, ver, raced>>
        /\ End(t)
        /\ UNCHANGED <<load, pool, db, live, res, ops, wantP, wantR, misread, drift>>

addCenter(t) == AddGet(t) \/ AddPool(t) \/ AddSet(t)

(* deleteCenter: fails without the document or the center.  The pool of    *)
(* the center stays.                                                       *)
DelGet(t) ==
    /\ th[t].pc = "delget"
    /\ \/ /\ IF th[t].arg \in CentersIn(doc)
             THEN Read(t, "delset", doc, ver["centers"]) ELSE End(t)
          /\ UNCHANGED faults
       \/ Fail /\ End(t)
    /\ UNCHANGED <<load, doc, pool, db, live, res, ops, ghosts>>

DelSet(t) ==
    LET c == th[t].arg
    IN  /\ th[t].pc = "delset"
        /\ \/ /\ doc' = th[t].seen \ {c}
              /\ want' = want \ {c}
              /\ Wrote(t, "centers")
              /\ UNCHANGED faults
           \/ Fail /\ UNCHANGED <<load, doc, want, ver, raced>>
        /\ End(t)
        /\ UNCHANGED <<load, pool, db, live, res, ops, wantP, wantR, misread, drift>>

deleteCenter(t) == DelGet(t) \/ DelSet(t)

(* An account of a center's pool is taken into use: by an administrator,   *)
(* since the account mapping in UserModelServer.cc is commented out.       *)
UsePool(c) ==
    /\ pool[c] = "fresh"
    /\ c \in CentersIn(doc)
    /\ pool' = [pool EXCEPT ![c] = "used"]
    /\ UNCHANGED <<load, doc, db, live, res, th, ops, faults, ghosts>>

-----------------------------------------------------------------------------
(* IOProxy_MGR: the list in memory and the database *)

Home(t) == Cid[th[t].arg]
OnProxy(t) == th[t].pc \in {"liveadd", "dbadd", "dbdel", "livedel"}
Busy(p) == {t \in Threads : OnProxy(t) /\ th[t].arg = p}

(* Two requests for one proxy at the same time are a cause of drift.       *)
BeginProxy(t, pc, p) ==
    /\ Begin(t, pc, p)
    /\ drift' = IF Busy(p) # {} THEN drift \cup {p} ELSE drift
    /\ UNCHANGED <<load, doc, pool, db, live, res, faults, ver, want, wantP, wantR, raced, misread>>

(* add: the proxy runs from now on, for this manager's clients. *)
LiveAdd(t) ==
    /\ th[t].pc = "liveadd"
    /\ live' = [live EXCEPT ![Home(t)] = @ \cup {th[t].arg}]
    /\ Goto(t, "dbadd")
    /\ UNCHANGED <<load, doc, pool, db, res, ops, faults, ghosts>>

(* Mutant: add leaves the database to somebody else. *)
DbAddNot(t) ==
    /\ th[t].pc = "dbadd"
    /\ wantP' = wantP \cup {th[t].arg}
    /\ End(t)
    /\ UNCHANGED <<load, doc, pool, db, live, res, ops, faults, ver, want, wantR, raced, misread, drift>>

(* The answer is Accepted even if upsert fails. *)
DbAdd(t) ==
    LET p == th[t].arg
    IN  /\ th[t].pc = "dbadd"
        /\ \/ db' = db \cup {p} /\ UNCHANGED <<faults, drift>>
           \/ Fail /\ drift' = drift \cup {p} /\ UNCHANGED db
        /\ wantP' = wantP \cup {p}
        /\ End(t)
        /\ UNCHANGED <<load, doc, pool, live, res, ops, ver, want, wantR, raced, misread>>

(* del: out of the database first; out of the list in any case. *)
DbDel(t) ==
    LET p == th[t].arg
    IN  /\ th[t].pc = "dbdel"
        /\ \/ db' = db \ {p} /\ UNCHANGED <<faults, drift>>
           \/ Fail /\ drift' = drift \cup {p} /\ UNCHANGED db
        /\ Goto(t, "livedel")
        /\ UNCHANGED <<load, doc, pool, live, res, ops, ver, want, wantP, wantR, raced, misread>>

LiveDel(t) ==
    LET p == th[t].arg
    IN  /\ th[t].pc = "livedel"
        /\ live' = [live EXCEPT ![Home(t)] = @ \ {p}]
        /\ wantP' = wantP \ {p}
        /\ End(t)
        /\ UNCHANGED <<load, doc, pool, db, res, ops, faults, ver, want, wantR, raced, misread, drift>>

(* init_ioproxy_list: all proxies of the database, whatever their center;  *)
(* none if the query fails.                                                *)
init_ioproxy_list(m, ok) == IF ok THEN db ELSE {}

(* A manager is killed and started again: its requests are gone.  Those    *)
(* for a center or a resource may have been at any manager.                *)
Restart(m, ok) ==
    /\ Fail
    /\ live' = [live EXCEPT ![m] = init_ioproxy_list(m, ok)]
    /\ \E gone \in SUBSET {t \in Threads : th[t].pc # "idle"} :
          /\ \A t \in Threads : OnProxy(t) => (t \in gone) = (Home(t) = m)
          /\ th' = [t \in Threads |-> IF t \in gone THEN Idle ELSE th[t]]
          /\ drift' = drift \cup {th[t].arg : t \in {u \in gone : OnProxy(u)}}
                            \cup (IF ok THEN {} ELSE {p \in Proxies : Cid[p] = m})
    /\ UNCHANGED <<load, doc, pool, db, res, ops, ver, want, wantP, wantR, raced, misread>>

-----------------------------------------------------------------------------
(* ResAggregation_MGR, and the space service that shares its documents *)

(* Mutant: register overwrites. *)
InsertSet(r) == NewRes

(* insert fails if the document exists. *)
Insert(r) == IF res[r] = NoRes THEN NewRes ELSE res[r]

(* add: a get, and an insert if it failed. *)
ResGet(t) ==
    /\ th[t].pc = "resget"
    /\ \/ /\ IF res[th[t].arg] = NoRes THEN Goto(t, "resins") ELSE End(t)
          /\ UNCHANGED faults
       \/ Fail /\ Goto(t, "resins")
    /\ UNCHANGED <<load, doc, pool, db, live, res, ops, ghosts>>

ResInsert(t) ==
    LET r == th[t].arg
    IN  /\ th[t].pc = "resins"
        /\ \/ /\ res' = [res EXCEPT ![r] = Insert(r)]
              /\ wantR' = [wantR EXCEPT ![r] = IF @ = NoRes THEN NewRes ELSE @]
              /\ ver' = [ver EXCEPT ![r] = IF res[r] = NoRes THEN @ + 1 ELSE @]
              /\ UNCHANGED faults
           \/ Fail /\ UNCHANGED <<res, wantR, ver>>
        /\ End(t)
        /\ UNCHANGED <<load, doc, pool, db, live, ops, want, wantP, raced, misread, drift>>

(* del: one statement. *)
ResDelete(t) ==
    LET r == th[t].arg
    IN  /\ th[t].pc = "resdel"
        /\ \/ /\ res' = [res EXCEPT ![r] = NoRes]
              /\ wantR' = [wantR EXCEPT ![r] = NoRes]
              /\ ver' = [ver EXCEPT ![r] = @ + 1]
              /\ UNCHANGED faults
           \/ Fail /\ UNCHANGED <<res, wantR, ver>>
        /\ End(t)
        /\ UNCHANGED <<load, doc, pool, db, live, ops, want, wantP, raced, misread, drift>>

(* update and the space service: read, change some fields, write all. *)
ChangeGet(t) ==
    LET r == th[t].arg
    IN  /\ th[t].pc \in {"updget", "useget"}
        /\ \/ /\ IF res[r] # NoRes
                 THEN Read(t, IF th[t].pc = "updget" THEN "updset" ELSE "useset", res[r], ver[r])
                 ELSE End(t)
              /\ UNCHANGED faults
           \/ Fail /\ End(t)
        /\ UNCHANGED <<load, doc, pool, db, live, res, ops, ghosts>>

(* The request of update names a new total capacity and leaves the other   *)
(* fields at -1 or "#"; the space service adds to what is assigned.        *)
Changed(v, pc) == IF pc = "updset" THEN [v EXCEPT !.total = 2] ELSE [v EXCEPT !.used = @ + 1]

ChangeSet(t) ==
    LET r == th[t].arg
    IN  /\ th[t].pc \in {"updset", "useset"}
        /\ \/ /\ res' = [res EXCEPT ![r] = Changed(th[t].seen, th[t].pc)]
              /\ wantR' = [wantR EXCEPT ![r] = IF @ = NoRes THEN @ ELSE Changed(@, th[t].pc)]
              /\ Wrote(t, r)
              /\ UNCHANGED faults
           \/ Fail /\ UNCHANGED <<res, wantR, ver, raced>>
        /\ End(t)
        /\ UNCHANGED <<load, doc, pool, db, live, ops, want, wantP, misread, drift>>

-----------------------------------------------------------------------------
RegRequest(t) ==
    \/ /\ \/ /\ "centers" \in load.kinds
             /\ \E c \in Centers : Begin(t, "addget", c) \/ Begin(t, "delget", c)
          \/ /\ "resources" \in load.kinds
             /\ \E r \in Resources, pc \in {"resget", "resdel", "updget", "useget"} : Begin(t, pc, r)
       /\ UNCHANGED <<load, doc, pool, db, live, res, faults, ghosts>>
    \/ /\ "proxies" \in load.kinds
       /\ \E p \in Proxies : BeginProxy(t, "liveadd", p) \/ BeginProxy(t, "dbdel", p)

RegStep(t) ==
    \/ addCenter(t) \/ deleteCenter(t)
    \/ LiveAdd(t) \/ DbAdd(t) \/ DbDel(t) \/ LiveDel(t)
    \/ ResGet(t) \/ ResInsert(t) \/ ResDelete(t) \/ ChangeGet(t) \/ ChangeSet(t)

RegNext ==
    \/ \E t \in Threads : RegRequest(t) \/ RegStep(t)
    \/ \E c \in Centers : UsePool(c)
    \/ \E m \in Centers, ok \in BOOLEAN : Restart(m, ok)

-----------------------------------------------------------------------------
(* Properties *)

(* The configuration has exactly the centers that were added and not       *)
(* deleted, unless two requests overlapped, or addCenter took a failed get *)
(* for a first access and wrote its center alone.                          *)
CentersKept ==
    "centers" \in raced \/ misread \/ CentersIn(doc) = want

(* A center that is configured keeps its account pool once accounts were   *)
(* taken from it, whatever is modified, unless requests overlapped or a    *)
(* get failed.                                                             *)
PoolKept ==
    [][\A c \in Centers :
          pool[c] = "used" /\ pool'[c] # "used" =>
              \/ c \notin want
              \/ misread
              \/ "centers" \in raced
              \/ \E t \in Threads : th[t].pc = "addpool" /\ th[t].at # ver["centers"]]_regvars

(* When no request for a proxy is under way, its center's manager lists it *)
(* if and only if it was added and not deleted since, and so after the     *)
(* next restart: unless a call failed, two requests for it overlapped, or  *)
(* the manager was killed in the middle.                                   *)
ProxiesKept ==
    \A p \in Proxies :
        \/ p \in drift
        \/ Busy(p) # {}
        \/ /\ p \in wantP <=> p \in db
           /\ p \in wantP <=> p \in live[Cid[p]]

(* The document of a resource is what all writes together make of it, also *)
(* if gets fail: registering never takes away the assigned capacity.  Only *)
(* two overlapping requests can lose a change or bring back a resource     *)
(* that was deleted.                                                       *)
ResourceKept == \A r \in Resources : r \in raced \/ res[r] = wantR[r]
=============================================================================
