-------------------------- MODULE UserServerProofs --------------------------
(***************************************************************************)
(* Proofs about the accounts: for any number of threads, names, faults and *)
(* operations, the invariants of UserServer hold however the handlers      *)
(* interleave, whichever database calls fail and whenever the manager      *)
(* stops.                                                                  *)
(***************************************************************************)
EXTENDS UserServer, TLAPS

USE UserAssumption, NoNameAssumption

RegPcs == {"regget", "regset", "reset", "regset2", "regadmin", "regdoc"}
UnwrittenPcs == {"regset", "reset", "regset2"}
WrittenPcs == {"regadmin", "regdoc"}
LogPcs == {"logadmin", "logdoc", "logtoken"}
LateCancelPcs == {"cansc", "cankey", "candoc"}
Pcs == RegPcs \cup LogPcs \cup LateCancelPcs
       \cup {"idle", "logget", "moddoc", "canget", "canzones"}

-----------------------------------------------------------------------------
(* The inductive invariant, by parts. *)

Handler == [pc : Pcs, name : Names \cup {NoName}, pass : Passwords \cup {NoName},
            admin : BOOLEAN, uuid : Uuids \cup {NoId}]

\* What a handler has in its locals when it waits for its next database call.
ThreadOK(r) ==
  /\ r \in Handler
  /\ r.pc \notin {"idle", "logget"} => r.uuid \in Uuids
  /\ r.pc \in RegPcs \cup LogPcs \cup {"logget", "moddoc"} => r.name \in Names /\ r.pass \in Passwords
  /\ r.pc \in LateCancelPcs \cup {"canzones"} => r.name \in Names

ThreadsOK == th = [t \in Threads |-> th[t]] /\ \A t \in Threads : ThreadOK(th[t])

Reports == [name : Names, uuid : Uuids]
HistoryOK == reported \subseteq Reports /\ clash \subseteq Names /\ raced \in BOOLEAN

MapOK == /\ hasMap \in BOOLEAN /\ map \in [Names -> Uuids \cup {NoId}]
         /\ ~hasMap => \A n \in Names : map[n] = NoId
DocsOK == /\ accounts \in [Uuids -> Accounts \cup {None}]
          /\ adminlist \subseteq Uuids /\ sc \subseteq Uuids
          /\ tokens \subseteq Names \X Passwords /\ keys \subseteq Names
ClientsOK == zoned \subseteq Uuids /\ clients \subseteq [name : Names, pass : Passwords, uuid : Uuids]
CountsOK == faults \in 0 .. MaxFaults /\ ops \in 0 .. MaxOps

Typed == MapOK /\ DocsOK /\ ClientsOK /\ CountsOK /\ ThreadsOK /\ HistoryOK

\* A cancellation that has passed the query for zones knows of every zone.
LateCancelSeen ==
  \A t \in Threads : th[t].pc \in LateCancelPcs /\ th[t].uuid \in zoned => th[t].uuid \in unsure

\* Where a uuid occurs together with a name.
MapClaim(u, n) == map[n] = u
DocClaim(u, n) == accounts[u] # None /\ accounts[u].name = n
ThreadClaim(u, n) == \E t \in Threads : /\ th[t].pc \in RegPcs \cup LogPcs \cup {"moddoc"}
                                        /\ th[t].uuid = u /\ th[t].name = n
ClientClaim(u, n) == \E c \in clients : c.uuid = u /\ c.name = n
ReportClaim(u, n) == [name |-> n, uuid |-> u] \in reported

Claim(u, n) == \/ MapClaim(u, n) \/ DocClaim(u, n) \/ ThreadClaim(u, n)
               \/ ClientClaim(u, n) \/ ReportClaim(u, n)

\* A uuid belongs to one name, wherever it is found, and is not a future one.
OneName == \A u \in Uuids, m, n \in Names : Claim(u, m) /\ Claim(u, n) => m = n
NotFuture == \A u \in Uuids, n \in Names : Claim(u, n) => u <= ops

\* An account that was found or reported is there until it is cancelled.
Kept(u) == accounts[u] # None \/ u \in cancelled
FoundKept == /\ \A t \in Threads : th[t].pc = "logtoken" => Kept(th[t].uuid)
             /\ \A c \in clients : Kept(c.uuid)
             /\ \A r \in reported : Kept(r.uuid)

\* A name in the map that a registration is about to write was seen as taken
\* by mistake; the entry that was written stays, except in a race.
Excused(n) == n \in clash \/ raced
UnwrittenFree == \A t \in Threads : th[t].pc \in UnwrittenPcs =>
                   map[th[t].name] = NoId \/ Excused(th[t].name)
WrittenStays == \A t \in Threads : th[t].pc \in WrittenPcs =>
                  map[th[t].name] = th[t].uuid \/ Excused(th[t].name)
ReportStays == \A r \in reported : map[r.name] = r.uuid \/ Excused(r.name)
OneReset == \A t \in Threads : th[t].pc = "reset" =>
              raced \/ (~hasMap /\ \A u \in Threads : th[u].pc = "reset" => u = t)

Lookup == UnwrittenFree /\ WrittenStays /\ ReportStays /\ OneReset

-----------------------------------------------------------------------------
(* A step of thread t changes the locals of that thread only. *)

LEMMA UpdateThread ==
  ASSUME ThreadsOK, NEW t \in Threads, NEW r, ThreadOK(r), th' = [th EXCEPT ![t] = r]
  PROVE  ThreadsOK' /\ th'[t] = r /\ \A u \in Threads \ {t} : th'[u] = th[u]
BY DEF ThreadsOK

LEMMA IdleOK == ThreadOK(Idle)
BY DEF ThreadOK, Handler, Idle, Pcs, RegPcs, LogPcs, LateCancelPcs

LEMMA ReturnOK ==
  ASSUME ThreadsOK, NEW t \in Threads, Return(t)
  PROVE  ThreadsOK' /\ th'[t] = Idle /\ \A u \in Threads \ {t} : th'[u] = th[u]
BY UpdateThread, IdleOK DEF Return

\* A handler goes on to a place that asks no more of its locals.
Follows(p, q) ==
  \/ p \in RegPcs /\ q \in RegPcs
  \/ p \in LogPcs /\ q \in LogPcs
  \/ p \in LateCancelPcs \cup {"canzones"} /\ q \in LateCancelPcs

LEMMA GoOK ==
  ASSUME ThreadsOK, NEW t \in Threads, NEW q, Follows(th[t].pc, q), Go(t, q)
  PROVE  /\ ThreadsOK'
         /\ th'[t].pc = q /\ th'[t].name = th[t].name /\ th'[t].uuid = th[t].uuid
         /\ \A u \in Threads \ {t} : th'[u] = th[u]
<1> DEFINE r == [th[t] EXCEPT !.pc = q]
<1>1. ThreadOK(r)
  BY DEF ThreadsOK, ThreadOK, Handler, Follows, Pcs, RegPcs, LogPcs, LateCancelPcs
<1>2. th' = [th EXCEPT ![t] = r]
  BY DEF Go
<1>3. r.pc = q /\ r.name = th[t].name /\ r.uuid = th[t].uuid
  BY DEF ThreadsOK, ThreadOK, Handler
<1> QED BY <1>1, <1>2, <1>3, UpdateThread

LEMMA FaultOK ==
  ASSUME faults \in 0 .. MaxFaults, Fault
  PROVE  faults' \in 0 .. MaxFaults
BY DEF Fault

-----------------------------------------------------------------------------
(* Types. *)

LEMMA TypedTypeOK == Typed => TypeOK
BY DEF Typed, TypeOK, MapOK, DocsOK, ClientsOK, CountsOK, ThreadsOK, ThreadOK

\* What the locals of a thread are, by the place it is at.
LEMMA LocalsOK ==
  ASSUME ThreadsOK, NEW t \in Threads
  PROVE  /\ ThreadOK(th[t])
         /\ th[t].pc \in RegPcs \cup LogPcs \cup {"moddoc"} =>
              th[t].uuid \in Uuids /\ th[t].name \in Names /\ th[t].pass \in Passwords
         /\ th[t].pc = "logget" => th[t].name \in Names /\ th[t].pass \in Passwords
         /\ th[t].pc \in LateCancelPcs \cup {"canget", "canzones"} => th[t].uuid \in Uuids
         /\ th[t].pc \in LateCancelPcs \cup {"canzones"} => th[t].name \in Names
BY DEF ThreadsOK, ThreadOK, RegPcs, LogPcs, LateCancelPcs

LEMMA NoneOK == None \notin Accounts /\ \A a \in Accounts : a.name \in Names /\ a.pass \in Passwords
BY DEF None, Accounts

USE DEF Typed

LEMMA RegGetTyped == ASSUME Typed, NEW t \in Threads, RegGet(t) PROVE Typed'
<1>0. th[t].name \in Names /\ th[t].pc = "regget"
  BY LocalsOK DEF RegGet, At, RegPcs
<1>1. ThreadsOK'
  BY <1>0, ReturnOK, GoOK DEF RegGet, Follows, RegPcs
<1>2. CountsOK'
  BY FaultOK DEF RegGet, CountsOK
<1>3. HistoryOK'
  BY <1>0 DEF RegGet, HistoryOK
<1>4. MapOK' /\ DocsOK' /\ ClientsOK'
  BY DEF RegGet, db, MapOK, DocsOK, ClientsOK
<1> QED BY <1>1, <1>2, <1>3, <1>4

\* The entry of the map that a registration writes.
LEMMA WrittenOK ==
  ASSUME Typed, NEW t \in Threads, th[t].pc \in RegPcs, hasMap, Written(t)
  PROVE  map' \in [Names -> Uuids \cup {NoId}]
BY LocalsOK DEF Written, MapOK

LEMMA AfterMapOK ==
  ASSUME Typed, NEW t \in Threads, th[t].pc \in RegPcs, AfterMap(t)
  PROVE  /\ ThreadsOK'
         /\ th'[t].pc \in WrittenPcs /\ th'[t].name = th[t].name /\ th'[t].uuid = th[t].uuid
         /\ \A u \in Threads \ {t} : th'[u] = th[u]
<1> DEFINE q == IF th[t].admin THEN "regadmin" ELSE "regdoc"
<1>1. q \in WrittenPcs
  BY DEF WrittenPcs
<1>2. Go(t, q)
  BY DEF AfterMap
<1>3. Follows(th[t].pc, q)
  BY <1>1 DEF Follows, RegPcs, WrittenPcs
<1> HIDE DEF q
<1> QED BY <1>1, <1>2, <1>3, GoOK

LEMMA RegSetTyped == ASSUME Typed, NEW t \in Threads, RegSet(t) PROVE Typed'
<1>0. th[t].name \in Names /\ th[t].pc = "regset" /\ th[t].pc \in RegPcs
  BY LocalsOK DEF RegSet, At, RegPcs
<1>1. ThreadsOK'
  BY <1>0, ReturnOK, GoOK, AfterMapOK DEF RegSet, Follows, RegPcs
<1>2. CountsOK'
  BY FaultOK DEF RegSet, CountsOK
<1>3. HistoryOK'
  BY <1>0 DEF RegSet, HistoryOK, Clashes
<1>4. MapOK'
  <2>1. CASE UNCHANGED map
    BY <2>1 DEF RegSet, MapOK
  <2>2. CASE hasMap /\ Written(t)
    BY <1>0, <2>2, WrittenOK DEF RegSet, MapOK
  <2> QED BY <2>1, <2>2 DEF RegSet, Missing
<1>5. DocsOK' /\ ClientsOK'
  BY DEF RegSet, DocsOK, ClientsOK
<1> QED BY <1>1, <1>2, <1>3, <1>4, <1>5

LEMMA RegResetTyped == ASSUME Typed, NEW t \in Threads, RegReset(t) PROVE Typed'
<1>1. ThreadsOK'
  BY GoOK DEF RegReset, At, Follows, RegPcs
<1>2. CountsOK'
  BY FaultOK DEF RegReset, CountsOK
<1>3. HistoryOK' /\ DocsOK' /\ ClientsOK'
  BY DEF RegReset, HistoryOK, history, DocsOK, ClientsOK
<1>4. MapOK'
  <2>1. CASE UNCHANGED <<hasMap, map>>
    BY <2>1 DEF MapOK
  <2>2. CASE hasMap' = TRUE /\ map' = [n \in Names |-> NoId]
    BY <2>2 DEF MapOK
  <2> QED BY <2>1, <2>2 DEF RegReset
<1> QED BY <1>1, <1>2, <1>3, <1>4

LEMMA RegSetAgainTyped == ASSUME Typed, NEW t \in Threads, RegSetAgain(t) PROVE Typed'
<1>0. th[t].name \in Names /\ th[t].pc \in RegPcs
  BY LocalsOK DEF RegSetAgain, At, RegPcs
<1>1. ThreadsOK'
  BY <1>0, ReturnOK, AfterMapOK DEF RegSetAgain
<1>2. CountsOK'
  BY FaultOK DEF RegSetAgain, CountsOK
<1>3. HistoryOK'
  BY <1>0 DEF RegSetAgain, HistoryOK, Clashes
<1>4. MapOK'
  <2>1. CASE UNCHANGED map
    BY <2>1 DEF RegSetAgain, MapOK
  <2>2. CASE hasMap /\ Written(t)
    BY <1>0, <2>2, WrittenOK DEF RegSetAgain, MapOK
  <2> QED BY <2>1, <2>2 DEF RegSetAgain
<1>5. DocsOK' /\ ClientsOK'
  BY DEF RegSetAgain, DocsOK, ClientsOK
<1> QED BY <1>1, <1>2, <1>3, <1>4, <1>5

LEMMA RegAdminTyped == ASSUME Typed, NEW t \in Threads, RegAdmin(t) PROVE Typed'
<1>0. th[t].uuid \in Uuids /\ th[t].pc = "regadmin"
  BY LocalsOK DEF RegAdmin, At, RegPcs
<1>1. ThreadsOK'
  BY <1>0, ReturnOK, GoOK DEF RegAdmin, Follows, RegPcs
<1>2. CountsOK'
  BY FaultOK DEF RegAdmin, CountsOK
<1>3. DocsOK'
  BY <1>0 DEF RegAdmin, DocsOK
<1>4. HistoryOK' /\ MapOK' /\ ClientsOK'
  BY DEF RegAdmin, HistoryOK, MapOK, ClientsOK
<1> QED BY <1>1, <1>2, <1>3, <1>4

LEMMA RegDocTyped == ASSUME Typed, NEW t \in Threads, RegDoc(t) PROVE Typed'
<1>0. th[t].uuid \in Uuids /\ th[t].name \in Names /\ th[t].pass \in Passwords
  BY LocalsOK DEF RegDoc, At, RegPcs
<1>1. ThreadsOK'
  BY ReturnOK DEF RegDoc
<1>2. CountsOK'
  BY FaultOK DEF RegDoc, CountsOK
<1>3. DocsOK'
  BY <1>0 DEF RegDoc, DocsOK, DocKey, Accounts
<1>4. HistoryOK'
  BY <1>0 DEF RegDoc, HistoryOK, Reports
<1>5. MapOK' /\ ClientsOK'
  BY DEF RegDoc, MapOK, ClientsOK
<1> QED BY <1>1, <1>2, <1>3, <1>4, <1>5

LEMMA LogGetTyped == ASSUME Typed, NEW t \in Threads, LogGet(t) PROVE Typed'
<1>0. th[t].name \in Names /\ th[t].pass \in Passwords /\ th[t].pc = "logget"
  BY LocalsOK DEF LogGet, At
<1>1. ThreadsOK'
  <2> DEFINE r == [th[t] EXCEPT !.pc = "logadmin", !.uuid = map[th[t].name]]
  <2>1. CASE Return(t)
    BY <2>1, ReturnOK
  <2>2. CASE map[th[t].name] # NoId /\ th' = [th EXCEPT ![t].pc = "logadmin", ![t].uuid = map[th[t].name]]
    <3>1. map[th[t].name] \in Uuids
      BY <1>0, <2>2 DEF MapOK
    <3>2. ThreadOK(r)
      BY <1>0, <3>1 DEF ThreadsOK, ThreadOK, Handler, Pcs, RegPcs, LogPcs, LateCancelPcs
    <3>3. th' = [th EXCEPT ![t] = r]
      BY <2>2
    <3> QED BY <3>2, <3>3, UpdateThread
  <2> QED BY <2>1, <2>2 DEF LogGet
<1>2. CountsOK'
  BY FaultOK DEF LogGet, CountsOK
<1>3. MapOK' /\ DocsOK' /\ ClientsOK' /\ HistoryOK'
  BY DEF LogGet, db, history, MapOK, DocsOK, ClientsOK, HistoryOK
<1> QED BY <1>1, <1>2, <1>3

LEMMA ValidAdminTyped == ASSUME Typed, NEW t \in Threads, validadminidentity(t) PROVE Typed'
<1>1. ThreadsOK'
  <2> DEFINE r == [th[t] EXCEPT !.pc = "logdoc"]
             b == th[t].uuid \in adminlist
             a == [th[t] EXCEPT !.pc = "logdoc", !.admin = b]
  <2>2. th' = [th EXCEPT ![t] = r] \/ th' = [th EXCEPT ![t] = a]
    BY DEF validadminidentity
  <2>3. b \in BOOLEAN
    OBVIOUS
  <2> HIDE DEF b
  <2>1. ThreadOK(r) /\ ThreadOK(a)
    BY <2>3 DEF validadminidentity, At, ThreadsOK, ThreadOK, Handler, Pcs, RegPcs, LogPcs, LateCancelPcs
  <2> QED BY <2>1, <2>2, UpdateThread
<1>2. CountsOK'
  BY FaultOK DEF validadminidentity, CountsOK
<1>3. MapOK' /\ DocsOK' /\ ClientsOK' /\ HistoryOK'
  BY DEF validadminidentity, db, history, MapOK, DocsOK, ClientsOK, HistoryOK
<1> QED BY <1>1, <1>2, <1>3

LEMMA LogDocTyped == ASSUME Typed, NEW t \in Threads, LogDoc(t) PROVE Typed'
<1>1. ThreadsOK'
  BY ReturnOK, GoOK DEF LogDoc, At, Follows, LogPcs
<1>2. CountsOK'
  BY FaultOK DEF LogDoc, CountsOK
<1>3. MapOK' /\ DocsOK' /\ ClientsOK' /\ HistoryOK'
  BY DEF LogDoc, db, history, MapOK, DocsOK, ClientsOK, HistoryOK
<1> QED BY <1>1, <1>2, <1>3

LEMMA LogTokenTyped == ASSUME Typed, NEW t \in Threads, LogToken(t) PROVE Typed'
<1>0. th[t].uuid \in Uuids /\ th[t].name \in Names /\ th[t].pass \in Passwords
  BY LocalsOK DEF LogToken, At, LogPcs
<1>1. ThreadsOK'
  BY ReturnOK DEF LogToken
<1>2. CountsOK'
  BY FaultOK DEF LogToken, CountsOK
<1>3. DocsOK' /\ ClientsOK'
  BY <1>0 DEF LogToken, DocsOK, ClientsOK
<1>4. MapOK' /\ HistoryOK'
  BY DEF LogToken, history, MapOK, HistoryOK
<1> QED BY <1>1, <1>2, <1>3, <1>4

LEMMA ModDocTyped == ASSUME Typed, NEW t \in Threads, ModDoc(t) PROVE Typed'
<1>0. th[t].uuid \in Uuids /\ th[t].name \in Names /\ th[t].pass \in Passwords
  BY LocalsOK DEF ModDoc, At
<1>1. ThreadsOK'
  BY ReturnOK DEF ModDoc
<1>2. CountsOK'
  BY FaultOK DEF ModDoc, CountsOK
<1>3. DocsOK'
  <2>1. Person(t) \in Accounts
    BY <1>0 DEF Person, Accounts
  <2> QED BY <2>1 DEF ModDoc, DocsOK
<1>4. MapOK' /\ ClientsOK' /\ HistoryOK'
  BY DEF ModDoc, history, MapOK, ClientsOK, HistoryOK
<1> QED BY <1>1, <1>2, <1>3, <1>4

LEMMA CanGetTyped == ASSUME Typed, NEW t \in Threads, CanGet(t) PROVE Typed'
<1>0. th[t].uuid \in Uuids /\ th[t].pc = "canget"
  BY LocalsOK DEF CanGet, At
<1>1. ThreadsOK'
  <2> DEFINE doc == accounts[th[t].uuid]
             r == [th[t] EXCEPT !.pc = "canzones", !.name = doc.name]
  <2>1. CASE Return(t)
    BY <2>1, ReturnOK
  <2>2. CASE doc # None /\ th' = [th EXCEPT ![t].pc = "canzones", ![t].name = doc.name]
    <3>1. doc.name \in Names
      BY <1>0, <2>2, NoneOK DEF DocsOK
    <3> HIDE DEF doc
    <3>2. ThreadOK(r)
      BY <1>0, <3>1 DEF ThreadsOK, ThreadOK, Handler, Pcs, RegPcs, LogPcs, LateCancelPcs
    <3>3. th' = [th EXCEPT ![t] = r]
      BY <2>2
    <3> QED BY <3>2, <3>3, UpdateThread
  <2> QED BY <2>1, <2>2 DEF CanGet
<1>2. CountsOK'
  BY FaultOK DEF CanGet, CountsOK
<1>3. MapOK' /\ DocsOK' /\ ClientsOK' /\ HistoryOK'
  BY DEF CanGet, db, history, MapOK, DocsOK, ClientsOK, HistoryOK
<1> QED BY <1>1, <1>2, <1>3

LEMMA CanZonesTyped == ASSUME Typed, NEW t \in Threads, CanZones(t) PROVE Typed'
<1>1. ThreadsOK'
  BY ReturnOK, GoOK DEF CanZones, At, Follows, LateCancelPcs
<1>2. CountsOK'
  BY FaultOK DEF CanZones, CountsOK
<1>3. MapOK' /\ DocsOK' /\ ClientsOK' /\ HistoryOK'
  BY DEF CanZones, db, MapOK, DocsOK, ClientsOK, HistoryOK
<1> QED BY <1>1, <1>2, <1>3

LEMMA CanScTyped == ASSUME Typed, NEW t \in Threads, CanSc(t) PROVE Typed'
<1>1. ThreadsOK'
  BY ReturnOK, GoOK DEF CanSc, At, Follows, LateCancelPcs
<1>2. CountsOK'
  BY FaultOK DEF CanSc, CountsOK
<1>3. MapOK' /\ DocsOK' /\ ClientsOK' /\ HistoryOK'
  BY DEF CanSc, history, MapOK, DocsOK, ClientsOK, HistoryOK
<1> QED BY <1>1, <1>2, <1>3

LEMMA CanKeyTyped == ASSUME Typed, NEW t \in Threads, CanKey(t) PROVE Typed'
<1>1. ThreadsOK'
  BY ReturnOK, GoOK DEF CanKey, At, Follows, LateCancelPcs
<1>2. CountsOK'
  BY FaultOK DEF CanKey, CountsOK
<1>3. MapOK' /\ DocsOK' /\ ClientsOK' /\ HistoryOK'
  BY DEF CanKey, history, MapOK, DocsOK, ClientsOK, HistoryOK
<1> QED BY <1>1, <1>2, <1>3

LEMMA CanDocTyped == ASSUME Typed, NEW t \in Threads, CanDoc(t) PROVE Typed'
<1>1. ThreadsOK'
  BY ReturnOK DEF CanDoc
<1>2. CountsOK'
  BY FaultOK DEF CanDoc, CountsOK
<1>3. MapOK' /\ DocsOK' /\ ClientsOK' /\ HistoryOK'
  BY DEF CanDoc, MapOK, DocsOK, ClientsOK, HistoryOK
<1> QED BY <1>1, <1>2, <1>3

LEMMA RestartTyped == ASSUME Typed, Restart PROVE Typed'
<1>1. ThreadsOK'
  BY IdleOK DEF Restart, ThreadsOK
<1>2. CountsOK'
  BY FaultOK DEF Restart, CountsOK
<1>3. MapOK' /\ DocsOK' /\ ClientsOK' /\ HistoryOK'
  BY DEF Restart, db, MapOK, DocsOK, ClientsOK, HistoryOK
<1> QED BY <1>1, <1>2, <1>3

LEMMA ZoneRegisteredTyped ==
  ASSUME Typed, NEW c \in clients, ZoneRegistered(c)
  PROVE  Typed'
<1>1. ThreadsOK' /\ CountsOK' /\ MapOK' /\ DocsOK' /\ HistoryOK'
  BY DEF ZoneRegistered, db, ThreadsOK, CountsOK, MapOK, DocsOK, HistoryOK
<1>2. ClientsOK'
  BY DEF ZoneRegistered, ClientsOK
<1> QED BY <1>1, <1>2

\* A call begins: an idle thread gets its locals, and the number of the call is used up.
LEMMA StartOK ==
  ASSUME Typed, NEW t \in Threads, NEW q, NEW n, NEW p, NEW a, NEW u, Start(t, q, n, p, a, u),
         ThreadOK([pc |-> q, name |-> n, pass |-> p, admin |-> a, uuid |-> u])
  PROVE  Typed' /\ th'[t] = [pc |-> q, name |-> n, pass |-> p, admin |-> a, uuid |-> u]
         /\ ops' = ops + 1 /\ ops < MaxOps /\ th[t].pc = "idle"
         /\ (\A w \in Threads \ {t} : th'[w] = th[w])
         /\ UNCHANGED <<hasMap, map, accounts, zoned, clients, reported, clash, raced, broken,
                        cancelled, unsure>>
<1> DEFINE r == [pc |-> q, name |-> n, pass |-> p, admin |-> a, uuid |-> u]
<1>1. th' = [th EXCEPT ![t] = r] /\ ops < MaxOps /\ ops' = ops + 1 /\ th[t].pc = "idle"
      /\ UNCHANGED <<db, zoned, clients, history, faults>>
  BY DEF Start, Begin, At
<1>2. ThreadOK(r)
  OBVIOUS
<1> HIDE DEF r
<1>3. ThreadsOK' /\ th'[t] = r /\ \A w \in Threads \ {t} : th'[w] = th[w]
  BY <1>1, <1>2, UpdateThread
<1>4. CountsOK'
  BY <1>1 DEF CountsOK
<1>5. MapOK' /\ DocsOK' /\ ClientsOK' /\ HistoryOK'
  BY <1>1 DEF db, history, MapOK, DocsOK, ClientsOK, HistoryOK
<1>6. UNCHANGED <<hasMap, map, accounts, zoned, clients, reported, clash, raced, broken, cancelled, unsure>>
  BY <1>1 DEF db, history
<1> QED BY <1>1, <1>3, <1>4, <1>5, <1>6 DEF r

-----------------------------------------------------------------------------
(* What a call or a step does to the handlers: thread t alone moves, and   *)
(* it gets a uuid and a name from where they already are, or a new uuid.   *)

OnlyThread(t) == \A w \in Threads \ {t} : th'[w] = th[w]
SameLocals(t) == th'[t].name = th[t].name /\ th'[t].uuid = th[t].uuid

\* The calls: Register, Login, Modify and Cancel.
Called(t) ==
  /\ Typed' /\ OnlyThread(t) /\ th[t].pc = "idle"
  /\ UNCHANGED <<hasMap, map, accounts, zoned, clients, reported, clash, raced, broken,
                 cancelled, unsure>>
  /\ ops' = ops + 1 /\ ops + 1 \in Uuids
  /\ \/ th'[t].pc = "regget" /\ th'[t].uuid = ops + 1
     \/ th'[t].pc \in {"logget", "canget"}
     \/ th'[t].pc = "moddoc" /\ \E c \in clients : c.uuid = th'[t].uuid /\ c.name = th'[t].name

LEMMA RegisterForm ==
  ASSUME Typed, NEW t \in Threads, NEW n \in Names, NEW p \in Passwords, NEW a \in BOOLEAN,
         Register(t, n, p, a)
  PROVE  Called(t)
<1>1. ops < MaxOps /\ ops + 1 \in Uuids
  BY DEF Register, Start, Begin, CountsOK, Uuids
<1> DEFINE u == ops + 1
<1> HIDE DEF u
<1>2. ThreadOK([pc |-> "regget", name |-> n, pass |-> p, admin |-> a, uuid |-> u])
  BY <1>1 DEF u, ThreadOK, Handler, Pcs, RegPcs, LogPcs, LateCancelPcs
<1>3. Start(t, "regget", n, p, a, u)
  BY DEF u, Register
<1>4. /\ Typed' /\ th'[t] = [pc |-> "regget", name |-> n, pass |-> p, admin |-> a, uuid |-> u]
      /\ ops' = ops + 1 /\ ops < MaxOps /\ th[t].pc = "idle"
      /\ (\A w \in Threads \ {t} : th'[w] = th[w])
      /\ UNCHANGED <<hasMap, map, accounts, zoned, clients, reported, clash, raced, broken,
                     cancelled, unsure>>
  BY <1>2, <1>3, StartOK
<1> QED BY <1>1, <1>4 DEF Called, OnlyThread, u

LEMMA LoginForm ==
  ASSUME Typed, NEW t \in Threads, NEW n \in Names, NEW p \in Passwords, Login(t, n, p)
  PROVE  Called(t)
<1>1. ops + 1 \in Uuids
  BY DEF Login, Start, Begin, CountsOK, Uuids
<1> DEFINE no == FALSE
<1> HIDE DEF no
<1>2. ThreadOK([pc |-> "logget", name |-> n, pass |-> p, admin |-> no, uuid |-> NoId])
  BY DEF no, ThreadOK, Handler, Pcs, RegPcs, LogPcs, LateCancelPcs
<1> DEFINE r == [pc |-> "logget", name |-> n, pass |-> p, admin |-> no, uuid |-> NoId]
<1>3. Start(t, "logget", n, p, no, NoId)
  BY DEF no, Login
<1>4. /\ Typed' /\ th'[t] = r /\ ops' = ops + 1 /\ th[t].pc = "idle"
      /\ (\A w \in Threads \ {t} : th'[w] = th[w])
      /\ UNCHANGED <<hasMap, map, accounts, zoned, clients, reported, clash, raced, broken,
                     cancelled, unsure>>
  BY <1>2, <1>3, StartOK
<1>5. r.pc = "logget" /\ r.name = n /\ r.uuid = NoId
  OBVIOUS
<1> HIDE DEF r
<1> QED BY <1>1, <1>4, <1>5 DEF Called, OnlyThread

LEMMA ModifyForm ==
  ASSUME Typed, NEW t \in Threads, NEW c \in clients, NEW p \in Passwords, Modify(t, c, p)
  PROVE  Called(t)
<1>0. c.name \in Names /\ c.uuid \in Uuids
  BY DEF ClientsOK
<1>1. ops + 1 \in Uuids
  BY DEF Modify, Start, Begin, CountsOK, Uuids
<1> DEFINE no == FALSE
<1> HIDE DEF no
<1>2. ThreadOK([pc |-> "moddoc", name |-> c.name, pass |-> p, admin |-> no, uuid |-> c.uuid])
  BY <1>0 DEF no, ThreadOK, Handler, Pcs, RegPcs, LogPcs, LateCancelPcs
<1> DEFINE r == [pc |-> "moddoc", name |-> c.name, pass |-> p, admin |-> no, uuid |-> c.uuid]
<1>3. Start(t, "moddoc", c.name, p, no, c.uuid)
  BY DEF no, Modify
<1>4. /\ Typed' /\ th'[t] = r /\ ops' = ops + 1 /\ th[t].pc = "idle"
      /\ (\A w \in Threads \ {t} : th'[w] = th[w])
      /\ UNCHANGED <<hasMap, map, accounts, zoned, clients, reported, clash, raced, broken,
                     cancelled, unsure>>
  BY <1>2, <1>3, StartOK
<1>5. r.pc = "moddoc" /\ r.name = c.name /\ r.uuid = c.uuid
  OBVIOUS
<1> HIDE DEF r
<1> QED BY <1>1, <1>4, <1>5 DEF Called, OnlyThread

LEMMA CancelForm ==
  ASSUME Typed, NEW t \in Threads, NEW c \in clients, Cancel(t, c)
  PROVE  Called(t)
<1>0. c.uuid \in Uuids
  BY DEF ClientsOK
<1>1. ops + 1 \in Uuids
  BY DEF Cancel, Start, Begin, CountsOK, Uuids
<1> DEFINE no == FALSE
<1> HIDE DEF no
<1>2. ThreadOK([pc |-> "canget", name |-> NoName, pass |-> NoName, admin |-> no, uuid |-> c.uuid])
  BY <1>0 DEF no, ThreadOK, Handler, Pcs, RegPcs, LogPcs, LateCancelPcs
<1> DEFINE r == [pc |-> "canget", name |-> NoName, pass |-> NoName, admin |-> no, uuid |-> c.uuid]
<1>3. Start(t, "canget", NoName, NoName, no, c.uuid)
  BY DEF no, Cancel
<1>4. /\ Typed' /\ th'[t] = r /\ ops' = ops + 1 /\ th[t].pc = "idle"
      /\ (\A w \in Threads \ {t} : th'[w] = th[w])
      /\ UNCHANGED <<hasMap, map, accounts, zoned, clients, reported, clash, raced, broken,
                     cancelled, unsure>>
  BY <1>2, <1>3, StartOK
<1>5. r.pc = "canget" /\ r.name = NoName /\ r.uuid = c.uuid
  OBVIOUS
<1> HIDE DEF r
<1> QED BY <1>1, <1>4, <1>5 DEF Called, OnlyThread

LEMMA ExitTyped ==
  ASSUME Typed, NEW t \in Threads, NEW c \in clients, Exit(t, c)
  PROVE  Typed'
<1>1. ThreadsOK' /\ MapOK' /\ HistoryOK'
  BY DEF Exit, history, ThreadsOK, MapOK, HistoryOK
<1>2. CountsOK'
  BY FaultOK DEF Exit, CountsOK
<1>3. DocsOK' /\ ClientsOK'
  BY DEF Exit, DocsOK, ClientsOK
<1> QED BY <1>1, <1>2, <1>3

LEMMA RequestForm ==
  ASSUME Typed, NEW t \in Threads, Request(t)
  PROVE  Called(t) \/ \E c \in clients : Exit(t, c)
BY RegisterForm, LoginForm, ModifyForm, CancelForm DEF Request

LEMMA InitTyped == Init => Typed
<1> SUFFICES ASSUME Init PROVE Typed
  OBVIOUS
<1>1. 0 \in Uuids
  BY DEF Uuids
<1>2. PICK a \in Accounts \cup {None} : accounts = [u \in Uuids |-> IF u = 0 THEN a ELSE None]
  BY DEF Init
<1>3. accounts \in [Uuids -> Accounts \cup {None}] /\ accounts[0] = a
  BY <1>1, <1>2
<1>4. MapOK
  <2>1. \A n \in Names : accounts[0].name = n => accounts[0] # None
    BY DEF None
  <2>2. map \in [Names -> Uuids \cup {NoId}]
    BY <1>1 DEF Init
  <2> QED BY <2>1, <2>2 DEF Init, MapOK
<1>5. DocsOK
  BY <1>1, <1>3 DEF Init, DocsOK
<1>6. ThreadsOK
  BY IdleOK DEF Init, ThreadsOK
<1>7. ClientsOK /\ HistoryOK
  BY DEF Init, ClientsOK, HistoryOK
<1>8. CountsOK
  BY DEF Init, CountsOK
<1> QED BY <1>4, <1>5, <1>6, <1>7, <1>8

LEMMA StutterTyped == ASSUME Typed, UNCHANGED vars PROVE Typed'
BY DEF vars, db, history, MapOK, DocsOK, ClientsOK, CountsOK, ThreadsOK, HistoryOK

LEMMA NextTyped == ASSUME Typed, [Next]_vars PROVE Typed'
<1>1. ASSUME NEW t \in Threads, Request(t) PROVE Typed'
  BY <1>1, RequestForm, ExitTyped DEF Called
<1>2. ASSUME NEW t \in Threads, Step(t) PROVE Typed'
  BY <1>2, RegGetTyped, RegSetTyped, RegResetTyped, RegSetAgainTyped, RegAdminTyped, RegDocTyped,
     LogGetTyped, ValidAdminTyped, LogDocTyped, LogTokenTyped, ModDocTyped,
     CanGetTyped, CanZonesTyped, CanScTyped, CanKeyTyped, CanDocTyped DEF Step
<1> QED BY <1>1, <1>2, ZoneRegisteredTyped, RestartTyped, StutterTyped DEF Next

HIDE DEF Typed

(* Types are kept for any threads, names, faults and operations: the map,  *)
(* the documents and the locals of every handler have their shape.         *)
THEOREM TypeCorrect == Spec => []TypeOK
<1>1. Spec => []Typed
  BY InitTyped, NextTyped, PTL DEF Spec
<1> QED BY <1>1, TypedTypeOK, PTL

-----------------------------------------------------------------------------
(* The steps of a handler. *)

LEMMA IdleFields == Idle.pc = "idle" /\ Idle.uuid = NoId
BY DEF Idle

RegSteps == {<<"regget", "regset">>, <<"regset", "reset">>, <<"reset", "regset2">>,
             <<"regset", "regadmin">>, <<"regset", "regdoc">>, <<"regset2", "regadmin">>,
             <<"regset2", "regdoc">>, <<"regadmin", "regdoc">>}
OtherSteps == {<<"logadmin", "logdoc">>, <<"logdoc", "logtoken">>,
               <<"canzones", "cansc">>, <<"cansc", "cankey">>, <<"cankey", "candoc">>}

\* Where a step takes thread t: it returns, goes on with the same locals, or
\* takes a uuid from the map or a name from an account.
Moved(t) ==
  /\ OnlyThread(t)
  /\ \/ th'[t] = Idle
     \/ SameLocals(t) /\ <<th[t].pc, th'[t].pc>> \in RegSteps \cup OtherSteps
     \/ /\ th[t].pc = "logget" /\ th'[t].pc = "logadmin" /\ map[th[t].name] # NoId
        /\ th'[t].name = th[t].name /\ th'[t].uuid = map[th[t].name]
     \/ th[t].pc = "canget" /\ th'[t].pc = "canzones"

LEMMA ReturnMoved == ASSUME Typed, NEW t \in Threads, Return(t) PROVE Moved(t)
BY ReturnOK DEF Typed, Moved, OnlyThread

LEMMA GoMoved ==
  ASSUME Typed, NEW t \in Threads, NEW q, Go(t, q), <<th[t].pc, q>> \in RegSteps \cup OtherSteps
  PROVE  Moved(t) /\ SameLocals(t) /\ th'[t].pc = q
<1>1. Follows(th[t].pc, q)
  BY DEF RegSteps, OtherSteps, Follows, RegPcs, LogPcs, LateCancelPcs
<1> QED BY <1>1, GoOK DEF Typed, Moved, OnlyThread, SameLocals

LEMMA AfterMapMoved ==
  ASSUME Typed, NEW t \in Threads, AfterMap(t), th[t].pc \in {"regset", "regset2"}
  PROVE  Moved(t) /\ SameLocals(t) /\ th'[t].pc \in WrittenPcs
<1>1. th[t].pc \in RegPcs
  BY DEF RegPcs
<1>2. SameLocals(t) /\ th'[t].pc \in WrittenPcs /\ OnlyThread(t)
  BY <1>1, AfterMapOK DEF SameLocals, OnlyThread
<1>3. <<th[t].pc, th'[t].pc>> \in RegSteps
  BY <1>2 DEF WrittenPcs, RegSteps
<1> QED BY <1>2, <1>3 DEF Moved

LEMMA StepMoved == ASSUME Typed, NEW t \in Threads, Step(t) PROVE Moved(t)
<1> USE DEF At
<1>1. CASE RegGet(t) \/ RegSet(t) \/ RegReset(t) \/ RegSetAgain(t) \/ RegAdmin(t) \/ RegDoc(t)
  BY <1>1, ReturnMoved, GoMoved, AfterMapMoved
     DEF RegGet, RegSet, RegReset, RegSetAgain, RegAdmin, RegDoc, RegSteps
<1>2. CASE LogDoc(t) \/ LogToken(t) \/ ModDoc(t) \/ CanZones(t) \/ CanSc(t) \/ CanKey(t) \/ CanDoc(t)
  BY <1>2, ReturnMoved, GoMoved
     DEF LogDoc, LogToken, ModDoc, CanZones, CanSc, CanKey, CanDoc, OtherSteps
<1>3. CASE LogGet(t)
  <2>1. ASSUME th' = [th EXCEPT ![t].pc = "logadmin", ![t].uuid = map[th[t].name]]
        PROVE  /\ th'[t].pc = "logadmin" /\ th'[t].name = th[t].name
               /\ th'[t].uuid = map[th[t].name] /\ OnlyThread(t)
    BY <2>1 DEF Typed, ThreadsOK, ThreadOK, Handler, OnlyThread
  <2> QED BY <1>3, <2>1, ReturnMoved DEF LogGet, Moved
<1>4. CASE validadminidentity(t)
  <2> DEFINE b == th[t].uuid \in adminlist
  <2>0. \/ th' = [th EXCEPT ![t].pc = "logdoc", ![t].admin = b]
        \/ th' = [th EXCEPT ![t].pc = "logdoc"]
    BY <1>4 DEF validadminidentity
  <2> HIDE DEF b
  <2>1. th'[t].pc = "logdoc" /\ SameLocals(t) /\ OnlyThread(t)
    BY <2>0 DEF Typed, ThreadsOK, ThreadOK, Handler, OnlyThread, SameLocals
  <2> QED BY <1>4, <2>1 DEF validadminidentity, Moved, OtherSteps
<1>5. CASE CanGet(t)
  <2>1. ASSUME th' = [th EXCEPT ![t].pc = "canzones", ![t].name = accounts[th[t].uuid].name]
        PROVE  th'[t].pc = "canzones" /\ OnlyThread(t)
    BY <2>1 DEF Typed, ThreadsOK, ThreadOK, Handler, OnlyThread
  <2> QED BY <1>5, <2>1, ReturnMoved DEF CanGet, Moved
<1> QED BY <1>1, <1>2, <1>3, <1>4, <1>5 DEF Step

-----------------------------------------------------------------------------
(* Owners stay: a cancellation and the registration of a zone. *)

OwnersIInv == OwnersStay /\ LateCancelSeen

\* A step that leaves zones and cancellations alone and brings no handler past the query.
LEMMA NoLateCancel ==
  ASSUME OwnersIInv, UNCHANGED <<zoned, cancelled, unsure>>, NEW t \in Threads, OnlyThread(t),
         th'[t].pc \in LateCancelPcs => th[t].pc \in LateCancelPcs /\ th'[t].uuid = th[t].uuid
  PROVE  OwnersIInv'
BY DEF OwnersIInv, OwnersStay, LateCancelSeen, OnlyThread

LEMMA OwnersStep ==
  ASSUME Typed, OwnersIInv, NEW t \in Threads, Step(t)
  PROVE  OwnersIInv'
<1> USE DEF At
<1>0. Moved(t) /\ OnlyThread(t)
  BY StepMoved DEF Moved
<1>1. CASE UNCHANGED <<zoned, cancelled, unsure>> /\ th[t].pc # "canzones"
  <2>1. th'[t].pc \in LateCancelPcs => th[t].pc \in LateCancelPcs /\ th'[t].uuid = th[t].uuid
    BY <1>0, <1>1, IdleFields DEF Moved, RegSteps, OtherSteps, LateCancelPcs, SameLocals
  <2> QED BY <1>0, <1>1, <2>1, NoLateCancel
<1>2. CASE CanZones(t)
  <2>1. CASE Return(t) /\ UNCHANGED unsure
    BY <1>0, <1>2, <2>1, ReturnOK, IdleFields, NoLateCancel DEF CanZones, Typed, LateCancelPcs
  <2>2. CASE Go(t, "cansc") /\ unsure' = unsure /\ Free(t)
    <3>1. th'[t].uuid = th[t].uuid
      BY <1>2, <2>2, GoMoved DEF CanZones, OtherSteps, SameLocals
    <3> QED BY <1>0, <1>2, <2>2, <3>1 DEF CanZones, Free, OnlyThread, OwnersIInv, OwnersStay, LateCancelSeen
  <2>3. CASE Go(t, "cansc") /\ unsure' = unsure \cup {th[t].uuid}
    <3>1. th'[t].uuid = th[t].uuid
      BY <1>2, <2>3, GoMoved DEF CanZones, OtherSteps, SameLocals
    <3> QED BY <1>0, <1>2, <2>3, <3>1 DEF CanZones, OnlyThread, OwnersIInv, OwnersStay, LateCancelSeen
  <2> QED BY <1>2, <2>1, <2>2, <2>3 DEF CanZones
<1>3. CASE CanDoc(t)
  <2>1. th'[t] = Idle
    BY <1>3, ReturnOK DEF CanDoc, Typed
  <2>2. LateCancelSeen'
    BY <1>0, <1>3, <2>1, IdleFields DEF CanDoc, OnlyThread, OwnersIInv, LateCancelSeen, LateCancelPcs
  <2>3. OwnersStay'
    BY <1>3 DEF CanDoc, OwnersIInv, OwnersStay, LateCancelSeen, LateCancelPcs
  <2> QED BY <2>2, <2>3 DEF OwnersIInv
<1>4. CanZones(t) \/ CanDoc(t) \/ (UNCHANGED <<zoned, cancelled, unsure>> /\ th[t].pc # "canzones")
  BY DEF Step, RegGet, RegSet, RegReset, RegSetAgain, RegAdmin, RegDoc, LogGet, validadminidentity,
         LogDoc, LogToken, ModDoc, CanGet, CanSc, CanKey, history
<1> QED BY <1>1, <1>2, <1>3, <1>4

LEMMA OwnersNext == ASSUME Typed, OwnersIInv, [Next]_vars PROVE OwnersIInv'
<1>1. ASSUME NEW t \in Threads, Request(t) PROVE OwnersIInv'
  <2>1. CASE Called(t)
    BY <2>1, NoLateCancel DEF Called, LateCancelPcs
  <2>2. CASE \E c \in clients : Exit(t, c)
    BY <2>2 DEF Exit, history, OwnersIInv, OwnersStay, LateCancelSeen
  <2> QED BY <1>1, <2>1, <2>2, RequestForm
<1>2. ASSUME NEW c \in clients, ZoneRegistered(c) PROVE OwnersIInv'
  <2>1. LateCancelSeen'
    BY <1>2 DEF ZoneRegistered, OwnersIInv, LateCancelSeen, LateCancelPcs
  <2>2. OwnersStay'
    BY <1>2 DEF ZoneRegistered, OwnersIInv, OwnersStay
  <2> QED BY <2>1, <2>2 DEF OwnersIInv
<1>3. CASE Restart
  BY <1>3, IdleFields DEF Restart, OwnersIInv, OwnersStay, LateCancelSeen, LateCancelPcs
<1>4. CASE UNCHANGED vars
  BY <1>4 DEF vars, history, OwnersIInv, OwnersStay, LateCancelSeen
<1> QED BY <1>1, <1>2, <1>3, <1>4, OwnersStep DEF Next

(* An account that owns zones is not cancelled, unless the query failed or *)
(* the zone came after it: cancellationUserAccount lets go of no owner.    *)
THEOREM OwnersAlwaysStay == Spec => []OwnersStay
<1>1. Init => Typed /\ OwnersIInv
  <2>1. Init => OwnersIInv
    BY IdleFields DEF Init, OwnersIInv, OwnersStay, LateCancelSeen, LateCancelPcs
  <2> QED BY <2>1, InitTyped
<1>2. Typed /\ OwnersIInv /\ [Next]_vars => (Typed /\ OwnersIInv)'
  BY NextTyped, OwnersNext
<1>3. OwnersIInv => OwnersStay
  BY DEF OwnersIInv
<1> QED BY <1>1, <1>2, <1>3, PTL DEF Spec

-----------------------------------------------------------------------------
(* No dangling name: what a registration has written of itself. *)

\* A step that leaves map and accounts alone and stops no registration unnoticed.
LEMMA NothingDropped ==
  ASSUME NoDanglingName, UNCHANGED <<map, accounts>>, NEW t \in Threads, OnlyThread(t),
         broken \subseteq broken', cancelled \subseteq cancelled',
         th[t].pc \in WrittenPcs =>
           (th'[t].pc \in WrittenPcs /\ th'[t].uuid = th[t].uuid) \/ th[t].uuid \in broken'
  PROVE  NoDanglingName'
BY DEF NoDanglingName, OnlyThread, WrittenPcs

\* The map's new entry is that of a registration that goes on or is known to be broken.
LEMMA EntryNotDangling ==
  ASSUME Typed, NoDanglingName, NEW t \in Threads, OnlyThread(t), th[t].pc \in UnwrittenPcs,
         Written(t), UNCHANGED <<accounts, cancelled>>, broken \subseteq broken',
         \/ th'[t].pc \in WrittenPcs /\ th'[t].uuid = th[t].uuid
         \/ th[t].uuid \in broken'
  PROVE  NoDanglingName'
<1>1. th[t].name \in Names /\ map \in [Names -> Uuids \cup {NoId}]
  BY LocalsOK DEF Typed, MapOK, UnwrittenPcs, RegPcs
<1>2. \A n \in Names : map'[n] = IF n = th[t].name THEN th[t].uuid ELSE map[n]
  BY <1>1 DEF Written
<1>3. th[t].pc \notin WrittenPcs
  BY DEF UnwrittenPcs, WrittenPcs
<1> QED BY <1>2, <1>3 DEF NoDanglingName, OnlyThread, WrittenPcs

\* Accounts are written, and the thread that wrote one returns.
LEMMA DocNotDangling ==
  ASSUME Typed, NoDanglingName, NEW t \in Threads, OnlyThread(t), th[t].uuid \in Uuids,
         UNCHANGED <<map, broken>>, NEW a,
         accounts' = [accounts EXCEPT ![th[t].uuid] = a],
         \/ cancelled' = cancelled /\ a # None
         \/ cancelled' = cancelled \cup {th[t].uuid} /\ th[t].pc \notin WrittenPcs
  PROVE  NoDanglingName'
<1>1. map \in [Names -> Uuids \cup {NoId}] /\ accounts \in [Uuids -> Accounts \cup {None}]
  BY DEF Typed, MapOK, DocsOK
<1>2. \A u \in Uuids : accounts'[u] = IF u = th[t].uuid THEN a ELSE accounts[u]
  BY <1>1
<1>3. \A n \in Names : map[n] # NoId => map[n] \in Uuids
  BY <1>1
<1> QED BY <1>2, <1>3 DEF NoDanglingName, OnlyThread, WrittenPcs

LEMMA DanglingStep ==
  ASSUME Typed, NoDanglingName, NEW t \in Threads, Step(t)
  PROVE  NoDanglingName'
<1> USE DEF At
<1>0. Moved(t) /\ OnlyThread(t)
  BY StepMoved DEF Moved
<1>1. CASE UNCHANGED <<map, accounts, broken>> /\ cancelled \subseteq cancelled' /\ th[t].pc \notin WrittenPcs
  BY <1>0, <1>1, NothingDropped
<1>2. CASE RegAdmin(t)
  <2>1. \/ th'[t].pc = "regdoc" /\ th'[t].uuid = th[t].uuid /\ broken' = broken
        \/ broken' = broken \cup {th[t].uuid}
    BY <1>2, GoMoved DEF RegAdmin, Half, RegSteps, SameLocals
  <2> QED BY <1>0, <1>2, <2>1, NothingDropped DEF RegAdmin, WrittenPcs
<1>3. CASE RegSet(t)
  <2>1. CASE Written(t) /\ ((AfterMap(t) /\ UNCHANGED broken) \/ Half(t))
    <3>1. th[t].pc \in UnwrittenPcs /\ UNCHANGED <<accounts, cancelled>>
      BY <1>3 DEF RegSet, UnwrittenPcs
    <3>2. \/ th'[t].pc \in WrittenPcs /\ th'[t].uuid = th[t].uuid /\ broken' = broken
          \/ broken' = broken \cup {th[t].uuid}
      BY <1>3, <2>1, AfterMapMoved DEF RegSet, SameLocals, Half
    <3> QED BY <1>0, <2>1, <3>1, <3>2, EntryNotDangling
  <2>2. CASE UNCHANGED map /\ (UNCHANGED broken \/ Half(t))
    BY <1>0, <1>3, <2>2, NothingDropped DEF RegSet, Half, WrittenPcs
  <2> QED BY <1>3, <2>1, <2>2 DEF RegSet
<1>4. CASE RegSetAgain(t)
  <2>1. CASE Written(t) /\ AfterMap(t) /\ UNCHANGED broken
    <3>1. th[t].pc \in UnwrittenPcs /\ UNCHANGED <<accounts, cancelled>>
      BY <1>4 DEF RegSetAgain, UnwrittenPcs
    <3>2. th'[t].pc \in WrittenPcs /\ th'[t].uuid = th[t].uuid
      BY <1>4, <2>1, AfterMapMoved DEF RegSetAgain, SameLocals
    <3> QED BY <1>0, <2>1, <3>1, <3>2, EntryNotDangling
  <2>2. CASE UNCHANGED map /\ (UNCHANGED broken \/ Half(t))
    BY <1>0, <1>4, <2>2, NothingDropped DEF RegSetAgain, Half, WrittenPcs
  <2> QED BY <1>4, <2>1, <2>2 DEF RegSetAgain
<1>5. CASE RegReset(t)
  <2>1. CASE map' = [n \in Names |-> NoId]
    BY <2>1 DEF NoDanglingName
  <2>2. CASE UNCHANGED map
    BY <1>0, <1>5, <2>2, NothingDropped DEF RegReset, history, WrittenPcs
  <2> QED BY <1>5, <2>1, <2>2 DEF RegReset
<1>6. CASE RegDoc(t)
  <2>1. th[t].uuid \in Uuids /\ [name |-> th[t].name, pass |-> th[t].pass] # None
    BY <1>6, LocalsOK DEF RegDoc, RegPcs, Typed, None
  <2>2. CASE Half(t) /\ UNCHANGED accounts
    BY <1>0, <1>6, <2>2, NothingDropped DEF RegDoc, Half
  <2>3. CASE UNCHANGED broken /\ accounts' = [accounts EXCEPT ![DocKey(t)] = [name |-> th[t].name, pass |-> th[t].pass]]
    BY <1>0, <1>6, <2>1, <2>3, DocNotDangling DEF RegDoc, DocKey
  <2> QED BY <1>6, <2>2, <2>3 DEF RegDoc
<1>7. CASE ModDoc(t)
  <2>1. th[t].uuid \in Uuids /\ Person(t) # None
    BY <1>7, LocalsOK DEF ModDoc, Typed, None, Person
  <2>2. CASE UNCHANGED accounts
    BY <1>0, <1>7, <2>2, NothingDropped DEF ModDoc, history, WrittenPcs
  <2>3. CASE accounts' = [accounts EXCEPT ![th[t].uuid] = Person(t)]
    BY <1>0, <1>7, <2>1, <2>3, DocNotDangling DEF ModDoc, history
  <2> QED BY <1>7, <2>2, <2>3 DEF ModDoc
<1>8. CASE CanDoc(t)
  <2>1. th[t].uuid \in Uuids /\ th[t].pc \notin WrittenPcs
    BY <1>8, LocalsOK DEF CanDoc, LateCancelPcs, Typed, WrittenPcs
  <2>2. CASE UNCHANGED <<accounts, cancelled>>
    BY <1>0, <1>8, <2>1, <2>2, NothingDropped DEF CanDoc
  <2>3. CASE accounts' = [accounts EXCEPT ![th[t].uuid] = None] /\ cancelled' = cancelled \cup {th[t].uuid}
    BY <1>0, <1>8, <2>1, <2>3, DocNotDangling DEF CanDoc
  <2> QED BY <1>8, <2>2, <2>3 DEF CanDoc
<1>9. \/ RegSet(t) \/ RegReset(t) \/ RegSetAgain(t) \/ RegAdmin(t) \/ RegDoc(t) \/ ModDoc(t) \/ CanDoc(t)
      \/ UNCHANGED <<map, accounts, broken, cancelled>> /\ th[t].pc \notin WrittenPcs
  BY DEF Step, RegGet, LogGet, validadminidentity, LogDoc, LogToken, CanGet, CanZones, CanSc, CanKey,
         db, history, WrittenPcs
<1> QED BY <1>1, <1>2, <1>3, <1>4, <1>5, <1>6, <1>7, <1>8, <1>9

LEMMA DanglingNext == ASSUME Typed, NoDanglingName, [Next]_vars PROVE NoDanglingName'
<1>1. ASSUME NEW t \in Threads, Request(t) PROVE NoDanglingName'
  <2>1. CASE Called(t)
    BY <2>1, NothingDropped DEF Called, WrittenPcs
  <2>2. CASE \E c \in clients : Exit(t, c)
    BY <2>2 DEF Exit, history, NoDanglingName
  <2> QED BY <1>1, <2>1, <2>2, RequestForm
<1>2. ASSUME NEW c \in clients, ZoneRegistered(c) PROVE NoDanglingName'
  BY <1>2 DEF ZoneRegistered, db, NoDanglingName
<1>3. CASE Restart
  <2>1. \A t \in Threads : th[t].pc \in WrittenPcs => th[t].uuid \in broken'
    BY <1>3 DEF Restart, WrittenPcs
  <2>2. UNCHANGED <<map, accounts, cancelled>> /\ broken \subseteq broken'
    BY <1>3 DEF Restart, db
  <2> QED BY <2>1, <2>2 DEF NoDanglingName, WrittenPcs
<1>4. CASE UNCHANGED vars
  BY <1>4 DEF vars, db, history, NoDanglingName
<1> QED BY <1>1, <1>2, <1>3, <1>4, DanglingStep DEF Next

(* A name in the map leads to an account, unless its registration has yet  *)
(* to write it or stopped half way, or the account was cancelled: no order *)
(* of the writes of UserRegister and cancellationUserAccount leaves        *)
(* another dangling name.                                                  *)
THEOREM NamesLeadSomewhere == Spec => []NoDanglingName
<1>1. Init => NoDanglingName
  <2> SUFFICES ASSUME Init, NEW n \in Names, map[n] # NoId PROVE accounts[map[n]] # None
    BY DEF NoDanglingName
  <2>1. map[n] = 0 /\ accounts[0].name = n
    BY DEF Init
  <2> QED BY <2>1 DEF None
<1> QED BY <1>1, InitTyped, NextTyped, DanglingNext, PTL DEF Spec

-----------------------------------------------------------------------------
(* One name for a uuid: a step copies a uuid and its name from where they  *)
(* already are; a registration brings a uuid that nobody has.              *)

ClaimPcs == RegPcs \cup LogPcs \cup {"moddoc"}
NamesIInv == OneName /\ NotFuture

\* No claim but those of before, and perhaps one of a uuid that nobody had.
LEMMA ClaimsKept ==
  ASSUME NamesIInv, ops \in Nat,
         \/ ops' = ops /\ \A u \in Uuids, n \in Names : Claim(u, n)' => Claim(u, n)
         \/ /\ ops' = ops + 1
            /\ \E k \in Names : \A u \in Uuids, n \in Names :
                 Claim(u, n)' => Claim(u, n) \/ (u = ops + 1 /\ n = k)
  PROVE  NamesIInv'
<1>1. \A u \in Uuids : u \in Int
  BY DEF Uuids
<1>2. CASE ops' = ops /\ \A u \in Uuids, n \in Names : Claim(u, n)' => Claim(u, n)
  BY <1>2 DEF NamesIInv, OneName, NotFuture
<1>3. ASSUME ops' = ops + 1, NEW k \in Names,
             \A u \in Uuids, n \in Names : Claim(u, n)' => Claim(u, n) \/ (u = ops + 1 /\ n = k)
      PROVE  NamesIInv'
  <2>1. \A u \in Uuids, n \in Names : Claim(u, n) => u # ops + 1
    BY <1>1 DEF NamesIInv, NotFuture
  <2>2. OneName'
    BY <1>3, <2>1 DEF NamesIInv, OneName
  <2>3. NotFuture'
    BY <1>1, <1>3 DEF NamesIInv, NotFuture
  <2> QED BY <2>2, <2>3 DEF NamesIInv
<1> QED BY <1>2, <1>3

\* The claims of the threads after a step of thread t.
LEMMA ThreadClaims ==
  ASSUME NEW t \in Threads, OnlyThread(t), NEW u, NEW n, ThreadClaim(u, n)'
  PROVE  ThreadClaim(u, n) \/ (th'[t].pc \in ClaimPcs /\ th'[t].uuid = u /\ th'[t].name = n)
BY DEF ThreadClaim, OnlyThread, ClaimPcs

\* A thread that moves on claims what it or the map has claimed before.
LEMMA MovedClaims ==
  ASSUME Typed, NEW t \in Threads, Moved(t), NEW u \in Uuids, NEW n \in Names, ThreadClaim(u, n)'
  PROVE  ThreadClaim(u, n) \/ MapClaim(u, n)
<1>1. SUFFICES ASSUME th'[t].pc \in ClaimPcs, th'[t].uuid = u, th'[t].name = n
               PROVE  ThreadClaim(u, n) \/ MapClaim(u, n)
  BY ThreadClaims DEF Moved
<1>2. CASE SameLocals(t) /\ <<th[t].pc, th'[t].pc>> \in RegSteps \cup OtherSteps
  <2>1. th[t].pc \in ClaimPcs
    BY <1>1, <1>2 DEF RegSteps, OtherSteps, ClaimPcs, RegPcs, LogPcs
  <2> QED BY <1>1, <1>2, <2>1 DEF SameLocals, ThreadClaim, ClaimPcs
<1>3. CASE th'[t].name = th[t].name /\ th'[t].uuid = map[th[t].name]
  BY <1>1, <1>3 DEF MapClaim
<1>4. CASE th'[t].pc \in {"idle", "canzones"}
  BY <1>1, <1>4 DEF ClaimPcs, RegPcs, LogPcs
<1> QED BY <1>2, <1>3, <1>4, IdleFields DEF Moved

LEMMA OwnClaim ==
  ASSUME NEW t \in Threads, th[t].pc \in ClaimPcs
  PROVE  ThreadClaim(th[t].uuid, th[t].name)
BY DEF ThreadClaim, ClaimPcs

LEMMA ClaimStep ==
  ASSUME Typed, NEW t \in Threads, Step(t), NEW u \in Uuids, NEW n \in Names, Claim(u, n)'
  PROVE  Claim(u, n)
<1> USE DEF At
<1>0. Moved(t)
  BY StepMoved
<1>1. ThreadClaim(u, n)' => Claim(u, n)
  BY <1>0, MovedClaims DEF Claim
<1>2. MapClaim(u, n)' => Claim(u, n)
  <2>1. CASE UNCHANGED map
    BY <2>1 DEF MapClaim, Claim
  <2>2. CASE map' = [m \in Names |-> NoId]
    BY <2>2 DEF MapClaim, Uuids, NoId
  <2>3. CASE Written(t) /\ th[t].pc \in UnwrittenPcs
    <3>1. map'[n] = IF n = th[t].name THEN th[t].uuid ELSE map[n]
      BY <2>3 DEF Written, Typed, MapOK
    <3> QED BY <2>3, <3>1, OwnClaim DEF MapClaim, Claim, ClaimPcs, RegPcs, UnwrittenPcs
  <2> QED BY <2>1, <2>2, <2>3
       DEF Step, RegGet, RegSet, RegReset, RegSetAgain, RegAdmin, RegDoc, LogGet, validadminidentity,
           LogDoc, LogToken, ModDoc, CanGet, CanZones, CanSc, CanKey, CanDoc, db, UnwrittenPcs
<1>3. DocClaim(u, n)' => Claim(u, n)
  <2>1. CASE UNCHANGED accounts
    BY <2>1 DEF DocClaim, Claim
  <2>2. ASSUME NEW p, accounts' = [accounts EXCEPT ![th[t].uuid] = [name |-> th[t].name, pass |-> p]],
               th[t].pc \in ClaimPcs
        PROVE  DocClaim(u, n)' => Claim(u, n)
    <3>1. u # th[t].uuid => accounts'[u] = accounts[u]
      BY <2>2 DEF Typed, DocsOK
    <3>2. u = th[t].uuid => accounts'[u].name = th[t].name
      BY <2>2 DEF Typed, DocsOK
    <3> QED BY <2>2, <3>1, <3>2, OwnClaim DEF DocClaim, Claim
  <2>3. CASE accounts' = [accounts EXCEPT ![th[t].uuid] = None]
    BY <2>3 DEF DocClaim, Claim, Typed, DocsOK
  <2> QED BY <2>1, <2>2, <2>3
       DEF Step, RegGet, RegSet, RegReset, RegSetAgain, RegAdmin, RegDoc, LogGet, validadminidentity,
           LogDoc, LogToken, ModDoc, CanGet, CanZones, CanSc, CanKey, CanDoc, db, DocKey, Person,
           ClaimPcs, RegPcs
<1>4. ClientClaim(u, n)' => Claim(u, n)
  <2>1. CASE UNCHANGED clients
    BY <2>1 DEF ClientClaim, Claim
  <2>2. CASE /\ clients' = clients \cup {[name |-> th[t].name, pass |-> th[t].pass, uuid |-> th[t].uuid]}
             /\ th[t].pc \in ClaimPcs
    BY <2>2, OwnClaim DEF ClientClaim, Claim
  <2> QED BY <2>1, <2>2
       DEF Step, RegGet, RegSet, RegReset, RegSetAgain, RegAdmin, RegDoc, LogGet, validadminidentity,
           LogDoc, LogToken, ModDoc, CanGet, CanZones, CanSc, CanKey, CanDoc, ClaimPcs, LogPcs
<1>5. ReportClaim(u, n)' => Claim(u, n)
  <2>1. CASE UNCHANGED reported
    BY <2>1 DEF ReportClaim, Claim
  <2>2. CASE reported' = reported \cup {[name |-> th[t].name, uuid |-> th[t].uuid]} /\ th[t].pc \in ClaimPcs
    BY <2>2, OwnClaim DEF ReportClaim, Claim
  <2> QED BY <2>1, <2>2
       DEF Step, RegGet, RegSet, RegReset, RegSetAgain, RegAdmin, RegDoc, LogGet, validadminidentity,
           LogDoc, LogToken, ModDoc, CanGet, CanZones, CanSc, CanKey, CanDoc, history, ClaimPcs, RegPcs
<1> QED BY <1>1, <1>2, <1>3, <1>4, <1>5 DEF Claim

LEMMA CalledClaims ==
  ASSUME Typed, NamesIInv, NEW t \in Threads, Called(t)
  PROVE  NamesIInv'
<1>0. ops \in Nat /\ ops' = ops + 1 /\ UNCHANGED <<map, accounts, clients, reported>> /\ OnlyThread(t)
  BY DEF Typed, CountsOK, Called
<1>1. ASSUME NEW u \in Uuids, NEW n \in Names, Claim(u, n)'
      PROVE  Claim(u, n) \/ (u = ops + 1 /\ n = th'[t].name /\ th'[t].pc = "regget")
  <2>1. CASE ThreadClaim(u, n)'
    <3>1. CASE th'[t].pc = "moddoc"
      <4>1. ClientClaim(th'[t].uuid, th'[t].name)
        BY <3>1 DEF Called, ClientClaim
      <4> QED BY <1>0, <2>1, <4>1, ThreadClaims DEF Claim
    <3>2. CASE th'[t].pc # "moddoc"
      BY <1>0, <2>1, <3>2, ThreadClaims DEF Called, Claim, ClaimPcs, RegPcs, LogPcs
    <3> QED BY <3>1, <3>2
  <2> QED BY <1>0, <1>1, <2>1 DEF Claim, MapClaim, DocClaim, ClientClaim, ReportClaim
<1>2. CASE th'[t].pc = "regget"
  <2>1. th'[t].name \in Names
    BY <1>2 DEF Called, Typed, ThreadsOK, ThreadOK, RegPcs
  <2> QED BY <1>0, <1>1, <2>1, ClaimsKept
<1>3. CASE th'[t].pc # "regget"
  <2>1. \A u \in Uuids, n \in Names : Claim(u, n)' => Claim(u, n)
    BY <1>1, <1>3
  <2>2. OneName'
    BY <2>1 DEF NamesIInv, OneName
  <2>3. \A u \in Uuids : u \in Int
    BY DEF Uuids
  <2>4. NotFuture'
    BY <1>0, <2>1, <2>3 DEF NamesIInv, NotFuture
  <2> QED BY <2>2, <2>4 DEF NamesIInv
<1> QED BY <1>2, <1>3

\* A step that takes no operation number and makes no claim keeps the invariant.
LEMMA FewerClaims ==
  ASSUME NamesIInv, ops \in Nat, ops' \in {ops, ops + 1}, 
         \A u \in Uuids, n \in Names : Claim(u, n)' => Claim(u, n)
  PROVE  NamesIInv'
<1>1. \A u \in Uuids : u \in Int
  BY DEF Uuids
<1>2. OneName'
  BY DEF NamesIInv, OneName
<1>3. NotFuture'
  BY <1>1 DEF NamesIInv, NotFuture
<1> QED BY <1>2, <1>3 DEF NamesIInv

LEMMA NamesNext == ASSUME Typed, NamesIInv, [Next]_vars PROVE NamesIInv'
<1>0. ops \in Nat
  BY DEF Typed, CountsOK
<1>1. ASSUME NEW t \in Threads, Request(t) PROVE NamesIInv'
  <2>1. ASSUME NEW c \in clients, Exit(t, c) PROVE NamesIInv'
    <3>1. \A u \in Uuids, n \in Names : Claim(u, n)' => Claim(u, n)
      BY <2>1 DEF Exit, history, Claim, MapClaim, DocClaim, ThreadClaim, ClientClaim, ReportClaim
    <3> QED BY <1>0, <2>1, <3>1, FewerClaims DEF Exit
  <2> QED BY <1>1, <2>1, RequestForm, CalledClaims
<1>2. ASSUME NEW t \in Threads, Step(t) PROVE NamesIInv'
  <2>1. \A u \in Uuids, n \in Names : Claim(u, n)' => Claim(u, n)
    BY <1>2, ClaimStep
  <2>2. ops' = ops
    BY <1>2 DEF Step, RegGet, RegSet, RegReset, RegSetAgain, RegAdmin, RegDoc, LogGet,
         validadminidentity, LogDoc, LogToken, ModDoc, CanGet, CanZones, CanSc, CanKey, CanDoc
  <2> QED BY <1>0, <2>1, <2>2, FewerClaims
<1>3. ASSUME NEW c \in clients, ZoneRegistered(c) PROVE NamesIInv'
  <2>1. \A u \in Uuids, n \in Names : Claim(u, n)' => Claim(u, n)
    BY <1>3 DEF ZoneRegistered, db, Claim, MapClaim, DocClaim, ThreadClaim, ClientClaim, ReportClaim
  <2> QED BY <1>0, <1>3, <2>1, FewerClaims DEF ZoneRegistered
<1>4. CASE Restart
  <2>1. \A t \in Threads : th'[t] = Idle
    BY <1>4 DEF Restart
  <2>2. \A u, n : ~ThreadClaim(u, n)'
    BY <2>1, IdleFields DEF ThreadClaim, RegPcs, LogPcs
  <2>3. \A u \in Uuids, n \in Names : Claim(u, n)' => Claim(u, n)
    BY <1>4, <2>2 DEF Restart, db, Claim, MapClaim, DocClaim, ClientClaim, ReportClaim
  <2> QED BY <1>0, <1>4, <2>3, FewerClaims DEF Restart
<1>5. CASE UNCHANGED vars
  <2>1. \A u \in Uuids, n \in Names : Claim(u, n)' => Claim(u, n)
    BY <1>5 DEF vars, db, history, Claim, MapClaim, DocClaim, ThreadClaim, ClientClaim, ReportClaim
  <2> QED BY <1>0, <1>5, <2>1, FewerClaims DEF vars
<1> QED BY <1>1, <1>2, <1>3, <1>4, <1>5 DEF Next

LEMMA InitNames == Init => NamesIInv
<1> SUFFICES ASSUME Init PROVE NamesIInv
  OBVIOUS
<1>1. Typed
  BY InitTyped
<1>2. ASSUME NEW u \in Uuids, NEW n \in Names, Claim(u, n)
      PROVE  u = 0 /\ accounts[0].name = n
  <2>1. CASE MapClaim(u, n)
    BY <2>1 DEF Init, MapClaim, Uuids, NoId
  <2>2. CASE DocClaim(u, n)
    BY <2>2 DEF Init, DocClaim
  <2>3. ~ThreadClaim(u, n) /\ ~ClientClaim(u, n) /\ ~ReportClaim(u, n)
    BY IdleFields DEF Init, ThreadClaim, ClientClaim, ReportClaim, RegPcs, LogPcs
  <2> QED BY <1>2, <2>1, <2>2, <2>3 DEF Claim
<1>3. OneName
  BY <1>2 DEF OneName
<1>4. NotFuture
  BY <1>2 DEF NotFuture, Init
<1> QED BY <1>3, <1>4 DEF NamesIInv

-----------------------------------------------------------------------------
(* Accounts that were found or reported are there until they are cancelled. *)

\* No account goes without being cancelled.
AccountsKept == \A u \in Uuids : Kept(u) => Kept(u)'

LEMMA StepKeepsAccounts == ASSUME Typed, NEW t \in Threads, Step(t) PROVE AccountsKept
<1> USE DEF At
<1>0. accounts \in [Uuids -> Accounts \cup {None}]
  BY DEF Typed, DocsOK
<1>1. CASE UNCHANGED accounts /\ cancelled \subseteq cancelled'
  BY <1>1 DEF AccountsKept, Kept
<1>2. CASE RegDoc(t)
  <2>1. th[t].name \in Names
    BY <1>2, LocalsOK DEF RegDoc, Typed, RegPcs
  <2>2. [name |-> th[t].name, pass |-> th[t].pass] # None
    BY <2>1 DEF None
  <2> QED BY <1>0, <1>2, <2>2 DEF RegDoc, DocKey, AccountsKept, Kept
<1>3. CASE ModDoc(t)
  <2>1. th[t].name \in Names
    BY <1>3, LocalsOK DEF ModDoc, Typed
  <2>2. Person(t) # None
    BY <2>1 DEF Person, None
  <2> QED BY <1>0, <1>3, <2>2 DEF ModDoc, history, AccountsKept, Kept
<1>4. CASE CanDoc(t)
  BY <1>0, <1>4 DEF CanDoc, AccountsKept, Kept
<1> QED BY <1>1, <1>2, <1>3, <1>4
     DEF Step, RegGet, RegSet, RegReset, RegSetAgain, RegAdmin, LogGet, validadminidentity,
         LogDoc, LogToken, CanGet, CanZones, CanSc, CanKey, db, history

LEMMA FoundStep ==
  ASSUME Typed, FoundKept, NEW t \in Threads, Step(t)
  PROVE  FoundKept'
<1> USE DEF At
<1>0. Moved(t) /\ AccountsKept /\ Typed'
  BY StepMoved, StepKeepsAccounts, NextTyped DEF Next
<1>1. /\ \A w \in Threads : th[w].pc = "logtoken" => th[w].uuid \in Uuids
      /\ \A c \in clients : c.uuid \in Uuids
      /\ \A r \in reported : r.uuid \in Uuids
  BY LocalsOK DEF Typed, LogPcs, ClientsOK, HistoryOK, Reports
<1>2. (\A w \in Threads : th[w].pc = "logtoken" => Kept(th[w].uuid))'
  <2>1. ASSUME th'[t].pc = "logtoken" PROVE Kept(th[t].uuid) /\ th'[t].uuid = th[t].uuid /\ th[t].uuid \in Uuids
    <3>1. th[t].pc = "logdoc" /\ th'[t].uuid = th[t].uuid
      BY <1>0, <2>1, IdleFields DEF Moved, RegSteps, OtherSteps, SameLocals
    <3>2. Same(t)
      <4>1. LogDoc(t)
        BY <3>1 DEF Step, RegGet, RegSet, RegReset, RegSetAgain, RegAdmin, RegDoc, LogGet,
             validadminidentity, LogToken, ModDoc, CanGet, CanZones, CanSc, CanKey, CanDoc
      <4>2. ~Return(t)
        BY <2>1, ReturnOK, IdleFields DEF Typed
      <4> QED BY <4>1, <4>2 DEF LogDoc
    <3> QED BY <3>1, <3>2, LocalsOK DEF Same, Kept, Typed, LogPcs
  <2> QED BY <1>0, <1>1, <2>1 DEF Moved, OnlyThread, AccountsKept, FoundKept
<1>3. (\A c \in clients : Kept(c.uuid))'
  <2>1. CASE UNCHANGED clients
    BY <1>0, <1>1, <2>1 DEF FoundKept, AccountsKept
  <2>2. CASE /\ clients' = clients \cup {[name |-> th[t].name, pass |-> th[t].pass, uuid |-> th[t].uuid]}
             /\ th[t].pc = "logtoken"
    BY <1>0, <1>1, <2>2 DEF FoundKept, AccountsKept
  <2> QED BY <2>1, <2>2
       DEF Step, RegGet, RegSet, RegReset, RegSetAgain, RegAdmin, RegDoc, LogGet, validadminidentity,
           LogDoc, LogToken, ModDoc, CanGet, CanZones, CanSc, CanKey, CanDoc
<1>4. (\A r \in reported : Kept(r.uuid))'
  <2>1. CASE UNCHANGED reported
    BY <1>0, <1>1, <2>1 DEF FoundKept, AccountsKept
  <2>2. CASE /\ reported' = reported \cup {[name |-> th[t].name, uuid |-> th[t].uuid]}
             /\ accounts' = [accounts EXCEPT ![th[t].uuid] = [name |-> th[t].name, pass |-> th[t].pass]]
             /\ th[t].pc = "regdoc"
    <3>1. th[t].name \in Names /\ th[t].uuid \in Uuids
      BY <2>2, LocalsOK DEF Typed, RegPcs
    <3>2. [name |-> th[t].name, pass |-> th[t].pass] # None
      BY <3>1 DEF None
    <3>3. accounts'[th[t].uuid] # None
      BY <2>2, <3>1, <3>2 DEF Typed, DocsOK
    <3> QED BY <1>0, <1>1, <2>2, <3>3 DEF FoundKept, AccountsKept, Kept
  <2> QED BY <2>1, <2>2
       DEF Step, RegGet, RegSet, RegReset, RegSetAgain, RegAdmin, RegDoc, LogGet, validadminidentity,
           LogDoc, LogToken, ModDoc, CanGet, CanZones, CanSc, CanKey, CanDoc, history, DocKey
<1> QED BY <1>2, <1>3, <1>4 DEF FoundKept

LEMMA FoundNext == ASSUME Typed, FoundKept, [Next]_vars PROVE FoundKept'
<1>1. ASSUME NEW t \in Threads, Request(t) PROVE FoundKept'
  <2>1. CASE Called(t)
    BY <2>1 DEF Called, OnlyThread, FoundKept, Kept
  <2>2. CASE \E c \in clients : Exit(t, c)
    BY <2>2 DEF Exit, history, FoundKept, Kept
  <2> QED BY <1>1, <2>1, <2>2, RequestForm
<1>2. ASSUME NEW c \in clients, ZoneRegistered(c) PROVE FoundKept'
  BY <1>2 DEF ZoneRegistered, db, FoundKept, Kept
<1>3. CASE Restart
  BY <1>3, IdleFields DEF Restart, db, FoundKept, Kept
<1>4. CASE UNCHANGED vars
  BY <1>4 DEF vars, db, history, FoundKept, Kept
<1> QED BY <1>1, <1>2, <1>3, <1>4, FoundStep DEF Next

(* A client is logged in as an account whose name is the one that was      *)
(* typed: UserLogin, modifyUserinfo and a second registration of the name  *)
(* never mix up two accounts, however their steps interleave.              *)
THEOREM LoginsOfTheirNames == Spec => []LoginOfName
<1>1. Init => FoundKept
  BY IdleFields DEF Init, FoundKept
<1>2. Typed /\ NamesIInv /\ FoundKept => LoginOfName
  <2> SUFFICES ASSUME Typed, NamesIInv, FoundKept, NEW c \in clients, c.uuid \notin cancelled
               PROVE  accounts[c.uuid].name = c.name
    BY DEF LoginOfName
  <2>1. c.uuid \in Uuids /\ c.name \in Names /\ accounts[c.uuid] \in Accounts
    BY DEF Typed, ClientsOK, DocsOK, FoundKept, Kept
  <2>2. Claim(c.uuid, c.name) /\ Claim(c.uuid, accounts[c.uuid].name)
    BY <2>1, NoneOK DEF Claim, ClientClaim, DocClaim
  <2> QED BY <2>1, <2>2, NoneOK DEF NamesIInv, OneName
<1> QED BY <1>1, <1>2, InitTyped, InitNames, NextTyped, NamesNext, FoundNext, PTL DEF Spec

-----------------------------------------------------------------------------
(* Registrations can be looked up: who has written the map, and who will. *)

\* The name is excused after the step.
Spared(n) == n \in clash' \/ raced'

\* A step that leaves the map and the reports alone.
LEMMA LookupMove ==
  ASSUME Lookup, UNCHANGED <<hasMap, map, reported>>, clash \subseteq clash', raced => raced',
         NEW t \in Threads, OnlyThread(t),
         th'[t].pc \in UnwrittenPcs => map[th'[t].name] = NoId \/ Spared(th'[t].name),
         th'[t].pc \in WrittenPcs => map[th'[t].name] = th'[t].uuid \/ Spared(th'[t].name),
         th'[t].pc = "reset" => raced' \/ (~hasMap /\ \A w \in Threads \ {t} : th[w].pc # "reset")
  PROVE  Lookup'
<1>0. \A n : Excused(n) => Spared(n)
  BY DEF Excused, Spared
<1>1. UnwrittenFree'
  BY <1>0 DEF Lookup, UnwrittenFree, OnlyThread, Spared, Excused
<1>2. WrittenStays'
  BY <1>0 DEF Lookup, WrittenStays, OnlyThread, Spared, Excused
<1>3. ReportStays'
  BY <1>0 DEF Lookup, ReportStays, Spared, Excused
<1>4. OneReset'
  BY DEF Lookup, OneReset, OnlyThread
<1> QED BY <1>1, <1>2, <1>3, <1>4 DEF Lookup

\* A registration writes its entry: nobody else has one under this name or
\* will write one, unless the name is known to clash.
LEMMA LookupWrite ==
  ASSUME Typed, Lookup, NEW t \in Threads, th[t].pc \in UnwrittenPcs, OnlyThread(t),
         hasMap, Written(t), Clashes(t), UNCHANGED <<hasMap, raced, reported>>,
         \/ th'[t] = Idle
         \/ th'[t].pc \in WrittenPcs /\ SameLocals(t)
  PROVE  Lookup'
<1> DEFINE n == th[t].name
<1>0. n \in Names /\ th[t].uuid \in Uuids /\ map \in [Names -> Uuids \cup {NoId}]
  BY LocalsOK DEF Typed, MapOK, UnwrittenPcs, RegPcs
<1>1. map'[n] = th[t].uuid /\ \A m \in Names \ {n} : map'[m] = map[m]
  BY <1>0 DEF Written
<1>2. \A m : Excused(m) => Spared(m)
  BY DEF Excused, Spared, Clashes
<1>3. Excused(n) \/ map[n] = NoId
  BY DEF Lookup, UnwrittenFree
<1>4. \A w \in Threads : th[w].pc \in RegPcs => th[w].name \in Names /\ th[w].uuid \in Uuids
  BY LocalsOK DEF Typed
<1>5. \A r \in reported : r.name \in Names /\ r.uuid \in Uuids
  BY DEF Typed, HistoryOK, Reports
<1>6. NoId \notin Uuids
  BY DEF NoId, Uuids
<1>7. UnwrittenPcs \subseteq RegPcs /\ WrittenPcs \subseteq RegPcs /\ WrittenPcs \cap UnwrittenPcs = {}
      /\ "idle" \notin RegPcs
  BY DEF UnwrittenPcs, WrittenPcs, RegPcs
<1>8. \A w \in Threads \ {t} : th[w].pc \in UnwrittenPcs /\ th[w].name = n => Spared(n)
  BY DEF Excused, Spared, Clashes, Rivals, UnwrittenPcs
<1> HIDE DEF n
<1>9. UnwrittenFree'
  BY <1>1, <1>2, <1>4, <1>7, <1>8, IdleFields DEF Lookup, UnwrittenFree, OnlyThread, Spared, Excused
<1>10. WrittenStays'
  <2>1. ASSUME NEW w \in Threads \ {t}, th'[w].pc \in WrittenPcs
        PROVE  map'[th'[w].name] = th'[w].uuid \/ Spared(th'[w].name)
    <3>1. th[w].name \in Names /\ th[w].uuid \in Uuids /\ th'[w] = th[w]
      BY <1>4, <1>7, <2>1 DEF OnlyThread
    <3>2. map[th[w].name] = th[w].uuid \/ Excused(th[w].name)
      BY <2>1, <3>1 DEF Lookup, WrittenStays
    <3> QED BY <1>1, <1>2, <1>3, <1>6, <3>1, <3>2
  <2>2. th'[t].pc \in WrittenPcs => map'[th'[t].name] = th'[t].uuid
    BY <1>1, <1>7, IdleFields DEF SameLocals, n
  <2> QED BY <2>1, <2>2 DEF WrittenStays, Spared, Excused
<1>11. ReportStays'
  <2> SUFFICES ASSUME NEW r \in reported PROVE map'[r.name] = r.uuid \/ Spared(r.name)
    BY DEF ReportStays, Spared, Excused
  <2>1. map[r.name] = r.uuid \/ Excused(r.name)
    BY DEF Lookup, ReportStays
  <2> QED BY <1>1, <1>2, <1>3, <1>5, <1>6, <2>1
<1>12. OneReset'
  <2>1. th'[t].pc # "reset"
    BY <1>7, IdleFields DEF UnwrittenPcs
  <2> QED BY <2>1 DEF Lookup, OneReset, OnlyThread
<1> QED BY <1>9, <1>10, <1>11, <1>12 DEF Lookup

LEMMA LookupStep == ASSUME Typed, Lookup, NEW t \in Threads, Step(t) PROVE Lookup'
<1> USE DEF At
<1>0. Moved(t) /\ OnlyThread(t)
  BY StepMoved DEF Moved
<1>a. "idle" \notin UnwrittenPcs /\ "idle" \notin WrittenPcs
  BY DEF UnwrittenPcs, WrittenPcs
<1>1. CASE th[t].pc \notin RegPcs
  <2>1. UNCHANGED <<hasMap, map, reported, clash, raced>>
    BY <1>1 DEF Step, RegGet, RegSet, RegReset, RegSetAgain, RegAdmin, RegDoc, LogGet, validadminidentity,
       LogDoc, LogToken, ModDoc, CanGet, CanZones, CanSc, CanKey, CanDoc, db, history, RegPcs
  <2>2. th'[t].pc \notin RegPcs
    BY <1>0, <1>1, IdleFields DEF Moved, RegSteps, OtherSteps, RegPcs
  <2>3. th'[t].pc \notin UnwrittenPcs \cup WrittenPcs /\ th'[t].pc # "reset"
    BY <2>2 DEF RegPcs, UnwrittenPcs, WrittenPcs
  <2> QED BY <1>0, <2>1, <2>3, LookupMove
<1>2. CASE RegGet(t)
  <2>0. UNCHANGED <<hasMap, map, reported, raced>> /\ clash \subseteq clash'
    BY <1>2 DEF RegGet, db
  <2>1. CASE Return(t)
    BY <1>0, <1>a, <2>0, <2>1, ReturnOK, IdleFields, LookupMove DEF Typed
  <2>2. CASE Go(t, "regset") /\ (~Taken(t) \/ th[t].name \in clash')
    <3>1. th'[t].pc = "regset" /\ SameLocals(t)
      BY <1>2, <2>2, GoMoved DEF RegGet, RegSteps
    <3>2. map[th'[t].name] = NoId \/ Spared(th'[t].name)
      BY <2>2, <3>1 DEF SameLocals, Taken, Spared
    <3>3. th'[t].pc \notin WrittenPcs /\ th'[t].pc # "reset"
      BY <3>1 DEF WrittenPcs
    <3> QED BY <1>0, <2>0, <3>2, <3>3, LookupMove
  <2> QED BY <1>2, <2>1, <2>2 DEF RegGet
<1>3. CASE RegSet(t)
  <2>0. th[t].pc = "regset" /\ th[t].pc \in UnwrittenPcs /\ UNCHANGED <<hasMap, reported>>
    BY <1>3 DEF RegSet, UnwrittenPcs
  <2>1. CASE hasMap /\ Written(t) /\ Clashes(t) /\ UNCHANGED raced /\ (AfterMap(t) \/ Return(t))
    <3>1. th'[t] = Idle \/ (th'[t].pc \in WrittenPcs /\ SameLocals(t))
      BY <2>0, <2>1, AfterMapMoved, ReturnOK DEF Typed
    <3> QED BY <1>0, <2>0, <2>1, <3>1, LookupWrite
  <2>2. CASE Return(t) /\ UNCHANGED <<map, clash, raced>>
    BY <1>0, <1>a, <2>0, <2>2, ReturnOK, IdleFields, LookupMove DEF Typed
  <2>3. CASE /\ ~hasMap /\ Go(t, "reset") /\ UNCHANGED <<map, clash>>
             /\ raced' = (raced \/ \E u \in Threads : th[u].pc = "reset")
    <3>1. th'[t].pc = "reset" /\ SameLocals(t)
      BY <2>0, <2>3, GoMoved DEF RegSteps
    <3>2. map[th'[t].name] = NoId
      BY <2>0, <2>3, <3>1, LocalsOK DEF SameLocals, Typed, MapOK, RegPcs
    <3>3. th'[t].pc \notin WrittenPcs
      BY <3>1 DEF WrittenPcs
    <3> QED BY <1>0, <2>0, <2>3, <3>2, <3>3, LookupMove
  <2> QED BY <1>3, <2>1, <2>2, <2>3 DEF RegSet, Missing
<1>4. CASE RegReset(t)
  <2>0. th[t].pc = "reset" /\ th'[t].pc = "regset2" /\ SameLocals(t) /\ UNCHANGED <<reported, clash, raced>>
    BY <1>4, GoMoved DEF RegReset, RegSteps, history
  <2>1. CASE raced
    BY <2>0, <2>1 DEF Lookup, UnwrittenFree, WrittenStays, ReportStays, OneReset, Excused
  <2>2. CASE ~raced
    <3>1. ~hasMap /\ \A w \in Threads \ {t} : th[w].pc # "reset"
      BY <2>0, <2>2 DEF Lookup, OneReset
    <3>2. \A n \in Names : map[n] = NoId
      BY <3>1 DEF Typed, MapOK
    <3>3. map' = map
      BY <1>4, <3>2 DEF RegReset, Typed, MapOK
    <3>4. UnwrittenFree' /\ WrittenStays' /\ ReportStays'
      <4>1. th[t].pc \in UnwrittenPcs /\ th'[t].pc \notin WrittenPcs
        BY <2>0 DEF UnwrittenPcs, WrittenPcs
      <4> QED BY <1>0, <2>0, <3>3, <4>1
            DEF Lookup, UnwrittenFree, WrittenStays, ReportStays, OnlyThread, SameLocals, Excused
    <3>5. OneReset'
      BY <1>0, <2>0, <3>1 DEF OneReset, OnlyThread
    <3> QED BY <3>4, <3>5 DEF Lookup
  <2> QED BY <2>1, <2>2
<1>5. CASE RegSetAgain(t)
  <2>0. th[t].pc = "regset2" /\ th[t].pc \in UnwrittenPcs /\ UNCHANGED <<hasMap, reported, raced>>
    BY <1>5 DEF RegSetAgain, UnwrittenPcs
  <2>1. CASE hasMap /\ Written(t) /\ Clashes(t) /\ AfterMap(t)
    <3>1. th'[t].pc \in WrittenPcs /\ SameLocals(t)
      BY <2>0, <2>1, AfterMapMoved
    <3> QED BY <1>0, <2>0, <2>1, <3>1, LookupWrite
  <2>2. CASE Return(t) /\ UNCHANGED <<map, clash>>
    BY <1>0, <1>a, <2>0, <2>2, ReturnOK, IdleFields, LookupMove DEF Typed
  <2> QED BY <1>5, <2>1, <2>2 DEF RegSetAgain
<1>6. CASE RegAdmin(t)
  <2>0. UNCHANGED <<hasMap, map, reported, clash, raced>> /\ th[t].pc \in WrittenPcs
    BY <1>6 DEF RegAdmin, WrittenPcs
  <2>1. CASE Return(t)
    BY <1>0, <1>a, <2>0, <2>1, ReturnOK, IdleFields, LookupMove DEF Typed
  <2>2. CASE Go(t, "regdoc")
    <3>1. th'[t].pc = "regdoc" /\ SameLocals(t)
      BY <1>6, <2>2, GoMoved DEF RegAdmin, RegSteps
    <3>2. map[th'[t].name] = th'[t].uuid \/ Spared(th'[t].name)
      BY <2>0, <3>1 DEF SameLocals, Lookup, WrittenStays, Excused, Spared
    <3>3. th'[t].pc \notin UnwrittenPcs /\ th'[t].pc # "reset"
      BY <3>1 DEF UnwrittenPcs
    <3> QED BY <1>0, <2>0, <3>2, <3>3, LookupMove
  <2> QED BY <1>6, <2>1, <2>2 DEF RegAdmin
<1>7. CASE RegDoc(t)
  <2>0. UNCHANGED <<hasMap, map, clash, raced>> /\ th[t].pc \in WrittenPcs /\ th'[t] = Idle
    BY <1>7, ReturnOK DEF RegDoc, WrittenPcs, Typed
  <2>1. UnwrittenFree' /\ WrittenStays'
    BY <1>0, <1>a, <2>0, IdleFields DEF Lookup, UnwrittenFree, WrittenStays, OnlyThread, Excused
  <2>2. OneReset'
    BY <1>0, <2>0, IdleFields DEF Lookup, OneReset, OnlyThread
  <2>3. ReportStays'
    <3>1. map[th[t].name] = th[t].uuid \/ Excused(th[t].name)
      BY <2>0 DEF Lookup, WrittenStays
    <3> QED BY <1>7, <2>0, <3>1 DEF RegDoc, Lookup, ReportStays, Excused
  <2> QED BY <2>1, <2>2, <2>3 DEF Lookup
<1> QED BY <1>1, <1>2, <1>3, <1>4, <1>5, <1>6, <1>7
     DEF Step, LogGet, validadminidentity, LogDoc, LogToken, ModDoc, CanGet, CanZones, CanSc, CanKey,
         CanDoc, RegPcs

LEMMA LookupNext == ASSUME Typed, Lookup, [Next]_vars PROVE Lookup'
<1>1. ASSUME NEW t \in Threads, Request(t) PROVE Lookup'
  <2>1. CASE Called(t)
    <3>1. th'[t].pc \notin UnwrittenPcs \cup WrittenPcs /\ th'[t].pc # "reset"
      BY <2>1 DEF Called, UnwrittenPcs, WrittenPcs
    <3> QED BY <2>1, <3>1, LookupMove DEF Called
  <2>2. CASE \E c \in clients : Exit(t, c)
    BY <2>2 DEF Exit, history, Lookup, UnwrittenFree, WrittenStays, ReportStays, OneReset, Excused
  <2> QED BY <1>1, <2>1, <2>2, RequestForm
<1>2. ASSUME NEW c \in clients, ZoneRegistered(c) PROVE Lookup'
  BY <1>2 DEF ZoneRegistered, db, Lookup, UnwrittenFree, WrittenStays, ReportStays, OneReset, Excused
<1>3. CASE Restart
  BY <1>3, IdleFields
     DEF Restart, db, Lookup, UnwrittenFree, WrittenStays, ReportStays, OneReset, Excused,
         UnwrittenPcs, WrittenPcs
<1>4. CASE UNCHANGED vars
  BY <1>4 DEF vars, db, history, Lookup, UnwrittenFree, WrittenStays, ReportStays, OneReset, Excused
<1> QED BY <1>1, <1>2, <1>3, <1>4, LookupStep DEF Next

(* A registration that reported success is found by its name and has its   *)
(* account, unless two registrations raced for the name or for the map, or *)
(* the account was cancelled: UserRegister reports nothing it has not done. *)
THEOREM RegisteredIsFound == Spec => []RegisteredUnlessRaced
<1>1. Init => FoundKept /\ Lookup
  <2>1. Init => FoundKept
    BY IdleFields DEF Init, FoundKept
  <2>2. Init => Lookup
    BY IdleFields DEF Init, Lookup, UnwrittenFree, WrittenStays, ReportStays, OneReset,
                      UnwrittenPcs, WrittenPcs
  <2> QED BY <2>1, <2>2
<1>2. Typed /\ NamesIInv /\ FoundKept /\ Lookup => RegisteredUnlessRaced
  <2> SUFFICES ASSUME Typed, NamesIInv, FoundKept, Lookup, NEW r \in reported, r.uuid \notin cancelled
               PROVE  (map[r.name] = r.uuid \/ Excused(r.name)) /\ accounts[r.uuid].name = r.name
    BY DEF RegisteredUnlessRaced, Excused
  <2>1. r.uuid \in Uuids /\ r.name \in Names /\ accounts[r.uuid] \in Accounts
        /\ r = [name |-> r.name, uuid |-> r.uuid]
    BY DEF Typed, HistoryOK, Reports, DocsOK, FoundKept, Kept
  <2>2. Claim(r.uuid, r.name) /\ Claim(r.uuid, accounts[r.uuid].name)
    BY <2>1, NoneOK DEF Claim, ReportClaim, DocClaim
  <2>3. accounts[r.uuid].name = r.name
    BY <2>1, <2>2, NoneOK DEF NamesIInv, OneName
  <2> QED BY <2>3 DEF Lookup, ReportStays
<1> QED BY <1>1, <1>2, InitTyped, InitNames, NextTyped, NamesNext, FoundNext, LookupNext, PTL DEF Spec

=============================================================================
