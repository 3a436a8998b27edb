-------------------------- MODULE ZoneServerProofs --------------------------
(***************************************************************************)
(* Proofs about the space service and the zone service of the manager, for *)
(* any number of threads, storage resources, spaces, zones, users, faults  *)
(* and operations.                                                         *)
(*                                                                         *)
(* First the space service for arbitrary callers: whatever REST threads    *)
(* interleave and whichever database calls fail, the assigned capacity of  *)
(* a storage resource stays between 0 and its total.                       *)
(*                                                                         *)
(* Then the zone service, which uses the space service only through its    *)
(* operations, with arguments that are spaces: what holds for arbitrary    *)
(* callers holds when the zone handlers are the callers.  Then what the    *)
(* two services keep together: who has access to a zone, and which zone a  *)
(* space belongs to.  Last, the accounts of the space service: the         *)
(* assigned capacity is the sum of the active spaces.                      *)
(***************************************************************************)
EXTENDS ZoneServer, FiniteSetTheorems, TLAPS

USE TotalAssumption, SizesAssumption, NoStorageAssumption, NoSpaceAssumption, BoundsAssumption

\* The facts a step has to re-establish, seen from one variable each.
ThreadOK(r) ==
  /\ r \in Handler
  /\ r.pc \in {"add", "addset", "ded", "dedset", "mkdir", "save"} =>
       r.id \in SpaceIDs /\ r.doc.st \in Storages
  /\ r.pc \in {"addset", "dedset"} => r.snap \in Size

AssignOK(a) == a \in [Storages -> Nat] /\ \A s \in Storages : a[s] \in Size
SpacesOK(m) == m \in [SpaceIDs -> SpaceDoc]
               /\ \A i \in SpaceIDs : m[i] # Absent => m[i].st \in Storages
RestOK == /\ stale \in [Threads -> [stor : BOOLEAN, space : BOOLEAN]]
          /\ drift \subseteq Causes /\ faults \in Nat /\ ops \in Nat

LEMMA IInvByParts ==
  IInv <=> /\ th = [t \in Threads |-> th[t]] /\ \A t \in Threads : ThreadOK(th[t])
           /\ AssignOK(assign) /\ SpacesOK(spaces) /\ RestOK
BY DEF IInv, TypeOK, HandlerReady, SnapshotWithinTotal, SpacesStored, AssignedWithinTotal,
       ThreadOK, AssignOK, SpacesOK, RestOK

ThreadsOK == th = [t \in Threads |-> th[t]] /\ \A t \in Threads : ThreadOK(th[t])
BusyPcs == {"add", "addset", "ded", "dedset", "mkdir", "save"}

\* A step of thread t changes the locals of that thread only.
LEMMA UpdateThread ==
  ASSUME ThreadsOK, NEW t \in Threads, NEW r, ThreadOK(r), th' = [th EXCEPT ![t] = r]
  PROVE  ThreadsOK'
BY DEF ThreadsOK

\* The fields of a handler record.
LEMMA HandlerFields ==
  ASSUME NEW r \in Handler
  PROVE  /\ r.delta \in Nat /\ r.snap \in Nat /\ r.doc \in SpaceDoc /\ r.todo \subseteq SpaceIDs
         /\ r.named \in BOOLEAN /\ r.id \in SpaceIDs \cup {NoSpace} /\ r.op \in SpaceOps
BY DEF Handler

\* A handler that only moves on keeps what it knows.
LEMMA MoveOn ==
  ASSUME NEW r, ThreadOK(r),
         NEW pc \in {"idle", "get", "add", "ded", "mkdir", "save", "ret"},
         pc \in BusyPcs => r.pc \in BusyPcs
  PROVE  ThreadOK([r EXCEPT !.pc = pc])
BY DEF ThreadOK, Handler, BusyPcs

LEMMA ReturnOK ==
  ASSUME ThreadsOK, NEW t \in Threads, NEW ok \in BOOLEAN, th' = Return(t, ok)
  PROVE  ThreadsOK'
<1> DEFINE r == [th[t] EXCEPT !.pc = "ret", !.ok = ok]
<1>1. ThreadOK(r)
  BY DEF ThreadsOK, ThreadOK, Handler
<1>2. th' = [th EXCEPT ![t] = r]
  BY DEF Return
<1> QED BY <1>1, <1>2, UpdateThread

\* SpaceDelete goes on with the next space.
LEMMA NextSpaceOK ==
  ASSUME ThreadsOK, NEW t \in Threads,
         th' = [th EXCEPT ![t].pc = "get", ![t].id = NoSpace]
  PROVE  ThreadsOK'
<1> DEFINE r == [th[t] EXCEPT !.pc = "get", !.id = NoSpace]
<1>1. ThreadOK(r)
  BY DEF ThreadsOK, ThreadOK, Handler
<1> QED BY <1>1, UpdateThread

LEMMA CapacityFailedOK ==
  ASSUME ThreadsOK, NEW t \in Threads, th' = CapacityFailed(t)
  PROVE  ThreadsOK'
BY ReturnOK, NextSpaceOK DEF CapacityFailed

LEMMA AfterCapacityOK ==
  ASSUME ThreadsOK, NEW t \in Threads, th[t].pc \in BusyPcs, th' = AfterCapacity(t)
  PROVE  ThreadsOK'
<1> DEFINE q == IF th[t].op = "create" THEN "mkdir" ELSE "save"
<1>1. ThreadOK([th[t] EXCEPT !.pc = q])
  BY MoveOn DEF ThreadsOK, BusyPcs
<1>2. th' = [th EXCEPT ![t] = [th[t] EXCEPT !.pc = q]]
  BY DEF AfterCapacity
<1> QED BY <1>1, <1>2, UpdateThread

-----------------------------------------------------------------------------
(* The actions. *)

LEMMA BeginOK ==
  ASSUME ThreadsOK, RestOK, NEW t \in Threads, NEW rec, ThreadOK(rec), Begin(t, rec)
  PROVE  /\ ThreadsOK' /\ UNCHANGED <<assign, spaces, faults>> /\ ops' \in Nat
         /\ stale' \in [Threads -> [stor : BOOLEAN, space : BOOLEAN]]
<1>1. th' = [th EXCEPT ![t] = rec]
  BY DEF Begin
<1>2. ThreadsOK'
  BY <1>1, UpdateThread
<1>3. Fresh \in [stor : BOOLEAN, space : BOOLEAN]
  BY DEF Fresh
<1>4. stale' \in [Threads -> [stor : BOOLEAN, space : BOOLEAN]]
  BY <1>3 DEF Begin, RestOK
<1> QED BY <1>2, <1>4 DEF Begin, RestOK

\* The record that a call of an operation starts with.
LEMMA CallOK ==
  ASSUME ThreadsOK, RestOK, SpacesOK(spaces), NEW t \in Threads, Call(t)
  PROVE  ThreadsOK' /\ UNCHANGED <<assign, spaces>> /\ RestOK'
<1>0. ThreadOK(Idle)
  BY DEF ThreadOK, Idle, Handler, SpaceOps, Absent, SpaceDoc
<1>1. ASSUME NEW size \in Sizes, NEW named \in BOOLEAN, SpaceCreate(t, size, named)
      PROVE  ThreadsOK' /\ UNCHANGED <<assign, spaces>> /\ RestOK'
  <2>1. PICK s \in Storages, i \in SpaceIDs :
          Begin(t, [Idle EXCEPT !.pc = "add", !.op = "create", !.id = i, !.delta = size,
                                !.doc = [st |-> s, size |-> size, status |-> TRUE],
                                !.named = named])
    BY <1>1 DEF SpaceCreate, GetSpaceCreatePath
  <2>2. ThreadOK([Idle EXCEPT !.pc = "add", !.op = "create", !.id = i, !.delta = size,
                              !.doc = [st |-> s, size |-> size, status |-> TRUE],
                              !.named = named])
    BY DEF ThreadOK, Idle, Handler, SpaceOps, SpaceDoc
  <2> QED BY <1>1, <2>1, <2>2, BeginOK DEF SpaceCreate, RestOK
<1>2. ASSUME NEW i \in SpaceIDs, SpaceCheck(t, i)
      PROVE  ThreadsOK' /\ UNCHANGED <<assign, spaces>> /\ RestOK'
  <2>1. spaces[i] \in SpaceDoc /\ spaces[i].st \in Storages /\ spaces[i].size \in Nat
    BY <1>2 DEF SpaceCheck, SpacesOK, SpaceDoc
  <2>2. ThreadOK([Idle EXCEPT !.pc = "add", !.op = "check", !.id = i,
                              !.delta = spaces[i].size,
                              !.doc = [spaces[i] EXCEPT !.status = TRUE]])
    BY <2>1 DEF ThreadOK, Idle, Handler, SpaceOps, SpaceDoc
  <2> QED BY <1>2, <2>2, BeginOK DEF SpaceCheck, RestOK
<1>3. ASSUME NEW i \in SpaceIDs, SpaceRename(t, i)
      PROVE  ThreadsOK' /\ UNCHANGED <<assign, spaces>> /\ RestOK'
  <2>1. spaces[i] \in SpaceDoc /\ spaces[i].st \in Storages
    BY <1>3 DEF SpaceRename, SpacesOK, Active, Absent
  <2>2. ThreadOK([Idle EXCEPT !.pc = "save", !.op = "rename", !.id = i, !.doc = spaces[i]])
    BY <2>1 DEF ThreadOK, Idle, Handler, SpaceOps
  <2> QED BY <1>3, <2>2, BeginOK DEF SpaceRename, RestOK
<1>4. ASSUME NEW ids \in SUBSET SpaceIDs, SpaceDelete(t, ids)
      PROVE  ThreadsOK' /\ UNCHANGED <<assign, spaces>> /\ RestOK'
  <2>1. ThreadOK([Idle EXCEPT !.pc = "get", !.op = "delete", !.todo = ids])
    BY DEF ThreadOK, Idle, Handler, SpaceOps, Absent, SpaceDoc
  <2> QED BY <1>4, <2>1, BeginOK DEF SpaceDelete, RestOK
<1>5. ASSUME NEW i \in SpaceIDs, NEW new \in Sizes, SpaceSizeChange(t, i, new)
      PROVE  ThreadsOK' /\ UNCHANGED <<assign, spaces>> /\ RestOK'
  <2>1. spaces[i] \in SpaceDoc /\ spaces[i].st \in Storages /\ spaces[i].size \in Nat
    BY <1>5 DEF SpaceSizeChange, SpacesOK, SpaceDoc
  <2>2. ThreadOK([Idle EXCEPT !.pc = IF new > spaces[i].size THEN "add" ELSE "ded",
                              !.op = "resize", !.id = i,
                              !.delta = IF new > spaces[i].size THEN new - spaces[i].size
                                        ELSE spaces[i].size - new,
                              !.doc = [spaces[i] EXCEPT !.size = new]])
    <3> DEFINE d == IF new > spaces[i].size THEN new - spaces[i].size
                    ELSE spaces[i].size - new
               q == IF new > spaces[i].size THEN "add" ELSE "ded"
               e == [spaces[i] EXCEPT !.size = new]
    <3>1. d \in Nat /\ q \in {"add", "ded"} /\ e \in SpaceDoc /\ e.st \in Storages
      BY <2>1 DEF SpaceDoc
    <3> HIDE DEF d, q, e
    <3>2. ThreadOK([Idle EXCEPT !.pc = q, !.op = "resize", !.id = i, !.delta = d, !.doc = e])
      BY <3>1 DEF ThreadOK, Idle, Handler, SpaceOps
    <3> QED BY <3>2 DEF d, q, e
  <2> QED BY <1>5, <2>2, BeginOK DEF SpaceSizeChange, RestOK, Blame, Causes
<1> QED BY <1>1, <1>2, <1>3, <1>4, <1>5 DEF Call

\* Histories keep their types whatever a step writes.
LEMMA HistoryOK ==
  ASSUME RestOK, NEW t \in Threads
  PROVE  /\ ReadStor(t) \in [Threads -> [stor : BOOLEAN, space : BOOLEAN]]
         /\ WriteStor(t) \in [Threads -> [stor : BOOLEAN, space : BOOLEAN]]
         /\ WriteSpace(t) \in [Threads -> [stor : BOOLEAN, space : BOOLEAN]]
         /\ [stale EXCEPT ![t].space = FALSE] \in [Threads -> [stor : BOOLEAN, space : BOOLEAN]]
         /\ [stale EXCEPT ![t] = Fresh] \in [Threads -> [stor : BOOLEAN, space : BOOLEAN]]
<1> DEFINE H == [stor : BOOLEAN, space : BOOLEAN]
<1>1. \A u \in Threads : stale[u] \in H /\ [stale[u] EXCEPT !.stor = FALSE] \in H
                         /\ [stale[u] EXCEPT !.stor = TRUE] \in H
                         /\ [stale[u] EXCEPT !.space = TRUE] \in H
                         /\ [stale[u] EXCEPT !.space = FALSE] \in H
  BY DEF RestOK
<1>2. Fresh \in H
  BY DEF Fresh
<1>3. stale \in [Threads -> H]
  BY DEF RestOK
<1> HIDE DEF H
<1>4. WriteStor(t) \in [Threads -> H]
  BY <1>1 DEF WriteStor
<1>5. WriteSpace(t) \in [Threads -> H]
  BY <1>1 DEF WriteSpace
<1>6. ReadStor(t) \in [Threads -> H] /\ [stale EXCEPT ![t].space = FALSE] \in [Threads -> H]
  BY <1>1, <1>3 DEF ReadStor
<1>7. [stale EXCEPT ![t] = Fresh] \in [Threads -> H]
  BY <1>2, <1>3
<1> QED BY <1>4, <1>5, <1>6, <1>7 DEF H

LEMMA BlameOK ==
  ASSUME RestOK, NEW cause \in Causes, NEW cond, Blame(cause, cond)
  PROVE  drift' \subseteq Causes
BY DEF RestOK, Blame

LEMMA FaultOK == RestOK /\ Fault => faults' \in Nat
BY DEF RestOK, Fault

\* The storage document: what is written was checked against the snapshot.
LEMMA SetStorageOK ==
  ASSUME ThreadsOK, AssignOK(assign), RestOK, NEW t \in Threads,
         th[t].pc \in BusyPcs, NEW v \in Size, SetStorage(t, v)
  PROVE  /\ ThreadsOK' /\ AssignOK(assign') /\ drift' \subseteq Causes /\ faults' \in Nat
         /\ stale' \in [Threads -> [stor : BOOLEAN, space : BOOLEAN]]
<1>1. th[t].doc.st \in Storages /\ v \in Nat
  BY DEF ThreadsOK, ThreadOK, BusyPcs, Size
<1>2. AssignOK([assign EXCEPT ![th[t].doc.st] = v])
  BY <1>1 DEF AssignOK
<1>3. assign' = assign \/ assign' = [assign EXCEPT ![th[t].doc.st] = v]
  BY DEF SetStorage
<1>4. AssignOK(assign')
  BY <1>2, <1>3
<1>5. ThreadsOK'
  BY AfterCapacityOK, CapacityFailedOK DEF SetStorage
<1>6. drift' \subseteq Causes
  <2>1. "lost update" \in Causes /\ "failed call" \in Causes
    BY DEF Causes
  <2>2. Blame("lost update", stale[t].stor) \/ Blame("failed call", TRUE)
    BY DEF SetStorage
  <2> QED BY <2>1, <2>2, BlameOK
<1>7. faults' \in Nat
  BY FaultOK DEF SetStorage, RestOK
<1>8. stale' \in [Threads -> [stor : BOOLEAN, space : BOOLEAN]]
  <2>1. stale' = stale \/ stale' = WriteStor(t)
    BY DEF SetStorage
  <2>2. stale \in [Threads -> [stor : BOOLEAN, space : BOOLEAN]]
    BY DEF RestOK
  <2>3. WriteStor(t) \in [Threads -> [stor : BOOLEAN, space : BOOLEAN]]
    BY <2>2, HistoryOK
  <2> QED BY <2>1, <2>2, <2>3
<1> QED BY <1>4, <1>5, <1>6, <1>7, <1>8

\* Everything that the invariant says, by parts.
Good == ThreadsOK /\ AssignOK(assign) /\ SpacesOK(spaces) /\ RestOK

LEMMA GetStorageOK == ASSUME Good, NEW t \in Threads, GetStorage(t) PROVE Good'
<1> USE DEF Good
<1>1. CASE faults' = faults /\ drift' = drift /\ stale' = ReadStor(t)
           /\ th' = [th EXCEPT ![t].pc = IF th[t].pc = "add" THEN "addset" ELSE "dedset",
                               ![t].snap = assign[th[t].doc.st]]
           /\ th[t].pc \in {"add", "ded"}
  <2> DEFINE q == IF th[t].pc = "add" THEN "addset" ELSE "dedset"
             r == [th[t] EXCEPT !.pc = q, !.snap = assign[th[t].doc.st]]
  <2>1. th[t].doc.st \in Storages /\ th[t].id \in SpaceIDs
    BY <1>1 DEF ThreadsOK, ThreadOK
  <2>2. assign[th[t].doc.st] \in Nat /\ assign[th[t].doc.st] \in Size
    BY <2>1 DEF AssignOK
  <2>3. ThreadOK(r)
    BY <2>1, <2>2 DEF ThreadsOK, ThreadOK, Handler
  <2>4. ThreadsOK'
    BY <1>1, <2>3, UpdateThread
  <2> QED BY <1>1, <2>4, HistoryOK DEF GetStorage, RestOK
<1>2. CASE Fault /\ th' = CapacityFailed(t) /\ stale' = stale
           /\ Blame("failed call", th[t].op = "delete")
  <2>1. drift' \subseteq Causes
    BY <1>2, BlameOK DEF Causes
  <2> QED BY <1>2, <2>1, CapacityFailedOK, FaultOK DEF GetStorage, RestOK
<1> QED BY <1>1, <1>2 DEF GetStorage

LEMMA SpaceSizeAddOK == ASSUME Good, NEW t \in Threads, SpaceSizeAdd(t) PROVE Good'
<1> USE DEF Good
<1>0. /\ th[t].pc \in BusyPcs /\ th[t].snap \in Size /\ th[t].delta \in Nat
      /\ UNCHANGED <<spaces, ops>>
  BY HandlerFields DEF SpaceSizeAdd, ThreadsOK, ThreadOK, BusyPcs
<1>1. CASE Fits(t) /\ SetStorage(t, th[t].snap + th[t].delta)
  <2>1. th[t].snap + th[t].delta \in Size
    BY <1>0, <1>1 DEF Fits, Size
  <2> QED BY <1>0, <1>1, <2>1, SetStorageOK DEF RestOK
<1>2. CASE ~Fits(t) /\ th' = Return(t, FALSE) /\ UNCHANGED <<assign, stale, drift, faults>>
  BY <1>0, <1>2, ReturnOK DEF RestOK
<1> QED BY <1>1, <1>2 DEF SpaceSizeAdd

LEMMA SpaceSizeDeductOK == ASSUME Good, NEW t \in Threads, SpaceSizeDeduct(t) PROVE Good'
<1> USE DEF Good
<1>0. /\ th[t].pc \in BusyPcs /\ th[t].snap \in Size /\ th[t].delta \in Nat
      /\ UNCHANGED <<spaces, ops>>
  BY HandlerFields DEF SpaceSizeDeduct, ThreadsOK, ThreadOK, BusyPcs
<1>1. CASE Covers(t) /\ SetStorage(t, th[t].snap - th[t].delta)
  <2>1. th[t].snap - th[t].delta \in Size
    BY <1>0, <1>1 DEF Covers, Size
  <2> QED BY <1>0, <1>1, <2>1, SetStorageOK DEF RestOK
<1>2. CASE ~Covers(t) /\ th' = CapacityFailed(t) /\ UNCHANGED <<assign, stale, drift, faults>>
  BY <1>0, <1>2, CapacityFailedOK DEF RestOK
<1> QED BY <1>1, <1>2 DEF SpaceSizeDeduct

LEMMA MkdirOK == ASSUME Good, NEW t \in Threads, Mkdir(t) PROVE Good'
<1> USE DEF Good
<1>0. th[t].pc = "mkdir" /\ UNCHANGED <<assign, spaces, stale, ops>>
  BY DEF Mkdir
<1>1. CASE th' = [th EXCEPT ![t].pc = "save"] /\ UNCHANGED <<drift, faults>>
  <2>1. ThreadOK([th[t] EXCEPT !.pc = "save"])
    BY <1>0, MoveOn DEF ThreadsOK, BusyPcs
  <2> QED BY <1>0, <1>1, <2>1, UpdateThread DEF RestOK
<1>2. CASE th' = Return(t, FALSE) /\ Blame("unnamed space", th[t].doc.size # 0) /\ faults' = faults
  <2>1. "unnamed space" \in Causes
    BY DEF Causes
  <2> QED BY <1>0, <1>2, <2>1, ReturnOK, BlameOK DEF RestOK
<1>3. CASE Fault /\ th' = Return(t, FALSE) /\ Blame("failed call", TRUE)
  <2>1. "failed call" \in Causes
    BY DEF Causes
  <2> QED BY <1>0, <1>3, <2>1, ReturnOK, BlameOK, FaultOK DEF RestOK
<1> QED BY <1>1, <1>2, <1>3 DEF Mkdir

LEMMA DeleteGetOK == ASSUME Good, NEW t \in Threads, DeleteGet(t) PROVE Good'
<1> USE DEF Good
<1>0. UNCHANGED <<assign, spaces, ops>>
  BY DEF DeleteGet
<1>1. CASE th' = Return(t, TRUE) /\ UNCHANGED <<stale, drift, faults>>
  BY <1>0, <1>1, ReturnOK DEF RestOK
<1>2. ASSUME NEW i \in th[t].todo, spaces[i] # Absent, faults' = faults,
             th' = [th EXCEPT ![t].pc = "ded", ![t].id = i, ![t].todo = @ \ {i},
                              ![t].delta = spaces[i].size,
                              ![t].doc = [spaces[i] EXCEPT !.status = FALSE]],
             stale' = [stale EXCEPT ![t].space = FALSE],
             Blame("second delete", ~Active(i))
      PROVE  Good'
  <2> DEFINE r == [th[t] EXCEPT !.pc = "ded", !.id = i, !.todo = @ \ {i},
                                !.delta = spaces[i].size,
                                !.doc = [spaces[i] EXCEPT !.status = FALSE]]
  <2>1. i \in SpaceIDs
    BY HandlerFields DEF ThreadsOK, ThreadOK
  <2>2. spaces[i] \in SpaceDoc /\ spaces[i].st \in Storages /\ spaces[i].size \in Nat
    BY <1>2, <2>1 DEF SpacesOK, SpaceDoc
  <2>3. ThreadOK(r)
    BY <2>1, <2>2 DEF ThreadsOK, ThreadOK, Handler, SpaceDoc
  <2>4. ThreadsOK'
    BY <1>2, <2>3, UpdateThread
  <2>5. "second delete" \in Causes
    BY DEF Causes
  <2> QED BY <1>0, <1>2, <2>4, <2>5, HistoryOK, BlameOK DEF RestOK
<1>3. CASE Fault /\ th' = Return(t, TRUE) /\ Blame("failed call", TRUE) /\ stale' = stale
  <2>1. "failed call" \in Causes
    BY DEF Causes
  <2> QED BY <1>0, <1>3, <2>1, ReturnOK, BlameOK, FaultOK DEF RestOK
<1> QED BY <1>1, <1>2, <1>3 DEF DeleteGet

LEMMA SaveOK == ASSUME Good, NEW t \in Threads, Save(t) PROVE Good'
<1> USE DEF Good
<1>0. /\ th[t].pc = "save" /\ UNCHANGED <<assign, ops>>
      /\ th[t].id \in SpaceIDs /\ th[t].doc \in SpaceDoc /\ th[t].doc.st \in Storages
  BY HandlerFields DEF Save, ThreadsOK, ThreadOK
<1>1. SpacesOK(spaces')
  <2>1. spaces' = spaces \/ spaces' = [spaces EXCEPT ![th[t].id] = th[t].doc]
    BY DEF Save
  <2>2. SpacesOK([spaces EXCEPT ![th[t].id] = th[t].doc])
    BY <1>0 DEF SpacesOK
  <2> QED BY <2>1, <2>2
<1>2. ThreadsOK'
  BY ReturnOK, NextSpaceOK DEF Save, AfterSave
<1>3. stale' \in [Threads -> [stor : BOOLEAN, space : BOOLEAN]]
  <2>1. stale' = stale \/ stale' = WriteSpace(t)
    BY DEF Save
  <2>2. stale \in [Threads -> [stor : BOOLEAN, space : BOOLEAN]]
    BY DEF RestOK
  <2>3. WriteSpace(t) \in [Threads -> [stor : BOOLEAN, space : BOOLEAN]]
    BY <2>2, HistoryOK
  <2> QED BY <2>1, <2>2, <2>3
<1>4. drift' \subseteq Causes
  <2>1. "lost update" \in Causes /\ "failed call" \in Causes
    BY DEF Causes
  <2>2. Blame("lost update", stale[t].space) \/ Blame("failed call", TRUE)
    BY DEF Save
  <2> QED BY <2>1, <2>2, BlameOK
<1>5. faults' \in Nat
  BY FaultOK DEF Save, RestOK
<1> QED BY <1>0, <1>1, <1>2, <1>3, <1>4, <1>5 DEF RestOK

LEMMA ReplyOK == ASSUME Good, NEW t \in Threads, Reply(t) PROVE Good'
<1> USE DEF Good
<1>1. ThreadOK(Idle)
  BY DEF ThreadOK, Idle, Handler, SpaceOps, Absent, SpaceDoc
<1>2. ThreadsOK'
  BY <1>1, UpdateThread DEF Reply
<1> QED BY <1>2, HistoryOK DEF Reply, RestOK

-----------------------------------------------------------------------------
LEMMA InitIInv == Init => IInv
<1> SUFFICES ASSUME Init PROVE IInv
  OBVIOUS
<1>1. ThreadOK(Idle)
  BY DEF ThreadOK, Idle, Handler, SpaceOps, Absent, SpaceDoc
<1>2. AssignOK(assign)
  BY DEF Init, AssignOK, Size
<1>3. SpacesOK(spaces)
  BY DEF Init, SpacesOK, Absent, SpaceDoc
<1>4. RestOK
  BY DEF Init, RestOK, Fresh
<1> QED BY <1>1, <1>2, <1>3, <1>4, IInvByParts DEF Init

LEMMA GoodIsIInv == IInv <=> Good
BY IInvByParts DEF Good, ThreadsOK

LEMMA StepGood == ASSUME Good, [Next]_vars PROVE Good'
<1>1. ASSUME NEW t \in Threads, Call(t) PROVE Good'
  BY <1>1, CallOK DEF Good
<1>2. ASSUME NEW t \in Threads, Step(t) PROVE Good'
  BY <1>2, GetStorageOK, SpaceSizeAddOK, SpaceSizeDeductOK, MkdirOK, DeleteGetOK, SaveOK
     DEF Step
<1>3. ASSUME NEW t \in Threads, Reply(t) PROVE Good'
  BY <1>3, ReplyOK
<1>4. CASE UNCHANGED vars
  BY <1>4 DEF vars, Good, ThreadsOK, RestOK
<1> QED BY <1>1, <1>2, <1>3, <1>4 DEF Next

LEMMA StepIInv == IInv /\ [Next]_vars => IInv'
<1>1. Good /\ [Next]_vars => Good'
  BY StepGood
<1> QED BY <1>1, GoodIsIInv, PTL

\* The inductive invariant of space allocation.
THEOREM Inductive == Spec => []IInv
BY InitIInv, StepIInv, PTL DEF Spec

\* Type correctness; in particular assign_capacity never becomes negative.
THEOREM TypeCorrect == Spec => []TypeOK
BY Inductive, PTL DEF IInv

\* SpaceSizeAdd and SpaceSizeDeduct keep assign_capacity within the resource,
\* under every interleaving of their get and set calls and every failure.
THEOREM NeverOverAssigned == Spec => []AssignedWithinTotal
BY Inductive, PTL DEF IInv

-----------------------------------------------------------------------------
USE UsersAssumption, NamesAssumption, ZoneBoundsAssumption

-----------------------------------------------------------------------------
\* The steps of the space service inside a call keep the operation, and keep
\* the space unless the operation is a delete.
KeepsSpace(t) ==
  /\ \A u \in Threads : u # t => th'[u] = th[u]
  /\ th'[t].op = th[t].op
  /\ th[t].op # "delete" => th'[t].id = th[t].id
  /\ th'[t].pc = "get" => th[t].op = "delete"

LEMMA Replaced ==
  ASSUME th \in [Threads -> Handler], NEW t \in Threads, NEW r, th' = [th EXCEPT ![t] = r],
         r.op = th[t].op, th[t].op # "delete" => r.id = th[t].id,
         r.pc = "get" => th[t].op = "delete"
  PROVE  KeepsSpace(t)
BY DEF KeepsSpace

LEMMA ReturnKeeps ==
  ASSUME th \in [Threads -> Handler], NEW t \in Threads, NEW ok \in BOOLEAN, th' = Return(t, ok)
  PROVE  KeepsSpace(t)
<1> DEFINE r == [th[t] EXCEPT !.pc = "ret", !.ok = ok]
<1>1. th' = [th EXCEPT ![t] = r]
  BY DEF Return
<1>2. th[t] \in Handler
  OBVIOUS
<1>3. r.op = th[t].op /\ r.id = th[t].id /\ r.pc = "ret"
  BY <1>2 DEF Handler
<1> HIDE DEF r
<1> QED BY <1>1, <1>3, Replaced

\* SpaceDelete goes on with the next space.
LEMMA NextSpaceKeeps ==
  ASSUME th \in [Threads -> Handler], NEW t \in Threads, th[t].op = "delete",
         th' = [th EXCEPT ![t].pc = "get", ![t].id = NoSpace]
  PROVE  KeepsSpace(t)
<1> DEFINE r == [th[t] EXCEPT !.pc = "get", !.id = NoSpace]
<1>1. th' = [th EXCEPT ![t] = r]
  OBVIOUS
<1>2. th[t] \in Handler
  OBVIOUS
<1>3. r.op = th[t].op
  BY <1>2 DEF Handler
<1> HIDE DEF r
<1> QED BY <1>1, <1>3, Replaced

LEMMA MoveKeeps ==
  ASSUME th \in [Threads -> Handler], NEW t \in Threads, NEW pc, pc # "get",
         th' = [th EXCEPT ![t].pc = pc]
  PROVE  KeepsSpace(t)
<1> DEFINE r == [th[t] EXCEPT !.pc = pc]
<1>1. th' = [th EXCEPT ![t] = r]
  OBVIOUS
<1>2. th[t] \in Handler
  OBVIOUS
<1>3. r.op = th[t].op /\ r.id = th[t].id /\ r.pc = pc
  BY <1>2 DEF Handler
<1> HIDE DEF r
<1> QED BY <1>1, <1>3, Replaced

LEMMA StepKeepsSpace ==
  ASSUME TypeOK, CallsMatch, NEW t \in Threads, Step(t)
  PROVE  KeepsSpace(t)
<1>0. th \in [Threads -> Handler] /\ (th[t].pc = "get" => th[t].op = "delete")
  BY DEF TypeOK, CallsMatch
<1>1. ASSUME NEW ok \in BOOLEAN, th' = Return(t, ok) PROVE KeepsSpace(t)
  BY <1>0, <1>1, ReturnKeeps
<1>2. ASSUME th' = CapacityFailed(t) PROVE KeepsSpace(t)
  BY <1>0, <1>1, <1>2, NextSpaceKeeps DEF CapacityFailed
<1>3. ASSUME th' = AfterCapacity(t) PROVE KeepsSpace(t)
  BY <1>0, <1>3, MoveKeeps DEF AfterCapacity
<1>4. CASE GetStorage(t)
  <2>1. CASE th' = CapacityFailed(t)
    BY <1>2, <2>1
  <2>2. CASE th' = [th EXCEPT ![t].pc = IF th[t].pc = "add" THEN "addset" ELSE "dedset",
                              ![t].snap = assign[th[t].doc.st]]
    <3> DEFINE q == IF th[t].pc = "add" THEN "addset" ELSE "dedset"
               r == [th[t] EXCEPT !.pc = q, !.snap = assign[th[t].doc.st]]
    <3>1. th' = [th EXCEPT ![t] = r]
      BY <1>0, <2>2
    <3>2. r.op = th[t].op /\ r.id = th[t].id /\ r.pc # "get"
      <4>1. th[t] \in Handler
        BY <1>0
      <4> QED BY <4>1 DEF Handler
    <3> HIDE DEF r
    <3> QED BY <1>0, <3>1, <3>2, Replaced
  <2> QED BY <1>4, <2>1, <2>2 DEF GetStorage
<1>5. ASSUME NEW v, SetStorage(t, v) PROVE KeepsSpace(t)
  BY <1>2, <1>3, <1>5 DEF SetStorage
<1>6. CASE SpaceSizeAdd(t)
  BY <1>1, <1>5, <1>6 DEF SpaceSizeAdd
<1>7. CASE SpaceSizeDeduct(t)
  BY <1>2, <1>5, <1>7 DEF SpaceSizeDeduct
<1>8. CASE Mkdir(t)
  BY <1>0, <1>1, <1>8, MoveKeeps DEF Mkdir
<1>9. CASE DeleteGet(t)
  <2>1. CASE th' = Return(t, TRUE)
    BY <1>1, <2>1
  <2>2. ASSUME NEW i, th' = [th EXCEPT ![t].pc = "ded", ![t].id = i, ![t].todo = @ \ {i},
                                       ![t].delta = spaces[i].size,
                                       ![t].doc = [spaces[i] EXCEPT !.status = FALSE]]
        PROVE  KeepsSpace(t)
    <3> DEFINE r == [th[t] EXCEPT !.pc = "ded", !.id = i, !.todo = @ \ {i},
                                  !.delta = spaces[i].size,
                                  !.doc = [spaces[i] EXCEPT !.status = FALSE]]
    <3>1. th' = [th EXCEPT ![t] = r]
      BY <1>0, <2>2
    <3>2. r.op = th[t].op /\ r.pc = "ded"
      <4>1. th[t] \in Handler
        BY <1>0
      <4> QED BY <4>1 DEF Handler
    <3>3. th[t].op = "delete"
      BY <1>0, <1>9 DEF DeleteGet
    <3> HIDE DEF r
    <3> QED BY <1>0, <3>1, <3>2, <3>3, Replaced
  <2> QED BY <1>9, <2>1, <2>2 DEF DeleteGet
<1>10. CASE Save(t)
  <2>1. th' = AfterSave(t) \/ th' = Return(t, FALSE)
    BY <1>10 DEF Save
  <2> QED BY <1>0, <1>1, <2>1, NextSpaceKeeps DEF AfterSave
<1> QED BY <1>4, <1>6, <1>7, <1>8, <1>9, <1>10 DEF Step

-----------------------------------------------------------------------------
\* A request of the zone service leaves the space service alone.
LEMMA RequestStep == ASSUME NEW t \in Threads, ZoneRequest(t) PROVE UNCHANGED vars
<1>1. ASSUME NEW u, NEW n, NEW mem, ZoneRegister(t, u, n, mem) \/ ZoneAdd(t, u, n, mem)
      PROVE  UNCHANGED vars
  BY <1>1 DEF ZoneRegister, ZoneAdd, ZBegin
<1>2. ASSUME NEW u, NEW z, NEW op, NEW pc, NEW doc, NEW ids, OnZone(t, u, z, op, pc, doc, ids)
      PROVE  UNCHANGED vars
  BY <1>2 DEF OnZone, ZBegin
<1>3. ASSUME NEW u, NEW z, ZoneCancel(t, u, z) \/ MapAdd(t, u, z) PROVE UNCHANGED vars
  BY <1>2, <1>3 DEF ZoneCancel, MapAdd
<1>4. ASSUME NEW u, NEW z, NEW ids, MapDeduct(t, u, z, ids) PROVE UNCHANGED vars
  BY <1>2, <1>4 DEF MapDeduct
<1>5. ASSUME NEW u, NEW z, NEW mem, ZoneShare(t, u, z, mem) \/ ZoneShareCancel(t, u, z, mem)
      PROVE  UNCHANGED vars
  BY <1>2, <1>5 DEF ZoneShare, ZoneShareCancel
<1>6. ASSUME NEW u, NEW z, NEW n, ZoneRename(t, u, z, n) PROVE UNCHANGED vars
  BY <1>2, <1>6 DEF ZoneRename
<1> QED BY <1>1, <1>3, <1>4, <1>5, <1>6 DEF ZoneRequest

\* The zone handlers call the space service with spaces it may be called with.
LEMMA CallStep ==
  ASSUME ZoneTypeOK, NEW t \in Threads, CallSpace(t) \/ DirectCall(t)
  PROVE  Call(t)
<1>1. CASE CallSpace(t)
  <2>1. zt[t].ids \in SUBSET SpaceIDs
    BY DEF ZoneTypeOK, ZoneHandler
  <2> QED BY <1>1, <2>1 DEF CallSpace, Call
<1>2. CASE DirectCall(t)
  BY <1>2 DEF DirectCall, Call
<1> QED BY <1>1, <1>2

\* Every step of the composition is a step of the space service or none.
LEMMA SpaceServiceStep == ZoneTypeOK /\ [ZoneNext]_allVars => [Next]_vars
<1> SUFFICES ASSUME ZoneTypeOK, [ZoneNext]_allVars PROVE [Next]_vars
  OBVIOUS
<1>1. ASSUME NEW t \in Threads, ZoneRequest(t) PROVE UNCHANGED vars
  BY <1>1, RequestStep
<1>2. ASSUME NEW t \in Threads, CallSpace(t) \/ DirectCall(t) PROVE Next
  BY <1>2, CallStep DEF Next
<1>3. ASSUME NEW t \in Threads, CallRefused(t) \/ RenameQuery(t) \/ WriteBack(t)
      PROVE  UNCHANGED vars
  BY <1>3 DEF CallRefused, RenameQuery, WriteBack
<1>4. ASSUME NEW t \in Threads, SpaceStep(t) PROVE Next
  BY <1>4 DEF SpaceStep, Next
<1>5. ASSUME NEW t \in Threads, Returned(t) \/ DirectReply(t) PROVE Next
  BY <1>5 DEF Returned, DirectReply, Next
<1>6. CASE UNCHANGED allVars
  BY <1>6 DEF allVars
<1> QED BY <1>1, <1>2, <1>3, <1>4, <1>5, <1>6 DEF ZoneNext

-----------------------------------------------------------------------------
(***************************************************************************)
(* The invariant of the composition, action by action.                     *)
(***************************************************************************)
ZHandlersOK == zt \in [Threads -> ZoneHandler]

\* CallsMatch is about the space service's handlers and the zone handlers that
\* wait for them.
LEMMA CallsMatchKept ==
  ASSUME CallsMatch, th' = th, NEW t \in Threads, ZHandlersOK, NEW rec,
         zt' = [zt EXCEPT ![t] = rec], rec.pc # "wait"
  PROVE  CallsMatch'
BY DEF CallsMatch, ZHandlersOK

LEMMA ZoneDocs ==
  ASSUME ZoneTypeOK, NEW z \in ZoneIDs
  PROVE  /\ zones[z] \in Zone /\ zones[z].owner \in Users \cup {NoUser}
         /\ zones[z].members \subseteq Users /\ zones[z].spaces \subseteq SpaceIDs
         /\ zones[z].name \in Names \cup {NoName}
BY DEF ZoneTypeOK, Zone

\* A request sets up a proper handler.
LEMMA ZBeginOK ==
  ASSUME ZInv, NEW t \in Threads, NEW pc \in {"call", "query", "set"}, NEW op \in ZoneOps,
         NEW u \in Users, NEW z \in ZoneIDs, NEW doc \in Zone, NEW ids \in SUBSET SpaceIDs,
         ZBegin(t, pc, op, u, z, doc, ids), zdrift' \subseteq ZoneCauses, zfaults' \in Nat
  PROVE  ZInv'
<1> DEFINE rec == [pc |-> pc, op |-> op, user |-> u, zone |-> z, doc |-> doc, ids |-> ids]
<1>1. /\ zt' = [zt EXCEPT ![t] = rec] /\ th' = th /\ zones' = zones
      /\ zstale' = zstale \ {t} /\ zops' = zops + 1
  BY DEF ZBegin, Request, vars
<1>2. rec \in ZoneHandler /\ rec.pc # "wait"
  BY DEF ZoneHandler
<1> HIDE DEF rec
<1>3. ZoneTypeOK'
  BY <1>1, <1>2 DEF ZInv, ZoneTypeOK
<1>4. CallsMatch'
  BY <1>1, <1>2, CallsMatchKept DEF ZInv, ZoneTypeOK, ZHandlersOK
<1> QED BY <1>3, <1>4 DEF ZInv

LEMMA ZBlameOK ==
  ASSUME ZoneTypeOK, NEW cause \in ZoneCauses, NEW cond, ZBlame(cause, cond)
  PROVE  zdrift' \subseteq ZoneCauses
BY DEF ZBlame, ZoneTypeOK

LEMMA ZFaultOK == ZoneTypeOK /\ ZFault => zfaults' \in Nat
BY DEF ZFault, ZoneTypeOK

LEMMA NameFreeOK ==
  ASSUME ZoneTypeOK, NEW u, NEW n, NameFree(u, n)
  PROVE  zdrift' \subseteq ZoneCauses /\ zfaults' \in Nat
<1>1. CASE UNCHANGED <<zfaults, zdrift>>
  BY <1>1 DEF ZoneTypeOK
<1>2. CASE ZFault /\ ZBlame("failed call", TRUE)
  <2>1. "failed call" \in ZoneCauses
    BY DEF ZoneCauses
  <2> QED BY <1>2, <2>1, ZBlameOK, ZFaultOK
<1> QED BY <1>1, <1>2 DEF NameFree

LEMMA NewZoneRequestOK ==
  ASSUME ZInv, NEW t \in Threads, NEW u \in Users, NEW n \in Names \cup {NoName},
         NEW mem \in MemberLists, ZoneRegister(t, u, n, mem) \/ ZoneAdd(t, u, n, mem)
  PROVE  ZInv'
<1>0. /\ ZoneTypeOK /\ "register" \in ZoneOps /\ "add" \in ZoneOps
      /\ {} \in SUBSET SpaceIDs
  BY DEF ZInv, ZoneOps
<1>1. NewZone(u, n, mem) \in Zone
  BY DEF NewZone, Zone
<1>2. CASE ZoneRegister(t, u, n, mem)
  <2>1. PICK z \in FreshZones :
          NameFree(u, n) /\ ZBegin(t, "call", "register", u, z, NewZone(u, n, mem), {})
    BY <1>2 DEF ZoneRegister
  <2>2. z \in ZoneIDs
    BY DEF FreshZones
  <2> QED BY <1>0, <1>1, <2>1, <2>2, NameFreeOK, ZBeginOK
<1>3. CASE ZoneAdd(t, u, n, mem)
  <2>1. zdrift' \subseteq ZoneCauses /\ zfaults' \in Nat
    BY <1>0, <1>3 DEF ZoneAdd, ZoneTypeOK
  <2>2. PICK z \in ZoneIDs : \/ ZBegin(t, "call", "add", u, z, NewZone(u, n, mem), {})
                             \/ ZBegin(t, "call", "add", u, z, zones[z], {})
    BY <1>3 DEF ZoneAdd, FreshZones
  <2>3. zones[z] \in Zone
    BY <1>0, ZoneDocs
  <2> QED BY <1>0, <1>1, <2>1, <2>2, <2>3, ZBeginOK
<1> QED BY <1>2, <1>3

LEMMA OnZoneOK ==
  ASSUME ZInv, NEW t \in Threads, NEW u \in Users, NEW z \in ZoneIDs, NEW op \in ZoneOps,
         NEW pc \in {"call", "query", "set"}, NEW doc \in Zone, NEW ids \in SUBSET SpaceIDs,
         OnZone(t, u, z, op, pc, doc, ids)
  PROVE  ZInv'
<1>1. /\ ZBegin(t, pc, op, u, z, doc, ids)
      /\ zdrift' \subseteq ZoneCauses /\ zfaults' \in Nat
  BY DEF OnZone, ZInv, ZoneTypeOK
<1> QED BY <1>1, ZBeginOK

LEMMA ZoneRequestOK ==
  ASSUME ZInv, NEW t \in Threads, ZoneRequest(t)
  PROVE  ZInv'
<1>0. ZoneTypeOK
  BY DEF ZInv
<1>1. PICK u \in Users :
        \/ \E n \in Names \cup {NoName}, mem \in MemberLists :
             ZoneRegister(t, u, n, mem) \/ ZoneAdd(t, u, n, mem)
        \/ \E z \in ZoneIDs :
             \/ ZoneCancel(t, u, z) \/ MapAdd(t, u, z)
             \/ \E ids \in SUBSET SpaceIDs : MapDeduct(t, u, z, ids)
             \/ \E mem \in MemberLists : ZoneShare(t, u, z, mem) \/ ZoneShareCancel(t, u, z, mem)
             \/ \E n \in Names \cup {NoName} : ZoneRename(t, u, z, n)
  BY DEF ZoneRequest
<1> USE DEF ZoneOps
<1>2. ASSUME NEW z \in ZoneIDs, ZoneCancel(t, u, z) \/ MapAdd(t, u, z) PROVE ZInv'
  <2>1. zones[z] \in Zone /\ zones[z].spaces \in SUBSET SpaceIDs /\ {} \in SUBSET SpaceIDs
    BY <1>0, ZoneDocs
  <2> QED BY <1>2, <2>1, OnZoneOK DEF ZoneCancel, MapAdd
<1>3. ASSUME NEW z \in ZoneIDs, NEW ids \in SUBSET SpaceIDs, MapDeduct(t, u, z, ids) PROVE ZInv'
  <2>1. zones[z] \in Zone
    BY <1>0, ZoneDocs
  <2> QED BY <1>3, <2>1, OnZoneOK DEF MapDeduct
<1>4. ASSUME NEW z \in ZoneIDs, NEW mem \in MemberLists,
             ZoneShare(t, u, z, mem) \/ ZoneShareCancel(t, u, z, mem)
      PROVE  ZInv'
  <2>1. /\ [zones[z] EXCEPT !.members = @ \cup mem] \in Zone
        /\ [zones[z] EXCEPT !.members = @ \ mem] \in Zone
    BY <1>0, ZoneDocs DEF Zone
  <2> QED BY <1>4, <2>1, OnZoneOK DEF ZoneShare, ZoneShareCancel
<1>5. ASSUME NEW z \in ZoneIDs, NEW n \in Names \cup {NoName}, ZoneRename(t, u, z, n) PROVE ZInv'
  <2>1. [zones[z] EXCEPT !.name = n] \in Zone
    BY <1>0, ZoneDocs DEF Zone
  <2> QED BY <1>5, <2>1, OnZoneOK DEF ZoneRename
<1> QED BY <1>1, <1>2, <1>3, <1>4, <1>5, NewZoneRequestOK

-----------------------------------------------------------------------------
\* The handler is done with its request.
LEMMA DoneOK ==
  ASSUME ZInv, NEW t \in Threads, zt' = Done(t)
  PROVE  /\ zt' \in [Threads -> ZoneHandler]
         /\ th' = th => CallsMatch'
<1>1. ZoneIdle \in ZoneHandler /\ ZoneIdle.pc # "wait"
  BY DEF ZoneIdle, ZoneHandler, ZoneOps, NoDoc, Zone
<1>2. zt' = [zt EXCEPT ![t] = ZoneIdle] /\ ZHandlersOK
  BY DEF Done, ZInv, ZoneTypeOK, ZHandlersOK
<1>3. ASSUME th' = th PROVE CallsMatch'
  BY <1>1, <1>2, <1>3, CallsMatchKept DEF ZInv
<1> QED BY <1>1, <1>2, <1>3 DEF ZHandlersOK

\* The handler goes on to a database call.
LEMMA GoOnOK ==
  ASSUME ZInv, NEW t \in Threads, NEW pc \in {"set", "remove"}, zt' = [zt EXCEPT ![t].pc = pc]
  PROVE  /\ zt' \in [Threads -> ZoneHandler] /\ zt'[t].pc # "wait"
         /\ \A u \in Threads : u # t => zt'[u] = zt[u]
         /\ th' = th => CallsMatch'
<1> DEFINE rec == [zt[t] EXCEPT !.pc = pc]
<1>1. zt[t] \in ZoneHandler /\ ZHandlersOK
  BY DEF ZInv, ZoneTypeOK, ZHandlersOK
<1>2. rec \in ZoneHandler /\ rec.pc = pc
  BY <1>1 DEF ZoneHandler
<1>3. zt' = [zt EXCEPT ![t] = rec]
  BY <1>1 DEF ZHandlersOK
<1> HIDE DEF rec
<1>4. ASSUME th' = th PROVE CallsMatch'
  BY <1>1, <1>2, <1>3, <1>4, CallsMatchKept DEF ZInv
<1> QED BY <1>1, <1>2, <1>3, <1>4 DEF ZHandlersOK

LEMMA RenameQueryOK == ASSUME ZInv, NEW t \in Threads, RenameQuery(t) PROVE ZInv'
<1>0. ZoneTypeOK /\ th' = th /\ UNCHANGED <<zones, zstale, zops>>
  BY DEF RenameQuery, ZInv, vars
<1>1. CASE NameFree(zt[t].user, zt[t].doc.name) /\ zt' = [zt EXCEPT ![t].pc = "set"]
  BY <1>0, <1>1, NameFreeOK, GoOnOK DEF ZInv, ZoneTypeOK
<1>2. CASE zt' = Done(t) /\ UNCHANGED <<zfaults, zdrift>>
  BY <1>0, <1>2, DoneOK DEF ZInv, ZoneTypeOK
<1> QED BY <1>1, <1>2 DEF RenameQuery

LEMMA WriteBackOK == ASSUME ZInv, NEW t \in Threads, WriteBack(t) PROVE ZInv'
<1> DEFINE doc == IF zt[t].pc = "set" THEN zt[t].doc ELSE NoDoc
           after == [zones EXCEPT ![zt[t].zone] = doc]
<1>0. ZoneTypeOK /\ th' = th /\ zt' = Done(t) /\ zops' = zops
  BY DEF WriteBack, ZInv, vars
<1>1. zt' \in [Threads -> ZoneHandler] /\ CallsMatch'
  BY <1>0, DoneOK
<1>2. zones' \in [ZoneIDs -> Zone]
  <2>1. doc \in Zone
    BY <1>0 DEF ZoneTypeOK, ZoneHandler, NoDoc, Zone
  <2>2. zones' = zones \/ zones' = after
    BY DEF WriteBack
  <2> HIDE DEF doc
  <2> QED BY <1>0, <2>1, <2>2 DEF ZoneTypeOK
<1>3. zstale' \subseteq Threads
  <2>1. zstale' = zstale \/ zstale' = WriteZone(t)
    BY DEF WriteBack
  <2> QED BY <1>0, <2>1 DEF ZoneTypeOK, WriteZone
<1>4. zdrift' \subseteq ZoneCauses
  <2>1. ZBlame("lost update", t \in zstale) \/ ZBlame("failed call", TRUE)
    BY DEF WriteBack
  <2>2. "lost update" \in ZoneCauses /\ "failed call" \in ZoneCauses
    BY DEF ZoneCauses
  <2> QED BY <1>0, <2>1, <2>2, ZBlameOK
<1>5. zfaults' \in Nat
  BY <1>0, ZFaultOK DEF WriteBack, ZoneTypeOK
<1> QED BY <1>0, <1>1, <1>2, <1>3, <1>4, <1>5 DEF ZInv, ZoneTypeOK

\* The handler enters its call of the space service.
LEMMA CallSpaceOK == ASSUME ZInv, TypeOK, NEW t \in Threads, CallSpace(t) PROVE ZInv'
<1> DEFINE rec == [zt[t] EXCEPT !.pc = "wait"]
<1>0. /\ ZoneTypeOK /\ CallsMatch /\ UNCHANGED <<zones, zstale, zdrift, zfaults, zops>>
      /\ zt' = [zt EXCEPT ![t].pc = "wait"] /\ zt[t] \in ZoneHandler
  BY DEF ZInv, ZoneTypeOK, CallSpace
<1>1. zt' = [zt EXCEPT ![t] = rec] /\ rec \in ZoneHandler /\ rec.op = zt[t].op
  BY <1>0 DEF ZoneTypeOK, ZoneHandler
<1> HIDE DEF rec
<1>2. zt' \in [Threads -> ZoneHandler]
  BY <1>0, <1>1 DEF ZoneTypeOK
<1>3. ASSUME NEW r, Begin(t, r), r.pc = "get" => r.op = "delete",
             zt[t].op \notin {"cancel", "mapdeduct"} =>
               r.op \in {"create", "check"} /\ r.id \in SpaceIDs
      PROVE  CallsMatch'
  <2>1. th' = [th EXCEPT ![t] = r] /\ th \in [Threads -> Handler]
    BY <1>3 DEF Begin, TypeOK
  <2> QED BY <1>0, <1>1, <1>3, <2>1 DEF CallsMatch, ZoneTypeOK
<1>4. CallsMatch'
  <2>1. ASSUME NEW size \in Sizes, NEW named \in BOOLEAN, SpaceCreate(t, size, named)
        PROVE  CallsMatch'
    <3>1. PICK s \in Storages, i \in SpaceIDs :
            Begin(t, [Idle EXCEPT !.pc = "add", !.op = "create", !.id = i, !.delta = size,
                                  !.doc = [st |-> s, size |-> size, status |-> TRUE],
                                  !.named = named])
      BY <2>1 DEF SpaceCreate, GetSpaceCreatePath
    <3> QED BY <1>3, <3>1 DEF Idle
  <2>2. ASSUME NEW i \in SpaceIDs, SpaceCheck(t, i) PROVE CallsMatch'
    BY <1>3, <2>2 DEF SpaceCheck, Idle
  <2>3. ASSUME zt[t].op \in {"cancel", "mapdeduct"}, SpaceDelete(t, zt[t].ids)
        PROVE  CallsMatch'
    BY <1>3, <2>3 DEF SpaceDelete, Idle
  <2> QED BY <2>1, <2>2, <2>3 DEF CallSpace
<1> QED BY <1>0, <1>2, <1>4 DEF ZInv, ZoneTypeOK

LEMMA CallRefusedOK == ASSUME ZInv, NEW t \in Threads, CallRefused(t) PROVE ZInv'
<1>1. th' = th /\ zt' = Done(t) /\ UNCHANGED <<zones, zstale, zdrift, zfaults, zops>>
  BY DEF CallRefused, vars
<1> QED BY <1>1, DoneOK DEF ZInv, ZoneTypeOK

LEMMA SpaceStepOK == ASSUME ZInv, TypeOK, NEW t \in Threads, SpaceStep(t) PROVE ZInv'
<1>0. ZoneTypeOK /\ CallsMatch /\ Step(t) /\ UNCHANGED <<zones, zt, zstale, zfaults, zops>>
  BY DEF ZInv, SpaceStep
<1>1. KeepsSpace(t)
  BY <1>0, StepKeepsSpace
<1>2. CallsMatch'
  BY <1>0, <1>1 DEF CallsMatch, KeepsSpace
<1>3. zdrift' \subseteq ZoneCauses
  <2>1. "refused deduct" \in ZoneCauses
    BY DEF ZoneCauses
  <2> QED BY <1>0, <2>1, ZBlameOK DEF SpaceStep
<1> QED BY <1>0, <1>2, <1>3 DEF ZInv, ZoneTypeOK

\* When no zone handler waits on t, the reply of the space service is harmless.
LEMMA ReplyMatch ==
  ASSUME CallsMatch, TypeOK, NEW t \in Threads, Reply(t), zt'[t].pc # "wait",
         \A u \in Threads : u # t => zt'[u] = zt[u]
  PROVE  CallsMatch'
<1>1. th' = [th EXCEPT ![t] = Idle] /\ th \in [Threads -> Handler] /\ Idle.pc = "idle"
  BY DEF Reply, TypeOK, Idle
<1> QED BY <1>1 DEF CallsMatch

LEMMA ReturnedOK == ASSUME ZInv, TypeOK, NEW t \in Threads, Returned(t) PROVE ZInv'
<1>0. /\ ZoneTypeOK /\ CallsMatch /\ zt[t] \in ZoneHandler /\ zt \in [Threads -> ZoneHandler]
      /\ zt[t].pc = "wait" /\ Reply(t) /\ UNCHANGED <<zones, zstale, zfaults, zops>>
  BY DEF ZInv, ZoneTypeOK, Returned
<1>1. ASSUME zt' \in [Threads -> ZoneHandler], zt'[t].pc # "wait",
             \A u \in Threads : u # t => zt'[u] = zt[u], zdrift' \subseteq ZoneCauses
      PROVE  ZInv'
  BY <1>0, <1>1, ReplyMatch DEF ZInv, ZoneTypeOK
<1>2. "unnamed zone" \in ZoneCauses /\ zdrift \subseteq ZoneCauses
  BY <1>0 DEF ZoneCauses, ZoneTypeOK
<1>3. CASE zt' = Done(t) /\ (UNCHANGED zdrift \/ ZBlame("unnamed zone", TRUE))
  <2>1. zt' \in [Threads -> ZoneHandler]
    BY <1>3, DoneOK
  <2>2. zt'[t].pc # "wait" /\ \A u \in Threads : u # t => zt'[u] = zt[u]
    BY <1>0, <1>3 DEF Done, ZoneIdle
  <2>3. zdrift' \subseteq ZoneCauses
    BY <1>0, <1>2, <1>3, ZBlameOK
  <2> QED BY <1>1, <2>1, <2>2, <2>3
<1>4. CASE zt' = [zt EXCEPT ![t].pc = "remove"] /\ UNCHANGED zdrift
  BY <1>1, <1>2, <1>4, GoOnOK
<1>5. CASE zt[t].op # "cancel" /\ UNCHANGED zdrift
           /\ zt' = [zt EXCEPT ![t].pc = "set", ![t].doc = WithSpace(t)]
  <2> DEFINE rec == [zt[t] EXCEPT !.pc = "set", !.doc = WithSpace(t)]
  <2>1. WithSpace(t) \in Zone
    <3>1. zt[t].doc \in Zone
      BY <1>0 DEF ZoneHandler
    <3>2. zt[t].op # "mapdeduct" => th[t].id \in SpaceIDs
      BY <1>0, <1>5 DEF CallsMatch
    <3> QED BY <3>1, <3>2 DEF WithSpace, Zone
  <2>2. rec \in ZoneHandler /\ rec.pc = "set"
    BY <1>0, <2>1 DEF ZoneHandler
  <2>3. zt' = [zt EXCEPT ![t] = rec]
    BY <1>0, <1>5
  <2> HIDE DEF rec
  <2>4. zt' \in [Threads -> ZoneHandler]
    BY <1>0, <2>2, <2>3
  <2>5. zt'[t].pc # "wait" /\ \A u \in Threads : u # t => zt'[u] = zt[u]
    BY <1>0, <2>2, <2>3
  <2> QED BY <1>1, <1>2, <1>5, <2>4, <2>5
<1> QED BY <1>3, <1>4, <1>5 DEF Returned

LEMMA DirectOK == ASSUME ZInv, TypeOK, NEW t \in Threads, DirectCall(t) \/ DirectReply(t) PROVE ZInv'
<1>0. ZoneTypeOK /\ CallsMatch
  BY DEF ZInv
<1>1. CASE DirectReply(t)
  <2>1. Reply(t) /\ zt[t].pc = "idle" /\ UNCHANGED <<zones, zt, zstale, zdrift, zfaults, zops>>
    BY <1>1 DEF DirectReply, zoneVars
  <2> QED BY <1>0, <2>1, ReplyMatch DEF ZInv, ZoneTypeOK
<1>2. CASE DirectCall(t)
  <2>1. /\ UNCHANGED <<zones, zt, zstale, zdrift, zfaults>> /\ zops' = zops + 1
        /\ zt[t].pc = "idle" /\ th \in [Threads -> Handler]
    BY <1>2 DEF DirectCall, Request, TypeOK
  <2>2. PICK r : Begin(t, r) /\ r.pc # "get"
    <3>1. ASSUME NEW i \in SpaceIDs, SpaceRename(t, i) PROVE \E r : Begin(t, r) /\ r.pc # "get"
      <4> DEFINE r == [Idle EXCEPT !.pc = "save", !.op = "rename", !.id = i, !.doc = spaces[i]]
      <4>1. Begin(t, r)
        BY <3>1 DEF SpaceRename
      <4>2. r.pc = "save"
        BY DEF Idle
      <4> QED BY <4>1, <4>2
    <3>2. ASSUME NEW i \in SpaceIDs, NEW new \in Sizes, SpaceSizeChange(t, i, new)
          PROVE  \E r : Begin(t, r) /\ r.pc # "get"
      <4> DEFINE q == IF new > spaces[i].size THEN "add" ELSE "ded"
                 d == IF new > spaces[i].size THEN new - spaces[i].size ELSE spaces[i].size - new
                 r == [Idle EXCEPT !.pc = q, !.op = "resize", !.id = i, !.delta = d,
                                   !.doc = [spaces[i] EXCEPT !.size = new]]
      <4>1. Begin(t, r)
        BY <3>2 DEF SpaceSizeChange
      <4>2. r.pc = q /\ q # "get"
        BY DEF Idle
      <4> QED BY <4>1, <4>2
    <3> QED BY <1>2, <3>1, <3>2 DEF DirectCall
  <2>3. CallsMatch'
    BY <1>0, <2>1, <2>2 DEF CallsMatch, Begin
  <2> QED BY <1>0, <2>1, <2>3 DEF ZInv, ZoneTypeOK
<1> QED BY <1>1, <1>2

-----------------------------------------------------------------------------
LEMMA ZInit == ZoneInit => ZInv
<1> SUFFICES ASSUME ZoneInit PROVE ZInv
  OBVIOUS
<1>1. ZoneIdle \in ZoneHandler /\ ZoneIdle.pc = "idle" /\ Idle.pc = "idle" /\ NoDoc \in Zone
  BY DEF ZoneIdle, ZoneHandler, ZoneOps, NoDoc, Zone, Idle
<1> QED BY <1>1 DEF ZoneInit, Init, ZInv, ZoneTypeOK, CallsMatch

LEMMA ZStep == ZInv /\ TypeOK /\ [ZoneNext]_allVars => ZInv'
<1> SUFFICES ASSUME ZInv, TypeOK, [ZoneNext]_allVars PROVE ZInv'
  OBVIOUS
<1>1. ASSUME NEW t \in Threads,
             \/ ZoneRequest(t) \/ CallSpace(t) \/ CallRefused(t) \/ SpaceStep(t) \/ Returned(t)
             \/ RenameQuery(t) \/ WriteBack(t) \/ DirectCall(t) \/ DirectReply(t)
      PROVE  ZInv'
  BY <1>1, ZoneRequestOK, CallSpaceOK, CallRefusedOK, SpaceStepOK, ReturnedOK, RenameQueryOK,
     WriteBackOK, DirectOK
<1>2. CASE UNCHANGED allVars
  BY <1>2 DEF allVars, zoneVars, vars, ZInv, ZoneTypeOK, CallsMatch
<1> QED BY <1>1, <1>2 DEF ZoneNext

\* The inductive invariant of the composition: that of the space service, and
\* ZInv.  Neither is inductive alone: the zone handlers pass on what the space
\* service returns, and the space service is called with what they pass.
THEOREM ZoneInductive == ZoneSpec => [](IInv /\ ZInv)
<1>1. ZoneInit => IInv /\ ZInv
  BY InitIInv, ZInit DEF ZoneInit
<1>2. IInv /\ ZInv /\ [ZoneNext]_allVars => (IInv /\ ZInv)'
  <2>1. ZInv => ZoneTypeOK
    BY DEF ZInv
  <2>2. IInv => TypeOK
    BY DEF IInv
  <2> QED BY <2>1, <2>2, SpaceServiceStep, StepIInv, ZStep
<1> QED BY <1>1, <1>2, PTL DEF ZoneSpec

\* The documents of the zones and the locals of the handlers keep their type;
\* in particular the spaces of a zone are spaces, whatever MapAdd, ZoneAdd,
\* MapDeduct and ZoneCancel do at the same time.
THEOREM ZoneTypeCorrect == ZoneSpec => []ZoneTypeOK
BY ZoneInductive, PTL DEF ZInv

\* The composition implements the space service: ZoneServer.cc calls
\* SpaceServer.cc only as SpaceServer allows.
THEOREM ZoneUsesSpaceServer == ZoneSpec => UsesSpaceServer
<1>1. ZoneInit => Init
  BY DEF ZoneInit
<1>2. ZInv /\ [ZoneNext]_allVars => [Next]_vars
  BY SpaceServiceStep DEF ZInv
<1> QED BY <1>1, <1>2, ZoneInductive, PTL DEF ZoneSpec, UsesSpaceServer, Spec

\* Hence SpaceCreate, SpaceDelete and SpaceSizeChange, called by the zone
\* handlers and directly, keep assign_capacity within the resource.
THEOREM ZonesNeverOverAssign == ZoneSpec => []AssignedWithinTotal
BY ZoneUsesSpaceServer, NeverOverAssigned, PTL DEF UsesSpaceServer

-----------------------------------------------------------------------------
(***************************************************************************)
(* Members.  A handler that is not stale and does not share holds the      *)
(* members that its zone has, if the zone exists: it has read them, nobody *)
(* has written the zone since (WriteZone would have made it stale), and on *)
(* the way to the write it changes only the name or the spaces.            *)
(***************************************************************************)
Sharing == {"share", "sharecancel"}
Agrees(t, z) ==
  t \notin zstale /\ zt[t].op \notin Sharing /\ Exists(z) =>
    zt[t].doc.members = zones[z].members
HoldsMembers(t) == zt[t].pc # "idle" => zt[t].zone \in ZoneIDs /\ Agrees(t, zt[t].zone)
MembersHeld == \A t \in Threads : HoldsMembers(t)

\* What a step may do to a handler that goes on: keep its zone, its operation
\* and its members.
LEMMA GoesOnHolding ==
  ASSUME MembersHeld, zones' = zones, zstale' = zstale,
         \A t \in Threads : zt'[t].pc # "idle" =>
           /\ zt[t].pc # "idle" /\ zt'[t].zone = zt[t].zone /\ zt'[t].op = zt[t].op
           /\ zt'[t].doc.members = zt[t].doc.members
  PROVE  MembersHeld'
BY DEF MembersHeld, HoldsMembers, Agrees, Exists

\* A request reads the members it holds.
LEMMA BeginHolding ==
  ASSUME MembersHeld, ZHandlersOK, NEW t \in Threads, NEW pc, NEW op, NEW u, NEW z \in ZoneIDs,
         NEW doc, NEW ids, ZBegin(t, pc, op, u, z, doc, ids),
         op \notin Sharing /\ Exists(z) => doc.members = zones[z].members
  PROVE  MembersHeld'
<1>1. /\ zt' = [zt EXCEPT ![t] = [pc |-> pc, op |-> op, user |-> u, zone |-> z, doc |-> doc,
                                  ids |-> ids]]
      /\ zones' = zones /\ zstale' = zstale \ {t}
  BY DEF ZBegin
<1>2. /\ zt'[t].zone = z /\ zt'[t].op = op /\ zt'[t].doc = doc
      /\ \A v \in Threads : v # t => zt'[v] = zt[v]
  BY <1>1 DEF ZHandlersOK
<1>3. HoldsMembers(t)'
  BY <1>1, <1>2 DEF HoldsMembers, Agrees, Exists
<1>4. ASSUME NEW v \in Threads, v # t PROVE HoldsMembers(v)'
  BY <1>1, <1>2, <1>4 DEF MembersHeld, HoldsMembers, Agrees, Exists
<1> QED BY <1>3, <1>4 DEF MembersHeld

LEMMA RequestHolding ==
  ASSUME MembersHeld, ZoneTypeOK, NEW t \in Threads, ZoneRequest(t)
  PROVE  MembersHeld'
<1>0. ZHandlersOK
  BY DEF ZoneTypeOK, ZHandlersOK
<1>1. ASSUME NEW u, NEW n, NEW mem, ZoneRegister(t, u, n, mem) \/ ZoneAdd(t, u, n, mem)
      PROVE  MembersHeld'
  <2>1. PICK z \in ZoneIDs, op \in {"register", "add"} :
          \/ ~Exists(z) /\ ZBegin(t, "call", op, u, z, NewZone(u, n, mem), {})
          \/ ZBegin(t, "call", op, u, z, zones[z], {})
    BY <1>1 DEF ZoneRegister, ZoneAdd, FreshZones
  <2> QED BY <1>0, <2>1, BeginHolding
<1>2. ASSUME NEW u, NEW z \in ZoneIDs, NEW op, NEW pc, NEW doc, NEW ids,
             OnZone(t, u, z, op, pc, doc, ids), op \notin Sharing => doc.members = zones[z].members
      PROVE  MembersHeld'
  BY <1>0, <1>2, BeginHolding DEF OnZone
<1>3. ASSUME NEW u, NEW z \in ZoneIDs, ZoneCancel(t, u, z) \/ MapAdd(t, u, z) PROVE MembersHeld'
  BY <1>2, <1>3 DEF ZoneCancel, MapAdd
<1>4. ASSUME NEW u, NEW z \in ZoneIDs, NEW ids, MapDeduct(t, u, z, ids) PROVE MembersHeld'
  BY <1>2, <1>4 DEF MapDeduct
<1>5. ASSUME NEW u, NEW z \in ZoneIDs, NEW mem,
             ZoneShare(t, u, z, mem) \/ ZoneShareCancel(t, u, z, mem)
      PROVE  MembersHeld'
  <2>1. "share" \in Sharing /\ "sharecancel" \in Sharing
    BY DEF Sharing
  <2> QED BY <1>2, <1>5, <2>1 DEF ZoneShare, ZoneShareCancel
<1>6. ASSUME NEW u, NEW z \in ZoneIDs, NEW n, ZoneRename(t, u, z, n) PROVE MembersHeld'
  <2> DEFINE doc == [zones[z] EXCEPT !.name = n]
  <2>1. doc.members = zones[z].members
    BY ZoneDocs DEF Zone
  <2>2. OnZone(t, u, z, "rename", "query", doc, {})
    BY <1>6 DEF ZoneRename
  <2> HIDE DEF doc
  <2> QED BY <1>2, <2>1, <2>2
<1> QED BY <1>1, <1>3, <1>4, <1>5, <1>6 DEF ZoneRequest

\* A handler that moves to its next call, or is done.
LEMMA MoveHolding ==
  ASSUME MembersHeld, ZHandlersOK, NEW t \in Threads, zones' = zones, zstale' = zstale,
         zt[t].pc # "idle", \/ zt' = Done(t)
                            \/ \E pc : zt' = [zt EXCEPT ![t].pc = pc]
                            \/ zt' = [zt EXCEPT ![t].pc = "set", ![t].doc = WithSpace(t)]
  PROVE  MembersHeld'
<1>0. zt[t] \in ZoneHandler /\ zt[t].doc \in Zone
  BY DEF ZHandlersOK, ZoneHandler
<1>1. ASSUME NEW rec, zt' = [zt EXCEPT ![t] = rec],
             rec.pc # "idle" => /\ rec.zone = zt[t].zone /\ rec.op = zt[t].op
                                /\ rec.doc.members = zt[t].doc.members
      PROVE  MembersHeld'
  <2>1. zt'[t] = rec /\ \A u \in Threads : u # t => zt'[u] = zt[u]
    BY <1>1 DEF ZHandlersOK
  <2> QED BY <1>1, <2>1, GoesOnHolding
<1>2. CASE zt' = Done(t)
  BY <1>1, <1>2 DEF Done, ZoneIdle
<1>3. ASSUME NEW pc, zt' = [zt EXCEPT ![t].pc = pc] PROVE MembersHeld'
  <2> DEFINE rec == [zt[t] EXCEPT !.pc = pc]
  <2>1. zt' = [zt EXCEPT ![t] = rec]
    BY <1>3 DEF ZHandlersOK
  <2>2. rec.zone = zt[t].zone /\ rec.op = zt[t].op /\ rec.doc = zt[t].doc
    BY <1>0 DEF ZoneHandler
  <2> HIDE DEF rec
  <2> QED BY <1>1, <2>1, <2>2
<1>4. CASE zt' = [zt EXCEPT ![t].pc = "set", ![t].doc = WithSpace(t)]
  <2> DEFINE rec == [zt[t] EXCEPT !.pc = "set", !.doc = WithSpace(t)]
  <2>1. zt' = [zt EXCEPT ![t] = rec]
    BY <1>4 DEF ZHandlersOK
  <2>2. rec.zone = zt[t].zone /\ rec.op = zt[t].op /\ rec.doc = WithSpace(t)
    BY <1>0 DEF ZoneHandler
  <2>3. WithSpace(t).members = zt[t].doc.members
    BY <1>0 DEF WithSpace, Zone
  <2> HIDE DEF rec
  <2> QED BY <1>1, <2>1, <2>2, <2>3
<1> QED BY <1>2, <1>3, <1>4

\* What WriteBack does to the zones.
LEMMA WriteBackEffect ==
  ASSUME ZoneTypeOK, MembersHeld, NEW t \in Threads, WriteBack(t)
  PROVE  /\ zt' = Done(t) /\ zt[t].zone \in ZoneIDs
         /\ \/ zones' = zones /\ zstale' = zstale
            \/ /\ zstale' = WriteZone(t)
               /\ \A z \in ZoneIDs : z # zt[t].zone => zones'[z] = zones[z]
               /\ zones'[zt[t].zone] = IF zt[t].pc = "set" THEN zt[t].doc ELSE NoDoc
               /\ zdrift' = {} => t \notin zstale
<1> DEFINE doc == IF zt[t].pc = "set" THEN zt[t].doc ELSE NoDoc
           after == [zones EXCEPT ![zt[t].zone] = doc]
<1>1. zt' = Done(t) /\ zt[t].zone \in ZoneIDs /\ zones \in [ZoneIDs -> Zone]
  BY DEF WriteBack, MembersHeld, HoldsMembers, ZoneTypeOK
<1>2. \/ zones' = zones /\ zstale' = zstale
      \/ zones' = after /\ zstale' = WriteZone(t) /\ ZBlame("lost update", t \in zstale)
      \/ zones' = after /\ zstale' = WriteZone(t) /\ ZBlame("failed call", TRUE)
  BY DEF WriteBack
<1>3. ASSUME ZBlame("lost update", t \in zstale) \/ ZBlame("failed call", TRUE), zdrift' = {}
      PROVE  t \notin zstale
  BY <1>3 DEF ZBlame
<1> HIDE DEF doc
<1>4. /\ \A z \in ZoneIDs : z # zt[t].zone => after[z] = zones[z]
      /\ after[zt[t].zone] = doc
  BY <1>1
<1> HIDE DEF after
<1> QED BY <1>1, <1>2, <1>3, <1>4 DEF doc

LEMMA WriteBackHolding ==
  ASSUME MembersHeld, ZoneTypeOK, NEW t \in Threads, WriteBack(t)
  PROVE  MembersHeld'
<1>0. ZHandlersOK /\ zt' = [zt EXCEPT ![t] = ZoneIdle]
  BY WriteBackEffect DEF ZoneTypeOK, ZHandlersOK, Done
<1>1. zt'[t].pc = "idle" /\ \A u \in Threads : u # t => zt'[u] = zt[u]
  BY <1>0 DEF ZHandlersOK, ZoneIdle
<1>2. CASE zones' = zones /\ zstale' = zstale
  BY <1>1, <1>2, GoesOnHolding
<1>3. CASE /\ zstale' = WriteZone(t)
           /\ \A z \in ZoneIDs : z # zt[t].zone => zones'[z] = zones[z]
  <2>1. SUFFICES ASSUME NEW u \in Threads, zt'[u].pc # "idle" PROVE HoldsMembers(u)'
    BY DEF MembersHeld, HoldsMembers
  <2>2. u # t /\ zt'[u] = zt[u] /\ HoldsMembers(u)
    BY <1>1, <2>1 DEF MembersHeld
  <2>3. zt[u].zone \in ZoneIDs /\ Agrees(u, zt[u].zone)
    BY <2>1, <2>2 DEF HoldsMembers
  <2>4. CASE zt[u].zone = zt[t].zone
    <3>1. u \in zstale'
      BY <1>3, <2>2, <2>4 DEF WriteZone
    <3> QED BY <2>2, <2>3, <3>1 DEF HoldsMembers, Agrees
  <2>5. CASE zt[u].zone # zt[t].zone
    <3>1. zones'[zt[u].zone] = zones[zt[u].zone]
      BY <1>3, <2>3, <2>5
    <3>2. u \notin zstale' => u \notin zstale
      BY <1>3, <2>2 DEF WriteZone
    <3> QED BY <2>2, <2>3, <3>1, <3>2 DEF HoldsMembers, Agrees, Exists
  <2> QED BY <2>4, <2>5
<1> QED BY <1>2, <1>3, WriteBackEffect

LEMMA StepMembersHeld == MembersHeld /\ ZoneTypeOK /\ [ZoneNext]_allVars => MembersHeld'
<1> SUFFICES ASSUME MembersHeld, ZoneTypeOK, [ZoneNext]_allVars PROVE MembersHeld'
  OBVIOUS
<1>0. ZHandlersOK
  BY DEF ZoneTypeOK, ZHandlersOK
<1>1. ASSUME NEW t \in Threads, CallSpace(t) \/ CallRefused(t) \/ Returned(t) \/ RenameQuery(t)
      PROVE  MembersHeld'
  <2>1. zt[t].pc # "idle" /\ zones' = zones /\ zstale' = zstale
    BY <1>1 DEF CallSpace, CallRefused, Returned, RenameQuery
  <2>2. \/ zt' = Done(t)
        \/ \E pc : zt' = [zt EXCEPT ![t].pc = pc]
        \/ zt' = [zt EXCEPT ![t].pc = "set", ![t].doc = WithSpace(t)]
    BY <1>1 DEF CallSpace, CallRefused, Returned, RenameQuery
  <2> QED BY <1>0, <2>1, <2>2, MoveHolding
<1>2. ASSUME NEW t \in Threads, SpaceStep(t) \/ DirectCall(t) \/ DirectReply(t) PROVE MembersHeld'
  <2>1. UNCHANGED <<zones, zt, zstale>>
    BY <1>2 DEF SpaceStep, DirectCall, DirectReply, zoneVars
  <2> QED BY <2>1, GoesOnHolding
<1>3. CASE UNCHANGED allVars
  BY <1>3, GoesOnHolding DEF allVars, zoneVars
<1> QED BY <1>1, <1>2, <1>3, RequestHolding, WriteBackHolding DEF ZoneNext

LEMMA InitMembersHeld == ZoneInit => MembersHeld
BY DEF ZoneInit, ZoneIdle, MembersHeld, HoldsMembers

\* The members of zone z change as MembersOnlyByShare allows.
ShareStep(z) ==
  Exists(z) /\ Exists(z)' /\ zones'[z].members # zones[z].members /\ zdrift' = {} =>
    \E t \in Threads : zt[t].zone = z /\ zt[t].op \in {"share", "sharecancel"}
                                      /\ zt'[t].pc = "idle"

\* Only WriteBack changes zones; if it is not blamed, it writes the members
\* that the zone has, or it completes a share.
LEMMA StepShare ==
  ASSUME MembersHeld, ZoneTypeOK, ZoneNext, NEW z \in ZoneIDs
  PROVE  ShareStep(z)
<1>1. ASSUME NEW t \in Threads, WriteBack(t), Exists(z), Exists(z)',
             zones'[z].members # zones[z].members, zdrift' = {}
      PROVE  zt[t].zone = z /\ zt[t].op \in Sharing /\ zt'[t].pc = "idle"
  <2>1. zt'[t].pc = "idle"
    BY <1>1 DEF WriteBack, Done, ZoneIdle, ZoneTypeOK
  <2>2. /\ zt[t].zone = z /\ t \notin zstale
        /\ zones'[z] = IF zt[t].pc = "set" THEN zt[t].doc ELSE NoDoc
    BY <1>1, WriteBackEffect
  <2>3. zones'[z] = zt[t].doc
    BY <1>1, <2>2 DEF Exists
  <2>4. Agrees(t, z)
    BY <1>1, <2>2 DEF WriteBack, MembersHeld, HoldsMembers
  <2> QED BY <1>1, <2>1, <2>2, <2>3, <2>4 DEF Agrees
<1>2. ASSUME NEW t \in Threads, ~WriteBack(t),
             \/ ZoneRequest(t) \/ CallSpace(t) \/ CallRefused(t) \/ SpaceStep(t) \/ Returned(t)
             \/ RenameQuery(t) \/ DirectCall(t) \/ DirectReply(t)
      PROVE  zones' = zones
  <2>1. CASE ZoneRequest(t)
    <3>1. ASSUME NEW u, NEW n, NEW mem, ZoneRegister(t, u, n, mem) \/ ZoneAdd(t, u, n, mem)
          PROVE  zones' = zones
      BY <3>1 DEF ZoneRegister, ZoneAdd, ZBegin
    <3>2. ASSUME NEW u, NEW y, NEW op, NEW pc, NEW doc, NEW ids, OnZone(t, u, y, op, pc, doc, ids)
          PROVE  zones' = zones
      BY <3>2 DEF OnZone, ZBegin
    <3> QED BY <2>1, <3>1, <3>2
            DEF ZoneRequest, ZoneCancel, MapAdd, MapDeduct, ZoneShare, ZoneShareCancel, ZoneRename
  <2>2. CASE ~ZoneRequest(t)
    BY <1>2, <2>2 DEF CallSpace, CallRefused, SpaceStep, Returned, RenameQuery, DirectCall,
                      DirectReply, zoneVars
  <2> QED BY <2>1, <2>2
<1>3. CASE \E t \in Threads : WriteBack(t)
  BY <1>1, <1>3 DEF ShareStep, Sharing
<1>4. CASE zones' = zones
  BY <1>4 DEF ShareStep
<1> QED BY <1>2, <1>3, <1>4 DEF ZoneNext

\* Access to a zone changes only by a share or a share-cancel while no update
\* of a zone document is lost and no call fails: ZoneRename, MapAdd, MapDeduct,
\* ZoneAdd and the rest write back the members they have read, and what they
\* have read is what the zone has.
THEOREM SharesAloneChangeMembers == ZoneSpec => MembersOnlyByShare
<1>1. MembersHeld /\ ZoneTypeOK /\ [ZoneNext]_allVars => [\A z \in ZoneIDs : ShareStep(z)]_allVars
  BY StepShare
<1>2. MembersHeld /\ ZoneTypeOK /\ [ZoneNext]_allVars
        => [\A z \in ZoneIDs :
              Exists(z) /\ Exists(z)' /\ zones'[z].members # zones[z].members /\ zdrift' = {} =>
                \E t \in Threads : zt[t].zone = z /\ zt[t].op \in {"share", "sharecancel"}
                                                  /\ zt'[t].pc = "idle"]_allVars
  BY <1>1 DEF ShareStep
<1>3. ZoneSpec => []MembersHeld
  BY InitMembersHeld, StepMembersHeld, ZoneTypeCorrect, PTL DEF ZoneSpec
<1> QED BY <1>2, <1>3, ZoneTypeCorrect, PTL DEF ZoneSpec, MembersOnlyByShare

-----------------------------------------------------------------------------
(***************************************************************************)
(* Spaces and zones.  What a step inside the space service does to the     *)
(* handler that takes it, to the space documents and to what is known to   *)
(* be stale.                                                               *)
(***************************************************************************)
SpaceStale(u) == stale[u].space
Blamed(cause) == cause \in drift'
OthersStay(t) == \A u \in Threads : u # t => th'[u] = th[u]
KeepsTask(t) == th'[t].op = th[t].op /\ th'[t].id = th[t].id /\ th'[t].todo = th[t].todo
KeepsDocs == spaces' = spaces /\ \A u \in Threads : SpaceStale(u)' <=> SpaceStale(u)
WritesDoc(t) ==
  /\ spaces' = [spaces EXCEPT ![th[t].id] = th[t].doc]
  /\ \A u \in Threads : SpaceStale(u)' <=> (SpaceStale(u) \/ (u # t /\ th[u].id = th[t].id))

\* It goes on, or gives up, with the space it is at.
Works(t) == /\ th[t].pc \in BusyPcs \ {"save"} /\ th'[t].pc \in BusyPcs /\ KeepsTask(t) /\ KeepsDocs
            /\ th'[t].doc = th[t].doc
            /\ th[t].op = "delete" /\ th[t].pc \in {"ded", "dedset"} =>
                 th'[t].pc \in {"dedset", "save"}
GivesUp(t) == /\ th[t].pc \in BusyPcs /\ th'[t].pc = "ret" /\ ~th'[t].ok /\ KeepsTask(t)
              /\ KeepsDocs /\ (th[t].op = "delete" => th[t].pc \in {"add", "addset", "mkdir"})
\* SpaceDelete skips a space, goes to the next one, or ends.
Skips(t) == /\ th[t].op = "delete" /\ th[t].pc \in {"add", "ded", "dedset", "addset"}
            /\ th'[t].pc = "get" /\ th'[t].op = "delete" /\ th'[t].id = NoSpace
            /\ th'[t].todo = th[t].todo /\ KeepsDocs
            /\ Blamed("failed call") \/ (th[t].pc = "dedset" /\ ~Covers(t))
Picks(t) == \E i \in th[t].todo :
  /\ th[t].pc = "get" /\ spaces[i] # Absent
  /\ th'[t].pc = "ded" /\ th'[t].op = th[t].op /\ th'[t].id = i /\ th'[t].todo = th[t].todo \ {i}
  /\ ~th'[t].doc.status /\ spaces' = spaces
  /\ \A u \in Threads : SpaceStale(u)' <=> (u # t /\ SpaceStale(u))
Ends(t) == /\ th[t].pc = "get" /\ th'[t].pc = "ret" /\ th'[t].ok /\ KeepsTask(t) /\ KeepsDocs
           /\ th[t].todo = {} \/ (\E i \in th[t].todo : spaces[i] = Absent) \/ Blamed("failed call")
\* The space document is written, or the call fails with or without effect.
Saves(t) == /\ th[t].pc = "save" /\ WritesDoc(t) /\ th'[t].op = th[t].op
            /\ SpaceStale(t) => Blamed("lost update")
            /\ IF th[t].op = "delete"
               THEN th'[t].pc = "get" /\ th'[t].id = NoSpace /\ th'[t].todo = th[t].todo
               ELSE th'[t].pc = "ret" /\ th'[t].ok /\ KeepsTask(t)
SaveFails(t) == /\ th[t].pc = "save" /\ th'[t].pc = "ret" /\ ~th'[t].ok /\ KeepsTask(t)
                /\ KeepsDocs \/ WritesDoc(t)
                /\ Blamed("failed call")

StepEffect(t) ==
  /\ OthersStay(t) /\ drift \subseteq drift'
  /\ \/ Works(t) \/ GivesUp(t) \/ Skips(t) \/ Picks(t) \/ Ends(t) \/ Saves(t) \/ SaveFails(t)

LEMMA BlameGrows ==
  ASSUME NEW cause, NEW cond, Blame(cause, cond)
  PROVE  drift \subseteq drift' /\ (cond => Blamed(cause))
BY DEF Blame, Blamed

\* One handler goes on with record r.
LEMMA ThreadStep ==
  ASSUME IInv, NEW t \in Threads, NEW r, th' = [th EXCEPT ![t] = r]
  PROVE  th'[t] = r /\ OthersStay(t)
BY DEF OthersStay, IInv, TypeOK

LEMMA ReturnEffect ==
  ASSUME IInv, NEW t \in Threads, NEW ok \in BOOLEAN, th' = Return(t, ok)
  PROVE  OthersStay(t) /\ th'[t].pc = "ret" /\ th'[t].ok = ok /\ KeepsTask(t)
<1> DEFINE r == [th[t] EXCEPT !.pc = "ret", !.ok = ok]
<1>1. th' = [th EXCEPT ![t] = r]
  BY DEF Return
<1>2. r.pc = "ret" /\ r.ok = ok /\ r.op = th[t].op /\ r.id = th[t].id /\ r.todo = th[t].todo
  BY DEF IInv, TypeOK, Handler
<1> HIDE DEF r
<1> QED BY <1>1, <1>2, ThreadStep DEF KeepsTask

LEMMA NextEffect ==
  ASSUME IInv, NEW t \in Threads, th' = [th EXCEPT ![t].pc = "get", ![t].id = NoSpace]
  PROVE  /\ OthersStay(t) /\ th'[t].pc = "get" /\ th'[t].id = NoSpace
         /\ th'[t].op = th[t].op /\ th'[t].todo = th[t].todo
<1> DEFINE r == [th[t] EXCEPT !.pc = "get", !.id = NoSpace]
<1>1. th' = [th EXCEPT ![t] = r]
  OBVIOUS
<1>2. r.pc = "get" /\ r.id = NoSpace /\ r.op = th[t].op /\ r.todo = th[t].todo
  BY DEF IInv, TypeOK, Handler
<1> HIDE DEF r
<1> QED BY <1>1, <1>2, ThreadStep

LEMMA MoveEffect ==
  ASSUME IInv, NEW t \in Threads, NEW pc, th' = [th EXCEPT ![t].pc = pc]
  PROVE  OthersStay(t) /\ th'[t].pc = pc /\ KeepsTask(t) /\ th'[t].doc = th[t].doc
<1> DEFINE r == [th[t] EXCEPT !.pc = pc]
<1>1. th' = [th EXCEPT ![t] = r]
  OBVIOUS
<1>2. r.pc = pc /\ r.op = th[t].op /\ r.id = th[t].id /\ r.todo = th[t].todo /\ r.doc = th[t].doc
  BY DEF IInv, TypeOK, Handler
<1> HIDE DEF r
<1> QED BY <1>1, <1>2, ThreadStep DEF KeepsTask

\* Reading or writing a storage document leaves the marks of space documents.
LEMMA StorEffect ==
  ASSUME IInv, NEW t \in Threads,
         stale' = ReadStor(t) \/ stale' = WriteStor(t) \/ stale' = stale
  PROVE  \A u \in Threads : SpaceStale(u)' <=> SpaceStale(u)
<1>1. stale \in [Threads -> [stor : BOOLEAN, space : BOOLEAN]]
  BY DEF IInv, TypeOK
<1>2. CASE stale' = ReadStor(t)
  BY <1>1, <1>2 DEF ReadStor, SpaceStale
<1>3. CASE stale' = WriteStor(t)
  BY <1>1, <1>3 DEF WriteStor, SpaceStale
<1> QED BY <1>2, <1>3 DEF SpaceStale

LEMMA SpaceWriteEffect ==
  ASSUME IInv, NEW t \in Threads, stale' = WriteSpace(t),
         spaces' = [spaces EXCEPT ![th[t].id] = th[t].doc]
  PROVE  WritesDoc(t)
<1>1. stale \in [Threads -> [stor : BOOLEAN, space : BOOLEAN]]
  BY DEF IInv, TypeOK
<1>2. ASSUME NEW u \in Threads
      PROVE  SpaceStale(u)' <=> (SpaceStale(u) \/ (u # t /\ th[u].id = th[t].id))
  <2>1. stale'[u] = IF u # t /\ th[u].id = th[t].id THEN [stale[u] EXCEPT !.space = TRUE] ELSE stale[u]
    BY DEF WriteSpace
  <2>2. stale[u] \in [stor : BOOLEAN, space : BOOLEAN]
    BY <1>1
  <2> QED BY <2>1, <2>2 DEF SpaceStale
<1> QED BY <1>2 DEF WritesDoc

LEMMA StepHasEffect == ASSUME IInv, NEW t \in Threads, Step(t) PROVE StepEffect(t)
<1> USE DEF BusyPcs
<1>0. th \in [Threads -> Handler] /\ th[t] \in Handler
  BY DEF IInv, TypeOK
<1>1. ASSUME th[t].pc \in {"add", "addset", "ded", "dedset"}, KeepsDocs, drift \subseteq drift',
             th' = CapacityFailed(t),
             th[t].op = "delete" => Blamed("failed call") \/ (th[t].pc = "dedset" /\ ~Covers(t))
      PROVE  StepEffect(t)
  <2>1. CASE th[t].op = "delete"
    <3>1. th' = [th EXCEPT ![t].pc = "get", ![t].id = NoSpace]
      BY <1>1, <2>1 DEF CapacityFailed
    <3> QED BY <1>1, <2>1, <3>1, NextEffect DEF StepEffect, Skips
  <2>2. CASE th[t].op # "delete"
    <3>1. th' = Return(t, FALSE)
      BY <1>1, <2>2 DEF CapacityFailed
    <3> QED BY <1>1, <2>2, <3>1, ReturnEffect DEF StepEffect, GivesUp
  <2> QED BY <2>1, <2>2
<1>2. CASE GetStorage(t)
  <2>0. spaces' = spaces /\ th[t].pc \in {"add", "ded"}
    BY <1>2 DEF GetStorage
  <2>1. CASE /\ th' = [th EXCEPT ![t].pc = IF th[t].pc = "add" THEN "addset" ELSE "dedset",
                                 ![t].snap = assign[th[t].doc.st]]
             /\ stale' = ReadStor(t) /\ drift' = drift
    <3> DEFINE q == IF th[t].pc = "add" THEN "addset" ELSE "dedset"
               r == [th[t] EXCEPT !.pc = q, !.snap = assign[th[t].doc.st]]
    <3>1. th' = [th EXCEPT ![t] = r]
      BY <1>0, <2>1
    <3>2. /\ r.op = th[t].op /\ r.id = th[t].id /\ r.todo = th[t].todo /\ r.doc = th[t].doc
          /\ r.pc = q
      BY <1>0 DEF Handler
    <3> HIDE DEF r
    <3>3. KeepsDocs
      BY <2>0, <2>1, StorEffect DEF KeepsDocs
    <3> QED BY <2>0, <2>1, <3>1, <3>2, <3>3, ThreadStep DEF StepEffect, Works, KeepsTask
  <2>2. CASE th' = CapacityFailed(t) /\ Blame("failed call", th[t].op = "delete") /\ stale' = stale
    <3>1. KeepsDocs
      BY <2>0, <2>2, StorEffect DEF KeepsDocs
    <3> QED BY <1>1, <2>0, <2>2, <3>1, BlameGrows
  <2> QED BY <1>2, <2>1, <2>2 DEF GetStorage
<1>3. ASSUME NEW v, SetStorage(t, v), spaces' = spaces, th[t].pc \in {"addset", "dedset"}
      PROVE  StepEffect(t)
  <2>1. KeepsDocs
    BY <1>3, StorEffect DEF SetStorage, KeepsDocs
  <2>2. CASE th' = AfterCapacity(t) /\ Blame("lost update", stale[t].stor)
    <3> DEFINE q == IF th[t].op = "create" THEN "mkdir" ELSE "save"
    <3>1. th' = [th EXCEPT ![t].pc = q]
      BY <2>2 DEF AfterCapacity
    <3>2. q \in {"mkdir", "save"} /\ (th[t].op = "delete" => q = "save")
      OBVIOUS
    <3>3. drift \subseteq drift'
      BY <2>2, BlameGrows
    <3> HIDE DEF q
    <3>4. OthersStay(t) /\ th'[t].pc = q /\ KeepsTask(t) /\ th'[t].doc = th[t].doc
      BY <3>1, MoveEffect
    <3> QED BY <1>3, <2>1, <3>2, <3>3, <3>4 DEF StepEffect, Works
  <2>3. CASE th' = CapacityFailed(t) /\ Blame("failed call", TRUE)
    BY <1>1, <1>3, <2>1, <2>3, BlameGrows
  <2> QED BY <1>3, <2>2, <2>3 DEF SetStorage
<1>4. CASE SpaceSizeAdd(t)
  <2>1. CASE th' = Return(t, FALSE) /\ UNCHANGED <<stale, drift, spaces>>
    <3>1. KeepsDocs
      BY <2>1, StorEffect DEF KeepsDocs
    <3> QED BY <1>4, <2>1, <3>1, ReturnEffect DEF SpaceSizeAdd, StepEffect, GivesUp
  <2> QED BY <1>3, <1>4, <2>1 DEF SpaceSizeAdd
<1>5. CASE SpaceSizeDeduct(t)
  <2>1. CASE ~Covers(t) /\ th' = CapacityFailed(t) /\ UNCHANGED <<stale, drift, spaces>>
    <3>1. KeepsDocs
      BY <2>1, StorEffect DEF KeepsDocs
    <3> QED BY <1>1, <1>5, <2>1, <3>1 DEF SpaceSizeDeduct
  <2> QED BY <1>3, <1>5, <2>1 DEF SpaceSizeDeduct
<1>6. CASE Mkdir(t)
  <2>1. KeepsDocs /\ th[t].pc = "mkdir" /\ drift \subseteq drift'
    <3>1. th[t].pc = "mkdir" /\ spaces' = spaces /\ stale' = stale
      BY <1>6 DEF Mkdir
    <3>2. drift' = drift \/ \E cause, cond : Blame(cause, cond)
      BY <1>6 DEF Mkdir
    <3> QED BY <3>1, <3>2, StorEffect, BlameGrows DEF KeepsDocs
  <2>2. CASE th' = [th EXCEPT ![t].pc = "save"]
    BY <2>1, <2>2, MoveEffect DEF StepEffect, Works
  <2>3. CASE th' = Return(t, FALSE)
    BY <2>1, <2>3, ReturnEffect DEF StepEffect, GivesUp
  <2> QED BY <1>6, <2>2, <2>3 DEF Mkdir
<1>7. CASE DeleteGet(t)
  <2>0. spaces' = spaces /\ th[t].pc = "get"
    BY <1>7 DEF DeleteGet
  <2>1. ASSUME th' = Return(t, TRUE), stale' = stale, drift \subseteq drift',
               \/ th[t].todo = {} \/ (\E i \in th[t].todo : spaces[i] = Absent)
               \/ Blamed("failed call")
        PROVE  StepEffect(t)
    <3>1. KeepsDocs
      BY <2>0, <2>1, StorEffect DEF KeepsDocs
    <3> QED BY <2>0, <2>1, <3>1, ReturnEffect DEF StepEffect, Ends
  <2>2. ASSUME NEW i \in th[t].todo, spaces[i] # Absent,
               th' = [th EXCEPT ![t].pc = "ded", ![t].id = i, ![t].todo = @ \ {i},
                                ![t].delta = spaces[i].size,
                                ![t].doc = [spaces[i] EXCEPT !.status = FALSE]],
               stale' = [stale EXCEPT ![t].space = FALSE], Blame("second delete", ~Active(i))
        PROVE  StepEffect(t)
    <3> DEFINE d == [spaces[i] EXCEPT !.status = FALSE]
               r == [th[t] EXCEPT !.pc = "ded", !.id = i, !.todo = @ \ {i},
                                  !.delta = spaces[i].size, !.doc = d]
    <3>1. th' = [th EXCEPT ![t] = r]
      BY <1>0, <2>2
    <3>2. /\ r.op = th[t].op /\ r.id = i /\ r.todo = th[t].todo \ {i} /\ r.doc = d
          /\ r.pc = "ded"
      BY <1>0 DEF Handler
    <3>3. ~d.status
      <4>1. i \in SpaceIDs /\ spaces[i] \in SpaceDoc
        BY <1>0 DEF Handler, IInv, TypeOK
      <4> QED BY <4>1 DEF SpaceDoc
    <3>4. \A u \in Threads : SpaceStale(u)' <=> (u # t /\ SpaceStale(u))
      <4>1. stale \in [Threads -> [stor : BOOLEAN, space : BOOLEAN]]
        BY DEF IInv, TypeOK
      <4> QED BY <2>2, <4>1 DEF SpaceStale
    <3> HIDE DEF r, d
    <3>5. Picks(t)
      BY <2>0, <2>2, <3>1, <3>2, <3>3, <3>4, ThreadStep DEF Picks
    <3> QED BY <2>2, <3>1, <3>5, ThreadStep, BlameGrows DEF StepEffect
  <2>3. CASE th[t].todo = {} /\ th' = Return(t, TRUE) /\ UNCHANGED <<stale, drift>>
    BY <2>1, <2>3
  <2>4. ASSUME NEW i \in th[t].todo, spaces[i] = Absent, th' = Return(t, TRUE),
               UNCHANGED <<stale, drift>>
        PROVE  StepEffect(t)
    BY <2>1, <2>4
  <2>5. CASE th' = Return(t, TRUE) /\ Blame("failed call", TRUE) /\ stale' = stale
    BY <2>1, <2>5, BlameGrows
  <2> QED BY <1>7, <2>2, <2>3, <2>4, <2>5 DEF DeleteGet
<1>8. CASE Save(t)
  <2>0. th[t].pc = "save"
    BY <1>8 DEF Save
  <2>1. CASE /\ spaces' = [spaces EXCEPT ![th[t].id] = th[t].doc] /\ stale' = WriteSpace(t)
             /\ Blame("lost update", stale[t].space) /\ th' = AfterSave(t)
    <3>1. WritesDoc(t) /\ drift \subseteq drift' /\ (SpaceStale(t) => Blamed("lost update"))
      BY <2>1, SpaceWriteEffect, BlameGrows DEF SpaceStale
    <3>2. CASE th[t].op = "delete"
      <4>1. th' = [th EXCEPT ![t].pc = "get", ![t].id = NoSpace]
        BY <2>1, <3>2 DEF AfterSave
      <4> QED BY <2>0, <3>1, <3>2, <4>1, NextEffect DEF StepEffect, Saves
    <3>3. CASE th[t].op # "delete"
      <4>1. th' = Return(t, TRUE)
        BY <2>1, <3>3 DEF AfterSave
      <4> QED BY <2>0, <3>1, <3>3, <4>1, ReturnEffect DEF StepEffect, Saves, KeepsTask
    <3> QED BY <3>2, <3>3
  <2>2. CASE /\ \/ UNCHANGED <<spaces, stale>>
                \/ spaces' = [spaces EXCEPT ![th[t].id] = th[t].doc] /\ stale' = WriteSpace(t)
             /\ Blame("failed call", TRUE) /\ th' = Return(t, FALSE)
    <3>1. KeepsDocs \/ WritesDoc(t)
      BY <2>2, SpaceWriteEffect, StorEffect DEF KeepsDocs
    <3> QED BY <2>0, <2>2, <3>1, ReturnEffect, BlameGrows DEF StepEffect, SaveFails
  <2> QED BY <1>8, <2>1, <2>2 DEF Save
<1> QED BY <1>2, <1>4, <1>5, <1>6, <1>7, <1>8 DEF Step

-----------------------------------------------------------------------------
\* What a call of the space service and its end do.
Enters(t) ==
  /\ th[t].pc = "idle" /\ spaces' = spaces /\ drift \subseteq drift' /\ OthersStay(t)
  /\ \A u \in Threads : SpaceStale(u)' <=> (u # t /\ SpaceStale(u))
  /\ \/ /\ th'[t].op \in {"create", "check"} /\ th'[t].pc = "add" /\ th'[t].todo = {}
        /\ th'[t].doc.status /\ ~Active(th'[t].id)
     \/ /\ th'[t].op \in {"resize", "rename"} /\ th'[t].pc \in {"add", "ded", "save"}
        /\ th'[t].todo = {} /\ th'[t].doc.status = Active(th'[t].id)
     \/ th'[t].op = "delete" /\ th'[t].pc = "get" /\ th'[t].id = NoSpace

Leaves(t) ==
  /\ th[t].pc = "ret" /\ spaces' = spaces /\ drift' = drift /\ OthersStay(t) /\ th'[t] = Idle
  /\ \A u \in Threads : SpaceStale(u)' <=> (u # t /\ SpaceStale(u))

LEMMA BeginEffect ==
  ASSUME IInv, NEW t \in Threads, NEW r, Begin(t, r)
  PROVE  /\ th[t].pc = "idle" /\ spaces' = spaces /\ OthersStay(t) /\ th'[t] = r
         /\ \A u \in Threads : SpaceStale(u)' <=> (u # t /\ SpaceStale(u))
<1>1. stale \in [Threads -> [stor : BOOLEAN, space : BOOLEAN]]
  BY DEF IInv, TypeOK
<1>2. \A u \in Threads : SpaceStale(u)' <=> (u # t /\ SpaceStale(u))
  BY <1>1 DEF Begin, SpaceStale, Fresh
<1> QED BY <1>2, ThreadStep DEF Begin

LEMMA CreateEffect ==
  ASSUME IInv, NEW t \in Threads, NEW size, NEW named, SpaceCreate(t, size, named)
  PROVE  Enters(t) /\ th'[t].op = "create"
<1>1. PICK s \in Storages, i \in SpaceIDs :
        /\ spaces[i] = Absent
        /\ Begin(t, [Idle EXCEPT !.pc = "add", !.op = "create", !.id = i, !.delta = size,
                                 !.doc = [st |-> s, size |-> size, status |-> TRUE],
                                 !.named = named])
  BY DEF SpaceCreate, GetSpaceCreatePath
<1> DEFINE r == [Idle EXCEPT !.pc = "add", !.op = "create", !.id = i, !.delta = size,
                             !.doc = [st |-> s, size |-> size, status |-> TRUE],
                             !.named = named]
<1>2. r.pc = "add" /\ r.op = "create" /\ r.id = i /\ r.todo = {} /\ r.doc.status
  BY DEF Idle
<1>3. ~Active(i) /\ drift' = drift
  BY <1>1 DEF Active, Absent, SpaceCreate
<1>4. Begin(t, r)
  BY <1>1
<1> HIDE DEF r
<1> QED BY <1>2, <1>3, <1>4, BeginEffect DEF Enters

LEMMA CheckEffect ==
  ASSUME IInv, NEW t \in Threads, NEW i \in SpaceIDs, SpaceCheck(t, i)
  PROVE  Enters(t) /\ th'[t].op = "check"
<1> DEFINE r == [Idle EXCEPT !.pc = "add", !.op = "check", !.id = i, !.delta = spaces[i].size,
                             !.doc = [spaces[i] EXCEPT !.status = TRUE]]
<1>1. Begin(t, r) /\ ~Active(i) /\ drift' = drift
  BY DEF SpaceCheck
<1>2. r.pc = "add" /\ r.op = "check" /\ r.id = i /\ r.todo = {} /\ r.doc.status
  BY DEF Idle, IInv, TypeOK, SpaceDoc
<1> HIDE DEF r
<1> QED BY <1>1, <1>2, BeginEffect DEF Enters

LEMMA DeleteEffect ==
  ASSUME IInv, NEW t \in Threads, NEW ids, SpaceDelete(t, ids)
  PROVE  Enters(t) /\ th'[t].op = "delete" /\ th'[t].todo = ids
<1> DEFINE r == [Idle EXCEPT !.pc = "get", !.op = "delete", !.todo = ids]
<1>1. Begin(t, r) /\ drift' = drift
  BY DEF SpaceDelete
<1>2. r.pc = "get" /\ r.op = "delete" /\ r.id = NoSpace /\ r.todo = ids
  BY DEF Idle
<1> HIDE DEF r
<1> QED BY <1>1, <1>2, BeginEffect DEF Enters

LEMMA DirectEffect ==
  ASSUME IInv, NEW t \in Threads, NEW i \in SpaceIDs,
         SpaceRename(t, i) \/ \E new : SpaceSizeChange(t, i, new)
  PROVE  Enters(t) /\ th'[t].op \in {"rename", "resize"}
<1>0. spaces[i] \in SpaceDoc
  BY DEF IInv, TypeOK
<1>1. CASE SpaceRename(t, i)
  <2> DEFINE r == [Idle EXCEPT !.pc = "save", !.op = "rename", !.id = i, !.doc = spaces[i]]
  <2>1. Begin(t, r) /\ drift' = drift
    BY <1>1 DEF SpaceRename
  <2>2. /\ r.pc = "save" /\ r.op = "rename" /\ r.id = i /\ r.todo = {}
        /\ r.doc.status = Active(i)
    BY DEF Idle, Active
  <2> HIDE DEF r
  <2> QED BY <2>1, <2>2, BeginEffect DEF Enters
<1>2. ASSUME NEW new, SpaceSizeChange(t, i, new) PROVE Enters(t) /\ th'[t].op = "resize"
  <2> DEFINE q == IF new > spaces[i].size THEN "add" ELSE "ded"
             n == IF new > spaces[i].size THEN new - spaces[i].size ELSE spaces[i].size - new
             d == [spaces[i] EXCEPT !.size = new]
             r == [Idle EXCEPT !.pc = q, !.op = "resize", !.id = i, !.delta = n, !.doc = d]
  <2>1. Begin(t, r) /\ Blame("resize of a deleted space", ~Active(i))
    BY <1>2 DEF SpaceSizeChange
  <2>2. q \in {"add", "ded"}
    OBVIOUS
  <2>3. d.status = Active(i)
    BY <1>0 DEF SpaceDoc, Active
  <2> HIDE DEF q, n, d
  <2>4. r.pc = q /\ r.op = "resize" /\ r.id = i /\ r.todo = {} /\ r.doc = d
    BY DEF Idle
  <2> HIDE DEF r
  <2>5. drift \subseteq drift'
    BY <2>1, BlameGrows
  <2> QED BY <2>1, <2>2, <2>3, <2>4, <2>5, BeginEffect DEF Enters
<1> QED BY <1>1, <1>2

LEMMA CallEffect == ASSUME IInv, NEW t \in Threads, Call(t) PROVE Enters(t)
BY CreateEffect, CheckEffect, DeleteEffect, DirectEffect DEF Call

LEMMA ReplyEffect == ASSUME IInv, NEW t \in Threads, Reply(t) PROVE Leaves(t)
<1>1. stale \in [Threads -> [stor : BOOLEAN, space : BOOLEAN]]
  BY DEF IInv, TypeOK
<1>2. \A u \in Threads : SpaceStale(u)' <=> (u # t /\ SpaceStale(u))
  BY <1>1 DEF Reply, SpaceStale, Fresh
<1> QED BY <1>2, ThreadStep DEF Reply, Leaves

(***************************************************************************)
(* The copy of a space document that a handler is going to write: the new  *)
(* status is what the operation is for, and while nobody else has written  *)
(* the document, a space to be activated is inactive and a resize or a     *)
(* rename keeps the status.                                                *)
(***************************************************************************)
HoldsCopy(t) ==
  th[t].pc \in BusyPcs =>
    /\ th[t].op \in {"create", "check"} => th[t].doc.status
    /\ th[t].op = "delete" => ~th[t].doc.status
    /\ ~SpaceStale(t) =>
         /\ th[t].op \in {"create", "check"} => ~Active(th[t].id)
         /\ th[t].op \in {"resize", "rename"} => th[t].doc.status = Active(th[t].id)
CopiesHeld == \A t \in Threads : HoldsCopy(t)

LEMMA WritesOne ==
  ASSUME IInv, NEW t \in Threads, th[t].pc = "save", WritesDoc(t)
  PROVE  /\ th[t].id \in SpaceIDs /\ spaces'[th[t].id] = th[t].doc /\ th[t].doc # Absent
         /\ \A i \in SpaceIDs : i # th[t].id => spaces'[i] = spaces[i]
<1>1. th[t].id \in SpaceIDs /\ th[t].doc.st \in Storages /\ spaces \in [SpaceIDs -> SpaceDoc]
  BY DEF IInv, TypeOK, HandlerReady
<1>2. th[t].doc # Absent
  BY <1>1 DEF Absent
<1> QED BY <1>1, <1>2 DEF WritesDoc

LEMMA StepCopies == ASSUME IInv, CallsMatch, CopiesHeld, [Next]_vars PROVE CopiesHeld'
<1> USE DEF BusyPcs
<1>0. \A u \in Threads : th[u].pc \in BusyPcs => th[u].id \in SpaceIDs
  BY DEF IInv, HandlerReady
<1>1. ASSUME NEW t \in Threads, OthersStay(t), HoldsCopy(t)',
             \/ spaces' = spaces /\ \A u \in Threads : u # t => SpaceStale(u)' <=> SpaceStale(u)
             \/ th[t].pc = "save" /\ WritesDoc(t)
      PROVE  CopiesHeld'
  <2> SUFFICES ASSUME NEW u \in Threads, u # t PROVE HoldsCopy(u)'
    BY <1>1 DEF CopiesHeld
  <2>1. th'[u] = th[u] /\ HoldsCopy(u)
    BY <1>1 DEF OthersStay, CopiesHeld
  <2>2. CASE spaces' = spaces /\ (SpaceStale(u)' <=> SpaceStale(u))
    BY <2>1, <2>2 DEF HoldsCopy, Active
  <2>3. CASE th[t].pc = "save" /\ WritesDoc(t)
    <3>1. CASE th[u].id = th[t].id
      <4>1. SpaceStale(u)'
        BY <2>3, <3>1 DEF WritesDoc
      <4> QED BY <2>1, <4>1 DEF HoldsCopy
    <3>2. CASE th[u].id # th[t].id
      <4>1. SpaceStale(u)' <=> SpaceStale(u)
        BY <2>3, <3>2 DEF WritesDoc
      <4>2. th[u].pc \in BusyPcs => spaces'[th[u].id] = spaces[th[u].id]
        BY <1>0, <2>3, <3>2, WritesOne
      <4> QED BY <2>1, <4>1, <4>2 DEF HoldsCopy, Active
    <3> QED BY <3>1, <3>2
  <2> QED BY <1>1, <2>2, <2>3
<1>2. ASSUME NEW t \in Threads, Enters(t) \/ Leaves(t) PROVE CopiesHeld'
  <2>1. OthersStay(t) /\ spaces' = spaces /\ \A u \in Threads : u # t => SpaceStale(u)' <=> SpaceStale(u)
    BY <1>2 DEF Enters, Leaves
  <2>2. HoldsCopy(t)'
    BY <1>2, <2>1 DEF Enters, Leaves, HoldsCopy, Active, Idle
  <2> QED BY <1>1, <2>1, <2>2
<1>3. ASSUME NEW t \in Threads, StepEffect(t) PROVE CopiesHeld'
  <2>0. OthersStay(t) /\ HoldsCopy(t)
    BY <1>3 DEF StepEffect, CopiesHeld
  <2>1. CASE Works(t)
    <3>1. HoldsCopy(t)'
      BY <2>0, <2>1 DEF Works, KeepsTask, KeepsDocs, HoldsCopy, Active
    <3> QED BY <1>1, <2>0, <2>1, <3>1 DEF Works, KeepsDocs
  <2>2. CASE GivesUp(t) \/ Skips(t) \/ Ends(t) \/ Saves(t) \/ SaveFails(t)
    <3>1. th'[t].pc \in {"ret", "get"}
      BY <2>2 DEF GivesUp, Skips, Ends, Saves, SaveFails
    <3>2. HoldsCopy(t)'
      BY <3>1 DEF HoldsCopy
    <3>3. KeepsDocs \/ (th[t].pc = "save" /\ WritesDoc(t))
      BY <2>2 DEF GivesUp, Skips, Ends, Saves, SaveFails
    <3> QED BY <1>1, <2>0, <3>2, <3>3 DEF KeepsDocs
  <2>3. CASE Picks(t)
    <3>0. /\ th'[t].op = th[t].op /\ th[t].pc = "get" /\ ~th'[t].doc.status
          /\ spaces' = spaces /\ \A u \in Threads : u # t => SpaceStale(u)' <=> SpaceStale(u)
      BY <2>3 DEF Picks
    <3>1. th[t].op = "delete"
      BY <3>0 DEF CallsMatch
    <3>2. HoldsCopy(t)'
      BY <3>0, <3>1 DEF HoldsCopy
    <3> QED BY <1>1, <2>0, <3>0, <3>2
  <2> QED BY <1>3, <2>1, <2>2, <2>3 DEF StepEffect
<1>4. CASE UNCHANGED vars
  BY <1>4 DEF vars, CopiesHeld, HoldsCopy, Active, SpaceStale
<1> QED BY <1>2, <1>3, <1>4, CallEffect, ReplyEffect, StepHasEffect DEF Next

-----------------------------------------------------------------------------
(***************************************************************************)
(* The phases of the zone handlers, and where in SpaceDelete the thread of *)
(* a handler is: a delete that has ended without a failed call has visited *)
(* all of its spaces.                                                      *)
(***************************************************************************)
Adding == {"register", "add", "mapadd"}
Removing == {"cancel", "mapdeduct"}
InPhase(t) ==
  /\ th[t].op = "delete" =>
       /\ th[t].pc \in {"get", "ded", "dedset", "save", "ret"}
       /\ th[t].pc = "get" => th[t].id = NoSpace
       /\ th[t].pc = "ret" =>
            (th[t].ok /\ th[t].todo = {} /\ th[t].id = NoSpace) \/ "failed call" \in drift
  /\ CASE zt[t].pc = "idle" -> th[t].pc = "idle" \/ th[t].op \in {"rename", "resize"}
       [] zt[t].pc = "call" -> th[t].pc = "idle" /\ zt[t].op \in Adding \cup Removing
       [] zt[t].pc = "wait" -> /\ th[t].pc # "idle" /\ zt[t].op \in Adding \cup Removing
                               /\ zt[t].op \in Removing =>
                                    /\ th[t].op = "delete"
                                    /\ th[t].todo \subseteq zt[t].ids \ {th[t].id}
                                    /\ th[t].id \in zt[t].ids \cup {NoSpace}
       [] zt[t].pc = "query" -> th[t].pc = "idle" /\ zt[t].op = "rename"
       [] zt[t].pc = "set" -> th[t].pc = "idle" /\ zt[t].op # "cancel"
       [] zt[t].pc = "remove" -> th[t].pc = "idle" /\ zt[t].op = "cancel"

(***************************************************************************)
(* The spaces that a zone lists, or that a handler is going to list or to  *)
(* delete, have a document.  Hence SpaceDelete never ends early.           *)
(***************************************************************************)
Stored(I) == \A i \in I : spaces[i] # Absent
ListsStored ==
  /\ \A z \in ZoneIDs : Stored(zones[z].spaces)
  /\ \A t \in Threads :
       /\ Stored(zt[t].doc.spaces) /\ Stored(zt[t].ids) /\ Stored(th[t].todo)
       /\ th[t].pc = "ret" /\ th[t].ok /\ th[t].op \in {"create", "check"} =>
            th[t].id \in SpaceIDs /\ spaces[th[t].id] # Absent

(***************************************************************************)
(* A handler whose zone was not written since it has read it holds the     *)
(* spaces that the zone lists, up to what it is about to change.           *)
(***************************************************************************)
HoldsSpaces(t) ==
  LET S == zones[zt[t].zone].spaces IN
  t \notin zstale /\ zt[t].pc # "idle" =>
    /\ CASE zt[t].pc # "set" -> zt[t].doc.spaces = S
         [] zt[t].pc = "set" /\ zt[t].op \in Adding -> S \subseteq zt[t].doc.spaces
         [] zt[t].pc = "set" /\ zt[t].op = "mapdeduct" -> zt[t].doc.spaces = S \ zt[t].ids
         [] OTHER -> zt[t].doc.spaces = S
    /\ zt[t].op \in Removing => zt[t].ids \subseteq S
    /\ zt[t].op = "cancel" => zt[t].ids = S

(***************************************************************************)
(* A committed handler will write or remove its zone document, unless a    *)
(* call fails or the zone has no name.  If it is stale, or if two of them  *)
(* are at the same zone, an update is going to be lost.                    *)
(***************************************************************************)
Committed(t) ==
  \/ zt[t].pc \in {"set", "remove"}
  \/ zt[t].pc \in {"call", "wait"} /\ zt[t].op \in Removing
  \/ zt[t].pc = "wait" /\ th[t].pc = "ret" /\ th[t].ok

Clash == \E t \in Threads :
           /\ Committed(t)
           /\ t \in zstale \/ \E u \in Threads \ {t} : Committed(u) /\ zt[u].zone = zt[t].zone

Calm == zdrift = {} /\ "lost update" \notin drift /\ "failed call" \notin drift

(***************************************************************************)
(* The spaces in flux.  A committed handler has entered a space when the   *)
(* space is active and waits to be listed; it has dropped a space when the *)
(* space is inactive and waits to be struck off the list.  WillList is     *)
(* what a zone lists once the handlers under way are through.              *)
(***************************************************************************)
HasEntered(t, i) ==
  /\ zt[t].op \in Adding
  /\ \/ zt[t].pc = "wait" /\ th[t].pc = "ret" /\ th[t].ok /\ th[t].id = i
     \/ zt[t].pc = "set" /\ i \in zt[t].doc.spaces
HasDropped(t, i) ==
  /\ zt[t].op \in Removing /\ i \in zt[t].ids
  /\ \/ zt[t].pc \in {"set", "remove"}
     \/ zt[t].pc = "wait" /\ i \notin th[t].todo /\ th[t].id # i
Adds(z, i) == \E t \in Threads : zt[t].zone = z /\ HasEntered(t, i)
Drops(z, i) == \E t \in Threads : zt[t].zone = z /\ HasDropped(t, i)
WillList(z, i) == (i \in zones[z].spaces /\ ~Drops(z, i)) \/ Adds(z, i)

OneOwner(i) ==
  /\ Active(i) => \E z \in ZoneIDs : WillList(z, i)
  /\ \A z \in ZoneIDs : WillList(z, i) => Active(i)
  /\ \A y, z \in ZoneIDs : WillList(y, i) /\ WillList(z, i) => y = z
Accounted == Calm /\ ~Clash => \A i \in SpaceIDs : OneOwner(i)

OwnInv == /\ CopiesHeld /\ (\A t \in Threads : InPhase(t)) /\ ListsStored
          /\ (\A t \in Threads : HoldsSpaces(t)) /\ Accounted

-----------------------------------------------------------------------------
\* What the steps of the zone handlers do.
ZOthersStay(t) == \A u \in Threads : u # t => zt'[u] = zt[u]
KeepsZones == zones' = zones /\ zstale' = zstale
KeepsRequest(t) ==
  zt'[t].op = zt[t].op /\ zt'[t].zone = zt[t].zone /\ zt'[t].ids = zt[t].ids

Asks(t) ==
  LET z == zt'[t].zone
      S == zones[zt'[t].zone].spaces
  IN
  /\ UNCHANGED vars /\ zones' = zones /\ zstale' = zstale \ {t} /\ zdrift \subseteq zdrift'
  /\ zt[t].pc = "idle" /\ th[t].pc = "idle" /\ ZOthersStay(t)
  /\ z \in ZoneIDs /\ zt'[t].doc.spaces = S /\ zt'[t].ids \subseteq S
  /\ \/ zt'[t].pc = "call" /\ zt'[t].op \in Adding \cup {"mapdeduct"}
     \/ zt'[t].pc = "call" /\ zt'[t].op = "cancel" /\ zt'[t].ids = S
     \/ zt'[t].pc = "query" /\ zt'[t].op = "rename"
     \/ zt'[t].pc = "set" /\ zt'[t].op \in Sharing

LEMMA ZBeginEffect ==
  ASSUME ZoneTypeOK, NEW t \in Threads, NEW pc, NEW op, NEW u, NEW z \in ZoneIDs, NEW doc,
         NEW ids, ZBegin(t, pc, op, u, z, doc, ids), zdrift \subseteq zdrift',
         doc.spaces = zones[z].spaces, ids \subseteq zones[z].spaces,
         \/ pc = "call" /\ op \in Adding \cup {"mapdeduct"}
         \/ pc = "call" /\ op = "cancel" /\ ids = zones[z].spaces
         \/ pc = "query" /\ op = "rename"
         \/ pc = "set" /\ op \in Sharing
  PROVE  Asks(t)
<1> DEFINE rec == [pc |-> pc, op |-> op, user |-> u, zone |-> z, doc |-> doc, ids |-> ids]
<1>1. /\ zt' = [zt EXCEPT ![t] = rec] /\ UNCHANGED vars /\ zones' = zones
      /\ zstale' = zstale \ {t} /\ zt[t].pc = "idle" /\ th[t].pc = "idle"
  BY DEF ZBegin, Request
<1>2. rec.pc = pc /\ rec.op = op /\ rec.zone = z /\ rec.doc = doc /\ rec.ids = ids
  OBVIOUS
<1> HIDE DEF rec
<1>3. zt'[t] = rec /\ ZOthersStay(t)
  BY <1>1 DEF ZoneTypeOK, ZOthersStay
<1> QED BY <1>1, <1>2, <1>3 DEF Asks

LEMMA NameFreeGrows == ASSUME NEW u, NEW n, NameFree(u, n) PROVE zdrift \subseteq zdrift'
BY DEF NameFree, ZBlame

LEMMA RequestEffect == ASSUME ZoneTypeOK, NEW t \in Threads, ZoneRequest(t) PROVE Asks(t)
<1> USE DEF Adding, Removing
<1>1. ASSUME NEW u, NEW n, NEW mem, ZoneRegister(t, u, n, mem) \/ ZoneAdd(t, u, n, mem)
      PROVE  Asks(t)
  <2>1. PICK z \in ZoneIDs, op \in {"register", "add"} :
          \/ ~Exists(z) /\ ZBegin(t, "call", op, u, z, NewZone(u, n, mem), {})
          \/ ZBegin(t, "call", op, u, z, zones[z], {})
    BY <1>1 DEF ZoneRegister, ZoneAdd, FreshZones
  <2>2. zdrift \subseteq zdrift'
    BY <1>1, NameFreeGrows DEF ZoneRegister, ZoneAdd
  <2>3. ~Exists(z) => NewZone(u, n, mem).spaces = zones[z].spaces
    BY DEF Exists, NoDoc, NewZone
  <2> QED BY <2>1, <2>2, <2>3, ZBeginEffect
<1>2. ASSUME NEW u, NEW z \in ZoneIDs, NEW op, NEW pc, NEW doc, NEW ids,
             OnZone(t, u, z, op, pc, doc, ids), doc.spaces = zones[z].spaces,
             ids \subseteq zones[z].spaces,
             \/ pc = "call" /\ op \in Adding \cup {"mapdeduct"}
             \/ pc = "call" /\ op = "cancel" /\ ids = zones[z].spaces
             \/ pc = "query" /\ op = "rename"
             \/ pc = "set" /\ op \in Sharing
      PROVE  Asks(t)
  <2>1. zdrift \subseteq zdrift' /\ ZBegin(t, pc, op, u, z, doc, ids)
    BY <1>2 DEF OnZone
  <2> QED BY <1>2, <2>1, ZBeginEffect
<1>3. ASSUME NEW u, NEW z \in ZoneIDs, ZoneCancel(t, u, z) \/ MapAdd(t, u, z) PROVE Asks(t)
  BY <1>2, <1>3 DEF ZoneCancel, MapAdd
<1>4. ASSUME NEW u, NEW z \in ZoneIDs, NEW ids, MapDeduct(t, u, z, ids) PROVE Asks(t)
  BY <1>2, <1>4 DEF MapDeduct
<1>5. ASSUME NEW u, NEW z \in ZoneIDs, NEW mem,
             ZoneShare(t, u, z, mem) \/ ZoneShareCancel(t, u, z, mem)
      PROVE  Asks(t)
  <2> DEFINE d1 == [zones[z] EXCEPT !.members = @ \cup mem]
             d2 == [zones[z] EXCEPT !.members = @ \ mem]
  <2>1. d1.spaces = zones[z].spaces /\ d2.spaces = zones[z].spaces
    BY ZoneDocs DEF Zone
  <2>2. OnZone(t, u, z, "share", "set", d1, {}) \/ OnZone(t, u, z, "sharecancel", "set", d2, {})
    BY <1>5 DEF ZoneShare, ZoneShareCancel
  <2>3. "share" \in Sharing /\ "sharecancel" \in Sharing
    BY DEF Sharing
  <2> HIDE DEF d1, d2
  <2> QED BY <1>2, <2>1, <2>2, <2>3
<1>6. ASSUME NEW u, NEW z \in ZoneIDs, NEW n, ZoneRename(t, u, z, n) PROVE Asks(t)
  <2> DEFINE doc == [zones[z] EXCEPT !.name = n]
  <2>1. doc.spaces = zones[z].spaces
    BY ZoneDocs DEF Zone
  <2>2. OnZone(t, u, z, "rename", "query", doc, {})
    BY <1>6 DEF ZoneRename
  <2> HIDE DEF doc
  <2> QED BY <1>2, <2>1, <2>2
<1> QED BY <1>1, <1>3, <1>4, <1>5, <1>6 DEF ZoneRequest

\* A handler moves on with the document it holds.
LEMMA ZMoveEffect ==
  ASSUME ZoneTypeOK, NEW t \in Threads, NEW pc, zt' = [zt EXCEPT ![t].pc = pc]
  PROVE  ZOthersStay(t) /\ zt'[t].pc = pc /\ KeepsRequest(t) /\ zt'[t].doc = zt[t].doc
<1> DEFINE rec == [zt[t] EXCEPT !.pc = pc]
<1>1. zt' = [zt EXCEPT ![t] = rec] /\ zt[t] \in ZoneHandler
  BY DEF ZoneTypeOK
<1>2. /\ rec.pc = pc /\ rec.op = zt[t].op /\ rec.zone = zt[t].zone /\ rec.ids = zt[t].ids
      /\ rec.doc = zt[t].doc
  BY <1>1 DEF ZoneHandler
<1> HIDE DEF rec
<1> QED BY <1>1, <1>2 DEF ZoneTypeOK, ZOthersStay, KeepsRequest

LEMMA DoneEffect ==
  ASSUME ZoneTypeOK, NEW t \in Threads, zt' = Done(t)
  PROVE  ZOthersStay(t) /\ zt'[t] = ZoneIdle /\ zt'[t].pc = "idle"
BY DEF ZoneTypeOK, ZOthersStay, Done, ZoneIdle

\* The handler's document with the space it got, or without those it deleted.
LEMMA SetEffect ==
  ASSUME ZoneTypeOK, NEW t \in Threads,
         zt' = [zt EXCEPT ![t].pc = "set", ![t].doc = WithSpace(t)]
  PROVE  /\ ZOthersStay(t) /\ zt'[t].pc = "set" /\ KeepsRequest(t)
         /\ zt'[t].doc.spaces = IF zt[t].op = "mapdeduct" THEN zt[t].doc.spaces \ zt[t].ids
                                ELSE zt[t].doc.spaces \cup {th[t].id}
<1> DEFINE rec == [zt[t] EXCEPT !.pc = "set", !.doc = WithSpace(t)]
<1>1. zt' = [zt EXCEPT ![t] = rec] /\ zt[t] \in ZoneHandler
  BY DEF ZoneTypeOK
<1>2. /\ rec.pc = "set" /\ rec.op = zt[t].op /\ rec.zone = zt[t].zone /\ rec.ids = zt[t].ids
      /\ rec.doc = WithSpace(t)
  BY <1>1 DEF ZoneHandler
<1>3. WithSpace(t).spaces = IF zt[t].op = "mapdeduct" THEN zt[t].doc.spaces \ zt[t].ids
                            ELSE zt[t].doc.spaces \cup {th[t].id}
  <2>1. zt[t].doc \in Zone
    BY <1>1 DEF ZoneHandler
  <2> QED BY <2>1 DEF WithSpace, Zone
<1> HIDE DEF rec
<1> QED BY <1>1, <1>2, <1>3 DEF ZoneTypeOK, ZOthersStay, KeepsRequest

\* The call of the space service.
Calls(t) ==
  /\ zt[t].pc = "call" /\ zt'[t].pc = "wait" /\ ZOthersStay(t) /\ KeepsRequest(t)
  /\ zt'[t].doc = zt[t].doc /\ KeepsZones /\ zdrift' = zdrift /\ Enters(t)
  /\ \/ zt[t].op \in Adding /\ th'[t].op \in {"create", "check"}
     \/ zt[t].op \in Removing /\ th'[t].op = "delete" /\ th'[t].todo = zt[t].ids

LEMMA CallSpaceEffect ==
  ASSUME IInv, ZoneTypeOK, NEW t \in Threads, CallSpace(t)
  PROVE  Calls(t)
<1>1. /\ ZOthersStay(t) /\ KeepsRequest(t) /\ zt'[t].doc = zt[t].doc /\ zt'[t].pc = "wait"
      /\ zt[t].pc = "call" /\ KeepsZones /\ zdrift' = zdrift
  BY ZMoveEffect DEF CallSpace, KeepsZones
<1>2. \/ /\ zt[t].op \in {"register", "mapadd"} /\ Enters(t) /\ th'[t].op = "create"
      \/ zt[t].op = "add" /\ Enters(t) /\ th'[t].op = "check"
      \/ zt[t].op \in {"cancel", "mapdeduct"} /\ Enters(t) /\ th'[t].op = "delete" /\ th'[t].todo = zt[t].ids
  BY CreateEffect, CheckEffect, DeleteEffect DEF CallSpace
<1> QED BY <1>1, <1>2 DEF Calls, Adding, Removing

IsRefused(t) ==
  /\ zt[t].pc = "call" /\ zt[t].op \in Adding /\ zt'[t] = ZoneIdle /\ ZOthersStay(t)
  /\ UNCHANGED vars /\ KeepsZones /\ zdrift' = zdrift
Inside(t) ==
  /\ StepEffect(t) /\ zt' = zt /\ KeepsZones /\ zdrift \subseteq zdrift'
  /\ th[t].op = "delete" /\ th[t].pc = "dedset" /\ ~Covers(t) => zdrift' # {}
ComesBack(t) ==
  /\ zt[t].pc = "wait" /\ Leaves(t) /\ KeepsZones /\ ZOthersStay(t) /\ zdrift \subseteq zdrift'
  /\ \/ /\ zt[t].op # "cancel" /\ zt'[t].pc = "set" /\ KeepsRequest(t)
        /\ zt[t].op \notin Removing => th[t].ok
        /\ zt'[t].doc.spaces = IF zt[t].op = "mapdeduct" THEN zt[t].doc.spaces \ zt[t].ids
                               ELSE zt[t].doc.spaces \cup {th[t].id}
     \/ zt'[t] = ZoneIdle /\ zdrift' # {}
     \/ /\ zt[t].op = "cancel" /\ th[t].ok /\ zt'[t].pc = "remove" /\ KeepsRequest(t)
        /\ zt'[t].doc = zt[t].doc
     \/ zt[t].op # "mapdeduct" /\ ~th[t].ok /\ zt'[t] = ZoneIdle
Queries(t) ==
  /\ zt[t].pc = "query" /\ UNCHANGED vars /\ KeepsZones /\ ZOthersStay(t) /\ zdrift \subseteq zdrift'
  /\ \/ zt'[t].pc = "set" /\ KeepsRequest(t) /\ zt'[t].doc = zt[t].doc
     \/ zt'[t] = ZoneIdle
Writes(t) ==
  /\ zt[t].pc \in {"set", "remove"} /\ UNCHANGED vars /\ ZOthersStay(t) /\ zt'[t] = ZoneIdle
  /\ zdrift \subseteq zdrift' /\ zt[t].zone \in ZoneIDs
  /\ \/ KeepsZones /\ zdrift' # {}
     \/ /\ zstale' = WriteZone(t)
        /\ \A z \in ZoneIDs : z # zt[t].zone => zones'[z] = zones[z]
        /\ zones'[zt[t].zone] = IF zt[t].pc = "set" THEN zt[t].doc ELSE NoDoc
        /\ t \in zstale => zdrift' # {}
Directs(t) ==
  /\ zt[t].pc = "idle" /\ zt' = zt /\ KeepsZones /\ zdrift' = zdrift
  /\ Leaves(t) \/ (Enters(t) /\ th'[t].op \in {"rename", "resize"})

ZoneStepEffect(t) ==
  \/ Asks(t) \/ Calls(t) \/ IsRefused(t) \/ Inside(t) \/ ComesBack(t) \/ Queries(t) \/ Writes(t)
  \/ Directs(t)

LEMMA ReturnedEffect ==
  ASSUME IInv, ZoneTypeOK, NEW t \in Threads, Returned(t)
  PROVE  ComesBack(t)
<1>1. zt[t].pc = "wait" /\ Leaves(t) /\ KeepsZones /\ th[t].ok \in BOOLEAN
  BY ReplyEffect DEF Returned, KeepsZones, IInv, TypeOK, Handler
<1>2. CASE /\ zt[t].op \notin {"cancel", "mapdeduct"} => th[t].ok
           /\ zt[t].op # "cancel"
           /\ zt' = [zt EXCEPT ![t].pc = "set", ![t].doc = WithSpace(t)]
           /\ UNCHANGED zdrift
  BY <1>1, <1>2, SetEffect DEF ComesBack, Removing
<1>3. CASE zt' = Done(t) /\ ZBlame("unnamed zone", TRUE)
  BY <1>1, <1>3, DoneEffect DEF ComesBack, ZBlame
<1>4. CASE zt[t].op = "cancel" /\ th[t].ok /\ zt' = [zt EXCEPT ![t].pc = "remove"] /\ UNCHANGED zdrift
  BY <1>1, <1>4, ZMoveEffect DEF ComesBack
<1>5. CASE zt[t].op # "mapdeduct" /\ ~th[t].ok /\ zt' = Done(t) /\ UNCHANGED zdrift
  BY <1>1, <1>5, DoneEffect DEF ComesBack
<1> QED BY <1>2, <1>3, <1>4, <1>5 DEF Returned

LEMMA QueryEffect ==
  ASSUME ZoneTypeOK, NEW t \in Threads, RenameQuery(t)
  PROVE  Queries(t)
<1>1. zt[t].pc = "query" /\ UNCHANGED vars /\ KeepsZones
  BY DEF RenameQuery, KeepsZones
<1>2. CASE NameFree(zt[t].user, zt[t].doc.name) /\ zt' = [zt EXCEPT ![t].pc = "set"]
  BY <1>1, <1>2, ZMoveEffect, NameFreeGrows DEF Queries
<1>3. CASE zt' = Done(t) /\ zdrift' = zdrift
  BY <1>1, <1>3, DoneEffect DEF Queries
<1> QED BY <1>2, <1>3 DEF RenameQuery

LEMMA WriteEffect ==
  ASSUME ZoneTypeOK, MembersHeld, NEW t \in Threads, WriteBack(t)
  PROVE  Writes(t)
<1>1. /\ zt[t].pc \in {"set", "remove"} /\ UNCHANGED vars /\ zt' = Done(t)
      /\ zdrift \subseteq zdrift'
  BY DEF WriteBack, ZBlame
<1>3. (zones' = zones /\ zstale' = zstale) =>
        \/ zdrift' # {}
        \/ /\ zstale' = WriteZone(t) /\ t \notin zstale
           /\ zones' = [zones EXCEPT ![zt[t].zone] = IF zt[t].pc = "set" THEN zt[t].doc ELSE NoDoc]
  BY DEF WriteBack, ZBlame
<1>4. ZOthersStay(t) /\ zt'[t] = ZoneIdle
  BY <1>1, DoneEffect
<1>5. zt[t].zone \in ZoneIDs /\ zones \in [ZoneIDs -> Zone]
  BY WriteBackEffect DEF ZoneTypeOK
<1>6. CASE zones' = zones /\ zstale' = zstale
  <2>1. CASE zdrift' # {}
    BY <1>1, <1>4, <1>5, <1>6, <2>1 DEF Writes, KeepsZones
  <2>2. CASE zdrift' = {}
    BY <1>1, <1>3, <1>4, <1>5, <1>6, <2>2 DEF Writes
  <2> QED BY <2>1, <2>2
<1>7. CASE ~(zones' = zones /\ zstale' = zstale)
  BY <1>1, <1>4, <1>7, WriteBackEffect DEF Writes
<1> QED BY <1>6, <1>7

LEMMA ZoneStepHasEffect ==
  ASSUME IInv, ZoneTypeOK, MembersHeld, [ZoneNext]_allVars
  PROVE  UNCHANGED allVars \/ \E t \in Threads : ZoneStepEffect(t)
<1>1. ASSUME NEW t \in Threads, CallRefused(t) PROVE IsRefused(t)
  BY <1>1, DoneEffect DEF CallRefused, IsRefused, Adding, KeepsZones
<1>2. ASSUME NEW t \in Threads, SpaceStep(t) PROVE Inside(t)
  <2>1. zt' = zt /\ KeepsZones
    BY <1>2 DEF SpaceStep, KeepsZones
  <2>2. StepEffect(t)
    BY <1>2, StepHasEffect DEF SpaceStep
  <2> QED BY <1>2, <2>1, <2>2 DEF SpaceStep, ZBlame, Inside
<1>3. ASSUME NEW t \in Threads, DirectCall(t) \/ DirectReply(t) PROVE Directs(t)
  <2>1. zt[t].pc = "idle" /\ zt' = zt /\ KeepsZones /\ zdrift' = zdrift
    BY <1>3 DEF DirectCall, DirectReply, Request, zoneVars, KeepsZones
  <2>2. CASE DirectCall(t)
    <3>1. Enters(t) /\ th'[t].op \in {"rename", "resize"}
      BY <2>2, DirectEffect DEF DirectCall
    <3> QED BY <2>1, <3>1 DEF Directs
  <2>3. CASE DirectReply(t)
    BY <2>1, <2>3, ReplyEffect DEF DirectReply, Directs
  <2> QED BY <1>3, <2>2, <2>3
<1> QED BY <1>1, <1>2, <1>3, RequestEffect, CallSpaceEffect, ReturnedEffect, QueryEffect, WriteEffect
        DEF ZoneNext, ZoneStepEffect

-----------------------------------------------------------------------------
\* Every handler stays in one of its phases.
LEMMA PhaseKept ==
  ASSUME ZoneTypeOK, IInv, ListsStored, CallsMatch, NEW t \in Threads, InPhase(t), ZoneStepEffect(t)
  PROVE  InPhase(t)'
<1> USE DEF Adding, Removing, Sharing
<1>0. Idle.op = "create" /\ Idle.pc = "idle" /\ ZoneIdle.pc = "idle"
  BY DEF Idle, ZoneIdle
<1>1. CASE Asks(t)
  <2>1. th' = th /\ drift' = drift
    BY <1>1 DEF Asks, vars
  <2> QED BY <1>1, <2>1 DEF Asks, InPhase
<1>2. CASE Calls(t)
  <2>1. zt[t].ids \subseteq SpaceIDs
    BY DEF ZoneTypeOK, ZoneHandler
  <2>2. /\ zt[t].op \in Removing => th'[t].op = "delete" /\ th'[t].todo = zt[t].ids /\ th'[t].id = NoSpace
        /\ th'[t].op = "delete" => th'[t].pc = "get" /\ th'[t].id = NoSpace
        /\ th'[t].pc # "idle" /\ zt[t].op \in Adding \cup Removing
    BY <1>2 DEF Calls, Enters
  <2>3. zt'[t].pc = "wait" /\ zt'[t].op = zt[t].op /\ zt'[t].ids = zt[t].ids
    BY <1>2 DEF Calls, KeepsRequest
  <2> QED BY <2>1, <2>2, <2>3, NoSpaceAssumption DEF InPhase
<1>3. CASE IsRefused(t)
  <2>1. th' = th /\ drift' = drift
    BY <1>3 DEF IsRefused, vars
  <2> QED BY <1>0, <1>3, <2>1 DEF IsRefused, InPhase
<1>4. CASE Inside(t)
  <2>0. /\ zt' = zt /\ drift \subseteq drift' /\ (th[t].pc = "get" => th[t].op = "delete")
        /\ th[t].todo \subseteq SpaceIDs
    BY <1>4 DEF Inside, StepEffect, CallsMatch, IInv, TypeOK, Handler
  <2>a. /\ zt[t].pc \in {"idle", "wait"}
        /\ zt[t].pc = "idle" => th[t].op \in {"rename", "resize"}
        /\ th[t].pc \notin {"idle", "ret"}
    <3>1. th[t].pc \notin {"idle", "ret"}
      BY <1>4 DEF Inside, StepEffect, Works, GivesUp, Skips, Picks, Ends, Saves, SaveFails, BusyPcs
    <3>2. zt[t].pc \in {"idle", "call", "wait", "query", "set", "remove"}
      BY DEF ZoneTypeOK, ZoneHandler
    <3> QED BY <3>1, <3>2 DEF InPhase
  <2>b. ASSUME th[t].op = "delete", th'[t].op = "delete", th'[t].pc \in {"get", "ded"},
               th'[t].pc = "get" => th'[t].id = NoSpace, th'[t].todo \subseteq th[t].todo \ {th'[t].id},
               th'[t].id \in th[t].todo \cup {NoSpace}
        PROVE  InPhase(t)'
    <3>1. zt[t].pc = "wait" /\ zt'[t] = zt[t]
      BY <2>0, <2>a, <2>b
    <3>2. zt[t].op \in Adding \cup Removing
      BY <3>1 DEF InPhase
    <3>3. zt[t].op \in Removing => th[t].todo \subseteq zt[t].ids
      BY <3>1 DEF InPhase
    <3> QED BY <2>b, <3>1, <3>2, <3>3 DEF InPhase
  <2>1. CASE Works(t)
    BY <2>0, <2>1 DEF Works, KeepsTask, InPhase, BusyPcs
  <2>2. CASE GivesUp(t)
    BY <2>0, <2>2 DEF GivesUp, KeepsTask, InPhase, BusyPcs
  <2>3. CASE Skips(t)
    BY <2>0, <2>3, <2>b, NoSpaceAssumption DEF Skips
  <2>4. CASE Picks(t)
    BY <2>0, <2>4, <2>b DEF Picks
  <2>5. CASE Ends(t)
    <3>1. th[t].todo = {} \/ "failed call" \in drift'
      BY <2>5 DEF Ends, ListsStored, Stored, Blamed
    <3> QED BY <2>0, <2>5, <3>1 DEF Ends, KeepsTask, InPhase
  <2>6. CASE Saves(t)
    <3>1. CASE th[t].op = "delete"
      BY <2>0, <2>6, <2>b, <3>1, NoSpaceAssumption DEF Saves
    <3>2. CASE th[t].op # "delete"
      BY <2>0, <2>6, <3>2 DEF Saves, KeepsTask, InPhase
    <3> QED BY <3>1, <3>2
  <2>7. CASE SaveFails(t)
    BY <2>0, <2>7 DEF SaveFails, KeepsTask, InPhase, Blamed
  <2> QED BY <1>4, <2>1, <2>2, <2>3, <2>4, <2>5, <2>6, <2>7 DEF Inside, StepEffect
<1>5. CASE ComesBack(t)
  BY <1>0, <1>5 DEF ComesBack, Leaves, KeepsRequest, InPhase
<1>6. CASE Queries(t)
  <2>1. th' = th /\ drift' = drift
    BY <1>6 DEF Queries, vars
  <2> QED BY <1>0, <1>6, <2>1 DEF Queries, KeepsRequest, InPhase
<1>7. CASE Writes(t)
  <2>1. th' = th /\ drift' = drift
    BY <1>7 DEF Writes, vars
  <2> QED BY <1>0, <1>7, <2>1 DEF Writes, InPhase
<1>8. CASE Directs(t)
  BY <1>0, <1>8 DEF Directs, Enters, Leaves, InPhase
<1> QED BY <1>1, <1>2, <1>3, <1>4, <1>5, <1>6, <1>7, <1>8 DEF ZoneStepEffect

\* A step of one thread leaves the others and what they have called alone.
LEMMA OneThread ==
  ASSUME NEW t \in Threads, ZoneStepEffect(t)
  PROVE  OthersStay(t) /\ ZOthersStay(t) /\ drift \subseteq drift' /\ zdrift \subseteq zdrift'
<1>1. CASE Asks(t) \/ IsRefused(t) \/ Queries(t) \/ Writes(t)
  BY <1>1 DEF Asks, IsRefused, Queries, Writes, vars, OthersStay
<1>2. CASE Calls(t) \/ ComesBack(t)
  BY <1>2 DEF Calls, ComesBack, Enters, Leaves
<1>3. CASE Inside(t) \/ Directs(t)
  BY <1>3 DEF Inside, StepEffect, Directs, Enters, Leaves, ZOthersStay
<1> QED BY <1>1, <1>2, <1>3 DEF ZoneStepEffect

LEMMA StepPhases ==
  ASSUME ZoneTypeOK, IInv, ListsStored, CallsMatch, \A t \in Threads : InPhase(t),
         NEW t \in Threads, ZoneStepEffect(t)
  PROVE  \A u \in Threads : InPhase(u)'
<1>1. InPhase(t)'
  BY PhaseKept
<1>2. ASSUME NEW u \in Threads, u # t PROVE InPhase(u)'
  <2>1. th'[u] = th[u] /\ zt'[u] = zt[u] /\ drift \subseteq drift' /\ InPhase(u)
    BY <1>2, OneThread DEF OthersStay, ZOthersStay
  <2> QED BY <2>1 DEF InPhase
<1> QED BY <1>1, <1>2

\* A document that is there stays.
LEMMA DocsStay ==
  ASSUME IInv, NEW t \in Threads, ZoneStepEffect(t), NEW i \in SpaceIDs, spaces[i] # Absent
  PROVE  spaces'[i] # Absent
<1>1. spaces' = spaces \/ (th[t].pc = "save" /\ WritesDoc(t))
  BY DEF ZoneStepEffect, Asks, Calls, IsRefused, Inside, ComesBack, Queries, Writes, Directs,
         Enters, Leaves, StepEffect, Works, GivesUp, Skips, Picks, Ends, Saves, SaveFails,
         KeepsDocs, vars
<1>2. CASE th[t].pc = "save" /\ WritesDoc(t)
  <2>1. CASE i = th[t].id
    BY <1>2, <2>1, WritesOne
  <2> QED BY <1>2, <2>1, WritesOne
<1> QED BY <1>1, <1>2

LEMMA StepStored ==
  ASSUME ZoneTypeOK, ZoneTypeOK', IInv, IInv', ListsStored, CallsMatch,
         \A t \in Threads : InPhase(t), NEW t \in Threads, ZoneStepEffect(t)
  PROVE  ListsStored'
<1> USE DEF Adding, Removing
<1>a. ASSUME NEW I, I \subseteq SpaceIDs, Stored(I) PROVE Stored(I)'
  BY <1>a, DocsStay DEF Stored
<1>b. /\ \A z \in ZoneIDs : zones[z].spaces \subseteq SpaceIDs
      /\ \A u \in Threads : zt[u].doc.spaces \subseteq SpaceIDs /\ zt[u].ids \subseteq SpaceIDs
                            /\ th[u].todo \subseteq SpaceIDs /\ th[u].id \in SpaceIDs \cup {NoSpace}
  BY DEF ZoneTypeOK, ZoneHandler, Zone, IInv, TypeOK, Handler
<1>c. /\ \A z \in ZoneIDs : Stored(zones[z].spaces)'
  <2>1. CASE zones' = zones
    BY <1>a, <1>b, <2>1 DEF ListsStored, Stored
  <2>2. CASE Writes(t)
    <3>1. spaces' = spaces
      BY <2>2 DEF Writes, vars
    <3>2. NoDoc.spaces = {}
      BY DEF NoDoc
    <3>3. ASSUME NEW z \in ZoneIDs
          PROVE  zones'[z] = zones[z] \/ zones'[z] = zt[t].doc \/ zones'[z] = NoDoc
      BY <2>2 DEF Writes, KeepsZones
    <3> QED BY <3>1, <3>2, <3>3 DEF ListsStored, Stored
  <2> QED BY <2>1, <2>2 DEF ZoneStepEffect, Asks, Calls, IsRefused, Inside, ComesBack, Queries,
                            Directs, KeepsZones
<1>d. ASSUME NEW u \in Threads, zt'[u] = zt[u] \/ u # t
      PROVE  Stored(zt[u].doc.spaces)' /\ Stored(zt[u].ids)'
  <2>1. zt'[u] = zt[u]
    BY <1>d, OneThread DEF ZOthersStay
  <2> QED BY <1>a, <1>b, <2>1 DEF ListsStored, Stored
<1>e. ASSUME NEW u \in Threads, th'[u] = th[u] \/ u # t
      PROVE  /\ Stored(th[u].todo)'
             /\ th'[u].pc = "ret" /\ th'[u].ok /\ th'[u].op \in {"create", "check"} =>
                  th'[u].id \in SpaceIDs /\ spaces'[th'[u].id] # Absent
  <2>1. th'[u] = th[u]
    BY <1>e, OneThread DEF OthersStay
  <2> QED BY <1>a, <1>b, <2>1, DocsStay DEF ListsStored, Stored
<1>f. ASSUME spaces' = spaces, zt'[t] = ZoneIdle \/ (zt'[t].doc.spaces = zt[t].doc.spaces /\ KeepsRequest(t))
      PROVE  Stored(zt[t].doc.spaces)' /\ Stored(zt[t].ids)'
  BY <1>f DEF ListsStored, Stored, KeepsRequest, ZoneIdle, NoDoc
<1>1. CASE Asks(t)
  <2>1. /\ zt'[t].doc.spaces \subseteq zones[zt'[t].zone].spaces
        /\ zt'[t].ids \subseteq zones[zt'[t].zone].spaces
        /\ zt'[t].zone \in ZoneIDs /\ spaces' = spaces /\ th' = th
    BY <1>1 DEF Asks, vars
  <2>2. Stored(zt[t].doc.spaces)' /\ Stored(zt[t].ids)'
    BY <2>1 DEF ListsStored, Stored
  <2> QED BY <1>c, <1>d, <1>e, <2>1, <2>2 DEF ListsStored
<1>2. CASE Calls(t)
  <2>1. spaces' = spaces /\ zt'[t].doc.spaces = zt[t].doc.spaces /\ KeepsRequest(t) /\ th'[t].pc # "ret"
    BY <1>2 DEF Calls, Enters
  <2>2. Stored(th[t].todo)'
    BY <1>2 DEF Calls, Enters, ListsStored, Stored
  <2> QED BY <1>c, <1>d, <1>e, <1>f, <2>1, <2>2 DEF ListsStored
<1>3. CASE IsRefused(t) \/ Queries(t) \/ Writes(t)
  <2>1. spaces' = spaces /\ th' = th
    BY <1>3 DEF IsRefused, Queries, Writes, vars
  <2>2. zt'[t] = ZoneIdle \/ (zt'[t].doc.spaces = zt[t].doc.spaces /\ KeepsRequest(t))
    BY <1>3 DEF IsRefused, Queries, Writes
  <2> QED BY <1>c, <1>d, <1>e, <1>f, <2>1, <2>2 DEF ListsStored
<1>4. CASE Inside(t)
  <2>0. zt' = zt /\ StepEffect(t)
    BY <1>4 DEF Inside
  <2>1. th'[t].todo \subseteq th[t].todo
    BY <2>0 DEF StepEffect, Works, GivesUp, Skips, Picks, Ends, Saves, SaveFails, KeepsTask
  <2>2. Stored(th[t].todo)'
    BY <1>a, <1>b, <2>1 DEF ListsStored, Stored
  <2>3. ASSUME th'[t].pc = "ret", th'[t].ok, th'[t].op \in {"create", "check"}
        PROVE  th'[t].id \in SpaceIDs /\ spaces'[th'[t].id] # Absent
    <3>1. Saves(t) /\ th'[t].id = th[t].id
      BY <2>0, <2>3 DEF StepEffect, Works, GivesUp, Skips, Picks, Ends, Saves, SaveFails, KeepsTask,
                        BusyPcs, CallsMatch
    <3> QED BY <3>1, WritesOne DEF Saves
  <2> QED BY <1>c, <1>d, <1>e, <2>0, <2>2, <2>3 DEF ListsStored
<1>5. CASE ComesBack(t)
  <2>0. spaces' = spaces /\ th'[t] = Idle /\ Stored({})'
    BY <1>5 DEF ComesBack, Leaves, Stored
  <2>1. th'[t].pc # "ret" /\ Stored(th[t].todo)'
    BY <2>0 DEF Idle
  <2>2. CASE zt'[t] = ZoneIdle \/ (zt'[t].doc.spaces = zt[t].doc.spaces /\ KeepsRequest(t))
    BY <1>c, <1>d, <1>e, <1>f, <2>0, <2>1, <2>2 DEF ListsStored
  <2>3. CASE /\ zt[t].op # "cancel" /\ zt'[t].pc = "set" /\ KeepsRequest(t)
             /\ zt[t].op \notin Removing => th[t].ok
             /\ zt'[t].doc.spaces = IF zt[t].op = "mapdeduct" THEN zt[t].doc.spaces \ zt[t].ids
                                    ELSE zt[t].doc.spaces \cup {th[t].id}
    <3>1. zt[t].op # "mapdeduct" => spaces[th[t].id] # Absent
      BY <1>5, <2>3 DEF ComesBack, Leaves, CallsMatch, ListsStored
    <3>2. Stored(zt[t].doc.spaces)' /\ Stored(zt[t].ids)'
      BY <2>0, <2>3, <3>1 DEF ListsStored, Stored, KeepsRequest
    <3> QED BY <1>c, <1>d, <1>e, <2>1, <3>2 DEF ListsStored
  <2> QED BY <1>5, <2>2, <2>3 DEF ComesBack
<1>6. CASE Directs(t)
  <2>1. zt' = zt /\ th'[t].pc # "ret" /\ th'[t].todo = {}
    BY <1>6 DEF Directs, Enters, Leaves, Idle
  <2>2. Stored(th[t].todo)'
    BY <2>1 DEF Stored
  <2> QED BY <1>c, <1>d, <1>e, <2>1, <2>2 DEF ListsStored
<1> QED BY <1>1, <1>2, <1>3, <1>4, <1>5, <1>6 DEF ZoneStepEffect

\* A handler that is not stale goes on holding what its zone lists.
LEMMA StepSpacesHeld ==
  ASSUME ZoneTypeOK, MembersHeld, CallsMatch, \A u \in Threads : InPhase(u),
         \A u \in Threads : HoldsSpaces(u), NEW t \in Threads, ZoneStepEffect(t)
  PROVE  \A u \in Threads : HoldsSpaces(u)'
<1> USE DEF Adding, Removing
<1>0. ZoneIdle.pc = "idle" /\ HoldsSpaces(t) /\ InPhase(t)
  BY DEF ZoneIdle
<1>1. ASSUME NEW u \in Threads, zt'[u] = zt[u], zt[u].pc # "idle" => zones'[zt[u].zone] = zones[zt[u].zone],
             u \notin zstale' => u \notin zstale
      PROVE  HoldsSpaces(u)'
  <2>1. HoldsSpaces(u)
    OBVIOUS
  <2> QED BY <1>1, <2>1 DEF HoldsSpaces
<1>2. ASSUME NEW u \in Threads, u # t PROVE HoldsSpaces(u)'
  <2>1. zt'[u] = zt[u]
    BY <1>2, OneThread DEF ZOthersStay
  <2>2. CASE zones' = zones /\ (zstale' = zstale \/ zstale' = zstale \ {t})
    BY <1>1, <1>2, <2>1, <2>2
  <2>3. CASE Writes(t) /\ zstale' = WriteZone(t)
    <3>1. CASE zt[u].zone = zt[t].zone
      <4>1. u \in zstale'
        BY <1>2, <2>3, <3>1 DEF WriteZone
      <4> QED BY <4>1 DEF HoldsSpaces
    <3>2. CASE zt[u].zone # zt[t].zone
      <4>1. zt[u].pc # "idle" => zones'[zt[u].zone] = zones[zt[u].zone]
        BY <2>3, <3>2 DEF Writes, KeepsZones, MembersHeld, HoldsMembers
      <4>2. u \notin zstale' => u \notin zstale
        BY <1>2, <2>3 DEF WriteZone
      <4> QED BY <1>1, <2>1, <4>1, <4>2
    <3> QED BY <3>1, <3>2
  <2> QED BY <2>2, <2>3 DEF ZoneStepEffect, Asks, Calls, IsRefused, Inside, ComesBack, Queries,
                            Writes, Directs, KeepsZones
<1>3. HoldsSpaces(t)'
  <2>1. CASE Asks(t)
    BY <2>1 DEF Asks, HoldsSpaces, Sharing
  <2>2. CASE Calls(t)
    BY <1>0, <2>2 DEF Calls, KeepsRequest, KeepsZones, HoldsSpaces
  <2>3. CASE zt'[t] = ZoneIdle
    BY <1>0, <2>3 DEF HoldsSpaces
  <2>4. CASE Inside(t) \/ Directs(t)
    BY <1>0, <2>4 DEF Inside, Directs, KeepsZones, HoldsSpaces
  <2>5. CASE ComesBack(t) /\ zt'[t].pc = "set" /\ KeepsRequest(t) /\ zt[t].op # "cancel"
             /\ zt'[t].doc.spaces = IF zt[t].op = "mapdeduct" THEN zt[t].doc.spaces \ zt[t].ids
                                    ELSE zt[t].doc.spaces \cup {th[t].id}
    <3>1. zt[t].pc = "wait" /\ KeepsZones /\ zt[t].op \in Adding \cup Removing
      BY <1>0, <2>5 DEF ComesBack, InPhase
    <3>2. t \notin zstale' => zt[t].doc.spaces = zones[zt[t].zone].spaces
      BY <1>0, <3>1 DEF HoldsSpaces, KeepsZones
    <3>3. zt'[t].op \in Adding \cup {"mapdeduct"} /\ zt'[t].op = zt[t].op
      BY <2>5, <3>1 DEF KeepsRequest
    <3> QED BY <1>0, <2>5, <3>1, <3>2, <3>3 DEF HoldsSpaces, KeepsZones, KeepsRequest
  <2>6. CASE ComesBack(t) /\ zt'[t].pc = "remove" /\ KeepsRequest(t) /\ zt'[t].doc = zt[t].doc
    BY <1>0, <2>6 DEF ComesBack, KeepsRequest, KeepsZones, HoldsSpaces
  <2>7. CASE Queries(t) /\ zt'[t].pc = "set" /\ KeepsRequest(t) /\ zt'[t].doc = zt[t].doc
    <3>1. zt[t].pc = "query" /\ zt[t].op = "rename" /\ KeepsZones
      BY <1>0, <2>7 DEF Queries, InPhase
    <3> QED BY <1>0, <2>7, <3>1 DEF KeepsRequest, KeepsZones, HoldsSpaces
  <2> QED BY <2>1, <2>2, <2>3, <2>4, <2>5, <2>6, <2>7
          DEF ZoneStepEffect, IsRefused, ComesBack, Queries, Writes
<1> QED BY <1>2, <1>3

-----------------------------------------------------------------------------
(***************************************************************************)
(* Spaces are accounted for.  First, a clash cannot be resolved without    *)
(* blame: a committed handler ends by writing, and that makes the others   *)
(* at the same zone stale.                                                 *)
(***************************************************************************)
LEMMA CalmBefore ==
  ASSUME NEW t \in Threads, ZoneStepEffect(t), Calm' PROVE Calm
BY OneThread DEF Calm

\* A committed handler stays so, or it writes its zone.
LEMMA CommittedStays ==
  ASSUME NEW t \in Threads, ZoneStepEffect(t), Calm', NEW u \in Threads, Committed(u), InPhase(u)
  PROVE  \/ Committed(u)' /\ zt'[u].zone = zt[u].zone /\ (u \in zstale => u \in zstale')
         \/ u = t /\ Writes(t) /\ zstale' = WriteZone(t) /\ t \notin zstale
<1> USE DEF Adding, Removing
<1>0. Calm /\ ZoneIdle.pc = "idle"
  BY CalmBefore DEF ZoneIdle
<1>1. CASE u # t
  <2>1. th'[u] = th[u] /\ zt'[u] = zt[u]
    BY <1>1, OneThread DEF OthersStay, ZOthersStay
  <2>2. u \in zstale => u \in zstale'
    BY <1>1 DEF ZoneStepEffect, Asks, Calls, IsRefused, Inside, ComesBack, Queries, Writes, Directs,
                KeepsZones, WriteZone
  <2> QED BY <2>1, <2>2 DEF Committed
<1>2. CASE u = t
  <2>1. CASE Asks(t) \/ IsRefused(t) \/ Queries(t) \/ Directs(t)
    BY <1>2, <2>1 DEF Asks, IsRefused, Queries, Directs, Committed
  <2>2. CASE Calls(t)
    BY <1>2, <2>2 DEF Calls, KeepsRequest, KeepsZones, Committed
  <2>3. CASE Inside(t)
    <3>1. zt' = zt /\ zstale' = zstale
      BY <2>3 DEF Inside, KeepsZones
    <3>2. th[t].pc \notin {"ret", "idle"}
      BY <2>3 DEF Inside, StepEffect, Works, GivesUp, Skips, Picks, Ends, Saves, SaveFails, BusyPcs
    <3> QED BY <1>2, <3>1, <3>2 DEF Committed
  <2>4. CASE ComesBack(t)
    <3>1. zt[t].pc = "wait" /\ zstale' = zstale /\ zdrift' = {} /\ th[t].pc = "ret"
      BY <2>4 DEF ComesBack, KeepsZones, Calm, Leaves
    <3>2. zt[t].op \in Removing => th[t].ok
      BY <1>0, <1>2, <3>1 DEF InPhase, Calm
    <3>3. th[t].ok
      BY <1>2, <3>1, <3>2 DEF Committed
    <3> QED BY <1>2, <2>4, <3>1, <3>3 DEF ComesBack, KeepsRequest, Committed
  <2>5. CASE Writes(t)
    BY <1>2, <2>5 DEF Writes, Calm, Committed
  <2> QED BY <2>1, <2>2, <2>3, <2>4, <2>5 DEF ZoneStepEffect
<1> QED BY <1>1, <1>2

LEMMA ClashStays ==
  ASSUME NEW t \in Threads, ZoneStepEffect(t), Calm', Clash, \A u \in Threads : InPhase(u)
  PROVE  Clash'
<1>1. PICK u \in Threads :
        /\ Committed(u)
        /\ u \in zstale \/ \E v \in Threads \ {u} : Committed(v) /\ zt[v].zone = zt[u].zone
  BY DEF Clash
<1>2. CASE u \in zstale
  BY <1>1, <1>2, CommittedStays DEF Clash
<1>3. ASSUME NEW v \in Threads \ {u}, Committed(v), zt[v].zone = zt[u].zone PROVE Clash'
  <2>1. ASSUME NEW a \in Threads, NEW b \in Threads, a # b, a = t, Committed(b),
               zt[a].zone = zt[b].zone, Writes(t), zstale' = WriteZone(t)
        PROVE  Clash'
    <3>1. b \in zstale'
      BY <2>1 DEF WriteZone
    <3>2. Committed(b)'
      BY <2>1, CommittedStays
    <3> QED BY <3>1, <3>2 DEF Clash
  <2>2. CASE u = t /\ Writes(t) /\ zstale' = WriteZone(t)
    BY <1>3, <2>1, <2>2
  <2>3. CASE v = t /\ Writes(t) /\ zstale' = WriteZone(t)
    BY <1>1, <1>3, <2>1, <2>3
  <2>4. CASE /\ Committed(u)' /\ zt'[u].zone = zt[u].zone
             /\ Committed(v)' /\ zt'[v].zone = zt[v].zone
    BY <1>3, <2>4 DEF Clash
  <2>5. \/ Committed(u)' /\ zt'[u].zone = zt[u].zone
        \/ u = t /\ Writes(t) /\ zstale' = WriteZone(t)
    BY <1>1, CommittedStays
  <2>6. \/ Committed(v)' /\ zt'[v].zone = zt[v].zone
        \/ v = t /\ Writes(t) /\ zstale' = WriteZone(t)
    BY <1>3, CommittedStays
  <2> QED BY <2>2, <2>3, <2>4, <2>5, <2>6
<1> QED BY <1>1, <1>2, <1>3

-----------------------------------------------------------------------------
\* Only a committed handler has spaces in flux; without a clash it is alone at
\* its zone and has read what the zone lists.
LEMMA FluxCommitted ==
  ASSUME NEW t \in Threads, NEW i, HasEntered(t, i) \/ HasDropped(t, i), InPhase(t)
  PROVE  Committed(t)
BY DEF HasEntered, HasDropped, Committed

LEMMA CommittedAlone ==
  ASSUME ~Clash, NEW t \in Threads, Committed(t), \A u \in Threads : InPhase(u)
  PROVE  /\ t \notin zstale
         /\ \A u \in Threads, i \in SpaceIDs :
              u # t /\ zt[u].zone = zt[t].zone => ~HasEntered(u, i) /\ ~HasDropped(u, i)
BY FluxCommitted DEF Clash

\* What a zone will list changes only by what the zone lists, and by what the
\* thread that takes the step has in flux.
SameEntered(t, z, i) ==
  (zt'[t].zone = z /\ HasEntered(t, i)') <=> (zt[t].zone = z /\ HasEntered(t, i))
SameDropped(t, z, i) ==
  (zt'[t].zone = z /\ HasDropped(t, i)') <=> (zt[t].zone = z /\ HasDropped(t, i))

LEMMA SameAdds ==
  ASSUME NEW t \in Threads, ZoneStepEffect(t), NEW z, NEW i, SameEntered(t, z, i)
  PROVE  Adds(z, i)' <=> Adds(z, i)
<1>1. ASSUME NEW u \in Threads, u # t PROVE zt'[u] = zt[u] /\ th'[u] = th[u]
  BY <1>1, OneThread DEF OthersStay, ZOthersStay
<1>2. ASSUME NEW u \in Threads
      PROVE  (zt'[u].zone = z /\ HasEntered(u, i)') <=> (zt[u].zone = z /\ HasEntered(u, i))
  <2>1. CASE u = t
    BY <2>1 DEF SameEntered
  <2>2. CASE u # t
    BY <1>1, <2>2 DEF HasEntered
  <2> QED BY <2>1, <2>2
<1> QED BY <1>2 DEF Adds

LEMMA SameDrops ==
  ASSUME NEW t \in Threads, ZoneStepEffect(t), NEW z, NEW i, SameDropped(t, z, i)
  PROVE  Drops(z, i)' <=> Drops(z, i)
<1>1. ASSUME NEW u \in Threads, u # t PROVE zt'[u] = zt[u] /\ th'[u] = th[u]
  BY <1>1, OneThread DEF OthersStay, ZOthersStay
<1>2. ASSUME NEW u \in Threads
      PROVE  (zt'[u].zone = z /\ HasDropped(u, i)') <=> (zt[u].zone = z /\ HasDropped(u, i))
  <2>1. CASE u = t
    BY <2>1 DEF SameDropped
  <2>2. CASE u # t
    BY <1>1, <2>2 DEF HasDropped
  <2> QED BY <2>1, <2>2
<1> QED BY <1>2 DEF Drops

LEMMA SameLists ==
  ASSUME NEW t \in Threads, ZoneStepEffect(t), NEW z, NEW i, zones'[z] = zones[z],
         SameEntered(t, z, i), SameDropped(t, z, i)
  PROVE  WillList(z, i)' <=> WillList(z, i)
BY SameAdds, SameDrops DEF WillList

LEMMA SameOwner ==
  ASSUME NEW i, OneOwner(i), Active(i)' <=> Active(i),
         \A z \in ZoneIDs : WillList(z, i)' <=> WillList(z, i)
  PROVE  OneOwner(i)'
BY DEF OneOwner

\* A step that changes neither the zones nor what is in flux.
LEMMA QuietStep ==
  ASSUME NEW t \in Threads, ZoneStepEffect(t), zones' = zones, NEW i \in SpaceIDs, OneOwner(i),
         Active(i)' <=> Active(i),
         \/ /\ ~HasEntered(t, i) /\ ~HasDropped(t, i)
            /\ ~HasEntered(t, i)' /\ ~HasDropped(t, i)'
         \/ /\ HasEntered(t, i)' <=> HasEntered(t, i)
            /\ HasDropped(t, i)' <=> HasDropped(t, i)
            /\ zt'[t].zone = zt[t].zone
  PROVE  OneOwner(i)'
<1>1. ASSUME NEW z \in ZoneIDs PROVE WillList(z, i)' <=> WillList(z, i)
  <2>1. SameEntered(t, z, i) /\ SameDropped(t, z, i)
    BY DEF SameEntered, SameDropped
  <2> QED BY <2>1, SameLists
<1> QED BY <1>1, SameOwner

\* Requests, calls and queries leave the spaces and what is in flux alone.
LEMMA OutsideOwner ==
  ASSUME NEW t \in Threads, InPhase(t), NEW i \in SpaceIDs, OneOwner(i),
         Asks(t) \/ Calls(t) \/ IsRefused(t) \/ Queries(t) \/ Directs(t)
  PROVE  OneOwner(i)'
<1> USE DEF Adding, Removing, Sharing
<1>0. ZoneIdle.pc = "idle" /\ ZoneStepEffect(t)
  BY DEF ZoneIdle, ZoneStepEffect
<1>1. zones' = zones /\ spaces' = spaces
  BY DEF Asks, Calls, IsRefused, Queries, Directs, Enters, Leaves, KeepsZones, vars
<1>2. ~HasEntered(t, i) /\ ~HasDropped(t, i)
  BY DEF Asks, Calls, IsRefused, Queries, Directs, HasEntered, HasDropped
<1>3. ~HasEntered(t, i)' /\ ~HasDropped(t, i)'
  <2>1. CASE Asks(t)
    BY <2>1 DEF Asks, HasEntered, HasDropped
  <2>2. CASE Calls(t)
    BY <2>2 DEF Calls, Enters, KeepsRequest, HasEntered, HasDropped
  <2>3. CASE IsRefused(t)
    BY <1>0, <2>3 DEF IsRefused, HasEntered, HasDropped
  <2>4. CASE Queries(t)
    BY <1>0, <2>4 DEF Queries, KeepsRequest, InPhase, HasEntered, HasDropped
  <2>5. CASE Directs(t)
    BY <2>5 DEF Directs, HasEntered, HasDropped
  <2> QED BY <2>1, <2>2, <2>3, <2>4, <2>5
<1> QED BY <1>0, <1>1, <1>2, <1>3, QuietStep DEF Active

\* The handler inside the space service belongs to a call of the zone service,
\* or to a direct request.
LEMMA InsideKind ==
  ASSUME ZoneTypeOK, CallsMatch, NEW t \in Threads, InPhase(t), Inside(t)
  PROVE  /\ th[t].op \in {"create", "check"} => zt[t].pc = "wait" /\ zt[t].op \in Adding
         /\ th[t].op = "delete" => zt[t].pc = "wait" /\ zt[t].op \in Removing
         /\ th[t].op \in {"rename", "resize"} => zt[t].pc = "idle"
         /\ th[t].pc \notin {"idle", "ret"}
<1>1. th[t].pc \notin {"idle", "ret"}
  BY DEF Inside, StepEffect, Works, GivesUp, Skips, Picks, Ends, Saves, SaveFails, BusyPcs
<1>2. zt[t].pc \in {"idle", "call", "wait", "query", "set", "remove"}
  BY DEF ZoneTypeOK, ZoneHandler
<1>3. CASE zt[t].pc = "idle"
  BY <1>1, <1>3 DEF InPhase
<1>4. CASE zt[t].pc = "wait"
  BY <1>1, <1>4 DEF InPhase, CallsMatch, Adding, Removing
<1> QED BY <1>1, <1>2, <1>3, <1>4 DEF InPhase

\* A step inside the space service that does not write the space document.
LEMMA InsideOwner ==
  ASSUME ZoneTypeOK, CallsMatch, NEW t \in Threads, InPhase(t), NEW i \in SpaceIDs, OneOwner(i),
         Inside(t), Calm', ~Saves(t)
  PROVE  OneOwner(i)'
<1> USE DEF Adding, Removing
<1>0. /\ zt' = zt /\ zones' = zones /\ ZoneStepEffect(t) /\ i # NoSpace
      /\ th[t].pc \notin {"idle", "ret"} /\ (th[t].pc = "get" => th[t].op = "delete")
  BY InsideKind, NoSpaceAssumption DEF Inside, KeepsZones, ZoneStepEffect, CallsMatch
<1>1. Works(t) \/ GivesUp(t) \/ Picks(t) \/ Ends(t)
  BY DEF Inside, StepEffect, Skips, SaveFails, Calm, Blamed
<1>2. spaces' = spaces
  BY <1>1 DEF Works, GivesUp, Picks, Ends, KeepsDocs
<1>3. HasEntered(t, i)' <=> HasEntered(t, i)
  <2>1. ~HasEntered(t, i)
    BY <1>0 DEF HasEntered, InPhase
  <2>2. CASE Works(t) \/ GivesUp(t) \/ Picks(t)
    BY <1>0, <2>1, <2>2 DEF Works, GivesUp, Picks, HasEntered, InPhase, BusyPcs
  <2>3. CASE Ends(t)
    <3>1. zt[t].op \in Removing
      BY <1>0, <2>3, InsideKind DEF Ends
    <3> QED BY <1>0, <2>1, <3>1 DEF HasEntered
  <2> QED BY <1>1, <2>2, <2>3
<1>4. HasDropped(t, i)' <=> HasDropped(t, i)
  <2>1. CASE Works(t) \/ GivesUp(t) \/ Ends(t)
    BY <1>0, <2>1 DEF Works, GivesUp, Ends, KeepsTask, HasDropped
  <2>2. CASE Picks(t)
    <3>1. PICK j \in th[t].todo : th'[t].id = j /\ th'[t].todo = th[t].todo \ {j}
      BY <2>2 DEF Picks
    <3>2. th[t].id = NoSpace
      BY <1>0, <2>2 DEF Picks, InPhase
    <3> QED BY <1>0, <3>1, <3>2 DEF HasDropped
  <2> QED BY <1>1, <2>1, <2>2
<1> QED BY <1>0, <1>2, <1>3, <1>4, QuietStep DEF Active

\* SpaceCreate, SpaceCheck: the space becomes active and waits to be listed.
LEMMA ActivateOwner ==
  ASSUME IInv, ZoneTypeOK, CallsMatch, MembersHeld, CopiesHeld, NEW t \in Threads, InPhase(t),
         NEW i \in SpaceIDs, OneOwner(i), Inside(t), Calm', Saves(t),
         th[t].op \in {"create", "check"}
  PROVE  OneOwner(i)'
<1> USE DEF Adding, Removing
<1>0. /\ zt' = zt /\ zones' = zones /\ ZoneStepEffect(t) /\ th[t].pc = "save"
      /\ zt[t].pc = "wait" /\ zt[t].op \in Adding
  BY InsideKind DEF Inside, KeepsZones, ZoneStepEffect, Saves
<1>1. /\ th'[t].pc = "ret" /\ th'[t].ok /\ th'[t].id = th[t].id /\ th'[t].op = th[t].op
      /\ th'[t].todo = th[t].todo
  BY DEF Saves, KeepsTask
<1>2. /\ th[t].id \in SpaceIDs /\ spaces'[th[t].id] = th[t].doc
      /\ \A j \in SpaceIDs : j # th[t].id => spaces'[j] = spaces[j]
  BY <1>0, WritesOne DEF Saves
<1>3. ~Active(th[t].id) /\ th[t].doc.status
  <2>1. ~SpaceStale(t)
    BY DEF Saves, Calm, Blamed
  <2>2. HoldsCopy(t)
    BY DEF CopiesHeld
  <2> QED BY <1>0, <2>1, <2>2 DEF HoldsCopy, BusyPcs
<1>4. /\ HasEntered(t, i)' <=> i = th[t].id
      /\ ~HasEntered(t, i) /\ ~HasDropped(t, i) /\ ~HasDropped(t, i)'
  BY <1>0, <1>1 DEF HasEntered, HasDropped
<1>5. CASE i # th[t].id
  <2>1. Active(i)' <=> Active(i)
    BY <1>2, <1>5 DEF Active
  <2> QED BY <1>0, <1>4, <1>5, <2>1, QuietStep
<1>6. CASE i = th[t].id
  <2>1. Active(i)' /\ ~Active(i)
    BY <1>2, <1>3, <1>6 DEF Active
  <2>2. zt[t].zone \in ZoneIDs
    BY <1>0 DEF MembersHeld, HoldsMembers
  <2>3. PICK z0 \in ZoneIDs : z0 = zt[t].zone
    BY <2>2
  <2>4. ASSUME NEW z \in ZoneIDs, WillList(z, i)' PROVE z = zt[t].zone
    <3>1. SUFFICES ASSUME z # zt[t].zone PROVE FALSE
      OBVIOUS
    <3>2. SameEntered(t, z, i) /\ SameDropped(t, z, i)
      BY <1>0, <3>1 DEF SameEntered, SameDropped
    <3>3. WillList(z, i)
      BY <1>0, <2>4, <3>2, SameLists
    <3> QED BY <2>1, <3>3 DEF OneOwner
  <2>5. WillList(z0, i)'
    BY <1>0, <1>4, <1>6, <2>3 DEF WillList, Adds
  <2> QED BY <2>1, <2>4, <2>5 DEF OneOwner
<1> QED BY <1>5, <1>6

\* SpaceDelete: the space becomes inactive and waits to be struck off the list.
LEMMA DeactivateOwner ==
  ASSUME IInv, ZoneTypeOK, CallsMatch, MembersHeld, CopiesHeld, ~Clash,
         \A u \in Threads : InPhase(u) /\ HoldsSpaces(u),
         NEW t \in Threads, NEW i \in SpaceIDs, OneOwner(i), Inside(t), Calm', Saves(t),
         th[t].op = "delete"
  PROVE  OneOwner(i)'
<1> USE DEF Adding, Removing
<1>k. PICK z0, k : z0 = zt[t].zone /\ k = th[t].id
  OBVIOUS
<1> USE <1>k
<1>0. /\ zt' = zt /\ zones' = zones /\ ZoneStepEffect(t) /\ th[t].pc = "save"
      /\ zt[t].pc = "wait" /\ zt[t].op \in Removing /\ InPhase(t)
  BY InsideKind DEF Inside, KeepsZones, ZoneStepEffect, Saves
<1>1. /\ th'[t].pc = "get" /\ th'[t].id = NoSpace /\ th'[t].todo = th[t].todo
  BY DEF Saves
<1>2. /\ k \in SpaceIDs /\ spaces'[k] = th[t].doc
      /\ \A j \in SpaceIDs : j # k => spaces'[j] = spaces[j]
  BY <1>0, WritesOne DEF Saves
<1>3. ~th[t].doc.status
  <2>1. HoldsCopy(t)
    BY DEF CopiesHeld
  <2> QED BY <1>0, <2>1 DEF HoldsCopy, BusyPcs
<1>4. k \in zt[t].ids /\ k \notin th[t].todo /\ i # NoSpace /\ k # NoSpace
  BY <1>0, <1>2, NoSpaceAssumption DEF InPhase
<1>5. /\ ~HasEntered(t, i) /\ ~HasEntered(t, i)'
      /\ i # k => (HasDropped(t, i)' <=> HasDropped(t, i))
      /\ HasDropped(t, k)' /\ ~HasDropped(t, k)
  BY <1>0, <1>1, <1>4 DEF HasEntered, HasDropped
<1>6. CASE i # k
  <2>1. Active(i)' <=> Active(i)
    BY <1>2, <1>6 DEF Active
  <2> QED BY <1>0, <1>5, <1>6, <2>1, QuietStep
<1>7. CASE i = k
  <2>1. /\ t \notin zstale
        /\ \A u \in Threads : u # t /\ zt[u].zone = z0 => ~HasEntered(u, i) /\ ~HasDropped(u, i)
    BY <1>0, CommittedAlone DEF Committed
  <2>2. i \in zones[z0].spaces /\ z0 \in ZoneIDs
    BY <1>0, <1>4, <1>7, <2>1 DEF HoldsSpaces, MembersHeld, HoldsMembers
  <2>3. ~Drops(z0, i) /\ ~Adds(z0, i)
    BY <1>5, <1>7, <2>1 DEF Drops, Adds
  <2>4. WillList(z0, i)
    BY <2>2, <2>3 DEF WillList
  <2>5. ASSUME NEW z \in ZoneIDs PROVE ~WillList(z, i)'
    <3>1. CASE z = z0
      <4>1. SameEntered(t, z, i)
        BY <1>0, <1>5 DEF SameEntered
      <4>2. ~Adds(z, i)'
        BY <1>0, <2>3, <3>1, <4>1, SameAdds
      <4>3. Drops(z, i)'
        BY <1>0, <1>5, <1>7, <3>1 DEF Drops
      <4> QED BY <4>2, <4>3 DEF WillList
    <3>2. CASE z # z0
      <4>1. SameEntered(t, z, i) /\ SameDropped(t, z, i)
        BY <1>0, <3>2 DEF SameEntered, SameDropped
      <4>2. ~WillList(z, i)
        BY <2>2, <2>4, <3>2 DEF OneOwner
      <4> QED BY <1>0, <4>1, <4>2, SameLists
    <3> QED BY <3>1, <3>2
  <2>6. ~Active(i)'
    BY <1>2, <1>3, <1>7 DEF Active
  <2> QED BY <2>5, <2>6 DEF OneOwner
<1> QED BY <1>6, <1>7

\* SpaceRename, SpaceSizeChange: the status is written back as it was read.
LEMMA RewriteOwner ==
  ASSUME IInv, ZoneTypeOK, CallsMatch, CopiesHeld, NEW t \in Threads, InPhase(t),
         NEW i \in SpaceIDs, OneOwner(i), Inside(t), Calm', Saves(t),
         th[t].op \in {"rename", "resize"}
  PROVE  OneOwner(i)'
<1>0. /\ zt' = zt /\ zones' = zones /\ ZoneStepEffect(t) /\ th[t].pc = "save" /\ zt[t].pc = "idle"
  BY InsideKind DEF Inside, KeepsZones, ZoneStepEffect, Saves
<1>2. /\ th[t].id \in SpaceIDs /\ spaces'[th[t].id] = th[t].doc
      /\ \A j \in SpaceIDs : j # th[t].id => spaces'[j] = spaces[j]
  BY <1>0, WritesOne DEF Saves
<1>3. th[t].doc.status = Active(th[t].id)
  <2>1. ~SpaceStale(t)
    BY DEF Saves, Calm, Blamed
  <2>2. HoldsCopy(t)
    BY DEF CopiesHeld
  <2> QED BY <1>0, <2>1, <2>2 DEF HoldsCopy, BusyPcs
<1>4. Active(i)' <=> Active(i)
  <2>1. CASE i = th[t].id
    BY <1>2, <1>3, <2>1 DEF Active
  <2>2. CASE i # th[t].id
    BY <1>2, <2>2 DEF Active
  <2> QED BY <2>1, <2>2
<1>5. ~HasEntered(t, i) /\ ~HasDropped(t, i) /\ ~HasEntered(t, i)' /\ ~HasDropped(t, i)'
  BY <1>0 DEF HasEntered, HasDropped
<1> QED BY <1>0, <1>4, <1>5, QuietStep

\* The call returns: a new space goes from the result into the document, the
\* spaces to be struck off are all inactive.
LEMMA ReturnOwner ==
  ASSUME ZoneTypeOK, MembersHeld, ~Clash, Calm, \A u \in Threads : InPhase(u) /\ HoldsSpaces(u),
         NEW t \in Threads, NEW i \in SpaceIDs, OneOwner(i), ComesBack(t), Calm'
  PROVE  OneOwner(i)'
<1> USE DEF Adding, Removing
<1>k. PICK z0 : z0 = zt[t].zone
  OBVIOUS
<1>0. /\ zones' = zones /\ spaces' = spaces /\ ZoneStepEffect(t) /\ InPhase(t) /\ zt[t].pc = "wait"
      /\ th[t].pc = "ret" /\ zt[t].op \in Adding \cup Removing /\ ZoneIdle.pc = "idle"
      /\ i # NoSpace
  BY NoSpaceAssumption DEF ComesBack, Leaves, KeepsZones, ZoneStepEffect, InPhase, ZoneIdle
<1>1. CASE zt[t].op \in Removing
  <2>1. th[t].ok /\ th[t].todo = {} /\ th[t].id = NoSpace
    BY <1>0, <1>1 DEF InPhase, Calm
  <2>2. zt'[t].pc \in {"set", "remove"} /\ KeepsRequest(t)
    BY <1>1, <2>1 DEF ComesBack, Calm
  <2>3. ~HasEntered(t, i) /\ ~HasEntered(t, i)' /\ (HasDropped(t, i)' <=> HasDropped(t, i))
    BY <1>0, <1>1, <2>1, <2>2 DEF HasEntered, HasDropped, KeepsRequest
  <2> QED BY <1>0, <2>2, <2>3, QuietStep DEF Active, KeepsRequest
<1>2. CASE zt[t].op \in Adding /\ ~th[t].ok
  <2>1. zt'[t] = ZoneIdle
    BY <1>2 DEF ComesBack
  <2>2. ~HasEntered(t, i) /\ ~HasEntered(t, i)' /\ ~HasDropped(t, i) /\ ~HasDropped(t, i)'
    BY <1>0, <1>2, <2>1 DEF HasEntered, HasDropped
  <2> QED BY <1>0, <2>2, QuietStep DEF Active
<1>3. CASE zt[t].op \in Adding /\ th[t].ok
  <2>1. /\ zt'[t].pc = "set" /\ KeepsRequest(t)
        /\ zt'[t].doc.spaces = zt[t].doc.spaces \cup {th[t].id}
    BY <1>3 DEF ComesBack, Calm
  <2>2. /\ t \notin zstale
        /\ \A u \in Threads : u # t /\ zt[u].zone = z0 => ~HasEntered(u, i) /\ ~HasDropped(u, i)
    BY <1>k, <1>0, <1>3, CommittedAlone DEF Committed
  <2>3. zt[t].doc.spaces = zones[z0].spaces /\ z0 \in ZoneIDs
    BY <1>k, <1>0, <2>2 DEF HoldsSpaces, MembersHeld, HoldsMembers
  <2>4. ~HasDropped(t, i) /\ ~HasDropped(t, i)'
    BY <1>3, <2>1 DEF HasDropped, KeepsRequest
  <2>5. /\ HasEntered(t, i) <=> i = th[t].id
        /\ HasEntered(t, i)' <=> (i \in zones[z0].spaces \/ i = th[t].id)
    BY <1>0, <1>3, <2>1, <2>3 DEF HasEntered, KeepsRequest
  <2>6. ASSUME NEW z \in ZoneIDs PROVE WillList(z, i)' <=> WillList(z, i)
    <3>1. CASE z # z0
      <4>1. SameEntered(t, z, i) /\ SameDropped(t, z, i)
        BY <1>k, <2>1, <3>1 DEF SameEntered, SameDropped, KeepsRequest
      <4> QED BY <1>0, <4>1, SameLists
    <3>2. CASE z = z0
      <4>1. SameDropped(t, z, i)
        BY <2>4 DEF SameDropped
      <4>2. ~Drops(z, i) /\ ~Drops(z, i)'
        BY <1>0, <2>2, <2>4, <3>2, <4>1, SameDrops DEF Drops
      <4>3. Adds(z, i) <=> i = th[t].id
        BY <1>k, <2>2, <2>5, <3>2 DEF Adds
      <4>4. Adds(z, i)' <=> (i \in zones[z0].spaces \/ i = th[t].id)
        <5>1. ASSUME NEW u \in Threads, u # t PROVE ~(zt'[u].zone = z0 /\ HasEntered(u, i)')
          <6>1. zt'[u] = zt[u] /\ th'[u] = th[u]
            BY <1>0, <5>1, OneThread DEF OthersStay, ZOthersStay
          <6> QED BY <2>2, <5>1, <6>1 DEF HasEntered
        <5>2. zt'[t].zone = z0
          BY <1>k, <2>1 DEF KeepsRequest
        <5> QED BY <2>5, <3>2, <5>1, <5>2 DEF Adds
      <4> QED BY <1>0, <3>2, <4>2, <4>3, <4>4 DEF WillList
    <3> QED BY <3>1, <3>2
  <2> QED BY <1>0, <2>6, SameOwner DEF Active
<1> QED BY <1>0, <1>1, <1>2, <1>3

\* The write: what the zone was going to list is what it lists now.
LEMMA WriteOwner ==
  ASSUME ZoneTypeOK, MembersHeld, ~Clash, \A u \in Threads : InPhase(u) /\ HoldsSpaces(u),
         NEW t \in Threads, NEW i \in SpaceIDs, OneOwner(i), Writes(t), Calm'
  PROVE  OneOwner(i)'
<1> USE DEF Adding, Removing
<1>k. PICK z0 : z0 = zt[t].zone
  OBVIOUS
<1>0. /\ z0 \in ZoneIDs /\ spaces' = spaces /\ zt[t].pc \in {"set", "remove"} /\ ZoneStepEffect(t)
      /\ zt'[t].pc = "idle" /\ InPhase(t) /\ HoldsSpaces(t)
      /\ \A z \in ZoneIDs : z # z0 => zones'[z] = zones[z]
      /\ zones'[z0] = IF zt[t].pc = "set" THEN zt[t].doc ELSE NoDoc
  <2>1. zdrift' = {} /\ ZoneIdle.pc = "idle"
    BY DEF Calm, ZoneIdle
  <2>2. spaces' = spaces
    BY DEF Writes, vars
  <2> QED BY <1>k, <2>1, <2>2 DEF Writes, ZoneStepEffect
<1>1. /\ t \notin zstale
      /\ \A u \in Threads : u # t /\ zt[u].zone = z0 => ~HasEntered(u, i) /\ ~HasDropped(u, i)
  BY <1>k, <1>0, CommittedAlone DEF Committed
<1>2. ~HasEntered(t, i)' /\ ~HasDropped(t, i)'
  BY <1>0 DEF HasEntered, HasDropped
<1>3. ASSUME NEW z \in ZoneIDs, z # z0 PROVE WillList(z, i)' <=> WillList(z, i)
  <2>1. SameEntered(t, z, i) /\ SameDropped(t, z, i)
    BY <1>k, <1>2, <1>3 DEF SameEntered, SameDropped
  <2> QED BY <1>0, <1>3, <2>1, SameLists
<1>4. ~Adds(z0, i)' /\ ~Drops(z0, i)'
  <2>1. ASSUME NEW u \in Threads, zt'[u].zone = z0 PROVE ~HasEntered(u, i)' /\ ~HasDropped(u, i)'
    <3>1. CASE u # t
      <4>1. zt'[u] = zt[u] /\ th'[u] = th[u]
        BY <1>0, <3>1, OneThread DEF OthersStay, ZOthersStay
      <4> QED BY <1>1, <2>1, <3>1, <4>1 DEF HasEntered, HasDropped
    <3> QED BY <1>2, <3>1
  <2> QED BY <2>1 DEF Adds, Drops
<1>5. (Adds(z0, i) <=> HasEntered(t, i)) /\ (Drops(z0, i) <=> HasDropped(t, i))
  BY <1>k, <1>1 DEF Adds, Drops
<1>6. i \in zones'[z0].spaces <=>
        (i \in zones[z0].spaces /\ ~HasDropped(t, i)) \/ HasEntered(t, i)
  <2>1. CASE zt[t].pc = "set" /\ zt[t].op \in Adding
    BY <1>k, <1>0, <1>1, <2>1 DEF HoldsSpaces, HasEntered, HasDropped
  <2>2. CASE zt[t].pc = "set" /\ zt[t].op = "mapdeduct"
    BY <1>k, <1>0, <1>1, <2>2 DEF HoldsSpaces, HasEntered, HasDropped
  <2>3. CASE zt[t].pc = "set" /\ zt[t].op \notin Adding \cup {"mapdeduct"}
    <3>1. zt[t].op # "cancel"
      BY <1>0, <2>3 DEF InPhase
    <3> QED BY <1>k, <1>0, <1>1, <2>3, <3>1 DEF HoldsSpaces, HasEntered, HasDropped
  <2>4. CASE zt[t].pc = "remove"
    <3>1. zt[t].op = "cancel" /\ NoDoc.spaces = {}
      BY <1>0, <2>4 DEF InPhase, NoDoc
    <3>2. zt[t].ids = zones[z0].spaces
      BY <1>k, <1>0, <1>1, <2>4, <3>1 DEF HoldsSpaces
    <3> QED BY <1>0, <2>4, <3>1, <3>2 DEF HasEntered, HasDropped
  <2> QED BY <1>0, <2>1, <2>2, <2>3, <2>4
<1>7. WillList(z0, i)' <=> WillList(z0, i)
  BY <1>4, <1>5, <1>6 DEF WillList
<1>8. \A z \in ZoneIDs : WillList(z, i)' <=> WillList(z, i)
  BY <1>3, <1>7
<1> QED BY <1>0, <1>8, SameOwner DEF Active

LEMMA StepAccounted ==
  ASSUME IInv, ZoneTypeOK, MembersHeld, CallsMatch, OwnInv, NEW t \in Threads, ZoneStepEffect(t)
  PROVE  Accounted'
<1> SUFFICES ASSUME Calm', ~Clash', NEW i \in SpaceIDs PROVE OneOwner(i)'
  BY DEF Accounted
<1>1. Calm /\ \A u \in Threads : InPhase(u) /\ HoldsSpaces(u)
  BY CalmBefore DEF OwnInv
<1>2. ~Clash
  BY <1>1, ClashStays
<1>3. OneOwner(i) /\ CopiesHeld
  BY <1>1, <1>2 DEF OwnInv, Accounted
<1>4. CASE Asks(t) \/ Calls(t) \/ IsRefused(t) \/ Queries(t) \/ Directs(t)
  BY <1>1, <1>3, <1>4, OutsideOwner
<1>5. CASE Inside(t) /\ ~Saves(t)
  BY <1>1, <1>3, <1>5, InsideOwner
<1>6. CASE Inside(t) /\ Saves(t)
  <2>1. th[t].op \in {"create", "check", "delete", "resize", "rename"}
    BY DEF IInv, TypeOK, Handler, SpaceOps
  <2> QED BY <1>1, <1>2, <1>3, <1>6, <2>1, ActivateOwner, DeactivateOwner, RewriteOwner
<1>7. CASE ComesBack(t)
  BY <1>1, <1>2, <1>3, <1>7, ReturnOwner
<1>8. CASE Writes(t)
  BY <1>1, <1>2, <1>3, <1>8, WriteOwner
<1> QED BY <1>4, <1>5, <1>6, <1>7, <1>8 DEF ZoneStepEffect

-----------------------------------------------------------------------------
LEMMA InitOwn == ZoneInit => OwnInv
<1> SUFFICES ASSUME ZoneInit PROVE OwnInv
  OBVIOUS
<1>1. /\ \A t \in Threads : th[t] = Idle /\ zt[t] = ZoneIdle
      /\ \A z \in ZoneIDs : zones[z] = NoDoc
      /\ \A i \in SpaceIDs : spaces[i] = Absent
  BY DEF ZoneInit, Init
<1>2. /\ Idle.pc = "idle" /\ Idle.op = "create" /\ Idle.todo = {} /\ ZoneIdle.pc = "idle"
      /\ ZoneIdle.doc.spaces = {} /\ ZoneIdle.ids = {} /\ NoDoc.spaces = {} /\ ~Absent.status
  BY DEF Idle, ZoneIdle, NoDoc, Absent
<1>3. CopiesHeld
  BY <1>1, <1>2 DEF CopiesHeld, HoldsCopy, BusyPcs
<1>4. \A t \in Threads : InPhase(t) /\ HoldsSpaces(t)
  BY <1>1, <1>2 DEF InPhase, HoldsSpaces
<1>5. ListsStored
  BY <1>1, <1>2 DEF ListsStored, Stored
<1>6. ASSUME NEW i \in SpaceIDs PROVE OneOwner(i)
  <2>1. ASSUME NEW z \in ZoneIDs PROVE ~WillList(z, i)
    BY <1>1, <1>2 DEF WillList, Adds, HasEntered
  <2> QED BY <1>1, <1>2, <2>1 DEF OneOwner, Active
<1> QED BY <1>3, <1>4, <1>5, <1>6 DEF OwnInv, Accounted

LEMMA StepOwn ==
  ASSUME IInv, IInv', ZInv, ZInv', MembersHeld, OwnInv, [ZoneNext]_allVars
  PROVE  OwnInv'
<1>0. ZoneTypeOK /\ ZoneTypeOK' /\ CallsMatch
  BY DEF ZInv
<1>1. CASE UNCHANGED allVars
  <2> USE <1>1 DEF allVars, zoneVars, vars
  <2>1. CopiesHeld' /\ ListsStored'
    BY DEF OwnInv, CopiesHeld, HoldsCopy, SpaceStale, Active, ListsStored, Stored
  <2>2. \A t \in Threads : InPhase(t)' /\ HoldsSpaces(t)'
    BY DEF OwnInv, InPhase, HoldsSpaces
  <2>3. Accounted'
    <3>1. /\ Calm' <=> Calm
          /\ Clash' <=> Clash
      BY DEF Calm, Clash, Committed
    <3>2. ASSUME NEW z, NEW i PROVE WillList(z, i)' <=> WillList(z, i)
      <4>1. \A t \in Threads : /\ HasEntered(t, i)' <=> HasEntered(t, i)
                               /\ HasDropped(t, i)' <=> HasDropped(t, i)
        BY DEF HasEntered, HasDropped
      <4> QED BY <4>1 DEF WillList, Adds, Drops
    <3>3. ASSUME NEW i \in SpaceIDs, OneOwner(i) PROVE OneOwner(i)'
      BY <3>2, <3>3, SameOwner DEF Active
    <3> QED BY <3>1, <3>3 DEF OwnInv, Accounted
  <2> QED BY <2>1, <2>2, <2>3 DEF OwnInv
<1>2. ASSUME NEW t \in Threads, ZoneStepEffect(t) PROVE OwnInv'
  <2>1. CopiesHeld'
    BY <1>0, SpaceServiceStep, StepCopies DEF OwnInv
  <2>2. (\A u \in Threads : InPhase(u)') /\ ListsStored'
    BY <1>0, <1>2, StepPhases, StepStored DEF OwnInv
  <2>3. \A u \in Threads : HoldsSpaces(u)'
    BY <1>0, <1>2, StepSpacesHeld DEF OwnInv
  <2>4. Accounted'
    BY <1>0, <1>2, StepAccounted
  <2> QED BY <2>1, <2>2, <2>3, <2>4 DEF OwnInv
<1> QED BY <1>0, <1>1, <1>2, ZoneStepHasEffect

\* When nobody runs, nothing is in flux.
LEMMA OwnedWhenQuiet == OwnInv /\ ZoneTypeOK => ZonesOwnSpaces
<1> SUFFICES ASSUME OwnInv, ZoneTypeOK, ZoneQuiet, zdrift = {},
                    drift \cap {"lost update", "failed call"} = {}
             PROVE  /\ \A i \in SpaceIDs : Active(i) =>
                         Cardinality({z \in ZoneIDs : i \in zones[z].spaces}) = 1
                    /\ \A z \in ZoneIDs : \A i \in zones[z].spaces : Active(i)
  BY DEF ZonesOwnSpaces
<1>1. \A t \in Threads : ~Committed(t) /\ zt[t].pc = "idle"
  BY DEF ZoneQuiet, Committed
<1>2. ~Clash /\ Calm
  BY <1>1 DEF Clash, Calm
<1>3. \A i \in SpaceIDs : OneOwner(i)
  BY <1>2 DEF OwnInv, Accounted
<1>4. \A z \in ZoneIDs, i \in SpaceIDs : WillList(z, i) <=> i \in zones[z].spaces
  BY <1>1 DEF WillList, Adds, Drops, HasEntered, HasDropped
<1>5. ASSUME NEW i \in SpaceIDs, Active(i)
      PROVE  Cardinality({z \in ZoneIDs : i \in zones[z].spaces}) = 1
  <2>1. PICK z \in ZoneIDs : i \in zones[z].spaces
    BY <1>3, <1>4, <1>5 DEF OneOwner
  <2>2. {y \in ZoneIDs : i \in zones[y].spaces} = {z}
    <3>1. ASSUME NEW y \in ZoneIDs, i \in zones[y].spaces PROVE y = z
      BY <1>3, <1>4, <2>1, <3>1 DEF OneOwner
    <3> QED BY <2>1, <3>1
  <2> QED BY <2>2, FS_Singleton
<1>6. ASSUME NEW z \in ZoneIDs, NEW i \in zones[z].spaces PROVE Active(i)
  <2>1. i \in SpaceIDs
    BY DEF ZoneTypeOK, Zone
  <2> QED BY <1>3, <1>4, <2>1 DEF OneOwner
<1> QED BY <1>5, <1>6

\* Whatever ZoneRegister, ZoneAdd, ZoneCancel, MapAdd, MapDeduct and the direct
\* requests to the space service interleave: while no update was lost, no call
\* has failed, no zone without a name was registered and no deduction refused,
\* the zones and the active spaces agree whenever no handler runs.
THEOREM SpacesAlwaysOwned == ZoneSpec => []ZonesOwnSpaces
<1>1. ZoneSpec => []MembersHeld
  BY InitMembersHeld, StepMembersHeld, ZoneTypeCorrect, PTL DEF ZoneSpec
<1>2. IInv /\ IInv' /\ ZInv /\ ZInv' /\ MembersHeld /\ OwnInv /\ [ZoneNext]_allVars => OwnInv'
  BY StepOwn
<1>3. ZoneSpec => []OwnInv
  BY <1>1, <1>2, InitOwn, ZoneInductive, PTL DEF ZoneSpec
<1> QED BY <1>3, OwnedWhenQuiet, ZoneTypeCorrect, PTL

-----------------------------------------------------------------------------
(***************************************************************************)
(* The accounts of the space service.  A handler that has written the      *)
(* storage document and not yet the space document has charged the         *)
(* resource in advance, for the space document it is going to write.       *)
(* While no update is lost, the assigned capacity is the sum over the      *)
(* spaces, each taken as the document that is charged for it, and as the   *)
(* stored one where there is none.                                         *)
(***************************************************************************)
Charged(t) == th[t].pc \in {"mkdir", "save"}
Amount(d) == IF d.status THEN d.size ELSE 0

\* Two handlers have charged for one space, or one for a space that was written meanwhile:
\* one of them is going to lose an update.
Overlap ==
  \/ \E t \in Threads : Charged(t) /\ SpaceStale(t)
  \/ \E t, u \in Threads : t # u /\ Charged(t) /\ Charged(u) /\ th[t].id = th[u].id

\* The id of a new space is known to its handler alone.
OwnsId(t) ==
  /\ th[t].pc = "mkdir" => th[t].op = "create"
  /\ th[t].pc = "get" => th[t].op = "delete"
  /\ th[t].pc \in BusyPcs /\ th[t].op = "create" =>
       /\ spaces[th[t].id] = Absent /\ ~SpaceStale(t)
       /\ \A u \in Threads : u # t => th[u].id # th[t].id
IdsOwned == \A t \in Threads : OwnsId(t)

\* What a handler has read is current, and what it adds or deducts is the difference
\* between the stored document and the one to be written.
SnapFresh(t) ==
  th[t].pc \in {"addset", "dedset"} /\ ~stale[t].stor => th[t].snap = assign[th[t].doc.st]
Priced(t) ==
  th[t].pc \in BusyPcs /\ ~SpaceStale(t) =>
    /\ th[t].pc \in {"add", "addset"} =>
         Amount(th[t].doc) = Amount(spaces[th[t].id]) + th[t].delta
    /\ th[t].pc \in {"ded", "dedset"} =>
         Amount(spaces[th[t].id]) = Amount(th[t].doc) + th[t].delta
    /\ th[t].op # "create" => th[t].doc.st = spaces[th[t].id].st
AllPriced == \A t \in Threads : SnapFresh(t) /\ Priced(t)

\* The capacity of the active spaces of map D on resource s, unit by unit.
Portion(d, s) == IF d.status /\ d.st = s THEN d.size ELSE 0
UnitsAt(D, s) == UNION {{i} \X (1 .. Portion(D[i], s)) : i \in SpaceIDs}

\* D is what the spaces are once all that was charged is written.
DueDocs(D) ==
  /\ D \in [SpaceIDs -> SpaceDoc]
  /\ \A i \in SpaceIDs :
       /\ \A t \in Threads : Charged(t) /\ th[t].id = i => D[i] = th[t].doc
       /\ (\A t \in Threads : Charged(t) => th[t].id # i) => D[i] = spaces[i]
Balanced(D) == \A s \in Storages : IsFiniteSet(UnitsAt(D, s)) /\ assign[s] = Cardinality(UnitsAt(D, s))
Ledger(D) == DueDocs(D) /\ Balanced(D)

AccountsOK ==
  drift = {} => IdsOwned /\ AllPriced /\ (Overlap \/ \E D \in [SpaceIDs -> SpaceDoc] : Ledger(D))

-----------------------------------------------------------------------------
(* Counting units: one document is replaced by another. *)

LEMMA PortionNat ==
  ASSUME NEW d \in SpaceDoc, NEW s
  PROVE  Portion(d, s) \in Nat
BY DEF Portion, SpaceDoc

LEMMA UnitsOfOne ==
  ASSUME NEW i, NEW n \in Nat
  PROVE  IsFiniteSet({i} \X (1 .. n)) /\ Cardinality({i} \X (1 .. n)) = n
<1> DEFINE D == 1 .. n
           f == [k \in D |-> <<i, k>>]
<1>1. f \in Bijection(D, {i} \X D)
  <2> HIDE DEF D
  <2>1. f \in [D -> {i} \X D] /\ \A k \in D : f[k] = <<i, k>>
    OBVIOUS
  <2>2. \A k, m \in D : f[k] = f[m] => k = m
    BY <2>1
  <2>3. \A u \in {i} \X D : \E k \in D : f[k] = u
    BY <2>1
  <2> HIDE DEF f
  <2> QED BY <2>1, <2>2, <2>3 DEF Bijection, Injection, IsInjective, Surjection
<1>2. ExistsBijection(D, {i} \X D)
  BY <1>1 DEF ExistsBijection
<1>3. IsFiniteSet(D) /\ Cardinality(D) = n
  <2>1. 1 \in Int /\ n \in Int /\ (IF 1 > n THEN 0 ELSE n - 1 + 1) = n
    OBVIOUS
  <2> QED BY <2>1, FS_Interval
<1> HIDE DEF D
<1> QED BY <1>2, <1>3, FS_Bijection DEF D

\* Finite sets that have nothing in common.
LEMMA Together ==
  ASSUME NEW U, NEW V, IsFiniteSet(U), IsFiniteSet(V), U \cap V = {}
  PROVE  /\ IsFiniteSet(U \cup V) /\ Cardinality(U) \in Nat
         /\ Cardinality(U \cup V) = Cardinality(U) + Cardinality(V)
<1>1. Cardinality(U) \in Nat /\ Cardinality(V) \in Nat /\ Cardinality({}) = 0
  BY FS_CardinalityType, FS_EmptySet
<1>2. /\ IsFiniteSet(U \cup V)
      /\ Cardinality(U \cup V) = Cardinality(U) + Cardinality(V) - Cardinality(U \cap V)
  BY FS_Union
<1>3. Cardinality(U \cap V) = 0
  BY <1>1, Zenon
<1> QED BY <1>1, <1>2, <1>3

LEMMA UnitsReplaced ==
  ASSUME NEW D, NEW E, NEW s, IsFiniteSet(UnitsAt(D, s)),
         NEW i \in SpaceIDs, D[i] \in SpaceDoc, E[i] \in SpaceDoc,
         \A j \in SpaceIDs : j # i => E[j] = D[j]
  PROVE  /\ IsFiniteSet(UnitsAt(E, s))
         /\ Cardinality(UnitsAt(E, s)) + Portion(D[i], s) =
            Cardinality(UnitsAt(D, s)) + Portion(E[i], s)
<1> DEFINE R == UNION {{j} \X (1 .. Portion(D[j], s)) : j \in SpaceIDs \ {i}}
           P == {i} \X (1 .. Portion(D[i], s))
           Q == {i} \X (1 .. Portion(E[i], s))
<1>1. Portion(D[i], s) \in Nat /\ Portion(E[i], s) \in Nat
  BY PortionNat
<1>2. UnitsAt(D, s) = R \cup P
  BY DEF UnitsAt
<1>3. UnitsAt(E, s) = R \cup Q
  <2>1. \A j \in SpaceIDs \ {i} : E[j] = D[j]
    OBVIOUS
  <2> QED BY <2>1 DEF UnitsAt
<1>4. R \cap P = {} /\ R \cap Q = {}
  OBVIOUS
<1>5. /\ IsFiniteSet(P) /\ Cardinality(P) = Portion(D[i], s)
      /\ IsFiniteSet(Q) /\ Cardinality(Q) = Portion(E[i], s)
  BY <1>1, UnitsOfOne
<1> HIDE DEF R, P, Q
<1>6. R \subseteq UnitsAt(D, s)
  BY <1>2
<1>7. IsFiniteSet(R)
  BY <1>6, FS_Subset
<1>8. Cardinality(R) \in Nat /\ Cardinality(R \cup P) = Cardinality(R) + Cardinality(P)
  BY <1>4, <1>5, <1>7, Together
<1>9. IsFiniteSet(R \cup Q) /\ Cardinality(R \cup Q) = Cardinality(R) + Cardinality(Q)
  BY <1>4, <1>5, <1>7, Together
<1>10. Cardinality(UnitsAt(D, s)) = Cardinality(R) + Portion(D[i], s)
  BY <1>2, <1>5, <1>8
<1>11. IsFiniteSet(UnitsAt(E, s)) /\ Cardinality(UnitsAt(E, s)) = Cardinality(R) + Portion(E[i], s)
  BY <1>3, <1>5, <1>9
<1>12. Cardinality(UnitsAt(E, s)) + Portion(D[i], s) = Cardinality(UnitsAt(D, s)) + Portion(E[i], s)
  <2> DEFINE a == Portion(D[i], s)
             b == Portion(E[i], s)
             c == Cardinality(R)
  <2>1. a \in Nat /\ b \in Nat /\ c \in Nat
    BY <1>1, <1>8
  <2>2. Cardinality(UnitsAt(D, s)) = c + a /\ Cardinality(UnitsAt(E, s)) = c + b
    BY <1>10, <1>11
  <2> HIDE DEF a, b, c
  <2>3. (c + b) + a = (c + a) + b
    BY <2>1
  <2> QED BY <2>2, <2>3 DEF a, b
<1> QED BY <1>11, <1>12

LEMMA UnitsAreCapacity ==
  ASSUME NEW s, spaces \in [SpaceIDs -> SpaceDoc]
  PROVE  ActiveCapacity(s) = Cardinality(UnitsAt(spaces, s))
<1> DEFINE A == UNION {{i} \X (1 .. spaces[i].size) : i \in {j \in SpaceIDs : Active(j) /\ spaces[j].st = s}}
<1>1. A \subseteq UnitsAt(spaces, s)
  BY DEF UnitsAt, Portion, Active
<1>2. UnitsAt(spaces, s) \subseteq A
  <2> SUFFICES ASSUME NEW i \in SpaceIDs, NEW x \in {i} \X (1 .. Portion(spaces[i], s))
               PROVE  x \in A
    BY DEF UnitsAt
  <2> DEFINE n == Portion(spaces[i], s)
  <2>0. 1 .. n # {}
    OBVIOUS
  <2>1. n # 0
    <3> HIDE DEF n
    <3>1. n = 0 => 1 .. n = {}
      BY SMT
    <3> QED BY <2>0, <3>1
  <2>2. Active(i) /\ spaces[i].st = s /\ n = spaces[i].size
    BY <2>1 DEF Portion, Active
  <2> HIDE DEF n
  <2>3. x \in {i} \X (1 .. spaces[i].size)
    BY <2>2 DEF n
  <2> QED BY <2>2, <2>3
<1>3. A = UnitsAt(spaces, s)
  BY <1>1, <1>2
<1> QED BY <1>3 DEF ActiveCapacity

-----------------------------------------------------------------------------
(* What a step does to the accounts while no cause of drift occurs. *)

StaleElse(t) == \A u \in Threads : u # t => stale'[u] = stale[u]
SameStores == assign' = assign /\ spaces' = spaces
Stops(t) == /\ th'[t].pc \notin BusyPcs /\ th'[t].id \in {th[t].id, NoSpace}
            /\ th'[t].pc = "get" => th'[t].op = "delete"
Leads(t) == KeepsTask(t) /\ th'[t].doc = th[t].doc /\ th'[t].delta = th[t].delta

\* The handler begins or ends without having charged anything, or goes on to the next space.
Rests(t) ==
  /\ Charged(t) => th[t].pc = "mkdir" /\ th[t].doc.size = 0
  /\ Stops(t) /\ SameStores /\ StaleElse(t)
\* It takes up a space: a new one, or one that is stored.
Starts(t) ==
  /\ th[t].pc \notin BusyPcs /\ th'[t].pc \in {"add", "ded", "save"} /\ SameStores /\ StaleElse(t)
  /\ th'[t].id \in SpaceIDs /\ ~SpaceStale(t)' /\ Priced(t)'
  /\ IF th'[t].op = "create"
     THEN spaces[th'[t].id] = Absent /\ \A u \in Threads : th[u].id # th'[t].id
     ELSE spaces[th'[t].id] # Absent
  /\ th'[t].pc = "save" => th'[t].doc = spaces[th'[t].id]
ReadsStorage(t) ==
  /\ th[t].pc \in {"add", "ded"} /\ th'[t].pc = IF th[t].pc = "add" THEN "addset" ELSE "dedset"
  /\ Leads(t) /\ SameStores /\ StaleElse(t) /\ (SpaceStale(t)' <=> SpaceStale(t))
  /\ th'[t].snap = assign[th[t].doc.st]
Pays(t) ==
  /\ th[t].pc \in {"addset", "dedset"} /\ ~stale[t].stor
  /\ th'[t].pc = IF th[t].op = "create" THEN "mkdir" ELSE "save"
  /\ Leads(t) /\ KeepsDocs
  /\ assign' = [assign EXCEPT ![th[t].doc.st] = IF th[t].pc = "addset"
                                                 THEN th[t].snap + th[t].delta
                                                 ELSE th[t].snap - th[t].delta]
  /\ \A u \in Threads : u # t =>
       (stale'[u].stor <=> \/ stale[u].stor
                           \/ th[u].pc \in {"addset", "dedset"} /\ th[u].doc.st = th[t].doc.st)
Makes(t) == /\ th[t].pc = "mkdir" /\ th'[t].pc = "save" /\ Leads(t) /\ SameStores
            /\ stale' = stale
Settles(t) ==
  /\ th[t].pc = "save" /\ Stops(t)
  /\ ~SpaceStale(t) /\ WritesDoc(t) /\ assign' = assign
  /\ \A u \in Threads : stale'[u].stor <=> stale[u].stor

AccountEffect(t) ==
  /\ drift = {} /\ OthersStay(t)
  /\ \/ Rests(t) \/ Starts(t) \/ ReadsStorage(t) \/ Pays(t) \/ Makes(t) \/ Settles(t)

LEMMA NotBlamed ==
  ASSUME NEW cause, NEW cond, Blame(cause, cond), drift' = {}
  PROVE  drift = {} /\ ~cond
BY DEF Blame

\* Calls of the operations.
LEMMA StartOfOne ==
  ASSUME IInv, NEW t \in Threads, NEW r, Begin(t, r), r.pc \in {"add", "ded", "save"},
         r.id \in SpaceIDs, r.op # "create", spaces[r.id] # Absent,
         r.pc = "save" => r.doc = spaces[r.id],
         r.pc = "add" => Amount(r.doc) = Amount(spaces[r.id]) + r.delta,
         r.pc = "ded" => Amount(spaces[r.id]) = Amount(r.doc) + r.delta,
         r.doc.st = spaces[r.id].st
  PROVE  Starts(t)
<1>1. th'[t] = r /\ th[t].pc = "idle" /\ ~SpaceStale(t)'
  BY BeginEffect
<1>2. SameStores /\ StaleElse(t)
  BY DEF Begin, SameStores, StaleElse, IInv, TypeOK
<1>3. Priced(t)'
  BY <1>1, <1>2 DEF Priced, SameStores
<1> QED BY <1>1, <1>2, <1>3 DEF Starts, BusyPcs

LEMMA CallAccounts ==
  ASSUME IInv, NEW t \in Threads, Call(t), drift' = {}
  PROVE  AccountEffect(t)
<1>0. drift = {} /\ OthersStay(t)
  BY CallEffect DEF Enters
<1>1. ASSUME NEW size \in Sizes, NEW named \in BOOLEAN, SpaceCreate(t, size, named)
      PROVE  Starts(t)
  <2>1. PICK s \in Storages, i \in SpaceIDs :
          /\ spaces[i] = Absent /\ \A u \in Threads : th[u].id # i
          /\ Begin(t, [Idle EXCEPT !.pc = "add", !.op = "create", !.id = i, !.delta = size,
                                   !.doc = [st |-> s, size |-> size, status |-> TRUE],
                                   !.named = named])
    BY <1>1 DEF SpaceCreate, GetSpaceCreatePath
  <2> DEFINE r == [Idle EXCEPT !.pc = "add", !.op = "create", !.id = i, !.delta = size,
                               !.doc = [st |-> s, size |-> size, status |-> TRUE],
                               !.named = named]
  <2>2. /\ r.pc = "add" /\ r.op = "create" /\ r.id = i /\ r.delta = size /\ Amount(r.doc) = size
        /\ Amount(Absent) = 0 /\ size + 0 = size /\ 0 + size = size
    BY DEF Idle, Amount, Absent
  <2>3. Begin(t, r)
    BY <2>1
  <2> HIDE DEF r
  <2>4. th'[t] = r /\ th[t].pc = "idle" /\ ~SpaceStale(t)'
    BY <2>3, BeginEffect
  <2>5. SameStores /\ StaleElse(t)
    BY <2>3 DEF Begin, SameStores, StaleElse, IInv, TypeOK
  <2>6. Priced(t)'
    BY <2>1, <2>2, <2>4, <2>5 DEF Priced, SameStores
  <2> QED BY <2>1, <2>2, <2>4, <2>5, <2>6 DEF Starts, BusyPcs
<1>2. ASSUME NEW i \in SpaceIDs, SpaceCheck(t, i) PROVE Starts(t)
  <2> DEFINE r == [Idle EXCEPT !.pc = "add", !.op = "check", !.id = i, !.delta = spaces[i].size,
                               !.doc = [spaces[i] EXCEPT !.status = TRUE]]
  <2>1. spaces[i] \in SpaceDoc /\ ~spaces[i].status /\ Begin(t, r) /\ spaces[i] # Absent
    BY <1>2 DEF SpaceCheck, Active, IInv, TypeOK
  <2>2. /\ r.pc = "add" /\ r.op = "check" /\ r.id = i /\ r.delta = spaces[i].size
        /\ r.doc = [spaces[i] EXCEPT !.status = TRUE]
    BY DEF Idle
  <2> HIDE DEF r
  <2>3. r.doc.st = spaces[i].st /\ Amount(r.doc) = Amount(spaces[i]) + spaces[i].size
    BY <2>1, <2>2 DEF SpaceDoc, Amount
  <2> QED BY <2>1, <2>2, <2>3, StartOfOne
<1>3. ASSUME NEW i \in SpaceIDs, SpaceRename(t, i) PROVE Starts(t)
  <2> DEFINE r == [Idle EXCEPT !.pc = "save", !.op = "rename", !.id = i, !.doc = spaces[i]]
  <2>1. Begin(t, r) /\ spaces[i] # Absent
    BY <1>3 DEF SpaceRename, Active, Absent
  <2>2. r.pc = "save" /\ r.op = "rename" /\ r.id = i /\ r.doc = spaces[i]
    BY DEF Idle
  <2> HIDE DEF r
  <2> QED BY <2>1, <2>2, StartOfOne
<1>4. ASSUME NEW ids \in SUBSET SpaceIDs, SpaceDelete(t, ids) PROVE Rests(t)
  <2> DEFINE r == [Idle EXCEPT !.pc = "get", !.op = "delete", !.todo = ids]
  <2>1. Begin(t, r)
    BY <1>4 DEF SpaceDelete
  <2>2. r.pc = "get" /\ r.id = NoSpace /\ r.op = "delete"
    BY DEF Idle
  <2> HIDE DEF r
  <2>3. th'[t] = r /\ th[t].pc = "idle"
    BY <2>1, BeginEffect
  <2>4. SameStores /\ StaleElse(t)
    BY <2>1 DEF Begin, SameStores, StaleElse, IInv, TypeOK
  <2> QED BY <2>2, <2>3, <2>4 DEF Rests, Stops, Charged, BusyPcs
<1>5. ASSUME NEW i \in SpaceIDs, NEW new \in Sizes, SpaceSizeChange(t, i, new) PROVE Starts(t)
  <2> DEFINE q == IF new > spaces[i].size THEN "add" ELSE "ded"
             n == IF new > spaces[i].size THEN new - spaces[i].size ELSE spaces[i].size - new
             d == [spaces[i] EXCEPT !.size = new]
             r == [Idle EXCEPT !.pc = q, !.op = "resize", !.id = i, !.delta = n, !.doc = d]
  <2>1. Begin(t, r) /\ spaces[i] # Absent /\ Blame("resize of a deleted space", ~Active(i))
    BY <1>5 DEF SpaceSizeChange
  <2>2. spaces[i] \in SpaceDoc /\ spaces[i].size \in Nat /\ new \in Nat
    BY DEF IInv, TypeOK, SpaceDoc
  <2>3. spaces[i].status
    BY <2>1, <2>2, NotBlamed DEF Active, SpaceDoc
  <2>4. d.st = spaces[i].st /\ Amount(d) = new /\ Amount(spaces[i]) = spaces[i].size
    BY <2>2, <2>3 DEF SpaceDoc, Amount
  <2>5. /\ q \in {"add", "ded"}
        /\ q = "add" => new = spaces[i].size + n
        /\ q = "ded" => spaces[i].size = new + n
    BY <2>2
  <2> HIDE DEF q, n, d
  <2>6. r.pc = q /\ r.op = "resize" /\ r.id = i /\ r.doc = d /\ r.delta = n
    BY DEF Idle
  <2> HIDE DEF r
  <2> QED BY <2>1, <2>4, <2>5, <2>6, StartOfOne
<1> QED BY <1>0, <1>1, <1>2, <1>3, <1>4, <1>5 DEF Call, AccountEffect

LEMMA ReplyAccounts ==
  ASSUME IInv, NEW t \in Threads, Reply(t), drift' = {}
  PROVE  AccountEffect(t)
<1>1. drift = {} /\ OthersStay(t) /\ th[t].pc = "ret" /\ th'[t] = Idle
  BY ReplyEffect DEF Leaves
<1>2. SameStores /\ StaleElse(t)
  BY DEF Reply, SameStores, StaleElse, IInv, TypeOK
<1> QED BY <1>1, <1>2 DEF AccountEffect, Rests, Stops, Idle, Charged, BusyPcs

\* A handler returns, or goes on to the next space, with nothing charged.
LEMMA RestsByFailing ==
  ASSUME IInv, NEW t \in Threads, th[t].pc \notin {"mkdir", "save"}, SameStores, StaleElse(t),
         th' = CapacityFailed(t) \/ \E ok \in BOOLEAN : th' = Return(t, ok)
  PROVE  Rests(t)
<1>1. ASSUME NEW ok \in BOOLEAN, th' = Return(t, ok) PROVE Rests(t)
  BY <1>1, ReturnEffect DEF Rests, Stops, Charged, KeepsTask, BusyPcs
<1>2. CASE th[t].op = "delete" /\ th' = [th EXCEPT ![t].pc = "get", ![t].id = NoSpace]
  BY <1>2, NextEffect DEF Rests, Stops, Charged, BusyPcs
<1> QED BY <1>1, <1>2 DEF CapacityFailed

LEMMA PaysForOne ==
  ASSUME IInv, NEW t \in Threads, NEW v, SetStorage(t, v), spaces' = spaces, drift' = {},
         th[t].pc \in {"addset", "dedset"},
         v = IF th[t].pc = "addset" THEN th[t].snap + th[t].delta ELSE th[t].snap - th[t].delta
  PROVE  Pays(t)
<1>0. /\ stale \in [Threads -> [stor : BOOLEAN, space : BOOLEAN]]
      /\ th \in [Threads -> Handler] /\ th[t] \in Handler
  BY DEF IInv, TypeOK
<1>1. /\ assign' = [assign EXCEPT ![th[t].doc.st] = v] /\ th' = AfterCapacity(t)
      /\ stale' = WriteStor(t) /\ Blame("lost update", stale[t].stor)
  BY NotBlamed DEF SetStorage
<1>2. ~stale[t].stor
  BY <1>0, <1>1 DEF Blame
<1>3. KeepsDocs
  BY <1>1, StorEffect DEF KeepsDocs
<1> DEFINE q == IF th[t].op = "create" THEN "mkdir" ELSE "save"
           r == [th[t] EXCEPT !.pc = q]
<1>4. th' = [th EXCEPT ![t] = r]
  BY <1>0, <1>1 DEF AfterCapacity
<1>5. /\ r.pc = q /\ r.op = th[t].op /\ r.id = th[t].id /\ r.todo = th[t].todo
      /\ r.doc = th[t].doc /\ r.delta = th[t].delta
  BY <1>0 DEF Handler
<1> HIDE DEF r
<1>6. th'[t].pc = q /\ Leads(t)
  BY <1>4, <1>5, ThreadStep DEF Leads, KeepsTask
<1>7. ASSUME NEW u \in Threads, u # t
      PROVE  stale'[u].stor <=> \/ stale[u].stor
                                \/ th[u].pc \in {"addset", "dedset"} /\ th[u].doc.st = th[t].doc.st
  <2>1. stale'[u] = IF th[u].pc \in {"addset", "dedset"} /\ th[u].doc.st = th[t].doc.st
                    THEN [stale[u] EXCEPT !.stor = TRUE] ELSE stale[u]
    BY <1>1, <1>7 DEF WriteStor
  <2>2. stale[u] \in [stor : BOOLEAN, space : BOOLEAN]
    BY <1>0
  <2> QED BY <2>1, <2>2
<1> QED BY <1>1, <1>2, <1>3, <1>6, <1>7 DEF Pays

LEMMA StepAccounts ==
  ASSUME IInv, IdsOwned, NEW t \in Threads, Step(t), drift' = {}
  PROVE  AccountEffect(t)
<1>0. /\ drift = {} /\ OthersStay(t) /\ th \in [Threads -> Handler] /\ th[t] \in Handler
      /\ stale \in [Threads -> [stor : BOOLEAN, space : BOOLEAN]]
  BY StepHasEffect DEF StepEffect, IInv, TypeOK
<1>1. CASE GetStorage(t)
  <2>0. SameStores /\ th[t].pc \in {"add", "ded"}
    BY <1>1 DEF GetStorage, SameStores
  <2>1. CASE /\ th' = [th EXCEPT ![t].pc = IF th[t].pc = "add" THEN "addset" ELSE "dedset",
                                 ![t].snap = assign[th[t].doc.st]]
             /\ stale' = ReadStor(t)
    <3> DEFINE q == IF th[t].pc = "add" THEN "addset" ELSE "dedset"
               r == [th[t] EXCEPT !.pc = q, !.snap = assign[th[t].doc.st]]
    <3>1. th' = [th EXCEPT ![t] = r]
      BY <1>0, <2>1
    <3>2. /\ r.op = th[t].op /\ r.id = th[t].id /\ r.todo = th[t].todo /\ r.doc = th[t].doc
          /\ r.delta = th[t].delta /\ r.pc = q /\ r.snap = assign[th[t].doc.st]
      BY <1>0 DEF Handler
    <3> HIDE DEF r
    <3>3. StaleElse(t) /\ (SpaceStale(t)' <=> SpaceStale(t))
      BY <1>0, <2>1 DEF StaleElse, SpaceStale, ReadStor
    <3>4. ReadsStorage(t)
      BY <2>0, <3>1, <3>2, <3>3, ThreadStep DEF ReadsStorage, Leads, KeepsTask
    <3> QED BY <1>0, <3>4 DEF AccountEffect
  <2>2. CASE th' = CapacityFailed(t) /\ stale' = stale
    BY <1>0, <2>0, <2>2, RestsByFailing DEF AccountEffect, StaleElse
  <2> QED BY <1>1, <2>1, <2>2 DEF GetStorage
<1>2. CASE SpaceSizeAdd(t)
  <2>0. th[t].pc = "addset" /\ spaces' = spaces
    BY <1>2 DEF SpaceSizeAdd
  <2>1. CASE SetStorage(t, th[t].snap + th[t].delta)
    <3>1. Pays(t)
      BY <2>0, <2>1, PaysForOne
    <3> QED BY <1>0, <3>1 DEF AccountEffect
  <2>2. CASE th' = Return(t, FALSE) /\ UNCHANGED <<assign, stale>>
    BY <1>0, <2>0, <2>2, RestsByFailing DEF AccountEffect, StaleElse, SameStores
  <2> QED BY <1>2, <2>1, <2>2 DEF SpaceSizeAdd
<1>3. CASE SpaceSizeDeduct(t)
  <2>0. th[t].pc = "dedset" /\ spaces' = spaces
    BY <1>3 DEF SpaceSizeDeduct
  <2>1. CASE SetStorage(t, th[t].snap - th[t].delta)
    <3>1. Pays(t)
      BY <2>0, <2>1, PaysForOne
    <3> QED BY <1>0, <3>1 DEF AccountEffect
  <2>2. CASE th' = CapacityFailed(t) /\ UNCHANGED <<assign, stale>>
    BY <1>0, <2>0, <2>2, RestsByFailing DEF AccountEffect, StaleElse, SameStores
  <2> QED BY <1>3, <2>1, <2>2 DEF SpaceSizeDeduct
<1>4. CASE Mkdir(t)
  <2>0. th[t].pc = "mkdir" /\ SameStores /\ stale' = stale
    BY <1>4 DEF Mkdir, SameStores
  <2>1. CASE th' = [th EXCEPT ![t].pc = "save"]
    <3> DEFINE r == [th[t] EXCEPT !.pc = "save"]
    <3>1. /\ r.pc = "save" /\ r.op = th[t].op /\ r.id = th[t].id /\ r.todo = th[t].todo
          /\ r.doc = th[t].doc /\ r.delta = th[t].delta
      BY <1>0 DEF Handler
    <3>2. th' = [th EXCEPT ![t] = r]
      BY <2>1
    <3> HIDE DEF r
    <3>3. Makes(t)
      BY <2>0, <3>1, <3>2, ThreadStep DEF Makes, Leads, KeepsTask
    <3> QED BY <1>0, <3>3 DEF AccountEffect
  <2>2. CASE th' = Return(t, FALSE) /\ Blame("unnamed space", th[t].doc.size # 0)
    <3>1. th[t].doc.size = 0
      BY <2>2, NotBlamed
    <3>2. th'[t].pc = "ret" /\ th'[t].id = th[t].id
      BY <2>2, ReturnEffect DEF KeepsTask
    <3>3. Rests(t)
      BY <2>0, <3>1, <3>2 DEF Rests, Stops, Charged, StaleElse, BusyPcs
    <3> QED BY <1>0, <3>3 DEF AccountEffect
  <2>3. ~Blame("failed call", TRUE)
    BY NotBlamed
  <2> QED BY <1>4, <2>1, <2>2, <2>3 DEF Mkdir
<1>5. CASE DeleteGet(t)
  <2>0. SameStores /\ th[t].pc = "get" /\ ~Blame("failed call", TRUE)
    BY <1>5, NotBlamed DEF DeleteGet, SameStores
  <2>1. CASE th' = Return(t, TRUE) /\ stale' = stale
    BY <1>0, <2>0, <2>1, RestsByFailing DEF AccountEffect, StaleElse
  <2>2. ASSUME NEW i \in th[t].todo, spaces[i] # Absent,
               th' = [th EXCEPT ![t].pc = "ded", ![t].id = i, ![t].todo = @ \ {i},
                                ![t].delta = spaces[i].size,
                                ![t].doc = [spaces[i] EXCEPT !.status = FALSE]],
               stale' = [stale EXCEPT ![t].space = FALSE], Blame("second delete", ~Active(i))
        PROVE  AccountEffect(t)
    <3> DEFINE d == [spaces[i] EXCEPT !.status = FALSE]
               r == [th[t] EXCEPT !.pc = "ded", !.id = i, !.todo = @ \ {i},
                                  !.delta = spaces[i].size, !.doc = d]
    <3>1. th' = [th EXCEPT ![t] = r]
      BY <1>0, <2>2
    <3>2. /\ r.op = th[t].op /\ r.id = i /\ r.doc = d /\ r.pc = "ded" /\ r.delta = spaces[i].size
      BY <1>0 DEF Handler
    <3>3. i \in SpaceIDs /\ spaces[i] \in SpaceDoc /\ spaces[i].size \in Nat
      BY <1>0 DEF Handler, IInv, TypeOK, SpaceDoc
    <3>4. spaces[i].status
      BY <2>2, <3>3, NotBlamed DEF Active, SpaceDoc
    <3>5. d.st = spaces[i].st /\ Amount(d) = 0 /\ Amount(spaces[i]) = 0 + spaces[i].size
      BY <3>3, <3>4 DEF SpaceDoc, Amount
    <3>6. StaleElse(t) /\ ~SpaceStale(t)'
      <4>1. stale' = [stale EXCEPT ![t].space = FALSE]
        BY <2>2
      <4>2. stale \in [Threads -> [stor : BOOLEAN, space : BOOLEAN]]
        BY <1>0
      <4>3. stale'[t].space = FALSE /\ \A u \in Threads : u # t => stale'[u] = stale[u]
        BY <4>1, <4>2
      <4> QED BY <4>3 DEF StaleElse, SpaceStale
    <3> HIDE DEF r, d
    <3>7. th'[t] = r
      BY <3>1, ThreadStep
    <3>8. Priced(t)'
      BY <2>0, <3>2, <3>5, <3>7 DEF Priced, SameStores
    <3>9. th[t].op = "delete"
      BY <2>0 DEF IdsOwned, OwnsId
    <3>10. th'[t].pc = "ded" /\ th'[t].id = i /\ th'[t].op = "delete"
      BY <3>2, <3>7, <3>9
    <3>11. Starts(t)
      BY <2>0, <2>2, <3>3, <3>6, <3>8, <3>10 DEF Starts, BusyPcs
    <3> QED BY <1>0, <3>11 DEF AccountEffect
  <2> QED BY <1>5, <2>0, <2>1, <2>2 DEF DeleteGet
<1>6. CASE Save(t)
  <2>0. th[t].pc = "save" /\ assign' = assign /\ ~Blame("failed call", TRUE)
    BY <1>6, NotBlamed DEF Save
  <2>1. /\ spaces' = [spaces EXCEPT ![th[t].id] = th[t].doc] /\ stale' = WriteSpace(t)
        /\ Blame("lost update", stale[t].space) /\ th' = AfterSave(t)
    BY <1>6, <2>0 DEF Save
  <2>2. WritesDoc(t)
    BY <2>1, SpaceWriteEffect
  <2>3. ~SpaceStale(t)
    BY <1>0, <2>1 DEF SpaceStale, Blame
  <2>4. Stops(t)
    <3>1. CASE th' = Return(t, TRUE)
      BY <3>1, ReturnEffect DEF Stops, KeepsTask, BusyPcs
    <3>2. CASE th[t].op = "delete" /\ th' = [th EXCEPT ![t].pc = "get", ![t].id = NoSpace]
      BY <3>2, NextEffect DEF Stops, BusyPcs
    <3> QED BY <2>1, <3>1, <3>2 DEF AfterSave
  <2>5. ASSUME NEW u \in Threads PROVE stale'[u].stor <=> stale[u].stor
    <3>1. stale'[u] = IF u # t /\ th[u].id = th[t].id THEN [stale[u] EXCEPT !.space = TRUE] ELSE stale[u]
      BY <2>1 DEF WriteSpace
    <3>2. stale[u] \in [stor : BOOLEAN, space : BOOLEAN]
      BY <1>0
    <3> QED BY <3>1, <3>2
  <2>6. Settles(t)
    BY <2>0, <2>2, <2>3, <2>4, <2>5 DEF Settles
  <2> QED BY <1>0, <2>6 DEF AccountEffect
<1> QED BY <1>1, <1>2, <1>3, <1>4, <1>5, <1>6 DEF Step

-----------------------------------------------------------------------------
(* The accounts stay right. *)

LEMMA BusyId ==
  ASSUME IInv, NEW u \in Threads, th[u].pc \in BusyPcs
  PROVE  th[u].id \in SpaceIDs /\ th[u].doc.st \in Storages /\ th[u].doc \in SpaceDoc
BY DEF BusyPcs, IInv, HandlerReady, TypeOK, Handler

LEMMA StepIds ==
  ASSUME IInv, IdsOwned, NEW t \in Threads, AccountEffect(t)
  PROVE  IdsOwned'
<1> USE DEF BusyPcs
<1>1. OwnsId(t)'
  <2>0. OwnsId(t) /\ OthersStay(t)
    BY DEF IdsOwned, AccountEffect
  <2>1. CASE Rests(t) \/ Settles(t)
    BY <2>1 DEF Rests, Settles, Stops, OwnsId
  <2>2. CASE Starts(t)
    BY <2>0, <2>2 DEF Starts, SameStores, OwnsId, OthersStay
  <2>3. CASE ReadsStorage(t)
    BY <2>0, <2>3 DEF ReadsStorage, Leads, KeepsTask, SameStores, OwnsId, OthersStay
  <2>4. CASE Pays(t)
    BY <2>0, <2>4 DEF Pays, Leads, KeepsTask, KeepsDocs, OwnsId, OthersStay
  <2>5. CASE Makes(t)
    BY <2>0, <2>5 DEF Makes, Leads, KeepsTask, SameStores, SpaceStale, OwnsId, OthersStay
  <2> QED BY <2>1, <2>2, <2>3, <2>4, <2>5 DEF AccountEffect
<1>2. ASSUME NEW u \in Threads, u # t PROVE OwnsId(u)'
  <2>0. OwnsId(u) /\ th'[u] = th[u] /\ OthersStay(t)
    BY <1>2 DEF IdsOwned, AccountEffect, OthersStay
  <2>1. SUFFICES ASSUME th[u].pc \in BusyPcs, th[u].op = "create"
                 PROVE  /\ spaces'[th[u].id] = Absent /\ ~SpaceStale(u)'
                        /\ \A v \in Threads : v # u => th'[v].id # th[u].id
    BY <2>0 DEF OwnsId
  <2>2. /\ spaces[th[u].id] = Absent /\ ~SpaceStale(u) /\ th[u].id # NoSpace
        /\ \A v \in Threads : v # u => th[v].id # th[u].id
    BY <2>0, <2>1, BusyId DEF OwnsId
  <2>3. th'[t].id # th[u].id
    <3>1. CASE th'[t].id \in {th[t].id, NoSpace}
      BY <1>2, <2>2, <3>1
    <3>2. CASE Starts(t)
      BY <2>2, <3>2 DEF Starts
    <3>3. th'[t].id \in {th[t].id, NoSpace} \/ Starts(t)
      BY DEF AccountEffect, Rests, Stops, ReadsStorage, Pays, Makes, Settles, Leads, KeepsTask
    <3> QED BY <3>1, <3>2, <3>3
  <2>4. \A v \in Threads : v # u => th'[v].id # th[u].id
    BY <2>0, <2>2, <2>3 DEF OthersStay
  <2>5. CASE Settles(t)
    <3>1. spaces'[th[u].id] = spaces[th[u].id]
      BY <1>2, <2>1, <2>2, <2>5, WritesOne, BusyId DEF Settles
    <3>2. ~SpaceStale(u)'
      BY <1>2, <2>2, <2>5 DEF Settles, WritesDoc
    <3> QED BY <2>2, <2>4, <3>1, <3>2
  <2>6. CASE spaces' = spaces /\ (SpaceStale(u)' <=> SpaceStale(u))
    BY <2>2, <2>4, <2>6
  <2>7. ASSUME ~Settles(t) PROVE spaces' = spaces /\ (SpaceStale(u)' <=> SpaceStale(u))
    BY <1>2, <2>7 DEF AccountEffect, Rests, Starts, ReadsStorage, Pays, Makes, SameStores,
       KeepsDocs, StaleElse, SpaceStale
  <2> QED BY <2>5, <2>6, <2>7
<1> QED BY <1>1, <1>2 DEF IdsOwned

LEMMA StepPriced ==
  ASSUME IInv, AllPriced, NEW t \in Threads, AccountEffect(t)
  PROVE  AllPriced'
<1> USE DEF BusyPcs
<1>1. SnapFresh(t)' /\ Priced(t)'
  <2>0. Priced(t)
    BY DEF AllPriced
  <2>1. CASE Rests(t) \/ Settles(t)
    BY <2>1 DEF Rests, Settles, Stops, SnapFresh, Priced
  <2>2. CASE Starts(t)
    BY <2>2 DEF Starts, SnapFresh
  <2>3. CASE ReadsStorage(t)
    BY <2>0, <2>3 DEF ReadsStorage, Leads, KeepsTask, SameStores, Priced, SnapFresh
  <2>4. CASE Pays(t)
    BY <2>0, <2>4 DEF Pays, Leads, KeepsTask, KeepsDocs, Priced, SnapFresh
  <2>5. CASE Makes(t)
    BY <2>0, <2>5 DEF Makes, Leads, KeepsTask, SameStores, SpaceStale, Priced, SnapFresh
  <2> QED BY <2>1, <2>2, <2>3, <2>4, <2>5 DEF AccountEffect
<1>2. ASSUME NEW u \in Threads, u # t PROVE SnapFresh(u)'
  <2>0. SnapFresh(u) /\ th'[u] = th[u]
    BY <1>2 DEF AllPriced, AccountEffect, OthersStay
  <2>1. CASE assign' = assign /\ (stale'[u].stor <=> stale[u].stor)
    BY <2>0, <2>1 DEF SnapFresh
  <2>2. CASE Pays(t)
    <3>1. SUFFICES ASSUME th[u].pc \in {"addset", "dedset"}, ~stale'[u].stor
                   PROVE  th[u].snap = assign'[th[u].doc.st]
      BY <2>0 DEF SnapFresh
    <3>2. th[u].doc.st # th[t].doc.st /\ ~stale[u].stor
      BY <1>2, <2>2, <3>1 DEF Pays
    <3>3. assign'[th[u].doc.st] = assign[th[u].doc.st]
      <4>1. th[u].doc.st \in Storages /\ assign \in [Storages -> Nat]
        BY <3>1, BusyId DEF IInv, TypeOK
      <4> QED BY <2>2, <3>2, <4>1 DEF Pays
    <3> QED BY <2>0, <3>1, <3>2, <3>3 DEF SnapFresh
  <2>3. ASSUME ~Pays(t) PROVE assign' = assign /\ (stale'[u].stor <=> stale[u].stor)
    BY <1>2, <2>3 DEF AccountEffect, Rests, Starts, ReadsStorage, Makes, Settles, SameStores,
       StaleElse
  <2> QED BY <2>1, <2>2, <2>3
<1>3. ASSUME NEW u \in Threads, u # t PROVE Priced(u)'
  <2>0. Priced(u) /\ th'[u] = th[u]
    BY <1>3 DEF AllPriced, AccountEffect, OthersStay
  <2>1. CASE spaces' = spaces /\ (SpaceStale(u)' <=> SpaceStale(u))
    BY <2>0, <2>1 DEF Priced
  <2>2. CASE Settles(t)
    <3>1. SUFFICES ASSUME th[u].pc \in BusyPcs, ~SpaceStale(u)' PROVE Priced(u)'
      BY <2>0 DEF Priced
    <3>2. th[u].id # th[t].id /\ ~SpaceStale(u)
      BY <1>3, <2>2, <3>1 DEF Settles, WritesDoc
    <3>3. spaces'[th[u].id] = spaces[th[u].id]
      BY <2>2, <3>1, <3>2, WritesOne, BusyId DEF Settles
    <3> QED BY <2>0, <3>1, <3>2, <3>3 DEF Priced
  <2>3. ASSUME ~Settles(t) PROVE spaces' = spaces /\ (SpaceStale(u)' <=> SpaceStale(u))
    BY <1>3, <2>3 DEF AccountEffect, Rests, Starts, ReadsStorage, Pays, Makes, SameStores,
       KeepsDocs, StaleElse, SpaceStale
  <2> QED BY <2>1, <2>2, <2>3
<1> QED BY <1>1, <1>2, <1>3 DEF AllPriced

\* What will be lost is not saved by others.
LEMMA OverlapStays ==
  ASSUME IInv, IdsOwned, NEW t \in Threads, AccountEffect(t), Overlap
  PROVE  Overlap'
<1> USE DEF Charged, BusyPcs
<1>0. OthersStay(t) /\ OwnsId(t)
  BY DEF AccountEffect, IdsOwned
<1>1. ASSUME NEW u \in Threads, u # t, SpaceStale(u) PROVE SpaceStale(u)'
  BY <1>1 DEF AccountEffect, Rests, Starts, ReadsStorage, Pays, Makes, Settles, WritesDoc,
     KeepsDocs, StaleElse, SpaceStale
<1>2. ASSUME Charged(t)
      PROVE  \/ th'[t].pc = "save" /\ th'[t].id = th[t].id /\ (SpaceStale(t)' <=> SpaceStale(t))
             \/ th[t].pc = "mkdir" /\ ~SpaceStale(t) /\ \A u \in Threads : u # t => th[u].id # th[t].id
             \/ Settles(t)
  <2>1. CASE th[t].pc = "mkdir" /\ ~Makes(t)
    BY <1>0, <2>1 DEF OwnsId
  <2>2. CASE Makes(t)
    BY <2>2 DEF Makes, Leads, KeepsTask, SpaceStale
  <2>3. CASE th[t].pc = "save"
    BY <2>3 DEF AccountEffect, Rests, Starts, ReadsStorage, Pays, Makes
  <2> QED BY <1>2, <2>1, <2>2, <2>3
<1>3. ASSUME NEW u \in Threads, Charged(u), SpaceStale(u) PROVE Overlap'
  <2>1. CASE u = t
    BY <1>2, <1>3, <2>1 DEF Overlap, Settles
  <2>2. CASE u # t
    BY <1>0, <1>1, <1>3, <2>2 DEF Overlap, OthersStay
  <2> QED BY <2>1, <2>2
<1>4. ASSUME NEW u \in Threads, u # t, Charged(u), Charged(t), th[u].id = th[t].id PROVE Overlap'
  <2>0. th'[u] = th[u]
    BY <1>0, <1>4 DEF OthersStay
  <2>1. CASE th'[t].pc = "save" /\ th'[t].id = th[t].id
    BY <1>4, <2>0, <2>1 DEF Overlap
  <2>2. CASE Settles(t)
    <3>1. SpaceStale(u)'
      BY <1>4, <2>2 DEF Settles, WritesDoc
    <3> QED BY <1>4, <2>0, <3>1 DEF Overlap
  <2> QED BY <1>2, <1>4, <2>1, <2>2
<1>5. ASSUME NEW u \in Threads, NEW v \in Threads, u # v, u # t, v # t, Charged(u), Charged(v),
             th[u].id = th[v].id
      PROVE  Overlap'
  BY <1>0, <1>5 DEF Overlap, OthersStay
<1> QED BY <1>3, <1>4, <1>5 DEF Overlap

\* Without a charge of the handler, before or after.
LEMMA DueSame ==
  ASSUME NEW D, DueDocs(D), NEW t \in Threads, OthersStay(t), spaces' = spaces, ~Charged(t),
         ~Charged(t)'
  PROVE  DueDocs(D)'
<1>1. \A u \in Threads : /\ Charged(u)' <=> Charged(u)
                         /\ Charged(u) => th'[u] = th[u]
  BY DEF OthersStay, Charged
<1> QED BY <1>1 DEF DueDocs

\* With a charge for space k before or after, and nobody else's.
LEMMA DueMoved ==
  ASSUME NEW D, DueDocs(D), NEW t \in Threads, OthersStay(t), NEW k \in SpaceIDs,
         NEW E \in [SpaceIDs -> SpaceDoc],
         \A i \in SpaceIDs : i # k => E[i] = D[i] /\ spaces'[i] = spaces[i],
         Charged(t) => th[t].id = k,
         \A u \in Threads : u # t /\ Charged(u) => th[u].id # k,
         IF Charged(t)' THEN th'[t].id = k /\ E[k] = th'[t].doc ELSE E[k] = spaces'[k]
  PROVE  DueDocs(E)'
<1> SUFFICES ASSUME NEW i \in SpaceIDs
             PROVE  /\ \A u \in Threads : Charged(u)' /\ th'[u].id = i => E[i] = th'[u].doc
                    /\ (\A u \in Threads : Charged(u)' => th'[u].id # i) => E[i] = spaces'[i]
  BY DEF DueDocs
<1>1. \A u \in Threads : u # t => (Charged(u)' <=> Charged(u)) /\ th'[u] = th[u]
  BY DEF OthersStay, Charged
<1>2. CASE i = k
  BY <1>1, <1>2
<1>3. CASE i # k
  <2>1. /\ \A u \in Threads : Charged(u) /\ th[u].id = i => D[i] = th[u].doc
        /\ (\A u \in Threads : Charged(u) => th[u].id # i) => D[i] = spaces[i]
    BY DEF DueDocs
  <2>2. E[i] = D[i] /\ spaces'[i] = spaces[i]
    BY <1>3
  <2>3. Charged(t)' => th'[t].id # i
    BY <1>3
  <2>4. Charged(t) => th[t].id # i
    BY <1>3
  <2> QED BY <1>1, <2>1, <2>2, <2>3, <2>4
<1> QED BY <1>2, <1>3

LEMMA BalancedNext ==
  ASSUME NEW E,
         \A s \in Storages : IsFiniteSet(UnitsAt(E, s)) /\ assign'[s] = Cardinality(UnitsAt(E, s))
  PROVE  Balanced(E)'
BY DEF Balanced, UnitsAt, Portion

\* Adding to the account of a resource, or deducting from it, for one document.
LEMMA PaidBalance ==
  ASSUME IInv, NEW D \in [SpaceIDs -> SpaceDoc], Balanced(D), NEW t \in Threads, Pays(t),
         SnapFresh(t), Priced(t), OwnsId(t), ~SpaceStale(t),
         NEW k, NEW d, k = th[t].id, d = th[t].doc, D[k] = spaces[k],
         NEW E \in [SpaceIDs -> SpaceDoc], E[k] = d, \A i \in SpaceIDs : i # k => E[i] = D[i]
  PROVE  Balanced(E)'
<1> DEFINE n == th[t].delta
<1>0. th[t].pc \in {"addset", "dedset"} /\ ~stale[t].stor
  BY DEF Pays
<1>1. k \in SpaceIDs /\ d.st \in Storages /\ d \in SpaceDoc /\ spaces[k] \in SpaceDoc /\ n \in Nat
  BY <1>0, BusyId, HandlerFields DEF BusyPcs, IInv, TypeOK
<1>2. th[t].snap = assign[d.st] /\ assign \in [Storages -> Nat]
  BY <1>0 DEF SnapFresh, IInv, TypeOK
<1>3. spaces[k].st = d.st \/ Amount(spaces[k]) = 0
  BY <1>0 DEF Priced, BusyPcs, OwnsId, Absent, Amount
<1>4. /\ th[t].pc = "addset" => Amount(d) = Amount(spaces[k]) + n
      /\ th[t].pc = "dedset" => Amount(spaces[k]) = Amount(d) + n
  BY <1>0 DEF Priced, BusyPcs
<1>5. assign' = [assign EXCEPT ![d.st] = IF th[t].pc = "addset" THEN assign[d.st] + n
                                                                 ELSE assign[d.st] - n]
  BY <1>2 DEF Pays
<1>6. Amount(d) \in Nat /\ Amount(spaces[k]) \in Nat
  BY <1>1 DEF Amount, SpaceDoc
<1> SUFFICES ASSUME NEW s \in Storages
             PROVE  IsFiniteSet(UnitsAt(E, s)) /\ assign'[s] = Cardinality(UnitsAt(E, s))
  BY BalancedNext
<1>7. IsFiniteSet(UnitsAt(D, s)) /\ assign[s] = Cardinality(UnitsAt(D, s)) /\ assign[s] \in Nat
  BY <1>2 DEF Balanced
<1>8. /\ IsFiniteSet(UnitsAt(E, s))
      /\ Cardinality(UnitsAt(E, s)) + Portion(D[k], s) = Cardinality(UnitsAt(D, s)) + Portion(d, s)
  <2>1. D[k] \in SpaceDoc /\ E[k] \in SpaceDoc
    BY <1>1
  <2>2. /\ IsFiniteSet(UnitsAt(E, s))
        /\ Cardinality(UnitsAt(E, s)) + Portion(D[k], s) =
           Cardinality(UnitsAt(D, s)) + Portion(E[k], s)
    BY <1>1, <1>7, <2>1, UnitsReplaced
  <2> QED BY <2>2
<1>9. Cardinality(UnitsAt(E, s)) \in Nat
  BY <1>8, FS_CardinalityType
<1>10. Portion(D[k], s) = IF s = d.st THEN Amount(spaces[k]) ELSE Portion(d, s)
  <2>1. s # d.st => Portion(d, s) = 0 /\ Portion(spaces[k], s) = 0
    BY <1>1, <1>3 DEF Portion, Amount, SpaceDoc
  <2>2. s = d.st => Portion(spaces[k], s) = Amount(spaces[k])
    BY <1>1, <1>3 DEF Portion, Amount, SpaceDoc
  <2> QED BY <2>1, <2>2
<1>11. s = d.st => Portion(d, s) = Amount(d)
  BY DEF Portion, Amount
<1> DEFINE c == Cardinality(UnitsAt(E, s))
           a == Amount(d)
           b == Amount(spaces[k])
<1>12. CASE s # d.st
  <2>1. assign'[s] = assign[s]
    BY <1>2, <1>5, <1>12
  <2>2. Portion(d, s) = 0 /\ Portion(D[k], s) = 0
    BY <1>10, <1>12 DEF Portion
  <2>3. c + 0 = assign[s] + 0
    BY <1>7, <1>8, <2>2
  <2> HIDE DEF c
  <2>4. c = assign[s]
    BY <1>7, <1>9, <2>3 DEF c
  <2> QED BY <1>8, <2>1, <2>4 DEF c
<1>13. CASE s = d.st
  <2>1. c + b = assign[s] + a
    BY <1>7, <1>8, <1>10, <1>11, <1>13
  <2>2. assign'[s] = IF th[t].pc = "addset" THEN assign[s] + n ELSE assign[s] - n
    BY <1>2, <1>5, <1>13
  <2>3. c \in Nat /\ a \in Nat /\ b \in Nat
    BY <1>6, <1>9
  <2>4. IF th[t].pc = "addset" THEN a = b + n ELSE b = a + n
    BY <1>0, <1>4
  <2> HIDE DEF a, b, c, n
  <2>5. n \in Nat
    BY <1>1 DEF n
  <2>6. assign'[s] = c
    BY <1>7, <2>1, <2>2, <2>3, <2>4, <2>5
  <2> QED BY <1>8, <2>6 DEF c
<1> QED BY <1>12, <1>13

LEMMA SameBalance ==
  ASSUME NEW D, Balanced(D), assign' = assign
  PROVE  Balanced(D)'
BY DEF Balanced, UnitsAt, Portion

\* Two documents that count the same on every resource.
LEMMA EqualBalance ==
  ASSUME NEW D \in [SpaceIDs -> SpaceDoc], Balanced(D), NEW k \in SpaceIDs, NEW d \in SpaceDoc,
         D[k].size = 0, d.size = 0, NEW E, E = [D EXCEPT ![k] = d]
  PROVE  Balanced(E)
<1> SUFFICES ASSUME NEW s \in Storages
             PROVE  UnitsAt(E, s) = UnitsAt(D, s)
  BY DEF Balanced
<1>1. Portion(D[k], s) = 0 /\ Portion(d, s) = 0
  BY DEF Portion
<1>2. E[k] = d /\ \A i \in SpaceIDs : i # k => E[i] = D[i]
  OBVIOUS
<1>3. \A i \in SpaceIDs : Portion(E[i], s) = Portion(D[i], s)
  BY <1>1, <1>2
<1> QED BY <1>3 DEF UnitsAt

LEMMA StepLedger ==
  ASSUME IInv, IdsOwned, AllPriced, NEW t \in Threads, AccountEffect(t), ~Overlap',
         NEW D \in [SpaceIDs -> SpaceDoc], Ledger(D)
  PROVE  \E E \in [SpaceIDs -> SpaceDoc] : Ledger(E)'
<1> USE DEF BusyPcs, Charged
<1>0. /\ OthersStay(t) /\ OwnsId(t) /\ SnapFresh(t) /\ Priced(t) /\ DueDocs(D) /\ Balanced(D)
      /\ spaces \in [SpaceIDs -> SpaceDoc]
  BY DEF AccountEffect, IdsOwned, AllPriced, Ledger, IInv, TypeOK
<1>1. ASSUME spaces' = spaces, assign' = assign, ~Charged(t), ~Charged(t)'
      PROVE  Ledger(D)'
  <2>1. DueDocs(D)'
    BY <1>0, <1>1, DueSame
  <2>2. Balanced(D)'
    BY <1>0, <1>1, SameBalance
  <2> QED BY <2>1, <2>2 DEF Ledger
\* Nobody else has charged for a space that the handler has charged for afterwards.
<1>2. ASSUME Charged(t)', NEW u \in Threads, u # t, Charged(u) PROVE th[u].id # th'[t].id
  <2>1. th'[u] = th[u]
    BY <1>0, <1>2 DEF OthersStay
  <2> QED BY <1>2, <2>1 DEF Overlap
<1>3. CASE Rests(t)
  <2>1. CASE ~Charged(t)
    BY <1>1, <1>3, <2>1 DEF Rests, Stops, SameStores
  <2>2. CASE Charged(t)
    <3>1. /\ th[t].pc = "mkdir" /\ th[t].op = "create" /\ th[t].doc.size = 0 /\ SameStores
          /\ ~Charged(t)'
      BY <1>0, <1>3, <2>2 DEF Rests, Stops, OwnsId
    <3>2. /\ spaces[th[t].id] = Absent /\ th[t].id \in SpaceIDs
          /\ \A u \in Threads : u # t => th[u].id # th[t].id
      BY <1>0, <3>1, BusyId DEF OwnsId
    <3>3. PICK k \in SpaceIDs : k = th[t].id
      BY <3>2
    <3>4. PICK d \in SpaceDoc : d = Absent
      BY <1>0, <3>2
    <3>5. PICK E \in [SpaceIDs -> SpaceDoc] : E = [D EXCEPT ![k] = d]
      OBVIOUS
    <3>6. D[k] = th[t].doc
      BY <1>0, <2>2, <3>3 DEF DueDocs
    <3>7. D[k].size = 0 /\ d.size = 0
      BY <3>1, <3>4, <3>6 DEF Absent
    <3>8. Balanced(E)
      BY <1>0, <3>5, <3>7, EqualBalance
    <3>9. Balanced(E)'
      BY <3>1, <3>8, SameBalance DEF SameStores
    <3>10. E[k] = spaces'[k] /\ \A i \in SpaceIDs : i # k => E[i] = D[i] /\ spaces'[i] = spaces[i]
      BY <3>1, <3>2, <3>3, <3>4, <3>5 DEF SameStores
    <3>11. /\ Charged(t) => th[t].id = k
           /\ \A u \in Threads : u # t /\ Charged(u) => th[u].id # k
           /\ IF Charged(t)' THEN th'[t].id = k /\ E[k] = th'[t].doc ELSE E[k] = spaces'[k]
      BY <3>1, <3>2, <3>3, <3>10
    <3>12. DueDocs(E)'
      <4> HIDE DEF Charged
      <4> QED BY <1>0, <3>10, <3>11, DueMoved
    <3> QED BY <3>9, <3>12 DEF Ledger
  <2> QED BY <2>1, <2>2
\* The document D stays due when a rename takes it up, the directory is made or it is written.
<1>4. ASSUME NEW k \in SpaceIDs, Charged(t) => th[t].id = k, assign' = assign,
             \A i \in SpaceIDs : i # k => spaces'[i] = spaces[i],
             \A u \in Threads : u # t /\ Charged(u) => th[u].id # k,
             IF Charged(t)' THEN th'[t].id = k /\ D[k] = th'[t].doc ELSE D[k] = spaces'[k]
      PROVE  Ledger(D)'
  <2>1. Balanced(D)'
    BY <1>0, <1>4, SameBalance
  <2>2. DueDocs(D)'
    <3> HIDE DEF Charged
    <3> QED BY <1>0, <1>4, DueMoved
  <2> QED BY <2>1, <2>2 DEF Ledger
<1>5. CASE Starts(t)
  <2>0. SameStores /\ ~Charged(t)
    BY <1>5 DEF Starts
  <2>1. CASE th'[t].pc # "save"
    BY <1>1, <1>5, <2>0, <2>1 DEF Starts, SameStores
  <2>2. CASE th'[t].pc = "save"
    <3>1. PICK k \in SpaceIDs : k = th'[t].id
      BY <1>5 DEF Starts
    <3>2. \A u \in Threads : u # t /\ Charged(u) => th[u].id # k
      BY <1>2, <2>2, <3>1
    <3>3. D[k] = spaces[k]
      BY <1>0, <2>0, <3>2 DEF DueDocs
    <3>4. th'[t].doc = spaces[k]
      BY <1>5, <2>2, <3>1 DEF Starts
    <3> QED BY <1>4, <2>0, <2>2, <3>1, <3>2, <3>3, <3>4 DEF SameStores
  <2> QED BY <2>1, <2>2
<1>6. CASE ReadsStorage(t)
  BY <1>1, <1>6 DEF ReadsStorage, SameStores
<1>7. CASE Pays(t)
  <2>0. /\ th[t].pc \in {"addset", "dedset"} /\ ~Charged(t) /\ Charged(t)'
        /\ th'[t].id = th[t].id /\ th'[t].doc = th[t].doc /\ spaces' = spaces
        /\ (SpaceStale(t)' <=> SpaceStale(t))
    BY <1>7 DEF Pays, Leads, KeepsTask, KeepsDocs
  <2>1. ~SpaceStale(t)
    BY <2>0 DEF Overlap
  <2>2. PICK k \in SpaceIDs : k = th[t].id
    BY <2>0, BusyId
  <2>3. PICK d \in SpaceDoc : d = th[t].doc
    BY <2>0, BusyId
  <2>4. PICK E \in [SpaceIDs -> SpaceDoc] : E = [D EXCEPT ![k] = d]
    OBVIOUS
  <2>5. \A u \in Threads : u # t /\ Charged(u) => th[u].id # k
    BY <1>2, <2>0, <2>2
  <2>6. D[k] = spaces[k]
    BY <1>0, <2>0, <2>5 DEF DueDocs
  <2>7. E[k] = d /\ \A i \in SpaceIDs : i # k => E[i] = D[i] /\ spaces'[i] = spaces[i]
    BY <2>0, <2>4
  <2>8. Balanced(E)'
    BY <1>0, <1>7, <2>1, <2>2, <2>3, <2>6, <2>7, PaidBalance
  <2>9. /\ Charged(t) => th[t].id = k
        /\ IF Charged(t)' THEN th'[t].id = k /\ E[k] = th'[t].doc ELSE E[k] = spaces'[k]
    BY <2>0, <2>2, <2>3, <2>7
  <2>10. DueDocs(E)'
    <3> HIDE DEF Charged
    <3> QED BY <1>0, <2>5, <2>7, <2>9, DueMoved
  <2> QED BY <2>8, <2>10 DEF Ledger
<1>8. CASE Makes(t)
  <2>1. /\ Charged(t) /\ Charged(t)' /\ th'[t].id = th[t].id /\ th'[t].doc = th[t].doc
        /\ SameStores
    BY <1>8 DEF Makes, Leads, KeepsTask
  <2>2. PICK k \in SpaceIDs : k = th[t].id
    BY <1>8, BusyId DEF Makes
  <2>3. D[k] = th[t].doc
    BY <1>0, <2>1, <2>2 DEF DueDocs
  <2> QED BY <1>2, <1>4, <2>1, <2>2, <2>3 DEF SameStores
<1>9. CASE Settles(t)
  <2>1. /\ th[t].pc = "save" /\ Charged(t) /\ ~Charged(t)' /\ WritesDoc(t) /\ assign' = assign
    BY <1>9 DEF Settles, Stops
  <2>2. PICK k \in SpaceIDs : k = th[t].id
    BY <2>1, BusyId
  <2>3. D[k] = th[t].doc
    BY <1>0, <2>1, <2>2 DEF DueDocs
  <2>4. ASSUME NEW u \in Threads, u # t, Charged(u) PROVE th[u].id # k
    <3>1. th'[u] = th[u] /\ (th[u].id = k => SpaceStale(u)')
      BY <1>0, <2>1, <2>2, <2>4 DEF OthersStay, WritesDoc
    <3> QED BY <2>4, <3>1 DEF Overlap
  <2>5. spaces'[k] = th[t].doc /\ \A i \in SpaceIDs : i # k => spaces'[i] = spaces[i]
    BY <2>1, <2>2, WritesOne
  <2> QED BY <1>4, <2>1, <2>2, <2>3, <2>4, <2>5
<1> QED BY <1>3, <1>5, <1>6, <1>7, <1>8, <1>9, <1>1 DEF AccountEffect

\* The accounts after any step of the service.
LEMMA StepAccountsOK == ASSUME IInv, AccountsOK, [Next]_vars PROVE AccountsOK'
<1>1. CASE UNCHANGED vars
  <2>1. (IdsOwned' <=> IdsOwned) /\ (AllPriced' <=> AllPriced) /\ (Overlap' <=> Overlap)
    BY <1>1 DEF vars, IdsOwned, OwnsId, SpaceStale, AllPriced, SnapFresh, Priced, Overlap, Charged
  <2>2. ASSUME NEW D \in [SpaceIDs -> SpaceDoc], Ledger(D) PROVE Ledger(D)'
    <3>1. Balanced(D)'
      BY <1>1, <2>2, SameBalance DEF vars, Ledger
    <3>2. DueDocs(D)'
      BY <1>1, <2>2 DEF vars, Ledger, DueDocs, Charged
    <3> QED BY <3>1, <3>2 DEF Ledger
  <2>3. drift' = drift
    BY <1>1 DEF vars
  <2>4. (\E D \in [SpaceIDs -> SpaceDoc] : Ledger(D)) => \E D \in [SpaceIDs -> SpaceDoc] : Ledger(D)'
    BY <2>2
  <2> QED BY <2>1, <2>3, <2>4 DEF AccountsOK
<1>2. ASSUME NEW t \in Threads, Call(t) \/ Step(t) \/ Reply(t) PROVE AccountsOK'
  <2>1. SUFFICES ASSUME drift' = {} PROVE AccountsOK'
    BY DEF AccountsOK
  <2>2. drift = {}
    BY <1>2, <2>1, CallEffect, StepHasEffect, ReplyEffect DEF Enters, StepEffect, Leaves
  <2>3. IdsOwned /\ AllPriced /\ (Overlap \/ \E D \in [SpaceIDs -> SpaceDoc] : Ledger(D))
    BY <2>2 DEF AccountsOK
  <2>4. AccountEffect(t)
    BY <1>2, <2>1, <2>3, CallAccounts, StepAccounts, ReplyAccounts
  <2>5. IdsOwned' /\ AllPriced'
    BY <2>3, <2>4, StepIds, StepPriced
  <2>6. Overlap' \/ \E D \in [SpaceIDs -> SpaceDoc] : Ledger(D)'
    <3>1. CASE Overlap
      BY <2>3, <2>4, <3>1, OverlapStays
    <3>2. ASSUME NEW D \in [SpaceIDs -> SpaceDoc], Ledger(D), ~Overlap'
          PROVE  \E E \in [SpaceIDs -> SpaceDoc] : Ledger(E)'
      BY <2>3, <2>4, <3>2, StepLedger
    <3> QED BY <2>3, <3>1, <3>2
  <2> QED BY <2>5, <2>6 DEF AccountsOK
<1> QED BY <1>1, <1>2 DEF Next

LEMMA InitAccountsOK == Init => AccountsOK
<1> SUFFICES ASSUME Init PROVE IdsOwned /\ AllPriced /\ \E D \in [SpaceIDs -> SpaceDoc] : Ledger(D)
  BY DEF AccountsOK
<1>1. IdsOwned /\ AllPriced
  BY DEF Init, Idle, IdsOwned, OwnsId, AllPriced, SnapFresh, Priced, BusyPcs
<1>2. PICK D \in [SpaceIDs -> SpaceDoc] : D = [i \in SpaceIDs |-> Absent]
  BY DEF Absent, SpaceDoc
<1>3. DueDocs(D)
  BY <1>2 DEF Init, Idle, DueDocs, Charged
<1>4. Balanced(D)
  <2> SUFFICES ASSUME NEW s \in Storages
               PROVE  IsFiniteSet(UnitsAt(D, s)) /\ assign[s] = Cardinality(UnitsAt(D, s))
    BY DEF Balanced
  <2>1. \A i \in SpaceIDs : 1 .. Portion(D[i], s) = {}
    BY <1>2 DEF Portion, Absent
  <2>2. UnitsAt(D, s) = {}
    BY <2>1 DEF UnitsAt
  <2>3. assign[s] = 0
    BY DEF Init
  <2> QED BY <2>2, <2>3, FS_EmptySet
<1> QED BY <1>1, <1>3, <1>4 DEF Ledger

\* When nothing runs nothing is charged in advance.
LEMMA AccountedWhenQuiet == IInv /\ AccountsOK => AccountingUnlessDrift
<1> SUFFICES ASSUME IInv, AccountsOK, Quiet, drift = {}, NEW s \in Storages
             PROVE  assign[s] = ActiveCapacity(s)
  BY DEF AccountingUnlessDrift
<1>1. \A t \in Threads : ~Charged(t)
  BY DEF Quiet, Charged
<1>2. PICK D \in [SpaceIDs -> SpaceDoc] : Ledger(D)
  BY <1>1 DEF AccountsOK, Overlap
<1>3. spaces \in [SpaceIDs -> SpaceDoc]
  BY DEF IInv, TypeOK
<1>4. \A i \in SpaceIDs : D[i] = spaces[i]
  BY <1>1, <1>2 DEF Ledger, DueDocs
<1>5. UnitsAt(D, s) = UnitsAt(spaces, s)
  BY <1>4 DEF UnitsAt
<1> QED BY <1>2, <1>3, <1>5, UnitsAreCapacity DEF Ledger, Balanced

\* SpaceCreate, SpaceCheck, SpaceDelete and SpaceSizeChange, each a sequence of
\* separate database calls: for any number of handlers in any interleaving, the
\* assigned capacity is the sum of the active spaces whenever none runs, but for
\* the causes that the property names.
THEOREM AccountsAlwaysRight == Spec => []AccountingUnlessDrift
<1>1. Spec => []AccountsOK
  BY InitAccountsOK, StepAccountsOK, Inductive, PTL DEF Spec
<1> QED BY <1>1, Inductive, AccountedWhenQuiet, PTL

\* The same with the zone handlers as callers.
THEOREM ZonesKeepAccounts == ZoneSpec => []AccountingUnlessDrift
BY ZoneUsesSpaceServer, AccountsAlwaysRight, PTL DEF UsesSpaceServer

=============================================================================
