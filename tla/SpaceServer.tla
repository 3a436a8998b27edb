---------------------------- MODULE SpaceServer ----------------------------
(***************************************************************************)
(* Space allocation in the manager (src/manager/space/SpaceServer.cc).     *)
(*                                                                         *)
(* REST threads allocate, release and resize spaces.  A storage resource   *)
(* document counts the capacity assigned on it, a space document holds the *)
(* size and status of a space.  Every handler is a sequence of separate    *)
(* get and set calls on the database, without compare-and-swap; each call  *)
(* is one step here.  The database is external: a call may fail, and a     *)
(* failed set may or may not have been applied.                            *)
(*                                                                         *)
(* The callers in ZoneServer.cc are left out: operations start at any time *)
(* with any argument.                                                      *)
(***************************************************************************)
EXTENDS Integers, FiniteSets

CONSTANTS Storages,    \* storage resources
          SpaceIDs,    \* uuids of spaces
          Threads,     \* REST worker threads
          NoStorage, NoSpace,
          Total,       \* total_capacity of each storage resource
          Sizes,       \* sizes that clients request (0 included if it is)
          MaxFaults,   \* bound: failing database and file-system calls
          MaxOps       \* bound: operations started

ASSUME TotalAssumption == Total \in Nat
ASSUME SizesAssumption == Sizes \subseteq Nat
ASSUME NoStorageAssumption == NoStorage \notin Storages
ASSUME NoSpaceAssumption == NoSpace \notin SpaceIDs
ASSUME BoundsAssumption == MaxFaults \in Nat /\ MaxOps \in Nat

VARIABLES assign,   \* storage -> assign_capacity
          spaces,   \* uuid -> space document
          th,       \* thread -> its handler's locals
          stale,    \* history: thread -> documents written since it read them
          drift,    \* history: why assign may differ from the active spaces
          faults, ops

vars == <<assign, spaces, th, stale, drift, faults, ops>>

-----------------------------------------------------------------------------
Size == 0 .. Total
SpaceDoc == [st : Storages \cup {NoStorage}, size : Nat, status : BOOLEAN]
Absent == [st |-> NoStorage, size |-> 0, status |-> FALSE]

SpaceOps == {"create", "check", "delete", "resize", "rename"}

(***************************************************************************)
(* pc: "idle"; "get" - SpaceDelete is about to read the next document;     *)
(* "add", "ded" - about to read the storage document in SpaceSizeAdd or    *)
(* SpaceSizeDeduct; "addset", "dedset" - about to check and write it;      *)
(* "mkdir"; "save" - about to write the space document; "ret" - returned.  *)
(***************************************************************************)
Handler == [pc : {"idle", "get", "add", "addset", "ded", "dedset", "mkdir", "save", "ret"},
            op : SpaceOps,
            id : SpaceIDs \cup {NoSpace},
            todo : SUBSET SpaceIDs,   \* SpaceDelete: ids not yet visited
            delta : Nat,              \* capacity to add or deduct
            snap : Nat,               \* assign_capacity as read
            doc : SpaceDoc,           \* space document to be written
            named : BOOLEAN,          \* the requested space name is not ""
            ok : BOOLEAN]             \* result handed to the caller

Idle == [pc |-> "idle", op |-> "create", id |-> NoSpace, todo |-> {}, delta |-> 0,
         snap |-> 0, doc |-> Absent, named |-> TRUE, ok |-> FALSE]

Causes == {"lost update", "failed call", "unnamed space", "resize of a deleted space",
           "second delete"}

Fresh == [stor |-> FALSE, space |-> FALSE]

-----------------------------------------------------------------------------
Return(t, ok) == [th EXCEPT ![t].pc = "ret", ![t].ok = ok]

Blame(cause, cond) == drift' = IF cond THEN drift \cup {cause} ELSE drift

\* A failing call uses up one of the faults.
Fault == faults < MaxFaults /\ faults' = faults + 1

ReadStor(t) == [stale EXCEPT ![t].stor = FALSE]

\* Writing a document makes stale what other threads have read of it.
WriteStor(t) ==
  [u \in Threads |->
     IF u # t /\ th[u].pc \in {"addset", "dedset"} /\ th[u].doc.st = th[t].doc.st
     THEN [stale[u] EXCEPT !.stor = TRUE] ELSE stale[u]]

WriteSpace(t) ==
  [u \in Threads |->
     IF u # t /\ th[u].id = th[t].id THEN [stale[u] EXCEPT !.space = TRUE] ELSE stale[u]]

Active(i) == spaces[i].status

-----------------------------------------------------------------------------
(***************************************************************************)
(* Calling the operations.                                                 *)
(***************************************************************************)
Begin(t, rec) ==
  /\ th[t].pc = "idle"
  /\ ops < MaxOps
  /\ ops' = ops + 1
  /\ th' = [th EXCEPT ![t] = rec]
  /\ stale' = [stale EXCEPT ![t] = Fresh]
  /\ UNCHANGED <<assign, spaces, faults>>

\* GetSpaceCreatePath: of the resources that match the requested center and
\* name, one with the most unassigned capacity.
GetSpaceCreatePath(match) == {s \in match : \A r \in match : assign[s] <= assign[r]}

SpaceCreate(t, size, named) ==
  /\ \E match \in SUBSET Storages :
     \E s \in GetSpaceCreatePath(match),
        i \in {j \in SpaceIDs : spaces[j] = Absent /\ \A u \in Threads : th[u].id # j} :
       Begin(t, [Idle EXCEPT !.pc = "add", !.op = "create", !.id = i, !.delta = size,
                             !.doc = [st |-> s, size |-> size, status |-> TRUE],
                             !.named = named])
  /\ UNCHANGED drift

\* SpaceCheck: exactly one document must match, and it must be inactive.
SpaceCheck(t, i) ==
  /\ spaces[i] # Absent /\ ~Active(i)
  /\ Begin(t, [Idle EXCEPT !.pc = "add", !.op = "check", !.id = i, !.delta = spaces[i].size,
                           !.doc = [spaces[i] EXCEPT !.status = TRUE]])
  /\ UNCHANGED drift

SpaceDelete(t, ids) ==
  /\ Begin(t, [Idle EXCEPT !.pc = "get", !.op = "delete", !.todo = ids])
  /\ UNCHANGED drift

\* The usage of a space, rounded up as SpaceSizeChange does, is 1 at least.
MinUsage == 1

\* SpaceSizeChange: the status of the space is not looked at.  A size that is
\* not above the real usage is refused, which changes nothing.
SpaceSizeChange(t, i, new) ==
  /\ spaces[i] # Absent /\ new # spaces[i].size /\ new > MinUsage
  /\ Begin(t, [Idle EXCEPT !.pc = IF new > spaces[i].size THEN "add" ELSE "ded",
                           !.op = "resize", !.id = i,
                           !.delta = IF new > spaces[i].size THEN new - spaces[i].size
                                     ELSE spaces[i].size - new,
                           !.doc = [spaces[i] EXCEPT !.size = new]])
  /\ Blame("resize of a deleted space", ~Active(i))

\* SpaceRename writes the whole document back; the name itself is left out.
SpaceRename(t, i) ==
  /\ Active(i)
  /\ Begin(t, [Idle EXCEPT !.pc = "save", !.op = "rename", !.id = i, !.doc = spaces[i]])
  /\ UNCHANGED drift

-----------------------------------------------------------------------------
(***************************************************************************)
(* SpaceSizeAdd and SpaceSizeDeduct.                                       *)
(***************************************************************************)
AfterCapacity(t) == [th EXCEPT ![t].pc = IF th[t].op = "create" THEN "mkdir" ELSE "save"]

\* What a handler does when the capacity call returns an error: SpaceDelete
\* goes on with the next space, the others return.
CapacityFailed(t) ==
  IF th[t].op = "delete" THEN [th EXCEPT ![t].pc = "get", ![t].id = NoSpace]
                         ELSE Return(t, FALSE)

GetStorage(t) ==
  /\ \/ /\ th[t].pc \in {"add", "ded"}
        /\ th' = [th EXCEPT ![t].pc = IF th[t].pc = "add" THEN "addset" ELSE "dedset",
                            ![t].snap = assign[th[t].doc.st]]
        /\ stale' = ReadStor(t)
        /\ UNCHANGED <<drift, faults>>
     \/ /\ th[t].pc \in {"add", "ded"}
        /\ Fault
        /\ th' = CapacityFailed(t)
        /\ Blame("failed call", th[t].op = "delete")
        /\ UNCHANGED stale
  /\ UNCHANGED <<assign, spaces, ops>>

\* Mutant: the bound is checked without the capacity to be added.
FitsLate(t) == th[t].snap <= Total

Fits(t) == th[t].snap + th[t].delta <= Total

SetStorage(t, v) ==
  \/ /\ assign' = [assign EXCEPT ![th[t].doc.st] = v]
     /\ th' = AfterCapacity(t)
     /\ stale' = WriteStor(t)
     /\ Blame("lost update", stale[t].stor)
     /\ UNCHANGED faults
  \/ /\ Fault
     /\ \/ UNCHANGED <<assign, stale>>
        \/ assign' = [assign EXCEPT ![th[t].doc.st] = v] /\ stale' = WriteStor(t)
     /\ th' = CapacityFailed(t)
     /\ Blame("failed call", TRUE)

SpaceSizeAdd(t) ==
  /\ th[t].pc = "addset"
  /\ \/ Fits(t) /\ SetStorage(t, th[t].snap + th[t].delta)
     \/ ~Fits(t) /\ th' = Return(t, FALSE) /\ UNCHANGED <<assign, stale, drift, faults>>
  /\ UNCHANGED <<spaces, ops>>

Covers(t) == th[t].snap >= th[t].delta

SpaceSizeDeduct(t) ==
  /\ th[t].pc = "dedset"
  /\ \/ Covers(t) /\ SetStorage(t, th[t].snap - th[t].delta)
     \/ /\ ~Covers(t)
        /\ th' = CapacityFailed(t)
        /\ UNCHANGED <<assign, stale, drift, faults>>
  /\ UNCHANGED <<spaces, ops>>

-----------------------------------------------------------------------------
\* SpaceCreate: the directory, then the test of name and size.  Capacity that
\* was added before is not given back.
Mkdir(t) ==
  /\ th[t].pc = "mkdir"
  /\ \/ /\ th[t].named /\ th[t].doc.size # 0
        /\ th' = [th EXCEPT ![t].pc = "save"]
        /\ UNCHANGED <<drift, faults>>
     \/ /\ ~th[t].named \/ th[t].doc.size = 0
        /\ th' = Return(t, FALSE)
        /\ Blame("unnamed space", th[t].doc.size # 0)
        /\ UNCHANGED faults
     \/ Fault /\ th' = Return(t, FALSE) /\ Blame("failed call", TRUE)
  /\ UNCHANGED <<assign, spaces, stale, ops>>

\* SpaceDelete reads the next document; a failed get ends it with result 0,
\* the status of the space is not looked at.
DeleteGet(t) ==
  /\ th[t].pc = "get"
  /\ \/ /\ th[t].todo = {}
        /\ th' = Return(t, TRUE)
        /\ UNCHANGED <<stale, drift, faults>>
     \/ \E i \in th[t].todo :
          \/ /\ spaces[i] # Absent
             /\ th' = [th EXCEPT ![t].pc = "ded", ![t].id = i, ![t].todo = @ \ {i},
                                 ![t].delta = spaces[i].size,
                                 ![t].doc = [spaces[i] EXCEPT !.status = FALSE]]
             /\ stale' = [stale EXCEPT ![t].space = FALSE]
             /\ Blame("second delete", ~Active(i))
             /\ UNCHANGED faults
          \/ /\ spaces[i] = Absent
             /\ th' = Return(t, TRUE)
             /\ UNCHANGED <<stale, drift, faults>>
          \/ Fault /\ th' = Return(t, TRUE) /\ Blame("failed call", TRUE) /\ UNCHANGED stale
  /\ UNCHANGED <<assign, spaces, ops>>

AfterSave(t) == IF th[t].op = "delete" THEN [th EXCEPT ![t].pc = "get", ![t].id = NoSpace]
                                       ELSE Return(t, TRUE)

\* Mutant: SpaceCheck and SpaceDelete forget to write the document back.
SaveNothing(t) ==
  /\ th[t].pc = "save"
  /\ th' = AfterSave(t)
  /\ UNCHANGED <<assign, spaces, stale, drift, faults, ops>>

\* Write the space document as it was read, with the one field changed.
Save(t) ==
  /\ th[t].pc = "save"
  /\ \/ /\ spaces' = [spaces EXCEPT ![th[t].id] = th[t].doc]
        /\ stale' = WriteSpace(t)
        /\ Blame("lost update", stale[t].space)
        /\ th' = AfterSave(t)
        /\ UNCHANGED faults
     \/ /\ Fault
        /\ \/ UNCHANGED <<spaces, stale>>
           \/ spaces' = [spaces EXCEPT ![th[t].id] = th[t].doc] /\ stale' = WriteSpace(t)
        /\ Blame("failed call", TRUE)
        /\ th' = Return(t, FALSE)
  /\ UNCHANGED <<assign, ops>>

\* The caller has taken the result.
Reply(t) ==
  /\ th[t].pc = "ret"
  /\ th' = [th EXCEPT ![t] = Idle]
  /\ stale' = [stale EXCEPT ![t] = Fresh]
  /\ UNCHANGED <<assign, spaces, drift, faults, ops>>

-----------------------------------------------------------------------------
Init ==
  /\ assign = [s \in Storages |-> 0]
  /\ spaces = [i \in SpaceIDs |-> Absent]
  /\ th = [t \in Threads |-> Idle]
  /\ stale = [t \in Threads |-> Fresh]
  /\ drift = {}
  /\ faults = 0
  /\ ops = 0

Call(t) ==
  \/ \E size \in Sizes, named \in BOOLEAN : SpaceCreate(t, size, named)
  \/ \E i \in SpaceIDs : SpaceCheck(t, i) \/ SpaceRename(t, i)
  \/ \E ids \in SUBSET SpaceIDs : SpaceDelete(t, ids)
  \/ \E i \in SpaceIDs, new \in Sizes : SpaceSizeChange(t, i, new)

Step(t) == GetStorage(t) \/ SpaceSizeAdd(t) \/ SpaceSizeDeduct(t) \/ Mkdir(t)
           \/ DeleteGet(t) \/ Save(t)

Next == \E t \in Threads : Call(t) \/ Step(t) \/ Reply(t)

Spec == Init /\ [][Next]_vars

-----------------------------------------------------------------------------
TypeOK ==
  /\ assign \in [Storages -> Nat]
  /\ spaces \in [SpaceIDs -> SpaceDoc]
  /\ th \in [Threads -> Handler]
  /\ stale \in [Threads -> [stor : BOOLEAN, space : BOOLEAN]]
  /\ drift \subseteq Causes
  /\ faults \in Nat
  /\ ops \in Nat

(***************************************************************************)
(* Whatever the threads interleave and whichever calls fail, the assigned  *)
(* capacity stays within the resource: updates may be lost, but each one   *)
(* writes a value that was checked against the total.                      *)
(***************************************************************************)
AssignedWithinTotal == \A s \in Storages : assign[s] \in Size

(***************************************************************************)
(* What makes TypeOK and AssignedWithinTotal inductive: a handler that has *)
(* chosen its space knows the storage it lies on; what it has read of the  *)
(* storage document was within the total then; every stored space lies on  *)
(* a storage resource.                                                     *)
(***************************************************************************)
HandlerReady ==
  \A t \in Threads : th[t].pc \in {"add", "addset", "ded", "dedset", "mkdir", "save"} =>
    th[t].id \in SpaceIDs /\ th[t].doc.st \in Storages
SnapshotWithinTotal ==
  \A t \in Threads : th[t].pc \in {"addset", "dedset"} => th[t].snap \in Size
SpacesStored == \A i \in SpaceIDs : spaces[i] # Absent => spaces[i].st \in Storages

IInv == /\ TypeOK /\ HandlerReady /\ SnapshotWithinTotal /\ SpacesStored
        /\ AssignedWithinTotal

\* Capacity of the active spaces on a storage resource, counted unit by unit.
ActiveCapacity(s) ==
  Cardinality(UNION {{i} \X (1 .. spaces[i].size) :
                       i \in {j \in SpaceIDs : Active(j) /\ spaces[j].st = s}})

Quiet == \A t \in Threads : th[t].pc = "idle"

(***************************************************************************)
(* When no handler is running, the assigned capacity is the sum of the     *)
(* active spaces, unless one of the known causes of drift has occurred: a  *)
(* set over a document written since it was read, a call that failed, a    *)
(* space without a name, the resize or second delete of a deleted space.   *)
(***************************************************************************)
AccountingUnlessDrift ==
  Quiet /\ drift = {} => \A s \in Storages : assign[s] = ActiveCapacity(s)

=============================================================================
