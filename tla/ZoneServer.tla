----------------------------- MODULE ZoneServer -----------------------------
(***************************************************************************)
(* The zone service of the manager (src/manager/zone/ZoneServer.cc) on top *)
(* of the space service (module SpaceServer).                              *)
(*                                                                         *)
(* A zone document lists the spaces that belong to a zone.  A handler      *)
(* reads the zone document (or queries for it), calls the space service on *)
(* the same thread, and writes the document it has read back with its      *)
(* change.  Every database call is a step.                                 *)
(*                                                                         *)
(* The lists of members and spaces are sets here, and the names of spaces  *)
(* are left out.  A request that is refused without a change is no step.   *)
(***************************************************************************)
EXTENDS SpaceServer

CONSTANTS ZoneIDs,      \* uuids of zones
          Users, Admins,
          MemberLists,  \* the members that a request may name
          Names,        \* zone names other than ""
          NoName,       \* the zone name ""
          NoZone, NoUser,
          MaxZoneOps,   \* bound: requests
          MaxZoneFaults \* bound: failing calls about zone documents

ASSUME UsersAssumption == Admins \subseteq Users /\ NoUser \notin Users /\ MemberLists \subseteq SUBSET Users
ASSUME NamesAssumption == NoName \notin Names /\ NoZone \notin ZoneIDs
ASSUME ZoneBoundsAssumption == MaxZoneOps \in Nat /\ MaxZoneFaults \in Nat

VARIABLES zones,     \* uuid -> zone document
          zt,        \* thread -> locals of its zone handler
          zstale,    \* history: threads whose zone was written since they read it
          zdrift,    \* history: why zones and active spaces may disagree
          zfaults, zops

zoneVars == <<zones, zt, zstale, zdrift, zfaults, zops>>
allVars == <<vars, zoneVars>>

-----------------------------------------------------------------------------
Zone == [owner : Users \cup {NoUser}, name : Names \cup {NoName},
         members : SUBSET Users, spaces : SUBSET SpaceIDs]
NoDoc == [owner |-> NoUser, name |-> NoName, members |-> {}, spaces |-> {}]
Exists(z) == zones[z] # NoDoc

ZoneOps == {"register", "add", "cancel", "mapadd", "mapdeduct", "share", "sharecancel", "rename"}

(***************************************************************************)
(* pc: "idle"; "call" - about to call the space service; "wait" - in that  *)
(* call; "query" - ZoneRename looks for the new name; "set", "remove" -    *)
(* about to write or remove the zone document.                             *)
(***************************************************************************)
ZoneHandler == [pc : {"idle", "call", "wait", "query", "set", "remove"},
                op : ZoneOps,
                user : Users \cup {NoUser},
                zone : ZoneIDs \cup {NoZone},
                doc : Zone,               \* the document to be written
                ids : SUBSET SpaceIDs]    \* spaces to be deleted

ZoneIdle == [pc |-> "idle", op |-> "register", user |-> NoUser, zone |-> NoZone, doc |-> NoDoc,
             ids |-> {}]

ZoneCauses == {"lost update", "failed call", "unnamed zone", "refused deduct"}

ZBlame(cause, cond) == zdrift' = IF cond THEN zdrift \cup {cause} ELSE zdrift
ZFault == zfaults < MaxZoneFaults /\ zfaults' = zfaults + 1

\* Writing a zone document makes stale what the other handlers have read of it.
WriteZone(t) == (zstale \cup {u \in Threads : zt[u].zone = zt[t].zone}) \ {t}

-----------------------------------------------------------------------------
(***************************************************************************)
(* The requests.  Each begins with a get of the zone or a query for it.    *)
(***************************************************************************)
Request(t) ==
  /\ zt[t].pc = "idle" /\ th[t].pc = "idle"
  /\ zops < MaxZoneOps /\ zops' = zops + 1

ZBegin(t, pc, op, u, z, doc, ids) ==
  /\ Request(t)
  /\ zt' = [zt EXCEPT ![t] = [pc |-> pc, op |-> op, user |-> u, zone |-> z, doc |-> doc,
                              ids |-> ids]]
  /\ zstale' = zstale \ {t}
  /\ UNCHANGED <<vars, zones>>

QueryZones(u, n) == {z \in ZoneIDs : zones[z].owner = u /\ zones[z].name = n}
FreshZones == {z \in ZoneIDs : ~Exists(z) /\ \A t \in Threads : zt[t].zone # z}

NewZone(u, n, mem) == [owner |-> u, name |-> n, members |-> mem, spaces |-> {}]

\* The query for a zone of that name is empty, or it fails: the error code is
\* not looked at.
NameFree(u, n) ==
  \/ QueryZones(u, n) = {} /\ UNCHANGED <<zfaults, zdrift>>
  \/ QueryZones(u, n) # {} /\ ZFault /\ ZBlame("failed call", TRUE)

ZoneRegister(t, u, n, mem) ==
  \E z \in FreshZones :
    /\ NameFree(u, n)
    /\ ZBegin(t, "call", "register", u, z, NewZone(u, n, mem), {})

\* ZoneAdd: to the one zone of that name, or to a new one if there is none.
ZoneAdd(t, u, n, mem) ==
  /\ \/ /\ QueryZones(u, n) = {}
        /\ \E z \in FreshZones : ZBegin(t, "call", "add", u, z, NewZone(u, n, mem), {})
     \/ \E z \in ZoneIDs :
          QueryZones(u, n) = {z} /\ ZBegin(t, "call", "add", u, z, zones[z], {})
  /\ UNCHANGED <<zfaults, zdrift>>

\* A request about an existing zone; admins may make some of them, too.
OnZone(t, u, z, op, pc, doc, ids) ==
  /\ Exists(z)
  /\ zones[z].owner = u \/ (op \notin {"mapadd", "mapdeduct"} /\ u \in Admins)
  /\ ZBegin(t, pc, op, u, z, doc, ids)
  /\ UNCHANGED <<zfaults, zdrift>>

ZoneCancel(t, u, z) == OnZone(t, u, z, "cancel", "call", zones[z], zones[z].spaces)
MapAdd(t, u, z) == OnZone(t, u, z, "mapadd", "call", zones[z], {})
MapDeduct(t, u, z, ids) ==
  ids \subseteq zones[z].spaces /\ OnZone(t, u, z, "mapdeduct", "call", zones[z], ids)
ZoneShare(t, u, z, mem) ==
  OnZone(t, u, z, "share", "set", [zones[z] EXCEPT !.members = @ \cup mem], {})
ZoneShareCancel(t, u, z, mem) ==
  /\ mem \subseteq zones[z].members
  /\ OnZone(t, u, z, "sharecancel", "set", [zones[z] EXCEPT !.members = @ \ mem], {})

\* Mutant: the document is made anew, without its members.
ZoneRenameAnew(t, u, z, n) ==
  OnZone(t, u, z, "rename", "query",
         [NewZone(zones[z].owner, n, {}) EXCEPT !.spaces = zones[z].spaces], {})

ZoneRename(t, u, z, n) == OnZone(t, u, z, "rename", "query", [zones[z] EXCEPT !.name = n], {})

-----------------------------------------------------------------------------
(***************************************************************************)
(* The rest of the handlers.                                               *)
(***************************************************************************)
Done(t) == [zt EXCEPT ![t] = ZoneIdle]

\* The handler calls the space service on its own thread.
CallSpace(t) ==
  /\ zt[t].pc = "call"
  /\ \/ /\ zt[t].op \in {"register", "mapadd"}
        /\ \E size \in Sizes, named \in BOOLEAN : SpaceCreate(t, size, named)
     \/ zt[t].op = "add" /\ \E i \in SpaceIDs : SpaceCheck(t, i)
     \/ zt[t].op \in {"cancel", "mapdeduct"} /\ SpaceDelete(t, zt[t].ids)
  /\ zt' = [zt EXCEPT ![t].pc = "wait"]
  /\ UNCHANGED <<zones, zstale, zdrift, zfaults, zops>>

\* The space service refuses before it has changed anything: no such resource,
\* no inactive space of that path, or a name in use.
CallRefused(t) ==
  /\ zt[t].pc = "call" /\ zt[t].op \in {"register", "mapadd", "add"}
  /\ zt' = Done(t)
  /\ UNCHANGED <<vars, zones, zstale, zdrift, zfaults, zops>>

\* Mutant: the handler goes on without waiting for the result of SpaceDelete.
SpaceStepNoWait(t) ==
  /\ IF th[t].op = "delete" /\ th[t].pc = "get"
     THEN th' = Return(t, TRUE) /\ UNCHANGED <<assign, spaces, stale, drift, faults, ops>>
     ELSE Step(t)
  /\ UNCHANGED zoneVars

\* A step of the space service.  SpaceDelete skips a space whose capacity it
\* cannot deduct; the space stays active.
SpaceStep(t) ==
  /\ Step(t)
  /\ ZBlame("refused deduct", th[t].op = "delete" /\ th[t].pc = "dedset" /\ ~Covers(t))
  /\ UNCHANGED <<zones, zt, zstale, zfaults, zops>>

\* Mutant: the new space is not entered into the document.
WithSpaceNot(t) == zt[t].doc

\* The document with the space that the call has returned, or without the
\* spaces it was asked to delete (MapDeduct does not look at the result).
WithSpace(t) == IF zt[t].op = "mapdeduct" THEN [zt[t].doc EXCEPT !.spaces = @ \ zt[t].ids]
                ELSE [zt[t].doc EXCEPT !.spaces = @ \cup {th[t].id}]

\* ZoneRegister tests the zone's name only now that the space exists.
Returned(t) ==
  /\ zt[t].pc = "wait" /\ th[t].pc = "ret"
  /\ Reply(t)
  /\ \/ /\ zt[t].op \notin {"cancel", "mapdeduct"} => th[t].ok
        /\ zt[t].op = "register" => zt[t].doc.name # NoName
        /\ zt[t].op # "cancel"
        /\ zt' = [zt EXCEPT ![t].pc = "set", ![t].doc = WithSpace(t)]
        /\ UNCHANGED zdrift
     \/ /\ zt[t].op = "register" /\ zt[t].doc.name = NoName /\ th[t].ok
        /\ zt' = Done(t)
        /\ ZBlame("unnamed zone", TRUE)
     \/ /\ zt[t].op = "cancel" /\ th[t].ok
        /\ zt' = [zt EXCEPT ![t].pc = "remove"]
        /\ UNCHANGED zdrift
     \/ /\ zt[t].op # "mapdeduct" /\ ~th[t].ok
        /\ zt' = Done(t)
        /\ UNCHANGED zdrift
  /\ UNCHANGED <<zones, zstale, zfaults, zops>>

\* ZoneRename looks for the new name among the zones of the requester.
RenameQuery(t) ==
  /\ zt[t].pc = "query"
  /\ \/ NameFree(zt[t].user, zt[t].doc.name) /\ zt' = [zt EXCEPT ![t].pc = "set"]
     \/ /\ QueryZones(zt[t].user, zt[t].doc.name) # {}
        /\ zt' = Done(t)
        /\ UNCHANGED <<zfaults, zdrift>>
  /\ UNCHANGED <<vars, zones, zstale, zops>>

\* set or remove, which may fail with or without effect.
WriteBack(t) ==
  LET after == [zones EXCEPT ![zt[t].zone] = IF zt[t].pc = "set" THEN zt[t].doc ELSE NoDoc] IN
  /\ zt[t].pc \in {"set", "remove"}
  /\ zt' = Done(t)
  /\ \/ /\ zones' = after
        /\ zstale' = WriteZone(t)
        /\ ZBlame("lost update", t \in zstale)
        /\ UNCHANGED zfaults
     \/ /\ ZFault
        /\ \/ UNCHANGED <<zones, zstale>>
           \/ zones' = after /\ zstale' = WriteZone(t)
        /\ ZBlame("failed call", TRUE)
  /\ UNCHANGED <<vars, zops>>

\* Requests to the space service itself.
DirectCall(t) ==
  /\ Request(t)
  /\ \/ \E i \in SpaceIDs : SpaceRename(t, i)
     \/ \E i \in SpaceIDs, new \in Sizes : SpaceSizeChange(t, i, new)
  /\ UNCHANGED <<zones, zt, zstale, zdrift, zfaults>>

DirectReply(t) == zt[t].pc = "idle" /\ Reply(t) /\ UNCHANGED zoneVars

-----------------------------------------------------------------------------
ZoneInit ==
  /\ Init
  /\ zones = [z \in ZoneIDs |-> NoDoc]
  /\ zt = [t \in Threads |-> ZoneIdle]
  /\ zstale = {} /\ zdrift = {}
  /\ zfaults = 0 /\ zops = 0

ZoneRequest(t) ==
  \E u \in Users :
    \/ \E n \in Names \cup {NoName}, mem \in MemberLists :
         ZoneRegister(t, u, n, mem) \/ ZoneAdd(t, u, n, mem)
    \/ \E z \in ZoneIDs :
         \/ ZoneCancel(t, u, z) \/ MapAdd(t, u, z)
         \/ \E ids \in SUBSET SpaceIDs : MapDeduct(t, u, z, ids)
         \/ \E mem \in MemberLists : ZoneShare(t, u, z, mem) \/ ZoneShareCancel(t, u, z, mem)
         \/ \E n \in Names \cup {NoName} : ZoneRename(t, u, z, n)

ZoneNext ==
  \E t \in Threads :
    \/ ZoneRequest(t) \/ CallSpace(t) \/ CallRefused(t) \/ SpaceStep(t) \/ Returned(t)
    \/ RenameQuery(t) \/ WriteBack(t) \/ DirectCall(t) \/ DirectReply(t)

ZoneSpec == ZoneInit /\ [][ZoneNext]_allVars

-----------------------------------------------------------------------------
ZoneTypeOK ==
  /\ zones \in [ZoneIDs -> Zone]
  /\ zt \in [Threads -> ZoneHandler]
  /\ zstale \subseteq Threads /\ zdrift \subseteq ZoneCauses
  /\ zfaults \in Nat /\ zops \in Nat

(***************************************************************************)
(* What makes ZoneTypeOK inductive and the calls of the space service      *)
(* proper ones: a handler that waits for a new space has called SpaceCreate *)
(* or SpaceCheck, which keep the id they have begun with; only SpaceDelete *)
(* goes from space to space.                                               *)
(***************************************************************************)
CallsMatch ==
  \A t \in Threads :
    /\ th[t].pc = "get" => th[t].op = "delete"
    /\ zt[t].pc = "wait" /\ zt[t].op \notin {"cancel", "mapdeduct"} =>
         th[t].op \in {"create", "check"} /\ th[t].id \in SpaceIDs

ZInv == ZoneTypeOK /\ CallsMatch

ZoneQuiet == Quiet /\ \A t \in Threads : zt[t].pc = "idle"

(***************************************************************************)
(* When no handler runs, every active space belongs to exactly one zone    *)
(* and every space that a zone lists is active - unless one of the known   *)
(* causes has occurred: overlapping handlers on one document, a failed     *)
(* call, a zone registered with the name "" (its space stays without a     *)
(* zone), or a space whose capacity could not be deducted when its zone    *)
(* was cancelled.                                                          *)
(***************************************************************************)
ZonesOwnSpaces ==
  ZoneQuiet /\ zdrift = {} /\ drift \cap {"lost update", "failed call"} = {} =>
    /\ \A i \in SpaceIDs : Active(i) =>
         Cardinality({z \in ZoneIDs : i \in zones[z].spaces}) = 1
    /\ \A z \in ZoneIDs : \A i \in zones[z].spaces : Active(i)

(***************************************************************************)
(* Access to a zone: while no update is lost, a step changes the members   *)
(* of a zone only if it creates or removes the zone or completes a share   *)
(* or a share-cancel of it.  Everything else writes back what it has read. *)
(***************************************************************************)
MembersOnlyByShare ==
  [][\A z \in ZoneIDs :
       Exists(z) /\ Exists(z)' /\ zones'[z].members # zones[z].members /\ zdrift' = {} =>
         \E t \in Threads : zt[t].zone = z /\ zt[t].op \in {"share", "sharecancel"}
                                           /\ zt'[t].pc = "idle"]_allVars

(***************************************************************************)
(* The zone service uses the space service as SpaceServer says: what holds *)
(* of the space service for any caller holds of the composition.           *)
(***************************************************************************)
UsesSpaceServer == Spec

=============================================================================
