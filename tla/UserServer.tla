----------------------------- MODULE UserServer -----------------------------
(***************************************************************************)
(* Accounts in the manager (src/manager/usermodel/UserModelServer.cc).     *)
(*                                                                         *)
(* One document, .USER_UUID_MAP, maps names to uuids; each account has a   *)
(* document of its own, under its uuid.  REST threads run the handlers     *)
(* side by side; each get, set and remove on the database is one step.     *)
(* A call may fail, and a failed set may or may not have been applied; the *)
(* manager may stop between two steps and be started again.                *)
(*                                                                         *)
(* An operation gets its number as the uuid that it may need.  Uuid 0 is   *)
(* an account from the time when accounts still had a SCUSER document,     *)
(* which no code writes any more.                                          *)
(***************************************************************************)
EXTENDS Integers, FiniteSets

CONSTANTS Names, Passwords,
          Threads,     \* REST worker threads
          TopKeys,     \* names that are also keys of other documents (a center's pool)
          MaxFaults,   \* bound: failing database calls and restarts
          MaxOps       \* bound: operations started

ASSUME UserAssumption == MaxFaults \in Nat /\ MaxOps \in Nat /\ TopKeys \subseteq Names

\* The name of a document that is not there.
NoName == "no name"
ASSUME NoNameAssumption == NoName \notin Names

VARIABLES hasMap,    \* .USER_UUID_MAP exists
          map,       \* name -> uuid
          accounts,  \* uuid -> account document
          adminlist, \* uuids on the list of administrators
          tokens,    \* documents that logins leave: name and password, hashed
          sc,        \* uuids with a SCUSER document
          keys,      \* the other documents that are left
          zoned,     \* uuids that own zones
          th,        \* thread -> its handler's locals
          clients,   \* accounts that a client is logged in as
          reported,  \* history: registrations that reported success
          clash,     \* history: names registered twice at once, or after a failed get
          raced,     \* history: two registrations found that the map is missing
          broken,    \* history: uuids whose registration stopped half way
          cancelled, \* history: uuids whose account was removed
          unsure,    \* history: uuids whose zones a cancellation could not see
          faults, ops

db == <<hasMap, map, accounts, adminlist, tokens, sc, keys>>
history == <<reported, clash, raced, broken, cancelled, unsure>>
vars == <<db, zoned, th, clients, history, faults, ops>>

Uuids == 0 .. MaxOps
NoId == -1
Accounts == [name : Names, pass : Passwords]
None == [name |-> NoName, pass |-> NoName]

Idle == [pc |-> "idle", name |-> NoName, pass |-> NoName, admin |-> FALSE, uuid |-> NoId]

Init ==
    /\ hasMap \in BOOLEAN
    /\ accounts \in {[u \in Uuids |-> IF u = 0 THEN a ELSE None] : a \in Accounts \cup {None}}
    /\ accounts[0] # None => hasMap
    /\ map = [n \in Names |-> IF accounts[0].name = n THEN 0 ELSE NoId]
    /\ adminlist = {}
    /\ tokens = {}
    /\ sc = IF accounts[0] = None THEN {} ELSE {0}
    /\ keys = TopKeys
    /\ zoned = {}
    /\ th = [t \in Threads |-> Idle]
    /\ clients = {}
    /\ reported = {} /\ clash = {} /\ raced = FALSE
    /\ broken = {} /\ cancelled = {} /\ unsure = {}
    /\ faults = 0 /\ ops = 0

-----------------------------------------------------------------------------
Fault == faults < MaxFaults /\ faults' = faults + 1

At(t, pc) == th[t].pc = pc
Go(t, pc) == th' = [th EXCEPT ![t].pc = pc]
Return(t) == th' = [th EXCEPT ![t] = Idle]

Begin(t, rec) ==
    /\ At(t, "idle")
    /\ ops < MaxOps
    /\ ops' = ops + 1
    /\ th' = [th EXCEPT ![t] = rec]
    /\ UNCHANGED <<db, zoned, clients, history, faults>>

Start(t, pc, name, pass, admin, uuid) ==
    Begin(t, [pc |-> pc, name |-> name, pass |-> pass, admin |-> admin, uuid |-> uuid])

(***************************************************************************)
(* UserRegister and AdminUserRegister.  A get that fails for any reason    *)
(* counts as a name that is free.                                          *)
(***************************************************************************)
Register(t, name, pass, admin) == Start(t, "regget", name, pass, admin, ops + 1)

\* Mutant: the name is not looked up.
TakenNever(t) == FALSE

Taken(t) == map[th[t].name] # NoId

RegGet(t) ==
    /\ At(t, "regget")
    /\ \/ /\ Taken(t) /\ Return(t)
          /\ UNCHANGED <<clash, faults>>
       \/ /\ ~Taken(t) /\ Go(t, "regset")
          /\ UNCHANGED <<clash, faults>>
       \/ /\ Fault /\ Go(t, "regset")
          /\ clash' = IF Taken(t) THEN clash \cup {th[t].name} ELSE clash
    /\ UNCHANGED <<db, zoned, clients, reported, raced, broken, cancelled, unsure, ops>>

(* Another thread has seen the same name as free and has not written it.   *)
Rivals(t) == {u \in Threads \ {t} : th[u].name = th[t].name
                                    /\ th[u].pc \in {"regset", "reset", "regset2"}}

Written(t) == map' = [map EXCEPT ![th[t].name] = th[t].uuid]
AfterMap(t) == Go(t, IF th[t].admin THEN "regadmin" ELSE "regdoc")
Clashes(t) == clash' = IF Rivals(t) = {} THEN clash ELSE clash \cup {th[t].name}
Half(t) == broken' = broken \cup {th[t].uuid}

Missing == ~hasMap

(* The first write of the path .USER_UUID_MAP[name]; 13 if the document is missing. *)
RegSet(t) ==
    /\ At(t, "regset")
    /\ \/ /\ ~Missing /\ Written(t) /\ AfterMap(t) /\ Clashes(t)
          /\ UNCHANGED <<raced, broken, faults>>
       \/ /\ Missing /\ Go(t, "reset")
          /\ raced' = (raced \/ \E u \in Threads : At(u, "reset"))
          /\ UNCHANGED <<map, clash, broken, faults>>
       \/ /\ Fault /\ Return(t) /\ Half(t)
          /\ \/ ~Missing /\ Written(t) /\ Clashes(t)
             \/ UNCHANGED <<map, clash>>
          /\ UNCHANGED raced
    /\ UNCHANGED <<hasMap, accounts, adminlist, tokens, sc, keys, zoned, clients, reported,
                   cancelled, unsure, ops>>

(* The missing document is written anew, as an empty one. *)
RegReset(t) ==
    /\ At(t, "reset")
    /\ Go(t, "regset2")
    /\ \/ /\ hasMap' = TRUE /\ map' = [n \in Names |-> NoId]
          /\ UNCHANGED faults
       \/ Fault /\ UNCHANGED <<hasMap, map>>
    /\ UNCHANGED <<accounts, adminlist, tokens, sc, keys, zoned, clients, history, ops>>

RegSetAgain(t) ==
    /\ At(t, "regset2")
    /\ \/ /\ hasMap /\ Written(t) /\ AfterMap(t) /\ Clashes(t)
          /\ UNCHANGED <<broken, faults>>
       \/ /\ ~hasMap /\ Return(t)
          /\ UNCHANGED <<map, clash, broken, faults>>
       \/ /\ Fault /\ Return(t) /\ Half(t)
          /\ UNCHANGED <<map, clash>>
    /\ UNCHANGED <<hasMap, accounts, adminlist, tokens, sc, keys, zoned, clients, reported,
                   raced, cancelled, unsure, ops>>

(* arr_insert_uniq: the uuid of an administrator is put on the list. *)
RegAdmin(t) ==
    /\ At(t, "regadmin")
    /\ \/ /\ adminlist' = adminlist \cup {th[t].uuid} /\ Go(t, "regdoc")
          /\ UNCHANGED <<broken, faults>>
       \/ Fault /\ Return(t) /\ Half(t) /\ UNCHANGED adminlist
    /\ UNCHANGED <<hasMap, map, accounts, tokens, sc, keys, zoned, clients, reported, clash,
                   raced, cancelled, unsure, ops>>

\* Mutant: the account is written under the uuid that the client sent.
DocKeySent(t) == 0

DocKey(t) == th[t].uuid

RegDoc(t) ==
    /\ At(t, "regdoc")
    /\ Return(t)
    /\ \/ /\ accounts' = [accounts EXCEPT ![DocKey(t)] = [name |-> th[t].name, pass |-> th[t].pass]]
          /\ reported' = reported \cup {[name |-> th[t].name, uuid |-> th[t].uuid]}
          /\ UNCHANGED <<broken, faults>>
       \/ Fault /\ Half(t) /\ UNCHANGED <<accounts, reported>>
    /\ UNCHANGED <<hasMap, map, adminlist, tokens, sc, keys, zoned, clients, clash, raced,
                   cancelled, unsure, ops>>

(***************************************************************************)
(* UserLogin: the uuid of the name, the administrator's list, the account, *)
(* the token.                                                              *)
(***************************************************************************)
Login(t, name, pass) == Start(t, "logget", name, pass, FALSE, NoId)

LogGet(t) ==
    /\ At(t, "logget")
    /\ \/ /\ map[th[t].name] # NoId
          /\ th' = [th EXCEPT ![t].pc = "logadmin", ![t].uuid = map[th[t].name]]
          /\ UNCHANGED faults
       \/ map[th[t].name] = NoId /\ Return(t) /\ UNCHANGED faults
       \/ Fault /\ Return(t)
    /\ UNCHANGED <<db, zoned, clients, history, ops>>

(* A list that cannot be read makes the user an ordinary one. *)
validadminidentity(t) ==
    /\ At(t, "logadmin")
    /\ \/ th' = [th EXCEPT ![t].pc = "logdoc", ![t].admin = th[t].uuid \in adminlist]
          /\ UNCHANGED faults
       \/ th' = [th EXCEPT ![t].pc = "logdoc"] /\ Fault
    /\ UNCHANGED <<db, zoned, clients, history, ops>>

Same(t) == accounts[th[t].uuid] # None /\ accounts[th[t].uuid].pass = th[t].pass

LogDoc(t) ==
    /\ At(t, "logdoc")
    /\ \/ Same(t) /\ Go(t, "logtoken") /\ UNCHANGED faults
       \/ ~Same(t) /\ Return(t) /\ UNCHANGED faults
       \/ Fault /\ Return(t)
    /\ UNCHANGED <<db, zoned, clients, history, ops>>

LogToken(t) ==
    /\ At(t, "logtoken")
    /\ Return(t)
    /\ \/ /\ tokens' = tokens \cup {<<th[t].name, th[t].pass>>}
          /\ clients' = clients \cup {[name |-> th[t].name, pass |-> th[t].pass, uuid |-> th[t].uuid]}
          /\ UNCHANGED faults
       \/ Fault /\ UNCHANGED <<tokens, clients>>
    /\ UNCHANGED <<hasMap, map, accounts, adminlist, sc, keys, zoned, history, ops>>

(* exitUserAccount answers "0" whatever became of the token. *)
Exit(t, c) ==
    /\ At(t, "idle") /\ ops < MaxOps /\ ops' = ops + 1
    /\ clients' = clients \ {c}
    /\ \/ tokens' = tokens \ {<<c.name, c.pass>>} /\ UNCHANGED faults
       \/ Fault /\ UNCHANGED tokens
    /\ UNCHANGED <<hasMap, map, accounts, adminlist, sc, keys, zoned, th, history>>

(* modifyUserinfo: the whole account is written, without reading it.       *)
Modify(t, c, pass) == Start(t, "moddoc", c.name, pass, FALSE, c.uuid)

\* Mutant: the account that is written is not filled from the request.
PersonFresh(t) == None

Person(t) == [name |-> th[t].name, pass |-> th[t].pass]

ModDoc(t) ==
    /\ At(t, "moddoc")
    /\ Return(t)
    /\ \/ /\ accounts' = [accounts EXCEPT ![th[t].uuid] = Person(t)]
          /\ UNCHANGED faults
       \/ Fault /\ UNCHANGED accounts
    /\ UNCHANGED <<hasMap, map, adminlist, tokens, sc, keys, zoned, clients, history, ops>>

(***************************************************************************)
(* cancellationUserAccount: the account, its zones, the SCUSER document,   *)
(* a document whose key is the name, and the account's document.           *)
(***************************************************************************)
Cancel(t, c) == Start(t, "canget", NoName, NoName, FALSE, c.uuid)

CanGet(t) ==
    /\ At(t, "canget")
    /\ LET doc == accounts[th[t].uuid]
       IN \/ /\ doc # None
             /\ th' = [th EXCEPT ![t].pc = "canzones", ![t].name = doc.name]
             /\ UNCHANGED faults
          \/ doc = None /\ Return(t) /\ UNCHANGED faults
          \/ Fault /\ Return(t)
    /\ UNCHANGED <<db, zoned, clients, history, ops>>

\* Mutant: the rows of the answer are not looked at.
FreeAlways(t) == TRUE

Free(t) == th[t].uuid \notin zoned

(* The error of the query is not looked at: a failed one has no rows. *)
CanZones(t) ==
    /\ At(t, "canzones")
    /\ \/ Free(t) /\ Go(t, "cansc") /\ UNCHANGED <<unsure, faults>>
       \/ ~Free(t) /\ Return(t) /\ UNCHANGED <<unsure, faults>>
       \/ Fault /\ Go(t, "cansc") /\ unsure' = unsure \cup {th[t].uuid}
    /\ UNCHANGED <<db, zoned, clients, reported, clash, raced, broken, cancelled, ops>>

CanSc(t) ==
    /\ At(t, "cansc")
    /\ \/ /\ th[t].uuid \in sc /\ Go(t, "cankey")
          /\ sc' = sc \ {th[t].uuid}
          /\ UNCHANGED faults
       \/ th[t].uuid \notin sc /\ Return(t) /\ UNCHANGED <<sc, faults>>
       \/ Fault /\ Return(t) /\ UNCHANGED sc
    /\ UNCHANGED <<hasMap, map, accounts, adminlist, tokens, keys, zoned, clients, history, ops>>

(* The name is taken for a key; the entry of the map stays. *)
CanKey(t) ==
    /\ At(t, "cankey")
    /\ \/ /\ th[t].name \in keys /\ Go(t, "candoc")
          /\ keys' = keys \ {th[t].name}
          /\ UNCHANGED faults
       \/ th[t].name \notin keys /\ Return(t) /\ UNCHANGED <<keys, faults>>
       \/ Fault /\ Return(t) /\ UNCHANGED keys
    /\ UNCHANGED <<hasMap, map, accounts, adminlist, tokens, sc, zoned, clients, history, ops>>

CanDoc(t) ==
    /\ At(t, "candoc")
    /\ Return(t)
    /\ \/ /\ accounts' = [accounts EXCEPT ![th[t].uuid] = None]
          /\ cancelled' = cancelled \cup {th[t].uuid}
          /\ UNCHANGED faults
       \/ Fault /\ UNCHANGED <<accounts, cancelled>>
    /\ UNCHANGED <<hasMap, map, adminlist, tokens, sc, keys, zoned, clients, reported, clash,
                   raced, broken, unsure, ops>>

-----------------------------------------------------------------------------
(* The zone server, which looks for no account, gives a client a zone.     *)
ZoneRegistered(c) ==
    /\ c.uuid \notin zoned
    /\ zoned' = zoned \cup {c.uuid}
    /\ unsure' = IF \/ c.uuid \in cancelled
                    \/ \E t \in Threads : th[t].uuid = c.uuid /\ th[t].pc \in {"cansc", "cankey", "candoc"}
                 THEN unsure \cup {c.uuid} ELSE unsure
    /\ UNCHANGED <<db, th, clients, reported, clash, raced, broken, cancelled, faults, ops>>

(* The manager stops and is started again: the handlers are gone. *)
Restart ==
    /\ Fault
    /\ broken' = broken \cup {th[t].uuid : t \in {u \in Threads : th[u].pc \in {"regadmin", "regdoc"}}}
    /\ th' = [t \in Threads |-> Idle]
    /\ UNCHANGED <<db, zoned, clients, reported, clash, raced, cancelled, unsure, ops>>

Request(t) ==
    \/ \E n \in Names, p \in Passwords : Login(t, n, p) \/ \E a \in BOOLEAN : Register(t, n, p, a)
    \/ \E c \in clients : Exit(t, c) \/ Cancel(t, c) \/ \E p \in Passwords : Modify(t, c, p)

Step(t) ==
    \/ RegGet(t) \/ RegSet(t) \/ RegReset(t) \/ RegSetAgain(t) \/ RegAdmin(t) \/ RegDoc(t)
    \/ LogGet(t) \/ validadminidentity(t) \/ LogDoc(t) \/ LogToken(t)
    \/ ModDoc(t)
    \/ CanGet(t) \/ CanZones(t) \/ CanSc(t) \/ CanKey(t) \/ CanDoc(t)

Next ==
    \/ \E t \in Threads : Request(t) \/ Step(t)
    \/ \E c \in clients : ZoneRegistered(c)
    \/ Restart

Spec == Init /\ [][Next]_vars

-----------------------------------------------------------------------------
(* Properties *)

(* State of the right shape; names in the map only while it exists; an     *)
(* operation that is under way has a uuid of its own or an account's.      *)
TypeOK ==
    /\ hasMap \in BOOLEAN
    /\ map \in [Names -> Uuids \cup {NoId}]
    /\ ~hasMap => \A n \in Names : map[n] = NoId
    /\ accounts \in [Uuids -> Accounts \cup {None}]
    /\ adminlist \subseteq Uuids /\ sc \subseteq Uuids /\ zoned \subseteq Uuids
    /\ tokens \subseteq Names \X Passwords
    /\ keys \subseteq Names
    /\ clients \subseteq [name : Names, pass : Passwords, uuid : Uuids]
    /\ \A t \in Threads : th[t].pc \notin {"idle", "logget"} => th[t].uuid \in Uuids
    /\ faults \in 0 .. MaxFaults /\ ops \in 0 .. MaxOps

(* A registration that reported success can be found by its name, and the  *)
(* account is there, unless the name was registered twice at once or after *)
(* a failed get, two threads created the map, or the account is cancelled. *)
RegisteredUnlessRaced ==
    \A r \in reported :
        \/ map[r.name] = r.uuid /\ accounts[r.uuid].name = r.name
        \/ r.name \in clash \/ raced \/ r.uuid \in cancelled

(* A name in the map leads to an account, unless its registration has yet  *)
(* to write the account or was stopped before, or the account is cancelled *)
(* (the entry of the map is left behind, and the name stays taken).        *)
NoDanglingName ==
    \A n \in Names :
        map[n] # NoId /\ accounts[map[n]] = None =>
            \/ map[n] \in broken \cup cancelled
            \/ \E t \in Threads : th[t].uuid = map[n] /\ th[t].pc \in {"regadmin", "regdoc"}

(* A login is answered with the uuid of an account whose name is the one   *)
(* that was typed: modifyUserinfo, which writes the account by uuid, and a *)
(* second registration of the name never mix up two accounts.              *)
LoginOfName ==
    \A c \in clients : accounts[c.uuid].name = c.name \/ c.uuid \in cancelled

(* An account that owns zones is not cancelled, unless the query for its   *)
(* zones failed or the zone was registered after it.                       *)
OwnersStay == cancelled \cap zoned \subseteq unsure
=============================================================================
