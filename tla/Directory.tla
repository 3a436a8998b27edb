------------------------------ MODULE Directory ------------------------------
(***************************************************************************)
(* How a client finds the centers and the I/O proxies: SelectNode          *)
(* (client/OPTNode/opt_node.cc) and ClientGraph (client/graph_mod.cc), on  *)
(* top of the managers' Registry.  Each of the two modules has a thread    *)
(* that asks the managers again and again; the IPC thread and the FUSE     *)
(* threads use what they have found.                                       *)
(***************************************************************************)
EXTENDS Registry, FiniteSetsExt

CONSTANTS Empty, Failed, NoList   \* the answers "" and "fail"; no answer to store

ASSUME DirectoryAssumption ==
    /\ \A s \in SUBSET Centers : s \notin {Empty, Failed}
    /\ \A s \in SUBSET Proxies : s # NoList
    /\ 0 \notin Proxies

VARIABLES
    info,      \* center_Information: Empty, Failed or the centers of the document
    optpc,     \* SelectNode's thread: "start", "rank" or "ask"
    nodes,     \* buf_delay
    had,       \* the list of centers has had an entry (for the properties)
    blank,     \* an answer without a center has come (for the properties)
    graph,     \* ioproxy_list: graph[c] is the proxy for center c, or NoProxy
    todo,      \* centers whose managers fresh_ioproxy has still to ask in this round
    answer,    \* the list that fresh_ioproxy waits with for graph_mutex, or NoList
    leaked,    \* a shared lock of graph_mutex that nobody will release
    dead       \* the daemon has indexed an empty list of centers

clivars == <<info, optpc, nodes, had, blank, graph, todo, answer, leaked, dead>>
vars == <<regvars, clivars>>

NoProxy == 0

Init ==
    /\ RegInit
    /\ info = Empty
    /\ optpc = "start"
    /\ nodes = {}
    /\ had = FALSE
    /\ blank = FALSE
    /\ graph = [c \in Centers |-> NoProxy]
    /\ todo = {}
    /\ answer = NoList
    /\ leaked = FALSE
    /\ dead = FALSE

(* The centers in what was answered; "fail" has none of the members that   *)
(* deserialize looks for.                                                  *)
Known(i) == IF i \in {Empty, Failed} THEN {} ELSE i

-----------------------------------------------------------------------------
(* SelectNode *)

(* Mutant: the first answer stays. *)
StoreOnce(a) == IF info \in {Empty, Failed} THEN a ELSE info

(* getCenterInformation: "fail" is dropped only while nothing is known.    *)
Store(a) == IF a = Failed /\ info = Empty THEN info ELSE a

searchCenter == IF doc = NoDoc THEN Failed ELSE doc

(* The answer of searchCenter: the document or "fail"; "fail", too, if the *)
(* manager's get fails; nothing if the answer does not come in time.       *)
getCenterInformation ==
    \/ /\ info' = Store(searchCenter)
       /\ blank' = (blank \/ Known(searchCenter) = {})
       /\ UNCHANGED faults
    \/ Fail /\ info' = Store(Failed) /\ blank' = TRUE
    \/ Fail /\ info' = Store(Empty) /\ UNCHANGED blank

(* start: the first answer gives the first list of centers. *)
OptStart ==
    /\ ~dead /\ optpc = "start"
    /\ getCenterInformation
    /\ nodes' = Known(info')
    /\ had' = (nodes' # {})
    /\ optpc' = "rank"
    /\ UNCHANGED <<load, doc, pool, db, live, res, th, ops, ghosts, graph, todo, answer, leaked, dead>>

(* Mutant: the list is cleared even if nothing is known. *)
RankedClear == Known(info)

(* getRTT and write_rtt: the centers by round-trip time, if there is an    *)
(* answer to take them from.                                               *)
Ranked == IF info = Empty THEN nodes ELSE Known(info)

OptRank ==
    /\ ~dead /\ optpc = "rank"
    /\ nodes' = Ranked
    /\ had' = (had \/ nodes' # {})
    /\ optpc' = "ask"
    /\ UNCHANGED <<regvars, info, blank, graph, todo, answer, leaked, dead>>

OptAsk ==
    /\ ~dead /\ optpc = "ask"
    /\ getCenterInformation
    /\ optpc' = "rank"
    /\ UNCHANGED <<load, doc, pool, db, live, res, th, ops, ghosts, nodes, had, graph, todo, answer,
                   leaked, dead>>

(* dozoneregister and domapadd without the name of a center take the first *)
(* of the list.                                                            *)
DefaultCenter ==
    /\ ~dead /\ nodes = {} /\ optpc # "start"
    /\ dead' = TRUE
    /\ UNCHANGED <<regvars, info, optpc, nodes, had, blank, graph, todo, answer, leaked>>

-----------------------------------------------------------------------------
(* ClientGraph *)

(* A round of fresh_ioproxy begins with a copy of the list of centers.     *)
FreshBegin ==
    /\ ~dead /\ optpc # "start" /\ todo = {} /\ answer = NoList
    /\ todo' = nodes
    /\ UNCHANGED <<regvars, info, optpc, nodes, had, blank, graph, answer, leaked, dead>>

(* One manager is asked; a manager that does not answer is skipped. *)
FreshAsk(m) ==
    /\ ~dead /\ m \in todo /\ answer = NoList
    /\ todo' = todo \ {m}
    /\ \/ answer' = live[m] /\ UNCHANGED faults
       \/ Fail /\ UNCHANGED answer
    /\ UNCHANGED <<load, doc, pool, db, live, res, th, ops, ghosts, info, optpc, nodes, had, blank, graph,
                   leaked, dead>>

(* Mutant: what is in the list of a center stays first. *)
MergedFirst(list) ==
    [c \in Centers |->
        LET ps == {p \in list : Cid[p] = c}
        IN  IF ps = {} \/ graph[c] # NoProxy THEN graph[c] ELSE Max(ps)]

(* The list of a center is cleared for each of its proxies in the answer,  *)
(* so the last one stays; a center without any keeps what it had.          *)
Merged(list) ==
    [c \in Centers |-> LET ps == {p \in list : Cid[p] = c} IN IF ps = {} THEN graph[c] ELSE Max(ps)]

FreshStore ==
    /\ ~dead /\ answer # NoList /\ ~leaked
    /\ graph' = Merged(answer)
    /\ answer' = NoList
    /\ UNCHANGED <<regvars, info, optpc, nodes, had, blank, todo, leaked, dead>>

(* get_mapping for a space at center c (its own, or the one that           *)
(* set_force_mapping gave it): returns with the shared lock if no proxy of *)
(* the center was ever heard of.                                           *)
get_mapping(c) ==
    /\ ~dead /\ optpc # "start"
    /\ leaked' = (leaked \/ graph[c] = NoProxy)
    /\ UNCHANGED <<regvars, info, optpc, nodes, had, blank, graph, todo, answer, dead>>

-----------------------------------------------------------------------------
OptThread == OptStart \/ OptRank \/ OptAsk
GraphThread == FreshBegin \/ (\E m \in Centers : FreshAsk(m)) \/ FreshStore

Next ==
    \/ RegNext /\ UNCHANGED clivars
    \/ load.client /\ OptThread
    \/ DefaultCenter
    \/ GraphThread
    \/ \E c \in Centers : get_mapping(c)

(* The threads of the managers and of the client keep running.             *)
Spec ==
    /\ Init /\ [][Next]_vars
    /\ \A t \in Threads : WF_vars(RegStep(t) /\ UNCHANGED clivars)
    /\ WF_vars(load.client /\ OptThread)
    /\ WF_vars(GraphThread)

-----------------------------------------------------------------------------
(* Properties *)

(* State of the right shape. *)
TypeOK ==
    /\ doc \in {NoDoc} \cup SUBSET Centers
    /\ pool \in [Centers -> {"none", "fresh", "used"}]
    /\ db \subseteq Proxies
    /\ live \in [Centers -> SUBSET Proxies]
    /\ info \in {Empty, Failed} \cup SUBSET Centers
    /\ nodes \subseteq Centers
    /\ graph \in [Centers -> Proxies \cup {NoProxy}]
    /\ \A c \in Centers : graph[c] # NoProxy => Cid[graph[c]] = c
    /\ faults \in 0 .. MaxFaults /\ ops \in 0 .. MaxOps

(* The daemon survives a command without a center once it has had a list   *)
(* of centers, unless the manager answered "fail" or with no center: an    *)
(* answer that is late or lost does not empty the list.                    *)
DiesOnlyWithoutCenters == dead => ~had \/ blank

(* The client's list of centers follows the configuration, whatever was    *)
(* answered on the way, as long as the daemon lives.                       *)
NodesConverge == <>[](~load.client \/ dead \/ doc = NoDoc \/ nodes = doc)

(* The proxy to which the client sends the requests for a center is one    *)
(* that some manager of a known center lists, if there is any, unless the  *)
(* early return of get_mapping has stopped the refreshing for good.        *)
Listed(c) == {p \in UNION {live[m] : m \in nodes} : Cid[p] = c}
GraphFollows == <>[](dead \/ leaked \/ \A c \in Centers : Listed(c) # {} => graph[c] \in Listed(c))
=============================================================================
