---------------------------- MODULE ReplicaQueue ----------------------------
(***************************************************************************)
(* The replication queue of an I/O proxy (src/io_proxy/replica_mgr.cc).    *)
(*                                                                         *)
(* Worker threads that have executed an operation on a replicated space    *)
(* submit it to m_new, waiting while the queue is over its limit.  The     *)
(* manager thread swaps the queue out and sends each request to every      *)
(* other center of the space.  A critical section of m_queue_mutex is one  *)
(* step; a thread in pthread_cond_wait is marked "waiting" and goes on     *)
(* only after a signal, a broadcast or a spurious wake-up.                 *)
(*                                                                         *)
(* The RPC to a peer is external: it may fail, and a call that failed may  *)
(* or may not have reached the peer.                                       *)
(***************************************************************************)
EXTENDS Integers, Sequences, FiniteSets

CONSTANTS Submitters,    \* worker threads
          Ids,           \* bound: identities of the requests submitted
          Peers,         \* the other centers of the space
          NoRequest,
          MaxNew         \* m_max_new

ASSUME MaxNewAssumption == MaxNew \in Nat
ASSUME PeersAssumption  == IsFiniteSet(Peers)

VARIABLES m_new,      \* the queue
          m_stop,
          t,          \* the batch that flush() has swapped out
          cur,        \* the request being sent, or NoRequest
          left,       \* the peers it has not been sent to
          flusher,    \* where the manager thread is
          sub,        \* where each submitter is, and its request
          received,   \* peer -> what has reached it, in order
          failed,     \* peer -> requests whose RPC failed
          log,        \* history: requests in the order of submission
          sent        \* history: requests whose sending is over, in order

vars == <<m_new, m_stop, t, cur, left, flusher, sub, received, failed, log, sent>>

-----------------------------------------------------------------------------
\* "write" goes out as rep_update_index; "private" is a setxattr of a
\* user.gvds attribute, which stays at home; "other" goes out as it is.
Kinds == {"write", "private", "other"}
Request == [id : Ids, kind : Kinds]
ASSUME NoRequestAssumption == NoRequest \notin Request

Wire(r) == [id |-> r.id, kind |-> IF r.kind = "write" THEN "rep_update_index" ELSE r.kind]

\* "check": entry() holds the mutex at the head of its loop; "waiting": on
\* m_cond_flusher; "flush": about to swap; "last": about to swap for the last
\* time; "send", "lastsend": in _flush; "exit".
FlusherStates == {"check", "waiting", "flush", "last", "send", "lastsend", "exit"}
Submitter == [pc : {"idle", "submit", "waiting"}, req : Request \cup {NoRequest}]
Away == [pc |-> "idle", req |-> NoRequest]

IdsOf(seq) == {seq[i].id : i \in DOMAIN seq}
Used == IdsOf(log) \cup {sub[s].req.id : s \in {u \in Submitters : sub[u].pc # "idle"}}

Wake(pc) == IF pc = "waiting" THEN "check" ELSE pc
Broadcast == [s \in Submitters |->
                IF sub[s].pc = "waiting" THEN [sub[s] EXCEPT !.pc = "submit"] ELSE sub[s]]

-----------------------------------------------------------------------------
Init ==
  /\ m_new = <<>> /\ t = <<>>
  /\ m_stop = FALSE
  /\ cur = NoRequest /\ left = {}
  /\ flusher = "check"
  /\ sub = [s \in Submitters |-> Away]
  /\ received = [p \in Peers |-> <<>>]
  /\ failed = [p \in Peers |-> {}]
  /\ log = <<>> /\ sent = <<>>

\* An identity no request has yet; which one makes no difference.
NewId == CHOOSE i \in Ids : i \notin Used

\* handle_replica_async has decided to replicate the request.
Call(s) ==
  /\ sub[s].pc = "idle" /\ Ids \ Used # {}
  /\ \E k \in Kinds :
       sub' = [sub EXCEPT ![s] = [pc |-> "submit", req |-> [id |-> NewId, kind |-> k]]]
  /\ UNCHANGED <<m_new, m_stop, t, cur, left, flusher, received, failed, log, sent>>

\* Mutant: the limit admits one request more.
FullLate == Len(m_new) > MaxNew + 1

\* The limit is tested before the push: one more than the limit fits.
Full == Len(m_new) > MaxNew

\* Mutant: the manager thread is not signalled.
SubmitNoSignal(s) ==
  /\ sub[s].pc = "submit"
  /\ \/ /\ Full
        /\ sub' = [sub EXCEPT ![s].pc = "waiting"]
        /\ UNCHANGED <<m_new, log>>
     \/ /\ ~Full
        /\ m_new' = Append(m_new, sub[s].req)
        /\ log' = Append(log, sub[s].req)
        /\ sub' = [sub EXCEPT ![s] = Away]
  /\ UNCHANGED <<m_stop, t, cur, left, flusher, received, failed, sent>>

submit_replicated_request(s) ==
  /\ sub[s].pc = "submit"
  /\ \/ /\ Full
        /\ sub' = [sub EXCEPT ![s].pc = "waiting"]
        /\ UNCHANGED <<m_new, flusher, log>>
     \/ /\ ~Full
        /\ m_new' = Append(m_new, sub[s].req)
        /\ log' = Append(log, sub[s].req)
        /\ flusher' = Wake(flusher)
        /\ sub' = [sub EXCEPT ![s] = Away]
  /\ UNCHANGED <<m_stop, t, cur, left, received, failed, sent>>

\* pthread_cond_wait may return without a signal.
SpuriousWakeup ==
  /\ \/ \E s \in Submitters : /\ sub[s].pc = "waiting"
                              /\ sub' = [sub EXCEPT ![s].pc = "submit"]
                              /\ UNCHANGED flusher
     \/ flusher = "waiting" /\ flusher' = "check" /\ UNCHANGED sub
  /\ UNCHANGED <<m_new, m_stop, t, cur, left, received, failed, log, sent>>

\* The head of the loop in entry().
entry ==
  /\ flusher = "check"
  /\ flusher' = CASE m_stop -> "last" [] ~m_stop /\ m_new # <<>> -> "flush"
                  [] OTHER -> "waiting"
  /\ UNCHANGED <<m_new, m_stop, t, cur, left, sub, received, failed, log, sent>>

\* Mutant: waiting submitters are not woken.
FlushNoBroadcast ==
  /\ flusher \in {"flush", "last"}
  /\ t' = m_new
  /\ m_new' = <<>>
  /\ flusher' = IF flusher = "last" THEN "lastsend" ELSE "send"
  /\ UNCHANGED <<m_stop, cur, left, sub, received, failed, log, sent>>

\* Mutant: the queue is copied, not swapped.
FlushCopy ==
  /\ flusher \in {"flush", "last"}
  /\ t' = m_new
  /\ sub' = Broadcast
  /\ flusher' = IF flusher = "last" THEN "lastsend" ELSE "send"
  /\ UNCHANGED <<m_new, m_stop, cur, left, received, failed, log, sent>>

flush ==
  /\ flusher \in {"flush", "last"}
  /\ t' = m_new
  /\ m_new' = <<>>
  /\ sub' = Broadcast
  /\ flusher' = IF flusher = "last" THEN "lastsend" ELSE "send"
  /\ UNCHANGED <<m_stop, cur, left, received, failed, log, sent>>

\* _flush takes the next request; a private attribute is not sent.
TakeRequest ==
  /\ flusher \in {"send", "lastsend"} /\ cur = NoRequest /\ t # <<>>
  /\ cur' = Head(t)
  /\ left' = IF Head(t).kind = "private" THEN {} ELSE Peers
  /\ t' = Tail(t)
  /\ UNCHANGED <<m_new, m_stop, flusher, sub, received, failed, log, sent>>

\* Mutant: a failed call is made again.
SendToRetry(p) ==
  /\ cur # NoRequest /\ p \in left
  /\ \/ /\ received' = [received EXCEPT ![p] = Append(@, Wire(cur))]
        /\ left' = left \ {p}
        /\ UNCHANGED failed
     \/ /\ failed' = [failed EXCEPT ![p] = @ \cup {cur.id}]
        /\ \/ UNCHANGED received
           \/ received' = [received EXCEPT ![p] = Append(@, Wire(cur))]
        /\ UNCHANGED left
  /\ UNCHANGED <<m_new, m_stop, t, cur, flusher, sub, log, sent>>

\* Submit to one peer; the outcome is logged and nothing else.
SendTo(p) ==
  /\ cur # NoRequest /\ p \in left
  /\ left' = left \ {p}
  /\ \/ /\ received' = [received EXCEPT ![p] = Append(@, Wire(cur))]
        /\ UNCHANGED failed
     \/ /\ failed' = [failed EXCEPT ![p] = @ \cup {cur.id}]
        /\ \/ UNCHANGED received
           \/ received' = [received EXCEPT ![p] = Append(@, Wire(cur))]
  /\ UNCHANGED <<m_new, m_stop, t, cur, flusher, sub, log, sent>>

RequestDone ==
  /\ cur # NoRequest /\ left = {}
  /\ sent' = Append(sent, cur)
  /\ cur' = NoRequest
  /\ UNCHANGED <<m_new, m_stop, t, left, flusher, sub, received, failed, log>>

FlushDone ==
  /\ flusher \in {"send", "lastsend"} /\ cur = NoRequest /\ t = <<>>
  /\ flusher' = IF flusher = "send" THEN "check" ELSE "exit"
  /\ UNCHANGED <<m_new, m_stop, t, cur, left, sub, received, failed, log, sent>>

stop ==
  /\ ~m_stop
  /\ m_stop' = TRUE
  /\ flusher' = Wake(flusher)
  /\ sub' = Broadcast
  /\ UNCHANGED <<m_new, t, cur, left, received, failed, log, sent>>

FlusherStep == entry \/ flush \/ TakeRequest \/ (\E p \in Peers : SendTo(p)) \/ RequestDone
               \/ FlushDone

Next ==
  \/ \E s \in Submitters : Call(s) \/ submit_replicated_request(s)
  \/ SpuriousWakeup \/ FlusherStep \/ stop

Spec == Init /\ [][Next]_vars

\* The manager thread and every submitter in submit_replicated_request run on.
\* Nobody has to call, to stop, or to wake up spuriously.
Fairness ==
  /\ WF_vars(FlusherStep)
  /\ \A s \in Submitters : WF_vars(submit_replicated_request(s))

FairSpec == Spec /\ Fairness

-----------------------------------------------------------------------------
TypeOK ==
  /\ m_new \in Seq(Request) /\ t \in Seq(Request)
  /\ m_stop \in BOOLEAN
  /\ cur \in Request \cup {NoRequest} /\ left \subseteq Peers
  /\ flusher \in FlusherStates
  /\ sub \in [Submitters -> Submitter]
  /\ received \in [Peers -> Seq([id : Ids, kind : {"rep_update_index", "other"}])]
  /\ failed \in [Peers -> SUBSET Ids]
  /\ log \in Seq(Request) /\ sent \in Seq(Request)

(***************************************************************************)
(* However many threads submit at once, the queue holds at most one        *)
(* request more than m_max_new, and so does the batch being sent.          *)
(***************************************************************************)
QueueBound == Len(m_new) <= MaxNew + 1 /\ Len(t) <= MaxNew + 1

Current == IF cur = NoRequest THEN <<>> ELSE <<cur>>
Pending == Current \o t \o m_new

(***************************************************************************)
(* Nothing is lost, duplicated or reordered inside the manager: what has   *)
(* been submitted is what has been sent, followed by the request in hand,  *)
(* the rest of the batch and the queue, across any number of swaps.        *)
(***************************************************************************)
InOrder == log = sent \o Pending

(***************************************************************************)
(* What makes TypeOK, QueueBound and InOrder inductive: a submitter in the *)
(* call has a request; flush() overwrites t only when it is empty and no   *)
(* request is in hand; the request in hand came out of the batch; peers    *)
(* are left only for a request that is sent at all.                        *)
(***************************************************************************)
SubmitterHasRequest == \A s \in Submitters : sub[s].pc # "idle" => sub[s].req \in Request
BatchOnlyInFlush == flusher \notin {"send", "lastsend"} => t = <<>> /\ cur = NoRequest
BatchBound == Len(Current) + Len(t) <= MaxNew + 1
LeftHasRequest == left # {} => cur # NoRequest /\ cur.kind # "private"

IInv == /\ TypeOK /\ SubmitterHasRequest /\ BatchOnlyInFlush /\ LeftHasRequest
        /\ Len(m_new) <= MaxNew + 1 /\ BatchBound /\ InOrder

\* Position of a request in the order of submission.
Position(i) == CHOOSE n \in DOMAIN log : log[n].id = i

(***************************************************************************)
(* What a peer sees: requests in the order in which this center submitted  *)
(* them and none twice, even if calls fail half-way; every request whose   *)
(* call did not fail, except the private attributes.                       *)
(***************************************************************************)
PeerSees ==
  \A p \in Peers :
    /\ \A i, j \in DOMAIN received[p] :
         i < j => Position(received[p][i].id) < Position(received[p][j].id)
    /\ \A i \in DOMAIN sent :
         sent[i].kind # "private" /\ sent[i].id \notin failed[p] =>
           \E j \in DOMAIN received[p] : received[p][j] = Wire(sent[i])

\* The manager is a bounded FIFO channel (module ReplicaChannel).
Channel == INSTANCE ReplicaChannel WITH Message <- Request, Capacity <- 2 * (MaxNew + 1),
                                        queue <- Pending, out <- sent

(***************************************************************************)
(* Refinement: the locks, batches and condition variables of the manager   *)
(* implement a bounded FIFO channel for any schedule, also across stop().  *)
(***************************************************************************)
ImplementsChannel == Channel!ChanSpec

\* stop() has led to the last swap: what is submitted now stays in the queue.
Closed == flusher \in {"lastsend", "exit"}

(***************************************************************************)
(* A request submitted before the last flush of stop() is sent: no signal  *)
(* to the manager thread is lost between its test and its wait.            *)
(***************************************************************************)
EventuallySent ==
  \A i \in Ids : i \in IdsOf(log) /\ ~Closed ~> i \in IdsOf(sent)

(***************************************************************************)
(* A thread that waits for room gets it while the manager runs.            *)
(***************************************************************************)
SubmitterReturns ==
  \A s \in Submitters : sub[s].pc # "idle" ~> sub[s].pc = "idle" \/ Closed

=============================================================================
