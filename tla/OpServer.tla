------------------------------ MODULE OpServer ------------------------------
(***************************************************************************)
(* The gRPC service of the I/O proxies: OpServerImpl::entry                *)
(* (src/io_proxy/grpc_impl.cc), the worker state machines                  *)
(* (src/io_proxy/io_worker.cc) and their scheduler threads                 *)
(* (IOProxy::start in src/io_proxy/io_proxy.cc).                           *)
(*                                                                         *)
(* Each proxy has a few scheduler threads, and each of them runs many      *)
(* worker state machines one event at a time.  ProxyOP::do_op runs inside  *)
(* the constructor of state Processing; a read of a range with holes calls *)
(* the peer proxy and waits for its answer there (sync_filedata), which    *)
(* holds up every worker of that thread.                                   *)
(*                                                                         *)
(* gRPC is external: it hands an arrived call to some worker that has      *)
(* called RequestSubmit and puts the worker's tag on the completion queue; *)
(* Finish puts the tag there once more.                                    *)
(***************************************************************************)
EXTENDS Integers, Sequences, FiniteSets, SequencesExt

CONSTANTS Proxies,        \* I/O proxies, one in each center
          Schedulers,     \* scheduler threads
          Workers,        \* worker state machines
          ProxyOf,        \* scheduler thread -> proxy
          SchedulerOf,    \* worker -> scheduler thread
          ClientCalls,    \* bound: the RPCs that clients make
          ReadProxies,    \* proxies whose clients read ranges with holes
          NoCall, NoWorker

ASSUME ProxiesAssumption     == Proxies # {} /\ IsFiniteSet(Workers)
ASSUME ProxyOfAssumption     == ProxyOf \in [Schedulers -> Proxies]
ASSUME SchedulerOfAssumption == SchedulerOf \in [Workers -> Schedulers]
ASSUME ReadProxiesAssumption == ReadProxies \subseteq Proxies
ASSUME CallsAssumption       == ClientCalls \cap Schedulers = {}
ASSUME NoneAssumption        == /\ NoCall \notin ClientCalls \cup Schedulers
                                /\ NoWorker \notin Workers

VARIABLES calls,    \* call -> where it goes, what it asks for, how far it is
          status,   \* IOProxyWorker::status, read by OpServerImpl::entry
          state,    \* the worker's state in its state machine
          cur,      \* IOProxyWorker::cur_call, the call it carries
          armed,    \* workers whose RequestSubmit has not been matched
          cq,       \* workers whose tag is on the completion queue
          evq,      \* scheduler -> its queue of events for its workers
          thr       \* scheduler thread -> the constructor it is running

vars == <<calls, status, state, cur, armed, cq, evq, thr>>

-----------------------------------------------------------------------------
\* A scheduler thread has one call to a peer at a time: it is the call's name.
Calls == ClientCalls \cup Schedulers

\* "read": a client's read of a range with holes.  "plain": an operation that
\* needs no peer, which includes the rep_sync_data that a read sends.
Kinds == {"plain", "read"}
Call == [st : {"unused", "sent", "taken", "answered"}, at : Proxies, kind : Kinds]
Status == {"unset", "WAITING", "PROCESSING", "FINISHED"}
States == {"none", "Waiting", "Processing", "Finished"}
Events == {"initiate", "OpQueued", "OpComplete", "OpFinished"}

\* at: "loop" - taking events; "arm" - before RequestSubmit; "do_op";
\* "peer" - inside Submit to the peer; "finish" - before responder.Finish.
Looping == [at |-> "loop", w |-> NoWorker]
Thread == {Looping} \cup [at : {"arm", "do_op", "peer", "finish"}, w : Workers]

WorkerProxy(w) == ProxyOf[SchedulerOf[w]]

WorkersOf(s) == {w \in Workers : SchedulerOf[w] = s}

QueueEvent(q, w, e) ==
  [q EXCEPT ![SchedulerOf[w]] = Append(@, [w |-> w, ev |-> e])]

-----------------------------------------------------------------------------
\* initiate_processor has queued the first event of every worker.
Init ==
  /\ calls = [c \in Calls |-> [st |-> "unused", at |-> CHOOSE p \in Proxies : TRUE,
                               kind |-> "plain"]]
  /\ status = [w \in Workers |-> "unset"]
  /\ state = [w \in Workers |-> "none"]
  /\ cur = [w \in Workers |-> NoCall]
  /\ armed = {}
  /\ cq = {}
  /\ evq = [s \in Schedulers |->
              SetToSeq({[w |-> w, ev |-> "initiate"] : w \in WorkersOf(s)})]
  /\ thr = [s \in Schedulers |-> Looping]

Send(c, p, k) ==
  /\ calls[c].st = "unused"
  /\ calls' = [calls EXCEPT ![c] = [st |-> "sent", at |-> p, kind |-> k]]

\* A client submits an operation.
ClientCall ==
  /\ \E c \in ClientCalls, p \in Proxies, k \in Kinds :
       (k = "read" => p \in ReadProxies) /\ Send(c, p, k)
  /\ UNCHANGED <<status, state, cur, armed, cq, evq, thr>>

\* gRPC fills the request of a registered worker with an arrived call.
Match(w) ==
  /\ w \in armed
  /\ \E c \in Calls :
       /\ calls[c].st = "sent" /\ calls[c].at = WorkerProxy(w)
       /\ calls' = [calls EXCEPT ![c].st = "taken"]
       /\ cur' = [cur EXCEPT ![w] = c]
  /\ armed' = armed \ {w}
  /\ cq' = cq \cup {w}
  /\ UNCHANGED <<status, state, evq, thr>>

\* OpServerImpl::entry: the event that is posted depends on the status word.
Dispatch(w) ==
  /\ w \in cq
  /\ cq' = cq \ {w}
  /\ evq' = CASE status[w] = "WAITING"  -> QueueEvent(evq, w, "OpQueued")
              [] status[w] = "FINISHED" -> QueueEvent(evq, w, "OpFinished")
              [] OTHER                  -> evq
  /\ UNCHANGED <<calls, status, state, cur, armed, thr>>

-----------------------------------------------------------------------------
(***************************************************************************)
(* A scheduler thread.  React takes the next event and enters the          *)
(* constructor of the state it leads to, up to and including the store to  *)
(* status; an event without a reaction in the current state is dropped.    *)
(***************************************************************************)
Target(q, e) == CASE e = "initiate"                         -> "Waiting"
                  [] q = "Waiting"    /\ e = "OpQueued"   -> "Processing"
                  [] q = "Processing" /\ e = "OpComplete" -> "Finished"
                  [] q = "Finished"   /\ e = "OpFinished" -> "Waiting"
                  [] OTHER                                -> "none"

\* Mutant: the store of WAITING is forgotten.
EntryStatusStale(q) == IF q = "Processing" THEN "PROCESSING" ELSE "FINISHED"

EntryStatus(q) == CASE q = "Waiting"    -> "WAITING"
                    [] q = "Processing" -> "PROCESSING"
                    [] q = "Finished"   -> "FINISHED"

FirstStep(q) == CASE q = "Waiting" -> "arm" [] q = "Processing" -> "do_op"
                  [] q = "Finished" -> "finish"

\* Waiting replaces the worker's CallData by a new one.
ResetCall(w, q) == IF q = "Waiting" THEN [cur EXCEPT ![w] = NoCall] ELSE cur

\* The event at the head of a queue is dropped in the worker's current state.
Unexpected(s) == Target(state[Head(evq[s]).w], Head(evq[s]).ev) = "none"

React(s) ==
  /\ thr[s].at = "loop" /\ evq[s] # <<>>
  /\ LET w == Head(evq[s]).w
         q == Target(state[w], Head(evq[s]).ev)
     IN IF Unexpected(s)
        THEN UNCHANGED <<status, state, cur, thr>>
        ELSE /\ state' = [state EXCEPT ![w] = q]
             /\ status' = [status EXCEPT ![w] = EntryStatus(q)]
             /\ cur' = ResetCall(w, q)
             /\ thr' = [thr EXCEPT ![s] = [at |-> FirstStep(q), w |-> w]]
  /\ evq' = [evq EXCEPT ![s] = Tail(@)]
  /\ UNCHANGED <<calls, armed, cq>>

\* Waiting: RequestSubmit registers the worker for the next call.
Arm(s) ==
  /\ thr[s].at = "arm"
  /\ armed' = armed \cup {thr[s].w}
  /\ thr' = [thr EXCEPT ![s] = Looping]
  /\ UNCHANGED <<calls, status, state, cur, cq, evq>>

\* Mutant: a case of do_op calls the callback and so does its end.
DoOpTwice(s) ==
  /\ thr[s].at = "do_op" /\ calls[cur[thr[s].w]].kind = "plain"
  /\ evq' = QueueEvent(QueueEvent(evq, thr[s].w, "OpComplete"), thr[s].w, "OpComplete")
  /\ thr' = [thr EXCEPT ![s] = Looping]
  /\ UNCHANGED <<calls, status, state, cur, armed, cq>>

\* do_op without the peer, then the callback that queues OpComplete.
DoOp(s) ==
  /\ thr[s].at = "do_op" /\ calls[cur[thr[s].w]].kind = "plain"
  /\ evq' = QueueEvent(evq, thr[s].w, "OpComplete")
  /\ thr' = [thr EXCEPT ![s] = Looping]
  /\ UNCHANGED <<calls, status, state, cur, armed, cq>>

\* do_op, case read, with holes in the range: Submit to a peer blocks.
AskPeer(s) ==
  /\ thr[s].at = "do_op" /\ calls[cur[thr[s].w]].kind = "read"
  /\ \E p \in Proxies \ {ProxyOf[s]} : Send(s, p, "plain")
  /\ thr' = [thr EXCEPT ![s].at = "peer"]
  /\ UNCHANGED <<status, state, cur, armed, cq, evq>>

\* The peer's answer arrives; do_op ends and queues OpComplete.
PeerAnswered(s) ==
  /\ thr[s].at = "peer" /\ calls[s].st = "answered"
  /\ calls' = [calls EXCEPT ![s].st = "unused"]
  /\ evq' = QueueEvent(evq, thr[s].w, "OpComplete")
  /\ thr' = [thr EXCEPT ![s] = Looping]
  /\ UNCHANGED <<status, state, cur, armed, cq>>

\* Finished: the reply goes out and the tag comes back.
FinishCall(s) ==
  /\ thr[s].at = "finish"
  /\ calls' = [calls EXCEPT ![cur[thr[s].w]].st = "answered"]
  /\ cq' = cq \cup {thr[s].w}
  /\ thr' = [thr EXCEPT ![s] = Looping]
  /\ UNCHANGED <<status, state, cur, armed, evq>>

SchedulerStep(s) ==
  React(s) \/ Arm(s) \/ DoOp(s) \/ AskPeer(s) \/ PeerAnswered(s) \/ FinishCall(s)

Next ==
  \/ ClientCall
  \/ \E w \in Workers : Match(w) \/ Dispatch(w)
  \/ \E s \in Schedulers : SchedulerStep(s)

Spec == Init /\ [][Next]_vars

(***************************************************************************)
(* Every thread keeps running, gRPC delivers what has arrived and the      *)
(* completion queue is a queue.  Clients need not call.                    *)
(***************************************************************************)
Fairness ==
  /\ \A w \in Workers : WF_vars(Match(w)) /\ WF_vars(Dispatch(w))
  /\ \A s \in Schedulers : WF_vars(SchedulerStep(s))

FairSpec == Spec /\ Fairness

-----------------------------------------------------------------------------
TypeOK ==
  /\ calls \in [Calls -> Call]
  /\ status \in [Workers -> Status]
  /\ state \in [Workers -> States]
  /\ cur \in [Workers -> Calls \cup {NoCall}]
  /\ armed \subseteq Workers
  /\ cq \subseteq Workers
  /\ evq \in [Schedulers -> Seq([w : Workers, ev : Events])]
  /\ thr \in [Schedulers -> Thread]

QueuedFor(w) == {i \in DOMAIN evq[SchedulerOf[w]] : evq[SchedulerOf[w]][i].w = w}

(***************************************************************************)
(* A worker is driven by exactly one thing at a time: its registration     *)
(* with gRPC, its tag on the completion queue, one event in its            *)
(* scheduler's queue, or the thread running its constructor.  With none it *)
(* would never work again; with two it would answer a call twice or touch  *)
(* a CallData that has been replaced.                                      *)
(***************************************************************************)
OneDriver ==
  \A w \in Workers :
    Cardinality({w} \cap armed) + Cardinality({w} \cap cq) + Cardinality(QueuedFor(w))
      + Cardinality({s \in Schedulers : thr[s].w = w}) = 1

(***************************************************************************)
(* The event that entry posts by looking at the status word, from another  *)
(* thread, is always one the worker's state reacts to: no event is         *)
(* dropped, so no call is forgotten.                                       *)
(***************************************************************************)
NoEventDropped == \A s \in Schedulers : thr[s].at = "loop" /\ evq[s] # <<>> => ~Unexpected(s)

\* The worker has call c and has not sent its reply.
Carries(w, c) ==
  /\ cur[w] = c
  /\ state[w] \in {"Waiting", "Processing"} \/ thr[SchedulerOf[w]] = [at |-> "finish", w |-> w]

(***************************************************************************)
(* A call that gRPC has handed over is carried by one worker, of the proxy *)
(* it was sent to, until it is answered; an answered call by none.         *)
(***************************************************************************)
CarriedOnce ==
  \A c \in Calls : {w \in Workers : Carries(w, c)} \in
     IF calls[c].st = "taken" THEN {{w} : w \in {v \in Workers : WorkerProxy(v) = calls[c].at}}
                              ELSE {{}}

(***************************************************************************)
(* The hand-over of calls between gRPC, entry and the scheduler threads is *)
(* sound: no worker is left without a driver or has two, no event is       *)
(* dropped, and a call is carried by one worker until it is answered.      *)
(***************************************************************************)
CallsSound == OneDriver /\ NoEventDropped /\ CarriedOnce

(***************************************************************************)
(* Processing calls "**async** op processing function" do_op: whatever the *)
(* operations of the other clients are waiting for, every call that        *)
(* arrives is answered.                                                    *)
(***************************************************************************)
EveryCallAnswered ==
  \A c \in ClientCalls : calls[c].st = "sent" ~> calls[c].st = "answered"

=============================================================================
