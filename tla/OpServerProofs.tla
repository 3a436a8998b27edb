--------------------------- MODULE OpServerProofs ---------------------------
(***************************************************************************)
(* Proofs about the gRPC service of the I/O proxies: for any proxies,      *)
(* scheduler threads, workers and calls, the hand-over of a call between   *)
(* gRPC, OpServerImpl::entry and the scheduler threads loses and doubles   *)
(* nothing.                                                                *)
(***************************************************************************)
EXTENDS OpServer, FiniteSetTheorems, SequenceTheorems, TLAPS

USE ProxiesAssumption, ProxyOfAssumption, SchedulerOfAssumption, ReadProxiesAssumption,
    CallsAssumption, NoneAssumption

-----------------------------------------------------------------------------
(* The inductive invariant, by parts. *)

Event == [w : Workers, ev : Events]
Ev(w, e) == [w |-> w, ev |-> e]

\* The constructors a scheduler thread can be in, and a thread inside one.
Ats == {"arm", "do_op", "peer", "finish"}
In(at, w) == [at |-> at, w |-> w]

\* The events of a queue.
Posted(q) == {q[i] : i \in DOMAIN q}

\* A queue holds at most one event for each worker.
OnceEach(q) == \A i, j \in DOMAIN q : q[i].w = q[j].w => i = j

\* A scheduler has events for its own workers and runs its own workers.
OwnEvents ==
  \A s \in Schedulers : /\ OnceEach(evq[s])
                        /\ \A i \in DOMAIN evq[s] : SchedulerOf[evq[s][i].w] = s
OwnThreads == \A s \in Schedulers : thr[s] # Looping => SchedulerOf[thr[s].w] = s

\* What drives worker w: its registration, its tag, an event, or its thread.
HasEvent(w) == \E e \in Events : Ev(w, e) \in Posted(evq[SchedulerOf[w]])
Running(w) == \E at \in Ats : thr[SchedulerOf[w]] = In(at, w)
Drives(w, d) ==
  /\ w \in armed <=> d = "armed"
  /\ w \in cq <=> d = "cq"
  /\ HasEvent(w) <=> d = "event"
  /\ Running(w) <=> d = "thread"
Drivers == {"armed", "cq", "event", "thread"}
Driven(w) == \E d \in Drivers : Drives(w, d)

\* The call of worker w has been handed to its proxy and is not answered.
HasCall(w) ==
  /\ cur[w] \in Calls
  /\ calls[cur[w]].st = "taken" /\ calls[cur[w]].at = WorkerProxy(w)

IsWaiting(w) == state[w] = "Waiting" /\ status[w] = "WAITING"
IsFinished(w) == state[w] = "Finished" /\ status[w] = "FINISHED"

\* The state a worker is in when each of the four drives it.
ArmedOK(w) == IsWaiting(w) /\ cur[w] = NoCall
TaggedOK(w) == (IsWaiting(w) /\ HasCall(w)) \/ IsFinished(w)
EventOK(w, e) ==
  /\ e = "initiate" => state[w] = "none" /\ cur[w] = NoCall
  /\ e = "OpQueued" => state[w] = "Waiting" /\ HasCall(w)
  /\ e = "OpComplete" => state[w] = "Processing" /\ HasCall(w)
  /\ e = "OpFinished" => state[w] = "Finished"
RunningOK(w, at) ==
  /\ at = "arm" => IsWaiting(w) /\ cur[w] = NoCall
  /\ at \in {"do_op", "peer"} => state[w] = "Processing" /\ HasCall(w)
  /\ at = "finish" => IsFinished(w) /\ HasCall(w)

InStep(w) ==
  /\ w \in armed => ArmedOK(w)
  /\ w \in cq => TaggedOK(w)
  /\ \A e \in Events : Ev(w, e) \in Posted(evq[SchedulerOf[w]]) => EventOK(w, e)
  /\ \A at \in Ats : thr[SchedulerOf[w]] = In(at, w) => RunningOK(w, at)

AllDriven == \A w \in Workers : Driven(w)
AllInStep == \A w \in Workers : InStep(w)

\* A call in the proxies' hands is in the hands of one worker.
TakenHeld == \A c \in Calls : calls[c].st = "taken" => \E w \in Workers : Carries(w, c)
OneCarrier == \A v, w \in Workers : \A c \in Calls : Carries(v, c) /\ Carries(w, c) => v = w

Own == OwnEvents /\ OwnThreads
IInv == TypeOK /\ Own /\ AllDriven /\ AllInStep /\ TakenHeld /\ OneCarrier

-----------------------------------------------------------------------------

(* Queues. *)

LEMMA EvFields ==
  ASSUME NEW w \in Workers, NEW e \in Events
  PROVE  Ev(w, e) \in Event /\ Ev(w, e).w = w /\ Ev(w, e).ev = e
BY DEF Ev, Event

LEMMA EventForm ==
  ASSUME NEW x \in Event PROVE x.w \in Workers /\ x.ev \in Events /\ x = Ev(x.w, x.ev)
BY DEF Ev, Event

LEMMA AppendShape ==
  ASSUME NEW q \in Seq(Event), NEW x \in Event
  PROVE  /\ Append(q, x) \in Seq(Event) /\ Len(Append(q, x)) = Len(q) + 1
         /\ \A i \in 1 .. Len(q) : Append(q, x)[i] = q[i]
         /\ Append(q, x)[Len(q) + 1] = x
BY AppendProperties

LEMMA AppendPosted ==
  ASSUME NEW q \in Seq(Event), NEW x \in Event
  PROVE  Posted(Append(q, x)) = Posted(q) \cup {x}
<1> DEFINE r == Append(q, x)
<1>1. /\ r \in Seq(Event) /\ Len(r) = Len(q) + 1
      /\ \A i \in 1 .. Len(q) : r[i] = q[i]
      /\ r[Len(q) + 1] = x
  BY AppendShape
<1> HIDE DEF r
<1>2. ASSUME NEW i \in DOMAIN r PROVE r[i] \in Posted(q) \cup {x}
  <2>1. i \in 1 .. Len(q) \/ i = Len(q) + 1
    BY <1>1
  <2> QED BY <1>1, <2>1 DEF Posted
<1>3. ASSUME NEW i \in DOMAIN q PROVE q[i] \in Posted(r)
  <2>1. i \in DOMAIN r /\ r[i] = q[i]
    BY <1>1
  <2> QED BY <2>1 DEF Posted
<1>4. x \in Posted(r)
  <2>1. Len(q) + 1 \in DOMAIN r
    BY <1>1
  <2> QED BY <1>1, <2>1 DEF Posted
<1>5. Posted(r) \subseteq Posted(q) \cup {x}
  BY <1>2 DEF Posted
<1>6. Posted(q) \subseteq Posted(r)
  BY <1>3 DEF Posted
<1>7. Posted(r) = Posted(q) \cup {x}
  BY <1>4, <1>5, <1>6
<1> QED BY <1>7 DEF r

LEMMA AppendOnce ==
  ASSUME NEW q \in Seq(Event), NEW x \in Event, OnceEach(q),
         \A i \in DOMAIN q : q[i].w # x.w
  PROVE  OnceEach(Append(q, x))
<1> DEFINE r == Append(q, x)
<1>1. /\ r \in Seq(Event) /\ Len(r) = Len(q) + 1
      /\ \A i \in 1 .. Len(q) : r[i] = q[i]
      /\ r[Len(q) + 1] = x
  BY AppendShape
<1> HIDE DEF r
<1>2. OnceEach(r)
  <2>1. SUFFICES ASSUME NEW i \in DOMAIN r, NEW j \in DOMAIN r, r[i].w = r[j].w
                 PROVE  i = j
    BY DEF OnceEach
  <2>2. i \in 1 .. Len(q) \/ i = Len(q) + 1
    BY <1>1
  <2>3. j \in 1 .. Len(q) \/ j = Len(q) + 1
    BY <1>1
  <2>4. DOMAIN q = 1 .. Len(q)
    OBVIOUS
  <2>5. CASE i \in 1 .. Len(q) /\ j \in 1 .. Len(q)
    BY <1>1, <2>1, <2>4, <2>5 DEF OnceEach
  <2> QED BY <1>1, <2>1, <2>2, <2>3, <2>4, <2>5
<1> QED BY <1>2 DEF r

LEMMA TailShape ==
  ASSUME NEW q \in Seq(Event), q # <<>>
  PROVE  /\ Tail(q) \in Seq(Event) /\ Len(Tail(q)) = Len(q) - 1
         /\ \A i \in 1 .. Len(q) - 1 : Tail(q)[i] = q[i + 1]
         /\ Head(q) = q[1] /\ 1 \in DOMAIN q /\ Head(q) \in Event
BY HeadTailProperties

\* Taking the head removes its worker's only event and no other.
LEMMA TailOnce ==
  ASSUME NEW q \in Seq(Event), q # <<>>, OnceEach(q)
  PROVE  /\ OnceEach(Tail(q))
         /\ \A i \in DOMAIN Tail(q) : i + 1 \in DOMAIN q /\ Tail(q)[i] = q[i + 1]
                                      /\ q[i + 1].w # Head(q).w
<1> DEFINE r == Tail(q)
<1>1. /\ r \in Seq(Event) /\ Len(r) = Len(q) - 1
      /\ \A i \in 1 .. Len(q) - 1 : r[i] = q[i + 1]
      /\ Head(q) = q[1] /\ 1 \in DOMAIN q
  BY TailShape
<1> HIDE DEF r
<1>2. ASSUME NEW i \in DOMAIN r
      PROVE  i + 1 \in DOMAIN q /\ r[i] = q[i + 1] /\ q[i + 1].w # q[1].w
  <2>1. i + 1 \in DOMAIN q /\ r[i] = q[i + 1] /\ i + 1 # 1
    BY <1>1
  <2> QED BY <1>1, <2>1 DEF OnceEach
<1>3. OnceEach(r)
  <2>1. SUFFICES ASSUME NEW i \in DOMAIN r, NEW j \in DOMAIN r, r[i].w = r[j].w
                 PROVE  i = j
    BY DEF OnceEach
  <2>2. i + 1 = j + 1
    BY <1>2, <2>1 DEF OnceEach
  <2>3. i \in Int /\ j \in Int
    BY <1>1
  <2> QED BY <2>2, <2>3
<1> QED BY <1>1, <1>2, <1>3 DEF r

LEMMA TailPosted ==
  ASSUME NEW q \in Seq(Event), q # <<>>, OnceEach(q), NEW w \in Workers, NEW e \in Events
  PROVE  Ev(w, e) \in Posted(Tail(q)) <=> Ev(w, e) \in Posted(q) /\ w # Head(q).w
<1> DEFINE r == Tail(q)
<1>1. /\ r \in Seq(Event) /\ Len(r) = Len(q) - 1
      /\ \A i \in 1 .. Len(q) - 1 : r[i] = q[i + 1]
      /\ Head(q) = q[1] /\ 1 \in DOMAIN q
  BY TailShape
<1>2. \A i \in DOMAIN r : i + 1 \in DOMAIN q /\ r[i] = q[i + 1] /\ q[i + 1].w # Head(q).w
  BY TailOnce
<1> HIDE DEF r
<1>3. ASSUME Ev(w, e) \in Posted(r) PROVE Ev(w, e) \in Posted(q) /\ w # Head(q).w
  <2>1. PICK i \in DOMAIN r : Ev(w, e) = r[i]
    BY <1>3 DEF Posted
  <2> QED BY <1>2, <2>1, EvFields DEF Posted
<1>4. ASSUME Ev(w, e) \in Posted(q), w # Head(q).w PROVE Ev(w, e) \in Posted(r)
  <2>1. PICK i \in DOMAIN q : Ev(w, e) = q[i]
    BY <1>4 DEF Posted
  <2>2. i # 1
    BY <1>1, <1>4, <2>1, EvFields
  <2>3. i - 1 \in DOMAIN r /\ r[i - 1] = q[(i - 1) + 1] /\ (i - 1) + 1 = i
    BY <1>1, <2>2
  <2> QED BY <2>1, <2>3 DEF Posted
<1> QED BY <1>3, <1>4 DEF r

\* An event for a worker that has none is added to its scheduler's queue.
LEMMA AddEvent ==
  ASSUME TypeOK, OwnEvents, NEW w \in Workers, NEW e \in Events, ~HasEvent(w),
         evq' = QueueEvent(evq, w, e)
  PROVE  /\ evq' \in [Schedulers -> Seq(Event)] /\ OwnEvents'
         /\ \A v \in Workers, x \in Events :
              Ev(v, x) \in Posted(evq'[SchedulerOf[v]]) <=>
                Ev(v, x) \in Posted(evq[SchedulerOf[v]]) \/ (v = w /\ x = e)
<1> DEFINE s == SchedulerOf[w]
           q == evq[s]
<1>1. s \in Schedulers /\ evq \in [Schedulers -> Seq(Event)] /\ q \in Seq(Event)
  BY DEF TypeOK, Event
<1>2. evq' = [evq EXCEPT ![s] = Append(q, Ev(w, e))]
  BY DEF QueueEvent, Ev
<1> HIDE DEF s, q
<1>3. Ev(w, e) \in Event /\ Ev(w, e).w = w
  BY EvFields
<1>4. Append(q, Ev(w, e)) \in Seq(Event) /\ Posted(Append(q, Ev(w, e))) = Posted(q) \cup {Ev(w, e)}
  BY <1>1, <1>3, AppendShape, AppendPosted
<1>5. evq' \in [Schedulers -> Seq(Event)]
  BY <1>1, <1>2, <1>4
<1>6. \A i \in DOMAIN q : q[i].w # w
  <2>1. SUFFICES ASSUME NEW i \in DOMAIN q, q[i].w = w PROVE FALSE
    OBVIOUS
  <2>2. q[i] \in Event /\ q[i] \in Posted(q)
    BY <1>1 DEF Posted
  <2>3. q[i].ev \in Events /\ q[i] = Ev(w, q[i].ev)
    BY <2>1, <2>2, EventForm
  <2> QED BY <2>2, <2>3 DEF HasEvent, s, q
<1>7. OnceEach(q) /\ \A i \in DOMAIN q : SchedulerOf[q[i].w] = s
  BY <1>1 DEF OwnEvents, q
<1>8. OnceEach(Append(q, Ev(w, e)))
  BY <1>1, <1>3, <1>6, <1>7, AppendOnce
<1>9. ASSUME NEW i \in DOMAIN Append(q, Ev(w, e)) PROVE SchedulerOf[Append(q, Ev(w, e))[i].w] = s
  <2>1. Append(q, Ev(w, e))[i] \in Posted(q) \cup {Ev(w, e)}
    BY <1>4 DEF Posted
  <2>2. CASE Append(q, Ev(w, e))[i] = Ev(w, e)
    BY <1>3, <2>2 DEF s
  <2>3. CASE Append(q, Ev(w, e))[i] \in Posted(q)
    BY <1>7, <2>3 DEF Posted
  <2> QED BY <2>1, <2>2, <2>3
<1>10. OwnEvents'
  <2>1. SUFFICES ASSUME NEW r \in Schedulers
                 PROVE  OnceEach(evq'[r]) /\ \A i \in DOMAIN evq'[r] : SchedulerOf[evq'[r][i].w] = r
    BY DEF OwnEvents, OnceEach
  <2>2. CASE r = s
    BY <1>1, <1>2, <1>8, <1>9, <2>2
  <2>3. CASE r # s
    BY <1>1, <1>2, <2>3 DEF OwnEvents
  <2> QED BY <2>2, <2>3
<1>11. ASSUME NEW v \in Workers, NEW x \in Events
       PROVE  Ev(v, x) \in Posted(evq'[SchedulerOf[v]]) <=>
                Ev(v, x) \in Posted(evq[SchedulerOf[v]]) \/ (v = w /\ x = e)
  <2>1. Ev(v, x) = Ev(w, e) <=> v = w /\ x = e
    BY DEF Ev
  <2>2. CASE SchedulerOf[v] = s
    <3>1. evq'[SchedulerOf[v]] = Append(q, Ev(w, e)) /\ evq[SchedulerOf[v]] = q
      BY <1>1, <1>2, <2>2 DEF q
    <3> QED BY <1>4, <2>1, <3>1
  <2>3. CASE SchedulerOf[v] # s
    <3>1. evq'[SchedulerOf[v]] = evq[SchedulerOf[v]] /\ v # w
      BY <1>1, <1>2, <2>3 DEF s
    <3> QED BY <3>1
  <2> QED BY <2>2, <2>3
<1> QED BY <1>5, <1>10, <1>11

\* A scheduler takes the event at the head of its queue.
LEMMA TakeEvent ==
  ASSUME TypeOK, OwnEvents, NEW s \in Schedulers, evq[s] # <<>>,
         evq' = [evq EXCEPT ![s] = Tail(@)]
  PROVE  /\ evq' \in [Schedulers -> Seq(Event)] /\ OwnEvents'
         /\ Head(evq[s]).w \in Workers /\ Head(evq[s]).ev \in Events
         /\ SchedulerOf[Head(evq[s]).w] = s
         /\ Ev(Head(evq[s]).w, Head(evq[s]).ev) \in Posted(evq[s])
         /\ \A v \in Workers, x \in Events :
              Ev(v, x) \in Posted(evq'[SchedulerOf[v]]) <=>
                Ev(v, x) \in Posted(evq[SchedulerOf[v]]) /\ v # Head(evq[s]).w
<1> DEFINE q == evq[s]
           h == Head(evq[s])
<1>1. evq \in [Schedulers -> Seq(Event)] /\ q \in Seq(Event) /\ q # <<>>
  BY DEF TypeOK, Event
<1>2. OnceEach(q) /\ \A i \in DOMAIN q : SchedulerOf[q[i].w] = s
  BY DEF OwnEvents
<1>3. evq' = [evq EXCEPT ![s] = Tail(q)] /\ h = Head(q)
  BY <1>1
<1> HIDE DEF q
<1>4. Tail(q) \in Seq(Event) /\ h = q[1] /\ 1 \in DOMAIN q /\ h \in Event
  BY <1>1, <1>3, TailShape
<1>5. /\ OnceEach(Tail(q))
      /\ \A i \in DOMAIN Tail(q) : i + 1 \in DOMAIN q /\ Tail(q)[i] = q[i + 1]
  BY <1>1, <1>2, TailOnce
<1>6. evq' \in [Schedulers -> Seq(Event)]
  BY <1>1, <1>3, <1>4
<1>7. OwnEvents'
  <2>1. SUFFICES ASSUME NEW r \in Schedulers
                 PROVE  OnceEach(evq'[r]) /\ \A i \in DOMAIN evq'[r] : SchedulerOf[evq'[r][i].w] = r
    BY DEF OwnEvents, OnceEach
  <2>2. CASE r = s
    <3>1. evq'[r] = Tail(q)
      BY <1>1, <1>3, <2>2
    <3>2. \A i \in DOMAIN Tail(q) : SchedulerOf[Tail(q)[i].w] = s
      BY <1>2, <1>5
    <3> QED BY <1>5, <2>2, <3>1, <3>2
  <2>3. CASE r # s
    BY <1>1, <1>3, <2>3 DEF OwnEvents
  <2> QED BY <2>2, <2>3
<1>8. h.w \in Workers /\ h.ev \in Events /\ h = Ev(h.w, h.ev) /\ SchedulerOf[h.w] = s
  BY <1>2, <1>4, EventForm
<1>9. Ev(h.w, h.ev) \in Posted(q)
  BY <1>4, <1>8 DEF Posted
<1>10. ASSUME NEW v \in Workers, NEW x \in Events
       PROVE  Ev(v, x) \in Posted(evq'[SchedulerOf[v]]) <=>
                Ev(v, x) \in Posted(evq[SchedulerOf[v]]) /\ v # h.w
  <2>1. CASE SchedulerOf[v] = s
    <3>1. evq'[SchedulerOf[v]] = Tail(q) /\ evq[SchedulerOf[v]] = q
      BY <1>1, <1>3, <2>1 DEF q
    <3>2. Ev(v, x) \in Posted(Tail(q)) <=> Ev(v, x) \in Posted(q) /\ v # h.w
      BY <1>1, <1>2, <1>3, TailPosted
    <3> QED BY <3>1, <3>2
  <2>2. CASE SchedulerOf[v] # s
    <3>1. evq'[SchedulerOf[v]] = evq[SchedulerOf[v]] /\ v # h.w
      BY <1>1, <1>3, <1>8, <2>2
    <3> QED BY <3>1
  <2> QED BY <2>1, <2>2
<1> QED BY <1>6, <1>7, <1>8, <1>9, <1>10 DEF q

-----------------------------------------------------------------------------
(* Steps that leave a worker alone. *)

Same(v) ==
  /\ state'[v] = state[v] /\ status'[v] = status[v] /\ cur'[v] = cur[v]
  /\ HasCall(v) /\ Carries(v, cur[v]) => HasCall(v)'
  /\ v \in armed' <=> v \in armed
  /\ v \in cq' <=> v \in cq
  /\ \A x \in Events : Ev(v, x) \in Posted(evq'[SchedulerOf[v]]) <=>
                       Ev(v, x) \in Posted(evq[SchedulerOf[v]])
  /\ \A at \in Ats : thr'[SchedulerOf[v]] = In(at, v) <=> thr[SchedulerOf[v]] = In(at, v)

LEMMA SameDriven == ASSUME NEW v \in Workers, Same(v), Driven(v) PROVE Driven(v)'
<1>1. PICK d \in Drivers : Drives(v, d)
  BY DEF Driven
<1>2. HasEvent(v)' <=> HasEvent(v)
  BY DEF HasEvent, Same
<1>3. Running(v)' <=> Running(v)
  BY DEF Running, Same
<1>4. Drives(v, d)'
  BY <1>1, <1>2, <1>3 DEF Drives, Same
<1> QED BY <1>4 DEF Driven

LEMMA SameInStep == ASSUME NEW v \in Workers, Same(v), InStep(v) PROVE InStep(v)'
<1>0. ASSUME HasCall(v),
             state[v] \in {"Waiting", "Processing"} \/ thr[SchedulerOf[v]] = In("finish", v)
      PROVE  HasCall(v)'
  BY <1>0 DEF Same, Carries, In
<1>1. ArmedOK(v) => ArmedOK(v)'
  BY DEF Same, ArmedOK, IsWaiting
<1>2. TaggedOK(v) => TaggedOK(v)'
  BY <1>0 DEF Same, TaggedOK, IsWaiting, IsFinished
<1>3. \A e \in Events : EventOK(v, e) => EventOK(v, e)'
  BY <1>0 DEF Same, EventOK
<1>4. \A at \in Ats : thr[SchedulerOf[v]] = In(at, v) /\ RunningOK(v, at) => RunningOK(v, at)'
  BY <1>0 DEF Same, RunningOK, IsWaiting, IsFinished
<1> QED BY <1>1, <1>2, <1>3, <1>4 DEF InStep, Same

LEMMA SameCarries ==
  ASSUME NEW v \in Workers, Same(v), NEW c PROVE Carries(v, c)' <=> Carries(v, c)
BY DEF Carries, Same, Ats, In

\* One worker acts and the others are left alone.
LEMMA OneActs ==
  ASSUME IInv, TypeOK', Own', NEW w \in Workers,
         \A v \in Workers : v # w => Same(v),
         Driven(w)', InStep(w)', TakenHeld', OneCarrier'
  PROVE  IInv'
<1>1. ASSUME NEW v \in Workers PROVE Driven(v)' /\ InStep(v)'
  <2>1. CASE v = w
    BY <2>1
  <2>2. CASE v # w
    BY <2>2, SameDriven, SameInStep DEF IInv, AllDriven, AllInStep
  <2> QED BY <2>1, <2>2
<1> QED BY <1>1 DEF IInv, AllDriven, AllInStep

\* Nobody takes up or lays down a call.
LEMMA CarriersStay ==
  ASSUME IInv, \A v \in Workers, c \in Calls : Carries(v, c)' <=> Carries(v, c),
         \A c \in Calls : calls'[c].st = "taken" => calls[c].st = "taken"
  PROVE  TakenHeld' /\ OneCarrier'
BY DEF IInv, TakenHeld, OneCarrier

\* The thread of a worker's scheduler, inside a constructor.
LEMMA InConstructor ==
  ASSUME TypeOK, OwnThreads, NEW s \in Schedulers, thr[s].at # "loop"
  PROVE  /\ thr[s].w \in Workers /\ thr[s].at \in Ats
         /\ SchedulerOf[thr[s].w] = s /\ thr[s] = In(thr[s].at, thr[s].w)
<1>1. thr[s] # Looping /\ thr[s] \in Thread
  BY DEF Looping, TypeOK
<1> QED BY <1>1 DEF Thread, Ats, In, OwnThreads

-----------------------------------------------------------------------------
(* The steps of clients, gRPC and OpServerImpl::entry. *)

LEMMA SendStep ==
  ASSUME TypeOK, NEW c \in Calls, NEW p \in Proxies, NEW k \in Kinds, Send(c, p, k)
  PROVE  /\ calls' \in [Calls -> Call] /\ calls[c].st = "unused"
         /\ calls'[c].st = "sent" /\ \A x \in Calls : x # c => calls'[x] = calls[x]
BY DEF TypeOK, Send, Call

LEMMA StatusStep ==
  ASSUME TypeOK, NEW c \in Calls, NEW st \in {"unused", "sent", "taken", "answered"},
         calls' = [calls EXCEPT ![c].st = st]
  PROVE  /\ calls' \in [Calls -> Call] /\ calls'[c].st = st /\ calls'[c].at = calls[c].at
         /\ \A x \in Calls : x # c => calls'[x] = calls[x]
<1>1. calls[c] \in Call /\ calls \in [Calls -> Call]
  BY DEF TypeOK
<1>2. calls' = [calls EXCEPT ![c] = [calls[c] EXCEPT !.st = st]]
  OBVIOUS
<1>3. /\ [calls[c] EXCEPT !.st = st] \in Call /\ [calls[c] EXCEPT !.st = st].st = st
      /\ [calls[c] EXCEPT !.st = st].at = calls[c].at
  BY <1>1 DEF Call
<1>4. calls'[c] = [calls[c] EXCEPT !.st = st] /\ \A x \in Calls : x # c => calls'[x] = calls[x]
  BY <1>1, <1>2
<1>5. calls' \in [Calls -> Call]
  BY <1>1, <1>2, <1>3
<1> QED BY <1>3, <1>4, <1>5

LEMMA ClientCallStep == ASSUME IInv, ClientCall PROVE IInv'
<1>1. PICK c \in ClientCalls, p \in Proxies, k \in Kinds : Send(c, p, k)
  BY DEF ClientCall
<1>2. /\ calls' \in [Calls -> Call] /\ calls[c].st = "unused" /\ calls'[c].st = "sent"
      /\ \A x \in Calls : x # c => calls'[x] = calls[x]
  BY <1>1, SendStep DEF IInv, Calls
<1>3. UNCHANGED <<status, state, cur, armed, cq, evq, thr>>
  BY DEF ClientCall
<1>4. TypeOK' /\ Own'
  BY <1>2, <1>3 DEF IInv, TypeOK, Own, OwnEvents, OwnThreads, OnceEach
<1>5. ASSUME NEW v \in Workers PROVE Same(v)
  <2>1. HasCall(v) => HasCall(v)'
    BY <1>2, <1>3 DEF HasCall, WorkerProxy
  <2> QED BY <1>3, <2>1 DEF Same
<1>6. TakenHeld' /\ OneCarrier'
  BY <1>2, <1>5, SameCarries, CarriersStay DEF Calls
<1> QED BY <1>4, <1>5, <1>6, SameDriven, SameInStep DEF IInv, AllDriven, AllInStep

LEMMA MatchStep == ASSUME IInv, NEW w \in Workers, Match(w) PROVE IInv'
<1>1. PICK c \in Calls :
        /\ calls[c].st = "sent" /\ calls[c].at = WorkerProxy(w)
        /\ calls' = [calls EXCEPT ![c].st = "taken"]
        /\ cur' = [cur EXCEPT ![w] = c]
  BY DEF Match
<1>2. /\ w \in armed /\ armed' = armed \ {w} /\ cq' = cq \cup {w}
      /\ UNCHANGED <<status, state, evq, thr>>
  BY DEF Match
<1>3. /\ calls' \in [Calls -> Call] /\ calls'[c].st = "taken" /\ calls'[c].at = WorkerProxy(w)
      /\ \A x \in Calls : x # c => calls'[x] = calls[x]
  BY <1>1, StatusStep DEF IInv
<1>4. /\ cur' \in [Workers -> Calls \cup {NoCall}] /\ cur'[w] = c
      /\ \A v \in Workers : v # w => cur'[v] = cur[v]
  BY <1>1 DEF IInv, TypeOK
<1>5. TypeOK' /\ Own'
  BY <1>2, <1>3, <1>4 DEF IInv, TypeOK, Own, OwnEvents, OwnThreads, OnceEach
<1>6. \A v \in Workers : ~Carries(v, c)
  <2>1. SUFFICES ASSUME NEW v \in Workers, Carries(v, c) PROVE FALSE
    OBVIOUS
  <2>2. Driven(v) /\ InStep(v) /\ cur[v] = c /\ c # NoCall
    BY <2>1 DEF IInv, AllDriven, AllInStep, Carries, Calls
  <2>3. ~HasCall(v)
    BY <1>1, <2>2 DEF HasCall
  <2>4. PICK d \in Drivers : Drives(v, d)
    BY <2>2 DEF Driven
  <2>5. ASSUME v \in armed \/ v \in cq PROVE FALSE
    BY <2>1, <2>2, <2>3, <2>4, <2>5
       DEF InStep, ArmedOK, TaggedOK, IsWaiting, IsFinished, Carries, Drives, Running, Ats, In
  <2>6. ASSUME NEW e \in Events, Ev(v, e) \in Posted(evq[SchedulerOf[v]]) PROVE FALSE
    <3>1. EventOK(v, e) /\ HasEvent(v)
      BY <2>2, <2>6 DEF InStep, HasEvent
    <3>2. ~Running(v)
      BY <2>4, <3>1 DEF Drives, Drivers
    <3>3. thr[SchedulerOf[v]] # In("finish", v)
      BY <3>2 DEF Running, Ats
    <3> QED BY <2>1, <2>2, <2>3, <3>1, <3>3 DEF EventOK, Events, Carries, In
  <2>7. ASSUME NEW at \in Ats, thr[SchedulerOf[v]] = In(at, v) PROVE FALSE
    BY <2>2, <2>3, <2>7 DEF InStep, RunningOK, Ats
  <2> QED BY <2>4, <2>5, <2>6, <2>7 DEF Drives, Drivers, HasEvent, Running
<1>7. ASSUME NEW v \in Workers, v # w PROVE Same(v)
  <2>1. HasCall(v) => HasCall(v)'
    BY <1>1, <1>3, <1>4, <1>7 DEF HasCall, WorkerProxy
  <2> QED BY <1>2, <1>4, <1>7, <2>1 DEF Same
<1>8. Driven(w) /\ InStep(w) /\ IsWaiting(w)
  BY <1>2 DEF IInv, AllDriven, AllInStep, InStep, ArmedOK
<1>9. ~HasEvent(w) /\ ~Running(w) /\ w \notin cq
  BY <1>2, <1>8 DEF Driven, Drives, Drivers
<1>10. ~HasEvent(w)' /\ ~Running(w)'
  BY <1>2, <1>9 DEF HasEvent, Running
<1>11. Drives(w, "cq")'
  BY <1>2, <1>10 DEF Drives
<1>12. Driven(w)'
  BY <1>11 DEF Driven, Drivers
<1>13. TaggedOK(w)'
  BY <1>2, <1>3, <1>4, <1>8 DEF TaggedOK, IsWaiting, HasCall, WorkerProxy
<1>14. InStep(w)'
  BY <1>2, <1>10, <1>13 DEF InStep, HasEvent, Running
<1>15. Carries(w, c)' /\ \A x \in Calls : x # c => ~Carries(w, x)'
  BY <1>2, <1>4, <1>8 DEF Carries, IsWaiting
<1>16. \A x \in Calls : ~Carries(w, x)
  BY <1>2, <1>8 DEF InStep, ArmedOK, Carries, Calls
<1>17. \A v \in Workers, x \in Calls : v # w => (Carries(v, x)' <=> Carries(v, x))
  BY <1>7, SameCarries
<1>18. TakenHeld'
  BY <1>3, <1>15, <1>16, <1>17 DEF IInv, TakenHeld
<1>19. OneCarrier'
  BY <1>6, <1>15, <1>17 DEF IInv, OneCarrier
<1> QED BY <1>5, <1>7, <1>12, <1>14, <1>18, <1>19, OneActs

LEMMA DispatchStep == ASSUME IInv, NEW w \in Workers, Dispatch(w) PROVE IInv'
<1>1. /\ w \in cq /\ cq' = cq \ {w} /\ UNCHANGED <<calls, status, state, cur, armed, thr>>
  BY DEF Dispatch
<1>2. Driven(w) /\ InStep(w) /\ TaggedOK(w)
  BY <1>1 DEF IInv, AllDriven, AllInStep, InStep
<1>3. ~HasEvent(w) /\ ~Running(w) /\ w \notin armed
  BY <1>1, <1>2 DEF Driven, Drives, Drivers
<1>4. PICK e \in {"OpQueued", "OpFinished"} :
        /\ evq' = QueueEvent(evq, w, e)
        /\ EventOK(w, e)
  <2>1. CASE IsWaiting(w) /\ HasCall(w)
    BY <2>1 DEF Dispatch, IsWaiting, EventOK
  <2>2. CASE IsFinished(w)
    BY <2>2 DEF Dispatch, IsFinished, EventOK
  <2> QED BY <1>2, <2>1, <2>2 DEF TaggedOK
<1>5. e \in Events
  BY DEF Events
<1>6. /\ evq' \in [Schedulers -> Seq(Event)] /\ OwnEvents'
      /\ \A v \in Workers, x \in Events :
           Ev(v, x) \in Posted(evq'[SchedulerOf[v]]) <=>
             Ev(v, x) \in Posted(evq[SchedulerOf[v]]) \/ (v = w /\ x = e)
  BY <1>3, <1>4, <1>5, AddEvent DEF IInv, Own
<1>7. TypeOK' /\ Own'
  BY <1>1, <1>6 DEF IInv, TypeOK, Own, OwnThreads, Event
<1>8. \A v \in Workers : HasCall(v)' <=> HasCall(v)
  BY <1>1 DEF HasCall, WorkerProxy
<1>9. \A v \in Workers : v # w => Same(v)
  BY <1>1, <1>6, <1>8 DEF Same
<1>10. HasEvent(w)' /\ ~Running(w)'
  BY <1>1, <1>3, <1>5, <1>6 DEF HasEvent, Running
<1>11. Drives(w, "event")'
  BY <1>1, <1>3, <1>10 DEF Drives
<1>12. Driven(w)'
  BY <1>11 DEF Driven, Drivers
<1>13. EventOK(w, e)'
  BY <1>1, <1>4, <1>8 DEF EventOK
<1>14. \A x \in Events : Ev(w, x) \in Posted(evq'[SchedulerOf[w]]) => x = e
  BY <1>3, <1>6 DEF HasEvent
<1>15. InStep(w)'
  BY <1>1, <1>3, <1>10, <1>13, <1>14 DEF InStep, Running
<1>16. \A v \in Workers, c \in Calls : Carries(v, c)' <=> Carries(v, c)
  BY <1>1 DEF Carries
<1>17. TakenHeld' /\ OneCarrier'
  BY <1>1, <1>16, CarriersStay
<1> QED BY <1>7, <1>9, <1>12, <1>15, <1>17, OneActs

-----------------------------------------------------------------------------
(* The steps of a scheduler thread. *)

\* The thread of a scheduler changes: its other workers were not running, and
\* the workers of other schedulers do not notice.
LEMMA ThreadOthers ==
  ASSUME NEW s \in Schedulers, NEW w \in Workers, NEW t,
         thr \in [Schedulers -> Thread],
         thr' = [thr EXCEPT ![s] = t],
         SchedulerOf[w] = s, thr[s] = Looping \/ thr[s].w = w, t = Looping \/ t.w = w,
         NEW v \in Workers, v # w, NEW at \in Ats
  PROVE  thr'[SchedulerOf[v]] = In(at, v) <=> thr[SchedulerOf[v]] = In(at, v)
<1>1. Looping.w # v /\ In(at, v).w = v
  BY DEF Looping, In
<1>2. CASE SchedulerOf[v] = s
  BY <1>1, <1>2
<1>3. CASE SchedulerOf[v] # s
  BY <1>3
<1> QED BY <1>2, <1>3

\* A worker whose event has been posted is not being run, and vice versa.
LEMMA EventDrives ==
  ASSUME IInv, NEW w \in Workers, HasEvent(w)
  PROVE  ~Running(w) /\ w \notin armed /\ w \notin cq
BY DEF IInv, AllDriven, Driven, Drives, Drivers

LEMMA ThreadDrives ==
  ASSUME IInv, NEW w \in Workers, NEW at \in Ats, thr[SchedulerOf[w]] = In(at, w)
  PROVE  ~HasEvent(w) /\ w \notin armed /\ w \notin cq /\ RunningOK(w, at)
<1>1. Running(w) /\ Driven(w) /\ InStep(w)
  BY DEF Running, IInv, AllDriven, AllInStep
<1> QED BY <1>1 DEF Driven, Drives, Drivers, InStep

\* An event that is posted has a reaction.
LEMMA Expected ==
  ASSUME IInv, NEW w \in Workers, NEW e \in Events, Ev(w, e) \in Posted(evq[SchedulerOf[w]])
  PROVE  /\ EventOK(w, e)
         /\ Target(state[w], e) = CASE e = "initiate" -> "Waiting" [] e = "OpQueued" -> "Processing"
                                    [] e = "OpComplete" -> "Finished" [] OTHER -> "Waiting"
<1>1. EventOK(w, e)
  BY DEF IInv, AllInStep, InStep
<1> QED BY <1>1 DEF EventOK, Target, Events

LEMMA ReactStep == ASSUME IInv, NEW s \in Schedulers, React(s) PROVE IInv'
<1>1. PICK w \in Workers, e \in Events :
        /\ w = Head(evq[s]).w /\ e = Head(evq[s]).ev /\ SchedulerOf[w] = s
        /\ Ev(w, e) \in Posted(evq[s])
        /\ evq' \in [Schedulers -> Seq(Event)] /\ OwnEvents'
        /\ \A v \in Workers, x \in Events :
             Ev(v, x) \in Posted(evq'[SchedulerOf[v]]) <=>
               Ev(v, x) \in Posted(evq[SchedulerOf[v]]) /\ v # w
  <2>1. evq[s] # <<>> /\ evq' = [evq EXCEPT ![s] = Tail(@)]
    BY DEF React
  <2> DEFINE w == Head(evq[s]).w
             e == Head(evq[s]).ev
  <2>2. TypeOK /\ OwnEvents
    BY DEF IInv, Own
  <2>3. /\ w \in Workers /\ e \in Events /\ SchedulerOf[w] = s /\ Ev(w, e) \in Posted(evq[s])
        /\ evq' \in [Schedulers -> Seq(Event)] /\ OwnEvents'
        /\ \A v \in Workers, x \in Events :
             Ev(v, x) \in Posted(evq'[SchedulerOf[v]]) <=>
               Ev(v, x) \in Posted(evq[SchedulerOf[v]]) /\ v # w
    BY <2>1, <2>2, TakeEvent
  <2> HIDE DEF w, e
  <2>4. w = Head(evq[s]).w /\ e = Head(evq[s]).ev
    BY DEF w, e
  <2> QED BY <2>3, <2>4
<1>2. PICK q : q = Target(state[w], e)
  OBVIOUS
<1>3. /\ EventOK(w, e) /\ q \in {"Waiting", "Processing", "Finished"}
      /\ q = CASE e = "initiate" -> "Waiting" [] e = "OpQueued" -> "Processing"
               [] e = "OpComplete" -> "Finished" [] OTHER -> "Waiting"
  BY <1>1, <1>2, Expected
<1>4. ~Unexpected(s)
  BY <1>1, <1>2, <1>3 DEF Unexpected
<1>5. /\ thr[s].at = "loop" /\ UNCHANGED <<calls, armed, cq>>
      /\ state' = [state EXCEPT ![w] = q]
      /\ status' = [status EXCEPT ![w] = EntryStatus(q)]
      /\ cur' = ResetCall(w, q)
      /\ thr' = [thr EXCEPT ![s] = In(FirstStep(q), w)]
  BY <1>1, <1>2, <1>4 DEF React, In
<1>6. HasEvent(w) /\ ~Running(w) /\ w \notin armed /\ w \notin cq
  BY <1>1, EventDrives DEF HasEvent
<1>7. thr[s] = Looping /\ thr \in [Schedulers -> Thread]
  BY <1>5 DEF IInv, TypeOK, Thread, Looping
<1>8. FirstStep(q) \in Ats /\ EntryStatus(q) \in Status /\ q \in States
  BY <1>3 DEF FirstStep, EntryStatus, Ats, Status, States
<1>9. /\ In(FirstStep(q), w) \in Thread /\ In(FirstStep(q), w).w = w
      /\ In(FirstStep(q), w).at = FirstStep(q) /\ In(FirstStep(q), w) # Looping
  BY <1>8 DEF In, Thread, Ats, Looping
<1>10. thr' \in [Schedulers -> Thread] /\ thr'[s] = In(FirstStep(q), w)
       /\ \A r \in Schedulers : r # s => thr'[r] = thr[r]
  BY <1>5, <1>7, <1>9
<1>11. /\ cur' \in [Workers -> Calls \cup {NoCall}]
       /\ \A v \in Workers : v # w => cur'[v] = cur[v]
       /\ cur'[w] = IF q = "Waiting" THEN NoCall ELSE cur[w]
  BY <1>5 DEF IInv, TypeOK, ResetCall
<1>12. /\ state' \in [Workers -> States] /\ status' \in [Workers -> Status]
       /\ state'[w] = q /\ status'[w] = EntryStatus(q)
       /\ \A v \in Workers : v # w => state'[v] = state[v] /\ status'[v] = status[v]
  BY <1>5, <1>8 DEF IInv, TypeOK
<1>13. TypeOK'
  BY <1>1, <1>5, <1>10, <1>11, <1>12 DEF IInv, TypeOK, Event
<1>14. Own'
  BY <1>1, <1>9, <1>10 DEF IInv, Own, OwnThreads
<1>15. ASSUME NEW v \in Workers, v # w PROVE Same(v)
  <2>1. HasCall(v) => HasCall(v)'
    BY <1>5, <1>11, <1>15 DEF HasCall, WorkerProxy
  <2>2. \A at \in Ats : thr'[SchedulerOf[v]] = In(at, v) <=> thr[SchedulerOf[v]] = In(at, v)
    BY <1>1, <1>5, <1>7, <1>9, <1>15, ThreadOthers
  <2> QED BY <1>1, <1>5, <1>11, <1>12, <1>15, <2>1, <2>2 DEF Same
<1>16. ~HasEvent(w)' /\ Running(w)'
  BY <1>1, <1>8, <1>10 DEF HasEvent, Running
<1>17. Drives(w, "thread")'
  BY <1>5, <1>6, <1>16 DEF Drives
<1>18. Driven(w)'
  BY <1>17 DEF Driven, Drivers
<1>19. e \in {"OpQueued", "OpComplete"} => HasCall(w)'
  <2>1. e \in {"OpQueued", "OpComplete"} => HasCall(w) /\ cur'[w] = cur[w]
    BY <1>3, <1>11 DEF EventOK
  <2> QED BY <1>5, <2>1 DEF HasCall, WorkerProxy
<1>20. RunningOK(w, FirstStep(q))'
  BY <1>3, <1>11, <1>12, <1>19
     DEF RunningOK, FirstStep, EntryStatus, IsWaiting, IsFinished, Events
<1>21. \A at \in Ats : thr'[s] = In(at, w) => at = FirstStep(q)
  BY <1>10 DEF In
<1>22. InStep(w)'
  BY <1>1, <1>5, <1>6, <1>16, <1>20, <1>21 DEF InStep, HasEvent
<1>23. \A c \in Calls : Carries(w, c)' <=> Carries(w, c)
  <2>1. thr[s] # In("finish", w)
    BY <1>1, <1>6 DEF Running, Ats
  <2>2. FirstStep(q) = "finish" <=> q = "Finished"
    BY <1>3 DEF FirstStep
  <2>3. thr'[s] = In("finish", w) <=> q = "Finished"
    BY <1>10, <2>2 DEF In
  <2>4. NoCall \notin Calls
    BY DEF Calls
  <2> QED BY <1>1, <1>3, <1>11, <1>12, <2>1, <2>3, <2>4 DEF Carries, EventOK, Events, In
<1>24. \A v \in Workers, c \in Calls : Carries(v, c)' <=> Carries(v, c)
  BY <1>15, <1>23, SameCarries
<1>25. TakenHeld' /\ OneCarrier'
  BY <1>5, <1>24, CarriersStay
<1> QED BY <1>13, <1>14, <1>15, <1>18, <1>22, <1>25, OneActs

\* The worker in whose constructor a thread is.
LEMMA Constructor ==
  ASSUME IInv, NEW s \in Schedulers, NEW at \in Ats, thr[s].at = at
  PROVE  \E w \in Workers : /\ thr[s].w = w /\ SchedulerOf[w] = s /\ thr[s] = In(at, w)
                            /\ ~HasEvent(w) /\ w \notin armed /\ w \notin cq /\ RunningOK(w, at)
<1>1. thr[s].at # "loop"
  BY DEF Ats
<1>2. thr[s].w \in Workers /\ SchedulerOf[thr[s].w] = s /\ thr[s] = In(at, thr[s].w)
  BY <1>1, InConstructor DEF IInv, Own
<1> DEFINE w == thr[s].w
<1>3. w \in Workers /\ thr[SchedulerOf[w]] = In(at, w)
  BY <1>2
<1> HIDE DEF w
<1>4. ~HasEvent(w) /\ w \notin armed /\ w \notin cq /\ RunningOK(w, at)
  BY <1>3, ThreadDrives
<1> QED BY <1>2, <1>4 DEF w

\* The thread goes back to its loop: worker w is not run any more.
Released(s, w) ==
  /\ thr' \in [Schedulers -> Thread] /\ OwnThreads' /\ ~Running(w)'
  /\ thr'[s] = Looping
  /\ \A v \in Workers, at \in Ats : v # w =>
       (thr'[SchedulerOf[v]] = In(at, v) <=> thr[SchedulerOf[v]] = In(at, v))

LEMMA BackToLoop ==
  ASSUME IInv, NEW s \in Schedulers, NEW w \in Workers, SchedulerOf[w] = s,
         thr[s].w = w, thr' = [thr EXCEPT ![s] = Looping]
  PROVE  Released(s, w)
<1>1. thr \in [Schedulers -> Thread] /\ Looping \in Thread
  BY DEF IInv, TypeOK, Thread
<1>2. thr' \in [Schedulers -> Thread] /\ thr'[s] = Looping /\ \A r \in Schedulers : r # s => thr'[r] = thr[r]
  BY <1>1
<1>3. OwnThreads'
  BY <1>2 DEF IInv, Own, OwnThreads
<1>4. \A at \in Ats : Looping # In(at, w)
  BY DEF Looping, In, Ats
<1>5. ~Running(w)'
  BY <1>2, <1>4 DEF Running
<1>6. \A v \in Workers, at \in Ats : v # w =>
        (thr'[SchedulerOf[v]] = In(at, v) <=> thr[SchedulerOf[v]] = In(at, v))
  BY <1>1, ThreadOthers
<1> QED BY <1>2, <1>3, <1>5, <1>6 DEF Released

LEMMA ArmStep == ASSUME IInv, NEW s \in Schedulers, Arm(s) PROVE IInv'
<1>1. PICK w \in Workers :
        /\ thr[s].w = w /\ SchedulerOf[w] = s /\ thr[s] = In("arm", w)
        /\ ~HasEvent(w) /\ w \notin armed /\ w \notin cq /\ RunningOK(w, "arm")
  BY Constructor DEF Arm, Ats
<1>2. /\ armed' = armed \cup {w} /\ thr' = [thr EXCEPT ![s] = Looping]
      /\ UNCHANGED <<calls, status, state, cur, cq, evq>>
  BY <1>1 DEF Arm
<1>3. /\ thr' \in [Schedulers -> Thread] /\ OwnThreads' /\ ~Running(w)' /\ thr'[s] = Looping
      /\ \A v \in Workers, at \in Ats : v # w =>
           (thr'[SchedulerOf[v]] = In(at, v) <=> thr[SchedulerOf[v]] = In(at, v))
  <2>1. Released(s, w)
    BY <1>1, <1>2, BackToLoop
  <2> QED BY <2>1 DEF Released
<1>4. TypeOK' /\ Own'
  BY <1>2, <1>3 DEF IInv, TypeOK, Own, OwnEvents, OnceEach
<1>5. \A v \in Workers : HasCall(v)' <=> HasCall(v)
  BY <1>2 DEF HasCall, WorkerProxy
<1>6. \A v \in Workers : v # w => Same(v)
  BY <1>2, <1>3, <1>5 DEF Same
<1>7. Drives(w, "armed")'
  BY <1>1, <1>2, <1>3 DEF Drives, HasEvent
<1>8. Driven(w)'
  BY <1>7 DEF Driven, Drivers
<1>9. ArmedOK(w)'
  BY <1>1, <1>2 DEF RunningOK, ArmedOK, IsWaiting
<1>10. InStep(w)'
  BY <1>1, <1>2, <1>3, <1>9 DEF InStep, HasEvent, Running
<1>11. \A c \in Calls : ~Carries(w, c) /\ ~Carries(w, c)'
  BY <1>1, <1>2 DEF RunningOK, Carries, Calls
<1>12. \A v \in Workers, c \in Calls : Carries(v, c)' <=> Carries(v, c)
  BY <1>6, <1>11, SameCarries
<1>13. TakenHeld' /\ OneCarrier'
  BY <1>2, <1>12, CarriersStay
<1> QED BY <1>4, <1>6, <1>8, <1>10, <1>13, OneActs

\* do_op ends, with or without a peer's answer, and its callback posts OpComplete.
LEMMA CompleteStep ==
  ASSUME IInv, NEW s \in Schedulers, NEW pc \in {"do_op", "peer"}, thr[s].at = pc,
         evq' = QueueEvent(evq, thr[s].w, "OpComplete"), thr' = [thr EXCEPT ![s] = Looping],
         UNCHANGED <<status, state, cur, armed, cq>>,
         calls' \in [Calls -> Call],
         \A c \in Calls : calls[c].st = "taken" => calls'[c] = calls[c],
         \A c \in Calls : calls'[c].st = "taken" => calls[c].st = "taken"
  PROVE  IInv'
<1>1. PICK w \in Workers :
        /\ thr[s].w = w /\ SchedulerOf[w] = s /\ thr[s] = In(pc, w)
        /\ ~HasEvent(w) /\ w \notin armed /\ w \notin cq /\ RunningOK(w, pc)
  BY Constructor DEF Ats
<1>2. /\ thr' \in [Schedulers -> Thread] /\ OwnThreads' /\ ~Running(w)' /\ thr'[s] = Looping
      /\ \A v \in Workers, at \in Ats : v # w =>
           (thr'[SchedulerOf[v]] = In(at, v) <=> thr[SchedulerOf[v]] = In(at, v))
  <2>1. Released(s, w)
    BY <1>1, BackToLoop
  <2> QED BY <2>1 DEF Released
<1>3. "OpComplete" \in Events
  BY DEF Events
<1>4. /\ evq' \in [Schedulers -> Seq(Event)] /\ OwnEvents'
      /\ \A v \in Workers, x \in Events :
           Ev(v, x) \in Posted(evq'[SchedulerOf[v]]) <=>
             Ev(v, x) \in Posted(evq[SchedulerOf[v]]) \/ (v = w /\ x = "OpComplete")
  BY <1>1, <1>3, AddEvent DEF IInv, Own
<1>5. TypeOK' /\ Own'
  BY <1>2, <1>4 DEF IInv, TypeOK, Own, Event
<1>6. \A v \in Workers : HasCall(v) => HasCall(v)'
  BY DEF HasCall, WorkerProxy
<1>7. \A v \in Workers : v # w => Same(v)
  BY <1>2, <1>4, <1>6 DEF Same
<1>8. HasEvent(w)'
  BY <1>3, <1>4 DEF HasEvent
<1>9. Drives(w, "event")'
  BY <1>1, <1>2, <1>8 DEF Drives
<1>10. Driven(w)'
  BY <1>9 DEF Driven, Drivers
<1>11. EventOK(w, "OpComplete")'
  BY <1>1, <1>6 DEF RunningOK, EventOK
<1>12. \A x \in Events : Ev(w, x) \in Posted(evq'[SchedulerOf[w]]) => x = "OpComplete"
  BY <1>1, <1>4 DEF HasEvent
<1>13. InStep(w)'
  BY <1>1, <1>2, <1>11, <1>12 DEF InStep, Running
<1>14. \A c \in Calls : Carries(w, c)' <=> Carries(w, c)
  BY <1>1 DEF RunningOK, Carries
<1>15. \A v \in Workers, c \in Calls : Carries(v, c)' <=> Carries(v, c)
  BY <1>7, <1>14, SameCarries
<1>16. TakenHeld' /\ OneCarrier'
  BY <1>15, CarriersStay
<1> QED BY <1>5, <1>7, <1>10, <1>13, <1>16, OneActs

LEMMA DoOpStep == ASSUME IInv, NEW s \in Schedulers, DoOp(s) PROVE IInv'
BY CompleteStep DEF DoOp, IInv, TypeOK

LEMMA PeerAnsweredStep == ASSUME IInv, NEW s \in Schedulers, PeerAnswered(s) PROVE IInv'
<1>1. /\ thr[s].at = "peer" /\ calls[s].st = "answered" /\ calls' = [calls EXCEPT ![s].st = "unused"]
      /\ evq' = QueueEvent(evq, thr[s].w, "OpComplete") /\ thr' = [thr EXCEPT ![s] = Looping]
      /\ UNCHANGED <<status, state, cur, armed, cq>>
  BY DEF PeerAnswered
<1>2. /\ s \in Calls /\ calls' \in [Calls -> Call] /\ calls'[s].st = "unused"
      /\ \A x \in Calls : x # s => calls'[x] = calls[x]
  <2>1. s \in Calls
    BY DEF Calls
  <2> QED BY <1>1, <2>1, StatusStep DEF IInv
<1>3. \A c \in Calls : calls[c].st = "taken" => calls'[c] = calls[c]
  BY <1>1, <1>2
<1>4. \A c \in Calls : calls'[c].st = "taken" => calls[c].st = "taken"
  BY <1>2
<1> QED BY <1>1, <1>2, <1>3, <1>4, CompleteStep

LEMMA AskPeerStep == ASSUME IInv, NEW s \in Schedulers, AskPeer(s) PROVE IInv'
<1>1. PICK w \in Workers :
        /\ thr[s].w = w /\ SchedulerOf[w] = s /\ thr[s] = In("do_op", w)
        /\ ~HasEvent(w) /\ w \notin armed /\ w \notin cq /\ RunningOK(w, "do_op")
  BY Constructor DEF AskPeer, Ats
<1>2. PICK p \in Proxies : Send(s, p, "plain")
  BY DEF AskPeer
<1>3. /\ calls' \in [Calls -> Call] /\ calls[s].st = "unused" /\ calls'[s].st = "sent"
      /\ \A x \in Calls : x # s => calls'[x] = calls[x]
  BY <1>2, SendStep DEF IInv, Calls, Kinds
<1>4. thr' = [thr EXCEPT ![s].at = "peer"] /\ UNCHANGED <<status, state, cur, armed, cq, evq>>
  BY DEF AskPeer
<1>5. thr \in [Schedulers -> Thread]
  BY DEF IInv, TypeOK
<1>6. thr' = [thr EXCEPT ![s] = In("peer", w)]
  <2>1. [thr[s] EXCEPT !.at = "peer"] = In("peer", w)
    BY <1>1 DEF In
  <2>2. thr' = [thr EXCEPT ![s] = [thr[s] EXCEPT !.at = "peer"]]
    BY <1>4
  <2> QED BY <2>1, <2>2
<1>7. In("peer", w) \in Thread /\ In("peer", w).w = w
  BY DEF In, Thread
<1>8. /\ thr' \in [Schedulers -> Thread] /\ thr'[s] = In("peer", w)
      /\ \A r \in Schedulers : r # s => thr'[r] = thr[r]
  BY <1>5, <1>6, <1>7
<1>9. TypeOK' /\ Own'
  BY <1>1, <1>3, <1>4, <1>7, <1>8 DEF IInv, TypeOK, Own, OwnEvents, OnceEach, OwnThreads
<1>10. \A v \in Workers : HasCall(v) => HasCall(v)'
  BY <1>3, <1>4 DEF HasCall, WorkerProxy
<1>11. \A v \in Workers, at \in Ats : v # w =>
         (thr'[SchedulerOf[v]] = In(at, v) <=> thr[SchedulerOf[v]] = In(at, v))
  BY <1>1, <1>5, <1>6, <1>7, ThreadOthers
<1>12. \A v \in Workers : v # w => Same(v)
  BY <1>4, <1>10, <1>11 DEF Same
<1>13. Running(w)'
  BY <1>1, <1>8 DEF Running, Ats
<1>14. Drives(w, "thread")'
  BY <1>1, <1>4, <1>13 DEF Drives, HasEvent
<1>15. Driven(w)'
  BY <1>14 DEF Driven, Drivers
<1>16. \A at \in Ats : thr'[s] = In(at, w) => at = "peer"
  BY <1>8 DEF In
<1>17. RunningOK(w, "peer")'
  BY <1>1, <1>4, <1>10 DEF RunningOK
<1>18. InStep(w)'
  BY <1>1, <1>4, <1>16, <1>17 DEF InStep, HasEvent
<1>19. \A c \in Calls : Carries(w, c)' <=> Carries(w, c)
  BY <1>1, <1>4 DEF RunningOK, Carries
<1>20. \A v \in Workers, c \in Calls : Carries(v, c)' <=> Carries(v, c)
  BY <1>12, <1>19, SameCarries
<1>21. \A c \in Calls : calls'[c].st = "taken" => calls[c].st = "taken"
  BY <1>3
<1>22. TakenHeld' /\ OneCarrier'
  BY <1>20, <1>21, CarriersStay
<1> QED BY <1>9, <1>12, <1>15, <1>18, <1>22, OneActs

LEMMA FinishCallStep == ASSUME IInv, NEW s \in Schedulers, FinishCall(s) PROVE IInv'
<1>1. PICK w \in Workers :
        /\ thr[s].w = w /\ SchedulerOf[w] = s /\ thr[s] = In("finish", w)
        /\ ~HasEvent(w) /\ w \notin armed /\ w \notin cq /\ RunningOK(w, "finish")
  BY Constructor DEF FinishCall, Ats
<1>2. PICK c \in Calls : cur[w] = c /\ calls[c].st = "taken"
  BY <1>1 DEF RunningOK, HasCall
<1>3. /\ calls' = [calls EXCEPT ![c].st = "answered"]
      /\ cq' = cq \cup {w} /\ thr' = [thr EXCEPT ![s] = Looping]
      /\ UNCHANGED <<status, state, cur, armed, evq>>
  BY <1>1, <1>2 DEF FinishCall
<1>4. /\ calls' \in [Calls -> Call] /\ calls'[c].st = "answered"
      /\ \A x \in Calls : x # c => calls'[x] = calls[x]
  BY <1>3, StatusStep DEF IInv
<1>5. /\ thr' \in [Schedulers -> Thread] /\ OwnThreads' /\ ~Running(w)' /\ thr'[s] = Looping
      /\ \A v \in Workers, at \in Ats : v # w =>
           (thr'[SchedulerOf[v]] = In(at, v) <=> thr[SchedulerOf[v]] = In(at, v))
  <2>1. Released(s, w)
    BY <1>1, <1>3, BackToLoop
  <2> QED BY <2>1 DEF Released
<1>6. TypeOK' /\ Own'
  BY <1>3, <1>4, <1>5 DEF IInv, TypeOK, Own, OwnEvents, OnceEach
<1>7. Carries(w, c) /\ \A v \in Workers : Carries(v, c) => v = w
  <2>1. Carries(w, c)
    BY <1>1, <1>2 DEF Carries, In
  <2> QED BY <2>1 DEF IInv, OneCarrier
<1>8. ASSUME NEW v \in Workers, v # w PROVE Same(v)
  <2>1. HasCall(v) /\ Carries(v, cur[v]) => HasCall(v)'
    BY <1>3, <1>4, <1>7, <1>8 DEF HasCall, WorkerProxy
  <2> QED BY <1>3, <1>5, <1>8, <2>1 DEF Same
<1>9. Drives(w, "cq")'
  BY <1>1, <1>3, <1>5 DEF Drives, HasEvent
<1>10. Driven(w)'
  BY <1>9 DEF Driven, Drivers
<1>11. TaggedOK(w)' /\ state'[w] = "Finished"
  BY <1>1, <1>3 DEF RunningOK, TaggedOK, IsFinished
<1>12. InStep(w)'
  BY <1>1, <1>3, <1>5, <1>11 DEF InStep, HasEvent, Running
<1>13. \A x : ~Carries(w, x)'
  BY <1>1, <1>5, <1>11 DEF Carries, Running, In, Ats
<1>14. \A v \in Workers, x \in Calls : v # w => (Carries(v, x)' <=> Carries(v, x))
  BY <1>8, SameCarries
<1>15. \A x \in Calls : Carries(w, x) => x = c
  BY <1>2 DEF Carries
<1>16. TakenHeld'
  <2>1. SUFFICES ASSUME NEW x \in Calls, calls'[x].st = "taken"
                 PROVE  \E v \in Workers : Carries(v, x)'
    BY DEF TakenHeld
  <2>2. x # c /\ calls[x].st = "taken"
    BY <1>4, <2>1
  <2>3. PICK v \in Workers : Carries(v, x)
    BY <2>2 DEF IInv, TakenHeld
  <2>4. v # w
    BY <1>15, <2>2, <2>3
  <2> QED BY <1>14, <2>3, <2>4
<1>17. OneCarrier'
  BY <1>13, <1>14 DEF IInv, OneCarrier
<1> QED BY <1>6, <1>8, <1>10, <1>12, <1>16, <1>17, OneActs

LEMMA StutterStep == ASSUME IInv, UNCHANGED vars PROVE IInv'
<1>1. UNCHANGED <<calls, status, state, cur, armed, cq, evq, thr>>
  BY DEF vars
<1>2. TypeOK' /\ Own'
  BY <1>1 DEF IInv, TypeOK, Own, OwnEvents, OwnThreads, OnceEach
<1>3. \A v \in Workers : HasCall(v) => HasCall(v)'
  BY <1>1 DEF HasCall, WorkerProxy
<1>4. \A v \in Workers : Same(v)
  BY <1>1, <1>3 DEF Same
<1>5. TakenHeld' /\ OneCarrier'
  BY <1>1, <1>4, SameCarries, CarriersStay
<1> QED BY <1>2, <1>4, <1>5, SameDriven, SameInStep DEF IInv, AllDriven, AllInStep

-----------------------------------------------------------------------------
\* The queues that initiate_processor fills: one event for each worker.
LEMMA FirstEvents ==
  ASSUME NEW s \in Schedulers,
         NEW q, q = SetToSeq({[w |-> w, ev |-> "initiate"] : w \in WorkersOf(s)})
  PROVE  /\ q \in Seq(Event) /\ OnceEach(q)
         /\ \A i \in DOMAIN q : SchedulerOf[q[i].w] = s
         /\ Posted(q) = {Ev(w, "initiate") : w \in WorkersOf(s)}
<1> DEFINE S == {Ev(w, "initiate") : w \in WorkersOf(s)}
<1>1. q = SetToSeq(S)
  BY DEF Ev
<1>2. IsFiniteSet(WorkersOf(s))
  <2>1. WorkersOf(s) \in SUBSET Workers
    BY DEF WorkersOf
  <2> QED BY <2>1, FS_Subset
<1>3. IsFiniteSet(S)
  <2> DEFINE f == [w \in WorkersOf(s) |-> Ev(w, "initiate")]
  <2>1. f \in Surjection(WorkersOf(s), S)
    BY DEF Surjection
  <2> QED BY <1>2, <2>1, FS_Surjection
<1>4. S \subseteq Event /\ \A x \in S : SchedulerOf[x.w] = s /\ x.ev = "initiate"
  BY DEF WorkersOf, Event, Ev, Events
<1> HIDE DEF S
<1>5. PICK n \in Nat : n = Cardinality(S)
  BY <1>3, FS_CardinalityType
<1>6. \E f \in [1 .. n -> S] : IsInjective(f)
  BY <1>3, <1>5, FS_CardinalityType DEF ExistsBijection, Bijection, Injection
<1>7. q \in [1 .. n -> S] /\ IsInjective(q)
  BY <1>1, <1>5, <1>6 DEF SetToSeq
<1>8. q \in Injection(1 .. n, S)
  BY <1>7 DEF Injection
<1>9. Cardinality(1 .. n) = Cardinality(S)
  BY <1>5, FS_Interval
<1>10. q \in Surjection(1 .. n, S)
  BY <1>3, <1>8, <1>9, FS_Injection
<1>11. q \in Seq(Event)
  BY <1>4, <1>7
<1>12. DOMAIN q = 1 .. n
  BY <1>7
<1>13. Posted(q) = S
  <2>1. Posted(q) \subseteq S
    BY <1>7, <1>12 DEF Posted
  <2>2. S \subseteq Posted(q)
    <3>1. SUFFICES ASSUME NEW x \in S PROVE x \in Posted(q)
      OBVIOUS
    <3>2. PICK i \in 1 .. n : q[i] = x
      BY <1>10 DEF Surjection
    <3>3. i \in DOMAIN q
      BY <1>12
    <3> QED BY <3>2, <3>3 DEF Posted
  <2> QED BY <2>1, <2>2
<1>14. \A i \in DOMAIN q : q[i] \in S /\ q[i] \in Event
  BY <1>4, <1>7, <1>12
<1>15. OnceEach(q)
  <2>1. SUFFICES ASSUME NEW i \in DOMAIN q, NEW j \in DOMAIN q, q[i].w = q[j].w
                 PROVE  i = j
    BY DEF OnceEach
  <2>2. q[i] = Ev(q[i].w, "initiate") /\ q[j] = Ev(q[j].w, "initiate")
    BY <1>4, <1>14, EventForm
  <2>3. q[i] = q[j]
    BY <2>1, <2>2
  <2> QED BY <1>7, <2>3 DEF IsInjective
<1>16. \A i \in DOMAIN q : SchedulerOf[q[i].w] = s
  BY <1>4, <1>14
<1> QED BY <1>11, <1>13, <1>15, <1>16 DEF S

LEMMA InitIInv == Init => IInv
<1> SUFFICES ASSUME Init PROVE IInv
  OBVIOUS
<1>1. ASSUME NEW s \in Schedulers
      PROVE  /\ evq[s] \in Seq(Event) /\ OnceEach(evq[s])
             /\ \A i \in DOMAIN evq[s] : SchedulerOf[evq[s][i].w] = s
             /\ Posted(evq[s]) = {Ev(w, "initiate") : w \in WorkersOf(s)}
  <2>1. evq[s] = SetToSeq({[w |-> w, ev |-> "initiate"] : w \in WorkersOf(s)})
    BY DEF Init
  <2> QED BY <2>1, FirstEvents
<1>2. evq \in [Schedulers -> Seq(Event)]
  BY <1>1 DEF Init
<1>3. calls \in [Calls -> Call] /\ \A c \in Calls : calls[c].st = "unused"
  <2>1. (CHOOSE p \in Proxies : TRUE) \in Proxies
    OBVIOUS
  <2> QED BY <2>1 DEF Init, Call, Kinds
<1>4. TypeOK
  BY <1>2, <1>3 DEF Init, TypeOK, Status, States, Thread, Event
<1>5. Own
  BY <1>1 DEF Init, Own, OwnEvents, OwnThreads
<1>6. ASSUME NEW w \in Workers, NEW e \in Events
      PROVE  Ev(w, e) \in Posted(evq[SchedulerOf[w]]) <=> e = "initiate"
  <2>1. w \in WorkersOf(SchedulerOf[w]) /\ SchedulerOf[w] \in Schedulers
    BY DEF WorkersOf
  <2>2. Posted(evq[SchedulerOf[w]]) = {Ev(v, "initiate") : v \in WorkersOf(SchedulerOf[w])}
    BY <1>1, <2>1
  <2> QED BY <2>1, <2>2 DEF Ev
<1>7. ASSUME NEW w \in Workers PROVE Driven(w) /\ InStep(w)
  <2>1. HasEvent(w)
    BY <1>6 DEF HasEvent, Events
  <2>2. \A at \in Ats : thr[SchedulerOf[w]] # In(at, w)
    BY DEF Init, Looping, In, Ats
  <2>3. Drives(w, "event")
    BY <2>1, <2>2 DEF Init, Drives, Running
  <2>4. InStep(w)
    BY <1>6, <2>2 DEF Init, InStep, EventOK
  <2> QED BY <2>3, <2>4 DEF Driven, Drivers
<1>8. TakenHeld /\ OneCarrier
  BY <1>3 DEF Init, TakenHeld, OneCarrier, Carries, Calls
<1> QED BY <1>4, <1>5, <1>7, <1>8 DEF IInv, AllDriven, AllInStep

LEMMA NextIInv == IInv /\ [Next]_vars => IInv'
<1> SUFFICES ASSUME IInv, [Next]_vars PROVE IInv'
  OBVIOUS
<1>1. ASSUME NEW s \in Schedulers, SchedulerStep(s) PROVE IInv'
  BY <1>1, ReactStep, ArmStep, DoOpStep, AskPeerStep, PeerAnsweredStep, FinishCallStep
     DEF SchedulerStep
<1> QED BY <1>1, ClientCallStep, MatchStep, DispatchStep, StutterStep DEF Next

(***************************************************************************)
(* The inductive invariant holds in every behaviour of clients, gRPC,      *)
(* OpServerImpl::entry and the scheduler threads.                          *)
(***************************************************************************)
THEOREM Invariance == Spec => []IInv
BY InitIInv, NextIInv, PTL DEF Spec

(***************************************************************************)
(* Every variable keeps its type in every behaviour.                       *)
(***************************************************************************)
THEOREM TypeCorrect == Spec => []TypeOK
<1>1. IInv => TypeOK
  BY DEF IInv
<1> QED BY <1>1, Invariance, PTL

-----------------------------------------------------------------------------
(* From the invariant to the properties. *)

LEMMA OneOrNone == ASSUME NEW x, NEW S PROVE Cardinality({x} \cap S) = IF x \in S THEN 1 ELSE 0
<1>1. CASE x \in S
  <2>1. {x} \cap S = {x}
    BY <1>1
  <2> QED BY <1>1, <2>1, FS_Singleton
<1>2. CASE x \notin S
  <2>1. {x} \cap S = {}
    BY <1>2
  <2> QED BY <1>2, <2>1, FS_EmptySet
<1> QED BY <1>1, <1>2

LEMMA EventsCounted ==
  ASSUME IInv, NEW w \in Workers
  PROVE  Cardinality(QueuedFor(w)) = IF HasEvent(w) THEN 1 ELSE 0
<1> DEFINE s == SchedulerOf[w]
           q == evq[s]
<1>1. s \in Schedulers /\ q \in Seq(Event) /\ OnceEach(q)
  BY DEF IInv, TypeOK, Own, OwnEvents, Event
<1> HIDE DEF s, q
<1>2. ASSUME NEW i \in QueuedFor(w) PROVE i \in DOMAIN q /\ q[i].w = w /\ HasEvent(w)
  <2>1. i \in DOMAIN q /\ q[i].w = w
    BY DEF QueuedFor, s, q
  <2>2. q[i] \in Event /\ q[i] \in Posted(q)
    BY <1>1, <2>1 DEF Posted
  <2>3. q[i].ev \in Events /\ q[i] = Ev(w, q[i].ev)
    BY <2>1, <2>2, EventForm
  <2> QED BY <2>1, <2>2, <2>3 DEF HasEvent, s, q
<1>3. CASE HasEvent(w)
  <2>1. PICK e \in Events : Ev(w, e) \in Posted(q)
    BY <1>3 DEF HasEvent, s, q
  <2>2. PICK i \in DOMAIN q : q[i] = Ev(w, e)
    BY <2>1 DEF Posted
  <2>3. i \in QueuedFor(w)
    BY <2>2, EvFields DEF QueuedFor, s, q
  <2>4. \A j \in QueuedFor(w) : j = i
    BY <1>1, <1>2, <2>3 DEF OnceEach
  <2>5. QueuedFor(w) = {i}
    BY <2>3, <2>4
  <2> QED BY <1>3, <2>5, FS_Singleton
<1>4. CASE ~HasEvent(w)
  <2>1. QueuedFor(w) = {}
    BY <1>2, <1>4
  <2> QED BY <1>4, <2>1, FS_EmptySet
<1> QED BY <1>3, <1>4

LEMMA ThreadsCounted ==
  ASSUME IInv, NEW w \in Workers
  PROVE  Cardinality({s \in Schedulers : thr[s].w = w}) = IF Running(w) THEN 1 ELSE 0
<1> DEFINE T == {s \in Schedulers : thr[s].w = w}
<1>1. ASSUME NEW s \in T PROVE s = SchedulerOf[w] /\ Running(w)
  <2>1. thr[s] # Looping /\ thr[s] \in Thread /\ s \in Schedulers /\ thr[s].w = w
    BY DEF Looping, IInv, TypeOK
  <2>2. thr[s].at \in Ats /\ thr[s] = In(thr[s].at, w)
    BY <2>1 DEF Thread, Ats, In
  <2>3. SchedulerOf[w] = s
    BY <2>1 DEF IInv, Own, OwnThreads
  <2> QED BY <2>2, <2>3 DEF Running
<1>2. CASE Running(w)
  <2>1. SchedulerOf[w] \in T
    BY <1>2 DEF Running, In
  <2>2. T = {SchedulerOf[w]}
    BY <1>1, <2>1
  <2> QED BY <1>2, <2>2, FS_Singleton
<1>3. CASE ~Running(w)
  <2>1. T = {}
    BY <1>1, <1>3
  <2> QED BY <1>3, <2>1, FS_EmptySet
<1> QED BY <1>2, <1>3

LEMMA DrivenOnce == IInv => OneDriver
<1> SUFFICES ASSUME IInv, NEW w \in Workers
             PROVE  Cardinality({w} \cap armed) + Cardinality({w} \cap cq)
                      + Cardinality(QueuedFor(w))
                      + Cardinality({s \in Schedulers : thr[s].w = w}) = 1
  BY DEF OneDriver
<1>1. PICK d \in Drivers : Drives(w, d)
  BY DEF IInv, AllDriven, Driven
<1>2. /\ Cardinality({w} \cap armed) = IF d = "armed" THEN 1 ELSE 0
      /\ Cardinality({w} \cap cq) = IF d = "cq" THEN 1 ELSE 0
  BY <1>1, OneOrNone DEF Drives
<1>3. Cardinality(QueuedFor(w)) = IF d = "event" THEN 1 ELSE 0
  BY <1>1, EventsCounted DEF Drives
<1>4. Cardinality({s \in Schedulers : thr[s].w = w}) = IF d = "thread" THEN 1 ELSE 0
  BY <1>1, ThreadsCounted DEF Drives
<1> QED BY <1>2, <1>3, <1>4 DEF Drivers

LEMMA AlwaysExpected == IInv => NoEventDropped
<1> SUFFICES ASSUME IInv, NEW s \in Schedulers, evq[s] # <<>> PROVE ~Unexpected(s)
  BY DEF NoEventDropped
<1> DEFINE w == Head(evq[s]).w
           e == Head(evq[s]).ev
<1>1. evq[s] \in Seq(Event)
  BY DEF IInv, TypeOK, Event
<1>2. Head(evq[s]) = evq[s][1] /\ 1 \in DOMAIN evq[s] /\ Head(evq[s]) \in Event
  BY <1>1, TailShape
<1>3. w \in Workers /\ e \in Events /\ Head(evq[s]) = Ev(w, e)
  BY <1>2, EventForm
<1>4. SchedulerOf[w] = s
  BY <1>2 DEF IInv, Own, OwnEvents
<1>5. Ev(w, e) \in Posted(evq[SchedulerOf[w]])
  <2>1. Head(evq[s]) \in Posted(evq[s])
    BY <1>2 DEF Posted
  <2> QED BY <1>3, <1>4, <2>1
<1> HIDE DEF w, e
<1>6. Target(state[w], e) # "none"
  BY <1>3, <1>5, Expected
<1> QED BY <1>6 DEF Unexpected, w, e

\* What a worker carries it has been handed, and its proxy was meant.
LEMMA CarriesTaken ==
  ASSUME IInv, NEW w \in Workers, NEW c \in Calls, Carries(w, c) PROVE HasCall(w)
<1>1. Driven(w) /\ InStep(w) /\ cur[w] = c /\ c # NoCall
  BY DEF IInv, AllDriven, AllInStep, Carries, Calls
<1>2. PICK d \in Drivers : Drives(w, d)
  BY <1>1 DEF Driven
<1>3. CASE d = "armed"
  BY <1>1, <1>2, <1>3 DEF Drives, InStep, ArmedOK
<1>4. CASE d = "cq"
  <2>1. TaggedOK(w) /\ ~Running(w)
    BY <1>1, <1>2, <1>4 DEF Drives, InStep
  <2>2. thr[SchedulerOf[w]] # In("finish", w)
    BY <2>1 DEF Running, Ats
  <2> QED BY <2>1, <2>2 DEF TaggedOK, IsFinished, Carries, In
<1>5. CASE d = "event"
  <2>1. HasEvent(w) /\ ~Running(w)
    BY <1>2, <1>5 DEF Drives
  <2>2. PICK e \in Events : EventOK(w, e)
    BY <1>1, <2>1 DEF HasEvent, InStep
  <2>3. thr[SchedulerOf[w]] # In("finish", w)
    BY <2>1 DEF Running, Ats
  <2> QED BY <1>1, <2>2, <2>3 DEF EventOK, Events, Carries, In
<1>6. CASE d = "thread"
  <2>1. PICK at \in Ats : RunningOK(w, at)
    BY <1>1, <1>2, <1>6 DEF Drives, Running, InStep
  <2> QED BY <1>1, <2>1 DEF RunningOK, Ats
<1> QED BY <1>3, <1>4, <1>5, <1>6 DEF Drivers

LEMMA CarriedByOne == IInv => CarriedOnce
<1> SUFFICES ASSUME IInv, NEW c \in Calls
             PROVE  {w \in Workers : Carries(w, c)} \in
                      IF calls[c].st = "taken"
                      THEN {{w} : w \in {v \in Workers : WorkerProxy(v) = calls[c].at}}
                      ELSE {{}}
  BY DEF CarriedOnce
<1>1. \A w \in Workers : Carries(w, c) => calls[c].st = "taken" /\ calls[c].at = WorkerProxy(w)
  BY CarriesTaken DEF HasCall, Carries
<1>2. CASE calls[c].st = "taken"
  <2>1. PICK w \in Workers : Carries(w, c)
    BY <1>2 DEF IInv, TakenHeld
  <2>2. {v \in Workers : Carries(v, c)} = {w}
    BY <2>1 DEF IInv, OneCarrier
  <2> QED BY <1>1, <1>2, <2>1, <2>2
<1>3. CASE calls[c].st # "taken"
  BY <1>1, <1>3
<1> QED BY <1>2, <1>3

(***************************************************************************)
(* For any number of proxies, threads, workers and calls: a worker is      *)
(* driven by exactly one of gRPC, the completion queue, its scheduler's    *)
(* queue and its thread; the event that entry posts from the status word   *)
(* always has a reaction; and a call is carried by exactly one worker, of  *)
(* the proxy it was sent to, until it is answered.                         *)
(***************************************************************************)
THEOREM CallsAlwaysSound == Spec => []CallsSound
<1>1. IInv => CallsSound
  BY DrivenOnce, AlwaysExpected, CarriedByOne DEF CallsSound
<1> QED BY <1>1, Invariance, PTL

=============================================================================
