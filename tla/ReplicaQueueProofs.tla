------------------------- MODULE ReplicaQueueProofs -------------------------
(***************************************************************************)
(* Proofs about the replication queue: its inductive invariant, and that   *)
(* it implements the bounded FIFO channel of module ReplicaChannel, for    *)
(* any number of submitters, requests and peers and any limit.             *)
(***************************************************************************)
EXTENDS ReplicaQueue, SequenceTheorems, TLAPS

USE MaxNewAssumption

-----------------------------------------------------------------------------
(* Facts about sequences of requests. *)

\* A request pushed at the end of the queue is pushed at the end of it all.
LEMMA PushAtEnd ==
  ASSUME NEW S, NEW a \in Seq(S), NEW b \in Seq(S), NEW e \in S
  PROVE  a \o Append(b, e) = Append(a \o b, e)
<1>1. Append(b, e) = b \o <<e>> /\ <<e>> \in Seq(S)
  BY AppendIsConcat
<1>2. a \o b \in Seq(S)
  BY ConcatProperties
<1>3. Append(a \o b, e) = (a \o b) \o <<e>>
  BY <1>2, AppendIsConcat
<1> QED BY <1>1, <1>3, ConcatAssociative

\* Moving the first element over the boundary of two sequences.
LEMMA HeadOver ==
  ASSUME NEW S, NEW b \in Seq(S), b # <<>>
  PROVE  <<Head(b)>> \o Tail(b) = b
<1>1. Head(b) \in S /\ Tail(b) \in Seq(S) /\ Len(Tail(b)) = Len(b) - 1
  BY HeadTailProperties
<1>2. <<Head(b)>> \in Seq(S) /\ Len(<<Head(b)>>) = 1 /\ Len(b) \in Nat \ {0}
  BY <1>1, EmptySeq
<1>3. /\ <<Head(b)>> \o Tail(b) \in Seq(S)
      /\ Len(<<Head(b)>> \o Tail(b)) = Len(b)
      /\ \A i \in 1 .. Len(b) : (<<Head(b)>> \o Tail(b))[i] =
                                  IF i <= 1 THEN <<Head(b)>>[i] ELSE Tail(b)[i - 1]
  BY <1>1, <1>2, ConcatProperties
<1>4. \A i \in 1 .. Len(Tail(b)) : Tail(b)[i] = b[i + 1]
  BY HeadTailProperties
<1>5. ASSUME NEW i \in 1 .. Len(b) PROVE (<<Head(b)>> \o Tail(b))[i] = b[i]
  <2>1. CASE i = 1 BY <2>1, <1>3
  <2>2. CASE i # 1
    <3>1. i - 1 \in 1 .. Len(Tail(b)) BY <2>2, <1>1, <1>2
    <3>2. Tail(b)[i - 1] = b[(i - 1) + 1] BY <3>1, <1>4
    <3> QED BY <2>2, <3>2, <1>3, <1>2
  <2> QED BY <2>1, <2>2
<1> QED BY <1>3, <1>5, SeqEqual

LEMMA HeadTailOfCons ==
  ASSUME NEW S, NEW a \in S, NEW b \in Seq(S)
  PROVE  /\ <<a>> \o b \in Seq(S) /\ <<a>> \o b # <<>>
         /\ Head(<<a>> \o b) = a
         /\ Tail(<<a>> \o b) = b
<1>1. <<a>> \in Seq(S) /\ Len(<<a>>) = 1
  OBVIOUS
<1>2. /\ <<a>> \o b \in Seq(S) /\ Len(<<a>> \o b) = 1 + Len(b)
      /\ \A i \in 1 .. 1 + Len(b) : (<<a>> \o b)[i] = IF i <= 1 THEN a ELSE b[i - 1]
  BY <1>1, ConcatProperties
<1>3. <<a>> \o b # <<>>
  BY <1>2, LenProperties
<1>4. Head(<<a>> \o b) = a
  BY <1>2, LenProperties
<1>5. /\ Tail(<<a>> \o b) \in Seq(S)
      /\ Len(Tail(<<a>> \o b)) = Len(b)
      /\ \A i \in 1 .. Len(b) : Tail(<<a>> \o b)[i] = (<<a>> \o b)[i + 1]
  BY <1>2, <1>3, HeadTailProperties, LenProperties
<1>6. \A i \in 1 .. Len(b) : Tail(<<a>> \o b)[i] = b[i]
  BY <1>2, <1>5, LenProperties
<1> QED BY <1>2, <1>3, <1>4, <1>5, <1>6, SeqEqual

-----------------------------------------------------------------------------
(* Type correctness and the inductive invariant. *)

\* The parts of Pending are sequences of requests.
LEMMA PendingType ==
  ASSUME TypeOK
  PROVE  /\ Current \in Seq(Request)
         /\ Current \o t \in Seq(Request)
         /\ Pending \in Seq(Request)
         /\ Len(Current) \in Nat /\ Len(t) \in Nat /\ Len(m_new) \in Nat
         /\ Len(Current \o t) = Len(Current) + Len(t)
         /\ Len(Pending) = Len(Current) + Len(t) + Len(m_new)
<1>1. m_new \in Seq(Request) /\ t \in Seq(Request)
  BY DEF TypeOK
<1>2. Current \in Seq(Request)
  <2>1. CASE cur = NoRequest BY <2>1, EmptySeq DEF Current
  <2>2. CASE cur # NoRequest
    <3>1. cur \in Request BY <2>2 DEF TypeOK
    <3> QED BY <3>1, <2>2 DEF Current
  <2> QED BY <2>1, <2>2
<1>3. Current \o t \in Seq(Request) /\ Len(Current \o t) = Len(Current) + Len(t)
  BY <1>1, <1>2, ConcatProperties
<1>4. Pending \in Seq(Request) /\ Len(Pending) = Len(Current \o t) + Len(m_new)
  BY <1>1, <1>3, ConcatProperties DEF Pending
<1> QED BY <1>1, <1>2, <1>3, <1>4, LenProperties

LEMMA InitIInv == Init => IInv
<1> SUFFICES ASSUME Init PROVE IInv
  OBVIOUS
<1>1. TypeOK
  BY EmptySeq DEF Init, TypeOK, FlusherStates, Submitter, Away
<1>2. SubmitterHasRequest /\ BatchOnlyInFlush /\ LeftHasRequest
  BY DEF Init, SubmitterHasRequest, BatchOnlyInFlush, LeftHasRequest, Away
<1>3. Current = <<>> /\ Pending = <<>>
  <2>1. Current = <<>> BY DEF Init, Current
  <2>2. <<>> \o <<>> = <<>> BY EmptySeq, ConcatEmptySeq
  <2> QED BY <2>1, <2>2 DEF Init, Pending
<1>4. InOrder
  <2>1. <<>> \o <<>> = <<>> BY EmptySeq, ConcatEmptySeq
  <2> QED BY <2>1, <1>3 DEF Init, InOrder
<1>5. Len(m_new) <= MaxNew + 1 /\ BatchBound
  BY <1>3 DEF Init, BatchBound
<1> QED BY <1>1, <1>2, <1>4, <1>5 DEF IInv

\* Type correctness of a step, and of the facts about single threads.
LEMMA StepTyped ==
  ASSUME IInv, [Next]_vars
  PROVE  TypeOK' /\ SubmitterHasRequest' /\ BatchOnlyInFlush' /\ LeftHasRequest'
<1> USE DEF IInv, TypeOK, SubmitterHasRequest, BatchOnlyInFlush, LeftHasRequest
<1>0. \A s \in Submitters : sub[s] \in Submitter
  OBVIOUS
<1>1. ASSUME NEW s \in Submitters, Call(s)
      PROVE  TypeOK' /\ SubmitterHasRequest' /\ BatchOnlyInFlush' /\ LeftHasRequest'
  <2>0. NewId \in Ids
    BY <1>1 DEF Call, NewId
  <2>1. PICK i \in Ids, k \in Kinds :
          sub' = [sub EXCEPT ![s] = [pc |-> "submit", req |-> [id |-> i, kind |-> k]]]
    BY <1>1, <2>0 DEF Call
  <2>2. [id |-> i, kind |-> k] \in Request
    BY DEF Request
  <2>3. [pc |-> "submit", req |-> [id |-> i, kind |-> k]] \in Submitter
    BY <2>2 DEF Submitter
  <2>4. sub' \in [Submitters -> Submitter]
    BY <2>1, <2>3
  <2>5. SubmitterHasRequest'
    BY <2>1, <2>2
  <2> QED BY <1>1, <2>4, <2>5 DEF Call
<1>2. ASSUME NEW s \in Submitters, submit_replicated_request(s)
      PROVE  TypeOK' /\ SubmitterHasRequest' /\ BatchOnlyInFlush' /\ LeftHasRequest'
  <2>1. sub[s].req \in Request
    BY <1>2 DEF submit_replicated_request
  <2>2. Append(m_new, sub[s].req) \in Seq(Request) /\ Append(log, sub[s].req) \in Seq(Request)
    BY <2>1, AppendProperties
  <2>3. sub' \in [Submitters -> Submitter] /\ SubmitterHasRequest'
    <3>1. sub' = [sub EXCEPT ![s].pc = "waiting"] \/ sub' = [sub EXCEPT ![s] = Away]
      BY <1>2 DEF submit_replicated_request
    <3>2. Away \in Submitter /\ Away.pc = "idle"
      BY DEF Submitter, Away
    <3>3. [sub[s] EXCEPT !.pc = "waiting"] \in Submitter
      BY <1>0 DEF Submitter
    <3>4. \A u \in Submitters : u # s => sub'[u] = sub[u]
      BY <3>1
    <3>5. sub'[s] = Away \/ (sub'[s].req = sub[s].req)
      BY <3>1, <1>0 DEF Submitter
    <3>6. sub' \in [Submitters -> Submitter]
      BY <3>1, <3>2, <3>3
    <3> QED BY <2>1, <3>2, <3>4, <3>5, <3>6
  <2>4. m_new' \in Seq(Request) /\ log' \in Seq(Request)
    BY <1>2, <2>2 DEF submit_replicated_request
  <2>5. flusher' \in FlusherStates /\ (flusher' \in {"send", "lastsend"} <=> flusher \in {"send", "lastsend"})
    BY <1>2 DEF submit_replicated_request, Wake, FlusherStates
  <2> QED BY <1>2, <2>3, <2>4, <2>5 DEF submit_replicated_request
<1>3. CASE SpuriousWakeup
  BY <1>3 DEF SpuriousWakeup, Submitter, FlusherStates
<1>4. CASE entry
  BY <1>4 DEF entry, FlusherStates
<1>5. CASE flush
  <2>1. sub' \in [Submitters -> Submitter]
    BY <1>5 DEF flush, Broadcast, Submitter
  <2>2. SubmitterHasRequest'
    BY <1>5 DEF flush, Broadcast, Submitter
  <2> QED BY <1>5, <2>1, <2>2, EmptySeq DEF flush, FlusherStates
<1>6. CASE TakeRequest
  <2>1. Head(t) \in Request /\ Tail(t) \in Seq(Request)
    BY <1>6, HeadTailProperties DEF TakeRequest
  <2>2. Head(t) # NoRequest
    BY <2>1, NoRequestAssumption
  <2> QED BY <1>6, <2>1, <2>2 DEF TakeRequest
<1>7. ASSUME NEW p \in Peers, SendTo(p)
      PROVE  TypeOK' /\ SubmitterHasRequest' /\ BatchOnlyInFlush' /\ LeftHasRequest'
  <2>1. cur \in Request /\ cur.kind # "private"
    BY <1>7 DEF SendTo
  <2>2. Wire(cur) \in [id : Ids, kind : {"rep_update_index", "other"}]
    BY <2>1 DEF Wire, Request, Kinds
  <2> DEFINE W == [id : Ids, kind : {"rep_update_index", "other"}]
  <2>3. received' \in [Peers -> Seq(W)]
    <3> HIDE DEF W
    <3>1. received[p] \in Seq(W) /\ Wire(cur) \in W
      BY <2>2 DEF W
    <3>2. Append(received[p], Wire(cur)) \in Seq(W)
      BY <3>1, AppendProperties
    <3>3. received \in [Peers -> Seq(W)]
      BY DEF W
    <3>4. received' = received \/ received' = [received EXCEPT ![p] = Append(@, Wire(cur))]
      BY <1>7 DEF SendTo
    <3> QED BY <3>2, <3>3, <3>4
  <2>4. failed' \in [Peers -> SUBSET Ids]
    <3>1. cur.id \in Ids
      BY <2>1 DEF Request
    <3>2. failed' = failed \/ failed' = [failed EXCEPT ![p] = @ \cup {cur.id}]
      BY <1>7 DEF SendTo
    <3> QED BY <3>1, <3>2
  <2> QED BY <1>7, <2>3, <2>4 DEF SendTo
<1>8. CASE RequestDone
  BY <1>8, AppendProperties DEF RequestDone
<1>9. CASE FlushDone
  BY <1>9 DEF FlushDone, FlusherStates
<1>10. CASE stop
  <2>1. sub' \in [Submitters -> Submitter]
    BY <1>10 DEF stop, Broadcast, Submitter
  <2>2. SubmitterHasRequest'
    BY <1>10 DEF stop, Broadcast, Submitter
  <2> QED BY <1>10, <2>1, <2>2 DEF stop, Wake, FlusherStates
<1>11. CASE UNCHANGED vars
  BY <1>11 DEF vars
<1> QED BY <1>1, <1>2, <1>3, <1>4, <1>5, <1>6, <1>7, <1>8, <1>9, <1>10, <1>11
        DEF Next, FlusherStep

-----------------------------------------------------------------------------
(* What a step does to the channel that the manager implements. *)

ChannelKept == Pending' = Pending /\ sent' = sent /\ log' = log
ChannelAccepts == /\ Len(m_new) <= MaxNew
                  /\ \E r \in Request : /\ Pending' = Append(Pending, r)
                                        /\ log' = Append(log, r)
                                        /\ sent' = sent
ChannelPasses == /\ Pending # <<>>
                 /\ sent' = Append(sent, Head(Pending))
                 /\ Pending' = Tail(Pending)
                 /\ log' = log

\* Every step leaves the channel alone, accepts one request or passes one on.
LEMMA StepChannel ==
  ASSUME IInv, [Next]_vars
  PROVE  ChannelKept \/ ChannelAccepts \/ ChannelPasses
<1>0. TypeOK /\ BatchOnlyInFlush
  BY DEF IInv
<1>1. ASSUME NEW s \in Submitters, submit_replicated_request(s)
      PROVE  ChannelKept \/ ChannelAccepts
  <2>1. CASE Full
    BY <1>1, <2>1 DEF submit_replicated_request, ChannelKept, Pending, Current
  <2>2. CASE ~Full
    <3>1. sub[s].req \in Request /\ Len(m_new) <= MaxNew
      BY <1>0, <1>1, <2>2, LenProperties
         DEF submit_replicated_request, Full, IInv, SubmitterHasRequest, TypeOK
    <3>2. Current' = Current /\ t' = t /\ m_new' = Append(m_new, sub[s].req)
      BY <1>1, <2>2 DEF submit_replicated_request, Current
    <3>3. Pending' = Append(Pending, sub[s].req)
      BY <1>0, <3>1, <3>2, PendingType, PushAtEnd DEF Pending, TypeOK
    <3> QED BY <1>1, <2>2, <3>1, <3>3 DEF submit_replicated_request, ChannelAccepts
  <2> QED BY <2>1, <2>2
<1>2. CASE flush
  <2>1. t = <<>> /\ cur = NoRequest /\ m_new \in Seq(Request)
    BY <1>0, <1>2 DEF flush, BatchOnlyInFlush, TypeOK
  <2>2. Current = <<>> /\ Current' = <<>> /\ t' = m_new /\ m_new' = <<>>
    BY <1>2, <2>1 DEF flush, Current
  <2>3. /\ <<>> \o <<>> = <<>>
        /\ <<>> \o m_new = m_new
        /\ m_new \o <<>> = m_new
    BY <2>1, EmptySeq, ConcatEmptySeq
  <2>4. Pending' = Pending
    BY <2>1, <2>2, <2>3 DEF Pending
  <2> QED BY <1>2, <2>4 DEF flush, ChannelKept
<1>3. CASE TakeRequest
  <2>1. t # <<>> /\ t \in Seq(Request) /\ Current = <<>>
    BY <1>0, <1>3 DEF TakeRequest, Current, TypeOK
  <2>2. Head(t) # NoRequest
    BY <2>1, HeadTailProperties, NoRequestAssumption
  <2>3. Current' = <<Head(t)>> /\ t' = Tail(t) /\ m_new' = m_new
    BY <1>3, <2>2 DEF TakeRequest, Current
  <2>4. Current' \o t' = Current \o t
    BY <2>1, <2>3, HeadOver, ConcatEmptySeq
  <2> QED BY <1>3, <2>3, <2>4 DEF TakeRequest, ChannelKept, Pending
<1>4. CASE RequestDone
  <2>1. /\ cur \in Request /\ Current = <<cur>> /\ Current' = <<>>
        /\ t \in Seq(Request) /\ m_new \in Seq(Request) /\ t' = t /\ m_new' = m_new
    BY <1>0, <1>4 DEF RequestDone, Current, TypeOK
  <2>2. t \o m_new \in Seq(Request)
    BY <2>1, ConcatProperties
  <2>3. Pending = <<cur>> \o (t \o m_new)
    <3>1. <<cur>> \in Seq(Request) BY <2>1
    <3> QED BY <2>1, <3>1, ConcatAssociative DEF Pending
  <2>4. Pending' = t \o m_new
    BY <2>1, ConcatEmptySeq DEF Pending
  <2>5. Pending # <<>> /\ Head(Pending) = cur /\ Tail(Pending) = t \o m_new
    BY <2>1, <2>2, <2>3, HeadTailOfCons
  <2> QED BY <1>4, <2>4, <2>5 DEF RequestDone, ChannelPasses
<1>5. ASSUME NEW s \in Submitters, Call(s) PROVE ChannelKept
  BY <1>5 DEF Call, ChannelKept, Pending, Current
<1>6. ASSUME NEW p \in Peers, SendTo(p) PROVE ChannelKept
  BY <1>6 DEF SendTo, ChannelKept, Pending, Current
<1>7. CASE SpuriousWakeup \/ entry \/ FlushDone \/ stop
  BY <1>7 DEF SpuriousWakeup, entry, FlushDone, stop, ChannelKept, Pending, Current
<1>8. CASE UNCHANGED vars
  BY <1>8 DEF vars, ChannelKept, Pending, Current
<1> QED BY <1>1, <1>2, <1>3, <1>4, <1>5, <1>6, <1>7, <1>8 DEF Next, FlusherStep

\* The bounds on the queue and on the batch.
LEMMA StepBounds ==
  ASSUME IInv, [Next]_vars
  PROVE  (Len(m_new) <= MaxNew + 1)' /\ BatchBound'
<1>0. /\ TypeOK /\ BatchOnlyInFlush /\ BatchBound /\ Len(m_new) <= MaxNew + 1
      /\ Len(Current) \in Nat /\ Len(t) \in Nat /\ Len(m_new) \in Nat
  BY PendingType DEF IInv
<1>1. ASSUME NEW s \in Submitters, submit_replicated_request(s)
      PROVE  (Len(m_new) <= MaxNew + 1)' /\ BatchBound'
  <2>1. Current' = Current /\ t' = t
    BY <1>1 DEF submit_replicated_request, Current
  <2>2. CASE Full
    BY <1>0, <1>1, <2>1, <2>2 DEF submit_replicated_request, BatchBound
  <2>3. CASE ~Full
    <3>1. sub[s].req \in Request
      BY <1>1 DEF submit_replicated_request, IInv, SubmitterHasRequest
    <3>2. Len(m_new') = Len(m_new) + 1 /\ Len(m_new) <= MaxNew
      BY <1>0, <1>1, <2>3, <3>1, AppendProperties DEF submit_replicated_request, Full, TypeOK
    <3> QED BY <1>0, <2>1, <3>2 DEF BatchBound
  <2> QED BY <2>2, <2>3
<1>2. CASE flush
  <2>1. cur = NoRequest
    BY <1>0, <1>2 DEF flush, BatchOnlyInFlush
  <2>2. Current' = <<>> /\ t' = m_new /\ m_new' = <<>>
    BY <1>2, <2>1 DEF flush, Current
  <2> QED BY <1>0, <2>2 DEF BatchBound
<1>3. CASE TakeRequest
  <2>1. Len(Tail(t)) = Len(t) - 1 /\ Len(Current) = 0
    BY <1>0, <1>3, HeadTailProperties DEF TakeRequest, Current, TypeOK
  <2>2. Len(Current') <= 1 /\ Len(Current') \in Nat
    BY DEF Current
  <2> QED BY <1>0, <1>3, <2>1, <2>2 DEF TakeRequest, BatchBound
<1>4. CASE RequestDone
  <2>1. Len(Current') = 0
    BY <1>4 DEF RequestDone, Current
  <2> QED BY <1>0, <1>4, <2>1 DEF RequestDone, BatchBound
<1>5. CASE UNCHANGED <<m_new, t, cur>>
  BY <1>0, <1>5 DEF BatchBound, Current
<1> QED BY <1>1, <1>2, <1>3, <1>4, <1>5
        DEF Next, FlusherStep, Call, SpuriousWakeup, entry, SendTo, FlushDone, stop, vars

LEMMA StepIInv == IInv /\ [Next]_vars => IInv'
<1> SUFFICES ASSUME IInv, [Next]_vars PROVE IInv'
  OBVIOUS
<1>1. TypeOK' /\ SubmitterHasRequest' /\ BatchOnlyInFlush' /\ LeftHasRequest'
  BY StepTyped
<1>2. (Len(m_new) <= MaxNew + 1)' /\ BatchBound'
  BY StepBounds
<1>3. InOrder'
  <2>0. /\ log = sent \o Pending
        /\ sent \in Seq(Request) /\ Pending \in Seq(Request)
    BY PendingType DEF IInv, InOrder, TypeOK
  <2>1. CASE ChannelKept
    BY <2>0, <2>1 DEF ChannelKept, InOrder
  <2>2. CASE ChannelAccepts
    <3>1. PICK r \in Request : /\ Pending' = Append(Pending, r) /\ sent' = sent
                              /\ log' = Append(log, r)
      BY <2>2 DEF ChannelAccepts
    <3>2. sent \o Append(Pending, r) = Append(sent \o Pending, r)
      BY <2>0, PushAtEnd
    <3> QED BY <2>0, <3>1, <3>2 DEF InOrder
  <2>3. CASE ChannelPasses
    <3>1. Head(Pending) \in Request /\ Tail(Pending) \in Seq(Request)
      BY <2>0, <2>3, HeadTailProperties DEF ChannelPasses
    <3>2. <<Head(Pending)>> \in Seq(Request)
      BY <3>1
    <3>3. Append(sent, Head(Pending)) \o Tail(Pending)
            = sent \o (<<Head(Pending)>> \o Tail(Pending))
      BY <2>0, <3>1, <3>2, AppendIsConcat, ConcatAssociative
    <3>4. <<Head(Pending)>> \o Tail(Pending) = Pending
      BY <2>0, <2>3, HeadOver DEF ChannelPasses
    <3> QED BY <2>0, <2>3, <3>3, <3>4 DEF ChannelPasses, InOrder
  <2> QED BY <2>1, <2>2, <2>3, StepChannel
<1> QED BY <1>1, <1>2, <1>3 DEF IInv

\* The inductive invariant holds in every reachable state.
THEOREM Inductive == Spec => []IInv
BY InitIInv, StepIInv, PTL DEF Spec

-----------------------------------------------------------------------------
(* The results. *)

\* Type correctness of the replication queue.
THEOREM TypeCorrect == Spec => []TypeOK
BY Inductive, PTL DEF IInv

\* submit_replicated_request and flush keep the queue and the batch within
\* m_max_new + 1 requests, for any number of submitting threads.
THEOREM Bounded == Spec => []QueueBound
<1>1. IInv => QueueBound
  BY PendingType DEF IInv, QueueBound, BatchBound
<1> QED BY <1>1, Inductive, PTL

\* No request is lost, duplicated or reordered between submission and sending.
THEOREM NothingLost == Spec => []InOrder
BY Inductive, PTL DEF IInv

\* The replication queue implements the bounded FIFO channel.
THEOREM Refinement == Spec => ImplementsChannel
<1>1. Init => Channel!ChanInit
  <2> SUFFICES ASSUME Init PROVE Pending = <<>> /\ sent = <<>>
    BY DEF Channel!ChanInit
  <2>1. Current = <<>> /\ t = <<>> /\ m_new = <<>>
    BY DEF Init, Current
  <2>2. <<>> \o <<>> = <<>>
    BY EmptySeq, ConcatEmptySeq
  <2> QED BY <2>1, <2>2 DEF Init, Pending
<1>2. IInv /\ [Next]_vars => [Channel!ChanNext]_(Channel!chanVars)
  <2> SUFFICES ASSUME IInv, [Next]_vars
               PROVE  [Channel!ChanNext]_(Channel!chanVars)
    OBVIOUS
  <2>1. CASE ChannelKept
    BY <2>1 DEF ChannelKept, Channel!chanVars
  <2>2. CASE ChannelAccepts
    <3>1. Len(Pending) < 2 * (MaxNew + 1)
      BY <2>2, PendingType DEF ChannelAccepts, IInv, BatchBound
    <3> QED BY <2>2, <3>1 DEF ChannelAccepts, Channel!ChanNext, Channel!Accept
  <2>3. CASE ChannelPasses
    BY <2>3 DEF ChannelPasses, Channel!ChanNext, Channel!PassOn
  <2> QED BY <2>1, <2>2, <2>3, StepChannel
<1> QED BY <1>1, <1>2, Inductive, PTL DEF Spec, ImplementsChannel, Channel!ChanSpec

-----------------------------------------------------------------------------
(* What a peer sees. *)

\* The requests of a sequence have different identities.
Distinct(l) == \A m, n \in DOMAIN l : l[m].id = l[n].id => m = n

\* The messages of seq stem from the first n requests of l.
From(seq, l, n) == \A i \in DOMAIN seq : \E k \in 1 .. n : l[k].id = seq[i].id

\* The messages of seq are in the order of l.
Follows(seq, l) ==
  \A i, j \in DOMAIN seq : \A m, n \in DOMAIN l :
    i < j /\ l[m].id = seq[i].id /\ l[n].id = seq[j].id => m < n

\* What peer p got of request r.
Delivered(p, r) ==
  r.kind # "private" /\ r.id \notin failed[p] =>
    \E j \in DOMAIN received[p] : received[p][j] = Wire(r)

\* How far into the log p has been served: the request in hand counts as soon
\* as p is no longer left.
Reach(p) == IF cur # NoRequest /\ p \notin left THEN Len(sent) + 1 ELSE Len(sent)

\* No identity is used twice, neither by requests in the log nor by requests
\* that submitters are about to put there.
IdsApart ==
  /\ Distinct(log)
  /\ \A s \in Submitters : sub[s].pc # "idle" => sub[s].req.id \notin IdsOf(log)
  /\ \A s, u \in Submitters :
       sub[s].pc # "idle" /\ sub[u].pc # "idle" /\ sub[s].req.id = sub[u].req.id => s = u

(***************************************************************************)
(* The strengthening of PeerSees.  A peer holds messages of requests that  *)
(* it has been served only, in the order of the log; what it got of the    *)
(* request in hand is accounted for as soon as it is no longer left.       *)
(***************************************************************************)
PeerInOrder == \A p \in Peers : From(received[p], log, Reach(p)) /\ Follows(received[p], log)
PeerServed ==
  \A p \in Peers : /\ \A i \in DOMAIN sent : Delivered(p, sent[i])
                   /\ cur # NoRequest /\ p \notin left => Delivered(p, cur)

PeerInv == IdsApart /\ PeerInOrder /\ PeerServed

\* A peer's messages stay where they are when the log grows.
LEMMA LogGrows ==
  ASSUME NEW S, NEW l \in Seq(S), NEW r \in S, NEW seq, NEW n \in Nat, n <= Len(l),
         Distinct(Append(l, r)), From(seq, l, n), Follows(seq, l)
  PROVE  From(seq, Append(l, r), n) /\ Follows(seq, Append(l, r))
<1> DEFINE k == Append(l, r)
<1>1. /\ k \in Seq(S) /\ Len(k) = Len(l) + 1 /\ Len(l) \in Nat
      /\ \A i \in 1 .. Len(l) : k[i] = l[i]
  BY AppendProperties
<1>2. DOMAIN l = 1 .. Len(l) /\ DOMAIN k = 1 .. Len(k)
  BY <1>1, LenProperties
<1> HIDE DEF k
<1>3. From(seq, k, n)
  <2>1. SUFFICES ASSUME NEW i \in DOMAIN seq PROVE \E m \in 1 .. n : k[m].id = seq[i].id
    BY DEF From
  <2>2. PICK m \in 1 .. n : l[m].id = seq[i].id
    BY DEF From
  <2>3. k[m] = l[m]
    BY <1>1
  <2> QED BY <2>2, <2>3
<1>4. Follows(seq, k)
  <2>1. SUFFICES ASSUME NEW i \in DOMAIN seq, NEW j \in DOMAIN seq, i < j,
                        NEW a \in DOMAIN k, NEW b \in DOMAIN k,
                        k[a].id = seq[i].id, k[b].id = seq[j].id
                 PROVE  a < b
    BY DEF Follows
  <2>2. PICK c \in 1 .. n : l[c].id = seq[i].id
    BY DEF From
  <2>3. PICK d \in 1 .. n : l[d].id = seq[j].id
    BY DEF From
  <2>4. c \in DOMAIN l /\ d \in DOMAIN l /\ c \in DOMAIN k /\ d \in DOMAIN k
    BY <1>1, <1>2
  <2>5. c < d
    BY <2>1, <2>2, <2>3, <2>4 DEF Follows
  <2>6. k[c] = l[c] /\ k[d] = l[d]
    BY <1>1, <1>2, <2>4
  <2>7. a = c /\ b = d
    BY <2>1, <2>2, <2>3, <2>4, <2>6 DEF Distinct, k
  <2> QED BY <2>5, <2>7
<1> QED BY <1>3, <1>4 DEF k

\* A message of the next request comes last.
LEMMA MessageLast ==
  ASSUME NEW S, NEW T, NEW l \in Seq(S), NEW seq \in Seq(T), NEW w \in T, NEW n \in Nat,
         n < Len(l), l[n + 1].id = w.id, Distinct(l), From(seq, l, n), Follows(seq, l)
  PROVE  From(Append(seq, w), l, n + 1) /\ Follows(Append(seq, w), l)
<1> DEFINE q == Append(seq, w)
<1>1. /\ q \in Seq(T) /\ Len(q) = Len(seq) + 1 /\ Len(seq) \in Nat /\ Len(l) \in Nat
      /\ \A i \in 1 .. Len(seq) : q[i] = seq[i]
      /\ q[Len(seq) + 1] = w
  BY AppendProperties, LenProperties
<1>2. DOMAIN l = 1 .. Len(l) /\ DOMAIN seq = 1 .. Len(seq) /\ DOMAIN q = 1 .. Len(q)
  BY <1>1, LenProperties
<1> HIDE DEF q
<1>3. ASSUME NEW i \in DOMAIN q, i # Len(seq) + 1
      PROVE  i \in DOMAIN seq /\ q[i] = seq[i]
  BY <1>1, <1>2, <1>3
<1>4. n + 1 \in DOMAIN l
  BY <1>1, <1>2
<1>5. From(q, l, n + 1)
  <2>1. SUFFICES ASSUME NEW i \in DOMAIN q PROVE \E m \in 1 .. n + 1 : l[m].id = q[i].id
    BY DEF From
  <2>2. CASE i = Len(seq) + 1
    <3>1. n + 1 \in 1 .. n + 1 /\ l[n + 1].id = q[i].id
      BY <1>1, <2>2
    <3> QED BY <3>1
  <2>3. CASE i # Len(seq) + 1
    <3>1. PICK m \in 1 .. n : l[m].id = seq[i].id
      BY <1>3, <2>3 DEF From
    <3>2. m \in 1 .. n + 1
      OBVIOUS
    <3> QED BY <1>3, <2>3, <3>1, <3>2
  <2> QED BY <2>2, <2>3
<1>6. Follows(q, l)
  <2>1. SUFFICES ASSUME NEW i \in DOMAIN q, NEW j \in DOMAIN q, i < j,
                        NEW a \in DOMAIN l, NEW b \in DOMAIN l,
                        l[a].id = q[i].id, l[b].id = q[j].id
                 PROVE  a < b
    BY DEF Follows
  <2>2. i # Len(seq) + 1
    BY <1>1, <1>2, <2>1
  <2>3. i \in DOMAIN seq /\ q[i] = seq[i]
    BY <1>3, <2>2
  <2>4. CASE j # Len(seq) + 1
    <3>1. j \in DOMAIN seq /\ q[j] = seq[j]
      BY <1>3, <2>4
    <3> QED BY <2>1, <2>3, <3>1 DEF Follows
  <2>5. CASE j = Len(seq) + 1
    <3>1. PICK m \in 1 .. n : l[m].id = seq[i].id
      BY <2>3 DEF From
    <3>2. m \in DOMAIN l
      BY <1>1, <1>2
    <3>3. a = m
      BY <2>1, <2>3, <3>1, <3>2 DEF Distinct
    <3>4. l[b].id = l[n + 1].id
      BY <1>1, <2>1, <2>5
    <3>5. b = n + 1
      BY <1>4, <3>4 DEF Distinct
    <3> QED BY <3>3, <3>5
  <2> QED BY <2>4, <2>5
<1> QED BY <1>5, <1>6 DEF q

\* The request in hand is the one after those that have been sent.
LEMMA InHand ==
  ASSUME IInv
  PROVE  /\ log \in Seq(Request) /\ sent \in Seq(Request)
         /\ Len(sent) \in Nat /\ Len(log) \in Nat /\ Len(sent) <= Len(log)
         /\ cur # NoRequest => /\ cur \in Request
                               /\ Len(sent) < Len(log) /\ log[Len(sent) + 1] = cur
<1>1. /\ log \in Seq(Request) /\ sent \in Seq(Request) /\ log = sent \o Pending
      /\ Current \in Seq(Request) /\ t \in Seq(Request) /\ m_new \in Seq(Request)
      /\ cur \in Request \cup {NoRequest}
  BY PendingType DEF IInv, TypeOK, InOrder
<1>2. /\ Pending \in Seq(Request) /\ Len(Pending) \in Nat /\ Len(sent) \in Nat
      /\ Len(log) = Len(sent) + Len(Pending)
      /\ \A i \in 1 .. Len(sent) + Len(Pending) :
           log[i] = IF i <= Len(sent) THEN sent[i] ELSE Pending[i - Len(sent)]
  BY <1>1, PendingType, ConcatProperties, LenProperties DEF IInv
<1>3. ASSUME cur # NoRequest
      PROVE  Len(sent) < Len(log) /\ log[Len(sent) + 1] = cur
  <2>1. Current = <<cur>> /\ cur \in Request
    BY <1>1, <1>3 DEF Current
  <2>2. t \o m_new \in Seq(Request) /\ Pending = <<cur>> \o (t \o m_new)
    <3>1. <<cur>> \in Seq(Request) BY <2>1
    <3> QED BY <1>1, <2>1, <3>1, ConcatAssociative, ConcatProperties DEF Pending
  <2>3. Pending # <<>> /\ Head(Pending) = cur
    BY <2>1, <2>2, HeadTailOfCons
  <2>4. Len(Pending) >= 1 /\ Pending[1] = cur
    BY <1>2, <2>3, EmptySeq, LenProperties
  <2>5. Len(sent) + 1 \in 1 .. Len(sent) + Len(Pending) /\ (Len(sent) + 1) - Len(sent) = 1
    BY <1>2, <2>4
  <2>6. log[Len(sent) + 1] = Pending[1]
    BY <1>2, <2>5
  <2> QED BY <1>2, <2>4, <2>6
<1> QED BY <1>1, <1>2, <1>3

LEMMA ReachInLog ==
  ASSUME IInv, NEW p \in Peers
  PROVE  Reach(p) \in Nat /\ Reach(p) <= Len(log)
BY InHand DEF Reach

\* Identities stay apart: Call takes one that is not used, and a submission
\* moves one from a submitter into the log.
LEMMA StepIdsApart ==
  ASSUME IInv, IdsApart, [Next]_vars
  PROVE  IdsApart'
<1>0. /\ sub \in [Submitters -> Submitter]
      /\ \A s \in Submitters : sub[s].pc # "idle" => sub[s].req \in Request
      /\ log \in Seq(Request)
  BY DEF IInv, TypeOK, SubmitterHasRequest
<1>1. ASSUME NEW s \in Submitters, Call(s) PROVE IdsApart'
  <2>1. NewId \in Ids /\ NewId \notin Used
    BY <1>1 DEF Call, NewId
  <2>2. PICK i, k : /\ i \notin Used
                    /\ sub' = [sub EXCEPT ![s] = [pc |-> "submit", req |-> [id |-> i, kind |-> k]]]
    BY <1>1, <2>1 DEF Call
  <2>3. sub'[s].req.id = i /\ \A u \in Submitters : u # s => sub'[u] = sub[u]
    BY <1>0, <2>2
  <2>4. log' = log /\ sub[s].pc = "idle"
    BY <1>1 DEF Call
  <2>5. i \notin IdsOf(log) /\ \A u \in Submitters : sub[u].pc # "idle" => i # sub[u].req.id
    BY <2>2 DEF Used
  <2> QED BY <2>3, <2>4, <2>5 DEF IdsApart, IdsOf
<1>2. ASSUME NEW s \in Submitters, submit_replicated_request(s) PROVE IdsApart'
  <2>1. CASE Full
    <3>1. sub' = [sub EXCEPT ![s].pc = "waiting"] /\ log' = log /\ sub[s].pc # "idle"
      BY <1>2, <2>1 DEF submit_replicated_request
    <3>2. sub'[s].req = sub[s].req /\ \A u \in Submitters : u # s => sub'[u] = sub[u]
      BY <1>0, <3>1 DEF Submitter
    <3>3. \A u \in Submitters : sub'[u].pc # "idle" => sub[u].pc # "idle" /\ sub'[u].req = sub[u].req
      BY <3>1, <3>2
    <3> QED BY <3>1, <3>3 DEF IdsApart, IdsOf
  <2>2. CASE ~Full
    <3>1. PICK r \in Request : r = sub[s].req
      BY <1>0, <1>2 DEF submit_replicated_request
    <3>2. sub' = [sub EXCEPT ![s] = Away] /\ log' = Append(log, r) /\ sub[s].pc # "idle"
      BY <1>2, <2>2, <3>1 DEF submit_replicated_request
    <3>3. sub'[s].pc = "idle" /\ \A u \in Submitters : u # s => sub'[u] = sub[u]
      BY <1>0, <3>2 DEF Away
    <3>4. /\ DOMAIN log = 1 .. Len(log) /\ Len(log) \in Nat
          /\ DOMAIN log' = 1 .. Len(log) + 1
          /\ \A i \in 1 .. Len(log) : log'[i] = log[i]
          /\ log'[Len(log) + 1] = r
      BY <1>0, <3>2, AppendProperties, LenProperties
    <3>5. \A i \in 1 .. Len(log) : log[i].id # r.id
      BY <3>1, <3>2, <3>4 DEF IdsApart, IdsOf
    <3>6. Distinct(log')
      <4>1. SUFFICES ASSUME NEW m \in 1 .. Len(log) + 1, NEW n \in 1 .. Len(log) + 1,
                            log'[m].id = log'[n].id
                     PROVE  m = n
        BY <3>4 DEF Distinct
      <4>2. CASE m \in 1 .. Len(log) /\ n \in 1 .. Len(log)
        BY <3>4, <4>1, <4>2 DEF IdsApart, Distinct
      <4>3. CASE m = Len(log) + 1
        BY <3>4, <3>5, <4>1, <4>3
      <4>4. CASE n = Len(log) + 1
        BY <3>4, <3>5, <4>1, <4>4
      <4> QED BY <3>4, <4>2, <4>3, <4>4
    <3>7. ASSUME NEW u \in Submitters, sub'[u].pc # "idle"
          PROVE  sub'[u] = sub[u] /\ sub'[u].req.id \notin IdsOf(log')
      <4>1. u # s /\ sub'[u] = sub[u]
        BY <3>3, <3>7
      <4>2. sub[u].req.id # r.id /\ sub[u].req.id \notin IdsOf(log)
        BY <3>1, <3>2, <3>7, <4>1 DEF IdsApart
      <4>3. IdsOf(log') = IdsOf(log) \cup {r.id}
        BY <3>4 DEF IdsOf
      <4> QED BY <4>1, <4>2, <4>3
    <3> QED BY <3>6, <3>7 DEF IdsApart
  <2> QED BY <2>1, <2>2
<1>3. ASSUME log' = log,
             \A u \in Submitters :
               sub'[u].pc # "idle" => sub[u].pc # "idle" /\ sub'[u].req = sub[u].req
      PROVE  IdsApart'
  BY <1>3 DEF IdsApart, IdsOf
<1>4. CASE SpuriousWakeup
  <2>1. log' = log /\ (sub' = sub \/ \E s \in Submitters : /\ sub[s].pc = "waiting"
                                                         /\ sub' = [sub EXCEPT ![s].pc = "submit"])
    BY <1>4 DEF SpuriousWakeup
  <2> QED BY <1>0, <1>3, <2>1 DEF Submitter
<1>5. CASE flush \/ stop
  <2>1. log' = log /\ sub' = Broadcast
    BY <1>5 DEF flush, stop
  <2> QED BY <1>0, <1>3, <2>1 DEF Broadcast, Submitter
<1>6. CASE entry \/ TakeRequest \/ (\E p \in Peers : SendTo(p)) \/ RequestDone \/ FlushDone
  <2>1. log' = log /\ sub' = sub
    BY <1>6 DEF entry, TakeRequest, SendTo, RequestDone, FlushDone
  <2> QED BY <1>3, <2>1
<1>7. CASE UNCHANGED vars
  BY <1>3, <1>7 DEF vars
<1> QED BY <1>1, <1>2, <1>4, <1>5, <1>6, <1>7 DEF Next, FlusherStep

Message == [id : Ids, kind : {"rep_update_index", "other"}]

\* The order of a peer's messages: a message is added at the end, and it is
\* one of the request in hand.
LEMMA StepPeerInOrder ==
  ASSUME IInv, PeerInOrder, IdsApart, IdsApart', [Next]_vars
  PROVE  PeerInOrder'
<1>0. /\ log \in Seq(Request) /\ sent \in Seq(Request)
      /\ Len(sent) \in Nat /\ Len(log) \in Nat /\ Len(sent) <= Len(log)
      /\ received \in [Peers -> Seq(Message)]
  BY InHand DEF IInv, TypeOK, Message
<1>1. ASSUME NEW s \in Submitters, submit_replicated_request(s) PROVE PeerInOrder'
  <2>1. received' = received /\ cur' = cur /\ left' = left /\ sent' = sent
    BY <1>1 DEF submit_replicated_request
  <2>2. CASE Full
    BY <1>1, <2>1, <2>2 DEF submit_replicated_request, PeerInOrder, Reach
  <2>3. CASE ~Full
    <3>1. sub[s].req \in Request /\ log' = Append(log, sub[s].req)
      BY <1>1, <2>3 DEF submit_replicated_request, IInv, SubmitterHasRequest
    <3>2. ASSUME NEW p \in Peers
          PROVE  From(received[p], log', Reach(p)) /\ Follows(received[p], log')
      <4>1. Distinct(log')
        BY DEF IdsApart
      <4>2. Reach(p) \in Nat /\ Reach(p) <= Len(log)
        BY ReachInLog
      <4>3. From(received[p], log, Reach(p)) /\ Follows(received[p], log)
        BY DEF PeerInOrder
      <4> QED BY <1>0, <3>1, <4>1, <4>2, <4>3, LogGrows
    <3> QED BY <2>1, <3>2 DEF PeerInOrder, Reach
  <2> QED BY <2>2, <2>3
<1>2. CASE TakeRequest
  <2>1. received' = received /\ log' = log /\ sent' = sent /\ cur = NoRequest
    BY <1>2 DEF TakeRequest
  <2>2. ASSUME NEW p \in Peers PROVE From(received[p], log, Reach(p)')
    <3>1. Reach(p) = Len(sent) /\ (Reach(p)' = Len(sent) \/ Reach(p)' = Len(sent) + 1)
      BY <2>1 DEF Reach
    <3>2. From(received[p], log, Len(sent))
      BY <3>1 DEF PeerInOrder
    <3>3. From(received[p], log, Len(sent) + 1)
      BY <1>0, <3>2 DEF From
    <3> QED BY <3>1, <3>2, <3>3
  <2> QED BY <2>1, <2>2 DEF PeerInOrder
<1>3. ASSUME NEW p \in Peers, SendTo(p) PROVE PeerInOrder'
  <2>1. /\ cur \in Request /\ cur # NoRequest /\ cur.kind # "private" /\ p \in left
        /\ cur' = cur /\ sent' = sent /\ log' = log /\ left' = left \ {p}
        /\ received' = received \/ received' = [received EXCEPT ![p] = Append(@, Wire(cur))]
    BY <1>3, NoRequestAssumption DEF SendTo, IInv, TypeOK, LeftHasRequest
  <2>2. ASSUME NEW u \in Peers, u # p
        PROVE  From(received'[u], log', Reach(u)') /\ Follows(received'[u], log')
    <3>1. received'[u] = received[u] /\ Reach(u)' = Reach(u)
      BY <1>0, <2>1, <2>2 DEF Reach
    <3> QED BY <2>1, <3>1 DEF PeerInOrder
  <2>3. From(received'[p], log', Reach(p)') /\ Follows(received'[p], log')
    <3>1. Reach(p) = Len(sent) /\ Reach(p)' = Len(sent) + 1
      BY <2>1 DEF Reach
    <3>2. From(received[p], log, Len(sent)) /\ Follows(received[p], log)
      BY <3>1 DEF PeerInOrder
    <3>3. CASE received' = received
      <4>1. From(received[p], log, Len(sent) + 1)
        BY <1>0, <3>2 DEF From
      <4> QED BY <2>1, <3>1, <3>2, <3>3, <4>1
    <3>4. CASE received' = [received EXCEPT ![p] = Append(@, Wire(cur))]
      <4>1. PICK w \in Message : w = Wire(cur) /\ w.id = cur.id
        BY <2>1 DEF Wire, Request, Kinds, Message
      <4>2. received'[p] = Append(received[p], w) /\ received[p] \in Seq(Message)
        BY <1>0, <3>4, <4>1
      <4>3. Len(sent) < Len(log) /\ log[Len(sent) + 1].id = w.id
        BY <2>1, <4>1, InHand
      <4>4. Distinct(log)
        BY DEF IdsApart
      <4>5. /\ From(Append(received[p], w), log, Len(sent) + 1)
            /\ Follows(Append(received[p], w), log)
        BY <1>0, <3>2, <4>2, <4>3, <4>4, MessageLast
      <4> QED BY <2>1, <3>1, <4>2, <4>5
    <3> QED BY <2>1, <3>3, <3>4
  <2> QED BY <2>2, <2>3 DEF PeerInOrder
<1>4. CASE RequestDone
  <2>1. /\ received' = received /\ log' = log /\ sent' = Append(sent, cur) /\ left = {}
        /\ cur # NoRequest /\ cur' = NoRequest /\ cur \in Request
    BY <1>4 DEF RequestDone, IInv, TypeOK
  <2>2. Len(sent') = Len(sent) + 1
    BY <1>0, <2>1, AppendProperties
  <2>3. \A p \in Peers : Reach(p)' = Reach(p)
    BY <2>1, <2>2 DEF Reach
  <2> QED BY <2>1, <2>3 DEF PeerInOrder
<1>5. CASE UNCHANGED <<received, log, sent, cur, left>>
  BY <1>5 DEF PeerInOrder, Reach
<1> QED BY <1>1, <1>2, <1>3, <1>4, <1>5
        DEF Next, FlusherStep, Call, SpuriousWakeup, entry, flush, FlushDone, stop, vars

\* A peer that is no longer left has got the request in hand, or its call failed.
LEMMA StepPeerServed ==
  ASSUME IInv, PeerServed, [Next]_vars
  PROVE  PeerServed'
<1>0. /\ sent \in Seq(Request) /\ received \in [Peers -> Seq(Message)]
      /\ failed \in [Peers -> SUBSET Ids]
  BY DEF IInv, TypeOK, Message
<1>1. CASE TakeRequest
  <2>1. UNCHANGED <<received, failed, sent>> /\ cur' = Head(t)
        /\ left' = IF Head(t).kind = "private" THEN {} ELSE Peers
    BY <1>1 DEF TakeRequest
  <2> QED BY <2>1 DEF PeerServed, Delivered
<1>2. ASSUME NEW p \in Peers, SendTo(p) PROVE PeerServed'
  <2>1. /\ cur \in Request /\ cur # NoRequest
        /\ cur' = cur /\ sent' = sent /\ left' = left \ {p}
        /\ received' = received \/ received' = [received EXCEPT ![p] = Append(@, Wire(cur))]
        /\ failed' = failed \/ failed' = [failed EXCEPT ![p] = @ \cup {cur.id}]
        /\ received' = received => failed' = [failed EXCEPT ![p] = @ \cup {cur.id}]
    <3>1. cur \in Request /\ cur # NoRequest /\ cur.kind # "private"
      BY <1>2 DEF SendTo, IInv, TypeOK, LeftHasRequest
    <3>2. Len(received[p]) \in Nat /\ Len(Append(received[p], Wire(cur))) = Len(received[p]) + 1
      <4>1. Wire(cur) \in Message
        BY <3>1 DEF Wire, Request, Kinds, Message
      <4> QED BY <1>0, <4>1, AppendProperties, LenProperties
    <3>3. received # [received EXCEPT ![p] = Append(@, Wire(cur))]
      BY <1>0, <3>2
    <3> QED BY <1>2, <3>1, <3>3 DEF SendTo
  <2>2. ASSUME NEW u \in Peers, NEW r, Delivered(u, r) PROVE Delivered(u, r)'
    <3>1. CASE u # p
      BY <1>0, <2>1, <2>2, <3>1 DEF Delivered
    <3>2. CASE u = p
      <4>1. SUFFICES ASSUME r.kind # "private", r.id \notin failed'[p]
                     PROVE  \E j \in DOMAIN received'[p] : received'[p][j] = Wire(r)
        BY <3>2 DEF Delivered
      <4>2. r.id \notin failed[p]
        BY <1>0, <2>1, <4>1
      <4>3. PICK j \in DOMAIN received[p] : received[p][j] = Wire(r)
        BY <2>2, <3>2, <4>1, <4>2 DEF Delivered
      <4>4. CASE received' = received
        BY <4>3, <4>4
      <4>5. CASE received' = [received EXCEPT ![p] = Append(@, Wire(cur))]
        <5>1. received[p] \in Seq(Message) /\ Wire(cur) \in Message \cup {Wire(cur)}
          BY <1>0
        <5>2. received'[p] = Append(received[p], Wire(cur))
          BY <1>0, <4>5
        <5>3. j \in 1 .. Len(received[p]) /\ Len(received[p]) \in Nat
          BY <5>1, <4>3, LenProperties
        <5>4. received[p] \in Seq(Message \cup {Wire(cur)})
          BY <5>1
        <5>5. /\ received'[p] \in Seq(Message \cup {Wire(cur)})
              /\ Len(received'[p]) = Len(received[p]) + 1
              /\ received'[p][j] = received[p][j]
          BY <5>1, <5>2, <5>3, <5>4, AppendProperties
        <5>6. j \in DOMAIN received'[p]
          BY <5>3, <5>5, LenProperties
        <5> QED BY <4>3, <5>5, <5>6
      <4> QED BY <2>1, <4>4, <4>5
    <3> QED BY <3>1, <3>2
  <2>3. Delivered(p, cur)'
    <3>1. CASE received' = received
      <4>1. cur.id \in failed'[p]
        BY <1>0, <2>1, <3>1
      <4> QED BY <2>1, <4>1 DEF Delivered
    <3>2. CASE received' = [received EXCEPT ![p] = Append(@, Wire(cur))]
      <4>1. received'[p] = Append(received[p], Wire(cur))
        BY <1>0, <3>2
      <4>2. received[p] \in Seq(Message \cup {Wire(cur)})
        BY <1>0
      <4>3. Wire(cur) \in Message \cup {Wire(cur)}
        OBVIOUS
      <4>4. /\ Len(received[p]) \in Nat /\ Len(received'[p]) = Len(received[p]) + 1
            /\ received'[p] \in Seq(Message \cup {Wire(cur)})
            /\ received'[p][Len(received[p]) + 1] = Wire(cur)
        BY <4>1, <4>2, <4>3, AppendProperties, LenProperties
      <4>5. Len(received[p]) + 1 \in DOMAIN received'[p]
        BY <4>4, LenProperties
      <4> QED BY <2>1, <4>4, <4>5 DEF Delivered
    <3> QED BY <2>1, <3>1, <3>2
  <2>4. ASSUME NEW u \in Peers
        PROVE  /\ \A i \in DOMAIN sent : Delivered(u, sent[i])'
               /\ u \notin left' => Delivered(u, cur)'
    <3>1. ASSUME NEW i \in DOMAIN sent PROVE Delivered(u, sent[i])'
      <4>1. PICK r : r = sent[i] /\ r = sent'[i]
        BY <2>1
      <4>2. Delivered(u, r)
        BY <4>1 DEF PeerServed
      <4>3. Delivered(u, r)'
        BY <2>2, <4>2
      <4> QED BY <4>1, <4>3
    <3>2. ASSUME u \notin left' PROVE Delivered(u, cur)'
      <4>1. CASE u = p
        BY <2>3, <4>1
      <4>2. CASE u # p
        <5>1. PICK r : r = cur /\ r = cur'
          BY <2>1
        <5>2. Delivered(u, r)
          BY <2>1, <3>2, <4>2, <5>1 DEF PeerServed
        <5>3. Delivered(u, r)'
          BY <2>2, <5>2
        <5> QED BY <5>1, <5>3
      <4> QED BY <4>1, <4>2
    <3> QED BY <3>1, <3>2
  <2> QED BY <2>1, <2>4 DEF PeerServed
<1>3. CASE RequestDone
  <2>1. /\ UNCHANGED <<received, failed>> /\ sent' = Append(sent, cur) /\ left = {}
        /\ cur # NoRequest /\ cur' = NoRequest /\ cur \in Request
    BY <1>3 DEF RequestDone, IInv, TypeOK
  <2>2. /\ DOMAIN sent = 1 .. Len(sent) /\ Len(sent) \in Nat
        /\ DOMAIN sent' = 1 .. Len(sent) + 1
        /\ \A i \in 1 .. Len(sent) : sent'[i] = sent[i]
        /\ sent'[Len(sent) + 1] = cur
    BY <1>0, <2>1, AppendProperties, LenProperties
  <2>3. ASSUME NEW p \in Peers, NEW i \in DOMAIN sent' PROVE Delivered(p, sent'[i])
    <3>1. CASE i \in 1 .. Len(sent)
      BY <2>2, <3>1 DEF PeerServed
    <3>2. CASE i = Len(sent) + 1
      BY <2>1, <2>2, <3>2 DEF PeerServed
    <3> QED BY <2>2, <3>1, <3>2
  <2> QED BY <2>1, <2>3 DEF PeerServed, Delivered
<1>4. CASE UNCHANGED <<received, failed, sent, cur, left>>
  BY <1>4 DEF PeerServed, Delivered
<1> QED BY <1>1, <1>2, <1>3, <1>4
        DEF Next, FlusherStep, Call, submit_replicated_request, SpuriousWakeup, entry, flush,
            FlushDone, stop, vars

LEMMA InitPeerInv == Init => PeerInv
<1> SUFFICES ASSUME Init PROVE PeerInv
  OBVIOUS
<1>1. DOMAIN <<>> = {}
  OBVIOUS
<1>2. log = <<>> /\ sent = <<>> /\ cur = NoRequest
      /\ (\A p \in Peers : received[p] = <<>>) /\ (\A s \in Submitters : sub[s].pc = "idle")
  BY DEF Init, Away
<1>3. IdsApart
  BY <1>1, <1>2 DEF IdsApart, Distinct
<1>4. PeerInOrder
  BY <1>1, <1>2 DEF PeerInOrder, From, Follows
<1>5. PeerServed
  BY <1>1, <1>2 DEF PeerServed
<1> QED BY <1>3, <1>4, <1>5 DEF PeerInv

LEMMA StepPeerInv == IInv /\ PeerInv /\ [Next]_vars => PeerInv'
<1> SUFFICES ASSUME IInv, PeerInv, [Next]_vars PROVE PeerInv'
  OBVIOUS
<1>1. IdsApart /\ PeerInOrder /\ PeerServed
  BY DEF PeerInv
<1>2. IdsApart'
  BY <1>1, StepIdsApart
<1>3. PeerInOrder'
  BY <1>1, <1>2, StepPeerInOrder
<1>4. PeerServed'
  BY <1>1, StepPeerServed
<1> QED BY <1>2, <1>3, <1>4 DEF PeerInv

\* A message's place in the log is the Position of its identity.
LEMMA PeerInvSees ==
  ASSUME IInv, PeerInv
  PROVE  PeerSees
<1>1. SUFFICES ASSUME NEW p \in Peers, NEW i \in DOMAIN received[p],
                      NEW j \in DOMAIN received[p], i < j
               PROVE  Position(received[p][i].id) < Position(received[p][j].id)
  BY DEF PeerSees, PeerInv, PeerServed, Delivered
<1>2. From(received[p], log, Reach(p)) /\ Follows(received[p], log)
  BY DEF PeerInv, PeerInOrder
<1>3. DOMAIN log = 1 .. Len(log) /\ Reach(p) \in Nat /\ Reach(p) <= Len(log) /\ Len(log) \in Nat
  BY ReachInLog, InHand, LenProperties
<1>4. \E m \in DOMAIN log : log[m].id = received[p][i].id
  BY <1>2, <1>3 DEF From
<1>5. \E n \in DOMAIN log : log[n].id = received[p][j].id
  BY <1>2, <1>3 DEF From
<1>6. /\ Position(received[p][i].id) \in DOMAIN log
      /\ log[Position(received[p][i].id)].id = received[p][i].id
  BY <1>4 DEF Position
<1>7. /\ Position(received[p][j].id) \in DOMAIN log
      /\ log[Position(received[p][j].id)].id = received[p][j].id
  BY <1>5 DEF Position
<1> QED BY <1>1, <1>2, <1>6, <1>7 DEF Follows

\* Every peer sees the requests in the order of their submission, none twice,
\* and all of them but the private ones and those whose call failed; also when
\* a call of SendTo failed after it had reached the peer, for any number of
\* submitting threads, peers and requests.
THEOREM PeersAlwaysSee == Spec => []PeerSees
<1>1. Spec => [](IInv /\ PeerInv)
  BY InitIInv, StepIInv, InitPeerInv, StepPeerInv, PTL DEF Spec
<1>2. IInv /\ PeerInv => PeerSees
  BY PeerInvSees
<1> QED BY <1>1, <1>2, PTL

=============================================================================
