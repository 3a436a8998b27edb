--------------------------- MODULE ReplicaChannel ---------------------------
(***************************************************************************)
(* What the replication queue of an I/O proxy promises its users: a        *)
(* bounded first-in-first-out channel.  Requests leave in the order in     *)
(* which they were accepted, each exactly once, and a bounded number of    *)
(* them is outstanding.                                                    *)
(***************************************************************************)
EXTENDS Integers, Sequences

CONSTANTS Message, Capacity

VARIABLES queue,   \* accepted and not yet passed on
          out      \* everything passed on, in order

chanVars == <<queue, out>>

ChanInit == queue = <<>> /\ out = <<>>

Accept(m) ==
  /\ Len(queue) < Capacity
  /\ queue' = Append(queue, m)
  /\ UNCHANGED out

PassOn ==
  /\ queue # <<>>
  /\ out' = Append(out, Head(queue))
  /\ queue' = Tail(queue)

ChanNext == PassOn \/ \E m \in Message : Accept(m)

ChanSpec == ChanInit /\ [][ChanNext]_chanVars

=============================================================================
