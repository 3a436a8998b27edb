------------------------------ MODULE WriteQueue ------------------------------
(***************************************************************************)
(* The write-back queue of the client: ClientBufferQueue (client/queue.cc) *)
(* and its workers (client/client_worker.cc).  A write in asynchronous     *)
(* mode returns when its buffer is queued; the dispatcher's thread hands   *)
(* the buffers to idle workers, which submit them without waiting for each *)
(* other.  Sizes are in sectors.                                           *)
(***************************************************************************)
EXTENDS FuseOps, SequencesExt

CONSTANTS
    Workers,   \* m_max_worker
    MaxBuf,    \* m_max_buf: a writer waits while more than this is queued
    MaxMerge,  \* MAX_MERGE_SIZE
    Channels   \* multi_channel

(* A sector is smaller than the largest merged buffer, 2^20 bytes.         *)
ASSUME QueueAssumption == {Workers, MaxBuf, MaxMerge, Channels} \subseteq Nat \ {0} /\ MaxMerge > 1

VARIABLES
    line,      \* buf_waiting_line
    batch,     \* what the dispatcher has taken from the line and not handed out
    onlink,    \* the buffers that the busy workers have submitted
    inqueue,   \* buf_inqueue
    loads      \* channel_loads

qvars == <<line, batch, onlink, inqueue, loads>>

QueueInit ==
    /\ line = <<>>
    /\ batch = <<>>
    /\ onlink = {}
    /\ inqueue = 0
    /\ loads = [c \in 1 .. Channels |-> 0]

Queued == ToSet(line) \cup ToSet(batch) \cup onlink

-----------------------------------------------------------------------------
(* Mutant: a buffer merges with the last one wherever it starts. *)
mergeable_any(b) ==
    /\ line # <<>>
    /\ Last(line).p = b.p
    /\ Len(Last(line).vals) + Len(b.vals) < MaxMerge

(* The buffer follows the last one of the line, in the same file. *)
Mergeable(b) ==
    /\ line # <<>>
    /\ Last(line).p = b.p
    /\ Len(Last(line).vals) + Len(b.vals) < MaxMerge
    /\ Last(line).s + Len(Last(line).vals) = b.s

Merge(b) ==
    /\ Mergeable(b)
    /\ line' = [line EXCEPT ![Len(line)].vals = @ \o b.vals, ![Len(line)].id = b.id]
    /\ inqueue' = inqueue + Len(b.vals)
    /\ UNCHANGED <<batch, onlink, loads>>

(* Mutant: the limit counts only what is not yet taken by the dispatcher. *)
roomy_line == Len(line) <= MaxBuf

(* The condition that a writer waits for on m_cond_ioproxy, which is       *)
(* broadcast at every change of buf_inqueue.                               *)
Roomy == inqueue <= MaxBuf

Push(b) ==
    /\ Roomy
    /\ line' = Append(line, b)
    /\ inqueue' = inqueue + Len(b.vals)
    /\ UNCHANGED <<batch, onlink, loads>>

(* _dispatch: the dispatcher takes the whole line. *)
Dispatch ==
    /\ batch = <<>> /\ line # <<>>
    /\ batch' = line
    /\ line' = <<>>
    /\ UNCHANGED <<onlink, inqueue, loads>>

(* get_spare_channel: the first of the least loaded channels. *)
SpareChannel ==
    CHOOSE c \in 1 .. Channels :
        \A d \in 1 .. Channels : loads[c] < loads[d] \/ (loads[c] = loads[d] /\ c <= d)

(* _dispatch_unsafe and Processing: the next buffer goes to an idle worker, *)
(* which submits it.                                                        *)
Assign(b) ==
    /\ batch # <<>> /\ Cardinality(onlink) < Workers
    /\ b = Head(batch)
    /\ batch' = Tail(batch)
    /\ onlink' = onlink \cup {b}
    /\ loads' = [loads EXCEPT ![SpareChannel] = @ + 1]
    /\ UNCHANGED <<line, inqueue>>

(* BufferComplete: whether the write succeeded is not looked at, and the   *)
(* load is always taken from the first channel.                            *)
Complete(b) ==
    /\ b \in onlink
    /\ onlink' = onlink \ {b}
    /\ inqueue' = inqueue - Len(b.vals)
    /\ loads' = [loads EXCEPT ![1] = @ - 1]
    /\ UNCHANGED <<line, batch>>

-----------------------------------------------------------------------------
(* buf_inqueue is what the line, the dispatcher and the workers hold, and  *)
(* it passes the limit by less than one merged buffer, however many        *)
(* writers wait and merge at once.                                         *)
QueueBound ==
    /\ inqueue = Cardinality(UNION {{b} \X DOMAIN b.vals : b \in Queued})
    /\ inqueue < MaxBuf + MaxMerge
=============================================================================
