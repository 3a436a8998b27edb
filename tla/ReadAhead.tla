------------------------------ MODULE ReadAhead ------------------------------
(***************************************************************************)
(* The read-ahead of the client: ClientReadAhead (client/readahead.cc).    *)
(* Two areas take turns in holding the next sectors of one file.  Sectors  *)
(* are fetched asynchronously; the callbacks of the answers run one after  *)
(* another on the completion thread of the fetching channel and take the   *)
(* lock of an area twice, with a copy in between.                          *)
(***************************************************************************)
EXTENDS FuseOps, SequencesExt

CONSTANTS
    MaxOnlink,     \* max_onlink
    Width,         \* onlink is a counter modulo Width (2^64 in the code)
    HitThreshold   \* hit_threshold

NoPath == ""   \* the name of a cleared area

ASSUME AheadAssumption ==
    /\ {MaxOnlink, Width, HitThreshold} \subseteq Nat \ {0} /\ MaxOnlink < Width
    /\ NoPath \notin Paths

VARIABLES
    area,      \* bufs
    seen,      \* last_req_filename and last_req_hit_ct
    fetches,   \* sectors asked for, not answered yet
    answers,   \* answers in the completion queue
    cb         \* the callback that runs, after its first lock

avars == <<area, seen, fetches, answers, cb>>

Areas == 0 .. 1
NoCb == [n |-> 0]

(* gen counts how often the area was cleared (for the properties). *)
Clean(epoch, gen) ==
    [file |-> NoPath, bg |-> 0, max |-> 0, cur |-> 0, cursor |-> 0, onlink |-> 0,
     wanted |-> {}, have |-> <<>>, epoch |-> epoch, gen |-> gen]

AheadInit ==
    /\ area = [i \in Areas |-> Clean(0, 0)]
    /\ seen = [file |-> NoPath, ct |-> 0]
    /\ fetches = {}
    /\ answers = <<>>
    /\ cb = NoCb

End(a) == a.bg + a.max

(* lookup of BufArea *)
Lookup(i, p, s) ==
    IF p # area[i].file \/ s \notin area[i].bg .. End(area[i]) - 1 THEN "NOT_FOUND"
    ELSE IF s \in DOMAIN area[i].have THEN "IN_BUFFER" ELSE "ON_LINK"

-----------------------------------------------------------------------------
(* Fetching *)

(* fetch_sector_remote: the sectors that are asked for now, and the area   *)
(* after that; wanted is ft_res_tab.                                       *)
Asked(a) ==
    {a.cur + n : n \in {k \in 0 .. MaxOnlink : a.onlink + k < MaxOnlink /\ a.cur + k < End(a)}}

Asking(a) ==
    [a EXCEPT !.cur = @ + Cardinality(Asked(a)),
              !.onlink = @ + Cardinality(Asked(a)),
              !.wanted = @ \cup Asked(a)]

(* raced: the file is in dirty, that is, a change of it is under way when  *)
(* the sector is asked for (for the properties).                           *)
Fetches(i, a, dirty) ==
    {[buf |-> i, sec |-> s, file |-> a.file, epoch |-> a.epoch, gen |-> a.gen,
      raced |-> a.file \in dirty] : s \in Asked(a)}

(* The area has neither been cleared nor been given a task of another      *)
(* epoch since w was asked for.                                            *)
Timely(w) == w.gen = area[w.buf].gen /\ w.epoch = area[w.buf].epoch

(* set_task is refused for an older epoch, for a sector that the area      *)
(* already covers, and while the area's last sector has not been read; the *)
(* last of these moves the cursor on for a newer epoch.                    *)
Covered(i, p, s) == p = area[i].file /\ s \in area[i].bg .. End(area[i]) - 1
Unread(i, p) == p = area[i].file /\ area[i].cursor + 1 < End(area[i])
Refused(i, p, s, epoch) == epoch < area[i].epoch \/ Covered(i, p, s) \/ Unread(i, p)

NewTask(p, s, max, epoch, gen) ==
    [Clean(epoch, gen) EXCEPT !.file = p, !.bg = s, !.max = max, !.cur = s, !.cursor = s]

SetTask(i, p, s, max, epoch, dirty) ==
    LET a == NewTask(p, s, max, epoch, area[i].gen)
        nudged == ~Covered(i, p, s) /\ Unread(i, p) /\ epoch > area[i].epoch
    IN  IF Refused(i, p, s, epoch)
        THEN /\ area' = [area EXCEPT ![i].cursor = IF nudged THEN @ + 1 ELSE @]
             /\ UNCHANGED fetches
        ELSE /\ area' = [area EXCEPT ![i] = Asking(a)]
             /\ fetches' = fetches \cup Fetches(i, a, dirty)

-----------------------------------------------------------------------------
(* The callback of an answer [w, val]; a failed call has no reply. *)

NoReply == -3

(* The answer comes; the completion thread has not looked at it yet. *)
Answer(w, val) ==
    /\ w \in fetches
    /\ fetches' = fetches \ {w}
    /\ answers' = Append(answers, [n |-> 2, w |-> w, val |-> val])
    /\ UNCHANGED <<area, seen, cb>>

(* The first lock: an answer of another epoch, or one whose future is      *)
(* gone, is dropped; the latter after onlink was decremented.              *)
Callback ==
    /\ cb = NoCb /\ answers # <<>>
    /\ LET c == Head(answers)
           w == c.w
           a == area[w.buf]
       IN  IF a.epoch # w.epoch THEN UNCHANGED <<area, cb>>
           ELSE /\ area' = [area EXCEPT ![w.buf].onlink = (@ + Width - 1) % Width,
                                        ![w.buf].wanted = @ \ {w.sec}]
                /\ cb' = IF w.sec \in a.wanted THEN c ELSE NoCb
    /\ answers' = Tail(answers)
    /\ UNCHANGED <<seen, fetches>>

(* The copy and the second lock; the epoch is not looked at again.  The    *)
(* callback goes on if it has got data.                                    *)
Store ==
    LET w == cb.w IN
    /\ cb # NoCb /\ cb.n = 2 /\ cb.val # NoReply
    /\ area' = IF cb.val = Err THEN area
               ELSE [area EXCEPT ![w.buf].have =
                       [s \in DOMAIN @ \cup {w.sec} |-> IF s = w.sec THEN cb.val ELSE @[s]]]
    /\ cb' = IF cb.val \in {Err, Eof} THEN NoCb ELSE [cb EXCEPT !.n = 3]
    /\ UNCHANGED <<seen, fetches, answers>>

(* The next sectors: of this area or, when all of its sectors have been    *)
(* asked for, of the other one.                                            *)
Chain(dirty) ==
    LET i == cb.w.buf
        j == 1 - i
        ask(k) == /\ area' = [area EXCEPT ![k] = Asking(area[k])]
                  /\ fetches' = fetches \cup Fetches(k, area[k], dirty)
    IN
    /\ cb # NoCb /\ cb.n = 3
    /\ CASE area[i].onlink >= MaxOnlink -> UNCHANGED <<area, fetches>>
         [] area[i].onlink < MaxOnlink /\ area[i].cur < End(area[i]) -> ask(i)
         [] OTHER ->
              IF cb.w.epoch >= area[j].epoch
              THEN SetTask(j, cb.w.file, area[i].cur, area[i].max, cb.w.epoch, dirty)
              ELSE ask(j)
    /\ cb' = NoCb
    /\ UNCHANGED <<seen, answers>>

-----------------------------------------------------------------------------
(* What the FUSE threads do with the areas *)

(* clear_buf: both areas get the epoch that the first one had, which is    *)
(* the epoch of the sectors that are on their way.                         *)
ClearArea(i, epoch) ==
    /\ area' = [area EXCEPT ![i] = Clean(epoch, @.gen + 1)]
    /\ UNCHANGED <<seen, fetches, answers, cb>>

(* status: what is done with a read of sector s of p.  A sector that       *)
(* neither area covers makes fetch_cache run off its end without a value.  *)
Hit(p, s) == {i \in Areas : Lookup(i, p, s) # "NOT_FOUND"}
FirstHit(p, s) == IF 0 \in Hit(p, s) THEN 0 ELSE 1

Status(p, s) ==
    IF p = area[0].file
    THEN IF Hit(p, s) = {} THEN {"MAY_SEQ_READ", "NOT_FOUND", "IN_BUFFER"}
         ELSE {Lookup(FirstHit(p, s), p, s)}
    ELSE IF seen.file # p \/ seen.ct < HitThreshold THEN {"UNLIKE_SEQ_READ"}
    ELSE {"MAY_SEQ_READ"}

Seen(p) ==
    IF p = area[0].file THEN seen
    ELSE IF seen.file # p THEN [file |-> p, ct |-> 1]
    ELSE IF seen.ct < HitThreshold THEN [seen EXCEPT !.ct = @ + 1]
    ELSE seen

(* The cursor after sector s of area i was read. *)
Passed(i, s) == [area EXCEPT ![i].cursor = IF s > @ THEN s ELSE @]
=============================================================================
