------------------------- MODULE ReplicationProofs -------------------------
(***************************************************************************)
(* Proofs about Replication: clients that take turns and read whole pages  *)
(* read what was written last, and at rest every page a center holds is    *)
(* the newest one.                                                         *)
(*                                                                         *)
(* Between the system call of a write or truncate and the delivery of the  *)
(* last index update the copies disagree.  The invariant speaks of the     *)
(* copies that will be there when every update has been executed: those    *)
(* are in agreement at all times (Settled).  What an operation needs of    *)
(* its own copy is either there or in a range it has still to synchronise  *)
(* (Prepared), and what it still looks for is with a peer it has not asked *)
(* yet or in the answer in its hands (Fetching).                           *)
(*                                                                         *)
(* The last part is about clients that act at any time: the copies keep    *)
(* their types, and read as zeros where nothing was written.               *)
(***************************************************************************)
EXTENDS Replication, SequenceTheorems, WellFoundedInduction, TLAPS

Copies == [size : Nat, alloc : SUBSET Pages, val : [Units -> Nat]]
Contents == [size : Nat, val : [Units -> Nat]]
Requests == [type : {"rep_update_index", "truncate"}, lo : Nat, hi : Nat]
Replies == UNION {[D -> Nat] : D \in SUBSET Units}
Operations ==
  [pc : OpStates, type : {"read", "write", "truncate"}, c : Centers, lo : Nat, hi : Nat,
   syncs : Seq(Nat \X Nat), peers : SUBSET Centers, reply : Replies]

Typed ==
  /\ file \in [Centers -> Copies]
  /\ queue \in [Centers -> Seq(Requests)]
  /\ told \in [Centers -> SUBSET Centers]
  /\ op \in [Workers -> Operations]
  /\ truth \in Contents
  /\ ops \in Nat

\* One operation at a time, and none while an update is under way.
Busy(w) == op[w].pc \notin {"idle", "done"}

Turns ==
  /\ \A v, w \in Workers : Busy(v) /\ Busy(w) => v = w
  /\ \A c \in Centers : queue[c] # <<>> =>
       /\ \A w \in Workers : ~Busy(w)
       /\ Len(queue[c]) = 1
       /\ \A d \in Centers : d # c => queue[d] = <<>>
  /\ \A c \in Centers : queue[c] = <<>> => told[c] = {}

\* The copies e agree with the content t.
Agrees(f, t) ==
  /\ f.size = t.size
  /\ \A u \in Units : f.val[u] = IF Page(u) \in f.alloc THEN t.val[u] ELSE 0

Current(e, t) ==
  /\ e \in [Centers -> Copies]
  /\ \A d \in Centers : Agrees(e[d], t)
  /\ \A u \in Units : t.val[u] # 0 => u < t.size /\ \E d \in Centers : Page(u) \in e[d].alloc

\* The copies e once the update r of center c has reached every peer; those in
\* T have executed it.
After(e, c, T, r) ==
  [d \in Centers |-> IF d \in T \cup {c} THEN e[d] ELSE Executed(e[d], r)]

UpdateOf(o) == [type |-> IF o.type = "write" THEN "rep_update_index" ELSE o.type,
                lo |-> o.lo, hi |-> o.hi]

Settled ==
  /\ (\A c \in Centers : queue[c] = <<>>) /\ (\A w \in Workers : op[w].pc # "submit") =>
       Current(file, truth)
  /\ \A w \in Workers : op[w].pc = "submit" =>
       Current(After(file, op[w].c, {}, UpdateOf(op[w])), truth)
  /\ \A c \in Centers : queue[c] # <<>> =>
       Current(After(file, c, told[c], Head(queue[c])), truth)

\* Reading unit u of copy f gives what the file t contains.
Ready(f, t, u) == Page(u) \in f.alloc \/ t.val[u] = 0

\* The units of its copy that an operation relies on: those it reads, and what
\* it leaves of the pages it writes.
Wanted(o) ==
  {u \in Units : \/ o.type = "read" /\ u \in Span(o.lo, o.hi)
                 \/ /\ o.type = "write"
                    /\ Page(u) \in PunchPages(o.lo, o.hi) /\ u \notin Span(o.lo, o.hi)}

Covers(s, u) == \E i \in 1 .. Len(s) : u \in Span(s[i][1], s[i][2])

Aligned(s) == \A i \in 1 .. Len(s) : s[i][1] % PageSize = 0 /\ s[i][2] % PageSize = 0

PreparedAt(o, e, t) ==
  o.pc \in {"sync", "fetch", "fill", "do"} =>
    /\ o.type = "write" => o.lo < o.hi /\ o.hi \in Sizes
    /\ Aligned(o.syncs)
    /\ o.pc = "do" <=> o.syncs = <<>>
    /\ \A u \in Wanted(o) : Ready(e[o.c], t, u) \/ Covers(o.syncs, u)

Prepared == \A w \in Workers : PreparedAt(op[w], file, truth)

\* An answer holds the newest data, and whole pages up to the end of file.
Genuine(reply, t) ==
  /\ \A u \in DOMAIN reply : u < t.size /\ reply[u] = t.val[u]
  /\ \A u \in DOMAIN reply, v \in Units : Page(v) = Page(u) /\ v < t.size => v \in DOMAIN reply

Sought(o, e, t, u) == \/ Ready(e[o.c], t, u)
                      \/ u \in DOMAIN o.reply
                      \/ \E p \in o.peers : Page(u) \in e[p].alloc

FetchingAt(o, e, t) ==
  /\ o.pc \in {"sync", "fetch"} => o.reply = NoData
  /\ o.pc \in {"fetch", "fill"} =>
       /\ o.c \notin o.peers
       /\ Genuine(o.reply, t)
       /\ \A u \in Span(Head(o.syncs)[1], Head(o.syncs)[2]) : Sought(o, e, t, u)

Fetching == \A w \in Workers : FetchingAt(op[w], file, truth)

\* Only writes and truncates are passed on to the peers.
Posted == \A w \in Workers : op[w].pc = "submit" => op[w].type # "read"

ReplicaInv == Typed /\ Turns /\ Settled /\ Prepared /\ Fetching /\ Posted

-----------------------------------------------------------------------------
(***************************************************************************)
(* Pages.                                                                  *)
(***************************************************************************)
LEMMA PageBounds ==
  ASSUME NEW u \in Nat
  PROVE  /\ Page(u) \in Nat
         /\ Page(u) * PageSize <= u
         /\ u < (Page(u) + 1) * PageSize
BY PageAssumption DEF Page

LEMMA PageUnique ==
  ASSUME NEW u \in Nat, NEW p \in Nat, p * PageSize <= u, u < (p + 1) * PageSize
  PROVE  Page(u) = p
BY PageAssumption DEF Page

LEMMA UnitPage ==
  ASSUME NEW u \in Units
  PROVE  u \in Nat /\ Page(u) \in Pages
<1>1. u \in Nat /\ u < PageSize * NPages
  BY PageAssumption DEF Units
<1>2. Page(u) \in Nat /\ Page(u) * PageSize <= u
  BY <1>1, PageBounds
<1>3. Page(u) < NPages
  BY <1>1, <1>2, PageAssumption
<1> QED BY <1>1, <1>2, <1>3, PageAssumption DEF Pages

LEMMA Multiple ==
  ASSUME NEW a \in Nat, a % PageSize = 0
  PROVE  \E q \in Nat : a = q * PageSize
<1>1. a = (a \div PageSize) * PageSize
  BY PageAssumption
<1>2. a \div PageSize \in Nat
  BY PageAssumption
<1> QED BY <1>1, <1>2

LEMMA WholePages ==
  ASSUME NEW a \in Nat, a % PageSize = 0, NEW u \in Nat, NEW v \in Nat, Page(u) = Page(v),
         a <= u
  PROVE  a <= v
<1>1. PICK q \in Nat : a = q * PageSize
  BY Multiple
<1>2. PICK p \in Nat : p = Page(u)
  BY PageBounds
<1>3. u < (p + 1) * PageSize /\ p * PageSize <= v
  BY <1>2, PageBounds
<1>4. q < p + 1
  BY <1>1, <1>3, PageAssumption
<1> QED BY <1>1, <1>3, <1>4, PageAssumption

LEMMA MultipleOfPage ==
  ASSUME NEW p \in Nat
  PROVE  (p * PageSize) % PageSize = 0
BY PageAssumption

LEMMA RoundUp ==
  ASSUME NEW h \in Nat, NEW p \in Nat
  PROVE  p < (h + PageSize - 1) \div PageSize <=> p * PageSize < h
BY PageAssumption

LEMMA RoundDown ==
  ASSUME NEW l \in Nat, NEW p \in Nat
  PROVE  l \div PageSize <= p <=> l < (p + 1) * PageSize
BY PageAssumption

\* The pages an index update punches are the pages the write has touched.
LEMMA Touched ==
  ASSUME NEW lo \in Nat, NEW hi \in Sizes, lo < hi, NEW p \in Pages
  PROVE  p \in PunchPages(lo, hi) <=> \E u \in Span(lo, hi) : Page(u) = p
<1>0. p \in Nat /\ hi \in Nat /\ hi <= PageSize * NPages
  BY PageAssumption DEF Pages, Sizes
<1>1. p \in PunchPages(lo, hi) <=> lo < (p + 1) * PageSize /\ p * PageSize < hi
  BY <1>0, RoundUp, RoundDown DEF PunchPages
<1>2. ASSUME lo < (p + 1) * PageSize, p * PageSize < hi
      PROVE  \E u \in Span(lo, hi) : Page(u) = p
  <2>1. p * PageSize \in Nat /\ p * PageSize < (p + 1) * PageSize
    BY <1>0, PageAssumption
  <2>2. PICK u \in Nat : /\ lo <= u /\ p * PageSize <= u
                         /\ u < hi /\ u < (p + 1) * PageSize
    <3>1. CASE lo <= p * PageSize
      BY <1>2, <2>1, <3>1
    <3>2. CASE ~(lo <= p * PageSize)
      BY <1>2, <2>1, <3>2
    <3> QED BY <3>1, <3>2
  <2>3. Page(u) = p
    BY <2>2, <1>0, PageUnique
  <2>4. u \in Span(lo, hi)
    BY <2>2, <1>0, PageAssumption DEF Span, Units
  <2> QED BY <2>3, <2>4
<1>3. ASSUME NEW u \in Span(lo, hi), Page(u) = p
      PROVE  lo < (p + 1) * PageSize /\ p * PageSize < hi
  <2>1. u \in Nat /\ lo <= u /\ u < hi
    BY UnitPage DEF Span
  <2>2. p * PageSize <= u /\ u < (p + 1) * PageSize
    BY <2>1, <1>3, PageBounds
  <2>3. p * PageSize \in Nat /\ (p + 1) * PageSize \in Nat
    BY <1>0, PageAssumption
  <2> QED BY <2>1, <2>2, <2>3, <1>0
<1> QED BY <1>1, <1>2, <1>3

\* What a write leaves of the pages it touches lies in the ranges that
\* sync_unalign_page has had synchronised.
LEMMA PageRangeAligned ==
  ASSUME NEW p \in Nat
  PROVE  /\ PageRange(p) \in Nat \X Nat
         /\ PageRange(p)[1] % PageSize = 0 /\ PageRange(p)[2] % PageSize = 0
         /\ \A u \in Units : Page(u) = p => u \in Span(PageRange(p)[1], PageRange(p)[2])
<1> DEFINE lo == p * PageSize
           hi == (p + 1) * PageSize
<1>1. lo \in Nat /\ hi \in Nat
  BY PageAssumption
<1>2. lo % PageSize = 0 /\ hi % PageSize = 0
  BY MultipleOfPage
<1>3. ASSUME NEW u \in Units, Page(u) = p
      PROVE  u \in Span(lo, hi)
  <2>1. u \in Nat
    BY UnitPage
  <2> QED BY <2>1, <1>3, PageBounds DEF Span
<1>4. PageRange(p) = <<lo, hi>>
  BY DEF PageRange
<1> HIDE DEF lo, hi
<1> QED BY <1>1, <1>2, <1>3, <1>4

LEMMA PartialPages ==
  ASSUME NEW lo \in Nat, NEW hi \in Sizes, lo < hi
  PROVE  /\ sync_unalign_page(lo, hi) \in Seq(Nat \X Nat)
         /\ Aligned(sync_unalign_page(lo, hi))
         /\ \A u \in Units : Page(u) \in PunchPages(lo, hi) /\ u \notin Span(lo, hi) =>
              Covers(sync_unalign_page(lo, hi), u)
<1>0. hi \in Nat /\ lo \div PageSize \in Nat /\ hi \div PageSize \in Nat
  BY PageAssumption DEF Sizes
<1> DEFINE a == PageRange(lo \div PageSize)
           b == PageRange(hi \div PageSize)
           s == sync_unalign_page(lo, hi)
<1>1. /\ a \in Nat \X Nat /\ a[1] % PageSize = 0 /\ a[2] % PageSize = 0
      /\ \A u \in Units : Page(u) = lo \div PageSize => u \in Span(a[1], a[2])
  BY <1>0, PageRangeAligned
<1>2. /\ b \in Nat \X Nat /\ b[1] % PageSize = 0 /\ b[2] % PageSize = 0
      /\ \A u \in Units : Page(u) = hi \div PageSize => u \in Span(b[1], b[2])
  BY <1>0, PageRangeAligned
<1>3. s = (IF lo % PageSize # 0 THEN <<a>> ELSE <<>>) \o (IF hi % PageSize # 0 THEN <<b>> ELSE <<>>)
  BY DEF sync_unalign_page
<1> HIDE DEF a, b, s
<1>4. /\ s \in Seq(Nat \X Nat)
      /\ \A i \in 1 .. Len(s) : s[i] = a \/ s[i] = b
      /\ lo % PageSize # 0 => Len(s) >= 1 /\ s[1] = a
      /\ hi % PageSize # 0 => Len(s) >= 1 /\ s[Len(s)] = b
  BY <1>1, <1>2, <1>3
<1>5. Aligned(s)
  BY <1>1, <1>2, <1>4 DEF Aligned
<1>6. ASSUME NEW u \in Units, Page(u) \in PunchPages(lo, hi), u \notin Span(lo, hi)
      PROVE  Covers(s, u)
  <2>1. u \in Nat /\ Page(u) \in Nat /\ Page(u) * PageSize <= u /\ u < (Page(u) + 1) * PageSize
    BY UnitPage, PageBounds
  <2>2. lo < (Page(u) + 1) * PageSize /\ Page(u) * PageSize < hi
    BY <1>6, <2>1, <1>0, RoundUp, RoundDown DEF PunchPages
  <2>3. CASE u < lo
    <3>1. Page(u) = lo \div PageSize
      BY <2>1, <2>2, <2>3, PageUnique, PageAssumption DEF Page
    <3>2. lo % PageSize # 0
      <4>1. SUFFICES ASSUME lo % PageSize = 0 PROVE FALSE
        OBVIOUS
      <4>2. PICK q \in Nat : lo = q * PageSize
        BY <4>1, Multiple
      <4>3. PICK p \in Nat : p = Page(u)
        BY <2>1
      <4>4. p * PageSize < q * PageSize /\ q * PageSize < (p + 1) * PageSize
        BY <2>1, <2>2, <2>3, <4>2, <4>3, PageAssumption
      <4> QED BY <4>4, PageAssumption
    <3> QED BY <3>1, <3>2, <1>1, <1>4 DEF Covers
  <2>4. CASE hi <= u
    <3>1. Page(u) = hi \div PageSize
      BY <2>1, <2>2, <2>4, <1>0, PageUnique, PageAssumption DEF Page
    <3>2. hi % PageSize # 0
      <4>1. SUFFICES ASSUME hi % PageSize = 0 PROVE FALSE
        OBVIOUS
      <4>2. PICK q \in Nat : hi = q * PageSize
        BY <4>1, <1>0, Multiple
      <4>3. PICK p \in Nat : p = Page(u)
        BY <2>1
      <4>4. p * PageSize < q * PageSize /\ q * PageSize < (p + 1) * PageSize
        BY <2>1, <2>2, <2>4, <4>2, <4>3, <1>0, PageAssumption
      <4> QED BY <4>4, PageAssumption
    <3>3. Len(s) \in 1 .. Len(s) /\ u \in Span(s[Len(s)][1], s[Len(s)][2])
      BY <3>1, <3>2, <1>2, <1>4
    <3> QED BY <3>3 DEF Covers
  <2> QED BY <2>1, <2>3, <2>4, <1>6, <1>0 DEF Span
<1> QED BY <1>4, <1>5, <1>6 DEF s

-----------------------------------------------------------------------------
(***************************************************************************)
(* The largest element of a bounded set of numbers, for the size of a file *)
(* after a write.                                                          *)
(***************************************************************************)
Below(R) == IsWellFoundedOn(R, Nat) /\ \A x, y \in Nat : x < y => <<x, y>> \in R

LEMMA Least ==
  ASSUME NEW T \in SUBSET Nat, T # {}
  PROVE  \E x \in T : \A y \in T : x <= y
<1>1. PICK R : Below(R)
  <2> DEFINE R == OpToRel(<, Nat)
  <2>1. IsWellFoundedOn(R, Nat)
    BY NatLessThanWellFounded
  <2>2. \A x, y \in Nat : x < y => <<x, y>> \in R
    BY DEF OpToRel
  <2> HIDE DEF R
  <2>3. Below(R)
    BY <2>1, <2>2, Zenon DEF Below
  <2> QED BY <2>3
<1>2. IsWellFoundedOn(R, Nat) /\ T \subseteq Nat
  BY <1>1, Zenon DEF Below
<1>3. PICK x \in T : \A y \in T : ~(<<y, x>> \in R)
  BY <1>2, WFMin, Zenon
<1>4. \A y \in T : ~(y < x)
  BY <1>1, <1>3, <1>2, Zenon DEF Below
<1> QED BY <1>4

LEMMA Greatest ==
  ASSUME NEW D \in SUBSET Nat, D # {}, NEW n \in Nat, \A u \in D : u < n
  PROVE  \E x \in D : \A y \in D : y <= x
<1> DEFINE T == {n - u : u \in D}
<1>1. T \in SUBSET Nat /\ T # {}
  <2>1. \A u \in D : u \in Nat /\ u < n
    OBVIOUS
  <2>2. \A u \in D : n - u \in Nat
    BY <2>1
  <2>3. PICK u \in D : TRUE
    OBVIOUS
  <2>4. n - u \in T
    OBVIOUS
  <2> QED BY <2>2, <2>4
<1>2. PICK m \in T : \A y \in T : m <= y
  <2> HIDE DEF T
  <2> QED BY <1>1, Least
<1>3. PICK x \in D : m = n - x
  BY <1>2
<1>4. ASSUME NEW y \in D
      PROVE  y <= x
  <2>1. n - y \in T
    OBVIOUS
  <2>2. m <= n - y
    BY <2>1, <1>2
  <2> QED BY <2>2, <1>3
<1> QED BY <1>4

\* What a write does to a copy: pages are added and values replaced, and the
\* file grows to the end n of the data if that is behind its end.
Written(f, data, n) ==
  /\ Pwrite(f, data) \in Copies
  /\ Pwrite(f, data).size = n
  /\ Pwrite(f, data).alloc = f.alloc \cup {Page(u) : u \in DOMAIN data}
  /\ \A u \in Units : Pwrite(f, data).val[u] = IF u \in DOMAIN data THEN data[u] ELSE f.val[u]

LEMMA ReplyTyped ==
  ASSUME NEW data \in Replies
  PROVE  DOMAIN data \subseteq Units /\ data \in [DOMAIN data -> Nat]
<1>1. PICK D \in SUBSET Units : data \in [D -> Nat]
  BY DEF Replies
<1> QED BY <1>1

LEMMA WrittenSize ==
  ASSUME NEW f \in Copies, NEW data \in Replies, NEW n \in Nat,
         Pwrite(f, data).size = n
  PROVE  Written(f, data, n)
<1>1. DOMAIN data \subseteq Units /\ data \in [DOMAIN data -> Nat]
  BY ReplyTyped
<1>2. {Page(u) : u \in DOMAIN data} \subseteq Pages
  BY <1>1, UnitPage
<1>3. /\ f.size \in Nat /\ f.alloc \in SUBSET Pages /\ f.val \in [Units -> Nat]
  BY DEF Copies
<1> DEFINE al == f.alloc \cup {Page(u) : u \in DOMAIN data}
           va == [u \in Units |-> IF u \in DOMAIN data THEN data[u] ELSE f.val[u]]
<1>4. al \in SUBSET Pages
  BY <1>2, <1>3
<1>5. va \in [Units -> Nat]
  BY <1>1, <1>3
<1>6. Pwrite(f, data) = [size |-> Pwrite(f, data).size, alloc |-> al, val |-> va]
  BY DEF Pwrite
<1> HIDE DEF al
<1>7. Pwrite(f, data) = [size |-> n, alloc |-> al, val |-> va]
  BY <1>6
<1>8. Pwrite(f, data) \in Copies
  BY <1>7, <1>4, <1>5 DEF Copies
<1>9. \A u \in Units : Pwrite(f, data).val[u] = va[u]
  BY <1>7
<1> QED BY <1>7, <1>8, <1>9 DEF Written, al

LEMMA WriteWithin ==
  ASSUME NEW f \in Copies, NEW data \in Replies, \A u \in DOMAIN data : u < f.size
  PROVE  Written(f, data, f.size)
<1>1. DOMAIN data \subseteq Nat /\ f.size \in Nat
  BY ReplyTyped, UnitPage DEF Copies
<1> DEFINE D == DOMAIN data
           m == CHOOSE u \in D : \A v \in D : v <= u
<1>2. D # {} => m \in D
  BY <1>1, Greatest
<1>3. Pwrite(f, data).size = IF D = {} THEN f.size ELSE Max2(f.size, 1 + m)
  BY DEF Pwrite
<1> HIDE DEF m
<1>4. D # {} => m \in Nat /\ m < f.size
  BY <1>1, <1>2
<1>5. D # {} => Max2(f.size, 1 + m) = f.size
  BY <1>1, <1>4 DEF Max2
<1>6. Pwrite(f, data).size = f.size
  BY <1>3, <1>5
<1> QED BY <1>6, <1>1, WrittenSize

LEMMA WriteSpan ==
  ASSUME NEW f \in Copies, NEW data \in Replies, NEW lo \in Nat, NEW hi \in Sizes, lo < hi,
         DOMAIN data = Span(lo, hi)
  PROVE  Written(f, data, Max2(f.size, hi))
<1>1. f.size \in Nat /\ hi \in Nat /\ hi <= PageSize * NPages
  BY PageAssumption DEF Copies, Sizes
<1> DEFINE D == DOMAIN data
           m == CHOOSE u \in D : \A v \in D : v <= u
<1>2. D \subseteq Nat /\ hi - 1 \in D /\ \A v \in D : v <= hi - 1
  <2>1. hi - 1 \in Units
    BY <1>1, PageAssumption DEF Units
  <2>2. \A v \in Units : v \in Nat
    BY UnitPage
  <2> QED BY <2>1, <2>2, <1>1 DEF Span
<1>3. m \in D /\ \A v \in D : v <= m
  BY <1>2
<1>4. Pwrite(f, data).size = IF D = {} THEN f.size ELSE Max2(f.size, 1 + m)
  BY DEF Pwrite
<1> HIDE DEF m
<1>5. m = hi - 1
  BY <1>2, <1>3, <1>1
<1>6. Pwrite(f, data).size = Max2(f.size, hi)
  BY <1>1, <1>2, <1>4, <1>5
<1>7. Max2(f.size, hi) \in Nat
  BY <1>1 DEF Max2
<1> QED BY <1>6, <1>7, WrittenSize

-----------------------------------------------------------------------------
(***************************************************************************)
(* What the operations on copies do to their agreement with the content of *)
(* the file.                                                               *)
(***************************************************************************)
LEMMA CopyTyped ==
  ASSUME NEW f \in Copies
  PROVE  /\ f.size \in Nat /\ f.alloc \in SUBSET Pages /\ f.val \in [Units -> Nat]
         /\ \A u \in Units : f.val[u] \in Nat
BY DEF Copies

LEMMA ContentTyped ==
  ASSUME NEW t \in Contents
  PROVE  t.size \in Nat /\ t.val \in [Units -> Nat] /\ \A u \in Units : t.val[u] \in Nat
BY DEF Contents

\* The answer of a peer, written over the copy of one center.
LEMMA FillCurrent ==
  ASSUME NEW t \in Contents, NEW e, Current(e, t), NEW c \in Centers,
         NEW reply \in Replies, Genuine(reply, t)
  PROVE  /\ Current([e EXCEPT ![c] = Pwrite(@, reply)], t)
         /\ Pwrite(e[c], reply).alloc = e[c].alloc \cup {Page(u) : u \in DOMAIN reply}
<1>0. e \in [Centers -> Copies] /\ e[c] \in Copies /\ Agrees(e[c], t)
  BY DEF Current
<1> DEFINE f == e[c]
           g == Pwrite(f, reply)
           e2 == [e EXCEPT ![c] = Pwrite(@, reply)]
<1>1. \A u \in DOMAIN reply : u < t.size /\ reply[u] = t.val[u]
  BY DEF Genuine
<1>2. f.size = t.size /\ \A u \in Units : f.val[u] = IF Page(u) \in f.alloc THEN t.val[u] ELSE 0
  BY <1>0 DEF Agrees
<1>3. Written(f, reply, f.size)
  BY <1>0, <1>1, <1>2, WriteWithin
<1>4. /\ g \in Copies /\ g.size = t.size
      /\ g.alloc = f.alloc \cup {Page(u) : u \in DOMAIN reply}
      /\ \A u \in Units : g.val[u] = IF u \in DOMAIN reply THEN reply[u] ELSE f.val[u]
  BY <1>3, <1>2 DEF Written
<1> HIDE DEF g, f
<1>5. ASSUME NEW u \in Units
      PROVE  g.val[u] = IF Page(u) \in g.alloc THEN t.val[u] ELSE 0
  <2>1. CASE u \in DOMAIN reply
    BY <2>1, <1>1, <1>4
  <2>2. CASE u \notin DOMAIN reply /\ Page(u) \in f.alloc
    BY <2>2, <1>2, <1>4
  <2>3. CASE u \notin DOMAIN reply /\ Page(u) \notin f.alloc /\ Page(u) \notin g.alloc
    BY <2>3, <1>2, <1>4
  <2>4. CASE u \notin DOMAIN reply /\ Page(u) \notin f.alloc /\ Page(u) \in g.alloc
    <3>1. PICK v \in DOMAIN reply : Page(u) = Page(v)
      BY <2>4, <1>4
    <3>2. ~(u < t.size)
      BY <3>1, <2>4 DEF Genuine
    <3>3. t.val[u] = 0
      BY <3>2 DEF Current
    <3> QED BY <2>4, <3>3, <1>2, <1>4
  <2> QED BY <2>1, <2>2, <2>3, <2>4
<1>6. Agrees(g, t)
  BY <1>4, <1>5 DEF Agrees
<1>7. e2 \in [Centers -> Copies] /\ e2[c] = g /\ \A d \in Centers : d # c => e2[d] = e[d]
  BY <1>0, <1>4 DEF f, g
<1>8. \A d \in Centers : e[d].alloc \subseteq e2[d].alloc
  BY <1>7, <1>4 DEF f
<1> HIDE DEF e2
<1>9. Current(e2, t)
  BY <1>6, <1>7, <1>8 DEF Current
<1> QED BY <1>9, <1>4 DEF e2, f, g

LEMMA Resized ==
  ASSUME NEW f \in Copies, NEW n \in Nat
  PROVE  /\ Resize(f, n) \in Copies
         /\ Resize(f, n).size = n
         /\ Resize(f, n).alloc = {p \in f.alloc : p * PageSize < n}
         /\ \A u \in Units : Resize(f, n).val[u] = IF u < n THEN f.val[u] ELSE 0
<1> DEFINE al == {p \in f.alloc : p * PageSize < n}
           va == [u \in Units |-> IF u < n THEN f.val[u] ELSE 0]
<1>1. al \in SUBSET Pages /\ va \in [Units -> Nat]
  BY CopyTyped
<1>2. Resize(f, n) = [size |-> n, alloc |-> al, val |-> va]
  BY DEF Resize
<1>3. Resize(f, n) \in Copies
  BY <1>1, <1>2 DEF Copies
<1> QED BY <1>2, <1>3

LEMMA Punched ==
  ASSUME NEW f \in Copies, NEW P
  PROVE  /\ Punch(f, P) \in Copies
         /\ Punch(f, P).size = f.size
         /\ Punch(f, P).alloc = f.alloc \ P
         /\ \A u \in Units : Punch(f, P).val[u] = IF Page(u) \in P THEN 0 ELSE f.val[u]
<1> DEFINE al == f.alloc \ P
           va == [u \in Units |-> IF Page(u) \in P THEN 0 ELSE f.val[u]]
<1>1. al \in SUBSET Pages /\ va \in [Units -> Nat]
  BY CopyTyped
<1>2. Punch(f, P) = [f EXCEPT !.alloc = al, !.val = va]
  BY DEF Punch
<1> HIDE DEF al
<1>3. Punch(f, P) \in Copies /\ Punch(f, P).size = f.size /\ Punch(f, P).alloc = al
      /\ Punch(f, P).val = va
  BY <1>1, <1>2 DEF Copies
<1> QED BY <1>3 DEF al

\* The content after a truncate, and after a write of data up to n.
Cut(t, n) == [size |-> n, val |-> [u \in Units |-> IF u < n THEN t.val[u] ELSE 0]]
Put(t, data, n) ==
  [size |-> Max2(t.size, n),
   val  |-> [u \in Units |-> IF u \in DOMAIN data THEN data[u] ELSE t.val[u]]]

LEMMA TruncateCurrent ==
  ASSUME NEW t \in Contents, NEW e, Current(e, t), NEW n \in Nat
  PROVE  Current([d \in Centers |-> Resize(e[d], n)], Cut(t, n))
<1>0. e \in [Centers -> Copies] /\ \A d \in Centers : Agrees(e[d], t)
  BY DEF Current
<1> DEFINE e2 == [d \in Centers |-> Resize(e[d], n)]
           t2 == Cut(t, n)
<1>1. t2.size = n /\ \A u \in Units : t2.val[u] = IF u < n THEN t.val[u] ELSE 0
  BY DEF Cut
<1>2. ASSUME NEW d \in Centers
      PROVE  /\ e2[d] \in Copies
             /\ e2[d].size = n
             /\ e2[d].alloc = {p \in e[d].alloc : p * PageSize < n}
             /\ \A u \in Units : e2[d].val[u] = IF u < n THEN e[d].val[u] ELSE 0
  BY <1>0, Resized
<1>3. \A u \in Units : u < n => Page(u) * PageSize < n
  BY UnitPage, PageBounds, PageAssumption
<1> HIDE DEF t2
<1>4. ASSUME NEW d \in Centers
      PROVE  Agrees(e2[d], t2)
  <2>1. \A u \in Units : e[d].val[u] = IF Page(u) \in e[d].alloc THEN t.val[u] ELSE 0
    BY <1>0 DEF Agrees
  <2>2. ASSUME NEW u \in Units
        PROVE  e2[d].val[u] = IF Page(u) \in e2[d].alloc THEN t2.val[u] ELSE 0
    BY <2>1, <1>1, <1>2, <1>3
  <2> QED BY <2>2, <1>1, <1>2 DEF Agrees
<1>5. ASSUME NEW u \in Units, t2.val[u] # 0
      PROVE  u < t2.size /\ \E d \in Centers : Page(u) \in e2[d].alloc
  <2>1. u < n /\ t.val[u] # 0
    BY <1>1, <1>5
  <2>2. PICK d \in Centers : Page(u) \in e[d].alloc
    BY <2>1 DEF Current
  <2> QED BY <2>1, <2>2, <1>1, <1>2, <1>3
<1>6. e2 \in [Centers -> Copies]
  BY <1>2
<1> HIDE DEF e2
<1>7. Current(e2, t2)
  BY <1>4, <1>5, <1>6 DEF Current
<1> QED BY <1>7 DEF e2, t2

\* An index update at a peer turns copy f into g.
PunchedTo(f, lo, hi, g) ==
  /\ g \in Copies
  /\ g.size = Max2(f.size, hi)
  /\ g.alloc = {p \in f.alloc : /\ p \notin PunchPages(lo, hi)
                                /\ f.size < hi => p * PageSize < hi}
  /\ \A u \in Units :
       g.val[u] = IF Page(u) \in PunchPages(lo, hi) \/ (f.size < hi /\ ~(u < hi))
                  THEN 0 ELSE f.val[u]

LEMMA HolePunched ==
  ASSUME NEW f \in Copies, NEW lo \in Nat, NEW hi \in Nat
  PROVE  PunchedTo(f, lo, hi, punch_hole_local(f, lo, hi))
<1> DEFINE h == IF hi > f.size THEN Resize(f, hi) ELSE f
           P == PunchPages(lo, hi)
           g == punch_hole_local(f, lo, hi)
<1>0. f.size \in Nat /\ f.alloc \in SUBSET Pages
  BY CopyTyped
<1>1. /\ h \in Copies /\ h.size = Max2(f.size, hi)
      /\ h.alloc = {p \in f.alloc : f.size < hi => p * PageSize < hi}
      /\ \A u \in Units : h.val[u] = IF f.size < hi /\ ~(u < hi) THEN 0 ELSE f.val[u]
  <2>1. CASE hi > f.size
    BY <2>1, <1>0, Resized DEF Max2
  <2>2. CASE ~(hi > f.size)
    BY <2>2, <1>0 DEF Max2
  <2> QED BY <2>1, <2>2
<1>2. g = Punch(h, P)
  BY DEF punch_hole_local
<1> HIDE DEF h, g, P
<1>3. /\ g \in Copies /\ g.size = h.size /\ g.alloc = h.alloc \ P
      /\ \A u \in Units : g.val[u] = IF Page(u) \in P THEN 0 ELSE h.val[u]
  BY <1>1, <1>2, Punched
<1>4. g.alloc = {p \in f.alloc : p \notin P /\ (f.size < hi => p * PageSize < hi)}
  BY <1>1, <1>3
<1>5. \A u \in Units : g.val[u] = IF Page(u) \in P \/ (f.size < hi /\ ~(u < hi))
                                  THEN 0 ELSE f.val[u]
  BY <1>1, <1>3
<1>6. PunchedTo(f, lo, hi, g)
  BY <1>1, <1>3, <1>4, <1>5 DEF PunchedTo, P
<1> QED BY <1>6 DEF g

\* The copy that is written agrees with the new content if what the write
\* leaves of its first and last page was ready.
LEMMA WriteAgrees ==
  ASSUME NEW t \in Contents, NEW f \in Copies, Agrees(f, t),
         NEW lo \in Nat, NEW hi \in Sizes, lo < hi,
         NEW data \in Replies, DOMAIN data = Span(lo, hi),
         \A u \in Units : Page(u) \in PunchPages(lo, hi) /\ u \notin Span(lo, hi) => Ready(f, t, u)
  PROVE  /\ Pwrite(f, data) \in Copies
         /\ Agrees(Pwrite(f, data), Put(t, data, hi))
         /\ \A p \in Pages : p \in Pwrite(f, data).alloc <=>
                               p \in f.alloc \/ p \in PunchPages(lo, hi)
<1> DEFINE g == Pwrite(f, data)
           t2 == Put(t, data, hi)
<1>1. Written(f, data, Max2(f.size, hi))
  BY WriteSpan
<1>2. /\ g \in Copies /\ g.size = Max2(f.size, hi)
      /\ g.alloc = f.alloc \cup {Page(u) : u \in Span(lo, hi)}
      /\ \A u \in Units : g.val[u] = IF u \in Span(lo, hi) THEN data[u] ELSE f.val[u]
  BY <1>1 DEF Written
<1>3. /\ t2.size = Max2(t.size, hi)
      /\ \A u \in Units : t2.val[u] = IF u \in Span(lo, hi) THEN data[u] ELSE t.val[u]
  BY DEF Put
<1>4. f.size = t.size /\ \A u \in Units : f.val[u] = IF Page(u) \in f.alloc THEN t.val[u] ELSE 0
  BY DEF Agrees
<1>5. \A p \in Pages : p \in PunchPages(lo, hi) <=> \E u \in Span(lo, hi) : Page(u) = p
  BY Touched
<1> HIDE DEF g, t2
<1>6. \A p \in Pages : p \in g.alloc <=> p \in f.alloc \/ p \in PunchPages(lo, hi)
  BY <1>2, <1>5
<1>7. ASSUME NEW u \in Units
      PROVE  g.val[u] = IF Page(u) \in g.alloc THEN t2.val[u] ELSE 0
  <2>1. CASE u \in Span(lo, hi)
    BY <2>1, <1>2, <1>3
  <2>2. CASE u \notin Span(lo, hi) /\ Page(u) \in PunchPages(lo, hi)
    <3>1. Page(u) \in f.alloc \/ t.val[u] = 0
      BY <2>2 DEF Ready
    <3> QED BY <3>1, <2>2, <1>2, <1>3, <1>4
  <2>3. CASE u \notin Span(lo, hi) /\ Page(u) \notin PunchPages(lo, hi)
    BY <2>3, <1>2, <1>3, <1>4, <1>6, UnitPage
  <2> QED BY <2>1, <2>2, <2>3
<1>8. Agrees(g, t2)
  BY <1>2, <1>3, <1>4, <1>7 DEF Agrees
<1> QED BY <1>2, <1>6, <1>8 DEF g, t2

\* So does the copy of a peer, once the index update has punched it.
LEMMA PunchAgrees ==
  ASSUME NEW t \in Contents, NEW f \in Copies, Agrees(f, t),
         \A u \in Units : t.val[u] # 0 => u < t.size,
         NEW lo \in Nat, NEW hi \in Sizes, lo < hi,
         NEW data \in Replies, DOMAIN data = Span(lo, hi)
  PROVE  /\ punch_hole_local(f, lo, hi) \in Copies
         /\ Agrees(punch_hole_local(f, lo, hi), Put(t, data, hi))
         /\ \A u \in Units :
              t.val[u] # 0 /\ Page(u) \in f.alloc /\ Page(u) \notin PunchPages(lo, hi) =>
                Page(u) \in punch_hole_local(f, lo, hi).alloc
<1> DEFINE g == punch_hole_local(f, lo, hi)
           t2 == Put(t, data, hi)
           P == PunchPages(lo, hi)
<1>0. hi \in Nat /\ t.size \in Nat /\ f.size \in Nat
  BY CopyTyped, ContentTyped, PageAssumption DEF Sizes
<1>1. /\ g \in Copies /\ g.size = Max2(f.size, hi)
      /\ g.alloc = {p \in f.alloc : p \notin P /\ (f.size < hi => p * PageSize < hi)}
      /\ \A u \in Units : g.val[u] = IF Page(u) \in P \/ (f.size < hi /\ ~(u < hi))
                                     THEN 0 ELSE f.val[u]
  <2>1. PunchedTo(f, lo, hi, g)
    BY <1>0, HolePunched
  <2> HIDE DEF g
  <2> QED BY <2>1 DEF PunchedTo
<1>2. /\ t2.size = Max2(t.size, hi)
      /\ \A u \in Units : t2.val[u] = IF u \in Span(lo, hi) THEN data[u] ELSE t.val[u]
  BY DEF Put
<1>3. f.size = t.size /\ \A u \in Units : f.val[u] = IF Page(u) \in f.alloc THEN t.val[u] ELSE 0
  BY DEF Agrees
<1>4. \A u \in Span(lo, hi) : Page(u) \in P
  BY Touched, UnitPage DEF Span
<1>5. \A u \in Units : u \in Nat /\ Page(u) * PageSize \in Nat /\ Page(u) * PageSize <= u
  BY UnitPage, PageBounds, PageAssumption
<1> HIDE DEF g, t2, P
<1>6. ASSUME NEW u \in Units
      PROVE  g.val[u] = IF Page(u) \in g.alloc THEN t2.val[u] ELSE 0
  <2>1. CASE Page(u) \in P
    BY <2>1, <1>1
  <2>2. CASE Page(u) \notin P
    <3>1. u \notin Span(lo, hi) /\ t2.val[u] = t.val[u]
      BY <2>2, <1>2, <1>4
    <3>2. CASE f.size < hi /\ ~(u < hi)
      <4>1. t.val[u] = 0
        BY <3>2, <1>0, <1>3, <1>5
      <4> QED BY <4>1, <3>1, <3>2, <1>1
    <3>3. CASE ~(f.size < hi /\ ~(u < hi))
      <4>1. Page(u) \in g.alloc <=> Page(u) \in f.alloc
        BY <3>3, <2>2, <1>0, <1>1, <1>5
      <4> QED BY <4>1, <3>1, <3>3, <2>2, <1>1, <1>3
    <3> QED BY <3>2, <3>3
  <2> QED BY <2>1, <2>2
<1>7. Agrees(g, t2)
  BY <1>1, <1>2, <1>3, <1>6 DEF Agrees
<1>8. ASSUME NEW u \in Units, t.val[u] # 0, Page(u) \in f.alloc, Page(u) \notin P
      PROVE  Page(u) \in g.alloc
  <2>1. f.size < hi => Page(u) * PageSize < hi
    BY <1>8, <1>0, <1>3, <1>5
  <2> QED BY <2>1, <1>8, <1>1
<1> QED BY <1>1, <1>7, <1>8 DEF g, t2, P

LEMMA WriteCurrent ==
  ASSUME NEW t \in Contents, NEW e, Current(e, t), NEW c \in Centers,
         NEW lo \in Nat, NEW hi \in Sizes, lo < hi,
         NEW data \in Replies, DOMAIN data = Span(lo, hi),
         \A u \in Units : Page(u) \in PunchPages(lo, hi) /\ u \notin Span(lo, hi) =>
                            Ready(e[c], t, u)
  PROVE  Current([d \in Centers |-> IF d = c THEN Pwrite(e[c], data)
                                    ELSE punch_hole_local(e[d], lo, hi)],
                 Put(t, data, hi))
<1> DEFINE e2 == [d \in Centers |-> IF d = c THEN Pwrite(e[c], data)
                                    ELSE punch_hole_local(e[d], lo, hi)]
           t2 == Put(t, data, hi)
           P == PunchPages(lo, hi)
<1>0. /\ e \in [Centers -> Copies] /\ \A d \in Centers : e[d] \in Copies /\ Agrees(e[d], t)
      /\ \A u \in Units : t.val[u] # 0 => u < t.size /\ \E d \in Centers : Page(u) \in e[d].alloc
  BY DEF Current
<1>1. /\ Pwrite(e[c], data) \in Copies /\ Agrees(Pwrite(e[c], data), t2)
      /\ \A p \in Pages : p \in Pwrite(e[c], data).alloc <=> p \in e[c].alloc \/ p \in P
  BY <1>0, WriteAgrees
<1>2. ASSUME NEW d \in Centers
      PROVE  LET g == punch_hole_local(e[d], lo, hi) IN
             /\ g \in Copies /\ Agrees(g, t2)
             /\ \A u \in Units : t.val[u] # 0 /\ Page(u) \in e[d].alloc /\ Page(u) \notin P =>
                                   Page(u) \in g.alloc
  BY <1>0, PunchAgrees
<1> HIDE DEF P
<1>3. ASSUME NEW d \in Centers
      PROVE  e2[d] \in Copies /\ Agrees(e2[d], t2)
  BY <1>1, <1>2
<1>4. e2[c] = Pwrite(e[c], data)
      /\ \A d \in Centers : d # c => e2[d] = punch_hole_local(e[d], lo, hi)
  OBVIOUS
<1>5. e2 \in [Centers -> Copies]
  BY <1>3
<1> HIDE DEF e2
<1>6. ASSUME NEW u \in Units, t2.val[u] # 0
      PROVE  u < t2.size /\ \E d \in Centers : Page(u) \in e2[d].alloc
  <2>0. /\ u \in Nat /\ Page(u) \in Pages /\ hi \in Nat /\ t.size \in Nat
        /\ t2.size = Max2(t.size, hi)
        /\ t2.val[u] = IF u \in Span(lo, hi) THEN data[u] ELSE t.val[u]
    BY UnitPage, ContentTyped, PageAssumption DEF Put, Sizes
  <2>1. CASE u \in Span(lo, hi)
    <3>1. Page(u) \in P
      BY <2>0, <2>1, Touched DEF P
    <3>2. u < t2.size
      BY <2>0, <2>1 DEF Span, Max2
    <3> QED BY <3>1, <3>2, <2>0, <1>1, <1>4
  <2>2. CASE u \notin Span(lo, hi)
    <3>1. t.val[u] # 0
      BY <2>0, <2>2, <1>6
    <3>2. u < t2.size
      BY <3>1, <2>0, <1>0 DEF Max2
    <3>3. PICK d \in Centers : Page(u) \in e[d].alloc
      BY <3>1, <1>0
    <3>4. CASE Page(u) \in P \/ d = c
      BY <3>2, <3>3, <3>4, <2>0, <1>1, <1>4
    <3>5. CASE Page(u) \notin P /\ d # c
      BY <3>1, <3>2, <3>3, <3>5, <1>2, <1>4
    <3> QED BY <3>4, <3>5
  <2> QED BY <2>1, <2>2
<1>7. Current(e2, t2)
  BY <1>3, <1>5, <1>6 DEF Current
<1> QED BY <1>7 DEF e2, t2

-----------------------------------------------------------------------------
(***************************************************************************)
(* The invariant.                                                          *)
(***************************************************************************)
LEMMA NoReply == NoData \in Replies /\ DOMAIN NoData = {}
<1>1. NoData \in [{} -> Nat] /\ DOMAIN NoData = {}
  BY DEF NoData
<1> QED BY <1>1 DEF Replies

LEMMA InitInv == Init => ReplicaInv
<1> SUFFICES ASSUME Init PROVE ReplicaInv
  OBVIOUS
<1>1. InitSize \in Nat /\ InitSize \in Sizes
  BY SizeAssumption, PageAssumption DEF Sizes
<1>2. ASSUME NEW c \in Centers
      PROVE  /\ file[c] \in Copies
             /\ file[c].size = InitSize
             /\ \A u \in Units : Page(u) \in file[c].alloc <=> c = Home /\ Page(u) * PageSize < InitSize
             /\ \A u \in Units : file[c].val[u] = IF c = Home /\ u < InitSize THEN 1 ELSE 0
  <2> DEFINE al == IF c = Home THEN {p \in Pages : p * PageSize < InitSize} ELSE {}
             va == [u \in Units |-> IF c = Home /\ u < InitSize THEN 1 ELSE 0]
  <2>1. file[c] = [size |-> InitSize, alloc |-> al, val |-> va]
    BY DEF Init
  <2>2. al \in SUBSET Pages /\ va \in [Units -> Nat]
    OBVIOUS
  <2>3. file[c] \in Copies
    BY <2>1, <2>2, <1>1 DEF Copies
  <2> QED BY <2>1, <2>3, UnitPage
<1>3. /\ truth \in Contents /\ truth.size = InitSize
      /\ \A u \in Units : truth.val[u] = IF u < InitSize THEN 1 ELSE 0
  <2> DEFINE va == [u \in Units |-> IF u < InitSize THEN 1 ELSE 0]
  <2>1. truth = [size |-> InitSize, val |-> va] /\ va \in [Units -> Nat]
    BY DEF Init
  <2> QED BY <2>1, <1>1 DEF Contents
<1>4. \A u \in Units : u < InitSize => Page(u) * PageSize < InitSize
  BY UnitPage, PageBounds, PageAssumption, <1>1
<1>5. Current(file, truth)
  <2>1. file \in [Centers -> Copies]
    BY <1>2 DEF Init
  <2>2. ASSUME NEW d \in Centers
        PROVE  Agrees(file[d], truth)
    BY <1>2, <1>3, <1>4 DEF Agrees
  <2>3. ASSUME NEW u \in Units, truth.val[u] # 0
        PROVE  u < truth.size /\ \E d \in Centers : Page(u) \in file[d].alloc
    BY <2>3, <1>2, <1>3, <1>4, HomeAssumption
  <2> QED BY <2>1, <2>2, <2>3 DEF Current
<1>6. \A w \in Workers : op[w] = NoOp
  BY DEF Init
<1>7. NoOp \in Operations /\ NoOp.pc = "idle"
  BY HomeAssumption, NoReply DEF NoOp, Operations, OpStates
<1>8. Typed
  BY <1>3, <1>5, <1>6, <1>7 DEF Typed, Current, Init
<1>9. Turns
  BY <1>6, <1>7 DEF Turns, Busy, Init
<1>10. Settled
  BY <1>5, <1>6, <1>7 DEF Settled, Init
<1>11. Prepared /\ Fetching /\ Posted
  BY <1>6, <1>7 DEF Prepared, Fetching, Posted, PreparedAt, FetchingAt
<1> QED BY <1>8, <1>9, <1>10, <1>11 DEF ReplicaInv

\* Worker w has the file to itself.
Alone(w) == (\A v \in Workers : v # w => ~Busy(v)) /\ \A c \in Centers : queue[c] = <<>>

LEMMA BusyAlone ==
  ASSUME ReplicaInv, NEW w \in Workers, Busy(w)
  PROVE  Alone(w)
BY DEF ReplicaInv, Turns, Alone

LEMMA CurrentCopies ==
  ASSUME ReplicaInv, NEW w \in Workers, Alone(w), op[w].pc # "submit"
  PROVE  Current(file, truth)
BY DEF ReplicaInv, Settled, Alone, Busy

\* It is then enough to look at this worker.
SettledAt(o, e, t) ==
  Current(IF o.pc = "submit" THEN After(e, o.c, {}, UpdateOf(o)) ELSE e, t)

LEMMA AloneStep ==
  ASSUME ReplicaInv, NEW w \in Workers, Alone(w), NEW o \in Operations,
         op' = [op EXCEPT ![w] = o], UNCHANGED <<queue, told>>,
         file' \in [Centers -> Copies], truth' \in Contents, ops' \in Nat,
         SettledAt(o, file', truth'), PreparedAt(o, file', truth'),
         FetchingAt(o, file', truth'), o.pc = "submit" => o.type # "read"
  PROVE  ReplicaInv'
<1>1. /\ op'[w] = o /\ \A v \in Workers : v # w => op'[v] = op[v]
      /\ op' \in [Workers -> Operations]
  BY DEF ReplicaInv, Typed
<1>2. \A v \in Workers : v # w => op'[v].pc \in {"idle", "done"}
  BY <1>1 DEF Alone, Busy
<1>3. Typed'
  BY <1>1 DEF ReplicaInv, Typed
<1>4. Turns'
  BY <1>1, <1>2 DEF ReplicaInv, Turns, Busy, Alone
<1>5. Settled'
  <2>1. \A c \in Centers : queue'[c] = <<>>
    BY DEF Alone
  <2>2. ASSUME o.pc # "submit"
        PROVE  Current(file', truth')
    BY <2>2 DEF SettledAt
  <2>3. ASSUME NEW v \in Workers, op'[v].pc = "submit"
        PROVE  Current(After(file', op'[v].c, {}, UpdateOf(op'[v])), truth')
    <3>1. v = w
      BY <2>3, <1>2
    <3>2. op'[v] = o
      BY <3>1, <1>1
    <3>3. o.pc = "submit"
      BY <3>2, <2>3
    <3> QED BY <3>2, <3>3 DEF SettledAt
  <2> QED BY <2>1, <2>2, <2>3, <1>1 DEF Settled
<1>6. Prepared' /\ Fetching' /\ Posted'
  <2>1. ASSUME NEW v \in Workers
        PROVE  PreparedAt(op'[v], file', truth') /\ FetchingAt(op'[v], file', truth')
    BY <1>1, <1>2 DEF PreparedAt, FetchingAt
  <2>2. ASSUME NEW v \in Workers, op'[v].pc = "submit"
        PROVE  op'[v].type # "read"
    BY <2>2, <1>1, <1>2
  <2> QED BY <2>1, <2>2 DEF Prepared, Fetching, Posted
<1> QED BY <1>3, <1>4, <1>5, <1>6 DEF ReplicaInv

\* The first state of an operation.
Opened(type, c, lo, hi, syncs) ==
  [pc |-> IF syncs = <<>> THEN "do" ELSE "sync", type |-> type, c |-> c, lo |-> lo, hi |-> hi,
   syncs |-> syncs, peers |-> {}, reply |-> NoData]

LEMMA StartInv ==
  ASSUME ReplicaInv, Quiet, NEW w \in Workers,
         NEW type \in {"read", "write", "truncate"}, NEW c \in Centers,
         NEW lo \in Nat, NEW hi \in Nat, NEW syncs \in Seq(Nat \X Nat), Aligned(syncs),
         type = "write" => lo < hi /\ hi \in Sizes,
         \A u \in Wanted(Opened(type, c, lo, hi, syncs)) : Covers(syncs, u),
         Start(w, type, c, lo, hi, syncs), ops' \in Nat
  PROVE  ReplicaInv'
<1> DEFINE o == Opened(type, c, lo, hi, syncs)
<1>1. o \in Operations
  BY NoReply DEF Opened, Operations, OpStates
<1>2. op' = [op EXCEPT ![w] = o]
  <2>1. [NoOp EXCEPT !.pc = IF syncs = <<>> THEN "do" ELSE "sync", !.type = type, !.c = c,
                     !.lo = lo, !.hi = hi, !.syncs = syncs] = o
    <3> DEFINE p == IF syncs = <<>> THEN "do" ELSE "sync"
    <3>1. NoOp \in Operations /\ NoOp.peers = {} /\ NoOp.reply = NoData
      BY HomeAssumption, NoReply DEF NoOp, Operations, OpStates
    <3>2. o = [pc |-> p, type |-> type, c |-> c, lo |-> lo, hi |-> hi, syncs |-> syncs,
               peers |-> {}, reply |-> NoData]
      BY DEF Opened
    <3> DEFINE q == [NoOp EXCEPT !.pc = p, !.type = type, !.c = c, !.lo = lo, !.hi = hi,
                                 !.syncs = syncs]
    <3>3. p \in OpStates
      BY DEF OpStates
    <3> HIDE DEF p, o
    <3>4. /\ q \in Operations
          /\ q.pc = p /\ q.type = type /\ q.c = c /\ q.lo = lo /\ q.hi = hi
          /\ q.syncs = syncs /\ q.peers = {} /\ q.reply = NoData
      BY <3>1, <3>3 DEF Operations
    <3> HIDE DEF q
    <3>5. q = o
      BY <3>2, <3>4 DEF Operations
    <3> QED BY <3>5 DEF p, q
  <2> QED BY <2>1 DEF Start
<1>3. Alone(w) /\ op[w].pc # "submit"
  BY DEF Quiet, Alone, Busy
<1>4. Current(file, truth)
  BY <1>3, CurrentCopies
<1>5. UNCHANGED <<queue, told, file, truth>>
  BY DEF Start
<1>6. /\ o.pc \in {"do", "sync"} /\ (o.pc = "do" <=> syncs = <<>>)
      /\ o.syncs = syncs /\ o.type = type /\ o.lo = lo /\ o.hi = hi /\ o.reply = NoData
  BY DEF Opened
<1> HIDE DEF o
<1>7. SettledAt(o, file', truth') /\ FetchingAt(o, file', truth')
  BY <1>4, <1>5, <1>6 DEF SettledAt, FetchingAt
<1>8. PreparedAt(o, file', truth')
  BY <1>6 DEF PreparedAt, o
<1>9. file' \in [Centers -> Copies] /\ truth' \in Contents
  BY <1>5 DEF ReplicaInv, Typed
<1> QED BY <1>1, <1>2, <1>3, <1>5, <1>6, <1>7, <1>8, <1>9, AloneStep

LEMMA BeginInv ==
  ASSUME AlignedReads, ReplicaInv, Quiet, NEW w \in Workers, Begin(w)
  PROVE  ReplicaInv'
<1>0. ops \in Nat
  BY DEF ReplicaInv, Typed
<1>1. CASE StartRead(w)
  <2>1. PICK c \in Centers, r \in ReadRanges : Start(w, "read", c, r[1], r[2], <<r>>)
    BY <1>1 DEF StartRead
  <2>2. /\ r \in Nat \X Nat /\ r[1] \in Nat /\ r[2] \in Nat
        /\ r[1] % PageSize = 0 /\ r[2] % PageSize = 0
    BY RangesAssumption DEF AlignedReads
  <2> DEFINE s == <<r>>
  <2>3. s \in Seq(Nat \X Nat) /\ Len(s) = 1 /\ s[1] = r
    BY <2>2
  <2> HIDE DEF s
  <2>4. Aligned(s)
    BY <2>2, <2>3 DEF Aligned
  <2>5. ASSUME NEW u \in Wanted(Opened("read", c, r[1], r[2], s))
        PROVE  Covers(s, u)
    <3>1. u \in Span(r[1], r[2])
      BY DEF Wanted, Opened
    <3> QED BY <3>1, <2>3 DEF Covers
  <2>6. Start(w, "read", c, r[1], r[2], s) /\ ops' \in Nat
    BY <2>1, <1>0, <1>1 DEF s, StartRead
  <2> QED BY <2>2, <2>3, <2>4, <2>5, <2>6, StartInv
<1>2. CASE StartWrite(w)
  <2>1. PICK c \in Centers, lo \in Sizes, hi \in Sizes :
          lo < hi /\ Start(w, "write", c, lo, hi, sync_unalign_page(lo, hi))
    BY <1>2 DEF StartWrite
  <2>2. lo \in Nat /\ hi \in Nat
    BY PageAssumption DEF Sizes
  <2>3. PICK s : s = sync_unalign_page(lo, hi)
    OBVIOUS
  <2>4. /\ s \in Seq(Nat \X Nat) /\ Aligned(s)
        /\ \A u \in Units : Page(u) \in PunchPages(lo, hi) /\ u \notin Span(lo, hi) => Covers(s, u)
    BY <2>1, <2>2, <2>3, PartialPages
  <2>5. \A u \in Wanted(Opened("write", c, lo, hi, s)) : Covers(s, u)
    BY <2>4 DEF Wanted, Opened
  <2>6. Start(w, "write", c, lo, hi, s) /\ ops' \in Nat
    BY <2>1, <2>3, <1>0, <1>2 DEF StartWrite
  <2> QED BY <2>1, <2>2, <2>4, <2>5, <2>6, StartInv
<1>3. CASE StartTruncate(w)
  <2>1. PICK c \in Centers, hi \in Sizes : Start(w, "truncate", c, hi, hi, <<>>)
    BY <1>3 DEF StartTruncate
  <2>2. hi \in Nat /\ <<>> \in Seq(Nat \X Nat) /\ Aligned(<<>>)
    BY PageAssumption DEF Sizes, Aligned
  <2>3. \A u \in Wanted(Opened("truncate", c, hi, hi, <<>>)) : Covers(<<>>, u)
    BY DEF Wanted, Opened
  <2>4. ops' \in Nat
    BY <1>0, <1>3 DEF StartTruncate
  <2> QED BY <2>1, <2>2, <2>3, <2>4, StartInv
<1> QED BY <1>1, <1>2, <1>3 DEF Begin

LEMMA OpTyped ==
  ASSUME ReplicaInv, NEW w \in Workers
  PROVE  /\ op[w] \in Operations /\ op[w].c \in Centers
         /\ op[w].lo \in Nat /\ op[w].hi \in Nat /\ op[w].syncs \in Seq(Nat \X Nat)
         /\ op[w].peers \in SUBSET Centers /\ op[w].reply \in Replies
         /\ file \in [Centers -> Copies] /\ truth \in Contents /\ ops \in Nat
BY DEF ReplicaInv, Typed, Operations

\* The ranges of an operation that synchronises.
LEMMA FirstRange ==
  ASSUME NEW s \in Seq(Nat \X Nat), s # <<>>, Aligned(s)
  PROVE  /\ Head(s) = s[1] /\ Head(s)[1] \in Nat /\ Head(s)[2] \in Nat
         /\ Head(s)[1] % PageSize = 0 /\ Head(s)[2] % PageSize = 0
         /\ Tail(s) \in Seq(Nat \X Nat) /\ Aligned(Tail(s))
         /\ \A u : Covers(s, u) => u \in Span(Head(s)[1], Head(s)[2]) \/ Covers(Tail(s), u)
<1>1. /\ Len(s) \in Nat /\ Len(s) >= 1 /\ Head(s) = s[1] /\ s[1] \in Nat \X Nat
      /\ Tail(s) \in Seq(Nat \X Nat) /\ Len(Tail(s)) = Len(s) - 1
      /\ \A i \in 1 .. Len(s) - 1 : Tail(s)[i] = s[i + 1]
  OBVIOUS
<1>2. Head(s)[1] % PageSize = 0 /\ Head(s)[2] % PageSize = 0
  BY <1>1 DEF Aligned
<1>3. Aligned(Tail(s))
  BY <1>1 DEF Aligned
<1>4. ASSUME NEW u, Covers(s, u)
      PROVE  u \in Span(Head(s)[1], Head(s)[2]) \/ Covers(Tail(s), u)
  <2>1. PICK i \in 1 .. Len(s) : u \in Span(s[i][1], s[i][2])
    BY <1>4 DEF Covers
  <2>2. CASE i = 1
    BY <2>1, <2>2, <1>1
  <2>3. CASE i # 1
    <3> DEFINE j == i - 1
    <3>1. j \in 1 .. Len(Tail(s)) /\ Tail(s)[j] = s[i]
      BY <2>3, <1>1
    <3> QED BY <3>1, <2>1 DEF Covers
  <2> QED BY <2>2, <2>3
<1> QED BY <1>1, <1>2, <1>3, <1>4

\* A range is done with when all of it is ready.
LEMMA SyncedInv ==
  ASSUME ReplicaInv, NEW w \in Workers, op[w].pc \in {"sync", "fetch"},
         \A u \in Span(Head(op[w].syncs)[1], Head(op[w].syncs)[2]) :
           Ready(file[op[w].c], truth, u),
         op' = AfterSync(w), UNCHANGED <<file, queue, told, truth, ops>>
  PROVE  ReplicaInv'
<1> DEFINE s == op[w].syncs
           p == IF Tail(s) = <<>> THEN "do" ELSE "sync"
           o == [op[w] EXCEPT !.syncs = Tail(s), !.peers = {}, !.reply = NoData, !.pc = p]
<1>0. op[w] \in Operations
  BY OpTyped
<1>1. PreparedAt(op[w], file, truth)
  BY DEF ReplicaInv, Prepared
<1>2. s \in Seq(Nat \X Nat) /\ s # <<>> /\ Aligned(s)
  BY <1>1, OpTyped DEF PreparedAt
<1>3. /\ Tail(s) \in Seq(Nat \X Nat) /\ Aligned(Tail(s))
      /\ \A u : Covers(s, u) => u \in Span(Head(s)[1], Head(s)[2]) \/ Covers(Tail(s), u)
  BY <1>2, FirstRange
<1>4. p \in {"do", "sync"} /\ (p = "do" <=> Tail(s) = <<>>)
  OBVIOUS
<1>5. op' = [op EXCEPT ![w] = o]
  BY <1>0 DEF AfterSync
<1> HIDE DEF p
<1>6. /\ o \in Operations
      /\ o.pc = p /\ o.syncs = Tail(s) /\ o.reply = NoData
      /\ o.type = op[w].type /\ o.c = op[w].c /\ o.lo = op[w].lo /\ o.hi = op[w].hi
  BY <1>0, <1>3, <1>4, NoReply DEF Operations, OpStates
<1> HIDE DEF o
<1>7. Alone(w) /\ op[w].pc # "submit"
  BY BusyAlone DEF Busy
<1>8. SettledAt(o, file', truth')
  BY <1>4, <1>6, <1>7, CurrentCopies DEF SettledAt
<1>9. FetchingAt(o, file', truth')
  BY <1>4, <1>6 DEF FetchingAt
<1>10. PreparedAt(o, file', truth')
  <2>1. Wanted(o) = Wanted(op[w])
    BY <1>6 DEF Wanted
  <2>2. ASSUME NEW u \in Wanted(o)
        PROVE  Ready(file[o.c], truth, u) \/ Covers(o.syncs, u)
    BY <2>1, <1>1, <1>3, <1>6 DEF PreparedAt
  <2>3. o.type = "write" => o.lo < o.hi /\ o.hi \in Sizes
    BY <1>1, <1>6 DEF PreparedAt
  <2> QED BY <2>2, <2>3, <1>3, <1>4, <1>6 DEF PreparedAt
<1> QED BY <1>4, <1>5, <1>6, <1>7, <1>8, <1>9, <1>10, OpTyped, AloneStep

LEMMA FindHolesInv ==
  ASSUME ReplicaInv, NEW w \in Workers, FindHoles(w)
  PROVE  ReplicaInv'
<1> DEFINE c == op[w].c
           r == Head(op[w].syncs)
<1>1. /\ op[w].pc = "sync" /\ UNCHANGED <<file, queue, told, truth, ops>>
      /\ op' = IF find_holes_in_range(file[c], r[1], r[2]) = {} THEN AfterSync(w)
               ELSE [op EXCEPT ![w].pc = "fetch", ![w].peers = Centers \ {c}]
  BY DEF FindHoles
<1>2. Alone(w) /\ Current(file, truth)
  BY <1>1, BusyAlone, CurrentCopies DEF Busy
<1>3. op[w] \in Operations /\ c \in Centers /\ file[c] \in Copies
  BY OpTyped
<1>4. PreparedAt(op[w], file, truth) /\ op[w].reply = NoData
  BY <1>1 DEF ReplicaInv, Prepared, Fetching, FetchingAt
<1>5. op[w].syncs \in Seq(Nat \X Nat) /\ op[w].syncs # <<>> /\ r[1] \in Nat /\ r[2] \in Nat
  BY <1>1, <1>4, OpTyped, FirstRange DEF PreparedAt
<1>6. CASE find_holes_in_range(file[c], r[1], r[2]) = {}
  <2>1. ASSUME NEW u \in Span(r[1], r[2])
        PROVE  Ready(file[c], truth, u)
    <3>1. u \in Units /\ u \in Nat /\ r[1] <= u /\ u < r[2]
      BY UnitPage DEF Span
    <3>2. file[c].size = truth.size /\ file[c].size \in Nat
      BY <1>2, <1>3, CopyTyped DEF Current, Agrees
    <3>3. CASE u < file[c].size
      <4>1. u \in Span(r[1], Min2(r[2], file[c].size))
        BY <3>1, <3>2, <3>3, <1>5 DEF Span, Min2
      <4> QED BY <4>1, <1>6 DEF find_holes_in_range, Ready
    <3>4. CASE ~(u < file[c].size)
      BY <3>1, <3>2, <3>4, <1>2 DEF Current, Ready
    <3> QED BY <3>3, <3>4
  <2>2. op' = AfterSync(w)
    BY <1>1, <1>6
  <2> QED BY <1>1, <2>1, <2>2, SyncedInv
<1>7. CASE find_holes_in_range(file[c], r[1], r[2]) # {}
  <2> DEFINE o == [op[w] EXCEPT !.pc = "fetch", !.peers = Centers \ {c}]
  <2>1. op' = [op EXCEPT ![w] = o]
    BY <1>1, <1>3, <1>7
  <2>2. /\ o \in Operations
        /\ o.pc = "fetch" /\ o.peers = Centers \ {c} /\ o.c = c /\ o.syncs = op[w].syncs
        /\ o.reply = NoData /\ o.type = op[w].type /\ o.lo = op[w].lo /\ o.hi = op[w].hi
    BY <1>3, <1>4 DEF Operations, OpStates
  <2> HIDE DEF o
  <2>3. SettledAt(o, file', truth')
    BY <1>1, <1>2, <2>2 DEF SettledAt
  <2>4. PreparedAt(o, file', truth')
    BY <1>1, <1>4, <2>2 DEF PreparedAt, Wanted
  <2>5. FetchingAt(o, file', truth')
    <3>1. Genuine(o.reply, truth)
      BY <2>2, NoReply DEF Genuine
    <3>2. ASSUME NEW u \in Span(r[1], r[2])
          PROVE  Sought(o, file, truth, u)
      <4>1. u \in Units
        BY DEF Span
      <4>2. CASE truth.val[u] = 0
        BY <4>2 DEF Sought, Ready
      <4>3. CASE truth.val[u] # 0
        <5>1. PICK d \in Centers : Page(u) \in file[d].alloc
          BY <4>1, <4>3, <1>2 DEF Current
        <5> QED BY <5>1, <2>2 DEF Sought, Ready
      <4> QED BY <4>2, <4>3
    <3> QED BY <3>1, <3>2, <1>1, <2>2 DEF FetchingAt
  <2> QED BY <1>1, <1>2, <2>1, <2>2, <2>3, <2>4, <2>5, OpTyped, AloneStep
<1> QED BY <1>6, <1>7

\* What a peer answers.
Answer(f, lo, hi) == [u \in find_data_in_range(f, lo, hi) |-> f.val[u]]

LEMMA AnswerGenuine ==
  ASSUME NEW t \in Contents, NEW f \in Copies, Agrees(f, t),
         \A u \in Units : t.val[u] # 0 => u < t.size,
         NEW lo \in Nat, NEW hi \in Nat, lo % PageSize = 0, hi % PageSize = 0,
         NEW reply, reply = Answer(f, lo, hi)
  PROVE  /\ reply \in Replies /\ Genuine(reply, t)
         /\ \A u \in Span(lo, hi) : Page(u) \in f.alloc => u \in DOMAIN reply \/ t.val[u] = 0
<1> DEFINE D == find_data_in_range(f, lo, hi)
<1>0. f.size \in Nat /\ f.size = t.size /\ \A u \in Units : u \in Nat /\ f.val[u] \in Nat
  BY CopyTyped, UnitPage DEF Agrees
<1>1. /\ D \in SUBSET Units
      /\ \A u \in Units : u \in D <=> lo <= u /\ u < hi /\ u < t.size /\ Page(u) \in f.alloc
  BY <1>0 DEF find_data_in_range, Span, Min2
<1>2. DOMAIN reply = D /\ reply \in [D -> Nat]
  BY <1>0, <1>1 DEF Answer
<1>3. \A u \in D : reply[u] = f.val[u]
  BY DEF Answer
<1> HIDE DEF D
<1>4. reply \in Replies
  BY <1>1, <1>2 DEF Replies
<1>5. \A u \in DOMAIN reply : u < t.size /\ reply[u] = t.val[u]
  BY <1>1, <1>2, <1>3 DEF Agrees
<1>6. ASSUME NEW u \in DOMAIN reply, NEW v \in Units, Page(v) = Page(u), v < t.size
      PROVE  v \in DOMAIN reply
  <2>1. u \in Nat /\ v \in Nat /\ lo <= u /\ u < hi /\ Page(u) \in f.alloc
    BY <1>0, <1>1, <1>2
  <2>2. lo <= v
    BY <2>1, <1>6, WholePages
  <2>3. v < hi
    <3>1. hi <= v => hi <= u
      BY <2>1, <1>6, WholePages
    <3> QED BY <3>1, <2>1
  <2> QED BY <2>1, <2>2, <2>3, <1>1, <1>2, <1>6
<1>7. Genuine(reply, t)
  BY <1>5, <1>6 DEF Genuine
<1>8. ASSUME NEW u \in Span(lo, hi), Page(u) \in f.alloc
      PROVE  u \in DOMAIN reply \/ t.val[u] = 0
  BY <1>1, <1>2, <1>8 DEF Span
<1> QED BY <1>4, <1>7, <1>8

LEMMA FetchInv ==
  ASSUME ReplicaInv, NEW w \in Workers, Fetch(w)
  PROVE  ReplicaInv'
<1> DEFINE c == op[w].c
           r == Head(op[w].syncs)
<1>1. op[w].pc = "fetch" /\ UNCHANGED <<file, queue, told, truth, ops>>
  BY DEF Fetch
<1>2. Alone(w) /\ Current(file, truth)
  BY <1>1, BusyAlone, CurrentCopies DEF Busy
<1>3. op[w] \in Operations /\ c \in Centers /\ truth \in Contents
  BY OpTyped
<1>4. PreparedAt(op[w], file, truth) /\ FetchingAt(op[w], file, truth)
  BY DEF ReplicaInv, Prepared, Fetching
<1>5. /\ op[w].reply = NoData /\ c \notin op[w].peers
      /\ \A u \in Span(r[1], r[2]) : Sought(op[w], file, truth, u)
  BY <1>1, <1>4 DEF FetchingAt
<1>6. /\ op[w].syncs \in Seq(Nat \X Nat) /\ op[w].syncs # <<>>
      /\ r[1] \in Nat /\ r[2] \in Nat /\ r[1] % PageSize = 0 /\ r[2] % PageSize = 0
  BY <1>1, <1>4, OpTyped, FirstRange DEF PreparedAt
<1>7. CASE op[w].peers = {} /\ op' = AfterSync(w)
  <2>1. ASSUME NEW u \in Span(r[1], r[2])
        PROVE  Ready(file[c], truth, u)
    BY <1>5, <1>7, NoReply DEF Sought
  <2> QED BY <1>1, <1>7, <2>1, SyncedInv
<1>8. ASSUME NEW p \in op[w].peers, NEW reply,
             reply = [u \in find_data_in_range(file[p], r[1], r[2]) |-> file[p].val[u]],
             op' = [op EXCEPT ![w].pc = "fill", ![w].peers = @ \ {p}, ![w].reply = reply]
      PROVE  ReplicaInv'
  <2> DEFINE o == [op[w] EXCEPT !.pc = "fill", !.peers = @ \ {p}, !.reply = reply]
  <2>1. op' = [op EXCEPT ![w] = o]
    BY <1>3, <1>8
  <2>2. /\ file[p] \in Copies /\ Agrees(file[p], truth)
        /\ \A u \in Units : truth.val[u] # 0 => u < truth.size
    BY <1>2, OpTyped DEF Current
  <2>3. /\ reply \in Replies /\ Genuine(reply, truth)
        /\ \A u \in Span(r[1], r[2]) : Page(u) \in file[p].alloc =>
                                         u \in DOMAIN reply \/ truth.val[u] = 0
    <3>1. PICK lo \in Nat, hi \in Nat : lo = r[1] /\ hi = r[2]
      BY <1>6
    <3>2. PICK f \in Copies : f = file[p]
      BY <2>2
    <3>3. reply = Answer(f, lo, hi)
      BY <1>8, <3>1, <3>2 DEF Answer
    <3> HIDE DEF r
    <3>4. /\ reply \in Replies /\ Genuine(reply, truth)
          /\ \A u \in Span(lo, hi) : Page(u) \in f.alloc => u \in DOMAIN reply \/ truth.val[u] = 0
      BY <1>3, <1>6, <2>2, <3>1, <3>2, <3>3, AnswerGenuine
    <3> QED BY <3>1, <3>2, <3>4
  <2>4. /\ o \in Operations
        /\ o.pc = "fill" /\ o.peers = op[w].peers \ {p} /\ o.c = c /\ o.syncs = op[w].syncs
        /\ o.reply = reply /\ o.type = op[w].type /\ o.lo = op[w].lo /\ o.hi = op[w].hi
    BY <1>3, <2>3 DEF Operations, OpStates
  <2> HIDE DEF o
  <2>5. SettledAt(o, file', truth')
    BY <1>1, <1>2, <2>4 DEF SettledAt
  <2>6. PreparedAt(o, file', truth')
    BY <1>1, <1>4, <2>4 DEF PreparedAt, Wanted
  <2>7. FetchingAt(o, file', truth')
    <3>1. ASSUME NEW u \in Span(r[1], r[2])
          PROVE  Sought(o, file, truth, u)
      <4>1. CASE Ready(file[c], truth, u)
        BY <4>1, <2>4 DEF Sought
      <4>2. CASE \E q \in op[w].peers : q # p /\ Page(u) \in file[q].alloc
        BY <4>2, <2>4 DEF Sought
      <4>3. CASE Page(u) \in file[p].alloc
        BY <4>3, <2>3, <2>4 DEF Sought, Ready
      <4>4. Sought(op[w], file, truth, u)
        BY <1>5
      <4> QED BY <4>1, <4>2, <4>3, <4>4, <1>5, NoReply DEF Sought
    <3> QED BY <3>1, <1>1, <1>5, <2>3, <2>4 DEF FetchingAt
  <2> QED BY <1>1, <1>2, <2>1, <2>4, <2>5, <2>6, <2>7, OpTyped, AloneStep
<1> QED BY <1>7, <1>8 DEF Fetch

LEMMA FillInv ==
  ASSUME ReplicaInv, NEW w \in Workers, Fill(w)
  PROVE  ReplicaInv'
<1> DEFINE c == op[w].c
           r == Head(op[w].syncs)
           o == [op[w] EXCEPT !.pc = "fetch", !.reply = NoData]
<1>1. /\ op[w].pc = "fill" /\ UNCHANGED <<queue, told, truth, ops>>
      /\ file' = [file EXCEPT ![c] = Pwrite(@, op[w].reply)]
  BY DEF Fill
<1>2. Alone(w) /\ Current(file, truth)
  BY <1>1, BusyAlone, CurrentCopies DEF Busy
<1>3. /\ op[w] \in Operations /\ c \in Centers /\ truth \in Contents /\ ops \in Nat
      /\ op[w].reply \in Replies /\ file \in [Centers -> Copies] /\ op[w].peers \in SUBSET Centers
  BY OpTyped
<1>4. PreparedAt(op[w], file, truth) /\ FetchingAt(op[w], file, truth)
  BY DEF ReplicaInv, Prepared, Fetching
<1>5. /\ Genuine(op[w].reply, truth) /\ c \notin op[w].peers
      /\ \A u \in Span(r[1], r[2]) : Sought(op[w], file, truth, u)
  BY <1>1, <1>4 DEF FetchingAt
<1>6. op' = [op EXCEPT ![w] = o]
  BY <1>3 DEF Fill
<1>7. /\ o \in Operations
      /\ o.pc = "fetch" /\ o.peers = op[w].peers /\ o.c = c /\ o.syncs = op[w].syncs
      /\ o.reply = NoData /\ o.type = op[w].type /\ o.lo = op[w].lo /\ o.hi = op[w].hi
  BY <1>3, NoReply DEF Operations, OpStates
<1> HIDE DEF o
<1>8. /\ Current(file', truth)
      /\ Pwrite(file[c], op[w].reply).alloc =
           file[c].alloc \cup {Page(u) : u \in DOMAIN op[w].reply}
  <2>1. PICK reply \in Replies : reply = op[w].reply
    BY <1>3
  <2>2. PICK e : e = file
    OBVIOUS
  <2>3. PICK d \in Centers : d = c
    BY <1>3
  <2>4. Current(e, truth) /\ Genuine(reply, truth)
    BY <1>2, <1>5, <2>1, <2>2
  <2>5. /\ Current([e EXCEPT ![d] = Pwrite(@, reply)], truth)
        /\ Pwrite(e[d], reply).alloc = e[d].alloc \cup {Page(u) : u \in DOMAIN reply}
    BY <2>4, <1>3, FillCurrent
  <2> QED BY <2>1, <2>2, <2>3, <2>5, <1>1
<1>9. /\ file'[c].alloc = file[c].alloc \cup {Page(u) : u \in DOMAIN op[w].reply}
      /\ \A d \in Centers : d # c => file'[d] = file[d]
  BY <1>1, <1>3, <1>8
<1>10. \A u : Ready(file[c], truth, u) => Ready(file'[c], truth, u)
  BY <1>9 DEF Ready
<1>11. SettledAt(o, file', truth')
  BY <1>1, <1>7, <1>8 DEF SettledAt
<1>12. PreparedAt(o, file', truth')
  BY <1>1, <1>4, <1>7, <1>10 DEF PreparedAt, Wanted
<1>13. FetchingAt(o, file', truth')
  <2>1. Genuine(o.reply, truth)
    BY <1>7, NoReply DEF Genuine
  <2>2. ASSUME NEW u \in Span(r[1], r[2])
        PROVE  Sought(o, file', truth, u)
    <3>1. CASE Ready(file[c], truth, u)
      BY <3>1, <1>7, <1>10 DEF Sought
    <3>2. CASE u \in DOMAIN op[w].reply
      BY <3>2, <1>7, <1>9 DEF Sought, Ready
    <3>3. CASE \E p \in op[w].peers : Page(u) \in file[p].alloc
      BY <3>3, <1>3, <1>5, <1>7, <1>9 DEF Sought
    <3> QED BY <3>1, <3>2, <3>3, <1>5 DEF Sought
  <2> QED BY <2>1, <2>2, <1>1, <1>5, <1>7 DEF FetchingAt
<1>14. file' \in [Centers -> Copies]
  BY <1>8 DEF Current
<1> QED BY <1>1, <1>2, <1>3, <1>6, <1>7, <1>11, <1>12, <1>13, <1>14, AloneStep

\* At the system call everything the operation relies on is ready.
LEMMA ReadyToDo ==
  ASSUME ReplicaInv, NEW w \in Workers, op[w].pc = "do"
  PROVE  /\ Alone(w) /\ Current(file, truth)
         /\ op[w].type = "write" => op[w].lo < op[w].hi /\ op[w].hi \in Sizes
         /\ \A u \in Wanted(op[w]) : Ready(file[op[w].c], truth, u)
<1>1. Alone(w) /\ Current(file, truth)
  BY BusyAlone, CurrentCopies DEF Busy
<1>2. PreparedAt(op[w], file, truth)
  BY DEF ReplicaInv, Prepared
<1>3. op[w].syncs = <<>>
  BY <1>2 DEF PreparedAt
<1>4. \A u : ~Covers(op[w].syncs, u)
  BY <1>3 DEF Covers
<1> QED BY <1>1, <1>2, <1>4 DEF PreparedAt

LEMMA DoReadInv ==
  ASSUME ReplicaInv, NEW w \in Workers, DoRead(w)
  PROVE  ReplicaInv'
<1> DEFINE reply == Pread(file[op[w].c], op[w].lo, op[w].hi)
           o == [op[w] EXCEPT !.pc = "done", !.reply = reply]
<1>1. op[w].pc = "do" /\ UNCHANGED <<file, queue, told, truth, ops>>
  BY DEF DoRead
<1>2. Alone(w) /\ Current(file, truth)
  BY <1>1, ReadyToDo
<1>3. op[w] \in Operations /\ file[op[w].c] \in Copies
  BY OpTyped
<1>4. reply \in Replies
  <2> DEFINE D == Span(op[w].lo, Min2(op[w].hi, file[op[w].c].size))
  <2>1. D \in SUBSET Units
    BY DEF Span
  <2>2. reply \in [D -> Nat]
    BY <2>1, <1>3, CopyTyped DEF Pread
  <2> HIDE DEF D, reply
  <2> QED BY <2>1, <2>2 DEF Replies
<1>5. op' = [op EXCEPT ![w] = o]
  BY <1>3 DEF DoRead
<1> HIDE DEF reply
<1>6. o \in Operations /\ o.pc = "done"
  BY <1>3, <1>4 DEF Operations, OpStates
<1> HIDE DEF o
<1>7. SettledAt(o, file', truth') /\ PreparedAt(o, file', truth') /\ FetchingAt(o, file', truth')
  BY <1>1, <1>2, <1>6 DEF SettledAt, PreparedAt, FetchingAt
<1> QED BY <1>1, <1>2, <1>5, <1>6, <1>7, OpTyped, AloneStep

\* A write or truncate is settled as soon as its peers are going to execute it.
Done(w, f, e) ==
  /\ op' = [op EXCEPT ![w].pc = "submit"] /\ UNCHANGED <<queue, told, ops>>
  /\ file' = [file EXCEPT ![op[w].c] = f]
  /\ truth' \in Contents /\ Current(e, truth') /\ e[op[w].c] = f
  /\ \A d \in Centers : d # op[w].c => e[d] = Executed(file[d], UpdateOf(op[w]))

LEMMA DoneInv ==
  ASSUME ReplicaInv, NEW w \in Workers, op[w].pc = "do", op[w].type # "read",
         NEW f, NEW e, Done(w, f, e)
  PROVE  ReplicaInv'
<1> DEFINE c == op[w].c
           o == [op[w] EXCEPT !.pc = "submit"]
<1>1. op[w] \in Operations /\ c \in Centers /\ file \in [Centers -> Copies] /\ ops \in Nat
  BY OpTyped
<1>2. op' = [op EXCEPT ![w] = o]
  BY <1>1 DEF Done
<1>3. /\ o \in Operations /\ o.pc = "submit" /\ o.c = c
      /\ o.type = op[w].type /\ o.lo = op[w].lo /\ o.hi = op[w].hi
  BY <1>1 DEF Operations, OpStates
<1> HIDE DEF o
<1>4. UpdateOf(o) = UpdateOf(op[w])
  BY <1>3 DEF UpdateOf
<1>5. e \in [Centers -> Copies]
  BY DEF Done, Current
<1>6. file' \in [Centers -> Copies] /\ file'[c] = f /\ \A d \in Centers : d # c => file'[d] = file[d]
  BY <1>1, <1>5 DEF Done
<1>7. After(file', c, {}, UpdateOf(o)) = e
  <2>1. ASSUME NEW d \in Centers
        PROVE  (IF d \in {} \cup {c} THEN file'[d] ELSE Executed(file'[d], UpdateOf(o))) = e[d]
    BY <1>4, <1>6 DEF Done
  <2> QED BY <2>1, <1>5 DEF After
<1>8. SettledAt(o, file', truth') /\ PreparedAt(o, file', truth') /\ FetchingAt(o, file', truth')
  BY <1>3, <1>7 DEF Done, SettledAt, PreparedAt, FetchingAt
<1>9. Alone(w)
  BY ReadyToDo
<1> QED BY <1>1, <1>2, <1>3, <1>6, <1>8, <1>9, AloneStep DEF Done

LEMMA DoWriteInv ==
  ASSUME ReplicaInv, NEW w \in Workers, DoWrite(w)
  PROVE  ReplicaInv'
<1>0. op[w].pc = "do" /\ op[w].type = "write"
  BY DEF DoWrite
<1>1. PICK c \in Centers, lo \in Nat, hi \in Nat : c = op[w].c /\ lo = op[w].lo /\ hi = op[w].hi
  BY OpTyped
<1>2. PICK data : data = [u \in Span(lo, hi) |-> ops + 1]
  OBVIOUS
<1>3. /\ file' = [file EXCEPT ![c] = Pwrite(@, data)]
      /\ truth' = Put(truth, data, hi)
      /\ op' = [op EXCEPT ![w].pc = "submit"] /\ UNCHANGED <<queue, told, ops>>
  BY <1>1, <1>2 DEF DoWrite, Put
<1>4. data \in Replies /\ DOMAIN data = Span(lo, hi)
  <2>1. Span(lo, hi) \in SUBSET Units /\ ops + 1 \in Nat
    BY OpTyped DEF Span
  <2>2. data \in [Span(lo, hi) -> Nat]
    BY <1>2, <2>1
  <2> QED BY <2>1, <2>2 DEF Replies
<1>5. /\ Current(file, truth) /\ lo < hi /\ hi \in Sizes
      /\ \A u \in Wanted(op[w]) : Ready(file[c], truth, u)
  BY <1>0, <1>1, ReadyToDo
<1>6. \A u \in Units : Page(u) \in PunchPages(lo, hi) /\ u \notin Span(lo, hi) =>
                         Ready(file[c], truth, u)
  BY <1>0, <1>1, <1>5 DEF Wanted
<1>7. PICK e0 : e0 = file
  OBVIOUS
<1>8. PICK t \in Contents : t = truth
  BY OpTyped
<1> DEFINE e == [d \in Centers |-> IF d = c THEN Pwrite(e0[c], data)
                                   ELSE punch_hole_local(e0[d], lo, hi)]
<1>9. Current(e, Put(t, data, hi))
  <2>1. /\ Current(e0, t)
        /\ \A u \in Units : Page(u) \in PunchPages(lo, hi) /\ u \notin Span(lo, hi) =>
                              Ready(e0[c], t, u)
    BY <1>5, <1>6, <1>7, <1>8
  <2> QED BY <2>1, <1>4, <1>5, WriteCurrent
<1>10. Put(t, data, hi) \in Contents
  <2> DEFINE va == [u \in Units |-> IF u \in DOMAIN data THEN data[u] ELSE t.val[u]]
  <2>1. va \in [Units -> Nat]
    BY <1>4, ReplyTyped, ContentTyped
  <2>2. Max2(t.size, hi) \in Nat
    BY ContentTyped DEF Max2
  <2>3. Put(t, data, hi) = [size |-> Max2(t.size, hi), val |-> va]
    BY DEF Put
  <2> HIDE DEF va
  <2> QED BY <2>1, <2>2, <2>3 DEF Contents
<1>11. /\ e[c] = Pwrite(file[c], data)
       /\ \A d \in Centers : d # c => e[d] = punch_hole_local(file[d], lo, hi)
  BY <1>7
<1> HIDE DEF e
<1>12. \A g : Executed(g, UpdateOf(op[w])) = punch_hole_local(g, lo, hi)
  BY <1>0, <1>1 DEF Executed, UpdateOf
<1>13. PICK f : f = Pwrite(file[c], data)
  OBVIOUS
<1>14. Done(w, f, e)
  BY <1>1, <1>3, <1>8, <1>9, <1>10, <1>11, <1>12, <1>13 DEF Done
<1> QED BY <1>0, <1>14, DoneInv

LEMMA DoTruncateInv ==
  ASSUME ReplicaInv, NEW w \in Workers, DoTruncate(w)
  PROVE  ReplicaInv'
<1>0. op[w].pc = "do" /\ op[w].type = "truncate"
  BY DEF DoTruncate
<1>1. PICK c \in Centers, hi \in Nat : c = op[w].c /\ hi = op[w].hi
  BY OpTyped
<1>2. PICK e0 : e0 = file
  OBVIOUS
<1>3. PICK t \in Contents : t = truth
  BY OpTyped
<1> DEFINE va == [u \in Units |-> IF u < hi THEN t.val[u] ELSE 0]
<1>4. /\ file' = [file EXCEPT ![c] = Resize(@, hi)]
      /\ truth' = [t EXCEPT !.size = hi, !.val = va]
      /\ op' = [op EXCEPT ![w].pc = "submit"] /\ UNCHANGED <<queue, told, ops>>
  BY <1>1, <1>3 DEF DoTruncate
<1>5. truth' \in Contents /\ truth' = Cut(t, hi)
  <2>1. va \in [Units -> Nat] /\ Cut(t, hi) = [size |-> hi, val |-> va]
    BY ContentTyped DEF Cut
  <2> HIDE DEF va
  <2>2. truth' \in Contents /\ truth'.size = hi /\ truth'.val = va
    BY <2>1, <1>4 DEF Contents
  <2> QED BY <2>1, <2>2 DEF Contents
<1> DEFINE e == [d \in Centers |-> Resize(e0[d], hi)]
<1>6. Current(e, Cut(t, hi))
  <2>1. Current(e0, t)
    BY <1>0, <1>2, <1>3, ReadyToDo
  <2> QED BY <2>1, TruncateCurrent
<1>7. \A d \in Centers : e[d] = Resize(file[d], hi)
  BY <1>2
<1> HIDE DEF e
<1>8. \A g : Executed(g, UpdateOf(op[w])) = Resize(g, hi)
  BY <1>0, <1>1 DEF Executed, UpdateOf
<1>9. PICK f : f = Resize(file[c], hi)
  OBVIOUS
<1>10. Done(w, f, e)
  BY <1>1, <1>4, <1>5, <1>6, <1>7, <1>8, <1>9 DEF Done
<1> QED BY <1>0, <1>10, DoneInv

LEMMA SubmitInv ==
  ASSUME ReplicaInv, NEW w \in Workers, Submit(w)
  PROVE  ReplicaInv'
<1>0. PICK c \in Centers : c = op[w].c
  BY OpTyped
<1>1. PICK r : r = UpdateOf(op[w])
  OBVIOUS
<1>2. /\ op[w].pc = "submit" /\ UNCHANGED <<file, told, truth, ops>>
      /\ queue' = [queue EXCEPT ![c] = Append(@, r)]
      /\ op' = [op EXCEPT ![w].pc = "done"]
  BY <1>0, <1>1 DEF Submit, UpdateOf
<1>3. /\ \A v \in Workers : v # w => ~Busy(v)
      /\ \A d \in Centers : queue[d] = <<>> /\ told[d] = {}
  BY <1>2, BusyAlone DEF Alone, Busy, ReplicaInv, Turns
<1>4. queue \in [Centers -> Seq(Requests)] /\ op \in [Workers -> Operations]
  BY DEF ReplicaInv, Typed
<1>5. /\ Current(After(file, c, {}, r), truth)
  BY <1>0, <1>1, <1>2 DEF ReplicaInv, Settled
<1>6. op[w].type \in {"write", "truncate"} => r \in Requests
  BY <1>1, OpTyped DEF UpdateOf, Requests
<1>7. op[w].type # "read"
  BY <1>2 DEF ReplicaInv, Posted
<1>8. r \in Requests
  BY <1>4, <1>6, <1>7 DEF Operations
<1>9. queue'[c] = <<r>> /\ \A d \in Centers : d # c => queue'[d] = <<>>
  <2>1. queue'[c] = Append(queue[c], r) /\ \A d \in Centers : d # c => queue'[d] = queue[d]
    BY <1>2, <1>4
  <2>2. Append(<<>>, r) = <<r>>
    OBVIOUS
  <2> QED BY <2>1, <2>2, <1>3
<1>10. queue'[c] # <<>> /\ Len(queue'[c]) = 1 /\ Head(queue'[c]) = r
  BY <1>9
<1>11. \A v \in Workers : op'[v].pc \in {"idle", "done"}
  BY <1>2, <1>3, <1>4 DEF Busy, Operations
<1>12. Typed'
  <2>1. queue' \in [Centers -> Seq(Requests)]
    BY <1>2, <1>4, <1>8
  <2>2. op' \in [Workers -> Operations]
    <3> DEFINE o == [op[w] EXCEPT !.pc = "done"]
    <3>1. o \in Operations /\ op' = [op EXCEPT ![w] = o]
      BY <1>2, <1>4 DEF Operations, OpStates
    <3> HIDE DEF o
    <3> QED BY <3>1, <1>4
  <2> QED BY <2>1, <2>2, <1>2 DEF ReplicaInv, Typed
<1>13. Turns'
  BY <1>2, <1>3, <1>9, <1>10, <1>11 DEF Turns, Busy
<1>14. Settled'
  <2>1. Current(After(file', c, told'[c], Head(queue'[c])), truth')
    BY <1>2, <1>3, <1>5, <1>10
  <2> QED BY <2>1, <1>9, <1>10, <1>11 DEF Settled
<1>15. Prepared' /\ Fetching' /\ Posted'
  BY <1>11 DEF Prepared, Fetching, Posted, PreparedAt, FetchingAt
<1> QED BY <1>12, <1>13, <1>14, <1>15 DEF ReplicaInv

LEMMA DeliverInv ==
  ASSUME ReplicaInv, NEW c \in Centers, NEW d \in Centers, Deliver(c, d)
  PROVE  ReplicaInv'
<1>1. /\ queue[c] # <<>> /\ d \notin told[c] \cup {c} /\ UNCHANGED <<op, truth, ops>>
      /\ file' = [file EXCEPT ![d] = Executed(@, Head(queue[c]))]
      /\ \/ /\ told[c] \cup {c, d} = Centers
            /\ queue' = [queue EXCEPT ![c] = Tail(@)] /\ told' = [told EXCEPT ![c] = {}]
         \/ /\ told[c] \cup {c, d} # Centers
            /\ told' = [told EXCEPT ![c] = @ \cup {d}] /\ UNCHANGED queue
  BY DEF Deliver
<1>2. /\ \A w \in Workers : op[w].pc \in {"idle", "done"}
      /\ Len(queue[c]) = 1 /\ \A x \in Centers : x # c => queue[x] = <<>> /\ told[x] = {}
  BY <1>1 DEF ReplicaInv, Turns, Busy
<1>3. /\ file \in [Centers -> Copies] /\ queue \in [Centers -> Seq(Requests)]
      /\ told \in [Centers -> SUBSET Centers]
  BY DEF ReplicaInv, Typed
<1>4. PICK r : r = Head(queue[c])
  OBVIOUS
<1>5. PICK e : e = After(file, c, told[c], r)
  OBVIOUS
<1>6. Current(e, truth)
  BY <1>1, <1>4, <1>5 DEF ReplicaInv, Settled
<1>7. \A x \in Centers : e[x] = IF x \in told[c] \cup {c} THEN file[x] ELSE Executed(file[x], r)
  BY <1>5 DEF After
<1>8. file'[d] = e[d] /\ \A x \in Centers : x # d => file'[x] = file[x]
  BY <1>1, <1>3, <1>4, <1>7
<1>9. file' \in [Centers -> Copies]
  <2>1. e[d] \in Copies
    BY <1>6 DEF Current
  <2> QED BY <2>1, <1>1, <1>3, <1>8
<1>10. After(file', c, told[c] \cup {d}, r) = e
  <2>1. e \in [Centers -> Copies]
    BY <1>6 DEF Current
  <2>2. ASSUME NEW x \in Centers
        PROVE  (IF x \in (told[c] \cup {d}) \cup {c} THEN file'[x] ELSE Executed(file'[x], r))
                 = e[x]
    BY <1>1, <1>7, <1>8
  <2> QED BY <2>1, <2>2 DEF After
<1>11. Prepared' /\ Fetching' /\ Posted'
  BY <1>1, <1>2 DEF Prepared, Fetching, Posted, PreparedAt, FetchingAt
<1>12. CASE told[c] \cup {c, d} = Centers
  <2>1. /\ queue' = [queue EXCEPT ![c] = Tail(@)] /\ told' = [told EXCEPT ![c] = {}]
    BY <1>1, <1>12
  <2>2. Tail(queue[c]) = <<>>
    <3>1. PICK q \in Seq(Requests) : q = queue[c]
      BY <1>3
    <3>2. Tail(q) \in Seq(Requests) /\ Len(Tail(q)) = 0
      BY <3>1, <1>1, <1>2
    <3>3. Tail(q) = <<>>
      BY <3>2, EmptySeq
    <3> QED BY <3>1, <3>3
  <2>3. \A x \in Centers : queue'[x] = <<>> /\ told'[x] = {}
    BY <2>1, <2>2, <1>2, <1>3
  <2>4. Typed'
    <3>1. <<>> \in Seq(Requests)
      BY EmptySeq
    <3>2. queue' \in [Centers -> Seq(Requests)] /\ told' \in [Centers -> SUBSET Centers]
      BY <3>1, <2>1, <2>2, <1>3
    <3> QED BY <3>2, <1>1, <1>9 DEF ReplicaInv, Typed
  <2>5. Turns'
    BY <2>3, <1>1, <1>2 DEF Turns, Busy
  <2>6. file' = e
    <3>1. e \in [Centers -> Copies]
      BY <1>6 DEF Current
    <3>2. \A x \in Centers : file'[x] = e[x]
      BY <1>7, <1>8, <1>12
    <3> QED BY <3>1, <3>2, <1>9
  <2>7. Settled'
    BY <2>3, <2>6, <1>1, <1>2, <1>6 DEF Settled
  <2> QED BY <2>4, <2>5, <2>7, <1>11 DEF ReplicaInv
<1>13. CASE told[c] \cup {c, d} # Centers
  <2>1. told' = [told EXCEPT ![c] = @ \cup {d}] /\ UNCHANGED queue
    BY <1>1, <1>13
  <2>2. /\ told' \in [Centers -> SUBSET Centers] /\ told'[c] = told[c] \cup {d}
        /\ \A x \in Centers : x # c => told'[x] = {}
    BY <2>1, <1>2, <1>3
  <2>3. Typed'
    BY <2>1, <2>2, <1>1, <1>9 DEF ReplicaInv, Typed
  <2>4. Turns'
    BY <2>1, <2>2, <1>1, <1>2 DEF Turns, Busy
  <2>5. Current(After(file', c, told'[c], Head(queue'[c])), truth')
    BY <2>1, <2>2, <1>1, <1>4, <1>6, <1>10
  <2>6. Settled'
    BY <2>1, <2>5, <1>1, <1>2 DEF Settled
  <2> QED BY <2>3, <2>4, <2>6, <1>11 DEF ReplicaInv
<1> QED BY <1>12, <1>13

LEMMA StepInv == ASSUME AlignedReads, ReplicaInv, [SerialNext]_vars PROVE ReplicaInv'
<1>1. ASSUME NEW w \in Workers, Quiet, Begin(w) PROVE ReplicaInv'
  BY <1>1, BeginInv
<1>2. ASSUME NEW w \in Workers, Continue(w) PROVE ReplicaInv'
  BY <1>2, FindHolesInv, FetchInv, FillInv, DoReadInv, DoWriteInv, DoTruncateInv, SubmitInv
     DEF Continue
<1>3. ASSUME NEW c \in Centers, NEW d \in Centers, Deliver(c, d) PROVE ReplicaInv'
  BY <1>3, DeliverInv
<1>4. CASE UNCHANGED vars
  BY <1>4 DEF vars, ReplicaInv, Typed, Turns, Busy, Settled, Prepared, Fetching, Posted
<1> QED BY <1>1, <1>2, <1>3, <1>4 DEF SerialNext

(***************************************************************************)
(* The invariant holds throughout, for any number of centers, workers and  *)
(* pages and any page size, when the clients take turns and read whole     *)
(* pages.                                                                  *)
(***************************************************************************)
THEOREM Invariance == ASSUME AlignedReads PROVE SerialSpec => []ReplicaInv
<1>1. ReplicaInv /\ [SerialNext]_vars => ReplicaInv'
  BY StepInv
<1> QED BY <1>1, InitInv, PTL DEF SerialSpec

(***************************************************************************)
(* At rest, every page a center holds is the newest one and no data is     *)
(* without a holder: punch_hole_local at the peers and the writing over of *)
(* fetched data in sync_filedata leave no stale page and never remove the  *)
(* last copy.                                                              *)
(***************************************************************************)
THEOREM CopiesStayCurrent == ASSUME AlignedReads PROVE SerialSpec => []CopiesCurrent
<1>1. ReplicaInv => CopiesCurrent
  <2> SUFFICES ASSUME ReplicaInv, Quiet
               PROVE  /\ \A c \in Centers :
                           /\ file[c].size = truth.size
                           /\ \A u \in Units : Page(u) \in file[c].alloc =>
                                                 file[c].val[u] = truth.val[u]
                      /\ \A u \in Units : truth.val[u] # 0 =>
                           \E c \in Centers : Page(u) \in file[c].alloc
    BY DEF CopiesCurrent
  <2>1. Current(file, truth)
    BY DEF ReplicaInv, Settled, Quiet
  <2> QED BY <2>1 DEF Current, Agrees
<1> QED BY <1>1, Invariance, PTL

(***************************************************************************)
(* A read at any center answers with the newest data of the whole file, of *)
(* whichever center wrote it: the system call of a read comes after        *)
(* sync_filedata has fetched every page of the range that the center lacks.*)
(***************************************************************************)
THEOREM ReadsAlwaysLatest == ASSUME AlignedReads PROVE SerialSpec => ReadsLatest
<1> DEFINE Latest ==
      \A w \in Workers : op[w].type = "read" /\ op[w].pc = "do" /\ op'[w].pc = "done" =>
        op'[w].reply = [u \in Span(op[w].lo, Min2(op[w].hi, truth.size)) |-> truth.val[u]]
<1>1. ReplicaInv /\ [SerialNext]_vars => [Latest]_vars
  <2> SUFFICES ASSUME ReplicaInv, SerialNext, NEW w \in Workers,
                      op[w].type = "read", op[w].pc = "do", op'[w].pc = "done"
               PROVE  op'[w].reply =
                        [u \in Span(op[w].lo, Min2(op[w].hi, truth.size)) |-> truth.val[u]]
    BY DEF vars
  <2>1. op \in [Workers -> Operations]
    BY DEF ReplicaInv, Typed
  <2>2. DoRead(w)
    <3>1. PICK v \in Workers : (Quiet /\ Begin(v)) \/ Continue(v)
      BY DEF SerialNext, Deliver
    <3>2. ~Quiet
      BY DEF Quiet
    <3>3. v = w
      <4>1. \A x \in Workers : x # v => op'[x] = op[x]
        BY <3>1, <3>2, <2>1 DEF Continue, FindHoles, Fetch, Fill, DoRead, DoWrite, DoTruncate,
           Submit, AfterSync
      <4> QED BY <4>1
    <3> QED BY <3>1, <3>2, <3>3 DEF Continue, FindHoles, Fetch, Fill, DoWrite, DoTruncate, Submit
  <2>3. PICK f \in Copies : f = file[op[w].c]
    BY OpTyped
  <2>4. /\ Current(file, truth) /\ \A u \in Wanted(op[w]) : Ready(f, truth, u)
    BY <2>3, ReadyToDo
  <2>5. f.size = truth.size /\ f.size \in Nat
        /\ \A u \in Units : f.val[u] = IF Page(u) \in f.alloc THEN truth.val[u] ELSE 0
    BY <2>3, <2>4, OpTyped, CopyTyped DEF Current, Agrees
  <2>6. op'[w].reply = Pread(f, op[w].lo, op[w].hi)
    BY <2>1, <2>2, <2>3 DEF DoRead, Operations
  <2> DEFINE D == Span(op[w].lo, Min2(op[w].hi, truth.size))
  <2>7. op'[w].reply = [u \in D |-> f.val[u]]
    BY <2>5, <2>6 DEF Pread
  <2>8. ASSUME NEW u \in D
        PROVE  f.val[u] = truth.val[u]
    <3>1. u \in Units /\ u \in Span(op[w].lo, op[w].hi)
      BY <2>5, OpTyped, UnitPage DEF Span, Min2
    <3>2. Ready(f, truth, u)
      BY <3>1, <2>4 DEF Wanted
    <3> QED BY <3>1, <3>2, <2>5 DEF Ready
  <2> QED BY <2>7, <2>8
<1> QED BY <1>1, Invariance, PTL DEF ReadsLatest, SerialSpec

-----------------------------------------------------------------------------
(***************************************************************************)
(* Types, for clients that need not take turns.                            *)
(***************************************************************************)
\* The types of the state, as TypeOK has them, with the shape of the records and
\* what an operation still has to synchronise.
BoundedCopies ==
  {f \in [size : Sizes, alloc : SUBSET Pages, val : [Units -> Values]] :
     \A u \in Units : u >= f.size \/ Page(u) \notin f.alloc => f.val[u] = 0}
BoundedReplies == UNION {[D -> Values] : D \in SUBSET Units}
BoundedOperations ==
  [pc : OpStates, type : {"read", "write", "truncate"}, c : Centers, lo : Sizes, hi : Sizes,
   syncs : Seq(Sizes \X Sizes), peers : SUBSET Centers, reply : BoundedReplies]

ReplicaTypes ==
  /\ file \in [Centers -> BoundedCopies]
  /\ queue \in [Centers -> Seq(Update)]
  /\ told \in [Centers -> SUBSET Centers]
  /\ op \in [Workers -> BoundedOperations]
  /\ \A w \in Workers : /\ op[w].pc \in {"sync", "fetch", "fill"} => op[w].syncs # <<>>
                        /\ op[w].pc = "submit" => op[w].type # "read"
  /\ truth \in Content
  /\ ops \in 0 .. MaxOps

LEMMA SizeBounds ==
  /\ PageSize * NPages \in Nat
  /\ \A n \in Sizes : n \in Nat /\ n <= PageSize * NPages
  /\ 0 \in Sizes /\ 0 \in Values /\ 1 \in Values
  /\ \A u \in Units : u \in Nat /\ u + 1 \in Sizes
  /\ \A v \in Values : v \in Nat
  /\ \A n \in 0 .. MaxOps : n + 1 \in Values
BY PageAssumption, MaxOpsAssumption DEF Sizes, Units, Values

\* A copy of these types is one of the copies of the lemmas above.
LEMMA BoundedCopy ==
  ASSUME NEW f \in BoundedCopies
  PROVE  /\ f \in Copies
         /\ f.size \in Sizes /\ f.alloc \in SUBSET Pages /\ f.val \in [Units -> Values]
         /\ \A u \in Units : u >= f.size \/ Page(u) \notin f.alloc => f.val[u] = 0
<1>1. f \in [size : Sizes, alloc : SUBSET Pages, val : [Units -> Values]]
  BY DEF BoundedCopies
<1>2. f.size \in Nat /\ f.val \in [Units -> Nat]
  BY <1>1, SizeBounds
<1>3. f \in Copies
  BY <1>1, <1>2 DEF Copies
<1> QED BY <1>1, <1>3 DEF BoundedCopies

LEMMA CopyBounded ==
  ASSUME NEW f \in Copies, f.size \in Sizes, \A u \in Units : f.val[u] \in Values,
         \A u \in Units : u >= f.size \/ Page(u) \notin f.alloc => f.val[u] = 0
  PROVE  f \in BoundedCopies
<1>1. f.alloc \in SUBSET Pages /\ f.val \in [Units -> Values]
  BY CopyTyped
<1>2. f \in [size : Sizes, alloc : SUBSET Pages, val : [Units -> Values]]
  BY <1>1 DEF Copies
<1> QED BY <1>2 DEF BoundedCopies

LEMMA BoundedReply ==
  ASSUME NEW data \in BoundedReplies
  PROVE  /\ data \in Replies /\ DOMAIN data \subseteq Units
         /\ \A u \in DOMAIN data : data[u] \in Values
<1>1. PICK D \in SUBSET Units : data \in [D -> Values]
  BY DEF BoundedReplies
<1>2. data \in [D -> Nat]
  BY <1>1, SizeBounds
<1> QED BY <1>1, <1>2 DEF Replies

LEMMA ReplyBounded ==
  ASSUME NEW D \in SUBSET Units, NEW data \in [D -> Values]
  PROVE  data \in BoundedReplies
BY DEF BoundedReplies

\* A write ends within the file, and every page it reaches into is allocated.
LEMMA PwriteBounded ==
  ASSUME NEW f \in BoundedCopies, NEW data \in BoundedReplies
  PROVE  Pwrite(f, data) \in BoundedCopies
<1>1. /\ f \in Copies /\ data \in Replies /\ f.size \in Sizes
      /\ DOMAIN data \subseteq Units /\ \A u \in DOMAIN data : data[u] \in Values
      /\ \A u \in Units : f.val[u] \in Values
      /\ \A u \in Units : u >= f.size \/ Page(u) \notin f.alloc => f.val[u] = 0
  BY BoundedCopy, BoundedReply
<1> DEFINE D == DOMAIN data
           m == CHOOSE u \in D : \A v \in D : v <= u
           n == IF D = {} THEN f.size ELSE Max2(f.size, 1 + m)
<1>2. Pwrite(f, data).size = n
  BY DEF Pwrite
<1>3. D # {} => m \in D /\ \A v \in D : v <= m
  <2>1. D \in SUBSET Nat /\ \A u \in D : u < PageSize * NPages
    BY <1>1, SizeBounds, PageAssumption DEF Units
  <2> QED BY <2>1, SizeBounds, Greatest
<1> HIDE DEF m
<1>4. D # {} => m \in Units
  BY <1>1, <1>3
<1>5. n \in Sizes /\ n \in Nat /\ f.size <= n /\ \A v \in D : v < n
  <2>1. f.size \in Nat /\ \A v \in D : v \in Nat
    BY <1>1, SizeBounds
  <2>2. CASE D = {}
    BY <2>1, <2>2, <1>1
  <2>3. CASE D # {}
    <3>1. m \in Nat /\ m + 1 \in Sizes /\ n = Max2(f.size, 1 + m) /\ 1 + m = m + 1
      BY <2>3, <1>4, SizeBounds
    <3>2. \A v \in D : v <= m
      BY <2>3, <1>3
    <3> QED BY <3>1, <3>2, <2>1, <1>1 DEF Max2
  <2> QED BY <2>2, <2>3
<1> HIDE DEF n
<1>6. Written(f, data, n)
  BY <1>1, <1>2, <1>5, WrittenSize
<1> DEFINE g == Pwrite(f, data)
<1>7. /\ g \in Copies /\ g.size = n /\ g.alloc = f.alloc \cup {Page(u) : u \in D}
      /\ \A u \in Units : g.val[u] = IF u \in D THEN data[u] ELSE f.val[u]
  BY <1>6 DEF Written
<1> HIDE DEF g
<1>8. \A u \in Units : g.val[u] \in Values
  BY <1>1, <1>7
<1>9. ASSUME NEW u \in Units, u >= g.size \/ Page(u) \notin g.alloc
      PROVE  g.val[u] = 0
  <2>1. u \notin D
    <3>1. u \in Nat
      BY SizeBounds
    <3> QED BY <3>1, <1>9, <1>7, <1>5
  <2>2. u >= f.size \/ Page(u) \notin f.alloc
    <3>1. u \in Nat /\ f.size \in Nat
      BY <1>1, SizeBounds
    <3>2. u >= n => u >= f.size
      BY <3>1, <1>5
    <3>3. Page(u) \notin g.alloc => Page(u) \notin f.alloc
      BY <1>7
    <3> QED BY <3>2, <3>3, <1>9, <1>7
  <2> QED BY <2>1, <2>2, <1>7, <1>1
<1> QED BY <1>5, <1>7, <1>8, <1>9, CopyBounded DEF g

\* A truncate, shorter or longer.
LEMMA ResizeBounded ==
  ASSUME NEW f \in BoundedCopies, NEW n \in Sizes
  PROVE  Resize(f, n) \in BoundedCopies
<1>1. /\ f \in Copies /\ f.size \in Sizes /\ n \in Nat
      /\ \A u \in Units : f.val[u] \in Values
      /\ \A u \in Units : u >= f.size \/ Page(u) \notin f.alloc => f.val[u] = 0
  BY BoundedCopy, SizeBounds
<1> DEFINE g == Resize(f, n)
<1>2. /\ g \in Copies /\ g.size = n /\ g.alloc = {p \in f.alloc : p * PageSize < n}
      /\ \A u \in Units : g.val[u] = IF u < n THEN f.val[u] ELSE 0
  BY <1>1, Resized
<1> HIDE DEF g
<1>3. \A u \in Units : g.val[u] \in Values
  BY <1>1, <1>2, SizeBounds
<1>4. ASSUME NEW u \in Units, u >= g.size \/ Page(u) \notin g.alloc
      PROVE  g.val[u] = 0
  <2>1. CASE u < n
    <3>1. Page(u) * PageSize < n
      BY <2>1, <1>1, UnitPage, PageBounds, PageAssumption
    <3>2. Page(u) \notin f.alloc
      BY <3>1, <2>1, <1>1, <1>2, <1>4, SizeBounds
    <3> QED BY <3>2, <2>1, <1>1, <1>2
  <2>2. CASE ~(u < n)
    BY <2>2, <1>2
  <2> QED BY <2>1, <2>2
<1> QED BY <1>2, <1>3, <1>4, CopyBounded DEF g

\* An index update.
LEMMA HoleBounded ==
  ASSUME NEW f \in BoundedCopies, NEW lo \in Sizes, NEW hi \in Sizes
  PROVE  punch_hole_local(f, lo, hi) \in BoundedCopies
<1> DEFINE h == IF hi > f.size THEN Resize(f, hi) ELSE f
           P == PunchPages(lo, hi)
           g == Punch(h, P)
<1>1. h \in BoundedCopies
  BY ResizeBounded
<1> HIDE DEF h, P
<1>2. /\ h \in Copies /\ h.size \in Sizes /\ \A u \in Units : h.val[u] \in Values
      /\ \A u \in Units : u >= h.size \/ Page(u) \notin h.alloc => h.val[u] = 0
  BY <1>1, BoundedCopy
<1>3. /\ g \in Copies /\ g.size = h.size /\ g.alloc = h.alloc \ P
      /\ \A u \in Units : g.val[u] = IF Page(u) \in P THEN 0 ELSE h.val[u]
  BY <1>2, Punched
<1> HIDE DEF g
<1>4. /\ \A u \in Units : g.val[u] \in Values
      /\ \A u \in Units : u >= g.size \/ Page(u) \notin g.alloc => g.val[u] = 0
  BY <1>2, <1>3, SizeBounds
<1>5. g \in BoundedCopies
  BY <1>2, <1>3, <1>4, CopyBounded
<1> QED BY <1>5 DEF punch_hole_local, g, h, P

LEMMA ExecutedBounded ==
  ASSUME NEW f \in BoundedCopies, NEW r \in Update
  PROVE  Executed(f, r) \in BoundedCopies
<1>1. r.lo \in Sizes /\ r.hi \in Sizes
  BY DEF Update
<1> QED BY <1>1, ResizeBounded, HoleBounded DEF Executed

\* What is read of a copy.
LEMMA PreadBounded ==
  ASSUME NEW f \in BoundedCopies, NEW lo, NEW hi
  PROVE  /\ Pread(f, lo, hi) \in BoundedReplies
         /\ [u \in find_data_in_range(f, lo, hi) |-> f.val[u]] \in BoundedReplies
<1>1. f.val \in [Units -> Values]
  BY BoundedCopy
<1>2. Span(lo, Min2(hi, f.size)) \in SUBSET Units /\ find_data_in_range(f, lo, hi) \in SUBSET Units
  BY DEF Span, find_data_in_range
<1>3. /\ Pread(f, lo, hi) \in [Span(lo, Min2(hi, f.size)) -> Values]
      /\ [u \in find_data_in_range(f, lo, hi) |-> f.val[u]]
           \in [find_data_in_range(f, lo, hi) -> Values]
  BY <1>1, <1>2 DEF Pread
<1> QED BY <1>2, <1>3, ReplyBounded

\* The pages that are synchronised before a write lie within the file.
LEMMA UnalignedBounded ==
  ASSUME NEW lo \in Sizes, NEW hi \in Sizes, lo < hi
  PROVE  sync_unalign_page(lo, hi) \in Seq(Sizes \X Sizes)
<1>1. ASSUME NEW n \in Sizes, n < PageSize * NPages \/ n % PageSize # 0
      PROVE  PageRange(n \div PageSize) \in Sizes \X Sizes
  <2> DEFINE q == n \div PageSize
  <2>1. n \in Nat /\ n <= PageSize * NPages /\ PageSize * NPages \in Nat
    BY SizeBounds
  <2>2. q \in Nat /\ q * PageSize <= n
    BY <2>1, PageAssumption
  <2> HIDE DEF q
  <2>3. n < PageSize * NPages
    <3>1. (NPages * PageSize) % PageSize = 0
      BY MultipleOfPage, PageAssumption
    <3>2. NPages * PageSize = PageSize * NPages
      BY PageAssumption
    <3>3. n # PageSize * NPages
      <4>1. PICK m \in Nat : m = PageSize * NPages
        BY <2>1
      <4>2. m % PageSize = 0
        BY <4>1, <3>1, <3>2
      <4> QED BY <4>1, <4>2, <1>1, <2>1
    <3> QED BY <3>3, <2>1
  <2>4. q < NPages
    BY <2>2, <2>3, <2>1, PageAssumption
  <2>5. (q + 1) * PageSize <= PageSize * NPages
    BY <2>2, <2>4, PageAssumption
  <2>6. q * PageSize \in Nat /\ (q + 1) * PageSize \in Nat /\ q * PageSize <= (q + 1) * PageSize
    BY <2>2, PageAssumption
  <2>7. q * PageSize \in Sizes /\ (q + 1) * PageSize \in Sizes
    BY <2>1, <2>5, <2>6 DEF Sizes
  <2> QED BY <2>7 DEF PageRange, q
<1>2. lo < PageSize * NPages
  BY SizeBounds
<1> DEFINE a == PageRange(lo \div PageSize)
           b == PageRange(hi \div PageSize)
           X == Sizes \X Sizes
<1>3. a \in X /\ (hi % PageSize # 0 => b \in X)
  BY <1>1, <1>2
<1> HIDE DEF a, b, X
<1>4. (IF lo % PageSize # 0 THEN <<a>> ELSE <<>>) \in Seq(X)
  BY <1>3
<1>5. (IF hi % PageSize # 0 THEN <<b>> ELSE <<>>) \in Seq(X)
  BY <1>3
<1> DEFINE s == IF lo % PageSize # 0 THEN <<a>> ELSE <<>>
           t == IF hi % PageSize # 0 THEN <<b>> ELSE <<>>
<1>6. s \in Seq(X) /\ t \in Seq(X)
  BY <1>4, <1>5
<1> HIDE DEF s, t
<1>7. s \o t \in Seq(X)
  BY <1>6
<1> QED BY <1>7 DEF sync_unalign_page, s, t, a, b, X

-----------------------------------------------------------------------------
\* An operation that has ranges left while it synchronises, and is queued for
\* the peers only if it changed something.
Sensible(o) == /\ o \in BoundedOperations
               /\ o.pc \in {"sync", "fetch", "fill"} => o.syncs # <<>>
               /\ o.pc = "submit" => o.type # "read"

LEMMA NoDataBounded == NoData \in BoundedReplies
<1>1. NoData \in [{} -> Values]
  BY DEF NoData
<1> QED BY <1>1, ReplyBounded

LEMMA NoOpSensible == Sensible(NoOp)
<1>1. /\ <<>> \in Seq(Sizes \X Sizes) /\ 0 \in Sizes /\ Home \in Centers
      /\ NoData \in BoundedReplies
  BY SizeBounds, HomeAssumption, NoDataBounded
<1> QED BY <1>1 DEF NoOp, Sensible, BoundedOperations, OpStates

LEMMA OpSensible ==
  ASSUME ReplicaTypes, NEW w \in Workers
  PROVE  /\ Sensible(op[w]) /\ op[w] \in BoundedOperations
         /\ op[w].type \in {"read", "write", "truncate"} /\ op[w].c \in Centers
         /\ op[w].lo \in Sizes /\ op[w].hi \in Sizes /\ op[w].syncs \in Seq(Sizes \X Sizes)
         /\ op[w].peers \in SUBSET Centers /\ op[w].reply \in BoundedReplies
         /\ file[op[w].c] \in BoundedCopies
BY DEF ReplicaTypes, Sensible, BoundedOperations

\* A step of one operation, which may change a copy.
OneStep(w, o) == Sensible(o) /\ op' = [op EXCEPT ![w] = o]

LEMMA OneStepTypes ==
  ASSUME ReplicaTypes, NEW w \in Workers, NEW o, OneStep(w, o)
  PROVE  /\ op' \in [Workers -> BoundedOperations]
         /\ \A v \in Workers :
              /\ op'[v].pc \in {"sync", "fetch", "fill"} => op'[v].syncs # <<>>
              /\ op'[v].pc = "submit" => op'[v].type # "read"
<1>1. o \in BoundedOperations /\ op \in [Workers -> BoundedOperations]
  BY DEF OneStep, Sensible, ReplicaTypes
<1>2. /\ op' \in [Workers -> BoundedOperations]
      /\ \A v \in Workers : op'[v] = IF v = w THEN o ELSE op[v]
  BY <1>1 DEF OneStep
<1> QED BY <1>2 DEF OneStep, Sensible, ReplicaTypes

LEMMA QuietStep ==
  ASSUME ReplicaTypes, NEW w \in Workers, NEW o, OneStep(w, o),
         UNCHANGED <<file, queue, told, truth>>, ops' \in 0 .. MaxOps
  PROVE  ReplicaTypes'
BY OneStepTypes DEF ReplicaTypes

LEMMA InitReplicaTypes == Init => ReplicaTypes
<1> SUFFICES ASSUME Init PROVE ReplicaTypes
  OBVIOUS
<1>1. ASSUME NEW c \in Centers
      PROVE  file[c] \in BoundedCopies
  <2> DEFINE al == IF c = Home THEN {p \in Pages : p * PageSize < InitSize} ELSE {}
             va == [u \in Units |-> IF c = Home /\ u < InitSize THEN 1 ELSE 0]
  <2>1. file[c] = [size |-> InitSize, alloc |-> al, val |-> va]
    BY DEF Init
  <2>2. InitSize \in Sizes /\ InitSize \in Nat
    BY SizeAssumption, SizeBounds DEF Sizes
  <2>3. al \in SUBSET Pages /\ va \in [Units -> Values]
    BY SizeBounds
  <2>4. ASSUME NEW u \in Units, u >= InitSize \/ Page(u) \notin al
        PROVE  va[u] = 0
    <3>1. c = Home /\ u < InitSize => Page(u) \in al
      BY <2>2, UnitPage, PageBounds, PageAssumption
    <3>2. u \in Nat
      BY SizeBounds
    <3> QED BY <3>1, <3>2, <2>2, <2>4
  <2> HIDE DEF al, va
  <2> QED BY <2>1, <2>2, <2>3, <2>4 DEF BoundedCopies
<1>2. file \in [Centers -> BoundedCopies]
  BY <1>1 DEF Init
<1>3. truth \in Content
  BY SizeAssumption, SizeBounds DEF Init, Content, Sizes
<1>4. \A w \in Workers : op[w] = NoOp
  BY DEF Init
<1>5. op \in [Workers -> BoundedOperations]
  BY <1>4, NoOpSensible DEF Init, Sensible
<1>6. queue \in [Centers -> Seq(Update)] /\ told \in [Centers -> SUBSET Centers] /\ ops \in 0 .. MaxOps
  BY MaxOpsAssumption DEF Init
<1> QED BY <1>2, <1>3, <1>4, <1>5, <1>6, NoOpSensible DEF ReplicaTypes, Sensible

LEMMA StartTypes ==
  ASSUME ReplicaTypes, NEW w \in Workers, NEW type \in {"read", "write", "truncate"},
         NEW c \in Centers, NEW lo \in Sizes, NEW hi \in Sizes, NEW s \in Seq(Sizes \X Sizes),
         Start(w, type, c, lo, hi, s), ops' \in 0 .. MaxOps
  PROVE  ReplicaTypes'
<1> DEFINE o == [NoOp EXCEPT !.pc = IF s = <<>> THEN "do" ELSE "sync",
                             !.type = type, !.c = c, !.lo = lo, !.hi = hi, !.syncs = s]
           X == Sizes \X Sizes
<1>1. NoOp \in BoundedOperations
  BY NoOpSensible DEF Sensible
<1>2. /\ o \in BoundedOperations /\ o.syncs = s
      /\ o.pc = IF s = <<>> THEN "do" ELSE "sync"
  <2> HIDE DEF X
  <2>1. NoOp \in [pc : OpStates, type : {"read", "write", "truncate"}, c : Centers, lo : Sizes, hi : Sizes,
   syncs : Seq(X), peers : SUBSET Centers, reply : BoundedReplies]
    BY <1>1 DEF BoundedOperations, X
  <2>2. s \in Seq(X)
    BY DEF X
  <2> QED BY <2>1, <2>2 DEF BoundedOperations, X, OpStates
<1> HIDE DEF o
<1>3. Sensible(o)
  BY <1>2 DEF Sensible
<1>4. OneStep(w, o)
  BY <1>3 DEF OneStep, Start, o
<1> QED BY <1>4, QuietStep DEF Start

LEMMA BeginTypes ==
  ASSUME ReadRanges \subseteq Sizes \X Sizes, ReplicaTypes, NEW w \in Workers, Begin(w)
  PROVE  ReplicaTypes'
<1>0. ops \in 0 .. MaxOps
  BY DEF ReplicaTypes
<1>1. CASE StartRead(w)
  <2>1. PICK c \in Centers, r \in ReadRanges : Start(w, "read", c, r[1], r[2], <<r>>)
    BY <1>1 DEF StartRead
  <2>2. r \in Sizes \X Sizes /\ r[1] \in Sizes /\ r[2] \in Sizes
    OBVIOUS
  <2>3. <<r>> \in Seq(Sizes \X Sizes)
    BY <2>2
  <2>4. ops' \in 0 .. MaxOps
    BY <1>0, <1>1 DEF StartRead
  <2> QED BY <2>1, <2>2, <2>3, <2>4, StartTypes
<1>2. CASE StartWrite(w)
  <2>1. PICK c \in Centers, lo \in Sizes, hi \in Sizes :
          lo < hi /\ Start(w, "write", c, lo, hi, sync_unalign_page(lo, hi))
    BY <1>2 DEF StartWrite
  <2>2. sync_unalign_page(lo, hi) \in Seq(Sizes \X Sizes)
    BY <2>1, UnalignedBounded
  <2>3. ops' \in 0 .. MaxOps
    BY <1>0, <1>2, MaxOpsAssumption DEF StartWrite
  <2> QED BY <2>1, <2>2, <2>3, StartTypes
<1>3. CASE StartTruncate(w)
  <2>1. PICK c \in Centers, hi \in Sizes : Start(w, "truncate", c, hi, hi, <<>>)
    BY <1>3 DEF StartTruncate
  <2>2. <<>> \in Seq(Sizes \X Sizes)
    OBVIOUS
  <2>3. ops' \in 0 .. MaxOps
    BY <1>0, <1>3, MaxOpsAssumption DEF StartTruncate
  <2> QED BY <2>1, <2>2, <2>3, StartTypes
<1> QED BY <1>1, <1>2, <1>3 DEF Begin

\* The next range, after one has been synchronised.
Synced(o) == [o EXCEPT !.syncs = Tail(@), !.peers = {}, !.reply = NoData,
                       !.pc = IF Tail(o.syncs) = <<>> THEN "do" ELSE "sync"]

LEMMA SyncedSensible ==
  ASSUME NEW o, Sensible(o), o.pc \in {"sync", "fetch"}
  PROVE  Sensible(Synced(o))
<1> DEFINE X == Sizes \X Sizes
           t == Tail(o.syncs)
<1>1. /\ o \in [pc : OpStates, type : {"read", "write", "truncate"}, c : Centers, lo : Sizes,
                hi : Sizes, syncs : Seq(X), peers : SUBSET Centers, reply : BoundedReplies]
      /\ o.syncs # <<>>
  BY DEF Sensible, BoundedOperations
<1> HIDE DEF X
<1>2. t \in Seq(X)
  BY <1>1
<1> HIDE DEF t
<1>3. Synced(o) = [o EXCEPT !.syncs = t, !.peers = {}, !.reply = NoData,
                            !.pc = IF t = <<>> THEN "do" ELSE "sync"]
  BY DEF Synced, t
<1>4. /\ Synced(o) \in [pc : OpStates, type : {"read", "write", "truncate"}, c : Centers,
                        lo : Sizes, hi : Sizes, syncs : Seq(X), peers : SUBSET Centers,
                        reply : BoundedReplies]
      /\ Synced(o).syncs = t /\ Synced(o).pc = IF t = <<>> THEN "do" ELSE "sync"
  BY <1>1, <1>2, <1>3, NoDataBounded DEF OpStates
<1> QED BY <1>4 DEF Sensible, BoundedOperations, X

\* An operation that only moves on, with other peers to ask or another answer.
LEMMA MovedSensible ==
  ASSUME NEW o, Sensible(o), NEW pc \in OpStates, NEW peers \in SUBSET Centers,
         NEW reply \in BoundedReplies,
         pc \in {"sync", "fetch", "fill"} => o.pc \in {"sync", "fetch", "fill"},
         pc = "submit" => o.type # "read"
  PROVE  Sensible([o EXCEPT !.pc = pc, !.peers = peers, !.reply = reply])
BY DEF Sensible, BoundedOperations

LEMMA SearchTypes ==
  ASSUME ReplicaTypes, NEW w \in Workers, FindHoles(w) \/ Fetch(w)
  PROVE  ReplicaTypes'
<1>0. ops' \in 0 .. MaxOps /\ UNCHANGED <<file, queue, told, truth>>
  BY DEF ReplicaTypes, FindHoles, Fetch
<1> DEFINE x == op[w]
<1>1. /\ Sensible(x) /\ x.c \in Centers /\ x.peers \in SUBSET Centers
      /\ x.reply \in BoundedReplies /\ op \in [Workers -> BoundedOperations]
  BY OpSensible DEF ReplicaTypes
<1>2. PICK o : o = x
  OBVIOUS
<1>3. o \in BoundedOperations
  BY <1>1, <1>2 DEF Sensible
<1>4. CASE op' = AfterSync(w) /\ x.pc \in {"sync", "fetch"}
  <2>1. Sensible(Synced(o))
    BY <1>1, <1>2, <1>4, SyncedSensible
  <2>2. op' = [op EXCEPT ![w] = Synced(o)]
    BY <1>1, <1>2, <1>3, <1>4 DEF AfterSync, Synced, BoundedOperations
  <2> QED BY <1>0, <2>1, <2>2, QuietStep DEF OneStep
<1>5. CASE /\ x.pc = "sync"
           /\ op' = [op EXCEPT ![w].pc = "fetch", ![w].peers = Centers \ {x.c}]
  <2> DEFINE n == [o EXCEPT !.pc = "fetch", !.peers = Centers \ {x.c}, !.reply = x.reply]
  <2>1. Sensible(n)
    BY <1>1, <1>2, <1>5, MovedSensible DEF OpStates
  <2>2. op' = [op EXCEPT ![w] = n]
    BY <1>1, <1>2, <1>3, <1>5 DEF BoundedOperations
  <2> HIDE DEF n
  <2> QED BY <1>0, <2>1, <2>2, QuietStep DEF OneStep
<1>6. ASSUME NEW p \in x.peers, NEW r \in BoundedReplies, x.pc = "fetch",
             op' = [op EXCEPT ![w].pc = "fill", ![w].peers = @ \ {p}, ![w].reply = r]
      PROVE  ReplicaTypes'
  <2> DEFINE n == [o EXCEPT !.pc = "fill", !.peers = x.peers \ {p}, !.reply = r]
  <2>1. Sensible(n)
    BY <1>1, <1>2, <1>6, MovedSensible DEF OpStates
  <2>2. op' = [op EXCEPT ![w] = n]
    BY <1>1, <1>2, <1>3, <1>6 DEF BoundedOperations
  <2> HIDE DEF n
  <2> QED BY <1>0, <2>1, <2>2, QuietStep DEF OneStep
<1>7. \/ op' = AfterSync(w) /\ x.pc \in {"sync", "fetch"}
      \/ x.pc = "sync" /\ op' = [op EXCEPT ![w].pc = "fetch", ![w].peers = Centers \ {x.c}]
      \/ /\ x.pc = "fetch"
         /\ \E p \in x.peers : LET r == Head(x.syncs) IN
              op' = [op EXCEPT ![w].pc = "fill", ![w].peers = @ \ {p},
                               ![w].reply = [u \in find_data_in_range(file[p], r[1], r[2]) |->
                                               file[p].val[u]]]
  BY DEF FindHoles, Fetch
<1>8. CASE /\ x.pc = "fetch"
           /\ \E p \in x.peers : LET r == Head(x.syncs) IN
                op' = [op EXCEPT ![w].pc = "fill", ![w].peers = @ \ {p},
                                 ![w].reply = [u \in find_data_in_range(file[p], r[1], r[2]) |->
                                                 file[p].val[u]]]
  <2> DEFINE lo == Head(x.syncs)[1]
             hi == Head(x.syncs)[2]
             ans(p) == [u \in find_data_in_range(file[p], lo, hi) |-> file[p].val[u]]
  <2>1. PICK p \in x.peers :
          op' = [op EXCEPT ![w].pc = "fill", ![w].peers = @ \ {p}, ![w].reply = ans(p)]
    BY <1>8
  <2>2. file[p] \in BoundedCopies
    BY <1>1 DEF ReplicaTypes
  <2>3. ans(p) \in BoundedReplies
    BY <2>2, PreadBounded
  <2> HIDE DEF ans
  <2> QED BY <2>1, <2>3, <1>6, <1>8
<1> QED BY <1>4, <1>5, <1>7, <1>8

\* A step of one operation that changes its own copy, the content or the queue.
LEMMA WorkStep ==
  ASSUME ReplicaTypes, NEW w \in Workers, NEW o, OneStep(w, o),
         file' \in [Centers -> BoundedCopies], truth' \in Content,
         queue' \in [Centers -> Seq(Update)], UNCHANGED <<told, ops>>
  PROVE  ReplicaTypes'
BY OneStepTypes DEF ReplicaTypes

LEMMA PutCopy ==
  ASSUME ReplicaTypes, NEW c \in Centers, NEW g \in BoundedCopies,
         file' = [file EXCEPT ![c] = g]
  PROVE  file' \in [Centers -> BoundedCopies]
BY DEF ReplicaTypes

LEMMA WorkTypes ==
  ASSUME ReplicaTypes, NEW w \in Workers,
         Fill(w) \/ DoRead(w) \/ DoWrite(w) \/ DoTruncate(w) \/ Submit(w)
  PROVE  ReplicaTypes'
<1>0. /\ file \in [Centers -> BoundedCopies] /\ truth \in Content
      /\ queue \in [Centers -> Seq(Update)] /\ ops \in 0 .. MaxOps
  BY DEF ReplicaTypes
<1>1. PICK o : o = op[w]
  OBVIOUS
<1>2. /\ Sensible(o) /\ o \in BoundedOperations /\ op \in [Workers -> BoundedOperations]
      /\ o.type \in {"read", "write", "truncate"} /\ o.c \in Centers
      /\ o.lo \in Sizes /\ o.hi \in Sizes
      /\ o.peers \in SUBSET Centers /\ o.reply \in BoundedReplies
      /\ file[o.c] \in BoundedCopies
  BY <1>1, OpSensible DEF ReplicaTypes
<1> DEFINE Moved(pc, reply) == [o EXCEPT !.pc = pc, !.peers = o.peers, !.reply = reply]
<1>3. CASE Fill(w)
  <2>1. Sensible(Moved("fetch", NoData))
    BY <1>1, <1>2, <1>3, NoDataBounded, MovedSensible DEF Fill, OpStates
  <2>2. op' = [op EXCEPT ![w] = Moved("fetch", NoData)]
    BY <1>1, <1>2, <1>3 DEF Fill, BoundedOperations
  <2>3. Pwrite(file[o.c], o.reply) \in BoundedCopies
    BY <1>2, PwriteBounded
  <2>4. file' \in [Centers -> BoundedCopies]
    BY <1>0, <1>1, <1>2, <1>3, <2>3 DEF Fill
  <2> HIDE DEF Moved
  <2> QED BY <1>0, <1>3, <2>1, <2>2, <2>4, WorkStep DEF OneStep, Fill
<1>4. CASE DoRead(w)
  <2> DEFINE r == Pread(file[o.c], o.lo, o.hi)
  <2>1. r \in BoundedReplies
    BY <1>2, PreadBounded
  <2>2. op' = [op EXCEPT ![w].pc = "done", ![w].reply = r]
    BY <1>1, <1>4 DEF DoRead
  <2> HIDE DEF r
  <2>3. Sensible(Moved("done", r))
    BY <1>2, <2>1, MovedSensible DEF OpStates
  <2>4. op' = [op EXCEPT ![w] = Moved("done", r)]
    BY <1>1, <1>2, <2>2 DEF BoundedOperations
  <2> HIDE DEF Moved
  <2> QED BY <1>0, <1>4, <2>3, <2>4, WorkStep DEF OneStep, DoRead
<1>5. ASSUME \/ DoWrite(w) \/ DoTruncate(w)
      PROVE  \E n : OneStep(w, n)
  <2>1. op' = [op EXCEPT ![w].pc = "submit"] /\ o.type # "read"
    BY <1>1, <1>5 DEF DoWrite, DoTruncate
  <2>2. Sensible(Moved("submit", o.reply))
    BY <1>2, <2>1, MovedSensible DEF OpStates
  <2>3. op' = [op EXCEPT ![w] = Moved("submit", o.reply)]
    BY <1>1, <1>2, <2>1 DEF BoundedOperations
  <2> HIDE DEF Moved
  <2> QED BY <2>2, <2>3 DEF OneStep
<1>6. truth.size \in Sizes /\ truth.val \in [Units -> Values]
  BY <1>0 DEF Content
<1>7. CASE DoWrite(w)
  <2> DEFINE D == Span(o.lo, o.hi)
             data == [u \in D |-> ops + 1]
             va == [u \in Units |-> IF u \in D THEN ops + 1 ELSE truth.val[u]]
  <2>1. ops + 1 \in Values /\ D \in SUBSET Units
    BY <1>0, SizeBounds DEF Span
  <2>2. data \in [D -> Values] /\ va \in [Units -> Values]
    BY <2>1, <1>6
  <2>3. data \in BoundedReplies
    BY <2>1, <2>2, ReplyBounded
  <2>4. Pwrite(file[o.c], data) \in BoundedCopies
    BY <1>2, <2>3, PwriteBounded
  <2>5. file' = [file EXCEPT ![o.c] = Pwrite(file[o.c], data)]
    BY <1>1, <1>7 DEF DoWrite
  <2>6. truth' = [size |-> Max2(truth.size, o.hi), val |-> va]
    BY <1>1, <1>7 DEF DoWrite
  <2>7. Max2(truth.size, o.hi) \in Sizes
    BY <1>2, <1>6 DEF Max2
  <2>8. truth' \in Content
    <3> HIDE DEF va
    <3> QED BY <2>2, <2>6, <2>7 DEF Content
  <2>9. file' \in [Centers -> BoundedCopies]
    <3> HIDE DEF data
    <3> QED BY <1>2, <2>4, <2>5, PutCopy
  <2> QED BY <1>0, <1>5, <1>7, <2>8, <2>9, WorkStep DEF DoWrite
<1>8. CASE DoTruncate(w)
  <2>1. Resize(file[o.c], o.hi) \in BoundedCopies
    BY <1>2, ResizeBounded
  <2>2. file' = [file EXCEPT ![o.c] = Resize(file[o.c], o.hi)]
    BY <1>1, <1>8 DEF DoTruncate
  <2>3. file' \in [Centers -> BoundedCopies]
    BY <1>2, <2>1, <2>2, PutCopy
  <2> DEFINE va == [u \in Units |-> IF u < o.hi THEN truth.val[u] ELSE 0]
  <2>4. truth' = [truth EXCEPT !.size = o.hi, !.val = va]
    BY <1>1, <1>8 DEF DoTruncate
  <2>5. va \in [Units -> Values]
    BY <1>6, SizeBounds
  <2>6. truth' \in Content
    <3> HIDE DEF va
    <3> QED BY <1>0, <1>2, <2>4, <2>5 DEF Content
  <2> QED BY <1>0, <1>5, <1>8, <2>3, <2>6, WorkStep DEF DoTruncate
<1>9. CASE Submit(w)
  <2> DEFINE r == [type |-> IF o.type = "write" THEN "rep_update_index" ELSE o.type,
                   lo |-> o.lo, hi |-> o.hi]
  <2>1. o.type # "read"
    BY <1>1, <1>2, <1>9 DEF Submit, Sensible
  <2>2. r \in Update
    BY <1>2, <2>1 DEF Update
  <2>3. queue' = [queue EXCEPT ![o.c] = Append(queue[o.c], r)]
    BY <1>1, <1>9 DEF Submit
  <2> HIDE DEF r
  <2>4. queue' \in [Centers -> Seq(Update)]
    BY <1>0, <1>2, <2>2, <2>3
  <2>5. op' = [op EXCEPT ![w].pc = "done"]
    BY <1>9 DEF Submit
  <2>6. Sensible(Moved("done", o.reply))
    BY <1>2, MovedSensible DEF OpStates
  <2>7. op' = [op EXCEPT ![w] = Moved("done", o.reply)]
    BY <1>1, <1>2, <2>5 DEF BoundedOperations
  <2> HIDE DEF Moved
  <2> QED BY <1>0, <1>9, <2>4, <2>6, <2>7, WorkStep DEF OneStep, Submit
<1> QED BY <1>3, <1>4, <1>7, <1>8, <1>9

LEMMA DeliverTypes ==
  ASSUME ReplicaTypes, NEW c \in Centers, NEW d \in Centers, Deliver(c, d)
  PROVE  ReplicaTypes'
<1>1. /\ queue \in [Centers -> Seq(Update)] /\ queue[c] \in Seq(Update) /\ queue[c] # <<>>
      /\ told \in [Centers -> SUBSET Centers] /\ file[d] \in BoundedCopies
  BY DEF ReplicaTypes, Deliver
<1>2. Head(queue[c]) \in Update /\ Tail(queue[c]) \in Seq(Update)
  BY <1>1
<1>3. Executed(file[d], Head(queue[c])) \in BoundedCopies
  BY <1>1, <1>2, ExecutedBounded
<1>4. file' = [file EXCEPT ![d] = Executed(file[d], Head(queue[c]))]
  BY DEF Deliver
<1>5. file' \in [Centers -> BoundedCopies]
  BY <1>3, <1>4, PutCopy
<1>6. queue' \in [Centers -> Seq(Update)]
  BY <1>1, <1>2 DEF Deliver
<1>7. told' \in [Centers -> SUBSET Centers]
  <2>1. PICK x \in SUBSET Centers : told' = [told EXCEPT ![c] = x]
    <3>1. told[c] \cup {d} \in SUBSET Centers /\ {} \in SUBSET Centers
      BY <1>1
    <3>2. told' = [told EXCEPT ![c] = {}] \/ told' = [told EXCEPT ![c] = told[c] \cup {d}]
      BY DEF Deliver
    <3> QED BY <3>1, <3>2
  <2> QED BY <1>1, <2>1
<1>8. UNCHANGED <<op, truth, ops>>
  BY DEF Deliver
<1> QED BY <1>5, <1>6, <1>7, <1>8 DEF ReplicaTypes

LEMMA NextTypes ==
  ASSUME ReadRanges \subseteq Sizes \X Sizes, ReplicaTypes, [Next]_vars
  PROVE  ReplicaTypes'
<1>1. ASSUME NEW w \in Workers, Begin(w) PROVE ReplicaTypes'
  BY <1>1, BeginTypes
<1>2. ASSUME NEW w \in Workers, Continue(w) PROVE ReplicaTypes'
  BY <1>2, SearchTypes, WorkTypes DEF Continue
<1>3. ASSUME NEW c \in Centers, NEW d \in Centers, Deliver(c, d) PROVE ReplicaTypes'
  BY <1>3, DeliverTypes
<1>4. CASE UNCHANGED vars
  BY <1>4 DEF vars, ReplicaTypes
<1> QED BY <1>1, <1>2, <1>3, <1>4 DEF Next

(***************************************************************************)
(* However the clients and the delivery of updates interleave, a copy keeps *)
(* its type; in particular its holes and what lies behind its end read as  *)
(* zeros.  That is why pages may be punched at the peers (punch_hole_local) *)
(* and answers written over the copy of a center (sync_filedata) without   *)
(* clearing anything.  The reads have to lie within the bound of the file. *)
(***************************************************************************)
THEOREM CopiesKeepTypes == ReadRanges \subseteq Sizes \X Sizes => (Spec => []TypeOK)
<1> SUFFICES ASSUME ReadRanges \subseteq Sizes \X Sizes PROVE Spec => []TypeOK
  OBVIOUS
<1>1. ReplicaTypes /\ [Next]_vars => ReplicaTypes'
  BY NextTypes
<1>2. ReplicaTypes => TypeOK
  <2> SUFFICES ASSUME ReplicaTypes PROVE TypeOK
    OBVIOUS
  <2>1. ASSUME NEW c \in Centers
        PROVE  /\ file[c].size \in Sizes /\ file[c].alloc \subseteq Pages
               /\ file[c].val \in [Units -> Values]
               /\ \A u \in Units : u >= file[c].size \/ Page(u) \notin file[c].alloc =>
                                     file[c].val[u] = 0
    BY BoundedCopy DEF ReplicaTypes
  <2>2. ASSUME NEW w \in Workers
        PROVE  /\ op[w].pc \in OpStates /\ op[w].c \in Centers
               /\ op[w].lo \in Sizes /\ op[w].hi \in Sizes
               /\ op[w].syncs \in Seq(Sizes \X Sizes) /\ op[w].peers \subseteq Centers
               /\ \A u \in DOMAIN op[w].reply : u \in Units /\ op[w].reply[u] \in Values
    <3>1. op[w] \in BoundedOperations
      BY DEF ReplicaTypes
    <3>2. op[w].pc \in OpStates
      BY <3>1 DEF BoundedOperations
    <3> QED BY <3>2, OpSensible, BoundedReply
  <2>3. DOMAIN file = Centers /\ DOMAIN op = Workers
    BY DEF ReplicaTypes
  <2> QED BY <2>1, <2>2, <2>3 DEF TypeOK, ReplicaTypes
<1> QED BY <1>1, <1>2, InitReplicaTypes, PTL DEF Spec
=============================================================================
