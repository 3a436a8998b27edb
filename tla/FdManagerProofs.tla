-------------------------- MODULE FdManagerProofs --------------------------
(***************************************************************************)
(* Proofs about the two parts of fd_mgr.cc.                                *)
(*                                                                         *)
(* The scans of a file: for any file, range and number of changes, the     *)
(* extents are exact for a file that stays as it is, fit the peer's buffer *)
(* and are put back in place.                                              *)
(*                                                                         *)
(* The descriptor cache: for any number of paths, descriptors              *)
(* and workers and any capacity, cache and descriptor table stay           *)
(* one-to-one, the cache stays within its capacity and coherent with the   *)
(* namespace, and a worker's descriptor survives fewer opens of other      *)
(* paths than the cache has places.                                        *)
(***************************************************************************)
EXTENDS FdManager, Extents, FiniteSetTheorems, SequenceTheorems, WellFoundedInduction, TLAPS

-----------------------------------------------------------------------------
(* The scans of a file and the transport of their extents. *)

\* The cursor of find_data_in_range is an int: the offsets are below half of
\* its numbers. That of find_holes_in_range holds every offset.
CursorFits == kind = "data" => 2 * MaxEof < IntSize

\* The extents lie one behind the other between what is packed and the end.
InOrder ==
  /\ from < to /\ end <= to /\ from + Len(buf) <= to
  /\ \A i \in DOMAIN ranges : /\ from + Len(buf) <= ranges[i][1]
                              /\ ranges[i][1] < ranges[i][2]
                              /\ ranges[i][2] <= end
  /\ \A i, j \in DOMAIN ranges : i < j => ranges[i][2] <= ranges[j][1]

\* What the phases have not touched yet.
Phases ==
  /\ kind = "holes" => pc \in {"scan", "done"}
  /\ pc = "scan" => /\ from <= off /\ buf = <<>> /\ params = <<>>
                    /\ \A i \in DOMAIN ranges : ranges[i][2] <= off
  /\ pc \in {"scan", "pack"} => cursor = 0 /\ placed = {} /\ err_code = 0

\* The scan of a file that stays as it is has found what lies before the cursor.
ExactSoFar ==
  changes = 0 =>
    /\ pc = "scan" => end <= file.size /\ Covered = {u \in Reference : u < off}
    /\ pc # "scan" /\ buf = <<>> /\ params = <<>> /\ (kind = "data" => pc = "pack") =>
         Covered = Reference

\* pos[k] is the place in the buffer of the k-th extent of the reply.
LaidOut(lo, hi, c, b, ps, pos) ==
  /\ pos[1] = c /\ pos[Len(ps) + 1] = Len(b)
  /\ \A k \in 1 .. Len(ps) :
       /\ pos[k + 1] = pos[k] + ps[k].size
       /\ lo <= ps[k].offset /\ ps[k].offset + ps[k].size <= hi
       /\ \A i \in 0 .. ps[k].size - 1 :
            /\ pos[k] + i + 1 \in 1 .. Len(b)
            /\ b[pos[k] + i + 1] = ps[k].offset + i

Layout ==
  err_code = 0 => \E pos \in [1 .. Len(params) + 1 -> Nat] :
                    LaidOut(from, to, cursor, buf, params, pos)

ExtentsInv == /\ ExtentsTypeOK /\ InOrder /\ Phases /\ ExactSoFar /\ Layout
              /\ PlacedIfOk

\* A non-empty set of naturals has a least element.
LEMMA Least ==
  ASSUME NEW S \in SUBSET Nat, S # {}
  PROVE  Min(S) \in S /\ \A y \in S : Min(S) <= y
<1>1. \E x \in S : \A y \in S : ~(y < x)
  <2>1. PICK x \in S : \A y \in S : ~(<<y, x>> \in OpToRel(<, Nat))
    BY WFMin, NatLessThanWellFounded
  <2> QED BY <2>1 DEF OpToRel
<1>2. PICK x \in S : \A y \in S : x <= y
  BY <1>1
<1> QED BY <1>2 DEF Min

LEMMA MinOfTwo ==
  ASSUME NEW a \in Int, NEW b \in Int
  PROVE  Min({a, b}) = IF a <= b THEN a ELSE b
<1>1. \E x \in {a, b} : \A y \in {a, b} : x <= y
  OBVIOUS
<1>2. Min({a, b}) \in {a, b} /\ \A y \in {a, b} : Min({a, b}) <= y
  BY <1>1 DEF Min
<1> QED BY <1>2

LEMMA MaxOfTwo ==
  ASSUME NEW a \in Int, NEW b \in Int
  PROVE  Max({a, b}) = IF a <= b THEN b ELSE a
<1>1. \E x \in {a, b} : \A y \in {a, b} : x >= y
  OBVIOUS
<1>2. Max({a, b}) \in {a, b} /\ \A y \in {a, b} : Max({a, b}) >= y
  BY <1>1 DEF Max
<1> QED BY <1>2

LEMMA FileParts ==
  ASSUME NEW f \in Files
  PROVE  f.size \in Offsets /\ f.data \subseteq 0 .. f.size - 1
BY DEF Files

\* lseek returns -1 or the first place that it looks for.
LEMMA Sought ==
  ASSUME file \in Files, NEW whence, NEW o \in Nat
  PROVE  /\ lseek(whence, o) \in -1 .. MaxEof
         /\ \A u \in Nat : o <= u /\ u < file.size
                           /\ (lseek(whence, o) = -1 \/ u < lseek(whence, o)) =>
                           (u \in file.data) = (whence # "SEEK_DATA")
         /\ lseek(whence, o) # -1 => o <= lseek(whence, o)
<1>1. file.size \in Offsets /\ file.data \subseteq 0 .. file.size - 1
  BY FileParts
<1>2. Found(whence, o) \in SUBSET Nat /\ \A u \in Found(whence, o) : o <= u /\ u <= MaxEof
  BY <1>1, EofAssumption DEF Found, Offsets
<1>3. \A u \in Nat : o <= u /\ u < file.size /\ u \notin Found(whence, o) =>
        (u \in file.data) = (whence # "SEEK_DATA")
  BY <1>1 DEF Found, Offsets
<1>4. CASE o >= file.size
  <2>1. lseek(whence, o) = -1
    BY <1>4 DEF lseek
  <2> QED BY <2>1, <1>4, <1>1, EofAssumption DEF Offsets
<1>5. CASE Found(whence, o) = {}
  <2>1. lseek(whence, o) = -1
    BY <1>5 DEF lseek
  <2> QED BY <2>1, <1>5, <1>3, EofAssumption
<1>6. CASE ~(o >= file.size) /\ Found(whence, o) # {}
  <2>1. lseek(whence, o) = Min(Found(whence, o))
    BY <1>6 DEF lseek
  <2>2. /\ lseek(whence, o) \in Found(whence, o)
        /\ \A y \in Found(whence, o) : lseek(whence, o) <= y
    BY <2>1, <1>6, <1>2, Least
  <2>3. lseek(whence, o) \in Nat /\ o <= lseek(whence, o) /\ lseek(whence, o) <= MaxEof
    BY <2>2, <1>2
  <2>4. ASSUME NEW u \in Nat, u < lseek(whence, o)
        PROVE  u \notin Found(whence, o)
    BY <2>2, <2>3, <2>4
  <2> QED BY <2>3, <2>4, <1>3, EofAssumption
<1> QED BY <1>4, <1>5, <1>6

\* The casts keep an offset, and make the largest number of -1.
LEMMA Casts ==
  ASSUME NEW x \in -1 .. MaxEof
  PROVE  ToUnsigned(x) = IF x = -1 THEN WordSize - 1 ELSE x
<1>1. WordSize \in Nat /\ 2 <= WordSize /\ MaxEof \in Nat /\ MaxEof < WordSize - 1
  BY SizeAssumption, EofAssumption
<1>2. CASE x = -1
  <2>1. (-1) % WordSize = WordSize - 1
    BY <1>1
  <2> QED BY <2>1, <1>2 DEF ToUnsigned
<1>3. CASE x # -1
  <2>1. x \in Nat /\ x < WordSize
    BY <1>1, <1>3
  <2>2. x % WordSize = x
    BY <2>1, <1>1
  <2> QED BY <2>2, <1>3 DEF ToUnsigned
<1> QED BY <1>2, <1>3

LEMMA IntCast ==
  ASSUME 2 * MaxEof < IntSize, NEW x \in -1 .. MaxEof
  PROVE  ToInt(x) = x
<1> DEFINE y == x % IntSize
<1>1. IntSize \in Nat /\ 2 <= IntSize /\ MaxEof \in Nat /\ 2 * MaxEof < IntSize
  BY SizeAssumption, EofAssumption
<1>2. CASE x = -1
  <2>1. (-1) % IntSize = IntSize - 1
    BY <1>1
  <2>2. y = IntSize - 1 /\ 2 * y >= IntSize /\ y - IntSize = -1
    BY <2>1, <1>1, <1>2
  <2> QED BY <2>2, <1>2 DEF ToInt
<1>3. CASE x # -1
  <2>1. x \in Nat /\ x < IntSize /\ 2 * x < IntSize
    BY <1>1, <1>3
  <2>2. y = x
    BY <2>1, <1>1
  <2>3. ~(2 * y >= IntSize)
    BY <2>1, <2>2, <1>1
  <2> QED BY <2>2, <2>3 DEF ToInt
<1> QED BY <1>2, <1>3

LEMMA CursorCast ==
  ASSUME CursorFits, NEW x \in -1 .. MaxEof
  PROVE  Cursor(x) = IF x = -1 THEN WordSize - 1 ELSE x
BY IntCast, Casts DEF Cursor, CursorFits

\* Up to where lseek finds the end of an extent there is nothing else.
LEMMA WantedUpTo ==
  ASSUME file \in Files, kind \in {"holes", "data"}, NEW o \in Offsets,
         NEW b, b = ToUnsigned(lseek(Wanted, o))
  PROVE  /\ b \in 0 .. WordSize - 1 /\ o <= b
         /\ \A u \in Nat : o <= u /\ u < b /\ u < file.size =>
              (u \in file.data) = (kind = "data")
<1>1. (Wanted # "SEEK_DATA") = (kind = "data")
  BY DEF Wanted
<1>2. o \in Nat /\ o <= MaxEof /\ MaxEof \in Nat /\ WordSize \in Nat /\ MaxEof < WordSize - 1
  BY EofAssumption, SizeAssumption DEF Offsets
<1> DEFINE x == lseek(Wanted, o)
<1>3. /\ x \in -1 .. MaxEof /\ (x # -1 => o <= x)
      /\ \A u \in Nat : o <= u /\ u < file.size /\ (x = -1 \/ u < x) =>
           (u \in file.data) = (kind = "data")
  BY <1>1, <1>2, Sought
<1> HIDE DEF x
<1>4. b = IF x = -1 THEN WordSize - 1 ELSE x
  BY <1>3, Casts DEF x
<1> QED BY <1>2, <1>3, <1>4

LEMMA SkippedUpTo ==
  ASSUME CursorFits, file \in Files, kind \in {"holes", "data"}, NEW o \in 0 .. WordSize - 1
  PROVE  /\ Advance(o) \in 0 .. WordSize - 1 /\ o <= Advance(o)
         /\ \A u \in Nat : o <= u /\ u < Advance(o) /\ u < file.size =>
              (u \in file.data) # (kind = "data")
<1>1. (Skipped # "SEEK_DATA") # (kind = "data")
  BY DEF Skipped
<1>2. o \in Nat /\ MaxEof \in Nat /\ WordSize \in Nat /\ MaxEof < WordSize - 1
  BY EofAssumption, SizeAssumption
<1> DEFINE x == lseek(Skipped, o)
<1>3. /\ x \in -1 .. MaxEof /\ (x # -1 => o <= x)
      /\ \A u \in Nat : o <= u /\ u < file.size /\ (x = -1 \/ u < x) =>
           (u \in file.data) # (kind = "data")
  BY <1>1, <1>2, Sought
<1> HIDE DEF x
<1>4. Advance(o) = IF x = -1 THEN WordSize - 1 ELSE x
  BY <1>3, CursorCast DEF x, Advance
<1> QED BY <1>2, <1>3, <1>4

\* The members of Covered and Reference.
LEMMA InCovered ==
  \A u : u \in Covered <=> \E i \in DOMAIN ranges : u \in ranges[i][1] .. ranges[i][2] - 1
BY DEF Covered

LEMMA InCoveredNext ==
  \A u : u \in Covered' <=>
    \E i \in DOMAIN ranges' : u \in ranges'[i][1] .. ranges'[i][2] - 1
BY DEF Covered

LEMMA InReference ==
  \A u : u \in Reference <=> u \in from .. end - 1 /\ (u \in file.data) = (kind = "data")
BY DEF Reference

\* Append, place by place.
LEMMA AppendShape ==
  ASSUME NEW S, NEW s \in Seq(S), NEW e \in S
  PROVE  /\ Append(s, e) \in Seq(S) /\ Len(Append(s, e)) = Len(s) + 1
         /\ DOMAIN Append(s, e) = 1 .. Len(s) + 1
         /\ \A i \in 1 .. Len(s) : Append(s, e)[i] = s[i]
         /\ Append(s, e)[Len(s) + 1] = e
OBVIOUS

LEMMA Below ==
  ASSUME NEW a \in Nat, NEW b \in Nat, NEW c \in Nat, a <= b, b <= c
  PROVE  a <= c
OBVIOUS

\* An extent from the cursor on goes behind those that were found.
LEMMA Extended ==
  ASSUME ExtentsInv, pc = "scan", NEW hi \in Offsets, off < hi, hi <= end,
         ranges' = Append(ranges, <<off, hi>>), UNCHANGED <<from, to, end, buf>>
  PROVE  /\ ranges' \in Seq(Nat \X Nat) /\ InOrder'
         /\ \A i \in DOMAIN ranges' : ranges'[i][2] <= hi
         /\ Covered' = Covered \cup (off .. hi - 1)
<1>1. /\ off \in Nat /\ hi \in Nat /\ from \in Nat /\ to \in Nat /\ end \in Nat
      /\ ranges \in Seq(Nat \X Nat) /\ buf = <<>> /\ Len(buf) = 0 /\ from <= off
      /\ <<off, hi>> \in Nat \X Nat
  BY EofAssumption, SizeAssumption DEF ExtentsInv, ExtentsTypeOK, Phases, Offsets
<1> DEFINE n == Len(ranges)
<1>2. /\ ranges' \in Seq(Nat \X Nat) /\ DOMAIN ranges' = 1 .. n + 1 /\ n \in Nat
      /\ DOMAIN ranges = 1 .. n
      /\ \A i \in 1 .. n : ranges'[i] = ranges[i]
      /\ ranges'[n + 1][1] = off /\ ranges'[n + 1][2] = hi
  BY <1>1, AppendShape
<1>3. \A i \in 1 .. n : /\ ranges[i] \in Nat \X Nat /\ from <= ranges[i][1]
                        /\ ranges[i][1] < ranges[i][2] /\ ranges[i][2] <= off
  <2>1. \A i \in DOMAIN ranges : from + Len(buf) <= ranges[i][1] /\ ranges[i][1] < ranges[i][2]
    BY DEF ExtentsInv, InOrder
  <2>2. \A i \in DOMAIN ranges : ranges[i][2] <= off
    BY DEF ExtentsInv, Phases
  <2>3. from + Len(buf) = from
    BY <1>1
  <2>4. \A i \in 1 .. n : ranges[i] \in Nat \X Nat
    BY <1>1
  <2>5. 1 .. n = DOMAIN ranges
    BY <1>2
  <2> QED BY <2>1, <2>2, <2>3, <2>4, <2>5
<1>4. \A i, j \in 1 .. n : i < j => ranges[i][2] <= ranges[j][1]
  BY <1>2 DEF ExtentsInv, InOrder
<1> HIDE DEF n
<1>5. \A i \in 1 .. n + 1 : /\ from <= ranges'[i][1] /\ ranges'[i][1] < ranges'[i][2]
                            /\ ranges'[i][2] <= hi
  BY <1>1, <1>2, <1>3
<1>6. ASSUME NEW i \in 1 .. n + 1, NEW j \in 1 .. n + 1, i < j
      PROVE  ranges'[i][2] <= ranges'[j][1]
  <2>1. i \in 1 .. n
    BY <1>2, <1>6
  <2>2. CASE j = n + 1
    BY <2>1, <2>2, <1>1, <1>2, <1>3
  <2>3. CASE j # n + 1
    <3>1. j \in 1 .. n
      BY <2>3, <1>2
    <3> QED BY <2>1, <3>1, <1>2, <1>4, <1>6
  <2> QED BY <2>2, <2>3
<1>7. InOrder'
  <2>1. from < to /\ end <= to
    BY DEF ExtentsInv, InOrder
  <2>2. \A i \in 1 .. n + 1 : ranges'[i][2] <= end /\ from + 0 <= ranges'[i][1]
    <3> TAKE i \in 1 .. n + 1
    <3>1. ranges'[i][1] \in Nat /\ ranges'[i][2] \in Nat
      BY <1>1, <1>2
    <3>2. from <= ranges'[i][1] /\ ranges'[i][2] <= hi
      BY <1>5
    <3>3. hi \in Nat /\ end \in Nat /\ hi <= end /\ from \in Nat
      BY <1>1
    <3> DEFINE b == ranges'[i][2]
    <3>4. b \in Nat /\ b <= hi
      BY <3>1, <3>2
    <3> HIDE DEF b
    <3>5. b <= end
      BY <3>3, <3>4, Below
    <3>6. from + 0 = from
      BY <3>3
    <3> QED BY <3>2, <3>5, <3>6, Zenon DEF b
  <2> QED BY <1>1, <1>2, <1>5, <1>6, <2>1, <2>2 DEF InOrder
<1>8. Covered' = Covered \cup (off .. hi - 1)
  <2>1. ASSUME NEW u, u \in Covered' PROVE u \in Covered \cup (off .. hi - 1)
    <3>1. PICK i \in 1 .. n + 1 : u \in ranges'[i][1] .. ranges'[i][2] - 1
      BY <2>1, <1>2, InCoveredNext
    <3>2. CASE i = n + 1
      BY <3>1, <3>2, <1>2
    <3>3. CASE i # n + 1
      <4>1. i \in 1 .. n
        BY <3>3, <1>2
      <4> QED BY <4>1, <3>1, <1>2, InCovered
    <3> QED BY <3>2, <3>3
  <2>2. ASSUME NEW u, u \in Covered PROVE u \in Covered'
    <3>1. PICK i \in 1 .. n : u \in ranges[i][1] .. ranges[i][2] - 1
      BY <2>2, <1>2, InCovered
    <3>2. i \in 1 .. n + 1 /\ ranges'[i] = ranges[i]
      BY <1>2
    <3> QED BY <3>1, <3>2, <1>2, InCoveredNext
  <2>3. ASSUME NEW u \in off .. hi - 1 PROVE u \in Covered'
    <3>1. n + 1 \in DOMAIN ranges'
      BY <1>2
    <3> QED BY <3>1, <1>2, InCoveredNext
  <2> QED BY <2>1, <2>2, <2>3
<1> QED BY <1>2, <1>5, <1>7, <1>8

\* From the cursor to hi there is only what the loop looks for, from there to
\* nx none of it.
Turn(hi, nx) ==
  /\ off <= hi /\ hi <= nx /\ hi <= end
  /\ \A u \in Nat : off <= u /\ u < hi => (u \in file.data) = (kind = "data")
  /\ \A u \in Nat : hi <= u /\ u < nx /\ u < end => (u \in file.data) # (kind = "data")

\* One extent and what lies between it and the next are passed.
LEMMA Passed ==
  ASSUME NEW hi \in Nat, NEW nx \in Nat, off \in Nat, from \in Nat, end \in Nat,
         from <= off, Turn(hi, nx), Covered = {u \in Reference : u < off}
  PROVE  Covered \cup (off .. hi - 1) = {u \in Reference : u < nx}
<1> USE DEF Turn
<1>1. ASSUME NEW u \in Reference, u < nx PROVE u \in Covered \cup (off .. hi - 1)
  <2>1. u \in Nat /\ from <= u /\ u < end /\ (u \in file.data) = (kind = "data")
    BY InReference
  <2>2. u < hi
    BY <2>1, <1>1
  <2>3. CASE u < off
    BY <2>3
  <2>4. CASE off <= u
    BY <2>1, <2>2, <2>4
  <2> QED BY <2>1, <2>3, <2>4
<1>2. ASSUME NEW u \in Covered PROVE u \in Reference /\ u < nx
  <2>1. u \in Reference /\ u < off
    OBVIOUS
  <2>2. u \in Nat
    BY <2>1, InReference
  <2> QED BY <2>1, <2>2
<1>3. ASSUME NEW u \in off .. hi - 1 PROVE u \in Reference /\ u < nx
  <2>1. u \in Nat /\ off <= u /\ u < hi
    OBVIOUS
  <2>2. u \in from .. end - 1 /\ (u \in file.data) = (kind = "data") /\ u < nx
    BY <2>1
  <2> QED BY <2>2, InReference
<1> QED BY <1>1, <1>2, <1>3

\* A cursor at the end leaves nothing of the range.
LEMMA AllPassed ==
  ASSUME NEW nx \in Nat, end \in Nat, from \in Nat, end <= nx
  PROVE  {u \in Reference : u < nx} = Reference
<1>1. ASSUME NEW u \in Reference PROVE u < nx
  BY InReference
<1> QED BY <1>1

LEMMA SameReference ==
  ASSUME UNCHANGED <<file, kind, from, end>>
  PROVE  Reference' = Reference
BY DEF Reference

LEMMA AnswerKept ==
  ASSUME ExtentsInv, UNCHANGED <<from, to, buf, params, cursor, placed, err_code>>
  PROVE  Layout' /\ PlacedIfOk'
BY DEF ExtentsInv, Layout, LaidOut, PlacedIfOk, Placed

LEMMA ScanTypes ==
  ASSUME ExtentsInv
  PROVE  /\ off \in 0 .. WordSize - 1 /\ off \in Nat /\ from \in Nat /\ to \in Nat
         /\ end \in Offsets /\ end \in Nat /\ MaxEof \in Nat /\ end <= MaxEof
         /\ WordSize \in Nat /\ end < WordSize - 1
         /\ file \in Files /\ kind \in {"holes", "data"}
BY EofAssumption, SizeAssumption DEF ExtentsInv, ExtentsTypeOK, Offsets

\* The loop is left: what it found is what there is.
LEMMA ScanLeft ==
  ASSUME ExtentsInv, pc = "scan", pc' = ScanDone, off' = off,
         UNCHANGED <<file, kind, from, to, end, buf, params, cursor, placed, err_code,
                     changes, errors>>,
         ranges' \in Seq(Nat \X Nat), InOrder',
         changes = 0 => Covered' = Reference
  PROVE  ExtentsInv'
<1>1. kind \in {"holes", "data"} /\ pc' \in {"pack", "done"} /\ (kind = "holes" => pc' = "done")
  BY ScanTypes DEF ScanDone
<1>2. ExtentsTypeOK'
  BY <1>1 DEF ExtentsInv, ExtentsTypeOK
<1>3. Phases'
  BY <1>1 DEF ExtentsInv, Phases
<1>4. ExactSoFar'
  BY <1>1, SameReference DEF ExactSoFar
<1>5. Layout' /\ PlacedIfOk'
  BY AnswerKept
<1> QED BY <1>2, <1>3, <1>4, <1>5 DEF ExtentsInv

\* The loop goes on behind the extent that it has passed.
LEMMA ScanGoesOn ==
  ASSUME ExtentsInv, pc = "scan", pc' = pc, off' \in 0 .. WordSize - 1, from <= off',
         UNCHANGED <<file, kind, from, to, end, buf, params, cursor, placed, err_code,
                     changes, errors>>,
         ranges' \in Seq(Nat \X Nat), InOrder',
         \A i \in DOMAIN ranges' : ranges'[i][2] <= off',
         changes = 0 => Covered' = {u \in Reference : u < off'}
  PROVE  ExtentsInv'
<1>2. ExtentsTypeOK'
  BY DEF ExtentsInv, ExtentsTypeOK
<1>3. Phases'
  BY DEF ExtentsInv, Phases
<1>4. ExactSoFar'
  BY SameReference DEF ExtentsInv, ExactSoFar
<1>5. Layout' /\ PlacedIfOk'
  BY AnswerKept
<1> QED BY <1>2, <1>3, <1>4, <1>5 DEF ExtentsInv

\* One turn of the loop.
LEMMA ScanStep == ASSUME CursorFits, ExtentsInv, Scan PROVE ExtentsInv'
<1> DEFINE b == ToUnsigned(lseek(Wanted, off))
           nx == Advance(b)
           wants(u) == (u \in file.data) = (kind = "data")
<1>1. /\ pc = "scan"
      /\ UNCHANGED <<file, kind, from, to, end, buf, params, cursor, placed, err_code,
                     changes, errors>>
  BY DEF Scan
<1>2. \/ off >= end /\ pc' = ScanDone /\ UNCHANGED <<off, ranges>>
      \/ /\ off < end
         /\ ranges' = IF b > off THEN Append(ranges, <<off, ExtentEnd(b)>>) ELSE ranges
         /\ IF b > off /\ b >= end
            THEN pc' = ScanDone /\ UNCHANGED off
            ELSE off' = nx /\ UNCHANGED pc
  BY DEF Scan
<1>3. /\ off \in 0 .. WordSize - 1 /\ off \in Nat /\ from \in Nat /\ to \in Nat
      /\ end \in Offsets /\ end \in Nat /\ MaxEof \in Nat /\ end <= MaxEof
      /\ WordSize \in Nat /\ end < WordSize - 1
      /\ file \in Files /\ kind \in {"holes", "data"}
  BY ScanTypes
<1>4. /\ from <= off /\ InOrder /\ ranges \in Seq(Nat \X Nat)
      /\ \A i \in DOMAIN ranges : ranges[i][2] <= off
      /\ changes = 0 => end <= file.size /\ Covered = {u \in Reference : u < off}
  BY <1>1 DEF ExtentsInv, ExtentsTypeOK, Phases, ExactSoFar
<1>5. file.size \in Nat
  BY <1>3, FileParts DEF Offsets
<1>6. CASE off >= end /\ pc' = ScanDone /\ UNCHANGED <<off, ranges>>
  <2>1. InOrder' /\ Covered' = Covered
    BY <1>1, <1>4, <1>6 DEF InOrder, Covered
  <2>2. changes = 0 => Covered' = Reference
    BY <1>3, <1>4, <1>6, <2>1, AllPassed
  <2> QED BY <1>1, <1>4, <1>6, <2>1, <2>2, ScanLeft
<1>7. ASSUME off < end PROVE off \in Offsets
  BY <1>3, <1>7 DEF Offsets
<1>8. ASSUME off < end
      PROVE  /\ b \in 0 .. WordSize - 1 /\ off <= b
             /\ \A u \in Nat : off <= u /\ u < b /\ u < file.size => wants(u)
  BY <1>3, <1>7, <1>8, WantedUpTo
<1>9. ASSUME off < end
      PROVE  /\ nx \in 0 .. WordSize - 1 /\ b <= nx
             /\ \A u \in Nat : b <= u /\ u < nx /\ u < file.size => ~wants(u)
  BY <1>3, <1>8, <1>9, SkippedUpTo
<1> HIDE DEF nx, b
<1>10. ASSUME off < end, b > off, b >= end PROVE ExtentsInv'
  <2>1. ranges' = Append(ranges, <<off, end>>) /\ pc' = ScanDone /\ off' = off
    BY <1>2, <1>3, <1>10 DEF ExtentEnd
  <2>2. ranges' \in Seq(Nat \X Nat) /\ InOrder' /\ Covered' = Covered \cup (off .. end - 1)
    BY <1>1, <1>3, <1>10, <2>1, Extended
  <2>3. ASSUME changes = 0 PROVE Covered' = Reference
    <3>1. end <= file.size /\ Covered = {u \in Reference : u < off}
      BY <1>4, <2>3
    <3>2. \A u \in Nat : off <= u /\ u < end => wants(u)
      BY <1>3, <1>5, <1>8, <1>10, <3>1
    <3>3. Covered \cup (off .. end - 1) = {u \in Reference : u < end}
      <4>1. Turn(end, end)
        BY <1>3, <1>10, <3>2 DEF Turn
      <4> QED BY <1>3, <1>4, <3>1, <4>1, Passed
    <3>4. {u \in Reference : u < end} = Reference
      BY <1>3, AllPassed
    <3> QED BY <2>2, <3>3, <3>4
  <2> QED BY <1>1, <2>1, <2>2, <2>3, ScanLeft
<1>11. ASSUME off < end, b > off, ~(b >= end) PROVE ExtentsInv'
  <2>1. ranges' = Append(ranges, <<off, b>>) /\ pc' = pc /\ off' = nx
    BY <1>2, <1>3, <1>11 DEF ExtentEnd
  <2>2. b \in Nat /\ nx \in Nat /\ off < b /\ b <= nx /\ b < end /\ b \in Offsets
    BY <1>3, <1>8, <1>9, <1>11 DEF Offsets
  <2>3. /\ ranges' \in Seq(Nat \X Nat) /\ InOrder' /\ Covered' = Covered \cup (off .. b - 1)
        /\ \A i \in DOMAIN ranges' : ranges'[i][2] <= b
    BY <1>1, <1>3, <2>1, <2>2, Extended
  <2>4. \A i \in DOMAIN ranges' : ranges'[i][2] <= nx
    BY <2>2, <2>3
  <2>5. ASSUME changes = 0 PROVE Covered' = {u \in Reference : u < nx}
    <3>1. end <= file.size /\ Covered = {u \in Reference : u < off}
      BY <1>4, <2>5
    <3>2. \A u \in Nat : off <= u /\ u < b => wants(u)
      BY <1>3, <1>5, <1>8, <1>11, <2>2, <3>1
    <3>3. \A u \in Nat : b <= u /\ u < nx /\ u < end => ~wants(u)
      BY <1>3, <1>5, <1>9, <1>11, <3>1
    <3>4. Turn(b, nx)
      BY <1>3, <2>2, <3>2, <3>3 DEF Turn
    <3> QED BY <1>3, <1>4, <2>2, <2>3, <3>1, <3>4, Passed
  <2>6. off' \in 0 .. WordSize - 1 /\ from <= off'
    BY <1>3, <1>4, <1>9, <1>11, <2>1, <2>2
  <2> QED BY <1>1, <2>1, <2>3, <2>4, <2>5, <2>6, ScanGoesOn
<1>12. ASSUME off < end, ~(b > off) PROVE ExtentsInv'
  <2>1. ranges' = ranges /\ pc' = pc /\ off' = nx /\ b = off
    BY <1>2, <1>3, <1>8, <1>12
  <2>2. nx \in Nat /\ off <= nx
    BY <1>3, <1>9, <1>12, <2>1
  <2>3. InOrder' /\ Covered' = Covered
    BY <1>1, <1>4, <2>1 DEF InOrder, Covered
  <2>4. \A i \in DOMAIN ranges : ranges[i][2] <= nx
    <3> TAKE i \in DOMAIN ranges
    <3>1. ranges[i][2] \in Nat /\ ranges[i][2] <= off
      BY <1>4
    <3> QED BY <3>1, <2>2, <1>3
  <2>5. ASSUME changes = 0 PROVE Covered' = {u \in Reference : u < nx}
    <3>1. end <= file.size /\ Covered = {u \in Reference : u < off}
      BY <1>4, <2>5
    <3>2. \A u \in Nat : off <= u /\ u < nx /\ u < end => ~wants(u)
      BY <1>3, <1>5, <1>9, <1>12, <2>1, <3>1
    <3>3. \A u \in Nat : off <= u /\ u < off => wants(u)
      BY <1>3
    <3>4. Covered \cup (off .. off - 1) = {u \in Reference : u < nx}
      <4>1. Turn(off, nx)
        BY <1>3, <1>12, <2>2, <3>2, <3>3 DEF Turn
      <4> QED BY <1>3, <1>4, <2>2, <3>1, <4>1, Passed
    <3>5. off .. off - 1 = {}
      BY <1>3
    <3> QED BY <2>3, <3>4, <3>5
  <2>6. off' \in 0 .. WordSize - 1 /\ from <= off'
    BY <1>3, <1>4, <1>9, <1>12, <2>1, <2>2
  <2> QED BY <1>1, <1>4, <2>1, <2>3, <2>4, <2>5, <2>6, ScanGoesOn
<1> QED BY <1>2, <1>3, <1>6, <1>10, <1>11, <1>12

\* pread returns the units from lo on, hi - lo of them at most.
LEMMA PreadShape ==
  ASSUME file \in Files, NEW lo \in Nat, NEW hi \in Nat, lo <= hi, hi <= MaxEof
  PROVE  /\ Pread(lo, hi) \in Seq(Offsets) /\ Len(Pread(lo, hi)) \in 0 .. hi - lo
         /\ \A i \in 1 .. Len(Pread(lo, hi)) : Pread(lo, hi)[i] = lo + i - 1
<1> DEFINE m == Max({lo, Min({hi, file.size})})
           n == m - lo
<1>1. file.size \in Nat /\ MaxEof \in Nat
  BY FileParts, EofAssumption DEF Offsets
<1>2. Min({hi, file.size}) \in Nat /\ Min({hi, file.size}) <= hi
  BY <1>1, MinOfTwo
<1>3. m \in Nat /\ lo <= m /\ m <= hi
  BY <1>2, MaxOfTwo
<1> HIDE DEF m
<1>4. n \in Nat /\ n <= hi - lo
  BY <1>3
<1>5. Pread(lo, hi) = [i \in 1 .. n |-> lo + i - 1]
  BY DEF Pread, m
<1>6. \A i \in 1 .. n : lo + i - 1 \in Offsets
  BY <1>1, <1>3 DEF Offsets
<1> HIDE DEF n
<1>7. Pread(lo, hi) \in Seq(Offsets) /\ Len(Pread(lo, hi)) = n
  BY <1>4, <1>5, <1>6
<1> QED BY <1>4, <1>5, <1>7

Part == [offset : Offsets, size : Offsets]

\* Concatenation, place by place.
LEMMA ConcatShape ==
  ASSUME NEW S, NEW s \in Seq(S), NEW t \in Seq(S)
  PROVE  /\ s \o t \in Seq(S) /\ Len(s \o t) = Len(s) + Len(t)
         /\ DOMAIN (s \o t) = 1 .. Len(s) + Len(t)
         /\ \A i \in 1 .. Len(s) : (s \o t)[i] = s[i]
         /\ \A i \in 1 .. Len(t) : (s \o t)[Len(s) + i] = t[i]
OBVIOUS

\* One more extent at the end of the buffer and of the reply.
LEMMA Packed ==
  ASSUME NEW lo \in Nat, NEW hi \in Nat, NEW c \in Nat, NEW b \in Seq(Offsets),
         NEW ps \in Seq(Part), NEW pos \in [1 .. Len(ps) + 1 -> Nat],
         LaidOut(lo, hi, c, b, ps, pos),
         NEW got \in Seq(Offsets), NEW o \in Offsets, Len(got) \in Offsets,
         \A i \in 1 .. Len(got) : got[i] = o + i - 1,
         lo <= o, o + Len(got) <= hi
  PROVE  LET qs == Append(ps, [offset |-> o, size |-> Len(got)])
         IN  \E q \in [1 .. Len(qs) + 1 -> Nat] : LaidOut(lo, hi, c, b \o got, qs, q)
<1> DEFINE p == [offset |-> o, size |-> Len(got)]
           qs == Append(ps, p)
           d == b \o got
           n == Len(ps)
           q == [k \in 1 .. n + 2 |-> IF k = n + 2 THEN Len(d) ELSE pos[k]]
<1>1. p \in Part /\ n \in Nat /\ Len(b) \in Nat /\ Len(got) \in Nat /\ o \in Nat
  BY DEF Part, Offsets
<1>2. /\ Len(qs) = n + 1 /\ DOMAIN qs = 1 .. n + 1 /\ qs[n + 1] = p
      /\ \A k \in 1 .. n : qs[k] = ps[k]
  BY <1>1, AppendShape
<1>3. /\ Len(d) = Len(b) + Len(got) 
      /\ \A i \in 1 .. Len(b) : d[i] = b[i]
      /\ \A i \in 1 .. Len(got) : d[Len(b) + i] = got[i]
  BY ConcatShape
<1>4. /\ pos[1] = c /\ pos[n + 1] = Len(b)
      /\ \A k \in 1 .. n :
           /\ pos[k + 1] = pos[k] + ps[k].size
           /\ lo <= ps[k].offset /\ ps[k].offset + ps[k].size <= hi
           /\ \A i \in 0 .. ps[k].size - 1 :
                /\ pos[k] + i + 1 \in 1 .. Len(b)
                /\ b[pos[k] + i + 1] = ps[k].offset + i
  BY Zenon DEF LaidOut
<1>13. \A k \in 1 .. n + 1 : pos[k] \in Nat
  BY Zenon
<1> HIDE DEF p, qs, d, n
<1>5. q \in [1 .. n + 2 -> Nat]
  BY <1>1, <1>3, <1>13
<1>6. q[n + 2] = Len(d) /\ \A k \in 1 .. n + 1 : q[k] = pos[k]
  BY <1>1
<1>7. q[1] = c
  BY <1>1, <1>4, <1>6
<1> HIDE DEF q
<1>8. ASSUME NEW k \in 1 .. n
      PROVE  /\ q[k + 1] = q[k] + qs[k].size
             /\ lo <= qs[k].offset /\ qs[k].offset + qs[k].size <= hi
             /\ \A i \in 0 .. qs[k].size - 1 :
                  q[k] + i + 1 \in 1 .. Len(d) /\ d[q[k] + i + 1] = qs[k].offset + i
  <2>1. k \in 1 .. n + 1 /\ k + 1 \in 1 .. n + 1
    BY <1>1
  <2>3. qs[k] = ps[k] /\ q[k] = pos[k] /\ q[k + 1] = pos[k + 1]
    BY <1>2, <1>6, <2>1
  <2>2. \A i \in 0 .. ps[k].size - 1 :
          pos[k] + i + 1 \in 1 .. Len(d) /\ d[pos[k] + i + 1] = ps[k].offset + i
    <3> TAKE i \in 0 .. ps[k].size - 1
    <3>1. pos[k] + i + 1 \in 1 .. Len(b) /\ b[pos[k] + i + 1] = ps[k].offset + i
      BY <1>4
    <3>2. pos[k] + i + 1 \in 1 .. Len(b) + Len(got)
      BY <3>1, <1>1
    <3> QED BY <3>1, <3>2, <1>3
  <2> QED BY <1>4, <2>2, <2>3, Zenon
<1>9. /\ q[n + 2] = q[n + 1] + p.size
      /\ lo <= p.offset /\ p.offset + p.size <= hi
      /\ \A i \in 0 .. p.size - 1 :
           q[n + 1] + i + 1 \in 1 .. Len(d) /\ d[q[n + 1] + i + 1] = p.offset + i
  <2>1. q[n + 1] = Len(b)
    <3>1. n + 1 \in 1 .. n + 1
      BY <1>1
    <3> QED BY <3>1, <1>4, <1>6, Zenon
  <2>3. p.size = Len(got) /\ p.offset = o
    BY DEF p
  <2>2. ASSUME NEW i \in 0 .. Len(got) - 1
        PROVE  Len(b) + i + 1 \in 1 .. Len(d) /\ d[Len(b) + i + 1] = o + i
    <3>1. i + 1 \in 1 .. Len(got) /\ Len(b) + i + 1 = Len(b) + (i + 1) /\ o + (i + 1) - 1 = o + i
      BY <1>1
    <3>2. d[Len(b) + (i + 1)] = got[i + 1] /\ got[i + 1] = o + (i + 1) - 1
      BY <3>1, <1>3
    <3> QED BY <3>1, <3>2, <1>1, <1>3
  <2>4. q[n + 2] = q[n + 1] + Len(got)
    BY <1>3, <1>6, <2>1
  <2> QED BY <2>1, <2>2, <2>3, <2>4
<1>10. ASSUME NEW k \in 1 .. n + 1
       PROVE  /\ q[k + 1] = q[k] + qs[k].size
              /\ lo <= qs[k].offset /\ qs[k].offset + qs[k].size <= hi
              /\ \A i \in 0 .. qs[k].size - 1 :
                   q[k] + i + 1 \in 1 .. Len(d) /\ d[q[k] + i + 1] = qs[k].offset + i
  <2>1. CASE k \in 1 .. n
    BY <2>1, <1>8
  <2>2. CASE k = n + 1
    <3>1. qs[k] = p /\ k + 1 = n + 2
      BY <2>2, <1>1, <1>2
    <3> QED BY <3>1, <2>2, <1>9
  <2> QED BY <2>1, <2>2, <1>1, <1>2
<1>11. LaidOut(lo, hi, c, d, qs, q)
  <2>1. Len(qs) + 1 = n + 2
    BY <1>1, <1>2
  <2>2. Len(qs) = n + 1
    BY <1>2
  <2>3. q[Len(qs) + 1] = Len(d)
    BY <2>1, <1>6, Zenon
  <2> QED BY <2>2, <2>3, <1>7, <1>10, Zenon DEF LaidOut
<1>12. q \in [1 .. Len(qs) + 1 -> Nat]
  <2>1. Len(qs) + 1 = n + 2
    BY <1>1, <1>2
  <2> QED BY <2>1, <1>5
<1> QED BY <1>11, <1>12 DEF qs, d, p

\* The first extent of the reply lies where the cursor is, the others behind it.
LEMMA Unpacked ==
  ASSUME NEW lo \in Nat, NEW hi \in Nat, NEW c \in Nat, NEW b \in Seq(Offsets),
         NEW ps \in Seq(Part), NEW pos \in [1 .. Len(ps) + 1 -> Nat],
         LaidOut(lo, hi, c, b, ps, pos), ps # <<>>
  PROVE  /\ \A i \in 0 .. Head(ps).size - 1 :
              /\ c + i + 1 \in 1 .. Len(b) /\ b[c + i + 1] = Head(ps).offset + i
              /\ Head(ps).offset + i \in lo .. hi - 1
         /\ \E q \in [1 .. Len(Tail(ps)) + 1 -> Nat] :
              LaidOut(lo, hi, c + Head(ps).size, b, Tail(ps), q)
<1> DEFINE n == Len(ps)
           t == Tail(ps)
           q == [k \in 1 .. n |-> pos[k + 1]]
<1>1. n \in Nat /\ n >= 1 /\ Head(ps) = ps[1] /\ ps[1] \in Part /\ 1 \in 1 .. n
  OBVIOUS
<1>2. /\ t \in Seq(Part) /\ Len(t) = n - 1 /\ DOMAIN t = 1 .. n - 1
      /\ \A k \in 1 .. n - 1 : t[k] = ps[k + 1]
  OBVIOUS
<1>3. ps[1].size \in Nat /\ ps[1].offset \in Nat
  BY <1>1 DEF Part, Offsets
<1>4. /\ pos[1] = c /\ pos[n + 1] = Len(b)
      /\ \A k \in 1 .. n :
           /\ pos[k + 1] = pos[k] + ps[k].size
           /\ lo <= ps[k].offset /\ ps[k].offset + ps[k].size <= hi
           /\ \A i \in 0 .. ps[k].size - 1 :
                /\ pos[k] + i + 1 \in 1 .. Len(b)
                /\ b[pos[k] + i + 1] = ps[k].offset + i
  BY Zenon DEF LaidOut
<1>13. \A k \in 1 .. n + 1 : pos[k] \in Nat
  BY Zenon
<1> HIDE DEF n, t
<1>5. \A i \in 0 .. ps[1].size - 1 :
        /\ c + i + 1 \in 1 .. Len(b) /\ b[c + i + 1] = ps[1].offset + i
        /\ ps[1].offset + i \in lo .. hi - 1
  <2>1. /\ lo <= ps[1].offset /\ ps[1].offset + ps[1].size <= hi
        /\ \A i \in 0 .. ps[1].size - 1 :
             c + i + 1 \in 1 .. Len(b) /\ b[c + i + 1] = ps[1].offset + i
    BY <1>1, <1>4
  <2>2. \A i \in 0 .. ps[1].size - 1 : ps[1].offset + i \in lo .. hi - 1
    BY <2>1, <1>3
  <2> QED BY <2>1, <2>2, Zenon
<1>6. q \in [1 .. n -> Nat]
  BY <1>1, <1>13
<1>7. /\ \A k \in 1 .. n : q[k] = pos[k + 1]
      /\ q[1] = c + ps[1].size /\ q[n] = Len(b)
  BY <1>1, <1>4
<1> HIDE DEF q
<1>8. ASSUME NEW k \in 1 .. n - 1
      PROVE  /\ q[k + 1] = q[k] + t[k].size
             /\ lo <= t[k].offset /\ t[k].offset + t[k].size <= hi
             /\ \A i \in 0 .. t[k].size - 1 :
                  q[k] + i + 1 \in 1 .. Len(b) /\ b[q[k] + i + 1] = t[k].offset + i
  <2>1. k + 1 \in 1 .. n /\ k \in 1 .. n
    BY <1>1
  <2>2. t[k] = ps[k + 1] /\ q[k] = pos[k + 1] /\ q[k + 1] = pos[(k + 1) + 1]
    BY <1>2, <1>7, <2>1
  <2> QED BY <2>1, <2>2, <1>4, Zenon
<1>9. Len(t) + 1 = n
  BY <1>1, <1>2
<1>10. LaidOut(lo, hi, c + ps[1].size, b, t, q)
  BY <1>2, <1>7, <1>8, <1>9, Zenon DEF LaidOut
<1> QED BY <1>1, <1>5, <1>6, <1>9, <1>10 DEF t

\* Head and Tail, place by place.
LEMMA TailShape ==
  ASSUME NEW S, NEW s \in Seq(S), s # <<>>
  PROVE  /\ Len(s) \in Nat /\ Len(s) >= 1 /\ DOMAIN s = 1 .. Len(s)
         /\ Head(s) = s[1] /\ s[1] \in S
         /\ Tail(s) \in Seq(S) /\ Len(Tail(s)) = Len(s) - 1
         /\ DOMAIN Tail(s) = 1 .. Len(s) - 1
         /\ \A i \in 1 .. Len(s) - 1 : Tail(s)[i] = s[i + 1]
OBVIOUS

\* What is packed ends where the next extent begins at the latest.
LEMMA PackOrder ==
  ASSUME ExtentsInv, ranges # <<>>, ranges' = Tail(ranges), UNCHANGED <<from, to, end>>,
         Len(buf') \in Nat, Len(buf') <= Len(buf) + (ranges[1][2] - ranges[1][1])
  PROVE  InOrder'
<1> DEFINE n == Len(ranges)
<1>1. /\ from \in Nat /\ to \in Nat /\ end \in Nat /\ Len(buf) \in Nat
      /\ ranges \in Seq(Nat \X Nat)
  BY EofAssumption DEF ExtentsInv, ExtentsTypeOK, Offsets
<1>2. /\ n \in Nat /\ n >= 1 /\ DOMAIN ranges = 1 .. n /\ DOMAIN ranges' = 1 .. n - 1
      /\ \A i \in 1 .. n - 1 : ranges'[i] = ranges[i + 1]
  BY <1>1, TailShape
<1>3. \A i \in 1 .. n : ranges[i] \in Nat \X Nat
  BY <1>1
<1>4. /\ from < to /\ end <= to
      /\ \A i \in 1 .. n : /\ from + Len(buf) <= ranges[i][1]
                           /\ ranges[i][1] < ranges[i][2]
                           /\ ranges[i][2] <= end
      /\ \A i, j \in 1 .. n : i < j => ranges[i][2] <= ranges[j][1]
  BY <1>2 DEF ExtentsInv, InOrder
<1> HIDE DEF n
<1>5. PICK a \in Nat, c \in Nat : ranges[1][1] = a /\ ranges[1][2] = c
  BY <1>2, <1>3
<1>6. 1 \in 1 .. n /\ from + Len(buf) <= a /\ a < c /\ c <= end
  BY <1>2, <1>4, <1>5
<1>7. Len(buf') \in Nat /\ Len(buf') <= Len(buf) + (c - a)
  BY <1>5
<1>8. from + Len(buf') <= c /\ from + Len(buf') <= to
  BY <1>1, <1>4, <1>5, <1>6, <1>7
<1>9. ASSUME NEW i \in 1 .. n - 1
      PROVE  /\ from + Len(buf') <= ranges'[i][1]
             /\ ranges'[i][1] < ranges'[i][2] /\ ranges'[i][2] <= end
  <2>1. i + 1 \in 1 .. n /\ 1 < i + 1 /\ ranges'[i] = ranges[i + 1]
    BY <1>2
  <2>2. PICK a2 \in Nat, c2 \in Nat : ranges[i + 1][1] = a2 /\ ranges[i + 1][2] = c2
    BY <1>3, <2>1
  <2>3. a2 < c2 /\ c2 <= end /\ c <= a2
    BY <1>4, <1>5, <1>6, <2>1, <2>2
  <2>4. from + Len(buf') <= a2
    BY <1>1, <1>5, <1>7, <1>8, <2>2, <2>3
  <2> QED BY <2>1, <2>2, <2>3, <2>4
<1>10. \A i, j \in 1 .. n - 1 : i < j => ranges'[i][2] <= ranges'[j][1]
  <2> TAKE i, j \in 1 .. n - 1
  <2> HAVE i < j
  <2>1. i + 1 \in 1 .. n /\ j + 1 \in 1 .. n /\ i + 1 < j + 1
    BY <1>2
  <2> QED BY <2>1, <1>2, <1>4
<1> QED BY <1>2, <1>4, <1>8, <1>9, <1>10 DEF InOrder

LEMMA PackStep == ASSUME ExtentsInv, Pack PROVE ExtentsInv'
<1> DEFINE r == Head(ranges)
           got == Pread(r[1], r[2])
           p == [offset |-> r[1], size |-> Len(got)]
<1>1. /\ pc = "pack" /\ ranges # <<>> /\ buf' = buf \o got /\ params' = Append(params, p)
      /\ ranges' = Tail(ranges)
      /\ UNCHANGED <<file, kind, from, to, end, off, pc, cursor, placed, err_code, changes, errors>>
  BY DEF Pack
<1>2. /\ from \in Nat /\ to \in Nat /\ end \in Offsets /\ end \in Nat /\ MaxEof \in Nat
      /\ end <= MaxEof /\ ranges \in Seq(Nat \X Nat) /\ buf \in Seq(Offsets)
      /\ params \in Seq(Part) /\ cursor \in Nat /\ file \in Files
  BY EofAssumption DEF ExtentsInv, ExtentsTypeOK, Offsets, Part
<1>3. /\ r = ranges[1] /\ r \in Nat \X Nat /\ 1 \in DOMAIN ranges
      /\ ranges' \in Seq(Nat \X Nat)
  BY <1>1, <1>2, TailShape
<1>4. r[1] \in Nat /\ r[2] \in Nat /\ from + Len(buf) <= r[1] /\ r[1] < r[2] /\ r[2] <= end
      /\ end <= to
  BY <1>3 DEF ExtentsInv, InOrder
<1> HIDE DEF r
<1>5. /\ got \in Seq(Offsets) /\ Len(got) \in 0 .. r[2] - r[1]
      /\ \A i \in 1 .. Len(got) : got[i] = r[1] + i - 1
  <2>1. r[1] <= r[2] /\ r[2] <= MaxEof
    BY <1>2, <1>4
  <2> QED BY <1>2, <1>4, <2>1, PreadShape
<1> HIDE DEF got
<1>6. Len(buf) \in Nat /\ Len(got) \in Nat /\ r[1] \in Offsets /\ Len(got) \in Offsets
  BY <1>2, <1>4, <1>5 DEF Offsets
<1>7. p \in Part
  BY <1>6 DEF Part
<1>8. params' \in Seq(Part) /\ params' # <<>> /\ buf' \in Seq(Offsets)
  <2>1. params' \in Seq(Part) /\ Len(params') = Len(params) + 1 /\ Len(params) \in Nat
    BY <1>1, <1>2, <1>7, AppendShape
  <2>2. buf' \in Seq(Offsets)
    BY <1>1, <1>2, <1>5, ConcatShape
  <2>3. params' # <<>>
    <3>1. SUFFICES ASSUME params' = <<>> PROVE FALSE
      OBVIOUS
    <3>2. Len(params') = 0
      BY <3>1
    <3> QED BY <2>1, <3>2
  <2> QED BY <2>1, <2>2, <2>3
<1>9. ExtentsTypeOK'
  BY <1>1, <1>3, <1>8 DEF ExtentsInv, ExtentsTypeOK, Part
<1>10. InOrder'
  <2>1. Len(buf') = Len(buf) + Len(got)
    BY <1>1, <1>2, <1>5, ConcatShape
  <2>2. Len(buf') \in Nat /\ Len(buf') <= Len(buf) + (ranges[1][2] - ranges[1][1])
    BY <1>3, <1>4, <1>5, <1>6, <2>1
  <2> QED BY <1>1, <2>2, PackOrder
<1>11. Phases'
  BY <1>1 DEF ExtentsInv, Phases
<1>12. ExactSoFar'
  BY <1>1, <1>8 DEF ExactSoFar
<1>13. Layout'
  <2>1. err_code = 0 /\ err_code' = 0
    BY <1>1 DEF ExtentsInv, Phases
  <2>2. PICK pos \in [1 .. Len(params) + 1 -> Nat] :
          LaidOut(from, to, cursor, buf, params, pos)
    BY <2>1 DEF ExtentsInv, Layout
  <2>3. from <= r[1] /\ r[1] + Len(got) <= to
    BY <1>2, <1>4, <1>5, <1>6
  <2>4. \E q \in [1 .. Len(params') + 1 -> Nat] :
          LaidOut(from, to, cursor, buf', params', q)
    BY <1>1, <1>2, <1>5, <1>6, <2>2, <2>3, Packed
  <2> QED BY <2>1, <2>4, <1>1 DEF Layout
<1>14. PlacedIfOk'
  BY <1>1 DEF ExtentsInv, PlacedIfOk, Placed
<1> QED BY <1>9, <1>10, <1>11, <1>12, <1>13, <1>14 DEF ExtentsInv

LEMMA ReplyStep == ASSUME ExtentsInv, Reply PROVE ExtentsInv'
<1>1. /\ pc = "pack" /\ pc' = "unpack" /\ kind # "holes" /\ kind \in {"holes", "data"}
      /\ UNCHANGED <<file, kind, from, to, end, off, ranges, buf, params, cursor, placed, err_code,
                     changes, errors>>
  BY DEF Reply, ExtentsInv, Phases, ExtentsTypeOK
<1>2. ExtentsTypeOK'
  BY <1>1 DEF ExtentsInv, ExtentsTypeOK
<1>3. InOrder'
  BY <1>1 DEF ExtentsInv, InOrder
<1>4. Phases' /\ ExactSoFar'
  BY <1>1 DEF Phases, ExactSoFar
<1>5. Layout' /\ PlacedIfOk'
  BY <1>1, AnswerKept
<1> QED BY <1>2, <1>3, <1>4, <1>5 DEF ExtentsInv

LEMMA PreadFailsStep == ASSUME ExtentsInv, PreadFails PROVE ExtentsInv'
<1>1. /\ pc = "pack" /\ pc' = "unpack" /\ kind # "holes" /\ kind \in {"holes", "data"}
      /\ buf' = <<>> /\ err_code' = 1 /\ errors' = errors + 1 /\ errors < MaxErrors
      /\ UNCHANGED <<file, kind, from, to, end, off, ranges, params, cursor, placed, changes>>
  BY DEF PreadFails, ExtentsInv, Phases, ExtentsTypeOK
<1>2. ExtentsTypeOK'
  <2>1. buf' \in Seq(Offsets)
    BY <1>1
  <2>2. errors' \in 0 .. MaxErrors
    BY <1>1, BoundsAssumption DEF ExtentsInv, ExtentsTypeOK
  <2> QED BY <1>1, <2>1, <2>2 DEF ExtentsInv, ExtentsTypeOK
<1>3. InOrder'
  <2>1. /\ Len(buf) \in Nat /\ Len(buf') = 0 /\ from \in Nat /\ to \in Nat
        /\ ranges \in Seq(Nat \X Nat)
    BY <1>1, EofAssumption DEF ExtentsInv, ExtentsTypeOK, Offsets
  <2>2. from + Len(buf') <= to
    BY <2>1 DEF ExtentsInv, InOrder
  <2>3. ASSUME NEW i \in DOMAIN ranges PROVE from + Len(buf') <= ranges[i][1]
    <3>1. ranges[i][1] \in Nat
      BY <2>1
    <3>2. from + Len(buf) <= ranges[i][1]
      BY DEF ExtentsInv, InOrder
    <3> QED BY <2>1, <3>1, <3>2
  <2> QED BY <1>1, <2>2, <2>3 DEF ExtentsInv, InOrder
<1>4. Phases' /\ ExactSoFar'
  BY <1>1 DEF Phases, ExactSoFar
<1>5. Layout' /\ PlacedIfOk'
  BY <1>1 DEF Layout, PlacedIfOk
<1> QED BY <1>2, <1>3, <1>4, <1>5 DEF ExtentsInv

LEMMA UnpackStep == ASSUME ExtentsInv, Unpack PROVE ExtentsInv'
<1>1. /\ pc = "unpack" /\ kind # "holes" /\ kind \in {"holes", "data"}
      /\ UNCHANGED <<file, kind, from, to, end, off, ranges, buf, err_code, changes, errors>>
  BY DEF Unpack, ExtentsInv, Phases, ExtentsTypeOK
<1>2. InOrder'
  BY <1>1 DEF ExtentsInv, InOrder
<1>3. CASE params = <<>> /\ pc' = "done" /\ UNCHANGED <<params, cursor, placed>>
  <2>1. ExtentsTypeOK'
    BY <1>1, <1>3 DEF ExtentsInv, ExtentsTypeOK
  <2>2. Phases' /\ ExactSoFar'
    BY <1>1, <1>3 DEF Phases, ExactSoFar
  <2>3. Layout' /\ PlacedIfOk'
    BY <1>1, <1>3, AnswerKept
  <2> QED BY <1>2, <2>1, <2>2, <2>3 DEF ExtentsInv
<1>4. CASE params # <<>> /\ ~(params = <<>> /\ pc' = "done" /\ UNCHANGED <<params, cursor, placed>>)
  <2> DEFINE p == Head(params)
             put == {<<p.offset + i, DataAt(cursor + i + 1)>> : i \in 0 .. p.size - 1}
  <2>1. /\ placed' = placed \cup put /\ cursor' = cursor + p.size /\ params' = Tail(params)
        /\ pc' = pc
    BY <1>4 DEF Unpack
  <2>2. /\ params \in Seq(Part) /\ buf \in Seq(Offsets) /\ cursor \in Nat
        /\ placed \subseteq Nat \X (Offsets \cup {Garbage}) /\ from \in Nat /\ to \in Nat
    BY EofAssumption DEF ExtentsInv, ExtentsTypeOK, Part, Offsets
  <2>3. p \in Part /\ params' \in Seq(Part)
    BY <1>4, <2>1, <2>2, TailShape
  <2>4. p.size \in Nat /\ p.offset \in Nat
    BY <2>3 DEF Part, Offsets
  <2> HIDE DEF p
  <2>5. \A k \in Nat : DataAt(k) \in Offsets \cup {Garbage}
    BY <2>2 DEF DataAt
  <2>6. put \subseteq Nat \X (Offsets \cup {Garbage})
    <3> SUFFICES ASSUME NEW i \in 0 .. p.size - 1
                 PROVE  <<p.offset + i, DataAt(cursor + i + 1)>> \in
                          Nat \X (Offsets \cup {Garbage})
      OBVIOUS
    <3>1. p.offset + i \in Nat /\ cursor + i + 1 \in Nat
      BY <2>2, <2>4
    <3> QED BY <3>1, <2>5
  <2>7. ExtentsTypeOK'
    <3> HIDE DEF put
    <3>1. placed' \subseteq Nat \X (Offsets \cup {Garbage})
      BY <2>1, <2>2, <2>6
    <3>2. cursor' \in Nat
      BY <2>1, <2>2, <2>4
    <3> QED BY <1>1, <2>1, <2>3, <3>1, <3>2 DEF ExtentsInv, ExtentsTypeOK, Part
  <2>8. Phases' /\ ExactSoFar'
    BY <1>1, <2>1 DEF Phases, ExactSoFar
  <2>9. ASSUME err_code = 0
        PROVE  /\ \A i \in 0 .. p.size - 1 :
                    /\ cursor + i + 1 \in 1 .. Len(buf) /\ buf[cursor + i + 1] = p.offset + i
                    /\ p.offset + i \in from .. to - 1
               /\ \E q \in [1 .. Len(params') + 1 -> Nat] :
                    LaidOut(from, to, cursor', buf, params', q)
    <3>1. PICK pos \in [1 .. Len(params) + 1 -> Nat] :
            LaidOut(from, to, cursor, buf, params, pos)
      BY <2>9 DEF ExtentsInv, Layout
    <3> QED BY <1>4, <2>1, <2>2, <3>1, Unpacked DEF p
  <2>10. Layout'
    BY <1>1, <2>9 DEF Layout
  <2>11. PlacedIfOk'
    <3> SUFFICES ASSUME err_code = 0, NEW w \in placed'
                 PROVE  w[1] = w[2] /\ w[1] \in from .. to - 1
      BY <1>1 DEF PlacedIfOk, Placed
    <3>1. CASE w \in placed
      BY <3>1 DEF ExtentsInv, PlacedIfOk, Placed
    <3>2. CASE w \in put
      <4>1. PICK i \in 0 .. p.size - 1 : w = <<p.offset + i, DataAt(cursor + i + 1)>>
        BY <3>2
      <4>2. /\ cursor + i + 1 \in 1 .. Len(buf) /\ buf[cursor + i + 1] = p.offset + i
            /\ p.offset + i \in from .. to - 1
        BY <2>9
      <4>3. DataAt(cursor + i + 1) = p.offset + i
        BY <4>2, <2>2 DEF DataAt
      <4> QED BY <4>1, <4>2, <4>3
    <3> QED BY <2>1, <3>1, <3>2
  <2> QED BY <1>2, <2>7, <2>8, <2>10, <2>11 DEF ExtentsInv
<1> QED BY <1>3, <1>4 DEF Unpack

LEMMA ChangeStep == ASSUME ExtentsInv, Change PROVE ExtentsInv'
<1>1. /\ file' \in Files /\ changes' = changes + 1 /\ changes < MaxChanges
      /\ UNCHANGED <<kind, from, to, end, off, ranges, pc, buf, params, cursor, placed,
                     err_code, errors>>
  BY DEF Change
<1>2. changes' \in 0 .. MaxChanges /\ changes' # 0
  BY <1>1, BoundsAssumption DEF ExtentsInv, ExtentsTypeOK
<1>3. ExtentsTypeOK'
  BY <1>1, <1>2 DEF ExtentsInv, ExtentsTypeOK
<1>4. InOrder'
  BY <1>1 DEF ExtentsInv, InOrder
<1>5. Phases' /\ ExactSoFar'
  BY <1>1, <1>2 DEF ExtentsInv, Phases, ExactSoFar
<1>6. Layout' /\ PlacedIfOk'
  BY <1>1, AnswerKept
<1> QED BY <1>3, <1>4, <1>5, <1>6 DEF ExtentsInv

LEMMA ExtentsStutter == ASSUME ExtentsInv, UNCHANGED extentvars PROVE ExtentsInv'
<1>1. ExtentsTypeOK' /\ InOrder' /\ Phases'
  BY DEF ExtentsInv, ExtentsTypeOK, InOrder, Phases, extentvars
<1>2. ExactSoFar'
  BY DEF ExtentsInv, ExactSoFar, Covered, Reference, extentvars
<1>3. Layout' /\ PlacedIfOk'
  BY AnswerKept DEF extentvars
<1> QED BY <1>1, <1>2, <1>3 DEF ExtentsInv

LEMMA ExtentsInvNext == ASSUME CursorFits, ExtentsInv, [ExtentsNext]_extentvars PROVE ExtentsInv'
BY ScanStep, PackStep, ReplyStep, PreadFailsStep, UnpackStep, ChangeStep, ExtentsStutter
   DEF ExtentsNext, Step

LEMMA ExtentsInvInit == ExtentsInit => ExtentsInv
<1> SUFFICES ASSUME ExtentsInit PROVE ExtentsInv
  OBVIOUS
<1>1. /\ file \in Files /\ kind \in {"holes", "data"} /\ from \in Offsets /\ to \in Offsets
      /\ from < to /\ end = Min({to, file.size}) /\ off = from /\ ranges = <<>>
      /\ buf = <<>> /\ params = <<>> /\ pc = "scan" /\ cursor = 0 /\ placed = {}
      /\ err_code = 0 /\ changes = 0 /\ errors = 0
  BY DEF ExtentsInit
<1>2. MaxEof \in Nat /\ WordSize \in Nat /\ MaxEof < WordSize - 1
  BY EofAssumption, SizeAssumption
<1>3. from \in 0 .. MaxEof /\ to \in 0 .. MaxEof /\ file.size \in 0 .. MaxEof
  BY <1>1, FileParts DEF Offsets
<1>4. end \in 0 .. MaxEof /\ end <= to /\ end <= file.size
  BY <1>1, <1>2, <1>3, MinOfTwo
<1>5. ExtentsTypeOK
  <2>1. ranges \in Seq(Nat \X Nat) /\ buf \in Seq(Offsets)
        /\ params \in Seq([offset : Offsets, size : Offsets])
    BY <1>1
  <2>2. off \in 0 .. WordSize - 1 /\ changes \in 0 .. MaxChanges /\ errors \in 0 .. MaxErrors
    BY <1>1, <1>2, <1>3, BoundsAssumption
  <2> QED BY <1>1, <1>4, <2>1, <2>2 DEF ExtentsTypeOK, Offsets
<1>6. Len(buf) = 0 /\ Len(params) = 0 /\ DOMAIN ranges = {}
  BY <1>1
<1>7. InOrder
  BY <1>1, <1>3, <1>4, <1>6 DEF InOrder
<1>8. Phases
  BY <1>1, <1>3, <1>6 DEF Phases
<1>9. ExactSoFar
  <2>1. Covered = {}
    BY <1>6, InCovered
  <2>2. {u \in Reference : u < off} = {}
    BY <1>1, <1>3, InReference
  <2> QED BY <1>1, <1>4, <2>1, <2>2 DEF ExactSoFar
<1>10. Layout
  <2> DEFINE pos == [k \in 1 .. 1 |-> 0]
  <2>1. pos \in [1 .. Len(params) + 1 -> Nat] /\ pos[1] = 0
    BY <1>6
  <2>2. LaidOut(from, to, cursor, buf, params, pos)
    BY <1>1, <1>6, <2>1 DEF LaidOut
  <2> QED BY <2>1, <2>2 DEF Layout
<1>11. PlacedIfOk
  BY <1>1 DEF PlacedIfOk, Placed
<1> QED BY <1>5, <1>7, <1>8, <1>9, <1>10, <1>11 DEF ExtentsInv

\* The extents take disjoint parts of the range behind what is packed.
LEMMA BufferSuffices == ExtentsInv => BufferBound
<1> SUFFICES ASSUME ExtentsInv PROVE BufferBound
  OBVIOUS
<1> DEFINE lo == from + Len(buf)
           f == [w \in Wanting |-> w[2]]
<1>1. /\ from \in Nat /\ to \in Nat /\ end \in Nat /\ Len(buf) \in Nat
      /\ ranges \in Seq(Nat \X Nat) /\ end <= to /\ lo <= to
  BY EofAssumption DEF ExtentsInv, ExtentsTypeOK, InOrder, Offsets
<1>2. \A i \in DOMAIN ranges : /\ i \in Int /\ ranges[i][1] \in Nat /\ ranges[i][2] \in Nat
                               /\ lo <= ranges[i][1] /\ ranges[i][2] <= end
  BY <1>1 DEF ExtentsInv, InOrder
<1>3. \A i, j \in DOMAIN ranges : i < j => ranges[i][2] <= ranges[j][1]
  BY DEF ExtentsInv, InOrder
<1>4. ASSUME NEW w \in Wanting
      PROVE  \E i \in DOMAIN ranges : \E u \in ranges[i][1] .. ranges[i][2] - 1 : w = <<i, u>>
  BY DEF Wanting
<1> HIDE DEF lo
<1>5. lo \in Nat
  BY <1>1 DEF lo
<1>6. f \in [Wanting -> lo .. to - 1]
  <2> SUFFICES ASSUME NEW w \in Wanting PROVE w[2] \in lo .. to - 1
    OBVIOUS
  <2>1. PICK i \in DOMAIN ranges : \E u \in ranges[i][1] .. ranges[i][2] - 1 : w = <<i, u>>
    BY <1>4
  <2>2. PICK u \in ranges[i][1] .. ranges[i][2] - 1 : w = <<i, u>>
    BY <2>1
  <2>3. u \in lo .. to - 1
    BY <1>1, <1>2, <1>5
  <2> QED BY <2>2, <2>3
<1>7. ASSUME NEW v \in Wanting, NEW w \in Wanting, f[v] = f[w] PROVE v = w
  <2>1. v[2] = w[2]
    BY <1>7
  <2>2. PICK i \in DOMAIN ranges : \E u \in ranges[i][1] .. ranges[i][2] - 1 : v = <<i, u>>
    BY <1>4
  <2>3. PICK j \in DOMAIN ranges : \E u \in ranges[j][1] .. ranges[j][2] - 1 : w = <<j, u>>
    BY <1>4
  <2>4. PICK u \in ranges[i][1] .. ranges[i][2] - 1 : v = <<i, u>>
    BY <2>2
  <2>5. u \in ranges[j][1] .. ranges[j][2] - 1 /\ w = <<j, u>>
    BY <2>1, <2>3, <2>4
  <2>6. i = j
    <3>1. ~(i < j)
      BY <1>2, <1>3, <2>4, <2>5
    <3>2. ~(j < i)
      BY <1>2, <1>3, <2>4, <2>5
    <3> QED BY <1>2, <3>1, <3>2
  <2> QED BY <2>4, <2>5, <2>6
<1>8. f \in Injection(Wanting, lo .. to - 1)
  BY <1>6, <1>7 DEF Injection, IsInjective
<1> HIDE DEF f
<1>9. IsFiniteSet(lo .. to - 1) /\ Cardinality(lo .. to - 1) = to - lo
  <2>1. lo \in Int /\ to - 1 \in Int
    BY <1>1, <1>5
  <2>2. /\ IsFiniteSet(lo .. to - 1)
        /\ Cardinality(lo .. to - 1) = IF lo > to - 1 THEN 0 ELSE (to - 1) - lo + 1
    BY <2>1, FS_Interval, Zenon
  <2> QED BY <1>1, <1>5, <2>2
<1>10. IsFiniteSet(Wanting) /\ Cardinality(Wanting) <= to - lo
  BY <1>8, <1>9, FS_Injection
<1>11. Cardinality(Wanting) \in Nat
  BY <1>10, FS_CardinalityType
<1> QED BY <1>1, <1>10, <1>11 DEF BufferBound, lo

LEMMA SoundFromInv == ExtentsInv => ExtentsSound
<1> SUFFICES ASSUME ExtentsInv PROVE ExtentsSound
  OBVIOUS
<1>1. ExactExtents
  BY DEF ExtentsInv, ExactSoFar, InOrder, ExactExtents
<1> QED BY <1>1, BufferSuffices DEF ExtentsInv, ExtentsSound

\* A scan keeps its kind, and the width of its cursor with it.
LEMMA CursorFitsNext == [ExtentsNext]_extentvars => (CursorFits' <=> CursorFits)
BY DEF ExtentsNext, Step, Scan, Pack, Reply, PreadFails, Unpack, Change, extentvars, CursorFits

(* The state of a scan keeps its types: the extents found, the packed buffer    *)
(* and the copy rebuilt from it stay in range, as long as the cursor of the     *)
(* scan (an int for data, a size_t for holes) can hold the offsets asked for.   *)
THEOREM ExtentTypes == ExtentsSpec => [](CursorFits => ExtentsTypeOK)
<1>1. ExtentsInit => (CursorFits => ExtentsInv)
  BY ExtentsInvInit
<1>2. (CursorFits => ExtentsInv) /\ [ExtentsNext]_extentvars => (CursorFits => ExtentsInv)'
  BY ExtentsInvNext, CursorFitsNext
<1>3. (CursorFits => ExtentsInv) => (CursorFits => ExtentsTypeOK)
  BY DEF ExtentsInv
<1> QED BY <1>1, <1>2, <1>3, PTL DEF ExtentsSpec

(* For any file and range: the extents that find_holes_in_range and             *)
(* find_data_in_range find in a file left as it is are exactly its holes or its *)
(* data; also when the file is cut while it is scanned, what is read fits the   *)
(* buffer, and in an answer without error sync_filedata puts every byte back    *)
(* where it was read.  The scan for data keeps its place in an int hole_begin:  *)
(* this holds of files whose offsets an int can hold.                           *)
THEOREM ExtentsAlwaysSound == ExtentsSpec => [](CursorFits => ExtentsSound)
<1>1. ExtentsInit => (CursorFits => ExtentsInv)
  BY ExtentsInvInit
<1>2. (CursorFits => ExtentsInv) /\ [ExtentsNext]_extentvars => (CursorFits => ExtentsInv)'
  BY ExtentsInvNext, CursorFitsNext
<1>3. (CursorFits => ExtentsInv) => (CursorFits => ExtentsSound)
  BY SoundFromInv
<1> QED BY <1>1, <1>2, <1>3, PTL DEF ExtentsSpec

-----------------------------------------------------------------------------
(* The descriptor cache. *)

USE MaxFdNumAssumption, MaxInoAssumption, NoPathAssumption, NoFdAssumption

-----------------------------------------------------------------------------
(* The operators of LRU, entry by entry. *)

E == Entry(Paths, FDs)

\* No two entries of a list share a key or a descriptor.
Distinct(l) ==
  /\ UniqueKeys(l)
  /\ \A i, j \in DOMAIN l : l[i].data = l[j].data => i = j

\* LruFind returns the position of a key that is present.
LEMMA FindPosition ==
  ASSUME NEW l \in Seq(E), NEW k \in LruKeys(l)
  PROVE  LruFind(l, k) \in 1 .. Len(l) /\ l[LruFind(l, k)].key = k
BY DEF LruKeys, LruFind

\* RemoveAt closes the gap.
LEMMA RemoveAtShape ==
  ASSUME NEW l \in Seq(E), NEW i \in 1 .. Len(l)
  PROVE  /\ RemoveAt(l, i) \in Seq(E)
         /\ Len(RemoveAt(l, i)) = Len(l) - 1
         /\ \A j \in 1 .. Len(l) - 1 :
              RemoveAt(l, i)[j] = IF j < i THEN l[j] ELSE l[j + 1]
<1> DEFINE a == SubSeq(l, 1, i - 1)
           b == SubSeq(l, i + 1, Len(l))
<1>1. a \in Seq(E) /\ Len(a) = i - 1 /\ \A j \in 1 .. i - 1 : a[j] = l[j]
  OBVIOUS
<1>2. /\ b \in Seq(E) /\ Len(b) = Len(l) - i
      /\ \A j \in 1 .. Len(l) - i : b[j] = l[i + j]
  OBVIOUS
<1> HIDE DEF a, b
<1>3. RemoveAt(l, i) = a \o b
  BY DEF RemoveAt, a, b
<1>4. a \o b \in Seq(E) /\ Len(a \o b) = Len(l) - 1
  <2>1. a \o b \in Seq(E) /\ Len(a \o b) = Len(a) + Len(b)
    BY <1>1, <1>2, ConcatProperties
  <2> QED BY <1>1, <1>2, <2>1
<1>5. ASSUME NEW j \in 1 .. Len(l) - 1
      PROVE  (a \o b)[j] = IF j < i THEN l[j] ELSE l[j + 1]
  <2>1. CASE j < i
    BY <1>1, <1>2, <2>1
  <2>2. CASE ~(j < i)
    <3>1. (a \o b)[j] = b[j - (i - 1)]
      BY <1>1, <1>2, <2>2
    <3>2. b[j - (i - 1)] = l[i + (j - (i - 1))]
      BY <1>2, <2>2
    <3>3. i + (j - (i - 1)) = j + 1
      OBVIOUS
    <3>4. (a \o b)[j] = l[j + 1]
      BY <3>1, <3>2, <3>3, Zenon
    <3> QED BY <2>2, <3>4, Zenon
  <2> QED BY <2>1, <2>2, Zenon
<1> QED BY <1>3, <1>4, <1>5

\* Cons shifts the list by one.
LEMMA ConsShape ==
  ASSUME NEW l \in Seq(E), NEW e \in E
  PROVE  /\ Cons(e, l) \in Seq(E)
         /\ Len(Cons(e, l)) = Len(l) + 1
         /\ Cons(e, l)[1] = e
         /\ \A j \in 2 .. Len(l) + 1 : Cons(e, l)[j] = l[j - 1]
BY DEF Cons

\* Where the entries of a list are after the entry at position i has gone.
Without(l, i, r) ==
  /\ r \in Seq(E) /\ Len(r) = Len(l) - 1
  /\ \A j \in 1 .. Len(l) - 1 : r[j] = IF j < i THEN l[j] ELSE l[j + 1]

\* Where they are after it has gone to the front.
ToFront(l, i, r) ==
  /\ r \in Seq(E) /\ Len(r) = Len(l)
  /\ r[1] = l[i]
  /\ \A j \in 2 .. Len(l) : r[j] = IF j <= i THEN l[j - 1] ELSE l[j]

\* Where they are after e was put in front and the tail has expired.
Pushed(l, e, r) ==
  /\ r \in Seq(E) /\ Len(r) = IF Len(l) < MaxFdNum THEN Len(l) + 1 ELSE MaxFdNum
  /\ r[1] = e
  /\ \A j \in 2 .. Len(r) : r[j] = l[j - 1]

LEMMA RemoveShape ==
  ASSUME NEW l \in Seq(E), NEW k \in LruKeys(l)
  PROVE  Without(l, LruFind(l, k), LruRemove(l, k))
BY FindPosition, RemoveAtShape DEF LruRemove, Without

LEMMA HitShape ==
  ASSUME NEW l \in Seq(E), NEW k \in LruKeys(l)
  PROVE  ToFront(l, LruFind(l, k), LruHit(l, k))
<1> DEFINE i == LruFind(l, k)
           a == RemoveAt(l, i)
<1>1. i \in 1 .. Len(l) /\ l[i] \in E
  BY FindPosition
<1>2. /\ a \in Seq(E) /\ Len(a) = Len(l) - 1
      /\ \A j \in 1 .. Len(l) - 1 : a[j] = IF j < i THEN l[j] ELSE l[j + 1]
  BY <1>1, RemoveAtShape
<1>3. LruHit(l, k) = Cons(l[i], a)
  BY DEF LruHit
<1> HIDE DEF i, a
<1>a. /\ Cons(l[i], a) \in Seq(E) /\ Len(Cons(l[i], a)) = Len(a) + 1
      /\ Cons(l[i], a)[1] = l[i]
      /\ \A j \in 2 .. Len(a) + 1 : Cons(l[i], a)[j] = a[j - 1]
  BY <1>1, <1>2, ConsShape
<1>b. Len(a) + 1 = Len(l)
  BY <1>2
<1>4. /\ Cons(l[i], a) \in Seq(E) /\ Len(Cons(l[i], a)) = Len(l) /\ Cons(l[i], a)[1] = l[i]
      /\ \A j \in 2 .. Len(l) : Cons(l[i], a)[j] = a[j - 1]
  BY <1>a, <1>b
<1>5. \A j \in 2 .. Len(l) : Cons(l[i], a)[j] = IF j <= i THEN l[j - 1] ELSE l[j]
  BY <1>1, <1>2, <1>4
<1> QED BY <1>3, <1>4, <1>5 DEF ToFront, i

\* A miss: the new entry is first and the last of a full list expires.
LEMMA MissShape ==
  ASSUME NEW l \in Seq(E), Len(l) <= MaxFdNum, NEW p \in Paths, NEW f \in FDs,
         p \notin LruKeys(l)
  PROVE  /\ Pushed(l, [key |-> p, data |-> f], Kept(LruTouch(l, p, f, 0)))
         /\ \A g : g \in Expired(LruTouch(l, p, f, 0)) <=>
                     Len(l) = MaxFdNum /\ g = l[MaxFdNum].data
<1> DEFINE e == [key |-> p, data |-> f]
           c == LruTouch(l, p, f, 0)
<1>1. e \in E
  BY DEF E, Entry
<1>2. c = Cons(e, l)
  BY DEF LruTouch
<1> HIDE DEF e, c
<1>3. /\ c \in Seq(E) /\ Len(c) = Len(l) + 1 /\ c[1] = e
      /\ \A j \in 2 .. Len(l) + 1 : c[j] = l[j - 1]
  BY <1>1, <1>2, ConsShape
<1>4. CASE Len(l) < MaxFdNum
  <2>1. Kept(c) = SubSeq(c, 1, Len(c))
    BY <1>3, <1>4 DEF Kept
  <2>2. Pushed(l, e, Kept(c))
    BY <1>3, <1>4, <2>1 DEF Pushed
  <2>3. Expired(c) = {}
    BY <1>3, <1>4 DEF Expired
  <2> QED BY <1>4, <2>2, <2>3 DEF e, c
<1>5. CASE Len(l) = MaxFdNum
  <2>1. Kept(c) = SubSeq(c, 1, MaxFdNum)
    BY <1>3, <1>5 DEF Kept
  <2>2. Pushed(l, e, Kept(c))
    BY <1>3, <1>5, <2>1 DEF Pushed
  <2>3. \A j : j \in DOMAIN c /\ j > MaxFdNum <=> j = MaxFdNum + 1
    BY <1>3, <1>5
  <2>4. Expired(c) = {c[MaxFdNum + 1].data}
    BY <2>3 DEF Expired
  <2>5. c[MaxFdNum + 1] = l[MaxFdNum]
    BY <1>3, <1>5
  <2> QED BY <1>5, <2>2, <2>4, <2>5 DEF e, c
<1> QED BY <1>4, <1>5

-----------------------------------------------------------------------------

(* The inductive invariant, by parts. *)

CacheTyped ==
  /\ names \in [Paths -> {0} \cup Inodes]
  /\ nextIno \in 1 .. MaxIno + 1
  /\ fdtab \in [FDs -> {0} \cup Inodes]
  /\ fds \in Seq(E)
  /\ moved \subseteq Paths

WorkersTyped ==
  /\ wk \in [Workers -> Worker]
  /\ hist \in [Workers -> History]
  /\ crashed \in BOOLEAN

\* The cache whenever fdm_mu is free.
Cache == CacheTyped /\ FdAccounting /\ CacheBound

\* Entry i of list l is the one for path p, and only paths of S are newer.
Place(l, p, S, i) ==
  i \in DOMAIN l /\ l[i].key = p /\ \A j \in 1 .. i - 1 : l[j].key \in S

\* A worker without a request holds nothing, one with a request has a path.
Phase(w) ==
  /\ IF wk[w].pc = "idle" THEN wk[w].path = NoPath /\ wk[w].fd = NoFd /\ wk[w].hfd = NoFd
                          ELSE wk[w].path \in Paths
  /\ wk[w].pc = "handler" /\ wk[w].op \notin PeerOps => wk[w].syncs > 0
  /\ IsFiniteSet(hist[w].since)

\* The entry a worker relies on is cached, holds the worker's descriptors, and
\* only paths that were opened since are in front of it.
Held(w) ==
  wk[w].pc # "idle" /\ Undisturbed(w) =>
    \E i \in DOMAIN fds :
           /\ Place(fds, wk[w].path, hist[w].since, i)
           /\ wk[w].fd # NoFd => fds[i].data = wk[w].fd /\ fdtab[wk[w].fd] = hist[w].ino
           /\ wk[w].hfd # NoFd => fds[i].data = wk[w].hfd /\ fdtab[wk[w].hfd] = hist[w].hino

InUse == \A w \in Workers : Phase(w) /\ Held(w)

IInv == Cache /\ CoherentUnlessRenamed /\ WorkersTyped /\ InUse

-----------------------------------------------------------------------------
(* What the three changes of a list keep. *)

\* The descriptors that a list holds.
Datas(l) == {l[i].data : i \in DOMAIN l}

LEMMA ToFrontKeeps ==
  ASSUME NEW l \in Seq(E), NEW r, NEW i \in 1 .. Len(l), Distinct(l), ToFront(l, i, r)
  PROVE  /\ Distinct(r)
         /\ \A j \in DOMAIN r : \E m \in DOMAIN l : r[j] = l[m]
         /\ Datas(r) = Datas(l)
<1> DEFINE src(j) == IF j = 1 THEN i ELSE IF j <= i THEN j - 1 ELSE j
<1>a. ASSUME NEW j \in DOMAIN r PROVE src(j) \in DOMAIN l /\ r[j] = l[src(j)]
  BY DEF ToFront
<1>b. ASSUME NEW j \in DOMAIN r, NEW m \in DOMAIN r, src(j) = src(m) PROVE j = m
  BY <1>b DEF ToFront
<1>1. Distinct(r)
  <2> HIDE DEF src
  <2> QED BY <1>a, <1>b DEF Distinct, UniqueKeys
<1>2. ASSUME NEW j \in DOMAIN r PROVE \E m \in DOMAIN l : r[j] = l[m]
  BY DEF ToFront
<1>3. ASSUME NEW m \in DOMAIN l PROVE \E j \in DOMAIN r : r[j] = l[m]
  <2>1. CASE m = i
    BY <2>1 DEF ToFront
  <2>2. CASE m < i
    <3>1. m + 1 \in DOMAIN r /\ r[m + 1] = l[m]
      BY <2>2 DEF ToFront
    <3> QED BY <3>1
  <2>3. CASE m > i
    BY <2>3 DEF ToFront
  <2> QED BY <2>1, <2>2, <2>3
<1>4. Datas(r) \subseteq Datas(l)
  BY <1>2 DEF Datas
<1>5. Datas(l) \subseteq Datas(r)
  BY <1>3, Zenon DEF Datas
<1> QED BY <1>1, <1>2, <1>4, <1>5

\* What a hit on k does to the place of another path and of k itself.
LEMMA HitSame ==
  ASSUME NEW l \in Seq(E), Distinct(l), NEW k \in LruKeys(l),
         NEW S, NEW m, Place(l, k, S, m)
  PROVE  Place(LruHit(l, k), k, S, 1) /\ LruHit(l, k)[1] = l[m]
<1> DEFINE i == LruFind(l, k)
           r == LruHit(l, k)
<1>1. i \in 1 .. Len(l) /\ k = l[i].key /\ ToFront(l, i, r)
  BY FindPosition, HitShape
<1>2. m \in 1 .. Len(l) /\ l[m].key = k
  BY DEF Place
<1> HIDE DEF i, r
<1>3. m = i
  BY <1>1, <1>2 DEF Distinct, UniqueKeys
<1>4. Place(r, k, S, 1) /\ r[1] = l[m]
  BY <1>1, <1>2, <1>3 DEF Place, ToFront
<1> QED BY <1>4 DEF r

LEMMA HitOther ==
  ASSUME NEW l \in Seq(E), Distinct(l), NEW k \in LruKeys(l),
         NEW q, q # k, NEW S, NEW m, Place(l, q, S, m),
         NEW T, S \subseteq T, k \in T
  PROVE  \E n : Place(LruHit(l, k), q, T, n) /\ LruHit(l, k)[n] = l[m]
<1> DEFINE i == LruFind(l, k)
           r == LruHit(l, k)
<1>0. i \in 1 .. Len(l) /\ l[i].key = k /\ ToFront(l, i, r)
  BY FindPosition, HitShape
<1> SUFFICES \E n : Place(r, q, T, n) /\ r[n] = l[m]
  OBVIOUS
<1> HIDE DEF i, r
<1>1. m \in 1 .. Len(l) /\ l[m].key = q /\ \A j \in 1 .. m - 1 : l[j].key \in S
  BY DEF Place
<1>3. CASE m < i
  <2>1. m + 1 \in DOMAIN r /\ r[m + 1] = l[m]
    BY <1>0, <1>1, <1>3 DEF ToFront
  <2>2. ASSUME NEW j \in 1 .. m PROVE r[j].key \in T
    <3>1. CASE j = 1
      BY <1>0, <3>1 DEF ToFront
    <3>2. CASE j # 1
      <4>1. r[j] = l[j - 1] /\ j - 1 \in 1 .. m - 1
        BY <1>0, <1>1, <1>3, <3>2 DEF ToFront
      <4> QED BY <1>1, <4>1
    <3> QED BY <3>1, <3>2
  <2>3. Place(r, q, T, m + 1)
    <3>1. (m + 1) - 1 = m
      BY <1>1
    <3> QED BY <1>1, <2>1, <2>2, <3>1 DEF Place
  <2> QED BY <2>1, <2>3
<1>4. CASE m > i
  <2>1. m \in DOMAIN r /\ r[m] = l[m]
    BY <1>0, <1>1, <1>4 DEF ToFront
  <2>2. ASSUME NEW j \in 1 .. m - 1 PROVE r[j].key \in T
    <3>1. CASE j = 1
      BY <1>0, <3>1 DEF ToFront
    <3>2. CASE j # 1 /\ j <= i
      <4>1. r[j] = l[j - 1] /\ j - 1 \in 1 .. m - 1
        BY <1>0, <1>1, <1>4, <3>2 DEF ToFront
      <4> QED BY <1>1, <4>1
    <3>3. CASE j # 1 /\ j > i
      <4>1. r[j] = l[j]
        BY <1>0, <1>1, <1>4, <3>3 DEF ToFront
      <4> QED BY <1>1, <4>1
    <3> QED BY <1>0, <1>1, <3>1, <3>2, <3>3
  <2> QED BY <1>1, <2>1, <2>2 DEF Place
<1>5. m < i \/ m > i
  BY <1>0, <1>1
<1> QED BY <1>3, <1>4, <1>5

LEMMA WithoutKeeps ==
  ASSUME NEW l \in Seq(E), NEW r, NEW i \in 1 .. Len(l), Distinct(l), Without(l, i, r)
  PROVE  /\ Distinct(r)
         /\ \A j \in DOMAIN r : \E m \in DOMAIN l : m # i /\ r[j] = l[m]
         /\ \A f : f \in Datas(r) <=> f \in Datas(l) /\ f # l[i].data
<1> DEFINE src(j) == IF j < i THEN j ELSE j + 1
<1>a. ASSUME NEW j \in DOMAIN r PROVE src(j) \in DOMAIN l /\ r[j] = l[src(j)]
  BY DEF Without
<1>b. ASSUME NEW j \in DOMAIN r, NEW m \in DOMAIN r, src(j) = src(m) PROVE j = m
  BY <1>b DEF Without
<1>1. Distinct(r)
  <2> HIDE DEF src
  <2> QED BY <1>a, <1>b DEF Distinct, UniqueKeys
<1>2. ASSUME NEW j \in DOMAIN r PROVE \E m \in DOMAIN l : m # i /\ r[j] = l[m]
  <2>1. CASE j < i
    BY <2>1 DEF Without
  <2>2. CASE ~(j < i)
    <3>1. j + 1 \in DOMAIN l /\ j + 1 # i /\ r[j] = l[j + 1]
      BY <2>2 DEF Without
    <3> QED BY <3>1
  <2> QED BY <2>1, <2>2
<1>3. ASSUME NEW m \in DOMAIN l, m # i PROVE \E j \in DOMAIN r : r[j] = l[m]
  <2>1. CASE m < i
    BY <2>1 DEF Without
  <2>2. CASE m > i
    <3>1. m - 1 \in DOMAIN r /\ r[m - 1] = l[(m - 1) + 1] /\ (m - 1) + 1 = m
      BY <2>2 DEF Without
    <3> QED BY <3>1
  <2> QED BY <1>3, <2>1, <2>2
<1>4. ASSUME NEW f \in Datas(r) PROVE f \in Datas(l) /\ f # l[i].data
  <2>1. PICK j \in DOMAIN r : f = r[j].data
    BY DEF Datas
  <2>2. PICK m \in DOMAIN l : m # i /\ r[j] = l[m]
    BY <1>2
  <2> QED BY <2>1, <2>2 DEF Datas, Distinct
<1>5. ASSUME NEW f \in Datas(l), f # l[i].data PROVE f \in Datas(r)
  <2>1. PICK m \in DOMAIN l : f = l[m].data
    BY DEF Datas
  <2>2. m # i
    BY <1>5, <2>1
  <2> QED BY <1>3, <2>1, <2>2 DEF Datas
<1> QED BY <1>1, <1>2, <1>4, <1>5

LEMMA WithoutPlace ==
  ASSUME NEW l \in Seq(E), NEW r, NEW i \in 1 .. Len(l), Without(l, i, r),
         NEW q, NEW S, NEW m, Place(l, q, S, m), m # i
  PROVE  \E n : Place(r, q, S, n) /\ r[n] = l[m]
<1>1. m \in 1 .. Len(l) /\ l[m].key = q /\ \A j \in 1 .. m - 1 : l[j].key \in S
  BY DEF Place
<1>2. CASE m < i
  <2>1. m \in DOMAIN r /\ r[m] = l[m]
    BY <1>1, <1>2 DEF Without
  <2>2. ASSUME NEW j \in 1 .. m - 1 PROVE r[j].key \in S
    BY <1>1, <1>2 DEF Without
  <2> QED BY <1>1, <2>1, <2>2 DEF Place
<1>3. CASE m > i
  <2>1. m - 1 \in DOMAIN r /\ r[m - 1] = l[(m - 1) + 1] /\ (m - 1) + 1 = m
    BY <1>1, <1>3 DEF Without
  <2>2. ASSUME NEW j \in 1 .. (m - 1) - 1 PROVE r[j].key \in S
    BY <1>1, <1>3 DEF Without
  <2> QED BY <1>1, <2>1, <2>2 DEF Place
<1> QED BY <1>1, <1>2, <1>3

\* m different keys from a set of fewer than MaxFdNum leave room for one more.
LEMMA Pigeon ==
  ASSUME NEW T, IsFiniteSet(T), Cardinality(T) < MaxFdNum, NEW m \in Nat,
         NEW g \in [1 .. m -> T], \A a, b \in 1 .. m : g[a] = g[b] => a = b
  PROVE  m < MaxFdNum
<1>1. g \in Injection(1 .. m, T)
  BY DEF Injection, IsInjective
<1>2. Cardinality(1 .. m) <= Cardinality(T)
  BY <1>1, FS_Injection
<1>3. Cardinality(1 .. m) = m
  BY FS_Interval
<1>4. Cardinality(T) \in Nat
  BY FS_CardinalityType
<1> QED BY <1>2, <1>3, <1>4

LEMMA PushedKeeps ==
  ASSUME NEW l \in Seq(E), Len(l) <= MaxFdNum, NEW e \in E, NEW r, Distinct(l),
         Pushed(l, e, r), e.key \notin LruKeys(l), e.data \notin Datas(l)
  PROVE  /\ Distinct(r) /\ Len(r) <= MaxFdNum
         /\ \A j \in DOMAIN r :
              (j = 1 /\ r[j] = e) \/ (j # 1 /\ j - 1 \in DOMAIN l /\ r[j] = l[j - 1])
         /\ \A f : f \in Datas(r) <=>
              f = e.data \/ (f \in Datas(l) /\ ~(Len(l) = MaxFdNum /\ f = l[MaxFdNum].data))
<1>1. ASSUME NEW j \in DOMAIN r
      PROVE  (j = 1 /\ r[j] = e) \/ (j # 1 /\ j - 1 \in DOMAIN l /\ r[j] = l[j - 1])
  BY DEF Pushed
<1>2. \A i \in DOMAIN l : l[i].key # e.key /\ l[i].data # e.data
  BY DEF LruKeys, Datas
<1>3. Distinct(r)
  <2>1. SUFFICES ASSUME NEW i \in DOMAIN r, NEW j \in DOMAIN r,
                        r[i].key = r[j].key \/ r[i].data = r[j].data
                 PROVE  i = j
    BY DEF Distinct, UniqueKeys
  <2>2. i \in Nat /\ j \in Nat
    BY DEF Pushed
  <2>3. CASE i = 1 \/ j = 1
    BY <1>1, <1>2, <2>1, <2>3
  <2>4. CASE i # 1 /\ j # 1
    <3>1. /\ i - 1 \in DOMAIN l /\ r[i] = l[i - 1]
          /\ j - 1 \in DOMAIN l /\ r[j] = l[j - 1]
      BY <1>1, <2>4
    <3>2. i - 1 = j - 1
      BY <2>1, <3>1 DEF Distinct, UniqueKeys
    <3> QED BY <2>2, <3>2
  <2> QED BY <2>3, <2>4
<1>4. ASSUME NEW f \in Datas(r)
      PROVE  f = e.data \/ (f \in Datas(l) /\ ~(Len(l) = MaxFdNum /\ f = l[MaxFdNum].data))
  <2>1. PICK j \in DOMAIN r : f = r[j].data
    BY DEF Datas
  <2>2. CASE j # 1
    <3>1. j - 1 \in DOMAIN l /\ f = l[j - 1].data
      BY <1>1, <2>1, <2>2
    <3>2. j - 1 # MaxFdNum
      BY DEF Pushed
    <3>3. Len(l) = MaxFdNum => l[MaxFdNum].data # f
      BY <3>1, <3>2 DEF Distinct
    <3> QED BY <3>1, <3>3 DEF Datas
  <2> QED BY <1>1, <2>1, <2>2
<1>5. e.data \in Datas(r)
  BY DEF Pushed, Datas
<1>6. ASSUME NEW f \in Datas(l), ~(Len(l) = MaxFdNum /\ f = l[MaxFdNum].data)
      PROVE  f \in Datas(r)
  <2>1. PICK m \in DOMAIN l : f = l[m].data
    BY DEF Datas
  <2>2. m + 1 \in DOMAIN r /\ r[m + 1] = l[(m + 1) - 1] /\ (m + 1) - 1 = m
    BY <1>6, <2>1 DEF Pushed
  <2> QED BY <2>1, <2>2 DEF Datas
<1>7. Len(r) <= MaxFdNum
  BY DEF Pushed
<1> QED BY <1>1, <1>3, <1>4, <1>5, <1>6, <1>7

\* An entry with fewer than MaxFdNum other paths in front of it is not the one
\* that a miss expires.
LEMMA MissPlace ==
  ASSUME NEW l \in Seq(E), Len(l) <= MaxFdNum, Distinct(l),
         NEW k \in Paths, NEW f \in FDs, k \notin LruKeys(l),
         NEW r, r = Kept(LruTouch(l, k, f, 0)),
         NEW q, NEW S, NEW m, Place(l, q, S, m),
         NEW T, S \subseteq T, k \in T, IsFiniteSet(T), Cardinality(T) < MaxFdNum
  PROVE  m < MaxFdNum /\ Place(r, q, T, m + 1) /\ r[m + 1] = l[m]
<1> DEFINE e == [key |-> k, data |-> f]
<1>0. Pushed(l, e, r) /\ e.key = k
  BY MissShape
<1> HIDE DEF e
<1>1. m \in 1 .. Len(l) /\ l[m].key = q /\ \A j \in 1 .. m - 1 : l[j].key \in S
  BY DEF Place
<1> DEFINE g == [j \in 1 .. m |-> IF j = 1 THEN k ELSE l[j - 1].key]
<1>2. g \in [1 .. m -> T]
  <2>1. ASSUME NEW j \in 1 .. m, j # 1 PROVE l[j - 1].key \in S
    <3>1. j - 1 \in 1 .. m - 1
      BY <1>1, <2>1
    <3> QED BY <1>1, <3>1
  <2> QED BY <2>1
<1>3. ASSUME NEW a \in 1 .. m, NEW b \in 1 .. m, g[a] = g[b] PROVE a = b
  <2>0. a \in Int /\ b \in Int
    BY <1>1
  <2>1. \A j \in 1 .. m : j # 1 => j - 1 \in DOMAIN l
    BY <1>1
  <2>2. \A j \in 1 .. m : j # 1 => l[j - 1].key # k
    BY <2>1 DEF LruKeys
  <2>3. CASE a = 1 \/ b = 1
    BY <1>3, <2>2, <2>3
  <2>4. CASE a # 1 /\ b # 1
    <3>1. l[a - 1].key = l[b - 1].key
      BY <1>3, <2>4
    <3>2. a - 1 = b - 1
      BY <2>1, <2>4, <3>1 DEF Distinct, UniqueKeys
    <3> QED BY <2>0, <3>2
  <2> QED BY <2>3, <2>4
<1>4. m < MaxFdNum
  <2>2. m \in Nat
    BY <1>1
  <2> HIDE DEF g
  <2> QED BY <1>2, <1>3, <2>2, Pigeon
<1>5. m + 1 \in DOMAIN r /\ r[m + 1] = l[(m + 1) - 1] /\ (m + 1) - 1 = m
  <2>1. m + 1 \in 2 .. Len(r) /\ (m + 1) - 1 = m
    BY <1>0, <1>1, <1>4 DEF Pushed
  <2>2. r[m + 1] = l[(m + 1) - 1]
    BY <1>0, <2>1 DEF Pushed
  <2> QED BY <1>0, <2>1, <2>2 DEF Pushed
<1>6. ASSUME NEW j \in 1 .. m PROVE r[j].key \in T
  <2>1. CASE j = 1
    BY <1>0, <2>1 DEF Pushed
  <2>2. CASE j # 1
    <3>1. j - 1 \in 1 .. m - 1 /\ j \in 2 .. m + 1
      BY <1>1, <2>2
    <3>2. r \in Seq(E) /\ m + 1 <= Len(r) /\ \A n \in 2 .. Len(r) : r[n] = l[n - 1]
      BY <1>0, <1>1, <1>5 DEF Pushed
    <3>3. r[j] = l[j - 1]
      BY <1>1, <3>1, <3>2
    <3> QED BY <1>1, <3>1, <3>3
  <2> QED BY <2>1, <2>2
<1>7. Place(r, q, T, m + 1)
  BY <1>1, <1>5, <1>6 DEF Place
<1> QED BY <1>4, <1>5, <1>7

-----------------------------------------------------------------------------
(* What the methods of FdManager keep. *)

\* The cache and the descriptor table are one-to-one.
Account(l, tab) == Distinct(l) /\ \A f \in FDs : tab[f] # 0 <=> f \in Datas(l)

\* The entry of path q is still there and leads to the same file; if only the
\* paths of S were in front of it, only those of T are now.
Keeps(q, S, T) ==
  \A m \in DOMAIN fds : Place(fds, q, S, m) =>
    \E n \in DOMAIN fds' : /\ Place(fds', q, T, n) /\ fds'[n] = fds[m]
                           /\ fdtab'[fds[m].data] = fdtab[fds[m].data]

LEMMA AccountForm == ASSUME FdAccounting PROVE Account(fds, fdtab)
BY DEF FdAccounting, Account, Distinct, Datas

LEMMA AccountFormNext == ASSUME Account(fds', fdtab') PROVE FdAccounting'
BY DEF FdAccounting, Account, Distinct, Datas

LEMMA EntryParts ==
  ASSUME CacheTyped, NEW i \in DOMAIN fds
  PROVE  fds[i] \in E /\ fds[i].key \in Paths /\ fds[i].data \in FDs
<1>1. fds[i] \in E
  BY DEF CacheTyped
<1> QED BY <1>1 DEF E, Entry

LEMMA SysOpenStep ==
  ASSUME CacheTyped, NEW p \in Paths, NEW creat, SysOpen(p, creat)
  PROVE  /\ names' \in [Paths -> {0} \cup Inodes] /\ nextIno' \in 1 .. MaxIno + 1
         /\ names'[p] \in Inodes
         /\ \A q \in Paths : q # p => names'[q] = names[q]
<1>1. CASE names[p] # 0 /\ UNCHANGED <<names, nextIno>>
  BY <1>1 DEF CacheTyped
<1>2. CASE /\ nextIno \in Inodes
           /\ names' = [names EXCEPT ![p] = nextIno]
           /\ nextIno' = nextIno + 1
  BY <1>2 DEF CacheTyped, Inodes
<1> QED BY <1>1, <1>2 DEF SysOpen

\* What fdm_open guarantees, hit or miss.
OpenEffect(p, f) ==
  /\ Cache' /\ CoherentUnlessRenamed'
  /\ fds' # <<>> /\ fds'[1].key = p /\ fds'[1].data = f
  /\ \A S : Keeps(p, S, S)
  /\ \A q, S, T : /\ q # p /\ S \subseteq T /\ p \in T
                  /\ IsFiniteSet(T) /\ Cardinality(T) < MaxFdNum
                  => Keeps(q, S, T)

LEMMA OpenHitStep ==
  ASSUME Cache, CoherentUnlessRenamed, NEW p \in Paths, NEW f \in FDs, OpenHit(p, f)
  PROVE  OpenEffect(p, f)
<1> DEFINE i == LruFind(fds, p)
<1>1. fds \in Seq(E) /\ p \in LruKeys(fds) /\ fds' = LruHit(fds, p) /\ f = fds[i].data
  BY DEF Cache, CacheTyped, OpenHit, LruData
<1>2. i \in 1 .. Len(fds) /\ fds[i].key = p /\ ToFront(fds, i, fds')
  BY <1>1, FindPosition, HitShape
<1> HIDE DEF i
<1>3. UNCHANGED <<names, nextIno, fdtab, moved>>
  BY DEF OpenHit, kernel
<1>4. Account(fds, fdtab)
  BY AccountForm DEF Cache
<1>5. /\ Distinct(fds') /\ Datas(fds') = Datas(fds)
      /\ \A j \in DOMAIN fds' : \E m \in DOMAIN fds : fds'[j] = fds[m]
  BY <1>1, <1>2, <1>4, ToFrontKeeps DEF Account
<1>6. FdAccounting'
  BY <1>3, <1>4, <1>5, AccountFormNext DEF Account
<1>7. CacheTyped' /\ CacheBound'
  BY <1>2, <1>3 DEF Cache, CacheTyped, CacheBound, ToFront
<1>8. CoherentUnlessRenamed'
  BY <1>3, <1>5 DEF CoherentUnlessRenamed
<1>9. fds' # <<>> /\ fds'[1].key = p /\ fds'[1].data = f
  BY <1>1, <1>2 DEF ToFront
<1>10. ASSUME NEW S PROVE Keeps(p, S, S)
  <2>1. SUFFICES ASSUME NEW m \in DOMAIN fds, Place(fds, p, S, m)
                 PROVE  Place(fds', p, S, 1) /\ fds'[1] = fds[m] /\ 1 \in DOMAIN fds'
    BY <1>3 DEF Keeps
  <2>2. Place(fds', p, S, 1) /\ fds'[1] = fds[m]
    <3>1. Distinct(fds)
      BY <1>4 DEF Account
    <3> QED BY <1>1, <2>1, <3>1, HitSame
  <2> QED BY <2>2 DEF Place
<1>11. ASSUME NEW q, q # p, NEW S, NEW T, S \subseteq T, p \in T PROVE Keeps(q, S, T)
  <2>1. SUFFICES ASSUME NEW m \in DOMAIN fds, Place(fds, q, S, m)
                 PROVE  \E n \in DOMAIN fds' : Place(fds', q, T, n) /\ fds'[n] = fds[m]
    BY <1>3 DEF Keeps
  <2>2. PICK n : Place(fds', q, T, n) /\ fds'[n] = fds[m]
    <3>1. Distinct(fds)
      BY <1>4 DEF Account
    <3>2. \E n : Place(LruHit(fds, p), q, T, n) /\ LruHit(fds, p)[n] = fds[m]
      BY <1>1, <1>11, <2>1, <3>1, HitOther
    <3> QED BY <1>1, <3>2
  <2> QED BY <2>2 DEF Place
<1> QED BY <1>6, <1>7, <1>8, <1>9, <1>10, <1>11 DEF OpenEffect, Cache

LEMMA OpenMissStep ==
  ASSUME Cache, CoherentUnlessRenamed, NEW p \in Paths, NEW f \in FDs, NEW creat,
         OpenMiss(p, creat, f)
  PROVE  OpenEffect(p, f)
<1> DEFINE e == [key |-> p, data |-> f]
           full == LruTouch(fds, p, f, 0)
<1>1. /\ fds \in Seq(E) /\ Len(fds) <= MaxFdNum /\ p \notin LruKeys(fds)
      /\ fdtab \in [FDs -> {0} \cup Inodes] /\ fdtab[f] = 0
      /\ fds' = Kept(full)
      /\ moved' = (moved \ {p}) \cap LruKeys(fds')
      /\ SysOpen(p, creat)
  BY DEF Cache, CacheTyped, CacheBound, OpenMiss
<1>2. e \in E /\ e.key = p /\ e.data = f
  BY DEF E, Entry
<1>3. /\ Pushed(fds, e, fds')
      /\ \A g : g \in Expired(full) <=> Len(fds) = MaxFdNum /\ g = fds[MaxFdNum].data
  BY <1>1, MissShape
<1>4. fdtab' = [g \in FDs |-> IF g \in Expired(full) THEN 0
                              ELSE IF g = f THEN names'[p] ELSE fdtab[g]]
  BY DEF OpenMiss
<1>5. /\ names' \in [Paths -> {0} \cup Inodes] /\ nextIno' \in 1 .. MaxIno + 1
      /\ names'[p] \in Inodes /\ names'[p] # 0
      /\ \A q \in Paths : q # p => names'[q] = names[q]
  BY <1>1, SysOpenStep DEF Cache, Inodes
<1> HIDE DEF e, full
<1>6. Account(fds, fdtab) /\ f \notin Datas(fds)
  BY <1>1, AccountForm DEF Cache, Account
<1>7. /\ Distinct(fds') /\ Len(fds') <= MaxFdNum
      /\ \A j \in DOMAIN fds' : (j = 1 /\ fds'[j] = e)
           \/ (j # 1 /\ j - 1 \in DOMAIN fds /\ fds'[j] = fds[j - 1])
      /\ \A g : g \in Datas(fds') <=>
           g = f \/ (g \in Datas(fds) /\ ~(Len(fds) = MaxFdNum /\ g = fds[MaxFdNum].data))
  BY <1>1, <1>2, <1>3, <1>6, PushedKeeps DEF Account
<1>8. f \notin Expired(full)
  <2>1. Len(fds) = MaxFdNum => fds[MaxFdNum].data \in Datas(fds)
    BY <1>1 DEF Datas
  <2> QED BY <1>3, <1>6, <2>1
<1>9. fdtab' \in [FDs -> {0} \cup Inodes]
  BY <1>1, <1>4, <1>5
<1>10. \A g \in FDs : fdtab'[g] # 0 <=> g \in Datas(fds')
  BY <1>3, <1>4, <1>5, <1>6, <1>7, <1>8 DEF Account
<1>11. FdAccounting'
  BY <1>7, <1>10, AccountFormNext DEF Account
<1>12. CacheTyped' /\ CacheBound'
  BY <1>1, <1>3, <1>5, <1>7, <1>9 DEF Cache, CacheTyped, CacheBound, Pushed
<1>13. ASSUME NEW m \in DOMAIN fds, ~(Len(fds) = MaxFdNum /\ m = MaxFdNum)
       PROVE  fdtab'[fds[m].data] = fdtab[fds[m].data]
  <2>1. fds[m].data \in FDs /\ fds[m].data # f
    BY <1>6, EntryParts DEF Cache, Datas
  <2>2. fds[m].data \notin Expired(full)
    <3>1. Len(fds) = MaxFdNum => MaxFdNum \in DOMAIN fds
      BY <1>1
    <3> QED BY <1>3, <1>6, <1>13, <3>1 DEF Account, Distinct
  <2> QED BY <1>4, <2>1, <2>2
<1>14. CoherentUnlessRenamed'
  <2>1. SUFFICES ASSUME NEW j \in DOMAIN fds', fds'[j].key \notin moved'
                 PROVE  fdtab'[fds'[j].data] = names'[fds'[j].key]
    BY DEF CoherentUnlessRenamed
  <2>2. CASE fds'[j] = e
    BY <1>2, <1>4, <1>8, <2>2
  <2>3. CASE j # 1 /\ j - 1 \in DOMAIN fds /\ fds'[j] = fds[j - 1]
    <3>1. fds[j - 1].key \in Paths /\ fds[j - 1].key # p
      BY <1>1, <2>3, EntryParts DEF Cache, LruKeys
    <3>2. fds[j - 1].key \in LruKeys(fds')
      BY <2>3 DEF LruKeys
    <3>3. fds[j - 1].key \notin moved
      BY <1>1, <2>1, <2>3, <3>1, <3>2
    <3>4. j - 1 # MaxFdNum
      BY <1>3, <1>7 DEF Pushed
    <3>5. fdtab'[fds[j - 1].data] = fdtab[fds[j - 1].data]
      BY <1>13, <2>3, <3>4
    <3>6. fdtab[fds[j - 1].data] = names[fds[j - 1].key]
      BY <2>3, <3>3 DEF CoherentUnlessRenamed
    <3> QED BY <1>5, <2>3, <3>1, <3>5, <3>6
  <2> QED BY <1>7, <2>2, <2>3
<1>15. fds' # <<>> /\ fds'[1].key = p /\ fds'[1].data = f
  BY <1>1, <1>2, <1>3 DEF Pushed
<1>16. \A S : Keeps(p, S, S)
  BY <1>1 DEF Keeps, Place, LruKeys
<1>17. ASSUME NEW q, NEW S, NEW T, S \subseteq T, p \in T,
              IsFiniteSet(T), Cardinality(T) < MaxFdNum
       PROVE  Keeps(q, S, T)
  <2>1. SUFFICES ASSUME NEW m \in DOMAIN fds, Place(fds, q, S, m)
                 PROVE  /\ m + 1 \in DOMAIN fds'
                        /\ Place(fds', q, T, m + 1) /\ fds'[m + 1] = fds[m]
                        /\ fdtab'[fds[m].data] = fdtab[fds[m].data]
    BY DEF Keeps
  <2>2. m < MaxFdNum /\ Place(fds', q, T, m + 1) /\ fds'[m + 1] = fds[m]
    <3>1. Distinct(fds)
      BY <1>6 DEF Account
    <3> QED BY <1>1, <1>17, <2>1, <3>1, MissPlace DEF full
  <2> QED BY <1>13, <2>2 DEF Place
<1> QED BY <1>11, <1>12, <1>14, <1>15, <1>16, <1>17 DEF OpenEffect, Cache

LEMMA OpenStep ==
  ASSUME Cache, CoherentUnlessRenamed, NEW p \in Paths, NEW f \in FDs, NEW creat,
         fdm_open(p, creat, f)
  PROVE  OpenEffect(p, f)
BY OpenHitStep, OpenMissStep DEF fdm_open

\* What dropping a path guarantees: its entry and its descriptor are gone, the
\* other entries keep their order and their files.
DropEffect(p) ==
  /\ FdAccounting' /\ CacheBound' /\ fds' \in Seq(E)
  /\ fdtab' \in [FDs -> {0} \cup Inodes]
  /\ \A j \in DOMAIN fds' : \E m \in DOMAIN fds :
       fds[m].key # p /\ fds'[j] = fds[m] /\ fdtab'[fds[m].data] = fdtab[fds[m].data]
  /\ \A q, S : q # p => Keeps(q, S, S)

LEMMA DropStep ==
  ASSUME Cache, NEW p \in Paths, DropCached(p)
  PROVE  DropEffect(p)
<1>1. /\ fds \in Seq(E) /\ fds' = LruRemove(fds, p)
      /\ fdtab \in [FDs -> {0} \cup Inodes] /\ Account(fds, fdtab) /\ Len(fds) <= MaxFdNum
  BY AccountForm DEF Cache, CacheTyped, CacheBound, DropCached
<1>2. CASE p \notin LruKeys(fds)
  <2>1. fds' = fds /\ fdtab' = fdtab
    BY <1>1, <1>2 DEF LruRemove, DropCached
  <2>2. \A j \in DOMAIN fds : fds[j].key # p
    BY <1>2 DEF LruKeys
  <2>3. FdAccounting'
    BY <1>1, <2>1, AccountFormNext
  <2>4. \A q, S : Keeps(q, S, S)
    BY <2>1, Zenon DEF Keeps
  <2> QED BY <1>1, <2>1, <2>2, <2>3, <2>4 DEF DropEffect, CacheBound
<1>3. CASE p \in LruKeys(fds)
  <2> DEFINE i == LruFind(fds, p)
  <2>1. i \in 1 .. Len(fds) /\ fds[i].key = p /\ Without(fds, i, fds')
    BY <1>1, <1>3, FindPosition, RemoveShape
  <2>2. fdtab' = [fdtab EXCEPT ![fds[i].data] = 0]
    BY <1>3 DEF DropCached, LruData
  <2> HIDE DEF i
  <2>3. fds[i].data \in FDs
    BY <1>1, <2>1, EntryParts DEF Cache
  <2>4. /\ Distinct(fds')
        /\ \A j \in DOMAIN fds' : \E m \in DOMAIN fds : m # i /\ fds'[j] = fds[m]
        /\ \A f : f \in Datas(fds') <=> f \in Datas(fds) /\ f # fds[i].data
    BY <1>1, <2>1, WithoutKeeps DEF Account
  <2>5. fdtab' \in [FDs -> {0} \cup Inodes]
    BY <1>1, <2>2, <2>3
  <2>6. FdAccounting'
    <3>1. \A f \in FDs : fdtab'[f] # 0 <=> f \in Datas(fds')
      BY <1>1, <2>2, <2>3, <2>4 DEF Account
    <3> QED BY <2>4, <3>1, AccountFormNext DEF Account
  <2>7. CacheBound' /\ fds' \in Seq(E)
    BY <1>1, <2>1 DEF Without, CacheBound
  <2>8. ASSUME NEW m \in DOMAIN fds, m # i
        PROVE  fds[m].key # p /\ fdtab'[fds[m].data] = fdtab[fds[m].data]
    <3>1. fds[m].key # fds[i].key /\ fds[m].data # fds[i].data
      BY <1>1, <2>1, <2>8 DEF Account, Distinct, UniqueKeys
    <3>2. fds[m].data \in FDs
      BY EntryParts DEF Cache
    <3> QED BY <1>1, <2>1, <2>2, <3>1, <3>2
  <2>9. ASSUME NEW j \in DOMAIN fds'
        PROVE  \E m \in DOMAIN fds : /\ fds[m].key # p /\ fds'[j] = fds[m]
                                     /\ fdtab'[fds[m].data] = fdtab[fds[m].data]
    BY <2>4, <2>8
  <2>10. ASSUME NEW q, q # p, NEW S PROVE Keeps(q, S, S)
    <3>1. SUFFICES ASSUME NEW m \in DOMAIN fds, Place(fds, q, S, m)
                   PROVE  \E n \in DOMAIN fds' :
                            /\ Place(fds', q, S, n) /\ fds'[n] = fds[m]
                            /\ fdtab'[fds[m].data] = fdtab[fds[m].data]
      BY DEF Keeps
    <3>2. m # i
      BY <2>1, <2>10, <3>1 DEF Place
    <3>3. PICK n : Place(fds', q, S, n) /\ fds'[n] = fds[m]
      BY <1>1, <2>1, <3>1, <3>2, WithoutPlace
    <3> QED BY <2>8, <3>2, <3>3 DEF Place
  <2> QED BY <2>5, <2>6, <2>7, <2>9, <2>10 DEF DropEffect
<1> QED BY <1>2, <1>3

\* create and unlink: the other paths' names and entries are untouched.
LEMMA DropKeepsCache ==
  ASSUME Cache, CoherentUnlessRenamed, NEW p \in Paths, DropEffect(p),
         moved' = moved \ {p},
         names' \in [Paths -> {0} \cup Inodes], nextIno' \in 1 .. MaxIno + 1,
         \A q \in Paths : q # p => names'[q] = names[q]
  PROVE  Cache' /\ CoherentUnlessRenamed'
<1>1. CacheTyped'
  BY DEF Cache, CacheTyped, DropEffect
<1>2. CoherentUnlessRenamed'
  <2>1. SUFFICES ASSUME NEW j \in DOMAIN fds', fds'[j].key \notin moved'
                 PROVE  fdtab'[fds'[j].data] = names'[fds'[j].key]
    BY DEF CoherentUnlessRenamed
  <2>2. PICK m \in DOMAIN fds : /\ fds[m].key # p /\ fds'[j] = fds[m]
                                /\ fdtab'[fds[m].data] = fdtab[fds[m].data]
    BY DEF DropEffect
  <2>3. fds[m].key \in Paths
    BY EntryParts DEF Cache
  <2>4. fdtab[fds[m].data] = names[fds[m].key]
    BY <2>1, <2>2 DEF CoherentUnlessRenamed
  <2> QED BY <2>2, <2>3, <2>4
<1> QED BY <1>1, <1>2 DEF Cache, DropEffect

-----------------------------------------------------------------------------
(* What the workers rely on. *)

\* A worker whose entry is kept goes on holding it.
LEMMA HeldKept ==
  ASSUME NEW v \in Workers, Held(v), wk'[v] = wk[v],
         hist'[v].ino = hist[v].ino, hist'[v].hino = hist[v].hino,
         Undisturbed(v)' => Undisturbed(v),
         wk[v].pc # "idle" /\ Undisturbed(v)' => Keeps(wk[v].path, hist[v].since, hist'[v].since)
  PROVE  Held(v)'
<1>1. SUFFICES ASSUME wk[v].pc # "idle", Undisturbed(v)'
               PROVE  \E i \in DOMAIN fds' :
                        /\ Place(fds', wk[v].path, hist'[v].since, i)
                        /\ wk[v].fd # NoFd =>
                             fds'[i].data = wk[v].fd /\ fdtab'[wk[v].fd] = hist[v].ino
                        /\ wk[v].hfd # NoFd =>
                             fds'[i].data = wk[v].hfd /\ fdtab'[wk[v].hfd] = hist[v].hino
  BY DEF Held, Place
<1>2. PICK i \in DOMAIN fds :
        /\ Place(fds, wk[v].path, hist[v].since, i)
        /\ wk[v].fd # NoFd => fds[i].data = wk[v].fd /\ fdtab[wk[v].fd] = hist[v].ino
        /\ wk[v].hfd # NoFd => fds[i].data = wk[v].hfd /\ fdtab[wk[v].hfd] = hist[v].hino
  BY <1>1 DEF Held
<1>3. PICK n \in DOMAIN fds' :
        /\ Place(fds', wk[v].path, hist'[v].since, n) /\ fds'[n] = fds[i]
        /\ fdtab'[fds[i].data] = fdtab[fds[i].data]
  BY <1>1, <1>2 DEF Keeps
<1> QED BY <1>2, <1>3

\* Bystanders of an open.
LEMMA OpenedKeeps ==
  ASSUME WorkersTyped, InUse, NEW p \in Paths, NEW f \in FDs, OpenEffect(p, f),
         NEW v \in Workers, wk'[v] = wk[v], hist'[v] = Opened(p)[v]
  PROVE  hist'[v] \in History /\ Phase(v)' /\ Held(v)'
<1>1. /\ hist[v] \in History /\ hist[v].since \subseteq Paths
      /\ Phase(v) /\ Held(v) /\ IsFiniteSet(hist[v].since)
  BY DEF WorkersTyped, History, InUse, Phase
<1>2. CASE ~(wk[v].path \notin {NoPath, p} /\ Undisturbed(v))
  <2>1. hist'[v] = hist[v]
    BY <1>2 DEF Opened
  <2>2. Undisturbed(v)' => Undisturbed(v)
    BY <2>1 DEF Undisturbed
  <2>3. wk[v].pc # "idle" => wk[v].path # NoPath
    BY <1>1 DEF Phase
  <2>4. wk[v].pc # "idle" /\ Undisturbed(v)' => Keeps(wk[v].path, hist[v].since, hist'[v].since)
    BY <1>2, <2>1, <2>2, <2>3 DEF OpenEffect
  <2>5. Held(v)'
    BY <1>1, <2>1, <2>2, <2>4, HeldKept
  <2> QED BY <1>1, <2>1, <2>5 DEF Phase
<1>3. CASE wk[v].path \notin {NoPath, p} /\ Undisturbed(v)
  <2>1. hist'[v] = [hist[v] EXCEPT !.since = hist[v].since \cup {p}]
    BY <1>3 DEF Opened
  <2>2. /\ hist'[v] \in History /\ hist'[v].ino = hist[v].ino /\ hist'[v].hino = hist[v].hino
        /\ hist'[v].since = hist[v].since \cup {p}
    BY <1>1, <2>1 DEF History
  <2>3. IsFiniteSet(hist'[v].since)
    BY <1>1, <2>2, FS_AddElement
  <2>4. Undisturbed(v)' => Cardinality(hist'[v].since) < MaxFdNum
    BY DEF Undisturbed
  <2>5. Undisturbed(v)' => Keeps(wk[v].path, hist[v].since, hist'[v].since)
    <3>1. wk[v].path # p /\ hist[v].since \subseteq hist'[v].since /\ p \in hist'[v].since
      BY <1>3, <2>2
    <3> QED BY <2>3, <2>4, <3>1 DEF OpenEffect
  <2>6. Held(v)'
    BY <1>1, <1>3, <2>2, <2>5, HeldKept
  <2> QED BY <1>1, <2>2, <2>3, <2>6 DEF Phase
<1> QED BY <1>2, <1>3

\* Everyone, when a path is dropped.
LEMMA DroppedKeeps ==
  ASSUME WorkersTyped, InUse, NEW p \in Paths, DropEffect(p),
         wk' = wk, hist' = Dropped(p), crashed' = crashed
  PROVE  WorkersTyped' /\ InUse'
<1>1. ASSUME NEW v \in Workers PROVE hist'[v] \in History /\ Phase(v)' /\ Held(v)'
  <2>1. hist[v] \in History /\ Phase(v) /\ Held(v)
    BY DEF WorkersTyped, InUse
  <2>2. CASE wk[v].path = p
    <3>1. hist'[v] = [hist[v] EXCEPT !.since = {}, !.dropped = TRUE]
      BY <2>2 DEF Dropped
    <3>2. hist'[v] \in History /\ hist'[v].since = {} /\ hist'[v].dropped
      BY <2>1, <3>1 DEF History
    <3>3. ~Undisturbed(v)'
      BY <3>2 DEF Undisturbed
    <3> QED BY <2>1, <3>2, <3>3, FS_EmptySet DEF Phase, Held
  <2>3. CASE wk[v].path # p
    <3>1. hist'[v] = hist[v]
      BY <2>3 DEF Dropped
    <3>2. Undisturbed(v)' => Undisturbed(v)
      BY <3>1 DEF Undisturbed
    <3>3. Keeps(wk[v].path, hist[v].since, hist'[v].since)
      BY <2>3, <3>1 DEF DropEffect
    <3>4. Held(v)'
      BY <2>1, <3>1, <3>2, <3>3, HeldKept
    <3> QED BY <2>1, <3>1, <3>4 DEF Phase
  <2> QED BY <2>2, <2>3
<1>2. hist' = [v \in Workers |-> hist'[v]]
  BY DEF Dropped
<1> QED BY <1>1, <1>2 DEF WorkersTyped, InUse

-----------------------------------------------------------------------------
(* The steps. *)

\* When the other workers are bystanders of an open, what remains to be shown
\* is the worker's own part.
LEMMA OpenByWorker ==
  ASSUME IInv, NEW p \in Paths, NEW f \in FDs, OpenEffect(p, f), NEW w \in Workers,
         crashed' = crashed,
         wk' = [wk EXCEPT ![w] = wk'[w]], wk'[w] \in Worker,
         hist' = [Opened(p) EXCEPT ![w] = hist'[w]], hist'[w] \in History,
         Phase(w)', Held(w)'
  PROVE  IInv'
<1>1. ASSUME NEW v \in Workers, v # w
      PROVE  wk'[v] = wk[v] /\ hist'[v] \in History /\ Phase(v)' /\ Held(v)'
  <2>1. wk'[v] = wk[v]
    BY <1>1 DEF IInv, WorkersTyped
  <2>2. hist'[v] = Opened(p)[v]
    BY <1>1 DEF Opened
  <2> QED BY <2>1, <2>2, OpenedKeeps DEF IInv
<1>2. wk' \in [Workers -> Worker]
  BY DEF IInv, WorkersTyped
<1>3. hist' = [v \in Workers |-> hist'[v]]
  BY DEF Opened
<1>4. WorkersTyped'
  BY <1>1, <1>2, <1>3 DEF IInv, WorkersTyped
<1> QED BY <1>1, <1>4 DEF IInv, InUse, OpenEffect

LEMMA FirstPlace ==
  ASSUME NEW p, NEW f, OpenEffect(p, f), NEW S PROVE Place(fds', p, S, 1) /\ 1 \in DOMAIN fds'
<1>1. fds' \in Seq(E) /\ fds' # <<>>
  BY DEF OpenEffect, Cache, CacheTyped
<1>2. 1 \in DOMAIN fds'
  BY <1>1
<1> QED BY <1>2 DEF OpenEffect, Place

LEMMA Fresh == NoHistory \in History /\ IsFiniteSet(NoHistory.since) /\ IdleWorker \in Worker
BY FS_EmptySet DEF NoHistory, History, IdleWorker, Worker, Ops

LEMMA BeginStep == ASSUME IInv, NEW w \in Workers, Begin(w) PROVE IInv'
<1>0. PICK p \in Paths, o \in LocalOps \cap Requests, f \in FDs :
        /\ fdm_open(p, o = "fallocate", f)
        /\ \E n \in SyncCalls(o) :
             wk' = [wk EXCEPT ![w].pc = "sync", ![w].op = o, ![w].path = p,
                              ![w].fd = f, ![w].syncs = n]
        /\ hist' = [Opened(p) EXCEPT ![w] = [NoHistory EXCEPT !.ino = fdtab'[f]]]
  BY DEF Begin
<1>1. PICK n \in SyncCalls(o) :
        /\ wk' = [wk EXCEPT ![w].pc = "sync", ![w].op = o, ![w].path = p,
                            ![w].fd = f, ![w].syncs = n]
        /\ hist' = [Opened(p) EXCEPT ![w] = [NoHistory EXCEPT !.ino = fdtab'[f]]]
  BY <1>0
<1>2. wk[w].pc = "idle" /\ crashed' = crashed
  BY DEF Begin
<1>3. OpenEffect(p, f)
  <2> DEFINE creat == o = "fallocate"
  <2>1. fdm_open(p, creat, f)
    BY <1>0
  <2> HIDE DEF creat
  <2> QED BY <2>1, OpenStep DEF IInv
<1>4. wk[w] \in Worker /\ wk[w].hfd = NoFd
  BY <1>2 DEF IInv, WorkersTyped, InUse, Phase
<1>5. wk'[w] = [wk[w] EXCEPT !.pc = "sync", !.op = o, !.path = p, !.fd = f, !.syncs = n]
  BY <1>1 DEF IInv, WorkersTyped
<1>6. o \in Ops /\ n \in 0 .. 2
  BY DEF LocalOps, Ops, SyncCalls
<1>7. /\ wk'[w] \in Worker /\ wk'[w].pc = "sync" /\ wk'[w].path = p
      /\ wk'[w].fd = f /\ wk'[w].hfd = NoFd
  BY <1>4, <1>5, <1>6 DEF Worker
<1>8. wk' = [wk EXCEPT ![w] = wk'[w]]
  BY <1>1, <1>5 DEF IInv, WorkersTyped
<1>9. hist'[w] = [NoHistory EXCEPT !.ino = fdtab'[f]]
  BY <1>1 DEF Opened
<1>10. fdtab'[f] \in 0 .. MaxIno
  BY <1>3 DEF OpenEffect, Cache, CacheTyped, Inodes
<1>11. /\ hist'[w] \in History /\ hist'[w].ino = fdtab'[f] /\ hist'[w].since = {}
  BY <1>9, <1>10, Fresh DEF History, NoHistory
<1>12. hist' = [Opened(p) EXCEPT ![w] = hist'[w]]
  BY <1>1, <1>9
<1>13. Phase(w)'
  BY <1>7, <1>11, FS_EmptySet DEF Phase
<1>14. Held(w)'
  <2>1. Place(fds', wk'[w].path, hist'[w].since, 1) /\ 1 \in DOMAIN fds' /\ fds'[1].data = f
    BY <1>3, <1>7, FirstPlace DEF OpenEffect
  <2> QED BY <1>7, <1>11, <2>1 DEF Held, Place
<1> QED BY <1>2, <1>3, <1>7, <1>8, <1>11, <1>12, <1>13, <1>14, OpenByWorker

LEMMA ServeStep == ASSUME IInv, NEW w \in Workers, Serve(w) PROVE IInv'
<1>1. PICK p \in Paths, o \in PeerOps \cap Requests, f \in FDs :
        /\ fdm_open(p, FALSE, f)
        /\ wk' = [wk EXCEPT ![w].pc = "handler", ![w].op = o, ![w].path = p, ![w].hfd = f]
        /\ hist' = [Opened(p) EXCEPT ![w] = [NoHistory EXCEPT !.hino = fdtab'[f]]]
  BY DEF Serve
<1>2. wk[w].pc = "idle" /\ crashed' = crashed
  BY DEF Serve
<1>3. OpenEffect(p, f)
  <2> DEFINE no == FALSE
  <2>1. fdm_open(p, no, f)
    BY <1>1
  <2> HIDE DEF no
  <2> QED BY <2>1, OpenStep DEF IInv
<1>4. wk[w] \in Worker /\ wk[w].fd = NoFd
  BY <1>2 DEF IInv, WorkersTyped, InUse, Phase
<1>5. wk'[w] = [wk[w] EXCEPT !.pc = "handler", !.op = o, !.path = p, !.hfd = f]
  BY <1>1 DEF IInv, WorkersTyped
<1>6. o \in Ops
  BY DEF PeerOps, Ops
<1>7. /\ wk'[w] \in Worker /\ wk'[w].pc = "handler" /\ wk'[w].path = p
      /\ wk'[w].hfd = f /\ wk'[w].fd = NoFd /\ wk'[w].op = o
  BY <1>4, <1>5, <1>6 DEF Worker
<1>8. wk' = [wk EXCEPT ![w] = wk'[w]]
  BY <1>1, <1>5 DEF IInv, WorkersTyped
<1>9. hist'[w] = [NoHistory EXCEPT !.hino = fdtab'[f]]
  BY <1>1 DEF Opened
<1>10. fdtab'[f] \in 0 .. MaxIno
  BY <1>3 DEF OpenEffect, Cache, CacheTyped, Inodes
<1>11. /\ hist'[w] \in History /\ hist'[w].hino = fdtab'[f] /\ hist'[w].since = {}
  BY <1>9, <1>10, Fresh DEF History, NoHistory
<1>12. hist' = [Opened(p) EXCEPT ![w] = hist'[w]]
  BY <1>1, <1>9
<1>13. Phase(w)'
  BY <1>7, <1>11, FS_EmptySet DEF Phase
<1>14. Held(w)'
  <2>1. Place(fds', wk'[w].path, hist'[w].since, 1) /\ 1 \in DOMAIN fds' /\ fds'[1].data = f
    BY <1>3, <1>7, FirstPlace DEF OpenEffect
  <2> QED BY <1>7, <1>11, <2>1 DEF Held, Place
<1> QED BY <1>2, <1>3, <1>7, <1>8, <1>11, <1>12, <1>13, <1>14, OpenByWorker

\* The handler's descriptor is the one that do_op holds, if nothing disturbed it.
LEMMA SyncOpenStep == ASSUME IInv, NEW w \in Workers, SyncOpen(w) PROVE IInv'
<1> DEFINE p == wk[w].path
<1>1. PICK f \in FDs :
        /\ fdm_open(p, FALSE, f)
        /\ wk' = [wk EXCEPT ![w].pc = "handler", ![w].hfd = f]
        /\ hist' = [Opened(p) EXCEPT ![w].hino = fdtab'[f]]
  BY DEF SyncOpen
<1>2. wk[w].pc = "sync" /\ wk[w].syncs > 0 /\ crashed' = crashed
  BY DEF SyncOpen
<1>3. /\ wk[w] \in Worker /\ hist[w] \in History /\ Phase(w) /\ Held(w) /\ p \in Paths
      /\ IsFiniteSet(hist[w].since)
  BY <1>2 DEF IInv, WorkersTyped, InUse, Phase
<1>4. OpenEffect(p, f)
  <2> DEFINE no == FALSE
  <2>1. fdm_open(p, no, f)
    BY <1>1
  <2> HIDE DEF no
  <2> QED BY <1>3, <2>1, OpenStep DEF IInv
<1>5. wk'[w] = [wk[w] EXCEPT !.pc = "handler", !.hfd = f]
  BY <1>1 DEF IInv, WorkersTyped
<1>6. /\ wk'[w] \in Worker /\ wk'[w].pc = "handler" /\ wk'[w].path = p
      /\ wk'[w].hfd = f /\ wk'[w].fd = wk[w].fd /\ wk'[w].syncs = wk[w].syncs
  BY <1>3, <1>5 DEF Worker
<1>7. wk' = [wk EXCEPT ![w] = wk'[w]]
  BY <1>1, <1>5 DEF IInv, WorkersTyped
<1>8. hist'[w] = [hist[w] EXCEPT !.hino = fdtab'[f]]
  BY <1>1 DEF Opened
<1>9. fdtab'[f] \in 0 .. MaxIno
  BY <1>4 DEF OpenEffect, Cache, CacheTyped, Inodes
<1>10. /\ hist'[w] \in History /\ hist'[w].hino = fdtab'[f] /\ hist'[w].ino = hist[w].ino
       /\ hist'[w].since = hist[w].since /\ hist'[w].dropped = hist[w].dropped
  BY <1>3, <1>8, <1>9 DEF History
<1>11. hist' = [Opened(p) EXCEPT ![w] = hist'[w]]
  BY <1>1 DEF Opened
<1>12. Phase(w)'
  BY <1>2, <1>3, <1>6, <1>10 DEF Phase
<1>13. ASSUME Undisturbed(w)'
       PROVE  /\ Place(fds', p, hist[w].since, 1) /\ 1 \in DOMAIN fds' /\ fds'[1].data = f
              /\ wk[w].fd # NoFd => f = wk[w].fd /\ fdtab'[f] = hist[w].ino
  <2>1. Undisturbed(w)
    BY <1>10, <1>13 DEF Undisturbed
  <2>2. PICK i \in DOMAIN fds :
          /\ Place(fds, p, hist[w].since, i)
          /\ wk[w].fd # NoFd => fds[i].data = wk[w].fd /\ fdtab[wk[w].fd] = hist[w].ino
    BY <1>2, <1>3, <2>1 DEF Held
  <2>3. PICK n \in DOMAIN fds' :
          /\ Place(fds', p, hist[w].since, n) /\ fds'[n] = fds[i]
          /\ fdtab'[fds[i].data] = fdtab[fds[i].data]
    BY <1>4, <2>2 DEF OpenEffect, Keeps
  <2>4. 1 \in DOMAIN fds' /\ fds'[1].key = p /\ fds'[1].data = f
    BY <1>4, FirstPlace DEF OpenEffect
  <2>5. n = 1
    BY <1>4, <2>3, <2>4 DEF OpenEffect, Cache, FdAccounting, UniqueKeys, Place
  <2> QED BY <2>2, <2>3, <2>4, <2>5
<1>14. Held(w)'
  BY <1>6, <1>10, <1>13 DEF Held, Place
<1> QED BY <1>2, <1>3, <1>4, <1>6, <1>7, <1>10, <1>11, <1>12, <1>14, OpenByWorker

\* Steps that leave the cache and the other workers alone.
LEMMA LocalStep ==
  ASSUME IInv, NEW w \in Workers, UNCHANGED <<names, nextIno, fdtab, fds, moved>>,
         crashed' \in BOOLEAN,
         wk' = [wk EXCEPT ![w] = wk'[w]], wk'[w] \in Worker,
         hist' = [hist EXCEPT ![w] = hist'[w]], hist'[w] \in History,
         Phase(w)', Held(w)'
  PROVE  IInv'
<1>1. Cache' /\ CoherentUnlessRenamed'
  BY DEF IInv, Cache, CacheTyped, FdAccounting, UniqueKeys, CacheBound, CoherentUnlessRenamed
<1>2. WorkersTyped'
  BY DEF IInv, WorkersTyped
<1>3. ASSUME NEW v \in Workers, v # w PROVE Phase(v)' /\ Held(v)'
  <2>1. wk'[v] = wk[v] /\ hist'[v] = hist[v]
    BY <1>3 DEF IInv, WorkersTyped
  <2> QED BY <2>1 DEF IInv, InUse, Phase, Held, Undisturbed, Place
<1> QED BY <1>1, <1>2, <1>3 DEF IInv, InUse

LEMMA FinishStep ==
  ASSUME IInv, NEW w \in Workers, Finish(w), UNCHANGED <<kernel, fds, crashed, moved>>
  PROVE  IInv'
<1>1. wk'[w] = IdleWorker /\ hist'[w] = NoHistory
  BY DEF Finish, IInv, WorkersTyped
<1>2. wk' = [wk EXCEPT ![w] = wk'[w]] /\ hist' = [hist EXCEPT ![w] = hist'[w]]
  BY <1>1 DEF Finish
<1>3. Phase(w)' /\ Held(w)'
  BY <1>1, Fresh DEF Phase, Held, IdleWorker
<1>4. crashed' \in BOOLEAN
  BY DEF IInv, WorkersTyped
<1> QED BY <1>1, <1>2, <1>3, <1>4, Fresh, LocalStep DEF kernel

LEMMA UseHandlerStep == ASSUME IInv, NEW w \in Workers, UseHandler(w) PROVE IInv'
<1>1. CASE wk[w].op \in PeerOps /\ Finish(w)
  BY <1>1, FinishStep DEF UseHandler
<1>2. CASE /\ wk[w].op \notin PeerOps
           /\ wk' = [wk EXCEPT ![w].pc = "sync", ![w].syncs = @ - 1, ![w].hfd = NoFd]
           /\ hist' = [hist EXCEPT ![w].hino = 0]
  <2>1. /\ wk[w] \in Worker /\ hist[w] \in History /\ wk[w].pc = "handler"
        /\ Phase(w) /\ Held(w) /\ wk[w].syncs \in 1 .. 2
    BY <1>2 DEF UseHandler, IInv, WorkersTyped, InUse, Phase, Worker
  <2>2. /\ wk'[w] = [wk[w] EXCEPT !.pc = "sync", !.syncs = wk[w].syncs - 1, !.hfd = NoFd]
        /\ hist'[w] = [hist[w] EXCEPT !.hino = 0]
    BY <1>2 DEF IInv, WorkersTyped
  <2>3. /\ wk'[w] \in Worker /\ wk'[w].pc = "sync" /\ wk'[w].path = wk[w].path
        /\ wk'[w].fd = wk[w].fd /\ wk'[w].hfd = NoFd
    <3> DEFINE n == wk[w].syncs - 1
    <3>1. n \in 0 .. 2
      BY <2>1
    <3>2. wk'[w] = [wk[w] EXCEPT !.pc = "sync", !.syncs = n, !.hfd = NoFd]
      BY <2>2
    <3> HIDE DEF n
    <3> QED BY <2>1, <3>1, <3>2 DEF Worker
  <2>4. /\ hist'[w] \in History /\ hist'[w].since = hist[w].since
        /\ hist'[w].ino = hist[w].ino /\ hist'[w].dropped = hist[w].dropped
    BY <2>1, <2>2 DEF History
  <2>5. wk' = [wk EXCEPT ![w] = wk'[w]] /\ hist' = [hist EXCEPT ![w] = hist'[w]]
    BY <1>2, <2>2 DEF IInv, WorkersTyped
  <2>6. UNCHANGED <<names, nextIno, fdtab, fds, moved>> /\ crashed' \in BOOLEAN
    BY DEF UseHandler, kernel, IInv, WorkersTyped
  <2>7. Phase(w)'
    BY <2>1, <2>3, <2>4 DEF Phase
  <2>8. Held(w)'
    BY <2>1, <2>3, <2>4, <2>6 DEF Held, Undisturbed, Place
  <2> QED BY <2>3, <2>4, <2>5, <2>6, <2>7, <2>8, LocalStep
<1> QED BY <1>1, <1>2 DEF UseHandler

LEMMA NullHandlerStep == ASSUME IInv, NEW w \in Workers, NullHandler(w) PROVE IInv'
<1>1. UNCHANGED <<names, nextIno, fdtab, fds, moved, wk, hist>> /\ crashed' \in BOOLEAN
  BY DEF NullHandler, kernel
<1>2. /\ wk[w] \in Worker /\ hist[w] \in History /\ Phase(w) /\ Held(w)
      /\ wk = [wk EXCEPT ![w] = wk[w]] /\ hist = [hist EXCEPT ![w] = hist[w]]
  BY DEF IInv, WorkersTyped, InUse
<1>3. Phase(w)' /\ Held(w)'
  BY <1>1, <1>2 DEF Phase, Held, Undisturbed, Place
<1> QED BY <1>1, <1>2, <1>3, LocalStep

LEMMA OpOpenStep == ASSUME IInv, OpOpen PROVE IInv'
<1>1. PICK p \in Paths, creat \in BOOLEAN, f \in FDs : fdm_open(p, creat, f) /\ hist' = Opened(p)
  BY DEF OpOpen
<1>2. OpenEffect(p, f)
  BY <1>1, OpenStep DEF IInv
<1>3. wk' = wk /\ crashed' = crashed
  BY DEF OpOpen
<1>4. ASSUME NEW v \in Workers PROVE hist'[v] \in History /\ Phase(v)' /\ Held(v)'
  BY <1>1, <1>2, <1>3, OpenedKeeps DEF IInv
<1>5. hist' = [v \in Workers |-> hist'[v]]
  BY <1>1 DEF Opened
<1>6. WorkersTyped'
  BY <1>3, <1>4, <1>5 DEF IInv, WorkersTyped
<1> QED BY <1>2, <1>4, <1>6 DEF IInv, InUse, OpenEffect

LEMMA OpCreateStep == ASSUME IInv, OpCreate PROVE IInv'
<1>1. PICK p \in Paths : fdm_create(p) /\ hist' = Dropped(p)
  BY DEF OpCreate
<1>2. DropEffect(p) /\ moved' = moved \ {p}
  BY <1>1, DropStep DEF IInv, fdm_create
<1>3. /\ names' \in [Paths -> {0} \cup Inodes] /\ nextIno' \in 1 .. MaxIno + 1
      /\ \A q \in Paths : q # p => names'[q] = names[q]
  <2> DEFINE yes == TRUE
  <2>1. SysOpen(p, yes)
    BY <1>1 DEF fdm_create
  <2> HIDE DEF yes
  <2> QED BY <2>1, SysOpenStep DEF IInv, Cache
<1>4. Cache' /\ CoherentUnlessRenamed'
  BY <1>2, <1>3, DropKeepsCache DEF IInv
<1>5. WorkersTyped' /\ InUse'
  BY <1>1, <1>2, DroppedKeeps DEF IInv, OpCreate
<1> QED BY <1>4, <1>5 DEF IInv

LEMMA OpUnlinkStep == ASSUME IInv, OpUnlink PROVE IInv'
<1>1. PICK p \in Paths : fdm_remove(p) /\ hist' = Dropped(p)
  BY DEF OpUnlink
<1>2. DropEffect(p) /\ moved' = moved \ {p}
  BY <1>1, DropStep DEF IInv, fdm_remove
<1>3. /\ names' \in [Paths -> {0} \cup Inodes] /\ nextIno' \in 1 .. MaxIno + 1
      /\ \A q \in Paths : q # p => names'[q] = names[q]
  BY <1>1 DEF fdm_remove, IInv, Cache, CacheTyped
<1>4. Cache' /\ CoherentUnlessRenamed'
  BY <1>2, <1>3, DropKeepsCache DEF IInv
<1>5. WorkersTyped' /\ InUse'
  BY <1>1, <1>2, DroppedKeeps DEF IInv, OpUnlink
<1> QED BY <1>4, <1>5 DEF IInv

\* A rename changes two names; what is cached for them is remembered as moved.
LEMMA OpRenameStep == ASSUME IInv, OpRename PROVE IInv'
<1>1. PICK p \in Paths, q \in Paths :
        /\ p # q /\ names' = [names EXCEPT ![q] = names[p], ![p] = 0]
        /\ moved' = moved \cup ({p, q} \cap LruKeys(fds))
  BY DEF OpRename
<1>2. UNCHANGED <<nextIno, fdtab, fds, wk, crashed, hist>>
  BY DEF OpRename
<1>3. CacheTyped' /\ \A x \in Paths : x \notin {p, q} => names'[x] = names[x]
  BY <1>1, <1>2 DEF IInv, Cache, CacheTyped
<1>4. Cache'
  BY <1>2, <1>3 DEF IInv, Cache, FdAccounting, UniqueKeys, CacheBound
<1>5. CoherentUnlessRenamed'
  <2>1. SUFFICES ASSUME NEW j \in DOMAIN fds, fds[j].key \notin moved'
                 PROVE  fdtab[fds[j].data] = names'[fds[j].key]
    BY <1>2 DEF CoherentUnlessRenamed
  <2>2. fds[j].key \in LruKeys(fds) /\ fds[j].key \in Paths
    BY EntryParts DEF LruKeys, IInv, Cache
  <2>3. fds[j].key \notin {p, q} /\ fds[j].key \notin moved
    BY <1>1, <2>1, <2>2
  <2>4. fdtab[fds[j].data] = names[fds[j].key]
    BY <2>3 DEF IInv, CoherentUnlessRenamed
  <2> QED BY <1>3, <2>2, <2>3, <2>4
<1>6. WorkersTyped' /\ InUse'
  BY <1>2 DEF IInv, WorkersTyped, InUse, Phase, Held, Undisturbed, Place
<1> QED BY <1>4, <1>5, <1>6 DEF IInv

LEMMA StutterStep == ASSUME IInv, UNCHANGED vars PROVE IInv'
BY DEF IInv, Cache, CacheTyped, FdAccounting, UniqueKeys, CacheBound, CoherentUnlessRenamed,
       WorkersTyped, InUse, Phase, Held, Undisturbed, Place, vars

-----------------------------------------------------------------------------
LEMMA InitIInv == Init => IInv
<1> SUFFICES ASSUME Init PROVE IInv
  OBVIOUS
<1>1. CacheTyped /\ fds = <<>> /\ fdtab = [f \in FDs |-> 0]
  BY DEF Init, CacheTyped, Inodes
<1>2. Cache /\ CoherentUnlessRenamed
  BY <1>1 DEF Cache, FdAccounting, UniqueKeys, CacheBound, CoherentUnlessRenamed
<1>3. WorkersTyped
  BY Fresh DEF Init, WorkersTyped
<1>4. InUse
  BY Fresh DEF Init, InUse, Phase, Held, IdleWorker
<1> QED BY <1>2, <1>3, <1>4 DEF IInv

LEMMA NextIInv == IInv /\ [Next]_vars => IInv'
<1> SUFFICES ASSUME IInv, [Next]_vars PROVE IInv'
  OBVIOUS
<1>1. ASSUME NEW w \in Workers, WorkerStep(w) PROVE IInv'
  <2>1. ASSUME SysCall(w) PROVE IInv'
    BY <2>1, FinishStep DEF SysCall
  <2> QED BY <1>1, <2>1, BeginStep, SyncOpenStep, ServeStep, NullHandlerStep, UseHandlerStep
          DEF WorkerStep
<1> QED BY <1>1, OpOpenStep, OpCreateStep, OpUnlinkStep, OpRenameStep, StutterStep DEF Next

(***************************************************************************)
(* The inductive invariant holds in every behaviour of the descriptor      *)
(* cache, its workers and the name space.                                  *)
(***************************************************************************)
THEOREM Invariance == Spec => []IInv
BY InitIInv, NextIInv, PTL DEF Spec

(***************************************************************************)
(* Every variable keeps its type in every behaviour.                       *)
(***************************************************************************)
THEOREM TypeCorrect == Spec => []TypeOK
<1>1. IInv => TypeOK
  BY DEF IInv, Cache, CacheTyped, WorkersTyped, TypeOK, E
<1> QED BY <1>1, Invariance, PTL

(***************************************************************************)
(* Whenever fdm_mu is free, the cached descriptors are exactly the open    *)
(* ones, no two entries share a path or a descriptor, and there are at     *)
(* most max_fd_num of them, for any number of threads and any capacity.    *)
(***************************************************************************)
THEOREM CacheAlwaysSound == Spec => []CacheSound
<1>1. IInv => CacheSound
  BY DEF IInv, Cache, CacheSound
<1> QED BY <1>1, Invariance, PTL

(***************************************************************************)
(* FdManager::open, create and remove never leave a descriptor cached for  *)
(* a path that names another file; only a rename can.                      *)
(***************************************************************************)
THEOREM CoherentAlways == Spec => []CoherentUnlessRenamed
<1>1. IInv => CoherentUnlessRenamed
  BY DEF IInv
<1> QED BY <1>1, Invariance, PTL

\* The entry that a worker relies on keeps its descriptors open and makes
\* get_file_handler succeed.
LEMMA SafeWhileHeld == IInv => WorkersSafe
<1> SUFFICES ASSUME IInv, NEW w \in Workers, Undisturbed(w)
             PROVE  /\ wk[w].fd # NoFd => fdtab[wk[w].fd] = hist[w].ino
                    /\ wk[w].hfd # NoFd => fdtab[wk[w].hfd] = hist[w].hino
                    /\ wk[w].pc = "sync" => ~fdm_open_fails(wk[w].path, FALSE)
  BY DEF WorkersSafe, InFlightFdSafe, NullHandlerOnlyIfDisturbed
<1>1. Phase(w) /\ Held(w)
  BY DEF IInv, InUse
<1>2. CASE wk[w].pc = "idle"
  BY <1>1, <1>2 DEF Phase
<1>3. CASE wk[w].pc # "idle"
  <2>1. PICK i \in DOMAIN fds :
          /\ Place(fds, wk[w].path, hist[w].since, i)
          /\ wk[w].fd # NoFd => fdtab[wk[w].fd] = hist[w].ino
          /\ wk[w].hfd # NoFd => fdtab[wk[w].hfd] = hist[w].hino
    BY <1>1, <1>3 DEF Held
  <2>2. wk[w].path \in LruKeys(fds)
    BY <2>1 DEF Place, LruKeys
  <2> QED BY <2>1, <2>2 DEF fdm_open_fails
<1> QED BY <1>2, <1>3

(***************************************************************************)
(* A worker's descriptors outlive the lock they were obtained under: until *)
(* its path is created or unlinked or MaxFdNum other paths are opened,     *)
(* they lead to the file they were opened for and the handler lookup of    *)
(* the same request cannot fail.                                           *)
(***************************************************************************)
THEOREM WorkersAlwaysSafe == Spec => []WorkersSafe
BY SafeWhileHeld, Invariance, PTL

=============================================================================
