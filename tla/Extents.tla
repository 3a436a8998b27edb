------------------------------ MODULE Extents ------------------------------
(***************************************************************************)
(* The scans of a sparse file and the transport of what they find:         *)
(* find_holes_in_range and find_data_in_range of HvsFileHandler            *)
(* (src/io_proxy/fd_mgr.cc), the packing of the extents into a reply by    *)
(* _handle_file_sync_data and its unpacking by sync_filedata               *)
(* (src/io_proxy/replica_mgr.cc).                                          *)
(*                                                                         *)
(* One turn of a loop is one step.  Between two steps another worker may   *)
(* write, truncate or punch the file.  Integers keep their width: lseek's  *)
(* -1 becomes the largest of WordSize numbers, and the cursor of           *)
(* find_data_in_range passes through an int, one of IntSize numbers.       *)
(***************************************************************************)
EXTENDS Integers, Sequences, FiniteSets, FiniteSetsExt

CONSTANTS MaxEof,       \* bound: size of the file
          WordSize,     \* numbers of type uint64_t (2^64 in the code)
          IntSize,      \* numbers of type int (2^32 in the code)
          MaxChanges,   \* bound: changes of the file during the scan
          MaxErrors     \* bound: preads that fail

ASSUME EofAssumption  == MaxEof \in Nat
ASSUME SizeAssumption == /\ WordSize \in Nat /\ IntSize \in 2 .. WordSize
                         /\ MaxEof < WordSize - 1
ASSUME BoundsAssumption == MaxChanges \in Nat /\ MaxErrors \in Nat

VARIABLES file,      \* size and allocated units of the file
          kind,      \* which of the two scans runs
          from, to,  \* the range as requested
          end,       \* `to` after it was cut at the end of file
          off,       \* the loop's cursor
          ranges,    \* the extents found
          pc,        \* "scan", "pack", "unpack", "done"
          buf,       \* reply.data: for each place the unit read into it
          params,    \* reply.io_params
          cursor,    \* place in buf
          placed,    \* <<offset, unit>>: unit was written at offset
          err_code,  \* reply.err_code: 0, or 1 for an errno
          changes, errors

extentvars == <<file, kind, from, to, end, off, ranges, pc, buf, params, cursor, placed,
                err_code, changes, errors>>

-----------------------------------------------------------------------------
Garbage == -1       \* whatever lies behind the end of the buffer
Offsets == 0 .. MaxEof
Files == UNION {[size : {n}, data : SUBSET (0 .. n - 1)] : n \in Offsets}

\* lseek with SEEK_DATA or SEEK_HOLE: there is a hole at the end of file.
Found(whence, o) ==
  IF whence = "SEEK_DATA" THEN {u \in file.data : o <= u}
                          ELSE {u \in o .. file.size : u \notin file.data}
lseek(whence, o) ==
  IF o >= file.size \/ Found(whence, o) = {} THEN -1 ELSE Min(Found(whence, o))

ToUnsigned(x) == x % WordSize
ToInt(x) == LET y == x % IntSize
            IN IF 2 * y >= IntSize THEN y - IntSize ELSE y

\* hole_begin: a uint64_t in find_holes_in_range, an int in find_data_in_range.
Cursor(x) == IF kind = "data" THEN ToUnsigned(ToInt(x)) ELSE ToUnsigned(x)

\* What the loop looks for, and what it skips.
Wanted  == IF kind = "data" THEN "SEEK_HOLE" ELSE "SEEK_DATA"
Skipped == IF kind = "data" THEN "SEEK_DATA" ELSE "SEEK_HOLE"

-----------------------------------------------------------------------------
ExtentsInit ==
  /\ file \in Files
  /\ kind \in {"holes", "data"}
  /\ from \in Offsets /\ to \in Offsets /\ from < to
  /\ end = Min({to, file.size})
  /\ off = from
  /\ ranges = <<>> /\ buf = <<>> /\ params = <<>>
  /\ pc = "scan" /\ cursor = 0 /\ placed = {} /\ err_code = 0
  /\ changes = 0 /\ errors = 0

\* Mutant: an extent is not cut at the end of the range.
ExtentEndUncut(begin) == begin

\* Where the extent that starts at the cursor ends.
ExtentEnd(begin) == IF begin >= end THEN end ELSE begin

\* Mutant: the cursor moves to the end of the extent and no further.
AdvanceNot(begin) == begin

\* The cursor moves to where the skipped extent ends.
Advance(begin) == Cursor(lseek(Skipped, begin))

ScanDone == IF kind = "data" THEN "pack" ELSE "done"

Scan ==
  /\ pc = "scan"
  /\ \/ off >= end /\ pc' = ScanDone /\ UNCHANGED <<off, ranges>>
     \/ /\ off < end
        /\ LET begin == ToUnsigned(lseek(Wanted, off)) IN
             /\ ranges' = IF begin > off THEN Append(ranges, <<off, ExtentEnd(begin)>>)
                                         ELSE ranges
             /\ IF begin > off /\ begin >= end
                THEN pc' = ScanDone /\ UNCHANGED off
                ELSE off' = Advance(begin) /\ UNCHANGED pc
  /\ UNCHANGED <<file, kind, from, to, end, buf, params, cursor, placed, err_code, changes, errors>>

\* What pread returns: the units of the range below the end of file.
Pread(lo, hi) == [i \in 1 .. (Max({lo, Min({hi, file.size})}) - lo) |-> lo + i - 1]

\* _handle_file_sync_data: one extent is read to the cursor of the buffer.
Pack ==
  /\ pc = "pack" /\ ranges # <<>>
  /\ LET r == Head(ranges)
         got == Pread(r[1], r[2])
     IN /\ buf' = buf \o got
        /\ params' = Append(params, [offset |-> r[1], size |-> Len(got)])
  /\ ranges' = Tail(ranges)
  /\ UNCHANGED <<file, kind, from, to, end, off, pc, cursor, placed, err_code, changes, errors>>

Reply ==
  /\ pc = "pack" /\ ranges = <<>>
  /\ pc' = "unpack"
  /\ UNCHANGED <<file, kind, from, to, end, off, ranges, buf, params, cursor, placed, err_code,
                 changes, errors>>

\* pread fails: the buffer is deleted, the extents recorded so far stay in the
\* reply.
PreadFails ==
  /\ pc = "pack" /\ ranges # <<>> /\ errors < MaxErrors
  /\ pc' = "unpack"
  /\ buf' = <<>>
  /\ err_code' = 1
  /\ errors' = errors + 1
  /\ UNCHANGED <<file, kind, from, to, end, off, ranges, params, cursor, placed, changes>>

\* reply.data().c_str() + i, read without regard to the length of the data.
DataAt(i) == IF i \in DOMAIN buf THEN buf[i] ELSE Garbage

\* sync_filedata: one extent of the reply is written to the local file; the
\* reply's error code is not looked at.
Unpack ==
  /\ pc = "unpack"
  /\ \/ params = <<>> /\ pc' = "done" /\ UNCHANGED <<params, cursor, placed>>
     \/ /\ params # <<>>
        /\ LET p == Head(params) IN
             /\ placed' = placed \cup {<<p.offset + i, DataAt(cursor + i + 1)>> :
                                       i \in 0 .. p.size - 1}
             /\ cursor' = cursor + p.size
        /\ params' = Tail(params)
        /\ UNCHANGED pc
  /\ UNCHANGED <<file, kind, from, to, end, off, ranges, buf, err_code, changes, errors>>

\* Another worker changes the file that is scanned and read.
Change ==
  /\ pc \in {"scan", "pack"} /\ changes < MaxChanges
  /\ file' \in Files
  /\ changes' = changes + 1
  /\ UNCHANGED <<kind, from, to, end, off, ranges, pc, buf, params, cursor, placed,
                 err_code, errors>>

Step == Scan \/ Pack \/ Reply \/ PreadFails \/ Unpack
ExtentsNext == Step \/ Change

ExtentsSpec == ExtentsInit /\ [][ExtentsNext]_extentvars

\* The thread that runs the loops keeps running.
ExtentsFairSpec == ExtentsSpec /\ WF_extentvars(Step)

-----------------------------------------------------------------------------
ExtentsTypeOK ==
  /\ file \in Files
  /\ kind \in {"holes", "data"} /\ pc \in {"scan", "pack", "unpack", "done"}
  /\ from \in Offsets /\ to \in Offsets /\ end \in Offsets
  /\ off \in 0 .. WordSize - 1
  /\ ranges \in Seq(Nat \X Nat)
  /\ buf \in Seq(Offsets)
  /\ params \in Seq([offset : Offsets, size : Offsets])
  /\ cursor \in Nat
  /\ placed \subseteq Nat \X (Offsets \cup {Garbage})
  /\ err_code \in {0, 1}
  /\ changes \in 0 .. MaxChanges /\ errors \in 0 .. MaxErrors

Covered == UNION {ranges[i][1] .. ranges[i][2] - 1 : i \in DOMAIN ranges}

\* What the scan is for: the units of the range that are holes, or data.
Reference == {u \in from .. end - 1 : (u \in file.data) = (kind = "data")}

(***************************************************************************)
(* A scan of a file that stays as it is returns exactly the holes (the     *)
(* data) of the range, as non-empty extents in ascending order: "a hole    *)
(* found and would be push back into vector in next loop".                 *)
(***************************************************************************)
ExactExtents ==
  changes = 0 /\ pc # "scan" /\ buf = <<>> /\ params = <<>> /\ (kind = "data" => pc = "pack") =>
    /\ Covered = Reference
    /\ \A i \in DOMAIN ranges : ranges[i][1] < ranges[i][2]
    /\ \A i, j \in DOMAIN ranges : i < j => ranges[i][2] <= ranges[j][1]

\* The units still to be read, each with the place of its extent.
Wanting == UNION {{i} \X (ranges[i][1] .. ranges[i][2] - 1) : i \in DOMAIN ranges}

(***************************************************************************)
(* The extents fit into the buffer of to - from units that the peer        *)
(* allocates for them, however the file changes while it is scanned.       *)
(***************************************************************************)
BufferBound == Len(buf) + Cardinality(Wanting) <= to - from

(***************************************************************************)
(* Every unit that sync_filedata writes from an answer is the one the peer *)
(* read at that offset: the proxy has "to sync the specific area before    *)
(* providing the data".                                                    *)
(***************************************************************************)
Placed == \A w \in placed : w[1] = w[2] /\ w[1] \in from .. to - 1

(***************************************************************************)
(* The same for answers without an error code, also if the peer's file was *)
(* cut between its scan and its reads: a short read does not shift what    *)
(* follows it in the buffer.                                               *)
(***************************************************************************)
PlacedIfOk == err_code = 0 => Placed

(***************************************************************************)
(* What sync_filedata may rely on: the extents are exact for a file that   *)
(* stays as it is, and fit the buffer and are put back in place also for   *)
(* one that is cut while it is scanned.                                    *)
(***************************************************************************)
ExtentsSound == ExactExtents /\ BufferBound /\ PlacedIfOk

\* Both loops end, however the file changes while it is scanned.
Terminates == <>(pc = "done")

=============================================================================
