-------------------------------- MODULE LRU --------------------------------
(***************************************************************************)
(* The LRU list of src/common/LRU.h as operators on a sequence of entries, *)
(* newest first.  The C++ class keeps a list and an index from keys to     *)
(* list nodes; the index is derivable from the list as long as keys are    *)
(* distinct, which UniqueKeys states.                                      *)
(***************************************************************************)
EXTENDS Integers, Sequences, FiniteSets, SequencesExt

Entry(K, V) == [key : K, data : V]

LruKeys(lrulist) == {lrulist[i].key : i \in DOMAIN lrulist}

\* The index of the node that lruindex holds for a key that is present.
LruFind(lrulist, k) == CHOOSE i \in DOMAIN lrulist : lrulist[i].key = k

LruData(lrulist, k) == lrulist[LruFind(lrulist, k)].data

LruRemove(lrulist, k) ==
  IF k \in LruKeys(lrulist) THEN RemoveAt(lrulist, LruFind(lrulist, k)) ELSE lrulist

\* hit() erases the node and re-inserts its copy at the front.
LruHit(lrulist, k) ==
  IF k \in LruKeys(lrulist)
  THEN Cons(lrulist[LruFind(lrulist, k)], RemoveAt(lrulist, LruFind(lrulist, k)))
  ELSE lrulist

\* expire() takes the tail node; the caller has checked that there is one.
LruExpire(lrulist) == SubSeq(lrulist, 1, Len(lrulist) - 1)

\* touch(key, value): max_n = 0 means unbounded; the value of a key that is
\* already present is kept.
LruTouch(lrulist, k, v, max_n) ==
  IF k \in LruKeys(lrulist)
  THEN LruHit(lrulist, k)
  ELSE Cons([key |-> k, data |-> v],
            IF max_n # 0 /\ Len(lrulist) >= max_n THEN LruExpire(lrulist) ELSE lrulist)

UniqueKeys(lrulist) ==
  \A i, j \in DOMAIN lrulist : lrulist[i].key = lrulist[j].key => i = j

=============================================================================
