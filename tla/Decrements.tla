----------------------------- MODULE Decrements -----------------------------
(***************************************************************************)
(* The last phases of collect() in src/runtime/memory/gc.cpp on the old    *)
(* generation, which is reference counted: computeDeadRootsForDecrement    *)
(* compares the sorted roots with those of the previous collection, and    *)
(* processDecrements frees the roots that are gone and, transitively,      *)
(* whatever they held the last reference to.  At most max_decrement_count  *)
(* objects are freed per collection; the others wait in pending_decs.      *)
(***************************************************************************)
EXTENDS Heap, QSort

CONSTANTS
  Page,                 \* the GC pages
  PageOf,               \* PageOf[o]: extractPageFromPointer
  max_decrement_count,  \* tinfo.max_decrement_count
  RefModulus,           \* MetaData.ref_count is a uint32_t: 2^32
  PendingModulus        \* PageInfo.pending_decs_count is a uint16_t: 2^16

ASSUME DecrementAssumption ==
  /\ Obj \subseteq Nat
  /\ PageOf \in [Obj -> Page]
  /\ max_decrement_count \in Nat \ {0}
  /\ RefModulus \in Nat \ {0}
  /\ PendingModulus \in Nat \ {0}

VARIABLES
  old_roots,           \* tinfo.old_roots: the roots of the last collection
  roots_idx,           \* computeDeadRootsForDecrement's index in roots
  oldroots_idx,        \* and its index in old_roots
  pending_decs,        \* objects to free, first in first out
  deccount,            \* how many this collection has taken from pending_decs
  dec_obj,             \* the object being freed, or NULL
  dec_slot,            \* the index of its next slot to decrement
  freelist,            \* PageInfo.freelist: the free entries, first one first
  pending_decs_count,  \* PageInfo.pending_decs_count
  decremented_pages,   \* the pages on which this collection freed an object
  stable_pages         \* those of them handed on to reprocessPageInfo's test

mergeVars == <<old_roots, roots_idx, oldroots_idx>>
decVars   == <<deccount, dec_obj, dec_slot>>
pageVars  == <<freelist, pending_decs_count, decremented_pages, stable_pages>>
allDecVars == <<heapVars, roots, pc, mergeVars, pending_decs, decVars, pageVars>>

DecPhases == {"evacuated", "computeDeadRoots", "processDecrements",
              "processCollectorPages", "mutator"}

DecTypeOK ==
  /\ HeapTypeOK
  /\ pc \in DecPhases
  /\ roots \in Seq(Obj)
  /\ old_roots \in Seq(Obj)
  /\ roots_idx \in Nat \ {0}
  /\ oldroots_idx \in Nat \ {0}
  /\ pending_decs \in Seq(Obj)
  /\ deccount \in 0..max_decrement_count
  /\ dec_obj \in Obj \cup {NULL}
  /\ dec_slot \in Nat \ {0}
  /\ freelist \in [Page -> Seq(Obj)]
  /\ pending_decs_count \in [Page -> 0..(PendingModulus - 1)]
  /\ decremented_pages \in Seq(Page)
  /\ stable_pages \in SUBSET Page

(***************************************************************************)
(* computeDeadRootsForDecrement.                                           *)
(***************************************************************************)

SortRoots ==
  /\ pc = "evacuated"
  /\ roots' = qsort(roots, 1, Len(roots))
  /\ roots_idx' = 1
  /\ oldroots_idx' = 1
  /\ pc' = "computeDeadRoots"
  /\ UNCHANGED <<heapVars, old_roots, pending_decs, decVars, pageVars>>

(* The next old root has no equal among the current roots. *)
DropOldRoot ==
  /\ pc = "computeDeadRoots"
  /\ oldroots_idx <= Len(old_roots)
  /\ roots_idx <= Len(roots) => old_roots[oldroots_idx] < roots[roots_idx]
  /\ pending_decs' = Append(pending_decs, old_roots[oldroots_idx])
  /\ oldroots_idx' = oldroots_idx + 1
  /\ UNCHANGED <<heapVars, roots, pc, old_roots, roots_idx, decVars, pageVars>>

(* The next current root is new, or it was a root before as well. *)
PassRoot ==
  /\ pc = "computeDeadRoots"
  /\ oldroots_idx <= Len(old_roots)
  /\ roots_idx <= Len(roots)
  /\ \/ /\ roots[roots_idx] < old_roots[oldroots_idx]
        /\ oldroots_idx' = oldroots_idx
     \/ /\ roots[roots_idx] = old_roots[oldroots_idx]
        /\ oldroots_idx' = oldroots_idx + 1
  /\ roots_idx' = roots_idx + 1
  /\ UNCHANGED <<heapVars, roots, pc, old_roots, pending_decs, decVars, pageVars>>

EndComputeDeadRoots ==
  /\ pc = "computeDeadRoots"
  /\ oldroots_idx > Len(old_roots)
  /\ old_roots' = <<>>
  /\ pc' = "processDecrements"
  /\ UNCHANGED <<heapVars, roots, roots_idx, oldroots_idx, pending_decs, decVars,
                 pageVars>>

(***************************************************************************)
(* processDecrements.                                                      *)
(***************************************************************************)

(* Variants: no budget, and a budget that is one short. *)
MayAlwaysDecrement  == pending_decs # <<>>
MayDecrementOneLess == pending_decs # <<>> /\ deccount + 1 < max_decrement_count

MayDecrement == pending_decs # <<>> /\ deccount < max_decrement_count

(* What to free next; the variant does not skip what is free already. *)
ToFreeUnchecked(o) == o
ToFree(o) == IF isalloc[o] THEN o ELSE NULL

PopDecrement ==
  /\ pc = "processDecrements" /\ dec_obj = NULL
  /\ MayDecrement
  /\ deccount' = deccount + 1
  /\ pending_decs' = Tail(pending_decs)
  /\ dec_obj' = ToFree(Head(pending_decs))
  /\ UNCHANGED <<heapVars, roots, pc, mergeVars, dec_slot, pageVars>>

(* DEC_REF_COUNT, with the wrap around of an unsigned counter. *)
Decremented(n) == (n + RefModulus - 1) % RefModulus

(* p dies with its last reference, unless it is a root.  The variants      *)
(* forget that, or compare the count from before the decrement.            *)
DiesThoughRoot(p, count)      == count = 0
DiesBeforeDecrement(p, count) == count + 1 = 0 /\ ~isroot[p]
Dies(p, count)                == count = 0 /\ ~isroot[p]

DecrementSlot ==
  /\ pc = "processDecrements" /\ dec_obj # NULL
  /\ dec_slot <= Len(slots[dec_obj])
  /\ dec_slot' = dec_slot + 1
  /\ LET p == slots[dec_obj][dec_slot] IN
       \/ /\ p = NULL
          /\ UNCHANGED <<ref_count, pending_decs, pending_decs_count>>
       \/ /\ p # NULL
          /\ ref_count' = [ref_count EXCEPT ![p] = Decremented(@)]
          /\ \/ /\ Dies(p, ref_count'[p])
                /\ pending_decs' = Append(pending_decs, p)
                /\ pending_decs_count' =
                     [pending_decs_count EXCEPT ![PageOf[p]] = (@ + 1) % PendingModulus]
             \/ /\ ~Dies(p, ref_count'[p])
                /\ UNCHANGED <<pending_decs, pending_decs_count>>
  /\ UNCHANGED <<isalloc, isyoung, ismarked, isroot, slots, roots, pc, mergeVars,
                 deccount, dec_obj, freelist, decremented_pages, stable_pages>>

FreeObject ==
  /\ pc = "processDecrements" /\ dec_obj # NULL
  /\ dec_slot > Len(slots[dec_obj])
  /\ LET page == PageOf[dec_obj] IN
       /\ freelist' = [freelist EXCEPT ![page] = <<dec_obj>> \o @]
       /\ pending_decs_count' =
            [pending_decs_count EXCEPT ![page] = IF @ # 0 THEN @ - 1 ELSE 0]
       /\ decremented_pages' = Append(decremented_pages, page)
  /\ isalloc' = [isalloc EXCEPT ![dec_obj] = FALSE]
  /\ dec_obj' = NULL
  /\ dec_slot' = 1
  /\ UNCHANGED <<isyoung, ismarked, isroot, ref_count, slots, roots, pc, mergeVars,
                 pending_decs, deccount, stable_pages>>

EndProcessDecrements ==
  /\ pc = "processDecrements" /\ dec_obj = NULL
  /\ ~MayDecrement
  /\ stable_pages' = {p \in Range(decremented_pages) : pending_decs_count[p] = 0}
  /\ decremented_pages' = <<>>
  /\ deccount' = 0
  /\ pc' = "processCollectorPages"
  /\ UNCHANGED <<heapVars, roots, mergeVars, pending_decs, dec_obj, dec_slot,
                 freelist, pending_decs_count>>

(***************************************************************************)
(* The end of collect(): the roots become the old roots of the next one.   *)
(***************************************************************************)
RootsBecomeOldRoots ==
  /\ pc = "processCollectorPages"
  /\ ismarked' = [o \in Obj |-> ismarked[o] /\ o \notin Range(roots)]
  /\ isroot' = [o \in Obj |-> isroot[o] /\ o \notin Range(roots)]
  /\ old_roots' = roots
  /\ roots' = <<>>
  /\ pc' = "mutator"
  /\ UNCHANGED <<isalloc, isyoung, ref_count, slots, roots_idx, oldroots_idx,
                 pending_decs, decVars, pageVars>>

DecrementNext ==
  \/ SortRoots
  \/ DropOldRoot
  \/ PassRoot
  \/ EndComputeDeadRoots
  \/ PopDecrement
  \/ DecrementSlot
  \/ FreeObject
  \/ EndProcessDecrements
  \/ RootsBecomeOldRoots

-----------------------------------------------------------------------------
(***************************************************************************)
(* The program, which uses what is there and allocates nothing.            *)
(***************************************************************************)

(* The objects a program can still use: the roots are those of the current *)
(* collection until it ends, then those it leaves as old roots.            *)
Held == IF pc = "mutator" THEN Range(old_roots) ELSE Range(roots)

(* A free entry is on its page's list once, and holds no object.           *)
FreelistSound(p) ==
  /\ \A i \in DOMAIN freelist[p] :
       PageOf[freelist[p][i]] = p /\ ~isalloc[freelist[p][i]]
  /\ IsInjective(freelist[p])

(* After a collection that found every old object in use: its roots are in *)
(* old_roots, in the order of their addresses.                             *)
DecInit ==
  /\ HeapTypeOK /\ Quiescent /\ CountsExact
  /\ \A o \in Obj : ref_count[o] < RefModulus
  /\ roots = <<>>
  /\ pc = "mutator"
  /\ old_roots \in Seq({o \in Obj : IsOld(o)})
  /\ \A i, j \in DOMAIN old_roots : i < j => old_roots[i] < old_roots[j]
  /\ \A o \in Obj : IsOld(o) => o \in ReachableFrom(Held)
  /\ roots_idx = 1
  /\ oldroots_idx = 1
  /\ pending_decs = <<>>
  /\ deccount = 0
  /\ dec_obj = NULL
  /\ dec_slot = 1
  /\ freelist \in [Page -> Seq(Obj)]
  /\ \A p \in Page : FreelistSound(p)
  /\ pending_decs_count = [p \in Page |-> 0]
  /\ decremented_pages = <<>>
  /\ stable_pages = {}

(* The program now holds S, which it got at through its roots, and a       *)
(* collection's marking has just found it, in some order.                  *)
Collect(S) ==
  /\ pc = "mutator"
  /\ S \subseteq ReachableFrom(Held)
  /\ isroot' = [o \in Obj |-> o \in S]
  /\ \E s \in [1..Cardinality(S) -> S] : Range(s) = S /\ roots' = s
  /\ pc' = "evacuated"
  /\ UNCHANGED <<isalloc, isyoung, ismarked, ref_count, slots, mergeVars,
                 pending_decs, decVars, pageVars>>

(* A root that the program drops, it drops for good: it is not in use      *)
(* through another object either.                                          *)
DropsForGood(S) == \A o \in Held \ S : o \notin ReachableFrom(S)

DecNext    == DecrementNext \/ \E S \in SUBSET Obj : DropsForGood(S) /\ Collect(S)
DecAnyNext == DecrementNext \/ \E S \in SUBSET Obj : Collect(S)

(* A program that drops roots for good, and one that does as it likes.     *)
DecSpec    == DecInit /\ [][DecNext]_allDecVars
DecAnySpec == DecInit /\ [][DecAnyNext]_allDecVars

-----------------------------------------------------------------------------
(***************************************************************************)
(* Properties.                                                             *)
(***************************************************************************)

(* Nothing that a root leads to is ever freed (processDecrements). *)
NoLiveObjectFreed == \A o \in ReachableFrom(Held) : isalloc[o]

(***************************************************************************)
(* Every count stays exact while objects are freed one slot at a time: it  *)
(* is the number of slots of allocated old objects that point there, less  *)
(* those of the object being freed that are done (DEC_REF_COUNT).          *)
(***************************************************************************)
CountsExactWhileFreeing ==
  \A o \in Obj : IsOld(o) =>
    LET done == {r \in RefsTo(o) : r[1] = dec_obj /\ r[2] < dec_slot}
    IN ref_count[o] = Cardinality(RefsTo(o) \ done)

(***************************************************************************)
(* No garbage is forgotten: once a collection finds pending_decs empty,    *)
(* every old object left is reachable from the roots.  An object whose     *)
(* count drops to zero while it is a root is not put on the list and must  *)
(* be found again when it is dropped (gc.cpp:137).                         *)
(***************************************************************************)
NoFloatingGarbage ==
  (pc \in {"processCollectorPages", "mutator"} /\ pending_decs = <<>>)
    => \A o \in Obj : IsOld(o) => o \in ReachableFrom(Held)

(***************************************************************************)
(* A free entry is on the freelist of its page once, and no allocated      *)
(* object is on it, however often its address went through pending_decs.   *)
(***************************************************************************)
FreelistsSound == \A p \in Page : FreelistSound(p)

(***************************************************************************)
(* "We only want to move pages without pending decs" (gc.cpp:171): a page  *)
(* whose count is zero holds no object that is still to be freed.          *)
(***************************************************************************)
StablePagesHaveNoPendingDecs ==
  pc = "processCollectorPages" =>
    \A p \in stable_pages : \A i \in DOMAIN pending_decs :
      isalloc[pending_decs[i]] => PageOf[pending_decs[i]] # p
=============================================================================
