------------------------------ MODULE Collector ------------------------------
(***************************************************************************)
(* collect() of src/runtime/memory/gc.cpp as a whole, together with a      *)
(* program that allocates, and PageInfo::rebuild.  A phase is one step     *)
(* here: what marking marks, what evacuation does to the heap and in which *)
(* order objects are freed is worked out loop by loop in Marking,          *)
(* Evacuation and Decrements, and which list a page is on in Pages.  New   *)
(* is what happens to an entry over many collections: allocated, promoted, *)
(* freed by a count or by rebuild, on a page that is used again.           *)
(***************************************************************************)
EXTENDS Heap

CONSTANTS
  Page,                 \* the GC pages
  PageOf,               \* PageOf[o]: extractPageFromPointer
  max_decrement_count,  \* tinfo.max_decrement_count
  RefModulus,           \* MetaData.ref_count is a uint32_t: 2^32
  MaxSlots,             \* the most pointers an object has
  MaxObjects            \* bound on the objects a program creates

ASSUME CollectorAssumption ==
  /\ PageOf \in [Obj -> Page]
  /\ NULL \notin Page
  /\ max_decrement_count \in Nat \ {0}
  /\ MaxSlots \in Nat
  /\ MaxObjects \in Nat
  /\ RefModulus \in Nat

(* Memory has fewer slots than a count can tell apart: 2^32 of them are    *)
(* 32 GiB.                                                                 *)
ASSUME CountAssumption == Cardinality(Obj) * MaxSlots < RefModulus

(* A null slot is skipped wherever it is: objects here have none.          *)
VARIABLES
  held,             \* the addresses in the program's variables
  freelist,         \* the entries on the freelists of all pages
  alloc_page,       \* GCAllocator.alloc_page
  pendinggc_pages,  \* GCAllocator.pendinggc_pages, the pages filled since
  old_roots,        \* tinfo.old_roots
  pending_decs,     \* tinfo.pending_decs
  deccount,         \* how many objects this collection has freed
  created,          \* history: the objects created so far
  ident             \* history: which of them is at an address

pageVars == <<freelist, alloc_page, pendinggc_pages>>
decVars  == <<old_roots, pending_decs, deccount>>
histVars == <<created, ident>>
vars == <<heapVars, roots, pc, held, pageVars, decVars, histVars>>

Phases == {"mutator", "evacuate", "computeDeadRoots", "processDecrements",
           "rebuild", "end", "aborted"}

CollectorTypeOK ==
  /\ HeapTypeOK
  /\ pc \in Phases
  /\ roots \in SUBSET Obj
  /\ held \in SUBSET Obj
  /\ freelist \in SUBSET Obj
  /\ alloc_page \in Page \cup {NULL}
  /\ pendinggc_pages \in SUBSET Page
  /\ old_roots \in SUBSET Obj
  /\ pending_decs \in Seq(Obj)
  /\ deccount \in 0..max_decrement_count
  /\ created \in 0..MaxObjects
  /\ ident \in [Obj -> 0..MaxObjects]

Init ==
  /\ isalloc = [o \in Obj |-> FALSE]
  /\ isyoung = [o \in Obj |-> FALSE]
  /\ ismarked = [o \in Obj |-> FALSE]
  /\ isroot = [o \in Obj |-> FALSE]
  /\ ref_count = [o \in Obj |-> 0]
  /\ slots = [o \in Obj |-> <<>>]
  /\ roots = {} /\ pc = "mutator" /\ held = {}
  /\ freelist = Obj /\ alloc_page = NULL /\ pendinggc_pages = {}
  /\ old_roots = {} /\ pending_decs = <<>> /\ deccount = 0
  /\ created = 0 /\ ident = [o \in Obj |-> 0]

(* What the program can get at. *)
Seen == ReachableFrom(held)

(* What the walk marks, from young roots through young objects. *)
FoundFrom(From, young) ==
  LET around == {S \in SUBSET young :
                   From \subseteq S /\ \A o \in S : Children(o) \cap young \subseteq S}
  IN {o \in young : \A S \in around : o \in S}

SlotsOver(S) == UNION {[1..n -> S] : n \in 0..MaxSlots}

EntriesOf(p) == {o \in Obj : PageOf[o] = p}
FreeOn(p)    == EntriesOf(p) \cap freelist

(* Pages that are neither allocated from nor waiting to be collected. *)
InBuckets(p) == p # alloc_page /\ p \notin pendinggc_pages /\ FreeOn(p) # {}

-----------------------------------------------------------------------------
(***************************************************************************)
(* The program.                                                            *)
(***************************************************************************)

(* GCAllocator::allocate, and the program fills in the new object.         *)
New(o, s) ==
  /\ pc = "mutator" /\ created < MaxObjects
  /\ o \in freelist /\ PageOf[o] = alloc_page
  /\ s \in SlotsOver(Seen)
  /\ freelist' = freelist \ {o}
  /\ isalloc' = [isalloc EXCEPT ![o] = TRUE]
  /\ isyoung' = [isyoung EXCEPT ![o] = TRUE]
  /\ ref_count' = [ref_count EXCEPT ![o] = 0]
  /\ slots' = [slots EXCEPT ![o] = s]
  /\ held' = held \cup {o}
  /\ created' = created + 1
  /\ ident' = [ident EXCEPT ![o] = created']
  /\ UNCHANGED <<ismarked, isroot, roots, pc, alloc_page, pendinggc_pages, decVars>>

(* allocatorRefreshPage takes page p, empty or at most sixty percent full. *)
Refresh(p) ==
  /\ pc = "mutator" /\ created < MaxObjects
  /\ alloc_page # NULL => FreeOn(alloc_page) = {}
  /\ InBuckets(p)
  /\ 100 * Cardinality(FreeOn(p)) >= 40 * Cardinality(EntriesOf(p))
  /\ alloc_page' = p
  /\ pendinggc_pages' = pendinggc_pages \cup ({alloc_page} \ {NULL})
  /\ UNCHANGED <<heapVars, roots, pc, held, freelist, decVars, histVars>>

-----------------------------------------------------------------------------
(***************************************************************************)
(* The program is down to the objects in S, which it got at, and starts a  *)
(* collection.  markingWalk: the allocated objects that it holds are the   *)
(* roots, and what young roots lead to through young objects is marked.    *)
(***************************************************************************)
Mark(S) ==
  /\ pc = "mutator"
  /\ S \subseteq Seen
  /\ held' = S
  /\ roots' = {o \in S : isalloc[o]}
  /\ isroot' = [o \in Obj |-> o \in roots']
  /\ LET young == {o \in Obj : isalloc[o] /\ isyoung[o]}
         found == FoundFrom(roots' \cap young, young)
     IN ismarked' = [o \in Obj |-> o \in found]
  /\ pc' = "evacuate"
  /\ UNCHANGED <<isalloc, isyoung, ref_count, slots, pageVars, decVars, histVars>>

(***************************************************************************)
(* processMarkedYoungObjects: roots stay where they are, the others move.  *)
(***************************************************************************)
ToMove == {o \in Obj : ismarked[o] /\ ~isroot[o]}

EvacTargets == {o \in freelist : InBuckets(PageOf[o])}

(* The objects that are old from now on; a variant forgets the roots. *)
PromotedWhenMoved(moved) == moved
Promoted(moved) == moved \cup {o \in Obj : ismarked[o] /\ isroot[o]}

Evacuate(to) ==
  /\ pc = "evacuate"
  /\ IsInjective(to)
  /\ LET moved == Range(to)
         from(o) == CHOOSE x \in ToMove : to[x] = o
         Forwarded(s) == [i \in DOMAIN s |-> IF s[i] \in ToMove THEN to[s[i]] ELSE s[i]]
     IN /\ isalloc' = [o \in Obj |-> o \in moved \/ (isalloc[o] /\ o \notin ToMove)]
        /\ isyoung' = [o \in Obj |-> isyoung[o] /\ ~ismarked[o] /\ o \notin moved]
        /\ ismarked' = [o \in Obj |-> ismarked[o] /\ isroot[o] /\ o \notin moved]
        /\ slots' = [o \in Obj |->
             CASE o \in moved               -> Forwarded(slots[from(o)])
               [] o \in ToMove              -> <<>>
               [] ismarked[o] /\ isroot[o]  -> Forwarded(slots[o])
               [] OTHER                     -> slots[o]]
        /\ ref_count' = [o \in Obj |-> (IF o \in moved THEN 0 ELSE ref_count[o]) +
             Cardinality({r \in Promoted(moved) \X (1..MaxSlots) :
                            r[2] \in DOMAIN slots'[r[1]] /\ slots'[r[1]][r[2]] = o})]
        /\ ident' = [o \in Obj |-> IF o \in moved THEN ident[from(o)] ELSE ident[o]]
        /\ freelist' = freelist \ moved
  /\ pc' = "computeDeadRoots"
  /\ UNCHANGED <<isroot, roots, held, alloc_page, pendinggc_pages, decVars, created>>

(* mmap fails: the assertion after it ends the program. *)
OutOfMemory ==
  /\ pc = "evacuate"
  /\ Cardinality(ToMove) > Cardinality(EvacTargets)
  /\ pc' = "aborted"
  /\ UNCHANGED <<heapVars, roots, held, pageVars, decVars, histVars>>

(***************************************************************************)
(* computeDeadRootsForDecrement and processDecrements, an object a step.   *)
(* The dropped roots come in the order of their addresses, here in any.    *)
(***************************************************************************)
ComputeDeadRoots ==
  /\ pc = "computeDeadRoots"
  /\ LET dropped == old_roots \ roots
     IN \E s \in Injection(1..Cardinality(dropped), dropped) :
          pending_decs' = pending_decs \o s
  /\ old_roots' = {}
  /\ pc' = "processDecrements"
  /\ UNCHANGED <<heapVars, roots, held, pageVars, deccount, histVars>>

(* A variant that forgets that a root lives without references. *)
DiesThoughRoot(p, count) == count[p] = 0
Dies(p, count)           == count[p] = 0 /\ ~isroot[p]

DecrementSlot(acc, p) ==
  LET count == [acc.count EXCEPT ![p] = (@ + RefModulus - 1) % RefModulus]
  IN [count |-> count,
      pending |-> IF Dies(p, count) THEN Append(acc.pending, p) ELSE acc.pending]

(* The counts and pending_decs after a decrement for each slot of obj. *)
Decremented(obj) ==
  LET After[k \in 0..Len(slots[obj])] ==
        IF k = 0 THEN [count |-> ref_count, pending |-> Tail(pending_decs)]
        ELSE DecrementSlot(After[k - 1], slots[obj][k])
  IN After[Len(slots[obj])]

(* A variant without a budget. *)
MayAlwaysDecrement == pending_decs # <<>>
MayDecrement       == pending_decs # <<>> /\ deccount < max_decrement_count

ProcessDecrement ==
  /\ pc = "processDecrements" /\ MayDecrement
  /\ LET obj == Head(pending_decs)
         end == Decremented(obj)
     IN \/ /\ isalloc[obj]
           /\ ref_count' = end.count
           /\ pending_decs' = end.pending
           /\ isalloc' = [isalloc EXCEPT ![obj] = FALSE]
           /\ slots' = [slots EXCEPT ![obj] = <<>>]
           /\ freelist' = freelist \cup {obj}
        \/ /\ ~isalloc[obj]
           /\ pending_decs' = Tail(pending_decs)
           /\ UNCHANGED <<isalloc, ref_count, slots, freelist>>
  /\ deccount' = deccount + 1
  /\ UNCHANGED <<isyoung, ismarked, isroot, roots, pc, held, alloc_page,
                 pendinggc_pages, old_roots, histVars>>

EndDecrements ==
  /\ pc = "processDecrements"
  /\ ~MayDecrement
  /\ deccount' = 0
  /\ pc' = "rebuild"
  /\ UNCHANGED <<heapVars, roots, held, pageVars, old_roots, pending_decs, histVars>>

(***************************************************************************)
(* processCollectorPages rebuilds the pages that were allocated from.      *)
(***************************************************************************)

(* Variants: dead young objects are kept, and so are the free entries of   *)
(* the page in use.                                                        *)
KeepsAllocated(o)  == ~isalloc[o]
FilledPages        == pendinggc_pages
CollectedPages     == pendinggc_pages \cup {alloc_page}

GC_SHOULD_FREE_LIST_ADD(o) ==
  \/ ~isalloc[o]
  \/ ref_count[o] = 0 /\ ~isroot[o]
  \/ ~isroot[o] /\ ~ismarked[o]

Rebuild ==
  /\ pc = "rebuild"
  /\ LET freed == {o \in Obj : /\ PageOf[o] \in CollectedPages
                               /\ GC_SHOULD_FREE_LIST_ADD(o)}
     IN /\ isalloc' = [o \in Obj |-> isalloc[o] /\ o \notin freed]
        /\ isyoung' = [o \in Obj |-> isyoung[o] /\ o \notin freed]
        /\ ref_count' = [o \in Obj |-> IF o \in freed THEN 0 ELSE ref_count[o]]
        /\ slots' = [o \in Obj |-> IF o \in freed THEN <<>> ELSE slots[o]]
        /\ freelist' = freelist \cup freed
  /\ alloc_page' = NULL
  /\ pendinggc_pages' = {}
  /\ pc' = "end"
  /\ UNCHANGED <<ismarked, isroot, roots, held, decVars, histVars>>

(* The end of collect(): GC_CLEAR_ROOT_MARK. *)
EndCollect ==
  /\ pc = "end"
  /\ ismarked' = [o \in Obj |-> ismarked[o] /\ o \notin roots]
  /\ isroot' = [o \in Obj |-> isroot[o] /\ o \notin roots]
  /\ old_roots' = roots
  /\ roots' = {}
  /\ pc' = "mutator"
  /\ UNCHANGED <<isalloc, isyoung, ref_count, slots, held, pageVars, pending_decs,
                 deccount, histVars>>

Collection ==
  \/ \E S \in SUBSET Seen : Mark(S)
  \/ \E to \in [ToMove -> EvacTargets] : Evacuate(to)
  \/ ComputeDeadRoots
  \/ ProcessDecrement
  \/ EndDecrements
  \/ Rebuild
  \/ EndCollect
  \/ OutOfMemory

Program ==
  \/ \E o \in Obj, s \in SlotsOver(Seen) : New(o, s)
  \/ \E p \in Page : Refresh(p)

Next == Program \/ Collection

Spec == Init /\ [][Next]_vars

-----------------------------------------------------------------------------
(***************************************************************************)
(* Three things go wrong in the code as it is.  CarefulSpec has the        *)
(* executions that avoid them, RebuildSpec those that avoid the first and  *)
(* the last; Decrements shows what comes of the first.                     *)
(***************************************************************************)

(* What has been a root is dropped for good: computeDeadRootsForDecrement  *)
(* frees it whatever its reference count is.                               *)
DropsForGood == old_roots \cap Seen' \subseteq held'

(* The old objects on a page that was allocated from are still roots:      *)
(* rebuild frees every other one, again whatever its reference count is.   *)
HoldsOldOnes ==
  \A o \in Obj : (IsOld(o) /\ PageOf[o] \in CollectedPages) => o \in held'

(* No entry is used again while its address is in pending_decs or in an    *)
(* object that is still to be freed: the new object at that address would  *)
(* be freed, or lose a reference it never had.                             *)
NoReuseWhilePending ==
  (freelist \ freelist') \cap (Range(pending_decs) \cup
                             UNION {Children(o) : o \in Obj \ freelist}) = {}

CarefulNext ==
  /\ Next
  /\ NoReuseWhilePending
  /\ pc = "mutator" /\ pc' = "evacuate" => DropsForGood /\ HoldsOldOnes

CarefulSpec == Init /\ [][CarefulNext]_vars

RebuildNext ==
  /\ Next
  /\ NoReuseWhilePending
  /\ pc = "mutator" /\ pc' = "evacuate" => DropsForGood

RebuildSpec == Init /\ [][RebuildNext]_vars

-----------------------------------------------------------------------------
(***************************************************************************)
(* Properties.                                                             *)
(***************************************************************************)

(* What the program sees: its objects, whatever addresses they are at.     *)
graphSeen ==
  LET S    == Seen
      lost == {ident[o] : o \in {x \in S : ~isalloc[x]}}
  IN [i \in {ident[o] : o \in S} \ lost |->
        LET o == CHOOSE x \in S : ident[x] = i
        IN [k \in DOMAIN slots[o] |-> ident[slots[o][k]]]]

Objects == INSTANCE ObjectGraph WITH
  Id <- 1..MaxObjects, held <- {ident[o] : o \in held}, graph <- graphSeen

(***************************************************************************)
(* collect() is invisible: what the program can reach is the graph that it *)
(* built, though objects move, addresses are used again and collections    *)
(* stop and go on (markingWalk, processMarkedYoungObjects,                 *)
(* processDecrements and rebuild together).                                *)
(***************************************************************************)
ImplementsObjectGraph == Objects!Spec

(***************************************************************************)
(* Between collections every old object's count is the number of pointers  *)
(* to it from old objects, those that wait in pending_decs included.       *)
(***************************************************************************)
CountsExactBetweenCollections == pc = "mutator" => CountsExact

(***************************************************************************)
(* Between collections an entry is on a freelist or holds an object.       *)
(***************************************************************************)
EntriesAccounted == pc = "mutator" => \A o \in Obj : isalloc[o] <=> o \notin freelist

(***************************************************************************)
(* A collection that leaves pending_decs empty has freed everything that   *)
(* the program could not reach, young or old.                              *)
(***************************************************************************)
OnlyReachableSurvives ==
  (pc = "end" /\ pending_decs = <<>>) => \A o \in Obj : isalloc[o] => o \in Seen

(***************************************************************************)
(* What a program holds stays allocated: the tests compare the printed     *)
(* tree before and after a collection (test/tree_basic.cpp).               *)
(***************************************************************************)
HeldStaysAllocated == \A o \in Seen : isalloc[o]
=============================================================================
