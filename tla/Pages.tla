-------------------------------- MODULE Pages --------------------------------
(***************************************************************************)
(* The pages of a thread's allocators (GCAllocator and PageInfo of         *)
(* src/runtime/memory/allocator.h): where each page is while the program   *)
(* allocates and while collect() moves survivors to other pages, frees old *)
(* objects and puts the pages away again.                                  *)
(*                                                                         *)
(* Which objects live is the program's choice: a page is the number of its *)
(* free entries, of its young and of its old objects; the entries that are *)
(* left belong to objects that were evacuated from it.  The linked lists   *)
(* are sets: nothing depends on their order.  The utilisation buckets are  *)
(* the sets of module PageSets, which the trees of BucketTree implement.   *)
(***************************************************************************)
EXTENDS Naturals, FiniteSets

CONSTANTS
  Page,                     \* the pages that mmap can return
  NULL,                     \* nullptr
  Alloc,                    \* the allocators, by their index in g_gcallocs
  EntryCount,               \* EntryCount[a]: PageInfo.entrycount of a's pages
  BSQ_COLLECTION_THRESHOLD

ASSUME PageAssumption ==
  /\ NULL \notin Page \cup Alloc
  /\ Alloc \subseteq Nat
  /\ BSQ_COLLECTION_THRESHOLD \in Nat \ {0}

(* One object is at least a hundredth of a page, as IS_LOW_UTIL expects of *)
(* a page that is not empty.                                               *)
ASSUME EntryAssumption == EntryCount \in [Alloc -> 1..99]

VARIABLES
  pc,             \* where the thread is in collect(), or "mutator"
  refreshing,     \* the allocator whose allocatorRefreshPage is under way
  evacuating,     \* the allocator that has just taken an evacuation page
  disable_automatic_collections,
  newly_filled_pages_count,
  freelist,       \* length of GCAllocator.freelist
  evacfreelist,   \* length of GCAllocator.evacfreelist
  alloc_page,     \* alloc_page[a]
  evac_page,      \* evac_page[a]
  lists,          \* lists[a]: its buckets, filled_pages and pendinggc_pages
  empty_pages,    \* GlobalPageGCManager.empty_pages
  mapped,         \* the pages mapped so far
  allocator,      \* allocator[p]: getAllocatorForPageSize
  freecount,      \* PageInfo.freecount
  young,          \* the young objects on a page
  old,            \* the old objects on a page
  approx_utilization,  \* PageInfo.approx_utilization, times entrycount
  decremented_pages    \* the pages on which this collection freed an object

control   == <<pc, refreshing, evacuating>>
counting  == <<disable_automatic_collections, newly_filled_pages_count>>
cursors   == <<freelist, evacfreelist, alloc_page, evac_page>>
placing   == <<lists, empty_pages, approx_utilization>>
mapping   == <<mapped, allocator>>
objects   == <<freecount, young, old>>
vars == <<control, counting, cursors, placing, mapping, objects, decremented_pages>>

ListName == {"low", "high", "filled", "pendinggc"}

(* 100.0f: the utilisation was not calculated yet. *)
NotCalculated(a) == 100 * EntryCount[a]

Phases == {"mutator", "refresh", "evacuate", "decrement", "reprocess",
           "processCollectorPages", "aborted"}

PagesTypeOK ==
  /\ pc \in Phases
  /\ refreshing \in Alloc \cup {NULL}
  /\ evacuating \in Alloc \cup {NULL}
  /\ disable_automatic_collections \in BOOLEAN
  /\ newly_filled_pages_count \in Nat
  /\ freelist \in [Alloc -> Nat]
  /\ evacfreelist \in [Alloc -> Nat]
  /\ alloc_page \in [Alloc -> Page \cup {NULL}]
  /\ evac_page \in [Alloc -> Page \cup {NULL}]
  /\ lists \in [Alloc -> [ListName -> SUBSET Page]]
  /\ empty_pages \in SUBSET mapped
  /\ mapped \in SUBSET Page
  /\ allocator \in [Page -> Alloc]
  /\ freecount \in [Page -> Nat]
  /\ young \in [Page -> Nat]
  /\ old \in [Page -> Nat]
  /\ approx_utilization \in [Page -> Nat]
  /\ decremented_pages \in SUBSET mapped

Init ==
  /\ pc = "mutator" /\ refreshing = NULL /\ evacuating = NULL
  /\ disable_automatic_collections \in BOOLEAN
  /\ newly_filled_pages_count = 0
  /\ freelist = [a \in Alloc |-> 0]
  /\ evacfreelist = [a \in Alloc |-> 0]
  /\ alloc_page = [a \in Alloc |-> NULL]
  /\ evac_page = [a \in Alloc |-> NULL]
  /\ lists = [a \in Alloc |-> [l \in ListName |-> {}]]
  /\ empty_pages = {} /\ mapped = {} /\ decremented_pages = {}
  /\ allocator \in [Page -> Alloc]
  /\ freecount = [p \in Page |-> 0]
  /\ young = [p \in Page |-> 0]
  /\ old = [p \in Page |-> 0]
  /\ approx_utilization = [p \in Page |-> 0]

-----------------------------------------------------------------------------
(***************************************************************************)
(* Utilisations, as a number u of entries in use among n.                  *)
(***************************************************************************)
(* A variant with the upper bound of a full page.                          *)
IsHighToFull(u, n) == 100 * u > 60 * n /\ u <= n

IsLow(u, n)  == 100 * u >= n /\ 100 * u <= 60 * n
IsHigh(u, n) == 100 * u > 60 * n /\ 100 * u <= 90 * n
IsFull(u, n) == 100 * u > 90 * n /\ u <= n

(* Buckets are five percent wide. *)
BucketIndex(u, n) == (20 * u - 1) \div n

(* The list that a page belongs on that has been put away before. *)
ListOf(u, n) ==
  CASE IsLow(u, n)  -> "low"
    [] IsHigh(u, n) -> "high"
    [] IsFull(u, n) -> "filled"
    [] OTHER        -> "none"

Entries(p) == EntryCount[allocator[p]]
InUse(p)   == Entries(p) - freecount[p]

NeedsMoved(before, now, n) ==
  /\ 10 * before <= 11 * n
  /\ \/ ListOf(before, n) # ListOf(now, n)
     \/ /\ ListOf(now, n) \in {"low", "high"}
        /\ BucketIndex(before, n) # BucketIndex(now, n)

(***************************************************************************)
(* processPage for page p with u entries in use, which its caller has taken *)
(* off list "from".                                                        *)
(***************************************************************************)

(* A variant that never collects a page that fills up. *)
ListToAlwaysFilled(p, u) ==
  IF u = 0 THEN "empty" ELSE ListOf(u, Entries(p))

ListTo(p, u) ==
  LET n == Entries(p) IN
  IF u = 0 THEN "empty"
  ELSE IF /\ IsFull(u, n) /\ ~IsFull(approx_utilization[p], n)
          /\ p # evac_page[allocator[p]]
         THEN "pendinggc"
  ELSE ListOf(u, n)

Moved(p, from, to) ==
  lists' = [lists EXCEPT ![allocator[p]] =
              [l \in ListName |-> IF l = to THEN @[l] \cup {p}
                                 ELSE IF l = from THEN @[l] \ {p} ELSE @[l]]]

ProcessPage(p, u, from, to) ==
  /\ approx_utilization' = [approx_utilization EXCEPT ![p] = u]
  /\ empty_pages' = IF to = "empty" THEN empty_pages \cup {p} ELSE empty_pages
  /\ Moved(p, from, to)

(***************************************************************************)
(* Where pages to use come from.                                           *)
(***************************************************************************)

(* findLowestUtilPage on the buckets of a kind. *)
TakeLowest(a, l, p) ==
  /\ p \in lists[a][l]
  /\ \A q \in lists[a][l] : approx_utilization[p] <= approx_utilization[q]
  /\ lists' = [lists EXCEPT ![a][l] = @ \ {p}]
  /\ UNCHANGED <<empty_pages, approx_utilization, mapping, freecount>>

(* A variant that maps pages over mapped ones, as if                      *)
(* s_current_page_address did not advance.                                 *)
AllocateMappedPage(a, p) ==
  /\ p \in Page \ empty_pages
  /\ mapped' = mapped \cup {p}
  /\ allocator' = [allocator EXCEPT ![p] = a]
  /\ freecount' = [freecount EXCEPT ![p] = EntryCount[a]]
  /\ approx_utilization' = [approx_utilization EXCEPT ![p] = NotCalculated(a)]
  /\ UNCHANGED <<lists, empty_pages>>

(* allocateFreshPage with PageInfo::initialize, under the GC lock. *)
AllocateFreshPage(a, p) ==
  /\ \/ /\ p \in empty_pages
        /\ empty_pages' = empty_pages \ {p}
        /\ UNCHANGED mapped
     \/ /\ empty_pages = {}
        /\ p \in Page \ mapped
        /\ mapped' = mapped \cup {p}
        /\ UNCHANGED empty_pages
  /\ allocator' = [allocator EXCEPT ![p] = a]
  /\ freecount' = [freecount EXCEPT ![p] = EntryCount[a]]
  /\ approx_utilization' = [approx_utilization EXCEPT ![p] = NotCalculated(a)]
  /\ UNCHANGED lists

FreshPageForAllocator(a, p) ==
  \/ TakeLowest(a, "low", p)
  \/ lists[a].low = {} /\ AllocateFreshPage(a, p)

FreshPageForEvacuation(a, p) ==
  \/ TakeLowest(a, "high", p)
  \/ lists[a].high = {} /\ TakeLowest(a, "low", p)
  \/ lists[a].high = {} /\ lists[a].low = {} /\ AllocateFreshPage(a, p)

-----------------------------------------------------------------------------
(***************************************************************************)
(* The program: it allocates, and it may call collect() itself.            *)
(***************************************************************************)
Allocate(a) ==
  /\ pc = "mutator"
  /\ freelist[a] > 0
  /\ freelist' = [freelist EXCEPT ![a] = @ - 1]
  /\ freecount' = [freecount EXCEPT ![alloc_page[a]] = @ - 1]
  /\ young' = [young EXCEPT ![alloc_page[a]] = @ + 1]
  /\ UNCHANGED <<control, counting, evacfreelist, alloc_page, evac_page, placing,
                 mapping, old, decremented_pages>>

(* A variant that forgets to count. *)
CollectionDueLate == newly_filled_pages_count > BSQ_COLLECTION_THRESHOLD
CollectionDue     == newly_filled_pages_count + 1 = BSQ_COLLECTION_THRESHOLD

(* allocatorRefreshPage up to the fresh page: the full one is put away. *)
FillPage(a) ==
  /\ pc = "mutator" /\ freelist[a] = 0
  /\ refreshing' = a
  /\ \/ /\ alloc_page[a] = NULL
        /\ pc' = "refresh"
        /\ UNCHANGED <<newly_filled_pages_count, alloc_page, placing>>
     \/ /\ alloc_page[a] # NULL
        /\ LET p == alloc_page[a] IN
             ProcessPage(p, InUse(p), "none", ListTo(p, InUse(p)))
        /\ alloc_page' = [alloc_page EXCEPT ![a] = NULL]
        /\ newly_filled_pages_count' = newly_filled_pages_count + 1
        /\ pc' = IF CollectionDue /\ ~disable_automatic_collections
                   THEN "evacuate" ELSE "refresh"
  /\ UNCHANGED <<evacuating, disable_automatic_collections, freelist, evacfreelist,
                 evac_page, mapping, objects, decremented_pages>>

(* The rest of allocatorRefreshPage. *)
TakeAllocPage(p) ==
  /\ pc = "refresh"
  /\ FreshPageForAllocator(refreshing, p)
  /\ alloc_page' = [alloc_page EXCEPT ![refreshing] = p]
  /\ freelist' = [freelist EXCEPT ![refreshing] = freecount'[p]]
  /\ pc' = "mutator" /\ refreshing' = NULL
  /\ UNCHANGED <<evacuating, counting, evacfreelist, evac_page, young, old,
                 decremented_pages>>

Collect ==
  /\ pc = "mutator"
  /\ pc' = "evacuate"
  /\ UNCHANGED <<refreshing, evacuating, counting, cursors, placing, mapping,
                 objects, decremented_pages>>

-----------------------------------------------------------------------------
(***************************************************************************)
(* processMarkedYoungObjects: survivors that are not roots move to the     *)
(* evacuation page.                                                        *)
(***************************************************************************)

(* allocatorRefreshEvacuationPage: a full page goes to filled_pages ... *)
FileEvacPage(a) ==
  /\ pc = "evacuate" /\ evacuating = NULL
  /\ \E q \in mapped : allocator[q] = a /\ young[q] > 0
  /\ evacfreelist[a] = 0
  /\ evac_page[a] # NULL /\ freecount[evac_page[a]] = 0
  /\ LET p == evac_page[a] IN
       ProcessPage(p, Entries(p), "none", "filled")
  /\ evac_page' = [evac_page EXCEPT ![a] = NULL]
  /\ UNCHANGED <<control, counting, freelist, evacfreelist, alloc_page, mapping,
                 objects, decremented_pages>>

(* ... and another one is taken. *)
TakeEvacPage(a, p) ==
  /\ pc = "evacuate" /\ evacuating = NULL
  /\ \E q \in mapped : allocator[q] = a /\ young[q] > 0
  /\ evacfreelist[a] = 0
  /\ evac_page[a] # NULL => freecount[evac_page[a]] # 0
  /\ FreshPageForEvacuation(a, p)
  /\ evac_page' = [evac_page EXCEPT ![a] = p]
  /\ evacfreelist' = [evacfreelist EXCEPT ![a] = freecount'[p]]
  /\ evacuating' = a
  /\ UNCHANGED <<pc, refreshing, counting, freelist, alloc_page, young, old,
                 decremented_pages>>

(* An object of page q moves: allocateEvacuation, and its entry is reset. *)
Evacuate(q) ==
  LET a == allocator[q] IN
  /\ pc = "evacuate" /\ evacuating \in {NULL, a}
  /\ young[q] > 0
  /\ evacfreelist[a] > 0
  /\ young' = [young EXCEPT ![q] = @ - 1]
  /\ evacfreelist' = [evacfreelist EXCEPT ![a] = @ - 1]
  /\ freecount' = [freecount EXCEPT ![evac_page[a]] = @ - 1]
  /\ old' = [old EXCEPT ![evac_page[a]] = @ + 1]
  /\ evacuating' = NULL
  /\ UNCHANGED <<pc, refreshing, counting, freelist, alloc_page, evac_page, placing,
                 mapping, decremented_pages>>

EndEvacuation ==
  /\ pc = "evacuate" /\ evacuating = NULL
  /\ pc' = "decrement"
  /\ UNCHANGED <<refreshing, evacuating, counting, cursors, placing, mapping,
                 objects, decremented_pages>>

(***************************************************************************)
(* processDecrements: old objects die, then the pages they were on are     *)
(* looked at again.                                                        *)
(***************************************************************************)
FreeObject(p) ==
  /\ pc = "decrement"
  /\ old[p] > 0
  /\ old' = [old EXCEPT ![p] = @ - 1]
  /\ freecount' = [freecount EXCEPT ![p] = @ + 1]
  /\ decremented_pages' = decremented_pages \cup {p}
  /\ UNCHANGED <<control, counting, cursors, placing, mapping, young>>

EndDecrements ==
  /\ pc = "decrement"
  /\ pc' = "reprocess"
  /\ UNCHANGED <<refreshing, evacuating, counting, cursors, placing, mapping,
                 objects, decremented_pages>>

(* A variant that looks at an allocator's own pages only. *)
OnlyInUseByAllocator(p) == p \notin {alloc_page[allocator[p]], evac_page[allocator[p]]}

checkNonAllocOrGCPage(p) ==
  /\ p \notin {alloc_page[allocator[p]], evac_page[allocator[p]]}
  /\ p \notin lists[allocator[p]].pendinggc

ToBeMoved(p) ==
  /\ NeedsMoved(approx_utilization[p], InUse(p), Entries(p))
  /\ checkNonAllocOrGCPage(p)

(* The list that deleteOldPage looks for p on. *)
DeletedFrom(p) ==
  LET l == ListOf(approx_utilization[p], Entries(p))
  IN IF l \in {"low", "high"} THEN l ELSE "filled"

(* A page whose pending_decs_count is not zero is left where it is, as one *)
(* is that does not need to be moved.                                      *)
LeavePage(p) ==
  /\ pc = "reprocess"
  /\ p \in decremented_pages
  /\ decremented_pages' = decremented_pages \ {p}
  /\ UNCHANGED <<control, counting, cursors, placing, mapping, objects>>

(* deleteOldPage dereferences the end of the list if p is not on it. *)
ReprocessPage(p) ==
  /\ pc = "reprocess"
  /\ p \in decremented_pages
  /\ decremented_pages' = decremented_pages \ {p}
  /\ ToBeMoved(p)
  /\ p \in lists[allocator[p]][DeletedFrom(p)]
  /\ ProcessPage(p, InUse(p), DeletedFrom(p), ListTo(p, InUse(p)))
  /\ UNCHANGED <<control, counting, cursors, mapping, objects>>

EndReprocess ==
  /\ pc = "reprocess" /\ decremented_pages = {}
  /\ pc' = "processCollectorPages"
  /\ UNCHANGED <<refreshing, evacuating, counting, cursors, placing, mapping,
                 objects, decremented_pages>>

(***************************************************************************)
(* processCollectorPages, one allocator after the other.                   *)
(***************************************************************************)
Processed(a) ==
  alloc_page[a] = NULL /\ evac_page[a] = NULL /\ lists[a].pendinggc = {}

NextToProcess(a) ==
  /\ pc = "processCollectorPages"
  /\ \A b \in Alloc : b < a => Processed(b)

(* PageInfo::rebuild leaves "kept" objects on the page, which are all old  *)
(* now.  Rebuilding a page twice in a row leaves the same ones.            *)
JustRebuilt(p) == young[p] = 0 /\ InUse(p) = old[p]

Rebuild(p, kept) ==
  /\ kept <= old[p] + young[p]
  /\ freecount' = [freecount EXCEPT ![p] = Entries(p) - kept]
  /\ old' = [old EXCEPT ![p] = kept]
  /\ young' = [young EXCEPT ![p] = 0]

(* The allocators' own copies are reset; a variant forgets to. *)
KeptFreelist(f, a)  == f
ResetFreelist(f, a) == [f EXCEPT ![a] = 0]

CollectAllocPage(a, kept) ==
  /\ NextToProcess(a)
  /\ alloc_page[a] # NULL
  /\ LET p == alloc_page[a] IN
       /\ Rebuild(p, kept)
       /\ ProcessPage(p, kept, "none", ListTo(p, kept))
  /\ alloc_page' = [alloc_page EXCEPT ![a] = NULL]
  /\ freelist' = ResetFreelist(freelist, a)
  /\ UNCHANGED <<control, counting, evacfreelist, evac_page, mapping, decremented_pages>>

CollectEvacPage(a) ==
  /\ NextToProcess(a)
  /\ alloc_page[a] = NULL /\ evac_page[a] # NULL
  /\ LET p == evac_page[a] IN
       ProcessPage(p, InUse(p), "none", ListTo(p, InUse(p)))
  /\ evac_page' = [evac_page EXCEPT ![a] = NULL]
  /\ evacfreelist' = ResetFreelist(evacfreelist, a)
  /\ UNCHANGED <<control, counting, freelist, alloc_page, mapping, objects,
                 decremented_pages>>

(* The list is dropped at the end, with what the loop puts on it. *)
CollectPendingPage(a, p, kept) ==
  /\ NextToProcess(a)
  /\ alloc_page[a] = NULL /\ evac_page[a] = NULL
  /\ p \in lists[a].pendinggc
  /\ JustRebuilt(p) => kept = old[p]
  /\ Rebuild(p, kept)
  /\ LET to == ListTo(p, kept) IN
       ProcessPage(p, kept, "pendinggc", IF to = "pendinggc" THEN "none" ELSE to)
  /\ UNCHANGED <<control, counting, cursors, mapping, decremented_pages>>

EndCollect ==
  /\ pc = "processCollectorPages"
  /\ \A a \in Alloc : Processed(a)
  /\ newly_filled_pages_count' = 0
  /\ pc' = IF refreshing = NULL THEN "mutator" ELSE "refresh"
  /\ UNCHANGED <<refreshing, evacuating, disable_automatic_collections, cursors,
                 placing, mapping, objects, decremented_pages>>

(* mmap fails when a page is needed: the assertion after it ends the       *)
(* program.                                                                *)
NoFreshPage == empty_pages = {} /\ mapped = Page

OutOfMemory ==
  /\ NoFreshPage
  /\ \/ pc = "refresh" /\ lists[refreshing].low = {}
     \/ \E a \in Alloc :
          /\ pc = "evacuate" /\ evacuating = NULL
          /\ \E q \in mapped : allocator[q] = a /\ young[q] > 0
          /\ evacfreelist[a] = 0
          /\ lists[a].high = {} /\ lists[a].low = {}
  /\ pc' = "aborted"
  /\ UNCHANGED <<refreshing, evacuating, counting, cursors, placing, mapping,
                 objects, decremented_pages>>

Aborted == pc = "aborted" /\ UNCHANGED vars

Next ==
  \/ \E a \in Alloc :
       \/ Allocate(a) \/ FillPage(a)
       \/ FileEvacPage(a) \/ \E p \in Page : TakeEvacPage(a, p)
       \/ \E kept \in 0..EntryCount[a] :
            \/ CollectAllocPage(a, kept)
            \/ \E p \in Page : CollectPendingPage(a, p, kept)
       \/ CollectEvacPage(a)
  \/ \E p \in mapped :
       Evacuate(p) \/ FreeObject(p) \/ LeavePage(p) \/ ReprocessPage(p)
  \/ \E p \in Page : TakeAllocPage(p)
  \/ Collect \/ EndEvacuation \/ EndDecrements \/ EndReprocess \/ EndCollect
  \/ OutOfMemory \/ Aborted

Spec == Init /\ [][Next]_vars

-----------------------------------------------------------------------------
(***************************************************************************)
(* Properties.                                                             *)
(***************************************************************************)
Places == {"alloc", "evac", "low", "high", "filled", "pendinggc", "empty"}

IsAt(p, l, a) ==
  CASE l = "alloc"    -> alloc_page[a] = p
    [] l = "evac"     -> evac_page[a] = p
    [] l \in ListName -> p \in lists[a][l]
    [] l = "empty"    -> p \in empty_pages /\ a = allocator[p]

(***************************************************************************)
(* Every page is in exactly one place, and that is a place of the          *)
(* allocator of its size: no page is lost, handed out twice or linked into *)
(* two lists (processPage, deleteOldPage, the refresh functions).          *)
(***************************************************************************)
EveryPageInOnePlace ==
  \A p \in mapped : \E l \in Places :
    \A m \in Places, a \in Alloc : IsAt(p, m, a) <=> (m = l /\ a = allocator[p])

(***************************************************************************)
(* deleteOldPage looks on the list that the stale approx_utilization of a  *)
(* page names; the page is there, or the walk of filled_pages would run    *)
(* over its end.                                                           *)
(***************************************************************************)
DeleteFindsPage ==
  pc = "reprocess" =>
    \A p \in decremented_pages : ToBeMoved(p) => IsAt(p, DeletedFrom(p), allocator[p])

(***************************************************************************)
(* An allocator pops its own copy of the freelist and the page's: while    *)
(* the program runs the two are as long as the page has free entries, and  *)
(* no copy of an older page is left (allocate, processCollectorPages).     *)
(***************************************************************************)
FreelistsInStep ==
  pc \in {"mutator", "evacuate"} => \A a \in Alloc :
    /\ freelist[a] = IF alloc_page[a] = NULL THEN 0 ELSE freecount[alloc_page[a]]
    /\ evacfreelist[a] = IF evac_page[a] = NULL THEN 0 ELSE freecount[evac_page[a]]

(***************************************************************************)
(* A page that holds young objects is one that the next collection         *)
(* rebuilds.  On any other page dead young objects would stay for good, as *)
(* no reference count ever drops to zero for them.                         *)
(***************************************************************************)
YoungPagesAreCollected ==
  \A p \in mapped : young[p] > 0 =>
    IsAt(p, "alloc", allocator[p]) \/ IsAt(p, "pendinggc", allocator[p])

(***************************************************************************)
(* With automatic collections the program never gets to fill more pages    *)
(* than BSQ_COLLECTION_THRESHOLD, over all allocators, for which the       *)
(* forwarding table has room (common.h:37).                                *)
(***************************************************************************)
CollectsInTime ==
  (pc = "mutator" /\ ~disable_automatic_collections) =>
    Cardinality(UNION {lists[a].pendinggc : a \in Alloc}) < BSQ_COLLECTION_THRESHOLD

(***************************************************************************)
(* A page that is handed out has room: allocate and allocateEvacuation     *)
(* take the first free entry without another look.                         *)
(***************************************************************************)
HandsOutRoom ==
  [][\A a \in Alloc :
       /\ alloc_page'[a] \notin {alloc_page[a], NULL} => freecount'[alloc_page'[a]] > 0
       /\ evac_page'[a] \notin {evac_page[a], NULL} => freecount'[evac_page'[a]] > 0]_vars
=============================================================================
