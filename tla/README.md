# A verification project for the Bosque collector

The repository is a garbage collector for the Bosque language: a conservative,
generational collector with one nursery per thread (objects that survive are
copied out of it or promoted in place) and a reference counted old generation.
This directory holds TLA+ models of it, the TLC configurations that check them
on small instances, and proofs of some of their properties that TLAPS checks
for every instance. `PROJECT.json` links every definition to the lines it
models.

Source paths below are relative to `src/`; `memory/` is `src/runtime/memory/`
and `support/` is `src/runtime/support/`.

## 1. The system

### Components

| component | source | state | operations |
|---|---|---|---|
| Marking | `memory/gc.cpp` 262-411 | `roots`, `pending_roots`, `visit_stack`, `pending_young`; mark, root and young bits | `markingWalk`, `walkStack`, `checkPotentialPtr`, `walkSingleRoot` |
| Evacuation | `memory/gc.cpp` 203-260 | `forward_table`, forward indices, `ref_count`, slots | `processMarkedYoungObjects`, `updatePointers` |
| Reference counts | `memory/gc.cpp` 14-185 | `old_roots`, `pending_decs`, `ref_count`, page freelists, `pending_decs_count`, `decremented_pages` | `computeDeadRootsForDecrement`, `processDecrements` |
| `collect()` | `memory/gc.cpp` 413-470 | all of the above, between collections `old_roots` and `pending_decs` | the phases in order, `processCollectorPages` and `rebuild` among them |
| GCAllocator, page lists | `memory/allocator.h`, `allocator.cpp` | `alloc_page`, `evac_page`, `pendinggc_pages`, `filled_pages`, `empty_pages`, `newly_filled_pages_count` | `allocate`, `allocateEvacuation`, the refresh functions, `processPage`, `deleteOldPage` |
| GCAllocator, utilisation buckets | `memory/allocator.h` 228-397 | binary search trees through the pages' `left`, `right`, `next` | insert, delete, take the lowest |
| ArrayList | `support/arraylist.h` | a chain of one-page segments, head and tail pointers | `initialize`, `clear`, `push_back`, `pop_front`, `pop_back` |
| XAllocPageManager | `support/xalloc.*` | one free list of pages for all threads | `allocatePage`, `freePage` |
| PageInfo | `memory/allocator.h`, `allocator.cpp` | the words of a page: entries, metadata, canaries, the freelist | `initialize`, `rebuild`, the arithmetic from a word to its entry |
| GlobalPageGCManager | `memory/allocator.*` | `empty_pages`, the page table | `allocateFreshPage`, `addNewPage`, `pagetable_query` |
| PageTableInUseInfo | `support/pagetable.h` | a radix tree of the pages in use | insert, query |
| qsort | `support/qsort.h` | none | sorts `roots` in place |
| Root set | `memory/threadinfo.*` | copies of the native stack and the registers | `loadNativeRootSet`, `unloadNativeRootSet` |
| Locks | `runtime/common.*` | three plain mutexes | reference counts, then GC pages, then allocation |
| Statistics, tests, build | `threadinfo.h`, `test/`, `build/` | counters | none that other state depends on |

### How they interact

A program allocates from its thread's allocators. When enough pages have filled
up, `collect()` runs on that thread to its end: the scan of the stack finds the
roots; the walk marks what is young and live below them and leaves it in
`pending_young`, children first; evacuation promotes that list in order and
takes the reference counts; the roots are compared with those of the previous
collection, and those that are gone are freed with whatever that leaves without
a reference, within a budget; the pages the program filled are rebuilt, given a
utilisation and put into a bucket, from which the allocators take the least
used ones again. The lists between these phases are ArrayLists, whose segments
come from the page manager. Nothing is sent or persisted; threads share the page
manager, the pool of empty pages and the page table, and a thread's objects
belong to it alone.

### What is hard

- The order in which the walk leaves objects decides whether evacuation finds
  their children's new addresses; it depends on sharing.
- A reference count is taken once per slot, on the address after the move, and
  given back one slot at a time, often many collections later.
- Freeing is cut off by a budget, so `pending_decs` outlives a collection and
  the program changes its roots in between. An address can be in it twice.
- Pages and work-list segments are recycled between owners.
- The bucket trees and the ArrayLists are pointer structures with corner cases
  at a full segment, at equal utilisations, at two children.
- An entry is on a freelist, holds an object, or belongs to one that moved away;
  it is allocated, promoted, freed by a count or by `rebuild`, and used again on a
  page that is used again. Addresses outlive what was at them.
- A page is looked up by the utilisation it had when it was put away.
- Threads query the page table without the lock under which others extend it.
- Counters have a fixed width, fixed arrays are not bounds checked, a static
  flag is shared by threads whose lists it describes.

`PROJECT.json` lists these as hazards, each at its line, with the properties
that cover it, or with the reason why none does.

### What makes each component correct

- Marking: it marks exactly the live young objects, finds each root once, leaves
  each object once and children first, and ends.
- Evacuation: the program sees the same object graph; counts are exact.
- Reference counts: no live object is freed, no garbage is forgotten, all of it
  is freed in the end; counts and freelists stay sound between any two steps.
- `collect()`: all of this together with a program that allocates.
- Page lists and buckets: each page is in one place, the collector finds it
  there, pages with young objects are collected, and a page taken from the buckets
  is one of the least used.
- Page layout: a word finds the object it points into and nothing else; no write
  destroys a freelist or another entry.
- Page table: exact when nobody inserts, and no query misses an older page.
- ArrayList and page managers: independent sequences on pages with one owner.

## 2. Modules

`Heap` is the state that the collector's phases share. `Marking` EXTENDS it and
`Evacuation` EXTENDS `Marking`: its runs do the marking first, so that
evacuation works on the lists the walk really leaves. `Decrements` EXTENDS
`Heap` and `QSort`. `Collector` EXTENDS `Heap`, composes what the phases come to
with a program, and implements `ObjectGraph`. `ArrayList` EXTENDS `XAllocPages` and
implements `Deques`; `PageTable` EXTENDS `XAllocPages` too. `BucketTree` implements
`PageSets`, which is what `Pages` takes the buckets for. `Layout` stands alone.
An `MC` module fixes the instance TLC checks. Definitions named in the
comments as variants are wrong versions of a helper, used to see that the
properties notice.

The modules whose names end in `Proofs` hold the proofs about a component, and of
what it uses: the proofs about `Marking` are in `EvacuationProofs`, those about `QSort`
in `DecrementsProofs`, those about `ObjectGraph` in `CollectorProofs`, and those about
`ArrayList`, `Deques` and `Layout`, which go down to the words of a page, in
`PageWordsProofs`, and those about `BucketTree`, the other half of `GCAllocator`, behind
those about `Pages` in `PagesProofs`. `SeqFacts` (sequences) and `HeapProofs` (reachability, and
the counting of references) hold the lemmas several of them need.

### Heap

Objects are addresses. `isalloc`, `isyoung`, `ismarked`, `isroot`, `ref_count`
are the fields of `MetaData`; `slots[o]` is the object's pointer slots in address
order, where a slot the collector does not follow (ptr_mask '0', a null pointer,
an inline string) is `NULL`. `Quiescent` says what a program leaves in memory
between collections; it is where the language comes in: values are immutable, so
the graph is acyclic, and an object that was promoted does not point to a
younger one.

### Marking

One action per loop iteration: `IgnoreWord` and `FindRoot` are the iterations of
`walkStack` with `checkPotentialPtr`, `TakeRoot` those of `markingWalk`'s loop, and
`LeaveObject`, `EnterObject`, `VisitSlot` those of `walkSingleRoot`, where a pop
and each slot is a step. A machine word is an element of `Word`; what the
arithmetic on its address finds out is abstracted to three constants: whether
its page is in the page table, whether it falls in the page header, and which
entry it falls into. The interior pointers a conservative scan must accept are
words of their own with the same entry.

### Evacuation

One action per object, as the loop runs under a lock on the thread's own
objects. `free_entries` stands for the entries `allocateEvacuation` can take. An
object that moves leaves its entry unallocated, with its forward index, on no
freelist, and with its bytes as they were: a stale pointer to it is seen as what
it is. `origin` and `before` are history variables: where a copy came from, and the
slots as the program last saw them.

### Decrements

The roots are sorted with `QSort`, which follows `partition` and the recursion of
`support/qsort.h`; then the merge of the sorted root arrays, one step per iteration;
`processDecrements`
one step per slot, as its decrements and tests interleave; the end of `collect()`.
The program is part of the MC module: it keeps some of what it reaches and the
next collection finds that as its roots. `RefModulus` and `PendingModulus` are the
widths of the two counters.

### Collector, ObjectGraph

The heap over many collections, with a program that creates objects over what it
can reach, drops some of its variables and collects. A phase is one step, whose
loop is modelled in the modules above; objects are freed one a step, as the budget
cuts off between any two. New is what happens to entries: `New` and `Refresh` are
`allocate` and `allocatorRefreshPage`, `Evacuate` takes entries from the buckets,
`Rebuild` is the rebuilding of the pages allocated from with the test
`GC_SHOULD_FREE_LIST_ADD` as it stands. `ident` is history: which object is at an
address. `ObjectGraph` is what a program relies on: a graph to which it adds
objects and of which it drops parts; collections are not in it. `OutOfMemory` is the
assertion after a failed `mmap`.

Three conditions are those under which the code is right, and they are conjuncts of
`CarefulSpec`: a root is only dropped when nothing else leads to it
(`DropsForGood`); old objects on a page that is allocated from again are roots
(`HoldsOldOnes`); an entry is not used again while a pointer to it is still to be
given back (`NoReuseWhilePending`). The code sees to none of them.
`decrements_dropped_root` and `collector_rebuild` show what comes of the first two;
without the third `CountsExactBetweenCollections` fails.

### Pages

Where every page of a thread's allocators is. A page is three numbers: its free
entries, its young and its old objects; entries that are left over belong to objects
that were evacuated. The linked lists are sets, as nothing depends on their order.
Actions are the operations of the program (`Allocate`, `FillPage`, `TakeAllocPage`)
and the loops of `collect()` as far as they touch pages: evacuation, freeing,
`reprocessPageInfo`, `processCollectorPages`. A refresh that triggers a collection
is interrupted by it, as in the code (`refreshing`). `approx_utilization` is what
a page had in use when it was put away, by which it is found again. `EntryAssumption`
(at most 99 entries a page) is needed: `IS_LOW_UTIL` begins at one percent.

### PageTable

Threads share the pool of `XAllocPages`, the page table, `empty_pages` and the GC lock.
A level of an insertion or a query is one step, and an insertion links a node and
clears it in two, as `pagetable_insert` does. An address is the sequence of its
indices. The page a query asks for may be in the table when it begins (`there`,
history). Only the lists' use of pool pages is abstracted: a thread takes and
returns one.

### Layout

The words of one page, and one word of the page behind it. Of a word the model
keeps what code can tell: freelist link, canary, flags, zero, or "other" for what a
program may have left, which reads as anything. Canaries are a choice at the start,
as both builds come from the same source. `RestrictedSpec` names three conditions
that the code relies on: no object is freed by reference counts in a canary build,
a page is used again for the same size only, and the words behind the last entry
are none or enough for the flags that a scan reads there (`TailReadable`).

### XAllocPages, ArrayList, Deques

Each operation of the page manager is one step, as it runs under the allocation
lock. A list's state is its chain of pages and two offsets in words; `tail_max` and
`head_max` are the offset `DataWords`. Pushes and pops are separate actions for
their fast and slow paths. What lies beyond the last word of a page belongs
to someone else, so a store there changes no word of the list's pages in the
model. `Deques` is what the collector relies on: sequences, one per list, that
know nothing of pages.

### BucketTree, PageSets

The pointers are those of the code, in one record, so that a recursive deletion can
pass it on; the place of a pointer (`root_ptr` in the code) is a pair of field and
index. The loops that follow pointers are one recursive function, `WalkEnd`: to the
end of a list, to the leftmost page, and, with the child that `GoesLeft` chooses as
the pointer, to the parent of a new node; `Before` is such a walk that stops one
short. `deletePageFromBucket` is two: `SearchEnd` for the calls that look for the
page, and `DeleteCall` with what it calls for a successor. Utilisations are whole
numbers: all pages of an allocator have the same number of entries, so two
utilisations are equal or differ by more than `UTILIZATIONS_ARE_EQUAL` tolerates.
`Delete` is `deleteOldPage` for a page in a bucket, `Insert` is `processPage` for
one that belongs in one. `PageSets` is what the allocator relies on: a set of pages
from which it can remove any and take a least used one.

## 3. Runs

| run | instance | what it shows |
|---|---|---|
| `marking` | four addresses, up to two slots each, free, young and old in any mix, scans of two words | `MarkedExactlyLiveYoung`, `RootsExactlyOnce`, `MarkedOnce`, `TopologicalWithoutShortcut`, `Terminates`, types |
| `evacuation` | four objects, three free entries, every pair of scanned objects, heaps without a shortcut | `ProgramSeesSameGraph` (roots where they were, the same graph below them), `RefCountsExact`, types |
| `evacuation_shortcut` | the same with every heap | violates `ProgramSeesSameGraph` |
| `decrements` | four old objects on two pages, at most two roots, a budget of one, a program that drops a root only if nothing else leads to it | `NoLiveObjectFreed`, `CountsExactWhileFreeing`, `NoFloatingGarbage`, `FreelistsSound`, `GarbageIsFreed`, types |
| `decrements_dropped_root` | the same with a program that drops any root | violates `NoLiveObjectFreed` |
| `arraylist` | a queue and a stack, three pages of two words, two values, no `pop_front` that empties a full only segment | `ListsSound`, `PagesOwnedOnce`, `ImplementsDeques` |
| `buckets` | five pages, two buckets, four utilisations, no deletion the code gets wrong | `HoldsEveryPageOnce`, `SearchTree`, `ImplementsPageSets` |
| `pages` | two allocators with three and two entries a page, three pages, a threshold of two, automatic collections on or off | `EveryPageInOnePlace`, `DeleteFindsPage`, `FreelistsInStep`, `YoungPagesAreCollected`, `CollectsInTime`, `HandsOutRoom`, types |
| `collector` | two pages of two entries, up to four objects with up to two pointers, a budget of one, under the three conditions | `ImplementsObjectGraph`, `CountsExactBetweenCollections`, `EntriesAccounted`, `OnlyReachableSurvives`, types |
| `collector_rebuild` | the same without `HoldsOldOnes` | violates `HeldStaysAllocated` |
| `pagetable` | two threads, three levels of two indices, two addresses, a pool of six pages | `TableExact`, `QueriesFindInserted`, `PoolPagesInOnePlace`, `GCPagesInOnePlace` |
| `layout` | pages of 28 words, objects of one to three words, canaries of none or two words, under the three conditions | `ScanFindsTheObject`, `FreelistIntact`, `ObjectsBetweenCanaries` |

Why the bounds are enough. Four objects are the fewest with a diamond and one
object outside it, which is what sharing, shortcuts and paths through old
objects need; numbering objects along the pointers loses no acyclic heap. Two
slots per object distinguish the first from the last and a shared target from
two. Two words find the same object twice, two objects in either order, and
every kind of word that needs care. In `evacuation` some marked object is a
root, so three free entries never run out. A budget of one makes every
cut-off happen. Lists of two elements per segment reach one to three segments,
full and empty ones and the recycling of each other's pages; three pages let a
list grow while the other holds one. Five pages make a tree with both subtrees
under a node that is not the root, beside a second bucket; with it a removal can
go wrong at the root, below it and in a list.

Three and two entries a page give every class of utilisation (none, low, high,
full) and a page that passes from one allocator to the other; three pages are a
current page, an evacuation page and one on a list. In `collector` four objects on four
entries move, die and are replaced on both pages. Three levels have a node above,
at and below the place where two addresses part. 28 words hold one to seven
entries with and without a tail.

Symmetry is used for pages, for entries together with their pages and for threads,
on which no action chooses by name (safety runs alone). `MCPageTable` maps pages in
the order of their numbers, as the deterministic build does. The view of `buckets` forgets the pointers of pages that are in no bucket,
which insertion overwrites before anything reads them.

Fairness. `Terminates` assumes weak fairness of the marking steps: one thread
runs the phase to its end and waits for nobody in it. `GarbageIsFreed` assumes weak
fairness of the whole next-state relation: a program that goes on running
allocates, so it collects again; nothing is assumed about which roots it keeps.
`NoFloatingGarbage` says the same without fairness, for the moment when
`pending_decs` is empty.

Deadlock is checked in every run but `collector`'s two, where the program may run out
of memory or have created all its objects; the phases that end stutter
explicitly. In `arraylist` a list can always be cleared.

Some configurations are kept beside the runs, each with one counterexample worth
reading: `DecrementsStable.cfg`, `ArrayListOverrun.cfg`, `ArrayListFull.cfg`,
`BucketTreeDelete.cfg`, `PageTableRace.cfg`, `LayoutCanary.cfg` (see 4).

## 4. What the runs found

- Marking pushes an object and marks it at once (`memory/gc.cpp` 362), so an
  object with a slot that leads to the target of an earlier one is left before
  that target. Evacuation then copies a pointer to an entry that is abandoned a
  few steps later (`evacuation_shortcut`). Without such a shortcut the order is
  topological, and evacuation correct, for every heap of the instance.
- A root that is gone is freed without a look at its reference count
  (`memory/gc.cpp` 33), also if live objects point to it
  (`decrements_dropped_root`).
- `rebuild` frees an entry whose object is neither root nor marked
  (`runtime/common.h` 172). Old objects are never marked, so the old objects on a page
  that is allocated from again are freed, whatever refers to them
  (`collector_rebuild`).
- `pending_decs_count` leaves out dropped roots, so that a page with objects
  still to be freed is taken for stable (`DecrementsStable.cfg`; `memory/gc.cpp`
  159 and 171).
- `push_back` tests `tail == tail_max` (`support/arraylist.h` 175); a `MarkStackEntry`
  is 16 bytes and a segment 4072, so `visit_stack` runs over the end of its page with
  its 255th element (`ArrayListOverrun.cfg`).
- `pop_front` of the last element of a full only segment dereferences null
  (`ArrayListFull.cfg`; `support/arraylist.h` 57).
- `insertPageInBucket` looks for equal pages at the root only (`memory/allocator.h` 249),
  and `deletePageFromBucket` looks in the list of the first equal node
  (`BucketTreeDelete.cfg`). Deleting a node with two children is wrong as well:
  `getSuccessor`'s page is linked to itself, and the deleted page stays in the
  tree. `CarefulDelete` leaves out both.
- A node of the page table is linked before it is cleared (`support/pagetable.h` 46-49).
  A query of another thread that comes between reads what the pool left in the page,
  and may answer yes for a page that was never inserted (`PageTableRace.cfg`).
- In a build with canaries the link of an object freed by `processDecrements` goes to
  the metadata (`memory/gc.cpp` 153), while `rebuild` and `allocate` take an entry to
  begin with its canary: the next object there is shifted, and metadata are read
  where a canary is (`LayoutCanary.cfg`, against `runtime/common.h` 129).
- `CollectsInTime` holds if automatic collections are never switched off: the
  threshold is compared for equality (`memory/allocator.cpp` 172).

## 5. Proofs

`EvacuationProofs` begins with marking. It proves for every finite set of addresses, every set of words, every heap
that satisfies `Quiescent` and every scan, from `NullAssumption`, `HeapAssumption` (memory
is finite) and `WordAssumption`:

- `TypeCorrect`: `Spec => []TypeOK`
- `RootsExact`: `Spec => []RootsExactlyOnce`
- `MarkedInOnePlace`: `Spec => []MarkedOnce`
- `MarkingExact`: `Spec => []MarkedExactlyLiveYoung`

- `OrderTopological`: `Spec => []TopologicalWithoutShortcut`

The first four follow from one inductive invariant, `IInv`. `MarkedExactlyLiveYoung`
speaks of the last state only; during the walk the reason for it is the
tricolour argument: a marked object is grey on the stack, or the visited
slots of it lead to no unmarked young object, where for the object in progress
(`cur`) only the slots before `slot` count (`Tricolor`). At the end the stack
is empty and every marked object is black throughout, so the marked
objects are closed under young children; `RootInv` starts the closure at the
young roots, which are marked or still in `pending_roots`. That live objects
are only reached through young ones needs `GraphOK`, the part of `Quiescent`
that the walk leaves alone: an old object does not point to a young one, so the
walk may stop at old objects. `ScanInv` ties the roots to the words read so far,
`PhaseInv` says what is empty in which phase, `CurInv` bounds `slot`, and
`MarkedOnce`, which is inductive with these, is part of `IInv`. TLC checks the
properties it implies on the `marking` instance.

The order of `pending_young` needs a second invariant, `OrderInv`, that leans on
the first. On `visit_stack` whatever is above a black object is below it in the heap, and a
grey object is not below what is above it on the stack (`StackOrder`; `CurOrder` for
the object whose slots are being visited, where the absence of shortcuts comes in). A
young child of the object that is left is marked, so it is in the list or on the stack;
on the stack it would be grey, against `StackOrder`, or black, and the two
would be below each other, against `Acyclic`.

It goes on with evacuation, for every heap, every scan and every choice of free
entries:

- `EvacTypes`: `EvacSpec => []EvacTypeOK`
- `EvacCountsExact`: `EvacNoShortcutSpec => []RefCountsExact`
- `EvacSameGraph`: `EvacNoShortcutSpec => []ProgramSeesSameGraph`

`EvacNoShortcutSpec` starts from heaps on which the marking order is topological; on the
others `evacuation_shortcut` shows the property to fail. That is an assumption about
the heap that the program built; that the list is then in order is not assumed but is
`OrderTopological`. `EvacIInv` holds with or without it: an
entry evacuation may draw on holds nothing and is referred to by nothing
(`FreeEntries`), an object that has moved has one old copy (`Forwarding`, `OneCopy`),
what is still young is as the program left it (`YoungOnes`), and the roots stay
(`RootsKept`). `FaithfulInv` adds what the order gives: the children of the next object
are old or have moved (`ChildrenReady`), so its slots lead to old objects once
`updatePointers` has rewritten them (`OldClosed`), each to the copy of
what it led to (`SameSlots`), and each is counted at the address it has now
(`AllCounts`). A promotion in place and a copy are one lemma (`MoveShape`).

`DecrementsProofs` proves about the freeing of old objects, from `DecrementAssumption`,
for every heap, page table, budget and counter width:

- `QSortSorts`: `qsort` leaves a rearrangement of its array in rising order
- `DecTypes`: `DecAnySpec => []DecTypeOK`
- `DecFreelistsSound`: `DecAnySpec => []FreelistsSound`
- `DecCountsExact`: `DecAnySpec => []CountsExactWhileFreeing`
- `DecNoFloatingGarbage`: `DecAnySpec => []NoFloatingGarbage`
- `DecNoLiveObjectFreed`: `DecSpec => []NoLiveObjectFreed`

All but the last hold whatever the program does between collections; the last is about
programs that drop a root only if nothing else leads to it, as the code needs
(section 4). In `IInv` a count is the number of references left, those the object being
freed has given back taken off (`Counts`), and an old object that nothing refers to is
a root, is still to be passed by the merge, or waits to be freed (`GarbageIsKnown`).
`RootLists` has what the merge of the root arrays relies on, which needs that the
arrays are sorted. `NoFloatingGarbage` follows because values are acyclic: among unreachable old
objects one would be referred to by none of them (`NoEndlessChain`). `LiveOnesStay` is
the invariant behind the last theorem: what a root leads to is not in `pending_decs`
and is not being freed.

`partition` and `qsort` are recursive functions. Where the library's induction
theorems need an operator, these proofs take a least counterexample from a set of natural numbers
(`LeastNatural`, `SetInduction`): first that a function with that recursion exists,
then that any such function sorts.

`CollectorProofs` proves about `collect()` as a whole with a program that
allocates, for any finite heap, any pages, budget, number of slots and number of objects:

- `CollectorTypes`: `Spec => []CollectorTypeOK`
- `CollectorEntries`: `Spec => []EntriesAccounted`
- `CollectorCounts`: `CarefulSpec => []CountsExactBetweenCollections`
- `CollectorKeepsWhatIsHeld`: `CarefulSpec => []HeldStaysAllocated`
- `CollectorFreesGarbage`: `CarefulSpec => []OnlyReachableSurvives`
- `CollectorRefinesObjectGraph`: `CarefulSpec => ImplementsObjectGraph`

The first two hold whatever the program does, from `EntryInv`: an entry that is
neither free nor in use was left by an object that moved, and is on a page that
this collection rebuilds (`Entries`, `Marks`). The others are about `CarefulSpec`, whose
three conditions the code does not see to (section 2); that they are not idle is
what `decrements_dropped_root` and `collector_rebuild` show. Besides
`CollectorAssumption` they rest on `CountAssumption`: memory has fewer pointer slots
than `ref_count` has values, or the count of an object that all of them refer to
would wrap around; 2^32 slots are 32 GiB.

The inductive invariant, `CarefulInv`, holds at every step of a collection, not only
at its ends. What a program can reach is allocated and not in `pending_decs`, and it
includes no old root that is not a root again (`LiveOnesStay`): that is what freeing
must keep. It does because what it frees was referred to by nothing old, which needs
the counts to be exact (`CountsExact`, with `pending_decs` counted among the objects
that refer) and to be taken of old objects alone (`Generations`). Evacuation makes young
objects old; that it moves all of those in use needs `Marked`, and that rebuild
frees none needs `Roots`, which has what `HoldsOldOnes` says at the start of the
collection. `GarbageIsKnown` is the converse: an old object that nothing old refers to is
a root, was one, or is in `pending_decs`. With an empty `pending_decs` the oldest of the
unreachable objects would be none of these; that there is an oldest is `Pointers`, an
object refers to older ones only, which also makes the heap acyclic.

For the refinement the map sends an address to the object at it (`ident`). `Identities`
makes that one-to-one on what is allocated. `New` is `ObjectGraph`'s `New`, the start of a
collection drops what the program no longer holds, and all other steps leave
the graph as it is: evacuation because it forwards each slot to the copy with the same
identity, freeing and rebuilding because they touch nothing that can be reached.

`PageWordsProofs` proves about the work lists and their pages, from
`ListAssumption` alone, for every number of lists and pages and every size:

- `PagesHaveOneOwner`: `ListSpec => []PagesOwnedOnce`, for every use of the lists,
  the two that the runs show to go wrong included
- `AlignedListsSound`: `CarefulSpec => []ListsSound`, if each list's element size
  divides the size of a segment

The first follows from `OwnInv`, which says what each sequence of pages holds
and that none holds a page twice; every operation only moves pages between one
list and the free list, perhaps with a page mapped just then (lemma
`Redistribute`). The second needs `OffsetInv`, `ListsSound` with offsets that are
multiples of the element size: an offset below the end of a segment is then below
it by a whole element (`RoomForOne`), so that the code's tests for equality with
`tail_max` and `head_max` cannot be stepped over. The three lists of pointers
satisfy the condition. `visit_stack`, whose elements are two words in a segment of
509, does not: that is what `ArrayListOverrun.cfg` shows. `SeqFacts` holds
the facts about sequences that the modules of proofs use.

If besides `NULL` is not a sequence, the lists implement their specification:

- `AlignedListsAreDeques`: `CarefulSpec => ImplementsDeques`

The sequence a list stands for is read off its words by a division (`Elements`), so the
proof needs to know where a word is (`DivMod`, `Place`), that a list spans a whole
number of elements (`LengthFacts`, from `OffsetInv`), and which words an operation
keeps: a word written at the tail is none of those before it because no page is in the
list twice, and none of another list's because no page is in two (`OwnInv`). Three lemmas
about all sequences that are spelled out so (`PushSpelled`, `PopFrontSpelled`,
`PopBackSpelled`) then give the step of `Deques` for each action.

About the words of a GC page the same module proves, from `LayoutAssumption` alone, for
any sizes of the page, of objects and of canaries:

- `ScansFindObjects`: `RestrictedSpec => []ScanFindsTheObject`
- `FreelistStaysIntact`: `RestrictedSpec => []FreelistIntact`
- `ObjectsStayBetweenCanaries`: `RestrictedSpec => []ObjectsBetweenCanaries`

The three conditions of `RestrictedSpec` are those of section 2: a freed object's link
is written to its metadata, which with canaries is not where an entry starts; for objects
of another size the words of old ones are read as flags; and so are those of the
page behind, if the tail of the page is too short. `LayoutCanary.cfg` shows what becomes of
a page without the first (section 4). `LayoutInv` says of each entry what its flags and canaries are
(`EntryInv`), that nothing was written behind the last entry (`TailInv`), and that
some sequence of distinct entries without objects is the freelist (`FreelistIs`).
An address is an entry and an offset in it (`WordOfEntry`), so that the arithmetic that is
not linear stays in a few lemmas (`Sizes`, `IndexOfWord`, `PlacesDiffer`) and a
store into one entry is seen to change no other (`OthersKept`). That the
freelists of `initialize` and `rebuild` run through all the entries they should, in order,
is by induction over the entries seen so far (`InOrder`, `LaidThrough`).

`PagesProofs` proves about the page lists, from `PageAssumption` and
`EntryAssumption`, for any number of allocators, pages and entries up to 99 a page:

- `PagesTypeCorrect`, `PagesHaveOnePlace`, `DeletedPagesAreFound`, `FreelistsStayInStep`,
  `YoungPagesCollected`, `CollectionIsInTime`: the invariants of the `pages` run
- `RoomIsHandedOut`: `Spec => HandsOutRoom`, an action property

`EveryPageInOnePlace` counts places; the inductive form is `PlaceInv`, which
says for each place what it holds and that it shares it with no other, and every
step moves one page between two places (lemmas `PutAway...`, `Take...`). That the
place can be found again by a utilisation that is out of date is `ClassInv`: the page
is on the list of the old value, and only has fewer entries in use since. That the
ranges of utilisations leave no gap (`ListOfInUse`) is where 99 entries are needed.
`CountInv` keeps the numbers of a page together, `YoungInv` says where young objects
are, `FreelistInv` ties the allocators' copies to their pages, `ControlInv` and
`TimeInv` follow the thread through a refresh that collects.

`PageTableProofs` proves about the shared table, from `TableAssumption`, for any number
of threads, pages, levels and indices:

- `NoPageMissed`: `Spec => []QueriesFindInserted`
- `GCPagesHaveOneUser`: `Spec => []GCPagesInOnePlace`
- `TableIsExact`: `Spec => []TableExact`
- `PoolPagesHaveOnePlace`: `Spec => []PoolPagesInOnePlace`
- `PageTableTypeCorrect`: `Spec => []PageTableTypeOK`

A query without the lock is right if the path to its page does not change under it.
`PathsInv` has that path, for each page in the table, each insertion as far as it has
come, and each query; `LevelsInv` gives each node a level, by which nodes
differ from each other and point only one level down, except while one is being
cleared (`Clearing`); `PoolInv` keeps what lists and new nodes write off the nodes.
All steps then do no more than write over null words of nodes (`Kept`), which
changes no path. `WalkInv` says who holds the lock.

That the table has nothing else, and loses no page, is the converse: each node is
there for one way from the root. `NamesInv` gives each node an address, its name, of
which the indices above the node's level are that way. No two nodes of a level have
the same name that far, each node but the root has a node whose word leads to it, a
leaf's word is `PAGE_PRESENT` only for an address that was inserted, and each page
mapped is free, in a list or a node. `NodeFor`, the walk as a recursive function, is
then the node with the right name (induction over the levels as a set).

About the buckets `PagesProofs` proves, from `BucketAssumption` (they are numbered,
and `BucketOf` does not decrease), for any pages, utilisations and buckets:

- `BucketsHoldEveryPageOnce`: `CarefulSpec => []HoldsEveryPageOnce`
- `BucketsAreSearchTrees`: `CarefulSpec => []SearchTree`
- `BucketsImplementPageSets`: `CarefulSpec => ImplementsPageSets`

`CarefulSpec` makes no deletion that the code gets wrong (section 4;
`BucketTreeDelete.cfg` shows that the first theorem fails without that). Insertion
and `findLowestUtilPage` are as in the code, without a condition.

The inductive invariant, `BucketInv`, says of the pages in the buckets that each is
led to from one place, a bucket or a pointer of another (`Forest`), that what is
below a page is used as its side requires (`Ordered`), and that only roots have
lists and a list's pages have no children (`ListsOfRoots`). The third is no run's
property: without it the head of a list could be in the middle of a tree, where what
`findLowestUtilPage` puts in its place would lose the list.

What is below a pointer (`Sub`) is the least closed set, so that each fact about it
is that some set is closed: of two pointers to one page one is below the other
(`Nested`), only one place leads into what is below a page (`ParentBelow`), no page
is below itself (`ForestAcyclic`). An operation is one of three changes of such a
forest, each a lemma of its own: a new page at a free place (`AttachRoot`,
`AttachBelow`), a page with one pointer left out (`SpliceOut`), the page behind the
first of a bucket put in its place (`PromoteNext`). Where the change is made is
where a walk ends. That the recursive function exists, on all pages and whatever
their pointers, is `WalkExists`; that a walk down a forest ends, in any set of pages
that it does not leave, is `WalkStays`, by the page with the fewest pages below it
(`LowestOf`). The set is chosen for what is asked: for insertion the pages that are
on the right side of all above them (`EndOfDescent`), for `findLowestUtilPage` those
below which nothing is used more than what is elsewhere in the tree (`Leftmost`).
That a page used least in the first bucket in use is used least of all is the
monotonicity of `BucketOf`.

Only model-checked: `Terminates` and `GarbageIsFreed`, as liveness is outside the
prover's reach. Every other property of a passing run is a theorem.

## 6. Not modelled

- Collections of several threads at once. A thread's collection is taken to touch its
  own objects only; a word on its stack that looks like a pointer into another
  thread's page is outside the models, and so is `should_reset_pending_decs`, a
  static for lists that are thread local. Creation and end of threads have no code
  in the repository that uses them.
- The reference count lock, which is held around whole phases of one thread.
- The copy of the native stack and registers, which is layout of the machine; the
  words it yields are an arbitrary sequence.
- The sizes of fixed arrays (`forward_table`, `decremented_pages`, the stack copy).
- Deterministic addresses and debug output, statistics, test drivers.

## 7. Plan

What remains, in order of what it would add:

1. A second thread in `Marking`: words that point into its pages.
2. `TreeSpec` with a `deletePageFromBucket` that looks beyond the first equal node and copies
   the successor's place in full, once the code has it: the theorems about `CarefulSpec`
   should then hold of it, with one more lemma for nodes with two children.
