------------------------------- MODULE Layout -------------------------------
(***************************************************************************)
(* The words of one page (PageInfo of src/runtime/memory/allocator.h):     *)
(* where an entry, its metadata, its object and its canaries are, and what *)
(* a freelist link, a reset and an allocation write over.                  *)
(*                                                                         *)
(* An address is the number of 8-byte words from PageInfo.data; a size is  *)
(* a number of words.  Of a word the model keeps what the allocator and    *)
(* the collector can tell: a freelist link, a canary, the word of the      *)
(* metadata flags with isalloc set or not, zero, and "other" for whatever  *)
(* the program or a type pointer leaves there, which may read as anything. *)
(***************************************************************************)
EXTENDS Integers, FiniteSets

CONSTANTS
  PageWords,     \* words of the page after its header
  AllocSizes,    \* the sizes of objects (PageInfo.allocsize)
  CanarySizes    \* ALLOC_DEBUG_CANARY_SIZE, 0 without ALLOC_DEBUG_CANARY

MetaWords == 3   \* sizeof(MetaData): type; flags and forward_index; ref_count

ASSUME LayoutAssumption ==
  /\ PageWords \in Nat
  /\ AllocSizes \subseteq Nat \ {0}
  /\ CanarySizes \subseteq Nat

VARIABLES
  canary,      \* the canary size of the build
  allocsize,   \* PageInfo.allocsize
  mem,         \* the words; the last one is the first of the page after it
  freelist,    \* PageInfo.freelist
  freecount,   \* PageInfo.freecount
  objects      \* the objects the program has on the page

vars == <<canary, allocsize, mem, freelist, freecount, objects>>

Nullptr == -1
Plain(k) == [is |-> k, next |-> Nullptr]
Link(a) == [is |-> "link", next |-> a]
Address == 0..PageWords

-----------------------------------------------------------------------------
(***************************************************************************)
(* Arithmetic on addresses.                                                *)
(***************************************************************************)
REAL_ENTRY_SIZE(size) == canary + size + MetaWords + canary

realsize   == REAL_ENTRY_SIZE(allocsize)
EntryCount(size) == PageWords \div REAL_ENTRY_SIZE(size)
entrycount == EntryCount(allocsize)
Index == 0..(entrycount - 1)

(* A variant that takes the start of the entry for the metadata. *)
MetaAtEntryStart(i)        == i * realsize
getMetaEntryAtIndex(i)     == i * realsize + canary
getFreelistEntryAtIndex(i) == i * realsize
getIndexForObjectInPage(a) == a \div realsize

ObjectOf(meta) == meta + MetaWords
MetaOf(obj)    == obj - MetaWords

(* isalloc of the metadata at address meta, which may lie past the page. *)
IsAlloc(meta) ==
  LET flags == meta + 1 IN
  IF flags \notin Address \/ mem[flags].is \notin {"alloc", "free", "zero"}
    THEN BOOLEAN ELSE {mem[flags].is = "alloc"}

(* What checkPotentialPtr makes of address a: an object, or none. *)
checkPotentialPtr(a) ==
  LET meta == getMetaEntryAtIndex(getIndexForObjectInPage(a))
  IN {IF found THEN ObjectOf(meta) ELSE Nullptr : found \in IsAlloc(meta)}

(* RESET_METADATA_FOR_OBJECT *)
Reset(m, meta) ==
  [m EXCEPT ![meta] = Plain("zero"), ![meta + 1] = Plain("free"), ![meta + 2] = Plain("zero")]

(* A freelist through the entries of set I, lowest first. *)
Linked(m, I, size) ==
  LET real == REAL_ENTRY_SIZE(size)
      After(i) == {j \in I : j > i}
      First(J) == IF J = {} THEN Nullptr
                  ELSE (CHOOSE i \in J : \A j \in J : i <= j) * real
  IN [list |-> First(I),
      mem |-> [a \in DOMAIN m |->
                 IF a % real = 0 /\ a \div real \in I
                   THEN Link(First(After(a \div real))) ELSE m[a]]]

-----------------------------------------------------------------------------
(***************************************************************************)
(* PageInfo::initialize on the words of m, for objects of a size.          *)
(***************************************************************************)
InitialisedFrom(m, size) ==
  Linked(m, 0..(EntryCount(size) - 1), size)

Init ==
  /\ canary \in CanarySizes
  /\ allocsize \in {s \in AllocSizes : EntryCount(s) > 0}
  /\ LET page == InitialisedFrom([a \in Address |-> Plain("zero")], allocsize)
     IN mem = page.mem /\ freelist = page.list
  /\ freecount = entrycount
  /\ objects = {}

(* A page without objects goes to empty_pages and comes back. *)
Reuse(size) ==
  /\ objects = {}
  /\ EntryCount(size) > 0
  /\ LET page == InitialisedFrom(mem, size)
     IN mem' = page.mem /\ freelist' = page.list
  /\ allocsize' = size
  /\ freecount' = EntryCount(size)
  /\ UNCHANGED <<canary, objects>>

(* initializeWithDebugInfo writes one word of each canary; a variant has   *)
(* the canary behind the object too early.                                 *)
PostEarly(entry) == entry + canary + allocsize
Post(entry)      == entry + canary + MetaWords + allocsize

Canaries(entry) == IF canary = 0 THEN {} ELSE {entry, Post(entry)}

(* allocate and allocateEvacuation; then the program fills the object. *)
Allocate ==
  /\ freelist \in Address /\ mem[freelist].is = "link"
  /\ LET entry == freelist
         meta  == entry + canary
         obj   == ObjectOf(meta)
     IN /\ freelist' = mem[entry].next
        /\ mem' = [a \in Address |->
                     IF a \in Canaries(entry) THEN Plain("canary")
                     ELSE IF a = meta + 1 THEN Plain("alloc")
                     ELSE IF a = meta + 2 THEN Plain("zero")
                     ELSE IF a = meta \/ a \in obj..(obj + allocsize - 1) THEN Plain("other")
                     ELSE mem[a]]
        /\ objects' = objects \cup {obj}
  /\ freecount' = freecount - 1
  /\ UNCHANGED <<canary, allocsize>>

(* processDecrements frees an object. *)
FreeObject(obj) ==
  /\ obj \in objects
  /\ mem' = [mem EXCEPT ![MetaOf(obj)] = Link(freelist), ![MetaOf(obj) + 1] = Plain("free")]
  /\ freelist' = MetaOf(obj)
  /\ freecount' = freecount + 1
  /\ objects' = objects \ {obj}
  /\ UNCHANGED <<canary, allocsize>>

(* An object is moved to another page: its entry is reset and free, but on *)
(* no freelist until the page is rebuilt.                                  *)
MoveAway(obj) ==
  /\ obj \in objects
  /\ mem' = Reset(mem, MetaOf(obj))
  /\ objects' = objects \ {obj}
  /\ UNCHANGED <<canary, allocsize, freelist, freecount>>

(* PageInfo::rebuild, when the survivors are kept.  Entry i is freed if it *)
(* reads as not allocated, or as one that is not to be kept.               *)
Dead(survivors) ==
  {i \in Index : \/ TRUE \notin IsAlloc(getMetaEntryAtIndex(i))
                 \/ \A obj \in survivors : getIndexForObjectInPage(obj) # i}

Cleared(m, I) ==
  [a \in Address |->
     LET i == getIndexForObjectInPage(a)
         k == a - getMetaEntryAtIndex(i)
     IN IF i \in I /\ k \in {0, 1, 2}
          THEN Plain(IF k = 1 THEN "free" ELSE "zero") ELSE m[a]]

(* The metadata are reset before the link is written, which lies in their  *)
(* first word in a build without canaries; a variant resets them after it. *)
LinkedThenCleared(m, I) ==
  LET page == Linked(m, I, allocsize)
  IN [list |-> page.list, mem |-> Cleared(page.mem, I)]
Rebuilt(m, I) == Linked(Cleared(m, I), I, allocsize)

Rebuild(survivors) ==
  /\ survivors \subseteq objects
  /\ LET page == Rebuilt(mem, Dead(survivors))
     IN mem' = page.mem /\ freelist' = page.list
  /\ freecount' = Cardinality(Dead(survivors))
  /\ objects' = survivors
  /\ UNCHANGED <<canary, allocsize>>

Next ==
  \/ Allocate
  \/ \E obj \in objects : FreeObject(obj) \/ MoveAway(obj)
  \/ \E survivors \in SUBSET objects : Rebuild(survivors)
  \/ \E size \in AllocSizes : Reuse(size)

Spec == Init /\ [][Next]_vars

(***************************************************************************)
(* The code relies on three things that it does not see to.  A build with  *)
(* canaries frees nothing by reference counts; a page is used again for    *)
(* objects of the same size only; and the words behind the last entry are  *)
(* none, or enough for the flags that a scan reads there.                  *)
(***************************************************************************)
TailReadable(size) ==
  PageWords % REAL_ENTRY_SIZE(size) = 0 \/ PageWords % REAL_ENTRY_SIZE(size) > canary + 1

RestrictedNext ==
  \/ Allocate
  \/ \E obj \in objects : (canary = 0 /\ FreeObject(obj)) \/ MoveAway(obj)
  \/ \E survivors \in SUBSET objects : Rebuild(survivors)
  \/ Reuse(allocsize)

RestrictedInit == Init /\ TailReadable(allocsize)

RestrictedSpec == RestrictedInit /\ [][RestrictedNext]_vars

-----------------------------------------------------------------------------
(***************************************************************************)
(* Properties.                                                             *)
(***************************************************************************)
(***************************************************************************)
(* A conservative scan (checkPotentialPtr) finds the object whose entry    *)
(* the word points into, and nothing where no object is: in a free entry,  *)
(* in the words of a freelist link, or behind the last entry.              *)
(***************************************************************************)
ScanFindsTheObject ==
  \A a \in 0..(PageWords - 1) :
    checkPotentialPtr(a) =
      {LET found == {obj \in objects :
                       getIndexForObjectInPage(obj) = getIndexForObjectInPage(a)}
       IN IF found = {} THEN Nullptr ELSE CHOOSE obj \in found : TRUE}

(* What one comes to from freelist by following k links. *)
FollowFreelist ==
  LET at[k \in 0..freecount] ==
        IF k = 0 THEN freelist
        ELSE LET a == at[k - 1] IN IF a \in Address THEN mem[a].next ELSE Nullptr
  IN at

(***************************************************************************)
(* The freelist runs through freecount different entries, from the start   *)
(* of each, and through none that an object lies in: no write of an        *)
(* allocation, a free or a reset destroys a link.                          *)
(***************************************************************************)
FreelistIntact ==
  LET at   == FollowFreelist
      free == {at[k] : k \in 0..(freecount - 1)}
  IN /\ at[freecount] = Nullptr
     /\ Cardinality(free) = freecount
     /\ \A a \in free :
          /\ \E i \in Index : a = getFreelistEntryAtIndex(i)
          /\ mem[a].is = "link"
          /\ \A obj \in objects : getIndexForObjectInPage(obj) # getIndexForObjectInPage(a)

(***************************************************************************)
(* No allocation writes past its entry: an object lies between its own     *)
(* canaries, which are intact, and the page behind is not touched          *)
(* (initializeWithDebugInfo, SETUP_ALLOC_LAYOUT_GET_OBJ_PTR).              *)
(***************************************************************************)
ObjectsBetweenCanaries ==
  /\ mem[PageWords] = Plain("zero")
  /\ \A obj \in objects :
       LET entry == getFreelistEntryAtIndex(getIndexForObjectInPage(obj)) IN
       /\ obj + allocsize + canary = entry + realsize
       /\ canary > 0 => mem[entry].is = "canary" /\ mem[obj + allocsize].is = "canary"

(***************************************************************************)
(* What common.h:129 says of the metadata: the alloc info of every entry   *)
(* is valid, whether the entry holds an object or is on the freelist.      *)
(***************************************************************************)
AllocInfoIsValid ==
  \A i \in Index :
    IsAlloc(getMetaEntryAtIndex(i)) =
      {\E obj \in objects : getIndexForObjectInPage(obj) = i}
=============================================================================
