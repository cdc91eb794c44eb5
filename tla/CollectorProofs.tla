--------------------------- MODULE CollectorProofs ---------------------------
(***************************************************************************)
(* Proofs about module Collector.  EntryInv is what every program keeps:   *)
(* the types, and no entry is lost.  CarefulInv is what the programs keep  *)
(* for which the code is right: identities and generations, what the roots *)
(* and marks of a collection stand for, exact counts, and that all garbage *)
(* is known.  It is inductive with CarefulSpec; from it follow that the    *)
(* counts are exact between collections, that what the program holds stays *)
(* allocated, that the rest is freed, and that a collection is invisible:  *)
(* CarefulSpec implements ObjectGraph.                                     *)
(***************************************************************************)
EXTENDS Collector, HeapProofs

(* The phases before evacuation and after it, until the pages are rebuilt. *)
BeforeMoving == {"evacuate", "aborted"}
AfterMoving  == {"computeDeadRoots", "processDecrements", "rebuild"}

(* An entry is free, or holds an object, or was left by one that moved and *)
(* is on a page that is about to be rebuilt, where all young objects are.  *)
Entries ==
  /\ \A o \in freelist : ~isalloc[o]
  /\ \A o \in Obj : ~isalloc[o] /\ o \notin freelist =>
       pc \in AfterMoving /\ PageOf[o] \in CollectedPages
  /\ \A o \in Obj : isyoung[o] => PageOf[o] \in CollectedPages
  /\ \A o \in Obj : ~isalloc[o] => slots[o] = <<>>
  /\ \A o \in Obj : slots[o] \in Seq(Obj)

(* Young roots are marked, and only young objects are; none is left when   *)
(* the pages have been rebuilt.                                            *)
Marks ==
  /\ pc \in BeforeMoving =>
       \A o \in Obj : /\ ismarked[o] => isalloc[o] /\ isyoung[o]
                      /\ isroot[o] /\ isyoung[o] => ismarked[o]
  /\ pc \in AfterMoving => \A o \in Obj : isyoung[o] => ~ismarked[o] /\ ~isroot[o]
  /\ pc = "end" => \A o \in Obj : ~isyoung[o]

(* What holds whatever the program does. *)
EntryInv == CollectorTypeOK /\ Entries /\ Marks

(* An object points to older ones only. *)
Pointers ==
  /\ \A o \in Obj : Len(slots[o]) <= MaxSlots
  /\ \A o \in Obj : \A c \in Children(o) : ident[c] < ident[o]
  /\ \A o \in Obj : ident[o] <= created

(* No object is at two addresses. *)
Identities ==
  /\ \A o \in Obj : isalloc[o] => ident[o] > 0
  /\ \A o, p \in Obj : isalloc[o] /\ isalloc[p] /\ ident[o] = ident[p] => o = p

(* Nothing that counts refers to a young object. *)
Generations ==
  /\ \A o \in Obj : isyoung[o] => isalloc[o] /\ ref_count[o] = 0
  /\ \A o \in Obj : IsOld(o) => \A c \in Children(o) : ~isyoung[c]
  /\ \A o \in Range(pending_decs) : ~isyoung[o]
  /\ \A o \in old_roots : IsOld(o)

(* What a collection knows of the program's variables. *)
Roots ==
  /\ \A o \in Obj : isroot[o] <=> o \in roots
  /\ roots = IF pc = "mutator" THEN {} ELSE held
  /\ pc \in BeforeMoving \cup AfterMoving =>
       \A o \in Obj : IsOld(o) /\ PageOf[o] \in CollectedPages => isroot[o]
  /\ pc \in AfterMoving \cup {"end"} => \A o \in Seen : ~isyoung[o]
  /\ pc \in {"processDecrements", "rebuild", "end"} => old_roots = {}

(* The marked objects are the young ones in use; each is a root, or is     *)
(* found in another.                                                       *)
Marked ==
  pc \in BeforeMoving =>
    /\ \A o \in Seen : isyoung[o] => ismarked[o]
    /\ \A o \in Obj : ismarked[o] =>
         /\ o \in Seen
         /\ \A c \in Children(o) : isyoung[c] => ismarked[c]
         /\ isroot[o] \/ \E x \in Obj : ismarked[x] /\ o \in Children(x)

(* What is in use is not to be freed. *)
LiveOnesStay ==
  /\ \A o \in Seen : isalloc[o] /\ o \notin Range(pending_decs)
  /\ pc \in {"evacuate", "computeDeadRoots"} => old_roots \cap Seen \subseteq roots

(* What nothing old refers to is a root, or was one, or is to be freed. *)
GarbageIsKnown ==
  \A o \in Obj : IsOld(o) =>
    isroot[o] \/ o \in old_roots \/ o \in Range(pending_decs) \/ ref_count[o] > 0

(* What holds of the programs for which the code is right. *)
CarefulInv ==
  /\ EntryInv
  /\ Pointers
  /\ Identities
  /\ Generations
  /\ Roots
  /\ Marked
  /\ LiveOnesStay
  /\ CountsExact
  /\ GarbageIsKnown

-----------------------------------------------------------------------------
(***************************************************************************)
(* What the walk finds.                                                    *)
(***************************************************************************)

(* The walk finds what it starts from, and the young children of what it   *)
(* finds, and nothing else: each has been started from, or is a child.     *)
LEMMA FoundFacts ==
  ASSUME NEW young \in SUBSET Obj, NEW From \in SUBSET young
  PROVE  /\ FoundFrom(From, young) \subseteq young
         /\ From \subseteq FoundFrom(From, young)
         /\ \A o \in FoundFrom(From, young) :
              Children(o) \cap young \subseteq FoundFrom(From, young)
         /\ \A o \in FoundFrom(From, young) :
              o \in From \/ \E x \in FoundFrom(From, young) : o \in Children(x)
<1> DEFINE F == FoundFrom(From, young)
<1>1. /\ F \subseteq young
      /\ From \subseteq F
      /\ \A o \in F : Children(o) \cap young \subseteq F
  BY DEF FoundFrom
<1>2. ASSUME NEW o \in F, o \notin From, \A x \in F : o \notin Children(x)
      PROVE  FALSE
  <2> DEFINE S == F \ {o}
  <2>1. S \in SUBSET young /\ From \subseteq S
    BY <1>1, <1>2
  <2>2. \A x \in S : Children(x) \cap young \subseteq S
    BY <1>1, <1>2
  <2>3. F \subseteq S
    <3> HIDE DEF S
    <3> QED
      BY <2>1, <2>2 DEF FoundFrom
  <2> QED
    BY <2>3
<1> QED
  BY <1>1, <1>2

(* What is closed and holds the start holds all that the walk finds.       *)
LEMMA FoundLeast ==
  ASSUME NEW young, NEW From, NEW S,
         From \subseteq S, \A o \in S \cap young : Children(o) \cap young \subseteq S,
         From \subseteq young
  PROVE  FoundFrom(From, young) \subseteq S
<1>1. /\ S \cap young \in SUBSET young
      /\ From \subseteq S \cap young
      /\ \A o \in S \cap young : Children(o) \cap young \subseteq S \cap young
  OBVIOUS
<1> QED
  BY <1>1, Zenon DEF FoundFrom

-----------------------------------------------------------------------------
(***************************************************************************)
(* The decrements for the slots of an object, one after the other.         *)
(***************************************************************************)

(* The counts and pending_decs when k slots are done, from what they were. *)
AfterSlot(after, k, obj) ==
  IF k = 0 THEN [count |-> ref_count, pending |-> Tail(pending_decs)]
  ELSE DecrementSlot(after[k - 1], slots[obj][k])

(* They exist up to any number of slots.                                   *)
LEMMA AfterSlotExists ==
  ASSUME NEW obj
  PROVE  \A n \in Nat : \E f : f = [k \in 0..n |-> AfterSlot(f, k, obj)]
<1> DEFINE IsUpTo(f, n) == f = [k \in 0..n |-> AfterSlot(f, k, obj)]
           T == {n \in Nat : \E f : IsUpTo(f, n)}
<1>1. 0 \in T
  <2> DEFINE f == [k \in 0..0 |-> [count |-> ref_count, pending |-> Tail(pending_decs)]]
  <2>1. \A k \in 0..0 : k = 0
    OBVIOUS
  <2>2. IsUpTo(f, 0)
    BY <2>1, Zenon DEF AfterSlot
  <2> QED
    BY <2>2
<1>2. ASSUME NEW n \in Nat, n \in T PROVE n + 1 \in T
  <2>1. PICK f : IsUpTo(f, n)
    BY <1>2
  <2> DEFINE e == [k \in 0..(n + 1) |->
                     IF k \in 0..n THEN f[k] ELSE DecrementSlot(f[k - 1], slots[obj][k])]
  <2>2. ASSUME NEW k \in 0..(n + 1)
        PROVE  e[k] = AfterSlot(e, k, obj)
    <3>1. CASE k = 0
      <4>1. 0 \in 0..n /\ 0 \in 0..(n + 1)
        OBVIOUS
      <4>2. e[k] = f[k] /\ f[k] = AfterSlot(f, k, obj)
        BY <3>1, <4>1, <2>1, Zenon
      <4> QED
        BY <3>1, <4>2, Zenon DEF AfterSlot
    <3>2. CASE k # 0
      <4>1. k - 1 \in 0..n /\ k - 1 \in 0..(n + 1)
        BY <3>2
      <4>2. e[k - 1] = f[k - 1]
        BY <4>1, Zenon
      <4>3. e[k] = DecrementSlot(f[k - 1], slots[obj][k])
        <5>1. k \in 0..n => f[k] = DecrementSlot(f[k - 1], slots[obj][k])
          BY <2>1, <3>2, Zenon DEF AfterSlot
        <5> QED
          BY <5>1, Zenon
      <4> HIDE DEF e
      <4> QED
        BY <3>2, <4>2, <4>3, Zenon DEF AfterSlot
    <3> QED
      BY <3>1, <3>2
  <2>3. IsUpTo(e, n + 1)
    <3>1. e = [k \in 0..(n + 1) |-> e[k]]
      BY Zenon
    <3> HIDE DEF e
    <3> QED
      BY <3>1, <2>2, Zenon
  <2>4. n + 1 \in Nat
    OBVIOUS
  <2> HIDE DEF e, IsUpTo
  <2> QED
    BY <2>3, <2>4, Zenon
<1>3. \A n \in Nat : n \in T
  <2> HIDE DEF T
  <2> QED
    BY <1>1, <1>2, SetInduction, Zenon
<1> QED
  BY <1>3, Zenon

(* So Decremented is the last of them. *)
LEMMA DecrementedIsLast ==
  ASSUME NEW obj, slots[obj] \in Seq(Obj)
  PROVE  \E f : /\ f[0] = [count |-> ref_count, pending |-> Tail(pending_decs)]
                /\ \A k \in 1..Len(slots[obj]) :
                     f[k] = DecrementSlot(f[k - 1], slots[obj][k])
                /\ Decremented(obj) = f[Len(slots[obj])]
<1> DEFINE n == Len(slots[obj])
           f == CHOOSE After : After = [k \in 0..n |->
                  IF k = 0 THEN [count |-> ref_count, pending |-> Tail(pending_decs)]
                  ELSE DecrementSlot(After[k - 1], slots[obj][k])]
<1>1. n \in Nat
  BY LenProperties
<1>2. f = [k \in 0..n |-> AfterSlot(f, k, obj)]
  <2> HIDE DEF n
  <2>1. PICK g : g = [k \in 0..n |-> AfterSlot(g, k, obj)]
    BY <1>1, AfterSlotExists, Zenon
  <2> QED
    BY <2>1, Zenon DEF AfterSlot
<1>3. Decremented(obj) = f[n]
  BY Zenon DEF Decremented
<1> HIDE DEF f, n
<1>4. \A k \in 0..n : f[k] = AfterSlot(f, k, obj)
  BY <1>2, Zenon
<1>5. 0 \in 0..n /\ \A k \in 1..n : k \in 0..n /\ k # 0
  BY <1>1
<1>6. f[0] = [count |-> ref_count, pending |-> Tail(pending_decs)]
  BY <1>4, <1>5, Zenon DEF AfterSlot
<1>7. \A k \in 1..n : f[k] = DecrementSlot(f[k - 1], slots[obj][k])
  BY <1>4, <1>5, Zenon DEF AfterSlot
<1> QED
  BY <1>3, <1>6, <1>7 DEF n

(* A count that fits its width is decremented to a number one smaller.     *)
LEMMA CountFacts ==
  /\ RefModulus \in Nat /\ RefModulus > 0
  /\ \A n \in Nat : (n + RefModulus - 1) % RefModulus \in Nat
  /\ \A n \in Nat : n > 0 /\ n < RefModulus => (n + RefModulus - 1) % RefModulus = n - 1
<1> DEFINE c == Cardinality(Obj)
<1>1. c \in Nat /\ MaxSlots \in Nat /\ RefModulus \in Nat /\ c * MaxSlots < RefModulus
  BY HeapAssumption, FS_CardinalityType, CollectorAssumption, CountAssumption
<1> HIDE DEF c
<1>2. c * MaxSlots \in Nat
  BY <1>1
<1> HIDE DEF c
<1>3. RefModulus > 0
  <2> DEFINE x == c * MaxSlots
  <2>1. x \in Nat /\ x < RefModulus
    BY <1>1, <1>2
  <2> HIDE DEF x
  <2> QED
    BY <2>1, <1>1
<1>4. ASSUME NEW n \in Nat
      PROVE  /\ (n + RefModulus - 1) % RefModulus \in Nat
             /\ n > 0 /\ n < RefModulus => (n + RefModulus - 1) % RefModulus = n - 1
  <2>1. PICK M \in Nat : M = RefModulus /\ M > 0
    BY <1>1, <1>3
  <2>2. n + M - 1 \in Nat
    BY <2>1
  <2>3. (n + M - 1) % M \in 0..(M - 1)
    BY <2>1, <2>2
  <2>4. n > 0 /\ n < M => (n + M - 1) % M = n - 1
    BY <2>1
  <2> QED
    BY <2>1, <2>3, <2>4
<1> QED
  BY <1>1, <1>3, <1>4

(* The types of what a decrement leaves. *)
DecTypes(d) == d.count \in [Obj -> Nat] /\ d.pending \in Seq(Obj)

(* What one decrement does. *)
LEMMA SlotTypes ==
  ASSUME NEW d, DecTypes(d), NEW p \in Obj
  PROVE  DecTypes(DecrementSlot(d, p))
<1> DEFINE count == [d.count EXCEPT ![p] = (@ + RefModulus - 1) % RefModulus]
<1>1. count \in [Obj -> Nat]
  BY CountFacts DEF DecTypes
<1>2. Append(d.pending, p) \in Seq(Obj) /\ d.pending \in Seq(Obj)
  BY AppendFacts DEF DecTypes
<1>3. DecrementSlot(d, p).count = count
  BY DEF DecrementSlot
<1>4. DecrementSlot(d, p).pending \in {d.pending, Append(d.pending, p)}
  BY DEF DecrementSlot
<1> QED
  BY <1>1, <1>2, <1>3, <1>4 DEF DecTypes

(* What the decrements for all slots of an object leave. *)
LEMMA DecrementedTypes ==
  ASSUME ref_count \in [Obj -> Nat], pending_decs \in Seq(Obj), pending_decs # <<>>,
         NEW obj, slots[obj] \in Seq(Obj)
  PROVE  DecTypes(Decremented(obj))
<1> DEFINE n == Len(slots[obj])
<1>1. PICK f : /\ f[0] = [count |-> ref_count, pending |-> Tail(pending_decs)]
               /\ \A k \in 1..n : f[k] = DecrementSlot(f[k - 1], slots[obj][k])
               /\ Decremented(obj) = f[n]
  BY DecrementedIsLast
<1>2. n \in Nat /\ \A k \in 1..n : slots[obj][k] \in Obj
  BY SeqIndices
<1> DEFINE T == {k \in Nat : k <= n => DecTypes(f[k])}
<1>3. 0 \in T
  <2>1. Tail(pending_decs) \in Seq(Obj)
    BY PopFrontFacts
  <2>2. DecTypes([count |-> ref_count, pending |-> Tail(pending_decs)])
    BY <2>1 DEF DecTypes
  <2>3. DecTypes(f[0])
    BY <1>1, <2>2, Zenon
  <2> QED
    BY <2>3
<1> HIDE DEF n
<1>4. ASSUME NEW k \in Nat, k \in T PROVE k + 1 \in T
  <2> SUFFICES ASSUME k + 1 <= n PROVE DecTypes(f[k + 1])
    OBVIOUS
  <2>1. k + 1 \in 1..n /\ (k + 1) - 1 = k /\ k <= n
    BY <1>2
  <2>2. f[k + 1] = DecrementSlot(f[k], slots[obj][k + 1])
    BY <1>1, <2>1
  <2>3. DecTypes(f[k]) /\ slots[obj][k + 1] \in Obj
    BY <1>2, <1>4, <2>1
  <2> QED
    BY <2>2, <2>3, SlotTypes
<1>5. \A k \in Nat : k \in T
  <2> HIDE DEF T
  <2> QED
    BY <1>3, <1>4, SetInduction, Zenon
<1>6. n \in T
  BY <1>2, <1>5
<1> QED
  BY <1>1, <1>2, <1>6

-----------------------------------------------------------------------------
(***************************************************************************)
(* Entries, whatever the program does.                                     *)
(***************************************************************************)

(* Nothing is allocated at first. *)
LEMMA EntryInit == Init => EntryInv
<1> SUFFICES ASSUME Init PROVE EntryInv
  OBVIOUS
<1>1. MaxObjects \in Nat /\ max_decrement_count \in Nat
  BY CollectorAssumption
<1>2. <<>> \in Seq(Obj) /\ <<>> \in Seq(Obj \cup {NULL})
  OBVIOUS
<1>3. HeapTypeOK
  BY <1>2 DEF Init, HeapTypeOK
<1>4. CollectorTypeOK
  BY <1>1, <1>2, <1>3 DEF Init, CollectorTypeOK, Phases
<1>5. Entries
  BY <1>2 DEF Init, Entries
<1>6. Marks
  BY DEF Init, Marks, BeforeMoving, AfterMoving
<1> QED
  BY <1>4, <1>5, <1>6 DEF EntryInv

(* What is reachable from the program's variables is objects. *)
LEMMA SeenType == Seen \subseteq Obj
BY DEF Seen, ReachableFrom

(* The pointers of a new object. *)
LEMMA SlotsOverType ==
  ASSUME NEW S \in SUBSET Obj, NEW s \in SlotsOver(S)
  PROVE  s \in Seq(S) /\ s \in Seq(Obj) /\ Len(s) <= MaxSlots
<1>1. PICK n \in 0..MaxSlots : s \in [1..n -> S]
  BY DEF SlotsOver
<1>2. n \in Nat /\ n <= MaxSlots
  BY CollectorAssumption
<1>3. s \in Seq(S) /\ s \in Seq(Obj) /\ Len(s) = n
  BY <1>1, <1>2
<1> QED
  BY <1>2, <1>3

(* A wider type for slots. *)
LEMMA SlotsWider == Seq(Obj) \subseteq Seq(Obj \cup {NULL})
OBVIOUS

(* A new object is on the page that is allocated from. *)
LEMMA EntryNew ==
  ASSUME EntryInv, NEW o \in Obj, NEW s \in SlotsOver(Seen), New(o, s)
  PROVE  EntryInv'
<1> USE DEF EntryInv
<1>1. s \in Seq(Obj) /\ s \in Seq(Obj \cup {NULL})
  BY SeenType, SlotsOverType, SlotsWider
<1>2. created + 1 \in 0..MaxObjects
  BY CollectorAssumption DEF New, CollectorTypeOK
<1>3. HeapTypeOK'
  BY <1>1 DEF New, CollectorTypeOK, HeapTypeOK
<1>4. CollectorTypeOK'
  <2>1. ident' \in [Obj -> 0..MaxObjects]
    BY <1>2 DEF New, CollectorTypeOK
  <2> QED
    BY <1>2, <1>3, <2>1 DEF New, CollectorTypeOK, decVars
<1>5. Entries'
  BY <1>1, <1>3 DEF New, Entries, CollectorTypeOK, HeapTypeOK, CollectedPages, AfterMoving
<1>6. Marks'
  BY DEF New, Marks, BeforeMoving, AfterMoving
<1> QED
  BY <1>4, <1>5, <1>6

(* Refreshing the allocator's page moves no object. *)
LEMMA EntryRefresh ==
  ASSUME EntryInv, NEW p \in Page, Refresh(p)
  PROVE  EntryInv'
<1> USE DEF EntryInv
<1>1. CollectorTypeOK'
  BY DEF Refresh, CollectorTypeOK, HeapTypeOK, heapVars, decVars, histVars
<1>2. Entries'
  <2>1. \A o \in Obj : PageOf[o] \in CollectedPages => PageOf[o] \in CollectedPages'
    BY CollectorAssumption DEF Refresh, CollectedPages
  <2> QED
    BY <2>1 DEF Refresh, Entries, heapVars, AfterMoving
<1>3. Marks'
  BY DEF Refresh, Marks, BeforeMoving, AfterMoving
<1> QED
  BY <1>1, <1>2, <1>3

(* Marking: what is marked, and which roots are. *)
LEMMA MarkShape ==
  ASSUME EntryInv, NEW S \in SUBSET Seen, Mark(S)
  PROVE  /\ pc = "mutator" /\ pc' = "evacuate" /\ held' = S
         /\ UNCHANGED <<isalloc, isyoung, ref_count, slots, pageVars, decVars, histVars>>
         /\ roots' = {o \in S : isalloc[o]}
         /\ \A o \in Obj : isroot'[o] <=> o \in roots'
         /\ ismarked' \in [Obj -> BOOLEAN] /\ isroot' \in [Obj -> BOOLEAN]
         /\ \E young \in SUBSET Obj :
              /\ young = {o \in Obj : isalloc[o] /\ isyoung[o]}
              /\ \A o \in Obj : ismarked'[o] <=> o \in FoundFrom(roots' \cap young, young)
<1>1. PICK Y : Y = {o \in Obj : isalloc[o] /\ isyoung[o]}
  OBVIOUS
<1>2. PICK F : F = FoundFrom(roots' \cap Y, Y)
  OBVIOUS
<1>3. ismarked' = [o \in Obj |-> o \in F]
  BY <1>1, <1>2, Zenon DEF Mark
<1>4. ismarked' \in [Obj -> BOOLEAN] /\ \A o \in Obj : ismarked'[o] <=> o \in F
  BY <1>3, FlagFacts, Zenon
<1>5. /\ pc = "mutator" /\ pc' = "evacuate" /\ held' = S
      /\ UNCHANGED <<isalloc, isyoung, ref_count, slots, pageVars, decVars, histVars>>
      /\ roots' = {o \in S : isalloc[o]}
      /\ \A o \in Obj : isroot'[o] <=> o \in roots'
      /\ isroot' \in [Obj -> BOOLEAN]
  <2>1. isroot' = [o \in Obj |-> o \in roots']
    BY DEF Mark
  <2>2. isroot' \in [Obj -> BOOLEAN] /\ \A o \in Obj : isroot'[o] <=> o \in roots'
    BY <2>1, FlagFacts, Zenon
  <2> QED
    BY <2>2 DEF Mark
<1>6. Y \in SUBSET Obj /\ \A o \in Obj : ismarked'[o] <=> o \in FoundFrom(roots' \cap Y, Y)
  BY <1>1, <1>2, <1>4
<1>7. \E young \in SUBSET Obj :
        /\ young = {o \in Obj : isalloc[o] /\ isyoung[o]}
        /\ \A o \in Obj : ismarked'[o] <=> o \in FoundFrom(roots' \cap young, young)
  BY <1>1, <1>6, Zenon
<1> QED
  BY <1>4, <1>5, <1>7, Zenon

LEMMA EntryMark ==
  ASSUME EntryInv, NEW S \in SUBSET Seen, Mark(S)
  PROVE  EntryInv'
<1> USE DEF EntryInv
<1>0. S \in SUBSET Obj
  BY SeenType
<1>1. /\ pc = "mutator" /\ pc' = "evacuate" /\ held' = S
      /\ UNCHANGED <<isalloc, isyoung, ref_count, slots, pageVars, decVars, histVars>>
      /\ roots' = {o \in S : isalloc[o]}
      /\ \A o \in Obj : isroot'[o] <=> o \in roots'
      /\ ismarked' \in [Obj -> BOOLEAN] /\ isroot' \in [Obj -> BOOLEAN]
  BY MarkShape
<1>2. PICK young \in SUBSET Obj :
         /\ young = {o \in Obj : isalloc[o] /\ isyoung[o]}
         /\ \A o \in Obj : ismarked'[o] <=> o \in FoundFrom(roots' \cap young, young)
  BY MarkShape
<1>3. CollectorTypeOK'
  BY <1>0, <1>1 DEF CollectorTypeOK, HeapTypeOK, pageVars, decVars, histVars, Phases
<1>4. Entries'
  <2>1. CollectedPages' = CollectedPages
    BY <1>1 DEF CollectedPages, pageVars
  <2> QED
    BY <1>1, <2>1 DEF Entries, pageVars, AfterMoving
<1>5. Marks'
  <2> DEFINE F == FoundFrom(roots' \cap young, young)
  <2>1. F \subseteq young /\ roots' \cap young \subseteq F
    <3>1. roots' \cap young \in SUBSET young
      OBVIOUS
    <3> QED
      BY <3>1, FoundFacts
  <2>2. \A o \in Obj : ismarked'[o] => isalloc'[o] /\ isyoung'[o]
    BY <1>1, <1>2, <2>1
  <2>3. \A o \in Obj : isroot'[o] /\ isyoung'[o] => ismarked'[o]
    BY <1>1, <1>2, <2>1
  <2> QED
    BY <1>1, <2>2, <2>3 DEF Marks, BeforeMoving, AfterMoving
<1> QED
  BY <1>3, <1>4, <1>5

(* What updatePointers makes of an object's slots. *)
Forwarded(to, s) == [i \in DOMAIN s |-> IF s[i] \in ToMove THEN to[s[i]] ELSE s[i]]

(* The slots of promoted objects that lead to o from now on.               *)
NewRefs(to, o) ==
  {r \in Promoted(Range(to)) \X (1..MaxSlots) :
     r[2] \in DOMAIN slots'[r[1]] /\ slots'[r[1]][r[2]] = o}

(* What moves is young, and moves to free entries. *)
LEMMA MovedFacts ==
  ASSUME EntryInv, pc = "evacuate", NEW to \in [ToMove -> EvacTargets]
  PROVE  /\ \A x \in ToMove : /\ x \in Obj /\ isalloc[x] /\ isyoung[x]
                              /\ ismarked[x] /\ ~isroot[x]
                              /\ PageOf[x] \in CollectedPages
                              /\ to[x] \in Range(to)
         /\ \A o \in Range(to) : /\ o \in Obj /\ o \in freelist /\ ~isalloc[o]
                                 /\ ~ismarked[o] /\ o \notin ToMove
                                 /\ PageOf[o] \notin CollectedPages
                                 /\ \E x \in ToMove : o = to[x]
<1> USE DEF EntryInv
<1>1. ASSUME NEW x \in ToMove
      PROVE  /\ x \in Obj /\ isalloc[x] /\ isyoung[x] /\ ismarked[x] /\ ~isroot[x]
             /\ PageOf[x] \in CollectedPages
             /\ to[x] \in Range(to)
  BY DEF ToMove, Marks, BeforeMoving, Entries, Range
<1>2. ASSUME NEW o \in Range(to)
      PROVE  /\ o \in Obj /\ o \in freelist /\ ~isalloc[o] /\ ~ismarked[o] /\ o \notin ToMove
             /\ PageOf[o] \notin CollectedPages
             /\ \E x \in ToMove : o = to[x]
  <2>1. PICK x \in ToMove : o = to[x]
    BY DEF Range
  <2>2. o \in freelist /\ InBuckets(PageOf[o])
    BY <2>1 DEF EvacTargets
  <2>3. o \in Obj /\ ~isalloc[o]
    BY <2>2 DEF CollectorTypeOK, Entries
  <2>4. ~ismarked[o]
    BY <2>3 DEF Marks, BeforeMoving
  <2>5. PageOf[o] \notin CollectedPages
    BY <2>2 DEF InBuckets, CollectedPages
  <2> QED
    BY <2>1, <2>2, <2>3, <2>4, <2>5 DEF ToMove
<1> QED
  BY <1>1, <1>2

(* Evacuation: the flags and freelists. *)
LEMMA EvacuateFlags ==
  ASSUME EntryInv, NEW to \in [ToMove -> EvacTargets], Evacuate(to)
  PROVE  /\ pc = "evacuate" /\ pc' = "computeDeadRoots"
         /\ UNCHANGED <<isroot, roots, held, alloc_page, pendinggc_pages, decVars, created>>
         /\ IsInjective(to)
         /\ freelist' = freelist \ Range(to)
         /\ isalloc' \in [Obj -> BOOLEAN]
         /\ isyoung' \in [Obj -> BOOLEAN]
         /\ ismarked' \in [Obj -> BOOLEAN]
         /\ \A o \in Obj :
              /\ isalloc'[o] <=> o \in Range(to) \/ (isalloc[o] /\ o \notin ToMove)
              /\ isyoung'[o] <=> isyoung[o] /\ ~ismarked[o] /\ o \notin Range(to)
              /\ ismarked'[o] <=> ismarked[o] /\ isroot[o] /\ o \notin Range(to)
<1>1. /\ pc = "evacuate" /\ pc' = "computeDeadRoots"
      /\ UNCHANGED <<isroot, roots, held, alloc_page, pendinggc_pages, decVars, created>>
      /\ IsInjective(to)
      /\ freelist' = freelist \ Range(to)
      /\ isalloc' = [o \in Obj |-> o \in Range(to) \/ (isalloc[o] /\ o \notin ToMove)]
      /\ isyoung' = [o \in Obj |-> isyoung[o] /\ ~ismarked[o] /\ o \notin Range(to)]
      /\ ismarked' = [o \in Obj |-> ismarked[o] /\ isroot[o] /\ o \notin Range(to)]
  BY Zenon DEF Evacuate
<1>2. /\ isalloc' \in [Obj -> BOOLEAN]
      /\ isyoung' \in [Obj -> BOOLEAN]
      /\ ismarked' \in [Obj -> BOOLEAN]
  BY <1>1, SMT
<1>3. \A o \in Obj :
        /\ isalloc'[o] <=> o \in Range(to) \/ (isalloc[o] /\ o \notin ToMove)
        /\ isyoung'[o] <=> isyoung[o] /\ ~ismarked[o] /\ o \notin Range(to)
        /\ ismarked'[o] <=> ismarked[o] /\ isroot[o] /\ o \notin Range(to)
  BY <1>1, Zenon
<1> QED
  BY <1>1, <1>2, <1>3, Zenon

(* Evacuation: the objects. *)
LEMMA EvacuateObjects ==
  ASSUME EntryInv, NEW to \in [ToMove -> EvacTargets], Evacuate(to)
  PROVE  /\ \A x \in ToMove : /\ slots'[to[x]] = Forwarded(to, slots[x])
                              /\ ident'[to[x]] = ident[x]
         /\ \A o \in ToMove : slots'[o] = <<>>
         /\ \A o \in Obj : o \notin Range(to) /\ o \notin ToMove =>
              slots'[o] = IF ismarked[o] /\ isroot[o] THEN Forwarded(to, slots[o])
                                                     ELSE slots[o]
         /\ \A o \in Obj : o \notin Range(to) => ident'[o] = ident[o]
         /\ DOMAIN slots' = Obj /\ slots' = [o \in Obj |-> slots'[o]]
         /\ DOMAIN ident' = Obj /\ ident' = [o \in Obj |-> ident'[o]]
<1> DEFINE from(o) == CHOOSE x \in ToMove : to[x] = o
<1>1. /\ IsInjective(to)
      /\ slots' = [o \in Obj |->
             CASE o \in Range(to)            -> Forwarded(to, slots[from(o)])
               [] o \in ToMove               -> <<>>
               [] ismarked[o] /\ isroot[o]   -> Forwarded(to, slots[o])
               [] OTHER                      -> slots[o]]
      /\ ident' = [o \in Obj |-> IF o \in Range(to) THEN ident[from(o)] ELSE ident[o]]
  BY Zenon DEF Evacuate, Forwarded
<1>2. pc = "evacuate"
  BY DEF Evacuate
<1>3. /\ \A x \in ToMove : /\ x \in Obj /\ to[x] \in Range(to) /\ ismarked[x] /\ ~isroot[x]
      /\ \A o \in Range(to) : o \in Obj /\ o \notin ToMove /\ ~ismarked[o]
  BY <1>2, MovedFacts
<1>4. ASSUME NEW x \in ToMove PROVE from(to[x]) = x
  <2>1. \A y \in ToMove : to[y] = to[x] => y = x
    BY <1>1 DEF IsInjective
  <2> QED
    BY <2>1
<1> HIDE DEF from
<1>5. ASSUME NEW o \in Obj
      PROVE  slots'[o] = CASE o \in Range(to)            -> Forwarded(to, slots[from(o)])
               [] o \in ToMove               -> <<>>
               [] ismarked[o] /\ isroot[o]   -> Forwarded(to, slots[o])
               [] OTHER                      -> slots[o]
  BY <1>1, Zenon
<1>6. ASSUME NEW x \in ToMove
      PROVE  slots'[to[x]] = Forwarded(to, slots[x]) /\ ident'[to[x]] = ident[x]
  <2>1. PICK o : o = to[x]
    OBVIOUS
  <2>2. o \in Obj /\ o \in Range(to) /\ o \notin ToMove /\ ~ismarked[o]
    BY <1>3, <2>1
  <2>3. slots'[o] = Forwarded(to, slots[from(o)])
    BY <2>2, <1>5
  <2>4. ident'[o] = ident[from(o)]
    BY <2>2, <1>1, Zenon
  <2> QED
    BY <2>1, <2>3, <2>4, <1>4
<1>7. ASSUME NEW o \in ToMove PROVE slots'[o] = <<>>
  <2>1. o \in Obj /\ o \notin Range(to) /\ ~(ismarked[o] /\ isroot[o])
    BY <1>3
  <2> QED
    BY <2>1, <1>5
<1>8. ASSUME NEW o \in Obj, o \notin Range(to), o \notin ToMove
      PROVE  slots'[o] = IF ismarked[o] /\ isroot[o] THEN Forwarded(to, slots[o])
                                                     ELSE slots[o]
  BY <1>5, <1>8
<1>9. ASSUME NEW o \in Obj, o \notin Range(to) PROVE ident'[o] = ident[o]
  BY <1>1, <1>9, Zenon
<1> DEFINE s(o) == CASE o \in Range(to)            -> Forwarded(to, slots[from(o)])
                     [] o \in ToMove               -> <<>>
                     [] ismarked[o] /\ isroot[o]   -> Forwarded(to, slots[o])
                     [] OTHER                      -> slots[o]
           i(o) == IF o \in Range(to) THEN ident[from(o)] ELSE ident[o]
<1>10. slots' = [o \in Obj |-> s(o)] /\ ident' = [o \in Obj |-> i(o)]
  BY <1>1, Zenon
<1> HIDE DEF s, i
<1>11. /\ DOMAIN slots' = Obj /\ slots' = [o \in Obj |-> slots'[o]]
       /\ DOMAIN ident' = Obj /\ ident' = [o \in Obj |-> ident'[o]]
  BY <1>10
<1> QED
  BY <1>6, <1>7, <1>8, <1>9, <1>11

(* Evacuation: the counts. *)
LEMMA EvacuateCounts ==
  ASSUME EntryInv, NEW to \in [ToMove -> EvacTargets], Evacuate(to)
  PROVE  /\ \A o \in Obj :
              ref_count'[o] = (IF o \in Range(to) THEN 0 ELSE ref_count[o])
                                + Cardinality(NewRefs(to, o))
         /\ \A o : IsFiniteSet(NewRefs(to, o)) /\ Cardinality(NewRefs(to, o)) \in Nat
         /\ ref_count' \in [Obj -> Nat]
<1>1. ref_count' = [o \in Obj |-> (IF o \in Range(to) THEN 0 ELSE ref_count[o])
                                    + Cardinality(NewRefs(to, o))]
  BY Zenon DEF Evacuate, NewRefs
<1>2. ASSUME NEW o
      PROVE  IsFiniteSet(NewRefs(to, o)) /\ Cardinality(NewRefs(to, o)) \in Nat
  <2>1. IsFiniteSet(Promoted(Range(to)))
    <3>1. pc = "evacuate"
      BY DEF Evacuate
    <3>2. Promoted(Range(to)) \in SUBSET Obj
      BY <3>1, MovedFacts DEF Promoted
    <3> QED
      BY <3>2, FS_Subset, HeapAssumption
  <2>2. IsFiniteSet(1..MaxSlots)
    <3> PICK n \in Nat : n = MaxSlots
      BY CollectorAssumption
    <3>1. IsFiniteSet(1..n)
      BY FS_Interval
    <3> QED
      BY <3>1
  <2>3. IsFiniteSet(Promoted(Range(to)) \X (1..MaxSlots))
    BY <2>1, <2>2, FS_Product
  <2>4. NewRefs(to, o) \in SUBSET (Promoted(Range(to)) \X (1..MaxSlots))
    BY DEF NewRefs
  <2> QED
    BY <2>3, <2>4, FS_Subset, FS_CardinalityType
<1>3. \A o \in Obj :
        ref_count'[o] = (IF o \in Range(to) THEN 0 ELSE ref_count[o])
                          + Cardinality(NewRefs(to, o))
  BY <1>1, Zenon
<1>4. ref_count' \in [Obj -> Nat]
  <2>1. ASSUME NEW o \in Obj
        PROVE  (IF o \in Range(to) THEN 0 ELSE ref_count[o]) + Cardinality(NewRefs(to, o)) \in Nat
    <3>1. ref_count[o] \in Nat
      BY DEF EntryInv, CollectorTypeOK, HeapTypeOK
    <3>2. Cardinality(NewRefs(to, o)) \in Nat
      BY <1>2
    <3> QED
      BY <3>1, <3>2
  <2> QED
    BY <1>1, <2>1, Zenon
<1> QED
  BY <1>2, <1>3, <1>4

(* A forwarded slot holds an object. *)
LEMMA ForwardedType ==
  ASSUME EntryInv, pc = "evacuate", NEW to \in [ToMove -> EvacTargets], NEW s \in Seq(Obj)
  PROVE  /\ Forwarded(to, s) \in Seq(Obj)
         /\ Len(Forwarded(to, s)) = Len(s)
         /\ DOMAIN Forwarded(to, s) = DOMAIN s
         /\ \A i \in DOMAIN s :
              Forwarded(to, s)[i] = IF s[i] \in ToMove THEN to[s[i]] ELSE s[i]
<1>1. PICK n \in Nat : DOMAIN s = 1..n /\ n = Len(s)
  BY SeqIndices
<1>2. \A i \in 1..n : s[i] \in Obj
  BY <1>1
<1>3. \A x \in ToMove : to[x] \in Obj
  BY MovedFacts
<1>4. \A i \in 1..n : (IF s[i] \in ToMove THEN to[s[i]] ELSE s[i]) \in Obj
  BY <1>2, <1>3
<1>5. Forwarded(to, s) \in [1..n -> Obj]
  BY <1>1, <1>4, Zenon DEF Forwarded
<1>6. Forwarded(to, s) \in Seq(Obj) /\ Len(Forwarded(to, s)) = n
  BY <1>5
<1>7. \A i \in DOMAIN s :
        Forwarded(to, s)[i] = IF s[i] \in ToMove THEN to[s[i]] ELSE s[i]
  BY Zenon DEF Forwarded
<1> QED
  BY <1>1, <1>5, <1>6, <1>7

(* What moved leaves its entry on a page that is about to be rebuilt.      *)
LEMMA EntryEvacuate ==
  ASSUME EntryInv, NEW to \in [ToMove -> EvacTargets], Evacuate(to)
  PROVE  EntryInv'
<1> USE DEF EntryInv
<1>1. /\ pc = "evacuate" /\ pc' = "computeDeadRoots"
      /\ UNCHANGED <<isroot, roots, held, alloc_page, pendinggc_pages, decVars, created>>
      /\ freelist' = freelist \ Range(to)
      /\ isalloc' \in [Obj -> BOOLEAN]
      /\ isyoung' \in [Obj -> BOOLEAN]
      /\ ismarked' \in [Obj -> BOOLEAN]
      /\ \A o \in Obj :
           /\ isalloc'[o] <=> o \in Range(to) \/ (isalloc[o] /\ o \notin ToMove)
           /\ isyoung'[o] <=> isyoung[o] /\ ~ismarked[o] /\ o \notin Range(to)
           /\ ismarked'[o] <=> ismarked[o] /\ isroot[o] /\ o \notin Range(to)
  BY EvacuateFlags
<1>2. /\ \A x \in ToMove : slots'[to[x]] = Forwarded(to, slots[x]) /\ ident'[to[x]] = ident[x]
      /\ \A o \in ToMove : slots'[o] = <<>>
      /\ \A o \in Obj : o \notin Range(to) /\ o \notin ToMove =>
           slots'[o] = IF ismarked[o] /\ isroot[o] THEN Forwarded(to, slots[o])
                                                  ELSE slots[o]
      /\ \A o \in Obj : o \notin Range(to) => ident'[o] = ident[o]
      /\ slots' = [o \in Obj |-> slots'[o]]
      /\ ident' = [o \in Obj |-> ident'[o]]
  BY EvacuateObjects
<1>3. /\ \A x \in ToMove : /\ x \in Obj /\ isalloc[x] /\ isyoung[x]
                           /\ ismarked[x] /\ ~isroot[x]
                           /\ PageOf[x] \in CollectedPages
                           /\ to[x] \in Range(to)
      /\ \A o \in Range(to) : /\ o \in Obj /\ o \in freelist /\ ~isalloc[o]
                              /\ o \notin ToMove
                              /\ \E x \in ToMove : o = to[x]
  BY <1>1, MovedFacts
<1>4. \A o \in Obj : slots'[o] \in Seq(Obj)
  <2> SUFFICES ASSUME NEW o \in Obj PROVE slots'[o] \in Seq(Obj)
    OBVIOUS
  <2>1. CASE o \in Range(to)
    <3>1. PICK x \in ToMove : o = to[x]
      BY <2>1, <1>3
    <3>2. slots[x] \in Seq(Obj)
      BY <1>3 DEF Entries
    <3>3. Forwarded(to, slots[x]) \in Seq(Obj)
      BY <3>2, <1>1, ForwardedType
    <3>4. slots'[o] = Forwarded(to, slots[x])
      BY <3>1, <1>2
    <3> QED
      BY <3>3, <3>4
  <2>2. CASE o \in ToMove
    <3>1. slots'[o] = <<>>
      BY <2>2, <1>2
    <3> QED
      BY <3>1
  <2>3. CASE o \notin Range(to) /\ o \notin ToMove
    <3>1. slots[o] \in Seq(Obj)
      BY DEF Entries
    <3>2. Forwarded(to, slots[o]) \in Seq(Obj)
      BY <3>1, <1>1, ForwardedType
    <3> QED
      BY <2>3, <3>1, <3>2, <1>2
  <2> QED
    BY <2>1, <2>2, <2>3
<1>5. \A o \in Obj : ident'[o] \in 0..MaxObjects
  <2> SUFFICES ASSUME NEW o \in Obj PROVE ident'[o] \in 0..MaxObjects
    OBVIOUS
  <2>1. CASE o \in Range(to)
    <3>1. PICK x \in ToMove : o = to[x]
      BY <2>1, <1>3
    <3> QED
      BY <3>1, <1>2, <1>3 DEF CollectorTypeOK
  <2>2. CASE o \notin Range(to)
    BY <2>2, <1>2 DEF CollectorTypeOK
  <2> QED
    BY <2>1, <2>2
<1>6. slots' \in [Obj -> Seq(Obj \cup {NULL})] /\ ident' \in [Obj -> 0..MaxObjects]
  <2>1. \A o \in Obj : slots'[o] \in Seq(Obj \cup {NULL})
    BY <1>4, SlotsWider
  <2> QED
    BY <2>1, <1>2, <1>5
<1>7. ref_count' \in [Obj -> Nat]
  BY EvacuateCounts
<1>8. CollectorTypeOK'
  <2>1. HeapTypeOK'
    BY <1>1, <1>6, <1>7 DEF CollectorTypeOK, HeapTypeOK
  <2> QED
    BY <2>1, <1>1, <1>6 DEF CollectorTypeOK, Phases, decVars
<1>9. Entries'
  <2>1. CollectedPages' = CollectedPages /\ pc' \in AfterMoving
    BY <1>1 DEF CollectedPages, AfterMoving
  <2>2. \A o \in freelist' : ~isalloc'[o]
    BY <1>1 DEF Entries, CollectorTypeOK
  <2>3. \A o \in Obj : ~isalloc'[o] /\ o \notin freelist' => PageOf[o] \in CollectedPages
    <3> SUFFICES ASSUME NEW o \in Obj, ~isalloc'[o], o \notin freelist'
                 PROVE  PageOf[o] \in CollectedPages
      OBVIOUS
    <3>1. CASE o \in ToMove
      BY <3>1, <1>3
    <3>2. CASE o \notin ToMove
      BY <3>2, <1>1 DEF Entries, AfterMoving
    <3> QED
      BY <3>1, <3>2
  <2>4. \A o \in Obj : isyoung'[o] => PageOf[o] \in CollectedPages
    BY <1>1 DEF Entries
  <2>5. \A o \in Obj : ~isalloc'[o] => slots'[o] = <<>>
    <3> SUFFICES ASSUME NEW o \in Obj, ~isalloc'[o] PROVE slots'[o] = <<>>
      OBVIOUS
    <3>1. CASE o \in ToMove
      BY <3>1, <1>2
    <3>2. CASE o \notin ToMove
      <4>1. o \notin Range(to) /\ ~isalloc[o] /\ ~ismarked[o]
        BY <3>2, <1>1 DEF Marks, BeforeMoving
      <4> QED
        BY <3>2, <4>1, <1>2 DEF Entries
    <3> QED
      BY <3>1, <3>2
  <2> QED
    BY <1>4, <2>1, <2>2, <2>3, <2>4, <2>5 DEF Entries
<1>10. Marks'
  <2>1. \A o \in Obj : isyoung'[o] => ~ismarked'[o] /\ ~isroot'[o]
    BY <1>1 DEF Marks, BeforeMoving
  <2>2. pc' \notin BeforeMoving
    BY <1>1 DEF BeforeMoving
  <2> QED
    BY <2>1, <2>2, <1>1 DEF Marks
<1> QED
  BY <1>8, <1>9, <1>10

(* Dropped roots are listed. *)

(* Dropped roots are listed, each once. *)
LEMMA DeadRootsShape ==
  ASSUME EntryInv, ComputeDeadRoots
  PROVE  /\ pending_decs' \in Seq(Obj)
         /\ Range(pending_decs') = Range(pending_decs) \cup (old_roots \ roots)
<1> USE DEF EntryInv
<1> DEFINE D == old_roots \ roots
<1>1. PICK s \in Injection(1..Cardinality(D), D) : pending_decs' = pending_decs \o s
  BY DEF ComputeDeadRoots
<1>2. D \in SUBSET Obj /\ IsFiniteSet(D)
  <2>1. D \in SUBSET Obj
    BY DEF CollectorTypeOK
  <2> QED
    BY <2>1, HeapAssumption, FS_Subset
<1> HIDE DEF D
<1>3. PICK n \in Nat : n = Cardinality(D)
  BY <1>2, FS_CardinalityType
<1>4. IsFiniteSet(1..n) /\ Cardinality(1..n) = n
  BY FS_Interval
<1>5. s \in Injection(1..n, D)
  BY <1>1, <1>3
<1>6. s \in Surjection(1..n, D)
  BY <1>2, <1>3, <1>4, <1>5, FS_Injection
<1>7. s \in [1..n -> D] /\ \A d \in D : \E i \in 1..n : s[i] = d
  BY <1>6 DEF Surjection
<1>8. s \in Seq(D) /\ s \in Seq(Obj) /\ Range(s) = D
  <2>1. s \in Seq(D) /\ s \in Seq(Obj)
    BY <1>2, <1>7
  <2>2. Range(s) = D
    BY <1>7 DEF Range
  <2> QED
    BY <2>1, <2>2
<1>9. /\ pending_decs \o s \in Seq(Obj)
      /\ Range(pending_decs \o s) = Range(pending_decs) \cup Range(s)
  <2>1. pending_decs \in Seq(Obj)
    BY DEF CollectorTypeOK
  <2>2. s \in Seq(Obj)
    BY <1>8
  <2>3. pending_decs \o s \in Seq(Obj)
    BY <2>1, <2>2, ConcatProperties
  <2>4. Range(pending_decs \o s) = Range(pending_decs) \cup Range(s)
    BY <2>1, <2>2, RangeConcatenation
  <2> QED
    BY <2>3, <2>4
<1> QED
  BY <1>1, <1>8, <1>9 DEF D

(* Listing the dropped roots moves no object. *)
LEMMA EntryComputeDeadRoots ==
  ASSUME EntryInv, ComputeDeadRoots
  PROVE  EntryInv'
<1> USE DEF EntryInv
<1>1. pending_decs' \in Seq(Obj)
  BY DeadRootsShape
<1>2. /\ pc = "computeDeadRoots" /\ pc' = "processDecrements" /\ old_roots' = {}
      /\ UNCHANGED <<heapVars, roots, held, pageVars, deccount, histVars>>
  BY DEF ComputeDeadRoots
<1>3. CollectorTypeOK'
  BY <1>1, <1>2 DEF CollectorTypeOK, HeapTypeOK, heapVars, pageVars, histVars, Phases
<1>4. Entries'
  BY <1>2 DEF Entries, heapVars, pageVars, AfterMoving, CollectedPages
<1>5. Marks'
  BY <1>2 DEF Marks, heapVars, BeforeMoving, AfterMoving
<1> QED
  BY <1>3, <1>4, <1>5

(* A step of processDecrements frees an object, or finds it freed.         *)
LEMMA DecrementShape ==
  ASSUME EntryInv, ProcessDecrement
  PROVE  \E obj \in Obj :
           /\ obj = Head(pending_decs) /\ obj \in Range(pending_decs)
           /\ pending_decs # <<>> /\ Tail(pending_decs) \in Seq(Obj)
           /\ Range(pending_decs) = Range(Tail(pending_decs)) \cup {obj}
           /\ pc = "processDecrements" /\ deccount' \in 0..max_decrement_count
           /\ UNCHANGED <<isyoung, ismarked, isroot, roots, pc, held, alloc_page,
                          pendinggc_pages, old_roots, histVars>>
           /\ DecTypes(Decremented(obj))
           /\ \/ /\ isalloc[obj]
                 /\ ref_count' = Decremented(obj).count
                 /\ pending_decs' = Decremented(obj).pending
                 /\ isalloc' = [isalloc EXCEPT ![obj] = FALSE]
                 /\ slots' = [slots EXCEPT ![obj] = <<>>]
                 /\ freelist' = freelist \cup {obj}
              \/ /\ ~isalloc[obj]
                 /\ pending_decs' = Tail(pending_decs)
                 /\ UNCHANGED <<isalloc, ref_count, slots, freelist>>
<1> USE DEF EntryInv
<1>1. pending_decs \in Seq(Obj) /\ pending_decs # <<>>
  BY DEF ProcessDecrement, MayDecrement, CollectorTypeOK
<1>2. PICK obj \in Obj : obj = Head(pending_decs)
  BY <1>1, PopFrontFacts
<1>3. /\ obj \in Range(pending_decs)
      /\ Tail(pending_decs) \in Seq(Obj)
      /\ Range(pending_decs) = Range(Tail(pending_decs)) \cup {obj}
  BY <1>1, <1>2, PopFrontFacts
<1>4. deccount' \in 0..max_decrement_count
  BY CollectorAssumption DEF ProcessDecrement, MayDecrement, CollectorTypeOK
<1>5. DecTypes(Decremented(obj))
  BY <1>1, DecrementedTypes DEF CollectorTypeOK, HeapTypeOK, Entries
<1>6. /\ pc = "processDecrements"
      /\ UNCHANGED <<isyoung, ismarked, isroot, roots, pc, held, alloc_page,
                     pendinggc_pages, old_roots, histVars>>
      /\ \/ /\ isalloc[obj]
            /\ ref_count' = Decremented(obj).count
            /\ pending_decs' = Decremented(obj).pending
            /\ isalloc' = [isalloc EXCEPT ![obj] = FALSE]
            /\ slots' = [slots EXCEPT ![obj] = <<>>]
            /\ freelist' = freelist \cup {obj}
         \/ /\ ~isalloc[obj]
            /\ pending_decs' = Tail(pending_decs)
            /\ UNCHANGED <<isalloc, ref_count, slots, freelist>>
  BY <1>2 DEF ProcessDecrement
<1> QED
  BY <1>1, <1>2, <1>3, <1>4, <1>5, <1>6

(* What is freed goes to a freelist. *)
LEMMA EntryProcessDecrement ==
  ASSUME EntryInv, ProcessDecrement
  PROVE  EntryInv'
<1> USE DEF EntryInv
<1>1. PICK obj \in Obj :
           /\ Tail(pending_decs) \in Seq(Obj)
           /\ pc = "processDecrements" /\ deccount' \in 0..max_decrement_count
           /\ UNCHANGED <<isyoung, ismarked, isroot, roots, pc, held, alloc_page,
                          pendinggc_pages, old_roots, histVars>>
           /\ DecTypes(Decremented(obj))
           /\ \/ /\ isalloc[obj]
                 /\ ref_count' = Decremented(obj).count
                 /\ pending_decs' = Decremented(obj).pending
                 /\ isalloc' = [isalloc EXCEPT ![obj] = FALSE]
                 /\ slots' = [slots EXCEPT ![obj] = <<>>]
                 /\ freelist' = freelist \cup {obj}
              \/ /\ ~isalloc[obj]
                 /\ pending_decs' = Tail(pending_decs)
                 /\ UNCHANGED <<isalloc, ref_count, slots, freelist>>
  BY DecrementShape
<1>2. pending_decs' \in Seq(Obj) /\ ref_count' \in [Obj -> Nat]
  <2>1. ref_count \in [Obj -> Nat]
    BY DEF CollectorTypeOK, HeapTypeOK
  <2>2. Decremented(obj).count \in [Obj -> Nat] /\ Decremented(obj).pending \in Seq(Obj)
    BY <1>1 DEF DecTypes
  <2> QED
    BY <1>1, <2>1, <2>2, Zenon
<1>3. HeapTypeOK'
  <2>1. <<>> \in Seq(Obj \cup {NULL}) /\ HeapTypeOK
    BY DEF CollectorTypeOK
  <2>2. isalloc' \in [Obj -> BOOLEAN] /\ slots' \in [Obj -> Seq(Obj \cup {NULL})]
    <3>1. CASE UNCHANGED <<isalloc, slots>>
      BY <2>1, <3>1 DEF HeapTypeOK
    <3>2. CASE /\ isalloc' = [isalloc EXCEPT ![obj] = FALSE]
               /\ slots' = [slots EXCEPT ![obj] = <<>>]
      BY <2>1, <3>2 DEF HeapTypeOK
    <3> QED
      BY <1>1, <3>1, <3>2, Zenon
  <2>3. UNCHANGED <<isyoung, ismarked, isroot>>
    BY <1>1, Zenon
  <2> QED
    BY <1>2, <2>1, <2>2, <2>3 DEF HeapTypeOK
<1>4. CollectorTypeOK'
  BY <1>1, <1>2, <1>3 DEF CollectorTypeOK, histVars
<1>5. Entries'
  <2>1. CollectedPages' = CollectedPages /\ pc' = pc /\ isyoung' = isyoung
    BY <1>1 DEF CollectedPages
  <2>2. CASE UNCHANGED <<isalloc, slots, freelist>>
    BY <2>1, <2>2 DEF Entries
  <2>3. CASE /\ isalloc[obj]
             /\ isalloc' = [isalloc EXCEPT ![obj] = FALSE]
             /\ slots' = [slots EXCEPT ![obj] = <<>>]
             /\ freelist' = freelist \cup {obj}
    <3>1. \A o \in Obj : /\ isalloc'[o] <=> isalloc[o] /\ o # obj
                         /\ slots'[o] = IF o = obj THEN <<>> ELSE slots[o]
      BY <2>3 DEF CollectorTypeOK, HeapTypeOK
    <3>2. <<>> \in Seq(Obj)
      OBVIOUS
    <3>3. freelist \in SUBSET Obj
      BY DEF CollectorTypeOK
    <3> QED
      BY <2>1, <2>3, <3>1, <3>2, <3>3 DEF Entries
  <2> QED
    BY <1>1, <2>2, <2>3
<1>6. Marks'
  BY <1>1 DEF Marks, BeforeMoving
<1> QED
  BY <1>4, <1>5, <1>6

(* Ending the decrements moves no object. *)
LEMMA EntryEndDecrements ==
  ASSUME EntryInv, EndDecrements
  PROVE  EntryInv'
<1> USE DEF EntryInv
<1>1. CollectorTypeOK'
  BY CollectorAssumption
  DEF EndDecrements, CollectorTypeOK, HeapTypeOK, heapVars, pageVars, histVars, Phases
<1>2. Entries'
  BY DEF EndDecrements, Entries, heapVars, pageVars, AfterMoving, CollectedPages
<1>3. Marks'
  BY DEF EndDecrements, Marks, heapVars, BeforeMoving, AfterMoving
<1> QED
  BY <1>1, <1>2, <1>3

(* Rebuilding frees the entries of the pages that are collected that hold  *)
(* nothing, or what is neither a root nor marked.                          *)
LEMMA RebuildShape ==
  ASSUME EntryInv, Rebuild
  PROVE  \E freed \in SUBSET Obj :
           /\ freed = {o \in Obj : /\ PageOf[o] \in CollectedPages
                                   /\ GC_SHOULD_FREE_LIST_ADD(o)}
           /\ isalloc' \in [Obj -> BOOLEAN]
           /\ isyoung' \in [Obj -> BOOLEAN]
           /\ \A o \in Obj : /\ isalloc'[o] <=> isalloc[o] /\ o \notin freed
                             /\ isyoung'[o] <=> isyoung[o] /\ o \notin freed
           /\ ref_count' = [o \in Obj |-> IF o \in freed THEN 0 ELSE ref_count[o]]
           /\ slots' = [o \in Obj |-> IF o \in freed THEN <<>> ELSE slots[o]]
           /\ freelist' = freelist \cup freed
<1>1. PICK freed \in SUBSET Obj :
         freed = {o \in Obj : PageOf[o] \in CollectedPages /\ GC_SHOULD_FREE_LIST_ADD(o)}
  OBVIOUS
<1>2. /\ isalloc' = [o \in Obj |-> isalloc[o] /\ o \notin freed]
      /\ isyoung' = [o \in Obj |-> isyoung[o] /\ o \notin freed]
      /\ ref_count' = [o \in Obj |-> IF o \in freed THEN 0 ELSE ref_count[o]]
      /\ slots' = [o \in Obj |-> IF o \in freed THEN <<>> ELSE slots[o]]
      /\ freelist' = freelist \cup freed
  BY <1>1, Zenon DEF Rebuild
<1>3. isalloc' \in [Obj -> BOOLEAN] /\ isyoung' \in [Obj -> BOOLEAN]
  BY <1>2, SMT
<1>4. \A o \in Obj : /\ isalloc'[o] <=> isalloc[o] /\ o \notin freed
                     /\ isyoung'[o] <=> isyoung[o] /\ o \notin freed
  BY <1>2, Zenon
<1> QED
  BY <1>1, <1>2, <1>3, <1>4, Zenon

(* Rebuilding leaves no entry that is neither free nor in use, and no      *)
(* young object.                                                           *)
LEMMA EntryRebuild ==
  ASSUME EntryInv, Rebuild
  PROVE  EntryInv'
<1> USE DEF EntryInv
<1>1. /\ pc = "rebuild" /\ pc' = "end" /\ alloc_page' = NULL /\ pendinggc_pages' = {}
      /\ UNCHANGED <<ismarked, isroot, roots, held, decVars, histVars>>
  BY DEF Rebuild
<1>2. PICK freed \in SUBSET Obj :
           /\ freed = {o \in Obj : /\ PageOf[o] \in CollectedPages
                                   /\ GC_SHOULD_FREE_LIST_ADD(o)}
           /\ isalloc' \in [Obj -> BOOLEAN]
           /\ isyoung' \in [Obj -> BOOLEAN]
           /\ \A o \in Obj : /\ isalloc'[o] <=> isalloc[o] /\ o \notin freed
                             /\ isyoung'[o] <=> isyoung[o] /\ o \notin freed
           /\ ref_count' = [o \in Obj |-> IF o \in freed THEN 0 ELSE ref_count[o]]
           /\ slots' = [o \in Obj |-> IF o \in freed THEN <<>> ELSE slots[o]]
           /\ freelist' = freelist \cup freed
  BY RebuildShape
<1>3. \A o \in Obj : slots'[o] \in Seq(Obj)
  <2>1. <<>> \in Seq(Obj)
    OBVIOUS
  <2> QED
    BY <1>2, <2>1 DEF Entries
<1>4. CollectorTypeOK'
  <2>1. ref_count' \in [Obj -> Nat]
    BY <1>2 DEF CollectorTypeOK, HeapTypeOK
  <2>2. slots' \in [Obj -> Seq(Obj \cup {NULL})]
    BY <1>2, <1>3, SlotsWider
  <2>3. HeapTypeOK'
    BY <1>1, <1>2, <2>1, <2>2 DEF CollectorTypeOK, HeapTypeOK
  <2> QED
    BY <1>1, <1>2, <2>3 DEF CollectorTypeOK, Phases, decVars, histVars
<1>5. \A o \in Obj : ~isyoung'[o]
  <2> SUFFICES ASSUME NEW o \in Obj, isyoung[o] PROVE o \in freed
    BY <1>2
  <2>1. PageOf[o] \in CollectedPages /\ ~ismarked[o] /\ ~isroot[o]
    BY <1>1 DEF Entries, Marks, AfterMoving
  <2> QED
    BY <2>1, <1>2 DEF GC_SHOULD_FREE_LIST_ADD
<1>6. Entries'
  <2>1. \A o \in freelist' : ~isalloc'[o]
    BY <1>2 DEF Entries, CollectorTypeOK
  <2>2. ASSUME NEW o \in Obj, ~isalloc'[o], o \notin freelist' PROVE FALSE
    <3>1. ~isalloc[o] /\ o \notin freelist /\ o \notin freed
      BY <1>2, <2>2
    <3>2. PageOf[o] \in CollectedPages
      BY <3>1 DEF Entries
    <3> QED
      BY <3>1, <3>2, <1>2 DEF GC_SHOULD_FREE_LIST_ADD
  <2>3. \A o \in Obj : ~isalloc'[o] => slots'[o] = <<>>
    BY <1>2 DEF Entries
  <2> QED
    BY <1>3, <1>5, <2>1, <2>2, <2>3 DEF Entries
<1>7. Marks'
  BY <1>1, <1>5 DEF Marks, BeforeMoving, AfterMoving
<1> QED
  BY <1>4, <1>5, <1>6, <1>7

(* Clearing marks and flags moves no object.                               *)
LEMMA EntryEndCollect ==
  ASSUME EntryInv, EndCollect
  PROVE  EntryInv'
<1> USE DEF EntryInv
<1>1. ismarked' \in [Obj -> BOOLEAN] /\ isroot' \in [Obj -> BOOLEAN]
  BY DEF EndCollect
<1>2. CollectorTypeOK'
  BY <1>1 DEF EndCollect, CollectorTypeOK, HeapTypeOK, pageVars, histVars, Phases
<1>3. Entries'
  BY DEF EndCollect, Entries, pageVars, AfterMoving, CollectedPages
<1>4. Marks'
  BY DEF EndCollect, Marks, BeforeMoving, AfterMoving
<1> QED
  BY <1>2, <1>3, <1>4

(* Nor does running out of memory. *)
LEMMA EntryOutOfMemory ==
  ASSUME EntryInv, OutOfMemory
  PROVE  EntryInv'
<1> USE DEF EntryInv
<1>1. CollectorTypeOK'
  BY DEF OutOfMemory, CollectorTypeOK, HeapTypeOK, heapVars, pageVars, decVars, histVars, Phases
<1>2. Entries'
  BY DEF OutOfMemory, Entries, heapVars, pageVars, AfterMoving, CollectedPages
<1>3. Marks'
  BY DEF OutOfMemory, Marks, heapVars, BeforeMoving, AfterMoving
<1> QED
  BY <1>1, <1>2, <1>3

(* Nothing happens to entries when nothing happens. *)
LEMMA EntryStutter ==
  ASSUME EntryInv, UNCHANGED vars
  PROVE  EntryInv'
<1> USE DEF EntryInv
<1>1. CollectorTypeOK'
  BY DEF vars, CollectorTypeOK, HeapTypeOK, heapVars, pageVars, decVars, histVars
<1>2. Entries'
  BY DEF vars, Entries, heapVars, pageVars, CollectedPages
<1>3. Marks'
  BY DEF vars, Marks, heapVars
<1> QED
  BY <1>1, <1>2, <1>3

(* The invariant that every program keeps. *)
LEMMA EntryStep == EntryInv /\ [Next]_vars => EntryInv'
<1> SUFFICES ASSUME EntryInv, [Next]_vars PROVE EntryInv'
  OBVIOUS
<1>1. ASSUME NEW o \in Obj, NEW s \in SlotsOver(Seen), New(o, s) PROVE EntryInv'
  BY <1>1, EntryNew
<1>2. ASSUME NEW p \in Page, Refresh(p) PROVE EntryInv'
  BY <1>2, EntryRefresh
<1>3. ASSUME NEW S \in SUBSET Seen, Mark(S) PROVE EntryInv'
  BY <1>3, EntryMark
<1>4. ASSUME NEW to \in [ToMove -> EvacTargets], Evacuate(to) PROVE EntryInv'
  BY <1>4, EntryEvacuate
<1>5. CASE ComputeDeadRoots
  BY <1>5, EntryComputeDeadRoots
<1>6. CASE ProcessDecrement
  BY <1>6, EntryProcessDecrement
<1>7. CASE EndDecrements
  BY <1>7, EntryEndDecrements
<1>8. CASE Rebuild
  BY <1>8, EntryRebuild
<1>9. CASE EndCollect
  BY <1>9, EntryEndCollect
<1>10. CASE OutOfMemory
  BY <1>10, EntryOutOfMemory
<1>11. CASE UNCHANGED vars
  BY <1>11, EntryStutter
<1> QED
  BY <1>1, <1>2, <1>3, <1>4, <1>5, <1>6, <1>7, <1>8, <1>9, <1>10, <1>11, Zenon
  DEF Next, Program, Collection

(* EntryInv holds in every state of every program. *)
LEMMA EntriesInvariant == Spec => []EntryInv
BY EntryInit, EntryStep, PTL DEF Spec

(* Theorem: whatever the program does, every step of it and of its         *)
(* collections leaves the variables within their types; in particular a    *)
(* collection frees no more than max_decrement_count objects by counts.    *)
THEOREM CollectorTypes == Spec => []CollectorTypeOK
<1>1. EntryInv => CollectorTypeOK
  BY DEF EntryInv
<1> QED
  BY <1>1, EntriesInvariant, PTL

(* Theorem: no entry is lost: between collections it is on a freelist or   *)
(* holds an object, whatever the program does (processMarkedYoungObjects,  *)
(* processDecrements, PageInfo::rebuild).                                  *)
THEOREM CollectorEntries == Spec => []EntriesAccounted
<1>1. EntryInv => EntriesAccounted
  BY DEF EntryInv, Entries, EntriesAccounted, CollectorTypeOK, HeapTypeOK, AfterMoving
<1> QED
  BY <1>1, EntriesInvariant, PTL

-----------------------------------------------------------------------------
(***************************************************************************)
(* What the program can get at, and references, before and after a step.   *)
(***************************************************************************)

(* The slots of an object and its children. *)
LEMMA ChildSlots ==
  ASSUME EntryInv, NEW o \in Obj
  PROVE  /\ \A k \in DOMAIN slots[o] : slots[o][k] \in Obj /\ slots[o][k] \in Children(o)
         /\ \A c \in Children(o) : c \in Obj /\ \E k \in DOMAIN slots[o] : slots[o][k] = c
         /\ ~isalloc[o] => Children(o) = {}
<1>1. slots[o] \in Seq(Obj) /\ (~isalloc[o] => slots[o] = <<>>)
  BY DEF EntryInv, Entries
<1>2. DOMAIN slots[o] = 1..Len(slots[o]) /\ \A k \in 1..Len(slots[o]) : slots[o][k] \in Obj
  BY <1>1, SeqIndices
<1>3. ~isalloc[o] => DOMAIN slots[o] = {}
  BY <1>1
<1> QED
  BY <1>2, <1>3, NullAssumption DEF Children, Range

(* The program gets at what it holds, and from there at what is pointed to. *)
LEMMA SeenClosed ==
  ASSUME EntryInv
  PROVE  /\ held \subseteq Seen
         /\ \A o \in Seen : Children(o) \subseteq Seen
<1>1. held \in SUBSET Obj
  BY DEF EntryInv, CollectorTypeOK
<1>2. held \subseteq Seen
  BY <1>1, ReachableContains DEF Seen
<1>3. \A o \in Seen : Children(o) \subseteq Seen
  BY SeenType, ChildSlots, ReachableClosed DEF Seen
<1> QED
  BY <1>2, <1>3

(* The same after a step. *)
LEMMA SeenClosedNext ==
  ASSUME EntryInv'
  PROVE  /\ held' \subseteq Seen' /\ Seen' \subseteq Obj
         /\ \A o \in Seen' : Children(o)' \subseteq Seen'
<1>1. /\ held' \subseteq Obj
      /\ slots' \in [Obj -> Seq(Obj \cup {NULL})]
      /\ \A o \in Obj : slots'[o] \in Seq(Obj)
  BY DEF EntryInv, Entries, CollectorTypeOK, HeapTypeOK
<1>2. ASSUME NEW o \in Obj PROVE Children(o)' \subseteq Obj
  <2>1. \A k \in DOMAIN slots'[o] : slots'[o][k] \in Obj
    BY <1>1, SeqIndices
  <2> QED
    BY <2>1 DEF Children, Range
<1>3. Seen' \subseteq Obj
  BY DEF Seen, ReachableFrom
<1>4. held' \subseteq Seen'
  BY <1>1 DEF Seen, ReachableFrom
<1>5. ASSUME NEW o \in Seen', NEW c \in Children(o)' PROVE c \in Seen'
  BY <1>2, <1>3 DEF Seen, ReachableFrom, Closed
<1> QED
  BY <1>3, <1>4, <1>5

(* What the program gets at is in every set that holds what it holds and   *)
(* has with an object its children.                                        *)
LEMMA SeenLeast ==
  ASSUME NEW S \in SUBSET Obj, held \subseteq S, \A o \in S : Children(o) \subseteq S
  PROVE  Seen \subseteq S
BY DEF Seen, ReachableFrom, Closed

LEMMA SeenLeastNext ==
  ASSUME NEW S \in SUBSET Obj, held' \subseteq S, \A o \in S : Children(o)' \subseteq S
  PROVE  Seen' \subseteq S
BY DEF Seen, ReachableFrom, Closed

(* Children depend on the slots alone. *)
LEMMA SameChildren ==
  ASSUME NEW o, slots'[o] = slots[o]
  PROVE  Children(o)' = Children(o)
BY DEF Children

(* The references after a step. *)
LEMMA RefsElementNext ==
  ASSUME NEW p
  PROVE  /\ \A o, k : <<o, k>> \in RefsTo(p)' <=>
                        /\ o \in Obj /\ isalloc'[o] /\ ~isyoung'[o]
                        /\ k \in DOMAIN slots'[o] /\ slots'[o][k] = p
         /\ \A r \in RefsTo(p)' : r = <<r[1], r[2]>>
BY DEF RefsTo, IsOld

(* References are to be counted anew only when an old object's slots change. *)
LEMMA SameRefs ==
  ASSUME NEW p,
         \A x \in Obj : IsOld(x) <=> isalloc'[x] /\ ~isyoung'[x],
         \A x \in Obj : IsOld(x) => slots'[x] = slots[x]
  PROVE  RefsTo(p)' = RefsTo(p)
<1>1. ASSUME NEW o, NEW k PROVE <<o, k>> \in RefsTo(p)' <=> <<o, k>> \in RefsTo(p)
  BY RefsElement, RefsElementNext
<1> QED
  BY <1>1, RefsElement, RefsElementNext, SamePairs, Zenon

(* An object that is referred to has a count. *)
LEMMA ReferredIsCounted ==
  ASSUME CollectorTypeOK, CountsExact, NEW o \in Obj, IsOld(o)
  PROVE  /\ ref_count[o] = Cardinality(RefsTo(o)) /\ IsFiniteSet(RefsTo(o))
         /\ ref_count[o] > 0 <=> RefsTo(o) # {}
<1>1. IsFiniteSet(RefsTo(o)) /\ ref_count[o] = Cardinality(RefsTo(o)) /\ ref_count[o] \in Nat
  BY RefsFinite DEF CollectorTypeOK, HeapTypeOK, CountsExact
<1>2. Cardinality(RefsTo(o)) = 0 <=> RefsTo(o) = {}
  BY <1>1, FS_EmptySet
<1> QED
  BY <1>1, <1>2

(* What a step leaves alone of the invariant. *)
LEMMA CarefulKept ==
  ASSUME Pointers, Identities, CountsExact,
         UNCHANGED <<isalloc, isyoung, ref_count, slots, histVars>>
  PROVE  Pointers' /\ Identities' /\ CountsExact'
<1>1. Pointers' /\ Identities'
  BY DEF Pointers, Identities, histVars, Children
<1>2. \A p : RefsTo(p)' = RefsTo(p)
  BY SameRefs DEF IsOld
<1>3. CountsExact'
  BY <1>2 DEF CountsExact, IsOld
<1> QED
  BY <1>1, <1>3

-----------------------------------------------------------------------------
(***************************************************************************)
(* The programs for which the code is right, an action at a time.          *)
(***************************************************************************)

(* What the program gets at depends on what it holds and on the slots.     *)
LEMMA SameSeen ==
  ASSUME held' = held, slots' = slots
  PROVE  Seen' = Seen
BY DEF Seen, ReachableFrom, Closed, Children

(* It stays the same when the slots of what it gets at do.                 *)
LEMMA SeenUnchanged ==
  ASSUME EntryInv, EntryInv', held' = held, \A o \in Seen : slots'[o] = slots[o]
  PROVE  Seen' = Seen
<1>1. \A o \in Seen : Children(o)' = Children(o)
  BY DEF Children
<1>2. Seen' \subseteq Seen
  BY <1>1, SeenType, SeenClosed, SeenLeastNext
<1> DEFINE T == Seen \cap Seen'
<1>3. T \in SUBSET Obj /\ held \subseteq T
  BY SeenType, SeenClosed, SeenClosedNext
<1>4. \A o \in T : Children(o) \subseteq T
  BY <1>1, SeenClosed, SeenClosedNext
<1>5. Seen \subseteq T
  <2> HIDE DEF T
  <2> QED
    BY <1>3, <1>4, SeenLeast
<1> QED
  BY <1>2, <1>5

(* What the program sees is the same after a step. *)
SameGraph ==
  /\ held' = held /\ Seen' = Seen /\ ident' = ident
  /\ \A o \in Seen : slots'[o] = slots[o]

(* A program starts with nothing. *)
LEMMA CarefulInit == Init => CarefulInv
<1> SUFFICES ASSUME Init PROVE CarefulInv
  OBVIOUS
<1>1. EntryInv
  BY EntryInit
<1>2. MaxSlots \in Nat /\ MaxObjects \in Nat
  BY CollectorAssumption
<1>3. \A o \in Obj : ~isalloc[o] /\ ~isyoung[o] /\ Children(o) = {}
  BY <1>1, ChildSlots DEF Init
<1>4. Seen = {}
  <2>1. held \subseteq {} /\ {} \in SUBSET Obj
    BY DEF Init
  <2> QED
    BY <2>1, SeenLeast
<1>5. Pointers
  BY <1>2, <1>3 DEF Init, Pointers
<1>6. Identities /\ Generations
  BY <1>3, EmptySeq DEF Init, Identities, Generations, IsOld, Range
<1>7. Roots /\ Marked /\ LiveOnesStay
  BY <1>4 DEF Init, Roots, Marked, LiveOnesStay, BeforeMoving, AfterMoving
<1>8. CountsExact /\ GarbageIsKnown
  BY <1>3 DEF CountsExact, GarbageIsKnown, IsOld
<1> QED
  BY <1>1, <1>5, <1>6, <1>7, <1>8 DEF CarefulInv

(* A new object points to objects in use, and nothing points to it.        *)
LEMMA CarefulNew ==
  ASSUME CarefulInv, NEW o \in Obj, NEW s \in SlotsOver(Seen), New(o, s), NoReuseWhilePending
  PROVE  CarefulInv' /\ Seen' \subseteq Seen \cup {o}
<1> USE DEF CarefulInv
<1>1. EntryInv'
  BY EntryNew
<1>2. /\ pc = "mutator" /\ pc' = "mutator" /\ o \in freelist
      /\ freelist' = freelist \ {o}
      /\ isalloc' = [isalloc EXCEPT ![o] = TRUE]
      /\ isyoung' = [isyoung EXCEPT ![o] = TRUE]
      /\ ref_count' = [ref_count EXCEPT ![o] = 0]
      /\ slots' = [slots EXCEPT ![o] = s]
      /\ held' = held \cup {o}
      /\ created' = created + 1
      /\ ident' = [ident EXCEPT ![o] = created + 1]
      /\ UNCHANGED <<ismarked, isroot, roots, alloc_page, pendinggc_pages, decVars>>
  BY DEF New
<1>3. /\ isalloc'[o] /\ isyoung'[o] /\ ref_count'[o] = 0 /\ slots'[o] = s
      /\ ident'[o] = created + 1
      /\ \A x \in Obj : x # o =>
           /\ isalloc'[x] = isalloc[x] /\ isyoung'[x] = isyoung[x]
           /\ ref_count'[x] = ref_count[x] /\ slots'[x] = slots[x]
           /\ ident'[x] = ident[x]
  BY <1>2 DEF EntryInv, CollectorTypeOK, HeapTypeOK
<1>4. ~isalloc[o] /\ ~isyoung[o] /\ o \notin Seen
  BY <1>2 DEF EntryInv, Entries, Generations, LiveOnesStay
<1>5. o \notin Range(pending_decs) /\ \A x \in Obj : o \notin Children(x)
  <2>1. o \in freelist \ freelist'
    BY <1>2
  <2>2. o \notin Range(pending_decs) /\ \A x \in Obj \ freelist : o \notin Children(x)
    BY <2>1 DEF NoReuseWhilePending
  <2>3. ASSUME NEW x \in freelist PROVE Children(x) = {}
    <3>1. x \in Obj /\ ~isalloc[x]
      BY DEF EntryInv, Entries, CollectorTypeOK
    <3> QED
      BY <3>1, ChildSlots
  <2> QED
    BY <2>2, <2>3
<1>6. \A x \in Obj : x # o => Children(x)' = Children(x)
  BY <1>3 DEF Children
<1>7. Children(o)' \subseteq Seen
  <2>1. s \in Seq(Seen) /\ Len(s) <= MaxSlots
    BY SeenType, SlotsOverType
  <2> QED
    BY <2>1, <1>3, SeqIndices DEF Children
<1>8. Seen' \subseteq Seen \cup {o}
  <2>1. Seen \cup {o} \in SUBSET Obj /\ held' \subseteq Seen \cup {o}
    BY <1>2, SeenType, SeenClosed
  <2>2. \A x \in Seen \cup {o} : Children(x)' \subseteq Seen \cup {o}
    BY <1>4, <1>6, <1>7, SeenType, SeenClosed
  <2> QED
    BY <2>1, <2>2, SeenLeastNext
<1>9. \A x \in Obj : ident[x] \in Nat /\ ident[x] <= created /\ created \in Nat
  BY DEF Pointers, EntryInv, CollectorTypeOK
<1>10. Pointers'
  <2>1. ASSUME NEW x \in Obj PROVE Len(slots'[x]) <= MaxSlots /\ ident'[x] <= created'
    BY <1>2, <1>3, <1>9, SlotsOverType, SeenType DEF Pointers
  <2>2. ASSUME NEW x \in Obj, NEW c \in Children(x)' PROVE ident'[c] < ident'[x]
    <3>1. CASE x = o
      <4>1. c \in Obj /\ c # o
        BY <3>1, <1>4, <1>7, SeenType
      <4> QED
        BY <4>1, <3>1, <1>3, <1>9
    <3>2. CASE x # o
      <4>1. c \in Children(x) /\ c # o /\ c \in Obj
        BY <3>2, <1>5, <1>6, ChildSlots
      <4> QED
        BY <4>1, <3>2, <1>3 DEF Pointers
    <3> QED
      BY <3>1, <3>2
  <2> QED
    BY <2>1, <2>2 DEF Pointers
<1>11. Identities'
  <2>1. \A x \in Obj : x # o => ident'[x] # ident'[o]
    BY <1>3, <1>9
  <2>2. ident'[o] > 0
    BY <1>3, <1>9
  <2> QED
    BY <2>1, <2>2, <1>3 DEF Identities
<1>12. \A x \in Obj : /\ IsOld(x) <=> isalloc'[x] /\ ~isyoung'[x]
                      /\ IsOld(x) => x # o
  BY <1>3, <1>4 DEF IsOld
<1>13. Generations'
  <2>1. \A x \in Obj : isyoung'[x] => isalloc'[x] /\ ref_count'[x] = 0
    BY <1>3 DEF Generations
  <2>2. \A x \in Obj : IsOld(x)' => \A c \in Children(x)' : ~isyoung'[c]
    <3> SUFFICES ASSUME NEW x \in Obj, IsOld(x)', NEW c \in Children(x)'
                 PROVE  ~isyoung'[c]
      OBVIOUS
    <3>1. IsOld(x) /\ x # o
      BY <1>12 DEF IsOld
    <3>2. c \in Children(x) /\ c # o /\ c \in Obj
      BY <3>1, <1>5, <1>6, ChildSlots
    <3> QED
      BY <3>1, <3>2, <1>3 DEF Generations
  <2>3. \A x \in Range(pending_decs) : x \in Obj
    BY SeqIndices DEF EntryInv, CollectorTypeOK
  <2>4. \A x \in old_roots : x \in Obj
    BY DEF EntryInv, CollectorTypeOK
  <2>5. pending_decs' = pending_decs /\ old_roots' = old_roots
    BY <1>2 DEF decVars
  <2>6. \A x \in Range(pending_decs) : ~isyoung'[x]
    BY <2>3, <1>3, <1>5 DEF Generations
  <2>7. \A x \in old_roots : isalloc'[x] /\ ~isyoung'[x]
    BY <2>4, <1>12 DEF Generations
  <2> QED
    BY <2>1, <2>2, <2>5, <2>6, <2>7 DEF Generations, IsOld
<1>14. Roots' /\ Marked'
  BY <1>2 DEF Roots, Marked, BeforeMoving, AfterMoving
<1>15. LiveOnesStay'
  <2>1. \A x \in Seen' : isalloc'[x] /\ x \notin Range(pending_decs)
    BY <1>3, <1>4, <1>5, <1>8, SeenType DEF LiveOnesStay
  <2> QED
    BY <2>1, <1>2 DEF LiveOnesStay, decVars
<1>16. CountsExact'
  <2>1. \A p : RefsTo(p)' = RefsTo(p)
    BY <1>3, <1>12, SameRefs
  <2> QED
    BY <2>1, <1>3, <1>12 DEF CountsExact, IsOld
<1>17. GarbageIsKnown'
  BY <1>2, <1>3, <1>12 DEF GarbageIsKnown, IsOld, decVars
<1> QED
  BY <1>1, <1>8, <1>10, <1>11, <1>13, <1>14, <1>15, <1>16, <1>17

(* Refreshing the allocator's page is no concern of the heap. *)
LEMMA CarefulRefresh ==
  ASSUME CarefulInv, NEW p \in Page, Refresh(p)
  PROVE  CarefulInv' /\ SameGraph
<1> USE DEF CarefulInv
<1>1. EntryInv'
  BY EntryRefresh
<1>2. /\ pc = "mutator" /\ pc' = "mutator"
      /\ UNCHANGED <<heapVars, roots, held, decVars, histVars>>
  BY DEF Refresh
<1>3. Seen' = Seen
  BY <1>2, SameSeen DEF heapVars
<1>4. Pointers' /\ Identities' /\ CountsExact'
  BY <1>2, CarefulKept DEF heapVars
<1>5. Generations' /\ GarbageIsKnown'
  BY <1>2 DEF heapVars, decVars, Generations, GarbageIsKnown, IsOld, Children
<1>6. Roots' /\ Marked' /\ LiveOnesStay'
  BY <1>2, <1>3 DEF heapVars, decVars, Roots, Marked, LiveOnesStay, BeforeMoving, AfterMoving
<1> QED
  BY <1>1, <1>2, <1>3, <1>4, <1>5, <1>6 DEF SameGraph, heapVars, histVars

(* Neither is running out of memory. *)
LEMMA CarefulOutOfMemory ==
  ASSUME CarefulInv, OutOfMemory
  PROVE  CarefulInv' /\ SameGraph
<1> USE DEF CarefulInv
<1>1. EntryInv'
  BY EntryOutOfMemory
<1>2. /\ pc = "evacuate" /\ pc' = "aborted"
      /\ UNCHANGED <<heapVars, roots, held, pageVars, decVars, histVars>>
  BY DEF OutOfMemory
<1>3. Seen' = Seen
  BY <1>2, SameSeen DEF heapVars
<1>4. Pointers' /\ Identities' /\ CountsExact'
  BY <1>2, CarefulKept DEF heapVars
<1>5. Generations' /\ GarbageIsKnown'
  BY <1>2 DEF heapVars, decVars, Generations, GarbageIsKnown, IsOld, Children
<1>6. Roots' /\ LiveOnesStay'
  BY <1>2, <1>3
  DEF heapVars, decVars, pageVars, Roots, LiveOnesStay, BeforeMoving, AfterMoving,
      IsOld, CollectedPages
<1>7. Marked'
  BY <1>2, <1>3 DEF heapVars, Marked, BeforeMoving, Children
<1> QED
  BY <1>1, <1>2, <1>3, <1>4, <1>5, <1>6, <1>7 DEF SameGraph, heapVars, histVars

(* Neither is ending the decrements. *)
LEMMA CarefulEndDecrements ==
  ASSUME CarefulInv, EndDecrements
  PROVE  CarefulInv' /\ SameGraph
<1> USE DEF CarefulInv
<1>1. EntryInv'
  BY EntryEndDecrements
<1>2. /\ pc = "processDecrements" /\ pc' = "rebuild"
      /\ UNCHANGED <<heapVars, roots, held, pageVars, old_roots, pending_decs, histVars>>
  BY DEF EndDecrements
<1>3. Seen' = Seen
  BY <1>2, SameSeen DEF heapVars
<1>4. Pointers' /\ Identities' /\ CountsExact'
  BY <1>2, CarefulKept DEF heapVars
<1>5. Generations' /\ GarbageIsKnown'
  BY <1>2 DEF heapVars, Generations, GarbageIsKnown, IsOld, Children
<1>6. Roots' /\ LiveOnesStay'
  BY <1>2, <1>3
  DEF heapVars, pageVars, Roots, LiveOnesStay, BeforeMoving, AfterMoving,
      IsOld, CollectedPages
<1>7. Marked'
  BY <1>2 DEF Marked, BeforeMoving
<1> QED
  BY <1>1, <1>2, <1>3, <1>4, <1>5, <1>6, <1>7 DEF SameGraph, heapVars, histVars

(* Nothing changes when nothing happens. *)
LEMMA CarefulStutter ==
  ASSUME CarefulInv, UNCHANGED vars
  PROVE  CarefulInv' /\ SameGraph
<1> USE DEF CarefulInv
<1>1. EntryInv'
  BY EntryStutter
<1>2. UNCHANGED <<heapVars, roots, pc, held, pageVars, decVars, histVars>>
  BY DEF vars
<1>3. Seen' = Seen
  BY <1>2, SameSeen DEF heapVars
<1>4. Pointers' /\ Identities' /\ CountsExact'
  BY <1>2, CarefulKept DEF heapVars
<1>5. Generations' /\ GarbageIsKnown'
  BY <1>2 DEF heapVars, decVars, Generations, GarbageIsKnown, IsOld, Children
<1>6. Roots' /\ LiveOnesStay'
  BY <1>2, <1>3
  DEF heapVars, decVars, pageVars, Roots, LiveOnesStay, IsOld, CollectedPages
<1>7. Marked'
  BY <1>2, <1>3 DEF heapVars, Marked, Children
<1> QED
  BY <1>1, <1>2, <1>3, <1>4, <1>5, <1>6, <1>7 DEF SameGraph, heapVars, histVars

(* The roots of a collection are the old roots of the next. *)
LEMMA CarefulEndCollect ==
  ASSUME CarefulInv, EndCollect
  PROVE  CarefulInv' /\ SameGraph
<1> USE DEF CarefulInv
<1>1. EntryInv'
  BY EntryEndCollect
<1>2. /\ pc = "end" /\ pc' = "mutator" /\ old_roots' = roots /\ roots' = {}
      /\ UNCHANGED <<isalloc, isyoung, ref_count, slots, held, pageVars, pending_decs,
                     deccount, histVars>>
      /\ isroot' = [o \in Obj |-> isroot[o] /\ o \notin roots]
  BY DEF EndCollect
<1>3. Seen' = Seen
  BY <1>2, SameSeen
<1>4. Pointers' /\ Identities' /\ CountsExact'
  BY <1>2, CarefulKept
<1>5. roots = held /\ held \subseteq Seen /\ held \subseteq Obj
  BY <1>2, SeenClosed, SeenType DEF Roots
<1>6. \A o \in roots : IsOld(o)
  BY <1>2, <1>5 DEF Roots, LiveOnesStay, AfterMoving, IsOld
<1>7. Generations'
  BY <1>2, <1>6 DEF Generations, IsOld, Children
<1>8. \A o \in Obj : isroot[o] <=> o \in roots
  BY DEF Roots
<1>9. \A o \in Obj : ~isroot'[o]
  BY <1>2, <1>8, Zenon
<1>10. GarbageIsKnown'
  BY <1>2, <1>8 DEF GarbageIsKnown, IsOld, Roots
<1>11. Roots'
  BY <1>2, <1>9 DEF Roots, BeforeMoving, AfterMoving
<1>12. Marked' /\ LiveOnesStay'
  BY <1>2, <1>3 DEF Marked, LiveOnesStay, BeforeMoving
<1> QED
  BY <1>1, <1>2, <1>3, <1>4, <1>7, <1>10, <1>11, <1>12 DEF SameGraph, histVars

(* Marking finds the young objects in use. *)
LEMMA CarefulMark ==
  ASSUME CarefulInv, NEW S \in SUBSET Seen, Mark(S), DropsForGood, HoldsOldOnes
  PROVE  CarefulInv' /\ Seen' \subseteq Seen
<1> USE DEF CarefulInv
<1>1. EntryInv'
  BY EntryMark
<1>2. /\ pc = "mutator" /\ pc' = "evacuate" /\ held' = S
      /\ UNCHANGED <<isalloc, isyoung, ref_count, slots, pageVars, decVars, histVars>>
      /\ roots' = {o \in S : isalloc[o]}
      /\ \A o \in Obj : isroot'[o] <=> o \in roots'
  BY MarkShape
<1>3. PICK young \in SUBSET Obj :
         /\ young = {o \in Obj : isalloc[o] /\ isyoung[o]}
         /\ \A o \in Obj : ismarked'[o] <=> o \in FoundFrom(roots' \cap young, young)
  BY MarkShape
<1>4. roots' = S /\ S \subseteq Obj
  BY <1>2, SeenType DEF LiveOnesStay
<1>5. \A o : Children(o)' = Children(o)
  BY <1>2 DEF Children
<1>6. Seen' \subseteq Seen
  BY <1>2, <1>5, SeenType, SeenClosed, SeenLeastNext
<1>7. /\ S \subseteq Seen' /\ Seen' \subseteq Obj
      /\ \A o \in Seen' : Children(o) \subseteq Seen'
  BY <1>1, <1>2, <1>5, SeenClosedNext
<1>8. Pointers' /\ Identities' /\ CountsExact'
  BY <1>2, CarefulKept
<1>9. Generations'
  BY <1>2, <1>5 DEF Generations, IsOld, decVars
<1>10. \A o \in Obj : ~isroot[o]
  BY <1>2 DEF Roots
<1>11. GarbageIsKnown'
  BY <1>2, <1>10 DEF GarbageIsKnown, IsOld, decVars
<1>12. Roots'
  <2>1. \A o \in Obj : IsOld(o)' /\ PageOf[o] \in CollectedPages' => isroot'[o]
    <3>1. CollectedPages' = CollectedPages
      BY <1>2 DEF CollectedPages, pageVars
    <3> QED
      BY <3>1, <1>2, <1>4 DEF HoldsOldOnes, IsOld
  <2> QED
    BY <2>1, <1>2, <1>4 DEF Roots, AfterMoving
<1>13. LiveOnesStay'
  BY <1>2, <1>4, <1>6 DEF LiveOnesStay, DropsForGood, decVars
<1> DEFINE F == FoundFrom(roots' \cap young, young)
<1>14. /\ F \subseteq young /\ roots' \cap young \subseteq F
       /\ \A o \in F : Children(o) \cap young \subseteq F
       /\ \A o \in F : o \in roots' \/ \E x \in F : o \in Children(x)
  <2>1. PICK R \in SUBSET young : R = roots' \cap young
    OBVIOUS
  <2>2. /\ FoundFrom(R, young) \subseteq young /\ R \subseteq FoundFrom(R, young)
        /\ \A o \in FoundFrom(R, young) :
             /\ Children(o) \cap young \subseteq FoundFrom(R, young)
             /\ o \in R \/ \E x \in FoundFrom(R, young) : o \in Children(x)
    BY FoundFacts
  <2> QED
    BY <2>1, <2>2
<1>15. F \subseteq Seen'
  <2>1. roots' \cap young \subseteq Seen'
    BY <1>4, <1>7
  <2>2. \A o \in Seen' \cap young : Children(o) \cap young \subseteq Seen'
    BY <1>7
  <2> QED
    BY <2>1, <2>2, FoundLeast
<1>16. \A o \in Obj : ismarked'[o] <=> o \in F
  BY <1>3
<1> HIDE DEF F
<1>17. \A o \in Seen' : isyoung[o] => o \in F
  <2> DEFINE T == {o \in Seen' : isyoung[o] => o \in F}
  <2>1. \A o \in Seen' : isyoung[o] <=> o \in young
    BY <1>3, <1>6, <1>7 DEF LiveOnesStay
  <2>2. T \in SUBSET Obj /\ held' \subseteq T
    BY <2>1, <1>2, <1>4, <1>7, <1>14
  <2>3. ASSUME NEW o \in T, NEW c \in Children(o) PROVE c \in T
    <3>1. o \in Seen' /\ c \in Seen' /\ o \in Obj /\ isalloc[o]
      BY <2>3, <1>6, <1>7 DEF LiveOnesStay
    <3>2. CASE isyoung[o]
      BY <3>1, <3>2, <2>1, <2>3, <1>14
    <3>3. CASE ~isyoung[o]
      <4>1. ~isyoung[c]
        BY <3>1, <3>3, <2>3 DEF Generations, IsOld
      <4> QED
        BY <3>1, <4>1
    <3> QED
      BY <3>2, <3>3
  <2>4. Seen' \subseteq T
    <3>1. \A o \in T : Children(o)' \subseteq T
      BY <2>3, <1>5
    <3> HIDE DEF T
    <3> QED
      BY <2>2, <3>1, SeenLeastNext
  <2> QED
    BY <2>4
<1>18. Marked'
  <2>1. \A o \in Seen' : isyoung'[o] => ismarked'[o]
    BY <1>2, <1>7, <1>16, <1>17
  <2>2. ASSUME NEW o \in Obj, ismarked'[o]
        PROVE  /\ o \in Seen'
               /\ \A c \in Children(o)' : isyoung'[c] => ismarked'[c]
               /\ isroot'[o] \/ \E x \in Obj : ismarked'[x] /\ o \in Children(x)'
    <3>1. o \in F /\ o \in Seen'
      BY <2>2, <1>15, <1>16
    <3>2. ASSUME NEW c \in Children(o), isyoung[c] PROVE ismarked'[c]
      <4>1. c \in Seen' /\ c \in Obj
        BY <3>1, <1>7
      <4>2. c \in young
        BY <4>1, <3>2, <1>3, <1>6 DEF LiveOnesStay
      <4> QED
        BY <3>1, <4>1, <4>2, <1>14, <1>16
    <3>3. isroot'[o] \/ \E x \in Obj : ismarked'[x] /\ o \in Children(x)
      BY <3>1, <1>2, <1>14, <1>16
    <3> QED
      BY <3>1, <3>2, <3>3, <1>2, <1>5
  <2> QED
    BY <2>1, <2>2 DEF Marked
<1> QED
  BY <1>1, <1>6, <1>8, <1>9, <1>11, <1>12, <1>13, <1>18

(* The roots that were dropped are to be freed. *)
LEMMA CarefulComputeDeadRoots ==
  ASSUME CarefulInv, ComputeDeadRoots
  PROVE  CarefulInv' /\ SameGraph
<1> USE DEF CarefulInv
<1>1. EntryInv'
  BY EntryComputeDeadRoots
<1>2. /\ pc = "computeDeadRoots" /\ pc' = "processDecrements" /\ old_roots' = {}
      /\ UNCHANGED <<heapVars, roots, held, pageVars, deccount, histVars>>
  BY DEF ComputeDeadRoots
<1>3. Range(pending_decs') = Range(pending_decs) \cup (old_roots \ roots)
  BY DeadRootsShape
<1>4. Seen' = Seen
  BY <1>2, SameSeen DEF heapVars
<1>5. Pointers' /\ Identities' /\ CountsExact'
  BY <1>2, CarefulKept DEF heapVars
<1>6. Generations'
  BY <1>2, <1>3 DEF heapVars, Generations, IsOld, Children
<1>7. GarbageIsKnown'
  BY <1>2, <1>3 DEF heapVars, GarbageIsKnown, Roots, IsOld
<1>8. Roots'
  BY <1>2, <1>4
  DEF heapVars, pageVars, Roots, BeforeMoving, AfterMoving, IsOld, CollectedPages
<1>9. Marked' /\ LiveOnesStay'
  BY <1>2, <1>3, <1>4 DEF heapVars, Marked, LiveOnesStay, BeforeMoving
<1> QED
  BY <1>1, <1>2, <1>4, <1>5, <1>6, <1>7, <1>8, <1>9 DEF SameGraph, heapVars, histVars

(* Rebuilding frees the young objects and no old one. *)
LEMMA CarefulRebuild ==
  ASSUME CarefulInv, Rebuild
  PROVE  CarefulInv' /\ SameGraph
<1> USE DEF CarefulInv
<1>0. EntryInv'
  BY EntryRebuild
<1>2. /\ pc = "rebuild" /\ pc' = "end" /\ alloc_page' = NULL /\ pendinggc_pages' = {}
      /\ UNCHANGED <<ismarked, isroot, roots, held, decVars, histVars>>
  BY DEF Rebuild
<1>1. EntryInv' /\ \A o \in Obj : ~isyoung'[o]
  BY <1>0, <1>2 DEF EntryInv, Marks
<1>3. PICK freed \in SUBSET Obj :
           /\ freed = {o \in Obj : /\ PageOf[o] \in CollectedPages
                                   /\ GC_SHOULD_FREE_LIST_ADD(o)}
           /\ \A o \in Obj : /\ isalloc'[o] <=> isalloc[o] /\ o \notin freed
                             /\ isyoung'[o] <=> isyoung[o] /\ o \notin freed
           /\ ref_count' = [o \in Obj |-> IF o \in freed THEN 0 ELSE ref_count[o]]
           /\ slots' = [o \in Obj |-> IF o \in freed THEN <<>> ELSE slots[o]]
  BY RebuildShape
<1>4. ASSUME NEW o \in Obj, IsOld(o) PROVE o \notin freed
  <2>1. PageOf[o] \in CollectedPages => isroot[o]
    BY <1>2, <1>4 DEF Roots, AfterMoving
  <2>2. isalloc[o]
    BY <1>4 DEF IsOld
  <2> QED
    BY <2>1, <2>2, <1>3 DEF GC_SHOULD_FREE_LIST_ADD
<1>5. ASSUME NEW o \in Obj
      PROVE  /\ IsOld(o) <=> isalloc'[o] /\ ~isyoung'[o]
             /\ IsOld(o) => slots'[o] = slots[o] /\ ref_count'[o] = ref_count[o]
             /\ slots'[o] = slots[o] \/ slots'[o] = <<>>
  BY <1>3, <1>4 DEF IsOld
<1>6. ASSUME NEW o \in Obj
      PROVE  /\ IsOld(o) => Children(o)' = Children(o)
             /\ Children(o)' \subseteq Children(o)
  <2>1. slots'[o] = <<>> => Children(o)' = {}
    BY EmptySeq DEF Children, Range
  <2>2. slots'[o] = slots[o] => Children(o)' = Children(o)
    BY DEF Children
  <2> QED
    BY <1>5, <2>1, <2>2
<1>7. Seen \subseteq Obj /\ \A o \in Seen : IsOld(o)
  BY <1>2, SeenType DEF Roots, LiveOnesStay, AfterMoving, IsOld
<1>8. Seen' = Seen
  BY <1>0, <1>2, <1>5, <1>7, SeenUnchanged
<1>9. Pointers'
  <2>1. MaxSlots \in Nat
    BY CollectorAssumption
  <2>2. \A o \in Obj : Len(slots'[o]) <= MaxSlots
    BY <1>5, <2>1, EmptySeq DEF Pointers
  <2> QED
    BY <2>2, <1>2, <1>6 DEF Pointers, histVars
<1>10. Identities'
  BY <1>2, <1>3 DEF Identities, histVars
<1>11. Generations'
  <2>1. \A o \in old_roots : o \in Obj
    BY DEF EntryInv, CollectorTypeOK
  <2>2. Range(pending_decs) \subseteq Obj
    BY SeqIndices DEF EntryInv, CollectorTypeOK
  <2>3. \A o \in Obj : IsOld(o)' => \A c \in Children(o)' : ~isyoung'[c]
    BY <1>1, <1>5, <1>6, ChildSlots
  <2>4. \A o \in old_roots' : IsOld(o)'
    BY <2>1, <1>2, <1>5 DEF Generations, decVars, IsOld
  <2> QED
    BY <2>2, <2>3, <2>4, <1>1, <1>2 DEF Generations, decVars
<1>12. Roots' /\ Marked'
  BY <1>1, <1>2, <1>7, <1>8 DEF Roots, Marked, decVars, BeforeMoving, AfterMoving
<1>13. LiveOnesStay'
  BY <1>2, <1>5, <1>7, <1>8 DEF LiveOnesStay, decVars
<1>14. CountsExact'
  <2>1. \A p : RefsTo(p)' = RefsTo(p)
    BY <1>5, SameRefs
  <2> QED
    BY <2>1, <1>5 DEF CountsExact, IsOld
<1>15. GarbageIsKnown'
  BY <1>2, <1>5 DEF GarbageIsKnown, IsOld, decVars
<1> QED
  BY <1>1, <1>2, <1>5, <1>7, <1>8, <1>9, <1>10, <1>11, <1>12, <1>13, <1>14, <1>15
  DEF SameGraph, histVars

-----------------------------------------------------------------------------
(***************************************************************************)
(* Freeing an object.                                                      *)
(***************************************************************************)

(* Counts do not overflow: memory has fewer slots.                         *)
LEMMA RefsBounded ==
  ASSUME HeapTypeOK, Pointers, NEW p
  PROVE  /\ IsFiniteSet(RefsTo(p)) /\ Cardinality(RefsTo(p)) \in Nat
         /\ Cardinality(RefsTo(p)) < RefModulus
         /\ RefsTo(p) \subseteq Obj \X (1..MaxSlots)
<1> DEFINE P == Obj \X (1..MaxSlots)
<1>1. RefsTo(p) \subseteq P
  <2>1. ASSUME NEW r \in RefsTo(p) PROVE r \in P
    <3>1. PICK o, k : r = <<o, k>> /\ o \in Obj /\ k \in DOMAIN slots[o]
      BY RefsElement
    <3>2. slots[o] \in Seq(Obj \cup {NULL})
      BY <3>1 DEF HeapTypeOK
    <3>3. k \in 1..Len(slots[o]) /\ Len(slots[o]) \in Nat
      BY <3>1, <3>2, LenProperties
    <3>4. Len(slots[o]) <= MaxSlots /\ MaxSlots \in Nat
      BY <3>1, CollectorAssumption DEF Pointers
    <3> QED
      BY <3>1, <3>3, <3>4
  <2> QED
    BY <2>1
<1>2. PICK m \in Nat : m = MaxSlots
  BY CollectorAssumption
<1>3. IsFiniteSet(1..m) /\ Cardinality(1..m) = m
  BY FS_Interval
<1>4. IsFiniteSet(P) /\ Cardinality(P) = Cardinality(Obj) * MaxSlots
  BY <1>2, <1>3, HeapAssumption, FS_Product
<1> HIDE DEF P
<1>5. PICK c \in Nat : c = Cardinality(P)
  BY <1>4, FS_CardinalityType
<1>6. c < RefModulus
  BY <1>4, <1>5, CountAssumption
<1>7. /\ IsFiniteSet(RefsTo(p)) /\ Cardinality(RefsTo(p)) \in Nat
      /\ Cardinality(RefsTo(p)) <= c
  BY <1>1, <1>4, <1>5, FS_Subset, FS_CardinalityType
<1> QED
  BY <1>1, <1>6, <1>7, CountFacts DEF P

(* The references to p when k slots of obj are done. *)
RefsLeft(p, obj, k) == {r \in RefsTo(p) : ~(r[1] = obj /\ r[2] <= k)}

(* Each slot takes one reference. *)
LEMMA RefsLeftFacts ==
  ASSUME EntryInv, NEW obj \in Obj, IsOld(obj), NEW k \in Nat, NEW q,
         k + 1 \in 1..Len(slots[obj]), q = slots[obj][k + 1]
  PROVE  /\ <<obj, k + 1>> \in RefsLeft(q, obj, k)
         /\ RefsLeft(q, obj, k + 1) = RefsLeft(q, obj, k) \ {<<obj, k + 1>>}
         /\ \A p : p # q => RefsLeft(p, obj, k + 1) = RefsLeft(p, obj, k)
<1>1. slots[obj] \in Seq(Obj)
  BY DEF EntryInv, Entries
<1>2. DOMAIN slots[obj] = 1..Len(slots[obj])
  BY <1>1, SeqIndices
<1>3. <<obj, k + 1>> \in RefsTo(q)
  BY <1>2, RefsElement
<1>4. <<obj, k + 1>> \in RefsLeft(q, obj, k)
  BY <1>3 DEF RefsLeft
<1>5. ASSUME NEW p, NEW r \in RefsTo(p), r[1] = obj
      PROVE  r[2] \in Nat /\ slots[obj][r[2]] = p
  <2>1. PICK x, i : r = <<x, i>>
    BY RefsElement
  <2>2. x = obj /\ i = r[2]
    BY <1>5, <2>1
  <2>3. i \in DOMAIN slots[obj] /\ slots[obj][i] = p
    BY <2>1, <2>2, RefsElement
  <2> QED
    BY <1>2, <2>2, <2>3
<1>6. RefsLeft(q, obj, k + 1) = RefsLeft(q, obj, k) \ {<<obj, k + 1>>}
  <2>1. ASSUME NEW r \in RefsTo(q)
        PROVE  ~(r[1] = obj /\ r[2] <= k + 1) <=>
                 ~(r[1] = obj /\ r[2] <= k) /\ r # <<obj, k + 1>>
    <3>1. r = <<r[1], r[2]>>
      BY RefsElement
    <3>2. CASE r[1] # obj
      BY <3>2
    <3>3. CASE r[1] = obj
      <4>1. r[2] \in Nat
        BY <3>3, <1>5
      <4>2. r = <<obj, k + 1>> <=> r[2] = k + 1
        BY <3>1, <3>3
      <4> QED
        BY <3>3, <4>1, <4>2
    <3> QED
      BY <3>2, <3>3
  <2> QED
    BY <2>1 DEF RefsLeft
<1>7. ASSUME NEW p, p # q PROVE RefsLeft(p, obj, k + 1) = RefsLeft(p, obj, k)
  <2>1. ASSUME NEW r \in RefsTo(p)
        PROVE  ~(r[1] = obj /\ r[2] <= k + 1) <=> ~(r[1] = obj /\ r[2] <= k)
    <3>1. CASE r[1] # obj
      BY <3>1
    <3>2. CASE r[1] = obj
      <4>1. r[2] \in Nat /\ r[2] # k + 1
        BY <3>2, <1>5, <1>7
      <4> QED
        BY <4>1
    <3> QED
      BY <3>1, <3>2
  <2> QED
    BY <2>1 DEF RefsLeft
<1> QED
  BY <1>4, <1>6, <1>7

(* What d holds when k slots of obj are done: the counts are the numbers   *)
(* of references that are left, and what lost the last one is to be freed, *)
(* unless it is a root.                                                    *)
Done(d, k, obj) ==
  /\ DecTypes(d)
  /\ \A p \in Obj : IsOld(p) => d.count[p] = Cardinality(RefsLeft(p, obj, k))
  /\ \A p \in Obj \ Children(obj) : d.count[p] = ref_count[p]
  /\ Range(Tail(pending_decs)) \subseteq Range(d.pending)
  /\ \A p \in Range(d.pending) :
       \/ p \in Range(Tail(pending_decs))
       \/ /\ p \in Children(obj) /\ ~isroot[p]
          /\ IsOld(p) => RefsLeft(p, obj, k) = {}
  /\ \A p \in Obj : /\ IsOld(p) /\ ~isroot[p]
                    /\ RefsTo(p) # {} /\ RefsLeft(p, obj, k) = {}
                    => p \in Range(d.pending)

(* A slot more. *)
LEMMA DoneStep ==
  ASSUME EntryInv, Pointers, NEW obj \in Obj, IsOld(obj), NEW k \in Nat,
         k + 1 \in 1..Len(slots[obj]), NEW d, Done(d, k, obj)
  PROVE  Done(DecrementSlot(d, slots[obj][k + 1]), k + 1, obj)
<1>1. PICK q : q = slots[obj][k + 1]
  OBVIOUS
<1>2. q \in Obj /\ q \in Children(obj)
  <2>1. slots[obj] \in Seq(Obj)
    BY DEF EntryInv, Entries
  <2>2. q \in Obj /\ q \in Range(slots[obj])
    BY <1>1, <2>1, SeqIndices
  <2> QED
    BY <2>2, NullAssumption DEF Children
<1>3. /\ <<obj, k + 1>> \in RefsLeft(q, obj, k)
      /\ RefsLeft(q, obj, k + 1) = RefsLeft(q, obj, k) \ {<<obj, k + 1>>}
      /\ \A p : p # q => RefsLeft(p, obj, k + 1) = RefsLeft(p, obj, k)
  BY <1>1, RefsLeftFacts
<1>4. PICK e : e = DecrementSlot(d, q)
  OBVIOUS
<1> DEFINE count == [d.count EXCEPT ![q] = (@ + RefModulus - 1) % RefModulus]
<1>5. DecTypes(e)
  BY <1>2, <1>4, SlotTypes DEF Done
<1>6. e.count = count
  BY <1>4 DEF DecrementSlot
<1>7. e.pending = IF Dies(q, count) THEN Append(d.pending, q) ELSE d.pending
  BY <1>4 DEF DecrementSlot
<1>8. /\ \A p \in Obj : p # q => count[p] = d.count[p]
      /\ count[q] = (d.count[q] + RefModulus - 1) % RefModulus
  BY <1>2 DEF Done, DecTypes
<1> HIDE DEF count
<1>9. IsOld(q) => /\ count[q] = Cardinality(RefsLeft(q, obj, k + 1))
                  /\ count[q] = 0 <=> RefsLeft(q, obj, k + 1) = {}
  <2> SUFFICES ASSUME IsOld(q)
               PROVE  /\ count[q] = Cardinality(RefsLeft(q, obj, k + 1))
                      /\ count[q] = 0 <=> RefsLeft(q, obj, k + 1) = {}
    OBVIOUS
  <2> DEFINE R == RefsLeft(q, obj, k)
             T == RefsLeft(q, obj, k + 1)
  <2>1. IsFiniteSet(RefsTo(q)) /\ Cardinality(RefsTo(q)) \in Nat /\ Cardinality(RefsTo(q)) < RefModulus
    BY RefsBounded DEF EntryInv, CollectorTypeOK
  <2>2. R \in SUBSET RefsTo(q)
    BY DEF RefsLeft
  <2>3. T = R \ {<<obj, k + 1>>} /\ <<obj, k + 1>> \in R
    BY <1>3
  <2>4. d.count[q] = Cardinality(R)
    BY <1>2 DEF Done
  <2> HIDE DEF R, T
  <2>5. IsFiniteSet(R) /\ Cardinality(R) <= Cardinality(RefsTo(q)) /\ Cardinality(R) \in Nat
    BY <2>1, <2>2, FS_Subset, FS_CardinalityType
  <2>6. IsFiniteSet(T) /\ Cardinality(T) = Cardinality(R) - 1 /\ Cardinality(T) \in Nat
    BY <2>3, <2>5, FS_RemoveElement, FS_CardinalityType
  <2>7. Cardinality(T) = 0 <=> T = {}
    BY <2>6, FS_EmptySet
  <2>8. Cardinality(R) > 0 /\ Cardinality(R) < RefModulus
    BY <2>1, <2>5, <2>6, CountFacts
  <2>9. (Cardinality(R) + RefModulus - 1) % RefModulus = Cardinality(R) - 1
    BY <2>5, <2>8, CountFacts
  <2>10. count[q] = Cardinality(T)
    BY <2>4, <2>6, <2>9, <1>8
  <2> QED
    BY <2>7, <2>10 DEF T
<1>10. \A p \in Obj : IsOld(p) => e.count[p] = Cardinality(RefsLeft(p, obj, k + 1))
  BY <1>3, <1>6, <1>8, <1>9 DEF Done
<1>11. d.pending \in Seq(Obj)
  BY DEF Done, DecTypes
<1>12. Range(e.pending) = Range(d.pending) \cup (IF Dies(q, count) THEN {q} ELSE {})
  <2>1. Range(Append(d.pending, q)) = Range(d.pending) \cup {q}
    BY <1>2, <1>11, AppendFacts
  <2> QED
    BY <2>1, <1>7
<1>13. Range(Tail(pending_decs)) \subseteq Range(e.pending)
  BY <1>12 DEF Done
<1>14. ASSUME NEW p \in Range(e.pending)
       PROVE  \/ p \in Range(Tail(pending_decs))
              \/ /\ p \in Children(obj) /\ ~isroot[p]
                 /\ IsOld(p) => RefsLeft(p, obj, k + 1) = {}
  <2>1. CASE p \in Range(d.pending)
    <3>1. \A x : RefsLeft(x, obj, k) = {} => RefsLeft(x, obj, k + 1) = {}
      BY <1>3
    <3> QED
      BY <2>1, <3>1 DEF Done
  <2>2. CASE p = q /\ Dies(q, count)
    BY <2>2, <1>2, <1>9 DEF Dies
  <2> QED
    BY <2>1, <2>2, <1>12
<1>15. ASSUME NEW p \in Obj, IsOld(p), ~isroot[p], RefsTo(p) # {}, RefsLeft(p, obj, k + 1) = {}
       PROVE  p \in Range(e.pending)
  <2>1. CASE p = q
    BY <2>1, <1>9, <1>12, <1>15 DEF Dies
  <2>2. CASE p # q
    <3>1. RefsLeft(p, obj, k) = {}
      BY <2>2, <1>3, <1>15
    <3> QED
      BY <3>1, <1>12, <1>15 DEF Done
  <2> QED
    BY <2>1, <2>2
<1>16. \A p \in Obj \ Children(obj) : e.count[p] = ref_count[p]
  BY <1>2, <1>6, <1>8 DEF Done
<1>17. Done(e, k + 1, obj)
  BY <1>5, <1>10, <1>13, <1>14, <1>15, <1>16 DEF Done
<1> QED
  BY <1>1, <1>4, <1>17

(* All slots. *)
LEMMA DecrementedDone ==
  ASSUME EntryInv, Pointers, CountsExact, pending_decs # <<>>, NEW obj \in Obj, IsOld(obj)
  PROVE  Done(Decremented(obj), Len(slots[obj]), obj)
<1> DEFINE n == Len(slots[obj])
<1>0. slots[obj] \in Seq(Obj)
  BY DEF EntryInv, Entries
<1>1. PICK f : /\ f[0] = [count |-> ref_count, pending |-> Tail(pending_decs)]
               /\ \A k \in 1..n : f[k] = DecrementSlot(f[k - 1], slots[obj][k])
               /\ Decremented(obj) = f[n]
  BY <1>0, DecrementedIsLast
<1>2. n \in Nat
  BY <1>0, SeqIndices
<1> DEFINE T == {k \in Nat : k <= n => Done(f[k], k, obj)}
<1>3. 0 \in T
  <2>1. Tail(pending_decs) \in Seq(Obj) /\ ref_count \in [Obj -> Nat]
    BY PopFrontFacts DEF EntryInv, CollectorTypeOK, HeapTypeOK
  <2>2. f[0].count = ref_count /\ f[0].pending = Tail(pending_decs)
    BY <1>1
  <2>3. DecTypes(f[0])
    BY <2>1, <2>2 DEF DecTypes
  <2>4. ASSUME NEW p PROVE RefsLeft(p, obj, 0) = RefsTo(p)
    <3>1. ASSUME NEW r \in RefsTo(p), r[1] = obj PROVE ~(r[2] <= 0)
      <4>1. PICK x, i : r = <<x, i>> /\ <<x, i>> \in RefsTo(p)
        BY RefsElement
      <4>2. x = obj /\ i = r[2] /\ i \in DOMAIN slots[x]
        BY <3>1, <4>1, RefsElement
      <4>3. i \in 1..n
        BY <1>0, <4>2, SeqIndices
      <4> QED
        BY <1>2, <4>2, <4>3
    <3> QED
      BY <3>1 DEF RefsLeft
  <2>5. Done(f[0], 0, obj)
    BY <2>2, <2>3, <2>4 DEF Done, CountsExact
  <2> QED
    BY <2>5
<1> HIDE DEF n
<1>4. ASSUME NEW k \in Nat, k \in T PROVE k + 1 \in T
  <2> SUFFICES ASSUME k + 1 <= n PROVE Done(f[k + 1], k + 1, obj)
    OBVIOUS
  <2>1. k + 1 \in 1..n /\ (k + 1) - 1 = k /\ k <= n
    BY <1>2
  <2>2. f[k + 1] = DecrementSlot(f[k], slots[obj][k + 1])
    BY <1>1, <2>1
  <2>3. Done(f[k], k, obj)
    BY <1>4, <2>1
  <2>4. Done(DecrementSlot(f[k], slots[obj][k + 1]), k + 1, obj)
    BY <2>1, <2>3, DoneStep DEF n
  <2> QED
    BY <2>2, <2>4
<1>5. \A k \in Nat : k \in T
  <2> HIDE DEF T
  <2> QED
    BY <1>3, <1>4, SetInduction, Zenon
<1>6. n \in T
  BY <1>2, <1>5
<1> QED
  BY <1>1, <1>2, <1>6 DEF n

(* What was freed already is passed over. *)
LEMMA CarefulPassOver ==
  ASSUME CarefulInv, ProcessDecrement, NEW obj \in Obj,
         ~isalloc[obj], Range(pending_decs) = Range(Tail(pending_decs)) \cup {obj},
         pending_decs' = Tail(pending_decs),
         UNCHANGED <<isalloc, ref_count, slots, freelist>>
  PROVE  CarefulInv' /\ SameGraph
<1> USE DEF CarefulInv
<1>1. EntryInv'
  BY EntryProcessDecrement
<1>2. /\ pc = "processDecrements" /\ pc' = pc
      /\ UNCHANGED <<isyoung, ismarked, isroot, roots, held, alloc_page,
                     pendinggc_pages, old_roots, histVars>>
  BY DEF ProcessDecrement
<1>3. Seen' = Seen
  BY <1>2, SameSeen
<1>4. Pointers' /\ Identities' /\ CountsExact'
  BY <1>2, CarefulKept
<1>5. Range(pending_decs') \subseteq Range(pending_decs)
  OBVIOUS
<1>6. Generations'
  BY <1>2, <1>5 DEF Generations, IsOld, Children
<1>7. Roots'
  BY <1>2, <1>3 DEF Roots, IsOld, CollectedPages
<1>8. Marked' /\ LiveOnesStay'
  BY <1>2, <1>3, <1>5 DEF Marked, LiveOnesStay, BeforeMoving
<1>9. GarbageIsKnown'
  BY <1>2 DEF GarbageIsKnown, IsOld
<1> QED
  BY <1>1, <1>2, <1>3, <1>4, <1>6, <1>7, <1>8, <1>9 DEF SameGraph, histVars

(* What is freed takes its references with it, and what is in use has      *)
(* others.                                                                 *)
LEMMA CarefulFree ==
  ASSUME CarefulInv, ProcessDecrement, NEW obj \in Obj,
         obj \in Range(pending_decs), pending_decs # <<>>,
         Range(pending_decs) = Range(Tail(pending_decs)) \cup {obj},
         isalloc[obj],
         ref_count' = Decremented(obj).count,
         pending_decs' = Decremented(obj).pending,
         isalloc' = [isalloc EXCEPT ![obj] = FALSE],
         slots' = [slots EXCEPT ![obj] = <<>>]
  PROVE  CarefulInv' /\ SameGraph
<1> USE DEF CarefulInv
<1>1. EntryInv'
  BY EntryProcessDecrement
<1>2. /\ pc = "processDecrements" /\ pc' = pc
      /\ UNCHANGED <<isyoung, ismarked, isroot, roots, held, alloc_page,
                     pendinggc_pages, old_roots, histVars>>
  BY DEF ProcessDecrement
<1>3. IsOld(obj) /\ obj \notin Seen
  BY DEF Generations, LiveOnesStay, IsOld
<1>4. ASSUME NEW x \in Obj
      PROVE  /\ isalloc'[x] <=> isalloc[x] /\ x # obj
             /\ slots'[x] = IF x = obj THEN <<>> ELSE slots[x]
             /\ IsOld(x)' <=> IsOld(x) /\ x # obj
  BY <1>2 DEF EntryInv, CollectorTypeOK, HeapTypeOK, IsOld
<1>5. Children(obj)' = {} /\ \A x \in Obj : x # obj => Children(x)' = Children(x)
  BY <1>4, EmptySeq DEF Children, Range
<1>6. Seen' = Seen
  <2>1. \A o \in Seen : slots'[o] = slots[o]
    BY <1>3, <1>4, SeenType
  <2> QED
    BY <2>1, <1>1, <1>2, SeenUnchanged
<1> DEFINE n == Len(slots[obj])
           Left(p) == RefsLeft(p, obj, n)
<1>7. /\ \A p \in Obj : IsOld(p) => ref_count'[p] = Cardinality(Left(p))
      /\ \A p \in Obj \ Children(obj) : ref_count'[p] = ref_count[p]
      /\ Range(Tail(pending_decs)) \subseteq Range(pending_decs')
      /\ \A p \in Range(pending_decs') :
           \/ p \in Range(Tail(pending_decs))
           \/ /\ p \in Children(obj) /\ ~isroot[p]
              /\ IsOld(p) => Left(p) = {}
      /\ \A p \in Obj : /\ IsOld(p) /\ ~isroot[p] /\ RefsTo(p) # {} /\ Left(p) = {}
                        => p \in Range(pending_decs')
  <2>1. Done(Decremented(obj), n, obj)
    BY <1>3, DecrementedDone
  <2> QED
    BY <2>1 DEF Done
<1>8. \A p : Left(p) = {r \in RefsTo(p) : r[1] # obj}
  <2> SUFFICES ASSUME NEW p, NEW r \in RefsTo(p), r[1] = obj PROVE r[2] <= n
    BY DEF RefsLeft
  <2>1. PICK x, i : r = <<x, i>> /\ <<x, i>> \in RefsTo(p)
    BY RefsElement
  <2>2. x = obj /\ i = r[2] /\ i \in DOMAIN slots[obj]
    BY <2>1, RefsElement
  <2>3. slots[obj] \in Seq(Obj)
    BY DEF EntryInv, Entries
  <2>4. i \in 1..n /\ n \in Nat
    BY <2>2, <2>3, SeqIndices
  <2> QED
    BY <2>2, <2>4
<1> HIDE DEF n, Left
<1>9. ASSUME NEW p PROVE RefsTo(p)' = Left(p)
  <2>1. \A r \in Left(p) : r = <<r[1], r[2]>>
    BY <1>8, RefsElement
  <2>2. \A r \in RefsTo(p)' : r = <<r[1], r[2]>>
    BY RefsElementNext
  <2>3. ASSUME NEW o, NEW k PROVE <<o, k>> \in RefsTo(p)' <=> <<o, k>> \in Left(p)
    <3>1. <<o, k>> \in Left(p) <=> <<o, k>> \in RefsTo(p) /\ o # obj
      BY <1>8
    <3>2. <<o, k>> \in RefsTo(p)' <=> /\ o \in Obj /\ isalloc'[o] /\ ~isyoung'[o]
                                      /\ k \in DOMAIN slots'[o] /\ slots'[o][k] = p
      BY RefsElementNext
    <3>3. <<o, k>> \in RefsTo(p) <=> o \in Obj /\ IsOld(o) /\ k \in DOMAIN slots[o] /\ slots[o][k] = p
      BY RefsElement
    <3> QED
      BY <3>1, <3>2, <3>3, <1>4 DEF IsOld
  <2> QED
    BY <2>1, <2>2, <2>3, SamePairs
<1>10. Pointers'
  <2>1. MaxSlots \in Nat
    BY CollectorAssumption
  <2>2. \A o \in Obj : Len(slots'[o]) <= MaxSlots
    BY <1>4, <2>1, EmptySeq DEF Pointers
  <2> QED
    BY <2>2, <1>2, <1>5 DEF Pointers, histVars
<1>11. Identities'
  BY <1>2, <1>4 DEF Identities, histVars
<1>12. Generations'
  <2>1. \A o \in Obj : isyoung'[o] => isalloc'[o] /\ ref_count'[o] = 0
    <3> SUFFICES ASSUME NEW o \in Obj, isyoung[o] PROVE isalloc'[o] /\ ref_count'[o] = 0
      BY <1>2
    <3>1. isalloc[o] /\ o # obj /\ ref_count[o] = 0 /\ o \notin Children(obj)
      BY <1>3 DEF Generations, IsOld
    <3> QED
      BY <3>1, <1>4, <1>7
  <2>2. \A o \in Obj : IsOld(o)' => \A c \in Children(o)' : ~isyoung'[c]
    BY <1>2, <1>4, <1>5 DEF Generations
  <2>3. \A o \in Range(pending_decs') : ~isyoung'[o]
    BY <1>2, <1>3, <1>7 DEF Generations
  <2>4. old_roots' = {}
    BY <1>2 DEF Roots
  <2> QED
    BY <2>1, <2>2, <2>3, <2>4 DEF Generations
<1>13. Roots' /\ Marked'
  BY <1>2, <1>4, <1>6 DEF Roots, Marked, CollectedPages, BeforeMoving
<1>14. LiveOnesStay'
  <2>1. ASSUME NEW o \in Seen PROVE isalloc'[o] /\ o \notin Range(pending_decs')
    <3>1. o \in Obj /\ isalloc[o] /\ o # obj /\ o \notin Range(pending_decs)
      BY <1>3, SeenType DEF LiveOnesStay
    <3>2. ASSUME o \in Range(pending_decs') PROVE FALSE
      <4>1. ~isroot[o] /\ IsOld(o) /\ Left(o) = {}
        BY <3>1, <3>2, <1>2, <1>7 DEF Roots, AfterMoving, IsOld
      <4>2. o \notin held /\ held \in SUBSET Obj
        BY <4>1, <3>1, <1>2 DEF Roots, EntryInv, CollectorTypeOK
      <4>3. PICK x \in Seen : o \in Children(x)
        BY <4>2, ReachableStep DEF Seen, EntryInv, CollectorTypeOK
      <4>4. x \in Obj /\ IsOld(x) /\ x # obj
        BY <1>2, <1>3, SeenType DEF Roots, LiveOnesStay, AfterMoving, IsOld
      <4>5. PICK k : <<x, k>> \in RefsTo(o)
        BY <3>1, <4>3, <4>4, ReferredTo DEF EntryInv, CollectorTypeOK
      <4>6. <<x, k>> \in Left(o)
        BY <4>4, <4>5, <1>8
      <4> QED
        BY <4>1, <4>6
    <3> QED
      BY <3>1, <3>2, <1>4
  <2> QED
    BY <2>1, <1>2, <1>6 DEF LiveOnesStay
<1>15. CountsExact'
  BY <1>4, <1>7, <1>9 DEF CountsExact
<1>16. GarbageIsKnown'
  <2> SUFFICES ASSUME NEW o \in Obj, IsOld(o), o # obj, ~isroot[o],
                      o \notin Range(pending_decs')
               PROVE  ref_count'[o] > 0
    BY <1>2, <1>4 DEF GarbageIsKnown
  <2>1. o \notin Range(pending_decs) /\ o \notin old_roots
    BY <1>2, <1>7 DEF Roots
  <2>2. RefsTo(o) # {} /\ IsFiniteSet(RefsTo(o))
    BY <2>1, ReferredIsCounted DEF GarbageIsKnown, EntryInv
  <2>3. Left(o) # {}
    BY <2>2, <1>7
  <2>4. IsFiniteSet(Left(o))
    <3>1. Left(o) \in SUBSET RefsTo(o)
      BY <1>8
    <3> QED
      BY <3>1, <2>2, FS_Subset
  <2>5. Cardinality(Left(o)) \in Nat /\ Cardinality(Left(o)) # 0
    BY <2>3, <2>4, FS_CardinalityType, FS_EmptySet
  <2> QED
    BY <2>5, <1>7
<1>17. SameGraph
  BY <1>2, <1>3, <1>4, <1>6, SeenType DEF SameGraph, histVars
<1> QED
  BY <1>1, <1>10, <1>11, <1>12, <1>13, <1>14, <1>15, <1>16, <1>17

(* A step of processDecrements. *)
LEMMA CarefulProcessDecrement ==
  ASSUME CarefulInv, ProcessDecrement
  PROVE  CarefulInv' /\ SameGraph
<1>1. PICK obj \in Obj :
           /\ obj \in Range(pending_decs) /\ pending_decs # <<>>
           /\ Range(pending_decs) = Range(Tail(pending_decs)) \cup {obj}
           /\ \/ /\ isalloc[obj]
                 /\ ref_count' = Decremented(obj).count
                 /\ pending_decs' = Decremented(obj).pending
                 /\ isalloc' = [isalloc EXCEPT ![obj] = FALSE]
                 /\ slots' = [slots EXCEPT ![obj] = <<>>]
                 /\ freelist' = freelist \cup {obj}
              \/ /\ ~isalloc[obj]
                 /\ pending_decs' = Tail(pending_decs)
                 /\ UNCHANGED <<isalloc, ref_count, slots, freelist>>
  <2>1. EntryInv
    BY DEF CarefulInv
  <2> QED
    BY <2>1, DecrementShape
<1>2. CASE isalloc[obj]
  BY <1>1, <1>2, CarefulFree
<1>3. CASE ~isalloc[obj]
  BY <1>1, <1>3, CarefulPassOver
<1> QED
  BY <1>2, <1>3

-----------------------------------------------------------------------------
(***************************************************************************)
(* Moving objects.                                                         *)
(***************************************************************************)

(* Where an object is when the marked objects have moved. *)
NewAddress(to, x) == IF x \in ToMove THEN to[x] ELSE x

(* What moves is in use, and where it moves to, nobody refers to.          *)
LEMMA MoveFacts ==
  ASSUME CarefulInv, NEW to \in [ToMove -> EvacTargets], Evacuate(to), NoReuseWhilePending
  PROVE  /\ \A x \in ToMove : x \in Seen /\ x \notin held
         /\ \A o \in Range(to) : o \notin Seen /\ o \notin Range(pending_decs)
         /\ \A x \in Obj : Children(x) \cap Range(to) = {}
         /\ \A x \in Seen : NewAddress(to, x) \in Obj
         /\ \A o \in Promoted(Range(to)) :
              \E x \in Seen : ismarked[x] /\ o = NewAddress(to, x)
         /\ \A x \in Seen : ismarked[x] => NewAddress(to, x) \in Promoted(Range(to))
<1> USE DEF CarefulInv
<1>1. /\ pc = "evacuate" /\ freelist' = freelist \ Range(to)
  BY EvacuateFlags
<1>2. /\ \A x \in ToMove : /\ x \in Obj /\ isalloc[x] /\ isyoung[x]
                           /\ ismarked[x] /\ ~isroot[x]
                           /\ to[x] \in Range(to)
      /\ \A o \in Range(to) : /\ o \in Obj /\ o \in freelist /\ ~isalloc[o]
                              /\ ~ismarked[o] /\ o \notin ToMove
                              /\ \E x \in ToMove : o = to[x]
  BY <1>1, MovedFacts
<1>3. \A x \in ToMove : x \in Seen /\ x \notin held
  BY <1>1, <1>2 DEF Marked, Roots, BeforeMoving
<1>4. Range(to) \subseteq freelist \ freelist'
  BY <1>1, <1>2
<1>5. \A o \in Range(to) : o \notin Seen /\ o \notin Range(pending_decs)
  BY <1>2, <1>4 DEF LiveOnesStay, NoReuseWhilePending
<1>6. ASSUME NEW x \in Obj PROVE Children(x) \cap Range(to) = {}
  <2>1. CASE x \in freelist
    BY <2>1, ChildSlots DEF EntryInv, Entries
  <2>2. CASE x \notin freelist
    BY <2>2, <1>4 DEF NoReuseWhilePending
  <2> QED
    BY <2>1, <2>2
<1>7. \A x \in Seen : NewAddress(to, x) \in Obj
  BY <1>2, SeenType DEF NewAddress
<1>8. ASSUME NEW o \in Promoted(Range(to))
      PROVE  \E x \in Seen : ismarked[x] /\ o = NewAddress(to, x)
  <2>1. CASE o \in Range(to)
    BY <2>1, <1>2, <1>3 DEF NewAddress
  <2>2. CASE o \in Obj /\ ismarked[o] /\ isroot[o]
    <3>1. o \in Seen
      BY <2>2, <1>1 DEF Marked, BeforeMoving
    <3>2. o = NewAddress(to, o)
      BY <2>2 DEF NewAddress, ToMove
    <3> QED
      BY <3>1, <3>2, <2>2
  <2> QED
    BY <2>1, <2>2 DEF Promoted
<1>9. ASSUME NEW x \in Seen, ismarked[x] PROVE NewAddress(to, x) \in Promoted(Range(to))
  BY <1>2, <1>9, SeenType DEF NewAddress, Promoted, ToMove
<1> QED
  BY <1>3, <1>5, <1>6, <1>7, <1>8, <1>9

(* An object in use, wherever it is, points to what it pointed to,         *)
(* wherever that is.                                                       *)
LEMMA MovedSlots ==
  ASSUME CarefulInv, NEW to \in [ToMove -> EvacTargets], Evacuate(to), NoReuseWhilePending,
         NEW x \in Seen, NEW y, y = NewAddress(to, x)
  PROVE  /\ DOMAIN slots'[y] = DOMAIN slots[x]
         /\ Len(slots'[y]) = Len(slots[x])
         /\ \A k \in DOMAIN slots[x] :
              slots'[y][k] = NewAddress(to, slots[x][k])
         /\ Children(y)' = {NewAddress(to, c) : c \in Children(x)}
<1> USE DEF CarefulInv
<1>1. pc = "evacuate"
  BY EvacuateFlags
<1>2. /\ \A o \in ToMove : slots'[to[o]] = Forwarded(to, slots[o])
      /\ \A o \in Obj : o \notin Range(to) /\ o \notin ToMove =>
           slots'[o] = IF ismarked[o] /\ isroot[o] THEN Forwarded(to, slots[o])
                                                  ELSE slots[o]
  BY EvacuateObjects
<1>3. x \in Obj /\ slots[x] \in Seq(Obj)
  BY SeenType DEF EntryInv, Entries
<1>4. /\ DOMAIN Forwarded(to, slots[x]) = DOMAIN slots[x]
      /\ Len(Forwarded(to, slots[x])) = Len(slots[x])
      /\ \A k \in DOMAIN slots[x] :
           Forwarded(to, slots[x])[k] = NewAddress(to, slots[x][k])
  BY <1>1, <1>3, ForwardedType DEF NewAddress
<1>5. \A k \in DOMAIN slots[x] : slots[x][k] \in Children(x) /\ slots[x][k] \in Obj
  BY <1>3, ChildSlots
<1>6. /\ DOMAIN slots'[y] = DOMAIN slots[x]
      /\ Len(slots'[y]) = Len(slots[x])
      /\ \A k \in DOMAIN slots[x] : slots'[y][k] = NewAddress(to, slots[x][k])
  <2>1. CASE x \in ToMove
    BY <2>1, <1>2, <1>4 DEF NewAddress
  <2>2. CASE x \notin ToMove
    <3>1. y = x /\ x \notin Range(to)
      BY <2>2, MoveFacts DEF NewAddress
    <3>2. CASE ismarked[x]
      <4>1. isroot[x]
        BY <3>2, <2>2, <1>3 DEF ToMove
      <4>2. slots'[x] = Forwarded(to, slots[x])
        BY <3>1, <3>2, <4>1, <2>2, <1>2, <1>3
      <4> QED
        BY <4>2, <3>1, <1>4
    <3>3. CASE ~ismarked[x]
      <4>1. IsOld(x)
        BY <3>3, <1>1 DEF Marked, BeforeMoving, LiveOnesStay, IsOld
      <4>2. \A k \in DOMAIN slots[x] : ~isyoung[slots[x][k]]
        BY <4>1, <1>3, <1>5 DEF Generations
      <4>3. \A k \in DOMAIN slots[x] : NewAddress(to, slots[x][k]) = slots[x][k]
        BY <4>2, <1>1, MovedFacts DEF NewAddress
      <4>4. slots'[x] = slots[x]
        BY <3>1, <3>3, <2>2, <1>2, <1>3
      <4> QED
        BY <4>3, <4>4, <3>1
    <3> QED
      BY <3>2, <3>3
  <2> QED
    BY <2>1, <2>2
<1>7. Children(y)' = {NewAddress(to, c) : c \in Children(x)}
  <2>1. ASSUME NEW k \in DOMAIN slots[x] PROVE slots'[y][k] # NULL
    <3>1. slots[x][k] \in Seen
      BY <1>5, SeenClosed
    <3> QED
      BY <3>1, <1>6, MoveFacts, NullAssumption
  <2>2. Children(y)' = {slots'[y][k] : k \in DOMAIN slots[x]}
    BY <2>1, <1>6 DEF Children, Range
  <2>3. Children(x) = {slots[x][k] : k \in DOMAIN slots[x]}
    BY <1>5, NullAssumption DEF Children, Range
  <2> QED
    BY <2>2, <2>3, <1>6
<1> QED
  BY <1>6, <1>7

(* So the program gets at the same objects. *)
LEMMA SeenMoved ==
  ASSUME CarefulInv, NEW to \in [ToMove -> EvacTargets], Evacuate(to), NoReuseWhilePending
  PROVE  Seen' = {NewAddress(to, x) : x \in Seen}
<1> USE DEF CarefulInv
<1> DEFINE P == {NewAddress(to, x) : x \in Seen}
<1>0. EntryInv'
  BY EntryEvacuate
<1>1. held' = held
  BY EvacuateFlags
<1>2. \A x \in held : NewAddress(to, x) = x /\ x \in Seen
  BY MoveFacts, SeenClosed DEF NewAddress
<1>3. Seen' \subseteq P
  <2>1. P \in SUBSET Obj
    BY MoveFacts
  <2>2. held' \subseteq P
    BY <1>1, <1>2
  <2>3. ASSUME NEW o \in P PROVE Children(o)' \subseteq P
    <3>1. PICK x \in Seen : o = NewAddress(to, x)
      OBVIOUS
    <3>2. Children(o)' = {NewAddress(to, c) : c \in Children(x)}
      BY <3>1, MovedSlots
    <3> QED
      BY <3>2, SeenClosed
  <2> HIDE DEF P
  <2> QED
    BY <2>1, <2>2, <2>3, SeenLeastNext
<1>4. P \subseteq Seen'
  <2> DEFINE T == {x \in Seen : NewAddress(to, x) \in Seen'}
  <2>1. T \in SUBSET Obj
    BY SeenType
  <2>2. held \subseteq T
    BY <1>0, <1>1, <1>2, SeenClosedNext
  <2>3. ASSUME NEW x \in T PROVE Children(x) \subseteq T
    <3>1. PICK y \in Seen' : y = NewAddress(to, x)
      OBVIOUS
    <3>2. Children(y)' = {NewAddress(to, c) : c \in Children(x)}
      BY <3>1, MovedSlots
    <3>3. Children(y)' \subseteq Seen'
      BY <1>0, SeenClosedNext
    <3> QED
      BY <3>2, <3>3, SeenClosed
  <2>4. Seen \subseteq T
    <3> HIDE DEF T
    <3> QED
      BY <2>1, <2>2, <2>3, SeenLeast
  <2> QED
    BY <2>4
<1> QED
  BY <1>3, <1>4

(* What is old after evacuation was old, or has been promoted; the slots   *)
(* of what was old are left alone.                                         *)
LEMMA OldAfterMove ==
  ASSUME CarefulInv, NEW to \in [ToMove -> EvacTargets], Evacuate(to), NoReuseWhilePending
  PROVE  /\ \A o \in Obj : isalloc'[o] /\ ~isyoung'[o] <=> IsOld(o) \/ o \in Promoted(Range(to))
         /\ \A o \in Obj : IsOld(o) => slots'[o] = slots[o] /\ o \notin Promoted(Range(to))
         /\ Promoted(Range(to)) \subseteq Obj
<1> USE DEF CarefulInv
<1>1. /\ pc = "evacuate"
      /\ \A o \in Obj :
           /\ isalloc'[o] <=> o \in Range(to) \/ (isalloc[o] /\ o \notin ToMove)
           /\ isyoung'[o] <=> isyoung[o] /\ ~ismarked[o] /\ o \notin Range(to)
  BY EvacuateFlags
<1>2. /\ \A x \in ToMove : isyoung[x] /\ ismarked[x] /\ ~isroot[x]
      /\ \A o \in Range(to) : o \in Obj /\ ~isalloc[o] /\ ~ismarked[o]
  BY <1>1, MovedFacts
<1>3. \A o \in Obj : ismarked[o] => isalloc[o] /\ isyoung[o]
  BY <1>1 DEF EntryInv, Marks, BeforeMoving
<1>4. \A o \in Obj : IsOld(o) => o \notin Range(to) /\ o \notin ToMove /\ ~ismarked[o]
  BY <1>2, <1>3 DEF IsOld
<1>5. \A o \in Obj : IsOld(o) => slots'[o] = slots[o]
  BY <1>4, EvacuateObjects
<1>6. \A o \in Obj : o \in ToMove <=> ismarked[o] /\ ~isroot[o]
  BY DEF ToMove
<1>7. \A o \in Obj : o \in Promoted(Range(to)) <=> o \in Range(to) \/ (ismarked[o] /\ isroot[o])
  BY DEF Promoted
<1>8. Promoted(Range(to)) \subseteq Obj
  BY <1>2 DEF Promoted
<1>9. \A o \in Obj : IsOld(o) => o \notin Promoted(Range(to))
  BY <1>4, <1>7
<1>10. ASSUME NEW o \in Obj
       PROVE  isalloc'[o] /\ ~isyoung'[o] <=> IsOld(o) \/ o \in Promoted(Range(to))
  BY <1>1, <1>2, <1>3, <1>4, <1>6, <1>7 DEF IsOld
<1> QED
  BY <1>5, <1>8, <1>9, <1>10

(* No object has more slots than before.                                   *)
LEMMA LengthAfterMove ==
  ASSUME CarefulInv, NEW to \in [ToMove -> EvacTargets], Evacuate(to), NoReuseWhilePending,
         NEW o \in Obj
  PROVE  Len(slots'[o]) <= MaxSlots
<1> USE DEF CarefulInv
<1>1. MaxSlots \in Nat /\ slots[o] \in Seq(Obj) /\ Len(slots[o]) <= MaxSlots /\ pc = "evacuate"
  BY CollectorAssumption, EvacuateFlags DEF EntryInv, Entries, Pointers
<1>2. Len(Forwarded(to, slots[o])) = Len(slots[o])
  BY <1>1, ForwardedType
<1>3. CASE o \in Range(to)
  <2>1. PICK x \in ToMove : o = to[x]
    BY <1>1, <1>3, MovedFacts
  <2>2. x \in Seen /\ o = NewAddress(to, x) /\ x \in Obj
    BY <2>1, MoveFacts, SeenType DEF NewAddress
  <2>3. Len(slots'[o]) = Len(slots[x])
    BY <2>2, MovedSlots
  <2> QED
    BY <2>2, <2>3 DEF Pointers
<1>4. CASE o \in ToMove
  BY <1>1, <1>4, EvacuateObjects, EmptySeq
<1>5. CASE o \notin Range(to) /\ o \notin ToMove
  BY <1>1, <1>2, <1>5, EvacuateObjects
<1> QED
  BY <1>3, <1>4, <1>5

(* The references are those from before and the new ones.                  *)
LEMMA RefsAfterMove ==
  ASSUME CarefulInv, NEW to \in [ToMove -> EvacTargets], Evacuate(to), NoReuseWhilePending,
         NEW p
  PROVE  /\ RefsTo(p)' = RefsTo(p) \cup NewRefs(to, p)
         /\ RefsTo(p) \cap NewRefs(to, p) = {}
<1> USE DEF CarefulInv
<1> DEFINE M == Promoted(Range(to))
           N == NewRefs(to, p)
<1>1. /\ \A o \in Obj : isalloc'[o] /\ ~isyoung'[o] <=> IsOld(o) \/ o \in M
      /\ \A o \in Obj : IsOld(o) => slots'[o] = slots[o] /\ o \notin M
      /\ M \subseteq Obj
  BY OldAfterMove
<1>2. ASSUME NEW o, NEW k
      PROVE  <<o, k>> \in N <=> o \in M /\ k \in DOMAIN slots'[o] /\ slots'[o][k] = p
  <2>1. <<o, k>> \in N <=> /\ o \in M /\ k \in 1..MaxSlots
                           /\ k \in DOMAIN slots'[o] /\ slots'[o][k] = p
    BY DEF NewRefs
  <2>2. ASSUME o \in M, k \in DOMAIN slots'[o] PROVE k \in 1..MaxSlots
    <3>1. o \in Obj
      BY <2>2, <1>1
    <3>2. slots'[o] \in Seq(Obj)
      BY <3>1, EntryEvacuate DEF EntryInv, Entries
    <3>3. Len(slots'[o]) <= MaxSlots /\ MaxSlots \in Nat
      BY <3>1, LengthAfterMove, CollectorAssumption
    <3>4. k \in 1..Len(slots'[o]) /\ Len(slots'[o]) \in Nat
      BY <2>2, <3>2, SeqIndices
    <3> QED
      BY <3>3, <3>4
  <2> QED
    BY <2>1, <2>2
<1>3. \A r \in N : r = <<r[1], r[2]>>
  BY DEF NewRefs
<1> HIDE DEF M, N
<1>4. ASSUME NEW o, NEW k
      PROVE  /\ <<o, k>> \in RefsTo(p)' <=> <<o, k>> \in RefsTo(p) \cup N
             /\ ~(<<o, k>> \in RefsTo(p) /\ <<o, k>> \in N)
  <2>1. <<o, k>> \in RefsTo(p)' <=> /\ o \in Obj /\ isalloc'[o] /\ ~isyoung'[o]
                                    /\ k \in DOMAIN slots'[o] /\ slots'[o][k] = p
    BY RefsElementNext
  <2>2. <<o, k>> \in RefsTo(p) <=>
          o \in Obj /\ IsOld(o) /\ k \in DOMAIN slots[o] /\ slots[o][k] = p
    BY RefsElement
  <2> QED
    BY <2>1, <2>2, <1>1, <1>2
<1>5. \A r \in RefsTo(p) : r = <<r[1], r[2]>>
  BY RefsElement
<1>6. \A r \in RefsTo(p)' : r = <<r[1], r[2]>>
  BY RefsElementNext
<1>7. RefsTo(p)' = RefsTo(p) \cup N
  <2>1. \A r \in RefsTo(p) \cup N : r = <<r[1], r[2]>>
    BY <1>3, <1>5
  <2>2. \A o, k : <<o, k>> \in RefsTo(p)' <=> <<o, k>> \in RefsTo(p) \cup N
    BY <1>4
  <2> QED
    BY <2>1, <2>2, <1>6, SamePairs
<1>8. ASSUME NEW r \in RefsTo(p), r \in N PROVE FALSE
  <2>1. <<r[1], r[2]>> \in RefsTo(p) /\ <<r[1], r[2]>> \in N
    BY <1>5, <1>8, Zenon
  <2> QED
    BY <2>1, <1>4
<1> QED
  BY <1>7, <1>8 DEF N

(* What has been promoted refers to nothing young.                         *)
LEMMA PromotedChildren ==
  ASSUME CarefulInv, NEW to \in [ToMove -> EvacTargets], Evacuate(to), NoReuseWhilePending,
         NEW o \in Promoted(Range(to)), NEW c \in Children(o)'
  PROVE  ~isyoung'[c]
<1> USE DEF CarefulInv
<1>1. PICK x \in Seen : ismarked[x] /\ o = NewAddress(to, x)
  BY MoveFacts
<1>2. Children(o)' = {NewAddress(to, d) : d \in Children(x)}
  BY <1>1, MovedSlots
<1>3. PICK d \in Children(x) : c = NewAddress(to, d)
  BY <1>2
<1>4. /\ pc = "evacuate"
      /\ \A z \in Obj : isyoung'[z] <=> isyoung[z] /\ ~ismarked[z] /\ z \notin Range(to)
  BY EvacuateFlags
<1>5. d \in Seen /\ d \in Obj /\ x \in Obj
  BY SeenClosed, SeenType
<1>6. isyoung[d] => ismarked[d]
  BY <1>1, <1>4, <1>5 DEF Marked, BeforeMoving
<1>7. CASE d \in ToMove
  BY <1>3, <1>4, <1>7, MovedFacts DEF NewAddress
<1>8. CASE d \notin ToMove
  BY <1>3, <1>4, <1>5, <1>6, <1>8 DEF NewAddress
<1> QED
  BY <1>7, <1>8

(* An object keeps its number when it moves.                               *)
LEMMA MovedIdent ==
  ASSUME CarefulInv, NEW to \in [ToMove -> EvacTargets], Evacuate(to), NoReuseWhilePending,
         NEW x \in Seen
  PROVE  ident'[NewAddress(to, x)] = ident[x]
<1>1. x \in Obj /\ x \notin Range(to)
  BY SeenType, MoveFacts
<1> QED
  BY <1>1, EvacuateObjects DEF NewAddress, CarefulInv

(* The counts after evacuation: what was not counted has no reference from *)
(* before.                                                                 *)
LEMMA CountsAfterMove ==
  ASSUME CarefulInv, NEW to \in [ToMove -> EvacTargets], Evacuate(to), NoReuseWhilePending
  PROVE  CountsExact'
<1> USE DEF CarefulInv
<1> SUFFICES ASSUME NEW p \in Obj, isalloc'[p], ~isyoung'[p]
             PROVE  ref_count'[p] = Cardinality(RefsTo(p)')
  BY DEF CountsExact, IsOld
<1> DEFINE before == IF p \in Range(to) THEN 0 ELSE ref_count[p]
           N == NewRefs(to, p)
<1>1. pc = "evacuate"
  BY EvacuateFlags
<1>2. /\ ref_count'[p] = before + Cardinality(N)
      /\ IsFiniteSet(N) /\ Cardinality(N) \in Nat
  BY EvacuateCounts
<1>3. /\ RefsTo(p)' = RefsTo(p) \cup N
      /\ RefsTo(p) \cap N = {}
  BY RefsAfterMove
<1>4. IsFiniteSet(RefsTo(p)) /\ Cardinality(RefsTo(p)) \in Nat
  BY RefsFinite, FS_CardinalityType DEF EntryInv, CollectorTypeOK
<1>5. before = Cardinality(RefsTo(p))
  <2>1. CASE IsOld(p)
    <3>1. p \notin Range(to)
      BY <2>1, <1>1, MovedFacts DEF IsOld
    <3> QED
      BY <2>1, <3>1 DEF CountsExact
  <2>2. CASE p \in Promoted(Range(to))
    <3>1. \A o \in Obj : IsOld(o) => p \notin Children(o)
      <4>1. CASE p \in Range(to)
        BY <4>1, MoveFacts
      <4>2. CASE ismarked[p]
        BY <4>2, <1>1 DEF EntryInv, Marks, Generations, BeforeMoving
      <4> QED
        BY <2>2, <4>1, <4>2 DEF Promoted
    <3>2. RefsTo(p) = {}
      <4> SUFFICES ASSUME NEW r \in RefsTo(p) PROVE FALSE
        OBVIOUS
      <4>1. PICK o, k : o \in Obj /\ IsOld(o) /\ k \in DOMAIN slots[o] /\ slots[o][k] = p
        BY RefsElement
      <4>2. p \in Children(o)
        BY <4>1, NullAssumption DEF Children, Range
      <4> QED
        BY <4>1, <4>2, <3>1
    <3>3. before = 0
      <4>1. CASE p \in Range(to)
        BY <4>1
      <4>2. CASE ismarked[p]
        BY <4>2, <1>1 DEF EntryInv, Marks, Generations, BeforeMoving
      <4> QED
        BY <2>2, <4>1, <4>2 DEF Promoted
    <3> QED
      BY <3>2, <3>3, FS_EmptySet
  <2> QED
    BY <2>1, <2>2, OldAfterMove
<1> HIDE DEF before, N
<1>6. Cardinality(RefsTo(p) \cup N) = Cardinality(RefsTo(p)) + Cardinality(N)
  <2>1. Cardinality(RefsTo(p) \cap N) = 0
    BY <1>3, FS_EmptySet
  <2>2. Cardinality(RefsTo(p) \cup N) =
          Cardinality(RefsTo(p)) + Cardinality(N) - Cardinality(RefsTo(p) \cap N)
    BY <1>2, <1>4, FS_Union
  <2> QED
    BY <2>1, <2>2, <1>2, <1>4
<1> QED
  BY <1>2, <1>3, <1>5, <1>6

(* An object that moved has been found in another, which refers to it now. *)
LEMMA MovedIsReferred ==
  ASSUME CarefulInv, NEW to \in [ToMove -> EvacTargets], Evacuate(to), NoReuseWhilePending,
         NEW o \in Range(to)
  PROVE  ref_count'[o] > 0
<1> USE DEF CarefulInv
<1>1. pc = "evacuate"
  BY EvacuateFlags
<1>2. PICK x \in ToMove : o = to[x] /\ x \in Obj /\ ismarked[x] /\ ~isroot[x] /\ o \in Obj
  BY <1>1, MovedFacts
<1>3. PICK z \in Obj : ismarked[z] /\ x \in Children(z)
  BY <1>1, <1>2 DEF Marked, BeforeMoving
<1>4. z \in Seen
  BY <1>1, <1>3 DEF Marked, BeforeMoving
<1>5. PICK y \in Promoted(Range(to)) : y = NewAddress(to, z)
  BY <1>3, <1>4, MoveFacts
<1>6. PICK k \in DOMAIN slots[z] : slots[z][k] = x
  BY <1>3 DEF Children, Range
<1>7. k \in DOMAIN slots'[y] /\ slots'[y][k] = o
  BY <1>2, <1>4, <1>5, <1>6, MovedSlots DEF NewAddress
<1>8. k \in 1..MaxSlots
  <2>1. slots[z] \in Seq(Obj) /\ Len(slots[z]) <= MaxSlots /\ MaxSlots \in Nat
    BY CollectorAssumption DEF EntryInv, Entries, Pointers
  <2>2. k \in 1..Len(slots[z]) /\ Len(slots[z]) \in Nat
    BY <1>6, <2>1, SeqIndices
  <2> QED
    BY <2>1, <2>2
<1>9. <<y, k>> \in NewRefs(to, o)
  BY <1>7, <1>8 DEF NewRefs
<1>10. Cardinality(NewRefs(to, o)) \in Nat /\ Cardinality(NewRefs(to, o)) # 0
  BY <1>9, EvacuateCounts, FS_EmptySet
<1>11. ref_count'[o] = 0 + Cardinality(NewRefs(to, o))
  BY <1>2, EvacuateCounts
<1> QED
  BY <1>10, <1>11

(* Evacuation promotes what the walk found.                                *)
LEMMA CarefulEvacuate ==
  ASSUME CarefulInv, NEW to \in [ToMove -> EvacTargets], Evacuate(to), NoReuseWhilePending
  PROVE  CarefulInv'
<1> USE DEF CarefulInv
<1>1. EntryInv'
  BY EntryEvacuate
<1>2. /\ pc = "evacuate" /\ pc' = "computeDeadRoots"
      /\ UNCHANGED <<isroot, roots, held, alloc_page, pendinggc_pages, decVars, created>>
      /\ IsInjective(to)
      /\ \A o \in Obj :
           /\ isalloc'[o] <=> o \in Range(to) \/ (isalloc[o] /\ o \notin ToMove)
           /\ isyoung'[o] <=> isyoung[o] /\ ~ismarked[o] /\ o \notin Range(to)
  BY EvacuateFlags
<1>3. /\ \A x \in ToMove : /\ x \in Obj /\ isalloc[x] /\ isyoung[x]
                           /\ ismarked[x] /\ ~isroot[x] /\ to[x] \in Range(to)
      /\ \A o \in Range(to) : /\ o \in Obj /\ o \in freelist /\ ~isalloc[o]
                              /\ ~ismarked[o] /\ o \notin ToMove
                              /\ PageOf[o] \notin CollectedPages
                              /\ \E x \in ToMove : o = to[x]
  BY <1>2, MovedFacts
<1>4. /\ \A x \in ToMove : ident'[to[x]] = ident[x]
      /\ \A o \in Obj : o \notin Range(to) => ident'[o] = ident[o]
  BY EvacuateObjects
<1>5. /\ \A o \in Obj : isalloc'[o] /\ ~isyoung'[o] <=> IsOld(o) \/ o \in Promoted(Range(to))
      /\ \A o \in Obj : IsOld(o) => slots'[o] = slots[o] /\ o \notin Promoted(Range(to))
      /\ Promoted(Range(to)) \subseteq Obj
  BY OldAfterMove
<1>6. Seen' = {NewAddress(to, x) : x \in Seen}
  BY SeenMoved
<1>7. \A o \in Obj : ident[o] \in Nat /\ ident'[o] \in Nat
  BY <1>1 DEF EntryInv, CollectorTypeOK
<1>8. Pointers'
  <2>1. \A o \in Obj : Len(slots'[o]) <= MaxSlots
    BY LengthAfterMove
  <2>2. ASSUME NEW o \in Obj PROVE ident'[o] <= created'
    BY <1>2, <1>3, <1>4 DEF Pointers
  <2>3. ASSUME NEW o \in Obj, NEW c \in Children(o)' PROVE ident'[c] < ident'[o]
    <3>1. CASE o \in Promoted(Range(to))
      <4>1. PICK x \in Seen : o = NewAddress(to, x)
        BY <3>1, MoveFacts
      <4>2. PICK d \in Children(x) : c = NewAddress(to, d)
        BY <4>1, MovedSlots
      <4>3. d \in Seen /\ x \in Obj
        BY <4>2, SeenClosed, SeenType
      <4>4. ident'[o] = ident[x] /\ ident'[c] = ident[d]
        BY <4>1, <4>2, <4>3, MovedIdent
      <4> QED
        BY <4>2, <4>3, <4>4 DEF Pointers
    <3>2. CASE o \in ToMove
      <4>1. slots'[o] = <<>>
        BY <3>2, EvacuateObjects
      <4> QED
        BY <4>1, EmptySeq DEF Children, Range
    <3>3. CASE o \notin Promoted(Range(to)) /\ o \notin ToMove
      <4>1. o \notin Range(to) /\ ~(ismarked[o] /\ isroot[o])
        BY <3>3 DEF Promoted
      <4>2. slots'[o] = slots[o]
        BY <3>3, <4>1, EvacuateObjects
      <4>3. c \in Children(o)
        BY <4>2 DEF Children
      <4>4. c \in Obj /\ c \notin Range(to)
        BY <4>3, ChildSlots, MoveFacts
      <4> QED
        BY <4>1, <4>3, <4>4, <1>4 DEF Pointers
    <3> QED
      BY <3>1, <3>2, <3>3
  <2> QED
    BY <2>1, <2>2, <2>3 DEF Pointers
<1>9. Identities'
  <2>1. \A o \in Obj : isalloc'[o] => ident'[o] > 0
    BY <1>2, <1>3, <1>4 DEF Identities
  <2>2. ASSUME NEW o \in Obj, NEW p \in Obj, isalloc'[o], isalloc'[p], ident'[o] = ident'[p]
        PROVE  o = p
    <3>1. CASE o \in Range(to) /\ p \in Range(to)
      <4>1. PICK x \in ToMove : o = to[x]
        BY <3>1, <1>3
      <4>2. PICK y \in ToMove : p = to[y]
        BY <3>1, <1>3
      <4>3. x = y
        BY <4>1, <4>2, <1>3, <1>4, <2>2 DEF Identities
      <4> QED
        BY <4>1, <4>2, <4>3
    <3>2. ASSUME NEW u \in Obj, NEW v \in Obj, u \in Range(to), v \notin Range(to),
                 isalloc'[v], ident'[u] = ident'[v]
          PROVE  FALSE
      <4>1. PICK x \in ToMove : u = to[x]
        BY <3>2, <1>3
      <4>2. isalloc[v] /\ v \notin ToMove /\ ident'[v] = ident[v]
        BY <3>2, <1>2, <1>4
      <4>3. x = v
        BY <4>1, <4>2, <3>2, <1>3, <1>4 DEF Identities
      <4> QED
        BY <4>2, <4>3
    <3>3. CASE o \notin Range(to) /\ p \notin Range(to)
      BY <3>3, <2>2, <1>2, <1>4 DEF Identities
    <3> QED
      BY <2>2, <3>1, <3>2, <3>3
  <2> QED
    BY <2>1, <2>2 DEF Identities
<1>10. Generations'
  <2>1. ASSUME NEW o \in Obj, isyoung'[o] PROVE isalloc'[o] /\ ref_count'[o] = 0
    <3>1. isyoung[o] /\ ~ismarked[o] /\ o \notin Range(to)
      BY <2>1, <1>2
    <3>2. isalloc[o] /\ ref_count[o] = 0 /\ o \notin ToMove
      BY <3>1, <1>3 DEF Generations
    <3>3. NewRefs(to, o) = {}
      <4> SUFFICES ASSUME NEW r \in NewRefs(to, o) PROVE FALSE
        OBVIOUS
      <4>1. PICK y, k : y \in Promoted(Range(to)) /\ k \in DOMAIN slots'[y] /\ slots'[y][k] = o
        BY DEF NewRefs
      <4>2. o \in Children(y)'
        BY <4>1, NullAssumption DEF Children, Range
      <4> QED
        BY <2>1, <4>1, <4>2, PromotedChildren
    <3>4. ref_count'[o] = 0 + 0
      BY <3>1, <3>2, <3>3, EvacuateCounts, FS_EmptySet
    <3> QED
      BY <3>2, <3>4, <1>2
  <2>2. ASSUME NEW o \in Obj, isalloc'[o], ~isyoung'[o], NEW c \in Children(o)'
        PROVE  ~isyoung'[c]
    <3>1. CASE IsOld(o)
      <4>1. c \in Children(o)
        BY <3>1, <1>5 DEF Children
      <4>2. c \in Obj /\ ~isyoung[c]
        BY <3>1, <4>1, ChildSlots DEF Generations
      <4> QED
        BY <4>2, <1>2
    <3>2. CASE o \in Promoted(Range(to))
      BY <3>2, <2>2, PromotedChildren
    <3> QED
      BY <2>2, <3>1, <3>2, <1>5
  <2>3. Range(pending_decs) \subseteq Obj /\ old_roots \subseteq Obj
    BY SeqIndices DEF EntryInv, CollectorTypeOK
  <2>4. \A o \in Range(pending_decs) : ~isyoung'[o]
    BY <2>3, <1>2 DEF Generations
  <2>5. \A o \in old_roots : isalloc'[o] /\ ~isyoung'[o]
    BY <2>3, <1>5 DEF Generations
  <2>6. pending_decs' = pending_decs /\ old_roots' = old_roots
    BY <1>2 DEF decVars
  <2> QED
    BY <2>1, <2>2, <2>4, <2>5, <2>6 DEF Generations, IsOld
<1>11. Roots'
  <2>1. CollectedPages' = CollectedPages
    BY <1>2 DEF CollectedPages
  <2>2. ASSUME NEW o \in Obj, isalloc'[o], ~isyoung'[o], PageOf[o] \in CollectedPages
        PROVE  isroot[o]
    <3>1. CASE IsOld(o)
      BY <2>2, <3>1, <1>2 DEF Roots, BeforeMoving
    <3>2. CASE o \in Promoted(Range(to))
      BY <2>2, <3>2, <1>3 DEF Promoted
    <3> QED
      BY <2>2, <3>1, <3>2, <1>5
  <2>3. ASSUME NEW x \in Seen PROVE ~isyoung'[NewAddress(to, x)]
    <3>1. CASE x \in ToMove
      BY <3>1, <1>2, <1>3 DEF NewAddress
    <3>2. CASE x \notin ToMove
      BY <3>2, <1>2, SeenType DEF NewAddress, Marked, BeforeMoving
    <3> QED
      BY <3>1, <3>2
  <2>4. \A o \in Seen' : ~isyoung'[o]
    BY <2>3, <1>6
  <2> QED
    BY <2>1, <2>2, <2>4, <1>2 DEF Roots, BeforeMoving, IsOld
<1>12. Marked'
  BY <1>2 DEF Marked, BeforeMoving
<1>13. LiveOnesStay'
  <2>1. ASSUME NEW x \in Seen
        PROVE  /\ isalloc'[NewAddress(to, x)]
               /\ NewAddress(to, x) \notin Range(pending_decs)
               /\ NewAddress(to, x) \in old_roots => NewAddress(to, x) \in roots
    <3>1. CASE x \in ToMove
      <4>1. NewAddress(to, x) = to[x] /\ to[x] \in Range(to)
        BY <3>1, <1>3 DEF NewAddress
      <4>2. to[x] \notin Range(pending_decs) /\ isalloc'[to[x]] /\ to[x] \notin old_roots
        BY <4>1, <1>2, <1>3, MoveFacts DEF Generations, IsOld
      <4> QED
        BY <4>1, <4>2
    <3>2. CASE x \notin ToMove
      BY <3>2, <1>2, SeenType DEF NewAddress, LiveOnesStay
    <3> QED
      BY <3>1, <3>2
  <2> QED
    BY <2>1, <1>2, <1>6 DEF LiveOnesStay, decVars
<1>14. CountsExact'
  BY CountsAfterMove
<1>15. GarbageIsKnown'
  <2> SUFFICES ASSUME NEW o \in Obj, isalloc'[o], ~isyoung'[o]
               PROVE  \/ isroot[o] \/ o \in old_roots \/ o \in Range(pending_decs)
                      \/ ref_count'[o] > 0
    BY <1>2 DEF GarbageIsKnown, IsOld, decVars
  <2>1. CASE IsOld(o)
    <3>1. o \notin Range(to)
      BY <2>1, <1>3 DEF IsOld
    <3>2. ref_count'[o] = ref_count[o] + Cardinality(NewRefs(to, o))
      BY <3>1, EvacuateCounts
    <3>3. Cardinality(NewRefs(to, o)) \in Nat /\ ref_count[o] \in Nat
      BY EvacuateCounts DEF EntryInv, CollectorTypeOK, HeapTypeOK
    <3>4. ref_count[o] > 0 => ref_count'[o] > 0
      BY <3>2, <3>3
    <3> QED
      BY <2>1, <3>4 DEF GarbageIsKnown
  <2>2. CASE o \in Promoted(Range(to))
    BY <2>2, MovedIsReferred DEF Promoted
  <2> QED
    BY <2>1, <2>2, <1>5
<1> QED
  BY <1>1, <1>8, <1>9, <1>10, <1>11, <1>12, <1>13, <1>14, <1>15

-----------------------------------------------------------------------------
(***************************************************************************)
(* The invariant of the programs for which the code is right, and what     *)
(* follows from it.                                                        *)
(***************************************************************************)

(* Every step of such a program keeps it.                                  *)
LEMMA CarefulStep == CarefulInv /\ [CarefulNext]_vars => CarefulInv'
<1> SUFFICES ASSUME CarefulInv, [CarefulNext]_vars PROVE CarefulInv'
  OBVIOUS
<1>1. CASE UNCHANGED vars
  BY <1>1, CarefulStutter
<1>2. CASE CarefulNext
  <2>1. Next /\ NoReuseWhilePending
    BY <1>2 DEF CarefulNext
  <2>2. ASSUME NEW o \in Obj, NEW s \in SlotsOver(Seen), New(o, s) PROVE CarefulInv'
    BY <2>1, <2>2, CarefulNew
  <2>3. ASSUME NEW p \in Page, Refresh(p) PROVE CarefulInv'
    BY <2>3, CarefulRefresh
  <2>4. ASSUME NEW S \in SUBSET Seen, Mark(S) PROVE CarefulInv'
    <3>1. pc = "mutator" /\ pc' = "evacuate"
      BY <2>4 DEF Mark
    <3>2. DropsForGood /\ HoldsOldOnes
      BY <3>1, <1>2 DEF CarefulNext
    <3> QED
      BY <3>2, <2>4, CarefulMark
  <2>5. ASSUME NEW to \in [ToMove -> EvacTargets], Evacuate(to) PROVE CarefulInv'
    BY <2>1, <2>5, CarefulEvacuate
  <2>6. CASE ComputeDeadRoots
    BY <2>6, CarefulComputeDeadRoots
  <2>7. CASE ProcessDecrement
    BY <2>7, CarefulProcessDecrement
  <2>8. CASE EndDecrements
    BY <2>8, CarefulEndDecrements
  <2>9. CASE Rebuild
    BY <2>9, CarefulRebuild
  <2>10. CASE EndCollect
    BY <2>10, CarefulEndCollect
  <2>11. CASE OutOfMemory
    BY <2>11, CarefulOutOfMemory
  <2> QED
    BY <2>1, <2>2, <2>3, <2>4, <2>5, <2>6, <2>7, <2>8, <2>9, <2>10, <2>11, Zenon
    DEF Next, Program, Collection
<1> QED
  BY <1>1, <1>2

(* CarefulInv holds in every state of every such program. *)
LEMMA CarefulInvariant == CarefulSpec => []CarefulInv
BY CarefulInit, CarefulStep, PTL DEF CarefulSpec

(* Theorem: between two collections the count of an old object is the      *)
(* number of pointers to it from old objects, though collections may have  *)
(* stopped at their budget with work left in pending_decs, and evacuation, *)
(* decrements and rebuild each change counts, objects and flags on their   *)
(* own.                                                                    *)
THEOREM CollectorCounts == CarefulSpec => []CountsExactBetweenCollections
<1>1. CarefulInv => CountsExactBetweenCollections
  BY DEF CarefulInv, CountsExactBetweenCollections
<1> QED
  BY <1>1, CarefulInvariant, PTL

(* Theorem: what the program can get at is never freed, by a decrement,    *)
(* by rebuild or by being left behind when it moves.                       *)
THEOREM CollectorKeepsWhatIsHeld == CarefulSpec => []HeldStaysAllocated
<1>1. CarefulInv => HeldStaysAllocated
  BY DEF CarefulInv, HeldStaysAllocated, LiveOnesStay
<1> QED
  BY <1>1, CarefulInvariant, PTL

(* At the end of a collection that leaves nothing in pending_decs, what    *)
(* the program cannot get at is freed: an old object that is not has a     *)
(* count, so a newer one refers to it, which the program cannot get at     *)
(* either, and there is no newest one.                                     *)
LEMMA GarbageIsFreed ==
  ASSUME CarefulInv, pc = "end", pending_decs = <<>>, NEW o \in Obj, isalloc[o]
  PROVE  o \in Seen
<1> USE DEF CarefulInv
<1> DEFINE G == {x \in Obj : isalloc[x] /\ x \notin Seen}
           T == {MaxObjects - ident[x] : x \in G}
<1>1. MaxObjects \in Nat /\ \A x \in Obj : ident[x] \in 0..MaxObjects
  BY CollectorAssumption DEF EntryInv, CollectorTypeOK
<1>2. ASSUME NEW x \in G
      PROVE  \E y \in G : ident[x] < ident[y]
  <2>1. x \in Obj /\ IsOld(x) /\ x \notin Seen
    BY DEF EntryInv, Marks, IsOld
  <2>2. ~isroot[x]
    BY <2>1, SeenClosed DEF Roots
  <2>3. ref_count[x] > 0
    <3>1. Range(pending_decs) = {}
      BY EmptySeq DEF Range
    <3> QED
      BY <2>1, <2>2, <3>1 DEF GarbageIsKnown, Roots
  <2>4. RefsTo(x) # {}
    BY <2>1, <2>3, ReferredIsCounted DEF EntryInv
  <2>5. PICK y, k : y \in Obj /\ IsOld(y) /\ k \in DOMAIN slots[y] /\ slots[y][k] = x
    BY <2>4, RefsElement
  <2>6. x \in Children(y)
    BY <2>1, <2>5, NullAssumption DEF Children, Range
  <2>7. y \notin Seen
    BY <2>1, <2>6, SeenClosed
  <2> QED
    BY <2>5, <2>6, <2>7 DEF Pointers, IsOld
<1> SUFFICES ASSUME o \in G PROVE FALSE
  OBVIOUS
<1>3. T \in SUBSET Nat /\ T # {}
  BY <1>1
<1> HIDE DEF T
<1>4. PICK t \in T : \A u \in T : t <= u
  BY <1>3, LeastNatural
<1>5. PICK x \in G : t = MaxObjects - ident[x]
  BY DEF T
<1>6. PICK y \in G : ident[x] < ident[y]
  BY <1>2
<1>7. MaxObjects - ident[y] \in T
  BY DEF T
<1> QED
  BY <1>1, <1>4, <1>5, <1>6, <1>7

(* Theorem: a collection that leaves pending_decs empty has freed all that *)
(* the program cannot get at, chains of any length included.               *)
THEOREM CollectorFreesGarbage == CarefulSpec => []OnlyReachableSurvives
<1>1. CarefulInv => OnlyReachableSurvives
  BY GarbageIsFreed DEF OnlyReachableSurvives
<1> QED
  BY <1>1, CarefulInvariant, PTL

-----------------------------------------------------------------------------
(***************************************************************************)
(* collect() is invisible: every step is one of ObjectGraph, or none.      *)
(***************************************************************************)

(* The graph that the program sees has a node for each object that it gets *)
(* at, which points to the nodes of the objects that that points to.       *)
GraphOfSeen ==
  /\ DOMAIN graphSeen = {ident[o] : o \in Seen}
  /\ graphSeen = [i \in DOMAIN graphSeen |-> graphSeen[i]]
  /\ \A o \in Seen :
       graphSeen[ident[o]] = [k \in DOMAIN slots[o] |-> ident[slots[o][k]]]

LEMMA GraphFacts == CarefulInv => GraphOfSeen
<1> SUFFICES ASSUME CarefulInv PROVE GraphOfSeen
  OBVIOUS
<1> USE DEF CarefulInv
<1> DEFINE lost == {ident[o] : o \in {x \in Seen : ~isalloc[x]}}
           D == {ident[o] : o \in Seen} \ lost
           at(i) == CHOOSE x \in Seen : ident[x] = i
           node(i) == [k \in DOMAIN slots[at(i)] |-> ident[slots[at(i)][k]]]
<1>1. graphSeen = [i \in D |-> node(i)]
  BY Zenon DEF graphSeen
<1>2. D = {ident[o] : o \in Seen}
  BY DEF LiveOnesStay
<1>3. ASSUME NEW o \in Seen PROVE at(ident[o]) = o
  BY <1>3, SeenType DEF LiveOnesStay, Identities
<1>4. ASSUME NEW o \in Seen
      PROVE  node(ident[o]) = [k \in DOMAIN slots[o] |-> ident[slots[o][k]]]
  <2> HIDE DEF at
  <2> QED
    BY <1>3, Zenon
<1> HIDE DEF node, D
<1>5. DOMAIN graphSeen = D /\ graphSeen = [i \in DOMAIN graphSeen |-> graphSeen[i]]
  BY <1>1
<1>6. ASSUME NEW o \in Seen PROVE graphSeen[ident[o]] = node(ident[o])
  <2>1. ident[o] \in D
    BY <1>2
  <2> QED
    BY <2>1, <1>1
<1> QED
  BY <1>2, <1>4, <1>5, <1>6 DEF GraphOfSeen

(* The same after a step. *)
LEMMA GraphFactsNext == CarefulInv' => GraphOfSeen'
BY GraphFacts, PTL

(* Two graphs with the same nodes are the same.                            *)
LEMMA SameNodes ==
  ASSUME NEW f, NEW g, f = [i \in DOMAIN f |-> f[i]], g = [i \in DOMAIN g |-> g[i]],
         DOMAIN f = DOMAIN g, \A i \in DOMAIN f : f[i] = g[i]
  PROVE  f = g
OBVIOUS

(* A step that leaves alone what the program sees is none of ObjectGraph.  *)
LEMMA GraphKept ==
  ASSUME CarefulInv, CarefulInv', SameGraph
  PROVE  UNCHANGED <<{ident[o] : o \in held}, graphSeen>>
<1>1. /\ DOMAIN graphSeen = {ident[o] : o \in Seen}
      /\ graphSeen = [i \in DOMAIN graphSeen |-> graphSeen[i]]
      /\ \A o \in Seen :
           graphSeen[ident[o]] = [k \in DOMAIN slots[o] |-> ident[slots[o][k]]]
  BY GraphFacts DEF GraphOfSeen
<1>2. /\ DOMAIN graphSeen' = {ident'[o] : o \in Seen'}
      /\ graphSeen' = [i \in DOMAIN graphSeen' |-> graphSeen'[i]]
      /\ \A o \in Seen' :
           graphSeen'[ident'[o]] = [k \in DOMAIN slots'[o] |-> ident'[slots'[o][k]]]
  BY GraphFactsNext DEF GraphOfSeen
<1>3. held' = held /\ Seen' = Seen /\ ident' = ident /\ \A o \in Seen : slots'[o] = slots[o]
  BY DEF SameGraph
<1>4. ASSUME NEW o \in Seen PROVE graphSeen'[ident[o]] = graphSeen[ident[o]]
  <2>1. graphSeen'[ident'[o]] = [k \in DOMAIN slots'[o] |-> ident'[slots'[o][k]]]
    BY <1>2, <1>3
  <2>2. ident' = ident /\ slots'[o] = slots[o]
    BY <1>3
  <2>3. graphSeen[ident[o]] = [k \in DOMAIN slots[o] |-> ident[slots[o][k]]]
    BY <1>1
  <2> QED
    BY <2>1, <2>2, <2>3, Zenon
<1>5. \A i \in DOMAIN graphSeen : graphSeen'[i] = graphSeen[i]
  BY <1>1, <1>4
<1>6. DOMAIN graphSeen' = DOMAIN graphSeen
  BY <1>1, <1>2, <1>3
<1>7. graphSeen' = graphSeen
  BY <1>1, <1>2, <1>5, <1>6, SameNodes
<1> QED
  BY <1>3, <1>7

(* Neither is a step that moves objects and takes their numbers with them. *)
LEMMA GraphEvacuate ==
  ASSUME CarefulInv, CarefulInv',
         NEW to \in [ToMove -> EvacTargets], Evacuate(to), NoReuseWhilePending
  PROVE  UNCHANGED <<{ident[o] : o \in held}, graphSeen>>
<1>1. /\ DOMAIN graphSeen = {ident[o] : o \in Seen}
      /\ graphSeen = [i \in DOMAIN graphSeen |-> graphSeen[i]]
      /\ \A o \in Seen :
           graphSeen[ident[o]] = [k \in DOMAIN slots[o] |-> ident[slots[o][k]]]
  BY GraphFacts DEF GraphOfSeen
<1>2. /\ DOMAIN graphSeen' = {ident'[o] : o \in Seen'}
      /\ graphSeen' = [i \in DOMAIN graphSeen' |-> graphSeen'[i]]
      /\ \A o \in Seen' :
           graphSeen'[ident'[o]] = [k \in DOMAIN slots'[o] |-> ident'[slots'[o][k]]]
  BY GraphFactsNext DEF GraphOfSeen
<1>3. Seen' = {NewAddress(to, x) : x \in Seen} /\ held' = held
  BY SeenMoved, EvacuateFlags DEF CarefulInv
<1>4. \A x \in Seen : ident'[NewAddress(to, x)] = ident[x]
  BY MovedIdent
<1>5. \A x \in held : ident'[x] = ident[x] /\ x \in Seen
  <2>1. \A x \in held : x \in Seen /\ NewAddress(to, x) = x
    BY MoveFacts, SeenClosed DEF NewAddress, CarefulInv
  <2> QED
    BY <2>1, <1>4
<1>6. DOMAIN graphSeen' = DOMAIN graphSeen
  BY <1>1, <1>2, <1>3, <1>4
<1>7. ASSUME NEW x \in Seen PROVE graphSeen'[ident[x]] = graphSeen[ident[x]]
  <2>1. PICK y \in Seen' : y = NewAddress(to, x)
    BY <1>3
  <2>2. /\ DOMAIN slots'[y] = DOMAIN slots[x]
        /\ \A k \in DOMAIN slots[x] : slots'[y][k] = NewAddress(to, slots[x][k])
    BY <2>1, MovedSlots
  <2>3. \A k \in DOMAIN slots[x] : slots[x][k] \in Seen
    BY SeenType, SeenClosed, ChildSlots DEF CarefulInv
  <2>4. \A k \in DOMAIN slots[x] : ident'[slots'[y][k]] = ident[slots[x][k]]
    BY <2>2, <2>3, <1>4
  <2>5. graphSeen'[ident'[y]] = [k \in DOMAIN slots'[y] |-> ident'[slots'[y][k]]]
    BY <1>2
  <2>6. graphSeen[ident[x]] = [k \in DOMAIN slots[x] |-> ident[slots[x][k]]]
    BY <1>1
  <2>7. ident'[y] = ident[x]
    BY <2>1, <1>4
  <2> QED
    BY <2>2, <2>4, <2>5, <2>6, <2>7
<1>8. \A i \in DOMAIN graphSeen : graphSeen'[i] = graphSeen[i]
  BY <1>1, <1>7
<1>9. graphSeen' = graphSeen
  BY <1>1, <1>2, <1>6, <1>8, SameNodes
<1>10. {ident'[o] : o \in held'} = {ident[o] : o \in held}
  BY <1>3, <1>5
<1> QED
  BY <1>9, <1>10

(* Allocating creates an object of the graph.                              *)
LEMMA GraphNew ==
  ASSUME CarefulInv, CarefulInv', NEW o \in Obj, NEW s \in SlotsOver(Seen),
         New(o, s), NoReuseWhilePending
  PROVE  \E i \in 1..MaxObjects : Objects!New(i)
<1> USE DEF CarefulInv
<1>1. /\ DOMAIN graphSeen = {ident[x] : x \in Seen}
      /\ graphSeen = [i \in DOMAIN graphSeen |-> graphSeen[i]]
      /\ \A x \in Seen :
           graphSeen[ident[x]] = [k \in DOMAIN slots[x] |-> ident[slots[x][k]]]
  BY GraphFacts DEF GraphOfSeen
<1>2. /\ DOMAIN graphSeen' = {ident'[x] : x \in Seen'}
      /\ graphSeen' = [i \in DOMAIN graphSeen' |-> graphSeen'[i]]
      /\ \A x \in Seen' :
           graphSeen'[ident'[x]] = [k \in DOMAIN slots'[x] |-> ident'[slots'[x][k]]]
  BY GraphFactsNext DEF GraphOfSeen
<1>3. PICK i \in 1..MaxObjects : i = created + 1
  BY CollectorAssumption DEF New, EntryInv, CollectorTypeOK
<1>4. /\ held' = held \cup {o}
      /\ ident'[o] = i /\ slots'[o] = s
      /\ \A x \in Obj : x # o => ident'[x] = ident[x] /\ slots'[x] = slots[x]
  BY <1>3 DEF New, EntryInv, CollectorTypeOK, HeapTypeOK
<1>5. o \notin Seen /\ held \subseteq Seen /\ Seen \subseteq Obj
  BY SeenClosed, SeenType DEF New, EntryInv, Entries, LiveOnesStay
<1>6. \A x \in Seen : ident'[x] = ident[x] /\ ident[x] # i
  <2>1. created \in Nat /\ \A x \in Obj : ident[x] \in Nat /\ ident[x] <= created
    BY DEF EntryInv, CollectorTypeOK, Pointers
  <2> QED
    BY <2>1, <1>3, <1>4, <1>5
<1>7. Seen' = Seen \cup {o}
  <2>1. Seen' \subseteq Seen \cup {o}
    BY CarefulNew
  <2>2. held \cup {o} \subseteq Seen' /\ \A x \in Seen' : Children(x)' \subseteq Seen'
    BY <1>4, SeenClosedNext
  <2> DEFINE T == Seen \cap Seen'
  <2>3. \A x \in T : Children(x)' = Children(x)
    BY <1>4, <1>5 DEF Children
  <2>4. T \in SUBSET Obj /\ held \subseteq T /\ \A x \in T : Children(x) \subseteq T
    BY <2>2, <2>3, <1>5, SeenClosed
  <2>5. Seen \subseteq T
    <3> HIDE DEF T
    <3> QED
      BY <2>4, SeenLeast
  <2> QED
    BY <2>1, <2>2, <2>5
<1>8. i \notin DOMAIN graphSeen
  BY <1>1, <1>6
<1>9. {ident'[x] : x \in held'} = {ident[x] : x \in held} \cup {i}
  BY <1>4, <1>5, <1>6
<1>10. DOMAIN graphSeen' = DOMAIN graphSeen \cup {i}
  BY <1>1, <1>2, <1>4, <1>6, <1>7
<1>11. PICK n \in 0..MaxSlots : s \in [1..n -> Seen]
  BY DEF SlotsOver
<1> DEFINE t == [k \in 1..n |-> ident[s[k]]]
           g == [j \in DOMAIN graphSeen \cup {i} |-> IF j = i THEN t ELSE graphSeen[j]]
<1>12. t \in Objects!Slots(DOMAIN graphSeen)
  <2>1. t \in [1..n -> DOMAIN graphSeen]
    BY <1>1, <1>11
  <2> HIDE DEF t
  <2> QED
    BY <2>1 DEF Objects!Slots
<1>13. graphSeen'[i] = t
  <2>1. graphSeen'[ident'[o]] = [k \in DOMAIN slots'[o] |-> ident'[slots'[o][k]]]
    BY <1>2, <1>7
  <2>2. DOMAIN s = 1..n /\ \A k \in 1..n : ident'[s[k]] = ident[s[k]]
    BY <1>6, <1>11
  <2> QED
    BY <2>1, <2>2, <1>4
<1>14. ASSUME NEW x \in Seen PROVE graphSeen'[ident[x]] = graphSeen[ident[x]]
  <2>1. \A k \in DOMAIN slots[x] : slots[x][k] \in Seen
    BY <1>5, SeenClosed, ChildSlots
  <2>2. slots'[x] = slots[x] /\ ident'[x] = ident[x] /\ x \in Seen'
    BY <1>4, <1>5, <1>7
  <2>3. graphSeen'[ident'[x]] = [k \in DOMAIN slots'[x] |-> ident'[slots'[x][k]]]
    BY <2>2, <1>2
  <2> QED
    BY <2>1, <2>2, <2>3, <1>1, <1>6
<1> HIDE DEF t
<1>15. graphSeen' = g
  <2>1. DOMAIN g = DOMAIN graphSeen' /\ g = [j \in DOMAIN g |-> g[j]]
    BY <1>10
  <2>2. \A j \in DOMAIN graphSeen' : graphSeen'[j] = g[j]
    BY <1>1, <1>8, <1>10, <1>13, <1>14
  <2> HIDE DEF g
  <2> QED
    BY <2>1, <2>2, <1>2, SameNodes
<1>16. Objects!New(i)
  BY <1>8, <1>9, <1>12, <1>15 DEF Objects!New
<1> QED
  BY <1>16

(* Starting a collection lets go of what the program does not hold.        *)
LEMMA GraphMark ==
  ASSUME CarefulInv, CarefulInv', NEW S \in SUBSET Seen, Mark(S), DropsForGood, HoldsOldOnes
  PROVE  \E H \in SUBSET DOMAIN graphSeen : Objects!Hold(H)
<1> USE DEF CarefulInv
<1>1. /\ DOMAIN graphSeen = {ident[x] : x \in Seen}
      /\ graphSeen = [i \in DOMAIN graphSeen |-> graphSeen[i]]
      /\ \A x \in Seen :
           graphSeen[ident[x]] = [k \in DOMAIN slots[x] |-> ident[slots[x][k]]]
  BY GraphFacts DEF GraphOfSeen
<1>2. /\ DOMAIN graphSeen' = {ident'[x] : x \in Seen'}
      /\ graphSeen' = [i \in DOMAIN graphSeen' |-> graphSeen'[i]]
      /\ \A x \in Seen' :
           graphSeen'[ident'[x]] = [k \in DOMAIN slots'[x] |-> ident'[slots'[x][k]]]
  BY GraphFactsNext DEF GraphOfSeen
<1>3. held' = S /\ slots' = slots /\ ident' = ident
  BY DEF Mark, histVars
<1>4. Seen' \subseteq Seen /\ Seen \subseteq Obj
  BY CarefulMark, SeenType
<1>5. \A x : Children(x)' = Children(x)
  BY <1>3 DEF Children
<1>6. PICK H \in SUBSET DOMAIN graphSeen : H = {ident[x] : x \in S}
  BY <1>1
<1>7. ASSUME NEW x \in Seen' PROVE graphSeen'[ident[x]] = graphSeen[ident[x]]
  <2>1. graphSeen'[ident'[x]] = [k \in DOMAIN slots'[x] |-> ident'[slots'[x][k]]]
    BY <1>2
  <2>2. graphSeen[ident[x]] = [k \in DOMAIN slots[x] |-> ident[slots[x][k]]]
    BY <1>1, <1>4
  <2> QED
    BY <2>1, <2>2, <1>3, Zenon
<1>8. \A x \in Seen : Range(graphSeen[ident[x]]) = {ident[c] : c \in Children(x)}
  <2> SUFFICES ASSUME NEW x \in Seen
               PROVE  Range(graphSeen[ident[x]]) = {ident[c] : c \in Children(x)}
    OBVIOUS
  <2>1. \A k \in DOMAIN slots[x] : slots[x][k] \in Children(x)
    BY <1>4, ChildSlots
  <2>2. Children(x) = {slots[x][k] : k \in DOMAIN slots[x]}
    BY <2>1 DEF Children, Range
  <2>3. graphSeen[ident[x]] = [k \in DOMAIN slots[x] |-> ident[slots[x][k]]]
    BY <1>1
  <2>4. Range(graphSeen[ident[x]]) = {ident[slots[x][k]] : k \in DOMAIN slots[x]}
    BY <2>3 DEF Range
  <2> QED
    BY <2>2, <2>4
<1> DEFINE R == Objects!Reachable(H)
<1>9. /\ R \subseteq DOMAIN graphSeen /\ H \subseteq R
      /\ \A i \in R : Range(graphSeen[i]) \cap DOMAIN graphSeen \subseteq R
      /\ \A V \in SUBSET DOMAIN graphSeen :
           H \subseteq V /\ (\A i \in V : Range(graphSeen[i]) \subseteq V) => R \subseteq V
  <2> DEFINE Around(V) == /\ V \in SUBSET DOMAIN graphSeen
                          /\ H \subseteq V /\ \A i \in V : Range(graphSeen[i]) \subseteq V
  <2>1. \A i : i \in R <=> i \in DOMAIN graphSeen /\ \A V : Around(V) => i \in V
    BY DEF Objects!Reachable, Objects!Range, Range
  <2>2. \A V : Around(V) => R \subseteq V
    BY <2>1
  <2>3. R \subseteq DOMAIN graphSeen /\ H \subseteq R
    BY <2>1
  <2>4. ASSUME NEW i \in R, NEW j \in Range(graphSeen[i]), j \in DOMAIN graphSeen
        PROVE  j \in R
    <3> HIDE DEF R
    <3>1. \A V : Around(V) => j \in V
      BY <2>1
    <3> QED
      BY <2>1, <2>4, <3>1
  <2> QED
    BY <2>2, <2>3, <2>4
<1> HIDE DEF R
<1>10. {ident[x] : x \in Seen'} \subseteq R
  <2> DEFINE T == {x \in Seen : ident[x] \in R}
  <2>1. T \in SUBSET Obj /\ held' \subseteq T
    BY <1>3, <1>4, <1>6, <1>9
  <2>2. ASSUME NEW x \in T, NEW c \in Children(x) PROVE c \in T
    <3>1. c \in Seen
      BY SeenClosed
    <3>2. ident[c] \in Range(graphSeen[ident[x]]) /\ ident[c] \in DOMAIN graphSeen
      BY <3>1, <1>1, <1>8
    <3> QED
      BY <3>1, <3>2, <1>9
  <2>3. \A x \in T : Children(x)' \subseteq T
    BY <2>2, <1>5
  <2>4. Seen' \subseteq T
    <3> HIDE DEF T
    <3> QED
      BY <2>1, <2>3, SeenLeastNext
  <2> QED
    BY <2>4
<1>11. R \subseteq {ident[x] : x \in Seen'}
  <2> DEFINE V == {ident[x] : x \in Seen'}
  <2>1. V \in SUBSET DOMAIN graphSeen
    BY <1>1, <1>4
  <2>2. S \subseteq Seen' /\ \A x \in Seen' : Children(x) \subseteq Seen'
    BY <1>3, <1>5, SeenClosedNext
  <2>3. H \subseteq V
    BY <2>2, <1>6
  <2>4. \A i \in V : Range(graphSeen[i]) \subseteq V
    BY <2>2, <1>4, <1>8
  <2> HIDE DEF V
  <2> QED
    BY <2>1, <2>3, <2>4, <1>9 DEF V
<1>12. DOMAIN graphSeen' = R
  BY <1>2, <1>3, <1>10, <1>11
<1> DEFINE g == [j \in R |-> graphSeen[j]]
<1>13. graphSeen' = g
  <2>1. DOMAIN g = DOMAIN graphSeen' /\ g = [j \in DOMAIN g |-> g[j]]
    BY <1>12
  <2>2. \A j \in DOMAIN graphSeen' : graphSeen'[j] = g[j]
    BY <1>2, <1>3, <1>7, <1>12
  <2> HIDE DEF g
  <2> QED
    BY <2>1, <2>2, <1>2, SameNodes
<1>14. {ident'[x] : x \in held'} = H
  BY <1>3, <1>6
<1>15. Objects!Hold(H)
  BY <1>13, <1>14 DEF Objects!Hold, R
<1> QED
  BY <1>15

(* A program starts with the empty graph. *)
LEMMA GraphInit == Init => Objects!Init
<1> SUFFICES ASSUME Init PROVE Objects!Init
  OBVIOUS
<1>1. /\ DOMAIN graphSeen = {ident[o] : o \in Seen}
      /\ graphSeen = [i \in DOMAIN graphSeen |-> graphSeen[i]]
  BY CarefulInit, GraphFacts DEF GraphOfSeen
<1>2. held = {}
  BY DEF Init
<1>3. Seen = {}
  <2>1. held \subseteq {} /\ {} \in SUBSET Obj
    BY <1>2
  <2> QED
    BY <2>1, SeenLeast
<1>4. graphSeen = <<>>
  <2> DEFINE g == graphSeen
  <2>1. DOMAIN g = 1..0 /\ g = [i \in DOMAIN g |-> g[i]]
    BY <1>1, <1>3
  <2> HIDE DEF g
  <2>2. g \in [1..0 -> {}]
    BY <2>1
  <2>3. g \in Seq({}) /\ Len(g) = 0
    BY <2>2
  <2> QED
    BY <2>3, EmptySeq DEF g
<1> QED
  BY <1>2, <1>4 DEF Objects!Init

(* Every step is one of the graph, or none. *)
LEMMA GraphStep ==
  CarefulInv /\ CarefulInv' /\ [CarefulNext]_vars
    => [Objects!Next]_<<{ident[o] : o \in held}, graphSeen>>
<1> DEFINE Kept == UNCHANGED <<{ident[o] : o \in held}, graphSeen>>
<1> SUFFICES ASSUME CarefulInv, CarefulInv', [CarefulNext]_vars
             PROVE  Objects!Next \/ Kept
  OBVIOUS
<1>0. SameGraph => Kept
  BY GraphKept
<1> HIDE DEF Kept
<1>1. CASE UNCHANGED vars
  BY <1>0, <1>1, CarefulStutter
<1>2. CASE CarefulNext
  <2>1. Next /\ NoReuseWhilePending
    BY <1>2 DEF CarefulNext
  <2>2. ASSUME NEW o \in Obj, NEW s \in SlotsOver(Seen), New(o, s) PROVE Objects!Next
    <3>1. \E i \in 1..MaxObjects : Objects!New(i)
      BY <2>1, <2>2, GraphNew
    <3> QED
      BY <3>1 DEF Objects!Next
  <2>3. ASSUME NEW p \in Page, Refresh(p) PROVE Kept
    BY <2>3, <1>0, CarefulRefresh
  <2>4. ASSUME NEW S \in SUBSET Seen, Mark(S) PROVE Objects!Next
    <3>1. pc = "mutator" /\ pc' = "evacuate"
      BY <2>4 DEF Mark
    <3>2. DropsForGood /\ HoldsOldOnes
      BY <3>1, <1>2 DEF CarefulNext
    <3>3. \E H \in SUBSET DOMAIN graphSeen : Objects!Hold(H)
      BY <3>2, <2>4, GraphMark
    <3> QED
      BY <3>3 DEF Objects!Next
  <2>5. ASSUME NEW to \in [ToMove -> EvacTargets], Evacuate(to) PROVE Kept
    BY <2>1, <2>5, GraphEvacuate DEF Kept
  <2>6. CASE ComputeDeadRoots
    BY <2>6, <1>0, CarefulComputeDeadRoots
  <2>7. CASE ProcessDecrement
    BY <2>7, <1>0, CarefulProcessDecrement
  <2>8. CASE EndDecrements
    BY <2>8, <1>0, CarefulEndDecrements
  <2>9. CASE Rebuild
    BY <2>9, <1>0, CarefulRebuild
  <2>10. CASE EndCollect
    BY <2>10, <1>0, CarefulEndCollect
  <2>11. CASE OutOfMemory
    BY <2>11, <1>0, CarefulOutOfMemory
  <2> QED
    BY <2>1, <2>2, <2>3, <2>4, <2>5, <2>6, <2>7, <2>8, <2>9, <2>10, <2>11, Zenon
    DEF Next, Program, Collection
<1> QED
  BY <1>1, <1>2

(* Theorem: collect() is invisible.  What the program can get at is, step  *)
(* by step, the graph of immutable objects that it built, while the        *)
(* objects move, their entries are used again, and collections stop and    *)
(* go on with pending_decs left over.                                      *)
THEOREM CollectorRefinesObjectGraph == CarefulSpec => ImplementsObjectGraph
BY GraphInit, GraphStep, CarefulInvariant, PTL
DEF CarefulSpec, ImplementsObjectGraph, Objects!Spec
=============================================================================
