----------------------------- MODULE HeapProofs -----------------------------
(***************************************************************************)
(* Facts about module Heap that the proofs about the phases of collect()   *)
(* share: what is reachable, and the references to an object.              *)
(***************************************************************************)
EXTENDS Heap, SeqFacts, FiniteSetTheorems

-----------------------------------------------------------------------------
(***************************************************************************)
(* Reachability.                                                           *)
(***************************************************************************)

(* What one starts from is reachable. *)
LEMMA ReachableContains ==
  ASSUME NEW From \in SUBSET Obj
  PROVE  From \subseteq ReachableFrom(From)
BY DEF ReachableFrom

(* Children of what is reachable are reachable.                            *)
LEMMA ReachableClosed ==
  ASSUME NEW From, NEW o \in ReachableFrom(From), NEW c \in Children(o), c \in Obj
  PROVE  c \in ReachableFrom(From)
BY DEF ReachableFrom, Closed

(* What is closed and holds the start holds all that is reachable.         *)
LEMMA ReachableLeast ==
  ASSUME NEW From, NEW S \in SUBSET Obj, From \subseteq S, Closed(S)
  PROVE  ReachableFrom(From) \subseteq S
BY DEF ReachableFrom

(* A slot holds an object or NULL, and an object it holds is a child.      *)
LEMMA SlotType ==
  ASSUME HeapTypeOK, NEW o \in Obj, NEW k \in DOMAIN slots[o]
  PROVE  /\ slots[o][k] \in Obj \cup {NULL}
         /\ slots[o][k] # NULL => slots[o][k] \in Children(o)
<1>1. slots[o] \in Seq(Obj \cup {NULL})
  BY DEF HeapTypeOK
<1>2. k \in 1..Len(slots[o])
  BY <1>1, LenProperties
<1> QED
  BY <1>1, <1>2, ElementOfSeq DEF Children, Range

(* Children are objects. *)
LEMMA ChildrenType ==
  ASSUME HeapTypeOK, NEW o \in Obj
  PROVE  Children(o) \subseteq Obj
BY SlotType DEF Children, Range

(* What is reachable through the children of what is reachable is.         *)
LEMMA ReachableMonotonic ==
  ASSUME HeapTypeOK, NEW F \in SUBSET Obj, NEW G \in SUBSET Obj,
         F \subseteq ReachableFrom(G)
  PROVE  ReachableFrom(F) \subseteq ReachableFrom(G)
<1>1. ReachableFrom(G) \in SUBSET Obj
  BY DEF ReachableFrom
<1>2. Closed(ReachableFrom(G))
  BY <1>1, ReachableClosed, ChildrenType DEF Closed
<1> QED
  BY <1>1, <1>2, ReachableLeast

(* What is reachable is where one starts, or a child of what is reachable. *)
LEMMA ReachableStep ==
  ASSUME HeapTypeOK, NEW F \in SUBSET Obj, NEW o \in ReachableFrom(F), o \notin F
  PROVE  \E x \in ReachableFrom(F) : o \in Children(x)
<1> SUFFICES ASSUME \A x \in ReachableFrom(F) : o \notin Children(x)
             PROVE  FALSE
  OBVIOUS
<1> DEFINE S == ReachableFrom(F) \ {o}
<1>1. S \in SUBSET Obj
  BY DEF ReachableFrom
<1>2. F \subseteq S
  BY ReachableContains
<1>3. Closed(S)
  BY <1>1, ReachableClosed, ChildrenType DEF Closed
<1>4. ReachableFrom(F) \subseteq S
  BY <1>1, <1>2, <1>3, ReachableLeast
<1> QED
  BY <1>4

-----------------------------------------------------------------------------
(***************************************************************************)
(* References.                                                             *)
(***************************************************************************)

(* The references to p, one by one.                                        *)
LEMMA RefsElement ==
  ASSUME NEW p
  PROVE  /\ \A o, k : <<o, k>> \in RefsTo(p) <=>
                        o \in Obj /\ IsOld(o) /\ k \in DOMAIN slots[o] /\ slots[o][k] = p
         /\ \A r \in RefsTo(p) : r = <<r[1], r[2]>>
BY DEF RefsTo

(* An image of a finite set is finite. *)
LEMMA FiniteImage ==
  ASSUME NEW S, IsFiniteSet(S), NEW f \in [S -> SUBSET (Obj \X Nat)]
  PROVE  IsFiniteSet({f[x] : x \in S})
<1> DEFINE T == {f[x] : x \in S}
<1>1. f \in [S -> T]
  OBVIOUS
<1>2. f \in Surjection(S, T)
  BY <1>1 DEF Surjection
<1> HIDE DEF T
<1>3. IsFiniteSet(T)
  BY <1>2, FS_Surjection
<1> QED
  BY <1>3 DEF T

(* An object has finitely many references.                                 *)
LEMMA RefsFinite ==
  ASSUME HeapTypeOK, NEW p
  PROVE  IsFiniteSet(RefsTo(p))
<1> DEFINE f == [o \in Obj |-> {o} \X DOMAIN slots[o]]
           All == UNION {f[o] : o \in Obj}
<1>1. ASSUME NEW o \in Obj
      PROVE  DOMAIN slots[o] = 1..Len(slots[o]) /\ Len(slots[o]) \in Nat
  <2>1. slots[o] \in Seq(Obj \cup {NULL})
    BY DEF HeapTypeOK
  <2> QED
    BY <2>1, LenProperties
<1>2. f \in [Obj -> SUBSET (Obj \X Nat)]
  BY <1>1
<1>3. ASSUME NEW o \in Obj PROVE IsFiniteSet(f[o])
  <2>1. IsFiniteSet(DOMAIN slots[o])
    <3> PICK n \in Nat : n = Len(slots[o])
      BY <1>1
    <3>1. IsFiniteSet(1..n)
      BY FS_Interval
    <3> QED
      BY <1>1, <3>1
  <2>2. IsFiniteSet({o})
    BY FS_Singleton
  <2>3. IsFiniteSet({o} \X DOMAIN slots[o])
    BY <2>1, <2>2, FS_Product
  <2> QED
    BY <2>3
<1>4. RefsTo(p) \subseteq All
  <2>1. \A r \in RefsTo(p) : r[1] \in Obj /\ r \in f[r[1]]
    BY RefsElement
  <2> HIDE DEF f
  <2> QED
    BY <2>1
<1>5. IsFiniteSet({f[o] : o \in Obj})
  <2> HIDE DEF f
  <2> QED
    BY <1>2, FiniteImage, HeapAssumption
<1>6. IsFiniteSet(All)
  <2> HIDE DEF f
  <2>1. \A t \in {f[o] : o \in Obj} : IsFiniteSet(t)
    BY <1>3
  <2> QED
    BY <1>5, <2>1, FS_UNION, Zenon
<1> QED
  BY <1>4, <1>6, FS_Subset

(* Two sets of pairs with the same pairs are the same.                     *)
LEMMA SamePairs ==
  ASSUME NEW R, NEW T,
         \A r \in R : r = <<r[1], r[2]>>,
         \A r \in T : r = <<r[1], r[2]>>,
         \A o, k : <<o, k>> \in R <=> <<o, k>> \in T
  PROVE  R = T
<1>1. ASSUME NEW r \in R PROVE r \in T
  <2>1. <<r[1], r[2]>> \in R
    BY Zenon
  <2>2. <<r[1], r[2]>> \in T
    BY <2>1, Zenon
  <2> QED
    BY <2>2, Zenon
<1>2. ASSUME NEW r \in T PROVE r \in R
  <2>1. <<r[1], r[2]>> \in T
    BY Zenon
  <2>2. <<r[1], r[2]>> \in R
    BY <2>1, Zenon
  <2> QED
    BY <2>2, Zenon
<1> QED
  BY <1>1, <1>2

(* An object some old object points to has a reference.                    *)
LEMMA ReferredTo ==
  ASSUME HeapTypeOK, NEW x \in Obj, IsOld(x), NEW o \in Obj, o \in Children(x)
  PROVE  \E k \in DOMAIN slots[x] : slots[x][k] = o /\ <<x, k>> \in RefsTo(o)
<1>1. PICK k \in DOMAIN slots[x] : slots[x][k] = o
  BY DEF Children, Range
<1> QED
  BY <1>1, RefsElement

(* A flag that is set at the addresses in F. *)
LEMMA FlagFacts ==
  ASSUME NEW F, NEW f, f = [o \in Obj |-> o \in F]
  PROVE  f \in [Obj -> BOOLEAN] /\ \A o \in Obj : f[o] <=> o \in F
<1>1. f \in [Obj -> BOOLEAN]
  BY SMT
<1>2. \A o \in Obj : f[o] <=> o \in F
  BY Zenon
<1> QED
  BY <1>1, <1>2
=============================================================================
