-------------------------------- MODULE Heap --------------------------------
(***************************************************************************)
(* The object slots of the GC pages and the part of their metadata that    *)
(* deciding liveness needs (struct MetaData of src/runtime/common.h).      *)
(*                                                                         *)
(* An object slot is an address: Obj is the set of addresses at which the  *)
(* entries of the GC pages hold an object.  slots[o] is the object's       *)
(* pointer slots in address order.  A slot the type's ptr_mask marks as    *)
(* '0', a null pointer and an inline string (mask '2' with a non-zero low  *)
(* bit) are all NULL here: the collector skips the three alike.  A leaf    *)
(* type (ptr_mask = LEAF_PTR_MASK) has no slots.                           *)
(***************************************************************************)
EXTENDS Integers, Sequences, FiniteSets, Functions

CONSTANTS
  Obj,   \* the addresses that can hold an object
  NULL   \* nullptr, and every slot value the collector does not follow

ASSUME NullAssumption == NULL \notin Obj

(* Memory is finite. *)
ASSUME HeapAssumption == IsFiniteSet(Obj)

VARIABLES
  isalloc,   \* MetaData.isalloc:  the entry holds an object
  isyoung,   \* MetaData.isyoung:  allocated since the last collection
  ismarked,  \* MetaData.ismarked: found by this collection's marking walk
  isroot,    \* MetaData.isroot:   found by this collection's stack scan
  ref_count, \* MetaData.ref_count: slots of old objects that point here
  slots,     \* the pointer slots of the object at an address
  roots,     \* tinfo.roots[0 .. roots_count - 1]
  pc         \* where the thread is in collect()

heapVars == <<isalloc, isyoung, ismarked, isroot, ref_count, slots>>

HeapTypeOK ==
  /\ isalloc  \in [Obj -> BOOLEAN]
  /\ isyoung  \in [Obj -> BOOLEAN]
  /\ ismarked \in [Obj -> BOOLEAN]
  /\ isroot   \in [Obj -> BOOLEAN]
  /\ ref_count \in [Obj -> Nat]
  /\ slots    \in [Obj -> Seq(Obj \cup {NULL})]

(* The objects that o's slots point to. *)
Children(o) == Range(slots[o]) \ {NULL}

(* Following a pointer from S never leaves S. *)
Closed(S) == \A o \in S : Children(o) \subseteq S

(* The addresses that can be reached from the addresses in From. *)
ReachableFrom(From) ==
  LET around == {S \in SUBSET Obj : From \subseteq S /\ Closed(S)}
  IN {o \in Obj : \A S \in around : o \in S}

(* An object that collections have promoted; only these hold references. *)
IsOld(o) == isalloc[o] /\ ~isyoung[o]

(* All slots of old objects that hold p, each as <<object, index>>. *)
RefsTo(p) ==
  UNION {{<<o, k>> : k \in {i \in DOMAIN slots[o] : slots[o][i] = p}} :
           o \in {x \in Obj : IsOld(x)}}

(***************************************************************************)
(* Every old object's count is the number of slots of old objects that     *)
(* point to it.  One too few and the decrement phase frees a live object,  *)
(* one too many and it never dies.                                         *)
(***************************************************************************)
CountsExact == \A o \in Obj : IsOld(o) => ref_count[o] = Cardinality(RefsTo(o))

(* Nothing reachable from o points back at o: Bosque values are immutable, *)
(* so an object can only hold pointers to objects that already existed.    *)
Acyclic == \A o \in Obj : o \notin ReachableFrom(Children(o))

(***************************************************************************)
(* What a program leaves in memory between two collections: no mark and no *)
(* root flag survives a collection (GC_CLEAR_ROOT_MARK), only allocated    *)
(* entries hold pointers, and an old object, being immutable, does not     *)
(* point to an object allocated after it was promoted.                     *)
(***************************************************************************)
Quiescent ==
  /\ \A o \in Obj : ~ismarked[o] /\ ~isroot[o]
  /\ \A o \in Obj : ~isalloc[o] => ~isyoung[o] /\ slots[o] = <<>>
  /\ \A o \in Obj : \A c \in Children(o) :
       /\ isalloc[c]
       /\ ~isyoung[o] => ~isyoung[c]
  /\ Acyclic
=============================================================================
