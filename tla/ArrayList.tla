------------------------------ MODULE ArrayList ------------------------------
(***************************************************************************)
(* ArrayList of src/runtime/support/arraylist.h: the collector's work      *)
(* lists pending_roots, pending_young, pending_decs and visit_stack, each  *)
(* a chain of one-page segments of DataWords words behind their header.    *)
(*                                                                         *)
(* The pointers head and tail are offsets, in words, in the first and the  *)
(* last segment; tail_max is offset DataWords, and what lies beyond it is  *)
(* another page.  The lists take their segments from one page manager      *)
(* (module XAllocPages).                                                   *)
(***************************************************************************)
EXTENDS XAllocPages

CONSTANTS
  List,       \* the work lists
  Fifo,       \* those read with pop_front: pending_roots, _young and _decs
  Lifo,       \* those read with pop_back: visit_stack
  Value,      \* the elements they hold
  NULL,       \* nullptr
  DataWords,  \* BSQ_BLOCK_ALLOCATION_SIZE less sizeof(ArrayListSegment): 509
  ElemWords   \* ElemWords[l]: sizeof(T), 1 for void*, 2 for MarkStackEntry

ASSUME ListAssumption ==
  /\ Fifo \subseteq List
  /\ Lifo \subseteq List
  /\ NULL \notin Value
  /\ DataWords \in Nat \ {0}
  /\ ElemWords \in [List -> 1..DataWords]

VARIABLES
  segments,  \* segments[l]: the pages from head_segment to tail_segment
  head,      \* head[l]: the offset of the first element
  tail,      \* tail[l]: the offset of the first word after the last element
  memory,    \* memory[p][w]: the element that starts at word w of page p
  result     \* result[l]: what the last pop from l returned

listVars == <<segments, head, tail, memory, result>>
allListVars == <<pageVars, listVars>>

Word == 0..(DataWords - 1)

ListTypeOK ==
  /\ mapped \in SUBSET Page
  /\ free_pages \in Seq(Page)
  /\ segments \in [List -> Seq(Page)]
  /\ head \in [List -> Nat]
  /\ tail \in [List -> Nat]
  /\ memory \in [Page -> [Word -> Value \cup {NULL}]]
  /\ result \in [List -> Value \cup {NULL}]

(* All pointers of a list that is not in use are nullptr. *)
ListInit ==
  /\ PagesInit
  /\ segments = [l \in List |-> <<>>]
  /\ head = [l \in List |-> 0]
  /\ tail = [l \in List |-> 0]
  /\ memory = [p \in Page |-> [w \in Word |-> NULL]]
  /\ result = [l \in List |-> NULL]

InUse(l)       == segments[l] # <<>>
HeadSegment(l) == Head(segments[l])
TailSegment(l) == segments[l][Len(segments[l])]
isEmpty(l)     == Len(segments[l]) = 1 /\ head[l] = tail[l]

initialize(l) ==
  /\ ~InUse(l)
  /\ \E p \in Page :
       /\ AllocatePage(p)
       /\ segments' = [segments EXCEPT ![l] = <<p>>]
  /\ head' = [head EXCEPT ![l] = 0]
  /\ tail' = [tail EXCEPT ![l] = 0]
  /\ UNCHANGED <<memory, result>>

clear(l) ==
  /\ InUse(l)
  /\ FreePages(segments[l])
  /\ segments' = [segments EXCEPT ![l] = <<>>]
  /\ head' = [head EXCEPT ![l] = 0]
  /\ tail' = [tail EXCEPT ![l] = 0]
  /\ UNCHANGED <<memory, result>>

(* push_back starts a new segment when tail has reached tail_max; the      *)
(* variants do so one element too late or too early.                       *)
TailPastMax(l)   == tail[l] > DataWords
TailBeforeMax(l) == tail[l] + ElemWords[l] = DataWords
TailAtMax(l) == tail[l] = DataWords

PushBackFast(l, v) ==
  /\ InUse(l) /\ ~TailAtMax(l)
  /\ memory' = [memory EXCEPT ![TailSegment(l)] =
                  [w \in Word |-> IF w = tail[l] THEN v ELSE @[w]]]
  /\ tail' = [tail EXCEPT ![l] = @ + ElemWords[l]]
  /\ UNCHANGED <<pageVars, segments, head, result>>

PushBackSlow(l, v) ==
  /\ InUse(l) /\ TailAtMax(l)
  /\ \E p \in Page :
       /\ AllocatePage(p)
       /\ segments' = [segments EXCEPT ![l] = Append(@, p)]
       /\ memory' = [memory EXCEPT ![p][0] = v]
  /\ tail' = [tail EXCEPT ![l] = ElemWords[l]]
  /\ UNCHANGED <<head, result>>

(***************************************************************************)
(* pop_front frees the head segment when head has reached head_max; if     *)
(* there is no other segment, head_segment becomes nullptr here and is     *)
(* dereferenced at once (arraylist.h:57).                                  *)
(***************************************************************************)
LastOfSegment(l) == head[l] + ElemWords[l] = DataWords

PopFrontFast(l) ==
  /\ InUse(l) /\ ~isEmpty(l) /\ ~LastOfSegment(l)
  /\ result' = [result EXCEPT ![l] = memory[HeadSegment(l)][head[l]]]
  /\ head' = [head EXCEPT ![l] = @ + ElemWords[l]]
  /\ UNCHANGED <<pageVars, segments, tail, memory>>

PopFrontSlow(l) ==
  /\ InUse(l) /\ ~isEmpty(l) /\ LastOfSegment(l)
  /\ result' = [result EXCEPT ![l] = memory[HeadSegment(l)][head[l]]]
  /\ segments' = [segments EXCEPT ![l] = Tail(@)]
  /\ head' = [head EXCEPT ![l] = 0]
  /\ FreePages(<<HeadSegment(l)>>)
  /\ UNCHANGED <<tail, memory>>

(* pop_back frees the tail segment when nothing is left in it. *)
PopBackFast(l) ==
  /\ InUse(l) /\ ~isEmpty(l) /\ tail[l] # 0
  /\ result' = [result EXCEPT ![l] = memory[TailSegment(l)][tail[l] - ElemWords[l]]]
  /\ tail' = [tail EXCEPT ![l] = @ - ElemWords[l]]
  /\ UNCHANGED <<pageVars, segments, head, memory>>

PopBackSlow(l) ==
  /\ InUse(l) /\ ~isEmpty(l) /\ tail[l] = 0
  /\ LET previous == segments[l][Len(segments[l]) - 1] IN
       result' = [result EXCEPT ![l] = memory[previous][DataWords - ElemWords[l]]]
  /\ segments' = [segments EXCEPT ![l] = SubSeq(@, 1, Len(@) - 1)]
  /\ tail' = [tail EXCEPT ![l] = DataWords - ElemWords[l]]
  /\ FreePages(<<TailSegment(l)>>)
  /\ UNCHANGED <<head, memory>>

PopFront(l) == PopFrontFast(l) \/ PopFrontSlow(l)
PopBack(l)  == PopBackFast(l) \/ PopBackSlow(l)

Operate(l) ==
  \/ initialize(l)
  \/ clear(l)
  \/ \E v \in Value : PushBackFast(l, v)
  \/ \E v \in Value : PushBackSlow(l, v)

ListNext ==
  \/ \E l \in List : Operate(l)
  \/ \E l \in Fifo : PopFront(l)
  \/ \E l \in Lifo : PopBack(l)

ListSpec == ListInit /\ [][ListNext]_allListVars

(***************************************************************************)
(* The lists as the collector can use them without harm: no pop_front      *)
(* empties a segment that is full to the last word and the only one.       *)
(***************************************************************************)
EmptiesFullSegment(l) == Len(segments[l]) = 1 /\ LastOfSegment(l)

CarefulNext ==
  \/ \E l \in List : Operate(l)
  \/ \E l \in Fifo : ~EmptiesFullSegment(l) /\ PopFront(l)
  \/ \E l \in Lifo : PopBack(l)

CarefulSpec == ListInit /\ [][CarefulNext]_allListVars

-----------------------------------------------------------------------------
(***************************************************************************)
(* Properties.                                                             *)
(***************************************************************************)

(***************************************************************************)
(* The list's own invariant (arraylist.h:84, asserted by every operation   *)
(* in a build with DSA_INVARIANTS): a list in use has a head segment, head *)
(* and tail lie in their segments, and head is not behind tail.  A list    *)
(* out of use has nullptr throughout.                                      *)
(***************************************************************************)
Invariant(l) ==
  IF InUse(l)
    THEN /\ head[l] < DataWords
         /\ tail[l] <= DataWords
         /\ Len(segments[l]) = 1 => head[l] <= tail[l]
    ELSE head[l] = 0 /\ tail[l] = 0

ListsSound == \A l \in List : Invariant(l)

(***************************************************************************)
(* Every page is in one place: in one segment of one list, or once on the  *)
(* free list.  A page in two places would be written by two lists at once. *)
(***************************************************************************)
PagesOwnedOnce ==
  /\ \A l, m \in List : \A i \in DOMAIN segments[l], j \in DOMAIN segments[m] :
       segments[l][i] = segments[m][j] => l = m /\ i = j
  /\ \A l \in List : \A i \in DOMAIN segments[l], j \in DOMAIN free_pages :
       segments[l][i] # free_pages[j]
  /\ \A i, j \in DOMAIN free_pages : free_pages[i] = free_pages[j] => i = j
  /\ mapped = Range(free_pages) \cup UNION {Range(segments[l]) : l \in List}

(***************************************************************************)
(* The lists implement sequences (module Deques): the words from head to   *)
(* tail, read segment after segment, are the elements that were pushed and *)
(* not yet popped, and each pop returns the one it should.                 *)
(***************************************************************************)
WordsHeld(l) == (Len(segments[l]) - 1) * DataWords + tail[l] - head[l]

ElementAt(l, w) == memory[segments[l][(w \div DataWords) + 1]][w % DataWords]

Elements(l) ==
  [k \in 1..(WordsHeld(l) \div ElemWords[l]) |->
     ElementAt(l, head[l] + (k - 1) * ElemWords[l])]

Abstract == INSTANCE Deques WITH
              deque <- [l \in List |-> IF InUse(l) THEN Elements(l) ELSE NULL]

ImplementsDeques == Abstract!Spec
=============================================================================
