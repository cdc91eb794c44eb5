-------------------------- MODULE EvacuationProofs --------------------------
(***************************************************************************)
(* Proofs about modules Marking and Evacuation, for every heap, every scan *)
(* and every choice of free entries: what the walk marks and lists, and    *)
(* what evacuation makes of it.                                            *)
(*                                                                         *)
(* MarkedExactlyLiveYoung is not inductive: it speaks of the end of the    *)
(* walk only.  The invariant it needs is the classic tricolour one: a      *)
(* marked object is still grey on the stack, or is the object whose slots  *)
(* are being visited and the visited ones are done, or has all its young   *)
(* children marked; and every young root is marked or still pending.       *)
(*                                                                         *)
(* ProgramSeesSameGraph speaks of the end only, too.  Its invariant says,  *)
(* of every moment of the loop, what each object stands for: an object     *)
(* that has moved has one allocated copy, which is old; no object's slot   *)
(* leads to an entry that evacuation may still draw on; and, where the     *)
(* marking order is topological, the children of the next object are old   *)
(* or have moved, so that updatePointers leaves no slot of an old object   *)
(* that leads to a young one.                                              *)
(***************************************************************************)
EXTENDS Evacuation, HeapProofs

-----------------------------------------------------------------------------
(***************************************************************************)
(* Marking.                                                                *)
(***************************************************************************)


(* The part of Quiescent that holds during the walk as well: it says       *)
(* nothing of marks and roots, and the walk changes nothing else.          *)
GraphOK ==
  /\ \A o \in Obj : ~isalloc[o] => ~isyoung[o]
  /\ \A o \in Obj : \A c \in Children(o) : ~isyoung[o] => ~isyoung[c]

(* The objects that the words read so far refer to. *)
ReadObjs ==
  {o \in Obj : /\ isalloc[o]
               /\ \E i \in 1..(nword - 1) :
                    IsPotentialPtr(words[i]) /\ EntryOf[words[i]] = o}

ScanInv ==
  /\ Range(roots) = ReadObjs
  /\ \A i, j \in DOMAIN roots : roots[i] = roots[j] => i = j
  /\ \A o \in Obj : isroot[o] <=> o \in ReadObjs
  /\ pc # "walkStack" => nword = Len(words) + 1

PhaseInv ==
  /\ pc = "walkStack" => \A o \in Obj : ~ismarked[o]
  /\ pc = "walkStack" => pending_young = <<>>
  /\ pc # "walkSingleRoot" => visit_stack = <<>> /\ cur = NULL
  /\ pc = "marked" => pending_roots = <<>>

CurInv ==
  /\ cur = NULL => slot = 1
  /\ cur # NULL => ismarked[cur] /\ slot \in DOMAIN slots[cur]

RootInv ==
  /\ \A i \in DOMAIN pending_roots : pending_roots[i] \in RootObjs
  /\ \A o \in ReadObjs :
       isyoung[o] => ismarked[o] \/ o \in Range(pending_roots)

GreyOnStack(o) ==
  \E i \in DOMAIN visit_stack : visit_stack[i] = [obj |-> o, color |-> Grey]

(* The slots of o that the walk has visited lead to no unmarked young object. *)
VisitedSlotsMarked(o) ==
  \A k \in DOMAIN slots[o] :
    (o = cur => k < slot)
      => LET c == slots[o][k] IN c # NULL /\ isyoung[c] => ismarked[c]

Tricolor ==
  /\ \A o \in Obj : ismarked[o] => isyoung[o] /\ o \in ReachableFrom(RootObjs)
  /\ \A o \in Obj : ismarked[o] => GreyOnStack(o) \/ VisitedSlotsMarked(o)

IInv == /\ TypeOK
        /\ GraphOK
        /\ ScanInv
        /\ PhaseInv
        /\ CurInv
        /\ RootInv
        /\ Tricolor
        /\ MarkedOnce

(* The objects below o. *)
Below(o) == ReachableFrom(Children(o))

(* Entry b may be above entry a on the visit stack: what is above a black  *)
(* object is below it in the heap, and a grey object is not below what is  *)
(* above it on the stack.                                                  *)
MayBeAbove(b, a) ==
  /\ a.color = Black => b.obj \in Below(a.obj)
  /\ a.color = Grey => a.obj \notin Below(b.obj)

StackOrder ==
  \A p, q \in DOMAIN visit_stack : p < q => MayBeAbove(visit_stack[q], visit_stack[p])

(* The entries above that of the object whose slots are being visited are  *)
(* grey, and come from slots that are done.                                *)
CurOrder ==
  cur # NULL =>
    \E m \in DOMAIN visit_stack :
      /\ visit_stack[m] = [obj |-> cur, color |-> Black]
      /\ \A p \in DOMAIN visit_stack : p > m =>
           /\ visit_stack[p].color = Grey
           /\ \E k \in DOMAIN slots[cur] : k < slot /\ slots[cur][k] = visit_stack[p].obj

OrderInv == Acyclic /\ (NoShortcut => StackOrder /\ CurOrder /\ TopologicalOrder)

-----------------------------------------------------------------------------
(***************************************************************************)
(* The visit stack.                                                        *)
(***************************************************************************)

(* What pop_back leaves of an ArrayList. *)
LEMMA PopBackFacts ==
  ASSUME NEW S, NEW s \in Seq(S), s # <<>>
  PROVE  /\ PopBack(s) \in Seq(S)
         /\ Len(s) \in DOMAIN s
         /\ Top(s) \in S
         /\ DOMAIN PopBack(s) = DOMAIN s \ {Len(s)}
         /\ \A i \in DOMAIN PopBack(s) : PopBack(s)[i] = s[i]
<1>1. Len(s) \in Nat \ {0} /\ DOMAIN s = 1..Len(s)
  BY EmptySeq, LenProperties
<1>2. \A i \in 1..(Len(s) - 1) : s[i] \in S
  BY <1>1, ElementOfSeq
<1>3. /\ PopBack(s) \in Seq(S)
      /\ Len(PopBack(s)) = Len(s) - 1
      /\ \A i \in 1..(Len(s) - 1) : PopBack(s)[i] = s[i]
  BY <1>1, <1>2, SubSeqProperties, SMT DEF PopBack
<1>4. DOMAIN PopBack(s) = 1..(Len(s) - 1)
  BY <1>3, LenProperties
<1> QED
  BY <1>1, <1>3, <1>4, ElementOfSeq DEF Top

(* What a push leaves on the visit stack. *)
LEMMA PushFacts ==
  ASSUME NEW s \in Seq(Entry), NEW o \in Obj, NEW c \in {Grey, Black}
  PROVE  LET e == [obj |-> o, color |-> c]
             t == Append(s, e) IN
           /\ t \in Seq(Entry)
           /\ DOMAIN t = DOMAIN s \cup {Len(s) + 1}
           /\ Len(s) + 1 \notin DOMAIN s
           /\ \A i \in DOMAIN s : t[i] = s[i]
           /\ t[Len(s) + 1] = e
<1>1. [obj |-> o, color |-> c] \in Entry
  BY DEF Entry
<1>2. Len(s) + 1 \notin DOMAIN s
  BY LenProperties
<1> QED
  BY <1>1, <1>2, AppendFacts

-----------------------------------------------------------------------------
(***************************************************************************)
(* The invariant, one conjunct at a time.                                  *)
(***************************************************************************)

(* No step of the walk changes the object graph or the scanned words. *)
LEMMA GraphFrame ==
  ASSUME [Next]_vars
  PROVE  /\ UNCHANGED <<isalloc, isyoung, slots, words>>
         /\ GraphOK => GraphOK'
         /\ RootObjs' = RootObjs
         /\ ReachableFrom(RootObjs)' = ReachableFrom(RootObjs)
<1>1. UNCHANGED <<isalloc, isyoung, slots, words>>
  BY DEF Next, MarkingNext, IgnoreWord, FindRoot, EndWalkStack, TakeRoot,
         EndMarkingWalk, LeaveObject, EnterObject, VisitSlot, EndSingleRoot,
         Done, vars, heapVars, walkVars
<1>2. RootObjs' = RootObjs
  BY <1>1 DEF RootObjs, ScannedObjs
<1>3. ReachableFrom(RootObjs)' = ReachableFrom(RootObjs)
  BY <1>1, <1>2 DEF ReachableFrom, Closed, Children
<1>4. GraphOK => GraphOK'
  BY <1>1 DEF GraphOK, Children
<1> QED
  BY <1>1, <1>2, <1>3, <1>4

(* An entry on the visit stack is an object with its colour. *)
LEMMA TopEntry ==
  ASSUME TypeOK, MarkedOnce, visit_stack # <<>>
  PROVE  /\ Top(visit_stack) \in Entry
         /\ Top(visit_stack).obj \in Obj
         /\ ismarked[Top(visit_stack).obj]
<1>1. Top(visit_stack) \in Entry /\ Len(visit_stack) \in DOMAIN visit_stack
  BY PopBackFacts DEF TypeOK
<1>2. Top(visit_stack).obj \in Obj
  BY <1>1 DEF Entry
<1>3. Len(visit_stack) \in OnStack(Top(visit_stack).obj)
  BY <1>1 DEF OnStack, Top
<1> QED
  BY <1>1, <1>2, <1>3 DEF MarkedOnce

(* Entering an object only blackens the top of the stack. *)
LEMMA EnterFacts ==
  ASSUME TypeOK, MarkedOnce, EnterObject
  PROVE  /\ Len(visit_stack) \in DOMAIN visit_stack
         /\ DOMAIN visit_stack' = DOMAIN visit_stack
         /\ \A i \in DOMAIN visit_stack : visit_stack'[i].obj = visit_stack[i].obj
         /\ \A i \in DOMAIN visit_stack : i # Len(visit_stack) => visit_stack'[i] = visit_stack[i]
         /\ visit_stack[Len(visit_stack)].color = Grey
         /\ visit_stack'[Len(visit_stack)] = [obj |-> cur', color |-> Black]
<1>1. PICK x \in Obj : x = Top(visit_stack).obj /\ Top(visit_stack).color = Grey
  BY TopEntry DEF EnterObject
<1>2. /\ Len(visit_stack) \in DOMAIN visit_stack
      /\ PopBack(visit_stack) \in Seq(Entry)
      /\ DOMAIN PopBack(visit_stack) = DOMAIN visit_stack \ {Len(visit_stack)}
      /\ \A i \in DOMAIN PopBack(visit_stack) :
           PopBack(visit_stack)[i] = visit_stack[i]
      /\ Len(PopBack(visit_stack)) + 1 = Len(visit_stack)
  <2>1. Len(visit_stack) \in Nat \ {0} /\ DOMAIN visit_stack = 1..Len(visit_stack)
    BY EmptySeq, LenProperties DEF EnterObject, TypeOK
  <2>2. /\ Len(visit_stack) \in DOMAIN visit_stack
        /\ PopBack(visit_stack) \in Seq(Entry)
        /\ DOMAIN PopBack(visit_stack) = DOMAIN visit_stack \ {Len(visit_stack)}
        /\ \A i \in DOMAIN PopBack(visit_stack) :
             PopBack(visit_stack)[i] = visit_stack[i]
    BY PopBackFacts DEF EnterObject, TypeOK
  <2>3. Len(PopBack(visit_stack)) = Len(visit_stack) - 1
    <3>1. \A i \in 1..(Len(visit_stack) - 1) : visit_stack[i] \in Entry
      BY <2>1, ElementOfSeq DEF TypeOK
    <3> QED
      BY <2>1, <3>1, SubSeqProperties, SMT DEF PopBack
  <2> QED
    BY <2>1, <2>2, <2>3
<1>3. visit_stack' = Append(PopBack(visit_stack), [obj |-> x, color |-> Black]) /\ cur' = x
  BY <1>1 DEF EnterObject, PushBlack
<1>4. /\ DOMAIN visit_stack' = DOMAIN PopBack(visit_stack) \cup {Len(visit_stack)}
      /\ \A i \in DOMAIN PopBack(visit_stack) :
           visit_stack'[i] = PopBack(visit_stack)[i]
      /\ visit_stack'[Len(visit_stack)] = [obj |-> x, color |-> Black]
  BY <1>2, <1>3, PushFacts
<1> QED
  BY <1>1, <1>2, <1>3, <1>4 DEF Top

(* A list stays within its type when an element is pushed or popped. *)
LEMMA TypeStep ==
  ASSUME IInv, [Next]_vars
  PROVE  TypeOK'
<1> USE DEF IInv
<1>0. nword \in Nat /\ Len(words) \in Nat
  BY LenProperties DEF TypeOK
<1>1. CASE IgnoreWord
  <2>1. nword' \in 1..(Len(words) + 1)
    BY <1>0, <1>1 DEF IgnoreWord, NextWord, TypeOK
  <2> QED
    BY <1>1, <2>1 DEF IgnoreWord, TypeOK, HeapTypeOK, heapVars
<1>2. CASE FindRoot
  <2> DEFINE o == EntryOf[words[nword]]
  <2>1. o \in Obj
    BY <1>2, WordAssumption, ElementOfSeq, LenProperties DEF FindRoot, TypeOK
  <2>2. roots' \in Seq(Obj) /\ pending_roots' \in Seq(Obj)
    BY <1>2, <2>1, AppendFacts DEF FindRoot, TypeOK
  <2>3. isroot' = [isroot EXCEPT ![o] = TRUE] /\ nword' = nword + 1
    BY <1>2 DEF FindRoot, NextWord
  <2>4. isroot' \in [Obj -> BOOLEAN]
    BY <2>1, <2>3 DEF TypeOK, HeapTypeOK
  <2>5. nword' \in 1..(Len(words) + 1)
    BY <1>0, <1>2, <2>3 DEF FindRoot, TypeOK
  <2> QED
    BY <1>2, <2>2, <2>4, <2>5 DEF FindRoot, TypeOK, HeapTypeOK
<1>3. CASE EndWalkStack \/ EndMarkingWalk \/ EndSingleRoot
  BY <1>3 DEF EndWalkStack, EndMarkingWalk, EndSingleRoot, TypeOK, HeapTypeOK,
              WalkPhases, heapVars
<1>4. CASE TakeRoot
  <2>1. Head(pending_roots) \in Obj /\ pending_roots' \in Seq(Obj)
    BY <1>4, PopFrontFacts DEF TakeRoot, TypeOK
  <2>2. PushGrey(visit_stack, Head(pending_roots)) \in Seq(Entry)
    BY <2>1, PushFacts DEF TypeOK, PushGrey
  <2>3. visit_stack' \in Seq(Entry)
    BY <1>4, <2>2 DEF TakeRoot, TypeOK
  <2> QED
    BY <1>4, <2>1, <2>3 DEF TakeRoot, TypeOK, HeapTypeOK, WalkPhases
<1>5. CASE LeaveObject
  <2>1. visit_stack' \in Seq(Entry)
    BY <1>5, PopBackFacts DEF LeaveObject, TypeOK
  <2>2. pending_young' \in Seq(Obj)
    BY <1>5, TopEntry, AppendFacts DEF LeaveObject, TypeOK
  <2> QED
    BY <1>5, <2>1, <2>2 DEF LeaveObject, TypeOK, HeapTypeOK, heapVars
<1>6. CASE EnterObject
  <2>1. Top(visit_stack).obj \in Obj
    BY <1>6, TopEntry DEF EnterObject
  <2>2. PopBack(visit_stack) \in Seq(Entry)
    BY <1>6, PopBackFacts DEF EnterObject, TypeOK
  <2>3. visit_stack' \in Seq(Entry)
    BY <1>6, <2>1, <2>2, PushFacts DEF EnterObject, PushBlack
  <2> QED
    BY <1>6, <2>1, <2>3 DEF EnterObject, TypeOK, HeapTypeOK, heapVars
<1>7. CASE VisitSlot
  <2> DEFINE child == slots[cur][slot]
  <2>1. cur \in Obj /\ slot \in DOMAIN slots[cur]
    BY <1>7 DEF VisitSlot, TypeOK, CurInv
  <2>2. child # NULL => PushGrey(visit_stack, child) \in Seq(Entry)
    BY <2>1, SlotType, PushFacts DEF TypeOK, PushGrey
  <2>3. visit_stack' \in Seq(Entry)
    BY <1>7, <2>2 DEF VisitSlot, TypeOK
  <2>4. ismarked' \in [Obj -> BOOLEAN]
    BY <1>7 DEF VisitSlot, TypeOK, HeapTypeOK
  <2>5. cur' \in Obj \cup {NULL} /\ slot' \in Nat \ {0}
    BY <1>7 DEF VisitSlot, TypeOK
  <2> QED
    BY <1>7, <2>3, <2>4, <2>5 DEF VisitSlot, TypeOK, HeapTypeOK
<1>8. CASE UNCHANGED vars
  BY <1>8 DEF vars, heapVars, walkVars, TypeOK, HeapTypeOK
<1> QED
  BY <1>1, <1>2, <1>3, <1>4, <1>5, <1>6, <1>7, <1>8 DEF Next, MarkingNext, Done

(* Only IgnoreWord and FindRoot read a word; the other steps leave it all. *)
LEMMA ScanStep ==
  ASSUME IInv, [Next]_vars
  PROVE  ScanInv'
<1> USE DEF IInv
<1>1. CASE IgnoreWord
  <2>1. nword \in Nat \ {0} /\ Len(words) \in Nat
    BY LenProperties DEF TypeOK
  <2>2. 1..(nword' - 1) = 1..(nword - 1) \cup {nword}
    BY <1>1, <2>1 DEF IgnoreWord, NextWord
  <2>3. ReadObjs' = ReadObjs
    <3>1. UNCHANGED <<isalloc, isroot, words>>
      BY <1>1 DEF IgnoreWord, heapVars
    <3>2. \A o \in Obj : isalloc[o] /\ IsPotentialPtr(words[nword])
                            /\ EntryOf[words[nword]] = o => isroot[o]
      BY <1>1 DEF IgnoreWord, ShouldProcessAsRoot
    <3> QED
      BY <2>2, <3>1, <3>2 DEF ReadObjs, ScanInv, IsPotentialPtr
  <2> QED
    BY <1>1, <2>3 DEF IgnoreWord, ScanInv, heapVars
<1>2. CASE FindRoot
  <2> DEFINE o == EntryOf[words[nword]]
  <2>1. o \in Obj /\ nword \in Nat \ {0}
    BY <1>2, WordAssumption, ElementOfSeq, LenProperties DEF FindRoot, TypeOK
  <2>2. 1..(nword' - 1) = 1..(nword - 1) \cup {nword}
    BY <1>2, <2>1 DEF FindRoot, NextWord
  <2>3. ReadObjs' = ReadObjs \cup {o}
    BY <1>2, <2>1, <2>2 DEF FindRoot, ReadObjs, IsPotentialPtr, ShouldProcessAsRoot
  <2>4. o \notin ReadObjs
    BY <1>2, <2>1 DEF FindRoot, ShouldProcessAsRoot, ScanInv
  <2>5. /\ Range(roots') = Range(roots) \cup {o}
        /\ DOMAIN roots' = DOMAIN roots \cup {Len(roots) + 1}
        /\ \A i \in DOMAIN roots : roots'[i] = roots[i]
        /\ roots'[Len(roots) + 1] = o
    BY <1>2, <2>1, AppendFacts DEF FindRoot, TypeOK
  <2>6. \A i \in DOMAIN roots : roots[i] # o
    BY <2>4 DEF ScanInv, Range
  <2>7. \A i, j \in DOMAIN roots' : roots'[i] = roots'[j] => i = j
    BY <2>5, <2>6 DEF ScanInv
  <2>8. \A x \in Obj : isroot'[x] <=> x \in ReadObjs'
    BY <1>2, <2>1, <2>3 DEF FindRoot, ScanInv, TypeOK, HeapTypeOK
  <2> QED
    BY <1>2, <2>3, <2>5, <2>7, <2>8 DEF FindRoot, ScanInv
<1>3. CASE EndWalkStack
  <2>1. nword = Len(words) + 1
    BY <1>3, LenProperties DEF EndWalkStack, TypeOK
  <2> QED
    BY <1>3, <2>1 DEF EndWalkStack, ScanInv, ReadObjs, heapVars, IsPotentialPtr
<1>4. CASE \/ /\ TakeRoot \/ EndMarkingWalk \/ LeaveObject \/ EnterObject
                 \/ VisitSlot \/ EndSingleRoot
           \/ UNCHANGED vars
  <2>1. /\ UNCHANGED <<isalloc, isroot, words, nword, roots>>
        /\ pc' # "walkStack" => pc # "walkStack"
    BY <1>4 DEF TakeRoot, EndMarkingWalk, LeaveObject, EnterObject, VisitSlot,
                EndSingleRoot, vars, heapVars, walkVars
  <2>2. ReadObjs' = ReadObjs
    BY <2>1 DEF ReadObjs, IsPotentialPtr
  <2> QED
    BY <2>1, <2>2 DEF ScanInv
<1> QED
  BY <1>1, <1>2, <1>3, <1>4 DEF Next, MarkingNext, Done

(* The phases follow each other as collect() and markingWalk call them. *)
LEMMA PhaseStep ==
  ASSUME IInv, [Next]_vars
  PROVE  PhaseInv'
<1> USE DEF IInv, PhaseInv
<1>1. CASE IgnoreWord \/ FindRoot \/ EndWalkStack \/ EndMarkingWalk \/ TakeRoot
           \/ EndSingleRoot
  BY <1>1 DEF IgnoreWord, FindRoot, EndWalkStack, EndMarkingWalk, TakeRoot,
              EndSingleRoot, heapVars
<1>2. CASE LeaveObject \/ EnterObject \/ VisitSlot
  BY <1>2 DEF LeaveObject, EnterObject, VisitSlot
<1>3. CASE UNCHANGED vars
  BY <1>3 DEF vars, heapVars, walkVars
<1> QED
  BY <1>1, <1>2, <1>3 DEF Next, MarkingNext, Done

(* The object being visited is marked and its next slot exists. *)
LEMMA CurStep ==
  ASSUME IInv, [Next]_vars
  PROVE  CurInv'
<1> USE DEF IInv, CurInv
<1>1. CASE EnterObject
  <2> DEFINE o == Top(visit_stack).obj
  <2>1. o \in Obj /\ ismarked[o]
    BY <1>1, TopEntry DEF EnterObject
  <2>2. slots[o] \in Seq(Obj \cup {NULL}) /\ slots[o] # <<>>
    BY <1>1, <2>1 DEF EnterObject, IsLeaf, TypeOK, HeapTypeOK
  <2>3. 1 \in DOMAIN slots[o]
    BY <2>2, EmptySeq, LenProperties
  <2>4. cur' = o /\ slot' = 1 /\ ismarked' = ismarked /\ slots' = slots
    BY <1>1 DEF EnterObject, heapVars
  <2> QED
    BY <2>1, <2>3, <2>4, NullAssumption
<1>2. CASE VisitSlot
  <2>1. cur \in Obj /\ slot \in DOMAIN slots[cur] /\ ismarked[cur]
    BY <1>2 DEF VisitSlot, TypeOK
  <2>2. slots[cur] \in Seq(Obj \cup {NULL})
    BY <2>1 DEF TypeOK, HeapTypeOK
  <2>3. slot < Len(slots[cur]) => slot + 1 \in DOMAIN slots[cur]
    BY <2>1, <2>2, LenProperties
  <2>4. ismarked'[cur] /\ slots' = slots
    BY <1>2, <2>1 DEF VisitSlot, TypeOK, HeapTypeOK
  <2> QED
    BY <1>2, <2>3, <2>4 DEF VisitSlot
<1>3. CASE TakeRoot
  <2>1. cur = NULL /\ cur' = NULL /\ slot' = slot
    BY <1>3 DEF TakeRoot, PhaseInv
  <2> QED
    BY <2>1
<1>4. CASE \/ IgnoreWord \/ FindRoot \/ EndWalkStack \/ EndMarkingWalk
           \/ LeaveObject \/ EndSingleRoot \/ UNCHANGED vars
  BY <1>4 DEF IgnoreWord, FindRoot, EndWalkStack, EndMarkingWalk, LeaveObject,
              EndSingleRoot, vars, heapVars, walkVars
<1> QED
  BY <1>1, <1>2, <1>3, <1>4 DEF Next, MarkingNext, Done

(* No young root is forgotten between the scan and the end of the walk. *)
LEMMA RootStep ==
  ASSUME IInv, [Next]_vars
  PROVE  RootInv'
<1> USE DEF IInv, RootInv
<1>0. RootObjs' = RootObjs
  BY GraphFrame
<1>1. CASE IgnoreWord
  <2>1. ScanInv'
    BY ScanStep
  <2>2. ReadObjs' = ReadObjs
    BY <1>1, <2>1 DEF IgnoreWord, ScanInv
  <2> QED
    BY <1>0, <1>1, <2>2 DEF IgnoreWord, heapVars
<1>2. CASE FindRoot
  <2> DEFINE o == EntryOf[words[nword]]
  <2>1. o \in Obj /\ o \in RootObjs
    <3>1. nword \in DOMAIN words /\ words[nword] \in Word
      BY <1>2, LenProperties, ElementOfSeq DEF FindRoot, TypeOK
    <3> QED
      BY <1>2, <3>1, WordAssumption
         DEF FindRoot, RootObjs, ScannedObjs, Range, ShouldProcessAsRoot
  <2>2. ReadObjs' = ReadObjs \cup {o}
    <3>1. Range(roots') = Range(roots) \cup {o}
      BY <1>2, <2>1, AppendFacts DEF FindRoot, TypeOK
    <3> QED
      BY <3>1, ScanStep DEF ScanInv
  <2>3. CASE isyoung[o]
    <3>1. /\ pending_roots' = Append(pending_roots, o)
          /\ UNCHANGED <<isyoung, ismarked>>
      BY <1>2, <2>3 DEF FindRoot
    <3>2. /\ DOMAIN pending_roots' = DOMAIN pending_roots \cup {Len(pending_roots) + 1}
          /\ \A i \in DOMAIN pending_roots : pending_roots'[i] = pending_roots[i]
          /\ pending_roots'[Len(pending_roots) + 1] = o
          /\ Range(pending_roots') = Range(pending_roots) \cup {o}
      BY <2>1, <3>1, AppendFacts DEF TypeOK
    <3> QED
      BY <1>0, <2>1, <2>2, <3>1, <3>2
  <2>4. CASE ~isyoung[o]
    BY <1>0, <1>2, <2>2, <2>4 DEF FindRoot
  <2> QED
    BY <2>3, <2>4
<1>3. CASE TakeRoot
  <2> DEFINE o == Head(pending_roots)
  <2>1. /\ o \in Obj
        /\ pending_roots' \in Seq(Obj)
        /\ Range(pending_roots) = Range(pending_roots') \cup {o}
    BY <1>3, PopFrontFacts DEF TakeRoot, TypeOK
  <2>2. \A i \in DOMAIN pending_roots' : pending_roots'[i] \in RootObjs'
    BY <1>0, <2>1 DEF Range
  <2>3. ReadObjs' = ReadObjs /\ isyoung' = isyoung
    BY <1>3 DEF TakeRoot, ReadObjs, IsPotentialPtr
  <2>4. isyoung[o] => ismarked'[o]
    BY <1>3, <2>1 DEF TakeRoot, ShouldVisit, TypeOK, HeapTypeOK
  <2>5. \A x \in Obj : ismarked[x] => ismarked'[x]
    BY <1>3, <2>1 DEF TakeRoot, TypeOK, HeapTypeOK, WalkPhases
  <2>6. \A x \in ReadObjs : x \in Obj
    BY DEF ReadObjs
  <2> QED
    BY <2>1, <2>2, <2>3, <2>4, <2>5, <2>6
<1>4. CASE \/ EndWalkStack \/ EndMarkingWalk \/ LeaveObject \/ EnterObject
           \/ VisitSlot \/ EndSingleRoot \/ UNCHANGED vars
  <2>1. UNCHANGED <<isalloc, isyoung, words, nword, pending_roots>>
    BY <1>4 DEF EndWalkStack, EndMarkingWalk, LeaveObject, EnterObject, VisitSlot,
                EndSingleRoot, vars, heapVars, walkVars
  <2>2. ReadObjs' = ReadObjs /\ \A x \in ReadObjs : x \in Obj
    BY <2>1 DEF ReadObjs, IsPotentialPtr
  <2>3. \A x \in Obj : ismarked[x] => ismarked'[x]
    BY <1>4 DEF EndWalkStack, EndMarkingWalk, LeaveObject, EnterObject, VisitSlot,
                EndSingleRoot, vars, heapVars, walkVars, TypeOK, HeapTypeOK
  <2> QED
    BY <1>0, <2>1, <2>2, <2>3
<1> QED
  BY <1>1, <1>2, <1>3, <1>4 DEF Next, MarkingNext, Done

(* Marking an unmarked young object and pushing it grey keeps the marked   *)
(* objects justified: those of markingWalk and of walkSingleRoot alike.    *)
LEMMA PushKeepsTricolor ==
  ASSUME IInv, NEW x \in Obj, ShouldVisit(x), x \in ReachableFrom(RootObjs),
         visit_stack' = PushGrey(visit_stack, x),
         ismarked' = [ismarked EXCEPT ![x] = TRUE],
         UNCHANGED <<isyoung, slots>>
  PROVE  /\ \A o \in Obj : ismarked'[o] => isyoung'[o] /\ o \in ReachableFrom(RootObjs)
         /\ GreyOnStack(x)'
         /\ \A o \in Obj : GreyOnStack(o) => GreyOnStack(o)'
         /\ \A o \in Obj : ismarked'[o] => o = x \/ ismarked[o]
         /\ \A o \in Obj : ismarked[o] => ismarked'[o]
<1> USE DEF IInv
<1>1. /\ DOMAIN visit_stack' = DOMAIN visit_stack \cup {Len(visit_stack) + 1}
      /\ \A i \in DOMAIN visit_stack : visit_stack'[i] = visit_stack[i]
      /\ visit_stack'[Len(visit_stack) + 1] = [obj |-> x, color |-> Grey]
  BY PushFacts DEF TypeOK, PushGrey
<1>2. ismarked \in [Obj -> BOOLEAN]
  BY DEF TypeOK, HeapTypeOK
<1> QED
  BY <1>1, <1>2 DEF GreyOnStack, Tricolor, ShouldVisit

(* A visited slot of o keeps leading to a marked object. *)
LEMMA VisitedStaysMarked ==
  ASSUME HeapTypeOK, NEW o \in Obj, VisitedSlotsMarked(o), UNCHANGED <<isyoung, slots>>,
         \A x \in Obj : ismarked[x] => ismarked'[x],
         o = cur => cur' = cur /\ slot' = slot
  PROVE  VisitedSlotsMarked(o)'
<1> SUFFICES ASSUME NEW k \in DOMAIN slots[o],
                    o = cur' => k < slot',
                    slots[o][k] # NULL, isyoung[slots[o][k]]
             PROVE  ismarked'[slots[o][k]]
  BY DEF VisitedSlotsMarked
<1>1. slots[o][k] \in Obj
  BY SlotType
<1>2. ismarked[slots[o][k]]
  BY DEF VisitedSlotsMarked
<1> QED
  BY <1>1, <1>2

(* Every marked object stays justified: grey, or its visited slots are. *)
LEMMA TricolorStep ==
  ASSUME IInv, [Next]_vars
  PROVE  Tricolor'
<1> USE DEF IInv
<1>0. /\ UNCHANGED <<isyoung, slots>>
      /\ ReachableFrom(RootObjs)' = ReachableFrom(RootObjs)
      /\ ReachableFrom(RootObjs) \subseteq Obj
      /\ RootObjs \in SUBSET Obj
  <2>1. ReachableFrom(RootObjs) \subseteq Obj /\ RootObjs \in SUBSET Obj
    BY WordAssumption DEF ReachableFrom, RootObjs, ScannedObjs, IsPotentialPtr
  <2> QED
    BY <2>1, GraphFrame
<1>1. CASE TakeRoot
  <2>1. PICK x \in Obj : x = Head(pending_roots) /\ x \in RootObjs
    <3>1. /\ Head(pending_roots) \in Obj
          /\ Head(pending_roots) \in Range(pending_roots)
      BY <1>1, PopFrontFacts DEF TakeRoot, TypeOK
    <3> QED
      BY <3>1 DEF RootInv, Range
  <2>2. x \in ReachableFrom(RootObjs)
    BY <1>0, <2>1, ReachableContains
  <2>3. CASE ~ShouldVisit(x)
    <3>1. UNCHANGED <<ismarked, visit_stack, cur, slot>>
      BY <1>1, <2>1, <2>3 DEF TakeRoot
    <3> QED
      BY <1>0, <3>1 DEF Tricolor, GreyOnStack, VisitedSlotsMarked
  <2>4. CASE ShouldVisit(x)
    <3>1. /\ visit_stack' = PushGrey(visit_stack, x)
          /\ ismarked' = [ismarked EXCEPT ![x] = TRUE]
          /\ UNCHANGED <<cur, slot>>
      BY <1>1, <2>1, <2>4 DEF TakeRoot
    <3>2. /\ \A o \in Obj : ismarked'[o] => isyoung'[o] /\ o \in ReachableFrom(RootObjs)
          /\ GreyOnStack(x)'
          /\ \A o \in Obj : GreyOnStack(o) => GreyOnStack(o)'
          /\ \A o \in Obj : ismarked'[o] => o = x \/ ismarked[o]
          /\ \A o \in Obj : ismarked[o] => ismarked'[o]
      BY <1>0, <2>1, <2>2, <2>4, <3>1, PushKeepsTricolor
    <3>3. \A o \in Obj : VisitedSlotsMarked(o) => VisitedSlotsMarked(o)'
      BY <1>0, <3>1, <3>2, VisitedStaysMarked DEF TypeOK
    <3> QED
      BY <1>0, <3>2, <3>3 DEF Tricolor
  <2> QED
    BY <2>3, <2>4
<1>2. CASE LeaveObject
  <2> DEFINE e == Top(visit_stack)
  <2>1. /\ DOMAIN visit_stack' = DOMAIN visit_stack \ {Len(visit_stack)}
        /\ \A i \in DOMAIN visit_stack' : visit_stack'[i] = visit_stack[i]
    BY <1>2, PopBackFacts DEF LeaveObject, TypeOK
  <2>2. UNCHANGED <<ismarked, cur, slot>> /\ cur = NULL
    BY <1>2 DEF LeaveObject, heapVars
  <2>3. ASSUME NEW o \in Obj, GreyOnStack(o)
        PROVE  GreyOnStack(o)' \/ VisitedSlotsMarked(o)
    <3>1. PICK i \in DOMAIN visit_stack : visit_stack[i] = [obj |-> o, color |-> Grey]
      BY <2>3 DEF GreyOnStack
    <3>2. CASE i # Len(visit_stack)
      BY <2>1, <3>1, <3>2 DEF GreyOnStack
    <3>3. CASE i = Len(visit_stack)
      <4>1. e.obj = o /\ e.color = Grey
        BY <3>1, <3>3 DEF Top
      <4>2. slots[o] = <<>>
        BY <1>2, <4>1 DEF LeaveObject, IsLeaf, Grey, Black
      <4>3. DOMAIN slots[o] = {}
        BY <4>2
      <4> QED
        BY <4>3 DEF VisitedSlotsMarked
    <3> QED
      BY <3>2, <3>3
  <2>4. \A o \in Obj : VisitedSlotsMarked(o) => VisitedSlotsMarked(o)'
    BY <1>0, <2>2, VisitedStaysMarked DEF TypeOK
  <2> QED
    BY <1>0, <2>2, <2>3, <2>4 DEF Tricolor
<1>3. CASE EnterObject
  <2>0. PICK x \in Obj : x = Top(visit_stack).obj
    BY <1>3, TopEntry DEF EnterObject
  <2>1. PopBack(visit_stack) \in Seq(Entry)
    BY <1>3, PopBackFacts DEF EnterObject, TypeOK
  <2>2. /\ DOMAIN PopBack(visit_stack) = DOMAIN visit_stack \ {Len(visit_stack)}
        /\ \A i \in DOMAIN PopBack(visit_stack) :
             PopBack(visit_stack)[i] = visit_stack[i]
    BY <1>3, PopBackFacts DEF EnterObject, TypeOK
  <2>3. \A i \in DOMAIN PopBack(visit_stack) :
          i \in DOMAIN visit_stack' /\ visit_stack'[i] = PopBack(visit_stack)[i]
    BY <1>3, <2>0, <2>1, PushFacts DEF EnterObject, PushBlack
  <2>4. UNCHANGED ismarked /\ cur = NULL /\ slot = 1 /\ cur' = x /\ slot' = 1
    BY <1>3, <2>0 DEF EnterObject, heapVars, CurInv
  <2>5. ASSUME NEW o \in Obj, GreyOnStack(o), o # x
        PROVE  GreyOnStack(o)'
    <3>1. PICK i \in DOMAIN visit_stack : visit_stack[i] = [obj |-> o, color |-> Grey]
      BY <2>5 DEF GreyOnStack
    <3>2. i # Len(visit_stack)
      BY <2>0, <2>5, <3>1 DEF Top
    <3> QED
      BY <2>2, <2>3, <3>1, <3>2 DEF GreyOnStack
  <2>6. VisitedSlotsMarked(x)'
    <3>1. slots[x] \in Seq(Obj \cup {NULL})
      BY DEF TypeOK, HeapTypeOK
    <3>2. \A k \in DOMAIN slots[x] : ~(k < 1)
      BY <3>1, LenProperties
    <3> QED
      BY <1>0, <2>4, <3>2 DEF VisitedSlotsMarked
  <2>7. \A o \in Obj : o # NULL
    BY NullAssumption
  <2>8. \A o \in Obj : VisitedSlotsMarked(o) => VisitedSlotsMarked(o)'
    BY <1>0, <2>4, <2>7, VisitedStaysMarked DEF TypeOK
  <2> QED
    BY <1>0, <2>4, <2>5, <2>6, <2>8 DEF Tricolor
<1>4. CASE VisitSlot
  <2>1. PICK p \in Obj : p = cur /\ slot \in DOMAIN slots[p] /\ ismarked[p]
    BY <1>4 DEF VisitSlot, TypeOK, CurInv
  <2>2. p \in ReachableFrom(RootObjs)
    BY <2>1 DEF Tricolor
  <2>0. PICK x : x = slots[p][slot]
    OBVIOUS
  <2>3. x # NULL => x \in Obj /\ x \in ReachableFrom(RootObjs)
    BY <2>0, <2>1, <2>2, SlotType, ReachableClosed DEF TypeOK
  <2>4. /\ \A o \in Obj : ismarked'[o] => isyoung'[o] /\ o \in ReachableFrom(RootObjs)
        /\ \A o \in Obj : GreyOnStack(o) => GreyOnStack(o)'
        /\ \A o \in Obj : ismarked'[o] => GreyOnStack(o)' \/ ismarked[o]
        /\ \A o \in Obj : ismarked[o] => ismarked'[o]
    <3>1. CASE x # NULL /\ ShouldVisit(x)
      <4>1. /\ visit_stack' = PushGrey(visit_stack, x)
            /\ ismarked' = [ismarked EXCEPT ![x] = TRUE]
        BY <1>4, <2>0, <2>1, <3>1 DEF VisitSlot
      <4> QED
        BY <1>0, <2>3, <3>1, <4>1, PushKeepsTricolor
    <3>2. CASE ~(x # NULL /\ ShouldVisit(x))
      <4>1. UNCHANGED <<visit_stack, ismarked>>
        BY <1>4, <2>0, <2>1, <3>2 DEF VisitSlot
      <4> QED
        BY <1>0, <4>1 DEF Tricolor, GreyOnStack
    <3> QED
      BY <3>1, <3>2
  <2>5. x # NULL /\ isyoung[x] => ismarked'[x]
    BY <1>4, <2>0, <2>1, <2>3 DEF VisitSlot, ShouldVisit, TypeOK, HeapTypeOK
  <2>6. ASSUME VisitedSlotsMarked(p)
        PROVE  VisitedSlotsMarked(p)'
    <3>1. slots[p] \in Seq(Obj \cup {NULL}) /\ DOMAIN slots[p] = 1..Len(slots[p])
      BY <2>1, LenProperties DEF TypeOK, HeapTypeOK
    <3>2. ASSUME NEW k \in DOMAIN slots[p], p = cur' => k < slot'
          PROVE  k < slot \/ k = slot
      BY <1>4, <2>1, <3>1, <3>2, NullAssumption DEF VisitSlot
    <3>3. ASSUME NEW k \in DOMAIN slots[p], k < slot,
                 slots[p][k] # NULL, isyoung[slots[p][k]]
          PROVE  ismarked'[slots[p][k]]
      <4>1. slots[p][k] \in Obj
        BY <2>1, <3>3, SlotType DEF TypeOK
      <4>2. ismarked[slots[p][k]]
        BY <2>1, <2>6, <3>3 DEF VisitedSlotsMarked
      <4> QED
        BY <2>4, <4>1, <4>2
    <3>4. SUFFICES ASSUME NEW k \in DOMAIN slots[p], p = cur' => k < slot',
                          slots[p][k] # NULL, isyoung[slots[p][k]]
                   PROVE  ismarked'[slots[p][k]]
      BY <1>0, <2>1, Zenon DEF VisitedSlotsMarked
    <3> QED
      BY <2>0, <2>5, <3>2, <3>3, <3>4
  <2>7. \A o \in Obj : o # p /\ VisitedSlotsMarked(o) => VisitedSlotsMarked(o)'
    BY <1>0, <1>4, <2>1, <2>4, VisitedStaysMarked DEF TypeOK
  <2> QED
    BY <1>0, <2>4, <2>6, <2>7 DEF Tricolor
<1>5. CASE \/ IgnoreWord \/ FindRoot \/ EndWalkStack \/ EndMarkingWalk
           \/ EndSingleRoot \/ UNCHANGED vars
  <2>1. UNCHANGED <<ismarked, visit_stack, cur, slot>>
    BY <1>5 DEF IgnoreWord, FindRoot, EndWalkStack, EndMarkingWalk, EndSingleRoot,
                vars, heapVars, walkVars
  <2> QED
    BY <1>0, <2>1 DEF Tricolor, GreyOnStack, VisitedSlotsMarked
<1> QED
  BY <1>1, <1>2, <1>3, <1>4, <1>5 DEF Next, MarkingNext, Done

(* A push of an object that is in neither list, or a move of the top of    *)
(* the stack to pending_young, keeps every marked object in one place.     *)
LEMMA MarkedOnceStep ==
  ASSUME IInv, [Next]_vars
  PROVE  MarkedOnce'
<1> USE DEF IInv
<1>1. ASSUME NEW x \in Obj, ShouldVisit(x),
             visit_stack' = PushGrey(visit_stack, x),
             ismarked' = [ismarked EXCEPT ![x] = TRUE],
             UNCHANGED pending_young
      PROVE  MarkedOnce'
  <2>1. /\ DOMAIN visit_stack' = DOMAIN visit_stack \cup {Len(visit_stack) + 1}
        /\ Len(visit_stack) + 1 \notin DOMAIN visit_stack
        /\ \A i \in DOMAIN visit_stack : visit_stack'[i] = visit_stack[i]
        /\ visit_stack'[Len(visit_stack) + 1] = [obj |-> x, color |-> Grey]
    BY <1>1, PushFacts DEF TypeOK, PushGrey
  <2>2. OnStack(x) = {} /\ InYoung(x) = {}
    BY <1>1 DEF MarkedOnce, ShouldVisit
  <2>3. OnStack(x)' = {Len(visit_stack) + 1}
    BY <2>1, <2>2 DEF OnStack
  <2>4. \A o \in Obj : o # x => OnStack(o)' = OnStack(o)
    BY <2>1 DEF OnStack
  <2>5. \A o \in Obj : InYoung(o)' = InYoung(o)
    BY <1>1 DEF InYoung
  <2>6. \A o \in Obj : ismarked'[o] <=> o = x \/ ismarked[o]
    BY <1>1 DEF TypeOK, HeapTypeOK
  <2> QED
    BY <2>2, <2>3, <2>4, <2>5, <2>6 DEF MarkedOnce
<1>2. CASE TakeRoot
  <2>1. PICK x \in Obj : x = Head(pending_roots)
    BY <1>2, PopFrontFacts DEF TakeRoot, TypeOK
  <2>2. CASE ShouldVisit(x)
    BY <1>1, <1>2, <2>1, <2>2 DEF TakeRoot
  <2>3. CASE ~ShouldVisit(x)
    <3>1. UNCHANGED <<ismarked, visit_stack, pending_young>>
      BY <1>2, <2>1, <2>3 DEF TakeRoot
    <3> QED
      BY <3>1 DEF MarkedOnce, OnStack, InYoung
  <2> QED
    BY <2>2, <2>3
<1>3. CASE LeaveObject
  <2>1. PICK x \in Obj : x = Top(visit_stack).obj /\ ismarked[x]
    BY <1>3, TopEntry DEF LeaveObject
  <2>2. /\ Len(visit_stack) \in DOMAIN visit_stack
        /\ DOMAIN visit_stack' = DOMAIN visit_stack \ {Len(visit_stack)}
        /\ \A i \in DOMAIN visit_stack' : visit_stack'[i] = visit_stack[i]
    BY <1>3, PopBackFacts DEF LeaveObject, TypeOK
  <2>3. /\ DOMAIN pending_young' = DOMAIN pending_young \cup {Len(pending_young) + 1}
        /\ \A i \in DOMAIN pending_young : pending_young'[i] = pending_young[i]
        /\ pending_young'[Len(pending_young) + 1] = x
    BY <1>3, <2>1, AppendFacts DEF LeaveObject, TypeOK
  <2>4. Len(visit_stack) \in OnStack(x)
    BY <2>1, <2>2 DEF OnStack, Top
  <2>5. OnStack(x)' = {} /\ InYoung(x) = {}
    BY <2>2, <2>4 DEF MarkedOnce, OnStack
  <2>6. InYoung(x)' = {Len(pending_young) + 1}
    BY <2>3, <2>5 DEF InYoung
  <2>7. \A o \in Obj : o # x => OnStack(o)' = OnStack(o) /\ InYoung(o)' = InYoung(o)
    <3>1. visit_stack[Len(visit_stack)].obj = x
      BY <2>1 DEF Top
    <3>2. \A o \in Obj : o # x => OnStack(o)' = OnStack(o)
      BY <2>2, <3>1 DEF OnStack
    <3>3. \A o \in Obj : o # x => InYoung(o)' = InYoung(o)
      BY <2>3 DEF InYoung
    <3> QED
      BY <3>2, <3>3
  <2>8. UNCHANGED ismarked
    BY <1>3 DEF LeaveObject, heapVars
  <2> QED
    BY <2>1, <2>5, <2>6, <2>7, <2>8 DEF MarkedOnce
<1>4. CASE EnterObject
  <2>3. /\ DOMAIN visit_stack' = DOMAIN visit_stack
        /\ \A i \in DOMAIN visit_stack : visit_stack'[i].obj = visit_stack[i].obj
    BY <1>4, EnterFacts
  <2>4. UNCHANGED <<ismarked, pending_young>>
    BY <1>4 DEF EnterObject, heapVars
  <2>5. \A o \in Obj : OnStack(o)' = OnStack(o) /\ InYoung(o)' = InYoung(o)
    BY <2>3, <2>4 DEF OnStack, InYoung
  <2> QED
    BY <2>4, <2>5 DEF MarkedOnce
<1>5. CASE VisitSlot
  <2>1. PICK x : x = slots[cur][slot]
    OBVIOUS
  <2>2. x # NULL => x \in Obj
    BY <1>5, <2>1, SlotType DEF VisitSlot, TypeOK, CurInv
  <2>3. CASE x # NULL /\ ShouldVisit(x)
    BY <1>1, <1>5, <2>1, <2>2, <2>3 DEF VisitSlot
  <2>4. CASE ~(x # NULL /\ ShouldVisit(x))
    <3>1. UNCHANGED <<ismarked, visit_stack, pending_young>>
      BY <1>5, <2>1, <2>4 DEF VisitSlot
    <3> QED
      BY <3>1 DEF MarkedOnce, OnStack, InYoung
  <2> QED
    BY <2>3, <2>4
<1>6. CASE \/ IgnoreWord \/ FindRoot \/ EndWalkStack \/ EndMarkingWalk
           \/ EndSingleRoot \/ UNCHANGED vars
  <2>1. UNCHANGED <<ismarked, visit_stack, pending_young>>
    BY <1>6 DEF IgnoreWord, FindRoot, EndWalkStack, EndMarkingWalk, EndSingleRoot,
                vars, heapVars, walkVars
  <2> QED
    BY <2>1 DEF MarkedOnce, OnStack, InYoung
<1> QED
  BY <1>2, <1>3, <1>4, <1>5, <1>6 DEF Next, MarkingNext, Done

-----------------------------------------------------------------------------
(***************************************************************************)
(* The theorems.                                                           *)
(***************************************************************************)

LEMMA InitIInv == Init => IInv
<1> SUFFICES ASSUME Init PROVE IInv
  OBVIOUS
<1> USE DEF Init, StartWalk
<1>1. TypeOK
  <2>1. nword \in 1..(Len(words) + 1)
    BY LenProperties
  <2> QED
    BY <2>1, EmptySeq DEF TypeOK, WalkPhases
<1>2. GraphOK
  BY DEF Quiescent, GraphOK
<1>3. ReadObjs = {} /\ Range(roots) = {} /\ DOMAIN roots = {}
  BY DEF ReadObjs, Range
<1>4. ScanInv
  BY <1>3 DEF ScanInv, Quiescent
<1>5. PhaseInv /\ CurInv
  BY DEF PhaseInv, CurInv, Quiescent
<1>6. RootInv /\ Tricolor
  BY <1>3 DEF RootInv, Tricolor, Quiescent
<1>7. MarkedOnce
  BY DEF MarkedOnce, OnStack, InYoung, Quiescent
<1> QED
  BY <1>1, <1>2, <1>4, <1>5, <1>6, <1>7 DEF IInv

(* The invariant is kept by every step of the walk. *)
LEMMA StepIInv == IInv /\ [Next]_vars => IInv'
BY TypeStep, GraphFrame, ScanStep, PhaseStep, CurStep, RootStep,
   TricolorStep, MarkedOnceStep DEF IInv

LEMMA Invariance == Spec => []IInv
BY StepIInv, InitIInv, PTL DEF Spec

(* Every list, colour, index and phase of the walk stays in its type. *)
THEOREM TypeCorrect == Spec => []TypeOK
<1>1. IInv => TypeOK
  BY DEF IInv
<1> QED
  BY <1>1, Invariance, PTL

(* After the scan every word has been read. *)
LEMMA AllRead ==
  ASSUME IInv, pc # "walkStack"
  PROVE  ReadObjs = RootObjs
<1>1. DOMAIN words = 1..(nword - 1)
  BY LenProperties DEF IInv, ScanInv, TypeOK
<1> QED
  BY <1>1, WordAssumption DEF ReadObjs, RootObjs, ScannedObjs, Range, IsPotentialPtr

(* Roots: the scan records each allocated object some word falls into, and *)
(* nothing else, once.                                                     *)
THEOREM RootsExact == Spec => []RootsExactlyOnce
<1>1. IInv => RootsExactlyOnce
  BY AllRead DEF IInv, ScanInv, RootsExactlyOnce
<1> QED
  BY <1>1, Invariance, PTL

(* Lists: a marked object is on the stack or in pending_young, once. *)
THEOREM MarkedInOnePlace == Spec => []MarkedOnce
<1>1. IInv => MarkedOnce
  BY DEF IInv
<1> QED
  BY <1>1, Invariance, PTL

(* Marking is exact: at its end the marked objects are the young ones that *)
(* can be reached from the scanned words.                                  *)
THEOREM MarkingExact == Spec => []MarkedExactlyLiveYoung
<1>1. IInv => MarkedExactlyLiveYoung
  <2> SUFFICES ASSUME IInv, pc = "marked"
               PROVE  {o \in Obj : ismarked[o]}
                        = {o \in ReachableFrom(RootObjs) : isyoung[o]}
    BY DEF MarkedExactlyLiveYoung
  <2> DEFINE S == {o \in Obj : isyoung[o] => ismarked[o]}
  <2>1. visit_stack = <<>> /\ cur = NULL /\ pending_roots = <<>>
    BY DEF IInv, PhaseInv
  <2>2. ASSUME NEW o \in Obj, ismarked[o] PROVE VisitedSlotsMarked(o)
    <3>1. ~GreyOnStack(o)
      BY <2>1 DEF GreyOnStack
    <3> QED
      BY <2>2, <3>1 DEF IInv, Tricolor
  <2>3. ASSUME NEW o \in S, NEW c \in Children(o) PROVE c \in S
    <3>1. PICK k \in DOMAIN slots[o] : c = slots[o][k] /\ c # NULL
      BY <2>3 DEF Children, Range
    <3>2. c \in Obj
      BY <3>1, SlotType DEF IInv, TypeOK
    <3>3. isyoung[c] => isyoung[o]
      BY <3>2 DEF IInv, GraphOK
    <3>4. ASSUME isyoung[c] PROVE ismarked[c]
      <4>1. ismarked[o] /\ o # cur
        BY <2>1, <3>3, <3>4, NullAssumption
      <4> QED
        BY <2>2, <3>1, <3>4, <4>1 DEF VisitedSlotsMarked
    <3> QED
      BY <3>2, <3>4
  <2>4. RootObjs \subseteq S
    <3>1. RootObjs = ReadObjs
      BY AllRead
    <3>2. Range(pending_roots) = {}
      BY <2>1 DEF Range
    <3> QED
      BY <3>1, <3>2 DEF IInv, RootInv, ReadObjs
  <2>5. ReachableFrom(RootObjs) \subseteq S
    BY <2>3, <2>4, ReachableLeast DEF Closed
  <2> QED
    BY <2>5 DEF IInv, Tricolor
<1> QED
  BY <1>1, Invariance, PTL

-----------------------------------------------------------------------------
(***************************************************************************)
(* The order of pending_young.                                             *)
(***************************************************************************)

(* The order of the heap stays as it is while no slot changes. *)
LEMMA OrderFrame ==
  ASSUME UNCHANGED slots
  PROVE  /\ \A o : Below(o)' = Below(o)
         /\ \A a, b : MayBeAbove(b, a)' <=> MayBeAbove(b, a)
         /\ Acyclic' <=> Acyclic
         /\ NoShortcut' <=> NoShortcut
<1>1. \A o : Below(o)' = Below(o)
  BY DEF Below, ReachableFrom, Closed, Children
<1>2. \A a, b : MayBeAbove(b, a)' <=> MayBeAbove(b, a)
  BY DEF MayBeAbove, Below, ReachableFrom, Closed, Children
<1>3. Acyclic' <=> Acyclic
  BY DEF Acyclic, ReachableFrom, Closed, Children
<1>4. NoShortcut' <=> NoShortcut
  BY DEF NoShortcut, ReachableFrom, Closed, Children
<1> QED
  BY <1>1, <1>2, <1>3, <1>4

(* What is below a child is below its parent. *)
LEMMA BelowChild ==
  ASSUME HeapTypeOK, NEW o \in Obj, NEW c \in Children(o)
  PROVE  /\ c \in Obj
         /\ c \in Below(o)
         /\ Below(c) \subseteq Below(o)
         /\ \A x \in Obj : o \in Below(x) => c \in Below(x)
<1>1. Children(o) \in SUBSET Obj /\ c \in Obj /\ Children(c) \in SUBSET Obj
  BY ChildrenType
<1>2. c \in Below(o)
  BY <1>1, ReachableContains DEF Below
<1>3. Children(c) \subseteq ReachableFrom(Children(o))
  BY <1>1, <1>2, ReachableClosed DEF Below
<1>4. Below(c) \subseteq Below(o)
  BY <1>1, <1>3, ReachableMonotonic DEF Below
<1>5. \A x \in Obj : o \in Below(x) => c \in Below(x)
  BY <1>1, ReachableClosed DEF Below
<1> QED
  BY <1>1, <1>2, <1>4, <1>5

(* Leaving an object, all of whose young children are marked: they are in  *)
(* pending_young, as none of them can be on the stack below it.            *)
LEMMA LeaveOrder ==
  ASSUME IInv, Acyclic, StackOrder, LeaveObject,
         NEW c \in Children(Top(visit_stack).obj), isyoung[c]
  PROVE  \E j \in DOMAIN pending_young : pending_young[j] = c
<1> USE DEF IInv
<1> DEFINE n == Len(visit_stack)
<1>1. PICK b \in Obj : b = Top(visit_stack).obj /\ ismarked[b]
  BY TopEntry DEF LeaveObject
<1>2. n \in DOMAIN visit_stack /\ DOMAIN visit_stack = 1..n /\ n \in Nat
  BY PopBackFacts, LenProperties DEF LeaveObject, TypeOK
<1>3. visit_stack[n].obj = b /\ n \in OnStack(b)
  BY <1>1, <1>2 DEF Top, OnStack
<1>4. PICK k \in DOMAIN slots[b] : slots[b][k] = c /\ c # NULL
  BY <1>1 DEF Children, Range
<1>5. visit_stack[n].color = Black
  <2>1. slots[b] # <<>>
    BY <1>4
  <2> QED
    BY <1>1, <2>1 DEF LeaveObject, IsLeaf, Top
<1>6. c \in Obj /\ c \in Below(b) /\ \A x \in Obj : b \in Below(x) => c \in Below(x)
  BY <1>1, BelowChild DEF TypeOK
<1>7. ismarked[c]
  <2>1. ~GreyOnStack(b)
    <3> SUFFICES ASSUME NEW i \in DOMAIN visit_stack,
                        visit_stack[i] = [obj |-> b, color |-> Grey]
                 PROVE  FALSE
      BY DEF GreyOnStack
    <3>1. i \in OnStack(b)
      BY DEF OnStack
    <3>2. i = n
      BY <1>3, <3>1 DEF MarkedOnce
    <3> QED
      BY <1>5, <3>2 DEF Grey, Black
  <2>2. VisitedSlotsMarked(b)
    BY <1>1, <2>1 DEF Tricolor
  <2>3. b # cur
    BY NullAssumption DEF LeaveObject
  <2> QED
    BY <1>4, <2>2, <2>3 DEF VisitedSlotsMarked
<1>8. OnStack(c) = {}
  <2> SUFFICES ASSUME NEW p \in DOMAIN visit_stack, visit_stack[p].obj = c
               PROVE  FALSE
    BY DEF OnStack
  <2>1. c \notin Below(c)
    BY <1>6 DEF Acyclic, Below
  <2>2. CASE p = n
    BY <1>3, <1>6, <2>1, <2>2
  <2>3. CASE p < n
    <3>1. MayBeAbove(visit_stack[n], visit_stack[p])
      BY <1>2, <2>3 DEF StackOrder
    <3>2. visit_stack[p].color \in {Grey, Black}
      <4>1. visit_stack[p] \in Entry
        BY ElementOfSeq, LenProperties DEF TypeOK
      <4> QED
        BY <4>1 DEF Entry
    <3> QED
      BY <1>3, <1>6, <2>1, <3>1, <3>2 DEF MayBeAbove
  <2> QED
    BY <1>2, <2>2, <2>3
<1>9. PICK j \in InYoung(c) : TRUE
  BY <1>6, <1>7, <1>8 DEF MarkedOnce
<1> QED
  BY <1>9 DEF InYoung

(* The walk lists an object after its young children, if no slot of an     *)
(* object leads to the target of an earlier one.                           *)
LEMMA OrderStep ==
  ASSUME IInv, OrderInv, [Next]_vars
  PROVE  OrderInv'
<1> USE DEF IInv
<1>0. UNCHANGED <<slots, isyoung>>
  BY GraphFrame
<1>1. Acyclic' /\ (NoShortcut' => NoShortcut)
  BY <1>0, OrderFrame DEF OrderInv
<1> SUFFICES ASSUME NoShortcut PROVE (StackOrder /\ CurOrder /\ TopologicalOrder)'
  BY <1>1 DEF OrderInv
<1>2. Acyclic /\ StackOrder /\ CurOrder /\ TopologicalOrder
  BY DEF OrderInv
<1>3. \A a, b : MayBeAbove(b, a)' <=> MayBeAbove(b, a)
  BY <1>0, OrderFrame
<1>4. ASSUME UNCHANGED pending_young PROVE TopologicalOrder'
  BY <1>0, <1>2, <1>4 DEF TopologicalOrder, ChildrenFirst, Children
<1>5. ASSUME UNCHANGED visit_stack PROVE StackOrder'
  BY <1>2, <1>3, <1>5 DEF StackOrder
<1>6. CASE TakeRoot
  <2>1. visit_stack = <<>> /\ cur = NULL /\ cur' = NULL /\ pending_young' = pending_young
    BY <1>6 DEF TakeRoot, PhaseInv
  <2>2. StackOrder'
    <3>1. CASE visit_stack' = visit_stack
      BY <1>5, <3>1
    <3>2. CASE visit_stack' # visit_stack
      <4>1. Head(pending_roots) \in Obj
        BY <1>6, PopFrontFacts DEF TakeRoot, TypeOK
      <4>2. visit_stack' = PushGrey(visit_stack, Head(pending_roots))
        BY <1>6, <3>2 DEF TakeRoot
      <4>3. DOMAIN visit_stack' = DOMAIN visit_stack \cup {Len(visit_stack) + 1}
        BY <4>1, <4>2, PushFacts DEF TypeOK, PushGrey
      <4>4. DOMAIN visit_stack' = {1}
        BY <2>1, <4>3
      <4> QED
        BY <4>4 DEF StackOrder
    <3> QED
      BY <3>1, <3>2
  <2>3. CurOrder'
    BY <2>1 DEF CurOrder
  <2> QED
    BY <1>4, <2>1, <2>2, <2>3
<1>7. CASE LeaveObject
  <2>1. /\ DOMAIN visit_stack' = DOMAIN visit_stack \ {Len(visit_stack)}
        /\ \A i \in DOMAIN visit_stack' : visit_stack'[i] = visit_stack[i]
    BY <1>7, PopBackFacts DEF LeaveObject, TypeOK
  <2>2. StackOrder'
    BY <1>2, <1>3, <2>1 DEF StackOrder
  <2>3. CurOrder'
    BY <1>7 DEF LeaveObject, CurOrder
  <2>4. TopologicalOrder'
    <3>1. PICK b \in Obj : b = Top(visit_stack).obj
      BY <1>7, TopEntry DEF LeaveObject
    <3>2. /\ DOMAIN pending_young' = DOMAIN pending_young \cup {Len(pending_young) + 1}
          /\ \A i \in DOMAIN pending_young : pending_young'[i] = pending_young[i]
          /\ pending_young'[Len(pending_young) + 1] = b
          /\ DOMAIN pending_young = 1..Len(pending_young) /\ Len(pending_young) \in Nat
      BY <1>7, <3>1, AppendFacts, LenProperties DEF LeaveObject, TypeOK
    <3> SUFFICES ASSUME NEW i \in DOMAIN pending_young',
                        NEW c \in Children(pending_young'[i]), isyoung[c]
                 PROVE  \E j \in 1..(i - 1) : pending_young'[j] = c
      BY <1>0 DEF TopologicalOrder, ChildrenFirst, Children
    <3>3. CASE i \in DOMAIN pending_young
      <4>1. PICK j \in 1..(i - 1) : pending_young[j] = c
        BY <1>2, <3>2, <3>3 DEF TopologicalOrder, ChildrenFirst
      <4>2. j \in DOMAIN pending_young
        BY <3>2, <3>3
      <4> QED
        BY <3>2, <4>1, <4>2
    <3>4. CASE i = Len(pending_young) + 1
      <4>1. c \in Children(Top(visit_stack).obj)
        BY <3>1, <3>2, <3>4
      <4>2. PICK j \in DOMAIN pending_young : pending_young[j] = c
        BY <1>2, <1>7, <4>1, LeaveOrder
      <4>3. j \in 1..(i - 1)
        BY <3>2, <3>4
      <4> QED
        BY <3>2, <4>2, <4>3
    <3> QED
      BY <3>2, <3>3, <3>4
  <2> QED
    BY <2>2, <2>3, <2>4
<1>8. CASE EnterObject
  <2> DEFINE n == Len(visit_stack)
  <2>1. /\ n \in DOMAIN visit_stack
        /\ DOMAIN visit_stack' = DOMAIN visit_stack
        /\ \A i \in DOMAIN visit_stack : visit_stack'[i].obj = visit_stack[i].obj
        /\ \A i \in DOMAIN visit_stack : i # n => visit_stack'[i] = visit_stack[i]
        /\ visit_stack[n].color = Grey
        /\ visit_stack'[n] = [obj |-> cur', color |-> Black]
        /\ DOMAIN visit_stack = 1..n /\ n \in Nat
    BY <1>8, EnterFacts, LenProperties DEF TypeOK
  <2> HIDE DEF n
  <2>2. StackOrder'
    <3> SUFFICES ASSUME NEW p \in DOMAIN visit_stack', NEW q \in DOMAIN visit_stack', p < q
                 PROVE  MayBeAbove(visit_stack[q], visit_stack[p])'
      BY DEF StackOrder
    <3>1. MayBeAbove(visit_stack[q], visit_stack[p])
      BY <1>2, <2>1 DEF StackOrder
    <3>2. p # n
      BY <2>1
    <3>3. PICK a, b : a = visit_stack'[p] /\ b = visit_stack'[q]
      OBVIOUS
    <3>4. a = visit_stack[p] /\ b.obj = visit_stack[q].obj
      BY <2>1, <3>2, <3>3
    <3>5. MayBeAbove(b, a)
      BY <3>1, <3>4 DEF MayBeAbove
    <3> QED
      BY <1>3, <3>3, <3>5
  <2>3. CurOrder'
    <3>1. \A p \in DOMAIN visit_stack' : ~(p > n)
      BY <2>1
    <3> QED
      BY <2>1, <3>1 DEF CurOrder
  <2>4. UNCHANGED pending_young
    BY <1>8 DEF EnterObject
  <2> QED
    BY <1>4, <2>2, <2>3, <2>4
<1>9. CASE VisitSlot
  <2>1. PICK p \in Obj : p = cur /\ slot \in DOMAIN slots[p]
    BY <1>9 DEF VisitSlot, TypeOK, CurInv
  <2>2. PICK x : x = slots[p][slot]
    OBVIOUS
  <2>3. PICK m \in DOMAIN visit_stack :
          /\ visit_stack[m] = [obj |-> p, color |-> Black]
          /\ \A i \in DOMAIN visit_stack : i > m =>
               /\ visit_stack[i].color = Grey
               /\ \E k \in DOMAIN slots[p] : k < slot /\ slots[p][k] = visit_stack[i].obj
    BY <1>2, <1>9, <2>1, NullAssumption DEF CurOrder
  <2>4. /\ cur' # NULL => cur' = p /\ slot' = slot + 1
        /\ slot \in Nat /\ DOMAIN slots[p] \subseteq Nat
        /\ UNCHANGED pending_young
    <3>1. slots[p] \in Seq(Obj \cup {NULL}) /\ slot \in Nat
      BY DEF TypeOK, HeapTypeOK
    <3> QED
      BY <1>9, <2>1, <3>1, LenProperties DEF VisitSlot
  <2>5. CASE UNCHANGED visit_stack
    <3>1. CurOrder'
      BY <1>0, <2>3, <2>4, <2>5 DEF CurOrder
    <3> QED
      BY <1>4, <1>5, <2>4, <2>5, <3>1
  <2>6. CASE x # NULL /\ visit_stack' = PushGrey(visit_stack, x)
    <3> DEFINE n == Len(visit_stack) + 1
    <3>1. x \in Children(p) /\ x \in Obj
      BY <2>1, <2>2, <2>6, SlotType DEF TypeOK
    <3>2. /\ DOMAIN visit_stack' = DOMAIN visit_stack \cup {n}
          /\ \A i \in DOMAIN visit_stack : visit_stack'[i] = visit_stack[i]
          /\ visit_stack'[n] = [obj |-> x, color |-> Grey]
          /\ DOMAIN visit_stack = 1..Len(visit_stack) /\ Len(visit_stack) \in Nat
      BY <2>6, <3>1, PushFacts, LenProperties DEF TypeOK, PushGrey
    <3>3. \A i \in DOMAIN visit_stack : i < n
      BY <3>2
    <3> HIDE DEF n
    <3>4. /\ x \in Below(p)
          /\ Below(x) \subseteq Below(p)
          /\ \A y \in Obj : p \in Below(y) => x \in Below(y)
      BY <3>1, BelowChild DEF TypeOK
    <3>5. ASSUME NEW i \in DOMAIN visit_stack
          PROVE  MayBeAbove(visit_stack'[n], visit_stack[i])
      <4>1. visit_stack[i] \in Entry
        BY ElementOfSeq, LenProperties DEF TypeOK
      <4>2. visit_stack[i].obj \in Obj /\ visit_stack[i].color \in {Grey, Black}
        BY <4>1 DEF Entry
      <4>3. CASE i < m
        <5>1. MayBeAbove(visit_stack[m], visit_stack[i])
          BY <1>2, <2>3, <4>3 DEF StackOrder
        <5> QED
          BY <2>3, <3>2, <3>4, <4>2, <5>1 DEF MayBeAbove
      <4>4. CASE i = m
        BY <2>3, <3>2, <3>4, <4>4 DEF MayBeAbove, Grey, Black
      <4>5. CASE i > m
        <5>1. PICK k \in DOMAIN slots[p] : k < slot /\ slots[p][k] = visit_stack[i].obj
          BY <2>3, <4>5
        <5>2. slots[p][k] # NULL /\ slots[p][slot] # NULL
          BY <2>2, <2>6, <4>2, <5>1, NullAssumption
        <5>3. slots[p][k] \notin ReachableFrom(Children(slots[p][slot]))
          BY <2>1, <5>1, <5>2 DEF NoShortcut
        <5>4. visit_stack[i].obj \notin Below(x)
          BY <2>2, <5>1, <5>3 DEF Below
        <5>5. visit_stack[i].color = Grey
          BY <2>3, <4>5
        <5> QED
          BY <3>2, <5>4, <5>5 DEF MayBeAbove, Grey, Black
      <4> QED
        BY <2>3, <3>2, <4>3, <4>4, <4>5
    <3>6. StackOrder'
      <4> SUFFICES ASSUME NEW i \in DOMAIN visit_stack', NEW j \in DOMAIN visit_stack', i < j
                   PROVE  MayBeAbove(visit_stack[j], visit_stack[i])'
        BY DEF StackOrder
      <4>1. PICK a, b : a = visit_stack'[i] /\ b = visit_stack'[j]
        OBVIOUS
      <4>2. i \in DOMAIN visit_stack
        BY <3>2, <3>3
      <4>3. MayBeAbove(b, a)
        <5>1. CASE j = n
          BY <3>2, <3>5, <4>1, <4>2, <5>1
        <5>2. CASE j \in DOMAIN visit_stack
          BY <1>2, <3>2, <4>1, <4>2, <5>2 DEF StackOrder
        <5> QED
          BY <3>2, <5>1, <5>2
      <4> QED
        BY <1>3, <4>1, <4>3
    <3>7. CurOrder'
      <4> SUFFICES ASSUME cur' # NULL
                   PROVE  \E l \in DOMAIN visit_stack' :
                            /\ visit_stack'[l] = [obj |-> p, color |-> Black]
                            /\ \A i \in DOMAIN visit_stack' : i > l =>
                                 /\ visit_stack'[i].color = Grey
                                 /\ \E k \in DOMAIN slots[p] :
                                      k < slot + 1 /\ slots[p][k] = visit_stack'[i].obj
        BY <1>0, <2>4 DEF CurOrder
      <4>1. ASSUME NEW i \in DOMAIN visit_stack', i > m
            PROVE  /\ visit_stack'[i].color = Grey
                   /\ \E k \in DOMAIN slots[p] :
                        k < slot + 1 /\ slots[p][k] = visit_stack'[i].obj
        <5>1. CASE i = n
          BY <2>1, <2>2, <2>4, <3>2, <5>1
        <5>2. CASE i \in DOMAIN visit_stack
          <6>1. PICK k \in DOMAIN slots[p] : k < slot /\ slots[p][k] = visit_stack[i].obj
            BY <2>3, <4>1, <5>2
          <6>2. k < slot + 1
            BY <2>4, <6>1
          <6> QED
            BY <2>3, <3>2, <4>1, <5>2, <6>1, <6>2
        <5> QED
          BY <3>2, <5>1, <5>2
      <4> QED
        BY <2>3, <3>2, <4>1
    <3> QED
      BY <1>4, <2>4, <3>6, <3>7
  <2> QED
    BY <1>9, <2>1, <2>2, <2>5, <2>6 DEF VisitSlot
<1>10. CASE \/ IgnoreWord \/ FindRoot \/ EndWalkStack \/ EndMarkingWalk
            \/ EndSingleRoot \/ UNCHANGED vars
  <2>1. UNCHANGED <<visit_stack, cur, slot, pending_young>>
    BY <1>10 DEF IgnoreWord, FindRoot, EndWalkStack, EndMarkingWalk, EndSingleRoot,
                 vars, walkVars
  <2>2. CurOrder'
    BY <1>0, <1>2, <2>1 DEF CurOrder
  <2> QED
    BY <1>4, <1>5, <2>1, <2>2
<1> QED
  BY <1>6, <1>7, <1>8, <1>9, <1>10 DEF Next, MarkingNext, Done

(* At first both lists are empty. *)
LEMMA InitOrder == Init => OrderInv
<1> SUFFICES ASSUME Init PROVE OrderInv
  OBVIOUS
<1>1. visit_stack = <<>> /\ pending_young = <<>> /\ cur = NULL /\ Acyclic
  BY DEF Init, StartWalk, Quiescent
<1>2. DOMAIN visit_stack = {} /\ DOMAIN pending_young = {}
  BY <1>1
<1> QED
  BY <1>1, <1>2 DEF OrderInv, StackOrder, CurOrder, TopologicalOrder

(* Order: on a heap in which no slot of an object leads to the target of   *)
(* an earlier one, pending_young lists every object after its young        *)
(* children (walkSingleRoot), sharing and several roots included.          *)
THEOREM OrderTopological == Spec => []TopologicalWithoutShortcut
<1>1. Init => IInv /\ OrderInv
  BY InitIInv, InitOrder
<1>2. IInv /\ OrderInv /\ [Next]_vars => (IInv /\ OrderInv)'
  BY StepIInv, OrderStep
<1>3. OrderInv => TopologicalWithoutShortcut
  BY DEF OrderInv, TopologicalWithoutShortcut
<1> QED
  BY <1>1, <1>2, <1>3, PTL DEF Spec

-----------------------------------------------------------------------------
(***************************************************************************)
(* Evacuation.                                                             *)
(***************************************************************************)


(* An object's address now, if it has moved. *)
IsMoved(o)    == forward_index[o] # MAX_FWD_INDEX
NewAddress(o) == forward_table[forward_index[o] + 1]

(* Before evacuation nothing has moved. *)
Before ==
  /\ StartEvacuation
  /\ free_entries \in SUBSET Obj
  /\ \A o \in Obj : ~isalloc[o] => slots[o] = <<>>
  /\ \A o \in Obj : \A c \in Children(o) : isalloc[c]

(* The entries that evacuation can draw on hold nothing and stand for      *)
(* nothing, and no object refers to them.                                  *)
FreeEntries ==
  /\ \A o \in free_entries : ~isalloc[o] /\ ~isyoung[o] /\ ~IsMoved(o)
  /\ \A o \in Obj : \A k \in DOMAIN before[o] :
       before[o][k] # NULL =>
         before[o][k] \notin free_entries /\ origin[before[o][k]] = before[o][k]

(* Young objects are as the program left them; those still to be processed *)
(* are listed once.                                                        *)
YoungOnes ==
  /\ \A o \in Obj : isyoung[o] => isalloc[o] /\ origin[o] = o /\ slots[o] = before[o]
  /\ \A o \in Range(pending_young) : isyoung[o]
  /\ Distinct(pending_young)

(* What has moved is an old object at its new address. *)
Forwarding ==
  pc = "processMarkedYoungObjects" =>
    \A o \in Obj : IsMoved(o) =>
      /\ forward_index[o] \in Nat
      /\ forward_index[o] + 1 \in DOMAIN forward_table
      /\ IsOld(NewAddress(o))
      /\ origin[NewAddress(o)] = o

(* No object has become two. *)
OneCopy ==
  \A o, p \in Obj : isalloc[o] /\ isalloc[p] /\ origin[o] = origin[p] => o = p

(* What the scanned words refer to is old, or will be, and the roots have  *)
(* not moved.                                                              *)
RootsKept ==
  /\ \A o \in RootObjs : IsOld(o) \/ o \in Range(pending_young)
  /\ \A o \in Range(roots) : o \in RootObjs /\ isroot[o] /\ origin[o] = o

Moving ==
  /\ EvacTypeOK
  /\ FreeEntries
  /\ YoungOnes
  /\ Forwarding
  /\ OneCopy
  /\ RootsKept
  /\ pc = "evacuated" => pending_young = <<>>

EvacIInv ==
  /\ pc \in WalkPhases \cup EvacPhases
  /\ pc \in WalkPhases => IInv /\ OrderInv /\ Before
  /\ pc \in EvacPhases => Moving

(* What an object still to be processed points to is old, or has moved, or *)
(* is processed before it.                                                 *)
ChildrenReady ==
  pc = "processMarkedYoungObjects" =>
    \A i \in DOMAIN pending_young : \A c \in Children(pending_young[i]) :
      IsOld(c) \/ IsMoved(c) \/ \E j \in DOMAIN pending_young : j < i /\ pending_young[j] = c

(* Old objects point to old objects only. *)
OldClosed == \A o \in Obj : IsOld(o) => \A c \in Children(o) : IsOld(c)

(* Every object's slots lead where they led. *)
SameSlots ==
  \A o \in Obj : isalloc[o] =>
    /\ DOMAIN slots[o] = DOMAIN before[origin[o]]
    /\ \A k \in DOMAIN slots[o] : Same(slots[o][k]) = before[origin[o]][k]

(* Every count is right, those of young objects and of free entries too.   *)
AllCounts == \A o \in Obj : ref_count[o] = Cardinality(RefsTo(o))

Faithful == ChildrenReady /\ OldClosed /\ SameSlots /\ AllCounts

FaithfulInv ==
  /\ pc \in WalkPhases => NoShortcut
  /\ pc \in EvacPhases => Faithful

-----------------------------------------------------------------------------
(***************************************************************************)
(* The walk leaves what evacuation starts from.                            *)
(***************************************************************************)

(* A marking step changes no slot, no count and nothing of evacuation.     *)
LEMMA WalkFrame ==
  ASSUME MarkingNext, UNCHANGED evacVars
  PROVE  /\ pc \in WalkPhases /\ pc' \in WalkPhases
         /\ Before => Before'
         /\ NoShortcut => NoShortcut'
<1>1. UNCHANGED <<isalloc, isyoung, slots, words, ref_count>>
  BY DEF MarkingNext, IgnoreWord, FindRoot, EndWalkStack, TakeRoot,
         EndMarkingWalk, LeaveObject, EnterObject, VisitSlot, EndSingleRoot, heapVars
<1>2. pc \in WalkPhases /\ pc' \in WalkPhases
  BY DEF MarkingNext, IgnoreWord, FindRoot, EndWalkStack, TakeRoot, EndMarkingWalk,
         LeaveObject, EnterObject, VisitSlot, EndSingleRoot, WalkPhases
<1>3. UNCHANGED <<forward_index, forward_table, free_entries, origin, before>>
  BY DEF evacVars, historyVars
<1>4. Before => Before'
  <2>1. \A o : IsOld(o)' = IsOld(o) /\ Children(o)' = Children(o)
    BY <1>1 DEF IsOld, Children
  <2>2. \A o : RefsTo(o)' = RefsTo(o)
    BY <1>1 DEF IsOld, RefsTo
  <2>3. CountsExact => CountsExact'
    BY <1>1, <2>1, <2>2 DEF CountsExact
  <2>4. StartEvacuation => StartEvacuation'
    BY <1>1, <1>3, <2>1, <2>3 DEF StartEvacuation
  <2> QED
    BY <1>1, <1>3, <2>1, <2>4 DEF Before
<1>5. NoShortcut => NoShortcut'
  BY <1>1 DEF NoShortcut, ReachableFrom, Closed, Children
<1> QED
  BY <1>2, <1>4, <1>5

(* At first nothing is marked, and the heap is as the program left it.     *)
LEMMA InitEvac == EvacInit => EvacIInv
<1> SUFFICES ASSUME EvacInit PROVE EvacIInv
  OBVIOUS
<1>1. IInv /\ OrderInv
  BY InitIInv, InitOrder DEF EvacInit
<1>2. Before
  BY DEF EvacInit, Init, Quiescent, Before
<1>3. pc = "walkStack"
  BY DEF EvacInit, Init, StartWalk
<1> QED
  BY <1>1, <1>2, <1>3 DEF EvacIInv, WalkPhases, EvacPhases

(* Once marking has ended, what it leaves is what evacuation needs.        *)
LEMMA MarkedState ==
  ASSUME IInv, OrderInv, Before, pc = "marked"
  PROVE  /\ FreeEntries /\ YoungOnes /\ OneCopy /\ RootsKept
         /\ \A o \in Obj : ~IsMoved(o)
         /\ forward_index \in [Obj -> Nat \cup {MAX_FWD_INDEX}]
         /\ forward_table \in Seq(Obj)
         /\ origin \in [Obj -> Obj]
         /\ before \in [Obj -> Seq(Obj \cup {NULL})]
<1>1. /\ forward_index = [o \in Obj |-> MAX_FWD_INDEX]
      /\ forward_table = <<>>
      /\ \A o \in free_entries : ~isalloc[o]
      /\ origin = [o \in Obj |-> o]
      /\ before = slots
      /\ free_entries \in SUBSET Obj
  BY DEF Before, StartEvacuation
<1>2. \A o \in Obj : ~IsMoved(o)
  BY <1>1 DEF IsMoved
<1>3. /\ \A o \in Obj : isyoung[o] => isalloc[o]
      /\ HeapTypeOK
      /\ pending_young \in Seq(Obj)
  BY DEF IInv, GraphOK, TypeOK, HeapTypeOK
<1>4. FreeEntries
  <2>1. \A o \in free_entries : ~isalloc[o] /\ ~isyoung[o] /\ ~IsMoved(o)
    BY <1>1, <1>2, <1>3
  <2>2. ASSUME NEW o \in Obj, NEW k \in DOMAIN before[o], before[o][k] # NULL
        PROVE  before[o][k] \notin free_entries /\ origin[before[o][k]] = before[o][k]
    <3>1. before[o][k] \in Children(o) /\ before[o][k] \in Obj
      BY <1>1, <1>3, <2>2, SlotType
    <3>2. isalloc[before[o][k]]
      BY <3>1 DEF Before
    <3> QED
      BY <1>1, <3>1, <3>2
  <2> QED
    BY <2>1, <2>2 DEF FreeEntries
<1>5. YoungOnes
  <2>1. \A o \in Range(pending_young) : o \in Obj /\ isyoung[o]
    <3> SUFFICES ASSUME NEW i \in DOMAIN pending_young
                 PROVE  pending_young[i] \in Obj /\ isyoung[pending_young[i]]
      BY DEF Range
    <3>1. pending_young[i] \in Obj
      BY <1>3, SeqIndices
    <3>2. i \in InYoung(pending_young[i])
      BY DEF InYoung
    <3>3. ismarked[pending_young[i]]
      BY <3>1, <3>2 DEF IInv, MarkedOnce
    <3> QED
      BY <3>1, <3>3 DEF IInv, Tricolor
  <2>2. Distinct(pending_young)
    <3> SUFFICES ASSUME NEW i \in DOMAIN pending_young, NEW j \in DOMAIN pending_young,
                        pending_young[i] = pending_young[j]
                 PROVE  i = j
      BY DEF Distinct
    <3>1. i \in InYoung(pending_young[i]) /\ j \in InYoung(pending_young[i])
      BY DEF InYoung
    <3>2. pending_young[i] \in Obj
      BY <1>3, SeqIndices
    <3> QED
      BY <3>1, <3>2 DEF IInv, MarkedOnce
  <2> QED
    BY <1>1, <1>3, <2>1, <2>2 DEF YoungOnes
<1>6. OneCopy
  BY <1>1 DEF OneCopy
<1>7. RootsKept
  <2>1. visit_stack = <<>> /\ pending_roots = <<>> /\ ReadObjs = RootObjs
    BY AllRead DEF IInv, PhaseInv
  <2>2. RootObjs \subseteq Obj /\ \A o \in RootObjs : isalloc[o]
    BY <2>1 DEF ReadObjs
  <2>3. ASSUME NEW o \in RootObjs, isyoung[o] PROVE o \in Range(pending_young)
    <3>1. o \notin Range(pending_roots)
      BY <2>1 DEF Range
    <3>2. ismarked[o]
      BY <2>1, <2>3, <3>1 DEF IInv, RootInv
    <3>3. OnStack(o) = {}
      BY <2>1 DEF OnStack
    <3>4. InYoung(o) # {}
      BY <2>2, <3>2, <3>3 DEF IInv, MarkedOnce
    <3> QED
      BY <3>4 DEF InYoung, Range
  <2>4. \A o \in RootObjs : IsOld(o) \/ o \in Range(pending_young)
    BY <2>2, <2>3 DEF IsOld
  <2>5. \A o \in Range(roots) : o \in RootObjs /\ isroot[o]
    BY <2>1, <2>2 DEF IInv, ScanInv
  <2> QED
    BY <1>1, <2>2, <2>4, <2>5 DEF RootsKept
<1>8. /\ forward_index \in [Obj -> Nat \cup {MAX_FWD_INDEX}]
      /\ forward_table \in Seq(Obj)
      /\ origin \in [Obj -> Obj]
      /\ before \in [Obj -> Seq(Obj \cup {NULL})]
  BY <1>1, <1>3 DEF HeapTypeOK
<1> QED
  BY <1>2, <1>4, <1>5, <1>6, <1>7, <1>8

(* Where old objects point to old objects only, nothing refers to others.  *)
LEMMA NoRefs ==
  ASSUME HeapTypeOK, OldClosed, NEW o \in Obj, ~IsOld(o)
  PROVE  RefsTo(o) = {} /\ Cardinality(RefsTo(o)) = 0
<1>1. RefsTo(o) = {}
  <2> SUFFICES ASSUME NEW r \in RefsTo(o) PROVE FALSE
    OBVIOUS
  <2>1. PICK x, k : r = <<x, k>> /\ x \in Obj /\ IsOld(x) /\ k \in DOMAIN slots[x] /\ slots[x][k] = o
    BY RefsElement
  <2>2. o \in Children(x)
    BY <2>1, SlotType, NullAssumption
  <2> QED
    BY <2>1, <2>2 DEF OldClosed
<1> QED
  BY <1>1, FS_EmptySet

(* A topological order makes every object's children ready for it.         *)
LEMMA MarkedFaithful ==
  ASSUME IInv, OrderInv, Before, pc = "marked", NoShortcut
  PROVE  /\ OldClosed /\ SameSlots /\ AllCounts
         /\ \A i \in DOMAIN pending_young : \A c \in Children(pending_young[i]) :
              IsOld(c) \/ \E j \in DOMAIN pending_young : j < i /\ pending_young[j] = c
<1>1. /\ origin = [o \in Obj |-> o]
      /\ before = slots
      /\ CountsExact
      /\ \A o \in Obj : ~IsOld(o) => ref_count[o] = 0
      /\ \A o \in Obj : \A c \in Children(o) : isalloc[c]
  BY DEF Before, StartEvacuation
<1>2. HeapTypeOK /\ pending_young \in Seq(Obj)
  BY DEF IInv, TypeOK
<1>3. OldClosed
  BY <1>1 DEF OldClosed, IsOld, IInv, GraphOK
<1>4. SameSlots
  <2> SUFFICES ASSUME NEW o \in Obj, NEW k \in DOMAIN slots[o]
               PROVE  Same(slots[o][k]) = slots[o][k]
    BY <1>1 DEF SameSlots
  <2>1. slots[o][k] \in Obj \cup {NULL}
    BY <1>2, SlotType
  <2> QED
    BY <1>1, <2>1 DEF Same
<1>5. AllCounts
  BY <1>1, <1>2, <1>3, NoRefs DEF AllCounts, CountsExact
<1>6. ASSUME NEW i \in DOMAIN pending_young, NEW c \in Children(pending_young[i])
      PROVE  IsOld(c) \/ \E j \in DOMAIN pending_young : j < i /\ pending_young[j] = c
  <2>1. /\ DOMAIN pending_young = 1..Len(pending_young) /\ Len(pending_young) \in Nat
        /\ pending_young[i] \in Obj
    BY <1>2, SeqIndices
  <2>2. c \in Obj /\ isalloc[c]
    BY <1>1, <1>2, <2>1, ChildrenType
  <2>3. CASE isyoung[c]
    <3>1. PICK j \in 1..(i - 1) : pending_young[j] = c
      BY <2>3 DEF OrderInv, TopologicalOrder, ChildrenFirst
    <3> QED
      BY <2>1, <3>1
  <2> QED
    BY <2>2, <2>3 DEF IsOld
<1> QED
  BY <1>3, <1>4, <1>5, <1>6

-----------------------------------------------------------------------------
(***************************************************************************)
(* One promotion, in place or by a copy.                                   *)
(***************************************************************************)

(* Processing obj, the head of pending_young, makes an old object of it at *)
(* new: its own entry, or a free one.                                      *)
MoveHeap(obj, new) ==
  /\ pc = "processMarkedYoungObjects" /\ pc' = pc
  /\ pending_young # <<>> /\ pending_young' = Tail(pending_young)
  /\ obj = Head(pending_young) /\ obj \in Obj /\ isyoung[obj] /\ isalloc[obj]
  /\ new \in Obj
  /\ UNCHANGED <<before, words, roots>>
  /\ free_entries' = free_entries \ {new}
  /\ slots'[new] = UpdatedSlots(slots[obj])
  /\ isalloc'[new] /\ ~isyoung'[new]
  /\ origin'[new] = obj
  /\ \A o \in Obj \ {new} : slots'[o] = slots[o] /\ origin'[o] = origin[o]
  /\ \A o \in Obj \ {new, obj} : isalloc'[o] = isalloc[o] /\ isyoung'[o] = isyoung[o]
  /\ \A o \in Obj : isalloc[o] /\ isroot[o] => isalloc'[o] /\ isroot'[o]

SlotsTo(o, p) == {k \in DOMAIN slots[o] : slots[o][k] = p}

MoveCounts(obj, new) ==
  \A p \in Obj :
    ref_count'[p] = IF p = obj /\ new # obj THEN 0
                    ELSE IF p = new /\ new # obj THEN Cardinality(SlotsTo(new, p)')
                    ELSE ref_count[p] + Cardinality(SlotsTo(new, p)')

MoveForward(obj, new) ==
  \/ new = obj /\ UNCHANGED <<forward_index, forward_table>>
  \/ /\ new # obj /\ new \in free_entries
     /\ ~isalloc'[obj] /\ ~isyoung'[obj]
     /\ forward_index'[obj] = Len(forward_table)
     /\ forward_index'[new] = MAX_FWD_INDEX
     /\ \A o \in Obj \ {new, obj} : forward_index'[o] = forward_index[o]
     /\ forward_table' = Append(forward_table, new)

MoveShape(obj, new) ==
  MoveHeap(obj, new) /\ MoveCounts(obj, new) /\ MoveForward(obj, new)

(* The first object still to be processed. *)
LEMMA HeadFacts ==
  ASSUME Moving, pending_young # <<>>
  PROVE  /\ Head(pending_young) \in Obj
         /\ isyoung[Head(pending_young)] /\ isalloc[Head(pending_young)]
         /\ ~IsOld(Head(pending_young))
         /\ Head(pending_young) \in Range(pending_young)
         /\ Head(pending_young) \notin Range(Tail(pending_young))
         /\ Range(pending_young) = Range(Tail(pending_young)) \cup {Head(pending_young)}
         /\ Tail(pending_young) \in Seq(Obj)
         /\ Distinct(Tail(pending_young))
<1>1. pending_young \in Seq(Obj) /\ Distinct(pending_young)
  BY DEF Moving, EvacTypeOK, YoungOnes
<1>2. /\ Head(pending_young) \in Obj
      /\ Head(pending_young) \in Range(pending_young)
      /\ Range(pending_young) = Range(Tail(pending_young)) \cup {Head(pending_young)}
      /\ Tail(pending_young) \in Seq(Obj)
  BY <1>1, PopFrontFacts
<1>3. Distinct(Tail(pending_young)) /\ Head(pending_young) \notin Range(Tail(pending_young))
  BY <1>1, PopFrontDistinct
<1> QED
  BY <1>2, <1>3 DEF Moving, YoungOnes, IsOld

(* Where the parts of a pointer's new value come from. *)
LEMMA ForwardType ==
  ASSUME Moving, pc = "processMarkedYoungObjects", NEW p \in Obj \cup {NULL}
  PROVE  /\ Forward(p) \in Obj \cup {NULL}
         /\ p = NULL <=> Forward(p) = NULL
         /\ p # NULL /\ ~IsMoved(p) => Forward(p) = p
         /\ p # NULL /\ IsMoved(p) => Forward(p) = NewAddress(p)
<1>1. forward_table \in Seq(Obj)
  BY DEF Moving, EvacTypeOK
<1>2. ASSUME p # NULL, IsMoved(p) PROVE NewAddress(p) \in Obj
  <2>1. forward_index[p] + 1 \in DOMAIN forward_table
    BY <1>2 DEF Moving, Forwarding
  <2> QED
    BY <1>1, <2>1, SeqIndices DEF NewAddress
<1> QED
  BY <1>2, NullAssumption DEF Forward, IsMoved, NewAddress

(* An object's slots after updatePointers. *)
LEMMA UpdatedFacts ==
  ASSUME Moving, pc = "processMarkedYoungObjects", NEW o \in Obj
  PROVE  /\ UpdatedSlots(slots[o]) \in Seq(Obj \cup {NULL})
         /\ DOMAIN UpdatedSlots(slots[o]) = DOMAIN slots[o]
         /\ \A k \in DOMAIN slots[o] : /\ slots[o][k] \in Obj \cup {NULL}
                                       /\ UpdatedSlots(slots[o])[k] = Forward(slots[o][k])
<1>1. slots[o] \in Seq(Obj \cup {NULL})
  BY DEF Moving, EvacTypeOK, HeapTypeOK
<1>2. PICK n \in Nat : DOMAIN slots[o] = 1..n
  BY <1>1, SeqIndices
<1>3. \A k \in DOMAIN slots[o] : slots[o][k] \in Obj \cup {NULL}
  BY <1>1, SeqIndices
<1>4. UpdatedSlots(slots[o]) = [k \in 1..n |-> Forward(slots[o][k])]
  BY <1>2 DEF UpdatedSlots
<1>5. \A k \in 1..n : Forward(slots[o][k]) \in Obj \cup {NULL}
  BY <1>2, <1>3, ForwardType
<1>6. UpdatedSlots(slots[o]) \in Seq(Obj \cup {NULL})
  BY <1>4, <1>5, SeqDef
<1> QED
  BY <1>2, <1>3, <1>4, <1>6

(* What a slot leads to is counted by a natural number. *)
LEMMA SlotsCounted ==
  ASSUME NEW S, NEW s \in Seq(S), NEW p
  PROVE  /\ IsFiniteSet({k \in DOMAIN s : s[k] = p})
         /\ Cardinality({k \in DOMAIN s : s[k] = p}) \in Nat
<1>1. PICK n \in Nat : DOMAIN s = 1..n
  BY SeqIndices
<1>2. 1 \in Int /\ n \in Int
  OBVIOUS
<1>3. IsFiniteSet(1..n)
  BY <1>2, FS_Interval, Zenon
<1>4. {k \in DOMAIN s : s[k] = p} \subseteq 1..n
  BY <1>1
<1>5. IsFiniteSet({k \in DOMAIN s : s[k] = p})
  BY <1>3, <1>4, FS_Subset, Zenon
<1> QED
  BY <1>5, FS_CardinalityType, Zenon

(* Promotion of a root. *)
LEMMA PromoteShape ==
  ASSUME Moving, PromoteRoot
  PROVE  MoveShape(Head(pending_young), Head(pending_young))
<1>1. PICK obj : obj = Head(pending_young)
  OBVIOUS
<1>2. pending_young # <<>> /\ pc = "processMarkedYoungObjects"
  BY DEF PromoteRoot
<1>3. obj \in Obj /\ isyoung[obj] /\ isalloc[obj] /\ ~IsOld(obj)
  BY <1>1, <1>2, HeadFacts
<1>4. /\ isroot[obj]
      /\ slots' = [slots EXCEPT ![obj] = UpdatedSlots(slots[obj])]
      /\ ref_count' = CountSlots(ref_count, UpdatedSlots(slots[obj]))
      /\ isyoung' = [isyoung EXCEPT ![obj] = FALSE]
      /\ pending_young' = Tail(pending_young)
      /\ UNCHANGED <<isalloc, isroot, pc, words, roots, forward_index, forward_table,
                     free_entries, origin, before>>
  BY <1>1 DEF PromoteRoot, historyVars
<1>5. HeapTypeOK
  BY DEF Moving, EvacTypeOK
<1>6. slots'[obj] = UpdatedSlots(slots[obj]) /\ \A o \in Obj \ {obj} : slots'[o] = slots[o]
  BY <1>3, <1>4, <1>5 DEF HeapTypeOK
<1>7. ~isyoung'[obj] /\ \A o \in Obj \ {obj} : isyoung'[o] = isyoung[o]
  BY <1>3, <1>4, <1>5 DEF HeapTypeOK
<1>8. \A p \in Obj : ref_count'[p] = ref_count[p] + Cardinality(SlotsTo(obj, p)')
  BY <1>4, <1>6 DEF CountSlots, SlotsTo
<1>9. free_entries' = free_entries \ {obj}
  BY <1>3, <1>4 DEF Moving, FreeEntries
<1>10. origin[obj] = obj
  BY <1>3 DEF Moving, YoungOnes
<1>11. MoveHeap(obj, obj)
  BY <1>1, <1>2, <1>3, <1>4, <1>6, <1>7, <1>9, <1>10, Zenon DEF MoveHeap
<1>12. MoveCounts(obj, obj)
  BY <1>8, Zenon DEF MoveCounts
<1>13. MoveForward(obj, obj)
  BY <1>4 DEF MoveForward
<1> QED
  BY <1>1, <1>11, <1>12, <1>13 DEF MoveShape

(* Evacuation of any other object. *)
LEMMA EvacuateShape ==
  ASSUME Moving, EvacuateObject
  PROVE  \E new \in free_entries : MoveShape(Head(pending_young), new)
<1>1. PICK obj : obj = Head(pending_young)
  OBVIOUS
<1>2. pending_young # <<>> /\ pc = "processMarkedYoungObjects"
  BY DEF EvacuateObject
<1>3. obj \in Obj /\ isyoung[obj] /\ isalloc[obj] /\ ~IsOld(obj)
  BY <1>1, <1>2, HeadFacts
<1>4. PICK ns : ns = UpdatedSlots(slots[obj])
  OBVIOUS
<1>5. PICK new \in free_entries :
        /\ ~isroot[obj]
        /\ free_entries' = free_entries \ {new}
        /\ slots' = [slots EXCEPT ![new] = ns]
        /\ isalloc' = [isalloc EXCEPT ![new] = TRUE, ![obj] = FALSE]
        /\ isyoung' = [isyoung EXCEPT ![new] = FALSE, ![obj] = FALSE]
        /\ ismarked' = [ismarked EXCEPT ![new] = FALSE, ![obj] = FALSE]
        /\ isroot' = [isroot EXCEPT ![new] = FALSE, ![obj] = FALSE]
        /\ ref_count' = [CountSlots([ref_count EXCEPT ![new] = 0], ns) EXCEPT ![obj] = 0]
        /\ forward_index' = [forward_index EXCEPT ![new] = MAX_FWD_INDEX,
                                                  ![obj] = Len(forward_table)]
        /\ forward_table' = Append(forward_table, new)
        /\ origin' = [origin EXCEPT ![new] = obj]
  BY <1>1, <1>4, Zenon DEF EvacuateObject
<1>6. /\ pending_young' = Tail(pending_young)
      /\ UNCHANGED <<pc, words, roots, before>>
  BY DEF EvacuateObject
<1>7. /\ HeapTypeOK
      /\ origin \in [Obj -> Obj]
      /\ forward_index \in [Obj -> Nat \cup {MAX_FWD_INDEX}]
      /\ new \in Obj /\ ~isalloc[new] /\ new # obj
  BY <1>3 DEF Moving, EvacTypeOK, FreeEntries
<1>8. slots'[new] = ns /\ \A o \in Obj \ {new} : slots'[o] = slots[o]
  BY <1>5, <1>7 DEF HeapTypeOK
<1>9. /\ isalloc'[new] /\ ~isalloc'[obj]
      /\ \A o \in Obj \ {new, obj} : isalloc'[o] = isalloc[o]
  BY <1>3, <1>5, <1>7 DEF HeapTypeOK
<1>10. /\ ~isyoung'[new] /\ ~isyoung'[obj]
       /\ \A o \in Obj \ {new, obj} : isyoung'[o] = isyoung[o]
  BY <1>3, <1>5, <1>7 DEF HeapTypeOK
<1>11. \A o \in Obj \ {new, obj} : isroot'[o] = isroot[o]
  BY <1>3, <1>5, <1>7 DEF HeapTypeOK
<1>12. /\ forward_index'[obj] = Len(forward_table)
       /\ forward_index'[new] = MAX_FWD_INDEX
       /\ \A o \in Obj \ {new, obj} : forward_index'[o] = forward_index[o]
  BY <1>3, <1>5, <1>7
<1>13. origin'[new] = obj /\ \A o \in Obj \ {new} : origin'[o] = origin[o]
  BY <1>3, <1>5, <1>7
<1>14. MoveCounts(obj, new)
  <2>1. PICK counts : counts = [ref_count EXCEPT ![new] = 0]
    OBVIOUS
  <2>2. \A p \in Obj : counts[p] = IF p = new THEN 0 ELSE ref_count[p]
    BY <1>7, <2>1 DEF HeapTypeOK
  <2>3. ref_count' = [CountSlots(counts, ns) EXCEPT ![obj] = 0]
    BY <1>5, <2>1
  <2>4. \A p \in Obj : Cardinality(SlotsTo(new, p)') = Cardinality({k \in DOMAIN ns : ns[k] = p})
    BY <1>8 DEF SlotsTo
  <2>5. /\ ref_count'[obj] = 0
        /\ \A p \in Obj \ {obj} : ref_count'[p] = counts[p] + Cardinality(SlotsTo(new, p)')
    BY <1>3, <2>3, <2>4 DEF CountSlots
  <2>6. Cardinality(SlotsTo(new, new)') \in Nat
    <3>1. ns \in Seq(Obj \cup {NULL})
      BY <1>2, <1>3, <1>4, UpdatedFacts
    <3>2. Cardinality({k \in DOMAIN ns : ns[k] = new}) \in Nat
      BY <3>1, SlotsCounted
    <3> QED
      BY <1>7, <2>4, <3>2, Zenon
  <2> QED
    BY <1>7, <2>2, <2>5, <2>6 DEF MoveCounts
<1>15. \A o \in Obj : isalloc[o] /\ isroot[o] => isalloc'[o] /\ isroot'[o]
  BY <1>5, <1>7, <1>9, <1>11
<1>16. MoveHeap(obj, new)
  BY <1>1, <1>2, <1>3, <1>4, <1>5, <1>6, <1>7, <1>8, <1>9, <1>10, <1>13, <1>15, Zenon
     DEF MoveHeap
<1>17. MoveForward(obj, new)
  BY <1>5, <1>7, <1>9, <1>10, <1>12 DEF MoveForward
<1> QED
  BY <1>1, <1>14, <1>16, <1>17 DEF MoveShape

(* What a promotion makes old, leaves young and takes. *)
LEMMA MoveOld ==
  ASSUME Moving, NEW obj, NEW new, MoveShape(obj, new)
  PROVE  /\ obj \in Obj /\ new \in Obj /\ ~IsOld(obj) /\ ~IsOld(new)
         /\ origin[obj] = obj /\ before[obj] = slots[obj]
         /\ \A o \in Obj : IsOld(o)' <=> IsOld(o) \/ o = new
         /\ \A o \in Obj : isyoung'[o] => isyoung[o] /\ o # obj /\ o # new
         /\ \A o \in Obj : isyoung[o] /\ o # obj => isyoung'[o] /\ isalloc'[o] /\ o # new
         /\ \A o \in Obj : isalloc'[o] /\ o # new => isalloc[o] /\ o # obj
         /\ new # obj => new \in free_entries /\ ~isalloc[new]
<1>1. /\ obj \in Obj /\ new \in Obj /\ isyoung[obj] /\ isalloc[obj]
      /\ isalloc'[new] /\ ~isyoung'[new]
      /\ \A o \in Obj \ {new, obj} : isalloc'[o] = isalloc[o] /\ isyoung'[o] = isyoung[o]
  BY DEF MoveShape, MoveHeap
<1>2. new # obj => new \in free_entries /\ ~isalloc'[obj] /\ ~isyoung'[obj]
  BY DEF MoveShape, MoveForward
<1>3. new # obj => ~isalloc[new] /\ ~isyoung[new]
  BY <1>2 DEF Moving, FreeEntries
<1>4. origin[obj] = obj /\ before[obj] = slots[obj]
  BY <1>1 DEF Moving, YoungOnes
<1>5. \A o \in Obj : isyoung[o] => isalloc[o]
  BY DEF Moving, YoungOnes
<1> QED
  BY <1>1, <1>2, <1>3, <1>4, <1>5 DEF IsOld

(* What a promotion leaves to be processed. *)
LEMMA MovePending ==
  ASSUME Moving, NEW obj, NEW new, MoveShape(obj, new)
  PROVE  /\ pending_young' \in Seq(Obj)
         /\ Distinct(pending_young')
         /\ Range(pending_young) = Range(pending_young') \cup {obj}
         /\ \A i \in DOMAIN pending_young' :
              /\ i \in Nat \ {0}
              /\ i + 1 \in DOMAIN pending_young
              /\ pending_young'[i] = pending_young[i + 1]
              /\ pending_young'[i] \in Obj \ {obj, new}
              /\ isyoung[pending_young'[i]] /\ isyoung'[pending_young'[i]]
         /\ \A i \in DOMAIN pending_young : i > 1 =>
              i - 1 \in DOMAIN pending_young' /\ pending_young'[i - 1] = pending_young[i]
         /\ 1 \in DOMAIN pending_young /\ pending_young[1] = obj
         /\ DOMAIN pending_young \subseteq Nat \ {0}
<1>1. pending_young # <<>> /\ pending_young' = Tail(pending_young) /\ obj = Head(pending_young)
  BY DEF MoveShape, MoveHeap
<1>2. /\ pending_young' \in Seq(Obj)
      /\ Distinct(pending_young')
      /\ Range(pending_young) = Range(pending_young') \cup {obj}
      /\ obj \notin Range(pending_young')
  BY <1>1, HeadFacts
<1>3. /\ pending_young \in Seq(Obj)
      /\ Len(pending_young) \in Nat \ {0}
      /\ DOMAIN pending_young = 1..Len(pending_young)
  BY <1>1, EmptySeq, LenProperties DEF Moving, EvacTypeOK
<1>4. /\ Len(pending_young') = Len(pending_young) - 1
      /\ \A i \in 1..Len(pending_young') : pending_young'[i] = pending_young[i + 1]
      /\ DOMAIN pending_young' = 1..Len(pending_young')
  BY <1>1, <1>2, <1>3, HeadTailProperties, LenProperties
<1>5. ASSUME NEW i \in DOMAIN pending_young'
      PROVE  /\ pending_young'[i] \in Obj \ {obj, new}
             /\ isyoung[pending_young'[i]] /\ isyoung'[pending_young'[i]]
  <2>1. pending_young'[i] \in Range(pending_young') /\ pending_young'[i] \in Obj
    BY <1>2, <1>4, SeqIndices
  <2>2. isyoung[pending_young'[i]] /\ pending_young'[i] # obj
    BY <1>2, <2>1 DEF Moving, YoungOnes
  <2> QED
    BY <2>1, <2>2, MoveOld
<1>6. \A i \in DOMAIN pending_young' :
        /\ i \in Nat \ {0}
        /\ i + 1 \in DOMAIN pending_young
        /\ pending_young'[i] = pending_young[i + 1]
  BY <1>3, <1>4
<1>7. \A i \in DOMAIN pending_young : i > 1 =>
        i - 1 \in DOMAIN pending_young' /\ pending_young'[i - 1] = pending_young[i]
  <2> SUFFICES ASSUME NEW i \in DOMAIN pending_young, i > 1
               PROVE  i - 1 \in DOMAIN pending_young' /\ pending_young'[i - 1] = pending_young[i]
    OBVIOUS
  <2>1. i - 1 \in 1..Len(pending_young') /\ (i - 1) + 1 = i
    BY <1>3, <1>4
  <2> QED
    BY <1>4, <2>1
<1>8. 1 \in DOMAIN pending_young /\ pending_young[1] = obj /\ DOMAIN pending_young \subseteq Nat \ {0}
  BY <1>1, <1>3
<1> QED
  BY <1>2, <1>5, <1>6, <1>7, <1>8

(* Only obj moves, to new. *)
LEMMA MoveMoved ==
  ASSUME Moving, NEW obj, NEW new, MoveShape(obj, new)
  PROVE  /\ \A o \in Obj : IsMoved(o) => IsMoved(o)' /\ (o # obj => NewAddress(o)' = NewAddress(o))
         /\ \A o \in Obj : IsMoved(o)' => IsMoved(o) \/ (o = obj /\ new # obj)
         /\ Forwarding'
<1>1. pc = "processMarkedYoungObjects" /\ pc' = pc
  BY DEF MoveShape, MoveHeap
<1>2. forward_table \in Seq(Obj) /\ Forwarding
  BY DEF Moving, EvacTypeOK
<1>3. obj \in Obj /\ new \in Obj
  BY MoveOld
<1>4. ASSUME NEW o \in Obj, IsMoved(o)
      PROVE  /\ forward_index[o] \in Nat
             /\ forward_index[o] + 1 \in DOMAIN forward_table
             /\ IsOld(NewAddress(o))
             /\ origin[NewAddress(o)] = o
             /\ NewAddress(o) \in Obj
             /\ NewAddress(o) # new
             /\ isalloc'[NewAddress(o)] /\ ~isyoung'[NewAddress(o)]
             /\ origin'[NewAddress(o)] = o
  <2>1. /\ forward_index[o] \in Nat
        /\ forward_index[o] + 1 \in DOMAIN forward_table
        /\ IsOld(NewAddress(o))
        /\ origin[NewAddress(o)] = o
    BY <1>1, <1>2, <1>4 DEF Forwarding
  <2>2. NewAddress(o) \in Obj
    BY <1>2, <2>1, SeqIndices DEF NewAddress
  <2>3. /\ NewAddress(o) # new
        /\ isalloc'[NewAddress(o)] /\ ~isyoung'[NewAddress(o)]
    <3>1. PICK a \in Obj : a = NewAddress(o)
      BY <2>2
    <3>2. IsOld(a)
      BY <2>1, <3>1
    <3>3. a # new /\ IsOld(a)'
      BY <3>2, MoveOld
    <3> QED
      BY <3>1, <3>3 DEF IsOld
  <2>4. origin'[NewAddress(o)] = o
    BY <2>1, <2>2, <2>3 DEF MoveShape, MoveHeap
  <2> QED
    BY <2>1, <2>2, <2>3, <2>4
<1>5. CASE new = obj
  <2>1. UNCHANGED <<forward_index, forward_table>>
    BY <1>5 DEF MoveShape, MoveForward
  <2>2. \A o \in Obj : IsMoved(o)' = IsMoved(o) /\ NewAddress(o)' = NewAddress(o)
    BY <2>1 DEF IsMoved, NewAddress
  <2>3. Forwarding'
    BY <1>4, <2>1, <2>2 DEF Forwarding, IsOld
  <2> QED
    BY <2>2, <2>3
<1>6. CASE new # obj
  <2>1. /\ new \in free_entries
        /\ forward_index'[obj] = Len(forward_table)
        /\ forward_index'[new] = MAX_FWD_INDEX
        /\ \A o \in Obj \ {new, obj} : forward_index'[o] = forward_index[o]
        /\ forward_table' = Append(forward_table, new)
    BY <1>6 DEF MoveShape, MoveForward
  <2>2. /\ DOMAIN forward_table' = DOMAIN forward_table \cup {Len(forward_table) + 1}
        /\ \A i \in DOMAIN forward_table : forward_table'[i] = forward_table[i]
        /\ forward_table'[Len(forward_table) + 1] = new
        /\ Len(forward_table) \in Nat
    BY <1>2, <1>3, <2>1, AppendFacts, LenProperties
  <2>3. ~IsMoved(new) /\ ~IsMoved(new)'
    BY <2>1 DEF IsMoved, Moving, FreeEntries
  <2>4. ASSUME NEW o \in Obj \ {new, obj}
        PROVE  /\ IsMoved(o)' = IsMoved(o)
               /\ IsMoved(o) => NewAddress(o)' = NewAddress(o)
    <3>1. IsMoved(o)' = IsMoved(o)
      BY <2>1 DEF IsMoved
    <3>2. ASSUME IsMoved(o) PROVE NewAddress(o)' = NewAddress(o)
      <4>1. forward_index[o] + 1 \in DOMAIN forward_table /\ forward_index'[o] = forward_index[o]
        BY <1>4, <2>1, <3>2
      <4> QED
        BY <2>2, <4>1 DEF NewAddress
    <3> QED
      BY <3>1, <3>2
  <2>5. IsMoved(obj)' /\ NewAddress(obj)' = new
    BY <2>1, <2>2, FwdAssumption DEF IsMoved, NewAddress
  <2>6. IsOld(new)' /\ origin'[new] = obj
    BY <1>3, MoveOld DEF MoveShape, MoveHeap
  <2>7. ASSUME NEW o \in Obj, IsMoved(o)'
        PROVE  /\ forward_index'[o] \in Nat
               /\ forward_index'[o] + 1 \in DOMAIN forward_table'
               /\ IsOld(NewAddress(o))'
               /\ origin'[NewAddress(o)'] = o
    <3>1. CASE o = obj
      <4>1. IsOld(NewAddress(obj))'
        <5>1. isalloc'[NewAddress(obj)'] /\ ~isyoung'[NewAddress(obj)']
          BY <2>5, <2>6 DEF IsOld
        <5> QED
          BY <5>1 DEF IsOld
      <4> QED
        BY <2>1, <2>2, <2>5, <2>6, <3>1, <4>1
    <3>2. CASE o # obj
      <4>1. o \in Obj \ {new, obj} /\ IsMoved(o) /\ NewAddress(o)' = NewAddress(o)
        BY <2>3, <2>4, <2>7, <3>2
      <4>2. IsOld(NewAddress(o))'
        <5>1. isalloc'[NewAddress(o)'] /\ ~isyoung'[NewAddress(o)']
          BY <1>4, <4>1 DEF IsOld
        <5> QED
          BY <5>1 DEF IsOld
      <4> QED
        BY <1>4, <2>1, <2>2, <4>1, <4>2
    <3> QED
      BY <3>1, <3>2
  <2>8. Forwarding'
    BY <2>7 DEF Forwarding
  <2> QED
    BY <1>6, <2>3, <2>4, <2>5, <2>8
<1> QED
  BY <1>5, <1>6

(* The words of the scan refer to addresses. *)
LEMMA ScannedType == ScannedObjs \subseteq Obj /\ RootObjs \subseteq Obj
BY WordAssumption DEF RootObjs, ScannedObjs, IsPotentialPtr

(* A promotion keeps what is known of entries, young objects and roots.    *)
LEMMA MoveKeeps ==
  ASSUME Moving, NEW obj, NEW new, MoveShape(obj, new)
  PROVE  FreeEntries' /\ YoungOnes' /\ OneCopy' /\ RootsKept'
<1>1. /\ obj \in Obj /\ new \in Obj /\ isalloc[obj]
      /\ origin[obj] = obj /\ origin'[new] = obj
      /\ \A o \in Obj \ {new} : slots'[o] = slots[o] /\ origin'[o] = origin[o]
      /\ \A o \in Obj \ {new, obj} : isalloc'[o] = isalloc[o] /\ isyoung'[o] = isyoung[o]
      /\ \A o \in Obj : isalloc[o] /\ isroot[o] => isalloc'[o] /\ isroot'[o]
      /\ UNCHANGED <<before, words, roots>>
      /\ free_entries' = free_entries \ {new}
  BY MoveOld DEF MoveShape, MoveHeap
<1>2. /\ \A o \in Obj : isyoung'[o] => isyoung[o] /\ o # obj /\ o # new
      /\ \A o \in Obj : isalloc'[o] /\ o # new => isalloc[o] /\ o # obj
      /\ \A o \in Obj : IsOld(o)' <=> IsOld(o) \/ o = new
      /\ new # obj => new \in free_entries /\ ~isalloc[new]
  BY MoveOld
<1>3. FreeEntries'
  <2>1. ASSUME NEW o \in free_entries'
        PROVE  ~isalloc'[o] /\ ~isyoung'[o] /\ ~IsMoved(o)'
    <3>1. o \in Obj /\ o \in free_entries /\ ~isalloc[o] /\ ~isyoung[o] /\ ~IsMoved(o) /\ o # new
      BY <1>1 DEF Moving, FreeEntries, EvacTypeOK
    <3>2. o # obj
      BY <1>1, <3>1
    <3>3. ~IsMoved(o)'
      BY <3>1, <3>2, MoveMoved
    <3> QED
      BY <1>1, <3>1, <3>2, <3>3
  <2>2. ASSUME NEW o \in Obj, NEW k \in DOMAIN before[o], before[o][k] # NULL
        PROVE  before[o][k] \notin free_entries' /\ origin'[before[o][k]] = before[o][k]
    <3>1. before[o] \in Seq(Obj \cup {NULL})
      BY DEF Moving, EvacTypeOK
    <3>2. before[o][k] \in Obj
      BY <2>2, <3>1, SeqIndices
    <3>3. before[o][k] \notin free_entries /\ origin[before[o][k]] = before[o][k]
      BY <2>2 DEF Moving, FreeEntries
    <3> QED
      BY <1>1, <1>2, <3>2, <3>3
  <2> QED
    BY <1>1, <2>1, <2>2 DEF FreeEntries
<1>4. YoungOnes'
  <2>1. ASSUME NEW o \in Obj, isyoung'[o]
        PROVE  isalloc'[o] /\ origin'[o] = o /\ slots'[o] = before'[o]
    BY <1>1, <1>2, <2>1 DEF Moving, YoungOnes
  <2>2. \A i \in DOMAIN pending_young' : isyoung'[pending_young'[i]]
    BY MovePending
  <2>3. Distinct(pending_young')
    BY MovePending
  <2>4. \A o \in Range(pending_young') : isyoung'[o]
    BY <2>2 DEF Range
  <2> QED
    BY <2>1, <2>3, <2>4 DEF YoungOnes, Distinct
<1>5. OneCopy'
  <2>1. ASSUME NEW p \in Obj, isalloc'[p], p # new PROVE origin'[p] # obj
    BY <1>1, <1>2, <2>1 DEF Moving, OneCopy
  <2>2. ASSUME NEW o \in Obj, NEW p \in Obj, isalloc'[o], isalloc'[p], origin'[o] = origin'[p]
        PROVE  o = p
    <3>1. CASE o = new \/ p = new
      BY <1>1, <2>1, <2>2, <3>1
    <3>2. CASE o # new /\ p # new
      BY <1>1, <1>2, <2>2, <3>2 DEF Moving, OneCopy
    <3> QED
      BY <3>1, <3>2
  <2> QED
    BY <2>2 DEF OneCopy
<1>6. RootsKept'
  <2>1. \A o : o \in RootObjs' <=> o \in ScannedObjs /\ isalloc'[o]
    BY <1>1 DEF RootObjs, ScannedObjs
  <2>2. \A o : o \in RootObjs <=> o \in ScannedObjs /\ isalloc[o]
    BY DEF RootObjs
  <2>3. ASSUME NEW o \in RootObjs'
        PROVE  IsOld(o)' \/ o \in Range(pending_young')
    <3>1. o \in Obj /\ isalloc'[o] /\ o \in ScannedObjs
      BY <2>1, ScannedType
    <3>2. CASE o = new
      BY <1>2, <3>1, <3>2
    <3>3. CASE o # new
      <4>1. o \in RootObjs /\ o # obj
        BY <1>2, <2>2, <3>1, <3>3
      <4>2. IsOld(o) \/ o \in Range(pending_young)
        BY <4>1 DEF Moving, RootsKept
      <4> QED
        BY <1>2, <3>1, <4>1, <4>2, MovePending
    <3> QED
      BY <3>2, <3>3
  <2>4. ASSUME NEW o \in Range(roots)
        PROVE  o \in RootObjs' /\ isroot'[o] /\ origin'[o] = o
    <3>1. o \in RootObjs /\ isroot[o] /\ origin[o] = o
      BY DEF Moving, RootsKept
    <3>2. o \in Obj /\ isalloc[o] /\ o \in ScannedObjs
      BY <2>2, <3>1, ScannedType
    <3>3. isalloc'[o] /\ isroot'[o]
      BY <1>1, <3>1, <3>2
    <3>4. origin'[o] = o
      BY <1>1, <1>2, <3>1, <3>2
    <3> QED
      BY <2>1, <3>1, <3>2, <3>3, <3>4
  <2>5. \A o \in RootObjs' : IsOld(o)' \/ o \in Range(pending_young')
    BY <2>3
  <2>6. \A o \in Range(roots') : o \in RootObjs' /\ isroot'[o] /\ origin'[o] = o
    BY <1>1, <2>4
  <2> QED
    BY <2>5, <2>6 DEF RootsKept, IsOld
<1> QED
  BY <1>3, <1>4, <1>5, <1>6

(* A count that grows by a number of slots is a natural number.            *)
LEMMA CountSlotsType ==
  ASSUME NEW counts \in [Obj -> Nat], NEW s \in Seq(Obj \cup {NULL})
  PROVE  CountSlots(counts, s) \in [Obj -> Nat]
<1>1. ASSUME NEW p \in Obj
      PROVE  counts[p] + Cardinality({k \in DOMAIN s : s[k] = p}) \in Nat
  <2>1. PICK n : n = Cardinality({k \in DOMAIN s : s[k] = p})
    OBVIOUS
  <2>2. n \in Nat
    BY <2>1, SlotsCounted
  <2>3. counts[p] \in Nat
    OBVIOUS
  <2>4. counts[p] + n \in Nat
    BY <2>2, <2>3
  <2> QED
    BY <2>1, <2>4
<1> QED
  BY <1>1 DEF CountSlots

(* Types. *)
LEMMA PromoteTypes ==
  ASSUME Moving, PromoteRoot
  PROVE  EvacTypeOK'
<1>1. PICK obj : obj = Head(pending_young)
  OBVIOUS
<1>2. pending_young # <<>> /\ pc = "processMarkedYoungObjects"
  BY DEF PromoteRoot
<1>3. obj \in Obj /\ Tail(pending_young) \in Seq(Obj)
  BY <1>1, <1>2, HeadFacts
<1>4. UpdatedSlots(slots[obj]) \in Seq(Obj \cup {NULL})
  BY <1>2, <1>3, UpdatedFacts
<1>5. HeapTypeOK
  BY DEF Moving, EvacTypeOK
<1>6. CountSlots(ref_count, UpdatedSlots(slots[obj])) \in [Obj -> Nat]
  BY <1>4, <1>5, CountSlotsType DEF HeapTypeOK
<1>7. /\ slots' = [slots EXCEPT ![obj] = UpdatedSlots(slots[obj])]
      /\ ref_count' = CountSlots(ref_count, UpdatedSlots(slots[obj]))
      /\ isyoung' = [isyoung EXCEPT ![obj] = FALSE]
      /\ pending_young' = Tail(pending_young)
      /\ UNCHANGED <<isalloc, ismarked, isroot, pc, forward_index, forward_table,
                     free_entries, origin, before>>
  BY <1>1 DEF PromoteRoot, historyVars
<1>8. slots' \in [Obj -> Seq(Obj \cup {NULL})]
  BY <1>4, <1>5, <1>7 DEF HeapTypeOK
<1>9. isyoung' \in [Obj -> BOOLEAN]
  BY <1>5, <1>7 DEF HeapTypeOK
<1>10. HeapTypeOK'
  BY <1>5, <1>6, <1>7, <1>8, <1>9 DEF HeapTypeOK
<1> QED
  BY <1>3, <1>7, <1>10 DEF Moving, EvacTypeOK

LEMMA EvacuateTypes ==
  ASSUME Moving, EvacuateObject
  PROVE  EvacTypeOK'
<1>1. PICK obj : obj = Head(pending_young)
  OBVIOUS
<1>2. pending_young # <<>> /\ pc = "processMarkedYoungObjects"
  BY DEF EvacuateObject
<1>3. obj \in Obj /\ Tail(pending_young) \in Seq(Obj)
  BY <1>1, <1>2, HeadFacts
<1>4. PICK ns : ns = UpdatedSlots(slots[obj])
  OBVIOUS
<1>5. ns \in Seq(Obj \cup {NULL})
  BY <1>2, <1>3, <1>4, UpdatedFacts
<1>6. PICK new \in free_entries :
        /\ free_entries' = free_entries \ {new}
        /\ slots' = [slots EXCEPT ![new] = ns]
        /\ isalloc' = [isalloc EXCEPT ![new] = TRUE, ![obj] = FALSE]
        /\ isyoung' = [isyoung EXCEPT ![new] = FALSE, ![obj] = FALSE]
        /\ ismarked' = [ismarked EXCEPT ![new] = FALSE, ![obj] = FALSE]
        /\ isroot' = [isroot EXCEPT ![new] = FALSE, ![obj] = FALSE]
        /\ ref_count' = [CountSlots([ref_count EXCEPT ![new] = 0], ns) EXCEPT ![obj] = 0]
        /\ forward_index' = [forward_index EXCEPT ![new] = MAX_FWD_INDEX,
                                                  ![obj] = Len(forward_table)]
        /\ forward_table' = Append(forward_table, new)
        /\ origin' = [origin EXCEPT ![new] = obj]
  BY <1>1, <1>4, Zenon DEF EvacuateObject
<1>7. /\ HeapTypeOK
      /\ origin \in [Obj -> Obj]
      /\ forward_index \in [Obj -> Nat \cup {MAX_FWD_INDEX}]
      /\ forward_table \in Seq(Obj)
      /\ new \in Obj
  BY DEF Moving, EvacTypeOK
<1>8. forward_table' \in Seq(Obj) /\ Len(forward_table) \in Nat
  BY <1>6, <1>7, AppendFacts, LenProperties
<1>9. slots' \in [Obj -> Seq(Obj \cup {NULL})]
  BY <1>5, <1>6, <1>7 DEF HeapTypeOK
<1>10. /\ isalloc' \in [Obj -> BOOLEAN]
       /\ isyoung' \in [Obj -> BOOLEAN]
       /\ ismarked' \in [Obj -> BOOLEAN]
       /\ isroot' \in [Obj -> BOOLEAN]
  BY <1>6, <1>7 DEF HeapTypeOK
<1>11. ref_count' \in [Obj -> Nat]
  <2>1. [ref_count EXCEPT ![new] = 0] \in [Obj -> Nat]
    BY <1>7 DEF HeapTypeOK
  <2>2. PICK counts \in [Obj -> Nat] : counts = [ref_count EXCEPT ![new] = 0]
    BY <2>1
  <2>3. PICK sums \in [Obj -> Nat] : sums = CountSlots(counts, ns)
    BY <1>5, CountSlotsType
  <2>4. ref_count' = [sums EXCEPT ![obj] = 0]
    BY <1>6, <2>2, <2>3
  <2> QED
    BY <2>4
<1>12. forward_index' \in [Obj -> Nat \cup {MAX_FWD_INDEX}]
  BY <1>6, <1>7, <1>8
<1>13. origin' \in [Obj -> Obj]
  BY <1>3, <1>6, <1>7
<1>14. HeapTypeOK'
  BY <1>9, <1>10, <1>11 DEF HeapTypeOK
<1>15. UNCHANGED <<pc, before>> /\ pending_young' = Tail(pending_young)
  BY DEF EvacuateObject
<1> QED
  BY <1>3, <1>6, <1>8, <1>12, <1>13, <1>14, <1>15 DEF Moving, EvacTypeOK

-----------------------------------------------------------------------------
(***************************************************************************)
(* One promotion where the marking order is topological.                   *)
(***************************************************************************)

(* The slots of the promoted object lead to old objects, each at the       *)
(* address of the object that the slot led to.                             *)
LEMMA NewSlots ==
  ASSUME Moving, Faithful, NEW obj, NEW new, MoveShape(obj, new)
  PROVE  /\ slots'[new] \in Seq(Obj \cup {NULL})
         /\ DOMAIN slots'[new] = DOMAIN before[obj]
         /\ \A k \in DOMAIN slots'[new] :
              IF before[obj][k] = NULL THEN slots'[new][k] = NULL
              ELSE /\ slots'[new][k] \in Obj /\ IsOld(slots'[new][k])
                   /\ origin[slots'[new][k]] = before[obj][k]
<1>1. /\ pc = "processMarkedYoungObjects"
      /\ obj \in Obj /\ before[obj] = slots[obj]
      /\ slots'[new] = UpdatedSlots(slots[obj])
  BY MoveOld DEF MoveShape, MoveHeap
<1>2. HeapTypeOK
  BY DEF Moving, EvacTypeOK
<1>3. /\ slots'[new] \in Seq(Obj \cup {NULL})
      /\ DOMAIN slots'[new] = DOMAIN before[obj]
      /\ \A k \in DOMAIN slots[obj] : /\ slots[obj][k] \in Obj \cup {NULL}
                                      /\ slots'[new][k] = Forward(slots[obj][k])
  BY <1>1, UpdatedFacts
<1>4. ASSUME NEW k \in DOMAIN slots[obj], slots[obj][k] # NULL
      PROVE  /\ slots'[new][k] \in Obj /\ IsOld(slots'[new][k])
             /\ origin[slots'[new][k]] = slots[obj][k]
  <2>1. PICK c \in Obj : c = slots[obj][k]
    BY <1>3, <1>4
  <2>2. c \in Children(obj)
    BY <1>1, <1>2, <1>4, <2>1, SlotType
  <2>3. IsOld(c) \/ IsMoved(c)
    <3>1. 1 \in DOMAIN pending_young /\ pending_young[1] = obj /\ DOMAIN pending_young \subseteq Nat \ {0}
      BY MovePending
    <3>2. \A j \in DOMAIN pending_young : ~(j < 1)
      BY <3>1
    <3> QED
      BY <1>1, <2>2, <3>1, <3>2 DEF Faithful, ChildrenReady
  <2>4. CASE IsMoved(c)
    <3>1. slots'[new][k] = NewAddress(c)
      BY <1>1, <1>3, <1>4, <2>1, <2>4, ForwardType
    <3>2. /\ forward_index[c] + 1 \in DOMAIN forward_table
          /\ IsOld(NewAddress(c)) /\ origin[NewAddress(c)] = c
      BY <1>1, <2>4 DEF Moving, Forwarding
    <3>3. NewAddress(c) \in Obj
      <4>1. forward_table \in Seq(Obj)
        BY DEF Moving, EvacTypeOK
      <4> QED
        BY <3>2, <4>1, SeqIndices DEF NewAddress
    <3> QED
      BY <2>1, <3>1, <3>2, <3>3
  <2>5. CASE ~IsMoved(c)
    <3>1. slots'[new][k] = c
      BY <1>1, <1>3, <1>4, <2>1, <2>5, ForwardType
    <3>2. origin[c] = c
      BY <1>1, <1>4, <2>1 DEF Moving, FreeEntries
    <3> QED
      BY <2>1, <2>3, <2>5, <3>1, <3>2
  <2> QED
    BY <2>4, <2>5
<1>5. ASSUME NEW k \in DOMAIN slots[obj], slots[obj][k] = NULL
      PROVE  slots'[new][k] = NULL
  BY <1>1, <1>3, <1>5, ForwardType
<1> QED
  BY <1>1, <1>3, <1>4, <1>5

(* Old objects still point to old objects only. *)
LEMMA OldClosedStep ==
  ASSUME Moving, Faithful, NEW obj, NEW new, MoveShape(obj, new)
  PROVE  OldClosed'
<1> SUFFICES ASSUME NEW o \in Obj, IsOld(o)', NEW c \in Children(o)'
             PROVE  IsOld(c)'
  BY DEF OldClosed
<1>1. /\ \A x \in Obj : IsOld(x)' <=> IsOld(x) \/ x = new
      /\ \A x \in Obj \ {new} : slots'[x] = slots[x]
  BY MoveOld DEF MoveShape, MoveHeap
<1>2. PICK k \in DOMAIN slots'[o] : slots'[o][k] = c /\ c # NULL
  BY DEF Children, Range
<1>3. CASE o = new
  <2>1. slots'[new][k] \in Obj /\ IsOld(slots'[new][k])
    BY <1>2, <1>3, NewSlots
  <2> QED
    BY <1>1, <1>2, <1>3, <2>1
<1>4. CASE o # new
  <2>1. IsOld(o) /\ c \in Children(o)
    BY <1>1, <1>2, <1>4 DEF Children, Range
  <2>2. c \in Obj
    BY <2>1, ChildrenType DEF Moving, EvacTypeOK
  <2>3. IsOld(c)
    BY <2>1 DEF Faithful, OldClosed
  <2> QED
    BY <1>1, <2>2, <2>3
<1> QED
  BY <1>3, <1>4

(* Slots still lead where they led. *)
LEMMA SameSlotsStep ==
  ASSUME Moving, Faithful, NEW obj, NEW new, MoveShape(obj, new)
  PROVE  SameSlots'
<1>1. /\ obj \in Obj /\ new \in Obj /\ ~IsOld(new)
      /\ origin[obj] = obj /\ origin'[new] = obj
      /\ \A o \in Obj \ {new} : slots'[o] = slots[o] /\ origin'[o] = origin[o]
      /\ \A o \in Obj : isalloc'[o] /\ o # new => isalloc[o] /\ o # obj
      /\ before' = before
      /\ new # obj => new \in free_entries
  BY MoveOld DEF MoveShape, MoveHeap
<1>2. ASSUME NEW k \in DOMAIN slots'[new]
      PROVE  Same(slots[new][k])' = before[obj][k]
  <2>1. CASE before[obj][k] = NULL
    <3>1. slots'[new][k] = NULL
      BY <2>1, NewSlots
    <3> QED
      BY <2>1, <3>1 DEF Same
  <2>2. CASE before[obj][k] # NULL
    <3>1. /\ slots'[new][k] \in Obj /\ IsOld(slots'[new][k])
          /\ origin[slots'[new][k]] = before[obj][k]
      BY <2>2, NewSlots
    <3>2. slots'[new][k] # new /\ slots'[new][k] # NULL
      BY <1>1, <3>1, NullAssumption
    <3> QED
      BY <1>1, <3>1, <3>2 DEF Same
  <2> QED
    BY <2>1, <2>2
<1>3. ASSUME NEW o \in Obj, o # new, isalloc'[o], NEW k \in DOMAIN slots[o]
      PROVE  Same(slots[o][k])' = before[origin[o]][k]
  <2>1. isalloc[o] /\ o # obj
    BY <1>1, <1>3
  <2>2. Same(slots[o][k]) = before[origin[o]][k]
    BY <1>3, <2>1 DEF Faithful, SameSlots
  <2>3. PICK c \in Obj \cup {NULL} : c = slots[o][k]
    BY <1>3, SlotType DEF Moving, EvacTypeOK
  <2>4. c # NULL => origin'[c] = origin[c]
    <3>1. SUFFICES ASSUME c = new, new # obj PROVE FALSE
      <4>1. c # NULL /\ c # new => origin'[c] = origin[c]
        BY <1>1, <2>3
      <4>2. new = obj => origin'[new] = origin[new]
        BY <1>1
      <4> QED
        BY <4>1, <4>2
    <3>2. c \in Children(o) /\ c \in Obj
      <4>1. HeapTypeOK
        BY DEF Moving, EvacTypeOK
      <4>2. c \in Obj /\ c # NULL
        BY <1>1, <3>1, NullAssumption
      <4>3. slots[o][k] # NULL => slots[o][k] \in Children(o)
        BY <1>3, <4>1, SlotType
      <4> QED
        BY <2>3, <4>2, <4>3
    <3>3. CASE IsOld(o)
      BY <1>1, <3>1, <3>2, <3>3 DEF Faithful, OldClosed
    <3>4. CASE ~IsOld(o)
      <4>1. slots[o] = before[o]
        BY <2>1, <3>4 DEF IsOld, Moving, YoungOnes
      <4>2. c # NULL
        BY <3>2, NullAssumption
      <4>3. c \notin free_entries
        BY <1>3, <2>3, <4>1, <4>2 DEF Moving, FreeEntries
      <4> QED
        BY <1>1, <3>1, <4>3
    <3> QED
      BY <3>3, <3>4
  <2>5. slots'[o][k] = c
    BY <1>1, <1>3, <2>3
  <2> QED
    BY <2>2, <2>3, <2>4, <2>5 DEF Same
<1>4. ASSUME NEW o \in Obj, isalloc'[o]
      PROVE  /\ DOMAIN slots'[o] = DOMAIN before'[origin'[o]]
             /\ \A k \in DOMAIN slots'[o] : Same(slots[o][k])' = before'[origin'[o]][k]
  <2>1. CASE o = new
    BY <1>1, <1>2, <2>1, NewSlots
  <2>2. CASE o # new
    <3>1. isalloc[o] /\ slots'[o] = slots[o] /\ origin'[o] = origin[o]
      BY <1>1, <1>4, <2>2
    <3>2. DOMAIN slots[o] = DOMAIN before[origin[o]]
      BY <3>1 DEF Faithful, SameSlots
    <3> QED
      BY <1>1, <1>3, <1>4, <2>2, <3>1, <3>2
  <2> QED
    BY <2>1, <2>2
<1> QED
  BY <1>4 DEF SameSlots, Same

(* The children of what is left are ready for it. *)
LEMMA ChildrenReadyStep ==
  ASSUME Moving, Faithful, NEW obj, NEW new, MoveShape(obj, new)
  PROVE  ChildrenReady'
<1>1. /\ \A x \in Obj : IsOld(x)' <=> IsOld(x) \/ x = new
      /\ \A x \in Obj \ {new} : slots'[x] = slots[x]
      /\ pc = "processMarkedYoungObjects"
      /\ obj \in Obj /\ new \in Obj
  BY MoveOld DEF MoveShape, MoveHeap
<1>2. IsOld(obj)' \/ IsMoved(obj)'
  <2>1. CASE new = obj
    BY <1>1, <2>1
  <2>2. CASE new # obj
    <3>1. forward_index'[obj] = Len(forward_table) /\ forward_table \in Seq(Obj)
      BY <2>2 DEF MoveShape, MoveForward, Moving, EvacTypeOK
    <3>2. forward_index'[obj] # MAX_FWD_INDEX
      BY <3>1, LenProperties, FwdAssumption
    <3> QED
      BY <3>2 DEF IsMoved
  <2> QED
    BY <2>1, <2>2
<1>3. ASSUME NEW i \in DOMAIN pending_young', NEW c \in Children(pending_young[i])'
      PROVE  \/ IsOld(c)' \/ IsMoved(c)'
             \/ \E j \in DOMAIN pending_young' : j < i /\ pending_young'[j] = c
  <2>1. PICK o : o = pending_young'[i]
    OBVIOUS
  <2>2. /\ o \in Obj /\ o # new /\ i \in Nat \ {0}
        /\ i + 1 \in DOMAIN pending_young /\ pending_young[i + 1] = o
    BY <2>1, MovePending
  <2>3. c \in Children(o) /\ c \in Obj
    <3>1. c \in Children(o)
      BY <1>1, <2>1, <2>2 DEF Children
    <3> QED
      BY <2>2, <3>1, ChildrenType DEF Moving, EvacTypeOK
  <2>4. CASE IsOld(c) \/ IsMoved(c)
    BY <1>1, <2>3, <2>4, MoveMoved
  <2>5. CASE \E j \in DOMAIN pending_young : j < i + 1 /\ pending_young[j] = c
    <3>1. PICK j \in DOMAIN pending_young : j < i + 1 /\ pending_young[j] = c
      BY <2>5
    <3>2. j \in Nat \ {0} /\ pending_young[1] = obj
      BY MovePending
    <3>3. CASE j = 1
      BY <1>2, <3>1, <3>2, <3>3
    <3>4. CASE j > 1
      <4>1. j - 1 \in DOMAIN pending_young' /\ pending_young'[j - 1] = c
        BY <3>1, <3>4, MovePending
      <4>2. j - 1 < i
        BY <2>2, <3>1, <3>2
      <4> QED
        BY <4>1, <4>2
    <3> QED
      BY <3>2, <3>3, <3>4
  <2> QED
    BY <1>1, <2>2, <2>3, <2>4, <2>5 DEF Faithful, ChildrenReady
<1> QED
  BY <1>3 DEF ChildrenReady, Children, IsOld, IsMoved

(* The references to p once new is old: those of before, and those of the  *)
(* slots of new.                                                           *)
LEMMA MoveRefs ==
  ASSUME Moving, Faithful, NEW obj, NEW new, MoveShape(obj, new), NEW p \in Obj
  PROVE  /\ Cardinality(RefsTo(p)) \in Nat
         /\ Cardinality(SlotsTo(new, p)') \in Nat
         /\ Cardinality(RefsTo(p)') = Cardinality(RefsTo(p)) + Cardinality(SlotsTo(new, p)')
<1>1. /\ new \in Obj /\ ~IsOld(new)
      /\ \A x \in Obj : IsOld(x)' <=> IsOld(x) \/ x = new
      /\ \A x \in Obj \ {new} : slots'[x] = slots[x]
  BY MoveOld DEF MoveShape, MoveHeap
<1>2. PICK R : R = RefsTo(p)
  OBVIOUS
<1>3. PICK K : K = SlotsTo(new, p)'
  OBVIOUS
<1>4. IsFiniteSet(R) /\ Cardinality(R) \in Nat
  <2>1. IsFiniteSet(R)
    BY <1>2, RefsFinite DEF Moving, EvacTypeOK
  <2> QED
    BY <2>1, FS_CardinalityType
<1>5. IsFiniteSet(K) /\ Cardinality(K) \in Nat
  <2>1. PICK s \in Seq(Obj \cup {NULL}) : s = slots'[new]
    BY NewSlots
  <2>2. K = {k \in DOMAIN s : s[k] = p}
    BY <1>3, <2>1 DEF SlotsTo
  <2> QED
    BY <2>2, SlotsCounted
<1>6. IsFiniteSet({new} \X K) /\ Cardinality({new} \X K) = Cardinality(K)
  <2>1. IsFiniteSet({new}) /\ Cardinality({new}) = 1
    BY FS_Singleton
  <2>2. /\ IsFiniteSet({new} \X K)
        /\ Cardinality({new} \X K) = Cardinality({new}) * Cardinality(K)
    BY <1>5, <2>1, FS_Product
  <2>3. Cardinality({new} \X K) = 1 * Cardinality(K)
    BY <2>1, <2>2, Zenon
  <2> QED
    BY <1>5, <2>2, <2>3
<1>7. R \cap ({new} \X K) = {}
  <2>1. \A o, k : <<o, k>> \in R => IsOld(o)
    BY <1>2, RefsElement
  <2> QED
    BY <1>1, <2>1
<1>8. RefsTo(p)' = R \cup ({new} \X K)
  <2>1. \A o, k : <<o, k>> \in RefsTo(p)' <=>
          o \in Obj /\ IsOld(o)' /\ k \in DOMAIN slots'[o] /\ slots'[o][k] = p
    BY DEF RefsTo, IsOld
  <2>2. \A r \in RefsTo(p)' : r = <<r[1], r[2]>>
    BY DEF RefsTo
  <2>3. /\ \A o, k : <<o, k>> \in R <=>
             o \in Obj /\ IsOld(o) /\ k \in DOMAIN slots[o] /\ slots[o][k] = p
        /\ \A r \in R : r = <<r[1], r[2]>>
    BY <1>2, RefsElement
  <2>4. \A k : k \in K <=> k \in DOMAIN slots'[new] /\ slots'[new][k] = p
    BY <1>3 DEF SlotsTo
  <2>5. PICK Q : Q = RefsTo(p)'
    OBVIOUS
  <2>6. PICK T : T = R \cup ({new} \X K)
    OBVIOUS
  <2>7. \A r \in T : r = <<r[1], r[2]>>
    <3>1. \A r \in {new} \X K : r = <<r[1], r[2]>>
      OBVIOUS
    <3> QED
      BY <2>3, <2>6, <3>1
  <2>8. \A o, k : <<o, k>> \in T <=> <<o, k>> \in R \/ (o = new /\ k \in K)
    BY <2>6
  <2>9. ASSUME NEW o, NEW k
        PROVE  <<o, k>> \in Q <=> <<o, k>> \in T
    <3>1. CASE o = new
      <4>1. <<o, k>> \in Q <=> k \in DOMAIN slots'[new] /\ slots'[new][k] = p
        BY <1>1, <2>1, <2>5, <3>1
      <4>2. <<o, k>> \notin R
        BY <1>1, <2>3, <3>1
      <4> QED
        BY <2>4, <2>8, <3>1, <4>1, <4>2
    <3>2. CASE o # new
      <4>1. <<o, k>> \in Q <=> o \in Obj /\ IsOld(o) /\ k \in DOMAIN slots[o] /\ slots[o][k] = p
        BY <1>1, <2>1, <2>5, <3>2
      <4>2. <<o, k>> \in T <=> <<o, k>> \in R
        BY <2>8, <3>2
      <4> QED
        BY <2>3, <4>1, <4>2
    <3> QED
      BY <3>1, <3>2
  <2>10. Q = T
    BY <2>2, <2>5, <2>7, <2>9, SamePairs
  <2> QED
    BY <2>5, <2>6, <2>10
<1>9. Cardinality(R \cup ({new} \X K))
        = Cardinality(R) + Cardinality({new} \X K) - Cardinality(R \cap ({new} \X K))
  BY <1>4, <1>6, FS_Union
<1>10. Cardinality(R \cap ({new} \X K)) = 0
  BY <1>7, FS_EmptySet
<1>11. Cardinality(RefsTo(p)') = Cardinality(R) + Cardinality(K)
  <2>1. PICK n \in Nat : n = Cardinality(R)
    BY <1>4
  <2>2. PICK m \in Nat : m = Cardinality(K)
    BY <1>5
  <2>3. Cardinality(RefsTo(p)') = n + m - 0
    BY <1>6, <1>8, <1>9, <1>10, <2>1, <2>2
  <2> QED
    BY <2>1, <2>2, <2>3
<1> QED
  BY <1>2, <1>3, <1>4, <1>5, <1>11, Zenon

(* The counts stay right. *)
LEMMA AllCountsStep ==
  ASSUME Moving, Faithful, NEW obj, NEW new, MoveShape(obj, new)
  PROVE  AllCounts'
<1> SUFFICES ASSUME NEW p \in Obj
             PROVE  ref_count'[p] = Cardinality(RefsTo(p)')
  BY DEF AllCounts
<1>1. /\ obj \in Obj /\ new \in Obj /\ ~IsOld(obj) /\ ~IsOld(new)
      /\ HeapTypeOK /\ OldClosed /\ AllCounts
  BY MoveOld DEF Moving, EvacTypeOK, Faithful
<1>2. ref_count[p] = Cardinality(RefsTo(p))
  BY <1>1 DEF AllCounts
<1>3. PICK n \in Nat : n = Cardinality(RefsTo(p))
  BY MoveRefs
<1>4. PICK m \in Nat : m = Cardinality(SlotsTo(new, p)')
  BY MoveRefs
<1>5. Cardinality(RefsTo(p)') = n + m
  BY <1>3, <1>4, MoveRefs
<1>6. CASE p = obj /\ new # obj
  <2>1. ref_count'[p] = 0
    BY <1>6 DEF MoveShape, MoveCounts
  <2>2. n = 0
    BY <1>1, <1>3, <1>6, NoRefs
  <2>3. m = 0
    <3>1. \A k \in DOMAIN slots'[new] : slots'[new][k] # obj
      <4> SUFFICES ASSUME NEW k \in DOMAIN slots'[new], slots'[new][k] = obj
                   PROVE  FALSE
        OBVIOUS
      <4>1. slots'[new][k] = NULL \/ IsOld(slots'[new][k])
        BY NewSlots
      <4> QED
        BY <1>1, <4>1, NullAssumption
    <3>2. SlotsTo(new, p)' = {}
      BY <1>6, <3>1 DEF SlotsTo
    <3> QED
      BY <1>4, <3>2, FS_EmptySet
  <2> QED
    BY <1>5, <2>1, <2>2, <2>3
<1>7. CASE p = new /\ new # obj
  <2>1. ref_count'[p] = m
    BY <1>4, <1>7 DEF MoveShape, MoveCounts
  <2>2. n = 0
    BY <1>1, <1>3, <1>7, NoRefs
  <2> QED
    BY <1>5, <2>1, <2>2
<1>8. CASE ~(p = obj /\ new # obj) /\ ~(p = new /\ new # obj)
  <2>1. ref_count'[p] = ref_count[p] + m
    BY <1>4, <1>8 DEF MoveShape, MoveCounts
  <2> QED
    BY <1>2, <1>3, <1>5, <2>1
<1> QED
  BY <1>6, <1>7, <1>8

-----------------------------------------------------------------------------
(***************************************************************************)
(* The invariants are inductive.                                           *)
(***************************************************************************)

(* The loop of evacuation, one action at a time. *)
LEMMA EvacIStep == EvacIInv /\ [EvacNext]_allVars => EvacIInv'
<1> SUFFICES ASSUME EvacIInv, [EvacNext]_allVars
             PROVE  EvacIInv'
  OBVIOUS
<1>0. WalkPhases \cap EvacPhases = {}
  BY DEF WalkPhases, EvacPhases
<1>1. CASE MarkingNext /\ UNCHANGED evacVars
  <2>1. pc \in WalkPhases /\ pc' \in WalkPhases /\ Before'
    BY <1>1, WalkFrame DEF EvacIInv
  <2>2. IInv /\ OrderInv /\ [Next]_vars
    BY <1>1, <2>1 DEF EvacIInv, Next
  <2>3. IInv' /\ OrderInv'
    BY <2>2, StepIInv, OrderStep
  <2> QED
    BY <1>0, <2>1, <2>3 DEF EvacIInv
<1>2. CASE CallProcessMarkedYoungObjects
  <2>1. /\ pc = "marked" /\ pc' = "processMarkedYoungObjects"
        /\ UNCHANGED <<isalloc, isyoung, ismarked, isroot, ref_count, slots, words, roots,
                       pending_young, forward_index, forward_table, free_entries, origin,
                       before>>
    BY <1>2 DEF CallProcessMarkedYoungObjects, heapVars, evacVars, historyVars
  <2>2. IInv /\ OrderInv /\ Before
    BY <2>1 DEF EvacIInv, WalkPhases
  <2>3. /\ FreeEntries /\ YoungOnes /\ OneCopy /\ RootsKept
        /\ \A o \in Obj : ~IsMoved(o)
        /\ forward_index \in [Obj -> Nat \cup {MAX_FWD_INDEX}]
        /\ forward_table \in Seq(Obj)
        /\ origin \in [Obj -> Obj]
        /\ before \in [Obj -> Seq(Obj \cup {NULL})]
    BY <2>1, <2>2, MarkedState
  <2>4. EvacTypeOK'
    <3>1. HeapTypeOK' /\ pending_young \in Seq(Obj)
      BY <2>1, <2>2 DEF IInv, TypeOK, HeapTypeOK
    <3>2. free_entries \in SUBSET Obj
      BY <2>2 DEF Before
    <3> QED
      BY <2>1, <2>3, <3>1, <3>2 DEF EvacTypeOK, EvacPhases
  <2>5. FreeEntries' /\ YoungOnes' /\ OneCopy' /\ Forwarding'
    BY <2>1, <2>3 DEF FreeEntries, YoungOnes, OneCopy, Forwarding, IsMoved, Distinct
  <2>6. RootsKept'
    BY <2>1, <2>3 DEF RootsKept, RootObjs, ScannedObjs, IsOld
  <2> QED
    BY <1>0, <2>1, <2>4, <2>5, <2>6 DEF EvacIInv, Moving, EvacPhases
<1>3. CASE PromoteRoot \/ EvacuateObject
  <2>1. pc = "processMarkedYoungObjects" /\ pc' = pc
    BY <1>3 DEF PromoteRoot, EvacuateObject
  <2>2. Moving
    BY <2>1 DEF EvacIInv, EvacPhases
  <2>3. PICK obj, new : MoveShape(obj, new)
    BY <1>3, <2>2, PromoteShape, EvacuateShape
  <2>4. EvacTypeOK'
    BY <1>3, <2>2, PromoteTypes, EvacuateTypes
  <2>5. FreeEntries' /\ YoungOnes' /\ OneCopy' /\ RootsKept' /\ Forwarding'
    BY <2>2, <2>3, MoveKeeps, MoveMoved
  <2> QED
    BY <1>0, <2>1, <2>4, <2>5 DEF EvacIInv, Moving, EvacPhases
<1>4. CASE EndEvacuation
  <2>1. /\ pc = "processMarkedYoungObjects" /\ pc' = "evacuated"
        /\ pending_young = <<>> /\ forward_table' = <<>>
        /\ UNCHANGED <<isalloc, isyoung, ismarked, isroot, ref_count, slots, words, roots,
                       pending_young, forward_index, free_entries, origin, before>>
    BY <1>4 DEF EndEvacuation, heapVars, historyVars
  <2>2. Moving
    BY <2>1 DEF EvacIInv, EvacPhases
  <2>3. EvacTypeOK'
    BY <2>1, <2>2 DEF Moving, EvacTypeOK, HeapTypeOK, EvacPhases
  <2>4. FreeEntries' /\ YoungOnes' /\ OneCopy' /\ Forwarding'
    BY <2>1, <2>2 DEF Moving, FreeEntries, YoungOnes, OneCopy, Forwarding, IsMoved, Distinct
  <2>5. RootsKept'
    BY <2>1, <2>2 DEF Moving, RootsKept, RootObjs, ScannedObjs, IsOld
  <2> QED
    BY <1>0, <2>1, <2>3, <2>4, <2>5 DEF EvacIInv, Moving, EvacPhases
<1>5. CASE UNCHANGED allVars
  <2>1. UNCHANGED <<vars, pc, isalloc, isyoung, ismarked, isroot, ref_count, slots, words,
                    roots, pending_young, forward_index, forward_table, free_entries,
                    origin, before>>
    BY <1>5 DEF allVars, vars, heapVars, walkVars, evacVars, historyVars
  <2>2. CASE pc \in WalkPhases
    <3>1. IInv' /\ OrderInv'
      BY <2>1, <2>2, StepIInv, OrderStep DEF EvacIInv
    <3>2. Before'
      <4>1. CountsExact => CountsExact'
        BY <2>1 DEF CountsExact, RefsTo, IsOld
      <4>2. StartEvacuation => StartEvacuation'
        BY <2>1, <4>1 DEF StartEvacuation, IsOld
      <4> QED
        BY <2>1, <2>2, <4>2 DEF EvacIInv, Before, Children
    <3> QED
      BY <1>0, <2>1, <2>2, <3>1, <3>2 DEF EvacIInv
  <2>3. CASE pc \in EvacPhases
    <3>1. Moving
      BY <2>3 DEF EvacIInv
    <3>2. EvacTypeOK'
      BY <2>1, <3>1 DEF Moving, EvacTypeOK, HeapTypeOK
    <3>3. FreeEntries' /\ YoungOnes' /\ OneCopy'
      BY <2>1, <3>1 DEF Moving, FreeEntries, YoungOnes, OneCopy, IsMoved, Distinct
    <3>4. Forwarding'
      BY <2>1, <3>1 DEF Moving, Forwarding, IsMoved, NewAddress, IsOld
    <3>5. RootsKept'
      BY <2>1, <3>1 DEF Moving, RootsKept, RootObjs, ScannedObjs, IsOld
    <3> QED
      BY <1>0, <2>1, <2>3, <3>1, <3>2, <3>3, <3>4, <3>5 DEF EvacIInv, Moving
  <2> QED
    BY <2>2, <2>3 DEF EvacIInv
<1> QED
  BY <1>1, <1>2, <1>3, <1>4, <1>5 DEF EvacNext, Evacuate

(* The slots and the counts, one action at a time. *)
LEMMA FaithfulStep == EvacIInv /\ FaithfulInv /\ [EvacNext]_allVars => FaithfulInv'
<1> SUFFICES ASSUME EvacIInv, FaithfulInv, [EvacNext]_allVars
             PROVE  FaithfulInv'
  OBVIOUS
<1>0. WalkPhases \cap EvacPhases = {}
  BY DEF WalkPhases, EvacPhases
<1>1. CASE MarkingNext /\ UNCHANGED evacVars
  <2>1. pc \in WalkPhases /\ pc' \in WalkPhases
    BY <1>1, WalkFrame
  <2>2. NoShortcut'
    BY <1>1, <2>1, WalkFrame DEF FaithfulInv
  <2> QED
    BY <1>0, <2>1, <2>2 DEF FaithfulInv
<1>2. CASE CallProcessMarkedYoungObjects
  <2>1. /\ pc = "marked" /\ pc' = "processMarkedYoungObjects"
        /\ UNCHANGED <<isalloc, isyoung, ref_count, slots, pending_young, forward_index,
                       origin, before>>
    BY <1>2 DEF CallProcessMarkedYoungObjects, heapVars, evacVars, historyVars
  <2>2. IInv /\ OrderInv /\ Before /\ NoShortcut
    BY <2>1 DEF EvacIInv, FaithfulInv, WalkPhases
  <2>3. /\ OldClosed /\ SameSlots /\ AllCounts
        /\ \A i \in DOMAIN pending_young : \A c \in Children(pending_young[i]) :
             IsOld(c) \/ \E j \in DOMAIN pending_young : j < i /\ pending_young[j] = c
    BY <2>1, <2>2, MarkedFaithful
  <2>4. OldClosed' /\ SameSlots' /\ ChildrenReady'
    BY <2>1, <2>3 DEF OldClosed, SameSlots, Same, ChildrenReady, IsOld, Children
  <2>5. AllCounts'
    BY <2>1, <2>3 DEF AllCounts, RefsTo, IsOld
  <2> QED
    BY <1>0, <2>1, <2>4, <2>5 DEF FaithfulInv, Faithful, EvacPhases
<1>3. CASE PromoteRoot \/ EvacuateObject
  <2>1. pc = "processMarkedYoungObjects" /\ pc' = pc
    BY <1>3 DEF PromoteRoot, EvacuateObject
  <2>2. Moving /\ Faithful
    BY <2>1 DEF EvacIInv, FaithfulInv, EvacPhases
  <2>3. PICK obj, new : MoveShape(obj, new)
    BY <1>3, <2>2, PromoteShape, EvacuateShape
  <2>4. OldClosed' /\ SameSlots' /\ ChildrenReady' /\ AllCounts'
    BY <2>2, <2>3, OldClosedStep, SameSlotsStep, ChildrenReadyStep, AllCountsStep
  <2> QED
    BY <1>0, <2>1, <2>4 DEF FaithfulInv, Faithful, EvacPhases
<1>4. CASE EndEvacuation
  <2>1. /\ pc = "processMarkedYoungObjects" /\ pc' = "evacuated"
        /\ UNCHANGED <<isalloc, isyoung, ref_count, slots, origin, before>>
    BY <1>4 DEF EndEvacuation, heapVars, historyVars
  <2>2. Faithful
    BY <2>1 DEF FaithfulInv, EvacPhases
  <2>3. OldClosed' /\ SameSlots' /\ ChildrenReady'
    BY <2>1, <2>2 DEF Faithful, OldClosed, SameSlots, Same, ChildrenReady, IsOld, Children
  <2>4. AllCounts'
    BY <2>1, <2>2 DEF Faithful, AllCounts, RefsTo, IsOld
  <2> QED
    BY <1>0, <2>1, <2>3, <2>4 DEF FaithfulInv, Faithful, EvacPhases
<1>5. CASE UNCHANGED allVars
  <2>1. UNCHANGED <<pc, isalloc, isyoung, ref_count, slots, pending_young, forward_index,
                    origin, before>>
    BY <1>5 DEF allVars, vars, heapVars, walkVars, evacVars, historyVars
  <2>2. NoShortcut => NoShortcut'
    BY <2>1 DEF NoShortcut, ReachableFrom, Closed, Children
  <2>3. Faithful => OldClosed' /\ SameSlots' /\ ChildrenReady'
    BY <2>1 DEF Faithful, OldClosed, SameSlots, Same, ChildrenReady, IsOld, IsMoved, Children
  <2>4. Faithful => AllCounts'
    BY <2>1 DEF Faithful, AllCounts, RefsTo, IsOld
  <2> QED
    BY <2>1, <2>2, <2>3, <2>4 DEF FaithfulInv, Faithful
<1> QED
  BY <1>1, <1>2, <1>3, <1>4, <1>5 DEF EvacNext, Evacuate

(* The first invariant holds on every heap. *)
THEOREM EvacInvariant == EvacSpec => []EvacIInv
BY InitEvac, EvacIStep, PTL DEF EvacSpec

(* The second as well, where the marking order is topological. *)
THEOREM FaithfulInvariant == EvacNoShortcutSpec => [](EvacIInv /\ FaithfulInv)
<1>1. EvacInit /\ NoShortcut => EvacIInv /\ FaithfulInv
  <2> SUFFICES ASSUME EvacInit, NoShortcut PROVE EvacIInv /\ FaithfulInv
    OBVIOUS
  <2>1. pc = "walkStack"
    BY DEF EvacInit, Init, StartWalk
  <2> QED
    BY <2>1, InitEvac DEF FaithfulInv, EvacPhases
<1> QED
  BY <1>1, EvacIStep, FaithfulStep, PTL DEF EvacNoShortcutSpec

(* Types: every variable keeps its type through marking and evacuation, on *)
(* heaps with shortcuts too.                                               *)
THEOREM EvacTypes == EvacSpec => []EvacTypeOK
<1>1. EvacIInv => EvacTypeOK
  <2> SUFFICES ASSUME EvacIInv PROVE EvacTypeOK
    OBVIOUS
  <2>1. CASE pc \in EvacPhases
    BY <2>1 DEF EvacIInv, Moving
  <2>2. CASE pc \in WalkPhases
    <3>1. /\ HeapTypeOK /\ pending_young \in Seq(Obj)
          /\ forward_index = [o \in Obj |-> MAX_FWD_INDEX]
          /\ forward_table = <<>>
          /\ free_entries \in SUBSET Obj
          /\ origin = [o \in Obj |-> o]
          /\ before = slots
      BY <2>2 DEF EvacIInv, IInv, TypeOK, Before, StartEvacuation
    <3>2. before \in [Obj -> Seq(Obj \cup {NULL})]
      BY <3>1 DEF HeapTypeOK
    <3>3. forward_index \in [Obj -> Nat \cup {MAX_FWD_INDEX}]
      BY <3>1
    <3>4. forward_table \in Seq(Obj)
      BY <3>1
    <3> QED
      BY <2>2, <3>1, <3>2, <3>3, <3>4 DEF EvacTypeOK
  <2> QED
    BY <2>1, <2>2 DEF EvacIInv
<1> QED
  BY <1>1, EvacInvariant, PTL

(* Counts: after every promotion the count of an old object is the number  *)
(* of old slots that lead to it (updatePointers, INC_REF_COUNT).           *)
THEOREM EvacCountsExact == EvacNoShortcutSpec => []RefCountsExact
<1>1. FaithfulInv => RefCountsExact
  BY DEF FaithfulInv, Faithful, AllCounts, RefCountsExact, CountsExact
<1> QED
  BY <1>1, FaithfulInvariant, PTL

(* Graph: once evacuation has ended the program finds the objects it held  *)
(* where they were, all it can reach is old, and every slot leads to the   *)
(* one copy of the object it led to (processMarkedYoungObjects).           *)
THEOREM EvacSameGraph == EvacNoShortcutSpec => []ProgramSeesSameGraph
<1>1. EvacIInv /\ FaithfulInv => ProgramSeesSameGraph
  <2> SUFFICES ASSUME EvacIInv, FaithfulInv, pc = "evacuated"
               PROVE  /\ \A o \in Range(roots) : IsOld(o) /\ origin[o] = o
                      /\ \A o \in Reachable :
                           /\ IsOld(o)
                           /\ DOMAIN slots[o] = DOMAIN before[origin[o]]
                           /\ \A k \in DOMAIN slots[o] :
                                Same(slots[o][k]) = before[origin[o]][k]
                      /\ \A o, p \in Reachable : origin[o] = origin[p] => o = p
    BY DEF ProgramSeesSameGraph
  <2>1. Moving /\ Faithful
    BY DEF EvacIInv, FaithfulInv, EvacPhases
  <2>2. Range(pending_young) = {}
    BY <2>1 DEF Moving, Range
  <2> DEFINE Old == {o \in Obj : IsOld(o)}
  <2>3. RootObjs \subseteq Old
    BY <2>1, <2>2, ScannedType DEF Moving, RootsKept
  <2>4. Closed(Old)
    <3> SUFFICES ASSUME NEW o \in Obj, IsOld(o), NEW c \in Children(o)
                 PROVE  c \in Obj /\ IsOld(c)
      BY DEF Closed
    <3>1. c \in Obj
      BY <2>1, ChildrenType DEF Moving, EvacTypeOK
    <3> QED
      BY <2>1, <3>1 DEF Faithful, OldClosed
  <2>5. Reachable \subseteq Old
    BY <2>3, <2>4, ReachableLeast DEF Reachable
  <2>6. \A o \in Reachable : o \in Obj /\ IsOld(o) /\ isalloc[o]
    BY <2>5 DEF IsOld
  <2>7. \A o \in Range(roots) : IsOld(o) /\ origin[o] = o
    BY <2>1, <2>3 DEF Moving, RootsKept
  <2>8. \A o \in Reachable :
          /\ DOMAIN slots[o] = DOMAIN before[origin[o]]
          /\ \A k \in DOMAIN slots[o] : Same(slots[o][k]) = before[origin[o]][k]
    BY <2>1, <2>6 DEF Faithful, SameSlots
  <2>9. \A o, p \in Reachable : origin[o] = origin[p] => o = p
    BY <2>1, <2>6 DEF Moving, OneCopy
  <2> QED
    BY <2>6, <2>7, <2>8, <2>9
<1> QED
  BY <1>1, FaithfulInvariant, PTL
=============================================================================
