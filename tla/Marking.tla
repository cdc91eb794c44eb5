------------------------------- MODULE Marking -------------------------------
(***************************************************************************)
(* The marking phase of collect() in src/runtime/memory/gc.cpp:            *)
(* markingWalk, which scans the globals, the native stack and the          *)
(* registers for potential pointers (walkStack, checkPotentialPtr) and     *)
(* then visits the young objects below every root depth first with an      *)
(* explicit stack (walkSingleRoot).  One action per loop iteration.        *)
(*                                                                         *)
(* Each visited object is appended to pending_young when the walk leaves   *)
(* it; the next phase (module Evacuation) processes that list in order.    *)
(***************************************************************************)
EXTENDS Heap

CONSTANTS
  Word,         \* the machine words a scan can read
  InPageTable,  \* the words that point into a page of the GC
  InHeader,     \* those that point at the page or into its PageInfo header
  EntryOf       \* EntryOf[w]: the object of the entry that w falls into

ASSUME WordAssumption ==
  /\ InPageTable \subseteq Word
  /\ InHeader \subseteq Word
  /\ EntryOf \in [Word -> Obj]

VARIABLES
  words,          \* globals, then stack, then registers, as walkStack reads them
  nword,          \* the index in words of the next word to check
  pending_roots,  \* young roots still to be visited, first in first out
  visit_stack,    \* the stack of the depth-first visit; its top is its end
  pending_young,  \* the marked young objects, in the order the walk left them
  cur,            \* the object whose slots are being visited, or NULL
  slot            \* the index in slots[cur] of the next slot to visit

walkVars == <<words, nword, pending_roots, visit_stack, pending_young, cur,
              slot>>
vars == <<heapVars, roots, pc, walkVars>>

Grey  == "grey"
Black == "black"
Entry == [obj : Obj, color : {Grey, Black}]

WalkPhases == {"walkStack", "markingWalk", "walkSingleRoot", "marked"}

TypeOK ==
  /\ HeapTypeOK
  /\ pc \in WalkPhases
  /\ words \in Seq(Word)
  /\ nword \in 1..(Len(words) + 1)
  /\ roots \in Seq(Obj)
  /\ pending_roots \in Seq(Obj)
  /\ visit_stack \in Seq(Entry)
  /\ pending_young \in Seq(Obj)
  /\ cur \in Obj \cup {NULL}
  /\ slot \in Nat \ {0}

(* What collect() finds when it calls markingWalk: its lists are empty. *)
StartWalk ==
  /\ pc = "walkStack"
  /\ nword = 1
  /\ roots = <<>>
  /\ pending_roots = <<>>
  /\ visit_stack = <<>>
  /\ pending_young = <<>>
  /\ cur = NULL
  /\ slot = 1

Init == HeapTypeOK /\ Quiescent /\ words \in Seq(Word) /\ StartWalk

(***************************************************************************)
(* The tests of the metadata that guard the walk (macros of common.h).     *)
(***************************************************************************)

(* Variants that properties must tell from the code: a guard without its   *)
(* second test, and a guard on visits that leaves roots out.               *)
ProcessAsRootAgain(o) == isalloc[o]
VisitAgain(o)         == isyoung[o]
VisitNonRoot(o)       == isyoung[o] /\ ~ismarked[o] /\ ~isroot[o]

ShouldProcessAsRoot(o) == isalloc[o] /\ ~isroot[o]
ShouldVisit(o)         == isyoung[o] /\ ~ismarked[o]

PushGrey(stack, o)  == Append(stack, [obj |-> o, color |-> Grey])

(* Variants: the object goes to the wrong end of the list, or is not black. *)
PushBlackInFront(stack, o) == <<[obj |-> o, color |-> Black]>> \o stack
PushGreyAgain(stack, o)    == PushGrey(stack, o)

PushBlack(stack, o) == Append(stack, [obj |-> o, color |-> Black])
Top(stack)          == stack[Len(stack)]
PopBack(stack)      == SubSeq(stack, 1, Len(stack) - 1)

(***************************************************************************)
(* The scan.  A word counts if its page is in the page table and it does   *)
(* not fall into the page's header; it then stands for the entry it falls  *)
(* into, wherever in the entry it points (getObjectMetadataAligned).       *)
(***************************************************************************)
IsPotentialPtr(w) == w \in InPageTable /\ w \notin InHeader

(* The loops advance by one word; the variant skips one. *)
SkipWord == nword + 2
NextWord == nword + 1

IgnoreWord ==
  /\ pc = "walkStack"
  /\ nword <= Len(words)
  /\ ~ (/\ IsPotentialPtr(words[nword])
        /\ ShouldProcessAsRoot(EntryOf[words[nword]]))
  /\ nword' = NextWord
  /\ UNCHANGED <<heapVars, pc, words, roots, pending_roots, visit_stack,
                 pending_young, cur, slot>>

FindRoot ==
  /\ pc = "walkStack"
  /\ nword <= Len(words)
  /\ IsPotentialPtr(words[nword])
  /\ LET o == EntryOf[words[nword]] IN
       /\ ShouldProcessAsRoot(o)
       /\ isroot' = [isroot EXCEPT ![o] = TRUE]
       /\ roots' = Append(roots, o)
       /\ pending_roots' = IF isyoung[o] THEN Append(pending_roots, o)
                                         ELSE pending_roots
  /\ nword' = NextWord
  /\ UNCHANGED <<isalloc, isyoung, ismarked, ref_count, slots, pc, words, visit_stack,
                 pending_young, cur, slot>>

EndWalkStack ==
  /\ pc = "walkStack"
  /\ nword > Len(words)
  /\ pc' = "markingWalk"
  /\ UNCHANGED <<heapVars, words, nword, roots, pending_roots, visit_stack,
                 pending_young, cur, slot>>

(***************************************************************************)
(* The loop of markingWalk over pending_roots.                             *)
(***************************************************************************)
TakeRoot ==
  /\ pc = "markingWalk"
  /\ pending_roots # <<>>
  /\ pending_roots' = Tail(pending_roots)
  /\ LET o == Head(pending_roots) IN
       \/ /\ ShouldVisit(o)
          /\ ismarked' = [ismarked EXCEPT ![o] = TRUE]
          /\ visit_stack' = PushGrey(visit_stack, o)
          /\ pc' = "walkSingleRoot"
       \/ /\ ~ShouldVisit(o)
          /\ UNCHANGED <<ismarked, visit_stack, pc>>
  /\ UNCHANGED <<isalloc, isyoung, isroot, ref_count, slots, words, nword, roots,
                 pending_young, cur, slot>>

EndMarkingWalk ==
  /\ pc = "markingWalk"
  /\ pending_roots = <<>>
  /\ pc' = "marked"
  /\ UNCHANGED <<heapVars, words, nword, roots, pending_roots, visit_stack,
                 pending_young, cur, slot>>

(***************************************************************************)
(* walkSingleRoot.  A leaf or black entry leaves the walk for              *)
(* pending_young; a grey one goes back on the stack as black, below the    *)
(* grey entries of those of its children that are not marked yet.          *)
(***************************************************************************)
IsLeaf(o) == slots[o] = <<>>

LeaveObject ==
  /\ pc = "walkSingleRoot" /\ cur = NULL /\ visit_stack # <<>>
  /\ LET entry == Top(visit_stack) IN
       /\ IsLeaf(entry.obj) \/ entry.color = Black
       /\ pending_young' = Append(pending_young, entry.obj)
  /\ visit_stack' = PopBack(visit_stack)
  /\ UNCHANGED <<heapVars, pc, words, nword, roots, pending_roots, cur, slot>>

EnterObject ==
  /\ pc = "walkSingleRoot" /\ cur = NULL /\ visit_stack # <<>>
  /\ LET entry == Top(visit_stack) IN
       /\ ~IsLeaf(entry.obj) /\ entry.color = Grey
       /\ visit_stack' = PushBlack(PopBack(visit_stack), entry.obj)
       /\ cur' = entry.obj
  /\ UNCHANGED <<heapVars, pc, words, nword, roots, pending_roots,
                 pending_young, slot>>

VisitSlot ==
  /\ pc = "walkSingleRoot" /\ cur # NULL
  /\ LET child == slots[cur][slot] IN
       \/ /\ child # NULL
          /\ ShouldVisit(child)
          /\ ismarked' = [ismarked EXCEPT ![child] = TRUE]
          /\ visit_stack' = PushGrey(visit_stack, child)
       \/ /\ ~(child # NULL /\ ShouldVisit(child))
          /\ UNCHANGED <<ismarked, visit_stack>>
  /\ IF slot < Len(slots[cur])
       THEN slot' = slot + 1 /\ cur' = cur
       ELSE slot' = 1 /\ cur' = NULL
  /\ UNCHANGED <<isalloc, isyoung, isroot, ref_count, slots, pc, words, nword, roots,
                 pending_roots, pending_young>>

EndSingleRoot ==
  /\ pc = "walkSingleRoot" /\ cur = NULL /\ visit_stack = <<>>
  /\ pc' = "markingWalk"
  /\ UNCHANGED <<heapVars, words, nword, roots, pending_roots, visit_stack,
                 pending_young, cur, slot>>

MarkingNext ==
  \/ IgnoreWord
  \/ FindRoot
  \/ EndWalkStack
  \/ TakeRoot
  \/ EndMarkingWalk
  \/ LeaveObject
  \/ EnterObject
  \/ VisitSlot
  \/ EndSingleRoot

(* The marking phase is over; module Evacuation continues from here. *)
Done == pc = "marked" /\ UNCHANGED vars

Next == MarkingNext \/ Done

(* One thread runs the phase to its end without waiting for anyone. *)
Spec == Init /\ [][Next]_vars /\ WF_vars(MarkingNext)

-----------------------------------------------------------------------------
(***************************************************************************)
(* Properties.                                                             *)
(***************************************************************************)

(* The objects that the words of the scan refer to. *)
ScannedObjs == {EntryOf[w] : w \in {v \in Range(words) : IsPotentialPtr(v)}}
RootObjs    == {o \in ScannedObjs : isalloc[o]}

(***************************************************************************)
(* The walk marks exactly the young objects that the program can still     *)
(* reach from a scanned word, through objects of any age: nothing live is  *)
(* missed although the walk never looks inside an old object, and nothing  *)
(* is retained without a path from a root (markingWalk, walkSingleRoot).   *)
(***************************************************************************)
MarkedExactlyLiveYoung ==
  pc = "marked" =>
    {o \in Obj : ismarked[o]} = {o \in ReachableFrom(RootObjs) : isyoung[o]}

(***************************************************************************)
(* The scan records every allocated object that some word falls into, once *)
(* however many words refer to it, and nothing for words outside the GC's  *)
(* pages, in a page header or in a free entry (checkPotentialPtr).         *)
(***************************************************************************)
RootsExactlyOnce ==
  pc # "walkStack" =>
    /\ Range(roots) = RootObjs
    /\ \A i, j \in DOMAIN roots : roots[i] = roots[j] => i = j
    /\ \A o \in Obj : isroot[o] <=> o \in RootObjs

(***************************************************************************)
(* Each marked object is in exactly one place, the stack or pending_young, *)
(* and there once: a second entry would be evacuated twice, and the        *)
(* assertion on young and marked at the head of the evacuation loop        *)
(* (gc.cpp:240) would fail on it.                                          *)
(***************************************************************************)
OnStack(o)  == {i \in DOMAIN visit_stack : visit_stack[i].obj = o}
InYoung(o)  == {i \in DOMAIN pending_young : pending_young[i] = o}

MarkedOnce ==
  \A o \in Obj :
    /\ ismarked[o] <=> OnStack(o) \cup InYoung(o) # {}
    /\ \A i, j \in OnStack(o) : i = j
    /\ \A i, j \in InYoung(o) : i = j
    /\ OnStack(o) = {} \/ InYoung(o) = {}

(***************************************************************************)
(* pending_young lists an object only after every young object it points   *)
(* to, the "topo organization" of threadinfo.h:72 that evacuation needs.   *)
(***************************************************************************)
ChildrenFirst(i) ==
  \A c \in Children(pending_young[i]) :
    isyoung[c] => \E j \in 1..(i - 1) : pending_young[j] = c

TopologicalOrder == \A i \in DOMAIN pending_young : ChildrenFirst(i)

(***************************************************************************)
(* Marking an object when it is pushed and not when it is popped gives a   *)
(* topological order only if no object o has a slot j that leads to the    *)
(* target of an earlier slot i: the walk goes into j first and finds the   *)
(* target of i marked, but still on the stack.                             *)
(***************************************************************************)
NoShortcut ==
  \A o \in Obj : \A i, j \in DOMAIN slots[o] :
    (i < j /\ NULL \notin {slots[o][i], slots[o][j]})
      => slots[o][i] \notin ReachableFrom(Children(slots[o][j]))

(* On a heap without such a shortcut the order is topological throughout,  *)
(* sharing and several roots included (walkSingleRoot).                    *)
TopologicalWithoutShortcut == NoShortcut => TopologicalOrder

(* The phase ends: every object is pushed once (walkSingleRoot's loop). *)
Terminates == <>(pc = "marked")
=============================================================================
