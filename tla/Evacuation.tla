----------------------------- MODULE Evacuation -----------------------------
(***************************************************************************)
(* The second phase of collect() in src/runtime/memory/gc.cpp:             *)
(* processMarkedYoungObjects promotes every object of pending_young to the *)
(* old generation.  A root stays where it is, because a scanned word       *)
(* cannot be updated; any other object is copied to a free entry and       *)
(* leaves its new address in the forward table.  Either way updatePointers *)
(* redirects the object's slots through the forward table and counts one   *)
(* reference for each of them.                                             *)
(*                                                                         *)
(* The loop runs under the reference count lock on objects of its own      *)
(* thread, so one iteration is one action.                                 *)
(***************************************************************************)
EXTENDS Marking

CONSTANT MAX_FWD_INDEX   \* the forward_index of an object that did not move

ASSUME FwdAssumption == MAX_FWD_INDEX \notin Nat

VARIABLES
  forward_index,   \* MetaData.forward_index
  forward_table,   \* tinfo.forward_table[0 .. forward_table_index - 1]
  free_entries,    \* the entries on the freelists that evacuation can draw on
  origin,          \* history: the address a promoted object was copied from
  before           \* history: the slots as the program last saw them

historyVars == <<origin, before>>
evacVars    == <<forward_index, forward_table, free_entries, historyVars>>
allVars     == <<vars, evacVars>>

EvacPhases == {"processMarkedYoungObjects", "evacuated"}

EvacTypeOK ==
  /\ HeapTypeOK
  /\ pc \in WalkPhases \cup EvacPhases
  /\ pending_young \in Seq(Obj)
  /\ forward_index \in [Obj -> Nat \cup {MAX_FWD_INDEX}]
  /\ forward_table \in Seq(Obj)
  /\ free_entries \in SUBSET Obj
  /\ origin \in [Obj -> Obj]
  /\ before \in [Obj -> Seq(Obj \cup {NULL})]

(***************************************************************************)
(* What evacuation finds besides a quiescent heap: counts that are right   *)
(* for old objects and zero for young ones, an empty forward table, and    *)
(* only unallocated entries on the freelists.                              *)
(***************************************************************************)
StartEvacuation ==
  /\ CountsExact
  /\ \A o \in Obj : ~IsOld(o) => ref_count[o] = 0
  /\ forward_index = [o \in Obj |-> MAX_FWD_INDEX]
  /\ forward_table = <<>>
  /\ \A o \in free_entries : ~isalloc[o]
  /\ origin = [o \in Obj |-> o]
  /\ before = slots

EvacInit == Init /\ free_entries \in SUBSET Obj /\ StartEvacuation

CallProcessMarkedYoungObjects ==
  /\ pc = "marked"
  /\ pc' = "processMarkedYoungObjects"
  /\ UNCHANGED <<heapVars, words, nword, roots, pending_roots, visit_stack,
                 pending_young, cur, slot, evacVars>>

(***************************************************************************)
(* updatePointers: what a slot becomes, and the count it adds.             *)
(***************************************************************************)
(* A variant that leaves the slot alone. *)
ForwardNothing(p) == p

Forward(p) ==
  IF p # NULL /\ forward_index[p] # MAX_FWD_INDEX
    THEN forward_table[forward_index[p] + 1] ELSE p

UpdatedSlots(s) == [k \in DOMAIN s |-> Forward(s[k])]

(* Variants: decrements, and one count however many slots share a target. *)
CountSlotsDown(counts, s) ==
  [p \in Obj |-> counts[p] - Cardinality({k \in DOMAIN s : s[k] = p})]
CountTargets(counts, s) ==
  [p \in Obj |-> counts[p] + (IF p \in Range(s) THEN 1 ELSE 0)]

CountSlots(counts, s) ==
  [p \in Obj |-> counts[p] + Cardinality({k \in DOMAIN s : s[k] = p})]

(***************************************************************************)
(* A root is promoted in place.                                            *)
(***************************************************************************)
PromoteRoot ==
  /\ pc = "processMarkedYoungObjects" /\ pending_young # <<>>
  /\ LET obj == Head(pending_young) IN
       /\ isroot[obj]
       /\ slots' = [slots EXCEPT ![obj] = UpdatedSlots(slots[obj])]
       /\ ref_count' = CountSlots(ref_count, UpdatedSlots(slots[obj]))
       /\ isyoung' = [isyoung EXCEPT ![obj] = FALSE]
  /\ pending_young' = Tail(pending_young)
  /\ UNCHANGED <<isalloc, ismarked, isroot, pc, words, nword, roots,
                 pending_roots, visit_stack, cur, slot, forward_index,
                 forward_table, free_entries, historyVars>>

(***************************************************************************)
(* Any other object is copied to a free entry (allocateEvacuation) as an   *)
(* old object; RESET_METADATA_FOR_OBJECT leaves its old entry unallocated, *)
(* but on no freelist, and with the index of its new address.  The bytes   *)
(* of the old entry stay as they were.                                     *)
(***************************************************************************)
EvacuateObject ==
  /\ pc = "processMarkedYoungObjects" /\ pending_young # <<>>
  /\ LET obj == Head(pending_young)
         newslots == UpdatedSlots(slots[obj]) IN
       /\ ~isroot[obj]
       /\ \E newobj \in free_entries :
            /\ free_entries' = free_entries \ {newobj}
            /\ slots' = [slots EXCEPT ![newobj] = newslots]
            /\ isalloc' = [isalloc EXCEPT ![newobj] = TRUE, ![obj] = FALSE]
            /\ isyoung' = [isyoung EXCEPT ![newobj] = FALSE, ![obj] = FALSE]
            /\ ismarked' = [ismarked EXCEPT ![newobj] = FALSE, ![obj] = FALSE]
            /\ isroot' = [isroot EXCEPT ![newobj] = FALSE, ![obj] = FALSE]
            /\ ref_count' =
                 [CountSlots([ref_count EXCEPT ![newobj] = 0], newslots)
                    EXCEPT ![obj] = 0]
            /\ forward_index' = [forward_index EXCEPT ![newobj] = MAX_FWD_INDEX,
                                                      ![obj] = Len(forward_table)]
            /\ forward_table' = Append(forward_table, newobj)
            /\ origin' = [origin EXCEPT ![newobj] = obj]
  /\ pending_young' = Tail(pending_young)
  /\ UNCHANGED <<pc, words, nword, roots, pending_roots, visit_stack, cur,
                 slot, before>>

(* collect() empties the forward table once every object has moved. *)
EndEvacuation ==
  /\ pc = "processMarkedYoungObjects" /\ pending_young = <<>>
  /\ pc' = "evacuated"
  /\ forward_table' = <<>>
  /\ UNCHANGED <<heapVars, words, nword, roots, pending_roots, visit_stack,
                 pending_young, cur, slot, forward_index, free_entries, historyVars>>

Evacuate ==
  \/ CallProcessMarkedYoungObjects
  \/ PromoteRoot
  \/ EvacuateObject
  \/ EndEvacuation

EvacNext ==
  \/ MarkingNext /\ UNCHANGED evacVars
  \/ Evacuate
  \/ pc = "evacuated" /\ UNCHANGED allVars

EvacSpec == EvacInit /\ [][EvacNext]_allVars

(* The same from a heap on which the marking order is topological. *)
EvacNoShortcutSpec == EvacInit /\ NoShortcut /\ [][EvacNext]_allVars

-----------------------------------------------------------------------------
(***************************************************************************)
(* Properties.                                                             *)
(***************************************************************************)

(* The object that a program pointer stands for: where it was before. *)
Same(p) == IF p = NULL THEN NULL ELSE origin[p]

Reachable == ReachableFrom(RootObjs)

(***************************************************************************)
(* The program cannot tell that a collection happened: the objects that    *)
(* the scan found are where they were, from the words the program holds it *)
(* reaches allocated old objects only, each slot of which leads to the     *)
(* object it led to before, and no object has become two                   *)
(* (processMarkedYoungObjects, updatePointers).                            *)
(***************************************************************************)
ProgramSeesSameGraph ==
  pc = "evacuated" =>
    /\ \A o \in Range(roots) : IsOld(o) /\ origin[o] = o
    /\ \A o \in Reachable :
         /\ IsOld(o)
         /\ DOMAIN slots[o] = DOMAIN before[origin[o]]
         /\ \A k \in DOMAIN slots[o] : Same(slots[o][k]) = before[origin[o]][k]
    /\ \A o, p \in Reachable : origin[o] = origin[p] => o = p

(***************************************************************************)
(* The counts are exact after every promotion: each object's slots are     *)
(* counted in the step in which it becomes old, and an object's own count  *)
(* starts at zero in its new entry (INC_REF_COUNT at gc.cpp:220).          *)
(***************************************************************************)
RefCountsExact == pc \in EvacPhases => CountsExact
=============================================================================
