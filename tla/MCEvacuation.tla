---------------------------- MODULE MCEvacuation ----------------------------
(***************************************************************************)
(* Marking and evacuation on every small heap of four objects, numbered so *)
(* that pointers lead to higher numbers, with three free entries to copy   *)
(* to: at least one marked object is a root, so three are enough.  The     *)
(* scan finds one or two of the objects, in any order.                     *)
(***************************************************************************)
EXTENDS Evacuation

MCObj   == 1..7
Entries == 5..7
Objects == MCObj \ Entries

MCEntryOf == [o \in MCObj |-> o]

(* Up to two pointers, which may be the same, or NULL before a pointer. *)
SlotsOf(o) ==
  LET targets == (o + 1)..4 IN
    {<<>>} \cup [1..2 -> targets] \cup {<<NULL, c>> : c \in targets}

MCInit ==
  /\ \E s1 \in SlotsOf(1), s2 \in SlotsOf(2), s3 \in {<<>>, <<4>>} :
       slots = <<s1, s2, s3, <<>>, <<>>, <<>>, <<>> >>
  /\ free_entries = Entries
  /\ isalloc = [o \in Obj |-> o \in Objects]
  /\ \E young \in SUBSET Objects : isyoung = [o \in Obj |-> o \in young]
  /\ ismarked = [o \in Obj |-> FALSE]
  /\ isroot = [o \in Obj |-> FALSE]
  /\ \A o \in Objects : \A c \in Children(o) : isyoung[c] => isyoung[o]
  /\ words \in {<<v, w>> : v, w \in Objects}
  /\ StartWalk
  /\ ref_count = [o \in Obj |-> IF IsOld(o) THEN Cardinality(RefsTo(o)) ELSE 0]
  /\ forward_index = [o \in Obj |-> MAX_FWD_INDEX]
  /\ forward_table = <<>>
  /\ origin = [o \in Obj |-> o]
  /\ before = slots

MCSpec == MCInit /\ [][EvacNext]_allVars

(* The heaps on which the marking order is topological. *)
MCNoShortcutInit == MCInit /\ NoShortcut
MCNoShortcutSpec == MCNoShortcutInit /\ [][EvacNext]_allVars
=============================================================================
