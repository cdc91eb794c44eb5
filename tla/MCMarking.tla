----------------------------- MODULE MCMarking -----------------------------
(***************************************************************************)
(* Marking on every small heap of four addresses: objects only point to    *)
(* higher addresses (every acyclic heap can be numbered that way), with at *)
(* most two slots each, every mix of free, young and old objects that a    *)
(* program can leave, and every scan of up to two words.                   *)
(***************************************************************************)
EXTENDS Marking

MCObj == 1..4

(* A word is a pair: where it points, and the entry its address falls in.  *)
(* Words outside the page table and words in a page header fall into an    *)
(* entry as well when the index is computed from them, so EntryOf gives    *)
(* them one: a scan that trusted it would find a root that is none.        *)
Pointer  == {[where |-> "object", entry |-> o] : o \in MCObj}
Interior == [where |-> "interior", entry |-> 1]
Header   == [where |-> "header", entry |-> 2]
Foreign  == [where |-> "foreign", entry |-> 3]

MCWord        == Pointer \cup {Interior, Header, Foreign}
MCInPageTable == Pointer \cup {Interior, Header}
MCInHeader    == {Header}
MCEntryOf     == [w \in MCWord |-> w.entry]

(* The scans: two pointers, or a word that needs care. *)
MCWords ==
  {<<v, w>> : v, w \in Pointer}
    \cup {<<Interior>>, <<Header>>, <<Foreign>>, <<Foreign, Interior>>}

SlotsOf(o) ==
  LET targets == (o + 1)..4 IN
    {<<>>, <<NULL>>} \cup [1..2 -> targets] \cup {<<NULL, c>> : c \in targets}

MCInit ==
  /\ \E s1 \in SlotsOf(1), s2 \in SlotsOf(2), s3 \in {<<>>, <<4>>, <<NULL>>} :
       slots = <<s1, s2, s3, <<>> >>
  /\ \E free \in SUBSET {3, 4} :
       /\ isalloc = [o \in Obj |-> o \notin free]
       /\ \E old \in SUBSET (Obj \ free) :
            isyoung = [o \in Obj |-> o \notin free \cup old]
  /\ ismarked = [o \in Obj |-> FALSE]
  /\ isroot = [o \in Obj |-> FALSE]
  /\ ref_count = [o \in Obj |-> 0]
  /\ Quiescent
  /\ words \in MCWords
  /\ StartWalk

MCSpec == MCInit /\ [][Next]_vars /\ WF_vars(MarkingNext)
=============================================================================
