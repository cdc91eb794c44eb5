---------------------------- MODULE MCDecrements ----------------------------
(***************************************************************************)
(* Collections of an old generation of four objects on two pages, numbered *)
(* so that pointers lead to higher numbers, which a program uses through   *)
(* its roots and allocates nothing in.  At most MCMaxDecrements objects    *)
(* are freed per collection, so that freeing is spread over collections.   *)
(***************************************************************************)
EXTENDS Decrements

CONSTANT RootCount   \* the most roots a program holds at a time

MCObj    == 1..4
MCPage   == {"p1", "p2"}
MCPageOf == <<"p1", "p2", "p1", "p2">>

FirstSlots  == {<<>>, <<2>>, <<NULL, 4>>, <<2, 3>>, <<3, 2>>, <<3, 3>>}
SecondSlots == {<<>>, <<3, 4>>, <<4, 4>>}

RootSets == {S \in SUBSET Obj : Cardinality(S) <= RootCount}

(* The states of DecInit with these objects and nothing on a freelist.     *)
MCInit ==
  /\ \E s1 \in FirstSlots, s2 \in SecondSlots, s3 \in {<<>>, <<4>>} :
       slots = <<s1, s2, s3, <<>> >>
  /\ isalloc = [o \in Obj |-> TRUE]
  /\ isyoung = [o \in Obj |-> FALSE]
  /\ ismarked = [o \in Obj |-> FALSE]
  /\ isroot = [o \in Obj |-> FALSE]
  /\ ref_count = [o \in Obj |-> Cardinality(RefsTo(o))]
  /\ roots = <<>>
  /\ pc = "mutator"
  /\ \E S \in RootSets :
       /\ ReachableFrom(S) = Obj
       /\ old_roots = CHOOSE s \in [1..Cardinality(S) -> S] :
                        \A i, j \in DOMAIN s : i < j => s[i] < s[j]
  /\ roots_idx = 1
  /\ oldroots_idx = 1
  /\ pending_decs = <<>>
  /\ deccount = 0
  /\ dec_obj = NULL
  /\ dec_slot = 1
  /\ freelist = [p \in Page |-> <<>>]
  /\ pending_decs_count = [p \in Page |-> 0]
  /\ decremented_pages = <<>>
  /\ stable_pages = {}

MCNext    == DecrementNext \/ \E S \in RootSets : DropsForGood(S) /\ Collect(S)
MCAnyNext == DecrementNext \/ \E S \in RootSets : Collect(S)

(* A program that goes on running allocates, and so collects, again. *)
MCSpec == MCInit /\ [][MCNext]_allDecVars /\ WF_allDecVars(MCNext)

MCAnySpec == MCInit /\ [][MCAnyNext]_allDecVars

(* What the program no longer reaches is freed, however many collections   *)
(* the budget spreads that over (pending_decs outlives a collection).      *)
GarbageIsFreed ==
  \A o \in Obj : (isalloc[o] /\ o \notin ReachableFrom(Held)) ~> ~isalloc[o]
=============================================================================
