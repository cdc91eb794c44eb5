----------------------------- MODULE MCPageTable -----------------------------
(***************************************************************************)
(* Two threads and a table of three levels with two indices each.  Two     *)
(* pages share all nodes but the leaf; the third, for the run that needs   *)
(* it, shares only the root with them.  Two pages of the pool are left for *)
(* lists.                                                                  *)
(***************************************************************************)
EXTENDS PageTable, TLC

MCPage  == 1..6
MCIndex == {0, 1}
MCAddr  == {<<1, 0, 1>>, <<1, 1, 1>>}

MCMorePages == 1..8
MCThreeAddr == MCAddr \cup {<<0, 0, 1>>}

(* With ALLOC_DEBUG_MEM_DETERMINISTIC pages are mapped in address order.   *)
MCNext == Next /\ mapped' = 1..Cardinality(mapped')
MCSpec == Init /\ [][MCNext]_vars

Symmetry == Permutations(Thread)
=============================================================================
