------------------------------ MODULE MCPages ------------------------------
(***************************************************************************)
(* Two allocators, one with pages of three entries, so that a page can be  *)
(* low, high and full, and one with two, which share the pool of pages.    *)
(***************************************************************************)
EXTENDS Pages, TLC

MCAlloc == {1, 2}
MCEntryCount == <<3, 2>>

Symmetry == Permutations(Page)
=============================================================================
