----------------------------- MODULE MCCollector -----------------------------
(***************************************************************************)
(* Two pages with two entries each, on which a program creates up to four  *)
(* objects; a collection frees one old object at most.  A page is the set  *)
(* of its entries, so that permuting entries permutes pages.               *)
(***************************************************************************)
EXTENDS Collector, TLC

CONSTANTS a1, a2, a3, a4

MCObj    == {a1, a2, a3, a4}
MCPage   == {{a1, a2}, {a3, a4}}
MCPageOf == [o \in MCObj |-> CHOOSE p \in MCPage : o \in p]

Symmetry == {f \in Permutations(MCObj) : \A p \in MCPage : {f[o] : o \in p} \in MCPage}
=============================================================================
