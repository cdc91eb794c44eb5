----------------------------- MODULE MCArrayList -----------------------------
(***************************************************************************)
(* A queue and a stack that take their segments from the same few pages.   *)
(* In the program an element of the stack has two words and a segment an   *)
(* odd number of them, 509.                                                *)
(***************************************************************************)
EXTENDS ArrayList, TLC

CONSTANT StackElemWords   \* sizeof(MarkStackEntry) in words

MCFifo      == {"pending_young"}
MCLifo      == {"visit_stack"}
MCList      == MCFifo \cup MCLifo
MCElemWords == [l \in MCList |-> IF l \in MCLifo THEN StackElemWords ELSE 1]

(* No action distinguishes one page from another. *)
MCPages == Permutations(Page)
=============================================================================
