----------------------------- MODULE XAllocPages -----------------------------
(***************************************************************************)
(* XAllocPageManager of src/runtime/support: the pages that the            *)
(* collector's own data structures live on.  A freed page is kept and      *)
(* handed out again, last one first; only an empty free list maps a new    *)
(* one.  Both operations run under the allocation lock, so each is one     *)
(* step.                                                                   *)
(***************************************************************************)
EXTENDS Naturals, Sequences, Functions

CONSTANT Page   \* the pages that mmap can return

VARIABLES
  mapped,     \* the pages mapped so far
  free_pages  \* XAllocPageManager.freelist, first page first

pageVars == <<mapped, free_pages>>

PagesInit == mapped = {} /\ free_pages = <<>>

(* A variant that leaves the page on the free list. *)
AllocatePageAgain(p) ==
  \/ free_pages # <<>> /\ p = Head(free_pages) /\ UNCHANGED pageVars
  \/ free_pages = <<>> /\ p \in Page \ mapped
     /\ mapped' = mapped \cup {p} /\ UNCHANGED free_pages

(* allocatePage_impl returns page p. *)
AllocatePage(p) ==
  \/ /\ free_pages # <<>>
     /\ p = Head(free_pages)
     /\ free_pages' = Tail(free_pages)
     /\ UNCHANGED mapped
  \/ /\ free_pages = <<>>
     /\ p \in Page \ mapped
     /\ mapped' = mapped \cup {p}
     /\ UNCHANGED free_pages

(* freePage_impl for the pages of s, the first one first. *)
FreePages(s) ==
  /\ free_pages' = [i \in 1..Len(s) |-> s[Len(s) + 1 - i]] \o free_pages
  /\ UNCHANGED mapped
=============================================================================
