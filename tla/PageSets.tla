------------------------------ MODULE PageSets ------------------------------
(***************************************************************************)
(* What the allocator expects of its utilisation buckets: a set of pages   *)
(* with the utilisation each was put in with, from which it can remove any *)
(* page and take one of those that are used least.                         *)
(***************************************************************************)
EXTENDS Naturals

CONSTANTS Page, Util, NULL

VARIABLES
  pages,   \* the pages in the buckets
  util,    \* util[p]: the utilisation page p was put in with
  taken    \* the page that the last TakeLowest returned, or NULL

Init == pages = {} /\ util \in [Page -> Util] /\ taken = NULL

Put(p, u) ==
  /\ p \notin pages
  /\ pages' = pages \cup {p}
  /\ util' = [util EXCEPT ![p] = u]
  /\ UNCHANGED taken

Remove(p) ==
  /\ p \in pages
  /\ pages' = pages \ {p}
  /\ UNCHANGED <<util, taken>>

TakeLowest(p) ==
  /\ p \in pages
  /\ \A q \in pages : util[p] <= util[q]
  /\ pages' = pages \ {p}
  /\ taken' = p
  /\ UNCHANGED util

Next ==
  \E p \in Page :
    \/ \E u \in Util : Put(p, u)
    \/ Remove(p)
    \/ TakeLowest(p)

Spec == Init /\ [][Next]_<<pages, util, taken>>
=============================================================================
