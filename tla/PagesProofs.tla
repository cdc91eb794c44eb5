---------------------------- MODULE PagesProofs ----------------------------
(***************************************************************************)
(* Proofs about GCAllocator.  First module Pages, for any number of pages, *)
(* allocators and entries: its invariants and HandsOutRoom.  Then module   *)
(* BucketTree, whose trees Pages has as sets, for any pages, utilisations  *)
(* and buckets: its invariants and that it implements PageSets.            *)
(*                                                                         *)
(* EveryPageInOnePlace is split into what each place holds and that no two *)
(* places share a page (PlaceInv); a step then moves one page between two  *)
(* places, and the lemmas PutAway..., Take... say that such a move keeps   *)
(* PlaceInv.  The other properties rest on what the stale utilisation of a *)
(* page tells while the page is on a list (ClassInv).                      *)
(***************************************************************************)
EXTENDS Pages, BucketTree, SeqFacts, FiniteSetTheorems

PlaceInv ==
  /\ \A a \in Alloc :
       alloc_page[a] # NULL =>
         /\ alloc_page[a] \in mapped \ empty_pages
         /\ allocator[alloc_page[a]] = a
         /\ alloc_page[a] # evac_page[a]
         /\ \A l \in ListName : alloc_page[a] \notin lists[a][l]
  /\ \A a \in Alloc :
       evac_page[a] # NULL =>
         /\ evac_page[a] \in mapped \ empty_pages
         /\ allocator[evac_page[a]] = a
         /\ \A l \in ListName : evac_page[a] \notin lists[a][l]
  /\ \A a \in Alloc, l \in ListName : \A p \in lists[a][l] :
       /\ p \in mapped \ empty_pages
       /\ allocator[p] = a
       /\ \A m \in ListName : p \in lists[a][m] => m = l
  /\ \A p \in mapped \ empty_pages :
       \/ alloc_page[allocator[p]] = p
       \/ evac_page[allocator[p]] = p
       \/ \E l \in ListName : p \in lists[allocator[p]][l]

(* The page's utilisation when it was put away. *)
ClassInv ==
  /\ \A a \in Alloc : \A p \in lists[a].low :
       IsLow(approx_utilization[p], Entries(p)) /\ InUse(p) <= approx_utilization[p]
  /\ \A a \in Alloc : \A p \in lists[a].high :
       IsHigh(approx_utilization[p], Entries(p)) /\ InUse(p) <= approx_utilization[p]
  /\ \A a \in Alloc : \A p \in lists[a].filled \cup lists[a].pendinggc :
       IsFull(approx_utilization[p], Entries(p))
  /\ \A p \in empty_pages : approx_utilization[p] = 0 /\ freecount[p] = Entries(p)
  /\ \A a \in Alloc : alloc_page[a] # NULL =>
       ~IsFull(approx_utilization[alloc_page[a]], Entries(alloc_page[a]))

CountInv ==
  /\ \A p \in Page : freecount[p] + young[p] + old[p] <= Entries(p)
  /\ \A p \in Page \ mapped : young[p] = 0 /\ old[p] = 0

YoungInv ==
  \A p \in mapped : young[p] > 0 =>
    alloc_page[allocator[p]] = p \/ p \in lists[allocator[p]].pendinggc

FreelistInv ==
  /\ \A a \in Alloc : alloc_page[a] = NULL => freelist[a] = 0
  /\ \A a \in Alloc : evac_page[a] = NULL => evacfreelist[a] = 0
  /\ pc \in {"mutator", "refresh", "evacuate"} => \A a \in Alloc :
       /\ alloc_page[a] # NULL => freelist[a] = freecount[alloc_page[a]]
       /\ evac_page[a] # NULL => evacfreelist[a] = freecount[evac_page[a]]

ControlInv ==
  /\ pc = "mutator" => refreshing = NULL
  /\ pc = "refresh" => refreshing \in Alloc
  /\ refreshing \in Alloc => alloc_page[refreshing] = NULL

PendingPages == UNION {lists[a].pendinggc : a \in Alloc}

TimeInv ==
  pc \in {"mutator", "refresh"} =>
    /\ IsFiniteSet(PendingPages)
    /\ Cardinality(PendingPages) <= newly_filled_pages_count
    /\ ~disable_automatic_collections => newly_filled_pages_count < BSQ_COLLECTION_THRESHOLD

PagesInv ==
  PagesTypeOK /\ PlaceInv /\ ClassInv /\ CountInv /\ YoungInv /\ FreelistInv /\ ControlInv

(* All pages but p are where they were. *)
OthersStay(p) ==
  /\ \A q \in Page \ {p} :
       /\ allocator'[q] = allocator[q]
       /\ q \in mapped' <=> q \in mapped
       /\ q \in empty_pages' <=> q \in empty_pages
  /\ \A q \in Page \ {p}, a \in Alloc, l \in ListName :
       q \in lists'[a][l] <=> q \in lists[a][l]

(***************************************************************************)
(* Every page in use has a list: the ranges of utilisations leave no gap.  *)
(***************************************************************************)
LEMMA ListOfInUse ==
  ASSUME NEW n \in 1..99, NEW u \in 1..n
  PROVE  /\ ListOf(u, n) \in {"low", "high", "filled"}
         /\ ListOf(u, n) = "low" <=> IsLow(u, n)
         /\ ListOf(u, n) = "high" <=> IsHigh(u, n)
         /\ ListOf(u, n) = "filled" <=> IsFull(u, n)
  BY DEF ListOf, IsLow, IsHigh, IsFull

LEMMA EntriesType ==
  ASSUME PagesTypeOK, NEW p \in Page
  PROVE  allocator[p] \in Alloc /\ Entries(p) \in 1..99
  BY EntryAssumption DEF PagesTypeOK, Entries

(* Where processPage puts a page. *)
LEMMA ListToWhere ==
  ASSUME PagesTypeOK, NEW p \in Page, NEW u \in 0..Entries(p)
  PROVE  /\ ListTo(p, u) \in ListName \cup {"empty"}
         /\ ListTo(p, u) = "empty" <=> u = 0
         /\ ListTo(p, u) = "low" => IsLow(u, Entries(p))
         /\ ListTo(p, u) = "high" => IsHigh(u, Entries(p))
         /\ ListTo(p, u) = "filled" => IsFull(u, Entries(p))
         /\ ListTo(p, u) = "pendinggc" =>
              IsFull(u, Entries(p)) /\ ~IsFull(approx_utilization[p], Entries(p))
         /\ IsFull(u, Entries(p)) /\ ~IsFull(approx_utilization[p], Entries(p))
              /\ p # evac_page[allocator[p]] => ListTo(p, u) = "pendinggc"
<1>1. Entries(p) \in 1..99
  BY EntriesType
<1>2. CASE u = 0
  BY <1>1, <1>2 DEF ListTo, ListName, IsFull
<1>3. CASE u # 0
  <2>1. u \in 1..Entries(p)
    BY <1>1, <1>3
  <2>2. ListOf(u, Entries(p)) \in {"low", "high", "filled"}
    BY <1>1, <2>1, ListOfInUse
  <2>3. /\ ListOf(u, Entries(p)) = "low" <=> IsLow(u, Entries(p))
        /\ ListOf(u, Entries(p)) = "high" <=> IsHigh(u, Entries(p))
        /\ ListOf(u, Entries(p)) = "filled" <=> IsFull(u, Entries(p))
    BY <1>1, <2>1, ListOfInUse
  <2> QED
    BY <1>3, <2>2, <2>3 DEF ListTo, ListName
<1> QED
  BY <1>2, <1>3

-----------------------------------------------------------------------------
(***************************************************************************)
(* Pages that are put away.                                                *)
(***************************************************************************)
LEMMA MovedLists ==
  ASSUME PagesTypeOK, NEW p \in mapped, NEW from, NEW to, Moved(p, from, to)
  PROVE  /\ lists' \in [Alloc -> [ListName -> SUBSET Page]]
         /\ \A a \in Alloc, l \in ListName, q \in Page :
              q \in lists'[a][l] <=>
                IF q = p /\ a = allocator[p] /\ l = to THEN TRUE
                ELSE q \in lists[a][l] /\ ~(q = p /\ a = allocator[p] /\ l = from)
<1> DEFINE A == allocator[p]
           moved == [l \in ListName |-> IF l = to THEN lists[A][l] \cup {p}
                       ELSE IF l = from THEN lists[A][l] \ {p} ELSE lists[A][l]]
<1>1. p \in Page /\ A \in Alloc
  BY DEF PagesTypeOK
<1>2. lists \in [Alloc -> [ListName -> SUBSET Page]]
  BY DEF PagesTypeOK
<1>3. lists' = [lists EXCEPT ![A] = moved]
  BY DEF Moved
<1>4. moved \in [ListName -> SUBSET Page]
  BY <1>1, <1>2
<1>5. \A a \in Alloc : lists'[a] = IF a = A THEN moved ELSE lists[a]
  BY <1>1, <1>2, <1>3
<1>6. \A l \in ListName, q \in Page :
        q \in moved[l] <=>
          IF q = p /\ l = to THEN TRUE ELSE q \in lists[A][l] /\ ~(q = p /\ l = from)
  OBVIOUS
<1> HIDE DEF moved
<1>7. lists' \in [Alloc -> [ListName -> SUBSET Page]]
  BY <1>1, <1>2, <1>3, <1>4
<1>8. ASSUME NEW a \in Alloc, NEW l \in ListName, NEW q \in Page
      PROVE  q \in lists'[a][l] <=>
               IF q = p /\ a = A /\ l = to THEN TRUE
               ELSE q \in lists[a][l] /\ ~(q = p /\ a = A /\ l = from)
  BY <1>5, <1>6
<1> QED
  BY <1>7, <1>8

(* Page p leaves the place that it is in for another list or the pool. *)
PutAway(p, from, to) ==
  /\ Moved(p, from, to)
  /\ empty_pages' = IF to = "empty" THEN empty_pages \cup {p} ELSE empty_pages
  /\ UNCHANGED mapping
  /\ \/ /\ alloc_page[allocator[p]] = p
        /\ alloc_page' = [alloc_page EXCEPT ![allocator[p]] = NULL]
        /\ UNCHANGED evac_page
     \/ /\ evac_page[allocator[p]] = p
        /\ evac_page' = [evac_page EXCEPT ![allocator[p]] = NULL]
        /\ UNCHANGED alloc_page
     \/ /\ from \in ListName /\ p \in lists[allocator[p]][from]
        /\ UNCHANGED <<alloc_page, evac_page>>

(* Only page p leaves alloc_page or evac_page. *)
CursorsLeave(p) ==
  \A a \in Alloc :
    /\ alloc_page'[a] # NULL => alloc_page'[a] = alloc_page[a] /\ alloc_page[a] # p
    /\ evac_page'[a] # NULL => evac_page'[a] = evac_page[a] /\ evac_page[a] # p
    /\ alloc_page[a] # p => alloc_page'[a] = alloc_page[a]
    /\ evac_page[a] # p => evac_page'[a] = evac_page[a]

LEMMA PutAwayPlaces ==
  ASSUME PagesTypeOK, PlaceInv, NEW p \in mapped, NEW from,
         NEW to \in ListName \cup {"empty"}, PutAway(p, from, to)
  PROVE  /\ PlaceInv'
         /\ OthersStay(p)
         /\ CursorsLeave(p)
         /\ \A a \in Alloc, l \in ListName :
              p \in lists'[a][l] <=> a = allocator[p] /\ l = to
<1> DEFINE A == allocator[p]
<1>1. p \in Page /\ A \in Alloc /\ NULL \notin Page
  BY PageAssumption DEF PagesTypeOK
<1>2. \A a \in Alloc, l \in ListName, q \in Page :
        q \in lists'[a][l] <=>
          IF q = p /\ a = A /\ l = to THEN TRUE
          ELSE q \in lists[a][l] /\ ~(q = p /\ a = A /\ l = from)
  BY MovedLists DEF PutAway
<1>3. \A a \in Alloc, l \in ListName : p \in lists[a][l] => a = A /\ l = from
  <2>1. CASE alloc_page[A] = p
    BY <1>1, <2>1 DEF PlaceInv
  <2>2. CASE evac_page[A] = p
    BY <1>1, <2>2 DEF PlaceInv
  <2>3. CASE from \in ListName /\ p \in lists[A][from]
    BY <1>1, <2>3 DEF PlaceInv
  <2> QED
    BY <2>1, <2>2, <2>3 DEF PutAway
<1>4. \A a \in Alloc, l \in ListName : p \in lists'[a][l] <=> a = A /\ l = to
  BY <1>1, <1>2, <1>3
<1>5. \A q \in Page \ {p}, a \in Alloc, l \in ListName :
        q \in lists'[a][l] <=> q \in lists[a][l]
  BY <1>2
<1>6. p \notin empty_pages
  BY <1>1 DEF PutAway, PlaceInv
<1>7. /\ mapped' = mapped /\ allocator' = allocator
      /\ p \in empty_pages' <=> to = "empty"
      /\ \A q \in Page \ {p} : q \in empty_pages' <=> q \in empty_pages
  BY <1>6 DEF PutAway, mapping
<1>8. OthersStay(p)
  BY <1>5, <1>7 DEF OthersStay
<1>9. CursorsLeave(p)
  <2> SUFFICES ASSUME NEW a \in Alloc
               PROVE  /\ alloc_page'[a] # NULL => alloc_page'[a] = alloc_page[a] /\ alloc_page[a] # p
                      /\ evac_page'[a] # NULL => evac_page'[a] = evac_page[a] /\ evac_page[a] # p
                      /\ alloc_page[a] # p => alloc_page'[a] = alloc_page[a]
                      /\ evac_page[a] # p => evac_page'[a] = evac_page[a]
    BY DEF CursorsLeave
  <2>1. /\ alloc_page \in [Alloc -> Page \cup {NULL}]
        /\ evac_page \in [Alloc -> Page \cup {NULL}]
    BY DEF PagesTypeOK
  <2>2. /\ alloc_page[a] = p => a = A /\ evac_page[a] # p
        /\ evac_page[a] = p => a = A /\ alloc_page[a] # p
    BY <1>1 DEF PlaceInv
  <2>3. CASE alloc_page[A] = p /\ alloc_page' = [alloc_page EXCEPT ![A] = NULL] /\ evac_page' = evac_page
    BY <1>1, <2>1, <2>2, <2>3
  <2>4. CASE evac_page[A] = p /\ evac_page' = [evac_page EXCEPT ![A] = NULL] /\ alloc_page' = alloc_page
    BY <1>1, <2>1, <2>2, <2>4
  <2>5. CASE /\ from \in ListName /\ p \in lists[A][from]
             /\ alloc_page' = alloc_page /\ evac_page' = evac_page
    <3>1. alloc_page[a] # p /\ evac_page[a] # p
      BY <1>1, <2>2, <2>5 DEF PlaceInv
    <3> QED
      BY <2>5, <3>1
  <2> QED
    BY <2>3, <2>4, <2>5 DEF PutAway
<1>10. PlaceInv'
  <2>1. \A a \in Alloc : alloc_page'[a] # NULL =>
          /\ alloc_page'[a] \in mapped' \ empty_pages'
          /\ allocator'[alloc_page'[a]] = a
          /\ alloc_page'[a] # evac_page'[a]
          /\ \A l \in ListName : alloc_page'[a] \notin lists'[a][l]
    <3> SUFFICES ASSUME NEW a \in Alloc, alloc_page'[a] # NULL
                 PROVE  /\ alloc_page'[a] \in mapped' \ empty_pages'
                        /\ allocator'[alloc_page'[a]] = a
                        /\ alloc_page'[a] # evac_page'[a]
                        /\ \A l \in ListName : alloc_page'[a] \notin lists'[a][l]
      OBVIOUS
    <3>1. /\ alloc_page'[a] = alloc_page[a] /\ alloc_page[a] # p
          /\ alloc_page[a] \in mapped \ empty_pages /\ allocator[alloc_page[a]] = a
          /\ alloc_page[a] # evac_page[a]
          /\ \A l \in ListName : alloc_page[a] \notin lists[a][l]
      BY <1>9 DEF PlaceInv, CursorsLeave
    <3>2. alloc_page[a] \in Page \ {p}
      BY <3>1 DEF PagesTypeOK
    <3> QED
      BY <1>5, <1>7, <1>9, <3>1, <3>2 DEF CursorsLeave
  <2>2. \A a \in Alloc : evac_page'[a] # NULL =>
          /\ evac_page'[a] \in mapped' \ empty_pages'
          /\ allocator'[evac_page'[a]] = a
          /\ \A l \in ListName : evac_page'[a] \notin lists'[a][l]
    <3> SUFFICES ASSUME NEW a \in Alloc, evac_page'[a] # NULL
                 PROVE  /\ evac_page'[a] \in mapped' \ empty_pages'
                        /\ allocator'[evac_page'[a]] = a
                        /\ \A l \in ListName : evac_page'[a] \notin lists'[a][l]
      OBVIOUS
    <3>1. /\ evac_page'[a] = evac_page[a] /\ evac_page[a] # p
          /\ evac_page[a] \in mapped \ empty_pages /\ allocator[evac_page[a]] = a
          /\ \A l \in ListName : evac_page[a] \notin lists[a][l]
      BY <1>9 DEF PlaceInv, CursorsLeave
    <3>2. evac_page[a] \in Page \ {p}
      BY <3>1 DEF PagesTypeOK
    <3> QED
      BY <1>5, <1>7, <3>1, <3>2
  <2>3. \A a \in Alloc, l \in ListName : \A q \in lists'[a][l] :
          /\ q \in mapped' \ empty_pages'
          /\ allocator'[q] = a
          /\ \A m \in ListName : q \in lists'[a][m] => m = l
    <3> SUFFICES ASSUME NEW a \in Alloc, NEW l \in ListName, NEW q \in lists'[a][l]
                 PROVE  /\ q \in mapped' \ empty_pages'
                        /\ allocator'[q] = a
                        /\ \A m \in ListName : q \in lists'[a][m] => m = l
      OBVIOUS
    <3>1. lists'[a][l] \subseteq Page
      <4>1. lists' \in [Alloc -> [ListName -> SUBSET Page]]
        BY MovedLists DEF PutAway
      <4> QED
        BY <4>1
    <3>2. CASE q = p
      <4>1. a = A /\ l = to /\ to # "empty"
        BY <1>4, <3>2 DEF ListName
      <4> QED
        BY <1>4, <1>7, <3>2, <4>1
    <3>3. CASE q # p
      <4>1. q \in lists[a][l] /\ q \in Page \ {p}
        BY <1>5, <3>1, <3>3
      <4>2. /\ q \in mapped \ empty_pages /\ allocator[q] = a
            /\ \A m \in ListName : q \in lists[a][m] => m = l
        BY <4>1 DEF PlaceInv
      <4> QED
        BY <1>5, <1>7, <4>1, <4>2
    <3> QED
      BY <3>2, <3>3
  <2>4. \A q \in mapped' \ empty_pages' :
          \/ alloc_page'[allocator'[q]] = q
          \/ evac_page'[allocator'[q]] = q
          \/ \E l \in ListName : q \in lists'[allocator'[q]][l]
    <3> SUFFICES ASSUME NEW q \in mapped', q \notin empty_pages'
                 PROVE  \/ alloc_page'[allocator'[q]] = q
                        \/ evac_page'[allocator'[q]] = q
                        \/ \E l \in ListName : q \in lists'[allocator'[q]][l]
      OBVIOUS
    <3>1. q \in Page /\ allocator[q] \in Alloc
      BY <1>7 DEF PagesTypeOK
    <3>2. CASE q = p
      <4>1. to \in ListName
        BY <1>7, <3>2
      <4> QED
        BY <1>1, <1>4, <1>7, <3>2, <4>1
    <3>3. CASE q # p
      <4>1. q \in mapped \ empty_pages
        BY <1>7, <3>1, <3>3
      <4>2. \/ alloc_page[allocator[q]] = q
            \/ evac_page[allocator[q]] = q
            \/ \E l \in ListName : q \in lists[allocator[q]][l]
        BY <4>1 DEF PlaceInv
      <4> QED
        BY <1>5, <1>7, <1>9, <3>1, <3>3, <4>2 DEF CursorsLeave
    <3> QED
      BY <3>2, <3>3
  <2> QED
    BY <2>1, <2>2, <2>3, <2>4 DEF PlaceInv
<1> QED
  BY <1>4, <1>8, <1>9, <1>10

-----------------------------------------------------------------------------
(***************************************************************************)
(* Pages that are handed out.                                              *)
(***************************************************************************)

(* Page p, now in no place, is one of allocator a's and has room. *)
Taken(a, p) ==
  /\ OthersStay(p)
  /\ p \in mapped' \ empty_pages'
  /\ allocator'[p] = a
  /\ \A b \in Alloc, l \in ListName : p \notin lists'[b][l]
  /\ \A b \in Alloc : alloc_page[b] # p /\ evac_page[b] # p
  /\ freecount'[p] > 0
  /\ freecount'[p] + young[p] + old[p] <= EntryCount[a]
  /\ young[p] = 0
  /\ ~IsFull(approx_utilization'[p], EntryCount[a])
  /\ \A q \in Page \ {p} : /\ freecount'[q] = freecount[q]
                           /\ approx_utilization'[q] = approx_utilization[q]
  /\ mapped' \in SUBSET Page /\ mapped \subseteq mapped' /\ empty_pages' \in SUBSET mapped'
  /\ lists' \in [Alloc -> [ListName -> SUBSET Page]]
  /\ allocator' \in [Page -> Alloc]
  /\ freecount' \in [Page -> Nat]
  /\ approx_utilization' \in [Page -> Nat]

LEMMA LowestPageTaken ==
  ASSUME PagesInv, NEW a \in Alloc, NEW l \in {"low", "high"}, NEW p \in Page,
         TakeLowest(a, l, p)
  PROVE  Taken(a, p)
<1> USE DEF PagesInv
<1>1. p \in lists[a][l] /\ l \in ListName
  BY DEF TakeLowest, ListName
<1>2. /\ p \in mapped \ empty_pages /\ allocator[p] = a
      /\ \A m \in ListName : p \in lists[a][m] => m = l
  BY <1>1 DEF PlaceInv
<1>3. \A b \in Alloc : alloc_page[b] # p /\ evac_page[b] # p
  BY <1>1, <1>2, PageAssumption DEF PlaceInv, PagesTypeOK
<1>4. Entries(p) = EntryCount[a] /\ Entries(p) \in 1..99
  BY <1>2, EntriesType DEF Entries
<1>5. /\ IsLow(approx_utilization[p], Entries(p)) \/ IsHigh(approx_utilization[p], Entries(p))
      /\ InUse(p) <= approx_utilization[p]
  BY <1>1 DEF ClassInv
<1>6. /\ freecount[p] \in Nat /\ young[p] \in Nat /\ old[p] \in Nat
      /\ approx_utilization[p] \in Nat
  BY DEF PagesTypeOK
<1>7. freecount[p] > 0 /\ ~IsFull(approx_utilization[p], EntryCount[a])
  BY <1>4, <1>5, <1>6 DEF IsLow, IsHigh, IsFull, InUse
<1>8. young[p] = 0
  <2>1. p \notin lists[a].pendinggc
    BY <1>1, <1>2 DEF ListName
  <2> QED
    BY <1>2, <1>3, <1>6, <2>1 DEF YoungInv
<1>9. freecount[p] + young[p] + old[p] <= EntryCount[a]
  BY <1>4 DEF CountInv
<1>10. lists' \in [Alloc -> [ListName -> SUBSET Page]]
  BY <1>1 DEF TakeLowest, PagesTypeOK
<1>11. \A b \in Alloc, m \in ListName, q \in Page :
         q \in lists'[b][m] <=> q \in lists[b][m] /\ ~(b = a /\ m = l /\ q = p)
  BY <1>1 DEF TakeLowest, PagesTypeOK
<1>12. \A b \in Alloc, m \in ListName : p \notin lists'[b][m]
  BY <1>2, <1>11 DEF PlaceInv
<1>13. /\ mapped' = mapped /\ allocator' = allocator /\ empty_pages' = empty_pages
       /\ freecount' = freecount /\ approx_utilization' = approx_utilization
  BY DEF TakeLowest, mapping
<1>14. OthersStay(p)
  BY <1>11, <1>13 DEF OthersStay
<1> QED
  BY <1>2, <1>3, <1>7, <1>8, <1>9, <1>10, <1>12, <1>13, <1>14 DEF Taken, PagesTypeOK

LEMMA FreshTaken ==
  ASSUME PagesInv, NEW a \in Alloc, NEW p \in Page, AllocateFreshPage(a, p)
  PROVE  Taken(a, p)
<1> USE DEF PagesInv
<1>1. \/ p \in empty_pages /\ empty_pages' = empty_pages \ {p} /\ mapped' = mapped
      \/ p \in Page \ mapped /\ mapped' = mapped \cup {p} /\ empty_pages' = empty_pages
  BY DEF AllocateFreshPage
<1>2. EntryCount[a] \in 1..99 /\ Entries(p) \in 1..99
  BY EntryAssumption, EntriesType
<1>3. /\ freecount[p] \in Nat /\ young[p] \in Nat /\ old[p] \in Nat
      /\ freecount[p] + young[p] + old[p] <= Entries(p)
  BY DEF PagesTypeOK, CountInv
<1>4. young[p] = 0 /\ old[p] = 0
  <2>1. CASE p \in empty_pages
    <3>1. freecount[p] = Entries(p)
      BY <2>1 DEF ClassInv
    <3> QED
      BY <1>2, <1>3, <3>1
  <2>2. CASE p \in Page \ mapped
    BY <2>2 DEF CountInv
  <2> QED
    BY <1>1, <2>1, <2>2
<1>5. /\ freecount' = [freecount EXCEPT ![p] = EntryCount[a]]
      /\ approx_utilization' = [approx_utilization EXCEPT ![p] = 100 * EntryCount[a]]
      /\ allocator' = [allocator EXCEPT ![p] = a]
      /\ lists' = lists
  BY DEF AllocateFreshPage, NotCalculated
<1>6. 100 * EntryCount[a] \in Nat /\ ~IsFull(100 * EntryCount[a], EntryCount[a])
  BY <1>2 DEF IsFull
<1>7. /\ freecount' \in [Page -> Nat] /\ freecount'[p] = EntryCount[a]
      /\ approx_utilization' \in [Page -> Nat] /\ approx_utilization'[p] = 100 * EntryCount[a]
      /\ allocator' \in [Page -> Alloc] /\ allocator'[p] = a
      /\ \A q \in Page \ {p} : /\ freecount'[q] = freecount[q]
                               /\ approx_utilization'[q] = approx_utilization[q]
                               /\ allocator'[q] = allocator[q]
  BY <1>2, <1>5, <1>6 DEF PagesTypeOK
<1>8. p \in empty_pages \/ p \notin mapped
  BY <1>1
<1>9. \A b \in Alloc, m \in ListName : p \notin lists[b][m]
  BY <1>8 DEF PlaceInv
<1>10. \A b \in Alloc : alloc_page[b] # p /\ evac_page[b] # p
  BY <1>8, PageAssumption DEF PlaceInv, PagesTypeOK
<1>11. /\ mapped' \in SUBSET Page /\ mapped \subseteq mapped' /\ empty_pages' \in SUBSET mapped'
       /\ p \in mapped' \ empty_pages'
       /\ \A q \in Page \ {p} : /\ q \in mapped' <=> q \in mapped
                                /\ q \in empty_pages' <=> q \in empty_pages
  BY <1>1 DEF PagesTypeOK
<1>12. OthersStay(p)
  BY <1>5, <1>7, <1>11 DEF OthersStay
<1> QED
  BY <1>2, <1>4, <1>5, <1>6, <1>7, <1>9, <1>10, <1>11, <1>12 DEF Taken, PagesTypeOK

(* A page for the program, and one for the survivors of a collection. *)
LEMMA FreshPageTaken ==
  ASSUME PagesInv, NEW a \in Alloc, NEW p \in Page,
         FreshPageForAllocator(a, p) \/ FreshPageForEvacuation(a, p)
  PROVE  Taken(a, p)
  BY LowestPageTaken, FreshTaken DEF FreshPageForAllocator, FreshPageForEvacuation

LEMMA TakenPlaces ==
  ASSUME PagesInv, NEW a \in Alloc, NEW p \in Page, Taken(a, p),
         \/ /\ alloc_page[a] = NULL
            /\ alloc_page' = [alloc_page EXCEPT ![a] = p] /\ evac_page' = evac_page
         \/ /\ evac_page[a] = NULL
            /\ evac_page' = [evac_page EXCEPT ![a] = p] /\ alloc_page' = alloc_page
  PROVE  PlaceInv'
<1> USE DEF PagesInv
<1>1. NULL \notin Page
  BY PageAssumption
<1>2. /\ alloc_page \in [Alloc -> Page \cup {NULL}]
      /\ evac_page \in [Alloc -> Page \cup {NULL}]
  BY DEF PagesTypeOK
<1>3. \A b \in Alloc :
        /\ alloc_page'[b] = alloc_page[b] \/ (alloc_page'[b] = p /\ b = a)
        /\ evac_page'[b] = evac_page[b] \/ (evac_page'[b] = p /\ b = a)
        /\ ~(alloc_page'[b] = p /\ evac_page'[b] = p)
        /\ alloc_page[b] # NULL => alloc_page'[b] = alloc_page[b]
        /\ evac_page[b] # NULL => evac_page'[b] = evac_page[b]
  BY <1>1, <1>2 DEF Taken
<1>4. alloc_page'[a] = p \/ evac_page'[a] = p
  BY <1>2
<1>5. \A q \in Page \ {p} :
        /\ allocator'[q] = allocator[q] /\ allocator[q] \in Alloc
        /\ q \in mapped' <=> q \in mapped
        /\ q \in empty_pages' <=> q \in empty_pages
  BY DEF Taken, OthersStay, PagesTypeOK
<1>6. \A q \in Page \ {p}, b \in Alloc, l \in ListName :
        q \in lists'[b][l] <=> q \in lists[b][l]
  BY DEF Taken, OthersStay
<1>7. /\ p \in mapped' \ empty_pages' /\ allocator'[p] = a
      /\ \A b \in Alloc, l \in ListName : p \notin lists'[b][l]
      /\ mapped' \subseteq Page /\ lists' \in [Alloc -> [ListName -> SUBSET Page]]
  BY DEF Taken
<1>8. ASSUME NEW b \in Alloc, alloc_page'[b] # NULL
      PROVE  /\ alloc_page'[b] \in mapped' \ empty_pages'
             /\ allocator'[alloc_page'[b]] = b
             /\ alloc_page'[b] # evac_page'[b]
             /\ \A l \in ListName : alloc_page'[b] \notin lists'[b][l]
  <2>1. CASE alloc_page'[b] = p
    BY <1>3, <1>4, <1>7, <2>1 DEF Taken
  <2>2. CASE alloc_page'[b] # p
    <3>1. alloc_page'[b] = alloc_page[b] /\ alloc_page[b] \in Page \ {p}
      BY <1>2, <1>3, <1>8, <2>2
    <3>2. /\ alloc_page[b] \in mapped \ empty_pages /\ allocator[alloc_page[b]] = b
          /\ alloc_page[b] # evac_page[b]
          /\ \A l \in ListName : alloc_page[b] \notin lists[b][l]
      BY <1>8, <3>1 DEF PlaceInv
    <3> QED
      BY <1>3, <1>5, <1>6, <2>2, <3>1, <3>2
  <2> QED
    BY <2>1, <2>2
<1>9. ASSUME NEW b \in Alloc, evac_page'[b] # NULL
      PROVE  /\ evac_page'[b] \in mapped' \ empty_pages'
             /\ allocator'[evac_page'[b]] = b
             /\ \A l \in ListName : evac_page'[b] \notin lists'[b][l]
  <2>1. CASE evac_page'[b] = p
    BY <1>3, <1>4, <1>7, <2>1 DEF Taken
  <2>2. CASE evac_page'[b] # p
    <3>1. evac_page'[b] = evac_page[b] /\ evac_page[b] \in Page \ {p}
      BY <1>2, <1>3, <1>9, <2>2
    <3>2. /\ evac_page[b] \in mapped \ empty_pages /\ allocator[evac_page[b]] = b
          /\ \A l \in ListName : evac_page[b] \notin lists[b][l]
      BY <1>9, <3>1 DEF PlaceInv
    <3> QED
      BY <1>5, <1>6, <3>1, <3>2
  <2> QED
    BY <2>1, <2>2
<1>10. ASSUME NEW b \in Alloc, NEW l \in ListName, NEW q \in lists'[b][l]
       PROVE  /\ q \in mapped' \ empty_pages' /\ allocator'[q] = b
              /\ \A m \in ListName : q \in lists'[b][m] => m = l
  <2>1. q \in Page \ {p} /\ q \in lists[b][l]
    BY <1>6, <1>7
  <2>2. /\ q \in mapped \ empty_pages /\ allocator[q] = b
        /\ \A m \in ListName : q \in lists[b][m] => m = l
    BY <2>1 DEF PlaceInv
  <2> QED
    BY <1>5, <1>6, <2>1, <2>2
<1>11. ASSUME NEW q \in mapped', q \notin empty_pages'
       PROVE  \/ alloc_page'[allocator'[q]] = q
              \/ evac_page'[allocator'[q]] = q
              \/ \E l \in ListName : q \in lists'[allocator'[q]][l]
  <2>1. CASE q = p
    BY <1>4, <1>7, <2>1
  <2>2. CASE q # p
    <3>1. q \in Page \ {p}
      BY <1>7, <2>2
    <3>2. q \in mapped \ empty_pages
      BY <1>5, <1>11, <3>1
    <3>3. \/ alloc_page[allocator[q]] = q
          \/ evac_page[allocator[q]] = q
          \/ \E l \in ListName : q \in lists[allocator[q]][l]
      BY <3>2 DEF PlaceInv
    <3> QED
      BY <1>1, <1>3, <1>5, <1>6, <3>1, <3>3
  <2> QED
    BY <2>1, <2>2
<1> QED
  BY <1>8, <1>9, <1>10, <1>11 DEF PlaceInv

-----------------------------------------------------------------------------
(***************************************************************************)
(* A page that is put away with u entries in use, where processPage or its *)
(* caller wants it.                                                        *)
(***************************************************************************)
Fits(l, u, n) ==
  /\ l \in ListName \cup {"empty"}
  /\ l = "empty" <=> u = 0
  /\ l = "low" => IsLow(u, n)
  /\ l = "high" => IsHigh(u, n)
  /\ l \in {"filled", "pendinggc"} => IsFull(u, n)

LEMMA ListToFits ==
  ASSUME PagesTypeOK, NEW p \in Page, NEW u \in 0..Entries(p)
  PROVE  Fits(ListTo(p, u), u, Entries(p))
<1>1. Entries(p) \in 1..99
  BY EntriesType
<1> QED
  BY <1>1, ListToWhere DEF Fits

LEMMA PutAwayInv ==
  ASSUME PagesInv, NEW p \in mapped, NEW u \in 0..Entries(p), NEW from, NEW to,
         PutAway(p, from, to), Fits(to, u, Entries(p)),
         approx_utilization' = [approx_utilization EXCEPT ![p] = u],
         freecount' \in [Page -> Nat], young' \in [Page -> Nat], old' \in [Page -> Nat],
         freecount'[p] = Entries(p) - u,
         freecount'[p] + young'[p] + old'[p] <= Entries(p),
         young'[p] > 0 => to = "pendinggc",
         \A q \in Page \ {p} :
           freecount'[q] = freecount[q] /\ young'[q] = young[q] /\ old'[q] = old[q]
  PROVE  /\ PlaceInv' /\ ClassInv' /\ CountInv' /\ YoungInv'
         /\ OthersStay(p) /\ CursorsLeave(p)
         /\ \A a \in Alloc, l \in ListName :
              p \in lists'[a][l] <=> a = allocator[p] /\ l = to
         /\ lists' \in [Alloc -> [ListName -> SUBSET Page]]
         /\ empty_pages' \in SUBSET mapped'
         /\ approx_utilization' \in [Page -> Nat]
<1> USE DEF PagesInv
<1> DEFINE A == allocator[p]
<1>1. p \in Page /\ A \in Alloc /\ NULL \notin Page /\ Entries(p) \in 1..99
  BY PageAssumption, EntriesType DEF PagesTypeOK
<1>2. to \in ListName \cup {"empty"}
  BY DEF Fits
<1>3. /\ PlaceInv' /\ OthersStay(p) /\ CursorsLeave(p)
      /\ \A a \in Alloc, l \in ListName : p \in lists'[a][l] <=> a = A /\ l = to
  BY <1>2, PutAwayPlaces
<1>4. /\ mapped' = mapped /\ allocator' = allocator
      /\ empty_pages' = IF to = "empty" THEN empty_pages \cup {p} ELSE empty_pages
  BY DEF PutAway, mapping
<1>5. /\ lists' \in [Alloc -> [ListName -> SUBSET Page]]
      /\ empty_pages' \in SUBSET mapped'
      /\ approx_utilization' \in [Page -> Nat]
      /\ approx_utilization'[p] = u
      /\ \A q \in Page \ {p} : approx_utilization'[q] = approx_utilization[q]
  <2>1. lists' \in [Alloc -> [ListName -> SUBSET Page]]
    BY MovedLists DEF PutAway
  <2> QED
    BY <1>1, <1>4, <2>1 DEF PagesTypeOK
<1>6. \A q \in Page : Entries(q)' = Entries(q)
  BY <1>4 DEF Entries
<1>7. /\ InUse(p)' = u
      /\ \A q \in Page \ {p} : InUse(q)' = InUse(q)
  BY <1>1, <1>6 DEF InUse
<1>8. \A q \in Page \ {p}, a \in Alloc, l \in ListName :
        q \in lists'[a][l] <=> q \in lists[a][l]
  BY <1>3 DEF OthersStay
<1>9. {"low", "high", "filled", "pendinggc"} = ListName
  BY DEF ListName
<1>10. ClassInv'
  <2>1. ASSUME NEW a \in Alloc, NEW q \in lists'[a].low
        PROVE  IsLow(approx_utilization'[q], Entries(q)') /\ InUse(q)' <= approx_utilization'[q]
    <3>1. q \in Page
      BY <1>5, <1>9
    <3>2. CASE q = p
      BY <1>3, <1>5, <1>6, <1>7, <1>9, <3>2 DEF Fits
    <3>3. CASE q # p
      BY <1>5, <1>6, <1>7, <1>8, <1>9, <3>1, <3>3 DEF ClassInv
    <3> QED
      BY <3>2, <3>3
  <2>2. ASSUME NEW a \in Alloc, NEW q \in lists'[a].high
        PROVE  IsHigh(approx_utilization'[q], Entries(q)') /\ InUse(q)' <= approx_utilization'[q]
    <3>1. q \in Page
      BY <1>5, <1>9
    <3>2. CASE q = p
      BY <1>3, <1>5, <1>6, <1>7, <1>9, <3>2 DEF Fits
    <3>3. CASE q # p
      BY <1>5, <1>6, <1>7, <1>8, <1>9, <3>1, <3>3 DEF ClassInv
    <3> QED
      BY <3>2, <3>3
  <2>3. ASSUME NEW a \in Alloc, NEW q \in lists'[a].filled \cup lists'[a].pendinggc
        PROVE  IsFull(approx_utilization'[q], Entries(q)')
    <3>1. q \in Page
      BY <1>5, <1>9
    <3>2. CASE q = p
      BY <1>3, <1>5, <1>6, <1>9, <3>2 DEF Fits
    <3>3. CASE q # p
      BY <1>5, <1>6, <1>8, <1>9, <3>1, <3>3 DEF ClassInv
    <3> QED
      BY <3>2, <3>3
  <2>4. ASSUME NEW q \in empty_pages'
        PROVE  approx_utilization'[q] = 0 /\ freecount'[q] = Entries(q)'
    <3>1. q \in Page
      BY <1>4 DEF PagesTypeOK
    <3>2. CASE q = p
      <4>1. p \notin empty_pages
        BY <1>1 DEF PutAway, PlaceInv
      <4>2. u = 0
        BY <1>4, <3>2, <4>1 DEF Fits
      <4> QED
        BY <1>1, <1>5, <1>6, <3>2, <4>2
    <3>3. CASE q # p
      BY <1>4, <1>5, <1>6, <3>1, <3>3 DEF ClassInv
    <3> QED
      BY <3>2, <3>3
  <2>5. ASSUME NEW a \in Alloc, alloc_page'[a] # NULL
        PROVE  ~IsFull(approx_utilization'[alloc_page'[a]],
                       EntryCount[allocator'[alloc_page'[a]]])
    <3>1. alloc_page'[a] = alloc_page[a] /\ alloc_page[a] \in Page \ {p}
      BY <1>3, <2>5 DEF CursorsLeave, PagesTypeOK
    <3>2. ~IsFull(approx_utilization[alloc_page[a]], EntryCount[allocator[alloc_page[a]]])
      BY <2>5, <3>1 DEF ClassInv, Entries
    <3> QED
      BY <1>4, <1>5, <3>1, <3>2
  <2> QED
    BY <2>1, <2>2, <2>3, <2>4, <2>5 DEF ClassInv, Entries
<1>11. CountInv'
  BY <1>4, <1>6 DEF CountInv
<1>12. YoungInv'
  <2> SUFFICES ASSUME NEW q \in mapped', young'[q] > 0
               PROVE  \/ alloc_page'[allocator'[q]] = q
                      \/ q \in lists'[allocator'[q]].pendinggc
    BY DEF YoungInv
  <2>1. CASE q = p
    BY <1>1, <1>3, <1>4, <1>9, <2>1
  <2>2. CASE q # p
    <3>1. q \in Page \ {p} /\ q \in mapped /\ allocator[q] \in Alloc
      BY <1>4, <2>2 DEF PagesTypeOK
    <3>2. alloc_page[allocator[q]] = q \/ q \in lists[allocator[q]].pendinggc
      BY <3>1 DEF YoungInv
    <3> QED
      BY <1>3, <1>4, <1>8, <1>9, <3>1, <3>2 DEF CursorsLeave
  <2> QED
    BY <2>1, <2>2
<1> QED
  BY <1>3, <1>5, <1>10, <1>11, <1>12

-----------------------------------------------------------------------------
(***************************************************************************)
(* Steps that leave every page in its place.                               *)
(***************************************************************************)
LEMMA QuietStep ==
  ASSUME PagesInv, UNCHANGED <<refreshing, counting, cursors, placing, mapping, objects>>,
         pc' \in Phases, evacuating' \in Alloc \cup {NULL},
         decremented_pages' \in SUBSET mapped,
         pc' \in {"mutator", "refresh", "evacuate"} => pc \in {"mutator", "refresh", "evacuate"},
         pc' \in {"mutator", "refresh"} => pc' = pc
  PROVE  PagesInv'
<1> USE DEF PagesInv, counting, cursors, placing, mapping, objects
<1>1. PagesTypeOK'
  BY DEF PagesTypeOK
<1>2. PlaceInv'
  BY DEF PlaceInv
<1>3. ClassInv'
  BY DEF ClassInv, Entries, InUse
<1>4. CountInv' /\ YoungInv'
  BY DEF CountInv, YoungInv, Entries
<1>5. FreelistInv' /\ ControlInv'
  BY DEF FreelistInv, ControlInv
<1> QED
  BY <1>1, <1>2, <1>3, <1>4, <1>5

(* Entries are taken from pages in use, or objects die. *)
LEMMA ObjectsChange ==
  ASSUME PagesInv, UNCHANGED <<alloc_page, evac_page, placing, mapping>>,
         freecount' \in [Page -> Nat],
         \A q \in empty_pages : freecount'[q] = freecount[q],
         \A a \in Alloc, l \in ListName : \A q \in lists[a][l] : freecount'[q] >= freecount[q]
  PROVE  PlaceInv' /\ ClassInv'
<1> USE DEF PagesInv, placing, mapping
<1>1. PlaceInv'
  BY DEF PlaceInv
<1>2. \A q \in Page : Entries(q)' = Entries(q) /\ Entries(q) \in 1..99
  BY EntriesType DEF Entries
<1>3. \A a \in Alloc, l \in ListName : lists[a][l] \subseteq Page
  BY DEF PagesTypeOK
<1>4. {"low", "high", "filled", "pendinggc"} = ListName
  BY DEF ListName
<1>5. freecount \in [Page -> Nat] /\ approx_utilization \in [Page -> Nat]
  BY DEF PagesTypeOK
<1>6. \A a \in Alloc : \A q \in lists[a].low \cup lists[a].high :
        InUse(q)' <= InUse(q) /\ InUse(q)' \in Int /\ InUse(q) \in Int
  <2> SUFFICES ASSUME NEW a \in Alloc, NEW q \in lists[a].low \cup lists[a].high
               PROVE  InUse(q)' <= InUse(q) /\ InUse(q)' \in Int /\ InUse(q) \in Int
    OBVIOUS
  <2>1. q \in Page /\ freecount'[q] >= freecount[q]
    BY <1>3, <1>4
  <2> QED
    BY <1>2, <1>5, <2>1 DEF InUse
<1>7. ASSUME NEW a \in Alloc, NEW q \in lists'[a].low
      PROVE  IsLow(approx_utilization'[q], Entries(q)') /\ InUse(q)' <= approx_utilization'[q]
  <2>1. q \in Page /\ q \in lists[a].low
    BY <1>3, <1>4
  <2>2. IsLow(approx_utilization[q], Entries(q)) /\ InUse(q) <= approx_utilization[q]
    BY <2>1 DEF ClassInv
  <2> QED
    BY <1>2, <1>5, <1>6, <2>1, <2>2
<1>8. ASSUME NEW a \in Alloc, NEW q \in lists'[a].high
      PROVE  IsHigh(approx_utilization'[q], Entries(q)') /\ InUse(q)' <= approx_utilization'[q]
  <2>1. q \in Page /\ q \in lists[a].high
    BY <1>3, <1>4
  <2>2. IsHigh(approx_utilization[q], Entries(q)) /\ InUse(q) <= approx_utilization[q]
    BY <2>1 DEF ClassInv
  <2> QED
    BY <1>2, <1>5, <1>6, <2>1, <2>2
<1>9. ASSUME NEW a \in Alloc, NEW q \in lists'[a].filled \cup lists'[a].pendinggc
      PROVE  IsFull(approx_utilization'[q], Entries(q)')
  BY <1>2, <1>3, <1>4 DEF ClassInv
<1>10. ASSUME NEW q \in empty_pages'
       PROVE  approx_utilization'[q] = 0 /\ freecount'[q] = Entries(q)'
  <2>1. q \in Page
    BY DEF PagesTypeOK
  <2> QED
    BY <1>2, <2>1 DEF ClassInv
<1>11. ASSUME NEW a \in Alloc, alloc_page'[a] # NULL
       PROVE  ~IsFull(approx_utilization'[alloc_page'[a]],
                      EntryCount[allocator'[alloc_page'[a]]])
  BY <1>11 DEF ClassInv, Entries
<1>12. ClassInv'
  BY <1>7, <1>8, <1>9, <1>10, <1>11 DEF ClassInv, Entries
<1> QED
  BY <1>1, <1>12

LEMMA AllocateStep ==
  ASSUME PagesInv, NEW a \in Alloc, Allocate(a)
  PROVE  PagesInv'
<1> USE DEF PagesInv
<1> DEFINE p == alloc_page[a]
<1>1. pc = "mutator" /\ freelist[a] > 0 /\ freelist[a] \in Nat
  BY DEF Allocate, PagesTypeOK
<1>2. p # NULL /\ freelist[a] = freecount[p]
  BY <1>1 DEF FreelistInv
<1>3. /\ p \in mapped \ empty_pages /\ p \in Page /\ allocator[p] = a /\ p # evac_page[a]
      /\ \A l \in ListName : p \notin lists[a][l]
  BY <1>2 DEF PlaceInv, PagesTypeOK
<1>4. /\ freelist' = [freelist EXCEPT ![a] = freelist[a] - 1]
      /\ freecount' = [freecount EXCEPT ![p] = freecount[p] - 1]
      /\ young' = [young EXCEPT ![p] = young[p] + 1]
      /\ UNCHANGED <<control, counting, evacfreelist, alloc_page, evac_page, placing,
                     mapping, old, decremented_pages>>
  BY DEF Allocate
<1>5. freecount[p] \in Nat /\ freecount[p] > 0 /\ young[p] \in Nat
  BY <1>1, <1>2, <1>3 DEF PagesTypeOK
<1>6. /\ freecount' \in [Page -> Nat] /\ young' \in [Page -> Nat]
      /\ freecount'[p] = freecount[p] - 1 /\ young'[p] = young[p] + 1
      /\ \A q \in Page \ {p} : freecount'[q] = freecount[q] /\ young'[q] = young[q]
  BY <1>3, <1>4, <1>5 DEF PagesTypeOK
<1>7. \A b \in Alloc, l \in ListName : p \notin lists[b][l]
  BY <1>3 DEF PlaceInv
<1>8. PlaceInv' /\ ClassInv'
  <2>1. \A q \in empty_pages : freecount'[q] = freecount[q]
    BY <1>3, <1>6 DEF PagesTypeOK
  <2>2. \A b \in Alloc, l \in ListName : \A q \in lists[b][l] : freecount'[q] >= freecount[q]
    <3> SUFFICES ASSUME NEW b \in Alloc, NEW l \in ListName, NEW q \in lists[b][l]
                 PROVE  freecount'[q] >= freecount[q]
      OBVIOUS
    <3>1. q \in Page \ {p}
      BY <1>7 DEF PagesTypeOK
    <3> QED
      BY <1>6, <3>1 DEF PagesTypeOK
  <2> QED
    BY <1>4, <1>6, <2>1, <2>2, ObjectsChange
<1>9. PagesTypeOK'
  BY <1>1, <1>4, <1>6 DEF PagesTypeOK, control, counting, placing, mapping
<1>10. CountInv'
  <2>1. mapped' = mapped /\ old' = old /\ \A q \in Page : Entries(q)' = Entries(q)
    BY <1>4 DEF mapping, Entries
  <2>2. ASSUME NEW q \in Page
        PROVE  freecount'[q] + young'[q] + old'[q] <= Entries(q)'
    <3>1. freecount[q] + young[q] + old[q] <= Entries(q)
      BY DEF CountInv
    <3>2. /\ freecount[q] \in Nat /\ young[q] \in Nat /\ old[q] \in Nat
          /\ Entries(q) \in 1..99
      BY EntriesType DEF PagesTypeOK
    <3>3. CASE q = p
      BY <1>5, <1>6, <2>1, <3>1, <3>2, <3>3
    <3>4. CASE q # p
      BY <1>5, <1>6, <2>1, <3>1, <3>4
    <3> QED
      BY <3>3, <3>4
  <2>3. \A q \in Page \ mapped' : young'[q] = 0 /\ old'[q] = 0
    BY <1>3, <1>6, <2>1 DEF CountInv
  <2> QED
    BY <2>2, <2>3 DEF CountInv
<1>11. YoungInv'
  BY <1>3, <1>4, <1>6 DEF YoungInv, mapping, placing, PagesTypeOK
<1>12. FreelistInv' /\ ControlInv'
  <2>1. \A b \in Alloc : alloc_page[b] # NULL => (alloc_page[b] = p <=> b = a)
    BY <1>2, <1>3 DEF PlaceInv
  <2>2. \A b \in Alloc : evac_page[b] # p
    BY <1>2, <1>3 DEF PlaceInv
  <2>3. \A b \in Alloc : freelist'[b] = IF b = a THEN freelist[a] - 1 ELSE freelist[b]
    BY <1>4 DEF PagesTypeOK
  <2>4. \A b \in Alloc : alloc_page[b] # NULL => freelist'[b] = freecount'[alloc_page[b]]
    <3> SUFFICES ASSUME NEW b \in Alloc, alloc_page[b] # NULL
                 PROVE  freelist'[b] = freecount'[alloc_page[b]]
      OBVIOUS
    <3>1. alloc_page[b] \in Page /\ freelist[b] = freecount[alloc_page[b]]
      BY <1>1 DEF FreelistInv, PagesTypeOK
    <3> QED
      BY <1>2, <1>6, <2>1, <2>3, <3>1
  <2>5. \A b \in Alloc : evac_page[b] # NULL => evacfreelist[b] = freecount'[evac_page[b]]
    <3> SUFFICES ASSUME NEW b \in Alloc, evac_page[b] # NULL
                 PROVE  evacfreelist[b] = freecount'[evac_page[b]]
      OBVIOUS
    <3>1. evac_page[b] \in Page /\ evacfreelist[b] = freecount[evac_page[b]]
      BY <1>1 DEF FreelistInv, PagesTypeOK
    <3> QED
      BY <1>6, <2>2, <3>1
  <2>6. \A b \in Alloc : alloc_page[b] = NULL => freelist'[b] = 0
    BY <1>2, <2>3 DEF FreelistInv
  <2> QED
    BY <1>4, <2>4, <2>5, <2>6 DEF FreelistInv, ControlInv, control
<1> QED
  BY <1>8, <1>9, <1>10, <1>11, <1>12

LEMMA FreeObjectStep ==
  ASSUME PagesInv, NEW p \in mapped, FreeObject(p)
  PROVE  PagesInv'
<1> USE DEF PagesInv
<1>1. p \in Page /\ old[p] > 0 /\ pc = "decrement"
  BY DEF FreeObject, PagesTypeOK
<1>2. /\ old' = [old EXCEPT ![p] = old[p] - 1]
      /\ freecount' = [freecount EXCEPT ![p] = freecount[p] + 1]
      /\ decremented_pages' = decremented_pages \cup {p}
      /\ UNCHANGED <<control, counting, cursors, placing, mapping, young>>
  BY DEF FreeObject
<1>3. /\ freecount' \in [Page -> Nat] /\ old' \in [Page -> Nat]
      /\ freecount'[p] = freecount[p] + 1 /\ old'[p] = old[p] - 1
      /\ \A q \in Page \ {p} : freecount'[q] = freecount[q] /\ old'[q] = old[q]
  BY <1>1, <1>2 DEF PagesTypeOK
<1>4. p \notin empty_pages
  <2>1. freecount[p] + young[p] + old[p] <= Entries(p)
    BY <1>1 DEF CountInv
  <2>2. p \in empty_pages => freecount[p] = Entries(p)
    BY DEF ClassInv
  <2> QED
    BY <1>1, <2>1, <2>2, EntriesType DEF PagesTypeOK
<1>5. PlaceInv' /\ ClassInv'
  <2>1. \A q \in empty_pages : freecount'[q] = freecount[q]
    BY <1>3, <1>4 DEF PagesTypeOK
  <2>2. \A b \in Alloc, l \in ListName : \A q \in lists[b][l] : freecount'[q] >= freecount[q]
    <3> SUFFICES ASSUME NEW b \in Alloc, NEW l \in ListName, NEW q \in lists[b][l]
                 PROVE  freecount'[q] >= freecount[q]
      OBVIOUS
    <3>1. q \in Page /\ freecount[q] \in Nat
      BY DEF PagesTypeOK
    <3> QED
      BY <1>3, <3>1
  <2> QED
    BY <1>2, <1>3, <2>1, <2>2, ObjectsChange DEF cursors
<1>6. PagesTypeOK'
  BY <1>2, <1>3 DEF PagesTypeOK, control, counting, cursors, placing, mapping
<1>7. CountInv'
  <2>1. mapped' = mapped /\ young' = young /\ \A q \in Page : Entries(q)' = Entries(q)
    BY <1>2 DEF mapping, Entries
  <2>2. ASSUME NEW q \in Page
        PROVE  freecount'[q] + young'[q] + old'[q] <= Entries(q)'
    <3>1. freecount[q] + young[q] + old[q] <= Entries(q)
      BY DEF CountInv
    <3>2. /\ freecount[q] \in Nat /\ young[q] \in Nat /\ old[q] \in Nat
          /\ Entries(q) \in 1..99
      BY EntriesType DEF PagesTypeOK
    <3>3. CASE q = p
      BY <1>3, <2>1, <3>1, <3>2, <3>3
    <3>4. CASE q # p
      BY <1>3, <2>1, <3>1, <3>4
    <3> QED
      BY <3>3, <3>4
  <2>3. \A q \in Page \ mapped' : young'[q] = 0 /\ old'[q] = 0
    BY <1>3, <2>1 DEF CountInv
  <2> QED
    BY <2>2, <2>3 DEF CountInv
<1>8. YoungInv'
  BY <1>2 DEF YoungInv, cursors, mapping, placing
<1>9. FreelistInv' /\ ControlInv'
  BY <1>1, <1>2 DEF FreelistInv, ControlInv, control, cursors
<1> QED
  BY <1>5, <1>6, <1>7, <1>8, <1>9

LEMMA EvacuateStep ==
  ASSUME PagesInv, NEW q \in mapped, Evacuate(q)
  PROVE  PagesInv'
<1> USE DEF PagesInv
<1> DEFINE a == allocator[q]
           p == evac_page[a]
<1>1. pc = "evacuate" /\ evacfreelist[a] > 0 /\ young[q] > 0 /\ q \in Page /\ a \in Alloc
  BY DEF Evacuate, PagesTypeOK
<1>2. p # NULL /\ evacfreelist[a] = freecount[p]
  BY <1>1 DEF FreelistInv, PagesTypeOK
<1>3. /\ p \in mapped \ empty_pages /\ p \in Page /\ allocator[p] = a /\ p # alloc_page[a]
      /\ \A l \in ListName : p \notin lists[a][l]
  BY <1>1, <1>2 DEF PlaceInv, PagesTypeOK
<1>4. p # q
  BY <1>1, <1>3 DEF YoungInv, ListName
<1>5. /\ young' = [young EXCEPT ![q] = young[q] - 1]
      /\ evacfreelist' = [evacfreelist EXCEPT ![a] = evacfreelist[a] - 1]
      /\ freecount' = [freecount EXCEPT ![p] = freecount[p] - 1]
      /\ old' = [old EXCEPT ![p] = old[p] + 1]
      /\ evacuating' = NULL
      /\ UNCHANGED <<pc, refreshing, counting, freelist, alloc_page, evac_page, placing,
                     mapping, decremented_pages>>
  BY DEF Evacuate
<1>6. freecount[p] \in Nat /\ freecount[p] > 0 /\ young[q] \in Nat /\ old[p] \in Nat
  BY <1>1, <1>2, <1>3 DEF PagesTypeOK
<1>7. /\ freecount' \in [Page -> Nat] /\ young' \in [Page -> Nat] /\ old' \in [Page -> Nat]
      /\ freecount'[p] = freecount[p] - 1 /\ old'[p] = old[p] + 1 /\ young'[q] = young[q] - 1
      /\ \A r \in Page \ {p} : freecount'[r] = freecount[r] /\ old'[r] = old[r]
      /\ \A r \in Page \ {q} : young'[r] = young[r]
  BY <1>1, <1>3, <1>5, <1>6 DEF PagesTypeOK
<1>8. \A b \in Alloc, l \in ListName : p \notin lists[b][l]
  BY <1>3 DEF PlaceInv
<1>9. PlaceInv' /\ ClassInv'
  <2>1. \A r \in empty_pages : freecount'[r] = freecount[r]
    BY <1>3, <1>7 DEF PagesTypeOK
  <2>2. \A b \in Alloc, l \in ListName : \A r \in lists[b][l] : freecount'[r] >= freecount[r]
    <3> SUFFICES ASSUME NEW b \in Alloc, NEW l \in ListName, NEW r \in lists[b][l]
                 PROVE  freecount'[r] >= freecount[r]
      OBVIOUS
    <3>1. r \in Page \ {p} /\ freecount[r] \in Nat
      BY <1>8 DEF PagesTypeOK
    <3> QED
      BY <1>7, <3>1
  <2> QED
    BY <1>5, <1>7, <2>1, <2>2, ObjectsChange
<1>10. PagesTypeOK'
  BY <1>1, <1>5, <1>7 DEF PagesTypeOK, counting, placing, mapping
<1>11. CountInv'
  <2>1. mapped' = mapped /\ \A r \in Page : Entries(r)' = Entries(r)
    BY <1>5 DEF mapping, Entries
  <2>2. ASSUME NEW r \in Page
        PROVE  freecount'[r] + young'[r] + old'[r] <= Entries(r)'
    <3>1. freecount[r] + young[r] + old[r] <= Entries(r)
      BY DEF CountInv
    <3>2. /\ freecount[r] \in Nat /\ young[r] \in Nat /\ old[r] \in Nat /\ Entries(r) \in 1..99
      BY EntriesType DEF PagesTypeOK
    <3>3. CASE r = p
      BY <1>4, <1>6, <1>7, <2>1, <3>1, <3>2, <3>3
    <3>4. CASE r = q
      BY <1>1, <1>4, <1>7, <2>1, <3>1, <3>2, <3>4
    <3>5. CASE r # p /\ r # q
      BY <1>7, <2>1, <3>1, <3>5
    <3> QED
      BY <3>3, <3>4, <3>5
  <2>3. \A r \in Page \ mapped' : young'[r] = 0 /\ old'[r] = 0
    BY <1>3, <1>7, <2>1 DEF CountInv
  <2> QED
    BY <2>2, <2>3 DEF CountInv
<1>12. YoungInv'
  <2> SUFFICES ASSUME NEW r \in mapped', young'[r] > 0
               PROVE  alloc_page'[allocator'[r]] = r \/ r \in lists'[allocator'[r]].pendinggc
    BY DEF YoungInv
  <2>1. r \in mapped /\ r \in Page
    BY <1>5 DEF mapping, PagesTypeOK
  <2>2. young[r] > 0
    BY <1>1, <1>7, <2>1
  <2> QED
    BY <1>5, <2>1, <2>2 DEF YoungInv, placing, mapping
<1>13. FreelistInv' /\ ControlInv'
  <2>1. \A b \in Alloc : evac_page[b] # NULL => (evac_page[b] = p <=> b = a)
    BY <1>2, <1>3 DEF PlaceInv
  <2>2. \A b \in Alloc : alloc_page[b] # p
    BY <1>2, <1>3 DEF PlaceInv
  <2>3. \A b \in Alloc : evacfreelist'[b] = IF b = a THEN evacfreelist[a] - 1 ELSE evacfreelist[b]
    BY <1>5 DEF PagesTypeOK
  <2>4. \A b \in Alloc : evac_page[b] # NULL => evacfreelist'[b] = freecount'[evac_page[b]]
    <3> SUFFICES ASSUME NEW b \in Alloc, evac_page[b] # NULL
                 PROVE  evacfreelist'[b] = freecount'[evac_page[b]]
      OBVIOUS
    <3>1. evac_page[b] \in Page /\ evacfreelist[b] = freecount[evac_page[b]]
      BY <1>1 DEF FreelistInv, PagesTypeOK
    <3> QED
      BY <1>2, <1>7, <2>1, <2>3, <3>1
  <2>5. \A b \in Alloc : alloc_page[b] # NULL => freelist[b] = freecount'[alloc_page[b]]
    <3> SUFFICES ASSUME NEW b \in Alloc, alloc_page[b] # NULL
                 PROVE  freelist[b] = freecount'[alloc_page[b]]
      OBVIOUS
    <3>1. alloc_page[b] \in Page /\ freelist[b] = freecount[alloc_page[b]]
      BY <1>1 DEF FreelistInv, PagesTypeOK
    <3> QED
      BY <1>7, <2>2, <3>1
  <2>6. \A b \in Alloc : evac_page[b] = NULL => evacfreelist'[b] = 0
    BY <1>2, <2>3 DEF FreelistInv
  <2> QED
    BY <1>1, <1>5, <2>4, <2>5, <2>6 DEF FreelistInv, ControlInv
<1> QED
  BY <1>9, <1>10, <1>11, <1>12, <1>13

-----------------------------------------------------------------------------
(***************************************************************************)
(* Steps that put a page away.                                             *)
(***************************************************************************)

(* The number of entries in use that processPage computes. *)
LEMMA InUseRange ==
  ASSUME PagesTypeOK, CountInv, NEW p \in Page
  PROVE  InUse(p) \in 0..Entries(p) /\ freecount[p] = Entries(p) - InUse(p)
<1>1. freecount[p] \in Nat /\ young[p] \in Nat /\ old[p] \in Nat /\ Entries(p) \in 1..99
  BY EntriesType DEF PagesTypeOK
<1>2. freecount[p] + young[p] + old[p] <= Entries(p)
  BY DEF CountInv
<1> QED
  BY <1>1, <1>2 DEF InUse

LEMMA FillPageStep ==
  ASSUME PagesInv, NEW a \in Alloc, FillPage(a)
  PROVE  /\ PagesInv'
         /\ \/ pc' \in {"refresh", "evacuate"} /\ lists' = lists
               /\ newly_filled_pages_count' = newly_filled_pages_count
            \/ /\ OthersStay(alloc_page[a]) /\ alloc_page[a] \in Page
               /\ newly_filled_pages_count' = newly_filled_pages_count + 1
<1> USE DEF PagesInv
<1> DEFINE p == alloc_page[a]
<1>1. /\ pc = "mutator" /\ freelist[a] = 0 /\ refreshing' = a /\ refreshing = NULL
      /\ UNCHANGED <<evacuating, disable_automatic_collections, freelist, evacfreelist,
                     evac_page, mapping, objects, decremented_pages>>
  BY DEF FillPage, ControlInv
<1>2. CASE p = NULL
  <2>1. /\ pc' = "refresh" /\ UNCHANGED <<newly_filled_pages_count, alloc_page, placing>>
    BY <1>2 DEF FillPage
  <2>2. PagesTypeOK'
    BY <1>1, <2>1 DEF PagesTypeOK, Phases, placing, mapping, objects
  <2>3. PlaceInv' /\ ClassInv'
    BY <1>1, <2>1, ObjectsChange DEF objects, PagesTypeOK
  <2>4. CountInv' /\ YoungInv'
    BY <1>1, <2>1 DEF CountInv, YoungInv, Entries, placing, mapping, objects
  <2>5. FreelistInv' /\ ControlInv'
    BY <1>1, <1>2, <2>1 DEF FreelistInv, ControlInv, objects
  <2> QED
    BY <2>1, <2>2, <2>3, <2>4, <2>5 DEF placing
<1>3. CASE p # NULL
  <2> DEFINE u == InUse(p)
             to == ListTo(p, InUse(p))
  <2>1. /\ ProcessPage(p, u, "none", to)
        /\ alloc_page' = [alloc_page EXCEPT ![a] = NULL]
        /\ newly_filled_pages_count' = newly_filled_pages_count + 1
        /\ pc' \in {"refresh", "evacuate"}
    BY <1>3 DEF FillPage
  <2>2. /\ p \in mapped /\ p \in Page /\ allocator[p] = a /\ p # evac_page[a]
        /\ freecount[p] = 0 /\ ~IsFull(approx_utilization[p], Entries(p))
    BY <1>1, <1>3 DEF PlaceInv, FreelistInv, ClassInv, PagesTypeOK
  <2>3. /\ u \in 0..Entries(p) /\ u = Entries(p) /\ Entries(p) \in 1..99
        /\ freecount[p] = Entries(p) - u
    BY <2>2, InUseRange, EntriesType DEF InUse
  <2>4. IsFull(u, Entries(p))
    BY <2>3 DEF IsFull
  <2>5. to = "pendinggc"
    BY <2>2, <2>3, <2>4, ListToWhere
  <2>6. Fits(to, u, Entries(p))
    BY <2>2, <2>3, ListToFits
  <2>7. PutAway(p, "none", to) /\ approx_utilization' = [approx_utilization EXCEPT ![p] = u]
    BY <1>1, <2>1, <2>2 DEF PutAway, ProcessPage
  <2>8. /\ freecount' = freecount /\ young' = young /\ old' = old
        /\ freecount \in [Page -> Nat] /\ young \in [Page -> Nat] /\ old \in [Page -> Nat]
        /\ freecount[p] + young[p] + old[p] <= Entries(p)
    BY <1>1, <2>2 DEF objects, PagesTypeOK, CountInv
  <2> HIDE DEF u, to, p
  <2>9. /\ PlaceInv' /\ ClassInv' /\ CountInv' /\ YoungInv' /\ OthersStay(p)
        /\ lists' \in [Alloc -> [ListName -> SUBSET Page]]
        /\ empty_pages' \in SUBSET mapped'
        /\ approx_utilization' \in [Page -> Nat]
    BY <2>2, <2>3, <2>5, <2>6, <2>7, <2>8, PutAwayInv
  <2>10. PagesTypeOK'
    <3>1. newly_filled_pages_count' \in Nat /\ pc' \in Phases
      BY <2>1 DEF PagesTypeOK, Phases
    <3>2. alloc_page' \in [Alloc -> Page \cup {NULL}]
      BY <2>1 DEF PagesTypeOK
    <3> QED
      BY <1>1, <2>8, <2>9, <3>1, <3>2 DEF PagesTypeOK, mapping
  <2>11. FreelistInv' /\ ControlInv'
    BY <1>1, <2>1, <2>8, PageAssumption DEF FreelistInv, ControlInv, PagesTypeOK
  <2> QED
    BY <2>1, <2>2, <2>9, <2>10, <2>11 DEF p
<1> QED
  BY <1>2, <1>3

LEMMA FileEvacPageStep ==
  ASSUME PagesInv, NEW a \in Alloc, FileEvacPage(a)
  PROVE  PagesInv'
<1> USE DEF PagesInv
<1> DEFINE p == evac_page[a]
<1>1. /\ pc = "evacuate" /\ evacfreelist[a] = 0 /\ p # NULL /\ freecount[p] = 0
      /\ ProcessPage(p, Entries(p), "none", "filled")
      /\ evac_page' = [evac_page EXCEPT ![a] = NULL]
      /\ UNCHANGED <<control, counting, freelist, evacfreelist, alloc_page, mapping,
                     objects, decremented_pages>>
  BY DEF FileEvacPage
<1>2. /\ p \in mapped /\ p \in Page /\ allocator[p] = a /\ p # alloc_page[a]
      /\ p \notin lists[a].pendinggc
  BY <1>1 DEF PlaceInv, PagesTypeOK, ListName
<1>3. young[p] = 0
  <2>1. young[p] \in Nat
    BY <1>2 DEF PagesTypeOK
  <2>2. ~(young[p] > 0)
    BY <1>2 DEF YoungInv
  <2> QED
    BY <2>1, <2>2
<1>4. Entries(p) \in 1..99 /\ Entries(p) \in 0..Entries(p)
  BY <1>2, EntriesType
<1>5. Fits("filled", Entries(p), Entries(p))
  BY <1>4 DEF Fits, ListName, IsFull
<1>6. /\ PutAway(p, "none", "filled")
      /\ approx_utilization' = [approx_utilization EXCEPT ![p] = Entries(p)]
  BY <1>1, <1>2 DEF PutAway, ProcessPage
<1>7. /\ freecount' = freecount /\ young' = young /\ old' = old
      /\ freecount \in [Page -> Nat] /\ young \in [Page -> Nat] /\ old \in [Page -> Nat]
      /\ freecount[p] + young[p] + old[p] <= Entries(p)
      /\ freecount[p] = Entries(p) - Entries(p)
  BY <1>1, <1>2, <1>4 DEF objects, PagesTypeOK, CountInv
<1> HIDE DEF p
<1>8. /\ PlaceInv' /\ ClassInv' /\ CountInv' /\ YoungInv'
      /\ lists' \in [Alloc -> [ListName -> SUBSET Page]]
      /\ empty_pages' \in SUBSET mapped'
      /\ approx_utilization' \in [Page -> Nat]
  <2>1. young'[p] > 0 => FALSE
    BY <1>3, <1>7
  <2> QED
    BY <1>2, <1>4, <1>5, <1>6, <1>7, <2>1, PutAwayInv
<1>9. PagesTypeOK'
  BY <1>1, <1>7, <1>8 DEF PagesTypeOK, control, counting, mapping
<1>10. FreelistInv' /\ ControlInv'
  BY <1>1, <1>7 DEF FreelistInv, ControlInv, control, PagesTypeOK
<1> QED
  BY <1>8, <1>9, <1>10

LEMMA ReprocessPageStep ==
  ASSUME PagesInv, NEW p \in mapped, ReprocessPage(p)
  PROVE  PagesInv'
<1> USE DEF PagesInv
<1> DEFINE u == InUse(p)
           to == ListTo(p, InUse(p))
           from == DeletedFrom(p)
<1>1. /\ pc = "reprocess" /\ checkNonAllocOrGCPage(p)
      /\ decremented_pages' = decremented_pages \ {p}
      /\ p \in lists[allocator[p]][from]
      /\ ProcessPage(p, u, from, to)
      /\ UNCHANGED <<control, counting, cursors, mapping, objects>>
  BY DEF ReprocessPage, ToBeMoved
<1>2. p \in Page /\ allocator[p] \in Alloc
  BY DEF PagesTypeOK
<1>3. young[p] = 0
  BY <1>1, <1>2 DEF YoungInv, checkNonAllocOrGCPage, PagesTypeOK
<1>4. u \in 0..Entries(p) /\ freecount[p] = Entries(p) - u
  BY <1>2, InUseRange
<1>5. Fits(to, u, Entries(p))
  BY <1>2, <1>4, ListToFits
<1>6. from \in ListName
  BY DEF DeletedFrom, ListName
<1>7. /\ PutAway(p, from, to)
      /\ approx_utilization' = [approx_utilization EXCEPT ![p] = u]
  BY <1>1, <1>6 DEF PutAway, ProcessPage, cursors
<1>8. /\ freecount' = freecount /\ young' = young /\ old' = old
      /\ freecount \in [Page -> Nat] /\ young \in [Page -> Nat] /\ old \in [Page -> Nat]
      /\ freecount[p] + young[p] + old[p] <= Entries(p)
  BY <1>1, <1>2 DEF objects, PagesTypeOK, CountInv
<1> HIDE DEF u, to, from
<1>9. /\ PlaceInv' /\ ClassInv' /\ CountInv' /\ YoungInv'
      /\ lists' \in [Alloc -> [ListName -> SUBSET Page]]
      /\ empty_pages' \in SUBSET mapped'
      /\ approx_utilization' \in [Page -> Nat]
  <2>1. young'[p] > 0 => FALSE
    BY <1>3, <1>8
  <2> QED
    BY <1>4, <1>5, <1>7, <1>8, <2>1, PutAwayInv
<1>10. PagesTypeOK'
  BY <1>1, <1>8, <1>9 DEF PagesTypeOK, control, counting, cursors, mapping
<1>11. FreelistInv' /\ ControlInv'
  BY <1>1 DEF FreelistInv, ControlInv, control, cursors
<1> QED
  BY <1>9, <1>10, <1>11

(* What is left on a page after PageInfo::rebuild. *)
LEMMA RebuildCounts ==
  ASSUME PagesInv, NEW p \in mapped, NEW kept \in Nat, Rebuild(p, kept)
  PROVE  /\ kept \in 0..Entries(p)
         /\ freecount' \in [Page -> Nat] /\ young' \in [Page -> Nat] /\ old' \in [Page -> Nat]
         /\ freecount'[p] = Entries(p) - kept /\ young'[p] = 0
         /\ freecount'[p] + young'[p] + old'[p] <= Entries(p)
         /\ \A q \in Page \ {p} :
              freecount'[q] = freecount[q] /\ young'[q] = young[q] /\ old'[q] = old[q]
<1> USE DEF PagesInv
<1>1. /\ p \in Page /\ freecount[p] \in Nat /\ young[p] \in Nat /\ old[p] \in Nat
      /\ Entries(p) \in 1..99
  BY EntriesType DEF PagesTypeOK
<1>2. freecount[p] + young[p] + old[p] <= Entries(p)
  BY <1>1 DEF CountInv
<1>3. kept \in 0..Entries(p) /\ Entries(p) - kept \in Nat
  BY <1>1, <1>2 DEF Rebuild
<1>4. /\ freecount' = [freecount EXCEPT ![p] = Entries(p) - kept]
      /\ old' = [old EXCEPT ![p] = kept] /\ young' = [young EXCEPT ![p] = 0]
  BY DEF Rebuild
<1>5. /\ freecount' \in [Page -> Nat] /\ young' \in [Page -> Nat] /\ old' \in [Page -> Nat]
      /\ freecount'[p] = Entries(p) - kept /\ young'[p] = 0 /\ old'[p] = kept
      /\ \A q \in Page \ {p} :
           freecount'[q] = freecount[q] /\ young'[q] = young[q] /\ old'[q] = old[q]
  BY <1>1, <1>3, <1>4 DEF PagesTypeOK
<1> QED
  BY <1>1, <1>3, <1>5

LEMMA CollectAllocPageStep ==
  ASSUME PagesInv, NEW a \in Alloc, NEW kept \in Nat, CollectAllocPage(a, kept)
  PROVE  PagesInv'
<1> USE DEF PagesInv
<1> DEFINE p == alloc_page[a]
           to == ListTo(p, kept)
<1>1. /\ pc = "processCollectorPages" /\ p # NULL
      /\ Rebuild(p, kept) /\ ProcessPage(p, kept, "none", to)
      /\ alloc_page' = [alloc_page EXCEPT ![a] = NULL]
      /\ freelist' = [freelist EXCEPT ![a] = 0]
      /\ UNCHANGED <<control, counting, evacfreelist, evac_page, mapping, decremented_pages>>
  BY DEF CollectAllocPage, NextToProcess, ResetFreelist
<1>2. p \in mapped /\ p \in Page /\ allocator[p] = a
  BY <1>1 DEF PlaceInv, PagesTypeOK
<1>3. /\ kept \in 0..Entries(p)
      /\ freecount' \in [Page -> Nat] /\ young' \in [Page -> Nat] /\ old' \in [Page -> Nat]
      /\ freecount'[p] = Entries(p) - kept /\ young'[p] = 0
      /\ freecount'[p] + young'[p] + old'[p] <= Entries(p)
      /\ \A q \in Page \ {p} :
           freecount'[q] = freecount[q] /\ young'[q] = young[q] /\ old'[q] = old[q]
  BY <1>1, <1>2, RebuildCounts
<1>4. Fits(to, kept, Entries(p))
  BY <1>2, <1>3, ListToFits
<1>5. /\ PutAway(p, "none", to)
      /\ approx_utilization' = [approx_utilization EXCEPT ![p] = kept]
  BY <1>1, <1>2 DEF PutAway, ProcessPage
<1> HIDE DEF p, to
<1>6. /\ PlaceInv' /\ ClassInv' /\ CountInv' /\ YoungInv'
      /\ lists' \in [Alloc -> [ListName -> SUBSET Page]]
      /\ empty_pages' \in SUBSET mapped'
      /\ approx_utilization' \in [Page -> Nat]
  <2>1. young'[p] > 0 => FALSE
    BY <1>3
  <2> QED
    BY <1>2, <1>3, <1>4, <1>5, <2>1, PutAwayInv
<1>7. PagesTypeOK'
  BY <1>1, <1>3, <1>6 DEF PagesTypeOK, control, counting, mapping
<1>8. FreelistInv' /\ ControlInv'
  BY <1>1 DEF FreelistInv, ControlInv, control, PagesTypeOK
<1> QED
  BY <1>6, <1>7, <1>8

LEMMA CollectEvacPageStep ==
  ASSUME PagesInv, NEW a \in Alloc, CollectEvacPage(a)
  PROVE  PagesInv'
<1> USE DEF PagesInv
<1> DEFINE p == evac_page[a]
           u == InUse(p)
           to == ListTo(p, InUse(p))
<1>1. /\ pc = "processCollectorPages" /\ p # NULL
      /\ ProcessPage(p, u, "none", to)
      /\ evac_page' = [evac_page EXCEPT ![a] = NULL]
      /\ evacfreelist' = [evacfreelist EXCEPT ![a] = 0]
      /\ UNCHANGED <<control, counting, freelist, alloc_page, mapping, objects,
                     decremented_pages>>
  BY DEF CollectEvacPage, NextToProcess, ResetFreelist
<1>2. /\ p \in mapped /\ p \in Page /\ allocator[p] = a /\ p # alloc_page[a]
      /\ p \notin lists[a].pendinggc
  BY <1>1 DEF PlaceInv, PagesTypeOK, ListName
<1>3. young[p] = 0
  <2>1. young[p] \in Nat
    BY <1>2 DEF PagesTypeOK
  <2>2. ~(young[p] > 0)
    BY <1>2 DEF YoungInv
  <2> QED
    BY <2>1, <2>2
<1>4. u \in 0..Entries(p) /\ freecount[p] = Entries(p) - u
  BY <1>2, InUseRange
<1>5. Fits(to, u, Entries(p))
  BY <1>2, <1>4, ListToFits
<1>6. /\ PutAway(p, "none", to)
      /\ approx_utilization' = [approx_utilization EXCEPT ![p] = u]
  BY <1>1, <1>2 DEF PutAway, ProcessPage
<1>7. /\ freecount' = freecount /\ young' = young /\ old' = old
      /\ freecount \in [Page -> Nat] /\ young \in [Page -> Nat] /\ old \in [Page -> Nat]
      /\ freecount[p] + young[p] + old[p] <= Entries(p)
  BY <1>1, <1>2 DEF objects, PagesTypeOK, CountInv
<1> HIDE DEF p, u, to
<1>8. /\ PlaceInv' /\ ClassInv' /\ CountInv' /\ YoungInv'
      /\ lists' \in [Alloc -> [ListName -> SUBSET Page]]
      /\ empty_pages' \in SUBSET mapped'
      /\ approx_utilization' \in [Page -> Nat]
  <2>1. young'[p] > 0 => FALSE
    BY <1>3, <1>7
  <2> QED
    BY <1>2, <1>4, <1>5, <1>6, <1>7, <2>1, PutAwayInv
<1>9. PagesTypeOK'
  BY <1>1, <1>7, <1>8 DEF PagesTypeOK, control, counting, mapping
<1>10. FreelistInv' /\ ControlInv'
  BY <1>1 DEF FreelistInv, ControlInv, control, PagesTypeOK
<1> QED
  BY <1>8, <1>9, <1>10

LEMMA CollectPendingPageStep ==
  ASSUME PagesInv, NEW a \in Alloc, NEW p \in Page, NEW kept \in Nat,
         CollectPendingPage(a, p, kept)
  PROVE  PagesInv'
<1> USE DEF PagesInv
<1> DEFINE to == ListTo(p, kept)
<1>1. /\ pc = "processCollectorPages" /\ p \in lists[a].pendinggc
      /\ Rebuild(p, kept)
      /\ ProcessPage(p, kept, "pendinggc", IF to = "pendinggc" THEN "none" ELSE to)
      /\ UNCHANGED <<control, counting, cursors, mapping, decremented_pages>>
  BY DEF CollectPendingPage, NextToProcess
<1>2. /\ p \in mapped /\ allocator[p] = a
      /\ IsFull(approx_utilization[p], Entries(p))
  BY <1>1 DEF PlaceInv, ClassInv, ListName
<1>3. /\ kept \in 0..Entries(p)
      /\ freecount' \in [Page -> Nat] /\ young' \in [Page -> Nat] /\ old' \in [Page -> Nat]
      /\ freecount'[p] = Entries(p) - kept /\ young'[p] = 0
      /\ freecount'[p] + young'[p] + old'[p] <= Entries(p)
      /\ \A q \in Page \ {p} :
           freecount'[q] = freecount[q] /\ young'[q] = young[q] /\ old'[q] = old[q]
  BY <1>1, <1>2, RebuildCounts
<1>4. Fits(to, kept, Entries(p))
  BY <1>3, ListToFits
<1>5. to # "pendinggc"
  BY <1>2, <1>3, ListToWhere
<1>6. /\ PutAway(p, "pendinggc", to)
      /\ approx_utilization' = [approx_utilization EXCEPT ![p] = kept]
  BY <1>1, <1>2, <1>5 DEF PutAway, ProcessPage, cursors, ListName
<1> HIDE DEF to
<1>7. /\ PlaceInv' /\ ClassInv' /\ CountInv' /\ YoungInv'
      /\ lists' \in [Alloc -> [ListName -> SUBSET Page]]
      /\ empty_pages' \in SUBSET mapped'
      /\ approx_utilization' \in [Page -> Nat]
  <2>1. young'[p] > 0 => FALSE
    BY <1>3
  <2> QED
    BY <1>2, <1>3, <1>4, <1>6, <2>1, PutAwayInv
<1>8. PagesTypeOK'
  BY <1>1, <1>3, <1>7 DEF PagesTypeOK, control, counting, cursors, mapping
<1>9. FreelistInv' /\ ControlInv'
  BY <1>1 DEF FreelistInv, ControlInv, control, cursors
<1> QED
  BY <1>7, <1>8, <1>9

-----------------------------------------------------------------------------
(***************************************************************************)
(* Steps that take a page.                                                 *)
(***************************************************************************)
LEMMA TakenInv ==
  ASSUME PagesInv, NEW a \in Alloc, NEW p \in Page, Taken(a, p),
         UNCHANGED <<young, old>>,
         \/ /\ alloc_page[a] = NULL
            /\ alloc_page' = [alloc_page EXCEPT ![a] = p] /\ evac_page' = evac_page
         \/ /\ evac_page[a] = NULL
            /\ evac_page' = [evac_page EXCEPT ![a] = p] /\ alloc_page' = alloc_page
  PROVE  PlaceInv' /\ ClassInv' /\ CountInv' /\ YoungInv'
<1> USE DEF PagesInv
<1>1. PlaceInv'
  BY TakenPlaces
<1>2. /\ OthersStay(p)
      /\ p \in mapped' \ empty_pages' /\ allocator'[p] = a
      /\ \A b \in Alloc, l \in ListName : p \notin lists'[b][l]
      /\ freecount'[p] + young[p] + old[p] <= EntryCount[a] /\ young[p] = 0
      /\ ~IsFull(approx_utilization'[p], EntryCount[a])
      /\ \A q \in Page \ {p} : /\ freecount'[q] = freecount[q]
                               /\ approx_utilization'[q] = approx_utilization[q]
      /\ mapped' \in SUBSET Page /\ mapped \subseteq mapped' /\ empty_pages' \in SUBSET mapped'
      /\ lists' \in [Alloc -> [ListName -> SUBSET Page]]
  BY DEF Taken
<1>3. \A q \in Page \ {p} : Entries(q)' = Entries(q) /\ InUse(q)' = InUse(q)
  BY <1>2 DEF OthersStay, Entries, InUse
<1>4. \A q \in Page \ {p}, b \in Alloc, l \in ListName :
        q \in lists'[b][l] <=> q \in lists[b][l]
  BY <1>2 DEF OthersStay
<1>5. {"low", "high", "filled", "pendinggc"} = ListName
  BY DEF ListName
<1>6. \A b \in Alloc, l \in ListName : lists'[b][l] \subseteq Page \ {p}
  BY <1>2
<1>7. ClassInv'
  <2>1. ASSUME NEW b \in Alloc, NEW q \in lists'[b].low
        PROVE  IsLow(approx_utilization'[q], Entries(q)') /\ InUse(q)' <= approx_utilization'[q]
    <3>1. q \in Page \ {p} /\ q \in lists[b].low
      BY <1>4, <1>5, <1>6
    <3> QED
      BY <1>2, <1>3, <3>1 DEF ClassInv
  <2>2. ASSUME NEW b \in Alloc, NEW q \in lists'[b].high
        PROVE  IsHigh(approx_utilization'[q], Entries(q)') /\ InUse(q)' <= approx_utilization'[q]
    <3>1. q \in Page \ {p} /\ q \in lists[b].high
      BY <1>4, <1>5, <1>6
    <3> QED
      BY <1>2, <1>3, <3>1 DEF ClassInv
  <2>3. ASSUME NEW b \in Alloc, NEW q \in lists'[b].filled \cup lists'[b].pendinggc
        PROVE  IsFull(approx_utilization'[q], Entries(q)')
    <3>1. q \in Page \ {p} /\ q \in lists[b].filled \cup lists[b].pendinggc
      BY <1>4, <1>5, <1>6
    <3> QED
      BY <1>2, <1>3, <3>1 DEF ClassInv
  <2>4. ASSUME NEW q \in empty_pages'
        PROVE  approx_utilization'[q] = 0 /\ freecount'[q] = Entries(q)'
    <3>1. q \in Page \ {p} /\ q \in empty_pages
      BY <1>2 DEF OthersStay
    <3> QED
      BY <1>2, <1>3, <3>1 DEF ClassInv
  <2>5. ASSUME NEW b \in Alloc, alloc_page'[b] # NULL
        PROVE  ~IsFull(approx_utilization'[alloc_page'[b]],
                       EntryCount[allocator'[alloc_page'[b]]])
    <3>1. CASE alloc_page'[b] = p
      BY <1>2, <3>1
    <3>2. CASE alloc_page'[b] # p
      <4>1. alloc_page'[b] = alloc_page[b] /\ alloc_page[b] \in Page \ {p}
        BY <2>5, <3>2 DEF PagesTypeOK
      <4>2. ~IsFull(approx_utilization[alloc_page[b]], EntryCount[allocator[alloc_page[b]]])
        BY <2>5, <4>1 DEF ClassInv, Entries
      <4>3. allocator'[alloc_page[b]] = allocator[alloc_page[b]]
        BY <1>2, <4>1 DEF OthersStay
      <4> QED
        BY <1>2, <4>1, <4>2, <4>3
    <3> QED
      BY <3>1, <3>2
  <2> QED
    BY <2>1, <2>2, <2>3, <2>4, <2>5 DEF ClassInv, Entries
<1>8. CountInv'
  <2>1. ASSUME NEW q \in Page
        PROVE  freecount'[q] + young'[q] + old'[q] <= EntryCount[allocator'[q]]
    <3>1. CASE q = p
      BY <1>2, <3>1
    <3>2. CASE q # p
      <4>1. freecount[q] + young[q] + old[q] <= EntryCount[allocator[q]]
        BY DEF CountInv, Entries
      <4>2. freecount'[q] = freecount[q] /\ allocator'[q] = allocator[q]
        BY <1>2, <3>2 DEF OthersStay
      <4> QED
        BY <4>1, <4>2
    <3> QED
      BY <3>1, <3>2
  <2>2. \A q \in Page \ mapped' : young'[q] = 0 /\ old'[q] = 0
    BY <1>2 DEF CountInv
  <2> QED
    BY <2>1, <2>2 DEF CountInv, Entries
<1>9. YoungInv'
  <2> SUFFICES ASSUME NEW q \in mapped', young'[q] > 0
               PROVE  alloc_page'[allocator'[q]] = q \/ q \in lists'[allocator'[q]].pendinggc
    BY DEF YoungInv
  <2>1. q \in Page \ {p} /\ young[q] > 0
    BY <1>2
  <2>2. q \in mapped /\ allocator'[q] = allocator[q] /\ allocator[q] \in Alloc
    BY <1>2, <2>1 DEF OthersStay, PagesTypeOK
  <2>3. alloc_page[allocator[q]] = q \/ q \in lists[allocator[q]].pendinggc
    BY <2>1, <2>2 DEF YoungInv
  <2>4. alloc_page[allocator[q]] = q => alloc_page'[allocator[q]] = q
    BY <2>1, <2>2, PageAssumption DEF PagesTypeOK
  <2> QED
    BY <1>4, <1>5, <2>1, <2>2, <2>3, <2>4
<1> QED
  BY <1>1, <1>7, <1>8, <1>9

LEMMA TakeAllocPageStep ==
  ASSUME PagesInv, NEW p \in Page, TakeAllocPage(p)
  PROVE  /\ PagesInv' /\ Taken(refreshing, p)
         /\ alloc_page' = [alloc_page EXCEPT ![refreshing] = p] /\ evac_page' = evac_page
<1> USE DEF PagesInv
<1> DEFINE a == refreshing
<1>1. /\ pc = "refresh" /\ a \in Alloc /\ alloc_page[a] = NULL
  BY DEF TakeAllocPage, ControlInv
<1>2. /\ FreshPageForAllocator(a, p)
      /\ alloc_page' = [alloc_page EXCEPT ![a] = p]
      /\ freelist' = [freelist EXCEPT ![a] = freecount'[p]]
      /\ pc' = "mutator" /\ refreshing' = NULL
      /\ UNCHANGED <<evacuating, counting, evacfreelist, evac_page, young, old,
                     decremented_pages>>
  BY DEF TakeAllocPage
<1>3. Taken(a, p)
  BY <1>1, <1>2, FreshPageTaken
<1>4. PlaceInv' /\ ClassInv' /\ CountInv' /\ YoungInv'
  BY <1>1, <1>2, <1>3, TakenInv
<1>5. /\ mapped' \in SUBSET Page /\ mapped \subseteq mapped' /\ empty_pages' \in SUBSET mapped'
      /\ lists' \in [Alloc -> [ListName -> SUBSET Page]]
      /\ allocator' \in [Page -> Alloc]
      /\ freecount' \in [Page -> Nat] /\ freecount'[p] \in Nat
      /\ approx_utilization' \in [Page -> Nat]
      /\ \A b \in Alloc : alloc_page[b] # p /\ evac_page[b] # p
      /\ \A q \in Page \ {p} : freecount'[q] = freecount[q]
  BY <1>3 DEF Taken
<1>6. PagesTypeOK'
  BY <1>1, <1>2, <1>5 DEF PagesTypeOK, Phases, counting
<1>7. FreelistInv' /\ ControlInv'
  <2>1. NULL \notin Page /\ NULL \notin Alloc
    BY PageAssumption
  <2>2. \A b \in Alloc : alloc_page'[b] # NULL => freelist'[b] = freecount'[alloc_page'[b]]
    <3> SUFFICES ASSUME NEW b \in Alloc, alloc_page'[b] # NULL
                 PROVE  freelist'[b] = freecount'[alloc_page'[b]]
      OBVIOUS
    <3>1. CASE b = a
      BY <1>1, <1>2, <3>1 DEF PagesTypeOK
    <3>2. CASE b # a
      <4>1. alloc_page'[b] = alloc_page[b] /\ freelist'[b] = freelist[b]
        BY <1>2, <3>2 DEF PagesTypeOK
      <4>2. alloc_page[b] \in Page \ {p} /\ freelist[b] = freecount[alloc_page[b]]
        BY <1>1, <1>5, <4>1 DEF FreelistInv, PagesTypeOK
      <4> QED
        BY <1>5, <4>1, <4>2
    <3> QED
      BY <3>1, <3>2
  <2>3. \A b \in Alloc : evac_page'[b] # NULL => evacfreelist'[b] = freecount'[evac_page'[b]]
    <3> SUFFICES ASSUME NEW b \in Alloc, evac_page[b] # NULL
                 PROVE  evacfreelist[b] = freecount'[evac_page[b]]
      BY <1>2
    <3>1. evac_page[b] \in Page \ {p} /\ evacfreelist[b] = freecount[evac_page[b]]
      BY <1>1, <1>5 DEF FreelistInv, PagesTypeOK
    <3> QED
      BY <1>5, <3>1
  <2>4. \A b \in Alloc : alloc_page'[b] = NULL => freelist'[b] = 0
    BY <1>1, <1>2, <2>1 DEF FreelistInv, PagesTypeOK
  <2>5. \A b \in Alloc : evac_page'[b] = NULL => evacfreelist'[b] = 0
    BY <1>2 DEF FreelistInv
  <2> QED
    BY <1>2, <2>1, <2>2, <2>3, <2>4, <2>5 DEF FreelistInv, ControlInv
<1> QED
  BY <1>2, <1>3, <1>4, <1>6, <1>7

LEMMA TakeEvacPageStep ==
  ASSUME PagesInv, NEW a \in Alloc, NEW p \in Page, TakeEvacPage(a, p)
  PROVE  /\ PagesInv' /\ Taken(a, p)
         /\ evac_page' = [evac_page EXCEPT ![a] = p] /\ alloc_page' = alloc_page
<1> USE DEF PagesInv
<1>1. /\ pc = "evacuate" /\ evacfreelist[a] = 0
      /\ evac_page[a] # NULL => freecount[evac_page[a]] # 0
      /\ FreshPageForEvacuation(a, p)
      /\ evac_page' = [evac_page EXCEPT ![a] = p]
      /\ evacfreelist' = [evacfreelist EXCEPT ![a] = freecount'[p]]
      /\ evacuating' = a
      /\ UNCHANGED <<pc, refreshing, counting, freelist, alloc_page, young, old,
                     decremented_pages>>
  BY DEF TakeEvacPage
<1>2. evac_page[a] = NULL
  BY <1>1 DEF FreelistInv
<1>3. Taken(a, p)
  BY <1>1, FreshPageTaken
<1>4. PlaceInv' /\ ClassInv' /\ CountInv' /\ YoungInv'
  BY <1>1, <1>2, <1>3, TakenInv
<1>5. /\ mapped' \in SUBSET Page /\ mapped \subseteq mapped' /\ empty_pages' \in SUBSET mapped'
      /\ lists' \in [Alloc -> [ListName -> SUBSET Page]]
      /\ allocator' \in [Page -> Alloc]
      /\ freecount' \in [Page -> Nat] /\ freecount'[p] \in Nat
      /\ approx_utilization' \in [Page -> Nat]
      /\ \A b \in Alloc : alloc_page[b] # p /\ evac_page[b] # p
      /\ \A q \in Page \ {p} : freecount'[q] = freecount[q]
  BY <1>3 DEF Taken
<1>6. PagesTypeOK'
  BY <1>1, <1>5 DEF PagesTypeOK, counting
<1>7. FreelistInv' /\ ControlInv'
  <2>1. NULL \notin Page
    BY PageAssumption
  <2>2. \A b \in Alloc : evac_page'[b] # NULL => evacfreelist'[b] = freecount'[evac_page'[b]]
    <3> SUFFICES ASSUME NEW b \in Alloc, evac_page'[b] # NULL
                 PROVE  evacfreelist'[b] = freecount'[evac_page'[b]]
      OBVIOUS
    <3>1. CASE b = a
      BY <1>1, <3>1 DEF PagesTypeOK
    <3>2. CASE b # a
      <4>1. evac_page'[b] = evac_page[b] /\ evacfreelist'[b] = evacfreelist[b]
        BY <1>1, <3>2 DEF PagesTypeOK
      <4>2. evac_page[b] \in Page \ {p} /\ evacfreelist[b] = freecount[evac_page[b]]
        BY <1>1, <1>5, <4>1 DEF FreelistInv, PagesTypeOK
      <4> QED
        BY <1>5, <4>1, <4>2
    <3> QED
      BY <3>1, <3>2
  <2>3. \A b \in Alloc : alloc_page'[b] # NULL => freelist'[b] = freecount'[alloc_page'[b]]
    <3> SUFFICES ASSUME NEW b \in Alloc, alloc_page[b] # NULL
                 PROVE  freelist[b] = freecount'[alloc_page[b]]
      BY <1>1
    <3>1. alloc_page[b] \in Page \ {p} /\ freelist[b] = freecount[alloc_page[b]]
      BY <1>1, <1>5 DEF FreelistInv, PagesTypeOK
    <3> QED
      BY <1>5, <3>1
  <2>4. \A b \in Alloc : evac_page'[b] = NULL => evacfreelist'[b] = 0
    BY <1>1, <2>1 DEF FreelistInv, PagesTypeOK
  <2>5. \A b \in Alloc : alloc_page'[b] = NULL => freelist'[b] = 0
    BY <1>1 DEF FreelistInv
  <2> QED
    BY <1>1, <2>2, <2>3, <2>4, <2>5 DEF FreelistInv, ControlInv
<1> QED
  BY <1>1, <1>3, <1>4, <1>6, <1>7

LEMMA EndCollectStep ==
  ASSUME PagesInv, EndCollect
  PROVE  PagesInv'
<1> USE DEF PagesInv
<1>1. /\ \A a \in Alloc : alloc_page[a] = NULL /\ evac_page[a] = NULL
      /\ newly_filled_pages_count' = 0
      /\ pc' = IF refreshing = NULL THEN "mutator" ELSE "refresh"
      /\ UNCHANGED <<refreshing, evacuating, disable_automatic_collections, cursors,
                     placing, mapping, objects, decremented_pages>>
  BY DEF EndCollect, Processed
<1>2. PagesTypeOK'
  BY <1>1 DEF PagesTypeOK, Phases, cursors, placing, mapping, objects
<1>3. PlaceInv' /\ ClassInv'
  BY <1>1, ObjectsChange DEF cursors, objects, PagesTypeOK
<1>4. CountInv' /\ YoungInv'
  BY <1>1 DEF CountInv, YoungInv, Entries, cursors, placing, mapping, objects
<1>5. FreelistInv' /\ ControlInv'
  BY <1>1 DEF FreelistInv, ControlInv, cursors, PagesTypeOK
<1> QED
  BY <1>2, <1>3, <1>4, <1>5

-----------------------------------------------------------------------------
(***************************************************************************)
(* The invariant, and what follows from it.                                *)
(***************************************************************************)
LEMMA PagesInit == Init => PagesInv
<1> SUFFICES ASSUME Init PROVE PagesInv
  OBVIOUS
<1>1. EntryCount \in [Alloc -> 1..99]
  BY EntryAssumption
<1>2. PagesTypeOK
  BY PageAssumption DEF Init, PagesTypeOK, Phases
<1>3. PlaceInv /\ ClassInv
  BY DEF Init, PlaceInv, ClassInv, ListName
<1>4. CountInv
  <2>1. ASSUME NEW p \in Page PROVE freecount[p] + young[p] + old[p] <= Entries(p)
    <3>1. Entries(p) \in 1..99
      BY <1>2, EntriesType
    <3>2. freecount[p] = 0 /\ young[p] = 0 /\ old[p] = 0
      BY DEF Init
    <3> QED
      BY <3>1, <3>2
  <2> QED
    BY <2>1 DEF Init, CountInv
<1>5. YoungInv /\ FreelistInv /\ ControlInv
  BY PageAssumption DEF Init, YoungInv, FreelistInv, ControlInv
<1> QED
  BY <1>2, <1>3, <1>4, <1>5 DEF PagesInv

LEMMA PagesNext == PagesInv /\ [Next]_vars => PagesInv'
<1> SUFFICES ASSUME PagesInv, [Next]_vars PROVE PagesInv'
  OBVIOUS
<1>1. \A a \in Alloc : 0..EntryCount[a] \subseteq Nat
  BY EntryAssumption
<1>2. ASSUME NEW a \in Alloc,
             Allocate(a) \/ FillPage(a) \/ FileEvacPage(a) \/ CollectEvacPage(a)
      PROVE  PagesInv'
  BY <1>2, AllocateStep, FillPageStep, FileEvacPageStep, CollectEvacPageStep
<1>3. ASSUME NEW a \in Alloc, NEW p \in Page, TakeEvacPage(a, p)
      PROVE  PagesInv'
  BY <1>3, TakeEvacPageStep
<1>4. ASSUME NEW a \in Alloc, NEW kept \in 0..EntryCount[a], CollectAllocPage(a, kept)
      PROVE  PagesInv'
  BY <1>1, <1>4, CollectAllocPageStep
<1>5. ASSUME NEW a \in Alloc, NEW kept \in 0..EntryCount[a], NEW p \in Page,
             CollectPendingPage(a, p, kept)
      PROVE  PagesInv'
  BY <1>1, <1>5, CollectPendingPageStep
<1>6. ASSUME NEW p \in mapped, Evacuate(p) \/ FreeObject(p) \/ ReprocessPage(p)
      PROVE  PagesInv'
  BY <1>6, EvacuateStep, FreeObjectStep, ReprocessPageStep
<1>7. ASSUME NEW p \in Page, TakeAllocPage(p)
      PROVE  PagesInv'
  BY <1>7, TakeAllocPageStep
<1>8. ASSUME \/ \E p \in mapped : LeavePage(p)
             \/ Collect \/ EndEvacuation \/ EndDecrements \/ EndReprocess
             \/ OutOfMemory \/ Aborted \/ UNCHANGED vars
      PROVE  PagesInv'
  <2>1. /\ decremented_pages \in SUBSET mapped /\ evacuating \in Alloc \cup {NULL}
        /\ pc \in Phases
    BY DEF PagesInv, PagesTypeOK
  <2>2. /\ UNCHANGED <<refreshing, counting, cursors, placing, mapping, objects>>
        /\ evacuating' = evacuating
        /\ decremented_pages' \in SUBSET mapped
    BY <1>8, <2>1 DEF LeavePage, Collect, EndEvacuation, EndDecrements, EndReprocess,
                      OutOfMemory, Aborted, vars, control
  <2>3. \/ pc' = pc
        \/ pc = "mutator" /\ pc' = "evacuate"
        \/ pc' \in {"decrement", "reprocess", "processCollectorPages", "aborted"}
    BY <1>8 DEF LeavePage, Collect, EndEvacuation, EndDecrements, EndReprocess,
                OutOfMemory, Aborted, vars, control
  <2>4. /\ pc' \in Phases
        /\ pc' \in {"mutator", "refresh", "evacuate"} => pc \in {"mutator", "refresh", "evacuate"}
        /\ pc' \in {"mutator", "refresh"} => pc' = pc
    BY <2>1, <2>3 DEF Phases
  <2> QED
    BY <2>1, <2>2, <2>4, QuietStep
<1>9. ASSUME EndCollect
      PROVE  PagesInv'
  BY <1>9, EndCollectStep
<1> QED
  BY <1>2, <1>3, <1>4, <1>5, <1>6, <1>7, <1>8, <1>9 DEF Next

THEOREM PagesInvariant == Spec => []PagesInv
<1>1. Init => PagesInv
  BY PagesInit
<1>2. PagesInv /\ [Next]_vars => PagesInv'
  BY PagesNext
<1> QED
  BY <1>1, <1>2, PTL DEF Spec

(* The types of the state of Pages. *)
THEOREM PagesTypeCorrect == Spec => []PagesTypeOK
<1>1. PagesInv => PagesTypeOK
  BY DEF PagesInv
<1> QED
  BY <1>1, PagesInvariant, PTL

(***************************************************************************)
(* No page is lost, handed out twice or linked into two lists, for any     *)
(* number of pages and allocators (processPage and its callers).           *)
(***************************************************************************)
THEOREM PagesHaveOnePlace == Spec => []EveryPageInOnePlace
<1>1. PagesInv => EveryPageInOnePlace
  <2> SUFFICES ASSUME PagesInv, NEW p \in mapped
               PROVE  \E l \in Places : \A m \in Places, a \in Alloc :
                        IsAt(p, m, a) <=> (m = l /\ a = allocator[p])
    BY DEF EveryPageInOnePlace
  <2> USE DEF PagesInv
  <2> DEFINE A == allocator[p]
  <2>1. p \in Page /\ A \in Alloc /\ p # NULL
    BY PageAssumption DEF PagesTypeOK
  <2>2. \A a \in Alloc :
          /\ alloc_page[a] = p => a = A /\ evac_page[a] # p /\ p \notin empty_pages
          /\ evac_page[a] = p => a = A /\ p \notin empty_pages
          /\ \A l \in ListName : p \in lists[a][l] =>
               /\ a = A /\ p \notin empty_pages /\ alloc_page[a] # p /\ evac_page[a] # p
               /\ \A m \in ListName : p \in lists[a][m] => m = l
    BY <2>1 DEF PlaceInv
  <2>3. \/ p \in empty_pages \/ alloc_page[A] = p \/ evac_page[A] = p
        \/ \E l \in ListName : p \in lists[A][l]
    BY DEF PlaceInv
  <2>4. Places = {"alloc", "evac", "empty"} \cup ListName
    BY DEF Places, ListName
  <2>5. \A a \in Alloc :
          /\ IsAt(p, "alloc", a) <=> alloc_page[a] = p
          /\ IsAt(p, "evac", a) <=> evac_page[a] = p
          /\ IsAt(p, "empty", a) <=> p \in empty_pages /\ a = A
          /\ \A l \in ListName : IsAt(p, l, a) <=> p \in lists[a][l]
    BY DEF IsAt, ListName
  <2>6. CASE p \in empty_pages
    <3>1. \A m \in Places, a \in Alloc : IsAt(p, m, a) <=> (m = "empty" /\ a = A)
      BY <2>2, <2>4, <2>5, <2>6 DEF ListName
    <3> QED
      BY <2>4, <3>1
  <2>7. CASE alloc_page[A] = p
    <3>1. \A m \in Places, a \in Alloc : IsAt(p, m, a) <=> (m = "alloc" /\ a = A)
      BY <2>1, <2>2, <2>4, <2>5, <2>7 DEF ListName
    <3> QED
      BY <2>4, <3>1
  <2>8. CASE evac_page[A] = p
    <3>1. \A m \in Places, a \in Alloc : IsAt(p, m, a) <=> (m = "evac" /\ a = A)
      BY <2>1, <2>2, <2>4, <2>5, <2>8 DEF ListName
    <3> QED
      BY <2>4, <3>1
  <2>9. ASSUME NEW l \in ListName, p \in lists[A][l]
        PROVE  \A m \in Places, a \in Alloc : IsAt(p, m, a) <=> (m = l /\ a = A)
    <3> SUFFICES ASSUME NEW m \in Places, NEW a \in Alloc
                 PROVE  IsAt(p, m, a) <=> (m = l /\ a = A)
      OBVIOUS
    <3>1. CASE m \in ListName
      BY <2>1, <2>2, <2>5, <2>9, <3>1
    <3>2. CASE m \in {"alloc", "evac", "empty"}
      BY <2>1, <2>2, <2>5, <2>9, <3>2 DEF ListName
    <3> QED
      BY <2>4, <3>1, <3>2
  <2>10. ASSUME NEW l \in ListName, p \in lists[A][l]
         PROVE  \E k \in Places : \A m \in Places, a \in Alloc :
                  IsAt(p, m, a) <=> (m = k /\ a = A)
    <3>1. l \in Places
      BY <2>4
    <3> QED
      BY <2>9, <2>10, <3>1
  <2> QED
    BY <2>3, <2>6, <2>7, <2>8, <2>10
<1> QED
  BY <1>1, PagesInvariant, PTL

(***************************************************************************)
(* deleteOldPage finds the page that it looks for: while a page is on a    *)
(* list, its utilisation is the one that it was put there with.            *)
(***************************************************************************)
THEOREM DeletedPagesAreFound == Spec => []DeleteFindsPage
<1>1. PagesInv => DeleteFindsPage
  <2> SUFFICES ASSUME PagesInv, NEW p \in decremented_pages, ToBeMoved(p)
               PROVE  IsAt(p, DeletedFrom(p), allocator[p])
    BY DEF DeleteFindsPage
  <2> USE DEF PagesInv
  <2> DEFINE A == allocator[p]
             u == approx_utilization[p]
             n == Entries(p)
  <2>1. p \in mapped /\ p \in Page /\ A \in Alloc /\ n \in 1..99 /\ u \in Nat
    BY EntriesType DEF PagesTypeOK
  <2>2. /\ alloc_page[A] # p /\ evac_page[A] # p /\ p \notin lists[A].pendinggc
        /\ NeedsMoved(u, InUse(p), n)
    BY DEF ToBeMoved, checkNonAllocOrGCPage
  <2>3. p \notin empty_pages
    <3>1. SUFFICES ASSUME p \in empty_pages PROVE FALSE
      OBVIOUS
    <3>2. u = 0 /\ freecount[p] = n
      BY <3>1 DEF ClassInv
    <3>3. InUse(p) = 0
      BY <2>1, <3>2 DEF InUse
    <3>4. ListOf(0, n) = "none"
      BY <2>1 DEF ListOf, IsLow, IsHigh, IsFull
    <3> QED
      BY <2>2, <3>2, <3>3, <3>4 DEF NeedsMoved
  <2>4. \E l \in ListName : p \in lists[A][l]
    BY <2>1, <2>2, <2>3 DEF PlaceInv
  <2>5. \/ p \in lists[A].low /\ IsLow(u, n)
        \/ p \in lists[A].high /\ IsHigh(u, n)
        \/ p \in lists[A].filled /\ IsFull(u, n)
    BY <2>1, <2>2, <2>4 DEF ListName, ClassInv
  <2>6. p \in lists[A][DeletedFrom(p)] /\ DeletedFrom(p) \in ListName
    <3>1. /\ IsLow(u, n) => ListOf(u, n) = "low"
          /\ IsHigh(u, n) => ListOf(u, n) = "high"
          /\ IsFull(u, n) => ListOf(u, n) = "filled"
      BY <2>1 DEF ListOf, IsLow, IsHigh, IsFull
    <3> QED
      BY <2>5, <3>1 DEF DeletedFrom, ListName
  <2> QED
    BY <2>6 DEF IsAt, ListName
<1> QED
  BY <1>1, PagesInvariant, PTL

(* The two copies of a freelist never get out of step (allocate). *)
THEOREM FreelistsStayInStep == Spec => []FreelistsInStep
<1>1. PagesInv => FreelistsInStep
  BY DEF PagesInv, FreelistInv, FreelistsInStep
<1> QED
  BY <1>1, PagesInvariant, PTL

(* No young object is on a page that the next collection leaves out. *)
THEOREM YoungPagesCollected == Spec => []YoungPagesAreCollected
<1>1. PagesInv => YoungPagesAreCollected
  BY DEF PagesInv, YoungInv, YoungPagesAreCollected, IsAt, ListName
<1> QED
  BY <1>1, PagesInvariant, PTL

(* allocate and allocateEvacuation never start on a page without room. *)
THEOREM RoomIsHandedOut == Spec => HandsOutRoom
<1> DEFINE HasRoom ==
      \A a \in Alloc :
        /\ alloc_page'[a] \notin {alloc_page[a], NULL} => freecount'[alloc_page'[a]] > 0
        /\ evac_page'[a] \notin {evac_page[a], NULL} => freecount'[evac_page'[a]] > 0
<1>1. PagesInv /\ [Next]_vars => [HasRoom]_vars
  <2> SUFFICES ASSUME PagesInv, [Next]_vars PROVE HasRoom
    OBVIOUS
  <2>1. /\ alloc_page \in [Alloc -> Page \cup {NULL}]
        /\ evac_page \in [Alloc -> Page \cup {NULL}]
    BY DEF PagesInv, PagesTypeOK
  <2>2. ASSUME NEW a \in Alloc, NEW p \in Page, TakeEvacPage(a, p)
        PROVE  HasRoom
    BY <2>1, <2>2, TakeEvacPageStep DEF Taken
  <2>3. ASSUME NEW p \in Page, TakeAllocPage(p)
        PROVE  HasRoom
    BY <2>1, <2>3, TakeAllocPageStep DEF Taken
  <2>4. ASSUME NEW a \in Alloc, \/ FillPage(a) \/ FileEvacPage(a) \/ CollectEvacPage(a)
                                \/ \E kept \in 0..EntryCount[a] : CollectAllocPage(a, kept)
        PROVE  HasRoom
    BY <2>1, <2>4 DEF FillPage, FileEvacPage, CollectEvacPage, CollectAllocPage
  <2>5. ASSUME \/ \E a \in Alloc : Allocate(a)
               \/ \E a \in Alloc, kept \in Nat, p \in Page : CollectPendingPage(a, p, kept)
               \/ \E p \in mapped : Evacuate(p) \/ FreeObject(p) \/ LeavePage(p) \/ ReprocessPage(p)
               \/ Collect \/ EndEvacuation \/ EndDecrements \/ EndReprocess \/ EndCollect
               \/ OutOfMemory \/ Aborted \/ UNCHANGED vars
        PROVE  HasRoom
    <3>1. alloc_page' = alloc_page /\ evac_page' = evac_page
      BY <2>5 DEF Allocate, CollectPendingPage, Evacuate, FreeObject, LeavePage,
        ReprocessPage, Collect, EndEvacuation, EndDecrements, EndReprocess, EndCollect,
        OutOfMemory, Aborted, vars, cursors
    <3> QED
      BY <3>1
  <2>6. \A a \in Alloc : 0..EntryCount[a] \subseteq Nat
    BY EntryAssumption
  <2> HIDE DEF HasRoom
  <2> QED
    BY <2>2, <2>3, <2>4, <2>5, <2>6 DEF Next
<1> QED
  BY <1>1, PagesInvariant, PTL DEF Spec, HandsOutRoom

(***************************************************************************)
(* No more pages are filled than BSQ_COLLECTION_THRESHOLD before the next  *)
(* collection: the pages that have filled up are counted, and the counter  *)
(* stays below the threshold while the program runs.                       *)
(***************************************************************************)
LEMMA FewerPending ==
  ASSUME TimeInv, pc \in {"mutator", "refresh"}, PendingPages' \subseteq PendingPages,
         newly_filled_pages_count' = newly_filled_pages_count,
         disable_automatic_collections' = disable_automatic_collections,
         newly_filled_pages_count \in Nat
  PROVE  TimeInv'
<1>1. /\ IsFiniteSet(PendingPages)
      /\ Cardinality(PendingPages) <= newly_filled_pages_count
      /\ ~disable_automatic_collections => newly_filled_pages_count < BSQ_COLLECTION_THRESHOLD
  BY DEF TimeInv
<1>2. IsFiniteSet(PendingPages') /\ Cardinality(PendingPages') <= Cardinality(PendingPages)
  BY <1>1, FS_Subset
<1>3. Cardinality(PendingPages') \in Nat /\ Cardinality(PendingPages) \in Nat
  BY <1>1, <1>2, FS_CardinalityType
<1>4. Cardinality(PendingPages') <= newly_filled_pages_count'
  BY <1>1, <1>2, <1>3
<1> QED
  BY <1>1, <1>2, <1>4 DEF TimeInv

LEMMA FillPageTime ==
  ASSUME PagesInv, TimeInv, NEW a \in Alloc, FillPage(a)
  PROVE  TimeInv'
<1> USE DEF PagesInv
<1>1. /\ newly_filled_pages_count \in Nat
      /\ disable_automatic_collections' = disable_automatic_collections
      /\ pc = "mutator"
  BY DEF FillPage, PagesTypeOK
<1>2. CASE alloc_page[a] = NULL
  <2>1. lists' = lists /\ newly_filled_pages_count' = newly_filled_pages_count
    BY <1>2 DEF FillPage, placing
  <2>2. PendingPages' = PendingPages
    BY <2>1 DEF PendingPages
  <2> QED
    BY <1>1, <2>1, <2>2, FewerPending
<1>3. CASE alloc_page[a] # NULL
  <2> DEFINE p == alloc_page[a]
  <2>1. p \in mapped
    BY <1>3 DEF PlaceInv
  <2>2. Moved(p, "none", ListTo(p, InUse(p)))
    BY <1>3 DEF FillPage, ProcessPage
  <2>3. PendingPages' \subseteq PendingPages \cup {p}
    <3>1. \A b \in Alloc, l \in ListName, q \in Page :
            q \in lists'[b][l] => q \in lists[b][l] \/ q = p
      BY <2>1, <2>2, MovedLists
    <3>2. lists' \in [Alloc -> [ListName -> SUBSET Page]]
      BY <2>1, <2>2, MovedLists
    <3>3. \A b \in Alloc : lists'[b].pendinggc \subseteq lists[b].pendinggc \cup {p}
      BY <3>1, <3>2 DEF ListName
    <3> QED
      BY <3>3 DEF PendingPages
  <2>4. /\ IsFiniteSet(PendingPages)
        /\ Cardinality(PendingPages) <= newly_filled_pages_count
        /\ ~disable_automatic_collections => newly_filled_pages_count < BSQ_COLLECTION_THRESHOLD
    BY <1>1 DEF TimeInv
  <2>5. /\ IsFiniteSet(PendingPages \cup {p})
        /\ Cardinality(PendingPages \cup {p}) <= Cardinality(PendingPages) + 1
        /\ Cardinality(PendingPages) \in Nat /\ Cardinality(PendingPages \cup {p}) \in Nat
    <3>1. Cardinality(PendingPages) \in Nat
      BY <2>4, FS_CardinalityType
    <3>2. /\ IsFiniteSet(PendingPages \cup {p})
          /\ Cardinality(PendingPages \cup {p}) =
               IF p \in PendingPages THEN Cardinality(PendingPages)
               ELSE Cardinality(PendingPages) + 1
      BY <2>4, FS_AddElement
    <3> QED
      BY <3>1, <3>2
  <2>6. /\ IsFiniteSet(PendingPages')
        /\ Cardinality(PendingPages') <= Cardinality(PendingPages \cup {p})
        /\ Cardinality(PendingPages') \in Nat
    <3>1. /\ IsFiniteSet(PendingPages')
          /\ Cardinality(PendingPages') <= Cardinality(PendingPages \cup {p})
      BY <2>3, <2>5, FS_Subset
    <3> QED
      BY <3>1, FS_CardinalityType
  <2>7. newly_filled_pages_count' = newly_filled_pages_count + 1
    BY <1>3 DEF FillPage
  <2>8. /\ pc' \in {"mutator", "refresh"} /\ ~disable_automatic_collections =>
             newly_filled_pages_count + 1 # BSQ_COLLECTION_THRESHOLD
    BY <1>3 DEF FillPage, CollectionDue
  <2>9. Cardinality(PendingPages') <= newly_filled_pages_count'
    BY <1>1, <2>4, <2>5, <2>6, <2>7
  <2>10. pc' \in {"mutator", "refresh"} /\ ~disable_automatic_collections =>
             newly_filled_pages_count' < BSQ_COLLECTION_THRESHOLD
    BY <1>1, <2>4, <2>7, <2>8, PageAssumption
  <2> QED
    BY <1>1, <2>6, <2>9, <2>10 DEF TimeInv
<1> QED
  BY <1>2, <1>3

LEMMA EndCollectTime ==
  ASSUME EndCollect
  PROVE  TimeInv'
<1>1. PendingPages' = {}
  BY DEF EndCollect, Processed, placing, PendingPages
<1>2. newly_filled_pages_count' = 0
  BY DEF EndCollect
<1>3. IsFiniteSet(PendingPages') /\ Cardinality(PendingPages') = 0
  BY <1>1, FS_EmptySet
<1> QED
  BY <1>2, <1>3, PageAssumption DEF TimeInv

LEMMA TakeAllocPageTime ==
  ASSUME PagesInv, TimeInv, NEW p \in Page, TakeAllocPage(p)
  PROVE  TimeInv'
<1> USE DEF PagesInv
<1>1. /\ pc = "refresh"
      /\ refreshing \in Alloc
      /\ newly_filled_pages_count \in Nat
      /\ newly_filled_pages_count' = newly_filled_pages_count
      /\ disable_automatic_collections' = disable_automatic_collections
  BY DEF TakeAllocPage, ControlInv, PagesTypeOK, counting
<1>2. lists \in [Alloc -> [ListName -> SUBSET Page]]
  BY DEF PagesTypeOK
<1>3. \/ lists' = lists
      \/ lists' = [lists EXCEPT ![refreshing]["low"] = @ \ {p}]
  BY DEF TakeAllocPage, FreshPageForAllocator, TakeLowest, AllocateFreshPage
<1>4. \A a \in Alloc : lists'[a].pendinggc = lists[a].pendinggc
  BY <1>1, <1>2, <1>3 DEF ListName
<1>5. PendingPages' \subseteq PendingPages
  BY <1>4 DEF PendingPages
<1> QED
  BY <1>1, <1>5, FewerPending

(* Every other step ends outside of the program, or changes no list. *)
LEMMA OtherTime ==
  ASSUME PagesInv, TimeInv,
         \/ \E a \in Alloc :
              \/ Allocate(a) \/ FileEvacPage(a) \/ CollectEvacPage(a)
              \/ \E p \in Page : TakeEvacPage(a, p)
              \/ \E kept \in 0..EntryCount[a] :
                   \/ CollectAllocPage(a, kept)
                   \/ \E p \in Page : CollectPendingPage(a, p, kept)
         \/ \E p \in mapped : Evacuate(p) \/ FreeObject(p) \/ LeavePage(p) \/ ReprocessPage(p)
         \/ Collect \/ EndEvacuation \/ EndDecrements \/ EndReprocess
         \/ OutOfMemory \/ Aborted \/ UNCHANGED vars
  PROVE  TimeInv'
<1>1. \/ pc' \notin {"mutator", "refresh"}
      \/ /\ pc \in {"mutator", "refresh"}
         /\ lists' = lists
         /\ newly_filled_pages_count' = newly_filled_pages_count
         /\ disable_automatic_collections' = disable_automatic_collections
  <2>1. CASE \E a \in Alloc : Allocate(a)
    BY <2>1 DEF Allocate, control, counting, placing
  <2>2. CASE \E a \in Alloc : FileEvacPage(a) \/ \E p \in Page : TakeEvacPage(a, p)
    BY <2>2 DEF FileEvacPage, TakeEvacPage, control
  <2>3. CASE \E a \in Alloc :
               \/ CollectEvacPage(a)
               \/ \E kept \in 0..EntryCount[a] :
                    \/ CollectAllocPage(a, kept)
                    \/ \E p \in Page : CollectPendingPage(a, p, kept)
    BY <2>3 DEF CollectEvacPage, CollectAllocPage, CollectPendingPage, NextToProcess, control
  <2>4. CASE \E p \in mapped : Evacuate(p) \/ FreeObject(p) \/ LeavePage(p) \/ ReprocessPage(p)
    BY <2>4 DEF Evacuate, FreeObject, LeavePage, ReprocessPage, control
  <2>5. CASE \/ Collect \/ EndEvacuation \/ EndDecrements \/ EndReprocess
             \/ OutOfMemory \/ Aborted \/ UNCHANGED vars
    BY <2>5 DEF Collect, EndEvacuation, EndDecrements, EndReprocess, OutOfMemory,
                Aborted, vars, control, counting, placing
  <2> QED
    BY <2>1, <2>2, <2>3, <2>4, <2>5
<1>2. CASE pc' \notin {"mutator", "refresh"}
  BY <1>2 DEF TimeInv
<1>3. CASE /\ pc \in {"mutator", "refresh"}
           /\ lists' = lists
           /\ newly_filled_pages_count' = newly_filled_pages_count
           /\ disable_automatic_collections' = disable_automatic_collections
  <2>1. PendingPages' = PendingPages
    BY <1>3 DEF PendingPages
  <2>2. newly_filled_pages_count \in Nat
    BY DEF PagesInv, PagesTypeOK
  <2> QED
    BY <1>3, <2>1, <2>2, FewerPending
<1> QED
  BY <1>1, <1>2, <1>3

(* A collection starts before the forwarding table could fill up           *)
(* (allocatorRefreshPage, collect).                                        *)
THEOREM CollectionIsInTime == Spec => []CollectsInTime
<1>1. Init => TimeInv
  <2> SUFFICES ASSUME Init PROVE TimeInv
    OBVIOUS
  <2>1. PendingPages = {} /\ newly_filled_pages_count = 0
    BY DEF Init, PendingPages, ListName
  <2>2. IsFiniteSet(PendingPages) /\ Cardinality(PendingPages) = 0
    BY <2>1, FS_EmptySet
  <2> QED
    BY <2>1, <2>2, PageAssumption DEF TimeInv
<1>2. PagesInv /\ TimeInv /\ [Next]_vars => TimeInv'
  BY FillPageTime, TakeAllocPageTime, EndCollectTime, OtherTime DEF Next
<1>3. PagesInv /\ TimeInv => CollectsInTime
  <2> SUFFICES ASSUME PagesInv, TimeInv, pc = "mutator", ~disable_automatic_collections
               PROVE  Cardinality(PendingPages) < BSQ_COLLECTION_THRESHOLD
    BY DEF CollectsInTime, PendingPages
  <2>1. /\ IsFiniteSet(PendingPages)
        /\ Cardinality(PendingPages) <= newly_filled_pages_count
        /\ newly_filled_pages_count < BSQ_COLLECTION_THRESHOLD
    BY DEF TimeInv
  <2>2. newly_filled_pages_count \in Nat /\ Cardinality(PendingPages) \in Nat
    BY <2>1, FS_CardinalityType DEF PagesInv, PagesTypeOK
  <2> QED
    BY <2>1, <2>2, PageAssumption
<1> QED
  BY <1>1, <1>2, <1>3, PagesInvariant, PTL DEF Spec

-----------------------------------------------------------------------------
(***************************************************************************)
(* The utilisation buckets (module BucketTree).                            *)
(*                                                                         *)
(* The pages below a pointer are the least set that has what it leads to   *)
(* and is closed under left, right and next; everything here is shown from *)
(* that.  BucketInv says that each page in the buckets is led to from one  *)
(* place (Forest), that what is below a page is used as its side requires  *)
(* (Ordered), and that only roots have lists (ListsOfRoots).  An operation *)
(* is one of three changes (AttachRoot or AttachBelow, SpliceOut,          *)
(* PromoteNext), at the place where a walk along the pointers ends         *)
(* (WalkStays, SearchStays).                                               *)
(***************************************************************************)

(* The pages at and below c. *)
Sub(t, c) == InSubtree(t, {c})

Field == {"left", "right", "next"}

(***************************************************************************)
(* The pointers of the buckets and of the pages H lead to H and nowhere    *)
(* else, and to each page from one place.                                  *)
(***************************************************************************)
Forest(t, H) ==
  /\ t \in Tree
  /\ H \in SUBSET PageInfo
  /\ IsFiniteSet(H)
  /\ H = {p \in PageInfo : \E b \in Bucket : p \in Sub(t, t.bucket[b])}
  /\ \A p, q \in H : \A f, g \in Field :
       t[f][p] = t[g][q] /\ t[f][p] # nullptr => p = q /\ f = g
  /\ \A p \in H : \A f \in Field : \A b \in Bucket :
       t[f][p] = t.bucket[b] => t[f][p] = nullptr
  /\ \A b, c \in Bucket : t.bucket[b] = t.bucket[c] /\ t.bucket[b] # nullptr => b = c

(* Search trees of the pages that belong in a bucket. *)
Ordered(t, H) ==
  /\ \A b \in Bucket : \A p \in Sub(t, t.bucket[b]) : BucketOf[t.util[p]] = b
  /\ \A p \in H :
       /\ \A q \in Sub(t, t.left[p])  : t.util[q] < t.util[p]
       /\ \A q \in Sub(t, t.right[p]) : t.util[q] >= t.util[p]
       /\ \A q \in Sub(t, t.next[p])  : t.util[q] = t.util[p]

(* Only a root has a list, and a list is no more than one. *)
ListsOfRoots(t, H) ==
  \A p \in H :
    /\ \A q \in Sub(t, t.next[p]) : t.left[q] = nullptr /\ t.right[q] = nullptr
    /\ \A q \in Sub(t, t.left[p]) \cup Sub(t, t.right[p]) : t.next[q] = nullptr

Sound(t, H) == Forest(t, H) /\ Ordered(t, H) /\ ListsOfRoots(t, H)

BucketInv == Sound(tree, held)

-----------------------------------------------------------------------------
(* The pointers of a tree. *)
LEMMA TreeType ==
  ASSUME NEW t \in Tree
  PROVE  /\ t.bucket \in [Bucket -> Pointer]
         /\ \A f \in Field : t[f] \in [PageInfo -> Pointer]
         /\ t.left \in [PageInfo -> Pointer]
         /\ t.right \in [PageInfo -> Pointer]
         /\ t.next \in [PageInfo -> Pointer]
         /\ t.util \in [PageInfo -> Util]
         /\ nullptr \notin PageInfo
         /\ Pointer = PageInfo \cup {nullptr}
BY BucketAssumption DEF Tree, Field, Pointer

(* What is below a page includes it and is closed under its pointers. *)
LEMMA SubClosed ==
  ASSUME NEW t \in Tree, NEW c \in Pointer
  PROVE  /\ Sub(t, c) \subseteq PageInfo
         /\ c # nullptr => c \in Sub(t, c)
         /\ \A p \in Sub(t, c), f \in Field : t[f][p] # nullptr => t[f][p] \in Sub(t, c)
<1>1. Sub(t, c) \subseteq PageInfo
  BY DEF Sub, InSubtree
<1>2. c # nullptr => c \in Sub(t, c)
  BY TreeType DEF Sub, InSubtree
<1>3. ASSUME NEW p \in Sub(t, c), NEW f \in Field, t[f][p] # nullptr
      PROVE  t[f][p] \in Sub(t, c)
  <2>1. t[f][p] \in Links(t, p) /\ t[f][p] \in PageInfo
    BY <1>1, <1>3, TreeType DEF Links, Field
  <2>2. ASSUME NEW S \in SUBSET PageInfo, {c} \ {nullptr} \subseteq S,
               \A q \in S : Links(t, q) \subseteq S
        PROVE  t[f][p] \in S
    <3>1. p \in S
      BY <2>2 DEF Sub, InSubtree
    <3> QED
      BY <2>1, <2>2, <3>1
  <2> QED
    BY <2>1, <2>2 DEF Sub, InSubtree
<1> QED
  BY <1>1, <1>2, <1>3

(* It is the least such set. *)
LEMMA SubLeast ==
  ASSUME NEW t \in Tree, NEW c \in Pointer, NEW S \in SUBSET PageInfo,
         c # nullptr => c \in S,
         \A p \in S, f \in Field : t[f][p] # nullptr => t[f][p] \in S
  PROVE  Sub(t, c) \subseteq S
<1>1. {c} \ {nullptr} \subseteq S
  OBVIOUS
<1>2. \A p \in S : Links(t, p) \subseteq S
  BY DEF Links, Field
<1> QED
  BY <1>1, <1>2 DEF Sub, InSubtree

(* There is nothing below nullptr. *)
LEMMA SubNull ==
  ASSUME NEW t \in Tree
  PROVE  Sub(t, nullptr) = {}
<1>1. nullptr \in Pointer /\ {} \in SUBSET PageInfo
  BY TreeType
<1>2. Sub(t, nullptr) \subseteq {}
  BY <1>1, SubLeast
<1> QED
  BY <1>2

(* What is below a page is the page and what is below its pointers. *)
LEMMA SubUnfold ==
  ASSUME NEW t \in Tree, NEW c \in PageInfo
  PROVE  Sub(t, c) = {c} \cup Sub(t, t.left[c]) \cup Sub(t, t.right[c]) \cup Sub(t, t.next[c])
<1> DEFINE S == {c} \cup Sub(t, t.left[c]) \cup Sub(t, t.right[c]) \cup Sub(t, t.next[c])
<1>1. c \in Pointer /\ \A p \in PageInfo, f \in Field : t[f][p] \in Pointer
  BY TreeType
<1>2. t.left[c] \in Pointer /\ t.right[c] \in Pointer /\ t.next[c] \in Pointer
  BY TreeType
<1>3. S \subseteq Sub(t, c)
  <2>1. ASSUME NEW f \in Field PROVE Sub(t, t[f][c]) \subseteq Sub(t, c)
    <3>1. t[f][c] # nullptr => t[f][c] \in Sub(t, c)
      BY <1>1, SubClosed, TreeType
    <3> QED
      BY <1>1, <3>1, SubLeast, SubClosed
  <2> QED
    BY <1>1, <2>1, SubClosed, TreeType DEF Field
<1>4. Sub(t, c) \subseteq S
  <2>1. S \in SUBSET PageInfo
    BY <1>2, SubClosed
  <2>2. ASSUME NEW p \in S, NEW f \in Field, t[f][p] # nullptr PROVE t[f][p] \in S
    <3>1. CASE p = c
      <4>1. t[f][c] \in Sub(t, t[f][c])
        BY <1>1, <2>2, <3>1, SubClosed
      <4> QED
        BY <3>1, <4>1 DEF Field
    <3>2. CASE p # c
      <4>1. PICK g \in Field : p \in Sub(t, t[g][c])
        BY <3>2 DEF Field
      <4>2. t[f][p] \in Sub(t, t[g][c])
        BY <1>1, <2>2, <4>1, SubClosed
      <4> QED
        BY <4>2 DEF Field
    <3> QED
      BY <3>1, <3>2
  <2> HIDE DEF S
  <2>3. c \in S
    BY DEF S
  <2> QED
    BY <1>1, <2>1, <2>2, <2>3, SubLeast
<1> QED
  BY <1>3, <1>4

(* What is below a page below c is below c. *)
LEMMA SubTrans ==
  ASSUME NEW t \in Tree, NEW c \in Pointer, NEW d \in Sub(t, c)
  PROVE  /\ Sub(t, d) \subseteq Sub(t, c)
         /\ \A f \in Field : Sub(t, t[f][d]) \subseteq Sub(t, c)
<1>1. d \in PageInfo /\ d \in Pointer
  BY SubClosed, TreeType
<1>2. Sub(t, d) \subseteq Sub(t, c)
  BY <1>1, SubLeast, SubClosed
<1>3. ASSUME NEW f \in Field PROVE Sub(t, t[f][d]) \subseteq Sub(t, c)
  BY <1>1, <1>2, SubUnfold DEF Field
<1> QED
  BY <1>2, <1>3

(* A tree that agrees on what is below c has the same there. *)
LEMMA SubAgree ==
  ASSUME NEW t \in Tree, NEW u \in Tree, NEW c \in Pointer,
         \A p \in Sub(t, c), f \in Field : u[f][p] = t[f][p]
  PROVE  Sub(u, c) = Sub(t, c)
<1>1. Sub(u, c) \subseteq Sub(t, c)
  BY SubLeast, SubClosed
<1>2. Sub(t, c) \subseteq Sub(u, c) \cap Sub(t, c)
  BY <1>1, SubLeast, SubClosed
<1> QED
  BY <1>1, <1>2

-----------------------------------------------------------------------------
(* The pointers of the pages in the buckets lead to pages in the buckets. *)
LEMMA ForestClosed ==
  ASSUME NEW t, NEW H, Forest(t, H)
  PROVE  /\ \A b \in Bucket : /\ t.bucket[b] \in Pointer
                              /\ Sub(t, t.bucket[b]) \subseteq H
                              /\ t.bucket[b] # nullptr => t.bucket[b] \in H
         /\ \A p \in H : /\ p \in PageInfo /\ p \in Pointer /\ p # nullptr
                         /\ p \in Sub(t, p) /\ Sub(t, p) \subseteq H
         /\ \A p \in H, f \in Field : /\ t[f][p] \in Pointer
                                      /\ t[f][p] # nullptr => t[f][p] \in H
                                      /\ Sub(t, t[f][p]) \subseteq H
                                      /\ Sub(t, t[f][p]) \subseteq Sub(t, p)
<1>1. t \in Tree /\ H \subseteq PageInfo
      /\ H = {p \in PageInfo : \E b \in Bucket : p \in Sub(t, t.bucket[b])}
  BY DEF Forest
<1>2. ASSUME NEW b \in Bucket
      PROVE  /\ t.bucket[b] \in Pointer
             /\ Sub(t, t.bucket[b]) \subseteq H
             /\ t.bucket[b] # nullptr => t.bucket[b] \in H
  <2>1. t.bucket[b] \in Pointer
    BY <1>1, TreeType
  <2> QED
    BY <1>1, <2>1, SubClosed
<1>3. ASSUME NEW p \in H
      PROVE  /\ p \in PageInfo /\ p \in Pointer /\ p # nullptr
             /\ p \in Sub(t, p) /\ Sub(t, p) \subseteq H
  <2>1. p \in PageInfo /\ p \in Pointer /\ p # nullptr
    BY <1>1, TreeType
  <2>2. PICK b \in Bucket : p \in Sub(t, t.bucket[b])
    BY <1>1
  <2>3. Sub(t, p) \subseteq Sub(t, t.bucket[b])
    BY <1>1, <1>2, <2>2, SubTrans
  <2> QED
    BY <1>1, <1>2, <2>1, <2>3, SubClosed
<1>4. ASSUME NEW p \in H, NEW f \in Field
      PROVE  /\ t[f][p] \in Pointer
             /\ t[f][p] # nullptr => t[f][p] \in H
             /\ Sub(t, t[f][p]) \subseteq H
             /\ Sub(t, t[f][p]) \subseteq Sub(t, p)
  <2>1. p \in PageInfo /\ p \in Pointer /\ p \in Sub(t, p) /\ Sub(t, p) \subseteq H
    BY <1>3
  <2>2. t[f][p] \in Pointer
    BY <1>1, <2>1, TreeType
  <2>3. Sub(t, t[f][p]) \subseteq Sub(t, p)
    BY <1>1, <2>1, SubTrans
  <2>4. t[f][p] # nullptr => t[f][p] \in Sub(t, p)
    BY <1>1, <2>1, SubClosed
  <2> QED
    BY <2>1, <2>2, <2>3, <2>4
<1> QED
  BY <1>2, <1>3, <1>4

(* Only one place leads to a page, so what is below a place and points to  *)
(* it is below that place too.                                             *)
LEMMA ParentBelow ==
  ASSUME NEW t, NEW H, Forest(t, H), NEW x \in H, NEW g \in Field,
         NEW c \in H, NEW f \in Field, t[f][c] \in Sub(t, t[g][x])
  PROVE  (x = c /\ g = f) \/ c \in Sub(t, t[g][x])
<1> DEFINE T == Sub(t, t[g][x])
           S == {d \in T : \A e \in H : \A h \in Field :
                   t[h][e] = d => (x = e /\ g = h) \/ e \in T}
<1>1. t \in Tree /\ t[g][x] \in Pointer /\ T \subseteq H /\ T \subseteq PageInfo
  BY ForestClosed, SubClosed DEF Forest
<1>2. nullptr \notin T
  BY <1>1, TreeType
<1>3. t[g][x] # nullptr => t[g][x] \in S
  BY <1>1, SubClosed DEF Forest
<1>4. ASSUME NEW y \in S, NEW k \in Field, t[k][y] # nullptr
      PROVE  t[k][y] \in S
  <2>1. t[k][y] \in T
    BY <1>1, <1>4, SubClosed
  <2>2. ASSUME NEW e \in H, NEW h \in Field, t[h][e] = t[k][y]
        PROVE  e \in T
    <3>1. y \in H
      BY <1>1
    <3>2. e = y
      BY <1>4, <2>2, <3>1 DEF Forest
    <3> QED
      BY <3>2
  <2> QED
    BY <2>1, <2>2
<1>5. T \subseteq S
  <2>1. S \in SUBSET PageInfo
    BY <1>1
  <2> HIDE DEF S
  <2> QED
    BY <1>1, <1>3, <1>4, <2>1, SubLeast
<1> QED
  BY <1>5

(* No page is below itself, and no root below any page. *)
LEMMA ForestAcyclic ==
  ASSUME NEW t, NEW H, Forest(t, H), NEW x \in H, NEW g \in Field
  PROVE  /\ x \notin Sub(t, t[g][x])
         /\ \A b \in Bucket : t.bucket[b] \notin Sub(t, t[g][x])
<1> DEFINE T == Sub(t, t[g][x])
           S == {d \in T : \A b \in Bucket : t.bucket[b] # d}
<1>1. t \in Tree /\ t[g][x] \in Pointer /\ T \subseteq H /\ T \subseteq PageInfo
      /\ H \subseteq PageInfo
  BY ForestClosed, SubClosed DEF Forest
<1>2. nullptr \notin T
  BY <1>1, TreeType
<1>3. T \subseteq S
  <2>1. S \in SUBSET PageInfo
    BY <1>1
  <2>2. t[g][x] # nullptr => t[g][x] \in S
    BY <1>1, SubClosed DEF Forest
  <2>3. ASSUME NEW y \in S, NEW k \in Field, t[k][y] # nullptr
        PROVE  t[k][y] \in S
    <3>1. t[k][y] \in T
      BY <1>1, <2>3, SubClosed
    <3>2. y \in H
      BY <1>1
    <3> QED
      BY <2>3, <3>1, <3>2 DEF Forest
  <2> HIDE DEF S
  <2> QED
    BY <1>1, <2>1, <2>2, <2>3, SubLeast
<1>4. ASSUME x \in T PROVE FALSE
  <2>1. ASSUME NEW b \in Bucket PROVE Sub(t, t.bucket[b]) \subseteq H \ T
    <3>1. t.bucket[b] # nullptr => t.bucket[b] \in H \ T
      BY <1>3, ForestClosed
    <3>2. ASSUME NEW y \in H \ T, NEW k \in Field, t[k][y] # nullptr
          PROVE  t[k][y] \in H \ T
      <4>1. t[k][y] \in H
        BY <3>2, ForestClosed
      <4>2. t[k][y] \in T => y \in T
        BY <1>4, ParentBelow
      <4> QED
        BY <4>1, <4>2
    <3>3. H \ T \in SUBSET PageInfo /\ t.bucket[b] \in Pointer
      BY <1>1, ForestClosed
    <3> HIDE DEF T
    <3> QED
      BY <1>1, <3>1, <3>2, <3>3, SubLeast
  <2>2. PICK b \in Bucket : x \in Sub(t, t.bucket[b])
    BY DEF Forest
  <2> QED
    BY <1>4, <2>1, <2>2
<1> QED
  BY <1>3, <1>4

(* What is below two pointers of a page is different. *)
LEMMA SidesDiffer ==
  ASSUME NEW t, NEW H, Forest(t, H), NEW x \in H, NEW f \in Field, NEW g \in Field, f # g
  PROVE  Sub(t, t[f][x]) \cap Sub(t, t[g][x]) = {}
<1> DEFINE S == Sub(t, t[f][x]) \ Sub(t, t[g][x])
<1>1. /\ t \in Tree /\ t[f][x] \in Pointer /\ Sub(t, t[f][x]) \subseteq H
      /\ S \in SUBSET PageInfo
  BY ForestClosed, SubClosed DEF Forest
<1>2. x \notin Sub(t, t[g][x]) /\ x \notin Sub(t, t[f][x])
  BY ForestAcyclic
<1>3. t[f][x] # nullptr => t[f][x] \in S
  <2>1. t[f][x] # nullptr => t[f][x] \in Sub(t, t[f][x])
    BY <1>1, SubClosed
  <2>2. t[f][x] \notin Sub(t, t[g][x])
    BY <1>2, ParentBelow
  <2> QED
    BY <2>1, <2>2
<1>4. ASSUME NEW y \in S, NEW k \in Field, t[k][y] # nullptr PROVE t[k][y] \in S
  <2>1. t[k][y] \in Sub(t, t[f][x]) /\ y \in H
    BY <1>1, <1>4, SubClosed
  <2>2. t[k][y] \notin Sub(t, t[g][x])
    BY <1>2, <2>1, ParentBelow
  <2> QED
    BY <2>1, <2>2
<1>5. Sub(t, t[f][x]) \subseteq S
  <2> HIDE DEF S
  <2> QED
    BY <1>1, <1>3, <1>4, SubLeast
<1> QED
  BY <1>5
-----------------------------------------------------------------------------
(***************************************************************************)
(* Three changes of a forest: a page without pointers is put in a free     *)
(* place, a page that has one pointer gives its place to what that leads   *)
(* to, and the head of a list gives its place to the page behind it.       *)
(***************************************************************************)

(* What is outside does not matter. *)
LEMMA AgreeSound ==
  ASSUME NEW t, NEW H, Sound(t, H), NEW u \in Tree, u.bucket = t.bucket,
         \A p \in H : u.util[p] = t.util[p],
         \A p \in H, f \in Field : u[f][p] = t[f][p]
  PROVE  /\ Sound(u, H)
         /\ \A b \in Bucket : Sub(u, t.bucket[b]) = Sub(t, t.bucket[b])
         /\ \A p \in H, f \in Field : Sub(u, t[f][p]) = Sub(t, t[f][p])
<1>1. t \in Tree /\ Forest(t, H) /\ Ordered(t, H) /\ ListsOfRoots(t, H)
  BY DEF Sound, Forest
<1>2. ASSUME NEW c \in Pointer, Sub(t, c) \subseteq H
      PROVE  Sub(u, c) = Sub(t, c)
  BY <1>1, <1>2, SubAgree
<1>3. \A b \in Bucket : Sub(u, u.bucket[b]) = Sub(t, t.bucket[b])
  BY <1>1, <1>2, ForestClosed
<1>4. \A p \in H, f \in Field : Sub(u, u[f][p]) = Sub(t, t[f][p])
  BY <1>1, <1>2, ForestClosed
<1>5. Forest(u, H)
  <2>1. H = {p \in PageInfo : \E b \in Bucket : p \in Sub(u, u.bucket[b])}
    BY <1>1, <1>3 DEF Forest
  <2> QED
    BY <1>1, <2>1 DEF Forest
<1>6. Ordered(u, H)
  <2>1. ASSUME NEW b \in Bucket, NEW p \in Sub(u, u.bucket[b])
        PROVE  BucketOf[u.util[p]] = b
    <3>1. p \in Sub(t, t.bucket[b]) /\ p \in H
      BY <1>1, <1>3, ForestClosed
    <3> QED
      BY <1>1, <3>1 DEF Ordered
  <2>2. ASSUME NEW p \in H, NEW f \in Field, NEW q \in Sub(u, u[f][p])
        PROVE  q \in H /\ q \in Sub(t, t[f][p])
    BY <1>1, <1>4, <2>2, ForestClosed
  <2> QED
    BY <1>1, <2>1, <2>2 DEF Ordered, Field
<1>7. ListsOfRoots(u, H)
  <2>2. ASSUME NEW p \in H, NEW f \in Field, NEW q \in Sub(u, u[f][p])
        PROVE  q \in H /\ q \in Sub(t, t[f][p])
    BY <1>1, <1>4, <2>2, ForestClosed
  <2> QED
    BY <1>1, <2>2 DEF ListsOfRoots, Field
<1> QED
  BY <1>3, <1>4, <1>5, <1>6, <1>7 DEF Sound

(* The first page of a bucket. *)
LEMMA AttachRoot ==
  ASSUME NEW t, NEW H, Sound(t, H), NEW p \in PageInfo \ H, NEW b \in Bucket,
         t.bucket[b] = nullptr, b = BucketOf[t.util[p]],
         \A f \in Field : t[f][p] = nullptr
  PROVE  Sound([t EXCEPT !.bucket[b] = p], H \cup {p})
<1> DEFINE u == [t EXCEPT !.bucket[b] = p]
<1>1. t \in Tree /\ Forest(t, H) /\ Ordered(t, H) /\ ListsOfRoots(t, H)
  BY DEF Sound, Forest
<1>2. /\ u.bucket = [t.bucket EXCEPT ![b] = p] /\ u.util = t.util
      /\ u.left = t.left /\ u.right = t.right /\ u.next = t.next
  BY <1>1 DEF Tree
<1>3. u \in Tree
  BY <1>1, TreeType DEF Tree
<1>4. \A f \in Field : u[f] = t[f]
  BY <1>2 DEF Field
<1> HIDE DEF u
<1>5. \A c \in Pointer : Sub(u, c) = Sub(t, c)
  BY <1>1, <1>3, <1>4, SubAgree
<1>6. Sub(u, p) = {p}
  BY <1>1, <1>5, SubUnfold, SubNull, TreeType DEF Field
<1>7. \A c \in Bucket : c # b => u.bucket[c] = t.bucket[c] /\ Sub(u, u.bucket[c]) = Sub(t, t.bucket[c])
  BY <1>1, <1>2, <1>5, TreeType
<1>8. u.bucket[b] = p /\ Sub(t, t.bucket[b]) = {}
  BY <1>1, <1>2, TreeType, SubNull
<1>9. \A x \in H, f \in Field : u[f][x] = t[f][x] /\ Sub(u, u[f][x]) = Sub(t, t[f][x])
  BY <1>4, <1>5, <1>1, ForestClosed
<1>10. \A f \in Field : u[f][p] = nullptr /\ Sub(u, u[f][p]) = {}
  BY <1>3, <1>4, SubNull
<1>11. Forest(u, H \cup {p})
  <2>1. H \cup {p} \in SUBSET PageInfo /\ IsFiniteSet(H \cup {p})
    BY <1>1, FS_AddElement DEF Forest
  <2>2. H \cup {p} = {q \in PageInfo : \E c \in Bucket : q \in Sub(u, u.bucket[c])}
    <3>1. \A q \in PageInfo, c \in Bucket : q \in Sub(u, u.bucket[c])
                                             <=> (c = b /\ q = p) \/ q \in Sub(t, t.bucket[c])
      BY <1>6, <1>7, <1>8
    <3>2. H = {q \in PageInfo : \E c \in Bucket : q \in Sub(t, t.bucket[c])}
      BY <1>1 DEF Forest
    <3> QED
      BY <3>1, <3>2
  <2>3. ASSUME NEW q \in H \cup {p}, NEW r \in H \cup {p}, NEW f \in Field, NEW g \in Field,
               u[f][q] = u[g][r], u[f][q] # nullptr
        PROVE  q = r /\ f = g
    <3>1. q \in H /\ r \in H
      BY <1>10, <2>3
    <3> QED
      BY <1>1, <1>9, <2>3, <3>1 DEF Forest
  <2>4. ASSUME NEW q \in H \cup {p}, NEW f \in Field, NEW c \in Bucket, u[f][q] = u.bucket[c],
               u[f][q] # nullptr
        PROVE  FALSE
    <3>1. q \in H /\ t[f][q] = u[f][q] /\ t[f][q] \in H
      BY <1>1, <1>9, <1>10, <2>4, ForestClosed
    <3>2. c # b /\ u.bucket[c] = t.bucket[c]
      BY <1>7, <1>8, <2>4, <3>1
    <3> QED
      BY <1>1, <2>4, <3>1, <3>2 DEF Forest
  <2>5. ASSUME NEW c \in Bucket, NEW d \in Bucket, u.bucket[c] = u.bucket[d], u.bucket[c] # nullptr
        PROVE  c = d
    BY <1>1, <1>7, <1>8, <2>5, ForestClosed DEF Forest
  <2> QED
    BY <1>3, <2>1, <2>2, <2>3, <2>4, <2>5 DEF Forest
<1>12. Ordered(u, H \cup {p})
  <2>1. ASSUME NEW c \in Bucket, NEW q \in Sub(u, u.bucket[c])
        PROVE  BucketOf[u.util[q]] = c
    BY <1>1, <1>2, <1>6, <1>7, <1>8, <2>1 DEF Ordered
  <2>2. ASSUME NEW x \in H \cup {p}, NEW f \in Field, NEW q \in Sub(u, u[f][x])
        PROVE  x \in H /\ q \in Sub(t, t[f][x])
    BY <1>9, <1>10, <2>2
  <2> QED
    BY <1>1, <1>2, <2>1, <2>2 DEF Ordered, Field
<1>13. ListsOfRoots(u, H \cup {p})
  <2>2. ASSUME NEW x \in H \cup {p}, NEW f \in Field, NEW q \in Sub(u, u[f][x])
        PROVE  x \in H /\ q \in Sub(t, t[f][x])
    BY <1>9, <1>10, <2>2
  <2> QED
    BY <1>1, <1>2, <2>2 DEF ListsOfRoots, Field
<1> QED
  BY <1>11, <1>12, <1>13 DEF Sound, u

(* A page of utilisation v may become what the pointer g of q leads to.    *)
MayHang(t, H, q, g, v) ==
  /\ q \in H /\ t[g][q] = nullptr
  /\ \A b \in Bucket : q \in Sub(t, t.bucket[b]) => BucketOf[v] = b
  /\ \A x \in H, f \in Field :
       q \in Sub(t, t[f][x]) \/ (x = q /\ f = g) =>
         /\ f = "left"  => v < t.util[x]
         /\ f = "right" => v >= t.util[x]
         /\ f = "next"  => v = t.util[x]
  /\ \A x \in H, f \in Field : q \in Sub(t, t[f][x]) => (f = "next" <=> g = "next")

(* u is t but that pointer g of q leads to p. *)
Redirected(t, u, q, g, p) ==
  /\ u \in Tree /\ u.bucket = t.bucket /\ u.util = t.util
  /\ \A x \in PageInfo, f \in Field : u[f][x] = IF x = q /\ f = g THEN p ELSE t[f][x]

(* The next page of a list, or a new leaf of a tree. *)
LEMMA AttachBelow ==
  ASSUME NEW t, NEW H, Sound(t, H), NEW p \in PageInfo \ H, NEW q, NEW g \in Field,
         MayHang(t, H, q, g, t.util[p]),
         \A f \in Field : t[f][p] = nullptr,
         NEW u, Redirected(t, u, q, g, p)
  PROVE  Sound(u, H \cup {p})
<1> /\ u \in Tree /\ u.bucket = t.bucket /\ u.util = t.util
    /\ \A x \in PageInfo, f \in Field : u[f][x] = IF x = q /\ f = g THEN p ELSE t[f][x]
  BY DEF Redirected
<1>1. t \in Tree /\ Forest(t, H) /\ Ordered(t, H) /\ ListsOfRoots(t, H) /\ H \subseteq PageInfo
  BY DEF Sound, Forest
<1>2. q \in H /\ t[g][q] = nullptr /\ q # p
  BY DEF MayHang
<1>3. \A f \in Field : u[f][p] = nullptr /\ Sub(u, u[f][p]) = {}
  BY <1>2, SubNull
<1>4. Sub(u, p) = {p}
  BY <1>3, SubUnfold DEF Field
<1>5. ASSUME NEW c \in Pointer, Sub(t, c) \subseteq H
      PROVE  \A y : y \in Sub(u, c) <=> y \in Sub(t, c) \/ (y = p /\ q \in Sub(t, c))
  <2> DEFINE S == Sub(t, c) \cup {y \in {p} : q \in Sub(t, c)}
  <2>1. Sub(u, c) \subseteq S
    <3>1. S \in SUBSET PageInfo /\ (c # nullptr => c \in S)
      BY <1>1, <1>5, SubClosed
    <3>2. ASSUME NEW y \in S, NEW f \in Field, u[f][y] # nullptr PROVE u[f][y] \in S
      <4>1. y # p
        BY <1>3, <3>2
      <4>2. y \in Sub(t, c) /\ y \in PageInfo
        BY <4>1, <3>1
      <4>3. CASE y = q /\ f = g
        BY <4>2, <4>3
      <4>4. CASE ~(y = q /\ f = g)
        <5>1. u[f][y] = t[f][y]
          BY <4>2, <4>4
        <5> QED
          BY <1>1, <3>2, <4>2, <5>1, SubClosed
      <4> QED
        BY <4>3, <4>4
    <3> HIDE DEF S
    <3> QED
      BY <3>1, <3>2, SubLeast
  <2>2. Sub(t, c) \subseteq Sub(u, c)
    <3>1. Sub(u, c) \cap H \in SUBSET PageInfo /\ (c # nullptr => c \in Sub(u, c) \cap H)
      BY <1>1, <1>5, SubClosed
    <3>2. ASSUME NEW y \in Sub(u, c) \cap H, NEW f \in Field, t[f][y] # nullptr
          PROVE  t[f][y] \in Sub(u, c) \cap H
      <4>1. y \in PageInfo /\ t[f][y] \in H
        BY <1>1, <3>2, ForestClosed
      <4>2. u[f][y] = t[f][y]
        BY <1>2, <3>2, <4>1
      <4> QED
        BY <3>2, <4>1, <4>2, SubClosed
    <3> QED
      BY <1>1, <3>1, <3>2, SubLeast
  <2>3. q \in Sub(t, c) => p \in Sub(u, c)
    <3>1. q \in PageInfo /\ u[g][q] = p /\ p # nullptr
      BY <1>1, <1>2, TreeType
    <3> QED
      BY <2>2, <3>1, SubClosed
  <2> QED
    BY <2>1, <2>2, <2>3
<1>6. \A b \in Bucket : /\ u.bucket[b] = t.bucket[b]
                        /\ \A y : y \in Sub(u, u.bucket[b]) <=>
                             y \in Sub(t, t.bucket[b]) \/ (y = p /\ q \in Sub(t, t.bucket[b]))
  BY <1>1, <1>5, ForestClosed
<1>7. ASSUME NEW x \in H, NEW f \in Field
      PROVE  \A y : y \in Sub(u, u[f][x]) <=>
               \/ y \in Sub(t, t[f][x])
               \/ y = p /\ (q \in Sub(t, t[f][x]) \/ (x = q /\ f = g))
  <2>1. x \in PageInfo
    BY <1>1
  <2>2. CASE x = q /\ f = g
    <3>1. u[f][x] = p /\ Sub(t, t[f][x]) = {}
      BY <1>1, <1>2, <2>1, <2>2, SubNull
    <3> QED
      BY <1>4, <2>2, <3>1
  <2>3. CASE ~(x = q /\ f = g)
    <3>1. u[f][x] = t[f][x]
      BY <2>1, <2>3
    <3> QED
      BY <1>1, <1>5, <2>3, <3>1, ForestClosed
  <2> QED
    BY <2>2, <2>3
<1>8. Forest(u, H \cup {p})
  <2>1. H \cup {p} \in SUBSET PageInfo /\ IsFiniteSet(H \cup {p})
    BY <1>1, FS_AddElement DEF Forest
  <2>2. H \cup {p} = {y \in PageInfo : \E b \in Bucket : y \in Sub(u, u.bucket[b])}
    <3>1. H = {y \in PageInfo : \E b \in Bucket : y \in Sub(t, t.bucket[b])}
      BY <1>1 DEF Forest
    <3>2. PICK c \in Bucket : q \in Sub(t, t.bucket[c])
      BY <1>2, <3>1
    <3> QED
      BY <1>6, <3>1, <3>2
  <2>3. ASSUME NEW x \in H \cup {p}, NEW f \in Field, u[f][x] # nullptr
        PROVE  x \in H /\ (IF x = q /\ f = g THEN u[f][x] = p ELSE u[f][x] = t[f][x] /\ t[f][x] \in H)
    <3>1. x \in H /\ x \in PageInfo
      BY <1>1, <1>3, <2>3
    <3> QED
      BY <1>1, <2>3, <3>1, ForestClosed
  <2>4. ASSUME NEW x \in H \cup {p}, NEW y \in H \cup {p}, NEW f \in Field, NEW h \in Field,
               u[f][x] = u[h][y], u[f][x] # nullptr
        PROVE  x = y /\ f = h
    BY <1>1, <2>3, <2>4 DEF Forest
  <2>5. ASSUME NEW x \in H \cup {p}, NEW f \in Field, NEW b \in Bucket, u[f][x] = u.bucket[b],
               u[f][x] # nullptr
        PROVE  FALSE
    <3>1. t.bucket[b] \in H
      BY <1>1, <2>5, ForestClosed
    <3> QED
      BY <1>1, <2>3, <2>5, <3>1 DEF Forest
  <2> QED
    BY <1>1, <2>1, <2>2, <2>4, <2>5 DEF Forest
<1>9. Ordered(u, H \cup {p})
  <2>1. ASSUME NEW b \in Bucket, NEW y \in Sub(u, u.bucket[b])
        PROVE  BucketOf[u.util[y]] = b
    BY <1>1, <1>6, <2>1 DEF Ordered, MayHang
  <2>2. ASSUME NEW x \in H \cup {p}, NEW f \in Field, NEW y \in Sub(u, u[f][x])
        PROVE  /\ f = "left"  => u.util[y] < u.util[x]
               /\ f = "right" => u.util[y] >= u.util[x]
               /\ f = "next"  => u.util[y] = u.util[x]
    <3>1. x \in H
      BY <1>3, <2>2
    <3>2. CASE y \in Sub(t, t[f][x])
      BY <1>1, <3>1, <3>2 DEF Ordered
    <3>3. CASE y = p /\ (q \in Sub(t, t[f][x]) \/ (x = q /\ f = g))
      BY <3>1, <3>3 DEF MayHang
    <3> QED
      BY <1>7, <2>2, <3>1, <3>2, <3>3
  <2> QED
    BY <2>1, <2>2 DEF Ordered, Field
<1>10. ListsOfRoots(u, H \cup {p})
  <2>1. ASSUME NEW x \in H \cup {p}, NEW f \in Field, NEW y \in Sub(u, u[f][x])
        PROVE  /\ f = "next" => u.left[y] = nullptr /\ u.right[y] = nullptr
               /\ f # "next" => u.next[y] = nullptr
    <3>1. x \in H
      BY <1>3, <2>1
    <3>2. CASE y = p
      BY <1>3, <3>2 DEF Field
    <3>3. CASE y # p
      <4>1. y \in Sub(t, t[f][x])
        BY <1>7, <2>1, <3>1, <3>3
      <4>2. y \in H /\ y \in PageInfo
        BY <1>1, <3>1, <4>1, ForestClosed
      <4>3. /\ f = "next" => t.left[y] = nullptr /\ t.right[y] = nullptr
            /\ f # "next" => t.next[y] = nullptr
        BY <1>1, <3>1, <4>1 DEF ListsOfRoots, Field
      <4>4. CASE y = q
        <5>1. f = "next" <=> g = "next"
          BY <3>1, <4>1, <4>4 DEF MayHang
        <5> QED
          BY <4>2, <4>3, <5>1 DEF Field
      <4>5. CASE y # q
        BY <4>2, <4>3, <4>5 DEF Field
      <4> QED
        BY <4>4, <4>5
    <3> QED
      BY <3>2, <3>3
  <2> QED
    BY <2>1 DEF ListsOfRoots, Field
<1> QED
  BY <1>8, <1>9, <1>10 DEF Sound

(* Whatever led to p leads to r in u. *)
Spliced(t, u, H, p, r) ==
  /\ u \in Tree /\ u.util = t.util
  /\ \A b \in Bucket : u.bucket[b] = IF t.bucket[b] = p THEN r ELSE t.bucket[b]
  /\ \A x \in H \ {p}, f \in Field : u[f][x] = IF t[f][x] = p THEN r ELSE t[f][x]

(* A page that leads to r only, or nowhere, is left out. *)
LEMMA SpliceOut ==
  ASSUME NEW t, NEW H, Sound(t, H), NEW p \in H, NEW r \in Pointer,
         \A f \in Field : t[f][p] \in {r, nullptr},
         r # nullptr => \E f \in Field : t[f][p] = r,
         NEW u, Spliced(t, u, H, p, r)
  PROVE  Sound(u, H \ {p})
<1> /\ u \in Tree
    /\ \A x \in H : u.util[x] = t.util[x]
    /\ \A b \in Bucket : u.bucket[b] = IF t.bucket[b] = p THEN r ELSE t.bucket[b]
    /\ \A x \in H \ {p}, f \in Field : u[f][x] = IF t[f][x] = p THEN r ELSE t[f][x]
  BY DEF Spliced
<1>1. t \in Tree /\ Forest(t, H) /\ Ordered(t, H) /\ ListsOfRoots(t, H) /\ H \subseteq PageInfo
  BY DEF Sound, Forest
<1>2. r # p /\ p \in PageInfo /\ p # nullptr
  <2>1. p \in PageInfo /\ p # nullptr
    BY <1>1, TreeType
  <2>2. ASSUME r = p PROVE FALSE
    <3>1. PICK f \in Field : t[f][p] = p
      BY <2>1, <2>2
    <3>2. p \in Sub(t, t[f][p])
      BY <1>1, <2>1, <3>1, ForestClosed
    <3> QED
      BY <1>1, <3>2, ForestAcyclic
  <2> QED
    BY <2>1, <2>2
<1>3. ASSUME NEW c \in Pointer, Sub(t, c) \subseteq H, c # p
      PROVE  Sub(u, c) = Sub(t, c) \ {p}
  <2>1. Sub(u, c) \subseteq Sub(t, c) \ {p}
    <3>1. Sub(t, c) \ {p} \in SUBSET PageInfo /\ (c # nullptr => c \in Sub(t, c) \ {p})
      BY <1>1, <1>3, SubClosed
    <3>2. ASSUME NEW y \in Sub(t, c) \ {p}, NEW f \in Field, u[f][y] # nullptr
          PROVE  u[f][y] \in Sub(t, c) \ {p}
      <4>1. y \in H \ {p}
        BY <1>3
      <4>2. CASE t[f][y] = p
        <5>1. u[f][y] = r /\ r # nullptr
          BY <3>2, <4>1, <4>2
        <5>2. p \in Sub(t, c)
          BY <1>1, <1>2, <4>2, SubClosed
        <5>3. r \in Sub(t, c)
          BY <1>1, <5>1, <5>2, SubClosed
        <5> QED
          BY <1>2, <5>1, <5>3
      <4>3. CASE t[f][y] # p
        <5>1. u[f][y] = t[f][y]
          BY <4>1, <4>3
        <5> QED
          BY <1>1, <3>2, <4>3, <5>1, SubClosed
      <4> QED
        BY <4>2, <4>3
    <3> QED
      BY <3>1, <3>2, SubLeast
  <2>2. Sub(t, c) \subseteq Sub(u, c) \cup {p}
    <3> DEFINE S == {y \in Sub(t, c) : /\ y # p => y \in Sub(u, c)
                                       /\ y = p => (r # nullptr => r \in Sub(u, c))}
    <3>1. S \in SUBSET PageInfo /\ (c # nullptr => c \in S)
      BY <1>1, <1>3, SubClosed
    <3>2. ASSUME NEW y \in S, NEW f \in Field, t[f][y] # nullptr PROVE t[f][y] \in S
      <4>1. t[f][y] \in Sub(t, c) /\ y \in H
        BY <1>1, <1>3, <3>2, SubClosed
      <4>2. CASE y = p
        BY <1>2, <3>2, <4>1, <4>2
      <4>3. CASE y # p
        <5>1. u[f][y] # nullptr => u[f][y] \in Sub(u, c)
          BY <4>3, SubClosed
        <5> QED
          BY <1>2, <3>2, <4>1, <4>3, <5>1
      <4> QED
        BY <4>2, <4>3
    <3>3. Sub(t, c) \subseteq S
      <4> HIDE DEF S
      <4> QED
        BY <1>1, <3>1, <3>2, SubLeast
    <3> QED
      BY <3>3
  <2> QED
    BY <2>1, <2>2
<1>4. Sub(u, r) = Sub(t, r) /\ Sub(t, r) = Sub(t, p) \ {p} /\ Sub(t, r) \subseteq H
  <2>1. Sub(t, p) = {p} \cup Sub(t, r)
    <3>1. Sub(t, nullptr) = {}
      BY <1>1, SubNull
    <3>2. \A f \in Field : Sub(t, t[f][p]) \subseteq Sub(t, r)
      BY <3>1
    <3>3. Sub(t, r) \subseteq Sub(t, p)
      BY <1>1, <3>1, ForestClosed
    <3> QED
      BY <1>1, <1>2, <3>2, <3>3, SubUnfold DEF Field
  <2>2. p \notin Sub(t, r)
    <3>1. Sub(t, nullptr) = {}
      BY <1>1, SubNull
    <3> QED
      BY <1>1, <3>1, ForestAcyclic
  <2>3. Sub(t, r) \subseteq H
    BY <1>1, <2>1, ForestClosed
  <2>4. Sub(u, r) = Sub(t, r) \ {p}
    BY <1>2, <1>3, <2>3
  <2> QED
    BY <2>1, <2>2, <2>3, <2>4
<1>5. ASSUME NEW b \in Bucket PROVE Sub(u, u.bucket[b]) = Sub(t, t.bucket[b]) \ {p}
  <2>1. t.bucket[b] \in Pointer /\ Sub(t, t.bucket[b]) \subseteq H
    BY <1>1, ForestClosed
  <2> QED
    BY <1>3, <1>4, <2>1
<1>6. ASSUME NEW x \in H \ {p}, NEW f \in Field
      PROVE  Sub(u, u[f][x]) = Sub(t, t[f][x]) \ {p}
  <2>1. t[f][x] \in Pointer /\ Sub(t, t[f][x]) \subseteq H
    BY <1>1, ForestClosed
  <2> QED
    BY <1>3, <1>4, <2>1
<1>7. Forest(u, H \ {p})
  <2>1. H \ {p} \in SUBSET PageInfo /\ IsFiniteSet(H \ {p})
    BY <1>1, FS_RemoveElement DEF Forest
  <2>2. H \ {p} = {y \in PageInfo : \E b \in Bucket : y \in Sub(u, u.bucket[b])}
    BY <1>1, <1>5 DEF Forest
  <2>3. ASSUME NEW x \in H \ {p}, NEW f \in Field, r # nullptr PROVE t[f][x] # r
    BY <1>1, <2>3 DEF Forest
  <2>4. ASSUME NEW b \in Bucket, r # nullptr PROVE t.bucket[b] # r
    BY <1>1, <2>4 DEF Forest
  <2>5. ASSUME NEW x \in H \ {p}, NEW y \in H \ {p}, NEW f \in Field, NEW h \in Field,
               u[f][x] = u[h][y], u[f][x] # nullptr
        PROVE  x = y /\ f = h
    <3>1. t[f][x] = t[h][y] /\ t[f][x] # nullptr
      BY <1>2, <2>3, <2>5
    <3> QED
      BY <1>1, <3>1 DEF Forest
  <2>6. ASSUME NEW x \in H \ {p}, NEW f \in Field, NEW b \in Bucket, u[f][x] = u.bucket[b],
               u[f][x] # nullptr
        PROVE  FALSE
    <3>1. t[f][x] = t.bucket[b] /\ t[f][x] # nullptr
      BY <1>2, <2>3, <2>4, <2>6
    <3> QED
      BY <1>1, <3>1 DEF Forest
  <2>7. ASSUME NEW b \in Bucket, NEW c \in Bucket, u.bucket[b] = u.bucket[c], u.bucket[b] # nullptr
        PROVE  b = c
    <3>1. t.bucket[b] = t.bucket[c] /\ t.bucket[b] # nullptr
      BY <1>2, <2>4, <2>7
    <3> QED
      BY <1>1, <3>1 DEF Forest
  <2> QED
    BY <2>1, <2>2, <2>5, <2>6, <2>7 DEF Forest
<1>8. Ordered(u, H \ {p})
  <2>1. ASSUME NEW b \in Bucket, NEW y \in Sub(u, u.bucket[b])
        PROVE  BucketOf[u.util[y]] = b
    <3>1. y \in Sub(t, t.bucket[b]) /\ y \in H
      BY <1>1, <1>5, ForestClosed
    <3> QED
      BY <1>1, <3>1 DEF Ordered
  <2>2. ASSUME NEW x \in H \ {p}, NEW f \in Field, NEW y \in Sub(u, u[f][x])
        PROVE  y \in H /\ y \in Sub(t, t[f][x])
    BY <1>1, <1>6, ForestClosed
  <2> QED
    BY <1>1, <2>1, <2>2 DEF Ordered, Field
<1>9. ListsOfRoots(u, H \ {p})
  <2>1. ASSUME NEW x \in H \ {p}, NEW f \in Field, NEW y \in Sub(u, u[f][x])
        PROVE  /\ f = "next" => u.left[y] = nullptr /\ u.right[y] = nullptr
               /\ f # "next" => u.next[y] = nullptr
    <3>1. y \in H \ {p} /\ y \in Sub(t, t[f][x])
      BY <1>1, <1>6, ForestClosed
    <3>2. /\ f = "next" => t.left[y] = nullptr /\ t.right[y] = nullptr
          /\ f # "next" => t.next[y] = nullptr
      BY <1>1, <3>1 DEF ListsOfRoots, Field
    <3> QED
      BY <1>2, <3>1, <3>2 DEF Field
  <2> QED
    BY <2>1 DEF ListsOfRoots, Field
<1> QED
  BY <1>7, <1>8, <1>9 DEF Sound

(* In u, page n has what p had in t. *)
Promoted(t, u, b, p, n) ==
  /\ u \in Tree /\ u.util = t.util
  /\ \A c \in Bucket : u.bucket[c] = IF c = b THEN n ELSE t.bucket[c]
  /\ \A x \in PageInfo : /\ u.left[x]  = IF x = n THEN t.left[p] ELSE t.left[x]
                         /\ u.right[x] = IF x = n THEN t.right[p] ELSE t.right[x]
                         /\ u.next[x]  = t.next[x]

(* The page behind the first of a bucket takes its place in the tree. *)
LEMMA PromoteNext ==
  ASSUME NEW t, NEW H, Sound(t, H), NEW b \in Bucket, NEW p, p = t.bucket[b], p # nullptr,
         NEW n, n = t.next[p], n # nullptr,
         NEW u, Promoted(t, u, b, p, n)
  PROVE  Sound(u, H \ {p})
<1> /\ u \in Tree
    /\ \A x \in H : u.util[x] = t.util[x]
    /\ \A c \in Bucket : u.bucket[c] = IF c = b THEN n ELSE t.bucket[c]
    /\ \A x \in H \ {p} : /\ u.left[x]  = IF x = n THEN t.left[p] ELSE t.left[x]
                          /\ u.right[x] = IF x = n THEN t.right[p] ELSE t.right[x]
                          /\ u.next[x]  = t.next[x]
  BY DEF Promoted, Sound, Forest
<1>1. t \in Tree /\ Forest(t, H) /\ Ordered(t, H) /\ ListsOfRoots(t, H) /\ H \subseteq PageInfo
  BY DEF Sound, Forest
<1>2. p \in H /\ n \in H /\ p \in PageInfo /\ n \in PageInfo /\ n \in Sub(t, t.next[p])
  <2>1. p \in H
    BY <1>1, ForestClosed
  <2>2. n \in H
    BY <1>1, <2>1, ForestClosed DEF Field
  <2> QED
    BY <1>1, <2>1, <2>2, ForestClosed
<1>3. n # p /\ t.left[n] = nullptr /\ t.right[n] = nullptr
  BY <1>1, <1>2, ForestAcyclic DEF ListsOfRoots, Field
<1>4. ASSUME NEW c \in Pointer, Sub(t, c) \subseteq H, p \notin Sub(t, c), n \notin Sub(t, c)
      PROVE  Sub(u, c) = Sub(t, c)
  <2>1. \A x \in Sub(t, c), f \in Field : u[f][x] = t[f][x]
    BY <1>4 DEF Field
  <2> QED
    BY <1>1, <2>1, SubAgree
<1>5. ASSUME NEW x \in H, NEW f \in Field, ~(x = p /\ f = "next")
      PROVE  Sub(u, t[f][x]) = Sub(t, t[f][x])
  <2>1. p \notin Sub(t, t[f][x])
    BY <1>1, ForestAcyclic
  <2>2. n \notin Sub(t, t[f][x])
    <3>1. t["next"][p] = n
      OBVIOUS
    <3> QED
      BY <1>1, <1>2, <1>5, <2>1, <3>1, ParentBelow DEF Field
  <2> QED
    BY <1>1, <1>4, <2>1, <2>2, ForestClosed
<1> DEFINE Was(x, f) == IF x = n /\ f # "next" THEN p ELSE x
<1>6. ASSUME NEW x \in H \ {p}, NEW f \in Field
      PROVE  /\ Was(x, f) \in H /\ ~(Was(x, f) = p /\ f = "next")
             /\ u[f][x] = t[f][Was(x, f)]
             /\ Sub(u, u[f][x]) = Sub(t, t[f][Was(x, f)])
  <2>1. Was(x, f) \in H /\ ~(Was(x, f) = p /\ f = "next")
    BY <1>2
  <2>2. u[f][x] = t[f][Was(x, f)]
    BY DEF Field
  <2> QED
    BY <1>5, <2>1, <2>2
<1>7. ASSUME NEW c \in Bucket, c # b
      PROVE  u.bucket[c] = t.bucket[c] /\ Sub(u, u.bucket[c]) = Sub(t, t.bucket[c])
             /\ p \notin Sub(t, t.bucket[c])
  <2>1. p \in Sub(t, t.bucket[b]) /\ n \in Sub(t, t.bucket[b])
    BY <1>1, <1>2, ForestClosed DEF Field
  <2>2. p \notin Sub(t, t.bucket[c]) /\ n \notin Sub(t, t.bucket[c])
    BY <1>1, <1>7, <2>1 DEF Ordered
  <2> QED
    BY <1>1, <1>4, <1>7, <2>2, ForestClosed
<1>8. u.bucket[b] = n /\ Sub(u, n) = Sub(t, p) \ {p}
  <2>1. Sub(u, n) = {n} \cup Sub(u, u.left[n]) \cup Sub(u, u.right[n]) \cup Sub(u, u.next[n])
    BY <1>2, SubUnfold
  <2>2. /\ Sub(u, u.left[n]) = Sub(t, t.left[p])
        /\ Sub(u, u.right[n]) = Sub(t, t.right[p])
        /\ Sub(u, u.next[n]) = Sub(t, t.next[n])
    BY <1>2, <1>3, <1>6 DEF Field
  <2>3. Sub(t, n) = {n} \cup Sub(t, t.next[n])
    BY <1>1, <1>2, <1>3, SubUnfold, SubNull
  <2>4. Sub(t, p) = {p} \cup Sub(t, t.left[p]) \cup Sub(t, t.right[p]) \cup Sub(t, n)
    BY <1>1, <1>2, SubUnfold
  <2>5. p \notin Sub(t, t.left[p]) /\ p \notin Sub(t, t.right[p]) /\ p \notin Sub(t, t.next[p])
    BY <1>1, <1>2, ForestAcyclic DEF Field
  <2>6. Sub(u, n) = Sub(t, n) \cup Sub(t, t.left[p]) \cup Sub(t, t.right[p])
    BY <2>1, <2>2, <2>3
  <2>7. u.bucket[b] = n /\ p \notin Sub(t, n)
    BY <2>5
  <2> QED
    BY <2>4, <2>5, <2>6, <2>7
<1>9. ASSUME NEW c \in Bucket PROVE Sub(u, u.bucket[c]) = Sub(t, t.bucket[c]) \ {p}
  BY <1>7, <1>8
<1>10. ASSUME NEW x \in H \ {p}, NEW f \in Field, NEW y \in Sub(u, u[f][x])
       PROVE  y \in Sub(t, t[f][Was(x, f)]) /\ y \in H \ {p} /\ y # n
  <2>1. y \in Sub(t, t[f][Was(x, f)]) /\ y \in H
    BY <1>1, <1>6, ForestClosed
  <2>2. y # p
    BY <1>1, <1>6, <2>1, ForestAcyclic
  <2>3. y # n
    <3>1. t["next"][p] = n
      OBVIOUS
    <3>2. p \notin Sub(t, t[f][Was(x, f)])
      BY <1>1, <1>6, ForestAcyclic
    <3> QED
      BY <1>1, <1>2, <1>6, <2>1, <3>1, <3>2, ParentBelow DEF Field
  <2> QED
    BY <2>1, <2>2, <2>3
<1>11. Forest(u, H \ {p})
  <2>1. H \ {p} \in SUBSET PageInfo /\ IsFiniteSet(H \ {p})
    BY <1>1, FS_RemoveElement DEF Forest
  <2>2. H \ {p} = {y \in PageInfo : \E c \in Bucket : y \in Sub(u, u.bucket[c])}
    BY <1>1, <1>9 DEF Forest
  <2>3. ASSUME NEW x \in H \ {p}, NEW f \in Field PROVE u[f][x] # n
    <3>1. Was(x, f) \in H /\ ~(Was(x, f) = p /\ f = "next") /\ u[f][x] = t[f][Was(x, f)]
      BY <1>6
    <3>2. t["next"][p] = n /\ "next" \in Field
      BY DEF Field
    <3> HIDE DEF Was
    <3> QED
      BY <1>1, <1>2, <3>1, <3>2 DEF Forest
  <2>4. ASSUME NEW c \in Bucket PROVE t.bucket[c] # n
    <3>1. t["next"][p] = n /\ "next" \in Field
      BY DEF Field
    <3> QED
      BY <1>1, <1>2, <3>1 DEF Forest
  <2>5. ASSUME NEW x \in H \ {p}, NEW y \in H \ {p}, NEW f \in Field, NEW h \in Field,
               u[f][x] = u[h][y], u[f][x] # nullptr
        PROVE  x = y /\ f = h
    <3>1. Was(x, f) = Was(y, h) /\ f = h
      BY <1>1, <1>6, <2>5 DEF Forest
    <3> QED
      BY <3>1
  <2>6. ASSUME NEW x \in H \ {p}, NEW f \in Field, NEW c \in Bucket, u[f][x] = u.bucket[c],
               u[f][x] # nullptr
        PROVE  FALSE
    <3>1. c # b /\ u.bucket[c] = t.bucket[c]
      BY <1>7, <1>8, <2>3, <2>6
    <3> QED
      BY <1>1, <1>6, <2>6, <3>1 DEF Forest
  <2>7. ASSUME NEW c \in Bucket, NEW d \in Bucket, u.bucket[c] = u.bucket[d], u.bucket[c] # nullptr
        PROVE  c = d
    BY <1>1, <1>7, <1>8, <2>4, <2>7 DEF Forest
  <2> QED
    BY <2>1, <2>2, <2>5, <2>6, <2>7 DEF Forest
<1>12. t.util[n] = t.util[p]
  BY <1>1, <1>2 DEF Ordered
<1>13. Ordered(u, H \ {p})
  <2>1. ASSUME NEW c \in Bucket, NEW y \in Sub(u, u.bucket[c])
        PROVE  BucketOf[u.util[y]] = c
    <3>1. y \in Sub(t, t.bucket[c]) /\ y \in H
      BY <1>1, <1>9, ForestClosed
    <3> QED
      BY <1>1, <3>1 DEF Ordered
  <2>2. ASSUME NEW x \in H \ {p}, NEW f \in Field, NEW y \in Sub(u, u[f][x])
        PROVE  /\ f = "left"  => u.util[y] < u.util[x]
               /\ f = "right" => u.util[y] >= u.util[x]
               /\ f = "next"  => u.util[y] = u.util[x]
    <3>1. y \in Sub(t, t[f][Was(x, f)]) /\ y \in H
      BY <1>10
    <3>2. Was(x, f) \in H /\ t.util[Was(x, f)] = u.util[x] /\ t.util[y] = u.util[y]
      BY <1>2, <1>12, <3>1
    <3> HIDE DEF Was
    <3> QED
      BY <1>1, <3>1, <3>2 DEF Ordered
  <2> QED
    BY <2>1, <2>2 DEF Ordered, Field
<1>14. ListsOfRoots(u, H \ {p})
  <2>1. ASSUME NEW x \in H \ {p}, NEW f \in Field, NEW y \in Sub(u, u[f][x])
        PROVE  /\ f = "next" => u.left[y] = nullptr /\ u.right[y] = nullptr
               /\ f # "next" => u.next[y] = nullptr
    <3>1. y \in Sub(t, t[f][Was(x, f)]) /\ y \in H \ {p} /\ y # n
      BY <1>10
    <3>2. Was(x, f) \in H
      BY <1>2
    <3> HIDE DEF Was
    <3>3. /\ f = "next" => t.left[y] = nullptr /\ t.right[y] = nullptr
          /\ f # "next" => t.next[y] = nullptr
      BY <1>1, <3>1, <3>2 DEF ListsOfRoots, Field
    <3> QED
      BY <3>1, <3>3
  <2> QED
    BY <2>1 DEF ListsOfRoots, Field
<1> QED
  BY <1>11, <1>13, <1>14 DEF Sound

-----------------------------------------------------------------------------
(***************************************************************************)
(* What the walks along the pointers come to.  A walk is a recursive       *)
(* function on all pages, those outside of the buckets included, whose     *)
(* pointers may lead anywhere; that there is such a function is one lemma, *)
(* and what it is in the buckets follows as a walk there goes down.        *)
(***************************************************************************)

(* Some function goes on along nx until it comes to Stop. *)
HasWalk(D, Stop, nx) ==
  \E V : \E f \in [D -> V] : \A c \in D : f[c] = IF c \in Stop THEN c ELSE f[nx[c]]

(* There is one for any nx. *)
LEMMA WalkExists ==
  ASSUME NEW D, NEW Stop \in SUBSET D, NEW nx \in [D -> D]
  PROVE  HasWalk(D, Stop, nx)
<1> DEFINE Orbit(c) == {d \in D : \A S \in SUBSET D :
                          c \in S /\ (\A e \in S \ Stop : nx[e] \in S) => d \in S}
           One(S) == CHOOSE d : d \in S
           f == [c \in D |-> IF c \in Stop THEN c ELSE One(Orbit(c) \cap Stop)]
<1>1. ASSUME NEW c \in D \ Stop PROVE Orbit(c) \cap Stop = Orbit(nx[c]) \cap Stop
  <2>1. ASSUME NEW d \in Orbit(c) \cap Stop PROVE d \in Orbit(nx[c])
    <3>1. SUFFICES ASSUME NEW S \in SUBSET D, nx[c] \in S, \A e \in S \ Stop : nx[e] \in S
                   PROVE  d \in S
      OBVIOUS
    <3>2. d \in S \cup {c}
      <4>1. S \cup {c} \in SUBSET D /\ c \in S \cup {c}
            /\ \A e \in (S \cup {c}) \ Stop : nx[e] \in S \cup {c}
        BY <3>1
      <4> QED
        BY <2>1, <4>1
    <3> QED
      BY <2>1, <1>1, <3>2
  <2>2. ASSUME NEW d \in Orbit(nx[c]) PROVE d \in Orbit(c)
    BY <1>1, <2>2
  <2> QED
    BY <2>1, <2>2
<1>2. ASSUME NEW c \in Stop PROVE Orbit(c) \cap Stop = {c}
  <2>1. \A d \in Orbit(c) : d \in {c}
    BY <1>2
  <2>2. c \in Orbit(c)
    BY <1>2
  <2> QED
    BY <2>1, <2>2
<1>3. ASSUME NEW c \in D PROVE f[c] = IF c \in Stop THEN c ELSE f[nx[c]]
  <2>1. CASE c \in Stop
    BY <2>1
  <2>2. CASE c \notin Stop
    <3>1. f[c] = One(Orbit(nx[c]) \cap Stop)
      <4>1. f[c] = One(Orbit(c) \cap Stop)
        BY <2>2
      <4> HIDE DEF One, Orbit, f
      <4> QED
        BY <1>1, <1>3, <2>2, <4>1
    <3>2. nx[c] \in D
      BY <2>2
    <3>3. CASE nx[c] \in Stop
      <4>1. f[nx[c]] = nx[c]
        BY <3>3
      <4>2. One({nx[c]}) = nx[c]
        OBVIOUS
      <4> HIDE DEF One, Orbit, f
      <4> QED
        BY <1>2, <2>2, <3>1, <3>3, <4>1, <4>2
    <3>4. CASE nx[c] \notin Stop
      <4>1. f[nx[c]] = One(Orbit(nx[c]) \cap Stop)
        BY <3>2, <3>4
      <4> HIDE DEF One, Orbit, f
      <4> QED
        BY <2>2, <3>1, <4>1
    <3> QED
      BY <3>3, <3>4
  <2> QED
    BY <2>1, <2>2
<1>4. f \in [D -> {f[c] : c \in D}]
  OBVIOUS
<1> HIDE DEF f
<1> QED
  BY <1>3, <1>4 DEF HasWalk

(* A set of pages in the buckets has one that does not lead to another.    *)
LEMMA LowestOf ==
  ASSUME NEW t, NEW H, Forest(t, H), NEW S \in SUBSET H, S # {}
  PROVE  \E c \in S : \A f \in Field : t[f][c] \notin S
<1> DEFINE Size(c) == Cardinality(Sub(t, c))
           N == {Size(c) : c \in S}
<1>1. IsFiniteSet(H) /\ \A c \in H : Sub(t, c) \subseteq H
  BY ForestClosed DEF Forest
<1>2. \A c \in H : IsFiniteSet(Sub(t, c)) /\ Size(c) \in Nat
  BY <1>1, FS_Subset, FS_CardinalityType
<1>3. PICK c \in S : \A d \in S : Size(c) <= Size(d)
  <2>1. N \in SUBSET Nat /\ N # {}
    BY <1>2
  <2>2. \E k \in N : \A m \in N : k <= m
    <3> HIDE DEF N
    <3> QED
      BY <2>1, LeastNatural
  <2> QED
    BY <2>2
<1>4. ASSUME NEW f \in Field, t[f][c] \in S PROVE FALSE
  <2>1. c \in H /\ t[f][c] \in H
    BY <1>4
  <2>2. Sub(t, t[f][c]) \subseteq Sub(t, c)
    BY <2>1, ForestClosed
  <2>3. c \in Sub(t, c) /\ c \notin Sub(t, t[f][c])
    BY <2>1, ForestClosed, ForestAcyclic
  <2>4. Size(t[f][c]) < Size(c)
    BY <1>2, <2>1, <2>2, <2>3, FS_Subset
  <2> QED
    BY <1>2, <1>3, <1>4, <2>1, <2>4
<1> QED
  BY <1>4

(* One step of a walk. *)
LEMMA WalkStep ==
  ASSUME NEW ptr \in [PageInfo -> Pointer], NEW c \in PageInfo
  PROVE  WalkEnd(ptr, c) = IF ptr[c] = nullptr THEN c ELSE WalkEnd(ptr, ptr[c])
<1> DEFINE end == CHOOSE f : f = [d \in PageInfo |->
                    IF ptr[d] = nullptr THEN d ELSE f[ptr[d]]]
           Stop == {d \in PageInfo : ptr[d] = nullptr}
           nx == [d \in PageInfo |-> IF ptr[d] = nullptr THEN d ELSE ptr[d]]
<1>1. \A d \in PageInfo : WalkEnd(ptr, d) = end[d]
  BY Zenon DEF WalkEnd
<1>2. HasWalk(PageInfo, Stop, nx)
  <2>1. nx \in [PageInfo -> PageInfo]
    BY DEF Pointer
  <2>2. Stop \in SUBSET PageInfo
    OBVIOUS
  <2> HIDE DEF nx, Stop
  <2> QED
    BY <2>1, <2>2, WalkExists
<1>3. \E f : f = [d \in PageInfo |-> IF ptr[d] = nullptr THEN d ELSE f[ptr[d]]]
  <2>1. PICK V : \E f \in [PageInfo -> V] :
                   \A d \in PageInfo : f[d] = IF d \in Stop THEN d ELSE f[nx[d]]
    BY <1>2, Zenon DEF HasWalk
  <2>2. PICK f \in [PageInfo -> V] :
               \A d \in PageInfo : f[d] = IF d \in Stop THEN d ELSE f[nx[d]]
    BY <2>1, Zenon
  <2>3. \A d \in PageInfo : f[d] = IF ptr[d] = nullptr THEN d ELSE f[ptr[d]]
    BY <2>2
  <2>4. [d \in PageInfo |-> f[d]] = [d \in PageInfo |-> IF ptr[d] = nullptr THEN d ELSE f[ptr[d]]]
    BY <2>3
  <2>5. f = [d \in PageInfo |-> f[d]]
    OBVIOUS
  <2> QED
    BY <2>4, <2>5
<1>4. end = [d \in PageInfo |-> IF ptr[d] = nullptr THEN d ELSE end[ptr[d]]]
  BY <1>3, Zenon
<1>5. ptr[c] # nullptr => ptr[c] \in PageInfo
  BY DEF Pointer
<1> HIDE DEF end
<1>6. end[c] = IF ptr[c] = nullptr THEN c ELSE end[ptr[c]]
  BY <1>4
<1> QED
  BY <1>1, <1>5, <1>6

(* A walk that goes down from a set of pages to pages of that set ends in  *)
(* the set, where there is no way on.                                      *)
LEMMA WalkStays ==
  ASSUME NEW t, NEW H, Forest(t, H), NEW ptr \in [PageInfo -> Pointer],
         NEW P \in SUBSET H, NEW c \in P,
         \A d \in P : ptr[d] # nullptr => ptr[d] \in P /\ \E f \in Field : ptr[d] = t[f][d]
  PROVE  /\ WalkEnd(ptr, c) \in P
         /\ ptr[WalkEnd(ptr, c)] = nullptr
<1> DEFINE Bad == {d \in P : ~(WalkEnd(ptr, d) \in P /\ ptr[WalkEnd(ptr, d)] = nullptr)}
<1>1. P \subseteq PageInfo
  BY DEF Forest
<1>2. ASSUME Bad # {} PROVE FALSE
  <2>1. PICK d \in Bad : \A f \in Field : t[f][d] \notin Bad
    BY <1>2, LowestOf
  <2>2. WalkEnd(ptr, d) = IF ptr[d] = nullptr THEN d ELSE WalkEnd(ptr, ptr[d])
    BY <1>1, WalkStep
  <2>3. ptr[d] # nullptr
    BY <2>2
  <2>4. ptr[d] \in P /\ ptr[d] \notin Bad
    BY <2>1, <2>3
  <2> QED
    BY <2>2, <2>3, <2>4
<1> QED
  BY <1>2

(* One step of the search for a page.                                      *)
LEMMA SearchStep ==
  ASSUME NEW t \in Tree, NEW at \in Place, NEW p
  PROVE  SearchEnd(t, at, p) =
           IF Deref(t, at) = nullptr \/ t.util[Deref(t, at)] = t.util[p] THEN at
           ELSE SearchEnd(t, <<IF t.util[Deref(t, at)] > t.util[p] THEN "left" ELSE "right",
                               Deref(t, at)>>, p)
<1> DEFINE end == CHOOSE f : f = [a \in Place |->
                    LET root == Deref(t, a)
                    IN IF root = nullptr \/ t.util[root] = t.util[p] THEN a
                       ELSE f[<<IF t.util[root] > t.util[p] THEN "left" ELSE "right", root>>]]
           Side(a) == <<IF t.util[Deref(t, a)] > t.util[p] THEN "left" ELSE "right",
                        Deref(t, a)>>
           Done(a) == Deref(t, a) = nullptr \/ t.util[Deref(t, a)] = t.util[p]
           Stop == {a \in Place : Done(a)}
           nx == [a \in Place |-> IF Done(a) THEN a ELSE Side(a)]
<1>1. ASSUME NEW a \in Place, ~Done(a) PROVE Side(a) \in Place
  <2>1. Deref(t, a) \in Pointer
    BY TreeType DEF Place, Deref
  <2>2. Deref(t, a) \in PageInfo
    BY <1>1, <2>1 DEF Pointer
  <2> QED
    BY <2>2 DEF Place
<1>2. \A a : SearchEnd(t, a, p) = end[a]
  BY Zenon DEF SearchEnd
<1>3. HasWalk(Place, Stop, nx)
  <2>1. nx \in [Place -> Place]
    BY <1>1
  <2>2. Stop \in SUBSET Place
    OBVIOUS
  <2> HIDE DEF nx, Stop
  <2> QED
    BY <2>1, <2>2, WalkExists
<1>4. \E f : f = [a \in Place |->
             LET root == Deref(t, a)
             IN IF root = nullptr \/ t.util[root] = t.util[p] THEN a
                ELSE f[<<IF t.util[root] > t.util[p] THEN "left" ELSE "right", root>>]]
  <2>1. PICK V : \E f \in [Place -> V] :
                   \A a \in Place : f[a] = IF a \in Stop THEN a ELSE f[nx[a]]
    BY <1>3, Zenon DEF HasWalk
  <2>2. PICK f \in [Place -> V] :
               \A a \in Place : f[a] = IF a \in Stop THEN a ELSE f[nx[a]]
    BY <2>1, Zenon
  <2>3. \A a \in Place : f[a] = IF Done(a) THEN a ELSE f[Side(a)]
    <3> HIDE DEF Done, Side
    <3> QED
      BY <2>2
  <2>4. [a \in Place |-> f[a]] = [a \in Place |-> IF Done(a) THEN a ELSE f[Side(a)]]
    <3> HIDE DEF Done, Side
    <3> QED
      BY <2>3
  <2>5. f = [a \in Place |-> IF Done(a) THEN a ELSE f[Side(a)]]
    <3> HIDE DEF Done, Side
    <3>1. f = [a \in Place |-> f[a]]
      OBVIOUS
    <3> QED
      BY <2>4, <3>1
  <2> QED
    BY <2>5
<1>5. end = [a \in Place |->
             LET root == Deref(t, a)
             IN IF root = nullptr \/ t.util[root] = t.util[p] THEN a
                ELSE end[<<IF t.util[root] > t.util[p] THEN "left" ELSE "right", root>>]]
  BY <1>4, Zenon
<1> HIDE DEF end
<1>6. end[at] = IF Done(at) THEN at ELSE end[Side(at)]
  BY <1>5
<1> QED
  BY <1>2, <1>6

(* The places in the buckets. *)
TreePlace(H) == ({"bucket"} \X Bucket) \cup ({"left", "right"} \X H)

(* The search from a bucket ends at a place that leads nowhere or to a page *)
(* as full as the one searched for.                                         *)
LEMMA SearchStays ==
  ASSUME NEW t, NEW H, Forest(t, H), NEW b \in Bucket, NEW p
  PROVE  LET at == SearchEnd(t, <<"bucket", b>>, p)
         IN /\ at \in TreePlace(H)
            /\ Deref(t, at) # nullptr => Deref(t, at) \in H /\ t.util[Deref(t, at)] = t.util[p]
<1> DEFINE Good(at) == /\ SearchEnd(t, at, p) \in TreePlace(H)
                       /\ LET root == Deref(t, SearchEnd(t, at, p))
                          IN root # nullptr => root \in H /\ t.util[root] = t.util[p]
           Bad == {c \in H : \E at \in TreePlace(H) : Deref(t, at) = c /\ ~Good(at)}
<1>1. t \in Tree /\ TreePlace(H) \subseteq Place
  BY DEF Forest, TreePlace, Place
<1>2. ASSUME NEW at \in TreePlace(H), Deref(t, at) # nullptr PROVE Deref(t, at) \in H
  BY <1>2, ForestClosed DEF TreePlace, Deref, Field
<1>3. ASSUME NEW at \in TreePlace(H), ~Good(at)
      PROVE  /\ Deref(t, at) \in H
             /\ \E f \in Field : t[f][Deref(t, at)] \in Bad
  <2> DEFINE root == Deref(t, at)
             side == IF t.util[root] > t.util[p] THEN "left" ELSE "right"
  <2>1. SearchEnd(t, at, p) = IF root = nullptr \/ t.util[root] = t.util[p] THEN at
                              ELSE SearchEnd(t, <<side, root>>, p)
    BY <1>1, SearchStep
  <2>2. root # nullptr /\ t.util[root] # t.util[p]
    BY <1>2, <1>3, <2>1
  <2>3. root \in H
    BY <1>2, <2>2
  <2>4. <<side, root>> \in TreePlace(H) /\ ~Good(<<side, root>>)
    BY <1>3, <2>1, <2>2, <2>3 DEF TreePlace
  <2>5. Deref(t, <<side, root>>) = t[side][root] /\ side \in Field
    BY DEF Deref, Field
  <2>6. Deref(t, <<side, root>>) # nullptr
    <3>1. SearchEnd(t, <<side, root>>, p) =
            IF Deref(t, <<side, root>>) = nullptr \/ t.util[Deref(t, <<side, root>>)] = t.util[p]
            THEN <<side, root>>
            ELSE SearchEnd(t, <<IF t.util[Deref(t, <<side, root>>)] > t.util[p] THEN "left" ELSE "right",
                                Deref(t, <<side, root>>)>>, p)
      <4>1. <<side, root>> \in Place
        BY <1>1, <2>4
      <4> HIDE DEF side, root
      <4> QED
        BY <1>1, <4>1, SearchStep
    <3> HIDE DEF side, root
    <3> QED
      BY <2>4, <3>1
  <2>7. t[side][root] \in Bad
    <3> HIDE DEF side, root, Good
    <3> QED
      BY <1>2, <2>4, <2>5, <2>6
  <2> QED
    BY <2>3, <2>5, <2>7
<1>4. ASSUME Bad # {} PROVE FALSE
  <2>1. PICK c \in Bad : \A f \in Field : t[f][c] \notin Bad
    <3> HIDE DEF Good
    <3> QED
      BY <1>4, LowestOf
  <2> HIDE DEF Good
  <2> QED
    BY <1>3, <2>1
<1>5. <<"bucket", b>> \in TreePlace(H)
  BY DEF TreePlace
<1>6. Good(<<"bucket", b>>)
  <2> HIDE DEF Good
  <2> QED
    BY <1>3, <1>4, <1>5
<1> QED
  BY <1>6

-----------------------------------------------------------------------------
(***************************************************************************)
(* insertPageInBucket.                                                     *)
(***************************************************************************)

(* Of two pointers that lead to one page, one leads to the other.          *)
LEMMA Nested ==
  ASSUME NEW t, NEW H, Forest(t, H), NEW x \in H, NEW f \in Field, NEW w \in H, NEW g \in Field,
         NEW z \in Sub(t, t[f][x]) \cap Sub(t, t[g][w])
  PROVE  (x = w /\ f = g) \/ x \in Sub(t, t[g][w]) \/ w \in Sub(t, t[f][x])
<1> SUFFICES ASSUME ~(x = w /\ f = g), x \notin Sub(t, t[g][w]), w \notin Sub(t, t[f][x])
             PROVE  FALSE
  OBVIOUS
<1> DEFINE S == Sub(t, t[g][w]) \ Sub(t, t[f][x])
<1>1. /\ t \in Tree /\ t[g][w] \in Pointer /\ Sub(t, t[g][w]) \subseteq H
      /\ S \in SUBSET PageInfo
  BY ForestClosed, SubClosed DEF Forest
<1>2. t[g][w] # nullptr => t[g][w] \in S
  <2>1. t[g][w] # nullptr => t[g][w] \in Sub(t, t[g][w])
    BY <1>1, SubClosed
  <2>2. t[g][w] \notin Sub(t, t[f][x])
    BY ParentBelow
  <2> QED
    BY <2>1, <2>2
<1>3. ASSUME NEW y \in S, NEW k \in Field, t[k][y] # nullptr PROVE t[k][y] \in S
  <2>1. t[k][y] \in Sub(t, t[g][w]) /\ y \in H
    BY <1>1, <1>3, SubClosed
  <2>2. t[k][y] \notin Sub(t, t[f][x])
    BY <2>1, ParentBelow
  <2> QED
    BY <2>1, <2>2
<1>4. Sub(t, t[g][w]) \subseteq S
  <2> HIDE DEF S
  <2> QED
    BY <1>1, <1>2, <1>3, SubLeast
<1> QED
  BY <1>4

(* The end of a root's list is where a page as full as the root fits.      *)
LEMMA EndOfList ==
  ASSUME NEW t, NEW H, Sound(t, H), NEW b \in Bucket, NEW root, root = t.bucket[b],
         root # nullptr
  PROVE  MayHang(t, H, LastInList(t, root), "next", t.util[root])
<1> DEFINE P == {root} \cup Sub(t, t.next[root])
           z == LastInList(t, root)
<1>1. t \in Tree /\ Forest(t, H) /\ Ordered(t, H) /\ ListsOfRoots(t, H) /\ H \subseteq PageInfo
  BY DEF Sound, Forest
<1>2. root \in H /\ "next" \in Field /\ t["next"] = t.next
  BY <1>1, ForestClosed DEF Field
<1>3. P \subseteq H /\ root \in P
  BY <1>1, <1>2, ForestClosed
<1>4. \A d \in P : t.next[d] # nullptr => t.next[d] \in P
  <2>1. t.next[root] # nullptr => t.next[root] \in P
    BY <1>1, <1>2, SubClosed, ForestClosed
  <2>2. t.next[root] \in Pointer
    BY <1>1, <1>2, ForestClosed
  <2>3. \A d \in Sub(t, t.next[root]) : t.next[d] # nullptr => t.next[d] \in Sub(t, t.next[root])
    BY <1>1, <1>2, <2>2, SubClosed
  <2> QED
    BY <2>1, <2>3
<1>5. z \in P /\ t.next[z] = nullptr
  <2>1. t.next \in [PageInfo -> Pointer]
    BY <1>1, TreeType
  <2>2. P \in SUBSET H /\ z = WalkEnd(t.next, root)
    BY <1>3 DEF LastInList
  <2>3. \A d \in P : t.next[d] # nullptr => t.next[d] \in P /\ \E f \in Field : t.next[d] = t[f][d]
    <3> HIDE DEF P
    <3> QED
      BY <1>2, <1>4
  <2> HIDE DEF P, z
  <2> QED
    BY <1>1, <1>3, <2>1, <2>2, <2>3, WalkStays
<1> HIDE DEF z
<1>6. z \in H
  BY <1>3, <1>5
<1>7. \A x \in P : t.util[x] = t.util[root]
  BY <1>1, <1>2 DEF Ordered
<1>8. ASSUME NEW c \in Bucket, z \in Sub(t, t.bucket[c]) PROVE BucketOf[t.util[root]] = c
  BY <1>1, <1>5, <1>7, <1>8 DEF Ordered
<1>9. ASSUME NEW x \in H, NEW f \in Field, z \in Sub(t, t[f][x])
      PROVE  f = "next" /\ x \in P
  <2>1. z # root /\ root \notin Sub(t, t[f][x])
    BY <1>1, <1>9, ForestAcyclic
  <2>2. z \in Sub(t, t["next"][root])
    BY <1>2, <1>5, <2>1
  <2>3. (x = root /\ f = "next") \/ x \in Sub(t, t["next"][root])
    BY <1>1, <1>2, <1>9, <2>1, <2>2, Nested
  <2>4. CASE x \in Sub(t, t["next"][root])
    <3>1. t.left[x] = nullptr /\ t.right[x] = nullptr
      BY <1>1, <1>2, <2>4 DEF ListsOfRoots
    <3>2. f = "next"
      BY <1>1, <1>9, <3>1, SubNull DEF Field
    <3> QED
      BY <1>2, <2>4, <3>2
  <2> QED
    BY <2>3, <2>4
<1> HIDE DEF P
<1>10. MayHang(t, H, z, "next", t.util[root])
  <2>1. t.util[z] = t.util[root] /\ t["next"][z] = nullptr
    BY <1>5, <1>7
  <2>2. ASSUME NEW x \in H, NEW f \in Field, z \in Sub(t, t[f][x]) \/ (x = z /\ f = "next")
        PROVE  f = "next" /\ t.util[root] = t.util[x]
    BY <1>5, <1>7, <1>9, <2>2
  <2> QED
    BY <1>6, <1>8, <2>1, <2>2 DEF MayHang
<1> QED
  BY <1>10 DEF z

(* The node that the search for a utilisation ends at is where a page that *)
(* is used so much fits.                                                   *)
LEMMA EndOfDescent ==
  ASSUME NEW t, NEW H, Sound(t, H), NEW v \in Util, NEW root, root = t.bucket[BucketOf[v]],
         root # nullptr
  PROVE  MayHang(t, H, ParentFor(t, root, v),
              IF GoesLeft(t, ParentFor(t, root, v), v) THEN "left" ELSE "right", v)
<1> DEFINE ptr == [c \in PageInfo |-> IF GoesLeft(t, c, v) THEN t.left[c] ELSE t.right[c]]
           b == BucketOf[v]
           side(c) == IF GoesLeft(t, c, v) THEN "left" ELSE "right"
           On(c, x, f) == f # "next" /\ (f = "left" => v < t.util[x])
                                     /\ (f = "right" => v >= t.util[x])
           P == {c \in H : c \in Sub(t, t.bucket[b])
                           /\ \A x \in H, f \in Field : c \in Sub(t, t[f][x]) => On(c, x, f)}
           z == ParentFor(t, root, v)
<1>1. t \in Tree /\ Forest(t, H) /\ Ordered(t, H) /\ H \subseteq PageInfo
  BY DEF Sound, Forest
<1>2. b \in Bucket
  BY BucketAssumption
<1>3. root \in P
  BY <1>1, <1>2, ForestClosed, ForestAcyclic
<1>4. \A c \in PageInfo : t.util[c] \in Nat /\ v \in Nat
  BY <1>1, TreeType, BucketAssumption
<1>5. \A c \in H : side(c) \in Field \ {"next"} /\ ptr[c] = t[side(c)][c]
  BY <1>1 DEF Field
<1>6. \A c \in H : On(c, c, side(c))
  BY <1>1, <1>4 DEF GoesLeft
<1>7. ASSUME NEW c \in P, ptr[c] # nullptr PROVE ptr[c] \in P
  <2>1. c \in H /\ side(c) \in Field /\ ptr[c] = t[side(c)][c]
    BY <1>5
  <2> HIDE DEF ptr, side
  <2>2. ptr[c] \in H
    BY <1>1, <1>7, <2>1, ForestClosed
  <2>3. t.bucket[b] \in Pointer
    BY <1>1, <1>2, ForestClosed
  <2>4. ptr[c] \in Sub(t, t.bucket[b])
    BY <1>1, <1>7, <2>1, <2>3, SubClosed
  <2>5. ASSUME NEW x \in H, NEW f \in Field, ptr[c] \in Sub(t, t[f][x])
        PROVE  On(ptr[c], x, f)
    <3>1. (x = c /\ f = side(c)) \/ c \in Sub(t, t[f][x])
      BY <1>1, <2>1, <2>5, ParentBelow
    <3>2. On(c, x, f)
      BY <1>6, <3>1
    <3> QED
      BY <3>2
  <2> HIDE DEF On
  <2> QED
    BY <2>2, <2>4, <2>5
<1>8. z \in P /\ ptr[z] = nullptr
  <2>1. ptr \in [PageInfo -> Pointer]
    BY <1>1, TreeType
  <2>2. P \in SUBSET H /\ z = WalkEnd(ptr, root)
    BY DEF ParentFor
  <2>3. \A c \in P : ptr[c] # nullptr => ptr[c] \in P /\ \E f \in Field : ptr[c] = t[f][c]
    <3> HIDE DEF ptr, side, On
    <3> QED
      BY <1>5, <1>7
  <2> HIDE DEF P, ptr, z
  <2> QED
    BY <1>1, <1>3, <2>1, <2>2, <2>3, WalkStays
<1> HIDE DEF z
<1>9. z \in H /\ t[side(z)][z] = nullptr /\ side(z) \in Field \ {"next"}
  BY <1>5, <1>8
<1>10. ASSUME NEW c \in Bucket, z \in Sub(t, t.bucket[c]) PROVE b = c
  BY <1>1, <1>2, <1>8, <1>10 DEF Ordered
<1>11. ASSUME NEW x \in H, NEW f \in Field, z \in Sub(t, t[f][x]) \/ (x = z /\ f = side(z))
       PROVE  On(z, x, f)
  <2> HIDE DEF On, side
  <2> QED
    BY <1>6, <1>8, <1>11
<1>12. MayHang(t, H, z, side(z), v)
  <2> HIDE DEF side
  <2> QED
    BY <1>9, <1>10, <1>11 DEF MayHang
<1> QED
  BY <1>12 DEF z

(* One pointer of a page is changed.                                       *)
LEMMA SetPointer ==
  ASSUME NEW t \in Tree, NEW q \in PageInfo, NEW p \in Pointer, NEW g \in Field, NEW u,
         \/ g = "left"  /\ u = [t EXCEPT !.left[q] = p]
         \/ g = "right" /\ u = [t EXCEPT !.right[q] = p]
         \/ g = "next"  /\ u = [t EXCEPT !.next[q] = p]
  PROVE  Redirected(t, u, q, g, p)
<1>1. CASE g = "left" /\ u = [t EXCEPT !.left[q] = p]
  <2>1. /\ u.bucket = t.bucket /\ u.util = t.util /\ u.right = t.right /\ u.next = t.next
        /\ u.left = [t.left EXCEPT ![q] = p] /\ u.left \in [PageInfo -> Pointer]
    BY <1>1, TreeType DEF Tree
  <2>2. u \in Tree
    BY <1>1, <2>1, TreeType DEF Tree
  <2> QED
    BY <1>1, <2>1, <2>2, TreeType DEF Field, Redirected
<1>2. CASE g = "right" /\ u = [t EXCEPT !.right[q] = p]
  <2>1. /\ u.bucket = t.bucket /\ u.util = t.util /\ u.left = t.left /\ u.next = t.next
        /\ u.right = [t.right EXCEPT ![q] = p] /\ u.right \in [PageInfo -> Pointer]
    BY <1>2, TreeType DEF Tree
  <2>2. u \in Tree
    BY <1>2, <2>1, TreeType DEF Tree
  <2> QED
    BY <1>2, <2>1, <2>2, TreeType DEF Field, Redirected
<1>3. CASE g = "next" /\ u = [t EXCEPT !.next[q] = p]
  <2>1. /\ u.bucket = t.bucket /\ u.util = t.util /\ u.left = t.left /\ u.right = t.right
        /\ u.next = [t.next EXCEPT ![q] = p] /\ u.next \in [PageInfo -> Pointer]
    BY <1>3, TreeType DEF Tree
  <2>2. u \in Tree
    BY <1>3, <2>1, TreeType DEF Tree
  <2> QED
    BY <1>3, <2>1, <2>2, TreeType DEF Field, Redirected
<1> QED
  BY <1>1, <1>2, <1>3

(* insertPageInBucket leaves search trees that have the page as well.      *)
LEMMA InsertedSound ==
  ASSUME NEW t, NEW H, Sound(t, H), NEW p \in PageInfo \ H, NEW u \in Util
  PROVE  /\ Sound(Inserted(t, p, u), H \cup {p})
         /\ Inserted(t, p, u).util = [t.util EXCEPT ![p] = u]
<1> DEFINE root == t.bucket[BucketOf[u]]
           t0 == [t EXCEPT !.left[p] = nullptr, !.right[p] = nullptr, !.next[p] = nullptr,
                           !.util[p] = u]
           parent == ParentFor(t0, root, u)
           last == LastInList(t0, root)
<1>1. t \in Tree /\ H \subseteq PageInfo /\ BucketOf[u] \in Bucket /\ p \in Pointer
  BY BucketAssumption DEF Sound, Forest, Pointer
<1>2. /\ t0.bucket = t.bucket /\ t0.util = [t.util EXCEPT ![p] = u]
      /\ t0.left = [t.left EXCEPT ![p] = nullptr]
      /\ t0.right = [t.right EXCEPT ![p] = nullptr]
      /\ t0.next = [t.next EXCEPT ![p] = nullptr]
  BY <1>1 DEF Tree
<1>3. t0 \in Tree
  <2>1. /\ t0.bucket \in [Bucket -> Pointer] /\ t0.util \in [PageInfo -> Util]
        /\ t0.left \in [PageInfo -> Pointer] /\ t0.right \in [PageInfo -> Pointer]
        /\ t0.next \in [PageInfo -> Pointer]
    BY <1>1, <1>2, TreeType
  <2> QED
    BY <1>1, <2>1 DEF Tree
<1>4. t0.util[p] = u /\ \A f \in Field : t0[f][p] = nullptr
  BY <1>1, <1>2, TreeType DEF Field
<1>5. /\ \A x \in H : t0.util[x] = t.util[x]
      /\ \A x \in H, f \in Field : t0[f][x] = t[f][x]
  BY <1>1, <1>2, TreeType DEF Field
<1>6. Inserted(t, p, u) =
        CASE root = nullptr -> [t0 EXCEPT !.bucket[BucketOf[u]] = p]
          [] root # nullptr /\ u = t0.util[root] -> [t0 EXCEPT !.next[last] = p]
          [] root # nullptr /\ u # t0.util[root] /\ GoesLeft(t0, parent, u) ->
               [t0 EXCEPT !.left[parent] = p]
          [] OTHER -> [t0 EXCEPT !.right[parent] = p]
  BY DEF Inserted
<1> HIDE DEF t0, parent, last
<1>7. Sound(t0, H)
  <2>1. t0.bucket = t.bucket
    BY <1>2
  <2> QED
    BY <1>3, <1>5, <2>1, AgreeSound
<1>8. root \in Pointer /\ root = t0.bucket[BucketOf[u]]
  BY <1>1, <1>2, TreeType
<1>9. CASE root = nullptr
  <2>1. Inserted(t, p, u) = [t0 EXCEPT !.bucket[BucketOf[u]] = p]
    BY <1>6, <1>9
  <2>2. Sound(Inserted(t, p, u), H \cup {p})
    <3>1. t0.bucket[BucketOf[u]] = nullptr /\ BucketOf[u] = BucketOf[t0.util[p]]
      BY <1>4, <1>8, <1>9
    <3> QED
      BY <1>1, <1>4, <1>7, <2>1, <3>1, AttachRoot
  <2>3. Inserted(t, p, u).util = t0.util
    BY <1>3, <2>1 DEF Tree
  <2> QED
    BY <1>2, <2>2, <2>3
<1>10. ASSUME NEW q, NEW g \in Field, MayHang(t0, H, q, g, u), NEW w,
              \/ g = "left"  /\ w = [t0 EXCEPT !.left[q] = p]
              \/ g = "right" /\ w = [t0 EXCEPT !.right[q] = p]
              \/ g = "next"  /\ w = [t0 EXCEPT !.next[q] = p]
       PROVE  Sound(w, H \cup {p}) /\ w.util = [t.util EXCEPT ![p] = u]
  <2>1. q \in PageInfo
    BY <1>1, <1>10 DEF MayHang
  <2>2. Redirected(t0, w, q, g, p)
    BY <1>1, <1>3, <1>10, <2>1, SetPointer
  <2>3. Sound(w, H \cup {p})
    <3>1. MayHang(t0, H, q, g, t0.util[p])
      BY <1>4, <1>10
    <3>2. \A f \in Field : t0[f][p] = nullptr
      BY <1>4
    <3> QED
      BY <1>7, <2>2, <3>1, <3>2, AttachBelow
  <2> QED
    BY <1>2, <2>2, <2>3 DEF Redirected
<1>11. CASE root # nullptr /\ u = t0.util[root]
  <2>1. Inserted(t, p, u) = [t0 EXCEPT !.next[last] = p]
    BY <1>6, <1>11
  <2>2. MayHang(t0, H, last, "next", u)
    BY <1>1, <1>7, <1>8, <1>11, EndOfList DEF last
  <2> QED
    BY <1>10, <2>1, <2>2 DEF Field
<1>12. CASE root # nullptr /\ u # t0.util[root]
  <2>1. MayHang(t0, H, parent, IF GoesLeft(t0, parent, u) THEN "left" ELSE "right", u)
    BY <1>7, <1>8, <1>12, EndOfDescent DEF parent
  <2>2. CASE GoesLeft(t0, parent, u)
    <3>1. Inserted(t, p, u) = [t0 EXCEPT !.left[parent] = p]
      BY <1>6, <1>12, <2>2
    <3> QED
      BY <1>10, <2>1, <2>2, <3>1 DEF Field
  <2>3. CASE ~GoesLeft(t0, parent, u)
    <3>1. Inserted(t, p, u) = [t0 EXCEPT !.right[parent] = p]
      BY <1>6, <1>12, <2>3
    <3> QED
      BY <1>10, <2>1, <2>3, <3>1 DEF Field
  <2> QED
    BY <2>2, <2>3
<1> QED
  BY <1>9, <1>11, <1>12

-----------------------------------------------------------------------------
(***************************************************************************)
(* deletePageFromBucket and findLowestUtilPage.                            *)
(***************************************************************************)

(* A page is left out by a change of the one pointer that leads to it.     *)
LEMMA RedirectSplices ==
  ASSUME NEW t, NEW H, Forest(t, H), NEW p \in H, NEW r \in Pointer, NEW u,
         \/ \E q \in H, g \in Field : t[g][q] = p /\ Redirected(t, u, q, g, r)
         \/ \E b \in Bucket : t.bucket[b] = p /\ u = [t EXCEPT !.bucket[b] = r]
  PROVE  Spliced(t, u, H, p, r)
<1>1. t \in Tree /\ H \subseteq PageInfo /\ p # nullptr
  BY TreeType DEF Forest
<1>2. ASSUME NEW q \in H, NEW g \in Field, t[g][q] = p, Redirected(t, u, q, g, r)
      PROVE  Spliced(t, u, H, p, r)
  <2>1. \A b \in Bucket : t.bucket[b] # p
    BY <1>1, <1>2 DEF Forest
  <2>2. \A x \in H, f \in Field : t[f][x] = p <=> x = q /\ f = g
    BY <1>1, <1>2 DEF Forest
  <2> QED
    BY <1>1, <1>2, <2>1, <2>2 DEF Redirected, Spliced
<1>3. ASSUME NEW b \in Bucket, t.bucket[b] = p, u = [t EXCEPT !.bucket[b] = r]
      PROVE  Spliced(t, u, H, p, r)
  <2>1. /\ u.bucket = [t.bucket EXCEPT ![b] = r] /\ u.util = t.util
        /\ u.left = t.left /\ u.right = t.right /\ u.next = t.next
    BY <1>1, <1>3 DEF Tree
  <2>2. u \in Tree
    BY <1>1, <1>3, <2>1, TreeType DEF Tree
  <2>3. \A c \in Bucket : t.bucket[c] = p <=> c = b
    BY <1>1, <1>3 DEF Forest
  <2>4. \A x \in H, f \in Field : t[f][x] # p
    BY <1>1, <1>3 DEF Forest
  <2>5. \A c \in Bucket : u.bucket[c] = IF t.bucket[c] = p THEN r ELSE t.bucket[c]
    BY <1>1, <2>1, <2>3, TreeType
  <2>6. \A f \in Field : u[f] = t[f]
    BY <2>1 DEF Field
  <2> QED
    BY <2>1, <2>2, <2>4, <2>5, <2>6 DEF Spliced
<1> QED
  BY <1>2, <1>3

(* The pointer at a place of the buckets is changed.                       *)
LEMMA RedirectAt ==
  ASSUME NEW t, NEW H, Forest(t, H), NEW at \in TreePlace(H), Deref(t, at) \in H,
         NEW r \in Pointer
  PROVE  Spliced(t, Redirect(t, at, r), H, Deref(t, at), r)
<1>1. t \in Tree /\ H \subseteq PageInfo
  BY DEF Forest
<1>2. ASSUME NEW b \in Bucket, at = <<"bucket", b>>
      PROVE  Spliced(t, Redirect(t, at, r), H, Deref(t, at), r)
  <2>1. Deref(t, at) = t.bucket[b]
    BY <1>2 DEF Deref
  <2>2. Redirect(t, at, r) = [t EXCEPT !.bucket[b] = r]
    BY <1>1, <1>2 DEF Redirect, Tree
  <2> QED
    BY <2>1, <2>2, RedirectSplices
<1>3. ASSUME NEW f \in {"left", "right"}, NEW q \in H, at = <<f, q>>
      PROVE  Spliced(t, Redirect(t, at, r), H, Deref(t, at), r)
  <2>1. Deref(t, at) = t[f][q] /\ f \in Field /\ q \in PageInfo
    BY <1>1, <1>3 DEF Deref, Field
  <2>2. \/ f = "left"  /\ Redirect(t, at, r) = [t EXCEPT !.left[q] = r]
        \/ f = "right" /\ Redirect(t, at, r) = [t EXCEPT !.right[q] = r]
    BY <1>1, <1>3 DEF Redirect, Tree
  <2>3. Redirected(t, Redirect(t, at, r), q, f, r)
    BY <1>1, <2>1, <2>2, SetPointer
  <2> QED
    BY <2>1, <2>3, RedirectSplices
<1> QED
  BY <1>2, <1>3 DEF TreePlace

(* The page behind p takes its place in a bucket.                          *)
LEMMA PromotedAt ==
  ASSUME NEW t, NEW H, Forest(t, H), NEW b \in Bucket, NEW p \in H, NEW n \in PageInfo,
         p = t.bucket[b]
  PROVE  /\ Promoted(t, [t EXCEPT !.bucket[b] = n, !.left[n] = t.left[p],
                                  !.right[n] = t.right[p]], b, p, n)
         /\ Promoted(t, Redirect([t EXCEPT !.left[n] = t.left[p], !.right[n] = t.right[p]],
                                 <<"bucket", b>>, n), b, p, n)
<1>1. t \in Tree /\ p \in PageInfo /\ t.left[p] \in Pointer /\ t.right[p] \in Pointer
  BY TreeType DEF Forest
<1>2. ASSUME NEW u,
             \/ u = [t EXCEPT !.bucket[b] = n, !.left[n] = t.left[p], !.right[n] = t.right[p]]
             \/ u = Redirect([t EXCEPT !.left[n] = t.left[p], !.right[n] = t.right[p]],
                             <<"bucket", b>>, n)
      PROVE  Promoted(t, u, b, p, n)
  <2>1. u = [bucket |-> [t.bucket EXCEPT ![b] = n], left |-> [t.left EXCEPT ![n] = t.left[p]],
             right |-> [t.right EXCEPT ![n] = t.right[p]], next |-> t.next, util |-> t.util]
    BY <1>1, <1>2 DEF Redirect, Tree
  <2>2. u \in Tree
    BY <1>1, <2>1, TreeType DEF Tree
  <2> QED
    BY <1>1, <2>1, <2>2, TreeType DEF Promoted
<1> QED
  BY <1>2

(* A page that is not where the search ends is in a list, from which it is *)
(* unlinked.                                                               *)
LEMMA UnlinkedSound ==
  ASSUME NEW t, NEW H, Sound(t, H), NEW p \in H, NEW root \in H,
         t.next[Before(t.next, root, p)] = p
  PROVE  /\ Sound(UnlinkFromList(t, root, p), H \ {p})
         /\ UnlinkFromList(t, root, p).util = t.util
<1> DEFINE ptr == [d \in PageInfo |-> IF t.next[d] = p THEN nullptr ELSE t.next[d]]
           prev == Before(t.next, root, p)
           u == [t EXCEPT !.next[prev] = t.next[p]]
<1>1. /\ t \in Tree /\ Forest(t, H) /\ ListsOfRoots(t, H) /\ H \subseteq PageInfo
      /\ "next" \in Field /\ t["next"] = t.next
  BY DEF Sound, Forest, Field
<1>2. prev \in H
  <2>1. ptr \in [PageInfo -> Pointer] /\ nullptr \in Pointer
    BY <1>1, TreeType
  <2>2. prev = WalkEnd(ptr, root) /\ H \in SUBSET H
    BY DEF Before
  <2>3. \A d \in H : ptr[d] # nullptr => ptr[d] \in H /\ \E f \in Field : ptr[d] = t[f][d]
    BY <1>1, ForestClosed
  <2> HIDE DEF ptr, prev
  <2> QED
    BY <1>1, <2>1, <2>2, <2>3, WalkStays
<1>3. t.next[prev] = p /\ UnlinkFromList(t, root, p) = u
  BY DEF UnlinkFromList
<1> HIDE DEF prev
<1>4. t.next[p] \in Pointer
  BY <1>1, ForestClosed
<1>5. Redirected(t, u, prev, "next", t.next[p])
  BY <1>1, <1>2, <1>4, SetPointer
<1> HIDE DEF u
<1>6. Spliced(t, u, H, p, t.next[p])
  BY <1>1, <1>2, <1>3, <1>4, <1>5, RedirectSplices
<1>7. t.left[p] = nullptr /\ t.right[p] = nullptr
  <2>1. p \in Sub(t, t.next[prev])
    BY <1>1, <1>3, ForestClosed
  <2> QED
    BY <1>1, <1>2, <2>1 DEF ListsOfRoots
<1>8. Sound(u, H \ {p})
  <2>1. \A f \in Field : t[f][p] \in {t.next[p], nullptr}
    BY <1>7 DEF Field
  <2>2. t.next[p] # nullptr => \E f \in Field : t[f][p] = t.next[p]
    BY <1>1
  <2> QED
    BY <1>4, <1>6, <2>1, <2>2, SpliceOut
<1> QED
  BY <1>3, <1>6, <1>8 DEF Spliced

(* A call of deletePageFromBucket that calls itself for no other page      *)
(* leaves search trees without the page.                                   *)
LEMMA DeleteCallSound ==
  ASSUME NEW t, NEW H, Sound(t, H), NEW p \in H, SearchFinds(t, p), ~HasTwoChildren(t, p),
         NEW deleted
  PROVE  LET u == DeleteCall(t, <<"bucket", BucketOf[t.util[p]]>>, p, deleted)
         IN Sound(u, H \ {p}) /\ u.util = t.util
<1> DEFINE b == BucketOf[t.util[p]]
           at == <<"bucket", b>>
           end == SearchEnd(t, at, p)
           root == Deref(t, end)
           n == t.next[p]
           u == DeleteCall(t, at, p, deleted)
<1>1. /\ t \in Tree /\ Forest(t, H) /\ ListsOfRoots(t, H) /\ H \subseteq PageInfo
      /\ p \in PageInfo /\ p # nullptr
  BY TreeType DEF Sound, Forest
<1>2. b \in Bucket
  BY <1>1, TreeType, BucketAssumption
<1>3. /\ root # nullptr
      /\ root # p => t.next[Before(t.next, root, p)] = p
  BY DEF SearchFinds
<1>4. end \in TreePlace(H) /\ root \in H
  <2> HIDE DEF b
  <2> QED
    BY <1>1, <1>2, <1>3, SearchStays
<1>5. /\ root # p => u = UnlinkFromList(t, root, p)
      /\ root = p /\ n # nullptr =>
           u = Redirect([t EXCEPT !.left[n] = t.left[p], !.right[n] = t.right[p]], end, n)
      /\ root = p /\ n = nullptr /\ t.left[p] = nullptr => u = Redirect(t, end, t.right[p])
      /\ root = p /\ n = nullptr /\ t.left[p] # nullptr /\ t.right[p] = nullptr =>
           u = Redirect(t, end, t.left[p])
  BY <1>3, Zenon DEF DeleteCall
<1> HIDE DEF end, u, at
<1>6. CASE root # p
  <2>1. u = UnlinkFromList(t, root, p)
    BY <1>3, <1>5, <1>6
  <2> HIDE DEF root
  <2> QED
    BY <1>3, <1>4, <1>6, <2>1, UnlinkedSound DEF u, at
<1>7. CASE root = p /\ n # nullptr
  <2>1. PICK c \in Bucket : end = <<"bucket", c>>
    <3>1. ASSUME NEW f \in {"left", "right"}, NEW x \in H, end = <<f, x>> PROVE FALSE
      <4>1. t[f][x] = p
        BY <1>7, <3>1 DEF Deref
      <4>2. p \in Sub(t, t[f][x])
        BY <1>1, <4>1, ForestClosed
      <4> QED
        BY <1>1, <1>7, <3>1, <4>2 DEF ListsOfRoots
    <3> QED
      BY <1>4, <3>1 DEF TreePlace
  <2>2. p = t.bucket[c]
    BY <1>7, <2>1 DEF Deref
  <2>3. n \in PageInfo
    BY <1>1, <1>7, TreeType
  <2>4. u = Redirect([t EXCEPT !.left[n] = t.left[p], !.right[n] = t.right[p]], <<"bucket", c>>, n)
    BY <1>1, <1>5, <1>7, <2>1
  <2>5. Promoted(t, u, c, p, n)
    BY <1>1, <2>2, <2>3, <2>4, PromotedAt
  <2>6. Sound(u, H \ {p})
    BY <1>1, <1>7, <2>2, <2>5, PromoteNext
  <2> QED
    BY <2>5, <2>6 DEF Promoted, u, at
<1>8. CASE root = p /\ n = nullptr
  <2>1. PICK g \in {"left", "right"} : /\ u = Redirect(t, end, t[g][p])
                                       /\ \A f \in Field : t[f][p] \in {t[g][p], nullptr}
    <3>1. t.left[p] = nullptr \/ t.right[p] = nullptr
      BY <1>8 DEF HasTwoChildren
    <3>2. CASE t.left[p] = nullptr
      <4>1. u = Redirect(t, end, t["right"][p])
        BY <1>1, <1>5, <1>8, <3>2
      <4>2. \A f \in Field : t[f][p] \in {t["right"][p], nullptr}
        BY <1>8, <3>2 DEF Field
      <4> QED
        BY <4>1, <4>2
    <3>3. CASE t.left[p] # nullptr /\ t.right[p] = nullptr
      <4>1. u = Redirect(t, end, t["left"][p])
        BY <1>1, <1>5, <1>8, <3>3
      <4>2. \A f \in Field : t[f][p] \in {t["left"][p], nullptr}
        BY <1>8, <3>3 DEF Field
      <4> QED
        BY <4>1, <4>2
    <3> QED
      BY <3>1, <3>2, <3>3
  <2>2. t[g][p] \in Pointer /\ g \in Field
    BY <1>1, ForestClosed DEF Field
  <2>3. Spliced(t, u, H, p, t[g][p])
    BY <1>1, <1>4, <1>8, <2>1, <2>2, RedirectAt
  <2>4. Sound(u, H \ {p})
    BY <2>1, <2>2, <2>3, SpliceOut
  <2> QED
    BY <2>3, <2>4 DEF Spliced, u, at
<1> QED
  BY <1>6, <1>7, <1>8

(* deletePageFromBucket, where it is right. *)
LEMMA DeletedSound ==
  ASSUME NEW t, NEW H, Sound(t, H), NEW p \in H, SearchFinds(t, p), ~HasTwoChildren(t, p)
  PROVE  LET u == Deleted(t, <<"bucket", BucketOf[t.util[p]]>>, p)
         IN Sound(u, H \ {p}) /\ u.util = t.util
<1> DEFINE at == <<"bucket", BucketOf[t.util[p]]>>
           deleted == CHOOSE f : f = [c \in Tree \X Place \X PageInfo |->
                                        DeleteCall(c[1], c[2], c[3], f)]
<1>1. Deleted(t, at, p) = DeleteCall(t, at, p, deleted)
  BY Zenon DEF Deleted
<1>2. LET u == DeleteCall(t, at, p, deleted) IN Sound(u, H \ {p}) /\ u.util = t.util
  <2> HIDE DEF deleted
  <2> QED
    BY DeleteCallSound
<1> QED
  BY <1>1, <1>2, Zenon

(* The leftmost page of a tree is used least, and is the tree's first page *)
(* or one below the left pointer of that, which some page's left pointer   *)
(* leads to.                                                               *)
LEMMA Leftmost ==
  ASSUME NEW t, NEW H, Sound(t, H), NEW root \in H
  PROVE  LET p == WalkEnd(t.left, root)
         IN /\ p \in Sub(t, root) /\ t.left[p] = nullptr
            /\ \A q \in Sub(t, root) : t.util[p] <= t.util[q]
            /\ p # root => p \in Sub(t, t.left[root])
            /\ p # root => Before(t.left, root, p) \in H /\ t.left[Before(t.left, root, p)] = p
<1> DEFINE p == WalkEnd(t.left, root)
           T == Sub(t, root)
           Least(c) == \A q \in T \ Sub(t, c), y \in Sub(t, c) : t.util[y] <= t.util[q]
           P == {c \in T : (c = root \/ c \in Sub(t, t.left[root])) /\ Least(c)}
           ptr == [d \in PageInfo |-> IF t.left[d] = p THEN nullptr ELSE t.left[d]]
           parent == Before(t.left, root, p)
           Q == {c \in H : WalkEnd(t.left, c) = p /\ c # p}
<1>1. /\ t \in Tree /\ Forest(t, H) /\ Ordered(t, H) /\ H \subseteq PageInfo
      /\ t["left"] = t.left /\ "left" \in Field /\ T \subseteq H /\ root \in T
  BY ForestClosed DEF Sound, Forest, Field
<1>2. \A c \in H : t.util[c] \in Nat
  BY <1>1, TreeType, BucketAssumption
<1>3. t.left \in [PageInfo -> Pointer] /\ nullptr \in Pointer
  BY <1>1, TreeType
<1>4. ASSUME NEW c \in T
      PROVE  /\ c \in H /\ Sub(t, c) \subseteq T /\ Sub(t, c) \subseteq H
             /\ Sub(t, t.left[c]) \subseteq Sub(t, c)
             /\ \A q \in Sub(t, c) \ Sub(t, t.left[c]) : t.util[c] <= t.util[q]
             /\ \A y \in Sub(t, t.left[c]) : t.util[y] < t.util[c]
  <2>1. c \in H /\ c \in PageInfo /\ root \in Pointer
    BY <1>1, ForestClosed
  <2>2. Sub(t, c) \subseteq T /\ Sub(t, c) \subseteq H
    BY <1>1, <2>1, SubTrans
  <2>3. Sub(t, c) = {c} \cup Sub(t, t.left[c]) \cup Sub(t, t.right[c]) \cup Sub(t, t.next[c])
    BY <1>1, <2>1, SubUnfold
  <2>4. /\ \A q \in Sub(t, t.left[c])  : t.util[q] < t.util[c]
        /\ \A q \in Sub(t, t.right[c]) : t.util[q] >= t.util[c]
        /\ \A q \in Sub(t, t.next[c])  : t.util[q] = t.util[c]
    BY <1>1, <2>1 DEF Ordered
  <2>5. ASSUME NEW q \in Sub(t, c) \ Sub(t, t.left[c]) PROVE t.util[c] <= t.util[q]
    <3>1. q \in H
      BY <2>2
    <3>2. q = c \/ q \in Sub(t, t.right[c]) \/ q \in Sub(t, t.next[c])
      BY <2>3
    <3> QED
      BY <1>2, <2>1, <2>4, <3>1, <3>2
  <2> QED
    BY <2>1, <2>2, <2>3, <2>4, <2>5
<1>5. ASSUME NEW c \in P, t.left[c] # nullptr PROVE t.left[c] \in P
  <2> DEFINE d == t.left[c]
  <2>1. c \in T /\ c \in H /\ Least(c)
    BY <1>4
  <2>2. d \in H /\ d \in Sub(t, d) /\ Sub(t, d) \subseteq H /\ d \in T
    BY <1>1, <1>4, <1>5, <2>1, ForestClosed
  <2>3. d \in Sub(t, t.left[root])
    <3>1. CASE c = root
      BY <2>2, <3>1
    <3>2. CASE c # root
      <4>1. c \in Sub(t, t["left"][root]) /\ t["left"][root] \in Pointer
        BY <1>1, <3>2, ForestClosed
      <4> QED
        BY <1>1, <1>5, <4>1, SubClosed
    <3> QED
      BY <3>1, <3>2
  <2>4. ASSUME NEW q \in T \ Sub(t, d), NEW y \in Sub(t, d) PROVE t.util[y] <= t.util[q]
    <3>1. q \in H /\ y \in H /\ y \in Sub(t, c)
      BY <1>1, <1>4, <2>1
    <3>2. CASE q \in Sub(t, c)
      <4>1. t.util[c] <= t.util[q] /\ t.util[y] < t.util[c]
        BY <1>4, <2>1, <2>4, <3>2
      <4> QED
        BY <1>2, <2>1, <3>1, <4>1
    <3>3. CASE q \notin Sub(t, c)
      BY <2>1, <3>1, <3>3
    <3> QED
      BY <3>2, <3>3
  <2>5. Least(d)
    BY <2>4
  <2> HIDE DEF Least
  <2> QED
    BY <2>2, <2>3, <2>5
<1>6. root \in P
  BY <1>1
<1>7. p \in P /\ t.left[p] = nullptr
  <2>1. P \in SUBSET H
    BY <1>1
  <2>2. \A d \in P : t.left[d] # nullptr => t.left[d] \in P /\ \E f \in Field : t.left[d] = t[f][d]
    <3> HIDE DEF P
    <3> QED
      BY <1>1, <1>5
  <2>3. p = WalkEnd(t.left, root)
    OBVIOUS
  <2> HIDE DEF P, p
  <2> QED
    BY <1>1, <1>3, <1>6, <2>1, <2>2, <2>3, WalkStays
<1> HIDE DEF p
<1>8. ASSUME NEW q \in T PROVE t.util[p] <= t.util[q]
  <2>1. p \in T /\ p \in H /\ p \in Sub(t, p) /\ Least(p)
    BY <1>1, <1>4, <1>7, ForestClosed
  <2>2. CASE q \in Sub(t, p)
    <3>1. Sub(t, t.left[p]) = {}
      BY <1>1, <1>7, SubNull
    <3> QED
      BY <1>4, <2>1, <2>2, <3>1
  <2>3. CASE q \notin Sub(t, p)
    BY <2>1, <2>3
  <2> QED
    BY <2>2, <2>3
<1>9. ASSUME p # root PROVE parent \in H /\ t.left[parent] = p
  <2>1. ptr \in [PageInfo -> Pointer]
    BY <1>3
  <2>2. parent = WalkEnd(ptr, root) /\ Q \in SUBSET H
    BY DEF Before
  <2>3. root \in Q
    BY <1>9 DEF p
  <2>4. ASSUME NEW c \in Q PROVE t.left[c] # nullptr
    <3>1. c \in PageInfo
      BY <1>1
    <3> QED
      BY <1>3, <2>4, <3>1, WalkStep
  <2>5. ASSUME NEW c \in Q, ptr[c] # nullptr PROVE ptr[c] \in Q /\ ptr[c] = t["left"][c]
    <3>1. c \in PageInfo /\ c \in H
      BY <1>1
    <3>2. ptr[c] = t.left[c] /\ t.left[c] # p /\ t.left[c] # nullptr
      BY <2>5, <3>1
    <3>3. WalkEnd(t.left, t.left[c]) = p
      BY <1>3, <3>1, <3>2, WalkStep
    <3>4. t.left[c] \in H
      BY <1>1, <3>1, <3>2, ForestClosed
    <3> QED
      BY <3>2, <3>3, <3>4
  <2>6. parent \in Q /\ ptr[parent] = nullptr
    <3>1. \A d \in Q : ptr[d] # nullptr => ptr[d] \in Q /\ \E f \in Field : ptr[d] = t[f][d]
      <4> HIDE DEF Q, ptr
      <4> QED
        BY <1>1, <2>5
    <3> HIDE DEF Q, ptr, parent
    <3> QED
      BY <1>1, <2>1, <2>2, <2>3, <3>1, WalkStays
  <2> HIDE DEF parent
  <2>7. parent \in PageInfo /\ t.left[parent] # nullptr
    BY <1>1, <2>4, <2>6
  <2> QED
    BY <2>6, <2>7
<1> QED
  BY <1>7, <1>8, <1>9 DEF p

(* findLowestUtilPage leaves search trees without the page it returns.     *)
LEMMA LowestTakenSound ==
  ASSUME NEW t, NEW H, Sound(t, H), NEW b \in Bucket, t.bucket[b] # nullptr
  PROVE  LET p == LowestTaken(t, b).page
             u == LowestTaken(t, b).tree
         IN /\ p \in H /\ \A q \in Sub(t, t.bucket[b]) : t.util[p] <= t.util[q]
            /\ Sound(u, H \ {p}) /\ u.util = t.util
<1> DEFINE root == t.bucket[b]
           p == WalkEnd(t.left, root)
           parent == Before(t.left, root, p)
           n == t.next[p]
           r == t.right[p]
           u == LowestTaken(t, b).tree
<1>1. /\ t \in Tree /\ Forest(t, H) /\ ListsOfRoots(t, H) /\ H \subseteq PageInfo
      /\ root \in H /\ Sub(t, root) \subseteq H
  BY ForestClosed DEF Sound, Forest
<1>2. /\ p \in Sub(t, root) /\ t.left[p] = nullptr
      /\ \A q \in Sub(t, root) : t.util[p] <= t.util[q]
      /\ p # root => p \in Sub(t, t.left[root])
      /\ p # root => parent \in H /\ t.left[parent] = p
  <2> HIDE DEF root
  <2> QED
    BY <1>1, Leftmost
<1>3. LowestTaken(t, b).page = p
  BY DEF LowestTaken
<1>4. /\ p # root => u = [t EXCEPT !.left[parent] = r]
      /\ p = root /\ n = nullptr => u = [t EXCEPT !.bucket[b] = r]
      /\ p = root /\ n # nullptr => u = [t EXCEPT !.bucket[b] = n, !.left[n] = t.left[p],
                                                  !.right[n] = t.right[p]]
  <2>1. u = IF p # root THEN [t EXCEPT !.left[parent] = r]
            ELSE IF n = nullptr THEN [t EXCEPT !.bucket[b] = r]
            ELSE [t EXCEPT !.bucket[b] = n, !.left[n] = t.left[p], !.right[n] = t.right[p]]
    BY DEF LowestTaken, InPlaceOf
  <2> HIDE DEF u, p, root, parent, n, r
  <2> QED
    BY <2>1, Zenon
<1> HIDE DEF p, parent, u
<1>5. p \in H /\ p \in PageInfo /\ p # nullptr /\ r \in Pointer
  BY <1>1, <1>2, TreeType
<1>6. ASSUME p # root \/ n = nullptr PROVE Sound(u, H \ {p}) /\ u.util = t.util
  <2>1. n = nullptr
    BY <1>1, <1>2, <1>6 DEF ListsOfRoots
  <2>2. \A f \in Field : t[f][p] \in {r, nullptr}
    BY <1>2, <2>1 DEF Field
  <2>3. r # nullptr => \E f \in Field : t[f][p] = r
    BY <1>1 DEF Field
  <2>4. Spliced(t, u, H, p, r)
    <3>1. CASE p # root
      <4>1. Redirected(t, u, parent, "left", r)
        BY <1>1, <1>2, <1>4, <1>5, <3>1, SetPointer DEF Field
      <4>2. t["left"][parent] = p /\ "left" \in Field /\ parent \in H
        BY <1>2, <3>1 DEF Field
      <4> QED
        BY <1>1, <1>5, <4>1, <4>2, RedirectSplices
    <3>2. CASE p = root
      BY <1>1, <1>4, <1>5, <2>1, <3>2, RedirectSplices
    <3> QED
      BY <3>1, <3>2
  <2>5. Sound(u, H \ {p})
    BY <1>5, <2>2, <2>3, <2>4, SpliceOut
  <2> QED
    BY <2>4, <2>5 DEF Spliced
<1>7. ASSUME p = root, n # nullptr PROVE Sound(u, H \ {p}) /\ u.util = t.util
  <2>1. n \in PageInfo
    BY <1>1, <1>5, <1>7, TreeType
  <2>2. Promoted(t, u, b, p, n)
    <3>1. u = [t EXCEPT !.bucket[b] = n, !.left[n] = t.left[p], !.right[n] = t.right[p]]
      BY <1>4, <1>7
    <3>2. p = t.bucket[b]
      BY <1>7
    <3> HIDE DEF n, root
    <3> QED
      BY <1>1, <1>5, <2>1, <3>1, <3>2, PromotedAt
  <2>3. Sound(u, H \ {p})
    BY <1>5, <1>7, <2>2, PromoteNext
  <2> QED
    BY <2>2, <2>3 DEF Promoted
<1> QED
  BY <1>2, <1>3, <1>5, <1>6, <1>7 DEF u

-----------------------------------------------------------------------------
(***************************************************************************)
(* The invariant and what follows from it.                                 *)
(***************************************************************************)

(* The buckets are empty at first. *)
LEMMA BucketInit == TreeInit => BucketInv
<1> SUFFICES ASSUME TreeInit PROVE Sound(tree, {})
  BY DEF BucketInv, TreeInit
<1>1. PICK u \in Util : tree = [bucket |-> [b \in Bucket |-> nullptr],
                                left   |-> [p \in PageInfo |-> nullptr],
                                right  |-> [p \in PageInfo |-> nullptr],
                                next   |-> [p \in PageInfo |-> nullptr],
                                util   |-> [p \in PageInfo |-> u]]
  BY DEF TreeInit
<1>2. tree \in Tree /\ \A b \in Bucket : tree.bucket[b] = nullptr
  BY <1>1 DEF Tree, Pointer
<1>3. \A b \in Bucket : Sub(tree, tree.bucket[b]) = {}
  BY <1>2, SubNull
<1>4. IsFiniteSet({})
  BY FS_EmptySet
<1> QED
  BY <1>2, <1>3, <1>4 DEF Sound, Forest, Ordered, ListsOfRoots

(* Each step keeps the invariant. *)
LEMMA BucketStep == BucketInv /\ [CarefulNext]_treeVars => BucketInv'
<1> SUFFICES ASSUME BucketInv, [CarefulNext]_treeVars
             PROVE  Sound(tree', held')
  BY DEF BucketInv
<1>1. Sound(tree, held)
  BY DEF BucketInv
<1>2. ASSUME NEW p \in PageInfo, NEW u \in Util, Insert(p, u) PROVE Sound(tree', held')
  BY <1>1, <1>2, InsertedSound DEF Insert
<1>3. ASSUME NEW p \in PageInfo, CarefulDelete(p) PROVE Sound(tree', held')
  BY <1>1, <1>3, DeletedSound DEF CarefulDelete, Delete
<1>4. CASE findLowestUtilPage
  BY <1>1, <1>4, LowestTakenSound DEF findLowestUtilPage
<1>5. CASE UNCHANGED treeVars
  BY <1>1, <1>5 DEF treeVars
<1> QED
  BY <1>2, <1>3, <1>4, <1>5 DEF CarefulNext

(* The buckets stay sound search trees of the pages put in, whatever the   *)
(* pages, utilisations and buckets are (insertPageInBucket,                *)
(* findLowestUtilPage, and deletePageFromBucket where it is right).        *)
THEOREM BucketsSound == CarefulSpec => []BucketInv
<1> QED
  BY BucketInit, BucketStep, PTL DEF CarefulSpec

(* The pages in the buckets, from all the roots.                           *)
LEMMA FromRoots ==
  ASSUME NEW t, NEW H, Forest(t, H)
  PROVE  InSubtree(t, {t.bucket[b] : b \in Bucket}) = H
<1> DEFINE R == {t.bucket[b] : b \in Bucket}
<1>1. t \in Tree /\ H \in SUBSET PageInfo
  BY DEF Forest
<1>2. InSubtree(t, R) \subseteq H
  <2>1. R \ {nullptr} \subseteq H
    BY ForestClosed
  <2>2. \A p \in H : Links(t, p) \subseteq H
    BY ForestClosed DEF Links, Field
  <2> HIDE DEF R
  <2> QED
    BY <1>1, <2>1, <2>2 DEF InSubtree
<1>3. ASSUME NEW p \in H, NEW S \in SUBSET PageInfo, R \ {nullptr} \subseteq S,
             \A q \in S : Links(t, q) \subseteq S
      PROVE  p \in S
  <2>1. PICK b \in Bucket : p \in Sub(t, t.bucket[b])
    BY DEF Forest
  <2>2. t.bucket[b] # nullptr => t.bucket[b] \in S
    BY <1>3
  <2>3. \A q \in S, f \in Field : t[f][q] # nullptr => t[f][q] \in S
    BY <1>3 DEF Links, Field
  <2>4. t.bucket[b] \in Pointer
    BY <1>1, TreeType
  <2> QED
    BY <1>1, <2>1, <2>2, <2>3, <2>4, SubLeast
<1>4. H \subseteq InSubtree(t, R)
  <2> HIDE DEF R
  <2> QED
    BY <1>1, <1>3 DEF InSubtree
<1> QED
  BY <1>2, <1>4

(* The buckets lead to the pages put in. *)
LEMMA HeldInBuckets == BucketInv => InBuckets = held
  BY FromRoots DEF BucketInv, Sound, InBuckets

(* To each page there is a pointer, and only one.                          *)
LEMMA OnePointer == BucketInv => HoldsEveryPageOnce
<1> SUFFICES ASSUME BucketInv PROVE HoldsEveryPageOnce
  OBVIOUS
<1>1. InBuckets = held /\ Forest(tree, held) /\ tree \in Tree /\ held \subseteq PageInfo
  BY HeldInBuckets DEF BucketInv, Sound, Forest
<1> DEFINE Pointing == ({"bucket"} \X Bucket) \cup ({"left", "right", "next"} \X held)
           S == {q \in held : \E at \in Pointing : Deref(tree, at) = q}
<1>2. ASSUME NEW p \in held PROVE p \in S
  <2>1. PICK b \in Bucket : p \in Sub(tree, tree.bucket[b])
    BY <1>1 DEF Forest
  <2>2. tree.bucket[b] # nullptr => tree.bucket[b] \in S
    <3>1. <<"bucket", b>> \in Pointing /\ Deref(tree, <<"bucket", b>>) = tree.bucket[b]
      BY DEF Deref
    <3> HIDE DEF Pointing
    <3> QED
      BY <1>1, <3>1, ForestClosed
  <2>3. ASSUME NEW q \in S, NEW f \in Field, tree[f][q] # nullptr PROVE tree[f][q] \in S
    <3>1. <<f, q>> \in Pointing /\ Deref(tree, <<f, q>>) = tree[f][q]
      BY DEF Deref, Field
    <3> HIDE DEF Pointing
    <3> QED
      BY <1>1, <2>3, <3>1, ForestClosed
  <2>4. S \in SUBSET PageInfo /\ tree.bucket[b] \in Pointer
    BY <1>1, TreeType
  <2> HIDE DEF S
  <2> QED
    BY <1>1, <2>1, <2>2, <2>3, <2>4, SubLeast
<1>3. ASSUME NEW p \in held, NEW at \in Pointing, NEW as \in Pointing,
             Deref(tree, at) = p, Deref(tree, as) = p
      PROVE  at = as
  <2>1. ASSUME NEW a \in Pointing
        PROVE  \E f \in Field \cup {"bucket"}, x \in Bucket \cup held :
                 /\ a = <<f, x>> /\ Deref(tree, a) = tree[f][x]
                 /\ IF f = "bucket" THEN x \in Bucket ELSE x \in held
    BY DEF Deref, Field
  <2> HIDE DEF Pointing
  <2>2. p # nullptr
    BY <1>1, TreeType
  <2>3. PICK f \in Field \cup {"bucket"}, x \in Bucket \cup held :
          at = <<f, x>> /\ tree[f][x] = p /\ IF f = "bucket" THEN x \in Bucket ELSE x \in held
    BY <1>3, <2>1
  <2>4. PICK g \in Field \cup {"bucket"}, y \in Bucket \cup held :
          as = <<g, y>> /\ tree[g][y] = p /\ IF g = "bucket" THEN y \in Bucket ELSE y \in held
    BY <1>3, <2>1
  <2>5. tree["bucket"] = tree.bucket /\ "bucket" \notin Field
    BY DEF Field
  <2>6. CASE f = "bucket" /\ g = "bucket"
    BY <1>1, <2>2, <2>3, <2>4, <2>5, <2>6 DEF Forest
  <2>7. /\ \A d, e \in held : \A h, k \in Field :
             tree[h][d] = tree[k][e] /\ tree[h][d] # nullptr => d = e /\ h = k
        /\ \A d \in held : \A h \in Field : \A b \in Bucket :
             tree[h][d] = tree.bucket[b] => tree[h][d] = nullptr
    BY <1>1 DEF Forest
  <2>8. CASE f # "bucket" /\ g # "bucket"
    BY <2>2, <2>3, <2>4, <2>7, <2>8
  <2>9. CASE f # "bucket" /\ g = "bucket"
    BY <2>2, <2>3, <2>4, <2>5, <2>7, <2>9
  <2>10. CASE f = "bucket" /\ g # "bucket"
    BY <2>2, <2>3, <2>4, <2>5, <2>7, <2>10
  <2> QED
    BY <2>6, <2>8, <2>9, <2>10
<1>4. ASSUME NEW p \in held PROVE Cardinality(PointersTo(p)) = 1
  <2>1. PICK at \in Pointing : Deref(tree, at) = p
    BY <1>2
  <2>2. PointersTo(p) = {as \in Pointing : Deref(tree, as) = p}
    BY <1>1 DEF PointersTo
  <2>3. PointersTo(p) = {at}
    <3> HIDE DEF Pointing
    <3> QED
      BY <1>3, <2>1, <2>2
  <2> QED
    BY <2>3, FS_Singleton
<1> QED
  BY <1>1, <1>4 DEF HoldsEveryPageOnce

(* The buckets lead to exactly the pages that are in them, to each by one  *)
(* path (insertPageInBucket, deletePageFromBucket, findLowestUtilPage).    *)
THEOREM BucketsHoldEveryPageOnce == CarefulSpec => []HoldsEveryPageOnce
<1> QED
  BY BucketsSound, OnePointer, PTL

(* Each bucket stays a search tree of the pages that belong in it.         *)
THEOREM BucketsAreSearchTrees == CarefulSpec => []SearchTree
<1>1. BucketInv => SearchTree
  BY HeldInBuckets DEF BucketInv, Sound, Ordered, SearchTree, Sub
<1> QED
  BY <1>1, BucketsSound, PTL

(* A page that findLowestUtilPage returns is used least of all pages.      *)
LEMMA LowestOfAll ==
  ASSUME NEW t, NEW H, Sound(t, H), NEW b \in Bucket, t.bucket[b] # nullptr,
         \A c \in Bucket : c < b => t.bucket[c] = nullptr,
         NEW q \in H
  PROVE  t.util[LowestTaken(t, b).page] <= t.util[q]
<1> DEFINE p == LowestTaken(t, b).page
<1>1. t \in Tree /\ Forest(t, H) /\ Ordered(t, H) /\ H \subseteq PageInfo
  BY DEF Sound, Forest
<1>2. p \in H /\ \A y \in Sub(t, t.bucket[b]) : t.util[p] <= t.util[y]
  BY LowestTakenSound
<1>3. p \in Sub(t, t.bucket[b])
  <2>1. t.bucket[b] \in H
    BY <1>1, ForestClosed
  <2>2. WalkEnd(t.left, t.bucket[b]) \in Sub(t, t.bucket[b])
    BY <2>1, Leftmost
  <2> QED
    BY <2>2 DEF LowestTaken
<1> HIDE DEF p
<1>4. PICK c \in Bucket : q \in Sub(t, t.bucket[c])
  BY <1>1 DEF Forest
<1>5. BucketOf[t.util[q]] = c /\ BucketOf[t.util[p]] = b
  BY <1>1, <1>3, <1>4 DEF Ordered
<1>6. ~(c < b)
  BY <1>1, <1>4, SubNull
<1>7. t.util[p] \in Util /\ t.util[q] \in Util /\ Util \subseteq Nat /\ Bucket \subseteq Nat
  BY <1>1, <1>2, TreeType, BucketAssumption
<1>8. ASSUME c = b PROVE t.util[p] <= t.util[q]
  BY <1>2, <1>4, <1>8
<1>9. ASSUME c # b PROVE t.util[p] <= t.util[q]
  <2>1. t.util[q] <= t.util[p] => c <= b
    BY <1>5, <1>7, BucketAssumption
  <2>2. b \in Nat /\ c \in Nat /\ t.util[p] \in Nat /\ t.util[q] \in Nat
    BY <1>7
  <2> HIDE DEF p
  <2> QED
    BY <1>6, <1>9, <2>1, <2>2
<1> QED
  BY <1>8, <1>9 DEF p

(* A step of the buckets is a step of the set of pages, or none.           *)
LEMMA BucketsSimulate ==
  BucketInv /\ BucketInv' /\ [CarefulNext]_treeVars
    => [Abstract!Next]_<<InBuckets, tree.util, taken>>
<1> SUFFICES ASSUME BucketInv, BucketInv', [CarefulNext]_treeVars
             PROVE  Abstract!Next \/ UNCHANGED <<InBuckets, tree.util, taken>>
  OBVIOUS
<1>1. Sound(tree, held) /\ InBuckets = held /\ held \subseteq PageInfo
  BY HeldInBuckets DEF BucketInv, Sound, Forest
<1>2. InBuckets' = held'
  <2>1. Forest(tree', held')
    BY DEF BucketInv, Sound
  <2> QED
    BY <2>1, FromRoots DEF InBuckets
<1>3. ASSUME NEW p \in PageInfo, NEW u \in Util, Insert(p, u) PROVE Abstract!Put(p, u)
  <2>1. p \notin held /\ tree' = Inserted(tree, p, u) /\ held' = held \cup {p} /\ taken' = taken
    BY <1>3 DEF Insert
  <2>2. tree'.util = [tree.util EXCEPT ![p] = u]
    BY <1>1, <2>1, InsertedSound
  <2> QED
    BY <1>1, <1>2, <2>1, <2>2 DEF Abstract!Put
<1>4. ASSUME NEW p \in PageInfo, CarefulDelete(p) PROVE Abstract!Remove(p)
  <2>1. /\ p \in held /\ SearchFinds(tree, p) /\ ~HasTwoChildren(tree, p)
        /\ tree' = Deleted(tree, <<"bucket", BucketOf[tree.util[p]]>>, p)
        /\ held' = held \ {p} /\ taken' = taken
    BY <1>4 DEF CarefulDelete, Delete
  <2>2. tree'.util = tree.util
    BY <1>1, <2>1, DeletedSound
  <2> QED
    BY <1>1, <1>2, <2>1, <2>2 DEF Abstract!Remove
<1>5. ASSUME findLowestUtilPage PROVE \E p \in PageInfo : Abstract!TakeLowest(p)
  <2>1. PICK b \in Bucket : /\ tree.bucket[b] # nullptr
                            /\ \A c \in Bucket : c < b => tree.bucket[c] = nullptr
                            /\ taken' = LowestTaken(tree, b).page
                            /\ tree' = LowestTaken(tree, b).tree
    BY <1>5 DEF findLowestUtilPage
  <2>2. held' = held \ {taken'}
    BY <1>5 DEF findLowestUtilPage
  <2>3. taken' \in held /\ tree'.util = tree.util
    BY <1>1, <2>1, LowestTakenSound
  <2>4. \A q \in held : tree.util[taken'] <= tree.util[q]
    BY <1>1, <2>1, LowestOfAll
  <2>5. Abstract!TakeLowest(taken')
    BY <1>1, <1>2, <2>2, <2>3, <2>4 DEF Abstract!TakeLowest
  <2> QED
    BY <1>1, <2>3, <2>5
<1>6. CASE UNCHANGED treeVars
  BY <1>1, <1>2, <1>6 DEF treeVars
<1> QED
  BY <1>3, <1>4, <1>5, <1>6 DEF CarefulNext, Abstract!Next

(* The buckets implement a set of pages with their utilisations, of which  *)
(* findLowestUtilPage returns one that no other is used less than.         *)
THEOREM BucketsImplementPageSets == CarefulSpec => ImplementsPageSets
<1>1. TreeInit => Abstract!Init
  <2> SUFFICES ASSUME TreeInit PROVE InBuckets = {} /\ tree.util \in [PageInfo -> Util]
                                     /\ taken = nullptr
    BY DEF Abstract!Init
  <2>1. BucketInv /\ held = {} /\ taken = nullptr
    BY BucketInit DEF TreeInit
  <2>2. tree \in Tree
    BY <2>1 DEF BucketInv, Sound, Forest
  <2> QED
    BY <2>1, <2>2, HeldInBuckets, TreeType
<1> QED
  BY <1>1, BucketsSound, BucketsSimulate, PTL DEF CarefulSpec, ImplementsPageSets, Abstract!Spec
=============================================================================
