--------------------------- MODULE PageWordsProofs ---------------------------
(***************************************************************************)
(* Proofs about the two modules that go down to the words of a page:       *)
(* ArrayList, the work lists, and Layout, the entries of a GC page.        *)
(*                                                                         *)
(* About ArrayList, for any number of lists and pages and any sizes: what- *)
(* ever the lists do, overruns and the crash on a full only segment        *)
(* included, a page has one owner; and where elements fill a segment to    *)
(* its last word, the lists are independent sequences.                     *)
(*                                                                         *)
(* PagesOwnedOnce relates positions in sequences; the invariant below      *)
(* splits it into what each sequence holds and that none holds an element  *)
(* twice.  An operation only moves pages between one list and the free     *)
(* list, perhaps with a page that was just mapped.                         *)
(*                                                                         *)
(* About Layout, for any sizes of pages, objects and canaries: a scan      *)
(* finds the object that a word falls into, the freelist stays a list of   *)
(* free entries, and no object is written over (LayoutInv).                *)
(***************************************************************************)
EXTENDS ArrayList, Layout, SeqFacts, FiniteSetTheorems

Owned(l) == Range(segments[l])

OwnInv ==
  /\ free_pages \in Seq(Page)
  /\ segments \in [List -> Seq(Page)]
  /\ mapped \in SUBSET Page
  /\ Distinct(free_pages)
  /\ \A l \in List : Distinct(segments[l])
  /\ \A l \in List : Owned(l) \cap Range(free_pages) = {}
  /\ \A l, m \in List : l # m => Owned(l) \cap Owned(m) = {}
  /\ mapped = Range(free_pages) \cup UNION {Owned(l) : l \in List}

(* The invariant is at least as strong as the property. *)
LEMMA OwnInvSuffices == OwnInv => PagesOwnedOnce
<1> SUFFICES ASSUME OwnInv PROVE PagesOwnedOnce
  OBVIOUS
<1>1. ASSUME NEW l \in List, NEW m \in List,
             NEW i \in DOMAIN segments[l], NEW j \in DOMAIN segments[m],
             segments[l][i] = segments[m][j]
      PROVE  l = m /\ i = j
  <2>1. segments[l][i] \in Owned(l) /\ segments[m][j] \in Owned(m)
    BY DEF Owned, Range
  <2>2. l = m
    BY <1>1, <2>1 DEF OwnInv
  <2> QED
    BY <1>1, <2>2 DEF OwnInv, Distinct
<1>2. ASSUME NEW l \in List,
             NEW i \in DOMAIN segments[l], NEW j \in DOMAIN free_pages
      PROVE  segments[l][i] # free_pages[j]
  <2>1. segments[l][i] \in Owned(l) /\ free_pages[j] \in Range(free_pages)
    BY DEF Owned, Range
  <2> QED
    BY <2>1 DEF OwnInv
<1>3. \A i, j \in DOMAIN free_pages : free_pages[i] = free_pages[j] => i = j
  BY DEF OwnInv, Distinct
<1>4. mapped = Range(free_pages) \cup UNION {Range(segments[l]) : l \in List}
  BY DEF OwnInv, Owned
<1> QED
  BY <1>1, <1>2, <1>3, <1>4 DEF PagesOwnedOnce

(***************************************************************************)
(* A step that gives list l the pages s and the free list the pages f, and *)
(* that distributes no other pages than theirs and the new ones, keeps the *)
(* invariant.                                                              *)
(***************************************************************************)
LEMMA Redistribute ==
  ASSUME OwnInv, NEW l \in List,
         NEW s \in Seq(Page), NEW f \in Seq(Page), NEW new \in SUBSET Page,
         Distinct(s), Distinct(f), Range(s) \cap Range(f) = {},
         Range(s) \cup Range(f) = Owned(l) \cup Range(free_pages) \cup new,
         new \cap mapped = {},
         segments' = [segments EXCEPT ![l] = s],
         free_pages' = f,
         mapped' = mapped \cup new
  PROVE  OwnInv'
<1>1. /\ segments' \in [List -> Seq(Page)]
      /\ segments'[l] = s
      /\ \A m \in List \ {l} : segments'[m] = segments[m]
  BY DEF OwnInv
<1>2. Owned(l)' = Range(s) /\ \A m \in List \ {l} : Owned(m)' = Owned(m)
  BY <1>1 DEF Owned
<1>3. \A m \in List : Owned(m) \subseteq mapped
  BY DEF OwnInv
<1>4. \A m \in List \ {l} : Owned(m) \cap (Range(s) \cup Range(f)) = {}
  BY <1>3 DEF OwnInv
<1>5. \A m \in List : Distinct(segments[m])'
  BY <1>1 DEF OwnInv
<1>6. \A m \in List : Owned(m)' \cap Range(f) = {}
  BY <1>2, <1>4
<1>7. \A m, n \in List : m # n => Owned(m)' \cap Owned(n)' = {}
  <2> SUFFICES ASSUME NEW m \in List, NEW n \in List, m # n
               PROVE  Owned(m)' \cap Owned(n)' = {}
    OBVIOUS
  <2>1. CASE m = l
    BY <2>1, <1>2, <1>4
  <2>2. CASE n = l
    BY <2>2, <1>2, <1>4
  <2>3. CASE m # l /\ n # l
    BY <2>3, <1>2 DEF OwnInv
  <2> QED
    BY <2>1, <2>2, <2>3
<1>8. mapped' = Range(f) \cup UNION {Owned(m)' : m \in List}
  <2>1. UNION {Owned(m)' : m \in List}
          = Range(s) \cup UNION {Owned(m) : m \in List \ {l}}
    BY <1>2
  <2>2. UNION {Owned(m) : m \in List}
          = Owned(l) \cup UNION {Owned(m) : m \in List \ {l}}
    OBVIOUS
  <2> QED
    BY <2>1, <2>2 DEF OwnInv
<1>9. mapped' \in SUBSET Page
  BY DEF OwnInv
<1> QED
  BY <1>1, <1>5, <1>6, <1>7, <1>8, <1>9 DEF OwnInv, Distinct

(* A page that allocatePage returns is no list's, nor free any more. *)
LEMMA AllocateFacts ==
  ASSUME OwnInv, NEW p \in Page, AllocatePage(p)
  PROVE  \E new \in SUBSET Page :
           /\ free_pages' \in Seq(Page)
           /\ Distinct(free_pages')
           /\ new \cap mapped = {}
           /\ mapped' = mapped \cup new
           /\ p \notin Range(free_pages')
           /\ \A m \in List : p \notin Owned(m)
           /\ Range(free_pages') \cup {p} = Range(free_pages) \cup new
           /\ \A m \in List : Owned(m) \cap Range(free_pages') = {}
<1>1. CASE /\ free_pages # <<>> /\ p = Head(free_pages)
           /\ free_pages' = Tail(free_pages) /\ mapped' = mapped
  <2>1. /\ Tail(free_pages) \in Seq(Page)
        /\ p \in Range(free_pages)
        /\ Range(free_pages) = Range(Tail(free_pages)) \cup {p}
    BY <1>1, PopFrontFacts DEF OwnInv
  <2>2. Distinct(Tail(free_pages)) /\ p \notin Range(Tail(free_pages))
    BY <1>1, PopFrontDistinct DEF OwnInv
  <2> WITNESS {} \in SUBSET Page
  <2> QED
    BY <1>1, <2>1, <2>2 DEF OwnInv
<1>2. CASE /\ free_pages = <<>> /\ p \in Page \ mapped
           /\ mapped' = mapped \cup {p} /\ free_pages' = free_pages
  <2>1. /\ \A m \in List : p \notin Owned(m)
        /\ p \notin Range(free_pages)
    BY <1>2 DEF OwnInv
  <2> WITNESS {p} \in SUBSET Page
  <2> QED
    BY <1>2, <2>1 DEF OwnInv
<1> QED
  BY <1>1, <1>2 DEF AllocatePage

(* What freePage leaves on the free list. *)
LEMMA FreeFacts ==
  ASSUME OwnInv, NEW l \in List, NEW s \in Seq(Page), Distinct(s),
         Range(s) \subseteq Owned(l), FreePages(s)
  PROVE  /\ free_pages' \in Seq(Page)
         /\ Distinct(free_pages')
         /\ Range(free_pages') = Range(s) \cup Range(free_pages)
         /\ mapped' = mapped
<1>1. /\ Reversed(s) \in Seq(Page) /\ Distinct(Reversed(s))
      /\ Range(Reversed(s)) = Range(s)
  BY ReversedFacts
<1>2. Range(Reversed(s)) \cap Range(free_pages) = {}
  BY <1>1 DEF OwnInv
<1>3. /\ Reversed(s) \o free_pages \in Seq(Page)
      /\ Distinct(Reversed(s) \o free_pages)
      /\ Range(Reversed(s) \o free_pages) = Range(s) \cup Range(free_pages)
  BY <1>1, <1>2, ConcatDistinct DEF OwnInv
<1>4. free_pages' = Reversed(s) \o free_pages /\ mapped' = mapped
  BY DEF FreePages, Reversed
<1> QED
  BY <1>3, <1>4

(* A list of one page. *)
LEMMA SingleFacts ==
  ASSUME NEW p \in Page
  PROVE  <<p>> \in Seq(Page) /\ Distinct(<<p>>) /\ Range(<<p>>) = {p}
BY DEF Distinct, Range

-----------------------------------------------------------------------------
(* Each operation of a list keeps every page with one owner. *)
LEMMA OwnInvStep == OwnInv /\ [ListNext]_allListVars => OwnInv'
<1> SUFFICES ASSUME OwnInv, [ListNext]_allListVars
             PROVE  OwnInv'
  OBVIOUS
<1>1. ASSUME NEW l \in List, initialize(l)
      PROVE  OwnInv'
  <2>1. PICK p \in Page :
          AllocatePage(p) /\ segments' = [segments EXCEPT ![l] = <<p>>]
    BY <1>1 DEF initialize
  <2>2. PICK new \in SUBSET Page :
          /\ free_pages' \in Seq(Page) /\ Distinct(free_pages')
          /\ new \cap mapped = {} /\ mapped' = mapped \cup new
          /\ p \notin Range(free_pages')
          /\ Range(free_pages') \cup {p} = Range(free_pages) \cup new
    BY <2>1, AllocateFacts
  <2>3. Owned(l) = {}
    BY <1>1 DEF initialize, InUse, Owned, Range
  <2>4. <<p>> \in Seq(Page) /\ Distinct(<<p>>) /\ Range(<<p>>) = {p}
    BY SingleFacts
  <2>5. /\ Range(<<p>>) \cap Range(free_pages') = {}
        /\ Range(<<p>>) \cup Range(free_pages')
             = Owned(l) \cup Range(free_pages) \cup new
    BY <2>2, <2>3, <2>4
  <2> QED
    BY <2>1, <2>2, <2>4, <2>5, Redistribute
<1>2. ASSUME NEW l \in List, clear(l)
      PROVE  OwnInv'
  <2>1. segments[l] \in Seq(Page) /\ Distinct(segments[l])
    BY DEF OwnInv
  <2>2. FreePages(segments[l]) /\ segments' = [segments EXCEPT ![l] = <<>>]
    BY <1>2 DEF clear
  <2>3. /\ free_pages' \in Seq(Page) /\ Distinct(free_pages')
        /\ Range(free_pages') = Owned(l) \cup Range(free_pages)
        /\ mapped' = mapped \cup {}
    BY <2>1, <2>2, FreeFacts DEF Owned
  <2>4. <<>> \in Seq(Page) /\ Distinct(<<>>) /\ Range(<<>>) = {}
    BY DEF Distinct, Range
  <2> QED
    BY <2>2, <2>3, <2>4, Redistribute
<1>3. ASSUME NEW l \in List, NEW v \in Value, PushBackSlow(l, v)
      PROVE  OwnInv'
  <2>1. PICK p \in Page :
          /\ AllocatePage(p)
          /\ segments' = [segments EXCEPT ![l] = Append(segments[l], p)]
    BY <1>3 DEF PushBackSlow
  <2>2. PICK new \in SUBSET Page :
          /\ free_pages' \in Seq(Page) /\ Distinct(free_pages')
          /\ new \cap mapped = {} /\ mapped' = mapped \cup new
          /\ p \notin Range(free_pages') /\ p \notin Owned(l)
          /\ Range(free_pages') \cup {p} = Range(free_pages) \cup new
          /\ Owned(l) \cap Range(free_pages') = {}
    BY <2>1, AllocateFacts
  <2>3. segments[l] \in Seq(Page) /\ Distinct(segments[l])
    BY DEF OwnInv
  <2>4. /\ Append(segments[l], p) \in Seq(Page)
        /\ Range(Append(segments[l], p)) = Owned(l) \cup {p}
    BY <2>3, AppendFacts DEF Owned
  <2>5. Distinct(Append(segments[l], p))
    BY <2>2, <2>3, AppendDistinct DEF Owned
  <2> DEFINE longer == Append(segments[l], p)
  <2>6. /\ Range(longer) \cap Range(free_pages') = {}
        /\ Range(longer) \cup Range(free_pages')
             = Owned(l) \cup Range(free_pages) \cup new
    BY <2>2, <2>4
  <2> QED
    BY <2>1, <2>2, <2>4, <2>5, <2>6, Redistribute
<1>4. ASSUME NEW l \in List, PopFrontSlow(l)
      PROVE  OwnInv'
  <2>1. /\ segments[l] # <<>>
        /\ segments' = [segments EXCEPT ![l] = Tail(segments[l])]
        /\ FreePages(<<Head(segments[l])>>)
    BY <1>4 DEF PopFrontSlow, InUse, HeadSegment
  <2>2. segments[l] \in Seq(Page) /\ Distinct(segments[l])
    BY DEF OwnInv
  <2>3. /\ Tail(segments[l]) \in Seq(Page) /\ Head(segments[l]) \in Page
        /\ Owned(l) = Range(Tail(segments[l])) \cup {Head(segments[l])}
    BY <2>1, <2>2, PopFrontFacts DEF Owned
  <2>4. /\ Distinct(Tail(segments[l]))
        /\ Head(segments[l]) \notin Range(Tail(segments[l]))
    BY <2>1, <2>2, PopFrontDistinct
  <2>5. /\ <<Head(segments[l])>> \in Seq(Page)
        /\ Distinct(<<Head(segments[l])>>)
        /\ Range(<<Head(segments[l])>>) = {Head(segments[l])}
    BY <2>3, SingleFacts
  <2>6. /\ free_pages' \in Seq(Page) /\ Distinct(free_pages')
        /\ Range(free_pages') = {Head(segments[l])} \cup Range(free_pages)
        /\ mapped' = mapped \cup {}
    BY <2>1, <2>3, <2>5, FreeFacts
  <2>7. Range(Tail(segments[l])) \cap Range(free_pages') = {}
    BY <2>3, <2>4, <2>6 DEF OwnInv
  <2> QED
    BY <2>1, <2>3, <2>4, <2>6, <2>7, Redistribute
<1>5. ASSUME NEW l \in List, PopBackSlow(l)
      PROVE  OwnInv'
  <2> DEFINE last  == segments[l][Len(segments[l])]
             front == SubSeq(segments[l], 1, Len(segments[l]) - 1)
  <2>1. /\ segments[l] # <<>>
        /\ segments' = [segments EXCEPT ![l] = front]
        /\ FreePages(<<last>>)
    BY <1>5 DEF PopBackSlow, InUse, TailSegment
  <2>2. segments[l] \in Seq(Page) /\ Distinct(segments[l])
    BY DEF OwnInv
  <2>3. /\ front \in Seq(Page) /\ last \in Page /\ Distinct(front)
        /\ last \notin Range(front)
        /\ Owned(l) = Range(front) \cup {last}
    BY <2>1, <2>2, FrontDistinct DEF Owned
  <2> HIDE DEF last, front
  <2>4. <<last>> \in Seq(Page) /\ Distinct(<<last>>) /\ Range(<<last>>) = {last}
    BY <2>3, SingleFacts
  <2>5. /\ free_pages' \in Seq(Page) /\ Distinct(free_pages')
        /\ Range(free_pages') = {last} \cup Range(free_pages)
        /\ mapped' = mapped \cup {}
    BY <2>1, <2>3, <2>4, FreeFacts
  <2>6. Range(front) \cap Range(free_pages') = {}
    BY <2>3, <2>5 DEF OwnInv
  <2> QED
    BY <2>1, <2>3, <2>5, <2>6, Redistribute
<1>6. ASSUME UNCHANGED <<pageVars, segments>>
      PROVE  OwnInv'
  BY <1>6 DEF OwnInv, Owned, Distinct, pageVars
<1>7. ASSUME NEW l \in List, NEW v \in Value, PushBackFast(l, v)
      PROVE  OwnInv'
  BY <1>6, <1>7 DEF PushBackFast
<1>8. ASSUME NEW l \in List, PopFrontFast(l) \/ PopBackFast(l)
      PROVE  OwnInv'
  BY <1>6, <1>8 DEF PopFrontFast, PopBackFast
<1>9. CASE UNCHANGED allListVars
  BY <1>6, <1>9 DEF allListVars, listVars
<1>10. ASSUME NEW l \in List, Operate(l)
       PROVE  OwnInv'
  BY <1>10, <1>1, <1>2, <1>3, <1>7 DEF Operate
<1>11. ASSUME NEW l \in List, PopFront(l) \/ PopBack(l)
       PROVE  OwnInv'
  BY <1>11, <1>4, <1>5, <1>8 DEF PopFront, PopBack
<1> QED
  BY <1>9, <1>10, <1>11, ListAssumption DEF ListNext

(* Before any list is in use no page is mapped. *)
LEMMA OwnInvInit == ListInit => OwnInv
<1> SUFFICES ASSUME ListInit PROVE OwnInv
  OBVIOUS
<1>1. <<>> \in Seq(Page) /\ Distinct(<<>>) /\ Range(<<>>) = {}
  BY DEF Distinct, Range
<1>2. /\ segments = [l \in List |-> <<>>] /\ free_pages = <<>> /\ mapped = {}
  BY DEF ListInit, PagesInit
<1>3. \A l \in List : segments[l] = <<>> /\ Owned(l) = {}
  BY <1>1, <1>2 DEF Owned
<1> QED
  BY <1>1, <1>2, <1>3 DEF OwnInv

(***************************************************************************)
(* Whatever sequence of operations the lists see, each mapped page is in   *)
(* one segment of one list or once on the free list (allocatePage,         *)
(* freePage and their callers in arraylist.h).                             *)
(***************************************************************************)
THEOREM PagesHaveOneOwner == ListSpec => []PagesOwnedOnce
<1>1. ListSpec => []OwnInv
  BY OwnInvInit, OwnInvStep, PTL DEF ListSpec
<1> QED
  BY <1>1, OwnInvSuffices, PTL

-----------------------------------------------------------------------------
(***************************************************************************)
(* Offsets.  The equality tests with tail_max and head_max are safe if the *)
(* elements fill a segment to its last word: then every offset is a        *)
(* multiple of the element size, and so is the segment's end.              *)
(***************************************************************************)
Aligned(l, w) == \E k \in Nat : w = k * ElemWords[l]

OffsetInv ==
  /\ segments \in [List -> Seq(Page)]
  /\ head \in [List -> Nat]
  /\ tail \in [List -> Nat]
  /\ \A l \in List : Aligned(l, head[l]) /\ Aligned(l, tail[l])
  /\ ListsSound

(* A multiple of e below another one is below it by at least e. *)
LEMMA NextMultiple ==
  ASSUME NEW e \in Nat \ {0}, NEW i \in Nat, NEW j \in Nat, i * e < j * e
  PROVE  i * e + e <= j * e
<1>1. i < j
  <2> SUFFICES ASSUME i >= j PROVE FALSE
    OBVIOUS
  <2>1. PICK d \in Nat : i = j + d
    <3>1. i - j \in Nat /\ i = j + (i - j)
      OBVIOUS
    <3> QED
      BY <3>1
  <2>2. i * e = j * e + d * e /\ d * e \in Nat /\ j * e \in Nat
    BY <2>1
  <2> QED
    BY <2>2
<1>2. PICK d \in Nat : j = i + 1 + d
  <2>1. j - (i + 1) \in Nat /\ j = i + 1 + (j - (i + 1))
    BY <1>1
  <2> QED
    BY <2>1
<1>3. j * e = i * e + e + d * e /\ d * e \in Nat /\ i * e \in Nat
  BY <1>2
<1> QED
  BY <1>3

(* An aligned offset below another leaves room for an element. *)
LEMMA RoomForOne ==
  ASSUME NEW l \in List, NEW v \in Nat, NEW w \in Nat,
         Aligned(l, v), Aligned(l, w), v < w
  PROVE  v + ElemWords[l] <= w
<1>1. ElemWords[l] \in Nat \ {0}
  BY ListAssumption
<1>2. PICK i \in Nat, j \in Nat : v = i * ElemWords[l] /\ w = j * ElemWords[l]
  BY DEF Aligned
<1> QED
  BY <1>1, <1>2, NextMultiple

(* Steps by one element keep an offset aligned. *)
LEMMA AlignedSteps ==
  ASSUME NEW l \in List
  PROVE  /\ Aligned(l, 0)
         /\ Aligned(l, ElemWords[l])
         /\ \A w \in Nat : Aligned(l, w) => Aligned(l, w + ElemWords[l])
         /\ \A w \in Nat : Aligned(l, w) /\ w # 0
              => w - ElemWords[l] \in Nat /\ Aligned(l, w - ElemWords[l])
<1> DEFINE e == ElemWords[l]
<1>1. e \in Nat \ {0}
  BY ListAssumption
<1> HIDE DEF e
<1>2. 0 = 0 * e /\ e = 1 * e
  BY <1>1
<1>3. ASSUME NEW k \in Nat
      PROVE  k * e + e = (k + 1) * e /\ (k # 0 => k - 1 \in Nat /\ k * e - e = (k - 1) * e)
  BY <1>1
<1>4. ASSUME NEW k \in Nat PROVE k * e \in Nat
  BY <1>1
<1>5. Aligned(l, 0) /\ Aligned(l, e)
  BY <1>2 DEF Aligned, e
<1>6. ASSUME NEW w \in Nat, Aligned(l, w)
      PROVE  /\ Aligned(l, w + e)
             /\ w # 0 => w - e \in Nat /\ Aligned(l, w - e)
  <2>1. PICK k \in Nat : w = k * e
    BY <1>6 DEF Aligned, e
  <2>2. k + 1 \in Nat /\ w + e = (k + 1) * e
    BY <2>1, <1>3
  <2>3. ASSUME w # 0
        PROVE  k - 1 \in Nat /\ w - e = (k - 1) * e /\ w - e \in Nat
    <3>1. k # 0
      BY <2>1, <2>3, <1>2
    <3> QED
      BY <3>1, <2>1, <1>3, <1>4
  <2> QED
    BY <2>2, <2>3 DEF Aligned, e
<1> QED
  BY <1>5, <1>6 DEF e

(* What a list's segments and offsets have to satisfy. *)
Fits(l, s, h, t) ==
  /\ s \in Seq(Page) /\ h \in Nat /\ t \in Nat
  /\ Aligned(l, h) /\ Aligned(l, t)
  /\ s # <<>> => /\ h < DataWords
                 /\ t <= DataWords
                 /\ Len(s) = 1 => h <= t
  /\ s = <<>> => h = 0 /\ t = 0

(* A step that gives list l segments and offsets that fit keeps the        *)
(* invariant.                                                              *)
LEMMA ChangeOne ==
  ASSUME OffsetInv, NEW l \in List, NEW s, NEW h, NEW t, Fits(l, s, h, t),
         segments' = [segments EXCEPT ![l] = s],
         head' = [head EXCEPT ![l] = h],
         tail' = [tail EXCEPT ![l] = t]
  PROVE  OffsetInv'
<1>1. /\ segments' \in [List -> Seq(Page)]
      /\ head' \in [List -> Nat] /\ tail' \in [List -> Nat]
  BY DEF OffsetInv, Fits
<1>2. segments'[l] = s /\ head'[l] = h /\ tail'[l] = t
  BY DEF OffsetInv
<1>3. \A m \in List \ {l} :
        segments'[m] = segments[m] /\ head'[m] = head[m] /\ tail'[m] = tail[m]
  BY DEF OffsetInv
<1>4. \A m \in List : Aligned(m, head'[m]) /\ Aligned(m, tail'[m])
  BY <1>2, <1>3 DEF OffsetInv, Fits
<1>5. ASSUME NEW m \in List PROVE Invariant(m)'
  <2>1. CASE m = l
    BY <2>1, <1>2 DEF Invariant, InUse, Fits
  <2>2. CASE m # l
    BY <2>2, <1>3 DEF Invariant, InUse, OffsetInv, ListsSound
  <2> QED
    BY <2>1, <2>2
<1> QED
  BY <1>1, <1>4, <1>5 DEF OffsetInv, ListsSound, Aligned

(* What the invariant says of one list in use, with the sizes it is about. *)
LEMMA InUseFacts ==
  ASSUME OffsetInv, NEW l \in List, InUse(l), Aligned(l, DataWords)
  PROVE  /\ segments[l] \in Seq(Page) /\ Len(segments[l]) \in Nat \ {0}
         /\ head[l] \in Nat /\ tail[l] \in Nat /\ DataWords \in Nat \ {0}
         /\ ElemWords[l] \in Nat \ {0} /\ ElemWords[l] <= DataWords
         /\ Aligned(l, head[l]) /\ Aligned(l, tail[l])
         /\ head[l] < DataWords /\ tail[l] <= DataWords
         /\ Len(segments[l]) = 1 => head[l] <= tail[l]
         /\ head[l] + ElemWords[l] <= DataWords
<1>1. segments[l] \in Seq(Page) /\ segments[l] # <<>>
  BY DEF OffsetInv, InUse
<1>2. Len(segments[l]) \in Nat \ {0}
  BY <1>1, EmptySeq
<1>3. /\ head[l] \in Nat /\ tail[l] \in Nat /\ DataWords \in Nat \ {0}
      /\ ElemWords[l] \in Nat \ {0} /\ ElemWords[l] <= DataWords
  BY ListAssumption DEF OffsetInv
<1>4. /\ head[l] < DataWords /\ tail[l] <= DataWords
      /\ Len(segments[l]) = 1 => head[l] <= tail[l]
  BY DEF OffsetInv, ListsSound, Invariant
<1>5. Aligned(l, head[l]) /\ Aligned(l, tail[l])
  BY DEF OffsetInv
<1>6. head[l] + ElemWords[l] <= DataWords
  BY <1>3, <1>4, <1>5, RoomForOne
<1> QED
  BY <1>1, <1>2, <1>3, <1>4, <1>5, <1>6

(* Each operation keeps offsets aligned and within their segments. *)
LEMMA OffsetInvStep ==
  ASSUME OffsetInv, [CarefulNext]_allListVars,
         \A l \in List : Aligned(l, DataWords)
  PROVE  OffsetInv'
<1>1. ASSUME NEW l \in List, initialize(l)
      PROVE  OffsetInv'
  <2>1. PICK p \in Page : segments' = [segments EXCEPT ![l] = <<p>>]
    BY <1>1 DEF initialize
  <2>2. Fits(l, <<p>>, 0, 0)
    BY AlignedSteps, ListAssumption DEF Fits
  <2> QED
    BY <1>1, <2>1, <2>2, ChangeOne DEF initialize
<1>2. ASSUME NEW l \in List, clear(l)
      PROVE  OffsetInv'
  <2>1. Fits(l, <<>>, 0, 0)
    BY AlignedSteps, EmptySeq DEF Fits
  <2> QED
    BY <1>2, <2>1, ChangeOne DEF clear
<1>3. ASSUME NEW l \in List, NEW v \in Value, PushBackFast(l, v)
      PROVE  OffsetInv'
  <2>1. InUse(l) /\ tail[l] # DataWords
    BY <1>3 DEF PushBackFast, TailAtMax
  <2>2. tail[l] + ElemWords[l] <= DataWords
    BY <2>1, InUseFacts, RoomForOne
  <2>3. Aligned(l, tail[l] + ElemWords[l])
    BY <2>1, InUseFacts, AlignedSteps
  <2>4. Fits(l, segments[l], head[l], tail[l] + ElemWords[l])
    BY <2>1, <2>2, <2>3, InUseFacts DEF Fits, InUse
  <2>5. /\ segments' = [segments EXCEPT ![l] = segments[l]]
        /\ head' = [head EXCEPT ![l] = head[l]]
        /\ tail' = [tail EXCEPT ![l] = tail[l] + ElemWords[l]]
    BY <1>3 DEF PushBackFast, OffsetInv
  <2> QED
    BY <2>4, <2>5, ChangeOne
<1>4. ASSUME NEW l \in List, NEW v \in Value, PushBackSlow(l, v)
      PROVE  OffsetInv'
  <2>1. PICK p \in Page : segments' = [segments EXCEPT ![l] = Append(segments[l], p)]
    BY <1>4 DEF PushBackSlow
  <2>2. InUse(l)
    BY <1>4 DEF PushBackSlow
  <2>3. /\ Append(segments[l], p) \in Seq(Page)
        /\ Append(segments[l], p) # <<>>
        /\ Len(Append(segments[l], p)) = Len(segments[l]) + 1
    BY <2>2, InUseFacts, AppendProperties
  <2>4. Fits(l, Append(segments[l], p), head[l], ElemWords[l])
    BY <2>2, <2>3, InUseFacts, AlignedSteps DEF Fits
  <2>5. /\ head' = [head EXCEPT ![l] = head[l]]
        /\ tail' = [tail EXCEPT ![l] = ElemWords[l]]
    BY <1>4 DEF PushBackSlow, OffsetInv
  <2> QED
    BY <2>1, <2>4, <2>5, ChangeOne
<1>5. ASSUME NEW l \in List, PopFrontFast(l)
      PROVE  OffsetInv'
  <2>1. /\ InUse(l) /\ ~isEmpty(l)
        /\ head[l] + ElemWords[l] # DataWords
    BY <1>5 DEF PopFrontFast, LastOfSegment
  <2>2. Len(segments[l]) = 1 => head[l] + ElemWords[l] <= tail[l]
    BY <2>1, InUseFacts, RoomForOne DEF isEmpty
  <2>3. Aligned(l, head[l] + ElemWords[l])
    BY <2>1, InUseFacts, AlignedSteps
  <2>4. Fits(l, segments[l], head[l] + ElemWords[l], tail[l])
    BY <2>1, <2>2, <2>3, InUseFacts DEF Fits, InUse
  <2>5. /\ segments' = [segments EXCEPT ![l] = segments[l]]
        /\ head' = [head EXCEPT ![l] = head[l] + ElemWords[l]]
        /\ tail' = [tail EXCEPT ![l] = tail[l]]
    BY <1>5 DEF PopFrontFast, OffsetInv
  <2> QED
    BY <2>4, <2>5, ChangeOne
<1>6. ASSUME NEW l \in List, PopFrontSlow(l), ~EmptiesFullSegment(l)
      PROVE  OffsetInv'
  <2>1. InUse(l) /\ Len(segments[l]) # 1
    BY <1>6 DEF PopFrontSlow, EmptiesFullSegment
  <2>2. /\ Tail(segments[l]) \in Seq(Page)
        /\ Len(Tail(segments[l])) = Len(segments[l]) - 1
    BY <2>1, InUseFacts, HeadTailProperties DEF InUse
  <2>3. Tail(segments[l]) # <<>>
    <3>1. Len(Tail(segments[l])) # 0
      BY <2>1, <2>2, InUseFacts
    <3> QED
      BY <3>1, EmptySeq
  <2>4. Fits(l, Tail(segments[l]), 0, tail[l])
    BY <2>1, <2>2, <2>3, InUseFacts, AlignedSteps DEF Fits
  <2>5. /\ segments' = [segments EXCEPT ![l] = Tail(segments[l])]
        /\ head' = [head EXCEPT ![l] = 0]
        /\ tail' = [tail EXCEPT ![l] = tail[l]]
    BY <1>6 DEF PopFrontSlow, OffsetInv
  <2> QED
    BY <2>4, <2>5, ChangeOne
<1>7. ASSUME NEW l \in List, PopBackFast(l)
      PROVE  OffsetInv'
  <2>1. InUse(l) /\ ~isEmpty(l) /\ tail[l] # 0
    BY <1>7 DEF PopBackFast
  <2>2. /\ tail[l] - ElemWords[l] \in Nat
        /\ Aligned(l, tail[l] - ElemWords[l])
    BY <2>1, InUseFacts, AlignedSteps
  <2>3. Len(segments[l]) = 1 => head[l] + ElemWords[l] <= tail[l]
    BY <2>1, InUseFacts, RoomForOne DEF isEmpty
  <2>4. Fits(l, segments[l], head[l], tail[l] - ElemWords[l])
    BY <2>1, <2>2, <2>3, InUseFacts DEF Fits, InUse
  <2>5. /\ segments' = [segments EXCEPT ![l] = segments[l]]
        /\ head' = [head EXCEPT ![l] = head[l]]
        /\ tail' = [tail EXCEPT ![l] = tail[l] - ElemWords[l]]
    BY <1>7 DEF PopBackFast, OffsetInv
  <2> QED
    BY <2>4, <2>5, ChangeOne
<1>8. ASSUME NEW l \in List, PopBackSlow(l)
      PROVE  OffsetInv'
  <2> DEFINE front == SubSeq(segments[l], 1, Len(segments[l]) - 1)
  <2>1. InUse(l) /\ ~isEmpty(l) /\ tail[l] = 0
    BY <1>8 DEF PopBackSlow
  <2>2. Len(segments[l]) # 1
    BY <2>1, InUseFacts DEF isEmpty
  <2>3. \A i \in 1..(Len(segments[l]) - 1) : segments[l][i] \in Page
    BY <2>1, InUseFacts, ElementOfSeq
  <2>4. front \in Seq(Page) /\ Len(front) = Len(segments[l]) - 1
    BY <2>1, <2>2, <2>3, InUseFacts, SubSeqProperties
  <2>5. front # <<>>
    <3>1. Len(segments[l]) - 1 # 0
      BY <2>1, <2>2, InUseFacts
    <3> HIDE DEF front
    <3>2. Len(front) # 0
      BY <3>1, <2>4
    <3> QED
      BY <3>2, EmptySeq
  <2>6. /\ DataWords - ElemWords[l] \in Nat
        /\ Aligned(l, DataWords - ElemWords[l])
    BY <2>1, InUseFacts, AlignedSteps
  <2>7. segments' = [segments EXCEPT ![l] = front]
    BY <1>8 DEF PopBackSlow
  <2> HIDE DEF front
  <2>8. Fits(l, front, head[l], DataWords - ElemWords[l])
    BY <2>1, <2>4, <2>5, <2>6, InUseFacts DEF Fits
  <2>9. /\ head' = [head EXCEPT ![l] = head[l]]
        /\ tail' = [tail EXCEPT ![l] = DataWords - ElemWords[l]]
    BY <1>8 DEF PopBackSlow, OffsetInv
  <2> QED
    BY <2>7, <2>8, <2>9, ChangeOne
<1>9. CASE UNCHANGED allListVars
  BY <1>9 DEF allListVars, listVars, OffsetInv, ListsSound, Invariant, InUse, Aligned
<1>10. ASSUME NEW l \in List, Operate(l)
       PROVE  OffsetInv'
  BY <1>10, <1>1, <1>2, <1>3, <1>4 DEF Operate
<1>11. ASSUME NEW l \in List, ~EmptiesFullSegment(l), PopFront(l)
       PROVE  OffsetInv'
  BY <1>11, <1>5, <1>6 DEF PopFront
<1>12. ASSUME NEW l \in List, PopBack(l)
       PROVE  OffsetInv'
  BY <1>12, <1>7, <1>8 DEF PopBack
<1> QED
  BY <1>9, <1>10, <1>11, <1>12, ListAssumption DEF CarefulNext

(* A list that is not in use has both offsets at zero. *)
LEMMA OffsetInvInit == ListInit => OffsetInv
<1> SUFFICES ASSUME ListInit PROVE OffsetInv
  OBVIOUS
<1>1. /\ segments = [l \in List |-> <<>>]
      /\ head = [l \in List |-> 0]
      /\ tail = [l \in List |-> 0]
  BY DEF ListInit
<1>2. \A l \in List : Aligned(l, head[l]) /\ Aligned(l, tail[l])
  BY <1>1, AlignedSteps
<1> QED
  BY <1>1, <1>2, EmptySeq DEF OffsetInv, ListsSound, Invariant, InUse

(***************************************************************************)
(* If the elements of every list fill a segment to its last word, and no   *)
(* pop_front empties a full only segment, the lists keep their invariant   *)
(* (arraylist.h:84).  The first condition is true if List is the three     *)
(* lists of pointers; visit_stack does not satisfy it, and                 *)
(* ArrayListOverrun.cfg shows what happens then.                           *)
(***************************************************************************)
THEOREM AlignedListsSound ==
  ASSUME \A l \in List : Aligned(l, DataWords)
  PROVE  CarefulSpec => []ListsSound
<1>1. OffsetInv /\ [CarefulNext]_allListVars => OffsetInv'
  BY OffsetInvStep
<1>2. OffsetInv => ListsSound
  BY DEF OffsetInv
<1> QED
  BY <1>1, <1>2, OffsetInvInit, PTL DEF CarefulSpec

-----------------------------------------------------------------------------
(***************************************************************************)
(* ArrayList implements Deques: under the two conditions of                *)
(* AlignedListsSound every step of a list is a step of the sequence that   *)
(* the words from head to tail spell out, or none.                         *)
(*                                                                         *)
(* The sequence is read through a division by the size of a segment, so    *)
(* the proof begins with where a word is (DivMod, Place, WordOf).          *)
(* PushSpelled, PopFrontSpelled and PopBackSpelled say which sequence is   *)
(* spelled out when the list spans one element more or less; the lemmas    *)
(* about words, that each operation keeps the words these need.  That no   *)
(* list's change does anything to another list is OwnInv (OneDeque).       *)
(***************************************************************************)

(* What head h, tail t and the segments s spell out in memory m, as          *)
(* elements of e words.                                                    *)
Span(s, h, t) == (Len(s) - 1) * DataWords + t - h

At(s, m, w) == m[s[(w \div DataWords) + 1]][w % DataWords]

Length(s, h, t, e) == Span(s, h, t) \div e

Spelled(s, h, t, m, e) ==
  [k \in 1..Length(s, h, t, e) |-> At(s, m, h + (k - 1) * e)]

Memory == [Page -> [Word -> Value \cup {NULL}]]

(* The memory of the pages and the results hold values. *)
MemInv ==
  /\ memory \in Memory
  /\ result \in [List -> Value \cup {NULL}]

RefInv == OwnInv /\ OffsetInv /\ MemInv

-----------------------------------------------------------------------------
(***************************************************************************)
(* Arithmetic.                                                             *)
(***************************************************************************)
(* A smaller number of things of size d takes at least d less.            *)
LEMMA MulOrder ==
  ASSUME NEW d \in Nat \ {0}, NEW a \in Int, NEW b \in Int, a < b
  PROVE  a * d + d <= b * d
<1>1. PICK x \in Nat : b = a + 1 + x
  <2>1. b - (a + 1) \in Nat /\ b = a + 1 + (b - (a + 1))
    OBVIOUS
  <2> QED
    BY <2>1
<1>2. b * d = a * d + d + x * d /\ x * d \in Nat /\ a * d \in Int
  BY <1>1
<1> QED
  BY <1>2

(* A word has one place in the segments. *)
LEMMA DivMod ==
  ASSUME NEW d \in Nat \ {0}, NEW q \in Nat, NEW r \in 0..(d - 1), NEW w \in Nat,
         w = q * d + r
  PROVE  w \div d = q /\ w % d = r
<1>1. /\ w \div d \in Int /\ w % d \in 0..(d - 1)
      /\ w = (w \div d) * d + (w % d)
  OBVIOUS
<1>2. ~(w \div d < q)
  <2> SUFFICES ASSUME w \div d < q PROVE FALSE
    OBVIOUS
  <2>1. (w \div d) * d + d <= q * d
    BY <1>1, MulOrder
  <2>2. (w \div d) * d \in Int /\ q * d \in Int
    BY <1>1
  <2> QED
    BY <1>1, <2>1, <2>2
<1>3. ~(q < w \div d)
  <2> SUFFICES ASSUME q < w \div d PROVE FALSE
    OBVIOUS
  <2>1. q * d + d <= (w \div d) * d
    BY <1>1, MulOrder
  <2>2. (w \div d) * d \in Int /\ q * d \in Int
    BY <1>1
  <2> QED
    BY <1>1, <2>1, <2>2
<1>4. w \div d = q
  BY <1>1, <1>2, <1>3
<1> QED
  BY <1>1, <1>4

(* Whole elements divide without a rest. *)
LEMMA DivExact ==
  ASSUME NEW e \in Nat \ {0}, NEW c \in Nat
  PROVE  (c * e) \div e = c
<1>1. c * e \in Nat /\ c * e = c * e + 0 /\ 0 \in 0..(e - 1)
  OBVIOUS
<1> QED
  BY <1>1, DivMod

(* Where the word before offset t of the n-th of some segments is.         *)
LEMMA Place ==
  ASSUME NEW d \in Nat \ {0}, NEW n \in Nat \ {0}, NEW t \in 0..d, NEW w \in Nat,
         w < (n - 1) * d + t
  PROVE  /\ w \div d \in 0..(n - 1) /\ w % d \in 0..(d - 1)
         /\ w = (w \div d) * d + (w % d)
         /\ w \div d = n - 1 => w % d < t
<1>1. /\ w \div d \in Int /\ w % d \in 0..(d - 1)
      /\ w = (w \div d) * d + (w % d)
  OBVIOUS
<1>2. w \div d >= 0
  <2> SUFFICES ASSUME w \div d < 0 PROVE FALSE
    BY <1>1
  <2>1. (w \div d) * d + d <= 0 * d
    BY <1>1, MulOrder
  <2>2. (w \div d) * d \in Int /\ 0 * d = 0
    BY <1>1
  <2> QED
    BY <1>1, <2>1, <2>2
<1>3. w \div d <= n - 1
  <2> SUFFICES ASSUME n - 1 < w \div d PROVE FALSE
    BY <1>1
  <2>1. (n - 1) * d + d <= (w \div d) * d
    BY <1>1, MulOrder
  <2>2. (w \div d) * d \in Int /\ (n - 1) * d \in Int
    BY <1>1
  <2> QED
    BY <1>1, <2>1, <2>2
<1>4. w \div d = n - 1 => w % d < t
  <2> SUFFICES ASSUME w \div d = n - 1 PROVE w % d < t
    OBVIOUS
  <2>1. w = (n - 1) * d + (w % d) /\ (n - 1) * d \in Int
    BY <1>1
  <2> QED
    BY <1>1, <2>1
<1> QED
  BY <1>1, <1>2, <1>3, <1>4

-----------------------------------------------------------------------------
(***************************************************************************)
(* The sequence of a list, for segments and offsets that fit.              *)
(***************************************************************************)
(* What a list spans is a whole number of elements. *)
LEMMA LengthFacts ==
  ASSUME NEW l \in List, Aligned(l, DataWords), NEW s, NEW h, NEW t,
         Fits(l, s, h, t), s # <<>>
  PROVE  /\ Length(s, h, t, ElemWords[l]) \in Nat
         /\ Span(s, h, t) = Length(s, h, t, ElemWords[l]) * ElemWords[l]
         /\ Len(s) = 1 /\ h = t <=> Length(s, h, t, ElemWords[l]) = 0
         /\ Len(s) \in Nat \ {0} /\ h \in 0..(DataWords - 1) /\ t \in 0..DataWords
         /\ (Len(s) - 1) * DataWords \in Nat
<1> DEFINE e == ElemWords[l]
           n == Len(s)
<1>1. e \in Nat \ {0} /\ DataWords \in Nat \ {0}
  BY ListAssumption
<1>2. n \in Nat \ {0} /\ h \in 0..(DataWords - 1) /\ t \in 0..DataWords
  BY <1>1, EmptySeq DEF Fits
<1>3. PICK x \in Nat, i \in Nat, j \in Nat : DataWords = x * e /\ h = i * e /\ t = j * e
  BY DEF Fits, Aligned
<1>4. n = 1 => h <= t
  BY DEF Fits
<1> HIDE DEF e, n
<1>5. (n - 1) * DataWords = ((n - 1) * x) * e
  BY <1>1, <1>2, <1>3
<1>6. PICK y \in Int : y = (n - 1) * x
  BY <1>2
<1>7. (n - 1) * DataWords + t - h = (y + j - i) * e
  <2>1. y * e = (n - 1) * DataWords
    BY <1>5, <1>6
  <2>2. (y + j - i) * e = y * e + j * e - i * e
    BY <1>1
  <2> QED
    BY <1>3, <2>1, <2>2
<1>8. PICK c \in Int : c = y + j - i
  OBVIOUS
<1>9. (n - 1) * DataWords + t - h = c * e
  BY <1>7, <1>8
<1>10. /\ (n - 1) * DataWords + t - h >= 0
       /\ n = 1 /\ h = t <=> (n - 1) * DataWords + t - h = 0
  <2>1. CASE n = 1
    <3>1. (n - 1) * DataWords = 0
      BY <1>1, <2>1
    <3> QED
      BY <1>2, <1>4, <2>1, <3>1
  <2>2. CASE n # 1
    <3>1. 0 * DataWords + DataWords <= (n - 1) * DataWords
      BY <1>1, <1>2, <2>2, MulOrder
    <3>2. (n - 1) * DataWords \in Int
      BY <1>1, <1>2
    <3> QED
      BY <1>1, <1>2, <2>2, <3>1, <3>2
  <2> QED
    BY <2>1, <2>2
<1>11. c \in Nat /\ (c = 0 <=> c * e = 0)
  <2>1. c < 0 => c * e + e <= 0 * e
    BY <1>1, MulOrder
  <2>2. 0 < c => 0 * e + e <= c * e
    BY <1>1, MulOrder
  <2>3. c * e \in Int /\ 0 * e = 0
    BY <1>1
  <2> QED
    BY <1>1, <1>9, <1>10, <2>1, <2>2, <2>3
<1>12. (c * e) \div e = c
  BY <1>1, <1>11, DivExact
<1>13. Span(s, h, t) = c * e /\ Length(s, h, t, ElemWords[l]) = c
  BY <1>9, <1>12 DEF Span, Length, n, e
<1>14. (n - 1) * DataWords \in Nat
  BY <1>1, <1>2
<1> QED
  BY <1>2, <1>9, <1>10, <1>11, <1>13, <1>14 DEF n, e

(* Where the words of the elements are. *)
LEMMA WordOf ==
  ASSUME NEW l \in List, Aligned(l, DataWords), NEW s, NEW h, NEW t,
         Fits(l, s, h, t), s # <<>>,
         NEW k \in 1..Length(s, h, t, ElemWords[l])
  PROVE  /\ h + (k - 1) * ElemWords[l] \in Nat
         /\ h + (k - 1) * ElemWords[l] + ElemWords[l] <= (Len(s) - 1) * DataWords + t
         /\ k = Length(s, h, t, ElemWords[l]) =>
              h + (k - 1) * ElemWords[l] + ElemWords[l] = (Len(s) - 1) * DataWords + t
<1> DEFINE e == ElemWords[l]
           c == Length(s, h, t, ElemWords[l])
<1>1. e \in Nat \ {0} /\ DataWords \in Nat \ {0}
  BY ListAssumption
<1>2. /\ c \in Nat /\ Span(s, h, t) = c * e
      /\ Len(s) \in Nat \ {0} /\ h \in 0..(DataWords - 1) /\ t \in 0..DataWords
  BY LengthFacts
<1>3. k \in 1..c
  OBVIOUS
<1> HIDE DEF e, c
<1>4. k - 1 < c /\ k - 1 \in Nat /\ k \in Nat
  BY <1>2, <1>3
<1>5. (k - 1) * e + e <= c * e
  BY <1>1, <1>2, <1>4, MulOrder
<1>6. k = c => (k - 1) * e + e = c * e
  BY <1>1, <1>4
<1>7. (k - 1) * e \in Nat /\ c * e \in Nat
  BY <1>1, <1>2, <1>4
<1>8. (Len(s) - 1) * DataWords \in Nat
  BY <1>1, <1>2
<1>9. (Len(s) - 1) * DataWords + t - h = c * e
  BY <1>2 DEF Span
<1>10. /\ h + (k - 1) * e \in Nat
       /\ h + (k - 1) * e + e <= (Len(s) - 1) * DataWords + t
       /\ k = c => h + (k - 1) * e + e = (Len(s) - 1) * DataWords + t
  <2>1. PICK u \in Nat, v \in Nat, z \in Nat :
          u = (k - 1) * e /\ v = c * e /\ z = (Len(s) - 1) * DataWords
    BY <1>7, <1>8
  <2>2. u + e <= v /\ (k = c => u + e = v) /\ z + t - h = v
    BY <1>5, <1>6, <1>9, <2>1
  <2>3. /\ h + u \in Nat /\ h + u + e <= z + t
        /\ k = c => h + u + e = z + t
    BY <1>1, <1>2, <2>2
  <2> QED
    BY <2>1, <2>3
<1> QED
  BY <1>10 DEF e, c

(* It is a sequence of as many values. *)
LEMMA SpelledFacts ==
  ASSUME NEW l \in List, Aligned(l, DataWords), NEW s, NEW h, NEW t,
         Fits(l, s, h, t), s # <<>>, NEW m \in Memory
  PROVE  LET seq == Spelled(s, h, t, m, ElemWords[l]) IN
         /\ seq \in Seq(Value \cup {NULL})
         /\ Len(seq) = Length(s, h, t, ElemWords[l])
         /\ \A k \in 1..Len(seq) : seq[k] = At(s, m, h + (k - 1) * ElemWords[l])
<1> DEFINE seq == Spelled(s, h, t, m, ElemWords[l])
           c == Length(s, h, t, ElemWords[l])
<1>1. c \in Nat /\ DataWords \in Nat \ {0} /\ ElemWords[l] \in Nat \ {0}
  BY LengthFacts, ListAssumption
<1>2. /\ Len(s) \in Nat \ {0} /\ t \in 0..DataWords /\ s \in Seq(Page)
  BY LengthFacts DEF Fits
<1>3. ASSUME NEW k \in 1..c
      PROVE  At(s, m, h + (k - 1) * ElemWords[l]) \in Value \cup {NULL}
  <2>1. PICK w \in Nat : w = h + (k - 1) * ElemWords[l] /\ w < (Len(s) - 1) * DataWords + t
    <3>1. (Len(s) - 1) * DataWords + t \in Int
      BY <1>1, <1>2
    <3> QED
      BY <1>1, <3>1, WordOf
  <2>2. w \div DataWords \in 0..(Len(s) - 1) /\ w % DataWords \in 0..(DataWords - 1)
    BY <1>1, <1>2, <2>1, Place
  <2>3. s[(w \div DataWords) + 1] \in Page
    BY <1>2, <2>2
  <2>4. At(s, m, w) \in Value \cup {NULL}
    BY <2>2, <2>3 DEF At, Memory, Word
  <2> QED
    BY <2>1, <2>4
<1>4. /\ seq \in [1..c -> Value \cup {NULL}]
      /\ \A k \in 1..c : seq[k] = At(s, m, h + (k - 1) * ElemWords[l])
  BY <1>3 DEF Spelled
<1> HIDE DEF seq, c
<1>5. seq \in Seq(Value \cup {NULL}) /\ Len(seq) = c
  BY <1>1, <1>4
<1> QED
  BY <1>4, <1>5 DEF seq, c

(* As many elements of one size as another span make the same number. *)
LEMMA SameCount ==
  ASSUME NEW e \in Nat \ {0}, NEW a \in Int, NEW b \in Int, a * e = b * e
  PROVE  a = b
<1>1. a * e \in Int /\ b * e \in Int
  OBVIOUS
<1>2. ~(a < b)
  <2>1. a < b => a * e + e <= b * e
    BY MulOrder
  <2> QED
    BY <1>1, <2>1
<1>3. ~(b < a)
  <2>1. b < a => b * e + e <= a * e
    BY MulOrder
  <2> QED
    BY <1>1, <2>1
<1> QED
  BY <1>2, <1>3

(***************************************************************************)
(* A list that spans one element more, and whose words up to the old end   *)
(* are the same, has one element more: the one at the old end.             *)
(***************************************************************************)
LEMMA PushSpelled ==
  ASSUME NEW l \in List, Aligned(l, DataWords),
         NEW s, NEW h, NEW t, Fits(l, s, h, t), s # <<>>, NEW m \in Memory,
         NEW s2, NEW t2, Fits(l, s2, h, t2), s2 # <<>>, NEW m2 \in Memory,
         Span(s2, h, t2) = Span(s, h, t) + ElemWords[l],
         \A w \in Nat : w < (Len(s) - 1) * DataWords + t => At(s2, m2, w) = At(s, m, w)
  PROVE  Spelled(s2, h, t2, m2, ElemWords[l])
           = Append(Spelled(s, h, t, m, ElemWords[l]),
                    At(s2, m2, (Len(s) - 1) * DataWords + t))
<1> DEFINE e == ElemWords[l]
           c == Length(s, h, t, e)
           d == Length(s2, h, t2, e)
           p == Spelled(s, h, t, m, e)
           q == Spelled(s2, h, t2, m2, e)
           S == Value \cup {NULL}
<1>1. e \in Nat \ {0} /\ DataWords \in Nat \ {0}
  BY ListAssumption
<1>2. /\ c \in Nat /\ Span(s, h, t) = c * e /\ d \in Nat /\ Span(s2, h, t2) = d * e
      /\ Len(s) \in Nat \ {0} /\ h \in Nat /\ t \in Nat
      /\ (Len(s) - 1) * DataWords \in Nat
  BY LengthFacts
<1>3. d = c + 1
  <2>1. d * e = c * e + e
    BY <1>2
  <2> HIDE DEF c, d, e
  <2>2. (c + 1) * e = c * e + e
    BY <1>1, <1>2
  <2> QED
    BY <1>1, <1>2, <2>1, <2>2, SameCount
<1>4. /\ p \in Seq(S) /\ Len(p) = c
      /\ \A k \in 1..c : p[k] = At(s, m, h + (k - 1) * e)
  BY SpelledFacts
<1>5. /\ q \in Seq(S) /\ Len(q) = d
      /\ \A k \in 1..d : q[k] = At(s2, m2, h + (k - 1) * e)
  BY SpelledFacts
<1>6. ASSUME NEW k \in 1..c PROVE q[k] = p[k]
  <2>1. PICK w : w = h + (k - 1) * e
    OBVIOUS
  <2>2. PICK z \in Nat : z = (Len(s) - 1) * DataWords
    BY <1>2
  <2>3. w \in Nat /\ w + e <= z + t
    BY <2>1, <2>2, WordOf
  <2>4. At(s2, m2, w) = At(s, m, w)
    BY <1>1, <1>2, <2>2, <2>3
  <2>5. k \in 1..d
    BY <1>2, <1>3
  <2> QED
    BY <1>4, <1>5, <2>1, <2>4, <2>5
<1>7. q[d] = At(s2, m2, (Len(s) - 1) * DataWords + t)
  <2>1. h + c * e = (Len(s) - 1) * DataWords + t
    <3>1. PICK z \in Nat : z = (Len(s) - 1) * DataWords
      BY <1>2
    <3>2. z + t - h = c * e
      BY <1>2, <3>1 DEF Span
    <3> HIDE DEF c, e
    <3> QED
      BY <1>2, <3>1, <3>2
  <2>2. d \in 1..d /\ d - 1 = c
    BY <1>2, <1>3
  <2> QED
    BY <1>5, <2>1, <2>2
<1> HIDE DEF p, q, S, c, d
<1>8. /\ Append(p, q[d]) \in Seq(S) /\ Len(Append(p, q[d])) = d
      /\ \A k \in 1..c : Append(p, q[d])[k] = p[k]
      /\ Append(p, q[d])[d] = q[d]
  <2>1. q[d] \in S
    BY <1>2, <1>3, <1>5, ElementOfSeq
  <2> QED
    BY <1>2, <1>3, <1>4, <2>1, AppendProperties
<1>9. \A k \in 1..d : q[k] = Append(p, q[d])[k]
  BY <1>2, <1>3, <1>6, <1>8
<1>10. q = Append(p, q[d])
  BY <1>5, <1>8, <1>9, SeqEqual
<1> QED
  BY <1>7, <1>10 DEF p, q, e

(***************************************************************************)
(* A list that spans one element less, and whose words from its head are   *)
(* those an element behind the old head, is the tail of the old one.       *)
(***************************************************************************)
LEMMA PopFrontSpelled ==
  ASSUME NEW l \in List, Aligned(l, DataWords), NEW m \in Memory,
         NEW s, NEW h, NEW t, Fits(l, s, h, t), s # <<>>,
         NEW s2, NEW h2, Fits(l, s2, h2, t), s2 # <<>>,
         Span(s2, h2, t) = Span(s, h, t) - ElemWords[l],
         \A w \in Nat : h + ElemWords[l] + w < (Len(s) - 1) * DataWords + t
            => At(s2, m, h2 + w) = At(s, m, h + ElemWords[l] + w)
  PROVE  LET old == Spelled(s, h, t, m, ElemWords[l]) IN
         /\ old \in Seq(Value \cup {NULL}) /\ old # <<>>
         /\ Spelled(s2, h2, t, m, ElemWords[l]) = Tail(old)
         /\ At(s, m, h) = Head(old)
<1> DEFINE e == ElemWords[l]
           c == Length(s, h, t, e)
           d == Length(s2, h2, t, e)
           p == Spelled(s, h, t, m, e)
           q == Spelled(s2, h2, t, m, e)
           S == Value \cup {NULL}
<1>1. e \in Nat \ {0} /\ DataWords \in Nat \ {0}
  BY ListAssumption
<1>2. /\ c \in Nat /\ Span(s, h, t) = c * e /\ d \in Nat /\ Span(s2, h2, t) = d * e
      /\ Len(s) \in Nat \ {0} /\ h \in Nat /\ t \in Nat /\ h2 \in Nat
      /\ (Len(s) - 1) * DataWords \in Nat
  BY LengthFacts
<1>3. c = d + 1
  <2>1. d * e = c * e - e
    BY <1>2
  <2> HIDE DEF c, d, e
  <2>2. (d + 1) * e = d * e + e /\ d * e \in Int /\ c * e \in Int
    BY <1>1, <1>2
  <2>3. (d + 1) * e = c * e
    BY <1>1, <2>1, <2>2
  <2> QED
    BY <1>1, <1>2, <2>3, SameCount
<1>4. /\ p \in Seq(S) /\ Len(p) = c
      /\ \A k \in 1..c : p[k] = At(s, m, h + (k - 1) * e)
  BY SpelledFacts
<1>5. /\ q \in Seq(S) /\ Len(q) = d
      /\ \A k \in 1..d : q[k] = At(s2, m, h2 + (k - 1) * e)
  BY SpelledFacts
<1>6. ASSUME NEW k \in 1..d PROVE q[k] = p[k + 1]
  <2>1. k + 1 \in 1..c /\ k - 1 \in Nat
    BY <1>2, <1>3
  <2>2. PICK w \in Nat : w = (k - 1) * e
    BY <1>1, <2>1
  <2>3. PICK z \in Nat : z = (Len(s) - 1) * DataWords
    BY <1>2
  <2>4. (k + 1 - 1) * e = e + w
    <3> HIDE DEF e
    <3> QED
      BY <1>1, <2>1, <2>2
  <2>5. h + (k + 1 - 1) * e + e <= (Len(s) - 1) * DataWords + t
    BY <2>1, WordOf
  <2>6. h + e + w < z + t
    <3> HIDE DEF e
    <3>1. h + (e + w) + e <= z + t
      BY <2>3, <2>4, <2>5
    <3> QED
      BY <1>1, <1>2, <3>1
  <2>7. At(s2, m, h2 + w) = At(s, m, h + e + w)
    BY <2>3, <2>6
  <2>8. h + (k + 1 - 1) * e = h + e + w
    <3> HIDE DEF e
    <3> QED
      BY <1>1, <1>2, <2>4
  <2>9. q[k] = At(s2, m, h2 + w)
    BY <1>5, <2>2
  <2>10. p[k + 1] = At(s, m, h + (k + 1 - 1) * e)
    BY <1>4, <2>1
  <2> QED
    BY <2>7, <2>8, <2>9, <2>10
<1>7. p[1] = At(s, m, h)
  <2>1. 1 \in 1..c /\ h + (1 - 1) * e = h
    BY <1>1, <1>2, <1>3
  <2> QED
    BY <1>4, <2>1
<1> HIDE DEF p, q, S, c, d
<1>8. p # <<>>
  BY <1>2, <1>3, <1>4, EmptySeq
<1>9. /\ Head(p) = p[1] /\ Tail(p) \in Seq(S) /\ Len(Tail(p)) = d
      /\ \A k \in 1..d : Tail(p)[k] = p[k + 1]
  BY <1>2, <1>3, <1>4, <1>8, HeadTailProperties
<1>10. q = Tail(p)
  BY <1>5, <1>6, <1>9, SeqEqual
<1> QED
  BY <1>4, <1>7, <1>8, <1>9, <1>10 DEF p, q, e, S

(***************************************************************************)
(* A list that spans one element less, and whose words from the same head  *)
(* are the same, is all but the last element of the old one.               *)
(***************************************************************************)
LEMMA PopBackSpelled ==
  ASSUME NEW l \in List, Aligned(l, DataWords), NEW m \in Memory,
         NEW s, NEW h, NEW t, Fits(l, s, h, t), s # <<>>,
         NEW s2, NEW t2, Fits(l, s2, h, t2), s2 # <<>>,
         Span(s2, h, t2) = Span(s, h, t) - ElemWords[l],
         \A w \in Nat : w + ElemWords[l] < (Len(s) - 1) * DataWords + t
            => At(s2, m, w) = At(s, m, w)
  PROVE  LET old == Spelled(s, h, t, m, ElemWords[l]) IN
         /\ old \in Seq(Value \cup {NULL}) /\ old # <<>>
         /\ Spelled(s2, h, t2, m, ElemWords[l]) = SubSeq(old, 1, Len(old) - 1)
         /\ At(s, m, (Len(s) - 1) * DataWords + (t - ElemWords[l])) = old[Len(old)]
<1> DEFINE e == ElemWords[l]
           c == Length(s, h, t, e)
           d == Length(s2, h, t2, e)
           p == Spelled(s, h, t, m, e)
           q == Spelled(s2, h, t2, m, e)
           S == Value \cup {NULL}
<1>1. e \in Nat \ {0} /\ DataWords \in Nat \ {0}
  BY ListAssumption
<1>2. /\ c \in Nat /\ Span(s, h, t) = c * e /\ d \in Nat /\ Span(s2, h, t2) = d * e
      /\ Len(s) \in Nat \ {0} /\ h \in Nat /\ t \in Nat
      /\ (Len(s) - 1) * DataWords \in Nat
  BY LengthFacts
<1>3. c = d + 1
  <2>1. d * e = c * e - e
    BY <1>2
  <2> HIDE DEF c, d, e
  <2>2. (d + 1) * e = d * e + e /\ d * e \in Int /\ c * e \in Int
    BY <1>1, <1>2
  <2>3. (d + 1) * e = c * e
    BY <1>1, <2>1, <2>2
  <2> QED
    BY <1>1, <1>2, <2>3, SameCount
<1>4. /\ p \in Seq(S) /\ Len(p) = c
      /\ \A k \in 1..c : p[k] = At(s, m, h + (k - 1) * e)
  BY SpelledFacts
<1>5. /\ q \in Seq(S) /\ Len(q) = d
      /\ \A k \in 1..d : q[k] = At(s2, m, h + (k - 1) * e)
  BY SpelledFacts
<1>6. PICK z \in Nat : z = (Len(s) - 1) * DataWords
  BY <1>2
<1>7. ASSUME NEW k \in 1..d PROVE q[k] = p[k]
  <2>1. k \in 1..c /\ k + 1 \in 1..c
    BY <1>2, <1>3
  <2>2. PICK w : w = h + (k - 1) * e
    OBVIOUS
  <2>3. w \in Nat /\ h + (k + 1 - 1) * e + e <= z + t
    BY <1>6, <2>1, <2>2, WordOf
  <2>4. w + e < z + t
    <3> HIDE DEF e
    <3>1. PICK x \in Nat : x = (k - 1) * e
      BY <1>1, <2>1
    <3>2. (k + 1 - 1) * e = x + e
      BY <1>1, <2>1, <3>1
    <3>3. h + (x + e) + e <= z + t /\ w = h + x
      BY <2>2, <2>3, <3>1, <3>2
    <3> QED
      BY <1>1, <1>2, <3>3
  <2>5. At(s2, m, w) = At(s, m, w)
    BY <1>6, <2>3, <2>4
  <2> QED
    BY <1>4, <1>5, <2>1, <2>2, <2>5
<1>8. p[c] = At(s, m, z + t - e)
  <2>1. c \in 1..c
    BY <1>2, <1>3
  <2>2. h + (c - 1) * e + e = z + t /\ h + (c - 1) * e \in Nat
    BY <1>6, <2>1, WordOf
  <2>3. PICK w \in Nat : w = h + (c - 1) * e
    BY <2>2
  <2>4. w = z + t - e
    <3>1. w + e = z + t
      BY <2>2, <2>3
    <3> HIDE DEF c, e
    <3> QED
      BY <1>1, <1>2, <3>1
  <2> QED
    BY <1>4, <2>1, <2>3, <2>4
<1> HIDE DEF p, q, S, c, d
<1>9. p # <<>>
  BY <1>2, <1>3, <1>4, EmptySeq
<1>10. /\ SubSeq(p, 1, c - 1) \in Seq(S) /\ Len(SubSeq(p, 1, c - 1)) = d
       /\ \A k \in 1..d : SubSeq(p, 1, c - 1)[k] = p[k]
  <2>1. c - 1 = d /\ \A k \in 1..d : p[k] \in S
    BY <1>2, <1>3, <1>4, ElementOfSeq
  <2> QED
    BY <1>2, <1>3, <1>4, <2>1, SubSeqProperties
<1>11. q = SubSeq(p, 1, c - 1)
  BY <1>5, <1>7, <1>10, SeqEqual
<1> QED
  BY <1>4, <1>6, <1>8, <1>9, <1>11 DEF p, q, e, S

-----------------------------------------------------------------------------
(***************************************************************************)
(* What the operations do to the words of segments.                        *)
(***************************************************************************)

(* The word at an offset of a segment. *)
LEMMA WordAt ==
  ASSUME NEW s, NEW m, NEW n \in Nat, NEW t \in 0..(DataWords - 1)
  PROVE  At(s, m, n * DataWords + t) = m[s[n + 1]][t]
<1>1. DataWords \in Nat \ {0}
  BY ListAssumption
<1>2. n * DataWords \in Nat
  BY <1>1
<1>3. PICK w \in Nat : w = n * DataWords + t
  BY <1>2
<1>4. w \div DataWords = n /\ w % DataWords = t
  BY <1>1, <1>3, DivMod
<1> QED
  BY <1>3, <1>4 DEF At

(* The first segment's words come first. *)
LEMMA WordOfHead ==
  ASSUME NEW s \in Seq(Page), s # <<>>, NEW m, NEW h \in 0..(DataWords - 1)
  PROVE  At(s, m, h) = m[Head(s)][h]
<1>1. DataWords \in Nat \ {0} /\ h \in Nat /\ 0 \in Nat
  BY ListAssumption
<1>2. h = 0 * DataWords + h
  BY <1>1
<1>3. h \div DataWords = 0 /\ h % DataWords = h
  BY <1>1, <1>2, DivMod
<1> QED
  BY <1>3 DEF At

(* Memory m2 is m with v written to word t of page p. *)
Written(m2, m, p, t, v) ==
  /\ m2[p][t] = v
  /\ \A w \in Word : w # t => m2[p][w] = m[p][w]
  /\ \A q \in Page : q # p => m2[q] = m[q]

(* The words before z of segments s2 in memory m2 are those of s in m. *)
Kept(s2, m2, s, m, z) == \A w \in Nat : w < z => At(s2, m2, w) = At(s, m, w)

(* A word written at the tail is the next one, and no word before it. *)
LEMMA WriteAtTail ==
  ASSUME NEW s \in Seq(Page), s # <<>>, Distinct(s), NEW t \in 0..(DataWords - 1),
         NEW m, NEW v, NEW m2, Written(m2, m, s[Len(s)], t, v)
  PROVE  /\ At(s, m2, (Len(s) - 1) * DataWords + t) = v
         /\ Kept(s, m2, s, m, (Len(s) - 1) * DataWords + t)
<1> DEFINE n == Len(s)
<1>1. /\ n \in Nat \ {0} /\ DataWords \in Nat \ {0} /\ s[n] \in Page
      /\ n - 1 \in Nat /\ t \in 0..DataWords /\ DOMAIN s = 1..n
  BY ListAssumption, EmptySeq, ElementOfSeq, LenProperties
<1>5. At(s, m2, (n - 1) * DataWords + t) = v
  <2>1. n - 1 + 1 = n
    BY <1>1
  <2>2. PICK i \in Nat : i = n - 1
    BY <1>1
  <2>3. At(s, m2, i * DataWords + t) = m2[s[i + 1]][t]
    BY WordAt, Zenon
  <2> QED
    BY <2>1, <2>2, <2>3 DEF Written
<1>6. ASSUME NEW w \in Nat, w < (n - 1) * DataWords + t
      PROVE  At(s, m2, w) = At(s, m, w)
  <2>1. /\ w \div DataWords \in 0..(n - 1) /\ w % DataWords \in 0..(DataWords - 1)
        /\ w \div DataWords = n - 1 => w % DataWords < t
    BY <1>1, <1>6, Place
  <2>2. PICK i : i = (w \div DataWords) + 1
    OBVIOUS
  <2>3. i \in 1..n /\ s[i] \in Page
    BY <1>1, <2>1, <2>2, ElementOfSeq
  <2>4. CASE i = n
    <3>1. w % DataWords \in Word /\ w % DataWords < t
      BY <1>1, <2>1, <2>2, <2>4 DEF Word
    <3>2. t \notin {w % DataWords}
      BY <1>1, <2>1, <3>1
    <3>3. m2[s[n]][w % DataWords] = m[s[n]][w % DataWords]
      BY <3>1, <3>2 DEF Written
    <3> QED
      BY <2>2, <2>4, <3>3 DEF At
  <2>5. CASE i # n
    <3>1. i \in DOMAIN s /\ n \in DOMAIN s
      BY <1>1, <2>3
    <3>2. s[i] # s[n]
      BY <2>5, <3>1 DEF Distinct
    <3> QED
      BY <2>2, <2>3, <3>2 DEF At, Written
  <2> QED
    BY <2>4, <2>5
<1> QED
  BY <1>5, <1>6 DEF Kept

(* Likewise one written at the start of a new segment. *)
LEMMA WriteInNewSegment ==
  ASSUME NEW s \in Seq(Page), s # <<>>, NEW p \in Page, p \notin Range(s),
         NEW m, NEW v, NEW m2, Written(m2, m, p, 0, v)
  PROVE  /\ At(Append(s, p), m2, (Len(s) - 1) * DataWords + DataWords) = v
         /\ Kept(Append(s, p), m2, s, m, (Len(s) - 1) * DataWords + DataWords)
<1> DEFINE n == Len(s)
<1>1. n \in Nat \ {0} /\ DataWords \in Nat \ {0} /\ DOMAIN s = 1..n
  BY ListAssumption, EmptySeq, LenProperties
<1>2. \A i \in 1..n : Append(s, p)[i] = s[i] /\ s[i] \in Page /\ s[i] # p
  BY <1>1, AppendFacts, ElementOfSeq DEF Range
<1>3. Append(s, p)[n + 1] = p
  BY AppendFacts
<1>7. At(Append(s, p), m2, (n - 1) * DataWords + DataWords) = v
  <2>1. (n - 1) * DataWords + DataWords = n * DataWords + 0
    BY <1>1
  <2>2. At(Append(s, p), m2, n * DataWords + 0) = m2[Append(s, p)[n + 1]][0]
    <3>1. PICK i \in Nat, r \in 0..(DataWords - 1) : i = n /\ r = 0
      <4>1. n \in Nat /\ 0 \in 0..(DataWords - 1)
        BY <1>1
      <4> QED
        BY <4>1
    <3>2. At(Append(s, p), m2, i * DataWords + r) = m2[Append(s, p)[i + 1]][r]
      BY WordAt, Zenon
    <3> QED
      BY <3>1, <3>2
  <2> QED
    BY <1>3, <2>1, <2>2 DEF Written
<1>8. ASSUME NEW w \in Nat, w < (n - 1) * DataWords + DataWords
      PROVE  At(Append(s, p), m2, w) = At(s, m, w)
  <2>1. w \div DataWords \in 0..(n - 1)
    <3>1. DataWords \in 0..DataWords
      BY <1>1
    <3> QED
      BY <1>1, <1>8, <3>1, Place
  <2>2. PICK i : i = (w \div DataWords) + 1
    OBVIOUS
  <2>3. i \in 1..n
    BY <1>1, <2>1, <2>2
  <2> QED
    BY <1>2, <2>2, <2>3 DEF At, Written
<1> QED
  BY <1>7, <1>8 DEF Kept

(* Without their head segment, the words of a list move forward by one     *)
(* segment.                                                                *)
LEMMA WordsOfTail ==
  ASSUME NEW s \in Seq(Page), NEW t \in 0..DataWords, NEW m, Len(s) > 1
  PROVE  /\ Len(Tail(s)) = Len(s) - 1 /\ Tail(s) # <<>>
         /\ \A h \in Int : Span(Tail(s), 0, t) = Span(s, h, t) - (DataWords - h)
         /\ \A w \in Nat : DataWords + w < (Len(s) - 1) * DataWords + t
              => At(Tail(s), m, w) = At(s, m, DataWords + w)
<1> DEFINE n == Len(s)
<1>1. /\ n \in Nat \ {0} /\ n - 1 \in Nat \ {0} /\ DataWords \in Nat \ {0}
      /\ s # <<>>
  <2>1. n \in Nat /\ n > 1
    BY LenProperties
  <2> HIDE DEF n
  <2>2. s # <<>>
    BY <2>1, EmptySeq
  <2> QED
    BY <2>1, <2>2, ListAssumption
<1>2. Len(Tail(s)) = n - 1 /\ \A i \in 1..(n - 1) : Tail(s)[i] = s[i + 1]
  BY <1>1, HeadTailProperties
<1>11. Tail(s) # <<>>
  BY <1>1, <1>2, EmptySeq
<1>12. ASSUME NEW h \in Int
       PROVE  Span(Tail(s), 0, t) = Span(s, h, t) - (DataWords - h)
  <2>1. PICK y \in Int, z \in Int : y = (n - 1 - 1) * DataWords /\ z = (n - 1) * DataWords
    BY <1>1
  <2>2. z = y + DataWords
    BY <1>1, <2>1
  <2>3. Span(Tail(s), 0, t) = y + t - 0 /\ Span(s, h, t) = z + t - h
    BY <1>2, <2>1 DEF Span
  <2> QED
    BY <1>1, <2>2, <2>3
<1> SUFFICES ASSUME NEW w \in Nat, DataWords + w < (n - 1) * DataWords + t
             PROVE  At(Tail(s), m, w) = At(s, m, DataWords + w)
  BY <1>2, <1>11, <1>12
<1>3. w < (n - 1 - 1) * DataWords + t
  <2>1. (n - 1) * DataWords = (n - 1 - 1) * DataWords + DataWords
        /\ (n - 1) * DataWords \in Int /\ (n - 1 - 1) * DataWords \in Int
    BY <1>1
  <2> QED
    BY <1>1, <2>1
<1>4. /\ w \div DataWords \in 0..(n - 1 - 1) /\ w % DataWords \in 0..(DataWords - 1)
      /\ w = (w \div DataWords) * DataWords + (w % DataWords)
  BY <1>1, <1>3, Place
<1>5. PICK q \in Nat, r \in 0..(DataWords - 1) :
        q = w \div DataWords /\ r = w % DataWords /\ q + 1 \in 1..(n - 1)
  BY <1>1, <1>4
<1>6. DataWords + w = (q + 1) * DataWords + r
  <2>1. w = q * DataWords + r
    BY <1>4, <1>5
  <2>2. (q + 1) * DataWords = q * DataWords + DataWords /\ q * DataWords \in Int
    BY <1>1
  <2> QED
    BY <1>1, <2>1, <2>2
<1>9. At(Tail(s), m, w) = m[s[(q + 1) + 1]][r]
  BY <1>2, <1>5 DEF At
<1>10. At(s, m, (q + 1) * DataWords + r) = m[s[(q + 1) + 1]][r]
  <2>1. PICK i \in Nat : i = q + 1
    BY <1>5
  <2>2. At(s, m, i * DataWords + r) = m[s[i + 1]][r]
    BY WordAt, Zenon
  <2> QED
    BY <2>1, <2>2
<1> QED
  BY <1>6, <1>9, <1>10

(* Without their last segment, those before it stay where they are. *)
LEMMA WordsOfFront ==
  ASSUME NEW s \in Seq(Page), NEW m, Len(s) > 1
  PROVE  LET front == SubSeq(s, 1, Len(s) - 1) IN
         /\ front \in Seq(Page) /\ Len(front) = Len(s) - 1
         /\ \A w \in Nat : w < (Len(s) - 1) * DataWords => At(front, m, w) = At(s, m, w)
<1> DEFINE n == Len(s)
           front == SubSeq(s, 1, Len(s) - 1)
<1>1. /\ n \in Nat \ {0} /\ n - 1 \in Nat \ {0} /\ DataWords \in Nat \ {0}
  <2>1. n \in Nat /\ n > 1
    BY LenProperties
  <2> HIDE DEF n
  <2> QED
    BY <2>1, ListAssumption
<1>2. \A i \in 1..(n - 1) : s[i] \in Page
  BY <1>1, ElementOfSeq
<1>3. /\ front \in Seq(Page) /\ Len(front) = n - 1
      /\ \A i \in 1..(n - 1) : front[i] = s[i]
  BY <1>1, <1>2, SubSeqProperties
<1> HIDE DEF front
<1>4. ASSUME NEW w \in Nat, w < (n - 1) * DataWords
      PROVE  At(front, m, w) = At(s, m, w)
  <2>1. w < (n - 1 - 1) * DataWords + DataWords
    <3>1. (n - 1) * DataWords = (n - 1 - 1) * DataWords + DataWords
      BY <1>1
    <3> QED
      BY <1>4, <3>1
  <2>2. w \div DataWords \in 0..(n - 1 - 1)
    BY <1>1, <2>1, Place
  <2>3. PICK i : i = (w \div DataWords) + 1
    OBVIOUS
  <2>4. i \in 1..(n - 1)
    BY <1>1, <2>2, <2>3
  <2> QED
    BY <1>3, <2>3, <2>4 DEF At
<1> QED
  BY <1>3, <1>4 DEF front

(* A list whose pages do not change spells out the same. *)
LEMMA SamePages ==
  ASSUME NEW l \in List, Aligned(l, DataWords),
         NEW s, NEW h, NEW t, Fits(l, s, h, t), s # <<>>, NEW m, NEW m2,
         \A p \in Range(s) : m2[p] = m[p]
  PROVE  Spelled(s, h, t, m2, ElemWords[l]) = Spelled(s, h, t, m, ElemWords[l])
<1> DEFINE e == ElemWords[l]
           n == Len(s)
<1>1. /\ n \in Nat \ {0} /\ t \in 0..DataWords /\ DataWords \in Nat \ {0}
      /\ e \in Nat \ {0} /\ (n - 1) * DataWords \in Nat
  BY LengthFacts, ListAssumption
<1>2. DOMAIN s = 1..n
  BY LenProperties DEF Fits
<1>3. ASSUME NEW k \in 1..Length(s, h, t, e)
      PROVE  At(s, m2, h + (k - 1) * e) = At(s, m, h + (k - 1) * e)
  <2>1. PICK w : w = h + (k - 1) * e
    OBVIOUS
  <2>2. w \in Nat /\ w + e <= (n - 1) * DataWords + t
    BY <2>1, WordOf
  <2>3. PICK z \in Nat : z = (n - 1) * DataWords
    BY <1>1
  <2>4. w < z + t
    BY <1>1, <2>2, <2>3
  <2>5. w \div DataWords \in 0..(n - 1)
    BY <1>1, <2>2, <2>3, <2>4, Place
  <2>6. PICK i : i = (w \div DataWords) + 1
    OBVIOUS
  <2>7. i \in 1..n
    BY <1>1, <2>5, <2>6
  <2>8. s[i] \in Range(s)
    BY <1>2, <2>7 DEF Range
  <2>9. At(s, m2, w) = At(s, m, w)
    BY <2>6, <2>8 DEF At
  <2> QED
    BY <2>1, <2>9
<1> QED
  BY <1>3 DEF Spelled

-----------------------------------------------------------------------------
(***************************************************************************)
(* The lists as sequences, and the steps.                                  *)
(***************************************************************************)
Deque(l) == IF InUse(l) THEN Elements(l) ELSE NULL
deques == [l \in List |-> Deque(l)]

(* The elements of a list are what its segments and offsets spell out.     *)
LEMMA DequeFacts ==
  ASSUME NEW l \in List, OffsetInv
  PROVE  /\ Fits(l, segments[l], head[l], tail[l])
         /\ segments[l] # <<>> =>
              Deque(l) = Spelled(segments[l], head[l], tail[l], memory, ElemWords[l])
         /\ segments[l] = <<>> => Deque(l) = NULL
<1>1. Fits(l, segments[l], head[l], tail[l])
  BY DEF OffsetInv, ListsSound, Invariant, InUse, Fits
<1>2. segments[l] # <<>> =>
        Deque(l) = Spelled(segments[l], head[l], tail[l], memory, ElemWords[l])
  BY DEF Deque, InUse, Elements, WordsHeld, ElementAt, Spelled, Length, Span, At
<1>3. segments[l] = <<>> => Deque(l) = NULL
  BY DEF Deque, InUse
<1> QED
  BY <1>1, <1>2, <1>3

(* So they are after a step. *)
LEMMA NextDequeFacts ==
  ASSUME NEW l \in List, OffsetInv'
  PROVE  /\ Fits(l, segments'[l], head'[l], tail'[l])
         /\ segments'[l] # <<>> =>
              Deque(l)' = Spelled(segments'[l], head'[l], tail'[l], memory', ElemWords[l])
         /\ segments'[l] = <<>> => Deque(l)' = NULL
<1>1. Fits(l, segments'[l], head'[l], tail'[l])
  BY DEF OffsetInv, ListsSound, Invariant, InUse, Fits, Aligned
<1>2. segments'[l] # <<>> =>
        Deque(l)' = Spelled(segments'[l], head'[l], tail'[l], memory', ElemWords[l])
  BY DEF Deque, InUse, Elements, WordsHeld, ElementAt, Spelled, Length, Span, At
<1>3. segments'[l] = <<>> => Deque(l)' = NULL
  BY DEF Deque, InUse
<1> QED
  BY <1>1, <1>2, <1>3

(* A step that changes list l, and of the pages only its own or new ones,  *)
(* changes one sequence.                                                   *)
LEMMA OneDeque ==
  ASSUME OffsetInv, OffsetInv', NEW l \in List,
         \A m \in List : Aligned(m, DataWords),
         \A m \in List \ {l} :
           /\ segments'[m] = segments[m] /\ head'[m] = head[m] /\ tail'[m] = tail[m]
           /\ \A p \in Owned(m) : memory'[p] = memory[p]
  PROVE  deques' = [deques EXCEPT ![l] = Deque(l)']
<1>1. ASSUME NEW m \in List \ {l} PROVE Deque(m)' = Deque(m)
  <2>1. CASE segments[m] = <<>>
    BY <2>1, DequeFacts, NextDequeFacts
  <2>2. CASE segments[m] # <<>>
    <3>1. /\ Fits(m, segments[m], head[m], tail[m])
          /\ \A p \in Range(segments[m]) : memory'[p] = memory[p]
      BY DequeFacts DEF Owned
    <3>2. Spelled(segments[m], head[m], tail[m], memory', ElemWords[m])
            = Spelled(segments[m], head[m], tail[m], memory, ElemWords[m])
      BY <2>2, <3>1, SamePages
    <3> QED
      BY <2>2, <3>2, DequeFacts, NextDequeFacts
  <2> QED
    BY <2>1, <2>2
<1> QED
  BY <1>1 DEF deques

(* A list comes into use empty. *)
LEMMA InitializeRefines ==
  ASSUME RefInv, OffsetInv', \A l \in List : Aligned(l, DataWords),
         NEW l \in List, initialize(l)
  PROVE  MemInv' /\ Abstract!Initialize(l)
<1>1. PICK p \in Page : segments' = [segments EXCEPT ![l] = <<p>>]
  BY DEF initialize
<1>2. /\ segments[l] = <<>> /\ segments'[l] = <<p>> /\ head'[l] = 0 /\ tail'[l] = 0
      /\ memory' = memory /\ result' = result
  BY <1>1 DEF initialize, InUse, RefInv, OffsetInv
<1>3. MemInv'
  BY <1>2 DEF MemInv, RefInv
<1>4. Deque(l)' = <<>>
  <2>1. /\ <<p>> # <<>> /\ Len(<<p>>) = 1
        /\ Fits(l, <<p>>, 0, 0) /\ memory' \in Memory
    BY <1>2, <1>3, NextDequeFacts DEF MemInv
  <2>2. Length(<<p>>, 0, 0, ElemWords[l]) = 0
    BY <2>1, LengthFacts
  <2>3. PICK q \in Seq(Value \cup {NULL}) :
          q = Spelled(<<p>>, 0, 0, memory', ElemWords[l]) /\ Len(q) = 0
    BY <2>1, <2>2, SpelledFacts
  <2>4. q = <<>>
    BY <2>3, EmptySeq
  <2> QED
    BY <1>2, <2>1, <2>3, <2>4, NextDequeFacts
<1>5. deques' = [deques EXCEPT ![l] = <<>>]
  <2>1. \A m \in List \ {l} :
          /\ segments'[m] = segments[m] /\ head'[m] = head[m] /\ tail'[m] = tail[m]
          /\ \A r \in Owned(m) : memory'[r] = memory[r]
    BY <1>1, <1>2 DEF initialize, RefInv, OffsetInv
  <2> QED
    BY <1>4, <2>1, OneDeque DEF RefInv
<1>6. deques[l] = NULL
  BY <1>2, DequeFacts DEF RefInv, deques
<1> QED
  BY <1>2, <1>3, <1>5, <1>6 DEF Abstract!Initialize, deques, Deque

(* A list in use is a sequence, which NULL is not. *)
LEMMA InUseSequence ==
  ASSUME OffsetInv, MemInv, NULL \notin Seq(Value \cup {NULL}),
         NEW l \in List, segments[l] # <<>>, Aligned(l, DataWords)
  PROVE  deques[l] \in Seq(Value \cup {NULL}) /\ deques[l] # NULL
<1>1. /\ Fits(l, segments[l], head[l], tail[l]) /\ memory \in Memory
      /\ deques[l] = Spelled(segments[l], head[l], tail[l], memory, ElemWords[l])
  BY DequeFacts DEF MemInv, deques
<1>2. Spelled(segments[l], head[l], tail[l], memory, ElemWords[l])
        \in Seq(Value \cup {NULL})
  BY <1>1, SpelledFacts
<1> QED
  BY <1>1, <1>2

(* A list that is cleared is out of use. *)
LEMMA ClearRefines ==
  ASSUME RefInv, OffsetInv', \A l \in List : Aligned(l, DataWords),
         NULL \notin Seq(Value \cup {NULL}), NEW l \in List, clear(l)
  PROVE  MemInv' /\ Abstract!Clear(l)
<1>1. /\ segments[l] # <<>> /\ segments' = [segments EXCEPT ![l] = <<>>]
      /\ segments'[l] = <<>> /\ memory' = memory /\ result' = result
  BY DEF clear, InUse, RefInv, OffsetInv
<1>2. MemInv'
  BY <1>1 DEF MemInv, RefInv
<1>3. Deque(l)' = NULL
  BY <1>1, NextDequeFacts
<1>4. deques' = [deques EXCEPT ![l] = NULL]
  <2>1. \A m \in List \ {l} :
          /\ segments'[m] = segments[m] /\ head'[m] = head[m] /\ tail'[m] = tail[m]
          /\ \A r \in Owned(m) : memory'[r] = memory[r]
    BY <1>1 DEF clear, RefInv, OffsetInv
  <2> QED
    BY <1>3, <2>1, OneDeque DEF RefInv
<1>5. deques[l] # NULL
  BY <1>1, InUseSequence DEF RefInv
<1> QED
  BY <1>1, <1>2, <1>4, <1>5 DEF Abstract!Clear, deques, Deque

(* push_back into the last segment. *)
LEMMA PushBackFastRefines ==
  ASSUME RefInv, OffsetInv', \A l \in List : Aligned(l, DataWords),
         NULL \notin Seq(Value \cup {NULL}),
         NEW l \in List, NEW v \in Value, PushBackFast(l, v)
  PROVE  MemInv' /\ Abstract!PushBack(l, v)
<1> DEFINE s == segments[l]
           h == head[l]
           t == tail[l]
           e == ElemWords[l]
<1>1. /\ s # <<>> /\ t # DataWords /\ s \in Seq(Page) /\ Distinct(s)
      /\ Fits(l, s, h, t) /\ memory \in Memory /\ Aligned(l, DataWords)
  BY DequeFacts DEF PushBackFast, InUse, TailAtMax, RefInv, OwnInv, MemInv
<1>2. /\ Len(s) \in Nat \ {0} /\ h \in Nat /\ t \in 0..(DataWords - 1)
      /\ DataWords \in Nat \ {0} /\ e \in Nat \ {0} /\ (Len(s) - 1) * DataWords \in Nat
  <2>1. Len(s) \in Nat \ {0} /\ h \in Nat /\ t \in 0..DataWords
        /\ (Len(s) - 1) * DataWords \in Nat
    BY <1>1, LengthFacts
  <2> QED
    BY <1>1, <2>1, ListAssumption
<1>3. /\ segments' = segments /\ head' = head /\ result' = result
      /\ tail' = [tail EXCEPT ![l] = t + e] /\ tail'[l] = t + e
      /\ memory' = [memory EXCEPT ![s[Len(s)]] =
                      [w \in Word |-> IF w = t THEN v ELSE memory[s[Len(s)]][w]]]
  BY DEF PushBackFast, TailSegment, RefInv, OffsetInv
<1>4. /\ memory' \in Memory
      /\ At(s, memory', (Len(s) - 1) * DataWords + t) = v
      /\ Kept(s, memory', s, memory, (Len(s) - 1) * DataWords + t)
      /\ \A p \in Page : p # s[Len(s)] => memory'[p] = memory[p]
  <2>1. s[Len(s)] \in Page /\ t \in Word
    BY <1>1, <1>2, ElementOfSeq DEF Word
  <2>2. memory' \in Memory /\ Written(memory', memory, s[Len(s)], t, v)
    <3>1. memory'[s[Len(s)]] = [w \in Word |-> IF w = t THEN v ELSE memory[s[Len(s)]][w]]
      BY <1>1, <1>3, <2>1 DEF Memory
    <3>2. /\ memory'[s[Len(s)]][t] = v
          /\ \A w \in Word : w # t => memory'[s[Len(s)]][w] = memory[s[Len(s)]][w]
      BY <2>1, <3>1
    <3>3. \A p \in Page : p # s[Len(s)] => memory'[p] = memory[p]
      BY <1>1, <1>3 DEF Memory
    <3>4. memory' \in Memory
      BY <1>1, <1>3, <2>1 DEF Memory
    <3> QED
      BY <3>2, <3>3, <3>4 DEF Written
  <2>3. /\ At(s, memory', (Len(s) - 1) * DataWords + t) = v
        /\ Kept(s, memory', s, memory, (Len(s) - 1) * DataWords + t)
    BY <1>1, <1>2, <2>2, WriteAtTail
  <2> QED
    BY <2>2, <2>3 DEF Written
<1>5. Fits(l, s, h, t + e)
  BY <1>3, NextDequeFacts
<1>6. Span(s, h, t + e) = Span(s, h, t) + e
  BY <1>2 DEF Span
<1>7. Spelled(s, h, t + e, memory', e) = Append(Spelled(s, h, t, memory, e), v)
  BY <1>1, <1>4, <1>5, <1>6, PushSpelled DEF Kept
<1>8. Deque(l)' = Append(Deque(l), v)
  BY <1>1, <1>3, <1>7, DequeFacts, NextDequeFacts DEF RefInv
<1>9. deques' = [deques EXCEPT ![l] = Append(@, v)]
  <2>1. ASSUME NEW m \in List \ {l}, NEW p \in Owned(m)
        PROVE  memory'[p] = memory[p]
    <3>1. s[Len(s)] \in Owned(l) /\ p \in Page
      BY <1>1, <1>2, LenProperties DEF Owned, Range, RefInv, OwnInv
    <3>2. p # s[Len(s)]
      BY <3>1 DEF RefInv, OwnInv
    <3> QED
      BY <1>4, <3>1, <3>2
  <2>2. \A m \in List \ {l} :
          segments'[m] = segments[m] /\ head'[m] = head[m] /\ tail'[m] = tail[m]
    BY <1>3 DEF RefInv, OffsetInv
  <2>3. deques' = [deques EXCEPT ![l] = Deque(l)']
    BY <2>1, <2>2, OneDeque DEF RefInv
  <2>4. deques[l] = Deque(l)
    BY DEF deques
  <2> QED
    BY <1>8, <2>3, <2>4
<1>10. deques[l] # NULL
  BY <1>1, InUseSequence DEF RefInv
<1>11. MemInv'
  BY <1>3, <1>4 DEF MemInv, RefInv
<1> QED
  BY <1>3, <1>9, <1>10, <1>11 DEF Abstract!PushBack, deques, Deque

(* push_back into a new segment. *)
LEMMA PushBackSlowRefines ==
  ASSUME RefInv, OffsetInv', \A l \in List : Aligned(l, DataWords),
         NULL \notin Seq(Value \cup {NULL}),
         NEW l \in List, NEW v \in Value, PushBackSlow(l, v)
  PROVE  MemInv' /\ Abstract!PushBack(l, v)
<1> DEFINE s == segments[l]
           h == head[l]
           t == tail[l]
           e == ElemWords[l]
<1>1. PICK p \in Page :
        /\ AllocatePage(p)
        /\ segments' = [segments EXCEPT ![l] = Append(s, p)]
        /\ memory' = [memory EXCEPT ![p][0] = v]
  BY DEF PushBackSlow
<1>2. /\ s # <<>> /\ t = DataWords /\ s \in Seq(Page)
      /\ Fits(l, s, h, t) /\ memory \in Memory /\ Aligned(l, DataWords)
  BY DequeFacts DEF PushBackSlow, InUse, TailAtMax, RefInv, OwnInv, MemInv
<1>3. /\ Len(s) \in Nat \ {0} /\ h \in Nat
      /\ DataWords \in Nat \ {0} /\ e \in Nat \ {0} /\ (Len(s) - 1) * DataWords \in Nat
  BY <1>2, LengthFacts, ListAssumption
<1>4. \A m \in List : p \notin Owned(m)
  BY <1>1, AllocateFacts DEF RefInv
<1>5. /\ segments'[l] = Append(s, p) /\ head' = head /\ result' = result
      /\ tail' = [tail EXCEPT ![l] = e] /\ tail'[l] = e
  BY <1>1 DEF PushBackSlow, RefInv, OffsetInv
<1>6. /\ memory' \in Memory
      /\ At(Append(s, p), memory', (Len(s) - 1) * DataWords + t) = v
      /\ Kept(Append(s, p), memory', s, memory, (Len(s) - 1) * DataWords + t)
      /\ \A q \in Page : q # p => memory'[q] = memory[q]
  <2>1. p \notin Range(s) /\ 0 \in Word
    BY <1>3, <1>4 DEF Owned, Word
  <2>2. memory' \in Memory /\ Written(memory', memory, p, 0, v)
    BY <1>1, <1>2, <2>1 DEF Memory, Written
  <2>3. /\ At(Append(s, p), memory', (Len(s) - 1) * DataWords + DataWords) = v
        /\ Kept(Append(s, p), memory', s, memory, (Len(s) - 1) * DataWords + DataWords)
    BY <1>2, <2>1, <2>2, WriteInNewSegment
  <2> QED
    BY <1>2, <2>2, <2>3 DEF Written
<1>7. Append(s, p) # <<>> /\ Len(Append(s, p)) = Len(s) + 1
  BY <1>2, <1>3, AppendProperties
<1>8. Fits(l, Append(s, p), h, e)
  BY <1>5, NextDequeFacts
<1>9. Span(Append(s, p), h, e) = Span(s, h, t) + e
  <2>1. (Len(s) + 1 - 1) * DataWords = (Len(s) - 1) * DataWords + DataWords
    BY <1>3
  <2> QED
    BY <1>2, <1>3, <1>7, <2>1 DEF Span
<1>10. Spelled(Append(s, p), h, e, memory', e) = Append(Spelled(s, h, t, memory, e), v)
  <2>1. PICK s2, e2 : s2 = Append(s, p) /\ e2 = e
    OBVIOUS
  <2>2. /\ s2 # <<>> /\ Fits(l, s2, h, e2) /\ Span(s2, h, e2) = Span(s, h, t) + e
        /\ At(s2, memory', (Len(s) - 1) * DataWords + t) = v
        /\ \A w \in Nat : w < (Len(s) - 1) * DataWords + t
             => At(s2, memory', w) = At(s, memory, w)
    BY <1>6, <1>7, <1>8, <1>9, <2>1 DEF Kept
  <2>3. Spelled(s2, h, e2, memory', e) = Append(Spelled(s, h, t, memory, e), v)
    BY <1>2, <1>6, <2>2, PushSpelled
  <2> QED
    BY <2>1, <2>3
<1>11. Deque(l)' = Append(Deque(l), v)
  BY <1>2, <1>5, <1>7, <1>10, DequeFacts, NextDequeFacts DEF RefInv
<1>12. deques' = [deques EXCEPT ![l] = Append(@, v)]
  <2>1. ASSUME NEW m \in List \ {l}, NEW q \in Owned(m)
        PROVE  memory'[q] = memory[q]
    <3>1. q \in Page /\ q # p
      BY <1>4, LenProperties DEF Owned, Range, RefInv, OwnInv
    <3> QED
      BY <1>6, <3>1
  <2>2. \A m \in List \ {l} :
          segments'[m] = segments[m] /\ head'[m] = head[m] /\ tail'[m] = tail[m]
    BY <1>1, <1>5 DEF RefInv, OffsetInv
  <2>3. deques' = [deques EXCEPT ![l] = Deque(l)']
    BY <2>1, <2>2, OneDeque DEF RefInv
  <2>4. deques[l] = Deque(l)
    BY DEF deques
  <2> QED
    BY <1>11, <2>3, <2>4
<1>13. deques[l] # NULL
  BY <1>2, InUseSequence DEF RefInv
<1>14. MemInv'
  BY <1>5, <1>6 DEF MemInv, RefInv
<1> QED
  BY <1>5, <1>12, <1>13, <1>14 DEF Abstract!PushBack, deques, Deque

(* A list in use. *)
LEMMA InUseShape ==
  ASSUME RefInv, NEW l \in List, Aligned(l, DataWords), segments[l] # <<>>
  PROVE  /\ segments[l] \in Seq(Page) /\ Len(segments[l]) \in Nat \ {0}
         /\ head[l] \in 0..(DataWords - 1) /\ tail[l] \in 0..DataWords
         /\ DataWords \in Nat \ {0} /\ ElemWords[l] \in Nat \ {0}
         /\ (Len(segments[l]) - 1) * DataWords \in Nat
<1>1. segments[l] \in Seq(Page) /\ Fits(l, segments[l], head[l], tail[l])
  BY DequeFacts DEF RefInv, OwnInv
<1>2. DataWords \in Nat \ {0} /\ ElemWords[l] \in Nat \ {0}
  BY ListAssumption
<1> QED
  BY <1>1, <1>2, LengthFacts

(* A step that only pops an element leaves the memory as it is. *)
LEMMA PopKeepsMemory ==
  ASSUME RefInv, NEW l \in List, NEW x \in Value \cup {NULL},
         memory' = memory, result' = [result EXCEPT ![l] = x]
  PROVE  MemInv'
BY DEF RefInv, MemInv

(* A pop that takes the head of what the list spells out. *)
LEMMA PopFrontOfDeque ==
  ASSUME RefInv, OffsetInv', \A l \in List : Aligned(l, DataWords),
         NULL \notin Seq(Value \cup {NULL}), NEW l \in List,
         segments[l] # <<>>, segments'[l] # <<>>, tail' = tail, memory' = memory,
         \A m \in List \ {l} : segments'[m] = segments[m] /\ head'[m] = head[m],
         result' = [result EXCEPT ![l] = At(segments[l], memory, head[l])],
         Span(segments'[l], head'[l], tail[l])
           = Span(segments[l], head[l], tail[l]) - ElemWords[l],
         \A w \in Nat :
           head[l] + ElemWords[l] + w < (Len(segments[l]) - 1) * DataWords + tail[l]
             => At(segments'[l], memory, head'[l] + w)
                  = At(segments[l], memory, head[l] + ElemWords[l] + w)
  PROVE  MemInv' /\ Abstract!PopFront(l)
<1>1. /\ Fits(l, segments[l], head[l], tail[l]) /\ Fits(l, segments'[l], head'[l], tail[l])
      /\ memory \in Memory /\ Aligned(l, DataWords)
  BY DequeFacts, NextDequeFacts DEF RefInv, MemInv
<1>2. PICK old : old = Spelled(segments[l], head[l], tail[l], memory, ElemWords[l])
  OBVIOUS
<1>3. /\ old \in Seq(Value \cup {NULL}) /\ old # <<>>
      /\ Spelled(segments'[l], head'[l], tail[l], memory, ElemWords[l]) = Tail(old)
      /\ At(segments[l], memory, head[l]) = Head(old)
  BY <1>1, <1>2, PopFrontSpelled
<1>4. Deque(l) = old /\ Deque(l)' = Tail(old) /\ deques[l] = old
  BY <1>2, <1>3, DequeFacts, NextDequeFacts DEF RefInv, deques
<1>5. deques' = [deques EXCEPT ![l] = Tail(@)]
  <2>1. deques' = [deques EXCEPT ![l] = Deque(l)']
    BY OneDeque DEF RefInv
  <2> QED
    BY <1>4, <2>1
<1>6. MemInv'
  <2>1. Head(old) \in Value \cup {NULL}
    BY <1>3, HeadTailProperties
  <2> QED
    BY <1>3, <2>1, PopKeepsMemory
<1>7. deques[l] \notin {NULL, <<>>} /\ result' = [result EXCEPT ![l] = Head(deques[l])]
  BY <1>3, <1>4
<1> QED
  BY <1>5, <1>6, <1>7 DEF Abstract!PopFront, deques, Deque

(* pop_front that leaves something in the first segment. *)
LEMMA PopFrontFastRefines ==
  ASSUME RefInv, OffsetInv', \A l \in List : Aligned(l, DataWords),
         NULL \notin Seq(Value \cup {NULL}), NEW l \in List, PopFrontFast(l)
  PROVE  MemInv' /\ Abstract!PopFront(l)
<1> DEFINE s == segments[l]
           h == head[l]
           t == tail[l]
           e == ElemWords[l]
<1>1. /\ s # <<>> /\ s \in Seq(Page)
      /\ Len(s) \in Nat \ {0} /\ h \in 0..(DataWords - 1) /\ t \in 0..DataWords
      /\ DataWords \in Nat \ {0} /\ e \in Nat \ {0} /\ (Len(s) - 1) * DataWords \in Nat
  BY InUseShape DEF PopFrontFast, InUse
<1>2. /\ segments' = segments /\ tail' = tail /\ memory' = memory
      /\ head' = [head EXCEPT ![l] = h + e] /\ head'[l] = h + e
      /\ result' = [result EXCEPT ![l] = memory[Head(s)][h]]
  BY DEF PopFrontFast, HeadSegment, RefInv, OffsetInv
<1>3. memory[Head(s)][h] = At(s, memory, h)
  BY <1>1, WordOfHead
<1>4. Span(s, h + e, t) = Span(s, h, t) - e
  BY <1>1 DEF Span
<1>5. \A m \in List \ {l} : segments'[m] = segments[m] /\ head'[m] = head[m]
  BY <1>2 DEF RefInv, OffsetInv
<1> QED
  BY <1>1, <1>2, <1>3, <1>4, <1>5, PopFrontOfDeque

(* pop_front of the last element of the first segment. *)
LEMMA PopFrontSlowRefines ==
  ASSUME RefInv, OffsetInv', \A l \in List : Aligned(l, DataWords),
         NULL \notin Seq(Value \cup {NULL}), NEW l \in List, PopFrontSlow(l),
         ~EmptiesFullSegment(l)
  PROVE  MemInv' /\ Abstract!PopFront(l)
<1> DEFINE s == segments[l]
           h == head[l]
           t == tail[l]
           e == ElemWords[l]
<1>1. /\ s # <<>> /\ s \in Seq(Page)
      /\ Len(s) \in Nat \ {0} /\ h \in 0..(DataWords - 1) /\ t \in 0..DataWords
      /\ DataWords \in Nat \ {0} /\ e \in Nat \ {0} /\ (Len(s) - 1) * DataWords \in Nat
  BY InUseShape DEF PopFrontSlow, InUse
<1>2. h + e = DataWords /\ Len(s) > 1
  BY <1>1 DEF PopFrontSlow, LastOfSegment, EmptiesFullSegment
<1>3. /\ segments' = [segments EXCEPT ![l] = Tail(s)] /\ segments'[l] = Tail(s)
      /\ tail' = tail /\ memory' = memory
      /\ head' = [head EXCEPT ![l] = 0] /\ head'[l] = 0
      /\ result' = [result EXCEPT ![l] = memory[Head(s)][h]]
  BY DEF PopFrontSlow, HeadSegment, RefInv, OffsetInv
<1>4. memory[Head(s)][h] = At(s, memory, h)
  BY <1>1, WordOfHead
<1>5. /\ Tail(s) # <<>> /\ Span(Tail(s), 0, t) = Span(s, h, t) - (DataWords - h)
      /\ \A w \in Nat : DataWords + w < (Len(s) - 1) * DataWords + t
           => At(Tail(s), memory, w) = At(s, memory, DataWords + w)
  <2>1. h \in Int
    BY <1>1
  <2>2. PICK z \in 0..DataWords : z = t
    BY <1>1
  <2>3. PICK p \in Seq(Page) : p = s /\ Len(p) > 1
    BY <1>1, <1>2
  <2>4. /\ Tail(p) # <<>>
        /\ \A i \in Int : Span(Tail(p), 0, z) = Span(p, i, z) - (DataWords - i)
        /\ \A w \in Nat : DataWords + w < (Len(p) - 1) * DataWords + z
             => At(Tail(p), memory, w) = At(p, memory, DataWords + w)
    BY <2>3, WordsOfTail, Zenon
  <2> QED
    BY <2>1, <2>2, <2>3, <2>4
<1>6. Span(Tail(s), 0, t) = Span(s, h, t) - e
  <2>1. DataWords - h = e
    BY <1>1, <1>2
  <2> QED
    BY <1>5, <2>1
<1>7. ASSUME NEW w \in Nat, h + e + w < (Len(s) - 1) * DataWords + t
      PROVE  At(Tail(s), memory, 0 + w) = At(s, memory, h + e + w)
  BY <1>2, <1>5, <1>7
<1>8. \A m \in List \ {l} : segments'[m] = segments[m] /\ head'[m] = head[m]
  BY <1>3 DEF RefInv, OffsetInv
<1> QED
  BY <1>1, <1>3, <1>4, <1>5, <1>6, <1>7, <1>8, PopFrontOfDeque

(* A pop that takes the last of what the list spells out. *)
LEMMA PopBackOfDeque ==
  ASSUME RefInv, OffsetInv', \A l \in List : Aligned(l, DataWords),
         NULL \notin Seq(Value \cup {NULL}), NEW l \in List,
         segments[l] # <<>>, segments'[l] # <<>>, head' = head, memory' = memory,
         \A m \in List \ {l} : segments'[m] = segments[m] /\ tail'[m] = tail[m],
         NEW z, z = (Len(segments[l]) - 1) * DataWords + tail[l],
         result' = [result EXCEPT ![l] = At(segments[l], memory, z - ElemWords[l])],
         Span(segments'[l], head[l], tail'[l])
           = Span(segments[l], head[l], tail[l]) - ElemWords[l],
         \A w \in Nat : w + ElemWords[l] < z
             => At(segments'[l], memory, w) = At(segments[l], memory, w)
  PROVE  MemInv' /\ Abstract!PopBack(l)
<1>1. /\ Fits(l, segments[l], head[l], tail[l]) /\ Fits(l, segments'[l], head[l], tail'[l])
      /\ memory \in Memory /\ Aligned(l, DataWords)
  BY DequeFacts, NextDequeFacts DEF RefInv, MemInv
<1>2. PICK old : old = Spelled(segments[l], head[l], tail[l], memory, ElemWords[l])
  OBVIOUS
<1>3. /\ old \in Seq(Value \cup {NULL}) /\ old # <<>>
      /\ Spelled(segments'[l], head[l], tail'[l], memory, ElemWords[l])
           = SubSeq(old, 1, Len(old) - 1)
      /\ At(segments[l], memory, z - ElemWords[l]) = old[Len(old)]
  <2>1. PICK m, s, h, t, s2, t2 :
          /\ m \in Memory /\ m = memory /\ s = segments[l] /\ h = head[l] /\ t = tail[l]
          /\ s2 = segments'[l] /\ t2 = tail'[l]
    BY <1>1
  <2>2. /\ Fits(l, s, h, t) /\ s # <<>> /\ Fits(l, s2, h, t2) /\ s2 # <<>>
        /\ Span(s2, h, t2) = Span(s, h, t) - ElemWords[l]
        /\ z = (Len(s) - 1) * DataWords + t
        /\ old = Spelled(s, h, t, m, ElemWords[l])
    BY <1>1, <1>2, <2>1
  <2>3. \A w \in Nat : w + ElemWords[l] < z => At(s2, m, w) = At(s, m, w)
    BY <2>1
  <2> DEFINE seq == Spelled(s, h, t, m, ElemWords[l])
  <2>4. /\ seq \in Seq(Value \cup {NULL}) /\ seq # <<>>
        /\ Spelled(s2, h, t2, m, ElemWords[l]) = SubSeq(seq, 1, Len(seq) - 1)
        /\ At(s, m, (Len(s) - 1) * DataWords + (t - ElemWords[l])) = seq[Len(seq)]
    BY <1>1, <2>1, <2>2, <2>3, PopBackSpelled
  <2>5. seq = old
    BY <2>2
  <2> HIDE DEF seq
  <2>6. At(s, m, z - ElemWords[l]) = old[Len(old)]
    <3>1. PICK x \in Nat : x = (Len(s) - 1) * DataWords
      BY <1>1, <2>2, LengthFacts
    <3>2. t \in Nat /\ ElemWords[l] \in Nat
      BY <2>2, ListAssumption DEF Fits
    <3>3. z - ElemWords[l] = x + (t - ElemWords[l])
      BY <2>2, <3>1, <3>2
    <3>4. At(s, m, x + (t - ElemWords[l])) = old[Len(old)]
      BY <2>4, <2>5, <3>1
    <3> QED
      BY <3>3, <3>4
  <2> QED
    BY <2>1, <2>4, <2>5, <2>6
<1>4. Deque(l) = old /\ Deque(l)' = SubSeq(old, 1, Len(old) - 1) /\ deques[l] = old
  BY <1>2, <1>3, DequeFacts, NextDequeFacts DEF RefInv, deques
<1>5. deques' = [deques EXCEPT ![l] = SubSeq(@, 1, Len(@) - 1)]
  <2>1. deques' = [deques EXCEPT ![l] = Deque(l)']
    BY OneDeque DEF RefInv
  <2> QED
    BY <1>4, <2>1
<1>6. MemInv'
  <2>1. Len(old) \in 1..Len(old)
    BY <1>3, EmptySeq
  <2>2. old[Len(old)] \in Value \cup {NULL}
    BY <1>3, <2>1, ElementOfSeq
  <2> QED
    BY <1>3, <2>2, PopKeepsMemory
<1>7. /\ deques[l] \notin {NULL, <<>>}
      /\ result' = [result EXCEPT ![l] = deques[l][Len(deques[l])]]
  BY <1>3, <1>4
<1> QED
  BY <1>5, <1>6, <1>7 DEF Abstract!PopBack, deques, Deque

(* pop_back from a last segment that holds something. *)
LEMMA PopBackFastRefines ==
  ASSUME RefInv, OffsetInv', \A l \in List : Aligned(l, DataWords),
         NULL \notin Seq(Value \cup {NULL}), NEW l \in List, PopBackFast(l)
  PROVE  MemInv' /\ Abstract!PopBack(l)
<1> DEFINE s == segments[l]
           h == head[l]
           t == tail[l]
           e == ElemWords[l]
<1>1. /\ s # <<>> /\ s \in Seq(Page)
      /\ Len(s) \in Nat \ {0} /\ h \in 0..(DataWords - 1) /\ t \in 0..DataWords
      /\ DataWords \in Nat \ {0} /\ e \in Nat \ {0} /\ (Len(s) - 1) * DataWords \in Nat
  BY InUseShape DEF PopBackFast, InUse
<1>2. /\ segments' = segments /\ head' = head /\ memory' = memory
      /\ tail' = [tail EXCEPT ![l] = t - e] /\ tail'[l] = t - e
      /\ result' = [result EXCEPT ![l] = memory[s[Len(s)]][t - e]]
  BY DEF PopBackFast, TailSegment, RefInv, OffsetInv
<1>3. t - e \in 0..(DataWords - 1)
  <2>1. t - e \in Nat
    BY <1>2 DEF OffsetInv
  <2> QED
    BY <1>1, <2>1
<1>4. PICK y \in Nat, z \in Nat : y = (Len(s) - 1) * DataWords /\ z = y + t
  <2>1. PICK y \in Nat : y = (Len(s) - 1) * DataWords
    BY <1>1
  <2>2. y + t \in Nat
    BY <1>1
  <2> QED
    BY <2>1, <2>2
<1>5. memory[s[Len(s)]][t - e] = At(s, memory, z - e)
  <2>1. PICK i \in Nat, r \in 0..(DataWords - 1) : i = Len(s) - 1 /\ r = t - e
    <3>1. Len(s) - 1 \in Nat
      BY <1>1
    <3> QED
      BY <1>3, <3>1
  <2>2. At(s, memory, i * DataWords + r) = memory[s[i + 1]][r]
    BY WordAt, Zenon
  <2>3. i + 1 = Len(s)
    BY <1>1, <2>1
  <2>5. i * DataWords = y
    BY <1>4, <2>1
  <2>4. y + r = z - e
    <3>1. t \in Int /\ e \in Int /\ z = y + t /\ r = t - e
      BY <1>1, <1>4, <2>1
    <3> HIDE DEF t, e
    <3> QED
      BY <3>1
  <2> QED
    BY <2>1, <2>2, <2>3, <2>4, <2>5
<1>6. Span(s, h, t - e) = Span(s, h, t) - e
  BY <1>1 DEF Span
<1>7. \A m \in List \ {l} : segments'[m] = segments[m] /\ tail'[m] = tail[m]
  BY <1>2 DEF RefInv, OffsetInv
<1>8. z = (Len(s) - 1) * DataWords + t
  BY <1>4
<1> QED
  BY <1>1, <1>2, <1>5, <1>6, <1>7, <1>8, PopBackOfDeque

(* pop_back past an empty last segment. *)
LEMMA PopBackSlowRefines ==
  ASSUME RefInv, OffsetInv', \A l \in List : Aligned(l, DataWords),
         NULL \notin Seq(Value \cup {NULL}), NEW l \in List, PopBackSlow(l)
  PROVE  MemInv' /\ Abstract!PopBack(l)
<1> DEFINE s == segments[l]
           h == head[l]
           t == tail[l]
           e == ElemWords[l]
           front == SubSeq(s, 1, Len(s) - 1)
<1>1. /\ s # <<>> /\ s \in Seq(Page) /\ t = 0
      /\ Len(s) \in Nat \ {0} /\ h \in 0..(DataWords - 1)
      /\ DataWords \in Nat \ {0} /\ e \in Nat \ {0} /\ (Len(s) - 1) * DataWords \in Nat
  BY InUseShape DEF PopBackSlow, InUse
<1>2. Len(s) > 1
  <2>1. Len(s) = 1 => h <= t
    BY <1>1, DequeFacts DEF RefInv, Fits
  <2>2. ~(Len(s) = 1 /\ h = t)
    BY DEF PopBackSlow, isEmpty
  <2>3. PICK n \in Nat \ {0}, i \in Nat : n = Len(s) /\ i = h
    BY <1>1
  <2>4. (n = 1 => i <= 0) /\ ~(n = 1 /\ i = 0)
    BY <1>1, <2>1, <2>2, <2>3
  <2>5. n > 1
    BY <2>4
  <2> QED
    BY <2>3, <2>5
<1>3. /\ segments' = [segments EXCEPT ![l] = front] /\ segments'[l] = front
      /\ head' = head /\ memory' = memory
      /\ tail' = [tail EXCEPT ![l] = DataWords - e] /\ tail'[l] = DataWords - e
      /\ result' = [result EXCEPT ![l] = memory[s[Len(s) - 1]][DataWords - e]]
  BY DEF PopBackSlow, RefInv, OffsetInv
<1>4. /\ front \in Seq(Page) /\ Len(front) = Len(s) - 1
      /\ \A w \in Nat : w < (Len(s) - 1) * DataWords
           => At(front, memory, w) = At(s, memory, w)
  BY <1>1, <1>2, WordsOfFront
<1> HIDE DEF front
<1>5. DataWords - e \in 0..(DataWords - 1)
  <2>1. DataWords - e \in Nat
    BY <1>3 DEF OffsetInv
  <2> QED
    BY <1>1, <2>1
<1>6. PICK x \in Int, y \in Nat :
        /\ x = (Len(s) - 1 - 1) * DataWords /\ y = (Len(s) - 1) * DataWords
        /\ y = x + DataWords
  <2>1. (Len(s) - 1) * DataWords = (Len(s) - 1 - 1) * DataWords + DataWords
    BY <1>1
  <2>2. (Len(s) - 1 - 1) * DataWords \in Int
    BY <1>1
  <2> QED
    BY <1>1, <2>1, <2>2
<1>7. memory[s[Len(s) - 1]][DataWords - e] = At(s, memory, y - e)
  <2>1. PICK i \in Nat, r \in 0..(DataWords - 1) : i = Len(s) - 1 - 1 /\ r = DataWords - e
    <3>1. Len(s) - 1 - 1 \in Nat
      BY <1>1, <1>2
    <3> QED
      BY <1>5, <3>1
  <2>2. At(s, memory, i * DataWords + r) = memory[s[i + 1]][r]
    BY WordAt, Zenon
  <2>3. i + 1 = Len(s) - 1 /\ i * DataWords = x
    BY <1>1, <1>6, <2>1
  <2>4. x + r = y - e
    BY <1>1, <1>6, <2>1
  <2> QED
    BY <2>1, <2>2, <2>3, <2>4
<1>8. Span(front, h, DataWords - e) = Span(s, h, t) - e
  <2>1. Span(front, h, DataWords - e) = x + (DataWords - e) - h
    BY <1>4, <1>6 DEF Span
  <2>2. Span(s, h, t) = y + 0 - h
    BY <1>1, <1>6 DEF Span
  <2> QED
    BY <1>1, <1>6, <2>1, <2>2
<1>9. front # <<>>
  BY <1>1, <1>2, <1>4, EmptySeq
<1>10. ASSUME NEW w \in Nat, w + e < y
       PROVE  At(front, memory, w) = At(s, memory, w)
  <2>1. w < y
    BY <1>1, <1>10
  <2> QED
    BY <1>4, <1>6, <2>1
<1>11. \A m \in List \ {l} : segments'[m] = segments[m] /\ tail'[m] = tail[m]
  BY <1>3 DEF RefInv, OffsetInv
<1>12. y = (Len(s) - 1) * DataWords + t
  BY <1>1, <1>6
<1> QED
  BY <1>1, <1>3, <1>7, <1>8, <1>9, <1>10, <1>11, <1>12, PopBackOfDeque

-----------------------------------------------------------------------------
(* Each careful step of the lists is one of the sequences, or none. *)
LEMMA DequeStep ==
  ASSUME RefInv, [CarefulNext]_allListVars, \A l \in List : Aligned(l, DataWords),
         NULL \notin Seq(Value \cup {NULL})
  PROVE  RefInv' /\ (Abstract!Next \/ UNCHANGED <<deques, result>>)
<1>1. OffsetInv'
  BY OffsetInvStep DEF RefInv
<1>2. OwnInv'
  <2>1. [ListNext]_allListVars
    BY DEF CarefulNext, ListNext
  <2> QED
    BY <2>1, OwnInvStep DEF RefInv
<1>3. CASE UNCHANGED allListVars
  <2>1. MemInv' /\ UNCHANGED result
    BY <1>3 DEF RefInv, MemInv, allListVars, listVars
  <2>2. UNCHANGED deques
    BY <1>3 DEF deques, Deque, InUse, Elements, WordsHeld, ElementAt, allListVars, listVars
  <2> QED
    BY <1>1, <1>2, <2>1, <2>2 DEF RefInv
<1>4. ASSUME NEW l \in List, Operate(l)
      PROVE  MemInv' /\ Abstract!Next
  <2>1. CASE initialize(l)
    BY <1>1, <2>1, InitializeRefines DEF Abstract!Next
  <2>2. CASE clear(l)
    BY <1>1, <2>2, ClearRefines DEF Abstract!Next
  <2>3. ASSUME NEW v \in Value, PushBackFast(l, v)
        PROVE  MemInv' /\ Abstract!Next
    BY <1>1, <2>3, PushBackFastRefines DEF Abstract!Next
  <2>4. ASSUME NEW v \in Value, PushBackSlow(l, v)
        PROVE  MemInv' /\ Abstract!Next
    BY <1>1, <2>4, PushBackSlowRefines DEF Abstract!Next
  <2> QED
    BY <1>4, <2>1, <2>2, <2>3, <2>4 DEF Operate
<1>5. ASSUME NEW l \in List, ~EmptiesFullSegment(l), PopFront(l)
      PROVE  MemInv' /\ Abstract!Next
  <2>1. MemInv' /\ Abstract!PopFront(l)
    BY <1>1, <1>5, PopFrontFastRefines, PopFrontSlowRefines DEF PopFront
  <2> QED
    BY <2>1 DEF Abstract!Next
<1>6. ASSUME NEW l \in List, PopBack(l)
      PROVE  MemInv' /\ Abstract!Next
  <2>1. MemInv' /\ Abstract!PopBack(l)
    BY <1>1, <1>6, PopBackFastRefines, PopBackSlowRefines DEF PopBack
  <2> QED
    BY <2>1 DEF Abstract!Next
<1>7. CASE CarefulNext
  <2>1. MemInv' /\ Abstract!Next
    BY <1>4, <1>5, <1>6, <1>7, ListAssumption DEF CarefulNext
  <2> QED
    BY <1>1, <1>2, <2>1 DEF RefInv
<1> QED
  BY <1>3, <1>7

(* Before any list is in use, no sequence is. *)
LEMMA DequeInit == ListInit => RefInv /\ Abstract!Init
<1> SUFFICES ASSUME ListInit PROVE RefInv /\ Abstract!Init
  OBVIOUS
<1>1. OwnInv /\ OffsetInv
  BY OwnInvInit, OffsetInvInit
<1>2. MemInv
  BY DEF ListInit, MemInv, Memory
<1>3. \A l \in List : segments[l] = <<>>
  BY DEF ListInit
<1>4. Abstract!Init
  BY <1>3 DEF Abstract!Init, InUse, ListInit
<1> QED
  BY <1>1, <1>2, <1>4 DEF RefInv

(***************************************************************************)
(* If the elements of every list fill a segment to its last word, no       *)
(* pop_front empties a full only segment and nullptr is not a sequence,    *)
(* the lists of arraylist.h do to the words of their segments exactly what *)
(* is expected of independent sequences.  The first condition is true of   *)
(* the lists of pointers, not of visit_stack.                              *)
(***************************************************************************)
THEOREM AlignedListsAreDeques ==
  ASSUME \A l \in List : Aligned(l, DataWords), NULL \notin Seq(Value \cup {NULL})
  PROVE  CarefulSpec => ImplementsDeques
<1>1. RefInv /\ [CarefulNext]_allListVars
        => RefInv' /\ [Abstract!Next]_<<deques, result>>
  BY DequeStep
<1>2. RefInv /\ [CarefulNext]_allListVars => RefInv'
  BY DequeStep
<1> QED
  BY <1>1, <1>2, DequeInit, PTL DEF CarefulSpec, ImplementsDeques, Abstract!Spec, deques, Deque

-----------------------------------------------------------------------------
(***************************************************************************)
(* The layout of a page.                                                   *)
(*                                                                         *)
(* An address is the word k of an entry i (WordOfEntry), a product and a   *)
(* sum.  The first lemmas say that no two such places are one word, and    *)
(* that all of them lie before the end of the page; after them no proof    *)
(* needs arithmetic on addresses but within one entry.                     *)
(*                                                                         *)
(* LayoutInv says of each entry what its flags and canaries are            *)
(* (EntryInv), that nothing is written behind the last (TailInv), and that *)
(* the freelist is a sequence of entries without objects (FreelistIs).     *)
(* Each step writes to the entries of a set only (OthersKept); what it     *)
(* does to the freelist is to take its first entry, to put one in front of *)
(* it, to leave it alone, or to lay it anew (LaidThrough).                 *)
(***************************************************************************)

(* Word k of entry i. *)
WordOfEntry(i, k) == i * realsize + k

(* The entries with an object. *)
ObjectAt(i) == WordOfEntry(i, canary + MetaWords)
Holding == {i \in Index : ObjectAt(i) \in objects}

(* The sizes are such as the code relies on. *)
SizesOK ==
  /\ canary \in CanarySizes
  /\ allocsize \in AllocSizes
  /\ entrycount > 0
  /\ TailReadable(allocsize)

LayoutTypeOK ==
  /\ SizesOK
  /\ mem = [a \in Address |-> mem[a]]
  /\ freecount \in Nat
  /\ objects \subseteq {ObjectAt(i) : i \in Index}

(* The words of entry i: its flags tell whether it holds an object.        *)
EntryInv(i) ==
  /\ mem[WordOfEntry(i, canary + 1)].is \in
       IF i \in Holding THEN {"alloc"} ELSE {"free", "zero"}
  /\ i \in Holding /\ canary > 0 =>
       /\ mem[WordOfEntry(i, 0)].is = "canary"
       /\ mem[WordOfEntry(i, canary + MetaWords + allocsize)].is = "canary"

(* Nothing is written behind the last entry. *)
TailInv == \A a \in Address : getIndexForObjectInPage(a) = entrycount => mem[a] = Plain("zero")

(* The freelist is s: entry after entry, none twice, none with an object.  *)
EntryAfter(s, n, k) == IF k = n THEN Nullptr ELSE WordOfEntry(s[k + 1], 0)
FreelistIs(s) ==
  /\ freelist = EntryAfter(s, freecount, 0)
  /\ \A k \in 1..freecount : mem[WordOfEntry(s[k], 0)] = Link(EntryAfter(s, freecount, k))
  /\ \A k \in 1..freecount : s[k] \notin Holding
  /\ \A j, k \in 1..freecount : s[j] = s[k] => j = k

LayoutInv ==
  /\ LayoutTypeOK
  /\ \A i \in Index : EntryInv(i)
  /\ TailInv
  /\ \E s \in [1..freecount -> Index] : FreelistIs(s)

-----------------------------------------------------------------------------
(* The sizes. *)
LEMMA Sizes ==
  ASSUME SizesOK
  PROVE  /\ realsize \in Nat /\ canary \in Nat /\ allocsize \in Nat
         /\ PageWords \in Nat
         /\ allocsize > 0
         /\ realsize = canary + allocsize + 3 + canary
         /\ entrycount \in Nat /\ entrycount > 0
         /\ entrycount * realsize + (PageWords % realsize) = PageWords
         /\ (PageWords % realsize) \in 0..(realsize - 1)
<1>1. /\ canary \in Nat /\ allocsize \in Nat /\ allocsize > 0 /\ PageWords \in Nat
  BY LayoutAssumption DEF SizesOK
<1>2. realsize = canary + allocsize + 3 + canary
  BY DEF realsize, REAL_ENTRY_SIZE, MetaWords
<1>3. realsize \in Nat /\ realsize > 0
  BY <1>1, <1>2
<1>4. entrycount = PageWords \div realsize
  BY DEF entrycount, EntryCount, realsize
<1> HIDE DEF realsize, entrycount
<1>5. /\ PageWords \div realsize \in Int /\ (PageWords % realsize) \in 0..(realsize - 1)
      /\ (PageWords \div realsize) * realsize + (PageWords % realsize) = PageWords
  BY <1>1, <1>3
<1>6. entrycount > 0
  BY DEF SizesOK
<1> QED
  BY <1>1, <1>2, <1>3, <1>4, <1>5, <1>6

(* Each word of an entry lies in the page, and in that entry.              *)
LEMMA WordsOfEntries ==
  ASSUME SizesOK, NEW i \in Index, NEW k \in 0..(realsize - 1)
  PROVE  /\ WordOfEntry(i, k) \in 0..(PageWords - 1)
         /\ WordOfEntry(i, k) \in Address
         /\ WordOfEntry(i, k) \div realsize = i
         /\ WordOfEntry(i, k) % realsize = k
<1>1. /\ realsize \in Nat /\ entrycount \in Nat /\ PageWords \in Nat
      /\ realsize > 0
      /\ entrycount * realsize + (PageWords % realsize) = PageWords
      /\ (PageWords % realsize) \in 0..(realsize - 1)
  BY Sizes
<1>2. i \in Nat /\ i < entrycount /\ k \in Nat /\ k < realsize
  BY <1>1 DEF Index
<1> HIDE DEF realsize, entrycount
<1>3. i * realsize + realsize <= entrycount * realsize
  BY <1>1, <1>2, MulOrder
<1>4. i * realsize \in Nat
  BY <1>1, <1>2
<1>5. entrycount * realsize \in Nat
  BY <1>1
<1>6. i * realsize + k < PageWords
  <2> DEFINE x == i * realsize
             y == entrycount * realsize
             z == (PageWords % realsize)
  <2>1. x + realsize <= y /\ y + z = PageWords /\ z \in Nat /\ x \in Nat /\ y \in Nat
    BY <1>1, <1>3, <1>4, <1>5
  <2> HIDE DEF x, y, z
  <2>2. x + k < PageWords
    BY <2>1, <1>1, <1>2
  <2> QED
    BY <2>2 DEF x
<1>7. WordOfEntry(i, k) = i * realsize + k /\ WordOfEntry(i, k) \in Nat
  BY <1>2, <1>4 DEF WordOfEntry
<1>8. WordOfEntry(i, k) < PageWords
  BY <1>6, <1>7
<1>9. WordOfEntry(i, k) \in 0..(PageWords - 1) /\ WordOfEntry(i, k) \in Address
  BY <1>1, <1>7, <1>8 DEF Address
<1>10. realsize \in Nat \ {0} /\ k \in 0..(realsize - 1)
  BY <1>1
<1>11. \A w \in Nat : w = i * realsize + k => w \div realsize = i /\ w % realsize = k
  BY <1>2, <1>10, DivMod
<1>12. WordOfEntry(i, k) \div realsize = i /\ WordOfEntry(i, k) % realsize = k
  BY <1>7, <1>11, Zenon
<1> QED
  BY <1>9, <1>12

(* A word of the page is a word of an entry or lies behind the last.       *)
LEMMA IndexOfWord ==
  ASSUME SizesOK, NEW a \in 0..(PageWords - 1)
  PROVE  /\ a % realsize \in 0..(realsize - 1)
         /\ a = (a \div realsize) * realsize + (a % realsize)
         /\ \/ a \div realsize \in Index
            \/ a \div realsize = entrycount
<1>1. /\ realsize \in Nat /\ entrycount \in Nat /\ PageWords \in Nat
      /\ realsize > 0
      /\ entrycount * realsize + (PageWords % realsize) = PageWords
      /\ (PageWords % realsize) \in 0..(realsize - 1)
  BY Sizes
<1> HIDE DEF realsize, entrycount
<1>2. /\ a \div realsize \in Int /\ a % realsize \in 0..(realsize - 1)
      /\ a = (a \div realsize) * realsize + (a % realsize)
  BY <1>1
<1> DEFINE q == a \div realsize
<1>3. q >= 0
  <2> SUFFICES ASSUME q < 0 PROVE FALSE
    BY <1>2
  <2>1. q * realsize + realsize <= 0 * realsize
    BY <1>1, <1>2, MulOrder
  <2>2. q * realsize \in Int /\ 0 * realsize = 0
    BY <1>1, <1>2
  <2> QED
    BY <1>1, <1>2, <2>1, <2>2
<1>4. q <= entrycount
  <2> SUFFICES ASSUME entrycount < q PROVE FALSE
    BY <1>1, <1>2
  <2>1. entrycount * realsize + realsize <= q * realsize
    BY <1>1, <1>2, MulOrder
  <2>2. q * realsize \in Int /\ entrycount * realsize \in Int
    BY <1>1, <1>2
  <2> DEFINE x == entrycount * realsize
             y == q * realsize
             z == (PageWords % realsize)
             r == a % realsize
  <2>3. /\ x + z = PageWords /\ z < realsize /\ z \in Nat /\ a = y + r /\ r \in Nat /\ a < PageWords
        /\ x + realsize <= y /\ x \in Int /\ y \in Int
    BY <1>1, <1>2, <2>1, <2>2
  <2> HIDE DEF x, y, z, q, r
  <2> QED
    BY <2>3, <1>1
<1>5. q \in Index \/ q = entrycount
  BY <1>1, <1>2, <1>3, <1>4 DEF Index
<1> QED
  BY <1>2, <1>5

(* A word further on in an entry. *)
LEMMA WordPlus ==
  ASSUME SizesOK, NEW i \in Nat, NEW k \in Nat, NEW l \in Int
  PROVE  WordOfEntry(i, k) + l = WordOfEntry(i, k + l)
<1>1. realsize \in Nat
  BY Sizes
<1> HIDE DEF realsize
<1>2. i * realsize \in Nat
  BY <1>1
<1> DEFINE x == i * realsize
<1>3. (x + k) + l = x + (k + l)
  <2>1. x \in Nat
    BY <1>2
  <2> HIDE DEF x
  <2> QED
    BY <2>1
<1> QED
  BY <1>3 DEF WordOfEntry

(* What the code calls these words. *)
LEMMA EntryWords ==
  ASSUME SizesOK, NEW i \in Nat
  PROVE  /\ getMetaEntryAtIndex(i) = WordOfEntry(i, canary)
         /\ getMetaEntryAtIndex(i) + 1 = WordOfEntry(i, canary + 1)
         /\ ObjectOf(getMetaEntryAtIndex(i)) = ObjectAt(i)
         /\ getFreelistEntryAtIndex(i) = WordOfEntry(i, 0)
         /\ ObjectAt(i) = WordOfEntry(i, canary + MetaWords)
<1>1. realsize \in Nat /\ canary \in Nat
  BY Sizes
<1>2. getMetaEntryAtIndex(i) = WordOfEntry(i, canary)
  BY Zenon DEF getMetaEntryAtIndex, WordOfEntry
<1>3. WordOfEntry(i, canary) + 1 = WordOfEntry(i, canary + 1)
  BY <1>1, WordPlus
<1>4. WordOfEntry(i, canary) + 3 = WordOfEntry(i, canary + 3)
  BY <1>1, WordPlus
<1>5. getFreelistEntryAtIndex(i) = WordOfEntry(i, 0)
  <2> HIDE DEF realsize
  <2>1. i * realsize \in Nat
    BY <1>1
  <2> DEFINE x == i * realsize
  <2>2. x = x + 0
    <3>1. x \in Nat
      BY <2>1
    <3> HIDE DEF x
    <3> QED
      BY <3>1
  <2> QED
    BY <2>2 DEF WordOfEntry, getFreelistEntryAtIndex
<1> QED
  BY <1>2, <1>3, <1>4, <1>5, Zenon DEF ObjectAt, ObjectOf, MetaWords

(* Different places in entries are different words. *)
LEMMA PlacesDiffer ==
  ASSUME SizesOK, NEW i \in Index, NEW k \in 0..(realsize - 1),
         NEW j \in Index, NEW l \in 0..(realsize - 1),
         WordOfEntry(i, k) = WordOfEntry(j, l)
  PROVE  i = j /\ k = l
<1>1. WordOfEntry(i, k) \div realsize = i /\ WordOfEntry(i, k) % realsize = k
  BY WordsOfEntries, Zenon
<1>2. WordOfEntry(j, l) \div realsize = j /\ WordOfEntry(j, l) % realsize = l
  BY WordsOfEntries, Zenon
<1> QED
  BY <1>1, <1>2, Zenon

(* The words of an entry that have a meaning are words of it. *)
LEMMA Offsets ==
  ASSUME SizesOK
  PROVE  /\ 0 \in 0..(realsize - 1)
         /\ canary \in 0..(realsize - 1)
         /\ canary + 1 \in 0..(realsize - 1)
         /\ canary + 2 \in 0..(realsize - 1)
         /\ canary + MetaWords \in 0..(realsize - 1)
         /\ canary > 0 => canary + MetaWords + allocsize \in 0..(realsize - 1)
         /\ Index \subseteq Nat
         /\ entrycount \in Nat
         /\ entrycount \notin Index
<1>1. /\ realsize \in Nat /\ canary \in Nat /\ allocsize \in Nat
      /\ allocsize > 0 /\ realsize = canary + allocsize + 3 + canary
      /\ entrycount \in Nat
  BY Sizes
<1> HIDE DEF realsize, entrycount
<1>2. Index \subseteq Nat /\ entrycount \notin Index
  BY <1>1 DEF Index
<1> QED
  BY <1>1, <1>2 DEF MetaWords

(* An object's address tells its entry, and the entry the address.         *)
LEMMA ObjectsIndex ==
  ASSUME LayoutTypeOK
  PROVE  /\ \A i \in Index : ObjectAt(i) \div realsize = i /\ ObjectAt(i) \in 0..(PageWords - 1)
         /\ \A obj \in objects :
              /\ getIndexForObjectInPage(obj) \in Holding
              /\ obj = ObjectAt(getIndexForObjectInPage(obj))
         /\ \A i \in Holding : i \in Index /\ ObjectAt(i) \in objects
<1>0. SizesOK
  BY DEF LayoutTypeOK
<1>1. \A i \in Index : ObjectAt(i) \div realsize = i /\ ObjectAt(i) \in 0..(PageWords - 1)
  BY <1>0, WordsOfEntries, Offsets, Zenon DEF ObjectAt
<1>2. ASSUME NEW obj \in objects
      PROVE  /\ getIndexForObjectInPage(obj) \in Holding
             /\ obj = ObjectAt(getIndexForObjectInPage(obj))
  <2>1. PICK i \in Index : obj = ObjectAt(i)
    BY DEF LayoutTypeOK
  <2>2. obj \div realsize = i
    BY <1>1, <2>1, Zenon
  <2> QED
    BY <2>1, <2>2, Zenon DEF Holding, getIndexForObjectInPage
<1> QED
  BY <1>1, <1>2, Zenon DEF Holding

(* The flags of an entry tell whether an object is there.                  *)
LEMMA FlagsTell ==
  ASSUME LayoutInv, NEW i \in Index
  PROVE  /\ i \in Holding => IsAlloc(getMetaEntryAtIndex(i)) = {TRUE}
         /\ i \notin Holding => IsAlloc(getMetaEntryAtIndex(i)) = {FALSE}
<1>1. LayoutTypeOK /\ SizesOK /\ EntryInv(i)
  BY DEF LayoutInv, LayoutTypeOK
<1>2. i \in Nat
  BY <1>1, Offsets
<1>3. getMetaEntryAtIndex(i) + 1 = WordOfEntry(i, canary + 1)
  BY <1>1, <1>2, EntryWords, Zenon
<1>4. WordOfEntry(i, canary + 1) \in Address
  BY <1>1, Offsets, WordsOfEntries, Zenon
<1> DEFINE f == WordOfEntry(i, canary + 1)
<1>5. /\ i \in Holding => mem[f].is = "alloc"
      /\ i \notin Holding => mem[f].is \in {"free", "zero"}
  BY <1>1, Zenon DEF EntryInv
<1> HIDE DEF f
<1>6. mem[f].is \in {"alloc", "free", "zero"} /\ f \in Address
  BY <1>4, <1>5 DEF f
<1>7. IsAlloc(getMetaEntryAtIndex(i)) = {mem[f].is = "alloc"}
  BY <1>3, <1>6, Zenon DEF IsAlloc, f
<1>8. i \in Holding => (mem[f].is = "alloc") = TRUE
  BY <1>5
<1>9. i \notin Holding => (mem[f].is = "alloc") = FALSE
  BY <1>5
<1> QED
  BY <1>7, <1>8, <1>9, Zenon

(* Behind the last entry the flags that a scan reads are those of none.    *)
LEMMA TailTells ==
  ASSUME LayoutInv, PageWords % realsize # 0
  PROVE  IsAlloc(getMetaEntryAtIndex(entrycount)) = {FALSE}
<1>1. LayoutTypeOK /\ SizesOK /\ TailInv
  BY DEF LayoutInv, LayoutTypeOK
<1>2. /\ realsize \in Nat /\ entrycount \in Nat /\ PageWords \in Nat /\ canary \in Nat
      /\ realsize > 0
      /\ entrycount * realsize + (PageWords % realsize) = PageWords
      /\ (PageWords % realsize) \in 0..(realsize - 1)
  BY <1>1, Sizes
<1>3. (PageWords % realsize) > canary + 1
  BY <1>1 DEF SizesOK, TailReadable, realsize
<1> HIDE DEF realsize, entrycount
<1>4. getMetaEntryAtIndex(entrycount) + 1 = WordOfEntry(entrycount, canary + 1)
  BY <1>1, <1>2, EntryWords, Zenon
<1>5. WordOfEntry(entrycount, canary + 1) \in Address
  <2> DEFINE x == entrycount * realsize
             z == PageWords % realsize
  <2>1. x \in Nat
    BY <1>2
  <2>2. z \in Nat /\ x + z = PageWords /\ z > canary + 1
    BY <1>2, <1>3
  <2> HIDE DEF x, z
  <2>3. x + (canary + 1) \in 0..PageWords
    BY <1>2, <2>1, <2>2
  <2> QED
    BY <2>3 DEF x, WordOfEntry, Address
<1>6. WordOfEntry(entrycount, canary + 1) \div realsize = entrycount
  <2>1. realsize \in Nat \ {0} /\ canary + 1 \in 0..(realsize - 1)
    BY <1>1, <1>2, Offsets
  <2>2. \A w \in Nat : w = entrycount * realsize + (canary + 1) => w \div realsize = entrycount
    BY <1>2, <2>1, DivMod
  <2>3. WordOfEntry(entrycount, canary + 1) \in Nat
    BY <1>2, <1>5 DEF Address
  <2> QED
    BY <2>2, <2>3, Zenon DEF WordOfEntry
<1>7. mem[WordOfEntry(entrycount, canary + 1)] = Plain("zero")
  BY <1>1, <1>5, <1>6, Zenon DEF TailInv, getIndexForObjectInPage
<1> DEFINE f == WordOfEntry(entrycount, canary + 1)
<1>8. mem[f].is = "zero" /\ f \in Address
  BY <1>5, <1>7 DEF Plain
<1> HIDE DEF f
<1>9. IsAlloc(getMetaEntryAtIndex(entrycount)) = {mem[f].is = "alloc"}
  <2>1. mem[f].is \in {"alloc", "free", "zero"}
    BY <1>8
  <2> QED
    BY <1>4, <1>8, <2>1, Zenon DEF IsAlloc, f
<1>10. (mem[f].is = "alloc") = FALSE
  BY <1>8
<1> QED
  BY <1>9, <1>10, Zenon

(* What the invariant says about scans. *)
LEMMA ScanFinds ==
  ASSUME LayoutInv
  PROVE  ScanFindsTheObject
<1>1. LayoutTypeOK /\ SizesOK
  BY DEF LayoutInv, LayoutTypeOK
<1> SUFFICES ASSUME NEW a \in 0..(PageWords - 1)
    PROVE checkPotentialPtr(a) =
      {LET found == {obj \in objects :
                       getIndexForObjectInPage(obj) = getIndexForObjectInPage(a)}
       IN IF found = {} THEN Nullptr ELSE CHOOSE obj \in found : TRUE}
  BY DEF ScanFindsTheObject
<1> DEFINE q == getIndexForObjectInPage(a)
           found == {obj \in objects : getIndexForObjectInPage(obj) = q}
<1>2. q \in Index \/ q = entrycount
  BY <1>1, IndexOfWord, Zenon DEF getIndexForObjectInPage
<1>3. CASE q \in Index
  <2>1. /\ q \in Holding => IsAlloc(getMetaEntryAtIndex(q)) = {TRUE}
        /\ q \notin Holding => IsAlloc(getMetaEntryAtIndex(q)) = {FALSE}
    BY <1>3, FlagsTell, Zenon
  <2>2. q \in Nat
    BY <1>1, <1>3, Offsets
  <2>3. ObjectOf(getMetaEntryAtIndex(q)) = ObjectAt(q)
    BY <1>1, <2>2, EntryWords, Zenon
  <2>4. CASE q \in Holding
    <3>1. found = {ObjectAt(q)}
      <4>1. ObjectAt(q) \in found
        BY <1>1, <2>4, ObjectsIndex, Zenon DEF getIndexForObjectInPage
      <4>2. \A obj \in found : obj = ObjectAt(q)
        BY <1>1, ObjectsIndex, Zenon
      <4> QED
        BY <4>1, <4>2, Zenon
    <3>2. (CHOOSE obj \in {ObjectAt(q)} : TRUE) = ObjectAt(q)
      BY Zenon
    <3>3. checkPotentialPtr(a) = {ObjectAt(q)}
      <4>1. checkPotentialPtr(a) = {IF fnd THEN ObjectAt(q) ELSE Nullptr : fnd \in {TRUE}}
        BY <2>1, <2>3, <2>4, Zenon DEF checkPotentialPtr
      <4> QED
        BY <4>1, Zenon
    <3> HIDE DEF found, q
    <3> QED
      BY <3>1, <3>2, <3>3 DEF found, q
  <2>5. CASE q \notin Holding
    <3>1. found = {}
      BY <1>1, <2>5, ObjectsIndex, Zenon
    <3>2. checkPotentialPtr(a) = {Nullptr}
      <4>1. checkPotentialPtr(a) = {IF fnd THEN ObjectAt(q) ELSE Nullptr : fnd \in {FALSE}}
        BY <2>1, <2>3, <2>5, Zenon DEF checkPotentialPtr
      <4> QED
        BY <4>1, Zenon
    <3> QED
      BY <3>1, <3>2, Zenon
  <2> QED
    BY <2>4, <2>5
<1>4. CASE q = entrycount
  <2>1. found = {}
    BY <1>1, <1>4, ObjectsIndex, Offsets, Zenon
  <2>2. PageWords % realsize # 0
    <3> SUFFICES ASSUME PageWords % realsize = 0 PROVE FALSE
      OBVIOUS
    <3>1. /\ realsize \in Nat /\ entrycount \in Nat /\ PageWords \in Nat
          /\ entrycount * realsize + (PageWords % realsize) = PageWords
      BY <1>1, Sizes
    <3>2. /\ (a % realsize) \in Nat /\ a < PageWords
          /\ a = entrycount * realsize + (a % realsize)
      <4>1. /\ a % realsize \in 0..(realsize - 1)
            /\ a = (a \div realsize) * realsize + (a % realsize)
        BY <1>1, IndexOfWord, Zenon
      <4>2. a \div realsize = entrycount
        BY <1>4, Zenon DEF getIndexForObjectInPage
      <4>3. a = entrycount * realsize + (a % realsize)
        BY <4>1, <4>2, Zenon
      <4>4. (a % realsize) \in Nat /\ a < PageWords
        <5> HIDE DEF realsize
        <5> QED
          BY <3>1, <4>1
      <4> QED
        BY <4>3, <4>4, Zenon
    <3> DEFINE x == entrycount * realsize
               r == a % realsize
               z == PageWords % realsize
    <3>3. x \in Nat
      <4> HIDE DEF realsize, entrycount
      <4> QED
        BY <3>1
    <3>4. x + z = PageWords /\ z = 0 /\ r \in Nat /\ a < PageWords /\ a = x + r
      BY <3>1, <3>2
    <3> HIDE DEF x, r, z
    <3> QED
      BY <3>1, <3>3, <3>4
  <2>3. IsAlloc(getMetaEntryAtIndex(q)) = {FALSE}
    BY <1>4, <2>2, TailTells, Zenon
  <2>4. checkPotentialPtr(a) = {Nullptr}
    <3>1. checkPotentialPtr(a) =
            {IF fnd THEN ObjectOf(getMetaEntryAtIndex(q)) ELSE Nullptr : fnd \in {FALSE}}
      BY <2>3, Zenon DEF checkPotentialPtr
    <3> QED
      BY <3>1, Zenon
  <2> QED
    BY <2>1, <2>4, Zenon
<1> QED
  BY <1>2, <1>3, <1>4

(* One step of the walk along the freelist that at has recorded.           *)
FollowedFrom(at, k) ==
  IF k = 0 THEN freelist
  ELSE LET a == at[k - 1] IN IF a \in Address THEN mem[a].next ELSE Nullptr

(* FollowFreelist is that walk, and comes to these entries (induction).     *)
LEMMA FollowsTheList ==
  ASSUME LayoutTypeOK, NEW s \in [1..freecount -> Index], FreelistIs(s)
  PROVE  \A k \in 0..freecount : FollowFreelist[k] = EntryAfter(s, freecount, k)
<1> DEFINE at == CHOOSE f : f = [k \in 0..freecount |->
                   IF k = 0 THEN freelist
                   ELSE LET a == f[k - 1] IN IF a \in Address THEN mem[a].next ELSE Nullptr]
           w == [k \in 0..freecount |-> EntryAfter(s, freecount, k)]
<1>1. freecount \in Nat /\ SizesOK
  BY DEF LayoutTypeOK
<1>2. ASSUME NEW k \in 1..freecount
      PROVE  /\ k - 1 \in 0..freecount /\ k - 1 # freecount /\ (k - 1) + 1 = k
             /\ EntryAfter(s, freecount, k - 1) = WordOfEntry(s[k], 0)
             /\ EntryAfter(s, freecount, k - 1) \in Address
             /\ mem[EntryAfter(s, freecount, k - 1)].next = EntryAfter(s, freecount, k)
  <2>1. k - 1 \in 0..freecount /\ k - 1 # freecount /\ (k - 1) + 1 = k
    BY <1>1
  <2>2. EntryAfter(s, freecount, k - 1) = WordOfEntry(s[k], 0)
    BY <2>1, Zenon DEF EntryAfter
  <2>3. s[k] \in Index
    OBVIOUS
  <2>4. WordOfEntry(s[k], 0) \in Address
    BY <1>1, <2>3, Offsets, WordsOfEntries, Zenon
  <2>5. mem[WordOfEntry(s[k], 0)] = Link(EntryAfter(s, freecount, k))
    BY Zenon DEF FreelistIs
  <2>6. mem[WordOfEntry(s[k], 0)].next = EntryAfter(s, freecount, k)
    BY <2>5 DEF Link
  <2> QED
    BY <2>1, <2>2, <2>4, <2>6, Zenon
<1>3. ASSUME NEW k \in 0..freecount PROVE w[k] = FollowedFrom(w, k)
  <2>1. CASE k = 0
    BY <2>1, Zenon DEF FollowedFrom, FreelistIs
  <2>2. CASE k # 0
    <3>1. k \in 1..freecount
      BY <1>1, <2>2
    <3>2. w[k - 1] = EntryAfter(s, freecount, k - 1) /\ w[k] = EntryAfter(s, freecount, k)
      BY <1>2, <3>1, Zenon
    <3> HIDE DEF w
    <3> QED
      BY <1>2, <2>2, <3>1, <3>2, Zenon DEF FollowedFrom
  <2> QED
    BY <2>1, <2>2
<1>4. w = [k \in 0..freecount |-> FollowedFrom(w, k)]
  <2>1. w = [k \in 0..freecount |-> w[k]]
    BY Zenon
  <2> HIDE DEF w
  <2> QED
    BY <1>3, <2>1, Zenon
<1>5. at = [k \in 0..freecount |-> FollowedFrom(at, k)]
  <2> HIDE DEF w
  <2> QED
    BY <1>4, Zenon DEF FollowedFrom
<1>6. FollowFreelist = at
  BY Zenon DEF FollowFreelist
<1> HIDE DEF at, w
<1>7. \A k \in 0..freecount : at[k] = FollowedFrom(at, k)
  BY <1>5, Zenon
<1> DEFINE T == {k \in Nat : k \in 0..freecount => at[k] = EntryAfter(s, freecount, k)}
<1>8. 0 \in T
  <2>1. 0 \in 0..freecount => at[0] = EntryAfter(s, freecount, 0)
    BY <1>7, Zenon DEF FollowedFrom, FreelistIs
  <2> QED
    BY <2>1
<1>9. ASSUME NEW k \in Nat, k \in T PROVE k + 1 \in T
  <2> SUFFICES ASSUME k + 1 \in 0..freecount PROVE at[k + 1] = EntryAfter(s, freecount, k + 1)
    OBVIOUS
  <2>1. /\ k \in 0..freecount /\ k + 1 \in 1..freecount /\ (k + 1) - 1 = k /\ k + 1 # 0
    BY <1>1
  <2>2. at[k] = EntryAfter(s, freecount, k)
    BY <1>9, <2>1
  <2>3. /\ EntryAfter(s, freecount, k) \in Address
        /\ mem[EntryAfter(s, freecount, k)].next = EntryAfter(s, freecount, k + 1)
    BY <1>2, <2>1
  <2>4. at[k + 1] = FollowedFrom(at, k + 1)
    BY <1>7, Zenon
  <2> HIDE DEF T
  <2> QED
    BY <2>1, <2>2, <2>3, <2>4, Zenon DEF FollowedFrom
<1>10. \A k \in Nat : k \in T
  <2> HIDE DEF T
  <2> QED
    BY <1>8, <1>9, SetInduction, Zenon
<1>11. \A k \in 0..freecount : k \in Nat
  BY <1>1
<1> QED
  BY <1>6, <1>10, <1>11, Zenon

(* What the invariant says about the freelist. *)
LEMMA ListIsIntact ==
  ASSUME LayoutInv
  PROVE  FreelistIntact
<1>1. LayoutTypeOK /\ SizesOK /\ freecount \in Nat
  BY DEF LayoutInv, LayoutTypeOK
<1>2. PICK s \in [1..freecount -> Index] : FreelistIs(s)
  BY DEF LayoutInv
<1> DEFINE free == {FollowFreelist[k] : k \in 0..(freecount - 1)}
           g == [k \in 1..freecount |-> WordOfEntry(s[k], 0)]
<1>3. \A k \in 0..freecount : FollowFreelist[k] = EntryAfter(s, freecount, k)
  BY <1>1, <1>2, FollowsTheList, Zenon
<1>4. FollowFreelist[freecount] = Nullptr
  <2>1. freecount \in 0..freecount
    BY <1>1
  <2> QED
    BY <1>3, <2>1, Zenon DEF EntryAfter
<1>5. \A k \in 1..freecount :
        /\ k - 1 \in 0..(freecount - 1)
        /\ FollowFreelist[k - 1] = WordOfEntry(s[k], 0)
  <2> SUFFICES ASSUME NEW k \in 1..freecount
      PROVE k - 1 \in 0..(freecount - 1) /\ FollowFreelist[k - 1] = WordOfEntry(s[k], 0)
    OBVIOUS
  <2>1. k - 1 \in 0..(freecount - 1) /\ k - 1 \in 0..freecount /\ k - 1 # freecount /\ (k - 1) + 1 = k
    BY <1>1
  <2> QED
    BY <1>3, <2>1, Zenon DEF EntryAfter
<1>6. \A k \in 0..(freecount - 1) : k + 1 \in 1..freecount /\ (k + 1) - 1 = k
  BY <1>1
<1>7. free = {g[k] : k \in 1..freecount}
  <2>1. ASSUME NEW k \in 1..freecount PROVE g[k] \in free
    BY <1>5, Zenon
  <2>2. ASSUME NEW y \in free
        PROVE  \E j \in 1..freecount : y = g[j]
    <3>1. PICK k \in 0..(freecount - 1) : y = FollowFreelist[k]
      BY Zenon
    <3>2. k + 1 \in 1..freecount /\ (k + 1) - 1 = k
      BY <1>6
    <3>3. FollowFreelist[k] = WordOfEntry(s[k + 1], 0)
      BY <1>5, <3>2, Zenon
    <3> QED
      BY <3>1, <3>2, <3>3, Zenon
  <2> HIDE DEF free, g
  <2> QED
    BY <2>1, <2>2, Zenon
<1>8. Cardinality(free) = freecount
  <2>1. g \in [1..freecount -> free] /\ \A y \in free : \E x \in 1..freecount : g[x] = y
    <3>1. g = [k \in 1..freecount |-> g[k]]
      BY Zenon
    <3> HIDE DEF g, free
    <3> QED
      BY <1>7, <3>1
  <2>2. \A j, k \in 1..freecount : g[j] = g[k] => j = k
    <3> SUFFICES ASSUME NEW j \in 1..freecount, NEW k \in 1..freecount, g[j] = g[k] PROVE j = k
      BY Zenon
    <3>1. s[j] \in Index /\ s[k] \in Index
      OBVIOUS
    <3>2. WordOfEntry(s[j], 0) = WordOfEntry(s[k], 0)
      BY Zenon
    <3>3. s[j] = s[k]
      BY <1>1, <3>1, <3>2, Offsets, PlacesDiffer, Zenon
    <3> QED
      BY <1>2, <3>3, Zenon DEF FreelistIs
  <2> HIDE DEF g, free
  <2>3. g \in Surjection(1..freecount, free) /\ g \in Injection(1..freecount, free)
    BY <2>1, <2>2, Zenon DEF Surjection, Injection, IsInjective
  <2>4. IsFiniteSet(1..freecount) /\ Cardinality(1..freecount) = freecount
    BY <1>1, FS_Interval
  <2> QED
    <3>1. ExistsBijection(1..freecount, free)
      BY <2>3, Zenon DEF ExistsBijection, Bijection
    <3>2. Cardinality(free) = Cardinality(1..freecount)
      BY <2>4, <3>1, FS_Bijection, Zenon
    <3> QED
      BY <2>4, <3>2
<1>9. ASSUME NEW a \in free
      PROVE  /\ \E i \in Index : a = getFreelistEntryAtIndex(i)
             /\ mem[a].is = "link"
             /\ \A obj \in objects : getIndexForObjectInPage(obj) # getIndexForObjectInPage(a)
  <2>1. PICK k \in 1..freecount : a = WordOfEntry(s[k], 0)
    BY <1>7, Zenon
  <2>2. s[k] \in Index /\ s[k] \in Nat
    BY <1>1, Offsets
  <2>3. a = getFreelistEntryAtIndex(s[k])
    BY <1>1, <2>1, <2>2, EntryWords, Zenon
  <2>4. mem[a].is = "link"
    <3>1. mem[a] = Link(EntryAfter(s, freecount, k))
      BY <1>2, <2>1, Zenon DEF FreelistIs
    <3> QED
      BY <3>1 DEF Link
  <2>5. getIndexForObjectInPage(a) = s[k]
    BY <1>1, <2>1, <2>2, Offsets, WordsOfEntries, Zenon DEF getIndexForObjectInPage
  <2>6. \A obj \in objects : getIndexForObjectInPage(obj) # s[k]
    BY <1>1, <1>2, ObjectsIndex, Zenon DEF FreelistIs
  <2> QED
    BY <2>2, <2>3, <2>4, <2>5, <2>6, Zenon
<1> QED
  BY <1>4, <1>8, <1>9, Zenon DEF FreelistIntact

(* What the invariant says about canaries. *)
LEMMA Between ==
  ASSUME LayoutInv
  PROVE  ObjectsBetweenCanaries
<1>1. LayoutTypeOK /\ SizesOK
  BY DEF LayoutInv, LayoutTypeOK
<1>2. mem[PageWords] = Plain("zero")
  <2>1. PageWords \in Address
    BY <1>1, Sizes DEF Address
  <2>2. getIndexForObjectInPage(PageWords) = entrycount
    BY Zenon DEF getIndexForObjectInPage, entrycount, EntryCount, realsize
  <2> QED
    BY <2>1, <2>2, Zenon DEF LayoutInv, TailInv
<1>3. ASSUME NEW obj \in objects
      PROVE  LET entry == getFreelistEntryAtIndex(getIndexForObjectInPage(obj)) IN
             /\ obj + allocsize + canary = entry + realsize
             /\ canary > 0 => mem[entry].is = "canary" /\ mem[obj + allocsize].is = "canary"
  <2> DEFINE i == getIndexForObjectInPage(obj)
  <2>1. i \in Holding /\ obj = ObjectAt(i) /\ i \in Index /\ i \in Nat
    <3>1. i \in Holding /\ obj = ObjectAt(i) /\ i \in Index
      BY <1>1, ObjectsIndex, Zenon
    <3> QED
      BY <1>1, <3>1, Offsets
  <2> HIDE DEF i
  <2>2. getFreelistEntryAtIndex(i) = WordOfEntry(i, 0) /\ obj = WordOfEntry(i, canary + MetaWords)
    BY <1>1, <2>1, EntryWords, Zenon
  <2>3. /\ realsize \in Nat /\ canary \in Nat /\ allocsize \in Nat
        /\ realsize = canary + allocsize + 3 + canary
    BY <1>1, Sizes
  <2>4. obj + allocsize = WordOfEntry(i, canary + MetaWords + allocsize)
    <3>1. canary + MetaWords \in Nat
      BY <2>3 DEF MetaWords
    <3> QED
      BY <1>1, <2>1, <2>2, <2>3, <3>1, WordPlus
  <2>5. obj = WordOfEntry(i, 0) + (canary + MetaWords)
    <3>1. canary + MetaWords \in Nat /\ 0 + (canary + MetaWords) = canary + MetaWords
      BY <2>3 DEF MetaWords
    <3>2. WordOfEntry(i, 0) + (canary + MetaWords) = WordOfEntry(i, 0 + (canary + MetaWords))
      BY <1>1, <2>1, <3>1, WordPlus
    <3> QED
      BY <2>2, <3>1, <3>2
  <2>6. WordOfEntry(i, 0) \in Nat
    BY <1>1, <2>1, Offsets, WordsOfEntries DEF Address
  <2>7. obj + allocsize + canary = WordOfEntry(i, 0) + realsize
    <3> HIDE DEF realsize
    <3> QED
      BY <2>3, <2>5, <2>6 DEF MetaWords
  <2>8. EntryInv(i)
    BY <2>1 DEF LayoutInv
  <2>9. canary > 0 => /\ mem[WordOfEntry(i, 0)].is = "canary"
                      /\ mem[WordOfEntry(i, canary + MetaWords + allocsize)].is = "canary"
    BY <2>1, <2>8, Zenon DEF EntryInv
  <2> QED
    BY <2>2, <2>4, <2>7, <2>9, Zenon DEF i
<1> QED
  BY <1>2, <1>3, Zenon DEF ObjectsBetweenCanaries

(* The elements of a set of numbers in ascending order are s. *)
Ascending(s, I) ==
  /\ s \in [1..Cardinality(I) -> I]
  /\ \A i \in I : \E k \in 1..Cardinality(I) : s[k] = i
  /\ \A j, k \in 1..Cardinality(I) : j < k => s[j] < s[k]

(* Each set of numbers below n can be put in order (induction over n).     *)
LEMMA InOrder ==
  ASSUME NEW n \in Nat, NEW I \in SUBSET (0..(n - 1))
  PROVE  /\ Cardinality(I) \in Nat
         /\ \E s : Ascending(s, I)
<1> DEFINE Good(J) == \E s : Ascending(s, J)
           T == {m \in Nat : \A J \in SUBSET (0..(m - 1)) : Good(J)}
<1>1. ASSUME NEW m \in Nat, NEW J \in SUBSET (0..(m - 1))
      PROVE  IsFiniteSet(J) /\ Cardinality(J) \in Nat
  <2>1. IsFiniteSet(0..(m - 1))
    BY FS_Interval
  <2>2. IsFiniteSet(J)
    BY <2>1, FS_Subset
  <2> QED
    BY <2>2, FS_CardinalityType
<1>2. 0 \in T
  <2> SUFFICES ASSUME NEW J \in SUBSET (0..(0 - 1)) PROVE Good(J)
    OBVIOUS
  <2>1. J = {}
    OBVIOUS
  <2>2. Cardinality(J) = 0
    BY <2>1, FS_EmptySet
  <2> DEFINE s == [k \in 1..0 |-> 0]
  <2>3. 1..0 = {}
    OBVIOUS
  <2>4. s \in [1..0 -> {}]
    BY <2>3, Zenon
  <2> HIDE DEF s
  <2>5. Ascending(s, J)
    BY <2>1, <2>2, <2>3, <2>4, Zenon DEF Ascending
  <2> QED
    BY <2>5, Zenon
<1>3. ASSUME NEW m \in Nat, m \in T PROVE m + 1 \in T
  <2>1. \A J \in SUBSET (0..(m - 1)) : Good(J)
    BY <1>3
  <2> SUFFICES ASSUME NEW J \in SUBSET (0..((m + 1) - 1)) PROVE Good(J)
    OBVIOUS
  <2> DEFINE K == J \ {m}
  <2>2. K \in SUBSET (0..(m - 1))
    OBVIOUS
  <2> HIDE DEF Good
  <2>3. Good(K)
    BY <2>1, <2>2
  <2>4. IsFiniteSet(K) /\ Cardinality(K) \in Nat
    BY <1>1, <2>2
  <2>5. CASE m \notin J
    <3>1. J = K
      BY <2>5
    <3> HIDE DEF K
    <3> QED
      BY <2>3, <3>1, Zenon
  <2>6. CASE m \in J
    <3> DEFINE c == Cardinality(K)
    <3>1. PICK s : Ascending(s, K)
      BY <2>3, Zenon DEF Good
    <3>2. J = K \cup {m} /\ m \notin K
      BY <2>6
    <3> HIDE DEF K
    <3>3. Cardinality(J) = c + 1
      BY <2>4, <3>2, FS_AddElement
    <3>4. c \in Nat
      BY <2>4
    <3> HIDE DEF c
    <3>5. /\ s \in [1..c -> K]
          /\ \A i \in K : \E k \in 1..c : s[k] = i
          /\ \A j, k \in 1..c : j < k => s[j] < s[k]
      BY <3>1, Zenon DEF Ascending, c
    <3> DEFINE r == [k \in 1..(c + 1) |-> IF k = c + 1 THEN m ELSE s[k]]
    <3>6. \A k \in 1..c : r[k] = s[k] /\ k \in 1..(c + 1)
      BY <3>4
    <3>7. r[c + 1] = m /\ c + 1 \in 1..(c + 1)
      BY <3>4
    <3>8. \A k \in 1..(c + 1) : k \in 1..c \/ k = c + 1
      BY <3>4
    <3>9. r = [k \in 1..(c + 1) |-> r[k]]
      BY Zenon
    <3> HIDE DEF r
    <3>10. r \in [1..(c + 1) -> J]
      <4>1. \A k \in 1..(c + 1) : r[k] \in J
        BY <3>2, <3>5, <3>6, <3>7, <3>8
      <4> QED
        BY <3>9, <4>1
    <3>11. \A i \in J : \E k \in 1..(c + 1) : r[k] = i
      BY <3>2, <3>5, <3>6, <3>7, Zenon
    <3>12. ASSUME NEW j \in 1..(c + 1), NEW k \in 1..(c + 1), j < k PROVE r[j] < r[k]
      <4>1. j \in 1..c
        BY <3>4, <3>12
      <4>2. CASE k \in 1..c
        BY <3>5, <3>6, <3>12, <4>1, <4>2
      <4>3. CASE k = c + 1
        <5>1. s[j] \in K /\ r[j] = s[j] /\ r[k] = m
          BY <3>5, <3>6, <3>7, <4>1, <4>3
        <5>2. s[j] \in 0..(m - 1)
          BY <2>2, <5>1, Zenon
        <5>3. s[j] < m
          BY <5>2
        <5> QED
          BY <5>1, <5>3
      <4> QED
        BY <3>8, <4>2, <4>3
    <3>13. Ascending(r, J)
      BY <3>3, <3>10, <3>11, <3>12, Zenon DEF Ascending
    <3> QED
      BY <3>13, Zenon DEF Good
  <2> QED
    BY <2>5, <2>6
<1>4. \A m \in Nat : m \in T
  <2> HIDE DEF T
  <2> QED
    BY <1>2, <1>3, SetInduction, Zenon
<1> HIDE DEF Good
<1>5. Good(I)
  BY <1>4
<1> QED
  BY <1>1, <1>5 DEF Good

(* The entries that a freelist laid through set I starts with, and goes to. *)
FirstOf(J) == IF J = {} THEN Nullptr ELSE (CHOOSE i \in J : \A j \in J : i <= j) * realsize

LinkedMem(m, I) ==
  [a \in DOMAIN m |->
     IF a % realsize = 0 /\ a \div realsize \in I
       THEN Link(FirstOf({j \in I : j > a \div realsize})) ELSE m[a]]

(* Linked in these terms. *)
LEMMA LinkedIs ==
  ASSUME NEW m, NEW I
  PROVE  /\ Linked(m, I, allocsize).list = FirstOf(I)
         /\ Linked(m, I, allocsize).mem = LinkedMem(m, I)
BY Zenon DEF Linked, FirstOf, LinkedMem, realsize

(* The first of a set is the entry before which there is none.             *)
LEMMA FirstIs ==
  ASSUME SizesOK, NEW J \in SUBSET Index, NEW i \in J, \A j \in J : i <= j
  PROVE  FirstOf(J) = WordOfEntry(i, 0)
<1>1. J # {} /\ Index \subseteq Nat
  BY Offsets
<1> DEFINE c == CHOOSE x \in J : \A j \in J : x <= j
<1>2. c \in J /\ \A j \in J : c <= j
  BY Zenon
<1> HIDE DEF c
<1>3. c = i
  BY <1>1, <1>2
<1>4. FirstOf(J) = i * realsize
  BY <1>1, <1>3, Zenon DEF FirstOf, c
<1>5. getFreelistEntryAtIndex(i) = WordOfEntry(i, 0)
  BY <1>1, EntryWords, Zenon
<1> QED
  BY <1>4, <1>5, Zenon DEF getFreelistEntryAtIndex

(* The freelist of page goes through the n entries of I in order s, and    *)
(* nothing else of the words m was written over.                           *)
Laid(page, m, I, n, s) ==
  /\ n \in Nat
  /\ page.mem = [a \in Address |-> page.mem[a]]
  /\ \A a \in Address : a % realsize # 0 \/ a \div realsize \notin I => page.mem[a] = m[a]
  /\ \A k \in 1..n : s[k] \in I
  /\ page.list = EntryAfter(s, n, 0)
  /\ \A k \in 1..n : page.mem[WordOfEntry(s[k], 0)] = Link(EntryAfter(s, n, k))
  /\ \A j, k \in 1..n : s[j] = s[k] => j = k

(* A freelist laid through the entries of I (PageInfo::initialize, rebuild). *)
LEMMA LaidThrough ==
  ASSUME SizesOK, NEW m, DOMAIN m = Address, NEW I \in SUBSET Index
  PROVE  \E s \in [1..Cardinality(I) -> Index] :
           Laid(Linked(m, I, allocsize), m, I, Cardinality(I), s)
<1> DEFINE page == Linked(m, I, allocsize)
           n    == Cardinality(I)
<1>1. page.list = FirstOf(I) /\ page.mem = LinkedMem(m, I)
  BY LinkedIs, Zenon
<1>2. LinkedMem(m, I) = [a \in Address |->
         IF a % realsize = 0 /\ a \div realsize \in I
           THEN Link(FirstOf({j \in I : j > a \div realsize})) ELSE m[a]]
  BY Zenon DEF LinkedMem
<1> DEFINE mm == LinkedMem(m, I)
<1>3. mm = [a \in Address |-> mm[a]]
  BY <1>2, Zenon
<1>4. \A a \in Address : a % realsize # 0 \/ a \div realsize \notin I => mm[a] = m[a]
  BY <1>2, Zenon
<1>5. entrycount \in Nat /\ Index = 0..(entrycount - 1) /\ Index \subseteq Nat
  BY Offsets, Zenon DEF Index
<1>6. n \in Nat /\ \E s : Ascending(s, I)
  BY <1>5, InOrder, Zenon
<1>7. PICK s : Ascending(s, I)
  BY <1>6
<1> HIDE DEF n
<1>8. /\ s \in [1..n -> I]
      /\ \A i \in I : \E k \in 1..n : s[k] = i
      /\ \A j, k \in 1..n : j < k => s[j] < s[k]
  BY <1>7, Zenon DEF Ascending, n
<1>9. \A k \in 1..n : s[k] \in I /\ s[k] \in Index /\ s[k] \in Nat
  BY <1>5, <1>8
<1>10. s \in [1..n -> Index]
  BY <1>8, <1>9
<1>11. \A j, k \in 1..n : s[j] = s[k] => j = k
  <2> SUFFICES ASSUME NEW j \in 1..n, NEW k \in 1..n, s[j] = s[k], j # k PROVE FALSE
    OBVIOUS
  <2>1. j < k \/ k < j
    BY <1>6
  <2>2. s[j] < s[k] \/ s[k] < s[j]
    BY <1>8, <2>1
  <2> QED
    BY <1>9, <2>2
<1>12. \A j, k \in 1..n : j <= k => s[j] <= s[k]
  <2> SUFFICES ASSUME NEW j \in 1..n, NEW k \in 1..n, j <= k, j # k PROVE s[j] <= s[k]
    BY <1>9
  <2>1. j < k
    BY <1>6
  <2> QED
    BY <1>8, <1>9, <2>1
<1>13. FirstOf(I) = EntryAfter(s, n, 0)
  <2>1. CASE n = 0
    <3>1. I = {}
      BY <1>8, <2>1
    <3> QED
      BY <2>1, <3>1, Zenon DEF FirstOf, EntryAfter
  <2>2. CASE n # 0
    <3>1. 1 \in 1..n /\ \A k \in 1..n : 1 <= k
      BY <1>6, <2>2
    <3>2. s[1] \in I /\ \A j \in I : s[1] <= j
      <4>1. ASSUME NEW j \in I PROVE s[1] <= j
        <5>1. PICK k \in 1..n : s[k] = j
          BY <1>8, Zenon
        <5>2. s[1] <= s[k]
          BY <1>12, <3>1, Zenon
        <5> QED
          BY <5>1, <5>2
      <4> QED
        BY <1>9, <3>1, <4>1, Zenon
    <3>3. FirstOf(I) = WordOfEntry(s[1], 0)
      BY <3>2, FirstIs, Zenon
    <3>4. EntryAfter(s, n, 0) = WordOfEntry(s[0 + 1], 0)
      BY <2>2, Zenon DEF EntryAfter
    <3> QED
      BY <3>3, <3>4
  <2> QED
    BY <2>1, <2>2
<1>14. ASSUME NEW k \in 1..n
       PROVE  mm[WordOfEntry(s[k], 0)] = Link(EntryAfter(s, n, k))
  <2> DEFINE J == {j \in I : j > s[k]}
  <2>1. /\ WordOfEntry(s[k], 0) \in Address
        /\ WordOfEntry(s[k], 0) \div realsize = s[k]
        /\ WordOfEntry(s[k], 0) % realsize = 0
    BY <1>9, Offsets, WordsOfEntries, Zenon
  <2>2. mm[WordOfEntry(s[k], 0)] = Link(FirstOf(J))
    BY <1>2, <1>9, <2>1, Zenon
  <2>3. FirstOf(J) = EntryAfter(s, n, k)
    <3>1. CASE k = n
      <4>1. \A j \in 1..n : j <= k
        BY <1>6, <3>1
      <4>2. \A i \in I : i <= s[k]
        BY <1>8, <1>12, <4>1, Zenon
      <4>3. ASSUME NEW i \in I PROVE ~(i > s[k])
        <5>1. i \in Nat /\ s[k] \in Nat
          BY <1>5, <1>9
        <5>2. i <= s[k]
          BY <4>2
        <5> QED
          BY <5>1, <5>2
      <4>4. J = {}
        BY <4>3, Zenon
      <4> QED
        BY <3>1, <4>4, Zenon DEF FirstOf, EntryAfter
    <3>2. CASE k # n
      <4>1. k + 1 \in 1..n /\ k < k + 1
        BY <1>6, <3>2
      <4>2. s[k + 1] \in J
        BY <1>8, <1>9, <4>1
      <4>3. ASSUME NEW i \in J PROVE s[k + 1] <= i
        <5>1. PICK j \in 1..n : s[j] = i
          BY <1>8
        <5>2. ~(j <= k)
          BY <1>9, <1>12, <5>1
        <5>3. k + 1 <= j
          BY <1>6, <5>2
        <5> QED
          BY <1>12, <4>1, <5>1, <5>3
      <4>4. J \in SUBSET Index
        OBVIOUS
      <4> HIDE DEF J
      <4>5. FirstOf(J) = WordOfEntry(s[k + 1], 0)
        BY <4>2, <4>3, <4>4, FirstIs, Zenon
      <4> QED
        BY <3>2, <4>5, Zenon DEF EntryAfter
    <3> QED
      BY <3>1, <3>2
  <2> QED
    BY <2>2, <2>3, Zenon
<1> HIDE DEF page, mm
<1>15. page.list = EntryAfter(s, n, 0) /\ page.mem = mm
  BY <1>1, <1>13, Zenon DEF mm
<1>16. \A k \in 1..n : s[k] \in I
  BY <1>9
<1>17. Laid(page, m, I, n, s)
  BY <1>3, <1>4, <1>6, <1>11, <1>14, <1>15, <1>16, Zenon DEF Laid
<1> QED
  BY <1>10, <1>17, Zenon DEF page, n

(* While the sizes stay the same, so do the addresses. *)
LEMMA SameSizes ==
  ASSUME canary' = canary, allocsize' = allocsize
  PROVE  /\ realsize' = realsize /\ entrycount' = entrycount /\ Index' = Index
         /\ SizesOK => SizesOK'
         /\ \A i, k : WordOfEntry(i, k)' = WordOfEntry(i, k)
         /\ \A i : ObjectAt(i)' = ObjectAt(i)
         /\ \A s, n, k : EntryAfter(s, n, k)' = EntryAfter(s, n, k)
         /\ \A a : getIndexForObjectInPage(a)' = getIndexForObjectInPage(a)
         /\ \A i : i \in Holding' <=> i \in Index /\ ObjectAt(i) \in objects'
<1>1. realsize' = realsize /\ entrycount' = entrycount
  BY Zenon DEF realsize, REAL_ENTRY_SIZE, entrycount, EntryCount
<1>2. Index' = Index
  BY <1>1, Zenon DEF Index
<1>3. TailReadable(allocsize) => TailReadable(allocsize)'
  BY Zenon DEF TailReadable, REAL_ENTRY_SIZE
<1>4. \A i, k : WordOfEntry(i, k)' = WordOfEntry(i, k)
  BY <1>1, Zenon DEF WordOfEntry
<1>5. \A i : ObjectAt(i)' = ObjectAt(i)
  BY <1>1, Zenon DEF WordOfEntry, ObjectAt
<1>6. \A s, n, k : EntryAfter(s, n, k)' = EntryAfter(s, n, k)
  BY <1>1, Zenon DEF WordOfEntry, EntryAfter
<1>7. \A a : getIndexForObjectInPage(a)' = getIndexForObjectInPage(a)
  BY <1>1, Zenon DEF getIndexForObjectInPage
<1>8. Holding' = {i \in Index : ObjectAt(i) \in objects'}
  <2>1. Holding' = {i \in Index' : ObjectAt(i)' \in objects'}
    BY Zenon DEF Holding
  <2> QED
    BY <1>2, <1>5, <2>1, Zenon
<1>9. SizesOK => SizesOK'
  BY <1>1, <1>3, Zenon DEF SizesOK
<1> QED
  BY <1>1, <1>2, <1>4, <1>5, <1>6, <1>7, <1>8, <1>9, Zenon

(* A step that writes to the entries of set J leaves the others alone.     *)
LEMMA OthersKept ==
  ASSUME LayoutInv, canary' = canary, allocsize' = allocsize,
         NEW J \in SUBSET Index,
         \A a \in Address : a \div realsize \notin J => mem'[a] = mem[a],
         \A i \in Index \ J : ObjectAt(i) \in objects' <=> ObjectAt(i) \in objects
  PROVE  /\ TailInv'
         /\ \A i \in Index \ J : EntryInv(i)'
         /\ \A i \in Index \ J : i \in Holding' <=> i \in Holding
<1>1. LayoutTypeOK /\ SizesOK /\ TailInv /\ \A i \in Index : EntryInv(i)
  BY DEF LayoutInv, LayoutTypeOK
<1>2. TailInv'
  <2> SUFFICES ASSUME NEW a \in Address, a \div realsize = entrycount PROVE mem'[a] = Plain("zero")
    BY SameSizes, Zenon DEF TailInv, getIndexForObjectInPage, Plain
  <2>1. a \div realsize \notin J
    BY <1>1, Offsets
  <2> QED
    BY <1>1, <2>1, Zenon DEF TailInv, getIndexForObjectInPage
<1>3. \A i \in Index \ J : i \in Holding' <=> i \in Holding
  BY SameSizes, Zenon DEF Holding
<1>4. ASSUME NEW i \in Index \ J PROVE EntryInv(i)'
  <2>1. i \in Index /\ i \notin J /\ EntryInv(i)
    BY <1>1
  <2>2. ASSUME NEW k \in 0..(realsize - 1)
        PROVE  mem'[WordOfEntry(i, k)] = mem[WordOfEntry(i, k)]
    <3>1. WordOfEntry(i, k) \in Address /\ WordOfEntry(i, k) \div realsize = i
      BY <1>1, <2>1, WordsOfEntries, Zenon
    <3> QED
      BY <2>1, <3>1, Zenon
  <2>3. i \in Holding' <=> i \in Holding
    BY <1>3
  <2>4. \A k : WordOfEntry(i, k)' = WordOfEntry(i, k)
    BY SameSizes, Zenon
  <2>5. /\ mem'[WordOfEntry(i, canary + 1)] = mem[WordOfEntry(i, canary + 1)]
        /\ mem'[WordOfEntry(i, 0)] = mem[WordOfEntry(i, 0)]
        /\ canary > 0 => mem'[WordOfEntry(i, canary + MetaWords + allocsize)]
                           = mem[WordOfEntry(i, canary + MetaWords + allocsize)]
    BY <1>1, <2>2, Offsets, Zenon
  <2>6. /\ WordOfEntry(i, canary + 1)' = WordOfEntry(i, canary + 1)
        /\ WordOfEntry(i, 0)' = WordOfEntry(i, 0)
        /\ WordOfEntry(i, canary + MetaWords + allocsize)' = WordOfEntry(i, canary + MetaWords + allocsize)
    BY <2>4, SameSizes, Zenon DEF WordOfEntry
  <2>7. (mem[WordOfEntry(i, canary + 1)].is)' = mem[WordOfEntry(i, canary + 1)].is
    BY <2>5, <2>6, Zenon
  <2>8. canary > 0 =>
          /\ (mem[WordOfEntry(i, 0)].is)' = mem[WordOfEntry(i, 0)].is
          /\ (mem[WordOfEntry(i, canary + MetaWords + allocsize)].is)'
                = mem[WordOfEntry(i, canary + MetaWords + allocsize)].is
    BY <2>5, <2>6, Zenon
  <2> QED
    BY <2>1, <2>3, <2>7, <2>8, Zenon DEF EntryInv
<1> QED
  BY <1>2, <1>3, <1>4

(* What a step has to leave of the freelist: it is t. *)
LEMMA NewList ==
  ASSUME canary' = canary, allocsize' = allocsize, NEW t, NEW n, freecount' = n,
         t \in [1..n -> Index],
         freelist' = EntryAfter(t, n, 0),
         \A k \in 1..n : mem'[WordOfEntry(t[k], 0)] = Link(EntryAfter(t, n, k)),
         \A k \in 1..n : t[k] \notin Holding',
         \A j, k \in 1..n : t[j] = t[k] => j = k
  PROVE  (\E s \in [1..freecount -> Index] : FreelistIs(s))'
<1>1. Index' = Index
  BY SameSizes, Zenon
<1>2. FreelistIs(t)'
  <2>1. freelist' = EntryAfter(t, freecount, 0)'
    BY SameSizes, Zenon DEF EntryAfter
  <2>2. ASSUME NEW k \in 1..n
        PROVE  mem'[WordOfEntry(t[k], 0)'] = Link(EntryAfter(t, freecount, k))'
    <3>1. EntryAfter(t, freecount, k)' = EntryAfter(t, n, k)
      BY SameSizes, Zenon DEF EntryAfter
    <3>2. WordOfEntry(t[k], 0)' = WordOfEntry(t[k], 0)
      BY SameSizes, Zenon
    <3> QED
      BY <3>1, <3>2, Zenon DEF Link
  <2> QED
    BY <2>1, <2>2, Zenon DEF FreelistIs
<1> QED
  BY <1>1, <1>2, Zenon

(* The rest of the invariant follows from these parts. *)
LEMMA InvFrom ==
  ASSUME LayoutInv, canary' = canary, allocsize' = allocsize,
         mem' = [a \in Address |-> mem'[a]], freecount' \in Nat,
         objects' \subseteq {ObjectAt(i) : i \in Index},
         \A i \in Index : EntryInv(i)', TailInv',
         (\E s \in [1..freecount -> Index] : FreelistIs(s))'
  PROVE  LayoutInv'
<1>1. SizesOK'
  BY SameSizes, Zenon DEF LayoutInv, LayoutTypeOK
<1>2. (objects \subseteq {ObjectAt(i) : i \in Index})'
  BY SameSizes, Zenon
<1>3. LayoutTypeOK'
  BY <1>1, <1>2, Zenon DEF LayoutTypeOK
<1>4. (\A i \in Index : EntryInv(i))'
  BY SameSizes, Zenon
<1> QED
  BY <1>3, <1>4, Zenon DEF LayoutInv

(* The words between an entry and the next are words of it.                *)
LEMMA WordsBetween ==
  ASSUME SizesOK, NEW i \in Index, NEW a \in Int,
         WordOfEntry(i, 0) <= a, a < WordOfEntry(i, 0) + realsize
  PROVE  /\ a \div realsize = i
         /\ a = WordOfEntry(i, a - WordOfEntry(i, 0))
<1>1. i \in Nat /\ WordOfEntry(i, 0) \in Nat /\ realsize \in Nat
  BY Offsets, WordsOfEntries, Sizes DEF Address
<1> DEFINE k == a - WordOfEntry(i, 0)
<1>2. k \in 0..(realsize - 1) /\ k \in Int /\ 0 + k = k /\ WordOfEntry(i, 0) + k = a
  <2> HIDE DEF realsize
  <2> QED
    BY <1>1
<1> HIDE DEF k
<1>3. WordOfEntry(i, 0) + k = WordOfEntry(i, 0 + k)
  BY <1>1, <1>2, WordPlus
<1>4. a = WordOfEntry(i, k)
  BY <1>2, <1>3
<1>5. WordOfEntry(i, k) \div realsize = i
  BY <1>2, WordsOfEntries, Zenon
<1> QED
  BY <1>4, <1>5, Zenon DEF k

(* An allocation takes the first entry of the freelist. *)
LEMMA AllocateKeeps ==
  ASSUME LayoutInv, Allocate
  PROVE  LayoutInv'
<1>1. LayoutTypeOK /\ SizesOK /\ freecount \in Nat
  BY DEF LayoutInv, LayoutTypeOK
<1>2. PICK s \in [1..freecount -> Index] : FreelistIs(s)
  BY DEF LayoutInv
<1>3. canary' = canary /\ allocsize' = allocsize /\ freecount' = freecount - 1
  BY DEF Allocate
<1>4. freecount # 0
  <2>1. freelist \in Address /\ freelist = EntryAfter(s, freecount, 0)
    BY <1>2 DEF Allocate, FreelistIs
  <2>2. Nullptr \notin Address
    BY DEF Nullptr, Address
  <2> QED
    BY <2>1, <2>2, Zenon DEF EntryAfter
<1>5. 1 \in 1..freecount /\ 0 + 1 = 1
  BY <1>1, <1>4
<1> DEFINE e == s[1]
           w(k) == WordOfEntry(e, k)
<1>6. e \in Index /\ e \notin Holding
  BY <1>2, <1>5 DEF FreelistIs
<1>7. e \in Nat
  BY <1>1, <1>6, Offsets
<1> HIDE DEF e
<1>8. freelist = w(0)
  BY <1>2, <1>4, <1>5, Zenon DEF FreelistIs, EntryAfter, e
<1>9. /\ realsize \in Nat /\ canary \in Nat /\ allocsize \in Nat /\ allocsize > 0
      /\ realsize = canary + allocsize + 3 + canary
  BY <1>1, Sizes
<1>10. w(0) \in Address /\ w(0) \in Nat
  BY <1>1, <1>6, Offsets, WordsOfEntries DEF Address
<1>11. \A k \in Nat : w(k) = w(0) + k
  <2> SUFFICES ASSUME NEW k \in Nat PROVE w(k) = w(0) + k
    OBVIOUS
  <2>1. 0 + k = k /\ 0 \in Nat /\ k \in Int
    OBVIOUS
  <2>2. WordOfEntry(e, 0) + k = WordOfEntry(e, 0 + k)
    BY <1>1, <1>7, <2>1, WordPlus
  <2> QED
    BY <2>1, <2>2
<1> DEFINE old == w(0)
           flags == w(canary + 1)
           obj == ObjectAt(e)
           post == w(canary + MetaWords + allocsize)
<1>12. /\ flags = old + canary + 1
       /\ obj = old + canary + 3
       /\ post = old + canary + 3 + allocsize
  <2>1. canary + 1 \in Nat /\ canary + MetaWords \in Nat /\ canary + MetaWords + allocsize \in Nat
    BY <1>9 DEF MetaWords
  <2>2. /\ flags = w(0) + (canary + 1)
        /\ w(canary + MetaWords) = w(0) + (canary + MetaWords)
        /\ post = w(0) + (canary + MetaWords + allocsize)
    BY <1>11, <2>1
  <2>3. obj = w(canary + MetaWords)
    BY Zenon DEF ObjectAt
  <2> HIDE DEF w, realsize, obj, post, flags
  <2>4. flags = w(0) + canary + 1 /\ w(canary + MetaWords) = w(0) + canary + 3
        /\ post = w(0) + canary + 3 + allocsize
    BY <1>9, <1>10, <2>2 DEF MetaWords
  <2> QED
    BY <2>3, <2>4
<1> HIDE DEF flags, obj, post
<1>13. old = freelist /\ old \in Nat /\ old \in Address
  BY <1>8, <1>10
<1> HIDE DEF old
<1>14. Canaries(old) = IF canary = 0 THEN {} ELSE {old, post}
  <2>1. Post(old) = post
    BY <1>9, <1>12, <1>13 DEF Post, MetaWords
  <2> QED
    BY <2>1, Zenon DEF Canaries
<1>15. /\ freelist' = mem[old].next
       /\ mem' = [a \in Address |->
            IF a \in Canaries(old) THEN Plain("canary")
            ELSE IF a = flags THEN Plain("alloc")
            ELSE IF a = old + canary + 2 THEN Plain("zero")
            ELSE IF a = old + canary \/ a \in obj..(obj + allocsize - 1) THEN Plain("other")
            ELSE mem[a]]
       /\ objects' = objects \cup {obj}
  <2>1. /\ ObjectOf(old + canary) = obj
        /\ (old + canary) + 1 = flags
    BY <1>9, <1>12, <1>13 DEF ObjectOf, MetaWords
  <2> QED
    BY <1>13, <2>1 DEF Allocate
<1>16. ASSUME NEW a \in Address, a \div realsize # e PROVE mem'[a] = mem[a]
  <2>1. a \in Nat /\ ~(old <= a /\ a < old + realsize)
    <3>1. a \in Nat /\ a \in Int
      BY <1>1, Sizes DEF Address
    <3> QED
      BY <1>1, <1>6, <1>16, <3>1, WordsBetween, Zenon DEF old
  <2>2. /\ a \notin Canaries(old) /\ a # flags /\ a # old + canary + 2
        /\ a # old + canary /\ a \notin obj..(obj + allocsize - 1)
    <3> HIDE DEF realsize
    <3> QED
      BY <1>9, <1>12, <1>13, <1>14, <2>1
  <2> QED
    BY <1>15, <2>2, Zenon
<1>17. /\ flags \in Address /\ mem'[flags].is = "alloc"
       /\ canary > 0 => mem'[old].is = "canary" /\ mem'[post].is = "canary"
  <2>1. flags \in Address /\ (canary > 0 => post \in Address)
    BY <1>1, <1>6, Offsets, WordsOfEntries, Zenon DEF flags, post
  <2>2. flags \notin Canaries(old)
    BY <1>9, <1>12, <1>13, <1>14
  <2>3. mem'[flags] = Plain("alloc")
    BY <1>15, <2>1, <2>2, Zenon
  <2>4. canary > 0 => old \in Canaries(old) /\ post \in Canaries(old)
    BY <1>9, <1>14
  <2>5. canary > 0 => mem'[old] = Plain("canary") /\ mem'[post] = Plain("canary")
    BY <1>13, <1>15, <2>1, <2>4, Zenon
  <2> QED
    BY <2>1, <2>3, <2>5 DEF Plain
<1>18. \A i \in Index \ {e} : ObjectAt(i) \in objects' <=> ObjectAt(i) \in objects
  <2>1. \A i \in Index : ObjectAt(i) = obj => i = e
    BY <1>1, <1>6, ObjectsIndex, Zenon DEF obj
  <2> QED
    BY <1>15, <2>1, Zenon
<1>19. /\ TailInv'
       /\ \A i \in Index \ {e} : EntryInv(i)'
       /\ \A i \in Index \ {e} : i \in Holding' <=> i \in Holding
  <2>1. {e} \in SUBSET Index /\ \A a \in Address : a \div realsize \notin {e} => mem'[a] = mem[a]
    BY <1>6, <1>16
  <2> QED
    BY <1>3, <1>18, <2>1, OthersKept
<1>20. e \in Holding'
  BY <1>3, <1>6, <1>15, SameSizes, Zenon DEF obj
<1>21. EntryInv(e)'
  <2>1. /\ WordOfEntry(e, canary + 1)' = flags
        /\ WordOfEntry(e, 0)' = old
        /\ WordOfEntry(e, canary + MetaWords + allocsize)' = post
    BY <1>3, SameSizes, Zenon DEF flags, old, post, WordOfEntry
  <2>2. /\ (mem[WordOfEntry(e, canary + 1)].is)' = "alloc"
        /\ canary > 0 => /\ (mem[WordOfEntry(e, 0)].is)' = "canary"
                         /\ (mem[WordOfEntry(e, canary + MetaWords + allocsize)].is)' = "canary"
    BY <1>17, <2>1, Zenon
  <2> QED
    BY <1>3, <1>20, <2>2, Zenon DEF EntryInv
<1> DEFINE n == freecount - 1
           t == [k \in 1..n |-> s[k + 1]]
<1>22. n \in Nat /\ \A k \in 0..n : k + 1 \in 1..freecount /\ (k = n <=> k + 1 = freecount)
  BY <1>1, <1>4
<1>23. \A k \in 1..n : k + 1 \in 1..freecount /\ k \in 0..n /\ k + 1 # 1
  BY <1>22
<1>24. t \in [1..n -> Index] /\ \A k \in 1..n : t[k] = s[k + 1]
  BY <1>23
<1>25. \A k \in 0..n : EntryAfter(t, n, k) = EntryAfter(s, freecount, k + 1)
  <2> SUFFICES ASSUME NEW k \in 0..n
      PROVE  EntryAfter(t, n, k) = EntryAfter(s, freecount, k + 1)
    OBVIOUS
  <2>1. CASE k = n
    BY <1>22, <2>1, Zenon DEF EntryAfter
  <2>2. CASE k # n
    <3>1. k + 1 \in 1..n
      BY <1>22, <2>2
    <3>2. t[k + 1] = s[(k + 1) + 1]
      BY <1>24, <3>1, Zenon
    <3> HIDE DEF t, n
    <3> QED
      BY <1>22, <2>2, <3>2, Zenon DEF EntryAfter
  <2> QED
    BY <2>1, <2>2
<1> HIDE DEF t
<1>26. \A k \in 1..n : t[k] # e /\ t[k] \in Index /\ t[k] \notin Holding
  <2> SUFFICES ASSUME NEW k \in 1..n PROVE t[k] # e /\ t[k] \in Index /\ t[k] \notin Holding
    OBVIOUS
  <2>1. k + 1 \in 1..freecount /\ k + 1 # 1 /\ t[k] = s[k + 1]
    BY <1>23, <1>24
  <2> QED
    BY <1>2, <1>5, <1>24, <2>1, Zenon DEF FreelistIs, e
<1>27. freelist' = EntryAfter(t, n, 0)
  <2>1. mem[old] = Link(EntryAfter(s, freecount, 1))
    BY <1>2, <1>5, Zenon DEF FreelistIs, old, e
  <2>2. freelist' = EntryAfter(s, freecount, 1)
    BY <1>15, <2>1 DEF Link
  <2>3. 0 \in 0..n
    BY <1>22
  <2> HIDE DEF n
  <2> QED
    BY <1>5, <1>25, <2>2, <2>3
<1>28. \A k \in 1..n : mem'[WordOfEntry(t[k], 0)] = Link(EntryAfter(t, n, k))
  <2> SUFFICES ASSUME NEW k \in 1..n
      PROVE mem'[WordOfEntry(t[k], 0)] = Link(EntryAfter(t, n, k))
    OBVIOUS
  <2>1. WordOfEntry(t[k], 0) \in Address /\ WordOfEntry(t[k], 0) \div realsize = t[k]
    BY <1>1, <1>26, Offsets, WordsOfEntries, Zenon
  <2>2. mem'[WordOfEntry(t[k], 0)] = mem[WordOfEntry(t[k], 0)]
    BY <1>16, <1>26, <2>1, Zenon
  <2>3. t[k] = s[k + 1] /\ k + 1 \in 1..freecount /\ k \in 0..n
    BY <1>23, <1>24
  <2>4. mem[WordOfEntry(s[k + 1], 0)] = Link(EntryAfter(s, freecount, k + 1))
    BY <1>2, <2>3, Zenon DEF FreelistIs
  <2> QED
    BY <1>25, <2>2, <2>3, <2>4, Zenon
<1>29. \A k \in 1..n : t[k] \notin Holding'
  BY <1>19, <1>26, Zenon
<1>30. \A j, k \in 1..n : t[j] = t[k] => j = k
  <2> SUFFICES ASSUME NEW j \in 1..n, NEW k \in 1..n, t[j] = t[k] PROVE j = k
    OBVIOUS
  <2>1. j + 1 = k + 1
    BY <1>2, <1>23, <1>24, Zenon DEF FreelistIs
  <2> QED
    BY <2>1, <1>22
<1>31. (\E ss \in [1..freecount -> Index] : FreelistIs(ss))'
  <2>1. freecount' = n
    BY <1>3
  <2> HIDE DEF n
  <2> QED
    BY <1>3, <1>24, <1>27, <1>28, <1>29, <1>30, <2>1, NewList
<1>32. objects' \subseteq {ObjectAt(i) : i \in Index}
  BY <1>1, <1>6, <1>15 DEF LayoutTypeOK, obj
<1>33. \A i \in Index : EntryInv(i)'
  BY <1>19, <1>21
<1>34. mem' = [a \in Address |-> mem'[a]]
  BY <1>15, Zenon
<1>35. freecount' \in Nat
  BY <1>3, <1>22
<1> QED
  BY <1>3, <1>19, <1>31, <1>32, <1>33, <1>34, <1>35, InvFrom

(* Where the words of an object's metadata are. *)
LEMMA MetaWordsOf ==
  ASSUME LayoutTypeOK, NEW obj \in objects
  PROVE  LET i == getIndexForObjectInPage(obj) IN
         /\ i \in Index /\ i \in Holding /\ obj = ObjectAt(i)
         /\ MetaOf(obj) = WordOfEntry(i, canary)
         /\ MetaOf(obj) + 1 = WordOfEntry(i, canary + 1)
         /\ MetaOf(obj) + 2 = WordOfEntry(i, canary + 2)
<1> DEFINE i == getIndexForObjectInPage(obj)
<1>1. SizesOK
  BY DEF LayoutTypeOK
<1>2. i \in Holding /\ i \in Index /\ obj = ObjectAt(i)
  BY ObjectsIndex, Zenon
<1> HIDE DEF i
<1>3. i \in Nat /\ canary \in Nat
  BY <1>1, <1>2, Offsets, Sizes
<1>4. obj = WordOfEntry(i, canary) + 3
  <2>1. canary + 3 = canary + MetaWords
    BY DEF MetaWords
  <2>2. WordOfEntry(i, canary) + 3 = WordOfEntry(i, canary + 3)
    BY <1>1, <1>3, WordPlus
  <2> QED
    BY <1>2, <2>1, <2>2, Zenon DEF ObjectAt
<1>5. WordOfEntry(i, canary) \in Nat
  BY <1>1, <1>2, Offsets, WordsOfEntries DEF Address
<1>6. MetaOf(obj) = WordOfEntry(i, canary)
  BY <1>4, <1>5 DEF MetaOf, MetaWords
<1>7. /\ WordOfEntry(i, canary) + 1 = WordOfEntry(i, canary + 1)
      /\ WordOfEntry(i, canary) + 2 = WordOfEntry(i, canary + 2)
  BY <1>1, <1>3, WordPlus
<1> QED
  BY <1>2, <1>6, <1>7, Zenon DEF i

(* What freeing and moving an object have in common: entry i is free then. *)
LEMMA EntryFreed ==
  ASSUME LayoutInv, canary' = canary, allocsize' = allocsize,
         NEW i \in Index, objects' = objects \ {ObjectAt(i)},
         \A a \in Address : a \div realsize # i => mem'[a] = mem[a],
         mem'[WordOfEntry(i, canary + 1)].is = "free"
  PROVE  /\ TailInv'
         /\ \A j \in Index : EntryInv(j)'
         /\ \A j \in Index : j \in Holding' <=> j \in Holding /\ j # i
         /\ objects' \subseteq {ObjectAt(j) : j \in Index}
<1>1. LayoutTypeOK /\ SizesOK
  BY DEF LayoutInv, LayoutTypeOK
<1>2. \A j \in Index : ObjectAt(j) = ObjectAt(i) => j = i
  BY <1>1, ObjectsIndex, Zenon
<1>3. \A j \in Index \ {i} : ObjectAt(j) \in objects' <=> ObjectAt(j) \in objects
  BY <1>2, Zenon
<1>4. {i} \in SUBSET Index /\ \A a \in Address : a \div realsize \notin {i} => mem'[a] = mem[a]
  OBVIOUS
<1>5. /\ TailInv'
      /\ \A j \in Index \ {i} : EntryInv(j)'
      /\ \A j \in Index \ {i} : j \in Holding' <=> j \in Holding
  BY <1>3, <1>4, OthersKept
<1>6. i \notin Holding'
  BY SameSizes, Zenon
<1>7. EntryInv(i)'
  <2>1. WordOfEntry(i, canary + 1)' = WordOfEntry(i, canary + 1)
    BY SameSizes, Zenon DEF WordOfEntry
  <2>2. (mem[WordOfEntry(i, canary + 1)].is)' = "free"
    BY <2>1, Zenon
  <2> QED
    BY <1>6, <2>2, Zenon DEF EntryInv
<1>8. objects' \subseteq {ObjectAt(j) : j \in Index}
  BY <1>1, Zenon DEF LayoutTypeOK
<1> QED
  BY <1>5, <1>6, <1>7, <1>8

(* An object that is moved leaves an entry that is free and on no list.    *)
LEMMA MoveAwayKeeps ==
  ASSUME LayoutInv, NEW obj \in objects, MoveAway(obj)
  PROVE  LayoutInv'
<1>1. LayoutTypeOK /\ SizesOK /\ freecount \in Nat
  BY DEF LayoutInv, LayoutTypeOK
<1>2. /\ canary' = canary /\ allocsize' = allocsize
      /\ freecount' = freecount /\ freelist' = freelist
  BY DEF MoveAway
<1> DEFINE i == getIndexForObjectInPage(obj)
           w0 == WordOfEntry(i, canary)
           w1 == WordOfEntry(i, canary + 1)
           w2 == WordOfEntry(i, canary + 2)
<1>3. /\ i \in Index /\ i \in Holding /\ obj = ObjectAt(i)
      /\ MetaOf(obj) = w0 /\ MetaOf(obj) + 1 = w1 /\ MetaOf(obj) + 2 = w2
  BY <1>1, MetaWordsOf, Zenon
<1> HIDE DEF i
<1>4. mem' = [mem EXCEPT ![w0] = Plain("zero"), ![w1] = Plain("free"), ![w2] = Plain("zero")]
  BY <1>3, Zenon DEF MoveAway, Reset
<1>5. /\ w0 \in Address /\ w1 \in Address /\ w2 \in Address
      /\ w0 \div realsize = i /\ w1 \div realsize = i /\ w2 \div realsize = i
  BY <1>1, <1>3, Offsets, WordsOfEntries, Zenon
<1>6. w1 # w0 /\ w1 # w2
  <2>1. canary \in Nat /\ canary + 1 # canary /\ canary + 1 # canary + 2
    BY <1>1, Sizes
  <2>2. /\ canary \in 0..(realsize - 1) /\ canary + 1 \in 0..(realsize - 1)
        /\ canary + 2 \in 0..(realsize - 1)
    BY <1>1, Offsets, Zenon
  <2>3. w1 % realsize = canary + 1 /\ w0 % realsize = canary /\ w2 % realsize = canary + 2
    BY <1>1, <1>3, <2>2, WordsOfEntries, Zenon
  <2> HIDE DEF w0, w1, w2
  <2> QED
    BY <2>1, <2>3, Zenon
<1> HIDE DEF w0, w1, w2
<1>7. mem = [a \in Address |-> mem[a]]
  BY <1>1 DEF LayoutTypeOK
<1>8. /\ mem' = [a \in Address |-> mem'[a]]
      /\ mem'[w1].is = "free"
      /\ \A a \in Address : a \div realsize # i => mem'[a] = mem[a]
  <2>1. DOMAIN mem = Address
    BY <1>7, Zenon
  <2>2. mem' = [a \in Address |-> IF a = w2 THEN Plain("zero")
                                  ELSE IF a = w1 THEN Plain("free")
                                  ELSE IF a = w0 THEN Plain("zero") ELSE mem[a]]
    BY <1>4, <2>1, Zenon
  <2>3. mem'[w1] = Plain("free")
    BY <1>5, <1>6, <2>2, Zenon
  <2>4. mem' = [a \in Address |-> mem'[a]]
    BY <2>2, Zenon
  <2>5. \A a \in Address : a \div realsize # i => mem'[a] = mem[a]
    BY <1>5, <2>2, Zenon
  <2> QED
    BY <2>3, <2>4, <2>5 DEF Plain
<1>9. objects' = objects \ {ObjectAt(i)}
  BY <1>3 DEF MoveAway
<1>10. /\ TailInv'
       /\ \A j \in Index : EntryInv(j)'
       /\ \A j \in Index : j \in Holding' <=> j \in Holding /\ j # i
       /\ objects' \subseteq {ObjectAt(j) : j \in Index}
  BY <1>2, <1>3, <1>8, <1>9, EntryFreed, Zenon DEF w1
<1>11. PICK s \in [1..freecount -> Index] : FreelistIs(s)
  BY DEF LayoutInv
<1>12. ASSUME NEW k \in 1..freecount
       PROVE  /\ s[k] \notin Holding'
              /\ mem'[WordOfEntry(s[k], 0)] = Link(EntryAfter(s, freecount, k))
  <2>1. s[k] \in Index /\ s[k] \notin Holding
    BY <1>11 DEF FreelistIs
  <2>2. WordOfEntry(s[k], 0) \in Address /\ WordOfEntry(s[k], 0) \div realsize = s[k]
    BY <1>1, <2>1, Offsets, WordsOfEntries, Zenon
  <2>3. mem'[WordOfEntry(s[k], 0)] = mem[WordOfEntry(s[k], 0)]
    BY <1>3, <1>8, <2>1, <2>2, Zenon
  <2> QED
    BY <1>10, <1>11, <2>1, <2>3, Zenon DEF FreelistIs
<1>13. freelist' = EntryAfter(s, freecount, 0) /\ \A j, k \in 1..freecount : s[j] = s[k] => j = k
  BY <1>2, <1>11, Zenon DEF FreelistIs
<1>14. (\E ss \in [1..freecount -> Index] : FreelistIs(ss))'
  BY <1>2, <1>12, <1>13, NewList
<1>15. freecount' \in Nat
  BY <1>1, <1>2
<1> QED
  BY <1>2, <1>8, <1>10, <1>14, <1>15, InvFrom

(* Freeing puts the entry in front, in a build without canaries: the link  *)
(* goes to the first word of the metadata, where the entry starts then.    *)
LEMMA FreeObjectKeeps ==
  ASSUME LayoutInv, NEW obj \in objects, canary = 0, FreeObject(obj)
  PROVE  LayoutInv'
<1>1. LayoutTypeOK /\ SizesOK /\ freecount \in Nat
  BY DEF LayoutInv, LayoutTypeOK
<1>2. /\ canary' = canary /\ allocsize' = allocsize
      /\ freecount' = freecount + 1
  BY DEF FreeObject
<1> DEFINE i == getIndexForObjectInPage(obj)
           w0 == WordOfEntry(i, 0)
           w1 == WordOfEntry(i, canary + 1)
<1>3. /\ i \in Index /\ i \in Holding /\ obj = ObjectAt(i)
      /\ MetaOf(obj) = w0 /\ MetaOf(obj) + 1 = w1
  BY <1>1, MetaWordsOf, Zenon
<1> HIDE DEF i
<1>4. mem' = [mem EXCEPT ![w0] = Link(freelist), ![w1] = Plain("free")] /\ freelist' = w0
  BY <1>3, Zenon DEF FreeObject
<1>5. /\ w0 \in Address /\ w1 \in Address
      /\ w0 \div realsize = i /\ w1 \div realsize = i
  BY <1>1, <1>3, Offsets, WordsOfEntries, Zenon
<1>6. w1 # w0
  <2>1. canary + 1 # 0
    BY <1>1, Sizes
  <2>2. 0 \in 0..(realsize - 1) /\ canary + 1 \in 0..(realsize - 1)
    BY <1>1, Offsets, Zenon
  <2>3. w1 % realsize = canary + 1 /\ w0 % realsize = 0
    BY <1>1, <1>3, <2>2, WordsOfEntries, Zenon
  <2> HIDE DEF w0, w1
  <2> QED
    BY <2>1, <2>3, Zenon
<1> HIDE DEF w0, w1
<1>7. mem = [a \in Address |-> mem[a]]
  BY <1>1 DEF LayoutTypeOK
<1>8. /\ mem' = [a \in Address |-> mem'[a]]
      /\ mem'[w1].is = "free"
      /\ mem'[w0] = Link(freelist)
      /\ \A a \in Address : a \div realsize # i => mem'[a] = mem[a]
  <2>1. DOMAIN mem = Address
    BY <1>7, Zenon
  <2>2. mem' = [a \in Address |-> IF a = w1 THEN Plain("free")
                                  ELSE IF a = w0 THEN Link(freelist) ELSE mem[a]]
    BY <1>4, <2>1, Zenon
  <2>3. mem'[w1] = Plain("free") /\ mem'[w0] = Link(freelist)
    BY <1>5, <1>6, <2>2, Zenon
  <2>4. mem' = [a \in Address |-> mem'[a]]
    BY <2>2, Zenon
  <2>5. \A a \in Address : a \div realsize # i => mem'[a] = mem[a]
    BY <1>5, <2>2, Zenon
  <2> QED
    BY <2>3, <2>4, <2>5 DEF Plain
<1>9. objects' = objects \ {ObjectAt(i)}
  BY <1>3 DEF FreeObject
<1>10. /\ TailInv'
       /\ \A j \in Index : EntryInv(j)'
       /\ \A j \in Index : j \in Holding' <=> j \in Holding /\ j # i
       /\ objects' \subseteq {ObjectAt(j) : j \in Index}
  BY <1>2, <1>3, <1>8, <1>9, EntryFreed, Zenon DEF w1
<1>11. PICK s \in [1..freecount -> Index] : FreelistIs(s)
  BY DEF LayoutInv
<1> DEFINE n == freecount + 1
           t == [k \in 1..n |-> IF k = 1 THEN i ELSE s[k - 1]]
<1>12. n \in Nat /\ \A k \in 1..n : k # 1 => k - 1 \in 1..freecount
  BY <1>1
<1>13. 1 \in 1..n /\ \A k \in 0..freecount : k + 1 \in 1..n /\ (k + 1 = n <=> k = freecount)
  BY <1>1
<1>14. t[1] = i /\ \A k \in 1..freecount : t[k + 1] = s[k]
  <2>1. t[1] = i
    BY <1>13
  <2>2. ASSUME NEW k \in 1..freecount PROVE t[k + 1] = s[k]
    <3>1. k + 1 \in 1..n /\ k + 1 # 1 /\ (k + 1) - 1 = k
      BY <1>1
    <3> HIDE DEF n
    <3> QED
      BY <3>1
  <2> QED
    BY <2>1, <2>2
<1>15. t \in [1..n -> Index]
  <2>1. \A k \in 1..n : (IF k = 1 THEN i ELSE s[k - 1]) \in Index
    BY <1>3, <1>12
  <2> HIDE DEF n
  <2> QED
    BY <2>1
<1>16. \A k \in 1..n : k = 1 \/ (k - 1 \in 1..freecount /\ (k - 1) + 1 = k)
  BY <1>1
<1> HIDE DEF t
<1>17. ASSUME NEW k \in 0..freecount
       PROVE  EntryAfter(t, n, k + 1) = EntryAfter(s, freecount, k)
  <2>1. CASE k = freecount
    BY <1>13, <2>1, Zenon DEF EntryAfter
  <2>2. CASE k # freecount
    <3>1. k + 1 \in 1..freecount
      BY <1>1, <2>2
    <3>2. t[(k + 1) + 1] = s[k + 1]
      BY <1>14, <3>1, Zenon
    <3> HIDE DEF n
    <3> QED
      BY <1>13, <2>2, <3>2, Zenon DEF EntryAfter
  <2> QED
    BY <2>1, <2>2
<1>18. freelist' = EntryAfter(t, n, 0)
  <2>1. n # 0 /\ 0 + 1 = 1
    BY <1>1
  <2> HIDE DEF n
  <2> QED
    BY <1>4, <1>14, <2>1 DEF EntryAfter, w0
<1>19. ASSUME NEW k \in 1..freecount
       PROVE  /\ s[k] # i /\ s[k] \notin Holding'
              /\ mem'[WordOfEntry(s[k], 0)] = Link(EntryAfter(s, freecount, k))
  <2>1. s[k] \in Index /\ s[k] \notin Holding
    BY <1>11 DEF FreelistIs
  <2>2. WordOfEntry(s[k], 0) \in Address /\ WordOfEntry(s[k], 0) \div realsize = s[k]
    BY <1>1, <2>1, Offsets, WordsOfEntries, Zenon
  <2>3. mem'[WordOfEntry(s[k], 0)] = mem[WordOfEntry(s[k], 0)]
    BY <1>3, <1>8, <2>1, <2>2, Zenon
  <2> QED
    BY <1>3, <1>10, <1>11, <2>1, <2>3, Zenon DEF FreelistIs
<1>20. ASSUME NEW k \in 1..n
       PROVE  /\ t[k] \notin Holding'
              /\ mem'[WordOfEntry(t[k], 0)] = Link(EntryAfter(t, n, k))
  <2>1. CASE k = 1
    <3>1. 0 \in 0..freecount /\ 0 + 1 = 1
      BY <1>1
    <3>2. EntryAfter(t, n, 1) = EntryAfter(s, freecount, 0)
      BY <1>17, <3>1
    <3>3. freelist = EntryAfter(s, freecount, 0)
      BY <1>11, Zenon DEF FreelistIs
    <3>4. mem'[WordOfEntry(i, 0)] = Link(EntryAfter(t, n, 1))
      BY <1>8, <3>2, <3>3, Zenon DEF w0
    <3>5. i \notin Holding'
      BY <1>3, <1>10
    <3> HIDE DEF n
    <3> QED
      BY <1>14, <2>1, <3>4, <3>5, Zenon
  <2>2. CASE k # 1
    <3>1. PICK l \in 1..freecount : l + 1 = k
      BY <1>16, <2>2
    <3>2. l \in 0..freecount
      BY <1>1
    <3>3. t[k] = s[l]
      BY <1>14, <3>1
    <3>4. EntryAfter(t, n, k) = EntryAfter(s, freecount, l)
      BY <1>17, <3>1, <3>2
    <3> HIDE DEF n
    <3> QED
      BY <1>19, <3>3, <3>4, Zenon
  <2> QED
    BY <2>1, <2>2
<1>21. ASSUME NEW j \in 1..n, NEW k \in 1..n, t[j] = t[k] PROVE j = k
  <2>1. CASE j = 1 /\ k = 1
    BY <2>1
  <2>2. CASE j = 1 /\ k # 1
    <3>1. PICK l \in 1..freecount : l + 1 = k
      BY <1>16, <2>2
    <3>2. t[k] = s[l] /\ t[j] = i /\ s[l] # i
      BY <1>14, <1>19, <2>2, <3>1
    <3> QED
      BY <1>21, <3>2
  <2>3. CASE j # 1 /\ k = 1
    <3>1. PICK l \in 1..freecount : l + 1 = j
      BY <1>16, <2>3
    <3>2. t[j] = s[l] /\ t[k] = i /\ s[l] # i
      BY <1>14, <1>19, <2>3, <3>1
    <3> QED
      BY <1>21, <3>2
  <2>4. CASE j # 1 /\ k # 1
    <3>1. PICK l \in 1..freecount : l + 1 = j
      BY <1>16, <2>4
    <3>2. PICK m \in 1..freecount : m + 1 = k
      BY <1>16, <2>4
    <3>3. s[l] = s[m]
      BY <1>14, <1>21, <3>1, <3>2
    <3>4. l = m
      BY <1>11, <3>3, Zenon DEF FreelistIs
    <3> QED
      BY <3>1, <3>2, <3>4
  <2> QED
    BY <2>1, <2>2, <2>3, <2>4
<1>22. (\E ss \in [1..freecount -> Index] : FreelistIs(ss))'
  <2>1. freecount' = n
    BY <1>2
  <2> HIDE DEF n
  <2> QED
    BY <1>2, <1>15, <1>18, <1>20, <1>21, <2>1, NewList
<1>23. freecount' \in Nat
  BY <1>1, <1>2
<1> QED
  BY <1>2, <1>8, <1>10, <1>22, <1>23, InvFrom

(* A freelist laid through set I, none of which holds an object after it.  *)
LEMMA LaidKeeps ==
  ASSUME LayoutInv, canary' = canary, allocsize' = allocsize,
         NEW m, DOMAIN m = Address, NEW I \in SUBSET Index,
         \A a \in Address : a \div realsize \notin I => m[a] = mem[a],
         \A i \in I : m[WordOfEntry(i, canary + 1)].is \in {"free", "zero"},
         mem' = Linked(m, I, allocsize).mem,
         freelist' = Linked(m, I, allocsize).list,
         freecount' = Cardinality(I),
         \A i \in Index : ObjectAt(i) \in objects' <=> i \notin I /\ i \in Holding,
         objects' \subseteq objects
  PROVE  LayoutInv'
<1>1. LayoutTypeOK /\ SizesOK
  BY DEF LayoutInv, LayoutTypeOK
<1> DEFINE page == Linked(m, I, allocsize)
           n    == Cardinality(I)
<1>2. PICK s \in [1..n -> Index] : Laid(page, m, I, n, s)
  BY <1>1, LaidThrough, Zenon
<1>3. mem' = page.mem /\ freelist' = page.list /\ freecount' = n
  OBVIOUS
<1> HIDE DEF page, n
<1>4. /\ n \in Nat
      /\ mem' = [a \in Address |-> mem'[a]]
      /\ \A a \in Address : a % realsize # 0 \/ a \div realsize \notin I => mem'[a] = m[a]
      /\ \A k \in 1..n : s[k] \in I
      /\ freelist' = EntryAfter(s, n, 0)
      /\ \A k \in 1..n : mem'[WordOfEntry(s[k], 0)] = Link(EntryAfter(s, n, k))
      /\ \A j, k \in 1..n : s[j] = s[k] => j = k
  BY <1>2, <1>3, Zenon DEF Laid
<1>5. \A a \in Address : a \div realsize \notin I => mem'[a] = mem[a]
  BY <1>4, Zenon
<1>6. \A i \in Index \ I : ObjectAt(i) \in objects' <=> ObjectAt(i) \in objects
  BY Zenon DEF Holding
<1>7. /\ TailInv'
      /\ \A i \in Index \ I : EntryInv(i)'
      /\ \A i \in Index \ I : i \in Holding' <=> i \in Holding
  BY <1>5, <1>6, OthersKept
<1>8. \A i \in I : i \notin Holding'
  BY SameSizes, Zenon
<1>9. ASSUME NEW i \in I PROVE EntryInv(i)'
  <2> DEFINE f == WordOfEntry(i, canary + 1)
  <2>1. f \in Address /\ f % realsize = canary + 1 /\ canary + 1 # 0
    <3>1. f \in Address /\ f % realsize = canary + 1
      BY <1>1, Offsets, WordsOfEntries, Zenon
    <3>2. canary + 1 # 0
      BY <1>1, Sizes
    <3> QED
      BY <3>1, <3>2
  <2>2. mem'[f] = m[f]
    BY <1>4, <2>1, Zenon
  <2>3. WordOfEntry(i, canary + 1)' = f
    BY SameSizes, Zenon DEF WordOfEntry
  <2>4. (mem[WordOfEntry(i, canary + 1)].is)' \in {"free", "zero"}
    BY <2>2, <2>3, Zenon
  <2> QED
    BY <1>8, <2>4, Zenon DEF EntryInv
<1>10. (\E ss \in [1..freecount -> Index] : FreelistIs(ss))'
  <2>1. \A k \in 1..n : s[k] \notin Holding'
    BY <1>4, <1>8, Zenon
  <2> QED
    BY <1>3, <1>4, <2>1, NewList
<1>11. \A i \in Index : EntryInv(i)'
  BY <1>7, <1>9
<1>12. objects' \subseteq {ObjectAt(i) : i \in Index}
  BY <1>1, Zenon DEF LayoutTypeOK
<1>13. freecount' \in Nat
  BY <1>3, <1>4
<1> QED
  BY <1>4, <1>7, <1>10, <1>11, <1>12, <1>13, InvFrom

(* What rebuild frees: the entries without a survivor. *)
LEMMA DeadAre ==
  ASSUME LayoutInv, NEW survivors \in SUBSET objects
  PROVE  Dead(survivors) = {i \in Index : ObjectAt(i) \notin survivors}
<1>1. LayoutTypeOK
  BY DEF LayoutInv
<1>2. ASSUME NEW i \in Index
      PROVE  (\/ TRUE \notin IsAlloc(getMetaEntryAtIndex(i))
              \/ \A obj \in survivors : getIndexForObjectInPage(obj) # i)
             <=> ObjectAt(i) \notin survivors
  <2>1. CASE i \in Holding
    <3>1. TRUE \in IsAlloc(getMetaEntryAtIndex(i))
      BY <2>1, FlagsTell, Zenon
    <3>2. \A obj \in survivors : obj = ObjectAt(getIndexForObjectInPage(obj))
      BY <1>1, ObjectsIndex, Zenon
    <3>3. getIndexForObjectInPage(ObjectAt(i)) = i
      BY <1>1, ObjectsIndex, Zenon DEF getIndexForObjectInPage
    <3> QED
      BY <3>1, <3>2, <3>3, Zenon
  <2>2. CASE i \notin Holding
    <3>1. IsAlloc(getMetaEntryAtIndex(i)) = {FALSE}
      BY <2>2, FlagsTell, Zenon
    <3>2. TRUE \notin IsAlloc(getMetaEntryAtIndex(i))
      BY <3>1
    <3>3. ObjectAt(i) \notin survivors
      BY <2>2, Zenon DEF Holding
    <3> QED
      BY <3>2, <3>3
  <2> QED
    BY <2>1, <2>2
<1> QED
  BY <1>2, Zenon DEF Dead

(* A rebuild keeps the entries of the survivors and links the others.      *)
LEMMA RebuildKeeps ==
  ASSUME LayoutInv, NEW survivors \in SUBSET objects, Rebuild(survivors)
  PROVE  LayoutInv'
<1>1. LayoutTypeOK /\ SizesOK
  BY DEF LayoutInv, LayoutTypeOK
<1> DEFINE I == Dead(survivors)
           m == Cleared(mem, I)
<1>2. I = {i \in Index : ObjectAt(i) \notin survivors}
  BY DeadAre, Zenon
<1>3. /\ canary' = canary /\ allocsize' = allocsize
      /\ mem' = Linked(m, I, allocsize).mem /\ freelist' = Linked(m, I, allocsize).list
      /\ freecount' = Cardinality(I) /\ objects' = survivors
  BY Zenon DEF Rebuild, Rebuilt
<1>4. m = [a \in Address |->
             LET i == getIndexForObjectInPage(a)
                 k == a - getMetaEntryAtIndex(i)
             IN IF i \in I /\ k \in {0, 1, 2}
                  THEN Plain(IF k = 1 THEN "free" ELSE "zero") ELSE mem[a]]
  BY Zenon DEF Cleared
<1> HIDE DEF I, m
<1>5. I \in SUBSET Index
  BY <1>2
<1>6. DOMAIN m = Address
  BY <1>4, Zenon
<1>7. \A a \in Address : a \div realsize \notin I => m[a] = mem[a]
  BY <1>4, Zenon DEF getIndexForObjectInPage
<1>8. ASSUME NEW i \in I PROVE m[WordOfEntry(i, canary + 1)].is \in {"free", "zero"}
  <2> DEFINE f == WordOfEntry(i, canary + 1)
             g == getMetaEntryAtIndex(i)
  <2>1. i \in Index /\ i \in Nat
    BY <1>1, <1>5, Offsets
  <2>2. f \in Address /\ getIndexForObjectInPage(f) = i
    BY <1>1, <2>1, Offsets, WordsOfEntries, Zenon DEF getIndexForObjectInPage
  <2>3. f = g + 1 /\ g \in Nat
    <3>1. f = g + 1 /\ g = WordOfEntry(i, canary)
      BY <1>1, <2>1, EntryWords, Zenon
    <3>2. WordOfEntry(i, canary) \in Nat
      BY <1>1, <2>1, Offsets, WordsOfEntries DEF Address
    <3> QED
      BY <3>1, <3>2
  <2> HIDE DEF f, g
  <2>4. f - g = 1
    BY <2>3
  <2>5. m[f] = Plain("free")
    <3>1. m[f] = IF i \in I /\ f - g \in {0, 1, 2}
                   THEN Plain(IF f - g = 1 THEN "free" ELSE "zero") ELSE mem[f]
      BY <1>4, <2>2, Zenon DEF g
    <3> QED
      BY <2>4, <3>1
  <2>6. m[f].is = "free"
    BY <2>5 DEF Plain
  <2> QED
    BY <2>6 DEF f
<1>9. \A i \in Index : ObjectAt(i) \in objects' <=> i \notin I /\ i \in Holding
  BY <1>2, <1>3, Zenon DEF Holding
<1>10. objects' \subseteq objects
  BY <1>3
<1> QED
  BY <1>3, <1>5, <1>6, <1>7, <1>8, <1>9, <1>10, LaidKeeps

(* A page that is initialised has all its entries on the freelist.         *)
LEMMA AllEntries ==
  ASSUME SizesOK
  PROVE  /\ 0..(EntryCount(allocsize) - 1) = Index
         /\ Cardinality(Index) = EntryCount(allocsize)
<1>1. entrycount = EntryCount(allocsize)
  BY DEF entrycount
<1>2. 0..(EntryCount(allocsize) - 1) = Index
  BY <1>1, Zenon DEF Index
<1>3. Cardinality(0..(entrycount - 1)) = entrycount
  <2>1. entrycount \in Nat /\ entrycount > 0
    BY Sizes
  <2> DEFINE n == entrycount
  <2>2. n \in Nat /\ n > 0
    BY <2>1
  <2> HIDE DEF n
  <2>3. Cardinality(0..(n - 1)) = n
    BY <2>2, FS_Interval
  <2> QED
    BY <2>3 DEF n
<1> QED
  BY <1>1, <1>2, <1>3, Zenon DEF Index

(* Its flags are those that the last objects left, not allocated.          *)
LEMMA ReuseKeeps ==
  ASSUME LayoutInv, Reuse(allocsize)
  PROVE  LayoutInv'
<1>1. LayoutTypeOK /\ SizesOK
  BY DEF LayoutInv, LayoutTypeOK
<1>2. /\ canary' = canary /\ allocsize' = allocsize
      /\ objects = {} /\ objects' = {}
      /\ mem' = InitialisedFrom(mem, allocsize).mem
      /\ freelist' = InitialisedFrom(mem, allocsize).list
      /\ freecount' = EntryCount(allocsize)
  BY DEF Reuse
<1>3. /\ mem' = Linked(mem, Index, allocsize).mem
      /\ freelist' = Linked(mem, Index, allocsize).list
      /\ freecount' = Cardinality(Index)
  BY <1>1, <1>2, AllEntries, Zenon DEF InitialisedFrom
<1>4. \A i \in Index : i \notin Holding /\ EntryInv(i)
  BY <1>2, Zenon DEF Holding, LayoutInv
<1>5. \A i \in Index : mem[WordOfEntry(i, canary + 1)].is \in {"free", "zero"}
  BY <1>4, Zenon DEF EntryInv
<1>6. DOMAIN mem = Address
  <2>1. mem = [a \in Address |-> mem[a]]
    BY <1>1 DEF LayoutTypeOK
  <2> QED
    BY <2>1, Zenon
<1>7. \A i \in Index : ObjectAt(i) \in objects' <=> i \notin Index /\ i \in Holding
  BY <1>2, Zenon
<1>8. Index \in SUBSET Index /\ objects' \subseteq objects
  BY <1>2
<1>9. \A a \in Address : a \div realsize \notin Index => mem[a] = mem[a]
  OBVIOUS
<1> QED
  BY <1>2, <1>3, <1>5, <1>6, <1>7, <1>8, <1>9, LaidKeeps

(* A new page. *)
LEMMA InitKeeps ==
  ASSUME RestrictedInit
  PROVE  LayoutInv
<1> DEFINE m == [a \in Address |-> Plain("zero")]
<1>1. SizesOK
  BY DEF RestrictedInit, Init, SizesOK, entrycount
<1>2. /\ mem = Linked(m, Index, allocsize).mem
      /\ freelist = Linked(m, Index, allocsize).list
      /\ freecount = Cardinality(Index) /\ objects = {}
  <2>1. /\ mem = InitialisedFrom(m, allocsize).mem
        /\ freelist = InitialisedFrom(m, allocsize).list
        /\ freecount = EntryCount(allocsize) /\ objects = {}
    BY Zenon DEF RestrictedInit, Init, entrycount
  <2> QED
    BY <1>1, <2>1, AllEntries, Zenon DEF InitialisedFrom
<1>3. DOMAIN m = Address /\ \A a \in Address : m[a] = Plain("zero")
  BY Zenon
<1> HIDE DEF m
<1> DEFINE page == Linked(m, Index, allocsize)
           n    == Cardinality(Index)
<1>4. Index \in SUBSET Index
  OBVIOUS
<1>5. PICK s \in [1..n -> Index] : Laid(page, m, Index, n, s)
  BY <1>1, <1>3, <1>4, LaidThrough, Zenon
<1>6. mem = page.mem /\ freelist = page.list /\ freecount = n
  BY <1>2
<1> HIDE DEF page, n
<1>7. s \in [1..freecount -> Index] /\ Laid(page, m, Index, freecount, s)
  BY <1>5, <1>6
<1>8. /\ freecount \in Nat
      /\ mem = [a \in Address |-> mem[a]]
      /\ \A a \in Address : a % realsize # 0 \/ a \div realsize \notin Index => mem[a] = m[a]
      /\ freelist = EntryAfter(s, freecount, 0)
      /\ \A k \in 1..freecount : mem[WordOfEntry(s[k], 0)] = Link(EntryAfter(s, freecount, k))
      /\ \A j, k \in 1..freecount : s[j] = s[k] => j = k
  BY <1>6, <1>7, Zenon DEF Laid
<1>9. Holding = {}
  BY <1>2, Zenon DEF Holding
<1>10. LayoutTypeOK
  <2>1. objects \subseteq {ObjectAt(i) : i \in Index}
    BY <1>2
  <2> QED
    BY <1>1, <1>8, <2>1, Zenon DEF LayoutTypeOK
<1>11. ASSUME NEW i \in Index PROVE EntryInv(i)
  <2> DEFINE f == WordOfEntry(i, canary + 1)
  <2>1. f \in Address /\ f % realsize = canary + 1
    BY <1>1, Offsets, WordsOfEntries, Zenon
  <2>2. canary + 1 # 0
    BY <1>1, Sizes
  <2>3. mem[f] = Plain("zero")
    BY <1>3, <1>8, <2>1, <2>2, Zenon
  <2>4. mem[f].is = "zero"
    BY <2>3 DEF Plain
  <2> QED
    BY <1>9, <2>4, Zenon DEF EntryInv
<1>12. TailInv
  <2> SUFFICES ASSUME NEW a \in Address, getIndexForObjectInPage(a) = entrycount
      PROVE mem[a] = Plain("zero")
    BY DEF TailInv
  <2>1. a \div realsize \notin Index
    BY <1>1, Offsets, Zenon DEF getIndexForObjectInPage
  <2>2. mem[a] = m[a]
    BY <1>8, <2>1, Zenon
  <2> QED
    BY <1>3, <2>2, Zenon
<1>13. \E z \in [1..freecount -> Index] : FreelistIs(z)
  <2>1. \A k \in 1..freecount : s[k] \notin Holding
    BY <1>9
  <2>2. FreelistIs(s)
    BY <1>8, <2>1 DEF FreelistIs
  <2> QED
    BY <1>7, <2>2, Zenon
<1> QED
  BY <1>10, <1>11, <1>12, <1>13, Zenon DEF LayoutInv

(* Nothing happens. *)
LEMMA StutterKeeps ==
  ASSUME LayoutInv, UNCHANGED vars
  PROVE  LayoutInv'
<1>1. LayoutTypeOK /\ SizesOK
  BY DEF LayoutInv, LayoutTypeOK
<1>2. /\ canary' = canary /\ allocsize' = allocsize /\ mem' = mem
      /\ freelist' = freelist /\ freecount' = freecount /\ objects' = objects
  BY DEF vars
<1>3. /\ TailInv'
      /\ \A i \in Index : EntryInv(i)'
      /\ \A i \in Index : i \in Holding' <=> i \in Holding
  <2>1. /\ {} \in SUBSET Index /\ Index \ {} = Index
        /\ \A a \in Address : a \div realsize \notin {} => mem'[a] = mem[a]
        /\ \A i \in Index \ {} : ObjectAt(i) \in objects' <=> ObjectAt(i) \in objects
    BY <1>2
  <2> QED
    BY <1>2, <2>1, OthersKept, Zenon
<1>4. PICK s \in [1..freecount -> Index] : FreelistIs(s)
  BY DEF LayoutInv
<1>5. ASSUME NEW k \in 1..freecount
      PROVE  /\ mem'[WordOfEntry(s[k], 0)] = Link(EntryAfter(s, freecount, k))
             /\ s[k] \notin Holding'
  BY <1>2, <1>3, <1>4, Zenon DEF FreelistIs
<1>6. freelist' = EntryAfter(s, freecount, 0) /\ \A j, k \in 1..freecount : s[j] = s[k] => j = k
  BY <1>2, <1>4, Zenon DEF FreelistIs
<1>7. (\E ss \in [1..freecount -> Index] : FreelistIs(ss))'
  BY <1>2, <1>5, <1>6, NewList
<1>8. /\ mem' = [a \in Address |-> mem'[a]] /\ freecount' \in Nat
      /\ objects' \subseteq {ObjectAt(i) : i \in Index}
  BY <1>1, <1>2, Zenon DEF LayoutTypeOK
<1> QED
  BY <1>2, <1>3, <1>7, <1>8, InvFrom

(* Each step keeps the invariant. *)
LEMMA LayoutStep ==
  ASSUME LayoutInv, [RestrictedNext]_(vars)
  PROVE  LayoutInv'
<1>1. CASE Allocate
  BY <1>1, AllocateKeeps
<1>2. ASSUME NEW obj \in objects, canary = 0, FreeObject(obj) PROVE LayoutInv'
  BY <1>2, FreeObjectKeeps
<1>3. ASSUME NEW obj \in objects, MoveAway(obj) PROVE LayoutInv'
  BY <1>3, MoveAwayKeeps
<1>4. ASSUME NEW survivors \in SUBSET objects, Rebuild(survivors) PROVE LayoutInv'
  BY <1>4, RebuildKeeps
<1>5. CASE Reuse(allocsize)
  BY <1>5, ReuseKeeps
<1>6. CASE UNCHANGED vars
  BY <1>6, StutterKeeps
<1> QED
  BY <1>1, <1>2, <1>3, <1>4, <1>5, <1>6, Zenon DEF RestrictedNext

(* So it always holds. *)
LEMMA LayoutInvariant == RestrictedSpec => []LayoutInv
<1>1. RestrictedInit => LayoutInv
  BY InitKeeps
<1>2. LayoutInv /\ [RestrictedNext]_vars => LayoutInv'
  BY LayoutStep
<1> QED
  BY <1>1, <1>2, PTL DEF RestrictedSpec

(* A conservative scan finds exactly the object whose entry a word falls   *)
(* into (checkPotentialPtr), for any page, object and canary size, if the  *)
(* three things hold that the code relies on (see RestrictedSpec).         *)
THEOREM ScansFindObjects == RestrictedSpec => []ScanFindsTheObject
<1>1. LayoutInv => ScanFindsTheObject
  BY ScanFinds
<1> QED
  BY <1>1, LayoutInvariant, PTL

(* The freelist of a page is a list of freecount different free entries,   *)
(* though its links share words with metadata in a build without canaries  *)
(* (PageInfo::initialize, rebuild, allocate, processDecrements).           *)
THEOREM FreelistStaysIntact == RestrictedSpec => []FreelistIntact
<1>1. LayoutInv => FreelistIntact
  BY ListIsIntact
<1> QED
  BY <1>1, LayoutInvariant, PTL

(* An object lies between its canaries, which stay intact, and nothing is  *)
(* written behind the page (SETUP_ALLOC_INITIALIZE_FRESH_META and          *)
(* initializeWithDebugInfo).                                               *)
THEOREM ObjectsStayBetweenCanaries == RestrictedSpec => []ObjectsBetweenCanaries
<1>1. LayoutInv => ObjectsBetweenCanaries
  BY Between
<1> QED
  BY <1>1, LayoutInvariant, PTL
=============================================================================
