--------------------------- MODULE PageTableProofs ---------------------------
(***************************************************************************)
(* Proofs about module PageTable, for any number of threads, pages and     *)
(* levels: no query misses a page that was in the table when it began,     *)
(* though queries take no lock; when nobody inserts the table has exactly  *)
(* what was inserted; and no page has two users, neither a GC page nor one *)
(* of the pool.                                                            *)
(*                                                                         *)
(* The first needs to know that a node, once it is on the way to a page in *)
(* the table, stays what it is: the pages of the pool have one user each   *)
(* (PoolInv), so that what lists and new nodes write is no node, and nodes *)
(* have a level (LevelsInv), so that an insertion only writes over null    *)
(* words or leaves.  What it comes to is that a path to each page in the   *)
(* table exists and that a walk is on it (PathsInv).  The other two need   *)
(* the converse, that a node is there for one way from the root and is on  *)
(* it (NamesInv).                                                          *)
(***************************************************************************)
EXTENDS PageTable, SeqFacts, FiniteSetTheorems

(* A page of the pool is free, or a thread's, once. *)
PoolInv ==
  /\ Distinct(free_pages)
  /\ \A t \in Thread : lists[t] \cap Range(free_pages) = {}
  /\ \A t, u \in Thread : lists[t] \cap lists[u] # {} => t = u
  /\ \A t \in Thread : \A m, n \in lists[t] : m = n

(* Who inserts holds the lock; a query that has said no was right to.      *)
WalkInv ==
  \A t \in Thread :
    /\ pc[t] \in {"allocate", "insert", "zerofill"} => g_gcmemlock = t
    /\ pc[t] \in {"insert", "zerofill"} => addr[t] \in Addr \ inserted
    /\ pc[t] = "insert" /\ node[t] = NULL => pagetable_root = NULL
    /\ pc[t] = "zerofill" => node[t] # NULL
    /\ pc[t] = "query" => node[t] # NULL /\ addr[t] \in Addr
    /\ pc[t] = "no" => ~there[t]
    /\ there[t] /\ pc[t] = "query" => addr[t] \in inserted

(* Page n is linked into the table and not cleared yet. *)
Clearing(n) == \E t \in Thread : pc[t] = "zerofill" /\ node[t] = n

(* lev[n] is the level of node n, 0 for a page that is no node.            *)
LevelsInv(lev) ==
  /\ \A n \in Page : lev[n] # 0 =>
       n \in mapped /\ n \notin Range(free_pages) /\ \A t \in Thread : n \notin lists[t]
  /\ pagetable_root # NULL => lev[pagetable_root] = 1
  /\ \A n \in Page, i \in Index : lev[n] # 0 /\ ~Clearing(n) =>
       IF lev[n] = Levels THEN words[n][i] \in {NULL, PAGE_PRESENT}
       ELSE words[n][i] # NULL => words[n][i] \in Page /\ lev[words[n][i]] = lev[n] + 1

Path == [1..Levels -> Page]

(* The walk for an address in the table. *)
Complete(a, path, lev) ==
  /\ path[1] = pagetable_root
  /\ \A l \in 1..Levels : lev[path[l]] = l /\ ~Clearing(path[l])
  /\ \A l \in 1..Levels : l # Levels => words[path[l]][a[l]] = path[l + 1]
  /\ words[path[Levels]][a[Levels]] = PAGE_PRESENT

(* How far an insertion has come. *)
Inserting(t, path, lev) ==
  /\ path[1] = pagetable_root
  /\ path[level[t]] = node[t]
  /\ \A l \in 1..Levels : l <= level[t] => lev[path[l]] = l
  /\ \A l \in 1..Levels : l < level[t] =>
       ~Clearing(path[l]) /\ words[path[l]][addr[t][l]] = path[l + 1]

Querying(t, path, lev) ==
  Complete(addr[t], path, lev) /\ path[level[t]] = node[t]

PathsInv(lev) ==
  /\ \A a \in inserted : \E path \in Path : Complete(a, path, lev)
  /\ \A t \in Thread : pc[t] \in {"insert", "zerofill"} /\ node[t] # NULL =>
       \E path \in Path : Inserting(t, path, lev)
  /\ \A t \in Thread : pc[t] = "query" /\ there[t] =>
       \E path \in Path : Querying(t, path, lev)

(* name[n] is an address for which node n is there: the indices above the  *)
(* level of n are those on the way to n.                                   *)
SamePrefix(k, p, q) == \A l \in 1..Levels : l < k => p[l] = q[l]

(* Where an insertion is, it is for its address. *)
AtName(t, lev, name) ==
  pc[t] \in {"insert", "zerofill"} /\ node[t] # NULL =>
    lev[node[t]] = level[t] /\ SamePrefix(level[t], name[node[t]], addr[t])

(* The node that word i of node m leads to. *)
ChildNamed(m, i, lev, name) ==
  lev[m] # 0 /\ ~Clearing(m) /\ words[m][i] # NULL =>
    IF lev[m] = Levels
    THEN \E a \in inserted : SamePrefix(Levels, a, name[m]) /\ a[Levels] = i
    ELSE /\ SamePrefix(lev[m], name[m], name[words[m][i]])
         /\ name[words[m][i]][lev[m]] = i

(* The node whose word leads to node n. *)
ParentOf(m, n, lev, name) ==
  /\ lev[m] # 0 /\ lev[m] + 1 = lev[n] /\ ~Clearing(m)
  /\ SamePrefix(lev[m], name[m], name[n])
  /\ words[m][name[n][lev[m]]] = n

(* Each node but the root has one word that leads to it. *)
Named(lev, name) ==
  /\ \A n \in Page : lev[n] # 0 => name[n] \in Addr
  /\ \A m, n \in Page : lev[m] # 0 /\ lev[m] = lev[n] /\ SamePrefix(lev[m], name[m], name[n])
       => m = n
  /\ \A m \in Page, i \in Index : ChildNamed(m, i, lev, name)
  /\ \A n \in Page : lev[n] \notin {0, 1} => \E m \in Page : ParentOf(m, n, lev, name)
  /\ \A t \in Thread : AtName(t, lev, name)

NamesInv(lev) ==
  /\ \E name \in [Page -> [1..Levels -> Index]] : Named(lev, name)
  /\ \A n \in Page : lev[n] = 1 => n = pagetable_root
  /\ pagetable_root = NULL => \A n \in Page : lev[n] = 0
  /\ \A n \in mapped :
       n \in Range(free_pages) \/ (\E t \in Thread : n \in lists[t]) \/ lev[n] # 0

TableInv == \E lev \in [Page -> 0..Levels] : LevelsInv(lev) /\ PathsInv(lev) /\ NamesInv(lev)

IInv == PageTableTypeOK /\ PoolInv /\ WalkInv /\ GCPagesInOnePlace /\ TableInv

-----------------------------------------------------------------------------
(***************************************************************************)
(* The pool.                                                               *)
(***************************************************************************)
LEMMA PoolAllocates ==
  ASSUME PageTableTypeOK, PoolInv, NEW n \in Page, AllocatePage(n)
  PROVE  /\ mapped' = mapped \cup {n}
         /\ mapped' \in SUBSET Page
         /\ free_pages' \in Seq(mapped')
         /\ Distinct(free_pages')
         /\ Range(free_pages') = Range(free_pages) \ {n}
         /\ n \notin mapped \/ n \in Range(free_pages)
         /\ \A t \in Thread : n \notin lists[t]
<1>1. free_pages \in Seq(mapped) /\ mapped \subseteq Page
  BY DEF PageTableTypeOK
<1>2. Range(free_pages) \subseteq mapped
  BY <1>1 DEF Range
<1>3. CASE /\ free_pages # <<>> /\ n = Head(free_pages)
           /\ free_pages' = Tail(free_pages) /\ mapped' = mapped
  <2>1. /\ Tail(free_pages) \in Seq(mapped)
        /\ n \in mapped /\ n \in Range(free_pages)
        /\ Range(free_pages) = Range(Tail(free_pages)) \cup {n}
    BY <1>1, <1>3, PopFrontFacts
  <2>2. Distinct(Tail(free_pages)) /\ n \notin Range(Tail(free_pages))
    BY <1>1, <1>3, PopFrontDistinct DEF PoolInv
  <2>3. mapped' = mapped \cup {n}
    BY <1>3, <2>1
  <2> QED
    BY <1>1, <1>3, <2>1, <2>2, <2>3 DEF PoolInv
<1>4. CASE /\ free_pages = <<>> /\ n \in Page \ mapped
           /\ mapped' = mapped \cup {n} /\ free_pages' = free_pages
  <2>1. free_pages \in Seq(mapped')
    BY <1>1, <1>4
  <2>2. \A t \in Thread : n \notin lists[t]
    BY <1>4 DEF PageTableTypeOK
  <2> QED
    BY <1>1, <1>2, <1>4, <2>1, <2>2 DEF PoolInv
<1> QED
  BY <1>3, <1>4 DEF AllocatePage

LEMMA PoolFrees ==
  ASSUME PageTableTypeOK, PoolInv, NEW t \in Thread, NEW n \in lists[t], FreePages(<<n>>)
  PROVE  /\ mapped' = mapped
         /\ free_pages' \in Seq(mapped)
         /\ Distinct(free_pages')
         /\ Range(free_pages') = Range(free_pages) \cup {n}
<1>1. free_pages \in Seq(mapped) /\ n \in mapped /\ n \notin Range(free_pages)
  BY DEF PageTableTypeOK, PoolInv
<1> DEFINE s == [i \in 1..Len(<<n>>) |-> <<n>>[Len(<<n>>) + 1 - i]]
<1>2. s = <<n>>
  <2>1. Len(<<n>>) = 1 /\ <<n>> = [i \in 1..1 |-> n]
    OBVIOUS
  <2>2. \A i \in 1..1 : <<n>>[1 + 1 - i] = n
    OBVIOUS
  <2>3. s = [i \in 1..1 |-> <<n>>[1 + 1 - i]]
    BY <2>1
  <2>4. s = [i \in 1..1 |-> n]
    BY <2>2, <2>3
  <2> QED
    BY <2>1, <2>4
<1>3. free_pages' = <<n>> \o free_pages /\ mapped' = mapped
  BY <1>2 DEF FreePages, pageVars
<1>4. <<n>> \in Seq(mapped) /\ Distinct(<<n>>) /\ Range(<<n>>) = {n}
  BY <1>1 DEF Distinct, Range
<1>5. /\ <<n>> \o free_pages \in Seq(mapped)
      /\ Distinct(<<n>> \o free_pages)
      /\ Range(<<n>> \o free_pages) = {n} \cup Range(free_pages)
  <2>1. Range(<<n>>) \cap Range(free_pages) = {}
    BY <1>1, <1>4
  <2>2. Distinct(free_pages)
    BY DEF PoolInv
  <2> DEFINE one == <<n>>
  <2>3. /\ one \in Seq(mapped) /\ Distinct(one) /\ Range(one) = {n}
        /\ Range(one) \cap Range(free_pages) = {}
    BY <1>4, <2>1
  <2> HIDE DEF one
  <2>4. /\ one \o free_pages \in Seq(mapped)
        /\ Distinct(one \o free_pages)
        /\ Range(one \o free_pages) = {n} \cup Range(free_pages)
    BY <1>1, <2>2, <2>3, ConcatDistinct
  <2> QED
    BY <2>4 DEF one
<1> QED
  BY <1>3, <1>5

-----------------------------------------------------------------------------
(***************************************************************************)
(* Types, the pool, the lock and the owners of GC pages, action by action. *)
(***************************************************************************)
Basics == PageTableTypeOK /\ PoolInv /\ WalkInv /\ GCPagesInOnePlace

(* Only thread t walks. *)
OthersRest(t) ==
  \A u \in Thread : u # t =>
    /\ pc'[u] = pc[u] /\ addr'[u] = addr[u] /\ node'[u] = node[u]
    /\ level'[u] = level[u] /\ there'[u] = there[u]

LEMMA TakeListPageBasics ==
  ASSUME Basics, NEW t \in Thread, NEW n \in Page, TakeListPage(t, n)
  PROVE  Basics'
<1> USE DEF Basics
<1>1. /\ mapped' = mapped \cup {n}
      /\ mapped' \in SUBSET Page
      /\ free_pages' \in Seq(mapped')
      /\ Distinct(free_pages')
      /\ Range(free_pages') = Range(free_pages) \ {n}
      /\ \A u \in Thread : n \notin lists[u]
  BY PoolAllocates DEF TakeListPage
<1>2. /\ words' = [words EXCEPT ![n] = Cleared]
      /\ lists' = [lists EXCEPT ![t] = {n}]
      /\ UNCHANGED <<pagetable_root, inserted, empty_pages, owned, g_gcmemlock, pc,
                     addr, node, level, there>>
  BY DEF TakeListPage, gcPageVars, walkVars
<1>3. Cleared \in [Index -> Page \cup {NULL, PAGE_PRESENT}]
  BY DEF Cleared
<1>4. PageTableTypeOK'
  BY <1>1, <1>2, <1>3 DEF PageTableTypeOK
<1>5. PoolInv'
  BY <1>1, <1>2 DEF PoolInv, PageTableTypeOK
<1>6. WalkInv' /\ GCPagesInOnePlace'
  BY <1>2 DEF WalkInv, GCPagesInOnePlace
<1> QED
  BY <1>4, <1>5, <1>6

LEMMA FreeListPageBasics ==
  ASSUME Basics, NEW t \in Thread, NEW n \in Page, FreeListPage(t, n)
  PROVE  Basics'
<1> USE DEF Basics
<1>1. /\ mapped' = mapped
      /\ free_pages' \in Seq(mapped)
      /\ Distinct(free_pages')
      /\ Range(free_pages') = Range(free_pages) \cup {n}
  BY PoolFrees DEF FreeListPage
<1> DEFINE w == [Cleared EXCEPT ![0] = IF free_pages = <<>> THEN NULL ELSE Head(free_pages)]
<1>2. /\ n \in lists[t]
      /\ words' = [words EXCEPT ![n] = w]
      /\ lists' = [lists EXCEPT ![t] = {}]
      /\ UNCHANGED <<pagetable_root, inserted, empty_pages, owned, g_gcmemlock, pc,
                     addr, node, level, there>>
  BY DEF FreeListPage, gcPageVars, walkVars
<1>3. w \in [Index -> Page \cup {NULL, PAGE_PRESENT}]
  <2>1. free_pages # <<>> => Head(free_pages) \in Page
    BY PopFrontFacts DEF PageTableTypeOK
  <2> QED
    BY <2>1 DEF Cleared
<1> HIDE DEF w
<1>4. PageTableTypeOK'
  BY <1>1, <1>2, <1>3 DEF PageTableTypeOK
<1>5. PoolInv'
  BY <1>1, <1>2 DEF PoolInv, PageTableTypeOK
<1>6. WalkInv' /\ GCPagesInOnePlace'
  BY <1>2 DEF WalkInv, GCPagesInOnePlace
<1> QED
  BY <1>4, <1>5, <1>6

LEMMA addNewPageBasics ==
  ASSUME Basics, NEW t \in Thread, NEW a \in Addr, addNewPage(t, a)
  PROVE  Basics'
<1> USE DEF Basics
<1>1. /\ empty_pages' = empty_pages \cup {a}
      /\ owned' = [owned EXCEPT ![t] = @ \ {a}]
      /\ a \in owned[t]
      /\ UNCHANGED <<mapped, free_pages, lists, words, pagetable_root, inserted,
                     g_gcmemlock, pc, addr, node, level, there>>
  BY DEF addNewPage, poolVars, tableVars, walkVars
<1>2. PageTableTypeOK'
  BY <1>1 DEF PageTableTypeOK
<1>3. PoolInv' /\ WalkInv'
  BY <1>1 DEF PoolInv, WalkInv
<1>4. GCPagesInOnePlace'
  BY <1>1 DEF GCPagesInOnePlace, PageTableTypeOK
<1> QED
  BY <1>2, <1>3, <1>4

LEMMA AllocateFreshPageBasics ==
  ASSUME Basics, NEW t \in Thread, AllocateFreshPage(t)
  PROVE  Basics'
<1> USE DEF Basics
<1>1. /\ pc[t] = "idle" /\ g_gcmemlock = NULL /\ g_gcmemlock' = t
      /\ pc' = [pc EXCEPT ![t] = "allocate"]
      /\ UNCHANGED <<mapped, free_pages, lists, words, pagetable_root, inserted,
                     empty_pages, owned, addr, node, level, there>>
  BY DEF AllocateFreshPage, Goto, poolVars, tableVars, gcPageVars, walkVars
<1>2. PageTableTypeOK'
  BY <1>1 DEF PageTableTypeOK, Steps
<1>3. PoolInv' /\ GCPagesInOnePlace'
  BY <1>1 DEF PoolInv, GCPagesInOnePlace
<1>4. WalkInv'
  BY <1>1, TableAssumption DEF WalkInv, PageTableTypeOK
<1> QED
  BY <1>2, <1>3, <1>4

LEMMA ReuseEmptyPageBasics ==
  ASSUME Basics, NEW t \in Thread, NEW a \in Addr, ReuseEmptyPage(t, a)
  PROVE  Basics'
<1> USE DEF Basics
<1>1. /\ pc[t] = "allocate" /\ a \in empty_pages /\ g_gcmemlock' = NULL
      /\ empty_pages' = empty_pages \ {a}
      /\ owned' = [owned EXCEPT ![t] = @ \cup {a}]
      /\ pc' = [pc EXCEPT ![t] = "idle"]
      /\ UNCHANGED <<mapped, free_pages, lists, words, pagetable_root, inserted,
                     addr, node, level, there>>
  BY DEF ReuseEmptyPage, Unlinked, Goto, poolVars, tableVars, walkVars
<1>2. PageTableTypeOK'
  BY <1>1 DEF PageTableTypeOK, Steps
<1>3. PoolInv'
  BY <1>1 DEF PoolInv
<1>4. GCPagesInOnePlace'
  BY <1>1 DEF GCPagesInOnePlace, PageTableTypeOK
<1>5. WalkInv'
  BY <1>1 DEF WalkInv, PageTableTypeOK
<1> QED
  BY <1>2, <1>3, <1>4, <1>5

LEMMA MapPageBasics ==
  ASSUME Basics, NEW t \in Thread, NEW a \in Addr, MapPage(t, a)
  PROVE  Basics'
<1> USE DEF Basics
<1>1. /\ pc[t] = "allocate" /\ a \in Addr \ inserted
      /\ pc' = [pc EXCEPT ![t] = "insert"]
      /\ addr' = [addr EXCEPT ![t] = a]
      /\ node' = [node EXCEPT ![t] = pagetable_root]
      /\ level' = [level EXCEPT ![t] = 1]
      /\ UNCHANGED <<mapped, free_pages, lists, words, pagetable_root, inserted,
                     empty_pages, owned, g_gcmemlock, there>>
  BY DEF MapPage, Goto, Walk, poolVars, tableVars, gcPageVars
<1>2. PageTableTypeOK'
  BY <1>1, TableAssumption DEF PageTableTypeOK, Steps
<1>3. PoolInv' /\ GCPagesInOnePlace'
  BY <1>1 DEF PoolInv, GCPagesInOnePlace
<1>4. WalkInv'
  BY <1>1 DEF WalkInv, PageTableTypeOK
<1> QED
  BY <1>2, <1>3, <1>4

LEMMA AddRootBasics ==
  ASSUME Basics, NEW t \in Thread, NEW n \in Page, AddRoot(t, n)
  PROVE  Basics'
<1> USE DEF Basics
<1>1. /\ mapped' = mapped \cup {n}
      /\ mapped' \in SUBSET Page
      /\ free_pages' \in Seq(mapped')
      /\ Distinct(free_pages')
      /\ Range(free_pages') = Range(free_pages) \ {n}
  BY PoolAllocates DEF AddRoot
<1>2. /\ pc[t] = "insert" /\ node[t] = NULL
      /\ pc' = [pc EXCEPT ![t] = "zerofill"]
      /\ addr' = [addr EXCEPT ![t] = addr[t]]
      /\ node' = [node EXCEPT ![t] = n]
      /\ level' = [level EXCEPT ![t] = 1]
      /\ pagetable_root' = n
      /\ UNCHANGED <<lists, words, inserted, empty_pages, owned, g_gcmemlock, there>>
  BY DEF AddRoot, Goto, Walk, gcPageVars
<1>3. PageTableTypeOK'
  BY <1>1, <1>2, TableAssumption DEF PageTableTypeOK, Steps
<1>4. PoolInv' /\ GCPagesInOnePlace'
  BY <1>1, <1>2 DEF PoolInv, GCPagesInOnePlace
<1>5. WalkInv'
  <2>1. \A u \in Thread : u # t => pc[u] \notin {"allocate", "insert", "zerofill"}
    BY <1>2 DEF WalkInv
  <2> QED
    BY <1>2, <2>1, TableAssumption DEF WalkInv, PageTableTypeOK
<1> QED
  BY <1>3, <1>4, <1>5

LEMMA AddNodeBasics ==
  ASSUME Basics, NEW t \in Thread, NEW n \in Page, AddNode(t, n)
  PROVE  Basics'
<1> USE DEF Basics
<1>1. /\ mapped' = mapped \cup {n}
      /\ mapped' \in SUBSET Page
      /\ free_pages' \in Seq(mapped')
      /\ Distinct(free_pages')
      /\ Range(free_pages') = Range(free_pages) \ {n}
  BY PoolAllocates DEF AddNode
<1>2. /\ pc[t] = "insert" /\ node[t] # NULL /\ level[t] < Levels
      /\ pc' = [pc EXCEPT ![t] = "zerofill"]
      /\ addr' = [addr EXCEPT ![t] = addr[t]]
      /\ node' = [node EXCEPT ![t] = n]
      /\ level' = [level EXCEPT ![t] = level[t] + 1]
      /\ words' = [words EXCEPT ![node[t]][addr[t][level[t]]] = n]
      /\ UNCHANGED <<lists, pagetable_root, inserted, empty_pages, owned, g_gcmemlock, there>>
  BY DEF AddNode, Goto, Walk, gcPageVars
<1>3. level[t] \in 1..Levels /\ level[t] + 1 \in 1..Levels
  BY <1>2, TableAssumption DEF PageTableTypeOK
<1>4. PageTableTypeOK'
  <2>1. words' \in [Page -> [Index -> Page \cup {NULL, PAGE_PRESENT}]]
    BY <1>2 DEF PageTableTypeOK
  <2> QED
    BY <1>1, <1>2, <1>3, <2>1 DEF PageTableTypeOK, Steps
<1>5. PoolInv' /\ GCPagesInOnePlace'
  BY <1>1, <1>2 DEF PoolInv, GCPagesInOnePlace
<1>6. WalkInv'
  BY <1>2, TableAssumption DEF WalkInv, PageTableTypeOK
<1> QED
  BY <1>4, <1>5, <1>6

LEMMA ZeroFillBasics ==
  ASSUME Basics, NEW t \in Thread, ZeroFill(t)
  PROVE  Basics'
<1> USE DEF Basics
<1>1. /\ pc[t] = "zerofill"
      /\ pc' = [pc EXCEPT ![t] = "insert"]
      /\ words' = [words EXCEPT ![node[t]] = Cleared]
      /\ UNCHANGED <<mapped, free_pages, lists, pagetable_root, inserted, empty_pages,
                     owned, g_gcmemlock, addr, node, level, there>>
  BY DEF ZeroFill, ZeroFilled, Goto, poolVars, gcPageVars, walkVars
<1>2. Cleared \in [Index -> Page \cup {NULL, PAGE_PRESENT}]
  BY DEF Cleared
<1>3. PageTableTypeOK'
  BY <1>1, <1>2 DEF PageTableTypeOK, Steps
<1>4. PoolInv' /\ GCPagesInOnePlace'
  BY <1>1 DEF PoolInv, GCPagesInOnePlace
<1>5. WalkInv'
  BY <1>1 DEF WalkInv, PageTableTypeOK
<1> QED
  BY <1>3, <1>4, <1>5

LEMMA SetPresentBasics ==
  ASSUME Basics, NEW t \in Thread, SetPresent(t)
  PROVE  Basics'
<1> USE DEF Basics
<1>1. /\ pc[t] = "insert" /\ g_gcmemlock' = NULL
      /\ words' = [words EXCEPT ![node[t]][addr[t][Levels]] = PAGE_PRESENT]
      /\ inserted' = inserted \cup {addr[t]}
      /\ owned' = [owned EXCEPT ![t] = @ \cup {addr[t]}]
      /\ pc' = [pc EXCEPT ![t] = "idle"]
      /\ addr' = [addr EXCEPT ![t] = NULL]
      /\ node' = [node EXCEPT ![t] = NULL]
      /\ level' = [level EXCEPT ![t] = 1]
      /\ UNCHANGED <<mapped, free_pages, lists, pagetable_root, empty_pages, there>>
  BY DEF SetPresent, Idle, Goto, Walk, poolVars
<1>2. /\ addr[t] \in Addr \ inserted
      /\ \A u \in Thread : u # t => pc[u] \notin {"allocate", "insert", "zerofill"}
  BY <1>1 DEF WalkInv
<1>3. PageTableTypeOK'
  <2>1. words' \in [Page -> [Index -> Page \cup {NULL, PAGE_PRESENT}]]
    BY <1>1 DEF PageTableTypeOK
  <2> QED
    BY <1>1, <1>2, <2>1, TableAssumption DEF PageTableTypeOK, Steps
<1>4. PoolInv'
  BY <1>1 DEF PoolInv
<1>5. GCPagesInOnePlace'
  <2>1. \A u \in Thread : owned[u] \subseteq inserted
    BY DEF PageTableTypeOK
  <2>2. empty_pages \subseteq inserted /\ owned \in [Thread -> SUBSET inserted]
    BY DEF PageTableTypeOK
  <2>3. \A u \in Thread : owned'[u] = IF u = t THEN owned[t] \cup {addr[t]} ELSE owned[u]
    BY <1>1, <2>2
  <2> QED
    BY <1>1, <1>2, <2>1, <2>2, <2>3 DEF GCPagesInOnePlace
<1>6. WalkInv'
  BY <1>1, <1>2 DEF WalkInv, PageTableTypeOK
<1> QED
  BY <1>3, <1>4, <1>5, <1>6

-----------------------------------------------------------------------------
(***************************************************************************)
(* What a step that only writes over null words of nodes leaves alone.     *)
(***************************************************************************)
Kept(lev, lev2) ==
  /\ \A n \in Page : lev[n] # 0 => lev2[n] = lev[n]
  /\ \A n \in Page : lev[n] # 0 /\ ~Clearing(n) => ~Clearing(n)'
  /\ \A n \in Page, i \in Index : lev[n] # 0 /\ ~Clearing(n) /\ words[n][i] # NULL =>
       words'[n][i] = words[n][i]
  /\ pagetable_root # NULL => pagetable_root' = pagetable_root

LEMMA CompleteKept ==
  ASSUME NEW lev \in [Page -> 0..Levels], NEW lev2 \in [Page -> 0..Levels],
         Kept(lev, lev2), NEW a \in Addr, NEW path \in Path, Complete(a, path, lev)
  PROVE  Complete(a, path, lev2)'
<1>1. /\ Levels \in Nat \ {0} /\ 1 \in 1..Levels /\ Levels \in 1..Levels
      /\ \A l \in 1..Levels : a[l] \in Index /\ path[l] \in Page
      /\ NULL \notin Page /\ PAGE_PRESENT # NULL
  BY TableAssumption DEF Path
<1>2. path[1] = pagetable_root'
  BY <1>1 DEF Complete, Kept
<1>3. \A l \in 1..Levels : lev2[path[l]] = l /\ ~Clearing(path[l])'
  BY <1>1 DEF Complete, Kept
<1>4. ASSUME NEW l \in 1..Levels, l # Levels
      PROVE  words'[path[l]][a[l]] = path[l + 1]
  <2>1. l + 1 \in 1..Levels
    BY <1>1, <1>4
  <2>2. words[path[l]][a[l]] = path[l + 1] /\ words[path[l]][a[l]] # NULL
    BY <1>1, <1>4, <2>1 DEF Complete
  <2>3. lev[path[l]] # 0 /\ ~Clearing(path[l])
    BY <1>4 DEF Complete
  <2> QED
    BY <1>1, <2>2, <2>3 DEF Kept
<1>5. words'[path[Levels]][a[Levels]] = PAGE_PRESENT
  <2>1. lev[path[Levels]] # 0 /\ ~Clearing(path[Levels])
    BY <1>1 DEF Complete
  <2> QED
    BY <1>1, <2>1 DEF Complete, Kept
<1> QED
  BY <1>2, <1>3, <1>4, <1>5 DEF Complete

LEMMA InsertingKept ==
  ASSUME NEW lev \in [Page -> 0..Levels], NEW lev2 \in [Page -> 0..Levels],
         Kept(lev, lev2), NEW t \in Thread, NEW path \in Path, Inserting(t, path, lev),
         addr[t] \in Addr, level[t] \in 1..Levels,
         addr'[t] = addr[t], node'[t] = node[t], level'[t] = level[t]
  PROVE  Inserting(t, path, lev2)'
<1>1. /\ Levels \in Nat \ {0} /\ 1 \in 1..Levels
      /\ \A l \in 1..Levels : addr[t][l] \in Index /\ path[l] \in Page
      /\ NULL \notin Page
  BY TableAssumption DEF Path
<1>2. path[1] = pagetable_root'
  BY <1>1 DEF Inserting, Kept
<1>3. \A l \in 1..Levels : l <= level[t] => lev2[path[l]] = l
  BY <1>1 DEF Inserting, Kept
<1>4. ASSUME NEW l \in 1..Levels, l < level[t]
      PROVE  ~Clearing(path[l])' /\ words'[path[l]][addr[t][l]] = path[l + 1]
  <2>1. l + 1 \in 1..Levels /\ l <= level[t]
    BY <1>1, <1>4
  <2>2. words[path[l]][addr[t][l]] = path[l + 1] /\ words[path[l]][addr[t][l]] # NULL
    BY <1>1, <1>4, <2>1 DEF Inserting
  <2>3. lev[path[l]] # 0 /\ ~Clearing(path[l])
    BY <1>4, <2>1 DEF Inserting
  <2> QED
    BY <1>1, <2>2, <2>3 DEF Kept
<1> QED
  BY <1>2, <1>3, <1>4 DEF Inserting

(* A step of thread t that keeps the nodes keeps the walks of the others.  *)
LEMMA TableKept ==
  ASSUME PageTableTypeOK, WalkInv,
         NEW lev \in [Page -> 0..Levels], NEW lev2 \in [Page -> 0..Levels],
         PathsInv(lev), Kept(lev, lev2), LevelsInv(lev2)', NamesInv(lev2)',
         NEW t \in Thread, OthersRest(t),
         inserted \subseteq inserted',
         \A a \in inserted' \ inserted : \E path \in Path : Complete(a, path, lev2)',
         pc'[t] \in {"insert", "zerofill"} /\ node'[t] # NULL =>
           \E path \in Path : Inserting(t, path, lev2)',
         pc'[t] = "query" /\ there'[t] => \E path \in Path : Querying(t, path, lev2)'
  PROVE  TableInv'
<1>1. ASSUME NEW a \in inserted'
      PROVE  \E path \in Path : Complete(a, path, lev2)'
  <2>1. CASE a \in inserted
    <3>1. PICK path \in Path : Complete(a, path, lev)
      BY <2>1 DEF PathsInv
    <3>2. a \in Addr
      BY <2>1 DEF PageTableTypeOK
    <3>3. Complete(a, path, lev2)'
      BY <3>1, <3>2, CompleteKept
    <3> QED
      BY <3>3
  <2>2. CASE a \notin inserted
    BY <2>2
  <2> QED
    BY <2>1, <2>2
<1>2. ASSUME NEW u \in Thread, pc'[u] \in {"insert", "zerofill"}, node'[u] # NULL
      PROVE  \E path \in Path : Inserting(u, path, lev2)'
  <2>1. CASE u # t
    <3>1. /\ pc'[u] = pc[u] /\ addr'[u] = addr[u]
          /\ node'[u] = node[u] /\ level'[u] = level[u]
      BY <2>1 DEF OthersRest
    <3>2. PICK path \in Path : Inserting(u, path, lev)
      BY <1>2, <3>1 DEF PathsInv
    <3>3. addr[u] \in Addr /\ level[u] \in 1..Levels
      BY <1>2, <3>1 DEF WalkInv, PageTableTypeOK
    <3>4. Inserting(u, path, lev2)'
      BY <3>1, <3>2, <3>3, InsertingKept
    <3> QED
      BY <3>4
  <2>2. CASE u = t
    BY <1>2, <2>2
  <2> QED
    BY <2>1, <2>2
<1>3. ASSUME NEW u \in Thread, pc'[u] = "query", there'[u]
      PROVE  \E path \in Path : Querying(u, path, lev2)'
  <2>1. CASE u # t
    <3>1. /\ pc'[u] = pc[u] /\ addr'[u] = addr[u] /\ there'[u] = there[u]
          /\ node'[u] = node[u] /\ level'[u] = level[u]
      BY <2>1 DEF OthersRest
    <3>2. PICK path \in Path : Querying(u, path, lev)
      BY <1>3, <3>1 DEF PathsInv
    <3>3. addr[u] \in Addr
      BY <1>3, <3>1 DEF WalkInv
    <3>4. Complete(addr[u], path, lev2)'
      <4> DEFINE a == addr[u]
      <4>1. a \in Addr /\ Complete(a, path, lev)
        BY <3>2, <3>3 DEF Querying
      <4>2. \A b \in Addr : Complete(b, path, lev) => Complete(b, path, lev2)'
        BY CompleteKept
      <4>3. /\ \A b \in Addr : Complete(b, path, lev2)' <=>
                 /\ path[1] = pagetable_root'
                 /\ \A l \in 1..Levels : lev2[path[l]] = l /\ ~Clearing(path[l])'
                 /\ \A l \in 1..Levels : l # Levels => words'[path[l]][b[l]] = path[l + 1]
                 /\ words'[path[Levels]][b[Levels]] = PAGE_PRESENT
        BY DEF Complete
      <4>4. /\ path[1] = pagetable_root'
            /\ \A l \in 1..Levels : lev2[path[l]] = l /\ ~Clearing(path[l])'
            /\ \A l \in 1..Levels : l # Levels => words'[path[l]][a[l]] = path[l + 1]
            /\ words'[path[Levels]][a[Levels]] = PAGE_PRESENT
        BY <4>1, <4>2, <4>3
      <4> QED
        BY <3>1, <4>4 DEF Complete
    <3>5. Querying(u, path, lev2)'
      BY <3>1, <3>2, <3>4 DEF Querying
    <3> QED
      BY <3>5
  <2>2. CASE u = t
    BY <1>3, <2>2
  <2> QED
    BY <2>1, <2>2
<1>4. PathsInv(lev2)'
  BY <1>1, <1>2, <1>3 DEF PathsInv
<1> QED
  BY <1>4 DEF TableInv

(* A step that changes no node keeps their names. *)
LEMMA NamesKept ==
  ASSUME NEW lev \in [Page -> 0..Levels], LevelsInv(lev), NamesInv(lev), PageTableTypeOK,
         NEW t \in Thread, OthersRest(t),
         \A n \in Page : lev[n] # 0 => words'[n] = words[n],
         \A n \in Page : Clearing(n)' <=> Clearing(n),
         pagetable_root' = pagetable_root, inserted' = inserted,
         \A n \in mapped' :
           n \in Range(free_pages') \/ (\E u \in Thread : n \in lists'[u]) \/ lev[n] # 0,
         \A name \in [Page -> [1..Levels -> Index]] :
           Named(lev, name) => AtName(t, lev, name)'
  PROVE  NamesInv(lev)'
<1>1. PICK name \in [Page -> [1..Levels -> Index]] : Named(lev, name)
  BY DEF NamesInv
<1>2. ASSUME NEW u \in Thread
      PROVE  AtName(u, lev, name)'
  <2>1. CASE u = t
    BY <1>1, <2>1
  <2>2. CASE u # t
    BY <1>1, <2>2 DEF Named, AtName, OthersRest
  <2> QED
    BY <2>1, <2>2
<1>3. ASSUME NEW m \in Page, NEW i \in Index
      PROVE  ChildNamed(m, i, lev, name)'
  <2>1. ChildNamed(m, i, lev, name)
    BY <1>1 DEF Named
  <2> QED
    BY <2>1 DEF ChildNamed
<1>4. ASSUME NEW n \in Page, lev[n] \notin {0, 1}
      PROVE  \E m \in Page : ParentOf(m, n, lev, name)'
  <2>1. PICK m \in Page : ParentOf(m, n, lev, name)
    BY <1>1, <1>4 DEF Named
  <2>2. ParentOf(m, n, lev, name)'
    BY <2>1 DEF ParentOf
  <2> QED
    BY <2>2
<1>5. Named(lev, name)'
  BY <1>1, <1>2, <1>3, <1>4 DEF Named
<1> QED
  BY <1>5 DEF NamesInv

(* Most steps leave the table and the pool as they are. *)
LEMMA QuietKept ==
  ASSUME NEW lev \in [Page -> 0..Levels], LevelsInv(lev),
         NEW t \in Thread, OthersRest(t), pc[t] # "zerofill", pc'[t] # "zerofill",
         UNCHANGED <<words, pagetable_root, mapped, free_pages, lists>>
  PROVE  Kept(lev, lev) /\ LevelsInv(lev)'
<1>1. \A n \in Page : Clearing(n)' <=> Clearing(n)
  BY DEF Clearing, OthersRest
<1>2. Kept(lev, lev)
  BY <1>1 DEF Kept
<1>3. LevelsInv(lev)'
  BY <1>1 DEF LevelsInv
<1> QED
  BY <1>2, <1>3

LEMMA QuietNames ==
  ASSUME NEW lev \in [Page -> 0..Levels], LevelsInv(lev), NamesInv(lev), PageTableTypeOK,
         NEW t \in Thread, OthersRest(t), pc[t] # "zerofill", pc'[t] # "zerofill",
         UNCHANGED <<words, pagetable_root, mapped, free_pages, lists, inserted>>,
         \A name \in [Page -> [1..Levels -> Index]] :
           Named(lev, name) => AtName(t, lev, name)'
  PROVE  NamesInv(lev)'
<1>1. \A n \in Page : Clearing(n)' <=> Clearing(n)
  BY DEF Clearing, OthersRest
<1>2. \A n \in mapped' :
        n \in Range(free_pages') \/ (\E u \in Thread : n \in lists'[u]) \/ lev[n] # 0
  BY DEF NamesInv
<1> QED
  BY <1>1, <1>2, NamesKept

-----------------------------------------------------------------------------
(***************************************************************************)
(* The table, action by action.                                            *)
(***************************************************************************)
LEMMA RestingTable ==
  ASSUME IInv, NEW t \in Thread,
         \/ \E a \in Addr : addNewPage(t, a) \/ ReuseEmptyPage(t, a)
         \/ AllocateFreshPage(t)
  PROVE  TableInv'
<1> USE DEF IInv
<1>1. PICK lev \in [Page -> 0..Levels] : LevelsInv(lev) /\ PathsInv(lev) /\ NamesInv(lev)
  BY DEF TableInv
<1>2. /\ OthersRest(t)
      /\ pc[t] \notin {"zerofill", "query", "insert"} /\ pc'[t] \in {"idle", "allocate"}
      /\ UNCHANGED <<words, pagetable_root, mapped, free_pages, lists, inserted>>
  BY DEF addNewPage, ReuseEmptyPage, AllocateFreshPage, OthersRest, Goto, poolVars,
         tableVars, walkVars, PageTableTypeOK
<1>3. Kept(lev, lev) /\ LevelsInv(lev)'
  BY <1>1, <1>2, QuietKept
<1>4. \A name \in [Page -> [1..Levels -> Index]] : AtName(t, lev, name)'
  BY <1>2 DEF AtName
<1>5. NamesInv(lev)'
  BY <1>1, <1>2, <1>4, QuietNames
<1> QED
  BY <1>1, <1>2, <1>3, <1>5, TableKept

LEMMA EndQueryStep ==
  ASSUME IInv, NEW t \in Thread, EndQuery(t)
  PROVE  IInv'
<1> USE DEF IInv
<1>1. /\ pc[t] \in {"yes", "no"}
      /\ there' = [there EXCEPT ![t] = FALSE]
      /\ pc' = [pc EXCEPT ![t] = "idle"]
      /\ addr' = [addr EXCEPT ![t] = NULL]
      /\ node' = [node EXCEPT ![t] = NULL]
      /\ level' = [level EXCEPT ![t] = 1]
      /\ UNCHANGED <<mapped, free_pages, lists, words, pagetable_root, inserted,
                     empty_pages, owned, g_gcmemlock>>
  BY DEF EndQuery, Idle, Goto, Walk, poolVars, tableVars, gcPageVars
<1>2. PageTableTypeOK'
  BY <1>1, TableAssumption DEF PageTableTypeOK, Steps
<1>3. PoolInv' /\ GCPagesInOnePlace'
  BY <1>1 DEF PoolInv, GCPagesInOnePlace
<1>4. WalkInv'
  BY <1>1 DEF WalkInv, PageTableTypeOK
<1>5. PICK lev \in [Page -> 0..Levels] : LevelsInv(lev) /\ PathsInv(lev) /\ NamesInv(lev)
  BY DEF TableInv
<1>6. OthersRest(t) /\ pc'[t] = "idle"
  BY <1>1 DEF OthersRest, PageTableTypeOK
<1>7. Kept(lev, lev) /\ LevelsInv(lev)'
  BY <1>1, <1>5, <1>6, QuietKept
<1>8. NamesInv(lev)'
  <2>1. \A name \in [Page -> [1..Levels -> Index]] : AtName(t, lev, name)'
    BY <1>6 DEF AtName
  <2> QED
    BY <1>1, <1>5, <1>6, <2>1, QuietNames
<1>9. TableInv'
  BY <1>1, <1>5, <1>6, <1>7, <1>8, TableKept
<1> QED
  BY <1>2, <1>3, <1>4, <1>9

(* An inserting thread is the only one, so that only its node is cleared.  *)
LEMMA OneInserts ==
  ASSUME WalkInv, NEW t \in Thread, pc[t] = "insert"
  PROVE  \A n \in Page : ~Clearing(n)
  BY DEF WalkInv, Clearing

LEMMA MapPageTable ==
  ASSUME IInv, NEW t \in Thread, NEW a \in Addr, MapPage(t, a)
  PROVE  TableInv'
<1> USE DEF IInv
<1>1. PICK lev \in [Page -> 0..Levels] : LevelsInv(lev) /\ PathsInv(lev) /\ NamesInv(lev)
  BY DEF TableInv
<1>2. /\ OthersRest(t)
      /\ pc[t] = "allocate" /\ pc'[t] = "insert"
      /\ node'[t] = pagetable_root /\ level'[t] = 1
      /\ UNCHANGED <<words, pagetable_root, mapped, free_pages, lists, inserted>>
  BY DEF MapPage, OthersRest, Goto, Walk, poolVars, tableVars, gcPageVars, PageTableTypeOK
<1>3. Kept(lev, lev) /\ LevelsInv(lev)'
  BY <1>1, <1>2, QuietKept
<1>4. ASSUME node'[t] # NULL
      PROVE  \E path \in Path : Inserting(t, path, lev)'
  <2>1. PICK r \in Page : r = pagetable_root /\ lev[r] = 1
    BY <1>1, <1>2, <1>4 DEF LevelsInv, PageTableTypeOK
  <2> DEFINE path == [l \in 1..Levels |-> r]
  <2>2. path \in Path
    BY <2>1 DEF Path
  <2>3. Inserting(t, path, lev)'
    BY <1>2, <2>1, TableAssumption DEF Inserting
  <2> QED
    BY <2>2, <2>3
<1>5. NamesInv(lev)'
  <2>1. node'[t] # NULL => lev[node'[t]] = 1
    BY <1>1, <1>2 DEF LevelsInv
  <2>2. \A p, q : SamePrefix(1, p, q)
    BY TableAssumption DEF SamePrefix
  <2>3. \A name \in [Page -> [1..Levels -> Index]] : AtName(t, lev, name)'
    BY <1>2, <2>1, <2>2 DEF AtName
  <2> QED
    BY <1>1, <1>2, <2>3, QuietNames
<1> QED
  BY <1>1, <1>2, <1>3, <1>4, <1>5, TableKept

LEMMA DescendStep ==
  ASSUME IInv, NEW t \in Thread, Descend(t)
  PROVE  IInv'
<1> USE DEF IInv
<1>1. PICK k \in 1..Levels : k = level[t]
  BY DEF PageTableTypeOK
<1>2. /\ pc[t] = "insert" /\ node[t] # NULL /\ k < Levels
      /\ words[node[t]][addr[t][k]] # NULL
      /\ addr' = [addr EXCEPT ![t] = addr[t]]
      /\ node' = [node EXCEPT ![t] = words[node[t]][addr[t][k]]]
      /\ level' = [level EXCEPT ![t] = k + 1]
      /\ UNCHANGED <<mapped, free_pages, lists, words, pagetable_root, inserted,
                     empty_pages, owned, g_gcmemlock, pc, there>>
  BY <1>1 DEF Descend, NextWord, IsMissing, Walk, poolVars, tableVars, gcPageVars
<1>3. PICK lev \in [Page -> 0..Levels] : LevelsInv(lev) /\ PathsInv(lev) /\ NamesInv(lev)
  BY DEF TableInv
<1>4. PICK path \in Path : Inserting(t, path, lev)
  BY <1>2, <1>3 DEF PathsInv
<1>5. /\ k + 1 \in 1..Levels /\ Levels \in Nat
      /\ node[t] \in Page /\ addr[t] \in Addr /\ addr[t][k] \in Index
  BY <1>2, TableAssumption DEF PageTableTypeOK, WalkInv
<1>6. lev[node[t]] = k /\ path[k] = node[t] /\ ~Clearing(node[t])
  BY <1>1, <1>2, <1>4, <1>5, OneInserts DEF Inserting
<1>7. PICK m \in Page : m = words[node[t]][addr[t][k]] /\ lev[m] = k + 1
  BY <1>2, <1>3, <1>5, <1>6 DEF LevelsInv
<1>8. PageTableTypeOK'
  BY <1>2, <1>5, <1>7 DEF PageTableTypeOK
<1>9. PoolInv' /\ GCPagesInOnePlace'
  BY <1>2 DEF PoolInv, GCPagesInOnePlace
<1>10. WalkInv'
  BY <1>2, <1>7, TableAssumption DEF WalkInv, PageTableTypeOK
<1>11. /\ OthersRest(t) /\ pc'[t] = "insert" /\ addr'[t] = addr[t]
       /\ node'[t] = m /\ level'[t] = k + 1
  BY <1>2, <1>7 DEF OthersRest, PageTableTypeOK
<1>12. Kept(lev, lev) /\ LevelsInv(lev)'
  BY <1>2, <1>3, <1>11, QuietKept
<1>13. \E p \in Path : Inserting(t, p, lev)'
  <2> DEFINE p == [path EXCEPT ![k + 1] = m]
  <2>1. p \in Path /\ \A l \in 1..Levels : p[l] = IF l = k + 1 THEN m ELSE path[l]
    BY <1>5, <1>7 DEF Path
  <2> HIDE DEF p
  <2>2. p[1] = pagetable_root'
    BY <1>2, <1>4, <1>5, <2>1 DEF Inserting
  <2>3. p[k + 1] = m
    BY <1>5, <2>1
  <2>4. ASSUME NEW l \in 1..Levels, l <= k + 1
        PROVE  lev[p[l]] = l
    BY <1>1, <1>4, <1>5, <1>7, <2>1, <2>4 DEF Inserting
  <2>5. \A n \in Page : ~Clearing(n)'
    BY <1>2, OneInserts DEF Clearing, OthersRest, WalkInv, PageTableTypeOK
  <2>6. ASSUME NEW l \in 1..Levels, l < k + 1
        PROVE  ~Clearing(p[l])' /\ words'[p[l]][addr'[t][l]] = p[l + 1]
    <3>1. p[l] \in Page /\ p[l] = path[l]
      BY <1>5, <2>1, <2>6 DEF Path
    <3>2. CASE l = k
      BY <1>2, <1>6, <1>7, <1>11, <2>3, <2>5, <3>1, <3>2
    <3>3. CASE l # k
      <4>1. l < k /\ l + 1 \in 1..Levels /\ l + 1 # k + 1
        BY <1>5, <2>6, <3>3
      <4>2. words[path[l]][addr[t][l]] = path[l + 1] /\ p[l + 1] = path[l + 1]
        BY <1>1, <1>4, <2>1, <4>1 DEF Inserting
      <4> QED
        BY <1>2, <1>11, <2>5, <3>1, <4>2
    <3> QED
      BY <3>2, <3>3
  <2>7. Inserting(t, p, lev)'
    BY <1>11, <2>1, <2>2, <2>3, <2>4, <2>6 DEF Inserting
  <2> QED
    BY <2>1, <2>7
<1>14. NamesInv(lev)'
  <2>1. ASSUME NEW name \in [Page -> [1..Levels -> Index]], Named(lev, name)
        PROVE  AtName(t, lev, name)'
    <3>1. SamePrefix(k, name[node[t]], addr[t])
      BY <1>1, <1>2, <2>1 DEF Named, AtName
    <3>2. SamePrefix(k, name[node[t]], name[m]) /\ name[m][k] = addr[t][k]
      <4>1. ChildNamed(node[t], addr[t][k], lev, name)
        BY <1>5, <2>1 DEF Named
      <4> QED
        BY <1>2, <1>5, <1>6, <1>7, <4>1 DEF ChildNamed
    <3>3. SamePrefix(k + 1, name[m], addr[t])
      BY <1>5, <3>1, <3>2 DEF SamePrefix
    <3> QED
      BY <1>7, <1>11, <3>3 DEF AtName
  <2> QED
    BY <1>2, <1>3, <1>11, <2>1, QuietNames
<1>15. TableInv'
  BY <1>2, <1>3, <1>11, <1>12, <1>13, <1>14, TableKept
<1> QED
  BY <1>8, <1>9, <1>10, <1>15

LEMMA AddRootTable ==
  ASSUME IInv, NEW t \in Thread, NEW n \in Page, AddRoot(t, n)
  PROVE  TableInv'
<1> USE DEF IInv
<1>1. /\ pc[t] = "insert" /\ node[t] = NULL
      /\ pc' = [pc EXCEPT ![t] = "zerofill"]
      /\ addr' = [addr EXCEPT ![t] = addr[t]]
      /\ node' = [node EXCEPT ![t] = n]
      /\ level' = [level EXCEPT ![t] = 1]
      /\ pagetable_root' = n
      /\ UNCHANGED <<lists, words, inserted, empty_pages, owned, g_gcmemlock, there>>
  BY DEF AddRoot, Goto, Walk, gcPageVars
<1>2. /\ mapped' = mapped \cup {n}
      /\ Range(free_pages') = Range(free_pages) \ {n}
      /\ n \notin mapped \/ n \in Range(free_pages)
      /\ \A u \in Thread : n \notin lists[u]
  BY PoolAllocates DEF AddRoot
<1>3. PICK lev \in [Page -> 0..Levels] : LevelsInv(lev) /\ PathsInv(lev) /\ NamesInv(lev)
  BY DEF TableInv
<1>4. pagetable_root = NULL
  BY <1>1 DEF WalkInv
<1>5. lev[n] = 0
  BY <1>2, <1>3 DEF LevelsInv
<1>6. OthersRest(t) /\ pc'[t] = "zerofill" /\ node'[t] = n /\ level'[t] = 1
  BY <1>1, TableAssumption DEF OthersRest, PageTableTypeOK
<1>7. \A m \in Page : ~Clearing(m)
  BY <1>1, OneInserts
<1>8. \A m \in Page : Clearing(m)' <=> m = n
  <2>1. \A u \in Thread : u # t => pc'[u] # "zerofill"
    BY <1>1, <1>6 DEF OthersRest, WalkInv
  <2> QED
    BY <1>6, <2>1 DEF Clearing
<1>9. PICK lev2 \in [Page -> 0..Levels] :
        \A m \in Page : lev2[m] = IF m = n THEN 1 ELSE lev[m]
  <2> DEFINE f == [m \in Page |-> IF m = n THEN 1 ELSE lev[m]]
  <2>1. f \in [Page -> 0..Levels]
    BY TableAssumption
  <2> QED
    BY <2>1
<1>10. Kept(lev, lev2)
  BY <1>1, <1>4, <1>5, <1>8, <1>9 DEF Kept
<1>11. LevelsInv(lev2)'
  <2>1. \A m \in Page : lev2[m] # 0 =>
          m \in mapped' /\ m \notin Range(free_pages') /\ \A u \in Thread : m \notin lists'[u]
    BY <1>1, <1>2, <1>3, <1>9 DEF LevelsInv
  <2>2. pagetable_root' # NULL => lev2[pagetable_root'] = 1
    BY <1>1, <1>9
  <2>3. ASSUME NEW m \in Page, NEW i \in Index, lev2[m] # 0, ~Clearing(m)'
        PROVE  IF lev2[m] = Levels THEN words'[m][i] \in {NULL, PAGE_PRESENT}
               ELSE words'[m][i] # NULL =>
                      words'[m][i] \in Page /\ lev2[words'[m][i]] = lev2[m] + 1
    <3>1. m # n /\ lev2[m] = lev[m] /\ lev[m] # 0 /\ ~Clearing(m) /\ words' = words
      BY <1>1, <1>7, <1>8, <1>9, <2>3
    <3>2. IF lev[m] = Levels THEN words[m][i] \in {NULL, PAGE_PRESENT}
          ELSE words[m][i] # NULL => words[m][i] \in Page /\ lev[words[m][i]] = lev[m] + 1
      BY <1>3, <3>1 DEF LevelsInv
    <3>3. \A k \in Page : lev[k] = lev[m] + 1 => k # n
      BY <1>5
    <3> QED
      BY <1>9, <3>1, <3>2, <3>3
  <2> QED
    BY <2>1, <2>2, <2>3 DEF LevelsInv
<1>12. \E path \in Path : Inserting(t, path, lev2)'
  <2> DEFINE path == [l \in 1..Levels |-> n]
  <2>1. path \in Path
    BY DEF Path
  <2>2. Inserting(t, path, lev2)'
    BY <1>1, <1>6, <1>9, TableAssumption DEF Inserting
  <2> QED
    BY <2>1, <2>2
(* Before there is a root there is no node at all. *)
<1>13. NamesInv(lev2)'
  <2>1. \A m \in Page : lev2[m] = IF m = n THEN 1 ELSE 0
    BY <1>3, <1>4, <1>9 DEF NamesInv
  <2>2. PICK a \in Addr : a = addr[t]
    BY <1>1 DEF WalkInv
  <2>3. PICK name \in [Page -> [1..Levels -> Index]] : name[n] = a
    <3>1. [m \in Page |-> a] \in [Page -> [1..Levels -> Index]]
      BY TableAssumption
    <3> QED
      BY <3>1
  <2>4. AtName(t, lev2, name)'
    BY <1>6, <2>1, TableAssumption DEF AtName, SamePrefix
  <2>5. \A u \in Thread : AtName(u, lev2, name)'
    <3>1. \A u \in Thread : u # t => pc'[u] \notin {"insert", "zerofill"}
      BY <1>1, <1>6 DEF OthersRest, WalkInv
    <3> QED
      BY <2>4, <3>1 DEF AtName
  <2>6. Named(lev2, name)'
    <3>1. \A m \in Page, i \in Index : ChildNamed(m, i, lev2, name)'
      BY <1>8, <2>1 DEF ChildNamed
    <3>2. \A m \in Page : lev2[m] \in {0, 1} /\ (lev2[m] # 0 => m = n)
      BY <2>1
    <3> QED
      BY <2>3, <2>5, <3>1, <3>2 DEF Named
  <2>7. \A m \in mapped' :
          m \in Range(free_pages') \/ (\E u \in Thread : m \in lists'[u]) \/ lev2[m] # 0
    <3>1. ASSUME NEW m \in mapped'
          PROVE  m \in Range(free_pages') \/ (\E u \in Thread : m \in lists'[u]) \/ lev2[m] # 0
      <4>1. CASE m = n
        BY <2>1, <4>1
      <4>2. CASE m # n
        <5>1. m \in mapped /\ m \in Page
          BY <1>2, <4>2 DEF PageTableTypeOK
        <5>2. m \in Range(free_pages) \/ (\E u \in Thread : m \in lists[u]) \/ lev[m] # 0
          BY <1>3, <5>1 DEF NamesInv
        <5> QED
          BY <1>1, <1>2, <1>9, <4>2, <5>1, <5>2
      <4> QED
        BY <4>1, <4>2
    <3> QED
      BY <3>1
  <2>8. n # NULL
    BY TableAssumption
  <2> QED
    BY <1>1, <2>1, <2>6, <2>7, <2>8 DEF NamesInv
<1> QED
  BY <1>1, <1>3, <1>6, <1>10, <1>11, <1>12, <1>13, TableKept

LEMMA AddNodeTable ==
  ASSUME IInv, NEW t \in Thread, NEW n \in Page, AddNode(t, n)
  PROVE  TableInv'
<1> USE DEF IInv
<1>1. PICK k \in 1..Levels, d \in Page, a \in Addr :
        k = level[t] /\ d = node[t] /\ a = addr[t]
  BY DEF AddNode, PageTableTypeOK, WalkInv
<1>2. /\ pc[t] = "insert" /\ k < Levels
      /\ words[d][a[k]] = NULL
      /\ pc' = [pc EXCEPT ![t] = "zerofill"]
      /\ addr' = [addr EXCEPT ![t] = a]
      /\ node' = [node EXCEPT ![t] = n]
      /\ level' = [level EXCEPT ![t] = k + 1]
      /\ words' = [words EXCEPT ![d][a[k]] = n]
      /\ UNCHANGED <<lists, pagetable_root, inserted, empty_pages, owned, g_gcmemlock, there>>
  BY <1>1 DEF AddNode, NextWord, IsMissing, Goto, Walk, gcPageVars
<1>3. /\ mapped' = mapped \cup {n}
      /\ Range(free_pages') = Range(free_pages) \ {n}
      /\ n \notin mapped \/ n \in Range(free_pages)
      /\ \A u \in Thread : n \notin lists[u]
  BY PoolAllocates DEF AddNode
<1>4. PICK lev \in [Page -> 0..Levels] : LevelsInv(lev) /\ PathsInv(lev) /\ NamesInv(lev)
  BY DEF TableInv
<1>5. PICK path \in Path : Inserting(t, path, lev)
  BY <1>1, <1>2, <1>4, TableAssumption DEF PathsInv
<1>6. /\ lev[n] = 0
      /\ Levels \in Nat /\ k \in Nat /\ k + 1 \in 1..Levels /\ a[k] \in Index
  BY <1>2, <1>3, <1>4, TableAssumption DEF LevelsInv
<1>7. /\ lev[d] = k /\ path[k] = d /\ d # n
      /\ \A l \in 1..Levels : path[l] \in Page
      /\ \A l \in 1..Levels : l <= k => lev[path[l]] = l
  BY <1>1, <1>5, <1>6 DEF Inserting, Path
<1>8. /\ OthersRest(t) /\ pc'[t] = "zerofill" /\ addr'[t] = a
      /\ node'[t] = n /\ level'[t] = k + 1
  BY <1>2 DEF OthersRest, PageTableTypeOK
<1>9. \A m \in Page : ~Clearing(m)
  BY <1>2, OneInserts
<1>10. \A m \in Page : Clearing(m)' <=> m = n
  <2>1. \A u \in Thread : u # t => pc'[u] # "zerofill"
    BY <1>2, <1>8 DEF OthersRest, WalkInv
  <2> QED
    BY <1>8, <2>1 DEF Clearing
<1>11. PICK lev2 \in [Page -> 0..Levels] :
        \A m \in Page : lev2[m] = IF m = n THEN k + 1 ELSE lev[m]
  <2> DEFINE f == [m \in Page |-> IF m = n THEN k + 1 ELSE lev[m]]
  <2>1. f \in [Page -> 0..Levels]
    BY <1>6
  <2> QED
    BY <2>1
<1>12. \A m \in Page, i \in Index :
         words'[m][i] = IF m = d /\ i = a[k] THEN n ELSE words[m][i]
  BY <1>2, <1>6 DEF PageTableTypeOK
<1>13. Kept(lev, lev2)
  <2>1. \A m \in Page, i \in Index : words[m][i] # NULL => words'[m][i] = words[m][i]
    BY <1>2, <1>12
  <2> QED
    BY <1>2, <1>6, <1>10, <1>11, <2>1 DEF Kept
<1>14. LevelsInv(lev2)'
  <2>1. \A m \in Page : lev2[m] # 0 =>
          m \in mapped' /\ m \notin Range(free_pages') /\ \A u \in Thread : m \notin lists'[u]
    BY <1>2, <1>3, <1>4, <1>11 DEF LevelsInv
  <2>2. pagetable_root' # NULL => lev2[pagetable_root'] = 1
    BY <1>2, <1>4, <1>6, <1>11 DEF LevelsInv, PageTableTypeOK
  <2>3. ASSUME NEW m \in Page, NEW i \in Index, lev2[m] # 0, ~Clearing(m)'
        PROVE  IF lev2[m] = Levels THEN words'[m][i] \in {NULL, PAGE_PRESENT}
               ELSE words'[m][i] # NULL =>
                      words'[m][i] \in Page /\ lev2[words'[m][i]] = lev2[m] + 1
    <3>1. m # n /\ lev2[m] = lev[m] /\ lev[m] # 0 /\ ~Clearing(m)
      BY <1>9, <1>10, <1>11, <2>3
    <3>2. CASE m = d /\ i = a[k]
      <4>1. words'[m][i] = n /\ lev2[n] = k + 1 /\ lev2[m] = k /\ k # Levels
        BY <1>2, <1>6, <1>7, <1>11, <1>12, <3>1, <3>2
      <4> QED
        BY <4>1
    <3>3. CASE ~(m = d /\ i = a[k])
      <4>1. words'[m][i] = words[m][i]
        BY <1>12, <3>3
      <4>2. IF lev[m] = Levels THEN words[m][i] \in {NULL, PAGE_PRESENT}
            ELSE words[m][i] # NULL => words[m][i] \in Page /\ lev[words[m][i]] = lev[m] + 1
        BY <1>4, <3>1 DEF LevelsInv
      <4>3. \A q \in Page : lev[q] = lev[m] + 1 => q # n
        BY <1>6
      <4> QED
        BY <1>11, <3>1, <4>1, <4>2, <4>3
    <3> QED
      BY <3>2, <3>3
  <2> QED
    BY <2>1, <2>2, <2>3 DEF LevelsInv
<1>15. \E p \in Path : Inserting(t, p, lev2)'
  <2>1. PICK p \in Path : \A l \in 1..Levels : p[l] = IF l = k + 1 THEN n ELSE path[l]
    <3> DEFINE f == [l \in 1..Levels |-> IF l = k + 1 THEN n ELSE path[l]]
    <3>1. f \in Path
      BY DEF Path
    <3> QED
      BY <3>1
  <2>2. p[1] = pagetable_root'
    BY <1>2, <1>5, <1>6, <2>1 DEF Inserting
  <2>3. p[k + 1] = n
    BY <1>6, <2>1
  <2>4. ASSUME NEW l \in 1..Levels, l <= k + 1
        PROVE  lev2[p[l]] = l
    <3>1. CASE l = k + 1
      BY <1>6, <1>11, <2>3, <3>1
    <3>2. CASE l # k + 1
      <4>1. l <= k
        BY <1>6, <2>4, <3>2
      <4>2. lev[path[l]] = l /\ p[l] = path[l] /\ path[l] \in Page
        BY <1>7, <2>1, <3>2, <4>1
      <4> QED
        BY <1>6, <1>11, <4>2
    <3> QED
      BY <3>1, <3>2
  <2>5. ASSUME NEW l \in 1..Levels, l < k + 1
        PROVE  ~Clearing(p[l])' /\ words'[p[l]][a[l]] = p[l + 1]
    <3>1. p[l] = path[l] /\ path[l] \in Page /\ a[l] \in Index /\ lev[path[l]] = l
      <4>1. l <= k /\ l # k + 1
        BY <1>6, <2>5
      <4>2. a[l] \in Index
        BY TableAssumption
      <4> QED
        BY <1>7, <2>1, <4>1, <4>2
    <3>2. ~Clearing(p[l])'
      BY <1>6, <1>10, <3>1
    <3>3. CASE l = k
      BY <1>7, <1>12, <2>3, <3>1, <3>2, <3>3
    <3>4. CASE l # k
      <4>1. l < k /\ l + 1 \in 1..Levels /\ l + 1 # k + 1
        BY <1>6, <2>5, <3>4
      <4>2. words[path[l]][a[l]] = path[l + 1] /\ p[l + 1] = path[l + 1]
        BY <1>1, <1>5, <2>1, <4>1 DEF Inserting
      <4>3. path[l] # d
        BY <1>7, <3>1, <3>4
      <4> QED
        BY <1>12, <3>1, <3>2, <4>2, <4>3
    <3> QED
      BY <3>3, <3>4
  <2>6. Inserting(t, p, lev2)'
    BY <1>8, <2>1, <2>2, <2>3, <2>4, <2>5 DEF Inserting
  <2> QED
    BY <2>1, <2>6
<1>16. PICK name \in [Page -> [1..Levels -> Index]] : Named(lev, name)
  BY <1>4 DEF NamesInv
<1>17. SamePrefix(k, name[d], a) /\ name[d] \in Addr
  <2>1. AtName(t, lev, name)
    BY <1>16 DEF Named
  <2>2. d # NULL
    BY TableAssumption
  <2>3. SamePrefix(k, name[d], a)
    BY <1>1, <1>2, <2>1, <2>2 DEF AtName
  <2>4. lev[d] # 0
    BY <1>6, <1>7
  <2>5. name[d] \in Addr
    BY <1>16, <2>4 DEF Named
  <2> QED
    BY <2>3, <2>5
<1>18. PICK name2 \in [Page -> [1..Levels -> Index]] :
         \A m \in Page : name2[m] = IF m = n THEN a ELSE name[m]
  <2> DEFINE f == [m \in Page |-> IF m = n THEN a ELSE name[m]]
  <2>1. f \in [Page -> [1..Levels -> Index]]
    BY TableAssumption
  <2> QED
    BY <2>1
<1>19. ASSUME NEW m \in Page, NEW i \in Index
       PROVE  ChildNamed(m, i, lev2, name2)'
  <2> SUFFICES ASSUME lev2[m] # 0, ~Clearing(m)', words'[m][i] # NULL
               PROVE  IF lev2[m] = Levels
                      THEN \E b \in inserted : SamePrefix(Levels, b, name2[m]) /\ b[Levels] = i
                      ELSE /\ SamePrefix(lev2[m], name2[m], name2[words'[m][i]])
                           /\ name2[words'[m][i]][lev2[m]] = i
    BY <1>2 DEF ChildNamed
  <2>1. m # n /\ lev2[m] = lev[m] /\ lev[m] # 0 /\ ~Clearing(m) /\ name2[m] = name[m]
    BY <1>9, <1>10, <1>11, <1>18
  <2>2. CASE m = d /\ i = a[k]
    <3>1. words'[m][i] = n /\ name2[n] = a /\ lev2[m] = k /\ k # Levels
      BY <1>2, <1>6, <1>7, <1>12, <1>18, <2>1, <2>2
    <3> QED
      BY <1>17, <2>1, <2>2, <3>1
  <2>3. CASE ~(m = d /\ i = a[k])
    <3>1. words'[m][i] = words[m][i]
      BY <1>12, <2>3
    <3>2. ChildNamed(m, i, lev, name)
      BY <1>16 DEF Named
    <3>3. lev[m] # Levels => words[m][i] \in Page /\ words[m][i] # n
      <4>1. lev[m] # Levels => words[m][i] \in Page /\ lev[words[m][i]] = lev[m] + 1
        BY <1>4, <2>1, <3>1 DEF LevelsInv
      <4> QED
        BY <1>6, <4>1
    <3> QED
      BY <1>18, <2>1, <3>1, <3>2, <3>3 DEF ChildNamed
  <2> QED
    BY <2>2, <2>3
<1>20. ASSUME NEW m \in Page, lev2[m] \notin {0, 1}
       PROVE  \E q \in Page : ParentOf(q, m, lev2, name2)'
  <2>1. CASE m = n
    <3>1. lev2[d] = k /\ lev2[n] = k + 1 /\ name2[n] = a /\ name2[d] = name[d] /\ k # 0
      BY <1>6, <1>7, <1>11, <1>18
    <3>2. ~Clearing(d)' /\ words'[d][a[k]] = n
      BY <1>6, <1>7, <1>10, <1>12
    <3>3. ParentOf(d, n, lev2, name2)'
      BY <1>17, <3>1, <3>2 DEF ParentOf
    <3> QED
      BY <2>1, <3>3
  <2>2. CASE m # n
    <3>1. lev2[m] = lev[m] /\ name2[m] = name[m]
      BY <1>11, <1>18, <2>2
    <3>2. PICK q \in Page : ParentOf(q, m, lev, name)
      BY <1>16, <1>20, <3>1 DEF Named
    <3>3. q # n /\ lev2[q] = lev[q] /\ name2[q] = name[q]
      BY <1>6, <1>11, <1>18, <3>2 DEF ParentOf
    <3>4. name[m][lev[q]] \in Index
      BY <3>2, TableAssumption DEF ParentOf
    <3>5. words'[q][name[m][lev[q]]] = m
      BY <1>2, <1>12, <3>2, <3>4, TableAssumption DEF ParentOf
    <3>6. ParentOf(q, m, lev2, name2)'
      BY <1>10, <3>1, <3>2, <3>3, <3>5 DEF ParentOf
    <3> QED
      BY <3>6
  <2> QED
    BY <2>1, <2>2
(* The word for a is null, so no other node is there for it. *)
<1>21. ASSUME NEW m \in Page, m # n, lev[m] = k + 1, SamePrefix(k + 1, name[m], a)
       PROVE  FALSE
  <2>1. PICK q \in Page : ParentOf(q, m, lev, name)
    <3>1. lev[m] \notin {0, 1}
      BY <1>6, <1>21
    <3> QED
      BY <1>16, <3>1 DEF Named
  <2>2. lev[q] = k /\ SamePrefix(k, name[q], name[m]) /\ words[q][name[m][k]] = m
    BY <1>6, <1>21, <2>1 DEF ParentOf
  <2>3. SamePrefix(k, name[q], name[d]) /\ name[m][k] = a[k]
    BY <1>6, <1>17, <1>21, <2>2 DEF SamePrefix
  <2>4. q = d
    BY <1>6, <1>7, <1>16, <2>2, <2>3 DEF Named
  <2> QED
    BY <1>2, <2>2, <2>3, <2>4, TableAssumption
<1>22. ASSUME NEW p \in Page, NEW q \in Page, lev2[p] # 0, lev2[p] = lev2[q],
              SamePrefix(lev2[p], name2[p], name2[q])
       PROVE  p = q
  <2>1. \A x, y, z : SamePrefix(x, y, z) => SamePrefix(x, z, y)
    BY DEF SamePrefix
  <2>2. CASE p = n
    <3>1. q # n => lev[q] = k + 1 /\ SamePrefix(k + 1, name[q], a)
      BY <1>11, <1>18, <1>22, <2>1, <2>2
    <3> QED
      BY <1>21, <2>2, <3>1
  <2>3. CASE q = n
    <3>1. p # n => lev[p] = k + 1 /\ SamePrefix(k + 1, name[p], a)
      BY <1>11, <1>18, <1>22, <2>3
    <3> QED
      BY <1>21, <2>3, <3>1
  <2>4. CASE p # n /\ q # n
    <3>1. /\ lev2[p] = lev[p] /\ lev2[q] = lev[q]
          /\ name2[p] = name[p] /\ name2[q] = name[q]
      BY <1>11, <1>18, <2>4
    <3> QED
      BY <1>16, <1>22, <3>1 DEF Named
  <2> QED
    BY <2>2, <2>3, <2>4
<1>23. \A u \in Thread : AtName(u, lev2, name2)'
  <2>1. AtName(t, lev2, name2)'
    <3>1. lev2[n] = k + 1 /\ name2[n] = a
      BY <1>11, <1>18
    <3> QED
      BY <1>8, <3>1 DEF AtName, SamePrefix
  <2>2. \A u \in Thread : u # t => pc'[u] \notin {"insert", "zerofill"}
    BY <1>2, <1>8 DEF OthersRest, WalkInv
  <2> QED
    BY <2>1, <2>2 DEF AtName
<1>24. Named(lev2, name2)'
  <2>1. \A m \in Page : lev2[m] # 0 => name2[m] \in Addr
    BY <1>11, <1>16, <1>18 DEF Named
  <2>2. \A p, q \in Page : lev2[p] # 0 /\ lev2[p] = lev2[q]
                            /\ SamePrefix(lev2[p], name2[p], name2[q]) => p = q
    BY <1>22
  <2> QED
    BY <1>19, <1>20, <1>23, <2>1, <2>2 DEF Named
<1>25. NamesInv(lev2)'
  <2>1. \A m \in Page : lev2[m] = 1 => m = pagetable_root
    BY <1>4, <1>6, <1>11 DEF NamesInv
  <2>2. pagetable_root # NULL
    BY <1>4, <1>6, <1>7 DEF NamesInv
  <2>3. ASSUME NEW m \in mapped'
        PROVE  m \in Range(free_pages') \/ (\E u \in Thread : m \in lists'[u]) \/ lev2[m] # 0
    <3>1. CASE m = n
      BY <1>6, <1>11, <3>1
    <3>2. CASE m # n
      <4>1. m \in mapped /\ m \in Page
        BY <1>3, <3>2 DEF PageTableTypeOK
      <4>2. m \in Range(free_pages) \/ (\E u \in Thread : m \in lists[u]) \/ lev[m] # 0
        BY <1>4, <4>1 DEF NamesInv
      <4> QED
        BY <1>2, <1>3, <1>11, <3>2, <4>1, <4>2
    <3> QED
      BY <3>1, <3>2
  <2> QED
    BY <1>2, <1>24, <2>1, <2>2, <2>3 DEF NamesInv
<1> QED
  BY <1>2, <1>4, <1>8, <1>13, <1>14, <1>15, <1>25, TableKept

(* Only words of pages that are no nodes, or of the node to clear, change. *)
LEMMA ZeroFillTable ==
  ASSUME IInv, NEW t \in Thread, ZeroFill(t)
  PROVE  TableInv'
<1> USE DEF IInv
<1>1. PICK k \in 1..Levels, d \in Page :
        k = level[t] /\ d = node[t] /\ addr[t] \in Addr
  BY DEF ZeroFill, PageTableTypeOK, WalkInv
<1>2. /\ pc[t] = "zerofill"
      /\ pc' = [pc EXCEPT ![t] = "insert"]
      /\ words' = [words EXCEPT ![d] = Cleared]
      /\ UNCHANGED <<mapped, free_pages, lists, pagetable_root, inserted, empty_pages,
                     owned, g_gcmemlock, addr, node, level, there>>
  BY <1>1 DEF ZeroFill, ZeroFilled, Goto, poolVars, gcPageVars, walkVars
<1>3. PICK lev \in [Page -> 0..Levels] : LevelsInv(lev) /\ PathsInv(lev) /\ NamesInv(lev)
  BY DEF TableInv
<1>4. PICK path \in Path : Inserting(t, path, lev)
  BY <1>1, <1>2, <1>3, TableAssumption DEF PathsInv
<1>5. OthersRest(t) /\ pc'[t] = "insert"
  BY <1>2 DEF OthersRest, PageTableTypeOK
<1>6. \A u \in Thread : u # t => pc[u] # "zerofill"
  BY <1>2 DEF WalkInv
<1>7. \A m \in Page : (Clearing(m) <=> m = d) /\ ~Clearing(m)'
  BY <1>1, <1>2, <1>5, <1>6 DEF Clearing, OthersRest
<1>8. \A m \in Page, i \in Index : words'[m][i] = IF m = d THEN NULL ELSE words[m][i]
  BY <1>2 DEF PageTableTypeOK, Cleared
<1>9. Kept(lev, lev)
  BY <1>2, <1>7, <1>8 DEF Kept
<1>10. LevelsInv(lev)'
  BY <1>2, <1>3, <1>7, <1>8 DEF LevelsInv
<1>11. Inserting(t, path, lev)'
  BY <1>1, <1>2, <1>4, <1>9, InsertingKept
<1>12. PICK name \in [Page -> [1..Levels -> Index]] : Named(lev, name)
  BY <1>3 DEF NamesInv
<1>13. Named(lev, name)'
  <2>1. ASSUME NEW m \in Page, NEW i \in Index
        PROVE  ChildNamed(m, i, lev, name)'
    <3>1. ChildNamed(m, i, lev, name)
      BY <1>12 DEF Named
    <3> QED
      BY <1>2, <1>7, <1>8, <3>1 DEF ChildNamed
  <2>2. ASSUME NEW n \in Page, lev[n] \notin {0, 1}
        PROVE  \E m \in Page : ParentOf(m, n, lev, name)'
    <3>1. PICK m \in Page : ParentOf(m, n, lev, name)
      BY <1>12, <2>2 DEF Named
    <3>2. name[n][lev[m]] \in Index
      BY <3>1, TableAssumption DEF ParentOf
    <3>3. ParentOf(m, n, lev, name)'
      BY <1>7, <1>8, <3>1, <3>2 DEF ParentOf
    <3> QED
      BY <3>3
  <2>3. \A u \in Thread : AtName(u, lev, name)'
    BY <1>2, <1>5, <1>12 DEF Named, AtName, OthersRest
  <2> QED
    BY <1>12, <2>1, <2>2, <2>3 DEF Named
<1>14. NamesInv(lev)'
  BY <1>2, <1>3, <1>13 DEF NamesInv
<1> QED
  BY <1>2, <1>3, <1>4, <1>5, <1>9, <1>10, <1>11, <1>14, TableKept

LEMMA SetPresentTable ==
  ASSUME IInv, NEW t \in Thread, SetPresent(t)
  PROVE  TableInv'
<1> USE DEF IInv
<1>1. PICK d \in Page, a \in Addr : d = node[t] /\ a = addr[t]
  BY DEF SetPresent, PageTableTypeOK, WalkInv
<1>2. /\ pc[t] = "insert" /\ level[t] = Levels
      /\ words' = [words EXCEPT ![d][a[Levels]] = PAGE_PRESENT]
      /\ inserted' = inserted \cup {a}
      /\ pc' = [pc EXCEPT ![t] = "idle"]
      /\ addr' = [addr EXCEPT ![t] = NULL]
      /\ node' = [node EXCEPT ![t] = NULL]
      /\ level' = [level EXCEPT ![t] = 1]
      /\ UNCHANGED <<mapped, free_pages, lists, pagetable_root, empty_pages, there>>
  BY <1>1 DEF SetPresent, Idle, Goto, Walk, poolVars
<1>3. PICK lev \in [Page -> 0..Levels] : LevelsInv(lev) /\ PathsInv(lev) /\ NamesInv(lev)
  BY DEF TableInv
<1>4. PICK path \in Path : Inserting(t, path, lev)
  BY <1>1, <1>2, <1>3, TableAssumption DEF PathsInv
<1>5. Levels \in Nat \ {0} /\ Levels \in 1..Levels /\ \A l \in 1..Levels : a[l] \in Index
  BY TableAssumption
<1>6. /\ path[Levels] = d /\ path[1] = pagetable_root
      /\ \A l \in 1..Levels : path[l] \in Page /\ lev[path[l]] = l
      /\ \A l \in 1..Levels : l # Levels => words[path[l]][a[l]] = path[l + 1]
  BY <1>1, <1>2, <1>4, <1>5 DEF Inserting, Path
<1>7. OthersRest(t) /\ pc'[t] = "idle"
  BY <1>2 DEF OthersRest, PageTableTypeOK
<1>8. \A m \in Page : ~Clearing(m) /\ ~Clearing(m)'
  BY <1>2, <1>7, OneInserts DEF Clearing, OthersRest
<1>9. \A m \in Page, i \in Index :
        words'[m][i] = IF m = d /\ i = a[Levels] THEN PAGE_PRESENT ELSE words[m][i]
  BY <1>2, <1>5 DEF PageTableTypeOK
<1>10. lev[d] = Levels /\ words[d][a[Levels]] \in {NULL, PAGE_PRESENT}
  BY <1>3, <1>5, <1>6, <1>8 DEF LevelsInv
<1>11. Kept(lev, lev)
  BY <1>2, <1>8, <1>9, <1>10 DEF Kept
<1>12. LevelsInv(lev)'
  BY <1>2, <1>3, <1>8, <1>9, <1>10 DEF LevelsInv
<1>13. Complete(a, path, lev)'
  <2>1. ASSUME NEW l \in 1..Levels, l # Levels
        PROVE  words'[path[l]][a[l]] = path[l + 1]
    BY <1>5, <1>6, <1>9, <1>10, <2>1
  <2> QED
    BY <1>2, <1>5, <1>6, <1>8, <1>9, <2>1 DEF Complete
<1>14. PICK name \in [Page -> [1..Levels -> Index]] : Named(lev, name)
  BY <1>3 DEF NamesInv
<1>15. Named(lev, name)'
  <2>1. SamePrefix(Levels, a, name[d])
    BY <1>1, <1>2, <1>14, TableAssumption DEF Named, AtName, SamePrefix
  <2>2. ASSUME NEW m \in Page, NEW i \in Index
        PROVE  ChildNamed(m, i, lev, name)'
    <3>1. ChildNamed(m, i, lev, name)
      BY <1>14 DEF Named
    <3>2. CASE m = d /\ i = a[Levels]
      <4>1. a \in inserted' /\ SamePrefix(Levels, a, name[m]) /\ a[Levels] = i
        BY <1>2, <2>1, <3>2
      <4> QED
        BY <1>10, <3>2, <4>1 DEF ChildNamed
    <3>3. CASE ~(m = d /\ i = a[Levels])
      <4>1. words'[m][i] = words[m][i] /\ inserted \subseteq inserted'
        BY <1>2, <1>9, <3>3
      <4> QED
        BY <1>8, <3>1, <4>1 DEF ChildNamed
    <3> QED
      BY <3>2, <3>3
  <2>3. ASSUME NEW n \in Page, lev[n] \notin {0, 1}
        PROVE  \E m \in Page : ParentOf(m, n, lev, name)'
    <3>1. PICK m \in Page : ParentOf(m, n, lev, name)
      BY <1>14, <2>3 DEF Named
    <3>2. name[n][lev[m]] \in Index /\ m # d
      BY <1>5, <1>10, <3>1 DEF ParentOf
    <3>3. ParentOf(m, n, lev, name)'
      BY <1>8, <1>9, <3>1, <3>2 DEF ParentOf
    <3> QED
      BY <3>3
  <2>4. \A u \in Thread : AtName(u, lev, name)'
    BY <1>7, <1>14 DEF Named, AtName, OthersRest
  <2> QED
    BY <1>14, <2>2, <2>3, <2>4 DEF Named
<1>16. NamesInv(lev)'
  BY <1>2, <1>3, <1>15 DEF NamesInv
<1> QED
  BY <1>2, <1>3, <1>7, <1>11, <1>12, <1>13, <1>16, TableKept

LEMMA ListPageTable ==
  ASSUME IInv, NEW t \in Thread, NEW n \in Page,
         TakeListPage(t, n) \/ FreeListPage(t, n)
  PROVE  TableInv'
<1> USE DEF IInv
<1>1. PICK lev \in [Page -> 0..Levels] : LevelsInv(lev) /\ PathsInv(lev) /\ NamesInv(lev)
  BY DEF TableInv
<1>2. /\ UNCHANGED <<pagetable_root, inserted, pc, addr, node, level, there>>
      /\ pc[t] = "idle"
  BY DEF TakeListPage, FreeListPage, walkVars
<1>3. /\ lev[n] = 0
      /\ \A m \in Page : m # n => words'[m] = words[m]
      /\ \A m \in Page : m # n /\ m \in mapped /\ m \notin Range(free_pages)
                           /\ (\A u \in Thread : m \notin lists[u]) =>
           m \in mapped' /\ m \notin Range(free_pages') /\ \A u \in Thread : m \notin lists'[u]
      /\ \A m \in mapped' :
           m \in Range(free_pages') \/ (\E u \in Thread : m \in lists'[u]) \/ lev[m] # 0
  <2>1. CASE TakeListPage(t, n)
    <3>1. /\ mapped' = mapped \cup {n}
          /\ Range(free_pages') = Range(free_pages) \ {n}
          /\ n \notin mapped \/ n \in Range(free_pages)
      BY <2>1, PoolAllocates DEF TakeListPage
    <3>2. lev[n] = 0
      BY <1>1, <3>1 DEF LevelsInv
    <3>3. /\ words' = [words EXCEPT ![n] = Cleared]
          /\ lists' = [lists EXCEPT ![t] = {n}] /\ lists[t] = {}
      BY <2>1 DEF TakeListPage
    <3>4. \A m \in mapped' :
            m \in Range(free_pages') \/ (\E u \in Thread : m \in lists'[u]) \/ lev[m] # 0
      <4>1. n \in lists'[t] /\ \A u \in Thread : u # t => lists'[u] = lists[u]
        BY <3>3 DEF PageTableTypeOK
      <4>2. \A m \in mapped' : m # n => m \in mapped
        BY <3>1
      <4> QED
        BY <1>1, <3>1, <3>3, <4>1, <4>2 DEF NamesInv
    <3> QED
      BY <3>1, <3>2, <3>3, <3>4 DEF PageTableTypeOK
  <2>2. CASE FreeListPage(t, n)
    <3>1. mapped' = mapped /\ Range(free_pages') = Range(free_pages) \cup {n}
      BY <2>2, PoolFrees DEF FreeListPage
    <3>2. lev[n] = 0
      BY <1>1, <2>2 DEF LevelsInv, FreeListPage
    <3>3. /\ \A m \in Page : m # n => words'[m] = words[m]
          /\ lists' = [lists EXCEPT ![t] = {}]
      BY <2>2 DEF FreeListPage, PageTableTypeOK
    <3>4. \A m \in mapped' :
            m \in Range(free_pages') \/ (\E u \in Thread : m \in lists'[u]) \/ lev[m] # 0
      <4>1. n \in lists[t] /\ \A m \in lists[t] : m = n
        BY <2>2 DEF FreeListPage, PoolInv
      <4>2. \A u \in Thread : u # t => lists'[u] = lists[u]
        BY <3>3 DEF PageTableTypeOK
      <4> QED
        BY <1>1, <3>1, <4>1, <4>2 DEF NamesInv
    <3> QED
      BY <3>1, <3>2, <3>3, <3>4 DEF PageTableTypeOK
  <2> QED
    BY <2>1, <2>2
<1>4. \A m \in Page : Clearing(m)' <=> Clearing(m)
  BY <1>2 DEF Clearing
<1>5. Kept(lev, lev)
  BY <1>2, <1>3, <1>4 DEF Kept
<1>6. LevelsInv(lev)'
  <2>1. \A m \in Page : lev[m] # 0 =>
          m \in mapped' /\ m \notin Range(free_pages') /\ \A u \in Thread : m \notin lists'[u]
    BY <1>1, <1>3 DEF LevelsInv
  <2>2. \A m \in Page : lev[m] # 0 => words'[m] = words[m]
    BY <1>3
  <2> QED
    BY <1>1, <1>2, <1>4, <2>1, <2>2 DEF LevelsInv
<1>7. OthersRest(t)
  BY <1>2 DEF OthersRest
<1>8. NamesInv(lev)'
  <2>1. \A name \in [Page -> [1..Levels -> Index]] : AtName(t, lev, name)'
    BY <1>2 DEF AtName
  <2> QED
    BY <1>1, <1>2, <1>3, <1>4, <1>7, <2>1, NamesKept
<1> QED
  BY <1>1, <1>2, <1>5, <1>6, <1>7, <1>8, TableKept

-----------------------------------------------------------------------------
(***************************************************************************)
(* Queries.                                                                *)
(***************************************************************************)
LEMMA BeginQueryStep ==
  ASSUME IInv, NEW t \in Thread, NEW a \in Addr, BeginQuery(t, a)
  PROVE  IInv'
<1> USE DEF IInv
<1>1. /\ pc[t] = "idle"
      /\ there' = [there EXCEPT ![t] = a \in inserted]
      /\ pc' = [pc EXCEPT ![t] = IF pagetable_root = NULL THEN "no" ELSE "query"]
      /\ addr' = [addr EXCEPT ![t] = a]
      /\ node' = [node EXCEPT ![t] = pagetable_root]
      /\ level' = [level EXCEPT ![t] = 1]
      /\ UNCHANGED <<mapped, free_pages, lists, words, pagetable_root, inserted,
                     empty_pages, owned, g_gcmemlock>>
  BY DEF BeginQuery, Goto, Walk, poolVars, tableVars, gcPageVars
<1>2. PICK lev \in [Page -> 0..Levels] : LevelsInv(lev) /\ PathsInv(lev) /\ NamesInv(lev)
  BY DEF TableInv
<1>3. \A b \in inserted : \E path \in Path :
        Complete(b, path, lev) /\ path[1] = pagetable_root /\ pagetable_root \in Page
  BY <1>2, TableAssumption DEF PathsInv, Complete, Path
<1>4. a \in inserted => pagetable_root # NULL
  BY <1>3, TableAssumption
<1>5. there'[t] <=> a \in inserted
  <2>1. there \in [Thread -> BOOLEAN]
    BY DEF PageTableTypeOK
  <2>2. there'[t] = (a \in inserted)
    BY <1>1, <2>1, Zenon
  <2> QED
    BY <2>2
<1>6. PageTableTypeOK'
  <2>1. there' \in [Thread -> BOOLEAN]
    BY <1>1 DEF PageTableTypeOK
  <2>2. pc' \in [Thread -> Steps]
    BY <1>1 DEF PageTableTypeOK, Steps
  <2>3. level' \in [Thread -> 1..Levels]
    BY <1>1, TableAssumption DEF PageTableTypeOK
  <2> QED
    BY <1>1, <2>1, <2>2, <2>3 DEF PageTableTypeOK
<1>7. PoolInv' /\ GCPagesInOnePlace'
  BY <1>1 DEF PoolInv, GCPagesInOnePlace
<1>8. /\ OthersRest(t) /\ addr'[t] = a /\ node'[t] = pagetable_root /\ level'[t] = 1
      /\ pc'[t] = IF pagetable_root = NULL THEN "no" ELSE "query"
  BY <1>1 DEF OthersRest, PageTableTypeOK
<1>9. WalkInv'
  <2>1. ASSUME NEW u \in Thread
        PROVE  /\ pc'[u] \in {"allocate", "insert", "zerofill"} => g_gcmemlock' = u
               /\ pc'[u] \in {"insert", "zerofill"} => addr'[u] \in Addr \ inserted'
               /\ pc'[u] = "insert" /\ node'[u] = NULL => pagetable_root' = NULL
               /\ pc'[u] = "zerofill" => node'[u] # NULL
               /\ pc'[u] = "query" => node'[u] # NULL /\ addr'[u] \in Addr
               /\ pc'[u] = "no" => ~there'[u]
               /\ there'[u] /\ pc'[u] = "query" => addr'[u] \in inserted'
    <3>1. CASE u = t
      <4>1. pc'[t] = "no" => ~there'[t]
        BY <1>4, <1>5, <1>8
      <4>2. there'[t] /\ pc'[t] = "query" => addr'[t] \in inserted'
        BY <1>1, <1>5, <1>8
      <4>3. pc'[t] \notin {"allocate", "insert", "zerofill"}
        BY <1>8
      <4>4. pc'[t] = "query" => node'[t] # NULL /\ addr'[t] \in Addr
        BY <1>8
      <4> QED
        BY <3>1, <4>1, <4>2, <4>3, <4>4
    <3>2. CASE u # t
      BY <1>1, <1>8, <3>2 DEF OthersRest, WalkInv
    <3> QED
      BY <3>1, <3>2
  <2> QED
    BY <2>1 DEF WalkInv
<1>10. Kept(lev, lev) /\ LevelsInv(lev)'
  BY <1>1, <1>2, <1>8, QuietKept
<1>11. ASSUME pc'[t] = "query", there'[t]
       PROVE  \E path \in Path : Querying(t, path, lev)'
  <2>1. a \in inserted
    BY <1>5, <1>11
  <2>2. PICK path \in Path : Complete(a, path, lev) /\ path[1] = pagetable_root
    BY <1>3, <2>1
  <2>3. Complete(a, path, lev)'
    BY <1>10, <2>2, CompleteKept
  <2>4. Complete(addr[t], path, lev)'
    BY <1>8, <2>3 DEF Complete
  <2> QED
    BY <1>1, <1>8, <2>2, <2>4 DEF Querying
<1>12. NamesInv(lev)'
  <2>1. \A name \in [Page -> [1..Levels -> Index]] : AtName(t, lev, name)'
    BY <1>8 DEF AtName
  <2> QED
    BY <1>1, <1>2, <1>8, <2>1, QuietNames
<1>13. TableInv'
  BY <1>1, <1>2, <1>8, <1>10, <1>11, <1>12, TableKept
<1> QED
  BY <1>6, <1>7, <1>9, <1>13

LEMMA QueryStep ==
  ASSUME IInv, NEW t \in Thread, Query(t)
  PROVE  IInv'
<1> USE DEF IInv
<1>1. PICK k \in 1..Levels, d \in Page, a \in Addr :
        k = level[t] /\ d = node[t] /\ a = addr[t]
  BY DEF Query, PageTableTypeOK, WalkInv
<1>2. /\ pc[t] = "query"
      /\ UNCHANGED <<mapped, free_pages, lists, words, pagetable_root, inserted,
                     empty_pages, owned, g_gcmemlock, there>>
  BY DEF Query, poolVars, tableVars, gcPageVars
<1>3. PICK lev \in [Page -> 0..Levels] : LevelsInv(lev) /\ PathsInv(lev) /\ NamesInv(lev)
  BY DEF TableInv
<1>4. Levels \in Nat \ {0} /\ Levels \in 1..Levels /\ \A l \in 1..Levels : a[l] \in Index
  BY TableAssumption
<1>5. PoolInv' /\ GCPagesInOnePlace'
  BY <1>2 DEF PoolInv, GCPagesInOnePlace
(* On the way to an inserted page the words are those of its path.         *)
<1>6. ASSUME there[t]
      PROVE  \E path \in Path :
               /\ Complete(a, path, lev) /\ path[k] = d
               /\ k < Levels => words[d][a[k]] = path[k + 1] /\ path[k + 1] \in Page
               /\ k = Levels => words[d][a[k]] = PAGE_PRESENT
  <2>1. PICK path \in Path : Querying(t, path, lev)
    BY <1>2, <1>3, <1>6 DEF PathsInv
  <2>2. Complete(a, path, lev) /\ path[k] = d
    BY <1>1, <2>1 DEF Querying
  <2>3. k < Levels => words[d][a[k]] = path[k + 1] /\ path[k + 1] \in Page
    BY <1>4, <2>2 DEF Complete, Path
  <2>4. k = Levels => words[d][a[k]] = PAGE_PRESENT
    BY <2>2 DEF Complete
  <2> QED
    BY <2>2, <2>3, <2>4
<1>7. CASE /\ k < Levels /\ words[d][a[k]] \in Page
           /\ Walk(t, addr[t], NextWord(t), level[t] + 1)
           /\ UNCHANGED pc
  <2>1. PICK m \in Page : m = words[d][a[k]]
    BY <1>7
  <2>2. /\ k < Levels
        /\ addr' = [addr EXCEPT ![t] = a]
        /\ node' = [node EXCEPT ![t] = m]
        /\ level' = [level EXCEPT ![t] = k + 1]
        /\ pc' = pc
    BY <1>1, <1>7, <2>1 DEF Walk, NextWord
  <2>3. k + 1 \in 1..Levels
    BY <1>4, <2>2
  <2>4. PageTableTypeOK'
    BY <1>2, <2>2, <2>3 DEF PageTableTypeOK
  <2>5. /\ OthersRest(t) /\ addr'[t] = a /\ node'[t] = m /\ level'[t] = k + 1
        /\ pc'[t] = "query"
    BY <1>2, <2>2 DEF OthersRest, PageTableTypeOK
  <2>6. WalkInv'
    BY <1>1, <1>2, <2>1, <2>2, TableAssumption DEF WalkInv, PageTableTypeOK
  <2>7. Kept(lev, lev) /\ LevelsInv(lev)'
    BY <1>2, <1>3, <2>5, QuietKept
  <2>8. ASSUME there'[t]
        PROVE  \E path \in Path : Querying(t, path, lev)'
    <3>1. PICK path \in Path : Complete(a, path, lev) /\ m = path[k + 1]
      BY <1>2, <1>6, <2>1, <2>2, <2>8
    <3>2. Complete(a, path, lev)'
      BY <2>7, <3>1, CompleteKept
    <3>3. Complete(addr[t], path, lev)'
      BY <2>5, <3>2 DEF Complete
    <3> QED
      BY <2>5, <3>1, <3>3 DEF Querying
  <2>9. NamesInv(lev)'
    <3>1. \A name \in [Page -> [1..Levels -> Index]] : AtName(t, lev, name)'
      BY <2>5 DEF AtName
    <3> QED
      BY <1>2, <1>3, <2>5, <3>1, QuietNames
  <2>10. TableInv'
    BY <1>2, <1>3, <2>5, <2>7, <2>8, <2>9, TableKept
  <2> QED
    BY <1>5, <2>4, <2>6, <2>10
<1>8. CASE /\ k < Levels => words[d][a[k]] = NULL
           /\ Goto(t, IF k = Levels /\ words[d][a[k]] = PAGE_PRESENT THEN "yes" ELSE "no")
           /\ UNCHANGED <<addr, node, level>>
  <2>1. PICK answer \in {"yes", "no"} :
          /\ answer = IF k = Levels /\ words[d][a[k]] = PAGE_PRESENT THEN "yes" ELSE "no"
          /\ pc' = [pc EXCEPT ![t] = answer]
    BY <1>8 DEF Goto
  <2>2. answer = "no" => ~there[t]
    BY <1>4, <1>6, <1>8, <2>1, TableAssumption
  <2>3. PageTableTypeOK'
    BY <1>2, <1>8, <2>1 DEF PageTableTypeOK, Steps
  <2>4. OthersRest(t) /\ pc'[t] = answer
    BY <1>2, <1>8, <2>1 DEF OthersRest, PageTableTypeOK
  <2>5. WalkInv'
    <3>1. \A u \in Thread : u # t => pc'[u] = pc[u]
      BY <2>4 DEF OthersRest
    <3> QED
      BY <1>2, <1>8, <2>2, <2>4, <3>1 DEF WalkInv
  <2>6. Kept(lev, lev) /\ LevelsInv(lev)'
    BY <1>2, <1>3, <2>4, QuietKept
  <2>7. NamesInv(lev)'
    <3>1. \A name \in [Page -> [1..Levels -> Index]] : AtName(t, lev, name)'
      BY <2>4 DEF AtName
    <3> QED
      BY <1>2, <1>3, <2>4, <3>1, QuietNames
  <2>8. TableInv'
    BY <1>2, <1>3, <2>4, <2>6, <2>7, TableKept
  <2> QED
    BY <1>5, <2>3, <2>5, <2>8
<1> QED
  <2>1. CASE /\ level[t] < Levels /\ NextWord(t) \in Page
             /\ Walk(t, addr[t], NextWord(t), level[t] + 1) /\ UNCHANGED pc
    BY <1>1, <1>7, <2>1 DEF NextWord
  <2>2. CASE /\ level[t] < Levels /\ NextWord(t) = NULL
             /\ Goto(t, "no") /\ UNCHANGED <<addr, node, level>>
    BY <1>1, <1>4, <1>8, <2>2 DEF NextWord
  <2>3. CASE /\ level[t] = Levels
             /\ Goto(t, IF NextWord(t) = PAGE_PRESENT THEN "yes" ELSE "no")
             /\ UNCHANGED <<addr, node, level>>
    BY <1>1, <1>4, <1>8, <2>3 DEF NextWord
  <2> QED
    BY <2>1, <2>2, <2>3 DEF Query

-----------------------------------------------------------------------------
(***************************************************************************)
(* The inductive invariant.                                                *)
(***************************************************************************)
LEMMA IInvInit == Init => IInv
<1> SUFFICES ASSUME Init
             PROVE  IInv
  OBVIOUS
<1>1. /\ mapped = {} /\ free_pages = <<>>
      /\ words = [n \in Page |-> Cleared]
      /\ pagetable_root = NULL /\ inserted = {} /\ empty_pages = {}
      /\ owned = [t \in Thread |-> {}]
      /\ lists = [t \in Thread |-> {}]
      /\ g_gcmemlock = NULL
      /\ pc = [t \in Thread |-> "idle"]
      /\ addr = [t \in Thread |-> NULL]
      /\ node = [t \in Thread |-> NULL]
      /\ level = [t \in Thread |-> 1]
      /\ there = [t \in Thread |-> FALSE]
  BY DEF Init, PagesInit
<1>2. PageTableTypeOK
  <2>1. Cleared \in [Index -> Page \cup {NULL, PAGE_PRESENT}]
    BY DEF Cleared
  <2>2. level \in [Thread -> 1..Levels]
    BY <1>1, TableAssumption
  <2> QED
    BY <1>1, <2>1, <2>2 DEF PageTableTypeOK, Steps
<1>3. PoolInv
  BY <1>1 DEF PoolInv, Distinct, Range
<1>4. WalkInv /\ GCPagesInOnePlace
  BY <1>1 DEF WalkInv, GCPagesInOnePlace
<1>5. TableInv
  <2>1. PICK lev \in [Page -> 0..Levels] : \A n \in Page : lev[n] = 0
    <3> DEFINE f == [n \in Page |-> 0]
    <3>1. f \in [Page -> 0..Levels]
      BY TableAssumption
    <3> QED
      BY <3>1
  <2>2. LevelsInv(lev) /\ PathsInv(lev)
    BY <1>1, <2>1 DEF LevelsInv, PathsInv
  <2>3. PICK name \in [Page -> [1..Levels -> Index]] : TRUE
    <3>1. [n \in Page |-> [l \in 1..Levels |-> 0]] \in [Page -> [1..Levels -> Index]]
      BY TableAssumption
    <3> QED
      BY <3>1
  <2>4. Named(lev, name)
    BY <1>1, <2>1 DEF Named, ChildNamed, AtName
  <2>5. NamesInv(lev)
    BY <1>1, <2>1, <2>4 DEF NamesInv
  <2> QED
    BY <2>2, <2>5 DEF TableInv
<1> QED
  BY <1>2, <1>3, <1>4, <1>5 DEF IInv

LEMMA IInvNext == IInv /\ [Next]_vars => IInv'
<1> SUFFICES ASSUME IInv, [Next]_vars
             PROVE  IInv'
  OBVIOUS
<1>1. Basics
  BY DEF IInv, Basics
<1>2. Basics' /\ TableInv' => IInv'
  BY DEF IInv, Basics
<1>3. CASE UNCHANGED vars
  <2>1. UNCHANGED <<mapped, free_pages, lists, words, pagetable_root, inserted, empty_pages,
                    owned, g_gcmemlock, pc, addr, node, level, there>>
    BY <1>3 DEF vars, poolVars, tableVars, gcPageVars, walkVars
  <2>2. PageTableTypeOK' /\ PoolInv' /\ WalkInv' /\ GCPagesInOnePlace'
    BY <2>1 DEF IInv, PageTableTypeOK, PoolInv, WalkInv, GCPagesInOnePlace
  <2>3. PICK lev \in [Page -> 0..Levels] : LevelsInv(lev) /\ PathsInv(lev) /\ NamesInv(lev)
    BY DEF IInv, TableInv
  <2>4. LevelsInv(lev)'
    BY <2>1, <2>3 DEF LevelsInv, Clearing
  <2>5. PathsInv(lev)'
    BY <2>1, <2>3 DEF PathsInv, Complete, Inserting, Querying, Clearing
  <2>6. NamesInv(lev)'
    BY <2>1, <2>3 DEF NamesInv, Named, AtName, ChildNamed, ParentOf, Clearing
  <2> QED
    BY <2>2, <2>3, <2>4, <2>5, <2>6 DEF IInv, TableInv
<1>4. ASSUME NEW t \in Thread, AllocateFreshPage(t)
      PROVE  IInv'
  BY <1>1, <1>2, <1>4, AllocateFreshPageBasics, RestingTable
<1>5. ASSUME NEW t \in Thread, ZeroFill(t)
      PROVE  IInv'
  BY <1>1, <1>2, <1>5, ZeroFillBasics, ZeroFillTable
<1>6. ASSUME NEW t \in Thread, SetPresent(t)
      PROVE  IInv'
  BY <1>1, <1>2, <1>6, SetPresentBasics, SetPresentTable
<1>7. ASSUME NEW t \in Thread, NEW n \in Page,
             TakeListPage(t, n) \/ FreeListPage(t, n)
      PROVE  IInv'
  BY <1>1, <1>2, <1>7, TakeListPageBasics, FreeListPageBasics, ListPageTable
<1>8. ASSUME NEW t \in Thread, NEW n \in Page, AddRoot(t, n)
      PROVE  IInv'
  BY <1>1, <1>2, <1>8, AddRootBasics, AddRootTable
<1>9. ASSUME NEW t \in Thread, NEW n \in Page, AddNode(t, n)
      PROVE  IInv'
  BY <1>1, <1>2, <1>9, AddNodeBasics, AddNodeTable
<1>10. ASSUME NEW t \in Thread, NEW a \in Addr, addNewPage(t, a)
       PROVE  IInv'
  BY <1>1, <1>2, <1>10, addNewPageBasics, RestingTable
<1>11. ASSUME NEW t \in Thread, NEW a \in Addr, ReuseEmptyPage(t, a)
       PROVE  IInv'
  BY <1>1, <1>2, <1>11, ReuseEmptyPageBasics, RestingTable
<1>12. ASSUME NEW t \in Thread, NEW a \in Addr, MapPage(t, a)
       PROVE  IInv'
  BY <1>1, <1>2, <1>12, MapPageBasics, MapPageTable
<1> QED
  BY <1>3, <1>4, <1>5, <1>6, <1>7, <1>8, <1>9, <1>10, <1>11, <1>12,
     DescendStep, QueryStep, EndQueryStep, BeginQueryStep DEF Next

LEMMA TableInvariant == Spec => []IInv
  BY IInvInit, IInvNext, PTL DEF Spec

-----------------------------------------------------------------------------
(***************************************************************************)
(* Theorems.                                                               *)
(***************************************************************************)
(* Every step leaves each variable in its range: the levels and the words  *)
(* that pagetable_insert and pagetable_query reach are those of nodes.     *)
THEOREM PageTableTypeCorrect == Spec => []PageTableTypeOK
<1>1. IInv => PageTableTypeOK
  BY DEF IInv
<1> QED
  BY <1>1, TableInvariant, PTL

(* However many threads insert and query, a query never misses a page that *)
(* was in the table when it began (pagetable_query without the GC lock).   *)
THEOREM NoPageMissed == Spec => []QueriesFindInserted
<1>1. IInv => QueriesFindInserted
  BY DEF IInv, WalkInv, QueriesFindInserted
<1> QED
  BY <1>1, TableInvariant, PTL

(* allocateFreshPage and addNewPage give each GC page one place: one       *)
(* thread's allocators or the pool of empty pages.                         *)
THEOREM GCPagesHaveOneUser == Spec => []GCPagesInOnePlace
<1>1. IInv => GCPagesInOnePlace
  BY DEF IInv
<1> QED
  BY <1>1, TableInvariant, PTL
-----------------------------------------------------------------------------
(***************************************************************************)
(* What the table has for an address when no thread inserts.               *)
(***************************************************************************)

(* The node at level l, from those above it. *)
NodeBelow(at, l, a) ==
  IF l = 1 THEN pagetable_root
  ELSE LET n == at[l - 1] IN IF n \in Page THEN words[n][a[l - 1]] ELSE NULL

(* There are such nodes down to any level. *)
LEMMA NodesExist ==
  ASSUME NEW a
  PROVE  \A k \in Nat : \E f : f = [l \in 1..k |-> NodeBelow(f, l, a)]
<1> DEFINE IsDownTo(f, k) == f = [l \in 1..k |-> NodeBelow(f, l, a)]
           T == {k \in Nat : \E f : IsDownTo(f, k)}
<1>1. 0 \in T
  <2> DEFINE f == [l \in 1..0 |-> 0]
  <2>1. \A l \in 1..0 : FALSE
    OBVIOUS
  <2>2. IsDownTo(f, 0)
    BY <2>1, Zenon
  <2> QED
    BY <2>2
<1>2. ASSUME NEW k \in Nat, k \in T PROVE k + 1 \in T
  <2>1. PICK f : IsDownTo(f, k)
    BY <1>2
  <2> DEFINE e == [l \in 1..(k + 1) |-> IF l \in 1..k THEN f[l] ELSE NodeBelow(f, l, a)]
  <2>2. ASSUME NEW l \in 1..(k + 1)
        PROVE  e[l] = NodeBelow(e, l, a)
    <3>1. e[l] = NodeBelow(f, l, a)
      BY <2>1, Zenon
    <3>2. CASE l = 1
      BY <3>1, <3>2, Zenon DEF NodeBelow
    <3>3. CASE l # 1
      <4>1. l - 1 \in 1..k /\ l - 1 \in 1..(k + 1)
        BY <3>3
      <4>2. e[l - 1] = f[l - 1]
        BY <4>1, Zenon
      <4> HIDE DEF e
      <4> QED
        BY <3>1, <4>2, Zenon DEF NodeBelow
    <3> QED
      BY <3>2, <3>3
  <2>3. IsDownTo(e, k + 1)
    <3>1. e = [l \in 1..(k + 1) |-> e[l]]
      BY Zenon
    <3> HIDE DEF e
    <3> QED
      BY <3>1, <2>2, Zenon
  <2>4. k + 1 \in Nat
    OBVIOUS
  <2> HIDE DEF e, IsDownTo
  <2> QED
    BY <2>3, <2>4, Zenon
<1>3. \A k \in Nat : k \in T
  <2> HIDE DEF T
  <2> QED
    BY <1>1, <1>2, SetInduction, Zenon
<1> QED
  BY <1>3, Zenon

(* NodeFor goes from the root down, a word at a time. *)
LEMMA NodeForFacts ==
  ASSUME NEW a
  PROVE  /\ NodeFor(a)[1] = pagetable_root
         /\ \A l \in 1..Levels : l # Levels =>
              NodeFor(a)[l + 1] = IF NodeFor(a)[l] \in Page
                                  THEN words[NodeFor(a)[l]][a[l]] ELSE NULL
<1> DEFINE f == CHOOSE At : At = [l \in 1..Levels |->
                  IF l = 1 THEN pagetable_root
                  ELSE LET n == At[l - 1] IN IF n \in Page THEN words[n][a[l - 1]] ELSE NULL]
<1>1. Levels \in Nat \ {0}
  BY TableAssumption
<1>2. f = [l \in 1..Levels |-> NodeBelow(f, l, a)]
  <2>1. PICK g : g = [l \in 1..Levels |-> NodeBelow(g, l, a)]
    BY <1>1, NodesExist, Zenon
  <2> QED
    BY <2>1, Zenon DEF NodeBelow
<1>3. NodeFor(a) = f
  BY Zenon DEF NodeFor
<1> HIDE DEF f
<1>4. \A l \in 1..Levels : f[l] = NodeBelow(f, l, a)
  BY <1>2, Zenon
<1>5. f[1] = pagetable_root
  <2>1. 1 \in 1..Levels
    BY <1>1
  <2> QED
    BY <1>4, <2>1, Zenon DEF NodeBelow
<1>6. ASSUME NEW l \in 1..Levels, l # Levels
      PROVE  f[l + 1] = IF f[l] \in Page THEN words[f[l]][a[l]] ELSE NULL
  <2>1. l + 1 \in 1..Levels /\ l + 1 # 1 /\ (l + 1) - 1 = l
    BY <1>1, <1>6
  <2>2. f[l + 1] = NodeBelow(f, l + 1, a)
    BY <1>4, <2>1, Zenon
  <2> QED
    BY <2>1, <2>2, Zenon DEF NodeBelow
<1> QED
  BY <1>3, <1>5, <1>6

(* Nobody is clearing a node while the lock is free. *)
LEMMA NoneCleared ==
  ASSUME IInv, g_gcmemlock = NULL
  PROVE  \A n \in Page : ~Clearing(n)
BY TableAssumption DEF IInv, WalkInv, Clearing

(* A walk for a only comes to nodes that are there for it. *)
LEMMA NodeForNamed ==
  ASSUME IInv, g_gcmemlock = NULL,
         NEW lev \in [Page -> 0..Levels], LevelsInv(lev),
         NEW name \in [Page -> [1..Levels -> Index]], Named(lev, name),
         NEW a \in Addr, NEW l \in 1..Levels
  PROVE  /\ NodeFor(a)[l] \in Page \cup {NULL}
         /\ NodeFor(a)[l] \in Page =>
              lev[NodeFor(a)[l]] = l /\ SamePrefix(l, name[NodeFor(a)[l]], a)
<1> DEFINE Right(k) == /\ NodeFor(a)[k] \in Page \cup {NULL}
                       /\ NodeFor(a)[k] \in Page =>
                            lev[NodeFor(a)[k]] = k /\ SamePrefix(k, name[NodeFor(a)[k]], a)
           T == {k \in Nat : k + 1 <= Levels => Right(k + 1)}
<1>1. Levels \in Nat \ {0} /\ \A k \in 1..Levels : a[k] \in Index
  BY TableAssumption
<1>2. 0 \in T
  <2>1. \A p, q : SamePrefix(1, p, q)
    BY DEF SamePrefix
  <2>2. NodeFor(a)[1] = pagetable_root
    BY NodeForFacts
  <2>3. Right(1)
    BY <2>1, <2>2, TableAssumption DEF LevelsInv, IInv, PageTableTypeOK
  <2> QED
    BY <2>3
<1>3. ASSUME NEW k \in Nat, k \in T PROVE k + 1 \in T
  <2> SUFFICES ASSUME (k + 1) + 1 <= Levels PROVE Right((k + 1) + 1)
    OBVIOUS
  <2>1. PICK j \in 1..Levels : j = k + 1 /\ j # Levels /\ j + 1 \in 1..Levels /\ j \in Nat
    BY <1>1
  <2>2. Right(j)
    BY <1>1, <1>3, <2>1
  <2>3. NodeFor(a)[j + 1] = IF NodeFor(a)[j] \in Page
                            THEN words[NodeFor(a)[j]][a[j]] ELSE NULL
    BY <2>1, NodeForFacts
  <2>4. CASE NodeFor(a)[j] \notin Page
    BY <2>1, <2>3, <2>4, TableAssumption
  <2>5. CASE NodeFor(a)[j] \in Page
    <3>1. PICK m \in Page : m = NodeFor(a)[j]
      BY <2>5
    <3>2. lev[m] = j /\ SamePrefix(j, name[m], a) /\ ~Clearing(m) /\ a[j] \in Index
      BY <1>1, <2>2, <3>1, NoneCleared
    <3>3. CASE words[m][a[j]] = NULL
      BY <2>1, <2>3, <3>1, <3>3, TableAssumption
    <3>4. CASE words[m][a[j]] # NULL
      <4>1. PICK c \in Page : c = words[m][a[j]] /\ lev[c] = j + 1
        BY <2>1, <3>2, <3>4 DEF LevelsInv
      <4>2. SamePrefix(j, name[m], name[c]) /\ name[c][j] = a[j]
        <5>1. ChildNamed(m, a[j], lev, name)
          BY <3>2 DEF Named
        <5> QED
          BY <2>1, <3>2, <3>4, <4>1, <5>1 DEF ChildNamed
      <4>3. SamePrefix(j + 1, name[c], a)
        BY <2>1, <3>2, <4>2 DEF SamePrefix
      <4>4. NodeFor(a)[j + 1] = c
        BY <2>3, <3>1, <4>1
      <4> QED
        BY <2>1, <4>1, <4>3, <4>4
    <3> QED
      BY <3>3, <3>4
  <2> QED
    BY <2>4, <2>5
<1>4. \A k \in Nat : k \in T
  <2> HIDE DEF T
  <2> QED
    BY <1>2, <1>3, SetInduction, Zenon
<1>5. PICK k \in Nat : k + 1 = l /\ l <= Levels
  <2>1. l - 1 \in Nat /\ (l - 1) + 1 = l /\ l <= Levels
    BY <1>1
  <2> QED
    BY <2>1
<1>6. Right(l)
  <2> HIDE DEF Right
  <2> QED
    BY <1>4, <1>5
<1> QED
  BY <1>6

(* A walk for a comes to each node that is there for it. *)
LEMMA NodeForFinds ==
  ASSUME IInv, g_gcmemlock = NULL,
         NEW lev \in [Page -> 0..Levels], NamesInv(lev),
         NEW name \in [Page -> [1..Levels -> Index]], Named(lev, name),
         NEW a \in Addr, NEW m \in Page, lev[m] # 0, SamePrefix(lev[m], name[m], a)
  PROVE  NodeFor(a)[lev[m]] = m
<1> DEFINE Found(k) == \A n \in Page : lev[n] = k /\ SamePrefix(k, name[n], a) =>
                         NodeFor(a)[k] = n
           T == {k \in Nat : k + 1 <= Levels => Found(k + 1)}
<1>1. Levels \in Nat \ {0}
  BY TableAssumption
<1>2. 0 \in T
  <2>1. NodeFor(a)[1] = pagetable_root
    BY NodeForFacts
  <2>2. \A n \in Page : lev[n] = 1 => n = pagetable_root
    BY DEF NamesInv
  <2>3. Found(1)
    BY <2>1, <2>2
  <2> QED
    BY <2>3
<1>3. ASSUME NEW k \in Nat, k \in T PROVE k + 1 \in T
  <2> SUFFICES ASSUME (k + 1) + 1 <= Levels PROVE Found((k + 1) + 1)
    OBVIOUS
  <2>1. PICK j \in 1..Levels : j = k + 1 /\ j # Levels /\ j + 1 \in 1..Levels /\ j \in Nat
    BY <1>1
  <2>2. Found(j)
    BY <1>1, <1>3, <2>1
  <2>3. ASSUME NEW n \in Page, lev[n] = j + 1, SamePrefix(j + 1, name[n], a)
        PROVE  NodeFor(a)[j + 1] = n
    <3>1. PICK q \in Page : ParentOf(q, n, lev, name)
      <4>1. lev[n] \notin {0, 1}
        BY <2>1, <2>3
      <4> QED
        BY <4>1 DEF Named
    <3>2. lev[q] = j
      BY <2>1, <2>3, <3>1 DEF ParentOf
    <3>3. SamePrefix(j, name[q], name[n]) /\ words[q][name[n][j]] = n
      BY <3>1, <3>2 DEF ParentOf
    <3>4. SamePrefix(j, name[q], a) /\ name[n][j] = a[j]
      BY <2>1, <2>3, <3>3 DEF SamePrefix
    <3>5. NodeFor(a)[j] = q
      BY <2>2, <3>2, <3>4
    <3> QED
      BY <2>1, <3>3, <3>4, <3>5, NodeForFacts
  <2> QED
    BY <2>1, <2>3
<1>4. \A k \in Nat : k \in T
  <2> HIDE DEF T
  <2> QED
    BY <1>2, <1>3, SetInduction, Zenon
<1>5. lev[m] - 1 \in T /\ (lev[m] - 1) + 1 = lev[m] /\ lev[m] <= Levels
  BY <1>1, <1>4
<1>6. Found(lev[m])
  <2> HIDE DEF Found
  <2> QED
    BY <1>5
<1> QED
  BY <1>6

(* The walk for an inserted page is the one there is. *)
LEMMA NodeForPath ==
  ASSUME NEW lev \in [Page -> 0..Levels], NEW a \in Addr, NEW path \in Path,
         Complete(a, path, lev)
  PROVE  NodeFor(a)[Levels] = path[Levels]
<1> DEFINE T == {k \in Nat : k + 1 <= Levels => NodeFor(a)[k + 1] = path[k + 1]}
<1>1. Levels \in Nat \ {0}
  BY TableAssumption
<1>2. 0 \in T
  BY NodeForFacts DEF Complete
<1>3. ASSUME NEW k \in Nat, k \in T PROVE k + 1 \in T
  <2> SUFFICES ASSUME (k + 1) + 1 <= Levels
               PROVE  NodeFor(a)[(k + 1) + 1] = path[(k + 1) + 1]
    OBVIOUS
  <2>1. PICK j \in 1..Levels : j = k + 1 /\ j # Levels
    BY <1>1
  <2>2. NodeFor(a)[j] = path[j] /\ path[j] \in Page
    BY <1>1, <1>3, <2>1 DEF Path
  <2>3. NodeFor(a)[j + 1] = words[path[j]][a[j]]
    BY <2>1, <2>2, NodeForFacts
  <2> QED
    BY <2>1, <2>3 DEF Complete
<1>4. \A k \in Nat : k \in T
  <2> HIDE DEF T
  <2> QED
    BY <1>2, <1>3, SetInduction, Zenon
<1> QED
  <2>1. Levels - 1 \in T /\ (Levels - 1) + 1 = Levels
    BY <1>1, <1>4
  <2> QED
    BY <1>1, <2>1

-----------------------------------------------------------------------------
(* While nobody inserts, the walk for an address ends at a leaf that says  *)
(* that it is present exactly if it has been inserted (pagetable_insert).  *)
THEOREM TableIsExact == Spec => []TableExact
<1>1. IInv => TableExact
  <2> SUFFICES ASSUME IInv, g_gcmemlock = NULL, NEW a \in Addr
               PROVE  InTable(a) <=> a \in inserted
    BY DEF TableExact
  <2>1. PICK lev \in [Page -> 0..Levels] : LevelsInv(lev) /\ PathsInv(lev) /\ NamesInv(lev)
    BY DEF IInv, TableInv
  <2>2. PICK name \in [Page -> [1..Levels -> Index]] : Named(lev, name)
    BY <2>1 DEF NamesInv
  <2>3. Levels \in 1..Levels /\ a \in [1..Levels -> Index]
    BY TableAssumption
  <2>4. ASSUME InTable(a) PROVE a \in inserted
    <3>1. PICK leaf \in Page : leaf = NodeFor(a)[Levels] /\ words[leaf][a[Levels]] = PAGE_PRESENT
      BY <2>4 DEF InTable
    <3>2. lev[leaf] = Levels /\ SamePrefix(Levels, name[leaf], a)
      <4>1. LevelsInv(lev)
        BY <2>1
      <4>2. NodeFor(a)[Levels] \in Page =>
              /\ lev[NodeFor(a)[Levels]] = Levels
              /\ SamePrefix(Levels, name[NodeFor(a)[Levels]], a)
        BY <2>2, <2>3, <4>1, NodeForNamed
      <4> QED
        BY <3>1, <4>2
    <3>3. ChildNamed(leaf, a[Levels], lev, name)
      BY <2>2, <2>3 DEF Named
    <3>4. PICK b \in inserted : SamePrefix(Levels, b, name[leaf]) /\ b[Levels] = a[Levels]
      BY <2>3, <3>1, <3>2, <3>3, NoneCleared, TableAssumption DEF ChildNamed
    <3>5. b \in [1..Levels -> Index]
      BY TableAssumption DEF IInv, PageTableTypeOK
    <3>6. \A l \in 1..Levels : b[l] = a[l]
      BY <2>3, <3>2, <3>4 DEF SamePrefix
    <3>7. b = a
      BY <2>3, <3>5, <3>6
    <3> QED
      BY <3>7
  <2>5. ASSUME a \in inserted PROVE InTable(a)
    <3>1. PICK path \in Path : Complete(a, path, lev)
      BY <2>1, <2>5 DEF PathsInv
    <3>2. NodeFor(a)[Levels] = path[Levels] /\ path[Levels] \in Page
      BY <2>3, <3>1, NodeForPath DEF Path
    <3> QED
      BY <3>1, <3>2 DEF Complete, InTable
  <2> QED
    BY <2>4, <2>5
<1> QED
  BY <1>1, TableInvariant, PTL

(* The nodes of the table are the pages that have a level. *)
LEMMA NodesHaveLevels ==
  ASSUME IInv, g_gcmemlock = NULL,
         NEW lev \in [Page -> 0..Levels], LevelsInv(lev), NamesInv(lev),
         NEW name \in [Page -> [1..Levels -> Index]], Named(lev, name)
  PROVE  Nodes = {n \in Page : lev[n] # 0}
<1>1. ASSUME NEW n \in Nodes PROVE n \in Page /\ lev[n] # 0
  <2>1. PICK a \in Addr, l \in 1..Levels : n = NodeFor(a)[l] /\ n # NULL
    BY DEF Nodes
  <2>2. n \in Page /\ lev[n] = l
    BY <2>1, NodeForNamed
  <2> QED
    BY <2>2
<1>2. ASSUME NEW n \in Page, lev[n] # 0 PROVE n \in Nodes
  <2>1. name[n] \in Addr /\ SamePrefix(lev[n], name[n], name[n]) /\ lev[n] \in 1..Levels
    BY <1>2, TableAssumption DEF Named, SamePrefix
  <2>2. NodeFor(name[n])[lev[n]] = n
    BY <1>2, <2>1, NodeForFinds
  <2> QED
    BY <2>1, <2>2, TableAssumption DEF Nodes
<1> QED
  BY <1>1, <1>2

(* The words of nodes that lead to page n. *)
LEMMA OneWordLeads ==
  ASSUME IInv, g_gcmemlock = NULL,
         NEW lev \in [Page -> 0..Levels], LevelsInv(lev), NamesInv(lev),
         NEW name \in [Page -> [1..Levels -> Index]], Named(lev, name),
         NEW n \in Page, NEW m \in Page, lev[m] # 0, NEW i \in Index, words[m][i] = n
  PROVE  /\ lev[n] = lev[m] + 1
         /\ \A q \in Page : ParentOf(q, n, lev, name) => q = m /\ name[n][lev[q]] = i
<1>1. n # NULL /\ n # PAGE_PRESENT /\ Levels \in Nat \ {0} /\ ~Clearing(m)
  BY NoneCleared, TableAssumption
<1>2. lev[m] # Levels /\ lev[n] = lev[m] + 1
  BY <1>1 DEF LevelsInv
<1>3. SamePrefix(lev[m], name[m], name[n]) /\ name[n][lev[m]] = i
  <2>1. ChildNamed(m, i, lev, name)
    BY DEF Named
  <2> QED
    BY <1>1, <1>2, <2>1 DEF ChildNamed
<1>4. ASSUME NEW q \in Page, ParentOf(q, n, lev, name)
      PROVE  q = m /\ name[n][lev[q]] = i
  <2>1. lev[q] = lev[m]
    BY <1>2, <1>4 DEF ParentOf
  <2>2. SamePrefix(lev[m], name[m], name[q])
    BY <1>3, <1>4, <2>1 DEF ParentOf, SamePrefix
  <2>3. q = m
    BY <2>1, <2>2 DEF Named
  <2> QED
    BY <1>3, <2>3
<1> QED
  BY <1>2, <1>4

(* The places of a page, as PoolPagesInOnePlace lists them. *)
Places(n) ==
       {<<"free", i>> : i \in {j \in DOMAIN free_pages : free_pages[j] = n}}
  \cup {<<"list", t>> : t \in {u \in Thread : n \in lists[u]}}
  \cup {<<"root", 0>> : r \in {pagetable_root} \cap {n}}
  \cup {w \in Nodes \X Index : words[w[1]][w[2]] = n}

(* A page of the pool is free, in a list, the root, or what one word of    *)
(* one node leads to (xallocAllocatePage and the nodes it is called for).  *)
THEOREM PoolPagesHaveOnePlace == Spec => []PoolPagesInOnePlace
<1>1. IInv => PoolPagesInOnePlace
  <2> SUFFICES ASSUME IInv, g_gcmemlock = NULL, NEW n \in mapped
               PROVE  Cardinality(Places(n)) = 1
    BY Zenon DEF PoolPagesInOnePlace, Places
  <2>1. PICK lev \in [Page -> 0..Levels] : LevelsInv(lev) /\ PathsInv(lev) /\ NamesInv(lev)
    BY DEF IInv, TableInv
  <2>2. PICK name \in [Page -> [1..Levels -> Index]] : Named(lev, name)
    BY <2>1 DEF NamesInv
  <2>3. n \in Page /\ free_pages \in Seq(mapped)
    BY DEF IInv, PageTableTypeOK
  <2> DEFINE free == {i \in DOMAIN free_pages : free_pages[i] = n}
             list == {u \in Thread : n \in lists[u]}
             root == {pagetable_root} \cap {n}
             word == {w \in Nodes \X Index : words[w[1]][w[2]] = n}
  <2>4. Places(n) = {<<"free", i>> : i \in free} \cup {<<"list", u>> : u \in list}
                    \cup {<<"root", 0>> : r \in root} \cup word
    BY DEF Places
  <2>5. \A w \in word : \E m \in Page, i \in Index :
          w = <<m, i>> /\ lev[m] # 0 /\ words[m][i] = n
    BY <2>1, <2>2, NodesHaveLevels
  <2>6. lev[n] \in {0, 1} => word = {}
    <3>1. ASSUME NEW w \in word PROVE lev[n] \notin {0, 1}
      <4>1. PICK m \in Page, i \in Index : lev[m] # 0 /\ words[m][i] = n
        BY <2>5
      <4>2. lev[n] = lev[m] + 1
        BY <2>1, <2>2, <2>3, <4>1, OneWordLeads
      <4> QED
        BY <4>1, <4>2, TableAssumption
    <3> QED
      BY <3>1
  <2>7. root # {} => lev[n] = 1
    BY <2>1, <2>3, TableAssumption DEF LevelsInv
  <2>8. n \in Range(free_pages) <=> free # {}
    BY DEF Range
  <2>9. lev[n] # 0 => free = {} /\ list = {}
    BY <2>1, <2>3, <2>8 DEF LevelsInv
  <2>10. CASE free # {}
    <3>1. PICK i : free = {i}
      <4>1. PICK i \in DOMAIN free_pages : free_pages[i] = n
        BY <2>10
      <4>2. \A j \in free : j = i
        BY <4>1 DEF IInv, PoolInv, Distinct
      <4>3. free = {i}
        BY <4>1, <4>2
      <4> QED
        BY <4>3
    <3>2. list = {} /\ root = {} /\ word = {}
      BY <2>6, <2>7, <2>8, <2>9, <2>10 DEF IInv, PoolInv
    <3>3. Places(n) = {<<"free", i>>}
      BY <2>4, <3>1, <3>2
    <3> QED
      BY <3>3, FS_Singleton
  <2>11. CASE list # {}
    <3>1. PICK u : list = {u}
      <4>1. PICK u \in list : TRUE
        BY <2>11
      <4>2. \A t \in list : t = u
        BY <4>1 DEF IInv, PoolInv
      <4>3. list = {u}
        BY <4>1, <4>2
      <4> QED
        BY <4>3
    <3>2. free = {} /\ root = {} /\ word = {}
      BY <2>6, <2>7, <2>8, <2>9, <2>11 DEF IInv, PoolInv
    <3>3. Places(n) = {<<"list", u>>}
      BY <2>4, <3>1, <3>2
    <3> QED
      BY <3>3, FS_Singleton
  <2>12. CASE lev[n] = 1
    <3>1. root = {n}
      BY <2>1, <2>3, <2>12 DEF NamesInv
    <3>2. Places(n) = {<<"root", 0>>}
      BY <2>4, <2>6, <2>9, <2>12, <3>1
    <3> QED
      BY <3>2, FS_Singleton
  <2>13. CASE lev[n] \notin {0, 1}
    <3>1. PICK m \in Page : ParentOf(m, n, lev, name)
      BY <2>2, <2>3, <2>13 DEF Named
    <3>2. PICK i \in Index : i = name[n][lev[m]] /\ words[m][i] = n /\ lev[m] # 0
      BY <2>2, <2>3, <3>1, TableAssumption DEF ParentOf, Named
    <3>3. <<m, i>> \in word
      BY <2>1, <2>2, <3>2, NodesHaveLevels
    <3>4. \A w \in word : w = <<m, i>>
      BY <2>1, <2>2, <2>3, <2>5, <3>1, <3>2, OneWordLeads
    <3>5. Places(n) = {<<m, i>>}
      BY <2>4, <2>7, <2>9, <2>13, <3>3, <3>4
    <3> QED
      BY <3>5, FS_Singleton
  <2>14. free # {} \/ list # {} \/ lev[n] # 0
    BY <2>1, <2>8 DEF NamesInv
  <2> QED
    BY <2>10, <2>11, <2>12, <2>13, <2>14
<1> QED
  BY <1>1, TableInvariant, PTL
=============================================================================
