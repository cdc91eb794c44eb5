------------------------------ MODULE PageTable ------------------------------
(***************************************************************************)
(* The pages of the collector as its threads share them:                   *)
(* GlobalPageGCManager with its pool of empty pages, its page table        *)
(* (src/runtime/support/pagetable.h), which pagetable_insert extends under *)
(* the GC lock and pagetable_query walks under no lock at all, and the     *)
(* pool of module XAllocPages, from which the nodes of the table come and  *)
(* also the pages of every thread's lists.                                 *)
(*                                                                         *)
(* A node has one word for each index.  A page of the pool is cleared when *)
(* it is freed and then linked through its word 0, which is all that a     *)
(* node finds in it; what lists write in their pages is left out.          *)
(***************************************************************************)
EXTENDS XAllocPages, FiniteSets

CONSTANTS
  NULL,          \* nullptr
  PAGE_PRESENT,  \* what a leaf of the table holds for a page in it
  Thread,
  Index,         \* the indices of a node: the values of LEVEL_MASK
  Levels,        \* PAGETABLE_LEVELS
  Addr           \* the GC pages that mmap can return, by their indices

ASSUME TableAssumption ==
  /\ 0 \in Index
  /\ Levels \in Nat \ {0}
  /\ Addr \subseteq [1..Levels -> Index]
  /\ NULL \notin Page \cup Thread /\ PAGE_PRESENT \notin Page \cup {NULL}

VARIABLES
  words,           \* words[n]: the words of page n of the pool
  pagetable_root,
  empty_pages,     \* GlobalPageGCManager.empty_pages
  inserted,        \* the addresses whose insertion has ended
  owned,           \* owned[t]: the GC pages of a thread's allocators
  lists,           \* lists[t]: the pages of its lists
  g_gcmemlock,     \* the thread that holds the GC lock, or NULL
  pc,              \* what a thread is doing
  addr,            \* the address it inserts or asks for
  node,            \* the node it is at
  level,           \* and its level
  there            \* history: the address was in the table when the query began

poolVars   == <<mapped, free_pages, lists>>
tableVars  == <<words, pagetable_root, inserted>>
gcPageVars == <<empty_pages, owned>>
walkVars   == <<addr, node, level, there>>
vars == <<poolVars, tableVars, gcPageVars, g_gcmemlock, pc, walkVars>>

Steps == {"idle", "allocate", "insert", "zerofill", "query", "yes", "no"}

PageTableTypeOK ==
  /\ mapped \in SUBSET Page
  /\ free_pages \in Seq(mapped)
  /\ words \in [Page -> [Index -> Page \cup {NULL, PAGE_PRESENT}]]
  /\ pagetable_root \in Page \cup {NULL}
  /\ inserted \in SUBSET Addr
  /\ empty_pages \in SUBSET inserted
  /\ owned \in [Thread -> SUBSET inserted]
  /\ lists \in [Thread -> SUBSET mapped]
  /\ g_gcmemlock \in Thread \cup {NULL}
  /\ pc \in [Thread -> Steps]
  /\ addr \in [Thread -> Addr \cup {NULL}]
  /\ node \in [Thread -> Page \cup {NULL}]
  /\ level \in [Thread -> 1..Levels]
  /\ there \in [Thread -> BOOLEAN]

Cleared == [i \in Index |-> NULL]

Init ==
  /\ PagesInit
  /\ words = [n \in Page |-> Cleared]
  /\ pagetable_root = NULL /\ inserted = {} /\ empty_pages = {}
  /\ owned = [t \in Thread |-> {}]
  /\ lists = [t \in Thread |-> {}]
  /\ g_gcmemlock = NULL
  /\ pc = [t \in Thread |-> "idle"]
  /\ addr = [t \in Thread |-> NULL]
  /\ node = [t \in Thread |-> NULL]
  /\ level = [t \in Thread |-> 1]
  /\ there = [t \in Thread |-> FALSE]

(* The word that a walk for an address reads next. *)
NextWord(t) == words[node[t]][addr[t][level[t]]]

Goto(t, step) == pc' = [pc EXCEPT ![t] = step]

Walk(t, a, n, l) ==
  /\ addr'  = [addr EXCEPT ![t] = a]
  /\ node'  = [node EXCEPT ![t] = n]
  /\ level' = [level EXCEPT ![t] = l]

Idle(t) == Goto(t, "idle") /\ Walk(t, NULL, NULL, 1)

-----------------------------------------------------------------------------
(***************************************************************************)
(* Between its queries and allocations a thread uses and drops pages of    *)
(* the pool.                                                               *)
(***************************************************************************)
(* One page for each thread's lists is enough here. *)
TakeListPage(t, n) ==
  /\ pc[t] = "idle" /\ lists[t] = {}
  /\ AllocatePage(n)
  /\ words' = [words EXCEPT ![n] = Cleared]
  /\ lists' = [lists EXCEPT ![t] = {n}]
  /\ UNCHANGED <<pagetable_root, inserted, gcPageVars, g_gcmemlock, pc, walkVars>>

FreeListPage(t, n) ==
  /\ pc[t] = "idle" /\ n \in lists[t]
  /\ FreePages(<<n>>)
  /\ words' = [words EXCEPT ![n] =
                 [Cleared EXCEPT ![0] = IF free_pages = <<>> THEN NULL ELSE Head(free_pages)]]
  /\ lists' = [lists EXCEPT ![t] = {}]
  /\ UNCHANGED <<pagetable_root, inserted, gcPageVars, g_gcmemlock, pc, walkVars>>

-----------------------------------------------------------------------------
(***************************************************************************)
(* GlobalPageGCManager: addNewPage and allocateFreshPage.                  *)
(***************************************************************************)
addNewPage(t, a) ==
  /\ pc[t] = "idle" /\ a \in owned[t]
  /\ g_gcmemlock = NULL
  /\ empty_pages' = empty_pages \cup {a}
  /\ owned' = [owned EXCEPT ![t] = @ \ {a}]
  /\ UNCHANGED <<poolVars, tableVars, g_gcmemlock, pc, walkVars>>

(* Bounded by the addresses there are. *)
AllocateFreshPage(t) ==
  /\ pc[t] = "idle"
  /\ empty_pages # {} \/ inserted # Addr
  /\ g_gcmemlock = NULL
  /\ g_gcmemlock' = t
  /\ Goto(t, "allocate")
  /\ UNCHANGED <<poolVars, tableVars, gcPageVars, walkVars>>

(* A variant that leaves the page in the pool. *)
NotUnlinked(a) == empty_pages
Unlinked(a)    == empty_pages \ {a}

ReuseEmptyPage(t, a) ==
  /\ pc[t] = "allocate" /\ a \in empty_pages
  /\ empty_pages' = Unlinked(a)
  /\ owned' = [owned EXCEPT ![t] = @ \cup {a}]
  /\ g_gcmemlock' = NULL
  /\ Goto(t, "idle")
  /\ UNCHANGED <<poolVars, tableVars, walkVars>>

MapPage(t, a) ==
  /\ pc[t] = "allocate" /\ empty_pages = {}
  /\ a \in Addr \ inserted
  /\ Goto(t, "insert") /\ Walk(t, a, pagetable_root, 1)
  /\ UNCHANGED <<poolVars, tableVars, gcPageVars, g_gcmemlock, there>>

(* pagetable_insert: a node that is missing is linked in first and cleared *)
(* after that.                                                             *)
AddRoot(t, n) ==
  /\ pc[t] = "insert" /\ node[t] = NULL
  /\ AllocatePage(n)
  /\ pagetable_root' = n
  /\ Goto(t, "zerofill") /\ Walk(t, addr[t], n, 1)
  /\ UNCHANGED <<lists, words, inserted, gcPageVars, g_gcmemlock, there>>

(* Variants: a node is added whether there is one or not, and it is used   *)
(* as it comes from the pool.                                              *)
AlwaysMissing(w)  == TRUE
IsMissing(w)      == w = NULL
AsItComes(n)      == words
ZeroFilled(n)     == [words EXCEPT ![n] = Cleared]

AddNode(t, n) ==
  /\ pc[t] = "insert" /\ node[t] # NULL /\ level[t] < Levels
  /\ IsMissing(NextWord(t))
  /\ AllocatePage(n)
  /\ words' = [words EXCEPT ![node[t]][addr[t][level[t]]] = n]
  /\ Goto(t, "zerofill") /\ Walk(t, addr[t], n, level[t] + 1)
  /\ UNCHANGED <<lists, pagetable_root, inserted, gcPageVars, g_gcmemlock, there>>

ZeroFill(t) ==
  /\ pc[t] = "zerofill"
  /\ words' = ZeroFilled(node[t])
  /\ Goto(t, "insert")
  /\ UNCHANGED <<poolVars, pagetable_root, inserted, gcPageVars, g_gcmemlock, walkVars>>

Descend(t) ==
  /\ pc[t] = "insert" /\ node[t] # NULL /\ level[t] < Levels
  /\ ~IsMissing(NextWord(t))
  /\ Walk(t, addr[t], NextWord(t), level[t] + 1)
  /\ UNCHANGED <<poolVars, tableVars, gcPageVars, g_gcmemlock, pc, there>>

SetPresent(t) ==
  /\ pc[t] = "insert" /\ node[t] # NULL /\ level[t] = Levels
  /\ words' = [words EXCEPT ![node[t]][addr[t][Levels]] = PAGE_PRESENT]
  /\ inserted' = inserted \cup {addr[t]}
  /\ owned' = [owned EXCEPT ![t] = @ \cup {addr[t]}]
  /\ g_gcmemlock' = NULL
  /\ Idle(t)
  /\ UNCHANGED <<poolVars, pagetable_root, empty_pages, there>>

-----------------------------------------------------------------------------
(***************************************************************************)
(* pagetable_query, for a word that a scan has found.                      *)
(***************************************************************************)
BeginQuery(t, a) ==
  /\ pc[t] = "idle"
  /\ there' = [there EXCEPT ![t] = a \in inserted]
  /\ Goto(t, IF pagetable_root = NULL THEN "no" ELSE "query")
  /\ Walk(t, a, pagetable_root, 1)
  /\ UNCHANGED <<poolVars, tableVars, gcPageVars, g_gcmemlock>>

Query(t) ==
  /\ pc[t] = "query"
  /\ \/ /\ level[t] < Levels /\ NextWord(t) \in Page
        /\ Walk(t, addr[t], NextWord(t), level[t] + 1)
        /\ UNCHANGED pc
     \/ /\ level[t] < Levels /\ NextWord(t) = NULL
        /\ Goto(t, "no")
        /\ UNCHANGED <<addr, node, level>>
     \/ /\ level[t] = Levels
        /\ Goto(t, IF NextWord(t) = PAGE_PRESENT THEN "yes" ELSE "no")
        /\ UNCHANGED <<addr, node, level>>
  /\ UNCHANGED <<poolVars, tableVars, gcPageVars, g_gcmemlock, there>>

EndQuery(t) ==
  /\ pc[t] \in {"yes", "no"}
  /\ there' = [there EXCEPT ![t] = FALSE]
  /\ Idle(t)
  /\ UNCHANGED <<poolVars, tableVars, gcPageVars, g_gcmemlock>>

Next ==
  \E t \in Thread :
    \/ AllocateFreshPage(t) \/ ZeroFill(t) \/ Descend(t) \/ SetPresent(t)
    \/ Query(t) \/ EndQuery(t)
    \/ \E n \in Page :
         TakeListPage(t, n) \/ FreeListPage(t, n) \/ AddRoot(t, n) \/ AddNode(t, n)
    \/ \E a \in Addr :
         addNewPage(t, a) \/ ReuseEmptyPage(t, a) \/ MapPage(t, a) \/ BeginQuery(t, a)

Spec == Init /\ [][Next]_vars

-----------------------------------------------------------------------------
(***************************************************************************)
(* Properties.                                                             *)
(***************************************************************************)

(* The node for address a at a level, if there is one. *)
NodeFor(a) ==
  LET At[l \in 1..Levels] ==
        IF l = 1 THEN pagetable_root
        ELSE LET n == At[l - 1] IN IF n \in Page THEN words[n][a[l - 1]] ELSE NULL
  IN At

InTable(a) ==
  LET leaf == NodeFor(a)[Levels]
  IN leaf \in Page /\ words[leaf][a[Levels]] = PAGE_PRESENT

Nodes == {NodeFor(a)[l] : a \in Addr, l \in 1..Levels} \ {NULL}

(***************************************************************************)
(* While no thread inserts, the table has exactly the pages that were      *)
(* inserted, in whatever order and by whatever threads (pagetable_insert). *)
(***************************************************************************)
TableExact == g_gcmemlock = NULL => \A a \in Addr : InTable(a) <=> a \in inserted

(***************************************************************************)
(* A scan never misses a page that is in the table when it looks for it,   *)
(* though another thread may be adding nodes meanwhile: no root is lost    *)
(* (pagetable_query takes no lock).                                        *)
(***************************************************************************)
QueriesFindInserted == \A t \in Thread : pc[t] = "no" => ~there[t]

(***************************************************************************)
(* A page of the pool is free once, or is in one thread's list, or is one  *)
(* node of the table: lists and nodes never share memory.                  *)
(***************************************************************************)
PoolPagesInOnePlace ==
  g_gcmemlock = NULL => \A n \in mapped :
    LET places == {<<"free", i>> : i \in {j \in DOMAIN free_pages : free_pages[j] = n}}
             \cup {<<"list", t>> : t \in {u \in Thread : n \in lists[u]}}
             \cup {<<"root", 0>> : r \in {pagetable_root} \cap {n}}
             \cup {w \in Nodes \X Index : words[w[1]][w[2]] = n}
    IN Cardinality(places) = 1

(***************************************************************************)
(* A GC page is in one thread's allocators or in the pool of empty pages   *)
(* (allocateFreshPage and addNewPage share it between all threads).        *)
(***************************************************************************)
GCPagesInOnePlace ==
  \A a \in inserted :
    /\ a \in empty_pages => \A t \in Thread : a \notin owned[t]
    /\ \A t, u \in Thread : a \in owned[t] \cap owned[u] => t = u
    /\ a \in empty_pages \cup UNION {owned[t] : t \in Thread}

(***************************************************************************)
(* "Make sure our page is in pagetable" (gc.cpp:276): what a scan takes    *)
(* for a page is one.                                                      *)
(***************************************************************************)
QueriesFindOnlyInserted == \A t \in Thread : pc[t] = "yes" => addr[t] \in inserted
=============================================================================
