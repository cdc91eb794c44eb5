----------------------------- MODULE BucketTree -----------------------------
(***************************************************************************)
(* The utilisation buckets of GCAllocator (src/runtime/memory/allocator.h) *)
(* Each bucket is a binary search tree of pages, linked through the pages' *)
(* own left and right pointers; pages as full as the root hang off it in a *)
(* list linked through next.  Utilisations are whole numbers here: those   *)
(* of two pages are equal or further apart than UTILIZATIONS_ARE_EQUAL     *)
(* tolerates, as they are fractions of the entries of a page.              *)
(***************************************************************************)
EXTENDS Naturals, FiniteSets

CONSTANTS
  PageInfo,  \* the pages of one allocator
  nullptr,
  Util,      \* the utilisations that have a bucket
  Bucket,    \* the indices of the buckets
  BucketOf   \* BucketOf[u]: GET_BUCKET_INDEX

ASSUME BucketAssumption ==
  /\ nullptr \notin PageInfo
  /\ Util \subseteq Nat
  /\ Bucket \subseteq Nat
  /\ BucketOf \in [Util -> Bucket]
  /\ \A u, v \in Util : u <= v => BucketOf[u] <= BucketOf[v]

VARIABLES
  tree,   \* the pointers of the buckets and the pages, and approx_utilization
  held,   \* history: the pages put in and not yet deleted or taken
  taken   \* the page that findLowestUtilPage returned last, or nullptr

treeVars == <<tree, held, taken>>

Pointer == PageInfo \cup {nullptr}

Tree == [bucket : [Bucket -> Pointer],
         left   : [PageInfo -> Pointer],
         right  : [PageInfo -> Pointer],
         next   : [PageInfo -> Pointer],
         util   : [PageInfo -> Util]]

TreeInit ==
  /\ \E u \in Util :
       tree = [bucket |-> [b \in Bucket |-> nullptr],
               left   |-> [p \in PageInfo |-> nullptr],
               right  |-> [p \in PageInfo |-> nullptr],
               next   |-> [p \in PageInfo |-> nullptr],
               util   |-> [p \in PageInfo |-> u]]
  /\ held = {}
  /\ taken = nullptr

(***************************************************************************)
(* insertPageInBucket, with the update of approx_utilization that          *)
(* processPage makes first.                                                *)
(***************************************************************************)

(* Variants: equal pages to the left, and the order upside down. *)
GoesLeftIfEqual(t, c, u) == u <= t.util[c]
GoesLeftIfMore(t, c, u)  == u > t.util[c]

GoesLeft(t, c, u) == u < t.util[c]

(* Where one comes to from c by following pointer as long as there is one. *)
WalkEnd(pointer, c) ==
  LET end[d \in PageInfo] == IF pointer[d] = nullptr THEN d ELSE end[pointer[d]]
  IN end[c]

(* The page before p on that walk. *)
Before(pointer, c, p) ==
  WalkEnd([d \in PageInfo |-> IF pointer[d] = p THEN nullptr ELSE pointer[d]], c)

LastInList(t, root) == WalkEnd(t.next, root)

(* The node under which a page of utilisation u becomes a child. *)
ParentFor(t, root, u) ==
  WalkEnd([c \in PageInfo |-> IF GoesLeft(t, c, u) THEN t.left[c] ELSE t.right[c]], root)

Inserted(t, p, u) ==
  LET root == t.bucket[BucketOf[u]]
      t0 == [t EXCEPT !.left[p] = nullptr, !.right[p] = nullptr, !.next[p] = nullptr,
                      !.util[p] = u]
      parent == ParentFor(t0, root, u)
  IN CASE root = nullptr -> [t0 EXCEPT !.bucket[BucketOf[u]] = p]
       [] root # nullptr /\ u = t0.util[root] ->
            [t0 EXCEPT !.next[LastInList(t0, root)] = p]
       [] root # nullptr /\ u # t0.util[root] /\ GoesLeft(t0, parent, u) ->
            [t0 EXCEPT !.left[parent] = p]
       [] OTHER -> [t0 EXCEPT !.right[parent] = p]

Insert(p, u) ==
  /\ p \notin held
  /\ tree' = Inserted(tree, p, u)
  /\ held' = held \cup {p}
  /\ UNCHANGED taken

(***************************************************************************)
(* deletePageFromBucket.  The place of the pointer to a subtree is what    *)
(* the code has as root_ptr.                                               *)
(***************************************************************************)
Place == ({"bucket"} \X Bucket) \cup ({"left", "right"} \X PageInfo)

Deref(t, at) == t[at[1]][at[2]]

Redirect(t, at, p) == [t EXCEPT ![at[1]] = [@ EXCEPT ![at[2]] = p]]

Successor(t, p) == WalkEnd(t.left, t.right[p])

UnlinkFromList(t, root, p) ==
  LET prev == Before(t.next, root, p)
  IN IF t.next[prev] = p THEN [t EXCEPT !.next[prev] = t.next[p]] ELSE t

(* Where the search for the utilisation of p ends that begins at a place.  *)
SearchEnd(t, at, p) ==
  LET end[a \in Place] ==
        LET root == Deref(t, a)
        IN IF root = nullptr \/ t.util[root] = t.util[p] THEN a
           ELSE end[<<IF t.util[root] > t.util[p] THEN "left" ELSE "right", root>>]
  IN end[at]

(* One call, where deleted has what the calls that it makes come to. *)
DeleteCall(t, at, p, deleted) ==
  LET end  == SearchEnd(t, at, p)
      root == Deref(t, end)
      s    == Successor(t, p)
  IN IF root = nullptr THEN t
     ELSE IF root # p THEN UnlinkFromList(t, root, p)
     ELSE IF t.next[p] # nullptr
       THEN Redirect([t EXCEPT !.left[t.next[p]] = t.left[p],
                               !.right[t.next[p]] = t.right[p]], end, t.next[p])
     ELSE IF t.left[p] = nullptr THEN Redirect(t, end, t.right[p])
     ELSE IF t.right[p] = nullptr THEN Redirect(t, end, t.left[p])
     ELSE deleted[[t EXCEPT !.left[s] = t.left[p], !.right[s] = t.right[p],
                            !.next[s] = t.next[p], !.util[p] = t.util[s]],
                  <<"right", p>>, s]

Deleted(t, at, p) ==
  LET deleted[c \in Tree \X Place \X PageInfo] == DeleteCall(c[1], c[2], c[3], deleted)
  IN DeleteCall(t, at, p, deleted)

Delete(p) ==
  /\ p \in held
  /\ tree' = Deleted(tree, <<"bucket", BucketOf[tree.util[p]]>>, p)
  /\ held' = held \ {p}
  /\ UNCHANGED taken

(***************************************************************************)
(* findLowestUtilPage: the leftmost page of the first bucket in use leaves *)
(* it, and the page behind it, or else its right subtree, takes its place. *)
(***************************************************************************)

(* A variant that forgets the subtree. *)
NothingInPlaceOf(t, p) == nullptr
InPlaceOf(t, p)        == t.right[p]

LowestTaken(t, b) ==
  LET root   == t.bucket[b]
      p      == WalkEnd(t.left, root)
      parent == Before(t.left, root, p)
  IN [page |-> p,
      tree |->
        IF p # root THEN [t EXCEPT !.left[parent] = InPlaceOf(t, p)]
        ELSE IF t.next[p] = nullptr THEN [t EXCEPT !.bucket[b] = InPlaceOf(t, p)]
        ELSE [t EXCEPT !.bucket[b] = t.next[p],
                       !.left[t.next[p]] = t.left[p],
                       !.right[t.next[p]] = t.right[p]]]

findLowestUtilPage ==
  /\ \E b \in Bucket :
       /\ tree.bucket[b] # nullptr
       /\ \A c \in Bucket : c < b => tree.bucket[c] = nullptr
       /\ taken' = LowestTaken(tree, b).page
       /\ tree' = LowestTaken(tree, b).tree
  /\ held' = held \ {taken'}

TreeNext ==
  \/ \E p \in PageInfo, u \in Util : Insert(p, u)
  \/ \E p \in PageInfo : Delete(p)
  \/ findLowestUtilPage

TreeSpec == TreeInit /\ [][TreeNext]_treeVars

(***************************************************************************)
(* Deletions that the code gets right: the search for a page with p's      *)
(* utilisation ends at p or at the head of p's list, and p is not a node   *)
(* with two children and no page behind it.                                *)
(***************************************************************************)
SearchFinds(t, p) ==
  LET root == Deref(t, SearchEnd(t, <<"bucket", BucketOf[t.util[p]]>>, p))
  IN root # nullptr /\ (root = p \/ t.next[Before(t.next, root, p)] = p)

HasTwoChildren(t, p) == t.next[p] = nullptr /\ nullptr \notin {t.left[p], t.right[p]}

CarefulDelete(p) ==
  p \in held /\ SearchFinds(tree, p) /\ ~HasTwoChildren(tree, p) /\ Delete(p)

CarefulNext ==
  \/ \E p \in PageInfo, u \in Util : Insert(p, u)
  \/ \E p \in PageInfo : CarefulDelete(p)
  \/ findLowestUtilPage

CarefulSpec == TreeInit /\ [][CarefulNext]_treeVars

-----------------------------------------------------------------------------
(***************************************************************************)
(* Properties.                                                             *)
(***************************************************************************)
Links(t, p) == {t.left[p], t.right[p], t.next[p]} \ {nullptr}

InSubtree(t, from) ==
  LET around == {S \in SUBSET PageInfo : from \ {nullptr} \subseteq S
                                     /\ \A p \in S : Links(t, p) \subseteq S}
  IN {p \in PageInfo : \A S \in around : p \in S}

InBuckets == InSubtree(tree, {tree.bucket[b] : b \in Bucket})

(* The places in the buckets that point to p. *)
PointersTo(p) ==
  {at \in ({"bucket"} \X Bucket) \cup ({"left", "right", "next"} \X InBuckets) :
     Deref(tree, at) = p}

(***************************************************************************)
(* The buckets lead to exactly the pages that are in them, and to each by  *)
(* one path: none is lost, none comes back after it was removed, and there *)
(* is no cycle for a walk along left or next to end in                     *)
(* (insertPageInBucket, deletePageFromBucket, findLowestUtilPage).         *)
(***************************************************************************)
HoldsEveryPageOnce ==
  /\ InBuckets = held
  /\ \A p \in held : Cardinality(PointersTo(p)) = 1

(***************************************************************************)
(* Each bucket stays a search tree of pages that belong in it: what is to  *)
(* the left of a page is used less, what is to the right as much or more,  *)
(* and the pages of a list equally, so that deletion's search can succeed. *)
(***************************************************************************)
SearchTree ==
  /\ \A b \in Bucket : \A p \in InSubtree(tree, {tree.bucket[b]}) :
       BucketOf[tree.util[p]] = b
  /\ \A p \in InBuckets :
       /\ \A q \in InSubtree(tree, {tree.left[p]}) : tree.util[q] < tree.util[p]
       /\ \A q \in InSubtree(tree, {tree.right[p]}) : tree.util[q] >= tree.util[p]
       /\ \A q \in InSubtree(tree, {tree.next[p]}) : tree.util[q] = tree.util[p]

(***************************************************************************)
(* The buckets implement a set of pages (module PageSets): they return a   *)
(* page that no other page is used less than.                              *)
(***************************************************************************)
Abstract == INSTANCE PageSets WITH
              Page <- PageInfo, NULL <- nullptr, pages <- InBuckets, util <- tree.util

ImplementsPageSets == Abstract!Spec
=============================================================================
