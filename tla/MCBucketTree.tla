---------------------------- MODULE MCBucketTree ----------------------------
(***************************************************************************)
(* A few pages in two buckets of utilisations.                             *)
(***************************************************************************)
EXTENDS BucketTree, TLC

MCUtil     == 1..4
MCBucket   == 0..1
MCBucketOf == [u \in MCUtil |-> IF u <= 3 THEN 0 ELSE 1]

(* A page that is in no bucket keeps its pointers, but insertion overwrites *)
(* them before anything reads them; nothing reads taken.                   *)
MCView ==
  <<tree.bucket,
    [p \in held |-> <<tree.left[p], tree.right[p], tree.next[p], tree.util[p]>>]>>

(* No action distinguishes one page from another. *)
MCPages == Permutations(PageInfo)
=============================================================================
