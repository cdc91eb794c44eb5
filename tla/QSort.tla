------------------------------- MODULE QSort --------------------------------
(***************************************************************************)
(* The sort of addresses of src/runtime/support/qsort.h, on sequences.     *)
(***************************************************************************)
EXTENDS Integers, Functions

swap(arr, first, second) ==
  [arr EXCEPT ![first] = arr[second], ![second] = arr[first]]

(* An iteration of partition's loop: what is smaller than pi is moved up   *)
(* behind what is known to be smaller, which ends at b.i.                  *)
Step(b, j, pi) ==
  IF b.arr[j] < pi THEN [arr |-> swap(b.arr, b.i + 1, j), i |-> b.i + 1] ELSE b

(* The array in which what is smaller than arr[high] comes before it, and  *)
(* where arr[high] is then.                                                *)
partition(arr, low, high) ==
  LET upTo[j \in (low - 1)..(high - 1)] ==
        IF j < low THEN [arr |-> arr, i |-> low - 1]
        ELSE Step(upTo[j - 1], j, arr[high])
      end == upTo[high - 1]
  IN [arr |-> swap(end.arr, end.i + 1, high), pi |-> end.i + 1]

(* A call: an array with these elements, and the part of it to sort.       *)
Calls(arr, low, high) ==
  [arr : [DOMAIN arr -> Range(arr)], low : low..(high + 1), high : (low - 1)..high]

qsort(arr, low, high) ==
  LET sorted[c \in Calls(arr, low, high)] ==
        IF c.low < c.high
          THEN LET p     == partition(c.arr, c.low, c.high)
                   below == sorted[[arr |-> p.arr, low |-> c.low, high |-> p.pi - 1]]
               IN sorted[[arr |-> below, low |-> p.pi + 1, high |-> c.high]]
          ELSE c.arr
  IN sorted[[arr |-> arr, low |-> low, high |-> high]]
=============================================================================
