-------------------------- MODULE DecrementsProofs --------------------------
(***************************************************************************)
(* Proofs about module Decrements, for any finite set of addresses, heap,  *)
(* page table, budget and counter width.                                   *)
(*                                                                         *)
(* The properties are not inductive.  DecInvariant adds to them: the       *)
(* object being freed is an old one with a slot still to do; roots and     *)
(* pending objects are old, and old objects point to old ones; the root    *)
(* arrays rise, and what the merge has passed of roots is smaller than     *)
(* what is left of old_roots (RootLists, which needs that qsort sorts);    *)
(* a count is the number of the references left (Counts); an old object    *)
(* with none left is a root, an old root the merge has not come to, or     *)
(* waits to be freed (GarbageIsKnown).  NoFloatingGarbage follows from the *)
(* last of these by the acyclicity of the heap.                            *)
(*                                                                         *)
(* For programs that drop roots for good, LiveOnesStay adds that what a    *)
(* root leads to is never in pending_decs: not from the merge, which drops *)
(* no current root, and not from a count that reaches zero, since a live   *)
(* object that is no root has a reference left in another live object.     *)
(***************************************************************************)
EXTENDS Decrements, HeapProofs

-----------------------------------------------------------------------------
(***************************************************************************)
(* qsort of src/runtime/support/qsort.h sorts: for every array of          *)
(* integers, what it leaves in the part it is called on is in order and    *)
(* a rearrangement of what was there, and the rest is untouched.           *)
(*                                                                         *)
(* partition's loop and qsort's calls are recursive functions, so each is  *)
(* proved in two steps: a function with that recursion exists (each value  *)
(* needs the values of smaller parts only), and any such function does     *)
(* what is claimed.  Both are inductions over the length of the part.      *)
(***************************************************************************)

-----------------------------------------------------------------------------
(***************************************************************************)
(* Rearranging a part of an array.                                         *)
(***************************************************************************)

(* The permutations of D that leave everything outside low..high alone. *)
Permuting(D, low, high) ==
  {f \in [D -> D] : /\ \A i, j \in D : f[i] = f[j] => i = j
                    /\ \A j \in D : \E i \in D : f[i] = j
                    /\ \A i \in D : i \notin low..high => f[i] = i}

(* b is a with the elements from low to high in another order. *)
Rearranged(b, a, low, high, D) ==
  \E f \in Permuting(D, low, high) : \A i \in D : b[i] = a[f[i]]

(* An array is a rearrangement of itself. *)
LEMMA RearrangedItself ==
  ASSUME NEW D, NEW a, NEW low \in Int, NEW high \in Int
  PROVE  Rearranged(a, a, low, high, D)
<1> DEFINE f == [i \in D |-> i]
<1>1. f \in Permuting(D, low, high)
  BY DEF Permuting
<1>2. \A i \in D : a[i] = a[f[i]]
  OBVIOUS
<1> QED
  BY <1>1, <1>2, Zenon DEF Rearranged

(* b is a with the elements at m and n exchanged. *)
Swapped(b, a, m, n, low, high, D, R) ==
  /\ b \in [D -> R]
  /\ b[m] = a[n]
  /\ b[n] = a[m]
  /\ \A i \in D : i # m /\ i # n => b[i] = a[i]
  /\ Rearranged(b, a, low, high, D)

(* A swap of two elements of a part rearranges it. *)
LEMMA SwapRearranges ==
  ASSUME NEW D, NEW R, NEW a \in [D -> R], NEW low \in Int, NEW high \in Int,
         NEW m \in D, NEW n \in D, m \in low..high, n \in low..high
  PROVE  Swapped(swap(a, m, n), a, m, n, low, high, D, R)
<1> DEFINE f == [i \in D |-> IF i = m THEN n ELSE IF i = n THEN m ELSE i]
           b == swap(a, m, n)
<1>1. b = [i \in D |-> IF i = n THEN a[m] ELSE IF i = m THEN a[n] ELSE a[i]]
  BY DEF swap
<1> HIDE DEF b
<1>2. f \in [D -> D]
  OBVIOUS
<1>3. \A i, j \in D : f[i] = f[j] => i = j
  OBVIOUS
<1>4. \A j \in D : f[f[j]] = j
  OBVIOUS
<1>5. \A i \in D : i \notin low..high => f[i] = i
  OBVIOUS
<1>6. \A i \in D : b[i] = a[f[i]]
  BY <1>1
<1>7. f \in Permuting(D, low, high)
  <2> HIDE DEF f
  <2> QED
    BY <1>2, <1>3, <1>4, <1>5, Zenon DEF Permuting
<1>8. Rearranged(b, a, low, high, D)
  <2> HIDE DEF f
  <2> QED
    BY <1>6, <1>7, Zenon DEF Rearranged
<1>9. /\ b \in [D -> R] /\ b[m] = a[n] /\ b[n] = a[m]
      /\ \A i \in D : i # m /\ i # n => b[i] = a[i]
  BY <1>1
<1> QED
  BY <1>8, <1>9, Zenon DEF b, Swapped

(* A rearrangement of a rearrangement is one, of the wider part. *)
LEMMA RearrangedTwice ==
  ASSUME NEW D, NEW a, NEW b, NEW c,
         NEW low \in Int, NEW high \in Int, NEW l \in Int, NEW h \in Int,
         low <= l, h <= high,
         Rearranged(b, a, low, high, D), Rearranged(c, b, l, h, D)
  PROVE  Rearranged(c, a, low, high, D)
<1>1. PICK f \in Permuting(D, low, high) : \A i \in D : b[i] = a[f[i]]
  BY DEF Rearranged
<1>2. PICK g \in Permuting(D, l, h) : \A i \in D : c[i] = b[g[i]]
  BY DEF Rearranged
<1>3. /\ f \in [D -> D]
      /\ \A i, j \in D : f[i] = f[j] => i = j
      /\ \A j \in D : \E i \in D : f[i] = j
      /\ \A i \in D : i \notin low..high => f[i] = i
  BY Zenon DEF Permuting
<1>4. /\ g \in [D -> D]
      /\ \A i, j \in D : g[i] = g[j] => i = j
      /\ \A j \in D : \E i \in D : g[i] = j
      /\ \A i \in D : i \notin l..h => g[i] = i
  BY Zenon DEF Permuting
<1>5. \A i : i \notin low..high => i \notin l..h
  OBVIOUS
<1> DEFINE e == [i \in D |-> f[g[i]]]
<1>6. e \in [D -> D] /\ \A i \in D : e[i] = f[g[i]] /\ g[i] \in D
  BY <1>3, <1>4
<1> HIDE DEF e
<1>7. ASSUME NEW i \in D, NEW j \in D, e[i] = e[j] PROVE i = j
  <2>1. f[g[i]] = f[g[j]] /\ g[i] \in D /\ g[j] \in D
    BY <1>6, <1>7
  <2>2. g[i] = g[j]
    BY <2>1, <1>3
  <2> QED
    BY <2>2, <1>4
<1>8. ASSUME NEW j \in D PROVE \E i \in D : e[i] = j
  <2>1. PICK k \in D : f[k] = j
    BY <1>3
  <2>2. PICK i \in D : g[i] = k
    BY <1>4
  <2>3. e[i] = j
    BY <2>1, <2>2, <1>6
  <2> QED
    BY <2>3
<1>9. \A i \in D : i \notin low..high => e[i] = i
  BY <1>3, <1>4, <1>5, <1>6, Zenon
<1>10. \A i \in D : c[i] = a[e[i]]
  BY <1>1, <1>2, <1>6, Zenon
<1> QED
  BY <1>6, <1>7, <1>8, <1>9, <1>10, Zenon DEF Permuting, Rearranged

(* What a rearrangement of a part keeps: what is outside it, and, of every *)
(* element inside, that it was inside before.                              *)
LEMMA RearrangedPart ==
  ASSUME NEW D, NEW a, NEW b, NEW low \in Int, NEW high \in Int,
         Rearranged(b, a, low, high, D)
  PROVE  /\ \A i \in D : i \notin low..high => b[i] = a[i]
         /\ \A i \in D : i \in low..high =>
              \E k \in D : k \in low..high /\ b[i] = a[k]
<1>1. PICK f \in Permuting(D, low, high) : \A i \in D : b[i] = a[f[i]]
  BY DEF Rearranged
<1>2. /\ f \in [D -> D]
      /\ \A i, j \in D : f[i] = f[j] => i = j
      /\ \A i \in D : i \notin low..high => f[i] = i
  BY Zenon DEF Permuting
<1>3. \A i \in D : i \in low..high => f[i] \in low..high
  BY <1>2, Zenon
<1> QED
  BY <1>1, <1>2, <1>3, Zenon

-----------------------------------------------------------------------------
(***************************************************************************)
(* partition: its loop, one iteration after the other.                     *)
(***************************************************************************)

(* What the loop has after the iteration for j, from what it had before.   *)
Iteration(upTo, j, arr, low, high) ==
  IF j < low THEN [arr |-> arr, i |-> low - 1] ELSE Step(upTo[j - 1], j, arr[high])

(* The values of the loop up to the iteration for last. *)
IsLoop(g, last, arr, low, high) ==
  g = [j \in (low - 1)..last |-> Iteration(g, j, arr, low, high)]

(* The iterations can be carried out up to any point. *)
LEMMA IterationsExist ==
  ASSUME NEW a, NEW low \in Int, NEW high
  PROVE  \A n \in Nat : \E g : IsLoop(g, low - 1 + n, a, low, high)
<1> DEFINE I(n) == (low - 1)..(low - 1 + n)
           IsUpTo(g, n) == g = [j \in I(n) |-> Iteration(g, j, a, low, high)]
           T == {n \in Nat : \E g : IsUpTo(g, n)}
<1>1. 0 \in T
  <2> DEFINE g == [j \in I(0) |-> [arr |-> a, i |-> low - 1]]
  <2>1. \A j \in I(0) : j < low
    OBVIOUS
  <2>2. \A j \in I(0) : Iteration(g, j, a, low, high) = [arr |-> a, i |-> low - 1]
    BY <2>1, Zenon DEF Iteration
  <2>3. IsUpTo(g, 0)
    <3> HIDE DEF I
    <3> QED
      BY <2>2, Zenon
  <2> QED
    BY <2>3
<1>2. ASSUME NEW n \in Nat, n \in T PROVE n + 1 \in T
  <2>1. PICK g : IsUpTo(g, n)
    BY <1>2
  <2> DEFINE e == [j \in I(n + 1) |->
                     IF j \in I(n) THEN g[j] ELSE Step(g[j - 1], j, a[high])]
  <2>2. \A j \in I(n) : j \in I(n + 1)
    OBVIOUS
  <2>3. \A j \in I(n + 1) : ~(j < low) => j - 1 \in I(n)
    OBVIOUS
  <2>4. \A j \in I(n + 1) : j \notin I(n) => ~(j < low)
    OBVIOUS
  <2>5. \A j \in I(n) : g[j] = Iteration(g, j, a, low, high)
    <3> HIDE DEF I
    <3> QED
      BY <2>1, Zenon
  <2>6. \A j \in I(n) : e[j] = g[j]
    <3> HIDE DEF I
    <3> QED
      BY <2>2, Zenon
  <2>7. ASSUME NEW j \in I(n + 1)
        PROVE  e[j] = Iteration(e, j, a, low, high)
    <3>1. CASE j < low
      <4>1. j \in I(n) /\ e[j] = g[j]
        BY <3>1, <2>4, <2>6, Zenon
      <4> QED
        BY <4>1, <3>1, <2>5, Zenon DEF Iteration
    <3>2. CASE ~(j < low)
      <4>1. e[j - 1] = g[j - 1]
        BY <3>2, <2>3, <2>6, Zenon
      <4>2. Iteration(e, j, a, low, high) = Step(g[j - 1], j, a[high])
        BY <3>2, <4>1, Zenon DEF Iteration
      <4>3. j \in I(n) => e[j] = Step(g[j - 1], j, a[high])
        BY <3>2, <2>5, <2>6, Zenon DEF Iteration
      <4>4. j \notin I(n) => e[j] = Step(g[j - 1], j, a[high])
        <5> HIDE DEF I
        <5> QED
          BY Zenon
      <4> QED
        BY <4>2, <4>3, <4>4
    <3> QED
      BY <3>1, <3>2
  <2>8. IsUpTo(e, n + 1)
    <3>1. e = [j \in I(n + 1) |-> e[j]]
      <4> HIDE DEF I
      <4> QED
        BY Zenon
    <3> HIDE DEF e, I
    <3> QED
      BY <3>1, <2>7, Zenon
  <2>9. n + 1 \in Nat
    OBVIOUS
  <2> HIDE DEF e, I, IsUpTo
  <2> QED
    BY <2>8, <2>9, Zenon
<1>3. \A n \in Nat : n \in T
  <2> HIDE DEF T
  <2> QED
    BY <1>1, <1>2, SetInduction, Zenon
<1> QED
  BY <1>3, Zenon DEF IsLoop

(* What the loop has found after the iteration for j.                      *)
Parted(b, j, arr, low, high, D, R) ==
  /\ b.arr \in [D -> R]
  /\ b.i \in (low - 1)..j
  /\ Rearranged(b.arr, arr, low, high, D)
  /\ b.arr[high] = arr[high]
  /\ \A k \in low..b.i : b.arr[k] < arr[high]
  /\ \A k \in (b.i + 1)..j : ~(b.arr[k] < arr[high])

(* An iteration keeps what is smaller in front of what is not. *)
LEMMA StepParts ==
  ASSUME NEW D \in SUBSET Int, NEW R \in SUBSET Int, NEW a \in [D -> R],
         NEW low \in Int, NEW high \in Int, low < high, low..high \subseteq D,
         NEW j \in low..(high - 1), NEW b, Parted(b, j - 1, a, low, high, D, R)
  PROVE  Parted(Step(b, j, a[high]), j, a, low, high, D, R)
<1> DEFINE pi == a[high]
<1>1. /\ b.arr \in [D -> R]
      /\ b.i \in (low - 1)..(j - 1)
      /\ Rearranged(b.arr, a, low, high, D)
      /\ b.arr[high] = pi
      /\ \A k \in low..b.i : b.arr[k] < pi
      /\ \A k \in (b.i + 1)..(j - 1) : ~(b.arr[k] < pi)
  BY Zenon DEF Parted
<1> PICK c, m : c = b.arr /\ m = b.i
  OBVIOUS
<1>2. /\ c \in [D -> R] /\ m \in (low - 1)..(j - 1)
      /\ Rearranged(c, a, low, high, D) /\ c[high] = pi
      /\ \A k \in low..m : c[k] < pi
      /\ \A k \in (m + 1)..(j - 1) : ~(c[k] < pi)
  BY <1>1
<1> HIDE DEF pi
<1>3. CASE ~(c[j] < pi)
  <2>1. Step(b, j, pi) = b
    BY <1>3 DEF Step
  <2>2. m \in (low - 1)..j
    BY <1>2
  <2>3. \A k \in (m + 1)..j : ~(c[k] < pi)
    BY <1>2, <1>3
  <2> QED
    BY <1>2, <2>1, <2>2, <2>3, Zenon DEF Parted, pi
<1>4. CASE c[j] < pi
  <2> PICK n \in Int : n = m + 1
    BY <1>2
  <2>1. n \in low..j /\ n \in D /\ j \in D /\ high \in D /\ n \in low..high /\ j \in low..high
    BY <1>2
  <2> DEFINE d == swap(c, n, j)
  <2>2. /\ d \in [D -> R]
        /\ d[n] = c[j]
        /\ d[j] = c[n]
        /\ \A i \in D : i # n /\ i # j => d[i] = c[i]
        /\ Rearranged(d, c, low, high, D)
    <3>1. Swapped(d, c, n, j, low, high, D, R)
      BY <1>2, <2>1, SwapRearranges, Zenon
    <3> HIDE DEF d
    <3> QED
      BY <3>1, Zenon DEF Swapped
  <2> HIDE DEF d
  <2>3. Step(b, j, pi) = [arr |-> d, i |-> n]
    BY <1>4, Zenon DEF Step, d
  <2>4. Rearranged(d, a, low, high, D)
    <3>1. low <= low /\ high <= high
      OBVIOUS
    <3> QED
      BY <1>2, <2>2, <3>1, RearrangedTwice, Zenon
  <2>5. d[high] = pi
    <3>1. high # j /\ high # n
      BY <2>1
    <3> QED
      BY <1>2, <2>1, <2>2, <3>1
  <2>6. ASSUME NEW k \in low..n PROVE d[k] < pi
    <3>1. CASE k = n
      BY <3>1, <1>4, <2>2
    <3>2. CASE k # n
      <4>1. k \in low..m /\ k # j /\ k \in D
        BY <3>2, <1>2, <2>1
      <4> QED
        BY <4>1, <3>2, <1>2, <2>2
    <3> QED
      BY <3>1, <3>2
  <2>7. ASSUME NEW k \in (n + 1)..j PROVE ~(d[k] < pi)
    <3>1. CASE k = j
      <4>1. n \in (m + 1)..(j - 1)
        BY <3>1, <1>2, <2>1
      <4> QED
        BY <4>1, <3>1, <1>2, <2>2
    <3>2. CASE k # j
      <4>1. k \in (m + 1)..(j - 1) /\ k # n /\ k \in D
        BY <3>2, <1>2, <2>1
      <4> QED
        BY <4>1, <3>2, <1>2, <2>2
    <3> QED
      BY <3>1, <3>2
  <2>8. n \in (low - 1)..j
    BY <2>1
  <2> QED
    BY <2>2, <2>3, <2>4, <2>5, <2>6, <2>7, <2>8 DEF Parted, pi
<1> QED
  BY <1>3, <1>4 DEF pi

(* What partition returns: the pivot's place, with what is smaller before  *)
(* it and what is not behind it.                                           *)
Partitioned(p, arr, low, high, D, R) ==
  /\ p.arr \in [D -> R]
  /\ p.pi \in low..high
  /\ Rearranged(p.arr, arr, low, high, D)
  /\ \A k \in low..(p.pi - 1) : p.arr[k] < p.arr[p.pi]
  /\ \A k \in (p.pi + 1)..high : p.arr[p.pi] <= p.arr[k]

(* partition's loop and the swap after it. *)
LEMMA PartitionParts ==
  ASSUME NEW D \in SUBSET Int, NEW R \in SUBSET Int, NEW a \in [D -> R],
         NEW low \in Int, NEW high \in Int, low < high, low..high \subseteq D
  PROVE  Partitioned(partition(a, low, high), a, low, high, D, R)
<1> DEFINE u == CHOOSE g : g = [j \in (low - 1)..(high - 1) |->
                                  IF j < low THEN [arr |-> a, i |-> low - 1]
                                  ELSE Step(g[j - 1], j, a[high])]
           end == u[high - 1]
<1>1. u = [j \in (low - 1)..(high - 1) |-> Iteration(u, j, a, low, high)]
  <2>1. PICK n \in Nat : n = high - low
    OBVIOUS
  <2>2. low - 1 + n = high - 1
    BY <2>1
  <2>3. \E g : IsLoop(g, low - 1 + n, a, low, high)
    BY IterationsExist, Zenon
  <2>4. PICK g : g = [j \in (low - 1)..(high - 1) |-> Iteration(g, j, a, low, high)]
    BY <2>2, <2>3, Zenon DEF IsLoop
  <2> QED
    BY <2>4, Zenon DEF Iteration
<1>2. partition(a, low, high) =
        [arr |-> swap(end.arr, end.i + 1, high), pi |-> end.i + 1]
  BY Zenon DEF partition
<1> HIDE DEF u
<1>3. \A j \in (low - 1)..(high - 1) : u[j] = Iteration(u, j, a, low, high)
  BY <1>1, Zenon
<1> DEFINE T == {n \in Nat : n <= high - low =>
                     Parted(u[low - 1 + n], low - 1 + n, a, low, high, D, R)}
<1>4. 0 \in T
  <2>1. PICK x \in Int : x = low - 1
    OBVIOUS
  <2>2. x \in (low - 1)..(high - 1) /\ x < low /\ low - 1 + 0 = x
    BY <2>1
  <2>3. u[x] = [arr |-> a, i |-> x]
    BY <1>3, <2>1, <2>2, Zenon DEF Iteration
  <2>4. Rearranged(a, a, low, high, D)
    BY RearrangedItself, Zenon
  <2>5. Parted([arr |-> a, i |-> x], x, a, low, high, D, R)
    BY <2>1, <2>4 DEF Parted
  <2> QED
    BY <2>2, <2>3, <2>5
<1>5. ASSUME NEW n \in Nat, n \in T PROVE n + 1 \in T
  <2> SUFFICES ASSUME n + 1 <= high - low
               PROVE  Parted(u[low - 1 + (n + 1)], low - 1 + (n + 1), a, low, high, D, R)
    OBVIOUS
  <2>1. PICK j \in Int : j = low - 1 + (n + 1)
    OBVIOUS
  <2>2. /\ j \in low..(high - 1) /\ j \in (low - 1)..(high - 1) /\ ~(j < low)
        /\ j - 1 = low - 1 + n /\ n <= high - low
    BY <2>1
  <2>3. Parted(u[j - 1], j - 1, a, low, high, D, R)
    BY <1>5, <2>2
  <2>4. u[j] = Step(u[j - 1], j, a[high])
    BY <1>3, <2>2, Zenon DEF Iteration
  <2>5. Parted(u[j], j, a, low, high, D, R)
    BY <2>2, <2>3, <2>4, StepParts, Zenon
  <2> QED
    BY <2>1, <2>5
<1>6. Parted(end, high - 1, a, low, high, D, R)
  <2>1. \A n \in Nat : n \in T
    <3> HIDE DEF T
    <3> QED
      BY <1>4, <1>5, SetInduction, Zenon
  <2>2. PICK n \in Nat : n = high - low
    OBVIOUS
  <2>3. n <= high - low /\ low - 1 + n = high - 1
    BY <2>2
  <2> QED
    BY <2>1, <2>3
<1> HIDE DEF end
<1> PICK c, m : c = end.arr /\ m = end.i
  OBVIOUS
<1>7. /\ c \in [D -> R] /\ m \in (low - 1)..(high - 1)
      /\ Rearranged(c, a, low, high, D) /\ c[high] = a[high]
      /\ \A k \in low..m : c[k] < a[high]
      /\ \A k \in (m + 1)..(high - 1) : ~(c[k] < a[high])
  BY <1>6 DEF Parted
<1> PICK n \in Int : n = m + 1
  BY <1>7
<1>8. n \in low..high /\ n \in D /\ high \in D /\ high \in low..high
  BY <1>7
<1> DEFINE d == swap(c, n, high)
<1>9. /\ d \in [D -> R]
      /\ d[n] = c[high]
      /\ d[high] = c[n]
      /\ \A i \in D : i # n /\ i # high => d[i] = c[i]
      /\ Rearranged(d, c, low, high, D)
  <2>1. Swapped(d, c, n, high, low, high, D, R)
    BY <1>7, <1>8, SwapRearranges, Zenon
  <2> HIDE DEF d
  <2> QED
    BY <2>1, Zenon DEF Swapped
<1> HIDE DEF d
<1>10. Rearranged(d, a, low, high, D)
  <2>1. low <= low /\ high <= high
    OBVIOUS
  <2> QED
    BY <1>7, <1>9, <2>1, RearrangedTwice, Zenon
<1>11. ASSUME NEW k \in low..(n - 1) PROVE d[k] < d[n]
  <2>1. k \in low..m /\ k \in D /\ k # n /\ k # high
    BY <1>7, <1>8
  <2> QED
    BY <2>1, <1>7, <1>9
<1>12. ASSUME NEW k \in (n + 1)..high PROVE d[n] <= d[k]
  <2>1. k \in D /\ k # n /\ d[n] = a[high]
    BY <1>7, <1>8, <1>9
  <2>4. d[n] \in Int /\ d[k] \in Int
    BY <1>8, <1>9, <2>1
  <2>2. CASE k = high
    <3>1. n \in (m + 1)..(high - 1)
      BY <2>2, <1>8
    <3>2. ~(c[n] < a[high])
      BY <3>1, <1>7
    <3> QED
      BY <3>2, <2>1, <2>2, <2>4, <1>9
  <2>3. CASE k # high
    <3>1. k \in (m + 1)..(high - 1)
      BY <2>3, <1>8
    <3>2. ~(c[k] < a[high])
      BY <3>1, <1>7
    <3> QED
      BY <3>2, <2>1, <2>3, <2>4, <1>9
  <2> QED
    BY <2>2, <2>3
<1>13. partition(a, low, high) = [arr |-> d, pi |-> n]
  BY <1>2, Zenon DEF d
<1> QED
  BY <1>8, <1>9, <1>10, <1>11, <1>12, <1>13 DEF Partitioned

-----------------------------------------------------------------------------
(***************************************************************************)
(* qsort: its calls, those for short parts first.                          *)
(***************************************************************************)

(* What a call returns, from what the calls it makes return. *)
CallBelow(c, p) == [arr |-> p.arr, low |-> c.low, high |-> p.pi - 1]
CallAbove(g, c, p) ==
  [arr |-> g[CallBelow(c, p)], low |-> p.pi + 1, high |-> c.high]
Returned(g, c) ==
  IF c.low < c.high THEN g[CallAbove(g, c, partition(c.arr, c.low, c.high))] ELSE c.arr

(* The calls for parts of up to n elements. *)
ShortCalls(n, arr, low, high) == {c \in Calls(arr, low, high) : c.high - c.low < n}

(* What a call promises: it sorts its part and touches nothing else.       *)
SortsPart(b, c, D, R) ==
  /\ b \in [D -> R]
  /\ Rearranged(b, c.arr, c.low, c.high, D)
  /\ \A i, j \in c.low..c.high : i <= j => b[i] <= b[j]

(* If the calls for shorter parts sort, so does the call.                  *)
LEMMA CallSorts ==
  ASSUME NEW D \in SUBSET Int, NEW R \in SUBSET Int, NEW arr, D = DOMAIN arr, R = Range(arr),
         NEW low \in Int, NEW high \in Int, low..high \subseteq D,
         NEW n \in Nat, NEW g,
         \A c \in ShortCalls(n, arr, low, high) : SortsPart(g[c], c, D, R),
         NEW c \in ShortCalls(n + 1, arr, low, high)
  PROVE  LET p == partition(c.arr, c.low, c.high) IN
         /\ c.low < c.high => /\ CallBelow(c, p) \in ShortCalls(n, arr, low, high)
                              /\ CallAbove(g, c, p) \in ShortCalls(n, arr, low, high)
         /\ SortsPart(Returned(g, c), c, D, R)
<1> PICK a, l, h : a = c.arr /\ l = c.low /\ h = c.high
  OBVIOUS
<1>1. /\ a \in [D -> R] /\ l \in low..(high + 1) /\ h \in (low - 1)..high
      /\ h - l < n + 1
  BY DEF ShortCalls, Calls
<1>2. CASE ~(l < h)
  <2>1. Returned(g, c) = a
    BY <1>2, Zenon DEF Returned
  <2>2. Rearranged(a, a, l, h, D)
    BY <1>1, RearrangedItself
  <2>3. ASSUME NEW i \in l..h, NEW j \in l..h, i <= j PROVE a[i] <= a[j]
    <3>1. i = j /\ i \in D
      BY <1>1, <1>2
    <3>2. a[i] \in Int
      BY <3>1, <1>1
    <3> QED
      BY <3>1, <3>2
  <2> QED
    BY <1>1, <1>2, <2>1, <2>2, <2>3, Zenon DEF SortsPart
<1>3. CASE l < h
  <2> DEFINE p == partition(a, l, h)
  <2>1. l \in Int /\ h \in Int /\ l..h \subseteq D
    BY <1>1
  <2>2. Partitioned(p, a, l, h, D, R)
    BY <1>1, <1>3, <2>1, PartitionParts, Zenon
  <2> HIDE DEF p
  <2> PICK q, m : q = p.arr /\ m = p.pi
    OBVIOUS
  <2>3. /\ q \in [D -> R] /\ m \in l..h
        /\ Rearranged(q, a, l, h, D)
        /\ \A k \in l..(m - 1) : q[k] < q[m]
        /\ \A k \in (m + 1)..h : q[m] <= q[k]
    BY <2>2, Zenon DEF Partitioned
  <2> DEFINE c1 == [arr |-> q, low |-> l, high |-> m - 1]
  <2>4. CallBelow(c, p) = c1
    BY Zenon DEF CallBelow
  <2>5. c1 \in ShortCalls(n, arr, low, high)
    <3>1. m - 1 \in (low - 1)..high /\ (m - 1) - l < n
      BY <1>1, <2>1, <2>3
    <3> QED
      BY <1>1, <2>3, <3>1 DEF ShortCalls, Calls
  <2> PICK b : b = g[c1]
    OBVIOUS
  <2>6. /\ b \in [D -> R]
        /\ Rearranged(b, q, l, m - 1, D)
        /\ \A i, j \in l..(m - 1) : i <= j => b[i] <= b[j]
    <3>1. SortsPart(g[c1], c1, D, R)
      BY <2>5
    <3> QED
      BY <3>1 DEF SortsPart
  <2> DEFINE c2 == [arr |-> b, low |-> m + 1, high |-> h]
  <2>7. CallAbove(g, c, p) = c2
    <3> HIDE DEF c1
    <3> QED
      BY <2>4, Zenon DEF CallAbove
  <2>8. c2 \in ShortCalls(n, arr, low, high)
    <3>1. m + 1 \in low..(high + 1) /\ h - (m + 1) < n
      BY <1>1, <2>1, <2>3
    <3> QED
      BY <1>1, <2>6, <3>1 DEF ShortCalls, Calls
  <2> PICK r : r = g[c2]
    OBVIOUS
  <2>9. /\ r \in [D -> R]
        /\ Rearranged(r, b, m + 1, h, D)
        /\ \A i, j \in (m + 1)..h : i <= j => r[i] <= r[j]
    <3>1. SortsPart(g[c2], c2, D, R)
      BY <2>8
    <3> QED
      BY <3>1 DEF SortsPart
  <2>10. Returned(g, c) = r
    <3> HIDE DEF c2
    <3> QED
      BY <1>3, <2>7, Zenon DEF Returned, p
  <2>11. Rearranged(r, a, l, h, D)
    <3>1. /\ l <= l /\ m - 1 <= h /\ m - 1 \in Int
          /\ l <= m + 1 /\ h <= h /\ m + 1 \in Int
      BY <2>1, <2>3
    <3>2. Rearranged(b, a, l, h, D)
      BY <2>1, <2>3, <2>6, <3>1, RearrangedTwice
    <3> QED
      BY <2>1, <2>9, <3>1, <3>2, RearrangedTwice
  <2>12. /\ \A i \in D : i \notin l..(m - 1) => b[i] = q[i]
         /\ \A i \in D : i \in l..(m - 1) => \E k \in D : k \in l..(m - 1) /\ b[i] = q[k]
    <3>1. m - 1 \in Int
      BY <2>1, <2>3
    <3> QED
      BY <2>1, <2>6, <3>1, RearrangedPart
  <2>13. /\ \A i \in D : i \notin (m + 1)..h => r[i] = b[i]
         /\ \A i \in D : i \in (m + 1)..h => \E k \in D : k \in (m + 1)..h /\ r[i] = b[k]
    <3>1. m + 1 \in Int
      BY <2>1, <2>3
    <3> QED
      BY <2>1, <2>9, <3>1, RearrangedPart
  <2>14. m \in D /\ r[m] = q[m] /\ m \in Int /\ q[m] \in Int
    <3>1. m \in D /\ m \in Int /\ m \notin l..(m - 1) /\ m \notin (m + 1)..h
      BY <2>1, <2>3
    <3> QED
      BY <3>1, <2>3, <2>12, <2>13
  <2>15. ASSUME NEW i \in l..(m - 1) PROVE r[i] = b[i] /\ r[i] < q[m] /\ r[i] \in Int
    <3>1. i \in D /\ i \notin (m + 1)..h
      BY <2>1, <2>3
    <3>2. PICK k \in D : k \in l..(m - 1) /\ b[i] = q[k]
      BY <2>12, <3>1
    <3>3. q[k] < q[m] /\ q[k] \in Int
      BY <2>3, <3>2
    <3> QED
      BY <2>13, <3>1, <3>2, <3>3
  <2>16. ASSUME NEW i \in (m + 1)..h PROVE q[m] <= r[i] /\ r[i] \in Int
    <3>1. i \in D
      BY <2>1, <2>3
    <3>2. PICK k \in D : k \in (m + 1)..h /\ r[i] = b[k]
      BY <2>13, <3>1
    <3>3. k \notin l..(m - 1)
      BY <2>1, <2>3, <3>2
    <3>4. b[k] = q[k] /\ q[m] <= q[k] /\ q[k] \in Int
      BY <2>3, <2>12, <3>2, <3>3
    <3> QED
      BY <3>2, <3>4
  <2>17. ASSUME NEW i \in l..h, NEW j \in l..h, i <= j PROVE r[i] <= r[j]
    <3>1. \A k \in l..h : k \in l..(m - 1) \/ k = m \/ k \in (m + 1)..h
      BY <2>1, <2>3
    <3>2. CASE i \in l..(m - 1) /\ j \in l..(m - 1)
      BY <3>2, <2>6, <2>15, <2>17
    <3>3. CASE i \in l..(m - 1) /\ (j = m \/ j \in (m + 1)..h)
      BY <3>3, <2>14, <2>15, <2>16
    <3>4. CASE i = m /\ (j = m \/ j \in (m + 1)..h)
      BY <3>4, <2>14, <2>16
    <3>5. CASE i \in (m + 1)..h /\ j \in (m + 1)..h
      BY <3>5, <2>9, <2>17
    <3>6. i = m => ~(j \in l..(m - 1))
      BY <2>1, <2>3, <2>17
    <3>7. i \in (m + 1)..h => j \in (m + 1)..h
      BY <2>1, <2>3, <2>17
    <3> QED
      BY <3>1, <3>2, <3>3, <3>4, <3>5, <3>6, <3>7
  <2>18. SortsPart(r, c, D, R)
    BY <2>9, <2>11, <2>17, Zenon DEF SortsPart
  <2> HIDE DEF c1, c2
  <2> QED
    BY <2>4, <2>5, <2>7, <2>8, <2>10, <2>18, Zenon DEF p
<1> QED
  BY <1>2, <1>3

(* g is what the calls in C return. *)
Answers(g, C) == \A c \in C : g[c] = Returned(g, c)

AnswersUpTo(g, n, arr, low, high) ==
  /\ Answers(g, ShortCalls(n, arr, low, high))
  /\ \A c \in ShortCalls(n, arr, low, high) :
       SortsPart(g[c], c, DOMAIN arr, Range(arr))

(* A call for an empty part returns its array.                             *)
LEMMA CallsBelowZero ==
  ASSUME NEW arr, DOMAIN arr \in SUBSET Int, Range(arr) \in SUBSET Int,
         NEW low \in Int, NEW high \in Int,
         NEW c \in ShortCalls(0, arr, low, high), NEW g
  PROVE  /\ Returned(g, c) = c.arr
         /\ SortsPart(c.arr, c, DOMAIN arr, Range(arr))
         /\ SortsPart(Returned(g, c), c, DOMAIN arr, Range(arr))
<1>1. /\ c.low \in Int /\ c.high \in Int /\ c.high < c.low
      /\ c.arr \in [DOMAIN arr -> Range(arr)]
  BY DEF ShortCalls, Calls
<1>2. ~(c.low < c.high) /\ ~ \E i : i \in c.low..c.high
  BY <1>1
<1>3. Rearranged(c.arr, c.arr, c.low, c.high, DOMAIN arr)
  BY <1>1, RearrangedItself
<1> QED
  BY <1>1, <1>2, <1>3, Zenon DEF Returned, SortsPart

(* The calls for parts of any length can be carried out, and they sort. *)
LEMMA CallsExist ==
  ASSUME NEW arr, DOMAIN arr \in SUBSET Int, Range(arr) \in SUBSET Int,
         NEW low \in Int, NEW high \in Int, low..high \subseteq DOMAIN arr
  PROVE  \A n \in Nat : \E g : AnswersUpTo(g, n, arr, low, high)
<1> DEFINE D == DOMAIN arr
           R == Range(arr)
           C(n) == ShortCalls(n, arr, low, high)
           T == {n \in Nat : \E g : AnswersUpTo(g, n, arr, low, high)}
<1>1. 0 \in T
  <2> DEFINE g == [c \in C(0) |-> c.arr]
  <2>1. ASSUME NEW c \in C(0)
        PROVE  g[c] = Returned(g, c) /\ SortsPart(g[c], c, D, R)
    <3>1. g[c] = c.arr
      OBVIOUS
    <3> HIDE DEF g
    <3> QED
      BY <3>1, CallsBelowZero, Zenon
  <2> HIDE DEF g
  <2>2. AnswersUpTo(g, 0, arr, low, high)
    BY <2>1, Zenon DEF AnswersUpTo, Answers
  <2> QED
    BY <2>2
<1>2. ASSUME NEW n \in Nat, n \in T PROVE n + 1 \in T
  <2>1. PICK g : AnswersUpTo(g, n, arr, low, high)
    BY <1>2
  <2>2. /\ \A c \in C(n) : g[c] = Returned(g, c)
        /\ \A c \in C(n) : SortsPart(g[c], c, D, R)
    BY <2>1, Zenon DEF AnswersUpTo, Answers
  <2> DEFINE e == [c \in C(n + 1) |-> Returned(g, c)]
  <2>3. \A c \in C(n) : c \in C(n + 1)
    BY DEF ShortCalls, Calls
  <2>4. \A c \in C(n + 1) : e[c] = Returned(g, c)
    BY Zenon
  <2> HIDE DEF e
  <2>5. \A c \in C(n) : e[c] = g[c]
    BY <2>2, <2>3, <2>4, Zenon
  <2>6. ASSUME NEW c \in C(n + 1)
        PROVE  e[c] = Returned(e, c) /\ SortsPart(e[c], c, D, R)
    <3> DEFINE p == partition(c.arr, c.low, c.high)
    <3>1. /\ c.low < c.high => CallBelow(c, p) \in C(n) /\ CallAbove(g, c, p) \in C(n)
          /\ SortsPart(Returned(g, c), c, D, R)
      BY <2>2, CallSorts, Zenon
    <3>2. Returned(e, c) = Returned(g, c)
      <4>1. CASE c.low < c.high
        <5>1. CallAbove(e, c, p) = CallAbove(g, c, p)
          BY <3>1, <4>1, <2>5, Zenon DEF CallAbove
        <5> QED
          BY <3>1, <4>1, <5>1, <2>5, Zenon DEF Returned
      <4>2. CASE ~(c.low < c.high)
        BY <4>2, Zenon DEF Returned
      <4> QED
        BY <4>1, <4>2
    <3> QED
      BY <2>4, <3>1, <3>2, Zenon
  <2>7. AnswersUpTo(e, n + 1, arr, low, high)
    BY <2>6, Zenon DEF AnswersUpTo, Answers
  <2>8. n + 1 \in Nat
    OBVIOUS
  <2> QED
    BY <2>7, <2>8, Zenon
<1>3. \A n \in Nat : n \in T
  <2> HIDE DEF T
  <2> QED
    BY <1>1, <1>2, SetInduction, Zenon
<1> QED
  BY <1>3, Zenon

(* A call sorts the part it is made on.  Whatever the calls return that    *)
(* qsort is defined by, it obeys the recursion, as one thing that does     *)
(* exists; the rest is the induction over the length.                      *)
LEMMA CallsSort ==
  ASSUME NEW arr, arr \in [DOMAIN arr -> Range(arr)],
         DOMAIN arr \in SUBSET Int, Range(arr) \in SUBSET Int,
         NEW low \in Int, NEW high \in Int, low..high \subseteq DOMAIN arr, low <= high + 1
  PROVE  SortsPart(qsort(arr, low, high), [arr |-> arr, low |-> low, high |-> high],
                   DOMAIN arr, Range(arr))
<1> DEFINE D == DOMAIN arr
           R == Range(arr)
           C == Calls(arr, low, high)
           f == CHOOSE g : g = [c \in C |->
                  IF c.low < c.high
                  THEN LET p     == partition(c.arr, c.low, c.high)
                           below == g[[arr |-> p.arr, low |-> c.low, high |-> p.pi - 1]]
                       IN g[[arr |-> below, low |-> p.pi + 1, high |-> c.high]]
                  ELSE c.arr]
           first == [arr |-> arr, low |-> low, high |-> high]
<1>1. PICK n \in Nat : n > high - low
  <2>1. (IF high < low THEN 0 ELSE high - low + 1) \in Nat
    OBVIOUS
  <2> QED
    BY <2>1
<1>2. ShortCalls(n, arr, low, high) = C /\ ShortCalls(n + 1, arr, low, high) = C
  <2>1. ASSUME NEW c \in C PROVE c.high - c.low < n /\ c.high - c.low < n + 1
    <3>1. c.low \in low..(high + 1) /\ c.high \in (low - 1)..high
      BY DEF Calls
    <3> QED
      BY <3>1, <1>1
  <2> HIDE DEF C
  <2> QED
    BY <2>1 DEF ShortCalls, C
<1>3. f = [c \in C |-> Returned(f, c)]
  <2>1. PICK g : AnswersUpTo(g, n, arr, low, high)
    BY CallsExist, Zenon
  <2>2. /\ \A c \in C : g[c] = Returned(g, c)
        /\ \A c \in ShortCalls(n, arr, low, high) : SortsPart(g[c], c, D, R)
    BY <1>2, <2>1, Zenon DEF AnswersUpTo, Answers
  <2> DEFINE e == [c \in C |-> g[c]]
  <2>3. \A c \in C : e[c] = g[c]
    BY Zenon
  <2> HIDE DEF e
  <2>4. ASSUME NEW c \in C PROVE Returned(e, c) = Returned(g, c)
    <3> DEFINE p == partition(c.arr, c.low, c.high)
    <3>1. CASE c.low < c.high
      <4>3. c \in ShortCalls(n + 1, arr, low, high)
        BY <1>2
      <4>4. /\ CallBelow(c, p) \in ShortCalls(n, arr, low, high)
            /\ CallAbove(g, c, p) \in ShortCalls(n, arr, low, high)
        BY <2>2, <3>1, <4>3, CallSorts, Zenon
      <4>1. CallBelow(c, p) \in C /\ CallAbove(g, c, p) \in C
        BY <1>2, <4>4
      <4>2. CallAbove(e, c, p) = CallAbove(g, c, p)
        BY <4>1, <2>3, Zenon DEF CallAbove
      <4> QED
        BY <3>1, <4>1, <4>2, <2>3, Zenon DEF Returned
    <3>2. CASE ~(c.low < c.high)
      BY <3>2, Zenon DEF Returned
    <3> QED
      BY <3>1, <3>2
  <2>5. \A c \in C : e[c] = Returned(e, c)
    BY <2>2, <2>3, <2>4, Zenon
  <2>6. e = [c \in C |-> e[c]]
    BY Zenon DEF e
  <2>7. e = [c \in C |-> Returned(e, c)]
    BY <2>5, <2>6, Zenon
  <2> QED
    BY <2>7, Zenon DEF Returned, CallAbove, CallBelow
<1>4. qsort(arr, low, high) = f[first]
  BY Zenon DEF qsort
<1> HIDE DEF f
<1>5. \A c \in C : f[c] = Returned(f, c)
  BY <1>3, Zenon
<1> DEFINE T == {m \in Nat : \A c \in ShortCalls(m, arr, low, high) :
                                SortsPart(f[c], c, D, R)}
<1>6. \A m \in Nat : \A c \in ShortCalls(m, arr, low, high) : c \in C
  BY DEF ShortCalls
<1>7. 0 \in T
  BY <1>5, <1>6, CallsBelowZero, Zenon
<1>8. ASSUME NEW m \in Nat, m \in T PROVE m + 1 \in T
  <2>1. ASSUME NEW c \in ShortCalls(m + 1, arr, low, high)
        PROVE  SortsPart(f[c], c, D, R)
    <3>1. SortsPart(Returned(f, c), c, D, R)
      BY <1>8, CallSorts, Zenon
    <3>2. c \in C
      BY DEF ShortCalls
    <3> QED
      BY <1>5, <3>1, <3>2, Zenon
  <2>2. m + 1 \in Nat
    OBVIOUS
  <2> QED
    BY <2>1, <2>2, Zenon
<1>9. n \in T
  <2> HIDE DEF T
  <2>1. \A m \in Nat : m \in T
    BY <1>7, <1>8, SetInduction, Zenon
  <2> QED
    BY <2>1
<1>10. first \in C
  BY DEF Calls
<1> HIDE DEF first
<1> QED
  BY <1>2, <1>4, <1>9, <1>10, Zenon DEF first

(***************************************************************************)
(* qsort sorts: for every sequence of integers the result is in order and  *)
(* a rearrangement of it (qsort.h:32).                                     *)
(***************************************************************************)
THEOREM QSortSorts ==
  ASSUME NEW S \in SUBSET Int, NEW s \in Seq(S)
  PROVE  LET t == qsort(s, 1, Len(s)) IN
         /\ t \in Seq(S)
         /\ Len(t) = Len(s)
         /\ \A i, j \in 1..Len(s) : i <= j => t[i] <= t[j]
         /\ Rearranged(t, s, 1, Len(s), 1..Len(s))
<1> DEFINE n == Len(s)
           t == qsort(s, 1, n)
           c == [arr |-> s, low |-> 1, high |-> n]
<1>1. n \in Nat /\ DOMAIN s = 1..n /\ s \in [1..n -> S]
  BY LenProperties
<1>2. /\ s \in [DOMAIN s -> Range(s)]
      /\ DOMAIN s \in SUBSET Int
      /\ Range(s) \in SUBSET S
  BY <1>1 DEF Range
<1>3. Range(s) \in SUBSET Int /\ 1 \in Int /\ n \in Int /\ 1 <= n + 1 /\ 1..n \subseteq DOMAIN s
  BY <1>1, <1>2
<1>4. SortsPart(t, c, DOMAIN s, Range(s))
  BY <1>2, <1>3, CallsSort, Zenon
<1> HIDE DEF t
<1>5. /\ t \in [1..n -> Range(s)]
      /\ Rearranged(t, s, 1, n, 1..n)
      /\ \A i, j \in 1..n : i <= j => t[i] <= t[j]
  <2>1. c.arr = s /\ c.low = 1 /\ c.high = n
    OBVIOUS
  <2> HIDE DEF c
  <2> QED
    BY <1>1, <1>4, <2>1, Zenon DEF SortsPart
<1>6. t \in [1..n -> S]
  BY <1>2, <1>5
<1>7. t \in Seq(S) /\ Len(t) = n
  BY <1>1, <1>6, SeqDef, LenProperties
<1> QED
  BY <1>5, <1>7 DEF t

(* Sorting a list without repetitions puts it in strictly rising order and *)
(* keeps what it holds.                                                    *)
LEMMA SortedDistinct ==
  ASSUME NEW S \in SUBSET Int, NEW s \in Seq(S), Distinct(s)
  PROVE  LET t == qsort(s, 1, Len(s)) IN
         /\ t \in Seq(S)
         /\ Range(t) = Range(s)
         /\ \A i, j \in DOMAIN t : i < j => t[i] < t[j]
<1> DEFINE n == Len(s)
           t == qsort(s, 1, n)
<1>1. n \in Nat /\ DOMAIN s = 1..n /\ s \in [1..n -> S]
  BY LenProperties
<1>2. /\ t \in Seq(S) /\ Len(t) = n
      /\ \A i, j \in 1..n : i <= j => t[i] <= t[j]
      /\ Rearranged(t, s, 1, n, 1..n)
  BY QSortSorts
<1> HIDE DEF t
<1>3. DOMAIN t = 1..n /\ t \in [1..n -> S]
  BY <1>2, LenProperties
<1>4. PICK f \in Permuting(1..n, 1, n) : \A i \in 1..n : t[i] = s[f[i]]
  BY <1>2 DEF Rearranged
<1>5. /\ f \in [1..n -> 1..n]
      /\ \A i, j \in 1..n : f[i] = f[j] => i = j
      /\ \A j \in 1..n : \E i \in 1..n : f[i] = j
  BY Zenon DEF Permuting
<1>6. Range(t) = Range(s)
  <2>1. \A i \in 1..n : t[i] \in Range(s)
    BY <1>1, <1>4, <1>5 DEF Range
  <2>2. ASSUME NEW j \in 1..n PROVE s[j] \in Range(t)
    <3>1. PICK i \in 1..n : f[i] = j
      BY <1>5
    <3>2. s[j] = t[i]
      BY <3>1, <1>4
    <3> QED
      BY <3>2, <1>3 DEF Range
  <2> QED
    BY <2>1, <2>2, <1>1, <1>3 DEF Range
<1>7. ASSUME NEW i \in 1..n, NEW j \in 1..n, i < j PROVE t[i] < t[j]
  <2>0. i <= j /\ i # j
    BY <1>1, <1>7
  <2>3. t[i] \in Int /\ t[j] \in Int
    BY <1>3
  <2>1. t[i] <= t[j] /\ t[i] \in Int /\ t[j] \in Int
    BY <1>2, <2>0, <2>3
  <2>2. t[i] # t[j]
    <3>1. f[i] # f[j] /\ f[i] \in 1..n /\ f[j] \in 1..n
      BY <1>5, <2>0, Zenon
    <3> QED
      BY <3>1, <1>1, <1>4 DEF Distinct
  <2> QED
    BY <2>1, <2>2
<1> QED
  BY <1>2, <1>3, <1>6, <1>7 DEF t

-----------------------------------------------------------------------------
(***************************************************************************)
(* The inductive invariant.                                                *)
(***************************************************************************)

(* What freeing an object relies on. *)
BeingFreed ==
  IF dec_obj = NULL THEN dec_slot = 1
  ELSE /\ pc = "processDecrements"
       /\ IsOld(dec_obj)
       /\ dec_slot <= Len(slots[dec_obj]) + 1

(* Only old objects are roots or wait to be freed, and old objects point   *)
(* to old objects.                                                         *)
OldOnes ==
  /\ \A o \in Range(roots) \cup Range(old_roots) \cup Range(pending_decs) : ~isyoung[o]
  /\ \A o \in Obj : ~isyoung[o] => \A c \in Children(o) : ~isyoung[c]

Rising(s) == \A i, j \in DOMAIN s : i < j => s[i] < s[j]

(* What the merge of the root arrays has passed is smaller than all that   *)
(* is left of the old roots.                                               *)
Merged ==
  \A i \in DOMAIN roots, j \in DOMAIN old_roots :
    i < roots_idx /\ j >= oldroots_idx => roots[i] < old_roots[j]

RootLists ==
  /\ \A o \in Obj : isroot[o] <=> o \in Range(roots)
  /\ Distinct(roots)
  /\ pc # "evacuated" => Rising(roots)
  /\ Rising(old_roots)
  /\ pc = "mutator" => roots = <<>>
  /\ pc \in {"processDecrements", "processCollectorPages"} => old_roots = <<>>
  /\ pc = "computeDeadRoots" => Merged

(* The references to o that are still to be given up. *)
RefsLeft(o) == RefsTo(o) \ {r \in RefsTo(o) : r[1] = dec_obj /\ r[2] < dec_slot}

Counts ==
  /\ \A o \in Obj : IsOld(o) => ref_count[o] = Cardinality(RefsLeft(o))
  /\ \A o \in Obj : ref_count[o] < RefModulus

(* What is reachable is not to be freed. *)
LiveOnesStay ==
  /\ \A o \in ReachableFrom(Held) :
       isalloc[o] /\ o \notin Range(pending_decs) /\ o # dec_obj
  /\ pc \in {"evacuated", "computeDeadRoots"} =>
       \A o \in Range(old_roots) : o \in Range(roots) \/ o \notin ReachableFrom(Held)

(* The old roots that the merge has not come to. *)
OldRootsLeft ==
  CASE pc \in {"mutator", "evacuated"} -> Range(old_roots)
    [] pc = "computeDeadRoots" ->
         {old_roots[j] : j \in {i \in DOMAIN old_roots : i >= oldroots_idx}}
    [] OTHER -> {}

(* What nothing old refers to is a root, or waits to be freed. *)
GarbageIsKnown ==
  \A o \in Obj : IsOld(o) =>
    \/ isroot[o]
    \/ o \in OldRootsLeft
    \/ o \in Range(pending_decs)
    \/ o = dec_obj
    \/ ref_count[o] > 0

(* What does not involve counting. *)
Shape == DecTypeOK /\ BeingFreed /\ OldOnes /\ RootLists

(* The inductive invariant for programs that do as they like; for those    *)
(* that drop roots for good, LiveOnesStay is a part of it as well.         *)
IInv == Shape /\ FreelistsSound /\ Counts /\ GarbageIsKnown /\ Acyclic

(* The arithmetic of the counters stays within their widths.               *)
LEMMA CounterTypes ==
  /\ \A n \in Nat : Decremented(n) \in 0..(RefModulus - 1)
  /\ \A n \in Nat : n > 0 /\ n < RefModulus => Decremented(n) = n - 1
  /\ \A n \in 0..(PendingModulus - 1) :
       /\ (n + 1) % PendingModulus \in 0..(PendingModulus - 1)
       /\ (IF n # 0 THEN n - 1 ELSE 0) \in 0..(PendingModulus - 1)
<1>1. RefModulus \in Nat \ {0} /\ PendingModulus \in Nat \ {0}
  BY DecrementAssumption
<1>2. \A n \in Nat : Decremented(n) \in 0..(RefModulus - 1)
  BY <1>1 DEF Decremented
<1>3. ASSUME NEW n \in Nat, n > 0, n < RefModulus PROVE Decremented(n) = n - 1
  BY <1>1, <1>3 DEF Decremented
<1>4. \A n \in 0..(PendingModulus - 1) :
       /\ (n + 1) % PendingModulus \in 0..(PendingModulus - 1)
       /\ (IF n # 0 THEN n - 1 ELSE 0) \in 0..(PendingModulus - 1)
  BY <1>1
<1> QED
  BY <1>2, <1>3, <1>4

(* A sequence that lists a finite set in some order lists each once.       *)
LEMMA ListedOnce ==
  ASSUME NEW S \in SUBSET Obj, NEW s \in [1..Cardinality(S) -> S], Range(s) = S
  PROVE  s \in Seq(Obj) /\ Distinct(s)
<1>1. IsFiniteSet(S) /\ Cardinality(S) \in Nat
  BY HeapAssumption, FS_Subset, FS_CardinalityType
<1> DEFINE n == Cardinality(S)
<1>2. IsFiniteSet(1..n) /\ Cardinality(1..n) = n
  <2> PICK m \in Nat : m = n
    BY <1>1
  <2>0. 1 \in Int /\ m \in Int
    OBVIOUS
  <2>1. IsFiniteSet(1..m) /\ Cardinality(1..m) = IF 1 > m THEN 0 ELSE m-1+1
    <3> HIDE DEF n
    <3> QED
      BY <2>0, FS_Interval, Zenon
  <2>2. Cardinality(1..m) = m
    BY <2>1
  <2> QED
    BY <2>1, <2>2
<1>3. s \in Surjection(1..n, S)
  BY DEF Surjection, Range
<1>4. s \in Injection(1..n, S)
  <2> HIDE DEF n
  <2>1. Cardinality(1..n) = Cardinality(S)
    BY <1>2 DEF n
  <2> QED
    BY <1>2, <1>3, <2>1, FS_SurjSameCardinalityImpliesInj
<1>5. s \in [1..n -> Obj]
  OBVIOUS
<1> QED
  BY <1>1, <1>4, <1>5 DEF Injection, IsInjective, Distinct

-----------------------------------------------------------------------------
(***************************************************************************)
(* Shape, one lemma per action.                                            *)
(***************************************************************************)

(* The sort of the roots. *)
LEMMA ShapeSort ==
  ASSUME Shape, SortRoots
  PROVE  Shape'
<1> USE DEF Shape
<1> DEFINE t == qsort(roots, 1, Len(roots))
<1>1. /\ t \in Seq(Obj)
      /\ Range(t) = Range(roots)
      /\ \A i, j \in DOMAIN t : i < j => t[i] < t[j]
  <2>1. Obj \in SUBSET Int /\ roots \in Seq(Obj) /\ Distinct(roots)
    BY DecrementAssumption DEF DecTypeOK, RootLists
  <2> QED
    BY <2>1, SortedDistinct
<1> HIDE DEF t
<1>2. Distinct(t)
  <2>1. DOMAIN t = 1..Len(t) /\ Len(t) \in Nat /\ \A i \in DOMAIN t : t[i] \in Int
    BY <1>1, SeqIndices, DecrementAssumption
  <2> SUFFICES ASSUME NEW i \in DOMAIN t, NEW j \in DOMAIN t, t[i] = t[j], i # j
               PROVE  FALSE
    BY DEF Distinct
  <2>2. i < j \/ j < i
    BY <2>1
  <2>3. t[i] < t[j] \/ t[j] < t[i]
    BY <1>1, <2>2
  <2> QED
    BY <2>1, <2>3
<1>3. roots' = t /\ pc' = "computeDeadRoots" /\ roots_idx' = 1 /\ oldroots_idx' = 1
  BY DEF SortRoots, t
<1>4. DecTypeOK'
  BY <1>1, <1>3 DEF SortRoots, DecTypeOK, HeapTypeOK, heapVars, decVars, pageVars, DecPhases
<1>5. BeingFreed'
  BY <1>3 DEF SortRoots, BeingFreed, decVars
<1>6. OldOnes'
  BY <1>1, <1>3 DEF SortRoots, OldOnes, heapVars, Children
<1>7. Merged'
  <2>1. DOMAIN t = 1..Len(t) /\ Len(t) \in Nat
    BY <1>1, SeqIndices
  <2> QED
    BY <1>3, <2>1 DEF Merged
<1>8. RootLists'
  BY <1>1, <1>2, <1>3, <1>7 DEF SortRoots, RootLists, Rising, heapVars
<1> QED
  BY <1>4, <1>5, <1>6, <1>8

(* The merge of old_roots and roots. *)
LEMMA ShapeDropOldRoot ==
  ASSUME Shape, DropOldRoot
  PROVE  Shape'
<1> USE DEF Shape
<1> DEFINE e == old_roots[oldroots_idx]
<1>1. e \in Obj /\ e \in Range(old_roots)
  BY SeqIndices DEF DecTypeOK, DropOldRoot
<1>2. /\ pending_decs' \in Seq(Obj)
      /\ Range(pending_decs') = Range(pending_decs) \cup {e}
  BY <1>1, AppendFacts DEF DecTypeOK, DropOldRoot
<1>3. DecTypeOK'
  <2>1. oldroots_idx' \in Nat \ {0}
    BY DEF DropOldRoot, DecTypeOK
  <2> QED
    BY <1>2, <2>1, Zenon
       DEF DropOldRoot, DecTypeOK, HeapTypeOK, heapVars, decVars, pageVars
<1>4. BeingFreed'
  BY DEF DropOldRoot, BeingFreed, decVars
<1>5. OldOnes'
  BY <1>1, <1>2 DEF DropOldRoot, OldOnes, heapVars, Children
<1>6. Merged'
  <2>1. DOMAIN old_roots \subseteq Nat /\ oldroots_idx \in Nat
    BY SeqIndices DEF DecTypeOK
  <2> QED
    BY <2>1 DEF RootLists, Merged, DropOldRoot
<1>7. RootLists'
  BY <1>6 DEF DropOldRoot, RootLists, Rising, heapVars
<1> QED
  BY <1>3, <1>4, <1>5, <1>7

(* Passing a root keeps what is left of old_roots above what is passed.   *)
LEMMA ShapePassRoot ==
  ASSUME Shape, PassRoot
  PROVE  Shape'
<1> USE DEF Shape
<1>1. DecTypeOK'
  <2>1. roots_idx' \in Nat \ {0} /\ oldroots_idx' \in Nat \ {0}
    BY DEF PassRoot, DecTypeOK
  <2> QED
    BY <2>1, Zenon DEF PassRoot, DecTypeOK, HeapTypeOK, heapVars, decVars, pageVars
<1>2. BeingFreed'
  BY DEF PassRoot, BeingFreed, decVars
<1>3. OldOnes'
  BY DEF PassRoot, OldOnes, heapVars, Children
<1>4. Merged'
  <2>0. /\ DOMAIN old_roots = 1..Len(old_roots) /\ Len(old_roots) \in Nat
        /\ DOMAIN roots = 1..Len(roots) /\ Len(roots) \in Nat
        /\ \A i \in DOMAIN roots : roots[i] \in Int
        /\ \A j \in DOMAIN old_roots : old_roots[j] \in Int
        /\ oldroots_idx \in Nat \ {0} /\ roots_idx \in Nat \ {0}
    <3>1. roots \in Seq(Obj) /\ old_roots \in Seq(Obj) /\ Obj \subseteq Int
      BY DecrementAssumption DEF DecTypeOK
    <3>2. /\ DOMAIN old_roots = 1..Len(old_roots) /\ Len(old_roots) \in Nat
          /\ \A j \in DOMAIN old_roots : old_roots[j] \in Obj
      BY <3>1, SeqIndices
    <3>3. /\ DOMAIN roots = 1..Len(roots) /\ Len(roots) \in Nat
          /\ \A j \in DOMAIN roots : roots[j] \in Obj
      BY <3>1, SeqIndices
    <3> QED
      BY <3>1, <3>2, <3>3 DEF DecTypeOK
  <2> SUFFICES ASSUME NEW i \in DOMAIN roots, NEW j \in DOMAIN old_roots,
                      i < roots_idx', j >= oldroots_idx'
               PROVE  roots[i] < old_roots[j]
    BY DEF Merged, PassRoot
  <2>1. j >= oldroots_idx /\ oldroots_idx \in DOMAIN old_roots /\ roots_idx \in DOMAIN roots
    BY <2>0 DEF PassRoot
  <2>2. old_roots[oldroots_idx] <= old_roots[j]
    BY <2>0, <2>1 DEF RootLists, Rising
  <2>3. oldroots_idx < j => old_roots[oldroots_idx] < old_roots[j]
    BY <2>0, <2>1 DEF RootLists, Rising
  <2>4. CASE i < roots_idx
    BY <2>1, <2>4 DEF RootLists, Merged, PassRoot
  <2>5. CASE i = roots_idx
    <3>1. CASE roots[roots_idx] < old_roots[oldroots_idx]
      BY <2>0, <2>1, <2>2, <2>5, <3>1
    <3>2. CASE roots[roots_idx] = old_roots[oldroots_idx] /\ oldroots_idx' = oldroots_idx + 1
      <4>1. oldroots_idx < j
        BY <3>2, <2>0
      <4> QED
        BY <2>3, <2>5, <3>2, <4>1
    <3> QED
      BY <3>1, <3>2 DEF PassRoot
  <2>6. i < roots_idx \/ i = roots_idx
    BY <2>0 DEF PassRoot
  <2> QED
    BY <2>4, <2>5, <2>6
<1>5. RootLists'
  BY <1>4 DEF PassRoot, RootLists, Rising, heapVars
<1> QED
  BY <1>1, <1>2, <1>3, <1>5

(* The end of the merge empties old_roots.                                *)
LEMMA ShapeEndComputeDeadRoots ==
  ASSUME Shape, EndComputeDeadRoots
  PROVE  Shape'
<1> USE DEF Shape
<1>0. <<>> \in Seq(Obj) /\ Range(<<>>) = {} /\ Rising(<<>>)
  BY EmptySeq DEF Range, Rising
<1>1. DecTypeOK'
  BY <1>0 DEF EndComputeDeadRoots, DecTypeOK, HeapTypeOK, heapVars, decVars, pageVars,
              DecPhases
<1>2. BeingFreed'
  BY DEF EndComputeDeadRoots, BeingFreed, decVars
<1>3. OldOnes'
  BY <1>0 DEF EndComputeDeadRoots, OldOnes, heapVars, Children
<1>4. RootLists'
  BY <1>0 DEF EndComputeDeadRoots, RootLists, Rising, heapVars
<1> QED
  BY <1>1, <1>2, <1>3, <1>4

(* The loop that takes an object to free. *)
LEMMA ShapePopDecrement ==
  ASSUME Shape, PopDecrement
  PROVE  Shape'
<1> USE DEF Shape
<1>1. /\ Tail(pending_decs) \in Seq(Obj)
      /\ Head(pending_decs) \in Obj
      /\ Head(pending_decs) \in Range(pending_decs)
      /\ Range(Tail(pending_decs)) \subseteq Range(pending_decs)
  BY PopFrontFacts DEF DecTypeOK, PopDecrement, MayDecrement
<1>2. /\ dec_obj' \in Obj \cup {NULL}
      /\ dec_obj' # NULL => dec_obj' \in Range(pending_decs) /\ isalloc[dec_obj']
  BY <1>1 DEF PopDecrement, ToFree
<1>3. deccount' \in 0..max_decrement_count
  BY DecrementAssumption DEF DecTypeOK, PopDecrement, MayDecrement
<1>4. DecTypeOK'
  BY <1>1, <1>2, <1>3
     DEF PopDecrement, DecTypeOK, HeapTypeOK, heapVars, mergeVars, pageVars
<1>5. BeingFreed'
  <2>1. CASE dec_obj' = NULL
    BY <2>1 DEF PopDecrement, BeingFreed
  <2>2. CASE dec_obj' # NULL
    <3>1. slots[dec_obj'] \in Seq(Obj \cup {NULL})
      BY <1>2, <2>2 DEF DecTypeOK, HeapTypeOK
    <3>2. dec_slot = 1 /\ Len(slots[dec_obj']) \in Nat
      BY <3>1, LenProperties DEF BeingFreed, PopDecrement
    <3> QED
      BY <1>2, <2>2, <3>2 DEF PopDecrement, BeingFreed, IsOld, OldOnes, heapVars
  <2> QED
    BY <2>1, <2>2
<1>6. OldOnes'
  BY <1>1 DEF PopDecrement, OldOnes, heapVars, mergeVars, Children
<1>7. RootLists'
  BY DEF PopDecrement, RootLists, Rising, heapVars, mergeVars
<1> QED
  BY <1>4, <1>5, <1>6, <1>7

(* What a step of DecrementSlot does, with the types it needs.             *)
LEMMA SlotFacts ==
  ASSUME Shape, DecrementSlot
  PROVE  LET p == slots[dec_obj][dec_slot] IN
         /\ dec_obj \in Obj /\ IsOld(dec_obj) /\ dec_slot \in DOMAIN slots[dec_obj]
         /\ slots[dec_obj] \in Seq(Obj \cup {NULL})
         /\ p \in Obj \cup {NULL}
         /\ p # NULL => p \in Obj /\ p \in Children(dec_obj) /\ ~isyoung[p]
         /\ \/ UNCHANGED <<pending_decs, pending_decs_count>>
            \/ /\ p # NULL
               /\ Dies(p, ref_count'[p])
               /\ pending_decs' = Append(pending_decs, p)
               /\ pending_decs_count' =
                     [pending_decs_count EXCEPT ![PageOf[p]] = (@ + 1) % PendingModulus]
<1> USE DEF Shape
<1>1. dec_obj \in Obj /\ dec_obj # NULL /\ IsOld(dec_obj)
  BY DEF DecrementSlot, DecTypeOK, BeingFreed
<1>2. slots[dec_obj] \in Seq(Obj \cup {NULL}) /\ HeapTypeOK
  BY <1>1 DEF DecTypeOK, HeapTypeOK
<1>3. dec_slot \in DOMAIN slots[dec_obj]
  BY <1>2, LenProperties DEF DecrementSlot, DecTypeOK
<1>4. /\ slots[dec_obj][dec_slot] \in Obj \cup {NULL}
      /\ slots[dec_obj][dec_slot] # NULL => slots[dec_obj][dec_slot] \in Children(dec_obj)
  BY <1>1, <1>2, <1>3, SlotType
<1>5. \A c \in Children(dec_obj) : ~isyoung[c]
  BY <1>1 DEF OldOnes, IsOld
<1> QED
  BY <1>1, <1>2, <1>3, <1>4, <1>5 DEF DecrementSlot

(* Giving up a reference keeps counters and lists within their types.     *)
LEMMA ShapeDecrementSlot ==
  ASSUME Shape, DecrementSlot
  PROVE  Shape'
<1> USE DEF Shape
<1> DEFINE p == slots[dec_obj][dec_slot]
<1>1. /\ dec_obj \in Obj /\ IsOld(dec_obj) /\ dec_slot \in DOMAIN slots[dec_obj]
      /\ slots[dec_obj] \in Seq(Obj \cup {NULL})
      /\ p # NULL => p \in Obj /\ p \in Children(dec_obj) /\ ~isyoung[p]
      /\ \/ UNCHANGED <<pending_decs, pending_decs_count>>
         \/ /\ p # NULL
            /\ pending_decs' = Append(pending_decs, p)
            /\ pending_decs_count' =
                 [pending_decs_count EXCEPT ![PageOf[p]] = (@ + 1) % PendingModulus]
  BY SlotFacts
<1>2. /\ ref_count' = ref_count \/ (p # NULL /\ ref_count' = [ref_count EXCEPT ![p] = Decremented(@)])
      /\ dec_slot' = dec_slot + 1
      /\ UNCHANGED <<isalloc, isyoung, ismarked, isroot, slots, roots, pc, mergeVars,
                     deccount, dec_obj, freelist, decremented_pages, stable_pages>>
  BY DEF DecrementSlot
<1> HIDE DEF p
<1>3. ref_count' \in [Obj -> Nat]
  <2>1. ref_count \in [Obj -> Nat]
    BY DEF DecTypeOK, HeapTypeOK
  <2>2. \A n \in Nat : Decremented(n) \in Nat
    BY CounterTypes, DecrementAssumption
  <2> QED
    BY <1>1, <1>2, <2>1, <2>2
<1>4. /\ pending_decs' \in Seq(Obj)
      /\ \A o \in Range(pending_decs') : o \in Range(pending_decs) \/ ~isyoung[o]
  <2>1. CASE pending_decs' = pending_decs
    BY <2>1 DEF DecTypeOK
  <2>2. CASE p \in Obj /\ pending_decs' = Append(pending_decs, p)
    <3>1. /\ pending_decs' \in Seq(Obj)
          /\ Range(pending_decs') = Range(pending_decs) \cup {p}
      BY <2>2, AppendFacts DEF DecTypeOK
    <3>2. ~isyoung[p]
      BY <1>1, <2>2, NullAssumption
    <3> QED
      BY <3>1, <3>2
  <2> QED
    BY <1>1, <2>1, <2>2
<1>5. pending_decs_count' \in [Page -> 0..(PendingModulus - 1)]
  <2>1. pending_decs_count \in [Page -> 0..(PendingModulus - 1)]
    BY DEF DecTypeOK
  <2>2. p # NULL => PageOf[p] \in Page
    BY <1>1, DecrementAssumption
  <2> QED
    <3>1. CASE p # NULL /\ pending_decs_count' =
                 [pending_decs_count EXCEPT ![PageOf[p]] = (@ + 1) % PendingModulus]
      <4>1. (pending_decs_count[PageOf[p]] + 1) % PendingModulus \in 0..(PendingModulus - 1)
        BY <2>1, <2>2, <3>1, CounterTypes
      <4> QED
        BY <2>1, <3>1, <4>1, Zenon
    <3> QED
      BY <1>1, <2>1, <3>1
<1>6. DecTypeOK'
  BY <1>2, <1>3, <1>4, <1>5 DEF DecTypeOK, HeapTypeOK, mergeVars
<1>7. BeingFreed'
  <2>1. dec_slot + 1 <= Len(slots[dec_obj]) + 1
    BY <1>1, LenProperties
  <2>2. dec_obj # NULL /\ pc = "processDecrements"
    BY DEF DecrementSlot
  <2> QED
    BY <1>1, <1>2, <2>1, <2>2 DEF BeingFreed, IsOld
<1>8. OldOnes'
  BY <1>2, <1>4 DEF OldOnes, mergeVars, Children
<1>9. RootLists'
  BY <1>2 DEF RootLists, Rising, mergeVars, DecrementSlot
<1> QED
  BY <1>6, <1>7, <1>8, <1>9

(* Freeing an object gives its entry to its page.                         *)
LEMMA ShapeFreeObject ==
  ASSUME Shape, FreeObject
  PROVE  Shape'
<1> USE DEF Shape
<1>1. dec_obj \in Obj /\ PageOf[dec_obj] \in Page
  BY DecrementAssumption DEF FreeObject, DecTypeOK
<1>2. freelist' \in [Page -> Seq(Obj)]
  <2>1. \A s \in Seq(Obj) : <<dec_obj>> \o s \in Seq(Obj)
    BY <1>1, ConcatProperties
  <2> QED
    BY <1>1, <2>1 DEF FreeObject, DecTypeOK
<1>3. pending_decs_count' \in [Page -> 0..(PendingModulus - 1)]
  BY <1>1, CounterTypes DEF FreeObject, DecTypeOK
<1>4. decremented_pages' \in Seq(Page)
  BY <1>1, AppendFacts DEF FreeObject, DecTypeOK
<1>5. isalloc' \in [Obj -> BOOLEAN] /\ \A o \in Obj : isalloc'[o] => isalloc[o]
  BY <1>1 DEF FreeObject, DecTypeOK, HeapTypeOK
<1>6. DecTypeOK'
  <2>1. dec_slot' \in Nat \ {0} /\ dec_obj' \in Obj \cup {NULL}
    BY DEF FreeObject
  <2> QED
    BY <1>2, <1>3, <1>4, <1>5, <2>1, Zenon
       DEF FreeObject, DecTypeOK, HeapTypeOK, mergeVars
<1>7. BeingFreed'
  BY DEF FreeObject, BeingFreed
<1>8. OldOnes'
  BY DEF FreeObject, OldOnes, mergeVars, Children
<1>9. RootLists'
  BY DEF FreeObject, RootLists, Rising, mergeVars
<1> QED
  BY <1>6, <1>7, <1>8, <1>9

(* The end of the loop resets what belongs to one collection.             *)
LEMMA ShapeEndProcessDecrements ==
  ASSUME Shape, EndProcessDecrements
  PROVE  Shape'
<1> USE DEF Shape
<1>1. <<>> \in Seq(Page) /\ stable_pages' \in SUBSET Page
  BY EmptySeq, SeqIndices DEF EndProcessDecrements, DecTypeOK
<1>2. DecTypeOK'
  BY <1>1, DecrementAssumption
     DEF EndProcessDecrements, DecTypeOK, HeapTypeOK, heapVars, mergeVars, DecPhases
<1>3. BeingFreed'
  BY DEF EndProcessDecrements, BeingFreed
<1>4. OldOnes'
  BY DEF EndProcessDecrements, OldOnes, heapVars, mergeVars, Children
<1>5. RootLists'
  BY DEF EndProcessDecrements, RootLists, Rising, heapVars, mergeVars
<1> QED
  BY <1>2, <1>3, <1>4, <1>5

(* The end of a collection. *)
LEMMA ShapeRootsBecomeOldRoots ==
  ASSUME Shape, RootsBecomeOldRoots
  PROVE  Shape'
<1> USE DEF Shape
<1>0. <<>> \in Seq(Obj) /\ Range(<<>>) = {} /\ Rising(<<>>) /\ Distinct(<<>>)
  BY EmptySeq DEF Range, Rising, Distinct
<1>1. ismarked' \in [Obj -> BOOLEAN] /\ isroot' \in [Obj -> BOOLEAN]
  BY DEF RootsBecomeOldRoots, DecTypeOK, HeapTypeOK
<1>2. DecTypeOK'
  BY <1>0, <1>1 DEF RootsBecomeOldRoots, DecTypeOK, HeapTypeOK, decVars, pageVars, DecPhases
<1>3. BeingFreed'
  BY DEF RootsBecomeOldRoots, BeingFreed, decVars
<1>4. OldOnes'
  BY <1>0 DEF RootsBecomeOldRoots, OldOnes, Children
<1>5. \A o \in Obj : isroot'[o] <=> o \in Range(roots')
  BY <1>0 DEF RootsBecomeOldRoots, RootLists
<1>6. RootLists'
  BY <1>0, <1>5 DEF RootsBecomeOldRoots, RootLists, Rising
<1> QED
  BY <1>2, <1>3, <1>4, <1>6

(* The next collection's roots are objects in use, and so old.             *)
LEMMA ShapeCollect ==
  ASSUME Shape, NEW S \in SUBSET Obj, Collect(S)
  PROVE  Shape'
<1> USE DEF Shape
<1>1. PICK s \in [1..Cardinality(S) -> S] : Range(s) = S /\ roots' = s
  BY DEF Collect
<1>2. s \in Seq(Obj) /\ Distinct(s)
  BY <1>1, ListedOnce
<1>3. \A o \in S : ~isyoung[o]
  <2> DEFINE Old == {o \in Obj : ~isyoung[o]}
  <2>1. Held \subseteq Old
    <3>1. Held = Range(old_roots)
      BY DEF Collect, Held
    <3> QED
      BY <3>1, SeqIndices DEF DecTypeOK, OldOnes
  <2>2. Closed(Old)
    BY ChildrenType DEF OldOnes, Closed, DecTypeOK
  <2>3. ReachableFrom(Held) \subseteq Old
    BY <2>1, <2>2, ReachableLeast
  <2> QED
    BY <2>3 DEF Collect
<1>4. DecTypeOK'
  BY <1>1, <1>2 DEF Collect, DecTypeOK, HeapTypeOK, mergeVars, decVars, pageVars, DecPhases
<1>5. BeingFreed'
  BY DEF Collect, BeingFreed, decVars
<1>6. OldOnes'
  BY <1>1, <1>3 DEF Collect, OldOnes, mergeVars, Children
<1>7. \A o \in Obj : isroot'[o] <=> o \in Range(roots')
  BY <1>1 DEF Collect
<1>8. RootLists'
  BY <1>1, <1>2, <1>7 DEF Collect, RootLists, Rising, mergeVars
<1> QED
  BY <1>4, <1>5, <1>6, <1>8

-----------------------------------------------------------------------------
(***************************************************************************)
(* Each part of the invariant is kept by every step of the collector.      *)
(***************************************************************************)

(* The shape of the state is kept by every step. *)
LEMMA ShapeStep ==
  ASSUME Shape, [DecAnyNext]_allDecVars
  PROVE  Shape'
<1>1. CASE DecrementNext
  BY <1>1, ShapeSort, ShapeDropOldRoot, ShapePassRoot, ShapeEndComputeDeadRoots,
     ShapePopDecrement, ShapeDecrementSlot, ShapeFreeObject,
     ShapeEndProcessDecrements, ShapeRootsBecomeOldRoots, Zenon DEF DecrementNext
<1>2. ASSUME NEW S \in SUBSET Obj, Collect(S) PROVE Shape'
  BY <1>2, ShapeCollect
<1>3. CASE UNCHANGED allDecVars
  BY <1>3, Zenon
     DEF Shape, DecTypeOK, HeapTypeOK, BeingFreed, IsOld, OldOnes, Children,
         RootLists, Rising, Merged, allDecVars, heapVars, mergeVars, decVars, pageVars
<1> QED
  BY <1>1, <1>2, <1>3, Zenon DEF DecAnyNext

(* The actions other than DecrementSlot and FreeObject leave the objects   *)
(* and the references to them alone.                                       *)
LEMMA HeapKept ==
  ASSUME [DecAnyNext]_allDecVars
  PROVE  /\ UNCHANGED <<isyoung, slots>>
         /\ \/ DecrementSlot
            \/ FreeObject
            \/ UNCHANGED <<isalloc, ref_count, freelist>>
BY DEF DecAnyNext, DecrementNext, SortRoots, DropOldRoot, PassRoot, EndComputeDeadRoots,
       PopDecrement, DecrementSlot, FreeObject, EndProcessDecrements,
       RootsBecomeOldRoots, Collect, allDecVars, heapVars, pageVars

(* Freeing an object puts it in front of its page's list, where it was not *)
(* as long as it was allocated.                                            *)
LEMMA FreelistsStep ==
  ASSUME Shape, FreelistsSound, [DecAnyNext]_allDecVars
  PROVE  FreelistsSound'
<1> USE DEF Shape
<1> SUFFICES ASSUME NEW p \in Page PROVE FreelistSound(p)'
  BY DEF FreelistsSound
<1>1. CASE FreeObject
  <2>1. dec_obj \in Obj /\ isalloc[dec_obj]
    BY <1>1 DEF FreeObject, DecTypeOK, BeingFreed, IsOld
  <2>2. /\ isalloc' = [isalloc EXCEPT ![dec_obj] = FALSE]
        /\ freelist' = [freelist EXCEPT ![PageOf[dec_obj]] = <<dec_obj>> \o @]
    BY <1>1 DEF FreeObject
  <2>3. \A o \in Obj : isalloc'[o] => isalloc[o]
    BY <2>1, <2>2 DEF DecTypeOK, HeapTypeOK
  <2>4. /\ freelist[p] \in Seq(Obj)
        /\ \A i \in DOMAIN freelist[p] : PageOf[freelist[p][i]] = p /\ ~isalloc[freelist[p][i]]
        /\ Distinct(freelist[p])
    BY DEF FreelistsSound, FreelistSound, IsInjective, Distinct, DecTypeOK
  <2>5. CASE p # PageOf[dec_obj]
    <3>1. freelist'[p] = freelist[p]
      BY <2>2, <2>5 DEF DecTypeOK
    <3>2. \A i \in DOMAIN freelist[p] : freelist[p][i] \in Obj
      BY <2>4, SeqIndices
    <3> QED
      BY <2>3, <2>4, <3>1, <3>2 DEF FreelistSound, IsInjective, Distinct
  <2>6. CASE p = PageOf[dec_obj]
    <3> DEFINE one == <<dec_obj>>
    <3>1. freelist'[p] = one \o freelist[p]
      BY <2>2, <2>6 DEF DecTypeOK
    <3>2. one \in Seq(Obj) /\ Distinct(one) /\ Range(one) = {dec_obj}
      BY <2>1 DEF Distinct, Range
    <3>3. Range(one) \cap Range(freelist[p]) = {}
      BY <2>1, <2>4, <3>2 DEF Range
    <3> HIDE DEF one
    <3>4. /\ freelist'[p] \in Seq(Obj)
          /\ Distinct(freelist'[p])
          /\ Range(freelist'[p]) = {dec_obj} \cup Range(freelist[p])
      BY <2>4, <3>1, <3>2, <3>3, ConcatDistinct
    <3>5. \A x \in Range(freelist'[p]) : PageOf[x] = p /\ ~isalloc'[x]
      <4>1. \A x \in Range(freelist[p]) : x \in Obj /\ PageOf[x] = p /\ ~isalloc[x]
        BY <2>4, SeqIndices DEF Range
      <4>2. ~isalloc'[dec_obj]
        BY <2>1, <2>2 DEF DecTypeOK, HeapTypeOK
      <4> QED
        BY <2>3, <2>6, <3>4, <4>1, <4>2
    <3> QED
      BY <3>4, <3>5 DEF FreelistSound, IsInjective, Distinct, Range
  <2> QED
    BY <2>5, <2>6
<1>2. CASE UNCHANGED <<isalloc, freelist>>
  BY <1>2 DEF FreelistsSound, FreelistSound
<1> QED
  BY <1>1, <1>2, HeapKept DEF DecrementSlot

(* The references that are left, one by one, now and after a step.         *)
LEMMA RefsLeftElement ==
  ASSUME NEW p
  PROVE  /\ \A o, k : <<o, k>> \in RefsLeft(p) <=>
                        /\ o \in Obj /\ IsOld(o) /\ k \in DOMAIN slots[o] /\ slots[o][k] = p
                        /\ ~(o = dec_obj /\ k < dec_slot)
         /\ \A r \in RefsLeft(p) : r = <<r[1], r[2]>>
         /\ RefsLeft(p) \subseteq RefsTo(p)
BY RefsElement DEF RefsLeft

(* The same after a step. *)
LEMMA RefsLeftElementNext ==
  ASSUME NEW p
  PROVE  /\ \A o, k : <<o, k>> \in RefsLeft(p)' <=>
                        /\ o \in Obj /\ IsOld(o)' /\ k \in DOMAIN slots'[o] /\ slots'[o][k] = p
                        /\ ~(o = dec_obj' /\ k < dec_slot')
         /\ \A r \in RefsLeft(p)' : r = <<r[1], r[2]>>
<1>1. /\ \A o, k : <<o, k>> \in RefsTo(p)' <=>
                     o \in Obj /\ IsOld(o)' /\ k \in DOMAIN slots'[o] /\ slots'[o][k] = p
      /\ \A r \in RefsTo(p)' : r = <<r[1], r[2]>>
  BY DEF RefsTo
<1> QED
  BY <1>1 DEF RefsLeft

(* They are finitely many. *)
LEMMA RefsLeftFinite ==
  ASSUME HeapTypeOK, NEW p
  PROVE  IsFiniteSet(RefsLeft(p)) /\ Cardinality(RefsLeft(p)) \in Nat
<1>1. RefsLeft(p) \in SUBSET RefsTo(p) /\ IsFiniteSet(RefsTo(p))
  BY RefsLeftElement, RefsFinite
<1> QED
  BY <1>1, FS_Subset, FS_CardinalityType

(* Only the slot that is done is taken from the references left; freeing   *)
(* an object, once all its slots are done, takes nothing from them.        *)
LEMMA RefsLeftStep ==
  ASSUME Shape, [DecAnyNext]_allDecVars, NEW o \in Obj
  PROVE  IF DecrementSlot
           THEN RefsLeft(o)' = RefsLeft(o) \ {<<dec_obj, dec_slot>>}
           ELSE RefsLeft(o)' = RefsLeft(o)
<1> USE DEF Shape
<1>0. slots' = slots /\ isyoung' = isyoung
  BY HeapKept
<1>1. CASE DecrementSlot
  <2>1. /\ dec_obj' = dec_obj /\ dec_slot' = dec_slot + 1 /\ isalloc' = isalloc
        /\ dec_obj \in Obj
    BY <1>1, SlotFacts DEF DecrementSlot
  <2> DEFINE R == RefsLeft(o) \ {<<dec_obj, dec_slot>>}
  <2>2. ASSUME NEW x, NEW k
        PROVE  <<x, k>> \in RefsLeft(o)' <=> <<x, k>> \in R
    <3>1. x \in Obj /\ k \in DOMAIN slots[x] => k \in Nat
      BY SeqIndices DEF DecTypeOK, HeapTypeOK
    <3>2. <<x, k>> \in R <=> <<x, k>> \in RefsLeft(o) /\ ~(x = dec_obj /\ k = dec_slot)
      OBVIOUS
    <3>3. dec_slot \in Nat
      BY DEF DecTypeOK
    <3>4. k \in Nat => (k < dec_slot + 1 <=> k < dec_slot \/ k = dec_slot)
      BY <3>3
    <3>a. <<x, k>> \in RefsLeft(o) <=>
            /\ x \in Obj /\ IsOld(x) /\ k \in DOMAIN slots[x] /\ slots[x][k] = o
            /\ ~(x = dec_obj /\ k < dec_slot)
      BY RefsLeftElement
    <3>b. <<x, k>> \in RefsLeft(o)' <=>
            /\ x \in Obj /\ IsOld(x)' /\ k \in DOMAIN slots'[x] /\ slots'[x][k] = o
            /\ ~(x = dec_obj' /\ k < dec_slot')
      BY RefsLeftElementNext
    <3>5. IsOld(x)' <=> IsOld(x)
      BY <1>0, <2>1 DEF IsOld
    <3> HIDE DEF R
    <3> QED
      BY <1>0, <2>1, <3>1, <3>2, <3>4, <3>5, <3>a, <3>b
  <2>3. \A r \in RefsLeft(o)' : r = <<r[1], r[2]>>
    BY RefsLeftElementNext
  <2>4. \A r \in R : r = <<r[1], r[2]>>
    BY RefsLeftElement
  <2> HIDE DEF R
  <2>5. RefsLeft(o)' = R
    BY <2>2, <2>3, <2>4, SamePairs, Zenon
  <2> QED
    BY <1>1, <2>5 DEF R
<1>2. CASE ~DecrementSlot
  <2>2. ASSUME NEW x, NEW k
        PROVE  <<x, k>> \in RefsLeft(o)' <=> <<x, k>> \in RefsLeft(o)
    <3>a. <<x, k>> \in RefsLeft(o) <=>
            /\ x \in Obj /\ IsOld(x) /\ k \in DOMAIN slots[x] /\ slots[x][k] = o
            /\ ~(x = dec_obj /\ k < dec_slot)
      BY RefsLeftElement
    <3>b. <<x, k>> \in RefsLeft(o)' <=>
            /\ x \in Obj /\ IsOld(x)' /\ k \in DOMAIN slots'[x] /\ slots'[x][k] = o
            /\ ~(x = dec_obj' /\ k < dec_slot')
      BY RefsLeftElementNext
    <3>1. CASE FreeObject
      <4>1. /\ dec_obj' = NULL
            /\ isalloc' = [isalloc EXCEPT ![dec_obj] = FALSE]
            /\ dec_slot > Len(slots[dec_obj])
            /\ dec_obj \in Obj
        BY <3>1 DEF FreeObject, DecTypeOK
      <4>2. x \in Obj => (IsOld(x)' <=> IsOld(x) /\ x # dec_obj)
        BY <1>0, <4>1 DEF IsOld, DecTypeOK, HeapTypeOK
      <4>3. k \in DOMAIN slots[dec_obj] => k < dec_slot
        <5>1. slots[dec_obj] \in Seq(Obj \cup {NULL}) /\ dec_slot \in Nat
          BY <4>1 DEF DecTypeOK, HeapTypeOK
        <5>2. DOMAIN slots[dec_obj] = 1..Len(slots[dec_obj]) /\ Len(slots[dec_obj]) \in Nat
          BY <5>1, LenProperties
        <5> QED
          BY <4>1, <5>1, <5>2
      <4>4. x \in Obj => x # NULL
        BY NullAssumption
      <4> QED
        BY <1>0, <4>1, <4>2, <4>3, <4>4, <3>a, <3>b
    <3>2. CASE UNCHANGED <<isalloc, dec_obj, dec_slot>>
      BY <1>0, <3>2, RefsLeftElement, RefsLeftElementNext DEF IsOld
    <3>3. CASE PopDecrement
      <4>1. dec_obj = NULL /\ isalloc' = isalloc /\ dec_slot' = 1
        BY <3>3 DEF PopDecrement, heapVars, BeingFreed
      <4>2. x \in Obj => x # NULL
        BY NullAssumption
      <4>3. x \in Obj /\ k \in DOMAIN slots[x] => ~(k < 1)
        BY SeqIndices DEF DecTypeOK, HeapTypeOK
      <4> QED
        BY <1>0, <4>1, <4>2, <4>3, <3>a, <3>b DEF IsOld
    <3>4. \/ FreeObject
          \/ PopDecrement
          \/ UNCHANGED <<isalloc, dec_obj, dec_slot>>
      BY <1>2 DEF DecAnyNext, DecrementNext, SortRoots, DropOldRoot, PassRoot,
         EndComputeDeadRoots, EndProcessDecrements,
         RootsBecomeOldRoots, Collect, allDecVars, heapVars, decVars
    <3> QED
      BY <3>1, <3>2, <3>3, <3>4
  <2>3. \A r \in RefsLeft(o)' : r = <<r[1], r[2]>>
    BY RefsLeftElementNext
  <2>4. \A r \in RefsLeft(o) : r = <<r[1], r[2]>>
    BY RefsLeftElement
  <2>5. RefsLeft(o)' = RefsLeft(o)
    BY <2>2, <2>3, <2>4, SamePairs, Zenon
  <2> QED
    BY <1>2, <2>5
<1> QED
  BY <1>1, <1>2

(* The counts follow the references that are left.                         *)
LEMMA CountsStep ==
  ASSUME Shape, Counts, [DecAnyNext]_allDecVars
  PROVE  Counts'
<1> USE DEF Shape
<1> SUFFICES ASSUME NEW o \in Obj
             PROVE  /\ ref_count'[o] < RefModulus
                    /\ IsOld(o)' => ref_count'[o] = Cardinality(RefsLeft(o)')
  BY DEF Counts
<1>1. isyoung' = isyoung /\ ref_count \in [Obj -> Nat] /\ isalloc \in [Obj -> BOOLEAN]
  BY HeapKept DEF DecTypeOK, HeapTypeOK
<1>2. /\ ref_count[o] < RefModulus
      /\ IsOld(o) => ref_count[o] = Cardinality(RefsLeft(o))
  BY DEF Counts
<1>3. IsOld(o)' => IsOld(o)
  BY <1>1, HeapKept DEF IsOld, FreeObject, DecrementSlot, DecTypeOK
<1>4. CASE DecrementSlot
  <2> DEFINE p == slots[dec_obj][dec_slot]
             done == <<dec_obj, dec_slot>>
  <2>1. /\ dec_obj \in Obj /\ IsOld(dec_obj) /\ dec_slot \in DOMAIN slots[dec_obj]
        /\ RefsLeft(o)' = RefsLeft(o) \ {done}
        /\ dec_slot \in Nat
    BY <1>4, SlotFacts, RefsLeftStep DEF DecTypeOK
  <2>2. \/ p = NULL /\ ref_count' = ref_count
        \/ p # NULL /\ ref_count' = [ref_count EXCEPT ![p] = Decremented(@)]
    BY <1>4 DEF DecrementSlot
  <2>3. done \in RefsLeft(o) <=> o = p
    <3>1. ~(dec_slot < dec_slot)
      BY <2>1
    <3> QED
      BY <2>1, <3>1, RefsLeftElement
  <2>4. IsFiniteSet(RefsLeft(o)) /\ Cardinality(RefsLeft(o)) \in Nat
    BY RefsLeftFinite DEF DecTypeOK
  <2>5. Cardinality(RefsLeft(o)') = IF o = p THEN Cardinality(RefsLeft(o)) - 1
                                             ELSE Cardinality(RefsLeft(o))
    BY <2>1, <2>3, <2>4, FS_RemoveElement, Zenon
  <2>6. CASE o # p
    <3>1. ref_count'[o] = ref_count[o]
      BY <1>1, <2>2, <2>6
    <3> QED
      BY <1>2, <1>3, <2>5, <2>6, <3>1
  <2>7. CASE o = p
    <3>1. ref_count'[o] = Decremented(ref_count[o])
      BY <1>1, <2>2, <2>7, NullAssumption
    <3>2. ref_count'[o] < RefModulus
      BY <1>1, <3>1, CounterTypes, DecrementAssumption
    <3>3. ASSUME IsOld(o)' PROVE ref_count'[o] = Cardinality(RefsLeft(o)')
      <4>1. Cardinality(RefsLeft(o)) # 0
        BY <2>3, <2>4, <2>7, FS_EmptySet
      <4>2. ref_count[o] = Cardinality(RefsLeft(o))
        BY <1>2, <1>3, <3>3
      <4>3. ref_count[o] > 0 /\ ref_count[o] < RefModulus /\ ref_count[o] \in Nat
        BY <1>1, <1>2, <4>1, <4>2
      <4>4. Decremented(ref_count[o]) = ref_count[o] - 1
        BY <4>3, CounterTypes
      <4> QED
        BY <2>5, <2>7, <3>1, <4>2, <4>4
    <3> QED
      BY <3>2, <3>3
  <2> QED
    BY <2>6, <2>7
<1>5. CASE ~DecrementSlot
  <2>1. RefsLeft(o)' = RefsLeft(o)
    BY <1>5, RefsLeftStep
  <2>2. ref_count' = ref_count
    BY <1>5, HeapKept DEF FreeObject
  <2> QED
    BY <1>2, <1>3, <2>1, <2>2
<1> QED
  BY <1>4, <1>5

(* An object with a reference left has a count.                            *)
LEMMA CountedIfReferred ==
  ASSUME Shape, Counts, NEW o \in Obj, IsOld(o), NEW r \in RefsLeft(o)
  PROVE  ref_count[o] > 0
<1>1. IsFiniteSet(RefsLeft(o)) /\ Cardinality(RefsLeft(o)) \in Nat
  BY RefsLeftFinite DEF Shape, DecTypeOK
<1>2. Cardinality(RefsLeft(o)) # 0
  BY <1>1, FS_EmptySet
<1>3. ref_count[o] = Cardinality(RefsLeft(o))
  BY DEF Counts
<1> QED
  BY <1>1, <1>2, <1>3

(* What an object's last reference is gone from is put where it is found.  *)
LEMMA GarbageStep ==
  ASSUME Shape, Shape', GarbageIsKnown, [DecAnyNext]_allDecVars
  PROVE  GarbageIsKnown'
<1> USE DEF Shape
<1> SUFFICES ASSUME NEW o \in Obj, IsOld(o)'
             PROVE  \/ isroot'[o]
                    \/ o \in OldRootsLeft'
                    \/ o \in Range(pending_decs')
                    \/ o = dec_obj'
                    \/ ref_count'[o] > 0
  BY DEF GarbageIsKnown
<1>1. isyoung' = isyoung /\ isalloc \in [Obj -> BOOLEAN]
  BY HeapKept DEF DecTypeOK, HeapTypeOK
<1>2. IsOld(o)
  BY <1>1, HeapKept DEF IsOld, FreeObject, DecrementSlot, DecTypeOK
<1>3. \/ isroot[o]
      \/ o \in OldRootsLeft
      \/ o \in Range(pending_decs)
      \/ o = dec_obj
      \/ ref_count[o] > 0
  BY <1>2 DEF GarbageIsKnown
<1>4. /\ DOMAIN old_roots = 1..Len(old_roots) /\ Len(old_roots) \in Nat
      /\ \A x \in Range(old_roots) : \E j \in 1..Len(old_roots) : x = old_roots[j]
      /\ \A j \in 1..Len(old_roots) : old_roots[j] \in Range(old_roots)
      /\ oldroots_idx \in Nat \ {0}
  BY SeqIndices DEF DecTypeOK, Range
<1>5. CASE SortRoots
  <2>1. OldRootsLeft = Range(old_roots)
    BY <1>5 DEF SortRoots, OldRootsLeft
  <2>2. OldRootsLeft' = Range(old_roots)
    <3>1. OldRootsLeft' = {old_roots[j] : j \in {i \in DOMAIN old_roots : i >= 1}}
      BY <1>5 DEF SortRoots, OldRootsLeft
    <3>2. {i \in DOMAIN old_roots : i >= 1} = DOMAIN old_roots
      BY <1>4
    <3> QED
      BY <3>1, <3>2 DEF Range
  <2> QED
    BY <1>3, <1>5, <2>1, <2>2 DEF SortRoots, heapVars, decVars
<1>6. CASE DropOldRoot
  <2> DEFINE e == old_roots[oldroots_idx]
  <2>1. Range(pending_decs') = Range(pending_decs) \cup {e}
    <3>1. e \in Obj
      BY <1>6, SeqIndices DEF DropOldRoot, DecTypeOK
    <3> QED
      BY <1>6, <3>1, AppendFacts DEF DropOldRoot, DecTypeOK
  <2>2. o \in OldRootsLeft => o \in OldRootsLeft' \/ o = e
    BY <1>4, <1>6 DEF DropOldRoot, OldRootsLeft
  <2> HIDE DEF e
  <2> QED
    BY <1>3, <1>6, <2>1, <2>2 DEF DropOldRoot, heapVars, decVars
<1>7. CASE PassRoot
  <2>1. o \in OldRootsLeft => o \in OldRootsLeft' \/ o \in Range(roots)
    <3>1. roots[roots_idx] \in Range(roots)
      BY <1>7, SeqIndices DEF PassRoot, DecTypeOK
    <3> QED
      BY <1>4, <1>7, <3>1 DEF PassRoot, OldRootsLeft
  <2>2. o \in Range(roots) => isroot[o]
    BY DEF RootLists
  <2> QED
    BY <1>3, <1>7, <2>1, <2>2 DEF PassRoot, heapVars, decVars
<1>8. CASE EndComputeDeadRoots
  <2>1. OldRootsLeft = {}
    BY <1>4, <1>8 DEF EndComputeDeadRoots, OldRootsLeft
  <2> QED
    BY <1>3, <1>8, <2>1 DEF EndComputeDeadRoots, heapVars, decVars
<1>9. CASE PopDecrement
  <2>1. Range(pending_decs) = Range(Tail(pending_decs)) \cup {Head(pending_decs)}
    BY <1>9, PopFrontFacts DEF PopDecrement, MayDecrement, DecTypeOK
  <2>2. Head(pending_decs) = o => dec_obj' = o
    BY <1>2, <1>9 DEF PopDecrement, ToFree, IsOld
  <2>3. dec_obj # o
    BY <1>9, NullAssumption DEF PopDecrement
  <2>4. OldRootsLeft' = OldRootsLeft
    BY <1>9 DEF PopDecrement, OldRootsLeft, mergeVars
  <2> QED
    BY <1>3, <1>9, <2>1, <2>2, <2>3, <2>4 DEF PopDecrement, heapVars
<1>10. CASE DecrementSlot
  <2> DEFINE p == slots[dec_obj][dec_slot]
  <2>1. OldRootsLeft' = OldRootsLeft
    BY <1>10 DEF DecrementSlot, OldRootsLeft, mergeVars
  <2>2. Range(pending_decs) \subseteq Range(pending_decs')
    <3>1. \/ pending_decs' = pending_decs
          \/ p \in Obj /\ pending_decs' = Append(pending_decs, p)
      BY <1>10, SlotFacts
    <3>2. \A e \in Obj : Range(Append(pending_decs, e)) = Range(pending_decs) \cup {e}
      BY AppendFacts DEF DecTypeOK
    <3> HIDE DEF p
    <3> QED
      BY <3>1, <3>2
  <2>3. CASE o = p
    <3>1. p # NULL
      BY <2>3, NullAssumption
    <3>2. ref_count'[o] \in Nat
      BY DEF DecTypeOK, HeapTypeOK
    <3>3. CASE ref_count'[o] = 0 /\ ~isroot[o]
      <4>1. pending_decs' = Append(pending_decs, o)
        BY <1>10, <2>3, <3>1, <3>3 DEF DecrementSlot, Dies
      <4>2. Range(pending_decs') = Range(pending_decs) \cup {o}
        BY <4>1, AppendFacts DEF DecTypeOK
      <4> QED
        BY <4>2
    <3> QED
      BY <1>10, <3>2, <3>3 DEF DecrementSlot
  <2>4. CASE o # p
    <3>1. ref_count'[o] = ref_count[o]
      BY <1>10, <2>4 DEF DecrementSlot, DecTypeOK, HeapTypeOK
    <3> QED
      BY <1>3, <1>10, <2>1, <2>2, <3>1 DEF DecrementSlot
  <2> QED
    BY <2>3, <2>4
<1>11. CASE FreeObject
  <2>1. o # dec_obj
    BY <1>1, <1>11 DEF FreeObject, IsOld
  <2>2. OldRootsLeft' = OldRootsLeft
    BY <1>11 DEF FreeObject, OldRootsLeft, mergeVars
  <2> QED
    BY <1>3, <1>11, <2>1, <2>2 DEF FreeObject
<1>12. CASE EndProcessDecrements
  <2>1. OldRootsLeft' = OldRootsLeft
    BY <1>12 DEF EndProcessDecrements, OldRootsLeft, mergeVars
  <2> QED
    BY <1>3, <1>12, <2>1 DEF EndProcessDecrements, heapVars
<1>13. CASE RootsBecomeOldRoots
  <2>1. OldRootsLeft = {} /\ OldRootsLeft' = Range(roots)
    BY <1>13 DEF RootsBecomeOldRoots, OldRootsLeft
  <2>2. isroot[o] => o \in Range(roots)
    BY DEF RootLists
  <2> QED
    BY <1>3, <1>13, <2>1, <2>2 DEF RootsBecomeOldRoots, decVars
<1>14. ASSUME NEW S \in SUBSET Obj, Collect(S)
       PROVE  \/ isroot'[o]
              \/ o \in OldRootsLeft'
              \/ o \in Range(pending_decs')
              \/ o = dec_obj'
              \/ ref_count'[o] > 0
  <2>1. OldRootsLeft = Range(old_roots) /\ OldRootsLeft' = Range(old_roots)
    BY <1>14 DEF Collect, OldRootsLeft, mergeVars
  <2>2. ~isroot[o]
    <3>1. roots = <<>> /\ Range(<<>>) = {}
      BY <1>14 DEF Collect, RootLists, Range
    <3> QED
      BY <3>1 DEF RootLists
  <2> QED
    BY <1>3, <1>14, <2>1, <2>2 DEF Collect, decVars
<1>15. CASE UNCHANGED allDecVars
  BY <1>3, <1>15 DEF OldRootsLeft, allDecVars, heapVars, mergeVars, decVars
<1> QED
  BY <1>5, <1>6, <1>7, <1>8, <1>9, <1>10, <1>11, <1>12, <1>13, <1>14, <1>15, Zenon
     DEF DecAnyNext, DecrementNext

(* No step changes a pointer of an old object. *)
LEMMA AcyclicStep ==
  ASSUME Acyclic, [DecAnyNext]_allDecVars
  PROVE  Acyclic'
<1>1. slots' = slots
  BY HeapKept
<1> QED
  BY <1>1 DEF Acyclic, ReachableFrom, Closed, Children

(* In an initial state everything is as a collection leaves it.            *)
LEMMA InitShape ==
  ASSUME DecInit
  PROVE  Shape
<1>1. old_roots \in Seq(Obj) /\ Range(old_roots) \subseteq {o \in Obj : IsOld(o)}
  <2>1. old_roots \in Seq({o \in Obj : IsOld(o)})
    BY DEF DecInit
  <2>2. /\ DOMAIN old_roots = 1..Len(old_roots) /\ Len(old_roots) \in Nat
        /\ \A i \in 1..Len(old_roots) : old_roots[i] \in {o \in Obj : IsOld(o)}
        /\ Range(old_roots) \subseteq {o \in Obj : IsOld(o)}
    BY <2>1, SeqIndices
  <2>3. old_roots \in [1..Len(old_roots) -> Obj]
    BY <2>1, <2>2, LenProperties
  <2> QED
    BY <2>2, <2>3
<1>2. /\ \A S : <<>> \in Seq(S)
      /\ Range(<<>>) = {} /\ Rising(<<>>) /\ Distinct(<<>>)
  BY EmptySeq DEF Range, Rising, Distinct
<1>3. DecTypeOK
  <2>1. 0 \in 0..max_decrement_count /\ 0 \in 0..(PendingModulus - 1)
    BY DecrementAssumption
  <2> QED
    BY <1>1, <1>2, <2>1 DEF DecInit, DecTypeOK, DecPhases
<1>4. BeingFreed
  BY DEF DecInit, BeingFreed
<1>5. OldOnes
  BY <1>1, <1>2 DEF DecInit, OldOnes, Quiescent, IsOld
<1>6. RootLists
  BY <1>2 DEF DecInit, RootLists, Rising, Quiescent
<1> QED
  BY <1>3, <1>4, <1>5, <1>6 DEF Shape

(* What is in use is old and allocated.                                    *)
LEMMA InitHeldOld ==
  ASSUME DecInit
  PROVE  ReachableFrom(Held) \subseteq {o \in Obj : IsOld(o)}
<1> DEFINE Old == {o \in Obj : IsOld(o)}
<1>1. Held \subseteq Old
  <2>1. Held = Range(old_roots) /\ old_roots \in Seq(Old)
    BY DEF DecInit, Held
  <2> HIDE DEF Old
  <2> QED
    BY <2>1, SeqIndices
<1>2. Closed(Old)
  <2>1. HeapTypeOK
    BY DEF DecInit
  <2> QED
    BY <2>1, ChildrenType DEF DecInit, Quiescent, Closed, IsOld
<1> QED
  BY <1>1, <1>2, ReachableLeast

(* The invariant holds at first. *)
LEMMA InitInvariant ==
  ASSUME DecInit
  PROVE  IInv
<1>1. Shape
  BY InitShape
<1>2. FreelistsSound /\ Acyclic
  BY DEF DecInit, FreelistsSound, Quiescent
<1>3. ASSUME NEW o \in Obj PROVE RefsLeft(o) = RefsTo(o)
  <2>1. dec_obj \notin Obj
    BY NullAssumption DEF DecInit
  <2>2. \A r \in RefsTo(o) : r[1] \in Obj
    BY RefsElement
  <2> QED
    BY <2>1, <2>2 DEF RefsLeft
<1>4. Counts
  BY <1>3 DEF DecInit, Counts, CountsExact
<1>5. GarbageIsKnown
  <2> SUFFICES ASSUME NEW o \in Obj, IsOld(o), o \notin OldRootsLeft
               PROVE  ref_count[o] > 0
    BY DEF GarbageIsKnown
  <2>1. o \in ReachableFrom(Held) /\ o \notin Held /\ Held \in SUBSET Obj
    <3>1. Held = Range(old_roots) /\ OldRootsLeft = Range(old_roots)
      BY DEF DecInit, Held, OldRootsLeft
    <3>2. Range(old_roots) \subseteq Obj
      BY <1>1, SeqIndices DEF Shape, DecTypeOK
    <3> QED
      BY <3>1, <3>2 DEF DecInit
  <2>2. HeapTypeOK
    BY DEF DecInit
  <2>3. PICK x \in ReachableFrom(Held) : o \in Children(x)
    BY <2>1, <2>2, ReachableStep
  <2>4. x \in Obj /\ IsOld(x)
    BY InitHeldOld
  <2>5. PICK r \in RefsTo(o) : TRUE
    BY <2>2, <2>3, <2>4, ReferredTo
  <2> QED
    BY <1>1, <1>3, <1>4, <2>5, CountedIfReferred
<1> QED
  BY <1>1, <1>2, <1>4, <1>5 DEF IInv

(* Theorem: the invariant holds in every state of every program that       *)
(* allocates nothing (processDecrements, computeDeadRootsForDecrement).    *)
THEOREM DecInvariant == DecAnySpec => []IInv
<1>1. DecInit => IInv
  BY InitInvariant
<1>2. IInv /\ [DecAnyNext]_allDecVars => IInv'
  BY ShapeStep, FreelistsStep, CountsStep, GarbageStep, AcyclicStep, Zenon DEF IInv
<1> QED
  BY <1>1, <1>2, PTL DEF DecAnySpec

-----------------------------------------------------------------------------
(***************************************************************************)
(* What the invariant implies.                                             *)
(***************************************************************************)

(* Theorem: every step of a collection, and every program, leaves the      *)
(* variables within their types; in particular no counter leaves its       *)
(* width, the freelists and lists hold objects, and the budget holds.      *)
THEOREM DecTypes == DecAnySpec => []DecTypeOK
<1>1. IInv => DecTypeOK
  BY DEF IInv, Shape
<1> QED
  BY <1>1, DecInvariant, PTL

(* Theorem: a free entry is on its page's freelist once, and holds no      *)
(* object, whatever the program does (processDecrements).                  *)
THEOREM DecFreelistsSound == DecAnySpec => []FreelistsSound
<1>1. IInv => FreelistsSound
  BY DEF IInv
<1> QED
  BY <1>1, DecInvariant, PTL

(* Theorem: the counts are exact at every step of freeing an object, so    *)
(* that no DEC_REF_COUNT ever wraps around below zero.                     *)
THEOREM DecCountsExact == DecAnySpec => []CountsExactWhileFreeing
<1>1. IInv => CountsExactWhileFreeing
  BY DEF IInv, Counts, RefsLeft, CountsExactWhileFreeing
<1> QED
  BY <1>1, DecInvariant, PTL

(* Everything reachable from o is also reachable from what points to it,   *)
(* and that reaches o, which does not reach itself.                        *)
LEMMA ReachesMore ==
  ASSUME HeapTypeOK, Acyclic, NEW x \in Obj, NEW o \in Obj, o \in Children(x)
  PROVE  Cardinality(Obj \ ReachableFrom(Children(x)))
           < Cardinality(Obj \ ReachableFrom(Children(o)))
<1> DEFINE X == Obj \ ReachableFrom(Children(x))
           O == Obj \ ReachableFrom(Children(o))
<1>1. /\ Children(x) \in SUBSET Obj
      /\ Children(o) \in SUBSET Obj
  BY ChildrenType
<1>2. o \in ReachableFrom(Children(x))
  BY <1>1, ReachableContains
<1>3. Children(o) \subseteq ReachableFrom(Children(x))
  BY <1>1, <1>2, ReachableClosed
<1>4. ReachableFrom(Children(o)) \subseteq ReachableFrom(Children(x))
  BY <1>1, <1>3, ReachableMonotonic
<1>5. o \in O /\ o \notin X /\ X \in SUBSET O
  BY <1>2, <1>4 DEF Acyclic
<1>6. IsFiniteSet(O)
  <2>1. O \in SUBSET Obj
    OBVIOUS
  <2> QED
    BY <2>1, FS_Subset, HeapAssumption
<1> HIDE DEF X, O
<1>7. /\ IsFiniteSet(X)
      /\ Cardinality(X) <= Cardinality(O)
      /\ Cardinality(O) # Cardinality(X)
  BY <1>5, <1>6, FS_Subset
<1>8. Cardinality(X) \in Nat /\ Cardinality(O) \in Nat
  BY <1>6, <1>7, FS_CardinalityType
<1>9. Cardinality(X) < Cardinality(O)
  BY <1>7, <1>8
<1> QED
  BY <1>9 DEF X, O

(* If every object of a set has an object of the set that points to it,    *)
(* there are none, as no pointers lead round in a circle.                  *)
LEMMA NoEndlessChain ==
  ASSUME HeapTypeOK, Acyclic, NEW G \in SUBSET Obj,
         \A o \in G : \E x \in G : o \in Children(x)
  PROVE  G = {}
<1> SUFFICES ASSUME G # {} PROVE FALSE
  OBVIOUS
<1> DEFINE left(o) == Cardinality(Obj \ ReachableFrom(Children(o)))
           T == {left(o) : o \in G}
<1>1. T \in SUBSET Nat
  <2>1. ASSUME NEW o \in G PROVE left(o) \in Nat
    <3>1. Obj \ ReachableFrom(Children(o)) \in SUBSET Obj
      OBVIOUS
    <3> QED
      BY <3>1, FS_Subset, FS_CardinalityType, HeapAssumption
  <2> QED
    BY <2>1
<1>2. T # {}
  OBVIOUS
<1>3. PICK n \in T : \A m \in T : n <= m
  <2> HIDE DEF T
  <2> QED
    BY <1>1, <1>2, LeastNatural
<1>4. PICK o \in G : n = left(o)
  OBVIOUS
<1>5. PICK x \in G : o \in Children(x)
  OBVIOUS
<1>6. left(x) < left(o) /\ left(x) \in T /\ left(o) \in T
  BY <1>5, ReachesMore
<1> HIDE DEF left, T
<1>7. left(o) <= left(x) /\ left(x) \in Nat /\ left(o) \in Nat
  BY <1>1, <1>3, <1>4, <1>6
<1> QED
  BY <1>6, <1>7

(* An old object with a reference left is one that an old object points to. *)
LEMMA ReferredBy ==
  ASSUME Shape, Counts, NEW o \in Obj, IsOld(o), ref_count[o] > 0
  PROVE  \E x \in Obj : IsOld(x) /\ o \in Children(x)
<1>1. IsFiniteSet(RefsLeft(o)) /\ ref_count[o] = Cardinality(RefsLeft(o))
  BY RefsLeftFinite DEF Shape, DecTypeOK, Counts
<1>2. RefsLeft(o) # {}
  BY <1>1, FS_EmptySet
<1>3. PICK r \in RefsLeft(o) : TRUE
  BY <1>2
<1>4. r = <<r[1], r[2]>>
  BY RefsLeftElement
<1>5. /\ r[1] \in Obj /\ IsOld(r[1])
      /\ r[2] \in DOMAIN slots[r[1]] /\ slots[r[1]][r[2]] = o
  <2>1. <<r[1], r[2]>> \in RefsLeft(o)
    BY <1>4, Zenon
  <2> QED
    BY <2>1, RefsLeftElement
<1> QED
  BY <1>5, NullAssumption DEF Children, Range

(* Theorem: once a collection finds pending_decs empty, every old object   *)
(* left is reachable from the roots, whatever the program does: garbage    *)
(* is always known to the root arrays, to pending_decs or by a count, and  *)
(* a count leads back to one of the others because values are acyclic.     *)
THEOREM DecNoFloatingGarbage == DecAnySpec => []NoFloatingGarbage
<1>1. ASSUME IInv PROVE NoFloatingGarbage
  <2> SUFFICES ASSUME pc \in {"processCollectorPages", "mutator"}, pending_decs = <<>>
               PROVE  \A o \in Obj : IsOld(o) => o \in ReachableFrom(Held)
    BY DEF NoFloatingGarbage
  <2> USE <1>1 DEF IInv, Shape
  <2> DEFINE G == {o \in Obj : IsOld(o) /\ o \notin ReachableFrom(Held)}
  <2>1. Held \in SUBSET Obj
    BY SeqIndices DEF Held, DecTypeOK
  <2>2. ASSUME NEW o \in G PROVE \E x \in G : o \in Children(x)
    <3>1. o \notin Held
      BY <2>1, ReachableContains
    <3>2. ~isroot[o]
      <4>1. roots = <<>> => Range(roots) = {}
        BY DEF Range
      <4> QED
        BY <3>1, <4>1 DEF RootLists, Held
    <3>3. o \notin OldRootsLeft
      BY <3>1 DEF OldRootsLeft, Held
    <3>4. o # dec_obj
      BY NullAssumption DEF BeingFreed
    <3>5. o \notin Range(pending_decs)
      BY DEF Range
    <3>6. ref_count[o] > 0
      BY <3>2, <3>3, <3>4, <3>5 DEF GarbageIsKnown
    <3>7. PICK x \in Obj : IsOld(x) /\ o \in Children(x)
      BY <3>6, ReferredBy
    <3>8. x \notin ReachableFrom(Held)
      BY <3>7, ReachableClosed
    <3> QED
      BY <3>7, <3>8
  <2> HIDE DEF G
  <2>3. G \in SUBSET Obj
    BY DEF G
  <2>4. G = {}
    BY <2>2, <2>3, NoEndlessChain DEF DecTypeOK
  <2> QED
    BY <2>4 DEF G
<1> QED
  BY <1>1, DecInvariant, PTL

-----------------------------------------------------------------------------
(***************************************************************************)
(* Nothing reachable is freed, as long as a dropped root is dropped for    *)
(* good.                                                                   *)
(***************************************************************************)

(* What is in use is not young.                                            *)
LEMMA HeldNotYoung ==
  ASSUME Shape
  PROVE  /\ Held \in SUBSET Obj
         /\ ReachableFrom(Held) \subseteq {o \in Obj : ~isyoung[o]}
<1> USE DEF Shape
<1>1. Range(roots) \subseteq Obj /\ Range(old_roots) \subseteq Obj
  BY SeqIndices DEF DecTypeOK
<1>2. Held \subseteq {o \in Obj : ~isyoung[o]}
  BY <1>1 DEF Held, OldOnes
<1>3. Closed({o \in Obj : ~isyoung[o]})
  BY ChildrenType DEF OldOnes, Closed, DecTypeOK
<1> QED
  BY <1>2, <1>3, ReachableLeast

(* The merge drops no object that is still a root: the roots before it are *)
(* smaller, and those after it larger.                                     *)
LEMMA DroppedIsNoRoot ==
  ASSUME Shape, DropOldRoot
  PROVE  old_roots[oldroots_idx] \notin Range(roots)
<1> USE DEF Shape
<1> DEFINE e == old_roots[oldroots_idx]
<1>1. /\ DOMAIN old_roots = 1..Len(old_roots) /\ Len(old_roots) \in Nat
      /\ \A j \in DOMAIN old_roots : old_roots[j] \in Int
  <2>1. old_roots \in Seq(Obj) /\ Obj \subseteq Int
    BY DecrementAssumption DEF DecTypeOK
  <2> QED
    BY <2>1, SeqIndices
<1>2. /\ DOMAIN roots = 1..Len(roots) /\ Len(roots) \in Nat
      /\ \A j \in DOMAIN roots : roots[j] \in Int
  <2>1. roots \in Seq(Obj) /\ Obj \subseteq Int
    BY DecrementAssumption DEF DecTypeOK
  <2> QED
    BY <2>1, SeqIndices
<1>3. roots_idx \in Nat \ {0} /\ oldroots_idx \in DOMAIN old_roots
  BY <1>1 DEF DecTypeOK, DropOldRoot
<1> SUFFICES ASSUME NEW i \in DOMAIN roots, roots[i] = e
             PROVE  FALSE
  BY DEF Range
<1>4. CASE i < roots_idx
  <2>1. roots[i] < e
    BY <1>1, <1>3, <1>4 DEF RootLists, Merged, DropOldRoot
  <2> QED
    BY <1>2, <2>1
<1>5. CASE i >= roots_idx
  <2>1. roots_idx \in DOMAIN roots
    BY <1>2, <1>3, <1>5
  <2>2. e < roots[roots_idx]
    BY <1>2, <2>1 DEF DropOldRoot
  <2>3. roots_idx < i => roots[roots_idx] < roots[i]
    BY <2>1 DEF RootLists, Rising, DropOldRoot
  <2>4. i = roots_idx \/ roots_idx < i
    BY <1>2, <1>3, <1>5
  <2>5. e \in Int /\ roots[roots_idx] \in Int
    BY <1>1, <1>2, <1>3, <2>1
  <2> HIDE DEF e
  <2>6. e < roots[i]
    BY <1>2, <2>2, <2>3, <2>4, <2>5
  <2> QED
    BY <2>5, <2>6
<1> QED
  BY <1>2, <1>3, <1>4, <1>5

(* An object in use that is not a root itself has a reference left.        *)
LEMMA LiveIsCounted ==
  ASSUME Shape, Counts, LiveOnesStay, NEW o \in ReachableFrom(Held), o \notin Held
  PROVE  \E x \in Obj : /\ IsOld(x) /\ x # dec_obj
                        /\ \E k \in DOMAIN slots[x] : slots[x][k] = o
<1>1. Held \in SUBSET Obj /\ ReachableFrom(Held) \subseteq {x \in Obj : ~isyoung[x]}
  BY HeldNotYoung
<1>2. HeapTypeOK
  BY DEF Shape, DecTypeOK
<1>3. PICK x \in ReachableFrom(Held) : o \in Children(x)
  BY <1>1, <1>2, ReachableStep
<1>4. x \in Obj /\ IsOld(x) /\ x # dec_obj
  BY <1>1 DEF LiveOnesStay, IsOld
<1>5. o \in Obj
  BY <1>1
<1>6. PICK k \in DOMAIN slots[x] : slots[x][k] = o
  BY <1>2, <1>3, <1>4, <1>5, ReferredTo
<1> QED
  BY <1>4, <1>6

(* What is reachable stays off the list of what is to be freed. *)
LEMMA LiveOnesStep ==
  ASSUME Shape, Shape', Counts, Counts', LiveOnesStay, [DecNext]_allDecVars
  PROVE  LiveOnesStay'
<1> USE DEF Shape
<1> DEFINE Live == ReachableFrom(Held)
<1>0. /\ slots' = slots
      /\ Held \in SUBSET Obj /\ Live \subseteq {o \in Obj : ~isyoung[o]}
      /\ HeapTypeOK
  <2>1. [DecAnyNext]_allDecVars
    BY DEF DecNext, DecAnyNext
  <2> QED
    BY <2>1, HeapKept, HeldNotYoung DEF DecTypeOK
<1>1. ASSUME Held' = Held PROVE Live' = Live
  BY <1>0, <1>1 DEF ReachableFrom, Closed, Children
<1>2. \A o \in Live : isalloc[o] /\ o \notin Range(pending_decs) /\ o # dec_obj
  BY DEF LiveOnesStay
<1>3. pc \in {"evacuated", "computeDeadRoots"} =>
        \A o \in Range(old_roots) : o \in Range(roots) \/ o \notin Live
  BY DEF LiveOnesStay
<1> HIDE DEF Live
<1> SUFFICES /\ \A o \in Live' :
                  isalloc'[o] /\ o \notin Range(pending_decs') /\ o # dec_obj'
             /\ pc' \in {"evacuated", "computeDeadRoots"} =>
                  \A o \in Range(old_roots') : o \in Range(roots') \/ o \notin Live'
  BY DEF LiveOnesStay, Live
<1>4. CASE SortRoots
  <2>1. Range(roots') = Range(roots)
    <3>1. Obj \in SUBSET Int /\ roots \in Seq(Obj) /\ Distinct(roots)
      BY DecrementAssumption DEF DecTypeOK, RootLists
    <3>2. Range(qsort(roots, 1, Len(roots))) = Range(roots)
      BY <3>1, SortedDistinct
    <3> QED
      BY <1>4, <3>2 DEF SortRoots
  <2>2. Live' = Live
    <3>1. Held' = Held
      BY <1>4, <2>1 DEF SortRoots, Held
    <3> QED
      BY <1>1, <3>1
  <2> QED
    BY <1>2, <1>3, <1>4, <2>1, <2>2 DEF SortRoots, heapVars, decVars
<1>5. CASE DropOldRoot
  <2> DEFINE e == old_roots[oldroots_idx]
  <2>1. Live' = Live
    <3>1. Held' = Held
      BY <1>5 DEF DropOldRoot, Held
    <3> QED
      BY <1>1, <3>1
  <2>2. e \in Obj /\ e \in Range(old_roots)
    BY <1>5, SeqIndices DEF DropOldRoot, DecTypeOK
  <2>3. e \notin Live
    BY <1>3, <1>5, <2>2, DroppedIsNoRoot DEF DropOldRoot
  <2>4. Range(pending_decs') = Range(pending_decs) \cup {e}
    BY <1>5, <2>2, AppendFacts DEF DropOldRoot, DecTypeOK
  <2> HIDE DEF e
  <2> QED
    BY <1>2, <1>3, <1>5, <2>1, <2>3, <2>4 DEF DropOldRoot, heapVars, decVars
<1>6. CASE PassRoot
  <2>1. Live' = Live
    <3>1. Held' = Held
      BY <1>6 DEF PassRoot, Held
    <3> QED
      BY <1>1, <3>1
  <2> QED
    BY <1>2, <1>3, <1>6, <2>1 DEF PassRoot, heapVars, decVars
<1>7. CASE EndComputeDeadRoots
  <2>1. Live' = Live
    <3>1. Held' = Held
      BY <1>7 DEF EndComputeDeadRoots, Held
    <3> QED
      BY <1>1, <3>1
  <2> QED
    BY <1>2, <1>7, <2>1 DEF EndComputeDeadRoots, heapVars, decVars
<1>8. CASE PopDecrement
  <2>1. Live' = Live
    <3>1. Held' = Held
      BY <1>8 DEF PopDecrement, Held, mergeVars
    <3> QED
      BY <1>1, <3>1
  <2>2. /\ Range(Tail(pending_decs)) \subseteq Range(pending_decs)
        /\ Head(pending_decs) \in Range(pending_decs)
    BY <1>8, PopFrontFacts DEF PopDecrement, MayDecrement, DecTypeOK
  <2>3. Live \subseteq Obj
    BY <1>0
  <2> QED
    BY <1>2, <1>8, <2>1, <2>2, <2>3, NullAssumption DEF PopDecrement, ToFree, heapVars
<1>9. CASE DecrementSlot
  <2> DEFINE p == slots[dec_obj][dec_slot]
  <2>1. Live' = Live
    <3>1. Held' = Held
      BY <1>9 DEF DecrementSlot, Held, mergeVars
    <3> QED
      BY <1>1, <3>1
  <2>2. CASE pending_decs' = pending_decs
    BY <1>2, <1>9, <2>1, <2>2 DEF DecrementSlot
  <2>3. CASE pending_decs' # pending_decs
    <3>1. p \in Obj /\ Dies(p, ref_count'[p]) /\ pending_decs' = Append(pending_decs, p)
      BY <1>9, <2>3, SlotFacts
    <3> PICK q \in Obj : q = p
      BY <3>1
    <3>2. ref_count'[q] = 0 /\ ~isroot[q] /\ pending_decs' = Append(pending_decs, q)
      BY <3>1 DEF Dies
    <3>3. Range(pending_decs') = Range(pending_decs) \cup {q}
      BY <3>2, AppendFacts DEF DecTypeOK
    <3>4. q \notin Live
      <4> SUFFICES ASSUME q \in Live PROVE FALSE
        OBVIOUS
      <4>1. q \notin Held
        BY <1>9, <3>2 DEF DecrementSlot, Held, RootLists
      <4>2. PICK x \in Obj : /\ IsOld(x) /\ x # dec_obj
                             /\ \E k \in DOMAIN slots[x] : slots[x][k] = q
        BY <4>1, LiveIsCounted DEF Live
      <4>3. PICK k \in DOMAIN slots[x] : slots[x][k] = q
        BY <4>2
      <4>4. UNCHANGED <<isalloc, isyoung, slots, dec_obj>>
        BY <1>9 DEF DecrementSlot
      <4>5. <<x, k>> \in RefsLeft(q)'
        BY <4>2, <4>3, <4>4, RefsLeftElementNext DEF IsOld
      <4>6. IsOld(q)'
        BY <1>0, <1>2, <4>4 DEF IsOld
      <4>7. ref_count'[q] = Cardinality(RefsLeft(q)')
        BY <4>6 DEF Counts
      <4>8. IsFiniteSet(RefsLeft(q)')
        <5>1. [DecAnyNext]_allDecVars
          BY <1>9 DEF DecAnyNext, DecrementNext
        <5>2. RefsLeft(q)' = RefsLeft(q) \ {<<dec_obj, dec_slot>>}
          BY <1>9, <5>1, RefsLeftStep
        <5>3. IsFiniteSet(RefsLeft(q))
          BY <1>0, RefsLeftFinite
        <5> QED
          <6>1. IsFiniteSet(RefsLeft(q) \ {<<dec_obj, dec_slot>>})
            BY <5>3, FS_RemoveElement, Zenon
          <6> QED
            BY <5>2, <6>1
      <4>9. Cardinality(RefsLeft(q)') # 0
        BY <4>5, <4>8, FS_EmptySet
      <4> QED
        BY <3>2, <4>7, <4>9
    <3> QED
      BY <1>2, <1>9, <2>1, <3>3, <3>4 DEF DecrementSlot
  <2> QED
    BY <2>2, <2>3
<1>10. CASE FreeObject
  <2>1. Live' = Live
    <3>1. Held' = Held
      BY <1>10 DEF FreeObject, Held, mergeVars
    <3> QED
      BY <1>1, <3>1
  <2>2. \A o \in Live : o # dec_obj /\ o \in Obj
    BY <1>0, <1>2
  <2>3. \A o \in Live : isalloc'[o] = isalloc[o]
    BY <1>0, <1>10, <2>2 DEF FreeObject, HeapTypeOK
  <2> QED
    BY <1>2, <1>10, <2>1, <2>2, <2>3, NullAssumption DEF FreeObject
<1>11. CASE EndProcessDecrements
  <2>1. Live' = Live
    <3>1. Held' = Held
      BY <1>11 DEF EndProcessDecrements, Held, mergeVars
    <3> QED
      BY <1>1, <3>1
  <2> QED
    BY <1>2, <1>11, <2>1 DEF EndProcessDecrements, heapVars
<1>12. CASE RootsBecomeOldRoots
  <2>1. Live' = Live
    <3>1. Held' = Held
      BY <1>12 DEF RootsBecomeOldRoots, Held
    <3> QED
      BY <1>1, <3>1
  <2> QED
    BY <1>2, <1>12, <2>1 DEF RootsBecomeOldRoots, decVars
<1>13. ASSUME NEW S \in SUBSET Obj, DropsForGood(S), Collect(S)
       PROVE  /\ \A o \in Live' :
                   isalloc'[o] /\ o \notin Range(pending_decs') /\ o # dec_obj'
              /\ pc' \in {"evacuated", "computeDeadRoots"} =>
                   \A o \in Range(old_roots') : o \in Range(roots') \/ o \notin Live'
  <2>1. Held = Range(old_roots) /\ Held' = S /\ Range(roots') = S
    BY <1>13 DEF Collect, Held
  <2>2. Live' = ReachableFrom(S)
    <3>1. Live' = ReachableFrom(Held)'
      BY DEF Live
    <3> QED
      BY <1>0, <2>1, <3>1 DEF ReachableFrom, Closed, Children
  <2>3. ReachableFrom(S) \subseteq Live
    BY <1>0, <1>13, ReachableMonotonic DEF Collect, Live
  <2>4. \A o \in Range(old_roots) : o \in S \/ o \notin ReachableFrom(S)
    BY <1>13, <2>1 DEF DropsForGood
  <2> QED
    BY <1>2, <1>13, <2>1, <2>2, <2>3, <2>4 DEF Collect, mergeVars, decVars
<1>14. CASE UNCHANGED allDecVars
  <2>1. Live' = Live
    <3>1. Held' = Held
      BY <1>14 DEF allDecVars, mergeVars, Held
    <3> QED
      BY <1>1, <3>1
  <2> QED
    BY <1>2, <1>3, <1>14, <2>1 DEF allDecVars, heapVars, mergeVars, decVars
<1> QED
  BY <1>4, <1>5, <1>6, <1>7, <1>8, <1>9, <1>10, <1>11, <1>12, <1>13, <1>14, Zenon
     DEF DecNext, DecrementNext

(* Theorem: nothing that a root leads to is ever freed, if a root that the *)
(* program drops is not in use through another object (processDecrements). *)
(* computeDeadRootsForDecrement (gc.cpp:35) gives up a dropped root        *)
(* without a look at its count, which is why the hypothesis is needed.     *)
THEOREM DecNoLiveObjectFreed == DecSpec => []NoLiveObjectFreed
<1>1. DecInit => IInv /\ LiveOnesStay
  <2> SUFFICES ASSUME DecInit PROVE IInv /\ LiveOnesStay
    OBVIOUS
  <2>1. Range(pending_decs) = {}
    BY DEF DecInit, Range
  <2>2. ReachableFrom(Held) \subseteq {o \in Obj : IsOld(o)}
    BY InitHeldOld
  <2> QED
    BY <2>1, <2>2, InitInvariant, NullAssumption DEF DecInit, LiveOnesStay, IsOld
<1>2. IInv /\ LiveOnesStay /\ [DecNext]_allDecVars => (IInv /\ LiveOnesStay)'
  <2> SUFFICES ASSUME IInv, LiveOnesStay, [DecNext]_allDecVars
               PROVE  IInv' /\ LiveOnesStay'
    OBVIOUS
  <2>1. [DecAnyNext]_allDecVars
    BY DEF DecNext, DecAnyNext
  <2>2. IInv'
    BY <2>1, ShapeStep, FreelistsStep, CountsStep, GarbageStep, AcyclicStep, Zenon DEF IInv
  <2>3. LiveOnesStay'
    BY <2>2, LiveOnesStep, Zenon DEF IInv
  <2> QED
    BY <2>2, <2>3
<1>3. LiveOnesStay => NoLiveObjectFreed
  BY DEF LiveOnesStay, NoLiveObjectFreed
<1> QED
  BY <1>1, <1>2, <1>3, PTL DEF DecSpec
=============================================================================
