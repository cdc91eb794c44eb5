------------------------------ MODULE SeqFacts ------------------------------
(***************************************************************************)
(* Facts about sequences as work lists: what a push, a pop from either end *)
(* and a concatenation hold, and that none of them makes two elements      *)
(* equal that were not.  Then induction over sets of natural numbers.      *)
(***************************************************************************)
EXTENDS Integers, Sequences, Functions, SequenceTheorems, WellFoundedInduction, TLAPS

(* No element of s is at two places. *)
Distinct(s) == \A i, j \in DOMAIN s : s[i] = s[j] => i = j

(* What push_back of an ArrayList leaves in it. *)
LEMMA AppendFacts ==
  ASSUME NEW S, NEW s \in Seq(S), NEW e \in S
  PROVE  /\ Append(s, e) \in Seq(S)
         /\ Len(Append(s, e)) = Len(s) + 1
         /\ DOMAIN Append(s, e) = DOMAIN s \cup {Len(s) + 1}
         /\ \A i \in DOMAIN s : Append(s, e)[i] = s[i]
         /\ Append(s, e)[Len(s) + 1] = e
         /\ Range(Append(s, e)) = Range(s) \cup {e}
<1>1. /\ Append(s, e) \in Seq(S)
      /\ Len(Append(s, e)) = Len(s) + 1
      /\ DOMAIN Append(s, e) = DOMAIN s \cup {Len(s) + 1}
      /\ \A i \in DOMAIN s : Append(s, e)[i] = s[i]
      /\ Append(s, e)[Len(s) + 1] = e
  BY AppendProperties, LenProperties
<1>2. Len(s) + 1 \notin DOMAIN s
  BY LenProperties
<1>3. Range(Append(s, e)) = Range(s) \cup {e}
  BY <1>1, <1>2, Zenon DEF Range
<1> QED
  BY <1>1, <1>3

(* What pop_front takes from an ArrayList and leaves of it. *)
LEMMA PopFrontFacts ==
  ASSUME NEW S, NEW s \in Seq(S), s # <<>>
  PROVE  /\ Tail(s) \in Seq(S)
         /\ Head(s) \in S
         /\ Head(s) \in Range(s)
         /\ Range(s) = Range(Tail(s)) \cup {Head(s)}
<1>1. Len(s) \in Nat \ {0} /\ DOMAIN s = 1..Len(s)
  BY EmptySeq, LenProperties
<1>2. /\ Tail(s) \in Seq(S) /\ Head(s) \in S
      /\ Len(Tail(s)) = Len(s) - 1
      /\ \A i \in 1..Len(Tail(s)) : Tail(s)[i] = s[i + 1]
  BY HeadTailProperties
<1>3. DOMAIN Tail(s) = 1..(Len(s) - 1)
  BY <1>2, LenProperties
<1>4. Head(s) = s[1]
  BY <1>1
<1>5. \A i \in 1..(Len(s) - 1) : Tail(s)[i] = s[i + 1]
  BY <1>1, <1>2
<1>6. Range(Tail(s)) \subseteq Range(s)
  BY <1>1, <1>3, <1>5 DEF Range
<1>7. \A i \in DOMAIN s : s[i] \in Range(Tail(s)) \cup {Head(s)}
  <2> SUFFICES ASSUME NEW i \in 1..Len(s), i # 1
               PROVE  s[i] \in Range(Tail(s))
    BY <1>1, <1>4
  <2>1. i - 1 \in 1..(Len(s) - 1) /\ s[i] = Tail(s)[i - 1]
    BY <1>1, <1>5
  <2> QED
    BY <2>1, <1>3 DEF Range
<1> QED
  BY <1>1, <1>2, <1>4, <1>6, <1>7 DEF Range

(* A push of an element that is not in the list leaves it distinct. *)
LEMMA AppendDistinct ==
  ASSUME NEW S, NEW s \in Seq(S), NEW e \in S, Distinct(s), e \notin Range(s)
  PROVE  Distinct(Append(s, e))
<1>1. \A i \in DOMAIN s : s[i] # e
  BY DEF Range
<1>2. /\ DOMAIN Append(s, e) = DOMAIN s \cup {Len(s) + 1}
      /\ \A i \in DOMAIN s : Append(s, e)[i] = s[i]
      /\ Append(s, e)[Len(s) + 1] = e
  BY AppendFacts
<1> QED
  BY <1>1, <1>2, Zenon DEF Distinct

(* A pop_front leaves the list distinct and takes its element out of it. *)
LEMMA PopFrontDistinct ==
  ASSUME NEW S, NEW s \in Seq(S), s # <<>>, Distinct(s)
  PROVE  Distinct(Tail(s)) /\ Head(s) \notin Range(Tail(s))
<1>1. Len(s) \in Nat \ {0} /\ DOMAIN s = 1..Len(s)
  BY EmptySeq, LenProperties
<1>2. /\ Len(Tail(s)) = Len(s) - 1
      /\ \A i \in 1..Len(Tail(s)) : Tail(s)[i] = s[i + 1]
      /\ DOMAIN Tail(s) = 1..Len(Tail(s))
  BY HeadTailProperties, LenProperties
<1>3. \A i \in DOMAIN Tail(s) : i + 1 \in DOMAIN s /\ Tail(s)[i] = s[i + 1]
  BY <1>1, <1>2
<1>4. 1 \in DOMAIN s /\ Head(s) = s[1]
  BY <1>1
<1>5. Distinct(Tail(s))
  BY <1>1, <1>2, <1>3 DEF Distinct
<1>6. Head(s) \notin Range(Tail(s))
  <2> SUFFICES ASSUME NEW i \in DOMAIN Tail(s) PROVE s[1] # Tail(s)[i]
    BY <1>4 DEF Range
  <2>1. i \in Nat /\ i + 1 # 1
    BY <1>1, <1>2
  <2> QED
    BY <2>1, <1>3, <1>4 DEF Distinct
<1> QED
  BY <1>5, <1>6

(* What is left of a list without its last element. *)
LEMMA FrontDistinct ==
  ASSUME NEW S, NEW s \in Seq(S), s # <<>>, Distinct(s)
  PROVE  LET front == SubSeq(s, 1, Len(s) - 1) IN
           /\ front \in Seq(S)
           /\ s[Len(s)] \in S
           /\ Distinct(front)
           /\ s[Len(s)] \notin Range(front)
           /\ Range(s) = Range(front) \cup {s[Len(s)]}
<1> DEFINE front == SubSeq(s, 1, Len(s) - 1)
<1>1. Len(s) \in Nat \ {0} /\ DOMAIN s = 1..Len(s)
  BY EmptySeq, LenProperties
<1>2. \A i \in 1..(Len(s) - 1) : s[i] \in S
  BY <1>1, ElementOfSeq
<1>3. /\ front \in Seq(S)
      /\ Len(front) = Len(s) - 1
      /\ \A i \in 1..(Len(s) - 1) : front[i] = s[i]
  BY <1>1, <1>2, SubSeqProperties, SMT
<1>4. DOMAIN front = 1..(Len(s) - 1)
  BY <1>3, LenProperties
<1> HIDE DEF front
<1>5. DOMAIN s = DOMAIN front \cup {Len(s)} /\ Len(s) \notin DOMAIN front
  BY <1>1, <1>4
<1>6. \A i \in DOMAIN front : front[i] = s[i]
  BY <1>3, <1>4
<1>7. Distinct(front) /\ s[Len(s)] \notin Range(front)
  BY <1>5, <1>6, Zenon DEF Distinct, Range
<1>8. Range(s) = Range(front) \cup {s[Len(s)]}
  BY <1>5, <1>6, Zenon DEF Range
<1>9. s[Len(s)] \in S
  BY <1>1, ElementOfSeq
<1> QED
  BY <1>3, <1>7, <1>8, <1>9 DEF front

(* The elements of s in the opposite order. *)
Reversed(s) == [i \in 1..Len(s) |-> s[Len(s) + 1 - i]]

(* Reversing a list changes neither what it holds nor that it is distinct. *)
LEMMA ReversedFacts ==
  ASSUME NEW S, NEW s \in Seq(S), Distinct(s)
  PROVE  /\ Reversed(s) \in Seq(S)
         /\ Distinct(Reversed(s))
         /\ Range(Reversed(s)) = Range(s)
<1> DEFINE n == Len(s)
<1>1. n \in Nat /\ DOMAIN s = 1..n /\ s \in [1..n -> S]
  BY LenProperties
<1>2. \A i \in 1..n : n + 1 - i \in 1..n /\ n + 1 - (n + 1 - i) = i
  BY <1>1
<1>3. /\ DOMAIN Reversed(s) = 1..n
      /\ \A i \in 1..n : Reversed(s)[i] = s[n + 1 - i]
  BY DEF Reversed
<1>4. Reversed(s) \in [1..n -> S]
  BY <1>1, <1>2 DEF Reversed
<1>5. Reversed(s) \in Seq(S)
  BY <1>1, <1>4, SeqDef
<1>6. Distinct(Reversed(s))
  BY <1>1, <1>2, <1>3 DEF Distinct
<1>7. \A i \in 1..n : s[i] = Reversed(s)[n + 1 - i]
  BY <1>2, <1>3
<1>8. Range(Reversed(s)) = Range(s)
  BY <1>1, <1>2, <1>3, <1>7 DEF Range
<1> QED
  BY <1>5, <1>6, <1>8

(* Two distinct lists without a common element make a distinct list. *)
LEMMA ConcatDistinct ==
  ASSUME NEW S, NEW s \in Seq(S), NEW t \in Seq(S),
         Distinct(s), Distinct(t), Range(s) \cap Range(t) = {}
  PROVE  /\ s \o t \in Seq(S)
         /\ Distinct(s \o t)
         /\ Range(s \o t) = Range(s) \cup Range(t)
<1> DEFINE n == Len(s)
           m == Len(t)
           c == s \o t
<1>1. /\ n \in Nat /\ DOMAIN s = 1..n
      /\ m \in Nat /\ DOMAIN t = 1..m
  BY LenProperties
<1>2. /\ c \in Seq(S)
      /\ Len(c) = n + m
      /\ \A i \in 1..(n + m) : c[i] = IF i <= n THEN s[i] ELSE t[i - n]
  BY ConcatProperties
<1>3. DOMAIN c = 1..(n + m)
  BY <1>2, LenProperties
<1>4. Range(c) = Range(s) \cup Range(t)
  BY RangeConcatenation
<1>5. ASSUME NEW i \in DOMAIN c, NEW j \in DOMAIN c, c[i] = c[j]
      PROVE  i = j
  <2>1. CASE i <= n /\ j <= n
    BY <2>1, <1>1, <1>2, <1>3, <1>5 DEF Distinct
  <2>2. CASE i > n /\ j > n
    <3>1. /\ i - n \in DOMAIN t /\ c[i] = t[i - n]
          /\ j - n \in DOMAIN t /\ c[j] = t[j - n]
      BY <2>2, <1>1, <1>2, <1>3
    <3>2. i - n = j - n
      BY <3>1, <1>5 DEF Distinct
    <3> QED
      BY <3>2, <1>1, <1>3
  <2>3. CASE i <= n /\ j > n
    <3>1. c[i] \in Range(s) /\ c[j] \in Range(t)
      BY <2>3, <1>1, <1>2, <1>3 DEF Range
    <3> QED
      BY <3>1, <1>5
  <2>4. CASE i > n /\ j <= n
    <3>1. c[i] \in Range(t) /\ c[j] \in Range(s)
      BY <2>4, <1>1, <1>2, <1>3 DEF Range
    <3> QED
      BY <3>1, <1>5
  <2> QED
    BY <2>1, <2>2, <2>3, <2>4, <1>1, <1>3
<1> QED
  BY <1>2, <1>4, <1>5 DEF Distinct

(* The indices of a sequence. *)
LEMMA SeqIndices ==
  ASSUME NEW S, NEW s \in Seq(S)
  PROVE  /\ Len(s) \in Nat
         /\ DOMAIN s = 1..Len(s)
         /\ \A i \in 1..Len(s) : s[i] \in S /\ s[i] \in Range(s)
         /\ Range(s) \subseteq S
BY LenProperties, ElementOfSeq DEF Range

-----------------------------------------------------------------------------
(***************************************************************************)
(* Induction.                                                              *)
(***************************************************************************)

(* A set of naturals that is not empty has a least element. *)
LEMMA LeastNatural ==
  ASSUME NEW T \in SUBSET Nat, T # {}
  PROVE  \E x \in T : \A y \in T : x <= y
<1> DEFINE R == {ss \in Nat \X Nat : ss[1] < ss[2]}
<1>1. IsWellFoundedOn(R, Nat)
  BY NatLessThanWellFounded DEF OpToRel
<1> HIDE DEF R
<1>2. PICK x \in T : \A y \in T : ~(<<y, x>> \in R)
  BY <1>1, WFMin, Zenon
<1>3. \A y \in T : <<y, x>> \in Nat \X Nat
  OBVIOUS
<1>4. \A y \in T : ~(y < x)
  BY <1>2, <1>3 DEF R
<1>5. \A y \in T : x <= y
  BY <1>4
<1> QED
  BY <1>5

(* Induction over the naturals, for a set of them. *)
LEMMA SetInduction ==
  ASSUME NEW T, 0 \in T, \A n \in Nat : n \in T => n + 1 \in T
  PROVE  \A n \in Nat : n \in T
<1> SUFFICES ASSUME NEW m \in Nat, m \notin T PROVE FALSE
  OBVIOUS
<1> DEFINE U == {n \in Nat : n \notin T}
<1>1. PICK x \in U : \A y \in U : x <= y
  <2>1. U \in SUBSET Nat /\ U # {}
    OBVIOUS
  <2> HIDE DEF U
  <2> QED
    BY <2>1, LeastNatural, Zenon
<1>2. x \in Nat /\ x # 0 /\ x \notin T
  OBVIOUS
<1>3. x - 1 \in Nat /\ ~(x <= x - 1)
  BY <1>2
<1>4. x - 1 \in T
  BY <1>1, <1>3
<1>5. (x - 1) + 1 \in T
  BY <1>3, <1>4
<1> QED
  BY <1>2, <1>5
=============================================================================
