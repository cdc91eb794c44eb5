------------------------------- MODULE Deques -------------------------------
(***************************************************************************)
(* What the collector expects of its work lists: independent sequences     *)
(* that grow at the back and are read at one of the ends, each of them     *)
(* initialised before and cleared after every use.                         *)
(***************************************************************************)
EXTENDS Naturals, Sequences

CONSTANTS
  List,    \* the work lists
  Value,   \* what they hold
  NULL     \* a list that is not initialised; a pop that has not happened

VARIABLES
  deque,   \* deque[l]: the elements of list l in order, or NULL
  result   \* result[l]: what the last pop from l returned

Init == /\ deque = [l \in List |-> NULL]
        /\ result = [l \in List |-> NULL]

Initialize(l) ==
  /\ deque[l] = NULL
  /\ deque' = [deque EXCEPT ![l] = <<>>]
  /\ UNCHANGED result

Clear(l) ==
  /\ deque[l] # NULL
  /\ deque' = [deque EXCEPT ![l] = NULL]
  /\ UNCHANGED result

PushBack(l, v) ==
  /\ deque[l] # NULL
  /\ deque' = [deque EXCEPT ![l] = Append(@, v)]
  /\ UNCHANGED result

PopFront(l) ==
  /\ deque[l] \notin {NULL, <<>>}
  /\ result' = [result EXCEPT ![l] = Head(deque[l])]
  /\ deque' = [deque EXCEPT ![l] = Tail(@)]

PopBack(l) ==
  /\ deque[l] \notin {NULL, <<>>}
  /\ result' = [result EXCEPT ![l] = deque[l][Len(deque[l])]]
  /\ deque' = [deque EXCEPT ![l] = SubSeq(@, 1, Len(@) - 1)]

Next ==
  \E l \in List :
    \/ Initialize(l)
    \/ Clear(l)
    \/ \E v \in Value : PushBack(l, v)
    \/ PopFront(l)
    \/ PopBack(l)

Spec == Init /\ [][Next]_<<deque, result>>
=============================================================================
