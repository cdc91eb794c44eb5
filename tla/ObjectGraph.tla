----------------------------- MODULE ObjectGraph -----------------------------
(***************************************************************************)
(* What a program may rely on: a graph of immutable objects that it builds *)
(* and walks.  There are no addresses, generations or collections here; an *)
(* object that cannot be reached any more is gone.                         *)
(***************************************************************************)
EXTENDS Naturals, Sequences, FiniteSets, Functions

CONSTANTS
  Id,       \* the objects a program can create
  MaxSlots  \* the most pointers an object has

VARIABLES
  held,   \* the objects the program has in its variables
  graph   \* graph[i]: the pointers of object i, for what is reachable

Slots(ids) == UNION {[1..n -> ids] : n \in 0..MaxSlots}

(* The objects that pointers lead to from those in from. *)
Reachable(from) ==
  LET around == {S \in SUBSET DOMAIN graph :
                   from \subseteq S /\ \A i \in S : Range(graph[i]) \subseteq S}
  IN {i \in DOMAIN graph : \A S \in around : i \in S}

Init == held = {} /\ graph = <<>>

New(i) ==
  /\ i \notin DOMAIN graph
  /\ held' = held \cup {i}
  /\ \E s \in Slots(DOMAIN graph) :
       graph' = [j \in DOMAIN graph \cup {i} |-> IF j = i THEN s ELSE graph[j]]

Hold(S) ==
  /\ held' = S
  /\ graph' = [j \in Reachable(S) |-> graph[j]]

Next ==
  \/ \E i \in Id : New(i)
  \/ \E S \in SUBSET DOMAIN graph : Hold(S)

Spec == Init /\ [][Next]_<<held, graph>>
=============================================================================
