------------------------------ MODULE LinkedList ------------------------------
(***************************************************************************)
(* The doubly linked list of lib/list.c and the queue made of it           *)
(* (lib/queue.c calls nothing else): headers and nodes that vmm_alloc      *)
(* hands out and vmm_free takes back, at addresses used again and again.   *)
(* No code of the kernel uses lists yet, so there is one caller, which     *)
(* does not ask an empty list for an element: list_check prints that there *)
(* is none and returns the null pointer, which front, back and pop follow. *)
(***************************************************************************)
EXTENDS Integers, SequencesExt, FiniteSets

CONSTANTS
  Lists,  \* addresses of list headers
  Nodes,  \* addresses of nodes
  Data,   \* what the void* of a node may be
  Null

ASSUME AddressAssumption == Null \notin Lists \cup Nodes /\ IsFiniteSet(Nodes)

VARIABLES
  head, tail,  \* the list_t at the address of each list that exists
  node,        \* the list_node_t at each address that is allocated
  call         \* the last call: the operation, its arguments and what it returned

vars == <<head, tail, node, call>>

Node == [data : Data, prev : Nodes \cup {Null}, next : Nodes \cup {Null}]

TypeOK ==
  /\ DOMAIN head \subseteq Lists /\ DOMAIN tail = DOMAIN head /\ DOMAIN node \subseteq Nodes
  /\ \A l \in DOMAIN head : {head[l], tail[l]} \subseteq Nodes \cup {Null}
  /\ \A n \in DOMAIN node : node[n] \in Node

Empty == [x \in {} |-> Null]

Init == head = Empty /\ tail = Empty /\ node = Empty /\ call = <<Null>>

\* vmm_alloc and vmm_free: f with x, which had no value, and f without X.
With(f, x, y) == [z \in DOMAIN f \cup {x} |-> IF z = x THEN y ELSE f[z]]
Without(f, X) == [z \in DOMAIN f \ X |-> f[z]]

\* A store through a pointer that the code first compares with 0.
Store(f, n, link, value) == IF n = Null THEN f ELSE [f EXCEPT ![n][link] = value]

list_create_node(data, prev, next) == [data |-> data, prev |-> prev, next |-> next]

\* The nodes a loop visits that starts at n and follows link until it meets 0.
Walk(n, link) ==
  LET visit[i \in 1 .. Cardinality(DOMAIN node) + 1] ==
        IF i = 1 THEN n ELSE IF visit[i - 1] = Null THEN Null ELSE node[visit[i - 1]][link]
  IN SubSeq(visit, 1, Cardinality({i \in DOMAIN visit : visit[i] # Null}))

Forward(l) == Walk(head[l], "next")
DataOf(ns) == [i \in DOMAIN ns |-> node[ns[i]].data]

list_empty(l) == head[l] = Null
list_size(l) == Len(Forward(l))

\* A removal that searches from the tail.
LastMatchMutant(l, data) ==
  LET ns == Walk(tail[l], "prev")
      i  == SelectInSeq(DataOf(ns), LAMBDA d : d = data)
  IN IF i = 0 THEN Null ELSE ns[i]

\* The node at which the search for data ends, or the null pointer.
Search(l, data) ==
  LET ns == Forward(l)
      i  == SelectInSeq(DataOf(ns), LAMBDA d : d = data)
  IN IF i = 0 THEN Null ELSE ns[i]

list_find(l, data) == Search(l, data) # Null

-----------------------------------------------------------------------------
list_create(l) ==
  /\ head' = With(head, l, Null) /\ tail' = With(tail, l, Null)
  /\ call' = <<"create", l>>
  /\ UNCHANGED node

list_destroy(l) ==
  /\ head' = Without(head, {l}) /\ tail' = Without(tail, {l})
  /\ node' = Without(node, ToSet(Forward(l)))
  /\ call' = <<"destroy", l>>

list_push_front(l, data) ==
  \E n \in Nodes \ DOMAIN node :
    /\ node' = With(Store(node, head[l], "prev", n), n, list_create_node(data, Null, head[l]))
    /\ head' = [head EXCEPT ![l] = n]
    /\ tail' = [tail EXCEPT ![l] = IF @ = Null THEN n ELSE @]
    /\ call' = <<"push_front", l, data>>

list_push_back(l, data) ==
  \E n \in Nodes \ DOMAIN node :
    /\ node' = With(Store(node, tail[l], "next", n), n, list_create_node(data, tail[l], Null))
    /\ tail' = [tail EXCEPT ![l] = n]
    /\ head' = [head EXCEPT ![l] = IF @ = Null THEN n ELSE @]
    /\ call' = <<"push_back", l, data>>

\* A pop that leaves the link back to the node it has freed.
DanglingMutant(l) ==
  LET n == head[l]
      next == node[n].next
  IN /\ head' = [head EXCEPT ![l] = next]
     /\ tail' = [tail EXCEPT ![l] = IF next = Null THEN Null ELSE @]
     /\ node' = Without(node, {n})
     /\ call' = <<"pop_front", l, node[n].data>>

list_pop_front(l) ==
  LET n == head[l]
      next == node[n].next
  IN /\ head' = [head EXCEPT ![l] = next]
     /\ tail' = [tail EXCEPT ![l] = IF next = Null THEN Null ELSE @]
     /\ node' = Store(Without(node, {n}), next, "prev", Null)
     /\ call' = <<"pop_front", l, node[n].data>>

list_pop_back(l) ==
  LET n == tail[l]
      prev == node[n].prev
  IN /\ tail' = [tail EXCEPT ![l] = prev]
     /\ head' = [head EXCEPT ![l] = IF prev = Null THEN Null ELSE @]
     /\ node' = Store(Without(node, {n}), prev, "next", Null)
     /\ call' = <<"pop_back", l, node[n].data>>

\* The node is taken out of the list, but its memory is not freed.
list_remove(l, data) ==
  LET n == Search(l, data) IN
  /\ IF n = Null THEN UNCHANGED <<head, tail, node>>
     ELSE LET prev == node[n].prev
              next == node[n].next
          IN /\ node' = Store(Store(node, prev, "next", next), next, "prev", prev)
             /\ head' = [head EXCEPT ![l] = IF prev = Null THEN next ELSE @]
             /\ tail' = [tail EXCEPT ![l] = IF next = Null THEN prev ELSE @]
  /\ call' = <<"remove", l, data>>

Ask(l) ==
  /\ \/ \E d \in Data : call' = <<"find", l, d, list_find(l, d)>>
     \/ call' = <<"size", l, list_size(l)>>
     \/ call' = <<"empty", l, list_empty(l)>>
     \/ ~list_empty(l) /\ call' = <<"front", l, node[head[l]].data>>
     \/ ~list_empty(l) /\ call' = <<"back", l, node[tail[l]].data>>
  /\ UNCHANGED <<head, tail, node>>

Next ==
  \/ \E l \in Lists \ DOMAIN head : list_create(l)
  \/ \E l \in DOMAIN head :
       \/ list_destroy(l)
       \/ Ask(l)
       \/ ~list_empty(l) /\ (list_pop_front(l) \/ list_pop_back(l))
       \/ \E d \in Data : list_push_front(l, d) \/ list_push_back(l, d) \/ list_remove(l, d)

Spec == Init /\ [][Next]_vars

-----------------------------------------------------------------------------
(* However nodes are freed, leaked by list_remove and handed out again, the *)
(* links of every list lead only to its own allocated nodes, each once, and *)
(* backward through the same nodes as forward.                              *)
WellLinked ==
  /\ \A l \in DOMAIN head :
       LET ns == Forward(l) IN
       /\ IsInjective(ns)
       /\ Walk(tail[l], "prev") = Reverse(ns)
  /\ \A l, k \in DOMAIN head : l # k => ToSet(Forward(l)) \cap ToSet(Forward(k)) = {}

(* To its callers each list is a sequence: every call returns and changes   *)
(* what the same call on a sequence would.                                  *)
Sequence == INSTANCE DataLists WITH
  Void <- Null, content <- [l \in DOMAIN head |-> DataOf(Forward(l))]
ImplementsSequences == Sequence!SSpec
=============================================================================
