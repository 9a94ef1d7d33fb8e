-------------------------------- MODULE LRU --------------------------------
(***************************************************************************)
(* The eviction list of lru.cpp, pointer by pointer: a doubly linked list  *)
(* of nodes with a pointer to each end, and a map from a key to its node.  *)
(*                                                                         *)
(* The list never deletes a node.  The heap holds the nodes that a pointer *)
(* still leads to; a node that nothing leads to any more is dropped from   *)
(* it, and its address may serve again.                                    *)
(***************************************************************************)
EXTENDS Naturals, Sequences, FiniteSets

CONSTANTS
  Keys,     \* page ids
  Copies,   \* bound: the nodes of one key that pointers lead to at a time
  SafeUse   \* TRUE: the client does not remove or evict a node that StaleFront spoils

\* Addresses.  Which one a node has plays no part, so it is named for its key.
Nodes == Keys \X (1 .. Copies)

\* The null pointer: no pair, and so no node.
null == <<>>

VARIABLES
  node_map,  \* key -> node
  front,     \* most recently accessed
  rear,      \* least recently used
  heap       \* node -> [key, prev, next]

lru_vars == <<node_map, front, rear, heap>>

-----------------------------------------------------------------------------
(* Nodes                                                                   *)

Pointers(h, n) == {h[n].prev, h[n].next} \ {null}

\* The nodes of h that the pointers in roots lead to.
Reachable(h, roots) ==
  LET after[i \in 0 .. Cardinality(DOMAIN h)] ==
        DOMAIN h \cap
          (IF i = 0 THEN roots
           ELSE after[i - 1] \cup UNION {Pointers(h, n) : n \in after[i - 1]})
  IN  after[Cardinality(DOMAIN h)]

\* The state a method leaves, given what it made of the map and the pointers.
Becomes(map, f, r, h) ==
  LET roots == {f, r} \cup {map[k] : k \in DOMAIN map}
  IN  /\ node_map' = map
      /\ front' = f
      /\ rear' = r
      /\ heap' = [n \in Reachable(h, roots) |-> h[n]]

\* Assigning a field of a node, when there is a node.
SetPrev(h, n, p) == IF n = null THEN h ELSE [h EXCEPT ![n].prev = p]
SetNext(h, n, p) == IF n = null THEN h ELSE [h EXCEPT ![n].next = p]

Without(map, k) == [x \in DOMAIN map \ {k} |-> map[x]]

\* update leaves the prev pointer of the node that it moves to the front, so
\* the first node may have a predecessor.
StaleFront == front # null /\ heap[front].prev # null

-----------------------------------------------------------------------------
(* The methods                                                             *)

\* The buffer pool inserts a page after it has missed it.
Insert(k) ==
  LET unused == {n \in Nodes \ DOMAIN heap : n[1] = k}
      node   == CHOOSE n \in unused : \A m \in unused : n[2] <= m[2]
      fresh  == [n \in DOMAIN heap \cup {node} |->
                   IF n = node THEN [key |-> k, prev |-> null, next |-> front]
                   ELSE heap[n]]
      map    == [x \in DOMAIN node_map \cup {k} |->
                   IF x = k THEN node ELSE node_map[x]]
  IN  /\ k \notin DOMAIN node_map
      /\ unused # {}
      /\ Becomes(map, node, IF rear = null THEN node ELSE rear, SetPrev(fresh, front, node))

\* A wrong remove: it forgets that the last node has a pointer of its own.
RemoveKeepsRear(k) ==
  LET node == node_map[k]
      p    == heap[node].prev
      n    == heap[node].next
  IN  /\ k \in DOMAIN node_map
      /\ SafeUse => ~(StaleFront /\ node = front)
      /\ Becomes(Without(node_map, k),
                IF p = null THEN n ELSE front,
                rear,
                SetPrev(SetNext(heap, p, n), n, p))

Remove(k) ==
  LET node == node_map[k]
      p    == heap[node].prev
      n    == heap[node].next
  IN  /\ k \in DOMAIN node_map
      /\ SafeUse => ~(StaleFront /\ node = front)
      /\ Becomes(Without(node_map, k),
                IF p = null THEN n ELSE front,
                IF n = null THEN p ELSE rear,
                SetPrev(SetNext(heap, p, n), n, p))

Update(k) ==
  LET node == node_map[k]
      p    == heap[node].prev
      n    == heap[node].next
  IN  /\ k \in DOMAIN node_map
      /\ front # null
      /\ IF node = front THEN UNCHANGED lru_vars
         ELSE Becomes(node_map, node,
                     IF p # null /\ node = rear THEN p ELSE rear,
                     SetNext(SetPrev(SetPrev(SetNext(heap, p, n), n, p), front, node),
                             node, front))

EvictedKey == heap[rear].key

\* A wrong evict: it frees the node although the first node may lead to it.
EvictDeletes ==
  LET before == heap[rear].prev
      freed  == SetNext(heap, before, null)
  IN  /\ rear # null
      /\ SafeUse => ~(StaleFront /\ rear = front)
      /\ Becomes(Without(node_map, EvictedKey),
                IF before = null THEN null ELSE front,
                before,
                [n \in DOMAIN heap \ {rear} |-> freed[n]])

Evict ==
  LET before == heap[rear].prev
  IN  /\ rear # null
      /\ SafeUse => ~(StaleFront /\ rear = front)
      /\ Becomes(Without(node_map, EvictedKey),
                IF before = null THEN null ELSE front,
                before,
                SetNext(heap, before, null))

Init ==
  /\ node_map = [k \in {} |-> null]
  /\ front = null
  /\ rear = null
  /\ heap = [n \in {} |-> null]

Next ==
  \/ \E k \in Keys : Insert(k)
  \/ \E k \in Keys : Remove(k)
  \/ \E k \in Keys : Update(k)
  \/ Evict

Spec == Init /\ [][Next]_lru_vars

-----------------------------------------------------------------------------
(* Properties                                                              *)

\* The keys along the next pointers from front; a walk longer than the heap
\* would be in a cycle and stops.
Order ==
  LET from[at \in (DOMAIN heap \cup {null}) \X (0 .. Cardinality(DOMAIN heap))] ==
        IF at[1] = null \/ at[2] = 0 THEN <<>>
        ELSE <<heap[at[1]].key>> \o from[<<heap[at[1]].next, at[2] - 1>>]
  IN  from[<<front, Cardinality(DOMAIN heap)>>]

Node == [key : Keys, prev : Nodes \cup {null}, next : Nodes \cup {null}]

\* The types of the variables: no pointer dangles.
LRUTypeOK ==
  /\ DOMAIN node_map \subseteq Keys
  /\ DOMAIN heap \subseteq Nodes
  /\ heap \in [DOMAIN heap -> Node]
  /\ node_map \in [DOMAIN node_map -> DOMAIN heap]
  /\ {front, rear} \subseteq DOMAIN heap \cup {null}
  /\ \A n \in DOMAIN heap : Pointers(heap, n) \subseteq DOMAIN heap

\* The list can be walked both ways: apart from the prev of the first node,
\* which no walk follows, prev undoes next, and both ends are where a walk
\* stops.
DoublyLinked ==
  LET listed == {node_map[k] : k \in DOMAIN node_map}
  IN  /\ (front = null) <=> (rear = null)
      /\ {front, rear} \ {null} \subseteq listed
      /\ \A n \in listed : node_map[heap[n].key] = n
      /\ \A n \in listed \ {rear} :
           heap[n].next \in listed /\ heap[heap[n].next].prev = n
      /\ rear # null => heap[rear].next = null

\* The linked list is the list of keys by recency, and its map knows just
\* these keys: insert, remove, update and evict do to it what lru.hpp says.
Recency == INSTANCE RecencyList WITH order <- Order

ImplementsRecencyList == Recency!Spec
=============================================================================
