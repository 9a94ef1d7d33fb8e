---------------------------- MODULE RecencyList ----------------------------
(***************************************************************************)
(* What the eviction list of lru.hpp promises: the listed keys, the most   *)
(* recently accessed first, and eviction of the least recently used one.   *)
(***************************************************************************)
EXTENDS Sequences, SequencesExt

CONSTANT Keys

VARIABLE order  \* the listed keys, most recently accessed first

\* The order without k.
Without(k) == RemoveAt(order, CHOOSE i \in DOMAIN order : order[i] = k)

Insert(k) ==
  /\ k \in Keys \ ToSet(order)
  /\ order' = <<k>> \o order

\* An access: k becomes the first key.
Update(k) ==
  /\ k \in ToSet(order)
  /\ order' = <<k>> \o Without(k)

Discard(k) ==
  /\ k \in ToSet(order)
  /\ order' = Without(k)

Evict ==
  /\ order # <<>>
  /\ order' = Front(order)

Init == order = <<>>

Next ==
  \/ \E k \in Keys : Insert(k) \/ Update(k) \/ Discard(k)
  \/ Evict

Spec == Init /\ [][Next]_order
=============================================================================
