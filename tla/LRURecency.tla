----------------------------- MODULE LRURecency ----------------------------
(***************************************************************************)
(* The eviction list beside a record of what its clients did: order is the *)
(* listed keys by their last access, whatever the pointers say.            *)
(***************************************************************************)
EXTENDS LRU

VARIABLE order

calls == INSTANCE RecencyList

RecencyInit == Init /\ calls!Init

RecencyNext ==
  \/ \E k \in Keys : Insert(k) /\ order' = <<k>> \o order
  \/ \E k \in Keys : Update(k) /\ order' = <<k>> \o calls!Without(k)
  \/ \E k \in Keys : Remove(k) /\ order' = calls!Without(k)
  \/ Evict /\ order' = calls!Front(order)

RecencySpec == RecencyInit /\ [][RecencyNext]_<<lru_vars, order>>

\* The keys along the list are the listed keys, from the one accessed last to
\* the one accessed longest ago: this is the one that evict takes.
ListIsByRecency ==
  /\ Order = order
  /\ DOMAIN node_map = calls!ToSet(order)
=============================================================================
