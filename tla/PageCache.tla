----------------------------- MODULE PageCache -----------------------------
(***************************************************************************)
(* What the buffer pool promises: it keeps its pages until it has capacity *)
(* pages or more, and when it then gives one up, or is resized, the least  *)
(* recently used go.  At its ceiling it gives one up for every new page.   *)
(***************************************************************************)
EXTENDS Naturals, Sequences, SequencesExt

CONSTANT Pages

VARIABLES
  order,     \* the pages it keeps, the most recently used first
  capacity,
  ceiling

cache_vars == <<order, capacity, ceiling>>

\* The order without page.
Without(page) == RemoveAt(order, CHOOSE i \in DOMAIN order : order[i] = page)

Get(page) ==
  /\ order' = <<page>> \o Without(page)
  /\ UNCHANGED <<capacity, ceiling>>

Insert(page) ==
  /\ \/ Len(order) < ceiling /\ order' = <<page>> \o order
     \/ Len(order) >= capacity /\ order' = <<page>> \o Front(order)
  /\ UNCHANGED <<capacity, ceiling>>

Discard(page) ==
  /\ order' = Without(page)
  /\ UNCHANGED <<capacity, ceiling>>

\* A cache that is resized is left full, or with room for one page.
Resize ==
  /\ capacity' \in Nat \ {0}
  /\ ceiling' \in Nat
  /\ ceiling' >= capacity'
  /\ \E kept \in capacity' - 1 .. ceiling' :
       order' = IF Len(order) <= kept THEN order ELSE SubSeq(order, 1, kept)

Init == order = <<>> /\ capacity \in Nat \ {0} /\ ceiling = capacity

Next ==
  \/ \E page \in ToSet(order) : Get(page) \/ Discard(page)
  \/ \E page \in Pages \ ToSet(order) : Insert(page)
  \/ Resize

Spec == Init /\ [][Next]_cache_vars
=============================================================================
