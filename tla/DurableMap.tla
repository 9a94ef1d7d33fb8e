----------------------------- MODULE DurableMap -----------------------------
(***************************************************************************)
(* What the key-value store promises its client: a map from keys to        *)
(* values, and a durable copy of it that is what is left of the map when   *)
(* the process goes away without closing the store.                        *)
(***************************************************************************)
CONSTANTS
  Keys, Values,
  Absent         \* what a key without a value maps to: not one of Values

VARIABLES map, durable

vars == <<map, durable>>

TypeOK ==
  /\ map     \in [Keys -> Values \cup {Absent}]
  /\ durable \in [Keys -> Values \cup {Absent}]

Init ==
  /\ map     = [k \in Keys |-> Absent]
  /\ durable = map

Put(k, v) ==
  /\ map' = [map EXCEPT ![k] = v]
  /\ UNCHANGED durable

Delete(k) ==
  /\ map' = [map EXCEPT ![k] = Absent]
  /\ UNCHANGED durable

\* Everything written so far survives from now on.
Sync ==
  /\ durable' = map
  /\ UNCHANGED map

\* The process ends and the store is opened again.
Restart ==
  /\ map' = durable
  /\ UNCHANGED durable

Next ==
  \/ \E k \in Keys, v \in Values : Put(k, v)
  \/ \E k \in Keys : Delete(k)
  \/ Sync
  \/ Restart

Spec == Init /\ [][Next]_vars
=============================================================================
