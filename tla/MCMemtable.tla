----------------------------- MODULE MCMemtable -----------------------------
(* Memtable with seven keys and a few hash functions: one that tells keys   *)
(* and seeds apart, some that make them collide, and a constant one.        *)
EXTENDS Memtable

MCKeys == 0 .. 6

Arguments == MCKeys \X (0 .. HashFunctions(BITS_PER_ENTRY) - 1)

MCHashes ==
  {[a \in Arguments |-> c * (7 * a[2] + a[1])] : c \in {0, 1, 5}} \cup
  {[a \in Arguments |-> (a[1] + 1) * (a[2] + 1) + 20]}
=============================================================================
