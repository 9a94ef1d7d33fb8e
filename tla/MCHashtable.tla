---------------------------- MODULE MCHashtable ----------------------------
\* The hash table on four pages, with every hash function of two bits.
EXTENDS ExtendibleHashtable

\* Pages are numbers here, and interchangeable: a hash function and the one
\* that swaps two pages behave alike, so one that is increasing stands for all.
MCPages == 1 .. 4

MCHashes ==
  {h \in [MCPages -> 0 .. 3] : \A p, q \in MCPages : p < q => h[p] <= h[q]}
=============================================================================
