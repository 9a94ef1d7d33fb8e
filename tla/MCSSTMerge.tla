----------------------------- MODULE MCSSTMerge ----------------------------
\* Merges of all small runs, and of longer ones whose trees are deeper.
EXTENDS SSTMerge

MCKeys == {0, 1, 3}

\* The runs on some of the keys, each with a value or a tombstone.
RunsWith(value) ==
  {SetToSortSeq({[key |-> k, value |-> m[k]] : k \in DOMAIN m},
                LAMBDA a, b : a.key < b.key) :
     m \in UNION {[S -> {value, TOMB_STONE}] : S \in SUBSET MCKeys \ {{}}}}

\* A run on n keys from first on, every second number.
LongRun(n, first) == [i \in 1 .. n |-> [key |-> first + 2 * i, value |-> 5]]

MCInputs ==
  (RunsWith(4) \X RunsWith(5))
  \cup {<<LongRun(n, first), LongRun(m, 0)>> : n \in 1 .. 7, m \in 1 .. 7, first \in {0, 1, 6}}
=============================================================================
