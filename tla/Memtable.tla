------------------------------ MODULE Memtable ------------------------------
(***************************************************************************)
(* The memtable from put to file: entries go into the AVL tree, and a      *)
(* flush walks the tree in order, gives the key of each entry to a Bloom   *)
(* filter sized by the number of leaves, and writes the file.  KVStore has *)
(* the memtable as the map it stores, and a file without its filter; this  *)
(* module is what justifies both.                                          *)
(***************************************************************************)
EXTENDS AVLTree, BloomFilter, Functions

CONSTANT StoredValues   \* the values that are put: a client's, or TOMB_STONE

\* Keys and values are words, and the leaves that all keys together take are as
\* many as MaxFilterEntries allows.
ASSUME MemtableAssumption ==
  /\ FilterKeys \subseteq 0 .. INVALID_VALUE
  /\ StoredValues \subseteq 0 .. INVALID_VALUE
  /\ CeilDiv(Cardinality(FilterKeys), MAX_KEYS) <= MaxFilterEntries

VARIABLES
  tree,      \* the AVL tree
  entries,   \* history: the map of what was put since the last flush
  stage,     \* "idle", or how far a flush is
  run,       \* the entries of the leaves, in order
  next,      \* the next of them to go into the filter
  file,      \* the file that was written
  flushed    \* history: the map that the file was made from

flush_vars == <<stage, run, next, file, flushed>>
memtable_vars == <<tree, entries, flush_vars, filter_vars>>

-----------------------------------------------------------------------------
PutEntry(key, value) ==
  /\ stage = "idle"
  /\ tree' = InsertNode(tree, key, value)
  /\ entries' = Assign(entries, key, value)
  /\ UNCHANGED <<flush_vars, filter_vars>>

\* A wrong count: only the leaves that are full.
StartFlushRoundsDown ==
  /\ stage = "idle"
  /\ tree # EmptyTree
  /\ run' = InOrder(tree)
  /\ Construct(Len(run') \div MAX_KEYS)
  /\ next' = 1
  /\ stage' = "filter"
  /\ UNCHANGED <<tree, entries, file, flushed>>

\* extract_leaf_nodes_from_avl, and the constructor of the filter.
StartFlush ==
  /\ stage = "idle"
  /\ tree # EmptyTree
  /\ run' = InOrder(tree)
  /\ Construct(CeilDiv(Len(run'), MAX_KEYS))
  /\ next' = 1
  /\ stage' = "filter"
  /\ UNCHANGED <<tree, entries, file, flushed>>

\* A wrong loop: the last entry of a leaf is taken for the end of the leaf.
FilterEntrySkipsLast ==
  /\ stage = "filter"
  /\ next <= Len(run)
  /\ IF next % MAX_KEYS # 0 THEN Insert(run[next].key) ELSE UNCHANGED filter_vars
  /\ next' = next + 1
  /\ UNCHANGED <<tree, entries, stage, run, file, flushed>>

FilterEntry ==
  /\ stage = "filter"
  /\ next <= Len(run)
  /\ Insert(run[next].key)
  /\ next' = next + 1
  /\ UNCHANGED <<tree, entries, stage, run, file, flushed>>

\* The nodes are written, and the memtable is cleared.
WriteFile ==
  /\ stage = "filter"
  /\ next > Len(run)
  /\ file' = BuildFile(run)
  /\ tree' = EmptyTree
  /\ stage' = "written"
  /\ flushed' = entries
  /\ entries' = EmptyMap
  /\ UNCHANGED <<run, next, filter_vars>>

\* The flush is over; what becomes of the file is not this module's matter.
Return ==
  /\ stage = "written"
  /\ Construct(1)
  /\ stage' = "idle"
  /\ run' = <<>>
  /\ next' = 1
  /\ file' = EmptyFile
  /\ flushed' = EmptyMap
  /\ UNCHANGED <<tree, entries>>

MemtableInit ==
  /\ tree = EmptyTree
  /\ entries = EmptyMap
  /\ stage = "idle"
  /\ run = <<>>
  /\ next = 1
  /\ file = EmptyFile
  /\ flushed = EmptyMap
  /\ xxh64 \in Hashes
  /\ filter = NewFilter(BITS_PER_ENTRY, 1)
  /\ inserted = {}

MemtableNext ==
  \/ \E key \in FilterKeys, value \in StoredValues : PutEntry(key, value)
  \/ StartFlush
  \/ FilterEntry
  \/ WriteFile
  \/ Return

MemtableSpec == MemtableInit /\ [][MemtableNext]_memtable_vars

-----------------------------------------------------------------------------
(* Properties                                                              *)

\* At every node of the tree the height is that of the subtree, the heights of
\* the two children differ by one at most, and every node of the heap is in
\* the tree: no rotation loses a node or leaves a height behind, on which the
\* depth of the recursion in avl_tree.cpp:45 depends.
TreeIsBalanced ==
  LET heap == tree.heap
      depth[node \in DOMAIN heap \cup {Null}] ==
        IF node = Null THEN 0
        ELSE LET left  == depth[heap[node].left]
                 right == depth[heap[node].right]
             IN  (IF left < right THEN right ELSE left) + 1
  IN  /\ \A node \in DOMAIN heap :
           /\ heap[node].height = depth[node]
           /\ GetBalance(heap, node) \in -1 .. 1
      /\ Len(InOrder(tree)) = Cardinality(DOMAIN heap)

InRange(map, start_key, end_key) ==
  {[key |-> k, value |-> map[k]] : k \in {x \in DOMAIN map : start_key <= x /\ x <= end_key}}

\* Whatever was put in whatever order, the tree is the map of what was put:
\* get finds it, a scan finds the entries of its range, in order and each
\* once, and a flush takes all of them in order.
TreeIsMap ==
  /\ \A key \in FilterKeys :
       GetValue(tree, key) = IF key \in DOMAIN entries THEN entries[key] ELSE INVALID_VALUE
  /\ \A lo, hi \in FilterKeys :
       LET found == ScanTree(tree, lo, hi)
       IN  /\ IsInjective(found)
           /\ Range(found) = InRange(entries, lo, hi)
           /\ \A i, j \in DOMAIN found : i < j => found[i].key < found[j].key
  /\ InOrder(tree) = SortedRun(entries)

\* search_value_by_key: the filter is asked first.
FilteredSearch(key) ==
  IF MayContain(key) THEN SearchValueByKey(file, key) ELSE INVALID_VALUE

\* What a flush does to a filter is what BloomFilter has: it is constructed for
\* at least one leaf, and is given keys only; so what is proved of FilterSpec
\* holds here.
FlushImplementsFilter == FilterSpec

\* The file a flush has written answers for every key as the memtable did
\* before, its filter notwithstanding.
FlushedFileAnswers ==
  stage = "written" =>
    \A key \in FilterKeys :
      FilteredSearch(key) = IF key \in DOMAIN flushed THEN flushed[key] ELSE INVALID_VALUE
=============================================================================
