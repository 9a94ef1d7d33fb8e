------------------------------- MODULE BTree -------------------------------
(***************************************************************************)
(* The contents of an SST file: the static B-tree that btree.cpp writes    *)
(* once, searches, scans and merges.                                       *)
(*                                                                         *)
(* A run is the sorted sequence of entries that the leaves hold, read from *)
(* the first leaf to the last.  A file is the sequence of its nodes,       *)
(* indexed by page offset: the root is at offset 1, and the first leaf at  *)
(* the largest offset.  Page 0 (the Bloom filter) is left out here: it     *)
(* only skips a search that would find nothing.                            *)
(***************************************************************************)
EXTENDS Integers, Sequences, FiniteSets

CONSTANTS
  MAX_KEYS,       \* entries per leaf; an internal node has MAX_KEYS + 1 children
  INVALID_VALUE,  \* utils.hpp: the largest uint32_t, "no such key"
  TOMB_STONE      \* utils.hpp: the largest uint32_t but one, a deleted key

ASSUME BTreeAssumption ==
  /\ MAX_KEYS \in Nat \ {0}
  /\ INVALID_VALUE \in Nat \ {0}
  /\ TOMB_STONE = INVALID_VALUE - 1

Entry == [key : 0 .. INVALID_VALUE, value : 0 .. INVALID_VALUE]

Fanout == MAX_KEYS + 1

CeilDiv(a, b) == (a + b - 1) \div b

Smaller(a, b) == IF a <= b THEN a ELSE b

\* The i-th chunk of seq, n elements to a chunk, the last one perhaps shorter.
Chunk(seq, i, n) == SubSeq(seq, (i - 1) * n + 1, Smaller(i * n, Len(seq)))

LastOf(seq) == seq[Len(seq)]

EmptyMap == [k \in {} |-> 0]

Assign(m, k, v) == [x \in DOMAIN m \cup {k} |-> IF x = k THEN v ELSE m[x]]

\* extract_leaf_nodes_from_avl: the memtable in key order.
SortedRun(m) ==
  [i \in 1 .. Cardinality(DOMAIN m) |->
     LET k == CHOOSE x \in DOMAIN m : Cardinality({y \in DOMAIN m : y < x}) = i - 1
     IN  [key |-> k, value |-> m[k]]]

-----------------------------------------------------------------------------
(* Writing a file                                                          *)

\* Nodes in a file with n leaves: every level of internal nodes above them,
\* and at least one so that there is always a root.
GetTotalNumberOfNodes(n) ==
  LET above[m \in 1 .. n] ==
        IF m = 1 THEN 0
        ELSE CeilDiv(m, Fanout) + above[CeilDiv(m, Fanout)]
  IN  IF n = 1 THEN 2 ELSE n + above[n]

\* The leaves of a run, written backwards from the last page of the file.
LeafNodes(run) ==
  LET leaves == CeilDiv(Len(run), MAX_KEYS)
      total  == GetTotalNumberOfNodes(leaves)
  IN  [i \in 1 .. leaves |->
         [file_offset |-> total - i + 1,
          is_leaf     |-> TRUE,
          entries     |-> Chunk(run, i, MAX_KEYS)]]

\* One round of the internal levels: each new node takes the next Fanout
\* nodes of the queue, with the largest key and the offset of each.
ParentNodes(queue) ==
  LET next_offset == LastOf(queue).file_offset - 1
      Pointer(node) == [key |-> LastOf(node.entries).key, value |-> node.file_offset]
  IN  [c \in 1 .. CeilDiv(Len(queue), Fanout) |->
         LET children == Chunk(queue, c, Fanout)
         IN  [file_offset |-> next_offset - c + 1,
              is_leaf     |-> FALSE,
              entries     |-> [i \in 1 .. Len(children) |-> Pointer(children[i])]]]

\* The rounds of construct_internal_nodes_and_write_to_file: round 0 writes
\* the leaves, and the first later round with a single node writes the root.
Rounds(run) ==
  LET round[h \in 0 .. Len(run)] == IF h = 0 THEN LeafNodes(run) ELSE ParentNodes(round[h - 1])
      height == CHOOSE h \in 1 .. Len(run) :
                  /\ Len(round[h]) = 1
                  /\ \A g \in 1 .. h - 1 : Len(round[g]) > 1
  IN  [h \in 0 .. height |-> round[h]]

NodesOf(run) ==
  LET rounds == Rounds(run)
  IN  UNION {{rounds[h][i] : i \in DOMAIN rounds[h]} : h \in DOMAIN rounds}

BuildFile(run) ==
  LET nodes == NodesOf(run)
  IN  [offset \in 1 .. Cardinality(nodes) |->
         LET node == CHOOSE n \in nodes : n.file_offset = offset
         IN  [is_leaf |-> node.is_leaf, entries |-> node.entries]]

\* A file that has been created, and nothing written to it yet.
EmptyFile == <<>>

-----------------------------------------------------------------------------
(* Searching a file                                                        *)

\* The low and the high of a binary search in a node, and its middle.
SearchRanges(entries) == (0 .. Len(entries)) \X (-1 .. Len(entries) - 1)

MidOf(at) == at[1] + (at[2] - at[1]) \div 2

\* Binary search in a leaf.
LeafValue(entries, key) ==
  LET find[at \in SearchRanges(entries)] ==
        LET mid  == MidOf(at)
            here == entries[mid + 1]
        IN  IF at[1] > at[2] THEN INVALID_VALUE
            ELSE IF here.key = key THEN here.value
            ELSE IF here.key < key THEN find[<<mid + 1, at[2]>>]
            ELSE find[<<at[1], mid - 1>>]
  IN  find[<<0, Len(entries) - 1>>]

NoChild == 0

\* Binary search in an internal node for the first child whose largest key
\* is not below key.
ChildFor(entries, key) ==
  LET find[at \in SearchRanges(entries)] ==
        LET mid == MidOf(at)
        IN  IF at[1] > at[2] THEN NoChild
            ELSE IF entries[mid + 1].key < key THEN find[<<mid + 1, at[2]>>]
            ELSE IF mid = 0 \/ entries[mid].key < key THEN entries[mid + 1].value
            ELSE find[<<at[1], mid - 1>>]
  IN  find[<<0, Len(entries) - 1>>]

\* The leaf a descent for key from the root ends in, NoChild if there is none:
\* a file that was never written reads as a root without keys.
LeafFor(file, key) ==
  LET descend[offset \in 0 .. Len(file)] ==
        IF offset = NoChild \/ file[offset].is_leaf THEN offset
        ELSE descend[ChildFor(file[offset].entries, key)]
  IN  IF file = EmptyFile THEN NoChild ELSE descend[1]

SearchValueByKey(file, key) ==
  LET leaf == LeafFor(file, key)
  IN  IF leaf = NoChild THEN INVALID_VALUE ELSE LeafValue(file[leaf].entries, key)

\* Where a scan of a leaf stops, and the entries it keeps of it, in order.
StopsIn(entries, start_key, end_key) ==
  {i \in DOMAIN entries : entries[i].key >= start_key /\ entries[i].key > end_key}

KeptFrom(entries, start_key, end_key) ==
  LET stops == StopsIn(entries, start_key, end_key)
      kept[i \in 1 .. Len(entries) + 1] ==
        IF i > Len(entries) \/ i \in stops THEN <<>>
        ELSE IF entries[i].key < start_key THEN kept[i + 1]
        ELSE <<entries[i]>> \o kept[i + 1]
  IN  kept[1]

\* A wrong scan: it does not go on to the next leaf.
ScanOneLeaf(file, start_key, end_key) ==
  LET first == LeafFor(file, start_key)
  IN  IF first = NoChild THEN <<>> ELSE KeptFrom(file[first].entries, start_key, end_key)

\* From the leaf that start_key falls in, leaf after leaf (offsets go down),
\* until an entry is past end_key or the internal nodes begin.
Scan(file, start_key, end_key) ==
  LET collect[offset \in 0 .. Len(file)] ==
        IF offset = 0 \/ ~file[offset].is_leaf THEN <<>>
        ELSE LET entries == file[offset].entries
             IN  KeptFrom(entries, start_key, end_key) \o
                 (IF StopsIn(entries, start_key, end_key) # {} THEN <<>>
                  ELSE collect[offset - 1])
      first == LeafFor(file, start_key)
  IN  IF first = NoChild THEN <<>> ELSE collect[first]

-----------------------------------------------------------------------------
(* Merging two files                                                       *)

\* The entries of a file in leaf order, as the merge reads them.
RunOf(file) ==
  LET leaves == Cardinality({o \in DOMAIN file : file[o].is_leaf})
      last   == Len(file) - leaves + 1
  IN  IF file = EmptyFile THEN <<>> ELSE
      [i \in 1 .. (leaves - 1) * MAX_KEYS + Len(file[last].entries) |->
         file[Len(file) - (i - 1) \div MAX_KEYS].entries[((i - 1) % MAX_KEYS) + 1]]

\* What the merge compares when one input has no entry left.
InvalidEntry == [key |-> INVALID_VALUE, value |-> INVALID_VALUE]

\* An output slot that no branch of the merge assigned: nodes are zeroed.
BlankEntry == [key |-> 0, value |-> 0]

EntryAt(run, i) == IF i <= Len(run) THEN run[i] ELSE InvalidEntry

\* The first branch: a tombstone in the older input meets its key in the newer.
DropsPair(old_entry, new_entry, is_last_level) ==
  /\ old_entry.value = TOMB_STONE
  /\ is_last_level
  /\ new_entry.key = old_entry.key

TakesNew(old_entry, new_entry, is_last_level) ==
  \/ DropsPair(old_entry, new_entry, is_last_level)
  \/ new_entry.key <= old_entry.key

\* A wrong advance: the older pair of an updated key is kept as well.
TakesOldStrictly(old_entry, new_entry, is_last_level) ==
  \/ DropsPair(old_entry, new_entry, is_last_level)
  \/ old_entry.key # INVALID_VALUE /\ old_entry.key < new_entry.key

TakesOld(old_entry, new_entry, is_last_level) ==
  \/ DropsPair(old_entry, new_entry, is_last_level)
  \/ old_entry.key # INVALID_VALUE /\ old_entry.key <= new_entry.key

\* A wrong choice: of two pairs of one key, the older.
MergedEntryPrefersOld(old_entry, new_entry, is_last_level) ==
  IF DropsPair(old_entry, new_entry, is_last_level) THEN BlankEntry
  ELSE IF TakesOld(old_entry, new_entry, is_last_level) THEN old_entry
       ELSE new_entry

\* What one iteration leaves in output_node->entries[output_index].
MergedEntry(old_entry, new_entry, is_last_level) ==
  IF DropsPair(old_entry, new_entry, is_last_level) THEN BlankEntry
  ELSE IF TakesNew(old_entry, new_entry, is_last_level) THEN new_entry
       ELSE old_entry

\* The output entries of merge_ssts, in order; the first iteration does not ask
\* whether there is an entry.
MergeRuns(old, new, is_last_level) ==
  LET from[at \in (1 .. Len(old) + 1) \X (1 .. Len(new) + 1)] ==
        LET o == EntryAt(old, at[1])
            n == EntryAt(new, at[2])
        IN  IF at[1] > Len(old) /\ at[2] > Len(new) THEN <<>>
            ELSE <<MergedEntry(o, n, is_last_level)>> \o
                 from[<<IF TakesOld(o, n, is_last_level) THEN at[1] + 1 ELSE at[1],
                        IF TakesNew(o, n, is_last_level) THEN at[2] + 1 ELSE at[2]>>]
  IN  IF old = <<>> /\ new = <<>> THEN <<InvalidEntry>> ELSE from[<<1, 1>>]

MergeSSTs(old_file, new_file, is_last_level) ==
  BuildFile(MergeRuns(RunOf(old_file), RunOf(new_file), is_last_level))
=============================================================================
