------------------------------ MODULE SSTMerge -----------------------------
(***************************************************************************)
(* The loop of BTreeNode::merge_ssts, one iteration at a time: it walks    *)
(* the leaves of two files, from the last page of each down, and fills the *)
(* leaves of the output.  KVStore takes the whole merge as one step and    *)
(* MergeRuns for its outcome; here the loop is shown to come to it.        *)
(***************************************************************************)
EXTENDS BTree, SequencesExt

CONSTANT Inputs  \* pairs of runs to merge, the older first

\* No SST is without an entry, and none has INVALID_VALUE as a key or a value.
IsInput(run) ==
  /\ run \in Seq(Entry) /\ run # <<>>
  /\ \A i \in DOMAIN run : run[i].key < INVALID_VALUE /\ run[i].value < INVALID_VALUE

ASSUME MergeAssumption ==
  \A input \in Inputs : IsInput(input[1]) /\ IsInput(input[2])

VARIABLES
  old, new, is_last_level,  \* the two files and the argument of the merge
  old_offset, old_index,    \* the next entry of the older file, counted from 0
  new_offset, new_index,
  output_node,              \* the entries of the output leaf being filled
  written,                  \* the output leaves so far
  done

merge_vars == <<old, new, is_last_level, old_offset, old_index,
                new_offset, new_index, output_node, written, done>>

Leaves(file) == {o \in DOMAIN file : file[o].is_leaf}

\* The offset of the last leaf: total_number_of_nodes - num_of_leaf_nodes + 1.
MinOffset(file) == Len(file) - Cardinality(Leaves(file)) + 1

\* The entry at index of a leaf, or the invalid one past its end.
EntryIn(file, offset, index) ==
  IF index >= Len(file[offset].entries) THEN InvalidEntry
  ELSE file[offset].entries[index + 1]

old_entry == EntryIn(old, old_offset, old_index)
new_entry == EntryIn(new, new_offset, new_index)

\* Where a file is read next: the following leaf if this one is exhausted and
\* is not the last.  (The first definition forgets the last leaf.)
NextEarly(file, offset, index) ==
  IF index >= Len(file[offset].entries) /\ offset > MinOffset(file) + 1
  THEN <<offset - 1, 0>> ELSE <<offset, index>>

NextIn(file, offset, index) ==
  IF index >= Len(file[offset].entries) /\ offset > MinOffset(file)
  THEN <<offset - 1, 0>> ELSE <<offset, index>>

Exhausted(file, at) == at[2] >= Len(file[at[1]].entries)

\* The end of an iteration that has put entry in the output and gone on by
\* old_taken and new_taken entries.
Advance(old_taken, new_taken, entry) ==
  LET old_at == NextIn(old, old_offset, old_index + old_taken)
      new_at == NextIn(new, new_offset, new_index + new_taken)
      node   == Append(output_node, entry)
      ends   == Exhausted(old, old_at) /\ Exhausted(new, new_at)
      full   == Len(node) >= MAX_KEYS \/ ends
  IN  /\ old_offset' = old_at[1] /\ old_index' = old_at[2]
      /\ new_offset' = new_at[1] /\ new_index' = new_at[2]
      /\ written' = IF full THEN Append(written, node) ELSE written
      /\ output_node' = IF full THEN <<>> ELSE node
      /\ done' = ends
      /\ UNCHANGED <<old, new, is_last_level>>

-----------------------------------------------------------------------------
\* The branches of an iteration, in the order of their conditions.
MeetsTombstone ==
  old_entry.value = TOMB_STONE /\ is_last_level /\ new_entry.key = old_entry.key

\* No branch assigns the output slot, and yet it is counted.
DropBoth ==
  /\ ~done /\ MeetsTombstone
  /\ Advance(1, 1, BlankEntry)

CopyNew ==
  /\ ~done /\ ~MeetsTombstone
  /\ \/ old_entry.key = INVALID_VALUE
     \/ new_entry.key # INVALID_VALUE /\ new_entry.key < old_entry.key
  /\ Advance(0, 1, new_entry)

CopyOld ==
  /\ ~done /\ ~MeetsTombstone
  /\ old_entry.key # INVALID_VALUE
  /\ new_entry.key = INVALID_VALUE \/ new_entry.key > old_entry.key
  /\ Advance(1, 0, old_entry)

\* A wrong replacement: the older entry stays to be copied too.
ReplaceKeepsOld ==
  /\ ~done /\ ~MeetsTombstone
  /\ old_entry.key # INVALID_VALUE /\ new_entry.key = old_entry.key
  /\ Advance(0, 1, new_entry)

\* Another: it continues with the next iteration before it has done anything.
ReplaceStays ==
  /\ ~done /\ ~MeetsTombstone
  /\ old_entry.key # INVALID_VALUE /\ new_entry.key = old_entry.key
  /\ UNCHANGED merge_vars

Replace ==
  /\ ~done /\ ~MeetsTombstone
  /\ old_entry.key # INVALID_VALUE /\ new_entry.key = old_entry.key
  /\ Advance(1, 1, new_entry)

MergeInit ==
  /\ \E input \in Inputs : old = BuildFile(input[1]) /\ new = BuildFile(input[2])
  /\ is_last_level \in BOOLEAN
  /\ old_offset = Len(old) /\ old_index = 0
  /\ new_offset = Len(new) /\ new_index = 0
  /\ output_node = <<>>
  /\ written = <<>>
  /\ done = FALSE

MergeNext == DropBoth \/ CopyNew \/ CopyOld \/ Replace

\* The merge runs in the client's thread, which does not stop inside it.
MergeSpec == MergeInit /\ [][MergeNext]_merge_vars /\ WF_merge_vars(MergeNext)

-----------------------------------------------------------------------------
(* Properties                                                              *)

Output == FlattenSeq(written) \o output_node

EntriesOf(run) == {run[i] : i \in DOMAIN run}

HasKey(run, key) == \E i \in DOMAIN run : run[i].key = key

InKeyOrder(run) == \A i, j \in DOMAIN run : i < j => run[i].key < run[j].key

\* The loop comes to the run that KVStore takes for the outcome of a merge,
\* wherever the boundaries of the leaves fall.
ComesToMergeRuns ==
  done => Output = MergeRuns(RunOf(old), RunOf(new), is_last_level)

\* At any time, what has been written is in key order and holds, of the
\* entries up to its last key, those of the newer file and those of the older
\* one whose key the newer one has not; only a dropped pair breaks this.
NewestWins ==
  LET o == RunOf(old)
      n == RunOf(new)
      drops == \E i \in DOMAIN o, j \in DOMAIN n : DropsPair(o[i], n[j], is_last_level)
      kept == {e \in EntriesOf(n) \cup {e \in EntriesOf(o) : ~HasKey(n, e.key)} :
                 \E i \in DOMAIN Output : e.key <= Output[i].key}
  IN  ~drops => InKeyOrder(Output) /\ EntriesOf(Output) = kept

\* A file built from a run in key order answers a search with the value of the
\* key and a scan with the entries of the range, in key order, whatever the
\* number of leaves and of levels above them.
FileAnswers(run) ==
  LET file == BuildFile(run)
      Found(key) == IF HasKey(run, key)
                    THEN (CHOOSE e \in EntriesOf(run) : e.key = key).value
                    ELSE INVALID_VALUE
  IN  \A lo \in 0 .. LastOf(run).key + 1 :
        /\ SearchValueByKey(file, lo) = Found(lo)
        /\ \A hi \in lo .. LastOf(run).key + 1 :
             /\ InKeyOrder(Scan(file, lo, hi))
             /\ EntriesOf(Scan(file, lo, hi)) = {e \in EntriesOf(run) : lo <= e.key /\ e.key <= hi}

\* The file that the merge leaves answers searches and scans.
MergedFileAnswers == done /\ InKeyOrder(Output) => FileAnswers(Output)

\* The merge ends.
MergeEnds == <>done
=============================================================================
