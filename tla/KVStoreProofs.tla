--------------------------- MODULE KVStoreProofs ---------------------------
(***************************************************************************)
(* Proofs about the store of KVStore.tla, for every set of keys and        *)
(* values, every memtable size and a tree of any depth.                    *)
(*                                                                         *)
(* First where the files are: the numbers of the files and the levels they *)
(* are in.  Nothing of it needs what BuildFile and MergeSSTs put in a      *)
(* file.  Then what the store answers; BTreeProofs says what a file is,    *)
(* and what searching, scanning and merging files give.  Put together:     *)
(*                                                                         *)
(*   - the number of a file gives its age, so what the tree holds for a    *)
(*     key is a function from file numbers to sets of values (HeldFor) and *)
(*     the newest entry is an element of its domain (NewestAt);            *)
(*   - a flush adds a file that is newer than all others (FlushesTo), a    *)
(*     compaction replaces the two newest files by one (CompactsTo);       *)
(*   - every file is the B-tree of a run that the store may write (IsSST), *)
(*     and under the client contract a tombstone on disk is the newest     *)
(*     entry of its key (TombstonesAreNewest): with IndInv, an inductive   *)
(*     invariant, DataInv;                                                 *)
(*   - hence what a flush, a compaction or a restart shows of a key.       *)
(*                                                                         *)
(* ~ReuseDeleted is the client contract of MayWrite: a key is not written  *)
(* while an SST holds its tombstone.  Without it a compaction can forget a *)
(* key (CompactionPrefersNew is violated by KVStoreUpdateLost.cfg) and     *)
(* write a file that is not in key order; NothingStaleComesBack holds even *)
(* then.                                                                   *)
(*                                                                         *)
(* FileStoreProofs takes these results over to a store whose calls may be  *)
(* cut short by a crash.  Such a crash can leave file 0 created and not    *)
(* written, so the invariant says no more of file 0 than that it is an SST *)
(* or empty.                                                               *)
(***************************************************************************)
EXTENDS KVStore, BTreeProofs, SequenceTheorems

-----------------------------------------------------------------------------
(* The inductive invariant                                                 *)

\* The count never passes memtable_size because a full memtable is flushed
\* before the next call.
CountBelowSize == pc # "flush" => current_memtable_entries < memtable_size

\* While the loop of update_levels runs, the levels it has left are empty.
LoopLeavesEmpty ==
  IF pc = "compact"
  THEN /\ current_level < Len(levels)
       /\ \A i \in 1 .. current_level : levels[i] = <<>>
  ELSE current_level = 0

IndInv == TypeOK /\ TreeShape /\ CountBelowSize /\ LoopLeavesEmpty

-----------------------------------------------------------------------------
(* Lemmas                                                                  *)

\* The files of a tree, place by place.
LEMMA FilesInTree ==
  ASSUME NEW ls, NEW f
  PROVE  f \in FilesIn(ls) <=> \E i \in DOMAIN ls : \E j \in DOMAIN ls[i] : f = ls[i][j]
  BY DEF FilesIn

LEMMA AssignTyped ==
  ASSUME NEW K, NEW V, NEW m, DOMAIN m \subseteq K, m \in [DOMAIN m -> V],
         NEW k \in K, NEW v \in V
  PROVE  /\ DOMAIN Assign(m, k, v) \subseteq K
         /\ Assign(m, k, v) \in [DOMAIN Assign(m, k, v) -> V]
  BY DEF Assign

-----------------------------------------------------------------------------
(* The invariant is inductive                                              *)

LEMMA InitIndInv == Init => IndInv
<1> SUFFICES ASSUME Init PROVE IndInv
  OBVIOUS
<1> USE KVStoreAssumption DEF Init
<1>1. TypeOK
  <2>1. <<>> \in Seq(Seq(Nat))
    OBVIOUS
  <2> QED
    BY <2>1 DEF TypeOK, EmptyMap
<1>2. TreeShape
  <2>1. FilesIn(levels) = {}
    BY DEF FilesIn
  <2> QED
    BY <2>1 DEF TreeShape, EmptyMap, Numbered
<1>3. CountBelowSize /\ LoopLeavesEmpty
  BY DEF CountBelowSize, LoopLeavesEmpty
<1> QED
  BY <1>1, <1>2, <1>3 DEF IndInv

\* A step that leaves the tree alone, and is not in the compaction loop,
\* keeps what the invariant says of the tree.
LEMMA ClientStepIndInv ==
  ASSUME IndInv, pc = "idle", pc' \in {"idle", "flush"},
         UNCHANGED <<levels, disk, current_level>>
  PROVE  TreeShape' /\ LoopLeavesEmpty'
  BY DEF IndInv, TreeShape, LoopLeavesEmpty

LEMMA PutIndInv ==
  ASSUME IndInv, NEW k \in Keys, NEW v \in Values, Put(k, v)
  PROVE  IndInv'
<1> USE KVStoreAssumption
<1>1. TypeOK'
  <2>1. /\ DOMAIN memtable' \subseteq Keys
        /\ memtable' \in [DOMAIN memtable' -> Values \cup {TOMB_STONE}]
    <3>1. /\ DOMAIN memtable \subseteq Keys /\ v \in Values \cup {TOMB_STONE}
          /\ memtable \in [DOMAIN memtable -> Values \cup {TOMB_STONE}]
      BY DEF IndInv, TypeOK
    <3>2. memtable' = Assign(memtable, k, v)
      BY DEF Put
    <3> QED
      BY ONLY k \in Keys, <3>1, <3>2, AssignTyped
  <2>2. current_memtable_entries' \in 0 .. memtable_size
    BY DEF Put, IndInv, TypeOK, CountBelowSize
  <2> QED
    BY <2>1, <2>2 DEF Put, IndInv, TypeOK
<1>2. CountBelowSize'
  BY DEF Put, IndInv, TypeOK, CountBelowSize, IsFull
<1>3. TreeShape' /\ LoopLeavesEmpty'
  BY ClientStepIndInv DEF Put
<1> QED
  BY <1>1, <1>2, <1>3 DEF IndInv

LEMMA DeleteIndInv ==
  ASSUME IndInv, NEW k \in Keys, Delete(k)
  PROVE  IndInv'
<1>1. /\ DOMAIN memtable' \subseteq Keys
      /\ memtable' \in [DOMAIN memtable' -> Values \cup {TOMB_STONE}]
  <2>1. /\ DOMAIN memtable \subseteq Keys /\ TOMB_STONE \in Values \cup {TOMB_STONE}
        /\ memtable \in [DOMAIN memtable -> Values \cup {TOMB_STONE}]
    BY DEF IndInv, TypeOK
  <2>2. memtable' = Assign(memtable, k, TOMB_STONE)
    BY DEF Delete
  <2> QED
    BY ONLY k \in Keys, <2>1, <2>2, AssignTyped
<1>2. TypeOK' /\ CountBelowSize'
  BY <1>1 DEF Delete, IndInv, TypeOK, CountBelowSize
<1>3. TreeShape' /\ LoopLeavesEmpty'
  BY ClientStepIndInv DEF Delete, IndInv, TypeOK
<1> QED
  BY <1>2, <1>3 DEF IndInv

LEMMA CloseIndInv == IndInv /\ Close => IndInv'
<1> SUFFICES ASSUME IndInv, Close PROVE IndInv'
  OBVIOUS
<1>1. TypeOK' /\ CountBelowSize'
  BY DEF Close, IndInv, TypeOK, CountBelowSize
<1>2. TreeShape' /\ LoopLeavesEmpty'
  BY ClientStepIndInv DEF Close
<1> QED
  BY <1>1, <1>2 DEF IndInv

TreeGains(ls, new, f) == FilesIn(new) = FilesIn(ls) \cup {f}

\* The files of the tree after a file is appended to one level.
LEMMA TreeGrowsBy ==
  ASSUME NEW ls \in Seq(Seq(Nat)), NEW i \in DOMAIN ls, NEW f \in Nat,
         NEW new \in Seq(Seq(Nat)), Len(new) = Len(ls),
         new[i] = Append(ls[i], f),
         \A a \in DOMAIN ls \ {i} : new[a] = ls[a]
  PROVE  TreeGains(ls, new, f)
<1>1. ls[i] \in Seq(Nat) /\ DOMAIN new = DOMAIN ls
  OBVIOUS
<1>2. /\ Len(new[i]) = Len(ls[i]) + 1 /\ new[i] \in Seq(Nat)
      /\ new[i][Len(ls[i]) + 1] = f
      /\ \A b \in 1 .. Len(ls[i]) : new[i][b] = ls[i][b]
  BY <1>1, AppendProperties
<1>3. DOMAIN new[i] = 1 .. Len(ls[i]) + 1 /\ DOMAIN ls[i] = 1 .. Len(ls[i])
  BY <1>1, <1>2
<1>4. ASSUME NEW g \in FilesIn(new) PROVE g \in FilesIn(ls) \/ g = f
  <2>1. PICK a \in DOMAIN new : \E b \in DOMAIN new[a] : g = new[a][b]
    BY <1>4, FilesInTree
  <2>2. PICK b \in DOMAIN new[a] : g = new[a][b]
    BY <2>1
  <2>3. CASE a # i
    BY <1>1, <2>2, <2>3, FilesInTree
  <2>4. CASE a = i
    <3>1. b = Len(ls[i]) + 1 \/ b \in 1 .. Len(ls[i])
      BY <1>1, <1>3, <2>4
    <3> QED
      BY <1>1, <1>2, <1>3, <2>2, <2>4, <3>1, FilesInTree
  <2> QED
    BY <2>3, <2>4
<1>5. ASSUME NEW g \in FilesIn(ls) PROVE g \in FilesIn(new)
  <2>1. PICK a \in DOMAIN ls : \E b \in DOMAIN ls[a] : g = ls[a][b]
    BY <1>5 DEF FilesIn
  <2>2. PICK b \in DOMAIN ls[a] : g = ls[a][b]
    BY <2>1
  <2>3. b \in DOMAIN new[a] /\ g = new[a][b]
    <3>1. CASE a # i
      BY <2>2, <3>1
    <3>2. CASE a = i
      <4>1. b \in 1 .. Len(ls[i]) /\ b \in 1 .. Len(ls[i]) + 1
        BY <1>1, <1>3, <2>2, <3>2
      <4> QED
        BY <1>2, <1>3, <2>2, <3>2, <4>1
    <3> QED
      BY <3>1, <3>2
  <2> QED
    BY <1>1, <2>3, FilesInTree
<1>6. f \in FilesIn(new)
  <2>1. Len(ls[i]) + 1 \in DOMAIN new[i]
    BY <1>1, <1>3
  <2> QED
    BY <1>1, <1>2, <2>1, FilesInTree
<1> QED
  BY <1>4, <1>5, <1>6 DEF TreeGains

\* The number that continues a level.
NextNumber(ls, i) == (i - 1) * SIZE_RATIO + Len(ls[i])

LEMMA NextNumberIs ==
  ASSUME NEW ls, NEW i \in Nat, NEW n \in Nat, n = Len(ls[i])
  PROVE  NextNumber(ls, i) = (i - 1) * 2 + n
  BY DEF NextNumber, SIZE_RATIO

AppendAt(ls, i, f) == [ls EXCEPT ![i] = Append(@, f)]

\* The elements of a sequence with one more at its end.
LEMMA AppendedAt ==
  ASSUME NEW s \in Seq(Nat), NEW f \in Nat, NEW b \in DOMAIN Append(s, f)
  PROVE  \/ b = Len(s) + 1 /\ Append(s, f)[b] = f
         \/ b \in DOMAIN s /\ Append(s, f)[b] = s[b]
<1>1. PICK n \in Nat : n = Len(s)
  OBVIOUS
<1>2. DOMAIN s = 1 .. n /\ DOMAIN Append(s, f) = 1 .. n + 1
  BY <1>1
<1>3. b = n + 1 \/ b \in 1 .. n
  BY <1>2
<1>4. Append(s, f)[n + 1] = f /\ \A c \in 1 .. n : Append(s, f)[c] = s[c]
  BY <1>1, AppendProperties
<1> QED
  BY ONLY <1>1, <1>2, <1>3, <1>4

\* A new file appended to one level keeps the numbering, and the set of files
\* of the tree grows by that file.
LEMMA AppendFile ==
  ASSUME NEW ls \in Seq(Seq(Nat)), NEW i \in DOMAIN ls, NEW f \in Nat,
         f = NextNumber(ls, i), Numbered(ls),
         NEW new, new = AppendAt(ls, i, f)
  PROVE  /\ new \in Seq(Seq(Nat))
         /\ Len(new) = Len(ls)
         /\ DOMAIN new = DOMAIN ls
         /\ new[i] = Append(ls[i], f)
         /\ \A a \in DOMAIN ls \ {i} : new[a] = ls[a]
         /\ Numbered(new)
         /\ TreeGains(ls, new, f)
<1>1. ls[i] \in Seq(Nat) /\ Append(ls[i], f) \in Seq(Nat)
  OBVIOUS
<1>2. /\ new \in Seq(Seq(Nat))
      /\ Len(new) = Len(ls)
      /\ DOMAIN new = DOMAIN ls
      /\ new[i] = Append(ls[i], f)
      /\ \A a \in DOMAIN ls \ {i} : new[a] = ls[a]
  BY <1>1 DEF AppendAt
<1>3. ASSUME NEW a \in DOMAIN new, NEW b \in DOMAIN new[a]
      PROVE  new[a][b] = (a - 1) * SIZE_RATIO + (b - 1)
  <2>1. CASE a # i
    BY <1>2, <2>1 DEF Numbered
  <2>2. CASE a = i
    <3>1. \/ b = Len(ls[i]) + 1 /\ new[a][b] = f
          \/ b \in DOMAIN ls[i] /\ new[a][b] = ls[i][b]
      <4>1. new[a] = Append(ls[i], f) /\ ls[i] \in Seq(Nat)
        BY <1>1, <1>2, <2>2
      <4>2. b \in DOMAIN Append(ls[i], f)
        BY <4>1
      <4>3. \/ b = Len(ls[i]) + 1 /\ Append(ls[i], f)[b] = f
            \/ b \in DOMAIN ls[i] /\ Append(ls[i], f)[b] = ls[i][b]
        BY ONLY f \in Nat, <4>1, <4>2, AppendedAt
      <4> QED
        BY <4>1, <4>3
    <3>2. CASE b = Len(ls[i]) + 1 /\ new[a][b] = f
      <4>1. PICK n \in Nat : n = Len(ls[i])
        BY <1>1
      <4>2. f = (i - 1) * SIZE_RATIO + n /\ b - 1 = n
        BY <3>2, <4>1 DEF NextNumber
      <4> QED
        BY ONLY <2>2, <3>2, <4>2
    <3>3. CASE b \in DOMAIN ls[i] /\ new[a][b] = ls[i][b]
      BY <2>2, <3>3 DEF Numbered
    <3> QED
      BY <3>1, <3>2, <3>3
  <2> QED
    BY <2>1, <2>2
<1>4. Numbered(new)
  BY <1>3 DEF Numbered
<1>5. TreeGains(ls, new, f)
  BY <1>2, TreeGrowsBy
<1> QED
  BY <1>2, <1>4, <1>5

LEMMA FlushIndInv == IndInv /\ Flush => IndInv'
<1> SUFFICES ASSUME IndInv, Flush PROVE IndInv'
  OBVIOUS
<1> USE KVStoreAssumption
<1> DEFINE grown == IF Len(levels) = 0 THEN AddNewLevel(levels) ELSE levels
<1>1. /\ grown \in Seq(Seq(Nat))
      /\ Len(grown) >= 1
      /\ DOMAIN levels \subseteq DOMAIN grown
      /\ \A a \in DOMAIN levels : grown[a] = levels[a]
      /\ \A a \in DOMAIN grown \ DOMAIN levels : a = 1 /\ grown[a] = <<>>
  <2>1. CASE Len(levels) = 0
    <3>1. levels = <<>> /\ grown = <<<<>>>>
      BY <2>1 DEF IndInv, TypeOK, AddNewLevel
    <3>2. <<>> \in Seq(Nat) /\ DOMAIN levels = {}
      BY <3>1
    <3>3. grown \in Seq(Seq(Nat)) /\ Len(grown) = 1 /\ grown[1] = <<>>
      <4> HIDE DEF grown
      <4> QED
        BY <3>1, <3>2
    <3> HIDE DEF grown
    <3>4. DOMAIN grown = {1}
      BY <3>3
    <3> QED
      BY <3>2, <3>3, <3>4
  <2>2. CASE Len(levels) # 0
    <3>1. grown = levels /\ levels \in Seq(Seq(Nat)) /\ Len(levels) >= 1
      BY <2>2 DEF IndInv, TypeOK
    <3> QED
      BY <3>1
  <2> QED
    BY <2>1, <2>2
<1>2. SSTNumber = Len(grown[1]) /\ SSTNumber \in Nat
  <2>1. CASE Len(levels) = 0
    BY <1>1, <2>1 DEF SSTNumber, IndInv, TypeOK
  <2>2. CASE Len(levels) # 0
    <3>1. 1 \in DOMAIN levels /\ levels[1] \in Seq(Nat) /\ Len(levels) > 0
      BY <2>2 DEF IndInv, TypeOK
    <3>2. Len(levels[1]) <= 1 /\ Len(levels[1]) \in Nat
      BY <3>1 DEF IndInv, TreeShape, Flush
    <3>3. grown[1] = levels[1]
      BY <1>1, <3>1
    <3> QED
      BY <3>1, <3>2, <3>3 DEF SSTNumber
  <2> QED
    BY <2>1, <2>2
<1>3. Numbered(grown)
  BY <1>1 DEF IndInv, TreeShape, Numbered
<1> HIDE DEF grown
<1>4. levels' = AppendAt(grown, 1, SSTNumber)
  BY DEF Flush, grown, AppendAt
<1>5. 1 \in DOMAIN grown /\ SSTNumber = NextNumber(grown, 1)
  BY <1>1, <1>2 DEF SIZE_RATIO, NextNumber
<1>6. /\ levels' \in Seq(Seq(Nat))
      /\ Len(levels') = Len(grown)
      /\ DOMAIN levels' = DOMAIN grown
      /\ levels'[1] = Append(grown[1], SSTNumber)
      /\ \A a \in DOMAIN grown \ {1} : levels'[a] = grown[a]
      /\ Numbered(levels')
      /\ TreeGains(grown, levels', SSTNumber)
  <2>1. /\ grown \in Seq(Seq(Nat)) /\ 1 \in DOMAIN grown /\ SSTNumber \in Nat
        /\ SSTNumber = NextNumber(grown, 1) /\ Numbered(grown)
        /\ levels' = AppendAt(grown, 1, SSTNumber)
    BY <1>1, <1>2, <1>3, <1>4, <1>5
  <2> QED
    BY ONLY <2>1, AppendFile
<1>7. TypeOK'
  <2> DEFINE file == BuildFile(SortedRun(memtable))
  <2>1. disk' = Assign(disk, SSTNumber, file)
    BY DEF Flush
  <2> HIDE DEF file
  <2>2. DOMAIN disk' \subseteq Nat /\ disk' = [f \in DOMAIN disk' |-> disk'[f]]
    <3>1. DOMAIN disk' = DOMAIN disk \cup {SSTNumber}
      BY <2>1 DEF Assign
    <3>2. disk' = [f \in DOMAIN disk' |-> disk'[f]]
      BY <2>1 DEF Assign
    <3> QED
      BY <1>2, <3>1, <3>2 DEF IndInv, TypeOK
  <2> QED
    BY <1>6, <2>2 DEF Flush, IndInv, TypeOK, EmptyMap
<1>8. CountBelowSize' /\ LoopLeavesEmpty'
  <2>1. current_memtable_entries' = 0 /\ memtable_size \in Nat \ {0}
    BY DEF Flush
  <2>2. CountBelowSize'
    BY <2>1 DEF CountBelowSize
  <2>3. LoopLeavesEmpty'
    <3>1. current_level' = 0 /\ Len(levels') >= 1
      BY <1>1, <1>6 DEF Flush, IndInv, LoopLeavesEmpty
    <3> QED
      BY <3>1 DEF LoopLeavesEmpty
  <2> QED
    BY <2>2, <2>3
<1>9. TreeShape'
  <2>1. DOMAIN disk' = FilesIn(levels')
    <3>1. DOMAIN disk' = DOMAIN disk \cup {SSTNumber}
      BY DEF Flush, Assign
    <3>2. DOMAIN disk = FilesIn(levels)
      BY DEF IndInv, TreeShape
    <3>3. FilesIn(grown) = FilesIn(levels)
      BY <1>1 DEF FilesIn
    <3>4. FilesIn(levels') = FilesIn(grown) \cup {SSTNumber}
      BY <1>6 DEF TreeGains
    <3> QED
      BY <3>1, <3>2, <3>3, <3>4
  <2>2. ASSUME NEW i \in DOMAIN levels'
        PROVE  Len(levels'[i]) <= IF pc' = "compact" /\ i = current_level' + 1
                                  THEN SIZE_RATIO ELSE 1
    <3>1. CASE i = 1
      <4>1. Len(levels'[1]) = Len(grown[1]) + 1
        BY <1>1, <1>2, <1>6, AppendProperties
      <4>2. Len(grown[1]) <= 1
        BY <1>2 DEF SSTNumber
      <4>3. pc' = "compact" /\ current_level' = 0
        BY DEF Flush, IndInv, LoopLeavesEmpty
      <4> QED
        BY <1>2, <3>1, <4>1, <4>2, <4>3 DEF SIZE_RATIO
    <3>2. CASE i # 1
      <4>1. i \in DOMAIN levels /\ levels'[i] = levels[i]
        BY <1>1, <1>6, <3>2
      <4>2. Len(levels[i]) <= 1
        BY <4>1 DEF Flush, IndInv, TreeShape
      <4>3. current_level' + 1 # i
        BY <3>2 DEF Flush, IndInv, LoopLeavesEmpty
      <4> QED
        BY <4>1, <4>2, <4>3
    <3> QED
      BY <3>1, <3>2
  <2>3. levels'[Len(levels')] # <<>>
    <3>1. CASE Len(levels') = 1
      BY <1>1, <1>2, <1>6, <3>1, AppendProperties
    <3>2. CASE Len(levels') # 1
      <4>1. /\ Len(levels') = Len(levels) /\ Len(levels) \in Nat \ {0, 1}
            /\ levels'[Len(levels')] = levels[Len(levels)]
        <5>1. Len(levels') \in DOMAIN levels' /\ Len(levels') \in Nat
          BY <1>1, <1>6
        <5>2. Len(levels') \in DOMAIN levels
          BY <1>1, <1>6, <3>2, <5>1
        <5>3. Len(levels) = Len(levels')
          <6>1. grown = levels
            BY <5>2 DEF grown, IndInv, TypeOK
          <6> QED
            BY <1>6, <6>1
        <5> QED
          BY <1>1, <1>6, <3>2, <5>1, <5>2, <5>3
      <4> QED
        BY <4>1 DEF IndInv, TreeShape
    <3> QED
      BY <3>1, <3>2
  <2> QED
    BY <1>6, <2>1, <2>2, <2>3 DEF TreeShape
<1> QED
  BY <1>7, <1>8, <1>9 DEF IndInv

LEMMA StopIndInv == IndInv /\ StopCompaction => IndInv'
<1> SUFFICES ASSUME IndInv, StopCompaction PROVE IndInv'
  OBVIOUS
<1>1. TypeOK' /\ CountBelowSize' /\ LoopLeavesEmpty'
  BY DEF StopCompaction, IndInv, TypeOK, CountBelowSize, LoopLeavesEmpty
<1>2. ASSUME NEW i \in DOMAIN levels PROVE Len(levels[i]) <= 1
  <2>1. levels[i] \in Seq(Nat)
    BY DEF IndInv, TypeOK
  <2>2. CASE i = current_level + 1
    BY <2>1, <2>2 DEF StopCompaction, NeedsCompaction, IndInv, LoopLeavesEmpty, SIZE_RATIO
  <2>3. CASE i # current_level + 1
    BY <2>3 DEF IndInv, TreeShape
  <2> QED
    BY <2>2, <2>3
<1>3. TreeShape'
  BY <1>2 DEF StopCompaction, IndInv, TreeShape
<1> QED
  BY <1>1, <1>3 DEF IndInv

EmptyAt(ls, i) == [ls EXCEPT ![i] = <<>>]

TreeLoses(ls, new, i) == FilesIn(new) = FilesIn(ls) \ {ls[i][j] : j \in DOMAIN ls[i]}

SmallLevels(ls) == \A i \in DOMAIN ls : Len(ls[i]) <= SIZE_RATIO

\* A number determines its level.
LEMMA NumberOfOneLevel ==
  ASSUME NEW a \in Nat, NEW i \in Nat, NEW b \in 1 .. 2, NEW j \in 1 .. 2,
         (a - 1) * 2 + (b - 1) = (i - 1) * 2 + (j - 1)
  PROVE  a = i
  OBVIOUS

\* A level has two files at most.
LEMMA IndexOfShort ==
  ASSUME NEW s \in Seq(Nat), Len(s) <= 2, NEW b \in DOMAIN s
  PROVE  b \in 1 .. 2
<1>1. PICK m \in Nat : m = Len(s)
  OBVIOUS
<1>2. m \in 0 .. 2 /\ b \in 1 .. m
  BY <1>1
<1> QED
  BY ONLY <1>2

\* An index of a sequence is a number.
LEMMA IndexIsNat == ASSUME NEW S, NEW s \in Seq(S), NEW i \in DOMAIN s PROVE i \in Nat
  OBVIOUS

\* In a numbered tree with at most SIZE_RATIO files to a level no two levels
\* share a number, so that removing the files of one level removes no other's.
LEMMA EmptyLevel ==
  ASSUME NEW ls \in Seq(Seq(Nat)), NEW i \in DOMAIN ls,
         Numbered(ls), SmallLevels(ls),
         NEW new, new = EmptyAt(ls, i)
  PROVE  /\ new \in Seq(Seq(Nat))
         /\ Len(new) = Len(ls)
         /\ DOMAIN new = DOMAIN ls
         /\ new[i] = <<>>
         /\ \A a \in DOMAIN ls \ {i} : new[a] = ls[a]
         /\ Numbered(new)
         /\ TreeLoses(ls, new, i)
<1>1. <<>> \in Seq(Nat)
  OBVIOUS
<1>2. /\ new \in Seq(Seq(Nat))
      /\ Len(new) = Len(ls)
      /\ DOMAIN new = DOMAIN ls
      /\ new[i] = <<>>
      /\ \A a \in DOMAIN ls \ {i} : new[a] = ls[a]
  BY <1>1 DEF EmptyAt
<1>3. Numbered(new)
  <2>1. ASSUME NEW a \in DOMAIN new, NEW b \in DOMAIN new[a]
        PROVE  new[a][b] = (a - 1) * SIZE_RATIO + (b - 1)
    <3>1. CASE a = i
      BY <1>2, <3>1
    <3>2. CASE a # i
      <4>1. a \in DOMAIN ls /\ new[a] = ls[a]
        BY <1>2, <3>2
      <4> QED
        BY <4>1 DEF Numbered
    <3> QED
      BY <3>1, <3>2
  <2> QED
    BY <2>1 DEF Numbered
<1>4. ASSUME NEW a \in DOMAIN ls, NEW b \in DOMAIN ls[a], NEW j \in DOMAIN ls[i],
             ls[a][b] = ls[i][j]
      PROVE  a = i
  <2>1. ls[a] \in Seq(Nat) /\ ls[i] \in Seq(Nat)
    OBVIOUS
  <2>2. b \in 1 .. 2 /\ j \in 1 .. 2 /\ a \in Nat /\ i \in Nat
    <3>1. Len(ls[a]) <= 2 /\ Len(ls[i]) <= 2
      BY DEF SmallLevels, SIZE_RATIO
    <3>2. b \in 1 .. 2
      BY <2>1, <3>1, IndexOfShort
    <3>3. j \in 1 .. 2
      BY <2>1, <3>1, IndexOfShort
    <3>4. a \in Nat /\ i \in Nat
      BY IndexIsNat
    <3> QED
      BY ONLY <3>2, <3>3, <3>4
  <2>3. (a - 1) * 2 + (b - 1) = (i - 1) * 2 + (j - 1)
    BY <1>4 DEF Numbered, SIZE_RATIO
  <2> QED
    BY ONLY <2>2, <2>3, NumberOfOneLevel
<1>5. ASSUME NEW g \in FilesIn(new)
      PROVE  g \in FilesIn(ls) \ {ls[i][j] : j \in DOMAIN ls[i]}
  <2>1. PICK a \in DOMAIN new : \E b \in DOMAIN new[a] : g = new[a][b]
    BY <1>5 DEF FilesIn
  <2>2. PICK b \in DOMAIN new[a] : g = new[a][b]
    BY <2>1
  <2>3. a # i /\ a \in DOMAIN ls /\ b \in DOMAIN ls[a] /\ g = ls[a][b]
    <3>1. a # i
      BY <1>2, <2>2
    <3> QED
      BY <1>2, <2>2, <3>1
  <2>4. g \in FilesIn(ls)
    BY <2>3 DEF FilesIn
  <2>5. ASSUME NEW j \in DOMAIN ls[i], g = ls[i][j] PROVE FALSE
    BY <1>4, <2>3, <2>5
  <2> QED
    BY <2>4, <2>5
<1>6. ASSUME NEW g \in FilesIn(ls), g \notin {ls[i][j] : j \in DOMAIN ls[i]}
      PROVE  g \in FilesIn(new)
  <2>1. PICK a \in DOMAIN ls : \E b \in DOMAIN ls[a] : g = ls[a][b]
    BY <1>6 DEF FilesIn
  <2>2. PICK b \in DOMAIN ls[a] : g = ls[a][b]
    BY <2>1
  <2>3. a # i
    BY <1>6, <2>2
  <2>4. a \in DOMAIN new /\ b \in DOMAIN new[a] /\ g = new[a][b]
    BY <1>2, <2>2, <2>3
  <2> QED
    BY <2>4 DEF FilesIn
<1>7. TreeLoses(ls, new, i)
  BY <1>5, <1>6 DEF TreeLoses
<1> QED
  BY <1>2, <1>3, <1>7

LEMMA CompactIndInv == IndInv /\ CompactLevel => IndInv'
<1> SUFFICES ASSUME IndInv, CompactLevel PROVE IndInv'
  OBVIOUS
<1> DEFINE this  == current_level + 1
           grown == IF current_level >= Len(levels) - 1 THEN AddNewLevel(levels) ELSE levels
           num   == (current_level + 1) * SIZE_RATIO + Len(grown[this + 1])
           lower == AppendAt(grown, this + 1, num)
           removed == {levels[this][i] : i \in 1 .. Len(levels[this])}
           file == MergeSSTs(disk[levels[this][1]], disk[levels[this][2]], IsLastLevel)
\* The level that is compacted holds SIZE_RATIO files.
<1>1. /\ levels \in Seq(Seq(Nat)) /\ current_level \in Nat
      /\ pc = "compact" /\ pc' = "compact" /\ current_level' = this
  BY DEF IndInv, TypeOK, CompactLevel
<1>2. this \in DOMAIN levels
  BY <1>1 DEF CompactLevel, NeedsCompaction
<1>3. levels[this] \in Seq(Nat) /\ Len(levels[this]) = SIZE_RATIO
  <2>1. levels[this] \in Seq(Nat)
    BY <1>1, <1>2
  <2>2. PICK n \in Nat : n = Len(levels[this])
    BY <2>1
  <2>3. n >= 2
    BY <2>2 DEF CompactLevel, NeedsCompaction, SIZE_RATIO
  <2>4. n <= 2
    BY <1>1, <1>2, <2>2 DEF IndInv, TreeShape, SIZE_RATIO
  <2>5. n = SIZE_RATIO
    BY <2>3, <2>4 DEF SIZE_RATIO
  <2> QED
    BY <2>1, <2>2, <2>5
\* The tree, with one more level if the compacted one was the deepest.
<1>4. /\ grown \in Seq(Seq(Nat))
      /\ this + 1 \in DOMAIN grown /\ this \in DOMAIN grown
      /\ DOMAIN levels \subseteq DOMAIN grown
      /\ \A a \in DOMAIN levels : grown[a] = levels[a]
      /\ \A a \in DOMAIN grown \ DOMAIN levels : a = this + 1 /\ a = Len(grown) /\ grown[a] = <<>>
      /\ Len(grown) > this + 1 => grown = levels
  <2>1. CASE current_level >= Len(levels) - 1
    <3>1. grown = Append(levels, <<>>) /\ <<>> \in Seq(Nat) /\ Len(levels) = this
      BY <1>1, <1>2, <2>1 DEF AddNewLevel
    <3> HIDE DEF grown
    <3>2. /\ grown \in Seq(Seq(Nat)) /\ Len(grown) = this + 1 /\ grown[this + 1] = <<>>
          /\ \A a \in 1 .. this : grown[a] = levels[a]
      BY <1>1, <3>1, AppendProperties
    <3>3. DOMAIN grown = 1 .. this + 1 /\ DOMAIN levels = 1 .. this
      BY <1>1, <3>1, <3>2
    <3>4. PICK t \in Nat : t = this
      BY <1>1
    <3>5. t >= 1 /\ grown[t + 1] = <<>> /\ Len(grown) = t + 1
          /\ DOMAIN grown = 1 .. t + 1 /\ DOMAIN levels = 1 .. t
      BY <1>1, <3>2, <3>3, <3>4
    <3> HIDE DEF this
    <3>6. /\ t + 1 \in DOMAIN grown /\ t \in DOMAIN grown /\ DOMAIN levels \subseteq DOMAIN grown
          /\ \A a \in DOMAIN grown \ DOMAIN levels : a = t + 1
          /\ ~ (t + 1 > t + 1)
      BY ONLY <3>5, t \in Nat
    <3> QED
      BY ONLY <3>2, <3>3, <3>4, <3>5, <3>6
  <2>2. CASE ~ current_level >= Len(levels) - 1
    <3>1. grown = levels
      BY <2>2
    <3> QED
      BY <1>1, <1>2, <2>2, <3>1
  <2> QED
    BY <2>1, <2>2
<1>5. FilesIn(grown) = FilesIn(levels) /\ Numbered(grown)
  <2> HIDE DEF grown
  <2>1. FilesIn(grown) = FilesIn(levels)
    BY <1>4 DEF FilesIn
  <2>2. Numbered(grown)
    BY <1>4 DEF IndInv, TreeShape, Numbered
  <2> QED
    BY <2>1, <2>2
<1>6. \E n \in 0 .. 1 : n = Len(grown[this + 1])
  <2> HIDE DEF grown
  <2>1. CASE this + 1 \in DOMAIN levels
    <3>1. grown[this + 1] = levels[this + 1]
      BY <1>4, <2>1
    <3>2. PICK n \in Nat : n = Len(levels[this + 1])
      BY <1>1, <2>1
    <3>3. n <= 1
      BY <1>1, <2>1, <3>2 DEF IndInv, TreeShape
    <3>4. n \in 0 .. 1
      BY <3>3
    <3> QED
      BY <3>1, <3>2, <3>4
  <2>2. CASE this + 1 \notin DOMAIN levels
    BY <1>4, <2>2
  <2> QED
    BY <2>1, <2>2
<1>7. num \in Nat /\ num = NextNumber(grown, this + 1)
  <2>1. PICK n \in 0 .. 1 : n = Len(grown[this + 1])
    BY <1>6
  <2>2. num = (current_level + 1) * SIZE_RATIO + n
    BY <2>1
  <2>3. NextNumber(grown, this + 1) = (this + 1 - 1) * 2 + n
    <3>1. PICK i \in Nat : i = this + 1
      BY <1>1
    <3>2. n = Len(grown[i]) /\ n \in Nat
      BY <2>1, <3>1
    <3>3. NextNumber(grown, i) = (i - 1) * 2 + n
      BY ONLY <3>2, NextNumberIs
    <3>4. this \in Nat
      BY <1>1
    <3> HIDE DEF this, grown
    <3>5. (i - 1) * 2 + n = (this + 1 - 1) * 2 + n
      BY <3>1, <3>4
    <3>6. NextNumber(grown, i) = NextNumber(grown, this + 1)
      BY <3>1
    <3> QED
      BY ONLY <3>3, <3>5, <3>6
  <2>4. this + 1 - 1 = current_level + 1
    BY <1>1
  <2> HIDE DEF num
  <2>5. num \in Nat
    BY <1>1, <2>2 DEF SIZE_RATIO
  <2> QED
    BY <2>2, <2>3, <2>4, <2>5 DEF SIZE_RATIO
<1>8. levels' = EmptyAt(lower, this)
  <2>1. levels' = [grown EXCEPT ![this] = <<>>, ![this + 1] = Append(@, num)]
    BY DEF CompactLevel
  <2>2. this # this + 1 /\ this \in DOMAIN grown /\ this + 1 \in DOMAIN grown
    BY <1>1, <1>4
  <2> HIDE DEF grown, num, this
  <2> QED
    BY <2>1, <2>2 DEF AppendAt, EmptyAt
<1>9. disk' = [f \in (DOMAIN disk \cup {num}) \ removed |-> Assign(disk, num, file)[f]]
  BY DEF CompactLevel, Assign
<1> HIDE DEF grown, num, lower, file
<1>10. /\ lower \in Seq(Seq(Nat))
       /\ Len(lower) = Len(grown)
       /\ DOMAIN lower = DOMAIN grown
       /\ lower[this + 1] = Append(grown[this + 1], num)
       /\ \A a \in DOMAIN grown \ {this + 1} : lower[a] = grown[a]
       /\ Numbered(lower)
       /\ TreeGains(grown, lower, num)
  <2>1. /\ grown \in Seq(Seq(Nat)) /\ this + 1 \in DOMAIN grown /\ num \in Nat
        /\ num = NextNumber(grown, this + 1) /\ Numbered(grown)
        /\ lower = AppendAt(grown, this + 1, num)
    BY <1>4, <1>5, <1>7 DEF lower
  <2> HIDE DEF this
  <2> QED
    BY ONLY <2>1, AppendFile
<1>11. /\ lower[this] = levels[this] /\ this # this + 1
       /\ \A a \in DOMAIN levels \ {this + 1} : lower[a] = levels[a]
       /\ this \in DOMAIN lower
  <2>1. this # this + 1
    BY <1>1
  <2> HIDE DEF this
  <2>2. /\ this \in DOMAIN levels /\ this \in DOMAIN grown
        /\ DOMAIN levels \subseteq DOMAIN grown /\ DOMAIN lower = DOMAIN grown
        /\ \A a \in DOMAIN levels : grown[a] = levels[a]
        /\ \A a \in DOMAIN grown \ {this + 1} : lower[a] = grown[a]
    BY <1>2, <1>4, <1>10
  <2> QED
    BY ONLY <2>1, <2>2
<1>12. SmallLevels(lower)
  <2>1. ASSUME NEW a \in DOMAIN lower PROVE Len(lower[a]) <= SIZE_RATIO
    <3>1. CASE a = this + 1
      <4>1. PICK n \in 0 .. 1 : n = Len(grown[this + 1])
        BY <1>6
      <4>2. grown[this + 1] \in Seq(Nat)
        BY <1>4
      <4>3. Len(lower[a]) = n + 1
        BY <1>7, <1>10, <3>1, <4>1, <4>2, AppendProperties
      <4> QED
        BY <4>3 DEF SIZE_RATIO
    <3>2. CASE a # this + 1
      <4>1. a \in DOMAIN levels /\ lower[a] = levels[a]
        BY <1>4, <1>10, <3>2
      <4>2. levels[a] \in Seq(Nat)
        BY <1>1, <4>1
      <4>3. PICK n \in Nat : n = Len(levels[a])
        BY <4>2
      <4>4. n <= 2
        BY <4>1, <4>3 DEF IndInv, TreeShape, SIZE_RATIO
      <4> QED
        BY <4>1, <4>3, <4>4 DEF SIZE_RATIO
    <3> QED
      BY <3>1, <3>2
  <2> QED
    BY <2>1 DEF SmallLevels
<1>13. /\ levels' \in Seq(Seq(Nat))
       /\ Len(levels') = Len(lower)
       /\ DOMAIN levels' = DOMAIN lower
       /\ levels'[this] = <<>>
       /\ \A a \in DOMAIN lower \ {this} : levels'[a] = lower[a]
       /\ Numbered(levels')
       /\ TreeLoses(lower, levels', this)
  <2> HIDE DEF this
  <2>1. lower \in Seq(Seq(Nat)) /\ this \in DOMAIN lower /\ Numbered(lower)
    BY <1>10, <1>11
  <2> QED
    BY ONLY <2>1, <1>8, <1>12, EmptyLevel
<1>14. DOMAIN disk' = (DOMAIN disk \cup {num}) \ removed
  <2> HIDE DEF removed
  <2> QED
    BY <1>9
<1>15. TypeOK'
  <2>1. DOMAIN disk' \subseteq Nat
    BY <1>7, <1>14 DEF IndInv, TypeOK
  <2>2. disk' = [f \in DOMAIN disk' |-> disk'[f]]
    BY <1>9
  <2> QED
    <3>1. UNCHANGED <<memtable, current_memtable_entries, pc>> /\ current_level' \in Nat
      BY <1>1 DEF CompactLevel
    <3>2. levels' \in Seq(Seq(Nat))
      BY <1>13
    <3> QED
      BY <2>1, <2>2, <3>1, <3>2 DEF IndInv, TypeOK
<1>16. CountBelowSize' /\ LoopLeavesEmpty'
  <2>1. CountBelowSize'
    BY <1>1 DEF CompactLevel, IndInv, CountBelowSize
  <2>2. current_level' < Len(levels')
    BY <1>1, <1>4, <1>10, <1>13
  <2>3. ASSUME NEW i \in 1 .. this PROVE levels'[i] = <<>>
    <3>1. CASE i = this
      BY <1>13, <3>1
    <3>2. CASE i # this
      <4>1. i \in 1 .. current_level /\ i \in DOMAIN levels /\ i # this + 1
        BY <1>1, <1>2, <3>2
      <4>2. levels'[i] = levels[i]
        BY <1>4, <1>10, <1>11, <1>13, <3>2, <4>1
      <4> QED
        BY <1>1, <4>1, <4>2 DEF IndInv, LoopLeavesEmpty
    <3> QED
      BY <3>1, <3>2
  <2> QED
    BY <1>1, <2>1, <2>2, <2>3 DEF LoopLeavesEmpty
<1>17. TreeShape'
  <2>1. DOMAIN disk' = FilesIn(levels')
    <3>1. DOMAIN disk = FilesIn(grown)
      BY <1>5 DEF IndInv, TreeShape
    <3>2. FilesIn(lower) = FilesIn(grown) \cup {num}
      BY <1>10 DEF TreeGains
    <3>3. {lower[this][j] : j \in DOMAIN lower[this]} = removed
      BY <1>3, <1>11
    <3>4. FilesIn(levels') = FilesIn(lower) \ removed
      BY <1>13, <3>3 DEF TreeLoses
    <3> HIDE DEF removed
    <3> QED
      BY <1>14, <3>1, <3>2, <3>4
  <2>2. ASSUME NEW i \in DOMAIN levels'
        PROVE  Len(levels'[i]) <= IF pc' = "compact" /\ i = current_level' + 1
                                  THEN SIZE_RATIO ELSE 1
    <3>1. CASE i = this + 1
      <4>1. levels'[i] = lower[i] /\ i \in DOMAIN lower
        BY <1>1, <1>11, <1>13, <3>1
      <4>2. Len(levels'[i]) <= SIZE_RATIO
        BY <1>12, <4>1 DEF SmallLevels
      <4> QED
        BY <1>1, <3>1, <4>2
    <3>2. CASE i = this
      BY <1>1, <1>13, <3>2
    <3>3. CASE i # this /\ i # this + 1
      <4>1. i \in DOMAIN levels /\ levels'[i] = levels[i]
        BY <1>4, <1>10, <1>11, <1>13, <3>3
      <4>2. Len(levels[i]) <= 1
        BY <1>1, <3>3, <4>1 DEF IndInv, TreeShape
      <4> QED
        BY <1>1, <3>3, <4>1, <4>2
    <3> QED
      BY <3>1, <3>2, <3>3
  <2>3. levels'[Len(levels')] # <<>>
    <3>1. Len(levels') = Len(grown) /\ Len(grown) >= this + 1
      BY <1>1, <1>4, <1>10, <1>13
    <3>2. CASE Len(grown) = this + 1
      <4>1. levels'[this + 1] = Append(grown[this + 1], num) /\ grown[this + 1] \in Seq(Nat)
        <5>1. this + 1 \in DOMAIN lower \ {this} /\ grown[this + 1] \in Seq(Nat)
          BY <1>4, <1>10, <1>11
        <5> QED
          BY <1>10, <1>13, <5>1
      <4> QED
        BY <1>7, <3>1, <3>2, <4>1, AppendProperties
    <3>3. CASE Len(grown) # this + 1
      <4>1. grown = levels /\ Len(levels) \in DOMAIN levels /\ Len(levels) > this + 1
        BY <1>1, <1>2, <1>4, <3>1, <3>3
      <4>2. levels'[Len(levels)] = levels[Len(levels)]
        <5>1. PICK n \in DOMAIN levels : n = Len(levels)
          BY <4>1
        <5>2. n \in Nat /\ n > this + 1
          BY <1>1, <4>1, <5>1
        <5>3. n # this /\ n # this + 1
          BY <1>1, <5>2
        <5>4. n \in DOMAIN lower
          BY <1>4, <1>10
        <5>5. levels'[n] = lower[n] /\ lower[n] = levels[n]
          BY <1>11, <1>13, <5>3, <5>4
        <5> QED
          BY <5>1, <5>5
      <4> QED
        BY <3>1, <4>1, <4>2 DEF IndInv, TreeShape
    <3> QED
      BY <3>2, <3>3
  <2> QED
    BY <1>13, <2>1, <2>2, <2>3 DEF TreeShape
<1> QED
  BY <1>15, <1>16, <1>17 DEF IndInv

-----------------------------------------------------------------------------
(* Opening the directory                                                   *)

LEMMA ShortSequence ==
  ASSUME NEW s \in Seq(Nat), Len(s) <= 1
  PROVE  s = <<>> \/ (1 \in DOMAIN s /\ s = <<s[1]>>)
<1>1. PICK n \in Nat : n = Len(s)
  OBVIOUS
<1>2. CASE n = 0
  <2>1. Len(s) = 0
    BY <1>1, <1>2
  <2> QED
    BY <2>1
<1>3. CASE n = 1
  <2>1. Len(s) = 1
    BY <1>1, <1>3
  <2> QED
    BY <2>1
<1>4. n <= 1
  BY <1>1
<1> QED
  BY <1>2, <1>3, <1>4

\* Between calls a level holds nothing or the first file of its two numbers.
LEMMA RestingLevel ==
  ASSUME IndInv, pc = "idle", NEW i \in DOMAIN levels
  PROVE  levels[i] = <<>> \/ levels[i] = <<(i - 1) * 2>>
<1>1. levels[i] \in Seq(Nat) /\ i \in Nat
  BY DEF IndInv, TypeOK
<1>2. Len(levels[i]) <= 1
  BY DEF IndInv, TreeShape
<1>3. levels[i] = <<>> \/ (1 \in DOMAIN levels[i] /\ levels[i] = <<levels[i][1]>>)
  BY <1>1, <1>2, ShortSequence
<1>4. ASSUME 1 \in DOMAIN levels[i] PROVE levels[i][1] = (i - 1) * 2
  <2>1. levels[i][1] = (i - 1) * 2 + (1 - 1)
    BY <1>4 DEF IndInv, TreeShape, Numbered, SIZE_RATIO
  <2> QED
    BY <1>1, <2>1
<1> QED
  BY <1>3, <1>4

\* Between calls a file's number gives its level.
LEMMA LevelOfFile ==
  ASSUME IndInv, pc = "idle", NEW f \in DOMAIN disk
  PROVE  \E i \in DOMAIN levels : levels[i] = <<f>> /\ f = (i - 1) * 2 /\ LevelOf(f) = i - 1
<1>1. f \in FilesIn(levels)
  BY DEF IndInv, TreeShape
<1>2. PICK i \in DOMAIN levels : \E j \in DOMAIN levels[i] : f = levels[i][j]
  BY <1>1 DEF FilesIn
<1>3. PICK j \in DOMAIN levels[i] : f = levels[i][j]
  BY <1>2
<1>4. levels[i] = <<(i - 1) * 2>>
  BY <1>3, RestingLevel
<1>5. f = (i - 1) * 2 /\ i \in Nat
  BY <1>3, <1>4 DEF IndInv, TypeOK
<1>6. ((i - 1) * 2) \div 2 = i - 1
  BY <1>5
<1>7. i \in Nat \ {0} /\ f >= 0
  BY <1>5 DEF IndInv, TypeOK
<1>8. LevelOf(f) = f \div 2
  BY <1>5, <1>7 DEF LevelOf, SIZE_RATIO
<1> QED
  BY <1>4, <1>5, <1>6, <1>8

LEMMA FilesOfLevel ==
  ASSUME IndInv, pc = "idle", NEW i \in DOMAIN levels
  PROVE  /\ levels[i] = <<>> => FilesOf(i - 1) = {}
         /\ levels[i] # <<>> => levels[i] = <<(i - 1) * 2>> /\ FilesOf(i - 1) = {(i - 1) * 2}
<1>1. i \in Nat /\ DOMAIN levels \subseteq Nat
  BY DEF IndInv, TypeOK
<1>2. ASSUME NEW f \in FilesOf(i - 1) PROVE levels[i] = <<f>> /\ f = (i - 1) * 2
  <2>1. f \in DOMAIN disk /\ LevelOf(f) = i - 1
    BY DEF FilesOf
  <2>2. PICK a \in DOMAIN levels : levels[a] = <<f>> /\ f = (a - 1) * 2 /\ LevelOf(f) = a - 1
    BY <2>1, LevelOfFile
  <2>3. a = i
    BY <1>1, <2>1, <2>2
  <2> QED
    BY <2>2, <2>3
<1>3. CASE levels[i] = <<>>
  BY <1>2, <1>3
<1>4. CASE levels[i] # <<>>
  <2>1. levels[i] = <<(i - 1) * 2>>
    BY <1>4, RestingLevel
  <2>2. (i - 1) * 2 \in DOMAIN disk
    BY <2>1 DEF IndInv, TreeShape, FilesIn
  <2>3. i >= 1
    BY DEF IndInv, TypeOK
  <2>4. (i - 1) * 2 >= 0 /\ ((i - 1) * 2) \div 2 = i - 1
    BY <1>1, <2>3
  <2>5. (i - 1) * 2 \in FilesOf(i - 1)
    BY <1>1, <2>2, <2>3, <2>4 DEF FilesOf, LevelOf, SIZE_RATIO
  <2> QED
    BY <1>2, <1>4, <2>1, <2>5
<1> QED
  BY <1>3, <1>4

\* The listings of a directory part with no file, or with one.
LEMMA ListingOfNone == ASSUME NEW s \in Listings({}) PROVE s = <<>>
<1>1. Cardinality({}) = 0
  BY FS_EmptySet
<1>2. s \in [1 .. 0 -> {}]
  BY <1>1 DEF Listings
<1> QED
  BY <1>2

LEMMA ListingOfOne == ASSUME NEW f, NEW s \in Listings({f}) PROVE s = <<f>>
<1>1. Cardinality({f}) = 1
  BY FS_Singleton
<1>2. s \in [1 .. 1 -> {f}]
  BY <1>1 DEF Listings
<1> QED
  BY <1>2

LEMMA RestartKeepsTree == IndInv /\ Restart => UNCHANGED levels
<1> SUFFICES ASSUME IndInv, Restart PROVE levels' = levels
  OBVIOUS
<1>1. levels \in Seq(Seq(Nat)) /\ pc = "idle" /\ levels' \in LoadedLevels
  BY DEF IndInv, TypeOK, Restart
<1>2. CASE DOMAIN disk = {}
  <2>1. levels' = <<>>
    BY <1>1, <1>2 DEF LoadedLevels
  <2>2. \A i \in DOMAIN levels : levels[i] = <<>>
    <3>1. ASSUME NEW i \in DOMAIN levels, levels[i] # <<>> PROVE FALSE
      BY <1>1, <1>2, <3>1, FilesOfLevel DEF FilesOf
    <3> QED
      BY <3>1
  <2>3. Len(levels) = 0
    BY <1>1, <2>2 DEF IndInv, TreeShape
  <2> QED
    BY <1>1, <2>1, <2>3
<1>3. CASE DOMAIN disk # {}
  <2> DEFINE Top(l) == \A f \in DOMAIN disk : LevelOf(f) <= l
             top == CHOOSE l \in {LevelOf(f) : f \in DOMAIN disk} : Top(l)
  <2>1. top = Len(levels) - 1
    <3>1. Len(levels) > 0
      <4>1. PICK f \in DOMAIN disk : TRUE
        BY <1>3
      <4>2. \E i \in DOMAIN levels : levels[i] = <<f>>
        BY <1>1, <4>1, LevelOfFile
      <4> QED
        BY <1>1, <4>2
    <3>2. PICK n \in DOMAIN levels : n = Len(levels) /\ n \in Nat
      BY <1>1, <3>1
    <3>3. levels[n] # <<>>
      BY <3>1, <3>2 DEF IndInv, TreeShape
    <3>4. FilesOf(n - 1) = {(n - 1) * 2}
      BY <1>1, <3>3, FilesOfLevel
    <3>5. (n - 1) * 2 \in DOMAIN disk /\ LevelOf((n - 1) * 2) = n - 1
      BY <3>4 DEF FilesOf
    <3>6. \A f \in DOMAIN disk : LevelOf(f) \in Nat /\ LevelOf(f) <= n - 1
      <4>1. ASSUME NEW f \in DOMAIN disk PROVE LevelOf(f) \in Nat /\ LevelOf(f) <= n - 1
        <5>1. PICK i \in DOMAIN levels : LevelOf(f) = i - 1
          BY <1>1, LevelOfFile
        <5>2. i \in Nat /\ i >= 1 /\ i <= n
          BY <1>1, <3>2
        <5> QED
          BY <5>1, <5>2, <3>2
      <4> QED
        BY <4>1
    <3>7. n - 1 \in {LevelOf(f) : f \in DOMAIN disk} /\ Top(n - 1)
      BY <3>5, <3>6
    <3>8. top \in {LevelOf(f) : f \in DOMAIN disk} /\ Top(top)
      <4> HIDE DEF Top
      <4> QED
        BY <3>7
    <3>9. top \in Nat /\ top <= n - 1 /\ n - 1 <= top
      <4> HIDE DEF top
      <4> QED
        BY <3>5, <3>6, <3>8
    <3> HIDE DEF top
    <3> QED
      BY <3>2, <3>9
  <2> HIDE DEF top
  <2>2. \A i \in 1 .. top + 1 : levels'[i] \in Listings(FilesOf(i - 1))
    BY <1>1, <1>3 DEF LoadedLevels, top
  <2>3. DOMAIN levels' = 1 .. top + 1 /\ levels' = [i \in 1 .. top + 1 |-> levels'[i]]
    BY <1>1, <1>3 DEF LoadedLevels, top
  <2>4. DOMAIN levels = 1 .. top + 1
    <3>1. PICK n \in Nat : n = Len(levels)
      BY <1>1
    <3>2. top + 1 = n
      BY <2>1, <3>1
    <3> QED
      BY <1>1, <3>1, <3>2
  <2>5. ASSUME NEW i \in DOMAIN levels PROVE levels'[i] = levels[i]
    <3>1. levels'[i] \in Listings(FilesOf(i - 1))
      BY <2>2, <2>4
    <3>2. CASE levels[i] = <<>>
      BY <1>1, <3>1, <3>2, FilesOfLevel, ListingOfNone
    <3>3. CASE levels[i] # <<>>
      BY <1>1, <3>1, <3>3, FilesOfLevel, ListingOfOne
    <3> QED
      BY <3>2, <3>3
  <2> QED
    <3>1. levels = [i \in 1 .. top + 1 |-> levels[i]]
      BY <1>1, <2>4
    <3>2. \A i \in 1 .. top + 1 : levels'[i] = levels[i]
      BY <2>4, <2>5
    <3> QED
      BY <2>3, <3>1, <3>2
<1> QED
  BY <1>2, <1>3

LEMMA RestartIndInv == IndInv /\ Restart => IndInv'
<1> SUFFICES ASSUME IndInv, Restart PROVE IndInv'
  OBVIOUS
<1> USE KVStoreAssumption
<1>1. UNCHANGED <<levels, disk, pc, current_level>>
  BY RestartKeepsTree DEF Restart
<1>2. TypeOK' /\ CountBelowSize'
  BY <1>1 DEF Restart, IndInv, TypeOK, CountBelowSize, EmptyMap
<1>3. TreeShape' /\ LoopLeavesEmpty'
  BY <1>1 DEF IndInv, TreeShape, LoopLeavesEmpty
<1> QED
  BY <1>2, <1>3 DEF IndInv

LEMMA NextIndInv == IndInv /\ [Next]_vars => IndInv'
<1> SUFFICES ASSUME IndInv, [Next]_vars PROVE IndInv'
  OBVIOUS
<1>1. CASE \E k \in Keys, v \in Values : Put(k, v)
  BY <1>1, PutIndInv
<1>2. CASE \E k \in Keys : Delete(k)
  BY <1>2, DeleteIndInv
<1>3. CASE Close
  BY <1>3, CloseIndInv
<1>4. CASE Flush
  BY <1>4, FlushIndInv
<1>5. CASE CompactLevel
  BY <1>5, CompactIndInv
<1>6. CASE StopCompaction
  BY <1>6, StopIndInv
<1>7. CASE Restart
  BY <1>7, RestartIndInv
<1>8. CASE UNCHANGED vars
  BY <1>8 DEF vars, IndInv, TypeOK, TreeShape, CountBelowSize, LoopLeavesEmpty
<1> QED
  BY <1>1, <1>2, <1>3, <1>4, <1>5, <1>6, <1>7, <1>8 DEF Next

-----------------------------------------------------------------------------
(* The theorems                                                            *)

LEMMA Invariance == Spec => []IndInv
  BY InitIndInv, NextIndInv, PTL DEF Spec

\* The variables keep their types, and the count of puts its bound, for every
\* memtable_size: kv_store.cpp:43 flushes before the count can pass it.
THEOREM TypeCorrect == Spec => []TypeOK
<1>1. IndInv => TypeOK
  BY DEF IndInv
<1> QED
  BY Invariance, <1>1, PTL

\* The shape of the LSM tree (level.cpp:48-98): the files on disk are those of
\* the tree, numbered by their place, at most one to a resting level.
THEOREM TreeShapeHolds == Spec => []TreeShape
<1>1. IndInv => TreeShape
  BY DEF IndInv
<1> QED
  BY Invariance, <1>1, PTL

\* Between calls a level holds one SST, and the levels are visited from the
\* newest to the oldest.
LEMMA LookupOrder == IndInv => VisitsNewestFirst
<1> SUFFICES ASSUME IndInv, pc = "idle",
                    NEW p \in Places, NEW q \in Places, VisitedBefore(p, q)
             PROVE  NewerThan(p, q)
  BY DEF VisitsNewestFirst
<1>1. CASE p[1] < q[1]
  BY <1>1 DEF NewerThan
<1>2. CASE p[1] = q[1] /\ p[2] < q[2]
  <2>1. PICK i \in DOMAIN levels : p \in {i} \X DOMAIN levels[i]
    BY DEF Places
  <2>2. PICK j \in DOMAIN levels : q \in {j} \X DOMAIN levels[j]
    BY DEF Places
  <2>3. i = j /\ p[2] \in DOMAIN levels[i] /\ q[2] \in DOMAIN levels[i]
    BY <1>2, <2>1, <2>2
  <2>4. levels[i] = <<>> \/ levels[i] = <<(i - 1) * 2>>
    BY RestingLevel
  <2>5. p[2] = 1 /\ q[2] = 1
    BY <2>3, <2>4
  <2> QED
    BY <1>2, <2>5
<1> QED
  BY <1>1, <1>2 DEF VisitedBefore

\* A lookup between calls meets the SSTs from the newest to the oldest
\* (kv_store.cpp:121-135), whatever the depth of the tree.
THEOREM LookupVisitsNewestFirst == Spec => []VisitsNewestFirst
  BY Invariance, LookupOrder, PTL

\* Opening the directory again rebuilds the levels that wrote it, whatever
\* order it is listed in (kv_store.cpp:22-36 and level.cpp:100-109).
THEOREM RestartRestores == Spec => RestartRestoresLevels
<1>1. IndInv => (Restart => UNCHANGED levels)
  BY RestartKeepsTree
<1> QED
  BY Invariance, <1>1, PTL DEF RestartRestoresLevels

-----------------------------------------------------------------------------
(* Files by age                                                            *)

\* The number gives level and place: file f is of level f \div 2, and in a
\* level the larger number is the newer file.
NewerFile(f, g) == f \div 2 < g \div 2 \/ (f \div 2 = g \div 2 /\ f > g)

\* The order is strict and total.
LEMMA NewerFileOrder ==
  /\ \A f, g \in Nat : f = g \/ NewerFile(f, g) \/ NewerFile(g, f)
  /\ \A f, g \in Nat : ~ (NewerFile(f, g) /\ NewerFile(g, f))
  /\ \A f \in Nat : ~ NewerFile(f, f)
  BY DEF NewerFile

\* V[f] is what file f has for some key.  The newest file that has anything.
NewestAt(V, f) == V[f] # {} /\ \A g \in DOMAIN V : NewerFile(g, f) => V[g] = {}

\* If some file has something for the key then one of them is the newest.
LEMMA SomeNewest ==
  ASSUME NEW V, DOMAIN V \subseteq Nat, NEW h \in DOMAIN V, V[h] # {}
  PROVE  \E f \in DOMAIN V : NewestAt(V, f)
<1> DEFINE Age(f) == 2 * (f \div 2) + 1 - (f % 2)
           Full == {f \in DOMAIN V : V[f] # {}}
           ages == {Age(f) : f \in Full}
<1>1. \A f \in Nat : Age(f) \in Nat
  OBVIOUS
<1>2. \A f, g \in Nat : NewerFile(f, g) => ~ (Age(g) <= Age(f))
  BY DEF NewerFile
<1>3. PICK least \in ages : \A a \in ages : least <= a
  <2>1. ages \subseteq Nat /\ ages # {}
    <3> HIDE DEF Age
    <3> QED
      BY <1>1
  <2> HIDE DEF ages
  <2> QED
    BY <2>1, SmallestElement
<1> HIDE DEF Age
<1>4. PICK f \in Full : Age(f) = least
  OBVIOUS
<1>5. ASSUME NEW g \in DOMAIN V, NewerFile(g, f) PROVE V[g] = {}
  BY <1>2, <1>3, <1>4, <1>5
<1> QED
  BY <1>4, <1>5 DEF NewestAt

\* There is one newest file.
LEMMA OneNewest ==
  ASSUME NEW V, DOMAIN V \subseteq Nat, NEW f \in DOMAIN V, NEW g \in DOMAIN V,
         NewestAt(V, f), NewestAt(V, g)
  PROVE  f = g
  BY NewerFileOrder DEF NewestAt

\* A file is added that is newer than all others.
LEMMA NewestAdded ==
  ASSUME NEW V, NEW W, NEW m, DOMAIN V \subseteq Nat, m \in Nat \ DOMAIN V,
         DOMAIN W = DOMAIN V \cup {m}, \A f \in DOMAIN V : W[f] = V[f],
         \A f \in DOMAIN V : NewerFile(m, f)
  PROVE  /\ W[m] # {} => NewestAt(W, m)
         /\ W[m] = {} => \A f \in DOMAIN V : NewestAt(V, f) => NewestAt(W, f)
         /\ \A f \in DOMAIN W : f = m \/ (f \in DOMAIN V /\ W[f] = V[f])
  BY NewerFileOrder DEF NewestAt

\* Two files are replaced by one: n is the newest of all and o comes next.
Replaces(V, W, o, n, m) ==
  /\ o \in DOMAIN V /\ n \in DOMAIN V /\ m \in Nat \ DOMAIN V
  /\ o # n
  /\ DOMAIN W = (DOMAIN V \cup {m}) \ {o, n}
  /\ \A f \in DOMAIN V \ {o, n} : W[f] = V[f]
  /\ NewerFile(n, o)
  /\ \A f \in DOMAIN V \ {o, n} : NewerFile(o, f) /\ NewerFile(n, f) /\ NewerFile(m, f)

\* If the new file has what n has, or else what o has, the newest entry stays
\* what it was.
LEMMA NewestReplaced ==
  ASSUME NEW V, NEW W, NEW o, NEW n, NEW m, DOMAIN V \subseteq Nat,
         Replaces(V, W, o, n, m),
         W[m] = IF V[n] # {} THEN V[n] ELSE V[o]
  PROVE  /\ W[m] # {} => NewestAt(W, m) /\ \E f \in {o, n} : NewestAt(V, f) /\ V[f] = W[m]
         /\ W[m] = {} => \A f \in DOMAIN V : NewestAt(V, f) => f \in DOMAIN W /\ NewestAt(W, f) /\ W[f] = V[f]
         /\ (\A f \in DOMAIN V : V[f] = {}) => \A f \in DOMAIN W : W[f] = {}
<1> USE DEF Replaces
<1>1. W[m] # {} => NewestAt(W, m)
  BY NewerFileOrder DEF NewestAt
<1>2. W[m] # {} => \E f \in {o, n} : NewestAt(V, f) /\ V[f] = W[m]
  <2>1. CASE V[n] # {}
    BY <2>1, NewerFileOrder DEF NewestAt
  <2>2. CASE V[n] = {} /\ V[o] # {}
    <3>1. \A g \in DOMAIN V : NewerFile(g, o) => V[g] = {}
      BY <2>2, NewerFileOrder
    <3> QED
      BY <2>2, <3>1 DEF NewestAt
  <2>3. CASE V[n] = {} /\ V[o] = {}
    BY <2>3
  <2> QED
    BY <2>1, <2>2, <2>3
<1>3. W[m] = {} => \A f \in DOMAIN V : NewestAt(V, f) => f \in DOMAIN W /\ NewestAt(W, f) /\ W[f] = V[f]
  <2> SUFFICES ASSUME W[m] = {}, NEW f \in DOMAIN V, NewestAt(V, f)
               PROVE  f \in DOMAIN W /\ NewestAt(W, f) /\ W[f] = V[f]
    OBVIOUS
  <2>1. V[n] = {} /\ V[o] = {}
    OBVIOUS
  <2>2. f \notin {o, n} /\ f \in DOMAIN W /\ W[f] = V[f]
    BY <2>1 DEF NewestAt
  <2>3. ASSUME NEW g \in DOMAIN W, NewerFile(g, f) PROVE W[g] = {}
    BY <2>1, <2>2, <2>3 DEF NewestAt
  <2> QED
    BY <2>2, <2>3 DEF NewestAt
<1>4. (\A f \in DOMAIN V : V[f] = {}) => \A f \in DOMAIN W : W[f] = {}
  OBVIOUS
<1> QED
  BY <1>1, <1>2, <1>3, <1>4

-----------------------------------------------------------------------------
(* The files of the tree                                                   *)

\* The file at a place of the tree, and the place of a file.
FileOf(p) == levels[p[1]][p[2]]

PlaceOf(f) == <<f \div 2 + 1, (f % 2) + 1>>

\* Places and files correspond, the number giving the place
\* (get_level_of_sst, level.cpp).
LEMMA PlacesAreFiles ==
  IndInv =>
    /\ \A p \in Places : FileOf(p) \in DOMAIN disk /\ FileOf(p) \in Nat /\ p = PlaceOf(FileOf(p))
    /\ \A f \in DOMAIN disk : f \in Nat /\ PlaceOf(f) \in Places /\ FileOf(PlaceOf(f)) = f
<1> SUFFICES ASSUME IndInv
             PROVE  /\ \A p \in Places : FileOf(p) \in DOMAIN disk /\ FileOf(p) \in Nat
                                         /\ p = PlaceOf(FileOf(p))
                    /\ \A f \in DOMAIN disk : f \in Nat /\ PlaceOf(f) \in Places
                                              /\ FileOf(PlaceOf(f)) = f
  OBVIOUS
<1>1. levels \in Seq(Seq(Nat)) /\ DOMAIN disk \subseteq Nat
  BY DEF IndInv, TypeOK
<1>2. ASSUME NEW i \in DOMAIN levels, NEW j \in DOMAIN levels[i]
      PROVE  /\ i \in Nat \ {0} /\ j \in 1 .. 2
             /\ levels[i][j] = (i - 1) * 2 + (j - 1)
             /\ levels[i][j] \in DOMAIN disk
             /\ levels[i][j] \div 2 + 1 = i /\ (levels[i][j] % 2) + 1 = j
  <2>1. i \in Nat \ {0} /\ levels[i] \in Seq(Nat)
    BY <1>1
  <2>2. PICK n \in Nat : n = Len(levels[i])
    BY <2>1
  <2>3. n <= 2
    BY <2>2 DEF IndInv, TreeShape, SIZE_RATIO
  <2>4. j \in 1 .. 2
    BY <2>1, <2>2, <2>3
  <2>5. levels[i][j] = (i - 1) * 2 + (j - 1)
    BY DEF IndInv, TreeShape, Numbered, SIZE_RATIO
  <2>6. levels[i][j] \in DOMAIN disk
    BY DEF IndInv, TreeShape, FilesIn
  <2>7. ((i - 1) * 2 + (j - 1)) \div 2 + 1 = i /\ (((i - 1) * 2 + (j - 1)) % 2) + 1 = j
    BY <2>1, <2>4
  <2>8. levels[i][j] \div 2 + 1 = i /\ (levels[i][j] % 2) + 1 = j
    BY ONLY <2>5, <2>7
  <2> QED
    BY <2>1, <2>4, <2>5, <2>6, <2>8
<1>3. ASSUME NEW p \in Places
      PROVE  FileOf(p) \in DOMAIN disk /\ FileOf(p) \in Nat /\ p = PlaceOf(FileOf(p))
  <2>1. PICK i \in DOMAIN levels : p \in {i} \X DOMAIN levels[i]
    BY DEF Places
  <2>2. p[2] \in DOMAIN levels[i] /\ p = <<i, p[2]>> /\ FileOf(p) = levels[i][p[2]]
    BY <2>1 DEF FileOf
  <2>3. FileOf(p) \in DOMAIN disk /\ FileOf(p) \div 2 + 1 = i /\ (FileOf(p) % 2) + 1 = p[2]
    BY <1>2, <2>2
  <2> QED
    BY <1>1, <2>2, <2>3 DEF PlaceOf
<1>4. ASSUME NEW f \in DOMAIN disk
      PROVE  f \in Nat /\ PlaceOf(f) \in Places /\ FileOf(PlaceOf(f)) = f
  <2>1. f \in FilesIn(levels)
    BY DEF IndInv, TreeShape
  <2>2. PICK i \in DOMAIN levels : \E j \in DOMAIN levels[i] : f = levels[i][j]
    BY <2>1 DEF FilesIn
  <2>3. PICK j \in DOMAIN levels[i] : f = levels[i][j]
    BY <2>2
  <2>4. PlaceOf(f) = <<i, j>>
    BY <1>2, <2>3 DEF PlaceOf
  <2>5. <<i, j>> \in Places
    BY <2>3 DEF Places
  <2> QED
    BY <1>1, <2>3, <2>4, <2>5 DEF FileOf
<1> QED
  BY <1>3, <1>4

\* The order of the places is the order of the numbers.
LEMMA NewerPlace ==
  IndInv => \A p, q \in Places : NewerThan(p, q) <=> NewerFile(FileOf(p), FileOf(q))
<1> SUFFICES ASSUME IndInv, NEW p \in Places, NEW q \in Places
             PROVE  NewerThan(p, q) <=> NewerFile(FileOf(p), FileOf(q))
  OBVIOUS
<1> DEFINE f == FileOf(p)  g == FileOf(q)
<1>1. f \in Nat /\ g \in Nat /\ p = PlaceOf(f) /\ q = PlaceOf(g)
  BY PlacesAreFiles
<1> HIDE DEF f, g
<1>2. p[1] = f \div 2 + 1 /\ p[2] = (f % 2) + 1 /\ q[1] = g \div 2 + 1 /\ q[2] = (g % 2) + 1
  BY <1>1 DEF PlaceOf
<1>3. f = 2 * (f \div 2) + (f % 2) /\ g = 2 * (g \div 2) + (g % 2)
      /\ f \div 2 \in Nat /\ g \div 2 \in Nat /\ f % 2 \in 0 .. 1 /\ g % 2 \in 0 .. 1
  BY <1>1
<1>4. NewerThan(p, q) <=> NewerFile(f, g)
  BY <1>2, <1>3 DEF NewerThan, NewerFile
<1> QED
  BY <1>4 DEF f, g

-----------------------------------------------------------------------------
(* What a flush and a compaction do to the files                           *)

\* A flush adds a file that is newer than all others.
FlushesTo(num) ==
  /\ num \in Nat \ DOMAIN disk
  /\ \A f \in DOMAIN disk : NewerFile(num, f)
  /\ disk' = Assign(disk, num, BuildFile(SortedRun(memtable)))

\* The number of a flush, 0 or 1, is free, and newer than every file there is.
LEMMA FlushNumber ==
  ASSUME IndInv, pc = "flush"
  PROVE  SSTNumber \in {0, 1} \ DOMAIN disk /\ \A f \in DOMAIN disk : NewerFile(SSTNumber, f)
<1>1. levels \in Seq(Seq(Nat)) /\ DOMAIN disk \subseteq Nat
  BY DEF IndInv, TypeOK
<1>2. \A i \in DOMAIN levels : Len(levels[i]) <= 1
  BY <1>1 DEF IndInv, TreeShape
<1>3. ASSUME NEW f \in DOMAIN disk PROVE f % 2 = 0 /\ (f \div 2 = 0 => SSTNumber = 1)
  <2>1. f \in Nat /\ PlaceOf(f) \in Places
    BY PlacesAreFiles
  <2>2. PICK i \in DOMAIN levels : PlaceOf(f) \in {i} \X DOMAIN levels[i]
    BY <2>1 DEF Places
  <2>3. f \div 2 + 1 = i /\ (f % 2) + 1 \in DOMAIN levels[i] /\ levels[i] \in Seq(Nat)
    BY <1>1, <2>2 DEF PlaceOf
  <2>4. PICK n \in Nat : n = Len(levels[i])
    BY <2>3
  <2>5. (f % 2) + 1 <= n /\ n <= 1
    BY <1>2, <2>3, <2>4
  <2>6. f % 2 = 0 /\ n = 1
    BY <2>1, <2>4, <2>5
  <2>7. ASSUME f \div 2 = 0 PROVE SSTNumber = 1
    <3>0. i = 1
      BY <2>3, <2>7
    <3>1. i = 1 /\ Len(levels[1]) = 1
      BY <2>4, <2>6, <3>0
    <3>2. Len(levels) > 0
      BY <1>1, <3>1
    <3> QED
      BY <3>1, <3>2 DEF SSTNumber
  <2> QED
    BY <2>6, <2>7
<1>4. SSTNumber \in {0, 1}
  BY DEF SSTNumber
<1>5. ASSUME NEW f \in DOMAIN disk PROVE NewerFile(SSTNumber, f) /\ f # SSTNumber
  <2>1. f \in Nat /\ f % 2 = 0 /\ (f \div 2 = 0 => SSTNumber = 1)
    BY <1>1, <1>3
  <2>2. f = 2 * (f \div 2) + (f % 2) /\ f \div 2 \in Nat
    BY <2>1
  <2>3. SSTNumber \div 2 = 0 /\ SSTNumber >= 0
    BY <1>4
  <2>4. CASE f \div 2 = 0
    <3>1. f = 0 /\ SSTNumber = 1
      BY <2>1, <2>2, <2>4
    <3> QED
      BY <3>1 DEF NewerFile
  <2>5. CASE f \div 2 # 0
    <3>1. f \div 2 > 0
      BY <2>2, <2>5
    <3> QED
      BY <2>3, <3>1 DEF NewerFile
  <2> QED
    BY <2>4, <2>5
<1> QED
  BY <1>4, <1>5

\* So a flush adds a file that is newer than all others.
LEMMA FlushFile == IndInv /\ Flush => \E num : FlushesTo(num)
<1> SUFFICES ASSUME IndInv, Flush PROVE FlushesTo(SSTNumber)
  OBVIOUS
<1>1. disk' = Assign(disk, SSTNumber, BuildFile(SortedRun(memtable))) /\ pc = "flush"
  BY DEF Flush
<1> QED
  BY <1>1, FlushNumber DEF FlushesTo

\* The two newest files, n and o, are the files of the level that is to be
\* compacted, and the number of the output is free.
ToCompact(o, n, num) ==
  /\ o = 2 * current_level /\ n = 2 * current_level + 1
  /\ o \in DOMAIN disk /\ n \in DOMAIN disk /\ o # n /\ NewerFile(n, o)
  /\ num \in Nat \ DOMAIN disk /\ num > 0
  /\ \A f \in DOMAIN disk \ {o, n} : NewerFile(o, f) /\ NewerFile(n, f) /\ NewerFile(num, f)
  /\ IsLastLevel => DOMAIN disk = {o, n}
  /\ levels[current_level + 1] = <<o, n>>

\* A compaction replaces them by one.
CompactsTo(o, n, num) ==
  /\ ToCompact(o, n, num)
  /\ DOMAIN disk' = (DOMAIN disk \cup {num}) \ {o, n}
  /\ disk'[num] = MergeSSTs(disk[o], disk[n], IsLastLevel)
  /\ \A f \in DOMAIN disk \ {o, n} : disk'[f] = disk[f]

\* The number of the output.
OutputNumber ==
  LET grown == IF current_level >= Len(levels) - 1 THEN AddNewLevel(levels) ELSE levels
  IN  (current_level + 1) * SIZE_RATIO + Len(grown[current_level + 2])

\* The two files of the level are the newest of the tree, the levels above it
\* being empty by then, and the number of the output is free.
LEMMA CompactNumbers ==
  ASSUME IndInv, pc = "compact", NeedsCompaction
  PROVE  ToCompact(2 * current_level, 2 * current_level + 1, OutputNumber)
<1> DEFINE this == current_level + 1
           grown == IF current_level >= Len(levels) - 1 THEN AddNewLevel(levels) ELSE levels
           o   == 2 * current_level
           n   == 2 * current_level + 1
           num == (current_level + 1) * SIZE_RATIO + Len(grown[this + 1])
<1>1. /\ levels \in Seq(Seq(Nat)) /\ current_level \in Nat /\ DOMAIN disk \subseteq Nat
      /\ this \in DOMAIN levels
  BY DEF IndInv, TypeOK, NeedsCompaction
<1>0. current_level \in Nat
  BY <1>1
\* The level that is compacted has both of its files.
<1>2. levels[this] \in Seq(Nat) /\ Len(levels[this]) = 2
  <2>1. levels[this] \in Seq(Nat)
    BY <1>1
  <2>2. PICK k \in Nat : k = Len(levels[this])
    BY <2>1
  <2>3. k >= 2
    BY <2>2 DEF NeedsCompaction, SIZE_RATIO
  <2>4. k <= 2
    BY <1>1, <2>2 DEF IndInv, TreeShape, SIZE_RATIO
  <2>5. k = 2
    BY <2>3, <2>4
  <2> QED
    BY <2>1, <2>2, <2>5
<1>3. levels[this][1] = o /\ levels[this][2] = n
  <2>1. 1 \in DOMAIN levels[this] /\ 2 \in DOMAIN levels[this]
    BY <1>2
  <2>2. /\ levels[this][1] = (this - 1) * SIZE_RATIO + (1 - 1)
        /\ levels[this][2] = (this - 1) * SIZE_RATIO + (2 - 1)
    BY <1>1, <2>1 DEF IndInv, TreeShape, Numbered
  <2>3. (this - 1) * 2 + (1 - 1) = o /\ (this - 1) * 2 + (2 - 1) = n
    BY <1>0
  <2> QED
    BY ONLY <2>2, <2>3 DEF SIZE_RATIO
<1>4. o \in DOMAIN disk /\ n \in DOMAIN disk
  <2>1. {1, 2} = 1 .. Len(levels[this]) /\ DOMAIN levels[this] = {1, 2}
    BY <1>2
  <2>2. \A i \in {1, 2} : levels[this][i] \in DOMAIN disk
    <3>1. DOMAIN disk = FilesIn(levels) /\ this \in DOMAIN levels
      BY <1>1 DEF IndInv, TreeShape
    <3> HIDE DEF this
    <3> QED
      BY <2>1, <3>1 DEF FilesIn
  <2> QED
    BY <1>3, <2>1, <2>2
\* Where any other file is: below the level that is compacted, and if in the
\* next one, the only file there.
<1>5. ASSUME NEW f \in DOMAIN disk \ {o, n}
      PROVE  /\ f \div 2 > current_level
             /\ f \div 2 = current_level + 1 => f % 2 = 0 /\ num = n + 2
             /\ ~ IsLastLevel
  <2>1. f \in Nat /\ PlaceOf(f) \in Places
    BY PlacesAreFiles
  <2>2. PICK i \in DOMAIN levels : PlaceOf(f) \in {i} \X DOMAIN levels[i]
    BY <2>1 DEF Places
  <2>3. f \div 2 + 1 = i /\ (f % 2) + 1 \in DOMAIN levels[i] /\ levels[i] \in Seq(Nat)
    BY <1>1, <2>2 DEF PlaceOf
  <2>4. f \div 2 \in Nat /\ f % 2 \in 0 .. 1 /\ f = 2 * (f \div 2) + (f % 2) /\ i \in Nat
    BY <2>1, <2>3
  <2>5. ~ (f \div 2 < current_level)
    <3> SUFFICES ASSUME f \div 2 < current_level PROVE FALSE
      OBVIOUS
    <3>1. i \in 1 .. current_level
      BY <1>0, <2>3, <2>4
    <3>2. levels[i] = <<>>
      BY <1>1, <3>1 DEF IndInv, LoopLeavesEmpty
    <3> QED
      BY <2>3, <3>2
  <2>6. f \div 2 # current_level
    BY <1>0, <2>4
  <2>7. f \div 2 > current_level
    BY <1>1, <2>4, <2>5, <2>6
  <2>8. ~ IsLastLevel
    BY <1>1, <2>3, <2>4, <2>7 DEF IsLastLevel
  <2>9. ASSUME f \div 2 = current_level + 1 PROVE f % 2 = 0 /\ num = n + 2
    <3>1. i = this + 1 /\ i # current_level + 1
      BY <1>1, <2>3, <2>9
    <3>2. PICK k \in Nat : k = Len(levels[i])
      BY <2>3
    <3>3. k <= 1
      BY <3>1, <3>2 DEF IndInv, TreeShape
    <3>4. (f % 2) + 1 <= k
      BY <2>3, <3>2
    <3>5. f % 2 = 0 /\ k = 1
      BY <2>4, <3>2, <3>3, <3>4
    <3>6. grown = levels
      <4>1. PICK l \in Nat : l = Len(levels)
        BY <1>1
      <4>2. current_level + 2 <= l
        BY <1>1, <3>1, <4>1
      <4>3. ~ (current_level >= Len(levels) - 1)
        BY <1>1, <4>1, <4>2
      <4> QED
        BY <4>3
    <3>7. Len(grown[this + 1]) = 1
      BY <3>1, <3>2, <3>5, <3>6
    <3>8. num = (current_level + 1) * 2 + 1
      BY <3>7 DEF SIZE_RATIO
    <3> HIDE DEF num
    <3> QED
      BY <1>1, <3>5, <3>8
  <2> QED
    BY <2>7, <2>8, <2>9
<1>6. num \in {n + 1, n + 2}
  <2>1. PICK l \in Nat : l = Len(levels)
    BY <1>1
  <2>2. current_level + 1 <= l
    BY <1>1, <2>1
  <2>3. CASE current_level >= l - 1
    <3>1. l = this /\ grown = Append(levels, <<>>)
      BY <1>1, <2>1, <2>2, <2>3 DEF AddNewLevel
    <3>2. grown[this + 1] = <<>>
      <4> HIDE DEF grown
      <4>1. levels \in Seq(Seq(Nat)) /\ Len(levels) = this
        BY <1>1, <2>1, <3>1
      <4>2. grown[Len(levels) + 1] = <<>>
        BY <3>1, <4>1
      <4> QED
        BY <4>1, <4>2
    <3>3. num = (current_level + 1) * 2 + 0
      BY <3>2 DEF SIZE_RATIO
    <3> HIDE DEF num
    <3> QED
      BY <1>1, <3>3
  <2>4. CASE ~ (current_level >= l - 1)
    <3>1. grown = levels
      BY <2>1, <2>4
    <3>2. this + 1 \in DOMAIN levels /\ this + 1 # current_level + 1
      BY <1>1, <2>1, <2>4
    <3>3. PICK k \in Nat : k = Len(levels[this + 1])
      BY <1>1, <3>2
    <3>4. k <= 1
      BY <3>2, <3>3 DEF IndInv, TreeShape
    <3>5. num = (current_level + 1) * 2 + k
      BY <3>1, <3>3 DEF SIZE_RATIO
    <3> HIDE DEF num
    <3>6. k = 0 \/ k = 1
      BY <3>4
    <3> QED
      BY ONLY <1>0, <3>5, <3>6 DEF n
  <2> QED
    BY <2>3, <2>4
<1> HIDE DEF num
<1>7. ASSUME NEW f \in DOMAIN disk \ {o, n}
      PROVE  f # num /\ NewerFile(o, f) /\ NewerFile(n, f) /\ NewerFile(num, f)
  <2>0. f \in Nat
    BY <1>1
  <2>1. f \in Nat /\ f = 2 * (f \div 2) + (f % 2) /\ f \div 2 \in Nat /\ f % 2 \in 0 .. 1
    BY ONLY <2>0
  <2>2. o \div 2 = current_level /\ n \div 2 = current_level
        /\ (n + 1) \div 2 = current_level + 1 /\ (n + 2) \div 2 = current_level + 1
    BY ONLY <1>0 DEF o, n
  <2>3. num \div 2 = current_level + 1
    BY <1>6, <2>2
  <2>4. f # num /\ NewerFile(num, f)
    <3>1. CASE f \div 2 = current_level + 1
      <4>1. num = n + 2 /\ f = 2 * (current_level + 1)
        BY <1>0, <1>5, <2>1, <3>1
      <4> HIDE DEF n
      <4>2. num > f
        BY ONLY <1>0, <4>1 DEF n
      <4> QED
        BY ONLY <1>0, <2>1, <2>3, <3>1, <4>2 DEF NewerFile
    <3>2. CASE f \div 2 # current_level + 1
      <4>1. f \div 2 > current_level
        BY <1>5
      <4>2. num \div 2 < f \div 2
        BY ONLY <1>0, <2>1, <2>3, <3>2, <4>1
      <4> QED
        BY ONLY <2>1, <4>2 DEF NewerFile
    <3> QED
      BY <3>1, <3>2
  <2> QED
    BY <1>5, <2>2, <2>4 DEF NewerFile
<1>8. o # n /\ NewerFile(n, o) /\ num \notin {o, n} /\ num \in Nat
  <2>1. o \div 2 = n \div 2 /\ n > o /\ num > n /\ num \in Nat /\ o \in Nat /\ n \in Nat
    BY ONLY <1>0, <1>6 DEF o, n
  <2> QED
    BY ONLY <2>1 DEF NewerFile
<1>9. levels[this] = <<o, n>>
  <2> HIDE DEF o, n, this
  <2> QED
    BY <1>2, <1>3
<1>10. num > 0
  BY ONLY <1>0, <1>6 DEF n
<1>11. o = 2 * current_level /\ n = 2 * current_level + 1
  BY DEF o, n
<1> HIDE DEF o, n
<1>12. ToCompact(o, n, num)
  BY <1>4, <1>5, <1>7, <1>8, <1>9, <1>10, <1>11 DEF ToCompact
<1>13. num = OutputNumber
  <2>1. this + 1 = current_level + 2
    BY <1>0
  <2> QED
    BY <2>1 DEF OutputNumber, num
<1> QED
  BY <1>11, <1>12, <1>13

\* So a compaction replaces the two by one.
LEMMA CompactFiles == IndInv /\ CompactLevel => \E o, n, num : CompactsTo(o, n, num)
<1> SUFFICES ASSUME IndInv, CompactLevel PROVE \E o, n, num : CompactsTo(o, n, num)
  OBVIOUS
<1> DEFINE this == current_level + 1
           removed == {levels[this][i] : i \in 1 .. Len(levels[this])}
           file == MergeSSTs(disk[levels[this][1]], disk[levels[this][2]], IsLastLevel)
           merged == Assign(disk, OutputNumber, file)
<1>1. PICK o, n, num : ToCompact(o, n, num) /\ num = OutputNumber
  BY CompactNumbers DEF CompactLevel
<1>2. disk' = [f \in DOMAIN merged \ removed |-> merged[f]]
  <2>1. (current_level + 1) + 1 = current_level + 2
    BY DEF IndInv, TypeOK
  <2> QED
    BY <2>1 DEF CompactLevel, OutputNumber
<1>3. levels[this] = <<o, n>> /\ o # n /\ num \notin {o, n}
  BY <1>1 DEF ToCompact
<1>4. removed = {o, n}
  <2>1. Len(levels[this]) = 2 /\ levels[this][1] = o /\ levels[this][2] = n
    BY <1>3
  <2>2. 1 .. 2 = {1, 2}
    OBVIOUS
  <2> QED
    BY ONLY <2>1, <2>2
<1>5. file = MergeSSTs(disk[o], disk[n], IsLastLevel)
  BY <1>3
<1>6. disk' = [f \in (DOMAIN disk \cup {num}) \ {o, n} |-> IF f = num THEN file ELSE disk[f]]
  <2> HIDE DEF file, removed
  <2> QED
    BY <1>1, <1>2, <1>4 DEF Assign
<1> HIDE DEF file
<1>7. num \notin DOMAIN disk
  BY <1>1 DEF ToCompact
<1> QED
  BY <1>1, <1>3, <1>5, <1>6, <1>7 DEF CompactsTo

-----------------------------------------------------------------------------
(* What a file holds                                                       *)

\* The pairs a client has the store write.
Written == [key : Keys, value : Values \cup {TOMB_STONE}]

\* The keys that a blank slot of a merge can shadow.
Blanked == IF ReuseDeleted THEN {0} ELSE {}

\* A run the store writes.
RunOK(run) ==
  /\ run \in Seq(Entry) /\ run # <<>>
  /\ Live(run) /\ SortedApart(Blanked, run)
  /\ \A e \in Contents(run) : e.key \notin Blanked => e \in Written

\* A file is the B-tree of a run that the store writes.
IsSST(file) == RunOK(RunOf(file)) /\ file = BuildFile(RunOf(file))

\* What may be in the directory: an SST, or a file that was created and not
\* written.
IsFile(file) == IsSST(file) \/ file = EmptyFile

\* The values that the leaves of a file have for a key.
ValuesIn(file, key) == {e.value : e \in {x \in LeafEntries(file) : x.key = key}}

\* What the assumptions on the constants come to.
LEMMA KeysAreNumbers ==
  /\ \A k \in Keys : k \in Nat /\ k < INVALID_VALUE /\ k \in 0 .. INVALID_VALUE
  /\ \A v \in Values \cup {TOMB_STONE} : v \in Nat /\ v < INVALID_VALUE /\ v \in 0 .. INVALID_VALUE
  /\ Values \cap {TOMB_STONE} = {}
  /\ Written \subseteq Entry
<1>1. /\ \A k \in Keys : k \in Nat /\ k < INVALID_VALUE /\ k \in 0 .. INVALID_VALUE
      /\ \A v \in Values \cup {TOMB_STONE} : v \in Nat /\ v < INVALID_VALUE /\ v \in 0 .. INVALID_VALUE
      /\ Values \cap {TOMB_STONE} = {}
  BY KVStoreAssumption, BTreeAssumption
<1> QED
  BY <1>1 DEF Written, Entry

\* Building a file of such a run gives an SST that holds it.
LEMMA RunIsSST ==
  ASSUME NEW run, RunOK(run)
  PROVE  IsSST(BuildFile(run)) /\ RunOf(BuildFile(run)) = run
  BY RunOfBuildFile DEF IsSST, RunOK

\* A file of the tree has the entries of its run and, blanks aside, one for a
\* key at most.
LEMMA SSTHolds ==
  ASSUME NEW file, IsSST(file)
  PROVE  /\ LeafEntries(file) = Contents(RunOf(file))
         /\ \A k : k \notin Blanked =>
              \A v, w \in ValuesIn(file, k) : v = w /\ v \in Values \cup {TOMB_STONE}
<1> DEFINE run == RunOf(file)
<1>1. RunOK(run) /\ file = BuildFile(run)
  BY DEF IsSST
<1> HIDE DEF run
<1>2. ASSUME NEW e PROVE e \in LeafEntries(file) <=> e \in Contents(run)
  <2>1. e \in Contents(run) <=> \E o \in DOMAIN file : file[o].is_leaf
                                  /\ \E i \in DOMAIN file[o].entries : e = file[o].entries[i]
    BY <1>1, LeavesHoldRun DEF RunOK
  <2> QED
    BY <2>1 DEF LeafEntries
<1>3. ASSUME NEW k, k \notin Blanked, NEW v \in ValuesIn(file, k), NEW w \in ValuesIn(file, k)
      PROVE  v = w /\ v \in Values \cup {TOMB_STONE}
  <2>1. PICK d \in Contents(run) : d.key = k /\ d.value = v
    BY <1>2 DEF ValuesIn
  <2>2. PICK e \in Contents(run) : e.key = k /\ e.value = w
    BY <1>2 DEF ValuesIn
  <2>3. PICK i \in DOMAIN run : d = run[i]
    BY DEF Contents
  <2>4. PICK j \in DOMAIN run : e = run[j]
    BY DEF Contents
  <2>5. i \in Nat /\ j \in Nat /\ run[i] \in Entry /\ run[j] \in Entry
    BY <1>1 DEF RunOK
  <2>6. i = j
    <3>1. k \in Nat
      BY <2>1, <2>3, <2>5 DEF Entry
    <3>2. ~ (i < j) /\ ~ (j < i)
      BY <1>1, <1>3, <2>1, <2>2, <2>3, <2>4, <3>1 DEF RunOK, SortedApart
    <3> QED
      BY <2>5, <3>2
  <2>7. d \in Written
    BY <1>1, <1>3, <2>1 DEF RunOK
  <2> QED
    BY <2>1, <2>2, <2>3, <2>4, <2>6, <2>7 DEF Written
<1> QED
  BY <1>2, <1>3 DEF run

\* The same of what may be in the directory: an empty file holds nothing.
LEMMA FileHolds ==
  ASSUME NEW file, IsFile(file)
  PROVE  /\ LeafEntries(file) = Contents(RunOf(file))
         /\ \A k : k \notin Blanked =>
              \A v, w \in ValuesIn(file, k) : v = w /\ v \in Values \cup {TOMB_STONE}
<1>1. CASE IsSST(file)
  BY <1>1, SSTHolds
<1>2. CASE file = EmptyFile
  <2>1. RunOf(file) = <<>> /\ DOMAIN file = {}
    BY <1>2 DEF RunOf, EmptyFile
  <2>2. LeafEntries(file) = {} /\ Contents(RunOf(file)) = {}
    BY <2>1 DEF LeafEntries, Contents
  <2> QED
    BY <2>2 DEF ValuesIn
<1> QED
  BY <1>1, <1>2 DEF IsFile

\* The run of what may be in the directory.
LEMMA FileRun ==
  ASSUME NEW file, IsFile(file)
  PROVE  LET run == RunOf(file)
         IN  /\ run \in Seq(Entry) /\ Live(run) /\ SortedApart(Blanked, run)
             /\ \A e \in Contents(run) : e.key \notin Blanked => e \in Written
<1>1. CASE IsSST(file)
  BY <1>1 DEF IsSST, RunOK
<1>2. CASE file = EmptyFile
  <2>1. RunOf(file) = <<>>
    BY <1>2 DEF RunOf
  <2>2. <<>> \in Seq(Entry)
    OBVIOUS
  <2> QED
    BY <2>1, <2>2 DEF Live, SortedApart, Contents
<1> QED
  BY <1>1, <1>2 DEF IsFile

\* The file of a flush holds the memtable.
LEMMA FlushedFile ==
  IndInv /\ DOMAIN memtable # {} =>
    LET file == BuildFile(SortedRun(memtable))
    IN  /\ IsSST(file)
        /\ \A k \in Keys : ValuesIn(file, k) = IF k \in DOMAIN memtable THEN {memtable[k]} ELSE {}
<1> SUFFICES ASSUME IndInv, DOMAIN memtable # {}
             PROVE  LET file == BuildFile(SortedRun(memtable))
                    IN  /\ IsSST(file)
                        /\ \A k \in Keys :
                             ValuesIn(file, k) = IF k \in DOMAIN memtable THEN {memtable[k]} ELSE {}
  OBVIOUS
<1> DEFINE run  == SortedRun(memtable)
           file == BuildFile(run)
<1>1. DOMAIN memtable \subseteq Keys /\ memtable \in [DOMAIN memtable -> Values \cup {TOMB_STONE}]
  BY DEF IndInv, TypeOK
<1>2. IsFiniteSet(DOMAIN memtable) /\ DOMAIN memtable \subseteq 0 .. INVALID_VALUE
  <2>1. DOMAIN memtable \subseteq 0 .. INVALID_VALUE
    BY <1>1, KeysAreNumbers
  <2>2. IsFiniteSet(0 .. INVALID_VALUE)
    BY FS_Interval, BTreeAssumption
  <2> QED
    BY <2>1, <2>2, FS_Subset
<1>3. \A k \in DOMAIN memtable : memtable[k] \in 0 .. INVALID_VALUE
  BY <1>1, KeysAreNumbers
<1>4. /\ run \in Seq(Entry) /\ KeysGoUp(run) /\ run # <<>>
      /\ Contents(run) = {[key |-> k, value |-> memtable[k]] : k \in DOMAIN memtable}
  BY <1>2, <1>3, SortedRunSorts
<1> HIDE DEF run
<1>5. \A e \in Contents(run) : e \in Written
  BY <1>1, <1>4 DEF Written
<1>6. RunOK(run)
  <2>1. Live(run)
    <3>1. ASSUME NEW i \in DOMAIN run PROVE run[i].key < INVALID_VALUE /\ run[i].value < INVALID_VALUE
      <4>1. run[i] \in Written
        BY <1>5 DEF Contents
      <4> QED
        BY <4>1, KeysAreNumbers DEF Written
    <3> QED
      BY <3>1 DEF Live
  <2>2. SortedApart(Blanked, run)
    BY <1>4 DEF KeysGoUp, SortedApart
  <2> QED
    BY <1>4, <1>5, <2>1, <2>2 DEF RunOK
<1>7. IsSST(file) /\ LeafEntries(file) = Contents(run)
  BY <1>6, RunIsSST, SSTHolds
<1> HIDE DEF file
<1>8. ASSUME NEW k \in Keys
      PROVE  ValuesIn(file, k) = IF k \in DOMAIN memtable THEN {memtable[k]} ELSE {}
  <2>1. \A v : v \in ValuesIn(file, k) <=> \E e \in Contents(run) : e.key = k /\ e.value = v
    BY <1>7 DEF ValuesIn
  <2>2. \A v : (\E e \in Contents(run) : e.key = k /\ e.value = v)
               <=> k \in DOMAIN memtable /\ v = memtable[k]
    <3>1. \A e \in Contents(run) : e.key \in DOMAIN memtable /\ e.value = memtable[e.key]
      BY <1>4
    <3>2. ASSUME k \in DOMAIN memtable
          PROVE  \E e \in Contents(run) : e.key = k /\ e.value = memtable[k]
      <4> DEFINE e == [key |-> k, value |-> memtable[k]]
      <4>1. e \in Contents(run) /\ e.key = k /\ e.value = memtable[k]
        BY <1>4, <3>2
      <4> QED
        BY <4>1
    <3> QED
      BY <3>1, <3>2
  <2> QED
    BY <2>1, <2>2
<1> QED
  BY <1>7, <1>8 DEF file, run

\* Some entry of the newer file would be dropped together with an older tombstone.
DropsIn(old, new, is_last_level) ==
  is_last_level /\ \E k : TOMB_STONE \in ValuesIn(old, k) /\ ValuesIn(new, k) # {}

\* The file of a compaction: of a key that is not dropped it has what the
\* newer file has, or else what the older one has.
LEMMA CompactedFile ==
  ASSUME NEW old, NEW new, IsFile(old), IsSST(new), NEW last \in BOOLEAN,
         Blanked = {} => ~ DropsIn(old, new, last)
  PROVE  LET file == MergeSSTs(old, new, last)
         IN  /\ IsSST(file) /\ RunOK(MergeRuns(RunOf(old), RunOf(new), last))
             /\ \A k : k \notin Blanked =>
                  ValuesIn(file, k) = IF last /\ TOMB_STONE \in ValuesIn(old, k) /\ ValuesIn(new, k) # {}
                                      THEN {}
                                      ELSE IF ValuesIn(new, k) # {} THEN ValuesIn(new, k)
                                           ELSE ValuesIn(old, k)
<1> DEFINE o == RunOf(old)  n == RunOf(new)
           O == Contents(o) N == Contents(n)
           run == MergeRuns(o, n, last)
           file == MergeSSTs(old, new, last)
<1>1. RunOK(n) /\ LeafEntries(old) = O /\ LeafEntries(new) = N
  BY SSTHolds, FileHolds DEF IsSST
<1>2. file = BuildFile(run)
  BY DEF MergeSSTs
<1>3. \A k, v : (v \in ValuesIn(old, k) <=> \E e \in O : e.key = k /\ e.value = v)
             /\ (v \in ValuesIn(new, k) <=> \E e \in N : e.key = k /\ e.value = v)
  <2> HIDE DEF O, N
  <2> QED
    BY <1>1 DEF ValuesIn
<1>4. Blanked = {} => ~ Drops(O, N, last)
  <2> HIDE DEF O, N
  <2> QED
    <3> SUFFICES ASSUME Blanked = {}, last, NEW d \in O, NEW e \in N,
                        d.key = e.key, d.value = TOMB_STONE
                 PROVE  FALSE
      BY DEF Drops
    <3>1. TOMB_STONE \in ValuesIn(old, d.key) /\ e.value \in ValuesIn(new, d.key)
      BY <1>3
    <3> QED
      BY <3>1 DEF DropsIn
<1>5. Blanked \subseteq {0}
  BY DEF Blanked
<1>6. Merges(Blanked, run, O, N, last)
  <2>1. /\ o \in Seq(Entry) /\ n \in Seq(Entry) /\ Live(o) /\ Live(n) /\ n # <<>>
        /\ SortedApart(Blanked, o) /\ SortedApart(Blanked, n)
    BY <1>1, FileRun DEF RunOK
  <2> HIDE DEF o, n
  <2> QED
    BY <1>4, <1>5, <2>1, MergeRunsMerges
<1>7. O \subseteq Entry /\ N \subseteq Entry /\ N # {}
  <2>1. o \in Seq(Entry) /\ n \in Seq(Entry) /\ n # <<>>
    BY <1>1, FileRun DEF RunOK
  <2>2. 1 \in DOMAIN n
    BY <2>1
  <2> HIDE DEF o, n
  <2> QED
    BY <2>1, <2>2 DEF Contents
<1>8. /\ \A e \in O : e.key \notin Blanked => e \in Written
      /\ \A e \in N : e.key \notin Blanked => e \in Written
  BY <1>1, FileRun DEF RunOK
<1> HIDE DEF o, n, O, N, run, file
<1>9. /\ run \in Seq(Entry) /\ Live(run) /\ SortedApart(Blanked, run) /\ run # <<>>
      /\ \A e \in Entry : e.key \notin Blanked => (e \in Contents(run) <=> e \in MergeOf(O, N, last))
  BY <1>6, <1>7 DEF Merges
<1>10. RunOK(run)
  <2>1. ASSUME NEW e \in Contents(run), e.key \notin Blanked PROVE e \in Written
    <3>1. e \in Entry
      BY <1>9 DEF Contents
    <3>2. e \in O \/ e \in N
      BY <1>9, <2>1, <3>1 DEF MergeOf
    <3> QED
      BY <1>8, <2>1, <3>2
  <2> QED
    BY <1>9, <2>1 DEF RunOK
<1>11. IsSST(file) /\ LeafEntries(file) = Contents(run)
  BY <1>2, <1>10, RunIsSST, SSTHolds
<1>12. ASSUME NEW k, k \notin Blanked
       PROVE  ValuesIn(file, k) = IF last /\ TOMB_STONE \in ValuesIn(old, k) /\ ValuesIn(new, k) # {}
                                  THEN {}
                                  ELSE IF ValuesIn(new, k) # {} THEN ValuesIn(new, k)
                                       ELSE ValuesIn(old, k)
  <2>1. \A v : v \in ValuesIn(file, k) <=> \E e \in MergeOf(O, N, last) : e.key = k /\ e.value = v
    <3>1. \A v : v \in ValuesIn(file, k) <=> \E e \in Contents(run) : e.key = k /\ e.value = v
      BY <1>11 DEF ValuesIn
    <3>2. Contents(run) \subseteq Entry
      BY <1>9 DEF Contents
    <3>3. MergeOf(O, N, last) \subseteq Entry
      BY <1>7 DEF MergeOf
    <3> QED
      BY <1>9, <1>12, <3>1, <3>2, <3>3
  <2>2. CASE last /\ TOMB_STONE \in ValuesIn(old, k) /\ ValuesIn(new, k) # {}
    <3>1. \A e \in MergeOf(O, N, last) : e.key # k
      BY <1>3, <2>2 DEF MergeOf
    <3>2. \A v : v \notin ValuesIn(file, k)
      BY <2>1, <3>1
    <3> QED
      BY <2>2, <3>2
  <2>3. CASE ~ (last /\ TOMB_STONE \in ValuesIn(old, k)) /\ ValuesIn(new, k) # {}
    <3>1. \A v : (\E e \in MergeOf(O, N, last) : e.key = k /\ e.value = v) <=> v \in ValuesIn(new, k)
      BY <1>3, <2>3 DEF MergeOf
    <3>2. ValuesIn(file, k) = ValuesIn(new, k)
      BY <2>1, <3>1
    <3> QED
      BY <2>3, <3>2
  <2>4. CASE ValuesIn(new, k) = {}
    <3>1. \A v : (\E e \in MergeOf(O, N, last) : e.key = k /\ e.value = v) <=> v \in ValuesIn(old, k)
      <4>1. \A e \in N : e.key # k
        BY <1>3, <2>4
      <4>2. \A e : e.key = k => (e \in MergeOf(O, N, last) <=> e \in O)
        BY <4>1 DEF MergeOf, Drops
      <4> QED
        BY <1>3, <4>2
    <3>2. ValuesIn(file, k) = ValuesIn(old, k)
      BY <2>1, <3>1
    <3> QED
      BY <2>4, <3>2
  <2> QED
    BY <2>2, <2>3, <2>4
<1> QED
  BY <1>10, <1>11, <1>12 DEF file, run, o, n

-----------------------------------------------------------------------------
(* Searching and scanning a file of the store                              *)

\* A lookup in one SST finds the value that the file has for the key.
LEMMA SearchSST ==
  ASSUME ~ReuseDeleted, NEW file, IsFile(file), NEW k \in Keys
  PROVE  /\ \A v \in ValuesIn(file, k) : SearchValueByKey(file, k) = v
         /\ ValuesIn(file, k) = {} => SearchValueByKey(file, k) = INVALID_VALUE
<1>0. CASE file = EmptyFile
  <2>1. ValuesIn(file, k) = {}
    BY <1>0 DEF ValuesIn, LeafEntries, EmptyFile
  <2>2. SearchValueByKey(file, k) = INVALID_VALUE
    BY <1>0 DEF SearchValueByKey, LeafFor
  <2> QED
    BY <2>1, <2>2
<1> SUFFICES ASSUME IsSST(file)
             PROVE  /\ \A v \in ValuesIn(file, k) : SearchValueByKey(file, k) = v
                    /\ ValuesIn(file, k) = {} => SearchValueByKey(file, k) = INVALID_VALUE
  BY <1>0 DEF IsFile
<1> DEFINE run == RunOf(file)
<1>1. RunOK(run) /\ file = BuildFile(run) /\ LeafEntries(file) = Contents(run)
  BY SSTHolds DEF IsSST
<1> HIDE DEF run
<1>2. run \in Seq(Entry) /\ run # <<>> /\ KeysGoUp(run) /\ k \in Nat
  BY <1>1, KeysAreNumbers DEF RunOK, SortedApart, KeysGoUp, Blanked
<1>3. /\ \A x \in DOMAIN run : run[x].key = k => SearchValueByKey(file, k) = run[x].value
      /\ (\A x \in DOMAIN run : run[x].key # k) => SearchValueByKey(file, k) = INVALID_VALUE
  BY <1>1, <1>2, SearchFinds
<1>4. \A v : v \in ValuesIn(file, k) <=> \E x \in DOMAIN run : run[x].key = k /\ run[x].value = v
  BY <1>1 DEF ValuesIn, Contents
<1>5. ASSUME ValuesIn(file, k) = {} PROVE \A x \in DOMAIN run : run[x].key # k
  BY <1>4, <1>5
<1> QED
  BY <1>3, <1>4, <1>5

\* A scan of one SST returns what the file has for a key of the range.
LEMMA ScanSST ==
  ASSUME ~ReuseDeleted, NEW file, IsFile(file), NEW k \in Keys, NEW lo \in Keys, NEW hi \in Keys,
         lo <= k, k <= hi, NEW v \in ValuesIn(file, k)
  PROVE  \E i \in DOMAIN Scan(file, lo, hi) :
           Scan(file, lo, hi)[i].key = k /\ Scan(file, lo, hi)[i].value = v
<1>0. IsSST(file)
  <2>1. ValuesIn(EmptyFile, k) = {}
    BY DEF ValuesIn, LeafEntries, EmptyFile
  <2> QED
    BY <2>1 DEF IsFile
<1> DEFINE run == RunOf(file)
<1>1. RunOK(run) /\ file = BuildFile(run) /\ LeafEntries(file) = Contents(run)
  BY <1>0, SSTHolds DEF IsSST
<1> HIDE DEF run
<1>2. run \in Seq(Entry) /\ run # <<>> /\ KeysGoUp(run) /\ lo \in Nat /\ hi \in Nat
  BY <1>1, KeysAreNumbers DEF RunOK, SortedApart, KeysGoUp, Blanked
<1>3. Contents(Scan(file, lo, hi)) = Within(Contents(run), lo, hi)
  BY <1>1, <1>2, ScanFinds
<1>4. PICK e \in Contents(run) : e.key = k /\ e.value = v
  BY <1>1 DEF ValuesIn
<1>5. e \in Contents(Scan(file, lo, hi))
  BY <1>3, <1>4 DEF Within
<1> QED
  BY <1>4, <1>5 DEF Contents

-----------------------------------------------------------------------------
(* The inductive invariant                                                 *)

\* What each file has for k.
HeldFor(k) == [f \in DOMAIN disk |-> ValuesIn(disk[f], k)]

\* Every file of the directory is the B-tree of a run, except that file 0 may
\* be empty: no step of this module leaves it so, and a crash of FileStore may.
FilesAreSSTs == \A f \in DOMAIN disk : IsSST(disk[f]) \/ (f = 0 /\ disk[f] = EmptyFile)

\* A file of the directory is an SST or empty.
LEMMA EachIsFile ==
  ASSUME FilesAreSSTs, NEW f \in DOMAIN disk
  PROVE  IsFile(disk[f]) /\ (f # 0 => IsSST(disk[f]))
  BY DEF FilesAreSSTs, IsFile

\* write_memtable_to_sst is only reached with something to write.
FlushHasEntries == pc = "flush" => DOMAIN memtable # {}

\* A tombstone on disk hides nothing newer, neither a file nor the memtable.
TombstonesAreNewest ==
  ~ReuseDeleted =>
    \A k \in Keys : \A f \in DOMAIN disk :
      TOMB_STONE \in HeldFor(k)[f] => k \notin DOMAIN memtable /\ NewestAt(HeldFor(k), f)

\* The inductive invariant of this module.
DataInv == IndInv /\ FilesAreSSTs /\ FlushHasEntries /\ TombstonesAreNewest

\* A new store has no file.
LEMMA InitDataInv == Init => DataInv
<1> SUFFICES ASSUME Init PROVE DataInv
  OBVIOUS
<1>1. IndInv
  BY InitIndInv
<1>2. DOMAIN disk = {} /\ pc = "idle"
  BY DEF Init, EmptyMap
<1> QED
  BY <1>1, <1>2 DEF DataInv, FilesAreSSTs, FlushHasEntries, TombstonesAreNewest

\* File numbers are natural numbers.
LEMMA DiskTyped == DataInv => DOMAIN disk \subseteq Nat
  BY DEF DataInv, IndInv, TypeOK

\* The files stay and no key with a tombstone on disk is written: the steps of
\* the client, and those that only change pc.
LEMMA DiskKept ==
  ASSUME DataInv, disk' = disk,
         ~ReuseDeleted => \A k \in DOMAIN memtable' : k \in DOMAIN memtable \/
                            \A f \in DOMAIN disk : TOMB_STONE \notin HeldFor(k)[f]
  PROVE  FilesAreSSTs' /\ TombstonesAreNewest'
<1>1. FilesAreSSTs'
  BY DEF DataInv, FilesAreSSTs
<1>2. \A k : HeldFor(k)' = HeldFor(k)
  BY DEF HeldFor
<1>3. TombstonesAreNewest'
  BY <1>2 DEF DataInv, TombstonesAreNewest
<1> QED
  BY <1>1, <1>3

\* A put or a delete keeps the invariant, because of its guard MayWrite.
LEMMA WriteDataInv ==
  ASSUME DataInv, NEW k \in Keys, NEW v, MayWrite(k),
         memtable' = Assign(memtable, k, v), disk' = disk
  PROVE  FilesAreSSTs' /\ TombstonesAreNewest' /\ FlushHasEntries'
<1>1. DOMAIN memtable' = DOMAIN memtable \cup {k}
  BY DEF Assign
<1>2. ~ReuseDeleted => \A f \in DOMAIN disk : TOMB_STONE \notin HeldFor(k)[f]
  <2> SUFFICES ASSUME ~ReuseDeleted, NEW f \in DOMAIN disk, TOMB_STONE \in HeldFor(k)[f]
               PROVE  FALSE
    OBVIOUS
  <2>1. TOMB_STONE \in ValuesIn(disk[f], k) /\ IsFile(disk[f])
    BY EachIsFile DEF HeldFor, DataInv
  <2>2. SearchValueByKey(disk[f], k) = TOMB_STONE
    BY <2>1, SearchSST
  <2> QED
    BY <2>2 DEF MayWrite
<1>3. FilesAreSSTs' /\ TombstonesAreNewest'
  BY <1>1, <1>2, DiskKept
<1> QED
  BY <1>1, <1>3 DEF FlushHasEntries

\* What the files hold for a key after a flush.
Flushed(num) ==
  \A k \in Keys :
    LET V == HeldFor(k)
        W == HeldFor(k)'
    IN  /\ DOMAIN W = DOMAIN V \cup {num}
        /\ \A f \in DOMAIN V : W[f] = V[f]
        /\ W[num] = IF k \in DOMAIN memtable THEN {memtable[k]} ELSE {}

\* A flush adds a file with the entries of the memtable.
LEMMA FlushHolds ==
  ASSUME DataInv, Flush
  PROVE  \E num : FlushesTo(num) /\ Flushed(num) /\ FilesAreSSTs'
<1>1. PICK num : FlushesTo(num)
  BY FlushFile DEF DataInv
<1> DEFINE file == BuildFile(SortedRun(memtable))
<1>2. /\ IsSST(file)
      /\ \A k \in Keys : ValuesIn(file, k) = IF k \in DOMAIN memtable THEN {memtable[k]} ELSE {}
  BY FlushedFile DEF DataInv, FlushHasEntries, Flush
<1>3. disk' = Assign(disk, num, file) /\ num \notin DOMAIN disk
  BY <1>1 DEF FlushesTo
<1> HIDE DEF file
<1>4. DOMAIN disk' = DOMAIN disk \cup {num} /\ disk'[num] = file /\ \A f \in DOMAIN disk : disk'[f] = disk[f]
  BY <1>3 DEF Assign
<1>5. FilesAreSSTs'
  BY <1>2, <1>4 DEF DataInv, FilesAreSSTs
<1>6. Flushed(num)
  BY <1>2, <1>4 DEF Flushed, HeldFor
<1> QED
  BY <1>1, <1>5, <1>6

\* A flush keeps the invariant: its tombstones are in the newest file.
LEMMA FlushDataInv == DataInv /\ Flush => DataInv'
<1> SUFFICES ASSUME DataInv, Flush PROVE DataInv'
  OBVIOUS
<1>1. PICK num : FlushesTo(num) /\ Flushed(num) /\ FilesAreSSTs'
  BY FlushHolds
<1>2. IndInv'
  BY FlushIndInv DEF DataInv
<1>3. memtable' = EmptyMap /\ pc' = "compact" /\ DOMAIN memtable' = {}
  BY DEF Flush, EmptyMap
<1>4. ASSUME ~ReuseDeleted, NEW k \in Keys, NEW f \in DOMAIN disk', TOMB_STONE \in HeldFor(k)'[f]
      PROVE  NewestAt(HeldFor(k)', f)
  <2> DEFINE V == HeldFor(k)  W == HeldFor(k)'
  <2>1. /\ DOMAIN V = DOMAIN disk /\ DOMAIN W = DOMAIN V \cup {num} /\ f \in DOMAIN W
        /\ num \in Nat \ DOMAIN V /\ DOMAIN V \subseteq Nat
        /\ \A g \in DOMAIN V : W[g] = V[g] /\ NewerFile(num, g)
        /\ W[num] = IF k \in DOMAIN memtable THEN {memtable[k]} ELSE {}
    BY <1>1, DiskTyped DEF Flushed, FlushesTo, HeldFor
  <2>2. f \in DOMAIN V /\ TOMB_STONE \in V[f] => k \notin DOMAIN memtable /\ NewestAt(V, f)
    BY <1>4 DEF DataInv, TombstonesAreNewest, HeldFor
  <2> HIDE DEF V, W
  <2>3. /\ W[num] # {} => NewestAt(W, num)
        /\ W[num] = {} => \A g \in DOMAIN V : NewestAt(V, g) => NewestAt(W, g)
    <3>1. /\ DOMAIN V \subseteq Nat /\ num \in Nat \ DOMAIN V
          /\ DOMAIN W = DOMAIN V \cup {num}
          /\ \A g \in DOMAIN V : W[g] = V[g]
          /\ \A g \in DOMAIN V : NewerFile(num, g)
      BY <2>1
    <3> QED
      BY ONLY <3>1, NewestAdded
  <2>4. TOMB_STONE \in W[f]
    BY <1>4 DEF W
  <2>5. CASE f = num
    BY <2>3, <2>4, <2>5 DEF W
  <2>6. CASE f # num
    <3>1. f \in DOMAIN V /\ TOMB_STONE \in V[f]
      BY <2>1, <2>4, <2>6
    <3>2. NewestAt(W, f)
      BY <2>1, <2>2, <2>3, <3>1
    <3> QED
      BY <3>2 DEF W
  <2> QED
    BY <2>5, <2>6
<1>5. TombstonesAreNewest' /\ FlushHasEntries'
  BY <1>3, <1>4 DEF TombstonesAreNewest, FlushHasEntries
<1> QED
  BY <1>1, <1>2, <1>5 DEF DataInv

\* What the files hold for a key after a compaction: the pairs of a key that
\* meets its tombstone at the last level are gone, whatever the newer one was.
DropsKey(k, o, n) == IsLastLevel /\ TOMB_STONE \in HeldFor(k)[o] /\ HeldFor(k)[n] # {}

Compacted(o, n, num) ==
  \A k \in Keys \ Blanked :
    LET V == HeldFor(k)
        W == HeldFor(k)'
    IN  /\ Replaces(V, W, o, n, num)
        /\ W[num] = IF DropsKey(k, o, n) THEN {} ELSE IF V[n] # {} THEN V[n] ELSE V[o]

\* A compaction replaces two files by one, and under the contract drops no key.
LEMMA CompactHolds ==
  ASSUME DataInv, CompactLevel
  PROVE  \E o, n, num : CompactsTo(o, n, num) /\ Compacted(o, n, num) /\ FilesAreSSTs'
                        /\ (~ReuseDeleted => \A k \in Keys : ~DropsKey(k, o, n))
<1>1. PICK o, n, num : CompactsTo(o, n, num)
  BY CompactFiles DEF DataInv
<1>2. DOMAIN disk \subseteq Nat
  BY DiskTyped
<1>3. IsFile(disk[o]) /\ IsSST(disk[n])
  <2>1. current_level \in Nat
    BY DEF DataInv, IndInv, TypeOK
  <2>2. n # 0
    BY <1>1, <2>1 DEF CompactsTo, ToCompact
  <2> QED
    BY <1>1, <2>2, EachIsFile DEF CompactsTo, ToCompact, DataInv
<1>4. ASSUME ~ReuseDeleted, NEW k, TOMB_STONE \in ValuesIn(disk[o], k) PROVE ValuesIn(disk[n], k) = {}
  <2>1. k \in Keys
    <3>1. PICK e \in LeafEntries(disk[o]) : e.key = k
      BY <1>4 DEF ValuesIn
    <3>2. e \in Contents(RunOf(disk[o]))
      BY <1>3, <3>1, FileHolds
    <3>3. e \in Written
      BY <1>3, <1>4, <3>2, FileRun DEF Blanked
    <3> QED
      BY <3>1, <3>3 DEF Written
  <2>2. NewestAt(HeldFor(k), o)
    BY <1>1, <1>4, <2>1 DEF DataInv, TombstonesAreNewest, CompactsTo, ToCompact, HeldFor
  <2>3. HeldFor(k)[n] = {}
    BY <1>1, <2>2 DEF NewestAt, CompactsTo, ToCompact, HeldFor
  <2> QED
    BY <1>1, <2>3 DEF CompactsTo, ToCompact, HeldFor
<1>5. ~ReuseDeleted => ~DropsIn(disk[o], disk[n], IsLastLevel)
  BY <1>4 DEF DropsIn
<1> DEFINE file == MergeSSTs(disk[o], disk[n], IsLastLevel)
<1>6. /\ IsSST(file)
      /\ \A k : k \notin Blanked =>
           ValuesIn(file, k) =
             IF IsLastLevel /\ TOMB_STONE \in ValuesIn(disk[o], k) /\ ValuesIn(disk[n], k) # {}
             THEN {}
             ELSE IF ValuesIn(disk[n], k) # {} THEN ValuesIn(disk[n], k) ELSE ValuesIn(disk[o], k)
  <2> DEFINE a == disk[o]  b == disk[n]  last == IsLastLevel
  <2>1. last \in BOOLEAN
    BY DEF IsLastLevel
  <2>2. Blanked = {} => ~DropsIn(a, b, last)
    BY <1>5 DEF Blanked
  <2>3. IsFile(a) /\ IsSST(b) /\ file = MergeSSTs(a, b, last)
    BY <1>3
  <2> HIDE DEF a, b, last, file
  <2>4. /\ IsSST(file)
        /\ \A k : k \notin Blanked =>
             ValuesIn(file, k) =
               IF last /\ TOMB_STONE \in ValuesIn(a, k) /\ ValuesIn(b, k) # {}
               THEN {}
               ELSE IF ValuesIn(b, k) # {} THEN ValuesIn(b, k) ELSE ValuesIn(a, k)
    BY ONLY <2>1, <2>2, <2>3, CompactedFile
  <2> QED
    BY <2>4 DEF a, b, last
<1>7. disk'[num] = file
  BY <1>1 DEF CompactsTo, ToCompact
<1> HIDE DEF file
<1>8. FilesAreSSTs'
  <2>1. ASSUME NEW f \in DOMAIN disk' PROVE IsSST(disk'[f]) \/ (f = 0 /\ disk'[f] = EmptyFile)
    <3>1. f = num \/ (f \in DOMAIN disk /\ disk'[f] = disk[f])
      BY <1>1 DEF CompactsTo, ToCompact
    <3> QED
      BY <1>6, <1>7, <3>1 DEF DataInv, FilesAreSSTs
  <2> QED
    BY <2>1 DEF FilesAreSSTs
<1>9. Compacted(o, n, num)
  <2> SUFFICES ASSUME NEW k \in Keys \ Blanked
               PROVE  LET V == HeldFor(k)
                          W == HeldFor(k)'
                      IN  /\ Replaces(V, W, o, n, num)
                          /\ W[num] = IF DropsKey(k, o, n) THEN {} ELSE IF V[n] # {} THEN V[n] ELSE V[o]
    BY DEF Compacted
  <2> DEFINE V == HeldFor(k)  W == HeldFor(k)'
  <2>1. /\ DOMAIN V = DOMAIN disk /\ DOMAIN W = DOMAIN disk'
        /\ \A f \in DOMAIN disk : V[f] = ValuesIn(disk[f], k)
        /\ \A f \in DOMAIN disk' : W[f] = ValuesIn(disk'[f], k)
    BY DEF HeldFor
  <2>2. Replaces(V, W, o, n, num)
    <3> HIDE DEF V, W
    <3> QED
      BY <1>1, <2>1 DEF Replaces, CompactsTo, ToCompact
  <2>3. W[num] = IF DropsKey(k, o, n) THEN {} ELSE IF V[n] # {} THEN V[n] ELSE V[o]
    <3>1. o \in DOMAIN disk /\ n \in DOMAIN disk /\ num \in DOMAIN disk'
      BY <1>1 DEF CompactsTo, ToCompact
    <3>2. W[num] = ValuesIn(file, k) /\ V[o] = ValuesIn(disk[o], k) /\ V[n] = ValuesIn(disk[n], k)
      BY <1>7, <2>1, <3>1
    <3>3. DropsKey(k, o, n) <=> IsLastLevel /\ TOMB_STONE \in V[o] /\ V[n] # {}
      BY DEF DropsKey
    <3> HIDE DEF V, W
    <3> QED
      BY <1>6, <3>2, <3>3
  <2> QED
    BY <2>2, <2>3
<1>10. ASSUME ~ReuseDeleted, NEW k \in Keys PROVE ~DropsKey(k, o, n)
  BY <1>1, <1>4, <1>10 DEF DropsKey, HeldFor, CompactsTo, ToCompact
<1> QED
  BY <1>1, <1>8, <1>9, <1>10

\* A compaction keeps the invariant: what it writes was the newest before.
LEMMA CompactDataInv == DataInv /\ CompactLevel => DataInv'
<1> SUFFICES ASSUME DataInv, CompactLevel PROVE DataInv'
  OBVIOUS
<1>1. PICK o, n, num : CompactsTo(o, n, num) /\ Compacted(o, n, num) /\ FilesAreSSTs'
                        /\ (~ReuseDeleted => \A k \in Keys : ~DropsKey(k, o, n))
  BY CompactHolds
<1>2. IndInv'
  BY CompactIndInv DEF DataInv
<1>3. memtable' = memtable /\ pc' = "compact"
  BY DEF CompactLevel
<1>4. ASSUME ~ReuseDeleted, NEW k \in Keys, NEW f \in DOMAIN disk', TOMB_STONE \in HeldFor(k)'[f]
      PROVE  k \notin DOMAIN memtable /\ NewestAt(HeldFor(k)', f)
  <2> DEFINE V == HeldFor(k)  W == HeldFor(k)'
  <2>1. /\ Replaces(V, W, o, n, num)
        /\ W[num] = IF V[n] # {} THEN V[n] ELSE V[o]
        /\ DOMAIN V \subseteq Nat /\ f \in DOMAIN W /\ TOMB_STONE \in W[f]
    <3>1. k \in Keys \ Blanked /\ ~DropsKey(k, o, n)
      BY <1>1, <1>4 DEF Blanked
    <3>2. DOMAIN V \subseteq Nat /\ f \in DOMAIN W
      BY DiskTyped DEF HeldFor
    <3> QED
      BY <1>1, <1>4, <3>1, <3>2 DEF Compacted
  <2>2. \A g \in DOMAIN V : TOMB_STONE \in V[g] => k \notin DOMAIN memtable /\ NewestAt(V, g)
    BY <1>4 DEF DataInv, TombstonesAreNewest, HeldFor
  <2> HIDE DEF V, W
  <2>3. /\ W[num] # {} => NewestAt(W, num) /\ \E g \in {o, n} : NewestAt(V, g) /\ V[g] = W[num]
        /\ W[num] = {} => \A g \in DOMAIN V : NewestAt(V, g) => g \in DOMAIN W /\ NewestAt(W, g) /\ W[g] = V[g]
    BY ONLY <2>1, NewestReplaced
  <2>4. CASE f = num
    <3>1. NewestAt(W, num)
      BY <2>1, <2>3, <2>4
    <3>2. PICK g \in {o, n} : V[g] = W[num]
      BY <2>1, <2>3, <2>4
    <3>3. g \in DOMAIN V
      BY <2>1 DEF Replaces
    <3> QED
      BY <2>1, <2>2, <2>4, <3>1, <3>2, <3>3 DEF W
  <2>5. CASE f # num
    <3>1. f \in DOMAIN V /\ W[f] = V[f] /\ f \notin {o, n} /\ o \in DOMAIN V /\ n \in DOMAIN V
      BY <2>1, <2>5 DEF Replaces
    <3>2. NewestAt(V, f) /\ k \notin DOMAIN memtable
      BY <2>1, <2>2, <3>1
    <3>3. W[num] = {}
      BY <2>1, <2>3, <3>1, <3>2, OneNewest
    <3> QED
      BY <2>3, <3>1, <3>2, <3>3 DEF W
  <2> QED
    BY <2>4, <2>5
<1>5. TombstonesAreNewest' /\ FlushHasEntries'
  BY <1>3, <1>4 DEF TombstonesAreNewest, FlushHasEntries
<1> QED
  BY <1>1, <1>2, <1>5 DEF DataInv

\* Every step keeps the invariant.
LEMMA NextDataInv == DataInv /\ [Next]_vars => DataInv'
<1> SUFFICES ASSUME DataInv, [Next]_vars PROVE DataInv'
  OBVIOUS
<1>1. IndInv'
  BY NextIndInv DEF DataInv
<1>2. CASE \E k \in Keys, v \in Values : Put(k, v)
  <2>1. PICK k \in Keys, v \in Values : Put(k, v)
    BY <1>2
  <2>2. MayWrite(k) /\ memtable' = Assign(memtable, k, v) /\ disk' = disk
    BY <2>1 DEF Put
  <2> QED
    BY <1>1, <2>2, WriteDataInv DEF DataInv
<1>3. CASE \E k \in Keys : Delete(k)
  <2>1. PICK k \in Keys : Delete(k)
    BY <1>3
  <2>2. MayWrite(k) /\ memtable' = Assign(memtable, k, TOMB_STONE) /\ disk' = disk
    BY <2>1 DEF Delete
  <2> QED
    BY <1>1, <2>2, WriteDataInv DEF DataInv
<1>4. CASE Close
  <2>1. memtable' = memtable /\ disk' = disk /\ DOMAIN memtable # {}
    BY <1>4 DEF Close
  <2>2. FilesAreSSTs' /\ TombstonesAreNewest'
    BY <2>1, DiskKept
  <2> QED
    BY <1>1, <2>1, <2>2 DEF DataInv, FlushHasEntries
<1>5. CASE Flush
  BY <1>5, FlushDataInv
<1>6. CASE CompactLevel
  BY <1>6, CompactDataInv
<1>7. CASE StopCompaction
  <2>1. memtable' = memtable /\ disk' = disk /\ pc' = "idle"
    BY <1>7 DEF StopCompaction
  <2>2. FilesAreSSTs' /\ TombstonesAreNewest'
    BY <2>1, DiskKept
  <2> QED
    BY <1>1, <2>1, <2>2 DEF DataInv, FlushHasEntries
<1>8. CASE Restart
  <2>1. DOMAIN memtable' = {} /\ disk' = disk /\ pc' = "idle"
    BY <1>8 DEF Restart, EmptyMap
  <2>2. FilesAreSSTs' /\ TombstonesAreNewest'
    BY <2>1, DiskKept
  <2> QED
    BY <1>1, <2>1, <2>2 DEF DataInv, FlushHasEntries
<1>9. CASE UNCHANGED vars
  <2>1. memtable' = memtable /\ disk' = disk /\ pc' = pc
    BY <1>9 DEF vars
  <2>2. FilesAreSSTs' /\ TombstonesAreNewest'
    BY <2>1, DiskKept
  <2> QED
    BY <1>1, <2>1, <2>2 DEF DataInv, FlushHasEntries
<1> QED
  BY <1>2, <1>3, <1>4, <1>5, <1>6, <1>7, <1>8, <1>9 DEF Next

\* The invariant holds in every state the store reaches.
LEMMA DataInvariance == Spec => []DataInv
  BY InitDataInv, NextDataInv, PTL DEF Spec

-----------------------------------------------------------------------------
(* What the store shows of what its files hold                             *)

\* The newest file that has anything has just v; no file has anything.
Shows(V, v) == \E f \in DOMAIN V : NewestAt(V, f) /\ V[f] = {v}

Bare(V) == \A f \in DOMAIN V : V[f] = {}

\* NewestOnDisk, which chooses among places, in terms of the files.
DiskAnswers ==
  \A k \in Keys \ Blanked :
    /\ \A v : Shows(HeldFor(k), v) => NewestOnDisk(k) = Shown(v) /\ v \in Values \cup {TOMB_STONE}
    /\ Bare(HeldFor(k)) => NewestOnDisk(k) = INVALID_VALUE
    /\ Bare(HeldFor(k)) \/ \E v : Shows(HeldFor(k), v)

\* A file has one value for a key at most.
LEMMA HeldSingle ==
  ASSUME DataInv, NEW k \in Keys \ Blanked, NEW f \in DOMAIN disk, HeldFor(k)[f] # {}
  PROVE  \E v \in Values \cup {TOMB_STONE} : HeldFor(k)[f] = {v}
<1>1. IsFile(disk[f]) /\ HeldFor(k)[f] = ValuesIn(disk[f], k)
  BY EachIsFile DEF DataInv, HeldFor
<1>2. PICK v : v \in ValuesIn(disk[f], k)
  BY <1>1
<1>3. \A w \in ValuesIn(disk[f], k) : v = w /\ v \in Values \cup {TOMB_STONE}
  BY <1>1, <1>2, FileHolds
<1> QED
  BY <1>1, <1>2, <1>3

\* What is stored at a place is what the file there has.
LEMMA StoredIsHeld ==
  ASSUME DataInv, NEW p \in Places, NEW k
  PROVE  FileOf(p) \in DOMAIN HeldFor(k) /\ Stored(p, k) = HeldFor(k)[FileOf(p)]
<1>1. FileOf(p) \in DOMAIN disk
  BY PlacesAreFiles DEF DataInv
<1> QED
  BY <1>1 DEF HeldFor, Stored, FileAt, ValuesIn, FileOf

\* The place of the newest entry is the only one that NewestOnDisk can choose.
LEMMA NewestPlace ==
  ASSUME DataInv, NEW k, NEW f \in DOMAIN disk, NewestAt(HeldFor(k), f)
  PROVE  /\ PlaceOf(f) \in Places /\ FileOf(PlaceOf(f)) = f
         /\ \A p \in Places :
              (Stored(p, k) # {} /\ \A q \in Places : NewerThan(q, p) => Stored(q, k) = {})
              <=> p = PlaceOf(f)
<1> DEFINE V == HeldFor(k)
           First(p) == Stored(p, k) # {} /\ \A q \in Places : NewerThan(q, p) => Stored(q, k) = {}
<1>1. DOMAIN V = DOMAIN disk /\ DOMAIN V \subseteq Nat /\ IndInv
  BY DiskTyped DEF HeldFor, DataInv
<1>2. /\ \A p \in Places : FileOf(p) \in DOMAIN V /\ p = PlaceOf(FileOf(p))
      /\ \A g \in DOMAIN V : PlaceOf(g) \in Places /\ FileOf(PlaceOf(g)) = g
      /\ \A p, q \in Places : NewerThan(p, q) <=> NewerFile(FileOf(p), FileOf(q))
      /\ \A p \in Places : Stored(p, k) = V[FileOf(p)]
  BY <1>1, PlacesAreFiles, NewerPlace, StoredIsHeld
<1> HIDE DEF V
<1>3. NewestAt(V, f) /\ f \in DOMAIN V
  BY <1>1 DEF V
<1>4. First(PlaceOf(f))
  BY <1>2, <1>3 DEF NewestAt
<1>5. ASSUME NEW p \in Places, First(p) PROVE p = PlaceOf(f)
  <2>1. FileOf(p) \in DOMAIN V /\ V[FileOf(p)] # {}
    BY <1>2, <1>5
  <2>2. ASSUME NEW g \in DOMAIN V, NewerFile(g, FileOf(p)) PROVE V[g] = {}
    <3>1. NewerThan(PlaceOf(g), p)
      BY <1>2, <2>2
    <3> QED
      BY <1>2, <1>5, <3>1
  <2>3. NewestAt(V, FileOf(p))
    BY <2>1, <2>2 DEF NewestAt
  <2>4. FileOf(p) = f
    BY <1>1, <1>3, <2>1, <2>3, OneNewest
  <2> QED
    BY <1>2, <2>4
<1> QED
  BY <1>2, <1>3, <1>4, <1>5

\* The invariant gives it.
LEMMA DiskAnswersHolds == DataInv => DiskAnswers
<1> SUFFICES ASSUME DataInv, NEW k \in Keys \ Blanked
             PROVE  /\ \A v : Shows(HeldFor(k), v) =>
                                NewestOnDisk(k) = Shown(v) /\ v \in Values \cup {TOMB_STONE}
                    /\ Bare(HeldFor(k)) => NewestOnDisk(k) = INVALID_VALUE
                    /\ Bare(HeldFor(k)) \/ \E v : Shows(HeldFor(k), v)
  BY DEF DiskAnswers
<1> DEFINE V == HeldFor(k)
<1>1. DOMAIN V = DOMAIN disk /\ DOMAIN V \subseteq Nat
  BY DiskTyped DEF HeldFor
<1>2. ASSUME NEW v, Shows(V, v) PROVE NewestOnDisk(k) = Shown(v) /\ v \in Values \cup {TOMB_STONE}
  <2>1. PICK f \in DOMAIN V : NewestAt(V, f) /\ V[f] = {v}
    BY <1>2 DEF Shows
  <2>2. f \in DOMAIN disk
    BY <1>1
  <2>3. v \in Values \cup {TOMB_STONE}
    BY <2>1, <2>2, HeldSingle
  <2> DEFINE First(p) == Stored(p, k) # {} /\ \A q \in Places : NewerThan(q, p) => Stored(q, k) = {}
             newest == CHOOSE p \in Places : First(p)
  <2>4. PlaceOf(f) \in Places /\ FileOf(PlaceOf(f)) = f /\ \A p \in Places : First(p) <=> p = PlaceOf(f)
    BY <2>1, <2>2, NewestPlace
  <2>5. newest = PlaceOf(f)
    <3> HIDE DEF First
    <3> QED
      BY <2>4
  <2>6. Stored(newest, k) = {v}
    BY <2>1, <2>4, <2>5, StoredIsHeld
  <2>7. ~ \A p \in Places : Stored(p, k) = {}
    BY <2>4, <2>5, <2>6
  <2>8. NewestOnDisk(k) = Shown(CHOOSE w \in Stored(newest, k) : TRUE)
    BY <2>7 DEF NewestOnDisk
  <2> HIDE DEF newest
  <2> QED
    BY <2>3, <2>6, <2>8
<1>3. ASSUME Bare(V) PROVE NewestOnDisk(k) = INVALID_VALUE
  <2>1. \A p \in Places : Stored(p, k) = {}
    BY <1>3, StoredIsHeld DEF Bare
  <2> QED
    BY <2>1 DEF NewestOnDisk
<1>4. ASSUME ~Bare(V) PROVE \E v : Shows(V, v)
  <2>1. PICK h \in DOMAIN V : V[h] # {}
    BY <1>4 DEF Bare
  <2>2. PICK f \in DOMAIN V : NewestAt(V, f)
    <3> HIDE DEF V
    <3> QED
      BY <1>1, <2>1, SomeNewest
  <2>3. V[f] # {} /\ f \in DOMAIN disk
    BY <1>1, <2>2 DEF NewestAt
  <2>4. PICK v : V[f] = {v}
    BY <2>3, HeldSingle
  <2> QED
    BY <2>2, <2>4 DEF Shows
<1> QED
  BY <1>2, <1>3, <1>4

\* The same, after a step.
LEMMA DiskAnswersNext == DataInv' => DiskAnswers'
  BY DiskAnswersHolds, PTL

-----------------------------------------------------------------------------
(* What each step shows of a key                                           *)

\* A flush makes the current value of every key durable and changes none.
LEMMA FlushShows ==
  ASSUME DataInv, Flush, NEW k \in Keys \ Blanked
  PROVE  NewestOnDisk(k)' = Newest(k) /\ Newest(k)' = Newest(k)
<1>1. PICK num : FlushesTo(num) /\ Flushed(num)
  BY FlushHolds
<1> DEFINE V == HeldFor(k)  W == HeldFor(k)'
<1>2. /\ DOMAIN V \subseteq Nat /\ num \in Nat \ DOMAIN V
      /\ DOMAIN W = DOMAIN V \cup {num}
      /\ \A f \in DOMAIN V : W[f] = V[f]
      /\ \A f \in DOMAIN V : NewerFile(num, f)
  BY <1>1, DiskTyped DEF Flushed, FlushesTo, HeldFor
<1>3. W[num] = IF k \in DOMAIN memtable THEN {memtable[k]} ELSE {}
  BY <1>1 DEF Flushed
<1>4. DiskAnswers /\ DiskAnswers'
  BY FlushDataInv, DiskAnswersHolds, DiskAnswersNext
<1>5. /\ \A v : Shows(V, v) => NewestOnDisk(k) = Shown(v)
      /\ Bare(V) => NewestOnDisk(k) = INVALID_VALUE
      /\ Bare(V) \/ \E v : Shows(V, v)
  BY <1>4 DEF DiskAnswers
<1>6. /\ \A v : Shows(W, v) => NewestOnDisk(k)' = Shown(v)
      /\ Bare(W) => NewestOnDisk(k)' = INVALID_VALUE
  BY <1>4 DEF DiskAnswers, Shown
<1> HIDE DEF V, W
<1>7. /\ W[num] # {} => NewestAt(W, num)
      /\ W[num] = {} => \A f \in DOMAIN V : NewestAt(V, f) => NewestAt(W, f)
      /\ \A f \in DOMAIN W : f = num \/ (f \in DOMAIN V /\ W[f] = V[f])
  BY ONLY <1>2, NewestAdded
<1>8. NewestOnDisk(k)' = Newest(k)
  <2>1. CASE k \in DOMAIN memtable
    <3>1. Shows(W, memtable[k])
      BY <1>2, <1>3, <1>7, <2>1 DEF Shows
    <3> QED
      BY <1>6, <2>1, <3>1 DEF Newest
  <2>2. CASE k \notin DOMAIN memtable
    <3>1. W[num] = {}
      BY <1>3, <2>2
    <3>2. CASE Bare(V)
      <4>1. Bare(W)
        BY <1>7, <3>1, <3>2 DEF Bare
      <4> QED
        BY <1>5, <1>6, <2>2, <3>2, <4>1 DEF Newest
    <3>3. CASE ~Bare(V)
      <4>1. PICK v : Shows(V, v)
        BY <1>5, <3>3
      <4>2. Shows(W, v)
        BY <1>2, <1>7, <3>1, <4>1 DEF Shows
      <4> QED
        BY <1>5, <1>6, <2>2, <4>1, <4>2 DEF Newest
    <3> QED
      BY <3>2, <3>3
  <2> QED
    BY <2>1, <2>2
<1>9. Newest(k)' = NewestOnDisk(k)'
  <2>1. DOMAIN memtable' = {}
    BY DEF Flush, EmptyMap
  <2> QED
    BY <2>1 DEF Newest
<1> QED
  BY <1>8, <1>9

\* A compaction changes the value of no key, except that a key whose new
\* entry meets its tombstone at the last level is gone.
LEMMA CompactShows ==
  ASSUME DataInv, CompactLevel, NEW k \in Keys \ Blanked
  PROVE  /\ NewestOnDisk(k)' \in {NewestOnDisk(k), INVALID_VALUE}
         /\ ~ReuseDeleted => NewestOnDisk(k)' = NewestOnDisk(k)
         /\ Newest(k)' \in {Newest(k), INVALID_VALUE}
         /\ ~ReuseDeleted => Newest(k)' = Newest(k)
<1>1. PICK o, n, num : CompactsTo(o, n, num) /\ Compacted(o, n, num)
                        /\ (~ReuseDeleted => \A x \in Keys : ~DropsKey(x, o, n))
  BY CompactHolds
<1> DEFINE V == HeldFor(k)  W == HeldFor(k)'
<1>2. /\ Replaces(V, W, o, n, num)
      /\ W[num] = IF DropsKey(k, o, n) THEN {} ELSE IF V[n] # {} THEN V[n] ELSE V[o]
      /\ DOMAIN V \subseteq Nat
  BY <1>1, DiskTyped DEF Compacted, HeldFor
<1>3. DropsKey(k, o, n) => DOMAIN V = {o, n}
  BY <1>1 DEF DropsKey, CompactsTo, ToCompact, HeldFor
<1>4. DiskAnswers /\ DiskAnswers'
  BY CompactDataInv, DiskAnswersHolds, DiskAnswersNext
<1>5. /\ \A v : Shows(V, v) => NewestOnDisk(k) = Shown(v)
      /\ Bare(V) => NewestOnDisk(k) = INVALID_VALUE
      /\ Bare(V) \/ \E v : Shows(V, v)
  BY <1>4 DEF DiskAnswers
<1>6. /\ \A v : Shows(W, v) => NewestOnDisk(k)' = Shown(v)
      /\ Bare(W) => NewestOnDisk(k)' = INVALID_VALUE
  BY <1>4 DEF DiskAnswers, Shown
<1> HIDE DEF V, W
<1>7. ASSUME ~DropsKey(k, o, n) PROVE NewestOnDisk(k)' = NewestOnDisk(k)
  <2>1. DOMAIN V \subseteq Nat /\ Replaces(V, W, o, n, num) /\ W[num] = IF V[n] # {} THEN V[n] ELSE V[o]
    BY <1>2, <1>7
  <2>2. /\ W[num] # {} => NewestAt(W, num) /\ \E f \in {o, n} : NewestAt(V, f) /\ V[f] = W[num]
        /\ W[num] = {} => \A f \in DOMAIN V : NewestAt(V, f) => f \in DOMAIN W /\ NewestAt(W, f) /\ W[f] = V[f]
        /\ (\A f \in DOMAIN V : V[f] = {}) => \A f \in DOMAIN W : W[f] = {}
    BY ONLY <2>1, NewestReplaced
  <2>3. o \in DOMAIN V /\ n \in DOMAIN V /\ num \in DOMAIN W
    BY <2>1 DEF Replaces
  <2>4. CASE Bare(V)
    BY <1>5, <1>6, <2>2, <2>4 DEF Bare
  <2>5. CASE ~Bare(V)
    <3>1. PICK v : Shows(V, v)
      BY <1>5, <2>5
    <3>2. PICK f \in DOMAIN V : NewestAt(V, f) /\ V[f] = {v}
      BY <3>1 DEF Shows
    <3>3. CASE W[num] = {}
      <4>1. Shows(W, v)
        BY <2>2, <3>2, <3>3 DEF Shows
      <4> QED
        BY <1>5, <1>6, <3>1, <4>1
    <3>4. CASE W[num] # {}
      <4>1. PICK g \in {o, n} : NewestAt(V, g) /\ V[g] = W[num]
        BY <2>2, <3>4
      <4>2. g = f
        BY <1>2, <2>3, <3>2, <4>1, OneNewest
      <4>3. Shows(W, v)
        BY <2>2, <2>3, <3>2, <3>4, <4>1, <4>2 DEF Shows
      <4> QED
        BY <1>5, <1>6, <3>1, <4>3
    <3> QED
      BY <3>3, <3>4
  <2> QED
    BY <2>4, <2>5
<1>8. ASSUME DropsKey(k, o, n) PROVE NewestOnDisk(k)' = INVALID_VALUE
  <2>1. Bare(W)
    BY <1>2, <1>3, <1>8 DEF Bare, Replaces
  <2> QED
    BY <1>6, <2>1
<1>9. /\ NewestOnDisk(k)' \in {NewestOnDisk(k), INVALID_VALUE}
      /\ ~ReuseDeleted => NewestOnDisk(k)' = NewestOnDisk(k)
  BY <1>1, <1>7, <1>8
<1>10. Newest(k)' = IF k \in DOMAIN memtable THEN Newest(k) ELSE NewestOnDisk(k)'
  BY DEF Newest, CompactLevel, Shown
<1>11. k \notin DOMAIN memtable => Newest(k) = NewestOnDisk(k)
  BY DEF Newest
<1> QED
  BY <1>9, <1>10, <1>11

\* What is durable depends on the tree and its files only.
LEMMA TreeKept ==
  ASSUME UNCHANGED <<levels, disk>>, NEW k
  PROVE  NewestOnDisk(k)' = NewestOnDisk(k)
  BY DEF NewestOnDisk, Places, Stored, FileAt, NewerThan, LeafEntries, Shown

\* A write to the memtable shows in the key it names and in no other.
LEMMA WriteShows ==
  ASSUME UNCHANGED <<levels, disk>>, NEW k, NEW v, memtable' = Assign(memtable, k, v), NEW x
  PROVE  /\ NewestOnDisk(x)' = NewestOnDisk(x)
         /\ Newest(x)' = IF x = k THEN Shown(v) ELSE Newest(x)
<1>1. NewestOnDisk(x)' = NewestOnDisk(x)
  BY TreeKept
<1>2. Newest(x)' = IF x \in DOMAIN memtable' THEN Shown(memtable'[x]) ELSE NewestOnDisk(x)'
  BY DEF Newest, Shown
<1>3. /\ x \in DOMAIN memtable' <=> x = k \/ x \in DOMAIN memtable
      /\ x \in DOMAIN memtable' => memtable'[x] = IF x = k THEN v ELSE memtable[x]
  BY DEF Assign
<1> QED
  BY <1>1, <1>2, <1>3 DEF Newest

\* A step that leaves memtable, tree and files alone shows nothing.
LEMMA KeptShows ==
  ASSUME UNCHANGED <<memtable, levels, disk>>, NEW x
  PROVE  NewestOnDisk(x)' = NewestOnDisk(x) /\ Newest(x)' = Newest(x)
<1>1. NewestOnDisk(x)' = NewestOnDisk(x)
  BY TreeKept
<1>2. Newest(x)' = IF x \in DOMAIN memtable' THEN Shown(memtable'[x]) ELSE NewestOnDisk(x)'
  BY DEF Newest, Shown
<1> QED
  BY <1>1, <1>2 DEF Newest

\* A restart shows what was durable.
LEMMA RestartShows ==
  ASSUME IndInv, Restart, NEW x
  PROVE  NewestOnDisk(x)' = NewestOnDisk(x) /\ Newest(x)' = NewestOnDisk(x)
<1>1. UNCHANGED <<levels, disk>> /\ DOMAIN memtable' = {}
  BY RestartKeepsTree DEF Restart, EmptyMap
<1>2. NewestOnDisk(x)' = NewestOnDisk(x)
  BY <1>1, TreeKept
<1>3. Newest(x)' = NewestOnDisk(x)'
  BY <1>1 DEF Newest
<1> QED
  BY <1>2, <1>3

-----------------------------------------------------------------------------
(* The steps of the durable map                                            *)

\* One step of NeverStale.
NeverStaleStep ==
  \A k \in Keys \ {0} :
       \/ Newest(k)' \in {Newest(k), NewestOnDisk(k), INVALID_VALUE}
       \/ k \in DOMAIN memtable' /\ Newest(k)' = memtable'[k] /\ pc = "idle"

\* For a key other than 0, whatever the client does, a flush, a compaction or a
\* restart never brings back a value that was overwritten or deleted
\* (btree.cpp:297): not even where the contract is broken.
THEOREM NothingStaleComesBack == Spec => NeverStale
<1>1. ASSUME DataInv, [Next]_vars, NEW k \in Keys \ {0}
      PROVE  \/ Newest(k)' \in {Newest(k), NewestOnDisk(k), INVALID_VALUE}
             \/ k \in DOMAIN memtable' /\ Newest(k)' = memtable'[k] /\ pc = "idle"
  <2>1. k \in Keys \ Blanked
    BY DEF Blanked
  <2>2. CASE \E x \in Keys, v \in Values : Put(x, v)
    <3>1. PICK x \in Keys, v \in Values : Put(x, v)
      BY <2>2
    <3>2. memtable' = Assign(memtable, x, v) /\ UNCHANGED <<levels, disk>> /\ pc = "idle"
      BY <3>1 DEF Put
    <3>3. Newest(k)' = IF k = x THEN Shown(v) ELSE Newest(k)
      BY <3>2, WriteShows
    <3>4. Shown(v) = v
      BY KeysAreNumbers DEF Shown
    <3>5. k = x => k \in DOMAIN memtable' /\ memtable'[k] = v
      BY <3>2 DEF Assign
    <3> QED
      BY <3>2, <3>3, <3>4, <3>5
  <2>3. CASE \E x \in Keys : Delete(x)
    <3>1. PICK x \in Keys : Delete(x)
      BY <2>3
    <3>2. memtable' = Assign(memtable, x, TOMB_STONE) /\ UNCHANGED <<levels, disk>>
      BY <3>1 DEF Delete
    <3>3. Newest(k)' = IF k = x THEN Shown(TOMB_STONE) ELSE Newest(k)
      BY <3>2, WriteShows
    <3> QED
      BY <3>3 DEF Shown
  <2>4. CASE Flush
    BY <1>1, <2>1, <2>4, FlushShows
  <2>5. CASE CompactLevel
    BY <1>1, <2>1, <2>5, CompactShows
  <2>6. CASE Restart
    BY <1>1, <2>6, RestartShows DEF DataInv
  <2>7. CASE Close \/ StopCompaction \/ UNCHANGED vars
    <3>1. UNCHANGED <<memtable, levels, disk>>
      BY <2>7 DEF Close, StopCompaction, vars
    <3> QED
      BY <3>1, KeptShows
  <2> QED
    BY <1>1, <2>2, <2>3, <2>4, <2>5, <2>6, <2>7 DEF Next
<1>2. DataInv /\ [Next]_vars => [NeverStaleStep]_vars
  BY <1>1 DEF NeverStaleStep
<1> QED
  BY DataInvariance, <1>2, PTL DEF Spec, NeverStale, NeverStaleStep

\* Every step of the store is a step of the durable map, the one of its name.
LEMMA StepsOfTheMap ==
  ASSUME ~ReuseDeleted, DataInv
  PROVE  /\ \A k \in Keys, v \in Values : Put(k, v) => Abstract!Put(k, v)
         /\ \A k \in Keys : Delete(k) => Abstract!Delete(k)
         /\ Flush => Abstract!Sync
         /\ CompactLevel \/ Close \/ StopCompaction \/ UNCHANGED vars => UNCHANGED Abstract!vars
         /\ Restart => Abstract!Restart
<1> DEFINE map == [k \in Keys |-> Newest(k)]
           durable == [k \in Keys |-> NewestOnDisk(k)]
<1>1. Keys \ Blanked = Keys
  BY DEF Blanked
<1>2. ASSUME NEW k \in Keys, NEW v \in Values, Put(k, v) PROVE Abstract!Put(k, v)
  <2>1. memtable' = Assign(memtable, k, v) /\ UNCHANGED <<levels, disk>>
    BY <1>2 DEF Put
  <2>2. Shown(v) = v
    BY KeysAreNumbers DEF Shown
  <2>3. \A x \in Keys : NewestOnDisk(x)' = NewestOnDisk(x) /\ Newest(x)' = IF x = k THEN v ELSE Newest(x)
    BY <2>1, <2>2, WriteShows
  <2> QED
    BY <2>3 DEF Abstract!Put
<1>3. ASSUME NEW k \in Keys, Delete(k) PROVE Abstract!Delete(k)
  <2>1. memtable' = Assign(memtable, k, TOMB_STONE) /\ UNCHANGED <<levels, disk>>
    BY <1>3 DEF Delete
  <2>2. Shown(TOMB_STONE) = INVALID_VALUE
    BY DEF Shown
  <2>3. \A x \in Keys : NewestOnDisk(x)' = NewestOnDisk(x)
                        /\ Newest(x)' = IF x = k THEN INVALID_VALUE ELSE Newest(x)
    BY <2>1, <2>2, WriteShows
  <2> QED
    BY <2>3 DEF Abstract!Delete
<1>4. ASSUME Flush PROVE Abstract!Sync
  <2>1. \A x \in Keys : NewestOnDisk(x)' = Newest(x) /\ Newest(x)' = Newest(x)
    BY <1>1, <1>4, FlushShows
  <2> QED
    BY <2>1 DEF Abstract!Sync
<1>5. ASSUME CompactLevel \/ Close \/ StopCompaction \/ UNCHANGED vars PROVE UNCHANGED Abstract!vars
  <2>1. \A x \in Keys : NewestOnDisk(x)' = NewestOnDisk(x) /\ Newest(x)' = Newest(x)
    <3>1. CASE CompactLevel
      BY <1>1, <3>1, CompactShows
    <3>2. CASE Close \/ StopCompaction \/ UNCHANGED vars
      <4>1. UNCHANGED <<memtable, levels, disk>>
        BY <3>2 DEF Close, StopCompaction, vars
      <4> QED
        BY <4>1, KeptShows
    <3> QED
      BY <1>5, <3>1, <3>2
  <2> QED
    BY <2>1 DEF Abstract!vars
<1>6. ASSUME Restart PROVE Abstract!Restart
  <2>1. \A x \in Keys : NewestOnDisk(x)' = NewestOnDisk(x) /\ Newest(x)' = NewestOnDisk(x)
    BY <1>6, RestartShows DEF DataInv
  <2> QED
    BY <2>1 DEF Abstract!Restart
<1> QED
  BY <1>2, <1>3, <1>4, <1>5, <1>6

\* A put or a delete changes its key and nothing durable, a flush makes
\* everything durable and changes nothing else, compaction shows nothing and a
\* restart leaves exactly what was durable.
THEOREM CallsDoWhatTheyPromise == ASSUME ~ReuseDeleted PROVE Spec => CallsTakeEffect
<1> DEFINE Step == /\ \A k \in Keys, v \in Values : Put(k, v) => Abstract!Put(k, v)
                   /\ \A k \in Keys : Delete(k) => Abstract!Delete(k)
                   /\ Flush => Abstract!Sync
                   /\ CompactLevel => UNCHANGED Abstract!vars
                   /\ Restart => Abstract!Restart
<1>1. DataInv => Step
  BY StepsOfTheMap
<1>2. CallsTakeEffect <=> [][Step]_vars
  BY DEF CallsTakeEffect
<1> HIDE DEF Step
<1> QED
  BY DataInvariance, <1>1, <1>2, PTL

\* btree.cpp:297, "they have the same key, always prefer the new one":
\* compaction loses no key's current value.
THEOREM CompactionKeepsTheMap == ASSUME ~ReuseDeleted PROVE Spec => CompactionPrefersNew
<1> DEFINE Step == CompactLevel => \A k \in Keys : Newest(k)' = Newest(k)
<1>1. DataInv => Step
  BY CompactShows DEF Blanked
<1>2. CompactionPrefersNew <=> [][Step]_vars
  BY DEF CompactionPrefersNew
<1> HIDE DEF Step
<1> QED
  BY DataInvariance, <1>1, <1>2, PTL

\* The store implements the durable map.
THEOREM StoreIsDurableMap == ASSUME ~ReuseDeleted PROVE Spec => ImplementsDurableMap
<1>1. Init => Abstract!Init
  <2> SUFFICES ASSUME Init PROVE Abstract!Init
    OBVIOUS
  <2>1. \A k : NewestOnDisk(k) = INVALID_VALUE
    BY DEF Init, NewestOnDisk, Places
  <2>2. \A k : Newest(k) = INVALID_VALUE
    BY <2>1 DEF Init, Newest, EmptyMap
  <2> QED
    BY <2>1, <2>2 DEF Abstract!Init
<1>2. DataInv /\ [Next]_vars => [Abstract!Next]_(Abstract!vars)
  BY StepsOfTheMap DEF Next, Abstract!Next
<1> QED
  BY DataInvariance, <1>1, <1>2, PTL DEF Spec, ImplementsDurableMap, Abstract!Spec

-----------------------------------------------------------------------------
(* What is read                                                            *)

\* The invariant has the order of the files.
LEMMA SortedFiles == ASSUME ~ReuseDeleted, DataInv PROVE FilesSorted
<1> SUFFICES ASSUME NEW f \in DOMAIN disk PROVE SortedByKey(RunOf(disk[f]))
  BY DEF FilesSorted
<1>1. SortedApart({}, RunOf(disk[f]))
  BY EachIsFile, FileRun DEF DataInv, Blanked
<1> QED
  BY <1>1 DEF SortedApart, SortedByKey

\* Every file is in strict key order, which the binary search of btree.cpp and
\* its merge rely on.
THEOREM FilesAreSorted == ASSUME ~ReuseDeleted PROVE Spec => []FilesSorted
<1>1. DataInv => FilesSorted
  BY SortedFiles
<1> QED
  BY DataInvariance, <1>1, PTL

\* The SSTs in which a lookup finds the key are those that store it.
LEMMA HoldersStore ==
  ASSUME ~ReuseDeleted, DataInv, NEW k \in Keys, NEW p \in Places
  PROVE  /\ p \in Holders(k) <=> Stored(p, k) # {}
         /\ \A v \in Stored(p, k) : SearchValueByKey(FileAt(p), k) = v
<1>1. FileOf(p) \in DOMAIN disk /\ FileAt(p) = disk[FileOf(p)]
  BY PlacesAreFiles DEF DataInv, FileOf, FileAt
<1>2. IsFile(FileAt(p))
  BY <1>1, EachIsFile DEF DataInv
<1>3. Stored(p, k) = ValuesIn(FileAt(p), k)
  BY DEF Stored, ValuesIn
<1>4. /\ \A v \in ValuesIn(FileAt(p), k) : SearchValueByKey(FileAt(p), k) = v
      /\ ValuesIn(FileAt(p), k) = {} => SearchValueByKey(FileAt(p), k) = INVALID_VALUE
  BY <1>2, SearchSST
<1>5. \A v \in ValuesIn(FileAt(p), k) : v # INVALID_VALUE
  <2>1. k \notin Blanked
    BY DEF Blanked
  <2> QED
    BY <1>2, <2>1, FileHolds, KeysAreNumbers
<1>6. p \in Holders(k) <=> SearchValueByKey(FileAt(p), k) # INVALID_VALUE
  BY DEF Holders
<1> QED
  BY <1>3, <1>4, <1>5, <1>6

\* A lookup visits the places one after the other.
LEMMA VisitsEach ==
  IndInv => \A p, q \in Places : p = q \/ VisitedBefore(p, q) \/ VisitedBefore(q, p)
<1> SUFFICES ASSUME IndInv, NEW p \in Places, NEW q \in Places
             PROVE  p = q \/ VisitedBefore(p, q) \/ VisitedBefore(q, p)
  OBVIOUS
<1>1. PICK f, g \in Nat : p = PlaceOf(f) /\ q = PlaceOf(g)
  BY PlacesAreFiles
<1>2. PICK a, b, c, d \in Int : p = <<a, b>> /\ q = <<c, d>>
  BY <1>1 DEF PlaceOf
<1> QED
  BY <1>2 DEF VisitedBefore

\* Between calls the first SST that answers a lookup has the newest entry.
LEMMA FirstVisited ==
  ASSUME ~ReuseDeleted, DataInv, pc = "idle", NEW k \in Keys
  PROVE  FindValueInSSTs(k) = NewestOnDisk(k)
<1> DEFINE V == HeldFor(k)
<1>1. k \in Keys \ Blanked /\ DiskAnswers
  BY DiskAnswersHolds DEF Blanked
<1>2. CASE Bare(V)
  <2>1. \A p \in Places : Stored(p, k) = {}
    BY <1>2, StoredIsHeld DEF Bare
  <2>2. Holders(k) = {}
    BY <2>1, HoldersStore DEF Holders
  <2> QED
    BY <1>1, <1>2, <2>2 DEF DiskAnswers, FindValueInSSTs
<1>3. CASE ~Bare(V)
  <2>1. PICK v : Shows(V, v)
    BY <1>1, <1>3 DEF DiskAnswers
  <2>2. PICK f \in DOMAIN disk : NewestAt(V, f) /\ V[f] = {v}
    BY <2>1 DEF Shows, HeldFor
  <2> DEFINE newest == PlaceOf(f)
             First(p) == \A q \in Holders(k) : p = q \/ VisitedBefore(p, q)
             first == CHOOSE p \in Holders(k) : First(p)
  <2>3. newest \in Places /\ FileOf(newest) = f
        /\ \A q \in Places : NewerThan(q, newest) => Stored(q, k) = {}
    BY <2>2, NewestPlace
  <2>4. Stored(newest, k) = {v}
    BY <2>2, <2>3, StoredIsHeld
  <2>5. newest \in Holders(k) /\ SearchValueByKey(FileAt(newest), k) = v
    BY <2>3, <2>4, HoldersStore
  <2> HIDE DEF newest
  <2>6. ASSUME NEW q \in Holders(k) PROVE ~VisitedBefore(q, newest)
    <3>1. q \in Places /\ Stored(q, k) # {}
      BY HoldersStore DEF Holders
    <3> QED
      BY <2>3, <3>1, LookupOrder DEF VisitsNewestFirst, DataInv
  <2>7. ASSUME NEW q \in Holders(k) PROVE q = newest \/ VisitedBefore(newest, q)
    <3>1. q \in Places
      BY DEF Holders
    <3>2. newest = q \/ VisitedBefore(newest, q) \/ VisitedBefore(q, newest)
      BY <2>3, <3>1, VisitsEach DEF DataInv
    <3> QED
      BY <2>6, <3>2
  <2>8. first = newest
    <3>1. \A p \in Holders(k) : First(p) <=> p = newest
      BY <2>5, <2>6, <2>7
    <3> HIDE DEF First
    <3> QED
      BY <2>5, <3>1
  <2>9. FindValueInSSTs(k) = Shown(SearchValueByKey(FileAt(first), k))
    BY <2>5 DEF FindValueInSSTs
  <2> HIDE DEF first
  <2>10. NewestOnDisk(k) = Shown(v)
    BY <1>1, <2>1 DEF DiskAnswers
  <2> QED
    BY <2>5, <2>8, <2>9, <2>10
<1> QED
  BY <1>2, <1>3

\* Between calls get answers with the newest data for the key although it goes
\* through the SSTs of a level from the oldest to the newest and stops at the
\* first answer (kv_store.cpp:121-135).
THEOREM GetIsNewest == ASSUME ~ReuseDeleted PROVE Spec => []GetReturnsNewest
<1>1. ASSUME DataInv, pc = "idle", NEW k \in Keys PROVE Get(k) = Newest(k)
  <2>1. k \in DOMAIN memtable => memtable[k] # INVALID_VALUE
    BY <1>1, KeysAreNumbers DEF DataInv, IndInv, TypeOK
  <2>2. FindValueInSSTs(k) = NewestOnDisk(k)
    BY <1>1, FirstVisited
  <2> QED
    BY <2>1, <2>2 DEF Get, Newest
<1>2. DataInv => GetReturnsNewest
  BY <1>1 DEF GetReturnsNewest
<1> QED
  BY DataInvariance, <1>2, PTL

\* The newest entry of a live key is among the pairs of a scan of its range.
LEMMA ScanFindsNewest ==
  ASSUME ~ReuseDeleted, DataInv, NEW k \in Keys, Newest(k) # INVALID_VALUE,
         NEW lo \in Keys, NEW hi \in Keys, lo <= k, k <= hi
  PROVE  \E pair \in ScanStore(lo, hi) : pair[1] = k /\ pair[2] = Newest(k)
<1>1. CASE k \in DOMAIN memtable
  <2>1. <<k, Shown(memtable[k]), <<0, 0>>>> \in ScanStore(lo, hi)
    BY <1>1 DEF ScanStore
  <2> QED
    BY <1>1, <2>1 DEF Newest
<1>2. CASE k \notin DOMAIN memtable
  <2> DEFINE V == HeldFor(k)
  <2>1. k \in Keys \ Blanked /\ DiskAnswers /\ Newest(k) = NewestOnDisk(k)
    BY <1>2, DiskAnswersHolds DEF Blanked, Newest
  <2>2. PICK v : Shows(V, v)
    BY <2>1 DEF DiskAnswers
  <2>3. PICK f \in DOMAIN disk : NewestAt(V, f) /\ V[f] = {v}
    BY <2>2 DEF Shows, HeldFor
  <2>4. NewestOnDisk(k) = Shown(v)
    BY <2>1, <2>2 DEF DiskAnswers
  <2> DEFINE p == PlaceOf(f)  found == Scan(FileAt(p), lo, hi)
  <2>5. p \in Places /\ FileOf(p) = f
    BY <2>3, NewestPlace
  <2>6. IsFile(FileAt(p)) /\ v \in ValuesIn(FileAt(p), k)
    BY <2>3, <2>5, EachIsFile DEF FileAt, FileOf, DataInv, HeldFor
  <2>7. PICK i \in DOMAIN found : found[i].key = k /\ found[i].value = v
    BY <2>6, ScanSST
  <2> HIDE DEF p
  <2>8. <<found[i].key, Shown(found[i].value), p>> \in ScanStore(lo, hi)
    BY <2>5 DEF ScanStore
  <2> HIDE DEF found
  <2> QED
    BY <2>1, <2>4, <2>7, <2>8
<1> QED
  BY <1>1, <1>2

\* Between calls scan leaves out no live key of its range, and its current
\* value is among the pairs it returns for it.
THEOREM ScanIsComplete == ASSUME ~ReuseDeleted PROVE Spec => []ScanComplete
<1>1. DataInv => ScanComplete
  BY ScanFindsNewest DEF ScanComplete
<1> QED
  BY DataInvariance, <1>1, PTL
=============================================================================
