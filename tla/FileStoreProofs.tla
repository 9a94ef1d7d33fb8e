-------------------------- MODULE FileStoreProofs --------------------------
(***************************************************************************)
(* What FileStore promises, for every value of the constants: its file     *)
(* operations come to the steps of KVStore, the watched page is never      *)
(* stale, and a crash in a call loses nothing that was durable.            *)
(*                                                                         *)
(* The proofs rest on those of KVStore: the state that AtomicLevels and    *)
(* AtomicDisk make of the files satisfies the inductive invariant DataInv  *)
(* of KVStore, of which A is the instance for that state.                  *)
(***************************************************************************)
EXTENDS FileStore, KVStoreProofs

\* The results about KVStore, for the store that the refinement makes of this one.
A == INSTANCE KVStoreProofs WITH
  levels        <- AtomicLevels,
  disk          <- AtomicDisk,
  pc            <- IF pc = "write" THEN "flush" ELSE pc,
  current_level <- IF MergeDone THEN current_level + 1 ELSE current_level

-----------------------------------------------------------------------------
(* The inductive invariant                                                 *)

\* What a crash leaves is in the order that KVStore knows if it is Settled; no
\* call starts in any other store.
InOrder == pc # "idle" \/ Settled

\* Every file is the only one its level may have at rest.  A .tmp file and the
\* second file of a level, which a crash may leave, are not.
Tidy == \A f \in DOMAIN disk : f \in Nat /\ f % 2 = 0

\* The older file of the level that is merged.
Older == 2 * current_level

\* The newer one.
Newer == 2 * current_level + 1

\* The stages of merge_ssts, and the time outside of it.
Stages == {"none", "fill", "copy", "index", "remove"}

\* A directory has finitely many files.
FilesBounded == \E b \in Nat : DOMAIN disk \subseteq -b .. b

\* The types of the variables; an output is being made in a compaction only.
FileTypeOK ==
  /\ disk = [f \in DOMAIN disk |-> disk[f]]
  /\ pc \in {"idle", "flush", "write", "compact"}
  /\ output \in [num : Nat, is_last : BOOLEAN, stage : Stages]
  /\ output.stage = "none" => output = NoOutput
  /\ output.stage # "none" => pc = "compact"

\* Between calls the levels are those of the last LoadedLevels, or a call has
\* kept them in step: they have every file, and are in order if the files are.
IdleOK ==
  pc = "idle" =>
    /\ current_level = 0
    /\ FilesIn(levels) = DOMAIN disk
    /\ Tidy => Settled

\* A flush that has created its file has yet to write it.
CreatedEmpty ==
  pc = "write" => SSTNumber \in DOMAIN disk /\ disk[SSTNumber] = EmptyFile

\* While an output is made, the levels are those that compact began with.
MergeOK ==
  output.stage # "none" =>
    /\ levels \in Seq(Seq(Nat)) /\ current_level \in Nat
    /\ current_level + 2 <= Len(levels)
    /\ ThisLevel = <<Older, Newer>>
    /\ output.num = (current_level + 1) * SIZE_RATIO + Len(levels[current_level + 2])
    /\ output.is_last => Len(levels) = current_level + 2 /\ levels[current_level + 2] = <<>>

\* Until the output is complete, the two files are there, it is empty, and the
\* .tmp file is what merge_ssts has made of it so far.
FillOK ==
  output.stage \in {"fill", "copy", "index"} =>
    /\ Older \in DOMAIN disk /\ Newer \in DOMAIN disk
    /\ output.num \in DOMAIN disk /\ disk[output.num] = EmptyFile
    /\ Temp(output.num) \in DOMAIN disk <=> output.stage # "index"
    /\ output.stage = "copy" => disk[Temp(output.num)] = TempFile(MergedRun)
    /\ output.stage = "fill" => disk[Temp(output.num)] = EmptyFile

\* Once it is complete, the output stands for the files it was made from, as
\* long as one of them is there: it is newer than all others, and has what the
\* newer of the two has for a key or else what the older one has.
RemoveOK ==
  output.stage = "remove" =>
    /\ Newer \in DOMAIN disk /\ output.num \in DOMAIN disk
    /\ \A f \in {Older, Newer} \cap DOMAIN disk : IsFile(disk[f])
    /\ \A f \in DOMAIN disk \ {Older, Newer, output.num} : NewerFile(output.num, f)
    /\ ~ReuseDeleted =>
        \A k \in Keys :
           IF ValuesIn(disk[Newer], k) # {}
           THEN ValuesIn(disk[output.num], k) = ValuesIn(disk[Newer], k)
           ELSE Older \in DOMAIN disk => ValuesIn(disk[output.num], k) = ValuesIn(disk[Older], k)

\* Unless it was read from an empty file, the watched page is a page of a file
\* that is there.  In a merge it is of none of the files that go.
CacheOK ==
  cached # NoPage /\ ~ReadEmpty =>
    /\ cached.file \in DOMAIN disk
    /\ cached.offset \in Pages(disk[cached.file])
    /\ cached.page = PageOf(disk[cached.file], cached.offset)
    /\ output.stage # "none" => cached.file \notin {Older, Newer, Temp(output.num)}

\* Under the contract of the client (MayWrite of KVStore) what is durable is what
\* KVStore finds in its files.
DurableOK ==
  ~ReuseDeleted /\ InOrder => \A k \in Keys : durable[k] = A!NewestOnDisk(k)

\* What each step keeps of the files without looking at what they hold.
StepsOK ==
  /\ FilesBounded /\ FileTypeOK /\ IdleOK /\ CreatedEmpty
  /\ MergeOK /\ FillOK /\ RemoveOK /\ CacheOK

\* The inductive invariant: the above, the one of KVStore for the state that the
\* refinement makes of this one, and what is durable.
FileInv == StepsOK /\ (InOrder => A!DataInv) /\ DurableOK

-----------------------------------------------------------------------------
(* The instances of KVStore have the operators of KVStore                  *)

\* Of A: what writes, reads and merges files.
LEMMA SameFiles ==
  /\ \A run : A!BuildFile(run) = BuildFile(run)
  /\ \A file : A!RunOf(file) = RunOf(file)
  /\ \A m : A!SortedRun(m) = SortedRun(m)
  /\ \A old, new, last : A!MergeRuns(old, new, last) = MergeRuns(old, new, last)
  /\ \A old, new, last : A!MergeSSTs(old, new, last) = MergeSSTs(old, new, last)
<1>1. \A run : A!BuildFile(run) = BuildFile(run)
  BY ZenonT(90) DEF A!BuildFile, A!NodesOf, A!Rounds, A!LeafNodes, A!ParentNodes, A!GetTotalNumberOfNodes,
         A!CeilDiv, A!Chunk, A!Smaller, A!LastOf, A!Fanout,
         BuildFile, NodesOf, Rounds, LeafNodes, ParentNodes, GetTotalNumberOfNodes,
         CeilDiv, Chunk, Smaller, LastOf, Fanout, A!Cardinality, Cardinality
<1>2. \A file : A!RunOf(file) = RunOf(file)
  BY DEF A!RunOf, A!EmptyFile, RunOf, EmptyFile, A!Cardinality, Cardinality
<1>3. \A m : A!SortedRun(m) = SortedRun(m)
  BY DEF A!SortedRun, SortedRun, A!Cardinality, Cardinality
<1>4. \A old, new, last : A!MergeRuns(old, new, last) = MergeRuns(old, new, last)
  BY DEF A!MergeRuns, A!EntryAt, A!InvalidEntry, A!MergedEntry, A!DropsPair, A!BlankEntry,
         A!TakesNew, A!TakesOld,
         MergeRuns, EntryAt, InvalidEntry, MergedEntry, DropsPair, BlankEntry, TakesNew, TakesOld
<1>5. \A old, new, last : A!MergeSSTs(old, new, last) = MergeSSTs(old, new, last)
  BY <1>1, <1>2, <1>4 DEF A!MergeSSTs, MergeSSTs
<1> QED
  BY <1>1, <1>2, <1>3, <1>4, <1>5

\* Of Atomic, the refinement: the same.
LEMMA AtomicFiles ==
  /\ \A run : Atomic!BuildFile(run) = BuildFile(run)
  /\ \A file : Atomic!RunOf(file) = RunOf(file)
  /\ \A m : Atomic!SortedRun(m) = SortedRun(m)
  /\ \A old, new, last : Atomic!MergeRuns(old, new, last) = MergeRuns(old, new, last)
  /\ \A old, new, last : Atomic!MergeSSTs(old, new, last) = MergeSSTs(old, new, last)
<1>1. \A run : Atomic!BuildFile(run) = BuildFile(run)
  BY ZenonT(90) DEF Atomic!BuildFile, Atomic!NodesOf, Atomic!Rounds, Atomic!LeafNodes, Atomic!ParentNodes, Atomic!GetTotalNumberOfNodes,
         Atomic!CeilDiv, Atomic!Chunk, Atomic!Smaller, Atomic!LastOf, Atomic!Fanout,
         BuildFile, NodesOf, Rounds, LeafNodes, ParentNodes, GetTotalNumberOfNodes,
         CeilDiv, Chunk, Smaller, LastOf, Fanout, Atomic!Cardinality, Cardinality
<1>2. \A file : Atomic!RunOf(file) = RunOf(file)
  BY DEF Atomic!RunOf, Atomic!EmptyFile, RunOf, EmptyFile, Atomic!Cardinality, Cardinality
<1>3. \A m : Atomic!SortedRun(m) = SortedRun(m)
  BY DEF Atomic!SortedRun, SortedRun, Atomic!Cardinality, Cardinality
<1>4. \A old, new, last : Atomic!MergeRuns(old, new, last) = MergeRuns(old, new, last)
  BY DEF Atomic!MergeRuns, Atomic!EntryAt, Atomic!InvalidEntry, Atomic!MergedEntry, Atomic!DropsPair, Atomic!BlankEntry,
         Atomic!TakesNew, Atomic!TakesOld,
         MergeRuns, EntryAt, InvalidEntry, MergedEntry, DropsPair, BlankEntry, TakesNew, TakesOld
<1>5. \A old, new, last : Atomic!MergeSSTs(old, new, last) = MergeSSTs(old, new, last)
  BY <1>1, <1>2, <1>4 DEF Atomic!MergeSSTs, MergeSSTs
<1> QED
  BY <1>1, <1>2, <1>3, <1>4, <1>5

\* Of A and of the refinement: the search in a file.
LEMMA SameSearch ==
  /\ \A file, key : A!SearchValueByKey(file, key) = SearchValueByKey(file, key)
  /\ \A file, key : Atomic!SearchValueByKey(file, key) = SearchValueByKey(file, key)
<1>1. \A file, key : A!SearchValueByKey(file, key) = SearchValueByKey(file, key)
  BY DEF A!SearchValueByKey, A!LeafFor, A!LeafValue, A!ChildFor, A!SearchRanges, A!MidOf, A!NoChild,
         A!EmptyFile,
         SearchValueByKey, LeafFor, LeafValue, ChildFor, SearchRanges, MidOf, NoChild, EmptyFile
<1>2. \A file, key : Atomic!SearchValueByKey(file, key) = SearchValueByKey(file, key)
  BY DEF Atomic!SearchValueByKey, Atomic!LeafFor, Atomic!LeafValue, Atomic!ChildFor,
         Atomic!SearchRanges, Atomic!MidOf, Atomic!NoChild, Atomic!EmptyFile,
         SearchValueByKey, LeafFor, LeafValue, ChildFor, SearchRanges, MidOf, NoChild, EmptyFile
<1> QED
  BY <1>1, <1>2

\* The steps of the refinement are steps of the store that the results are about.
LEMMA SameCompact == Atomic!CompactLevel => A!CompactLevel
<1>1. Atomic!NeedsCompaction <=> A!NeedsCompaction
  BY DEF Atomic!NeedsCompaction, A!NeedsCompaction, Atomic!SIZE_RATIO, A!SIZE_RATIO
<1> QED
  BY <1>1, SameFiles, AtomicFiles DEF Atomic!CompactLevel, A!CompactLevel, Atomic!AddNewLevel, A!AddNewLevel,
     Atomic!Assign, A!Assign, Atomic!SIZE_RATIO, A!SIZE_RATIO, Atomic!IsLastLevel, A!IsLastLevel

\* The same of a flush.
LEMMA SameFlush == Atomic!Flush => A!Flush
  BY SameFiles, AtomicFiles DEF Atomic!Flush, A!Flush, Atomic!AddNewLevel, A!AddNewLevel, Atomic!SSTNumber, A!SSTNumber,
     Atomic!Assign, A!Assign, Atomic!EmptyMap, A!EmptyMap

\* So are all of its steps.
LEMMA SameNext == [Atomic!Next]_(Atomic!vars) => [A!Next]_(A!vars)
<1>1. ASSUME NEW k \in Keys, NEW v \in Values PROVE Atomic!Put(k, v) => A!Put(k, v)
  BY SameSearch DEF Atomic!Put, A!Put, Atomic!MayWrite, A!MayWrite, Atomic!TreeHasRoom, A!TreeHasRoom,
     Atomic!Assign, A!Assign, Atomic!IsFull, A!IsFull
<1>2. ASSUME NEW k \in Keys PROVE Atomic!Delete(k) => A!Delete(k)
  BY SameSearch DEF Atomic!Delete, A!Delete, Atomic!MayWrite, A!MayWrite, Atomic!TreeHasRoom, A!TreeHasRoom,
     Atomic!Assign, A!Assign
<1>3. Atomic!Close => A!Close
  BY DEF Atomic!Close, A!Close, Atomic!TreeHasRoom, A!TreeHasRoom
<1>4. Atomic!Flush => A!Flush
  BY SameFlush
<1>5. Atomic!NeedsCompaction <=> A!NeedsCompaction
  BY DEF Atomic!NeedsCompaction, A!NeedsCompaction, Atomic!SIZE_RATIO, A!SIZE_RATIO
<1>6. Atomic!CompactLevel => A!CompactLevel
  BY SameCompact
<1>7. Atomic!StopCompaction => A!StopCompaction
  BY <1>5 DEF Atomic!StopCompaction, A!StopCompaction
<1>8. Atomic!Restart => A!Restart
  BY DEF Atomic!Restart, A!Restart, Atomic!LoadedLevels, A!LoadedLevels,
     Atomic!LevelOf, A!LevelOf, Atomic!FilesOf, A!FilesOf, Atomic!Listings, A!Listings,
     Atomic!SIZE_RATIO, A!SIZE_RATIO, Atomic!Cardinality, A!Cardinality, Atomic!EmptyMap, A!EmptyMap
<1>9. Atomic!vars = A!vars /\ (Atomic!vars)' = (A!vars)'
  BY DEF Atomic!vars, A!vars
<1> QED
  BY <1>1, <1>2, <1>3, <1>4, <1>6, <1>7, <1>8, <1>9 DEF Atomic!Next, A!Next

-----------------------------------------------------------------------------
(* The levels that the files of a directory are loaded into                *)

\* Every file belongs to a level, and there is a deepest one.
LEMMA DeepestLevel ==
  ASSUME NEW b \in Nat, DOMAIN disk \subseteq -b .. b, DOMAIN disk # {}
  PROVE  LET top == CHOOSE l \in {LevelOf(f) : f \in DOMAIN disk} :
                      \A f \in DOMAIN disk : LevelOf(f) <= l
         IN  /\ top \in Nat
             /\ \E f \in DOMAIN disk : LevelOf(f) = top
             /\ \A f \in DOMAIN disk : LevelOf(f) \in 0 .. top
<1> DEFINE L == {LevelOf(f) : f \in DOMAIN disk}
           top == CHOOSE l \in L : \A f \in DOMAIN disk : LevelOf(f) <= l
<1>1. ASSUME NEW f \in DOMAIN disk PROVE LevelOf(f) \in 0 .. b
  <2>1. f \in -b .. b
    OBVIOUS
  <2>2. CASE f < 0
    BY <2>2 DEF LevelOf
  <2>3. CASE f >= 0
    <3>1. f \div 2 \in 0 .. b
      BY <2>1, <2>3
    <3> QED
      BY <2>1, <2>3, <3>1 DEF LevelOf, SIZE_RATIO
  <2> QED
    BY <2>1, <2>2, <2>3
<1>2. L \subseteq 0 .. b /\ L # {}
  BY <1>1
<1>3. \E l \in L : \A m \in L : m <= l
  <2> HIDE DEF L
  <2> DEFINE T == {b - l : l \in L}
  <2>1. T \subseteq Nat /\ T # {}
    <3>1. \A l \in L : l \in Nat /\ l <= b
      BY <1>2
    <3>2. \A l \in L : b - l \in Nat
      BY <3>1
    <3> QED
      BY <1>2, <3>2
  <2> HIDE DEF T
  <2>2. PICK x \in T : \A y \in T : x <= y
    BY <2>1, SmallestElement
  <2>3. PICK l \in L : x = b - l
    BY <2>2 DEF T
  <2>4. ASSUME NEW m \in L PROVE m <= l
    <3>1. b - m \in T
      BY <2>4 DEF T
    <3>2. b - l <= b - m
      BY <2>2, <2>3, <3>1
    <3>3. l \in 0 .. b /\ m \in 0 .. b
      BY <1>2, <2>3, <2>4
    <3> QED
      BY <3>2, <3>3
  <2> QED
    BY <2>4
<1>4. \A m \in L : \E f \in DOMAIN disk : m = LevelOf(f)
  OBVIOUS
<1>5. \A f \in DOMAIN disk : LevelOf(f) \in L
  OBVIOUS
<1> HIDE DEF L
<1>6. top \in L /\ \A f \in DOMAIN disk : LevelOf(f) <= top
  BY <1>3, <1>5
<1> HIDE DEF top
<1>7. /\ top \in Nat
      /\ \E f \in DOMAIN disk : LevelOf(f) = top
      /\ \A f \in DOMAIN disk : LevelOf(f) \in 0 .. top
  BY <1>1, <1>2, <1>4, <1>6
<1> QED
  BY <1>7 DEF top, L

\* A listing of a finite set has each element at one place.
LEMMA ListingHas ==
  ASSUME NEW S, IsFiniteSet(S), NEW s \in Listings(S)
  PROVE  /\ s \in Seq(S) /\ Len(s) = Cardinality(S)
         /\ \A i, j \in DOMAIN s : s[i] = s[j] => i = j
         /\ \A x \in S : \E i \in DOMAIN s : s[i] = x
         /\ \A i \in DOMAIN s : s[i] \in S
<1> DEFINE n == Cardinality(S)
<1>1. n \in Nat
  BY FS_CardinalityType
<1>2. s \in [1 .. n -> S] /\ \A i, j \in 1 .. n : s[i] = s[j] => i = j
  BY DEF Listings
<1>3. Cardinality(1 .. n) = n
  BY <1>1, FS_Interval
<1> HIDE DEF n
<1>4. s \in Injection(1 .. n, S)
  BY <1>2 DEF Injection, IsInjective
<1>5. s \in Surjection(1 .. n, S)
  BY <1>3, <1>4, FS_Injection DEF n
<1>6. \A x \in S : \E i \in 1 .. n : s[i] = x
  BY <1>5 DEF Surjection
<1>7. s \in Seq(S) /\ Len(s) = n /\ DOMAIN s = 1 .. n
  BY <1>1, <1>2
<1> QED
  BY <1>2, <1>6, <1>7 DEF n

\* What a directory is loaded into: every file at one place of its level.
Loaded(ls) ==
  /\ ls = [i \in DOMAIN ls |-> ls[i]]
  /\ Len(ls) \in Nat /\ DOMAIN ls = 1 .. Len(ls)
  /\ \A i \in DOMAIN ls : ls[i] \in Listings(FilesOf(i - 1)) /\ IsFiniteSet(FilesOf(i - 1))
  /\ \A f \in DOMAIN disk : LevelOf(f) \in Nat /\ LevelOf(f) + 1 \in DOMAIN ls
  /\ Len(ls) > 0 => \E f \in DOMAIN disk : LevelOf(f) + 1 = Len(ls)

\* LoadedLevels are such levels.
LEMMA LoadedLevel ==
  ASSUME FilesBounded, NEW ls \in LoadedLevels
  PROVE  Loaded(ls)
<1>1. PICK b \in Nat : DOMAIN disk \subseteq -b .. b
  BY DEF FilesBounded
<1>2. \A l : IsFiniteSet(FilesOf(l))
  <2>1. IsFiniteSet(-b .. b)
    BY FS_Interval
  <2> QED
    BY <1>1, <2>1, FS_Subset DEF FilesOf
<1>3. CASE DOMAIN disk = {}
  <2>1. ls = <<>>
    BY <1>3 DEF LoadedLevels
  <2> QED
    BY <1>3, <2>1 DEF Loaded
<1>4. CASE DOMAIN disk # {}
  <2> DEFINE top == CHOOSE l \in {LevelOf(f) : f \in DOMAIN disk} :
                      \A f \in DOMAIN disk : LevelOf(f) <= l
  <2>1. /\ top \in Nat
        /\ \E f \in DOMAIN disk : LevelOf(f) = top
        /\ \A f \in DOMAIN disk : LevelOf(f) \in 0 .. top
    BY <1>1, <1>4, DeepestLevel
  <2>2. /\ ls \in [1 .. top + 1 -> UNION {Listings(FilesOf(l)) : l \in 0 .. top}]
        /\ \A i \in 1 .. top + 1 : ls[i] \in Listings(FilesOf(i - 1))
    BY <1>4 DEF LoadedLevels
  <2> HIDE DEF top
  <2>3. DOMAIN ls = 1 .. top + 1 /\ Len(ls) = top + 1 /\ ls = [i \in DOMAIN ls |-> ls[i]]
    BY <2>1, <2>2
  <2> QED
    BY <1>2, <2>1, <2>2, <2>3 DEF Loaded
<1> QED
  BY <1>3, <1>4

\* The files in the levels are the files of the directory.
LEMMA LoadedFiles ==
  ASSUME NEW ls, Loaded(ls)
  PROVE  FilesIn(ls) = DOMAIN disk
<1>1. ASSUME NEW i \in DOMAIN ls, NEW j \in DOMAIN ls[i] PROVE ls[i][j] \in DOMAIN disk
  <2>1. ls[i][j] \in FilesOf(i - 1)
    BY ListingHas DEF Loaded
  <2> QED
    BY <2>1 DEF FilesOf
<1>2. ASSUME NEW f \in DOMAIN disk PROVE \E i \in DOMAIN ls : \E j \in DOMAIN ls[i] : f = ls[i][j]
  <2> DEFINE i == LevelOf(f) + 1
  <2>1. i \in DOMAIN ls /\ f \in FilesOf(i - 1)
    BY DEF Loaded, FilesOf
  <2>2. \E j \in DOMAIN ls[i] : ls[i][j] = f
    BY <2>1, ListingHas DEF Loaded
  <2> QED
    BY <2>1, <2>2
<1>3. \A f : f \in FilesIn(ls) <=> f \in DOMAIN disk
  BY <1>1, <1>2, FilesInTree
<1> QED
  BY <1>3

-----------------------------------------------------------------------------
(* Opening a directory whose files have even numbers                       *)

\* Its files in order of age, and what they hold: what DataInv says of disk.
DirectoryOK ==
  /\ disk = [f \in DOMAIN disk |-> disk[f]]
  /\ FilesAreSSTs
  /\ ~ReuseDeleted => \A k \in Keys : \A f \in DOMAIN disk :
                        TOMB_STONE \in HeldFor(k)[f] => NewestAt(HeldFor(k), f)

\* There is one file in a level at most, the one that a flush or a compaction
\* writes first.
LEMMA TidyLevels ==
  ASSUME Tidy, NEW ls, Loaded(ls)
  PROVE  /\ ls \in Seq(Seq(Nat))
         /\ Numbered(ls)
         /\ \A i \in DOMAIN ls : Len(ls[i]) <= 1
         /\ Len(ls) > 0 => ls[Len(ls)] # <<>>
<1>1. ASSUME NEW f \in DOMAIN disk PROVE f \in Nat /\ LevelOf(f) \in Nat /\ f = 2 * LevelOf(f)
  <2>1. f \in Nat /\ f % 2 = 0
    BY DEF Tidy
  <2>2. LevelOf(f) = f \div 2
    BY <2>1 DEF LevelOf, SIZE_RATIO
  <2> QED
    BY <2>1, <2>2
<1>2. ASSUME NEW i \in DOMAIN ls
      PROVE  FilesOf(i - 1) = {} \/ FilesOf(i - 1) = {(i - 1) * 2}
  <2>1. i \in Nat
    BY DEF Loaded
  <2>2. \A f \in FilesOf(i - 1) : f = (i - 1) * 2
    BY <1>1, <2>1 DEF FilesOf
  <2> QED
    BY <2>2
<1>3. ASSUME NEW i \in DOMAIN ls
      PROVE  ls[i] = <<>> \/ ls[i] = <<(i - 1) * 2>>
  <2>1. ls[i] \in Listings(FilesOf(i - 1))
    BY DEF Loaded
  <2> QED
    BY <1>2, <2>1, ListingOfNone, ListingOfOne
<1>4. ASSUME NEW i \in DOMAIN ls
      PROVE  /\ ls[i] \in Seq(Nat) /\ Len(ls[i]) <= 1
             /\ \A j \in DOMAIN ls[i] : ls[i][j] = (i - 1) * SIZE_RATIO + (j - 1)
  <2>1. i \in Nat /\ (i - 1) * 2 \in Nat
    BY DEF Loaded
  <2>2. CASE ls[i] = <<>>
    <3>1. <<>> \in Seq(Nat) /\ Len(<<>>) = 0 /\ DOMAIN <<>> = {}
      OBVIOUS
    <3> QED
      BY <2>2, <3>1
  <2>3. CASE ls[i] = <<(i - 1) * 2>>
    <3> DEFINE x == (i - 1) * 2
    <3>1. x \in Nat
      BY <2>1
    <3> HIDE DEF x
    <3>2. <<x>> \in Seq(Nat) /\ Len(<<x>>) = 1 /\ DOMAIN <<x>> = {1} /\ <<x>>[1] = x
      BY <3>1
    <3>3. x = (i - 1) * SIZE_RATIO + (1 - 1)
      BY <2>1 DEF x, SIZE_RATIO
    <3> QED
      BY <2>3, <3>2, <3>3 DEF x
  <2> QED
    BY <1>3, <2>2, <2>3
<1>5. ls \in Seq(Seq(Nat))
  <2> DEFINE n == Len(ls)
  <2>1. n \in Nat /\ DOMAIN ls = 1 .. n /\ ls = [i \in 1 .. n |-> ls[i]]
    BY DEF Loaded
  <2> HIDE DEF n
  <2>2. ls \in [1 .. n -> Seq(Nat)]
    BY <1>4, <2>1
  <2> QED
    BY <2>1, <2>2
<1>6. ASSUME Len(ls) > 0 PROVE ls[Len(ls)] # <<>>
  <2>1. PICK f \in DOMAIN disk : LevelOf(f) + 1 = Len(ls)
    BY <1>6 DEF Loaded
  <2>2. Len(ls) \in DOMAIN ls
    BY <1>6 DEF Loaded
  <2>3. f \in FilesOf(Len(ls) - 1)
    BY <1>1, <2>1 DEF FilesOf
  <2>4. \E j \in DOMAIN ls[Len(ls)] : ls[Len(ls)][j] = f
    BY <2>2, <2>3, ListingHas DEF Loaded
  <2> QED
    BY <2>4
<1> QED
  BY <1>4, <1>5, <1>6 DEF Numbered

\* A restart on such a directory starts from a state in which DataInv holds,
\* whatever the process was doing when it ended.
LEMMA Reopened ==
  ASSUME Tidy, DirectoryOK, disk' = disk, Loaded(levels'), memtable' = EmptyMap,
         current_memtable_entries' = 0, pc' = "idle", current_level' = 0
  PROVE  DataInv' /\ Settled'
<1>1. /\ levels' \in Seq(Seq(Nat)) /\ Numbered(levels')
      /\ \A i \in DOMAIN levels' : Len(levels'[i]) <= 1
      /\ Len(levels') > 0 => levels'[Len(levels')] # <<>>
  <2> DEFINE ls == levels'
  <2>1. Loaded(ls)
    OBVIOUS
  <2> HIDE DEF ls
  <2>2. /\ ls \in Seq(Seq(Nat)) /\ Numbered(ls)
        /\ \A i \in DOMAIN ls : Len(ls[i]) <= 1
        /\ Len(ls) > 0 => ls[Len(ls)] # <<>>
    BY <2>1, TidyLevels
  <2> QED
    BY <2>2 DEF ls
<1>2. FilesIn(levels') = DOMAIN disk
  <2> DEFINE ls == levels'
  <2>1. Loaded(ls)
    OBVIOUS
  <2> HIDE DEF ls
  <2>2. FilesIn(ls) = DOMAIN disk
    BY <2>1, LoadedFiles
  <2> QED
    BY <2>2 DEF ls
<1>3. DOMAIN memtable' = {} /\ memtable' = [k \in DOMAIN memtable' |-> memtable'[k]]
  BY DEF EmptyMap
<1>4. TypeOK'
  BY <1>1, <1>3, KVStoreAssumption DEF TypeOK, Tidy, DirectoryOK
<1>5. TreeShape'
  BY <1>1, <1>2 DEF TreeShape
<1>6. CountBelowSize' /\ LoopLeavesEmpty'
  BY KVStoreAssumption DEF CountBelowSize, LoopLeavesEmpty
<1>7. FilesAreSSTs' /\ TombstonesAreNewest' /\ FlushHasEntries'
  <2>1. \A k : HeldFor(k)' = HeldFor(k)
    BY DEF HeldFor
  <2> QED
    BY <1>3, <2>1 DEF DirectoryOK, FilesAreSSTs, TombstonesAreNewest, FlushHasEntries
<1>8. Settled'
  BY <1>1 DEF Settled
<1> QED
  BY <1>4, <1>5, <1>6, <1>7, <1>8 DEF DataInv, IndInv

-----------------------------------------------------------------------------
(* The state as KVStore has it                                             *)

\* The operators of the invariant are the same in the instance.
LEMMA SameInvariant ==
  /\ \A file : A!IsSST(file) <=> IsSST(file)
  /\ \A file, k : A!ValuesIn(file, k) = ValuesIn(file, k)
  /\ \A f, g : A!NewerFile(f, g) <=> NewerFile(f, g)
  /\ \A V, f : A!NewestAt(V, f) <=> NewestAt(V, f)
  /\ \A V, v : A!Shows(V, v) <=> Shows(V, v)
  /\ \A V : A!Bare(V) <=> Bare(V)
  /\ \A v : A!Shown(v) = Shown(v)
  /\ \A ls : A!Numbered(ls) <=> Numbered(ls)
  /\ \A ls : A!FilesIn(ls) = FilesIn(ls)
  /\ A!Blanked = Blanked /\ A!EmptyFile = EmptyFile /\ A!SIZE_RATIO = SIZE_RATIO
<1>1. A!Blanked = Blanked /\ A!EmptyFile = EmptyFile /\ A!SIZE_RATIO = SIZE_RATIO
  BY DEF A!Blanked, Blanked, A!EmptyFile, EmptyFile, A!SIZE_RATIO, SIZE_RATIO
<1>2. \A run : A!RunOK(run) <=> RunOK(run)
  BY DEF A!RunOK, RunOK, A!Entry, Entry, A!Live, Live, A!SortedApart, SortedApart, A!Blanked, Blanked,
         A!Contents, Contents, A!Written, Written
<1>3. \A file : A!IsSST(file) <=> IsSST(file)
  BY <1>2, SameFiles DEF A!IsSST, IsSST
<1>4. \A file, k : A!ValuesIn(file, k) = ValuesIn(file, k)
  BY DEF A!ValuesIn, ValuesIn, A!LeafEntries, LeafEntries
<1>5. \A f, g : A!NewerFile(f, g) <=> NewerFile(f, g)
  BY DEF A!NewerFile, NewerFile
<1>6. \A V, f : A!NewestAt(V, f) <=> NewestAt(V, f)
  BY DEF A!NewestAt, NewestAt, A!NewerFile, NewerFile
<1>7. \A V, v : A!Shows(V, v) <=> Shows(V, v)
  BY <1>6 DEF A!Shows, Shows
<1>8. \A V : A!Bare(V) <=> Bare(V)
  BY DEF A!Bare, Bare
<1>9. \A v : A!Shown(v) = Shown(v)
  BY DEF A!Shown, Shown
<1>10. \A ls : A!Numbered(ls) <=> Numbered(ls)
  BY DEF A!Numbered, Numbered, A!SIZE_RATIO, SIZE_RATIO
<1>11. \A ls : A!FilesIn(ls) = FilesIn(ls)
  BY DEF A!FilesIn, FilesIn
<1> QED
  BY <1>1, <1>3, <1>4, <1>5, <1>6, <1>7, <1>8, <1>9, <1>10, <1>11

\* Where KVStore takes the program to be.
AtomicPc == IF pc = "write" THEN "flush" ELSE pc

\* The level that KVStore takes to be next.
AtomicLevel == IF MergeDone THEN current_level + 1 ELSE current_level

\* What each file has for k.
AtomicHeld(k) == [f \in DOMAIN AtomicDisk |-> ValuesIn(AtomicDisk[f], k)]

\* What DataInv says of the state as KVStore has it: of the memtable, of the
\* tree and of the files.
AtomicMemtable ==
  /\ DOMAIN memtable \subseteq Keys
  /\ memtable \in [DOMAIN memtable -> Values \cup {TOMB_STONE}]
  /\ current_memtable_entries \in 0 .. memtable_size
  /\ AtomicPc # "flush" => current_memtable_entries < memtable_size
  /\ AtomicPc = "flush" => DOMAIN memtable # {}
  /\ AtomicPc \in {"idle", "flush", "compact"}

\* The tree: numbered, with two files in the level that is next at most.
AtomicTree ==
  /\ AtomicLevel \in Nat
  /\ AtomicLevels \in Seq(Seq(Nat))
  /\ Numbered(AtomicLevels)
  /\ \A i \in DOMAIN AtomicLevels :
       Len(AtomicLevels[i]) <= IF AtomicPc = "compact" /\ i = AtomicLevel + 1 THEN SIZE_RATIO ELSE 1
  /\ Len(AtomicLevels) > 0 => AtomicLevels[Len(AtomicLevels)] # <<>>
  /\ IF AtomicPc = "compact"
     THEN /\ AtomicLevel < Len(AtomicLevels)
          /\ \A i \in 1 .. AtomicLevel : AtomicLevels[i] = <<>>
     ELSE AtomicLevel = 0

\* The files: those of the tree, each an SST; a tombstone is the newest there is of
\* its key.
AtomicFilesOK ==
  /\ AtomicDisk = [f \in DOMAIN AtomicDisk |-> AtomicDisk[f]]
  /\ DOMAIN AtomicDisk \subseteq Nat
  /\ DOMAIN AtomicDisk = FilesIn(AtomicLevels)
  /\ \A f \in DOMAIN AtomicDisk : IsSST(AtomicDisk[f]) \/ (f = 0 /\ AtomicDisk[f] = EmptyFile)
  /\ ~ReuseDeleted =>
       \A k \in Keys : \A f \in DOMAIN AtomicDisk :
         TOMB_STONE \in AtomicHeld(k)[f] => k \notin DOMAIN memtable /\ NewestAt(AtomicHeld(k), f)

\* Together they are DataInv.
LEMMA AtomicInv == A!DataInv <=> AtomicMemtable /\ AtomicTree /\ AtomicFilesOK
<1>1. \A k : A!HeldFor(k) = AtomicHeld(k)
  BY SameInvariant DEF A!HeldFor, AtomicHeld
<1>2. A!TypeOK <=>
        /\ DOMAIN memtable \subseteq Keys
        /\ memtable \in [DOMAIN memtable -> Values \cup {TOMB_STONE}]
        /\ current_memtable_entries \in 0 .. memtable_size
        /\ AtomicLevels \in Seq(Seq(Nat))
        /\ DOMAIN AtomicDisk \subseteq Nat
        /\ AtomicDisk = [f \in DOMAIN AtomicDisk |-> AtomicDisk[f]]
        /\ AtomicPc \in {"idle", "flush", "compact"}
        /\ AtomicLevel \in Nat
  BY DEF A!TypeOK, AtomicPc, AtomicLevel
<1>3. A!TreeShape <=>
        /\ Numbered(AtomicLevels)
        /\ DOMAIN AtomicDisk = FilesIn(AtomicLevels)
        /\ \A i \in DOMAIN AtomicLevels :
             Len(AtomicLevels[i]) <= IF AtomicPc = "compact" /\ i = AtomicLevel + 1 THEN SIZE_RATIO ELSE 1
        /\ Len(AtomicLevels) > 0 => AtomicLevels[Len(AtomicLevels)] # <<>>
  BY SameInvariant DEF A!TreeShape, AtomicPc, AtomicLevel
<1>4. /\ A!CountBelowSize <=> (AtomicPc # "flush" => current_memtable_entries < memtable_size)
      /\ A!FlushHasEntries <=> (AtomicPc = "flush" => DOMAIN memtable # {})
      /\ A!LoopLeavesEmpty <=> IF AtomicPc = "compact"
                               THEN /\ AtomicLevel < Len(AtomicLevels)
                                    /\ \A i \in 1 .. AtomicLevel : AtomicLevels[i] = <<>>
                               ELSE AtomicLevel = 0
  BY DEF A!CountBelowSize, A!FlushHasEntries, A!LoopLeavesEmpty, AtomicPc, AtomicLevel
<1>5. A!FilesAreSSTs <=>
        \A f \in DOMAIN AtomicDisk : IsSST(AtomicDisk[f]) \/ (f = 0 /\ AtomicDisk[f] = EmptyFile)
  BY SameInvariant DEF A!FilesAreSSTs
<1>6. A!TombstonesAreNewest <=>
        (~ReuseDeleted =>
           \A k \in Keys : \A f \in DOMAIN AtomicDisk :
             TOMB_STONE \in AtomicHeld(k)[f] => k \notin DOMAIN memtable /\ NewestAt(AtomicHeld(k), f))
  BY <1>1, SameInvariant DEF A!TombstonesAreNewest
<1> QED
  BY <1>2, <1>3, <1>4, <1>5, <1>6
     DEF A!DataInv, A!IndInv, AtomicMemtable, AtomicTree, AtomicFilesOK

\* No file is being written.
Resting == output = NoOutput /\ pc # "write" /\ disk = [f \in DOMAIN disk |-> disk[f]]

\* Then the store is as KVStore has it.
LEMMA AtRest ==
  Resting =>
    /\ AtomicLevels = levels /\ AtomicDisk = disk /\ ~MergeDone
    /\ AtomicPc = pc /\ AtomicLevel = current_level
  BY DEF Resting, NoOutput, AtomicLevels, AtomicDisk, MergeDone, AtomicPc, AtomicLevel

\* The same after a step.
LEMMA AtRestNext ==
  Resting' =>
    /\ AtomicLevels' = levels' /\ AtomicDisk' = disk' /\ ~MergeDone'
    /\ AtomicPc' = pc' /\ AtomicLevel' = current_level'
  BY DEF Resting, NoOutput, AtomicLevels, AtomicDisk, MergeDone, AtomicPc, AtomicLevel

\* A state in which nothing that KVStore sees has changed.
Quiet == UNCHANGED <<memtable, current_memtable_entries, AtomicLevels, AtomicDisk, AtomicPc, AtomicLevel>>

\* KVStore does not move then.
LEMMA AtomicStutter ==
  ASSUME Quiet
  PROVE  [Atomic!Next]_(Atomic!vars)
  BY DEF Quiet, Atomic!vars, AtomicPc, AtomicLevel

-----------------------------------------------------------------------------
(* Every step of the files is a step of the store, or none                 *)

\* A put, a remove or a close of the store at rest.
LEMMA ClientCallStep ==
  ASSUME Resting, ClientCall
  PROVE  Atomic!Next
<1>1. /\ AtomicLevels = levels /\ AtomicDisk = disk /\ ~MergeDone /\ pc = "idle"
      /\ UNCHANGED <<levels, disk, output, current_level>>
  BY AtRest DEF ClientCall, Put, Delete, Close
<1>2. Resting' /\ pc' # "write"
  BY <1>1 DEF ClientCall, Put, Delete, Close, Resting
<1>3. AtomicLevels' = levels' /\ AtomicDisk' = disk' /\ ~MergeDone'
  BY <1>2, AtRestNext
<1>4. TreeHasRoom <=> Atomic!TreeHasRoom
  BY <1>1 DEF TreeHasRoom, Atomic!TreeHasRoom
<1>5. ASSUME NEW k PROVE MayWrite(k) <=> Atomic!MayWrite(k)
  BY <1>1, SameSearch DEF MayWrite, Atomic!MayWrite
<1>6. ASSUME NEW k \in Keys, NEW v \in Values, Put(k, v) PROVE Atomic!Put(k, v)
  BY <1>1, <1>2, <1>3, <1>4, <1>5, <1>6
     DEF Put, Atomic!Put, Assign, Atomic!Assign, IsFull, Atomic!IsFull
<1>7. ASSUME NEW k \in Keys, Delete(k) PROVE Atomic!Delete(k)
  BY <1>1, <1>2, <1>3, <1>4, <1>5, <1>7 DEF Delete, Atomic!Delete, Assign, Atomic!Assign
<1>8. ASSUME Close PROVE Atomic!Close
  BY <1>1, <1>2, <1>3, <1>4, <1>8 DEF Close, Atomic!Close
<1> QED
  BY <1>6, <1>7, <1>8 DEF ClientCall, Atomic!Next

\* A crash between two calls is a restart.
LEMMA RestartStep ==
  ASSUME Resting, Crash, pc = "idle"
  PROVE  current_level = 0 => Atomic!Restart
<1>1. AtomicLevels = levels /\ AtomicDisk = disk /\ ~MergeDone
  BY AtRest
<1>2. Resting'
  BY DEF Crash, Resting
<1>3. AtomicLevels' = levels' /\ AtomicDisk' = disk' /\ ~MergeDone'
  BY <1>2, AtRestNext
<1>4. Atomic!LoadedLevels = LoadedLevels
  BY <1>1 DEF Atomic!LoadedLevels, LoadedLevels, Atomic!LevelOf, LevelOf, Atomic!FilesOf, FilesOf,
     Atomic!Listings, Listings, Atomic!SIZE_RATIO, SIZE_RATIO, Atomic!Cardinality, Cardinality
<1> QED
  BY <1>1, <1>2, <1>3, <1>4 DEF Crash, Atomic!Restart, Atomic!EmptyMap, EmptyMap

\* The end of the compaction loop.
LEMMA EndOfCallStep ==
  ASSUME Resting, EndOfCall
  PROVE  Atomic!Next
<1>1. AtomicLevels = levels /\ AtomicDisk = disk /\ ~MergeDone
  BY AtRest
<1>2. Resting'
  BY DEF EndOfCall, StopCompaction, Resting
<1>3. AtomicLevels' = levels' /\ AtomicDisk' = disk' /\ ~MergeDone'
  BY <1>2, AtRestNext
<1>4. Atomic!StopCompaction
  BY <1>1, <1>2, <1>3 DEF EndOfCall, StopCompaction, Atomic!StopCompaction, NeedsCompaction,
     Atomic!NeedsCompaction, SIZE_RATIO, Atomic!SIZE_RATIO
<1> QED
  BY <1>4 DEF Atomic!Next

\* A lookup changes the pool only.
LEMMA ReadPageStep ==
  ASSUME ReadPage \/ EvictPage
  PROVE  Quiet
  BY DEF Quiet, ReadPage, EvictPage, vars, AtomicLevels, AtomicDisk, AtomicPc, AtomicLevel, MergeDone, ThisLevel, SSTNumber

\* Between the calls and between two iterations no file is being written.
LEMMA NotWriting ==
  ASSUME FileInv, pc # "write", output.stage = "none"
  PROVE  Resting
  BY DEF FileInv, StepsOK, FileTypeOK, Resting

\* The constants are the same, and so is what is assumed of them.
LEMMA SameAssumptions == A!BTreeAssumption /\ A!KVStoreAssumption
  BY BTreeAssumption, KVStoreAssumption DEF A!BTreeAssumption, A!KVStoreAssumption

\* While a call is under way the invariant of the store holds.
LEMMA CallInvariant ==
  ASSUME FileInv, pc # "idle"
  PROVE  A!DataInv
  BY DEF FileInv, StepsOK, InOrder

\* Creating the file of a flush shows nothing: its number is free.
LEMMA CreateStep ==
  ASSUME FileInv, CreateSST
  PROVE  Quiet /\ SSTNumber \in {0, 1} \ DOMAIN disk
<1>1. pc = "flush" /\ pc' = "write" /\ disk' = Assign(disk, SSTNumber, EmptyFile)
      /\ UNCHANGED <<memtable, current_memtable_entries, levels, current_level, output>>
  BY DEF CreateSST
<1>2. output = NoOutput /\ output.stage = "none"
  BY <1>1 DEF FileInv, StepsOK, FileTypeOK, NoOutput
<1>3. AtomicLevels = levels /\ AtomicDisk = disk /\ ~MergeDone /\ AtomicLevel = current_level /\ AtomicPc = "flush"
  BY <1>1, <1>2, NotWriting, AtRest
<1>4. A!SSTNumber \in {0, 1} \ DOMAIN AtomicDisk
  <2>1. A!IndInv /\ AtomicPc = "flush"
    BY <1>1, <1>3, CallInvariant DEF A!DataInv
  <2> QED
    BY <2>1, A!FlushNumber, SameAssumptions DEF AtomicPc
<1>5. SSTNumber \in {0, 1} \ DOMAIN disk
  BY <1>3, <1>4 DEF A!SSTNumber, SSTNumber
<1>6. SSTNumber' = SSTNumber /\ ~MergeDone' /\ output'.stage = "none"
  BY <1>1, <1>2 DEF SSTNumber, MergeDone
<1>7. AtomicDisk' = disk
  <2>1. AtomicDisk' = [f \in DOMAIN disk' \ {SSTNumber} |-> disk'[f]]
    BY <1>1, <1>6 DEF AtomicDisk
  <2>2. disk = [f \in DOMAIN disk |-> disk[f]]
    BY DEF FileInv, StepsOK, FileTypeOK
  <2> QED
    BY <1>1, <1>5, <2>1, <2>2 DEF Assign
<1>8. AtomicLevels' = levels /\ AtomicPc' = "flush" /\ AtomicLevel' = current_level
  BY <1>1, <1>6 DEF AtomicLevels, AtomicPc, AtomicLevel
<1> QED
  BY <1>1, <1>3, <1>5, <1>7, <1>8 DEF Quiet

\* Writing it is the flush.
LEMMA WriteStep ==
  ASSUME FileInv, WriteSST
  PROVE  Atomic!Flush
<1> DEFINE file == BuildFile(SortedRun(memtable))
<1>1. /\ pc = "write" /\ pc' = "compact"
      /\ disk' = [disk EXCEPT ![SSTNumber] = file]
      /\ output' = output /\ current_level' = current_level
  BY DEF WriteSST
<1>2. output = NoOutput /\ output.stage = "none"
  BY <1>1 DEF FileInv, StepsOK, FileTypeOK, NoOutput
<1>3. AtomicLevels = levels /\ ~MergeDone /\ AtomicDisk = [f \in DOMAIN disk \ {SSTNumber} |-> disk[f]]
  BY <1>1, <1>2 DEF AtomicLevels, AtomicDisk, MergeDone
<1>4. disk = [f \in DOMAIN disk |-> disk[f]] /\ SSTNumber \in DOMAIN disk
  BY <1>1 DEF FileInv, StepsOK, FileTypeOK, CreatedEmpty
<1>5. Resting'
  BY <1>1, <1>2 DEF Resting
<1>6. AtomicLevels' = levels' /\ AtomicDisk' = disk' /\ ~MergeDone'
  BY <1>5, AtRestNext
<1>7. Atomic!SSTNumber = SSTNumber /\ Atomic!BuildFile(Atomic!SortedRun(memtable)) = file
  BY <1>3, AtomicFiles DEF Atomic!SSTNumber, SSTNumber
<1>8. AtomicDisk' = Atomic!Assign(AtomicDisk, SSTNumber, file)
  <2> HIDE DEF file
  <2> QED
    BY <1>1, <1>3, <1>4, <1>6 DEF Atomic!Assign
<1> QED
  BY <1>1, <1>3, <1>6, <1>7, <1>8 DEF WriteSST, Atomic!Flush, AddNewLevel, Atomic!AddNewLevel,
     EmptyMap, Atomic!EmptyMap

-----------------------------------------------------------------------------
(* An iteration of the compaction loop                                     *)

\* What merge_ssts is given: the two files of the level and a free number, with
\* a level for the output.
Given ==
  /\ current_level \in Nat /\ levels \in Seq(Seq(Nat)) /\ DOMAIN disk \subseteq Nat
  /\ levels[current_level + 1] = <<Older, Newer>>
  /\ Older \in DOMAIN disk /\ Newer \in DOMAIN disk
  /\ output'.num \in Nat \ DOMAIN disk /\ output'.num > 0
  /\ output'.num = (current_level + 1) * SIZE_RATIO + Len(levels'[current_level + 2])
  /\ IF output'.is_last
     THEN levels' = Append(levels, <<>>) /\ Len(levels) = current_level + 1
     ELSE levels' = levels /\ current_level + 2 <= Len(levels)

\* That is what an iteration of the loop begins with.
LEMMA StartGiven ==
  ASSUME FileInv, StartMerge
  PROVE  Given /\ Resting
<1>1. pc = "compact" /\ output.stage = "none" /\ NeedsCompaction
  BY DEF StartMerge, Merging
<1>2. Resting
  BY <1>1, NotWriting
<1>3. AtomicLevels = levels /\ AtomicDisk = disk /\ ~MergeDone /\ AtomicPc = "compact" /\ AtomicLevel = current_level
  BY <1>1, <1>2, AtRest
<1>4. A!IndInv
  BY <1>1, CallInvariant DEF A!DataInv
<1>5. A!NeedsCompaction
  BY <1>1, <1>3 DEF NeedsCompaction, A!NeedsCompaction, SIZE_RATIO, A!SIZE_RATIO
<1>6. A!ToCompact(2 * AtomicLevel, 2 * AtomicLevel + 1, A!OutputNumber)
  BY <1>3, <1>4, <1>5, A!CompactNumbers, SameAssumptions DEF AtomicPc, AtomicLevel
<1>7. /\ current_level \in Nat /\ levels \in Seq(Seq(Nat)) /\ DOMAIN disk \subseteq Nat
  BY <1>3, <1>4 DEF A!IndInv, A!TypeOK, AtomicLevel
<1>8. /\ levels[current_level + 1] = <<Older, Newer>>
      /\ Older \in DOMAIN disk /\ Newer \in DOMAIN disk
      /\ A!OutputNumber \in Nat \ DOMAIN disk /\ A!OutputNumber > 0
  BY <1>3, <1>6 DEF A!ToCompact, Older, Newer, AtomicLevel
<1> DEFINE grown == IF current_level >= Len(levels) - 1 THEN AddNewLevel(levels) ELSE levels
           sst_num == (current_level + 1) * SIZE_RATIO + Len(grown[current_level + 2])
<1>9. levels' = grown /\ output' = [num |-> sst_num, is_last |-> IsLastLevel, stage |-> "fill"]
  BY DEF StartMerge
<1>10. output'.num = sst_num /\ output'.is_last = IsLastLevel
  <2> HIDE DEF sst_num
  <2> QED
    BY <1>9
<1>11. A!OutputNumber = sst_num
  BY <1>3 DEF A!OutputNumber, AddNewLevel, A!AddNewLevel, SIZE_RATIO, A!SIZE_RATIO
<1>12. output'.num = (current_level + 1) * SIZE_RATIO + Len(levels'[current_level + 2])
  <2> HIDE DEF grown
  <2> QED
    BY <1>9, <1>10
<1> HIDE DEF sst_num
<1>13. PICK l \in Nat : l = Len(levels)
  BY <1>7
<1>14. current_level < l
  BY <1>1, <1>13 DEF NeedsCompaction
<1>15. ASSUME IsLastLevel PROVE levels' = Append(levels, <<>>) /\ Len(levels) = current_level + 1
  <2>1. current_level = l - 1
    BY <1>13, <1>15 DEF IsLastLevel
  <2>2. current_level >= Len(levels) - 1 /\ Len(levels) = current_level + 1
    BY <1>7, <1>13, <2>1
  <2> QED
    BY <1>9, <2>2 DEF AddNewLevel
<1>16. ASSUME ~IsLastLevel PROVE levels' = levels /\ current_level + 2 <= Len(levels)
  <2>1. current_level # l - 1
    BY <1>13, <1>16 DEF IsLastLevel
  <2>2. ~ (current_level >= Len(levels) - 1) /\ current_level + 2 <= Len(levels)
    BY <1>7, <1>13, <1>14, <2>1
  <2> QED
    BY <1>9, <2>2
<1> QED
  BY <1>2, <1>7, <1>8, <1>10, <1>11, <1>12, <1>15, <1>16 DEF Given

\* The level of the output is there, and is empty if it is new.
LEMMA GivenLevels ==
  ASSUME Given
  PROVE  /\ levels' \in Seq(Seq(Nat)) /\ current_level + 2 <= Len(levels')
         /\ levels'[current_level + 1] = <<Older, Newer>>
         /\ output'.is_last => Len(levels') = current_level + 2 /\ levels'[current_level + 2] = <<>>
                               /\ SubSeq(levels', 1, Len(levels') - 1) = levels
<1> DEFINE c == current_level + 1
<1>1. c \in Nat /\ c >= 1 /\ current_level + 2 = c + 1 /\ levels \in Seq(Seq(Nat)) /\ <<>> \in Seq(Nat)
  BY DEF Given
<1>2. CASE ~output'.is_last
  BY <1>2 DEF Given
<1>3. CASE output'.is_last
  <2>1. levels' = Append(levels, <<>>) /\ Len(levels) = c /\ levels[c] = <<Older, Newer>>
    BY <1>3 DEF Given
  <2> HIDE DEF c
  <2>2. /\ levels' \in Seq(Seq(Nat)) /\ Len(levels') = c + 1 /\ levels'[c + 1] = <<>>
        /\ \A i \in 1 .. c : levels'[i] = levels[i]
    BY <1>1, <2>1, AppendProperties
  <2>3. levels'[c] = <<Older, Newer>>
    BY <1>1, <2>1, <2>2
  <2>4. SubSeq(levels', 1, c) = levels
    <3> DEFINE new == levels'
    <3>1. /\ new \in Seq(Seq(Nat)) /\ Len(new) = c + 1 /\ \A i \in 1 .. c : new[i] = levels[i]
      BY <2>2
    <3> HIDE DEF new
    <3>2. SubSeq(new, 1, c) = [i \in 1 .. c |-> new[i]]
      BY <1>1, <3>1
    <3>3. levels = [i \in 1 .. c |-> levels[i]]
      BY <1>1, <2>1
    <3> QED
      BY <3>1, <3>2, <3>3 DEF new
  <2>5. Len(levels') - 1 = c
    BY <1>1, <2>2
  <2> QED
    BY <1>1, <2>2, <2>3, <2>4, <2>5 DEF c
<1> QED
  BY <1>2, <1>3

\* Opening the files of a merge shows nothing, and sets it up.
LEMMA StartStep ==
  ASSUME FileInv, StartMerge
  PROVE  Quiet /\ MergeOK' /\ FillOK'
<1> DEFINE num == output'.num
<1>1. Given /\ Resting
  BY StartGiven
<1>2. /\ AtomicLevels = levels /\ AtomicDisk = disk /\ AtomicLevel = current_level /\ AtomicPc = pc
      /\ disk = [f \in DOMAIN disk |-> disk[f]]
  BY <1>1, AtRest DEF Resting
<1>3. /\ UNCHANGED <<memtable, current_memtable_entries, pc, current_level>> /\ pc = "compact"
      /\ disk' = Assign(Assign(disk, num, EmptyFile), Temp(num), EmptyFile)
      /\ output'.stage = "fill" /\ ~MergeDone'
  BY DEF StartMerge, Merging, MergeDone
<1>4. num \in Nat \ DOMAIN disk /\ num > 0 /\ Temp(num) \notin Nat /\ DOMAIN disk \subseteq Nat
  BY <1>1 DEF Given, Temp
<1>5. AtomicLevels' = levels
  <2>1. AtomicLevels' = IF output'.is_last THEN SubSeq(levels', 1, Len(levels') - 1) ELSE levels'
    BY <1>3 DEF AtomicLevels
  <2> QED
    BY <1>1, <2>1, GivenLevels DEF Given
<1>6. /\ DOMAIN disk' = DOMAIN disk \cup {num, Temp(num)}
      /\ disk'[num] = EmptyFile /\ disk'[Temp(num)] = EmptyFile
      /\ \A f \in DOMAIN disk : disk'[f] = disk[f]
  <2> HIDE DEF num
  <2> QED
    BY <1>3, <1>4 DEF Assign
<1>7. AtomicDisk' = disk
  <2>1. AtomicDisk' = [f \in DOMAIN disk' \ {num, Temp(num)} |-> disk'[f]]
    BY <1>3 DEF AtomicDisk
  <2> HIDE DEF num
  <2>2. DOMAIN disk' \ {num, Temp(num)} = DOMAIN disk
    BY <1>4, <1>6
  <2> QED
    BY <1>2, <1>6, <2>1, <2>2
<1>8. Quiet
  BY <1>2, <1>3, <1>5, <1>7 DEF Quiet, AtomicPc, AtomicLevel
<1>9. Older' = Older /\ Newer' = Newer /\ ThisLevel' = levels'[current_level + 1]
  BY <1>3 DEF Older, Newer, ThisLevel
<1>10. MergeOK'
  BY <1>1, <1>3, <1>9, GivenLevels DEF MergeOK, Given
<1>11. FillOK'
  BY <1>1, <1>3, <1>6, <1>9 DEF FillOK, Given
<1> QED
  BY <1>8, <1>10, <1>11

\* The numbers of a merge are apart.
LEMMA MergeNumbers ==
  ASSUME MergeOK, output.stage # "none"
  PROVE  /\ output.num \in Nat /\ Older \in Nat /\ Newer \in Nat /\ Older < Newer /\ Newer < output.num
         /\ Temp(output.num) \notin Nat /\ Temp(output.num) \in Int
<1>1. /\ current_level \in Nat /\ levels \in Seq(Seq(Nat)) /\ current_level + 2 \in DOMAIN levels
      /\ output.num = (current_level + 1) * SIZE_RATIO + Len(levels[current_level + 2])
  BY DEF MergeOK
<1>2. PICK n \in Nat : n = Len(levels[current_level + 2])
  BY <1>1
<1>3. output.num = (current_level + 1) * 2 + n
  BY <1>1, <1>2 DEF SIZE_RATIO
<1>4. current_level \in Nat
  BY <1>1
<1> QED
  BY ONLY <1>3, <1>4, n \in Nat DEF Older, Newer, Temp

\* While the output is written, KVStore has not got its level yet if it is new.
LEMMA MergeLevels ==
  ASSUME MergeOK, output.stage \in {"fill", "copy", "index"}
  PROVE  /\ AtomicLevels \in Seq(Seq(Nat)) /\ current_level < Len(AtomicLevels)
         /\ AtomicLevels[current_level + 1] = <<Older, Newer>>
         /\ (IF current_level >= Len(AtomicLevels) - 1 THEN Append(AtomicLevels, <<>>) ELSE AtomicLevels) = levels
         /\ output.is_last <=> current_level = Len(AtomicLevels) - 1
<1> DEFINE c == current_level + 1
<1>1. /\ levels \in Seq(Seq(Nat)) /\ c + 1 <= Len(levels) /\ c \in Nat /\ c >= 1
      /\ levels[c] = <<Older, Newer>> /\ current_level + 2 = c + 1 /\ current_level = c - 1
  <2>1. /\ levels \in Seq(Seq(Nat)) /\ current_level \in Nat /\ current_level + 2 <= Len(levels)
        /\ levels[c] = <<Older, Newer>>
    BY DEF MergeOK, ThisLevel
  <2>2. current_level + 2 = c + 1 /\ current_level = c - 1 /\ c \in Nat /\ c >= 1
    BY <2>1
  <2> QED
    BY <2>1, <2>2
<1>2. AtomicLevels = IF output.is_last THEN SubSeq(levels, 1, Len(levels) - 1) ELSE levels
  BY DEF AtomicLevels, MergeDone
<1>3. CASE ~output.is_last
  <2>1. AtomicLevels = levels
    BY <1>2, <1>3
  <2>2. PICK l \in Nat : l = Len(levels)
    BY <1>1
  <2> HIDE DEF c
  <2>3. c - 1 < l /\ ~ (c - 1 >= l - 1) /\ c - 1 # l - 1
    BY <1>1, <2>2
  <2> QED
    BY <1>1, <1>3, <2>1, <2>2, <2>3 DEF c
<1>4. CASE output.is_last
  <2>1. Len(levels) = c + 1 /\ levels[c + 1] = <<>>
    BY <1>1, <1>4 DEF MergeOK
  <2> HIDE DEF c
  <2>2. AtomicLevels = SubSeq(levels, 1, c)
    BY <1>1, <1>2, <1>4, <2>1
  <2> DEFINE old == AtomicLevels
  <2>3. old \in Seq(Seq(Nat)) /\ Len(old) = c /\ \A i \in 1 .. c : old[i] = levels[i]
    BY <1>1, <2>1, <2>2
  <2> HIDE DEF old
  <2>4. Append(old, <<>>) = levels
    <3>1. <<>> \in Seq(Nat)
      OBVIOUS
    <3> DEFINE new == Append(old, <<>>)
    <3>2. /\ new \in Seq(Seq(Nat)) /\ Len(new) = c + 1 /\ new[c + 1] = <<>>
          /\ \A i \in 1 .. c : new[i] = old[i]
      BY <2>3, <3>1, AppendProperties
    <3> HIDE DEF new
    <3>3. \A i \in 1 .. c + 1 : new[i] = levels[i]
      <4> SUFFICES ASSUME NEW i \in 1 .. c + 1 PROVE new[i] = levels[i]
        OBVIOUS
      <4>1. i = c + 1 \/ i \in 1 .. c
        BY <1>1
      <4> QED
        BY <2>1, <2>3, <3>2, <4>1
    <3>4. new = levels
      BY <1>1, <2>1, <3>2, <3>3, SeqEqual
    <3> QED
      BY <3>4 DEF new
  <2>5. c - 1 >= Len(old) - 1 /\ c - 1 = Len(old) - 1 /\ c - 1 < Len(old) /\ c \in 1 .. c
    BY <1>1, <2>3
  <2> QED
    BY <1>1, <1>4, <2>3, <2>4, <2>5 DEF old, c
<1> QED
  BY <1>3, <1>4

\* Filling the .tmp file and removing it show nothing.
LEMMA CopyStep ==
  ASSUME FileInv, FillTemp \/ RemoveTemp
  PROVE  Quiet /\ MergeOK' /\ FillOK'
<1> DEFINE num == output.num
           next == IF FillTemp THEN "copy" ELSE "index"
<1>1. /\ pc = "compact" /\ output.stage \in {"fill", "copy"}
      /\ UNCHANGED <<memtable, current_memtable_entries, levels, pc, current_level, cached, durable>>
  BY DEF FillTemp, RemoveTemp, MergeStep, Merging
<1>2. /\ FileTypeOK /\ MergeOK /\ FillOK
  BY DEF FileInv, StepsOK
<1>3. /\ output'.num = num /\ output'.is_last = output.is_last /\ output'.stage \in {"copy", "index"}
      /\ FillTemp => output'.stage = "copy"
      /\ RemoveTemp => output'.stage = "index"
  BY <1>2 DEF FillTemp, RemoveTemp, MergeStep, FileTypeOK
<1>4. num \in Nat /\ Older \in Nat /\ Newer \in Nat /\ Older < num /\ Newer < num /\ Temp(num) \notin Nat
  BY <1>1, <1>2, MergeNumbers
<1>5. /\ Temp(num) \in DOMAIN disk /\ num \in DOMAIN disk /\ disk[num] = EmptyFile
      /\ Older \in DOMAIN disk /\ Newer \in DOMAIN disk
  BY <1>1, <1>2 DEF FillOK
<1>6. /\ \A f \in DOMAIN disk \ {Temp(num)} : f \in DOMAIN disk' /\ disk'[f] = disk[f]
      /\ DOMAIN disk' \subseteq DOMAIN disk
      /\ FillTemp => Temp(num) \in DOMAIN disk' /\ disk'[Temp(num)] = TempFile(MergedRun)
      /\ RemoveTemp => Temp(num) \notin DOMAIN disk'
  <2>1. CASE FillTemp
    <3>1. disk' = [disk EXCEPT ![Temp(num)] = TempFile(MergedRun)] /\ output.stage = "fill"
      BY <2>1 DEF FillTemp, MergeStep, Merging
    <3>2. ~RemoveTemp
      BY <3>1 DEF RemoveTemp, MergeStep, Merging
    <3> QED
      BY <1>5, <3>1, <3>2
  <2>2. CASE RemoveTemp
    <3>1. disk' = [f \in DOMAIN disk \ {Temp(num)} |-> disk[f]] /\ output.stage = "copy"
      BY <2>2 DEF RemoveTemp, MergeStep, Merging
    <3>2. ~FillTemp
      BY <3>1 DEF FillTemp, MergeStep, Merging
    <3> QED
      BY <3>1, <3>2
  <2> QED
    BY <2>1, <2>2
<1>7. ~MergeDone /\ ~MergeDone'
  BY <1>1, <1>3 DEF MergeDone
<1>8. AtomicDisk' = AtomicDisk
  <2>1. AtomicDisk = [f \in DOMAIN disk \ {num, Temp(num)} |-> disk[f]]
    BY <1>1, <1>7 DEF AtomicDisk
  <2>2. AtomicDisk' = [f \in DOMAIN disk' \ {num, Temp(num)} |-> disk'[f]]
    BY <1>1, <1>3, <1>7 DEF AtomicDisk
  <2> HIDE DEF num
  <2>3. DOMAIN disk' \ {num, Temp(num)} = DOMAIN disk \ {num, Temp(num)}
    BY <1>6
  <2> QED
    BY <1>6, <2>1, <2>2, <2>3
<1>9. AtomicLevels' = AtomicLevels
  BY <1>1, <1>3, <1>7 DEF AtomicLevels
<1>10. Quiet
  BY <1>1, <1>7, <1>8, <1>9 DEF Quiet, AtomicPc, AtomicLevel
<1>11. Older' = Older /\ Newer' = Newer /\ ThisLevel' = ThisLevel
  BY <1>1 DEF Older, Newer, ThisLevel
<1>12. MergeOK'
  BY <1>1, <1>2, <1>3, <1>11 DEF MergeOK
<1>13. MergedRun' = MergedRun
  <2>1. ThisLevel = <<Older, Newer>>
    BY <1>1, <1>2 DEF MergeOK
  <2>2. ThisLevel[1] = Older /\ ThisLevel[2] = Newer
    BY <2>1
  <2>3. disk'[Older] = disk[Older] /\ disk'[Newer] = disk[Newer]
    BY <1>4, <1>5, <1>6
  <2> QED
    BY <1>3, <1>11, <2>2, <2>3 DEF MergedRun
<1>14. FillOK'
  <2>1. Temp(output.num)' = Temp(num)
    BY <1>3 DEF Temp
  <2>2. num # Temp(num) /\ Older # Temp(num) /\ Newer # Temp(num)
    BY <1>4
  <2> QED
    BY <1>3, <1>5, <1>6, <1>11, <1>13, <2>1, <2>2 DEF FillOK
<1> QED
  BY <1>10, <1>12, <1>14

\* The two files of a level.
LEMMA TwoFiles ==
  ASSUME NEW a, NEW b, NEW s, s = <<a, b>>
  PROVE  /\ Len(s) = 2 /\ DOMAIN s = {1, 2} /\ s[1] = a /\ s[2] = b
         /\ Range(s) = {a, b} /\ {s[i] : i \in 1 .. Len(s)} = {a, b}
<1>1. Len(s) = 2 /\ DOMAIN s = 1 .. 2 /\ s[1] = a /\ s[2] = b
  OBVIOUS
<1>2. 1 .. 2 = {1, 2}
  OBVIOUS
<1>3. Range(s) = {s[i] : i \in {1, 2}}
  BY <1>1, <1>2 DEF Range
<1> QED
  BY <1>1, <1>2, <1>3

\* Completing the output is the compaction of the level.
LEMMA CompleteStep ==
  ASSUME FileInv, CompleteOutput
  PROVE  Atomic!CompactLevel /\ MergeOK'
<1> DEFINE num == output.num
           c == current_level + 1
           file == BuildFile(MergedRun)
<1>1. /\ pc = "compact" /\ output.stage = "index"
      /\ disk' = [disk EXCEPT ![num] = file]
      /\ UNCHANGED <<memtable, current_memtable_entries, levels, pc, current_level, cached, durable>>
  BY DEF CompleteOutput, MergeStep, Merging
<1>2. FileTypeOK /\ MergeOK /\ FillOK
  BY DEF FileInv, StepsOK
<1>3. output'.num = num /\ output'.is_last = output.is_last /\ output'.stage = "remove"
  BY <1>2 DEF CompleteOutput, MergeStep, FileTypeOK
<1>4. num \in Nat /\ Older \in Nat /\ Newer \in Nat /\ Older < num /\ Newer < num
  BY <1>1, <1>2, MergeNumbers
<1>5. /\ Temp(num) \notin DOMAIN disk /\ num \in DOMAIN disk
      /\ Older \in DOMAIN disk /\ Newer \in DOMAIN disk
      /\ disk = [f \in DOMAIN disk |-> disk[f]]
  BY <1>1, <1>2 DEF FillOK, FileTypeOK
<1>6. ~MergeDone /\ MergeDone' /\ current_level \in Nat
  BY <1>1, <1>2, <1>3 DEF MergeDone, MergeOK
<1>7. /\ AtomicLevels \in Seq(Seq(Nat)) /\ current_level < Len(AtomicLevels)
      /\ AtomicLevels[c] = <<Older, Newer>>
      /\ (IF current_level >= Len(AtomicLevels) - 1 THEN Append(AtomicLevels, <<>>) ELSE AtomicLevels) = levels
      /\ output.is_last <=> current_level = Len(AtomicLevels) - 1
  BY <1>1, <1>2, MergeLevels
<1>8. ThisLevel = <<Older, Newer>> /\ ThisLevel' = ThisLevel
  BY <1>1, <1>2 DEF MergeOK, ThisLevel
<1>9. AtomicDisk = [f \in DOMAIN disk \ {num} |-> disk[f]]
  <2>1. AtomicDisk = [f \in DOMAIN disk \ {num, Temp(num)} |-> disk[f]]
    BY <1>1, <1>6 DEF AtomicDisk
  <2>2. DOMAIN disk \ {num, Temp(num)} = DOMAIN disk \ {num}
    BY <1>5
  <2> QED
    BY <2>1, <2>2
<1>10. AtomicDisk' = [f \in DOMAIN disk \ {Older, Newer} |-> disk'[f]]
  <2>1. Range(ThisLevel) = {Older, Newer}
    BY <1>8, TwoFiles
  <2>2. AtomicDisk' = [f \in DOMAIN disk' \ Range(ThisLevel') |-> disk'[f]]
    BY <1>1, <1>3, <1>6 DEF AtomicDisk
  <2> QED
    BY <1>1, <1>5, <1>8, <2>1, <2>2
<1>11. MergedRun = MergeRuns(RunOf(disk[Older]), RunOf(disk[Newer]), output.is_last)
  <2>1. ThisLevel[1] = Older /\ ThisLevel[2] = Newer
    BY <1>8, TwoFiles
  <2> QED
    BY <2>1 DEF MergedRun
<1>12. Atomic!IsLastLevel = output.is_last
  <2>1. output.is_last \in BOOLEAN
    BY <1>2 DEF FileTypeOK
  <2> QED
    BY <1>6, <1>7, <2>1 DEF Atomic!IsLastLevel
<1>13. Atomic!MergeSSTs(AtomicDisk[AtomicLevels[c][1]], AtomicDisk[AtomicLevels[c][2]], Atomic!IsLastLevel) = file
  <2>1. AtomicLevels[c][1] = Older /\ AtomicLevels[c][2] = Newer
    BY <1>7, TwoFiles
  <2>2. AtomicDisk[Older] = disk[Older] /\ AtomicDisk[Newer] = disk[Newer]
    BY <1>4, <1>5, <1>9
  <2> QED
    BY <1>11, <1>12, <2>1, <2>2, AtomicFiles DEF MergeSSTs
<1>14. {AtomicLevels[c][i] : i \in 1 .. Len(AtomicLevels[c])} = {Older, Newer}
  BY <1>7, TwoFiles
<1>15. Atomic!NeedsCompaction
  <2>1. Len(AtomicLevels[c]) = 2
    BY <1>7, TwoFiles
  <2>2. Atomic!NeedsCompaction <=> current_level < Len(AtomicLevels) /\ Len(AtomicLevels[c]) >= 2
    BY <1>6 DEF Atomic!NeedsCompaction, Atomic!SIZE_RATIO
  <2> QED
    BY <1>6, <1>7, <2>1, <2>2 
<1> DEFINE merged == Atomic!Assign(AtomicDisk, num, file)
<1>16. AtomicDisk' = [f \in DOMAIN merged \ {Older, Newer} |-> merged[f]]
  <2> HIDE DEF file, num
  <2>1. DOMAIN merged = DOMAIN disk /\ \A f \in DOMAIN disk : merged[f] = disk'[f]
    BY <1>1, <1>5, <1>9 DEF Atomic!Assign
  <2> HIDE DEF merged
  <2> QED
    BY <1>10, <2>1
<1>17. AtomicLevels' = [levels EXCEPT ![c] = <<>>, ![c + 1] = Append(@, num)]
  <2>1. AtomicLevels' = [levels EXCEPT ![c] = <<>>, ![current_level + 2] = Append(@, num)]
    BY <1>1, <1>3, <1>6 DEF AtomicLevels
  <2>2. current_level + 2 = c + 1
    BY <1>6
  <2> QED
    BY <2>1, <2>2
<1>18. num = c * 2 + Len(levels[c + 1])
  <2>1. current_level + 2 = c + 1
    BY <1>6
  <2> QED
    BY <1>1, <1>2, <2>1 DEF MergeOK, SIZE_RATIO
<1>19. Atomic!CompactLevel
  <2> DEFINE grown == IF current_level >= Len(AtomicLevels) - 1 THEN Atomic!AddNewLevel(AtomicLevels) ELSE AtomicLevels
  <2>1. grown = levels
    BY <1>7 DEF Atomic!AddNewLevel
  <2>2. num = c * Atomic!SIZE_RATIO + Len(grown[c + 1])
    BY <1>18, <2>1 DEF Atomic!SIZE_RATIO
  <2>3. AtomicLevels' = [grown EXCEPT ![c] = <<>>, ![c + 1] = Append(@, num)]
    BY <1>17, <2>1
  <2>4. UNCHANGED <<memtable, current_memtable_entries, pc>>
    BY <1>1
  <2>5. Atomic!CompactLevel <=>
          LET sst_num == c * Atomic!SIZE_RATIO + Len(grown[c + 1])
              removed == {AtomicLevels[c][i] : i \in 1 .. Len(AtomicLevels[c])}
              new == Atomic!Assign(AtomicDisk, sst_num,
                       Atomic!MergeSSTs(AtomicDisk[AtomicLevels[c][1]], AtomicDisk[AtomicLevels[c][2]],
                                        Atomic!IsLastLevel))
          IN  /\ AtomicPc = "compact"
              /\ Atomic!NeedsCompaction
              /\ AtomicDisk' = [f \in DOMAIN new \ removed |-> new[f]]
              /\ AtomicLevels' = [grown EXCEPT ![c] = <<>>, ![c + 1] = Append(@, sst_num)]
              /\ AtomicLevel' = AtomicLevel + 1
              /\ UNCHANGED <<memtable, current_memtable_entries, AtomicPc>>
    BY <1>6 DEF Atomic!CompactLevel, AtomicPc, AtomicLevel
  <2>6. AtomicPc = "compact" /\ UNCHANGED AtomicPc /\ AtomicLevel' = AtomicLevel + 1
    BY <1>1, <1>6 DEF AtomicPc, AtomicLevel
  <2> HIDE DEF num, file, grown
  <2> QED
    BY <1>13, <1>14, <1>15, <1>16, <2>2, <2>3, <2>4, <2>5, <2>6
<1>20. MergeOK'
  <2>1. Older' = Older /\ Newer' = Newer
    BY <1>1 DEF Older, Newer
  <2> QED
    BY <1>1, <1>2, <1>3, <1>8, <2>1 DEF MergeOK
<1> QED
  BY <1>19, <1>20

\* The old files are removed from the oldest to the newest.
LEMMA NextOldIs ==
  ASSUME MergeOK, RemoveOK, output.stage = "remove"
  PROVE  /\ Range(ThisLevel) = {Older, Newer}
         /\ IF Older \in DOMAIN disk
            THEN Remaining # {NextOld} /\ NextOld = Older
            ELSE Remaining = {NextOld} /\ NextOld = Newer
<1>1. ThisLevel = <<Older, Newer>> /\ Newer \in DOMAIN disk /\ Older # Newer
  BY MergeNumbers DEF MergeOK, RemoveOK
<1>2. /\ DOMAIN ThisLevel = {1, 2} /\ ThisLevel[1] = Older /\ ThisLevel[2] = Newer
      /\ Range(ThisLevel) = {Older, Newer}
  BY <1>1, TwoFiles
<1> DEFINE first(f) == CHOOSE i \in DOMAIN ThisLevel : ThisLevel[i] = f
<1>3. Position(Older) = 1
  BY <1>1, <1>2 DEF Position
<1>4. Position(Newer) = 2
  BY <1>1, <1>2 DEF Position
<1>5. Remaining = {Older, Newer} \cap DOMAIN disk
  BY <1>2 DEF Remaining
<1>6. CASE Older \in DOMAIN disk
  <2>1. Remaining = {Older, Newer}
    BY <1>1, <1>5, <1>6
  <2>2. \A f \in Remaining : (\A g \in Remaining : Position(f) <= Position(g)) <=> f = Older
    BY <1>1, <1>3, <1>4, <2>1
  <2>3. NextOld = Older
    BY <2>1, <2>2 DEF NextOld
  <2> QED
    BY <1>1, <1>2, <1>6, <2>1, <2>3
<1>7. CASE Older \notin DOMAIN disk
  <2>1. Remaining = {Newer}
    BY <1>1, <1>5, <1>7
  <2>2. \A f \in Remaining : (\A g \in Remaining : Position(f) <= Position(g)) <=> f = Newer
    BY <1>4, <2>1
  <2>3. NextOld = Newer
    BY <2>1, <2>2 DEF NextOld
  <2> QED
    BY <1>2, <1>7, <2>1, <2>3
<1> QED
  BY <1>6, <1>7

\* Removing them shows nothing, nor does moving the output down.
LEMMA RemoveStep ==
  ASSUME FileInv, RemoveOld
  PROVE  Quiet /\ MergeOK' /\ DOMAIN disk' = DOMAIN disk \ {NextOld}
<1>1. /\ pc = "compact" /\ output.stage = "remove"
      /\ disk' = [f \in DOMAIN disk \ {NextOld} |-> disk[f]]
      /\ UNCHANGED <<memtable, current_memtable_entries, pc>>
      /\ IF Remaining = {NextOld}
         THEN /\ levels' = [levels EXCEPT ![current_level + 1] = <<>>,
                                          ![current_level + 1 + 1] = Append(@, output.num)]
              /\ current_level' = current_level + 1
              /\ output' = NoOutput
         ELSE UNCHANGED <<levels, current_level, output>>
  BY DEF RemoveOld, Merging
<1>2. MergeOK /\ RemoveOK /\ current_level \in Nat
  BY <1>1 DEF FileInv, StepsOK, MergeOK
<1>3. /\ Range(ThisLevel) = {Older, Newer}
      /\ IF Older \in DOMAIN disk
         THEN Remaining # {NextOld} /\ NextOld = Older
         ELSE Remaining = {NextOld} /\ NextOld = Newer
  BY <1>1, <1>2, NextOldIs
<1>4. MergeDone /\ AtomicLevel = current_level + 1
  BY <1>1 DEF MergeDone, AtomicLevel
<1>5. AtomicDisk = [f \in DOMAIN disk \ {Older, Newer} |-> disk[f]]
  BY <1>1, <1>3, <1>4 DEF AtomicDisk
<1>6. CASE Older \in DOMAIN disk
  <2>1. UNCHANGED <<levels, current_level, output>> /\ NextOld = Older
    BY <1>1, <1>3, <1>6
  <2>2. MergeDone' /\ ThisLevel' = ThisLevel
    BY <1>4, <2>1 DEF MergeDone, ThisLevel
  <2>3. AtomicDisk' = [f \in DOMAIN disk' \ {Older, Newer} |-> disk'[f]]
    BY <1>1, <1>3, <2>1, <2>2 DEF AtomicDisk
  <2>4. AtomicDisk' = AtomicDisk
    BY <1>1, <1>5, <2>1, <2>3
  <2>5. AtomicLevels' = AtomicLevels /\ AtomicLevel' = AtomicLevel /\ AtomicPc' = AtomicPc
    BY <1>1, <2>1 DEF AtomicLevels, MergeDone, AtomicLevel, AtomicPc
  <2>6. MergeOK'
    BY <1>2, <2>1, <2>2 DEF MergeOK, Older, Newer
  <2> QED
    BY <1>1, <2>4, <2>5, <2>6 DEF Quiet
<1>7. CASE Older \notin DOMAIN disk
  <2>1. /\ levels' = [levels EXCEPT ![current_level + 1] = <<>>,
                                    ![current_level + 1 + 1] = Append(@, output.num)]
        /\ current_level' = current_level + 1 /\ output' = NoOutput /\ NextOld = Newer
    BY <1>1, <1>3, <1>7
  <2>2. Resting'
    BY <1>1, <2>1 DEF Resting
  <2>3. AtomicLevels' = levels' /\ AtomicDisk' = disk' /\ AtomicPc' = pc' /\ AtomicLevel' = current_level'
    BY <2>2, AtRestNext
  <2>4. AtomicDisk' = AtomicDisk
    <3>1. DOMAIN disk \ {NextOld} = DOMAIN disk \ {Older, Newer}
      BY <1>7, <2>1
    <3> QED
      BY <1>1, <1>5, <2>3, <3>1
  <2>5. AtomicLevels' = AtomicLevels
    <3>1. current_level + 1 + 1 = current_level + 2
      BY <1>2
    <3> QED
      BY <1>4, <2>1, <2>3, <3>1 DEF AtomicLevels
  <2>6. AtomicPc' = AtomicPc /\ AtomicLevel' = AtomicLevel
    BY <1>1, <1>4, <2>1, <2>3 DEF AtomicPc
  <2>7. MergeOK'
    BY <2>1 DEF MergeOK, NoOutput
  <2> QED
    BY <1>1, <2>4, <2>5, <2>6, <2>7 DEF Quiet
<1> QED
  BY <1>1, <1>6, <1>7

\* A crash between calls is a restart; any other step of the files is a step of
\* the store or shows nothing.
LEMMA StepIsAtomic ==
  FileInv /\ [FileNext]_file_vars => (Crash /\ pc # "idle") \/ [Atomic!Next]_(Atomic!vars)
<1> SUFFICES ASSUME FileInv, [FileNext]_file_vars
             PROVE  (Crash /\ pc # "idle") \/ [Atomic!Next]_(Atomic!vars)
  OBVIOUS
<1>1. Quiet => [Atomic!Next]_(Atomic!vars)
  BY AtomicStutter
<1>2. pc = "idle" => Resting /\ current_level = 0
  <2>1. pc = "idle" => output.stage = "none" /\ pc # "write"
    BY DEF FileInv, StepsOK, FileTypeOK
  <2> QED
    BY <2>1, NotWriting DEF FileInv, StepsOK, IdleOK
<1>3. CASE ClientCall
  <2>1. pc = "idle"
    BY <1>3 DEF ClientCall, Put, Delete, Close
  <2> QED
    BY <1>2, <1>3, <2>1, ClientCallStep
<1>4. CASE ReadPage \/ EvictPage
  BY <1>1, <1>4, ReadPageStep
<1>5. CASE CreateSST
  BY <1>1, <1>5, CreateStep
<1>6. CASE WriteSST
  BY <1>6, WriteStep DEF Atomic!Next
<1>7. CASE StartMerge
  BY <1>1, <1>7, StartStep
<1>8. CASE FillTemp \/ RemoveTemp
  BY <1>1, <1>8, CopyStep
<1>9. CASE CompleteOutput
  BY <1>9, CompleteStep DEF Atomic!Next
<1>10. CASE RemoveOld
  BY <1>1, <1>10, RemoveStep
<1>11. CASE EndOfCall
  <2>1. pc = "compact" /\ output.stage = "none"
    BY <1>11 DEF EndOfCall, Merging
  <2> QED
    BY <1>11, <2>1, NotWriting, EndOfCallStep
<1>12. CASE Crash /\ pc = "idle"
  BY <1>2, <1>12, RestartStep DEF Atomic!Next
<1>13. CASE UNCHANGED file_vars
  <2>1. Quiet
    BY <1>13 DEF file_vars, vars, Quiet, AtomicLevels, AtomicDisk, AtomicPc, AtomicLevel, MergeDone, ThisLevel, SSTNumber
  <2> QED
    BY <1>1, <2>1
<1> QED
  BY <1>3, <1>4, <1>5, <1>6, <1>7, <1>8, <1>9, <1>10, <1>11, <1>12, <1>13 DEF FileNext

-----------------------------------------------------------------------------
(* The invariant: the files and what is written                            *)

\* Every step adds one file and its .tmp file at most.
LEMMA BoundedGrows ==
  ASSUME FilesBounded, NEW x \in Nat, DOMAIN disk' \subseteq DOMAIN disk \cup {x, -x}
  PROVE  FilesBounded'
<1>1. PICK b \in Nat : DOMAIN disk \subseteq -b .. b
  BY DEF FilesBounded
<1>2. -b .. b \subseteq -(b + x) .. b + x /\ x \in -(b + x) .. b + x /\ -x \in -(b + x) .. b + x /\ b + x \in Nat
  OBVIOUS
<1>3. DOMAIN disk' \subseteq -(b + x) .. b + x
  BY <1>1, <1>2
<1> QED
  BY <1>2, <1>3 DEF FilesBounded

\* A step that leaves the files alone.
LEMMA BoundedKept ==
  ASSUME FilesBounded, DOMAIN disk' \subseteq DOMAIN disk
  PROVE  FilesBounded'
  BY DEF FilesBounded

\* A call of the client changes no file.
LEMMA ClientSteps ==
  ASSUME FileInv, ClientCall
  PROVE  StepsOK'
<1>1. /\ pc = "idle" /\ pc' \in {"idle", "flush"}
      /\ UNCHANGED <<levels, disk, output, current_level, cached, durable>>
  BY DEF ClientCall, Put, Delete, Close
<1>2. output = NoOutput /\ output.stage = "none"
  BY <1>1 DEF FileInv, StepsOK, FileTypeOK, NoOutput
<1>3. FilesBounded'
  BY <1>1, BoundedKept DEF FileInv, StepsOK
<1>4. FileTypeOK' /\ CreatedEmpty' /\ MergeOK' /\ FillOK' /\ RemoveOK'
  BY <1>1, <1>2 DEF FileInv, StepsOK, FileTypeOK, CreatedEmpty, MergeOK, FillOK, RemoveOK
<1>5. IdleOK'
  BY <1>1 DEF FileInv, StepsOK, IdleOK, Tidy, Settled
<1>6. CacheOK'
  BY <1>1, <1>2 DEF FileInv, StepsOK, CacheOK, ReadEmpty
<1> QED
  BY <1>3, <1>4, <1>5, <1>6 DEF StepsOK

\* A page that is read is of a file of the directory.
LEMMA ReadSteps ==
  ASSUME FileInv, ReadPage \/ EvictPage
  PROVE  StepsOK'
<1>1. pc = "idle" /\ UNCHANGED <<levels, disk, pc, output, current_level>>
  BY DEF ReadPage, EvictPage, vars
<1>2. output = NoOutput /\ output.stage = "none"
  BY <1>1 DEF FileInv, StepsOK, FileTypeOK, NoOutput
<1>3. FilesBounded'
  BY <1>1, BoundedKept DEF FileInv, StepsOK
<1>4. FileTypeOK' /\ CreatedEmpty' /\ MergeOK' /\ FillOK' /\ RemoveOK'
  BY <1>1, <1>2 DEF FileInv, StepsOK, FileTypeOK, CreatedEmpty, MergeOK, FillOK, RemoveOK
<1>5. IdleOK'
  BY <1>1 DEF FileInv, StepsOK, IdleOK, Tidy, Settled
<1>6. CASE EvictPage
  <2>1. CacheOK'
    BY <1>6 DEF EvictPage, CacheOK
  <2> QED
    BY <1>3, <1>4, <1>5, <2>1 DEF StepsOK
<1>7. CASE ReadPage
  <2>1. PICK p \in Places : \E offset \in Pages(FileAt(p)) :
          cached' = [file |-> levels[p[1]][p[2]], offset |-> offset, page |-> PageOf(FileAt(p), offset)]
    BY <1>7 DEF ReadPage
  <2>2. PICK offset \in Pages(FileAt(p)) :
          cached' = [file |-> levels[p[1]][p[2]], offset |-> offset, page |-> PageOf(FileAt(p), offset)]
    BY <2>1
  <2> DEFINE file == levels[p[1]][p[2]]
  <2>3. FileAt(p) = disk[file] /\ cached'.file = file /\ cached'.offset = offset
        /\ cached'.page = PageOf(FileAt(p), offset)
    BY <2>2 DEF FileAt
  <2>4. file \in DOMAIN disk
    <3>1. p[1] \in DOMAIN levels /\ p[2] \in DOMAIN levels[p[1]]
      BY DEF Places
    <3>2. file \in FilesIn(levels)
      BY <3>1 DEF FilesIn
    <3> QED
      BY <1>1, <3>2 DEF FileInv, StepsOK, IdleOK
  <2> HIDE DEF file
  <2>5. CacheOK'
    BY <1>1, <1>2, <2>3, <2>4 DEF CacheOK, ReadEmpty, Pages, PageOf
  <2> QED
    BY <1>3, <1>4, <1>5, <2>5 DEF StepsOK
<1> QED
  BY <1>6, <1>7

\* The file that a flush creates is a new one, so that no current page is of it.
LEMMA CreateSteps ==
  ASSUME FileInv, CreateSST
  PROVE  StepsOK'
<1>1. /\ pc = "flush" /\ pc' = "write" /\ disk' = Assign(disk, SSTNumber, EmptyFile)
      /\ UNCHANGED <<levels, current_level, output, cached>>
  BY DEF CreateSST
<1>2. output = NoOutput /\ output.stage = "none"
  BY <1>1 DEF FileInv, StepsOK, FileTypeOK, NoOutput
<1>3. SSTNumber \in Nat \ DOMAIN disk
  BY CreateStep
<1>4. /\ DOMAIN disk' = DOMAIN disk \cup {SSTNumber} /\ disk' = [f \in DOMAIN disk' |-> disk'[f]]
      /\ disk'[SSTNumber] = EmptyFile /\ \A f \in DOMAIN disk : disk'[f] = disk[f]
  BY <1>1, <1>3 DEF Assign
<1>5. FilesBounded'
  BY <1>3, <1>4, BoundedGrows DEF FileInv, StepsOK
<1>6. FileTypeOK' /\ IdleOK' /\ MergeOK' /\ FillOK' /\ RemoveOK'
  BY <1>1, <1>2, <1>4 DEF FileInv, StepsOK, FileTypeOK, IdleOK, MergeOK, FillOK, RemoveOK
<1>7. CreatedEmpty'
  BY <1>1, <1>4 DEF CreatedEmpty, SSTNumber
<1>8. CacheOK'
  BY <1>1, <1>2, <1>4 DEF FileInv, StepsOK, CacheOK, ReadEmpty, Pages, PageOf
<1> QED
  BY <1>5, <1>6, <1>7, <1>8 DEF StepsOK

\* The pool has no page of the file of a flush but what is read of an empty file.
LEMMA WriteSteps ==
  ASSUME FileInv, WriteSST
  PROVE  StepsOK'
<1>1. /\ pc = "write" /\ pc' = "compact"
      /\ disk' = [disk EXCEPT ![SSTNumber] = BuildFile(SortedRun(memtable))]
      /\ UNCHANGED <<current_level, output, cached>>
  BY DEF WriteSST
<1>2. output = NoOutput /\ output.stage = "none"
  BY <1>1 DEF FileInv, StepsOK, FileTypeOK, NoOutput
<1>3. SSTNumber \in DOMAIN disk /\ disk[SSTNumber] = EmptyFile /\ disk = [f \in DOMAIN disk |-> disk[f]]
  BY <1>1 DEF FileInv, StepsOK, CreatedEmpty, FileTypeOK
<1>4. /\ DOMAIN disk' = DOMAIN disk /\ disk' = [f \in DOMAIN disk' |-> disk'[f]]
      /\ \A f \in DOMAIN disk \ {SSTNumber} : disk'[f] = disk[f]
  BY <1>1, <1>3
<1>5. FilesBounded'
  BY <1>4, BoundedKept DEF FileInv, StepsOK
<1>6. FileTypeOK' /\ IdleOK' /\ CreatedEmpty' /\ MergeOK' /\ FillOK' /\ RemoveOK'
  BY <1>1, <1>2, <1>4 DEF FileInv, StepsOK, FileTypeOK, IdleOK, CreatedEmpty, MergeOK, FillOK, RemoveOK
<1>7. CacheOK'
  <2> SUFFICES ASSUME cached # NoPage, ~ReadEmpty
               PROVE  /\ cached.file \in DOMAIN disk'
                      /\ cached.offset \in Pages(disk'[cached.file])
                      /\ cached.page = PageOf(disk'[cached.file], cached.offset)
    BY <1>1, <1>2 DEF CacheOK, ReadEmpty, Pages, PageOf
  <2>1. /\ cached.file \in DOMAIN disk
        /\ cached.offset \in Pages(disk[cached.file])
        /\ cached.page = PageOf(disk[cached.file], cached.offset)
    BY DEF FileInv, StepsOK, CacheOK
  <2>2. cached.file # SSTNumber
    BY <1>3, <2>1 DEF ReadEmpty
  <2> QED
    BY <1>4, <2>1, <2>2
<1> QED
  BY <1>5, <1>6, <1>7 DEF StepsOK

\* The pages of a file are numbered without a gap.
LEMMA FileOffsets ==
  ASSUME NEW file, IsFile(file)
  PROVE  /\ Len(file) \in Nat /\ DOMAIN file = 1 .. Len(file)
         /\ file # EmptyFile => Len(file) > 0
<1>1. CASE IsSST(file)
  <2>1. RunOf(file) \in Seq(Entry) /\ RunOf(file) # <<>> /\ file = BuildFile(RunOf(file))
    BY <1>1 DEF IsSST, RunOK
  <2> DEFINE run == RunOf(file)
  <2> HIDE DEF run
  <2>2. run \in Seq(Entry) /\ run # <<>> /\ file = BuildFile(run)
    BY <2>1 DEF run
  <2>3. Len(file) \in Nat /\ DOMAIN file = 1 .. Len(file)
        /\ \E n : n \in 1 .. Len(file) - 1
    BY <2>2, FileLeaves
  <2> QED
    BY <2>3
<1>2. CASE file = EmptyFile
  BY <1>2 DEF EmptyFile
<1> QED
  BY <1>1, <1>2 DEF IsFile

\* So every page of one that is not empty is below its number of pages.
LEMMA PagesAreShort ==
  ASSUME NEW file, IsFile(file), file # EmptyFile, NEW offset \in Pages(file)
  PROVE  offset < NumPages(file)
<1>1. file # EmptyFile /\ Len(file) \in Nat \ {0} /\ DOMAIN file = 1 .. Len(file)
  BY FileOffsets
<1>2. offset = 0 \/ offset \in 1 .. Len(file)
  BY <1>1 DEF Pages
<1> QED
  BY <1>1, <1>2 DEF NumPages

\* The files of a settled call are SSTs or empty.
LEMMA RestingFiles ==
  ASSUME FileInv, Resting, pc # "idle"
  PROVE  \A f \in DOMAIN disk : IsFile(disk[f])
<1>1. AtomicDisk = disk
  BY AtRest
<1>2. AtomicFilesOK
  BY CallInvariant, AtomicInv
<1> QED
  BY <1>1, <1>2 DEF AtomicFilesOK, IsFile

\* The pages of the old files are dropped before the merge, and nothing can
\* bring them back before the files are gone.
LEMMA StartSteps ==
  ASSUME FileInv, StartMerge
  PROVE  StepsOK'
<1> DEFINE num == output'.num
<1>1. Given /\ Resting /\ MergeOK' /\ FillOK'
  BY StartGiven, StartStep
<1>2. /\ UNCHANGED <<pc, current_level>> /\ pc = "compact"
      /\ disk' = Assign(Assign(disk, num, EmptyFile), Temp(num), EmptyFile)
      /\ cached' = Invalidated(ThisLevel)
      /\ \E l : output' = [num |-> l, is_last |-> IsLastLevel, stage |-> "fill"]
  BY DEF StartMerge, Merging
<1>3. num \in Nat \ DOMAIN disk /\ Temp(num) \notin Nat /\ Temp(num) = -num /\ DOMAIN disk \subseteq Nat
  BY <1>1 DEF Given, Temp
<1>4. /\ DOMAIN disk' = DOMAIN disk \cup {num, Temp(num)} /\ disk' = [f \in DOMAIN disk' |-> disk'[f]]
      /\ \A f \in DOMAIN disk : disk'[f] = disk[f]
  <2> HIDE DEF num
  <2> QED
    BY <1>2, <1>3 DEF Assign
<1>5. output'.stage = "fill" /\ output'.is_last \in BOOLEAN
  BY <1>2 DEF IsLastLevel
<1>6. FilesBounded'
  <2> HIDE DEF num
  <2> QED
    BY <1>3, <1>4, BoundedGrows DEF FileInv, StepsOK
<1>7. FileTypeOK'
  <2>1. output' \in [num : Nat, is_last : BOOLEAN, stage : Stages]
    BY <1>2, <1>3 DEF Stages, IsLastLevel
  <2> QED
    BY <1>2, <1>4, <1>5, <2>1 DEF FileTypeOK
<1>8. IdleOK' /\ CreatedEmpty' /\ RemoveOK'
  BY <1>2, <1>5 DEF IdleOK, CreatedEmpty, RemoveOK
<1>9. CacheOK'
  <2> SUFFICES ASSUME cached' # NoPage, ~ReadEmpty'
               PROVE  /\ cached'.file \in DOMAIN disk'
                      /\ cached'.offset \in Pages(disk'[cached'.file])
                      /\ cached'.page = PageOf(disk'[cached'.file], cached'.offset)
                      /\ cached'.file \notin {Older, Newer, Temp(num)}
    <3>1. Older' = Older /\ Newer' = Newer /\ Temp(output.num)' = Temp(num)
      BY <1>2 DEF Older, Newer, Temp
    <3> HIDE DEF num
    <3> QED
      BY <3>1 DEF CacheOK, ReadEmpty, Pages, PageOf
  <2>1. /\ cached' = cached /\ cached # NoPage
        /\ ~ \E i \in DOMAIN ThisLevel :
               cached.file = ThisLevel[i] /\ cached.offset < NumPages(disk[ThisLevel[i]])
    BY <1>2 DEF Invalidated
  <2>2. /\ cached.file \in DOMAIN disk
        /\ cached.offset \in Pages(disk[cached.file])
        /\ cached.page = PageOf(disk[cached.file], cached.offset)
        /\ disk[cached.file] # EmptyFile
    BY <2>1 DEF FileInv, StepsOK, CacheOK, ReadEmpty
  <2>3. IsFile(disk[cached.file])
    BY <1>1, <1>2, <2>2, RestingFiles
  <2>4. cached.offset < NumPages(disk[cached.file])
    BY <2>2, <2>3, PagesAreShort
  <2>5. DOMAIN ThisLevel = {1, 2} /\ ThisLevel[1] = Older /\ ThisLevel[2] = Newer
    <3>1. ThisLevel = <<Older, Newer>>
      BY <1>1 DEF Given, ThisLevel
    <3> QED
      BY <3>1, TwoFiles
  <2>6. cached.file \notin {Older, Newer}
    BY <2>1, <2>4, <2>5
  <2>7. cached.file # Temp(num)
    BY <1>3, <2>2
  <2> HIDE DEF num
  <2> QED
    BY <1>4, <2>1, <2>2, <2>6, <2>7
<1> QED
  BY <1>1, <1>6, <1>7, <1>8, <1>9 DEF StepsOK

\* No page is of the .tmp file.
LEMMA CopySteps ==
  ASSUME FileInv, FillTemp \/ RemoveTemp
  PROVE  StepsOK'
<1> DEFINE num == output.num
<1>1. /\ pc = "compact" /\ output.stage \in {"fill", "copy"}
      /\ UNCHANGED <<memtable, current_memtable_entries, levels, pc, current_level, cached, durable>>
      /\ \/ FillTemp /\ disk' = [disk EXCEPT ![Temp(num)] = TempFile(MergedRun)]
                     /\ output' = [output EXCEPT !.stage = "copy"]
         \/ RemoveTemp /\ disk' = [f \in DOMAIN disk \ {Temp(num)} |-> disk[f]]
                       /\ output' = [output EXCEPT !.stage = "index"]
  BY DEF FillTemp, RemoveTemp, MergeStep, Merging
<1>2. FileTypeOK /\ FilesBounded /\ CacheOK
  BY DEF FileInv, StepsOK
<1>3. output' \in [num : Nat, is_last : BOOLEAN, stage : Stages] /\ output'.stage \in {"copy", "index"}
      /\ output'.num = num
  BY <1>1, <1>2 DEF FileTypeOK, Stages
<1>4. /\ DOMAIN disk' \subseteq DOMAIN disk /\ disk' = [f \in DOMAIN disk' |-> disk'[f]]
      /\ \A f \in DOMAIN disk \ {Temp(num)} : f \in DOMAIN disk' /\ disk'[f] = disk[f]
  <2> HIDE DEF num
  <2>1. disk = [f \in DOMAIN disk |-> disk[f]]
    BY <1>2 DEF FileTypeOK
  <2> QED
    BY <1>1, <2>1
<1>5. MergeOK' /\ FillOK'
  BY CopyStep
<1>6. FilesBounded'
  BY <1>2, <1>4, BoundedKept
<1>7. FileTypeOK' /\ IdleOK' /\ CreatedEmpty' /\ RemoveOK'
  BY <1>1, <1>3, <1>4 DEF FileTypeOK, IdleOK, CreatedEmpty, RemoveOK
<1>8. CacheOK'
  <2>1. Older' = Older /\ Newer' = Newer /\ Temp(output.num)' = Temp(num)
    BY <1>1, <1>3 DEF Older, Newer, Temp
  <2> HIDE DEF num
  <2> QED
    BY <1>1, <1>2, <1>4, <2>1 DEF CacheOK, ReadEmpty, Pages, PageOf, num
<1> QED
  BY <1>5, <1>6, <1>7, <1>8 DEF StepsOK

\* AtomicInv, after a step.
LEMMA AtomicInvNext == A!DataInv' <=> AtomicMemtable' /\ AtomicTree' /\ AtomicFilesOK'
  BY AtomicInv, PTL

\* RemoveOK, after a step.
LEMMA RemoveOKNext ==
  ASSUME NEW o, NEW n, NEW num, Older' = o, Newer' = n, output'.num = num,
         n \in DOMAIN disk', num \in DOMAIN disk',
         \A f \in {o, n} \cap DOMAIN disk' : IsFile(disk'[f]),
         \A f \in DOMAIN disk' \ {o, n, num} : NewerFile(num, f),
         ~ReuseDeleted =>
           \A k \in Keys :
             IF ValuesIn(disk'[n], k) # {}
             THEN ValuesIn(disk'[num], k) = ValuesIn(disk'[n], k)
             ELSE o \in DOMAIN disk' => ValuesIn(disk'[num], k) = ValuesIn(disk'[o], k)
  PROVE  RemoveOK'
  BY DEF RemoveOK, NewerFile

\* An output that is complete holds, of each key, what the newer file has or
\* else what the older one has.
LEMMA OutputHolds ==
  ASSUME FileInv, CompleteOutput
  PROVE  RemoveOK'
<1> DEFINE num == output.num
<1>1. /\ pc = "compact" /\ output.stage = "index" /\ pc' = pc
      /\ disk' = [disk EXCEPT ![num] = BuildFile(MergedRun)]
      /\ UNCHANGED <<levels, current_level>>
  BY DEF CompleteOutput, MergeStep, Merging
<1>2. FileTypeOK /\ MergeOK /\ FillOK
  BY DEF FileInv, StepsOK
<1>3. output'.num = num /\ output'.stage = "remove"
  BY <1>2 DEF CompleteOutput, MergeStep, FileTypeOK
<1>4. num \in Nat /\ Older \in Nat /\ Newer \in Nat /\ Older < num /\ Newer < num /\ Older # Newer
  BY <1>1, <1>2, MergeNumbers
<1>5. /\ Temp(num) \notin DOMAIN disk /\ num \in DOMAIN disk
      /\ Older \in DOMAIN disk /\ Newer \in DOMAIN disk
  BY <1>1, <1>2 DEF FillOK
<1>6. Older' = Older /\ Newer' = Newer /\ ThisLevel' = ThisLevel /\ ThisLevel = <<Older, Newer>>
  BY <1>1, <1>2 DEF Older, Newer, ThisLevel, MergeOK
<1>7. DOMAIN AtomicDisk = DOMAIN disk \ {num} /\ \A f \in DOMAIN disk \ {num} : AtomicDisk[f] = disk[f]
  <2>1. AtomicDisk = [f \in DOMAIN disk \ {num, Temp(num)} |-> disk[f]]
    BY <1>1 DEF AtomicDisk, MergeDone
  <2> HIDE DEF num
  <2> QED
    BY <1>5, <2>1
<1>8. /\ DOMAIN AtomicDisk' = DOMAIN disk \ {Older, Newer}
      /\ \A f \in DOMAIN disk \ {Older, Newer} : AtomicDisk'[f] = disk'[f]
  <2>1. Range(ThisLevel) = {Older, Newer}
    BY <1>6, TwoFiles
  <2>2. AtomicDisk' = [f \in DOMAIN disk' \ Range(ThisLevel') |-> disk'[f]]
    BY <1>1, <1>3 DEF AtomicDisk, MergeDone
  <2>3. DOMAIN disk' = DOMAIN disk
    BY <1>1
  <2> QED
    BY <1>6, <2>1, <2>2, <2>3
<1>9. A!DataInv
  BY <1>1, CallInvariant
<1>10. A!CompactLevel
  BY CompleteStep, SameCompact
<1>11. PICK o, n, x : /\ A!CompactsTo(o, n, x) /\ A!Compacted(o, n, x)
                      /\ ~ReuseDeleted => \A k \in Keys : ~A!DropsKey(k, o, n)
  BY <1>9, <1>10, A!CompactHolds, SameAssumptions
<1>12. o = Older /\ n = Newer /\ x = num
  <2>1. AtomicLevel = current_level
    BY <1>1 DEF AtomicLevel, MergeDone
  <2>2. o = Older /\ n = Newer
    BY <1>11, <2>1 DEF A!CompactsTo, A!ToCompact, AtomicLevel, Older, Newer
  <2>3. DOMAIN AtomicDisk' = (DOMAIN AtomicDisk \cup {x}) \ {o, n}
    BY <1>11 DEF A!CompactsTo
  <2>4. num \in DOMAIN AtomicDisk' /\ num \notin DOMAIN AtomicDisk
    BY <1>4, <1>5, <1>7, <1>8
  <2> QED
    BY <2>2, <2>3, <2>4
<1>13. disk'[Older] = disk[Older] /\ disk'[Newer] = disk[Newer] /\ DOMAIN disk' = DOMAIN disk
  BY <1>1, <1>4, <1>5
<1>14. ASSUME NEW f \in {Older, Newer} PROVE IsFile(disk'[f])
  <2>1. AtomicFilesOK
    BY <1>9, AtomicInv
  <2>2. f \in DOMAIN AtomicDisk /\ AtomicDisk[f] = disk[f]
    BY <1>4, <1>5, <1>7
  <2> QED
    BY <1>13, <2>1, <2>2 DEF AtomicFilesOK, IsFile
<1>15. ASSUME ~ReuseDeleted, NEW k \in Keys
       PROVE  ValuesIn(disk'[num], k) = IF ValuesIn(disk'[Newer], k) # {} THEN ValuesIn(disk'[Newer], k)
                                        ELSE ValuesIn(disk'[Older], k)
  <2>1. k \in Keys \ A!Blanked
    BY <1>15 DEF A!Blanked
  <2>2. A!HeldFor(k)'[num] = IF A!HeldFor(k)[Newer] # {} THEN A!HeldFor(k)[Newer] ELSE A!HeldFor(k)[Older]
    BY <1>11, <1>12, <1>15, <2>1 DEF A!Compacted
  <2>3. A!HeldFor(k)'[num] = ValuesIn(disk'[num], k)
    <3>1. num \in DOMAIN AtomicDisk' /\ AtomicDisk'[num] = disk'[num]
      BY <1>4, <1>5, <1>8
    <3> QED
      BY <3>1, SameInvariant DEF A!HeldFor
  <2>4. A!HeldFor(k)[Newer] = ValuesIn(disk[Newer], k) /\ A!HeldFor(k)[Older] = ValuesIn(disk[Older], k)
    <3>1. Newer \in DOMAIN AtomicDisk /\ AtomicDisk[Newer] = disk[Newer]
          /\ Older \in DOMAIN AtomicDisk /\ AtomicDisk[Older] = disk[Older]
      BY <1>4, <1>5, <1>7
    <3> QED
      BY <3>1, SameInvariant DEF A!HeldFor
  <2> QED
    BY <1>13, <2>2, <2>3, <2>4
<1>16. ASSUME NEW f \in DOMAIN disk' \ {Older, Newer, num} PROVE NewerFile(num, f)
  <2>1. f \in DOMAIN AtomicDisk \ {Older, Newer}
    BY <1>7, <1>13
  <2>2. A!NewerFile(num, f)
    BY <1>11, <1>12, <2>1 DEF A!CompactsTo, A!ToCompact
  <2> QED
    BY <2>2 DEF A!NewerFile, NewerFile
<1> HIDE DEF num
<1> QED
  BY <1>3, <1>5, <1>6, <1>13, <1>14, <1>15, <1>16, RemoveOKNext

\* The pool has no page of the output before it is complete.
LEMMA CompleteSteps ==
  ASSUME FileInv, CompleteOutput
  PROVE  StepsOK'
<1> DEFINE num == output.num
<1>1. /\ pc = "compact" /\ output.stage = "index"
      /\ disk' = [disk EXCEPT ![num] = BuildFile(MergedRun)]
      /\ output' = [output EXCEPT !.stage = "remove"]
      /\ UNCHANGED <<memtable, current_memtable_entries, levels, pc, current_level, cached, durable>>
  BY DEF CompleteOutput, MergeStep, Merging
<1>2. FileTypeOK /\ FilesBounded /\ CacheOK /\ FillOK
  BY DEF FileInv, StepsOK
<1>3. output' \in [num : Nat, is_last : BOOLEAN, stage : Stages] /\ output'.stage = "remove" /\ output'.num = num
  BY <1>1, <1>2 DEF FileTypeOK, Stages
<1>4. /\ DOMAIN disk' = DOMAIN disk /\ disk' = [f \in DOMAIN disk' |-> disk'[f]]
      /\ \A f \in DOMAIN disk \ {num} : disk'[f] = disk[f]
      /\ num \in DOMAIN disk /\ disk[num] = EmptyFile
  <2>1. disk = [f \in DOMAIN disk |-> disk[f]] /\ num \in DOMAIN disk /\ disk[num] = EmptyFile
    BY <1>1, <1>2 DEF FileTypeOK, FillOK
  <2> DEFINE file == BuildFile(MergedRun)
  <2> HIDE DEF num, file
  <2>2. disk' = [disk EXCEPT ![num] = file]
    BY <1>1 DEF file
  <2> QED
    BY <2>1, <2>2
<1>5. MergeOK' /\ RemoveOK'
  BY CompleteStep, OutputHolds
<1>6. FilesBounded'
  BY <1>2, <1>4, BoundedKept
<1>7. FileTypeOK' /\ IdleOK' /\ CreatedEmpty' /\ FillOK'
  BY <1>1, <1>3, <1>4 DEF FileTypeOK, IdleOK, CreatedEmpty, FillOK
<1>8. CacheOK'
  <2>1. Older' = Older /\ Newer' = Newer /\ Temp(output.num)' = Temp(num)
    BY <1>1, <1>3 DEF Older, Newer, Temp
  <2> SUFFICES ASSUME cached # NoPage, ~ReadEmpty
               PROVE  /\ cached.file \in DOMAIN disk'
                      /\ cached.offset \in Pages(disk'[cached.file])
                      /\ cached.page = PageOf(disk'[cached.file], cached.offset)
                      /\ cached.file \notin {Older, Newer, Temp(num)}
    <3> HIDE DEF num
    <3> QED
      BY <1>1, <2>1 DEF CacheOK, ReadEmpty, Pages, PageOf
  <2>3. /\ cached.file \in DOMAIN disk
        /\ cached.offset \in Pages(disk[cached.file])
        /\ cached.page = PageOf(disk[cached.file], cached.offset)
        /\ cached.file \notin {Older, Newer, Temp(num)}
    BY <1>1, <1>2 DEF CacheOK
  <2>4. cached.file # num
    BY <1>4, <2>3 DEF ReadEmpty
  <2> HIDE DEF num
  <2> QED
    BY <1>4, <2>3, <2>4
<1> QED
  BY <1>5, <1>6, <1>7, <1>8 DEF StepsOK

\* The newer file and the output stay until the older file is gone, and the
\* pool has no page of either.
LEMMA RemoveSteps ==
  ASSUME FileInv, RemoveOld
  PROVE  StepsOK'
<1>1. /\ pc = "compact" /\ output.stage = "remove"
      /\ disk' = [f \in DOMAIN disk \ {NextOld} |-> disk[f]]
      /\ UNCHANGED <<memtable, current_memtable_entries, pc, cached, durable>>
      /\ IF Remaining = {NextOld}
         THEN current_level' = current_level + 1 /\ output' = NoOutput
         ELSE UNCHANGED <<levels, current_level, output>>
  BY DEF RemoveOld, Merging
<1>2. FileTypeOK /\ FilesBounded /\ CacheOK /\ MergeOK /\ RemoveOK
  BY DEF FileInv, StepsOK
<1>3. IF Older \in DOMAIN disk
      THEN Remaining # {NextOld} /\ NextOld = Older
      ELSE Remaining = {NextOld} /\ NextOld = Newer
  BY <1>1, <1>2, NextOldIs
<1>4. /\ DOMAIN disk' = DOMAIN disk \ {NextOld} /\ disk' = [f \in DOMAIN disk' |-> disk'[f]]
      /\ \A f \in DOMAIN disk \ {NextOld} : disk'[f] = disk[f]
  BY <1>1
<1>5. MergeOK'
  BY RemoveStep
<1>6. FilesBounded'
  BY <1>2, <1>4, BoundedKept
<1>7. Older < Newer /\ Newer < output.num /\ Older \in Nat /\ Newer \in Nat /\ output.num \in Nat
  BY <1>1, <1>2, MergeNumbers
<1>8. CASE Older \in DOMAIN disk
  <2>1. UNCHANGED <<levels, current_level, output>> /\ NextOld = Older
    BY <1>1, <1>3, <1>8
  <2>2. Older' = Older /\ Newer' = Newer /\ Temp(output.num)' = Temp(output.num)
    BY <2>1 DEF Older, Newer, Temp
  <2>3. RemoveOK'
    <3>1. Newer \in DOMAIN disk' /\ output.num \in DOMAIN disk' /\ Older \notin DOMAIN disk'
      BY <1>1, <1>2, <1>4, <1>7, <2>1 DEF RemoveOK
    <3>2. disk'[Newer] = disk[Newer] /\ disk'[output.num] = disk[output.num]
      BY <1>1, <1>2, <1>4, <1>7, <2>1 DEF RemoveOK
    <3>3. \A f \in DOMAIN disk' \ {Older, Newer, output.num} : NewerFile(output.num, f)
      BY <1>1, <1>2, <1>4 DEF RemoveOK
    <3> QED
      BY <1>1, <1>2, <2>1, <2>2, <3>1, <3>2, <3>3, RemoveOKNext DEF RemoveOK
  <2>4. FileTypeOK' /\ IdleOK' /\ CreatedEmpty' /\ FillOK'
    BY <1>1, <1>2, <1>4, <2>1 DEF FileTypeOK, IdleOK, CreatedEmpty, FillOK
  <2>5. CacheOK'
    BY <1>1, <1>2, <1>4, <2>1, <2>2 DEF CacheOK, ReadEmpty, Pages, PageOf
  <2> QED
    BY <1>5, <1>6, <2>3, <2>4, <2>5 DEF StepsOK
<1>9. CASE Older \notin DOMAIN disk
  <2>1. output' = NoOutput /\ NextOld = Newer /\ output'.stage = "none"
    BY <1>1, <1>3, <1>9 DEF NoOutput
  <2>2. FileTypeOK' /\ IdleOK' /\ CreatedEmpty' /\ FillOK' /\ RemoveOK'
    <3>1. NoOutput \in [num : Nat, is_last : BOOLEAN, stage : Stages]
      BY DEF NoOutput, Stages
    <3> QED
      BY <1>1, <1>4, <2>1, <3>1 DEF FileTypeOK, IdleOK, CreatedEmpty, FillOK, RemoveOK
  <2>3. CacheOK'
    BY <1>1, <1>2, <1>4, <2>1 DEF CacheOK, ReadEmpty, Pages, PageOf
  <2> QED
    BY <1>5, <1>6, <2>2, <2>3 DEF StepsOK
<1> QED
  BY <1>8, <1>9

\* When the loop ends, the directory and the levels have the same files.
LEMMA EndSteps ==
  ASSUME FileInv, EndOfCall
  PROVE  StepsOK'
<1>1. /\ pc = "compact" /\ pc' = "idle" /\ output.stage = "none" /\ current_level' = 0
      /\ ~NeedsCompaction
      /\ UNCHANGED <<levels, disk, output, cached, durable>>
  BY DEF EndOfCall, Merging, StopCompaction
<1>2. Resting
  BY <1>1, NotWriting
<1>3. AtomicLevels = levels /\ AtomicDisk = disk /\ AtomicPc = "compact" /\ AtomicLevel = current_level
  BY <1>1, <1>2, AtRest
<1>4. AtomicTree /\ AtomicFilesOK
  BY <1>1, CallInvariant, AtomicInv
<1>5. Settled
  <2>1. Numbered(levels) /\ levels \in Seq(Seq(Nat)) /\ current_level \in Nat /\ current_level < Len(levels)
    BY <1>3, <1>4 DEF AtomicTree
  <2>2. ASSUME NEW i \in DOMAIN levels PROVE Len(levels[i]) <= 1
    <3>1. CASE i = current_level + 1
      <4>1. PICK n \in Nat : n = Len(levels[i])
        BY <2>1
      <4>2. ~ (n >= 2)
        BY <1>1, <2>1, <3>1, <4>1 DEF NeedsCompaction, SIZE_RATIO
      <4> QED
        BY <4>1, <4>2
    <3>2. CASE i # current_level + 1
      BY <1>3, <1>4, <3>2 DEF AtomicTree
    <3> QED
      BY <3>1, <3>2
  <2> QED
    BY <2>1, <2>2 DEF Settled
<1>6. IdleOK'
  <2>1. Settled'
    BY <1>1, <1>5 DEF Settled
  <2>2. FilesIn(levels) = DOMAIN disk
    BY <1>3, <1>4 DEF AtomicFilesOK
  <2> QED
    BY <1>1, <2>1, <2>2 DEF IdleOK
<1>7. FilesBounded'
  BY <1>1, BoundedKept DEF FileInv, StepsOK
<1>8. output = NoOutput /\ output'.stage = "none"
  BY <1>1 DEF FileInv, StepsOK, FileTypeOK
<1>9. FileTypeOK' /\ CreatedEmpty' /\ MergeOK' /\ FillOK' /\ RemoveOK'
  BY <1>1, <1>8 DEF FileInv, StepsOK, FileTypeOK, CreatedEmpty, MergeOK, FillOK, RemoveOK
<1>10. CacheOK'
  BY <1>1, <1>8 DEF FileInv, StepsOK, CacheOK, ReadEmpty, Pages, PageOf
<1> QED
  BY <1>6, <1>7, <1>9, <1>10 DEF StepsOK

\* After a crash the levels have every file of the directory, and only where
\* it is tidy they have one at most.
LEMMA CrashSteps ==
  ASSUME FileInv, Crash
  PROVE  StepsOK'
<1>1. /\ levels' \in LoadedLevels /\ pc' = "idle" /\ current_level' = 0 /\ output' = NoOutput
      /\ cached' = NoPage /\ UNCHANGED <<disk, durable>>
  BY DEF Crash
<1>2. Loaded(levels')
  <2> DEFINE ls == levels'
  <2>1. FilesBounded /\ ls \in LoadedLevels
    BY <1>1 DEF FileInv, StepsOK
  <2> HIDE DEF ls
  <2>2. Loaded(ls)
    BY <2>1, LoadedLevel
  <2> QED
    BY <2>2 DEF ls
<1>3. FilesIn(levels') = DOMAIN disk /\ (Tidy => Settled')
  <2> DEFINE ls == levels'
  <2>1. Loaded(ls)
    BY <1>2
  <2> HIDE DEF ls
  <2>2. FilesIn(ls) = DOMAIN disk
    BY <2>1, LoadedFiles
  <2>3. Tidy => Numbered(ls) /\ \A i \in DOMAIN ls : Len(ls[i]) <= 1
    BY <2>1, TidyLevels
  <2>4. Settled' <=> Numbered(ls) /\ \A i \in DOMAIN ls : Len(ls[i]) <= 1
    BY DEF Settled, ls
  <2> QED
    BY <2>2, <2>3, <2>4 DEF ls
<1>4. IdleOK'
  BY <1>1, <1>3 DEF IdleOK, Tidy
<1>5. FilesBounded'
  BY <1>1, BoundedKept DEF FileInv, StepsOK
<1>6. NoOutput \in [num : Nat, is_last : BOOLEAN, stage : Stages] /\ NoOutput.stage = "none"
  BY DEF NoOutput, Stages
<1>7. FileTypeOK' /\ CreatedEmpty' /\ MergeOK' /\ FillOK' /\ RemoveOK' /\ CacheOK'
  BY <1>1, <1>6 DEF FileInv, StepsOK, FileTypeOK, CreatedEmpty, MergeOK, FillOK, RemoveOK, CacheOK
<1> QED
  BY <1>4, <1>5, <1>7 DEF StepsOK

\* A step that changes nothing.
LEMMA StutterSteps ==
  ASSUME FileInv, UNCHANGED file_vars
  PROVE  StepsOK'
<1>1. UNCHANGED <<memtable, current_memtable_entries, levels, disk, pc, current_level, output, cached, durable>>
  BY DEF file_vars, vars
<1>2. FilesBounded'
  BY <1>1, BoundedKept DEF FileInv, StepsOK
<1>3. FileTypeOK' /\ IdleOK' /\ CreatedEmpty'
  BY <1>1 DEF FileInv, StepsOK, FileTypeOK, IdleOK, CreatedEmpty, Settled, Tidy, SSTNumber
<1>4. Older' = Older /\ Newer' = Newer /\ ThisLevel' = ThisLevel /\ MergedRun' = MergedRun
  BY <1>1 DEF Older, Newer, ThisLevel, MergedRun
<1>5. MergeOK' /\ FillOK'
  BY <1>1, <1>4 DEF FileInv, StepsOK, MergeOK, FillOK
<1>6. RemoveOK' /\ CacheOK'
  BY <1>1, <1>4 DEF FileInv, StepsOK, RemoveOK, CacheOK, ReadEmpty
<1> QED
  BY <1>2, <1>3, <1>5, <1>6 DEF StepsOK

\* Every step keeps what is written of the files.
LEMMA NextSteps ==
  FileInv /\ [FileNext]_file_vars => StepsOK'
  BY ClientSteps, ReadSteps, CreateSteps, WriteSteps, StartSteps, CopySteps, CompleteSteps,
     RemoveSteps, EndSteps, CrashSteps, StutterSteps DEF FileNext

-----------------------------------------------------------------------------
(* The invariant: the store as KVStore has it                              *)

\* A settled tree is of a tidy directory.
LEMMA SettledIsTidy ==
  ASSUME NEW ls, Loaded(ls), Numbered(ls), \A i \in DOMAIN ls : Len(ls[i]) <= 1
  PROVE  Tidy
<1> SUFFICES ASSUME NEW f \in DOMAIN disk PROVE f \in Nat /\ f % 2 = 0
  BY DEF Tidy
<1> DEFINE i == LevelOf(f) + 1
<1>1. i \in DOMAIN ls /\ i \in Nat /\ i - 1 \in Nat /\ f \in FilesOf(i - 1)
  BY DEF Loaded, FilesOf
<1> HIDE DEF i
<1>2. PICK j \in DOMAIN ls[i] : ls[i][j] = f
  BY <1>1, ListingHas DEF Loaded
<1>3. j = 1
  <2>1. ls[i] \in Seq(FilesOf(i - 1))
    BY <1>1, ListingHas DEF Loaded
  <2>2. PICK n \in Nat : n = Len(ls[i])
    BY <2>1
  <2>3. j \in 1 .. n /\ n <= 1
    BY <1>1, <1>2, <2>1, <2>2
  <2> QED
    BY <2>3
<1>4. f = (i - 1) * SIZE_RATIO + (j - 1)
  BY <1>1, <1>2 DEF Numbered
<1>5. PICK m \in Nat : m = i - 1
  BY <1>1
<1>6. f = 2 * m
  BY <1>3, <1>4, <1>5 DEF SIZE_RATIO
<1> QED
  BY ONLY <1>6, m \in Nat

\* While a merge is under way the newer file is there, whose number is odd.
LEMMA MergeIsUntidy ==
  ASSUME FileInv, output.stage # "none"
  PROVE  ~Tidy
<1>1. FileTypeOK /\ MergeOK /\ FillOK /\ RemoveOK
  BY DEF FileInv, StepsOK
<1>2. output.stage \in {"fill", "copy", "index", "remove"}
  BY <1>1 DEF FileTypeOK, Stages
<1>3. Newer \in DOMAIN disk
  BY <1>1, <1>2 DEF FillOK, RemoveOK
<1>4. current_level \in Nat
  BY <1>1 DEF MergeOK
<1>5. Newer % 2 = 1
  BY <1>4 DEF Newer
<1> QED
  BY <1>3, <1>5 DEF Tidy

\* If the process ends where the directory is tidy, its files are in order: no
\* merge was under way, and a file that a flush had created is empty.
LEMMA TidyDirectory ==
  ASSUME FileInv, Tidy
  PROVE  DirectoryOK
<1>1. output.stage = "none" /\ disk = [f \in DOMAIN disk |-> disk[f]]
  BY MergeIsUntidy DEF FileInv, StepsOK, FileTypeOK
<1>2. A!DataInv
  BY DEF FileInv, StepsOK, InOrder, IdleOK
<1>3. AtomicFilesOK
  BY <1>2, AtomicInv
<1>4. CASE pc # "write"
  <2>1. AtomicDisk = disk
    BY <1>1, <1>4, NotWriting, AtRest
  <2>2. \A k : HeldFor(k) = AtomicHeld(k)
    BY <2>1 DEF HeldFor, AtomicHeld
  <2> QED
    BY <1>1, <1>3, <2>1, <2>2 DEF AtomicFilesOK, DirectoryOK, FilesAreSSTs
<1>5. CASE pc = "write"
  <2>1. 0 \in DOMAIN disk /\ disk[0] = EmptyFile /\ SSTNumber = 0
    <3>1. SSTNumber \in DOMAIN disk /\ disk[SSTNumber] = EmptyFile
      BY <1>5 DEF FileInv, StepsOK, CreatedEmpty
    <3>2. SSTNumber \in {0, 1} /\ SSTNumber % 2 = 0
      BY <3>1 DEF SSTNumber, Tidy
    <3> QED
      BY <3>1, <3>2
  <2>2. AtomicDisk = [f \in DOMAIN disk \ {0} |-> disk[f]]
    BY <1>5, <2>1 DEF AtomicDisk
  <2>3. FilesAreSSTs
    BY <1>3, <2>1, <2>2 DEF AtomicFilesOK, FilesAreSSTs
  <2>4. ASSUME ~ReuseDeleted, NEW k \in Keys, NEW f \in DOMAIN disk, TOMB_STONE \in HeldFor(k)[f]
        PROVE  NewestAt(HeldFor(k), f)
    <3>1. ValuesIn(EmptyFile, k) = {}
      BY DEF ValuesIn, LeafEntries, EmptyFile
    <3>2. HeldFor(k)[0] = {} /\ f # 0 /\ DOMAIN HeldFor(k) = DOMAIN disk
      BY <2>1, <2>4, <3>1 DEF HeldFor
    <3>3. DOMAIN AtomicHeld(k) = DOMAIN disk \ {0}
          /\ \A g \in DOMAIN disk \ {0} : AtomicHeld(k)[g] = HeldFor(k)[g]
      BY <2>2 DEF HeldFor, AtomicHeld
    <3>4. NewestAt(AtomicHeld(k), f)
      BY <1>3, <2>2, <2>4, <3>2, <3>3 DEF AtomicFilesOK
    <3> QED
      BY <3>2, <3>3, <3>4 DEF NewestAt
  <2> QED
    BY <1>1, <2>3, <2>4 DEF DirectoryOK
<1> QED
  BY <1>4, <1>5

\* A store at rest is as KVStore has it, invariant and all.
LEMMA AtRestInvNext ==
  ASSUME Resting', DataInv'
  PROVE  A!DataInv'
<1>1. /\ AtomicLevels' = levels' /\ AtomicDisk' = disk' /\ AtomicPc' = pc' /\ AtomicLevel' = current_level'
  BY AtRestNext
<1>2. AtomicMemtable'
  BY <1>1 DEF AtomicMemtable, DataInv, IndInv, TypeOK, CountBelowSize, FlushHasEntries
<1>3. AtomicTree'
  BY <1>1 DEF AtomicTree, DataInv, IndInv, TypeOK, TreeShape, LoopLeavesEmpty
<1>4. AtomicFilesOK'
  <2>1. \A k : AtomicHeld(k)' = HeldFor(k)'
    BY <1>1 DEF AtomicHeld, HeldFor
  <2> QED
    BY <1>1, <2>1 DEF AtomicFilesOK, DataInv, IndInv, TypeOK, TreeShape, FilesAreSSTs, TombstonesAreNewest
<1> QED
  BY <1>2, <1>3, <1>4, AtomicInvNext

\* After a crash into a settled tree the store is as KVStore has it.
LEMMA CrashSettled ==
  ASSUME FileInv, Crash, Settled'
  PROVE  Tidy /\ A!DataInv' /\ DataInv'
<1>1. /\ levels' \in LoadedLevels /\ pc' = "idle" /\ current_level' = 0 /\ output' = NoOutput
      /\ memtable' = EmptyMap /\ current_memtable_entries' = 0 /\ disk' = disk
  BY DEF Crash
<1>2. Loaded(levels') /\ Tidy
  <2> DEFINE ls == levels'
  <2>1. FilesBounded /\ ls \in LoadedLevels
    BY <1>1 DEF FileInv, StepsOK
  <2>2. Numbered(ls) /\ \A i \in DOMAIN ls : Len(ls[i]) <= 1
    BY DEF Settled
  <2> HIDE DEF ls
  <2>3. Loaded(ls)
    BY <2>1, LoadedLevel
  <2>4. Tidy
    BY <2>2, <2>3, SettledIsTidy
  <2> QED
    BY <2>3, <2>4 DEF ls
<1>3. DirectoryOK
  BY <1>2, TidyDirectory
<1>4. DataInv'
  BY <1>1, <1>2, <1>3, Reopened
<1>5. Resting'
  BY <1>1, <1>3 DEF Resting, DirectoryOK
<1> QED
  BY <1>2, <1>4, <1>5, AtRestInvNext

\* Every step keeps the invariant of the store, except where a crash leaves
\* more than one file in a level.
LEMMA StoreKept ==
  ASSUME FileInv, [FileNext]_file_vars, InOrder'
  PROVE  A!DataInv' /\ (~Crash => InOrder)
<1>1. CASE Crash
  <2>1. Settled'
    BY <1>1 DEF Crash, InOrder
  <2> QED
    BY <1>1, <2>1, CrashSettled
<1>2. CASE ~Crash
  <2>1. InOrder
    <3> SUFFICES ASSUME pc = "idle" PROVE Settled
      BY DEF InOrder
    <3>1. ClientCall \/ ReadPage \/ EvictPage \/ UNCHANGED file_vars
      BY <1>2 DEF FileNext, CreateSST, WriteSST, StartMerge, FillTemp, RemoveTemp, CompleteOutput,
                  MergeStep, RemoveOld, EndOfCall, Merging
    <3>2. CASE ClientCall
      BY <3>2 DEF ClientCall
    <3>3. CASE ReadPage \/ EvictPage \/ UNCHANGED file_vars
      <4>1. levels' = levels /\ pc' = pc
        BY <3>3 DEF ReadPage, EvictPage, file_vars, vars
      <4> QED
        BY <4>1 DEF InOrder, Settled
    <3> QED
      BY <3>1, <3>2, <3>3
  <2>2. A!DataInv
    BY <2>1 DEF FileInv
  <2>3. [A!Next]_(A!vars)
    BY <1>2, StepIsAtomic, SameNext
  <2> QED
    BY <1>2, <2>1, <2>2, <2>3, A!NextDataInv, SameAssumptions
<1> QED
  BY <1>1, <1>2

-----------------------------------------------------------------------------
(* The invariant: what is durable                                          *)

\* Under the contract no key is blanked, in the instance either.
LEMMA NoneBlanked ==
  ASSUME ~ReuseDeleted, NEW k \in Keys
  PROVE  k \in Keys \ Blanked /\ k \in Keys \ A!Blanked
  BY DEF Blanked, A!Blanked

\* What the files have for a key, in the instance.
LEMMA AtomicHolds ==
  ASSUME NEW k
  PROVE  A!HeldFor(k) = AtomicHeld(k) /\ A!HeldFor(k)' = AtomicHeld(k)'
  BY SameInvariant DEF A!HeldFor, AtomicHeld

\* NewestOnDisk in terms of the files that KVStore sees.
Answers(V, v) ==
  /\ \A w : Shows(V, w) => v = Shown(w) /\ w \in Values \cup {TOMB_STONE}
  /\ Bare(V) => v = INVALID_VALUE
  /\ Bare(V) \/ \E w : Shows(V, w)

\* What KVStore finds in its files is the answer they give.
LEMMA AtomicAnswers ==
  ASSUME A!DataInv, NEW k \in Keys \ A!Blanked
  PROVE  Answers(AtomicHeld(k), A!NewestOnDisk(k))
<1>1. A!DiskAnswers
  BY A!DiskAnswersHolds, SameAssumptions
<1> QED
  BY <1>1, AtomicHolds, SameInvariant DEF A!DiskAnswers, Answers

\* The same after a step.
LEMMA AtomicAnswersNext ==
  ASSUME A!DataInv', NEW k \in Keys \ A!Blanked
  PROVE  Answers(AtomicHeld(k)', A!NewestOnDisk(k)')
<1>1. A!DiskAnswers'
  BY A!DiskAnswersNext, SameAssumptions
<1>2. \A v : A!Shown(v)' = Shown(v)
  BY DEF A!Shown, Shown
<1> QED
  BY <1>1, <1>2, AtomicHolds, SameInvariant DEF A!DiskAnswers, Answers

\* Two answers from files that show the same are the same.
LEMMA OneAnswer ==
  ASSUME NEW V, NEW W, NEW v, NEW w, Answers(V, v), Answers(W, w),
         \A x : Shows(V, x) => Shows(W, x), Bare(V) => Bare(W)
  PROVE  v = w
  BY DEF Answers

\* While a flush has created its file, what is durable is in the other files:
\* the new one is not in the tree.
LEMMA WriteShown ==
  ASSUME FileInv, pc = "write", NEW k \in Keys \ A!Blanked
  PROVE  NewestOnDisk(k) = A!NewestOnDisk(k)
<1>1. A!DataInv /\ A!IndInv
  BY CallInvariant DEF A!DataInv
<1>2. output.stage = "none"
  BY DEF FileInv, StepsOK, FileTypeOK
<1>3. AtomicLevels = levels /\ AtomicDisk = [f \in DOMAIN disk \ {SSTNumber} |-> disk[f]]
  BY <1>2 DEF AtomicLevels, AtomicDisk, MergeDone
<1>4. A!Places = Places /\ \A p : A!FileOf(p) = FileOf(p)
  BY <1>3 DEF A!Places, Places, A!FileOf, FileOf
<1>5. ASSUME NEW p \in Places PROVE A!Stored(p, k) = Stored(p, k)
  <2>1. FileOf(p) \in DOMAIN AtomicDisk
    BY <1>1, <1>4, A!PlacesAreFiles, SameAssumptions
  <2>2. AtomicDisk[FileOf(p)] = disk[FileOf(p)]
    BY <1>3, <2>1
  <2>3. A!FileAt(p) = FileAt(p)
    BY <1>3, <2>2 DEF A!FileAt, FileAt, FileOf
  <2>4. A!LeafEntries(A!FileAt(p)) = LeafEntries(FileAt(p))
    BY <2>3 DEF A!LeafEntries, LeafEntries
  <2> QED
    BY <2>4 DEF A!Stored, Stored
<1>6. \A p, q : A!NewerThan(p, q) <=> NewerThan(p, q)
  BY DEF A!NewerThan, NewerThan
<1>7. CASE \A p \in Places : Stored(p, k) = {}
  BY <1>4, <1>5, <1>7 DEF NewestOnDisk, A!NewestOnDisk
<1>8. CASE ~ \A p \in Places : Stored(p, k) = {}
  <2> DEFINE First(p) == Stored(p, k) # {} /\ \A q \in Places : NewerThan(q, p) => Stored(q, k) = {}
             AFirst(p) == A!Stored(p, k) # {} /\ \A q \in A!Places : A!NewerThan(q, p) => A!Stored(q, k) = {}
             newest == CHOOSE p \in Places : First(p)
             anewest == CHOOSE p \in A!Places : AFirst(p)
  <2>1. PICK f \in DOMAIN AtomicDisk : A!NewestAt(A!HeldFor(k), f)
    <3>1. Answers(AtomicHeld(k), A!NewestOnDisk(k))
      BY <1>1, AtomicAnswers
    <3>2. ~Bare(AtomicHeld(k))
      <4>1. PICK p \in Places : Stored(p, k) # {}
        BY <1>8
      <4>2. A!FileOf(p) \in DOMAIN A!HeldFor(k) /\ A!Stored(p, k) = A!HeldFor(k)[A!FileOf(p)]
        BY <1>1, <1>4, A!StoredIsHeld, SameAssumptions
      <4> QED
        BY <1>5, <4>1, <4>2, AtomicHolds DEF Bare
    <3>3. PICK v : Shows(AtomicHeld(k), v)
      BY <3>1, <3>2 DEF Answers
    <3>4. PICK f \in DOMAIN AtomicHeld(k) : NewestAt(AtomicHeld(k), f)
      BY <3>3 DEF Shows
    <3>5. f \in DOMAIN AtomicDisk
      BY <3>4 DEF AtomicHeld
    <3> QED
      BY <3>4, <3>5, AtomicHolds, SameInvariant
  <2>2. /\ A!PlaceOf(f) \in A!Places
        /\ \A p \in A!Places : AFirst(p) <=> p = A!PlaceOf(f)
    BY <1>1, <2>1, A!NewestPlace, SameAssumptions
  <2>3. \A p \in Places : First(p) <=> AFirst(p)
    BY <1>4, <1>5, <1>6
  <2>4. NewestOnDisk(k) = Shown(CHOOSE v \in Stored(newest, k) : TRUE)
    BY <1>8 DEF NewestOnDisk
  <2>5. A!NewestOnDisk(k) = A!Shown(CHOOSE v \in A!Stored(anewest, k) : TRUE)
    BY <1>4, <1>5, <1>8 DEF A!NewestOnDisk
  <2> HIDE DEF First, AFirst
  <2>6. newest = A!PlaceOf(f) /\ anewest = A!PlaceOf(f)
    BY <1>4, <2>2, <2>3
  <2>7. newest = anewest /\ newest \in Places
    BY <1>4, <2>2, <2>6
  <2> HIDE DEF newest, anewest
  <2>8. A!Stored(anewest, k) = Stored(newest, k)
    BY <1>5, <2>7
  <2> QED
    BY <2>4, <2>5, <2>8, SameInvariant
<1> QED
  BY <1>7, <1>8

\* Writing the file of a flush makes everything durable.
LEMMA WriteDurable ==
  ASSUME FileInv, WriteSST, ~ReuseDeleted, NEW k \in Keys
  PROVE  durable'[k] = A!NewestOnDisk(k)'
<1>1. pc = "write" /\ durable' = [x \in Keys |-> Newest(x)]
  BY DEF WriteSST
<1>2. A!DataInv /\ k \in Keys \ A!Blanked
  BY <1>1, CallInvariant, NoneBlanked
<1>3. A!Flush
  BY WriteStep, SameFlush
<1>4. A!NewestOnDisk(k)' = A!Newest(k)
  BY <1>2, <1>3, A!FlushShows, SameAssumptions
<1>5. A!NewestOnDisk(k) = NewestOnDisk(k)
  BY <1>1, <1>2, WriteShown
<1>6. A!Newest(k) = Newest(k)
  BY <1>5, SameInvariant DEF A!Newest, Newest
<1> QED
  BY <1>1, <1>4, <1>6

\* A crash into a settled tree keeps it: at most it has found an empty file.
LEMMA CrashDurable ==
  ASSUME FileInv, Crash, Settled', ~ReuseDeleted, NEW k \in Keys
  PROVE  InOrder /\ A!NewestOnDisk(k)' = A!NewestOnDisk(k)
<1>1. Tidy /\ A!DataInv'
  BY CrashSettled
<1>2. InOrder /\ A!DataInv
  BY <1>1 DEF FileInv, StepsOK, InOrder, IdleOK
<1>3. k \in Keys \ A!Blanked
  BY NoneBlanked
<1>4. /\ Answers(AtomicHeld(k), A!NewestOnDisk(k))
      /\ Answers(AtomicHeld(k)', A!NewestOnDisk(k)')
  BY <1>1, <1>2, <1>3, AtomicAnswers, AtomicAnswersNext
<1> DEFINE V == AtomicHeld(k)  W == AtomicHeld(k)'
<1>5. output.stage = "none" /\ disk = [f \in DOMAIN disk |-> disk[f]]
  BY <1>1, MergeIsUntidy DEF FileInv, StepsOK, FileTypeOK
<1>6. AtomicDisk' = disk
  <2>1. Resting'
    BY <1>5 DEF Crash, Resting
  <2> QED
    BY <2>1, AtRestNext DEF Crash
<1>7. (\A x : Shows(V, x) => Shows(W, x)) /\ (Bare(V) => Bare(W))
  <2>1. CASE pc # "write"
    <3>1. AtomicDisk = disk
      BY <1>5, <2>1, NotWriting, AtRest
    <3>2. V = W
      BY <1>6, <3>1 DEF AtomicHeld
    <3> HIDE DEF V, W
    <3> QED
      BY <3>2
  <2>2. CASE pc = "write"
    <3>1. SSTNumber \in DOMAIN disk /\ disk[SSTNumber] = EmptyFile
      BY <2>2 DEF FileInv, StepsOK, CreatedEmpty
    <3>2. AtomicDisk = [f \in DOMAIN disk \ {SSTNumber} |-> disk[f]]
      BY <2>2 DEF AtomicDisk
    <3>3. ValuesIn(EmptyFile, k) = {}
      BY DEF ValuesIn, LeafEntries, EmptyFile
    <3>4. /\ DOMAIN W = DOMAIN V \cup {SSTNumber} /\ W[SSTNumber] = {}
          /\ \A f \in DOMAIN V : W[f] = V[f]
      BY <1>6, <3>1, <3>2, <3>3 DEF AtomicHeld
    <3> HIDE DEF V, W
    <3> QED
      BY <3>4 DEF Shows, Bare, NewestAt
  <2> QED
    BY <2>1, <2>2
<1> HIDE DEF V, W
<1>8. A!NewestOnDisk(k) = A!NewestOnDisk(k)'
  BY <1>4, <1>7, OneAnswer DEF V, W
<1> QED
  BY <1>2, <1>8

\* Every step keeps what is durable where lookups find it.
LEMMA DurableKept ==
  ASSUME FileInv, [FileNext]_file_vars
  PROVE  DurableOK'
<1> SUFFICES ASSUME ~ReuseDeleted, InOrder', NEW k \in Keys
             PROVE  durable'[k] = A!NewestOnDisk(k)'
  BY DEF DurableOK
<1>1. CASE Crash
  <2>1. Settled' /\ durable' = durable
    BY <1>1 DEF Crash, InOrder
  <2>2. InOrder /\ A!NewestOnDisk(k)' = A!NewestOnDisk(k)
    BY <1>1, <2>1, CrashDurable
  <2> QED
    BY <2>1, <2>2 DEF FileInv, DurableOK
<1>2. CASE WriteSST
  BY <1>2, WriteDurable
<1>3. CASE ~Crash /\ ~WriteSST
  <2>1. InOrder /\ A!DataInv
    BY <1>3, StoreKept DEF FileInv
  <2>2. durable[k] = A!NewestOnDisk(k)
    BY <2>1 DEF FileInv, DurableOK
  <2>3. durable' = durable
    BY <1>3 DEF FileNext, file_vars, vars, ClientCall, ReadPage, EvictPage, CreateSST, StartMerge, FillTemp, RemoveTemp,
                CompleteOutput, MergeStep, RemoveOld, EndOfCall
  <2>4. CASE CompleteOutput
    <3>1. A!CompactLevel
      BY <2>4, CompleteStep, SameCompact
    <3>2. k \in Keys \ A!Blanked
      BY NoneBlanked
    <3>3. A!NewestOnDisk(k)' = A!NewestOnDisk(k)
      BY <2>1, <3>1, <3>2, A!CompactShows, SameAssumptions
    <3> QED
      BY <2>2, <2>3, <3>3
  <2>5. CASE ~CompleteOutput
    <3>1. AtomicLevels' = AtomicLevels /\ AtomicDisk' = AtomicDisk
      <4>1. CASE ReadPage \/ EvictPage
        BY <4>1, ReadPageStep DEF Quiet
      <4>2. CASE CreateSST
        BY <4>2, CreateStep DEF Quiet
      <4>3. CASE StartMerge
        BY <4>3, StartStep DEF Quiet
      <4>4. CASE FillTemp \/ RemoveTemp
        BY <4>4, CopyStep DEF Quiet
      <4>5. CASE RemoveOld
        BY <4>5, RemoveStep DEF Quiet
      <4>6. CASE ClientCall \/ EndOfCall \/ UNCHANGED file_vars
        <5>2. CASE EndOfCall
          <6>1. pc = "compact" /\ output.stage = "none" /\ UNCHANGED <<levels, disk, output>> /\ pc' = "idle"
            BY <5>2 DEF EndOfCall, Merging, StopCompaction
          <6>2. Resting
            BY <6>1, NotWriting
          <6>3. Resting'
            BY <6>1, <6>2 DEF Resting
          <6> QED
            BY <6>1, <6>2, <6>3, AtRest, AtRestNext
        <5>3. CASE ClientCall
          <6>1. pc = "idle" /\ pc' # "write" /\ UNCHANGED <<levels, disk, output>>
            BY <5>3 DEF ClientCall, Put, Delete, Close
          <6>2. output.stage = "none"
            BY <6>1 DEF FileInv, StepsOK, FileTypeOK
          <6>3. Resting
            BY <6>1, <6>2, NotWriting
          <6>4. Resting'
            BY <6>1, <6>3 DEF Resting
          <6> QED
            BY <6>1, <6>3, <6>4, AtRest, AtRestNext
        <5>4. CASE UNCHANGED file_vars
          BY <5>4 DEF file_vars, vars, AtomicLevels, AtomicDisk, MergeDone, ThisLevel, SSTNumber
        <5> QED
          BY <4>6, <5>2, <5>3, <5>4
      <4> QED
        BY <1>3, <2>5, <4>1, <4>2, <4>3, <4>4, <4>5, <4>6 DEF FileNext
    <3>2. A!NewestOnDisk(k)' = A!NewestOnDisk(k)
      BY <3>1, A!TreeKept, SameAssumptions
    <3> QED
      BY <2>2, <2>3, <3>2
  <2> QED
    BY <2>4, <2>5
<1> QED
  BY <1>1, <1>2, <1>3

-----------------------------------------------------------------------------
(* The invariant holds in every state                                      *)

\* A new store has no file, and nothing is durable.
LEMMA FileInitInv == FileInit => FileInv
<1> SUFFICES ASSUME FileInit PROVE FileInv
  OBVIOUS
<1>1. /\ memtable = EmptyMap /\ current_memtable_entries = 0 /\ levels = <<>> /\ disk = EmptyMap
      /\ pc = "idle" /\ current_level = 0 /\ output = NoOutput /\ cached = NoPage
      /\ durable = [k \in Keys |-> INVALID_VALUE]
  BY DEF FileInit, Init
<1>2. DOMAIN disk = {} /\ disk = [f \in DOMAIN disk |-> disk[f]] /\ output.stage = "none"
      /\ NoOutput \in [num : Nat, is_last : BOOLEAN, stage : Stages]
  BY <1>1 DEF EmptyMap, NoOutput, Stages
<1>3. FilesBounded
  <2>1. 0 \in Nat /\ DOMAIN disk \subseteq -0 .. 0
    BY <1>2
  <2> QED
    BY <2>1 DEF FilesBounded
<1>4. IdleOK
  <2>1. FilesIn(levels) = {} /\ Settled
    BY <1>1 DEF FilesIn, Settled, Numbered
  <2> QED
    BY <1>1, <1>2, <2>1 DEF IdleOK
<1>5. StepsOK
  BY <1>1, <1>2, <1>3, <1>4 DEF StepsOK, FileTypeOK, CreatedEmpty, MergeOK, FillOK, RemoveOK, CacheOK
<1>6. /\ AtomicLevels = levels /\ AtomicDisk = disk /\ ~MergeDone /\ AtomicPc = pc /\ AtomicLevel = current_level
  <2>1. Resting
    BY <1>1, <1>2 DEF Resting
  <2> QED
    BY <2>1, AtRest
<1>7. A!DataInv
  <2>1. A!Init
    BY <1>1, <1>6 DEF A!Init, A!EmptyMap, EmptyMap, AtomicPc, AtomicLevel
  <2> QED
    BY <2>1, A!InitDataInv, SameAssumptions
<1>8. DurableOK
  <2> SUFFICES ASSUME NEW k \in Keys PROVE durable[k] = A!NewestOnDisk(k)
    BY DEF DurableOK
  <2>1. A!Places = {}
    BY <1>1, <1>6 DEF A!Places
  <2>2. A!NewestOnDisk(k) = INVALID_VALUE
    BY <2>1 DEF A!NewestOnDisk
  <2> QED
    BY <1>1, <2>2
<1> QED
  BY <1>5, <1>7, <1>8 DEF FileInv

\* Every step keeps it.
LEMMA FileNextInv == FileInv /\ [FileNext]_file_vars => FileInv'
  BY NextSteps, StoreKept, DurableKept DEF FileInv

\* A store whose process may end anywhere keeps its invariant.
LEMMA FileInvariance == FileSpec => []FileInv
  BY FileInitInv, FileNextInv, PTL DEF FileSpec

-----------------------------------------------------------------------------
(* What the store promises                                                 *)

\* Taken together, the file operations of a flush and of an iteration of the
\* compaction loop are one step of KVStore, whatever crash has come before
\* (kv_store.cpp, level.cpp:62-99): what is proved of KVStore holds of this
\* store as long as no call is cut short.
THEOREM FileOperationsAreAtomic == FileSpec => CallsAreAtomic
<1>1. FileInv /\ [FileNext]_file_vars => [(Crash /\ pc # "idle") \/ [Atomic!Next]_(Atomic!vars)]_file_vars
  BY StepIsAtomic
<1> QED
  BY FileInvariance, <1>1, PTL DEF FileSpec, CallsAreAtomic

\* The watched page is what its file has at that offset, in whatever order
\* calls, lookups and crashes come, unless it was read from an empty file:
\* dropping the pages of the old files before the merge is enough for the
\* numbers to be used again (level.cpp:68-76), and only the pages that have been
\* read past the end of a file are not dropped with the others.
THEOREM PageIsCurrent == FileSpec => []PoolIsCurrent
<1>1. FileInv => PoolIsCurrent
  BY DEF FileInv, StepsOK, CacheOK, PoolIsCurrent, IsCurrent
<1> QED
  BY FileInvariance, <1>1, PTL

-----------------------------------------------------------------------------
(* What a store that is opened on a directory answers                      *)

\* The places of the levels that a directory was loaded into.
LEMMA OpenedPlaces ==
  ASSUME NEW ls, Loaded(ls)
  PROVE  /\ \A i \in DOMAIN ls : \A j \in DOMAIN ls[i] :
              <<i, j>> \in Opened(ls)!Places /\ i \in Nat /\ j \in Nat
              /\ ls[i][j] \in DOMAIN disk /\ LevelOf(ls[i][j]) = i - 1
         /\ \A p \in Opened(ls)!Places : \E i \in DOMAIN ls : \E j \in DOMAIN ls[i] : p = <<i, j>>
<1>1. ASSUME NEW i \in DOMAIN ls, NEW j \in DOMAIN ls[i]
      PROVE  /\ <<i, j>> \in Opened(ls)!Places /\ i \in Nat /\ j \in Nat
             /\ ls[i][j] \in DOMAIN disk /\ LevelOf(ls[i][j]) = i - 1
  <2>1. i \in Nat /\ ls[i] \in Seq(FilesOf(i - 1)) /\ ls[i][j] \in FilesOf(i - 1)
    BY ListingHas DEF Loaded
  <2>2. j \in Nat
    BY <2>1
  <2> QED
    BY <2>1, <2>2 DEF FilesOf, Opened!Places
<1>2. ASSUME NEW p \in Opened(ls)!Places PROVE \E i \in DOMAIN ls : \E j \in DOMAIN ls[i] : p = <<i, j>>
  BY DEF Opened!Places
<1> QED
  BY <1>1, <1>2

\* The files of each level in falling order of their numbers: the newer file
\* first, and a .tmp file last.
Descending(ls) ==
  \A i \in DOMAIN ls : \A x, y \in DOMAIN ls[i] : x < y => ls[i][x] > ls[i][y]

\* What the search of a file may come to: what it finds, nothing, or the end of
\* the process; and nothing only if the file has nothing or is not an SST.
LEMMA SearchComesTo ==
  ASSUME NEW f, NEW k
  PROVE  /\ SearchValueByKey(disk[f], k) \in SearchOutcomes(f, k)
         /\ f < 0 => INVALID_VALUE \in SearchOutcomes(f, k)
         /\ \A w \in SearchOutcomes(f, k) :
              w \in {SearchValueByKey(disk[f], k), INVALID_VALUE, ProcessEnds}
         /\ f \in Nat /\ INVALID_VALUE \in SearchOutcomes(f, k) =>
              SearchValueByKey(disk[f], k) = INVALID_VALUE
<1>1. ProcessEnds # INVALID_VALUE
  BY BTreeAssumption DEF ProcessEnds
<1> QED
  BY <1>1 DEF SearchOutcomes

\* What a lookup may come to, one answer at a time.
LEMMA LookupComesTo ==
  ASSUME NEW ls, NEW k, NEW a
  PROVE  a \in LookupOutcomes(ls, k) <=>
           \/ \E p \in Opened(ls)!Places :
                /\ \A q \in Opened(ls)!Places :
                     VisitedBefore(q, p) => INVALID_VALUE \in SearchOutcomes(ls[q[1]][q[2]], k)
                /\ \E u \in SearchOutcomes(ls[p[1]][p[2]], k) \ {INVALID_VALUE} : a = Shown(u)
           \/ /\ a = INVALID_VALUE
              /\ \A p \in Opened(ls)!Places : INVALID_VALUE \in SearchOutcomes(ls[p[1]][p[2]], k)
<1> DEFINE found(p) == SearchOutcomes(ls[p[1]][p[2]], k)
           visited(p) == \A q \in Opened(ls)!Places : VisitedBefore(q, p) => INVALID_VALUE \in found(q)
           shown(p) == {Shown(v) : v \in found(p) \ {INVALID_VALUE}}
           places == {x \in Opened(ls)!Places : visited(x)}
           some == UNION {shown(p) : p \in places}
           none == {v \in {INVALID_VALUE} : \A p \in Opened(ls)!Places : v \in found(p)}
<1>1. LookupOutcomes(ls, k) = none \cup some
  BY DEF LookupOutcomes
<1>2. a \in none <=> a = INVALID_VALUE /\ \A p \in Opened(ls)!Places : INVALID_VALUE \in found(p)
  OBVIOUS
<1>3. a \in some <=> \E p \in places : a \in shown(p)
  <2> HIDE DEF shown, places
  <2> QED
    OBVIOUS
<1>4. \A p : a \in shown(p) <=> \E u \in found(p) \ {INVALID_VALUE} : a = Shown(u)
  OBVIOUS
<1>5. \A p : p \in places <=> p \in Opened(ls)!Places /\ visited(p)
  OBVIOUS
<1> HIDE DEF some, none, shown, places
<1>6. a \in some <=> \E p \in Opened(ls)!Places :
                       visited(p) /\ \E u \in found(p) \ {INVALID_VALUE} : a = Shown(u)
  <2> HIDE DEF visited, found
  <2> QED
    BY <1>3, <1>4, <1>5
<1>7. a \in LookupOutcomes(ls, k) <=> a \in some \/ a \in none
  BY <1>1
<1> QED
  BY <1>2, <1>6, <1>7

\* A lookup that finds the key in no file.
LEMMA LookupNone ==
  ASSUME NEW ls, Loaded(ls), NEW k, \A f \in DOMAIN disk : SearchValueByKey(disk[f], k) = INVALID_VALUE
  PROVE  LookupOutcomes(ls, k) \ {ProcessEnds} = {INVALID_VALUE}
<1> DEFINE found(p) == SearchOutcomes(ls[p[1]][p[2]], k)
<1>1. ASSUME NEW p \in Opened(ls)!Places
      PROVE  INVALID_VALUE \in found(p) /\ \A w \in found(p) \ {INVALID_VALUE} : w = ProcessEnds
  <2>1. PICK i \in DOMAIN ls : \E j \in DOMAIN ls[i] : p = <<i, j>>
    BY OpenedPlaces
  <2>2. PICK j \in DOMAIN ls[i] : p = <<i, j>>
    BY <2>1
  <2>3. SearchValueByKey(disk[ls[i][j]], k) = INVALID_VALUE
    BY OpenedPlaces
  <2>4. found(p) = SearchOutcomes(ls[i][j], k)
    BY <2>2
  <2> QED
    BY <2>3, <2>4, SearchComesTo
<1>2. ProcessEnds # INVALID_VALUE /\ Shown(ProcessEnds) = ProcessEnds
  BY BTreeAssumption DEF ProcessEnds, Shown
<1>3. INVALID_VALUE \in LookupOutcomes(ls, k)
  BY <1>1, LookupComesTo
<1>4. \A a \in LookupOutcomes(ls, k) : a = INVALID_VALUE \/ a = ProcessEnds
  BY <1>1, <1>2, LookupComesTo
<1> QED
  BY <1>2, <1>3, <1>4

\* In terms of the files: those of deeper levels come later.
LEMMA VisitedLater ==
  ASSUME NEW ls, Loaded(ls), DOMAIN disk \subseteq Int,
         NEW i \in DOMAIN ls, NEW j \in DOMAIN ls[i], NEW x \in DOMAIN ls, NEW y \in DOMAIN ls[x],
         \/ LevelOf(ls[i][j]) < LevelOf(ls[x][y])
         \/ LevelOf(ls[i][j]) = LevelOf(ls[x][y]) /\ ls[i][j] > ls[x][y] /\ Descending(ls)
  PROVE  VisitedBefore(<<i, j>>, <<x, y>>) /\ ~VisitedBefore(<<x, y>>, <<i, j>>)
<1>1. /\ i \in Nat /\ x \in Nat /\ y \in Nat /\ j \in Nat
      /\ ls[i][j] \in Int /\ ls[x][y] \in Int
      /\ LevelOf(ls[i][j]) = i - 1 /\ LevelOf(ls[x][y]) = x - 1
  BY OpenedPlaces
<1>2. i < x \/ (i = x /\ j < y)
  <2> SUFFICES ASSUME i = x, ls[i][j] > ls[x][y], Descending(ls) PROVE j < y
    BY <1>1
  <2>1. ~ (y < j)
    <3> SUFFICES ASSUME y < j PROVE FALSE
      OBVIOUS
    <3>1. ls[i][y] > ls[i][j]
      BY DEF Descending
    <3> QED
      BY <1>1, <3>1
  <2>2. y # j
    BY <1>1
  <2> QED
    BY <1>1, <2>1, <2>2
<1>3. <<i, j>>[1] = i /\ <<i, j>>[2] = j /\ <<x, y>>[1] = x /\ <<x, y>>[2] = y
  OBVIOUS
<1> QED
  BY <1>1, <1>2, <1>3 DEF VisitedBefore

\* A lookup answers with what the search of f finds, and with nothing else, if
\* f is the first file with the key, but for a .tmp file t, of which a search
\* finds nothing or the same.
LEMMA LookupFirst ==
  ASSUME NEW ls, Loaded(ls), NEW k,
         NEW t \in Int, t < 0, \A g \in DOMAIN disk : g = t \/ g \in Nat,
         NEW f \in DOMAIN disk, f \in Nat,
         NEW w \in Nat, w = SearchValueByKey(disk[f], k), w # INVALID_VALUE,
         \A g \in DOMAIN disk \ {f, t} : SearchValueByKey(disk[g], k) # INVALID_VALUE =>
           LevelOf(f) < LevelOf(g) \/ (LevelOf(f) = LevelOf(g) /\ f > g /\ Descending(ls)),
         t \in DOMAIN disk => SearchValueByKey(disk[t], k) \in {INVALID_VALUE, w}
  PROVE  LookupOutcomes(ls, k) \ {ProcessEnds} = {Shown(w)}
<1> DEFINE found(p) == SearchOutcomes(ls[p[1]][p[2]], k)
           visited(p) == \A q \in Opened(ls)!Places : VisitedBefore(q, p) => INVALID_VALUE \in found(q)
<1>1. PICK i \in DOMAIN ls : \E j \in DOMAIN ls[i] : f = ls[i][j]
  <2>1. FilesIn(ls) = DOMAIN disk
    BY LoadedFiles
  <2> QED
    BY <2>1, FilesInTree
<1>2. PICK j \in DOMAIN ls[i] : f = ls[i][j]
  BY <1>1
<1>3. <<i, j>> \in Opened(ls)!Places /\ found(<<i, j>>) = SearchOutcomes(f, k)
      /\ i \in Nat /\ j \in Nat /\ LevelOf(f) = i - 1
  BY <1>2, OpenedPlaces
<1>4. w \in found(<<i, j>>) /\ INVALID_VALUE \notin found(<<i, j>>)
  BY <1>3, SearchComesTo
<1>5. ProcessEnds # INVALID_VALUE /\ Shown(ProcessEnds) = ProcessEnds /\ Shown(w) # ProcessEnds
  BY BTreeAssumption DEF ProcessEnds, Shown
<1>6. ASSUME NEW p \in Opened(ls)!Places
      PROVE  \/ p = <<i, j>>
             \/ /\ \A u \in found(p) : u \in {w, INVALID_VALUE, ProcessEnds}
                /\ INVALID_VALUE \in found(p)
             \/ VisitedBefore(<<i, j>>, p) /\ ~VisitedBefore(p, <<i, j>>)
  <2>1. PICK x \in DOMAIN ls : \E y \in DOMAIN ls[x] : p = <<x, y>>
    BY OpenedPlaces
  <2>2. PICK y \in DOMAIN ls[x] : p = <<x, y>>
    BY <2>1
  <2> DEFINE g == ls[x][y]
  <2>3. g \in DOMAIN disk /\ found(p) = SearchOutcomes(g, k) /\ LevelOf(g) = x - 1 /\ x \in Nat
    BY <2>2, OpenedPlaces
  <2>4. CASE g = f
    <3>1. x = i
      BY <1>3, <2>3, <2>4
    <3>2. ls[i] \in Listings(FilesOf(i - 1)) /\ IsFiniteSet(FilesOf(i - 1))
      BY DEF Loaded
    <3>3. y = j
      BY <1>2, <2>4, <3>1, <3>2, ListingHas
    <3> QED
      BY <2>2, <3>1, <3>3
  <2>5. CASE g # f /\ g = t
    BY <2>3, <2>5, SearchComesTo
  <2>6. CASE g # f /\ g # t /\ SearchValueByKey(disk[g], k) = INVALID_VALUE
    BY <2>3, <2>6, SearchComesTo
  <2>7. CASE g # f /\ g # t /\ SearchValueByKey(disk[g], k) # INVALID_VALUE
    <3>1. LevelOf(f) < LevelOf(g) \/ (LevelOf(f) = LevelOf(g) /\ f > g /\ Descending(ls))
      BY <2>3, <2>7
    <3>2. DOMAIN disk \subseteq Int
      OBVIOUS
    <3> QED
      BY <1>2, <2>2, <3>1, <3>2, VisitedLater
  <2> QED
    BY <2>4, <2>5, <2>6, <2>7
<1>7. visited(<<i, j>>)
  <2> HIDE DEF found
  <2>1. ~VisitedBefore(<<i, j>>, <<i, j>>)
    BY <1>3 DEF VisitedBefore
  <2> QED
    BY <1>6, <2>1
<1>8. ASSUME NEW p \in Opened(ls)!Places, visited(p), NEW u \in found(p) \ {INVALID_VALUE}
      PROVE  u = w \/ u = ProcessEnds
  <2>1. ~VisitedBefore(<<i, j>>, p)
    BY <1>3, <1>4, <1>8
  <2>2. CASE p = <<i, j>>
    <3>1. found(p) = SearchOutcomes(f, k)
      BY <1>3, <2>2
    <3> QED
      BY <3>1, SearchComesTo
  <2>3. CASE p # <<i, j>>
    <3> HIDE DEF found
    <3> QED
      BY <1>6, <2>1, <2>3
  <2> QED
    BY <2>2, <2>3
<1>9. Shown(w) \in LookupOutcomes(ls, k)
  BY <1>3, <1>4, <1>7, BTreeAssumption, LookupComesTo
<1>10. ASSUME NEW a \in LookupOutcomes(ls, k) PROVE a = Shown(w) \/ a = ProcessEnds
  <2>1. CASE \E p \in Opened(ls)!Places :
               visited(p) /\ \E u \in found(p) \ {INVALID_VALUE} : a = Shown(u)
    <3> HIDE DEF found, visited
    <3> QED
      BY <1>5, <1>8, <2>1
  <2>2. CASE \A p \in Opened(ls)!Places : INVALID_VALUE \in found(p)
    BY <1>3, <1>4, <2>2
  <2> QED
    BY <2>1, <2>2, LookupComesTo
<1> QED
  BY <1>5, <1>9, <1>10

\* A lookup answers with the newest entry of the SSTs, and with nothing else, if
\* no two files of a level have the key, or if the levels are listed from new to
\* old: then a .tmp file t, taken for an SST of level 0, may be in its way, but
\* not with another value.
LEMMA LookupNewest ==
  ASSUME ~ReuseDeleted, NEW k \in Keys, NEW ls, Loaded(ls),
         NEW t \in Int, t < 0, \A f \in DOMAIN disk : f = t \/ (f \in Nat /\ IsFile(disk[f])),
         NEW V, V = [f \in DOMAIN disk \cap Nat |-> ValuesIn(disk[f], k)],
         \/ Descending(ls)
         \/ /\ t \notin DOMAIN disk
            /\ \A f, g \in DOMAIN disk :
                 V[f] # {} /\ V[g] # {} /\ LevelOf(f) = LevelOf(g) => f = g,
         t \in DOMAIN disk /\ SearchValueByKey(disk[t], k) # INVALID_VALUE =>
           Shows(V, SearchValueByKey(disk[t], k)),
         NEW v, Answers(V, v)
  PROVE  LookupOutcomes(ls, k) \ {ProcessEnds} = {v}
<1> DEFINE Found(f) == SearchValueByKey(disk[f], k)
<1>1. DOMAIN V = DOMAIN disk \cap Nat /\ DOMAIN V \subseteq Nat /\ DOMAIN disk \subseteq Int
      /\ t \notin DOMAIN V /\ \A f \in DOMAIN disk : f = t \/ f \in DOMAIN V
  OBVIOUS
<1>2. ASSUME NEW f \in DOMAIN V
      PROVE  (Found(f) # INVALID_VALUE <=> V[f] # {}) /\ \A w \in V[f] : Found(f) = w
  <2>1. IsFile(disk[f]) /\ V[f] = ValuesIn(disk[f], k) /\ k \notin Blanked
    BY <1>1, NoneBlanked
  <2>2. /\ \A w \in V[f] : Found(f) = w
        /\ V[f] = {} => Found(f) = INVALID_VALUE
    BY <2>1, SearchSST
  <2>3. \A w \in V[f] : w # INVALID_VALUE
    BY <2>1, FileHolds, KeysAreNumbers
  <2> QED
    BY <2>2, <2>3
<1> HIDE DEF Found
<1>3. CASE Bare(V)
  <2>1. ASSUME NEW f \in DOMAIN disk PROVE Found(f) = INVALID_VALUE
    <3>1. CASE f = t
      BY <1>3, <3>1 DEF Shows, Bare, NewestAt, Found
    <3>2. CASE f # t
      BY <1>1, <1>2, <1>3, <3>2 DEF Bare
    <3> QED
      BY <3>1, <3>2
  <2> QED
    BY <1>3, <2>1, LookupNone DEF Found, Answers
<1>4. CASE ~Bare(V)
  <2>1. PICK w : Shows(V, w) /\ v = Shown(w) /\ w \in Nat
    BY <1>4, KeysAreNumbers DEF Answers
  <2>2. PICK f \in DOMAIN V : NewestAt(V, f) /\ V[f] = {w}
    BY <2>1 DEF Shows
  <2>3. f \in Nat /\ f \in DOMAIN disk /\ Found(f) = w /\ Found(f) # INVALID_VALUE
    BY <1>1, <1>2, <2>2
  <2>4. \A g \in Nat : LevelOf(g) = g \div 2
    BY DEF LevelOf, SIZE_RATIO
  <2>5. ASSUME NEW g \in DOMAIN disk \ {f, t}, Found(g) # INVALID_VALUE
        PROVE  LevelOf(f) < LevelOf(g) \/ (LevelOf(f) = LevelOf(g) /\ f > g /\ Descending(ls))
    <3>1. g \in DOMAIN V /\ g \in Nat /\ V[g] # {}
      BY <1>1, <1>2, <2>5
    <3>2. ~NewerFile(g, f)
      BY <2>2, <3>1 DEF NewestAt
    <3>3. NewerFile(f, g)
      BY <2>3, <2>5, <3>1, <3>2, NewerFileOrder
    <3>4. LevelOf(f) < LevelOf(g) \/ (LevelOf(f) = LevelOf(g) /\ f > g)
      BY <2>3, <2>4, <3>1, <3>3 DEF NewerFile
    <3>5. LevelOf(f) = LevelOf(g) => Descending(ls)
      BY <2>2, <2>3, <2>5, <3>1
    <3> QED
      BY <3>4, <3>5
  <2>6. ASSUME t \in DOMAIN disk, Found(t) # INVALID_VALUE PROVE Found(t) = w
    <3>1. Shows(V, Found(t))
      BY <2>6 DEF Found
    <3>2. PICK g \in DOMAIN V : NewestAt(V, g) /\ V[g] = {Found(t)}
      BY <3>1 DEF Shows
    <3>3. g = f
      BY <1>1, <2>2, <3>2, OneNewest
    <3> QED
      BY <2>2, <3>2, <3>3
  <2>7. t \in DOMAIN disk => Found(t) \in {INVALID_VALUE, w}
    BY <2>6
  <2>8. LookupOutcomes(ls, k) \ {ProcessEnds} = {Shown(w)}
    <3>1. \A g \in DOMAIN disk : g = t \/ g \in Nat
      OBVIOUS
    <3> QED
      BY <2>1, <2>3, <2>5, <2>7, <3>1, LookupFirst DEF Found
  <2> QED
    BY <2>1, <2>8
<1> QED
  BY <1>3, <1>4

\* Files that hold nothing do not show.
LEMMA EmptyAdded ==
  ASSUME NEW V, NEW W, DOMAIN V \subseteq DOMAIN W, \A f \in DOMAIN V : W[f] = V[f],
         \A f \in DOMAIN W \ DOMAIN V : W[f] = {}, NEW v, Answers(V, v)
  PROVE  Answers(W, v)
<1>1. \A f \in DOMAIN V : NewestAt(V, f) <=> NewestAt(W, f)
  BY DEF NewestAt
<1>2. \A x : Shows(V, x) <=> Shows(W, x)
  BY <1>1 DEF Shows, NewestAt
<1>3. Bare(V) <=> Bare(W)
  BY DEF Bare
<1> QED
  BY <1>2, <1>3 DEF Answers

\* In a call the files that KVStore sees give what is durable.
LEMMA DurableAnswers ==
  ASSUME FileInv, pc # "idle", ~ReuseDeleted, NEW k \in Keys
  PROVE  Answers(AtomicHeld(k), durable[k])
<1>1. A!DataInv /\ InOrder /\ k \in Keys \ A!Blanked
  BY CallInvariant, NoneBlanked DEF InOrder
<1>2. durable[k] = A!NewestOnDisk(k)
  BY <1>1 DEF FileInv, DurableOK
<1> QED
  BY <1>1, <1>2, AtomicAnswers

\* An empty file has nothing for a key.
LEMMA EmptyHolds == \A k : ValuesIn(EmptyFile, k) = {}
  BY DEF ValuesIn, LeafEntries, EmptyFile

\* In a flush every level has one file at most that is not empty.
LEMMA FlushAnswers ==
  ASSUME FileInv, ~ReuseDeleted, pc \in {"flush", "write"}, NEW ls \in LoadedLevels, NEW k \in Keys
  PROVE  LookupOutcomes(ls, k) \ {ProcessEnds} = {durable[k]}
<1> DEFINE V == [f \in DOMAIN disk \cap Nat |-> ValuesIn(disk[f], k)]
<1>1. Loaded(ls)
  BY LoadedLevel DEF FileInv, StepsOK
<1>2. Answers(AtomicHeld(k), durable[k]) /\ AtomicTree /\ AtomicFilesOK
  BY DurableAnswers, CallInvariant, AtomicInv
<1>3. output.stage = "none"
  BY DEF FileInv, StepsOK, FileTypeOK
<1>4. DOMAIN AtomicDisk \subseteq DOMAIN disk /\ (\A f \in DOMAIN AtomicDisk : AtomicDisk[f] = disk[f])
      /\ \A f \in DOMAIN disk \ DOMAIN AtomicDisk : f = SSTNumber /\ disk[f] = EmptyFile
  <2>1. CASE pc = "write"
    <3>1. AtomicDisk = [f \in DOMAIN disk \ {SSTNumber} |-> disk[f]]
      BY <2>1 DEF AtomicDisk
    <3>2. disk[SSTNumber] = EmptyFile
      BY <2>1 DEF FileInv, StepsOK, CreatedEmpty
    <3> QED
      BY <3>1, <3>2
  <2>2. CASE pc = "flush"
    BY <1>3, <2>2, NotWriting, AtRest
  <2> QED
    BY <2>1, <2>2
<1>5. \A f \in DOMAIN disk : f \in Nat /\ IsFile(disk[f])
  <2>1. SSTNumber \in Nat
    BY DEF SSTNumber
  <2> QED
    BY <1>2, <1>4, <2>1 DEF AtomicFilesOK, IsFile
<1>6. /\ DOMAIN V = DOMAIN disk /\ DOMAIN AtomicHeld(k) = DOMAIN AtomicDisk
      /\ \A f \in DOMAIN disk : V[f] = ValuesIn(disk[f], k)
      /\ \A f \in DOMAIN AtomicDisk : AtomicHeld(k)[f] = ValuesIn(disk[f], k)
  BY <1>4, <1>5 DEF AtomicHeld
<1>7. \A f \in DOMAIN V \ DOMAIN AtomicHeld(k) : V[f] = {}
  BY <1>4, <1>6, EmptyHolds
<1>8. ASSUME NEW f \in DOMAIN AtomicDisk PROVE f = 2 * LevelOf(f)
  <2>1. PICK i \in DOMAIN AtomicLevels : \E j \in DOMAIN AtomicLevels[i] : f = AtomicLevels[i][j]
    BY <1>2, FilesInTree DEF AtomicFilesOK
  <2>2. PICK j \in DOMAIN AtomicLevels[i] : f = AtomicLevels[i][j]
    BY <2>1
  <2>3. i \in Nat /\ i >= 1 /\ AtomicLevels[i] \in Seq(Nat)
    BY <1>2 DEF AtomicTree
  <2>4. PICK n \in Nat : n = Len(AtomicLevels[i])
    BY <2>3
  <2>5. n <= 1
    BY <2>1, <2>4, <1>2 DEF AtomicTree, AtomicPc
  <2>6. j = 1
    BY <2>2, <2>3, <2>4, <2>5
  <2>7. f = (i - 1) * SIZE_RATIO + (j - 1)
    BY <1>2, <2>1, <2>2 DEF AtomicTree, Numbered
  <2>8. PICK m \in Nat : m = i - 1
    BY <2>3
  <2>9. f = 2 * m
    BY <2>6, <2>7, <2>8 DEF SIZE_RATIO
  <2> QED
    BY ONLY <2>9, m \in Nat DEF LevelOf, SIZE_RATIO
<1>9. ASSUME NEW f \in DOMAIN disk, NEW g \in DOMAIN disk, V[f] # {}, V[g] # {}, LevelOf(f) = LevelOf(g)
      PROVE  f = g
  <2>1. f \in DOMAIN AtomicDisk /\ g \in DOMAIN AtomicDisk
    BY <1>6, <1>7, <1>9
  <2>2. f = 2 * LevelOf(f) /\ g = 2 * LevelOf(g)
    BY <1>8, <2>1
  <2> QED
    BY <1>9, <2>2
<1>10. Answers(V, durable[k])
  <2> HIDE DEF V
  <2> QED
    BY <1>2, <1>4, <1>6, <1>7, EmptyAdded
<1>11. -1 \in Int /\ -1 < 0 /\ -1 \notin DOMAIN disk
  BY <1>5
<1>12. V = [f \in DOMAIN disk \cap Nat |-> ValuesIn(disk[f], k)]
  OBVIOUS
<1> HIDE DEF V
<1> QED
  BY <1>1, <1>5, <1>9, <1>10, <1>11, <1>12, LookupNewest

\* If the process ends in a flush, the store that is opened then answers with
\* what was durable before the flush, in whatever order the directory is
\* listed: the file that the flush has created is empty (kv_store.cpp:150-166,
\* level.cpp:102).
THEOREM FlushSurvivesCrash == ASSUME ~ReuseDeleted PROVE FileSpec => []FlushIsCrashSafe
<1>1. FileInv => FlushIsCrashSafe
  BY FlushAnswers DEF FlushIsCrashSafe, AnswersDurable
<1> QED
  BY FileInvariance, <1>1, PTL

-----------------------------------------------------------------------------
(* What a store that is opened in a compaction answers                     *)

\* A finite set of numbers has a listing in falling order.
LEMMA FallingListing ==
  ASSUME NEW b \in Nat, NEW S, S \subseteq -b .. b
  PROVE  \E s \in Listings(S) : \A x, y \in DOMAIN s : x < y => s[x] > s[y]
<1> DEFINE T == {b - f : f \in S}
           n == Cardinality(S)
           at(i) == CHOOSE x \in T : Rank(T)[x] = i - 1
           s == [i \in 1 .. n |-> b - at(i)]
<1>1. IsFiniteSet(S) /\ \A f \in S : f \in Int /\ b - f \in Nat
  <2>1. IsFiniteSet(-b .. b)
    BY FS_Interval
  <2>2. \A f \in S : f \in -b .. b
    OBVIOUS
  <2>3. \A f \in -b .. b : f \in Int /\ b - f \in Nat
    OBVIOUS
  <2> QED
    BY <2>1, <2>2, <2>3, FS_Subset
<1>2. T \subseteq Nat /\ \A x \in T : b - x \in S
  <2>1. \A f \in S : b - (b - f) = f
    BY <1>1
  <2> QED
    BY <1>1, <2>1
<1>3. IsFiniteSet(T) /\ Cardinality(T) = n
  <2> DEFINE g == [f \in S |-> b - f]
  <2>1. g \in [S -> T] /\ \A x \in T : \E f \in S : g[f] = x
    OBVIOUS
  <2>2. \A f, h \in S : g[f] = g[h] => f = h
    BY <1>1
  <2> HIDE DEF g, T
  <2>3. g \in Bijection(S, T)
    BY <2>1, <2>2 DEF Bijection, Injection, Surjection, IsInjective
  <2>4. ExistsBijection(S, T)
    BY <2>3 DEF ExistsBijection
  <2> QED
    BY <1>1, <2>4, FS_Bijection
<1> HIDE DEF T, n
<1>4. /\ n \in Nat /\ Rank(T) \in [T -> 0 .. n - 1]
      /\ \A x, z \in T : x < z => Rank(T)[x] < Rank(T)[z]
      /\ \A i \in 0 .. n - 1 : \E x \in T : Rank(T)[x] = i
  BY <1>2, <1>3, RankFacts
<1>5. ASSUME NEW i \in 1 .. n PROVE at(i) \in T /\ Rank(T)[at(i)] = i - 1 /\ at(i) \in Nat
  <2>1. i - 1 \in 0 .. n - 1
    BY <1>4
  <2>2. \E x \in T : Rank(T)[x] = i - 1
    BY <1>4, <2>1
  <2> QED
    BY <1>2, <2>2
<1> HIDE DEF at
<1>6. ASSUME NEW i \in 1 .. n, NEW j \in 1 .. n, i < j PROVE at(i) < at(j)
  <2>1. Rank(T)[at(i)] < Rank(T)[at(j)] /\ Rank(T)[at(i)] \in Nat /\ Rank(T)[at(j)] \in Nat
    BY <1>5, <1>6
  <2>2. at(i) # at(j) /\ ~ (Rank(T)[at(j)] < Rank(T)[at(i)])
    BY <2>1
  <2>3. ~ (at(j) < at(i))
    BY <1>4, <1>5, <2>2
  <2> QED
    BY <1>5, <2>2, <2>3
<1>7. DOMAIN s = 1 .. n /\ \A i \in 1 .. n : s[i] \in S /\ s[i] \in Int
  BY <1>1, <1>2, <1>5
<1>8. ASSUME NEW i \in 1 .. n, NEW j \in 1 .. n, i < j PROVE s[i] > s[j]
  BY <1>5, <1>6, <1>8
<1>9. \A i, j \in 1 .. n : s[i] = s[j] => i = j
  <2> SUFFICES ASSUME NEW i \in 1 .. n, NEW j \in 1 .. n, s[i] = s[j], i # j PROVE FALSE
    OBVIOUS
  <2>1. i < j \/ j < i
    OBVIOUS
  <2> HIDE DEF s
  <2> QED
    BY <1>7, <1>8, <2>1
<1>10. s \in [1 .. n -> S]
  BY <1>7
<1> HIDE DEF s
<1>11. s \in Listings(S)
  BY <1>9, <1>10 DEF Listings, n
<1> QED
  BY <1>7, <1>8, <1>11

\* So a directory can be listed from new to old.
LEMMA FallingLevels ==
  ASSUME FilesBounded
  PROVE  \E ls \in LoadedLevels : Descending(ls)
<1>1. PICK b \in Nat : DOMAIN disk \subseteq -b .. b
  BY DEF FilesBounded
<1>2. CASE DOMAIN disk = {}
  <2>1. <<>> \in LoadedLevels
    BY <1>2 DEF LoadedLevels
  <2>2. Descending(<<>>)
    BY DEF Descending
  <2> QED
    BY <2>1, <2>2
<1>3. CASE DOMAIN disk # {}
  <2> DEFINE top == CHOOSE l \in {LevelOf(f) : f \in DOMAIN disk} :
                      \A f \in DOMAIN disk : LevelOf(f) <= l
             Falls(s) == \A x, y \in DOMAIN s : x < y => s[x] > s[y]
             listing(l) == CHOOSE s \in Listings(FilesOf(l)) : Falls(s)
             ls == [i \in 1 .. top + 1 |-> listing(i - 1)]
  <2>1. top \in Nat
    BY <1>1, <1>3, DeepestLevel
  <2>2. LoadedLevels = {t \in [1 .. top + 1 -> UNION {Listings(FilesOf(l)) : l \in 0 .. top}] :
                         \A i \in 1 .. top + 1 : t[i] \in Listings(FilesOf(i - 1))}
    BY <1>3 DEF LoadedLevels
  <2> HIDE DEF top
  <2>3. ASSUME NEW l PROVE listing(l) \in Listings(FilesOf(l)) /\ Falls(listing(l))
    <3>1. FilesOf(l) \subseteq -b .. b
      BY <1>1 DEF FilesOf
    <3>2. \E s \in Listings(FilesOf(l)) : Falls(s)
      BY <3>1, FallingListing
    <3> HIDE DEF Falls
    <3> QED
      BY <3>2
  <2> HIDE DEF listing
  <2>4. DOMAIN ls = 1 .. top + 1 /\ \A i \in 1 .. top + 1 : ls[i] = listing(i - 1) /\ i - 1 \in 0 .. top
    BY <2>1
  <2>5. ls \in [1 .. top + 1 -> UNION {Listings(FilesOf(l)) : l \in 0 .. top}]
    <3>1. \A i \in 1 .. top + 1 : listing(i - 1) \in UNION {Listings(FilesOf(l)) : l \in 0 .. top}
      BY <2>3, <2>4
    <3> QED
      BY <3>1
  <2> HIDE DEF ls
  <2>6. ls \in LoadedLevels
    BY <2>2, <2>3, <2>4, <2>5
  <2>7. Descending(ls)
    BY <2>3, <2>4 DEF Descending
  <2> QED
    BY <2>6, <2>7
<1> QED
  BY <1>2, <1>3

\* A .tmp file that is taken for an SST has leaves only: a search looks into the
\* first, and what it finds there is what the run has.
LEMMA TempSearch ==
  ASSUME NEW run \in Seq(Entry), KeysGoUp(run), NEW k \in Nat,
         SearchValueByKey(TempFile(run), k) # INVALID_VALUE
  PROVE  \E i \in DOMAIN run : run[i].key = k /\ run[i].value = SearchValueByKey(TempFile(run), k)
<1> DEFINE file == TempFile(run)
           c == CeilDiv(Len(run), MAX_KEYS)
           leaf == Chunk(run, 2, MAX_KEYS)
<1>1. c \in Int /\ c - 1 \in Nat \ {0} /\ run # <<>>
  <2>1. c \in Int
    BY BTreeAssumption DEF CeilDiv
  <2>2. ASSUME c <= 1 PROVE FALSE
    <3>1. 1 .. c - 1 = {}
      BY <2>1, <2>2
    <3>2. file = <<>>
      BY <3>1 DEF TempFile
    <3> QED
      BY <3>2 DEF SearchValueByKey, LeafFor, EmptyFile
  <2>3. CASE run = <<>>
    <3>1. Len(run) = 0
      BY <2>3
    <3>2. c = (MAX_KEYS - 1) \div MAX_KEYS
      BY <3>1, BTreeAssumption DEF CeilDiv
    <3>3. (MAX_KEYS - 1) \div MAX_KEYS <= 1
      BY BTreeAssumption
    <3>4. c <= 1
      BY <3>2, <3>3
    <3> QED
      BY <2>2, <3>4
  <2> QED
    BY <2>1, <2>2, <2>3
<1>0. PICK n \in Nat \ {0} : n = c - 1 /\ 1 \in 1 .. n /\ 2 \in 1 .. c
  BY <1>1
<1>2. /\ Len(file) = n /\ DOMAIN file = 1 .. n
      /\ \A o \in 1 .. n : file[o].is_leaf
      /\ file[1].entries = leaf
  <2> DEFINE Leaf(i) == [is_leaf |-> TRUE, entries |-> Chunk(run, i + 1, MAX_KEYS)]
  <2>1. file = [i \in 1 .. n |-> Leaf(i)]
    BY <1>0 DEF TempFile
  <2>2. Leaf(1).entries = leaf /\ \A i : Leaf(i).is_leaf
    OBVIOUS
  <2> HIDE DEF file, Leaf
  <2> QED
    BY <1>0, <2>1, <2>2
<1> HIDE DEF file, c
<1>3. LeafFor(file, k) = 1
  <2>1. PICK d : /\ \A o \in 1 .. Len(file) :
                      d[o] = IF file[o].is_leaf THEN o ELSE d[ChildFor(file[o].entries, k)]
                 /\ LeafFor(file, k) = d[1]
    BY <1>0, <1>2, LeafForUnfolds
  <2> QED
    BY <1>0, <1>2, <2>1
<1>4. SearchValueByKey(file, k) = LeafValue(leaf, k)
  BY <1>2, <1>3 DEF SearchValueByKey, NoChild
<1>5. PICK first \in Nat, m \in Nat :
        /\ leaf \in Seq(Entry) /\ Len(leaf) = m
        /\ \A x \in 1 .. m : leaf[x] = run[first + x] /\ first + x \in 1 .. Len(run)
  <2>2. 2 \in 1 .. CeilDiv(Len(run), MAX_KEYS) /\ MAX_KEYS \in Nat \ {0}
    BY <1>0, BTreeAssumption DEF c
  <2>3. /\ (2 - 1) * MAX_KEYS \in Nat /\ Len(leaf) \in Nat /\ leaf \in Seq(Entry)
        /\ \A x \in 1 .. Len(leaf) : leaf[x] = run[(2 - 1) * MAX_KEYS + x]
                                     /\ (2 - 1) * MAX_KEYS + x \in 1 .. Len(run)
    <3> HIDE DEF leaf
    <3>1. \A i : i = 2 => LET first == (i - 1) * MAX_KEYS
                              last == Smaller(i * MAX_KEYS, Len(run))
                          IN  /\ first \in Nat
                              /\ Chunk(run, i, MAX_KEYS) \in Seq(Entry)
                              /\ Len(Chunk(run, i, MAX_KEYS)) = last - first
                              /\ \A x \in 1 .. last - first : Chunk(run, i, MAX_KEYS)[x] = run[first + x] /\ first + x \in 1 .. Len(run)
      BY <1>1, <2>2, ChunkFacts
    <3> QED
      BY <3>1 DEF leaf
  <2> QED
    BY <2>3
<1> HIDE DEF leaf
<1>6. DOMAIN leaf = 1 .. m /\ DOMAIN run = 1 .. Len(run) /\ \A i \in DOMAIN leaf : leaf[i].key \in Nat
  <2>1. DOMAIN leaf = 1 .. m /\ DOMAIN run = 1 .. Len(run) /\ \A i \in DOMAIN leaf : leaf[i] \in Entry
    BY <1>5
  <2> QED
    BY <2>1, BTreeAssumption DEF Entry
<1>7. KeysGoUp(leaf)
  <2> SUFFICES ASSUME NEW i \in 1 .. m, NEW j \in 1 .. m, i < j PROVE leaf[i].key < leaf[j].key
    BY <1>6 DEF KeysGoUp
  <2>1. first + i \in DOMAIN run /\ first + j \in DOMAIN run
    BY <1>5, <1>6
  <2>2. first + i < first + j
    OBVIOUS
  <2> QED
    BY <1>5, <2>1, <2>2 DEF KeysGoUp
<1>8. PICK i \in DOMAIN leaf : leaf[i].key = k /\ LeafValue(leaf, k) = leaf[i].value
  <2>1. LeafValue(leaf, k) # INVALID_VALUE
    BY <1>4 DEF file
  <2>2. /\ \A i \in DOMAIN leaf : leaf[i].key = k => LeafValue(leaf, k) = leaf[i].value
        /\ (\A i \in DOMAIN leaf : leaf[i].key # k) => LeafValue(leaf, k) = INVALID_VALUE
    BY <1>5, <1>6, <1>7, LeafValueFinds
  <2> QED
    BY <2>1, <2>2
<1>9. first + i \in DOMAIN run /\ run[first + i] = leaf[i]
  BY <1>5, <1>6
<1> QED
  BY <1>4, <1>8, <1>9 DEF file
\* While the output is being made, KVStore sees the two files of the level, and
\* every other file is older than they are.
LEMMA MergeGiven ==
  ASSUME FileInv, output.stage \in {"fill", "copy", "index"}
  PROVE  /\ pc = "compact" /\ A!DataInv
         /\ output.num \in Nat /\ Temp(output.num) < 0 /\ Temp(output.num) \in Int
         /\ DOMAIN AtomicDisk = DOMAIN disk \ {output.num, Temp(output.num)}
         /\ \A f \in DOMAIN AtomicDisk : AtomicDisk[f] = disk[f]
         /\ Older \in DOMAIN AtomicDisk /\ Newer \in DOMAIN AtomicDisk /\ NewerFile(Newer, Older)
         /\ \A f \in DOMAIN AtomicDisk \ {Older, Newer} : NewerFile(Older, f) /\ NewerFile(Newer, f)
<1> DEFINE num == output.num  c == current_level + 1
<1>1. output.stage # "none" /\ output.stage # "remove" /\ pc = "compact" /\ MergeOK /\ FillOK
  BY DEF FileInv, StepsOK, FileTypeOK
<1>2. A!DataInv
  BY <1>1, CallInvariant
<1>3. num \in Nat /\ Temp(num) \notin Nat /\ Temp(num) = -num
      /\ Older \in Nat /\ Newer \in Nat /\ Older < num /\ Newer < num
  BY <1>1, MergeNumbers DEF Temp
<1>4. Temp(num) < 0 /\ Temp(num) \in Int
  BY <1>3
<1>5. AtomicDisk = [f \in DOMAIN disk \ {num, Temp(num)} |-> disk[f]]
  BY <1>1 DEF AtomicDisk, MergeDone
<1>6. Older \in DOMAIN AtomicDisk /\ Newer \in DOMAIN AtomicDisk
  BY <1>1, <1>3, <1>5 DEF FillOK
<1>7. ~MergeDone /\ current_level \in Nat
  BY <1>1 DEF MergeDone, MergeOK
<1>8. A!NeedsCompaction
  <2>1. current_level < Len(AtomicLevels) /\ AtomicLevels[c] = <<Older, Newer>>
    BY <1>1, MergeLevels
  <2>2. Len(AtomicLevels[c]) = 2
    BY <2>1, TwoFiles
  <2>3. A!NeedsCompaction <=> current_level < Len(AtomicLevels) /\ Len(AtomicLevels[c]) >= 2
    BY <1>7 DEF A!NeedsCompaction, A!SIZE_RATIO
  <2> QED
    BY <2>1, <2>2, <2>3
<1>9. A!ToCompact(Older, Newer, A!OutputNumber)
  <2>1. A!IndInv
    BY <1>2 DEF A!DataInv
  <2>2. (IF pc = "write" THEN "flush" ELSE pc) = "compact"
    BY <1>1
  <2>3. A!ToCompact(2 * (IF MergeDone THEN current_level + 1 ELSE current_level),
                    2 * (IF MergeDone THEN current_level + 1 ELSE current_level) + 1, A!OutputNumber)
    BY <1>8, <2>1, <2>2, A!CompactNumbers, SameAssumptions
  <2> QED
    BY <1>7, <2>3 DEF Older, Newer
<1>10. /\ NewerFile(Newer, Older)
       /\ \A f \in DOMAIN AtomicDisk \ {Older, Newer} : NewerFile(Older, f) /\ NewerFile(Newer, f)
  BY <1>9 DEF A!ToCompact, A!NewerFile, NewerFile
<1> QED
  BY <1>1, <1>2, <1>3, <1>4, <1>5, <1>6, <1>10

\* What a search finds in the .tmp file, it would find in the files that are
\* merged.
LEMMA TempShows ==
  ASSUME FileInv, output.stage = "copy", ~ReuseDeleted, NEW k \in Keys,
         NEW w, w = SearchValueByKey(disk[Temp(output.num)], k), w # INVALID_VALUE
  PROVE  Shows(AtomicHeld(k), w)
<1> DEFINE V == AtomicHeld(k)  old == disk[Older]  new == disk[Newer]  last == output.is_last
           run == MergeRuns(RunOf(old), RunOf(new), last)
<1>1. /\ pc = "compact" /\ A!DataInv
      /\ DOMAIN AtomicDisk \subseteq DOMAIN disk
      /\ \A f \in DOMAIN AtomicDisk : AtomicDisk[f] = disk[f]
      /\ Older \in DOMAIN AtomicDisk /\ Newer \in DOMAIN AtomicDisk /\ NewerFile(Newer, Older)
      /\ \A f \in DOMAIN AtomicDisk \ {Older, Newer} : NewerFile(Older, f) /\ NewerFile(Newer, f)
  BY MergeGiven
<1>2. /\ DOMAIN V = DOMAIN AtomicDisk /\ DOMAIN V \subseteq Nat
      /\ V[Older] = ValuesIn(old, k) /\ V[Newer] = ValuesIn(new, k)
      /\ \A x \in Keys : TOMB_STONE \in ValuesIn(old, x) => NewestAt(AtomicHeld(x), Older)
      /\ \A x : AtomicHeld(x)[Newer] = ValuesIn(new, x)
      /\ IsFile(old) /\ IsSST(new)
  <2>1. AtomicFilesOK
    BY <1>1, AtomicInv
  <2>2. Newer # 0
    BY <1>1, <2>1 DEF Newer, FileInv, StepsOK, MergeOK
  <2>3. \A x : AtomicHeld(x)[Newer] = ValuesIn(new, x) /\ AtomicHeld(x)[Older] = ValuesIn(old, x)
               /\ DOMAIN AtomicHeld(x) = DOMAIN AtomicDisk
    BY <1>1 DEF AtomicHeld
  <2>4. \A f \in DOMAIN AtomicDisk : IsSST(disk[f]) \/ (f = 0 /\ disk[f] = EmptyFile)
    BY <1>1, <2>1 DEF AtomicFilesOK
  <2>5. DOMAIN AtomicDisk \subseteq Nat
        /\ \A x \in Keys : \A f \in DOMAIN AtomicDisk : TOMB_STONE \in AtomicHeld(x)[f] => NewestAt(AtomicHeld(x), f)
    BY <2>1 DEF AtomicFilesOK
  <2> QED
    BY <1>1, <2>2, <2>3, <2>4, <2>5 DEF IsFile
<1>3. disk[Temp(output.num)] = TempFile(run) /\ last \in BOOLEAN
  <2>1. FillOK /\ MergeOK /\ FileTypeOK
    BY DEF FileInv, StepsOK
  <2>2. ThisLevel[1] = Older /\ ThisLevel[2] = Newer
    BY <2>1, TwoFiles DEF MergeOK
  <2> QED
    BY <2>1, <2>2 DEF FillOK, MergedRun, FileTypeOK
<1>4. ASSUME NEW x \in Keys, TOMB_STONE \in ValuesIn(old, x) PROVE ValuesIn(new, x) = {}
  BY <1>1, <1>2, <1>4 DEF NewestAt, AtomicHeld
<1>5. ~DropsIn(old, new, last)
  <2> SUFFICES ASSUME NEW x, TOMB_STONE \in ValuesIn(old, x), ValuesIn(new, x) # {} PROVE FALSE
    BY DEF DropsIn
  <2>1. x \in Keys
    <3>1. PICK e \in LeafEntries(old) : e.key = x
      BY DEF ValuesIn
    <3>2. e \in Contents(RunOf(old)) /\ e.key \notin Blanked
      BY <1>2, <3>1, FileHolds DEF Blanked
    <3>3. e \in Written
      BY <1>2, <3>2, FileRun
    <3> QED
      BY <3>1, <3>3 DEF Written
  <2> QED
    BY <1>4, <2>1
<1>6. /\ RunOK(run)
      /\ ValuesIn(BuildFile(run), k) = IF ValuesIn(new, k) # {} THEN ValuesIn(new, k) ELSE ValuesIn(old, k)
  <2>1. k \notin Blanked
    BY NoneBlanked
  <2>2. BuildFile(run) = MergeSSTs(old, new, last)
    BY DEF MergeSSTs
  <2>3. /\ RunOK(run)
        /\ ValuesIn(MergeSSTs(old, new, last), k) =
             IF last /\ TOMB_STONE \in ValuesIn(old, k) /\ ValuesIn(new, k) # {} THEN {}
             ELSE IF ValuesIn(new, k) # {} THEN ValuesIn(new, k) ELSE ValuesIn(old, k)
    <3> HIDE DEF old, new, last
    <3> QED
      BY <1>2, <1>3, <1>5, <2>1, CompactedFile
  <2> QED
    BY <1>4, <2>2, <2>3
<1> HIDE DEF V, old, new, last, run
<1>7. w \in ValuesIn(BuildFile(run), k)
  <2>1. run \in Seq(Entry) /\ KeysGoUp(run) /\ k \in Nat
    BY <1>6, KeysAreNumbers DEF RunOK, SortedApart, KeysGoUp, Blanked
  <2>2. PICK i \in DOMAIN run : run[i].key = k /\ run[i].value = w
    BY <1>3, <2>1, TempSearch
  <2>3. LeafEntries(BuildFile(run)) = Contents(run)
    BY <1>6, RunIsSST, SSTHolds
  <2>4. run[i] \in LeafEntries(BuildFile(run))
    BY <2>2, <2>3 DEF Contents
  <2> QED
    BY <2>2, <2>4 DEF ValuesIn
<1>8. \A f \in {Older, Newer} : \A v \in V[f] : V[f] = {v}
  <2>1. ASSUME NEW file, IsFile(file), NEW v \in ValuesIn(file, k) PROVE ValuesIn(file, k) = {v}
    <3>1. k \notin Blanked
      BY NoneBlanked
    <3> QED
      BY <2>1, <3>1, FileHolds
  <2> QED
    BY <1>2, <2>1 DEF IsFile
<1>9. \A f, g \in Nat : ~ (NewerFile(f, g) /\ NewerFile(g, f)) /\ ~NewerFile(f, f)
  BY NewerFileOrder
<1>10. CASE V[Newer] # {}
  <2>1. V[Newer] = {w}
    BY <1>2, <1>6, <1>7, <1>8, <1>10
  <2>2. NewestAt(V, Newer)
    BY <1>1, <1>2, <1>9, <1>10 DEF NewestAt
  <2> QED
    BY <1>1, <1>2, <2>1, <2>2 DEF Shows, V
<1>11. CASE V[Newer] = {}
  <2>1. V[Older] = {w}
    BY <1>2, <1>6, <1>7, <1>8, <1>11
  <2>2. NewestAt(V, Older)
    BY <1>1, <1>2, <1>9, <1>11, <2>1 DEF NewestAt
  <2> QED
    BY <1>1, <1>2, <2>1, <2>2 DEF Shows, V
<1> QED
  BY <1>10, <1>11

\* The files of a level and the output that has replaced them show what the
\* output shows.
LEMMA OldFilesShow ==
  ASSUME NEW V, NEW W, NEW o, NEW n \in DOMAIN V, NEW num \in DOMAIN W,
         DOMAIN V \subseteq Nat, o \in Nat, o # n,
         DOMAIN W = DOMAIN V \ {o, n}, \A f \in DOMAIN W : W[f] = V[f],
         NewerFile(n, o), NewerFile(o, num), \A f \in DOMAIN W \ {num} : NewerFile(num, f),
         IF V[n] # {} THEN V[num] = V[n] ELSE o \in DOMAIN V => V[num] = V[o]
  PROVE  (\A x : Shows(W, x) <=> Shows(V, x)) /\ (Bare(W) <=> Bare(V))
<1>1. \A f, g, h \in Nat : NewerFile(f, g) /\ NewerFile(g, h) => NewerFile(f, h)
  BY DEF NewerFile
<1>2. \A f, g \in Nat : ~ (NewerFile(f, g) /\ NewerFile(g, f)) /\ ~NewerFile(f, f)
  BY NewerFileOrder
<1>3. /\ num \in DOMAIN V /\ num \in Nat /\ n \in Nat /\ W[num] = V[num]
      /\ DOMAIN V \subseteq DOMAIN W \cup {o, n}
  OBVIOUS
<1>4. \A f \in DOMAIN W : NewerFile(o, f) /\ NewerFile(n, f)
  BY <1>1, <1>3
<1>5. /\ \A g \in DOMAIN V : ~NewerFile(g, n)
      /\ \A g \in DOMAIN V \ {n} : ~NewerFile(g, o)
      /\ \A g \in DOMAIN W : ~NewerFile(g, num)
  BY <1>2, <1>3, <1>4
<1>6. ASSUME NEW x, Shows(V, x) PROVE Shows(W, x)
  <2>1. PICK f \in DOMAIN V : NewestAt(V, f) /\ V[f] = {x}
    BY <1>6 DEF Shows
  <2>2. CASE f \in {o, n}
    <3>1. V[num] = {x}
      BY <2>1, <2>2 DEF NewestAt
    <3>2. NewestAt(W, num)
      BY <1>3, <1>5, <3>1 DEF NewestAt
    <3> QED
      BY <1>3, <3>1, <3>2 DEF Shows
  <2>3. CASE f \notin {o, n}
    BY <2>1, <2>3 DEF Shows, NewestAt
  <2> QED
    BY <2>2, <2>3
<1>7. ASSUME NEW x, Shows(W, x) PROVE Shows(V, x)
  <2>1. PICK f \in DOMAIN W : NewestAt(W, f) /\ W[f] = {x}
    BY <1>7 DEF Shows
  <2>2. CASE V[n] # {}
    <3>1. V[num] = V[n] /\ W[num] # {}
      BY <1>3, <2>2
    <3>2. f = num
      BY <2>1, <3>1 DEF NewestAt
    <3>3. NewestAt(V, n) /\ V[n] = {x}
      BY <1>3, <1>5, <2>1, <2>2, <3>1, <3>2 DEF NewestAt
    <3> QED
      BY <3>3 DEF Shows
  <2>3. CASE V[n] = {} /\ o \in DOMAIN V /\ V[o] # {}
    <3>1. V[num] = V[o] /\ W[num] # {}
      BY <1>3, <2>3
    <3>2. f = num
      BY <2>1, <3>1 DEF NewestAt
    <3>3. NewestAt(V, o) /\ V[o] = {x}
      BY <1>3, <1>5, <2>1, <2>3, <3>1, <3>2 DEF NewestAt
    <3> QED
      BY <2>3, <3>3 DEF Shows
  <2>4. CASE V[n] = {} /\ (o \in DOMAIN V => V[o] = {})
    <3>1. NewestAt(V, f)
      BY <1>3, <2>1, <2>4 DEF NewestAt
    <3> QED
      BY <2>1, <3>1 DEF Shows
  <2> QED
    BY <2>2, <2>3, <2>4
<1>8. ASSUME Bare(W) PROVE Bare(V)
  <2>1. V[num] = {}
    BY <1>3, <1>8 DEF Bare
  <2>2. V[n] = {} /\ (o \in DOMAIN V => V[o] = {})
    BY <2>1
  <2> QED
    BY <1>3, <1>8, <2>2 DEF Bare
<1>9. Bare(V) => Bare(W)
  BY DEF Bare
<1> QED
  BY <1>6, <1>7, <1>8, <1>9

\* In a compaction, listed from new to old.
LEMMA CompactionAnswers ==
  ASSUME FileInv, ~ReuseDeleted, pc = "compact", NEW ls, Loaded(ls), Descending(ls), NEW k \in Keys
  PROVE  LookupOutcomes(ls, k) \ {ProcessEnds} = {durable[k]}
<1> DEFINE V == [f \in DOMAIN disk \cap Nat |-> ValuesIn(disk[f], k)]
           num == output.num
<1>1. Answers(AtomicHeld(k), durable[k]) /\ A!DataInv /\ AtomicFilesOK
  BY DurableAnswers, CallInvariant, AtomicInv
<1>2. /\ \A f \in DOMAIN AtomicDisk : IsFile(AtomicDisk[f])
      /\ DOMAIN AtomicDisk \subseteq Nat
  BY <1>1 DEF AtomicFilesOK, IsFile
<1>3. CASE output.stage = "none"
  <2>1. AtomicDisk = disk
    BY <1>3, NotWriting, AtRest
  <2>2. V = AtomicHeld(k)
    <3>1. DOMAIN disk \cap Nat = DOMAIN disk
      BY <1>2, <2>1
    <3> QED
      BY <2>1, <3>1 DEF AtomicHeld
  <2>3. \A f \in DOMAIN disk : f \in Nat /\ IsFile(disk[f])
    BY <1>2, <2>1
  <2>4. -1 \in Int /\ -1 < 0 /\ -1 \notin DOMAIN disk
    BY <2>3
  <2>5. V = [f \in DOMAIN disk \cap Nat |-> ValuesIn(disk[f], k)]
    OBVIOUS
  <2> HIDE DEF V
  <2> QED
    BY <1>1, <2>2, <2>3, <2>4, <2>5, LookupNewest
<1>4. CASE output.stage \in {"fill", "copy", "index"}
  <2>1. /\ num \in Nat /\ Temp(num) < 0 /\ Temp(num) \in Int
        /\ DOMAIN AtomicDisk = DOMAIN disk \ {num, Temp(num)}
        /\ \A f \in DOMAIN AtomicDisk : AtomicDisk[f] = disk[f]
    BY <1>4, MergeGiven
  <2>2. FillOK
    BY DEF FileInv, StepsOK
  <2>3. num \in DOMAIN disk /\ disk[num] = EmptyFile /\ Temp(num) \notin Nat
    BY <1>4, <2>1, <2>2 DEF FillOK
  <2>4. \A f \in DOMAIN disk : f = Temp(num) \/ (f \in Nat /\ IsFile(disk[f]))
    BY <1>2, <2>1, <2>3 DEF IsFile
  <2>5. /\ DOMAIN V = DOMAIN AtomicHeld(k) \cup {num} /\ V[num] = {}
        /\ \A f \in DOMAIN AtomicHeld(k) : V[f] = AtomicHeld(k)[f]
    <3>1. DOMAIN disk \cap Nat = DOMAIN AtomicDisk \cup {num}
      BY <1>2, <2>1, <2>3
    <3>2. ValuesIn(disk[num], k) = {}
      BY <2>3, EmptyHolds
    <3> HIDE DEF num
    <3> QED
      BY <2>1, <3>1, <3>2 DEF AtomicHeld
  <2>6. V = [f \in DOMAIN disk \cap Nat |-> ValuesIn(disk[f], k)]
    OBVIOUS
  <2> HIDE DEF V
  <2>7. Answers(V, durable[k])
    <3>1. /\ DOMAIN AtomicHeld(k) \subseteq DOMAIN V
          /\ \A f \in DOMAIN V \ DOMAIN AtomicHeld(k) : V[f] = {}
      BY <2>5
    <3> QED
      BY <1>1, <2>5, <3>1, EmptyAdded
  <2>8. ASSUME Temp(num) \in DOMAIN disk, SearchValueByKey(disk[Temp(num)], k) # INVALID_VALUE
        PROVE  Shows(V, SearchValueByKey(disk[Temp(num)], k))
    <3>1. output.stage = "copy"
      <4>1. SearchValueByKey(EmptyFile, k) = INVALID_VALUE
        BY DEF SearchValueByKey, LeafFor
      <4> QED
        BY <1>4, <2>2, <2>8, <4>1 DEF FillOK
    <3>2. Shows(AtomicHeld(k), SearchValueByKey(disk[Temp(num)], k))
      BY <2>8, <3>1, TempShows
    <3>3. \A f \in DOMAIN AtomicHeld(k) : NewestAt(AtomicHeld(k), f) => NewestAt(V, f)
      BY <2>5 DEF NewestAt
    <3> QED
      BY <2>5, <3>2, <3>3 DEF Shows
  <2> HIDE DEF num
  <2> QED
    BY <2>1, <2>4, <2>6, <2>7, <2>8, LookupNewest
<1>5. CASE output.stage = "remove"
  <2>1. MergeOK /\ RemoveOK
    BY DEF FileInv, StepsOK
  <2>2. /\ num \in Nat /\ Older \in Nat /\ Newer \in Nat /\ Older # Newer /\ num # Older /\ num # Newer
        /\ NewerFile(Newer, Older) /\ NewerFile(Older, num)
    <3>1. num \in Nat /\ Older \in Nat /\ Newer \in Nat /\ Older < Newer /\ Newer < num
      BY <1>5, <2>1, MergeNumbers
    <3>2. current_level \in Nat /\ levels \in Seq(Seq(Nat)) /\ current_level + 2 \in DOMAIN levels
          /\ num = (current_level + 1) * SIZE_RATIO + Len(levels[current_level + 2])
      BY <1>5, <2>1 DEF MergeOK
    <3>3. PICK m \in Nat : m = Len(levels[current_level + 2])
      BY <3>2
    <3>4. num = (current_level + 1) * 2 + m
      BY <3>2, <3>3 DEF SIZE_RATIO
    <3>5. \A c, x \in Nat : NewerFile(2 * c + 1, 2 * c) /\ NewerFile(2 * c, (c + 1) * 2 + x)
      BY DEF NewerFile
    <3>6. NewerFile(Newer, Older)
      BY <3>2, <3>5 DEF Older, Newer
    <3>7. NewerFile(Older, num)
      <4> HIDE DEF num
      <4> QED
        BY <3>2, <3>3, <3>4, <3>5 DEF Older
    <3>8. Older # Newer /\ num # Older /\ num # Newer
      BY <3>1
    <3> QED
      BY <3>1, <3>6, <3>7, <3>8
  <2>3. /\ DOMAIN AtomicDisk = DOMAIN disk \ {Older, Newer}
        /\ \A f \in DOMAIN AtomicDisk : AtomicDisk[f] = disk[f]
    <3>1. ThisLevel = <<Older, Newer>>
      BY <1>5, <2>1 DEF MergeOK
    <3>2. Range(ThisLevel) = {Older, Newer}
      BY <3>1, TwoFiles
    <3>3. AtomicDisk = [f \in DOMAIN disk \ Range(ThisLevel) |-> disk[f]]
      BY <1>5 DEF AtomicDisk, MergeDone
    <3> QED
      BY <3>2, <3>3
  <2>4. \A f \in DOMAIN disk : f \in Nat /\ IsFile(disk[f])
    BY <1>2, <1>5, <2>1, <2>2, <2>3 DEF RemoveOK
  <2>5. /\ DOMAIN V = DOMAIN disk /\ DOMAIN AtomicHeld(k) = DOMAIN disk \ {Older, Newer}
        /\ \A f \in DOMAIN disk : V[f] = ValuesIn(disk[f], k)
        /\ \A f \in DOMAIN disk \ {Older, Newer} : AtomicHeld(k)[f] = V[f]
    BY <2>3, <2>4 DEF AtomicHeld
  <2>6. V = [f \in DOMAIN disk \cap Nat |-> ValuesIn(disk[f], k)]
    OBVIOUS
  <2> HIDE DEF V
  <2>7. /\ Newer \in DOMAIN V /\ num \in DOMAIN AtomicHeld(k)
        /\ \A f \in DOMAIN AtomicHeld(k) \ {num} : NewerFile(num, f)
        /\ IF V[Newer] # {} THEN V[num] = V[Newer] ELSE Older \in DOMAIN V => V[num] = V[Older]
    BY <1>5, <2>1, <2>2, <2>5 DEF RemoveOK
  <2>8. (\A x : Shows(AtomicHeld(k), x) <=> Shows(V, x)) /\ (Bare(AtomicHeld(k)) <=> Bare(V))
    <3>1. DOMAIN V \subseteq Nat /\ DOMAIN AtomicHeld(k) = DOMAIN V \ {Older, Newer}
          /\ \A f \in DOMAIN AtomicHeld(k) : AtomicHeld(k)[f] = V[f]
      BY <2>4, <2>5
    <3> DEFINE W == AtomicHeld(k)
    <3> HIDE DEF W, num
    <3> QED
      BY <2>2, <2>7, <3>1, OldFilesShow DEF W
  <2>9. Answers(V, durable[k])
    BY <1>1, <2>8 DEF Answers
  <2>10. -1 \in Int /\ -1 < 0 /\ -1 \notin DOMAIN disk
    BY <2>4
  <2> QED
    BY <2>4, <2>6, <2>9, <2>10, LookupNewest
<1>6. output.stage \in Stages
  BY DEF FileInv, StepsOK, FileTypeOK
<1> QED
  BY <1>3, <1>4, <1>5, <1>6 DEF Stages

\* If the process ends anywhere in a compaction, all that is durable is still
\* in the files: there is an order of the directory in which lookups find it,
\* every level from its newest file to its oldest (kv_store.cpp:22-36 loads it as
\* it comes, so that in another order they need not).
THEOREM CompactionSurvivesCrash == ASSUME ~ReuseDeleted PROVE FileSpec => []CompactionIsRecoverable
<1>1. FileInv => CompactionIsRecoverable
  <2> SUFFICES ASSUME FileInv, pc = "compact"
               PROVE  \E ls \in LoadedLevels : AnswersDurable(ls)
    BY DEF CompactionIsRecoverable
  <2>1. FilesBounded
    BY DEF FileInv, StepsOK
  <2>2. PICK ls \in LoadedLevels : Descending(ls)
    BY <2>1, FallingLevels
  <2>3. Loaded(ls)
    BY <2>1, LoadedLevel
  <2>4. AnswersDurable(ls)
    BY <2>2, <2>3, CompactionAnswers DEF AnswersDurable
  <2> QED
    BY <2>4
<1> QED
  BY FileInvariance, <1>1, PTL
=============================================================================
