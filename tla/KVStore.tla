------------------------------ MODULE KVStore ------------------------------
(***************************************************************************)
(* The store of kv_store.cpp and level.cpp: a memtable, the levels of the  *)
(* LSM tree, and the SST files on disk.                                    *)
(*                                                                         *)
(* The program is sequential.  A client call is one action, except that a  *)
(* call that flushes the memtable goes on with a Flush step and then one   *)
(* CompactLevel step per iteration of the compaction loop, pc saying which *)
(* comes next; no other action is enabled until the call is over.          *)
(*                                                                         *)
(* get and scan change nothing here (the buffer pool is a cache of the     *)
(* files' pages) and are operators: Get, ScanStore.                        *)
(***************************************************************************)
EXTENDS BTree

CONSTANTS
  Keys,           \* the keys the client writes
  Values,         \* the values it puts: not the two sentinels of utils.hpp
  memtable_size,  \* puts that fill the memtable
  MaxLevels,      \* bound: no flush starts when this many levels are full
  ReuseDeleted    \* FALSE: a key is left alone once its tombstone is in an SST

ASSUME KVStoreAssumption ==
  /\ Keys \subseteq 0 .. INVALID_VALUE - 1
  /\ Values \subseteq 0 .. TOMB_STONE - 1
  /\ memtable_size \in Nat \ {0}
  /\ MaxLevels \in Nat \ {0}
  /\ ReuseDeleted \in BOOLEAN

SIZE_RATIO == 2

VARIABLES
  memtable,                  \* the AVL tree, as the map it stores
  current_memtable_entries,  \* puts since the last flush
  levels,                    \* levels[i + 1]: SST numbers of level i, oldest first
  disk,                      \* SST number -> file
  pc,                        \* "idle", or what is left of the call under way
  current_level              \* the loop variable of update_levels

vars == <<memtable, current_memtable_entries, levels, disk, pc, current_level>>

-----------------------------------------------------------------------------
(* Reading                                                                 *)

\* The positions of the SSTs in the tree, and the order a lookup visits them.
Places == UNION {{i} \X DOMAIN levels[i] : i \in DOMAIN levels}

FileAt(p) == disk[levels[p[1]][p[2]]]

VisitedBefore(p, q) == p[1] < q[1] \/ (p[1] = q[1] /\ p[2] < q[2])

\* The places whose SST has an entry for key, a tombstone counting as one.
Holders(key) == {p \in Places : SearchValueByKey(FileAt(p), key) # INVALID_VALUE}

\* What a stored value is to the client.
Shown(value) == IF value = TOMB_STONE THEN INVALID_VALUE ELSE value

FindValueInSSTs(key) ==
  IF Holders(key) = {} THEN INVALID_VALUE
  ELSE LET first == CHOOSE p \in Holders(key) :
                      \A q \in Holders(key) : p = q \/ VisitedBefore(p, q)
       IN  Shown(SearchValueByKey(FileAt(first), key))

Get(key) ==
  IF key \in DOMAIN memtable /\ memtable[key] # INVALID_VALUE
  THEN Shown(memtable[key])
  ELSE FindValueInSSTs(key)

\* The pairs scan returns, tagged with where they come from (0, 0 is the
\* memtable).  The code sorts them by key with an unstable sort, so the order
\* of two pairs of one key is not determined; none of them is removed.
ScanStore(start_key, end_key) ==
  {<<k, Shown(memtable[k]), <<0, 0>>>> :
      k \in {x \in DOMAIN memtable : start_key <= x /\ x <= end_key}}
  \cup
  UNION {LET found == Scan(FileAt(p), start_key, end_key)
         IN  {<<found[i].key, Shown(found[i].value), p>> : i \in DOMAIN found} :
         p \in Places}

-----------------------------------------------------------------------------
(* Writing                                                                 *)

\* Bound: another flush keeps the tree within MaxLevels levels.
TreeHasRoom ==
  ~ \A i \in 1 .. MaxLevels : i <= Len(levels) /\ levels[i] # <<>>

\* More than enough puts for one memtable.  (With the off-by-one of the first
\* definition the count passes memtable_size.)
IsFullLate(entries) == entries > memtable_size

IsFull(entries) == entries >= memtable_size

\* Client contract: with ReuseDeleted = FALSE the client does not put or
\* delete a key for which some SST holds a tombstone.
MayWrite(k) ==
  ~ReuseDeleted => \A f \in DOMAIN disk : SearchValueByKey(disk[f], k) # TOMB_STONE

Put(k, v) ==
  /\ pc = "idle"
  /\ TreeHasRoom /\ MayWrite(k)
  /\ memtable' = Assign(memtable, k, v)
  /\ current_memtable_entries' = current_memtable_entries + 1
  /\ pc' = IF IsFull(current_memtable_entries + 1) THEN "flush" ELSE "idle"
  /\ UNCHANGED <<levels, disk, current_level>>

\* A wrong delete: it forgets the key, and with it what hides older values.
DeleteErases(k) ==
  /\ pc = "idle"
  /\ TreeHasRoom /\ MayWrite(k)
  /\ memtable' = [x \in DOMAIN memtable \ {k} |-> memtable[x]]
  /\ UNCHANGED <<current_memtable_entries, levels, disk, pc, current_level>>

\* A tombstone in the memtable; it is not counted and does not flush.
Delete(k) ==
  /\ pc = "idle"
  /\ TreeHasRoom /\ MayWrite(k)
  /\ memtable' = Assign(memtable, k, TOMB_STONE)
  /\ UNCHANGED <<current_memtable_entries, levels, disk, pc, current_level>>

\* close: flush what there is; with no entry write_memtable_to_sst returns.
Close ==
  /\ pc = "idle"
  /\ TreeHasRoom
  /\ DOMAIN memtable # {}
  /\ pc' = "flush"
  /\ UNCHANGED <<memtable, current_memtable_entries, levels, disk, current_level>>

AddNewLevel(ls) == Append(ls, <<>>)

\* The number of the next SST of level 0 (the first definition forgets that
\* another file may be there).
SSTNumberFixed == 0

SSTNumber == IF Len(levels) > 0 /\ Len(levels[1]) > 0 THEN 1 ELSE 0

\* write_memtable_to_sst, up to where update_levels enters its loop.
Flush ==
  LET grown == IF Len(levels) = 0 THEN AddNewLevel(levels) ELSE levels
  IN  /\ pc = "flush"
      /\ disk' = Assign(disk, SSTNumber, BuildFile(SortedRun(memtable)))
      /\ current_memtable_entries' = 0
      /\ memtable' = EmptyMap
      /\ levels' = [grown EXCEPT ![1] = Append(@, SSTNumber)]
      /\ pc' = "compact"
      /\ UNCHANGED current_level

\* A level is compacted when it holds SIZE_RATIO files (in the first
\* definition, one file too late).
NeedsCompactionLate ==
  current_level < Len(levels) /\ Len(levels[current_level + 1]) > SIZE_RATIO

NeedsCompaction ==
  current_level < Len(levels) /\ Len(levels[current_level + 1]) >= SIZE_RATIO

IsLastLevel == current_level = Len(levels) - 1

\* One iteration of update_levels: merge the two oldest SSTs of the level into
\* a new file, remove every old file of the level, move the result down.
CompactLevel ==
  LET this    == current_level + 1
      grown   == IF current_level >= Len(levels) - 1 THEN AddNewLevel(levels) ELSE levels
      sst_num == (current_level + 1) * SIZE_RATIO + Len(grown[this + 1])
      removed == {levels[this][i] : i \in 1 .. Len(levels[this])}
      merged  == Assign(disk, sst_num,
                        MergeSSTs(disk[levels[this][1]], disk[levels[this][2]], IsLastLevel))
  IN  /\ pc = "compact"
      /\ NeedsCompaction
      /\ disk' = [f \in DOMAIN merged \ removed |-> merged[f]]
      /\ levels' = [grown EXCEPT ![this] = <<>>, ![this + 1] = Append(@, sst_num)]
      /\ current_level' = current_level + 1
      /\ UNCHANGED <<memtable, current_memtable_entries, pc>>

\* The loop ends, and the call with it.
StopCompaction ==
  /\ pc = "compact"
  /\ ~NeedsCompaction
  /\ pc' = "idle"
  /\ current_level' = 0
  /\ UNCHANGED <<memtable, current_memtable_entries, levels, disk>>

-----------------------------------------------------------------------------
(* Opening                                                                 *)

\* A wrong inverse of the numbering of CompactLevel.
LevelOfShifted(sst_num) == sst_num \div (SIZE_RATIO + 1)

\* load_into_lsm_tree takes the level from the number in the file name; any
\* other file has the number -1, and -1 / 2 is 0 in C++.
LevelOf(sst_num) == IF sst_num < 0 THEN 0 ELSE sst_num \div SIZE_RATIO

FilesOf(level) == {f \in DOMAIN disk : LevelOf(f) = level}

\* A directory is listed in no particular order.
Listings(S) ==
  {s \in [1 .. Cardinality(S) -> S] :
     \A i, j \in 1 .. Cardinality(S) : s[i] = s[j] => i = j}

\* Levels are added up to the largest one that a file belongs to.
LoadedLevels ==
  IF DOMAIN disk = {} THEN {<<>>}
  ELSE LET top == CHOOSE l \in {LevelOf(f) : f \in DOMAIN disk} :
                    \A f \in DOMAIN disk : LevelOf(f) <= l
       IN  {ls \in [1 .. top + 1 -> UNION {Listings(FilesOf(l)) : l \in 0 .. top}] :
              \A i \in 1 .. top + 1 : ls[i] \in Listings(FilesOf(i - 1))}

\* The process ends between two calls, the memtable with it, and a new
\* KVStore opens the directory.
Restart ==
  /\ pc = "idle"
  /\ memtable' = EmptyMap
  /\ current_memtable_entries' = 0
  /\ levels' \in LoadedLevels
  /\ UNCHANGED <<disk, pc, current_level>>

-----------------------------------------------------------------------------
\* A new store in a directory that open has just created.
Init ==
  /\ memtable = EmptyMap
  /\ current_memtable_entries = 0
  /\ levels = <<>>
  /\ disk = EmptyMap
  /\ pc = "idle"
  /\ current_level = 0

Next ==
  \/ \E k \in Keys, v \in Values : Put(k, v)
  \/ \E k \in Keys : Delete(k)
  \/ Close
  \/ Flush
  \/ CompactLevel
  \/ StopCompaction
  \/ Restart

Spec == Init /\ [][Next]_vars

-----------------------------------------------------------------------------
(* What the store holds, whatever get and scan make of it                  *)

\* Newer data is in smaller levels and, within a level, in later files.
NewerThan(p, q) == p[1] < q[1] \/ (p[1] = q[1] /\ p[2] > q[2])

LeafEntries(file) ==
  UNION {{file[o].entries[i] : i \in DOMAIN file[o].entries} :
         o \in {x \in DOMAIN file : file[x].is_leaf}}

Stored(p, key) == {e.value : e \in {x \in LeafEntries(FileAt(p)) : x.key = key}}

\* The value of the newest entry for key in the SSTs: what a restart leaves.
NewestOnDisk(key) ==
  IF \A p \in Places : Stored(p, key) = {} THEN INVALID_VALUE
  ELSE LET newest == CHOOSE p \in Places :
                       /\ Stored(p, key) # {}
                       /\ \A q \in Places : NewerThan(q, p) => Stored(q, key) = {}
       IN  Shown(CHOOSE v \in Stored(newest, key) : TRUE)

Newest(key) ==
  IF key \in DOMAIN memtable THEN Shown(memtable[key]) ELSE NewestOnDisk(key)

Numbered(ls) ==
  \A i \in DOMAIN ls : \A j \in DOMAIN ls[i] : ls[i][j] = (i - 1) * SIZE_RATIO + (j - 1)

FilesIn(ls) == UNION {{ls[i][j] : j \in DOMAIN ls[i]} : i \in DOMAIN ls}

SortedByKey(run) == \A i, j \in DOMAIN run : i < j => run[i].key < run[j].key

-----------------------------------------------------------------------------
(* Properties                                                              *)

\* The types of the variables; a memtable value is a client's or a tombstone.
TypeOK ==
  /\ DOMAIN memtable \subseteq Keys
  /\ memtable \in [DOMAIN memtable -> Values \cup {TOMB_STONE}]
  /\ current_memtable_entries \in 0 .. memtable_size
  /\ levels \in Seq(Seq(Nat))
  /\ DOMAIN disk \subseteq Nat
  /\ disk = [f \in DOMAIN disk |-> disk[f]]
  /\ pc \in {"idle", "flush", "compact"}
  /\ current_level \in Nat

\* The files on disk are the files of the tree, each once and under the
\* number that load_into_lsm_tree maps back to its level and position; a
\* level that is not being compacted holds at most one SST, and the deepest
\* level is never empty.
TreeShape ==
  /\ Numbered(levels)
  /\ DOMAIN disk = FilesIn(levels)
  /\ \A i \in DOMAIN levels :
       Len(levels[i]) <= IF pc = "compact" /\ i = current_level + 1 THEN SIZE_RATIO ELSE 1
  /\ Len(levels) > 0 => levels[Len(levels)] # <<>>

\* Between calls, the order in which a lookup visits the SSTs is the order of
\* their age, although within a level it is the opposite one (kv_store.cpp:123
\* goes from the oldest file to the newest and stops at the first answer).
VisitsNewestFirst ==
  pc = "idle" => \A p, q \in Places : VisitedBefore(p, q) => NewerThan(p, q)

\* Between calls, get answers with the newest data for a key although it
\* visits the SSTs of a level from the oldest to the newest.
GetReturnsNewest ==
  pc = "idle" => \A k \in Keys : Get(k) = Newest(k)

\* Between calls, scan leaves out no live key of its range and returns each
\* with its current value, among the pairs it returns for that key.
ScanComplete ==
  pc = "idle" =>
    \A k \in Keys : Newest(k) # INVALID_VALUE =>
      \A lo, hi \in Keys : lo <= k /\ k <= hi =>
        \E pair \in ScanStore(lo, hi) : pair[1] = k /\ pair[2] = Newest(k)

\* Every file is in strict key order, which binary search relies on and the
\* merge relies on.
FilesSorted == \A f \in DOMAIN disk : SortedByKey(RunOf(disk[f]))

\* Opening the directory again rebuilds the tree that wrote it, in whatever
\* order the files are listed (the comment at level.cpp:102).
RestartRestoresLevels == [][Restart => UNCHANGED levels]_vars

\* Whatever the client does, what a flush, a compaction or a restart shows
\* for a key other than 0 is what was shown, what was durable, or nothing:
\* an overwritten value never comes back.
NeverStale ==
  [][\A k \in Keys \ {0} :
       \/ Newest(k)' \in {Newest(k), NewestOnDisk(k), INVALID_VALUE}
       \/ k \in DOMAIN memtable' /\ Newest(k)' = memtable'[k] /\ pc = "idle"]_vars

\* The store implements the durable map: a call changes only the key it
\* names, compaction changes nothing, a flush makes everything durable.
Abstract == INSTANCE DurableMap WITH
  Absent  <- INVALID_VALUE,
  map     <- [k \in Keys |-> Newest(k)],
  durable <- [k \in Keys |-> NewestOnDisk(k)]

ImplementsDurableMap == Abstract!Spec

\* Each step has the effect its call promises, and no other: a put or a
\* delete changes its key and nothing durable, a flush makes everything
\* durable and changes nothing else, compaction shows nothing, and a restart
\* leaves exactly what was durable.
CallsTakeEffect ==
  [][/\ \A k \in Keys, v \in Values : Put(k, v) => Abstract!Put(k, v)
     /\ \A k \in Keys : Delete(k) => Abstract!Delete(k)
     /\ Flush => Abstract!Sync
     /\ CompactLevel => UNCHANGED Abstract!vars
     /\ Restart => Abstract!Restart]_vars

\* btree.cpp:297, "they have the same key, always prefer the new one":
\* compaction loses no key's current value.
CompactionPrefersNew ==
  [][CompactLevel => \A k \in Keys : Newest(k)' = Newest(k)]_vars
=============================================================================
