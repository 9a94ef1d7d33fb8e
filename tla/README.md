# mini_kvs: TLA+ models, model checking and proofs

`mini_kvs` is a single-process, single-threaded key-value store in C++: an LSM tree whose files are
static B-trees, with a memtable, and a buffer pool over the pages of the files. This directory holds
TLA+ models of it, the TLC configurations that check them, and proofs that TLAPS checks.
`PROJECT.json` is the index: components, runs, which definition models which lines, the hazards of
the code, the findings, the theorems.

## 1. Inventory

| Part | State | Operations | Calls |
|---|---|---|---|
| **KVStore** (`kv_store.cpp`) | memtable, `current_memtable_entries`, levels, the directory of SST files | `open`, `put`, `get`, `scan`, `delete_key`, `close`, `write_memtable_to_sst` | AVLTree, Level, BTreeNode |
| **Level** (`level.cpp`) | per level, the list of its SSTs | `update_levels`, `compact`, `load_into_lsm_tree`, `add_new_level` | SSTs; removes pages from the buffer pool |
| **BTreeNode** (`btree.cpp`) | an SST file: page 0 the Bloom filter, page 1 the root, leaves from the last page down | writing a run, `search_value_by_key`, scanning, `merge_ssts` | buffer pool, Bloom filter |
| **AVLTree** (`avl_tree.cpp`) | the memtable | `put` (which overwrites), `get`, `clear`; rotations | - |
| **BufferPool** (`buffer_pool.cpp`) | a page table and an eviction list | `get`, `insert`, `evict`, `remove`, `resize` | hash table, LRU list |
| **ExtendibleHashtable** (`extensible_hashtable.cpp`, `bucket.cpp`) | a directory of bit strings, buckets, the number of pages | get, insert, remove, split, expand, shrink, merge | - |
| **LRU** (`lru.cpp`) | a doubly linked list, a map from keys to nodes | insert, remove, update, evict | - |
| **BloomFilter** (`bloom_filter.cpp`) | a bit vector | `insert`, `get` | - |
| Utils, experiments, test helpers | constants, bit strings | - | - |

A put assigns in the memtable. A put that fills it writes a new SST into level 0 and runs the
compaction loop: a level with `SIZE_RATIO` = 2 files has them merged into one file of the level
below, and so on down. A get asks the memtable, then the SSTs level by level. Reads of SST pages go
through the buffer pool, and a compaction takes the pages of the files it deletes out of the pool.
Nothing runs concurrently and no message is sent. The only asynchronous event is that the process
ends: the memtable is lost and the directory stays.

What is hard, then, is not interleaving but **long sequences of calls**, and agreements between
structures that no single call checks:

* the order of versions of one key over memtable, levels and files, through cascades of merges and
  restarts, and the meaning of a tombstone on the way (KVStore, Level, BTreeNode);
* file numbers: they are computed, reused after every compaction, and a restart takes the shape of
  the tree from nothing else (Level);
* boundaries of leaves and internal levels in a file whose offsets are computed backwards, and a
  merge loop that reads two such files at once (BTreeNode);
* two structures kept in step, table and list (BufferPool); a recursion between `split_bucket` and
  `insert_page` (hash table); pointers left stale by one call and read by a later one (LRU);
* what is left of a flush or a compaction when the process dies inside it.

`PROJECT.json` lists each of these as a hazard, with its line and the properties that cover it, or
why none does.

What makes each part correct:

* **store**: it is a map; every call changes the key it names and no other; flush, compaction and
  restart change nothing a client can see except that a restart forgets what was not flushed;
* **levels**: files on disk and files of the tree are the same; newer data is visited first;
* **SST**: search and scan answer with the run the file was built from; a merge keeps the newest
  entry of each key and ends;
* **buffer pool**: it is an LRU cache of bounded size; the list names just the pages of the table;
* **hash table**: a page is found where it is stored; none is lost by a split; insertion ends;
* **memtable**: the tree is balanced and is the map of what was put, and its file answers the same;
* **Bloom filter**: it denies no key it was given;
* **files**: a crash loses nothing durable, and no page in the pool is that of an earlier file (the
  code keeps the second but for pages of a file that a crash has left empty: section 6);
* **LRU**: the list is the order of last accesses and can be walked in both directions.

## 2. Modules

| Module | Models | Built on |
|---|---|---|
| `BTree` | the contents of an SST file: building it, search, scan, the outcome of a merge | - |
| `DurableMap` | what the store promises: a map and the durable copy of it | - |
| `KVStore` | `kv_store.cpp` and `level.cpp` over `BTree` files; implements `DurableMap` | `BTree` |
| `NatRecursion` | lemmas on recursive functions over the naturals | - |
| `BTreeProofs` | theorems about `BTree`: building, searching, scanning, merging | `BTree`, `NatRecursion` |
| `KVStoreProofs` | theorems about `KVStore`: the shape of the tree, what the store answers; the refinement of `DurableMap` | `KVStore`, `BTreeProofs` |
| `SSTMerge`, `MCSSTMerge` | the loop of `merge_ssts`, one iteration a step; comes to `BTree`'s `MergeRuns` | `BTree` |
| `SSTMergeProofs` | theorems about the loop: its outcome, what it has written at any time, the file it leaves | `SSTMerge`, `BTreeProofs` |
| `RecencyList` | what the eviction list promises: the keys by last access | - |
| `LRU` | `lru.cpp`, pointer by pointer; implements `RecencyList` | - |
| `LRURecency` | `LRU` beside a record of the accesses | `LRU`, `RecencyList` |
| `LRUProofs` | theorems about the pointers of `LRU`; the refinement of `RecencyList` | `LRURecency`, `NatRecursion` |
| `FileStore` | the store one file operation at a time, with crashes and a page of the buffer pool; implements `KVStore` | `KVStore` |
| `FileStoreProofs` | theorems about `FileStore`: the refinement of `KVStore`, the watched page, crashes | `FileStore`, `KVStoreProofs` |
| `AVLTree` | `avl_tree.cpp` and the walks over the tree | `BTree` |
| `BloomFilter` | `bloom_filter.cpp` | - |
| `Memtable`, `MCMemtable` | the memtable from put to file: tree, filter, file | `AVLTree`, `BloomFilter` |
| `MemtableProofs` | theorems about `BloomFilter`, about the tree, and about what a flush makes of both | `Memtable`, `BTreeProofs` |
| `ExtendibleHashtable`, `MCHashtable` | the page table: splits, expansion, shrinking, limits | - |
| `PageCache` | what the buffer pool promises: a resizable LRU cache | - |
| `BufferPool`, `MCBufferPool` | `buffer_pool.cpp`: table and list together; implements `PageCache` | `ExtendibleHashtable`, `LRU` |
| `BufferPoolProofs` | theorems about the page table: every page is where its hash leads; about the pool: table and list are in step, its bound, the refinement of `PageCache` | `BufferPool`, `LRUProofs`, `NatRecursion` |

Definitions named `...Late`, `...Fixed`, `...Early` and the like, each introduced as a wrong or
variant form in its comment, are not used by the models: they are plausible bugs, and each property
has one (the "mutants" of `PROJECT.json`) that TLC finds to violate it.

### KVStore

`memtable` is the AVL tree as the map it stores, `levels` the sequence of levels, each a sequence of
SST numbers from the oldest, and `disk` maps an SST number to the file of that name. An SST number
stands for the name `sst_<n>.dat`. Since the program is sequential a call is one action, with one
exception: a call that flushes continues with `Flush` (writing the file and entering
`update_levels`), one `CompactLevel` per iteration of the compaction loop, and `StopCompaction`. `pc`
and `current_level` hold where that call is. This keeps every intermediate tree visible to the
invariants. `FileStore` goes into these steps and lets the process end inside them.

`get` and `scan` change no state of this component, so they are operators (`Get`, `ScanStore`) and
properties compare what they return with `Newest`, which is defined by the age of the data and knows
nothing of the code's search order. `Restart` is the end of the process between two calls followed by
`open`: `LoadedLevels` rebuilds the levels from the numbers in the file names, for every order in
which the directory may be listed.

A file (`BTree`) is the sequence of its nodes by page offset. The offsets, the division into leaves,
the internal levels and the binary searches are translated as they are, since off-by-ones live there;
the bytes of a page are not. A Bloom filter without false negatives skips only searches that would
find nothing, so searches are modelled without it; `MemtableProofs` proves that there are none, and
that the file of a flush answers the same through its filter.

### FileStore

The state of `KVStore`, and three variables: `output` (the file a merge is writing and its stage),
`cached` (one page of the buffer pool) and `durable` (a history: what was flushed last for each key).
A flush is `CreateSST`, `WriteSST`. An iteration of the compaction loop is `StartMerge` (invalidate the
pool, create the output and the `.tmp` file), `FillTemp` (the merge loop), `RemoveTemp` (the leaves are
copied and the `.tmp` file goes), `CompleteOutput` (internal nodes and root), and `RemoveOld` for each
old file. A file is empty until it is complete. `Crash` may come between any two of these and between
calls; it forgets what was in memory and loads the directory as `open` does, in any order of listing.
A `.tmp` file has a negative number; `extract_number_from_filename` gives -1 for it, hence level 0, and
its leaves are where an SST has its filter and root (`TempFile`).

One page is watched. The pool may lose any page at any time (an eviction), so a page is stale in the
pool just if it is stale when it is the only one watched. `ReadPage` reads any page that a lookup can come
to, if none is watched: a page that is in the pool is not read again, whatever has become of its file.
`EvictPage` gives the watched page up. Page 0 is the filter and stands for the keys it was made from.

A crash may leave an SST empty, and lookups come to it like to any other. A page past the end of a file
is a zeroed node for `find_node` (`ZeroNode`), and it is cached: a scan asks for page 1 first, a get for
page 0 and then, if the filter lets it, for page 1. The filter of an empty file is a buffer that nothing
initialises (`btree.cpp:150-157`). `LookupOutcomes` has all that a get may come to then: the filter denies the key, or lets it
on to a root without keys, or the process ends (`ProcessEnds`), in a division by a modulus of 0 or an access
outside the page. The filter of a `.tmp` file is a leaf, with its number of keys for the modulus and so never 0: it denies the key or
lets it on.

`CallsAreAtomic` says that `FileStore` without crashes inside a call implements `KVStore`: a flush
takes effect with `WriteSST` and an iteration with `CompleteOutput` (`AtomicLevels`, `AtomicDisk`).

### AVLTree, BloomFilter, Memtable

A tree is a root and a heap of nodes, named by their keys as the code's are by their addresses: a
rotation changes pointers and heights, in the order of the code, since the height of the node that goes
down is read for that of the one that goes up. A `put` is a whole insertion. `Memtable` puts entries
into the tree beside the map of what was put, and flushes it: `StartFlush` (the walk of the tree and
the constructor of the filter), `FilterEntry` for each entry, `WriteFile`, `Return`.

A filter is its bits; XXH64 is any function in `Hashes` from a key and a seed to a number. The number
of hash functions, `round(ln 2 * m)`, is computed in millionths.

### SSTMerge

`KVStore` takes a merge as one step whose outcome is `MergeRuns`. `SSTMerge` is the loop itself, with
its offsets and indexes into two files and its output leaf. The property `ComesToMergeRuns` is the
link between them: it justifies the atomic merge of `KVStore`. `MergeAssumption` is what holds of the
inputs of a merge: every SST has an entry, and no entry has `INVALID_VALUE` for its key or value. Blanks
of earlier drops may be among them.

### LRU

The heap is a partial function from addresses to nodes with `prev` and `next`. The code never deletes
a node; the model drops a node when no pointer leads to it, which cannot be observed and keeps the
model finite. `update` does not clear the `prev` of the node it moves to the front. A later `remove`
or an `evict` of that front node reads the stale pointer. `SafeUse = TRUE` is the contract of a client
that never makes those two calls in that state; under it the list is shown correct, with its pool by
run `pool` and by itself in `LRUProofs`. With `SafeUse = FALSE` nothing is excluded, and run `pool_stale`
shows what happens. A null pointer is `<<>>`, which is no address.

### ExtendibleHashtable

A directory entry is a bit string in the code and the number it denotes here. `split_bucket` clears a
bucket and calls `insert_page` for each page, which may split again: `pending` is the list of pages
that the calls on the stack have still to insert, in their order, so that every step of the recursion
is a state. The hash function XXH64 is any function in `Hashes`.

`shrink_directory` merges every entry with its pair in the order of the map and then renames the
entries; `Merged` is that loop. When `merge_bucket` deletes a bucket the pages in it are
deleted with it, and the pair bucket goes on to hold them: they are in `freed`. With `SafeShrink = TRUE`
a client shrinks only when the buckets that are merged away are empty; the properties of the table are
checked under this contract, and run `hashtable_shrink` shows what happens without it. A shrinking that
uses a deleted bucket or page is undefined (`ShrinkIsDefined`) and is left out under either setting.

### BufferPool

`Get` (a hit, which updates the list), `Discard` (`remove`), and an insertion in three steps:
`MakeRoom` (expand or evict), `Place` as often as buckets split, `Enlist`. `EXPANSION_THRESHOLD`, 0.75,
is `4 * pages > 3 * entries`. The data of a page is not in the model. `resize` is `Resize`, which
counts the pages to evict, an `EvictOne` for each, and `SetLimit`. It shrinks the directory once if it
has evicted, even if the limit would not need it, and the directory can then expand again where it
would otherwise evict; `ceiling` is the number of pages that the limits let in, with these expansions
counted, computed when the pool is resized.

## 3. Runs

| Run | Instance | What it shows |
|---|---|---|
| `contract` | 2 keys, 2 values, memtable of 2, up to 3 levels, one entry per leaf, client contract on | The store implements `DurableMap`; each call has its effect and no other (`CallsTakeEffect`); get answers with the newest data, scan misses no live key; files stay sorted. |
| `reuse` | 2 keys, 2 values, memtable of 2, up to 3 levels, no client contract | Files, numbers and levels agree (`TreeShape`), lookup order is order of age, restart rebuilds the levels, an overwritten value never comes back. |
| `merge` | all pairs of runs on 3 keys with values and tombstones; pairs of up to 7 entries each, disjoint, overlapping or equal; both settings of `is_last_level`; 2 entries per leaf | The loop ends, comes to `MergeRuns`, keeps the newest entries when no pair is dropped, and its file answers every search and range. |
| `hashtable` | 4 pages, every hash function of two bits, depths 0 to 2, one page per bucket, `SafeShrink` | Every page stays findable, is counted once, is not lost in a split, through expansion, shrinking and changing limits; insertion ends. |
| `pool` | 4 pages, three of them in one bucket, depths 0 to 2, sizes 2 to 4, `SafeUse`, `SafeShrink` | No pointer of the list dangles and it can be walked both ways (`LRUTypeOK`, `DoublyLinked`); table and list in step; an LRU cache that its limits bound, through resizes. |
| `files` | 2 keys, a value and the tombstone, memtable of 1, up to 3 levels, one entry per leaf | A cached page is that of its file, or was read from a file that a crash had left empty; after a crash in a flush a get answers, if it answers, with what was durable, and after one in a compaction it does so for one listing of the directory; without crashes the calls are those of `KVStore`. |
| `memtable` | 7 keys, a value and the tombstone, 2 entries per leaf, 5 bits per leaf and at most 12, four functions for XXH64 | The tree is balanced and is the map of what was put; the filter has every key; the file answers as the memtable did. |
| `update_lost`, `pool_stale`, `crash_lookup`, `crash_stale`, `hashtable_shrink` | small | Counterexamples: section 6. |

### Bounds, and why they are enough

* `MaxLevels` (a guard of the calls that can lead to a flush): 3 levels. A merge cascades over two
  levels only if the tree has a third, and the third is where a merge is into a level that is not new.
  There is no bound on the number of calls: files are numbered from a finite set, so the state space
  is finite.
* `memtable_size` = 2 with 2 keys: a memtable is flushed with one entry (two puts of one key, or
  `close`), with two, with tombstones, and with tombstones only. `MAX_KEYS` = 1 in `contract` makes a
  file of two entries one of two leaves, so that searches cross leaves and internal nodes. Deeper
  trees, with two internal levels, are the subject of `merge`.
* Key 0 is in `contract` on purpose: a dropped pair leaves a blank `(0, 0)` entry, so 0 is the key a
  wrong merge would confuse.
* Values and keys lie below the two sentinels; the constants of `utils.hpp` are 2^32 - 1 and
  2^32 - 2 and only their order matters.
* `Copies` = 2 in the list: under `SafeUse` a stale pointer keeps at most one old node of a key
  alive: with three keys and the list by itself, a third address per key adds no reachable state.
* Pages are interchangeable to the hash table, so hash functions are taken up to the renaming of
  pages: the increasing ones stand for all. Two bits and four pages let a bucket be shared by four
  entries, split twice, and overflow at full depth with all pages hashing alike.
* `pool` reaches expansion, eviction, removal of front, inner and rear pages, re-insertion, and
  resizes with and without evictions. Pages are model values, under symmetry. The hash functions are
  those that put all pages but one into the last bucket, which is the case in which buckets overflow at
  full depth; `hashtable` has the others. Sizes 3 and 4 are the smallest two for which a pool comes to hold
  more pages than its capacity: 4 pages, `resize(4)`, `resize(3)`, and an insertion that expands.
* `files`: a memtable of one entry makes every put a flush, and three of them cascade; a put after a
  crash flushes again. `Settled` is a bound: after a crash that has left two files in a level, or the
  second file alone, the client only reads, closes the process and opens the store again. In such a
  store lookups may already be wrong (run `crash_lookup`), and the next flush or merge into that level
  truncates a file that the tree holds. A store with an empty file alone in its level is settled: the client
  goes on, and flushes and merges meet the empty file.
* `memtable`: with seven keys there are single and double rotations below the root, and rotations of
  nodes with subtrees on all sides. Twelve bits are fewer than the filter of three leaves asks
  for, so the cap is reached. One of the functions is constant, one tells keys and seeds apart, the others
  collide; the theorem covers all.

### The client contracts

With `ReuseDeleted = FALSE` the client does not write a key while some SST holds a tombstone for it.
Without that restriction the store is *not* a map (run `update_lost`), so the refinement is checked
under it, and what survives without it is checked in `reuse`, where the merge's flaw is allowed to
happen: even then nothing stale is shown. `NeverStale` excludes key 0, for which the blank entry of a
dropped pair is a stored value. `files` is under the same contract. `SafeUse` and `SafeShrink` are
described with their modules.

### Deadlock

It is checked in every run except `merge`, where the merge returns.

### Fairness

Two specifications state fairness: `WF(PlacePage)` for the recursion of an insertion and
`WF(MergeNext)` for the merge loop. Both are steps inside a call on the only thread, which runs on
until the call returns. Nothing obliges a client to make a call, so the other specifications state
none.

## 4. What is proved

`KVStoreProofs` proves, for every set of keys and values, every memtable size, every leaf capacity,
every `MaxLevels`, and both settings of `ReuseDeleted`:

| Theorem | States |
|---|---|
| `TypeCorrect` | `Spec => []TypeOK` |
| `TreeShapeHolds` | `Spec => []TreeShape`: files on disk, their numbers and the levels agree |
| `LookupVisitsNewestFirst` | `Spec => []VisitsNewestFirst` |
| `RestartRestores` | `Spec => RestartRestoresLevels`, in whatever order the directory is listed |

Assumptions: `BTreeAssumption` (a leaf holds at least one entry, `TOMB_STONE = INVALID_VALUE - 1`) and
`KVStoreAssumption` (keys and values below the sentinels, sizes positive). Both are evaluated by TLC
in the runs.

The argument. `TypeOK /\ TreeShape` is not inductive. `CountBelowSize` is needed for the bound of the
memtable count in `TypeOK`: a put may be counted only because a full memtable has been flushed before.
`LoopLeavesEmpty` is needed for `TreeShape`: that a level has at most one file when `StopCompaction`
ends the call holds because the loop has emptied every level it has left, and because the level it is
at has fewer than `SIZE_RATIO` files. `CompactLevel` is the interesting step: the number of its output
is not the number of an input nor of any file of the tree, and removing all files of the level removes
just the two that were merged, because there never are more. The other theorems follow from the same
invariant: with one file to a level, the order of the visit (level, then oldest first) is the order of
age; and with all files numbered by level and position, each level has one listing.

Nothing in these four depends on what is in a file.

`BTreeProofs` proves what is in an SST file and what is found there, for runs of any length, every leaf
capacity and trees of any height:

| Theorem | States |
|---|---|
| `SortedRunSorts` | the run of a memtable has its pairs and no others, in strict key order |
| `FileLayout` | the file of a run has every node of every round at its offset, and no other page |
| `RunOfBuildFile` | a merge reads back from a file, leaf after leaf, the run that was written to it |
| `SearchFinds` | in the file of a run in key order, the descent from the root and the binary searches find the value of every key of the run, and nothing for any other key |
| `ScanFinds` | a scan returns the entries between the two keys, all of them and no others, in key order |
| `MergeRunsMerges` | the outcome of a merge is in key order and has every newer entry and the older entries of the other keys; where pairs are dropped, this holds of the keys other than 0 |

Building, searching, scanning and merging are recursive functions, and the library's induction theorems,
which take an operator, cannot be instantiated here. The proofs take induction over sets instead: `<` is
well-founded on the naturals, and this is applied to the set of arguments that satisfy the statement.
`NatRecursion` has the two lemmas that are used again and again: induction along a measure, and that a
function whose values are defined from those at arguments of smaller measure exists, so that what the
model's definition chooses satisfies its equation.

The second half of `KVStoreProofs` proves the properties of run `contract` and `NeverStale` of run `reuse`, for every
value of the constants. All but `NothingStaleComesBack` are proved under the client contract, `~ReuseDeleted`,
without which they are false (section 6):

| Theorem | States |
|---|---|
| `GetIsNewest` | `Spec => []GetReturnsNewest` |
| `ScanIsComplete` | `Spec => []ScanComplete` |
| `FilesAreSorted` | `Spec => []FilesSorted` |
| `StoreIsDurableMap` | `Spec => ImplementsDurableMap`: initial states and every step map to the abstract map |
| `CallsDoWhatTheyPromise` | `Spec => CallsTakeEffect` |
| `CompactionKeepsTheMap` | `Spec => CompactionPrefersNew`: a merge changes the newest data of no key; run `update_lost` has the counterexample without the contract |
| `NothingStaleComesBack` | `Spec => NeverStale`, with or without the contract |

The inductive invariant, `DataInv`, is that of the first half with three conjuncts about contents: every
file is the one that `BuildFile` makes of a run that the store writes, in key order up to the blanks of
dropped pairs (`FilesAreSSTs`); a flush has entries to write (`FlushHasEntries`); and, under the contract,
where a file has a tombstone no newer file and not the memtable has its key (`TombstonesAreNewest`). Without
the last, `CompactLevel` would not preserve the rest: it says that the merge of two files meets no pair
whose older entry is a tombstone, so that no merge drops a pair. TLC checked `DataInv` on the instances of
`contract` and `reuse` before it was proved.

The argument of the step. By `TreeShape` the files have an age: a greater level is older and, in a level,
a smaller number. A flush adds the newest file of all. A compaction replaces two files that are adjacent
in age by one that takes their place; by `MergeRunsMerges` and `RunOfBuildFile` the entry it has for a key
is the newer of those the two had. `get` visits the files by age (`VisitsNewestFirst`), so that by
`SearchFinds` the first that answers is the newest that has the key. For the
refinement, a flush maps to `Sync` of the abstract map, the rest of a compaction to stutters.

`FileStoreProofs` proves every property of run `files`, for every value of the constants. The last two theorems
are under the client contract, `~ReuseDeleted`: they speak of `durable`, the data a client has put, and without
the contract a merge loses some of that with no crash at all (section 6, finding 1). The first two hold with and
without it:

| Theorem | States |
|---|---|
| `FileOperationsAreAtomic` | `FileSpec => CallsAreAtomic`: every file operation maps to a step of `KVStore` or a stutter, a crash inside a call excepted |
| `PageIsCurrent` | `FileSpec => []PoolIsCurrent`: a page in the pool is its file's, unless it was read from a file that was empty then |
| `FlushSurvivesCrash` | `FileSpec => []FlushIsCrashSafe`: whatever the order in which the directory is listed, and whatever the filter of the empty file says |
| `CompactionSurvivesCrash` | `FileSpec => []CompactionIsRecoverable`: for the order in which every level is listed from its newest file, whatever the filters of the output and of the `.tmp` file say |

The crash theorems are about the get that answers. That the process may end on the filter of an empty file is among the outcomes,
and no property excludes it.

None of the four properties is inductive, and for the refinement the invariant of `KVStore` is needed, of which
`FileStore` has another state. `A` is the instance of `KVStoreProofs` for the state that `AtomicLevels` and
`AtomicDisk` make of the files, so that all its lemmas can be used of that state; an operator of `KVStore` and
the same operator of the instance are shown equal one by one (`SameFiles`, `SameSearch`, `SameNext`, ...). The
inductive invariant, `FileInv`, has three parts.

* `StepsOK` says where in a call the store is: a file created by a flush is empty until it is written; while
  an output is made (`MergeOK`, `FillOK`), the two inputs are there, the output is empty and the `.tmp` file
  is what that stage has made of it; once the output is complete (`RemoveOK`), it is newer than every file but
  its inputs and has for each key what they have as long as one of them is there. `CacheOK` is the invariant
  behind `PoolIsCurrent`: during a merge the watched page is of none of the files that are to go, unless it was read
  from an empty file. It is `StartMerge` that makes it so, by invalidating the pool before the output is written.
* `InOrder => A!DataInv`: the invariant of `KVStore`, wherever a call can start. After a crash that has left two
  files in a level it does not hold until the store is in order again, which `IdleOK` recognises by the numbers
  of the files (`Tidy`): the levels that `LoadedLevels` gives are then the ones it had.
* `DurableOK`: what is durable is what the files of `A` have.

A step inside a call is a stutter of `A` except for the two where the call takes effect. For `CompleteOutput` the
work is that the run in the output is the one that `KVStore` gives to the merge (`CompleteStep`): `is_last` was
read before a new last level was added, which `KVStore` does not have until the merge is done (`MergeLevels`).
A crash maps to `Restart` of `KVStore` if no call was going on; otherwise only `StepsOK` and, where the files
left happen to be in order, `DataInv` are to be shown (`CrashSettled`).

The crash theorems compare what a lookup may come to, in the levels loaded from the directory, with the age of the files.
`LookupNewest`: all that a lookup by the levels comes to, the end of the process aside, is what the newest file that
has the key has for it, if no two files of a level have it, or if every level is listed from its newest file. It rests on
`SearchComesTo` (the search of a file comes to what the file has for the key, or, in the `.tmp` file, to nothing, or ends the
process) and on `LookupFirst` (no file visited earlier has the key, and no file visited later is asked).
In a flush the first condition holds, since the new file is empty. In a compaction the second does: that there is such a listing
(`FallingListing`) is by giving each file the number of greater ones as its place. The `.tmp` file is taken for an SST of level 0, where it comes last;
it has a leaf where an SST has its root, so that a search looks into that leaf only and finds what the merged run
has or nothing (`TempSearch`), which the inputs have too (`TempShows`). When some old files are gone, the output answers for
them (`OldFilesShow`, from `RemoveOK`). TLC checked `FileInv` on the instance of `files` before it was proved.

`SSTMergeProofs` proves the safety properties of run `merge`, for all inputs that `MergeAssumption`
allows, of any length, and every leaf capacity:

| Theorem | States |
|---|---|
| `LoopComesToMergeRuns` | `MergeSpec => []ComesToMergeRuns`: what `KVStore` takes as one step is what the loop does |
| `NewestEntriesWin` | `MergeSpec => []NewestWins`, for inputs in key order (`InputsSorted`) |
| `MergedFilesAnswer` | `MergeSpec => []MergedFileAnswers` |

The inductive invariant, `MergeInv`, says that each offset and index name a place in the run of their
file (`At`): some leaf is at that offset, and the index is in it; past the last entry they stay at the end
of the last leaf. At these places i and j, what has been written is followed in `MergeRuns` by what the
recursion computes from i and j on, and the loop is done when both runs are (`ReadsAt`). An iteration takes
the same entries as one unfolding of the recursion (`BranchesMerge`, `TakesAt`) and moves to the next
place of each file, across the boundary of a leaf or not (`AtMoves`). That places are read correctly rests on
`FileLayout`. `InputsSorted` cannot be dropped: a blank among the inputs is out of key order.

`LRUProofs` proves of the list by itself what it promises, for every set of keys and every bound on the nodes, under
the client contract `SafeUse`, without which it is false (run `pool_stale`). No run checks these by themselves: run `pool` checks the first two
for the list of the pool (`PoolListIsTyped`, `PoolListIsDoublyLinked` below) and the order of recency as that of the cache (`ImplementsPageCache`):

| Theorem | States |
|---|---|
| `ListIsTyped` | `RecencySpec => []LRUTypeOK`: no pointer dangles |
| `ListIsDoublyLinked` | `RecencySpec => []DoublyLinked` |
| `ListOrdersByRecency` | `RecencySpec => []ListIsByRecency`: a walk along the pointers visits the listed keys by last access |
| `ListImplementsRecency` | `RecencySpec => ImplementsRecencyList`: every pointer operation maps to one on the sequence of keys |

The inductive invariant, `ListInv`, ties each pointer to a position in `order`: the map leads from each
key of the order to its own node, the node of a key has the node of the next key for `next` and that of the
previous key for `prev`, and the ends are the nodes of the first and the last key. It says nothing of the
`prev` of the first node, which is what `update` leaves wrong: `SafeUse` excludes the two calls that read it.
The heap is finite and closed under its pointers, which `Becomes` preserves, since as many steps as a heap
has nodes reach every node that can be reached (`ReachableCloses`, by counting). `remove` and `evict` take
a node out (`TakeOut`), `insert` puts a new one in front (`PushNode`), and `update` does the one after the
other. That the walk of `Order` visits the positions one by one is an induction on its steps (`WalkIsOrder`).

The first half of `BufferPoolProofs` proves the safety properties of run `hashtable`, for every set of pages, all depths, every
capacity of a bucket and all hash functions:

| Theorem | States |
|---|---|
| `TypeCorrect` | `HashtableSpec => []HashtableTypeOK` |
| `PagesAreFound` | `HashtableSpec => []FoundWhereStored`: a page is in the bucket that its hash leads to, and in no other |
| `SizeCounts` | `HashtableSpec => []SizeIsPages` |
| `PlacingKeepsPages` | `HashtableSpec => SplitKeepsPages`: no step of an insertion loses a page or invents one |

The assumption is `HashtableAssumption`; both settings of `SafeShrink` are covered: without the contract a
page that a shrinking has deleted is still counted and found, which is the finding of run `hashtable_shrink`.
`HashtableTypeOK` is not inductive. A shrinking lowers the local depth of the buckets that others are merged
into, and that these depths stay above 0 and the others fit the smaller directory depends on how the
directory came about. The inductive invariant, `HashtableInv`, recovers that from the directory itself: at
each depth, an entry shares its bucket with its "1" variant or has been cut off from it (`Cut`). `CutAlone`:
a variant that has been cut off was, at that depth, the only entry of its bucket, since `split_bucket` cuts
off one entry at a time. `NotTooDeep`: a bucket from which nothing has been cut off since the directory had
depth d - 1 is no deeper than that, so that a shrinking lowers every bucket of full depth. `DeepEnough`: a bucket
is at least as deep as its entry has been cut, so that no merge takes its local depth below 0. These make up `Directory`. Beside it, every page is in the bucket of its hash, the pending pages are
not in the table, and `size` is the number of those that are (`IsTable`). TLC checked `HashtableInv`
on the instance of `hashtable`, under both settings of `SafeShrink`, before it was proved.
Each operation is taken on the table as a record: `ExpandedTable`,
`ShrunkTable`, `SplitTable`, `PlacedTable`, `RemovedTable`. That a split finds a free address is by counting
the buckets. The loop of `shrink_directory` has the closed form `AfterMerging`, and the arithmetic of
directory entries (the last bits of a hash, with one bit more and one bit less) is derived from
2^n being the number of subsets of n elements (`PowerDoubles`, `OneBitMore`).

The second half proves the properties of run `pool`, for every set of pages and of sizes, all depths, every
capacity of a bucket and all hash functions, under the contract `SafeUse`, without which they are false (run
`pool_stale`):

| Theorem | States |
|---|---|
| `PoolListIsTyped` | `Spec => []LRUTypeOK`: no pointer of the pool's list dangles |
| `PoolListIsDoublyLinked` | `Spec => []DoublyLinked` |
| `ListIsInStep` | `Spec => []ListMatchesTable`: the list and the table have the same pages, also between the evictions of a `resize` |
| `PoolIsBounded` | `Spec => []PoolBounded`: no sequence of calls brings the pool over its ceiling |
| `PoolImplementsCache` | `Spec => ImplementsPageCache`: table and list together are a resizable LRU cache |

The assumptions are `HashtableAssumption` and `BufferPoolAssumption`: the pool is resized to a size between 1 and the
greatest whose logarithm is `MaxDepth`. The inductive invariant, `PoolInv`, takes
`HashtableInv` and the `ListInv` of `LRUProofs` together, the latter for the list of the pool (`List`), and adds three conjuncts
that relate the two.

* `InStep`: while a page is inserted it is in the table, or among the pages that a split has still to place, and not
  yet in the list; otherwise the list has the pages of the table. So the page at the end of the list, which an eviction
  takes, is in the table (`InvEvict`).
* `ResizeOK`: `Resize` decides on what will be left, before anything is evicted: the pages to keep, whether
  the directory may be shrunk without them (`MayShrink`, `MayLimit`), and the ceiling. `ResizeOK` says that all this
  is still true of what is left, after any number of evictions. An `EvictOne` takes a page that was not among
  those to keep, so that the table restricted to these (`TableOf`) is the same before and after (`SameKept`),
  and when the last has gone the table is the one foreseen: `SetLimit` does to it what was counted with.
* `RoomOK`: the ceiling lets in the pages of the pool and one more for each expansion that the directory has still
  before it. This is what `PoolBounded` does not say and needs: an insertion that expands the directory adds a page without
  evicting one, but it leaves one expansion less; an insertion that finds room is below the threshold,
  which is below the capacity (`ThresholdIsCapacity`); and with every level of depth the capacity grows by one at least
  (`CapacityGrows`), so that a pool below the threshold of its depth is as far from the ceiling as it has expansions before it.

The refinement maps the order of the list to the order of the cache, with the page being inserted already in front and
the pages that `resize` has still to evict already gone. An insertion is then a step of the cache at `MakeRoom`, which
has made its choice to evict or not, and `resize` at `Resize`; the other steps of both are stutters. That `resize` leaves the pool
full or with room for one page is the arithmetic of its rounding up (`PagesToEvict`). That an eviction gives up the
least recently used page is `ListEvict`, and that only a full pool evicts is `InvMakeRoom` with `ThresholdIsCapacity`. TLC
checked `PoolInv` on the instance of `pool` before it was proved.

`MemtableProofs` proves the properties of run `memtable`, for every set of keys, any number and order of puts, every page
size, leaf capacity, number of bits per entry, and every hash function:

| Theorem | States |
|---|---|
| `FilterIsTyped` | `FilterSpec => []FilterTypeOK`: at least one bit, and no more than the page has |
| `FilterDeniesNoKey` | `FilterSpec => []NoFalseNegatives` |
| `TreeStaysBalanced` | `MemtableSpec => []TreeIsBalanced` |
| `TreeStaysMap` | `MemtableSpec => []TreeIsMap`: get, scan and the walk of a flush answer from the map of what was put |
| `FlushedFileIsMemtable` | `MemtableSpec => []FlushedFileAnswers`: so does the file, its filter asked first |
| `FlushIsFilterUse` | `MemtableSpec => FlushImplementsFilter`: the first two theorems are about the filter of a flush too |

The assumptions are `BTreeAssumption`, `BloomFilterAssumption` and `MemtableAssumption`: keys and values are words, and
the leaves that all keys together take are no more than `MaxFilterEntries`, the bound of the model.

`FilterTypeOK /\ NoFalseNegatives` is inductive: an insertion only sets bits, and the bits of a key are computed from the
number of bits and of hash functions, which only a constructor changes. The inductive invariant of the memtable,
`MemtableInv`, adds that the entries are keys with stored values (`IsPut`), that the tree is one of just these
(`TreeOf`), and where a flush is (`FlushInv`: the run is the sorted one, the keys before `next` are in the filter, the
file is built from what was flushed). It is needed because `TreeIsMap` says nothing of how the nodes hang together,
which an insertion depends on, and `FlushedFileAnswers` nothing of the steps before the file is written.

* *The shape.* A set of keys is a subtree at a pointer (`IsSubtree`) if there is a function from nodes to the keys below
  them under which each node divides its own into those of its two children, smaller and greater ones, keeps their
  height, and is balanced. So a subtree is described without recursion: it can be taken apart into a node and two
  subtrees (`SubtreeParts`), put together again (`SubtreeFrom`), and it does not depend on nodes elsewhere
  (`SubtreeSame`, `SubtreeKept`).
* *Insertion.* `IsRebalanced` is the contract of a rebalancing: no key and no value is lost, nodes outside the subtree are not
  touched, and the height is a given one. `RightRotateIs` and `LeftRotateIs` follow the pointers and heights of a rotation in
  the order of the code; single and double rotations on both sides rest on them (`LeftHeavy`, `RightHeavy`). The
  code chooses between one rotation and two by comparing the key with the child it went to; that this is right is
  because a child that has grown is higher on the side of the key (`Leans`), which is therefore part of the
  contract of an insertion (`IsInserted`, `InsertIs`).
* *Walks.* get, scan, the walk of a flush and the depth recurse on pointers. Each has one solution because the heights fall
  on the way down (`TreeInduction`, `TreeRecursion`, from `NatRecursion`). A walk gives a run of the keys of a
  subtree in order (`ScanTreeIs`, `InOrderIs`); that this is `SortedRun` of the map follows from `RunsEqual`: two runs in strict
  key order with the same entries are the same.
* *The flush.* Each step of the memtable is a step of the filter or none (`FilterSteps`). The file answers through its filter
  by `SearchFinds` of `BTreeProofs` and `NoFalseNegatives`.

## 5. What is only model-checked

* Liveness (`InsertEnds`, `MergeEnds`), which is out of the prover's reach.
* The counterexamples of the runs that expect a violation.

The other way round, what `LRUProofs` says of the list by itself (`ListIsByRecency`, `ImplementsRecencyList`) is proved and has no run of its own.
Every safety property, action property and refinement that a passing run checks is stated by a theorem.

## 6. Findings

Each is a run that TLC ends with a counterexample, against a statement the repository makes.

1. **A value put again after a delete is lost** (`update_lost`; `btree.cpp:274`). When the older file
   has a tombstone and the newer one a value, the merge into the last level drops both and leaves a
   blank `(0, 0)` entry; the comment at `btree.cpp:297` says "always prefer the new one".
2. **The eviction list comes to name a page that the pool does not hold** (`pool_stale`; `lru.cpp:54`):
   a hit, the removal of that page as compaction does it, and the list is broken; the next eviction
   passes a null page on.
3. **After a crash between a flush and its compaction a deleted key comes back** (`crash_lookup`;
   `kv_store.cpp:123`), against `kv_store_test.cpp:175`, "Reopen the db and check if the values are still
   there": the two files of level 0 are loaded as they were, and a get visits the older one first and stops at
   its value; the tombstone is in the newer one. `CompactionIsRecoverable` (run `files`) shows that nothing is lost from the
   files: if every level were visited from its newest file, a get would answer rightly.
4. **The pool serves a page of a file that a crash left empty for the next file of that name**
   (`crash_stale`; `level.cpp:72`), against `level.cpp:68`, "remove SSTs from the buffer pool because their pages
   are no longer valid": a scan caches a zeroed node as the root of the empty file, compaction counts no page of
   the file, and what is flushed under its name later is not found, since the root in the pool has no keys.
5. **Shrinking the directory deletes pages that the table still holds** (`hashtable_shrink`;
   `extensible_hashtable.cpp:145`), against the comment at line 138.

Seen while modelling, without a run of their own:

* Only a tombstone in the older file, with the same key in the newer, is dropped (`btree.cpp:274`); other
  tombstones stay in the last level, against the comment at `btree.cpp:275`.
* `delete_key` is not counted (`kv_store.cpp:84`), so deletes grow the memtable beyond `memtable_size`,
  the "max number of entries in memtable" of `kv_store.hpp:20`.
* A bucket that more than two directory entries share may reach full depth with more pages than its
  capacity (`extensible_hashtable.cpp:115`), against `extendible_hashtable.hpp:35`.
* The "number of bits per entry" (`bloom_filter.hpp:19`) is per leaf: `btree.cpp:60` and `btree.cpp:341`
  pass the number of leaves. The filter denies no key but excludes hardly any.
* A get that comes to a file a crash left empty asks a filter read from an uninitialised buffer
  (`btree.cpp:150-157`); its modulus may be 0, and the process may end there.
* The place of a file in its level is that of the directory's listing (`level.cpp:108`): where a crash has left two files in a
  level, their order after `open` is arbitrary. Files without a number, as a `.tmp` file, go to level 0.
* `resize` may leave a pool that outgrows its capacity (`buffer_pool.cpp:42`; see `ceiling`).

## 7. Not modelled, and the plan

Left out for good: the experiments and the test helpers (no state of their own), page bytes and file
I/O errors (an unwritable file raises an exception that nothing handles), the unused `sst_count`,
`read_leaf_nodes_from_file` (tests only), and what the code does after undefined behaviour: a directory
shrunk with deleted buckets, sentinels stored as keys or values. A file that a crash leaves half written, with
leaves and no root, is not told apart from an empty one.

What could come next is to go on where the model ends, at the pages: the bytes of a node and the I/O errors that no handler
catches. The proofs leave nothing of the runs' safety properties open.
