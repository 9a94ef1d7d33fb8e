------------------------------ MODULE FileStore -----------------------------
(***************************************************************************)
(* The store of KVStore one file operation at a time, with a page of the   *)
(* buffer pool, and with a process that may end between any two of them.   *)
(*                                                                         *)
(* A flush creates its file and then writes it.  An iteration of the       *)
(* compaction loop drops the old pages from the pool, creates the output   *)
(* and the .tmp file of merge_ssts, fills the .tmp file, copies it to the  *)
(* output and removes it, completes the output, and removes the old files  *)
(* one by one.  A file is empty until it is complete: what a crash in the  *)
(* middle of writing one leaves is not told apart.                         *)
(*                                                                         *)
(* Of the pool one page is watched, since a stale page is stale whatever   *)
(* the other pages are.                                                    *)
(***************************************************************************)
EXTENDS KVStore, Functions

CONSTANT NoPage

VARIABLES
  output,   \* what merge_ssts is at: the number of its output and a stage
  cached,   \* the watched page, or NoPage
  durable   \* history: key -> what the store has promised to keep

file_vars == <<vars, output, cached, durable>>

-----------------------------------------------------------------------------
(* Files and pages                                                         *)

NoOutput == [num |-> 0, is_last |-> FALSE, stage |-> "none"]

\* The .tmp file beside the output with this number.
Temp(sst_num) == -sst_num

\* What the .tmp file is when it is taken for an SST: its leaves are from page
\* 0 on, where an SST has its filter.
TempFile(run) ==
  [i \in 1 .. CeilDiv(Len(run), MAX_KEYS) - 1 |->
     [is_leaf |-> TRUE, entries |-> Chunk(run, i + 1, MAX_KEYS)]]

\* What find_node makes of a page past the end of its file: a new node is zeroed.
ZeroNode == [is_leaf |-> FALSE, entries |-> <<>>]

\* Page 0 is the Bloom filter, made from the keys of the file.  In an empty
\* file it is the uninitialised buffer of search_value_by_key, for which the
\* filter of no key stands here: no file that is complete has it.
PageOf(file, offset) ==
  IF offset = 0 THEN {e.key : e \in LeafEntries(file)}
  ELSE IF offset \in DOMAIN file THEN file[offset] ELSE ZeroNode

\* The pages a lookup may ask for: a get asks for the filter and for the root,
\* and a scan for the root, whether the file has them or not.
Pages(file) == {0, 1} \cup DOMAIN file

\* The pages that the size of a file amounts to; without page 0 it is one short.
NumPagesShort(file) == Len(file)

NumPages(file) == IF file = EmptyFile THEN 0 ELSE Len(file) + 1

ThisLevel == levels[current_level + 1]

\* The pool after the pages of the SSTs of a level have been removed from it.
Invalidated(sst_list) ==
  IF /\ cached # NoPage
     /\ \E i \in DOMAIN sst_list :
          cached.file = sst_list[i] /\ cached.offset < NumPages(disk[sst_list[i]])
  THEN NoPage ELSE cached

-----------------------------------------------------------------------------
(* Calls                                                                   *)

\* Bound: the client does not write to a store that a crash has left with two
\* files in a level or with a second file alone.  Lookups may be wrong there
\* already, and the next output for the level overwrites a file it needs.
Settled == Numbered(levels) /\ \A i \in DOMAIN levels : Len(levels[i]) <= 1

ClientCall ==
  /\ Settled
  /\ (\E k \in Keys, v \in Values : Put(k, v)) \/ (\E k \in Keys : Delete(k)) \/ Close
  /\ UNCHANGED <<output, cached, durable>>

\* A get or a scan comes to a page that is not in the pool, reads it from its
\* file and puts it into the pool, an empty file's as well.  From then on the
\* page is taken from the pool, whatever becomes of the file.
ReadPage ==
  /\ pc = "idle"
  /\ cached = NoPage
  /\ \E p \in Places : \E offset \in Pages(FileAt(p)) :
       cached' = [file |-> levels[p[1]][p[2]], offset |-> offset,
                  page |-> PageOf(FileAt(p), offset)]
  /\ UNCHANGED <<vars, output, durable>>

\* A lookup reads another page, and the pool gives up this one for it.
EvictPage ==
  /\ pc = "idle"
  /\ cached # NoPage
  /\ cached' = NoPage
  /\ UNCHANGED <<vars, output, durable>>

CreateSST ==
  /\ pc = "flush"
  /\ disk' = Assign(disk, SSTNumber, EmptyFile)
  /\ pc' = "write"
  /\ UNCHANGED <<memtable, current_memtable_entries, levels, current_level,
                 output, cached, durable>>

WriteSST ==
  LET grown == IF Len(levels) = 0 THEN AddNewLevel(levels) ELSE levels
  IN  /\ pc = "write"
      /\ disk' = [disk EXCEPT ![SSTNumber] = BuildFile(SortedRun(memtable))]
      /\ durable' = [k \in Keys |-> Newest(k)]
      /\ current_memtable_entries' = 0
      /\ memtable' = EmptyMap
      /\ levels' = [grown EXCEPT ![1] = Append(@, SSTNumber)]
      /\ pc' = "compact"
      /\ UNCHANGED <<current_level, output, cached>>

Merging(stage) == pc = "compact" /\ output.stage = stage

\* The iteration up to where merge_ssts has opened its files.
StartMerge ==
  LET grown   == IF current_level >= Len(levels) - 1 THEN AddNewLevel(levels) ELSE levels
      sst_num == (current_level + 1) * SIZE_RATIO + Len(grown[current_level + 2])
  IN  /\ Merging("none")
      /\ NeedsCompaction
      /\ levels' = grown
      /\ cached' = Invalidated(ThisLevel)
      /\ disk' = Assign(Assign(disk, sst_num, EmptyFile), Temp(sst_num), EmptyFile)
      /\ output' = [num |-> sst_num, is_last |-> IsLastLevel, stage |-> "fill"]
      /\ UNCHANGED <<memtable, current_memtable_entries, pc, current_level, durable>>

\* A wrong merge: the newer file is taken for the older one.
MergedRunSwapped == MergeRuns(RunOf(disk[ThisLevel[2]]), RunOf(disk[ThisLevel[1]]), output.is_last)

MergedRun == MergeRuns(RunOf(disk[ThisLevel[1]]), RunOf(disk[ThisLevel[2]]), output.is_last)

\* A step of merge_ssts from one stage to the next, and what it does to the files.
MergeStep(stage, next, files) ==
  /\ Merging(stage)
  /\ output' = [output EXCEPT !.stage = next]
  /\ disk' = files
  /\ UNCHANGED <<memtable, current_memtable_entries, levels, pc, current_level, cached, durable>>

FillTemp == MergeStep("fill", "copy", [disk EXCEPT ![Temp(output.num)] = TempFile(MergedRun)])

RemoveTemp ==
  MergeStep("copy", "index", [f \in DOMAIN disk \ {Temp(output.num)} |-> disk[f]])

CompleteOutput ==
  MergeStep("index", "remove", [disk EXCEPT ![output.num] = BuildFile(MergedRun)])

\* The files of the level that are still there, and the next one to remove.
Remaining == Range(ThisLevel) \cap DOMAIN disk

Position(f) == CHOOSE i \in DOMAIN ThisLevel : ThisLevel[i] = f

\* A wrong order: the newest file goes first.
NextOldBackwards == CHOOSE f \in Remaining : \A g \in Remaining : Position(g) <= Position(f)

NextOld == CHOOSE f \in Remaining : \A g \in Remaining : Position(f) <= Position(g)

\* compact removes an old file; after the last one the output moves down.
RemoveOld ==
  LET this == current_level + 1
  IN  /\ Merging("remove")
      /\ disk' = [f \in DOMAIN disk \ {NextOld} |-> disk[f]]
      /\ IF Remaining = {NextOld}
         THEN /\ levels' = [levels EXCEPT ![this] = <<>>, ![this + 1] = Append(@, output.num)]
              /\ current_level' = current_level + 1
              /\ output' = NoOutput
         ELSE UNCHANGED <<levels, current_level, output>>
      /\ UNCHANGED <<memtable, current_memtable_entries, pc, cached, durable>>

EndOfCall ==
  /\ Merging("none")
  /\ StopCompaction
  /\ UNCHANGED <<output, cached, durable>>

-----------------------------------------------------------------------------
\* The process ends, in a call or between two, and the store is opened again:
\* what was in memory is gone, and the files are what they are.
Crash ==
  /\ memtable' = EmptyMap
  /\ current_memtable_entries' = 0
  /\ levels' \in LoadedLevels
  /\ pc' = "idle"
  /\ current_level' = 0
  /\ output' = NoOutput
  /\ cached' = NoPage
  /\ UNCHANGED <<disk, durable>>

FileInit ==
  /\ Init
  /\ output = NoOutput
  /\ cached = NoPage
  /\ durable = [k \in Keys |-> INVALID_VALUE]

FileNext ==
  \/ ClientCall
  \/ ReadPage
  \/ EvictPage
  \/ CreateSST
  \/ WriteSST
  \/ StartMerge
  \/ FillTemp
  \/ RemoveTemp
  \/ CompleteOutput
  \/ RemoveOld
  \/ EndOfCall
  \/ Crash

FileSpec == FileInit /\ [][FileNext]_file_vars

-----------------------------------------------------------------------------
(* Properties                                                              *)

IsCurrent ==
  /\ cached.file \in DOMAIN disk
  /\ cached.offset \in Pages(disk[cached.file])
  /\ cached.page = PageOf(disk[cached.file], cached.offset)

\* The watched page is what there is to read in an empty file.
ReadEmpty == cached.page = PageOf(EmptyFile, cached.offset)

\* Between calls, where a get may ask for it, the watched page is what its file
\* has at that offset: the names of files are used again after every
\* compaction, and the pages of the file that had the name before are not
\* served for the new one (level.cpp:68-76).  The one exception is a page that
\* was read from a file while that was empty, which only a crash leaves.
PoolIsCurrent ==
  pc = "idle" /\ cached # NoPage =>
    IsCurrent \/ ReadEmpty

\* level.cpp:68, "remove SSTs from the buffer pool because their pages are no
\* longer valid": between calls, a node in the pool under the name of a file is
\* a node of that file.  (The filter, page 0, is left aside: there what is read
\* from an empty file is not even determined.)
ServedNodesAreValid ==
  (/\ pc = "idle"
   /\ cached # NoPage
   /\ cached.file \in DOMAIN disk
   /\ cached.offset > 0) => IsCurrent

\* All that a lookup may come to in the store that would be opened now if the
\* directory gave these levels.
Opened(ls) == INSTANCE KVStore WITH levels <- ls, memtable <- EmptyMap

ProcessEnds == -1

\* What a search of a file may come to.  The filter of an empty file is whatever
\* was in memory: it denies the key, or lets it on to a root without keys, or
\* the process ends, in a division by 0 or an access outside the page.  The
\* filter of a .tmp file is a leaf: it denies the key or lets it on.
SearchOutcomes(f, key) ==
  {SearchValueByKey(disk[f], key)}
  \cup {v \in {INVALID_VALUE} : f < 0}
  \cup {v \in {ProcessEnds} : disk[f] = EmptyFile}

\* What a lookup may come to: what the search of a file may give, if the files
\* visited before it may have nothing, or that no file has the key.
LookupOutcomes(ls, key) ==
  LET found(p)   == SearchOutcomes(ls[p[1]][p[2]], key)
      visited(p) == \A q \in Opened(ls)!Places :
                      VisitedBefore(q, p) => INVALID_VALUE \in found(q)
  IN  {v \in {INVALID_VALUE} : \A p \in Opened(ls)!Places : v \in found(p)}
      \cup UNION {{Shown(v) : v \in found(p) \ {INVALID_VALUE}} :
                    p \in {x \in Opened(ls)!Places : visited(x)}}

\* A get may answer with what is durable, and with nothing else.  (In an empty
\* file the process may end instead.)
AnswersDurable(ls) == \A k \in Keys : LookupOutcomes(ls, k) \ {ProcessEnds} = {durable[k]}

\* If the process ends in a flush, a get in the store that is opened then does
\* not answer with anything but what was durable before the flush, in whatever
\* order the directory is listed and whatever the file the flush has created
\* is taken for.
FlushIsCrashSafe ==
  pc \in {"flush", "write"} => \A ls \in LoadedLevels : AnswersDurable(ls)

\* If the process ends anywhere in a compaction, all that is durable is still
\* in the files: if they are listed in the right order, a get answers with it,
\* and with nothing else, whatever the output and the .tmp file are taken for.
CompactionIsRecoverable ==
  pc = "compact" => \E ls \in LoadedLevels : AnswersDurable(ls)

\* The store as KVStore has it, whose flush and compaction are one step each: a
\* flush happens when its file is written, and an iteration of the compaction
\* loop when its output is complete.
MergeDone == output.stage = "remove"

AtomicLevels ==
  IF MergeDone THEN [levels EXCEPT ![current_level + 1] = <<>>,
                                   ![current_level + 2] = Append(@, output.num)]
  ELSE IF output.stage # "none" /\ output.is_last THEN SubSeq(levels, 1, Len(levels) - 1)
  ELSE levels

AtomicDisk ==
  LET hidden == IF pc = "write" THEN {SSTNumber}
                ELSE IF output.stage = "none" THEN {}
                ELSE IF MergeDone THEN Range(ThisLevel)
                ELSE {output.num, Temp(output.num)}
  IN  [f \in DOMAIN disk \ hidden |-> disk[f]]

Atomic == INSTANCE KVStore WITH
  levels        <- AtomicLevels,
  disk          <- AtomicDisk,
  pc            <- IF pc = "write" THEN "flush" ELSE pc,
  current_level <- IF MergeDone THEN current_level + 1 ELSE current_level

\* Taken together, the file operations of a flush and of an iteration of the
\* compaction loop do what KVStore says they do in one step; only a crash
\* inside a call shows that there are several.
CallsAreAtomic == [][(Crash /\ pc # "idle") \/ [Atomic!Next]_(Atomic!vars)]_file_vars

\* tests/kv_store_test.cpp:175, "Reopen the db and check if the values are
\* still there": after a crash, in whatever order the directory is listed, a get
\* answers with what is durable.
CrashRecovers == [][Crash => AnswersDurable(levels)']_file_vars
=============================================================================
