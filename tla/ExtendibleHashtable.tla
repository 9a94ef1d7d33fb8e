------------------------ MODULE ExtendibleHashtable ------------------------
(***************************************************************************)
(* The page table of extensible_hashtable.cpp and bucket.cpp.  A directory *)
(* of 2^global_depth entries leads to buckets, several entries perhaps to  *)
(* one; a bucket that overflows is split and its pages inserted again.     *)
(*                                                                         *)
(* The code names a directory entry by a bit string, the first bit the     *)
(* most significant; here it is the number of that string, so that "1" +   *)
(* id is id + 2^length(id).  split_bucket and insert_page call each other; *)
(* pending holds the pages that the calls under way have still to insert,  *)
(* in the order in which they will.                                        *)
(***************************************************************************)
EXTENDS Naturals, Sequences, FiniteSets, SequencesExt

CONSTANTS
  Pages,
  Hashes,           \* the hash functions considered: from Pages to Nat
  MinDepth, MaxDepth,  \* the depths the table is constructed with
  Depths,           \* bound: the depths it may be set to
  bucket_max_size,
  SafeShrink        \* TRUE: the directory is shrunk only if no page is moved

ASSUME HashtableAssumption ==
  /\ Depths \subseteq Nat
  /\ MinDepth \in Nat
  /\ MaxDepth \in Nat
  /\ MinDepth <= MaxDepth
  /\ \A d \in Depths : d <= MaxDepth
  /\ bucket_max_size \in Nat
  /\ SafeShrink \in BOOLEAN
  /\ \A h \in Hashes : \A p \in Pages : h[p] \in Nat

VARIABLES
  hash,          \* XXH64, one of Hashes; it never changes
  min_depth, max_depth,  \* the limits of global_depth
  global_depth,
  buckets,       \* directory entry -> address of a bucket
  bucket,        \* address -> what the bucket at it holds
  size,          \* pages in the table
  freed,         \* pages in the table whose object has been deleted
  pending        \* pages that insert_page has still to place

limits == <<min_depth, max_depth>>
table_vars == <<limits, global_depth, buckets, bucket, size, freed>>
hashtable_vars == <<hash, table_vars, pending>>

-----------------------------------------------------------------------------
Addresses == 0 .. 2^MaxDepth - 1

IdOf(page) == hash[page] % 2^global_depth

BucketOf(page) == bucket[buckets[IdOf(page)]]

GetPage(page) == page \in ToSet(BucketOf(page).pages)

\* The entry of the same lower bits whose first bit is set, and the other one.
TopVariant(id) == (id % 2^(global_depth - 1)) + 2^(global_depth - 1)
Pair(top_id)   == top_id - 2^(global_depth - 1)

FreeAddress ==
  CHOOSE a \in Addresses : \A id \in DOMAIN buckets : buckets[id] # a

\* A bucket is split when it holds too many pages and is not as deep as the
\* directory.
MustSplit(b) == Len(b.pages) > bucket_max_size /\ b.local_depth < global_depth

-----------------------------------------------------------------------------
\* insert_page, from a caller outside the table.
BeginInsert(page) ==
  /\ pending = <<>>
  /\ pending' = <<page>>

\* split_bucket, b being the bucket of the first pending page with that page
\* in it: one of the two variants of its entry gets a new bucket, unless they
\* have two already.  Both buckets have the given depth; the pages in again
\* are to be inserted once more, and size goes down by uncounted.
SplitInto(b, depth, uncounted, again) ==
  LET id      == IdOf(Head(pending))
      top     == TopVariant(id)
      cleared == [local_depth |-> depth, pages |-> <<>>]
      new     == IF buckets[top] = buckets[Pair(top)] THEN {FreeAddress} ELSE {}
  IN  /\ buckets' = [i \in DOMAIN buckets |->
                       IF i = top /\ new # {} THEN FreeAddress ELSE buckets[i]]
      /\ bucket' = [a \in DOMAIN bucket \cup new |->
                      IF a = buckets[id] \/ a \in new THEN cleared ELSE bucket[a]]
      /\ size' = size + 1 - uncounted
      /\ pending' = again \o Tail(pending)

\* Wrong splits: the bucket gets no deeper; the pages are counted again; the
\* page that overflows the bucket is taken off before it is counted; the list
\* of pages is read after the bucket is cleared.
SplitSameDepth(b) == SplitInto(b, b.local_depth, Len(b.pages), b.pages)
SplitCountsTwice(b) == SplitInto(b, b.local_depth + 1, 0, b.pages)
SplitCountsLate(b) == SplitInto(b, b.local_depth + 1, Len(b.pages) + 1, b.pages)
SplitLosesPages(b) == SplitInto(b, b.local_depth + 1, Len(b.pages), <<>>)

Split(b) == SplitInto(b, b.local_depth + 1, Len(b.pages), b.pages)

\* insert_page for the first pending page.
PlacePage ==
  /\ pending # <<>>
  /\ LET page == Head(pending)
         at   == buckets[IdOf(page)]
         b    == [bucket[at] EXCEPT !.pages = <<page>> \o @]
     IN  IF MustSplit(b) THEN Split(b)
         ELSE /\ bucket' = [bucket EXCEPT ![at] = b]
              /\ size' = size + 1
              /\ pending' = Tail(pending)
              /\ UNCHANGED buckets
  /\ UNCHANGED <<hash, limits, global_depth, freed>>

\* A page is in a bucket once.
WithoutPage(pages, page) == RemoveAt(pages, CHOOSE i \in DOMAIN pages : pages[i] = page)

RemovePage(page) ==
  /\ pending = <<>>
  /\ GetPage(page)
  /\ bucket' = [bucket EXCEPT ![buckets[IdOf(page)]].pages = WithoutPage(@, page)]
  /\ size' = size - 1
  /\ UNCHANGED <<hash, limits, global_depth, buckets, freed>>

\* A wrong expansion: the new bit goes to the other end of the bit string.
ExpandAtTheEnd ==
  /\ global_depth # max_depth
  /\ global_depth' = global_depth + 1
  /\ buckets' = [id \in 0 .. 2^(global_depth + 1) - 1 |-> buckets[id \div 2]]
  /\ UNCHANGED <<hash, limits, bucket, size, freed>>

\* Each entry is replaced by "0" and "1" in front of it, with the same bucket.
ExpandDirectory ==
  /\ global_depth # max_depth
  /\ global_depth' = global_depth + 1
  /\ buckets' = [id \in 0 .. 2^(global_depth + 1) - 1 |-> buckets[id % 2^global_depth]]
  /\ UNCHANGED <<hash, limits, bucket, size, freed>>

-----------------------------------------------------------------------------
(* Shrinking                                                               *)

Table == [global_depth |-> global_depth, buckets |-> buckets, bucket |-> bucket,
          freed |-> freed]

Half(table) == 2^(table.global_depth - 1)

\* merge_bucket: unless an entry and its pair have one bucket, the bucket of the
\* entry hands its pages to the other and is deleted, and they are with it.
MergeBucket(table, id) ==
  LET pair_id == IF id < Half(table) THEN id + Half(table) ELSE id - Half(table)
      curr    == table.buckets[id]
      pair    == table.buckets[pair_id]
      both    == [local_depth |-> table.bucket[pair].local_depth - 1,
                  pages |-> Reverse(table.bucket[curr].pages) \o table.bucket[pair].pages]
  IN  IF curr = pair THEN table
      ELSE [table EXCEPT
              !.buckets[id] = pair,
              !.bucket = [a \in DOMAIN @ \ {curr} |-> IF a = pair THEN both ELSE @[a]],
              !.freed = @ \cup ToSet(table.bucket[curr].pages)]

\* The entries whose bucket is merged into that of their pair.
MergedAway(table) ==
  {id \in 0 .. Half(table) - 1 : table.buckets[id] # table.buckets[id + Half(table)]}

\* A bucket that is merged away and has another entry is used after it has been
\* deleted, and so is a page: shrinking then is undefined, and is not modelled.
ShrinkIsDefined(table) ==
  /\ table.freed = {}
  /\ \A id \in MergedAway(table) : \A other \in DOMAIN table.buckets :
       table.buckets[other] = table.buckets[id] => other = id

\* Client contract: with SafeShrink no page is moved.
MayShrink(table, depth) ==
  table.global_depth # depth =>
    /\ ShrinkIsDefined(table)
    /\ SafeShrink => \A id \in MergedAway(table) :
                       table.bucket[table.buckets[id]].pages = <<>>

\* Every entry is merged with its pair, in the order of the map.
Merged(table) ==
  LET merged[n \in 0 .. 2 * Half(table)] ==
        IF n = 0 THEN table ELSE MergeBucket(merged[n - 1], n - 1)
  IN  merged[2 * Half(table)]

\* A wrong renaming: "0" + id gives its bucket to id, and "1" + id does not.
ShrunkToLower(table, depth) ==
  IF table.global_depth = depth THEN table
  ELSE [Merged(table) EXCEPT
          !.global_depth = @ - 1,
          !.buckets = [id \in 0 .. Half(table) - 1 |-> table.buckets[id]]]

\* shrink_directory with this min_depth: merge every entry in order, then drop
\* the first bit.  The bucket of an entry is read from the copy made before the
\* merging, and the "1" variant comes last.
Shrunk(table, depth) ==
  IF table.global_depth = depth THEN table
  ELSE [Merged(table) EXCEPT
          !.global_depth = @ - 1,
          !.buckets = [id \in 0 .. Half(table) - 1 |-> table.buckets[id + Half(table)]]]

BecomesTable(table) ==
  /\ global_depth' = table.global_depth
  /\ buckets' = table.buckets
  /\ bucket' = table.bucket
  /\ freed' = table.freed

\* With no depth left the code takes the first bit of an empty string.
ShrinkDirectory ==
  /\ global_depth > 0 \/ min_depth = 0
  /\ MayShrink(Table, min_depth)
  /\ BecomesTable(Shrunk(Table, min_depth))
  /\ UNCHANGED <<hash, limits, size>>

\* set_max_size, depth being the logarithm of the size: the minimum depth, and
\* the table after the loop, which a shrinking that is excluded ends early.
LowerMin(depth) == IF min_depth > depth THEN depth ELSE min_depth

Limited(table, depth) ==
  LET times == IF table.global_depth > depth THEN table.global_depth - depth ELSE 0
      shrunk[n \in 0 .. times] ==
        IF n = 0 THEN table
        ELSE IF MayShrink(shrunk[n - 1], LowerMin(depth)) THEN Shrunk(shrunk[n - 1], LowerMin(depth))
        ELSE shrunk[n - 1]
  IN  shrunk[times]

MayLimit(table, depth) == Limited(table, depth).global_depth <= depth

BecomesLimited(table, depth) ==
  /\ BecomesTable(Limited(table, depth))
  /\ max_depth' = depth
  /\ min_depth' = LowerMin(depth)

SetMaxSize(depth) ==
  /\ MayLimit(Table, depth)
  /\ BecomesLimited(Table, depth)
  /\ UNCHANGED <<hash, size>>

SetMinSize(depth) ==
  /\ min_depth' = depth
  /\ max_depth' = IF max_depth < depth THEN depth ELSE max_depth
  /\ UNCHANGED <<hash, global_depth, buckets, bucket, size, freed>>

-----------------------------------------------------------------------------
HashtableInit ==
  /\ hash \in Hashes
  /\ min_depth = MinDepth
  /\ max_depth = MaxDepth
  /\ global_depth = MinDepth
  /\ buckets = [id \in 0 .. 2^MinDepth - 1 |-> id]
  /\ bucket = [a \in 0 .. 2^MinDepth - 1 |-> [local_depth |-> MinDepth, pages |-> <<>>]]
  /\ size = 0
  /\ freed = {}
  /\ pending = <<>>

\* A client of the table inserts a page it has not found in it, removes one it
\* has, and expands or shrinks the directory or sets its limits when it likes.
\* A page that has been freed is not looked at any more: the model stops.
HashtableNext ==
  \/ PlacePage
  \/ /\ freed = {}
     /\ pending = <<>>
     /\ \/ /\ \E page \in Pages : ~GetPage(page) /\ BeginInsert(page)
           /\ UNCHANGED <<hash, table_vars>>
        \/ /\ \/ \E page \in Pages : RemovePage(page)
              \/ ExpandDirectory
              \/ ShrinkDirectory
              \/ \E depth \in Depths : SetMaxSize(depth)
              \/ \E depth \in Depths : SetMinSize(depth)
           /\ UNCHANGED pending

\* The client's thread does not stop inside a call of the table.
HashtableSpec ==
  /\ HashtableInit
  /\ [][HashtableNext]_hashtable_vars
  /\ WF_hashtable_vars(PlacePage)

-----------------------------------------------------------------------------
(* Properties                                                              *)

StoredAt(a) == ToSet(bucket[a].pages)

Stored == UNION {StoredAt(a) : a \in DOMAIN bucket}

Held == Stored \cup ToSet(pending)

\* The types of the variables.
HashtableTypeOK ==
  /\ hash \in Hashes
  /\ min_depth \in Nat /\ max_depth \in Nat /\ min_depth <= max_depth
  /\ global_depth \in 0 .. max_depth
  /\ buckets \in [0 .. 2^global_depth - 1 -> DOMAIN bucket]
  /\ DOMAIN bucket \subseteq Addresses
  /\ \A a \in DOMAIN bucket : /\ bucket[a].local_depth \in 0 .. global_depth
                              /\ bucket[a].pages \in Seq(Pages)
  /\ size \in Nat
  /\ pending \in Seq(Pages)
  /\ freed \subseteq Pages

\* A page is in the bucket that its hash leads to and in no other, through
\* splits and expansions: get_page finds what was inserted, and remove_page
\* removes it from the right bucket.
FoundWhereStored == \A page \in Stored : \A a \in DOMAIN bucket :
  page \in StoredAt(a) <=> a = buckets[IdOf(page)]

\* size counts the pages, each of which is in the table or pending once: the
\* rehash of a split counts none twice.
SizeIsPages ==
  /\ size + Len(pending) = Cardinality(Held)
  /\ \A a \in DOMAIN bucket : IsInjective(bucket[a].pages)

\* Splits lose no page and invent none.
SplitKeepsPages == [][PlacePage => Held' = Held]_hashtable_vars

\* The recursion of split_bucket and insert_page ends.
InsertEnds == pending # <<>> ~> pending = <<>>

\* extensible_hashtable.cpp:138, "Move all pages from curr_bucket to
\* pair_bucket": the pages of the table are there to be used.
MovedPagesLive == Stored \cap freed = {}
=============================================================================
