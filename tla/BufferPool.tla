----------------------------- MODULE BufferPool ----------------------------
(***************************************************************************)
(* The buffer pool of buffer_pool.cpp: the page table and the eviction     *)
(* list, kept in step.                                                     *)
(*                                                                         *)
(* insert is three steps: MakeRoom, the placing of the page by the table   *)
(* (PlacePage, as often as buckets are split), and Enlist.  Every other    *)
(* call is one action, and starts when none of these is under way, but for *)
(* resize: Resize, an EvictOne for each page to evict, and SetLimit.       *)
(***************************************************************************)
EXTENDS ExtendibleHashtable

CONSTANTS
  Copies, SafeUse,  \* as in LRU
  none,             \* no page
  MaxSizes          \* the sizes that resize is called with

ASSUME BufferPoolAssumption ==
  /\ none \notin Pages
  /\ SafeUse \in BOOLEAN
  /\ MaxSizes \subseteq 1 .. 2^(MaxDepth + 1) - 1

VARIABLES
  node_map, front, rear, heap,  \* the eviction list
  inserting,                    \* the page that insert is working on, or none
  resizing,                     \* what resize has still to do
  ceiling                       \* history: what the limits mean for the size

lru == INSTANCE LRU WITH Keys <- Pages

vars == <<hashtable_vars, node_map, front, rear, heap, inserting, resizing, ceiling>>

NoResize == [max_size |-> 0, evict |-> 0, shrink |-> FALSE]

\* Between calls.
Idle == pending = <<>> /\ inserting = none /\ resizing = NoResize

\* A comparison that lets one page more in.
PastThresholdLate(pages, entries) == 4 * (pages - 1) > 3 * entries

\* get_size() > get_num_directory() * EXPANSION_THRESHOLD, which is 0.75.
PastThreshold(pages, entries) == 4 * pages > 3 * entries

\* The pages the pool has when it evicts: the fewest past the threshold of a
\* directory of this depth.
Capacity(depth) == (3 * 2^depth) \div 4 + 1

-----------------------------------------------------------------------------
\* A page that is in the pool.
Get(page) ==
  /\ Idle
  /\ GetPage(page)
  /\ lru!Update(page)
  /\ UNCHANGED <<hashtable_vars, inserting, resizing, ceiling>>

\* A wrong decision: it evicts although the directory can be expanded.
MustEvictAtAnyDepth == PastThreshold(size, 2^global_depth)

MustEvict == PastThreshold(size, 2^global_depth) /\ global_depth = max_depth

\* The page that evict looks up is the page of the last node; if the table
\* does not have it the program fails, and the model stops here.
Evict ==
  /\ lru!Evict
  /\ RemovePage(lru!EvictedKey)

\* insert, up to insert_page: expand the directory or, when it cannot be
\* expanded any more, evict.
MakeRoom(page) ==
  /\ Idle
  /\ ~GetPage(page)
  /\ inserting' = page
  /\ BeginInsert(page)
  /\ IF MustEvict THEN Evict
     ELSE /\ IF PastThreshold(size, 2^global_depth) THEN ExpandDirectory
             ELSE UNCHANGED <<hash, table_vars>>
          /\ UNCHANGED <<node_map, front, rear, heap>>
  /\ UNCHANGED <<resizing, ceiling>>

Place ==
  /\ PlacePage
  /\ UNCHANGED <<node_map, front, rear, heap, inserting, resizing, ceiling>>

Enlist ==
  /\ inserting # none /\ pending = <<>>
  /\ lru!Insert(inserting)
  /\ inserting' = none
  /\ UNCHANGED <<hashtable_vars, resizing, ceiling>>

\* A wrong remove: the eviction list keeps the page.
RemoveUnlisted(page) ==
  /\ Idle
  /\ RemovePage(page)
  /\ UNCHANGED <<pending, inserting, resizing, ceiling, node_map, front, rear, heap>>

\* remove, of a page that is in the pool.
Discard(page) ==
  /\ Idle
  /\ RemovePage(page)
  /\ lru!Remove(page)
  /\ UNCHANGED <<pending, inserting, resizing, ceiling>>

-----------------------------------------------------------------------------
Log2Floor(n) == CHOOSE d \in 0 .. n : 2^d <= n /\ n < 2^(d + 1)

\* A wrong count: it is rounded up from what the pool may keep.
NumToEvictTooMany(n) == IF 4 * size > 3 * n THEN (4 * size - 3 * n) \div 4 + 1 ELSE 0

\* ceil(size - 0.75 * n), if that is positive.
NumToEvict(n) == IF 4 * size > 3 * n THEN (4 * size - 3 * n + 3) \div 4 ELSE 0

\* The order of the pages without the last n.
Spared(n) == SubSeq(lru!Order, 1, Len(lru!Order) - n)

\* A bucket's list without the pages that are not among these.
Keeping(list, pages) ==
  LET kept[i \in 0 .. Len(list)] ==
        IF i = 0 THEN <<>>
        ELSE IF list[i] \in pages THEN Append(kept[i - 1], list[i]) ELSE kept[i - 1]
  IN  kept[Len(list)]

\* The table when resize has evicted all but these pages, and shrunk it if it
\* has evicted any.
TableOf(pages) ==
  LET kept(b) == [b EXCEPT !.pages = Keeping(@, pages)]
  IN  [Table EXCEPT !.bucket = [a \in DOMAIN bucket |-> kept(bucket[a])]]

AfterEvicting(table, evicts) == IF evicts THEN Shrunk(table, min_depth) ELSE table

\* Client contract: with SafeUse the pool keeps a page, and the directory is
\* not shrunk in a way that SafeShrink excludes.
MayResize(n, kept) ==
  LET some == NumToEvict(n) > 0
  IN  /\ SafeUse /\ some => kept # {}
      /\ some => MayShrink(TableOf(kept), min_depth) /\ (global_depth > 0 \/ min_depth = 0)
      /\ MayLimit(AfterEvicting(TableOf(kept), some), Log2Floor(n))

\* The size that the pool may come to: the capacity, or a page more for each
\* time that the directory is expanded instead of evicting.
CeilingFor(n, kept) ==
  LET table == AfterEvicting(TableOf(kept), NumToEvict(n) > 0)
      depth == Limited(table, Log2Floor(n)).global_depth
      peak  == Cardinality(kept) + Log2Floor(n) - depth
  IN  IF peak > Capacity(Log2Floor(n)) THEN peak ELSE Capacity(Log2Floor(n))

\* resize, which counts first how many pages to evict.
Resize(n) ==
  LET kept == ToSet(Spared(NumToEvict(n)))
  IN  /\ Idle
      /\ MayResize(n, kept)
      /\ resizing' = [max_size |-> n, evict |-> NumToEvict(n), shrink |-> NumToEvict(n) > 0]
      /\ ceiling' = CeilingFor(n, kept)
      /\ UNCHANGED <<hashtable_vars, node_map, front, rear, heap, inserting>>

EvictOne ==
  /\ resizing.evict > 0
  /\ Evict
  /\ resizing' = [resizing EXCEPT !.evict = @ - 1]
  /\ UNCHANGED <<pending, inserting, ceiling>>

\* The directory is shrunk once if pages were evicted, and then as often as the
\* new limit demands.
SetLimit ==
  /\ resizing # NoResize
  /\ resizing.evict = 0
  /\ BecomesLimited(AfterEvicting(Table, resizing.shrink), Log2Floor(resizing.max_size))
  /\ resizing' = NoResize
  /\ UNCHANGED <<hash, size, pending, node_map, front, rear, heap, inserting, ceiling>>

-----------------------------------------------------------------------------
Init ==
  /\ HashtableInit
  /\ lru!Init
  /\ inserting = none
  /\ resizing = NoResize
  /\ ceiling = Capacity(MaxDepth)

Next ==
  \/ \E page \in Pages : Get(page)
  \/ \E page \in Pages : MakeRoom(page)
  \/ Place
  \/ Enlist
  \/ \E page \in Pages : Discard(page)
  \/ \E n \in MaxSizes : Resize(n)
  \/ EvictOne
  \/ SetLimit

Spec == Init /\ [][Next]_vars

-----------------------------------------------------------------------------
(* Properties                                                              *)

\* No pointer of the eviction list dangles, whatever the pool has evicted.
LRUTypeOK == lru!LRUTypeOK

\* The eviction list can be walked both ways at every step of the pool, but for
\* the prev pointer that update leaves on the first node.
DoublyLinked == lru!DoublyLinked

\* Unless an insert is under way the eviction list holds just the pages of the
\* table, each found where its hash leads: no eviction, expansion or shrinking
\* puts the two out of step.
ListMatchesTable ==
  inserting = none =>
    /\ DOMAIN node_map = Stored /\ size = Cardinality(DOMAIN node_map)
    /\ \A page \in DOMAIN node_map : GetPage(page)

\* A pool that is not resized never holds more pages than the threshold of the
\* largest directory lets in.  resize may shrink the directory below its new
\* limit, and then expanding it again lets in one page more each time; but no
\* sequence of calls lets in more than that.
PoolBounded == resizing = NoResize => size <= ceiling

\* The pool is an LRU cache: it evicts only when it is full or resized, and
\* then the pages that were used least recently.
Cache == INSTANCE PageCache WITH
  order    <- IF inserting # none THEN <<inserting>> \o lru!Order
              ELSE Spared(resizing.evict),
  capacity <- Capacity(IF resizing = NoResize THEN max_depth ELSE Log2Floor(resizing.max_size))

ImplementsPageCache == Cache!Spec

\* buffer_pool.cpp:53, "Evict when directory can't be expanded anymore": there
\* is a page to evict then.
EvictFindsPage ==
  Idle /\ MustEvict => rear # lru!null /\ GetPage(heap[rear].key)
=============================================================================
