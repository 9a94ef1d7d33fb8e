--------------------------- MODULE MemtableProofs ---------------------------
(***************************************************************************)
(* From put to file, for any number of entries, any order of the puts and  *)
(* any hash function: the filter denies no key that it was given, the AVL  *)
(* tree stays balanced and is the map of what was put, and the file that   *)
(* is flushed from it answers as it did.                                   *)
(***************************************************************************)
EXTENDS Memtable, BTreeProofs

-----------------------------------------------------------------------------
(* The filter                                                              *)

\* The bitmap of a filter is as long as its total_bits say, and not empty:
\* the hash of a key is then the index of a bit.
FilterInv == FilterTypeOK /\ NoFalseNegatives

\* The hash of a key is the index of a bit.
LEMMA HashInBitmap ==
  ASSUME FilterTypeOK, NEW key \in FilterKeys, NEW s \in Seeds
  PROVE  Hash(key, s) \in 0 .. filter.total_bits - 1
<1>1. xxh64[<<key, s>>] \in Nat
  BY BloomFilterAssumption DEF FilterTypeOK, Seeds
<1>2. filter.total_bits \in Nat \ {0}
  BY BloomFilterAssumption DEF FilterTypeOK
<1> QED
  BY <1>1, <1>2 DEF Hash

\* A new filter has the type, whatever it is constructed for.
LEMMA NewFilterType ==
  ASSUME NEW n \in 1 .. MaxFilterEntries, NEW f, f = NewFilter(BITS_PER_ENTRY, n)
  PROVE  f \in [total_bits     : 1 .. MAX_BITMAP_SIZE,
                hash_functions : {HashFunctions(BITS_PER_ENTRY)},
                bitmap         : [0 .. f.total_bits - 1 -> BOOLEAN]]
<1> DEFINE bits == IF BITS_PER_ENTRY * n >= MAX_BITMAP_SIZE THEN MAX_BITMAP_SIZE
                   ELSE BITS_PER_ENTRY * n
<1>1. n \in Nat \ {0} /\ BITS_PER_ENTRY \in Nat \ {0} /\ MAX_BITMAP_SIZE \in Nat \ {0}
  BY BloomFilterAssumption
<1>2. BITS_PER_ENTRY * n \in Nat \ {0}
  BY <1>1
<1>3. bits \in 1 .. MAX_BITMAP_SIZE
  BY <1>1, <1>2
<1>4. f = [total_bits     |-> bits,
           hash_functions |-> HashFunctions(BITS_PER_ENTRY),
           bitmap         |-> [b \in 0 .. bits - 1 |-> FALSE]]
  BY DEF NewFilter
<1> HIDE DEF bits
<1> QED
  BY <1>3, <1>4

\* The constructor makes a filter that denies no key.
LEMMA FilterInitInv == FilterInit => FilterInv
<1> SUFFICES ASSUME FilterInit PROVE FilterInv
  OBVIOUS
<1>1. PICK n \in 1 .. MaxFilterEntries : filter = NewFilter(BITS_PER_ENTRY, n)
  BY DEF FilterInit
<1>2. FilterTypeOK
  BY <1>1, NewFilterType DEF FilterInit, FilterTypeOK
<1>3. NoFalseNegatives
  BY DEF FilterInit, NoFalseNegatives
<1> QED
  BY <1>2, <1>3 DEF FilterInv

\* No call makes it deny one.
LEMMA FilterNextInv == FilterInv /\ [FilterNext]_filter_vars => FilterInv'
<1> SUFFICES ASSUME FilterInv, [FilterNext]_filter_vars PROVE FilterInv'
  OBVIOUS
<1> USE DEF FilterInv
<1>1. ASSUME NEW n \in 1 .. MaxFilterEntries, Construct(n) PROVE FilterInv'
  <2>1. FilterTypeOK'
    BY <1>1, NewFilterType DEF Construct, FilterTypeOK
  <2>2. NoFalseNegatives'
    BY <1>1 DEF Construct, NoFalseNegatives
  <2> QED
    BY <2>1, <2>2
<1>2. ASSUME NEW key \in FilterKeys, Insert(key) PROVE FilterInv'
  <2>1. filter' = [filter EXCEPT !.bitmap = SetBits(key)]
    BY <1>2 DEF Insert
  <2>2. /\ filter'.total_bits = filter.total_bits
        /\ filter'.hash_functions = filter.hash_functions
        /\ filter'.bitmap = SetBits(key)
        /\ xxh64' = xxh64
    BY <1>2, <2>1 DEF Insert, FilterTypeOK
  <2>3. FilterTypeOK'
    BY <1>2, <2>2 DEF Insert, FilterTypeOK, SetBits
  <2>4. ASSUME NEW k \in inserted', NEW s \in Seeds PROVE filter'.bitmap[Hash(k, s)]
    <3>1. k \in FilterKeys /\ Hash(k, s) \in DOMAIN filter.bitmap
      BY <1>2, HashInBitmap DEF Insert, FilterTypeOK
    <3>2. CASE k = key
      BY <2>2, <3>1, <3>2 DEF SetBits
    <3>3. CASE k \in inserted
      <4>1. filter.bitmap[Hash(k, s)]
        BY <3>3 DEF NoFalseNegatives, MayContain
      <4> QED
        BY <2>2, <3>1, <4>1 DEF SetBits
    <3> QED
      BY <1>2, <3>2, <3>3 DEF Insert
  <2>5. NoFalseNegatives'
    BY <2>2, <2>4 DEF NoFalseNegatives, MayContain, Hash, Seeds
  <2> QED
    BY <2>3, <2>5
<1>3. CASE UNCHANGED filter_vars
  BY <1>3 DEF filter_vars, FilterTypeOK, NoFalseNegatives, MayContain, Hash, Seeds
<1> QED
  BY <1>1, <1>2, <1>3 DEF FilterNext

\* bloom_filter.cpp:14-18, 29: the bitmap has as many bits as total_bits says,
\* at least one and no more than the page holds, so every hash is an index of
\* it, however many leaves the file has.
THEOREM FilterIsTyped == FilterSpec => []FilterTypeOK
<1>1. FilterInv => FilterTypeOK
  BY DEF FilterInv
<1> QED
  BY <1>1, FilterInitInv, FilterNextInv, PTL DEF FilterSpec

\* bloom_filter.cpp:24-33: no key that was inserted is ever denied, for every
\* hash function: btree.cpp:157 gives up only on files without the key.
THEOREM FilterDeniesNoKey == FilterSpec => []NoFalseNegatives
<1>1. FilterInv => NoFalseNegatives
  BY DEF FilterInv
<1> QED
  BY <1>1, FilterInitInv, FilterNextInv, PTL DEF FilterSpec

-----------------------------------------------------------------------------
(* The subtrees of a heap                                                  *)

\* What a node is, and a set of nodes at their addresses.
NodeRecs == [value : 0 .. INVALID_VALUE, height : Nat, left : Int, right : Int]

IsHeap(h) == DOMAIN h \subseteq Nat /\ h \in [DOMAIN h -> NodeRecs]

\* The greater of two heights.
Taller(a, b) == IF a < b THEN b ELSE a

\* The keys below a pointer, sub having those below each node.
SubOf(sub, n) == IF n = Null THEN {} ELSE sub[n]

\* A node is between the keys of its two subtrees, and it has the height of
\* the taller of them and one; the difference between them is one at most.
NodeFits(h, sub, m) ==
  LET l == h[m].left
      r == h[m].right
  IN  /\ l # Null => l \in sub[m]
      /\ r # Null => r \in sub[m]
      /\ sub[m] = SubOf(sub, l) \cup {m} \cup SubOf(sub, r)
      /\ \A x \in SubOf(sub, l) : x < m
      /\ \A x \in SubOf(sub, r) : m < x
      /\ h[m].height = Taller(GetHeight(h, l), GetHeight(h, r)) + 1
      /\ GetHeight(h, l) - GetHeight(h, r) \in -1 .. 1

\* The nodes of S fit their subtrees, of which sub gives the keys.
Shaped(h, sub, S) ==
  /\ S \subseteq DOMAIN h
  /\ \A m \in S : /\ NodeFits(h, sub, m)
                  /\ m \in sub[m] /\ sub[m] \subseteq S
                  /\ \A x \in sub[m] : sub[x] \subseteq sub[m]

\* S are the keys of the subtree at n, which is balanced and in key order.
IsSubtree(h, n, S) ==
  \E sub : Shaped(h, sub, S) /\ S = SubOf(sub, n) /\ (n # Null => n \in S)

\* n is a node of h with these children and this height.
IsNode(h, n, left, right, height) ==
  IsHeap(h) /\ n \in DOMAIN h /\ left = h[n].left /\ right = h[n].right /\ height = h[n].height

\* The subtree at n has the keys S and this height.
IsSubtreeOf(h, n, S, height) == IsSubtree(h, n, S) /\ height = GetHeight(h, n)

\* n divides the keys A from the keys B.
Divides(n, A, B) == (\A x \in A : x < n) /\ (\A x \in B : n < x)

\* The height of a balanced node whose children have the heights i and j.
Balances(i, j, height) == i - j \in -1 .. 1 /\ height = Taller(i, j) + 1

\* g is h at the nodes S.
Keeps(g, h, S) == S \subseteq DOMAIN g /\ \A m \in S : g[m] = h[m]

\* Null is the subtree without keys.
LEMMA NoSubtree == \A h : IsSubtree(h, Null, {})
  BY DEF IsSubtree, Shaped, SubOf

\* The null pointer is no node.
LEMMA NullIs == Null \in Int /\ Null \notin Nat
  BY DEF Null

\* Where a subtree is, and its height.
LEMMA SubtreeRoot ==
  ASSUME NEW h, IsHeap(h), NEW n, NEW S, IsSubtree(h, n, S)
  PROVE  /\ S \subseteq DOMAIN h /\ S \subseteq Nat
         /\ n = Null => S = {} /\ GetHeight(h, n) = 0
         /\ n # Null => /\ n \in S /\ n \in DOMAIN h /\ n \in Nat /\ h[n] \in NodeRecs
                        /\ GetHeight(h, n) = h[n].height /\ GetHeight(h, n) >= 1
         /\ n \in Int /\ GetHeight(h, n) \in Nat
<1>1. PICK sub : Shaped(h, sub, S) /\ S = SubOf(sub, n) /\ (n # Null => n \in S)
  BY DEF IsSubtree
<1>2. S \subseteq DOMAIN h /\ S \subseteq Nat
  BY <1>1 DEF Shaped, IsHeap
<1>3. CASE n = Null
  BY <1>1, <1>2, <1>3, NullIs DEF SubOf, GetHeight
<1>4. CASE n # Null
  <2>1. n \in S /\ n \in DOMAIN h /\ n \in Nat /\ h[n] \in NodeRecs
    BY <1>1, <1>2, <1>4 DEF IsHeap
  <2>2. GetHeight(h, n) = h[n].height /\ h[n].height \in Nat
    BY <1>4, <2>1 DEF GetHeight, NodeRecs
  <2>3. NodeFits(h, sub, n) /\ sub[n] \subseteq S
    BY <1>1, <2>1 DEF Shaped
  <2> DEFINE a == GetHeight(h, h[n].left)
             b == GetHeight(h, h[n].right)
  <2>4. \A c : c \in DOMAIN h \/ c = Null => GetHeight(h, c) \in Nat
    BY DEF GetHeight, IsHeap, NodeRecs
  <2>5. a \in Nat /\ b \in Nat /\ h[n].height = Taller(a, b) + 1
    BY <1>2, <2>3, <2>4 DEF NodeFits
  <2> HIDE DEF a, b
  <2>6. h[n].height >= 1
    BY <2>5 DEF Taller
  <2> QED
    BY <1>2, <1>4, <2>1, <2>2, <2>6
<1> QED
  BY <1>3, <1>4

\* n divides the keys S of its subtree into those of its two subtrees.
Parts(h, n, S, A, B) ==
  /\ S = A \cup {n} \cup B
  /\ A \subseteq Nat /\ B \subseteq Nat
  /\ IsSubtree(h, h[n].left, A) /\ IsSubtree(h, h[n].right, B)
  /\ \A x \in A : x < n
  /\ \A x \in B : n < x
  /\ h[n].height = Taller(GetHeight(h, h[n].left), GetHeight(h, h[n].right)) + 1
  /\ GetHeight(h, h[n].left) - GetHeight(h, h[n].right) \in -1 .. 1

\* A subtree is its root and two subtrees.
LEMMA SubtreeParts ==
  ASSUME NEW h, IsHeap(h), NEW n, NEW S, IsSubtree(h, n, S), n # Null
  PROVE  \E A, B : Parts(h, n, S, A, B)
<1>1. PICK sub : Shaped(h, sub, S) /\ S = SubOf(sub, n) /\ n \in S
  BY DEF IsSubtree
<1>2. NodeFits(h, sub, n) /\ S = sub[n]
  BY <1>1 DEF Shaped, SubOf
<1>3. ASSUME NEW c, c # Null => c \in sub[n] PROVE IsSubtree(h, c, SubOf(sub, c))
  <2>1. CASE c = Null
    BY <2>1, NoSubtree DEF SubOf
  <2>2. CASE c # Null
    <3>1. c \in S /\ sub[c] \subseteq S /\ c \in sub[c]
      BY <1>1, <1>2, <1>3, <2>2 DEF Shaped
    <3>2. Shaped(h, sub, sub[c])
      BY <1>1, <3>1 DEF Shaped
    <3> QED
      BY <2>2, <3>1, <3>2 DEF IsSubtree, SubOf
  <2> QED
    BY <2>1, <2>2
<1> DEFINE A == SubOf(sub, h[n].left)
           B == SubOf(sub, h[n].right)
<1>4. IsSubtree(h, h[n].left, A) /\ IsSubtree(h, h[n].right, B)
  BY <1>2, <1>3 DEF NodeFits
<1>5. /\ S = A \cup {n} \cup B
      /\ \A x \in A : x < n
      /\ \A x \in B : n < x
      /\ h[n].height = Taller(GetHeight(h, h[n].left), GetHeight(h, h[n].right)) + 1
      /\ GetHeight(h, h[n].left) - GetHeight(h, h[n].right) \in -1 .. 1
  BY <1>2 DEF NodeFits
<1> HIDE DEF A, B
<1>6. S \subseteq Nat
  BY SubtreeRoot
<1>7. A \subseteq Nat /\ B \subseteq Nat
  BY <1>5, <1>6
<1>8. Parts(h, n, S, A, B)
  BY <1>4, <1>5, <1>7 DEF Parts
<1> QED
  BY <1>8

\* A node over two subtrees makes one.
LEMMA SubtreeFrom ==
  ASSUME NEW h, IsHeap(h), NEW n \in DOMAIN h, NEW A, NEW B,
         IsSubtree(h, h[n].left, A), IsSubtree(h, h[n].right, B),
         \A x \in A : x < n, \A x \in B : n < x,
         h[n].height = Taller(GetHeight(h, h[n].left), GetHeight(h, h[n].right)) + 1,
         GetHeight(h, h[n].left) - GetHeight(h, h[n].right) \in -1 .. 1
  PROVE  IsSubtree(h, n, A \cup {n} \cup B)
<1> DEFINE l == h[n].left
           r == h[n].right
           S == A \cup {n} \cup B
<1>1. PICK sa : Shaped(h, sa, A) /\ A = SubOf(sa, l) /\ (l # Null => l \in A)
  BY DEF IsSubtree
<1>2. PICK sb : Shaped(h, sb, B) /\ B = SubOf(sb, r) /\ (r # Null => r \in B)
  BY DEF IsSubtree
<1>3. A \subseteq Nat /\ B \subseteq Nat /\ n \in Nat /\ n # Null /\ S \subseteq DOMAIN h
  BY SubtreeRoot, NullIs DEF IsHeap
<1>4. n \notin A /\ n \notin B /\ \A x \in A : x \notin B
  <2>1. ~ (n < n) /\ \A x \in Nat : ~ (x < n /\ n < x)
    BY <1>3
  <2> QED
    BY <1>3, <2>1
<1> DEFINE sub == [x \in S |-> IF x = n THEN S ELSE IF x \in A THEN sa[x] ELSE sb[x]]
<1>5. sub[n] = S /\ (\A x \in A : sub[x] = sa[x]) /\ (\A x \in B : sub[x] = sb[x])
  BY <1>4
<1> HIDE DEF sub
<1>6. ASSUME NEW m \in A
      PROVE  NodeFits(h, sub, m) /\ m \in sub[m] /\ sub[m] \subseteq S /\ \A x \in sub[m] : sub[x] \subseteq sub[m]
  <2>1. NodeFits(h, sa, m) /\ m \in sa[m] /\ sa[m] \subseteq A /\ \A x \in sa[m] : sa[x] \subseteq sa[m]
    BY <1>1 DEF Shaped
  <2>2. sub[m] = sa[m] /\ \A x \in sa[m] : sub[x] = sa[x]
    BY <1>5, <2>1
  <2>3. SubOf(sub, h[m].left) = SubOf(sa, h[m].left) /\ SubOf(sub, h[m].right) = SubOf(sa, h[m].right)
    BY <2>1, <2>2 DEF NodeFits, SubOf
  <2>4. NodeFits(h, sub, m)
    BY <2>1, <2>2, <2>3 DEF NodeFits
  <2> QED
    BY <2>1, <2>2, <2>4
<1>7. ASSUME NEW m \in B
      PROVE  NodeFits(h, sub, m) /\ m \in sub[m] /\ sub[m] \subseteq S /\ \A x \in sub[m] : sub[x] \subseteq sub[m]
  <2>1. NodeFits(h, sb, m) /\ m \in sb[m] /\ sb[m] \subseteq B /\ \A x \in sb[m] : sb[x] \subseteq sb[m]
    BY <1>2 DEF Shaped
  <2>2. sub[m] = sb[m] /\ \A x \in sb[m] : sub[x] = sb[x]
    BY <1>5, <2>1
  <2>3. SubOf(sub, h[m].left) = SubOf(sb, h[m].left) /\ SubOf(sub, h[m].right) = SubOf(sb, h[m].right)
    BY <2>1, <2>2 DEF NodeFits, SubOf
  <2>4. NodeFits(h, sub, m)
    BY <2>1, <2>2, <2>3 DEF NodeFits
  <2> QED
    BY <2>1, <2>2, <2>4
<1>8. NodeFits(h, sub, n)
  <2>1. SubOf(sub, l) = A
    BY <1>1, <1>5 DEF SubOf
  <2>2. SubOf(sub, r) = B
    BY <1>2, <1>5 DEF SubOf
  <2>3. (l # Null => l \in S) /\ (r # Null => r \in S)
    BY <1>1, <1>2
  <2> QED
    BY <1>5, <2>1, <2>2, <2>3 DEF NodeFits
<1>9. \A m \in S : NodeFits(h, sub, m) /\ m \in sub[m] /\ sub[m] \subseteq S
  BY <1>5, <1>6, <1>7, <1>8
<1>10. \A m \in S : \A x \in sub[m] : sub[x] \subseteq sub[m]
  BY <1>5, <1>6, <1>7, <1>9
<1> HIDE DEF S
<1>11. Shaped(h, sub, S)
  BY <1>3, <1>9, <1>10 DEF Shaped
<1>12. S = SubOf(sub, n) /\ n \in S
  BY <1>3, <1>5, <1>9 DEF SubOf, S
<1> QED
  BY <1>11, <1>12 DEF IsSubtree, S

\* Two heaps have the same subtree where they have the same pointers and heights.
LEMMA SubtreeSame ==
  ASSUME NEW h, NEW g, NEW n, NEW S, IsSubtree(h, n, S), S \subseteq DOMAIN g,
         \A m \in S : g[m].left = h[m].left /\ g[m].right = h[m].right /\ g[m].height = h[m].height
  PROVE  IsSubtree(g, n, S) /\ GetHeight(g, n) = GetHeight(h, n)
<1>1. PICK sub : Shaped(h, sub, S) /\ S = SubOf(sub, n) /\ (n # Null => n \in S)
  BY DEF IsSubtree
<1>2. \A c : c \in S \/ c = Null => GetHeight(g, c) = GetHeight(h, c)
  BY DEF GetHeight
<1>3. ASSUME NEW m \in S PROVE NodeFits(g, sub, m)
  <2>1. NodeFits(h, sub, m) /\ sub[m] \subseteq S
    BY <1>1 DEF Shaped
  <2>2. GetHeight(g, h[m].left) = GetHeight(h, h[m].left) /\ GetHeight(g, h[m].right) = GetHeight(h, h[m].right)
    BY <1>2, <2>1 DEF NodeFits
  <2> QED
    BY <2>1, <2>2 DEF NodeFits
<1>4. Shaped(g, sub, S)
  BY <1>1, <1>3 DEF Shaped
<1> QED
  BY <1>1, <1>2, <1>4 DEF IsSubtree

\* A step that leaves the nodes of a subtree alone leaves the subtree alone.
LEMMA SubtreeKept ==
  ASSUME NEW h, NEW g, NEW n, NEW S, IsSubtree(h, n, S), Keeps(g, h, S)
  PROVE  IsSubtree(g, n, S) /\ GetHeight(g, n) = GetHeight(h, n)
<1>1. S \subseteq DOMAIN g
  BY DEF Keeps
<1>2. \A m \in S : g[m].left = h[m].left /\ g[m].right = h[m].right /\ g[m].height = h[m].height
  BY DEF Keeps
<1> QED
  BY <1>1, <1>2, SubtreeSame

\* A node over two subtrees of known heights makes one of a known height.
LEMMA SubtreeNode ==
  ASSUME NEW h, NEW n, NEW l, NEW r, NEW k, IsNode(h, n, l, r, k),
         NEW A, NEW B, NEW i, NEW j, IsSubtreeOf(h, l, A, i), IsSubtreeOf(h, r, B, j),
         Divides(n, A, B), Balances(i, j, k)
  PROVE  IsSubtree(h, n, A \cup {n} \cup B) /\ GetHeight(h, n) = k
<1>1. /\ IsHeap(h) /\ n \in DOMAIN h
      /\ IsSubtree(h, h[n].left, A) /\ IsSubtree(h, h[n].right, B)
      /\ \A x \in A : x < n
      /\ \A x \in B : n < x
      /\ h[n].height = Taller(GetHeight(h, h[n].left), GetHeight(h, h[n].right)) + 1
      /\ GetHeight(h, h[n].left) - GetHeight(h, h[n].right) \in -1 .. 1
      /\ k = h[n].height
  BY DEF IsNode, IsSubtreeOf, Divides, Balances
<1>2. IsSubtree(h, n, A \cup {n} \cup B)
  BY <1>1, SubtreeFrom
<1>3. n # Null
  BY <1>1, NullIs DEF IsHeap
<1> QED
  BY <1>1, <1>2, <1>3 DEF GetHeight

\* Every pointer of a tree leads to a subtree.
LEMMA EverySubtree ==
  ASSUME NEW h, NEW root, IsSubtree(h, root, DOMAIN h), NEW n \in DOMAIN h \cup {Null}
  PROVE  \E S : IsSubtree(h, n, S)
<1>1. PICK sub : Shaped(h, sub, DOMAIN h)
  BY DEF IsSubtree
<1>2. CASE n = Null
  BY <1>2, NoSubtree
<1>3. CASE n # Null
  <2>1. n \in DOMAIN h /\ n \in sub[n] /\ sub[n] \subseteq DOMAIN h
    BY <1>1, <1>3 DEF Shaped
  <2>2. Shaped(h, sub, sub[n])
    BY <1>1, <2>1 DEF Shaped
  <2> QED
    BY <1>3, <2>1, <2>2 DEF IsSubtree, SubOf
<1> QED
  BY <1>2, <1>3

-----------------------------------------------------------------------------
(* Rotations                                                               *)

\* A height is a number.
LEMMA HeightTyped ==
  ASSUME NEW h, IsHeap(h), NEW n \in DOMAIN h \cup {Null}
  PROVE  GetHeight(h, n) \in Nat
  BY DEF GetHeight, IsHeap, NodeRecs

\* The greater of two heights is one of them.
LEMMA TallerTyped ==
  ASSUME NEW a \in Nat, NEW b \in Nat
  PROVE  Taller(a, b) \in Nat /\ Taller(a, b) >= a /\ Taller(a, b) >= b /\ (Taller(a, b) = a \/ Taller(a, b) = b)
  BY DEF Taller

\* The order of two heights does not matter.
LEMMA TallerSwaps ==
  ASSUME NEW a \in Nat, NEW b \in Nat
  PROVE  Taller(a, b) = Taller(b, a) /\ (a - b \in -1 .. 1 <=> b - a \in -1 .. 1)
  BY DEF Taller

\* A node computes its height from those of its children.
LEMMA RemeasuredIs ==
  ASSUME NEW h, IsHeap(h), NEW n \in DOMAIN h,
         h[n].left \in DOMAIN h \cup {Null}, h[n].right \in DOMAIN h \cup {Null}
  PROVE  LET r == Remeasured(h, n)
         IN  /\ IsHeap(r) /\ DOMAIN r = DOMAIN h
             /\ \A m \in DOMAIN h : m # n => r[m] = h[m]
             /\ r[n].value = h[n].value /\ r[n].left = h[n].left /\ r[n].right = h[n].right
             /\ r[n].height = Taller(GetHeight(h, h[n].left), GetHeight(h, h[n].right)) + 1
<1> DEFINE x == Taller(GetHeight(h, h[n].left), GetHeight(h, h[n].right)) + 1
           r == Remeasured(h, n)
<1>1. x \in Nat
  <2> DEFINE i == GetHeight(h, h[n].left)
             j == GetHeight(h, h[n].right)
  <2>1. i \in Nat /\ j \in Nat
    BY HeightTyped
  <2> HIDE DEF i, j
  <2>2. Taller(i, j) \in Nat
    BY <2>1, TallerTyped
  <2>3. Taller(i, j) + 1 \in Nat
    BY <2>2
  <2> QED
    BY <2>3 DEF i, j
<1>2. r = [h EXCEPT ![n].height = x]
  BY DEF Remeasured, Taller
<1> HIDE DEF x, r
<1>3. h \in [DOMAIN h -> NodeRecs] /\ DOMAIN h \subseteq Nat
  BY DEF IsHeap
<1>4. r = [h EXCEPT ![n] = [h[n] EXCEPT !.height = x]]
  BY <1>2
<1>5. [h[n] EXCEPT !.height = x] \in NodeRecs
  BY <1>1, <1>3 DEF NodeRecs
<1>6. r \in [DOMAIN h -> NodeRecs] /\ DOMAIN r = DOMAIN h /\ \A m \in DOMAIN h : m # n => r[m] = h[m]
  BY <1>3, <1>4, <1>5
<1>7. r[n] = [h[n] EXCEPT !.height = x] /\ h[n] \in NodeRecs
  BY <1>3, <1>4
<1>8. r[n].value = h[n].value /\ r[n].left = h[n].left /\ r[n].right = h[n].right /\ r[n].height = x
  BY <1>7 DEF NodeRecs
<1> QED
  BY <1>3, <1>6, <1>8 DEF IsHeap, r, x

\* A pointer of a node is set.
WithLeft(r, h, n, c)  == r = [h EXCEPT ![n].left = c]
WithRight(r, h, n, c) == r = [h EXCEPT ![n].right = c]

\* What is set, and what stays.
LEMMA WithLeftIs ==
  ASSUME NEW h, IsHeap(h), NEW n, n \in DOMAIN h, NEW c \in Int, NEW r, WithLeft(r, h, n, c)
  PROVE  /\ IsHeap(r) /\ DOMAIN r = DOMAIN h
         /\ \A m \in DOMAIN h : m # n => r[m] = h[m]
         /\ r[n].value = h[n].value /\ r[n].left = c /\ r[n].right = h[n].right
         /\ r[n].height = h[n].height
<1> DEFINE y == [h[n] EXCEPT !.left = c]
<1>1. h \in [DOMAIN h -> NodeRecs] /\ DOMAIN h \subseteq Nat /\ h[n] \in NodeRecs
  BY DEF IsHeap
<1>2. r = [h EXCEPT ![n] = y]
  BY DEF WithLeft
<1>3. y \in NodeRecs /\ y.value = h[n].value /\ y.left = c /\ y.right = h[n].right /\ y.height = h[n].height
  BY <1>1 DEF NodeRecs
<1> HIDE DEF y
<1>4. r \in [DOMAIN h -> NodeRecs] /\ DOMAIN r = DOMAIN h /\ r[n] = y /\ \A m \in DOMAIN h : m # n => r[m] = h[m]
  BY <1>1, <1>2, <1>3
<1> QED
  BY <1>1, <1>3, <1>4 DEF IsHeap

LEMMA WithRightIs ==
  ASSUME NEW h, IsHeap(h), NEW n, n \in DOMAIN h, NEW c \in Int, NEW r, WithRight(r, h, n, c)
  PROVE  /\ IsHeap(r) /\ DOMAIN r = DOMAIN h
         /\ \A m \in DOMAIN h : m # n => r[m] = h[m]
         /\ r[n].value = h[n].value /\ r[n].right = c /\ r[n].left = h[n].left
         /\ r[n].height = h[n].height
<1> DEFINE y == [h[n] EXCEPT !.right = c]
<1>1. h \in [DOMAIN h -> NodeRecs] /\ DOMAIN h \subseteq Nat /\ h[n] \in NodeRecs
  BY DEF IsHeap
<1>2. r = [h EXCEPT ![n] = y]
  BY DEF WithRight
<1>3. y \in NodeRecs /\ y.value = h[n].value /\ y.right = c /\ y.left = h[n].left /\ y.height = h[n].height
  BY <1>1 DEF NodeRecs
<1> HIDE DEF y
<1>4. r \in [DOMAIN h -> NodeRecs] /\ DOMAIN r = DOMAIN h /\ r[n] = y /\ \A m \in DOMAIN h : m # n => r[m] = h[m]
  BY <1>1, <1>2, <1>3
<1> QED
  BY <1>1, <1>3, <1>4 DEF IsHeap

\* A rotation to the right: l goes up, n goes down and takes b over from it.
LEMMA RightRotateIs ==
  ASSUME NEW h, IsHeap(h), NEW n \in DOMAIN h, NEW l \in DOMAIN h, l = h[n].left, l # n,
         NEW a, NEW b, NEW c, a = h[l].left, b = h[l].right, c = h[n].right,
         a \in DOMAIN h \cup {Null}, b \in DOMAIN h \cup {Null}, c \in DOMAIN h \cup {Null},
         a \notin {n, l}, b \notin {n, l}, c \notin {n, l}
  PROVE  LET r == RightRotate(h, n)
             g == r.heap
             y == Taller(GetHeight(h, b), GetHeight(h, c)) + 1
         IN  /\ r.root = l /\ r = [root |-> l, heap |-> g]
             /\ IsHeap(g) /\ DOMAIN g = DOMAIN h
             /\ \A m \in DOMAIN h : m # n /\ m # l => g[m] = h[m]
             /\ g[n].value = h[n].value /\ g[n].left = b /\ g[n].right = c /\ g[n].height = y
             /\ g[l].value = h[l].value /\ g[l].left = a /\ g[l].right = n
             /\ g[l].height = Taller(GetHeight(h, a), y) + 1
<1>0. DOMAIN h \subseteq Nat /\ DOMAIN h \cup {Null} \subseteq Int /\ Null \notin DOMAIN h
  BY NullIs DEF IsHeap
<1> DEFINE h1 == [h EXCEPT ![l].right = n]
           h2 == [h1 EXCEPT ![n].left = b]
           h3 == Remeasured(h2, n)
           h4 == Remeasured(h3, l)
<1>1. RightRotate(h, n) = [root |-> l, heap |-> h4]
  <2>1. h2 = [h EXCEPT ![l].right = n, ![n].left = b]
    OBVIOUS
  <2> QED
    BY <2>1 DEF RightRotate
<1>2. /\ IsHeap(h1) /\ DOMAIN h1 = DOMAIN h
      /\ \A m \in DOMAIN h : m # l => h1[m] = h[m]
      /\ h1[l].value = h[l].value /\ h1[l].right = n /\ h1[l].left = a
  <2>1. n \in Int
    BY <1>0
  <2>2. WithRight(h1, h, l, n)
    BY DEF WithRight
  <2> HIDE DEF h1
  <2> QED
    BY <2>1, <2>2, WithRightIs
<1> HIDE DEF h1
<1>3. /\ IsHeap(h2) /\ DOMAIN h2 = DOMAIN h
      /\ \A m \in DOMAIN h : m # n => h2[m] = h1[m]
      /\ h2[n].value = h1[n].value /\ h2[n].left = b /\ h2[n].right = h1[n].right
  <2>1. b \in Int
    BY <1>0
  <2>2. IsHeap(h1) /\ n \in DOMAIN h1 /\ WithLeft(h2, h1, n, b)
    BY <1>2 DEF WithLeft
  <2> HIDE DEF h2
  <2>3. /\ IsHeap(h2) /\ DOMAIN h2 = DOMAIN h1
        /\ \A m \in DOMAIN h1 : m # n => h2[m] = h1[m]
        /\ h2[n].value = h1[n].value /\ h2[n].left = b /\ h2[n].right = h1[n].right
    BY <2>1, <2>2, WithLeftIs
  <2> QED
    BY <1>2, <2>3
<1> HIDE DEF h2
<1>4. h2[n].value = h[n].value /\ h2[n].left = b /\ h2[n].right = c
  BY <1>2, <1>3
<1>5. /\ IsHeap(h3) /\ DOMAIN h3 = DOMAIN h
      /\ \A m \in DOMAIN h : m # n => h3[m] = h2[m]
      /\ h3[n].value = h[n].value /\ h3[n].left = b /\ h3[n].right = c
      /\ h3[n].height = Taller(GetHeight(h2, b), GetHeight(h2, c)) + 1
  BY <1>3, <1>4, RemeasuredIs
<1> HIDE DEF h3
<1>6. \A m \in DOMAIN h : m # n /\ m # l => h2[m] = h[m] /\ h3[m] = h[m]
  BY <1>2, <1>3, <1>5
<1>7. GetHeight(h2, b) = GetHeight(h, b) /\ GetHeight(h2, c) = GetHeight(h, c) /\ GetHeight(h3, a) = GetHeight(h, a)
  BY <1>6 DEF GetHeight
<1>8. h3[l].value = h[l].value /\ h3[l].left = a /\ h3[l].right = n
  BY <1>2, <1>3, <1>5
<1>9. /\ IsHeap(h4) /\ DOMAIN h4 = DOMAIN h
      /\ \A m \in DOMAIN h : m # l => h4[m] = h3[m]
      /\ h4[l].value = h[l].value /\ h4[l].left = a /\ h4[l].right = n
      /\ h4[l].height = Taller(GetHeight(h3, a), GetHeight(h3, n)) + 1
  BY <1>5, <1>8, RemeasuredIs
<1> HIDE DEF h4
<1>10. GetHeight(h3, n) = h3[n].height
  BY <1>0 DEF GetHeight
<1>11. h4[n] = h3[n] /\ \A m \in DOMAIN h : m # n /\ m # l => h4[m] = h[m]
  BY <1>6, <1>9
<1> QED
  BY <1>1, <1>5, <1>7, <1>9, <1>10, <1>11

\* A rotation to the left is its mirror image.
LEMMA LeftRotateIs ==
  ASSUME NEW h, IsHeap(h), NEW n \in DOMAIN h, NEW l \in DOMAIN h, l = h[n].right, l # n,
         NEW a, NEW b, NEW c, a = h[l].right, b = h[l].left, c = h[n].left,
         a \in DOMAIN h \cup {Null}, b \in DOMAIN h \cup {Null}, c \in DOMAIN h \cup {Null},
         a \notin {n, l}, b \notin {n, l}, c \notin {n, l}
  PROVE  LET r == LeftRotate(h, n)
             g == r.heap
             y == Taller(GetHeight(h, c), GetHeight(h, b)) + 1
         IN  /\ r.root = l /\ r = [root |-> l, heap |-> g]
             /\ IsHeap(g) /\ DOMAIN g = DOMAIN h
             /\ \A m \in DOMAIN h : m # n /\ m # l => g[m] = h[m]
             /\ g[n].value = h[n].value /\ g[n].right = b /\ g[n].left = c /\ g[n].height = y
             /\ g[l].value = h[l].value /\ g[l].right = a /\ g[l].left = n
             /\ g[l].height = Taller(y, GetHeight(h, a)) + 1
<1>0. DOMAIN h \subseteq Nat /\ DOMAIN h \cup {Null} \subseteq Int /\ Null \notin DOMAIN h
  BY NullIs DEF IsHeap
<1> DEFINE h1 == [h EXCEPT ![l].left = n]
           h2 == [h1 EXCEPT ![n].right = b]
           h3 == Remeasured(h2, n)
           h4 == Remeasured(h3, l)
<1>1. LeftRotate(h, n) = [root |-> l, heap |-> h4]
  <2>1. h2 = [h EXCEPT ![l].left = n, ![n].right = b]
    OBVIOUS
  <2> QED
    BY <2>1 DEF LeftRotate
<1>2. /\ IsHeap(h1) /\ DOMAIN h1 = DOMAIN h
      /\ \A m \in DOMAIN h : m # l => h1[m] = h[m]
      /\ h1[l].value = h[l].value /\ h1[l].left = n /\ h1[l].right = a
  <2>1. n \in Int
    BY <1>0
  <2>2. WithLeft(h1, h, l, n)
    BY DEF WithLeft
  <2> HIDE DEF h1
  <2> QED
    BY <2>1, <2>2, WithLeftIs
<1> HIDE DEF h1
<1>3. /\ IsHeap(h2) /\ DOMAIN h2 = DOMAIN h
      /\ \A m \in DOMAIN h : m # n => h2[m] = h1[m]
      /\ h2[n].value = h1[n].value /\ h2[n].right = b /\ h2[n].left = h1[n].left
  <2>1. b \in Int
    BY <1>0
  <2>2. IsHeap(h1) /\ n \in DOMAIN h1 /\ WithRight(h2, h1, n, b)
    BY <1>2 DEF WithRight
  <2> HIDE DEF h2
  <2>3. /\ IsHeap(h2) /\ DOMAIN h2 = DOMAIN h1
        /\ \A m \in DOMAIN h1 : m # n => h2[m] = h1[m]
        /\ h2[n].value = h1[n].value /\ h2[n].right = b /\ h2[n].left = h1[n].left
    BY <2>1, <2>2, WithRightIs
  <2> QED
    BY <1>2, <2>3
<1> HIDE DEF h2
<1>4. h2[n].value = h[n].value /\ h2[n].right = b /\ h2[n].left = c
  BY <1>2, <1>3
<1>5. /\ IsHeap(h3) /\ DOMAIN h3 = DOMAIN h
      /\ \A m \in DOMAIN h : m # n => h3[m] = h2[m]
      /\ h3[n].value = h[n].value /\ h3[n].right = b /\ h3[n].left = c
      /\ h3[n].height = Taller(GetHeight(h2, c), GetHeight(h2, b)) + 1
  BY <1>3, <1>4, RemeasuredIs
<1> HIDE DEF h3
<1>6. \A m \in DOMAIN h : m # n /\ m # l => h2[m] = h[m] /\ h3[m] = h[m]
  BY <1>2, <1>3, <1>5
<1>7. GetHeight(h2, b) = GetHeight(h, b) /\ GetHeight(h2, c) = GetHeight(h, c) /\ GetHeight(h3, a) = GetHeight(h, a)
  BY <1>6 DEF GetHeight
<1>8. h3[l].value = h[l].value /\ h3[l].right = a /\ h3[l].left = n
  BY <1>2, <1>3, <1>5
<1>9. /\ IsHeap(h4) /\ DOMAIN h4 = DOMAIN h
      /\ \A m \in DOMAIN h : m # l => h4[m] = h3[m]
      /\ h4[l].value = h[l].value /\ h4[l].right = a /\ h4[l].left = n
      /\ h4[l].height = Taller(GetHeight(h3, n), GetHeight(h3, a)) + 1
  BY <1>5, <1>8, RemeasuredIs
<1> HIDE DEF h4
<1>10. GetHeight(h3, n) = h3[n].height
  BY <1>0 DEF GetHeight
<1>11. h4[n] = h3[n] /\ \A m \in DOMAIN h : m # n /\ m # l => h4[m] = h[m]
  BY <1>6, <1>9
<1> QED
  BY <1>1, <1>5, <1>7, <1>9, <1>10, <1>11

-----------------------------------------------------------------------------
(* Insertion                                                               *)

\* r is what h becomes when the subtree with the keys S, n among them, is
\* balanced: no key and no value is lost, and the rest of the heap is as it was.
IsRebalanced(r, h, n, S, height) ==
  /\ r = [root |-> r.root, heap |-> r.heap]
  /\ IsHeap(r.heap) /\ DOMAIN r.heap = DOMAIN h
  /\ \A m \in DOMAIN h : m \notin S => r.heap[m] = h[m]
  /\ \A m \in DOMAIN h : r.heap[m].value = h[m].value
  /\ IsSubtree(r.heap, r.root, S)
  /\ GetHeight(r.heap, r.root) = height

\* The left subtree of n has become too high by one at its left or at its right:
\* one or two rotations give the subtree the height that it had before.
LEMMA LeftHeavy ==
  ASSUME NEW h, IsHeap(h), NEW n \in DOMAIN h, NEW A, NEW B, NEW key \in Nat,
         NEW l, l = h[n].left,
         IsSubtree(h, l, A), IsSubtree(h, h[n].right, B),
         \A x \in A : x < n, \A x \in B : n < x,
         GetHeight(h, l) = GetHeight(h, h[n].right) + 2,
         \/ key < l /\ GetHeight(h, h[l].left) = GetHeight(h, h[l].right) + 1
         \/ l < key /\ GetHeight(h, h[l].right) = GetHeight(h, h[l].left) + 1
  PROVE  IsRebalanced(Rebalanced(h, n, key), h, n, A \cup {n} \cup B, GetHeight(h, h[n].right) + 2)
<1> DEFINE c == h[n].right
           a == h[l].left
           b == h[l].right
           k == GetHeight(h, c)
           S == A \cup {n} \cup B
<1>1. /\ A \subseteq DOMAIN h /\ B \subseteq DOMAIN h /\ DOMAIN h \subseteq Nat
      /\ k \in Nat /\ GetHeight(h, l) \in Nat /\ l # Null
      /\ l \in A /\ l \in DOMAIN h /\ GetHeight(h, l) = h[l].height
      /\ c \in DOMAIN h \cup {Null} /\ (c # Null => c \in B)
  <2>1. /\ A \subseteq DOMAIN h /\ B \subseteq DOMAIN h /\ DOMAIN h \subseteq Nat
        /\ k \in Nat /\ GetHeight(h, l) \in Nat
        /\ (c # Null => c \in B)
    BY SubtreeRoot DEF IsHeap
  <2>2. GetHeight(h, l) # 0
    BY <2>1
  <2>3. l # Null
    BY <2>2 DEF GetHeight
  <2>4. l \in A /\ l \in DOMAIN h /\ GetHeight(h, l) = h[l].height
    BY <2>3, SubtreeRoot
  <2> QED
    BY <2>1, <2>3, <2>4
<1>2. PICK A1, A2 :
        /\ A = A1 \cup {l} \cup A2
        /\ IsSubtree(h, a, A1) /\ IsSubtree(h, b, A2)
        /\ \A x \in A1 : x < l
        /\ \A x \in A2 : l < x
        /\ h[l].height = Taller(GetHeight(h, a), GetHeight(h, b)) + 1
  <2>1. PICK P, Q :
          /\ A = P \cup {l} \cup Q
          /\ IsSubtree(h, h[l].left, P) /\ IsSubtree(h, h[l].right, Q)
          /\ \A x \in P : x < l
          /\ \A x \in Q : l < x
          /\ h[l].height = Taller(GetHeight(h, h[l].left), GetHeight(h, h[l].right)) + 1
    <3>1. PICK X, Y : Parts(h, l, A, X, Y)
      BY <1>1, SubtreeParts
    <3> QED
      BY <3>1 DEF Parts
  <2>2. Taller(GetHeight(h, a), GetHeight(h, b)) = Taller(GetHeight(h, b), GetHeight(h, a))
    <3>1. a \in DOMAIN h \cup {Null} /\ b \in DOMAIN h \cup {Null}
      BY <2>1, SubtreeRoot
    <3>2. GetHeight(h, a) \in Nat /\ GetHeight(h, b) \in Nat
      BY <3>1, HeightTyped
    <3> QED
      BY <3>2, TallerSwaps
  <2> QED
    BY <2>1, <2>2
<1>3. /\ A1 \subseteq DOMAIN h /\ A2 \subseteq DOMAIN h
      /\ GetHeight(h, a) \in Nat /\ GetHeight(h, b) \in Nat
      /\ a \in DOMAIN h \cup {Null} /\ b \in DOMAIN h \cup {Null}
      /\ (a # Null => a \in A1) /\ (b # Null => b \in A2)
  BY <1>2, SubtreeRoot
<1>4. n \notin A /\ n \notin B /\ l \notin B /\ l # n /\ l \notin A1 /\ l \notin A2 /\ n # Null
  <2>1. \A x \in Nat : ~ (x < x) /\ \A y \in Nat : ~ (x < y /\ y < x)
    OBVIOUS
  <2>2. n \in Nat /\ l \in Nat /\ A1 \subseteq Nat /\ A2 \subseteq Nat /\ A \subseteq Nat /\ B \subseteq Nat
    BY <1>1, <1>3
  <2> QED
    BY <1>1, <1>2, <2>1, <2>2, NullIs
<1>5. \A x \in A, y \in B : x < n /\ n < y /\ x < y
  <2>1. \A x \in A, y \in B : x \in Nat /\ y \in Nat /\ n \in Nat
    BY <1>1
  <2> QED
    BY <2>1
<1>6. GetBalance(h, n) \in Int /\ GetBalance(h, n) > 1
  <2>1. GetBalance(h, n) = GetHeight(h, l) - k
    BY <1>4 DEF GetBalance
  <2> QED
    BY <1>1, <2>1
<1>7. CASE key < l /\ GetHeight(h, a) = GetHeight(h, b) + 1
  <2>1. Rebalanced(h, n, key) = RightRotate(h, n)
    <3>1. ~ (l < key) /\ ~ (GetBalance(h, n) < -1)
      <4>1. l \in Nat
        BY <1>1
      <4> QED
        BY <1>6, <1>7, <4>1
    <3> QED
      BY <1>6, <1>7, <3>1 DEF Rebalanced
  <2> DEFINE r == RightRotate(h, n)
             g == r.heap
  <2>2. GetHeight(h, a) = k + 1 /\ GetHeight(h, b) = k
    BY <1>1, <1>2, <1>3, <1>7 DEF Taller
  <2>3. a \notin {n, l} /\ b \notin {n, l} /\ c \notin {n, l}
    BY <1>1, <1>2, <1>3, <1>4, NullIs
  <2>4. /\ r.root = l /\ r = [root |-> l, heap |-> g]
        /\ IsHeap(g) /\ DOMAIN g = DOMAIN h
        /\ \A m \in DOMAIN h : m # n /\ m # l => g[m] = h[m]
        /\ g[n].value = h[n].value /\ g[n].left = b /\ g[n].right = c
        /\ g[n].height = Taller(GetHeight(h, b), GetHeight(h, c)) + 1
        /\ g[l].value = h[l].value /\ g[l].left = a /\ g[l].right = n
        /\ g[l].height = Taller(GetHeight(h, a), g[n].height) + 1
    BY <1>1, <1>3, <1>4, <2>3, RightRotateIs
  <2> HIDE DEF r, g
  <2>5. g[n].height = k + 1 /\ g[l].height = k + 2
    BY <1>1, <2>2, <2>4 DEF Taller
  <2>6. /\ IsSubtree(g, a, A1) /\ IsSubtree(g, b, A2) /\ IsSubtree(g, c, B)
        /\ GetHeight(g, a) = k + 1 /\ GetHeight(g, b) = k /\ GetHeight(g, c) = k
    <3> DEFINE T == A1 \cup A2 \cup B
    <3>1. \A m \in T : m \in DOMAIN h /\ m # n /\ m # l
      BY <1>1, <1>2, <1>3, <1>4
    <3>2. \A m \in T : m \in DOMAIN g /\ g[m] = h[m]
      BY <2>4, <3>1
    <3>3. Keeps(g, h, A1) /\ Keeps(g, h, A2) /\ Keeps(g, h, B)
      BY <3>2 DEF Keeps
    <3>4. IsSubtree(h, a, A1) /\ IsSubtree(h, b, A2) /\ IsSubtree(h, c, B)
      BY <1>2
    <3> HIDE DEF T, a, b, c
    <3>5. /\ IsSubtree(g, a, A1) /\ GetHeight(g, a) = GetHeight(h, a)
          /\ IsSubtree(g, b, A2) /\ GetHeight(g, b) = GetHeight(h, b)
          /\ IsSubtree(g, c, B) /\ GetHeight(g, c) = GetHeight(h, c)
      BY <3>3, <3>4, SubtreeKept
    <3> QED
      BY <2>2, <3>5 DEF c
  <2>7. IsSubtree(g, n, A2 \cup {n} \cup B) /\ GetHeight(g, n) = k + 1
    <3>1. Balances(k, k, k + 1)
      BY <1>1 DEF Balances, Taller
    <3>2. IsNode(g, n, b, c, k + 1)
      BY <2>4, <2>5 DEF IsNode
    <3>3. Divides(n, A2, B)
      BY <1>2, <1>5 DEF Divides
    <3>4. IsSubtreeOf(g, b, A2, k) /\ IsSubtreeOf(g, c, B, k)
      BY <2>6 DEF IsSubtreeOf
    <3> HIDE DEF b, c, k
    <3>5. IsSubtree(g, n, A2 \cup {n} \cup B) /\ GetHeight(g, n) = k + 1
      BY <3>1, <3>2, <3>3, <3>4, SubtreeNode
    <3>6. A2 \cup {n} \cup B = A2 \cup {n} \cup B
      OBVIOUS
    <3> QED
      BY <3>5, <3>6
  <2>8. IsSubtree(g, l, S) /\ GetHeight(g, l) = k + 2
    <3> DEFINE C == A2 \cup {n} \cup B
    <3>1. Divides(l, A1, C)
      BY <1>1, <1>2, <1>5 DEF Divides
    <3>2. Balances(k + 1, k + 1, k + 2)
      BY <1>1 DEF Balances, Taller
    <3>3. IsNode(g, l, a, n, k + 2)
      BY <1>1, <2>4, <2>5 DEF IsNode
    <3>4. IsSubtreeOf(g, a, A1, k + 1) /\ IsSubtreeOf(g, n, C, k + 1)
      BY <2>6, <2>7 DEF IsSubtreeOf
    <3>5. A1 \cup {l} \cup C = S
      BY <1>2
    <3> HIDE DEF a, k, C, S
    <3>6. IsSubtree(g, l, A1 \cup {l} \cup C) /\ GetHeight(g, l) = k + 2
      BY <3>1, <3>2, <3>3, <3>4, SubtreeNode
    <3> QED
      BY <3>5, <3>6
  <2>9. \A m \in DOMAIN h : g[m].value = h[m].value
    BY <2>4
  <2> QED
    BY <1>1, <2>1, <2>4, <2>8, <2>9 DEF IsRebalanced, r, g
<1>8. CASE l < key /\ GetHeight(h, b) = GetHeight(h, a) + 1
  <2>1. GetHeight(h, a) = k /\ GetHeight(h, b) = k + 1
    BY <1>1, <1>2, <1>3, <1>8 DEF Taller
  <2>2. b # Null /\ b \in A2 /\ b \in DOMAIN h /\ h[b].height = k + 1
    <3>1. b # Null
      BY <1>1, <2>1 DEF GetHeight
    <3> QED
      BY <1>3, <2>1, <3>1 DEF GetHeight
  <2> DEFINE u == h[b].left
             v == h[b].right
  <2>3. PICK U, V :
          /\ A2 = U \cup {b} \cup V
          /\ IsSubtree(h, u, U) /\ IsSubtree(h, v, V)
          /\ \A x \in U : x < b
          /\ \A x \in V : b < x
          /\ GetHeight(h, u) \in Nat /\ GetHeight(h, v) \in Nat
          /\ h[b].height = Taller(GetHeight(h, u), GetHeight(h, v)) + 1
          /\ GetHeight(h, u) - GetHeight(h, v) \in -1 .. 1
    <3>1. PICK P, Q :
            /\ A2 = P \cup {b} \cup Q
            /\ IsSubtree(h, h[b].left, P) /\ IsSubtree(h, h[b].right, Q)
            /\ \A x \in P : x < b
            /\ \A x \in Q : b < x
            /\ h[b].height = Taller(GetHeight(h, h[b].left), GetHeight(h, h[b].right)) + 1
            /\ GetHeight(h, h[b].left) - GetHeight(h, h[b].right) \in -1 .. 1
      <4>1. PICK X, Y : Parts(h, b, A2, X, Y)
        BY <1>2, <2>2, SubtreeParts
      <4> QED
        BY <4>1 DEF Parts
    <3>2. GetHeight(h, h[b].left) \in Nat /\ GetHeight(h, h[b].right) \in Nat
      BY <3>1, SubtreeRoot
    <3>3. /\ Taller(GetHeight(h, u), GetHeight(h, v)) = Taller(GetHeight(h, v), GetHeight(h, u))
          /\ GetHeight(h, u) - GetHeight(h, v) \in -1 .. 1
      <4> DEFINE p == GetHeight(h, h[b].left)
                 q == GetHeight(h, h[b].right)
      <4>1. p \in Nat /\ q \in Nat /\ p - q \in -1 .. 1
        BY <3>1, <3>2
      <4> HIDE DEF p, q
      <4>2. Taller(p, q) = Taller(q, p) /\ p - q \in -1 .. 1 /\ q - p \in -1 .. 1
        BY <4>1, TallerSwaps
      <4> QED
        BY <4>2 DEF p, q
    <3> QED
      BY <3>1, <3>2, <3>3
  <2>4. GetHeight(h, u) \in {k, k - 1} /\ GetHeight(h, v) \in {k, k - 1}
    <3> DEFINE p == GetHeight(h, u)
               q == GetHeight(h, v)
    <3>1. p \in Nat /\ q \in Nat /\ k \in Nat /\ k + 1 = Taller(p, q) + 1 /\ p - q \in -1 .. 1
      BY <1>1, <2>2, <2>3
    <3> HIDE DEF p, q, k
    <3>2. p \in {k, k - 1} /\ q \in {k, k - 1}
      BY <3>1 DEF Taller
    <3> QED
      BY <3>2 DEF p, q, k
  <2>5. /\ U \subseteq DOMAIN h /\ V \subseteq DOMAIN h
        /\ u \in DOMAIN h \cup {Null} /\ v \in DOMAIN h \cup {Null}
        /\ (u # Null => u \in U) /\ (v # Null => v \in V)
    BY <2>3, SubtreeRoot
  <2>6. b # n /\ b # l /\ b \notin U /\ b \notin V /\ b \notin A1 /\ b \notin B
    <3>1. \A x \in Nat : ~ (x < x) /\ \A y \in Nat : ~ (x < y /\ y < x)
      OBVIOUS
    <3>2. b \in Nat /\ l \in Nat /\ A1 \subseteq Nat /\ B \subseteq Nat /\ U \subseteq Nat /\ V \subseteq Nat /\ b \in A
      BY <1>1, <1>2, <1>3, <2>2, <2>5
    <3> QED
      BY <1>2, <1>4, <1>5, <2>2, <2>3, <3>1, <3>2
  <2>7. l \notin U /\ l \notin V /\ n \notin U /\ n \notin V /\ n \notin A1
    BY <1>2, <1>4, <2>3
  <2> DEFINE r1 == LeftRotate(h, l)
             g1 == r1.heap
             g2 == [g1 EXCEPT ![n].left = r1.root]
             r == RightRotate(g2, n)
             g == r.heap
  <2>8. Rebalanced(h, n, key) = r
    <3>1. ~ (key < l) /\ ~ (GetBalance(h, n) < -1)
      <4>1. l \in Nat
        BY <1>1
      <4> QED
        BY <1>6, <1>8, <4>1
    <3> QED
      BY <1>6, <1>8, <3>1 DEF Rebalanced
  <2>9. a \notin {l, b} /\ u \notin {l, b} /\ v \notin {l, b}
    BY <1>1, <1>3, <1>4, <2>2, <2>5, <2>6, <2>7
  <2>10. /\ r1.root = b
         /\ IsHeap(g1) /\ DOMAIN g1 = DOMAIN h
         /\ \A m \in DOMAIN h : m # l /\ m # b => g1[m] = h[m]
         /\ g1[l].value = h[l].value /\ g1[l].left = a /\ g1[l].right = u
         /\ g1[l].height = Taller(GetHeight(h, a), GetHeight(h, u)) + 1
         /\ g1[b].value = h[b].value /\ g1[b].left = l /\ g1[b].right = v
    BY <1>1, <1>3, <2>2, <2>5, <2>6, <2>9, LeftRotateIs
  <2> HIDE DEF r1, g1
  <2>11. /\ IsHeap(g2) /\ DOMAIN g2 = DOMAIN h
         /\ \A m \in DOMAIN h : m # n => g2[m] = g1[m]
         /\ g2[n].value = h[n].value /\ g2[n].left = b /\ g2[n].right = c
    <3>1. b \in Int /\ n \in DOMAIN g1 /\ g1[n] = h[n]
      BY <1>1, <1>4, <2>2, <2>6, <2>10
    <3>2. g2 = [g1 EXCEPT ![n].left = b]
      BY <2>10
    <3>3. IsHeap(g1) /\ DOMAIN g1 = DOMAIN h
      BY <2>10
    <3>4. WithLeft(g2, g1, n, b)
      BY <3>2 DEF WithLeft
    <3> HIDE DEF g2, b
    <3>5. /\ IsHeap(g2) /\ DOMAIN g2 = DOMAIN g1
          /\ \A m \in DOMAIN g1 : m # n => g2[m] = g1[m]
          /\ g2[n].value = g1[n].value /\ g2[n].left = b /\ g2[n].right = g1[n].right
      BY <3>1, <3>3, <3>4, WithLeftIs
    <3> QED
      BY <3>1, <3>3, <3>5
  <2> HIDE DEF g2
  <2>12. g2[b] = g1[b] /\ g2[l] = g1[l] /\ \A m \in DOMAIN h : m # l /\ m # b /\ m # n => g2[m] = h[m]
    BY <1>1, <1>4, <2>2, <2>6, <2>10, <2>11
  <2>13. l \notin {n, b} /\ v \notin {n, b} /\ c \notin {n, b}
    BY <1>1, <1>4, <2>2, <2>5, <2>6, <2>7
  <2>14. /\ r.root = b /\ r = [root |-> b, heap |-> g]
         /\ IsHeap(g) /\ DOMAIN g = DOMAIN h
         /\ \A m \in DOMAIN h : m # n /\ m # b => g[m] = g2[m]
         /\ g[n].value = h[n].value /\ g[n].left = v /\ g[n].right = c
         /\ g[n].height = Taller(GetHeight(g2, v), GetHeight(g2, c)) + 1
         /\ g[b].value = h[b].value /\ g[b].left = l /\ g[b].right = n
         /\ g[b].height = Taller(GetHeight(g2, l), g[n].height) + 1
    BY <1>1, <2>2, <2>5, <2>6, <2>10, <2>11, <2>12, <2>13, RightRotateIs
  <2> HIDE DEF r, g
  <2>15. g[l] = g1[l] /\ \A m \in DOMAIN h : m # l /\ m # b /\ m # n => g[m] = h[m]
    BY <1>1, <1>4, <2>6, <2>12, <2>14
  <2>16. GetHeight(g2, v) = GetHeight(h, v) /\ GetHeight(g2, c) = k /\ GetHeight(g2, l) = g1[l].height
    <3>1. v # Null => g2[v] = h[v]
      BY <2>5, <2>6, <2>7, <2>12
    <3>2. c # Null => g2[c] = h[c]
      BY <1>1, <1>4, <2>6, <2>12
    <3> QED
      BY <1>1, <2>12, <3>1, <3>2 DEF GetHeight
  <2>17. g1[l].height = k + 1 /\ g[n].height = k + 1 /\ g[b].height = k + 2
    <3>1. \A x \in {k, k - 1} : Taller(k, x) = k /\ Taller(x, k) = k
      BY <1>1 DEF Taller
    <3>2. g1[l].height = k + 1 /\ g[n].height = k + 1
      BY <2>1, <2>4, <2>10, <2>14, <2>16, <3>1
    <3>3. Taller(k + 1, k + 1) + 1 = k + 2
      BY <1>1 DEF Taller
    <3> QED
      BY <2>14, <2>16, <3>2, <3>3
  <2>18. /\ IsSubtree(g, a, A1) /\ IsSubtree(g, u, U) /\ IsSubtree(g, v, V) /\ IsSubtree(g, c, B)
         /\ GetHeight(g, a) = k /\ GetHeight(g, c) = k
         /\ GetHeight(g, u) \in {k, k - 1} /\ GetHeight(g, v) \in {k, k - 1}
    <3> DEFINE T == A1 \cup U \cup V \cup B
    <3>1. \A m \in T : m \in DOMAIN h /\ m # n /\ m # l /\ m # b
      BY <1>1, <1>2, <1>3, <1>4, <2>5, <2>6, <2>7
    <3>2. \A m \in T : m \in DOMAIN g /\ g[m] = h[m]
      BY <2>14, <2>15, <3>1
    <3>3. Keeps(g, h, A1) /\ Keeps(g, h, U) /\ Keeps(g, h, V) /\ Keeps(g, h, B)
      BY <3>2 DEF Keeps
    <3>4. IsSubtree(h, a, A1) /\ IsSubtree(h, u, U) /\ IsSubtree(h, v, V) /\ IsSubtree(h, c, B)
      BY <1>2, <2>3
    <3> HIDE DEF T, a, u, v, c
    <3>5. /\ IsSubtree(g, a, A1) /\ GetHeight(g, a) = GetHeight(h, a)
          /\ IsSubtree(g, u, U) /\ GetHeight(g, u) = GetHeight(h, u)
          /\ IsSubtree(g, v, V) /\ GetHeight(g, v) = GetHeight(h, v)
          /\ IsSubtree(g, c, B) /\ GetHeight(g, c) = GetHeight(h, c)
      BY <3>3, <3>4, SubtreeKept
    <3> QED
      BY <2>1, <2>4, <3>5 DEF c
  <2>19. \A x \in {k, k - 1} : /\ Taller(k, x) + 1 = k + 1 /\ Taller(x, k) + 1 = k + 1
                               /\ k - x \in -1 .. 1 /\ x - k \in -1 .. 1
    BY <1>1 DEF Taller
  <2>20. IsSubtree(g, l, (A1 \cup {l} \cup U)) /\ GetHeight(g, l) = k + 1
    <3>1. IsNode(g, l, a, u, k + 1)
      BY <1>1, <2>10, <2>14, <2>15, <2>17 DEF IsNode
    <3>2. Divides(l, A1, U)
      BY <1>2, <2>3 DEF Divides
    <3>3. PICK i \in {k, k - 1} : i = GetHeight(g, u)
      BY <2>18
    <3>4. Balances(k, i, k + 1)
      BY <2>19 DEF Balances
    <3>5. IsSubtreeOf(g, a, A1, k) /\ IsSubtreeOf(g, u, U, i)
      BY <2>18, <3>3 DEF IsSubtreeOf
    <3> HIDE DEF a, u, k
    <3> QED
      BY <3>1, <3>2, <3>4, <3>5, SubtreeNode
  <2>21. IsSubtree(g, n, (V \cup {n} \cup B)) /\ GetHeight(g, n) = k + 1
    <3>1. Divides(n, V, B)
      BY <1>2, <2>3 DEF Divides
    <3>2. IsNode(g, n, v, c, k + 1)
      BY <2>14, <2>17 DEF IsNode
    <3>3. PICK i \in {k, k - 1} : i = GetHeight(g, v)
      BY <2>18
    <3>4. Balances(i, k, k + 1)
      BY <2>19 DEF Balances
    <3>5. IsSubtreeOf(g, v, V, i) /\ IsSubtreeOf(g, c, B, k)
      BY <2>18, <3>3 DEF IsSubtreeOf
    <3> HIDE DEF v, c, k
    <3> QED
      BY <3>1, <3>2, <3>4, <3>5, SubtreeNode
  <2>22. IsSubtree(g, b, S) /\ GetHeight(g, b) = k + 2
    <3> DEFINE C == (A1 \cup {l} \cup U)
               E == (V \cup {n} \cup B)
    <3>1. \A x \in C : x < b
      <4>1. ASSUME NEW x \in A1 PROVE x < b
        <5>1. x < l /\ l < b /\ x \in Nat /\ l \in Nat /\ b \in Nat
          BY <1>1, <1>2, <1>3, <2>2
        <5> QED
          BY <5>1
      <4> QED
        BY <1>2, <2>2, <2>3, <4>1
    <3>2. \A x \in E : b < x
      <4>1. b \in A
        BY <1>2, <2>2
      <4> QED
        BY <1>5, <2>3, <4>1
    <3>3. Balances(k + 1, k + 1, k + 2) /\ Divides(b, C, E)
      BY <1>1, <3>1, <3>2 DEF Balances, Taller, Divides
    <3>4. IsNode(g, b, l, n, k + 2)
      BY <2>2, <2>14, <2>17 DEF IsNode
    <3>5. IsSubtreeOf(g, l, C, k + 1) /\ IsSubtreeOf(g, n, E, k + 1)
      BY <2>20, <2>21 DEF IsSubtreeOf
    <3>6. C \cup {b} \cup E = S
      BY <1>2, <2>3
    <3> HIDE DEF b, k, C, E, S
    <3>7. IsSubtree(g, b, C \cup {b} \cup E) /\ GetHeight(g, b) = k + 2
      BY <3>3, <3>4, <3>5, SubtreeNode
    <3> QED
      BY <3>6, <3>7
  <2>23. \A m \in DOMAIN h : g[m].value = h[m].value
    BY <2>10, <2>14, <2>15
  <2>24. \A m \in DOMAIN h : m \notin S => g[m] = h[m]
    BY <1>1, <1>2, <2>2, <2>15
  <2> QED
    BY <2>8, <2>14, <2>22, <2>23, <2>24 DEF IsRebalanced, r, g
<1> QED
  BY <1>7, <1>8

\* The mirror image.
LEMMA RightHeavy ==
  ASSUME NEW h, IsHeap(h), NEW n \in DOMAIN h, NEW A, NEW B, NEW key \in Nat,
         NEW l, l = h[n].right,
         IsSubtree(h, l, A), IsSubtree(h, h[n].left, B),
         \A x \in A : n < x, \A x \in B : x < n,
         GetHeight(h, l) = GetHeight(h, h[n].left) + 2,
         \/ l < key /\ GetHeight(h, h[l].right) = GetHeight(h, h[l].left) + 1
         \/ key < l /\ GetHeight(h, h[l].left) = GetHeight(h, h[l].right) + 1
  PROVE  IsRebalanced(Rebalanced(h, n, key), h, n, A \cup {n} \cup B, GetHeight(h, h[n].left) + 2)
<1> DEFINE c == h[n].left
           a == h[l].right
           b == h[l].left
           k == GetHeight(h, c)
           S == A \cup {n} \cup B
<1>1. /\ A \subseteq DOMAIN h /\ B \subseteq DOMAIN h /\ DOMAIN h \subseteq Nat
      /\ k \in Nat /\ GetHeight(h, l) \in Nat /\ l # Null
      /\ l \in A /\ l \in DOMAIN h /\ GetHeight(h, l) = h[l].height
      /\ c \in DOMAIN h \cup {Null} /\ (c # Null => c \in B)
  <2>1. /\ A \subseteq DOMAIN h /\ B \subseteq DOMAIN h /\ DOMAIN h \subseteq Nat
        /\ k \in Nat /\ GetHeight(h, l) \in Nat
        /\ (c # Null => c \in B)
    BY SubtreeRoot DEF IsHeap
  <2>2. GetHeight(h, l) # 0
    BY <2>1
  <2>3. l # Null
    BY <2>2 DEF GetHeight
  <2>4. l \in A /\ l \in DOMAIN h /\ GetHeight(h, l) = h[l].height
    BY <2>3, SubtreeRoot
  <2> QED
    BY <2>1, <2>3, <2>4
<1>2. PICK A1, A2 :
        /\ A = A1 \cup {l} \cup A2
        /\ IsSubtree(h, a, A1) /\ IsSubtree(h, b, A2)
        /\ \A x \in A1 : l < x
        /\ \A x \in A2 : x < l
        /\ h[l].height = Taller(GetHeight(h, a), GetHeight(h, b)) + 1
  <2>1. PICK P, Q :
          /\ A = P \cup {l} \cup Q
          /\ IsSubtree(h, h[l].left, P) /\ IsSubtree(h, h[l].right, Q)
          /\ \A x \in P : x < l
          /\ \A x \in Q : l < x
          /\ h[l].height = Taller(GetHeight(h, h[l].left), GetHeight(h, h[l].right)) + 1
    <3>1. PICK X, Y : Parts(h, l, A, X, Y)
      BY <1>1, SubtreeParts
    <3> QED
      BY <3>1 DEF Parts
  <2>2. Taller(GetHeight(h, a), GetHeight(h, b)) = Taller(GetHeight(h, b), GetHeight(h, a))
    <3>1. a \in DOMAIN h \cup {Null} /\ b \in DOMAIN h \cup {Null}
      BY <2>1, SubtreeRoot
    <3>2. GetHeight(h, a) \in Nat /\ GetHeight(h, b) \in Nat
      BY <3>1, HeightTyped
    <3> QED
      BY <3>2, TallerSwaps
  <2> QED
    BY <2>1, <2>2
<1>3. /\ A1 \subseteq DOMAIN h /\ A2 \subseteq DOMAIN h
      /\ GetHeight(h, a) \in Nat /\ GetHeight(h, b) \in Nat
      /\ a \in DOMAIN h \cup {Null} /\ b \in DOMAIN h \cup {Null}
      /\ (a # Null => a \in A1) /\ (b # Null => b \in A2)
  BY <1>2, SubtreeRoot
<1>4. n \notin A /\ n \notin B /\ l \notin B /\ l # n /\ l \notin A1 /\ l \notin A2 /\ n # Null
  <2>1. \A x \in Nat : ~ (x < x) /\ \A y \in Nat : ~ (x < y /\ y < x)
    OBVIOUS
  <2>2. n \in Nat /\ l \in Nat /\ A1 \subseteq Nat /\ A2 \subseteq Nat /\ A \subseteq Nat /\ B \subseteq Nat
    BY <1>1, <1>3
  <2> QED
    BY <1>1, <1>2, <2>1, <2>2, NullIs
<1>5. \A x \in A, y \in B : n < x /\ y < n /\ y < x
  <2>1. \A x \in A, y \in B : x \in Nat /\ y \in Nat /\ n \in Nat
    BY <1>1
  <2> QED
    BY <2>1
<1>6. GetBalance(h, n) \in Int /\ GetBalance(h, n) < -1
  <2>1. GetBalance(h, n) = k - GetHeight(h, l)
    BY <1>4 DEF GetBalance
  <2> QED
    BY <1>1, <2>1
<1>7. CASE l < key /\ GetHeight(h, a) = GetHeight(h, b) + 1
  <2>1. Rebalanced(h, n, key) = LeftRotate(h, n)
    <3>1. ~ (key < l) /\ ~ (GetBalance(h, n) > 1)
      <4>1. l \in Nat
        BY <1>1
      <4> QED
        BY <1>6, <1>7, <4>1
    <3> QED
      BY <1>6, <1>7, <3>1 DEF Rebalanced
  <2> DEFINE r == LeftRotate(h, n)
             g == r.heap
  <2>2. GetHeight(h, a) = k + 1 /\ GetHeight(h, b) = k
    BY <1>1, <1>2, <1>3, <1>7 DEF Taller
  <2>3. a \notin {n, l} /\ b \notin {n, l} /\ c \notin {n, l}
    BY <1>1, <1>2, <1>3, <1>4, NullIs
  <2>4. /\ r.root = l /\ r = [root |-> l, heap |-> g]
        /\ IsHeap(g) /\ DOMAIN g = DOMAIN h
        /\ \A m \in DOMAIN h : m # n /\ m # l => g[m] = h[m]
        /\ g[n].value = h[n].value /\ g[n].right = b /\ g[n].left = c
        /\ g[n].height = Taller(GetHeight(h, c), GetHeight(h, b)) + 1
        /\ g[l].value = h[l].value /\ g[l].right = a /\ g[l].left = n
        /\ g[l].height = Taller(g[n].height, GetHeight(h, a)) + 1
    BY <1>1, <1>3, <1>4, <2>3, LeftRotateIs
  <2> HIDE DEF r, g
  <2>5. g[n].height = k + 1 /\ g[l].height = k + 2
    BY <1>1, <2>2, <2>4 DEF Taller
  <2>6. /\ IsSubtree(g, a, A1) /\ IsSubtree(g, b, A2) /\ IsSubtree(g, c, B)
        /\ GetHeight(g, a) = k + 1 /\ GetHeight(g, b) = k /\ GetHeight(g, c) = k
    <3> DEFINE T == A1 \cup A2 \cup B
    <3>1. \A m \in T : m \in DOMAIN h /\ m # n /\ m # l
      BY <1>1, <1>2, <1>3, <1>4
    <3>2. \A m \in T : m \in DOMAIN g /\ g[m] = h[m]
      BY <2>4, <3>1
    <3>3. Keeps(g, h, A1) /\ Keeps(g, h, A2) /\ Keeps(g, h, B)
      BY <3>2 DEF Keeps
    <3>4. IsSubtree(h, a, A1) /\ IsSubtree(h, b, A2) /\ IsSubtree(h, c, B)
      BY <1>2
    <3> HIDE DEF T, a, b, c
    <3>5. /\ IsSubtree(g, a, A1) /\ GetHeight(g, a) = GetHeight(h, a)
          /\ IsSubtree(g, b, A2) /\ GetHeight(g, b) = GetHeight(h, b)
          /\ IsSubtree(g, c, B) /\ GetHeight(g, c) = GetHeight(h, c)
      BY <3>3, <3>4, SubtreeKept
    <3> QED
      BY <2>2, <3>5 DEF c
  <2>7. IsSubtree(g, n, A2 \cup {n} \cup B) /\ GetHeight(g, n) = k + 1
    <3>1. Balances(k, k, k + 1)
      BY <1>1 DEF Balances, Taller
    <3>2. IsNode(g, n, c, b, k + 1)
      BY <2>4, <2>5 DEF IsNode
    <3>3. Divides(n, B, A2)
      BY <1>2, <1>5 DEF Divides
    <3>4. IsSubtreeOf(g, b, A2, k) /\ IsSubtreeOf(g, c, B, k)
      BY <2>6 DEF IsSubtreeOf
    <3> HIDE DEF b, c, k
    <3>5. IsSubtree(g, n, B \cup {n} \cup A2) /\ GetHeight(g, n) = k + 1
      BY <3>1, <3>2, <3>3, <3>4, SubtreeNode
    <3>6. B \cup {n} \cup A2 = A2 \cup {n} \cup B
      OBVIOUS
    <3> QED
      BY <3>5, <3>6
  <2>8. IsSubtree(g, l, S) /\ GetHeight(g, l) = k + 2
    <3> DEFINE C == A2 \cup {n} \cup B
    <3>1. Divides(l, C, A1)
      BY <1>1, <1>2, <1>5 DEF Divides
    <3>2. Balances(k + 1, k + 1, k + 2)
      BY <1>1 DEF Balances, Taller
    <3>3. IsNode(g, l, n, a, k + 2)
      BY <1>1, <2>4, <2>5 DEF IsNode
    <3>4. IsSubtreeOf(g, a, A1, k + 1) /\ IsSubtreeOf(g, n, C, k + 1)
      BY <2>6, <2>7 DEF IsSubtreeOf
    <3>5. C \cup {l} \cup A1 = S
      BY <1>2
    <3> HIDE DEF a, k, C, S
    <3>6. IsSubtree(g, l, C \cup {l} \cup A1) /\ GetHeight(g, l) = k + 2
      BY <3>1, <3>2, <3>3, <3>4, SubtreeNode
    <3> QED
      BY <3>5, <3>6
  <2>9. \A m \in DOMAIN h : g[m].value = h[m].value
    BY <2>4
  <2> QED
    BY <1>1, <2>1, <2>4, <2>8, <2>9 DEF IsRebalanced, r, g
<1>8. CASE key < l /\ GetHeight(h, b) = GetHeight(h, a) + 1
  <2>1. GetHeight(h, a) = k /\ GetHeight(h, b) = k + 1
    BY <1>1, <1>2, <1>3, <1>8 DEF Taller
  <2>2. b # Null /\ b \in A2 /\ b \in DOMAIN h /\ h[b].height = k + 1
    <3>1. b # Null
      BY <1>1, <2>1 DEF GetHeight
    <3> QED
      BY <1>3, <2>1, <3>1 DEF GetHeight
  <2> DEFINE u == h[b].right
             v == h[b].left
  <2>3. PICK U, V :
          /\ A2 = U \cup {b} \cup V
          /\ IsSubtree(h, u, U) /\ IsSubtree(h, v, V)
          /\ \A x \in U : b < x
          /\ \A x \in V : x < b
          /\ GetHeight(h, u) \in Nat /\ GetHeight(h, v) \in Nat
          /\ h[b].height = Taller(GetHeight(h, u), GetHeight(h, v)) + 1
          /\ GetHeight(h, u) - GetHeight(h, v) \in -1 .. 1
    <3>1. PICK P, Q :
            /\ A2 = P \cup {b} \cup Q
            /\ IsSubtree(h, h[b].left, P) /\ IsSubtree(h, h[b].right, Q)
            /\ \A x \in P : x < b
            /\ \A x \in Q : b < x
            /\ h[b].height = Taller(GetHeight(h, h[b].left), GetHeight(h, h[b].right)) + 1
            /\ GetHeight(h, h[b].left) - GetHeight(h, h[b].right) \in -1 .. 1
      <4>1. PICK X, Y : Parts(h, b, A2, X, Y)
        BY <1>2, <2>2, SubtreeParts
      <4> QED
        BY <4>1 DEF Parts
    <3>2. GetHeight(h, h[b].left) \in Nat /\ GetHeight(h, h[b].right) \in Nat
      BY <3>1, SubtreeRoot
    <3>3. /\ Taller(GetHeight(h, u), GetHeight(h, v)) = Taller(GetHeight(h, v), GetHeight(h, u))
          /\ GetHeight(h, u) - GetHeight(h, v) \in -1 .. 1
      <4> DEFINE p == GetHeight(h, h[b].left)
                 q == GetHeight(h, h[b].right)
      <4>1. p \in Nat /\ q \in Nat /\ p - q \in -1 .. 1
        BY <3>1, <3>2
      <4> HIDE DEF p, q
      <4>2. Taller(p, q) = Taller(q, p) /\ p - q \in -1 .. 1 /\ q - p \in -1 .. 1
        BY <4>1, TallerSwaps
      <4> QED
        BY <4>2 DEF p, q
    <3> QED
      BY <3>1, <3>2, <3>3
  <2>4. GetHeight(h, u) \in {k, k - 1} /\ GetHeight(h, v) \in {k, k - 1}
    <3> DEFINE p == GetHeight(h, u)
               q == GetHeight(h, v)
    <3>1. p \in Nat /\ q \in Nat /\ k \in Nat /\ k + 1 = Taller(p, q) + 1 /\ p - q \in -1 .. 1
      BY <1>1, <2>2, <2>3
    <3> HIDE DEF p, q, k
    <3>2. p \in {k, k - 1} /\ q \in {k, k - 1}
      BY <3>1 DEF Taller
    <3> QED
      BY <3>2 DEF p, q, k
  <2>5. /\ U \subseteq DOMAIN h /\ V \subseteq DOMAIN h
        /\ u \in DOMAIN h \cup {Null} /\ v \in DOMAIN h \cup {Null}
        /\ (u # Null => u \in U) /\ (v # Null => v \in V)
    BY <2>3, SubtreeRoot
  <2>6. b # n /\ b # l /\ b \notin U /\ b \notin V /\ b \notin A1 /\ b \notin B
    <3>1. \A x \in Nat : ~ (x < x) /\ \A y \in Nat : ~ (x < y /\ y < x)
      OBVIOUS
    <3>2. b \in Nat /\ l \in Nat /\ A1 \subseteq Nat /\ B \subseteq Nat /\ U \subseteq Nat /\ V \subseteq Nat /\ b \in A
      BY <1>1, <1>2, <1>3, <2>2, <2>5
    <3> QED
      BY <1>2, <1>4, <1>5, <2>2, <2>3, <3>1, <3>2
  <2>7. l \notin U /\ l \notin V /\ n \notin U /\ n \notin V /\ n \notin A1
    BY <1>2, <1>4, <2>3
  <2> DEFINE r1 == RightRotate(h, l)
             g1 == r1.heap
             g2 == [g1 EXCEPT ![n].right = r1.root]
             r == LeftRotate(g2, n)
             g == r.heap
  <2>8. Rebalanced(h, n, key) = r
    <3>1. ~ (l < key) /\ ~ (GetBalance(h, n) > 1)
      <4>1. l \in Nat
        BY <1>1
      <4> QED
        BY <1>6, <1>8, <4>1
    <3> QED
      BY <1>6, <1>8, <3>1 DEF Rebalanced
  <2>9. a \notin {l, b} /\ u \notin {l, b} /\ v \notin {l, b}
    BY <1>1, <1>3, <1>4, <2>2, <2>5, <2>6, <2>7
  <2>10. /\ r1.root = b
         /\ IsHeap(g1) /\ DOMAIN g1 = DOMAIN h
         /\ \A m \in DOMAIN h : m # l /\ m # b => g1[m] = h[m]
         /\ g1[l].value = h[l].value /\ g1[l].right = a /\ g1[l].left = u
         /\ g1[l].height = Taller(GetHeight(h, u), GetHeight(h, a)) + 1
         /\ g1[b].value = h[b].value /\ g1[b].right = l /\ g1[b].left = v
    BY <1>1, <1>3, <2>2, <2>5, <2>6, <2>9, RightRotateIs
  <2> HIDE DEF r1, g1
  <2>11. /\ IsHeap(g2) /\ DOMAIN g2 = DOMAIN h
         /\ \A m \in DOMAIN h : m # n => g2[m] = g1[m]
         /\ g2[n].value = h[n].value /\ g2[n].right = b /\ g2[n].left = c
    <3>1. b \in Int /\ n \in DOMAIN g1 /\ g1[n] = h[n]
      BY <1>1, <1>4, <2>2, <2>6, <2>10
    <3>2. g2 = [g1 EXCEPT ![n].right = b]
      BY <2>10
    <3>3. IsHeap(g1) /\ DOMAIN g1 = DOMAIN h
      BY <2>10
    <3>4. WithRight(g2, g1, n, b)
      BY <3>2 DEF WithRight
    <3> HIDE DEF g2, b
    <3>5. /\ IsHeap(g2) /\ DOMAIN g2 = DOMAIN g1
          /\ \A m \in DOMAIN g1 : m # n => g2[m] = g1[m]
          /\ g2[n].value = g1[n].value /\ g2[n].right = b /\ g2[n].left = g1[n].left
      BY <3>1, <3>3, <3>4, WithRightIs
    <3> QED
      BY <3>1, <3>3, <3>5
  <2> HIDE DEF g2
  <2>12. g2[b] = g1[b] /\ g2[l] = g1[l] /\ \A m \in DOMAIN h : m # l /\ m # b /\ m # n => g2[m] = h[m]
    BY <1>1, <1>4, <2>2, <2>6, <2>10, <2>11
  <2>13. l \notin {n, b} /\ v \notin {n, b} /\ c \notin {n, b}
    BY <1>1, <1>4, <2>2, <2>5, <2>6, <2>7
  <2>14. /\ r.root = b /\ r = [root |-> b, heap |-> g]
         /\ IsHeap(g) /\ DOMAIN g = DOMAIN h
         /\ \A m \in DOMAIN h : m # n /\ m # b => g[m] = g2[m]
         /\ g[n].value = h[n].value /\ g[n].right = v /\ g[n].left = c
         /\ g[n].height = Taller(GetHeight(g2, c), GetHeight(g2, v)) + 1
         /\ g[b].value = h[b].value /\ g[b].right = l /\ g[b].left = n
         /\ g[b].height = Taller(g[n].height, GetHeight(g2, l)) + 1
    BY <1>1, <2>2, <2>5, <2>6, <2>10, <2>11, <2>12, <2>13, LeftRotateIs
  <2> HIDE DEF r, g
  <2>15. g[l] = g1[l] /\ \A m \in DOMAIN h : m # l /\ m # b /\ m # n => g[m] = h[m]
    BY <1>1, <1>4, <2>6, <2>12, <2>14
  <2>16. GetHeight(g2, v) = GetHeight(h, v) /\ GetHeight(g2, c) = k /\ GetHeight(g2, l) = g1[l].height
    <3>1. v # Null => g2[v] = h[v]
      BY <2>5, <2>6, <2>7, <2>12
    <3>2. c # Null => g2[c] = h[c]
      BY <1>1, <1>4, <2>6, <2>12
    <3> QED
      BY <1>1, <2>12, <3>1, <3>2 DEF GetHeight
  <2>17. g1[l].height = k + 1 /\ g[n].height = k + 1 /\ g[b].height = k + 2
    <3>1. \A x \in {k, k - 1} : Taller(k, x) = k /\ Taller(x, k) = k
      BY <1>1 DEF Taller
    <3>2. g1[l].height = k + 1 /\ g[n].height = k + 1
      BY <2>1, <2>4, <2>10, <2>14, <2>16, <3>1
    <3>3. Taller(k + 1, k + 1) + 1 = k + 2
      BY <1>1 DEF Taller
    <3> QED
      BY <2>14, <2>16, <3>2, <3>3
  <2>18. /\ IsSubtree(g, a, A1) /\ IsSubtree(g, u, U) /\ IsSubtree(g, v, V) /\ IsSubtree(g, c, B)
         /\ GetHeight(g, a) = k /\ GetHeight(g, c) = k
         /\ GetHeight(g, u) \in {k, k - 1} /\ GetHeight(g, v) \in {k, k - 1}
    <3> DEFINE T == A1 \cup U \cup V \cup B
    <3>1. \A m \in T : m \in DOMAIN h /\ m # n /\ m # l /\ m # b
      BY <1>1, <1>2, <1>3, <1>4, <2>5, <2>6, <2>7
    <3>2. \A m \in T : m \in DOMAIN g /\ g[m] = h[m]
      BY <2>14, <2>15, <3>1
    <3>3. Keeps(g, h, A1) /\ Keeps(g, h, U) /\ Keeps(g, h, V) /\ Keeps(g, h, B)
      BY <3>2 DEF Keeps
    <3>4. IsSubtree(h, a, A1) /\ IsSubtree(h, u, U) /\ IsSubtree(h, v, V) /\ IsSubtree(h, c, B)
      BY <1>2, <2>3
    <3> HIDE DEF T, a, u, v, c
    <3>5. /\ IsSubtree(g, a, A1) /\ GetHeight(g, a) = GetHeight(h, a)
          /\ IsSubtree(g, u, U) /\ GetHeight(g, u) = GetHeight(h, u)
          /\ IsSubtree(g, v, V) /\ GetHeight(g, v) = GetHeight(h, v)
          /\ IsSubtree(g, c, B) /\ GetHeight(g, c) = GetHeight(h, c)
      BY <3>3, <3>4, SubtreeKept
    <3> QED
      BY <2>1, <2>4, <3>5 DEF c
  <2>19. \A x \in {k, k - 1} : /\ Taller(k, x) + 1 = k + 1 /\ Taller(x, k) + 1 = k + 1
                               /\ k - x \in -1 .. 1 /\ x - k \in -1 .. 1
    BY <1>1 DEF Taller
  <2>20. IsSubtree(g, l, (U \cup {l} \cup A1)) /\ GetHeight(g, l) = k + 1
    <3>1. IsNode(g, l, u, a, k + 1)
      BY <1>1, <2>10, <2>14, <2>15, <2>17 DEF IsNode
    <3>2. Divides(l, U, A1)
      BY <1>2, <2>3 DEF Divides
    <3>3. PICK i \in {k, k - 1} : i = GetHeight(g, u)
      BY <2>18
    <3>4. Balances(i, k, k + 1)
      BY <2>19 DEF Balances
    <3>5. IsSubtreeOf(g, a, A1, k) /\ IsSubtreeOf(g, u, U, i)
      BY <2>18, <3>3 DEF IsSubtreeOf
    <3> HIDE DEF a, u, k
    <3> QED
      BY <3>1, <3>2, <3>4, <3>5, SubtreeNode
  <2>21. IsSubtree(g, n, (B \cup {n} \cup V)) /\ GetHeight(g, n) = k + 1
    <3>1. Divides(n, B, V)
      BY <1>2, <2>3 DEF Divides
    <3>2. IsNode(g, n, c, v, k + 1)
      BY <2>14, <2>17 DEF IsNode
    <3>3. PICK i \in {k, k - 1} : i = GetHeight(g, v)
      BY <2>18
    <3>4. Balances(k, i, k + 1)
      BY <2>19 DEF Balances
    <3>5. IsSubtreeOf(g, v, V, i) /\ IsSubtreeOf(g, c, B, k)
      BY <2>18, <3>3 DEF IsSubtreeOf
    <3> HIDE DEF v, c, k
    <3> QED
      BY <3>1, <3>2, <3>4, <3>5, SubtreeNode
  <2>22. IsSubtree(g, b, S) /\ GetHeight(g, b) = k + 2
    <3> DEFINE C == (U \cup {l} \cup A1)
               E == (B \cup {n} \cup V)
    <3>1. \A x \in C : b < x
      <4>1. ASSUME NEW x \in A1 PROVE b < x
        <5>1. l < x /\ b < l /\ x \in Nat /\ l \in Nat /\ b \in Nat
          BY <1>1, <1>2, <1>3, <2>2
        <5> QED
          BY <5>1
      <4> QED
        BY <1>2, <2>2, <2>3, <4>1
    <3>2. \A x \in E : x < b
      <4>1. b \in A
        BY <1>2, <2>2
      <4> QED
        BY <1>5, <2>3, <4>1
    <3>3. Balances(k + 1, k + 1, k + 2) /\ Divides(b, E, C)
      BY <1>1, <3>1, <3>2 DEF Balances, Taller, Divides
    <3>4. IsNode(g, b, n, l, k + 2)
      BY <2>2, <2>14, <2>17 DEF IsNode
    <3>5. IsSubtreeOf(g, l, C, k + 1) /\ IsSubtreeOf(g, n, E, k + 1)
      BY <2>20, <2>21 DEF IsSubtreeOf
    <3>6. E \cup {b} \cup C = S
      BY <1>2, <2>3
    <3> HIDE DEF b, k, C, E, S
    <3>7. IsSubtree(g, b, E \cup {b} \cup C) /\ GetHeight(g, b) = k + 2
      BY <3>3, <3>4, <3>5, SubtreeNode
    <3> QED
      BY <3>6, <3>7
  <2>23. \A m \in DOMAIN h : g[m].value = h[m].value
    BY <2>10, <2>14, <2>15
  <2>24. \A m \in DOMAIN h : m \notin S => g[m] = h[m]
    BY <1>1, <1>2, <2>2, <2>15
  <2> QED
    BY <2>8, <2>14, <2>22, <2>23, <2>24 DEF IsRebalanced, r, g
<1> QED
  BY <1>7, <1>8

\* r is what h becomes when key is inserted into the subtree at n with the keys
\* S.  When the subtree grows, it is where the key went that it is higher.
IsInserted(r, h, n, S, key, value) ==
  /\ r = [root |-> r.root, heap |-> r.heap]
  /\ IsHeap(r.heap) /\ DOMAIN r.heap = DOMAIN h \cup {key}
  /\ \A m \in DOMAIN h : m \notin S /\ m # key => r.heap[m] = h[m]
  /\ \A m \in DOMAIN h : m # key => r.heap[m].value = h[m].value
  /\ r.heap[key].value = value
  /\ IsSubtree(r.heap, r.root, S \cup {key})
  /\ LET left  == GetHeight(r.heap, r.heap[r.root].left)
         right == GetHeight(r.heap, r.heap[r.root].right)
     IN  \/ GetHeight(r.heap, r.root) = GetHeight(h, n)
         \/ /\ GetHeight(r.heap, r.root) = GetHeight(h, n) + 1
            /\ \/ S = {}
               \/ key < r.root /\ left = right + 1
               \/ r.root < key /\ right = left + 1

\* The child of n at which key was inserted is higher at the side of the key.
Leans(h, child, key) ==
  \/ key < child /\ GetHeight(h, h[child].left) = GetHeight(h, h[child].right) + 1
  \/ child < key /\ GetHeight(h, h[child].right) = GetHeight(h, h[child].left) + 1

\* A node whose left child became too high is balanced again.
LEMMA LeftIsRebalanced ==
  ASSUME NEW h, NEW n, NEW l, NEW c, NEW k, IsNode(h, n, l, c, k),
         NEW A, NEW B, NEW j \in Nat, IsSubtreeOf(h, l, A, j + 2), IsSubtreeOf(h, c, B, j),
         Divides(n, A, B), NEW key \in Nat, Leans(h, l, key)
  PROVE  IsRebalanced(Rebalanced(h, n, key), h, n, A \cup {n} \cup B, j + 2)
<1>1. IsHeap(h) /\ n \in DOMAIN h /\ l = h[n].left /\ c = h[n].right
  BY DEF IsNode
<1>2. /\ IsSubtree(h, l, A) /\ IsSubtree(h, h[n].right, B)
      /\ GetHeight(h, l) = GetHeight(h, h[n].right) + 2 /\ j = GetHeight(h, h[n].right)
  BY <1>1 DEF IsSubtreeOf
<1>3. (\A x \in A : x < n) /\ (\A x \in B : n < x)
  BY DEF Divides
<1>4. \/ key < l /\ GetHeight(h, h[l].left) = GetHeight(h, h[l].right) + 1
      \/ l < key /\ GetHeight(h, h[l].right) = GetHeight(h, h[l].left) + 1
  BY DEF Leans
<1>5. IsRebalanced(Rebalanced(h, n, key), h, n, A \cup {n} \cup B, GetHeight(h, h[n].right) + 2)
  BY <1>1, <1>2, <1>3, <1>4, LeftHeavy
<1> QED
  BY <1>2, <1>5

\* The mirror image.
LEMMA RightIsRebalanced ==
  ASSUME NEW h, NEW n, NEW l, NEW c, NEW k, IsNode(h, n, c, l, k),
         NEW A, NEW B, NEW j \in Nat, IsSubtreeOf(h, l, A, j + 2), IsSubtreeOf(h, c, B, j),
         Divides(n, B, A), NEW key \in Nat, Leans(h, l, key)
  PROVE  IsRebalanced(Rebalanced(h, n, key), h, n, A \cup {n} \cup B, j + 2)
<1>1. IsHeap(h) /\ n \in DOMAIN h /\ l = h[n].right /\ c = h[n].left
  BY DEF IsNode
<1>2. /\ IsSubtree(h, l, A) /\ IsSubtree(h, h[n].left, B)
      /\ GetHeight(h, l) = GetHeight(h, h[n].left) + 2 /\ j = GetHeight(h, h[n].left)
  BY <1>1 DEF IsSubtreeOf
<1>3. (\A x \in A : n < x) /\ (\A x \in B : x < n)
  BY DEF Divides
<1>4. \/ l < key /\ GetHeight(h, h[l].right) = GetHeight(h, h[l].left) + 1
      \/ key < l /\ GetHeight(h, h[l].left) = GetHeight(h, h[l].right) + 1
  BY DEF Leans
<1>5. IsRebalanced(Rebalanced(h, n, key), h, n, A \cup {n} \cup B, GetHeight(h, h[n].left) + 2)
  BY <1>1, <1>2, <1>3, <1>4, RightHeavy
<1> QED
  BY <1>2, <1>5

\* A tree that is balanced stays as it is.
LEMMA StaysBalanced ==
  ASSUME NEW h, NEW n, n # Null, NEW key,
         GetHeight(h, h[n].left) \in Nat, GetHeight(h, h[n].right) \in Nat,
         GetHeight(h, h[n].left) - GetHeight(h, h[n].right) \in -1 .. 1
  PROVE  Rebalanced(h, n, key) = [root |-> n, heap |-> h]
<1>1. GetBalance(h, n) = GetHeight(h, h[n].left) - GetHeight(h, h[n].right)
  BY DEF GetBalance
<1>2. ~ (GetBalance(h, n) > 1) /\ ~ (GetBalance(h, n) < -1)
  BY <1>1
<1> QED
  BY <1>2 DEF Rebalanced

\* The key goes into the left subtree.
LEMMA InsertLeft ==
  ASSUME NEW h, IsHeap(h), NEW n \in DOMAIN h, NEW S, IsSubtree(h, n, S),
         NEW key \in Nat, NEW value \in 0 .. INVALID_VALUE, key < n,
         NEW child, \A T : IsSubtree(h, h[n].left, T) => IsInserted(child, h, h[n].left, T, key, value)
  PROVE  LET g == Remeasured([child.heap EXCEPT ![n].left = child.root], n)
         IN  IsInserted(Rebalanced(g, n, key), h, n, S, key, value)
<1> DEFINE d == h[n].right
           l == child.root
           g0 == child.heap
           g1 == [g0 EXCEPT ![n].left = l]
           g == Remeasured(g1, n)
           b == GetHeight(h, d)
           a == GetHeight(h, h[n].left)
           e == GetHeight(g0, l)
           r == Rebalanced(g, n, key)
<1>1. PICK A, B :
        /\ S = A \cup {n} \cup B
        /\ IsSubtree(h, h[n].left, A) /\ IsSubtree(h, d, B)
        /\ \A x \in A : x < n
        /\ \A x \in B : n < x
        /\ h[n].height = Taller(a, b) + 1
        /\ a - b \in -1 .. 1
  <2>1. PICK X, Y : Parts(h, n, S, X, Y)
    BY NullIs, SubtreeParts DEF IsHeap
  <2> QED
    BY <2>1 DEF Parts
<1>2. IsInserted(child, h, h[n].left, A, key, value)
  BY <1>1
<1> DEFINE K == A \cup {key}
<1>3. /\ DOMAIN h \subseteq Nat /\ n \in Nat /\ n # Null /\ A \subseteq DOMAIN h /\ B \subseteq DOMAIN h
      /\ a \in Nat /\ b \in Nat /\ (A # {} <=> a # 0) /\ d \in DOMAIN h \cup {Null} /\ (d # Null => d \in B)
      /\ GetHeight(h, n) = h[n].height
  <2>1. DOMAIN h \subseteq Nat /\ n \in Nat /\ n # Null /\ GetHeight(h, n) = h[n].height
    BY NullIs DEF IsHeap, GetHeight
  <2>2. /\ A \subseteq DOMAIN h /\ a \in Nat
        /\ (h[n].left = Null => A = {} /\ a = 0) /\ (h[n].left # Null => h[n].left \in A /\ a >= 1)
    BY <1>1, SubtreeRoot
  <2>3. B \subseteq DOMAIN h /\ b \in Nat /\ d \in DOMAIN h \cup {Null} /\ (d # Null => d \in B)
    BY <1>1, SubtreeRoot
  <2> QED
    BY <2>1, <2>2, <2>3
<1>4. n \notin K /\ n \notin B /\ key # n /\ (\A x \in K : x \notin B) /\ (\A x \in K : x < n)
  <2>1. \A x \in Nat : ~ (x < x) /\ \A y \in Nat : ~ (x < y /\ y < x)
    OBVIOUS
  <2>2. A \subseteq Nat /\ B \subseteq Nat
    BY <1>3
  <2> QED
    BY <1>1, <1>3, <2>1, <2>2
<1>5. /\ IsHeap(g0) /\ DOMAIN g0 = DOMAIN h \cup {key}
      /\ \A m \in DOMAIN h : m \notin K => g0[m] = h[m]
      /\ \A m \in DOMAIN h : m # key => g0[m].value = h[m].value
      /\ g0[key].value = value
      /\ IsSubtree(g0, l, K)
  BY <1>2 DEF IsInserted
<1>6. l \in K /\ l \in DOMAIN g0 /\ l # Null /\ l \in Int /\ e \in Nat /\ K \subseteq DOMAIN g0 /\ l # n
  <2>1. l = Null => K = {}
    BY <1>5, SubtreeRoot
  <2>2. l # Null
    BY <2>1
  <2> QED
    BY <1>4, <1>5, <2>2, SubtreeRoot
<1> HIDE DEF l, g0
<1>7. /\ IsHeap(g1) /\ DOMAIN g1 = DOMAIN g0
      /\ \A m \in DOMAIN g0 : m # n => g1[m] = g0[m]
      /\ g1[n].value = h[n].value /\ g1[n].left = l /\ g1[n].right = d
  <2>1. n \in DOMAIN g0 /\ g0[n] = h[n]
    BY <1>4, <1>5
  <2>2. WithLeft(g1, g0, n, l)
    BY DEF WithLeft
  <2> HIDE DEF g1
  <2>3. /\ IsHeap(g1) /\ DOMAIN g1 = DOMAIN g0
        /\ \A m \in DOMAIN g0 : m # n => g1[m] = g0[m]
        /\ g1[n].value = g0[n].value /\ g1[n].left = l /\ g1[n].right = g0[n].right
    BY <1>5, <1>6, <2>1, <2>2, WithLeftIs
  <2> QED
    BY <2>1, <2>3
<1> HIDE DEF g1
<1>8. GetHeight(g1, l) = e /\ GetHeight(g1, d) = b
  <2>1. g1[l] = g0[l]
    BY <1>6, <1>7
  <2>2. d # Null => g1[d] = h[d]
    BY <1>3, <1>4, <1>5, <1>7
  <2> QED
    BY <1>6, <2>1, <2>2 DEF GetHeight
<1>9. /\ IsHeap(g) /\ DOMAIN g = DOMAIN g0
      /\ \A m \in DOMAIN g0 : m # n => g[m] = g0[m]
      /\ g[n].value = h[n].value /\ g[n].left = l /\ g[n].right = d
      /\ g[n].height = Taller(e, b) + 1
  <2>1. n \in DOMAIN g1 /\ g1[n].left \in DOMAIN g1 \cup {Null} /\ g1[n].right \in DOMAIN g1 \cup {Null}
    BY <1>3, <1>5, <1>6, <1>7
  <2> QED
    BY <1>7, <1>8, <2>1, RemeasuredIs
<1> HIDE DEF g
<1>10. \A m \in B : m \in DOMAIN g /\ g[m] = h[m]
  BY <1>3, <1>4, <1>5, <1>9
<1>11. /\ IsSubtree(g, l, K) /\ GetHeight(g, l) = e
       /\ IsSubtree(g, d, B) /\ GetHeight(g, d) = b
  <2>1. Keeps(g, g0, K)
    BY <1>4, <1>6, <1>9 DEF Keeps
  <2>2. IsSubtree(g, l, K) /\ GetHeight(g, l) = GetHeight(g0, l)
    BY <1>5, <2>1, SubtreeKept
  <2>3. IsSubtree(g, d, B) /\ GetHeight(g, d) = GetHeight(h, d)
    <3>1. Keeps(g, h, B)
      BY <1>10 DEF Keeps
    <3> QED
      BY <1>1, <3>1, SubtreeKept
  <2> QED
    BY <2>2, <2>3
<1>12. S \cup {key} = K \cup {n} \cup B
  BY <1>1
<1>13. /\ \A m \in DOMAIN h : m \notin S /\ m # key => g[m] = h[m]
       /\ \A m \in DOMAIN h : m # key => g[m].value = h[m].value
       /\ g[key].value = value
  BY <1>1, <1>4, <1>5, <1>9
<1>14. \/ e = a
       \/ /\ e = a + 1
          /\ \/ A = {}
             \/ key < l /\ GetHeight(g, g[l].left) = GetHeight(g, g[l].right) + 1
             \/ l < key /\ GetHeight(g, g[l].right) = GetHeight(g, g[l].left) + 1
  <2>1. g[l] = g0[l]
    BY <1>6, <1>9
  <2>2. PICK P, Q : K = P \cup {l} \cup Q /\ IsSubtree(g0, g0[l].left, P) /\ IsSubtree(g0, g0[l].right, Q)
    <3>1. PICK X, Y : Parts(g0, l, K, X, Y)
      BY <1>5, <1>6, SubtreeParts
    <3> QED
      BY <3>1 DEF Parts
  <2>3. \A c : c = Null \/ c \in K => GetHeight(g, c) = GetHeight(g0, c)
    BY <1>4, <1>6, <1>9 DEF GetHeight
  <2>4. (g0[l].left = Null \/ g0[l].left \in K) /\ (g0[l].right = Null \/ g0[l].right \in K)
    BY <1>5, <2>2, SubtreeRoot
  <2>5. GetHeight(g, g[l].left) = GetHeight(g0, g0[l].left) /\ GetHeight(g, g[l].right) = GetHeight(g0, g0[l].right)
    BY <2>1, <2>3, <2>4
  <2> QED
    BY <1>2, <2>5 DEF IsInserted, l, g0
<1>15. ASSUME e # b + 2 PROVE IsInserted(r, h, n, S, key, value)
  <2>1. e - b \in -1 .. 1 /\ b - e \in -1 .. 1
    BY <1>1, <1>3, <1>6, <1>14, <1>15
  <2>2. r = [root |-> n, heap |-> g]
    BY <1>3, <1>6, <1>9, <1>11, <2>1, StaysBalanced
  <2> HIDE DEF r
  <2>3. IsSubtree(g, n, K \cup {n} \cup B)
    <3> DEFINE y == Taller(e, b) + 1
    <3>1. IsNode(g, n, l, d, y)
      BY <1>5, <1>9 DEF IsNode
    <3>2. IsSubtreeOf(g, l, K, e) /\ IsSubtreeOf(g, d, B, b)
      BY <1>11 DEF IsSubtreeOf
    <3>3. Divides(n, K, B) /\ Balances(e, b, y)
      BY <1>1, <1>4, <2>1 DEF Divides, Balances
    <3> HIDE DEF K, y, e, b, d
    <3> QED
      BY <3>1, <3>2, <3>3, SubtreeNode
  <2>4. IsSubtree(g, n, S \cup {key})
    <3>1. S \cup {key} = K \cup {n} \cup B
      BY <1>12
    <3> QED
      BY <2>3, <3>1
  <2>5. GetHeight(g, n) = Taller(e, b) + 1 /\ GetHeight(h, n) = Taller(a, b) + 1
    BY <1>1, <1>3, <1>9 DEF GetHeight
  <2>6. \/ GetHeight(g, n) = GetHeight(h, n)
        \/ GetHeight(g, n) = GetHeight(h, n) + 1 /\ e = b + 1
    BY <1>1, <1>3, <1>6, <1>14, <2>1, <2>5 DEF Taller
  <2>7. r.root = n /\ r.heap = g /\ g[n].left = l /\ g[n].right = d
    BY <1>9, <2>2
  <2>8. DOMAIN g = DOMAIN h \cup {key}
    BY <1>5, <1>9
  <2> QED
    BY <1>9, <1>11, <1>13, <2>2, <2>4, <2>6, <2>7, <2>8 DEF IsInserted
<1>16. ASSUME e = b + 2 PROVE IsInserted(r, h, n, S, key, value)
  <2>1. e = a + 1 /\ a = b + 1
    BY <1>1, <1>3, <1>6, <1>14, <1>16
  <2>2. A # {}
    BY <1>3, <2>1
  <2>3. \/ key < l /\ GetHeight(g, g[l].left) = GetHeight(g, g[l].right) + 1
        \/ l < key /\ GetHeight(g, g[l].right) = GetHeight(g, g[l].left) + 1
    <3>1. e # a
      BY <1>3, <2>1
    <3> QED
      BY <1>14, <2>2, <3>1
  <2>4. IsRebalanced(r, g, n, K \cup {n} \cup B, GetHeight(g, d) + 2)
    <3>1. IsNode(g, n, l, d, g[n].height)
      BY <1>5, <1>9 DEF IsNode
    <3>2. IsSubtreeOf(g, l, K, b + 2) /\ IsSubtreeOf(g, d, B, b) /\ b \in Nat
      BY <1>3, <1>11, <1>16 DEF IsSubtreeOf
    <3>3. Divides(n, K, B) /\ Leans(g, l, key)
      BY <1>1, <1>4, <2>3 DEF Divides, Leans
    <3> HIDE DEF K, e, b, d
    <3>4. IsRebalanced(r, g, n, K \cup {n} \cup B, b + 2)
      BY <3>1, <3>2, <3>3, LeftIsRebalanced
    <3> QED
      BY <1>11, <3>4
  <2> HIDE DEF r
  <2>5. GetHeight(h, n) = b + 2 /\ GetHeight(r.heap, r.root) = b + 2
    <3>1. Taller(b + 1, b) = b + 1
      BY <1>3 DEF Taller
    <3>2. (b + 1) + 1 = b + 2
      BY <1>3
    <3> QED
      BY <1>1, <1>3, <1>11, <2>1, <2>4, <3>1, <3>2 DEF IsRebalanced
  <2>6. /\ r = [root |-> r.root, heap |-> r.heap]
        /\ IsHeap(r.heap) /\ DOMAIN r.heap = DOMAIN g
        /\ \A m \in DOMAIN g : m \notin S \cup {key} => r.heap[m] = g[m]
        /\ \A m \in DOMAIN g : r.heap[m].value = g[m].value
        /\ IsSubtree(r.heap, r.root, S \cup {key})
    BY <1>12, <2>4 DEF IsRebalanced
  <2>7. DOMAIN g = DOMAIN h \cup {key}
    BY <1>5, <1>9
  <2> QED
    BY <1>13, <2>5, <2>6, <2>7 DEF IsInserted
<1> QED
  BY <1>15, <1>16 DEF g, g1, g0, l

\* The key goes into the right subtree.
LEMMA InsertRight ==
  ASSUME NEW h, IsHeap(h), NEW n \in DOMAIN h, NEW S, IsSubtree(h, n, S),
         NEW key \in Nat, NEW value \in 0 .. INVALID_VALUE, n < key,
         NEW child, \A T : IsSubtree(h, h[n].right, T) => IsInserted(child, h, h[n].right, T, key, value)
  PROVE  LET g == Remeasured([child.heap EXCEPT ![n].right = child.root], n)
         IN  IsInserted(Rebalanced(g, n, key), h, n, S, key, value)
<1> DEFINE d == h[n].left
           l == child.root
           g0 == child.heap
           g1 == [g0 EXCEPT ![n].right = l]
           g == Remeasured(g1, n)
           b == GetHeight(h, d)
           a == GetHeight(h, h[n].right)
           e == GetHeight(g0, l)
           r == Rebalanced(g, n, key)
<1>1. PICK A, B :
        /\ S = A \cup {n} \cup B
        /\ IsSubtree(h, h[n].right, A) /\ IsSubtree(h, d, B)
        /\ \A x \in A : n < x
        /\ \A x \in B : x < n
        /\ h[n].height = Taller(b, a) + 1
        /\ b - a \in -1 .. 1
  <2>1. PICK X, Y : Parts(h, n, S, X, Y)
    BY NullIs, SubtreeParts DEF IsHeap
  <2> QED
    BY <2>1 DEF Parts
<1>2. IsInserted(child, h, h[n].right, A, key, value)
  BY <1>1
<1> DEFINE K == A \cup {key}
<1>3. /\ DOMAIN h \subseteq Nat /\ n \in Nat /\ n # Null /\ A \subseteq DOMAIN h /\ B \subseteq DOMAIN h
      /\ a \in Nat /\ b \in Nat /\ (A # {} <=> a # 0) /\ d \in DOMAIN h \cup {Null} /\ (d # Null => d \in B)
      /\ GetHeight(h, n) = h[n].height
  <2>1. DOMAIN h \subseteq Nat /\ n \in Nat /\ n # Null /\ GetHeight(h, n) = h[n].height
    BY NullIs DEF IsHeap, GetHeight
  <2>2. /\ A \subseteq DOMAIN h /\ a \in Nat
        /\ (h[n].right = Null => A = {} /\ a = 0) /\ (h[n].right # Null => h[n].right \in A /\ a >= 1)
    BY <1>1, SubtreeRoot
  <2>3. B \subseteq DOMAIN h /\ b \in Nat /\ d \in DOMAIN h \cup {Null} /\ (d # Null => d \in B)
    BY <1>1, SubtreeRoot
  <2> QED
    BY <2>1, <2>2, <2>3
<1>4. n \notin K /\ n \notin B /\ key # n /\ (\A x \in K : x \notin B) /\ (\A x \in K : n < x)
  <2>1. \A x \in Nat : ~ (x < x) /\ \A y \in Nat : ~ (x < y /\ y < x)
    OBVIOUS
  <2>2. A \subseteq Nat /\ B \subseteq Nat
    BY <1>3
  <2> QED
    BY <1>1, <1>3, <2>1, <2>2
<1>5. /\ IsHeap(g0) /\ DOMAIN g0 = DOMAIN h \cup {key}
      /\ \A m \in DOMAIN h : m \notin K => g0[m] = h[m]
      /\ \A m \in DOMAIN h : m # key => g0[m].value = h[m].value
      /\ g0[key].value = value
      /\ IsSubtree(g0, l, K)
  BY <1>2 DEF IsInserted
<1>6. l \in K /\ l \in DOMAIN g0 /\ l # Null /\ l \in Int /\ e \in Nat /\ K \subseteq DOMAIN g0 /\ l # n
  <2>1. l = Null => K = {}
    BY <1>5, SubtreeRoot
  <2>2. l # Null
    BY <2>1
  <2> QED
    BY <1>4, <1>5, <2>2, SubtreeRoot
<1> HIDE DEF l, g0
<1>7. /\ IsHeap(g1) /\ DOMAIN g1 = DOMAIN g0
      /\ \A m \in DOMAIN g0 : m # n => g1[m] = g0[m]
      /\ g1[n].value = h[n].value /\ g1[n].right = l /\ g1[n].left = d
  <2>1. n \in DOMAIN g0 /\ g0[n] = h[n]
    BY <1>4, <1>5
  <2>2. WithRight(g1, g0, n, l)
    BY DEF WithRight
  <2> HIDE DEF g1
  <2>3. /\ IsHeap(g1) /\ DOMAIN g1 = DOMAIN g0
        /\ \A m \in DOMAIN g0 : m # n => g1[m] = g0[m]
        /\ g1[n].value = g0[n].value /\ g1[n].right = l /\ g1[n].left = g0[n].left
    BY <1>5, <1>6, <2>1, <2>2, WithRightIs
  <2> QED
    BY <2>1, <2>3
<1> HIDE DEF g1
<1>8. GetHeight(g1, l) = e /\ GetHeight(g1, d) = b
  <2>1. g1[l] = g0[l]
    BY <1>6, <1>7
  <2>2. d # Null => g1[d] = h[d]
    BY <1>3, <1>4, <1>5, <1>7
  <2> QED
    BY <1>6, <2>1, <2>2 DEF GetHeight
<1>9. /\ IsHeap(g) /\ DOMAIN g = DOMAIN g0
      /\ \A m \in DOMAIN g0 : m # n => g[m] = g0[m]
      /\ g[n].value = h[n].value /\ g[n].right = l /\ g[n].left = d
      /\ g[n].height = Taller(b, e) + 1
  <2>1. n \in DOMAIN g1 /\ g1[n].right \in DOMAIN g1 \cup {Null} /\ g1[n].left \in DOMAIN g1 \cup {Null}
    BY <1>3, <1>5, <1>6, <1>7
  <2> QED
    BY <1>7, <1>8, <2>1, RemeasuredIs
<1> HIDE DEF g
<1>10. \A m \in B : m \in DOMAIN g /\ g[m] = h[m]
  BY <1>3, <1>4, <1>5, <1>9
<1>11. /\ IsSubtree(g, l, K) /\ GetHeight(g, l) = e
       /\ IsSubtree(g, d, B) /\ GetHeight(g, d) = b
  <2>1. Keeps(g, g0, K)
    BY <1>4, <1>6, <1>9 DEF Keeps
  <2>2. IsSubtree(g, l, K) /\ GetHeight(g, l) = GetHeight(g0, l)
    BY <1>5, <2>1, SubtreeKept
  <2>3. IsSubtree(g, d, B) /\ GetHeight(g, d) = GetHeight(h, d)
    <3>1. Keeps(g, h, B)
      BY <1>10 DEF Keeps
    <3> QED
      BY <1>1, <3>1, SubtreeKept
  <2> QED
    BY <2>2, <2>3
<1>12. S \cup {key} = K \cup {n} \cup B
  BY <1>1
<1>13. /\ \A m \in DOMAIN h : m \notin S /\ m # key => g[m] = h[m]
       /\ \A m \in DOMAIN h : m # key => g[m].value = h[m].value
       /\ g[key].value = value
  BY <1>1, <1>4, <1>5, <1>9
<1>14. \/ e = a
       \/ /\ e = a + 1
          /\ \/ A = {}
             \/ key < l /\ GetHeight(g, g[l].left) = GetHeight(g, g[l].right) + 1
             \/ l < key /\ GetHeight(g, g[l].right) = GetHeight(g, g[l].left) + 1
  <2>1. g[l] = g0[l]
    BY <1>6, <1>9
  <2>2. PICK P, Q : K = P \cup {l} \cup Q /\ IsSubtree(g0, g0[l].left, P) /\ IsSubtree(g0, g0[l].right, Q)
    <3>1. PICK X, Y : Parts(g0, l, K, X, Y)
      BY <1>5, <1>6, SubtreeParts
    <3> QED
      BY <3>1 DEF Parts
  <2>3. \A c : c = Null \/ c \in K => GetHeight(g, c) = GetHeight(g0, c)
    BY <1>4, <1>6, <1>9 DEF GetHeight
  <2>4. (g0[l].left = Null \/ g0[l].left \in K) /\ (g0[l].right = Null \/ g0[l].right \in K)
    BY <1>5, <2>2, SubtreeRoot
  <2>5. GetHeight(g, g[l].left) = GetHeight(g0, g0[l].left) /\ GetHeight(g, g[l].right) = GetHeight(g0, g0[l].right)
    BY <2>1, <2>3, <2>4
  <2> QED
    BY <1>2, <2>5 DEF IsInserted, l, g0
<1>15. ASSUME e # b + 2 PROVE IsInserted(r, h, n, S, key, value)
  <2>1. e - b \in -1 .. 1 /\ b - e \in -1 .. 1
    BY <1>1, <1>3, <1>6, <1>14, <1>15
  <2>2. r = [root |-> n, heap |-> g]
    BY <1>3, <1>6, <1>9, <1>11, <2>1, StaysBalanced
  <2> HIDE DEF r
  <2>3. IsSubtree(g, n, B \cup {n} \cup K)
    <3> DEFINE y == Taller(b, e) + 1
    <3>1. IsNode(g, n, d, l, y)
      BY <1>5, <1>9 DEF IsNode
    <3>2. IsSubtreeOf(g, l, K, e) /\ IsSubtreeOf(g, d, B, b)
      BY <1>11 DEF IsSubtreeOf
    <3>3. Divides(n, B, K) /\ Balances(b, e, y)
      BY <1>1, <1>4, <2>1 DEF Divides, Balances
    <3> HIDE DEF K, y, e, b, d
    <3> QED
      BY <3>1, <3>2, <3>3, SubtreeNode
  <2>4. IsSubtree(g, n, S \cup {key})
    <3>1. S \cup {key} = B \cup {n} \cup K
      BY <1>12
    <3> QED
      BY <2>3, <3>1
  <2>5. GetHeight(g, n) = Taller(b, e) + 1 /\ GetHeight(h, n) = Taller(b, a) + 1
    BY <1>1, <1>3, <1>9 DEF GetHeight
  <2>6. \/ GetHeight(g, n) = GetHeight(h, n)
        \/ GetHeight(g, n) = GetHeight(h, n) + 1 /\ e = b + 1
    BY <1>1, <1>3, <1>6, <1>14, <2>1, <2>5 DEF Taller
  <2>7. r.root = n /\ r.heap = g /\ g[n].right = l /\ g[n].left = d
    BY <1>9, <2>2
  <2>8. DOMAIN g = DOMAIN h \cup {key}
    BY <1>5, <1>9
  <2> QED
    BY <1>9, <1>11, <1>13, <2>2, <2>4, <2>6, <2>7, <2>8 DEF IsInserted
<1>16. ASSUME e = b + 2 PROVE IsInserted(r, h, n, S, key, value)
  <2>1. e = a + 1 /\ a = b + 1
    BY <1>1, <1>3, <1>6, <1>14, <1>16
  <2>2. A # {}
    BY <1>3, <2>1
  <2>3. \/ l < key /\ GetHeight(g, g[l].right) = GetHeight(g, g[l].left) + 1
        \/ key < l /\ GetHeight(g, g[l].left) = GetHeight(g, g[l].right) + 1
    <3>1. e # a
      BY <1>3, <2>1
    <3> QED
      BY <1>14, <2>2, <3>1
  <2>4. IsRebalanced(r, g, n, K \cup {n} \cup B, GetHeight(g, d) + 2)
    <3>1. IsNode(g, n, d, l, g[n].height)
      BY <1>5, <1>9 DEF IsNode
    <3>2. IsSubtreeOf(g, l, K, b + 2) /\ IsSubtreeOf(g, d, B, b) /\ b \in Nat
      BY <1>3, <1>11, <1>16 DEF IsSubtreeOf
    <3>3. Divides(n, B, K) /\ Leans(g, l, key)
      BY <1>1, <1>4, <2>3 DEF Divides, Leans
    <3> HIDE DEF K, e, b, d
    <3>4. IsRebalanced(r, g, n, K \cup {n} \cup B, b + 2)
      BY <3>1, <3>2, <3>3, RightIsRebalanced
    <3> QED
      BY <1>11, <3>4
  <2> HIDE DEF r
  <2>5. GetHeight(h, n) = b + 2 /\ GetHeight(r.heap, r.root) = b + 2
    <3>1. Taller(b, b + 1) = b + 1
      BY <1>3 DEF Taller
    <3>2. (b + 1) + 1 = b + 2
      BY <1>3
    <3> QED
      BY <1>1, <1>3, <1>11, <2>1, <2>4, <3>1, <3>2 DEF IsRebalanced
  <2>6. /\ r = [root |-> r.root, heap |-> r.heap]
        /\ IsHeap(r.heap) /\ DOMAIN r.heap = DOMAIN g
        /\ \A m \in DOMAIN g : m \notin S \cup {key} => r.heap[m] = g[m]
        /\ \A m \in DOMAIN g : r.heap[m].value = g[m].value
        /\ IsSubtree(r.heap, r.root, S \cup {key})
    BY <1>12, <2>4 DEF IsRebalanced
  <2>7. DOMAIN g = DOMAIN h \cup {key}
    BY <1>5, <1>9
  <2> QED
    BY <1>13, <2>5, <2>6, <2>7 DEF IsInserted
<1> QED
  BY <1>15, <1>16 DEF g, g1, g0, l

-----------------------------------------------------------------------------
(* Walks of a tree                                                         *)

\* A tree is all of its heap.
IsTree(t) ==
  /\ t = [root |-> t.root, heap |-> t.heap]
  /\ IsHeap(t.heap)
  /\ IsSubtree(t.heap, t.root, DOMAIN t.heap)

\* Where a walk can come to.
Pointers(t) == DOMAIN t.heap \cup {Null}

\* The height below each pointer, along which walks are taken apart.
Heights(t) == [n \in Pointers(t) |-> GetHeight(t.heap, n)]

\* A walk goes from a node to its children, which are lower.
LEMMA ChildrenBelow ==
  ASSUME NEW t, IsTree(t), NEW n \in DOMAIN t.heap
  PROVE  /\ n \in Nat /\ n # Null /\ t.heap[n] \in NodeRecs
         /\ t.heap[n].left \in Below(Pointers(t), Heights(t), n)
         /\ t.heap[n].right \in Below(Pointers(t), Heights(t), n)
<1> DEFINE h == t.heap
           l == h[n].left
           r == h[n].right
<1>1. IsHeap(h) /\ IsSubtree(h, t.root, DOMAIN h)
  BY DEF IsTree
<1>2. n \in Nat /\ n # Null /\ h[n] \in NodeRecs
  BY <1>1, NullIs DEF IsHeap
<1>3. PICK S : IsSubtree(h, n, S)
  BY <1>1, EverySubtree
<1>4. PICK A, B : /\ IsSubtree(h, l, A) /\ IsSubtree(h, r, B)
                  /\ h[n].height = Taller(GetHeight(h, l), GetHeight(h, r)) + 1
  <2>1. PICK X, Y : Parts(h, n, S, X, Y)
    BY <1>1, <1>2, <1>3, SubtreeParts
  <2> QED
    BY <2>1 DEF Parts
<1>5. /\ l \in DOMAIN h \cup {Null} /\ GetHeight(h, l) \in Nat
      /\ r \in DOMAIN h \cup {Null} /\ GetHeight(h, r) \in Nat
  BY <1>1, <1>4, SubtreeRoot
<1>6. GetHeight(h, n) = h[n].height
  BY <1>2 DEF GetHeight
<1>7. GetHeight(h, l) < GetHeight(h, n) /\ GetHeight(h, r) < GetHeight(h, n)
  <2> DEFINE a == GetHeight(h, l)
             b == GetHeight(h, r)
  <2>1. a \in Nat /\ b \in Nat /\ GetHeight(h, n) = Taller(a, b) + 1
    BY <1>4, <1>5, <1>6
  <2> HIDE DEF a, b
  <2>2. a < GetHeight(h, n) /\ b < GetHeight(h, n)
    BY <2>1 DEF Taller
  <2> QED
    BY <2>2 DEF a, b
<1>8. /\ n \in Pointers(t) /\ l \in Pointers(t) /\ r \in Pointers(t)
      /\ Heights(t)[n] = GetHeight(h, n) /\ Heights(t)[l] = GetHeight(h, l) /\ Heights(t)[r] = GetHeight(h, r)
  BY <1>5 DEF Pointers, Heights
<1> QED
  BY <1>2, <1>7, <1>8 DEF Below

\* Heights are natural numbers, of the root and of every node.
LEMMA HeightsTyped ==
  ASSUME NEW t, IsTree(t)
  PROVE  /\ Heights(t) \in [Pointers(t) -> Nat]
         /\ t.root \in Pointers(t) /\ Null \in Pointers(t) /\ DOMAIN t.heap \subseteq Pointers(t)
<1>1. IsHeap(t.heap) /\ IsSubtree(t.heap, t.root, DOMAIN t.heap)
  BY DEF IsTree
<1>2. \A n \in Pointers(t) : GetHeight(t.heap, n) \in Nat
  BY <1>1, HeightTyped DEF Pointers
<1>3. t.root = Null \/ t.root \in DOMAIN t.heap
  BY <1>1, SubtreeRoot
<1> QED
  BY <1>2, <1>3 DEF Pointers, Heights

\* Induction over a tree: from the two subtrees of a node to the node.
LEMMA TreeInduction ==
  ASSUME NEW t, IsTree(t), NEW P, Null \in P,
         \A n \in DOMAIN t.heap : t.heap[n].left \in P /\ t.heap[n].right \in P => n \in P
  PROVE  Pointers(t) \subseteq P
<1>1. ASSUME NEW n \in Pointers(t), Below(Pointers(t), Heights(t), n) \subseteq P PROVE n \in P
  <2>1. CASE n = Null
    BY <2>1
  <2>2. CASE n # Null
    <3>1. n \in DOMAIN t.heap
      BY <2>2 DEF Pointers
    <3>2. t.heap[n].left \in P /\ t.heap[n].right \in P
      BY <1>1, <3>1, ChildrenBelow
    <3> QED
      BY <3>1, <3>2
  <2> QED
    BY <2>1, <2>2
<1>2. Progressive(P, Pointers(t), Heights(t))
  BY <1>1 DEF Progressive
<1>3. Heights(t) \in [Pointers(t) -> Nat]
  BY HeightsTyped
<1> QED
  BY <1>2, <1>3, MeasureInduction

\* The root is the highest.
LEMMA HeightsBounded ==
  ASSUME NEW t, IsTree(t)
  PROVE  \A n \in Pointers(t) : Heights(t)[n] < GetHeight(t.heap, t.root) + 1
<1> DEFINE h == t.heap
           P == {n \in Pointers(t) : \A S : IsSubtree(h, n, S) =>
                   \A x \in S : GetHeight(h, x) <= GetHeight(h, n)}
<1>1. IsHeap(h) /\ IsSubtree(h, t.root, DOMAIN h)
  BY DEF IsTree
<1>2. Null \in P
  <2>1. \A S : IsSubtree(h, Null, S) => S = {}
    BY <1>1, SubtreeRoot
  <2> QED
    BY <2>1, HeightsTyped
<1>3. ASSUME NEW n \in DOMAIN h, h[n].left \in P, h[n].right \in P PROVE n \in P
  <2> SUFFICES ASSUME NEW S, IsSubtree(h, n, S), NEW x \in S PROVE GetHeight(h, x) <= GetHeight(h, n)
    BY HeightsTyped
  <2>1. n # Null /\ GetHeight(h, n) = h[n].height
    BY ChildrenBelow DEF GetHeight
  <2>2. PICK A, B : /\ S = A \cup {n} \cup B
                    /\ IsSubtree(h, h[n].left, A) /\ IsSubtree(h, h[n].right, B)
                    /\ h[n].height = Taller(GetHeight(h, h[n].left), GetHeight(h, h[n].right)) + 1
    <3>1. PICK X, Y : Parts(h, n, S, X, Y)
      BY <1>1, <2>1, SubtreeParts
    <3> QED
      BY <3>1 DEF Parts
  <2> DEFINE a == GetHeight(h, h[n].left)
             b == GetHeight(h, h[n].right)
  <2>3. a \in Nat /\ b \in Nat /\ GetHeight(h, n) = Taller(a, b) + 1
    BY <1>1, <2>1, <2>2, SubtreeRoot
  <2>4. (\A y \in A : GetHeight(h, y) <= a) /\ (\A y \in B : GetHeight(h, y) <= b)
    BY <1>3, <2>2
  <2> HIDE DEF a, b, P
  <2>5. x \in DOMAIN h /\ GetHeight(h, x) \in Nat
    BY <1>1, SubtreeRoot, HeightTyped
  <2>6. CASE x \in A
    <3>1. GetHeight(h, x) <= a
      BY <2>4, <2>6
    <3> QED
      BY <2>3, <2>5, <3>1 DEF Taller
  <2>7. CASE x \in B
    <3>1. GetHeight(h, x) <= b
      BY <2>4, <2>7
    <3> QED
      BY <2>3, <2>5, <3>1 DEF Taller
  <2>8. CASE x = n
    BY <2>5, <2>8
  <2> QED
    BY <2>2, <2>6, <2>7, <2>8
<1>4. Pointers(t) \subseteq P
  <2> HIDE DEF P
  <2> QED
    BY <1>2, <1>3, TreeInduction
<1>5. \A x \in DOMAIN h : GetHeight(h, x) <= GetHeight(h, t.root)
  BY <1>1, <1>4, HeightsTyped
<1>6. ASSUME NEW n \in Pointers(t) PROVE Heights(t)[n] < GetHeight(h, t.root) + 1
  <2>1. /\ Heights(t)[n] = GetHeight(h, n) /\ GetHeight(h, n) \in Nat /\ GetHeight(h, t.root) \in Nat
    BY <1>1, HeightTyped, HeightsTyped DEF Heights, Pointers
  <2>2. GetHeight(h, n) <= GetHeight(h, t.root)
    <3>1. CASE n = Null
      <4>1. GetHeight(h, n) = 0
        BY <3>1 DEF GetHeight
      <4> QED
        BY <2>1, <4>1
    <3>2. CASE n # Null
      BY <1>5, <3>2 DEF Pointers
    <3> QED
      BY <3>1, <3>2
  <2> QED
    BY <2>1, <2>2
<1> QED
  BY <1>6

\* F makes a value of a node from the values of its children, and f is a solution.
IsTreeStep(F, t, V) == \A n \in DOMAIN t.heap : \A a, b \in V : F[<<n, a, b>>] \in V

\* f has a base below null pointers, and what F makes of its own values elsewhere.
SolvesTree(f, F, t, base) ==
  \A n \in Pointers(t) :
    f[n] = IF n = Null THEN base ELSE F[<<n, f[t.heap[n].left], f[t.heap[n].right]>>]

\* A function of a node and of its own values at the two children has a solution.
LEMMA TreeRecursion ==
  ASSUME NEW t, IsTree(t), NEW V, NEW base \in V, NEW F, IsTreeStep(F, t, V)
  PROVE  \E f \in [Pointers(t) -> V] : SolvesTree(f, F, t, base)
<1>0. \A n \in DOMAIN t.heap : \A x, y \in V : F[<<n, x, y>>] \in V
  BY DEF IsTreeStep
<1> DEFINE D == Pointers(t)
           m == Heights(t)
           bound == GetHeight(t.heap, t.root) + 1
           Body(f, n) == IF n = Null THEN base ELSE F[<<n, f[t.heap[n].left], f[t.heap[n].right]>>]
           Step == [n \in D |-> [g \in [Below(D, m, n) -> V] |-> Body(g, n)]]
<1>1. m \in [D -> Nat] /\ bound \in Nat /\ \A n \in D : m[n] < bound
  <2>1. m \in [D -> Nat] /\ t.root \in D /\ \A n \in D : m[n] < bound
    BY HeightsTyped, HeightsBounded
  <2>2. m[t.root] = GetHeight(t.heap, t.root)
    BY <2>1 DEF Heights
  <2>3. m[t.root] \in Nat
    BY <2>1
  <2> QED
    BY <2>1, <2>2, <2>3
<1>2. ASSUME NEW n \in D, n # Null
      PROVE  t.heap[n].left \in Below(D, m, n) /\ t.heap[n].right \in Below(D, m, n) /\ n \in DOMAIN t.heap
  <2>1. n \in DOMAIN t.heap
    BY <1>2 DEF Pointers
  <2> QED
    BY <2>1, ChildrenBelow
<1> HIDE DEF D, m, bound
<1>3. IsStep(Step, D, V, m)
  <2>1. ASSUME NEW n \in D, NEW g \in [Below(D, m, n) -> V] PROVE Step[n][g] \in V
    <3>1. Body(g, n) \in V
      <4>1. CASE n = Null
        BY <4>1
      <4>2. CASE n # Null
        <5>1. g[t.heap[n].left] \in V /\ g[t.heap[n].right] \in V /\ n \in DOMAIN t.heap
          BY <1>2, <4>2
        <5>2. F[<<n, g[t.heap[n].left], g[t.heap[n].right]>>] \in V
          BY <1>0, <5>1
        <5> QED
          BY <4>2, <5>2
      <4> QED
        BY <4>1, <4>2
    <3>2. Step[n][g] = Body(g, n)
      <4> HIDE DEF Body
      <4> QED
        OBVIOUS
    <3> QED
      BY <3>1, <3>2
  <2> QED
    BY <2>1 DEF IsStep
<1>4. PICK f \in [D -> V] : Solves(f, Step, D, m)
  <2> HIDE DEF Step
  <2> QED
    BY <1>1, <1>3, BoundedRecursion
<1>5. ASSUME NEW n \in D PROVE f[n] = Body(f, n)
  <2> DEFINE r == [x \in Below(D, m, n) |-> f[x]]
  <2>1. r \in [Below(D, m, n) -> V]
    BY DEF Below
  <2>2. f[n] = Step[n][r]
    BY <1>4 DEF Solves
  <2>3. f[n] = Body(r, n)
    <3> HIDE DEF Body, r
    <3> QED
      BY <2>1, <2>2
  <2>4. n # Null => r[t.heap[n].left] = f[t.heap[n].left] /\ r[t.heap[n].right] = f[t.heap[n].right]
    BY <1>2
  <2> HIDE DEF r
  <2> QED
    BY <2>3, <2>4
<1> QED
  BY <1>5 DEF D, SolvesTree

\* The entry of a key, and the entries of the keys of a subtree.
EntryOf(h, k) == [key |-> k, value |-> h[k].value]

EntriesOf(h, S) == {EntryOf(h, k) : k \in S}

\* One entry is a run.
LEMMA RunOfOne ==
  ASSUME NEW e \in Entry
  PROVE  <<e>> \in Seq(Entry) /\ KeysGoUp(<<e>>) /\ Contents(<<e>>) = {e}
<1>1. DOMAIN <<e>> = {1} /\ <<e>>[1] = e
  OBVIOUS
<1>2. KeysGoUp(<<e>>)
  BY <1>1 DEF KeysGoUp
<1>3. Contents(<<e>>) = {e}
  BY <1>1 DEF Contents
<1> QED
  BY <1>2, <1>3

\* No entries are a run.
LEMMA RunOfNone == <<>> \in Seq(Entry) /\ KeysGoUp(<<>>) /\ Contents(<<>>) = {}
  BY DEF KeysGoUp, Contents

\* The keys of s come before those of u.
Precedes(s, u) == \A d \in Contents(s), e \in Contents(u) : d.key < e.key

\* Three runs, one after the other, are a run.
LEMMA ThreeRuns ==
  ASSUME NEW a \in Seq(Entry), NEW b \in Seq(Entry), NEW c \in Seq(Entry),
         KeysGoUp(a), KeysGoUp(b), KeysGoUp(c),
         Precedes(a, b), Precedes(a, c), Precedes(b, c)
  PROVE  /\ a \o b \o c \in Seq(Entry) /\ KeysGoUp(a \o b \o c)
         /\ Contents(a \o b \o c) = Contents(a) \cup Contents(b) \cup Contents(c)
<1> DEFINE s == a \o b
<1>1. s \in Seq(Entry) /\ KeysGoUp(s) /\ Contents(s) = Contents(a) \cup Contents(b)
  BY ConcatRuns DEF Precedes
<1> HIDE DEF s
<1>2. \A d \in Contents(s), e \in Contents(c) : d.key < e.key
  BY <1>1 DEF Precedes
<1>3. s \o c \in Seq(Entry) /\ KeysGoUp(s \o c) /\ Contents(s \o c) = Contents(s) \cup Contents(c)
  BY <1>1, <1>2, ConcatRuns
<1> QED
  BY <1>1, <1>3 DEF s

\* What the walks read at a node of a tree.
LEMMA SubtreeEntries ==
  ASSUME NEW t, IsTree(t), DOMAIN t.heap \subseteq 0 .. INVALID_VALUE,
         NEW n \in DOMAIN t.heap, NEW S, IsSubtree(t.heap, n, S)
  PROVE  /\ n \in 0 .. INVALID_VALUE /\ EntryOf(t.heap, n) \in Entry
         /\ \E A, B : Parts(t.heap, n, S, A, B)
<1>1. IsHeap(t.heap) /\ n # Null /\ t.heap[n] \in NodeRecs
  BY ChildrenBelow DEF IsTree
<1>2. n \in 0 .. INVALID_VALUE /\ EntryOf(t.heap, n) \in Entry
  BY <1>1 DEF NodeRecs, EntryOf, Entry
<1>3. \E A, B : Parts(t.heap, n, S, A, B)
  BY <1>1, SubtreeParts
<1> QED
  BY <1>2, <1>3

\* extract_leaf_nodes_from_avl, one node: the entries of the left subtree, that
\* of the node, the entries of the right subtree.
WalkBody(f, h, n) ==
  IF n = Null THEN <<>>
  ELSE f[h[n].left] \o <<[key |-> n, value |-> h[n].value]>> \o f[h[n].right]

\* The walk of a tree ends.
LEMMA InOrderUnfolds ==
  ASSUME NEW t, IsTree(t), DOMAIN t.heap \subseteq 0 .. INVALID_VALUE
  PROVE  \E f : /\ InOrder(t) = f[t.root]
                /\ \A n \in Pointers(t) : f[n] = WalkBody(f, t.heap, n)
<1> DEFINE h == t.heap
           V == Seq(Entry)
           F == [p \in (DOMAIN h) \X V \X V |-> p[2] \o <<EntryOf(h, p[1])>> \o p[3]]
           walk == CHOOSE f : f = [n \in DOMAIN h \cup {Null} |-> WalkBody(f, h, n)]
<1>1. ASSUME NEW n \in DOMAIN h, NEW a \in V, NEW b \in V
      PROVE  F[<<n, a, b>>] \in V /\ F[<<n, a, b>>] = a \o <<EntryOf(h, n)>> \o b
  <2>1. h[n] \in NodeRecs /\ n \in 0 .. INVALID_VALUE
    BY ChildrenBelow
  <2>2. EntryOf(h, n) \in Entry
    BY <2>1 DEF NodeRecs, EntryOf, Entry
  <2>3. F[<<n, a, b>>] = a \o <<EntryOf(h, n)>> \o b
    OBVIOUS
  <2>4. a \o <<EntryOf(h, n)>> \o b \in V
    <3> DEFINE e == EntryOf(h, n)
    <3>1. e \in Entry
      BY <2>2
    <3> HIDE DEF e
    <3>2. <<e>> \in V
      BY <3>1
    <3>3. a \o <<e>> \in V
      BY <3>2
    <3>4. a \o <<e>> \o b \in V
      BY <3>3
    <3> QED
      BY <3>4 DEF e
  <2> QED
    BY <2>3, <2>4
<1>2. <<>> \in V
  OBVIOUS
<1> HIDE DEF V, F
<1>3. PICK f \in [Pointers(t) -> V] :
        \A n \in Pointers(t) : f[n] = IF n = Null THEN <<>> ELSE F[<<n, f[h[n].left], f[h[n].right]>>]
  <2>1. IsTreeStep(F, t, V)
    BY <1>1 DEF IsTreeStep
  <2>2. PICK f \in [Pointers(t) -> V] : SolvesTree(f, F, t, <<>>)
    BY <1>2, <2>1, TreeRecursion
  <2> QED
    BY <2>2 DEF SolvesTree
<1>4. ASSUME NEW n \in Pointers(t) PROVE f[n] = WalkBody(f, h, n)
  <2>1. CASE n = Null
    BY <1>3, <2>1 DEF WalkBody
  <2>2. CASE n # Null
    <3>1. n \in DOMAIN h
      BY <2>2 DEF Pointers
    <3>2. h[n].left \in Pointers(t) /\ h[n].right \in Pointers(t)
      BY <3>1, ChildrenBelow DEF Below
    <3>3. f[h[n].left] \in V /\ f[h[n].right] \in V
      BY <1>3, <3>2
    <3>4. F[<<n, f[h[n].left], f[h[n].right]>>] = f[h[n].left] \o <<EntryOf(h, n)>> \o f[h[n].right]
      BY <1>1, <3>1, <3>3
    <3> QED
      BY <1>3, <2>2, <3>4 DEF WalkBody, EntryOf
  <2> QED
    BY <2>1, <2>2
<1>5. f = [n \in DOMAIN h \cup {Null} |-> WalkBody(f, h, n)]
  <2>1. f = [n \in Pointers(t) |-> f[n]]
    BY <1>3
  <2>2. [n \in Pointers(t) |-> f[n]] = [n \in Pointers(t) |-> WalkBody(f, h, n)]
    BY <1>4
  <2> QED
    BY <2>1, <2>2 DEF Pointers
<1>6. walk = [n \in DOMAIN h \cup {Null} |-> WalkBody(walk, h, n)]
  <2> HIDE DEF h
  <2> QED
    BY <1>5
<1>7. InOrder(t) = walk[t.root]
  BY DEF InOrder, WalkBody
<1> HIDE DEF walk
<1> QED
  BY <1>6, <1>7 DEF Pointers

\* The walk of a tree is the run of its entries.
LEMMA InOrderIs ==
  ASSUME NEW t, IsTree(t), DOMAIN t.heap \subseteq 0 .. INVALID_VALUE
  PROVE  /\ InOrder(t) \in Seq(Entry) /\ KeysGoUp(InOrder(t))
         /\ Contents(InOrder(t)) = EntriesOf(t.heap, DOMAIN t.heap)
<1> DEFINE h == t.heap
           OK(s, S) == s \in Seq(Entry) /\ KeysGoUp(s) /\ Contents(s) = EntriesOf(h, S)
<1>1. PICK f : /\ InOrder(t) = f[t.root]
               /\ \A n \in Pointers(t) : f[n] = WalkBody(f, h, n)
  BY InOrderUnfolds
<1> DEFINE P == {n \in Pointers(t) : \A S : IsSubtree(h, n, S) => OK(f[n], S)}
<1>2. Null \in P
  <2>1. ASSUME NEW S, IsSubtree(h, Null, S) PROVE OK(f[Null], S)
    <3>1. S = {}
      BY <2>1, SubtreeRoot DEF IsTree
    <3>2. f[Null] = <<>>
      BY <1>1, HeightsTyped DEF WalkBody
    <3> QED
      BY <3>1, <3>2, RunOfNone DEF EntriesOf
  <2> QED
    BY <2>1, HeightsTyped
<1>3. ASSUME NEW n \in DOMAIN h, h[n].left \in P, h[n].right \in P PROVE n \in P
  <2> SUFFICES ASSUME NEW S, IsSubtree(h, n, S) PROVE OK(f[n], S)
    BY HeightsTyped
  <2> DEFINE a == f[h[n].left]
             b == f[h[n].right]
             e == EntryOf(h, n)
  <2>1. f[n] = a \o <<e>> \o b
    <3>1. n \in Pointers(t) /\ n # Null
      BY ChildrenBelow, HeightsTyped
    <3> QED
      BY <1>1, <3>1 DEF WalkBody, EntryOf
  <2>2. e \in Entry
    BY SubtreeEntries
  <2>3. PICK A, B : /\ IsSubtree(h, h[n].left, A) /\ IsSubtree(h, h[n].right, B)
                    /\ S = A \cup {n} \cup B
                    /\ A \subseteq Nat /\ B \subseteq Nat
                    /\ \A x \in A : x < n
                    /\ \A x \in B : n < x
    <3>1. PICK A, B : Parts(h, n, S, A, B)
      BY SubtreeEntries
    <3> QED
      BY <3>1 DEF Parts
  <2>4. OK(a, A) /\ OK(b, B)
    BY <1>3, <2>3
  <2>5. e.key = n
    BY DEF EntryOf
  <2>6. /\ \A d \in EntriesOf(h, A) : d.key \in A
        /\ \A d \in EntriesOf(h, B) : d.key \in B
    BY DEF EntriesOf, EntryOf
  <2>7. EntriesOf(h, S) = EntriesOf(h, A) \cup {e} \cup EntriesOf(h, B)
    BY <2>3 DEF EntriesOf
  <2> HIDE DEF a, b, e
  <2>8. <<e>> \in Seq(Entry) /\ KeysGoUp(<<e>>) /\ Contents(<<e>>) = {e}
    BY <2>2, RunOfOne
  <2>9. /\ \A d \in Contents(a), c \in Contents(<<e>>) : d.key < c.key
        /\ \A d \in Contents(<<e>>), c \in Contents(b) : d.key < c.key
    BY <2>3, <2>4, <2>5, <2>6, <2>8
  <2>10. \A d \in Contents(a), c \in Contents(b) : d.key < c.key
    <3>1. \A x \in A, y \in B : x < y
      <4>1. n \in Nat
        BY ChildrenBelow
      <4> QED
        BY <2>3, <4>1
    <3> QED
      BY <2>4, <2>6, <3>1
  <2> DEFINE c == <<e>>
  <2>11. c \in Seq(Entry) /\ KeysGoUp(c) /\ Contents(c) = {e}
    BY <2>8
  <2>12. /\ \A d \in Contents(a), x \in Contents(c) : d.key < x.key
         /\ \A d \in Contents(c), x \in Contents(b) : d.key < x.key
    BY <2>9
  <2>13. f[n] = a \o c \o b
    BY <2>1
  <2> HIDE DEF c
  <2>14. /\ a \o c \o b \in Seq(Entry) /\ KeysGoUp(a \o c \o b)
         /\ Contents(a \o c \o b) = Contents(a) \cup Contents(c) \cup Contents(b)
    <3>1. Precedes(a, c) /\ Precedes(a, b) /\ Precedes(c, b)
      BY <2>10, <2>12 DEF Precedes
    <3> QED
      BY <2>4, <2>11, <3>1, ThreeRuns
  <2> QED
    BY <2>4, <2>7, <2>11, <2>13, <2>14
<1>4. Pointers(t) \subseteq P
  <2> HIDE DEF P
  <2> QED
    BY <1>2, <1>3, TreeInduction
<1>5. OK(f[t.root], DOMAIN h)
  <2>1. t.root \in P /\ IsSubtree(h, t.root, DOMAIN h)
    BY <1>4, HeightsTyped DEF IsTree
  <2> HIDE DEF OK
  <2> QED
    BY <2>1
<1> QED
  BY <1>1, <1>5

\* Two runs of the same entries are one.
LEMMA RunsAgree ==
  ASSUME NEW s \in Seq(Entry), NEW u \in Seq(Entry), KeysGoUp(s), KeysGoUp(u), Contents(s) \subseteq Contents(u),
         Contents(u) \subseteq Contents(s), NEW i \in 1 .. Len(s)
  PROVE  i \in 1 .. Len(u) /\ u[i] = s[i]
<1> DEFINE P == {n \in Nat : \A j \in 1 .. n : j <= Len(s) => j <= Len(u) /\ u[j] = s[j]}
<1>0. /\ Len(s) \in Nat /\ Len(u) \in Nat /\ DOMAIN s = 1 .. Len(s) /\ DOMAIN u = 1 .. Len(u)
      /\ \A j \in 1 .. Len(s) : s[j] \in Entry /\ s[j].key \in Int
      /\ \A j \in 1 .. Len(u) : u[j] \in Entry /\ u[j].key \in Int
  <2>1. /\ Len(s) \in Nat /\ Len(u) \in Nat /\ DOMAIN s = 1 .. Len(s) /\ DOMAIN u = 1 .. Len(u)
        /\ \A j \in 1 .. Len(s) : s[j] \in Entry
        /\ \A j \in 1 .. Len(u) : u[j] \in Entry
    OBVIOUS
  <2>2. \A e \in Entry : e.key \in Int
    BY DEF Entry
  <2> QED
    BY <2>1, <2>2
<1>1. 0 \in P
  OBVIOUS
<1>2. ASSUME NEW n \in Nat, n \in P PROVE n + 1 \in P
  <2> DEFINE k == n + 1
  <2> SUFFICES ASSUME k <= Len(s) PROVE k <= Len(u) /\ u[k] = s[k]
    <3>1. \A j \in 1 .. n + 1 : j = k \/ j \in 1 .. n
      OBVIOUS
    <3> QED
      BY <1>2, <3>1
  <2>1. k \in 1 .. Len(s) /\ k = n + 1
    BY <1>0
  <2>2. \A j \in 1 .. n : j <= Len(s) => j <= Len(u) /\ u[j] = s[j]
    BY <1>2
  <2> HIDE DEF k
  <2>3. PICK x \in 1 .. Len(u) : u[x] = s[k]
    BY <1>0, <2>1 DEF Contents
  <2>4. x >= k
    <3>1. SUFFICES ASSUME x < k PROVE FALSE
      BY <2>1, <2>3
    <3>2. x \in 1 .. n /\ x \in 1 .. Len(s)
      <4>1. x \in Int /\ k \in Int /\ Len(s) \in Int /\ 1 <= x /\ k <= Len(s) /\ k = n + 1
        BY <1>0, <2>1
      <4> QED
        BY <3>1, <4>1
    <3>3. s[x] = s[k] /\ s[x].key < s[k].key
      <4>1. u[x] = s[x]
        BY <2>2, <3>2
      <4>2. s[x].key < s[k].key
        BY <1>0, <2>1, <3>1, <3>2 DEF KeysGoUp
      <4> QED
        BY <2>3, <4>1, <4>2
    <3> QED
      BY <1>0, <3>2, <3>3
  <2>5. k \in 1 .. Len(u)
    BY <1>0, <2>1, <2>3, <2>4
  <2>6. PICK y \in 1 .. Len(s) : s[y] = u[k]
    BY <1>0, <2>5 DEF Contents
  <2>7. y >= k
    <3>1. SUFFICES ASSUME y < k PROVE FALSE
      BY <2>1, <2>6
    <3>2. y \in 1 .. n /\ y \in 1 .. Len(s) /\ y <= Len(s)
      <4>1. y \in Int /\ k \in Int /\ Len(s) \in Int /\ 1 <= y /\ y <= Len(s) /\ k = n + 1
        BY <1>0, <2>1
      <4> QED
        BY <3>1, <4>1
    <3>4. y \in 1 .. Len(u) /\ u[y] = s[y]
      <4>1. y <= Len(u) /\ u[y] = s[y]
        BY <2>2, <3>2
      <4> QED
        BY <1>0, <3>2, <4>1
    <3>3. u[y] = u[k] /\ u[y].key < u[k].key
      BY <1>0, <2>5, <2>6, <3>1, <3>4 DEF KeysGoUp
    <3> QED
      BY <1>0, <3>3, <3>4
  <2>8. CASE x = k
    BY <2>3, <2>5, <2>8
  <2>9. CASE x # k
    <3>1. k < x
      BY <2>1, <2>3, <2>4, <2>9
    <3>2. u[k].key < s[k].key
      BY <1>0, <2>3, <2>5, <3>1 DEF KeysGoUp
    <3>3. s[k].key <= u[k].key
      <4>1. CASE y = k
        BY <1>0, <2>1, <2>6, <4>1
      <4>2. CASE y # k
        <5>1. k < y
          BY <2>1, <2>6, <2>7, <4>2
        <5>2. s[k].key < s[y].key
          BY <1>0, <2>1, <2>6, <5>1 DEF KeysGoUp
        <5> QED
          BY <1>0, <2>1, <2>5, <2>6, <5>2
      <4> QED
        BY <4>1, <4>2
    <3> QED
      BY <1>0, <2>1, <2>5, <3>2, <3>3
  <2> QED
    BY <2>8, <2>9 DEF k
<1>3. i \in Nat /\ i \in 1 .. i
  OBVIOUS
<1>4. i \in P
  <2> HIDE DEF P
  <2> QED
    BY <1>1, <1>2, <1>3, InductionOnNat
<1> QED
  BY <1>0, <1>3, <1>4

\* Two runs of the same entries are the same.
LEMMA RunsEqual ==
  ASSUME NEW s \in Seq(Entry), NEW u \in Seq(Entry), KeysGoUp(s), KeysGoUp(u), Contents(s) = Contents(u)
  PROVE  s = u
<1>1. \A i \in 1 .. Len(s) : i \in 1 .. Len(u) /\ u[i] = s[i]
  BY RunsAgree
<1>2. \A i \in 1 .. Len(u) : i \in 1 .. Len(s)
  BY RunsAgree
<1>3. Len(s) \in Nat /\ Len(u) \in Nat /\ s = [i \in 1 .. Len(s) |-> s[i]] /\ u = [i \in 1 .. Len(u) |-> u[i]]
  OBVIOUS
<1>4. 1 .. Len(s) = 1 .. Len(u)
  BY <1>1, <1>2
<1> QED
  BY <1>1, <1>3, <1>4

\* get, at one node.
FindBody(f, h, key, n) ==
  IF n = Null THEN INVALID_VALUE
  ELSE IF key < n THEN f[h[n].left]
  ELSE IF key > n THEN f[h[n].right]
  ELSE h[n].value

\* The recursion of GetValue has a solution, and GetValue is its value at the root.
LEMMA GetValueUnfolds ==
  ASSUME NEW t, IsTree(t), NEW key \in Nat
  PROVE  \E f : /\ GetValue(t, key) = f[t.root]
                /\ \A n \in Pointers(t) : f[n] = FindBody(f, t.heap, key, n)
<1> DEFINE h == t.heap
           V == 0 .. INVALID_VALUE
           F == [p \in (DOMAIN h) \X V \X V |->
                   IF key < p[1] THEN p[2] ELSE IF key > p[1] THEN p[3] ELSE h[p[1]].value]
           find == CHOOSE f : f = [n \in DOMAIN h \cup {Null} |-> FindBody(f, h, key, n)]
<1>1. ASSUME NEW n \in DOMAIN h, NEW a \in V, NEW b \in V
      PROVE  F[<<n, a, b>>] \in V /\ F[<<n, a, b>>] = IF key < n THEN a ELSE IF key > n THEN b ELSE h[n].value
  <2>1. h[n].value \in V
    BY ChildrenBelow DEF NodeRecs
  <2>2. F[<<n, a, b>>] = IF key < n THEN a ELSE IF key > n THEN b ELSE h[n].value
    OBVIOUS
  <2> HIDE DEF F
  <2> QED
    BY <2>1, <2>2
<1>2. INVALID_VALUE \in V
  BY BTreeAssumption
<1> HIDE DEF V, F
<1>3. PICK f \in [Pointers(t) -> V] :
        \A n \in Pointers(t) :
          f[n] = IF n = Null THEN INVALID_VALUE ELSE F[<<n, f[h[n].left], f[h[n].right]>>]
  <2>1. IsTreeStep(F, t, V)
    BY <1>1 DEF IsTreeStep
  <2>2. PICK f \in [Pointers(t) -> V] : SolvesTree(f, F, t, INVALID_VALUE)
    BY <1>2, <2>1, TreeRecursion
  <2> QED
    BY <2>2 DEF SolvesTree
<1>4. ASSUME NEW n \in Pointers(t) PROVE f[n] = FindBody(f, h, key, n)
  <2>1. CASE n = Null
    BY <1>3, <2>1 DEF FindBody
  <2>2. CASE n # Null
    <3>1. n \in DOMAIN h
      BY <2>2 DEF Pointers
    <3>2. h[n].left \in Pointers(t) /\ h[n].right \in Pointers(t)
      BY <3>1, ChildrenBelow DEF Below
    <3>3. f[h[n].left] \in V /\ f[h[n].right] \in V
      BY <1>3, <3>2
    <3>4. F[<<n, f[h[n].left], f[h[n].right]>>]
            = IF key < n THEN f[h[n].left] ELSE IF key > n THEN f[h[n].right] ELSE h[n].value
      BY <1>1, <3>1, <3>3
    <3> QED
      BY <1>3, <2>2, <3>4 DEF FindBody
  <2> QED
    BY <2>1, <2>2
<1>5. f = [n \in DOMAIN h \cup {Null} |-> FindBody(f, h, key, n)]
  <2>1. f = [n \in Pointers(t) |-> f[n]]
    BY <1>3
  <2>2. [n \in Pointers(t) |-> f[n]] = [n \in Pointers(t) |-> FindBody(f, h, key, n)]
    BY <1>4
  <2> QED
    BY <2>1, <2>2 DEF Pointers
<1>6. find = [n \in DOMAIN h \cup {Null} |-> FindBody(find, h, key, n)]
  <2> HIDE DEF h
  <2> QED
    BY <1>5
<1>7. GetValue(t, key) = find[t.root]
  BY DEF GetValue, FindBody
<1> HIDE DEF find
<1> QED
  BY <1>6, <1>7 DEF Pointers

\* get finds the value of a key that the tree has, and nothing for any other.
LEMMA GetValueIs ==
  ASSUME NEW t, IsTree(t), NEW key \in Nat
  PROVE  GetValue(t, key) = IF key \in DOMAIN t.heap THEN t.heap[key].value ELSE INVALID_VALUE
<1> DEFINE h == t.heap
           Found(S) == IF key \in S THEN h[key].value ELSE INVALID_VALUE
<1>1. PICK f : /\ GetValue(t, key) = f[t.root]
               /\ \A n \in Pointers(t) : f[n] = FindBody(f, h, key, n)
  BY GetValueUnfolds
<1> DEFINE P == {n \in Pointers(t) : \A S : IsSubtree(h, n, S) => f[n] = Found(S)}
<1>2. Null \in P
  <2>1. ASSUME NEW S, IsSubtree(h, Null, S) PROVE f[Null] = Found(S)
    <3>1. S = {}
      BY <2>1, SubtreeRoot DEF IsTree
    <3>2. f[Null] = INVALID_VALUE
      BY <1>1, HeightsTyped DEF FindBody
    <3> QED
      BY <3>1, <3>2
  <2> HIDE DEF Found
  <2> QED
    BY <2>1, HeightsTyped
<1>3. ASSUME NEW n \in DOMAIN h, h[n].left \in P, h[n].right \in P PROVE n \in P
  <2> SUFFICES ASSUME NEW S, IsSubtree(h, n, S) PROVE f[n] = Found(S)
    BY HeightsTyped
  <2>1. n \in Pointers(t) /\ n # Null /\ n \in Nat
    BY ChildrenBelow, HeightsTyped
  <2>2. f[n] = FindBody(f, h, key, n)
    BY <1>1, <2>1
  <2>3. PICK A, B : /\ IsSubtree(h, h[n].left, A) /\ IsSubtree(h, h[n].right, B)
                    /\ S = A \cup {n} \cup B
                    /\ \A x \in A : x < n
                    /\ \A x \in B : n < x
    <3>1. PICK X, Y : Parts(h, n, S, X, Y)
      BY <2>1, SubtreeParts DEF IsTree
    <3> QED
      BY <3>1 DEF Parts
  <2>4. A \subseteq Nat /\ B \subseteq Nat
    BY <2>3, SubtreeRoot DEF IsTree
  <2>5. f[h[n].left] = Found(A) /\ f[h[n].right] = Found(B)
    BY <1>3, <2>3
  <2>6. CASE key < n
    <3>1. key \notin B /\ key # n
      BY <2>1, <2>3, <2>6
    <3>2. Found(S) = Found(A)
      BY <2>3, <3>1
    <3> QED
      BY <2>1, <2>2, <2>5, <2>6, <3>2 DEF FindBody
  <2>7. CASE n < key
    <3>1. key \notin A /\ key # n /\ ~ (key < n)
      BY <2>1, <2>3, <2>7
    <3>2. Found(S) = Found(B)
      BY <2>3, <3>1
    <3> QED
      BY <2>1, <2>2, <2>5, <2>7, <3>1, <3>2 DEF FindBody
  <2>8. CASE key = n
    <3>1. ~ (key < n) /\ ~ (key > n)
      BY <2>1, <2>8
    <3>2. Found(S) = h[n].value
      BY <2>3, <2>8
    <3> QED
      BY <2>1, <2>2, <3>1, <3>2 DEF FindBody
  <2> QED
    BY <2>1, <2>6, <2>7, <2>8
<1>4. Pointers(t) \subseteq P
  <2> HIDE DEF P
  <2> QED
    BY <1>2, <1>3, TreeInduction
<1>5. f[t.root] = Found(DOMAIN h)
  <2>1. t.root \in P /\ IsSubtree(h, t.root, DOMAIN h)
    BY <1>4, HeightsTyped DEF IsTree
  <2> HIDE DEF Found
  <2> QED
    BY <2>1
<1> QED
  BY <1>1, <1>5

\* scan_memtable, at one node.
ScanBody(f, h, start_key, end_key, n) ==
  IF n = Null THEN <<>>
  ELSE (IF start_key < n THEN f[h[n].left] ELSE <<>>) \o
       (IF start_key <= n /\ n <= end_key THEN <<[key |-> n, value |-> h[n].value]>> ELSE <<>>) \o
       (IF n < end_key THEN f[h[n].right] ELSE <<>>)

\* So has that of ScanTree.
LEMMA ScanTreeUnfolds ==
  ASSUME NEW t, IsTree(t), DOMAIN t.heap \subseteq 0 .. INVALID_VALUE, NEW start_key, NEW end_key
  PROVE  \E f : /\ ScanTree(t, start_key, end_key) = f[t.root]
                /\ \A n \in Pointers(t) : f[n] = ScanBody(f, t.heap, start_key, end_key, n)
<1> DEFINE h == t.heap
           V == Seq(Entry)
           L(n, a) == IF start_key < n THEN a ELSE <<>>
           M(n) == IF start_key <= n /\ n <= end_key THEN <<EntryOf(h, n)>> ELSE <<>>
           R(n, b) == IF n < end_key THEN b ELSE <<>>
           F == [p \in (DOMAIN h) \X V \X V |-> L(p[1], p[2]) \o M(p[1]) \o R(p[1], p[3])]
           scan == CHOOSE f : f = [n \in DOMAIN h \cup {Null} |-> ScanBody(f, h, start_key, end_key, n)]
<1>1. ASSUME NEW n \in DOMAIN h, NEW a \in V, NEW b \in V
      PROVE  F[<<n, a, b>>] \in V /\ F[<<n, a, b>>] = L(n, a) \o M(n) \o R(n, b)
  <2>1. h[n] \in NodeRecs /\ n \in 0 .. INVALID_VALUE
    BY ChildrenBelow
  <2>2. EntryOf(h, n) \in Entry
    BY <2>1 DEF NodeRecs, EntryOf, Entry
  <2>3. F[<<n, a, b>>] = L(n, a) \o M(n) \o R(n, b)
    <3> HIDE DEF L, M, R
    <3> QED
      OBVIOUS
  <2>4. L(n, a) \in V /\ M(n) \in V /\ R(n, b) \in V
    BY <2>2
  <2> HIDE DEF L, M, R, F
  <2>5. L(n, a) \o M(n) \in V
    BY <2>4
  <2>6. L(n, a) \o M(n) \o R(n, b) \in V
    BY <2>4, <2>5
  <2> QED
    BY <2>3, <2>6
<1>2. <<>> \in V
  OBVIOUS
<1> HIDE DEF V, F
<1>3. PICK f \in [Pointers(t) -> V] :
        \A n \in Pointers(t) : f[n] = IF n = Null THEN <<>> ELSE F[<<n, f[h[n].left], f[h[n].right]>>]
  <2>1. IsTreeStep(F, t, V)
    BY <1>1 DEF IsTreeStep
  <2>2. PICK f \in [Pointers(t) -> V] : SolvesTree(f, F, t, <<>>)
    BY <1>2, <2>1, TreeRecursion
  <2> QED
    BY <2>2 DEF SolvesTree
<1>4. ASSUME NEW n \in Pointers(t) PROVE f[n] = ScanBody(f, h, start_key, end_key, n)
  <2>1. CASE n = Null
    BY <1>3, <2>1 DEF ScanBody
  <2>2. CASE n # Null
    <3>1. n \in DOMAIN h
      BY <2>2 DEF Pointers
    <3>2. h[n].left \in Pointers(t) /\ h[n].right \in Pointers(t)
      BY <3>1, ChildrenBelow DEF Below
    <3>3. f[h[n].left] \in V /\ f[h[n].right] \in V
      BY <1>3, <3>2
    <3>4. F[<<n, f[h[n].left], f[h[n].right]>>] = L(n, f[h[n].left]) \o M(n) \o R(n, f[h[n].right])
      BY <1>1, <3>1, <3>3
    <3> QED
      BY <1>3, <2>2, <3>4 DEF ScanBody, EntryOf
  <2> QED
    BY <2>1, <2>2
<1>5. f = [n \in DOMAIN h \cup {Null} |-> ScanBody(f, h, start_key, end_key, n)]
  <2>1. f = [n \in Pointers(t) |-> f[n]]
    BY <1>3
  <2>2. [n \in Pointers(t) |-> f[n]] = [n \in Pointers(t) |-> ScanBody(f, h, start_key, end_key, n)]
    BY <1>4
  <2> QED
    BY <2>1, <2>2 DEF Pointers
<1>6. scan = [n \in DOMAIN h \cup {Null} |-> ScanBody(scan, h, start_key, end_key, n)]
  <2> HIDE DEF h
  <2> QED
    BY <1>5
<1>7. ScanTree(t, start_key, end_key) = scan[t.root]
  BY DEF ScanTree, ScanBody
<1> HIDE DEF scan
<1> QED
  BY <1>6, <1>7 DEF Pointers

\* A scan of the tree is the run of its entries between the two keys.
LEMMA ScanTreeIs ==
  ASSUME NEW t, IsTree(t), DOMAIN t.heap \subseteq 0 .. INVALID_VALUE,
         NEW start_key \in Nat, NEW end_key \in Nat
  PROVE  LET found == ScanTree(t, start_key, end_key)
         IN  /\ found \in Seq(Entry) /\ KeysGoUp(found)
             /\ Contents(found) = Within(EntriesOf(t.heap, DOMAIN t.heap), start_key, end_key)
<1> DEFINE h == t.heap
           OK(s, E) == s \in Seq(Entry) /\ KeysGoUp(s) /\ Contents(s) = Within(E, start_key, end_key)
<1>1. PICK f : /\ ScanTree(t, start_key, end_key) = f[t.root]
               /\ \A n \in Pointers(t) : f[n] = ScanBody(f, h, start_key, end_key, n)
  BY ScanTreeUnfolds
<1> DEFINE P == {n \in Pointers(t) : \A S : IsSubtree(h, n, S) => OK(f[n], EntriesOf(h, S))}
<1>2. Null \in P
  <2>1. ASSUME NEW S, IsSubtree(h, Null, S) PROVE OK(f[Null], EntriesOf(h, S))
    <3>1. S = {}
      BY <2>1, SubtreeRoot DEF IsTree
    <3>2. f[Null] = <<>>
      BY <1>1, HeightsTyped DEF ScanBody
    <3>3. Within(EntriesOf(h, S), start_key, end_key) = {}
      BY <3>1 DEF EntriesOf, Within
    <3> QED
      BY <3>2, <3>3, RunOfNone
  <2> HIDE DEF OK
  <2> QED
    BY <2>1, HeightsTyped
<1>3. ASSUME NEW n \in DOMAIN h, h[n].left \in P, h[n].right \in P PROVE n \in P
  <2> SUFFICES ASSUME NEW S, IsSubtree(h, n, S) PROVE OK(f[n], EntriesOf(h, S))
    BY HeightsTyped
  <2> DEFINE e == EntryOf(h, n)
             a == IF start_key < n THEN f[h[n].left] ELSE <<>>
             c == IF start_key <= n /\ n <= end_key THEN <<e>> ELSE <<>>
             b == IF n < end_key THEN f[h[n].right] ELSE <<>>
  <2>0. n \in Pointers(t) /\ n # Null /\ n \in Nat
    BY ChildrenBelow, HeightsTyped
  <2>1. f[n] = a \o c \o b
    BY <1>1, <2>0 DEF ScanBody, EntryOf
  <2>2. e \in Entry /\ e.key = n
    BY SubtreeEntries DEF EntryOf
  <2>3. PICK A, B : /\ IsSubtree(h, h[n].left, A) /\ IsSubtree(h, h[n].right, B)
                    /\ S = A \cup {n} \cup B
                    /\ A \subseteq Nat /\ B \subseteq Nat
                    /\ \A x \in A : x < n
                    /\ \A x \in B : n < x
    <3>1. PICK A, B : Parts(h, n, S, A, B)
      BY SubtreeEntries
    <3> QED
      BY <3>1 DEF Parts
  <2>4. OK(f[h[n].left], EntriesOf(h, A)) /\ OK(f[h[n].right], EntriesOf(h, B))
    <3> HIDE DEF OK
    <3> QED
      BY <1>3, <2>3
  <2>5. /\ \A d \in EntriesOf(h, A) : d.key \in A
        /\ \A d \in EntriesOf(h, B) : d.key \in B
    BY DEF EntriesOf, EntryOf
  <2>6. EntriesOf(h, S) = EntriesOf(h, A) \cup {e} \cup EntriesOf(h, B)
    BY <2>3 DEF EntriesOf
  <2>7. OK(<<>>, {}) /\ OK(<<>>, {}) /\ \A E : Within(E, start_key, end_key) = {} => OK(<<>>, E)
    <3>1. Within({}, start_key, end_key) = {}
      BY DEF Within
    <3> QED
      BY <3>1, RunOfNone
  <2>8. OK(a, EntriesOf(h, A))
    <3>1. CASE start_key < n
      BY <2>4, <3>1
    <3>2. CASE ~ (start_key < n)
      <4>1. ASSUME NEW d \in EntriesOf(h, A) PROVE ~ (start_key <= d.key)
        <5>1. d.key \in A
          BY <2>5
        <5>2. d.key \in Nat /\ d.key < n
          BY <2>3, <5>1
        <5> QED
          BY <2>0, <3>2, <5>2
      <4>2. Within(EntriesOf(h, A), start_key, end_key) = {}
        BY <4>1 DEF Within
      <4>3. a = <<>>
        BY <3>2
      <4> HIDE DEF OK, a
      <4> QED
        BY <2>7, <4>2, <4>3
    <3> QED
      BY <3>1, <3>2
  <2>9. OK(b, EntriesOf(h, B))
    <3>1. CASE n < end_key
      BY <2>4, <3>1
    <3>2. CASE ~ (n < end_key)
      <4>1. ASSUME NEW d \in EntriesOf(h, B) PROVE ~ (d.key <= end_key)
        <5>1. d.key \in B
          BY <2>5
        <5>2. d.key \in Nat /\ n < d.key
          BY <2>3, <5>1
        <5> QED
          BY <2>0, <3>2, <5>2
      <4>2. Within(EntriesOf(h, B), start_key, end_key) = {}
        BY <4>1 DEF Within
      <4>3. b = <<>>
        BY <3>2
      <4> HIDE DEF OK, b
      <4> QED
        BY <2>7, <4>2, <4>3
    <3> QED
      BY <3>1, <3>2
  <2> HIDE DEF e
  <2>10. OK(c, {e})
    <3>1. CASE start_key <= n /\ n <= end_key
      <4>1. Within({e}, start_key, end_key) = {e}
        BY <2>2, <3>1 DEF Within
      <4>2. c = <<e>>
        BY <3>1
      <4> HIDE DEF c
      <4> QED
        BY <2>2, <4>1, <4>2, RunOfOne
    <3>2. CASE ~ (start_key <= n /\ n <= end_key)
      <4>1. Within({e}, start_key, end_key) = {}
        BY <2>2, <3>2 DEF Within
      <4>2. c = <<>>
        BY <3>2
      <4> HIDE DEF OK, c
      <4> QED
        BY <2>7, <4>1, <4>2
    <3> QED
      BY <3>1, <3>2
  <2> HIDE DEF a, b, c
  <2>11. /\ \A d \in Contents(a) : d.key \in A
         /\ \A d \in Contents(c) : d.key = n
         /\ \A d \in Contents(b) : d.key \in B
    <3>1. \A E : Within(E, start_key, end_key) \subseteq E
      BY DEF Within
    <3>2. Contents(a) \subseteq EntriesOf(h, A) /\ Contents(c) \subseteq {e} /\ Contents(b) \subseteq EntriesOf(h, B)
      BY <2>8, <2>9, <2>10, <3>1
    <3> QED
      BY <2>2, <2>5, <3>2
  <2>12. /\ \A d \in Contents(a), x \in Contents(c) : d.key < x.key
         /\ \A d \in Contents(a), x \in Contents(b) : d.key < x.key
         /\ \A d \in Contents(c), x \in Contents(b) : d.key < x.key
    <3>1. \A x \in A, y \in B : x < y
      BY <2>0, <2>3
    <3>2. ASSUME NEW d \in Contents(a), NEW x \in Contents(c) PROVE d.key < x.key
      <4>1. d.key \in A /\ x.key = n
        BY <2>11
      <4> QED
        BY <2>3, <4>1
    <3>3. ASSUME NEW d \in Contents(a), NEW x \in Contents(b) PROVE d.key < x.key
      <4>1. d.key \in A /\ x.key \in B
        BY <2>11
      <4> QED
        BY <3>1, <4>1
    <3>4. ASSUME NEW d \in Contents(c), NEW x \in Contents(b) PROVE d.key < x.key
      <4>1. d.key = n /\ x.key \in B
        BY <2>11
      <4> QED
        BY <2>3, <4>1
    <3> QED
      BY <3>2, <3>3, <3>4
  <2>13. /\ a \o c \o b \in Seq(Entry) /\ KeysGoUp(a \o c \o b)
         /\ Contents(a \o c \o b) = Contents(a) \cup Contents(c) \cup Contents(b)
    <3>1. Precedes(a, c) /\ Precedes(a, b) /\ Precedes(c, b)
      BY <2>12 DEF Precedes
    <3> QED
      BY <2>8, <2>9, <2>10, <3>1, ThreeRuns
  <2>14. Contents(a \o c \o b) = Within(EntriesOf(h, S), start_key, end_key)
    <3>1. Within(EntriesOf(h, S), start_key, end_key)
            = Within(EntriesOf(h, A), start_key, end_key) \cup Within({e}, start_key, end_key)
                \cup Within(EntriesOf(h, B), start_key, end_key)
      BY <2>6 DEF Within
    <3> QED
      BY <2>8, <2>9, <2>10, <2>13, <3>1
  <2> QED
    BY <2>1, <2>13, <2>14
<1>4. Pointers(t) \subseteq P
  <2> HIDE DEF P
  <2> QED
    BY <1>2, <1>3, TreeInduction
<1>5. OK(f[t.root], EntriesOf(h, DOMAIN h))
  <2>1. t.root \in P /\ IsSubtree(h, t.root, DOMAIN h)
    BY <1>4, HeightsTyped DEF IsTree
  <2> HIDE DEF OK
  <2> QED
    BY <2>1
<1> QED
  BY <1>1, <1>5

\* The depth of the subtree at a node.
DepthBody(f, h, n) ==
  IF n = Null THEN 0
  ELSE (IF f[h[n].left] < f[h[n].right] THEN f[h[n].right] ELSE f[h[n].left]) + 1

\* Depths exist, and they are the heights that the nodes keep.
LEMMA DepthIs ==
  ASSUME NEW t, IsTree(t)
  PROVE  /\ \E f : f = [n \in Pointers(t) |-> DepthBody(f, t.heap, n)]
         /\ \A f : f = [n \in Pointers(t) |-> DepthBody(f, t.heap, n)] => f = Heights(t)
<1> DEFINE h == t.heap
<1>1. ASSUME NEW n \in Pointers(t), NEW f, n # Null => f[h[n].left] = Heights(t)[h[n].left],
             n # Null => f[h[n].right] = Heights(t)[h[n].right]
      PROVE  DepthBody(f, h, n) = Heights(t)[n]
  <2>1. CASE n = Null
    BY <2>1 DEF DepthBody, Heights, GetHeight
  <2>2. CASE n # Null
    <3>1. n \in DOMAIN h
      BY <2>2 DEF Pointers
    <3>2. h[n].left \in Pointers(t) /\ h[n].right \in Pointers(t)
      BY <3>1, ChildrenBelow DEF Below
    <3>3. PICK S : IsSubtree(h, n, S)
      BY <3>1, EverySubtree DEF IsTree
    <3>4. h[n].height = Taller(GetHeight(h, h[n].left), GetHeight(h, h[n].right)) + 1
      <4>1. PICK A, B : Parts(h, n, S, A, B)
        BY <2>2, <3>3, SubtreeParts DEF IsTree
      <4> QED
        BY <4>1 DEF Parts
    <3>5. Heights(t)[n] = h[n].height
      BY <2>2 DEF Heights, GetHeight
    <3>6. f[h[n].left] = GetHeight(h, h[n].left) /\ f[h[n].right] = GetHeight(h, h[n].right)
      BY <1>1, <2>2, <3>2 DEF Heights
    <3> QED
      BY <2>2, <3>4, <3>5, <3>6 DEF DepthBody, Taller
  <2> QED
    BY <2>1, <2>2
<1>2. Heights(t) = [n \in Pointers(t) |-> DepthBody(Heights(t), h, n)]
  <2>1. \A n \in Pointers(t) : DepthBody(Heights(t), h, n) = Heights(t)[n]
    BY <1>1
  <2>2. Heights(t) = [n \in Pointers(t) |-> Heights(t)[n]]
    BY DEF Heights
  <2> QED
    BY <2>1, <2>2
<1>3. ASSUME NEW f, f = [n \in Pointers(t) |-> DepthBody(f, h, n)] PROVE f = Heights(t)
  <2> DEFINE P == {n \in Pointers(t) : f[n] = Heights(t)[n]}
  <2>0. \A n \in Pointers(t) : f[n] = DepthBody(f, h, n)
    BY <1>3
  <2>1. Null \in P
    <3>1. Null \in Pointers(t) /\ DepthBody(f, h, Null) = Heights(t)[Null]
      BY <1>1, HeightsTyped
    <3> QED
      BY <2>0, <3>1
  <2>2. ASSUME NEW n \in DOMAIN h, h[n].left \in P, h[n].right \in P PROVE n \in P
    <3>1. n \in Pointers(t)
      BY HeightsTyped
    <3>2. DepthBody(f, h, n) = Heights(t)[n]
      BY <1>1, <2>2, <3>1
    <3> QED
      BY <2>0, <3>1, <3>2
  <2>3. Pointers(t) \subseteq P
    <3> HIDE DEF P
    <3> QED
      BY <2>1, <2>2, TreeInduction
  <2>4. \A n \in Pointers(t) : f[n] = Heights(t)[n]
    BY <2>3
  <2>5. f = [n \in Pointers(t) |-> f[n]]
    BY <1>3
  <2>6. Heights(t) = [n \in Pointers(t) |-> Heights(t)[n]]
    BY DEF Heights
  <2> QED
    BY <2>4, <2>5, <2>6
<1> QED
  BY <1>2, <1>3

\* put, at one node.
InsertBody(f, h, key, value, n) ==
  IF n = Null THEN [root |-> key, heap |-> Assign(h, key, NewNode(value))]
  ELSE IF n = key THEN [root |-> n, heap |-> [h EXCEPT ![key].value = value]]
  ELSE IF key < n
       THEN Rebalanced(Remeasured([f[h[n].left].heap EXCEPT ![n].left = f[h[n].left].root], n), n, key)
       ELSE Rebalanced(Remeasured([f[h[n].right].heap EXCEPT ![n].right = f[h[n].right].root], n), n, key)

\* Below a null pointer the key becomes a node.
LEMMA InsertHere ==
  ASSUME NEW h, IsHeap(h), NEW S, IsSubtree(h, Null, S), NEW key \in Nat, NEW value \in 0 .. INVALID_VALUE
  PROVE  IsInserted([root |-> key, heap |-> Assign(h, key, NewNode(value))], h, Null, S, key, value)
<1> DEFINE g == Assign(h, key, NewNode(value))
<1>1. h \in [DOMAIN h -> NodeRecs] /\ DOMAIN h \subseteq Nat /\ Null \in Int
  BY NullIs DEF IsHeap
<1>2. NewNode(value) \in NodeRecs /\ NewNode(value).value = value /\ NewNode(value).height = 1
      /\ NewNode(value).left = Null /\ NewNode(value).right = Null
  BY <1>1 DEF NewNode, NodeRecs
<1>3. /\ DOMAIN g = DOMAIN h \cup {key}
      /\ \A m \in DOMAIN h : m # key => g[m] = h[m]
      /\ g[key] = NewNode(value)
      /\ g = [x \in DOMAIN h \cup {key} |-> g[x]]
  BY DEF Assign
<1> HIDE DEF g
<1>4. IsHeap(g)
  <2>1. \A m \in DOMAIN g : g[m] \in NodeRecs
    BY <1>1, <1>2, <1>3
  <2>2. DOMAIN g \subseteq Nat
    BY <1>1, <1>3
  <2> QED
    BY <1>3, <2>1, <2>2 DEF IsHeap
<1>5. S = {}
  BY SubtreeRoot
<1>6. IsSubtree(g, key, {key})
  <2>1. IsSubtree(g, g[key].left, {}) /\ IsSubtree(g, g[key].right, {})
    BY <1>2, <1>3, NoSubtree
  <2>2. GetHeight(g, Null) = 0
    BY DEF GetHeight
  <2>3. Taller(0, 0) + 1 = 1 /\ 0 - 0 \in -1 .. 1
    BY DEF Taller
  <2>4. IsSubtree(g, key, {} \cup {key} \cup {})
    BY <1>2, <1>3, <1>4, <2>1, <2>2, <2>3, SubtreeFrom
  <2>5. {} \cup {key} \cup {} = {key}
    OBVIOUS
  <2> QED
    BY <2>4, <2>5
<1>7. GetHeight(g, key) = 1 /\ GetHeight(h, Null) = 0
  BY <1>2, <1>3, NullIs DEF GetHeight
<1> DEFINE r == [root |-> key, heap |-> g]
<1>8. r.root = key /\ r.heap = g /\ r = [root |-> r.root, heap |-> r.heap]
  OBVIOUS
<1> HIDE DEF r
<1>9. S \cup {key} = {key}
  BY <1>5
<1>10. IsInserted(r, h, Null, S, key, value)
  BY <1>2, <1>3, <1>4, <1>5, <1>6, <1>7, <1>8, <1>9 DEF IsInserted
<1> QED
  BY <1>10 DEF r, g

\* At the node of the key the value is replaced.
LEMMA InsertReplaces ==
  ASSUME NEW h, IsHeap(h), NEW key \in DOMAIN h, NEW S, IsSubtree(h, key, S), NEW value \in 0 .. INVALID_VALUE
  PROVE  IsInserted([root |-> key, heap |-> [h EXCEPT ![key].value = value]], h, key, S, key, value)
<1> DEFINE g == [h EXCEPT ![key].value = value]
           y == [h[key] EXCEPT !.value = value]
<1>1. h \in [DOMAIN h -> NodeRecs] /\ DOMAIN h \subseteq Nat /\ h[key] \in NodeRecs /\ key # Null
  BY NullIs DEF IsHeap
<1>2. g = [h EXCEPT ![key] = y]
  OBVIOUS
<1>3. y \in NodeRecs /\ y.value = value /\ y.left = h[key].left /\ y.right = h[key].right /\ y.height = h[key].height
  BY <1>1 DEF NodeRecs
<1> HIDE DEF g, y
<1>4. g \in [DOMAIN h -> NodeRecs] /\ DOMAIN g = DOMAIN h /\ g[key] = y /\ \A m \in DOMAIN h : m # key => g[m] = h[m]
  BY <1>1, <1>2, <1>3
<1>5. IsHeap(g)
  BY <1>1, <1>4 DEF IsHeap
<1>6. S \subseteq DOMAIN h /\ key \in S
  BY <1>1, SubtreeRoot
<1>7. IsSubtree(g, key, S) /\ GetHeight(g, key) = GetHeight(h, key)
  <2>1. \A m \in S : g[m].left = h[m].left /\ g[m].right = h[m].right /\ g[m].height = h[m].height
    BY <1>3, <1>4, <1>6
  <2> QED
    BY <1>4, <1>6, <2>1, SubtreeSame
<1> DEFINE r == [root |-> key, heap |-> g]
<1>8. r.root = key /\ r.heap = g /\ r = [root |-> r.root, heap |-> r.heap]
  OBVIOUS
<1> HIDE DEF r
<1>9. S \cup {key} = S /\ DOMAIN h \cup {key} = DOMAIN h
  BY <1>6
<1>10. IsInserted(r, h, key, S, key, value)
  BY <1>3, <1>4, <1>5, <1>7, <1>8, <1>9 DEF IsInserted
<1> QED
  BY <1>10 DEF r, g

\* An insertion does at a node what it is for, when it does so at the children.
LEMMA InsertStep ==
  ASSUME NEW t, IsTree(t), NEW key \in Nat, NEW value \in 0 .. INVALID_VALUE, NEW f, NEW n \in Pointers(t),
         n # Null => /\ \A T : IsSubtree(t.heap, t.heap[n].left, T) =>
                               IsInserted(f[t.heap[n].left], t.heap, t.heap[n].left, T, key, value)
                     /\ \A T : IsSubtree(t.heap, t.heap[n].right, T) =>
                               IsInserted(f[t.heap[n].right], t.heap, t.heap[n].right, T, key, value),
         NEW S, IsSubtree(t.heap, n, S)
  PROVE  IsInserted(InsertBody(f, t.heap, key, value, n), t.heap, n, S, key, value)
<1> DEFINE h == t.heap
<1>0. IsHeap(h)
  BY DEF IsTree
<1>1. CASE n = Null
  <2>1. InsertBody(f, h, key, value, n) = [root |-> key, heap |-> Assign(h, key, NewNode(value))]
    BY <1>1 DEF InsertBody
  <2> QED
    BY <1>0, <1>1, <2>1, InsertHere
<1>2. CASE n # Null /\ n = key
  <2>1. InsertBody(f, h, key, value, n) = [root |-> n, heap |-> [h EXCEPT ![key].value = value]]
    BY <1>2 DEF InsertBody
  <2>2. key \in DOMAIN h
    BY <1>2 DEF Pointers
  <2> QED
    BY <1>0, <1>2, <2>1, <2>2, InsertReplaces
<1>3. CASE n # Null /\ key < n
  <2> DEFINE child == f[h[n].left]
             g == Remeasured([child.heap EXCEPT ![n].left = child.root], n)
  <2>1. n \in DOMAIN h /\ n # key
    <3>1. n \in DOMAIN h /\ n \in Nat
      BY <1>3, <1>0 DEF Pointers, IsHeap
    <3> QED
      BY <1>3, <3>1
  <2>2. InsertBody(f, h, key, value, n) = Rebalanced(g, n, key)
    BY <1>3, <2>1 DEF InsertBody
  <2>3. \A T : IsSubtree(h, h[n].left, T) => IsInserted(child, h, h[n].left, T, key, value)
    BY <1>3
  <2> HIDE DEF child, g
  <2>4. IsInserted(Rebalanced(g, n, key), h, n, S, key, value)
    BY <1>0, <1>3, <2>1, <2>3, InsertLeft DEF g
  <2> QED
    BY <2>2, <2>4
<1>4. CASE n # Null /\ n # key /\ ~ (key < n)
  <2> DEFINE child == f[h[n].right]
             g == Remeasured([child.heap EXCEPT ![n].right = child.root], n)
  <2>1. n \in DOMAIN h /\ n < key
    <3>1. n \in DOMAIN h /\ n \in Nat
      BY <1>4, <1>0 DEF Pointers, IsHeap
    <3> QED
      BY <1>4, <3>1
  <2>2. InsertBody(f, h, key, value, n) = Rebalanced(g, n, key)
    BY <1>4 DEF InsertBody
  <2>3. \A T : IsSubtree(h, h[n].right, T) => IsInserted(child, h, h[n].right, T, key, value)
    BY <1>4
  <2> HIDE DEF child, g
  <2>4. IsInserted(Rebalanced(g, n, key), h, n, S, key, value)
    BY <1>0, <2>1, <2>3, InsertRight DEF g
  <2> QED
    BY <2>2, <2>4
<1> QED
  BY <1>1, <1>2, <1>3, <1>4

\* What an insertion leaves is a tree again.
LEMMA InsertedTyped ==
  ASSUME NEW r, NEW h, NEW n, NEW S, NEW key, NEW value, IsInserted(r, h, n, S, key, value)
  PROVE  r \in [root : Int, heap : [DOMAIN h \cup {key} -> NodeRecs]]
<1>1. /\ r = [root |-> r.root, heap |-> r.heap] /\ IsHeap(r.heap) /\ DOMAIN r.heap = DOMAIN h \cup {key}
      /\ IsSubtree(r.heap, r.root, S \cup {key})
  BY DEF IsInserted
<1>2. r.heap \in [DOMAIN h \cup {key} -> NodeRecs]
  BY <1>1 DEF IsHeap
<1>3. r.root \in Int
  BY <1>1, SubtreeRoot
<1> QED
  BY <1>1, <1>2, <1>3

\* The insertion of a key ends.
LEMMA InsertUnfolds ==
  ASSUME NEW t, IsTree(t), NEW key \in Nat, NEW value \in 0 .. INVALID_VALUE
  PROVE  \E f : /\ InsertNode(t, key, value) = f[t.root]
                /\ \A n \in Pointers(t) : f[n] = InsertBody(f, t.heap, key, value, n)
<1> DEFINE h == t.heap
           V == [root : Int, heap : [DOMAIN h \cup {key} -> NodeRecs]]
           base == [root |-> key, heap |-> Assign(h, key, NewNode(value))]
           At(n, a, b) == IF n = key THEN [root |-> n, heap |-> [h EXCEPT ![key].value = value]]
                          ELSE IF key < n
                               THEN Rebalanced(Remeasured([a.heap EXCEPT ![n].left = a.root], n), n, key)
                               ELSE Rebalanced(Remeasured([b.heap EXCEPT ![n].right = b.root], n), n, key)
           F == [p \in (DOMAIN h) \X V \X V |->
                   IF At(p[1], p[2], p[3]) \in V THEN At(p[1], p[2], p[3]) ELSE base]
           Done(f, n) == \A S : IsSubtree(h, n, S) => IsInserted(f[n], h, n, S, key, value)
           insert == CHOOSE f : f = [n \in DOMAIN h \cup {Null} |-> InsertBody(f, h, key, value, n)]
<1>0. IsHeap(h) /\ IsSubtree(h, t.root, DOMAIN h)
  BY DEF IsTree
<1>1. base \in V
  <2>1. IsInserted(base, h, Null, {}, key, value)
    BY <1>0, InsertHere, NoSubtree
  <2> HIDE DEF base
  <2> QED
    BY <2>1, InsertedTyped
<1> HIDE DEF V, base
<1>2. ASSUME NEW n \in DOMAIN h, NEW a \in V, NEW b \in V
      PROVE  F[<<n, a, b>>] \in V /\ F[<<n, a, b>>] = IF At(n, a, b) \in V THEN At(n, a, b) ELSE base
  <2> HIDE DEF At
  <2>1. F[<<n, a, b>>] = IF At(n, a, b) \in V THEN At(n, a, b) ELSE base
    OBVIOUS
  <2> HIDE DEF F
  <2> QED
    BY <1>1, <2>1
<1> HIDE DEF F
<1>3. PICK f \in [Pointers(t) -> V] :
        \A n \in Pointers(t) : f[n] = IF n = Null THEN base ELSE F[<<n, f[h[n].left], f[h[n].right]>>]
  <2>1. IsTreeStep(F, t, V)
    BY <1>2 DEF IsTreeStep
  <2>2. PICK f \in [Pointers(t) -> V] : SolvesTree(f, F, t, base)
    BY <1>1, <2>1, TreeRecursion
  <2> QED
    BY <2>2 DEF SolvesTree
<1>4. ASSUME NEW n \in Pointers(t), InsertBody(f, h, key, value, n) \in V
      PROVE  f[n] = InsertBody(f, h, key, value, n)
  <2>1. CASE n = Null
    BY <1>3, <2>1 DEF InsertBody, base
  <2>2. CASE n # Null
    <3>1. n \in DOMAIN h
      BY <2>2 DEF Pointers
    <3>2. h[n].left \in Pointers(t) /\ h[n].right \in Pointers(t)
      BY <3>1, ChildrenBelow DEF Below
    <3>3. f[h[n].left] \in V /\ f[h[n].right] \in V
      BY <1>3, <3>2
    <3>4. InsertBody(f, h, key, value, n) = At(n, f[h[n].left], f[h[n].right])
      BY <2>2 DEF InsertBody
    <3> HIDE DEF At
    <3>5. F[<<n, f[h[n].left], f[h[n].right]>>] = At(n, f[h[n].left], f[h[n].right])
      BY <1>2, <1>4, <3>1, <3>3, <3>4
    <3> QED
      BY <1>3, <2>2, <3>4, <3>5
  <2> QED
    BY <2>1, <2>2
<1>5. ASSUME NEW n \in Pointers(t), n # Null => Done(f, h[n].left) /\ Done(f, h[n].right)
      PROVE  f[n] = InsertBody(f, h, key, value, n) /\ Done(f, n)
  <2>1. ASSUME NEW S, IsSubtree(h, n, S)
        PROVE  IsInserted(InsertBody(f, h, key, value, n), h, n, S, key, value)
    BY <1>5, <2>1, InsertStep
  <2>2. PICK S : IsSubtree(h, n, S)
    BY <1>0, EverySubtree DEF Pointers
  <2>3. InsertBody(f, h, key, value, n) \in V
    BY <2>1, <2>2, InsertedTyped DEF V
  <2>4. f[n] = InsertBody(f, h, key, value, n)
    BY <1>4, <2>3
  <2> QED
    BY <2>1, <2>4
<1>6. \A n \in Pointers(t) : f[n] = InsertBody(f, h, key, value, n)
  <2> DEFINE P == {n \in Pointers(t) : f[n] = InsertBody(f, h, key, value, n) /\ Done(f, n)}
  <2> HIDE DEF Done
  <2>1. Null \in P
    BY <1>5, HeightsTyped
  <2>2. ASSUME NEW n \in DOMAIN h, h[n].left \in P, h[n].right \in P PROVE n \in P
    <3>1. n \in Pointers(t)
      BY HeightsTyped
    <3> QED
      BY <1>5, <2>2, <3>1
  <2>3. Pointers(t) \subseteq P
    <3> HIDE DEF P
    <3> QED
      BY <2>1, <2>2, TreeInduction
  <2> QED
    BY <2>3
<1>7. f = [n \in DOMAIN h \cup {Null} |-> InsertBody(f, h, key, value, n)]
  <2>1. f = [n \in Pointers(t) |-> f[n]]
    BY <1>3
  <2>2. [n \in Pointers(t) |-> f[n]] = [n \in Pointers(t) |-> InsertBody(f, h, key, value, n)]
    BY <1>6
  <2> QED
    BY <2>1, <2>2 DEF Pointers
<1>8. insert = [n \in DOMAIN h \cup {Null} |-> InsertBody(insert, h, key, value, n)]
  <2> HIDE DEF h
  <2> QED
    BY <1>7
<1>9. InsertNode(t, key, value) = insert[t.root]
  <2> DEFINE Side(n) == IF key < n THEN "left" ELSE "right"
             Stmt(g, n) == IF n = Null THEN [root |-> key, heap |-> Assign(h, key, NewNode(value))]
                           ELSE IF n = key THEN [root |-> n, heap |-> [h EXCEPT ![key].value = value]]
                           ELSE LET child == g[h[n][Side(n)]]
                                    heap  == [child.heap EXCEPT ![n][Side(n)] = child.root]
                                IN  Rebalanced(Remeasured(heap, n), n, key)
  <2>1. \A g, n : Stmt(g, n) = InsertBody(g, h, key, value, n)
    BY DEF InsertBody
  <2>2. InsertNode(t, key, value) = (CHOOSE g : g = [n \in DOMAIN h \cup {Null} |-> Stmt(g, n)])[t.root]
    BY DEF InsertNode
  <2> HIDE DEF Stmt, h
  <2>3. \A g : (g = [n \in DOMAIN h \cup {Null} |-> Stmt(g, n)])
                 <=> (g = [n \in DOMAIN h \cup {Null} |-> InsertBody(g, h, key, value, n)])
    BY <2>1
  <2>4. (CHOOSE g : g = [n \in DOMAIN h \cup {Null} |-> Stmt(g, n)]) = insert
    BY <2>3
  <2> QED
    BY <2>2, <2>4
<1> HIDE DEF insert
<1> QED
  BY <1>8, <1>9 DEF Pointers

\* put (avl_tree.cpp): the tree is a tree again, it has the key and those that
\* it had before, with their values.
LEMMA InsertIs ==
  ASSUME NEW t, IsTree(t), NEW key \in Nat, NEW value \in 0 .. INVALID_VALUE
  PROVE  LET r == InsertNode(t, key, value)
         IN  /\ IsTree(r)
             /\ DOMAIN r.heap = DOMAIN t.heap \cup {key}
             /\ r.heap[key].value = value
             /\ \A k \in DOMAIN t.heap : k # key => r.heap[k].value = t.heap[k].value
<1> DEFINE h == t.heap
           r == InsertNode(t, key, value)
<1>0. IsHeap(h) /\ IsSubtree(h, t.root, DOMAIN h)
  BY DEF IsTree
<1>1. PICK f : /\ InsertNode(t, key, value) = f[t.root]
               /\ \A n \in Pointers(t) : f[n] = InsertBody(f, h, key, value, n)
  BY InsertUnfolds
<1> DEFINE P == {n \in Pointers(t) : \A S : IsSubtree(h, n, S) => IsInserted(f[n], h, n, S, key, value)}
<1>2. Null \in P
  <2>1. Null \in Pointers(t)
    BY HeightsTyped
  <2>2. ASSUME NEW S, IsSubtree(h, Null, S) PROVE IsInserted(f[Null], h, Null, S, key, value)
    <3>1. IsInserted(InsertBody(f, h, key, value, Null), h, Null, S, key, value)
      BY <2>1, <2>2, InsertStep
    <3> QED
      BY <1>1, <2>1, <3>1
  <2> QED
    BY <2>1, <2>2
<1>3. ASSUME NEW n \in DOMAIN h, h[n].left \in P, h[n].right \in P PROVE n \in P
  <2>1. n \in Pointers(t)
    BY HeightsTyped
  <2>2. ASSUME NEW S, IsSubtree(h, n, S) PROVE IsInserted(f[n], h, n, S, key, value)
    <3>1. IsInserted(InsertBody(f, h, key, value, n), h, n, S, key, value)
      BY <1>3, <2>1, <2>2, InsertStep
    <3> QED
      BY <1>1, <2>1, <3>1
  <2> QED
    BY <2>1, <2>2
<1>4. Pointers(t) \subseteq P
  <2> HIDE DEF P
  <2> QED
    BY <1>2, <1>3, TreeInduction
<1>5. IsInserted(r, h, t.root, DOMAIN h, key, value)
  <2>1. t.root \in P
    BY <1>4, HeightsTyped
  <2> QED
    BY <1>0, <1>1, <2>1
<1> HIDE DEF r
<1>6. /\ r = [root |-> r.root, heap |-> r.heap]
      /\ IsHeap(r.heap) /\ DOMAIN r.heap = DOMAIN h \cup {key}
      /\ \A m \in DOMAIN h : m # key => r.heap[m].value = h[m].value
      /\ r.heap[key].value = value
      /\ IsSubtree(r.heap, r.root, DOMAIN h \cup {key})
  BY <1>5 DEF IsInserted
<1> QED
  BY <1>6 DEF IsTree, r

-----------------------------------------------------------------------------
(* The memtable                                                            *)

\* A map that puts can make.
IsPut(m) == DOMAIN m \subseteq FilterKeys /\ \A k \in DOMAIN m : m[k] \in StoredValues

\* The tree t is the map m.
TreeOf(t, m) ==
  /\ IsTree(t)
  /\ DOMAIN t.heap = DOMAIN m
  /\ \A k \in DOMAIN m : t.heap[k].value = m[k]

\* While a flush goes through the run, what it has passed is in the filter; the
\* file is written when all of it is.
FlushInv ==
  /\ stage \in {"idle", "filter", "written"}
  /\ stage = "filter" =>
       /\ run = SortedRun(entries) /\ DOMAIN entries # {}
       /\ next \in 1 .. Len(run) + 1
       /\ \A i \in 1 .. next - 1 : run[i].key \in inserted
  /\ stage = "written" =>
       /\ IsPut(flushed) /\ DOMAIN flushed # {} /\ DOMAIN flushed \subseteq inserted
       /\ file = BuildFile(SortedRun(flushed))

\* The inductive invariant: the filter, what was put, the tree of it, and where a flush is.
MemtableInv == FilterInv /\ IsPut(entries) /\ TreeOf(tree, entries) /\ FlushInv

\* Of two numbers of entries the smaller takes no more leaves.
LEMMA CeilDivGrows ==
  ASSUME NEW a \in Nat \ {0}, NEW b \in Nat \ {0}, NEW c \in Nat \ {0}, a <= c
  PROVE  CeilDiv(a, b) <= CeilDiv(c, b)
<1> DEFINE x == CeilDiv(a, b)
           y == CeilDiv(c, b)
<1>1. x \in Nat \ {0} /\ (x - 1) * b < a /\ y \in Nat \ {0} /\ c <= y * b
  BY CeilDivFacts
<1> HIDE DEF x, y
<1>2. SUFFICES ASSUME x - 1 >= y PROVE FALSE
  BY <1>1 DEF x, y
<1>3. (x - 1) * b >= y * b
  BY <1>1, <1>2
<1>4. (x - 1) * b \in Int /\ y * b \in Int
  BY <1>1
<1> QED
  BY <1>1, <1>3, <1>4

\* The run of a map that puts can make.
LEMMA RunOfPut ==
  ASSUME NEW m, IsPut(m)
  PROVE  LET r == SortedRun(m)
         IN  /\ DOMAIN m \subseteq 0 .. INVALID_VALUE /\ \A k \in DOMAIN m : m[k] \in 0 .. INVALID_VALUE
             /\ r \in Seq(Entry) /\ KeysGoUp(r)
             /\ Contents(r) = {[key |-> k, value |-> m[k]] : k \in DOMAIN m}
             /\ Len(r) = Cardinality(DOMAIN m)
             /\ DOMAIN m # {} => r # <<>> /\ CeilDiv(Len(r), MAX_KEYS) \in 1 .. MaxFilterEntries
<1> DEFINE r == SortedRun(m)
           n == Cardinality(DOMAIN m)
           N == Cardinality(FilterKeys)
<1>1. FilterKeys \subseteq 0 .. INVALID_VALUE /\ IsFiniteSet(FilterKeys)
  <2>1. FilterKeys \subseteq 0 .. INVALID_VALUE
    BY MemtableAssumption
  <2>2. IsFiniteSet(0 .. INVALID_VALUE)
    BY BTreeAssumption, FS_Interval
  <2> QED
    BY <2>1, <2>2, FS_Subset
<1>2. IsFiniteSet(DOMAIN m) /\ n \in Nat /\ N \in Nat /\ n <= N
  BY <1>1, FS_Subset, FS_CardinalityType DEF IsPut
<1>3. DOMAIN m \subseteq 0 .. INVALID_VALUE /\ \A k \in DOMAIN m : m[k] \in 0 .. INVALID_VALUE
  BY <1>1, MemtableAssumption DEF IsPut
<1>4. /\ r \in Seq(Entry) /\ KeysGoUp(r)
      /\ Contents(r) = {[key |-> k, value |-> m[k]] : k \in DOMAIN m}
      /\ DOMAIN m # {} => r # <<>>
  BY <1>2, <1>3, SortedRunSorts
<1>5. DOMAIN r = 1 .. n
  BY DEF SortedRun
<1> HIDE DEF r
<1>6. Len(r) = n
  BY <1>2, <1>4, <1>5
<1>7. ASSUME DOMAIN m # {} PROVE CeilDiv(Len(r), MAX_KEYS) \in 1 .. MaxFilterEntries
  <2>1. n # 0
    BY <1>4, <1>6, <1>7
  <2> HIDE DEF n, N
  <2>2. MAX_KEYS \in Nat \ {0} /\ n \in Nat \ {0} /\ N \in Nat \ {0} /\ n <= N
    BY <1>2, <2>1, BTreeAssumption
  <2>3. CeilDiv(n, MAX_KEYS) \in Nat \ {0} /\ CeilDiv(N, MAX_KEYS) \in Nat /\ CeilDiv(n, MAX_KEYS) <= CeilDiv(N, MAX_KEYS)
    BY <2>2, CeilDivFacts, CeilDivGrows
  <2>4. CeilDiv(N, MAX_KEYS) <= MaxFilterEntries /\ MaxFilterEntries \in Nat
    BY MemtableAssumption, BloomFilterAssumption DEF N
  <2> QED
    BY <1>6, <2>3, <2>4
<1> QED
  BY <1>3, <1>4, <1>6, <1>7 DEF r

\* The walk of the tree is the run that KVStore writes.
LEMMA TreeRun ==
  ASSUME NEW t, NEW m, IsPut(m), TreeOf(t, m)
  PROVE  InOrder(t) = SortedRun(m)
<1>1. DOMAIN t.heap \subseteq 0 .. INVALID_VALUE /\ IsTree(t)
  BY RunOfPut DEF TreeOf
<1>2. /\ InOrder(t) \in Seq(Entry) /\ KeysGoUp(InOrder(t))
      /\ Contents(InOrder(t)) = EntriesOf(t.heap, DOMAIN t.heap)
  BY <1>1, InOrderIs
<1>3. EntriesOf(t.heap, DOMAIN t.heap) = {[key |-> k, value |-> m[k]] : k \in DOMAIN m}
  BY DEF EntriesOf, EntryOf, TreeOf
<1>4. /\ SortedRun(m) \in Seq(Entry) /\ KeysGoUp(SortedRun(m))
      /\ Contents(SortedRun(m)) = {[key |-> k, value |-> m[k]] : k \in DOMAIN m}
  BY RunOfPut
<1> QED
  BY <1>2, <1>3, <1>4, RunsEqual

\* The tree without nodes is the map without keys, and no other tree is.
LEMMA EmptyIs ==
  /\ IsPut(EmptyMap) /\ TreeOf(EmptyTree, EmptyMap)
  /\ \A t, m : TreeOf(t, m) /\ t # EmptyTree => DOMAIN m # {}
<1>1. DOMAIN EmptyMap = {}
  BY DEF EmptyMap
<1>2. EmptyTree.root = Null /\ EmptyTree.heap = EmptyMap
  BY DEF EmptyTree
<1>3. IsTree(EmptyTree)
  <2>1. IsHeap(EmptyMap)
    BY DEF EmptyMap, IsHeap
  <2>2. IsSubtree(EmptyMap, Null, DOMAIN EmptyMap)
    BY <1>1, NoSubtree
  <2>3. EmptyTree = [root |-> EmptyTree.root, heap |-> EmptyTree.heap]
    BY DEF EmptyTree
  <2> QED
    BY <1>2, <2>1, <2>2, <2>3 DEF IsTree
<1>4. ASSUME NEW t, NEW m, TreeOf(t, m), DOMAIN m = {} PROVE t = EmptyTree
  <2>1. /\ t = [root |-> t.root, heap |-> t.heap] /\ DOMAIN t.heap = {}
        /\ IsHeap(t.heap) /\ IsSubtree(t.heap, t.root, {})
    BY <1>4 DEF TreeOf, IsTree
  <2>2. t.root = Null
    BY <2>1, SubtreeRoot
  <2>3. t.heap = EmptyMap
    BY <2>1 DEF IsHeap, EmptyMap
  <2> QED
    BY <2>1, <2>2, <2>3 DEF EmptyTree
<1> QED
  BY <1>1, <1>2, <1>3, <1>4 DEF IsPut, TreeOf

\* An empty tree is the tree of no entries.
LEMMA MemtableInitInv == MemtableInit => MemtableInv
<1> SUFFICES ASSUME MemtableInit PROVE MemtableInv
  OBVIOUS
<1>1. FilterInit
  BY BloomFilterAssumption DEF MemtableInit, FilterInit
<1>2. IsPut(entries) /\ TreeOf(tree, entries)
  BY EmptyIs DEF MemtableInit
<1>3. FlushInv
  BY DEF MemtableInit, FlushInv
<1> QED
  BY <1>1, <1>2, <1>3, FilterInitInv DEF MemtableInv

\* What each step of the memtable does to the filter.
LEMMA FilterSteps ==
  ASSUME MemtableInv, [MemtableNext]_memtable_vars
  PROVE  [FilterNext]_filter_vars
<1>1. ASSUME NEW key \in FilterKeys, NEW value \in StoredValues, PutEntry(key, value)
      PROVE  UNCHANGED filter_vars
  BY <1>1 DEF PutEntry
<1>2. ASSUME StartFlush PROVE FilterNext
  <2>1. run' = SortedRun(entries) /\ DOMAIN entries # {}
    BY <1>2, TreeRun, EmptyIs DEF StartFlush, MemtableInv
  <2>2. Construct(CeilDiv(Len(run'), MAX_KEYS))
    BY <1>2 DEF StartFlush
  <2>3. CeilDiv(Len(run'), MAX_KEYS) \in 1 .. MaxFilterEntries
    BY <2>1, RunOfPut DEF MemtableInv
  <2> QED
    BY <2>2, <2>3 DEF FilterNext
<1>3. ASSUME FilterEntry PROVE FilterNext
  <2>1. run = SortedRun(entries) /\ next \in 1 .. Len(run) /\ Insert(run[next].key)
    BY <1>3, RunOfPut DEF FilterEntry, MemtableInv, FlushInv
  <2>2. run[next] \in Contents(run)
    BY <2>1, RunOfPut DEF Contents, MemtableInv
  <2>3. PICK k \in DOMAIN entries : run[next] = [key |-> k, value |-> entries[k]]
    BY <2>1, <2>2, RunOfPut DEF MemtableInv
  <2>4. run[next].key \in FilterKeys
    BY <2>3 DEF MemtableInv, IsPut
  <2> QED
    BY <2>1, <2>4 DEF FilterNext
<1>4. ASSUME WriteFile PROVE UNCHANGED filter_vars
  BY <1>4 DEF WriteFile
<1>5. ASSUME Return PROVE FilterNext
  <2>1. Construct(1) /\ 1 \in 1 .. MaxFilterEntries
    BY <1>5, BloomFilterAssumption DEF Return
  <2> QED
    BY <2>1 DEF FilterNext
<1>6. CASE UNCHANGED memtable_vars
  BY <1>6 DEF memtable_vars
<1> QED
  BY <1>1, <1>2, <1>3, <1>4, <1>5, <1>6 DEF MemtableNext

\* Puts keep the tree, and flushes what they have done so far.
LEMMA MemtableNextInv == MemtableInv /\ [MemtableNext]_memtable_vars => MemtableInv'
<1> SUFFICES ASSUME MemtableInv, [MemtableNext]_memtable_vars PROVE MemtableInv'
  OBVIOUS
<1>0. FilterInv'
  BY FilterSteps, FilterNextInv DEF MemtableInv
<1>1. ASSUME NEW key \in FilterKeys, NEW value \in StoredValues, PutEntry(key, value)
      PROVE  IsPut(entries)' /\ TreeOf(tree, entries)' /\ FlushInv'
  <2>1. /\ stage = "idle" /\ tree' = InsertNode(tree, key, value) /\ entries' = Assign(entries, key, value)
        /\ UNCHANGED <<flush_vars, filter_vars>>
    BY <1>1 DEF PutEntry
  <2>2. /\ DOMAIN entries' = DOMAIN entries \cup {key}
        /\ entries'[key] = value
        /\ \A k \in DOMAIN entries : k # key => entries'[k] = entries[k]
    BY <2>1 DEF Assign
  <2>3. IsPut(entries')
    BY <2>2 DEF IsPut, MemtableInv
  <2>4. key \in Nat /\ value \in 0 .. INVALID_VALUE
    BY MemtableAssumption, BTreeAssumption
  <2>5. /\ IsTree(tree')
        /\ DOMAIN tree'.heap = DOMAIN tree.heap \cup {key}
        /\ tree'.heap[key].value = value
        /\ \A k \in DOMAIN tree.heap : k # key => tree'.heap[k].value = tree.heap[k].value
    BY <2>1, <2>4, InsertIs DEF MemtableInv, TreeOf
  <2>6. TreeOf(tree', entries')
    BY <2>2, <2>5 DEF TreeOf, MemtableInv
  <2>7. FlushInv'
    BY <2>1 DEF FlushInv, flush_vars
  <2> QED
    BY <2>3, <2>6, <2>7
<1>2. ASSUME StartFlush PROVE IsPut(entries)' /\ TreeOf(tree, entries)' /\ FlushInv'
  <2>1. run' = SortedRun(entries) /\ DOMAIN entries # {} /\ next' = 1 /\ stage' = "filter" /\ UNCHANGED <<tree, entries>>
    BY <1>2, TreeRun, EmptyIs DEF StartFlush, MemtableInv
  <2>2. Len(run') \in Nat
    BY <2>1, RunOfPut DEF MemtableInv
  <2>3. FlushInv'
    BY <2>1, <2>2 DEF FlushInv
  <2> QED
    BY <2>1, <2>3 DEF MemtableInv
<1>3. ASSUME FilterEntry PROVE IsPut(entries)' /\ TreeOf(tree, entries)' /\ FlushInv'
  <2>1. /\ stage = "filter" /\ next <= Len(run) /\ inserted' = inserted \cup {run[next].key}
        /\ next' = next + 1 /\ UNCHANGED <<tree, entries, stage, run>>
    BY <1>3 DEF FilterEntry, Insert
  <2>2. /\ run = SortedRun(entries) /\ DOMAIN entries # {} /\ next \in 1 .. Len(run) + 1
        /\ \A i \in 1 .. next - 1 : run[i].key \in inserted
    BY <2>1 DEF MemtableInv, FlushInv
  <2>3. Len(run) \in Nat
    BY <2>2, RunOfPut DEF MemtableInv
  <2>4. next' \in 1 .. Len(run) + 1 /\ \A i \in 1 .. next' - 1 : i \in 1 .. next - 1 \/ i = next
    BY <2>1, <2>2, <2>3
  <2>5. FlushInv'
    BY <2>1, <2>2, <2>4 DEF FlushInv
  <2> QED
    BY <2>1, <2>5 DEF MemtableInv
<1>4. ASSUME WriteFile PROVE IsPut(entries)' /\ TreeOf(tree, entries)' /\ FlushInv'
  <2>1. /\ stage = "filter" /\ next > Len(run) /\ file' = BuildFile(run) /\ tree' = EmptyTree
        /\ stage' = "written" /\ flushed' = entries /\ entries' = EmptyMap /\ inserted' = inserted
    BY <1>4 DEF WriteFile, filter_vars
  <2>2. /\ run = SortedRun(entries) /\ DOMAIN entries # {} /\ next \in 1 .. Len(run) + 1
        /\ \A i \in 1 .. next - 1 : run[i].key \in inserted
    BY <2>1 DEF MemtableInv, FlushInv
  <2>3. run \in Seq(Entry) /\ Contents(run) = {[key |-> k, value |-> entries[k]] : k \in DOMAIN entries}
    BY <2>2, RunOfPut DEF MemtableInv
  <2>4. \A i \in DOMAIN run : run[i].key \in inserted
    BY <2>1, <2>2, <2>3
  <2>5. DOMAIN entries \subseteq inserted
    <3>1. ASSUME NEW k \in DOMAIN entries PROVE k \in inserted
      <4>1. [key |-> k, value |-> entries[k]] \in Contents(run)
        BY <2>3
      <4>2. PICK i \in DOMAIN run : run[i] = [key |-> k, value |-> entries[k]]
        BY <4>1 DEF Contents
      <4>3. run[i].key = k
        BY <4>2
      <4> QED
        BY <2>4, <4>3
    <3> QED
      BY <3>1
  <2>6. IsPut(flushed)'
    BY <2>1 DEF MemtableInv, IsPut
  <2>7. FlushInv'
    BY <2>1, <2>2, <2>5, <2>6 DEF FlushInv
  <2>8. IsPut(entries)' /\ TreeOf(tree, entries)'
    BY <2>1, EmptyIs
  <2> QED
    BY <2>7, <2>8
<1>5. ASSUME Return PROVE IsPut(entries)' /\ TreeOf(tree, entries)' /\ FlushInv'
  BY <1>5 DEF Return, MemtableInv, FlushInv, IsPut, TreeOf
<1>6. ASSUME UNCHANGED memtable_vars PROVE IsPut(entries)' /\ TreeOf(tree, entries)' /\ FlushInv'
  BY <1>6 DEF memtable_vars, flush_vars, filter_vars, MemtableInv, FlushInv, IsPut, TreeOf
<1> QED
  BY <1>0, <1>1, <1>2, <1>3, <1>4, <1>5, <1>6 DEF MemtableNext, MemtableInv

\* The invariant holds always.
LEMMA MemtableInvariant == MemtableSpec => []MemtableInv
  BY MemtableInitInv, MemtableNextInv, PTL DEF MemtableSpec

-----------------------------------------------------------------------------
(* Theorems                                                                *)

\* avl_tree.cpp: whatever is put in whatever order, into a tree of any size,
\* the tree stays balanced, the heights its nodes keep are those of their
\* subtrees, and no node of it is lost.
THEOREM TreeStaysBalanced == MemtableSpec => []TreeIsBalanced
<1>1. MemtableInv => TreeIsBalanced
  <2> SUFFICES ASSUME MemtableInv PROVE TreeIsBalanced
    OBVIOUS
  <2> DEFINE h == tree.heap
             depth == CHOOSE f : f = [n \in DOMAIN h \cup {Null} |-> DepthBody(f, h, n)]
  <2>1. IsTree(tree) /\ IsPut(entries) /\ TreeOf(tree, entries) /\ DOMAIN h = DOMAIN entries
    BY DEF MemtableInv, TreeOf
  <2>2. depth = Heights(tree)
    <3>1. depth = [n \in DOMAIN h \cup {Null} |-> DepthBody(depth, h, n)]
      <4>1. \E f : f = [n \in DOMAIN h \cup {Null} |-> DepthBody(f, h, n)]
        BY <2>1, DepthIs DEF Pointers
      <4> HIDE DEF h
      <4> QED
        BY <4>1
    <3> HIDE DEF depth
    <3> QED
      BY <2>1, <3>1, DepthIs DEF Pointers
  <2>3. ASSUME NEW n \in DOMAIN h
        PROVE  h[n].height = Heights(tree)[n] /\ GetBalance(h, n) \in -1 .. 1
    <3>1. PICK S : n # Null /\ IsHeap(h) /\ IsSubtree(h, n, S)
      BY <2>1, ChildrenBelow, EverySubtree DEF IsTree
    <3>2. GetHeight(h, h[n].left) - GetHeight(h, h[n].right) \in -1 .. 1
      <4>1. PICK A, B : Parts(h, n, S, A, B)
        BY <3>1, SubtreeParts
      <4> QED
        BY <4>1 DEF Parts
    <3> QED
      BY <3>1, <3>2, HeightsTyped DEF GetBalance, Heights, Pointers, GetHeight
  <2>4. Len(InOrder(tree)) = Cardinality(DOMAIN h)
    BY <2>1, TreeRun, RunOfPut
  <2>5. \A n \in DOMAIN h : h[n].height = depth[n] /\ GetBalance(h, n) \in -1 .. 1
    BY <2>2, <2>3
  <2> QED
    BY <2>4, <2>5 DEF TreeIsBalanced, DepthBody
<1> QED
  BY <1>1, MemtableInvariant, PTL

\* avl_tree.cpp and btree.cpp:16-37: get, the range scan and the walk of a
\* flush all answer from the map of what was put, for every order of the puts.
THEOREM TreeStaysMap == MemtableSpec => []TreeIsMap
<1>1. MemtableInv => TreeIsMap
  <2> SUFFICES ASSUME MemtableInv PROVE TreeIsMap
    OBVIOUS
  <2>1. /\ IsTree(tree) /\ IsPut(entries) /\ TreeOf(tree, entries) /\ DOMAIN tree.heap = DOMAIN entries
        /\ DOMAIN tree.heap \subseteq 0 .. INVALID_VALUE
        /\ \A k \in DOMAIN entries : tree.heap[k].value = entries[k]
    BY RunOfPut DEF MemtableInv, TreeOf
  <2>2. FilterKeys \subseteq Nat
    BY MemtableAssumption
  <2>3. ASSUME NEW key \in FilterKeys
        PROVE  GetValue(tree, key) = IF key \in DOMAIN entries THEN entries[key] ELSE INVALID_VALUE
    BY <2>1, <2>2, GetValueIs
  <2>4. ASSUME NEW lo \in FilterKeys, NEW hi \in FilterKeys
        PROVE  LET found == ScanTree(tree, lo, hi)
               IN  /\ IsInjective(found)
                   /\ Range(found) = InRange(entries, lo, hi)
                   /\ \A i, j \in DOMAIN found : i < j => found[i].key < found[j].key
    <3> DEFINE found == ScanTree(tree, lo, hi)
    <3>1. /\ found \in Seq(Entry) /\ KeysGoUp(found)
          /\ Contents(found) = Within(EntriesOf(tree.heap, DOMAIN tree.heap), lo, hi)
      BY <2>1, <2>2, ScanTreeIs
    <3> HIDE DEF found
    <3>2. Within(EntriesOf(tree.heap, DOMAIN tree.heap), lo, hi) = InRange(entries, lo, hi)
      <4>1. EntriesOf(tree.heap, DOMAIN tree.heap) = {[key |-> k, value |-> entries[k]] : k \in DOMAIN entries}
        BY <2>1 DEF EntriesOf, EntryOf
      <4>2. \A k : [key |-> k, value |-> entries[k]].key = k
        OBVIOUS
      <4> QED
        BY <4>1, <4>2 DEF Within, InRange
    <3>3. Range(found) = Contents(found)
      BY DEF Range, Contents
    <3>4. \A i, j \in DOMAIN found : i < j => found[i].key < found[j].key
      BY <3>1 DEF KeysGoUp
    <3>5. IsInjective(found)
      <4>1. DOMAIN found \subseteq Nat /\ \A i \in DOMAIN found : found[i].key \in Nat
        <5>1. DOMAIN found = 1 .. Len(found) /\ Len(found) \in Nat /\ \A i \in DOMAIN found : found[i] \in Entry
          BY <3>1
        <5>2. \A e \in Entry : e.key \in Nat
          BY DEF Entry
        <5> QED
          BY <5>1, <5>2
      <4>2. ASSUME NEW i \in DOMAIN found, NEW j \in DOMAIN found, found[i] = found[j] PROVE i = j
        <5>1. ~ (i < j) /\ ~ (j < i)
          <6>1. ~ (found[i].key < found[j].key) /\ ~ (found[j].key < found[i].key)
            BY <4>1, <4>2
          <6> QED
            BY <3>4, <6>1
        <5> QED
          BY <4>1, <5>1
      <4> QED
        BY <4>2 DEF IsInjective
    <3> QED
      BY <3>1, <3>2, <3>3, <3>4, <3>5 DEF found
  <2>5. InOrder(tree) = SortedRun(entries)
    BY <2>1, TreeRun
  <2> QED
    BY <2>3, <2>4, <2>5 DEF TreeIsMap
<1> QED
  BY <1>1, MemtableInvariant, PTL

\* btree.cpp:157 and bloom_filter.cpp: a file answers for every key as the
\* memtable it was flushed from, its filter asked first, however long the run
\* is and however many leaves it takes.
THEOREM FlushedFileIsMemtable == MemtableSpec => []FlushedFileAnswers
<1>1. MemtableInv => FlushedFileAnswers
  <2> SUFFICES ASSUME MemtableInv, stage = "written", NEW key \in FilterKeys
               PROVE  FilteredSearch(key) = IF key \in DOMAIN flushed THEN flushed[key] ELSE INVALID_VALUE
    BY DEF FlushedFileAnswers
  <2> DEFINE r == SortedRun(flushed)
  <2>1. /\ IsPut(flushed) /\ DOMAIN flushed # {} /\ DOMAIN flushed \subseteq inserted
        /\ file = BuildFile(r)
    BY DEF MemtableInv, FlushInv
  <2>2. /\ r \in Seq(Entry) /\ r # <<>> /\ KeysGoUp(r)
        /\ Contents(r) = {[key |-> k, value |-> flushed[k]] : k \in DOMAIN flushed}
    BY <2>1, RunOfPut
  <2> HIDE DEF r
  <2>3. key \in Nat
    BY MemtableAssumption
  <2>4. CASE key \in DOMAIN flushed
    <3>1. [key |-> key, value |-> flushed[key]] \in Contents(r)
      BY <2>2, <2>4
    <3>2. PICK x \in DOMAIN r : r[x] = [key |-> key, value |-> flushed[key]]
      BY <3>1 DEF Contents
    <3>3. r[x].key = key /\ r[x].value = flushed[key]
      BY <3>2
    <3>4. SearchValueByKey(file, key) = flushed[key]
      BY <2>1, <2>2, <2>3, <3>3, SearchFinds
    <3>5. MayContain(key)
      BY <2>1, <2>4 DEF MemtableInv, FilterInv, NoFalseNegatives
    <3> QED
      BY <2>4, <3>4, <3>5 DEF FilteredSearch
  <2>5. CASE key \notin DOMAIN flushed
    <3>1. ASSUME NEW x \in DOMAIN r PROVE r[x].key # key
      <4>1. r[x] \in Contents(r)
        BY DEF Contents
      <4>2. PICK k \in DOMAIN flushed : r[x] = [key |-> k, value |-> flushed[k]]
        BY <2>2, <4>1
      <4>3. r[x].key = k
        BY <4>2
      <4> QED
        BY <2>5, <4>3
    <3>2. SearchValueByKey(file, key) = INVALID_VALUE
      BY <2>1, <2>2, <2>3, <3>1, SearchFinds
    <3> QED
      BY <2>5, <3>2 DEF FilteredSearch
  <2> QED
    BY <2>4, <2>5
<1> QED
  BY <1>1, MemtableInvariant, PTL

\* btree.cpp:57-66, 334-345: a flush constructs a filter for one leaf at least
\* and no more than there can be, and gives it keys only, as FilterSpec has it.
THEOREM FlushIsFilterUse == MemtableSpec => FlushImplementsFilter
<1>1. MemtableInit => FilterInit
  BY BloomFilterAssumption DEF MemtableInit, FilterInit
<1>2. MemtableInv /\ [MemtableNext]_memtable_vars => [FilterNext]_filter_vars
  BY FilterSteps
<1> QED
  BY <1>1, <1>2, MemtableInvariant, PTL DEF MemtableSpec, FlushImplementsFilter, FilterSpec
=============================================================================
