-------------------------- MODULE BufferPoolProofs --------------------------
(***************************************************************************)
(* Proofs about the page table and the buffer pool: for any pages, depths, *)
(* bucket size and hash functions, every page is in the bucket that its    *)
(* hash leads to; and for any sizes that the pool is resized to, its list  *)
(* and its table have the same pages, and it is an LRU cache.              *)
(***************************************************************************)
EXTENDS BufferPool, NatRecursion, FiniteSetTheorems, SequenceTheorems

-----------------------------------------------------------------------------
(* Powers of two and remainders                                            *)

\* 2^n is the number of subsets of a set of n elements, which doubles with each
\* element: half of the subsets have it.
LEMMA PowerDoubles ==
  ASSUME NEW n \in Nat
  PROVE  2^(n + 1) = 2^n + 2^n
<1> DEFINE A == SUBSET (1 .. n)
           With(X) == X \cup {n + 1}
           B == {With(X) : X \in A}
           f == [X \in A |-> X \cup {n + 1}]
<1>0. \A X \in A : n + 1 \notin X
  BY n + 1 \notin 1 .. n
<1>1. IsFiniteSet(1 .. n) /\ Cardinality(1 .. n) = n
  BY FS_Interval, SMT
<1>2. IsFiniteSet(1 .. n + 1) /\ Cardinality(1 .. n + 1) = n + 1
  <2>1. n + 1 \in Nat /\ ~ (1 > n + 1) /\ (n + 1) - 1 + 1 = n + 1 /\ 1 \in Int /\ n + 1 \in Int
    OBVIOUS
  <2> QED
    BY <2>1, FS_Interval
<1>3. IsFiniteSet(A) /\ Cardinality(A) = 2^n
  BY <1>1, FS_SUBSET
<1>4. f \in Bijection(A, B)
  <2>1. \A X \in A : n + 1 \notin X
    BY <1>0
  <2>2. f \in Injection(A, B)
    <3>0. f \in [A -> B]
      OBVIOUS
    <3>1. ASSUME NEW X \in A, NEW Y \in A, f[X] = f[Y] PROVE X = Y
      <4>1. X \cup {n + 1} = Y \cup {n + 1}
        BY <3>1
      <4> QED
        BY <2>1, <4>1
    <3> HIDE DEF A, B, f
    <3>2. \A X, Y \in A : f[X] = f[Y] => X = Y
      BY <3>1
    <3> QED
      BY <3>0, <3>2 DEF Injection, IsInjective
  <2>3. f \in Surjection(A, B)
    BY DEF Surjection
  <2> QED
    BY <2>2, <2>3 DEF Bijection
<1>5. IsFiniteSet(B) /\ Cardinality(B) = 2^n
  BY <1>3, <1>4, FS_Bijection DEF ExistsBijection
<1>6. A \cap B = {}
  <2>1. \A X : n + 1 \in With(X)
    OBVIOUS
  <2> QED
    BY <1>0, <2>1
<1>7. SUBSET (1 .. n + 1) = A \cup B
  <2>1. \A X \in A : X \subseteq 1 .. n + 1 /\ With(X) \subseteq 1 .. n + 1
    BY n + 1 \in 1 .. n + 1, 1 .. n \subseteq 1 .. n + 1
  <2>2. ASSUME NEW X \in SUBSET (1 .. n + 1) PROVE X \in A \cup B
    <3>1. X \ {n + 1} \in A
      OBVIOUS
    <3>2. n + 1 \in X => X = (X \ {n + 1}) \cup {n + 1}
      OBVIOUS
    <3>3. n + 1 \notin X => X = X \ {n + 1}
      OBVIOUS
    <3> QED
      BY <3>1, <3>2, <3>3
  <2> DEFINE C == SUBSET (1 .. n + 1)
  <2>3. A \subseteq C /\ \A X \in A : With(X) \in C
    BY <2>1
  <2>4. C \subseteq A \cup B
    BY <2>2
  <2> HIDE DEF A, C, With
  <2>5. A \cup B \subseteq C
    BY <2>3
  <2> QED
    BY <2>4, <2>5 DEF C
<1>8. Cardinality(SUBSET (1 .. n + 1)) = 2^(n + 1)
  BY <1>2, FS_SUBSET
<1>9. Cardinality(A \cup B) = Cardinality(A) + Cardinality(B) - 0 /\ Cardinality(A) \in Nat
  <2>1. Cardinality(A) \in Nat
    BY <1>3, FS_CardinalityType
  <2>2. Cardinality(A \cup B) = Cardinality(A) + Cardinality(B) - Cardinality(A \cap B)
    BY <1>3, <1>5, FS_Union
  <2> QED
    BY <1>6, <2>1, <2>2, FS_EmptySet
<1> HIDE DEF A, B, f
<1>10. 2^(n + 1) = 2^n + 2^n - 0 /\ 2^n \in Nat
  BY <1>3, <1>5, <1>7, <1>8, <1>9
<1> QED
  BY <1>10

\* The number of entries of a directory is positive, and 1 at depth 0.
LEMMA PowerPositive ==
  /\ 2^0 = 1
  /\ \A n \in Nat : 2^n \in Nat /\ 2^n > 0
<1> DEFINE S == {n \in Nat : 2^n \in Nat /\ 2^n > 0}
<1>1. 2^0 = 1
  <2>1. IsFiniteSet({}) /\ Cardinality({}) = 0
    BY FS_EmptySet
  <2>2. Cardinality(SUBSET {}) = 2^0
    BY <2>1, FS_SUBSET
  <2>3. SUBSET {} = {{}}
    OBVIOUS
  <2> QED
    BY <2>2, <2>3, FS_Singleton
<1>2. 0 \in S
  BY <1>1
<1>3. ASSUME NEW n \in Nat, n \in S PROVE n + 1 \in S
  BY <1>3, PowerDoubles
<1> QED
  BY <1>1, <1>2, <1>3, InductionOnNat

\* A deeper directory has more entries.
LEMMA PowerGrows ==
  ASSUME NEW a \in Nat, NEW b \in Nat, a <= b
  PROVE  2^a <= 2^b
<1> DEFINE S == {n \in Nat : 2^a <= 2^(a + n)}
<1>1. 0 \in S
  BY PowerPositive
<1>2. ASSUME NEW n \in Nat, n \in S PROVE n + 1 \in S
  <2>1. 2^((a + n) + 1) = 2^(a + n) + 2^(a + n) /\ a + (n + 1) = (a + n) + 1 /\ a + n \in Nat
    BY PowerDoubles
  <2>2. 2^(a + n) \in Nat /\ 2^a \in Nat /\ 2^a <= 2^(a + n)
    BY <1>2, <2>1, PowerPositive
  <2>3. 2^a <= 2^((a + n) + 1)
    BY <2>1, <2>2
  <2> QED
    BY <2>1, <2>3
<1>3. b - a \in Nat /\ a + (b - a) = b
  OBVIOUS
<1>4. b - a \in S
  BY <1>1, <1>2, <1>3, InductionOnNat
<1> QED
  BY <1>3, <1>4

\* A number is a multiple of P and the remainder.
LEMMA DivisionOf ==
  ASSUME NEW P \in Nat, P > 0, NEW x \in Nat
  PROVE  \E d \in Nat, m \in Nat : x = d * P + m /\ m < P
<1> DEFINE d == x \div P
           m == x % P
<1>1. d \in Nat /\ m \in Nat /\ m < P /\ x = P * d + m
  OBVIOUS
<1> HIDE DEF d, m
<1>2. P * d = d * P
  BY <1>1
<1> QED
  BY <1>1, <1>2

\* The remainder is the only one.
LEMMA RemainderIs ==
  ASSUME NEW P \in Nat, P > 0, NEW q \in Nat, NEW r \in Nat, r < P
  PROVE  (q * P + r) % P = r
<1> DEFINE x == q * P + r
           d == x \div P
           m == x % P
<1>1. x \in Nat
  OBVIOUS
<1>2. d \in Nat /\ m \in Nat /\ m < P /\ x = P * d + m
  BY <1>1
<1> HIDE DEF d, m
<1>3. ~ (d >= q + 1)
  <2> SUFFICES ASSUME d >= q + 1 PROVE FALSE
    OBVIOUS
  <2>1. P * d >= P * (q + 1)
    BY <1>2
  <2> QED
    BY <1>2, <2>1
<1>4. ~ (q >= d + 1)
  <2> SUFFICES ASSUME q >= d + 1 PROVE FALSE
    OBVIOUS
  <2>1. P * q >= P * (d + 1)
    BY <1>2
  <2> QED
    BY <1>2, <2>1
<1>5. d = q
  BY <1>2, <1>3, <1>4
<1> QED
  BY <1>2, <1>5 DEF m

\* What is below P is its own remainder.
LEMMA RemainderOfSmall ==
  ASSUME NEW P \in Nat, NEW r \in Nat, r < P
  PROVE  r % P = r
<1>1. P > 0 /\ 0 * P + r = r /\ 0 \in Nat
  OBVIOUS
<1> QED
  BY <1>1, RemainderIs

\* A remainder is less than the divisor.
LEMMA RemainderRange ==
  ASSUME NEW P \in Nat, P > 0, NEW x \in Nat
  PROVE  x % P \in Nat /\ x % P < P
OBVIOUS

\* One bit more of x is 0 or 1 in front of the bits it has already.
LEMMA OneBitMore ==
  ASSUME NEW P \in Nat, P > 0, NEW x \in Nat
  PROVE  /\ x % (P + P) = x % P \/ x % (P + P) = (x % P) + P
         /\ (x % (P + P)) % P = x % P
<1> DEFINE Q == P + P
           d == x \div Q
           m == x % Q
<1>1. Q \in Nat /\ Q > 0
  OBVIOUS
<1>2. d \in Nat /\ m \in Nat /\ m < Q /\ x = Q * d + m
  BY <1>1
<1> HIDE DEF d, m
<1>3. Q * d = (d + d) * P /\ d + d \in Nat /\ (d + d) + 1 \in Nat
  BY <1>2
<1>4. CASE m < P
  <2>1. x = (d + d) * P + m
    BY <1>2, <1>3
  <2>2. x % P = m /\ m % P = m
    BY <1>2, <1>3, <1>4, <2>1, RemainderIs, RemainderOfSmall
  <2> QED
    BY <2>2 DEF m
<1>5. CASE ~ (m < P)
  <2>1. m - P \in Nat /\ m - P < P
    BY <1>2, <1>5
  <2>2. x = ((d + d) + 1) * P + (m - P) /\ m = 1 * P + (m - P)
    BY <1>2, <1>3, <2>1
  <2>3. x % P = m - P
    BY <1>3, <2>1, <2>2, RemainderIs
  <2>4. m % P = m - P
    BY <2>1, <2>2, RemainderIs
  <2>5. m = (x % P) + P
    BY <1>2, <2>1, <2>3
  <2> QED
    BY <2>3, <2>4, <2>5 DEF m
<1> QED
  BY <1>4, <1>5

\* The last b bits of the last a bits.
LEMMA LastBits ==
  ASSUME NEW x \in Nat, NEW a \in Nat, NEW b \in Nat, b <= a
  PROVE  (x % 2^a) % 2^b = x % 2^b
<1> DEFINE S == {n \in Nat : (x % 2^(b + n)) % 2^b = x % 2^b}
<1>1. 0 \in S
  <2>1. 2^b \in Nat /\ 2^b > 0 /\ b + 0 = b
    BY PowerPositive
  <2>2. x % 2^b \in Nat /\ x % 2^b < 2^b
    BY <2>1, RemainderRange
  <2> QED
    BY <2>1, <2>2, RemainderOfSmall
<1>2. ASSUME NEW n \in Nat, n \in S PROVE n + 1 \in S
  <2> DEFINE P == 2^(b + n)
             y == x % (P + P)
  <2>1. 2^((b + n) + 1) = P + P /\ b + (n + 1) = (b + n) + 1 /\ b + n \in Nat
    BY PowerDoubles
  <2>2. P \in Nat /\ P > 0 /\ 2^b \in Nat /\ 2^b > 0
    BY <2>1, PowerPositive
  <2> HIDE DEF P
  <2>3. y = x % P \/ y = (x % P) + P
    BY <2>2, OneBitMore
  <2>4. \E q \in Nat : P = q * 2^b
    <3> DEFINE Multiple(m) == \E q \in Nat : m = q * 2^b
               R == {k \in Nat : Multiple(2^(b + k))}
    <3>1. 0 \in R
      <4>1. b + 0 = b /\ 2^b = 1 * 2^b /\ 1 \in Nat
        BY <2>2
      <4> QED
        BY <4>1
    <3>2. ASSUME NEW k \in Nat, k \in R PROVE k + 1 \in R
      <4>1. PICK q \in Nat : 2^(b + k) = q * 2^b
        BY <3>2
      <4>2. 2^((b + k) + 1) = 2^(b + k) + 2^(b + k) /\ b + (k + 1) = (b + k) + 1
        BY PowerDoubles
      <4>3. q * 2^b + q * 2^b = (q + q) * 2^b /\ q + q \in Nat
        BY <2>2
      <4>4. PICK r \in Nat : r = q + q
        BY <4>3
      <4>5. 2^(b + (k + 1)) = r * 2^b
        BY <4>1, <4>2, <4>3, <4>4
      <4>6. Multiple(2^(b + (k + 1)))
        BY <4>5
      <4> HIDE DEF Multiple
      <4> QED
        BY <4>6
    <3>3. n \in R
      BY <3>1, <3>2, InductionOnNat
    <3> QED
      BY <3>3 DEF P
  <2>5. PICK q \in Nat : P = q * 2^b
    BY <2>4
  <2>6. (x % P) % 2^b = x % 2^b
    BY <1>2 DEF P
  <2>7. ((x % P) + P) % 2^b = (x % P) % 2^b
    <3> DEFINE z == x % P
               B == 2^b
    <3>1. z \in Nat
      BY <2>2, RemainderRange
    <3>2. B \in Nat /\ B > 0 /\ P = q * B
      BY <2>2, <2>5
    <3> HIDE DEF z, B
    <3>3. PICK d \in Nat, m \in Nat : z = d * B + m /\ m < B
      BY <3>1, <3>2, DivisionOf
    <3>4. z + P = (d + q) * B + m /\ d + q \in Nat
      BY <3>1, <3>2, <3>3
    <3>5. z % B = m
      BY <3>2, <3>3, RemainderIs
    <3>6. (z + P) % B = m
      BY <3>2, <3>3, <3>4, RemainderIs
    <3> QED
      BY <3>5, <3>6 DEF z, B
  <2>8. y % 2^b = x % 2^b
    BY <2>3, <2>6, <2>7
  <2>9. x % 2^(b + (n + 1)) = y
    BY <2>1
  <2>10. (x % 2^(b + (n + 1))) % 2^b = x % 2^b
    BY <2>8, <2>9
  <2> QED
    BY <2>10
<1>3. a - b \in Nat /\ b + (a - b) = a
  OBVIOUS
<1>4. a - b \in S
  BY <1>1, <1>2, <1>3, InductionOnNat
<1> QED
  BY <1>3, <1>4
-----------------------------------------------------------------------------
(* The directory                                                           *)

\* The entries of a directory of depth g.
Ids(g) == 0 .. 2^g - 1

\* Entry i of the directory at depth e - 1 has lost its "1" variant to a bucket
\* of that variant's own.
Cut(dir, e, i) == dir[i] # dir[i + 2^(e - 1)]

\* A "1" variant that has been cut off is, among the entries of that depth, the
\* only one of its bucket: split_bucket cuts off one entry at a time.
CutAlone(g, dir) ==
  \A e \in 1 .. g : \A i \in Ids(e - 1) :
    Cut(dir, e, i) => \A j \in Ids(e) : dir[j] = dir[i + 2^(e - 1)] => j = i + 2^(e - 1)

\* The bucket a has not been split since the directory had depth d - 1.
Whole(g, dir, a, d) ==
  \A e \in d .. g : \A i \in Ids(e - 1) : dir[i] = a => ~ Cut(dir, e, i)

\* Such a bucket is no deeper than that.
NotTooDeep(g, dir, depth) ==
  \A d \in 1 .. g + 1 : \A i \in Ids(d - 1) :
    Whole(g, dir, dir[i], d) => depth[dir[i]] <= d - 1

\* The depths at which entry i was cut off, or its other variant was from it.
Cuts(g, dir, i) == {e \in 1 .. g : Cut(dir, e, i % 2^(e - 1))}

\* Each of them has made its bucket one deeper: local_depth does not sink below
\* 0 when they are undone.
DeepEnough(g, dir, depth) ==
  \A i \in Ids(g) : Cardinality(Cuts(g, dir, i)) <= depth[dir[i]]

\* The directory dir of depth g leads to the buckets that depth gives a local
\* depth, and to each of them.
Leads(g, dir, depth) ==
  /\ g \in Nat
  /\ dir \in [Ids(g) -> DOMAIN depth]
  /\ depth \in [DOMAIN depth -> Nat]
  /\ \A a \in DOMAIN depth : \E i \in Ids(g) : dir[i] = a

Directory(g, dir, depth) ==
  /\ Leads(g, dir, depth)
  /\ CutAlone(g, dir)
  /\ NotTooDeep(g, dir, depth)
  /\ DeepEnough(g, dir, depth)

\* The entries of a lower depth are among those of a higher one.
LEMMA IdsGrow ==
  ASSUME NEW a \in Nat, NEW b \in Nat, a <= b
  PROVE  Ids(a) \subseteq Ids(b)
<1>1. 2^a \in Nat /\ 2^b \in Nat /\ 2^a <= 2^b
  BY PowerGrows, PowerPositive
<1> QED
  BY <1>1 DEF Ids

\* The "0" and the "1" variant of each entry are the entries of the next depth.
LEMMA Variants ==
  ASSUME NEW e \in Nat, e >= 1
  PROVE  /\ 2^(e - 1) \in Nat /\ 2^(e - 1) > 0 /\ 2^e = 2^(e - 1) + 2^(e - 1)
         /\ \A i \in Ids(e - 1) : /\ i \in Nat
                                  /\ i \in Ids(e)
                                  /\ i + 2^(e - 1) \in Ids(e) \ Ids(e - 1)
                                  /\ i # i + 2^(e - 1)
         /\ \A j \in Ids(e) \ Ids(e - 1) : /\ j - 2^(e - 1) \in Ids(e - 1)
                                           /\ j = (j - 2^(e - 1)) + 2^(e - 1)
<1>1. e - 1 \in Nat /\ (e - 1) + 1 = e
  OBVIOUS
<1>2. 2^e = 2^(e - 1) + 2^(e - 1) /\ 2^(e - 1) \in Nat /\ 2^(e - 1) > 0
  BY <1>1, PowerDoubles, PowerPositive
<1> DEFINE P == 2^(e - 1)
<1>3. P \in Nat /\ P > 0 /\ 2^e = P + P /\ Ids(e) = 0 .. P + P - 1 /\ Ids(e - 1) = 0 .. P - 1
  BY <1>2 DEF Ids
<1> HIDE DEF P
<1>4. \A i \in 0 .. P - 1 : /\ i \in Nat
                            /\ i \in 0 .. P + P - 1
                            /\ i + P \in (0 .. P + P - 1) \ (0 .. P - 1)
                            /\ i # i + P
  BY <1>3
<1>5. \A j \in (0 .. P + P - 1) \ (0 .. P - 1) : j - P \in 0 .. P - 1 /\ j = (j - P) + P
  BY <1>3
<1>6. /\ P \in Nat /\ P > 0 /\ 2^e = P + P
      /\ \A i \in Ids(e - 1) : /\ i \in Nat
                               /\ i \in Ids(e)
                               /\ i + P \in Ids(e) \ Ids(e - 1)
                               /\ i # i + P
      /\ \A j \in Ids(e) \ Ids(e - 1) : j - P \in Ids(e - 1) /\ j = (j - P) + P
  BY <1>3, <1>4, <1>5
<1> QED
  BY <1>6 DEF P

\* The last bits of any number name an entry.
LEMMA LastBitsAreId ==
  ASSUME NEW x \in Nat, NEW g \in Nat
  PROVE  x % 2^g \in Ids(g)
<1>1. 2^g \in Nat /\ 2^g > 0
  BY PowerPositive
<1>2. x % 2^g \in Nat /\ x % 2^g < 2^g
  BY <1>1, RemainderRange
<1> QED
  BY <1>1, <1>2 DEF Ids

\* An entry is its own last bits, and those of its "1" variant.
LEMMA LastBitsOfId ==
  ASSUME NEW g \in Nat, NEW i \in Ids(g)
  PROVE  i \in Nat /\ i % 2^g = i /\ (i + 2^g) % 2^g = i
<1>1. 2^g \in Nat /\ 2^g > 0
  BY PowerPositive
<1>2. i \in Nat /\ i < 2^g /\ i + 2^g = 1 * 2^g + i
  BY <1>1 DEF Ids
<1>3. (1 * 2^g + i) % 2^g = i
  BY <1>1, <1>2, RemainderIs
<1> QED
  BY <1>1, <1>2, <1>3, RemainderOfSmall

\* The depths of cuts are finitely many.
LEMMA CutsFinite ==
  ASSUME NEW g \in Nat, NEW dir, NEW i
  PROVE  /\ IsFiniteSet(Cuts(g, dir, i))
         /\ Cardinality(Cuts(g, dir, i)) \in Nat
         /\ Cardinality(Cuts(g, dir, i)) <= g
<1>1. IsFiniteSet(1 .. g) /\ Cardinality(1 .. g) = g
  BY FS_Interval, SMT
<1>2. Cuts(g, dir, i) \in SUBSET (1 .. g)
  BY DEF Cuts
<1> QED
  BY <1>1, <1>2, FS_Subset, FS_CardinalityType

\* No bucket is deeper than the directory.
LEMMA DepthBounded ==
  ASSUME NEW g, NEW dir, NEW depth, Directory(g, dir, depth), NEW a \in DOMAIN depth
  PROVE  depth[a] \in 0 .. g
<1>1. g \in Nat /\ depth[a] \in Nat
  BY DEF Directory, Leads
<1>2. PICK i \in Ids(g) : dir[i] = a
  BY DEF Directory, Leads
<1>3. g + 1 \in 1 .. g + 1 /\ (g + 1) - 1 = g /\ (g + 1) .. g = {}
  BY <1>1
<1>4. Whole(g, dir, a, g + 1)
  BY <1>3 DEF Whole
<1>5. depth[a] <= g
  BY <1>2, <1>3, <1>4 DEF Directory, NotTooDeep
<1> QED
  BY <1>1, <1>5

\* The constructor gives each entry a bucket of its own.
LEMMA InitialDirectory ==
  ASSUME NEW g \in Nat
  PROVE  Directory(g, [i \in Ids(g) |-> i], [i \in Ids(g) |-> g])
<1> DEFINE dir == [i \in Ids(g) |-> i]
           depth == [i \in Ids(g) |-> g]
<1>1. Leads(g, dir, depth)
  BY DEF Leads
<1>2. CutAlone(g, dir)
  <2>1. ASSUME NEW e \in 1 .. g, NEW i \in Ids(e - 1)
        PROVE  Ids(e) \subseteq Ids(g) /\ i + 2^(e - 1) \in Ids(e)
    BY IdsGrow, Variants
  <2> QED
    BY <2>1 DEF CutAlone
<1>3. NotTooDeep(g, dir, depth)
  <2> SUFFICES ASSUME NEW d \in 1 .. g + 1, NEW i \in Ids(d - 1), Whole(g, dir, dir[i], d)
               PROVE  depth[dir[i]] <= d - 1
    BY DEF NotTooDeep
  <2>1. i \in Ids(g)
    BY IdsGrow
  <2>2. CASE d = g + 1
    BY <2>1, <2>2
  <2>3. CASE d # g + 1
    <3>1. d \in d .. g /\ d \in Nat /\ d >= 1 /\ d <= g
      BY <2>3
    <3>2. i # i + 2^(d - 1) /\ i + 2^(d - 1) \in Ids(g)
      BY <3>1, Variants, IdsGrow
    <3>3. Cut(dir, d, i)
      BY <2>1, <3>2 DEF Cut
    <3> QED
      BY <3>1, <3>3 DEF Whole
  <2> QED
    BY <2>2, <2>3
<1>4. DeepEnough(g, dir, depth)
  BY CutsFinite DEF DeepEnough
<1> QED
  BY <1>1, <1>2, <1>3, <1>4 DEF Directory
\* expand_directory leaves every bucket as deep as it was, and cuts off nothing.
LEMMA ExpandedDirectory ==
  ASSUME NEW g, NEW dir, NEW depth, Directory(g, dir, depth)
  PROVE  Directory(g + 1, [i \in Ids(g + 1) |-> dir[i % 2^g]], depth)
<1> DEFINE dir2 == [i \in Ids(g + 1) |-> dir[i % 2^g]]
<1>1. /\ g \in Nat /\ g + 1 \in Nat /\ dir \in [Ids(g) -> DOMAIN depth] /\ depth \in [DOMAIN depth -> Nat]
      /\ \A a \in DOMAIN depth : \E i \in Ids(g) : dir[i] = a
  BY DEF Directory, Leads
<1>2. \A e \in 1 .. g : /\ e - 1 \in Nat /\ Ids(e) \subseteq Ids(g) /\ Ids(e - 1) \subseteq Ids(g)
                        /\ \A i \in Ids(e - 1) : i + 2^(e - 1) \in Ids(g)
  BY <1>1, IdsGrow, Variants
<1>3. Ids(g) \subseteq Ids(g + 1)
  BY <1>1, IdsGrow
<1>4. \A i \in Ids(g + 1) : i \in Nat /\ i % 2^g \in Ids(g)
  BY <1>1, LastBitsAreId DEF Ids
<1>5. \A i \in Ids(g) : i % 2^g = i /\ (i + 2^g) % 2^g = i /\ i + 2^g \in Ids(g + 1)
  BY <1>1, LastBitsOfId, Variants, (g + 1) - 1 = g
<1>6. /\ \A i \in Ids(g + 1) : dir2[i] = dir[i % 2^g]
      /\ \A i \in Ids(g) : dir2[i] = dir[i] /\ dir2[i + 2^g] = dir[i]
      /\ dir2 \in [Ids(g + 1) -> DOMAIN depth]
  BY <1>1, <1>3, <1>4, <1>5
<1> HIDE DEF dir2
<1>7. /\ \A i \in Ids((g + 1) - 1) : ~ Cut(dir2, g + 1, i)
      /\ \A e \in 1 .. g : \A i \in Ids(e - 1) : Cut(dir2, e, i) <=> Cut(dir, e, i)
  <2>1. (g + 1) - 1 = g
    BY <1>1
  <2> QED
    BY <1>2, <1>6, <2>1 DEF Cut
<1>8. \A e \in 1 .. g + 1 : e \in 1 .. g \/ e = g + 1
  BY <1>1
<1>9. Leads(g + 1, dir2, depth)
  <2>1. ASSUME NEW a \in DOMAIN depth PROVE \E i \in Ids(g + 1) : dir2[i] = a
    BY <1>1, <1>3, <1>6
  <2> QED
    BY <1>1, <1>6, <2>1 DEF Leads
<1>10. CutAlone(g + 1, dir2)
  <2> SUFFICES ASSUME NEW e \in 1 .. g + 1, NEW i \in Ids(e - 1), Cut(dir2, e, i),
                      NEW j \in Ids(e), dir2[j] = dir2[i + 2^(e - 1)]
               PROVE  j = i + 2^(e - 1)
    BY DEF CutAlone
  <2>1. e \in 1 .. g /\ Cut(dir, e, i)
    BY <1>7, <1>8
  <2>2. dir[j] = dir[i + 2^(e - 1)]
    BY <1>2, <1>6, <2>1
  <2> QED
    BY <2>1, <2>2 DEF Directory, CutAlone
<1>11. NotTooDeep(g + 1, dir2, depth)
  <2> SUFFICES ASSUME NEW d \in 1 .. (g + 1) + 1, NEW i \in Ids(d - 1), Whole(g + 1, dir2, dir2[i], d)
               PROVE  depth[dir2[i]] <= d - 1
    BY DEF NotTooDeep
  <2>1. CASE d = (g + 1) + 1
    <3>1. i \in Ids(g + 1) /\ d - 1 = g + 1
      BY <1>1, <2>1
    <3>2. depth[dir2[i]] \in 0 .. g
      BY <1>6, <3>1, DepthBounded
    <3> QED
      BY <1>1, <3>1, <3>2
  <2>2. CASE d # (g + 1) + 1
    <3>1. d \in 1 .. g + 1 /\ d - 1 \in Nat /\ d - 1 <= g /\ \A e \in d .. g : e \in 1 .. g /\ e \in d .. g + 1
      BY <1>1, <2>2
    <3>2. i \in Ids(g)
      BY <1>1, <3>1, IdsGrow
    <3>3. ASSUME NEW e \in d .. g, NEW j \in Ids(e - 1), dir[j] = dir[i] PROVE ~ Cut(dir, e, j)
      <4>1. dir2[j] = dir2[i]
        BY <1>2, <1>6, <3>1, <3>2, <3>3
      <4>2. ~ Cut(dir2, e, j)
        BY <3>1, <4>1 DEF Whole
      <4> QED
        BY <1>7, <3>1, <4>2
    <3>4. Whole(g, dir, dir[i], d)
      BY <3>3 DEF Whole
    <3> QED
      BY <1>6, <3>1, <3>2, <3>4 DEF Directory, NotTooDeep
  <2> QED
    BY <2>1, <2>2
<1>12. DeepEnough(g + 1, dir2, depth)
  <2> SUFFICES ASSUME NEW i \in Ids(g + 1)
               PROVE  Cardinality(Cuts(g + 1, dir2, i)) <= depth[dir2[i]]
    BY DEF DeepEnough
  <2>1. ASSUME NEW e \in 1 .. g PROVE /\ (i % 2^g) % 2^(e - 1) = i % 2^(e - 1)
                                      /\ i % 2^(e - 1) \in Ids(e - 1)
    <3>1. i \in Nat /\ e - 1 \in Nat /\ e - 1 <= g
      BY <1>1, <1>4
    <3> QED
      BY <1>1, <3>1, LastBits, LastBitsAreId
  <2>2. ~ Cut(dir2, g + 1, i % 2^((g + 1) - 1))
    <3>1. (g + 1) - 1 = g /\ i % 2^g \in Ids(g)
      BY <1>1, <1>4
    <3> QED
      BY <1>7, <3>1
  <2>3. \A e \in 1 .. g + 1 : Cut(dir2, e, i % 2^(e - 1)) <=>
                                e \in 1 .. g /\ Cut(dir, e, (i % 2^g) % 2^(e - 1))
    BY <1>1, <1>7, <1>8, <2>1, <2>2
  <2>4. Cuts(g + 1, dir2, i) = Cuts(g, dir, i % 2^g)
    BY <1>1, <2>3 DEF Cuts
  <2>5. Cardinality(Cuts(g, dir, i % 2^g)) <= depth[dir[i % 2^g]]
    BY <1>4 DEF Directory, DeepEnough
  <2> QED
    BY <1>6, <2>4, <2>5
<1> QED
  BY <1>9, <1>10, <1>11, <1>12 DEF Directory, dir2

\* A split that cuts off nothing: the bucket of an entry that has been cut gets
\* deeper.
LEMMA DeepenedDirectory ==
  ASSUME NEW g, NEW dir, NEW depth, Directory(g, dir, depth), g >= 1,
         NEW low \in Ids(g - 1), Cut(dir, g, low),
         NEW id \in {low, low + 2^(g - 1)}, depth[dir[id]] < g
  PROVE  Directory(g, dir, [depth EXCEPT ![dir[id]] = @ + 1])
<1> DEFINE top == low + 2^(g - 1)
           depth2 == [depth EXCEPT ![dir[id]] = @ + 1]
<1>1. /\ g \in Nat /\ dir \in [Ids(g) -> DOMAIN depth] /\ depth \in [DOMAIN depth -> Nat]
      /\ \A a \in DOMAIN depth : \E i \in Ids(g) : dir[i] = a
  BY DEF Directory, Leads
<1>2. low \in Ids(g) /\ top \in Ids(g) /\ top \notin Ids(g - 1) /\ id \in Ids(g) /\ g \in 1 .. g
  BY <1>1, Variants
<1>3. /\ DOMAIN depth2 = DOMAIN depth /\ depth2 \in [DOMAIN depth -> Nat]
      /\ \A a \in DOMAIN depth : depth[a] <= depth2[a]
      /\ \A a \in DOMAIN depth : a # dir[id] => depth2[a] = depth[a]
      /\ depth2[dir[id]] = depth[dir[id]] + 1
  BY <1>1, <1>2
<1> HIDE DEF depth2
<1>4. Leads(g, dir, depth2)
  BY <1>1, <1>3 DEF Leads
<1>5. NotTooDeep(g, dir, depth2)
  <2> SUFFICES ASSUME NEW d \in 1 .. g + 1, NEW i \in Ids(d - 1), Whole(g, dir, dir[i], d)
               PROVE  depth2[dir[i]] <= d - 1
    BY DEF NotTooDeep
  <2>1. d - 1 \in Nat /\ d - 1 <= g
    BY <1>1
  <2>2. i \in Ids(g) /\ dir[i] \in DOMAIN depth
    BY <1>1, <2>1, IdsGrow
  <2>3. depth[dir[i]] <= d - 1
    BY DEF Directory, NotTooDeep
  <2>4. CASE dir[i] # dir[id]
    BY <1>3, <2>2, <2>3, <2>4
  <2>5. CASE dir[i] = dir[id] /\ d = g + 1
    BY <1>1, <1>2, <1>3, <2>5
  <2>6. CASE dir[i] = dir[id] /\ d # g + 1
    <3>1. g \in d .. g /\ d - 1 <= g - 1 /\ g - 1 \in Nat
      BY <1>1, <2>6
    <3>2. i \in Ids(g - 1)
      BY <2>1, <3>1, IdsGrow
    <3>3. CASE id = low
      BY <2>6, <3>1, <3>3 DEF Whole
    <3>4. CASE id = top
      <4>1. i = top
        BY <1>2, <2>2, <2>6, <3>4 DEF Directory, CutAlone
      <4> QED
        BY <1>2, <3>2, <4>1
    <3> QED
      BY <3>3, <3>4
  <2> QED
    BY <2>4, <2>5, <2>6
<1>6. DeepEnough(g, dir, depth2)
  <2> SUFFICES ASSUME NEW i \in Ids(g) PROVE Cardinality(Cuts(g, dir, i)) <= depth2[dir[i]]
    BY DEF DeepEnough
  <2>1. Cardinality(Cuts(g, dir, i)) <= depth[dir[i]]
    BY DEF Directory, DeepEnough
  <2>2. depth[dir[i]] <= depth2[dir[i]] /\ depth[dir[i]] \in Nat /\ depth2[dir[i]] \in Nat
    BY <1>1, <1>3
  <2>3. Cardinality(Cuts(g, dir, i)) \in Nat
    BY <1>1, CutsFinite
  <2> QED
    BY <2>1, <2>2, <2>3
<1> QED
  BY <1>4, <1>5, <1>6 DEF Directory, depth2

\* The "1" variant of low gets the new bucket.
CutOff(g, dir, depth, low, new, dir2, depth2) ==
  /\ dir2 = [i \in Ids(g) |-> IF i = low + 2^(g - 1) THEN new ELSE dir[i]]
  /\ depth2 = [a \in DOMAIN depth \cup {new} |->
                 IF a = dir[low] \/ a = new THEN depth[dir[low]] + 1 ELSE depth[a]]

\* A split that cuts a "1" variant off: its bucket is new, and it and the bucket
\* that it had are one deeper than that was.
LEMMA SplitDirectory ==
  ASSUME NEW g, NEW dir, NEW depth, Directory(g, dir, depth), g >= 1,
         NEW low \in Ids(g - 1), ~ Cut(dir, g, low), depth[dir[low]] < g,
         NEW new, new \notin DOMAIN depth,
         NEW dir2, NEW depth2, CutOff(g, dir, depth, low, new, dir2, depth2)
  PROVE  Directory(g, dir2, depth2)
<1> DEFINE top == low + 2^(g - 1)
<1>1. /\ g \in Nat /\ dir \in [Ids(g) -> DOMAIN depth] /\ depth \in [DOMAIN depth -> Nat]
      /\ \A a \in DOMAIN depth : \E i \in Ids(g) : dir[i] = a
  BY DEF Directory, Leads
<1>2. low \in Ids(g) /\ low # top /\ top \in Ids(g) /\ top \notin Ids(g - 1) /\ g \in 1 .. g
  BY <1>1, Variants
<1>3. dir[low] = dir[top] /\ dir[low] \in DOMAIN depth
  BY <1>1, <1>2 DEF Cut
<1>4. /\ dir2 \in [Ids(g) -> DOMAIN depth \cup {new}]
      /\ dir2[top] = new
      /\ \A i \in Ids(g) : i # top => dir2[i] = dir[i] /\ dir2[i] # new
  BY <1>1, <1>2 DEF CutOff
<1>5. /\ DOMAIN depth2 = DOMAIN depth \cup {new} /\ depth2 \in [DOMAIN depth \cup {new} -> Nat]
      /\ depth2[new] = depth[dir[low]] + 1 /\ depth2[dir[low]] = depth[dir[low]] + 1
      /\ \A a \in DOMAIN depth : a # dir[low] => depth2[a] = depth[a]
      /\ \A a \in DOMAIN depth : depth[a] <= depth2[a]
      /\ \A a \in DOMAIN depth2 : depth2[a] <= g
  <2>1. \A a \in DOMAIN depth : depth[a] \in Nat /\ depth[a] <= g
    BY <1>1, DepthBounded
  <2> QED
    BY <1>1, <1>3, <2>1 DEF CutOff
<1>6. \A e \in 1 .. g : e # g => /\ e - 1 \in Nat /\ e <= g - 1 /\ Ids(e) \subseteq Ids(g - 1)
  BY <1>1, IdsGrow
<1>7. \A e \in 1 .. g : /\ e - 1 \in Nat /\ e - 1 <= g - 1 /\ g - 1 \in Nat
                        /\ Ids(e - 1) \subseteq Ids(g - 1) /\ Ids(e) \subseteq Ids(g)
                        /\ \A i \in Ids(e - 1) : i \in Ids(g) /\ i # top /\ i + 2^(e - 1) \in Ids(e)
  BY <1>1, <1>2, IdsGrow, Variants
<1>8. \A i \in Ids(g - 1) : i + 2^(g - 1) = top => i = low
  <2> SUFFICES ASSUME NEW i \in Ids(g - 1), i + 2^(g - 1) = top PROVE i = low
    OBVIOUS
  <2>1. PICK P \in Nat : P = 2^(g - 1)
    BY <1>1, Variants
  <2>2. low \in Nat /\ i \in Nat
    BY <1>1, Variants
  <2>3. i + P = low + P
    BY <2>1
  <2> QED
    BY <2>2, <2>3
<1> HIDE DEF top
\* Only the entry low is cut by the split.
<1>9. \A e \in 1 .. g : \A i \in Ids(e - 1) : i + 2^(e - 1) # top => (Cut(dir2, e, i) <=> Cut(dir, e, i))
  <2> SUFFICES ASSUME NEW e \in 1 .. g, NEW i \in Ids(e - 1), i + 2^(e - 1) # top
               PROVE  Cut(dir2, e, i) <=> Cut(dir, e, i)
    OBVIOUS
  <2>1. i \in Ids(g) /\ i # top /\ i + 2^(e - 1) \in Ids(g)
    BY <1>7
  <2> QED
    BY <1>4, <2>1 DEF Cut
<1>10. \A e \in 1 .. g : \A i \in Ids(e - 1) : i + 2^(e - 1) = top => e = g /\ i = low
  <2> SUFFICES ASSUME NEW e \in 1 .. g, NEW i \in Ids(e - 1), i + 2^(e - 1) = top PROVE e = g /\ i = low
    OBVIOUS
  <2>1. e = g
    BY <1>2, <1>6, <1>7
  <2> QED
    BY <1>8, <2>1
<1>11. Cut(dir2, g, low)
  <2>1. dir2[low] # new /\ dir2[top] = new
    BY <1>2, <1>4
  <2> QED
    BY <2>1 DEF Cut, top
<1>12. Leads(g, dir2, depth2)
  <2>1. ASSUME NEW a \in DOMAIN depth2 PROVE \E i \in Ids(g) : dir2[i] = a
    <3>1. CASE a = new
      BY <1>2, <1>4, <3>1
    <3>2. CASE a # new
      <4>1. PICK i \in Ids(g) : dir[i] = a
        BY <1>1, <1>5, <3>2
      <4>2. CASE i = top
        BY <1>2, <1>3, <1>4, <4>1, <4>2
      <4>3. CASE i # top
        BY <1>4, <4>1, <4>3
      <4> QED
        BY <4>2, <4>3
    <3> QED
      BY <3>1, <3>2
  <2> QED
    BY <1>1, <1>4, <1>5, <2>1 DEF Leads
<1>13. CutAlone(g, dir2)
  <2> SUFFICES ASSUME NEW e \in 1 .. g, NEW i \in Ids(e - 1), Cut(dir2, e, i),
                      NEW j \in Ids(e), dir2[j] = dir2[i + 2^(e - 1)]
               PROVE  j = i + 2^(e - 1)
    BY DEF CutAlone
  <2>1. j \in Ids(g) /\ i + 2^(e - 1) \in Ids(g)
    BY <1>7
  <2>2. CASE i + 2^(e - 1) = top
    BY <1>4, <2>1, <2>2
  <2>3. CASE i + 2^(e - 1) # top
    <3>1. Cut(dir, e, i)
      BY <1>9, <2>3
    <3>2. j # top /\ dir[j] = dir[i + 2^(e - 1)]
      BY <1>4, <2>1, <2>3
    <3> QED
      BY <3>1, <3>2 DEF Directory, CutAlone
  <2> QED
    BY <2>2, <2>3
<1>14. NotTooDeep(g, dir2, depth2)
  <2> SUFFICES ASSUME NEW d \in 1 .. g + 1, NEW i \in Ids(d - 1), Whole(g, dir2, dir2[i], d)
               PROVE  depth2[dir2[i]] <= d - 1
    BY DEF NotTooDeep
  <2>1. CASE d = g + 1
    <3>1. i \in Ids(g) /\ d - 1 = g
      BY <1>1, <2>1
    <3>2. dir2[i] \in DOMAIN depth2
      BY <1>4, <1>5, <3>1
    <3> QED
      BY <1>5, <3>1, <3>2
  <2>2. CASE d # g + 1
    <3>1. d \in 1 .. g /\ g \in d .. g /\ \A e \in d .. g : e \in 1 .. g
      BY <1>1, <2>2
    <3>2. i \in Ids(g) /\ i # top /\ dir2[i] = dir[i] /\ dir[i] \in DOMAIN depth
      BY <1>1, <1>4, <1>7, <3>1
    <3>3. dir[i] # dir[low]
      <4> SUFFICES ASSUME dir[i] = dir[low] PROVE FALSE
        OBVIOUS
      <4>1. dir2[low] = dir2[i]
        BY <1>2, <1>4, <3>2
      <4> QED
        BY <1>11, <3>1, <4>1 DEF Whole
    <3>4. ASSUME NEW e \in d .. g, NEW j \in Ids(e - 1), dir[j] = dir[i] PROVE ~ Cut(dir, e, j)
      <4>1. j \in Ids(g) /\ j # top
        BY <1>7, <3>1
      <4>2. dir2[j] = dir2[i]
        BY <1>4, <3>2, <3>4, <4>1
      <4>3. ~ Cut(dir2, e, j)
        BY <4>2 DEF Whole
      <4>4. CASE j + 2^(e - 1) = top
        BY <1>10, <3>1, <3>3, <3>4, <4>4
      <4>5. CASE j + 2^(e - 1) # top
        BY <1>9, <3>1, <4>3, <4>5
      <4> QED
        BY <4>4, <4>5
    <3>5. Whole(g, dir, dir[i], d)
      BY <3>4 DEF Whole
    <3>6. depth[dir[i]] <= d - 1
      BY <3>5 DEF Directory, NotTooDeep
    <3> QED
      BY <1>5, <3>2, <3>3, <3>6
  <2> QED
    BY <2>1, <2>2
<1>15. DeepEnough(g, dir2, depth2)
  <2> SUFFICES ASSUME NEW i \in Ids(g)
               PROVE  Cardinality(Cuts(g, dir2, i)) <= depth2[dir2[i]]
    BY DEF DeepEnough
  <2>0. i \in Nat
    BY DEF Ids
  <2>1. \A e \in 1 .. g : i % 2^(e - 1) \in Ids(e - 1)
    BY <1>7, <2>0, LastBitsAreId
  <2>2. ASSUME NEW e \in 1 .. g, Cut(dir2, e, i % 2^(e - 1))
        PROVE  Cut(dir, e, i % 2^(e - 1)) \/ (e = g /\ i % 2^(g - 1) = low)
    <3> DEFINE r == i % 2^(e - 1)
    <3>1. r \in Ids(e - 1) /\ Cut(dir2, e, r)
      BY <2>1, <2>2
    <3> HIDE DEF r
    <3>2. CASE r + 2^(e - 1) = top
      <4>1. e = g /\ r = low
        BY <1>10, <3>1, <3>2
      <4>2. i % 2^(g - 1) = low
        BY <4>1 DEF r
      <4> QED
        BY <4>1, <4>2
    <3>3. CASE r + 2^(e - 1) # top
      <4>1. Cut(dir, e, r)
        BY <1>9, <3>1, <3>3
      <4>2. Cut(dir, e, i % 2^(e - 1))
        BY <4>1 DEF r
      <4> QED
        BY <4>2
    <3> QED
      BY <3>2, <3>3
  <2>3. /\ Cardinality(Cuts(g, dir, i)) <= depth[dir[i]]
        /\ depth[dir[i]] \in Nat /\ dir[i] \in DOMAIN depth
        /\ IsFiniteSet(Cuts(g, dir, i)) /\ Cardinality(Cuts(g, dir, i)) \in Nat
        /\ Cardinality(Cuts(g, dir2, i)) \in Nat
    BY <1>1, CutsFinite DEF Directory, DeepEnough
  <2>4. CASE i % 2^(g - 1) = low
    <3>1. i = low \/ i = top
      <4>1. CASE i \in Ids(g - 1)
        BY <1>7, <2>4, <4>1, LastBitsOfId
      <4>2. CASE i \notin Ids(g - 1)
        <5>1. i - 2^(g - 1) \in Ids(g - 1) /\ i = (i - 2^(g - 1)) + 2^(g - 1)
          BY <1>1, <4>2, Variants
        <5>2. i % 2^(g - 1) = i - 2^(g - 1)
          BY <1>2, <1>7, <5>1, LastBitsOfId
        <5> QED
          BY <2>4, <5>1, <5>2 DEF top
      <4> QED
        BY <4>1, <4>2
    <3>2. depth2[dir2[i]] = depth[dir[i]] + 1
      BY <1>2, <1>3, <1>4, <1>5, <3>1
    <3>3. Cuts(g, dir2, i) \subseteq Cuts(g, dir, i) \cup {g}
      BY <2>2 DEF Cuts
    <3>4. /\ IsFiniteSet(Cuts(g, dir, i) \cup {g})
          /\ Cardinality(Cuts(g, dir, i) \cup {g}) <= Cardinality(Cuts(g, dir, i)) + 1
      <4>1. /\ IsFiniteSet(Cuts(g, dir, i) \cup {g})
            /\ Cardinality(Cuts(g, dir, i) \cup {g}) =
                 IF g \in Cuts(g, dir, i) THEN Cardinality(Cuts(g, dir, i))
                 ELSE Cardinality(Cuts(g, dir, i)) + 1
        BY <2>3, FS_AddElement
      <4> QED
        BY <2>3, <4>1
    <3>5. /\ Cardinality(Cuts(g, dir2, i)) <= Cardinality(Cuts(g, dir, i) \cup {g})
          /\ Cardinality(Cuts(g, dir, i) \cup {g}) \in Nat
      BY <3>3, <3>4, FS_Subset, FS_CardinalityType
    <3> QED
      BY <2>3, <3>2, <3>4, <3>5
  <2>5. CASE i % 2^(g - 1) # low
    <3>1. Cuts(g, dir2, i) \subseteq Cuts(g, dir, i)
      BY <2>2, <2>5 DEF Cuts
    <3>2. Cardinality(Cuts(g, dir2, i)) <= Cardinality(Cuts(g, dir, i))
      BY <2>3, <3>1, FS_Subset
    <3>3. i # top
      <4>1. top % 2^(g - 1) = low
        BY <1>2, <1>7, LastBitsOfId DEF top
      <4> QED
        BY <2>5, <4>1
    <3>4. depth[dir[i]] <= depth2[dir2[i]] /\ depth2[dir2[i]] \in Nat
      BY <1>4, <1>5, <2>3, <3>3
    <3> QED
      BY <2>3, <3>2, <3>4
  <2> QED
    BY <2>4, <2>5
<1> QED
  BY <1>12, <1>13, <1>14, <1>15 DEF Directory

\* Shrinking undoes the cuts of the last depth, if no bucket that is merged away
\* has another entry.
LEMMA ShrunkDirectory ==
  ASSUME NEW g, NEW dir, NEW depth, Directory(g, dir, depth), g >= 1,
         NEW away, away = {i \in Ids(g - 1) : Cut(dir, g, i)},
         \A i \in away : \A j \in Ids(g) : dir[j] = dir[i] => j = i,
         NEW dir2, dir2 = [i \in Ids(g - 1) |-> dir[i + 2^(g - 1)]],
         NEW depth2, DOMAIN depth2 = DOMAIN depth \ {dir[i] : i \in away},
         depth2 = [a \in DOMAIN depth2 |->
                     IF a \in {dir[i + 2^(g - 1)] : i \in away} THEN depth[a] - 1 ELSE depth[a]]
  PROVE  Directory(g - 1, dir2, depth2)
<1> DEFINE h == 2^(g - 1)
<1>1. /\ g \in Nat /\ g - 1 \in Nat /\ dir \in [Ids(g) -> DOMAIN depth] /\ depth \in [DOMAIN depth -> Nat]
      /\ \A a \in DOMAIN depth : \E i \in Ids(g) : dir[i] = a
  BY DEF Directory, Leads
<1>2. /\ h \in Nat /\ g \in 1 .. g
      /\ \A i \in Ids(g - 1) : i \in Nat /\ i \in Ids(g) /\ i + h \in Ids(g) /\ i + h \notin Ids(g - 1)
      /\ \A j \in Ids(g) \ Ids(g - 1) : j - h \in Ids(g - 1) /\ j = (j - h) + h
  BY <1>1, Variants
<1>3. \A i \in Ids(g - 1) : \A j \in Ids(g - 1) : i + h = j + h => i = j
  BY <1>2
<1>4. \A i \in Ids(g - 1) : i \in away <=> dir[i] # dir[i + h]
  BY DEF Cut
<1>5. \A i \in away : i \in Ids(g - 1) /\ \A j \in Ids(g) : dir[j] = dir[i + h] => j = i + h
  BY <1>2 DEF Directory, CutAlone
<1>6. \A i \in Ids(g - 1) : dir2[i] = dir[i + h]
  OBVIOUS
<1>7. depth2 = [a \in DOMAIN depth2 |-> IF a \in {dir[i + h] : i \in away} THEN depth[a] - 1 ELSE depth[a]]
  OBVIOUS
<1> HIDE DEF h
\* Two entries share a bucket just if they did.
<1>8. \A i \in Ids(g - 1) : \A j \in Ids(g - 1) : dir2[i] = dir2[j] <=> dir[i] = dir[j]
  <2> SUFFICES ASSUME NEW i \in Ids(g - 1), NEW j \in Ids(g - 1) PROVE dir2[i] = dir2[j] <=> dir[i] = dir[j]
    OBVIOUS
  <2>1. CASE i \in away
    BY <1>2, <1>3, <1>5, <1>6, <2>1
  <2>2. CASE j \in away
    BY <1>2, <1>3, <1>5, <1>6, <2>2
  <2>3. CASE i \notin away /\ j \notin away
    BY <1>4, <1>6, <2>3
  <2> QED
    BY <2>1, <2>2, <2>3
<1>9. \A e \in 1 .. g - 1 : /\ e \in 1 .. g /\ e - 1 \in Nat /\ e <= g - 1
                            /\ Ids(e) \subseteq Ids(g - 1) /\ Ids(e - 1) \subseteq Ids(g - 1)
                            /\ \A i \in Ids(e - 1) : i + 2^(e - 1) \in Ids(e) /\ i # i + 2^(e - 1)
  BY <1>1, IdsGrow, Variants
<1>10. \A e \in 1 .. g - 1 : \A i \in Ids(e - 1) : Cut(dir2, e, i) <=> Cut(dir, e, i)
  <2> SUFFICES ASSUME NEW e \in 1 .. g - 1, NEW i \in Ids(e - 1) PROVE Cut(dir2, e, i) <=> Cut(dir, e, i)
    OBVIOUS
  <2>1. i \in Ids(g - 1) /\ i + 2^(e - 1) \in Ids(g - 1)
    BY <1>9
  <2> QED
    BY <1>8, <2>1 DEF Cut
<1>11. \A i \in Ids(g - 1) : dir2[i] \in DOMAIN depth2
  <2> SUFFICES ASSUME NEW i \in Ids(g - 1), NEW k \in away, dir[i + h] = dir[k] PROVE FALSE
    BY <1>1, <1>2, <1>6
  <2> QED
    BY <1>2, <1>5
<1>12. \A a \in DOMAIN depth2 : \E i \in Ids(g - 1) : dir2[i] = a
  <2> SUFFICES ASSUME NEW a \in DOMAIN depth2 PROVE \E i \in Ids(g - 1) : dir2[i] = a
    OBVIOUS
  <2>1. PICK j \in Ids(g) : dir[j] = a
    BY <1>1
  <2>2. CASE j \in Ids(g - 1)
    BY <1>4, <1>6, <2>1, <2>2
  <2>3. CASE j \notin Ids(g - 1)
    BY <1>2, <1>6, <2>1, <2>3
  <2> QED
    BY <2>2, <2>3
<1>13. \A i \in away : depth2[dir2[i]] = depth[dir[i + h]] - 1
  BY <1>5, <1>6, <1>7, <1>11
<1>14. \A i \in Ids(g - 1) : i \notin away => depth2[dir2[i]] = depth[dir[i]] /\ dir2[i] = dir[i]
  <2> SUFFICES ASSUME NEW i \in Ids(g - 1), i \notin away
               PROVE  depth2[dir2[i]] = depth[dir[i]] /\ dir2[i] = dir[i]
    OBVIOUS
  <2>1. dir2[i] = dir[i] /\ dir[i] = dir[i + h]
    BY <1>4, <1>6
  <2>2. dir[i] \notin {dir[k + h] : k \in away}
    BY <1>2, <1>3, <1>5, <2>1
  <2> QED
    BY <1>7, <1>11, <2>1, <2>2
\* The cuts of the last depth are undone.
<1>15. ASSUME NEW i \in Ids(g - 1)
       PROVE  /\ Cardinality(Cuts(g - 1, dir2, i)) <= depth2[dir2[i]]
              /\ depth2[dir2[i]] \in Nat
  <2>1. i + h \in Ids(g) /\ i + h \in Nat /\ (i + h) % 2^(g - 1) = i
    <3>1. i + h \in Ids(g) /\ i + h \in Nat
      BY <1>2
    <3>2. (i + 2^(g - 1)) % 2^(g - 1) = i
      BY <1>1, LastBitsOfId
    <3> QED
      BY <3>1, <3>2 DEF h
  <2>2. ASSUME NEW e \in 1 .. g - 1
        PROVE  i % 2^(e - 1) = (i + h) % 2^(e - 1) /\ i % 2^(e - 1) \in Ids(e - 1)
    <3>1. e - 1 \in Nat /\ e - 1 <= g - 1 /\ i \in Nat
      BY <1>1, <1>2
    <3>2. ((i + h) % 2^(g - 1)) % 2^(e - 1) = (i + h) % 2^(e - 1)
      BY <1>1, <2>1, <3>1, LastBits
    <3> QED
      BY <2>1, <3>1, <3>2, LastBitsAreId
  <2>3. \A e \in 1 .. g - 1 : Cut(dir2, e, i % 2^(e - 1)) <=> Cut(dir, e, (i + h) % 2^(e - 1))
    BY <1>10, <2>2
  <2>4. Cuts(g - 1, dir2, i) = Cuts(g, dir, i + h) \ {g}
    <3>1. \A e : e \in 1 .. g - 1 <=> e \in 1 .. g /\ e # g
      BY <1>1
    <3> QED
      BY <2>3, <3>1 DEF Cuts
  <2>5. g \in Cuts(g, dir, i + h) <=> i \in away
    BY <1>2, <2>1 DEF Cuts
  <2>6. /\ Cardinality(Cuts(g, dir, i + h)) <= depth[dir[i + h]]
        /\ depth[dir[i + h]] \in Nat
        /\ IsFiniteSet(Cuts(g, dir, i + h)) /\ Cardinality(Cuts(g, dir, i + h)) \in Nat
        /\ Cardinality(Cuts(g - 1, dir2, i)) \in Nat
    BY <1>1, <2>1, CutsFinite DEF Directory, DeepEnough
  <2>7. Cardinality(Cuts(g - 1, dir2, i)) =
          IF i \in away THEN Cardinality(Cuts(g, dir, i + h)) - 1 ELSE Cardinality(Cuts(g, dir, i + h))
    <3>1. Cardinality(Cuts(g, dir, i + h) \ {g}) =
            IF g \in Cuts(g, dir, i + h) THEN Cardinality(Cuts(g, dir, i + h)) - 1
            ELSE Cardinality(Cuts(g, dir, i + h))
      BY <2>6, FS_RemoveElement
    <3> QED
      BY <2>4, <2>5, <3>1
  <2>8. CASE i \in away
    BY <1>13, <2>6, <2>7, <2>8
  <2>9. CASE i \notin away
    BY <1>4, <1>14, <2>6, <2>7, <2>9
  <2> QED
    BY <2>8, <2>9
<1>16. Leads(g - 1, dir2, depth2)
  <2>1. depth2 \in [DOMAIN depth2 -> Nat]
    <3>1. \A a \in DOMAIN depth2 : depth2[a] \in Nat
      BY <1>12, <1>15
    <3> QED
      BY <1>7, <3>1
  <2>2. dir2 \in [Ids(g - 1) -> DOMAIN depth2]
    BY <1>11
  <2> QED
    BY <1>1, <1>12, <2>1, <2>2 DEF Leads
<1>17. CutAlone(g - 1, dir2)
  <2> SUFFICES ASSUME NEW e \in 1 .. g - 1, NEW i \in Ids(e - 1), Cut(dir2, e, i),
                      NEW j \in Ids(e), dir2[j] = dir2[i + 2^(e - 1)]
               PROVE  j = i + 2^(e - 1)
    BY DEF CutAlone
  <2>1. e \in 1 .. g /\ Cut(dir, e, i)
    BY <1>9, <1>10
  <2>2. dir[j] = dir[i + 2^(e - 1)]
    BY <1>8, <1>9
  <2> QED
    BY <2>1, <2>2 DEF Directory, CutAlone
<1>18. NotTooDeep(g - 1, dir2, depth2)
  <2> SUFFICES ASSUME NEW d \in 1 .. (g - 1) + 1, NEW i \in Ids(d - 1), Whole(g - 1, dir2, dir2[i], d)
               PROVE  depth2[dir2[i]] <= d - 1
    BY DEF NotTooDeep
  <2>1. d \in 1 .. g /\ d - 1 \in Nat /\ d - 1 <= g - 1 /\ d \in 1 .. g + 1
    BY <1>1
  <2>2. i \in Ids(g - 1)
    BY <1>1, <2>1, IdsGrow
  <2>3. CASE i \in away
    <3>1. depth[dir[i + h]] \in 0 .. g
      BY <1>1, <1>2, <2>2, DepthBounded
    <3>2. CASE d = g
      BY <1>1, <1>13, <2>3, <3>1, <3>2
    <3>3. CASE d # g
      <4>1. d \in 1 .. g - 1 /\ d \in d .. g - 1
        BY <1>1, <2>1, <3>3
      <4>2. ~ Cut(dir, d, i)
        BY <1>10, <4>1 DEF Whole
      <4>3. i + 2^(d - 1) \in Ids(g) /\ i # i + 2^(d - 1)
        BY <1>2, <1>9, <4>1
      <4> QED
        BY <2>3, <4>2, <4>3 DEF Cut
    <3> QED
      BY <3>2, <3>3
  <2>4. CASE i \notin away
    <3>1. ASSUME NEW e \in d .. g, NEW j \in Ids(e - 1), dir[j] = dir[i] PROVE ~ Cut(dir, e, j)
      <4>1. CASE e = g
        BY <1>2, <1>4, <2>2, <2>4, <3>1, <4>1 DEF Cut, h
      <4>2. CASE e # g
        <5>1. e \in 1 .. g - 1 /\ e \in d .. g - 1
          BY <1>1, <2>1, <4>2
        <5>2. dir2[j] = dir2[i]
          BY <1>8, <1>9, <2>2, <3>1, <5>1
        <5>3. ~ Cut(dir2, e, j)
          BY <5>1, <5>2 DEF Whole
        <5> QED
          BY <1>10, <5>1, <5>3
      <4> QED
        BY <4>1, <4>2
    <3>2. Whole(g, dir, dir[i], d)
      BY <3>1 DEF Whole
    <3>3. depth[dir[i]] <= d - 1
      BY <2>1, <3>2 DEF Directory, NotTooDeep
    <3> QED
      BY <1>14, <2>2, <2>4, <3>3
  <2> QED
    BY <2>3, <2>4
<1>19. DeepEnough(g - 1, dir2, depth2)
  BY <1>15 DEF DeepEnough
<1> QED
  BY <1>16, <1>17, <1>18, <1>19 DEF Directory

-----------------------------------------------------------------------------
(* Sequences of pages                                                      *)

\* The pages of two sequences, one after the other.
LEMMA PagesOfBoth ==
  ASSUME NEW S, NEW s \in Seq(S), NEW t \in Seq(S)
  PROVE  /\ s \o t \in Seq(S)
         /\ Len(s \o t) = Len(s) + Len(t)
         /\ ToSet(s \o t) = ToSet(s) \cup ToSet(t)
         /\ IsInjective(s) /\ IsInjective(t) /\ ToSet(s) \cap ToSet(t) = {} => IsInjective(s \o t)
<1>1. /\ s \o t \in Seq(S) /\ Len(s \o t) = Len(s) + Len(t) /\ Len(s) \in Nat /\ Len(t) \in Nat
      /\ DOMAIN s = 1 .. Len(s) /\ DOMAIN t = 1 .. Len(t)
      /\ DOMAIN (s \o t) = 1 .. Len(s) + Len(t)
      /\ \A i \in 1 .. Len(s) + Len(t) : (s \o t)[i] = IF i <= Len(s) THEN s[i] ELSE t[i - Len(s)]
  OBVIOUS
<1> DEFINE u == s \o t
           m == Len(s)
           n == Len(t)
<1> HIDE DEF u, m, n
<1>2. /\ m \in Nat /\ n \in Nat /\ DOMAIN s = 1 .. m /\ DOMAIN t = 1 .. n /\ DOMAIN u = 1 .. m + n
      /\ \A i \in 1 .. m + n : u[i] = IF i <= m THEN s[i] ELSE t[i - m]
  BY <1>1 DEF u, m, n
<1>3. /\ \A i \in 1 .. m + n : i <= m => i \in 1 .. m
      /\ \A i \in 1 .. m + n : ~ (i <= m) => i - m \in 1 .. n
      /\ \A i \in 1 .. m : i \in 1 .. m + n /\ i <= m
      /\ \A i \in 1 .. n : i + m \in 1 .. m + n /\ ~ (i + m <= m) /\ (i + m) - m = i
      /\ \A i, j \in 1 .. m + n : i - m = j - m => i = j
  BY <1>2
<1>4. /\ \A i \in 1 .. m : u[i] = s[i]
      /\ \A i \in 1 .. n : u[i + m] = t[i]
  BY <1>2, <1>3
<1>5. \A i \in 1 .. m + n : IF i <= m THEN u[i] \in ToSet(s) ELSE u[i] \in ToSet(t)
  <2> SUFFICES ASSUME NEW i \in 1 .. m + n
               PROVE  IF i <= m THEN u[i] \in ToSet(s) ELSE u[i] \in ToSet(t)
    OBVIOUS
  <2>1. CASE i <= m
    <3>1. i \in 1 .. m /\ u[i] = s[i]
      BY <1>2, <1>3, <2>1
    <3> QED
      BY <1>2, <2>1, <3>1 DEF ToSet
  <2>2. CASE ~ (i <= m)
    <3>1. i - m \in 1 .. n /\ u[i] = t[i - m]
      BY <1>2, <1>3, <2>2
    <3> QED
      BY <1>2, <2>2, <3>1 DEF ToSet
  <2> QED
    BY <2>1, <2>2
<1>6. ToSet(u) = ToSet(s) \cup ToSet(t)
  <2>1. ToSet(u) \subseteq ToSet(s) \cup ToSet(t)
    <3>1. ToSet(u) = {u[i] : i \in 1 .. m + n}
      BY <1>2 DEF ToSet
    <3> QED
      BY <1>5, <3>1
  <2>2. ASSUME NEW x \in ToSet(s) PROVE x \in ToSet(u)
    <3>1. PICK i \in 1 .. m : x = s[i]
      BY <1>2 DEF ToSet
    <3>2. i \in 1 .. m + n /\ u[i] = x
      BY <1>3, <1>4, <3>1
    <3> QED
      BY <1>2, <3>2 DEF ToSet
  <2>3. ASSUME NEW x \in ToSet(t) PROVE x \in ToSet(u)
    <3>1. PICK i \in 1 .. n : x = t[i]
      BY <1>2 DEF ToSet
    <3>2. i + m \in 1 .. m + n /\ u[i + m] = x
      BY <1>3, <1>4, <3>1
    <3> QED
      BY <1>2, <3>2 DEF ToSet
  <2> QED
    BY <2>1, <2>2, <2>3
<1>7. ASSUME IsInjective(s), IsInjective(t), ToSet(s) \cap ToSet(t) = {} PROVE IsInjective(u)
  <2> SUFFICES ASSUME NEW i \in 1 .. m + n, NEW j \in 1 .. m + n, u[i] = u[j] PROVE i = j
    BY <1>2 DEF IsInjective
  <2>1. CASE i <= m /\ j <= m
    BY <1>2, <1>3, <1>7, <2>1 DEF IsInjective
  <2>2. CASE ~ (i <= m) /\ ~ (j <= m)
    <3>1. i - m \in 1 .. n /\ j - m \in 1 .. n /\ t[i - m] = t[j - m]
      BY <1>2, <1>3, <2>2
    <3>2. i - m = j - m
      BY <1>2, <1>7, <3>1 DEF IsInjective
    <3> QED
      BY <1>3, <3>2
  <2>3. CASE (i <= m) # (j <= m)
    BY <1>7, <2>3, <1>5
  <2> QED
    BY <2>1, <2>2, <2>3
<1> QED
  BY <1>1, <1>6, <1>7 DEF u

\* One page in front.
LEMMA PageInFront ==
  ASSUME NEW S, NEW s \in Seq(S), NEW p \in S
  PROVE  /\ <<p>> \o s \in Seq(S)
         /\ Len(<<p>> \o s) = Len(s) + 1
         /\ ToSet(<<p>> \o s) = {p} \cup ToSet(s)
         /\ IsInjective(s) /\ p \notin ToSet(s) => IsInjective(<<p>> \o s)
<1>1. <<p>> \in Seq(S) /\ ToSet(<<p>>) = {p} /\ IsInjective(<<p>>) /\ Len(<<p>>) = 1
  BY DEF ToSet, IsInjective
<1>2. Len(s) \in Nat
  OBVIOUS
<1>3. PICK q \in Seq(S) : q = <<p>>
  BY <1>1
<1>4. /\ q \o s \in Seq(S) /\ Len(q \o s) = Len(q) + Len(s)
      /\ ToSet(q \o s) = ToSet(q) \cup ToSet(s)
      /\ IsInjective(q) /\ IsInjective(s) /\ ToSet(q) \cap ToSet(s) = {} => IsInjective(q \o s)
  BY PagesOfBoth
<1>5. ToSet(q) = {p} /\ IsInjective(q) /\ Len(q) = 1
  BY <1>1, <1>3
<1>6. /\ q \o s \in Seq(S) /\ Len(q \o s) = Len(s) + 1
      /\ ToSet(q \o s) = {p} \cup ToSet(s)
      /\ IsInjective(s) /\ p \notin ToSet(s) => IsInjective(q \o s)
  BY <1>2, <1>4, <1>5
<1> QED
  BY <1>3, <1>6

\* The first page and the others.
LEMMA FirstAndOthers ==
  ASSUME NEW S, NEW s \in Seq(S), s # <<>>
  PROVE  /\ Head(s) \in S /\ Tail(s) \in Seq(S) /\ Len(s) = Len(Tail(s)) + 1
         /\ ToSet(s) = {Head(s)} \cup ToSet(Tail(s))
         /\ IsInjective(s) => IsInjective(Tail(s)) /\ Head(s) \notin ToSet(Tail(s))
<1>1. /\ Head(s) \in S /\ Tail(s) \in Seq(S) /\ Len(s) = Len(Tail(s)) + 1 /\ Head(s) = s[1]
      /\ Len(Tail(s)) \in Nat /\ DOMAIN s = 1 .. Len(s) /\ DOMAIN Tail(s) = 1 .. Len(Tail(s))
      /\ \A i \in 1 .. Len(Tail(s)) : Tail(s)[i] = s[i + 1]
  OBVIOUS
<1> DEFINE t == Tail(s)
           n == Len(t)
<1>2. /\ n \in Nat /\ DOMAIN s = 1 .. n + 1 /\ DOMAIN t = 1 .. n /\ \A i \in 1 .. n : t[i] = s[i + 1]
  BY <1>1
<1> HIDE DEF t, n
<1>3. /\ 1 \in 1 .. n + 1
      /\ \A i \in 1 .. n : i + 1 \in 1 .. n + 1 /\ i + 1 # 1
      /\ \A i \in 1 .. n + 1 : i # 1 => i - 1 \in 1 .. n /\ (i - 1) + 1 = i
      /\ \A i, j \in 1 .. n : i + 1 = j + 1 => i = j
  BY <1>2
<1>4. ToSet(s) = {s[1]} \cup ToSet(t)
  <2>0. ASSUME NEW i \in 1 .. n + 1, i # 1 PROVE s[i] \in ToSet(t)
    <3>1. i - 1 \in 1 .. n /\ t[i - 1] = s[(i - 1) + 1] /\ (i - 1) + 1 = i
      BY <1>2, <1>3, <2>0
    <3> QED
      BY <1>2, <3>1 DEF ToSet
  <2>1. ToSet(s) \subseteq {s[1]} \cup ToSet(t)
    BY <1>2, <2>0 DEF ToSet
  <2>2. {s[1]} \cup ToSet(t) \subseteq ToSet(s)
    BY <1>2, <1>3 DEF ToSet
  <2> QED
    BY <2>1, <2>2
<1>5. ASSUME IsInjective(s) PROVE IsInjective(t) /\ s[1] \notin ToSet(t)
  <2>1. \A i, j \in 1 .. n + 1 : s[i] = s[j] => i = j
    BY <1>2, <1>5 DEF IsInjective
  <2>2. IsInjective(t)
    BY <1>2, <1>3, <2>1 DEF IsInjective
  <2>3. s[1] \notin ToSet(t)
    BY <1>2, <1>3, <2>1 DEF ToSet
  <2> QED
    BY <2>2, <2>3
<1> QED
  BY <1>1, <1>4, <1>5 DEF t

\* The same pages in the other order.
LEMMA PagesReversed ==
  ASSUME NEW S, NEW s \in Seq(S)
  PROVE  /\ Reverse(s) \in Seq(S)
         /\ ToSet(Reverse(s)) = ToSet(s)
         /\ IsInjective(s) => IsInjective(Reverse(s))
<1> DEFINE r == Reverse(s)
           n == Len(s)
<1>1. n \in Nat /\ DOMAIN s = 1 .. n /\ \A i \in 1 .. n : s[i] \in S
  OBVIOUS
<1>2. r = [i \in 1 .. n |-> s[(n - i) + 1]]
  BY DEF Reverse
<1> HIDE DEF r, n
<1>3. \A i \in 1 .. n : /\ (n - i) + 1 \in 1 .. n
                        /\ (n - ((n - i) + 1)) + 1 = i
                        /\ \A j \in 1 .. n : (n - i) + 1 = (n - j) + 1 => i = j
  BY <1>1
<1>4. DOMAIN r = 1 .. n /\ \A i \in 1 .. n : r[i] = s[(n - i) + 1] /\ r[i] \in S
  BY <1>1, <1>2, <1>3
<1>5. r \in Seq(S)
  BY <1>1, <1>2, <1>4
<1>6. ToSet(r) = ToSet(s)
  <2>1. \A i \in 1 .. n : r[(n - i) + 1] = s[i]
    BY <1>3, <1>4
  <2> QED
    BY <1>1, <1>3, <1>4, <2>1 DEF ToSet
<1>7. IsInjective(s) => IsInjective(r)
  BY <1>1, <1>3, <1>4 DEF IsInjective
<1> QED
  BY <1>5, <1>6, <1>7 DEF r

\* Taking a page out of its bucket leaves the others.
LEMMA PagesWithout ==
  ASSUME NEW S, NEW s \in Seq(S), IsInjective(s), NEW p \in ToSet(s)
  PROVE  /\ WithoutPage(s, p) \in Seq(S)
         /\ ToSet(WithoutPage(s, p)) = ToSet(s) \ {p}
         /\ IsInjective(WithoutPage(s, p))
<1> DEFINE k == CHOOSE i \in DOMAIN s : s[i] = p
           n == Len(s)
<1>1. n \in Nat /\ DOMAIN s = 1 .. n
  OBVIOUS
<1>2. k \in 1 .. n /\ s[k] = p
  BY <1>1 DEF ToSet
<1>3. WithoutPage(s, p) = SubSeq(s, 1, k - 1) \o SubSeq(s, k + 1, n)
  BY DEF WithoutPage, RemoveAt
<1> HIDE DEF k
<1> DEFINE a == SubSeq(s, 1, k - 1)
           b == SubSeq(s, k + 1, n)
<1>4. /\ a \in Seq(S) /\ DOMAIN a = 1 .. k - 1 /\ \A i \in 1 .. k - 1 : a[i] = s[i]
      /\ b \in Seq(S) /\ DOMAIN b = 1 .. n - k /\ \A i \in 1 .. n - k : b[i] = s[i + k]
  BY <1>1, <1>2
<1> HIDE DEF a, b, n
<1>5. /\ \A i \in 1 .. k - 1 : i \in 1 .. n /\ i # k
      /\ \A i \in 1 .. n - k : i + k \in 1 .. n /\ i + k # k
      /\ \A i \in 1 .. n : i # k => i \in 1 .. k - 1 \/ (i - k \in 1 .. n - k /\ (i - k) + k = i)
      /\ \A i, j \in 1 .. n - k : i + k = j + k => i = j
      /\ \A i \in 1 .. k - 1 : \A j \in 1 .. n - k : i # j + k
  BY <1>1, <1>2
<1>6. \A i, j \in 1 .. n : s[i] = s[j] => i = j
  BY <1>1 DEF IsInjective
<1>7. ToSet(a) \cup ToSet(b) = ToSet(s) \ {p}
  <2>1. ToSet(a) \cup ToSet(b) \subseteq ToSet(s) \ {p}
    <3>1. \A i \in 1 .. n : i # k => s[i] \in ToSet(s) \ {p}
      BY <1>1, <1>2, <1>6 DEF ToSet
    <3>2. \A i \in 1 .. k - 1 : a[i] \in ToSet(s) \ {p}
      BY <1>4, <1>5, <3>1
    <3>3. \A i \in 1 .. n - k : b[i] \in ToSet(s) \ {p}
      BY <1>4, <1>5, <3>1
    <3>4. ToSet(a) = {a[i] : i \in 1 .. k - 1} /\ ToSet(b) = {b[i] : i \in 1 .. n - k}
      BY <1>4 DEF ToSet
    <3> QED
      BY <3>2, <3>3, <3>4
  <2>2. ASSUME NEW i \in 1 .. n, s[i] # p PROVE s[i] \in ToSet(a) \cup ToSet(b)
    <3>1. i # k
      BY <1>2, <2>2
    <3>2. CASE i \in 1 .. k - 1
      BY <1>4, <3>2 DEF ToSet
    <3>3. CASE i - k \in 1 .. n - k /\ (i - k) + k = i
      <4>1. b[i - k] = s[i]
        BY <1>4, <3>3
      <4> QED
        BY <1>4, <3>3, <4>1 DEF ToSet
    <3> QED
      BY <1>5, <3>1, <3>2, <3>3
  <2>3. ToSet(s) \ {p} \subseteq ToSet(a) \cup ToSet(b)
    BY <1>1, <2>2 DEF ToSet
  <2> QED
    BY <2>1, <2>3
<1>8. IsInjective(a) /\ IsInjective(b)
  <2>1. IsInjective(a)
    BY <1>4, <1>5, <1>6 DEF IsInjective
  <2>2. IsInjective(b)
    BY <1>4, <1>5, <1>6 DEF IsInjective
  <2> QED
    BY <2>1, <2>2
<1>9. ToSet(a) \cap ToSet(b) = {}
  BY <1>4, <1>5, <1>6 DEF ToSet
<1>10. /\ a \o b \in Seq(S) /\ ToSet(a \o b) = ToSet(a) \cup ToSet(b) /\ IsInjective(a \o b)
  BY <1>4, <1>8, <1>9, PagesOfBoth
<1> QED
  BY <1>3, <1>7, <1>10 DEF a, b, n

\* A sequence without repetitions is as long as it has pages.
LEMMA PagesCounted ==
  ASSUME NEW S, NEW s \in Seq(S), IsInjective(s)
  PROVE  IsFiniteSet(ToSet(s)) /\ Cardinality(ToSet(s)) = Len(s)
<1>1. Len(s) \in Nat /\ DOMAIN s = 1 .. Len(s)
  OBVIOUS
<1>2. s \in [1 .. Len(s) -> ToSet(s)]
  BY <1>1 DEF ToSet
<1>3. s \in Bijection(1 .. Len(s), ToSet(s))
  BY <1>1, <1>2 DEF Bijection, Injection, Surjection, ToSet
<1>4. IsFiniteSet(1 .. Len(s)) /\ Cardinality(1 .. Len(s)) = Len(s)
  <2>1. PICK n \in Nat : n = Len(s)
    BY <1>1
  <2>2. 1 \in Int /\ n \in Int /\ (IF 1 > n THEN 0 ELSE n - 1 + 1) = n
    OBVIOUS
  <2>3. IsFiniteSet(1 .. n) /\ Cardinality(1 .. n) = n
    BY ONLY <2>2, FS_Interval
  <2> QED
    BY <2>1, <2>3
<1> QED
  BY <1>3, <1>4, FS_Bijection DEF ExistsBijection

-----------------------------------------------------------------------------
(* Tables                                                                  *)

Bucket == [local_depth : Nat, pages : Seq(Pages)]

DepthsOf(b) == [a \in DOMAIN b |-> b[a].local_depth]

PagesAt(t, a) == ToSet(t.bucket[a].pages)

PagesOf(t) == UNION {PagesAt(t, a) : a \in DOMAIN t.bucket}

\* Every page is in the bucket that h leads to, once.
IsPlaced(h, t) ==
  \A a \in DOMAIN t.bucket :
    /\ \A p \in PagesAt(t, a) : t.buckets[h[p] % 2^t.global_depth] = a
    /\ IsInjective(t.bucket[a].pages)

\* The table t has a directory, and its pages are where h leads.
IsTable(h, t) ==
  /\ t = [global_depth |-> t.global_depth, buckets |-> t.buckets, bucket |-> t.bucket,
          freed |-> t.freed]
  /\ t.bucket \in [DOMAIN t.bucket -> Bucket]
  /\ DOMAIN t.bucket \subseteq Addresses
  /\ t.freed \subseteq Pages
  /\ Directory(t.global_depth, t.buckets, DepthsOf(t.bucket))
  /\ IsPlaced(h, t)

\* What the bucket of the "1" variant of i becomes when that of i is merged into it.
Both(t, i) ==
  LET pair == t.bucket[t.buckets[i + Half(t)]]
  IN  [local_depth |-> pair.local_depth - 1,
       pages |-> Reverse(t.bucket[t.buckets[i]].pages) \o pair.pages]

\* The entry whose bucket is merged into a.
MergedInto(t, a) == CHOOSE i \in MergedAway(t) : t.buckets[i + Half(t)] = a

\* The table after the first n entries have been merged with their pairs.
AfterMerging(t, n) ==
  LET gone == {i \in MergedAway(t) : i < n}
  IN  [global_depth |-> t.global_depth,
       buckets |-> [i \in DOMAIN t.buckets |->
                      IF i \in gone THEN t.buckets[i + Half(t)] ELSE t.buckets[i]],
       bucket |-> [a \in DOMAIN t.bucket \ {t.buckets[i] : i \in gone} |->
                     IF a \in {t.buckets[i + Half(t)] : i \in gone} THEN Both(t, MergedInto(t, a))
                     ELSE t.bucket[a]],
       freed |-> t.freed \cup UNION {PagesAt(t, t.buckets[i]) : i \in gone}]

\* What is known of the entries of a table that may be shrunk.
LEMMA EntriesOfTable ==
  ASSUME NEW h, NEW t, IsTable(h, t), t.global_depth >= 1, ShrinkIsDefined(t)
  PROVE  /\ t.global_depth \in Nat /\ Half(t) = 2^(t.global_depth - 1) /\ Half(t) \in Nat /\ Half(t) > 0
         /\ 0 .. Half(t) - 1 = Ids(t.global_depth - 1)
         /\ 0 .. 2 * Half(t) - 1 = Ids(t.global_depth)
         /\ DOMAIN t.buckets = Ids(t.global_depth)
         /\ \A i \in Ids(t.global_depth) : t.buckets[i] \in DOMAIN t.bucket
         /\ MergedAway(t) = {i \in Ids(t.global_depth - 1) : Cut(t.buckets, t.global_depth, i)}
         /\ MergedAway(t) = {i \in Ids(t.global_depth - 1) : t.buckets[i] # t.buckets[i + Half(t)]}
         /\ \A i \in MergedAway(t) :
              /\ \A j \in Ids(t.global_depth) : t.buckets[j] = t.buckets[i] => j = i
              /\ \A j \in Ids(t.global_depth) : t.buckets[j] = t.buckets[i + Half(t)] => j = i + Half(t)
              /\ MergedInto(t, t.buckets[i + Half(t)]) = i
<1> DEFINE g == t.global_depth
<1>1. Directory(g, t.buckets, DepthsOf(t.bucket))
  BY DEF IsTable
<1>2. g \in Nat /\ t.buckets \in [Ids(g) -> DOMAIN t.bucket]
  BY <1>1 DEF Directory, Leads, DepthsOf
<1>3. Half(t) = 2^(g - 1)
  BY DEF Half
<1> HIDE DEF g
<1>4. Half(t) \in Nat /\ Half(t) > 0 /\ 2^g = 2 * Half(t) /\ g - 1 \in Nat /\ g \in 1 .. g
  <2>1. g >= 1
    BY DEF g
  <2> QED
    BY <1>2, <1>3, <2>1, Variants
<1>5. 0 .. Half(t) - 1 = Ids(g - 1) /\ 0 .. 2 * Half(t) - 1 = Ids(g)
  BY <1>3, <1>4 DEF Ids
<1>6. MergedAway(t) = {i \in Ids(g - 1) : Cut(t.buckets, g, i)}
  BY <1>3, <1>5 DEF MergedAway, Cut
<1>7. MergedAway(t) = {i \in Ids(g - 1) : t.buckets[i] # t.buckets[i + Half(t)]}
  BY <1>5 DEF MergedAway
<1>8. \A i \in MergedAway(t) : \A j \in Ids(g) : t.buckets[j] = t.buckets[i] => j = i
  BY <1>2 DEF ShrinkIsDefined
<1>9. \A i \in MergedAway(t) : \A j \in Ids(g) :
        t.buckets[j] = t.buckets[i + Half(t)] => j = i + Half(t)
  BY <1>1, <1>3, <1>4, <1>6 DEF Directory, CutAlone
<1>10. \A i \in MergedAway(t) : i \in Nat /\ i \in Ids(g - 1) /\ i + Half(t) \in Ids(g)
  <2>1. g \in Nat /\ g >= 1
    BY <1>2, <1>4
  <2>2. \A i \in Ids(g - 1) : i \in Nat /\ i + 2^(g - 1) \in Ids(g)
    BY <2>1, Variants
  <2> QED
    BY <1>3, <1>6, <2>2
<1>11. ASSUME NEW i \in MergedAway(t) PROVE MergedInto(t, t.buckets[i + Half(t)]) = i
  <2> DEFINE k == MergedInto(t, t.buckets[i + Half(t)])
  <2>1. k \in MergedAway(t) /\ t.buckets[k + Half(t)] = t.buckets[i + Half(t)]
    BY DEF MergedInto
  <2>2. k + Half(t) = i + Half(t) /\ k \in Nat /\ i \in Nat
    BY <1>9, <1>10, <2>1
  <2> QED
    BY <1>4, <2>2
<1> QED
  BY <1>2, <1>3, <1>4, <1>5, <1>6, <1>7, <1>8, <1>9, <1>11 DEF g

\* An iteration of the loop of shrink_directory.
LEMMA MergingOne ==
  ASSUME NEW h, NEW t, IsTable(h, t), t.global_depth >= 1, ShrinkIsDefined(t),
         NEW n \in 0 .. 2 * Half(t) - 1
  PROVE  MergeBucket(AfterMerging(t, n), n) = AfterMerging(t, n + 1)
<1> DEFINE g == t.global_depth
           half == Half(t)
           away == MergedAway(t)
           gone == {i \in away : i < n}
           then == {i \in away : i < n + 1}
           m == AfterMerging(t, n)
<1>1. /\ g \in Nat /\ half \in Nat /\ half > 0
      /\ 0 .. half - 1 = Ids(g - 1) /\ 0 .. 2 * half - 1 = Ids(g) /\ DOMAIN t.buckets = Ids(g)
      /\ \A i \in Ids(g) : t.buckets[i] \in DOMAIN t.bucket
      /\ away = {i \in Ids(g - 1) : t.buckets[i] # t.buckets[i + half]}
      /\ \A i \in away :
           /\ \A j \in Ids(g) : t.buckets[j] = t.buckets[i] => j = i
           /\ \A j \in Ids(g) : t.buckets[j] = t.buckets[i + half] => j = i + half
           /\ MergedInto(t, t.buckets[i + half]) = i
  BY EntriesOfTable
<1>2. Half(m) = half
  BY DEF AfterMerging, Half
<1>3. /\ m.global_depth = t.global_depth
      /\ m.buckets = [i \in Ids(g) |-> IF i \in gone THEN t.buckets[i + half] ELSE t.buckets[i]]
      /\ DOMAIN m.bucket = DOMAIN t.bucket \ {t.buckets[i] : i \in gone}
      /\ \A a \in DOMAIN m.bucket :
           m.bucket[a] = IF a \in {t.buckets[i + half] : i \in gone} THEN Both(t, MergedInto(t, a))
                         ELSE t.bucket[a]
      /\ m.freed = t.freed \cup UNION {PagesAt(t, t.buckets[i]) : i \in gone}
      /\ m = [global_depth |-> m.global_depth, buckets |-> m.buckets, bucket |-> m.bucket,
              freed |-> m.freed]
  BY <1>1 DEF AfterMerging
<1>4. AfterMerging(t, n + 1) =
        [global_depth |-> t.global_depth,
         buckets |-> [i \in Ids(g) |-> IF i \in then THEN t.buckets[i + half] ELSE t.buckets[i]],
         bucket |-> [a \in DOMAIN t.bucket \ {t.buckets[i] : i \in then} |->
                       IF a \in {t.buckets[i + half] : i \in then} THEN Both(t, MergedInto(t, a))
                       ELSE t.bucket[a]],
         freed |-> t.freed \cup UNION {PagesAt(t, t.buckets[i]) : i \in then}]
  BY <1>1 DEF AfterMerging
<1>5. /\ gone \subseteq away /\ away \subseteq Ids(g - 1) /\ n \notin gone
      /\ \A i \in Ids(g - 1) : i \in Nat /\ i < half /\ i \in Ids(g) /\ i + half \in Ids(g)
      /\ n \in Nat /\ n \in Ids(g)
      /\ then = gone \cup (away \cap {n})
  <2>1. \A i \in 0 .. half - 1 : i \in Nat /\ i < half /\ i \in 0 .. 2 * half - 1 /\ i + half \in 0 .. 2 * half - 1
    BY <1>1
  <2>2. n \in Nat /\ n \in 0 .. 2 * half - 1 /\ ~ (n < n)
    OBVIOUS
  <2>3. \A i \in Nat : i < n + 1 <=> i < n \/ i = n
    BY <2>2
  <2>4. \A i \in away : i \in Nat
    BY <1>1, <2>1
  <2> QED
    BY <1>1, <2>1, <2>2, <2>3, <2>4
<1> HIDE DEF g, half, away, m
<1>6. CASE n \in away
  <2> DEFINE curr == t.buckets[n]
             pair == t.buckets[n + half]
  <2>1. n < half /\ n + half \in Ids(g) /\ n + half \notin Ids(g - 1) /\ curr # pair /\ n + half \notin gone
    <3>1. n \in Ids(g - 1) /\ n < half /\ n + half \in Ids(g) /\ ~ (n + half < half)
      BY <1>1, <1>5, <1>6
    <3> QED
      BY <1>1, <1>5, <1>6, <3>1
  <2>2. m.buckets[n] = curr /\ m.buckets[n + half] = pair
    BY <1>3, <1>5, <2>1
  <2>3. then = gone \cup {n}
    BY <1>5, <1>6
  <2>4. \A i \in gone : /\ t.buckets[i] # pair /\ t.buckets[i + half] # pair
                        /\ t.buckets[i + half] # curr /\ t.buckets[i] # curr
    <3> SUFFICES ASSUME NEW i \in gone
                 PROVE  /\ t.buckets[i] # pair /\ t.buckets[i + half] # pair
                        /\ t.buckets[i + half] # curr /\ t.buckets[i] # curr
      OBVIOUS
    <3>1. i \in away /\ i # n /\ i + half \in Ids(g) /\ i \in Nat /\ i < half /\ i \in Ids(g)
      BY <1>5
    <3>2. i + half # n /\ i # n + half /\ i + half # n + half
      BY <1>1, <1>5, <2>1, <3>1
    <3> QED
      BY <1>1, <1>5, <1>6, <2>1, <3>1, <3>2
  <2>5. /\ curr \in DOMAIN m.bucket /\ pair \in DOMAIN m.bucket
        /\ m.bucket[curr] = t.bucket[curr] /\ m.bucket[pair] = t.bucket[pair]
    <3>1. curr \in DOMAIN t.bucket /\ pair \in DOMAIN t.bucket
      BY <1>1, <1>5, <2>1
    <3>2. /\ curr \notin {t.buckets[i] : i \in gone} /\ curr \notin {t.buckets[i + half] : i \in gone}
          /\ pair \notin {t.buckets[i] : i \in gone} /\ pair \notin {t.buckets[i + half] : i \in gone}
      BY <2>4
    <3> HIDE DEF curr, pair
    <3> QED
      BY <1>3, <3>1, <3>2
  <2> DEFINE both == [local_depth |-> m.bucket[pair].local_depth - 1,
                      pages |-> Reverse(m.bucket[curr].pages) \o m.bucket[pair].pages]
  <2>6. both = Both(t, n) /\ MergedInto(t, pair) = n
    BY <1>1, <1>6, <2>5 DEF Both, half
  <2>7. MergeBucket(m, n) =
          [m EXCEPT !.buckets[n] = pair,
                    !.bucket = [a \in DOMAIN m.bucket \ {curr} |-> IF a = pair THEN both ELSE m.bucket[a]],
                    !.freed = m.freed \cup ToSet(m.bucket[curr].pages)]
    BY <1>2, <2>1, <2>2 DEF MergeBucket
  <2> HIDE DEF both
  <2>8. MergeBucket(m, n) =
          [global_depth |-> m.global_depth,
           buckets |-> [m.buckets EXCEPT ![n] = pair],
           bucket |-> [a \in DOMAIN m.bucket \ {curr} |-> IF a = pair THEN both ELSE m.bucket[a]],
           freed |-> m.freed \cup ToSet(m.bucket[curr].pages)]
    <3> HIDE DEF curr, pair
    <3>1. PICK mg, mi, mb, mf : m = [global_depth |-> mg, buckets |-> mi, bucket |-> mb, freed |-> mf]
      BY <1>3
    <3> QED
      BY <2>7, <3>1
  <2>9. [m.buckets EXCEPT ![n] = pair] =
          [i \in Ids(g) |-> IF i \in then THEN t.buckets[i + half] ELSE t.buckets[i]]
    BY <1>3, <2>3
  <2>10. [a \in DOMAIN m.bucket \ {curr} |-> IF a = pair THEN both ELSE m.bucket[a]] =
           [a \in DOMAIN t.bucket \ {t.buckets[i] : i \in then} |->
              IF a \in {t.buckets[i + half] : i \in then} THEN Both(t, MergedInto(t, a)) ELSE t.bucket[a]]
    <3>1. DOMAIN m.bucket \ {curr} = DOMAIN t.bucket \ {t.buckets[i] : i \in then}
      BY <1>3, <2>3
    <3>2. ASSUME NEW a \in DOMAIN m.bucket
          PROVE  (IF a = pair THEN both ELSE m.bucket[a]) =
                 (IF a \in {t.buckets[i + half] : i \in then} THEN Both(t, MergedInto(t, a))
                  ELSE t.bucket[a])
      <4>1. a \in {t.buckets[i + half] : i \in then} <=> a \in {t.buckets[i + half] : i \in gone} \/ a = pair
        BY <2>3
      <4> QED
        BY <1>3, <2>6, <4>1
    <3> QED
      BY <3>1, <3>2
  <2>11. m.freed \cup ToSet(m.bucket[curr].pages) =
           t.freed \cup UNION {PagesAt(t, t.buckets[i]) : i \in then}
    BY <1>3, <2>3, <2>5 DEF PagesAt
  <2> HIDE DEF curr, pair
  <2> QED
    BY <1>3, <1>4, <2>8, <2>9, <2>10, <2>11 DEF m
<1>7. CASE n \notin away
  <2>1. then = gone
    BY <1>5, <1>7
  <2>2. AfterMerging(t, n + 1) = m
    BY <2>1 DEF AfterMerging, m, away
  <2> DEFINE pair_id == IF n < half THEN n + half ELSE n - half
  <2>3. m.buckets[n] = t.buckets[n]
    BY <1>3, <1>5
  <2>4. m.buckets[pair_id] = m.buckets[n]
    <3>1. CASE n < half
      <4>1. n \in Ids(g - 1) /\ n + half \in Ids(g) /\ n + half \notin gone
        <5>1. n \in 0 .. half - 1 /\ ~ (n + half < n)
          BY <1>1, <1>5, <3>1
        <5> QED
          BY <1>1, <1>5, <5>1
      <4>2. t.buckets[n] = t.buckets[n + half]
        BY <1>1, <1>7, <4>1
      <4> QED
        BY <1>3, <2>3, <3>1, <4>1, <4>2
    <3>2. CASE ~ (n < half)
      <4>1. n - half \in 0 .. half - 1 /\ n - half < n /\ (n - half) + half = n
        <5>1. n \in 0 .. 2 * half - 1
          BY <1>1, <1>5
        <5> QED
          BY <1>1, <3>2, <5>1
      <4>2. n - half \in Ids(g - 1) /\ n - half \in Ids(g)
        BY <1>1, <1>5, <4>1
      <4>3. CASE n - half \in away
        BY <1>3, <2>3, <3>2, <4>1, <4>2, <4>3
      <4>4. CASE n - half \notin away
        BY <1>1, <1>3, <2>3, <3>2, <4>1, <4>2, <4>4
      <4> QED
        BY <4>3, <4>4
    <3> QED
      BY <3>1, <3>2
  <2>5. MergeBucket(m, n) = m
    BY <1>2, <2>4 DEF MergeBucket
  <2> QED
    BY <2>2, <2>5 DEF m
<1> QED
  BY <1>6, <1>7

\* The loop of shrink_directory.
LEMMA MergingAll ==
  ASSUME NEW h, NEW t, IsTable(h, t), t.global_depth >= 1, ShrinkIsDefined(t)
  PROVE  Merged(t) = AfterMerging(t, 2 * Half(t))
<1> DEFINE N == 2 * Half(t)
           F(f, n) == IF n = 0 THEN t ELSE MergeBucket(f[n - 1], n - 1)
           merged == CHOOSE f : f = [n \in 0 .. N |-> F(f, n)]
           after == [n \in 0 .. N |-> AfterMerging(t, n)]
<1>1. Half(t) \in Nat /\ DOMAIN t.buckets = Ids(t.global_depth) /\ \A i \in MergedAway(t) : i \in Nat
  BY EntriesOfTable DEF Ids
<1>2. N \in Nat
  BY <1>1
<1>3. AfterMerging(t, 0) = t
  <2>1. {i \in MergedAway(t) : i < 0} = {}
    BY <1>1
  <2>2. t.bucket = [a \in DOMAIN t.bucket |-> t.bucket[a]] /\ t.buckets = [i \in DOMAIN t.buckets |-> t.buckets[i]]
    BY DEF IsTable, Directory, Leads
  <2>3. AfterMerging(t, 0) =
          [global_depth |-> t.global_depth,
           buckets |-> [i \in DOMAIN t.buckets |-> IF i \in {} THEN t.buckets[i + Half(t)] ELSE t.buckets[i]],
           bucket |-> [a \in DOMAIN t.bucket \ {t.buckets[i] : i \in {}} |->
                         IF a \in {t.buckets[i + Half(t)] : i \in {}} THEN Both(t, MergedInto(t, a))
                         ELSE t.bucket[a]],
           freed |-> t.freed \cup UNION {PagesAt(t, t.buckets[i]) : i \in {}}]
    BY <2>1, Zenon DEF AfterMerging
  <2>4. AfterMerging(t, 0) = [global_depth |-> t.global_depth, buckets |-> t.buckets,
                              bucket |-> t.bucket, freed |-> t.freed]
    <3>1. PICK dir, b, f :
            /\ dir = [i \in DOMAIN t.buckets |-> IF i \in {} THEN t.buckets[i + Half(t)] ELSE t.buckets[i]]
            /\ b = [a \in DOMAIN t.bucket \ {t.buckets[i] : i \in {}} |->
                      IF a \in {t.buckets[i + Half(t)] : i \in {}} THEN Both(t, MergedInto(t, a))
                      ELSE t.bucket[a]]
            /\ f = t.freed \cup UNION {PagesAt(t, t.buckets[i]) : i \in {}}
      OBVIOUS
    <3>2. AfterMerging(t, 0) = [global_depth |-> t.global_depth, buckets |-> dir, bucket |-> b, freed |-> f]
      BY ONLY <2>3, <3>1, Zenon
    <3>3. dir = t.buckets
      BY <2>2, <3>1
    <3>4. b = t.bucket
      BY <2>2, <3>1
    <3>5. f = t.freed
      BY <3>1
    <3> QED
      BY ONLY <3>2, <3>3, <3>4, <3>5
  <2> QED
    BY <2>4 DEF IsTable
<1>4. \A n \in 1 .. N : n - 1 \in 0 .. N - 1 /\ n - 1 \in 0 .. N /\ (n - 1) + 1 = n
  BY <1>2
<1>5. \A n \in 0 .. N - 1 : MergeBucket(AfterMerging(t, n), n) = AfterMerging(t, n + 1)
  BY MergingOne
<1> HIDE DEF N
<1>6. after = [n \in 0 .. N |-> F(after, n)]
  <2>1. ASSUME NEW n \in 0 .. N PROVE AfterMerging(t, n) = F(after, n)
    <3>1. CASE n = 0
      BY <1>3, <3>1
    <3>2. CASE n # 0
      <4>1. n \in 1 .. N
        BY <1>2, <3>2
      <4>2. after[n - 1] = AfterMerging(t, n - 1)
        BY <1>4, <4>1
      <4>3. MergeBucket(AfterMerging(t, n - 1), n - 1) = AfterMerging(t, n)
        BY <1>4, <1>5, <4>1
      <4> QED
        BY <3>2, <4>2, <4>3
    <3> QED
      BY <3>1, <3>2
  <2> QED
    BY <2>1
<1>7. merged = [n \in 0 .. N |-> F(merged, n)]
  <2> HIDE DEF after
  <2>1. \E f : f = [n \in 0 .. N |-> F(f, n)]
    BY <1>6
  <2> QED
    BY <2>1
<1>8. Merged(t) = merged[N]
  BY DEF Merged, N
<1> HIDE DEF merged, after
<1> DEFINE S == {n \in Nat : n <= N => merged[n] = AfterMerging(t, n)}
<1>9. 0 \in S
  <2>1. merged[0] = F(merged, 0)
    BY <1>2, <1>7
  <2> QED
    BY <1>3, <2>1
<1>10. ASSUME NEW n \in Nat, n \in S PROVE n + 1 \in S
  <2> SUFFICES ASSUME n + 1 <= N PROVE merged[n + 1] = AfterMerging(t, n + 1)
    OBVIOUS
  <2>1. n \in 0 .. N - 1 /\ n + 1 \in 0 .. N /\ n + 1 # 0 /\ (n + 1) - 1 = n /\ n <= N
    BY <1>2
  <2>2. merged[n + 1] = MergeBucket(merged[n], n)
    BY <1>7, <2>1
  <2> QED
    BY <1>5, <1>10, <2>1, <2>2
<1>11. N \in S
  BY <1>2, <1>9, <1>10, InductionOnNat
<1> QED
  BY <1>2, <1>8, <1>11 DEF N

\* shrink_directory leaves a table with the same pages, each of them where its
\* hash leads.
LEMMA ShrunkTable ==
  ASSUME NEW h, \A p \in Pages : h[p] \in Nat,
         NEW t, IsTable(h, t), t.global_depth >= 1, ShrinkIsDefined(t),
         NEW depth, t.global_depth # depth
  PROVE  /\ IsTable(h, Shrunk(t, depth))
         /\ Shrunk(t, depth).global_depth = t.global_depth - 1
         /\ PagesOf(Shrunk(t, depth)) = PagesOf(t)
<1> DEFINE g == t.global_depth
           half == Half(t)
           away == MergedAway(t)
           s == Shrunk(t, depth)
<1>1. /\ g \in Nat /\ half = 2^(g - 1) /\ half \in Nat /\ half > 0
      /\ 0 .. half - 1 = Ids(g - 1) /\ 0 .. 2 * half - 1 = Ids(g) /\ DOMAIN t.buckets = Ids(g)
      /\ \A i \in Ids(g) : t.buckets[i] \in DOMAIN t.bucket
      /\ away = {i \in Ids(g - 1) : Cut(t.buckets, g, i)}
      /\ away = {i \in Ids(g - 1) : t.buckets[i] # t.buckets[i + half]}
      /\ \A i \in away :
           /\ \A j \in Ids(g) : t.buckets[j] = t.buckets[i] => j = i
           /\ \A j \in Ids(g) : t.buckets[j] = t.buckets[i + half] => j = i + half
           /\ MergedInto(t, t.buckets[i + half]) = i
  BY EntriesOfTable
<1>2. g >= 1 /\ g - 1 \in Nat /\ {i \in away : i < 2 * half} = away
  <2>1. \A i \in 0 .. half - 1 : i < 2 * half
    BY <1>1
  <2> QED
    BY <1>1, <2>1
<1>3. Merged(t) = AfterMerging(t, 2 * half)
  BY MergingAll
<1>4. AfterMerging(t, 2 * half) =
        [global_depth |-> g,
         buckets |-> [i \in DOMAIN t.buckets |-> IF i \in away THEN t.buckets[i + half] ELSE t.buckets[i]],
         bucket |-> [a \in DOMAIN t.bucket \ {t.buckets[i] : i \in away} |->
                       IF a \in {t.buckets[i + half] : i \in away} THEN Both(t, MergedInto(t, a))
                       ELSE t.bucket[a]],
         freed |-> t.freed \cup UNION {PagesAt(t, t.buckets[i]) : i \in away}]
  BY <1>2 DEF AfterMerging
<1>5. s = [Merged(t) EXCEPT !.global_depth = @ - 1,
                            !.buckets = [i \in 0 .. half - 1 |-> t.buckets[i + half]]]
  BY DEF Shrunk
<1> HIDE DEF g, half, away, s
<1> DEFINE kept == DOMAIN t.bucket \ {t.buckets[i] : i \in away}
           into == {t.buckets[i + half] : i \in away}
<1>6. /\ s.global_depth = g - 1
      /\ s.buckets = [i \in Ids(g - 1) |-> t.buckets[i + half]]
      /\ s.bucket = [a \in kept |-> IF a \in into THEN Both(t, MergedInto(t, a)) ELSE t.bucket[a]]
      /\ s.freed = t.freed \cup UNION {PagesAt(t, t.buckets[i]) : i \in away}
      /\ s = [global_depth |-> s.global_depth, buckets |-> s.buckets, bucket |-> s.bucket, freed |-> s.freed]
  <2>1. PICK mi, mb, mf :
          /\ Merged(t) = [global_depth |-> g, buckets |-> mi, bucket |-> mb, freed |-> mf]
          /\ mb = [a \in kept |-> IF a \in into THEN Both(t, MergedInto(t, a)) ELSE t.bucket[a]]
          /\ mf = t.freed \cup UNION {PagesAt(t, t.buckets[i]) : i \in away}
    BY <1>3, <1>4
  <2>2. PICK ni : ni = [i \in Ids(g - 1) |-> t.buckets[i + half]]
    OBVIOUS
  <2>3. s = [Merged(t) EXCEPT !.global_depth = @ - 1, !.buckets = ni]
    BY <1>1, <1>5, <2>2
  <2>7. PICK m, mg : m = Merged(t) /\ mg = g
    OBVIOUS
  <2>8. m = [global_depth |-> mg, buckets |-> mi, bucket |-> mb, freed |-> mf]
    BY <2>1, <2>7
  <2>9. s = [m EXCEPT !.global_depth = @ - 1, !.buckets = ni]
    BY <2>3, <2>7
  <2>10. s = [global_depth |-> mg - 1, buckets |-> ni, bucket |-> mb, freed |-> mf]
    BY ONLY <2>8, <2>9
  <2>4. s = [global_depth |-> g - 1, buckets |-> ni, bucket |-> mb, freed |-> mf]
    BY <2>7, <2>10
  <2>5. s.global_depth = g - 1 /\ s.buckets = ni /\ s.bucket = mb /\ s.freed = mf
    BY <2>4
  <2>6. s = [global_depth |-> s.global_depth, buckets |-> s.buckets, bucket |-> s.bucket, freed |-> s.freed]
    BY <2>4, <2>5
  <2> QED
    BY <2>1, <2>2, <2>5, <2>6
<1> HIDE DEF kept, into
<1>7. /\ t.bucket \in [DOMAIN t.bucket -> Bucket] /\ DOMAIN t.bucket \subseteq Addresses /\ t.freed \subseteq Pages
      /\ Directory(g, t.buckets, DepthsOf(t.bucket))
      /\ \A a \in DOMAIN t.bucket : /\ \A p \in PagesAt(t, a) : t.buckets[h[p] % 2^g] = a
                                    /\ IsInjective(t.bucket[a].pages)
  BY DEF IsTable, IsPlaced, g
<1>8. \A a \in DOMAIN t.bucket : /\ t.bucket[a].local_depth \in Nat /\ t.bucket[a].pages \in Seq(Pages)
                                 /\ PagesAt(t, a) \subseteq Pages
  BY <1>7 DEF Bucket, PagesAt, ToSet
<1>9. \A i \in away : /\ i \in Ids(g - 1) /\ i \in Ids(g) /\ i + half \in Ids(g) /\ i \in Nat
                      /\ t.buckets[i] # t.buckets[i + half]
                      /\ t.buckets[i] \in DOMAIN t.bucket /\ t.buckets[i + half] \in DOMAIN t.bucket
                      /\ t.buckets[i + half] \in kept /\ t.buckets[i + half] \in into
  <2>1. \A i \in Ids(g - 1) : i \in Ids(g) /\ i + half \in Ids(g) /\ i \in Nat
    BY <1>1, <1>2, Variants
  <2>2. \A i \in away : \A k \in away : t.buckets[i + half] # t.buckets[k]
    <3> SUFFICES ASSUME NEW i \in away, NEW k \in away, t.buckets[i + half] = t.buckets[k] PROVE FALSE
      OBVIOUS
    <3>1. i + half = k /\ i + half \notin Ids(g - 1) /\ k \in Ids(g - 1)
      <4>1. i \in Ids(g - 1) /\ k \in Ids(g - 1) /\ i + half \in Ids(g)
        BY <1>1, <2>1
      <4>2. i + half \notin Ids(g - 1)
        BY <1>1, <1>2, <4>1, Variants
      <4> QED
        BY <1>1, <4>1, <4>2
    <3> QED
      BY <3>1
  <2> QED
    BY <1>1, <2>1, <2>2 DEF kept, into
<1>10. \A i \in away : s.bucket[t.buckets[i + half]] = Both(t, i)
  BY <1>1, <1>6, <1>9
<1>11. \A a \in kept : a \notin into => s.bucket[a] = t.bucket[a]
  BY <1>6
\* The pages of a bucket that another is merged into.
<1>12. ASSUME NEW i \in away
       PROVE  /\ Both(t, i).local_depth = t.bucket[t.buckets[i + half]].local_depth - 1
              /\ Both(t, i) = [local_depth |-> Both(t, i).local_depth, pages |-> Both(t, i).pages]
              /\ Both(t, i).pages \in Seq(Pages)
              /\ ToSet(Both(t, i).pages) = PagesAt(t, t.buckets[i]) \cup PagesAt(t, t.buckets[i + half])
              /\ IsInjective(Both(t, i).pages)
  <2> DEFINE curr == t.bucket[t.buckets[i]].pages
             pair == t.bucket[t.buckets[i + half]].pages
  <2>1. /\ curr \in Seq(Pages) /\ pair \in Seq(Pages) /\ IsInjective(curr) /\ IsInjective(pair)
    BY <1>7, <1>8, <1>9
  <2>2. ToSet(curr) \cap ToSet(pair) = {}
    BY <1>7, <1>9 DEF PagesAt
  <2>3. /\ Both(t, i).local_depth = t.bucket[t.buckets[i + half]].local_depth - 1
        /\ Both(t, i).pages = Reverse(curr) \o pair
        /\ Both(t, i) = [local_depth |-> Both(t, i).local_depth, pages |-> Both(t, i).pages]
    BY DEF Both, half
  <2>4. ToSet(curr) = PagesAt(t, t.buckets[i]) /\ ToSet(pair) = PagesAt(t, t.buckets[i + half])
    BY DEF PagesAt
  <2> HIDE DEF curr, pair
  <2>5. PICK r \in Seq(Pages) : r = Reverse(curr) /\ ToSet(r) = ToSet(curr) /\ IsInjective(r)
    BY <2>1, PagesReversed
  <2>6. r \o pair \in Seq(Pages) /\ ToSet(r \o pair) = ToSet(r) \cup ToSet(pair) /\ IsInjective(r \o pair)
    BY <2>1, <2>2, <2>5, PagesOfBoth
  <2> QED
    BY <2>3, <2>4, <2>5, <2>6
<1>13. Directory(g - 1, s.buckets, DepthsOf(s.bucket))
  <2> DEFINE d == DepthsOf(t.bucket)
             d2 == DepthsOf(s.bucket)
  <2>1. /\ DOMAIN d = DOMAIN t.bucket /\ \A a \in DOMAIN t.bucket : d[a] = t.bucket[a].local_depth
        /\ DOMAIN d2 = kept /\ \A a \in kept : d2[a] = s.bucket[a].local_depth
        /\ d2 = [a \in DOMAIN d2 |-> d2[a]]
    BY <1>6 DEF DepthsOf
  <2> HIDE DEF d, d2
  <2>2. \A a \in kept : d2[a] = IF a \in into THEN d[a] - 1 ELSE d[a]
    <3> SUFFICES ASSUME NEW a \in kept PROVE d2[a] = IF a \in into THEN d[a] - 1 ELSE d[a]
      OBVIOUS
    <3>1. CASE a \in into
      <4>1. PICK i \in away : a = t.buckets[i + half]
        BY <3>1 DEF into
      <4> QED
        BY <1>9, <1>10, <1>12, <2>1, <3>1, <4>1
    <3>2. CASE a \notin into
      BY <1>11, <2>1, <3>2 DEF kept
    <3> QED
      BY <3>1, <3>2
  <2>3. d2 = [a \in DOMAIN d2 |-> IF a \in {t.buckets[i + 2^(g - 1)] : i \in away} THEN d[a] - 1 ELSE d[a]]
    BY <1>1, <2>1, <2>2 DEF into
  <2>4. DOMAIN d2 = DOMAIN d \ {t.buckets[i] : i \in away}
    BY <2>1 DEF kept
  <2>5. s.buckets = [i \in Ids(g - 1) |-> t.buckets[i + 2^(g - 1)]]
    BY <1>1, <1>6
  <2>6. Directory(g, t.buckets, d)
    BY <1>7 DEF d
  <2>7. \A i \in away : \A j \in Ids(g) : t.buckets[j] = t.buckets[i] => j = i
    BY <1>1
  <2>8. PICK dir, dir2 : dir = t.buckets /\ dir2 = s.buckets
    OBVIOUS
  <2>9. /\ Directory(g, dir, d) /\ away = {i \in Ids(g - 1) : Cut(dir, g, i)}
        /\ dir2 = [i \in Ids(g - 1) |-> dir[i + 2^(g - 1)]]
        /\ \A i \in away : \A j \in Ids(g) : dir[j] = dir[i] => j = i
        /\ DOMAIN d2 = DOMAIN d \ {dir[i] : i \in away}
        /\ d2 = [a \in DOMAIN d2 |-> IF a \in {dir[i + 2^(g - 1)] : i \in away} THEN d[a] - 1 ELSE d[a]]
    <3>1. Directory(g, dir, d) /\ away = {i \in Ids(g - 1) : Cut(dir, g, i)}
      BY ONLY <1>1, <2>6, <2>8, Zenon
    <3>2. /\ dir2 = [i \in Ids(g - 1) |-> dir[i + 2^(g - 1)]]
          /\ \A i \in away : \A j \in Ids(g) : dir[j] = dir[i] => j = i
      BY ONLY <2>5, <2>7, <2>8
    <3>3. /\ DOMAIN d2 = DOMAIN d \ {dir[i] : i \in away}
          /\ d2 = [a \in DOMAIN d2 |-> IF a \in {dir[i + 2^(g - 1)] : i \in away} THEN d[a] - 1 ELSE d[a]]
      BY ONLY <2>3, <2>4, <2>8
    <3> QED
      BY ONLY <3>1, <3>2, <3>3
  <2>10. Directory(g - 1, dir2, d2)
    BY <1>2, <2>9, ShrunkDirectory
  <2> QED
    BY <2>8, <2>10 DEF d2
<1>14. s.bucket \in [kept -> Bucket]
  <2>1. ASSUME NEW a \in kept PROVE s.bucket[a] \in Bucket
    <3>1. s.bucket[a].local_depth \in Nat
      <4>1. DepthsOf(s.bucket) \in [DOMAIN DepthsOf(s.bucket) -> Nat]
        BY <1>13 DEF Directory, Leads
      <4> QED
        BY <1>6, <4>1 DEF DepthsOf
    <3>2. CASE a \in into
      <4>1. PICK i \in away : a = t.buckets[i + half]
        BY <3>2 DEF into
      <4>2. s.bucket[a] = Both(t, i)
        BY <1>10, <4>1
      <4>3. /\ Both(t, i).local_depth \in Nat /\ Both(t, i).pages \in Seq(Pages)
            /\ Both(t, i) = [local_depth |-> Both(t, i).local_depth, pages |-> Both(t, i).pages]
        BY <1>12, <3>1, <4>2
      <4>4. Both(t, i) \in Bucket
        BY <4>3 DEF Bucket
      <4> QED
        BY <4>2, <4>4
    <3>3. CASE a \notin into
      BY <1>7, <1>11, <3>3 DEF kept
    <3> QED
      BY <3>2, <3>3
  <2> QED
    BY <1>6, <2>1
\* The pages of an entry of the shrunk directory.
<1>15. \A i \in away : PagesAt(s, t.buckets[i + half]) =
                         PagesAt(t, t.buckets[i]) \cup PagesAt(t, t.buckets[i + half])
  BY <1>10, <1>12 DEF PagesAt
<1>16. \A a \in kept : a \notin into => PagesAt(s, a) = PagesAt(t, a)
  BY <1>11 DEF PagesAt
<1>17. ASSUME NEW a \in kept, NEW p \in PagesAt(s, a) PROVE s.buckets[h[p] % 2^(g - 1)] = a
  <2> DEFINE j == h[p] % 2^g
             r == h[p] % 2^(g - 1)
  <2>1. p \in Pages /\ t.buckets[j] \in {a} \cup {t.buckets[i] : i \in {k \in away : t.buckets[k + half] = a}}
    <3>1. CASE a \in into
      <4>1. PICK i \in away : a = t.buckets[i + half]
        BY <3>1 DEF into
      <4>2. p \in PagesAt(t, t.buckets[i]) \/ p \in PagesAt(t, a)
        BY <1>15, <1>17, <4>1
      <4> QED
        BY <1>7, <1>8, <1>9, <4>1, <4>2
    <3>2. CASE a \notin into
      BY <1>7, <1>8, <1>16, <1>17, <3>2 DEF kept
    <3> QED
      BY <3>1, <3>2
  <2>2. h[p] \in Nat
    BY <2>1
  <2>3. j \in Ids(g) /\ r \in Ids(g - 1) /\ j % 2^(g - 1) = r
    <3>1. g - 1 <= g
      BY <1>1
    <3> QED
      BY <1>1, <1>2, <2>2, <3>1, LastBits, LastBitsAreId
  <2> HIDE DEF j
  <2>4. j = r \/ j = r + half
    <3>1. CASE j \in Ids(g - 1)
      BY <1>1, <1>2, <2>3, <3>1, LastBitsOfId
    <3>2. CASE j \notin Ids(g - 1)
      <4>1. j - half \in Ids(g - 1) /\ j = (j - half) + half
        BY <1>1, <1>2, <2>3, <3>2, Variants
      <4>2. PICK k \in Ids(g - 1) : j = k + half
        BY <4>1
      <4>3. (k + half) % 2^(g - 1) = k
        BY <1>1, <1>2, LastBitsOfId
      <4> QED
        BY <2>3, <4>2, <4>3
    <3> QED
      BY <3>1, <3>2
  <2> HIDE DEF r
  <2>5. s.buckets[r] = t.buckets[r + half]
    BY <1>6, <2>3
  <2>6. r \in Ids(g) /\ r + half \in Ids(g)
    BY <1>1, <1>2, <2>3, Variants
  <2> SUFFICES s.buckets[r] = a
    BY DEF r
  <2>7. CASE \E i \in away : t.buckets[i + half] = a /\ t.buckets[j] = t.buckets[i]
    <3>1. PICK i \in away : t.buckets[i + half] = a /\ t.buckets[j] = t.buckets[i]
      BY <2>7
    <3>2. j = i /\ i \in Ids(g - 1)
      BY <1>1, <1>9, <2>3, <3>1
    <3>3. r + half \notin Ids(g - 1)
      BY <1>1, <1>2, <2>3, Variants
    <3>4. r = i
      BY <2>4, <3>2, <3>3
    <3> QED
      BY <2>5, <3>1, <3>4
  <2>8. CASE t.buckets[j] = a
    <3>1. CASE j = r
      <4>1. r \notin away
        BY <2>8, <3>1 DEF kept
      <4> QED
        BY <1>1, <2>3, <2>5, <2>8, <3>1, <4>1
    <3>2. CASE j = r + half
      BY <2>5, <2>8, <3>2
    <3> QED
      BY <2>4, <3>1, <3>2
  <2> QED
    BY <2>1, <2>7, <2>8
<1>18. ASSUME NEW a \in kept PROVE IsInjective(s.bucket[a].pages)
  <2>1. CASE a \in into
    BY <1>10, <1>12, <2>1 DEF into
  <2>2. CASE a \notin into
    BY <1>7, <1>11, <2>2 DEF kept
  <2> QED
    BY <2>1, <2>2
<1>19. IsTable(h, s)
  <2>1. DOMAIN s.bucket = kept /\ kept \subseteq DOMAIN t.bucket
    BY <1>6 DEF kept
  <2>2. s.freed \subseteq Pages
    BY <1>6, <1>7, <1>8, <1>9
  <2>3. IsPlaced(h, s)
    BY <1>6, <1>17, <1>18, <2>1 DEF IsPlaced
  <2> QED
    BY <1>6, <1>7, <1>13, <1>14, <2>1, <2>2, <2>3 DEF IsTable
<1>20. PagesOf(s) = PagesOf(t)
  <2>1. DOMAIN s.bucket = kept
    BY <1>6
  <2>2. ASSUME NEW a \in kept PROVE PagesAt(s, a) \subseteq PagesOf(t)
    <3>1. CASE a \in into
      BY <1>9, <1>15, <3>1 DEF into, PagesOf
    <3>2. CASE a \notin into
      BY <1>16, <3>2 DEF kept, PagesOf
    <3> QED
      BY <3>1, <3>2
  <2>3. ASSUME NEW a \in DOMAIN t.bucket PROVE PagesAt(t, a) \subseteq PagesOf(s)
    <3>1. CASE a \notin kept
      <4>1. PICK i \in away : a = t.buckets[i]
        BY <3>1 DEF kept
      <4> QED
        BY <1>9, <1>15, <2>1, <4>1 DEF PagesOf
    <3>2. CASE a \in kept /\ a \in into
      <4>1. PICK i \in away : a = t.buckets[i + half]
        BY <3>2 DEF into
      <4> QED
        BY <1>15, <2>1, <3>2, <4>1 DEF PagesOf
    <3>3. CASE a \in kept /\ a \notin into
      BY <1>16, <2>1, <3>3 DEF PagesOf
    <3> QED
      BY <3>1, <3>2, <3>3
  <2>4. PagesOf(s) \subseteq PagesOf(t)
    BY <2>1, <2>2 DEF PagesOf
  <2>5. PagesOf(t) \subseteq PagesOf(s)
    BY <2>3 DEF PagesOf
  <2> QED
    BY <2>4, <2>5
<1> QED
  BY <1>6, <1>19, <1>20 DEF g, s

\* A pass of the loop of set_max_size.
LimitStep(low, t) == IF MayShrink(t, low) THEN Shrunk(t, low) ELSE t

\* The loop of set_max_size leaves a table with the same pages, each of them
\* where its hash leads.
LEMMA LimitedTable ==
  ASSUME NEW h, \A p \in Pages : h[p] \in Nat, NEW t, IsTable(h, t),
         NEW depth \in Nat, min_depth \in Nat
  PROVE  IsTable(h, Limited(t, depth)) /\ PagesOf(Limited(t, depth)) = PagesOf(t)
<1> DEFINE low == LowerMin(depth)
           times == IF t.global_depth > depth THEN t.global_depth - depth ELSE 0
           shrunk == CHOOSE f : f = [n \in 0 .. times |-> IF n = 0 THEN t ELSE LimitStep(low, f[n - 1])]
           Upto(k, f) == f = [n \in 0 .. k |-> IF n = 0 THEN t ELSE LimitStep(low, f[n - 1])]
           E == {k \in Nat : \E f : Upto(k, f)}
<1>1. t.global_depth \in Nat
  BY DEF IsTable, Directory, Leads
<1>2. low \in Nat /\ low <= depth
  BY DEF LowerMin
<1>3. times \in Nat /\ (times = 0 \/ times = t.global_depth - depth)
  BY <1>1
<1>4. Limited(t, depth) = shrunk[times]
  BY DEF Limited, LimitStep
<1> HIDE DEF times, low
<1>5. 0 \in E
  <2> DEFINE f == [n \in 0 .. 0 |-> t]
  <2>1. Upto(0, f)
    OBVIOUS
  <2> QED
    BY <2>1
<1>6. ASSUME NEW k \in Nat, k \in E PROVE k + 1 \in E
  <2>1. PICK f : Upto(k, f)
    BY <1>6
  <2> DEFINE u == [n \in 0 .. k + 1 |-> IF n <= k THEN f[n] ELSE LimitStep(low, f[k])]
  <2>2. \A n \in 0 .. k + 1 : n = 0 \/ (n \in 1 .. k /\ n - 1 \in 0 .. k) \/ (n = k + 1 /\ n - 1 = k)
    OBVIOUS
  <2>3. \A n \in 0 .. k : u[n] = f[n]
    OBVIOUS
  <2>4. u[k + 1] = LimitStep(low, f[k])
    OBVIOUS
  <2>5. \A n \in 0 .. k : f[n] = IF n = 0 THEN t ELSE LimitStep(low, f[n - 1])
    BY <2>1
  <2>6. DOMAIN u = 0 .. k + 1 /\ u = [n \in 0 .. k + 1 |-> u[n]]
    OBVIOUS
  <2> HIDE DEF u
  <2>7. 0 \in 0 .. k /\ k \in 0 .. k /\ k + 1 # 0 /\ (k + 1) - 1 = k /\ \A n \in 1 .. k : n \in 0 .. k /\ n # 0
    OBVIOUS
  <2>8. ASSUME NEW n \in 0 .. k + 1 PROVE u[n] = IF n = 0 THEN t ELSE LimitStep(low, u[n - 1])
    <3>1. CASE n = 0
      BY <2>3, <2>5, <2>7, <3>1
    <3>2. CASE n \in 1 .. k /\ n - 1 \in 0 .. k
      BY <2>3, <2>5, <2>7, <3>2
    <3>3. CASE n = k + 1 /\ n - 1 = k
      BY <2>3, <2>4, <2>7, <3>3
    <3> QED
      BY <2>2, <3>1, <3>2, <3>3
  <2>9. Upto(k + 1, u)
    BY <2>6, <2>8
  <2> HIDE DEF Upto
  <2> QED
    BY <2>9
<1>7. Upto(times, shrunk)
  <2>1. times \in E
    <3> HIDE DEF E
    <3> QED
      BY <1>3, <1>5, <1>6, InductionOnNat
  <2> QED
    BY <2>1
<1> HIDE DEF shrunk, E
<1>8. shrunk[0] = t /\ \A n \in 0 .. times : n # 0 => shrunk[n] = LimitStep(low, shrunk[n - 1])
  BY <1>3, <1>7
<1> DEFINE Good(x, n) == /\ IsTable(h, x) /\ PagesOf(x) = PagesOf(t)
                         /\ x.global_depth <= t.global_depth /\ x.global_depth >= t.global_depth - n
           S == {n \in Nat : n <= times => Good(shrunk[n], n)}
<1>9. 0 \in S
  BY <1>1, <1>8
<1>10. ASSUME NEW n \in Nat, n \in S PROVE n + 1 \in S
  <2> SUFFICES ASSUME n + 1 <= times PROVE Good(shrunk[n + 1], n + 1)
    OBVIOUS
  <2>1. n + 1 \in 0 .. times /\ n + 1 # 0 /\ (n + 1) - 1 = n /\ n <= times
    BY <1>3
  <2>2. shrunk[n + 1] = LimitStep(low, shrunk[n])
    BY <1>8, <2>1
  <2>3. PICK x : x = shrunk[n]
    OBVIOUS
  <2>4. Good(x, n)
    BY <1>10, <2>1, <2>3
  <2>5. x.global_depth \in Nat
    BY <2>4 DEF IsTable, Directory, Leads
  <2>6. x.global_depth >= 1 /\ x.global_depth # low
    BY <1>1, <1>2, <1>3, <2>1, <2>4, <2>5
  <2>7. CASE MayShrink(x, low)
    <3>1. LimitStep(low, x) = Shrunk(x, low)
      BY <2>7 DEF LimitStep
    <3>2. ShrinkIsDefined(x)
      BY <2>6, <2>7 DEF MayShrink
    <3>3. /\ IsTable(h, Shrunk(x, low)) /\ PagesOf(Shrunk(x, low)) = PagesOf(x)
          /\ Shrunk(x, low).global_depth = x.global_depth - 1
      BY <2>4, <2>6, <3>2, ShrunkTable
    <3>4. PICK y : y = Shrunk(x, low)
      OBVIOUS
    <3>5. Good(y, n + 1)
      BY <1>1, <2>4, <2>5, <3>3, <3>4
    <3> HIDE DEF Good
    <3> QED
      BY <2>2, <2>3, <3>1, <3>4, <3>5
  <2>8. CASE ~ MayShrink(x, low)
    <3>1. LimitStep(low, x) = x
      BY <2>8 DEF LimitStep
    <3>2. Good(x, n + 1)
      BY <1>1, <2>4, <2>5
    <3> HIDE DEF Good
    <3> QED
      BY <2>2, <2>3, <3>1, <3>2
  <2> QED
    BY <2>7, <2>8
<1>11. times \in S
  <2> HIDE DEF S
  <2> QED
    BY <1>3, <1>9, <1>10, InductionOnNat
<1> QED
  BY <1>3, <1>4, <1>11

\* While an entry and its pair share a bucket, there is room for one more.
LEMMA SomeAddressFree ==
  ASSUME NEW g \in Nat, g >= 1, g <= MaxDepth, NEW dir,
         NEW low \in Ids(g - 1), ~ Cut(dir, g, low)
  PROVE  \E a \in Addresses : \A i \in Ids(g) : dir[i] # a
<1> SUFFICES ASSUME \A a \in Addresses : \E i \in Ids(g) : dir[i] = a PROVE FALSE
  OBVIOUS
<1> DEFINE top == low + 2^(g - 1)
           T == Ids(g) \ {top}
           f == [a \in Addresses |-> CHOOSE i \in T : dir[i] = a]
<1>1. MaxDepth \in Nat /\ 2^g \in Nat /\ 2^MaxDepth \in Nat /\ 2^g > 0 /\ 2^g <= 2^MaxDepth
  BY HashtableAssumption, PowerPositive, PowerGrows
<1>2. low \in Ids(g) /\ top \in Ids(g) /\ low # top /\ dir[low] = dir[top]
  BY Variants DEF Cut
<1>3. \A a \in Addresses : \E i \in T : dir[i] = a
  <2> HIDE DEF top
  <2> QED
    BY <1>2
<1>4. f \in Injection(Addresses, T)
  <2>1. \A a \in Addresses : f[a] \in T /\ dir[f[a]] = a
    BY <1>3
  <2>2. f \in [Addresses -> T]
    BY <2>1
  <2> HIDE DEF f, T
  <2> QED
    BY <2>1, <2>2 DEF Injection, IsInjective
<1>5. IsFiniteSet(Ids(g)) /\ Cardinality(Ids(g)) = 2^g
  BY <1>1, FS_Interval, SMT DEF Ids
<1>6. IsFiniteSet(T) /\ Cardinality(T) = 2^g - 1
  BY <1>2, <1>5, FS_RemoveElement
<1>7. Cardinality(Addresses) = 2^MaxDepth
  BY <1>1, FS_Interval, SMT DEF Addresses
<1>8. Cardinality(Addresses) <= Cardinality(T)
  <2> HIDE DEF f, T
  <2> QED
    BY <1>4, <1>6, FS_Injection
<1> QED
  BY <1>1, <1>6, <1>7, <1>8

-----------------------------------------------------------------------------
(* What each operation does to a table                                     *)

\* What a table consists of.
LEMMA PartsOfTable ==
  ASSUME NEW h, NEW t, IsTable(h, t)
  PROVE  /\ t.global_depth \in Nat
         /\ t.buckets \in [Ids(t.global_depth) -> DOMAIN t.bucket]
         /\ t.bucket \in [DOMAIN t.bucket -> Bucket]
         /\ \A a \in DOMAIN t.bucket :
              /\ t.bucket[a].local_depth \in 0 .. t.global_depth
              /\ t.bucket[a].pages \in Seq(Pages)
              /\ t.bucket[a] = [local_depth |-> t.bucket[a].local_depth, pages |-> t.bucket[a].pages]
              /\ PagesAt(t, a) \subseteq Pages
              /\ \E i \in Ids(t.global_depth) : t.buckets[i] = a
         /\ PagesOf(t) \subseteq Pages
<1> DEFINE g == t.global_depth
           d == DepthsOf(t.bucket)
<1>1. Directory(g, t.buckets, d) /\ t.bucket \in [DOMAIN t.bucket -> Bucket]
  BY DEF IsTable
<1>2. DOMAIN d = DOMAIN t.bucket /\ \A a \in DOMAIN t.bucket : d[a] = t.bucket[a].local_depth
  BY DEF DepthsOf
<1> HIDE DEF g, d
<1>3. /\ g \in Nat /\ t.buckets \in [Ids(g) -> DOMAIN t.bucket]
      /\ \A a \in DOMAIN t.bucket : \E i \in Ids(g) : t.buckets[i] = a
  BY <1>1, <1>2 DEF Directory, Leads
<1>4. \A a \in DOMAIN t.bucket : t.bucket[a].local_depth \in 0 .. g
  BY <1>1, <1>2, DepthBounded
<1>5. \A a \in DOMAIN t.bucket :
        /\ t.bucket[a].pages \in Seq(Pages)
        /\ t.bucket[a] = [local_depth |-> t.bucket[a].local_depth, pages |-> t.bucket[a].pages]
  BY <1>1 DEF Bucket
<1>6. ASSUME NEW a \in DOMAIN t.bucket PROVE PagesAt(t, a) \subseteq Pages
  <2>1. PICK s \in Seq(Pages) : s = t.bucket[a].pages
    BY <1>5
  <2>2. ToSet(s) \subseteq Pages
    BY DEF ToSet
  <2> QED
    BY <2>1, <2>2 DEF PagesAt
<1>7. PagesOf(t) \subseteq Pages
  BY <1>6 DEF PagesOf
<1> QED
  BY <1>1, <1>3, <1>4, <1>5, <1>6, <1>7 DEF g

\* A page of the table is in the bucket that its hash leads to, and in no other.
LEMMA PlaceOfPage ==
  ASSUME NEW h, NEW t, IsTable(h, t), NEW p \in PagesOf(t), NEW a \in DOMAIN t.bucket
  PROVE  p \in PagesAt(t, a) <=> a = t.buckets[h[p] % 2^t.global_depth]
BY DEF IsTable, IsPlaced, PagesOf

\* Pages move, the directory stays.
LEMMA SameDirectory ==
  ASSUME NEW h, NEW t, IsTable(h, t),
         NEW b \in [DOMAIN t.bucket -> Bucket],
         \A a \in DOMAIN t.bucket : b[a].local_depth = t.bucket[a].local_depth,
         NEW t2, t2 = [global_depth |-> t.global_depth, buckets |-> t.buckets, bucket |-> b,
                       freed |-> t.freed],
         IsPlaced(h, t2)
  PROVE  IsTable(h, t2)
<1>1. DepthsOf(b) = DepthsOf(t.bucket)
  BY DEF DepthsOf
<1> QED
  BY <1>1 DEF IsTable

\* The pages of one bucket are replaced by others that its entry leads to.
LEMMA ChangedBucket ==
  ASSUME NEW h, NEW t, IsTable(h, t), NEW at \in DOMAIN t.bucket,
         NEW q \in Seq(Pages), IsInjective(q),
         \A p \in ToSet(q) : t.buckets[h[p] % 2^t.global_depth] = at,
         NEW b, b = [t.bucket EXCEPT ![at] = [local_depth |-> t.bucket[at].local_depth, pages |-> q]],
         NEW t2, t2 = [global_depth |-> t.global_depth, buckets |-> t.buckets, bucket |-> b,
                       freed |-> t.freed]
  PROVE  IsTable(h, t2) /\ PagesOf(t2) = (PagesOf(t) \ PagesAt(t, at)) \cup ToSet(q)
<1>1. /\ DOMAIN b = DOMAIN t.bucket
      /\ b[at].local_depth = t.bucket[at].local_depth /\ b[at].pages = q
      /\ \A a \in DOMAIN t.bucket : a # at => b[a] = t.bucket[a]
  OBVIOUS
<1>2. b \in [DOMAIN t.bucket -> Bucket]
  <2>1. PICK l, c : l = t.bucket[at].local_depth /\ c = [local_depth |-> l, pages |-> q]
    OBVIOUS
  <2>2. l \in Nat /\ t.bucket \in [DOMAIN t.bucket -> Bucket]
    <3>1. t.bucket[at].local_depth \in 0 .. t.global_depth /\ t.bucket \in [DOMAIN t.bucket -> Bucket]
      BY PartsOfTable
    <3> QED
      BY <2>1, <3>1
  <2>3. c \in Bucket
    BY <2>1, <2>2 DEF Bucket
  <2>4. b = [t.bucket EXCEPT ![at] = c]
    BY <2>1
  <2> QED
    BY <2>2, <2>3, <2>4
<1>3. t2.global_depth = t.global_depth /\ t2.buckets = t.buckets /\ t2.bucket = b
  OBVIOUS
<1>4. /\ PagesAt(t2, at) = ToSet(q)
      /\ \A a \in DOMAIN t.bucket : a # at => PagesAt(t2, a) = PagesAt(t, a)
  BY <1>1, <1>3 DEF PagesAt
<1>5. \A a \in DOMAIN t.bucket : /\ \A r \in PagesAt(t, a) : t.buckets[h[r] % 2^t.global_depth] = a
                                 /\ IsInjective(t.bucket[a].pages)
  BY DEF IsTable, IsPlaced
<1>6. IsPlaced(h, t2)
  <2>1. ASSUME NEW a \in DOMAIN t.bucket
        PROVE  /\ \A r \in PagesAt(t2, a) : t.buckets[h[r] % 2^t.global_depth] = a
               /\ IsInjective(b[a].pages)
    <3>1. CASE a = at
      BY <1>1, <1>4, <3>1
    <3>2. CASE a # at
      BY <1>1, <1>4, <1>5, <3>2
    <3> QED
      BY <3>1, <3>2
  <2> QED
    BY <1>1, <1>3, <2>1 DEF IsPlaced
<1>7. IsTable(h, t2)
  <2>1. \A a \in DOMAIN t.bucket : b[a].local_depth = t.bucket[a].local_depth
    BY <1>1
  <2> QED
    BY <1>2, <1>6, <2>1, SameDirectory
<1>8. PagesOf(t2) = (PagesOf(t) \ PagesAt(t, at)) \cup ToSet(q)
  <2>1. \A a \in DOMAIN t.bucket : a # at => PagesAt(t, a) \cap PagesAt(t, at) = {}
    BY <1>5
  <2>2. DOMAIN t2.bucket = DOMAIN t.bucket
    BY <1>1, <1>3
  <2> QED
    BY <1>4, <2>1, <2>2 DEF PagesOf
<1> QED
  BY <1>7, <1>8

\* The table t2 is t with the page p in front of the others of the bucket at, to
\* which the hash of p leads.
PageInserted(h, t, p, at, t2) ==
  /\ t.buckets[h[p] % 2^t.global_depth] = at
  /\ t2 = [global_depth |-> t.global_depth, buckets |-> t.buckets,
           bucket |-> [t.bucket EXCEPT ![at] = [local_depth |-> t.bucket[at].local_depth,
                                                pages |-> <<p>> \o t.bucket[at].pages]],
           freed |-> t.freed]

\* insert_page puts a page in front of the others of its bucket.
LEMMA PlacedTable ==
  ASSUME NEW h, NEW t, IsTable(h, t), NEW p \in Pages, p \notin PagesOf(t),
         NEW at \in DOMAIN t.bucket, NEW t2, PageInserted(h, t, p, at, t2)
  PROVE  IsTable(h, t2) /\ PagesOf(t2) = PagesOf(t) \cup {p}
<1> USE DEF PageInserted
<1>1. PICK w \in Seq(Pages) : /\ w = <<p>> \o t.bucket[at].pages
                              /\ ToSet(w) = {p} \cup PagesAt(t, at) /\ IsInjective(w)
  <2>1. PICK s \in Seq(Pages) : s = t.bucket[at].pages
    BY PartsOfTable
  <2>2. IsInjective(s) /\ p \notin ToSet(s)
    BY <2>1 DEF IsTable, IsPlaced, PagesOf, PagesAt
  <2>3. <<p>> \o s \in Seq(Pages) /\ ToSet(<<p>> \o s) = {p} \cup ToSet(s) /\ IsInjective(<<p>> \o s)
    BY <2>2, PageInFront
  <2> QED
    BY <2>1, <2>3 DEF PagesAt
<1>2. \A r \in ToSet(w) : t.buckets[h[r] % 2^t.global_depth] = at
  BY <1>1 DEF IsTable, IsPlaced
<1>3. PICK b : b = [t.bucket EXCEPT ![at] = [local_depth |-> t.bucket[at].local_depth, pages |-> w]]
  OBVIOUS
<1>4. IsTable(h, t2) /\ PagesOf(t2) = (PagesOf(t) \ PagesAt(t, at)) \cup ToSet(w)
  <2>1. t2 = [global_depth |-> t.global_depth, buckets |-> t.buckets, bucket |-> b, freed |-> t.freed]
    BY <1>1, <1>3
  <2>2. IsTable(h, t) /\ at \in DOMAIN t.bucket /\ w \in Seq(Pages) /\ IsInjective(w)
    BY <1>1
  <2> QED
    BY ONLY <1>2, <1>3, <2>1, <2>2, ChangedBucket
<1>5. PagesAt(t, at) \subseteq PagesOf(t)
  BY DEF PagesOf
<1> QED
  BY <1>1, <1>4, <1>5

\* remove_page takes a page out of its bucket.
LEMMA RemovedTable ==
  ASSUME NEW h, NEW t, IsTable(h, t),
         NEW at \in DOMAIN t.bucket, NEW p \in PagesAt(t, at),
         NEW q, q = WithoutPage(t.bucket[at].pages, p),
         NEW t2, t2 = [global_depth |-> t.global_depth, buckets |-> t.buckets,
                       bucket |-> [t.bucket EXCEPT ![at] = [local_depth |-> t.bucket[at].local_depth,
                                                            pages |-> q]],
                       freed |-> t.freed]
  PROVE  IsTable(h, t2) /\ PagesOf(t2) = PagesOf(t) \ {p}
<1>1. q \in Seq(Pages) /\ ToSet(q) = PagesAt(t, at) \ {p} /\ IsInjective(q)
  <2>1. PICK s \in Seq(Pages) : s = t.bucket[at].pages
    BY PartsOfTable
  <2>2. IsInjective(s) /\ p \in ToSet(s)
    BY <2>1 DEF IsTable, IsPlaced, PagesAt
  <2>3. /\ WithoutPage(s, p) \in Seq(Pages) /\ ToSet(WithoutPage(s, p)) = ToSet(s) \ {p}
        /\ IsInjective(WithoutPage(s, p))
    BY <2>2, PagesWithout
  <2> QED
    BY <2>1, <2>3 DEF PagesAt
<1>2. \A r \in ToSet(q) : t.buckets[h[r] % 2^t.global_depth] = at
  BY <1>1 DEF IsTable, IsPlaced
<1>3. PICK b : b = [t.bucket EXCEPT ![at] = [local_depth |-> t.bucket[at].local_depth, pages |-> q]]
  OBVIOUS
<1>4. IsTable(h, t2) /\ PagesOf(t2) = (PagesOf(t) \ PagesAt(t, at)) \cup ToSet(q)
  <2>1. t2 = [global_depth |-> t.global_depth, buckets |-> t.buckets, bucket |-> b, freed |-> t.freed]
    BY <1>3
  <2> QED
    BY <1>1, <1>2, <1>3, <2>1, ChangedBucket
<1>5. PagesAt(t, at) \subseteq PagesOf(t)
  BY DEF PagesOf
<1> QED
  BY <1>1, <1>4, <1>5

\* expand_directory moves no page.
LEMMA ExpandedTable ==
  ASSUME NEW h, \A p \in Pages : h[p] \in Nat, NEW t, IsTable(h, t),
         NEW t2, t2 = [global_depth |-> t.global_depth + 1,
                       buckets |-> [id \in 0 .. 2^(t.global_depth + 1) - 1 |-> t.buckets[id % 2^t.global_depth]],
                       bucket |-> t.bucket, freed |-> t.freed]
  PROVE  IsTable(h, t2) /\ PagesOf(t2) = PagesOf(t)
<1> DEFINE g == t.global_depth
           dir2 == [i \in Ids(g + 1) |-> t.buckets[i % 2^g]]
<1>1. /\ t2.global_depth = g + 1 /\ t2.bucket = t.bucket /\ t2.freed = t.freed /\ t2.buckets = dir2
      /\ t2 = [global_depth |-> t2.global_depth, buckets |-> t2.buckets, bucket |-> t2.bucket, freed |-> t2.freed]
  BY DEF Ids
<1> HIDE DEF dir2
<1>2. PagesOf(t2) = PagesOf(t) /\ \A a \in DOMAIN t.bucket : PagesAt(t2, a) = PagesAt(t, a)
  BY <1>1 DEF PagesOf, PagesAt
<1>3. g \in Nat /\ \A a \in DOMAIN t.bucket : PagesAt(t, a) \subseteq Pages
  BY PartsOfTable
<1> HIDE DEF g
<1>4. Directory(g + 1, t2.buckets, DepthsOf(t2.bucket))
  <2>1. PICK d, dir : d = DepthsOf(t.bucket) /\ dir = t.buckets
    OBVIOUS
  <2>2. Directory(g, dir, d)
    BY <2>1 DEF IsTable, g
  <2>3. Directory(g + 1, [i \in Ids(g + 1) |-> dir[i % 2^g]], d)
    BY <2>2, ExpandedDirectory
  <2> QED
    BY <1>1, <2>1, <2>3 DEF dir2
<1>5. IsPlaced(h, t2)
  <2>1. ASSUME NEW a \in DOMAIN t.bucket, NEW p \in PagesAt(t, a)
        PROVE  t2.buckets[h[p] % 2^(g + 1)] = a
    <3>1. PICK x \in Nat : x = h[p]
      BY <1>3
    <3>2. x % 2^(g + 1) \in Ids(g + 1) /\ (x % 2^(g + 1)) % 2^g = x % 2^g
      <4>1. g + 1 \in Nat /\ g <= g + 1
        BY <1>3
      <4> QED
        BY <1>3, <4>1, LastBits, LastBitsAreId
    <3>3. t.buckets[x % 2^g] = a
      BY <3>1 DEF IsTable, IsPlaced, g
    <3>4. PICK k \in Ids(g + 1) : k = x % 2^(g + 1)
      BY <3>2
    <3>5. t2.buckets[k] = t.buckets[k % 2^g]
      BY <1>1 DEF dir2
    <3> QED
      BY <3>1, <3>2, <3>3, <3>4, <3>5
  <2>2. \A a \in DOMAIN t.bucket : IsInjective(t.bucket[a].pages)
    BY DEF IsTable, IsPlaced
  <2> QED
    BY <1>1, <1>2, <2>1, <2>2 DEF IsPlaced
<1>6. IsTable(h, t2)
  <2>1. /\ t.bucket \in [DOMAIN t.bucket -> Bucket]
        /\ DOMAIN t.bucket \subseteq Addresses /\ t.freed \subseteq Pages
    BY DEF IsTable
  <2> QED
    BY <1>1, <1>4, <1>5, <2>1 DEF IsTable
<1> QED
  BY <1>2, <1>6

\* The entry id of the hash x in a directory of depth g, whose halves are of the
\* length half.
IsEntry(x, g, id, half) == id = x % 2^g /\ half = 2^(g - 1)

\* The last g bits of x with and without their first.
LEMMA VariantsOfBits ==
  ASSUME NEW g \in Nat, g >= 1, NEW x \in Nat, NEW id, NEW half, IsEntry(x, g, id, half)
  PROVE  /\ id \in Ids(g) /\ half \in Nat
         /\ id % half \in Ids(g - 1) /\ id \in {id % half, (id % half) + half}
<1> USE DEF IsEntry
<1>1. g - 1 \in Nat /\ half \in Nat /\ half > 0 /\ 2^g = half + half
  BY Variants
<1>2. id \in Ids(g) /\ id \in Nat
  BY LastBitsAreId DEF Ids
<1>3. id % half \in Ids(g - 1)
  BY <1>1, <1>2, LastBitsAreId
<1>4. /\ x % (half + half) = x % half \/ x % (half + half) = (x % half) + half
      /\ (x % (half + half)) % half = x % half
  BY <1>1, OneBitMore
<1>5. id = x % half \/ id = (x % half) + half
  BY <1>1, <1>4
<1>6. id % half = x % half
  BY <1>1, <1>4
<1> QED
  BY <1>1, <1>2, <1>3, <1>5, <1>6

\* How split_bucket changes the directory: the bucket of the entry id gets one
\* deeper, and so is the new bucket, if there is one.
DirectorySplit(g, dir, depth, low, id, new, dir2, depth2) ==
  LET at   == dir[id]
      free == CHOOSE a \in Addresses : \A i \in Ids(g) : dir[i] # a
  IN  /\ new = IF dir[low + 2^(g - 1)] = dir[low] THEN {free} ELSE {}
      /\ dir2 = [i \in Ids(g) |-> IF i = low + 2^(g - 1) /\ new # {} THEN free ELSE dir[i]]
      /\ depth2 = [a \in DOMAIN depth \cup new |->
                     IF a = at \/ a \in new THEN depth[at] + 1 ELSE depth[a]]

\* split_bucket for the bucket at of the entry id makes that bucket one deeper and
\* gives a new one to the "1" variant unless the two variants have different ones.
LEMMA DirectoryOfSplit ==
  ASSUME NEW g, NEW dir, NEW depth, Directory(g, dir, depth), g >= 1, g <= MaxDepth,
         NEW low \in Ids(g - 1), NEW id \in {low, low + 2^(g - 1)}, depth[dir[id]] < g,
         NEW new, NEW dir2, NEW depth2, DirectorySplit(g, dir, depth, low, id, new, dir2, depth2)
  PROVE  /\ Directory(g, dir2, depth2)
         /\ new \subseteq Addresses /\ new \cap DOMAIN depth = {}
         /\ \A i \in Ids(g) : dir2[i] = dir[i] \/ dir[i] = dir[id]
<1> DEFINE at == dir[id]
           half == 2^(g - 1)
<1>1. /\ g \in Nat /\ dir \in [Ids(g) -> DOMAIN depth] /\ depth \in [DOMAIN depth -> Nat]
      /\ \A a \in DOMAIN depth : \E i \in Ids(g) : dir[i] = a
  BY DEF Directory, Leads
<1>2. low \in Ids(g) /\ low + half \in Ids(g) /\ id \in Ids(g) /\ at \in DOMAIN depth
  <2>1. low \in Ids(g) /\ low + half \in Ids(g)
    BY <1>1, Variants
  <2> QED
    BY <1>1, <2>1
<1>3. PICK free : free = CHOOSE a \in Addresses : \A i \in Ids(g) : dir[i] # a
  OBVIOUS
<1>6. /\ new = IF dir[low + half] = dir[low] THEN {free} ELSE {}
      /\ dir2 = [i \in Ids(g) |-> IF i = low + half /\ new # {} THEN free ELSE dir[i]]
      /\ depth2 = [a \in DOMAIN depth \cup new |->
                     IF a = at \/ a \in new THEN depth[at] + 1 ELSE depth[a]]
  BY <1>3 DEF DirectorySplit
<1>4. CASE Cut(dir, g, low)
  <2>1. new = {}
    BY <1>3, <1>6, <1>4 DEF Cut
  <2>2. dir2 = dir
    BY <1>1, <1>3, <1>6, <2>1
  <2>3. depth2 = [depth EXCEPT ![dir[id]] = @ + 1]
    BY <1>1, <1>2, <1>3, <1>6, <2>1
  <2>4. Directory(g, dir, [depth EXCEPT ![dir[id]] = @ + 1])
    BY <1>4, DeepenedDirectory
  <2> QED
    BY <2>1, <2>2, <2>3, <2>4
<1>5. CASE ~ Cut(dir, g, low)
  <2>1. new = {free} /\ dir[low] = dir[low + half] /\ dir[low] = at
    BY <1>3, <1>6, <1>5 DEF Cut
  <2>2. \E a \in Addresses : \A i \in Ids(g) : dir[i] # a
    BY <1>1, <1>5, SomeAddressFree
  <2>3. free \in Addresses /\ \A i \in Ids(g) : dir[i] # free
    BY <1>3, <1>6, <2>2
  <2>4. free \notin DOMAIN depth
    BY <1>1, <2>3
  <2>5. dir2 = [i \in Ids(g) |-> IF i = low + 2^(g - 1) THEN free ELSE dir[i]]
    BY <1>3, <1>6, <2>1
  <2>6. depth2 = [a \in DOMAIN depth \cup {free} |->
                    IF a = dir[low] \/ a = free THEN depth[dir[low]] + 1 ELSE depth[a]]
    BY <1>3, <1>6, <2>1
  <2>7. CutOff(g, dir, depth, low, free, dir2, depth2)
    BY <2>5, <2>6 DEF CutOff
  <2>8. depth[dir[low]] < g
    BY <1>3, <1>6, <2>1
  <2>9. Directory(g, dir, depth) /\ g >= 1 /\ low \in Ids(g - 1)
    OBVIOUS
  <2>10. Directory(g, dir2, depth2)
    BY ONLY <1>5, <2>4, <2>7, <2>8, <2>9, SplitDirectory
  <2>11. \A i \in Ids(g) : dir2[i] = dir[i] \/ dir[i] = at
    BY <1>3, <1>6, <2>1
  <2> QED
    BY <2>1, <2>3, <2>4, <2>10, <2>11
<1> QED
  BY <1>4, <1>5

\* The table with this directory and these buckets.
WithBuckets(t, dir2, b2) ==
  [global_depth |-> t.global_depth, buckets |-> dir2, bucket |-> b2, freed |-> t.freed]

\* How split_bucket changes the buckets.
BucketsSplit(t, at, n, new, b2) ==
  b2 = [a \in DOMAIN t.bucket \cup new |->
          IF a = at \/ a \in new THEN [local_depth |-> n, pages |-> <<>>] ELSE t.bucket[a]]

\* The directory dir2 leads elsewhere than that of t only where that led to at.
LeadsAwayFrom(t, at, dir2) ==
  \A i \in Ids(t.global_depth) : dir2[i] = t.buckets[i] \/ t.buckets[i] = at

\* The addresses new are those of no bucket of t.
AreNew(new, t) == new \subseteq Addresses /\ new \cap DOMAIN t.bucket = {}

\* Every hash is a number.
HashesNumbers(h) == \A p \in Pages : h[p] \in Nat

\* The pages of the bucket at are taken off to be inserted again, and the
\* directory leads elsewhere only where it led there.
LEMMA ClearedTable ==
  ASSUME NEW h, HashesNumbers(h), NEW t, IsTable(h, t),
         NEW at \in DOMAIN t.bucket, NEW n \in Nat, NEW new, AreNew(new, t),
         NEW b2, BucketsSplit(t, at, n, new, b2),
         NEW dir2, Directory(t.global_depth, dir2, DepthsOf(b2)),
         LeadsAwayFrom(t, at, dir2)
  PROVE  /\ IsTable(h, WithBuckets(t, dir2, b2))
         /\ PagesOf(WithBuckets(t, dir2, b2)) = PagesOf(t) \ PagesAt(t, at)
<1> USE DEF HashesNumbers, AreNew
<1> DEFINE t2 == WithBuckets(t, dir2, b2)
<1>1. t2.global_depth = t.global_depth /\ t2.buckets = dir2 /\ t2.bucket = b2 /\ t2.freed = t.freed
      /\ t2 = [global_depth |-> t2.global_depth, buckets |-> t2.buckets, bucket |-> t2.bucket, freed |-> t2.freed]
  BY DEF WithBuckets
<1> HIDE DEF t2
<1>0. PICK c : c = [local_depth |-> n, pages |-> <<>>]
  OBVIOUS
<1>2. c \in Bucket /\ ToSet(c.pages) = {} /\ IsInjective(c.pages)
  <2>1. PICK q \in Seq(Pages) : q = <<>>
    <3>1. <<>> \in Seq(Pages)
      OBVIOUS
    <3> QED
      BY <3>1
  <2>2. c = [local_depth |-> n, pages |-> q]
    BY <1>0, <2>1
  <2>3. c.pages = q /\ c \in Bucket
    BY <2>2 DEF Bucket
  <2>4. ToSet(q) = {} /\ IsInjective(q)
    <3>1. Len(q) = 0 /\ DOMAIN q = 1 .. Len(q)
      BY <2>1
    <3>2. DOMAIN q = {}
      BY <3>1
    <3> QED
      BY <3>2 DEF ToSet, IsInjective
  <2> QED
    BY <2>3, <2>4
<1>3. /\ DOMAIN b2 = DOMAIN t.bucket \cup new
      /\ \A a \in DOMAIN b2 : IF a = at \/ a \in new THEN b2[a] = c ELSE b2[a] = t.bucket[a]
      /\ b2 = [a \in DOMAIN b2 |-> b2[a]]
      /\ at \in DOMAIN b2
  BY <1>0 DEF BucketsSplit
<1>4. /\ t.bucket \in [DOMAIN t.bucket -> Bucket] /\ DOMAIN t.bucket \subseteq Addresses
      /\ t.freed \subseteq Pages
      /\ \A a \in DOMAIN t.bucket : /\ \A p \in PagesAt(t, a) : t.buckets[h[p] % 2^t.global_depth] = a
                                    /\ IsInjective(t.bucket[a].pages)
  BY DEF IsTable, IsPlaced
<1>5. t.global_depth \in Nat /\ \A a \in DOMAIN t.bucket : PagesAt(t, a) \subseteq Pages
  BY PartsOfTable
<1>6. b2 \in [DOMAIN b2 -> Bucket] /\ DOMAIN b2 \subseteq Addresses
  <2>1. \A a \in DOMAIN b2 : b2[a] \in Bucket
    BY <1>2, <1>3, <1>4
  <2> QED
    BY <1>3, <1>4, <2>1
<1>7. \A a \in DOMAIN b2 : PagesAt(t2, a) = IF a = at \/ a \in new THEN {} ELSE PagesAt(t, a)
  BY <1>1, <1>2, <1>3 DEF PagesAt
<1>8. IsPlaced(h, t2)
  <2>1. ASSUME NEW a \in DOMAIN b2, NEW p \in PagesAt(t2, a) PROVE dir2[h[p] % 2^t.global_depth] = a
    <3>1. a # at /\ a \in DOMAIN t.bucket /\ p \in PagesAt(t, a)
      BY <1>3, <1>7, <2>1
    <3>2. PICK x \in Nat : x = h[p]
      BY <1>5, <3>1
    <3>3. PICK i \in Ids(t.global_depth) : i = x % 2^t.global_depth
      BY <1>5, LastBitsAreId
    <3>4. t.buckets[i] = a
      BY <1>4, <3>1, <3>2, <3>3
    <3>5. dir2[i] = a
      BY <3>1, <3>4 DEF LeadsAwayFrom
    <3> QED
      BY <3>2, <3>3, <3>5
  <2>2. \A a \in DOMAIN b2 : IsInjective(b2[a].pages)
    BY <1>2, <1>3, <1>4
  <2> QED
    BY <1>1, <2>1, <2>2 DEF IsPlaced
<1>9. IsTable(h, t2)
  <2>1. t2 = [global_depth |-> t2.global_depth, buckets |-> t2.buckets, bucket |-> t2.bucket, freed |-> t2.freed]
    BY <1>1
  <2>2. Directory(t2.global_depth, t2.buckets, DepthsOf(t2.bucket))
    BY <1>1
  <2>3. /\ t2.bucket \in [DOMAIN t2.bucket -> Bucket]
        /\ DOMAIN t2.bucket \subseteq Addresses /\ t2.freed \subseteq Pages
    BY <1>1, <1>4, <1>6
  <2> QED
    BY ONLY <1>8, <2>1, <2>2, <2>3 DEF IsTable
<1>10. PagesOf(t2) = PagesOf(t) \ PagesAt(t, at)
  <2>1. \A a \in DOMAIN t.bucket : a # at => PagesAt(t, a) \cap PagesAt(t, at) = {}
    BY <1>4
  <2>2. PagesOf(t2) = UNION {PagesAt(t2, a) : a \in DOMAIN b2}
    BY <1>1 DEF PagesOf
  <2>3. ASSUME NEW p \in PagesOf(t2) PROVE p \in PagesOf(t) \ PagesAt(t, at)
    <3>1. PICK a \in DOMAIN b2 : p \in PagesAt(t2, a)
      BY <2>2, <2>3
    <3>2. a \in DOMAIN t.bucket /\ a # at /\ p \in PagesAt(t, a)
      BY <1>3, <1>7, <3>1
    <3> QED
      BY <2>1, <3>2 DEF PagesOf
  <2>4. ASSUME NEW p \in PagesOf(t), p \notin PagesAt(t, at) PROVE p \in PagesOf(t2)
    <3>1. PICK a \in DOMAIN t.bucket : p \in PagesAt(t, a)
      BY <2>4 DEF PagesOf
    <3>2. a \in DOMAIN b2 /\ a # at /\ a \notin new
      BY <1>3, <2>4, <3>1
    <3>3. p \in PagesAt(t2, a)
      BY <1>7, <3>1, <3>2
    <3> QED
      BY <2>2, <3>2, <3>3
  <2> QED
    BY <2>3, <2>4
<1> QED
  BY <1>9, <1>10 DEF t2

\* What split_bucket makes of the directory and the buckets for the entry id, low
\* being its "0" variant.
TableSplit(t, low, id, dir2, b2) ==
  LET top  == low + 2^(t.global_depth - 1)
      at   == t.buckets[id]
      free == CHOOSE a \in Addresses : \A i \in DOMAIN t.buckets : t.buckets[i] # a
      new  == IF t.buckets[top] = t.buckets[low] THEN {free} ELSE {}
  IN  /\ dir2 = [i \in DOMAIN t.buckets |-> IF i = top /\ new # {} THEN free ELSE t.buckets[i]]
      /\ b2 = [a \in DOMAIN t.bucket \cup new |->
                 IF a = at \/ a \in new
                 THEN [local_depth |-> t.bucket[at].local_depth + 1, pages |-> <<>>]
                 ELSE t.bucket[a]]

\* split_bucket leaves the pages that it does not take off where their hashes lead.
LEMMA SplitTable ==
  ASSUME NEW h, \A p \in Pages : h[p] \in Nat, NEW t, IsTable(h, t),
         t.global_depth >= 1, t.global_depth <= MaxDepth,
         NEW low \in Ids(t.global_depth - 1), NEW id \in {low, low + 2^(t.global_depth - 1)},
         t.bucket[t.buckets[id]].local_depth < t.global_depth,
         NEW dir2, NEW b2, TableSplit(t, low, id, dir2, b2)
  PROVE  /\ IsTable(h, WithBuckets(t, dir2, b2))
         /\ PagesOf(WithBuckets(t, dir2, b2)) = PagesOf(t) \ PagesAt(t, t.buckets[id])
<1>1. PICK g, half, at, n : /\ g = t.global_depth /\ half = 2^(g - 1)
                            /\ at = t.buckets[id] /\ n = t.bucket[at].local_depth
  OBVIOUS
<1>2. PICK free, new :
        /\ free = CHOOSE a \in Addresses : \A i \in DOMAIN t.buckets : t.buckets[i] # a
        /\ new = IF t.buckets[low + half] = t.buckets[low] THEN {free} ELSE {}
  OBVIOUS
<1>3. /\ dir2 = [i \in DOMAIN t.buckets |-> IF i = low + half /\ new # {} THEN free ELSE t.buckets[i]]
      /\ b2 = [a \in DOMAIN t.bucket \cup new |->
                 IF a = at \/ a \in new THEN [local_depth |-> n + 1, pages |-> <<>>] ELSE t.bucket[a]]
  BY <1>1, <1>2 DEF TableSplit
<1>4. g >= 1 /\ n < g /\ low \in Ids(g - 1) /\ id \in {low, low + half}
  BY <1>1
<1>5. PICK dir, depth : dir = t.buckets /\ depth = DepthsOf(t.bucket)
  OBVIOUS
<1>6. Directory(g, dir, depth)
  BY <1>1, <1>5 DEF IsTable
<1>7. /\ g \in Nat /\ DOMAIN dir = Ids(g) /\ dir \in [Ids(g) -> DOMAIN t.bucket]
  BY <1>1, <1>5, PartsOfTable
<1>8. id \in Ids(g)
  <2>1. low \in Ids(g) /\ low + half \in Ids(g)
    BY <1>1, <1>4, <1>7, Variants
  <2> QED
    BY <1>4, <2>1
<1>9. at = dir[id] /\ at \in DOMAIN t.bucket
  BY <1>1, <1>5, <1>7, <1>8
<1>10. n \in Nat
  <2>1. t.bucket[at].local_depth \in 0 .. t.global_depth /\ t.global_depth \in Nat
    BY <1>9, PartsOfTable
  <2> QED
    BY <1>1, <2>1
<1>11. DOMAIN depth = DOMAIN t.bucket /\ \A a \in DOMAIN t.bucket : depth[a] = t.bucket[a].local_depth
  BY <1>5 DEF DepthsOf
<1>12. PICK depth2 : depth2 = DepthsOf(b2)
  OBVIOUS
<1>13. depth2 = [a \in DOMAIN depth \cup new |-> IF a = at \/ a \in new THEN depth[at] + 1 ELSE depth[a]]
  <2>1. DOMAIN b2 = DOMAIN depth \cup new
    BY <1>3, <1>11
  <2>2. \A a \in DOMAIN b2 : b2[a].local_depth = IF a = at \/ a \in new THEN depth[at] + 1 ELSE depth[a]
    BY <1>1, <1>3, <1>9, <1>11, <2>1
  <2> QED
    BY ONLY <1>12, <2>1, <2>2 DEF DepthsOf
<1>14. DirectorySplit(g, dir, depth, low, id, new, dir2, depth2)
  <2>1. /\ free = CHOOSE a \in Addresses : \A i \in Ids(g) : dir[i] # a
        /\ new = IF dir[low + 2^(g - 1)] = dir[low] THEN {free} ELSE {}
        /\ dir2 = [i \in Ids(g) |-> IF i = low + 2^(g - 1) /\ new # {} THEN free ELSE dir[i]]
    BY <1>1, <1>2, <1>3, <1>5, <1>7
  <2> QED
    BY ONLY <1>9, <1>13, <2>1 DEF DirectorySplit
<1>15. /\ Directory(g, dir2, depth2)
       /\ new \subseteq Addresses /\ new \cap DOMAIN depth = {}
       /\ \A i \in Ids(g) : dir2[i] = dir[i] \/ dir[i] = at
  <2>1. depth[dir[id]] < g /\ g <= MaxDepth
    BY <1>1, <1>4, <1>9, <1>11
  <2>2. g >= 1 /\ low \in Ids(g - 1) /\ id \in {low, low + 2^(g - 1)}
    BY <1>1, <1>4
  <2> QED
    BY ONLY <1>6, <1>9, <1>14, <2>1, <2>2, DirectoryOfSplit
<1>16. PICK m \in Nat : m = n + 1
  BY <1>10
<1>17. BucketsSplit(t, at, m, new, b2)
  BY <1>3, <1>16 DEF BucketsSplit
<1>18. /\ new \cap DOMAIN t.bucket = {}
       /\ Directory(t.global_depth, dir2, DepthsOf(b2))
       /\ LeadsAwayFrom(t, at, dir2)
  <2>1. g = t.global_depth
    BY <1>1
  <2> QED
    BY ONLY <1>5, <1>9, <1>11, <1>12, <1>15, <2>1 DEF LeadsAwayFrom
<1>19. HashesNumbers(h) /\ IsTable(h, t)
  BY DEF HashesNumbers
<1>20. m \in Nat
  OBVIOUS
<1>21. /\ IsTable(h, WithBuckets(t, dir2, b2))
       /\ PagesOf(WithBuckets(t, dir2, b2)) = PagesOf(t) \ PagesAt(t, at)
  <2>1. at \in DOMAIN t.bucket /\ AreNew(new, t)
    BY <1>9, <1>15, <1>18 DEF AreNew
  <2> QED
    BY ONLY <1>17, <1>18, <1>19, <1>20, <2>1, ClearedTable
<1> QED
  BY <1>1, <1>21

\* The constructor makes an empty table.
LEMMA InitialTable ==
  ASSUME NEW h,
         NEW t, t = [global_depth |-> MinDepth,
                     buckets |-> [id \in 0 .. 2^MinDepth - 1 |-> id],
                     bucket |-> [a \in 0 .. 2^MinDepth - 1 |-> [local_depth |-> MinDepth, pages |-> <<>>]],
                     freed |-> {}]
  PROVE  IsTable(h, t) /\ PagesOf(t) = {}
<1>1. MinDepth \in Nat /\ MaxDepth \in Nat /\ MinDepth <= MaxDepth
  BY HashtableAssumption
<1>2. PICK c : c = [local_depth |-> MinDepth, pages |-> <<>>]
  OBVIOUS
<1>3. c \in Bucket /\ c.local_depth = MinDepth /\ ToSet(c.pages) = {} /\ IsInjective(c.pages)
  <2>1. <<>> \in Seq(Pages)
    OBVIOUS
  <2>2. PICK q \in Seq(Pages) : q = <<>>
    BY <2>1
  <2>3. c = [local_depth |-> MinDepth, pages |-> q]
    BY <1>2, <2>2
  <2>4. ToSet(q) = {} /\ IsInjective(q)
    <3>1. Len(q) = 0 /\ DOMAIN q = 1 .. Len(q)
      BY <2>2
    <3>2. DOMAIN q = {}
      BY <3>1
    <3> QED
      BY <3>2 DEF ToSet, IsInjective
  <2> QED
    BY <1>1, <2>3, <2>4 DEF Bucket
<1>4. /\ t.global_depth = MinDepth
      /\ t.buckets = [i \in Ids(MinDepth) |-> i]
      /\ t.bucket = [a \in Ids(MinDepth) |-> c]
      /\ t.freed = {}
      /\ t = [global_depth |-> t.global_depth, buckets |-> t.buckets, bucket |-> t.bucket, freed |-> t.freed]
  BY <1>2 DEF Ids
<1>5. Directory(t.global_depth, t.buckets, DepthsOf(t.bucket))
  <2>1. DepthsOf(t.bucket) = [i \in Ids(MinDepth) |-> MinDepth]
    BY <1>3, <1>4 DEF DepthsOf
  <2> QED
    BY <1>1, <1>4, <2>1, InitialDirectory
<1>6. DOMAIN t.bucket = Ids(MinDepth) /\ \A a \in Ids(MinDepth) : t.bucket[a] = c /\ PagesAt(t, a) = {}
  BY <1>3, <1>4 DEF PagesAt
<1>7. IsPlaced(h, t)
  <2>1. \A a \in DOMAIN t.bucket : PagesAt(t, a) = {} /\ IsInjective(t.bucket[a].pages)
    BY <1>3, <1>6
  <2> QED
    BY ONLY <2>1, Zenon DEF IsPlaced
<1>8. Ids(MinDepth) \subseteq Addresses
  <2>1. Addresses = Ids(MaxDepth)
    BY DEF Addresses, Ids
  <2> QED
    BY <1>1, <2>1, IdsGrow
<1>9. t.bucket \in [DOMAIN t.bucket -> Bucket]
  BY <1>3, <1>4
<1>10. IsTable(h, t)
  BY ONLY <1>4, <1>5, <1>6, <1>7, <1>8, <1>9 DEF IsTable
<1>11. PagesOf(t) = {}
  <2>1. \A a \in DOMAIN t.bucket : PagesAt(t, a) = {}
    BY <1>6
  <2> QED
    BY ONLY <2>1 DEF PagesOf
<1> QED
  BY <1>10, <1>11

-----------------------------------------------------------------------------
(* The invariant                                                           *)

\* The limits are in order, the table is one, and size counts its pages.
TableInv ==
  /\ hash \in Hashes
  /\ min_depth \in Nat /\ max_depth \in Nat /\ min_depth <= max_depth /\ max_depth <= MaxDepth
  /\ global_depth <= max_depth
  /\ IsTable(hash, Table)
  /\ IsFiniteSet(PagesOf(Table)) /\ size = Cardinality(PagesOf(Table))

\* The pages that are pending are not in the table.
HashtableInv ==
  /\ TableInv
  /\ pending \in Seq(Pages) /\ IsInjective(pending)
  /\ ToSet(pending) \cap PagesOf(Table) = {}

\* The properties speak of the pages in the variable.
LEMMA StoredPages ==
  /\ Stored = PagesOf(Table)
  /\ \A a : StoredAt(a) = PagesAt(Table, a)
BY DEF Stored, StoredAt, PagesOf, PagesAt, Table

\* How many pages are left when some are taken off.
LEMMA PagesLeft ==
  ASSUME NEW S, IsFiniteSet(S), NEW T, T \subseteq S
  PROVE  /\ IsFiniteSet(S \ T) /\ Cardinality(S \ T) = Cardinality(S) - Cardinality(T)
         /\ Cardinality(S) \in Nat /\ Cardinality(T) \in Nat
<1>1. IsFiniteSet(T) /\ IsFiniteSet(S \ T)
  BY FS_Subset
<1>2. (S \ T) \cup T = S /\ (S \ T) \cap T = {}
  OBVIOUS
<1>3. Cardinality(S) = Cardinality(S \ T) + Cardinality(T) - Cardinality({})
  BY <1>1, <1>2, FS_Union
<1>4. Cardinality({}) = 0
  BY FS_EmptySet
<1>5. Cardinality(S) \in Nat /\ Cardinality(T) \in Nat /\ Cardinality(S \ T) \in Nat
  BY <1>1, FS_CardinalityType
<1> QED
  BY <1>1, <1>3, <1>4, <1>5

\* The constructor.
LEMMA InvInit ==
  ASSUME HashtableInit
  PROVE  HashtableInv
<1>1. PICK t : t = Table
  OBVIOUS
<1>2. t = [global_depth |-> MinDepth,
           buckets |-> [id \in 0 .. 2^MinDepth - 1 |-> id],
           bucket |-> [a \in 0 .. 2^MinDepth - 1 |-> [local_depth |-> MinDepth, pages |-> <<>>]],
           freed |-> {}]
  BY <1>1 DEF HashtableInit, Table
<1>3. IsTable(hash, t) /\ PagesOf(t) = {}
  BY <1>2, InitialTable
<1>4. IsFiniteSet({}) /\ Cardinality({}) = 0
  BY FS_EmptySet
<1>5. pending \in Seq(Pages) /\ IsInjective(pending)
  <2>1. pending = <<>> /\ <<>> \in Seq(Pages)
    BY DEF HashtableInit
  <2>2. DOMAIN pending = 1 .. 0
    BY <2>1
  <2> QED
    BY <2>1, <2>2 DEF IsInjective
<1>6. hash \in Hashes /\ min_depth = MinDepth /\ max_depth = MaxDepth /\ global_depth = MinDepth /\ size = 0
  BY DEF HashtableInit
<1> QED
  BY <1>1, <1>3, <1>4, <1>5, <1>6, HashtableAssumption DEF TableInv, HashtableInv

\* The operations on the directory, which leave the pages where they are.
LEMMA InvSamePages ==
  ASSUME TableInv, UNCHANGED <<hash, size>>,
         IsTable(hash, Table'), PagesOf(Table') = PagesOf(Table),
         min_depth' \in Nat, max_depth' \in Nat, min_depth' <= max_depth', max_depth' <= MaxDepth,
         global_depth' <= max_depth'
  PROVE  TableInv' /\ PagesOf(Table)' = PagesOf(Table)
BY DEF TableInv, HashtableInv

\* expand_directory.
LEMMA InvExpandDirectory ==
  ASSUME TableInv, ExpandDirectory
  PROVE  TableInv' /\ PagesOf(Table)' = PagesOf(Table)
<1>1. PICK t, t2 : t = Table /\ t2 = Table'
  OBVIOUS
<1>2. t2 = [global_depth |-> t.global_depth + 1,
            buckets |-> [id \in 0 .. 2^(t.global_depth + 1) - 1 |-> t.buckets[id % 2^t.global_depth]],
            bucket |-> t.bucket, freed |-> t.freed]
  BY <1>1 DEF ExpandDirectory, Table
<1>3. IsTable(hash, t) /\ \A p \in Pages : hash[p] \in Nat
  BY <1>1, HashtableAssumption DEF TableInv, HashtableInv
<1>4. IsTable(hash, t2) /\ PagesOf(t2) = PagesOf(t)
  BY <1>2, <1>3, ExpandedTable
<1>5. global_depth \in Nat
  <2>1. t.global_depth \in Nat /\ t.global_depth = global_depth
    BY <1>1, <1>3, PartsOfTable DEF Table
  <2> QED
    BY <2>1
<1>6. /\ global_depth' <= max_depth' /\ min_depth' \in Nat /\ max_depth' \in Nat
      /\ min_depth' <= max_depth' /\ max_depth' <= MaxDepth
  BY <1>5, HashtableAssumption DEF TableInv, HashtableInv, ExpandDirectory, limits
<1>7. UNCHANGED <<hash, size>>
  BY DEF ExpandDirectory
<1> QED
  BY <1>1, <1>4, <1>6, <1>7, InvSamePages

\* shrink_directory.
LEMMA InvShrinkDirectory ==
  ASSUME TableInv, ShrinkDirectory
  PROVE  TableInv' /\ PagesOf(Table)' = PagesOf(Table)
<1>1. PICK t, t2 : t = Table /\ t2 = Shrunk(t, min_depth)
  OBVIOUS
<1>2. IsTable(hash, t) /\ \A p \in Pages : hash[p] \in Nat
  BY <1>1, HashtableAssumption DEF TableInv, HashtableInv
<1>3. t.global_depth \in Nat /\ t.global_depth = global_depth /\ min_depth \in Nat
  BY <1>1, <1>2, PartsOfTable DEF Table, TableInv, HashtableInv
<1>4. IsTable(hash, t2) /\ PagesOf(t2) = PagesOf(t) /\ t2.global_depth <= t.global_depth
  <2>1. CASE t.global_depth = min_depth
    BY <1>1, <1>2, <1>3, <2>1 DEF Shrunk
  <2>2. CASE t.global_depth # min_depth
    <3>1. ShrinkIsDefined(t)
      BY <1>1, <2>2 DEF ShrinkDirectory, MayShrink
    <3>2. t.global_depth >= 1
      BY <1>3, <2>2 DEF ShrinkDirectory
    <3>3. IsTable(hash, t2) /\ PagesOf(t2) = PagesOf(t) /\ t2.global_depth = t.global_depth - 1
      BY <1>1, <1>2, <2>2, <3>1, <3>2, ShrunkTable
    <3> QED
      BY <1>3, <3>3
  <2> QED
    BY <2>1, <2>2
<1>5. Table' = t2
  <2>1. BecomesTable(t2)
    BY <1>1 DEF ShrinkDirectory
  <2>2. t2 = [global_depth |-> t2.global_depth, buckets |-> t2.buckets, bucket |-> t2.bucket, freed |-> t2.freed]
    BY <1>4 DEF IsTable
  <2> QED
    BY <2>1, <2>2 DEF BecomesTable, Table
<1>6. t2.global_depth \in Nat /\ global_depth' = t2.global_depth
  BY <1>1, <1>4, PartsOfTable DEF ShrinkDirectory, BecomesTable
<1>7. /\ global_depth' <= max_depth' /\ min_depth' \in Nat /\ max_depth' \in Nat
      /\ min_depth' <= max_depth' /\ max_depth' <= MaxDepth
  <2>1. min_depth' = min_depth /\ max_depth' = max_depth
    BY DEF ShrinkDirectory, limits
  <2> QED
    BY <1>3, <1>4, <1>6, <2>1 DEF TableInv, HashtableInv
<1>8. UNCHANGED <<hash, size>>
  BY DEF ShrinkDirectory
<1> QED
  BY <1>1, <1>4, <1>5, <1>7, <1>8, InvSamePages

\* set_max_size, which shrinks the directory to the new maximum.
LEMMA InvSetMaxSize ==
  ASSUME TableInv, NEW depth \in Depths, SetMaxSize(depth)
  PROVE  TableInv' /\ PagesOf(Table)' = PagesOf(Table)
<1>1. PICK t, t2 : t = Table /\ t2 = Limited(t, depth)
  OBVIOUS
<1>2. IsTable(hash, t) /\ \A p \in Pages : hash[p] \in Nat
  BY <1>1, HashtableAssumption DEF TableInv, HashtableInv
<1>3. depth \in Nat /\ depth <= MaxDepth /\ MaxDepth \in Nat /\ min_depth \in Nat
  BY HashtableAssumption DEF TableInv, HashtableInv
<1>4. IsTable(hash, t2) /\ PagesOf(t2) = PagesOf(t)
  BY <1>1, <1>2, <1>3, LimitedTable
<1>5. Table' = t2
  <2>1. BecomesTable(t2)
    BY <1>1 DEF SetMaxSize, BecomesLimited
  <2>2. t2 = [global_depth |-> t2.global_depth, buckets |-> t2.buckets, bucket |-> t2.bucket, freed |-> t2.freed]
    BY <1>4 DEF IsTable
  <2> QED
    BY <2>1, <2>2 DEF BecomesTable, Table
<1>6. /\ global_depth' <= max_depth' /\ min_depth' \in Nat /\ max_depth' \in Nat
      /\ min_depth' <= max_depth' /\ max_depth' <= MaxDepth
  <2>1. max_depth' = depth /\ min_depth' = LowerMin(depth) /\ global_depth' = t2.global_depth
    BY <1>1 DEF SetMaxSize, BecomesLimited, BecomesTable
  <2>2. t2.global_depth <= depth
    BY <1>1 DEF SetMaxSize, MayLimit
  <2> QED
    BY <1>3, <2>1, <2>2 DEF LowerMin
<1>7. UNCHANGED <<hash, size>>
  BY DEF SetMaxSize
<1> QED
  BY <1>1, <1>4, <1>5, <1>6, <1>7, InvSamePages

\* set_min_size, which changes no bucket.
LEMMA InvSetMinSize ==
  ASSUME TableInv, NEW depth \in Depths, SetMinSize(depth)
  PROVE  TableInv' /\ PagesOf(Table)' = PagesOf(Table)
<1>1. depth \in Nat /\ depth <= MaxDepth /\ MaxDepth \in Nat
  BY HashtableAssumption
<1>2. Table' = Table /\ UNCHANGED <<hash, size>>
  BY DEF SetMinSize, Table
<1>3. global_depth \in Nat
  <2>1. IsTable(hash, Table)
    BY DEF TableInv, HashtableInv
  <2>2. PICK t : t = Table
    OBVIOUS
  <2>3. t.global_depth \in Nat /\ t.global_depth = global_depth
    BY <2>1, <2>2, PartsOfTable DEF Table
  <2> QED
    BY <2>3
<1>4. /\ global_depth' <= max_depth' /\ min_depth' \in Nat /\ max_depth' \in Nat
      /\ min_depth' <= max_depth' /\ max_depth' <= MaxDepth
  BY <1>1, <1>3 DEF TableInv, HashtableInv, SetMinSize
<1>5. IsTable(hash, Table)
  BY DEF TableInv, HashtableInv
<1> QED
  BY <1>2, <1>4, <1>5, InvSamePages

\* get_page finds the pages of the table, and no others.
LEMMA PagesFound ==
  ASSUME TableInv, NEW page \in Pages
  PROVE  GetPage(page) <=> page \in PagesOf(Table)
<1>1. PICK t : t = Table
  OBVIOUS
<1>2. IsTable(hash, t)
  BY <1>1 DEF TableInv
<1> DEFINE at == t.buckets[hash[page] % 2^t.global_depth]
<1>3. GetPage(page) <=> page \in PagesAt(t, at)
  BY <1>1 DEF GetPage, BucketOf, IdOf, PagesAt, Table
<1>4. at \in DOMAIN t.bucket
  <2>1. t.global_depth \in Nat /\ t.buckets \in [Ids(t.global_depth) -> DOMAIN t.bucket]
    BY <1>2, PartsOfTable
  <2>2. hash[page] \in Nat
    BY HashtableAssumption DEF HashtableAssumption, TableInv
  <2> QED
    BY <2>1, <2>2, LastBitsAreId
<1> HIDE DEF at
<1>5. page \in PagesOf(t) => page \in PagesAt(t, at)
  BY <1>2, <1>4, PlaceOfPage DEF at
<1>6. page \in PagesAt(t, at) => page \in PagesOf(t)
  BY <1>4 DEF PagesOf
<1> QED
  BY <1>1, <1>3, <1>5, <1>6

\* A caller inserts a page that it has not found.
LEMMA InvBeginInsert ==
  ASSUME HashtableInv, NEW page \in Pages, ~ GetPage(page), BeginInsert(page),
         UNCHANGED <<hash, table_vars>>
  PROVE  HashtableInv'
<1>1. page \notin PagesOf(Table)
  BY PagesFound DEF HashtableInv
<1>2. pending' = <<page>> /\ Table' = Table /\ UNCHANGED <<hash, limits, global_depth, size>>
  BY DEF BeginInsert, table_vars, Table
<1>3. <<page>> \in Seq(Pages) /\ IsInjective(<<page>>) /\ ToSet(<<page>>) = {page}
  BY DEF IsInjective, ToSet
<1> QED
  BY <1>1, <1>2, <1>3 DEF TableInv, HashtableInv, limits

\* remove_page is called for a page that get_page finds.
LEMMA InvRemovePage ==
  ASSUME TableInv, NEW page \in Pages, RemovePage(page)
  PROVE  TableInv' /\ PagesOf(Table)' = PagesOf(Table) \ {page} /\ page \in PagesOf(Table)
<1>1. PICK t, t2, at, q : /\ t = Table /\ t2 = Table' /\ at = buckets[IdOf(page)]
                          /\ q = WithoutPage(bucket[at].pages, page)
  OBVIOUS
<1>2. IsTable(hash, t) /\ hash[page] \in Nat
  BY <1>1, HashtableAssumption DEF TableInv, HashtableInv
<1>3. /\ t.global_depth = global_depth /\ t.buckets = buckets /\ t.bucket = bucket /\ t.freed = freed
      /\ at = t.buckets[hash[page] % 2^t.global_depth] /\ q = WithoutPage(t.bucket[at].pages, page)
  BY <1>1 DEF Table, IdOf
<1>4. at \in DOMAIN t.bucket
  <2>1. PICK x \in Nat : x = hash[page]
    BY <1>2
  <2>2. t.global_depth \in Nat /\ t.buckets \in [Ids(t.global_depth) -> DOMAIN t.bucket]
    BY <1>2, PartsOfTable
  <2>3. x % 2^t.global_depth \in Ids(t.global_depth)
    BY <2>2, LastBitsAreId
  <2> QED
    BY <1>3, <2>1, <2>2, <2>3
<1>5. page \in PagesAt(t, at)
  BY <1>1, <1>3 DEF RemovePage, GetPage, BucketOf, PagesAt
<1>6. PICK c, l : c = bucket[at] /\ l = bucket[at].local_depth
  OBVIOUS
<1>7. c = [local_depth |-> l, pages |-> c.pages]
  BY <1>2, <1>3, <1>4, <1>6, PartsOfTable
<1>8. bucket' = [bucket EXCEPT ![at] = [local_depth |-> l, pages |-> q]]
  <2>1. bucket' = [bucket EXCEPT ![at].pages = WithoutPage(@, page)]
    BY <1>1 DEF RemovePage
  <2>2. bucket' = [bucket EXCEPT ![at] = [c EXCEPT !.pages = q]]
    BY <1>1, <1>6, <2>1
  <2>3. [c EXCEPT !.pages = q] = [local_depth |-> l, pages |-> q]
    BY <1>7
  <2> QED
    BY <2>2, <2>3
<1>9. t2 = [global_depth |-> t.global_depth, buckets |-> t.buckets,
            bucket |-> [t.bucket EXCEPT ![at] = [local_depth |-> t.bucket[at].local_depth, pages |-> q]],
            freed |-> t.freed]
  BY <1>1, <1>3, <1>6, <1>8 DEF RemovePage, Table
<1>10. IsTable(hash, t2) /\ PagesOf(t2) = PagesOf(t) \ {page}
  BY <1>2, <1>3, <1>4, <1>5, <1>9, RemovedTable
<1>11. page \in PagesOf(t)
  BY <1>4, <1>5 DEF PagesOf
<1>12. IsFiniteSet(PagesOf(t) \ {page}) /\ Cardinality(PagesOf(t) \ {page}) = Cardinality(PagesOf(t)) - 1
  BY <1>1, <1>11, FS_RemoveElement DEF TableInv, HashtableInv
<1>13. size' = size - 1 /\ UNCHANGED <<hash, min_depth, max_depth, global_depth>>
  BY DEF RemovePage, limits
<1> QED
  BY <1>1, <1>10, <1>11, <1>12, <1>13 DEF TableInv, HashtableInv

\* The first pending page goes into its bucket, or the bucket is split and its
\* pages are pending again; no page is lost.
LEMMA InvPlacePage ==
  ASSUME HashtableInv, PlacePage
  PROVE  HashtableInv' /\ Held' = Held
<1>1. PICK t, t2, page, rest, at, q : /\ t = Table /\ t2 = Table' /\ page = Head(pending)
                                      /\ rest = Tail(pending) /\ at = buckets[IdOf(page)]
                                      /\ q = <<page>> \o bucket[at].pages
  OBVIOUS
<1>2. /\ page \in Pages /\ rest \in Seq(Pages) /\ IsInjective(rest) /\ page \notin ToSet(rest)
      /\ ToSet(pending) = {page} \cup ToSet(rest)
  BY <1>1, FirstAndOthers DEF TableInv, HashtableInv, PlacePage
<1>3. /\ IsTable(hash, t) /\ \A p \in Pages : hash[p] \in Nat
      /\ page \notin PagesOf(t) /\ ToSet(rest) \cap PagesOf(t) = {}
      /\ IsFiniteSet(PagesOf(t)) /\ size = Cardinality(PagesOf(t))
  BY <1>1, <1>2, HashtableAssumption DEF TableInv, HashtableInv
<1>4. /\ t.global_depth = global_depth /\ t.buckets = buckets /\ t.bucket = bucket /\ t.freed = freed
      /\ at = t.buckets[hash[page] % 2^t.global_depth] /\ q = <<page>> \o t.bucket[at].pages
  BY <1>1 DEF Table, IdOf
<1>5. PICK x \in Nat : x = hash[page]
  BY <1>2, <1>3
<1>6. /\ t.global_depth \in Nat /\ t.buckets \in [Ids(t.global_depth) -> DOMAIN t.bucket]
      /\ x % 2^t.global_depth \in Ids(t.global_depth)
  BY <1>3, LastBitsAreId, PartsOfTable
<1>7. at \in DOMAIN t.bucket
  BY <1>4, <1>5, <1>6
<1>8. PICK c, l : c = bucket[at] /\ l = bucket[at].local_depth
  OBVIOUS
<1>9. c = [local_depth |-> l, pages |-> c.pages] /\ l \in Nat /\ c.pages \in Seq(Pages)
  <2>1. /\ t.bucket[at] = [local_depth |-> t.bucket[at].local_depth, pages |-> t.bucket[at].pages]
        /\ t.bucket[at].local_depth \in 0 .. t.global_depth /\ t.bucket[at].pages \in Seq(Pages)
    BY <1>3, <1>7, PartsOfTable
  <2>2. c = t.bucket[at] /\ l = t.bucket[at].local_depth
    BY <1>4, <1>8
  <2>3. l \in Nat
    BY <1>6, <2>1, <2>2
  <2> QED
    BY ONLY <2>1, <2>2, <2>3
<1>10. PICK b : b = [c EXCEPT !.pages = q]
  OBVIOUS
<1>11. b = [local_depth |-> l, pages |-> q] /\ b.local_depth = l /\ b.pages = q
  BY <1>9, <1>10
<1>12. b = [bucket[at] EXCEPT !.pages = <<page>> \o @]
  BY <1>1, <1>8, <1>9, <1>10
<1>13. /\ IF MustSplit(b) THEN Split(b)
          ELSE /\ bucket' = [bucket EXCEPT ![at] = b]
               /\ size' = size + 1
               /\ pending' = rest
               /\ UNCHANGED buckets
       /\ UNCHANGED <<hash, min_depth, max_depth, global_depth, freed>>
  BY <1>1, <1>12 DEF PlacePage, limits
<1>14. Held = PagesOf(t) \cup {page} \cup ToSet(rest) /\ Held' = PagesOf(t2) \cup ToSet(pending')
  <2>1. Stored' = PagesOf(Table')
    BY DEF Stored, StoredAt, PagesOf, PagesAt, Table
  <2> QED
    BY <1>1, <1>2, <2>1, StoredPages DEF Held
<1>15. CASE ~ MustSplit(b)
  <2>1. t2 = [global_depth |-> t.global_depth, buckets |-> t.buckets,
              bucket |-> [t.bucket EXCEPT ![at] = [local_depth |-> t.bucket[at].local_depth, pages |-> q]],
              freed |-> t.freed]
    BY <1>1, <1>4, <1>8, <1>11, <1>13, <1>15 DEF Table
  <2>2. IsTable(hash, t2) /\ PagesOf(t2) = PagesOf(t) \cup {page}
    <3>1. page \in Pages /\ page \notin PagesOf(t) /\ at \in DOMAIN t.bucket /\ IsTable(hash, t)
      BY <1>2, <1>3, <1>7
    <3>2. PageInserted(hash, t, page, at, t2)
      BY <1>3, <1>4, <2>1 DEF PageInserted
    <3> QED
      BY ONLY <3>1, <3>2, PlacedTable
  <2>3. IsFiniteSet(PagesOf(t2)) /\ Cardinality(PagesOf(t2)) = Cardinality(PagesOf(t)) + 1
    BY <1>3, <2>2, FS_AddElement
  <2>4. ToSet(rest) \cap PagesOf(t2) = {} /\ size' = Cardinality(PagesOf(t2)) /\ pending' = rest
    BY <1>2, <1>3, <1>13, <1>15, <2>2, <2>3
  <2>5. HashtableInv'
    BY <1>1, <1>2, <1>13, <2>2, <2>3, <2>4 DEF TableInv, HashtableInv
  <2>6. Held' = Held
    BY <1>14, <2>2, <2>4
  <2> QED
    BY <2>5, <2>6
<1>16. CASE MustSplit(b)
  <2> DEFINE S == PagesOf(t)
             T == PagesAt(t, at)
  \* The pages of the bucket.
  <2>1. /\ q \in Seq(Pages) /\ ToSet(q) = {page} \cup T /\ IsInjective(q) /\ Len(q) = Cardinality(T) + 1
        /\ T \subseteq S
    <3>1. PICK s \in Seq(Pages) : s = t.bucket[at].pages
      BY <1>3, <1>7, PartsOfTable
    <3>2. IsInjective(s) /\ T = ToSet(s) /\ T \subseteq S
      BY <1>3, <1>7, <3>1 DEF IsTable, IsPlaced, PagesOf, PagesAt
    <3>3. page \notin ToSet(s)
      BY <1>3, <3>2
    <3>4. /\ <<page>> \o s \in Seq(Pages) /\ Len(<<page>> \o s) = Len(s) + 1
          /\ ToSet(<<page>> \o s) = {page} \cup ToSet(s) /\ IsInjective(<<page>> \o s)
      BY <1>2, <3>2, <3>3, PageInFront
    <3>5. Cardinality(T) = Len(s)
      BY <3>2, PagesCounted
    <3> QED
      BY <1>4, <3>1, <3>2, <3>4, <3>5
  \* The entry and its variants.
  <2>2. l < global_depth /\ global_depth >= 1 /\ global_depth <= MaxDepth
    <3>1. l < global_depth
      BY <1>11, <1>16 DEF MustSplit
    <3>2. global_depth \in Nat /\ global_depth <= max_depth /\ max_depth <= MaxDepth /\ max_depth \in Nat
      BY <1>4, <1>6 DEF TableInv, HashtableInv
    <3>3. l \in Nat /\ MaxDepth \in Nat
      BY <1>9, HashtableAssumption
    <3> QED
      BY ONLY <3>1, <3>2, <3>3
  <2>3. PICK g \in Nat : g = t.global_depth /\ g = global_depth
    BY <1>4, <1>6
  <2>4. PICK id, half : id = x % 2^g /\ half = 2^(g - 1)
    OBVIOUS
  <2>5. /\ id \in Ids(g) /\ half \in Nat
        /\ id % half \in Ids(g - 1) /\ id \in {id % half, (id % half) + half}
    <3>1. g \in Nat /\ g >= 1 /\ x \in Nat
      BY <2>2, <2>3
    <3>2. IsEntry(x, g, id, half)
      BY <2>4 DEF IsEntry
    <3> QED
      BY ONLY <3>1, <3>2, VariantsOfBits
  <2>6. PICK low \in Ids(g - 1) : low = id % half
    BY <2>5
  <2>7. low \in Nat /\ (low + half) - half = low /\ id \in {low, low + half}
    BY <2>5, <2>6 DEF Ids
  <2>8. /\ IdOf(page) = id /\ at = t.buckets[id]
        /\ TopVariant(id) = low + half /\ Pair(low + half) = low
    <3>1. IdOf(page) = id
      BY <1>5, <2>3, <2>4 DEF IdOf
    <3>2. TopVariant(id) = low + half
      BY <2>3, <2>4, <2>6 DEF TopVariant
    <3>3. Pair(low + half) = low
      BY <2>3, <2>4, <2>7 DEF Pair
    <3> QED
      BY <1>1, <1>4, <3>1, <3>2, <3>3
  \* The split.
  <2>9. PICK free, new : /\ free = FreeAddress
                         /\ new = IF buckets[low + half] = buckets[low] THEN {free} ELSE {}
    OBVIOUS
  <2>10. /\ buckets' = [i \in DOMAIN buckets |-> IF i = low + half /\ new # {} THEN free ELSE buckets[i]]
         /\ bucket' = [a \in DOMAIN bucket \cup new |->
                         IF a = at \/ a \in new THEN [local_depth |-> l + 1, pages |-> <<>>] ELSE bucket[a]]
         /\ size' = size + 1 - Len(q)
         /\ pending' = q \o rest
    <3>1. SplitInto(b, l + 1, Len(q), q)
      BY <1>11, <1>13, <1>16 DEF Split
    <3> QED
      BY <1>1, <2>8, <2>9, <3>1 DEF SplitInto
  <2>11. PICK dir2, b2 : dir2 = buckets' /\ b2 = bucket'
    OBVIOUS
  <2>12. t2 = WithBuckets(t, dir2, b2)
    BY <1>1, <1>4, <1>13, <2>11 DEF Table, WithBuckets
  <2>13. IsTable(hash, t2) /\ PagesOf(t2) = S \ T
    <3>1. /\ half = 2^(t.global_depth - 1) /\ at = t.buckets[id] /\ l = t.bucket[at].local_depth
          /\ free = CHOOSE a \in Addresses : \A i \in DOMAIN t.buckets : t.buckets[i] # a
          /\ new = IF t.buckets[low + half] = t.buckets[low] THEN {free} ELSE {}
          /\ dir2 = [i \in DOMAIN t.buckets |-> IF i = low + half /\ new # {} THEN free ELSE t.buckets[i]]
          /\ b2 = [a \in DOMAIN t.bucket \cup new |->
                     IF a = at \/ a \in new THEN [local_depth |-> l + 1, pages |-> <<>>] ELSE t.bucket[a]]
      <4>1. half = 2^(t.global_depth - 1) /\ at = t.buckets[id] /\ l = t.bucket[at].local_depth
        BY ONLY <1>4, <1>8, <2>3, <2>4, <2>8
      <4>2. /\ free = CHOOSE a \in Addresses : \A i \in DOMAIN t.buckets : t.buckets[i] # a
            /\ new = IF t.buckets[low + half] = t.buckets[low] THEN {free} ELSE {}
        BY ONLY <1>4, <2>9, Zenon DEF FreeAddress
      <4>3. /\ dir2 = [i \in DOMAIN t.buckets |-> IF i = low + half /\ new # {} THEN free ELSE t.buckets[i]]
            /\ b2 = [a \in DOMAIN t.bucket \cup new |->
                       IF a = at \/ a \in new THEN [local_depth |-> l + 1, pages |-> <<>>] ELSE t.bucket[a]]
        BY ONLY <1>4, <2>10, <2>11, Zenon
      <4> QED
        BY ONLY <4>1, <4>2, <4>3
    <3>2. TableSplit(t, low, id, dir2, b2)
      BY ONLY <3>1 DEF TableSplit
    <3>3. /\ t.global_depth >= 1 /\ t.global_depth <= MaxDepth
          /\ low \in Ids(t.global_depth - 1) /\ id \in {low, low + 2^(t.global_depth - 1)}
          /\ t.bucket[t.buckets[id]].local_depth < t.global_depth
      BY <1>4, <2>2, <2>3, <2>4, <2>6, <2>7, <3>1
    <3>4. /\ IsTable(hash, WithBuckets(t, dir2, b2))
          /\ PagesOf(WithBuckets(t, dir2, b2)) = PagesOf(t) \ PagesAt(t, t.buckets[id])
      BY ONLY <1>3, <3>2, <3>3, SplitTable
    <3> QED
      BY <2>12, <3>1, <3>4
  \* The pages that are pending.
  <2>14. /\ pending' \in Seq(Pages) /\ ToSet(pending') = ({page} \cup T) \cup ToSet(rest)
         /\ IsInjective(pending')
    <3>1. ToSet(q) \cap ToSet(rest) = {}
      BY <1>2, <1>3, <2>1
    <3>2. PICK w \in Seq(Pages) : w = q
      BY <2>1
    <3>3. w \o rest \in Seq(Pages) /\ ToSet(w \o rest) = ToSet(w) \cup ToSet(rest) /\ IsInjective(w \o rest)
      BY <1>2, <2>1, <3>1, <3>2, PagesOfBoth
    <3> QED
      BY <2>1, <2>10, <3>2, <3>3
  <2>15. IsFiniteSet(PagesOf(t2)) /\ size' = Cardinality(PagesOf(t2))
    <3>1. /\ IsFiniteSet(S \ T) /\ Cardinality(S \ T) = Cardinality(S) - Cardinality(T)
          /\ Cardinality(S) \in Nat /\ Cardinality(T) \in Nat
      BY <1>3, <2>1, PagesLeft
    <3> QED
      BY <1>3, <2>1, <2>10, <2>13, <3>1
  <2>16. ToSet(pending') \cap PagesOf(t2) = {}
    BY <1>3, <2>13, <2>14
  <2>17. HashtableInv'
    BY <1>1, <1>13, <2>13, <2>14, <2>15, <2>16 DEF TableInv, HashtableInv
  <2>18. Held' = Held
    BY <1>14, <2>1, <2>13, <2>14
  <2> QED
    BY <2>17, <2>18
<1> QED
  BY <1>15, <1>16

\* The pages of the table and those that are to be inserted are counted.
LEMMA HeldCounted ==
  ASSUME HashtableInv
  PROVE  /\ size \in Nat /\ Len(pending) \in Nat
         /\ IsFiniteSet(Held) /\ size + Len(pending) = Cardinality(Held)
<1>1. IsFiniteSet(ToSet(pending)) /\ Cardinality(ToSet(pending)) = Len(pending)
  BY PagesCounted DEF TableInv, HashtableInv
<1>2. PICK S, T : S = PagesOf(Table) /\ T = ToSet(pending)
  OBVIOUS
<1>3. IsFiniteSet(S) /\ size = Cardinality(S) /\ S \cap T = {} /\ Held = S \cup T
  BY <1>2, StoredPages DEF TableInv, HashtableInv, Held
<1>4. /\ IsFiniteSet(S \cup T)
      /\ Cardinality(S \cup T) = Cardinality(S) + Cardinality(T) - Cardinality({})
  BY <1>1, <1>2, <1>3, FS_Union
<1>5. Cardinality({}) = 0 /\ Cardinality(S) \in Nat /\ Cardinality(T) \in Nat
  BY <1>1, <1>2, <1>3, FS_EmptySet, FS_CardinalityType
<1> QED
  BY <1>1, <1>2, <1>3, <1>4, <1>5

\* Every step of the table and of its client.
LEMMA InvNext ==
  ASSUME HashtableInv, [HashtableNext]_hashtable_vars
  PROVE  HashtableInv'
<1>1. CASE PlacePage
  BY <1>1, InvPlacePage
<1>2. ASSUME NEW page \in Pages, ~ GetPage(page), BeginInsert(page), UNCHANGED <<hash, table_vars>>
      PROVE  HashtableInv'
  BY <1>2, InvBeginInsert
<1>3. ASSUME NEW page \in Pages, RemovePage(page), UNCHANGED pending PROVE HashtableInv'
  BY <1>3, InvRemovePage DEF HashtableInv
<1>4. CASE ExpandDirectory /\ UNCHANGED pending
  BY <1>4, InvExpandDirectory DEF HashtableInv
<1>5. CASE ShrinkDirectory /\ UNCHANGED pending
  BY <1>5, InvShrinkDirectory DEF HashtableInv
<1>6. ASSUME NEW depth \in Depths, SetMaxSize(depth), UNCHANGED pending PROVE HashtableInv'
  BY <1>6, InvSetMaxSize DEF HashtableInv
<1>7. ASSUME NEW depth \in Depths, SetMinSize(depth), UNCHANGED pending PROVE HashtableInv'
  BY <1>7, InvSetMinSize DEF HashtableInv
<1>8. CASE UNCHANGED hashtable_vars
  BY <1>8 DEF hashtable_vars, table_vars, limits, TableInv, HashtableInv, Table
<1> QED
  BY <1>1, <1>2, <1>3, <1>4, <1>5, <1>6, <1>7, <1>8 DEF HashtableNext

\* The invariant holds in every state.
LEMMA Invariant == HashtableSpec => []HashtableInv
<1>1. HashtableInit => HashtableInv
  BY InvInit
<1>2. HashtableInv /\ [HashtableNext]_hashtable_vars => HashtableInv'
  BY InvNext
<1> QED
  BY <1>1, <1>2, PTL DEF HashtableSpec

-----------------------------------------------------------------------------
(* The theorems about the page table                                       *)

\* Type correctness: the directory of 2^global_depth entries leads to buckets
\* that exist, and no bucket is deeper than the directory.
THEOREM TypeCorrect == HashtableSpec => []HashtableTypeOK
<1>1. HashtableInv => HashtableTypeOK
  <2> SUFFICES ASSUME HashtableInv PROVE HashtableTypeOK
    OBVIOUS
  <2>1. PICK t : t = Table
    OBVIOUS
  <2>2. IsTable(hash, t)
    BY <2>1 DEF TableInv, HashtableInv
  <2>3. t.global_depth = global_depth /\ t.buckets = buckets /\ t.bucket = bucket /\ t.freed = freed
    BY <2>1 DEF Table
  <2>4. /\ t.global_depth \in Nat /\ t.buckets \in [Ids(t.global_depth) -> DOMAIN t.bucket]
        /\ \A a \in DOMAIN t.bucket : /\ t.bucket[a].local_depth \in 0 .. t.global_depth
                                      /\ t.bucket[a].pages \in Seq(Pages)
    BY <2>2, PartsOfTable
  <2>5. DOMAIN t.bucket \subseteq Addresses /\ t.freed \subseteq Pages
    BY <2>2 DEF IsTable
  <2>6. size \in Nat
    BY FS_CardinalityType DEF TableInv, HashtableInv
  <2>7. global_depth \in 0 .. max_depth
    BY <2>3, <2>4 DEF TableInv, HashtableInv
  <2> QED
    BY <2>3, <2>4, <2>5, <2>6, <2>7 DEF TableInv, HashtableInv, HashtableTypeOK, Ids
<1> QED
  BY <1>1, Invariant, PTL

\* get_page finds what was inserted: a page is in the bucket that its hash leads
\* to, and in no other, whatever splits, expansions and shrinkings there were.
THEOREM PagesAreFound == HashtableSpec => []FoundWhereStored
<1>1. HashtableInv => FoundWhereStored
  <2> SUFFICES ASSUME HashtableInv, NEW page \in Stored, NEW a \in DOMAIN bucket
               PROVE  page \in StoredAt(a) <=> a = buckets[IdOf(page)]
    BY DEF FoundWhereStored
  <2>1. PICK t : t = Table
    OBVIOUS
  <2>2. IsTable(hash, t)
    BY <2>1 DEF TableInv, HashtableInv
  <2>3. t.global_depth = global_depth /\ t.buckets = buckets /\ t.bucket = bucket
    BY <2>1 DEF Table
  <2>4. page \in PagesOf(t) /\ StoredAt(a) = PagesAt(t, a)
    BY <2>1, StoredPages
  <2>5. page \in PagesAt(t, a) <=> a = t.buckets[hash[page] % 2^t.global_depth]
    BY <2>2, <2>3, <2>4, PlaceOfPage
  <2> QED
    BY <2>3, <2>4, <2>5 DEF IdOf
<1> QED
  BY <1>1, Invariant, PTL

\* size is the number of pages in the table and no page is in it twice, even
\* while the pages of a bucket that has been split are inserted again.
THEOREM SizeCounts == HashtableSpec => []SizeIsPages
<1>1. HashtableInv => SizeIsPages
  <2> SUFFICES ASSUME HashtableInv PROVE SizeIsPages
    OBVIOUS
  <2>1. size + Len(pending) = Cardinality(Held)
    BY HeldCounted
  <2>2. \A a \in DOMAIN bucket : IsInjective(bucket[a].pages)
    BY DEF TableInv, HashtableInv, IsTable, IsPlaced, Table
  <2> QED
    BY <2>1, <2>2 DEF SizeIsPages
<1> QED
  BY <1>1, Invariant, PTL

\* A step of insert_page or split_bucket loses no page and invents none.
THEOREM PlacingKeepsPages == HashtableSpec => SplitKeepsPages
<1>1. HashtableInv /\ [HashtableNext]_hashtable_vars => [PlacePage => Held' = Held]_hashtable_vars
  BY InvPlacePage
<1> QED
  BY <1>1, Invariant, PTL DEF HashtableSpec, SplitKeepsPages

-----------------------------------------------------------------------------
(* The inductive invariant of the pool                                     *)

\* The results about the eviction list.
List == INSTANCE LRUProofs WITH Keys <- Pages, order <- lru!Order

\* The page that is inserted is in the table before it is in the list; between
\* calls the two have the same pages.
InStep ==
  /\ inserting \in Pages \cup {none}
  /\ inserting = none => pending = <<>> /\ DOMAIN node_map = Stored
  /\ inserting # none => /\ inserting \notin DOMAIN node_map
                         /\ Held = DOMAIN node_map \cup {inserting}

\* What resize will leave when it has evicted the rest: the pages, and the table
\* before the limit is set.
KeptPages == ToSet(Spared(resizing.evict))
TableLeft == AfterEvicting(TableOf(KeptPages), resizing.shrink)
NewLimit == Log2Floor(resizing.max_size)

\* While the pool is resized, the steps to come are those that Resize has
\* counted with, whatever has been evicted so far.
ResizeOK ==
  resizing # NoResize =>
    /\ inserting = none
    /\ resizing \in [max_size : MaxSizes, evict : 0 .. Len(lru!Order), shrink : BOOLEAN]
    /\ resizing.shrink => /\ MayShrink(TableOf(KeptPages), min_depth)
                          /\ global_depth > 0 \/ min_depth = 0
    /\ MayLimit(TableLeft, NewLimit)
    /\ Capacity(NewLimit) <= ceiling
    /\ Cardinality(KeptPages) + NewLimit - Limited(TableLeft, NewLimit).global_depth <= ceiling

\* The ceiling leaves room for a page more at each expansion to come.
RoomOK ==
  /\ ceiling \in Nat
  /\ resizing = NoResize =>
       /\ Capacity(max_depth) <= ceiling
       /\ Cardinality(Held) + max_depth - global_depth <= ceiling

\* The inductive invariant.
PoolInv == HashtableInv /\ List!ListInv /\ InStep /\ ResizeOK /\ RoomOK

-----------------------------------------------------------------------------
(* The list of the pool is that of LRU                                     *)

\* The operators that the methods are made from.
LEMMA SamePointers ==
  /\ lru!Nodes = List!Nodes
  /\ lru!null = List!null
  /\ \A h, n : lru!Pointers(h, n) = List!Pointers(h, n)
  /\ \A h, n, p : lru!SetPrev(h, n, p) = List!SetPrev(h, n, p)
  /\ \A h, n, p : lru!SetNext(h, n, p) = List!SetNext(h, n, p)
  /\ \A map, k : lru!Without(map, k) = List!Without(map, k)
  /\ lru!StaleFront <=> List!StaleFront
  /\ lru!EvictedKey = List!EvictedKey
BY DEF lru!Nodes, List!Nodes, lru!null, List!null, lru!Pointers, List!Pointers, lru!SetPrev, List!SetPrev, lru!SetNext, List!SetNext,
       lru!Without, List!Without, lru!StaleFront, List!StaleFront, lru!EvictedKey, List!EvictedKey

\* What is left of the heap when no pointer leads to some nodes any more.
LEMMA SameBecomes ==
  \A map, f, r, h : lru!Becomes(map, f, r, h) <=> List!Becomes(map, f, r, h)
<1>1. \A h, roots : lru!Reachable(h, roots) = List!Reachable(h, roots)
  BY DEF lru!Reachable, List!Reachable, lru!Pointers, List!Pointers, lru!null, List!null, lru!Cardinality, List!Cardinality
<1> QED
  BY <1>1 DEF lru!Becomes, List!Becomes

\* The methods.
LEMMA SameMethods ==
  /\ \A k : lru!Insert(k) <=> List!Insert(k)
  /\ \A k : lru!Remove(k) <=> List!Remove(k)
  /\ \A k : lru!Update(k) <=> List!Update(k)
  /\ lru!Evict <=> List!Evict
  /\ lru!Init <=> List!Init
<1>1. ASSUME NEW k PROVE lru!Insert(k) <=> List!Insert(k)
  BY SamePointers, SameBecomes DEF lru!Insert, List!Insert
<1>2. ASSUME NEW k PROVE lru!Remove(k) <=> List!Remove(k)
  BY SamePointers, SameBecomes DEF lru!Remove, List!Remove
<1>3. ASSUME NEW k PROVE lru!Update(k) <=> List!Update(k)
  BY SamePointers, SameBecomes DEF lru!Update, List!Update, lru!lru_vars, List!lru_vars
<1>4. lru!Evict <=> List!Evict
  BY SamePointers, SameBecomes DEF lru!Evict, List!Evict
<1>5. lru!Init <=> List!Init
  BY SamePointers DEF lru!Init, List!Init
<1> QED
  BY <1>1, <1>2, <1>3, <1>4, <1>5

\* The order of the list, before a step and after it.
LEMMA OrderIs ==
  ASSUME NEW s
  PROVE  /\ List!IsList(node_map, front, rear, heap, s) => lru!Order = s
         /\ List!IsList(node_map', front', rear', heap', s) => lru!Order' = s
<1>1. lru!Order = List!Walk(front, heap)
  BY SamePointers DEF lru!Order, List!Walk, lru!Cardinality, List!Cardinality
<1>2. lru!Order' = List!Walk(front', heap')
  BY SamePointers DEF lru!Order, List!Walk, lru!Cardinality, List!Cardinality
<1>3. ASSUME List!IsList(node_map, front, rear, heap, s) PROVE List!Walk(front, heap) = s
  BY <1>3, List!WalkIsList
<1>4. ASSUME List!IsList(node_map', front', rear', heap', s) PROVE List!Walk(front', heap') = s
  BY <1>4, List!WalkIsList
<1> QED
  BY <1>1, <1>2, <1>3, <1>4

-----------------------------------------------------------------------------
(* What the methods do to the order                                        *)

\* The list has each of the pages of the map once.
LEMMA ListParts ==
  ASSUME NEW map, NEW f, NEW r, NEW h, NEW s, List!IsList(map, f, r, h, s)
  PROVE  /\ s \in Seq(Pages) /\ IsInjective(s)
         /\ DOMAIN map = ToSet(s)
         /\ IsFiniteSet(DOMAIN map) /\ Cardinality(DOMAIN map) = Len(s)
<1>1. /\ s \in Seq(Pages) /\ \A i, j \in 1 .. Len(s) : s[i] = s[j] => i = j
      /\ DOMAIN map = {s[i] : i \in 1 .. Len(s)}
  BY DEF List!IsList, List!IsMap
<1>2. DOMAIN s = 1 .. Len(s)
  BY <1>1
<1>3. IsInjective(s) /\ DOMAIN map = ToSet(s)
  BY <1>1, <1>2 DEF IsInjective, ToSet
<1> QED
  BY <1>1, <1>3, PagesCounted

\* The list without its j-th page.
LEMMA SkipIsWithout ==
  ASSUME NEW s \in Seq(Pages), IsInjective(s), NEW j \in 1 .. Len(s)
  PROVE  List!Skip(s, j) = WithoutPage(s, s[j])
<1>1. DOMAIN s = 1 .. Len(s)
  OBVIOUS
<1>2. (CHOOSE i \in DOMAIN s : s[i] = s[j]) = j
  BY <1>1 DEF IsInjective
<1> QED
  BY <1>2 DEF List!Skip, WithoutPage, RemoveAt

\* A list that a method has left is the list of the pool.
LEMMA ListNext ==
  ASSUME NEW s, List!IsList(node_map', front', rear', heap', s)
  PROVE  List!ListInv' /\ lru!Order' = s /\ DOMAIN node_map' = ToSet(s)
<1>1. lru!Order' = s
  BY OrderIs
<1>2. DOMAIN node_map' = ToSet(s)
  BY ListParts
<1> QED
  BY <1>1, <1>2 DEF List!ListInv

\* A page that is looked up moves to the front.
LEMMA ListUpdate ==
  ASSUME List!ListInv, NEW page, lru!Update(page)
  PROVE  /\ List!ListInv' /\ page \in ToSet(lru!Order)
         /\ lru!Order' = <<page>> \o WithoutPage(lru!Order, page)
         /\ DOMAIN node_map' = DOMAIN node_map
<1> DEFINE s == lru!Order
<1>1. List!IsList(node_map, front, rear, heap, s)
  BY DEF List!ListInv
<1>2. List!Update(page)
  BY SameMethods
<1> HIDE DEF s
<1>3. s \in Seq(Pages) /\ IsInjective(s) /\ DOMAIN node_map = ToSet(s) /\ DOMAIN s = 1 .. Len(s)
  BY <1>1, ListParts
<1>4. PICK j \in 1 .. Len(s) : s[j] = page /\ List!IsList(node_map', front', rear', heap', <<page>> \o List!Skip(s, j))
  BY <1>1, <1>2, List!UpdateKeepsList
<1>5. page \in ToSet(s) /\ page \in Pages
  BY <1>3, <1>4 DEF ToSet
<1>6. List!Skip(s, j) = WithoutPage(s, page)
  BY <1>3, <1>4, SkipIsWithout
<1>7. List!ListInv' /\ lru!Order' = <<page>> \o WithoutPage(s, page) /\ DOMAIN node_map' = ToSet(<<page>> \o WithoutPage(s, page))
  BY <1>4, <1>6, ListNext
<1>8. ToSet(<<page>> \o WithoutPage(s, page)) = ToSet(s)
  <2>1. WithoutPage(s, page) \in Seq(Pages) /\ ToSet(WithoutPage(s, page)) = ToSet(s) \ {page}
    BY <1>3, <1>5, PagesWithout
  <2>2. ToSet(<<page>> \o WithoutPage(s, page)) = {page} \cup (ToSet(s) \ {page})
    BY <1>5, <2>1, PageInFront
  <2> QED
    BY <1>5, <2>2
<1> QED
  BY <1>3, <1>5, <1>7, <1>8 DEF s

\* A new page is put in front.
LEMMA ListInsert ==
  ASSUME List!ListInv, NEW page \in Pages, lru!Insert(page)
  PROVE  /\ List!ListInv' /\ page \notin DOMAIN node_map
         /\ lru!Order' = <<page>> \o lru!Order
         /\ DOMAIN node_map' = {page} \cup DOMAIN node_map
<1> DEFINE s == lru!Order
<1>1. List!IsList(node_map, front, rear, heap, s)
  BY DEF List!ListInv
<1>2. List!Insert(page)
  BY SameMethods
<1> HIDE DEF s
<1>3. s \in Seq(Pages) /\ DOMAIN node_map = ToSet(s)
  BY <1>1, ListParts
<1>4. List!IsList(node_map', front', rear', heap', <<page>> \o s)
  BY <1>1, <1>2, List!InsertKeepsList
<1>5. List!ListInv' /\ lru!Order' = <<page>> \o s /\ DOMAIN node_map' = ToSet(<<page>> \o s)
  BY <1>4, ListNext
<1>6. ToSet(<<page>> \o s) = {page} \cup ToSet(s)
  BY <1>3, PageInFront
<1>7. page \notin DOMAIN node_map
  BY DEF lru!Insert
<1> QED
  BY <1>3, <1>5, <1>6, <1>7 DEF s

\* A page that is removed is taken out.
LEMMA ListRemove ==
  ASSUME List!ListInv, SafeUse, NEW page, lru!Remove(page)
  PROVE  /\ List!ListInv' /\ page \in ToSet(lru!Order)
         /\ lru!Order' = WithoutPage(lru!Order, page)
         /\ DOMAIN node_map' = DOMAIN node_map \ {page}
<1> DEFINE s == lru!Order
<1>1. List!IsList(node_map, front, rear, heap, s)
  BY DEF List!ListInv
<1>2. List!Remove(page)
  BY SameMethods
<1> HIDE DEF s
<1>3. s \in Seq(Pages) /\ IsInjective(s) /\ DOMAIN node_map = ToSet(s) /\ DOMAIN s = 1 .. Len(s)
  BY <1>1, ListParts
<1>4. PICK j \in 1 .. Len(s) : s[j] = page /\ List!IsList(node_map', front', rear', heap', List!Skip(s, j))
  BY <1>1, <1>2, List!RemoveKeepsList
<1>5. page \in ToSet(s) /\ page \in Pages
  BY <1>3, <1>4 DEF ToSet
<1>6. List!Skip(s, j) = WithoutPage(s, page)
  BY <1>3, <1>4, SkipIsWithout
<1>7. List!ListInv' /\ lru!Order' = WithoutPage(s, page) /\ DOMAIN node_map' = ToSet(WithoutPage(s, page))
  BY <1>4, <1>6, ListNext
<1>8. ToSet(WithoutPage(s, page)) = ToSet(s) \ {page}
  BY <1>3, <1>5, PagesWithout
<1> QED
  BY <1>3, <1>5, <1>7, <1>8 DEF s

\* A list without its last page.
LEMMA PagesButLast ==
  ASSUME NEW s \in Seq(Pages), IsInjective(s), s # <<>>
  PROVE  /\ Len(s) \in Nat \ {0} /\ s[Len(s)] \in ToSet(s)
         /\ Front(s) \in Seq(Pages) /\ Len(Front(s)) = Len(s) - 1
         /\ \A i \in 1 .. Len(s) - 1 : Front(s)[i] = s[i]
         /\ ToSet(Front(s)) = ToSet(s) \ {s[Len(s)]}
         /\ WithoutPage(s, s[Len(s)]) = Front(s)
<1>1. Len(s) \in Nat \ {0} /\ DOMAIN s = 1 .. Len(s) /\ Len(s) \in 1 .. Len(s)
  OBVIOUS
<1>2. /\ Front(s) \in Seq(Pages) /\ Len(Front(s)) = Len(s) - 1
      /\ \A i \in 1 .. Len(s) - 1 : Front(s)[i] = s[i]
  BY <1>1 DEF Front
<1>3. ToSet(Front(s)) = ToSet(s) \ {s[Len(s)]}
  <2>1. DOMAIN Front(s) = 1 .. Len(s) - 1
    BY <1>1, <1>2
  <2>2. ToSet(Front(s)) = {s[i] : i \in 1 .. Len(s) - 1}
    BY <1>2, <2>1 DEF ToSet
  <2>3. ToSet(s) = {s[i] : i \in 1 .. Len(s)}
    BY <1>1 DEF ToSet
  <2>4. \A i \in 1 .. Len(s) : i \in 1 .. Len(s) - 1 <=> s[i] # s[Len(s)]
    BY <1>1 DEF IsInjective
  <2>5. 1 .. Len(s) - 1 \subseteq 1 .. Len(s)
    BY <1>1
  <2> QED
    BY <2>2, <2>3, <2>4, <2>5
<1>4. WithoutPage(s, s[Len(s)]) = Front(s)
  <2>1. (CHOOSE i \in DOMAIN s : s[i] = s[Len(s)]) = Len(s)
    BY <1>1 DEF IsInjective
  <2>2. WithoutPage(s, s[Len(s)]) = SubSeq(s, 1, Len(s) - 1) \o SubSeq(s, Len(s) + 1, Len(s))
    BY <2>1 DEF WithoutPage, RemoveAt
  <2>3. SubSeq(s, Len(s) + 1, Len(s)) = <<>>
    BY <1>1
  <2> QED
    BY <1>1, <2>2, <2>3 DEF Front
<1>5. s[Len(s)] \in ToSet(s)
  BY <1>1 DEF ToSet
<1> QED
  BY <1>1, <1>2, <1>3, <1>4, <1>5

\* The last page is evicted.
LEMMA ListEvict ==
  ASSUME List!ListInv, SafeUse, lru!Evict
  PROVE  /\ List!ListInv' /\ lru!Order # <<>>
         /\ lru!EvictedKey = lru!Order[Len(lru!Order)]
         /\ lru!Order' = Front(lru!Order)
         /\ DOMAIN node_map' = DOMAIN node_map \ {lru!EvictedKey}
<1> DEFINE s == lru!Order
<1>1. List!IsList(node_map, front, rear, heap, s)
  BY DEF List!ListInv
<1>2. List!Evict
  BY SameMethods
<1> HIDE DEF s
<1>3. s \in Seq(Pages) /\ IsInjective(s) /\ DOMAIN node_map = ToSet(s)
  BY <1>1, ListParts
<1>4. s # <<>> /\ List!IsList(node_map', front', rear', heap', List!calls!Front(s)) /\ List!EvictedKey = s[Len(s)]
  BY <1>1, <1>2, List!EvictKeepsList
<1>5. List!calls!Front(s) = Front(s) /\ lru!EvictedKey = s[Len(s)]
  BY <1>4, SamePointers DEF List!calls!Front, Front
<1>6. List!ListInv' /\ lru!Order' = Front(s) /\ DOMAIN node_map' = ToSet(Front(s))
  BY <1>4, <1>5, ListNext
<1>7. ToSet(Front(s)) = ToSet(s) \ {s[Len(s)]}
  BY <1>3, <1>4, PagesButLast
<1> QED
  BY <1>3, <1>4, <1>5, <1>6, <1>7 DEF s

-----------------------------------------------------------------------------
(* Capacities and limits                                                   *)

\* The capacity of a directory is at least 1, and a page more fits for every
\* expansion.
LEMMA CapacityGrows ==
  ASSUME NEW g \in Nat, NEW m \in Nat, g <= m
  PROVE  /\ Capacity(g) \in Nat \ {0} /\ Capacity(m) \in Nat \ {0}
         /\ Capacity(g) + (m - g) <= Capacity(m)
<1>1. \A d \in Nat : Capacity(d) \in Nat \ {0}
  BY PowerPositive DEF Capacity
<1>2. ASSUME NEW d \in Nat PROVE Capacity(d) + 1 <= Capacity(d + 1)
  <2> DEFINE x == 2^d
             y == 2^(d + 1)
  <2>1. x \in Nat /\ x > 0 /\ y = x + x
    BY PowerPositive, PowerDoubles
  <2> HIDE DEF x, y
  <2>2. (3 * x) \div 4 + 1 + 1 <= (3 * y) \div 4 + 1
    BY <2>1
  <2> QED
    BY <2>2 DEF Capacity, x, y
<1> DEFINE S == {n \in Nat : Capacity(g) + n <= Capacity(g + n)}
<1>3. 0 \in S
  BY <1>1
<1>4. ASSUME NEW n \in Nat, n \in S PROVE n + 1 \in S
  <2>1. Capacity(g + n) + 1 <= Capacity((g + n) + 1) /\ (g + n) + 1 = g + (n + 1) /\ g + n \in Nat
    BY <1>2
  <2>2. Capacity(g) \in Nat /\ Capacity(g + n) \in Nat /\ Capacity(g + (n + 1)) \in Nat
    BY <1>1
  <2>3. Capacity(g) + n <= Capacity(g + n) /\ Capacity(g + n) + 1 <= Capacity(g + (n + 1))
    BY <1>4, <2>1
  <2> HIDE DEF Capacity
  <2>4. Capacity(g) + (n + 1) <= Capacity(g + (n + 1))
    BY <2>2, <2>3
  <2> QED
    BY <2>4
<1>5. m - g \in Nat /\ g + (m - g) = m
  OBVIOUS
<1>6. m - g \in S
  <2> HIDE DEF S
  <2> QED
    BY <1>3, <1>4, <1>5, InductionOnNat
<1> QED
  BY <1>1, <1>5, <1>6

\* A pool that is not past the threshold has fewer pages than its capacity, one
\* that is past it has at least as many.
LEMMA ThresholdIsCapacity ==
  ASSUME NEW pages \in Nat, NEW d \in Nat
  PROVE  PastThreshold(pages, 2^d) <=> pages >= Capacity(d)
<1> DEFINE x == 2^d
<1>1. x \in Nat
  BY PowerPositive
<1> HIDE DEF x
<1>2. 4 * pages > 3 * x <=> pages >= (3 * x) \div 4 + 1
  BY <1>1
<1> QED
  BY <1>2 DEF PastThreshold, Capacity, x

\* A power of two is more than its exponent.
LEMMA PowerExceeds == \A n \in Nat : n < 2^n
<1> DEFINE S == {n \in Nat : n < 2^n}
<1>1. 0 \in S
  BY PowerPositive
<1>2. ASSUME NEW n \in Nat, n \in S PROVE n + 1 \in S
  <2>1. 2^(n + 1) = 2^n + 2^n /\ 2^n \in Nat /\ 2^n > 0
    BY PowerDoubles, PowerPositive
  <2> QED
    BY <1>2, <2>1
<1> HIDE DEF S
<1>3. Nat \subseteq S
  BY <1>1, <1>2, InductionOnNat
<1> QED
  BY <1>3 DEF S

\* The depth that resize sets as the limit is one that the table may have.
LEMMA LimitOfSize ==
  ASSUME NEW n \in MaxSizes
  PROVE  /\ n \in Nat \ {0}
         /\ Log2Floor(n) \in Nat /\ Log2Floor(n) <= MaxDepth
         /\ 2^Log2Floor(n) \in Nat /\ 2^Log2Floor(n) <= n
<1>1. MaxDepth \in Nat /\ 2^(MaxDepth + 1) \in Nat
  BY HashtableAssumption, PowerPositive DEF HashtableAssumption
<1>2. n \in Nat \ {0} /\ n < 2^(MaxDepth + 1)
  BY <1>1, BufferPoolAssumption DEF BufferPoolAssumption
<1> DEFINE T == {d \in Nat : n < 2^(d + 1)}
           IsLimit(d) == 2^d <= n /\ n < 2^(d + 1)
<1>3. n \in T
  <2>1. n + 1 < 2^(n + 1) /\ 2^(n + 1) \in Nat
    BY <1>2, PowerExceeds, PowerPositive
  <2> QED
    BY <1>2, <2>1
<1>4. PICK x \in T : \A y \in T : x <= y
  BY <1>3, SmallestElement
<1>5. x \in 0 .. n /\ IsLimit(x)
  <2>1. x \in Nat /\ x <= n /\ n < 2^(x + 1)
    BY <1>2, <1>3, <1>4
  <2>2. CASE x = 0
    BY <1>2, <2>1, <2>2, PowerPositive
  <2>3. CASE x # 0
    <3>1. x - 1 \in Nat /\ (x - 1) + 1 = x /\ ~ (x <= x - 1)
      BY <2>1, <2>3
    <3>2. ~ (n < 2^x)
      BY <1>4, <3>1
    <3>3. 2^x \in Nat
      BY <2>1, PowerPositive
    <3> QED
      BY <1>2, <2>1, <3>2, <3>3
  <2> QED
    BY <2>2, <2>3
<1> DEFINE L == Log2Floor(n)
<1>6. L = CHOOSE d \in 0 .. n : IsLimit(d)
  BY DEF Log2Floor
<1> HIDE DEF L, IsLimit, T
<1>7. L \in 0 .. n /\ IsLimit(L)
  BY <1>5, <1>6
<1>8. L \in Nat /\ 2^L <= n /\ 2^L \in Nat
  BY <1>2, <1>7, PowerPositive DEF IsLimit
<1>9. L <= MaxDepth
  <2> SUFFICES ASSUME ~ (L <= MaxDepth) PROVE FALSE
    OBVIOUS
  <2>1. MaxDepth + 1 \in Nat /\ MaxDepth + 1 <= L
    BY <1>1, <1>8
  <2>2. 2^(MaxDepth + 1) <= 2^L
    BY <1>8, <2>1, PowerGrows
  <2> QED
    BY <1>1, <1>2, <1>8, <2>2
<1> QED
  BY <1>2, <1>8, <1>9 DEF L

\* resize evicts pages that the pool has; what it keeps, if it evicts any, is
\* the capacity of the new limit but for one page, or more.
LEMMA PagesToEvict ==
  ASSUME NEW n \in MaxSizes, size \in Nat
  PROVE  /\ NumToEvict(n) \in 0 .. size
         /\ NumToEvict(n) > 0 => size - NumToEvict(n) >= Capacity(Log2Floor(n)) - 1
<1> DEFINE x == 2^Log2Floor(n)
<1>1. n \in Nat \ {0} /\ x \in Nat /\ x <= n
  BY LimitOfSize
<1>2. NumToEvict(n) \in 0 .. size
  BY <1>1 DEF NumToEvict
<1> HIDE DEF x
<1>3. NumToEvict(n) > 0 => size - NumToEvict(n) >= (3 * x) \div 4
  BY <1>1 DEF NumToEvict
<1>4. Capacity(Log2Floor(n)) = (3 * x) \div 4 + 1 /\ (3 * x) \div 4 \in Nat
  BY <1>1 DEF Capacity, x
<1> QED
  BY <1>2, <1>3, <1>4

-----------------------------------------------------------------------------
(* A bucket's list without some of its pages                               *)

\* The pages are taken in turn.
LEMMA KeepingSteps ==
  ASSUME NEW s \in Seq(Pages), NEW K
  PROVE  \E f : /\ f = [i \in 0 .. Len(s) |->
                          IF i = 0 THEN <<>>
                          ELSE IF s[i] \in K THEN Append(f[i - 1], s[i]) ELSE f[i - 1]]
                /\ Keeping(s, K) = f[Len(s)]
<1> DEFINE N == Len(s)
           D == 0 .. N
           Body(g, i) == IF i = 0 THEN <<>>
                         ELSE IF s[i] \in K THEN Append(g[i - 1], s[i]) ELSE g[i - 1]
           kept == CHOOSE g : g = [i \in D |-> Body(g, i)]
<1>1. N \in Nat /\ \A i \in D : i \in Nat /\ (i # 0 => i - 1 \in D /\ s[i] \in Pages)
  OBVIOUS
<1>2. kept = [i \in D |-> Body(kept, i)]
  <2> DEFINE V == Seq(Pages)
             id == [i \in D |-> i]
             Step == [i \in D |-> [g \in [Below(D, id, i) -> V] |-> Body(g, i)]]
  <2>1. id \in [D -> Nat] /\ N + 1 \in Nat /\ \A i \in D : id[i] < N + 1
    BY <1>1
  <2>2. IsStep(Step, D, V, id)
    <3> SUFFICES ASSUME NEW i \in D, NEW g \in [Below(D, id, i) -> V] PROVE Body(g, i) \in V
      BY DEF IsStep
    <3>1. i # 0 => i - 1 \in Below(D, id, i) /\ s[i] \in Pages
      BY <1>1 DEF Below
    <3>2. i # 0 => g[i - 1] \in V
      BY <3>1
    <3> QED
      BY <3>1, <3>2
  <2>3. PICK f \in [D -> V] : Solves(f, Step, D, id)
    <3> DEFINE bound == N + 1
    <3> HIDE DEF D, id, Step, V, bound
    <3> QED
      BY <2>1, <2>2, BoundedRecursion DEF bound
  <2>4. ASSUME NEW i \in D PROVE f[i] = Body(f, i)
    <3> DEFINE r == [j \in Below(D, id, i) |-> f[j]]
    <3>1. r \in [Below(D, id, i) -> V]
      BY DEF Below
    <3>2. f[i] = Body(r, i)
      BY <2>3, <3>1 DEF Solves
    <3>3. i # 0 => r[i - 1] = f[i - 1]
      BY <1>1 DEF Below
    <3> HIDE DEF r
    <3> QED
      BY <3>2, <3>3
  <2>5. f = [i \in D |-> Body(f, i)]
    BY <2>4
  <2> HIDE DEF D
  <2> QED
    BY <2>5
<1>3. Keeping(s, K) = kept[N]
  BY DEF Keeping
<1> HIDE DEF kept
<1> QED
  BY <1>2, <1>3

\* The last page is kept or not.
LEMMA KeepingAppend ==
  ASSUME NEW K
  PROVE  /\ Keeping(<<>>, K) = <<>>
         /\ \A s \in Seq(Pages), p \in Pages :
              Keeping(Append(s, p), K)
                = IF p \in K THEN Append(Keeping(s, K), p) ELSE Keeping(s, K)
<1>1. Keeping(<<>>, K) = <<>>
  <2> DEFINE e == <<>>
  <2>1. e \in Seq(Pages) /\ Len(e) = 0
    OBVIOUS
  <2> HIDE DEF e
  <2>2. PICK f : /\ f = [i \in 0 .. Len(e) |->
                          IF i = 0 THEN <<>>
                          ELSE IF e[i] \in K THEN Append(f[i - 1], e[i]) ELSE f[i - 1]]
                 /\ Keeping(e, K) = f[Len(e)]
    BY <2>1, KeepingSteps
  <2>3. f[0] = <<>>
    BY <2>1, <2>2
  <2> QED
    BY <2>1, <2>2, <2>3 DEF e
<1>2. ASSUME NEW s \in Seq(Pages), NEW p \in Pages
      PROVE  Keeping(Append(s, p), K)
               = IF p \in K THEN Append(Keeping(s, K), p) ELSE Keeping(s, K)
  <2> DEFINE t == Append(s, p)
             N == Len(s)
  <2>1. /\ t \in Seq(Pages) /\ Len(t) = N + 1 /\ N \in Nat
        /\ t[N + 1] = p /\ \A i \in 1 .. N : t[i] = s[i]
    OBVIOUS
  <2> HIDE DEF t
  <2>2. PICK f : /\ f = [i \in 0 .. Len(s) |->
                          IF i = 0 THEN <<>>
                          ELSE IF s[i] \in K THEN Append(f[i - 1], s[i]) ELSE f[i - 1]]
                 /\ Keeping(s, K) = f[Len(s)]
    BY KeepingSteps
  <2>3. PICK g : /\ g = [i \in 0 .. Len(t) |->
                          IF i = 0 THEN <<>>
                          ELSE IF t[i] \in K THEN Append(g[i - 1], t[i]) ELSE g[i - 1]]
                 /\ Keeping(t, K) = g[Len(t)]
    BY <2>1, KeepingSteps
  <2> HIDE DEF N
  <2> DEFINE S == {i \in Nat : i <= N => g[i] = f[i]}
  <2>4. 0 \in S
    BY <2>1, <2>2, <2>3 DEF N
  <2>5. ASSUME NEW i \in Nat, i \in S PROVE i + 1 \in S
    <3> SUFFICES ASSUME i + 1 <= N PROVE g[i + 1] = f[i + 1]
      OBVIOUS
    <3>1. /\ i + 1 \in 1 .. N /\ i + 1 \in 0 .. N /\ i + 1 \in 0 .. N + 1 /\ i + 1 # 0
          /\ (i + 1) - 1 = i /\ g[i] = f[i]
      BY <2>1, <2>5
    <3>2. t[i + 1] = s[i + 1]
      BY <2>1, <3>1
    <3>3. g[i + 1] = IF t[i + 1] \in K THEN Append(g[i], t[i + 1]) ELSE g[i]
      BY <2>1, <2>3, <3>1
    <3>4. f[i + 1] = IF s[i + 1] \in K THEN Append(f[i], s[i + 1]) ELSE f[i]
      BY <2>2, <3>1 DEF N
    <3> QED
      BY <3>1, <3>2, <3>3, <3>4
  <2>6. g[N] = f[N]
    <3> HIDE DEF S
    <3>1. N \in S
      BY <2>1, <2>4, <2>5, InductionOnNat
    <3> QED
      BY <2>1, <3>1 DEF S
  <2>7. g[N + 1] = IF p \in K THEN Append(g[N], p) ELSE g[N]
    <3>1. N + 1 \in 0 .. Len(t) /\ N + 1 # 0 /\ (N + 1) - 1 = N
      BY <2>1
    <3> QED
      BY <2>1, <2>3, <3>1
  <2> QED
    BY <2>1, <2>2, <2>3, <2>6, <2>7 DEF N, t
<1> QED
  BY <1>1, <1>2

\* A list that is not empty has a last page.
LEMMA LastPage ==
  ASSUME NEW s \in Seq(Pages), NEW n \in Nat, Len(s) = n + 1
  PROVE  \E t \in Seq(Pages), p \in Pages : s = Append(t, p) /\ Len(t) = n
<1> DEFINE t == SubSeq(s, 1, n)
<1>1. t \in Seq(Pages) /\ Len(t) = n /\ s[n + 1] \in Pages
  OBVIOUS
<1>2. s = Append(t, s[n + 1])
  OBVIOUS
<1> QED
  BY <1>1, <1>2

\* A list with a page more at the end.
LEMMA PageAtEnd ==
  ASSUME NEW s \in Seq(Pages), NEW p \in Pages
  PROVE  /\ Append(s, p) \in Seq(Pages)
         /\ ToSet(Append(s, p)) = ToSet(s) \cup {p}
         /\ IsInjective(Append(s, p)) <=> IsInjective(s) /\ p \notin ToSet(s)
<1> DEFINE t == Append(s, p)
           N == Len(s)
<1>1. /\ t \in Seq(Pages) /\ DOMAIN t = 1 .. N + 1 /\ DOMAIN s = 1 .. N /\ N \in Nat
      /\ t[N + 1] = p /\ \A i \in 1 .. N : t[i] = s[i]
  OBVIOUS
<1>2. 1 .. N + 1 = 1 .. N \cup {N + 1} /\ N + 1 \notin 1 .. N
  BY <1>1
<1> HIDE DEF t, N
<1>3. ToSet(t) = ToSet(s) \cup {p}
  BY <1>1, <1>2 DEF ToSet
<1>4. IsInjective(t) <=> IsInjective(s) /\ p \notin ToSet(s)
  BY <1>1, <1>2 DEF IsInjective, ToSet
<1> QED
  BY <1>1, <1>3, <1>4 DEF t

\* What is kept is what the list has of these pages; a list that has no others
\* is kept as it is.
LEMMA KeepingKeeps ==
  ASSUME NEW s \in Seq(Pages), NEW K
  PROVE  /\ Keeping(s, K) \in Seq(Pages)
         /\ ToSet(Keeping(s, K)) = ToSet(s) \cap K
         /\ IsInjective(s) => IsInjective(Keeping(s, K))
         /\ ToSet(s) \subseteq K => Keeping(s, K) = s
<1> DEFINE Q(r) == /\ Keeping(r, K) \in Seq(Pages)
                   /\ ToSet(Keeping(r, K)) = ToSet(r) \cap K
                   /\ IsInjective(r) => IsInjective(Keeping(r, K))
                   /\ ToSet(r) \subseteq K => Keeping(r, K) = r
           S == {n \in Nat : \A r \in Seq(Pages) : Len(r) = n => Q(r)}
<1>1. 0 \in S
  <2> SUFFICES ASSUME NEW r \in Seq(Pages), Len(r) = 0 PROVE Q(r)
    OBVIOUS
  <2>1. r = <<>> /\ Keeping(r, K) = r
    BY KeepingAppend
  <2>2. ToSet(<<>>) = {}
    BY DEF ToSet
  <2> QED
    BY <2>1, <2>2
<1>2. ASSUME NEW n \in Nat, n \in S PROVE n + 1 \in S
  <2> SUFFICES ASSUME NEW r \in Seq(Pages), Len(r) = n + 1 PROVE Q(r)
    OBVIOUS
  <2>1. PICK t \in Seq(Pages), p \in Pages : r = Append(t, p) /\ Len(t) = n
    BY LastPage
  <2>2. Q(t)
    BY <1>2, <2>1
  <2>3. Keeping(r, K) = IF p \in K THEN Append(Keeping(t, K), p) ELSE Keeping(t, K)
    BY <2>1, KeepingAppend
  <2>4. ToSet(r) = ToSet(t) \cup {p} /\ (IsInjective(r) <=> IsInjective(t) /\ p \notin ToSet(t))
    BY <2>1, PageAtEnd
  <2> DEFINE k == Keeping(t, K)
  <2>5. /\ Append(k, p) \in Seq(Pages)
        /\ ToSet(Append(k, p)) = ToSet(k) \cup {p}
        /\ IsInjective(Append(k, p)) <=> IsInjective(k) /\ p \notin ToSet(k)
    BY <2>2, PageAtEnd
  <2> HIDE DEF k
  <2>6. CASE p \in K
    BY <2>1, <2>2, <2>3, <2>4, <2>5, <2>6 DEF k
  <2>7. CASE p \notin K
    BY <2>1, <2>2, <2>3, <2>4, <2>7
  <2> QED
    BY <2>6, <2>7
<1>3. Len(s) \in Nat
  OBVIOUS
<1> HIDE DEF Q
<1>4. Len(s) \in S
  <2> HIDE DEF S
  <2> QED
    BY <1>1, <1>2, <1>3, InductionOnNat
<1> QED
  BY <1>4 DEF Q

\* What appending a page to a list makes of it.
LEMMA PageAppended ==
  ASSUME NEW t \in Seq(Pages), NEW q \in Pages
  PROVE  /\ Append(t, q) \in Seq(Pages)
         /\ Len(Append(t, q)) = Len(t) + 1
         /\ Append(t, q)[Len(t) + 1] = q
         /\ \A k \in 1 .. Len(t) : Append(t, q)[k] = t[k]
BY AppendProperties

\* A page appended to the second of two lists is appended to both together.
LEMMA AppendToBoth ==
  ASSUME NEW a \in Seq(Pages), NEW b \in Seq(Pages), NEW q \in Pages
  PROVE  a \o Append(b, q) = Append(a \o b, q)
<1>1. <<q>> \in Seq(Pages) /\ a \o b \in Seq(Pages)
  OBVIOUS
<1>2. Append(b, q) = b \o <<q>>
  BY AppendIsConcat
<1>3. Append(a \o b, q) = (a \o b) \o <<q>>
  <2> DEFINE c == a \o b
  <2>1. c \in Seq(Pages)
    BY <1>1
  <2> HIDE DEF c
  <2>2. Append(c, q) = c \o <<q>>
    BY <2>1, AppendIsConcat
  <2> QED
    BY <2>2 DEF c
<1>4. (a \o b) \o <<q>> = a \o (b \o <<q>>)
  <2> DEFINE c == <<q>>
  <2>1. c \in Seq(Pages)
    BY <1>1
  <2> HIDE DEF c
  <2>2. (a \o b) \o c = a \o (b \o c)
    BY <2>1, ConcatAssociative
  <2> QED
    BY <2>2 DEF c
<1> QED
  BY <1>2, <1>3, <1>4

\* The rest of a list to which a page was appended.
LEMMA RestOfAppend ==
  ASSUME NEW t \in Seq(Pages), NEW q \in Pages, NEW i \in 1 .. Len(t) + 1
  PROVE  SubSeq(Append(t, q), i, Len(t) + 1) = Append(SubSeq(t, i, Len(t)), q)
<1> DEFINE x == SubSeq(Append(t, q), i, Len(t) + 1)
           b == SubSeq(t, i, Len(t))
           y == Append(b, q)
<1>1. PICK n \in Nat : n = Len(t)
  OBVIOUS
<1>2. i \in Nat /\ 1 <= i /\ i <= n + 1
  BY <1>1
<1>3. /\ b \in Seq(Pages) /\ Len(b) = n - i + 1
      /\ \A k \in 1 .. n - i + 1 : b[k] = t[i + k - 1]
  <2>1. b = [k \in 1 .. n - i + 1 |-> t[i + k - 1]]
    BY <1>1, <1>2
  <2>2. \A k \in 1 .. n - i + 1 : t[i + k - 1] \in Pages
    <3>1. \A k \in 1 .. n - i + 1 : i + k - 1 \in 1 .. n
      BY <1>2
    <3> QED
      BY <1>1, <3>1
  <2>3. n - i + 1 \in Nat
    BY <1>2
  <2> HIDE DEF b
  <2> QED
    BY <2>1, <2>2, <2>3
<1> HIDE DEF b
<1>4. /\ y \in Seq(Pages) /\ Len(y) = n - i + 2 /\ y[n - i + 2] = q
      /\ \A k \in 1 .. n - i + 1 : y[k] = b[k]
  <2>1. y \in Seq(Pages) /\ Len(y) = Len(b) + 1 /\ y[Len(b) + 1] = q /\ \A k \in 1 .. Len(b) : y[k] = b[k]
    BY <1>3, PageAppended
  <2>2. Len(b) + 1 = n - i + 2 /\ Len(b) = n - i + 1
    BY <1>2, <1>3
  <2> HIDE DEF y
  <2> QED
    BY <2>1, <2>2
<1> HIDE DEF y
<1> DEFINE r == Append(t, q)
<1>5. r \in Seq(Pages) /\ Len(r) = n + 1 /\ r[n + 1] = q /\ \A k \in 1 .. n : r[k] = t[k]
  <2>1. /\ r \in Seq(Pages) /\ Len(r) = Len(t) + 1 /\ r[Len(t) + 1] = q
        /\ \A k \in 1 .. Len(t) : r[k] = t[k]
    BY PageAppended
  <2> QED
    BY <1>1, <2>1
<1>6. /\ x \in Seq(Pages) /\ Len(x) = n - i + 2
      /\ \A k \in 1 .. n - i + 2 : x[k] = r[i + k - 1]
  <2> HIDE DEF r
  <2>1. x = SubSeq(r, i, n + 1)
    BY <1>1 DEF r
  <2>2. x = [k \in 1 .. (n + 1) - i + 1 |-> r[i + k - 1]]
    BY <1>2, <1>5, <2>1
  <2>3. (n + 1) - i + 1 = n - i + 2 /\ n - i + 2 \in Nat
    BY <1>2
  <2>4. \A k \in 1 .. n - i + 2 : r[i + k - 1] \in Pages
    <3>1. \A k \in 1 .. n - i + 2 : i + k - 1 \in 1 .. n + 1
      BY <1>2
    <3> QED
      BY <1>5, <3>1
  <2> HIDE DEF x
  <2> QED
    BY <2>2, <2>3, <2>4
<1> HIDE DEF x, r
<1>7. ASSUME NEW k \in 1 .. n - i + 2 PROVE x[k] = y[k]
  <2>1. CASE k = n - i + 2
    <3>1. i + k - 1 = n + 1
      BY <1>2, <2>1
    <3> QED
      BY <1>4, <1>5, <1>6, <2>1, <3>1
  <2>2. CASE k # n - i + 2
    <3>1. k \in 1 .. n - i + 1 /\ i + k - 1 \in 1 .. n
      BY <1>2, <2>2
    <3> QED
      BY <1>3, <1>4, <1>5, <1>6, <3>1
  <2> QED
    BY <2>1, <2>2
<1>8. x = y
  BY <1>4, <1>6, <1>7, SeqEqual
<1> QED
  BY <1>8 DEF x, y, b

\* A page that is not kept makes no difference.
LEMMA KeepingWithout ==
  ASSUME NEW s \in Seq(Pages), IsInjective(s), NEW K, NEW p \in ToSet(s), p \notin K
  PROVE  Keeping(WithoutPage(s, p), K) = Keeping(s, K)
<1> DEFINE Q(r) == \A j \in 1 .. Len(r) : r[j] \notin K => Keeping(RemoveAt(r, j), K) = Keeping(r, K)
           S == {n \in Nat : \A r \in Seq(Pages) : Len(r) = n => Q(r)}
<1>1. 0 \in S
  OBVIOUS
<1>2. ASSUME NEW n \in Nat, n \in S PROVE n + 1 \in S
  <2> SUFFICES ASSUME NEW r \in Seq(Pages), Len(r) = n + 1, NEW j \in 1 .. Len(r), r[j] \notin K
               PROVE  Keeping(RemoveAt(r, j), K) = Keeping(r, K)
    OBVIOUS
  <2>1. PICK t \in Seq(Pages), q \in Pages : r = Append(t, q) /\ Len(t) = n
    BY LastPage
  <2>2. Keeping(r, K) = IF q \in K THEN Append(Keeping(t, K), q) ELSE Keeping(t, K)
    BY <2>1, KeepingAppend
  <2>3. CASE j = n + 1
    <3>1. RemoveAt(r, j) = t
      <4>1. SubSeq(r, 1, n) = t
        BY <2>1
      <4>2. SubSeq(r, n + 2, n + 1) = <<>>
        BY <2>1
      <4>3. RemoveAt(r, j) = SubSeq(r, 1, n) \o SubSeq(r, n + 2, n + 1)
        BY <2>1, <2>3 DEF RemoveAt
      <4> QED
        BY <4>1, <4>2, <4>3
    <3>2. q \notin K
      BY <2>1, <2>3
    <3> QED
      BY <2>2, <3>1, <3>2
  <2>4. CASE j # n + 1
    <3>1. j \in 1 .. n /\ t[j] \notin K
      BY <2>1, <2>4
    <3> DEFINE a == SubSeq(t, 1, j - 1)
               b == SubSeq(t, j + 1, n)
    <3>2. a \in Seq(Pages) /\ b \in Seq(Pages) /\ a \o b \in Seq(Pages)
      BY <2>1, <3>1
    <3>3. SubSeq(r, 1, j - 1) = a /\ SubSeq(r, j + 1, n + 1) = Append(b, q)
      <4>1. SubSeq(r, 1, j - 1) = a
        BY <2>1, <3>1
      <4>2. SubSeq(r, j + 1, n + 1) = Append(b, q)
        <5>1. j + 1 \in 1 .. Len(t) + 1
          BY <2>1, <3>1
        <5> QED
          BY <2>1, <5>1, RestOfAppend
      <4> QED
        BY <4>1, <4>2
    <3>4. RemoveAt(r, j) = a \o Append(b, q) /\ RemoveAt(t, j) = a \o b
      BY <2>1, <3>1, <3>3 DEF RemoveAt
    <3> HIDE DEF a, b
    <3>5. a \o Append(b, q) = Append(a \o b, q)
      BY <3>2, AppendToBoth
    <3>6. RemoveAt(t, j) \in Seq(Pages) /\ RemoveAt(r, j) = Append(RemoveAt(t, j), q)
      BY <3>2, <3>4, <3>5
    <3>7. Keeping(RemoveAt(t, j), K) = Keeping(t, K)
      BY <1>2, <2>1, <3>1
    <3>8. Keeping(RemoveAt(r, j), K)
            = IF q \in K THEN Append(Keeping(RemoveAt(t, j), K), q) ELSE Keeping(RemoveAt(t, j), K)
      <4> DEFINE u == RemoveAt(t, j)
      <4>1. u \in Seq(Pages) /\ RemoveAt(r, j) = Append(u, q)
        BY <3>6
      <4> HIDE DEF u
      <4>2. Keeping(Append(u, q), K) = IF q \in K THEN Append(Keeping(u, K), q) ELSE Keeping(u, K)
        BY <4>1, KeepingAppend
      <4> QED
        BY <4>1, <4>2 DEF u
    <3> QED
      BY <2>2, <3>7, <3>8
  <2> QED
    BY <2>3, <2>4
<1>3. Len(s) \in Nat
  OBVIOUS
<1>4. Len(s) \in S
  <2> HIDE DEF S
  <2> QED
    BY <1>1, <1>2, <1>3, InductionOnNat
<1>5. PICK j \in 1 .. Len(s) : s[j] = p /\ (CHOOSE i \in DOMAIN s : s[i] = p) = j
  <2>1. DOMAIN s = 1 .. Len(s)
    OBVIOUS
  <2> QED
    BY <2>1 DEF ToSet
<1>6. WithoutPage(s, p) = RemoveAt(s, j)
  BY <1>5 DEF WithoutPage
<1> QED
  BY <1>4, <1>5, <1>6

-----------------------------------------------------------------------------
(* The table that resize leaves                                            *)

\* Limited, the minimum depth that it has lowered being given.
LimitedTo(low, table, depth) ==
  LET times == IF table.global_depth > depth THEN table.global_depth - depth ELSE 0
      shrunk[n \in 0 .. times] ==
        IF n = 0 THEN table
        ELSE IF MayShrink(shrunk[n - 1], low) THEN Shrunk(shrunk[n - 1], low)
        ELSE shrunk[n - 1]
  IN  shrunk[times]

\* Limited is that, before a step and after it.
LEMMA LimitedIs ==
  /\ \A t, d : Limited(t, d) = LimitedTo(IF min_depth > d THEN d ELSE min_depth, t, d)
  /\ Limited(TableLeft, NewLimit)'
       = LimitedTo(IF min_depth' > NewLimit' THEN NewLimit' ELSE min_depth', TableLeft', NewLimit')
<1>1. \A t, d : Limited(t, d) = LimitedTo(LowerMin(d), t, d)
  BY DEF Limited, LimitedTo
<1>2. Limited(TableLeft, NewLimit)' = LimitedTo(LowerMin(NewLimit)', TableLeft', NewLimit')
  BY DEF Limited, LimitedTo
<1> QED
  BY <1>1, <1>2 DEF LowerMin

\* The table with only some of its pages.
LEMMA TableKept ==
  ASSUME TableInv, NEW K
  PROVE  /\ IsTable(hash, TableOf(K))
         /\ PagesOf(TableOf(K)) = PagesOf(Table) \cap K
         /\ TableOf(K).global_depth = global_depth
         /\ PagesOf(Table) \subseteq K => TableOf(K) = Table
<1> DEFINE t == Table
           b == [a \in DOMAIN t.bucket |->
                   [local_depth |-> t.bucket[a].local_depth, pages |-> Keeping(t.bucket[a].pages, K)]]
           u == [global_depth |-> t.global_depth, buckets |-> t.buckets, bucket |-> b,
                 freed |-> t.freed]
<1>1. /\ IsTable(hash, t) /\ t.global_depth = global_depth
      /\ t = [global_depth |-> t.global_depth, buckets |-> t.buckets, bucket |-> t.bucket,
              freed |-> t.freed]
  BY DEF TableInv, Table
<1> DEFINE c == [a \in DOMAIN t.bucket |-> [t.bucket[a] EXCEPT !.pages = Keeping(@, K)]]
<1>2. TableOf(K) = [t EXCEPT !.bucket = c]
  BY DEF TableOf, Table
<1> HIDE DEF t
<1>3. /\ t.bucket \in [DOMAIN t.bucket -> Bucket]
      /\ \A a \in DOMAIN t.bucket :
           /\ t.bucket[a].local_depth \in Nat
           /\ t.bucket[a].pages \in Seq(Pages)
           /\ t.bucket[a] = [local_depth |-> t.bucket[a].local_depth, pages |-> t.bucket[a].pages]
  <2>1. t.bucket \in [DOMAIN t.bucket -> Bucket]
    BY <1>1, PartsOfTable
  <2> QED
    BY <2>1 DEF Bucket
<1>4. TableOf(K) = u
  <2>1. c = b
    <3> SUFFICES ASSUME NEW a \in DOMAIN t.bucket
                 PROVE  [t.bucket[a] EXCEPT !.pages = Keeping(@, K)]
                          = [local_depth |-> t.bucket[a].local_depth,
                             pages |-> Keeping(t.bucket[a].pages, K)]
      OBVIOUS
    <3> DEFINE r == t.bucket[a]
    <3>1. r = [local_depth |-> r.local_depth, pages |-> r.pages]
      BY <1>3
    <3> HIDE DEF r
    <3>2. [r EXCEPT !.pages = Keeping(@, K)]
            = [local_depth |-> r.local_depth, pages |-> Keeping(r.pages, K)]
      BY <3>1
    <3> QED
      BY <3>2 DEF r
  <2> HIDE DEF b, c
  <2>2. [t EXCEPT !.bucket = b] = [global_depth |-> t.global_depth, buckets |-> t.buckets,
                                   bucket |-> b, freed |-> t.freed]
    BY <1>1
  <2> QED
    BY <1>2, <2>1, <2>2
<1>5. /\ DOMAIN b = DOMAIN t.bucket
      /\ \A a \in DOMAIN t.bucket : /\ b[a].local_depth = t.bucket[a].local_depth
                                    /\ b[a].pages = Keeping(t.bucket[a].pages, K)
  OBVIOUS
<1>6. b \in [DOMAIN t.bucket -> Bucket]
  BY <1>3, KeepingKeeps DEF Bucket
<1>7. /\ DOMAIN u.bucket = DOMAIN t.bucket /\ u.buckets = t.buckets
      /\ u.global_depth = t.global_depth /\ u.bucket = b
  OBVIOUS
<1> HIDE DEF b, u
<1>8. \A a \in DOMAIN t.bucket : PagesAt(u, a) = PagesAt(t, a) \cap K
  BY <1>3, <1>5, <1>7, KeepingKeeps DEF PagesAt
<1>9. IsPlaced(hash, u)
  <2>1. \A a \in DOMAIN t.bucket : IsInjective(t.bucket[a].pages)
    BY <1>1 DEF IsTable, IsPlaced
  <2>2. \A a \in DOMAIN t.bucket : IsInjective(u.bucket[a].pages)
    <3> SUFFICES ASSUME NEW a \in DOMAIN t.bucket PROVE IsInjective(Keeping(t.bucket[a].pages, K))
      BY <1>5, <1>7
    <3>1. t.bucket[a].pages \in Seq(Pages) /\ IsInjective(t.bucket[a].pages)
      BY <1>3, <2>1
    <3> QED
      BY <3>1, KeepingKeeps
  <2>3. \A a \in DOMAIN t.bucket : \A p \in PagesAt(t, a) : t.buckets[hash[p] % 2^t.global_depth] = a
    BY <1>1 DEF IsTable, IsPlaced
  <2> QED
    BY <1>7, <1>8, <2>2, <2>3 DEF IsPlaced
<1>10. IsTable(hash, u)
  <2>1. u = [global_depth |-> t.global_depth, buckets |-> t.buckets, bucket |-> b, freed |-> t.freed]
    BY DEF u
  <2> QED
    BY <1>1, <1>5, <1>6, <1>9, <2>1, SameDirectory
<1>11. PagesOf(u) = PagesOf(t) \cap K
  BY <1>7, <1>8 DEF PagesOf
<1>12. ASSUME PagesOf(t) \subseteq K PROVE u = t
  <2>1. \A a \in DOMAIN t.bucket : ToSet(t.bucket[a].pages) \subseteq K
    BY <1>12 DEF PagesOf, PagesAt
  <2>2. \A a \in DOMAIN t.bucket : Keeping(t.bucket[a].pages, K) = t.bucket[a].pages
    BY <1>3, <2>1, KeepingKeeps
  <2>3. b = t.bucket
    BY <1>3, <2>2 DEF b
  <2> QED
    BY <1>1, <2>3 DEF u
<1> QED
  BY <1>1, <1>4, <1>7, <1>10, <1>11, <1>12 DEF t

\* The hash functions, and the limit of the depth.
LEMMA LimitsOfTable ==
  ASSUME TableInv
  PROVE  /\ \A p \in Pages : hash[p] \in Nat
         /\ min_depth \in Nat /\ max_depth \in Nat /\ global_depth \in Nat
         /\ global_depth <= max_depth
<1>1. \A p \in Pages : hash[p] \in Nat
  BY HashtableAssumption DEF HashtableAssumption, TableInv
<1>2. Table.global_depth \in Nat
  BY PartsOfTable DEF TableInv
<1> QED
  BY <1>1, <1>2 DEF TableInv, Table

\* Shrinking it after evicting moves no page to another table.
LEMMA TableAfterEvicting ==
  ASSUME TableInv, NEW t, IsTable(hash, t), NEW evicts \in BOOLEAN,
         evicts => MayShrink(t, min_depth) /\ (t.global_depth > 0 \/ min_depth = 0)
  PROVE  /\ IsTable(hash, AfterEvicting(t, evicts))
         /\ PagesOf(AfterEvicting(t, evicts)) = PagesOf(t)
<1>1. CASE ~ evicts \/ t.global_depth = min_depth
  BY <1>1 DEF AfterEvicting, Shrunk
<1>2. CASE evicts /\ t.global_depth # min_depth
  <2>1. ShrinkIsDefined(t)
    BY <1>2 DEF MayShrink
  <2>2. t.global_depth \in Nat
    BY PartsOfTable
  <2>3. t.global_depth >= 1
    BY <1>2, <2>2
  <2>4. IsTable(hash, Shrunk(t, min_depth)) /\ PagesOf(Shrunk(t, min_depth)) = PagesOf(t)
    BY <1>2, <2>1, <2>3, LimitsOfTable, ShrunkTable
  <2> QED
    BY <1>2, <2>4 DEF AfterEvicting
<1> QED
  BY <1>1, <1>2

\* Nor does limiting its depth.
LEMMA TableAfterLimit ==
  ASSUME TableInv, NEW t, IsTable(hash, t), NEW d \in Nat, MayLimit(t, d)
  PROVE  /\ IsTable(hash, Limited(t, d))
         /\ PagesOf(Limited(t, d)) = PagesOf(t)
         /\ Limited(t, d).global_depth \in Nat
         /\ Limited(t, d).global_depth <= d
<1>1. IsTable(hash, Limited(t, d)) /\ PagesOf(Limited(t, d)) = PagesOf(t)
  BY LimitsOfTable, LimitedTable
<1>2. Limited(t, d).global_depth \in Nat
  BY <1>1, PartsOfTable
<1> QED
  BY <1>1, <1>2 DEF MayLimit

-----------------------------------------------------------------------------
(* The steps                                                               *)

\* What the invariant says of the list, the table and the pages between calls.
LEMMA PoolParts ==
  ASSUME PoolInv
  PROVE  /\ HashtableInv /\ TableInv /\ List!ListInv
         /\ lru!Order \in Seq(Pages) /\ IsInjective(lru!Order) /\ Len(lru!Order) \in Nat
         /\ DOMAIN node_map = ToSet(lru!Order)
         /\ Stored = PagesOf(Table) /\ IsFiniteSet(Stored)
         /\ size \in Nat /\ size = Cardinality(Stored)
         /\ inserting = none => /\ Stored = ToSet(lru!Order) /\ size = Len(lru!Order)
                                /\ Held = Stored
<1>1. HashtableInv /\ TableInv /\ List!ListInv /\ InStep
  BY DEF PoolInv, HashtableInv
<1>2. /\ lru!Order \in Seq(Pages) /\ IsInjective(lru!Order) /\ DOMAIN node_map = ToSet(lru!Order)
      /\ Cardinality(DOMAIN node_map) = Len(lru!Order)
  BY <1>1, ListParts DEF List!ListInv
<1>3. Stored = PagesOf(Table) /\ IsFiniteSet(Stored) /\ size \in Nat /\ size = Cardinality(Stored)
  <2>1. Stored = PagesOf(Table)
    BY StoredPages
  <2>2. IsFiniteSet(PagesOf(Table)) /\ size = Cardinality(PagesOf(Table))
    BY <1>1 DEF TableInv
  <2> QED
    BY <1>1, <2>1, <2>2, HeldCounted
<1>4. ASSUME inserting = none PROVE Stored = DOMAIN node_map /\ Held = Stored
  <2>1. pending = <<>> /\ Stored = DOMAIN node_map
    BY <1>1, <1>4 DEF InStep
  <2>2. ToSet(<<>>) = {}
    BY DEF ToSet
  <2> QED
    BY <2>1, <2>2 DEF Held
<1>5. Len(lru!Order) \in Nat
  BY <1>2
<1> HIDE DEF InStep
<1> QED
  BY <1>1, <1>2, <1>3, <1>4, <1>5

\* The pages after a step.
LEMMA PagesNext ==
  /\ Stored' = PagesOf(Table)'
  /\ Held' = PagesOf(Table)' \cup ToSet(pending')
BY DEF Stored, StoredAt, PagesOf, PagesAt, Table, Held

\* A step that leaves the table alone.
LEMMA SameTable ==
  ASSUME HashtableInv, UNCHANGED hashtable_vars
  PROVE  /\ HashtableInv' /\ Stored' = Stored /\ Held' = Held
         /\ UNCHANGED <<min_depth, max_depth, global_depth>>
BY DEF hashtable_vars, table_vars, limits, TableInv, HashtableInv, Table, Stored, StoredAt, Held

\* A page is looked up.
LEMMA InvGet ==
  ASSUME PoolInv, NEW page \in Pages, Get(page)
  PROVE  PoolInv'
<1>1. /\ Idle /\ lru!Update(page)
      /\ UNCHANGED <<hashtable_vars, inserting, resizing, ceiling>>
  BY DEF Get
<1>2. HashtableInv /\ List!ListInv
  BY PoolParts
<1>3. List!ListInv' /\ DOMAIN node_map' = DOMAIN node_map
  BY <1>1, <1>2, ListUpdate
<1>4. /\ HashtableInv' /\ Stored' = Stored /\ Held' = Held
      /\ UNCHANGED <<min_depth, max_depth, global_depth>>
  BY <1>1, <1>2, SameTable
<1>5. InStep'
  <2>1. InStep /\ inserting = none /\ pending = <<>> /\ UNCHANGED <<inserting, pending>>
    BY <1>1 DEF PoolInv, Idle, hashtable_vars
  <2> QED
    BY <1>3, <1>4, <2>1 DEF InStep
<1>6. ResizeOK'
  BY <1>1 DEF Idle, ResizeOK
<1>7. RoomOK'
  <2>1. RoomOK /\ UNCHANGED <<ceiling, resizing>>
    BY <1>1 DEF PoolInv
  <2> QED
    BY <1>4, <2>1 DEF RoomOK
<1> QED
  BY <1>3, <1>4, <1>5, <1>6, <1>7 DEF PoolInv

\* The table and the list still have the same pages, and there is room for the
\* page that is to be inserted.
LEMMA RoomMade ==
  ASSUME PoolInv, NEW page \in Pages, Idle,
         inserting' = page, pending' = <<page>>, UNCHANGED <<max_depth, resizing, ceiling>>,
         TableInv', List!ListInv', page \notin DOMAIN node_map',
         DOMAIN node_map' = PagesOf(Table)',
         size' + 1 + max_depth - global_depth' <= ceiling
  PROVE  PoolInv'
<1>1. page # none /\ resizing = NoResize
  BY BufferPoolAssumption DEF BufferPoolAssumption, Idle
<1>2. <<page>> \in Seq(Pages) /\ IsInjective(<<page>>) /\ ToSet(<<page>>) = {page}
  BY DEF IsInjective, ToSet
<1>3. HashtableInv'
  BY <1>2 DEF HashtableInv
<1>4. Held' = DOMAIN node_map' \cup {page}
  BY <1>2, PagesNext
<1>5. InStep'
  BY <1>1, <1>4 DEF InStep
<1>6. ResizeOK'
  BY <1>1 DEF ResizeOK
<1>7. Cardinality(Held') = size' + 1
  <2>1. IsFiniteSet(PagesOf(Table)') /\ size' = Cardinality(PagesOf(Table)')
    BY DEF TableInv
  <2> QED
    BY <1>4, <2>1, FS_AddElement
<1>8. RoomOK'
  <2>1. RoomOK
    BY DEF PoolInv
  <2> QED
    BY <1>1, <1>7, <2>1 DEF RoomOK
<1> QED
  BY <1>3, <1>5, <1>6, <1>8 DEF PoolInv

\* A page is evicted from the list and the table.
LEMMA InvEvict ==
  ASSUME PoolInv, SafeUse, inserting = none, Evict
  PROVE  /\ lru!Order # <<>> /\ lru!EvictedKey = lru!Order[Len(lru!Order)]
         /\ lru!Order' = Front(lru!Order) /\ List!ListInv' /\ TableInv'
         /\ RemovePage(lru!EvictedKey)
         /\ DOMAIN node_map' = PagesOf(Table)'
         /\ DOMAIN node_map' = DOMAIN node_map \ {lru!EvictedKey}
         /\ size' = size - 1 /\ UNCHANGED <<hash, limits, global_depth, buckets, freed>>
<1> DEFINE e == lru!EvictedKey
<1>1. lru!Evict /\ RemovePage(e)
  BY DEF Evict
<1>2. TableInv /\ List!ListInv /\ DOMAIN node_map = PagesOf(Table) /\ DOMAIN node_map \subseteq Pages
  <2>1. lru!Order \in Seq(Pages) /\ DOMAIN node_map = ToSet(lru!Order)
    BY PoolParts
  <2>2. ToSet(lru!Order) \subseteq Pages
    BY <2>1 DEF ToSet
  <2> QED
    BY <2>1, <2>2, PoolParts
<1>3. /\ List!ListInv' /\ lru!Order # <<>> /\ e = lru!Order[Len(lru!Order)]
      /\ lru!Order' = Front(lru!Order) /\ DOMAIN node_map' = DOMAIN node_map \ {e}
  BY <1>1, <1>2, ListEvict
<1>4. e \in Pages
  <2>1. lru!Order \in Seq(Pages)
    BY PoolParts
  <2> QED
    BY <1>3, <2>1
<1>5. TableInv' /\ PagesOf(Table)' = PagesOf(Table) \ {e}
  BY <1>1, <1>2, <1>4, InvRemovePage
<1>6. size' = size - 1 /\ UNCHANGED <<hash, limits, global_depth, buckets, freed>>
  BY <1>1 DEF RemovePage
<1> HIDE DEF e
<1> QED
  BY <1>1, <1>2, <1>3, <1>5, <1>6 DEF e

\* insert makes room: there are never more pages than the ceiling allows, and a
\* page is only evicted when the pool is full.
LEMMA InvMakeRoom ==
  ASSUME PoolInv, SafeUse, NEW page \in Pages, MakeRoom(page)
  PROVE  /\ PoolInv'
         /\ page \notin ToSet(lru!Order)
         /\ UNCHANGED max_depth
         /\ \/ lru!Order' = lru!Order /\ Len(lru!Order) < ceiling
            \/ /\ lru!Order # <<>> /\ lru!Order' = Front(lru!Order)
               /\ Len(lru!Order) >= Capacity(max_depth)
<1>1. /\ Idle /\ ~ GetPage(page) /\ inserting' = page /\ pending' = <<page>>
      /\ UNCHANGED <<resizing, ceiling>>
  BY DEF MakeRoom, BeginInsert
<1>2. /\ inserting = none /\ resizing = NoResize
      /\ TableInv /\ HashtableInv /\ List!ListInv /\ DOMAIN node_map = PagesOf(Table)
      /\ DOMAIN node_map = ToSet(lru!Order)
      /\ size \in Nat /\ size = Len(lru!Order) /\ Cardinality(Held) = size
  BY <1>1, PoolParts DEF Idle
<1>3. page \notin DOMAIN node_map
  BY <1>1, <1>2, PagesFound
<1>4. global_depth \in Nat /\ max_depth \in Nat /\ global_depth <= max_depth
  BY <1>2, LimitsOfTable
<1>5. ceiling \in Nat /\ Capacity(max_depth) <= ceiling /\ size + max_depth - global_depth <= ceiling
  BY <1>2 DEF PoolInv, RoomOK
<1>6. PastThreshold(size, 2^global_depth) <=> size >= Capacity(global_depth)
  BY <1>2, <1>4, ThresholdIsCapacity
<1>7. /\ Capacity(global_depth) \in Nat /\ Capacity(max_depth) \in Nat
      /\ Capacity(global_depth) + (max_depth - global_depth) <= Capacity(max_depth)
  BY <1>4, CapacityGrows
<1> HIDE DEF Capacity, PastThreshold
<1>8. CASE MustEvict
  <2>1. Evict
    BY <1>8 DEF MakeRoom
  <2>2. size >= Capacity(max_depth)
    BY <1>6, <1>8 DEF MustEvict
  <2>3. /\ lru!Order # <<>> /\ lru!Order' = Front(lru!Order) /\ List!ListInv' /\ TableInv'
        /\ DOMAIN node_map' = PagesOf(Table)' /\ DOMAIN node_map' \subseteq DOMAIN node_map
        /\ size' = size - 1 /\ UNCHANGED <<limits, global_depth>>
    BY <1>2, <2>1, InvEvict
  <2>4. UNCHANGED max_depth
    BY <2>3 DEF limits
  <2>5. size' + 1 + max_depth - global_depth' <= ceiling
    BY <1>2, <1>4, <1>5, <2>3
  <2>6. PoolInv'
    BY <1>1, <1>3, <2>3, <2>4, <2>5, RoomMade
  <2> QED
    BY <1>2, <1>3, <2>2, <2>3, <2>4, <2>6
<1>9. CASE ~ MustEvict
  <2>1. UNCHANGED <<node_map, front, rear, heap>>
    BY <1>9 DEF MakeRoom
  <2>2. List!IsList(node_map', front', rear', heap', lru!Order)
    BY <1>2, <2>1 DEF List!ListInv
  <2>3. List!ListInv' /\ lru!Order' = lru!Order /\ DOMAIN node_map' = DOMAIN node_map
    BY <2>1, <2>2, ListNext
  <2>4. /\ TableInv' /\ PagesOf(Table)' = PagesOf(Table)
        /\ UNCHANGED <<max_depth, size>>
        /\ size + 1 + max_depth - global_depth' <= ceiling
    <3>1. CASE PastThreshold(size, 2^global_depth)
      <4>1. ExpandDirectory
        BY <1>9, <3>1 DEF MakeRoom
      <4>2. UNCHANGED <<max_depth, size>> /\ global_depth' = global_depth + 1
        BY <4>1 DEF ExpandDirectory, limits
      <4>3. size + 1 + max_depth - global_depth' <= ceiling
        BY <1>2, <1>4, <1>5, <4>2
      <4> QED
        BY <1>2, <4>1, <4>2, <4>3, InvExpandDirectory
    <3>2. CASE ~ PastThreshold(size, 2^global_depth)
      <4>1. UNCHANGED <<hash, table_vars>>
        BY <1>9, <3>2 DEF MakeRoom
      <4>2. UNCHANGED <<hash, min_depth, max_depth, size, global_depth>> /\ Table' = Table
        BY <4>1 DEF table_vars, limits, Table
      <4>3. TableInv' /\ PagesOf(Table)' = PagesOf(Table)
        BY <1>2, <4>2 DEF TableInv
      <4>4. size + 1 <= Capacity(global_depth)
        BY <1>2, <1>6, <1>7, <3>2
      <4>5. size + 1 + max_depth - global_depth' <= ceiling
        BY <1>2, <1>4, <1>5, <1>7, <4>2, <4>4
      <4> QED
        BY <4>2, <4>3, <4>5
    <3> QED
      BY <3>1, <3>2
  <2>5. PoolInv'
    <3>1. DOMAIN node_map' = PagesOf(Table)' /\ page \notin DOMAIN node_map'
      BY <1>2, <1>3, <2>3, <2>4
    <3>2. size' + 1 + max_depth - global_depth' <= ceiling
      BY <2>4
    <3> QED
      BY <1>1, <2>3, <2>4, <3>1, <3>2, RoomMade
  <2>6. Len(lru!Order) < ceiling
    <3>1. global_depth' \in Nat /\ global_depth' <= max_depth'
      BY <2>4, PartsOfTable DEF TableInv, Table
    <3> QED
      BY <1>2, <1>4, <1>5, <2>4, <3>1
  <2> QED
    BY <1>2, <1>3, <2>3, <2>4, <2>5, <2>6
<1> QED
  BY <1>8, <1>9

\* A step that leaves the list alone.
LEMMA SameList ==
  ASSUME List!ListInv, UNCHANGED <<node_map, front, rear, heap>>
  PROVE  List!ListInv' /\ lru!Order' = lru!Order
<1>1. List!IsList(node_map', front', rear', heap', lru!Order)
  BY DEF List!ListInv
<1> QED
  BY <1>1, ListNext

\* A page is placed in the table.
LEMMA InvPlace ==
  ASSUME PoolInv, Place
  PROVE  PoolInv' /\ lru!Order' = lru!Order /\ UNCHANGED max_depth
<1>1. /\ PlacePage /\ pending # <<>>
      /\ UNCHANGED <<node_map, front, rear, heap, inserting, resizing, ceiling>>
  BY DEF Place, PlacePage
<1>2. /\ HashtableInv /\ List!ListInv /\ InStep /\ ResizeOK /\ RoomOK
      /\ inserting # none /\ resizing = NoResize
  BY <1>1 DEF PoolInv, InStep, ResizeOK
<1>3. HashtableInv' /\ Held' = Held
  BY <1>1, <1>2, InvPlacePage
<1>4. UNCHANGED <<max_depth, global_depth>>
  BY <1>1 DEF PlacePage, limits
<1>5. List!ListInv' /\ lru!Order' = lru!Order
  BY <1>1, <1>2, SameList
<1>6. InStep'
  BY <1>1, <1>2, <1>3 DEF InStep
<1>7. ResizeOK'
  BY <1>1, <1>2 DEF ResizeOK
<1>8. RoomOK'
  BY <1>1, <1>2, <1>3, <1>4 DEF RoomOK
<1> QED
  BY <1>3, <1>4, <1>5, <1>6, <1>7, <1>8 DEF PoolInv

\* The page that has been placed is put in front of the list.
LEMMA InvEnlist ==
  ASSUME PoolInv, Enlist
  PROVE  /\ PoolInv' /\ UNCHANGED max_depth
         /\ resizing = NoResize
         /\ lru!Order' = <<inserting>> \o lru!Order
<1>1. /\ inserting # none /\ pending = <<>> /\ lru!Insert(inserting) /\ inserting' = none
      /\ UNCHANGED <<hashtable_vars, resizing, ceiling>>
  BY DEF Enlist
<1>2. /\ HashtableInv /\ List!ListInv /\ RoomOK /\ inserting \in Pages /\ resizing = NoResize
      /\ Held = DOMAIN node_map \cup {inserting}
  BY <1>1 DEF PoolInv, InStep, ResizeOK
<1>3. Held = Stored
  <2>1. ToSet(<<>>) = {}
    BY DEF ToSet
  <2> QED
    BY <1>1, <2>1 DEF Held
<1>4. /\ HashtableInv' /\ Stored' = Stored /\ Held' = Held
      /\ UNCHANGED <<min_depth, max_depth, global_depth, pending>>
  BY <1>1, <1>2, SameTable DEF hashtable_vars
<1>5. /\ List!ListInv' /\ lru!Order' = <<inserting>> \o lru!Order
      /\ DOMAIN node_map' = {inserting} \cup DOMAIN node_map
  BY <1>1, <1>2, ListInsert
<1>6. InStep'
  BY <1>1, <1>2, <1>3, <1>4, <1>5 DEF InStep
<1>7. ResizeOK'
  BY <1>1, <1>2 DEF ResizeOK
<1>8. RoomOK'
  BY <1>1, <1>2, <1>4 DEF RoomOK
<1> QED
  BY <1>2, <1>4, <1>5, <1>6, <1>7, <1>8 DEF PoolInv

\* A page is removed from the table and the list.
LEMMA InvDiscard ==
  ASSUME PoolInv, SafeUse, NEW page \in Pages, Discard(page)
  PROVE  /\ PoolInv' /\ UNCHANGED max_depth
         /\ page \in ToSet(lru!Order) /\ lru!Order' = WithoutPage(lru!Order, page)
<1>1. /\ Idle /\ RemovePage(page) /\ lru!Remove(page)
      /\ UNCHANGED <<pending, inserting, resizing, ceiling>>
  BY DEF Discard
<1>2. /\ inserting = none /\ pending = <<>> /\ resizing = NoResize /\ RoomOK
      /\ TableInv /\ List!ListInv /\ DOMAIN node_map = PagesOf(Table)
      /\ size \in Nat /\ Cardinality(Held) = size
  BY <1>1, PoolParts DEF Idle, PoolInv
<1>3. TableInv' /\ PagesOf(Table)' = PagesOf(Table) \ {page}
  BY <1>1, <1>2, InvRemovePage
<1>4. size' = size - 1 /\ UNCHANGED <<min_depth, max_depth, global_depth>>
  BY <1>1 DEF RemovePage, limits
<1>5. /\ List!ListInv' /\ page \in ToSet(lru!Order) /\ lru!Order' = WithoutPage(lru!Order, page)
      /\ DOMAIN node_map' = DOMAIN node_map \ {page}
  BY <1>1, <1>2, ListRemove
<1>6. pending' = <<>> /\ ToSet(<<>>) = {}
  BY <1>1, <1>2 DEF ToSet
<1>7. HashtableInv'
  <2>1. <<>> \in Seq(Pages) /\ IsInjective(<<>>)
    BY DEF IsInjective
  <2> QED
    BY <1>3, <1>6, <2>1 DEF HashtableInv
<1>8. Stored' = PagesOf(Table)' /\ Held' = PagesOf(Table)'
  BY <1>6, PagesNext
<1>9. InStep'
  BY <1>1, <1>2, <1>3, <1>5, <1>6, <1>8 DEF InStep
<1>10. ResizeOK'
  BY <1>1, <1>2 DEF ResizeOK
<1>11. RoomOK'
  <2>1. Cardinality(Held') = size - 1
    BY <1>3, <1>4, <1>8 DEF TableInv
  <2>2. global_depth \in Nat /\ max_depth \in Nat
    BY <1>2, LimitsOfTable
  <2>3. ceiling \in Nat /\ size + max_depth - global_depth <= ceiling
    BY <1>2 DEF RoomOK
  <2>4. size - 1 + max_depth - global_depth <= ceiling
    BY <1>2, <2>2, <2>3
  <2> QED
    BY <1>1, <1>2, <1>4, <2>1, <2>4 DEF RoomOK
<1> QED
  BY <1>4, <1>5, <1>7, <1>9, <1>10, <1>11 DEF PoolInv

-----------------------------------------------------------------------------
(* The steps of resize                                                     *)

\* A list without its last n pages.
FirstOf(s, n) == SubSeq(s, 1, Len(s) - n)

\* They have all pages but those n, and an eviction takes none of them.
LEMMA FirstPages ==
  ASSUME NEW s \in Seq(Pages), IsInjective(s), NEW n \in Nat, n <= Len(s)
  PROVE  /\ FirstOf(s, n) \in Seq(Pages) /\ Len(FirstOf(s, n)) = Len(s) - n
         /\ ToSet(FirstOf(s, n)) \subseteq ToSet(s)
         /\ IsFiniteSet(ToSet(FirstOf(s, n))) /\ Cardinality(ToSet(FirstOf(s, n))) = Len(s) - n
         /\ n = 0 => FirstOf(s, n) = s
         /\ n > 0 => /\ s # <<>> /\ s[Len(s)] \notin ToSet(FirstOf(s, n))
                     /\ FirstOf(Front(s), n - 1) = FirstOf(s, n)
<1>1. PICK N \in Nat : N = Len(s)
  BY Len(s) \in Nat
<1>2. PICK m \in Nat : m = N - n
  <2>1. N - n \in Nat
    BY <1>1
  <2> QED
    BY <2>1
<1> DEFINE first == FirstOf(s, n)
<1>3. DOMAIN s = 1 .. N /\ m <= N
  BY <1>1, <1>2
<1>4. first = SubSeq(s, 1, m)
  BY <1>1, <1>2 DEF FirstOf
<1>5. first \in Seq(Pages) /\ Len(first) = m /\ \A i \in 1 .. m : first[i] = s[i]
  <2> HIDE DEF first
  <2> QED
    BY <1>1, <1>3, <1>4
<1>6. DOMAIN first = 1 .. m /\ \A i \in 1 .. m : i \in DOMAIN s
  <2> HIDE DEF first
  <2> QED
    BY <1>3, <1>5
<1> HIDE DEF first
<1>7. ToSet(first) \subseteq ToSet(s)
  BY <1>5, <1>6 DEF ToSet
<1>8. IsInjective(first)
  BY <1>5, <1>6 DEF IsInjective
<1>9. IsFiniteSet(ToSet(first)) /\ Cardinality(ToSet(first)) = m
  BY <1>5, <1>8, PagesCounted
<1>10. ASSUME n = 0 PROVE first = s
  <2>1. m = Len(s)
    BY <1>1, <1>2, <1>10
  <2> QED
    BY <1>4, <2>1
<1>11. ASSUME n > 0
       PROVE  /\ s # <<>> /\ s[Len(s)] \notin ToSet(first)
              /\ FirstOf(Front(s), n - 1) = first
  <2>1. N # 0 /\ N \in 1 .. N /\ \A i \in 1 .. m : i # N
    BY <1>1, <1>2, <1>11
  <2>2. s # <<>>
    BY <1>1, <2>1
  <2>3. s[N] \notin ToSet(first)
    BY <1>3, <1>5, <1>6, <2>1 DEF ToSet, IsInjective
  <2> DEFINE u == Front(s)
  <2>4. u \in Seq(Pages) /\ Len(u) = N - 1 /\ \A i \in 1 .. N - 1 : u[i] = s[i]
    BY <1>1, <2>2, PagesButLast
  <2> HIDE DEF u
  <2>5. Len(u) - (n - 1) = m /\ m <= Len(u) /\ \A i \in 1 .. m : u[i] = s[i]
    BY <1>1, <1>2, <1>11, <2>4
  <2>6. SubSeq(u, 1, m) = first
    BY <1>3, <1>4, <2>4, <2>5
  <2>7. FirstOf(u, n - 1) = first
    BY <2>5, <2>6 DEF FirstOf
  <2> QED
    BY <1>1, <2>2, <2>3, <2>7 DEF u
<1> QED
  BY <1>1, <1>2, <1>5, <1>7, <1>9, <1>10, <1>11 DEF first

\* What is kept and the limit after a step decide what the step leaves of a
\* table.
LEMMA LimitedNext ==
  ASSUME NEW t, NEW d, TableLeft' = t, NewLimit' = d, UNCHANGED min_depth
  PROVE  /\ Limited(TableLeft, NewLimit)' = Limited(t, d)
         /\ MayLimit(TableLeft, NewLimit)' <=> MayLimit(t, d)
<1>1. Limited(TableLeft, NewLimit)' = Limited(t, d)
  BY LimitedIs
<1> QED
  BY <1>1 DEF MayLimit

\* resize counts the pages to evict, and knows what it will leave.
LEMMA InvResize ==
  ASSUME PoolInv, NEW n \in MaxSizes, Resize(n)
  PROVE  /\ PoolInv' /\ lru!Order' = lru!Order
         /\ NumToEvict(n) \in 0 .. Len(lru!Order)
         /\ Capacity(Log2Floor(n)) \in Nat \ {0} /\ ceiling' \in Nat
         /\ Capacity(Log2Floor(n)) <= ceiling'
         /\ Len(lru!Order) - NumToEvict(n) <= ceiling'
<1> DEFINE E == NumToEvict(n)
           K == ToSet(Spared(E))
           L == Log2Floor(n)
           t == TableOf(K)
           u == AfterEvicting(t, E > 0)
           peak == Cardinality(K) + L - Limited(u, L).global_depth
<1>1. /\ Idle /\ MayResize(n, K)
      /\ resizing' = [max_size |-> n, evict |-> E, shrink |-> E > 0]
      /\ ceiling' = IF peak > Capacity(L) THEN peak ELSE Capacity(L)
      /\ UNCHANGED <<hashtable_vars, node_map, front, rear, heap, inserting>>
  BY DEF Resize, CeilingFor
<1>2. /\ HashtableInv /\ TableInv /\ List!ListInv /\ inserting = none /\ pending = <<>>
      /\ lru!Order \in Seq(Pages) /\ IsInjective(lru!Order) /\ Len(lru!Order) \in Nat
      /\ size = Len(lru!Order) /\ DOMAIN node_map = Stored
  BY <1>1, PoolParts DEF Idle
<1>3. /\ HashtableInv' /\ Stored' = Stored
      /\ UNCHANGED <<min_depth, max_depth, global_depth, pending, bucket>> /\ Table' = Table
  BY <1>1, <1>2, SameTable DEF hashtable_vars, table_vars, Table
<1>4. List!ListInv' /\ lru!Order' = lru!Order
  BY <1>1, <1>2, SameList
<1>5. L \in Nat
  BY LimitOfSize
<1>6. Capacity(L) \in Nat \ {0}
  BY <1>5, CapacityGrows
<1>7. E \in 0 .. Len(lru!Order)
  BY <1>2, PagesToEvict
<1>8. Cardinality(K) = Len(lru!Order) - E /\ Cardinality(K) \in Nat
  <2>1. E \in Nat /\ E <= Len(lru!Order)
    BY <1>2, <1>7
  <2>2. Cardinality(ToSet(FirstOf(lru!Order, E))) = Len(lru!Order) - E
    BY <1>2, <2>1, FirstPages
  <2>3. Cardinality(K) = Len(lru!Order) - E
    BY <2>2 DEF Spared, FirstOf
  <2> QED
    BY <1>2, <2>1, <2>3
<1>9. /\ E > 0 => MayShrink(t, min_depth) /\ (global_depth > 0 \/ min_depth = 0)
      /\ MayLimit(u, L)
  BY <1>1 DEF MayResize
<1>10. IsTable(hash, t) /\ t.global_depth = global_depth
  BY <1>2, TableKept
<1>11. IsTable(hash, u)
  <2> DEFINE some == E > 0
  <2>1. some \in BOOLEAN
    OBVIOUS
  <2>2. some => MayShrink(t, min_depth) /\ (t.global_depth > 0 \/ min_depth = 0)
    BY <1>9, <1>10
  <2> HIDE DEF some, t
  <2>3. IsTable(hash, AfterEvicting(t, some))
    BY <1>2, <1>10, <2>1, <2>2, TableAfterEvicting
  <2> QED
    BY <2>3 DEF some
<1>12. Limited(u, L).global_depth \in Nat /\ Limited(u, L).global_depth <= L
  BY <1>2, <1>5, <1>9, <1>11, TableAfterLimit
<1> HIDE DEF Capacity, L, E
<1>13. peak \in Nat /\ Cardinality(K) <= peak
  BY <1>5, <1>8, <1>12
<1>14. ceiling' \in Nat /\ Capacity(L) <= ceiling' /\ peak <= ceiling'
  BY <1>1, <1>6, <1>13
<1>15. KeptPages' = K
  BY <1>1, <1>4 DEF KeptPages, Spared
<1>16. TableOf(KeptPages)' = t
  BY <1>3, <1>15 DEF TableOf
<1>17. TableLeft' = u
  BY <1>1, <1>3, <1>16 DEF TableLeft, AfterEvicting
<1>18. NewLimit' = L
  BY <1>1 DEF NewLimit, L
<1>19. Limited(TableLeft, NewLimit)' = Limited(u, L) /\ (MayLimit(TableLeft, NewLimit)' <=> MayLimit(u, L))
  <2>1. UNCHANGED min_depth
    BY <1>3
  <2> HIDE DEF u
  <2> QED
    BY <1>17, <1>18, <2>1, LimitedNext
<1>20. ResizeOK'
  <2>1. resizing' \in [max_size : MaxSizes, evict : 0 .. Len(lru!Order'), shrink : BOOLEAN]
    BY <1>1, <1>4, <1>7
  <2>2. resizing'.shrink => /\ MayShrink(TableOf(KeptPages)', min_depth')
                            /\ global_depth' > 0 \/ min_depth' = 0
    BY <1>1, <1>3, <1>9, <1>16
  <2>3. Cardinality(KeptPages') + NewLimit' - Limited(TableLeft, NewLimit)'.global_depth <= ceiling'
    BY <1>14, <1>15, <1>18, <1>19
  <2>4. inserting' = none
    BY <1>1, <1>2
  <2> QED
    BY <1>9, <1>14, <1>18, <1>19, <2>1, <2>2, <2>3, <2>4 DEF ResizeOK
<1>21. resizing' # NoResize
  <2>1. n # 0 /\ resizing'.max_size = n /\ NoResize.max_size = 0
    BY <1>1, LimitOfSize DEF NoResize
  <2> QED
    BY <2>1
<1>22. RoomOK'
  BY <1>14, <1>21 DEF RoomOK
<1>23. InStep'
  BY <1>1, <1>2, <1>3 DEF InStep
<1>24. Len(lru!Order) - E <= ceiling'
  BY <1>2, <1>7, <1>8, <1>13, <1>14
<1> QED
  BY <1>3, <1>4, <1>6, <1>7, <1>14, <1>20, <1>22, <1>23, <1>24 DEF PoolInv, E, L

\* TableOf, the parts of the table being given.
TableWith(g, d, b, f, S) ==
  LET kept(x) == [x EXCEPT !.pages = Keeping(@, S)]
  IN  [[global_depth |-> g, buckets |-> d, bucket |-> b, freed |-> f]
         EXCEPT !.bucket = [a \in DOMAIN b |-> kept(b[a])]]

\* TableOf is that, before a step and after it.
LEMMA TableOfIs ==
  /\ \A S : TableOf(S) = TableWith(global_depth, buckets, bucket, freed, S)
  /\ TableOf(KeptPages)' = TableWith(global_depth', buckets', bucket', freed', KeptPages')
<1>1. \A S : TableOf(S) = TableWith(global_depth, buckets, bucket, freed, S)
  BY DEF TableOf, Table, TableWith
<1>2. TableOf(KeptPages)' = TableWith(global_depth', buckets', bucket', freed', KeptPages')
  BY DEF TableOf, Table, TableWith
<1> QED
  BY <1>1, <1>2

\* Only what is kept of each bucket counts.
LEMMA SameKept ==
  ASSUME NEW g, NEW d, NEW b, NEW b2, NEW f, NEW S, DOMAIN b2 = DOMAIN b,
         \A a \in DOMAIN b : [b2[a] EXCEPT !.pages = Keeping(@, S)] = [b[a] EXCEPT !.pages = Keeping(@, S)]
  PROVE  TableWith(g, d, b2, f, S) = TableWith(g, d, b, f, S)
<1> DEFINE all(c) == [a \in DOMAIN c |-> [c[a] EXCEPT !.pages = Keeping(@, S)]]
<1>1. all(b2) = all(b)
  OBVIOUS
<1>2. /\ TableWith(g, d, b2, f, S) = [[global_depth |-> g, buckets |-> d, bucket |-> b2, freed |-> f]
                                        EXCEPT !.bucket = all(b2)]
      /\ TableWith(g, d, b, f, S) = [[global_depth |-> g, buckets |-> d, bucket |-> b, freed |-> f]
                                       EXCEPT !.bucket = all(b)]
  BY DEF TableWith
<1> HIDE DEF all
<1>3. \A x, y : [[global_depth |-> g, buckets |-> d, bucket |-> y, freed |-> f] EXCEPT !.bucket = x]
                  = [global_depth |-> g, buckets |-> d, bucket |-> x, freed |-> f]
  OBVIOUS
<1> QED
  BY <1>1, <1>2, <1>3

\* Evicting a page leaves what resize will leave.
LEMMA InvEvictOne ==
  ASSUME PoolInv, SafeUse, EvictOne
  PROVE  /\ PoolInv' /\ UNCHANGED <<max_depth, ceiling, inserting>>
         /\ resizing # NoResize /\ resizing' # NoResize
         /\ resizing'.max_size = resizing.max_size
         /\ Spared(resizing.evict)' = Spared(resizing.evict)
         /\ inserting = none
<1> DEFINE E == resizing.evict
           K == KeptPages
<1>1. /\ E > 0 /\ Evict /\ resizing' = [resizing EXCEPT !.evict = @ - 1]
      /\ UNCHANGED <<pending, inserting, ceiling>>
  BY DEF EvictOne
<1>2. resizing # NoResize
  BY <1>1 DEF NoResize
<1>3. /\ inserting = none
      /\ resizing \in [max_size : MaxSizes, evict : 0 .. Len(lru!Order), shrink : BOOLEAN]
      /\ resizing.shrink => MayShrink(TableOf(K), min_depth) /\ (global_depth > 0 \/ min_depth = 0)
      /\ MayLimit(TableLeft, NewLimit)
      /\ Capacity(NewLimit) <= ceiling
      /\ Cardinality(K) + NewLimit - Limited(TableLeft, NewLimit).global_depth <= ceiling
  BY <1>2 DEF PoolInv, ResizeOK
<1>4. /\ HashtableInv /\ TableInv /\ List!ListInv /\ pending = <<>>
      /\ lru!Order \in Seq(Pages) /\ IsInjective(lru!Order) /\ Len(lru!Order) \in Nat
      /\ Stored = ToSet(lru!Order) /\ ceiling \in Nat
  BY <1>3, PoolParts DEF PoolInv, InStep, RoomOK
<1>5. PICK e : e = lru!EvictedKey
  OBVIOUS
<1>6. /\ lru!Order # <<>> /\ e = lru!Order[Len(lru!Order)]
      /\ lru!Order' = Front(lru!Order) /\ List!ListInv' /\ TableInv'
      /\ RemovePage(e) /\ DOMAIN node_map' = PagesOf(Table)'
      /\ UNCHANGED <<hash, limits, global_depth, buckets, freed>>
  BY <1>1, <1>3, <1>5, InvEvict
<1>7. UNCHANGED <<min_depth, max_depth>>
  BY <1>6 DEF limits
<1>8. /\ resizing'.max_size = resizing.max_size /\ resizing'.shrink = resizing.shrink
      /\ resizing'.evict = E - 1
      /\ resizing' \in [max_size : MaxSizes, evict : 0 .. Len(lru!Order'), shrink : BOOLEAN]
  <2>1. Len(lru!Order') = Len(lru!Order) - 1
    BY <1>4, <1>6, PagesButLast
  <2>2. E \in 0 .. Len(lru!Order) /\ E - 1 \in 0 .. Len(lru!Order')
    BY <1>1, <1>3, <1>4, <2>1
  <2>3. PICK m \in MaxSizes, v \in 0 .. Len(lru!Order), b \in BOOLEAN :
          resizing = [max_size |-> m, evict |-> v, shrink |-> b]
    BY <1>3
  <2>4. resizing' = [max_size |-> m, evict |-> E - 1, shrink |-> b]
    BY <1>1, <2>3
  <2> HIDE DEF E
  <2> QED
    BY <2>2, <2>3, <2>4
<1>9. resizing' # NoResize
  <2>1. resizing'.max_size \in MaxSizes
    BY <1>8
  <2>2. resizing'.max_size # 0 /\ NoResize.max_size = 0
    BY <2>1, LimitOfSize DEF NoResize
  <2> QED
    BY <2>2
<1>10. Spared(E)' = Spared(E) /\ e \notin ToSet(Spared(E)) /\ ToSet(Spared(E)) \subseteq ToSet(lru!Order)
  <2>1. E \in Nat /\ E <= Len(lru!Order) /\ E > 0
    BY <1>1, <1>3, <1>4
  <2>2. /\ FirstOf(Front(lru!Order), E - 1) = FirstOf(lru!Order, E)
        /\ lru!Order[Len(lru!Order)] \notin ToSet(FirstOf(lru!Order, E))
        /\ ToSet(FirstOf(lru!Order, E)) \subseteq ToSet(lru!Order)
    <3> HIDE DEF E
    <3> QED
      BY <1>4, <2>1, FirstPages
  <2>3. Spared(E)' = FirstOf(lru!Order', resizing'.evict) /\ Spared(E) = FirstOf(lru!Order, E)
    BY DEF Spared, FirstOf
  <2> QED
    BY <1>6, <1>8, <2>2, <2>3
<1>11. K' = K /\ e \notin K
  BY <1>10 DEF KeptPages
<1>12. TableOf(KeptPages)' = TableOf(K)
  <2>1. PICK at : at = buckets[IdOf(e)]
    OBVIOUS
  <2>2. /\ e \in ToSet(bucket[at].pages)
        /\ bucket' = [bucket EXCEPT ![at].pages = WithoutPage(@, e)]
    BY <1>6, <2>1 DEF RemovePage, GetPage, BucketOf
  <2>3. \A a \in DOMAIN bucket :
          /\ bucket[a].pages \in Seq(Pages) /\ IsInjective(bucket[a].pages)
          /\ bucket[a] = [local_depth |-> bucket[a].local_depth, pages |-> bucket[a].pages]
    <3>1. PICK t : t = Table
      OBVIOUS
    <3>2. IsTable(hash, t) /\ t.bucket = bucket
      BY <1>4, <3>1 DEF TableInv, Table
    <3>3. \A a \in DOMAIN t.bucket : IsInjective(t.bucket[a].pages)
      BY <3>2 DEF IsTable, IsPlaced
    <3>4. t.bucket \in [DOMAIN t.bucket -> Bucket]
      BY <3>2, PartsOfTable
    <3> QED
      BY <3>2, <3>3, <3>4 DEF Bucket
  <2> DEFINE kept(b) == [b EXCEPT !.pages = Keeping(@, K)]
  <2>4. DOMAIN bucket' = DOMAIN bucket
    BY <2>2
  <2>5. ASSUME NEW a \in DOMAIN bucket PROVE kept(bucket'[a]) = kept(bucket[a])
    <3>1. CASE a # at
      <4>1. bucket'[a] = bucket[a]
        BY <2>2, <3>1
      <4> QED
        BY <4>1
    <3>2. CASE a = at
      <4> DEFINE s == bucket[a].pages
                 d == bucket[a].local_depth
      <4>1. bucket[a] = [local_depth |-> d, pages |-> s] /\ s \in Seq(Pages) /\ IsInjective(s) /\ e \in ToSet(s)
        BY <2>2, <2>3, <3>2
      <4>2. bucket'[a] = [bucket[a] EXCEPT !.pages = WithoutPage(@, e)]
        BY <2>2, <3>2
      <4> HIDE DEF s, d, K
      <4>3. bucket'[a] = [local_depth |-> d, pages |-> WithoutPage(s, e)]
        BY <4>1, <4>2
      <4>4. Keeping(WithoutPage(s, e), K) = Keeping(s, K)
        BY <1>11, <4>1, KeepingWithout
      <4>5. kept(bucket'[a]) = [local_depth |-> d, pages |-> Keeping(WithoutPage(s, e), K)]
        BY <4>3
      <4>6. kept(bucket[a]) = [local_depth |-> d, pages |-> Keeping(s, K)]
        BY <4>1
      <4> QED
        BY <4>4, <4>5, <4>6
    <3> QED
      BY <3>1, <3>2
  <2>6. TableWith(global_depth', buckets', bucket', freed', K) = TableWith(global_depth, buckets, bucket, freed, K)
    <3> HIDE DEF K
    <3> QED
      BY <1>6, <2>4, <2>5, SameKept
  <2>7. KeptPages' = K
    BY <1>11
  <2> HIDE DEF K
  <2> QED
    BY <2>6, <2>7, TableOfIs
<1>13. TableLeft' = TableLeft
  BY <1>7, <1>8, <1>12 DEF TableLeft, AfterEvicting
<1>14. NewLimit' = NewLimit
  BY <1>8 DEF NewLimit
<1>15. /\ Limited(TableLeft, NewLimit)' = Limited(TableLeft, NewLimit)
       /\ MayLimit(TableLeft, NewLimit)' <=> MayLimit(TableLeft, NewLimit)
  <2>1. UNCHANGED min_depth
    BY <1>7
  <2> QED
    BY <1>13, <1>14, <2>1, LimitedNext
<1>16. ResizeOK'
  <2>1. inserting' = none /\ ceiling' = ceiling
    BY <1>1, <1>3
  <2>2. resizing'.shrink => /\ MayShrink(TableOf(KeptPages)', min_depth')
                            /\ global_depth' > 0 \/ min_depth' = 0
    BY <1>3, <1>6, <1>7, <1>8, <1>12
  <2>3. Cardinality(KeptPages') + NewLimit' - Limited(TableLeft, NewLimit)'.global_depth <= ceiling'
    BY <1>3, <1>11, <1>14, <1>15, <2>1
  <2>4. Capacity(NewLimit') <= ceiling'
    BY <1>3, <1>14, <2>1
  <2>5. MayLimit(TableLeft, NewLimit)'
    BY <1>3, <1>15
  <2> HIDE DEF K, E
  <2> QED
    BY <1>8, <2>1, <2>2, <2>3, <2>4, <2>5 DEF ResizeOK
<1>17. RoomOK'
  BY <1>1, <1>4, <1>9 DEF RoomOK
<1>18. pending' = <<>>
  BY <1>1, <1>4
<1>19. HashtableInv' /\ Stored' = PagesOf(Table)'
  <2>1. <<>> \in Seq(Pages) /\ IsInjective(<<>>) /\ ToSet(<<>>) = {}
    BY DEF IsInjective, ToSet
  <2> QED
    BY <1>6, <1>18, <2>1, PagesNext DEF HashtableInv
<1>20. InStep'
  BY <1>1, <1>3, <1>6, <1>18, <1>19 DEF InStep
<1> QED
  BY <1>1, <1>2, <1>3, <1>6, <1>7, <1>8, <1>9, <1>10, <1>16, <1>17, <1>19, <1>20 DEF PoolInv

\* The limit is set: no page is lost, and the ceiling is what it was to be.
LEMMA InvSetLimit ==
  ASSUME PoolInv, SetLimit
  PROVE  /\ PoolInv' /\ lru!Order' = lru!Order /\ max_depth' = Log2Floor(resizing.max_size)
         /\ UNCHANGED <<ceiling, inserting>> /\ inserting = none
         /\ resizing # NoResize /\ resizing.evict = 0 /\ resizing' = NoResize
<1> DEFINE L == Log2Floor(resizing.max_size)
           u == AfterEvicting(Table, resizing.shrink)
<1>1. /\ resizing # NoResize /\ resizing.evict = 0 /\ resizing' = NoResize
      /\ BecomesLimited(u, L)
      /\ UNCHANGED <<hash, size, pending, node_map, front, rear, heap, inserting, ceiling>>
  BY DEF SetLimit
<1>2. /\ inserting = none
      /\ resizing \in [max_size : MaxSizes, evict : 0 .. Len(lru!Order), shrink : BOOLEAN]
      /\ resizing.shrink => /\ MayShrink(TableOf(KeptPages), min_depth)
                            /\ global_depth > 0 \/ min_depth = 0
      /\ MayLimit(TableLeft, NewLimit)
      /\ Capacity(NewLimit) <= ceiling
      /\ Cardinality(KeptPages) + NewLimit - Limited(TableLeft, NewLimit).global_depth <= ceiling
  BY <1>1 DEF PoolInv, ResizeOK
<1>3. /\ HashtableInv /\ TableInv /\ List!ListInv /\ pending = <<>> /\ ceiling \in Nat
      /\ lru!Order \in Seq(Pages) /\ IsInjective(lru!Order) /\ Len(lru!Order) \in Nat
      /\ Stored = ToSet(lru!Order) /\ DOMAIN node_map = Stored /\ Stored = PagesOf(Table)
  BY <1>2, PoolParts DEF PoolInv, InStep, RoomOK
<1>4. L \in Nat /\ L <= MaxDepth /\ L = NewLimit
  <2>1. resizing.max_size \in MaxSizes
    BY <1>2
  <2> QED
    BY <2>1, LimitOfSize DEF NewLimit
<1>5. KeptPages = Stored
  <2>1. FirstOf(lru!Order, 0) = lru!Order
    BY <1>3, FirstPages
  <2>2. Spared(0) = lru!Order
    BY <2>1 DEF FirstOf, Spared
  <2> QED
    BY <1>1, <1>3, <2>2 DEF KeptPages
<1>6. TableOf(KeptPages) = Table /\ TableLeft = u
  <2>1. TableOf(KeptPages) = Table
    BY <1>3, <1>5, TableKept
  <2> QED
    BY <2>1 DEF TableLeft
<1>7. IsTable(hash, Table) /\ Table.global_depth = global_depth
  BY <1>3 DEF TableInv, Table
<1>8. IsTable(hash, u) /\ PagesOf(u) = PagesOf(Table)
  <2>1. PICK some \in BOOLEAN : some = resizing.shrink
    BY <1>2
  <2>2. PICK t : t = Table
    OBVIOUS
  <2>3. some => MayShrink(t, min_depth) /\ (t.global_depth > 0 \/ min_depth = 0)
    BY <1>2, <1>6, <1>7, <2>1, <2>2
  <2>4. IsTable(hash, AfterEvicting(t, some)) /\ PagesOf(AfterEvicting(t, some)) = PagesOf(t)
    BY <1>3, <1>7, <2>2, <2>3, TableAfterEvicting
  <2> QED
    BY <2>1, <2>2, <2>4
<1> DEFINE lim == Limited(u, L)
<1>9. MayLimit(u, L)
  BY <1>2, <1>4, <1>6
<1>10. /\ IsTable(hash, lim) /\ PagesOf(lim) = PagesOf(Table)
       /\ lim.global_depth \in Nat /\ lim.global_depth <= L
  <2> HIDE DEF u, L
  <2> QED
    BY <1>3, <1>4, <1>8, <1>9, TableAfterLimit
<1>11. /\ global_depth' = lim.global_depth /\ buckets' = lim.buckets /\ bucket' = lim.bucket
       /\ freed' = lim.freed /\ max_depth' = L /\ min_depth' = LowerMin(L)
  BY <1>1 DEF BecomesLimited, BecomesTable
<1> HIDE DEF L, u, lim
<1>12. Table' = lim
  <2>1. lim = [global_depth |-> lim.global_depth, buckets |-> lim.buckets, bucket |-> lim.bucket,
               freed |-> lim.freed]
    BY <1>10 DEF IsTable
  <2> QED
    BY <1>11, <2>1 DEF Table
<1>13. min_depth' \in Nat /\ max_depth' \in Nat /\ min_depth' <= max_depth'
  <2>1. min_depth \in Nat
    BY <1>3, LimitsOfTable
  <2> QED
    BY <1>4, <1>11, <2>1 DEF LowerMin
<1>14. TableInv' /\ PagesOf(Table)' = PagesOf(Table)
  <2>1. IsTable(hash, Table') /\ PagesOf(Table') = PagesOf(Table)
    BY <1>10, <1>12
  <2>2. max_depth' <= MaxDepth /\ global_depth' <= max_depth' /\ UNCHANGED <<hash, size>>
    BY <1>1, <1>4, <1>10, <1>11
  <2> QED
    BY <1>3, <1>13, <2>1, <2>2, InvSamePages
<1>15. List!ListInv' /\ lru!Order' = lru!Order /\ DOMAIN node_map' = DOMAIN node_map
  BY <1>1, <1>3, SameList
<1>16. pending' = <<>> /\ <<>> \in Seq(Pages) /\ IsInjective(<<>>) /\ ToSet(<<>>) = {}
  BY <1>1, <1>3 DEF IsInjective, ToSet
<1>17. HashtableInv' /\ Stored' = Stored /\ Held' = Stored
  BY <1>3, <1>14, <1>16, PagesNext DEF HashtableInv
<1>18. InStep'
  BY <1>1, <1>2, <1>3, <1>15, <1>16, <1>17 DEF InStep
<1>19. ResizeOK'
  BY <1>1 DEF ResizeOK
<1>20. RoomOK'
  <2>1. Capacity(max_depth') <= ceiling
    BY <1>2, <1>4, <1>11
  <2>2. Cardinality(Stored) + L - lim.global_depth <= ceiling
    BY <1>2, <1>4, <1>5, <1>6 DEF lim
  <2> QED
    BY <1>1, <1>3, <1>11, <1>17, <2>1, <2>2 DEF RoomOK
<1> QED
  BY <1>1, <1>2, <1>11, <1>14, <1>15, <1>17, <1>18, <1>19, <1>20 DEF PoolInv, L

\* The pool starts empty.
LEMMA InvPoolInit ==
  ASSUME Init
  PROVE  PoolInv /\ lru!Order = <<>> /\ max_depth = MaxDepth
<1>1. /\ HashtableInit /\ lru!Init /\ inserting = none /\ resizing = NoResize
      /\ ceiling = Capacity(MaxDepth)
  BY DEF Init
<1>2. HashtableInv
  BY <1>1, InvInit
<1>3. List!IsList(node_map, front, rear, heap, <<>>)
  BY <1>1, SameMethods, List!EmptyList
<1>4. lru!Order = <<>>
  BY <1>3, OrderIs
<1>5. List!ListInv
  BY <1>3, <1>4 DEF List!ListInv
<1>6. /\ pending = <<>> /\ size = 0 /\ max_depth = MaxDepth /\ global_depth = MinDepth
      /\ MinDepth \in Nat /\ MaxDepth \in Nat /\ MinDepth <= MaxDepth
  BY <1>1, HashtableAssumption DEF HashtableInit, HashtableAssumption
<1>7. ToSet(<<>>) = {} /\ DOMAIN node_map = {}
  <2>1. ToSet(<<>>) = {}
    BY DEF ToSet
  <2> QED
    BY <1>3, <2>1, ListParts
<1>8. Cardinality(Held) = 0 /\ IsFiniteSet(Held)
  <2>1. IsFiniteSet(Held) /\ size + Len(pending) = Cardinality(Held) /\ Len(<<>>) = 0
    BY <1>2, HeldCounted
  <2> QED
    BY <1>6, <2>1
<1>9. Held = {} /\ Stored = {}
  <2>1. Held = {}
    BY <1>8, FS_EmptySet
  <2> QED
    BY <2>1 DEF Held
<1>10. InStep
  BY <1>1, <1>6, <1>7, <1>9 DEF InStep
<1>11. ResizeOK
  BY <1>1 DEF ResizeOK
<1>12. RoomOK
  <2>1. /\ Capacity(MinDepth) \in Nat \ {0} /\ Capacity(MaxDepth) \in Nat
        /\ Capacity(MinDepth) + (MaxDepth - MinDepth) <= Capacity(MaxDepth)
    BY <1>6, CapacityGrows
  <2> HIDE DEF Capacity
  <2> QED
    BY <1>1, <1>6, <1>8, <2>1 DEF RoomOK
<1> QED
  BY <1>2, <1>4, <1>5, <1>6, <1>10, <1>11, <1>12 DEF PoolInv

\* Every step keeps the invariant.
LEMMA InvPoolNext ==
  ASSUME PoolInv, SafeUse, [Next]_vars
  PROVE  PoolInv'
<1>1. CASE UNCHANGED vars
  <2>1. /\ UNCHANGED hashtable_vars /\ UNCHANGED <<node_map, front, rear, heap>>
        /\ UNCHANGED <<inserting, resizing, ceiling, pending>>
    BY <1>1 DEF vars, hashtable_vars
  <2>2. HashtableInv /\ List!ListInv /\ InStep /\ ResizeOK /\ RoomOK
    BY DEF PoolInv
  <2>3. /\ HashtableInv' /\ Stored' = Stored /\ Held' = Held
        /\ UNCHANGED <<min_depth, max_depth, global_depth>>
    BY <2>1, <2>2, SameTable
  <2>4. List!ListInv' /\ lru!Order' = lru!Order
    BY <2>1, <2>2, SameList
  <2>5. InStep'
    BY <2>1, <2>2, <2>3 DEF InStep
  <2>6. RoomOK'
    BY <2>1, <2>2, <2>3 DEF RoomOK
  <2>7. ResizeOK'
    <3>1. KeptPages' = KeptPages
      BY <2>1, <2>4 DEF KeptPages, Spared
    <3>2. TableOf(KeptPages)' = TableOf(KeptPages)
      <4>1. UNCHANGED <<global_depth, buckets, bucket, freed>>
        BY <2>1 DEF hashtable_vars, table_vars
      <4> QED
        BY <3>1, <4>1, TableOfIs
    <3>3. TableLeft' = TableLeft /\ NewLimit' = NewLimit
      BY <2>1, <2>3, <3>2 DEF TableLeft, AfterEvicting, NewLimit
    <3>4. /\ Limited(TableLeft, NewLimit)' = Limited(TableLeft, NewLimit)
          /\ MayLimit(TableLeft, NewLimit)' <=> MayLimit(TableLeft, NewLimit)
      BY <2>3, <3>3, LimitedNext
    <3> HIDE DEF KeptPages, TableLeft, NewLimit
    <3> QED
      BY <2>1, <2>2, <2>3, <2>4, <3>1, <3>2, <3>3, <3>4 DEF ResizeOK
  <2> QED
    BY <2>3, <2>4, <2>5, <2>6, <2>7 DEF PoolInv
<1> QED
  BY <1>1, InvGet, InvMakeRoom, InvPlace, InvEnlist, InvDiscard, InvResize, InvEvictOne, InvSetLimit
  DEF Next

\* The invariant holds in every state.
LEMMA PoolInvariance == ASSUME SafeUse PROVE Spec => []PoolInv
<1>1. Init => PoolInv
  BY InvPoolInit
<1>2. PoolInv /\ [Next]_vars => PoolInv'
  BY InvPoolNext
<1> QED
  BY <1>1, <1>2, PTL DEF Spec

-----------------------------------------------------------------------------
(* The theorems about the pool                                             *)

\* Whatever the pool evicts, removes and hits, no pointer of its eviction list
\* dangles (lru.cpp as buffer_pool.cpp calls it).
THEOREM PoolListIsTyped == ASSUME SafeUse PROVE Spec => []LRUTypeOK
<1>1. PoolInv => List!LRUTypeOK
  BY List!TypedList DEF PoolInv
<1>2. lru!LRUTypeOK <=> List!LRUTypeOK
  BY SamePointers DEF lru!LRUTypeOK, List!LRUTypeOK, lru!Node, List!Node
<1> QED
  BY <1>1, <1>2, PoolInvariance, PTL DEF LRUTypeOK

\* The eviction list of the pool can be walked both ways at every step, but for
\* the prev that update leaves on the first node (lru.cpp:45-62).
THEOREM PoolListIsDoublyLinked == ASSUME SafeUse PROVE Spec => []DoublyLinked
<1>1. PoolInv => List!DoublyLinked
  BY List!LinkedList DEF PoolInv
<1>2. lru!DoublyLinked <=> List!DoublyLinked
  BY SamePointers DEF lru!DoublyLinked, List!DoublyLinked
<1> QED
  BY <1>1, <1>2, PoolInvariance, PTL DEF DoublyLinked

\* Between the steps of insert the list and the table have the same pages, and
\* get_page finds each of them: no eviction, expansion or shrinking of the
\* directory puts the two out of step.
THEOREM ListIsInStep == ASSUME SafeUse PROVE Spec => []ListMatchesTable
<1>1. PoolInv => ListMatchesTable
  <2> SUFFICES ASSUME PoolInv, inserting = none PROVE
                 /\ DOMAIN node_map = Stored /\ size = Cardinality(DOMAIN node_map)
                 /\ \A page \in DOMAIN node_map : GetPage(page)
    BY DEF ListMatchesTable
  <2>1. /\ TableInv /\ Stored = PagesOf(Table) /\ DOMAIN node_map = Stored
        /\ size = Cardinality(Stored) /\ lru!Order \in Seq(Pages) /\ Stored = ToSet(lru!Order)
    BY PoolParts
  <2>2. Stored \subseteq Pages
    BY <2>1 DEF ToSet
  <2> QED
    BY <2>1, <2>2, PagesFound
<1> QED
  BY <1>1, PoolInvariance, PTL

\* A pool that is not resized never has more pages than the ceiling: evicting
\* one page for each that comes in at the largest depth is enough, whatever the
\* directory was shrunk to before.
THEOREM PoolIsBounded == ASSUME SafeUse PROVE Spec => []PoolBounded
<1>1. PoolInv => PoolBounded
  <2> SUFFICES ASSUME PoolInv, resizing = NoResize PROVE size <= ceiling
    BY DEF PoolBounded
  <2>1. TableInv /\ HashtableInv /\ size \in Nat
    BY PoolParts
  <2>2. global_depth \in Nat /\ max_depth \in Nat /\ global_depth <= max_depth
    BY <2>1, LimitsOfTable
  <2>3. size + Len(pending) = Cardinality(Held) /\ Len(pending) \in Nat
    BY <2>1, HeldCounted
  <2>4. ceiling \in Nat /\ Cardinality(Held) + max_depth - global_depth <= ceiling
    BY DEF PoolInv, RoomOK
  <2>5. PICK held : held = Cardinality(Held)
    OBVIOUS
  <2> QED
    BY <2>1, <2>2, <2>3, <2>4, <2>5
<1> QED
  BY <1>1, PoolInvariance, PTL

\* The order and the capacity that the cache has.
CacheOrder == IF inserting # none THEN <<inserting>> \o lru!Order ELSE Spared(resizing.evict)
CacheCapacity == Capacity(IF resizing = NoResize THEN max_depth ELSE Log2Floor(resizing.max_size))

\* Between calls they are those of the pool.
LEMMA CacheBetweenCalls ==
  ASSUME PoolInv, inserting = none, resizing = NoResize
  PROVE  CacheOrder = lru!Order /\ CacheCapacity = Capacity(max_depth)
<1>1. lru!Order \in Seq(Pages) /\ IsInjective(lru!Order) /\ NoResize.evict = 0
  BY PoolParts DEF NoResize
<1>2. FirstOf(lru!Order, 0) = lru!Order
  BY <1>1, FirstPages
<1>3. Spared(0) = lru!Order
  BY <1>2 DEF FirstOf, Spared
<1> QED
  BY <1>1, <1>3 DEF CacheOrder, CacheCapacity

\* The same after a step.
LEMMA CacheNextBetweenCalls ==
  ASSUME PoolInv', inserting' = none, resizing' = NoResize
  PROVE  CacheOrder' = lru!Order' /\ CacheCapacity' = Capacity(max_depth')
<1>1. lru!Order' \in Seq(Pages) /\ IsInjective(lru!Order')
  <2>1. List!IsList(node_map', front', rear', heap', lru!Order')
    BY DEF PoolInv, List!ListInv
  <2> QED
    BY <2>1, ListParts
<1>2. FirstOf(lru!Order', 0) = lru!Order'
  BY <1>1, FirstPages
<1>3. Spared(resizing.evict)' = FirstOf(lru!Order', 0)
  BY DEF FirstOf, Spared, NoResize
<1> QED
  BY <1>2, <1>3 DEF CacheOrder, CacheCapacity

\* The operators of the cache.
LEMMA CacheIs ==
  /\ \A page : Cache!Without(page) = WithoutPage(CacheOrder, page)
  /\ \A s : Cache!Front(s) = Front(s) /\ Cache!ToSet(s) = ToSet(s)
  /\ \A page : Cache!Get(page) <=> /\ CacheOrder' = <<page>> \o WithoutPage(CacheOrder, page)
                                   /\ CacheCapacity' = CacheCapacity /\ ceiling' = ceiling
  /\ \A page : Cache!Insert(page) <=>
       /\ \/ Len(CacheOrder) < ceiling /\ CacheOrder' = <<page>> \o CacheOrder
          \/ Len(CacheOrder) >= CacheCapacity /\ CacheOrder' = <<page>> \o Front(CacheOrder)
       /\ CacheCapacity' = CacheCapacity /\ ceiling' = ceiling
  /\ \A page : Cache!Discard(page) <=> /\ CacheOrder' = WithoutPage(CacheOrder, page)
                                       /\ CacheCapacity' = CacheCapacity /\ ceiling' = ceiling
  /\ Cache!Resize <=>
       /\ CacheCapacity' \in Nat \ {0} /\ ceiling' \in Nat /\ ceiling' >= CacheCapacity'
       /\ \E kept \in CacheCapacity' - 1 .. ceiling' :
            CacheOrder' = IF Len(CacheOrder) <= kept THEN CacheOrder ELSE SubSeq(CacheOrder, 1, kept)
  /\ UNCHANGED <<CacheOrder, CacheCapacity, ceiling>> => UNCHANGED Cache!cache_vars
  /\ Cache!Init <=> /\ CacheOrder = <<>> /\ CacheCapacity \in Nat \ {0} /\ ceiling = CacheCapacity
  /\ Cache!Next <=> \/ \E page \in ToSet(CacheOrder) : Cache!Get(page) \/ Cache!Discard(page)
                    \/ \E page \in Pages \ ToSet(CacheOrder) : Cache!Insert(page)
                    \/ Cache!Resize
<1>1. \A page : Cache!Without(page) = WithoutPage(CacheOrder, page)
  BY DEF Cache!Without, WithoutPage, Cache!RemoveAt, RemoveAt, CacheOrder
<1>2. \A s : Cache!Front(s) = Front(s) /\ Cache!ToSet(s) = ToSet(s)
  BY DEF Cache!Front, Front, Cache!ToSet, ToSet
<1>3. \A page : Cache!Get(page) <=> /\ CacheOrder' = <<page>> \o WithoutPage(CacheOrder, page)
                                    /\ CacheCapacity' = CacheCapacity /\ ceiling' = ceiling
  BY <1>1 DEF Cache!Get, CacheOrder, CacheCapacity
<1>4. \A page : Cache!Insert(page) <=>
       /\ \/ Len(CacheOrder) < ceiling /\ CacheOrder' = <<page>> \o CacheOrder
          \/ Len(CacheOrder) >= CacheCapacity /\ CacheOrder' = <<page>> \o Front(CacheOrder)
       /\ CacheCapacity' = CacheCapacity /\ ceiling' = ceiling
  BY <1>2 DEF Cache!Insert, CacheOrder, CacheCapacity
<1>5. \A page : Cache!Discard(page) <=> /\ CacheOrder' = WithoutPage(CacheOrder, page)
                                        /\ CacheCapacity' = CacheCapacity /\ ceiling' = ceiling
  BY <1>1 DEF Cache!Discard, CacheOrder, CacheCapacity
<1>6. Cache!Resize <=>
       /\ CacheCapacity' \in Nat \ {0} /\ ceiling' \in Nat /\ ceiling' >= CacheCapacity'
       /\ \E kept \in CacheCapacity' - 1 .. ceiling' :
            CacheOrder' = IF Len(CacheOrder) <= kept THEN CacheOrder ELSE SubSeq(CacheOrder, 1, kept)
  BY DEF Cache!Resize, CacheOrder, CacheCapacity
<1>7. UNCHANGED <<CacheOrder, CacheCapacity, ceiling>> => UNCHANGED Cache!cache_vars
  BY DEF Cache!cache_vars, CacheOrder, CacheCapacity
<1>8. Cache!Init <=> /\ CacheOrder = <<>> /\ CacheCapacity \in Nat \ {0} /\ ceiling = CacheCapacity
  BY DEF Cache!Init, CacheOrder, CacheCapacity
<1>9. Cache!Next <=> \/ \E page \in ToSet(CacheOrder) : Cache!Get(page) \/ Cache!Discard(page)
                     \/ \E page \in Pages \ ToSet(CacheOrder) : Cache!Insert(page)
                     \/ Cache!Resize
  BY <1>2 DEF Cache!Next, CacheOrder
<1> QED
  BY <1>1, <1>2, <1>3, <1>4, <1>5, <1>6, <1>7, <1>8, <1>9

\* A step of the pool is a step of the cache or none.
LEMMA CacheStep ==
  ASSUME PoolInv, SafeUse, Next
  PROVE  Cache!Next \/ UNCHANGED <<CacheOrder, CacheCapacity, ceiling>>
<1>0. lru!Order \in Seq(Pages) /\ Len(lru!Order) \in Nat /\ IsInjective(lru!Order)
  BY PoolParts
<1>1. ASSUME NEW page \in Pages, Get(page) PROVE Cache!Next
  <2>1. /\ inserting = none /\ resizing = NoResize /\ lru!Update(page) /\ List!ListInv
        /\ UNCHANGED <<inserting, resizing, ceiling, max_depth>>
    BY <1>1, PoolParts DEF Get, Idle, hashtable_vars, table_vars, limits
  <2>2. PoolInv'
    BY <1>1, InvGet
  <2>3. page \in ToSet(lru!Order) /\ lru!Order' = <<page>> \o WithoutPage(lru!Order, page)
    BY <2>1, ListUpdate
  <2>4. CacheOrder = lru!Order /\ CacheCapacity = Capacity(max_depth)
    BY <2>1, CacheBetweenCalls
  <2>5. CacheOrder' = lru!Order' /\ CacheCapacity' = Capacity(max_depth')
    BY <2>1, <2>2, CacheNextBetweenCalls
  <2>6. Cache!Get(page)
    BY <2>1, <2>3, <2>4, <2>5, CacheIs
  <2> QED
    BY <2>3, <2>4, <2>6, CacheIs
<1>2. ASSUME NEW page \in Pages, MakeRoom(page) PROVE Cache!Next
  <2>1. /\ inserting = none /\ resizing = NoResize /\ inserting' = page
        /\ UNCHANGED <<resizing, ceiling>>
    BY <1>2 DEF MakeRoom, Idle
  <2>2. /\ page \notin ToSet(lru!Order) /\ UNCHANGED max_depth
        /\ \/ lru!Order' = lru!Order /\ Len(lru!Order) < ceiling
           \/ lru!Order' = Front(lru!Order) /\ Len(lru!Order) >= Capacity(max_depth)
    BY <1>2, InvMakeRoom
  <2>3. CacheOrder = lru!Order /\ CacheCapacity = Capacity(max_depth)
    BY <2>1, CacheBetweenCalls
  <2>4. CacheOrder' = <<page>> \o lru!Order' /\ CacheCapacity' = Capacity(max_depth)
    <3>1. page # none
      BY BufferPoolAssumption DEF BufferPoolAssumption
    <3> QED
      BY <2>1, <2>2, <3>1 DEF CacheOrder, CacheCapacity
  <2>5. Cache!Insert(page)
    BY <2>1, <2>2, <2>3, <2>4, CacheIs
  <2> QED
    BY <2>2, <2>3, <2>5, CacheIs
<1>3. CASE Place
  <2>1. lru!Order' = lru!Order /\ UNCHANGED max_depth
    BY <1>3, InvPlace
  <2>2. UNCHANGED <<inserting, resizing, ceiling>>
    BY <1>3 DEF Place
  <2> QED
    BY <2>1, <2>2 DEF CacheOrder, CacheCapacity, Spared
<1>4. CASE Enlist
  <2>1. inserting # none /\ inserting' = none /\ UNCHANGED <<resizing, ceiling>>
    BY <1>4 DEF Enlist
  <2>2. /\ PoolInv' /\ UNCHANGED max_depth /\ resizing = NoResize
        /\ lru!Order' = <<inserting>> \o lru!Order
    BY <1>4, InvEnlist
  <2>3. CacheOrder' = lru!Order' /\ CacheCapacity' = Capacity(max_depth)
    BY <2>1, <2>2, CacheNextBetweenCalls
  <2>4. CacheOrder = <<inserting>> \o lru!Order /\ CacheCapacity = Capacity(max_depth)
    BY <2>1, <2>2 DEF CacheOrder, CacheCapacity
  <2> QED
    BY <2>1, <2>2, <2>3, <2>4
<1>5. ASSUME NEW page \in Pages, Discard(page) PROVE Cache!Next
  <2>1. inserting = none /\ resizing = NoResize /\ UNCHANGED <<inserting, resizing, ceiling>>
    BY <1>5 DEF Discard, Idle
  <2>2. /\ PoolInv' /\ UNCHANGED max_depth /\ page \in ToSet(lru!Order)
        /\ lru!Order' = WithoutPage(lru!Order, page)
    BY <1>5, InvDiscard
  <2>3. CacheOrder = lru!Order /\ CacheCapacity = Capacity(max_depth)
    BY <2>1, CacheBetweenCalls
  <2>4. CacheOrder' = lru!Order' /\ CacheCapacity' = Capacity(max_depth')
    BY <2>1, <2>2, CacheNextBetweenCalls
  <2>5. Cache!Discard(page)
    BY <2>1, <2>2, <2>3, <2>4, CacheIs
  <2> QED
    BY <2>2, <2>3, <2>5, CacheIs
<1>6. ASSUME NEW n \in MaxSizes, Resize(n) PROVE Cache!Next
  <2> DEFINE E == NumToEvict(n)
             C == Capacity(Log2Floor(n))
             s == lru!Order
  <2>1. /\ inserting = none /\ resizing = NoResize /\ inserting' = none
        /\ resizing' = [max_size |-> n, evict |-> E, shrink |-> E > 0]
    BY <1>6 DEF Resize, Idle
  <2>2. /\ lru!Order' = s /\ E \in 0 .. Len(s) /\ C \in Nat \ {0} /\ ceiling' \in Nat
        /\ C <= ceiling' /\ Len(s) - E <= ceiling'
    BY <1>6, InvResize
  <2>3. CacheOrder = s
    BY <2>1, CacheBetweenCalls
  <2>4. CacheOrder' = FirstOf(s, E) /\ CacheCapacity' = C
    <3>1. n # 0 /\ resizing'.max_size = n /\ NoResize.max_size = 0 /\ resizing'.evict = E
      BY <2>1, LimitOfSize DEF NoResize
    <3>2. resizing' # NoResize
      BY <3>1
    <3> QED
      BY <2>1, <2>2, <3>1, <3>2 DEF CacheOrder, CacheCapacity, Spared, FirstOf
  <2>5. E > 0 => Len(s) - E >= C - 1
    <3>1. size = Len(s)
      BY <2>1, PoolParts
    <3> QED
      BY <1>0, <3>1, PagesToEvict
  <2> HIDE DEF E, C, s
  <2>6. PICK N \in Nat : N = Len(s)
    BY <1>0 DEF s
  <2>7. \E kept \in C - 1 .. ceiling' : FirstOf(s, E) = IF Len(s) <= kept THEN s ELSE SubSeq(s, 1, kept)
    <3>1. CASE E = 0
      <4>1. FirstOf(s, 0) = s
        BY <1>0, FirstPages DEF s
      <4>2. ceiling' \in C - 1 .. ceiling' /\ Len(s) <= ceiling'
        BY <2>2, <2>6, <3>1
      <4> QED
        BY <3>1, <4>1, <4>2
    <3>2. CASE E > 0
      <4> DEFINE kept == N - E
      <4>1. kept \in C - 1 .. ceiling' /\ ~ (N <= kept)
        BY <2>2, <2>5, <2>6, <3>2
      <4>2. FirstOf(s, E) = SubSeq(s, 1, kept)
        BY <2>6 DEF FirstOf
      <4> HIDE DEF kept
      <4> QED
        BY <2>6, <4>1, <4>2
    <3> QED
      BY <2>2, <2>6, <3>1, <3>2
  <2>8. Cache!Resize
    BY <2>2, <2>3, <2>4, <2>7, CacheIs
  <2> QED
    BY <2>8, CacheIs
<1>7. CASE EvictOne
  <2>1. /\ UNCHANGED <<max_depth, ceiling, inserting>> /\ inserting = none
        /\ resizing # NoResize /\ resizing' # NoResize
        /\ resizing'.max_size = resizing.max_size
        /\ Spared(resizing.evict)' = Spared(resizing.evict)
    BY <1>7, InvEvictOne
  <2> QED
    BY <2>1 DEF CacheOrder, CacheCapacity
<1>8. CASE SetLimit
  <2>1. /\ PoolInv' /\ lru!Order' = lru!Order /\ max_depth' = Log2Floor(resizing.max_size)
        /\ UNCHANGED <<ceiling, inserting>> /\ inserting = none
        /\ resizing # NoResize /\ resizing.evict = 0 /\ resizing' = NoResize
    BY <1>8, InvSetLimit
  <2>2. FirstOf(lru!Order, 0) = lru!Order
    BY <1>0, FirstPages
  <2>3. CacheOrder = lru!Order /\ CacheCapacity = Capacity(Log2Floor(resizing.max_size))
    BY <2>1, <2>2 DEF CacheOrder, CacheCapacity, FirstOf, Spared
  <2>4. CacheOrder' = lru!Order' /\ CacheCapacity' = Capacity(max_depth')
    BY <2>1, CacheNextBetweenCalls
  <2> QED
    BY <2>1, <2>3, <2>4
<1> QED
  BY <1>1, <1>2, <1>3, <1>4, <1>5, <1>6, <1>7, <1>8 DEF Next

\* The pool is an LRU cache: it gives up the least recently used pages, and
\* only when it is full or resized.
THEOREM PoolImplementsCache == ASSUME SafeUse PROVE Spec => ImplementsPageCache
<1>1. Init => Cache!Init
  <2> SUFFICES ASSUME Init PROVE Cache!Init
    OBVIOUS
  <2>1. /\ PoolInv /\ lru!Order = <<>> /\ max_depth = MaxDepth
        /\ inserting = none /\ resizing = NoResize /\ ceiling = Capacity(MaxDepth)
    BY InvPoolInit DEF Init
  <2>2. CacheOrder = <<>> /\ CacheCapacity = Capacity(MaxDepth)
    BY <2>1, CacheBetweenCalls
  <2>3. Capacity(MaxDepth) \in Nat \ {0}
    BY HashtableAssumption, CapacityGrows DEF HashtableAssumption
  <2> QED
    BY <2>1, <2>2, <2>3, CacheIs
<1>2. PoolInv /\ [Next]_vars => [Cache!Next]_(Cache!cache_vars)
  <2> SUFFICES ASSUME PoolInv, [Next]_vars PROVE Cache!Next \/ UNCHANGED Cache!cache_vars
    OBVIOUS
  <2>1. CASE Next
    BY <2>1, CacheStep, CacheIs
  <2>2. CASE UNCHANGED vars
    <3>1. UNCHANGED <<node_map, front, rear, heap, max_depth, inserting, resizing, ceiling>> /\ List!ListInv
      BY <2>2 DEF vars, hashtable_vars, table_vars, limits, PoolInv
    <3>2. lru!Order' = lru!Order
      BY <3>1, SameList
    <3>3. UNCHANGED <<CacheOrder, CacheCapacity, ceiling>>
      BY <3>1, <3>2 DEF CacheOrder, CacheCapacity, Spared
    <3> QED
      BY <3>3, CacheIs
  <2> QED
    BY <2>1, <2>2
<1> QED
  BY <1>1, <1>2, PoolInvariance, PTL DEF Spec, ImplementsPageCache, Cache!Spec
=============================================================================
