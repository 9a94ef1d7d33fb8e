------------------------------ MODULE LRUProofs -----------------------------
(***************************************************************************)
(* Proofs about the eviction list: for any set of keys and any number of   *)
(* nodes, its pointers make the list of the keys by their last access.     *)
(***************************************************************************)
EXTENDS LRURecency, NatRecursion, FiniteSetTheorems, SequenceTheorems

-----------------------------------------------------------------------------
(* The nodes that pointers lead to                                         *)

\* One more step along the pointers of the heap h, from the nodes in S.
Onward(h, S) == DOMAIN h \cap (S \cup UNION {Pointers(h, n) : n \in S})

\* No pointer of a node in S leads out of S.
Closed(h, S) == Onward(h, S) \subseteq S

\* The null pointer leads to no node.
LEMMA NullIsNoNode == null \notin Nodes
BY DEF null, Nodes

\* The heap that a method leaves has the nodes that its roots lead to, with
\* the nodes that they lead to in turn: as many steps as there are nodes reach
\* all of them.
LEMMA ReachableCloses ==
  ASSUME NEW h, NEW roots, IsFiniteSet(DOMAIN h)
  PROVE  /\ Reachable(h, roots) \subseteq DOMAIN h
         /\ DOMAIN h \cap roots \subseteq Reachable(h, roots)
         /\ Closed(h, Reachable(h, roots))
<1> DEFINE N == Cardinality(DOMAIN h)
           D == 0 .. N
           Body(g, i) == DOMAIN h \cap
                           (IF i = 0 THEN roots
                            ELSE g[i - 1] \cup UNION {Pointers(h, n) : n \in g[i - 1]})
           after == CHOOSE g : g = [i \in D |-> Body(g, i)]
<1>1. N \in Nat /\ \A i \in D : i \in Nat /\ (i # 0 => i - 1 \in D)
  BY FS_CardinalityType
<1>2. after = [i \in D |-> Body(after, i)]
  <2> DEFINE V == SUBSET (DOMAIN h)
             id == [i \in D |-> i]
             Step == [i \in D |-> [g \in [Below(D, id, i) -> V] |-> Body(g, i)]]
  <2>1. id \in [D -> Nat] /\ N + 1 \in Nat /\ \A i \in D : id[i] < N + 1
    BY <1>1
  <2>2. IsStep(Step, D, V, id)
    BY DEF IsStep
  <2>3. PICK f \in [D -> V] : Solves(f, Step, D, id)
    <3> DEFINE bound == N + 1
    <3> HIDE DEF D, id, Step, V, bound
    <3> QED
      BY <2>1, <2>2, BoundedRecursion DEF bound
  <2>4. ASSUME NEW i \in D PROVE f[i] = Body(f, i)
    <3> DEFINE r == [j \in Below(D, id, i) |-> f[j]]
    <3>1. r \in [Below(D, id, i) -> V]
      BY DEF Below
    <3>2. f[i] = Body(r, i)
      BY <2>3, <3>1 DEF Solves
    <3>3. i # 0 => r[i - 1] = f[i - 1]
      BY <1>1 DEF Below
    <3> HIDE DEF r
    <3> QED
      BY <3>2, <3>3
  <2>5. f = [i \in D |-> Body(f, i)]
    BY <2>4
  <2> HIDE DEF D
  <2> QED
    BY <2>5
<1>3. Reachable(h, roots) = after[N]
  BY DEF Reachable
<1> HIDE DEF after
<1>4. after[0] = DOMAIN h \cap roots
  BY <1>1, <1>2
<1>5. ASSUME NEW i \in Nat, i + 1 \in D PROVE i \in D /\ after[i + 1] = Onward(h, after[i])
  <2>1. i \in D /\ (i + 1) - 1 = i /\ i + 1 # 0
    BY <1>1, <1>5
  <2>2. after[i + 1] = Body(after, i + 1)
    BY <1>2, <1>5
  <2> QED
    BY <2>1, <2>2 DEF Onward
<1> DEFINE Reaches(i) ==
             /\ after[i] \subseteq DOMAIN h
             /\ DOMAIN h \cap roots \subseteq after[i]
             /\ Closed(h, after[i]) \/ Cardinality(after[i]) >= i
           S == {i \in Nat : i \in D => Reaches(i)}
<1>6. 0 \in S
  <2>1. after[0] \subseteq DOMAIN h /\ DOMAIN h \cap roots \subseteq after[0]
    BY <1>4
  <2>2. Cardinality(after[0]) \in Nat
    BY <2>1, FS_Subset, FS_CardinalityType
  <2> QED
    BY <2>1, <2>2
<1>7. ASSUME NEW i \in Nat, i \in S PROVE i + 1 \in S
  <2> SUFFICES ASSUME i + 1 \in D PROVE Reaches(i + 1)
    OBVIOUS
  <2> DEFINE now == after[i]
             next == after[i + 1]
  <2>1. next = Onward(h, now) /\ Reaches(i)
    BY <1>5, <1>7
  <2> HIDE DEF now, next
  <2>2. now \subseteq next /\ next \subseteq DOMAIN h /\ DOMAIN h \cap roots \subseteq next
    BY <2>1 DEF now, Onward
  <2>3. CASE Closed(h, now)
    <3>1. next = now
      BY <2>1, <2>2, <2>3 DEF Closed
    <3> QED
      BY <2>2, <2>3, <3>1 DEF next
  <2>4. CASE ~ Closed(h, now)
    <3>1. now # next
      BY <2>1, <2>4 DEF Closed
    <3>2. IsFiniteSet(next) /\ IsFiniteSet(now)
      BY <2>2, FS_Subset
    <3>3. Cardinality(now) <= Cardinality(next) /\ Cardinality(now) # Cardinality(next)
      BY <2>2, <3>1, <3>2, FS_Subset
    <3>4. Cardinality(now) \in Nat /\ Cardinality(next) \in Nat
      BY <3>2, FS_CardinalityType
    <3>5. Cardinality(now) >= i
      BY <2>1, <2>4 DEF now
    <3>6. Cardinality(next) >= i + 1
      BY <3>3, <3>4, <3>5
    <3> QED
      BY <2>2, <3>6 DEF next
  <2> QED
    BY <2>3, <2>4
<1>8. Reaches(N)
  <2> HIDE DEF Reaches
  <2>1. N \in S
    <3> HIDE DEF S
    <3> QED
      BY <1>1, <1>6, <1>7, InductionOnNat
  <2> QED
    BY <1>1, <2>1
<1>9. Closed(h, after[N])
  <2>1. CASE Cardinality(after[N]) >= N
    <3>1. after[N] = DOMAIN h
      <4> DEFINE last == after[N]
      <4>1. last \subseteq DOMAIN h /\ Cardinality(last) >= Cardinality(DOMAIN h)
        BY <1>8, <2>1
      <4> HIDE DEF last
      <4>2. Cardinality(last) <= Cardinality(DOMAIN h) /\ IsFiniteSet(last)
        BY <4>1, FS_Subset
      <4>3. Cardinality(last) \in Nat /\ Cardinality(DOMAIN h) \in Nat
        BY <4>2, FS_CardinalityType
      <4>4. Cardinality(last) = Cardinality(DOMAIN h)
        BY <4>1, <4>2, <4>3
      <4>5. last = DOMAIN h
        BY <4>1, <4>4, FS_Subset
      <4> QED
        BY <4>5 DEF last
    <3> QED
      BY <3>1 DEF Closed, Onward
  <2> QED
    BY <1>8, <2>1
<1> QED
  BY <1>3, <1>8, <1>9

-----------------------------------------------------------------------------
(* Lists of nodes                                                          *)

\* The node of the i-th key of s, or null before the first and past the last.
At(map, s, i) == IF i \in 1 .. Len(s) THEN map[s[i]] ELSE null

\* A finite heap of typed nodes without a dangling pointer.
IsHeap(h) ==
  /\ IsFiniteSet(DOMAIN h) /\ DOMAIN h \subseteq Nodes /\ h \in [DOMAIN h -> Node]
  /\ \A n \in DOMAIN h : h[n].key = n[1] /\ Pointers(h, n) \subseteq DOMAIN h

\* The keys of s are distinct, and the map leads from each of them to its node.
IsMap(map, h, s) ==
  /\ s \in Seq(Keys) /\ \A i, j \in 1 .. Len(s) : s[i] = s[j] => i = j
  /\ map \in [{s[i] : i \in 1 .. Len(s)} -> DOMAIN h]
  /\ \A k \in DOMAIN map : map[k][1] = k

\* The pointers of the node of the i-th key of s.
Linked(map, h, s, i) ==
  /\ h[At(map, s, i)].next = At(map, s, i + 1)
  /\ i > 1 => h[At(map, s, i)].prev = At(map, s, i - 1)

\* From f to r, the pointers make the list of the keys of s.
IsList(map, f, r, h, s) ==
  /\ IsHeap(h) /\ IsMap(map, h, s)
  /\ f = At(map, s, 1) /\ r = At(map, s, Len(s))
  /\ \A i \in 1 .. Len(s) : Linked(map, h, s, i)

\* The nodes of two keys are different, and none is null.
LEMMA AtDistinct ==
  ASSUME NEW map, NEW h, NEW s, IsHeap(h), IsMap(map, h, s)
  PROVE  /\ Len(s) \in Nat
         /\ \A i \in Int : At(map, s, i) \in DOMAIN h \cup {null}
         /\ \A i \in Int : At(map, s, i) # null <=> i \in 1 .. Len(s)
         /\ \A i \in 1 .. Len(s) : /\ At(map, s, i) = map[s[i]] /\ At(map, s, i) \in DOMAIN h
                                   /\ At(map, s, i)[1] = s[i] /\ s[i] \in Keys
         /\ \A i \in 1 .. Len(s), j \in Int : At(map, s, i) = At(map, s, j) => i = j
<1>1. Len(s) \in Nat /\ \A i \in 1 .. Len(s) : s[i] \in Keys /\ s[i] \in DOMAIN map
  BY DEF IsMap
<1>2. \A i \in 1 .. Len(s) : /\ At(map, s, i) = map[s[i]] /\ At(map, s, i) \in DOMAIN h
                             /\ At(map, s, i)[1] = s[i]
  BY <1>1 DEF At, IsMap
<1>3. null \notin DOMAIN h
  BY NullIsNoNode DEF IsHeap
<1>4. \A i \in Int : i \notin 1 .. Len(s) => At(map, s, i) = null
  BY DEF At
<1>5. \A i, j \in 1 .. Len(s) : At(map, s, i) = At(map, s, j) => i = j
  <2>1. \A i, j \in 1 .. Len(s) : s[i] = s[j] => i = j
    BY DEF IsMap
  <2> QED
    BY <1>2, <2>1
<1> HIDE DEF At
<1> QED
  BY <1>1, <1>2, <1>3, <1>4, <1>5

\* The heap g is h with one field assigned.
HasPrev(g, h, n, p) ==
  /\ IsHeap(g) /\ DOMAIN g = DOMAIN h
  /\ \A m \in DOMAIN h : g[m].prev = (IF m = n THEN p ELSE h[m].prev) /\ g[m].next = h[m].next

\* What assigning prev does.
LEMMA SetPrevDoes ==
  ASSUME NEW h, IsHeap(h), NEW n \in DOMAIN h \cup {null}, NEW p \in DOMAIN h \cup {null}
  PROVE  HasPrev(SetPrev(h, n, p), h, n, p)
<1>1. null \notin DOMAIN h /\ DOMAIN h \subseteq Nodes /\ h \in [DOMAIN h -> Node]
  BY NullIsNoNode DEF IsHeap
<1> DEFINE g == SetPrev(h, n, p)
<1>2. /\ DOMAIN g = DOMAIN h /\ g \in [DOMAIN h -> Node]
      /\ \A m \in DOMAIN h : /\ g[m].prev = (IF m = n THEN p ELSE h[m].prev)
                             /\ g[m].next = h[m].next /\ g[m].key = h[m].key
  <2>1. CASE n = null
    BY <1>1, <2>1 DEF SetPrev
  <2>2. CASE n # null
    <3>1. g = [h EXCEPT ![n].prev = p] /\ n \in DOMAIN h
      BY <2>2 DEF SetPrev
    <3>2. \A m \in DOMAIN h : h[m] = [key |-> h[m].key, prev |-> h[m].prev, next |-> h[m].next]
      BY <1>1 DEF Node
    <3> QED
      BY <1>1, <3>1, <3>2 DEF Node
  <2> QED
    BY <2>1, <2>2
<1> HIDE DEF g
<1>3. IsHeap(g)
  BY <1>2 DEF IsHeap, Pointers
<1> QED
  BY <1>2, <1>3 DEF g, HasPrev

HasNext(g, h, n, p) ==
  /\ IsHeap(g) /\ DOMAIN g = DOMAIN h
  /\ \A m \in DOMAIN h : g[m].next = (IF m = n THEN p ELSE h[m].next) /\ g[m].prev = h[m].prev

\* What assigning next does.
LEMMA SetNextDoes ==
  ASSUME NEW h, IsHeap(h), NEW n \in DOMAIN h \cup {null}, NEW p \in DOMAIN h \cup {null}
  PROVE  HasNext(SetNext(h, n, p), h, n, p)
<1>1. null \notin DOMAIN h /\ DOMAIN h \subseteq Nodes /\ h \in [DOMAIN h -> Node]
  BY NullIsNoNode DEF IsHeap
<1> DEFINE g == SetNext(h, n, p)
<1>2. /\ DOMAIN g = DOMAIN h /\ g \in [DOMAIN h -> Node]
      /\ \A m \in DOMAIN h : /\ g[m].next = (IF m = n THEN p ELSE h[m].next)
                             /\ g[m].prev = h[m].prev /\ g[m].key = h[m].key
  <2>1. CASE n = null
    BY <1>1, <2>1 DEF SetNext
  <2>2. CASE n # null
    <3>1. g = [h EXCEPT ![n].next = p] /\ n \in DOMAIN h
      BY <2>2 DEF SetNext
    <3>2. \A m \in DOMAIN h : h[m] = [key |-> h[m].key, prev |-> h[m].prev, next |-> h[m].next]
      BY <1>1 DEF Node
    <3> QED
      BY <1>1, <3>1, <3>2 DEF Node
  <2> QED
    BY <2>1, <2>2
<1> HIDE DEF g
<1>3. IsHeap(g)
  BY <1>2 DEF IsHeap, Pointers
<1> QED
  BY <1>2, <1>3 DEF g, HasNext

\* What a method leaves is the list that it has made, without the nodes that
\* no pointer leads to any more.
LEMMA BecomesList ==
  ASSUME NEW map, NEW f, NEW r, NEW h, NEW s, IsList(map, f, r, h, s), Becomes(map, f, r, h)
  PROVE  IsList(map, f, r, heap', s) /\ node_map' = map /\ front' = f /\ rear' = r
<1> DEFINE roots == {f, r} \cup {map[k] : k \in DOMAIN map}
           R == Reachable(h, roots)
<1>1. node_map' = map /\ front' = f /\ rear' = r /\ heap' = [n \in R |-> h[n]]
  BY DEF Becomes
<1>2. IsHeap(h) /\ IsMap(map, h, s)
  BY DEF IsList
<1>3. R \subseteq DOMAIN h /\ DOMAIN h \cap roots \subseteq R /\ Closed(h, R)
  BY <1>2, ReachableCloses DEF IsHeap
<1> DEFINE g == [n \in R |-> h[n]]
<1>4. DOMAIN g = R /\ \A n \in R : g[n] = h[n]
  OBVIOUS
<1> HIDE DEF g, R
<1>5. IsHeap(g)
  <2>1. IsFiniteSet(R) /\ R \subseteq Nodes
    BY <1>2, <1>3, FS_Subset DEF IsHeap
  <2>2. \A n \in R : g[n] \in Node /\ g[n].key = n[1]
    BY <1>2, <1>3, <1>4 DEF IsHeap
  <2>3. g \in [R -> Node]
    BY <1>4, <2>2 DEF g
  <2>4. \A n \in R : Pointers(g, n) \subseteq R
    BY <1>2, <1>3, <1>4 DEF IsHeap, Pointers, Closed, Onward
  <2> QED
    BY <1>4, <2>1, <2>2, <2>3, <2>4 DEF IsHeap
<1>6. \A k \in DOMAIN map : map[k] \in R
  BY <1>2, <1>3 DEF IsMap
<1>7. IsMap(map, g, s)
  BY <1>2, <1>4, <1>6 DEF IsMap
<1>8. \A i \in 1 .. Len(s) : At(map, s, i) \in R
  BY <1>2, <1>6 DEF At, IsMap
<1>9. \A i \in 1 .. Len(s) : Linked(map, g, s, i)
  BY <1>4, <1>8 DEF IsList, Linked
<1>10. IsList(map, f, r, g, s)
  BY <1>5, <1>7, <1>9 DEF IsList
<1> QED
  BY <1>1, <1>10 DEF g, R

-----------------------------------------------------------------------------
(* Lists with a key more or less                                           *)

\* The map with k led to node.
Put(map, k, node) == [x \in DOMAIN map \cup {k} |-> IF x = k THEN node ELSE map[x]]

\* k in front of s.
LEMMA PutAt ==
  ASSUME NEW map, NEW h, NEW s, IsHeap(h), IsMap(map, h, s),
         NEW k \in Keys, k \notin DOMAIN map, NEW node \in DOMAIN h, node[1] = k
  PROVE  LET t == <<k>> \o s
         IN  /\ IsMap(Put(map, k, node), h, t) /\ Len(t) = Len(s) + 1
             /\ At(Put(map, k, node), t, 0) = null
             /\ At(Put(map, k, node), t, 1) = node
             /\ \A i \in Nat \ {0} : At(Put(map, k, node), t, i + 1) = At(map, s, i)
<1> DEFINE t == <<k>> \o s
           m == Put(map, k, node)
<1>1. /\ s \in Seq(Keys) /\ Len(s) \in Nat /\ DOMAIN map = {s[i] : i \in 1 .. Len(s)}
      /\ \A i, j \in 1 .. Len(s) : s[i] = s[j] => i = j
  BY DEF IsMap
<1>2. /\ t \in Seq(Keys) /\ Len(t) = Len(s) + 1 /\ t[1] = k
      /\ \A i \in 1 .. Len(s) : t[i + 1] = s[i]
  BY <1>1
<1>3. DOMAIN m = DOMAIN map \cup {k} /\ \A x \in DOMAIN m : m[x] = IF x = k THEN node ELSE map[x]
  BY DEF Put
<1> HIDE DEF t, m
<1>4. \A i \in 1 .. Len(t) : i = 1 \/ \E j \in 1 .. Len(s) : i = j + 1
  <2> SUFFICES ASSUME NEW i \in 1 .. Len(t), i # 1 PROVE \E j \in 1 .. Len(s) : i = j + 1
    OBVIOUS
  <2>1. i - 1 \in 1 .. Len(s) /\ i = (i - 1) + 1
    BY <1>1, <1>2
  <2> QED
    BY <2>1
<1>5. \A i, j \in 1 .. Len(t) : t[i] = t[j] => i = j
  <2>1. \A i \in 1 .. Len(s) : t[i + 1] # k
    BY <1>1, <1>2
  <2>2. \A i, j \in 1 .. Len(s) : t[i + 1] = t[j + 1] => i = j
    BY <1>1, <1>2
  <2> QED
    BY <1>2, <1>4, <2>1, <2>2
<1>6. DOMAIN m = {t[i] : i \in 1 .. Len(t)}
  <2>1. \A x \in DOMAIN m : \E i \in 1 .. Len(t) : x = t[i]
    <3>1. 1 \in 1 .. Len(t) /\ \A i \in 1 .. Len(s) : i + 1 \in 1 .. Len(t)
      BY <1>1, <1>2
    <3> QED
      BY <1>1, <1>2, <1>3, <3>1
  <2>2. ASSUME NEW i \in 1 .. Len(t) PROVE t[i] \in DOMAIN m
    <3>1. CASE i = 1
      BY <1>2, <1>3, <3>1
    <3>2. ASSUME NEW j \in 1 .. Len(s), i = j + 1 PROVE t[i] \in DOMAIN m
      BY <1>1, <1>2, <1>3, <3>2
    <3> QED
      BY <1>4, <3>1, <3>2
  <2> QED
    BY <2>1, <2>2
<1>7. IsMap(m, h, t)
  <2>1. \A x \in DOMAIN m : m[x] \in DOMAIN h /\ m[x][1] = x
    BY <1>3 DEF IsMap
  <2>2. m = [x \in DOMAIN m |-> m[x]]
    BY <1>3 DEF m, Put
  <2> QED
    <3>1. DOMAIN m = {t[i] : i \in 1 .. Len(t)} /\ \A i, l \in 1 .. Len(t) : t[i] = t[l] => i = l
      BY <1>2, <1>5, <1>6
    <3>2. m \in [DOMAIN m -> DOMAIN h]
      BY <2>1, <2>2
    <3> QED
      BY ONLY <1>2, <2>1, <3>1, <3>2 DEF IsMap
<1>8. At(m, t, 0) = null /\ At(m, t, 1) = node
  <2>1. 0 \notin 1 .. Len(t) /\ 1 \in 1 .. Len(t)
    BY <1>1, <1>2
  <2>2. m[t[1]] = node
    BY <1>2, <1>3
  <2> QED
    BY <2>1, <2>2 DEF At
<1>9. ASSUME NEW i \in Nat \ {0} PROVE At(m, t, i + 1) = At(map, s, i)
  <2>1. i + 1 \in 1 .. Len(t) <=> i \in 1 .. Len(s)
    BY <1>1, <1>2
  <2>2. CASE i \in 1 .. Len(s)
    <3>1. t[i + 1] = s[i] /\ s[i] \in DOMAIN map
      BY <1>1, <1>2, <2>2
    <3>2. m[t[i + 1]] = map[s[i]]
      BY <1>3, <3>1
    <3> QED
      BY <2>1, <2>2, <3>2 DEF At
  <2>3. CASE i \notin 1 .. Len(s)
    BY <2>1, <2>3 DEF At
  <2> QED
    BY <2>2, <2>3
<1> QED
  BY <1>2, <1>7, <1>8, <1>9 DEF t, m

\* Linking a node in front of a list makes the list with its key in front.
LEMMA PushNode ==
  ASSUME NEW map, NEW f, NEW r, NEW h, NEW s, IsList(map, f, r, h, s),
         NEW k \in Keys, k \notin DOMAIN map, NEW node \in DOMAIN h, node[1] = k
  PROVE  IsList(Put(map, k, node), node, IF r = null THEN node ELSE r,
                SetNext(SetPrev(h, f, node), node, f), <<k>> \o s)
<1> DEFINE t == <<k>> \o s
           m == Put(map, k, node)
           g1 == SetPrev(h, f, node)
           g == SetNext(g1, node, f)
           L == Len(s)
<1>1. /\ IsHeap(h) /\ IsMap(map, h, s)
      /\ f = At(map, s, 1) /\ r = At(map, s, L)
      /\ \A i \in 1 .. L : Linked(map, h, s, i)
  BY DEF IsList
<1>2. /\ IsMap(m, h, t) /\ Len(t) = L + 1
      /\ At(m, t, 1) = node
      /\ \A i \in Nat \ {0} : At(m, t, i + 1) = At(map, s, i)
  BY <1>1, PutAt
<1>3. /\ L \in Nat
      /\ \A i \in Int : At(map, s, i) \in DOMAIN h \cup {null}
      /\ \A i \in Int : At(map, s, i) # null <=> i \in 1 .. L
      /\ \A i \in 1 .. L : At(map, s, i)[1] = s[i]
      /\ \A i \in 1 .. L, j \in Int : At(map, s, i) = At(map, s, j) => i = j
  BY <1>1, AtDistinct
<1>4. null \notin DOMAIN h /\ f \in DOMAIN h \cup {null}
  BY <1>1, <1>3, NullIsNoNode DEF IsHeap
<1>5. \A i \in 1 .. L : At(map, s, i) # node /\ At(map, s, i) \in DOMAIN h
  BY <1>1, <1>3 DEF IsMap
<1> HIDE DEF t, m, L
<1>6. /\ IsHeap(g) /\ DOMAIN g = DOMAIN h
      /\ \A n \in DOMAIN h : /\ g[n].prev = (IF n = f THEN node ELSE h[n].prev)
                             /\ g[n].next = (IF n = node THEN f ELSE h[n].next)
  <2>1. /\ IsHeap(g1) /\ DOMAIN g1 = DOMAIN h
        /\ \A n \in DOMAIN h : g1[n].prev = (IF n = f THEN node ELSE h[n].prev) /\ g1[n].next = h[n].next
    <3>1. HasPrev(g1, h, f, node)
      BY <1>1, <1>4, SetPrevDoes
    <3> QED
      BY <3>1 DEF HasPrev
  <2> HIDE DEF g1
  <2>2. /\ IsHeap(g) /\ DOMAIN g = DOMAIN g1
        /\ \A n \in DOMAIN g1 : g[n].next = (IF n = node THEN f ELSE g1[n].next) /\ g[n].prev = g1[n].prev
    <3>1. f \in DOMAIN g1 \cup {null} /\ node \in DOMAIN g1 \cup {null}
      BY <1>4, <2>1
    <3>2. HasNext(g, g1, node, f)
      BY <2>1, <3>1, SetNextDoes
    <3> QED
      BY <3>2 DEF HasNext
  <2> QED
    BY <2>1, <2>2
<1> HIDE DEF g1, g
<1>7. IsMap(m, g, t)
  BY <1>2, <1>6 DEF IsMap
<1>8. Linked(m, g, t, 1)
  <2>1. 1 \in Nat \ {0} /\ 1 + 1 = 2 /\ ~ (1 > 1)
    OBVIOUS
  <2>2. At(m, t, 1 + 1) = f
    BY <1>1, <1>2, <2>1
  <2> QED
    BY <1>2, <1>6, <2>1, <2>2 DEF Linked
<1>9. ASSUME NEW i \in 1 .. L PROVE Linked(m, g, t, i + 1)
  <2>1. /\ i \in Nat \ {0} /\ i + 1 \in Nat \ {0} /\ i + 1 > 1 /\ (i + 1) - 1 = i
        /\ i # 1 => i - 1 \in Nat \ {0} /\ (i - 1) + 1 = i /\ i > 1
    BY <1>3
  <2> DEFINE a == At(map, s, i)
  <2>2. a \in DOMAIN h /\ a # node /\ At(m, t, i + 1) = a /\ At(m, t, (i + 1) + 1) = At(map, s, i + 1)
    BY <1>2, <1>5, <2>1
  <2>3. h[a].next = At(map, s, i + 1) /\ (i > 1 => h[a].prev = At(map, s, i - 1))
    BY <1>1 DEF Linked
  <2>4. a = f <=> i = 1
    BY <1>1, <1>3
  <2> HIDE DEF a
  <2>5. g[a].next = At(map, s, i + 1)
    BY <1>6, <2>2, <2>3
  <2>6. g[a].prev = At(m, t, i)
    <3>1. CASE i = 1
      BY <1>2, <1>6, <2>2, <2>4, <3>1
    <3>2. CASE i # 1
      <4>1. g[a].prev = At(map, s, i - 1)
        BY <1>6, <2>1, <2>2, <2>3, <2>4, <3>2
      <4>2. At(m, t, (i - 1) + 1) = At(map, s, i - 1)
        BY <1>2, <2>1, <3>2
      <4> QED
        BY <2>1, <3>2, <4>1, <4>2
    <3> QED
      BY <3>1, <3>2
  <2> QED
    BY <2>1, <2>2, <2>5, <2>6 DEF Linked
<1>10. \A i \in 1 .. Len(t) : Linked(m, g, t, i)
  <2> SUFFICES ASSUME NEW i \in 1 .. Len(t) PROVE Linked(m, g, t, i)
    OBVIOUS
  <2>1. i = 1 \/ (i - 1 \in 1 .. L /\ i = (i - 1) + 1)
    BY <1>2, <1>3
  <2> QED
    BY <1>8, <1>9, <2>1
<1>11. (IF r = null THEN node ELSE r) = At(m, t, Len(t))
  <2>1. L \in Int /\ (L # 0 <=> L \in 1 .. L) /\ 0 + 1 = 1
    BY <1>3
  <2>2. r = null <=> L = 0
    BY <1>1, <1>3, <2>1
  <2> QED
    BY <1>1, <1>2, <1>3, <2>1, <2>2
<1>12. IsList(m, node, IF r = null THEN node ELSE r, g, t)
  BY <1>2, <1>6, <1>7, <1>10, <1>11 DEF IsList
<1> QED
  BY <1>12 DEF m, g, g1, t

\* s without its j-th key.
Skip(s, j) == SubSeq(s, 1, j - 1) \o SubSeq(s, j + 1, Len(s))

Skips(t, s, j) ==
  /\ t \in Seq(Keys) /\ Len(t) = Len(s) - 1
  /\ \A i \in 1 .. Len(s) - 1 : t[i] = IF i < j THEN s[i] ELSE s[i + 1]

\* The keys before the j-th stay where they are, those after it move up.
LEMMA SkipProperties ==
  ASSUME NEW s \in Seq(Keys), NEW j \in 1 .. Len(s)
  PROVE  Skips(Skip(s, j), s, j)
<1> DEFINE L == Len(s)
           x == SubSeq(s, 1, j - 1)
           y == SubSeq(s, j + 1, L)
<1>1. /\ L \in Nat /\ j \in 1 .. L
      /\ 1 \in Int /\ j - 1 \in Int /\ j + 1 \in Int /\ L \in Int
      /\ \A i \in 1 .. L : s[i] \in Keys
  OBVIOUS
<1> HIDE DEF L
<1>2. /\ x \in Seq(Keys) /\ Len(x) = (IF 1 <= j - 1 THEN (j - 1) - 1 + 1 ELSE 0)
      /\ \A i \in 1 .. (j - 1) - 1 + 1 : x[i] = s[1 + i - 1]
  <2>1. \A i \in 1 .. j - 1 : s[i] \in Keys
    BY <1>1
  <2> QED
    BY <1>1, <2>1, SubSeqProperties
<1>3. /\ y \in Seq(Keys) /\ Len(y) = (IF j + 1 <= L THEN L - (j + 1) + 1 ELSE 0)
      /\ \A i \in 1 .. L - (j + 1) + 1 : y[i] = s[(j + 1) + i - 1]
  <2>1. \A i \in j + 1 .. L : s[i] \in Keys
    BY <1>1
  <2> QED
    BY <1>1, <2>1, SubSeqProperties
<1> HIDE DEF x, y
<1>4. /\ Len(x) = j - 1 /\ \A i \in 1 .. j - 1 : x[i] = s[i]
      /\ Len(y) = L - j /\ \A i \in 1 .. L - j : y[i] = s[j + i]
  <2>1. (j - 1) - 1 + 1 = j - 1 /\ L - (j + 1) + 1 = L - j
    BY <1>1
  <2>2. \A i \in 1 .. j - 1 : 1 + i - 1 = i
    BY <1>1
  <2>3. \A i \in 1 .. L - j : (j + 1) + i - 1 = j + i
    BY <1>1
  <2>4. (~ (1 <= j - 1) => j - 1 = 0) /\ (~ (j + 1 <= L) => L - j = 0)
    BY <1>1
  <2> QED
    BY <1>2, <1>3, <2>1, <2>2, <2>3, <2>4
<1>5. /\ x \o y \in Seq(Keys) /\ Len(x \o y) = Len(x) + Len(y)
      /\ \A i \in 1 .. Len(x) + Len(y) : (x \o y)[i] = IF i <= Len(x) THEN x[i] ELSE y[i - Len(x)]
  BY <1>2, <1>3, ConcatProperties
<1> DEFINE z == x \o y
<1>6. Skip(s, j) = z
  BY DEF Skip, x, y, L
<1> HIDE DEF z
<1>7. /\ z \in Seq(Keys) /\ Len(z) = L - 1
      /\ \A i \in 1 .. L - 1 : z[i] = IF i <= j - 1 THEN x[i] ELSE y[i - (j - 1)]
  <2>1. Len(x) + Len(y) = L - 1
    BY <1>1, <1>4
  <2> QED
    BY <1>4, <1>5, <2>1 DEF z
<1>8. ASSUME NEW i \in 1 .. L - 1 PROVE z[i] = IF i < j THEN s[i] ELSE s[i + 1]
  <2>1. CASE i < j
    <3>1. i <= j - 1 /\ i \in 1 .. j - 1
      BY <1>1, <2>1
    <3> QED
      BY <1>4, <1>7, <2>1, <3>1
  <2>2. CASE ~ (i < j)
    <3>1. ~ (i <= j - 1) /\ i - (j - 1) \in 1 .. L - j /\ j + (i - (j - 1)) = i + 1
      BY <1>1, <2>2
    <3>2. y[i - (j - 1)] = s[j + (i - (j - 1))]
      BY <1>4, <3>1
    <3> QED
      BY <1>7, <2>2, <3>1, <3>2
  <2> QED
    BY <2>1, <2>2
<1> QED
  BY <1>6, <1>7, <1>8 DEF L, Skips

\* The nodes of s without its j-th key.
LEMMA SkipAt ==
  ASSUME NEW map, NEW h, NEW s, IsHeap(h), IsMap(map, h, s), NEW j \in 1 .. Len(s)
  PROVE  /\ IsMap(Without(map, s[j]), h, Skip(s, j)) /\ Len(Skip(s, j)) = Len(s) - 1
         /\ \A i \in 0 .. Len(s) : At(Without(map, s[j]), Skip(s, j), i)
                                     = IF i < j THEN At(map, s, i) ELSE At(map, s, i + 1)
<1> DEFINE t == Skip(s, j)
           m == Without(map, s[j])
           L == Len(s)
<1>1. /\ s \in Seq(Keys) /\ DOMAIN map = {s[i] : i \in 1 .. Len(s)}
      /\ \A i, l \in 1 .. Len(s) : s[i] = s[l] => i = l
  BY DEF IsMap
<1>2. /\ t \in Seq(Keys) /\ Len(t) = L - 1 /\ L \in Nat
      /\ \A i \in 1 .. L - 1 : t[i] = IF i < j THEN s[i] ELSE s[i + 1]
  <2>1. Skips(t, s, j)
    BY <1>1, SkipProperties
  <2> QED
    BY <1>1, <2>1 DEF Skips
<1>3. DOMAIN m = DOMAIN map \ {s[j]} /\ \A x \in DOMAIN m : m[x] = map[x]
  BY DEF Without
<1> HIDE DEF t, m
<1>4. \A i \in 1 .. L - 1 : i \in 1 .. L /\ i + 1 \in 1 .. L /\ (i < j => i # j) /\ (~ (i < j) => i + 1 # j)
  BY <1>2
<1>5. \A i, l \in 1 .. L - 1 : t[i] = t[l] => i = l
  <2> SUFFICES ASSUME NEW i \in 1 .. L - 1, NEW l \in 1 .. L - 1, t[i] = t[l] PROVE i = l
    OBVIOUS
  <2>1. CASE i < j /\ l < j
    BY <1>1, <1>2, <1>4, <2>1
  <2>2. CASE i < j /\ ~ (l < j)
    <3>1. s[i] = s[l + 1]
      BY <1>2, <2>2
    <3>2. i = l + 1
      BY <1>1, <1>4, <3>1
    <3> QED
      BY <1>2, <2>2, <3>2
  <2>3. CASE ~ (i < j) /\ l < j
    <3>1. s[i + 1] = s[l]
      BY <1>2, <2>3
    <3>2. i + 1 = l
      BY <1>1, <1>4, <3>1
    <3> QED
      BY <1>2, <2>3, <3>2
  <2>4. CASE ~ (i < j) /\ ~ (l < j)
    <3>1. s[i + 1] = s[l + 1]
      BY <1>2, <2>4
    <3>2. i + 1 = l + 1
      BY <1>1, <1>4, <3>1
    <3> QED
      BY <1>2, <3>2
  <2> QED
    BY <2>1, <2>2, <2>3, <2>4
<1>6. DOMAIN m = {t[i] : i \in 1 .. L - 1}
  <2>1. ASSUME NEW x \in DOMAIN m PROVE \E i \in 1 .. L - 1 : x = t[i]
    <3>1. PICK l \in 1 .. L : x = s[l]
      BY <1>1, <1>3
    <3>2. l # j
      BY <1>3, <3>1
    <3>3. CASE l < j
      <4>1. l \in 1 .. L - 1
        BY <1>2, <3>3
      <4> QED
        BY <1>2, <3>1, <3>3, <4>1
    <3>4. CASE l > j
      <4>1. l - 1 \in 1 .. L - 1 /\ ~ (l - 1 < j) /\ (l - 1) + 1 = l
        BY <1>2, <3>4
      <4> QED
        BY <1>2, <3>1, <4>1
    <3> QED
      BY <1>2, <3>2, <3>3, <3>4
  <2>2. ASSUME NEW i \in 1 .. L - 1 PROVE t[i] \in DOMAIN m
    BY <1>1, <1>2, <1>3, <1>4
  <2> QED
    BY <2>1, <2>2
<1>7. IsMap(m, h, t)
  <2>1. \A x \in DOMAIN m : m[x] \in DOMAIN h /\ m[x][1] = x
    BY <1>3 DEF IsMap
  <2>2. m = [x \in DOMAIN m |-> m[x]]
    BY <1>3 DEF m, Without
  <2> QED
    <3>1. DOMAIN m = {t[i] : i \in 1 .. Len(t)} /\ \A i, l \in 1 .. Len(t) : t[i] = t[l] => i = l
      BY <1>2, <1>5, <1>6
    <3>2. m \in [DOMAIN m -> DOMAIN h]
      BY <2>1, <2>2
    <3> QED
      BY ONLY <1>2, <2>1, <3>1, <3>2 DEF IsMap
<1>8. ASSUME NEW i \in 0 .. L
      PROVE  At(m, t, i) = IF i < j THEN At(map, s, i) ELSE At(map, s, i + 1)
  <2>1. CASE i \in 1 .. L - 1
    <3>1. t[i] \in DOMAIN m /\ i \in 1 .. Len(t)
      BY <1>2, <1>6, <2>1
    <3>2. At(m, t, i) = map[t[i]]
      BY <1>3, <3>1 DEF At
    <3> QED
      BY <1>2, <1>4, <2>1, <3>2 DEF At
  <2>2. CASE i = 0
    BY <1>2, <2>2 DEF At
  <2>3. CASE i = L /\ L # 0
    <3>1. i \notin 1 .. Len(t) /\ i + 1 \notin 1 .. L /\ ~ (i < j)
      BY <1>2, <2>3
    <3> QED
      BY <3>1 DEF At
  <2> QED
    BY <1>2, <2>1, <2>2, <2>3
<1> QED
  BY <1>2, <1>7, <1>8 DEF t, m

\* Taking the j-th node out of a list makes the list without its key.  A node
\* in front must have no pointer back.
LEMMA TakeOut ==
  ASSUME NEW map, NEW f, NEW r, NEW h, NEW s, IsList(map, f, r, h, s), NEW j \in 1 .. Len(s),
         NEW p, p = h[map[s[j]]].prev, NEW n, n = h[map[s[j]]].next, j = 1 => p = null
  PROVE  /\ p = At(map, s, j - 1) /\ n = At(map, s, j + 1)
         /\ IsList(Without(map, s[j]), IF p = null THEN n ELSE f, IF n = null THEN p ELSE r,
                   SetPrev(SetNext(h, p, n), n, p), Skip(s, j))
<1> DEFINE t == Skip(s, j)
           m == Without(map, s[j])
           g1 == SetNext(h, p, n)
           g == SetPrev(g1, n, p)
           L == Len(s)
           a(i) == At(map, s, i)
           b(i) == At(m, t, i)
<1>1. /\ IsHeap(h) /\ IsMap(map, h, s)
      /\ f = a(1) /\ r = a(L)
      /\ \A i \in 1 .. L : Linked(map, h, s, i)
  BY DEF IsList
<1>2. /\ L \in Nat /\ j \in 1 .. L
      /\ \A i \in Int : a(i) \in DOMAIN h \cup {null}
      /\ \A i \in Int : a(i) # null <=> i \in 1 .. L
      /\ \A i \in 1 .. L : a(i) = map[s[i]] /\ a(i) \in DOMAIN h
      /\ \A i \in 1 .. L, l \in Int : a(i) = a(l) => i = l
  BY <1>1, AtDistinct
<1>3. IsMap(m, h, t) /\ Len(t) = L - 1 /\ \A i \in 0 .. L : b(i) = IF i < j THEN a(i) ELSE a(i + 1)
  BY <1>1, SkipAt
<1>4. \A i \in 1 .. L : h[a(i)].next = a(i + 1) /\ (i > 1 => h[a(i)].prev = a(i - 1))
  BY <1>1 DEF Linked
<1>5. p = a(j - 1) /\ n = a(j + 1)
  <2>1. j = 1 => a(j - 1) = null
    BY <1>2
  <2> QED
    BY <1>2, <1>4, <2>1
<1> HIDE DEF t, m, L, a, b
<1>6. p \in DOMAIN h \cup {null} /\ n \in DOMAIN h \cup {null} /\ null \notin DOMAIN h
  BY <1>1, <1>2, <1>5, NullIsNoNode DEF IsHeap
<1>7. /\ IsHeap(g) /\ DOMAIN g = DOMAIN h
      /\ \A x \in DOMAIN h : /\ g[x].next = (IF x = p THEN n ELSE h[x].next)
                             /\ g[x].prev = (IF x = n THEN p ELSE h[x].prev)
  <2>1. HasNext(g1, h, p, n)
    BY <1>1, <1>6, SetNextDoes
  <2> HIDE DEF g1
  <2>2. IsHeap(g1) /\ DOMAIN g1 = DOMAIN h
    BY <2>1 DEF HasNext
  <2>3. HasPrev(g, g1, n, p)
    BY <1>6, <2>2, SetPrevDoes
  <2> QED
    BY <2>1, <2>3 DEF HasNext, HasPrev
<1> HIDE DEF g1, g
<1>8. IsMap(m, g, t)
  BY <1>3, <1>7 DEF IsMap
<1>9. ASSUME NEW i \in 1 .. L - 1 PROVE g[b(i)].next = b(i + 1) /\ (i > 1 => g[b(i)].prev = b(i - 1))
  <2>1. i \in 0 .. L /\ i + 1 \in 0 .. L /\ i - 1 \in 0 .. L
    BY <1>2
  <2>2. CASE i < j
    <3>1. i \in 1 .. L /\ i - 1 < j /\ i # j + 1 /\ j - 1 \in Int /\ j + 1 \in Int
      BY <1>2, <2>2
    <3>2. b(i) = a(i) /\ b(i - 1) = a(i - 1)
      BY <1>3, <2>1, <2>2, <3>1
    <3>3. a(i) \in DOMAIN h /\ a(i) # n
      BY <1>2, <1>5, <3>1
    <3>4. i > 1 => g[b(i)].prev = b(i - 1)
      BY <1>4, <1>7, <3>1, <3>2, <3>3
    <3>5. CASE i = j - 1
      <4>1. a(i) = p /\ b(i + 1) = a(j + 1)
        <5>1. i + 1 = j /\ ~ (j < j)
          BY <3>5
        <5> QED
          BY <1>3, <1>5, <2>1, <3>5, <5>1
      <4> QED
        BY <1>5, <1>7, <3>2, <3>3, <3>4, <4>1
    <3>6. CASE i # j - 1
      <4>1. a(i) # p
        BY <1>2, <1>5, <3>1, <3>6
      <4>2. i + 1 < j
        BY <2>2, <3>6
      <4>3. b(i + 1) = a(i + 1)
        BY <1>3, <2>1, <4>2
      <4> QED
        BY <1>4, <1>7, <3>1, <3>2, <3>3, <3>4, <4>1, <4>3
    <3> QED
      BY <3>5, <3>6
  <2>3. CASE ~ (i < j)
    <3> DEFINE k == i + 1
    <3>1. k \in 1 .. L /\ k # j - 1 /\ j - 1 \in Int /\ j + 1 \in Int /\ ~ (i + 1 < j) /\ k > 1 /\ k - 1 = i
      BY <1>2, <2>3
    <3>2. b(i) = a(k) /\ b(i + 1) = a(k + 1)
      BY <1>3, <2>1, <2>3, <3>1
    <3> HIDE DEF k
    <3>3. a(k) \in DOMAIN h /\ a(k) # p
      BY <1>2, <1>5, <3>1
    <3>4. g[b(i)].next = b(i + 1)
      BY <1>4, <1>7, <3>1, <3>2, <3>3
    <3>5. CASE i = j
      <4>1. a(k) = n
        BY <1>5, <3>5 DEF k
      <4>2. b(i - 1) = a(j - 1)
        <5>1. j - 1 < j
          OBVIOUS
        <5> QED
          BY <1>3, <2>1, <3>5, <5>1
      <4> QED
        BY <1>5, <1>7, <3>2, <3>3, <3>4, <4>1, <4>2
    <3>6. CASE i # j
      <4>1. a(k) # n
        <5>1. k # j + 1
          BY <3>6 DEF k
        <5> QED
          BY <1>2, <1>5, <3>1, <5>1
      <4>2. ~ (i - 1 < j) /\ (i - 1) + 1 = k - 1
        BY <2>3, <3>1, <3>6
      <4>3. b(i - 1) = a(k - 1)
        BY <1>3, <2>1, <4>2
      <4> QED
        BY <1>4, <1>7, <3>1, <3>2, <3>3, <3>4, <4>1, <4>3
    <3> QED
      BY <3>5, <3>6
  <2> QED
    BY <2>2, <2>3
<1>10. \A i \in 1 .. Len(t) : Linked(m, g, t, i)
  BY <1>3, <1>9 DEF Linked, b
<1>11. (IF p = null THEN n ELSE f) = b(1)
  <2>1. 1 \in 0 .. L /\ j - 1 \in Int /\ (j - 1 \in 1 .. L <=> j # 1)
    BY <1>2
  <2>2. p = null <=> j = 1
    BY <1>2, <1>5, <2>1
  <2>3. b(1) = IF j = 1 THEN a(2) ELSE a(1)
    <3>1. (1 < j <=> j # 1) /\ 1 + 1 = 2
      BY <1>2
    <3>2. b(1) = IF 1 < j THEN a(1) ELSE a(1 + 1)
      BY <1>3, <2>1
    <3> QED
      BY <3>1, <3>2
  <2>4. j = 1 => n = a(2)
    BY <1>5
  <2> QED
    BY <1>1, <2>2, <2>3, <2>4
<1>12. (IF n = null THEN p ELSE r) = b(L - 1)
  <2>1. L - 1 \in 0 .. L /\ j + 1 \in Int /\ (j + 1 \in 1 .. L <=> j # L) /\ (L - 1) + 1 = L
    BY <1>2
  <2>2. n = null <=> j = L
    BY <1>2, <1>5, <2>1
  <2>3. b(L - 1) = IF j = L THEN a(j - 1) ELSE a(L)
    <3>1. L - 1 < j <=> j = L
      BY <1>2
    <3>2. b(L - 1) = IF L - 1 < j THEN a(L - 1) ELSE a((L - 1) + 1)
      BY <1>3, <2>1
    <3> QED
      BY <2>1, <3>1, <3>2
  <2> QED
    BY <1>1, <1>5, <2>2, <2>3
<1>13. IsList(m, IF p = null THEN n ELSE f, IF n = null THEN p ELSE r, g, t)
  BY <1>3, <1>7, <1>8, <1>10, <1>11, <1>12 DEF IsList, b
<1> QED
  BY <1>5, <1>13 DEF m, g, g1, t, a

-----------------------------------------------------------------------------
(* The invariant                                                           *)

\* The pointers make the list of the keys by their last access.
ListInv == IsList(node_map, front, rear, heap, order)

\* The record of the accesses without a key is the record without its place.
LEMMA WithoutIsSkip ==
  ASSUME ListInv, NEW j \in 1 .. Len(order)
  PROVE  calls!Without(order[j]) = Skip(order, j)
<1>1. order \in Seq(Keys) /\ \A i, l \in 1 .. Len(order) : order[i] = order[l] => i = l
  BY DEF ListInv, IsList, IsMap
<1>2. DOMAIN order = 1 .. Len(order)
  BY <1>1
<1> DEFINE c == CHOOSE i \in DOMAIN order : order[i] = order[j]
<1>3. c = j
  BY <1>1, <1>2
<1>4. calls!Without(order[j]) = SubSeq(order, 1, c - 1) \o SubSeq(order, c + 1, Len(order))
  BY DEF calls!Without, calls!RemoveAt
<1> HIDE DEF c
<1> QED
  BY <1>3, <1>4 DEF Skip

\* Before the first call the list is empty.
LEMMA EmptyList == ASSUME Init PROVE IsList(node_map, front, rear, heap, <<>>)
<1>1. /\ front = null /\ rear = null
      /\ DOMAIN node_map = {} /\ DOMAIN heap = {}
      /\ node_map = [k \in {} |-> null] /\ heap = [n \in {} |-> null]
  BY DEF Init
<1> DEFINE s == <<>>
<1>2. s \in Seq(Keys) /\ Len(s) = 0 /\ 1 .. Len(s) = {}
  OBVIOUS
<1> HIDE DEF s
<1>3. IsHeap(heap)
  <2>1. IsFiniteSet({})
    BY FS_EmptySet
  <2> QED
    BY <1>1, <2>1 DEF IsHeap
<1>4. IsMap(node_map, heap, s)
  <2>1. {s[i] : i \in 1 .. Len(s)} = {}
    BY <1>2
  <2>2. node_map \in [{} -> DOMAIN heap]
    BY <1>1
  <2> QED
    BY <1>1, <1>2, <2>1, <2>2 DEF IsMap
<1>5. At(node_map, s, 1) = null /\ At(node_map, s, Len(s)) = null
  BY <1>2 DEF At
<1>6. IsList(node_map, front, rear, heap, s)
  BY <1>1, <1>2, <1>3, <1>4, <1>5 DEF IsList
<1> QED
  BY <1>6 DEF s

\* The invariant holds at first.
LEMMA InitListInv == RecencyInit => ListInv
BY EmptyList DEF RecencyInit, calls!Init, ListInv

\* A heap with one node more, to which nothing leads yet.
LEMMA NewNode ==
  ASSUME NEW map, NEW f, NEW r, NEW h, NEW s, IsList(map, f, r, h, s),
         NEW k \in Keys, NEW node \in Nodes \ DOMAIN h, node[1] = k,
         NEW g, g = [n \in DOMAIN h \cup {node} |->
                       IF n = node THEN [key |-> k, prev |-> null, next |-> f] ELSE h[n]]
  PROVE  IsList(map, f, r, g, s)
<1>1. /\ IsHeap(h) /\ IsMap(map, h, s)
      /\ f = At(map, s, 1) /\ r = At(map, s, Len(s))
      /\ \A i \in 1 .. Len(s) : Linked(map, h, s, i)
  BY DEF IsList
<1>2. f \in DOMAIN h \cup {null} /\ \A i \in 1 .. Len(s) : At(map, s, i) \in DOMAIN h
  <2>1. 1 \in Int
    OBVIOUS
  <2> QED
    BY <1>1, <2>1, AtDistinct
<1>3. /\ DOMAIN g = DOMAIN h \cup {node} /\ \A n \in DOMAIN h : g[n] = h[n]
      /\ g[node] = [key |-> k, prev |-> null, next |-> f]
  OBVIOUS
<1>4. IsHeap(g)
  <2>1. IsFiniteSet(DOMAIN g) /\ DOMAIN g \subseteq Nodes
    BY <1>1, <1>3, FS_AddElement DEF IsHeap
  <2>2. \A n \in DOMAIN h : g[n] \in Node /\ g[n].key = n[1] /\ Pointers(g, n) \subseteq DOMAIN g
    BY <1>1, <1>3 DEF IsHeap, Pointers
  <2>3. g[node] \in Node /\ g[node].key = node[1] /\ Pointers(g, node) \subseteq DOMAIN g
    BY <1>1, <1>2, <1>3 DEF Node, IsHeap, Pointers
  <2>4. \A n \in DOMAIN g : g[n] \in Node /\ g[n].key = n[1] /\ Pointers(g, n) \subseteq DOMAIN g
    BY <1>3, <2>2, <2>3
  <2>5. g = [n \in DOMAIN g |-> g[n]]
    BY <1>3
  <2> QED
    BY <2>1, <2>4, <2>5 DEF IsHeap
<1>5. IsMap(map, g, s)
  BY <1>1, <1>3 DEF IsMap
<1>6. \A i \in 1 .. Len(s) : Linked(map, g, s, i)
  BY <1>1, <1>2, <1>3 DEF Linked
<1> QED
  BY <1>1, <1>4, <1>5, <1>6 DEF IsList

\* Two heaps of nodes with the same fields are the same.
LEMMA SameHeap ==
  ASSUME NEW g, NEW h, IsHeap(g), IsHeap(h), DOMAIN g = DOMAIN h,
         \A n \in DOMAIN h : g[n].prev = h[n].prev /\ g[n].next = h[n].next
  PROVE  g = h
<1>1. \A n \in DOMAIN h : g[n] \in Node /\ h[n] \in Node /\ g[n].key = h[n].key
  BY DEF IsHeap
<1>2. ASSUME NEW n \in DOMAIN h PROVE g[n] = h[n]
  <2>1. /\ g[n] = [key |-> g[n].key, prev |-> g[n].prev, next |-> g[n].next]
        /\ h[n] = [key |-> h[n].key, prev |-> h[n].prev, next |-> h[n].next]
    BY <1>1 DEF Node
  <2> QED
    BY <1>1, <2>1
<1>3. g \in [DOMAIN h -> Node] /\ h \in [DOMAIN h -> Node]
  BY DEF IsHeap
<1> QED
  BY <1>2, <1>3

\* insert (lru.cpp:5) puts the key in front.
LEMMA InsertKeepsList ==
  ASSUME NEW s, IsList(node_map, front, rear, heap, s), NEW k \in Keys, Insert(k)
  PROVE  IsList(node_map', front', rear', heap', <<k>> \o s)
<1> DEFINE unused == {n \in Nodes \ DOMAIN heap : n[1] = k}
           node == CHOOSE n \in unused : \A m \in unused : n[2] <= m[2]
           fresh == [n \in DOMAIN heap \cup {node} |->
                       IF n = node THEN [key |-> k, prev |-> null, next |-> front] ELSE heap[n]]
           map == Put(node_map, k, node)
           g1 == SetPrev(fresh, front, node)
           g == SetNext(g1, node, front)
           r == IF rear = null THEN node ELSE rear
<1>1. /\ k \notin DOMAIN node_map /\ unused # {}
      /\ Becomes(map, node, r, g1)
  BY DEF Insert, Put
<1>2. node \in unused
  <2> DEFINE ages == {n[2] : n \in unused}
  <2>1. ages \subseteq Nat /\ ages # {}
    BY <1>1 DEF Nodes
  <2>2. PICK least \in ages : \A x \in ages : least <= x
    <3> HIDE DEF ages
    <3> QED
      BY <2>1, SmallestElement
  <2>3. PICK n \in unused : n[2] = least
    OBVIOUS
  <2>4. \A m \in unused : n[2] <= m[2]
    BY <2>2, <2>3
  <2> HIDE DEF unused
  <2> QED
    BY <2>4
<1>3. node \in Nodes \ DOMAIN heap /\ node[1] = k
  BY <1>2
<1> HIDE DEF node, unused
<1>4. IsList(node_map, front, rear, fresh, s) /\ node \in DOMAIN fresh /\ fresh[node].next = front
  <2> DEFINE h0 == fresh
  <2>1. h0 = [n \in DOMAIN heap \cup {node} |->
                IF n = node THEN [key |-> k, prev |-> null, next |-> front] ELSE heap[n]]
    OBVIOUS
  <2>2. node \in DOMAIN h0 /\ h0[node].next = front
    OBVIOUS
  <2> HIDE DEF h0
  <2>3. IsList(node_map, front, rear, h0, s)
    BY <1>3, <2>1, NewNode
  <2> QED
    BY <2>2, <2>3 DEF h0
<1> HIDE DEF fresh
<1>5. IsList(map, node, r, g, <<k>> \o s)
  BY <1>1, <1>3, <1>4, PushNode
<1>6. g = g1
  <2>1. IsHeap(fresh) /\ front \in DOMAIN fresh \cup {null}
    <3>1. IsHeap(fresh) /\ IsMap(node_map, fresh, s) /\ front = At(node_map, s, 1) /\ 1 \in Int
      BY <1>4 DEF IsList
    <3> QED
      BY <3>1, AtDistinct
  <2>2. HasPrev(g1, fresh, front, node)
    BY <1>4, <2>1, SetPrevDoes
  <2> HIDE DEF g1
  <2>3. /\ IsHeap(g1) /\ DOMAIN g1 = DOMAIN fresh
        /\ front \in DOMAIN g1 \cup {null} /\ node \in DOMAIN g1 \cup {null}
    BY <1>4, <2>1, <2>2 DEF HasPrev
  <2>4. HasNext(g, g1, node, front)
    BY <2>3, SetNextDoes
  <2>5. g1[node].next = front
    BY <1>4, <2>2 DEF HasPrev
  <2> HIDE DEF g
  <2> QED
    BY <2>3, <2>4, <2>5, SameHeap DEF HasNext
<1> HIDE DEF map, g1, g, r
<1>7. IsList(map, node, r, heap', <<k>> \o s) /\ node_map' = map /\ front' = node /\ rear' = r
  BY <1>1, <1>5, <1>6, BecomesList
<1> QED
  BY <1>7

\* Where a listed key is: its position in the order, the order without it, and
\* whether its node is the first or the last of the list.
LEMMA PlaceOf ==
  ASSUME NEW s, IsList(node_map, front, rear, heap, s), NEW k \in DOMAIN node_map
  PROVE  \E j \in 1 .. Len(s) :
           /\ s[j] = k
           /\ node_map[k] = front <=> j = 1
           /\ node_map[k] = rear <=> j = Len(s)
<1>1. /\ IsHeap(heap) /\ IsMap(node_map, heap, s)
      /\ front = At(node_map, s, 1) /\ rear = At(node_map, s, Len(s))
  BY DEF IsList
<1>2. PICK j \in 1 .. Len(s) : s[j] = k
  BY <1>1 DEF IsMap
<1>4. /\ Len(s) \in Nat /\ At(node_map, s, j) = node_map[k]
      /\ \A i \in 1 .. Len(s), l \in Int :
           At(node_map, s, i) = At(node_map, s, l) => i = l
  BY <1>1, <1>2, AtDistinct
<1>5. (node_map[k] = front <=> j = 1) /\ (node_map[k] = rear <=> j = Len(s))
  <2>1. 1 \in Int /\ Len(s) \in Int
    BY <1>4
  <2> QED
    BY <1>1, <1>4, <2>1
<1> QED
  BY <1>2, <1>5

\* remove (lru.cpp:22) takes the key out, wherever it is, if the client keeps
\* to the contract.
LEMMA RemoveKeepsList ==
  ASSUME NEW s, IsList(node_map, front, rear, heap, s), SafeUse, NEW k, Remove(k)
  PROVE  \E j \in 1 .. Len(s) : s[j] = k /\ IsList(node_map', front', rear', heap', Skip(s, j))
<1> DEFINE node == node_map[k]
           p == heap[node].prev
           n == heap[node].next
           map == Without(node_map, k)
           f == IF p = null THEN n ELSE front
           r == IF n = null THEN p ELSE rear
           g == SetPrev(SetNext(heap, p, n), n, p)
<1>1. /\ k \in DOMAIN node_map
      /\ node = front => ~ StaleFront
      /\ Becomes(map, f, r, g)
  BY DEF Remove
<1>2. PICK j \in 1 .. Len(s) : /\ s[j] = k
                               /\ node = front <=> j = 1
  BY <1>1, PlaceOf
<1>3. front # null \/ node # front
  <2>1. IsHeap(heap) /\ IsMap(node_map, heap, s)
    BY DEF IsList
  <2> QED
    BY <1>1, <2>1, NullIsNoNode DEF IsHeap, IsMap
<1>4. j = 1 => p = null
  BY <1>1, <1>2, <1>3 DEF StaleFront
<1>5. IsList(map, f, r, g, Skip(s, j))
  <2>1. PICK q, m : q = p /\ m = n
    OBVIOUS
  <2>2. /\ q = heap[node_map[s[j]]].prev /\ m = heap[node_map[s[j]]].next
        /\ j = 1 => q = null
    BY <1>2, <1>4, <2>1
  <2>3. IsList(Without(node_map, s[j]), IF q = null THEN m ELSE front,
               IF m = null THEN q ELSE rear, SetPrev(SetNext(heap, q, m), m, q), Skip(s, j))
    BY <2>2, TakeOut
  <2> QED
    BY <1>2, <2>1, <2>3
<1> HIDE DEF node, p, n, map, f, r, g
<1>6. /\ IsList(map, f, r, heap', Skip(s, j))
      /\ node_map' = map /\ front' = f /\ rear' = r
  BY <1>1, <1>5, BecomesList
<1> QED
  BY <1>2, <1>6

\* Moving the first key to the front changes nothing.
LEMMA FrontFirst ==
  ASSUME NEW s \in Seq(Keys), 1 \in 1 .. Len(s)
  PROVE  <<s[1]>> \o Skip(s, 1) = s
<1> DEFINE t == Skip(s, 1)
           u == <<s[1]>> \o t
<1>1. Skips(t, s, 1)
  BY SkipProperties
<1> HIDE DEF t
<1>2. /\ t \in Seq(Keys) /\ Len(t) = Len(s) - 1 /\ Len(s) \in Nat /\ s[1] \in Keys
      /\ \A i \in 1 .. Len(s) - 1 : t[i] = s[i + 1]
  <2>1. \A i \in 1 .. Len(s) - 1 : ~ (i < 1)
    OBVIOUS
  <2> QED
    BY <1>1, <2>1 DEF Skips
<1>3. /\ u \in Seq(Keys) /\ Len(u) = 1 + Len(t)
      /\ u[1] = s[1] /\ \A i \in 1 .. Len(t) : u[i + 1] = t[i]
  BY <1>2
<1> HIDE DEF u
<1>4. ASSUME NEW i \in 1 .. Len(s) PROVE u[i] = s[i]
  <2>1. CASE i = 1
    BY <1>3, <2>1
  <2>2. CASE i # 1
    <3> DEFINE l == i - 1
    <3>1. l \in 1 .. Len(t) /\ l \in 1 .. Len(s) - 1 /\ i = l + 1
      BY <1>2, <2>2
    <3> HIDE DEF l
    <3> QED
      BY <1>2, <1>3, <3>1
  <2> QED
    BY <2>1, <2>2
<1>5. Len(u) = Len(s)
  BY <1>2, <1>3
<1> QED
  BY <1>3, <1>4, <1>5, SeqEqual DEF u, t

\* update (lru.cpp:45) moves the key to the front, wherever it is.
LEMMA UpdateKeepsList ==
  ASSUME NEW s, IsList(node_map, front, rear, heap, s), NEW k, Update(k)
  PROVE  \E j \in 1 .. Len(s) : s[j] = k /\ IsList(node_map', front', rear', heap', <<k>> \o Skip(s, j))
<1> DEFINE node == node_map[k]
           p == heap[node].prev
           n == heap[node].next
           gone == SetPrev(SetNext(heap, p, n), n, p)
           g == SetNext(SetPrev(gone, front, node), node, front)
           r == IF p # null /\ node = rear THEN p ELSE rear
<1>1. /\ k \in DOMAIN node_map
      /\ IF node = front THEN UNCHANGED lru_vars ELSE Becomes(node_map, node, r, g)
  BY DEF Update
<1>2. PICK j \in 1 .. Len(s) : /\ s[j] = k
                               /\ node = front <=> j = 1
                               /\ node = rear <=> j = Len(s)
  BY <1>1, PlaceOf
<1>3. IsHeap(heap) /\ IsMap(node_map, heap, s)
  BY DEF IsList
<1>4. CASE node = front
  <2>1. j = 1
    BY <1>2, <1>4
  <2>2. <<k>> \o Skip(s, j) = s
    <3>1. s \in Seq(Keys)
      BY <1>3 DEF IsMap
    <3>2. <<s[1]>> \o Skip(s, 1) = s
      BY <2>1, <3>1, FrontFirst
    <3> QED
      BY <1>2, <2>1, <3>2
  <2>3. node_map' = node_map /\ front' = front /\ rear' = rear /\ heap' = heap
    BY <1>1, <1>4 DEF lru_vars
  <2>4. IsList(node_map', front', rear', heap', <<k>> \o Skip(s, j))
    BY <2>2, <2>3
  <2> QED
    BY <1>2, <2>4
<1>5. CASE node # front
  <2>1. j # 1
    BY <1>2, <1>5
  <2> DEFINE map == Without(node_map, k)
             f1 == IF p = null THEN n ELSE front
             r1 == IF n = null THEN p ELSE rear
  <2>2. IsList(map, f1, r1, gone, Skip(s, j)) /\ p = At(node_map, s, j - 1)
        /\ n = At(node_map, s, j + 1)
    <3>1. PICK q, m : q = p /\ m = n
      OBVIOUS
    <3>2. /\ q = heap[node_map[s[j]]].prev /\ m = heap[node_map[s[j]]].next
          /\ j = 1 => q = null
      BY <1>2, <2>1, <3>1
    <3>3. /\ q = At(node_map, s, j - 1) /\ m = At(node_map, s, j + 1)
          /\ IsList(Without(node_map, s[j]), IF q = null THEN m ELSE front,
                    IF m = null THEN q ELSE rear, SetPrev(SetNext(heap, q, m), m, q), Skip(s, j))
      BY <3>2, TakeOut
    <3> QED
      BY <1>2, <3>1, <3>3
  <2>3. p # null /\ (n = null <=> node = rear)
    <3>1. /\ Len(s) \in Nat
          /\ \A i \in Int : At(node_map, s, i) # null <=> i \in 1 .. Len(s)
      BY <1>3, AtDistinct
    <3>2. /\ j - 1 \in Int /\ j + 1 \in Int /\ j - 1 \in 1 .. Len(s)
          /\ j + 1 \in 1 .. Len(s) <=> j # Len(s)
      BY <2>1, <3>1
    <3> QED
      BY <1>2, <2>2, <3>1, <3>2
  <2>4. /\ k \in Keys /\ k \notin DOMAIN map /\ node[1] = k
        /\ Put(map, k, node) = node_map /\ node \in DOMAIN heap
    <3>1. k \in Keys /\ node[1] = k /\ node \in DOMAIN heap
      BY <1>1, <1>2, <1>3 DEF IsMap
    <3>2. DOMAIN map = DOMAIN node_map \ {k} /\ \A x \in DOMAIN map : map[x] = node_map[x]
      BY DEF Without
    <3>3. node_map = [x \in DOMAIN node_map |-> node_map[x]]
      BY <1>3 DEF IsMap
    <3>4. Put(map, k, node) = [x \in DOMAIN node_map |-> node_map[x]]
      <4> HIDE DEF map
      <4> QED
        BY <1>1, <3>2 DEF Put
    <3> QED
      BY <3>1, <3>2, <3>3, <3>4
  <2>5. node \in DOMAIN gone
    <3> HIDE DEF node, p, n
    <3>1. /\ 1 \in Int /\ j - 1 \in Int /\ j + 1 \in Int
          /\ \A i \in Int : At(node_map, s, i) \in DOMAIN heap \cup {null}
      BY <1>3, AtDistinct
    <3>2. p \in DOMAIN heap \cup {null} /\ n \in DOMAIN heap \cup {null}
      BY <2>2, <3>1
    <3> DEFINE half == SetNext(heap, p, n)
    <3>3. HasNext(half, heap, p, n)
      BY <1>3, <3>2, SetNextDoes
    <3> HIDE DEF half
    <3>4. IsHeap(half) /\ DOMAIN half = DOMAIN heap
      BY <3>3 DEF HasNext
    <3>5. HasPrev(SetPrev(half, n, p), half, n, p)
      BY <3>2, <3>4, SetPrevDoes
    <3> QED
      BY <2>4, <3>4, <3>5 DEF HasPrev, half
  <2> DEFINE rest == Skip(s, j)
  <2>6. f1 = front /\ r1 = r /\ r # null
    <3>1. Len(s) \in 1 .. Len(s)
      OBVIOUS
    <3>2. rear # null
      <4>1. rear = At(node_map, s, Len(s)) /\ Len(s) \in Int
        BY <3>1 DEF IsList
      <4> QED
        BY <1>3, <3>1, <4>1, AtDistinct
    <3> HIDE DEF node, p, n
    <3> QED
      BY <2>3, <3>2
  <2> HIDE DEF node, p, n, map, gone, r, f1, r1, rest
  <2>7. IsList(Put(map, k, node), node, IF r = null THEN node ELSE r,
               SetNext(SetPrev(gone, front, node), node, front), <<k>> \o rest)
    <3>1. IsList(map, front, r, gone, rest)
      BY <2>2, <2>6 DEF rest
    <3> QED
      BY <2>4, <2>5, <3>1, PushNode
  <2>8. IsList(node_map, node, r, g, <<k>> \o rest)
    BY <2>4, <2>6, <2>7
  <2> HIDE DEF g
  <2>9. /\ IsList(node_map, node, r, heap', <<k>> \o rest)
        /\ node_map' = node_map /\ front' = node /\ rear' = r
    BY <1>1, <1>5, <2>8, BecomesList
  <2> QED
    BY <1>2, <2>9 DEF rest
<1> QED
  BY <1>4, <1>5

\* evict (lru.cpp:64) takes out the last key.
LEMMA EvictKeepsList ==
  ASSUME NEW s, IsList(node_map, front, rear, heap, s), SafeUse, Evict
  PROVE  s # <<>> /\ IsList(node_map', front', rear', heap', calls!Front(s)) /\ EvictedKey = s[Len(s)]
<1> DEFINE L == Len(s)
           before == heap[rear].prev
           g == SetNext(heap, before, null)
           f == IF before = null THEN null ELSE front
<1>1. /\ rear # null /\ (rear = front => ~ StaleFront)
      /\ Becomes(Without(node_map, EvictedKey), f, before, g)
  BY DEF Evict
<1>2. /\ IsHeap(heap) /\ IsMap(node_map, heap, s)
      /\ front = At(node_map, s, 1) /\ rear = At(node_map, s, L)
  BY DEF IsList
<1>3. /\ L \in Nat /\ s \in Seq(Keys)
      /\ \A i \in Int : At(node_map, s, i) # null <=> i \in 1 .. L
      /\ \A i \in 1 .. L : /\ At(node_map, s, i) = node_map[s[i]]
                           /\ At(node_map, s, i) \in DOMAIN heap
                           /\ At(node_map, s, i)[1] = s[i]
  BY <1>2, AtDistinct DEF IsMap
<1>4. L \in 1 .. L
  BY <1>1, <1>2, <1>3
<1>5. /\ rear = node_map[s[L]] /\ EvictedKey = s[L]
      /\ L = 1 => before = null
  <2>1. rear \in DOMAIN heap /\ rear[1] = s[L] /\ rear = node_map[s[L]]
    BY <1>2, <1>3, <1>4
  <2>2. heap[rear].key = rear[1]
    BY <1>2, <2>1 DEF IsHeap
  <2>3. L = 1 => rear = front
    BY <1>2
  <2> QED
    BY <1>1, <2>1, <2>2, <2>3 DEF EvictedKey, StaleFront
<1>6. heap[rear].next = null
  <2>1. Linked(node_map, heap, s, L)
    BY <1>4 DEF IsList
  <2>2. L + 1 \in Int /\ L + 1 \notin 1 .. L
    BY <1>3
  <2> QED
    BY <1>2, <1>3, <2>1, <2>2 DEF Linked
<1>7. IsList(Without(node_map, EvictedKey), f, before, g, Skip(s, L))
  <2>1. PICK q, m, j : q = before /\ m = null /\ j = L
    OBVIOUS
  <2>2. /\ q = heap[node_map[s[j]]].prev /\ m = heap[node_map[s[j]]].next
        /\ j = 1 => q = null
    BY <1>5, <1>6, <2>1
  <2>3. j \in 1 .. Len(s) /\ IsList(node_map, front, rear, heap, s)
    BY <1>4, <2>1
  <2>4. IsList(Without(node_map, s[j]), IF q = null THEN m ELSE front,
               IF m = null THEN q ELSE rear, SetPrev(SetNext(heap, q, m), m, q), Skip(s, j))
    BY <2>2, <2>3, TakeOut
  <2>5. SetPrev(SetNext(heap, q, m), m, q) = g
    BY <2>1 DEF SetPrev
  <2>6. (IF q = null THEN m ELSE front) = f /\ (IF m = null THEN q ELSE rear) = before
    BY <2>1
  <2> QED
    BY <1>5, <2>1, <2>4, <2>5, <2>6
<1>8. calls!Front(s) = Skip(s, L)
  <2>1. calls!Front(s) = SubSeq(s, 1, L - 1)
    BY DEF calls!Front
  <2>2. SubSeq(s, L + 1, L) = <<>>
    <3>1. L + 1 \in Int /\ L \in Int /\ L < L + 1
      BY <1>3
    <3> QED
      BY <3>1, SubSeqEmpty
  <2>3. SubSeq(s, 1, L - 1) \in Seq(Keys)
    <3>1. 1 \in Int /\ L - 1 \in Int /\ \A i \in 1 .. L - 1 : s[i] \in Keys
      BY <1>3
    <3> QED
      BY <3>1, SubSeqProperties
  <2>4. SubSeq(s, 1, L - 1) \o <<>> = SubSeq(s, 1, L - 1)
    BY <2>3, ConcatEmptySeq
  <2> QED
    BY <2>1, <2>2, <2>4 DEF Skip
<1>9. s # <<>>
  BY <1>3, <1>4
<1> HIDE DEF before, g, f
<1>10. /\ IsList(Without(node_map, EvictedKey), f, before, heap', Skip(s, L))
       /\ node_map' = Without(node_map, EvictedKey) /\ front' = f /\ rear' = before
  BY <1>1, <1>7, BecomesList
<1> QED
  BY <1>5, <1>8, <1>9, <1>10

\* Every call of a client preserves the list.
LEMMA NextListInv ==
  ASSUME SafeUse, ListInv, [RecencyNext]_<<lru_vars, order>>
  PROVE  ListInv'
<1>1. CASE \E k \in Keys : Insert(k) /\ order' = <<k>> \o order
  BY <1>1, InsertKeepsList DEF ListInv
<1>2. CASE \E k \in Keys : Update(k) /\ order' = <<k>> \o calls!Without(k)
  <2>1. PICK k \in Keys : Update(k) /\ order' = <<k>> \o calls!Without(k)
    BY <1>2
  <2>2. PICK j \in 1 .. Len(order) :
          order[j] = k /\ IsList(node_map', front', rear', heap', <<k>> \o Skip(order, j))
    BY <2>1, UpdateKeepsList DEF ListInv
  <2> QED
    BY <2>1, <2>2, WithoutIsSkip DEF ListInv
<1>3. CASE \E k \in Keys : Remove(k) /\ order' = calls!Without(k)
  <2>1. PICK k \in Keys : Remove(k) /\ order' = calls!Without(k)
    BY <1>3
  <2>2. PICK j \in 1 .. Len(order) :
          order[j] = k /\ IsList(node_map', front', rear', heap', Skip(order, j))
    BY <2>1, RemoveKeepsList DEF ListInv
  <2> QED
    BY <2>1, <2>2, WithoutIsSkip DEF ListInv
<1>4. CASE Evict /\ order' = calls!Front(order)
  BY <1>4, EvictKeepsList DEF ListInv
<1>5. CASE UNCHANGED <<lru_vars, order>>
  BY <1>5 DEF ListInv, lru_vars
<1> QED
  BY <1>1, <1>2, <1>3, <1>4, <1>5 DEF RecencyNext

\* Under the contract, the pointers make the list at any time.
LEMMA ListInvariance == ASSUME SafeUse PROVE RecencySpec => []ListInv
<1>1. ListInv /\ [RecencyNext]_<<lru_vars, order>> => ListInv'
  BY NextListInv
<1> QED
  BY <1>1, InitListInv, PTL DEF RecencySpec

-----------------------------------------------------------------------------
(* The walk along the list                                                 *)

\* The keys along the next pointers of h from the node f, as Order has them.
Walk(f, h) ==
  LET from[at \in (DOMAIN h \cup {null}) \X (0 .. Cardinality(DOMAIN h))] ==
        IF at[1] = null \/ at[2] = 0 THEN <<>>
        ELSE <<h[at[1]].key>> \o from[<<h[at[1]].next, at[2] - 1>>]
  IN  from[<<f, Cardinality(DOMAIN h)>>]

\* The walk from the first node of a list meets all listed keys.
LEMMA WalkIsList ==
  ASSUME NEW map, NEW f, NEW r, NEW h, NEW s, IsList(map, f, r, h, s)
  PROVE  Walk(f, h) = s
<1> DEFINE N == Cardinality(DOMAIN h)
           L == Len(s)
           D == (DOMAIN h \cup {null}) \X (0 .. N)
           V == Seq(Keys)
           a(i) == At(map, s, i)
           Body(w, at) == IF at[1] = null \/ at[2] = 0 THEN <<>>
                          ELSE <<h[at[1]].key>> \o w[<<h[at[1]].next, at[2] - 1>>]
           from == CHOOSE w : w = [at \in D |-> Body(w, at)]
<1>1. /\ IsHeap(h) /\ IsMap(map, h, s) /\ s \in V
      /\ f = a(1) /\ \A i \in 1 .. L : Linked(map, h, s, i)
  BY DEF IsList, IsMap
<1>2. /\ L \in Nat
      /\ \A i \in Int : a(i) \in DOMAIN h \cup {null}
      /\ \A i \in Int : a(i) # null <=> i \in 1 .. L
      /\ \A i \in 1 .. L : /\ a(i) \in DOMAIN h /\ a(i)[1] = s[i] /\ s[i] \in Keys
      /\ \A i \in 1 .. L, l \in Int : a(i) = a(l) => i = l
  BY <1>1, AtDistinct
<1>3. N \in Nat /\ L <= N
  <2>1. IsFiniteSet(DOMAIN h)
    BY <1>1 DEF IsHeap
  <2> DEFINE to == [i \in 1 .. L |-> a(i)]
  <2>2. to \in Injection(1 .. L, DOMAIN h)
    <3>1. to \in [1 .. L -> DOMAIN h] /\ \A i, l \in 1 .. L : to[i] = to[l] => i = l
      <4> HIDE DEF a, L
      <4>1. \A i \in 1 .. L : i \in Int
        BY <1>2
      <4> QED
        BY <1>2, <4>1
    <3> QED
      BY <3>1 DEF Injection, IsInjective
  <2>3. Cardinality(1 .. L) = L
    <3>1. 1 \in Int /\ L \in Int /\ (1 > L => L = 0) /\ L - 1 + 1 = L
      BY <1>2
    <3> HIDE DEF L
    <3> QED
      BY <3>1, FS_Interval
  <2> HIDE DEF to, L
  <2> QED
    BY <2>1, <2>2, <2>3, FS_Injection, FS_CardinalityType
<1>4. \A n \in DOMAIN h : h[n].key \in Keys /\ h[n].next \in DOMAIN h \cup {null}
  BY <1>1 DEF IsHeap, Node, Pointers
<1> HIDE DEF N, L, a
<1>5. from = [at \in D |-> Body(from, at)]
  <2> DEFINE steps == [at \in D |-> at[2]]
             Step == [at \in D |-> [w \in [Below(D, steps, at) -> V] |-> Body(w, at)]]
             bound == N + 1
  <2>1. steps \in [D -> Nat] /\ bound \in Nat /\ \A at \in D : steps[at] < bound
    BY <1>3
  <2>2. ASSUME NEW at \in D, ~ (at[1] = null \/ at[2] = 0)
        PROVE  <<h[at[1]].next, at[2] - 1>> \in Below(D, steps, at) /\ h[at[1]].key \in Keys
    <3>1. at[1] \in DOMAIN h /\ at[2] \in 1 .. N
      BY <1>3, <2>2
    <3>2. <<h[at[1]].next, at[2] - 1>> \in D /\ at[2] - 1 < at[2]
      BY <1>3, <1>4, <3>1
    <3> QED
      BY <1>4, <3>1, <3>2 DEF Below
  <2>3. IsStep(Step, D, V, steps)
    <3> SUFFICES ASSUME NEW at \in D, NEW w \in [Below(D, steps, at) -> V] PROVE Body(w, at) \in V
      BY DEF IsStep
    <3>1. CASE at[1] = null \/ at[2] = 0
      BY <3>1
    <3>2. CASE ~ (at[1] = null \/ at[2] = 0)
      <4> DEFINE rest == w[<<h[at[1]].next, at[2] - 1>>]
                 k == h[at[1]].key
      <4>1. rest \in V /\ k \in Keys
        BY <2>2, <3>2
      <4>2. Body(w, at) = <<k>> \o rest
        BY <3>2
      <4> HIDE DEF rest, k, D
      <4>3. <<k>> \in Seq(Keys) /\ rest \in Seq(Keys)
        BY <4>1
      <4>4. <<k>> \o rest \in Seq(Keys)
        BY <4>3, ConcatProperties
      <4> QED
        BY <4>2, <4>4
    <3> QED
      BY <3>1, <3>2
  <2>4. PICK u \in [D -> V] : Solves(u, Step, D, steps)
    <3> HIDE DEF D, steps, Step, V, bound
    <3> QED
      BY <2>1, <2>3, BoundedRecursion
  <2>5. ASSUME NEW at \in D PROVE u[at] = Body(u, at)
    <3> DEFINE w == [b \in Below(D, steps, at) |-> u[b]]
    <3>1. w \in [Below(D, steps, at) -> V]
      BY DEF Below
    <3>2. u[at] = Body(w, at)
      BY <2>4, <3>1 DEF Solves
    <3>3. CASE at[1] = null \/ at[2] = 0
      BY <3>2, <3>3
    <3>4. CASE ~ (at[1] = null \/ at[2] = 0)
      <4>1. w[<<h[at[1]].next, at[2] - 1>>] = u[<<h[at[1]].next, at[2] - 1>>]
        BY <2>2, <3>4
      <4> HIDE DEF w
      <4> QED
        BY <3>2, <3>4, <4>1
    <3> QED
      BY <3>3, <3>4
  <2>6. u = [at \in D |-> Body(u, at)]
    BY <2>5
  <2> HIDE DEF D
  <2> QED
    BY <2>6
<1>6. Walk(f, h) = from[<<f, N>>]
  BY DEF Walk, N
<1> HIDE DEF from
\* The walk from the j-th node stops after i nodes or at the end.
<1> DEFINE stop(j, i) == IF j + i - 1 <= L THEN j + i - 1 ELSE L
           Walks(i) == \A j \in 1 .. L + 1 : from[<<a(j), i>>] = SubSeq(s, j, stop(j, i))
           S == {i \in Nat : i <= N => Walks(i)}
<1>7. 0 \in S
  <2> SUFFICES ASSUME NEW j \in 1 .. L + 1
               PROVE  from[<<a(j), 0>>] = SubSeq(s, j, stop(j, 0))
    OBVIOUS
  <2>1. <<a(j), 0>> \in D
    BY <1>2, <1>3
  <2>2. from[<<a(j), 0>>] = <<>>
    BY <1>5, <2>1
  <2>3. stop(j, 0) < j /\ j \in Int /\ stop(j, 0) \in Int
    BY <1>2
  <2> HIDE DEF stop
  <2>4. SubSeq(s, j, stop(j, 0)) = <<>>
    BY <2>3, SubSeqEmpty
  <2> QED
    BY <2>2, <2>4
<1>8. ASSUME NEW i \in Nat, i \in S PROVE i + 1 \in S
  <2> HIDE DEF Walks
  <2> SUFFICES ASSUME i + 1 <= N PROVE Walks(i + 1)
    OBVIOUS
  <2>1. i <= N /\ Walks(i)
    BY <1>3, <1>8
  <2>2. ASSUME NEW j \in 1 .. L + 1 PROVE from[<<a(j), i + 1>>] = SubSeq(s, j, stop(j, i + 1))
    <3>1. <<a(j), i + 1>> \in D /\ (i + 1) - 1 = i /\ i + 1 # 0 /\ j \in Int
      BY <1>2, <1>3
    <3>2. CASE j = L + 1
      <4>1. a(j) = null
        BY <1>2, <3>1, <3>2
      <4>2. from[<<a(j), i + 1>>] = <<>>
        BY <1>5, <3>1, <4>1
      <4>3. stop(j, i + 1) = L /\ L \in Int /\ L < j
        BY <1>2, <3>2
      <4>4. SubSeq(s, j, L) = <<>>
        BY <3>1, <4>3, SubSeqEmpty
      <4> QED
        BY <4>2, <4>3, <4>4
    <3>3. CASE j # L + 1
      <4> DEFINE e == stop(j, i + 1)
                 l == j + 1
      <4>1. j \in 1 .. L /\ l \in 1 .. L + 1 /\ e \in j .. L /\ stop(l, i) = e
        BY <1>2, <3>3
      <4>2. a(j) # null /\ h[a(j)].key = s[j] /\ h[a(j)].next = a(l)
        BY <1>1, <1>2, <3>1, <4>1 DEF IsHeap, Linked, a
      <4> HIDE DEF stop, e
      <4>3. from[<<a(j), i + 1>>] = <<s[j]>> \o from[<<a(l), i>>]
        <5> DEFINE at == <<a(j), i + 1>>
        <5>1. from[at] = Body(from, at)
          BY <1>5, <3>1
        <5>2. at[1] = a(j) /\ at[2] = i + 1
          OBVIOUS
        <5> HIDE DEF at
        <5>3. from[at] = <<h[a(j)].key>> \o from[<<h[a(j)].next, (i + 1) - 1>>]
          BY <3>1, <4>2, <5>1, <5>2
        <5> QED
          BY <3>1, <4>2, <5>3 DEF at
      <4>4. from[<<a(l), i>>] = SubSeq(s, l, e)
        <5> HIDE DEF l
        <5> QED
          BY <2>1, <4>1 DEF Walks
      <4>5. SubSeq(s, j, e) = <<s[j]>> \o SubSeq(s, l, e)
        <5>1. s \in Seq(Keys) /\ j \in 1 .. Len(s) /\ e \in j .. Len(s)
          BY <1>1, <4>1 DEF L
        <5> QED
          BY <5>1, SubSeqRecursiveFirst
      <4> QED
        BY <4>3, <4>4, <4>5 DEF e
    <3> QED
      BY <3>2, <3>3
  <2> QED
    BY <2>2 DEF Walks
<1>9. N \in S
  <2> HIDE DEF S
  <2> QED
    BY <1>3, <1>7, <1>8, InductionOnNat
<1>10. from[<<a(1), N>>] = SubSeq(s, 1, L)
  <2>1. 1 \in 1 .. L + 1 /\ stop(1, N) = L
    BY <1>2, <1>3
  <2> HIDE DEF stop
  <2> QED
    BY <1>3, <1>9, <2>1
<1>11. SubSeq(s, 1, L) = s
  BY <1>1, SubSeqFull DEF L
<1> QED
  BY <1>1, <1>6, <1>10, <1>11

\* The walk of Order from the first node meets all listed keys.
LEMMA WalkIsOrder == ListInv => Order = order
<1>1. Order = Walk(front, heap)
  BY DEF Order, Walk
<1> QED
  BY <1>1, WalkIsList DEF ListInv

-----------------------------------------------------------------------------
(* The properties                                                          *)

\* What the invariant says of the pointers.
LEMMA TypedList == ListInv => LRUTypeOK
<1> SUFFICES ASSUME ListInv PROVE LRUTypeOK
  OBVIOUS
<1>1. /\ IsHeap(heap) /\ IsMap(node_map, heap, order)
      /\ front = At(node_map, order, 1) /\ rear = At(node_map, order, Len(order))
  BY DEF ListInv, IsList
<1>2. /\ \A i \in Int : At(node_map, order, i) \in DOMAIN heap \cup {null}
      /\ Len(order) \in Nat /\ \A i \in 1 .. Len(order) : order[i] \in Keys
  BY <1>1, AtDistinct
<1>3. {front, rear} \subseteq DOMAIN heap \cup {null}
  BY <1>1, <1>2
<1>4. DOMAIN node_map \subseteq Keys /\ node_map \in [DOMAIN node_map -> DOMAIN heap]
  BY <1>1, <1>2 DEF IsMap
<1> QED
  BY <1>1, <1>3, <1>4 DEF LRUTypeOK, IsHeap

\* No pointer of the list, its map or its nodes dangles (lru.cpp), whatever
\* the nodes that only a stale pointer leads to.
THEOREM ListIsTyped == ASSUME SafeUse PROVE RecencySpec => []LRUTypeOK
BY TypedList, ListInvariance, PTL

\* What it says of next and prev.
LEMMA LinkedList == ListInv => DoublyLinked
<1> SUFFICES ASSUME ListInv PROVE DoublyLinked
  OBVIOUS
<1> DEFINE L == Len(order)
           a(i) == At(node_map, order, i)
           listed == {node_map[k] : k \in DOMAIN node_map}
<1>1. /\ IsHeap(heap) /\ IsMap(node_map, heap, order) /\ front = a(1) /\ rear = a(L)
      /\ \A i \in 1 .. L : heap[a(i)].next = a(i + 1) /\ (i > 1 => heap[a(i)].prev = a(i - 1))
  BY DEF ListInv, IsList, Linked
<1>2. /\ L \in Nat
      /\ \A i \in Int : a(i) # null <=> i \in 1 .. L
      /\ \A i \in 1 .. L : a(i) = node_map[order[i]] /\ a(i) \in DOMAIN heap /\ a(i)[1] = order[i]
      /\ \A i \in 1 .. L, j \in Int : a(i) = a(j) => i = j
  BY <1>1, AtDistinct
<1>3. listed = {a(i) : i \in 1 .. L}
  <2>1. DOMAIN node_map = {order[i] : i \in 1 .. L}
    BY <1>1 DEF IsMap
  <2> HIDE DEF a, L
  <2> QED
    BY <1>2, <2>1
<1>4. \A i \in 1 .. L : node_map[heap[a(i)].key] = a(i)
  BY <1>1, <1>2 DEF IsHeap
<1> HIDE DEF L, a, listed
<1>5. 1 \in Int /\ L \in Int /\ L + 1 \in Int /\ (L # 0 <=> L \in 1 .. L) /\ (L # 0 <=> 1 \in 1 .. L)
      /\ L + 1 \notin 1 .. L
  BY <1>2
<1>6. (front = null) <=> (rear = null)
  BY <1>1, <1>2, <1>5
<1>7. {front, rear} \ {null} \subseteq listed
  BY <1>1, <1>2, <1>3, <1>5
<1>8. ASSUME NEW n \in listed \ {rear} PROVE heap[n].next \in listed /\ heap[heap[n].next].prev = n
  <2>1. PICK i \in 1 .. L : n = a(i)
    BY <1>3
  <2>2. i # L
    BY <1>1, <2>1, <1>8
  <2>3. i + 1 \in 1 .. L /\ i + 1 > 1 /\ (i + 1) - 1 = i
    BY <1>2, <2>2
  <2> QED
    BY <1>1, <1>3, <2>1, <2>3
<1>9. rear # null => heap[rear].next = null
  BY <1>1, <1>2, <1>5
<1> QED
  BY <1>3, <1>4, <1>6, <1>7, <1>8, <1>9 DEF DoublyLinked, listed

\* Next and prev undo each other, and both ends are where a walk stops, in
\* spite of the prev that update leaves on the first node (lru.cpp:45-62).
THEOREM ListIsDoublyLinked == ASSUME SafeUse PROVE RecencySpec => []DoublyLinked
BY LinkedList, ListInvariance, PTL

\* The keys along the list are the listed keys by their last access: evict
\* (lru.cpp:64) takes the one accessed longest ago.
THEOREM ListOrdersByRecency == ASSUME SafeUse PROVE RecencySpec => []ListIsByRecency
<1>1. ASSUME ListInv PROVE ListIsByRecency
  <2>1. order \in Seq(Keys) /\ DOMAIN node_map = {order[i] : i \in 1 .. Len(order)}
    BY <1>1 DEF ListInv, IsList, IsMap
  <2>2. DOMAIN node_map = calls!ToSet(order)
    BY <2>1 DEF calls!ToSet
  <2> QED
    BY <1>1, <2>2, WalkIsOrder DEF ListIsByRecency
<1> QED
  BY <1>1, ListInvariance, PTL

\* The calls do to the list what lru.hpp says: it implements RecencyList.
THEOREM ListImplementsRecency == ASSUME SafeUse PROVE RecencySpec => ImplementsRecencyList
<1>1. RecencyInit => Recency!Init
  <2> SUFFICES ASSUME RecencyInit PROVE Recency!Init
    OBVIOUS
  <2>1. Order = order /\ order = <<>>
    BY InitListInv, WalkIsOrder DEF RecencyInit, calls!Init
  <2> QED
    BY <2>1 DEF Recency!Init
<1>2. ListInv' => (Order = order)'
  BY WalkIsOrder, PTL
<1>3. ListInv /\ ListInv' /\ [RecencyNext]_<<lru_vars, order>> => [Recency!Next]_Order
  <2> SUFFICES ASSUME ListInv, ListInv', [RecencyNext]_<<lru_vars, order>>
               PROVE  [Recency!Next]_Order
    OBVIOUS
  <2>1. Order = order /\ Order' = order'
    BY <1>2, WalkIsOrder
  <2>2. /\ order \in Seq(Keys) /\ DOMAIN order = 1 .. Len(order)
        /\ DOMAIN node_map = {order[i] : i \in DOMAIN order} /\ DOMAIN node_map \subseteq Keys
    <3>1. order \in Seq(Keys) /\ DOMAIN node_map = {order[i] : i \in 1 .. Len(order)}
      BY DEF ListInv, IsList, IsMap
    <3> QED
      BY <3>1
  <2>3. Recency!ToSet(Order) = DOMAIN node_map
    BY <2>1, <2>2 DEF Recency!ToSet
  <2>4. \A k : Recency!Without(k) = calls!Without(k)
    BY <2>1 DEF Recency!Without, calls!Without, Recency!RemoveAt, calls!RemoveAt
  <2>5. Recency!Front(Order) = calls!Front(order)
    BY <2>1 DEF Recency!Front, calls!Front
  <2> HIDE DEF Order
  <2>6. ASSUME NEW k \in Keys, Insert(k), order' = <<k>> \o order PROVE Recency!Next
    <3>1. k \notin DOMAIN node_map
      BY <2>6 DEF Insert
    <3>2. Recency!Insert(k)
      BY <2>1, <2>3, <2>6, <3>1 DEF Recency!Insert
    <3> QED
      BY <3>2 DEF Recency!Next
  <2>7. ASSUME NEW k \in Keys, Update(k), order' = <<k>> \o calls!Without(k) PROVE Recency!Next
    <3>1. k \in DOMAIN node_map
      BY <2>7 DEF Update
    <3>2. Recency!Update(k)
      BY <2>1, <2>3, <2>4, <2>7, <3>1 DEF Recency!Update
    <3> QED
      BY <3>2 DEF Recency!Next
  <2>8. ASSUME NEW k \in Keys, Remove(k), order' = calls!Without(k) PROVE Recency!Next
    <3>1. k \in DOMAIN node_map
      BY <2>8 DEF Remove
    <3>2. Recency!Discard(k)
      BY <2>1, <2>3, <2>4, <2>8, <3>1 DEF Recency!Discard
    <3> QED
      BY <3>2 DEF Recency!Next
  <2>9. ASSUME Evict, order' = calls!Front(order) PROVE Recency!Next
    <3>1. order # <<>>
      BY <2>2, <2>9 DEF Evict, ListInv, IsList, At
    <3>2. Recency!Evict
      BY <2>1, <2>5, <2>9, <3>1 DEF Recency!Evict
    <3> QED
      BY <3>2 DEF Recency!Next
  <2>10. CASE UNCHANGED <<lru_vars, order>>
    BY <2>1, <2>10
  <2> QED
    BY <2>6, <2>7, <2>8, <2>9, <2>10 DEF RecencyNext
<1> QED
  BY <1>1, <1>3, ListInvariance, PTL DEF RecencySpec, ImplementsRecencyList, Recency!Spec
=============================================================================
