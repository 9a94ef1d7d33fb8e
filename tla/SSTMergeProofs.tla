--------------------------- MODULE SSTMergeProofs ---------------------------
(***************************************************************************)
(* Proofs about the merge loop: it comes to the run that KVStore takes for *)
(* the outcome of a merge, for inputs of any length and pages of any size. *)
(* Its offsets and indexes always name a place in the run of their file,   *)
(* and what is written is the part of MergeRuns that lies before.          *)
(***************************************************************************)
EXTENDS SSTMerge, BTreeProofs, SequenceTheorems

-----------------------------------------------------------------------------
(* Where the loop reads a file                                             *)

\* An offset and an index name the i-th entry of the run of a file: it is in
\* the leaf at that offset.  Past the last entry they are at the end of the
\* last leaf.
At(file, run, i, offset, index) ==
  \E leaf \in 1 .. CeilDiv(Len(run), MAX_KEYS) :
    LET size == Len(Chunk(run, leaf, MAX_KEYS))
    IN  /\ offset = Len(file) - leaf + 1
        /\ index \in 0 .. size
        /\ i = (leaf - 1) * MAX_KEYS + index + 1
        /\ index = size => leaf = CeilDiv(Len(run), MAX_KEYS)

\* The leaves of a file as the loop sees them.
LEMMA LeavesOfFile ==
  ASSUME NEW run \in Seq(Entry), run # <<>>
  PROVE  LET file == BuildFile(run)
             n    == CeilDiv(Len(run), MAX_KEYS)
         IN  /\ Len(file) \in Nat /\ n \in 1 .. Len(file) - 1
             /\ MinOffset(file) = Len(file) - n + 1
             /\ \A leaf \in 1 .. n :
                  LET first == (leaf - 1) * MAX_KEYS
                      chunk == Chunk(run, leaf, MAX_KEYS)
                  IN  /\ file[Len(file) - leaf + 1].entries = chunk
                      /\ first \in Nat /\ Len(chunk) \in Nat \ {0}
                      /\ first + Len(chunk) \in 1 .. Len(run)
                      /\ \A x \in 1 .. Len(chunk) : chunk[x] = run[first + x]
                      /\ leaf < n => Len(chunk) = MAX_KEYS
                      /\ leaf = n => first + Len(chunk) = Len(run)
<1> DEFINE file == BuildFile(run)
           n == CeilDiv(Len(run), MAX_KEYS)
<1>1. /\ Len(file) \in Nat /\ n \in 1 .. Len(file) - 1
      /\ \A i \in 1 .. n : file[Len(file) - i + 1].entries = Chunk(run, i, MAX_KEYS)
  BY FileLeaves
<1>2. MinOffset(file) = Len(file) - n + 1
  BY LeafCount DEF MinOffset, Leaves
<1>3. ASSUME NEW leaf \in 1 .. n
      PROVE  LET first == (leaf - 1) * MAX_KEYS
                 chunk == Chunk(run, leaf, MAX_KEYS)
             IN  /\ first \in Nat /\ Len(chunk) \in Nat \ {0}
                 /\ first + Len(chunk) \in 1 .. Len(run)
                 /\ \A x \in 1 .. Len(chunk) : chunk[x] = run[first + x]
                 /\ leaf < n => Len(chunk) = MAX_KEYS
                 /\ leaf = n => first + Len(chunk) = Len(run)
  <2> DEFINE first == (leaf - 1) * MAX_KEYS
             last  == Smaller(leaf * MAX_KEYS, Len(run))
             chunk == Chunk(run, leaf, MAX_KEYS)
  <2>1. /\ first \in Nat /\ last \in 1 .. Len(run) /\ first < last
        /\ Len(chunk) = last - first
        /\ \A x \in 1 .. last - first : chunk[x] = run[first + x]
        /\ leaf < n => last = first + MAX_KEYS
        /\ leaf = n => last = Len(run)
    BY FanoutFact, ChunkFacts
  <2>2. MAX_KEYS \in Nat /\ Len(run) \in Nat
    BY FanoutFact
  <2> HIDE DEF first, last, chunk
  <2>3. /\ first \in Nat /\ Len(chunk) \in Nat \ {0}
        /\ first + Len(chunk) \in 1 .. Len(run)
        /\ \A x \in 1 .. Len(chunk) : chunk[x] = run[first + x]
        /\ leaf < n => Len(chunk) = MAX_KEYS
        /\ leaf = n => first + Len(chunk) = Len(run)
    BY <2>1, <2>2
  <2> QED
    BY <2>3 DEF first, chunk
<1> QED
  BY <1>1, <1>2, <1>3

\* The loop starts at the first entry of a file.
LEMMA AtStart ==
  ASSUME NEW run \in Seq(Entry), run # <<>>
  PROVE  At(BuildFile(run), run, 1, Len(BuildFile(run)), 0)
<1> DEFINE file == BuildFile(run)
           n == CeilDiv(Len(run), MAX_KEYS)
<1>1. /\ Len(file) \in Nat /\ n \in Nat /\ 1 \in 1 .. n
      /\ Len(Chunk(run, 1, MAX_KEYS)) \in Nat \ {0}
  BY LeavesOfFile
<1>2. (1 - 1) * MAX_KEYS + 0 + 1 = 1
  BY FanoutFact
<1> HIDE DEF file
<1>3. At(file, run, 1, Len(file), 0)
  BY <1>1, <1>2 DEF At
<1> QED
  BY <1>3 DEF file

\* What the loop reads at a place, and where it goes from there.
ReadsEntry(file, run, i, offset, index) ==
  /\ i \in 1 .. Len(run) + 1
  /\ index \in Nat
  /\ EntryIn(file, offset, index) = EntryAt(run, i)
  /\ Exhausted(file, <<offset, index>>) <=> i > Len(run)
  /\ NextIn(file, offset, index + 0) = <<offset, index>>
  /\ i <= Len(run) => At(file, run, i + 1, NextIn(file, offset, index + 1)[1],
                                           NextIn(file, offset, index + 1)[2])

\* The loop reads the run of a file entry after entry, from leaf to leaf.
LEMMA AtReads ==
  ASSUME NEW run \in Seq(Entry), run # <<>>, NEW i, NEW offset, NEW index,
         At(BuildFile(run), run, i, offset, index)
  PROVE  ReadsEntry(BuildFile(run), run, i, offset, index)
<1> DEFINE file == BuildFile(run)
           n == CeilDiv(Len(run), MAX_KEYS)
           chunk(l) == Chunk(run, l, MAX_KEYS)
           next == NextIn(file, offset, index + 1)
<1>1. PICK leaf \in 1 .. n :
             /\ offset = Len(file) - leaf + 1
             /\ index \in 0 .. Len(chunk(leaf))
             /\ i = (leaf - 1) * MAX_KEYS + index + 1
             /\ index = Len(chunk(leaf)) => leaf = n
  BY DEF At
<1> DEFINE first == (leaf - 1) * MAX_KEYS
           size == Len(chunk(leaf))
<1>2. /\ Len(file) \in Nat /\ n \in 1 .. Len(file) - 1
      /\ MinOffset(file) = Len(file) - n + 1
      /\ file[offset].entries = chunk(leaf)
      /\ first \in Nat /\ size \in Nat \ {0}
      /\ first + size \in 1 .. Len(run)
      /\ \A x \in 1 .. size : chunk(leaf)[x] = run[first + x]
      /\ leaf < n => size = MAX_KEYS
      /\ leaf = n => first + size = Len(run)
  BY <1>1, LeavesOfFile
<1>3. Len(run) \in Nat /\ MAX_KEYS \in Nat \ {0} /\ n \in Nat /\ leaf \in Nat
  BY <1>2, FanoutFact
<1>4. index \in Nat /\ i = first + index + 1 /\ i \in Nat /\ index <= size
  <2>1. index \in 0 .. size /\ i = first + index + 1
    BY <1>1
  <2>2. first \in Nat /\ size \in Nat
    BY <1>2
  <2> HIDE DEF first, size
  <2> QED
    BY <2>1, <2>2
\* All that is about numbers.
<1>5. /\ Len(file) \in Nat /\ n \in Nat /\ leaf \in Nat /\ 1 <= leaf /\ leaf <= n
      /\ offset = Len(file) - leaf + 1 /\ MinOffset(file) = Len(file) - n + 1
      /\ first \in Nat /\ size \in Nat \ {0} /\ first + size <= Len(run)
      /\ leaf < n => size = MAX_KEYS
      /\ leaf = n => first + size = Len(run)
      /\ index \in Nat /\ i = first + index + 1 /\ index <= size /\ (index = size => leaf = n)
      /\ Len(run) \in Nat /\ MAX_KEYS \in Nat \ {0}
  <2>1. /\ leaf \in 1 .. n /\ offset = Len(file) - leaf + 1 /\ (index = size => leaf = n)
    BY <1>1
  <2>2. first + size \in 1 .. Len(run) /\ n \in 1 .. Len(file) - 1 /\ size \in Nat \ {0}
        /\ first \in Nat /\ (leaf < n => size = MAX_KEYS) /\ (leaf = n => first + size = Len(run))
        /\ Len(file) \in Nat /\ MinOffset(file) = Len(file) - n + 1
    BY <1>2
  <2> HIDE DEF first, size, n, file
  <2> QED
    BY ONLY <2>1, <2>2, <1>3, <1>4
<1>6. i \in 1 .. Len(run) + 1 /\ (index >= size <=> i > Len(run))
  <2> HIDE DEF first, size, n, file
  <2>1. CASE index >= size
    <3>1. index = size
      BY ONLY <1>5, <2>1
    <3>2. i = Len(run) + 1
      BY ONLY <1>5, <3>1
    <3> QED
      BY ONLY <1>5, <2>1, <3>2
  <2>2. CASE ~ (index >= size)
    BY ONLY <1>5, <2>2
  <2> QED
    BY ONLY <2>1, <2>2
<1>7. Exhausted(file, <<offset, index>>) <=> i > Len(run)
  BY <1>2, <1>6 DEF Exhausted
<1>8. EntryIn(file, offset, index) = EntryAt(run, i)
  <2>1. CASE index >= size
    BY <2>1, <1>2, <1>3, <1>4, <1>6 DEF EntryIn, EntryAt
  <2>2. CASE ~ (index >= size)
    <3>1. index + 1 \in 1 .. size /\ first + (index + 1) = i
      <4>1. first \in Nat /\ size \in Nat
        BY <1>2
      <4> HIDE DEF first, size
      <4> QED
        BY <4>1, <2>2, <1>4
    <3>2. chunk(leaf)[index + 1] = run[i]
      BY <3>1, <1>2
    <3> HIDE DEF size, first
    <3>3. EntryIn(file, offset, index) = file[offset].entries[index + 1]
      BY <2>2, <1>2 DEF EntryIn, size
    <3>4. EntryAt(run, i) = run[i]
      BY <2>2, <1>3, <1>4, <1>6 DEF EntryAt
    <3> QED
      BY <3>2, <3>3, <3>4, <1>2
  <2> QED
    BY <2>1, <2>2
<1>9. NextIn(file, offset, index + 0) = <<offset, index>>
  <2>1. index + 0 = index
    BY <1>4
  <2>2. ~ (index >= size /\ offset > MinOffset(file))
    <3> HIDE DEF file, n, first, size
    <3> QED
      BY ONLY <1>5
  <2> QED
    BY <2>1, <2>2, <1>2 DEF NextIn
<1>10. ASSUME i <= Len(run) PROVE At(file, run, i + 1, next[1], next[2])
  <2>1. index < size
    BY <1>2, <1>4, <1>6, <1>10
  <2>2. CASE index + 1 >= size /\ offset > MinOffset(file)
    <3>1. next = <<offset - 1, 0>>
      BY <2>2, <1>2 DEF NextIn
    <3>2. leaf < n /\ leaf + 1 \in 1 .. n
      <4> HIDE DEF file, n, first, size
      <4> QED
        BY ONLY <2>2, <1>5
    <3>3. Len(chunk(leaf + 1)) \in Nat \ {0}
      BY <3>2, LeavesOfFile
    <3>4. index + 1 = MAX_KEYS
      <4> HIDE DEF file, n, first, size
      <4> QED
        BY ONLY <3>2, <2>1, <2>2, <1>5
    <3>5. offset - 1 = Len(file) - (leaf + 1) + 1
      <4> HIDE DEF file, n, first, size
      <4> QED
        BY ONLY <1>5
    <3>6. i + 1 = ((leaf + 1) - 1) * MAX_KEYS + 0 + 1
      <4>1. (leaf + 1) - 1 = leaf /\ (leaf - 1) * MAX_KEYS + MAX_KEYS = leaf * MAX_KEYS
        BY <1>3
      <4>2. i + 1 = first + MAX_KEYS + 1
        <5> HIDE DEF file, n, first, size
        <5> QED
          BY ONLY <1>5, <3>4
      <4> QED
        BY <4>1, <4>2, <1>3
    <3>7. 0 \in 0 .. Len(chunk(leaf + 1)) /\ 0 # Len(chunk(leaf + 1))
      BY <3>3
    <3> HIDE DEF file, next
    <3>8. At(file, run, i + 1, offset - 1, 0)
      BY <3>2, <3>5, <3>6, <3>7 DEF At
    <3> QED
      BY <3>1, <3>8
  <2>3. CASE ~ (index + 1 >= size /\ offset > MinOffset(file))
    <3>1. next = <<offset, index + 1>>
      BY <2>3, <1>2 DEF NextIn
    <3>2. index + 1 \in 0 .. size
      <4> HIDE DEF file, n, first, size
      <4> QED
        BY ONLY <2>1, <1>5
    <3>3. index + 1 = size => leaf = n
      <4> HIDE DEF file, n, first, size
      <4> QED
        BY ONLY <2>3, <1>5
    <3>4. i + 1 = first + (index + 1) + 1
      <4> HIDE DEF file, n, first, size
      <4> QED
        BY ONLY <1>5
    <3> HIDE DEF file, next
    <3>5. At(file, run, i + 1, offset, index + 1)
      BY <1>1, <3>2, <3>3, <3>4 DEF At
    <3> QED
      BY <3>1, <3>5
  <2> QED
    BY <2>2, <2>3
<1> HIDE DEF file
<1>11. ReadsEntry(file, run, i, offset, index)
  BY <1>4, <1>6, <1>7, <1>8, <1>9, <1>10 DEF ReadsEntry
<1> QED
  BY <1>11 DEF file

\* Taking an entry, or none, comes to the next place, or stays.
LEMMA AtMoves ==
  ASSUME NEW run \in Seq(Entry), run # <<>>, NEW i, NEW offset, NEW index,
         At(BuildFile(run), run, i, offset, index),
         NEW taken \in {0, 1}, i + taken <= Len(run) + 1
  PROVE  LET next == NextIn(BuildFile(run), offset, index + taken)
         IN  At(BuildFile(run), run, i + taken, next[1], next[2])
<1> DEFINE file == BuildFile(run)
<1>1. /\ i \in 1 .. Len(run) + 1
      /\ NextIn(file, offset, index + 0) = <<offset, index>>
      /\ i <= Len(run) => At(file, run, i + 1, NextIn(file, offset, index + 1)[1],
                                               NextIn(file, offset, index + 1)[2])
  <2>1. ReadsEntry(file, run, i, offset, index)
    BY AtReads
  <2> HIDE DEF file
  <2> QED
    BY <2>1 DEF ReadsEntry
<1> HIDE DEF file
<1>2. CASE taken = 0
  <2>1. i + 0 = i
    BY <1>1
  <2>2. At(file, run, i, offset, index)
    BY DEF file
  <2>3. At(file, run, i + 0, NextIn(file, offset, index + 0)[1], NextIn(file, offset, index + 0)[2])
    BY <1>1, <2>1, <2>2
  <2> QED
    BY <2>3, <1>2 DEF file
<1>3. CASE taken = 1
  <2>1. i <= Len(run)
    BY <1>1, <1>3
  <2> QED
    BY <1>1, <1>3, <2>1 DEF file
<1> QED
  BY <1>2, <1>3

-----------------------------------------------------------------------------
(* What has been written                                                   *)

\* The equation of FlattenSeq has a solution.
LEMMA FlattenUnfolds ==
  ASSUME NEW T, NEW s \in Seq(Seq(T)), s # <<>>
  PROVE  \E f \in [1 .. Len(s) -> Seq(T)] :
           /\ \A i \in 1 .. Len(s) : f[i] = IF i = 1 THEN s[i] ELSE f[i - 1] \o s[i]
           /\ FlattenSeq(s) = f[Len(s)]
<1> DEFINE D == 1 .. Len(s)
           id == [i \in D |-> i]
           Body(f, i) == IF i = 1 THEN s[i] ELSE f[i - 1] \o s[i]
           Step == [i \in D |-> [f \in [Below(D, id, i) -> Seq(T)] |-> Body(f, i)]]
           flatten == CHOOSE f : f = [i \in D |-> Body(f, i)]
<1>1. ASSUME NEW i \in D, i # 1 PROVE i - 1 \in Below(D, id, i)
  BY <1>1 DEF Below
<1>2. ASSUME NEW i \in D, NEW f \in [Below(D, id, i) -> Seq(T)] PROVE Step[i][f] \in Seq(T)
  <2>1. s[i] \in Seq(T)
    OBVIOUS
  <2>2. CASE i = 1
    BY <2>1, <2>2
  <2>3. CASE i # 1
    <3>1. f[i - 1] \in Seq(T)
      BY <1>1, <2>3
    <3> QED
      BY <2>1, <2>3, <3>1
  <2> QED
    BY <2>2, <2>3
<1>3. PICK f \in [D -> Seq(T)] : Solves(f, Step, D, id)
  <2>1. id \in [D -> Nat] /\ Len(s) + 1 \in Nat /\ \A i \in D : id[i] < Len(s) + 1
    OBVIOUS
  <2>2. IsStep(Step, D, Seq(T), id)
    BY <1>2 DEF IsStep
  <2> DEFINE bound == Len(s) + 1
  <2> HIDE DEF D, id, Step, bound
  <2> QED
    BY <2>1, <2>2, BoundedRecursion DEF bound
<1>4. ASSUME NEW i \in D PROVE f[i] = Body(f, i)
  <2> DEFINE r == [j \in Below(D, id, i) |-> f[j]]
  <2>1. r \in [Below(D, id, i) -> Seq(T)]
    BY DEF Below
  <2>2. f[i] = Body(r, i)
    BY <1>3, <2>1 DEF Solves
  <2>3. CASE i = 1
    BY <2>2, <2>3
  <2>4. CASE i # 1
    <3>1. r[i - 1] = f[i - 1]
      BY <1>1, <2>4
    <3> HIDE DEF r
    <3> QED
      BY <2>2, <2>4, <3>1
  <2> QED
    BY <2>3, <2>4
<1>5. f = [i \in D |-> Body(f, i)]
  BY <1>4
<1>6. flatten = [i \in D |-> Body(flatten, i)]
  <2>1. \E g : g = [i \in D |-> Body(g, i)]
    BY <1>5
  <2> HIDE DEF D
  <2> QED
    BY <2>1
<1>7. FlattenSeq(s) = flatten[Len(s)]
  BY DEF FlattenSeq
<1> HIDE DEF flatten
<1>8. \A i \in D : flatten[i] \in Seq(T)
  <2> DEFINE S == {n \in Nat : n \in D => flatten[n] \in Seq(T)}
  <2>1. 0 \in S
    OBVIOUS
  <2>2. ASSUME NEW n \in Nat, n \in S PROVE n + 1 \in S
    <3> SUFFICES ASSUME n + 1 \in D PROVE flatten[n + 1] \in Seq(T)
      OBVIOUS
    <3>1. flatten[n + 1] = (IF n + 1 = 1 THEN s[n + 1] ELSE flatten[n] \o s[n + 1]) /\ s[n + 1] \in Seq(T)
      <4>1. \A i \in D : flatten[i] = Body(flatten, i)
        BY <1>6
      <4>2. flatten[n + 1] = Body(flatten, n + 1)
        BY <4>1
      <4>3. (n + 1) - 1 = n
        OBVIOUS
      <4> QED
        BY <4>2, <4>3
    <3>2. CASE n = 0
      BY <3>1, <3>2
    <3>3. CASE n # 0
      <4>1. flatten[n] \in Seq(T)
        BY <2>2, <3>3
      <4> QED
        BY <3>1, <3>3, <4>1
    <3> QED
      BY <3>2, <3>3
  <2> HIDE DEF S
  <2>3. Nat \subseteq S
    BY <2>1, <2>2, InductionOnNat
  <2> QED
    BY <2>3 DEF S
<1>9. flatten \in [D -> Seq(T)]
  BY <1>6, <1>8
<1> QED
  BY <1>6, <1>7, <1>9

\* Writing a leaf adds its entries to those written before.
LEMMA FlattenAppend ==
  ASSUME NEW T, NEW s \in Seq(Seq(T)), NEW e \in Seq(T)
  PROVE  FlattenSeq(s) \in Seq(T) /\ FlattenSeq(Append(s, e)) = FlattenSeq(s) \o e
<1> DEFINE t == Append(s, e)
           n == Len(s)
<1>1. /\ t \in Seq(Seq(T)) /\ t # <<>> /\ Len(t) = n + 1 /\ n \in Nat
      /\ t[n + 1] = e /\ \A i \in 1 .. n : t[i] = s[i]
  <2> DEFINE U == Seq(T)
  <2>1. s \in Seq(U) /\ e \in U
    OBVIOUS
  <2> HIDE DEF U
  <2>2. /\ t \in Seq(U) /\ t # <<>> /\ Len(t) = n + 1 /\ n \in Nat
        /\ t[n + 1] = e /\ \A i \in 1 .. n : t[i] = s[i]
    BY <2>1, AppendProperties
  <2> QED
    BY <2>2 DEF U
<1>2. PICK g \in [1 .. n + 1 -> Seq(T)] :
        /\ \A i \in 1 .. n + 1 : g[i] = IF i = 1 THEN t[i] ELSE g[i - 1] \o t[i]
        /\ FlattenSeq(t) = g[n + 1]
  <2> HIDE DEF t
  <2>1. \E g \in [1 .. Len(t) -> Seq(T)] :
           /\ \A i \in 1 .. Len(t) : g[i] = IF i = 1 THEN t[i] ELSE g[i - 1] \o t[i]
           /\ FlattenSeq(t) = g[Len(t)]
    BY <1>1, FlattenUnfolds
  <2> QED
    BY <1>1, <2>1
<1> HIDE DEF t
<1>3. CASE s = <<>>
  <2>1. FlattenSeq(s) = <<>>
    BY <1>3 DEF FlattenSeq
  <2>2. n = 0
    BY <1>3
  <2>3. FlattenSeq(t) = e
    BY <1>1, <1>2, <2>2
  <2> QED
    BY <2>1, <2>3 DEF t
<1>4. CASE s # <<>>
  <2>1. PICK f \in [1 .. n -> Seq(T)] :
          /\ \A i \in 1 .. n : f[i] = IF i = 1 THEN s[i] ELSE f[i - 1] \o s[i]
          /\ FlattenSeq(s) = f[n]
    BY <1>4, FlattenUnfolds
  <2> DEFINE S == {i \in Nat : i \in 1 .. n => g[i] = f[i]}
  <2>2. 0 \in S
    OBVIOUS
  <2>3. ASSUME NEW i \in Nat, i \in S PROVE i + 1 \in S
    <3> SUFFICES ASSUME i + 1 \in 1 .. n PROVE g[i + 1] = f[i + 1]
      OBVIOUS
    <3>1. (i + 1) - 1 = i /\ i + 1 \in 1 .. n + 1 /\ t[i + 1] = s[i + 1]
      BY <1>1
    <3>2. g[i + 1] = IF i + 1 = 1 THEN s[i + 1] ELSE g[i] \o s[i + 1]
      BY <3>1, <1>2
    <3>3. f[i + 1] = IF i + 1 = 1 THEN s[i + 1] ELSE f[i] \o s[i + 1]
      BY <3>1, <2>1
    <3>4. i + 1 # 1 => g[i] = f[i]
      BY <2>3
    <3> QED
      BY <3>2, <3>3, <3>4
  <2>4. Nat \subseteq S
    <3> HIDE DEF S
    <3> QED
      BY <2>2, <2>3, InductionOnNat
  <2>5. n \in 1 .. n
    BY <1>4
  <2>6. g[n] = f[n]
    <3>1. n \in S
      <4> HIDE DEF S
      <4> QED
        BY <1>1, <2>4
    <3> QED
      BY <2>5, <3>1
  <2>7. FlattenSeq(t) = g[n] \o e
    <3>1. n + 1 \in 1 .. n + 1 /\ n + 1 # 1 /\ (n + 1) - 1 = n
      BY <2>5
    <3> QED
      BY <3>1, <1>1, <1>2
  <2> QED
    BY <2>1, <2>5, <2>6, <2>7 DEF t
<1> QED
  BY <1>3, <1>4

-----------------------------------------------------------------------------
(* The invariant of the loop                                               *)

\* MergeRuns as a function of the place from which on it merges.
IsRest(rest, o, n, is_last) ==
  /\ rest \in [MergePlaces(o, n) -> Seq(Entry)]
  /\ \A at \in MergePlaces(o, n) : rest[at] = MergeBody(rest, o, n, is_last, at)
  /\ MergeRuns(o, n, is_last) = rest[<<1, 1>>]

\* Both inputs are read at the i-th and the j-th entry; what is written and the
\* rest of the merge make up its outcome.
ReadsAt(o, n, i, j) ==
  /\ old = BuildFile(o) /\ At(old, o, i, old_offset, old_index)
  /\ new = BuildFile(n) /\ At(new, n, j, new_offset, new_index)
  /\ done <=> MergeEnd(o, n, <<i, j>>)
  /\ \A rest : IsRest(rest, o, n, is_last_level) =>
       Output \o rest[<<i, j>>] = MergeRuns(o, n, is_last_level)

MergeInv ==
  /\ is_last_level \in BOOLEAN /\ done \in BOOLEAN
  /\ written \in Seq(Seq(Entry)) /\ output_node \in Seq(Entry)
  /\ \E input \in Inputs : \E i, j : ReadsAt(input[1], input[2], i, j)

\* The inputs are runs.
LEMMA InputsAreRuns ==
  ASSUME NEW input \in Inputs
  PROVE  /\ input[1] \in Seq(Entry) /\ input[1] # <<>> /\ Live(input[1])
         /\ input[2] \in Seq(Entry) /\ input[2] # <<>> /\ Live(input[2])
  BY MergeAssumption DEF IsInput, Live

\* Before the first iteration nothing is written and all is to be merged.
LEMMA InitMergeInv == MergeInit => MergeInv
<1> SUFFICES ASSUME MergeInit PROVE MergeInv
  OBVIOUS
<1>1. PICK input \in Inputs : old = BuildFile(input[1]) /\ new = BuildFile(input[2])
  BY DEF MergeInit
<1> DEFINE o == input[1]  n == input[2]
<1>2. /\ o \in Seq(Entry) /\ o # <<>> /\ n \in Seq(Entry) /\ n # <<>>
  BY InputsAreRuns
<1> HIDE DEF o, n
<1>3. At(old, o, 1, old_offset, old_index) /\ At(new, n, 1, new_offset, new_index)
  BY <1>1, <1>2, AtStart DEF MergeInit, o, n
<1>4. done = FALSE /\ ~ MergeEnd(o, n, <<1, 1>>)
  BY <1>2 DEF MergeInit, MergeEnd
<1>5. Output = <<>>
  BY DEF MergeInit, Output, FlattenSeq
<1>6. ASSUME NEW rest, IsRest(rest, o, n, is_last_level)
      PROVE  Output \o rest[<<1, 1>>] = MergeRuns(o, n, is_last_level)
  <2>1. <<1, 1>> \in MergePlaces(o, n)
    BY <1>2 DEF MergePlaces
  <2>2. rest[<<1, 1>>] \in Seq(Entry)
    BY <2>1, <1>6 DEF IsRest
  <2> QED
    BY <2>2, <1>5, <1>6 DEF IsRest
<1>7. ReadsAt(o, n, 1, 1)
  BY <1>1, <1>3, <1>4, <1>6 DEF ReadsAt, o, n
<1>8. /\ is_last_level \in BOOLEAN /\ done \in BOOLEAN
      /\ written \in Seq(Seq(Entry)) /\ output_node \in Seq(Entry)
  <2>1. \A U : <<>> \in Seq(U)
    OBVIOUS
  <2> QED
    BY <2>1 DEF MergeInit
<1>9. ReadsAt(input[1], input[2], 1, 1)
  BY ONLY <1>7 DEF o, n
<1>10. \E one \in Inputs : \E i, j : ReadsAt(one[1], one[2], i, j)
  <2>1. input \in Inputs
    OBVIOUS
  <2> QED
    BY ONLY <2>1, <1>9, Zenon
<1> QED
  BY ONLY <1>8, <1>10 DEF MergeInv

\* Whether three runs can be joined in either order.
Joins(x, y, z) == x \o (y \o z) = (x \o y) \o z

\* Appending runs is associative.
LEMMA ThreeRunsJoin ==
  ASSUME NEW x \in Seq(Entry), NEW y \in Seq(Entry), NEW z \in Seq(Entry)
  PROVE  Joins(x, y, z)
<1> DEFINE T == Entry
<1>1. x \in Seq(T) /\ y \in Seq(T) /\ z \in Seq(T)
  OBVIOUS
<1> HIDE DEF T
<1>2. x \o (y \o z) = (x \o y) \o z
  BY <1>1, ConcatAssociative
<1> QED
  BY <1>2 DEF Joins

\* Each branch of an iteration takes the entries that MergeRuns takes, and
\* writes the one it writes.
LEMMA BranchesMerge ==
  ASSUME ~ done => old_entry.key \in 0 .. INVALID_VALUE /\ new_entry.key \in 0 .. INVALID_VALUE,
         MergeNext
  PROVE  /\ ~ done
         /\ \E old_taken \in {0, 1}, new_taken \in {0, 1} :
              /\ old_taken = 1 <=> TakesOld(old_entry, new_entry, is_last_level)
              /\ new_taken = 1 <=> TakesNew(old_entry, new_entry, is_last_level)
              /\ Advance(old_taken, new_taken, MergedEntry(old_entry, new_entry, is_last_level))
<1> DEFINE o == old_entry  n == new_entry
<1>1. ~ done
  BY DEF MergeNext, DropBoth, CopyNew, CopyOld, Replace
<1>2. o.key \in Nat /\ o.key <= INVALID_VALUE /\ n.key \in Nat /\ n.key <= INVALID_VALUE
      /\ INVALID_VALUE \in Nat
  BY <1>1, SentinelsTyped
<1>3. MeetsTombstone <=> DropsPair(o, n, is_last_level)
  BY DEF MeetsTombstone, DropsPair
<1> HIDE DEF o, n
<1>4. CASE DropBoth
  <2>1. DropsPair(o, n, is_last_level) /\ Advance(1, 1, BlankEntry)
    BY <1>3, <1>4 DEF DropBoth
  <2> QED
    BY <2>1, <1>1 DEF TakesOld, TakesNew, MergedEntry, o, n
<1>5. CASE CopyNew
  <2>1. /\ ~ DropsPair(o, n, is_last_level) /\ Advance(0, 1, n)
        /\ o.key = INVALID_VALUE \/ (n.key # INVALID_VALUE /\ n.key < o.key)
    BY <1>3, <1>5 DEF CopyNew, o, n
  <2>2. ~ TakesOld(o, n, is_last_level) /\ TakesNew(o, n, is_last_level)
    BY <2>1, <1>2 DEF TakesOld, TakesNew
  <2>3. MergedEntry(o, n, is_last_level) = n
    BY <2>1, <2>2 DEF MergedEntry
  <2> QED
    BY <2>1, <2>2, <2>3, <1>1 DEF o, n
<1>6. CASE CopyOld
  <2>1. /\ ~ DropsPair(o, n, is_last_level) /\ Advance(1, 0, o)
        /\ o.key # INVALID_VALUE
        /\ n.key = INVALID_VALUE \/ n.key > o.key
    BY <1>3, <1>6 DEF CopyOld, o, n
  <2>2. TakesOld(o, n, is_last_level) /\ ~ TakesNew(o, n, is_last_level)
    BY <2>1, <1>2 DEF TakesOld, TakesNew
  <2>3. MergedEntry(o, n, is_last_level) = o
    BY <2>1, <2>2 DEF MergedEntry
  <2> QED
    BY <2>1, <2>2, <2>3, <1>1 DEF o, n
<1>7. CASE Replace
  <2>1. /\ ~ DropsPair(o, n, is_last_level) /\ Advance(1, 1, n)
        /\ o.key # INVALID_VALUE /\ n.key = o.key
    BY <1>3, <1>7 DEF Replace, o, n
  <2>2. TakesOld(o, n, is_last_level) /\ TakesNew(o, n, is_last_level)
    BY <2>1, <1>2 DEF TakesOld, TakesNew
  <2>3. MergedEntry(o, n, is_last_level) = n
    BY <2>1, <2>2 DEF MergedEntry
  <2> QED
    BY <2>1, <2>2, <2>3, <1>1 DEF o, n
<1> QED
  BY <1>4, <1>5, <1>6, <1>7 DEF MergeNext

\* The equation of MergeRuns has a solution.
LEMMA RestExists ==
  ASSUME NEW o \in Seq(Entry), o # <<>>, Live(o), NEW n \in Seq(Entry), Live(n), NEW is_last
  PROVE  \E rest : IsRest(rest, o, n, is_last)
<1>1. \E from \in [MergePlaces(o, n) -> Seq(Entry)] :
        /\ \A at \in MergePlaces(o, n) : from[at] = MergeBody(from, o, n, is_last, at)
        /\ MergeRuns(o, n, is_last) = from[<<1, 1>>]
  BY MergeUnfolds
<1> QED
  BY <1>1 DEF IsRest

\* An iteration at the i-th and the j-th entry takes what the merge takes.
TakesAt(o, n, is_last, i, j, old_taken, new_taken) ==
  /\ <<i, j>> \in MergePlaces(o, n) /\ ~ MergeEnd(o, n, <<i, j>>)
  /\ old_taken \in {0, 1} /\ (old_taken = 1 <=> TakesOld(EntryAt(o, i), EntryAt(n, j), is_last))
  /\ new_taken \in {0, 1} /\ (new_taken = 1 <=> TakesNew(EntryAt(o, i), EntryAt(n, j), is_last))

\* An iteration goes from one place to another and writes an entry.
GoesOn(rest, o, n, is_last, i, j, k, l) ==
  LET h == MergedEntry(EntryAt(o, i), EntryAt(n, j), is_last)
  IN  /\ <<k, l>> \in MergePlaces(o, n)
      /\ h \in Entry
      /\ rest[<<k, l>>] \in Seq(Entry)
      /\ rest[<<i, j>>] = <<h>> \o rest[<<k, l>>]

\* The rest of the merge from a place, by one iteration.
LEMMA RestStep ==
  ASSUME NEW o \in Seq(Entry), Live(o), NEW n \in Seq(Entry), Live(n), NEW is_last,
         NEW rest, IsRest(rest, o, n, is_last),
         NEW i, NEW j, NEW old_taken, NEW new_taken,
         TakesAt(o, n, is_last, i, j, old_taken, new_taken)
  PROVE  GoesOn(rest, o, n, is_last, i, j, i + old_taken, j + new_taken)
<1> DEFINE next == <<i + old_taken, j + new_taken>>
           h == MergedEntry(EntryAt(o, i), EntryAt(n, j), is_last)
<1>1. i \in 1 .. Len(o) + 1 /\ j \in 1 .. Len(n) + 1
  BY DEF TakesAt, MergePlaces
<1>2. NextPlace(o, n, is_last, <<i, j>>) = next
  BY <1>1 DEF TakesAt, NextPlace
<1>3. next \in MergePlaces(o, n)
  BY <1>2, MergeAdvances DEF TakesAt
<1>4. h \in Entry
  BY <1>1, EntryAtTyped, SentinelsTyped DEF MergedEntry
<1>5. rest[<<i, j>>] = <<h>> \o rest[next]
  BY <1>2 DEF TakesAt, IsRest, MergeBody, MergeHead
<1>6. rest[next] \in Seq(Entry)
  BY <1>3 DEF IsRest
<1> QED
  BY <1>3, <1>4, <1>5, <1>6 DEF GoesOn

\* An iteration takes the loop from a place to the next one.
LEMMA IterationReads ==
  ASSUME NEW o \in Seq(Entry), o # <<>>, Live(o), NEW n \in Seq(Entry), n # <<>>, Live(n),
         NEW i, NEW j, ReadsAt(o, n, i, j), ~ done,
         is_last_level \in BOOLEAN, written \in Seq(Seq(Entry)), output_node \in Seq(Entry),
         NEW old_taken \in {0, 1}, NEW new_taken \in {0, 1},
         old_taken = 1 <=> TakesOld(old_entry, new_entry, is_last_level),
         new_taken = 1 <=> TakesNew(old_entry, new_entry, is_last_level),
         Advance(old_taken, new_taken, MergedEntry(old_entry, new_entry, is_last_level))
  PROVE  /\ is_last_level' \in BOOLEAN /\ done' \in BOOLEAN
         /\ written' \in Seq(Seq(Entry)) /\ output_node' \in Seq(Entry)
         /\ ReadsAt(o, n, i + old_taken, j + new_taken)'
<1> DEFINE h == MergedEntry(EntryAt(o, i), EntryAt(n, j), is_last_level)
           k == i + old_taken
           l == j + new_taken
           old_at == NextIn(old, old_offset, old_index + old_taken)
           new_at == NextIn(new, new_offset, new_index + new_taken)
           node   == Append(output_node, h)
           ends   == Exhausted(old, old_at) /\ Exhausted(new, new_at)
           full   == Len(node) >= MAX_KEYS \/ ends
<1>1. /\ old = BuildFile(o) /\ At(old, o, i, old_offset, old_index)
      /\ new = BuildFile(n) /\ At(new, n, j, new_offset, new_index)
      /\ ~ MergeEnd(o, n, <<i, j>>)
  BY DEF ReadsAt
<1>2. /\ i \in 1 .. Len(o) + 1 /\ j \in 1 .. Len(n) + 1
      /\ old_entry = EntryAt(o, i) /\ new_entry = EntryAt(n, j)
  <2>1. At(BuildFile(o), o, i, old_offset, old_index) /\ At(BuildFile(n), n, j, new_offset, new_index)
    BY <1>1
  <2>2. ReadsEntry(BuildFile(o), o, i, old_offset, old_index)
    BY <2>1, AtReads
  <2>3. ReadsEntry(BuildFile(n), n, j, new_offset, new_index)
    BY <2>1, AtReads
  <2> QED
    BY <1>1, <2>2, <2>3 DEF ReadsEntry, old_entry, new_entry
<1>3. <<i, j>> \in MergePlaces(o, n)
  BY <1>2 DEF MergePlaces
<1>4. PICK rest : IsRest(rest, o, n, is_last_level)
  BY RestExists
<1>5. TakesAt(o, n, is_last_level, i, j, old_taken, new_taken)
  BY <1>1, <1>2, <1>3 DEF TakesAt
<1>6. ASSUME NEW r, IsRest(r, o, n, is_last_level)
       PROVE  GoesOn(r, o, n, is_last_level, i, j, k, l)
  BY <1>5, <1>6, RestStep
<1>7. /\ <<k, l>> \in MergePlaces(o, n) /\ k <= Len(o) + 1 /\ l <= Len(n) + 1 /\ h \in Entry
  <2>1. GoesOn(rest, o, n, is_last_level, i, j, k, l)
    BY <1>4, <1>6
  <2> HIDE DEF k, l
  <2> QED
    BY <2>1 DEF GoesOn, MergePlaces
<1>8. /\ old_offset' = old_at[1] /\ old_index' = old_at[2]
      /\ new_offset' = new_at[1] /\ new_index' = new_at[2]
      /\ written' = IF full THEN Append(written, node) ELSE written
      /\ output_node' = IF full THEN <<>> ELSE node
      /\ done' = ends
      /\ old' = old /\ new' = new /\ is_last_level' = is_last_level
  BY <1>2 DEF Advance
<1>9. At(old, o, k, old_at[1], old_at[2]) /\ At(new, n, l, new_at[1], new_at[2])
  <2>1. At(old, o, k, old_at[1], old_at[2])
    BY <1>1, <1>7, AtMoves
  <2>2. At(new, n, l, new_at[1], new_at[2])
    BY <1>1, <1>7, AtMoves
  <2> QED
    BY <2>1, <2>2
<1>10. (Exhausted(old, old_at) <=> k > Len(o)) /\ (Exhausted(new, new_at) <=> l > Len(n))
  <2>1. Exhausted(old, <<old_at[1], old_at[2]>>) <=> k > Len(o)
    BY <1>1, <1>9, AtReads DEF ReadsEntry
  <2>2. Exhausted(new, <<new_at[1], new_at[2]>>) <=> l > Len(n)
    BY <1>1, <1>9, AtReads DEF ReadsEntry
  <2> HIDE DEF old_at, new_at, k, l
  <2> QED
    BY <2>1, <2>2 DEF Exhausted
<1>11. done' <=> MergeEnd(o, n, <<k, l>>)
  BY <1>8, <1>10 DEF MergeEnd
<1>12. /\ node \in Seq(Entry) /\ written' \in Seq(Seq(Entry)) /\ output_node' \in Seq(Entry)
       /\ Output \in Seq(Entry)
       /\ Output' = Output \o <<h>>
  <2> HIDE DEF h
  <2>1. /\ node \in Seq(Entry) /\ node = output_node \o <<h>>
        /\ <<h>> \in Seq(Entry) /\ <<>> \in Seq(Entry)
    BY <1>7
  <2> HIDE DEF node, full
  <2>2. /\ FlattenSeq(written) \in Seq(Entry)
        /\ FlattenSeq(Append(written, node)) = FlattenSeq(written) \o node
    BY <2>1, FlattenAppend
  <2>3. written' \in Seq(Seq(Entry)) /\ output_node' \in Seq(Entry)
    <3> DEFINE U == Seq(Entry)
    <3>1. written \in Seq(U) /\ node \in U /\ <<>> \in U
      BY <2>1
    <3> HIDE DEF U
    <3>2. Append(written, node) \in Seq(U)
      BY <3>1, AppendProperties
    <3>3. written' \in Seq(U) /\ output_node' \in U
      BY <3>1, <3>2, <1>8
    <3> QED
      BY <3>3 DEF U
  <2> DEFINE w == FlattenSeq(written)
  <2>4. Output' = FlattenSeq(written)' \o output_node' /\ Output = w \o output_node
    BY DEF Output
  <2>5. FlattenSeq(written)' = IF full THEN w \o node ELSE w
    BY <1>8, <2>2
  <2> HIDE DEF w
  <2>6. w \in Seq(Entry)
    BY <2>2 DEF w
  <2>7. w \o (output_node \o <<h>>) = (w \o output_node) \o <<h>>
    <3>1. PICK last : last = <<h>>
      OBVIOUS
    <3>2. w \in Seq(Entry) /\ output_node \in Seq(Entry) /\ last \in Seq(Entry)
      BY <2>1, <2>6, <3>1
    <3>3. Joins(w, output_node, last)
      BY ONLY <3>2, ThreeRunsJoin
    <3>4. w \o (output_node \o last) = (w \o output_node) \o last
      BY ONLY <3>3 DEF Joins
    <3> QED
      BY ONLY <3>1, <3>4
  <2>8. Output' = w \o node
    <3>1. CASE full
      <4>1. Output' = (w \o node) \o <<>>
        BY <3>1, <1>8, <2>4, <2>5
      <4> QED
        BY <4>1, <2>1, <2>6
    <3>2. CASE ~ full
      BY <3>2, <1>8, <2>4, <2>5
    <3> QED
      BY <3>1, <3>2
  <2>9. Output' = Output \o <<h>>
    BY <2>1, <2>4, <2>7, <2>8
  <2>10. Output \in Seq(Entry)
    BY <2>4, <2>6
  <2> QED
    BY <2>1, <2>3, <2>9, <2>10
<1>13. ASSUME NEW r, IsRest(r, o, n, is_last_level)
       PROVE  Output' \o r[<<k, l>>] = MergeRuns(o, n, is_last_level)
  <2>1. r[<<k, l>>] \in Seq(Entry) /\ r[<<i, j>>] = <<h>> \o r[<<k, l>>]
    BY <1>13, <1>6 DEF GoesOn
  <2>2. Output \o r[<<i, j>>] = MergeRuns(o, n, is_last_level)
    BY <1>13 DEF ReadsAt
  <2> HIDE DEF k, l, h
  <2>3. <<h>> \in Seq(Entry)
    BY <1>7
  <2>4. Output \o (<<h>> \o r[<<k, l>>]) = (Output \o <<h>>) \o r[<<k, l>>]
    <3>1. PICK next, later : next = <<h>> /\ later = r[<<k, l>>]
      OBVIOUS
    <3>2. Output \in Seq(Entry) /\ next \in Seq(Entry) /\ later \in Seq(Entry)
      BY <1>12, <2>1, <2>3, <3>1
    <3>3. Joins(Output, next, later)
      BY ONLY <3>2, ThreeRunsJoin
    <3>4. Output \o (next \o later) = (Output \o next) \o later
      BY ONLY <3>3 DEF Joins
    <3> QED
      BY ONLY <3>1, <3>4
  <2> QED
    BY <1>12, <2>1, <2>2, <2>4
<1> HIDE DEF k, l, old_at, new_at, node, ends, full, h
<1>14. ReadsAt(o, n, k, l)'
  BY <1>1, <1>8, <1>9, <1>11, <1>13 DEF ReadsAt
<1>15. is_last_level' \in BOOLEAN /\ done' \in BOOLEAN
  BY <1>8 DEF ends
<1> QED
  BY <1>12, <1>14, <1>15 DEF k, l

\* Every iteration preserves the invariant.
LEMMA NextMergeInv == MergeInv /\ [MergeNext]_merge_vars => MergeInv'
<1> SUFFICES ASSUME MergeInv, [MergeNext]_merge_vars PROVE MergeInv'
  OBVIOUS
<1>1. PICK input \in Inputs : \E i, j : ReadsAt(input[1], input[2], i, j)
  BY DEF MergeInv
<1> DEFINE o == input[1]  n == input[2]
<1>2. PICK i, j : ReadsAt(o, n, i, j)
  BY <1>1
<1>3. CASE UNCHANGED merge_vars
  <2>1. ReadsAt(o, n, i, j)'
    BY <1>2, <1>3 DEF ReadsAt, merge_vars, Output
  <2> QED
    BY <2>1, <1>3 DEF MergeInv, merge_vars
<1>4. CASE MergeNext
  <2>1. /\ o \in Seq(Entry) /\ o # <<>> /\ Live(o)
        /\ n \in Seq(Entry) /\ n # <<>> /\ Live(n)
    BY InputsAreRuns
  <2> HIDE DEF o, n
  <2>2. old_entry.key \in 0 .. INVALID_VALUE /\ new_entry.key \in 0 .. INVALID_VALUE
    <3>1. old = BuildFile(o) /\ At(BuildFile(o), o, i, old_offset, old_index)
      BY <1>2 DEF ReadsAt
    <3>2. new = BuildFile(n) /\ At(BuildFile(n), n, j, new_offset, new_index)
      BY <1>2 DEF ReadsAt
    <3>3. i \in 1 .. Len(o) + 1 /\ old_entry = EntryAt(o, i)
      <4>1. ReadsEntry(BuildFile(o), o, i, old_offset, old_index)
        BY <3>1, <2>1, AtReads
      <4> QED
        BY <3>1, <4>1 DEF ReadsEntry, old_entry
    <3>4. j \in 1 .. Len(n) + 1 /\ new_entry = EntryAt(n, j)
      <4>1. ReadsEntry(BuildFile(n), n, j, new_offset, new_index)
        BY <3>2, <2>1, AtReads
      <4> QED
        BY <3>2, <4>1 DEF ReadsEntry, new_entry
    <3> QED
      BY <2>1, <3>3, <3>4, EntryAtTyped
  <2>3. /\ ~ done
        /\ \E a \in {0, 1}, b \in {0, 1} :
             /\ a = 1 <=> TakesOld(old_entry, new_entry, is_last_level)
             /\ b = 1 <=> TakesNew(old_entry, new_entry, is_last_level)
             /\ Advance(a, b, MergedEntry(old_entry, new_entry, is_last_level))
    BY <1>4, <2>2, BranchesMerge
  <2>4. PICK a \in {0, 1}, b \in {0, 1} :
             /\ a = 1 <=> TakesOld(old_entry, new_entry, is_last_level)
             /\ b = 1 <=> TakesNew(old_entry, new_entry, is_last_level)
             /\ Advance(a, b, MergedEntry(old_entry, new_entry, is_last_level))
    BY <2>3
  <2>5. /\ is_last_level \in BOOLEAN
        /\ written \in Seq(Seq(Entry)) /\ output_node \in Seq(Entry)
    BY DEF MergeInv
  <2>6. /\ is_last_level' \in BOOLEAN /\ done' \in BOOLEAN
        /\ written' \in Seq(Seq(Entry)) /\ output_node' \in Seq(Entry)
        /\ ReadsAt(o, n, i + a, j + b)'
    BY <1>2, <2>1, <2>3, <2>4, <2>5, IterationReads
  <2> QED
    BY <2>6 DEF MergeInv, o, n
<1> QED
  BY <1>3, <1>4

\* The invariant holds in every state of the merge.
LEMMA MergeInvariance == MergeSpec => []MergeInv
  BY InitMergeInv, NextMergeInv, PTL DEF MergeSpec

-----------------------------------------------------------------------------
(* What the invariant says of the output                                   *)

\* The output is a prefix of MergeRuns, and all of it in the end.
OutputOf(o, n) ==
  LET m == MergeRuns(o, n, is_last_level)
  IN  /\ o \in Seq(Entry) /\ o # <<>> /\ Live(o) /\ RunOf(old) = o
      /\ n \in Seq(Entry) /\ n # <<>> /\ Live(n) /\ RunOf(new) = n
      /\ is_last_level \in BOOLEAN
      /\ m \in Seq(Entry) /\ m # <<>>
      /\ Output \in Seq(Entry) /\ Len(Output) <= Len(m)
      /\ \A x \in 1 .. Len(Output) : Output[x] = m[x]
      /\ done => Output = m

\* The invariant says what is written so far.
LEMMA OutputIsPrefix ==
  MergeInv => \E input \in Inputs : OutputOf(input[1], input[2])
<1> SUFFICES ASSUME MergeInv PROVE \E input \in Inputs : OutputOf(input[1], input[2])
  OBVIOUS
<1>1. PICK input \in Inputs : \E i, j : ReadsAt(input[1], input[2], i, j)
  BY DEF MergeInv
<1> DEFINE o == input[1]  n == input[2]
<1>2. PICK i, j : ReadsAt(o, n, i, j)
  BY <1>1
<1>3. /\ o \in Seq(Entry) /\ o # <<>> /\ Live(o)
      /\ n \in Seq(Entry) /\ n # <<>> /\ Live(n)
  BY InputsAreRuns
<1> HIDE DEF o, n
<1>4. RunOf(old) = o /\ RunOf(new) = n
  BY <1>2, <1>3, RunOfBuildFile DEF ReadsAt
<1>5. PICK rest : IsRest(rest, o, n, is_last_level)
  BY <1>3, RestExists
<1>6. <<i, j>> \in MergePlaces(o, n)
  <2>1. At(BuildFile(o), o, i, old_offset, old_index) /\ At(BuildFile(n), n, j, new_offset, new_index)
    BY <1>2 DEF ReadsAt
  <2>2. ReadsEntry(BuildFile(o), o, i, old_offset, old_index)
    BY <1>3, <2>1, AtReads
  <2>3. ReadsEntry(BuildFile(n), n, j, new_offset, new_index)
    BY <1>3, <2>1, AtReads
  <2> QED
    BY <2>2, <2>3 DEF ReadsEntry, MergePlaces
<1> DEFINE m == MergeRuns(o, n, is_last_level)
           r == rest[<<i, j>>]
<1>7. Output \o r = m /\ r \in Seq(Entry)
  BY <1>2, <1>5, <1>6 DEF ReadsAt, IsRest
<1>8. Output \in Seq(Entry)
  <2>1. FlattenSeq(written) \in Seq(Entry)
    BY FlattenAppend DEF MergeInv
  <2> QED
    BY <2>1 DEF MergeInv, Output
<1>9. done => r = <<>>
  BY <1>2, <1>5, <1>6 DEF ReadsAt, IsRest, MergeBody
<1>10. m # <<>>
  <2>1. <<1, 1>> \in MergePlaces(o, n) /\ ~ MergeEnd(o, n, <<1, 1>>)
    BY <1>3 DEF MergePlaces, MergeEnd
  <2>2. NextPlace(o, n, is_last_level, <<1, 1>>) \in MergePlaces(o, n)
    BY <1>3, <2>1, MergeAdvances
  <2>3. rest[NextPlace(o, n, is_last_level, <<1, 1>>)] \in Seq(Entry)
    BY <1>5, <2>2 DEF IsRest
  <2>4. m = <<MergeHead(o, n, is_last_level, <<1, 1>>)>>
            \o rest[NextPlace(o, n, is_last_level, <<1, 1>>)]
    BY <1>5, <2>1 DEF IsRest, MergeBody
  <2> DEFINE h == MergeHead(o, n, is_last_level, <<1, 1>>)
             q == rest[NextPlace(o, n, is_last_level, <<1, 1>>)]
  <2> HIDE DEF h, q, m
  <2>5. q \in Seq(Entry) /\ m = <<h>> \o q
    BY <2>3, <2>4 DEF h, q
  <2>6. Len(m) = 1 + Len(q) /\ Len(q) \in Nat
    BY <2>5
  <2> QED
    BY <2>6
<1> DEFINE w == Output
<1> HIDE DEF m, r, w
<1>11. w \in Seq(Entry) /\ r \in Seq(Entry) /\ m = w \o r
  BY <1>7, <1>8 DEF w
<1>12. /\ m \in Seq(Entry) /\ Len(w) <= Len(m)
       /\ \A x \in 1 .. Len(w) : w[x] = m[x]
       /\ done => w = m
  BY <1>9, <1>11
<1>13. is_last_level \in BOOLEAN
  BY DEF MergeInv
<1>14. OutputOf(o, n)
  BY <1>3, <1>4, <1>8, <1>10, <1>12, <1>13 DEF OutputOf, m, w
<1> QED
  BY <1>14 DEF o, n

-----------------------------------------------------------------------------
(* The properties                                                          *)

\* merge_ssts (btree.cpp:232-335) comes to MergeRuns, which KVStore takes for
\* the outcome of a merge, wherever the boundaries of leaves and files fall.
THEOREM LoopComesToMergeRuns == MergeSpec => []ComesToMergeRuns
<1>1. MergeInv => ComesToMergeRuns
  BY OutputIsPrefix DEF OutputOf, ComesToMergeRuns
<1> QED
  BY MergeInvariance, <1>1, PTL

\* Both inputs are in key order, as the file of a memtable is, and the file of
\* a merge that has dropped nothing.
InputsSorted == \A input \in Inputs : InKeyOrder(input[1]) /\ InKeyOrder(input[2])

\* All entries of a merge that drops no pair: those of the newer run and, for
\* the other keys, those of the older.
NewestOf(o, n) == EntriesOf(n) \cup {e \in EntriesOf(o) : ~ HasKey(n, e.key)}

\* MergeRuns has the newest entries in key order.
LEMMA MergeRunsNewest ==
  ASSUME NEW o, NEW n, OutputOf(o, n), InKeyOrder(o), InKeyOrder(n),
         ~ \E i \in DOMAIN o, j \in DOMAIN n : DropsPair(o[i], n[j], is_last_level)
  PROVE  LET m == MergeRuns(o, n, is_last_level)
         IN  InKeyOrder(m) /\ EntriesOf(m) = NewestOf(o, n)
<1> DEFINE m == MergeRuns(o, n, is_last_level)
<1>1. /\ o \in Seq(Entry) /\ o # <<>> /\ Live(o)
      /\ n \in Seq(Entry) /\ n # <<>> /\ Live(n) /\ is_last_level \in BOOLEAN
  BY DEF OutputOf
<1>2. SortedApart({}, o) /\ SortedApart({}, n)
  BY DEF InKeyOrder, SortedApart
<1>3. ~ Drops(Contents(o), Contents(n), is_last_level)
  <2> SUFFICES ASSUME Drops(Contents(o), Contents(n), is_last_level) PROVE FALSE
    OBVIOUS
  <2>1. PICK d \in Contents(o), e \in Contents(n) : d.key = e.key /\ d.value = TOMB_STONE
    BY DEF Drops
  <2>2. PICK i \in DOMAIN o, j \in DOMAIN n : d = o[i] /\ e = n[j]
    BY DEF Contents
  <2>3. DropsPair(o[i], n[j], is_last_level)
    BY <2>1, <2>2 DEF Drops, DropsPair
  <2> QED
    BY <2>3
<1>4. Merges({}, m, Contents(o), Contents(n), is_last_level)
  BY <1>1, <1>2, <1>3, MergeRunsMerges
<1>5. InKeyOrder(m)
  BY <1>4 DEF Merges, SortedApart, InKeyOrder
<1>6. ASSUME NEW e PROVE e \in EntriesOf(m) <=> e \in NewestOf(o, n)
  <2>1. EntriesOf(m) = Contents(m) /\ EntriesOf(o) = Contents(o) /\ EntriesOf(n) = Contents(n)
    BY DEF EntriesOf, Contents
  <2>2. Contents(m) \subseteq Entry /\ Contents(o) \subseteq Entry /\ Contents(n) \subseteq Entry
    BY <1>1, <1>4 DEF Merges, Contents
  <2>3. e \in MergeOf(Contents(o), Contents(n), is_last_level) <=> e \in NewestOf(o, n)
    <3>1. e \in Contents(n) => ~ (is_last_level /\ \E d \in Contents(o) : d.key = e.key /\ d.value = TOMB_STONE)
      BY <1>3 DEF Drops
    <3>2. (\A d \in Contents(n) : d.key # e.key) <=> ~ HasKey(n, e.key)
      BY DEF HasKey, Contents
    <3> QED
      BY <2>1, <3>1, <3>2 DEF MergeOf, NewestOf
  <2>4. e \in Entry => (e \in Contents(m) <=> e \in MergeOf(Contents(o), Contents(n), is_last_level))
    BY <1>4 DEF Merges
  <2>5. e \in NewestOf(o, n) => e \in Entry
    BY <2>1, <2>2 DEF NewestOf
  <2> QED
    BY <2>1, <2>2, <2>3, <2>4, <2>5
<1>7. EntriesOf(m) = NewestOf(o, n)
  BY <1>6
<1> QED
  BY <1>5, <1>7

\* At any time during a merge that drops no pair, what has been written is in
\* key order and is what the newest entries up to its last key are: no entry
\* is skipped, doubled or out of date (btree.cpp:272-301).
THEOREM NewestEntriesWin == ASSUME InputsSorted PROVE MergeSpec => []NewestWins
<1>1. ASSUME MergeInv PROVE NewestWins
  <2>1. PICK input \in Inputs : OutputOf(input[1], input[2])
    BY <1>1, OutputIsPrefix
  <2> DEFINE o == input[1]  n == input[2]
             m == MergeRuns(o, n, is_last_level)
             drops == \E i \in DOMAIN o, j \in DOMAIN n : DropsPair(o[i], n[j], is_last_level)
             kept == {e \in NewestOf(o, n) : \E i \in DOMAIN Output : e.key <= Output[i].key}
             w == Output
  <2>2. RunOf(old) = o /\ RunOf(new) = n
    BY <2>1 DEF OutputOf
  <2>3. ASSUME ~ drops PROVE InKeyOrder(Output) /\ EntriesOf(Output) = kept
    <3>1. InKeyOrder(o) /\ InKeyOrder(n)
      BY DEF InputsSorted
    <3>2. InKeyOrder(m) /\ EntriesOf(m) = NewestOf(o, n)
      BY <2>1, <2>3, <3>1, MergeRunsNewest
    <3>3. /\ m \in Seq(Entry) /\ w \in Seq(Entry) /\ Len(w) <= Len(m)
          /\ \A x \in 1 .. Len(w) : w[x] = m[x]
      BY <2>1 DEF OutputOf
    <3> DEFINE upto == {e \in EntriesOf(m) : \E i \in DOMAIN w : e.key <= w[i].key}
    <3> HIDE DEF o, n, m, w
    <3>4. /\ DOMAIN m = 1 .. Len(m) /\ DOMAIN w = 1 .. Len(w) /\ Len(m) \in Nat /\ Len(w) \in Nat
          /\ \A x \in 1 .. Len(m) : m[x].key \in Nat
      <4>1. \A x \in 1 .. Len(m) : m[x] \in Entry
        BY <3>3
      <4>2. \A e \in Entry : e.key \in Nat
        BY DEF Entry
      <4> QED
        BY <3>3, <4>1, <4>2
    <3>5. InKeyOrder(w)
      BY <3>2, <3>3, <3>4 DEF InKeyOrder
    <3>6. ASSUME NEW e \in EntriesOf(w) PROVE e \in upto
      <4>1. PICK x \in 1 .. Len(w) : e = w[x]
        BY <3>4 DEF EntriesOf
      <4>2. x \in 1 .. Len(m) /\ e = m[x]
        BY <3>3, <3>4, <4>1
      <4>3. e.key <= w[x].key
        BY <3>4, <4>1, <4>2
      <4> QED
        BY <3>4, <4>1, <4>2, <4>3 DEF EntriesOf
    <3>7. ASSUME NEW e \in upto PROVE e \in EntriesOf(w)
      <4>1. PICK y \in 1 .. Len(m) : e = m[y]
        BY <3>4 DEF EntriesOf
      <4>2. PICK x \in 1 .. Len(w) : e.key <= w[x].key
        BY <3>4
      <4>3. x \in 1 .. Len(m) /\ w[x] = m[x]
        BY <3>3, <3>4
      <4>4. ~ (x < y)
        <5> SUFFICES ASSUME x < y PROVE FALSE
          OBVIOUS
        <5>1. m[x].key < m[y].key
          BY <3>2, <3>4, <4>3 DEF InKeyOrder
        <5>2. m[y].key <= m[x].key
          BY <4>1, <4>2, <4>3
        <5> QED
          BY <3>4, <4>3, <5>1, <5>2
      <4>5. y \in 1 .. Len(w)
        BY <3>4, <4>4
      <4> QED
        BY <3>3, <3>4, <4>1, <4>5 DEF EntriesOf
    <3>8. EntriesOf(w) = upto
      BY <3>6, <3>7
    <3> QED
      BY <3>2, <3>5, <3>8 DEF w
  <2> HIDE DEF o, n
  <2> QED
    BY <2>2, <2>3 DEF NewestWins, NewestOf
<1>2. MergeInv => NewestWins
  BY <1>1
<1> QED
  BY MergeInvariance, <1>2, PTL

\* A file written from a run in key order answers every search and every scan
\* up to the end of the run and past it.
LEMMA FilesAnswer ==
  ASSUME NEW run \in Seq(Entry), run # <<>>, InKeyOrder(run)
  PROVE  FileAnswers(run)
<1> DEFINE file == BuildFile(run)
           Found(key) == IF HasKey(run, key)
                         THEN (CHOOSE e \in EntriesOf(run) : e.key = key).value
                         ELSE INVALID_VALUE
           top == LastOf(run).key + 1
<1>1. KeysGoUp(run)
  BY DEF InKeyOrder, KeysGoUp
<1>2. top \in Nat
  <2>1. Len(run) \in DOMAIN run
    OBVIOUS
  <2>2. run[Len(run)] \in Entry
    BY <2>1
  <2> QED
    BY <2>2 DEF LastOf, Entry
<1> HIDE DEF top
<1>3. ASSUME NEW lo \in 0 .. top PROVE SearchValueByKey(file, lo) = Found(lo)
  <2>0. lo \in Nat
    BY <1>2
  <2>1. /\ \A x \in DOMAIN run : run[x].key = lo => SearchValueByKey(file, lo) = run[x].value
        /\ (\A x \in DOMAIN run : run[x].key # lo) => SearchValueByKey(file, lo) = INVALID_VALUE
    BY <1>1, <2>0, SearchFinds
  <2> HIDE DEF file
  <2>2. CASE HasKey(run, lo)
    <3> DEFINE c == CHOOSE e \in EntriesOf(run) : e.key = lo
    <3>1. \E e \in EntriesOf(run) : e.key = lo
      BY <2>2 DEF HasKey, EntriesOf
    <3>2. c \in EntriesOf(run) /\ c.key = lo
      BY <3>1
    <3> HIDE DEF c
    <3>3. PICK x \in DOMAIN run : c = run[x]
      BY <3>2 DEF EntriesOf
    <3>4. SearchValueByKey(file, lo) = c.value
      BY <2>1, <3>2, <3>3
    <3> QED
      BY <2>2, <3>4 DEF c
  <2>3. CASE ~ HasKey(run, lo)
    BY <2>1, <2>3 DEF HasKey
  <2> QED
    BY <2>2, <2>3
<1>4. ASSUME NEW lo \in 0 .. top, NEW hi \in lo .. top
      PROVE  /\ InKeyOrder(Scan(file, lo, hi))
             /\ EntriesOf(Scan(file, lo, hi)) = {e \in EntriesOf(run) : lo <= e.key /\ e.key <= hi}
  <2>1. lo \in Nat /\ hi \in Nat
    BY <1>2
  <2>2. LET found == Scan(file, lo, hi)
        IN  KeysGoUp(found) /\ Contents(found) = Within(Contents(run), lo, hi)
    BY <1>1, <2>1, ScanFinds
  <2> HIDE DEF file
  <2> QED
    BY <2>2 DEF InKeyOrder, KeysGoUp, EntriesOf, Contents, Within
<1> HIDE DEF Found
<1> QED
  BY <1>3, <1>4 DEF FileAnswers, Found, top

\* The file of a merge answers searches and scans whenever its run is in key
\* order.
THEOREM MergedFilesAnswer == MergeSpec => []MergedFileAnswers
<1>1. ASSUME MergeInv, done, InKeyOrder(Output) PROVE FileAnswers(Output)
  <2>1. Output \in Seq(Entry) /\ Output # <<>>
    BY <1>1, OutputIsPrefix DEF OutputOf
  <2> QED
    BY <1>1, <2>1, FilesAnswer
<1>2. MergeInv => MergedFileAnswers
  BY <1>1 DEF MergedFileAnswers
<1> QED
  BY MergeInvariance, <1>2, PTL
=============================================================================
