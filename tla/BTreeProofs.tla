----------------------------- MODULE BTreeProofs -----------------------------
(***************************************************************************)
(* Proofs about the files of BTree: what is in the file that is written    *)
(* from a run, that a search and a scan find all of it, and what the merge *)
(* of two runs holds.  They are for runs of any length, pages of any size  *)
(* and a tree of any height.                                               *)
(***************************************************************************)
EXTENDS BTree, NatRecursion, FiniteSetTheorems

-----------------------------------------------------------------------------
(* Merging two runs                                                        *)

\* No key and no value of the run is the sentinel that marks the end of an
\* input of the merge.
Live(run) == \A i \in DOMAIN run : run[i].key < INVALID_VALUE /\ run[i].value < INVALID_VALUE

\* Where a merge is in its two inputs, and where it goes from there.
MergePlaces(old, new) == (1 .. Len(old) + 1) \X (1 .. Len(new) + 1)

NextPlace(old, new, is_last_level, at) ==
  LET o == EntryAt(old, at[1])
      n == EntryAt(new, at[2])
  IN  <<IF TakesOld(o, n, is_last_level) THEN at[1] + 1 ELSE at[1],
        IF TakesNew(o, n, is_last_level) THEN at[2] + 1 ELSE at[2]>>

MergeEnd(old, new, at) == at[1] > Len(old) /\ at[2] > Len(new)

MergeHead(old, new, is_last_level, at) ==
  MergedEntry(EntryAt(old, at[1]), EntryAt(new, at[2]), is_last_level)

\* One iteration of merge_ssts, and the rest of it.
MergeBody(g, old, new, is_last_level, at) ==
  IF MergeEnd(old, new, at) THEN <<>>
  ELSE <<MergeHead(old, new, is_last_level, at)>> \o g[NextPlace(old, new, is_last_level, at)]

\* What is left to merge.
ToMerge(old, new) ==
  [at \in MergePlaces(old, new) |-> (Len(old) + 1 - at[1]) + (Len(new) + 1 - at[2])]

\* The sentinels of utils.hpp, and the two entries the merge makes up.
LEMMA SentinelsTyped ==
  /\ INVALID_VALUE \in Nat /\ INVALID_VALUE >= 1 /\ TOMB_STONE \in Nat
  /\ TOMB_STONE = INVALID_VALUE - 1 /\ TOMB_STONE # INVALID_VALUE
  /\ InvalidEntry \in Entry /\ BlankEntry \in Entry
  /\ InvalidEntry.key = INVALID_VALUE /\ InvalidEntry.value = INVALID_VALUE
  /\ BlankEntry.key = 0 /\ BlankEntry.value = 0
  BY BTreeAssumption DEF InvalidEntry, BlankEntry, Entry

\* The entry the merge reads at a place: one of the run, or the sentinel that
\* stands for the end of the input (btree.cpp:272).
LEMMA EntryAtTyped ==
  ASSUME NEW run \in Seq(Entry), Live(run), NEW i \in 1 .. Len(run) + 1
  PROVE  /\ EntryAt(run, i) \in Entry
         /\ i <= Len(run) => /\ EntryAt(run, i) = run[i]
                             /\ run[i].key < INVALID_VALUE /\ run[i].value < INVALID_VALUE
         /\ i > Len(run) => EntryAt(run, i) = InvalidEntry
         /\ EntryAt(run, i).key \in 0 .. INVALID_VALUE
         /\ EntryAt(run, i).value \in 0 .. INVALID_VALUE
<1>1. CASE i <= Len(run)
  <2>1. i \in DOMAIN run /\ run[i] \in Entry /\ EntryAt(run, i) = run[i]
    BY <1>1 DEF EntryAt
  <2> QED
    BY <2>1, <1>1 DEF Live, Entry
<1>2. CASE ~ (i <= Len(run))
  <2>1. EntryAt(run, i) = InvalidEntry
    BY <1>2 DEF EntryAt
  <2> QED
    BY <2>1, <1>2, SentinelsTyped DEF Entry
<1> QED
  BY <1>1, <1>2

\* Every iteration of merge_ssts consumes an entry of one input at least: the
\* loop ends.
LEMMA MergeAdvances ==
  ASSUME NEW old \in Seq(Entry), NEW new \in Seq(Entry), Live(old), Live(new),
         NEW is_last_level, NEW at \in MergePlaces(old, new), ~ MergeEnd(old, new, at)
  PROVE  /\ NextPlace(old, new, is_last_level, at) \in MergePlaces(old, new)
         /\ ToMerge(old, new)[NextPlace(old, new, is_last_level, at)] < ToMerge(old, new)[at]
<1> DEFINE i == at[1]  j == at[2]
           o == EntryAt(old, i)  n == EntryAt(new, j)
           next == NextPlace(old, new, is_last_level, at)
<1>1. i \in 1 .. Len(old) + 1 /\ j \in 1 .. Len(new) + 1 /\ at = <<i, j>>
  BY DEF MergePlaces
<1>2. /\ o.key \in 0 .. INVALID_VALUE /\ o.value \in 0 .. INVALID_VALUE
      /\ n.key \in 0 .. INVALID_VALUE /\ n.value \in 0 .. INVALID_VALUE
      /\ i > Len(old) => o.key = INVALID_VALUE /\ o.value = INVALID_VALUE
      /\ j > Len(new) => n.key = INVALID_VALUE
      /\ i <= Len(old) => o.key < INVALID_VALUE
      /\ j <= Len(new) => n.key < INVALID_VALUE
  BY <1>1, EntryAtTyped, SentinelsTyped
<1>3. TakesOld(o, n, is_last_level) => i <= Len(old)
  BY <1>1, <1>2, SentinelsTyped DEF TakesOld, DropsPair
<1>4. TakesNew(o, n, is_last_level) => j <= Len(new)
  <2> SUFFICES ASSUME TakesNew(o, n, is_last_level), ~ (j <= Len(new)) PROVE FALSE
    OBVIOUS
  <2>1. n.key = INVALID_VALUE /\ j > Len(new)
    BY <1>1, <1>2
  <2>2. ~ MergeEnd(old, new, at)
    OBVIOUS
  <2>3. ~ (i > Len(old))
    BY <2>1, <2>2 DEF MergeEnd
  <2>4. o.key < INVALID_VALUE
    BY <1>1, <1>2, <2>3
  <2> HIDE DEF o, n
  <2>5. n.key <= o.key \/ n.key = o.key
    BY DEF TakesNew, DropsPair
  <2>6. o.key \in 0 .. INVALID_VALUE
    BY <1>2
  <2> QED
    BY ONLY <2>1, <2>4, <2>5, <2>6, SentinelsTyped
<1>5. TakesOld(o, n, is_last_level) \/ TakesNew(o, n, is_last_level)
  BY <1>1, <1>2, SentinelsTyped DEF TakesOld, TakesNew, DropsPair, MergeEnd
<1>6. next = <<IF TakesOld(o, n, is_last_level) THEN i + 1 ELSE i,
               IF TakesNew(o, n, is_last_level) THEN j + 1 ELSE j>>
  BY DEF NextPlace
<1>7. /\ next \in MergePlaces(old, new)
      /\ next[1] + next[2] > at[1] + at[2]
      /\ next[1] \in Nat /\ next[2] \in Nat /\ Len(old) \in Nat /\ Len(new) \in Nat
  <2> HIDE DEF o, n, next
  <2> QED
    BY <1>1, <1>3, <1>4, <1>5, <1>6 DEF MergePlaces
<1>8. ToMerge(old, new)[next] < ToMerge(old, new)[at]
  <2> DEFINE m == ToMerge(old, new)
  <2> HIDE DEF next, i, j
  <2>1. m[at] = (Len(old) + 1 - at[1]) + (Len(new) + 1 - at[2])
    BY DEF ToMerge
  <2>2. m[next] = (Len(old) + 1 - next[1]) + (Len(new) + 1 - next[2])
    BY <1>7 DEF ToMerge
  <2>3. PICK a \in Nat, b \in Nat : a = at[1] /\ b = at[2]
    BY DEF MergePlaces
  <2>4. PICK c \in Nat, d \in Nat : c = next[1] /\ d = next[2]
    BY <1>7
  <2>5. PICK k \in Nat, l \in Nat : k = Len(old) /\ l = Len(new)
    OBVIOUS
  <2>6. c + d > a + b
    BY <1>7, <2>3, <2>4
  <2>7. m[at] = (k + 1 - a) + (l + 1 - b) /\ m[next] = (k + 1 - c) + (l + 1 - d)
    BY <2>1, <2>2, <2>3, <2>4, <2>5
  <2> HIDE DEF m
  <2>8. m[next] < m[at]
    BY ONLY <2>6, <2>7
  <2> QED
    BY <2>8 DEF m
<1> QED
  BY <1>7, <1>8

\* What is left of the output at any place is a sequence of entries.
LEMMA MergeTyped ==
  ASSUME NEW old \in Seq(Entry), NEW new \in Seq(Entry), Live(old), Live(new),
         NEW is_last_level, NEW g,
         \A at \in MergePlaces(old, new) : g[at] = MergeBody(g, old, new, is_last_level, at)
  PROVE  \A at \in MergePlaces(old, new) : g[at] \in Seq(Entry)
<1> DEFINE D == MergePlaces(old, new)
           m == ToMerge(old, new)
           S == {at \in D : g[at] \in Seq(Entry)}
<1>1. ASSUME NEW at \in D, Below(D, m, at) \subseteq S PROVE g[at] \in Seq(Entry)
  <2> DEFINE next == NextPlace(old, new, is_last_level, at)
  <2>1. CASE MergeEnd(old, new, at)
    <3>1. g[at] = <<>>
      BY <2>1 DEF MergeBody
    <3> QED
      BY <3>1
  <2>2. CASE ~ MergeEnd(old, new, at)
    <3>1. next \in Below(D, m, at)
      BY <2>2, MergeAdvances DEF Below
    <3>2. MergeHead(old, new, is_last_level, at) \in Entry
      BY EntryAtTyped, SentinelsTyped DEF MergeHead, MergedEntry, MergePlaces
    <3>3. g[next] \in Seq(Entry)
      BY <1>1, <3>1
    <3>4. g[at] = <<MergeHead(old, new, is_last_level, at)>> \o g[next]
      BY <2>2 DEF MergeBody
    <3> QED
      BY <3>2, <3>3, <3>4
  <2> QED
    BY <2>1, <2>2
<1>2. D \subseteq S
  <2>1. Progressive(S, D, m)
    BY <1>1 DEF Progressive
  <2>2. m \in [D -> Nat]
    BY DEF ToMerge, MergePlaces
  <2> HIDE DEF D, m, S
  <2> QED
    BY <2>1, <2>2, MeasureInduction
<1> QED
  BY <1>2

\* The output of merge_ssts is what its loop writes, iteration by iteration.
LEMMA MergeUnfolds ==
  ASSUME NEW old \in Seq(Entry), NEW new \in Seq(Entry), Live(old), Live(new),
         NEW is_last_level, old # <<>> \/ new # <<>>
  PROVE  \E from \in [MergePlaces(old, new) -> Seq(Entry)] :
           /\ \A at \in MergePlaces(old, new) : from[at] = MergeBody(from, old, new, is_last_level, at)
           /\ MergeRuns(old, new, is_last_level) = from[<<1, 1>>]
<1> DEFINE D == MergePlaces(old, new)
           m == ToMerge(old, new)
           Step == [at \in D |-> [f \in [Below(D, m, at) -> Seq(Entry)] |->
                                    MergeBody(f, old, new, is_last_level, at)]]
           from == CHOOSE f : f = [at \in D |-> MergeBody(f, old, new, is_last_level, at)]
<1>1. m \in [D -> Nat]
  BY DEF ToMerge, MergePlaces
<1>2. ASSUME NEW at \in D, NEW f \in [Below(D, m, at) -> Seq(Entry)]
      PROVE  Step[at][f] \in Seq(Entry)
  <2>1. Step[at][f] = MergeBody(f, old, new, is_last_level, at)
    OBVIOUS
  <2>2. CASE MergeEnd(old, new, at)
    BY <2>1, <2>2 DEF MergeBody
  <2>3. CASE ~ MergeEnd(old, new, at)
    <3>1. NextPlace(old, new, is_last_level, at) \in Below(D, m, at)
      BY <2>3, MergeAdvances DEF Below
    <3>2. MergeHead(old, new, is_last_level, at) \in Entry
      BY EntryAtTyped, SentinelsTyped DEF MergeHead, MergedEntry, MergePlaces
    <3> QED
      BY <2>1, <2>3, <3>1, <3>2 DEF MergeBody
  <2> QED
    BY <2>2, <2>3
<1>3. \A at \in D : m[at] < Len(old) + Len(new) + 1
  BY DEF ToMerge, MergePlaces
<1>4. PICK f \in [D -> Seq(Entry)] : Solves(f, Step, D, m)
  <2>1. Len(old) + Len(new) + 1 \in Nat
    OBVIOUS
  <2>2. IsStep(Step, D, Seq(Entry), m)
    BY <1>2 DEF IsStep
  <2> DEFINE N == Len(old) + Len(new) + 1
  <2> HIDE DEF D, m, Step, N
  <2> QED
    BY <1>1, <1>3, <2>1, <2>2, BoundedRecursion DEF N
<1>5. ASSUME NEW at \in D PROVE f[at] = MergeBody(f, old, new, is_last_level, at)
  <2> DEFINE r == [b \in Below(D, m, at) |-> f[b]]
  <2>1. r \in [Below(D, m, at) -> Seq(Entry)]
    BY DEF Below
  <2>2. f[at] = MergeBody(r, old, new, is_last_level, at)
    BY <1>4, <2>1 DEF Solves
  <2>3. CASE MergeEnd(old, new, at)
    BY <2>2, <2>3 DEF MergeBody
  <2>4. CASE ~ MergeEnd(old, new, at)
    <3>1. NextPlace(old, new, is_last_level, at) \in Below(D, m, at)
      BY <2>4, MergeAdvances DEF Below
    <3>2. r[NextPlace(old, new, is_last_level, at)] = f[NextPlace(old, new, is_last_level, at)]
      BY <3>1
    <3> HIDE DEF r
    <3> QED
      BY <2>2, <2>4, <3>2 DEF MergeBody
  <2> QED
    BY <2>3, <2>4
<1>6. f = [at \in D |-> MergeBody(f, old, new, is_last_level, at)]
  BY <1>5
<1>7. from = [at \in D |-> MergeBody(from, old, new, is_last_level, at)]
  <2>1. \E g : g = [at \in D |-> MergeBody(g, old, new, is_last_level, at)]
    BY <1>6
  <2> HIDE DEF D
  <2> QED
    BY <2>1
<1>8. MergeRuns(old, new, is_last_level) = from[<<1, 1>>]
  BY DEF MergeRuns, MergeBody, MergeHead, MergeEnd, NextPlace, MergePlaces
<1> HIDE DEF from
<1>9. \A at \in D : from[at] = MergeBody(from, old, new, is_last_level, at)
  BY <1>7
<1>10. from \in [D -> Seq(Entry)]
  <2>1. \A at \in D : from[at] \in Seq(Entry)
    BY <1>9, MergeTyped
  <2> HIDE DEF D
  <2> QED
    BY <1>7, <2>1
<1> QED
  BY <1>8, <1>9, <1>10

\* The entries of a run from the i-th on, and all of them.
Suffix(run, i) == {run[x] : x \in i .. Len(run)}

Contents(run) == {run[x] : x \in DOMAIN run}

\* The entries of Z aside, the keys of a run go up.
SortedApart(Z, run) ==
  \A i, j \in DOMAIN run :
    i < j /\ run[i].key \notin Z /\ run[j].key \notin Z => run[i].key < run[j].key

\* e comes before every entry of S, those of Z aside.
AllAbove(Z, e, S) == e.key \notin Z => \A d \in S : d.key \notin Z => e.key < d.key

\* Some pair of entries makes the merge into the last level drop both and
\* leave a blank slot (the first branch, btree.cpp:274).
Drops(O, N, is_last_level) ==
  is_last_level /\ \E d \in O, e \in N : d.key = e.key /\ d.value = TOMB_STONE

\* What a merge holds: every newer entry that is not dropped, and the older
\* ones of the keys that have no newer entry.
MergeOf(O, N, is_last_level) ==
  {e \in N : ~ (is_last_level /\ \E d \in O : d.key = e.key /\ d.value = TOMB_STONE)}
  \cup {e \in O : \A d \in N : d.key # e.key}

\* e is the first entry of S, what remains after it is R, if there is one.
FirstOf(Z, e, S, R) ==
  \/ e = InvalidEntry /\ S = {} /\ R = {}
  \/ /\ S = {e} \cup R /\ AllAbove(Z, e, R)
     /\ \A d \in S : d.key < INVALID_VALUE /\ d.value < INVALID_VALUE

\* What is left of the older and of the newer input after an iteration.
AfterOld(o, n, O, O2, is_last_level) == IF TakesOld(o, n, is_last_level) THEN O2 ELSE O

AfterNew(o, n, N, N2, is_last_level) == IF TakesNew(o, n, is_last_level) THEN N2 ELSE N

\* One iteration of merge_ssts on sets of entries: what it writes comes before
\* the rest, and with the merge of the rest makes the merge of the whole.
LEMMA MergeIteration ==
  ASSUME NEW Z, Z \subseteq {0}, NEW is_last_level \in BOOLEAN,
         NEW O \in SUBSET Entry, NEW N \in SUBSET Entry,
         NEW O2 \in SUBSET Entry, NEW N2 \in SUBSET Entry,
         NEW o \in Entry, NEW n \in Entry,
         FirstOf(Z, o, O, O2), FirstOf(Z, n, N, N2),
         O # {} \/ N # {},
         Z = {} => ~ Drops(O, N, is_last_level),
         NEW O1, O1 = AfterOld(o, n, O, O2, is_last_level),
         NEW N1, N1 = AfterNew(o, n, N, N2, is_last_level),
         NEW h, h = MergedEntry(o, n, is_last_level)
  PROVE  /\ \A e \in Entry : e.key \notin Z =>
               (e \in MergeOf(O, N, is_last_level) <=> e = h \/ e \in MergeOf(O1, N1, is_last_level))
         /\ AllAbove(Z, h, MergeOf(O1, N1, is_last_level))
         /\ h \in Entry /\ h.key < INVALID_VALUE /\ h.value < INVALID_VALUE
<1> USE SentinelsTyped DEF AfterOld, AfterNew
<1>0. /\ o.key \in Nat /\ o.value \in Nat /\ n.key \in Nat /\ n.value \in Nat
      /\ \A d \in O \cup N \cup O2 \cup N2 : d.key \in Nat /\ d.value \in Nat
  BY DEF Entry
<1>1. CASE DropsPair(o, n, is_last_level)
  <2>1. /\ h = BlankEntry /\ O1 = O2 /\ N1 = N2
        /\ o.value = TOMB_STONE /\ is_last_level /\ n.key = o.key
    BY <1>1 DEF MergedEntry, TakesOld, TakesNew, DropsPair
  <2>2. o \in O /\ n \in N /\ Drops(O, N, is_last_level)
    BY <2>1 DEF FirstOf, Drops
  <2>3. Z = {0}
    BY <2>2
  <2>4. h \in Entry /\ h.key = 0 /\ h.value = 0
    BY <2>1
  <2>5. ASSUME NEW e \in Entry, e.key \notin Z
        PROVE  e \in MergeOf(O, N, is_last_level) <=> e \in MergeOf(O2, N2, is_last_level)
    <3>1. O = {o} \cup O2 /\ N = {n} \cup N2 /\ AllAbove(Z, o, O2) /\ AllAbove(Z, n, N2)
      BY <2>2 DEF FirstOf
    <3>2. \A d \in O2 : d.key = o.key => o.key \in Z
      BY <3>1, <1>0 DEF AllAbove
    <3>3. \A d \in N2 : d.key = o.key => o.key \in Z
      BY <3>1, <2>1, <1>0 DEF AllAbove
    <3>4. CASE e.key = o.key
      <4>1. e \notin MergeOf(O, N, is_last_level)
        BY <3>4, <2>1, <2>2 DEF MergeOf
      <4>2. e \notin O2 /\ e \notin N2
        BY <3>2, <3>3, <3>4, <2>5
      <4> QED
        BY <4>1, <4>2 DEF MergeOf
    <3>5. CASE e.key # o.key
      <4>1. e \in N <=> e \in N2
        BY <3>1, <3>5, <2>1
      <4>2. e \in O <=> e \in O2
        BY <3>1, <3>5
      <4>3. (\E d \in O : d.key = e.key /\ d.value = TOMB_STONE) <=> (\E d \in O2 : d.key = e.key /\ d.value = TOMB_STONE)
        BY <3>1, <3>5
      <4>4. (\A d \in N : d.key # e.key) <=> (\A d \in N2 : d.key # e.key)
        BY <3>1, <3>5, <2>1
      <4> QED
        BY <4>1, <4>2, <4>3, <4>4 DEF MergeOf
    <3> QED
      BY <3>4, <3>5
  <2>6. AllAbove(Z, h, MergeOf(O2, N2, is_last_level))
    BY <2>3, <2>4 DEF AllAbove
  <2>7. h.key \in Z
    BY <2>3, <2>4
  <2>8. \A e \in Entry : e.key \notin Z => e # h
    BY <2>7
  <2>9. \A e \in Entry : e.key \notin Z =>
          (e \in MergeOf(O, N, is_last_level) <=> e = h \/ e \in MergeOf(O2, N2, is_last_level))
    BY <2>5, <2>8
  <2>10. O1 = O2 /\ N1 = N2
    BY <2>1
  <2>11. h.key < INVALID_VALUE /\ h.value < INVALID_VALUE
    BY <2>4
  <2> QED
    BY <2>4, <2>6, <2>9, <2>10, <2>11
<1>2. CASE ~ DropsPair(o, n, is_last_level) /\ n.key < o.key
  <2>1. h = n /\ O1 = O /\ N1 = N2
    BY <1>2, <1>0 DEF MergedEntry, TakesOld, TakesNew
  <2>2. n # InvalidEntry
    BY <1>2, <1>0 DEF FirstOf, Entry
  <2>3. /\ N = {n} \cup N2 /\ AllAbove(Z, n, N2)
        /\ n.key < INVALID_VALUE /\ n.value < INVALID_VALUE
    BY <2>2 DEF FirstOf
  <2>4. \A d \in O : d.key \notin Z => n.key < d.key
    BY <1>2, <1>0 DEF FirstOf, AllAbove
  <2>5. ASSUME NEW e \in Entry, e.key \notin Z
        PROVE  e \in MergeOf(O, N, is_last_level) <=> e = n \/ e \in MergeOf(O, N2, is_last_level)
    <3>1. CASE e.key = n.key
      <4>1. \A d \in O : d.key # e.key
        BY <3>1, <2>4, <2>5, <1>0
      <4>2. e \in N2 => FALSE
        BY <3>1, <2>3, <2>5, <1>0 DEF AllAbove
      <4> QED
        BY <4>1, <4>2, <2>3 DEF MergeOf
    <3>2. CASE e.key # n.key
      BY <3>2, <2>3 DEF MergeOf
    <3> QED
      BY <3>1, <3>2
  <2>6. AllAbove(Z, n, MergeOf(O, N2, is_last_level))
    BY <2>3, <2>4 DEF AllAbove, MergeOf
  <2> QED
    BY <2>1, <2>3, <2>5, <2>6
<1>3. CASE ~ DropsPair(o, n, is_last_level) /\ n.key = o.key
  <2>1. o.key # INVALID_VALUE
    BY <1>3, <1>0 DEF FirstOf
  <2>2. /\ N = {n} \cup N2 /\ AllAbove(Z, n, N2)
        /\ O = {o} \cup O2 /\ AllAbove(Z, o, O2)
        /\ n.key < INVALID_VALUE /\ n.value < INVALID_VALUE
    BY <2>1, <1>3 DEF FirstOf
  <2>3. h = n /\ O1 = O2 /\ N1 = N2
    BY <1>3, <2>1, <1>0 DEF MergedEntry, TakesOld, TakesNew
  <2>4. o.value = TOMB_STONE => ~ is_last_level
    BY <1>3 DEF DropsPair
  <2>5. ASSUME NEW e \in Entry, e.key \notin Z
        PROVE  e \in MergeOf(O, N, is_last_level) <=> e = n \/ e \in MergeOf(O2, N2, is_last_level)
    <3>1. CASE e.key = n.key
      <4>1. (\A d \in O2 : d.key # e.key) /\ (\A d \in N2 : d.key # e.key)
        BY <3>1, <2>2, <2>5, <1>0, <1>3 DEF AllAbove
      <4>2. e \in MergeOf(O, N, is_last_level) <=> e = n
        BY <4>1, <3>1, <2>2, <2>4, <1>3 DEF MergeOf
      <4>3. e \notin MergeOf(O2, N2, is_last_level)
        BY <4>1 DEF MergeOf
      <4> QED
        BY <4>2, <4>3
    <3>2. CASE e.key # n.key
      <4>1. e \in N <=> e \in N2
        BY <2>2, <3>2
      <4>2. e \in O <=> e \in O2
        BY <2>2, <3>2, <1>3
      <4>3. (\E d \in O : d.key = e.key /\ d.value = TOMB_STONE) <=> (\E d \in O2 : d.key = e.key /\ d.value = TOMB_STONE)
        BY <2>2, <3>2, <1>3
      <4>4. (\A d \in N : d.key # e.key) <=> (\A d \in N2 : d.key # e.key)
        BY <2>2, <3>2
      <4> QED
        BY <4>1, <4>2, <4>3, <4>4, <3>2 DEF MergeOf
    <3> QED
      BY <3>1, <3>2
  <2>6. AllAbove(Z, n, MergeOf(O2, N2, is_last_level))
    BY <2>2, <1>3 DEF AllAbove, MergeOf
  <2> QED
    BY <2>2, <2>3, <2>5, <2>6
<1>4. CASE ~ DropsPair(o, n, is_last_level) /\ o.key < n.key
  <2>1. o # InvalidEntry
    BY <1>4, <1>0 DEF Entry
  <2>2. /\ O = {o} \cup O2 /\ AllAbove(Z, o, O2)
        /\ o.key < INVALID_VALUE /\ o.value < INVALID_VALUE
    BY <2>1 DEF FirstOf
  <2>3. h = o /\ O1 = O2 /\ N1 = N
    BY <1>4, <2>2, <1>0 DEF MergedEntry, TakesOld, TakesNew
  <2>4. \A d \in N : d.key \notin Z => o.key < d.key
    BY <1>4, <1>0 DEF FirstOf, AllAbove
  <2>5. ASSUME NEW e \in Entry, e.key \notin Z
        PROVE  e \in MergeOf(O, N, is_last_level) <=> e = o \/ e \in MergeOf(O2, N, is_last_level)
    <3>1. CASE e.key = o.key
      <4>1. \A d \in N : d.key # e.key
        BY <3>1, <2>4, <2>5, <1>0
      <4>2. e \in O2 => FALSE
        BY <3>1, <2>2, <2>5, <1>0 DEF AllAbove
      <4> QED
        BY <4>1, <4>2, <2>2 DEF MergeOf
    <3>2. CASE e.key # o.key
      <4>1. e \in O <=> e \in O2
        BY <2>2, <3>2
      <4>2. (\E d \in O : d.key = e.key /\ d.value = TOMB_STONE) <=> (\E d \in O2 : d.key = e.key /\ d.value = TOMB_STONE)
        BY <2>2, <3>2
      <4> QED
        BY <4>1, <4>2, <3>2 DEF MergeOf
    <3> QED
      BY <3>1, <3>2
  <2>6. AllAbove(Z, o, MergeOf(O2, N, is_last_level))
    BY <2>2, <2>4 DEF AllAbove, MergeOf
  <2> QED
    BY <2>2, <2>3, <2>5, <2>6
<1> QED
  BY <1>0, <1>1, <1>2, <1>3, <1>4

\* The entry at a place of a run is the first of what is left there.
LEMMA SuffixFirst ==
  ASSUME NEW Z, NEW run \in Seq(Entry), Live(run), SortedApart(Z, run),
         NEW i \in 1 .. Len(run) + 1
  PROVE  /\ Suffix(run, i) \in SUBSET Entry /\ Suffix(run, i + 1) \in SUBSET Entry
         /\ FirstOf(Z, EntryAt(run, i), Suffix(run, i), Suffix(run, i + 1))
         /\ Suffix(run, i) = {} <=> i > Len(run)
<1>1. Len(run) \in Nat /\ DOMAIN run = 1 .. Len(run) /\ \A x \in 1 .. Len(run) : run[x] \in Entry
  OBVIOUS
<1>2. Suffix(run, i) \in SUBSET Entry /\ Suffix(run, i + 1) \in SUBSET Entry
  BY <1>1 DEF Suffix
<1>3. CASE i > Len(run)
  <2>1. Suffix(run, i) = {} /\ Suffix(run, i + 1) = {}
    BY <1>1, <1>3 DEF Suffix
  <2>2. EntryAt(run, i) = InvalidEntry
    BY <1>3, EntryAtTyped
  <2> QED
    BY <1>2, <1>3, <2>1, <2>2 DEF FirstOf
<1>4. CASE ~ (i > Len(run))
  <2>1. i \in DOMAIN run /\ EntryAt(run, i) = run[i]
    BY <1>1, <1>4 DEF EntryAt
  <2>2. Suffix(run, i) = {run[i]} \cup Suffix(run, i + 1)
    <3>1. i .. Len(run) = {i} \cup (i + 1 .. Len(run))
      BY <1>1, <1>4
    <3> QED
      BY <3>1 DEF Suffix
  <2>3. AllAbove(Z, run[i], Suffix(run, i + 1))
    <3>1. ASSUME NEW x \in i + 1 .. Len(run), run[i].key \notin Z, run[x].key \notin Z
          PROVE  run[i].key < run[x].key
      BY <1>1, <2>1, <3>1 DEF SortedApart
    <3> QED
      BY <3>1 DEF AllAbove, Suffix
  <2>4. \A d \in Suffix(run, i) : d.key < INVALID_VALUE /\ d.value < INVALID_VALUE
    <3>1. \A x \in i .. Len(run) : run[x].key < INVALID_VALUE /\ run[x].value < INVALID_VALUE
      BY <1>1, <1>4 DEF Live
    <3> QED
      BY <3>1 DEF Suffix
  <2> QED
    BY <1>2, <1>4, <2>1, <2>2, <2>3, <2>4 DEF FirstOf
<1> QED
  BY <1>3, <1>4

\* A run after an entry was put in front of it.
LEMMA ConsRun ==
  ASSUME NEW Z, NEW h \in Entry, NEW r \in Seq(Entry), NEW s, s = <<h>> \o r
  PROVE  /\ s \in Seq(Entry) /\ s # <<>>
         /\ Contents(s) = {h} \cup Contents(r)
         /\ Live(r) /\ h.key < INVALID_VALUE /\ h.value < INVALID_VALUE => Live(s)
         /\ SortedApart(Z, r) /\ AllAbove(Z, h, Contents(r)) => SortedApart(Z, s)
<1>1. /\ s \in Seq(Entry) /\ Len(s) = Len(r) + 1 /\ Len(r) \in Nat
      /\ DOMAIN s = 1 .. Len(r) + 1 /\ DOMAIN r = 1 .. Len(r)
      /\ s[1] = h /\ \A x \in 2 .. Len(r) + 1 : s[x] = r[x - 1]
  OBVIOUS
<1>2. s # <<>>
  BY <1>1
<1>3. Contents(s) = {h} \cup Contents(r)
  <2>1. \A x \in DOMAIN s : s[x] = h \/ (x - 1 \in DOMAIN r /\ s[x] = r[x - 1])
    BY <1>1
  <2>2. \A x \in DOMAIN r : x + 1 \in DOMAIN s /\ s[x + 1] = r[x]
    BY <1>1
  <2>3. 1 \in DOMAIN s
    BY <1>1
  <2>4. \A e \in Contents(s) : e \in {h} \cup Contents(r)
    BY <2>1 DEF Contents
  <2>5. h \in Contents(s)
    BY <1>1, <2>3 DEF Contents
  <2>6. \A e \in Contents(r) : e \in Contents(s)
    BY <2>2 DEF Contents
  <2> QED
    BY <2>4, <2>5, <2>6
<1>4. ASSUME Live(r), h.key < INVALID_VALUE, h.value < INVALID_VALUE PROVE Live(s)
  <2>1. \A x \in DOMAIN s : s[x] = h \/ (x - 1 \in DOMAIN r /\ s[x] = r[x - 1])
    BY <1>1
  <2> QED
    BY <1>4, <2>1 DEF Live
<1>5. ASSUME SortedApart(Z, r), AllAbove(Z, h, Contents(r)) PROVE SortedApart(Z, s)
  <2>1. ASSUME NEW i \in DOMAIN s, NEW j \in DOMAIN s, i < j,
               s[i].key \notin Z, s[j].key \notin Z
        PROVE  s[i].key < s[j].key
    <3>1. j - 1 \in DOMAIN r /\ s[j] = r[j - 1]
      BY <1>1, <2>1
    <3>2. CASE i = 1
      <4>1. s[j] \in Contents(r) /\ s[i] = h
        BY <1>1, <3>1, <3>2 DEF Contents
      <4> QED
        BY <4>1, <2>1, <1>5 DEF AllAbove
    <3>3. CASE i # 1
      <4>1. i - 1 \in DOMAIN r /\ s[i] = r[i - 1] /\ i - 1 < j - 1
        BY <1>1, <2>1, <3>3
      <4> QED
        BY <4>1, <3>1, <2>1, <1>5 DEF SortedApart
    <3> QED
      BY <3>2, <3>3
  <2> QED
    BY <2>1 DEF SortedApart
<1> QED
  BY <1>1, <1>2, <1>3, <1>4, <1>5

\* A run that holds what a merge of these entries is to hold.
Merges(Z, run, O, N, is_last_level) ==
  /\ run \in Seq(Entry) /\ Live(run) /\ SortedApart(Z, run)
  /\ \A e \in Entry : e.key \notin Z => (e \in Contents(run) <=> e \in MergeOf(O, N, is_last_level))
  /\ O # {} \/ N # {} => run # <<>>

\* What merge_ssts (btree.cpp:232-335) writes, for inputs of any length and
\* any size of page: the keys of the output go up, it has every newer entry and
\* the older entries of the other keys, and nothing else, unless a pair is
\* dropped.  With Z = {0}, what a dropped pair leaves (a slot with the key 0)
\* is set aside and the rest still holds of the keys other than 0.
THEOREM MergeRunsMerges ==
  ASSUME NEW Z, Z \subseteq {0}, NEW is_last_level \in BOOLEAN,
         NEW old \in Seq(Entry), NEW new \in Seq(Entry), Live(old), Live(new),
         old # <<>> \/ new # <<>>,
         SortedApart(Z, old), SortedApart(Z, new),
         Z = {} => ~ Drops(Contents(old), Contents(new), is_last_level)
  PROVE  Merges(Z, MergeRuns(old, new, is_last_level), Contents(old), Contents(new), is_last_level)
<1> DEFINE D == MergePlaces(old, new)
           m == ToMerge(old, new)
<1>1. PICK from \in [D -> Seq(Entry)] :
           /\ \A at \in D : from[at] = MergeBody(from, old, new, is_last_level, at)
           /\ MergeRuns(old, new, is_last_level) = from[<<1, 1>>]
  BY MergeUnfolds
<1> DEFINE Good(at) == Merges(Z, from[at], Suffix(old, at[1]), Suffix(new, at[2]), is_last_level)
           S == {at \in D : Good(at)}
<1>2. ASSUME NEW at \in D, Below(D, m, at) \subseteq S PROVE Good(at)
  <2> DEFINE O == Suffix(old, at[1])  N == Suffix(new, at[2])
             O2 == Suffix(old, at[1] + 1)  N2 == Suffix(new, at[2] + 1)
             o == EntryAt(old, at[1])  n == EntryAt(new, at[2])
             next == NextPlace(old, new, is_last_level, at)
             O1 == AfterOld(o, n, O, O2, is_last_level)
             N1 == AfterNew(o, n, N, N2, is_last_level)
             h == MergedEntry(o, n, is_last_level)
  <2>1. at[1] \in 1 .. Len(old) + 1 /\ at[2] \in 1 .. Len(new) + 1
    BY DEF MergePlaces
  <2>2. /\ O \in SUBSET Entry /\ O2 \in SUBSET Entry /\ FirstOf(Z, o, O, O2)
        /\ O = {} <=> at[1] > Len(old)
    BY <2>1, SuffixFirst
  <2>3. /\ N \in SUBSET Entry /\ N2 \in SUBSET Entry /\ FirstOf(Z, n, N, N2)
        /\ N = {} <=> at[2] > Len(new)
    BY <2>1, SuffixFirst
  <2>4. CASE MergeEnd(old, new, at)
    <3>1. from[at] = <<>>
      BY <1>1, <2>4 DEF MergeBody
    <3>2. O = {} /\ N = {}
      BY <2>2, <2>3, <2>4 DEF MergeEnd
    <3>3. Contents(<<>>) = {} /\ Live(<<>>) /\ SortedApart(Z, <<>>) /\ <<>> \in Seq(Entry)
      BY DEF Contents, Live, SortedApart
    <3>4. MergeOf({}, {}, is_last_level) = {}
      BY DEF MergeOf
    <3> HIDE DEF O, N
    <3>5. Merges(Z, from[at], O, N, is_last_level)
      BY <3>1, <3>2, <3>3, <3>4 DEF Merges
    <3> QED
      BY <3>5 DEF O, N
  <2>5. CASE ~ MergeEnd(old, new, at)
    <3>1. next \in Below(D, m, at) /\ next \in D
      BY <2>5, MergeAdvances DEF Below
    <3>2. Good(next)
      BY <3>1, <1>2
    <3>3. Suffix(old, next[1]) = O1 /\ Suffix(new, next[2]) = N1
      BY DEF NextPlace, AfterOld, AfterNew
    <3>4. from[at] = <<h>> \o from[next]
      BY <2>5, <1>1 DEF MergeBody, MergeHead
    <3>5. Merges(Z, from[next], O1, N1, is_last_level)
      BY <3>2, <3>3
    <3>6. Z = {} => ~ Drops(O, N, is_last_level)
      <4>1. O \subseteq Contents(old) /\ N \subseteq Contents(new)
        BY <2>1 DEF Suffix, Contents
      <4> QED
        BY <4>1 DEF Drops
    <3>7. o \in Entry /\ n \in Entry
      BY <2>1, EntryAtTyped
    <3>8. O # {} \/ N # {}
      BY <2>1, <2>2, <2>3, <2>5 DEF MergeEnd
    <3> HIDE DEF O, N, O2, N2, o, n, next, h
    <3>9. /\ \A e \in Entry : e.key \notin Z =>
               (e \in MergeOf(O, N, is_last_level) <=> e = h \/ e \in MergeOf(O1, N1, is_last_level))
          /\ AllAbove(Z, h, MergeOf(O1, N1, is_last_level))
          /\ h \in Entry /\ h.key < INVALID_VALUE /\ h.value < INVALID_VALUE
      BY <2>2, <2>3, <3>6, <3>7, <3>8, MergeIteration DEF h, O1, N1
    <3> HIDE DEF O1, N1
    <3>10. AllAbove(Z, h, Contents(from[next]))
      <4>1. Contents(from[next]) \subseteq Entry
        BY <3>5 DEF Merges, Contents
      <4> QED
        BY <3>5, <3>9, <4>1 DEF Merges, AllAbove
    <3>11. /\ from[at] \in Seq(Entry) /\ from[at] # <<>>
           /\ Contents(from[at]) = {h} \cup Contents(from[next])
           /\ Live(from[at]) /\ SortedApart(Z, from[at])
      BY <3>4, <3>5, <3>9, <3>10, ConsRun DEF Merges
    <3>12. Merges(Z, from[at], O, N, is_last_level)
      BY <3>5, <3>9, <3>11 DEF Merges
    <3> QED
      BY <3>12 DEF O, N
  <2> QED
    BY <2>4, <2>5
<1>3. D \subseteq S
  <2>1. Progressive(S, D, m)
    BY <1>2 DEF Progressive
  <2>2. m \in [D -> Nat]
    BY DEF ToMerge, MergePlaces
  <2> HIDE DEF D, m, S
  <2> QED
    BY <2>1, <2>2, MeasureInduction
<1>4. <<1, 1>> \in D
  BY DEF MergePlaces
<1>5. Merges(Z, from[<<1, 1>>], Suffix(old, 1), Suffix(new, 1), is_last_level)
  <2>1. Good(<<1, 1>>)
    BY <1>3, <1>4
  <2> QED
    BY <2>1
<1>6. Suffix(old, 1) = Contents(old) /\ Suffix(new, 1) = Contents(new)
  BY DEF Suffix, Contents
<1> QED
  BY <1>1, <1>5, <1>6

-----------------------------------------------------------------------------
(* Binary search in a node                                                 *)

\* What is left to search: it goes down at every step of a binary search.
RangeSize(entries) == [at \in SearchRanges(entries) |-> at[2] - at[1] + Len(entries) + 1]

\* The middle of a range that is not empty is in it, and both halves of the
\* range are smaller.
LEMMA MiddleOfRange ==
  ASSUME NEW entries, Len(entries) \in Nat, NEW at \in SearchRanges(entries)
  PROVE  /\ at[1] \in 0 .. Len(entries) /\ at[2] \in -1 .. Len(entries) - 1
         /\ RangeSize(entries) \in [SearchRanges(entries) -> Nat]
         /\ \A r \in SearchRanges(entries) : RangeSize(entries)[r] < 2 * Len(entries) + 1
         /\ at[1] <= at[2] =>
              /\ MidOf(at) \in at[1] .. at[2]
              /\ MidOf(at) + 1 \in 1 .. Len(entries)
              /\ <<MidOf(at) + 1, at[2]>> \in Below(SearchRanges(entries), RangeSize(entries), at)
              /\ <<at[1], MidOf(at) - 1>> \in Below(SearchRanges(entries), RangeSize(entries), at)
<1> DEFINE n == Len(entries)
<1>1. at[1] \in 0 .. n /\ at[2] \in -1 .. n - 1
  BY DEF SearchRanges
<1>2. RangeSize(entries) \in [SearchRanges(entries) -> Nat]
  BY DEF SearchRanges, RangeSize
<1>3. \A r \in SearchRanges(entries) : RangeSize(entries)[r] < 2 * n + 1
  BY DEF SearchRanges, RangeSize
<1>4. ASSUME at[1] <= at[2]
      PROVE  /\ MidOf(at) \in at[1] .. at[2]
             /\ MidOf(at) + 1 \in 1 .. n
             /\ <<MidOf(at) + 1, at[2]>> \in Below(SearchRanges(entries), RangeSize(entries), at)
             /\ <<at[1], MidOf(at) - 1>> \in Below(SearchRanges(entries), RangeSize(entries), at)
  <2>1. MidOf(at) \in at[1] .. at[2]
    BY <1>1, <1>4 DEF MidOf
  <2>2. <<MidOf(at) + 1, at[2]>> \in SearchRanges(entries)
    BY <1>1, <2>1 DEF SearchRanges
  <2>3. <<at[1], MidOf(at) - 1>> \in SearchRanges(entries)
    BY <1>1, <2>1 DEF SearchRanges
  <2>4. RangeSize(entries)[<<MidOf(at) + 1, at[2]>>] < RangeSize(entries)[at]
    <3>1. RangeSize(entries)[<<MidOf(at) + 1, at[2]>>] = at[2] - (MidOf(at) + 1) + n + 1
      BY <2>2 DEF RangeSize
    <3>2. RangeSize(entries)[at] = at[2] - at[1] + n + 1
      BY DEF RangeSize
    <3>3. PICK l \in Int, r \in Int, c \in Int : l = at[1] /\ r = at[2] /\ c = MidOf(at) /\ l <= c /\ c <= r
      BY <1>1, <2>1
    <3>4. PICK k \in Nat : k = n
      OBVIOUS
    <3>5. l <= c /\ c <= r
      BY <3>3
    <3>6. r - (c + 1) + k + 1 < r - l + k + 1
      BY ONLY <3>5
    <3> QED
      BY ONLY <3>1, <3>2, <3>3, <3>4, <3>6
  <2>5. RangeSize(entries)[<<at[1], MidOf(at) - 1>>] < RangeSize(entries)[at]
    <3>1. RangeSize(entries)[<<at[1], MidOf(at) - 1>>] = (MidOf(at) - 1) - at[1] + n + 1
      BY <2>3 DEF RangeSize
    <3>2. RangeSize(entries)[at] = at[2] - at[1] + n + 1
      BY DEF RangeSize
    <3>3. PICK l \in Int, r \in Int, c \in Int : l = at[1] /\ r = at[2] /\ c = MidOf(at) /\ l <= c /\ c <= r
      BY <1>1, <2>1
    <3>4. PICK k \in Nat : k = n
      OBVIOUS
    <3>5. l <= c /\ c <= r
      BY <3>3
    <3>6. (c - 1) - l + k + 1 < r - l + k + 1
      BY ONLY <3>5
    <3> QED
      BY ONLY <3>1, <3>2, <3>3, <3>4, <3>6
  <2> QED
    BY <1>1, <2>1, <2>2, <2>3, <2>4, <2>5 DEF Below
<1> QED
  BY <1>1, <1>2, <1>3, <1>4

\* The keys of a node or a run go up strictly.
KeysGoUp(entries) == \A i, j \in DOMAIN entries : i < j => entries[i].key < entries[j].key

\* One step of the binary search in a leaf (btree.cpp:174-188).
LeafBody(f, entries, key, at) ==
  IF at[1] > at[2] THEN INVALID_VALUE
  ELSE IF entries[MidOf(at) + 1].key = key THEN entries[MidOf(at) + 1].value
  ELSE IF entries[MidOf(at) + 1].key < key THEN f[<<MidOf(at) + 1, at[2]>>]
  ELSE f[<<at[1], MidOf(at) - 1>>]

\* The binary search in a leaf ends.
LEMMA LeafValueUnfolds ==
  ASSUME NEW entries, Len(entries) \in Nat, NEW key
  PROVE  \E f : /\ \A at \in SearchRanges(entries) : f[at] = LeafBody(f, entries, key, at)
                /\ LeafValue(entries, key) = f[<<0, Len(entries) - 1>>]
<1> DEFINE D == SearchRanges(entries)
           m == RangeSize(entries)
           Here(at) == entries[MidOf(at) + 1]
           End == {at \in D : at[1] > at[2] \/ Here(at).key = key}
           a == [at \in D |-> IF at[1] > at[2] THEN INVALID_VALUE ELSE Here(at).value]
           next == [at \in D |-> IF Here(at).key < key THEN <<MidOf(at) + 1, at[2]>>
                                 ELSE <<at[1], MidOf(at) - 1>>]
           find == CHOOSE f : f = [at \in D |-> LeafBody(f, entries, key, at)]
<1>1. TailStep(next, D, m, End)
  <2>1. ASSUME NEW at \in D \ End PROVE next[at] \in Below(D, m, at)
    <3>1. at[1] <= at[2]
      BY DEF SearchRanges
    <3> QED
      BY <3>1, MiddleOfRange
  <2> QED
    BY <2>1 DEF TailStep
<1>2. <<0, Len(entries) - 1>> \in D
  BY DEF SearchRanges
<1>3. m \in [D -> Nat] /\ \A at \in D : m[at] < 2 * Len(entries) + 1
  BY <1>2, MiddleOfRange
<1>4. PICK f : f = [at \in D |-> IF at \in End THEN a[at] ELSE f[next[at]]]
  <2> DEFINE bound == 2 * Len(entries) + 1
  <2>1. bound \in Nat
    OBVIOUS
  <2>2. \A at \in D : m[at] < bound
    BY <1>3
  <2> HIDE DEF D, m, End, a, next, bound
  <2> QED
    <3>1. /\ m \in [D -> Nat] /\ bound \in Nat /\ \A at \in D : m[at] < bound
          /\ TailStep(next, D, m, End)
      BY <1>1, <1>3, <2>1, <2>2
    <3> QED
      BY ONLY <3>1, TailRecursion
<1>5. ASSUME NEW at \in D PROVE f[at] = LeafBody(f, entries, key, at)
  <2>1. f[at] = IF at \in End THEN a[at] ELSE f[next[at]]
    <3> HIDE DEF End, a, next
    <3> QED
      BY <1>4
  <2>2. at[1] \in Int /\ at[2] \in Int
    BY DEF SearchRanges
  <2> QED
    BY <2>1, <2>2 DEF LeafBody
<1>6. f = [at \in D |-> LeafBody(f, entries, key, at)]
  <2>1. f = [at \in D |-> f[at]]
    <3> HIDE DEF D, End, a, next
    <3> QED
      BY <1>4
  <2> QED
    BY <1>5, <2>1
<1>7. find = [at \in D |-> LeafBody(find, entries, key, at)]
  <2> HIDE DEF D
  <2> QED
    BY <1>6
<1>8. LeafValue(entries, key) = find[<<0, Len(entries) - 1>>]
  BY DEF LeafValue, LeafBody
<1> HIDE DEF find
<1> QED
  BY <1>7, <1>8

\* The binary search in a leaf finds the value of a key that the leaf has, and
\* nothing for any other key.
LEMMA LeafValueFinds ==
  ASSUME NEW entries, Len(entries) \in Nat, DOMAIN entries = 1 .. Len(entries),
         \A i \in DOMAIN entries : entries[i].key \in Nat,
         KeysGoUp(entries), NEW key \in Nat
  PROVE  /\ \A i \in DOMAIN entries : entries[i].key = key => LeafValue(entries, key) = entries[i].value
         /\ (\A i \in DOMAIN entries : entries[i].key # key) => LeafValue(entries, key) = INVALID_VALUE
<1> DEFINE D == SearchRanges(entries)
           m == RangeSize(entries)
           Inside(at) == \A i \in DOMAIN entries :
                           /\ i - 1 < at[1] => entries[i].key < key
                           /\ i - 1 > at[2] => entries[i].key > key
           Right(v) == /\ \A i \in DOMAIN entries : entries[i].key = key => v = entries[i].value
                       /\ (\A i \in DOMAIN entries : entries[i].key # key) => v = INVALID_VALUE
<1>1. PICK find : /\ \A at \in D : find[at] = LeafBody(find, entries, key, at)
                  /\ LeafValue(entries, key) = find[<<0, Len(entries) - 1>>]
  BY LeafValueUnfolds
<1> DEFINE S == {at \in D : Inside(at) => Right(find[at])}
<1>2. ASSUME NEW at \in D, Below(D, m, at) \subseteq S, Inside(at) PROVE Right(find[at])
  <2>1. at[1] \in 0 .. Len(entries) /\ at[2] \in -1 .. Len(entries) - 1
    BY MiddleOfRange
  <2>2. find[at] = LeafBody(find, entries, key, at)
    BY <1>1
  <2>3. CASE at[1] > at[2]
    <3>1. find[at] = INVALID_VALUE
      BY <2>2, <2>3 DEF LeafBody
    <3>2. \A i \in DOMAIN entries : entries[i].key # key
      BY <1>2, <2>1, <2>3
    <3> QED
      BY <3>1, <3>2
  <2>4. CASE at[1] <= at[2]
    <3> DEFINE mid == MidOf(at)
               upper == <<mid + 1, at[2]>>
               lower == <<at[1], mid - 1>>
    <3>1. /\ mid \in at[1] .. at[2] /\ mid + 1 \in 1 .. Len(entries)
          /\ upper \in Below(D, m, at) /\ lower \in Below(D, m, at)
      BY <2>4, MiddleOfRange
    <3> HIDE DEF mid
    <3>2. find[at] = IF entries[mid + 1].key = key THEN entries[mid + 1].value
                     ELSE IF entries[mid + 1].key < key THEN find[upper] ELSE find[lower]
      BY <2>1, <2>2, <2>4 DEF LeafBody, mid
    <3>3. CASE entries[mid + 1].key = key
      <4>1. \A i \in DOMAIN entries : entries[i].key = key => i = mid + 1
        BY <3>1, <3>3 DEF KeysGoUp
      <4> QED
        BY <3>1, <3>2, <3>3, <4>1
    <3>4. CASE entries[mid + 1].key < key
      <4>1. \A i \in DOMAIN entries : i - 1 < mid + 1 => entries[i].key < key
        <5>1. ASSUME NEW i \in DOMAIN entries, i - 1 < mid + 1 PROVE entries[i].key < key
          <6>1. i = mid + 1 \/ i < mid + 1
            BY <3>1, <5>1
          <6>2. i < mid + 1 => entries[i].key < entries[mid + 1].key
            BY <3>1 DEF KeysGoUp
          <6> QED
            BY <3>1, <3>4, <6>1, <6>2
        <5> QED
          BY <5>1
      <4>2. Inside(upper)
        BY <1>2, <4>1
      <4>3. upper \in S
        BY <3>1, <1>2
      <4>4. Right(find[upper])
        BY <4>2, <4>3
      <4>5. find[at] = find[upper]
        BY <3>1, <3>2, <3>4
      <4> QED
        BY <4>4, <4>5
    <3>5. CASE entries[mid + 1].key > key
      <4>1. \A i \in DOMAIN entries : i - 1 > mid - 1 => entries[i].key > key
        <5>1. ASSUME NEW i \in DOMAIN entries, i - 1 > mid - 1 PROVE entries[i].key > key
          <6>1. i = mid + 1 \/ i > mid + 1
            BY <3>1, <5>1
          <6>2. i > mid + 1 => entries[i].key > entries[mid + 1].key
            BY <3>1 DEF KeysGoUp
          <6> QED
            BY <3>1, <3>5, <6>1, <6>2
        <5> QED
          BY <5>1
      <4>2. Inside(lower)
        BY <1>2, <4>1
      <4>3. lower \in S
        BY <3>1, <1>2
      <4>4. Right(find[lower])
        BY <4>2, <4>3
      <4>5. find[at] = find[lower]
        BY <3>1, <3>2, <3>5
      <4> QED
        BY <4>4, <4>5
    <3>6. entries[mid + 1].key \in Nat
      BY <3>1
    <3> QED
      BY <3>3, <3>4, <3>5, <3>6
  <2> QED
    BY <2>1, <2>3, <2>4
<1>3. D \subseteq S
  <2>1. Progressive(S, D, m)
    BY <1>2 DEF Progressive
  <2>2. <<0, Len(entries) - 1>> \in D
    BY DEF SearchRanges
  <2>3. m \in [D -> Nat]
    BY <2>2, MiddleOfRange
  <2> HIDE DEF D, m, S
  <2> QED
    BY <2>1, <2>3, MeasureInduction
<1>4. <<0, Len(entries) - 1>> \in D /\ Inside(<<0, Len(entries) - 1>>)
  BY DEF SearchRanges
<1> QED
  BY <1>1, <1>3, <1>4

\* One step of the binary search in an internal node.
ChildBody(f, entries, key, at) ==
  IF at[1] > at[2] THEN NoChild
  ELSE IF entries[MidOf(at) + 1].key < key THEN f[<<MidOf(at) + 1, at[2]>>]
  ELSE IF MidOf(at) = 0 \/ entries[MidOf(at)].key < key THEN entries[MidOf(at) + 1].value
  ELSE f[<<at[1], MidOf(at) - 1>>]

\* The binary search in an internal node ends.
LEMMA ChildForUnfolds ==
  ASSUME NEW entries, Len(entries) \in Nat, NEW key
  PROVE  \E f : /\ \A at \in SearchRanges(entries) : f[at] = ChildBody(f, entries, key, at)
                /\ ChildFor(entries, key) = f[<<0, Len(entries) - 1>>]
<1> DEFINE D == SearchRanges(entries)
           m == RangeSize(entries)
           Here(at) == entries[MidOf(at) + 1]
           IsFirst(at) == MidOf(at) = 0 \/ entries[MidOf(at)].key < key
           End == {at \in D : at[1] > at[2] \/ (~ (Here(at).key < key) /\ IsFirst(at))}
           a == [at \in D |-> IF at[1] > at[2] THEN NoChild ELSE Here(at).value]
           next == [at \in D |-> IF Here(at).key < key THEN <<MidOf(at) + 1, at[2]>>
                                 ELSE <<at[1], MidOf(at) - 1>>]
           find == CHOOSE f : f = [at \in D |-> ChildBody(f, entries, key, at)]
<1>1. TailStep(next, D, m, End)
  <2>1. ASSUME NEW at \in D \ End PROVE next[at] \in Below(D, m, at)
    <3>1. at[1] <= at[2]
      BY DEF SearchRanges
    <3> QED
      BY <3>1, MiddleOfRange
  <2> QED
    BY <2>1 DEF TailStep
<1>2. <<0, Len(entries) - 1>> \in D
  BY DEF SearchRanges
<1>3. m \in [D -> Nat] /\ \A at \in D : m[at] < 2 * Len(entries) + 1
  BY <1>2, MiddleOfRange
<1>4. PICK f : f = [at \in D |-> IF at \in End THEN a[at] ELSE f[next[at]]]
  <2> DEFINE bound == 2 * Len(entries) + 1
  <2>1. bound \in Nat
    OBVIOUS
  <2>2. \A at \in D : m[at] < bound
    BY <1>3
  <2> HIDE DEF D, m, End, a, next, bound
  <2> QED
    <3>1. /\ m \in [D -> Nat] /\ bound \in Nat /\ \A at \in D : m[at] < bound
          /\ TailStep(next, D, m, End)
      BY <1>1, <1>3, <2>1, <2>2
    <3> QED
      BY ONLY <3>1, TailRecursion
<1>5. ASSUME NEW at \in D PROVE f[at] = ChildBody(f, entries, key, at)
  <2>1. f[at] = IF at \in End THEN a[at] ELSE f[next[at]]
    <3> HIDE DEF End, a, next
    <3> QED
      BY <1>4
  <2>2. at[1] \in Int /\ at[2] \in Int
    BY DEF SearchRanges
  <2> QED
    BY <2>1, <2>2 DEF ChildBody
<1>6. f = [at \in D |-> ChildBody(f, entries, key, at)]
  <2>1. f = [at \in D |-> f[at]]
    <3> HIDE DEF D, End, a, next
    <3> QED
      BY <1>4
  <2> QED
    BY <1>5, <2>1
<1>7. find = [at \in D |-> ChildBody(find, entries, key, at)]
  <2> HIDE DEF D
  <2> QED
    BY <1>6
<1>8. ChildFor(entries, key) = find[<<0, Len(entries) - 1>>]
  BY DEF ChildFor, ChildBody
<1> HIDE DEF find
<1> QED
  BY <1>7, <1>8

\* The binary search in an internal node finds the first child whose largest
\* key is not below the key, and none when all are below it.
LEMMA ChildForFinds ==
  ASSUME NEW entries, Len(entries) \in Nat, DOMAIN entries = 1 .. Len(entries),
         \A i \in DOMAIN entries : entries[i].key \in Nat,
         KeysGoUp(entries), NEW key \in Nat
  PROVE  /\ \A i \in DOMAIN entries :
               entries[i].key >= key /\ (i = 1 \/ entries[i - 1].key < key)
               => ChildFor(entries, key) = entries[i].value
         /\ (\A i \in DOMAIN entries : entries[i].key < key) => ChildFor(entries, key) = NoChild
<1> DEFINE D == SearchRanges(entries)
           m == RangeSize(entries)
           First(i) == entries[i].key >= key /\ (i = 1 \/ entries[i - 1].key < key)
           Inside(at) == \A i \in DOMAIN entries :
                           /\ i - 1 < at[1] => entries[i].key < key
                           /\ i - 1 > at[2] => entries[i].key >= key /\ ~ First(i)
           Right(v) == /\ \A i \in DOMAIN entries : First(i) => v = entries[i].value
                       /\ (\A i \in DOMAIN entries : entries[i].key < key) => v = NoChild
<1>1. PICK find : /\ \A at \in D : find[at] = ChildBody(find, entries, key, at)
                  /\ ChildFor(entries, key) = find[<<0, Len(entries) - 1>>]
  BY ChildForUnfolds
<1> DEFINE S == {at \in D : Inside(at) => Right(find[at])}
<1>2. ASSUME NEW at \in D, Below(D, m, at) \subseteq S, Inside(at) PROVE Right(find[at])
  <2>1. at[1] \in 0 .. Len(entries) /\ at[2] \in -1 .. Len(entries) - 1
    BY MiddleOfRange
  <2>2. find[at] = ChildBody(find, entries, key, at)
    BY <1>1
  <2>3. CASE at[1] > at[2]
    <3>1. find[at] = NoChild
      BY <2>2, <2>3 DEF ChildBody
    <3>2. ASSUME NEW i \in DOMAIN entries PROVE ~ First(i)
      <4>1. i \in Nat /\ entries[i].key \in Nat
        OBVIOUS
      <4>2. PICK l \in Int, r \in Int : l = at[1] /\ r = at[2]
        BY <2>1
      <4>3. i - 1 < at[1] \/ i - 1 > at[2]
        BY ONLY <2>3, <4>1, <4>2
      <4>4. CASE i - 1 > at[2]
        BY <1>2, <4>4
      <4>5. CASE i - 1 < at[1]
        <5>1. entries[i].key < key
          BY <1>2, <4>5
        <5> QED
          BY <4>1, <5>1
      <4> QED
        BY <4>3, <4>4, <4>5
    <3> QED
      BY <3>1, <3>2
  <2>4. CASE at[1] <= at[2]
    <3> DEFINE mid == MidOf(at)
               upper == <<mid + 1, at[2]>>
               lower == <<at[1], mid - 1>>
    <3>0. /\ mid \in at[1] .. at[2] /\ mid + 1 \in 1 .. Len(entries)
          /\ upper \in Below(D, m, at) /\ lower \in Below(D, m, at)
      BY <2>4, MiddleOfRange
    <3> HIDE DEF mid
    <3>1. /\ mid \in at[1] .. at[2] /\ mid + 1 \in 1 .. Len(entries) /\ mid \in Nat
          /\ upper \in Below(D, m, at) /\ lower \in Below(D, m, at)
      BY <2>1, <3>0
    <3>2. find[at] = IF entries[mid + 1].key < key THEN find[upper]
                     ELSE IF mid = 0 \/ entries[mid].key < key THEN entries[mid + 1].value
                     ELSE find[lower]
      BY <2>1, <2>2, <2>4 DEF ChildBody, mid
    <3>3. CASE entries[mid + 1].key < key
      <4>1. \A i \in DOMAIN entries : i - 1 < mid + 1 => entries[i].key < key
        <5>1. ASSUME NEW i \in DOMAIN entries, i - 1 < mid + 1 PROVE entries[i].key < key
          <6>1. i = mid + 1 \/ i < mid + 1
            BY <3>1, <5>1
          <6>2. i < mid + 1 => entries[i].key < entries[mid + 1].key
            BY <3>1 DEF KeysGoUp
          <6> QED
            BY <3>1, <3>3, <6>1, <6>2
        <5> QED
          BY <5>1
      <4>2. Inside(upper)
        BY <1>2, <4>1
      <4>3. upper \in S
        BY <3>1, <1>2
      <4>4. Right(find[upper])
        BY <4>2, <4>3
      <4>5. find[at] = find[upper]
        BY <3>1, <3>2, <3>3
      <4> QED
        BY <4>4, <4>5
    <3>4. CASE entries[mid + 1].key >= key /\ (mid = 0 \/ entries[mid].key < key)
      <4>1. \A i \in DOMAIN entries : First(i) => i = mid + 1
        <5>1. ASSUME NEW i \in DOMAIN entries, First(i) PROVE i = mid + 1
          <6>1. i > mid + 1 => entries[mid + 1].key < key
            <7>1. SUFFICES ASSUME i > mid + 1 PROVE entries[mid + 1].key < key
              OBVIOUS
            <7>2. i - 1 \in DOMAIN entries /\ i # 1 /\ (i - 1 = mid + 1 \/ mid + 1 < i - 1)
              BY <3>1, <7>1
            <7>3. entries[i - 1].key < key
              BY <5>1, <7>2
            <7>4. mid + 1 < i - 1 => entries[mid + 1].key < entries[i - 1].key
              BY <3>1, <7>2 DEF KeysGoUp
            <7> QED
              BY <3>1, <7>2, <7>3, <7>4
          <6>2. i < mid + 1 => entries[i].key < key
            <7>1. SUFFICES ASSUME i < mid + 1 PROVE entries[i].key < key
              OBVIOUS
            <7>2. mid \in DOMAIN entries /\ (i = mid \/ i < mid) /\ mid # 0
              BY <3>1, <7>1
            <7>3. i < mid => entries[i].key < entries[mid].key
              BY <7>2 DEF KeysGoUp
            <7> QED
              BY <3>4, <7>2, <7>3
          <6>3. i \in Nat /\ mid + 1 \in Nat /\ entries[i].key \in Nat /\ entries[mid + 1].key \in Nat
            BY <3>1
          <6> QED
            BY <3>4, <5>1, <6>1, <6>2, <6>3
        <5> QED
          BY <5>1
      <4>2. find[at] = entries[mid + 1].value
        BY <3>1, <3>2, <3>4
      <4> QED
        BY <3>1, <3>4, <4>1, <4>2
    <3>5. CASE entries[mid + 1].key >= key /\ ~ (mid = 0 \/ entries[mid].key < key)
      <4>0. mid \in DOMAIN entries /\ entries[mid].key >= key
        <5>1. mid # 0 /\ ~ (entries[mid].key < key)
          BY <3>5
        <5>2. mid \in DOMAIN entries
          BY <3>1, <5>1
        <5>3. entries[mid].key \in Nat
          BY <5>2
        <5> QED
          BY <5>1, <5>2, <5>3
      <4>1. \A i \in DOMAIN entries : i - 1 > mid - 1 => entries[i].key >= key /\ ~ First(i)
        <5>1. ASSUME NEW i \in DOMAIN entries, i - 1 > mid - 1
              PROVE  entries[i].key >= key /\ ~ First(i)
          <6>1. i > mid /\ i - 1 \in DOMAIN entries /\ i # 1 /\ (i - 1 = mid \/ i - 1 > mid)
            BY <3>1, <4>0, <5>1
          <6>2. entries[i].key > entries[mid].key
            BY <4>0, <6>1 DEF KeysGoUp
          <6>3. i - 1 > mid => entries[i - 1].key > entries[mid].key
            BY <4>0, <6>1 DEF KeysGoUp
          <6>4. entries[i - 1].key >= key
            BY <4>0, <6>1, <6>3
          <6> QED
            BY <4>0, <6>1, <6>2, <6>4
        <5> QED
          BY <5>1
      <4>2. Inside(lower)
        BY <1>2, <4>1
      <4>3. lower \in S
        BY <3>1, <1>2
      <4>4. Right(find[lower])
        BY <4>2, <4>3
      <4>5. find[at] = find[lower]
        BY <3>1, <3>2, <3>5
      <4> QED
        BY <4>4, <4>5
    <3>6. entries[mid + 1].key \in Nat
      BY <3>1
    <3> QED
      BY <3>3, <3>4, <3>5, <3>6
  <2> QED
    BY <2>1, <2>3, <2>4
<1>3. D \subseteq S
  <2>1. Progressive(S, D, m)
    BY <1>2 DEF Progressive
  <2>2. <<0, Len(entries) - 1>> \in D
    BY DEF SearchRanges
  <2>3. m \in [D -> Nat]
    BY <2>2, MiddleOfRange
  <2> HIDE DEF D, m, S
  <2> QED
    BY <2>1, <2>3, MeasureInduction
<1>4. <<0, Len(entries) - 1>> \in D /\ Inside(<<0, Len(entries) - 1>>)
  BY DEF SearchRanges
<1> QED
  BY <1>1, <1>3, <1>4

-----------------------------------------------------------------------------
(* Writing a file: the rounds of nodes                                     *)

\* Rounding a division up: how many nodes a number of entries takes.
LEMMA CeilDivFacts ==
  ASSUME NEW a \in Nat \ {0}, NEW b \in Nat \ {0}
  PROVE  /\ CeilDiv(a, b) \in Nat \ {0}
         /\ (CeilDiv(a, b) - 1) * b < a
         /\ a <= CeilDiv(a, b) * b
         /\ CeilDiv(a, b) <= a
         /\ a >= 2 /\ b >= 2 => CeilDiv(a, b) < a
         /\ a = 1 => CeilDiv(a, b) = 1
<1> DEFINE c == CeilDiv(a, b)
<1>1. c \in Int /\ b * c <= a + b - 1 /\ a + b - 1 < b * (c + 1)
  BY DEF CeilDiv
<1> HIDE DEF c
<1>2. (c - 1) * b < a /\ a <= c * b
  BY <1>1
<1>3. c >= 1
  <2>1. c <= 0 => c * b <= 0
    BY <1>1
  <2> QED
    BY <1>1, <1>2, <2>1
<1>4. c <= a
  <2>1. SUFFICES ASSUME c - 1 >= a PROVE FALSE
    BY <1>1
  <2>2. (c - 1) * b >= a * b /\ a * b >= a
    BY <1>1, <2>1
  <2> QED
    BY <1>1, <1>2, <2>2
<1>5. a >= 2 /\ b >= 2 => c < a
  <2>1. SUFFICES ASSUME a >= 2, b >= 2, c = a PROVE FALSE
    BY <1>1, <1>4
  <2>2. (a - 1) * b >= (a - 1) * 2
    BY <2>1
  <2> QED
    BY <2>1, <2>2, <1>2
<1>6. a = 1 => c = 1
  BY <1>1, <1>3, <1>4
<1> QED
  BY <1>1, <1>2, <1>3, <1>4, <1>5, <1>6 DEF c

\* A chunk of a sequence is a stretch of it that is not empty.
LEMMA ChunkFacts ==
  ASSUME NEW T, NEW q \in Seq(T), q # <<>>, NEW n \in Nat \ {0},
         NEW i \in 1 .. CeilDiv(Len(q), n)
  PROVE  LET first == (i - 1) * n
             last  == Smaller(i * n, Len(q))
         IN  /\ first \in Nat /\ last \in 1 .. Len(q) /\ first < last /\ last <= first + n
             /\ Chunk(q, i, n) \in Seq(T)
             /\ Len(Chunk(q, i, n)) = last - first
             /\ \A x \in 1 .. last - first : Chunk(q, i, n)[x] = q[first + x] /\ first + x \in 1 .. Len(q)
             /\ LastOf(Chunk(q, i, n)) = q[last]
             /\ i < CeilDiv(Len(q), n) => last = first + n
             /\ i = CeilDiv(Len(q), n) => last = Len(q)
<1> DEFINE first == (i - 1) * n
           last  == Smaller(i * n, Len(q))
           c == CeilDiv(Len(q), n)
<1>0. Len(q) \in Nat \ {0}
  OBVIOUS
<1>1. c \in Nat \ {0} /\ (c - 1) * n < Len(q) /\ Len(q) <= c * n
  BY <1>0, CeilDivFacts
<1>2. i \in Nat \ {0} /\ i <= c
  BY <1>1
<1>3. first \in Nat /\ i * n = first + n
  BY <1>2
<1> HIDE DEF c
<1>4. first < Len(q)
  <2>1. (i - 1) * n <= (c - 1) * n
    BY <1>1, <1>2
  <2> QED
    BY <1>0, <1>1, <1>2, <2>1
<1>5. i < c => i * n < Len(q)
  <2>1. i < c => i * n <= (c - 1) * n
    BY <1>1, <1>2
  <2> QED
    BY <1>0, <1>1, <1>2, <2>1
<1>6. i = c => i * n >= Len(q)
  BY <1>1
<1> HIDE DEF first
<1>7. last \in 1 .. Len(q) /\ first < last /\ last <= first + n
  BY <1>0, <1>3, <1>4 DEF Smaller
<1>8. i < c => last = first + n
  BY <1>0, <1>3, <1>5 DEF Smaller
<1>9. i = c => last = Len(q)
  BY <1>0, <1>3, <1>6 DEF Smaller
<1> HIDE DEF last
<1>10. Chunk(q, i, n) = SubSeq(q, first + 1, last)
  BY DEF Chunk, first, last
<1>11. /\ Chunk(q, i, n) \in Seq(T)
       /\ Len(Chunk(q, i, n)) = last - first
       /\ \A x \in 1 .. last - first : Chunk(q, i, n)[x] = q[first + x] /\ first + x \in 1 .. Len(q)
  BY <1>0, <1>3, <1>7, <1>10
<1>12. LastOf(Chunk(q, i, n)) = q[last]
  <2>1. last - first \in 1 .. last - first /\ first + (last - first) = last
    BY <1>3, <1>7
  <2> QED
    BY <1>11, <2>1 DEF LastOf
<1> QED
  BY <1>3, <1>7, <1>8, <1>9, <1>11, <1>12 DEF first, last, c

\* The nodes of a file; the entries of an internal node are keys and offsets.
Pair == [key : Int, value : Int]
Node == [file_offset : Int, is_leaf : BOOLEAN, entries : Seq(Pair)]

\* A round of nodes: not empty, nor is any of its nodes, with offsets that go down.
IsRound(q) ==
  /\ q \in Seq(Node) /\ q # <<>>
  /\ \A i \in 1 .. Len(q) : q[i].entries # <<>> /\ q[i].file_offset = q[1].file_offset - i + 1

\* An internal node has two children at least, so that a round of internal
\* nodes is shorter than the one below it.
LEMMA FanoutFact == MAX_KEYS \in Nat \ {0} /\ Fanout \in Nat \ {0} /\ Fanout >= 2
  BY BTreeAssumption DEF Fanout

\* A round of internal nodes (btree.cpp:92-124): its offsets go on where those
\* of its children end, and each node points to a stretch of them.
LEMMA ParentRound ==
  ASSUME NEW q, IsRound(q)
  PROVE  LET p == ParentNodes(q)
         IN  /\ IsRound(p)
             /\ Len(p) = CeilDiv(Len(q), Fanout)
             /\ p[1].file_offset = q[1].file_offset - Len(q)
             /\ \A c \in 1 .. Len(p) :
                  LET first == (c - 1) * Fanout
                      last  == Smaller(c * Fanout, Len(q))
                  IN  /\ ~ p[c].is_leaf
                      /\ Len(p[c].entries) = last - first
                      /\ \A x \in 1 .. last - first :
                           p[c].entries[x] = [key |-> LastOf(q[first + x].entries).key,
                                              value |-> q[first + x].file_offset]
<1> DEFINE n == CeilDiv(Len(q), Fanout)
           p == ParentNodes(q)
           first(c) == (c - 1) * Fanout
           last(c) == Smaller(c * Fanout, Len(q))
           Pointer(node) == [key |-> LastOf(node.entries).key, value |-> node.file_offset]
           next_offset == LastOf(q).file_offset - 1
           Pointers(c) == [x \in 1 .. Len(Chunk(q, c, Fanout)) |-> Pointer(Chunk(q, c, Fanout)[x])]
<1>1. q \in Seq(Node) /\ q # <<>> /\ Len(q) \in Nat \ {0}
  BY DEF IsRound
<1>2. n \in Nat \ {0}
  BY <1>1, FanoutFact, CeilDivFacts
<1>3. next_offset = q[1].file_offset - Len(q) /\ next_offset \in Int /\ q[1].file_offset \in Int
  <2>1. Len(q) \in 1 .. Len(q) /\ 1 \in 1 .. Len(q)
    BY <1>1
  <2>2. LastOf(q).file_offset = q[1].file_offset - Len(q) + 1
    BY <2>1 DEF IsRound, LastOf
  <2>3. q[1] \in Node
    BY <1>1, <2>1
  <2>4. q[1].file_offset \in Int
    BY <2>3 DEF Node
  <2> QED
    BY <1>1, <2>2, <2>4
<1>4. p = [c \in 1 .. n |-> [file_offset |-> next_offset - c + 1, is_leaf |-> FALSE, entries |-> Pointers(c)]]
  BY DEF ParentNodes
<1>5. ASSUME NEW c \in 1 .. n
      PROVE  /\ first(c) \in Nat /\ last(c) \in 1 .. Len(q) /\ first(c) < last(c)
             /\ Len(Chunk(q, c, Fanout)) = last(c) - first(c)
             /\ \A x \in 1 .. last(c) - first(c) :
                  Chunk(q, c, Fanout)[x] = q[first(c) + x] /\ first(c) + x \in 1 .. Len(q)
  BY <1>1, FanoutFact, ChunkFacts
<1>6. ASSUME NEW i \in 1 .. Len(q) PROVE Pointer(q[i]) \in Pair
  <2>0. q[i] \in Node
    BY <1>1
  <2>1. q[i].entries \in Seq(Pair) /\ q[i].entries # <<>> /\ q[i].file_offset \in Int
    BY <2>0 DEF IsRound, Node
  <2>2. Len(q[i].entries) \in DOMAIN q[i].entries
    BY <2>1
  <2>3. LastOf(q[i].entries) \in Pair
    BY <2>1, <2>2 DEF LastOf
  <2> QED
    BY <2>1, <2>3 DEF Pair
<1>7. ASSUME NEW c \in 1 .. n
      PROVE  /\ Pointers(c) \in Seq(Pair) /\ Pointers(c) # <<>>
             /\ Len(Pointers(c)) = last(c) - first(c)
             /\ \A x \in 1 .. last(c) - first(c) : Pointers(c)[x] = Pointer(q[first(c) + x])
  <2>1. last(c) - first(c) \in Nat \ {0}
    <3> HIDE DEF first, last
    <3> QED
      BY <1>5
  <2>2. DOMAIN Pointers(c) = 1 .. last(c) - first(c)
    BY <1>5
  <2>3. ASSUME NEW x \in 1 .. last(c) - first(c)
        PROVE  Pointers(c)[x] = Pointer(q[first(c) + x]) /\ Pointers(c)[x] \in Pair
    <3>1. Pointers(c)[x] = Pointer(Chunk(q, c, Fanout)[x])
      BY <1>5
    <3>2. Chunk(q, c, Fanout)[x] = q[first(c) + x] /\ first(c) + x \in 1 .. Len(q)
      BY <1>5
    <3> HIDE DEF Pointers, first, last
    <3>3. Pointer(q[first(c) + x]) \in Pair
      BY <3>2, <1>6
    <3> QED
      BY <3>1, <3>2, <3>3
  <2>4. Pointers(c) = [x \in 1 .. last(c) - first(c) |-> Pointers(c)[x]]
    BY <1>5
  <2> HIDE DEF Pointers, first, last, Pointer
  <2>5. Pointers(c) \in Seq(Pair) /\ Len(Pointers(c)) = last(c) - first(c)
    BY <2>1, <2>3, <2>4
  <2> QED
    BY <2>1, <2>3, <2>5
<1>8. ASSUME NEW c \in 1 .. n
      PROVE  /\ p[c].file_offset = next_offset - c + 1 /\ p[c].is_leaf = FALSE
             /\ p[c].entries = Pointers(c) /\ p[c] \in Node
  <2>1. p[c] = [file_offset |-> next_offset - c + 1, is_leaf |-> FALSE, entries |-> Pointers(c)]
    <3> HIDE DEF Pointers, next_offset, n
    <3> QED
      BY <1>4
  <2>2. next_offset - c + 1 \in Int
    BY <1>2, <1>3
  <2> HIDE DEF p, Pointers, next_offset
  <2> QED
    BY <1>7, <2>1, <2>2 DEF Node
<1>9. p \in Seq(Node) /\ Len(p) = n /\ p # <<>> /\ DOMAIN p = 1 .. n
  <2>1. DOMAIN p = 1 .. n /\ p = [c \in 1 .. n |-> p[c]]
    <3> HIDE DEF Pointers, next_offset, n
    <3> QED
      BY <1>4
  <2>a. \A c \in 1 .. n : p[c] \in Node
    BY <1>8
  <2> HIDE DEF p, n
  <2>2. p \in Seq(Node) /\ Len(p) = n
    BY <1>2, <2>1, <2>a
  <2> QED
    BY <1>2, <2>1, <2>2
<1>10. p[1].file_offset = next_offset /\ next_offset \in Int
  <2>1. 1 \in 1 .. n
    BY <1>2
  <2>2. p[1].file_offset = next_offset - 1 + 1
    BY <1>8, <2>1
  <2> HIDE DEF p, n, next_offset
  <2> QED
    BY <1>3, <2>2
<1>11. IsRound(p)
  <2>1. ASSUME NEW c \in 1 .. Len(p)
        PROVE  p[c].entries # <<>> /\ p[c].file_offset = p[1].file_offset - c + 1
    <3> HIDE DEF p, n, next_offset, Pointers
    <3> QED
      BY <1>7, <1>8, <1>9, <1>10
  <2> QED
    BY <1>9, <2>1 DEF IsRound
<1>12. ASSUME NEW c \in 1 .. Len(p)
       PROVE  /\ ~ p[c].is_leaf
              /\ Len(p[c].entries) = last(c) - first(c)
              /\ \A x \in 1 .. last(c) - first(c) : p[c].entries[x] = Pointer(q[first(c) + x])
  <2>1. c \in 1 .. n
    BY <1>9
  <2> HIDE DEF p, n, next_offset, Pointers, first, last, Pointer
  <2> QED
    BY <1>7, <1>8, <2>1
<1> QED
  <2> HIDE DEF p, n, next_offset, Pointers, first, last
  <2>1. p[1].file_offset = q[1].file_offset - Len(q)
    BY <1>3, <1>10
  <2> QED
    BY <1>9, <1>11, <1>12, <2>1 DEF p, n, first, last

\* The round of leaves: chunks of the run, at offsets that go down.
LEMMA LeafRound ==
  ASSUME NEW run \in Seq(Entry), run # <<>>,
         GetTotalNumberOfNodes(CeilDiv(Len(run), MAX_KEYS)) \in Int
  PROVE  LET q == LeafNodes(run)
             n == CeilDiv(Len(run), MAX_KEYS)
         IN  /\ IsRound(q)
             /\ Len(q) = n
             /\ q[1].file_offset = GetTotalNumberOfNodes(n)
             /\ \A i \in 1 .. n : q[i].is_leaf /\ q[i].entries = Chunk(run, i, MAX_KEYS)
<1> DEFINE n == CeilDiv(Len(run), MAX_KEYS)
           total == GetTotalNumberOfNodes(n)
           q == LeafNodes(run)
<1>1. n \in Nat \ {0} /\ total \in Int
  BY FanoutFact, CeilDivFacts
<1>2. q = [i \in 1 .. n |-> [file_offset |-> total - i + 1, is_leaf |-> TRUE,
                             entries |-> Chunk(run, i, MAX_KEYS)]]
  BY DEF LeafNodes
<1> HIDE DEF n, total, q
<1>3. ASSUME NEW i \in 1 .. n
      PROVE  Chunk(run, i, MAX_KEYS) \in Seq(Entry) /\ Chunk(run, i, MAX_KEYS) # <<>>
  <2>1. LET first == (i - 1) * MAX_KEYS
            last  == Smaller(i * MAX_KEYS, Len(run))
        IN  first \in Nat /\ last \in 1 .. Len(run) /\ first < last
            /\ Chunk(run, i, MAX_KEYS) \in Seq(Entry) /\ Len(Chunk(run, i, MAX_KEYS)) = last - first
    BY FanoutFact, ChunkFacts DEF n
  <2> QED
    BY <2>1
<1>4. ASSUME NEW i \in 1 .. n
      PROVE  /\ q[i].file_offset = total - i + 1 /\ q[i].is_leaf = TRUE
             /\ q[i].entries = Chunk(run, i, MAX_KEYS) /\ q[i].entries # <<>> /\ q[i] \in Node
  <2>1. q[i] = [file_offset |-> total - i + 1, is_leaf |-> TRUE, entries |-> Chunk(run, i, MAX_KEYS)]
    BY <1>2
  <2>2. total - i + 1 \in Int
    BY <1>1
  <2>3. Entry \subseteq Pair
    BY BTreeAssumption DEF Entry, Pair
  <2>4. Chunk(run, i, MAX_KEYS) \in Seq(Pair)
    BY <1>3, <2>3
  <2> QED
    BY <1>3, <2>1, <2>2, <2>4 DEF Node
<1>5. q \in Seq(Node) /\ Len(q) = n /\ q # <<>>
  <2>1. DOMAIN q = 1 .. n /\ q = [i \in 1 .. n |-> q[i]]
    BY <1>2
  <2>2. \A i \in 1 .. n : q[i] \in Node
    BY <1>4
  <2> QED
    BY <1>1, <2>1, <2>2
<1>6. q[1].file_offset = total
  <2>1. 1 \in 1 .. n
    BY <1>1
  <2>2. q[1].file_offset = total - 1 + 1
    BY <1>4, <2>1
  <2> QED
    BY <1>1, <2>2
<1>7. IsRound(q)
  BY <1>4, <1>5, <1>6 DEF IsRound
<1> QED
  BY <1>4, <1>5, <1>6, <1>7 DEF n, total, q

\* get_total_number_of_nodes unfolds to the sum of the sizes of the rounds.
LEMMA NodesAbove ==
  ASSUME NEW n \in Nat \ {0}
  PROVE  \E above \in [1 .. n -> Nat] :
           /\ above[1] = 0
           /\ \A m \in 2 .. n : above[m] = CeilDiv(m, Fanout) + above[CeilDiv(m, Fanout)]
           /\ GetTotalNumberOfNodes(n) = IF n = 1 THEN 2 ELSE n + above[n]
<1> DEFINE D == 1 .. n
           id == [m \in D |-> m]
           Body(f, m) == IF m = 1 THEN 0 ELSE CeilDiv(m, Fanout) + f[CeilDiv(m, Fanout)]
           Step == [m \in D |-> [f \in [Below(D, id, m) -> Nat] |-> Body(f, m)]]
           above == CHOOSE f : f = [m \in D |-> Body(f, m)]
<1>1. ASSUME NEW m \in D, m # 1
      PROVE  CeilDiv(m, Fanout) \in Nat \ {0} /\ CeilDiv(m, Fanout) \in Below(D, id, m)
  <2>1. m \in Nat \ {0} /\ m >= 2
    BY <1>1
  <2>2. CeilDiv(m, Fanout) \in Nat \ {0} /\ CeilDiv(m, Fanout) < m
    BY <2>1, FanoutFact, CeilDivFacts
  <2> QED
    BY <2>2 DEF Below
<1>2. IsStep(Step, D, Nat, id)
  <2>1. ASSUME NEW m \in D, NEW f \in [Below(D, id, m) -> Nat] PROVE Step[m][f] \in Nat
    <3>1. Step[m][f] = Body(f, m)
      OBVIOUS
    <3>2. CASE m = 1
      BY <3>1, <3>2
    <3>3. CASE m # 1
      BY <3>1, <3>3, <1>1
    <3> QED
      BY <3>2, <3>3
  <2> QED
    BY <2>1 DEF IsStep
<1>3. PICK f \in [D -> Nat] : Solves(f, Step, D, id)
  <2> DEFINE bound == n + 1
  <2>1. id \in [D -> Nat] /\ bound \in Nat /\ \A m \in D : id[m] < bound
    OBVIOUS
  <2> HIDE DEF D, id, Step, bound
  <2> QED
    BY <1>2, <2>1, BoundedRecursion
<1>4. ASSUME NEW m \in D PROVE f[m] = Body(f, m)
  <2> DEFINE r == [y \in Below(D, id, m) |-> f[y]]
  <2>1. r \in [Below(D, id, m) -> Nat]
    BY DEF Below
  <2>2. f[m] = Body(r, m)
    BY <1>3, <2>1 DEF Solves
  <2>3. m # 1 => r[CeilDiv(m, Fanout)] = f[CeilDiv(m, Fanout)]
    BY <1>1
  <2> HIDE DEF r
  <2> QED
    BY <2>2, <2>3
<1>5. f = [m \in D |-> Body(f, m)]
  BY <1>4
<1>6. above = [m \in D |-> Body(above, m)]
  <2> HIDE DEF D, Body
  <2> QED
    BY <1>5
<1>7. GetTotalNumberOfNodes(n) = IF n = 1 THEN 2 ELSE n + above[n]
  BY DEF GetTotalNumberOfNodes
<1> HIDE DEF above
<1>8. \A m \in D : above[m] = Body(above, m)
  BY <1>6
<1>9. \A m \in D : above[m] \in Nat
  <2> DEFINE S == {m \in D : above[m] \in Nat}
  <2>1. ASSUME NEW m \in D, Below(D, id, m) \subseteq S PROVE above[m] \in Nat
    <3>1. CASE m = 1
      BY <1>8, <3>1
    <3>2. CASE m # 1
      <4>1. above[CeilDiv(m, Fanout)] \in Nat /\ CeilDiv(m, Fanout) \in Nat
        BY <1>1, <2>1, <3>2
      <4> QED
        BY <1>8, <3>2, <4>1
    <3> QED
      BY <3>1, <3>2
  <2>2. Progressive(S, D, id) /\ id \in [D -> Nat]
    BY <2>1 DEF Progressive
  <2>3. D \subseteq S
    <3> HIDE DEF D, S, id
    <3> QED
      BY <2>2, MeasureInduction
  <2> QED
    BY <2>3
<1>10. above \in [D -> Nat]
  <2> HIDE DEF D, Body
  <2> QED
    BY <1>6, <1>9
<1>11. above[1] = 0
  BY <1>8
<1>12. \A m \in 2 .. n : above[m] = CeilDiv(m, Fanout) + above[CeilDiv(m, Fanout)]
  BY <1>8
<1> QED
  BY <1>7, <1>10, <1>11, <1>12

\* The rounds from the n-th on are made from one another.
RoundsFrom(run, round, n) ==
  /\ round[0] = LeafNodes(run)
  /\ \A h \in 1 .. n : round[h] = ParentNodes(round[h - 1])

\* The rounds of a run: what Rounds(run) is, height being the last of them.
RoundsOf(run, round, height) ==
  /\ height \in Nat \ {0}
  /\ RoundsFrom(run, round, height)
  /\ \A h \in 0 .. height : IsRound(round[h])
  /\ Len(round[height]) = 1
  /\ \A h \in 1 .. height - 1 : Len(round[h]) > 1
  /\ Rounds(run) = [h \in 0 .. height |-> round[h]]

\* The rounds are defined, however many there are.
LEMMA RoundsExist ==
  ASSUME NEW run, NEW n \in Nat
  PROVE  \E f : f = [h \in 0 .. n |-> IF h = 0 THEN LeafNodes(run) ELSE ParentNodes(f[h - 1])]
<1> DEFINE Body(f, h) == IF h = 0 THEN LeafNodes(run) ELSE ParentNodes(f[h - 1])
           S == {k \in Nat : \E f : f = [h \in 0 .. k |-> Body(f, h)]}
<1>1. 0 \in S
  <2> DEFINE f == [h \in 0 .. 0 |-> LeafNodes(run)]
  <2>1. f = [h \in 0 .. 0 |-> Body(f, h)]
    OBVIOUS
  <2> HIDE DEF f
  <2>2. \E g : g = [h \in 0 .. 0 |-> Body(g, h)]
    BY <2>1
  <2> QED
    BY <2>2
<1>2. ASSUME NEW k \in Nat, k \in S PROVE k + 1 \in S
  <2>1. PICK f : f = [h \in 0 .. k |-> Body(f, h)]
    BY <1>2
  <2> DEFINE g == [h \in 0 .. k + 1 |-> IF h <= k THEN f[h] ELSE ParentNodes(f[k])]
  <2>2. ASSUME NEW h \in 0 .. k + 1 PROVE g[h] = Body(g, h)
    <3>1. CASE h = 0
      <4>1. f[0] = LeafNodes(run)
        BY <2>1
      <4> QED
        BY <3>1, <4>1
    <3>2. CASE h \in 1 .. k
      <4>1. f[h] = ParentNodes(f[h - 1])
        BY <2>1, <3>2
      <4>2. g[h] = f[h] /\ g[h - 1] = f[h - 1]
        BY <3>2
      <4> QED
        BY <3>2, <4>1, <4>2
    <3>3. CASE h = k + 1
      <4>1. g[h] = ParentNodes(f[k]) /\ g[k] = f[k] /\ h # 0 /\ h - 1 = k
        BY <3>3
      <4> QED
        BY <4>1
    <3> QED
      BY <3>1, <3>2, <3>3
  <2>3. g = [h \in 0 .. k + 1 |-> Body(g, h)]
    BY <2>2
  <2> HIDE DEF g
  <2>4. \E e : e = [h \in 0 .. k + 1 |-> Body(e, h)]
    BY <2>3
  <2> QED
    BY <2>4
<1>3. n \in S
  <2> HIDE DEF S
  <2> QED
    BY <1>1, <1>2, InductionOnNat
<1> QED
  BY <1>3

\* construct_internal_nodes_and_write_to_file ends: after fewer rounds than
\* the run has entries there is a round with one node, the root.
LEMMA RoundsUnfold ==
  ASSUME NEW run \in Seq(Entry), run # <<>>
  PROVE  \E round, height : RoundsOf(run, round, height) /\ height <= Len(run)
<1> DEFINE top == Len(run)
           Body(f, h) == IF h = 0 THEN LeafNodes(run) ELSE ParentNodes(f[h - 1])
           round == CHOOSE f : f = [h \in 0 .. top |-> Body(f, h)]
<1>0. top \in Nat \ {0}
  OBVIOUS
<1> DEFINE Last(h) == /\ Len(round[h]) = 1
                      /\ \A g \in 1 .. h - 1 : Len(round[g]) > 1
           height == CHOOSE h \in 1 .. top : Last(h)
<1>1. Rounds(run) = [h \in 0 .. height |-> round[h]]
  BY DEF Rounds
<1>2. round = [h \in 0 .. top |-> Body(round, h)]
  <2>1. \E f : f = [h \in 0 .. top |-> Body(f, h)]
    BY <1>0, RoundsExist
  <2> QED
    BY <2>1
<1> HIDE DEF round
<1>3. round[0] = LeafNodes(run)
  BY <1>0, <1>2
<1>4. ASSUME NEW h \in 1 .. top PROVE round[h] = ParentNodes(round[h - 1])
  <2>1. h \in 0 .. top /\ h # 0
    BY <1>0
  <2> QED
    BY <1>2, <2>1
<1> HIDE DEF top
<1> DEFINE n == CeilDiv(Len(run), MAX_KEYS)
           S == {h \in Nat : h <= top => /\ IsRound(round[h])
                                         /\ Len(round[h]) = 1 \/ Len(round[h]) <= top - h}
<1>5. n \in Nat \ {0} /\ n <= top
  BY <1>0, FanoutFact, CeilDivFacts DEF top
<1>6. 0 \in S
  <2>1. GetTotalNumberOfNodes(n) \in Int
    <3>1. PICK above \in [1 .. n -> Nat] : GetTotalNumberOfNodes(n) = IF n = 1 THEN 2 ELSE n + above[n]
      BY <1>5, NodesAbove
    <3> HIDE DEF n
    <3>2. above[n] \in Nat
      BY <1>5
    <3> QED
      BY <1>5, <3>1, <3>2
  <2>2. IsRound(round[0]) /\ Len(round[0]) = n
    BY <1>3, <2>1, LeafRound
  <2> QED
    BY <1>0, <1>5, <2>2
<1>7. ASSUME NEW h \in Nat, h \in S PROVE h + 1 \in S
  <2>1. SUFFICES ASSUME h + 1 <= top
                 PROVE  /\ IsRound(round[h + 1])
                        /\ Len(round[h + 1]) = 1 \/ Len(round[h + 1]) <= top - (h + 1)
    BY <1>0
  <2>2. IsRound(round[h]) /\ (Len(round[h]) = 1 \/ Len(round[h]) <= top - h)
    BY <1>0, <1>7, <2>1
  <2>3. round[h + 1] = ParentNodes(round[h])
    <3>1. h + 1 \in 1 .. top /\ (h + 1) - 1 = h
      BY <1>0, <2>1
    <3> QED
      BY <1>4, <3>1
  <2>4. IsRound(round[h + 1]) /\ Len(round[h + 1]) = CeilDiv(Len(round[h]), Fanout)
    BY <2>2, <2>3, ParentRound
  <2>5. Len(round[h]) \in Nat \ {0}
    BY <2>2 DEF IsRound
  <2>6. CASE Len(round[h]) = 1
    BY <2>4, <2>5, <2>6, FanoutFact, CeilDivFacts
  <2>7. CASE Len(round[h]) # 1
    <3>0. \A l \in Nat \ {0} : l # 1 => l >= 2
      OBVIOUS
    <3>1. Len(round[h]) >= 2 /\ Len(round[h]) <= top - h
      BY <2>2, <2>5, <2>7, <3>0
    <3>2. Len(round[h + 1]) \in Nat /\ Len(round[h + 1]) < Len(round[h])
      BY <2>4, <2>5, <3>1, FanoutFact, CeilDivFacts
    <3> QED
      BY <1>0, <2>4, <2>5, <3>1, <3>2
  <2> QED
    BY <2>4, <2>6, <2>7
<1>8. Nat \subseteq S
  <2> HIDE DEF S
  <2> QED
    BY <1>6, <1>7, InductionOnNat
<1>9. ASSUME NEW h \in 0 .. top
      PROVE  IsRound(round[h]) /\ (Len(round[h]) = 1 \/ Len(round[h]) <= top - h)
  <2>1. h \in S
    BY <1>0, <1>8
  <2> QED
    BY <1>0, <2>1
<1>10. \E h \in 1 .. top : Last(h)
  <2> DEFINE T == {h \in 1 .. top : Len(round[h]) = 1}
  <2>1. top \in T
    <3>1. top \in 0 .. top /\ top \in 1 .. top
      BY <1>0
    <3>2. IsRound(round[top]) /\ (Len(round[top]) = 1 \/ Len(round[top]) <= top - top)
      BY <1>9, <3>1
    <3>3. Len(round[top]) \in Nat \ {0}
      BY <3>2 DEF IsRound
    <3> QED
      BY <1>0, <3>1, <3>2, <3>3
  <2>2. T \subseteq Nat /\ T # {}
    BY <1>0, <2>1
  <2>3. PICK h \in T : \A g \in T : h <= g
    <3> HIDE DEF T
    <3> QED
      BY <2>2, SmallestElement
  <2>4. ASSUME NEW g \in 1 .. h - 1 PROVE Len(round[g]) > 1
    <3>1. h \in 1 .. top /\ g \in 1 .. top /\ g < h /\ g \in 0 .. top
      BY <1>0
    <3>2. Len(round[g]) # 1
      BY <2>3, <3>1
    <3>3. IsRound(round[g])
      BY <1>9, <3>1
    <3>4. Len(round[g]) \in Nat \ {0}
      BY <3>3 DEF IsRound
    <3>5. \A l \in Nat \ {0} : l # 1 => l > 1
      OBVIOUS
    <3> QED
      BY <3>2, <3>4, <3>5
  <2> QED
    BY <2>3, <2>4
<1>11. height \in 1 .. top /\ Last(height)
  <2> HIDE DEF Last
  <2> QED
    BY <1>10
<1> HIDE DEF height
<1>12. RoundsOf(run, round, height)
  <2>1. height \in Nat \ {0} /\ 1 .. height \subseteq 1 .. top /\ 0 .. height \subseteq 0 .. top
    BY <1>0, <1>11
  <2>2. \A h \in 0 .. height : IsRound(round[h])
    BY <1>9, <2>1
  <2>3. \A h \in 1 .. height : round[h] = ParentNodes(round[h - 1])
    BY <1>4, <2>1
  <2> QED
    BY <1>1, <1>3, <1>11, <2>1, <2>2, <2>3 DEF RoundsOf, RoundsFrom
<1> QED
  BY <1>0, <1>11, <1>12 DEF top

\* start is the offset of the first node of a round: the rounds follow each other downwards.
StartOf(round, h) == round[h][1].file_offset

\* Every round is right below the one before it, and the last one is the root's.
Stacked(round, height) ==
  /\ \A h \in 0 .. height : StartOf(round, h) \in Nat \ {0} /\ Len(round[h]) \in Nat \ {0}
                            /\ StartOf(round, h) - Len(round[h]) \in Nat
  /\ \A h \in 1 .. height : StartOf(round, h) = StartOf(round, h - 1) - Len(round[h - 1])
  /\ \A g, h \in 0 .. height : h < g => StartOf(round, g) <= StartOf(round, h) - Len(round[h])
  /\ StartOf(round, height) = 1

\* The rounds lie one below the other and the root is at offset 1: the number
\* of nodes computed before writing is the number of nodes written.
LEMMA RoundsStack ==
  ASSUME NEW run \in Seq(Entry), run # <<>>, NEW round, NEW height, RoundsOf(run, round, height)
  PROVE  /\ Stacked(round, height)
         /\ Len(round[0]) = CeilDiv(Len(run), MAX_KEYS)
         /\ StartOf(round, 0) = GetTotalNumberOfNodes(CeilDiv(Len(run), MAX_KEYS))
         /\ \A i \in 1 .. Len(round[0]) : round[0][i].is_leaf /\ round[0][i].entries = Chunk(run, i, MAX_KEYS)
<1> DEFINE n == CeilDiv(Len(run), MAX_KEYS)
           total == GetTotalNumberOfNodes(n)
           start(h) == StartOf(round, h)
           len(h) == Len(round[h])
<1>0. height \in Nat \ {0} /\ n \in Nat \ {0}
  <2>1. Len(run) \in Nat \ {0}
    OBVIOUS
  <2> QED
    BY <2>1, FanoutFact, CeilDivFacts DEF RoundsOf
<1>1. PICK above \in [1 .. n -> Nat] :
           /\ above[1] = 0
           /\ \A m \in 2 .. n : above[m] = CeilDiv(m, Fanout) + above[CeilDiv(m, Fanout)]
           /\ total = IF n = 1 THEN 2 ELSE n + above[n]
  BY <1>0, NodesAbove
<1>2. total \in Int
  <2> HIDE DEF n, total
  <2>1. above[n] \in Nat
    BY <1>0
  <2> QED
    BY <1>0, <1>1, <2>1
<1>3. /\ len(0) = n /\ start(0) = total
      /\ \A i \in 1 .. n : round[0][i].is_leaf /\ round[0][i].entries = Chunk(run, i, MAX_KEYS)
  BY <1>2, LeafRound DEF RoundsOf, RoundsFrom, StartOf
<1>4. ASSUME NEW h \in 0 .. height PROVE len(h) \in Nat \ {0} /\ start(h) \in Int
  <2>1. IsRound(round[h])
    BY DEF RoundsOf
  <2>2. round[h] \in Seq(Node) /\ Len(round[h]) \in Nat \ {0} /\ 1 \in 1 .. Len(round[h])
    BY <2>1 DEF IsRound
  <2>3. round[h][1] \in Node
    BY <2>2
  <2> QED
    BY <2>2, <2>3 DEF Node, StartOf
<1>5. ASSUME NEW h \in 1 .. height
      PROVE  start(h) = start(h - 1) - len(h - 1) /\ len(h) = CeilDiv(len(h - 1), Fanout)
  <2>1. h - 1 \in 0 .. height
    BY <1>0
  <2>2. IsRound(round[h - 1]) /\ round[h] = ParentNodes(round[h - 1])
    BY <2>1 DEF RoundsOf, RoundsFrom
  <2> QED
    BY <2>2, ParentRound DEF StartOf
<1>6. len(height) = 1 /\ \A h \in 1 .. height - 1 : len(h) > 1
  BY DEF RoundsOf
<1> HIDE DEF n, total, start, len
<1>7. start(height) = 1
  <2>1. CASE n = 1
    <3>1. 1 \in 1 .. height
      BY <1>0
    <3>2. len(1) = 1
      BY <1>3, <1>5, <2>1, <3>1, CeilDivFacts, FanoutFact
    <3>3. height = 1
      BY <1>0, <1>6, <3>2
    <3>4. start(1) = start(1 - 1) - len(1 - 1)
      BY <1>5, <3>1
    <3> QED
      BY <1>1, <1>3, <2>1, <3>3, <3>4
  <2>2. CASE n # 1
    <3> DEFINE S == {h \in Nat : h <= height => len(h) <= n /\ start(h) - len(h) = above[len(h)]}
    <3>1. 0 \in S
      <4>1. above[n] \in Nat
        BY <1>0
      <4> QED
        BY <1>0, <1>1, <1>3, <2>2, <4>1
    <3>2. ASSUME NEW h \in Nat, h \in S PROVE h + 1 \in S
      <4>1. SUFFICES ASSUME h + 1 <= height
                     PROVE  len(h + 1) <= n /\ start(h + 1) - len(h + 1) = above[len(h + 1)]
        BY <1>0
      <4>2. h \in 0 .. height /\ h + 1 \in 1 .. height /\ h + 1 \in 0 .. height /\ (h + 1) - 1 = h
        BY <1>0, <4>1
      <4>3. start(h + 1) = start(h) - len(h) /\ len(h + 1) = CeilDiv(len(h), Fanout)
        BY <1>5, <4>2
      <4>4. len(h) \in 2 .. n /\ start(h) - len(h) = above[len(h)]
        <5>1. len(h) \in Nat \ {0} /\ len(h) <= n /\ start(h) - len(h) = above[len(h)]
          BY <1>0, <1>4, <3>2, <4>1, <4>2
        <5>2. len(h) # 1
          BY <1>0, <1>3, <1>6, <2>2, <4>1
        <5> QED
          BY <1>0, <5>1, <5>2
      <4>5. above[len(h)] = len(h + 1) + above[len(h + 1)]
        BY <1>1, <4>3, <4>4
      <4>6. len(h + 1) \in Nat \ {0} /\ len(h + 1) <= len(h)
        <5>1. len(h) \in Nat \ {0}
          BY <1>4, <4>2
        <5>2. CeilDiv(len(h), Fanout) \in Nat \ {0} /\ CeilDiv(len(h), Fanout) <= len(h)
          BY <5>1, FanoutFact, CeilDivFacts
        <5> QED
          BY <4>3, <5>2
      <4>7. above[len(h + 1)] \in Nat
        BY <1>0, <4>4, <4>6
      <4>8. start(h + 1) = len(h + 1) + above[len(h + 1)]
        BY <4>3, <4>4, <4>5
      <4>9. PICK x \in Nat, y \in Nat, z \in Nat : x = len(h + 1) /\ y = above[len(h + 1)] /\ z = len(h)
        BY <4>4, <4>6, <4>7
      <4>10. x + y - x = y /\ x <= n
        <5>1. n \in Nat /\ z <= n /\ x <= z
          BY <1>0, <4>4, <4>6, <4>9
        <5> QED
          BY ONLY <5>1, x \in Nat, y \in Nat, z \in Nat
      <4> QED
        BY ONLY <4>8, <4>9, <4>10
    <3>3. Nat \subseteq S
      <4> HIDE DEF S
      <4> QED
        BY <3>1, <3>2, InductionOnNat
    <3>4. height \in S /\ height \in 0 .. height
      BY <1>0, <3>3
    <3>5. start(height) - len(height) = above[len(height)]
      BY <1>0, <3>4
    <3>6. start(height) \in Int
      BY <1>4, <3>4
    <3> QED
      BY <1>1, <1>6, <3>5, <3>6
  <2> QED
    BY <2>1, <2>2
<1>8. ASSUME NEW h \in 0 .. height, NEW g \in 0 .. height, h < g
      PROVE  start(g) <= start(h) - len(h)
  <2> DEFINE S == {d \in Nat : h + 1 + d <= height => start(h + 1 + d) <= start(h) - len(h)}
  <2>1. 0 \in S
    <3>1. h + 1 + 0 = h + 1 /\ h + 1 \in 1 .. height /\ (h + 1) - 1 = h /\ start(h) - len(h) \in Int
      BY <1>0, <1>4, <1>8
    <3>2. start(h + 1) = start(h) - len(h)
      BY <1>5, <3>1
    <3> QED
      BY <3>1, <3>2
  <2>2. ASSUME NEW d \in Nat, d \in S PROVE d + 1 \in S
    <3>1. SUFFICES ASSUME h + 1 + (d + 1) <= height PROVE start(h + 1 + (d + 1)) <= start(h) - len(h)
      BY <1>0
    <3>2. /\ h + 1 + d \in 0 .. height /\ h + 1 + (d + 1) \in 1 .. height
          /\ (h + 1 + (d + 1)) - 1 = h + 1 + d /\ h + 1 + d <= height
      BY <1>0, <3>1
    <3>3. start(h + 1 + (d + 1)) = start(h + 1 + d) - len(h + 1 + d)
      BY <1>5, <3>2
    <3>4. len(h + 1 + d) \in Nat /\ start(h + 1 + d) \in Int /\ start(h) - len(h) \in Int
      BY <1>4, <3>2
    <3>5. start(h + 1 + d) <= start(h) - len(h)
      BY <2>2, <3>2
    <3> QED
      BY <3>3, <3>4, <3>5
  <2>3. Nat \subseteq S
    <3> HIDE DEF S
    <3> QED
      BY <2>1, <2>2, InductionOnNat
  <2>4. g - h - 1 \in Nat /\ h + 1 + (g - h - 1) = g /\ g <= height
    BY <1>0, <1>8
  <2>5. g - h - 1 \in S
    BY <2>3, <2>4
  <2> QED
    BY <2>4, <2>5
<1>9. ASSUME NEW h \in 0 .. height
      PROVE  start(h) \in Nat \ {0} /\ start(h) - len(h) \in Nat
  <2>1. len(h) \in Nat \ {0} /\ start(h) \in Int
    BY <1>4
  <2>2. CASE h = height
    BY <1>6, <1>7, <2>1, <2>2
  <2>3. CASE h # height
    <3>1. height \in 0 .. height /\ h < height
      BY <1>0, <2>3
    <3>2. start(height) <= start(h) - len(h)
      BY <1>8, <3>1
    <3> QED
      BY <1>7, <2>1, <3>2
  <2> QED
    BY <2>2, <2>3
<1>10. Stacked(round, height)
  BY <1>4, <1>5, <1>7, <1>8, <1>9 DEF Stacked, start, len
<1> QED
  BY <1>3, <1>10 DEF n, total, start, len

-----------------------------------------------------------------------------
(* Writing a file: its pages                                               *)

\* What a page of the file keeps of a node.
PageWith(node) == [is_leaf |-> node.is_leaf, entries |-> node.entries]

\* Every node of the rounds is at its offset in the file, and nothing else is in it.
LaidOut(file, round, height) ==
  /\ DOMAIN file = 1 .. Len(file) /\ Len(file) = StartOf(round, 0)
  /\ \A h \in 0 .. height : \A i \in 1 .. Len(round[h]) :
       /\ round[h][i].file_offset = StartOf(round, h) - i + 1
       /\ round[h][i].file_offset \in 1 .. Len(file)
       /\ file[round[h][i].file_offset] = PageWith(round[h][i])
  /\ \A o \in 1 .. Len(file) : \E h \in 0 .. height : \E i \in 1 .. Len(round[h]) : round[h][i].file_offset = o

\* A file has every node of the rounds at its offset, and no other page:
\* nothing is written twice to one offset and no page is left out.
THEOREM FileLayout ==
  ASSUME NEW run \in Seq(Entry), run # <<>>, NEW round, NEW height, RoundsOf(run, round, height)
  PROVE  LaidOut(BuildFile(run), round, height)
<1> DEFINE total == StartOf(round, 0)
           start(h) == StartOf(round, h)
           len(h) == Len(round[h])
           offset(h, i) == round[h][i].file_offset
           nodes == NodesOf(run)
<1>0. height \in Nat \ {0}
  BY DEF RoundsOf
<1>1. Stacked(round, height)
  BY RoundsStack
<1>2. \A h \in 0 .. height : start(h) \in Nat \ {0} /\ len(h) \in Nat \ {0} /\ start(h) - len(h) \in Nat
  BY <1>1 DEF Stacked
<1>3. \A h \in 1 .. height : start(h) = start(h - 1) - len(h - 1)
  BY <1>1 DEF Stacked
<1>4. \A g, h \in 0 .. height : h < g => start(g) <= start(h) - len(h)
  BY <1>1 DEF Stacked
<1>5. total \in Nat \ {0} /\ start(height) = 1 /\ start(0) = total /\ len(height) = 1
  BY <1>0, <1>1, <1>2 DEF Stacked, RoundsOf
<1>6. \A h \in 0 .. height : \A i \in 1 .. len(h) : offset(h, i) = start(h) - i + 1
  BY DEF RoundsOf, IsRound, StartOf
<1> HIDE DEF total, start, len, offset
<1>7. ASSUME NEW h \in 0 .. height, NEW i \in 1 .. len(h) PROVE offset(h, i) \in 1 .. total
  <2>1. offset(h, i) = start(h) - i + 1 /\ start(h) \in Nat /\ len(h) \in Nat /\ start(h) - len(h) \in Nat
    BY <1>2, <1>6
  <2>2. start(h) <= total
    <3>1. CASE h = 0
      BY <1>5, <3>1
    <3>2. CASE h # 0
      <4>1. 0 \in 0 .. height /\ 0 < h
        BY <1>0, <3>2
      <4>2. start(h) <= start(0) - len(0) /\ len(0) \in Nat
        BY <1>2, <1>4, <4>1
      <4> QED
        BY <1>5, <2>1, <4>2
    <3> QED
      BY <3>1, <3>2
  <2> QED
    BY <1>5, <2>1, <2>2
<1>8. ASSUME NEW h \in 0 .. height, NEW i \in 1 .. len(h), NEW g \in 0 .. height, NEW j \in 1 .. len(g),
             h < g
      PROVE  offset(g, j) < offset(h, i)
  <2>1. start(g) <= start(h) - len(h)
    BY <1>4, <1>8
  <2>2. /\ start(h) \in Nat /\ len(h) \in Nat /\ start(g) \in Nat /\ len(g) \in Nat
        /\ offset(h, i) = start(h) - i + 1 /\ offset(g, j) = start(g) - j + 1
    BY <1>2, <1>6
  <2> QED
    BY <2>1, <2>2
<1>9. ASSUME NEW h \in 0 .. height, NEW i \in 1 .. len(h), NEW g \in 0 .. height, NEW j \in 1 .. len(g),
             offset(g, j) = offset(h, i)
      PROVE  g = h /\ j = i
  <2>1. offset(h, i) \in Nat /\ offset(g, j) \in Nat
    BY <1>7
  <2>2. g = h
    <3>1. ~ (g < h) /\ ~ (h < g)
      BY <1>8, <1>9, <2>1
    <3> QED
      BY <1>0, <3>1
  <2>3. start(h) - i + 1 = start(h) - j + 1 /\ start(h) \in Nat /\ len(h) \in Nat
    BY <1>2, <1>6, <1>9, <2>2
  <2> QED
    BY <2>2, <2>3
<1>10. ASSUME NEW o \in 1 .. total PROVE \E h \in 0 .. height : \E i \in 1 .. len(h) : offset(h, i) = o
  <2> DEFINE T == {h \in 0 .. height : start(h) - len(h) < o}
  <2>1. height \in T
    BY <1>0, <1>5
  <2>2. T \subseteq Nat /\ T # {}
    BY <1>0, <2>1
  <2>3. PICK h \in T : \A g \in T : h <= g
    <3> HIDE DEF T
    <3> QED
      BY <2>2, SmallestElement
  <2>4. h \in 0 .. height /\ start(h) - len(h) < o
    OBVIOUS
  <2>5. o <= start(h)
    <3>1. CASE h = 0
      BY <1>5, <3>1
    <3>2. CASE h # 0
      <4>1. h - 1 \in 0 .. height /\ ~ (h <= h - 1) /\ h \in 1 .. height
        BY <1>0, <2>4, <3>2
      <4>2. ~ (start(h - 1) - len(h - 1) < o)
        BY <2>3, <4>1
      <4>3. start(h) = start(h - 1) - len(h - 1) /\ start(h) \in Nat
        BY <1>2, <1>3, <2>4, <4>1
      <4> QED
        BY <1>5, <4>2, <4>3
    <3> QED
      BY <3>1, <3>2
  <2>6. start(h) \in Nat /\ len(h) \in Nat
    BY <1>2, <2>4
  <2>7. start(h) - o + 1 \in 1 .. len(h) /\ start(h) - (start(h) - o + 1) + 1 = o
    BY <1>5, <2>4, <2>5, <2>6
  <2>8. offset(h, start(h) - o + 1) = o
    BY <1>6, <2>4, <2>7
  <2> QED
    BY <2>4, <2>7, <2>8
<1>12. \A x : x \in nodes <=> \E h \in 0 .. height : \E i \in 1 .. len(h) : x = round[h][i]
  <2> DEFINE rounds == [h \in 0 .. height |-> round[h]]
             Of(h) == {rounds[h][i] : i \in DOMAIN rounds[h]}
  <2>1. Rounds(run) = rounds
    BY DEF RoundsOf
  <2>2. nodes = UNION {Of(h) : h \in DOMAIN rounds}
    BY <2>1 DEF NodesOf
  <2>3. \A h \in 0 .. height : rounds[h] = round[h] /\ DOMAIN round[h] = 1 .. len(h)
    BY DEF RoundsOf, IsRound, len
  <2>4. DOMAIN rounds = 0 .. height
    OBVIOUS
  <2>5. \A x : \A h \in 0 .. height : x \in Of(h) <=> \E i \in 1 .. len(h) : x = round[h][i]
    <3> HIDE DEF rounds, len
    <3> QED
      BY <2>3
  <2> HIDE DEF rounds, nodes, Of
  <2>6. \A x : x \in nodes <=> \E h \in 0 .. height : x \in Of(h)
    BY <2>2, <2>4
  <2> QED
    BY <2>5, <2>6
<1>13. ASSUME NEW o \in 1 .. total
       PROVE  \E x \in nodes : x.file_offset = o /\ \A y \in nodes : y.file_offset = o => y = x
  <2>a. PICK h \in 0 .. height : \E i \in 1 .. len(h) : offset(h, i) = o
    BY <1>10
  <2>1. PICK i \in 1 .. len(h) : offset(h, i) = o
    BY <2>a
  <2>2. round[h][i] \in nodes /\ round[h][i].file_offset = o
    BY <1>12, <2>1 DEF offset
  <2>3. ASSUME NEW y \in nodes, y.file_offset = o PROVE y = round[h][i]
    <3>a. PICK g \in 0 .. height : \E j \in 1 .. len(g) : y = round[g][j]
      BY <1>12
    <3>1. PICK j \in 1 .. len(g) : y = round[g][j]
      BY <3>a
    <3>2. g = h /\ j = i
      BY <1>9, <2>1, <2>3, <3>1 DEF offset
    <3> QED
      BY <3>1, <3>2
  <2> QED
    BY <2>2, <2>3
<1>14. Cardinality(nodes) = total
  <2> DEFINE at == [o \in 1 .. total |-> CHOOSE x \in nodes : x.file_offset = o]
  <2>1. \A o \in 1 .. total : at[o] \in nodes /\ at[o].file_offset = o
    BY <1>13
  <2>2. at \in [1 .. total -> nodes]
    BY <2>1
  <2> HIDE DEF at
  <2>3. \A o, p \in 1 .. total : at[o] = at[p] => o = p
    BY <2>1
  <2>4. \A x \in nodes : x.file_offset \in 1 .. total
    BY <1>7, <1>12 DEF offset
  <2>5. \A x \in nodes : x = at[x.file_offset]
    BY <1>13, <2>1, <2>4
  <2>6. at \in Bijection(1 .. total, nodes)
    <3>1. at \in Injection(1 .. total, nodes)
      BY <2>2, <2>3 DEF Injection, IsInjective
    <3>2. at \in Surjection(1 .. total, nodes)
      BY <2>2, <2>4, <2>5 DEF Surjection
    <3> QED
      BY <3>1, <3>2 DEF Bijection
  <2>7. ExistsBijection(1 .. total, nodes)
    BY <2>6 DEF ExistsBijection
  <2> QED
    BY <1>5, <2>7, FS_CountingElements
<1> DEFINE file == BuildFile(run)
<1>15. file = [o \in 1 .. total |->
                 [is_leaf |-> (CHOOSE x \in nodes : x.file_offset = o).is_leaf,
                  entries |-> (CHOOSE x \in nodes : x.file_offset = o).entries]]
  BY <1>14 DEF BuildFile
<1>16. DOMAIN file = 1 .. total /\ Len(file) = total
  <2> HIDE DEF nodes
  <2>1. DOMAIN file = 1 .. total
    BY <1>15
  <2> HIDE DEF file
  <2> QED
    BY <1>5, <2>1
<1>17. ASSUME NEW h \in 0 .. height, NEW i \in 1 .. len(h) PROVE file[offset(h, i)] = PageWith(round[h][i])
  <2>1. offset(h, i) \in 1 .. total
    BY <1>7
  <2>2. round[h][i] \in nodes /\ round[h][i].file_offset = offset(h, i)
    BY <1>12 DEF offset
  <2>3. (CHOOSE x \in nodes : x.file_offset = offset(h, i)) = round[h][i]
    BY <1>13, <2>1, <2>2
  <2> HIDE DEF nodes
  <2> QED
    BY <1>15, <2>1, <2>3 DEF PageWith
<1> HIDE DEF file
<1>18. LaidOut(file, round, height)
  BY <1>6, <1>7, <1>10, <1>16, <1>17 DEF LaidOut, total, start, len, offset
<1> QED
  BY <1>18 DEF file

\* The leaves of a file are its last pages, the first leaf last.
LEMMA FileLeaves ==
  ASSUME NEW run \in Seq(Entry), run # <<>>
  PROVE  LET file == BuildFile(run)
             n    == CeilDiv(Len(run), MAX_KEYS)
         IN  /\ Len(file) \in Nat /\ DOMAIN file = 1 .. Len(file)
             /\ n \in 1 .. Len(file) - 1
             /\ \A i \in 1 .. n : /\ file[Len(file) - i + 1].is_leaf
                                  /\ file[Len(file) - i + 1].entries = Chunk(run, i, MAX_KEYS)
             /\ \A o \in 1 .. Len(file) - n : ~ file[o].is_leaf
<1> DEFINE file == BuildFile(run)
           n == CeilDiv(Len(run), MAX_KEYS)
<1>1. PICK round : \E height : RoundsOf(run, round, height)
  BY RoundsUnfold
<1>2. PICK height : RoundsOf(run, round, height)
  BY <1>1
<1>3. /\ Stacked(round, height) /\ Len(round[0]) = n
      /\ \A i \in 1 .. Len(round[0]) : round[0][i].is_leaf /\ round[0][i].entries = Chunk(run, i, MAX_KEYS)
  BY <1>2, RoundsStack
<1>4. LaidOut(file, round, height)
  BY <1>2, FileLayout
<1>5. height \in Nat \ {0} /\ 0 \in 0 .. height /\ 1 \in 0 .. height /\ 1 \in 1 .. height
  BY <1>2 DEF RoundsOf
<1>6. n \in Nat \ {0}
  BY <1>3, <1>5 DEF Stacked
<1> HIDE DEF file, n
<1>7. Len(file) \in Nat /\ DOMAIN file = 1 .. Len(file) /\ Len(file) = StartOf(round, 0)
  BY <1>3, <1>4, <1>5 DEF Stacked, LaidOut
<1>8. StartOf(round, 1) = Len(file) - n /\ StartOf(round, 1) \in Nat \ {0}
  <2>1. StartOf(round, 1) = StartOf(round, 1 - 1) - Len(round[1 - 1]) /\ StartOf(round, 1) \in Nat \ {0}
    BY <1>3, <1>5 DEF Stacked
  <2> QED
    BY <1>3, <1>7, <2>1
<1>9. n \in 1 .. Len(file) - 1
  BY <1>6, <1>7, <1>8
<1>10. ASSUME NEW i \in 1 .. n
       PROVE  /\ file[Len(file) - i + 1].is_leaf
              /\ file[Len(file) - i + 1].entries = Chunk(run, i, MAX_KEYS)
  <2>1. /\ round[0][i].file_offset = Len(file) - i + 1
        /\ file[round[0][i].file_offset] = PageWith(round[0][i])
    BY <1>3, <1>4, <1>5, <1>7 DEF LaidOut
  <2>2. file[Len(file) - i + 1].is_leaf = round[0][i].is_leaf
        /\ file[Len(file) - i + 1].entries = round[0][i].entries
    BY <2>1 DEF PageWith
  <2> QED
    BY <1>3, <2>2
<1>11. ASSUME NEW o \in 1 .. Len(file) - n PROVE ~ file[o].is_leaf
  <2>1. o \in 1 .. Len(file)
    BY <1>7, <1>9
  <2>2. PICK h \in 0 .. height : \E i \in 1 .. Len(round[h]) : round[h][i].file_offset = o
    BY <1>4, <2>1 DEF LaidOut
  <2>3. PICK i \in 1 .. Len(round[h]) : round[h][i].file_offset = o
    BY <2>2
  <2>4. file[o] = PageWith(round[h][i]) /\ o = StartOf(round, h) - i + 1
    BY <1>4, <2>3 DEF LaidOut
  <2>5. h # 0
    <3>1. SUFFICES ASSUME h = 0 PROVE FALSE
      OBVIOUS
    <3>2. o = Len(file) - i + 1 /\ i \in 1 .. n
      BY <1>3, <1>7, <2>4, <3>1
    <3> QED
      BY <1>6, <1>7, <3>2
  <2>6. h - 1 \in 0 .. height /\ h \in 1 .. height
    BY <1>5, <2>5
  <2>7. IsRound(round[h - 1]) /\ round[h] = ParentNodes(round[h - 1])
    BY <1>2, <2>6 DEF RoundsOf, RoundsFrom
  <2>8. ~ round[h][i].is_leaf
    BY <2>7, ParentRound
  <2> QED
    BY <2>4, <2>8 DEF PageWith
<1> QED
  BY <1>7, <1>9, <1>10, <1>11 DEF file, n

\* Quotient and remainder.
LEMMA DivMod ==
  ASSUME NEW a \in Nat, NEW b \in Nat \ {0}
  PROVE  /\ a \div b \in Nat /\ a % b \in Nat /\ a % b < b
         /\ (a \div b) * b + (a % b) = a
<1>1. a \div b \in Int /\ a % b \in Int /\ 0 <= a % b /\ a % b < b
  OBVIOUS
<1>2. a = b * (a \div b) + (a % b)
  OBVIOUS
<1>3. (a \div b) * b + (a % b) = a
  BY <1>1, <1>2
<1>4. a \div b \in Nat
  OBVIOUS
<1> QED
  BY <1>1, <1>3, <1>4

\* Entry x of a run is entry (x - 1) % MAX_KEYS + 1 of leaf (x - 1) \div MAX_KEYS + 1.
LEMMA WhereEntryIs ==
  ASSUME NEW run \in Seq(Entry), run # <<>>, NEW x \in 1 .. Len(run)
  PROVE  LET i == (x - 1) \div MAX_KEYS + 1
             j == ((x - 1) % MAX_KEYS) + 1
         IN  /\ i \in 1 .. CeilDiv(Len(run), MAX_KEYS)
             /\ j \in 1 .. Len(Chunk(run, i, MAX_KEYS))
             /\ Chunk(run, i, MAX_KEYS)[j] = run[x]
             /\ (i - 1) * MAX_KEYS + j = x
<1> DEFINE q == (x - 1) \div MAX_KEYS
           r == (x - 1) % MAX_KEYS
           n == CeilDiv(Len(run), MAX_KEYS)
           first == q * MAX_KEYS
           last == Smaller((q + 1) * MAX_KEYS, Len(run))
<1>1. Len(run) \in Nat \ {0} /\ MAX_KEYS \in Nat \ {0} /\ x \in Nat \ {0} /\ x <= Len(run) /\ x - 1 \in Nat
  BY FanoutFact
<1>2. q \in Nat /\ r \in Nat /\ r < MAX_KEYS /\ q * MAX_KEYS + r = x - 1
  BY <1>1, DivMod
<1>3. n \in Nat \ {0} /\ Len(run) <= n * MAX_KEYS
  BY <1>1, CeilDivFacts
<1> HIDE DEF q, r, n
<1>4. q < n
  <2>1. SUFFICES ASSUME q >= n PROVE FALSE
    BY <1>2, <1>3
  <2>2. q * MAX_KEYS >= n * MAX_KEYS
    BY <1>1, <1>2, <1>3, <2>1
  <2>3. q * MAX_KEYS \in Nat /\ n * MAX_KEYS \in Nat
    BY <1>1, <1>2, <1>3
  <2> QED
    BY <1>1, <1>2, <1>3, <2>2, <2>3
<1>5. q + 1 \in 1 .. n /\ (q + 1) - 1 = q
  BY <1>2, <1>3, <1>4
<1>6. /\ Len(Chunk(run, q + 1, MAX_KEYS)) = last - first /\ last \in 1 .. Len(run)
      /\ \A y \in 1 .. last - first : Chunk(run, q + 1, MAX_KEYS)[y] = run[first + y]
  <2>1. LET f == ((q + 1) - 1) * MAX_KEYS
        IN /\ Len(Chunk(run, q + 1, MAX_KEYS)) = last - f /\ last \in 1 .. Len(run)
           /\ \A y \in 1 .. last - f : Chunk(run, q + 1, MAX_KEYS)[y] = run[f + y]
    BY <1>1, <1>5, ChunkFacts DEF n
  <2>2. ((q + 1) - 1) * MAX_KEYS = first
    BY <1>5
  <2> HIDE DEF first, last
  <2> QED
    BY <2>1, <2>2
<1>7. first \in Nat /\ first + (r + 1) = x /\ (q + 1) * MAX_KEYS = first + MAX_KEYS
  BY <1>1, <1>2
<1>8. r + 1 \in 1 .. last - first
  <2> HIDE DEF first
  <2> QED
    BY <1>1, <1>2, <1>7 DEF Smaller
<1>9. Chunk(run, q + 1, MAX_KEYS)[r + 1] = run[x]
  <2> HIDE DEF first, last
  <2> QED
    BY <1>6, <1>7, <1>8
<1>10. ((q + 1) - 1) * MAX_KEYS + (r + 1) = x
  BY <1>5, <1>7
<1> HIDE DEF first, last
<1> QED
  BY <1>5, <1>6, <1>8, <1>9, <1>10 DEF q, r, n

\* The leaves of a file hold the entries of the run, and no others.
LEMMA LeavesHoldRun ==
  ASSUME NEW run \in Seq(Entry), run # <<>>
  PROVE  LET file == BuildFile(run)
         IN  \A e : e \in Contents(run) <=>
               \E o \in DOMAIN file : file[o].is_leaf /\ \E i \in DOMAIN file[o].entries : e = file[o].entries[i]
<1> DEFINE file == BuildFile(run)
           n == CeilDiv(Len(run), MAX_KEYS)
<1>1. /\ Len(file) \in Nat /\ DOMAIN file = 1 .. Len(file)
      /\ n \in 1 .. Len(file) - 1
      /\ \A i \in 1 .. n : /\ file[Len(file) - i + 1].is_leaf
                           /\ file[Len(file) - i + 1].entries = Chunk(run, i, MAX_KEYS)
      /\ \A o \in 1 .. Len(file) - n : ~ file[o].is_leaf
  BY FileLeaves
<1>2. ASSUME NEW i \in 1 .. n PROVE Chunk(run, i, MAX_KEYS) \in Seq(Entry)
          /\ \A x \in DOMAIN Chunk(run, i, MAX_KEYS) : Chunk(run, i, MAX_KEYS)[x] \in Contents(run)
  <2>1. LET first == (i - 1) * MAX_KEYS
            last  == Smaller(i * MAX_KEYS, Len(run))
        IN  /\ Chunk(run, i, MAX_KEYS) \in Seq(Entry)
            /\ Len(Chunk(run, i, MAX_KEYS)) = last - first
            /\ \A x \in 1 .. last - first : Chunk(run, i, MAX_KEYS)[x] = run[first + x] /\ first + x \in 1 .. Len(run)
    BY FanoutFact, ChunkFacts
  <2>2. DOMAIN Chunk(run, i, MAX_KEYS) = 1 .. Len(Chunk(run, i, MAX_KEYS))
    BY <2>1
  <2> QED
    BY <2>1, <2>2 DEF Contents
<1> HIDE DEF file, n
<1>3. ASSUME NEW e \in Contents(run)
      PROVE  \E o \in DOMAIN file : file[o].is_leaf /\ \E i \in DOMAIN file[o].entries : e = file[o].entries[i]
  <2>1. PICK x \in 1 .. Len(run) : e = run[x]
    BY DEF Contents
  <2>2. PICK i \in 1 .. n : \E j \in 1 .. Len(Chunk(run, i, MAX_KEYS)) : Chunk(run, i, MAX_KEYS)[j] = e
    BY <2>1, WhereEntryIs DEF n
  <2>3. Len(file) - i + 1 \in DOMAIN file /\ DOMAIN Chunk(run, i, MAX_KEYS) = 1 .. Len(Chunk(run, i, MAX_KEYS))
    BY <1>1, <1>2
  <2> QED
    BY <1>1, <2>2, <2>3
<1>4. ASSUME NEW o \in DOMAIN file, file[o].is_leaf, NEW x \in DOMAIN file[o].entries
      PROVE  file[o].entries[x] \in Contents(run)
  <2>1. ~ (o \in 1 .. Len(file) - n)
    BY <1>1, <1>4
  <2>2. Len(file) - o + 1 \in 1 .. n /\ Len(file) - (Len(file) - o + 1) + 1 = o
    BY <1>1, <2>1
  <2>3. file[o].entries = Chunk(run, Len(file) - o + 1, MAX_KEYS)
    BY <1>1, <2>2
  <2> QED
    BY <1>2, <2>2, <2>3
<1> QED
  BY <1>3, <1>4 DEF file

\* The leaves of a file are its last pages.
LEMMA LeafCount ==
  ASSUME NEW run \in Seq(Entry), run # <<>>
  PROVE  LET file == BuildFile(run)
         IN  Cardinality({o \in DOMAIN file : file[o].is_leaf}) = CeilDiv(Len(run), MAX_KEYS)
<1> DEFINE file == BuildFile(run)
           n == CeilDiv(Len(run), MAX_KEYS)
           leaf_offsets == {o \in DOMAIN file : file[o].is_leaf}
<1>1. /\ Len(file) \in Nat /\ DOMAIN file = 1 .. Len(file)
      /\ n \in 1 .. Len(file) - 1
      /\ \A i \in 1 .. n : file[Len(file) - i + 1].is_leaf
      /\ \A o \in 1 .. Len(file) - n : ~ file[o].is_leaf
  BY FileLeaves
<1> HIDE DEF file, n
<1>2. leaf_offsets = Len(file) - n + 1 .. Len(file)
  <2>1. ASSUME NEW o \in DOMAIN file PROVE file[o].is_leaf <=> o > Len(file) - n
    <3>1. CASE o > Len(file) - n
      <4>1. Len(file) - o + 1 \in 1 .. n /\ Len(file) - (Len(file) - o + 1) + 1 = o
        BY <1>1, <3>1
      <4> QED
        BY <1>1, <3>1, <4>1
    <3>2. CASE ~ (o > Len(file) - n)
      BY <1>1, <3>2
    <3> QED
      BY <3>1, <3>2
  <2> QED
    BY <1>1, <2>1
<1>3. Cardinality(Len(file) - n + 1 .. Len(file)) = n
  <2>1. Len(file) - n + 1 \in Int /\ Len(file) \in Int /\ Len(file) - n + 1 <= Len(file)
    BY <1>1
  <2>2. Len(file) - (Len(file) - n + 1) + 1 = n
    BY <1>1
  <2> QED
    BY <2>1, <2>2, FS_Interval
<1> HIDE DEF leaf_offsets
<1>4. Cardinality(leaf_offsets) = n
  BY <1>2, <1>3
<1> QED
  BY <1>4 DEF leaf_offsets, file, n

\* The merge reads back, leaf after leaf, the run that was written.
THEOREM RunOfBuildFile ==
  ASSUME NEW run \in Seq(Entry), run # <<>>
  PROVE  RunOf(BuildFile(run)) = run
<1> DEFINE file == BuildFile(run)
           n == CeilDiv(Len(run), MAX_KEYS)
           leaves == Cardinality({o \in DOMAIN file : file[o].is_leaf})
           last == Len(file) - leaves + 1
           size == (leaves - 1) * MAX_KEYS + Len(file[last].entries)
<1>1. /\ Len(file) \in Nat /\ DOMAIN file = 1 .. Len(file)
      /\ n \in 1 .. Len(file) - 1
      /\ \A i \in 1 .. n : /\ file[Len(file) - i + 1].is_leaf
                           /\ file[Len(file) - i + 1].entries = Chunk(run, i, MAX_KEYS)
      /\ \A o \in 1 .. Len(file) - n : ~ file[o].is_leaf
  BY FileLeaves
<1>2. RunOf(file) = IF file = EmptyFile THEN <<>> ELSE
      [i \in 1 .. size |-> file[Len(file) - (i - 1) \div MAX_KEYS].entries[((i - 1) % MAX_KEYS) + 1]]
  BY DEF RunOf
<1>3. leaves = n
  BY LeafCount
<1> HIDE DEF file, n
<1>4. file # EmptyFile
  BY <1>1 DEF EmptyFile
<1>5. size = Len(run)
  <2>1. n \in 1 .. n /\ last = Len(file) - n + 1
    BY <1>1, <1>3
  <2>2. file[last].entries = Chunk(run, n, MAX_KEYS)
    BY <1>1, <2>1
  <2>3. Len(Chunk(run, n, MAX_KEYS)) = Len(run) - (n - 1) * MAX_KEYS
    BY <2>1, FanoutFact, ChunkFacts DEF n
  <2>4. (n - 1) * MAX_KEYS \in Nat /\ Len(run) \in Nat
    BY <1>1, FanoutFact
  <2> HIDE DEF last, leaves
  <2> QED
    BY <1>3, <2>2, <2>3, <2>4
<1>6. ASSUME NEW x \in 1 .. Len(run)
      PROVE  file[Len(file) - (x - 1) \div MAX_KEYS].entries[((x - 1) % MAX_KEYS) + 1] = run[x]
  <2> DEFINE q == (x - 1) \div MAX_KEYS
             r == (x - 1) % MAX_KEYS
  <2>1. q + 1 \in 1 .. n /\ Chunk(run, q + 1, MAX_KEYS)[r + 1] = run[x]
    BY WhereEntryIs DEF n
  <2>2. q \in Int
    BY FanoutFact
  <2> HIDE DEF q, r
  <2>3. Len(file) - (q + 1) + 1 = Len(file) - q
    BY <1>1, <2>2
  <2>4. file[Len(file) - q].entries[r + 1] = run[x]
    BY <1>1, <2>1, <2>3
  <2> QED
    BY <2>4 DEF q, r
<1>7. RunOf(file) = [x \in 1 .. Len(run) |-> run[x]]
  <2> HIDE DEF size
  <2> QED
    BY <1>2, <1>4, <1>5, <1>6
<1>8. run = [x \in 1 .. Len(run) |-> run[x]]
  OBVIOUS
<1> QED
  BY <1>7, <1>8 DEF file

-----------------------------------------------------------------------------
(* Searching a file                                                        *)

\* The largest key of the i-th node of a round.
LastKey(q, i) == LastOf(q[i].entries).key

\* The largest keys of the nodes of a round go up.
LastsGoUp(q) ==
  /\ \A i \in 1 .. Len(q) : LastKey(q, i) \in Nat
  /\ \A i, j \in 1 .. Len(q) : i < j => LastKey(q, i) < LastKey(q, j)

\* The i-th node is the first of its round that reaches key.
FirstIn(q, i, key) == LastKey(q, i) >= key /\ \A j \in 1 .. i - 1 : LastKey(q, j) < key

\* The keys of an internal node are the largest keys of its children, and the
\* largest keys of a round of internal nodes go up as those below do.
LEMMA ParentKeys ==
  ASSUME NEW q, IsRound(q), LastsGoUp(q)
  PROVE  LET p == ParentNodes(q)
             first(c) == (c - 1) * Fanout
             last(c)  == Smaller(c * Fanout, Len(q))
         IN  /\ Len(p) \in Nat \ {0}
             /\ LastKey(p, Len(p)) = LastKey(q, Len(q))
             /\ LastsGoUp(p)
             /\ \A c \in 1 .. Len(p) :
                  /\ first(c) \in Nat /\ last(c) \in 1 .. Len(q) /\ first(c) < last(c)
                  /\ c # 1 => first(c) = last(c - 1)
                  /\ LastKey(p, c) = LastKey(q, last(c))
                  /\ Len(p[c].entries) = last(c) - first(c)
                  /\ DOMAIN p[c].entries = 1 .. Len(p[c].entries)
                  /\ \A x \in 1 .. last(c) - first(c) :
                       /\ first(c) + x \in 1 .. Len(q)
                       /\ p[c].entries[x].key = LastKey(q, first(c) + x)
                       /\ p[c].entries[x].key \in Nat
                       /\ p[c].entries[x].value = q[first(c) + x].file_offset
                  /\ KeysGoUp(p[c].entries)
<1> DEFINE p == ParentNodes(q)
           first(c) == (c - 1) * Fanout
           last(c)  == Smaller(c * Fanout, Len(q))
<1>1. q \in Seq(Node) /\ q # <<>> /\ Len(q) \in Nat \ {0} /\ Fanout \in Nat \ {0}
  BY FanoutFact DEF IsRound
<1>2. /\ IsRound(p) /\ Len(p) = CeilDiv(Len(q), Fanout)
      /\ \A c \in 1 .. Len(p) :
           /\ Len(p[c].entries) = last(c) - first(c)
           /\ \A x \in 1 .. last(c) - first(c) :
                p[c].entries[x] = [key |-> LastKey(q, first(c) + x), value |-> q[first(c) + x].file_offset]
  BY ParentRound DEF LastKey
<1>3. p \in Seq(Node) /\ Len(p) \in Nat \ {0}
  BY <1>2 DEF IsRound
<1>4. ASSUME NEW c \in 1 .. Len(p)
      PROVE  /\ first(c) \in Nat /\ last(c) \in 1 .. Len(q) /\ first(c) < last(c)
             /\ \A x \in 1 .. last(c) - first(c) : first(c) + x \in 1 .. Len(q)
             /\ c < Len(p) => last(c) = first(c) + Fanout
             /\ c = Len(p) => last(c) = Len(q)
  <2>1. c \in 1 .. CeilDiv(Len(q), Fanout) /\ q \in Seq(Node) /\ q # <<>> /\ Fanout \in Nat \ {0}
        /\ Len(p) = CeilDiv(Len(q), Fanout)
    BY <1>1, <1>2
  <2> HIDE DEF p
  <2> QED
    BY ONLY <2>1, ChunkFacts
<1>5. ASSUME NEW c \in 1 .. Len(p), NEW d \in 1 .. Len(p), c < d
      PROVE  last(c) < last(d) /\ last(c) <= first(d)
  <2>1. c * Fanout <= (d - 1) * Fanout
    BY <1>1, <1>3, <1>5
  <2>2. last(c) = first(c) + Fanout /\ first(d) < last(d)
    BY <1>3, <1>4, <1>5
  <2>3. first(c) + Fanout = c * Fanout
    BY <1>1, <1>3
  <2>4. first(d) \in Nat /\ last(d) \in Nat /\ last(c) \in Nat
    BY <1>4
  <2> HIDE DEF last
  <2> QED
    BY <2>1, <2>2, <2>3, <2>4
<1>6. ASSUME NEW c \in 1 .. Len(p), c # 1 PROVE first(c) = last(c - 1)
  <2>1. c - 1 \in 1 .. Len(p) /\ c - 1 < Len(p)
    BY <1>3, <1>6
  <2>2. last(c - 1) = first(c - 1) + Fanout
    BY <1>4, <2>1
  <2>3. first(c - 1) + Fanout = first(c)
    BY <1>1, <1>3
  <2> QED
    BY <2>2, <2>3
<1> HIDE DEF p, first, last
<1>7. ASSUME NEW c \in 1 .. Len(p)
      PROVE  /\ DOMAIN p[c].entries = 1 .. Len(p[c].entries)
             /\ \A x \in 1 .. last(c) - first(c) :
                  /\ p[c].entries[x].key = LastKey(q, first(c) + x)
                  /\ p[c].entries[x].value = q[first(c) + x].file_offset
                  /\ p[c].entries[x].key \in Nat
             /\ LastKey(p, c) = LastKey(q, last(c))
  <2>1. p[c] \in Node
    BY <1>3
  <2>2. p[c].entries \in Seq(Pair)
    BY <2>1 DEF Node
  <2>3. ASSUME NEW x \in 1 .. last(c) - first(c)
        PROVE  /\ p[c].entries[x].key = LastKey(q, first(c) + x)
               /\ p[c].entries[x].value = q[first(c) + x].file_offset
    <3>1. p[c].entries[x] = [key |-> LastKey(q, first(c) + x), value |-> q[first(c) + x].file_offset]
      BY <1>2
    <3> QED
      BY <3>1
  <2>4. \A x \in 1 .. last(c) - first(c) : p[c].entries[x].key \in Nat
    BY <1>4, <2>3 DEF LastsGoUp
  <2>5. LastKey(p, c) = LastKey(q, last(c))
    <3>1. last(c) - first(c) \in 1 .. last(c) - first(c) /\ first(c) + (last(c) - first(c)) = last(c)
      BY <1>4
    <3>2. LastKey(p, c) = p[c].entries[last(c) - first(c)].key
      BY <1>2 DEF LastKey, LastOf
    <3> QED
      BY <2>3, <3>1, <3>2
  <2> QED
    BY <2>2, <2>3, <2>4, <2>5
<1>8. ASSUME NEW c \in 1 .. Len(p) PROVE KeysGoUp(p[c].entries)
  <2>1. SUFFICES ASSUME NEW x \in DOMAIN p[c].entries, NEW y \in DOMAIN p[c].entries, x < y
                 PROVE  p[c].entries[x].key < p[c].entries[y].key
    BY DEF KeysGoUp
  <2>2. x \in 1 .. last(c) - first(c) /\ y \in 1 .. last(c) - first(c)
    BY <1>2, <1>7
  <2>3. first(c) + x \in 1 .. Len(q) /\ first(c) + y \in 1 .. Len(q) /\ first(c) + x < first(c) + y
    BY <1>4, <2>1, <2>2
  <2>4. LastKey(q, first(c) + x) < LastKey(q, first(c) + y)
    BY <2>3 DEF LastsGoUp
  <2> QED
    BY <1>7, <2>2, <2>4
<1>9. LastsGoUp(p)
  <2>1. \A c \in 1 .. Len(p) : LastKey(p, c) \in Nat
    BY <1>4, <1>7 DEF LastsGoUp
  <2>2. \A c, d \in 1 .. Len(p) : c < d => LastKey(p, c) < LastKey(p, d)
    BY <1>4, <1>5, <1>7 DEF LastsGoUp
  <2> QED
    BY <2>1, <2>2 DEF LastsGoUp
<1>10. LastKey(p, Len(p)) = LastKey(q, Len(q))
  BY <1>3, <1>4, <1>7
<1> QED
  BY <1>2, <1>3, <1>4, <1>6, <1>7, <1>8, <1>9, <1>10 DEF p, first, last

\* The binary search of a node leads to the first child whose keys reach key.
LEMMA ChildIsFirst ==
  ASSUME NEW q, IsRound(q), LastsGoUp(q), NEW c \in 1 .. Len(ParentNodes(q)), NEW key \in Nat
  PROVE  LET p == ParentNodes(q)
             child == ChildFor(p[c].entries, key)
         IN  /\ LastKey(p, c) < key => child = NoChild
             /\ LastKey(p, c) >= key => \E x \in 1 .. Len(q) :
                  /\ child = q[x].file_offset
                  /\ FirstIn(p, c, key) => FirstIn(q, x, key)
<1> DEFINE p == ParentNodes(q)
           first(d) == (d - 1) * Fanout
           last(d)  == Smaller(d * Fanout, Len(q))
           entries == p[c].entries
           size == last(c) - first(c)
<1>1. Len(q) \in Nat \ {0} /\ \A i \in 1 .. Len(q) : LastKey(q, i) \in Nat
  BY DEF IsRound, LastsGoUp
<1>2. /\ Len(p) \in Nat \ {0}
      /\ \A d \in 1 .. Len(p) :
           /\ first(d) \in Nat /\ last(d) \in 1 .. Len(q) /\ first(d) < last(d)
           /\ d # 1 => first(d) = last(d - 1)
           /\ LastKey(p, d) = LastKey(q, last(d))
      /\ Len(entries) = size /\ DOMAIN entries = 1 .. Len(entries) /\ KeysGoUp(entries)
      /\ \A x \in 1 .. size :
           /\ first(c) + x \in 1 .. Len(q)
           /\ entries[x].key = LastKey(q, first(c) + x)
           /\ entries[x].key \in Nat
           /\ entries[x].value = q[first(c) + x].file_offset
  BY ParentKeys
<1>0. c \in 1 .. Len(p)
  OBVIOUS
<1> HIDE DEF p, first, last, entries
<1>3. size \in Nat \ {0} /\ Len(entries) \in Nat /\ \A x \in DOMAIN entries : entries[x].key \in Nat
  BY <1>0, <1>2
<1>4. /\ \A i \in DOMAIN entries :
               entries[i].key >= key /\ (i = 1 \/ entries[i - 1].key < key)
               => ChildFor(entries, key) = entries[i].value
      /\ (\A i \in DOMAIN entries : entries[i].key < key) => ChildFor(entries, key) = NoChild
  BY <1>2, <1>3, ChildForFinds
<1>5. size \in DOMAIN entries /\ entries[size].key = LastKey(p, c)
  <2>1. size \in 1 .. size /\ first(c) + size = last(c)
    BY <1>0, <1>2, <1>3
  <2> QED
    BY <1>0, <1>2, <2>1
<1>6. ASSUME LastKey(p, c) < key PROVE ChildFor(entries, key) = NoChild
  <2>1. ASSUME NEW i \in DOMAIN entries PROVE entries[i].key < key
    <3>1. i = size \/ i < size
      BY <1>0, <1>2, <1>3
    <3>2. i < size => entries[i].key < entries[size].key
      BY <1>2, <1>5 DEF KeysGoUp
    <3>3. entries[i].key \in Nat /\ entries[size].key \in Nat
      BY <1>3, <1>5
    <3> QED
      BY <1>5, <1>6, <3>1, <3>2, <3>3
  <2> QED
    BY <1>4, <2>1
<1>7. ASSUME LastKey(p, c) >= key
      PROVE  \E x \in 1 .. Len(q) : /\ ChildFor(entries, key) = q[x].file_offset
                                    /\ FirstIn(p, c, key) => FirstIn(q, x, key)
  <2> DEFINE T == {i \in 1 .. size : entries[i].key >= key}
  <2>1. size \in T /\ T \subseteq Nat
    BY <1>2, <1>5, <1>7
  <2>2. PICK i \in T : \A j \in T : i <= j
    <3> HIDE DEF T
    <3> QED
      BY <2>1, SmallestElement
  <2>3. i \in 1 .. size /\ i \in DOMAIN entries /\ entries[i].key >= key
    BY <1>2, <2>2
  <2>4. i = 1 \/ entries[i - 1].key < key
    <3>1. SUFFICES ASSUME i # 1 PROVE entries[i - 1].key < key
      OBVIOUS
    <3>2. i - 1 \in 1 .. size /\ ~ (i <= i - 1)
      BY <1>3, <2>3, <3>1
    <3>3. ~ (entries[i - 1].key >= key) /\ entries[i - 1].key \in Nat
      BY <1>2, <2>2, <3>2
    <3> QED
      BY <3>3
  <2> DEFINE x == first(c) + i
  <2>5. x \in 1 .. Len(q) /\ ChildFor(entries, key) = q[x].file_offset /\ LastKey(q, x) >= key
    BY <1>2, <1>4, <2>3, <2>4
  <2>6. ASSUME FirstIn(p, c, key), NEW j \in 1 .. x - 1 PROVE LastKey(q, j) < key
    <3>1. j \in 1 .. Len(q) /\ x - 1 \in 1 .. Len(q) /\ (j = x - 1 \/ j < x - 1)
      BY <1>1, <2>5
    <3>2. LastKey(q, x - 1) < key
      <4>1. CASE i = 1
        <5>1. x - 1 = first(c) /\ c # 1
          <6>1. first(c) # 0
            BY <1>2, <3>1, <4>1
          <6>2. first(1) = 0
            BY FanoutFact DEF first
          <6>3. x - 1 = first(c)
            <7>1. PICK a \in Nat : a = first(c)
              BY <1>0, <1>2
            <7>2. x = a + 1
              BY <4>1, <7>1
            <7> QED
              BY ONLY a \in Nat, <7>1, <7>2
          <6> QED
            BY <6>1, <6>2, <6>3
        <5>2. c - 1 \in 1 .. c - 1 /\ c - 1 \in 1 .. Len(p)
          <6>1. PICK l \in Nat : l = Len(p)
            BY <1>2
          <6>2. c \in 1 .. l /\ c # 1
            BY <1>0, <5>1, <6>1
          <6>3. c - 1 \in 1 .. c - 1 /\ c - 1 \in 1 .. l
            BY ONLY l \in Nat, <6>2
          <6> QED
            BY <6>1, <6>3
        <5>3. LastKey(p, c - 1) < key /\ LastKey(p, c - 1) = LastKey(q, first(c))
          BY <1>0, <1>2, <2>6, <5>1, <5>2 DEF FirstIn
        <5> QED
          BY <5>1, <5>3
      <4>2. CASE i # 1
        <5>1. i - 1 \in 1 .. size /\ first(c) + (i - 1) = x - 1
          <6>1. PICK a \in Nat, l \in Nat : a = first(c) /\ l = size
            BY <1>0, <1>2, <1>3
          <6>2. PICK e \in Nat : e = i /\ e # 1 /\ e >= 1 /\ e <= l
            BY <2>3, <4>2, <6>1
          <6>3. e - 1 \in 1 .. l /\ a + (e - 1) = a + e - 1 /\ x = a + e
            BY <6>1, <6>2
          <6> QED
            BY ONLY <6>1, <6>2, <6>3
        <5> QED
          BY <1>2, <2>4, <4>2, <5>1
      <4> QED
        BY <4>1, <4>2
    <3>3. j < x - 1 => LastKey(q, j) < LastKey(q, x - 1)
      BY <3>1 DEF LastsGoUp
    <3> QED
      BY <1>1, <3>1, <3>2, <3>3
  <2> HIDE DEF x
  <2> QED
    BY <2>5, <2>6 DEF FirstIn
<1> QED
  BY <1>6, <1>7 DEF p, entries

\* The descent from the root ends: a child is at a larger offset than its
\* parent.
LEMMA LeafForUnfolds ==
  ASSUME NEW file, Len(file) \in Nat \ {0}, NEW key,
         \A o \in 1 .. Len(file) :
           ~ file[o].is_leaf => ChildFor(file[o].entries, key) \in {NoChild} \cup (o + 1 .. Len(file))
  PROVE  \E d : /\ \A o \in 1 .. Len(file) :
                     d[o] = IF file[o].is_leaf THEN o ELSE d[ChildFor(file[o].entries, key)]
                /\ d[NoChild] = NoChild
                /\ LeafFor(file, key) = d[1]
<1> DEFINE D == 0 .. Len(file)
           m == [o \in D |-> IF o = 0 THEN 0 ELSE Len(file) + 1 - o]
           bound == Len(file) + 1
           End == {o \in D : o = NoChild \/ file[o].is_leaf}
           a == [o \in D |-> o]
           next == [o \in D |-> ChildFor(file[o].entries, key)]
           Body(f, o) == IF o = NoChild \/ file[o].is_leaf THEN o ELSE f[ChildFor(file[o].entries, key)]
           d == CHOOSE f : f = [o \in D |-> Body(f, o)]
<1>1. TailStep(next, D, m, End)
  <2>1. ASSUME NEW o \in D \ End PROVE next[o] \in Below(D, m, o)
    <3>1. o \in 1 .. Len(file) /\ ~ file[o].is_leaf
      BY DEF NoChild
    <3>2. next[o] = NoChild \/ next[o] \in o + 1 .. Len(file)
      BY <3>1
    <3>3. next[o] \in D /\ m[next[o]] < m[o]
      <4> DEFINE x == next[o]
      <4>1. x = 0 \/ x \in o + 1 .. Len(file)
        BY <3>2 DEF NoChild
      <4> HIDE DEF x
      <4>2. x \in D /\ m[x] < m[o]
        BY <3>1, <4>1
      <4> QED
        BY <4>2 DEF x
    <3> QED
      BY <3>3 DEF Below
  <2> QED
    BY <2>1 DEF TailStep
<1>2. m \in [D -> Nat] /\ bound \in Nat /\ \A o \in D : m[o] < bound
  OBVIOUS
<1>3. PICK f : f = [o \in D |-> IF o \in End THEN a[o] ELSE f[next[o]]]
  <2> HIDE DEF D, m, End, a, next, bound
  <2>1. /\ m \in [D -> Nat] /\ bound \in Nat /\ \A o \in D : m[o] < bound
        /\ TailStep(next, D, m, End)
    BY <1>1, <1>2
  <2> QED
    BY ONLY <2>1, TailRecursion
<1>4. f = [o \in D |-> Body(f, o)]
  <2>1. ASSUME NEW o \in D PROVE f[o] = Body(f, o)
    <3>1. f[o] = IF o \in End THEN a[o] ELSE f[next[o]]
      <4> HIDE DEF End, a, next
      <4> QED
        BY <1>3
    <3> QED
      BY <3>1
  <2>2. f = [o \in D |-> f[o]]
    <3> HIDE DEF D, End, a, next
    <3> QED
      BY <1>3
  <2> HIDE DEF D, Body
  <2> QED
    BY <2>1, <2>2
<1>5. d = [o \in D |-> Body(d, o)]
  <2> HIDE DEF D, Body
  <2> QED
    BY <1>4
<1>6. LeafFor(file, key) = d[1]
  <2>1. file # EmptyFile
    BY DEF EmptyFile
  <2> QED
    BY <2>1 DEF LeafFor
<1> HIDE DEF d
<1>7. 0 \in D /\ \A o \in 1 .. Len(file) : o \in D /\ o # 0
  OBVIOUS
<1>8. ASSUME NEW o \in 1 .. Len(file) PROVE d[o] = IF file[o].is_leaf THEN o ELSE d[ChildFor(file[o].entries, key)]
  <2>1. d[o] = Body(d, o)
    BY <1>5, <1>7
  <2> QED
    BY <1>7, <2>1 DEF NoChild
<1>9. d[NoChild] = NoChild
  <2>1. d[0] = Body(d, 0)
    BY <1>5, <1>7
  <2> QED
    BY <2>1 DEF NoChild
<1> QED
  BY <1>6, <1>8, <1>9

\* The largest keys of the leaves of a run.
LEMMA LeafKeys ==
  ASSUME NEW run \in Seq(Entry), run # <<>>, KeysGoUp(run)
  PROVE  LET n == CeilDiv(Len(run), MAX_KEYS)
             first(i) == (i - 1) * MAX_KEYS
             last(i)  == Smaller(i * MAX_KEYS, Len(run))
         IN  /\ n \in Nat \ {0}
             /\ \A x \in DOMAIN run : run[x].key \in Nat /\ x \in Nat
             /\ DOMAIN run = 1 .. Len(run)
             /\ \A i \in 1 .. n :
                  /\ first(i) \in Nat /\ last(i) \in DOMAIN run /\ first(i) < last(i)
                  /\ i # 1 => first(i) = last(i - 1)
                  /\ i = 1 => first(i) = 0
                  /\ i = n => last(i) = Len(run)
                  /\ LastOf(Chunk(run, i, MAX_KEYS)) = run[last(i)]
                  /\ Len(Chunk(run, i, MAX_KEYS)) = last(i) - first(i)
                  /\ DOMAIN Chunk(run, i, MAX_KEYS) = 1 .. Len(Chunk(run, i, MAX_KEYS))
                  /\ \A x \in 1 .. last(i) - first(i) :
                       Chunk(run, i, MAX_KEYS)[x] = run[first(i) + x] /\ first(i) + x \in DOMAIN run
                  /\ \A x \in DOMAIN Chunk(run, i, MAX_KEYS) : Chunk(run, i, MAX_KEYS)[x].key \in Nat
                  /\ KeysGoUp(Chunk(run, i, MAX_KEYS))
             /\ \A i, j \in 1 .. n : i < j => last(i) < last(j)
<1> DEFINE n == CeilDiv(Len(run), MAX_KEYS)
           first(i) == (i - 1) * MAX_KEYS
           last(i)  == Smaller(i * MAX_KEYS, Len(run))
           chunk(i) == Chunk(run, i, MAX_KEYS)
<1>1. Len(run) \in Nat \ {0} /\ MAX_KEYS \in Nat \ {0} /\ DOMAIN run = 1 .. Len(run)
  BY FanoutFact
<1>2. n \in Nat \ {0}
  BY <1>1, CeilDivFacts
<1>3. \A x \in DOMAIN run : run[x].key \in Nat /\ x \in Nat
  <2>1. \A x \in DOMAIN run : run[x] \in Entry
    OBVIOUS
  <2>2. \A e \in Entry : e.key \in Nat
    BY SentinelsTyped DEF Entry
  <2> QED
    BY <1>1, <2>1, <2>2
<1>4. ASSUME NEW i \in 1 .. n
      PROVE  /\ first(i) \in Nat /\ last(i) \in 1 .. Len(run) /\ first(i) < last(i)
             /\ chunk(i) \in Seq(Entry)
             /\ LastOf(chunk(i)) = run[last(i)]
             /\ Len(chunk(i)) = last(i) - first(i)
             /\ \A x \in 1 .. last(i) - first(i) : chunk(i)[x] = run[first(i) + x] /\ first(i) + x \in 1 .. Len(run)
             /\ i < n => last(i) = first(i) + MAX_KEYS
             /\ i = n => last(i) = Len(run)
  BY <1>1, ChunkFacts
<1>5. ASSUME NEW i \in 1 .. n, i # 1 PROVE first(i) = last(i - 1)
  <2>1. i - 1 \in 1 .. n /\ i - 1 < n
    BY <1>2, <1>5
  <2>2. last(i - 1) = first(i - 1) + MAX_KEYS
    BY <1>4, <2>1
  <2>3. first(i - 1) + MAX_KEYS = first(i)
    BY <1>1, <1>2
  <2> QED
    BY <2>2, <2>3
<1>6. first(1) = 0
  BY <1>1
<1>7. ASSUME NEW i \in 1 .. n, NEW j \in 1 .. n, i < j PROVE last(i) < last(j)
  <2>1. i * MAX_KEYS <= (j - 1) * MAX_KEYS
    BY <1>1, <1>2, <1>7
  <2>2. last(i) = first(i) + MAX_KEYS /\ first(j) < last(j)
    BY <1>2, <1>4, <1>7
  <2>3. first(i) + MAX_KEYS = i * MAX_KEYS
    BY <1>1, <1>2
  <2> HIDE DEF first, last, chunk
  <2>4. first(j) \in Nat /\ last(j) \in Nat /\ last(i) \in Nat
    BY <1>4
  <2>5. PICK a \in Nat, b \in Nat, c \in Nat, d \in Nat :
               a = last(i) /\ b = last(j) /\ c = first(j) /\ d = first(i)
    BY <1>4, <2>4
  <2>6. first(j) = (j - 1) * MAX_KEYS
    BY DEF first
  <2>7. a = i * MAX_KEYS /\ c = (j - 1) * MAX_KEYS /\ c < b
    BY <2>2, <2>3, <2>5, <2>6
  <2>8. a <= c
    BY <2>1, <2>7
  <2> QED
    BY ONLY a \in Nat, b \in Nat, c \in Nat, <2>5, <2>7, <2>8
<1> HIDE DEF n, first, last, chunk
<1>8. ASSUME NEW i \in 1 .. n
      PROVE  /\ DOMAIN chunk(i) = 1 .. Len(chunk(i))
             /\ \A x \in DOMAIN chunk(i) : chunk(i)[x].key \in Nat
             /\ KeysGoUp(chunk(i))
  <2>1. chunk(i) \in Seq(Entry) /\ Len(chunk(i)) = last(i) - first(i) /\ DOMAIN chunk(i) = 1 .. Len(chunk(i))
    BY <1>4
  <2>2. \A x \in DOMAIN chunk(i) : chunk(i)[x] = run[first(i) + x] /\ first(i) + x \in 1 .. Len(run)
    BY <1>4, <2>1
  <2>3. \A x, y \in DOMAIN chunk(i) : x < y => first(i) + x < first(i) + y
    BY <1>4, <2>1
  <2>4. KeysGoUp(chunk(i))
    BY <1>1, <2>2, <2>3 DEF KeysGoUp
  <2> QED
    BY <1>1, <1>3, <2>1, <2>2, <2>4
<1> QED
  BY <1>1, <1>2, <1>3, <1>4, <1>5, <1>6, <1>7, <1>8 DEF n, first, last, chunk

\* The largest keys of every round go up.
LEMMA AllRoundsGoUp ==
  ASSUME NEW run \in Seq(Entry), run # <<>>, KeysGoUp(run),
         NEW round, NEW height, RoundsOf(run, round, height)
  PROVE  \A h \in 0 .. height : LastsGoUp(round[h]) /\ LastKey(round[h], Len(round[h])) = LastOf(run).key
<1> DEFINE S == {h \in Nat : h <= height =>
                   LastsGoUp(round[h]) /\ LastKey(round[h], Len(round[h])) = LastOf(run).key}
           n == CeilDiv(Len(run), MAX_KEYS)
           last(i) == Smaller(i * MAX_KEYS, Len(run))
<1>0. height \in Nat \ {0}
  BY DEF RoundsOf
<1>1. 0 \in S
  <2>1. /\ Len(round[0]) = n
        /\ \A i \in 1 .. n : round[0][i].entries = Chunk(run, i, MAX_KEYS)
    BY RoundsStack
  <2>2. /\ n \in Nat \ {0}
        /\ \A x \in DOMAIN run : run[x].key \in Nat
        /\ \A i \in 1 .. n : /\ last(i) \in DOMAIN run
                             /\ LastOf(Chunk(run, i, MAX_KEYS)) = run[last(i)]
                             /\ i = n => last(i) = Len(run)
        /\ \A i, j \in 1 .. n : i < j => last(i) < last(j)
    BY LeafKeys
  <2> HIDE DEF n, last
  <2>3. \A i \in 1 .. n : LastKey(round[0], i) = run[last(i)].key
    BY <2>1, <2>2 DEF LastKey
  <2>4. LastsGoUp(round[0])
    BY <2>1, <2>2, <2>3 DEF LastsGoUp, KeysGoUp
  <2>5. LastKey(round[0], n) = LastOf(run).key
    BY <2>2, <2>3 DEF LastOf
  <2> QED
    BY <2>1, <2>4, <2>5
<1>2. ASSUME NEW h \in Nat, h \in S PROVE h + 1 \in S
  <2>1. SUFFICES ASSUME h + 1 <= height
        PROVE  LastsGoUp(round[h + 1]) /\ LastKey(round[h + 1], Len(round[h + 1])) = LastOf(run).key
    BY <1>0
  <2>2. h \in 0 .. height /\ h <= height /\ h + 1 \in 1 .. height /\ (h + 1) - 1 = h
    BY <1>0, <2>1
  <2>3. round[h + 1] = ParentNodes(round[h]) /\ IsRound(round[h])
    BY <2>2 DEF RoundsOf, RoundsFrom
  <2>4. LastsGoUp(round[h]) /\ LastKey(round[h], Len(round[h])) = LastOf(run).key
    BY <1>2, <2>2
  <2> QED
    BY <2>3, <2>4, ParentKeys
<1>3. Nat \subseteq S
  <2> HIDE DEF S
  <2> QED
    BY <1>1, <1>2, InductionOnNat
<1> QED
  BY <1>0, <1>3

\* The descent for a key ends in the first leaf whose keys reach it, and finds
\* no leaf when the key is past the last one.
LEMMA LeafForFinds ==
  ASSUME NEW run \in Seq(Entry), run # <<>>, KeysGoUp(run), NEW key \in Nat
  PROVE  LET file == BuildFile(run)
             n    == CeilDiv(Len(run), MAX_KEYS)
         IN  /\ LastOf(run).key < key => LeafFor(file, key) = NoChild
             /\ LastOf(run).key >= key =>
                  \E j \in 1 .. n : /\ LeafFor(file, key) = Len(file) - j + 1
                                    /\ LastOf(Chunk(run, j, MAX_KEYS)).key >= key
                                    /\ \A i \in 1 .. j - 1 : LastOf(Chunk(run, i, MAX_KEYS)).key < key
<1> DEFINE file == BuildFile(run)
           n == CeilDiv(Len(run), MAX_KEYS)
<1>1. PICK round : \E height : RoundsOf(run, round, height)
  BY RoundsUnfold
<1>2. PICK height : RoundsOf(run, round, height)
  BY <1>1
<1>3. /\ Stacked(round, height) /\ Len(round[0]) = n
      /\ \A i \in 1 .. Len(round[0]) : round[0][i].is_leaf /\ round[0][i].entries = Chunk(run, i, MAX_KEYS)
  BY <1>2, RoundsStack
<1>4. LaidOut(file, round, height)
  BY <1>2, FileLayout
<1>5. \A h \in 0 .. height : LastsGoUp(round[h]) /\ LastKey(round[h], Len(round[h])) = LastOf(run).key
  BY <1>2, AllRoundsGoUp
<1>6. height \in Nat \ {0} /\ 0 \in 0 .. height
  BY <1>2 DEF RoundsOf
<1> HIDE DEF file, n
<1>7. Len(file) = StartOf(round, 0) /\ Len(file) \in Nat \ {0}
  BY <1>3, <1>4, <1>6 DEF LaidOut, Stacked
<1>8. ASSUME NEW h \in 1 .. height, NEW c \in 1 .. Len(round[h])
      PROVE  LET o == round[h][c].file_offset
                 child == ChildFor(file[o].entries, key)
             IN  /\ ~ file[o].is_leaf /\ o \in 1 .. Len(file)
                 /\ LastKey(round[h], c) < key => child = NoChild
                 /\ LastKey(round[h], c) >= key => \E x \in 1 .. Len(round[h - 1]) :
                      /\ child = round[h - 1][x].file_offset
                      /\ child \in o + 1 .. Len(file)
                      /\ FirstIn(round[h], c, key) => FirstIn(round[h - 1], x, key)
  <2> DEFINE o == round[h][c].file_offset
             q == round[h - 1]
  <2>1. h - 1 \in 0 .. height /\ h \in 0 .. height
    BY <1>6
  <2>2. IsRound(q) /\ round[h] = ParentNodes(q) /\ LastsGoUp(q)
    BY <1>2, <1>5, <2>1 DEF RoundsOf, RoundsFrom
  <2>3. file[o] = PageWith(round[h][c]) /\ o = StartOf(round, h) - c + 1 /\ o \in 1 .. Len(file)
    BY <1>4, <2>1 DEF LaidOut
  <2>4. ~ round[h][c].is_leaf
    BY <2>2, ParentRound
  <2>5. ~ file[o].is_leaf /\ file[o].entries = round[h][c].entries
    BY <2>3, <2>4 DEF PageWith
  <2> HIDE DEF o
  <2>6. ASSUME NEW x \in 1 .. Len(q) PROVE q[x].file_offset \in o + 1 .. Len(file)
    <3>1. q[x].file_offset = StartOf(round, h - 1) - x + 1 /\ q[x].file_offset \in 1 .. Len(file)
      BY <1>4, <2>1 DEF LaidOut
    <3>2. /\ StartOf(round, h) = StartOf(round, h - 1) - Len(q)
          /\ StartOf(round, h - 1) \in Nat /\ Len(q) \in Nat /\ StartOf(round, h) \in Nat /\ Len(round[h]) \in Nat
      BY <1>3, <2>1 DEF Stacked
    <3>3. PICK a \in Nat, b \in Nat, l \in Nat, t \in Nat, r \in Nat, y \in Nat :
                 /\ a = StartOf(round, h - 1) /\ b = StartOf(round, h) /\ l = Len(q)
                 /\ t = Len(file) /\ r = Len(round[h]) /\ y = q[x].file_offset
      <4>1. StartOf(round, h - 1) \in Nat /\ StartOf(round, h) \in Nat /\ Len(q) \in Nat
            /\ Len(file) \in Nat /\ Len(round[h]) \in Nat
        BY <1>7, <3>2
      <4>2. q[x].file_offset \in Nat
        BY <3>1, <4>1
      <4> QED
        BY ONLY <4>1, <4>2
    <3>4. b = a - l /\ y = a - x + 1 /\ y \in 1 .. t /\ o = b - c + 1
      BY <2>3, <3>1, <3>2, <3>3
    <3>5. x \in 1 .. l /\ c \in 1 .. r
      BY <3>3
    <3>6. y \in o + 1 .. t
      <4>1. PICK u \in Nat, v \in Nat : u = x /\ v = c /\ u <= l /\ v >= 1
        BY ONLY l \in Nat, r \in Nat, <3>5
      <4>2. y \in Nat /\ y <= t /\ y = a - u + 1 /\ o = a - l - v + 1
        BY <3>4, <4>1
      <4> QED
        BY ONLY a \in Nat, l \in Nat, t \in Nat, u \in Nat, v \in Nat, <4>1, <4>2
    <3> QED
      BY <3>3, <3>6
  <2>7. LET child == ChildFor(round[h][c].entries, key)
        IN  /\ LastKey(round[h], c) < key => child = NoChild
            /\ LastKey(round[h], c) >= key => \E x \in 1 .. Len(q) :
                 /\ child = q[x].file_offset
                 /\ FirstIn(round[h], c, key) => FirstIn(q, x, key)
    BY <2>2, ChildIsFirst
  <2> HIDE DEF q
  <2>8. /\ LastKey(round[h], c) < key => ChildFor(file[o].entries, key) = NoChild
        /\ LastKey(round[h], c) >= key => \E x \in 1 .. Len(q) :
                      /\ ChildFor(file[o].entries, key) = q[x].file_offset
                      /\ ChildFor(file[o].entries, key) \in o + 1 .. Len(file)
                      /\ FirstIn(round[h], c, key) => FirstIn(q, x, key)
    BY <2>5, <2>6, <2>7
  <2> QED
    BY <2>3, <2>5, <2>8 DEF o, q
<1>9. ASSUME NEW i \in 1 .. n
      PROVE  /\ file[Len(file) - i + 1].is_leaf
             /\ round[0][i].file_offset = Len(file) - i + 1
             /\ Len(file) - i + 1 \in 1 .. Len(file)
             /\ LastKey(round[0], i) = LastOf(Chunk(run, i, MAX_KEYS)).key
  <2>1. /\ round[0][i].file_offset = Len(file) - i + 1 /\ round[0][i].file_offset \in 1 .. Len(file)
        /\ file[round[0][i].file_offset] = PageWith(round[0][i])
    BY <1>3, <1>4, <1>6, <1>7 DEF LaidOut
  <2>2. file[Len(file) - i + 1].is_leaf = round[0][i].is_leaf
    BY <2>1 DEF PageWith
  <2> QED
    BY <1>3, <2>1, <2>2 DEF LastKey
<1>10. ASSUME NEW o \in 1 .. Len(file), ~ file[o].is_leaf
       PROVE  ChildFor(file[o].entries, key) \in {NoChild} \cup (o + 1 .. Len(file))
  <2>1. PICK h \in 0 .. height : \E i \in 1 .. Len(round[h]) : round[h][i].file_offset = o
    BY <1>4 DEF LaidOut
  <2>2. PICK c \in 1 .. Len(round[h]) : round[h][c].file_offset = o
    BY <2>1
  <2>3. h # 0
    BY <1>3, <1>9, <1>10, <2>2
  <2>4. h \in 1 .. height
    BY <1>6, <2>3
  <2>5. LastKey(round[h], c) \in Nat
    BY <1>5 DEF LastsGoUp
  <2>6. LastKey(round[h], c) < key \/ LastKey(round[h], c) >= key
    BY <2>5
  <2> QED
    BY <1>8, <2>2, <2>4, <2>6
<1>11. PICK d : /\ \A o \in 1 .. Len(file) :
                     d[o] = IF file[o].is_leaf THEN o ELSE d[ChildFor(file[o].entries, key)]
                /\ d[NoChild] = NoChild
                /\ LeafFor(file, key) = d[1]
  BY <1>7, <1>10, LeafForUnfolds
<1>12. height \in 1 .. height /\ 1 \in 1 .. Len(round[height]) /\ Len(round[height]) = 1
       /\ round[height][1].file_offset = 1
  BY <1>2, <1>3, <1>6 DEF RoundsOf, Stacked, StartOf
<1>13. LastKey(round[height], 1) = LastOf(run).key /\ LastOf(run).key \in Nat
  <2>1. height \in 0 .. height
    BY <1>6
  <2> QED
    BY <1>5, <1>12, <2>1 DEF LastsGoUp
<1>14. ASSUME LastOf(run).key < key PROVE LeafFor(file, key) = NoChild
  BY <1>8, <1>11, <1>12, <1>13, <1>14
<1>15. ASSUME LastOf(run).key >= key
       PROVE  \E j \in 1 .. n : /\ LeafFor(file, key) = Len(file) - j + 1
                                /\ LastOf(Chunk(run, j, MAX_KEYS)).key >= key
                                /\ \A i \in 1 .. j - 1 : LastOf(Chunk(run, i, MAX_KEYS)).key < key
  <2> DEFINE Ends(v) == \E j \in 1 .. n : v = Len(file) - j + 1 /\ FirstIn(round[0], j, key)
             S == {h \in Nat : h <= height =>
                     \A i \in 1 .. Len(round[h]) : FirstIn(round[h], i, key) => Ends(d[round[h][i].file_offset])}
  <2>1. 0 \in S
    <3>1. ASSUME NEW i \in 1 .. Len(round[0]), FirstIn(round[0], i, key) PROVE Ends(d[round[0][i].file_offset])
      <4>1. i \in 1 .. n
        BY <1>3
      <4>2. d[round[0][i].file_offset] = Len(file) - i + 1
        BY <1>9, <1>11, <4>1
      <4> QED
        BY <3>1, <4>1, <4>2
    <3> HIDE DEF Ends
    <3> QED
      BY <3>1
  <2>2. ASSUME NEW h \in Nat, h \in S PROVE h + 1 \in S
    <3> HIDE DEF Ends
    <3>1. SUFFICES ASSUME h + 1 <= height, NEW c \in 1 .. Len(round[h + 1]), FirstIn(round[h + 1], c, key)
                   PROVE  Ends(d[round[h + 1][c].file_offset])
      BY <1>6
    <3>2. h + 1 \in 1 .. height /\ (h + 1) - 1 = h /\ h <= height
      BY <1>6, <3>1
    <3>3. LastKey(round[h + 1], c) >= key
      BY <3>1 DEF FirstIn
    <3>4. PICK x \in 1 .. Len(round[h]) :
                 /\ ChildFor(file[round[h + 1][c].file_offset].entries, key) = round[h][x].file_offset
                 /\ FirstIn(round[h], x, key)
      BY <1>8, <3>1, <3>2, <3>3
    <3>5. ~ file[round[h + 1][c].file_offset].is_leaf /\ round[h + 1][c].file_offset \in 1 .. Len(file)
      BY <1>8, <3>2
    <3>6. d[round[h + 1][c].file_offset] = d[round[h][x].file_offset]
      BY <1>11, <3>4, <3>5
    <3> QED
      BY <2>2, <3>2, <3>4, <3>6
  <2>3. Nat \subseteq S
    <3> HIDE DEF S
    <3> QED
      BY <2>1, <2>2, InductionOnNat
  <2>4. FirstIn(round[height], 1, key)
    BY <1>13, <1>15 DEF FirstIn
  <2>5. Ends(d[1])
    <3> HIDE DEF Ends
    <3> QED
      BY <1>6, <1>12, <2>3, <2>4
  <2>6. PICK j \in 1 .. n : d[1] = Len(file) - j + 1 /\ FirstIn(round[0], j, key)
    BY <2>5
  <2>7. \A i \in 1 .. j - 1 : i \in 1 .. n
    <3>1. n \in Nat
      BY <1>3, <1>6 DEF Stacked
    <3> QED
      BY <3>1
  <2>8. LeafFor(file, key) = Len(file) - j + 1
    BY <1>11, <2>6
  <2>9. LastKey(round[0], j) >= key /\ \A i \in 1 .. j - 1 : LastKey(round[0], i) < key
    BY <2>6 DEF FirstIn
  <2>10. LastOf(Chunk(run, j, MAX_KEYS)).key >= key
    BY <1>9, <2>9
  <2>11. ASSUME NEW i \in 1 .. j - 1 PROVE LastOf(Chunk(run, i, MAX_KEYS)).key < key
    <3>1. i \in 1 .. n /\ LastKey(round[0], i) < key
      BY <2>7, <2>9
    <3> QED
      BY <1>9, <3>1
  <2> QED
    BY <2>8, <2>10, <2>11
<1> QED
  BY <1>14, <1>15 DEF file, n

\* search_value_by_key (btree.cpp:138-214): in a file written from a run whose
\* keys go up, of any length and with pages of any size, every key of the run
\* is found with its value and no other key is found.
THEOREM SearchFinds ==
  ASSUME NEW run \in Seq(Entry), run # <<>>, KeysGoUp(run), NEW key \in Nat
  PROVE  /\ \A x \in DOMAIN run : run[x].key = key => SearchValueByKey(BuildFile(run), key) = run[x].value
         /\ (\A x \in DOMAIN run : run[x].key # key) => SearchValueByKey(BuildFile(run), key) = INVALID_VALUE
<1> DEFINE file == BuildFile(run)
           n == CeilDiv(Len(run), MAX_KEYS)
           first(i) == (i - 1) * MAX_KEYS
           last(i)  == Smaller(i * MAX_KEYS, Len(run))
           chunk(i) == Chunk(run, i, MAX_KEYS)
           leaf == LeafFor(file, key)
<1>1. /\ n \in Nat \ {0}
      /\ \A x \in DOMAIN run : run[x].key \in Nat /\ x \in Nat
      /\ DOMAIN run = 1 .. Len(run)
  BY LeafKeys
<1>2. ASSUME NEW i \in 1 .. n
      PROVE  /\ first(i) \in Nat /\ last(i) \in DOMAIN run /\ first(i) < last(i)
             /\ i # 1 => first(i) = last(i - 1)
             /\ i = 1 => first(i) = 0
             /\ LastOf(chunk(i)) = run[last(i)]
             /\ Len(chunk(i)) = last(i) - first(i)
             /\ DOMAIN chunk(i) = 1 .. Len(chunk(i))
             /\ \A x \in 1 .. last(i) - first(i) : chunk(i)[x] = run[first(i) + x] /\ first(i) + x \in DOMAIN run
             /\ \A x \in DOMAIN chunk(i) : chunk(i)[x].key \in Nat
             /\ KeysGoUp(chunk(i))
  BY LeafKeys
<1>3. /\ LastOf(run).key < key => leaf = NoChild
      /\ LastOf(run).key >= key =>
           \E j \in 1 .. n : /\ leaf = Len(file) - j + 1
                             /\ LastOf(chunk(j)).key >= key
                             /\ \A i \in 1 .. j - 1 : LastOf(chunk(i)).key < key
  BY LeafForFinds
<1>4. /\ Len(file) \in Nat /\ n \in 1 .. Len(file) - 1
      /\ \A i \in 1 .. n : file[Len(file) - i + 1].entries = chunk(i)
  BY FileLeaves
<1>5. SearchValueByKey(file, key) = IF leaf = NoChild THEN INVALID_VALUE ELSE LeafValue(file[leaf].entries, key)
  BY DEF SearchValueByKey
<1>6. Len(run) \in DOMAIN run /\ LastOf(run).key = run[Len(run)].key
  BY <1>1 DEF LastOf
<1> HIDE DEF file, n, first, last, chunk, leaf
<1>7. CASE LastOf(run).key < key
  <2>1. SearchValueByKey(file, key) = INVALID_VALUE
    BY <1>3, <1>5, <1>7
  <2>2. ASSUME NEW x \in DOMAIN run PROVE run[x].key # key
    <3>1. x = Len(run) \/ x < Len(run)
      BY <1>1
    <3>2. x < Len(run) => run[x].key < run[Len(run)].key
      BY <1>6 DEF KeysGoUp
    <3> QED
      BY <1>1, <1>6, <1>7, <3>1, <3>2
  <2> QED
    BY <2>1, <2>2 DEF file
<1>8. CASE LastOf(run).key >= key
  <2>1. PICK j \in 1 .. n : /\ leaf = Len(file) - j + 1
                            /\ LastOf(chunk(j)).key >= key
                            /\ \A i \in 1 .. j - 1 : LastOf(chunk(i)).key < key
    BY <1>3, <1>8
  <2>2. leaf # NoChild
    BY <1>1, <1>4, <2>1 DEF NoChild
  <2>3. SearchValueByKey(file, key) = LeafValue(chunk(j), key)
    BY <1>4, <1>5, <2>1, <2>2
  <2>4. Len(chunk(j)) \in Nat
    BY <1>1, <1>2
  <2>5. /\ \A x \in DOMAIN chunk(j) : chunk(j)[x].key = key => LeafValue(chunk(j), key) = chunk(j)[x].value
        /\ (\A x \in DOMAIN chunk(j) : chunk(j)[x].key # key) => LeafValue(chunk(j), key) = INVALID_VALUE
    BY <1>2, <2>4, LeafValueFinds
  <2>6. ASSUME NEW x \in DOMAIN run, run[x].key = key PROVE SearchValueByKey(file, key) = run[x].value
    <3>1. x <= last(j)
      <4>1. SUFFICES ASSUME last(j) < x PROVE FALSE
        BY <1>1, <1>2
      <4>2. run[last(j)].key < run[x].key
        BY <1>2, <4>1 DEF KeysGoUp
      <4>3. run[last(j)].key >= key /\ run[last(j)].key \in Nat
        BY <1>1, <1>2, <2>1
      <4> QED
        BY <2>6, <4>2, <4>3
    <3>2. first(j) < x
      <4>1. CASE j = 1
        BY <1>1, <1>2, <4>1
      <4>2. CASE j # 1
        <5>1. j - 1 \in 1 .. j - 1 /\ j - 1 \in 1 .. n
          BY <1>1, <4>2
        <5>2. run[first(j)].key < key /\ first(j) \in DOMAIN run
          BY <1>2, <2>1, <4>2, <5>1
        <5>3. SUFFICES ASSUME x <= first(j) PROVE FALSE
          BY <1>1, <1>2
        <5>4. x = first(j) \/ x < first(j)
          BY <1>1, <1>2, <5>3
        <5>5. x < first(j) => run[x].key < run[first(j)].key
          BY <5>2 DEF KeysGoUp
        <5>6. run[first(j)].key \in Nat
          BY <1>1, <5>2
        <5> QED
          BY <2>6, <5>2, <5>4, <5>5, <5>6
      <4> QED
        BY <4>1, <4>2
    <3>3. first(j) \in Nat /\ last(j) \in Nat /\ x \in Nat
      BY <1>1, <1>2
    <3>4. x - first(j) \in 1 .. last(j) - first(j) /\ first(j) + (x - first(j)) = x
      BY <3>1, <3>2, <3>3
    <3>5. chunk(j)[x - first(j)] = run[x] /\ x - first(j) \in DOMAIN chunk(j)
      BY <1>2, <3>4
    <3> QED
      BY <2>3, <2>5, <2>6, <3>5
  <2>7. ASSUME \A x \in DOMAIN run : run[x].key # key PROVE SearchValueByKey(file, key) = INVALID_VALUE
    <3>1. ASSUME NEW x \in DOMAIN chunk(j) PROVE chunk(j)[x].key # key
      <4>1. chunk(j)[x] = run[first(j) + x] /\ first(j) + x \in DOMAIN run
        BY <1>2
      <4> QED
        BY <2>7, <4>1
    <3> QED
      BY <2>3, <2>5, <3>1
  <2> QED
    BY <2>6, <2>7 DEF file
<1>9. LastOf(run).key \in Nat
  BY <1>1, <1>6
<1> QED
  BY <1>7, <1>8, <1>9

-----------------------------------------------------------------------------
(* Scanning a file                                                         *)

\* The entries of a scan.
Within(S, start_key, end_key) == {e \in S : start_key <= e.key /\ e.key <= end_key}

\* One iteration of the loop over the entries of a leaf.
KeptBody(f, entries, start_key, end_key, i) ==
  IF i > Len(entries) \/ i \in StopsIn(entries, start_key, end_key) THEN <<>>
  ELSE IF entries[i].key < start_key THEN f[i + 1]
  ELSE <<entries[i]>> \o f[i + 1]

\* The loop over the entries of a leaf ends.
LEMMA KeptFromUnfolds ==
  ASSUME NEW entries \in Seq(Entry), NEW start_key, NEW end_key
  PROVE  \E f \in [1 .. Len(entries) + 1 -> Seq(Entry)] :
           /\ \A i \in 1 .. Len(entries) + 1 : f[i] = KeptBody(f, entries, start_key, end_key, i)
           /\ KeptFrom(entries, start_key, end_key) = f[1]
<1> DEFINE D == 1 .. Len(entries) + 1
           m == [i \in D |-> Len(entries) + 1 - i]
           V == Seq(Entry)
           bound == Len(entries) + 2
           Body(f, i) == KeptBody(f, entries, start_key, end_key, i)
           Step == [i \in D |-> [g \in [Below(D, m, i) -> V] |-> Body(g, i)]]
           kept == CHOOSE f : f = [i \in D |-> Body(f, i)]
<1>1. m \in [D -> Nat] /\ bound \in Nat /\ \A i \in D : m[i] < bound
  OBVIOUS
<1>2. ASSUME NEW i \in D, i <= Len(entries)
      PROVE  i + 1 \in Below(D, m, i) /\ entries[i] \in Entry /\ ~ (i > Len(entries))
  BY <1>2 DEF Below
<1>3. ASSUME NEW i \in D, NEW g, \A j \in Below(D, m, i) : g[j] \in V PROVE Body(g, i) \in V
  <2>1. <<>> \in V
    OBVIOUS
  <2>2. i > Len(entries) => Body(g, i) \in V
    BY <2>1 DEF KeptBody
  <2>3. ASSUME i <= Len(entries) PROVE Body(g, i) \in V
    <3>1. g[i + 1] \in Seq(Entry) /\ entries[i] \in Entry
      BY <1>2, <1>3, <2>3
    <3>2. <<entries[i]>> \o g[i + 1] \in Seq(Entry)
      BY <3>1
    <3> QED
      BY <2>1, <3>1, <3>2 DEF KeptBody
  <2> QED
    BY <2>2, <2>3
<1>4. IsStep(Step, D, V, m)
  <2>1. ASSUME NEW i \in D, NEW g \in [Below(D, m, i) -> V] PROVE Step[i][g] \in V
    <3>1. Body(g, i) \in V
      <4> HIDE DEF Body
      <4> QED
        BY <1>3
    <3> QED
      BY <3>1
  <2> QED
    BY <2>1 DEF IsStep
<1>5. PICK f \in [D -> V] : Solves(f, Step, D, m)
  <2> HIDE DEF D, m, V, Step, bound
  <2> QED
    BY <1>1, <1>4, BoundedRecursion
<1>6. ASSUME NEW i \in D PROVE f[i] = Body(f, i)
  <2> DEFINE r == [j \in Below(D, m, i) |-> f[j]]
  <2>1. r \in [Below(D, m, i) -> V]
    BY DEF Below
  <2>2. f[i] = Body(r, i)
    BY <1>5, <2>1 DEF Solves
  <2>3. i <= Len(entries) => r[i + 1] = f[i + 1]
    BY <1>2
  <2> HIDE DEF r
  <2> QED
    BY <1>2, <2>2, <2>3 DEF KeptBody
<1>7. f = [i \in D |-> Body(f, i)]
  <2>1. f = [i \in D |-> f[i]]
    OBVIOUS
  <2> HIDE DEF D, Body
  <2> QED
    BY <1>6, <2>1
<1>8. kept = [i \in D |-> Body(kept, i)]
  <2> HIDE DEF D, Body
  <2> QED
    BY <1>7
<1>9. KeptFrom(entries, start_key, end_key) = kept[1]
  BY DEF KeptFrom, KeptBody
<1> HIDE DEF kept
<1>10. \A i \in D : kept[i] = Body(kept, i)
  <2> HIDE DEF D, Body
  <2> QED
    BY <1>8
<1>11. \A i \in D : kept[i] \in V
  <2> DEFINE S == {i \in D : kept[i] \in V}
  <2>1. ASSUME NEW i \in D, Below(D, m, i) \subseteq S PROVE kept[i] \in V
    <3>1. Body(kept, i) \in V
      <4> HIDE DEF Body, D, m, V
      <4> QED
        BY <1>3, <2>1
    <3> HIDE DEF Body
    <3> QED
      BY <1>10, <3>1
  <2>2. Progressive(S, D, m)
    BY <2>1 DEF Progressive
  <2>3. D \subseteq S
    <3> HIDE DEF D, S, m
    <3> QED
      BY <1>1, <2>2, MeasureInduction
  <2> QED
    BY <2>3
<1>12. kept \in [D -> V]
  <2> HIDE DEF D, Body, V
  <2> QED
    BY <1>8, <1>11
<1> QED
  BY <1>9, <1>10, <1>12

\* A leaf gives a scan the entries in range, in order.
LEMMA KeptFromKeeps ==
  ASSUME NEW entries \in Seq(Entry), KeysGoUp(entries), NEW start_key \in Nat, NEW end_key \in Nat
  PROVE  LET kept == KeptFrom(entries, start_key, end_key)
         IN  /\ kept \in Seq(Entry) /\ KeysGoUp(kept)
             /\ Contents(kept) = Within(Contents(entries), start_key, end_key)
<1> DEFINE D == 1 .. Len(entries) + 1
           m == [i \in D |-> Len(entries) + 1 - i]
           InRange(i) == Within(Suffix(entries, i), start_key, end_key)
           Good(s, i) == SortedApart({}, s) /\ Contents(s) = InRange(i)
<1>1. PICK f \in [D -> Seq(Entry)] :
           /\ \A i \in D : f[i] = KeptBody(f, entries, start_key, end_key, i)
           /\ KeptFrom(entries, start_key, end_key) = f[1]
  BY KeptFromUnfolds
<1>2. \A e \in Entry : e.key \in Nat
  BY SentinelsTyped DEF Entry
<1> DEFINE S == {i \in D : Good(f[i], i)}
<1>3. Contents(<<>>) = {} /\ SortedApart({}, <<>>)
  BY DEF Contents, SortedApart
<1>4. ASSUME NEW i \in D, Below(D, m, i) \subseteq S PROVE Good(f[i], i)
  <2>1. f[i] = KeptBody(f, entries, start_key, end_key, i)
    BY <1>1
  <2>2. CASE i > Len(entries)
    <3>1. f[i] = <<>>
      BY <2>1, <2>2 DEF KeptBody
    <3>2. Suffix(entries, i) = {}
      BY <2>2 DEF Suffix
    <3> QED
      BY <1>3, <3>1, <3>2 DEF Within
  <2>3. CASE i <= Len(entries)
    <3> DEFINE e == entries[i]
    <3>1. e \in Entry /\ e.key \in Nat /\ i + 1 \in Below(D, m, i) /\ i \in DOMAIN entries
      BY <1>2, <2>3 DEF Below
    <3>2. Good(f[i + 1], i + 1) /\ f[i + 1] \in Seq(Entry)
      BY <1>4, <3>1
    <3>3. \A d \in Suffix(entries, i + 1) : d.key > e.key /\ d \in Entry /\ d.key \in Nat
      <4>1. ASSUME NEW x \in i + 1 .. Len(entries) PROVE entries[x].key > e.key /\ entries[x] \in Entry
        BY <2>3 DEF KeysGoUp
      <4> QED
        BY <1>2, <4>1 DEF Suffix
    <3>4. Suffix(entries, i) = {e} \cup Suffix(entries, i + 1)
      <4>1. \A x \in i .. Len(entries) : x = i \/ x \in i + 1 .. Len(entries)
        OBVIOUS
      <4>2. \A x \in i + 1 .. Len(entries) : x \in i .. Len(entries)
        OBVIOUS
      <4>3. i \in i .. Len(entries)
        BY <2>3
      <4> QED
        BY <4>1, <4>2, <4>3 DEF Suffix
    <3> HIDE DEF e
    <3>5. CASE i \in StopsIn(entries, start_key, end_key)
      <4>1. e.key > end_key
        BY <3>5 DEF StopsIn, e
      <4>2. InRange(i) = {}
        <5>1. \A d \in Suffix(entries, i) : d.key > end_key
          BY <3>1, <3>3, <3>4, <4>1
        <5>2. \A d \in Suffix(entries, i) : d.key \in Nat
          BY <3>1, <3>3, <3>4
        <5> QED
          BY <5>1, <5>2 DEF Within
      <4>3. f[i] = <<>>
        BY <2>1, <3>5 DEF KeptBody
      <4> QED
        BY <1>3, <4>2, <4>3
    <3>6. CASE i \notin StopsIn(entries, start_key, end_key) /\ e.key < start_key
      <4>1. f[i] = f[i + 1]
        BY <2>1, <2>3, <3>6 DEF KeptBody, e
      <4>2. ~ (start_key <= e.key)
        BY <3>1, <3>6
      <4>3. InRange(i) = InRange(i + 1)
        BY <3>4, <4>2 DEF Within
      <4> QED
        BY <3>2, <4>1, <4>3
    <3>7. CASE i \notin StopsIn(entries, start_key, end_key) /\ ~ (e.key < start_key)
      <4>1. f[i] = <<e>> \o f[i + 1]
        BY <2>1, <2>3, <3>7 DEF KeptBody, e
      <4>2. start_key <= e.key /\ e.key <= end_key
        BY <3>1, <3>7 DEF StopsIn, e
      <4>3. InRange(i) = {e} \cup InRange(i + 1)
        BY <3>4, <4>2 DEF Within
      <4>4. AllAbove({}, e, Contents(f[i + 1]))
        BY <3>2, <3>3 DEF AllAbove, Within
      <4>5. Contents(f[i]) = {e} \cup Contents(f[i + 1]) /\ SortedApart({}, f[i])
        <5> DEFINE r == f[i + 1]
                   t == f[i]
        <5>1. r \in Seq(Entry) /\ SortedApart({}, r) /\ AllAbove({}, e, Contents(r)) /\ t = <<e>> \o r
          BY <3>2, <4>1, <4>4
        <5> HIDE DEF r, t
        <5>2. Contents(t) = {e} \cup Contents(r)
          BY <3>1, <5>1, ConsRun
        <5>3. SortedApart({}, t)
          BY <3>1, <5>1, ConsRun
        <5> QED
          BY <5>2, <5>3 DEF r, t
      <4> QED
        BY <3>2, <4>3, <4>5
    <3> QED
      BY <3>5, <3>6, <3>7
  <2> QED
    BY <2>2, <2>3
<1>5. D \subseteq S
  <2>1. Progressive(S, D, m)
    BY <1>4 DEF Progressive
  <2>2. m \in [D -> Nat]
    OBVIOUS
  <2> HIDE DEF D, m, S
  <2> QED
    BY <2>1, <2>2, MeasureInduction
<1>6. 1 \in D /\ Suffix(entries, 1) = Contents(entries)
  BY DEF Suffix, Contents
<1>7. f[1] \in Seq(Entry) /\ SortedApart({}, f[1]) /\ Contents(f[1]) = Within(Contents(entries), start_key, end_key)
  BY <1>5, <1>6
<1> QED
  BY <1>1, <1>7 DEF SortedApart, KeysGoUp

\* A scan from the leaf at an offset on.
CollectBody(f, file, start_key, end_key, offset) ==
  IF offset = 0 \/ ~ file[offset].is_leaf THEN <<>>
  ELSE KeptFrom(file[offset].entries, start_key, end_key) \o
       (IF StopsIn(file[offset].entries, start_key, end_key) # {} THEN <<>> ELSE f[offset - 1])

\* A scan ends: the next leaf is at the offset before.
LEMMA ScanUnfolds ==
  ASSUME NEW file, Len(file) \in Nat, NEW start_key, NEW end_key,
         \A o \in 1 .. Len(file) : file[o].is_leaf => file[o].entries \in Seq(Entry)
  PROVE  \E f \in [0 .. Len(file) -> Seq(Entry)] :
           /\ \A o \in 0 .. Len(file) : f[o] = CollectBody(f, file, start_key, end_key, o)
           /\ Scan(file, start_key, end_key) =
                IF LeafFor(file, start_key) = NoChild THEN <<>> ELSE f[LeafFor(file, start_key)]
<1> DEFINE D == 0 .. Len(file)
           m == [o \in D |-> o]
           V == Seq(Entry)
           bound == Len(file) + 1
           Body(f, o) == CollectBody(f, file, start_key, end_key, o)
           Step == [o \in D |-> [g \in [Below(D, m, o) -> V] |-> Body(g, o)]]
           collect == CHOOSE f : f = [o \in D |-> Body(f, o)]
<1>1. m \in [D -> Nat] /\ bound \in Nat /\ \A o \in D : m[o] < bound
  OBVIOUS
<1>2. ASSUME NEW o \in D, o # 0 PROVE o - 1 \in Below(D, m, o)
  BY <1>2 DEF Below
<1>3. ASSUME NEW o \in D, NEW g, \A j \in Below(D, m, o) : g[j] \in V PROVE Body(g, o) \in V
  <2>1. <<>> \in V
    OBVIOUS
  <2>2. CASE o = 0 \/ ~ file[o].is_leaf
    BY <2>1, <2>2 DEF CollectBody
  <2>3. CASE ~ (o = 0 \/ ~ file[o].is_leaf)
    <3> DEFINE kept == KeptFrom(file[o].entries, start_key, end_key)
    <3>1. file[o].entries \in Seq(Entry) /\ o # 0
      BY <2>3
    <3>2. kept \in V
      <4> DEFINE entries == file[o].entries
      <4> HIDE DEF entries
      <4>1. entries \in Seq(Entry) /\ 1 \in 1 .. Len(entries) + 1
        BY <3>1 DEF entries
      <4>2. PICK f \in [1 .. Len(entries) + 1 -> Seq(Entry)] :
                   KeptFrom(entries, start_key, end_key) = f[1]
        BY <4>1, KeptFromUnfolds
      <4>3. f[1] \in Seq(Entry)
        BY <4>1
      <4> QED
        BY <4>2, <4>3 DEF entries
    <3>3. g[o - 1] \in V
      BY <1>2, <1>3, <3>1
    <3> HIDE DEF kept
    <3>4. kept \o <<>> \in V /\ kept \o g[o - 1] \in V
      BY <3>2, <3>3
    <3> QED
      BY <2>3, <3>4 DEF CollectBody, kept
  <2> QED
    BY <2>2, <2>3
<1>4. IsStep(Step, D, V, m)
  <2>1. ASSUME NEW o \in D, NEW g \in [Below(D, m, o) -> V] PROVE Step[o][g] \in V
    <3>1. Body(g, o) \in V
      <4> HIDE DEF Body
      <4> QED
        BY <1>3
    <3> QED
      BY <3>1
  <2> QED
    BY <2>1 DEF IsStep
<1>5. PICK f \in [D -> V] : Solves(f, Step, D, m)
  <2> HIDE DEF D, m, V, Step, bound
  <2> QED
    BY <1>1, <1>4, BoundedRecursion
<1>6. ASSUME NEW o \in D PROVE f[o] = Body(f, o)
  <2> DEFINE r == [j \in Below(D, m, o) |-> f[j]]
  <2>1. r \in [Below(D, m, o) -> V]
    BY DEF Below
  <2>2. f[o] = Body(r, o)
    BY <1>5, <2>1 DEF Solves
  <2>3. o # 0 => r[o - 1] = f[o - 1]
    BY <1>2
  <2> HIDE DEF r
  <2> QED
    BY <2>2, <2>3 DEF CollectBody
<1>7. f = [o \in D |-> Body(f, o)]
  <2>1. f = [o \in D |-> f[o]]
    OBVIOUS
  <2> HIDE DEF D, Body
  <2> QED
    BY <1>6, <2>1
<1>8. collect = [o \in D |-> Body(collect, o)]
  <2> HIDE DEF D, Body
  <2> QED
    BY <1>7
<1>9. Scan(file, start_key, end_key) =
        IF LeafFor(file, start_key) = NoChild THEN <<>> ELSE collect[LeafFor(file, start_key)]
  BY DEF Scan, CollectBody
<1> HIDE DEF collect
<1>10. \A o \in D : collect[o] = Body(collect, o)
  <2> HIDE DEF D, Body
  <2> QED
    BY <1>8
<1>11. \A o \in D : collect[o] \in V
  <2> DEFINE S == {o \in D : collect[o] \in V}
  <2>1. ASSUME NEW o \in D, Below(D, m, o) \subseteq S PROVE collect[o] \in V
    <3>1. Body(collect, o) \in V
      <4> HIDE DEF Body, D, m, V
      <4> QED
        BY <1>3, <2>1
    <3> HIDE DEF Body
    <3> QED
      BY <1>10, <3>1
  <2>2. Progressive(S, D, m)
    BY <2>1 DEF Progressive
  <2>3. D \subseteq S
    <3> HIDE DEF D, S, m
    <3> QED
      BY <1>1, <2>2, MeasureInduction
  <2> QED
    BY <2>3
<1>12. collect \in [D -> V]
  <2> HIDE DEF D, Body, V
  <2> QED
    BY <1>8, <1>11
<1> QED
  BY <1>9, <1>10, <1>12

\* Two runs, one after the other.
LEMMA ConcatRuns ==
  ASSUME NEW a \in Seq(Entry), NEW b \in Seq(Entry), KeysGoUp(a), KeysGoUp(b),
         \A d \in Contents(a), e \in Contents(b) : d.key < e.key
  PROVE  /\ a \o b \in Seq(Entry) /\ KeysGoUp(a \o b)
         /\ Contents(a \o b) = Contents(a) \cup Contents(b)
<1> DEFINE s == a \o b
<1>1. /\ s \in Seq(Entry) /\ Len(a) \in Nat /\ Len(b) \in Nat
      /\ DOMAIN a = 1 .. Len(a) /\ DOMAIN b = 1 .. Len(b) /\ DOMAIN s = 1 .. Len(a) + Len(b)
      /\ \A x \in 1 .. Len(a) : s[x] = a[x]
      /\ \A x \in 1 .. Len(b) : s[Len(a) + x] = b[x]
  OBVIOUS
<1> HIDE DEF s
<1>2. \A x \in DOMAIN s : \/ x \in DOMAIN a /\ s[x] = a[x]
                          \/ x - Len(a) \in DOMAIN b /\ s[x] = b[x - Len(a)] /\ x > Len(a)
  <2>1. ASSUME NEW x \in DOMAIN s, x > Len(a) PROVE x - Len(a) \in DOMAIN b /\ s[x] = b[x - Len(a)]
    <3>1. x - Len(a) \in 1 .. Len(b) /\ Len(a) + (x - Len(a)) = x
      BY <1>1, <2>1
    <3> QED
      BY <1>1, <3>1
  <2> QED
    BY <1>1, <2>1
<1>3. Contents(s) = Contents(a) \cup Contents(b)
  <2>1. \A x \in DOMAIN a : x \in DOMAIN s /\ s[x] = a[x]
    BY <1>1
  <2>2. \A x \in DOMAIN b : Len(a) + x \in DOMAIN s /\ s[Len(a) + x] = b[x]
    BY <1>1
  <2>3. \A e \in Contents(s) : e \in Contents(a) \cup Contents(b)
    BY <1>2 DEF Contents
  <2>4. \A e \in Contents(a) : e \in Contents(s)
    BY <2>1 DEF Contents
  <2>5. \A e \in Contents(b) : e \in Contents(s)
    BY <2>2 DEF Contents
  <2> QED
    BY <2>3, <2>4, <2>5
<1>4. ASSUME NEW i \in DOMAIN s, NEW j \in DOMAIN s, i < j PROVE s[i].key < s[j].key
  <2>1. CASE j \in DOMAIN a
    <3>1. i \in DOMAIN a
      BY <1>1, <1>4, <2>1
    <3> QED
      BY <1>1, <1>4, <2>1, <3>1 DEF KeysGoUp
  <2>2. CASE j \notin DOMAIN a
    <3>1. j - Len(a) \in DOMAIN b /\ s[j] = b[j - Len(a)]
      BY <1>2, <2>2
    <3>2. CASE i \in DOMAIN a
      <4>1. s[i] \in Contents(a) /\ s[j] \in Contents(b)
        BY <1>1, <3>1, <3>2 DEF Contents
      <4> QED
        BY <4>1
    <3>3. CASE i \notin DOMAIN a
      <4>1. i - Len(a) \in DOMAIN b /\ s[i] = b[i - Len(a)] /\ i - Len(a) < j - Len(a)
        BY <1>1, <1>2, <1>4, <3>3
      <4> QED
        BY <3>1, <4>1 DEF KeysGoUp
    <3> QED
      BY <3>2, <3>3
  <2> QED
    BY <2>1, <2>2
<1> QED
  BY <1>1, <1>3, <1>4 DEF KeysGoUp, s

\* A scan of a file (btree.cpp:434-488) returns the entries of its run between
\* the two keys, all of them and no others, in key order.
THEOREM ScanFinds ==
  ASSUME NEW run \in Seq(Entry), run # <<>>, KeysGoUp(run),
         NEW start_key \in Nat, NEW end_key \in Nat
  PROVE  LET found == Scan(BuildFile(run), start_key, end_key)
         IN  /\ found \in Seq(Entry) /\ KeysGoUp(found)
             /\ Contents(found) = Within(Contents(run), start_key, end_key)
<1> DEFINE file == BuildFile(run)
           n == CeilDiv(Len(run), MAX_KEYS)
           first(i) == (i - 1) * MAX_KEYS
           last(i)  == Smaller(i * MAX_KEYS, Len(run))
           chunk(i) == Chunk(run, i, MAX_KEYS)
           leaf == LeafFor(file, start_key)
           Ranged(S) == Within(S, start_key, end_key)
<1>1. /\ n \in Nat \ {0}
      /\ \A x \in DOMAIN run : run[x].key \in Nat /\ x \in Nat
      /\ DOMAIN run = 1 .. Len(run) /\ Len(run) \in Nat
  BY LeafKeys
<1>2. ASSUME NEW i \in 1 .. n
      PROVE  /\ first(i) \in Nat /\ last(i) \in DOMAIN run /\ first(i) < last(i)
             /\ i # 1 => first(i) = last(i - 1)
             /\ i = 1 => first(i) = 0
             /\ i = n => last(i) = Len(run)
             /\ LastOf(chunk(i)) = run[last(i)]
             /\ Len(chunk(i)) = last(i) - first(i)
             /\ DOMAIN chunk(i) = 1 .. Len(chunk(i))
             /\ \A x \in 1 .. last(i) - first(i) : chunk(i)[x] = run[first(i) + x] /\ first(i) + x \in DOMAIN run
             /\ KeysGoUp(chunk(i))
  BY LeafKeys
<1>3. /\ LastOf(run).key < start_key => leaf = NoChild
      /\ LastOf(run).key >= start_key =>
           \E j \in 1 .. n : /\ leaf = Len(file) - j + 1
                             /\ LastOf(chunk(j)).key >= start_key
                             /\ \A i \in 1 .. j - 1 : LastOf(chunk(i)).key < start_key
  BY LeafForFinds
<1>4. /\ Len(file) \in Nat /\ n \in 1 .. Len(file) - 1
      /\ \A i \in 1 .. n : file[Len(file) - i + 1].is_leaf /\ file[Len(file) - i + 1].entries = chunk(i)
      /\ \A o \in 1 .. Len(file) - n : ~ file[o].is_leaf
  BY FileLeaves
<1>5. ASSUME NEW i \in 1 .. n PROVE chunk(i) \in Seq(Entry)
  BY FanoutFact, ChunkFacts
<1>6. Len(run) \in DOMAIN run /\ LastOf(run).key = run[Len(run)].key
  BY <1>1 DEF LastOf
<1> HIDE DEF file, n, first, last, chunk, leaf, Ranged
<1>7. ASSUME NEW o \in 1 .. Len(file), file[o].is_leaf PROVE file[o].entries \in Seq(Entry)
  <2>1. ~ (o \in 1 .. Len(file) - n)
    BY <1>4, <1>7
  <2>2. Len(file) - o + 1 \in 1 .. n /\ Len(file) - (Len(file) - o + 1) + 1 = o
    BY <1>1, <1>4, <2>1
  <2> QED
    BY <1>4, <1>5, <2>2
<1>8. PICK collect \in [0 .. Len(file) -> Seq(Entry)] :
           /\ \A o \in 0 .. Len(file) : collect[o] = CollectBody(collect, file, start_key, end_key, o)
           /\ Scan(file, start_key, end_key) = IF leaf = NoChild THEN <<>> ELSE collect[leaf]
  BY <1>4, <1>7, ScanUnfolds DEF leaf
<1>9. /\ <<>> \in Seq(Entry) /\ KeysGoUp(<<>>) /\ Contents(<<>>) = {} /\ Ranged({}) = {}
      /\ \A S, T : Ranged(S \cup T) = Ranged(S) \cup Ranged(T) /\ Ranged(S) \subseteq S
  BY DEF KeysGoUp, Contents, Ranged, Within
<1> DEFINE Good(s, S) == KeysGoUp(s) /\ Contents(s) = Ranged(S)
<1>10. ASSUME NEW i \in 1 .. n, NEW s \in Seq(Entry), Good(s, Suffix(run, last(i) + 1)),
              collect[Len(file) - i] = s
       PROVE  Good(collect[Len(file) - i + 1], Suffix(run, first(i) + 1))
  <2> DEFINE kept == KeptFrom(chunk(i), start_key, end_key)
             rest == Suffix(run, last(i) + 1)
             here == Contents(chunk(i))
             o == Len(file) - i + 1
  <2>1. /\ o \in 0 .. Len(file) /\ o # 0 /\ o - 1 = Len(file) - i
        /\ file[o].is_leaf /\ file[o].entries = chunk(i)
    BY <1>1, <1>4
  <2>2. collect[o] = kept \o (IF StopsIn(chunk(i), start_key, end_key) # {} THEN <<>> ELSE s)
    <3>1. collect[o] = CollectBody(collect, file, start_key, end_key, o)
      BY <1>8, <2>1
    <3> HIDE DEF o
    <3> QED
      BY <1>10, <2>1, <3>1 DEF CollectBody
  <2>3. kept \in Seq(Entry) /\ Good(kept, here)
    BY <1>2, <1>5, KeptFromKeeps DEF Ranged
  <2>4. \A e \in here : \E x \in first(i) + 1 .. last(i) : e = run[x]
    <3>0. first(i) \in Nat /\ last(i) \in Nat /\ DOMAIN chunk(i) = 1 .. last(i) - first(i)
      BY <1>1, <1>2
    <3>1. \A x \in DOMAIN chunk(i) : chunk(i)[x] = run[first(i) + x] /\ first(i) + x \in first(i) + 1 .. last(i)
      BY <1>2, <3>0
    <3> QED
      BY <3>1 DEF Contents
  <2>5. \A x \in first(i) + 1 .. last(i) : run[x] \in here
    <3>1. ASSUME NEW x \in first(i) + 1 .. last(i) PROVE run[x] \in here
      <4>1. x - first(i) \in 1 .. last(i) - first(i) /\ first(i) + (x - first(i)) = x
        <5>1. PICK a \in Nat, b \in Nat : a = first(i) /\ b = last(i)
          BY <1>1, <1>2
        <5>2. x \in a + 1 .. b
          BY <5>1
        <5>3. x - a \in 1 .. b - a /\ a + (x - a) = x
          BY ONLY <5>2
        <5> QED
          BY <5>1, <5>3
      <4>2. x - first(i) \in DOMAIN chunk(i) /\ chunk(i)[x - first(i)] = run[x]
        BY <1>2, <4>1
      <4> QED
        BY <4>2 DEF Contents
    <3> QED
      BY <3>1
  <2>6. Suffix(run, first(i) + 1) = here \cup rest
    <3>1. first(i) \in Nat /\ last(i) \in Nat /\ first(i) < last(i) /\ last(i) <= Len(run) /\ Len(run) \in Nat
      BY <1>1, <1>2
    <3>2. \A x \in first(i) + 1 .. Len(run) : x \in first(i) + 1 .. last(i) \/ x \in last(i) + 1 .. Len(run)
      BY <3>1
    <3>3. \A x \in first(i) + 1 .. last(i) : x \in first(i) + 1 .. Len(run)
      BY <3>1
    <3>4. \A x \in last(i) + 1 .. Len(run) : x \in first(i) + 1 .. Len(run)
      BY <3>1
    <3> HIDE DEF here
    <3>5. \A e \in Suffix(run, first(i) + 1) : e \in here \cup rest
      BY <2>5, <3>2 DEF Suffix
    <3>6. \A e \in here : e \in Suffix(run, first(i) + 1)
      BY <2>4, <3>3 DEF Suffix
    <3>7. \A e \in rest : e \in Suffix(run, first(i) + 1)
      BY <3>4 DEF Suffix
    <3> QED
      BY <3>5, <3>6, <3>7
  <2>7. ASSUME NEW d \in here, NEW e \in rest PROVE d.key < e.key /\ d.key \in Nat /\ e.key \in Nat
    <3>1. PICK x \in first(i) + 1 .. last(i) : d = run[x]
      BY <2>4
    <3>2. PICK y \in last(i) + 1 .. Len(run) : e = run[y]
      BY DEF Suffix
    <3>3. x \in DOMAIN run /\ y \in DOMAIN run /\ x < y
      <4>1. PICK a \in Nat, b \in Nat, l \in Nat : a = first(i) /\ b = last(i) /\ l = Len(run)
        <5>1. last(i) \in 1 .. Len(run) /\ first(i) \in Nat
          BY <1>2
        <5>0. Len(run) \in Nat
          BY <1>1
        <5>2. last(i) \in Nat
          BY ONLY <5>0, <5>1
        <5> QED
          BY ONLY <5>0, <5>1, <5>2
      <4>2. x \in a + 1 .. b /\ y \in b + 1 .. l /\ b <= l
        BY <1>1, <1>2, <4>1
      <4>3. x \in 1 .. l /\ y \in 1 .. l /\ x < y
        BY ONLY a \in Nat, b \in Nat, l \in Nat, <4>2
      <4> QED
        BY <4>1, <4>3
    <3> QED
      BY <1>1, <3>1, <3>2, <3>3 DEF KeysGoUp
  <2> HIDE DEF here, rest, kept, o
  <2>8. CASE StopsIn(chunk(i), start_key, end_key) # {}
    <3>1. PICK x \in DOMAIN chunk(i) : chunk(i)[x].key > end_key
      BY <2>8 DEF StopsIn
    <3>2. chunk(i)[x] \in here
      BY DEF Contents, here
    <3>3. \A e \in rest : ~ (e.key <= end_key)
      BY <2>7, <3>1, <3>2
    <3>4. Ranged(rest) = {}
      BY <3>3 DEF Ranged, Within
    <3>5. collect[o] = kept
      BY <2>2, <2>3, <2>8
    <3>6. Ranged(here \cup rest) = Ranged(here)
      BY <3>3 DEF Ranged, Within
    <3>7. Good(kept, here \cup rest)
      BY <2>3, <3>6
    <3> QED
      BY <2>6, <3>5, <3>7 DEF o
  <2>9. CASE ~ (StopsIn(chunk(i), start_key, end_key) # {})
    <3>1. collect[o] = kept \o s
      BY <2>2, <2>9
    <3>2. Contents(s) = Ranged(rest) /\ KeysGoUp(s)
      BY <1>10 DEF rest
    <3>3. \A d \in Contents(kept), e \in Contents(s) : d.key < e.key
      BY <1>9, <2>3, <2>7, <3>2
    <3>4. KeysGoUp(kept \o s) /\ Contents(kept \o s) = Contents(kept) \cup Contents(s)
      BY <2>3, <3>2, <3>3, ConcatRuns
    <3>5. Contents(kept \o s) = Ranged(here \cup rest)
      BY <1>9, <2>3, <3>2, <3>4
    <3> QED
      BY <2>6, <3>1, <3>4, <3>5 DEF o
  <2> QED
    BY <2>8, <2>9
<1>11. ASSUME NEW i \in 1 .. n PROVE Good(collect[Len(file) - i + 1], Suffix(run, first(i) + 1))
  <2> HIDE DEF Good
  <2> DEFINE S == {d \in Nat : d < n => Good(collect[Len(file) - (n - d) + 1], Suffix(run, first(n - d) + 1))}
  <2>1. 0 \in S
    <3>1. Len(file) - n \in 0 .. Len(file) /\ Len(file) - n \in 1 .. Len(file) - n /\ n \in 1 .. n /\ n - 0 = n
      BY <1>1, <1>4
    <3>2. collect[Len(file) - n] = <<>>
      <4>1. collect[Len(file) - n] = CollectBody(collect, file, start_key, end_key, Len(file) - n)
        BY <1>8, <3>1
      <4>2. ~ file[Len(file) - n].is_leaf
        BY <1>4, <3>1
      <4> QED
        BY <4>1, <4>2 DEF CollectBody
    <3>3. Suffix(run, last(n) + 1) = {}
      <4>1. last(n) = Len(run)
        BY <1>2, <3>1
      <4> QED
        BY <1>1, <4>1 DEF Suffix
    <3>4. Good(<<>>, Suffix(run, last(n) + 1))
      BY <1>9, <3>3 DEF Good
    <3> QED
      BY <1>9, <1>10, <3>1, <3>2, <3>4
  <2>2. ASSUME NEW d \in Nat, d \in S PROVE d + 1 \in S
    <3>1. SUFFICES ASSUME d + 1 < n
                   PROVE  Good(collect[Len(file) - (n - (d + 1)) + 1], Suffix(run, first(n - (d + 1)) + 1))
      BY <1>1
    <3> DEFINE k == n - (d + 1)
    <3>2. /\ k \in 1 .. n /\ k + 1 \in 1 .. n /\ k + 1 # 1 /\ (k + 1) - 1 = k /\ n - d = k + 1 /\ d < n
          /\ Len(file) - (k + 1) + 1 = Len(file) - k /\ Len(file) - k \in 0 .. Len(file)
      BY <1>1, <1>4, <3>1
    <3> HIDE DEF k
    <3>3. first(k + 1) = last(k)
      BY <1>2, <3>2
    <3>4. Good(collect[Len(file) - (n - d) + 1], Suffix(run, first(n - d) + 1))
      BY <2>2, <3>2
    <3>5. Good(collect[Len(file) - k], Suffix(run, last(k) + 1))
      BY <3>2, <3>3, <3>4
    <3>6. collect[Len(file) - k] \in Seq(Entry)
      BY <3>2
    <3>7. Good(collect[Len(file) - k + 1], Suffix(run, first(k) + 1))
      BY <1>10, <3>2, <3>5, <3>6
    <3> QED
      BY <3>7 DEF k
  <2>3. Nat \subseteq S
    <3> HIDE DEF S
    <3> QED
      BY <2>1, <2>2, InductionOnNat
  <2>4. n - i \in Nat /\ n - i < n /\ n - (n - i) = i
    BY <1>1
  <2>5. n - i \in S
    BY <2>3, <2>4
  <2> QED
    BY <2>4, <2>5
<1>12. CASE LastOf(run).key < start_key
  <2>1. Scan(file, start_key, end_key) = <<>>
    BY <1>3, <1>8, <1>12
  <2>2. ASSUME NEW x \in DOMAIN run PROVE ~ (start_key <= run[x].key)
    <3>1. x = Len(run) \/ x < Len(run)
      BY <1>1
    <3>2. x < Len(run) => run[x].key < run[Len(run)].key
      BY <1>6 DEF KeysGoUp
    <3> QED
      BY <1>1, <1>6, <1>12, <3>1, <3>2
  <2>3. Ranged(Contents(run)) = {}
    BY <2>2 DEF Ranged, Within, Contents
  <2> QED
    BY <1>9, <2>1, <2>3 DEF file, Ranged
<1>13. CASE LastOf(run).key >= start_key
  <2>1. PICK j \in 1 .. n : /\ leaf = Len(file) - j + 1
                            /\ \A i \in 1 .. j - 1 : LastOf(chunk(i)).key < start_key
    BY <1>3, <1>13
  <2>2. leaf # NoChild /\ leaf \in 0 .. Len(file)
    BY <1>1, <1>4, <2>1 DEF NoChild
  <2>3. Scan(file, start_key, end_key) = collect[leaf] /\ collect[leaf] \in Seq(Entry)
    BY <1>8, <2>2
  <2>4. Good(collect[leaf], Suffix(run, first(j) + 1))
    BY <1>11, <2>1
  <2>5. ASSUME NEW x \in DOMAIN run, x <= first(j) PROVE ~ (start_key <= run[x].key)
    <3>1. j # 1
      BY <1>1, <1>2, <2>5
    <3>2. j - 1 \in 1 .. j - 1 /\ j - 1 \in 1 .. n
      BY <1>1, <3>1
    <3>3. run[first(j)].key < start_key /\ first(j) \in DOMAIN run
      BY <1>2, <2>1, <3>1, <3>2
    <3>4. x = first(j) \/ x < first(j)
      BY <1>1, <1>2, <2>5
    <3>5. x < first(j) => run[x].key < run[first(j)].key
      BY <3>3 DEF KeysGoUp
    <3> QED
      BY <1>1, <3>3, <3>4, <3>5
  <2>6. Ranged(Contents(run)) = Ranged(Suffix(run, first(j) + 1))
    <3>1. first(j) \in Nat
      BY <1>2
    <3>2. \A x \in first(j) + 1 .. Len(run) : x \in DOMAIN run
      BY <1>1, <3>1
    <3>3. \A x \in DOMAIN run : x <= first(j) \/ x \in first(j) + 1 .. Len(run)
      BY <1>1, <3>1
    <3>4. \A e \in Suffix(run, first(j) + 1) : e \in Contents(run)
      BY <3>2 DEF Suffix, Contents
    <3>5. \A e \in Contents(run) : start_key <= e.key => e \in Suffix(run, first(j) + 1)
      BY <2>5, <3>3 DEF Suffix, Contents
    <3> QED
      BY <3>4, <3>5 DEF Ranged, Within
  <2> QED
    BY <2>3, <2>4, <2>6 DEF file, Ranged
<1>14. LastOf(run).key \in Nat
  BY <1>1, <1>6
<1> QED
  BY <1>12, <1>13, <1>14

-----------------------------------------------------------------------------
(* The run of a memtable                                                   *)

\* How many elements of S are smaller than x.
Rank(S) == [x \in S |-> Cardinality({y \in S : y < x})]

\* The ranks of a finite set of numbers are 0, 1, ... up to its size.
LEMMA RankFacts ==
  ASSUME NEW S, S \subseteq Nat, IsFiniteSet(S)
  PROVE  /\ Cardinality(S) \in Nat
         /\ Rank(S) \in [S -> 0 .. Cardinality(S) - 1]
         /\ \A x, z \in S : x < z => Rank(S)[x] < Rank(S)[z]
         /\ \A i \in 0 .. Cardinality(S) - 1 : \E x \in S : Rank(S)[x] = i
<1> DEFINE below(x) == {y \in S : y < x}
           n == Cardinality(S)
           T == 0 .. n - 1
<1>1. n \in Nat
  BY FS_CardinalityType
<1>2. ASSUME NEW x \in S
      PROVE  IsFiniteSet(below(x)) /\ Cardinality(below(x)) \in Nat /\ Cardinality(below(x)) < n
  <2>1. IsFiniteSet(below(x)) /\ Cardinality(below(x)) <= n /\ (n = Cardinality(below(x)) => S = below(x))
    <3>1. below(x) \in SUBSET S
      OBVIOUS
    <3> HIDE DEF below
    <3> QED
      BY <3>1, FS_Subset
  <2>2. Cardinality(below(x)) \in Nat
    <3> HIDE DEF below
    <3> QED
      BY <2>1, FS_CardinalityType
  <2>3. x \notin below(x) /\ x \in S
    OBVIOUS
  <2> HIDE DEF below
  <2> QED
    BY <1>1, <2>1, <2>2, <2>3
<1>3. \A x \in S : Rank(S)[x] = Cardinality(below(x))
  BY DEF Rank
<1>4. ASSUME NEW x \in S, NEW z \in S, x < z PROVE Rank(S)[x] < Rank(S)[z]
  <2>1. below(x) \in SUBSET below(z) /\ x \in below(z) /\ x \notin below(x)
    <3>1. \A y \in S : y \in Nat /\ ~ (y < y) /\ (y < x => y < z)
      BY <1>4
    <3> QED
      BY <1>4, <3>1
  <2> HIDE DEF below
  <2>2. Cardinality(below(x)) <= Cardinality(below(z)) /\ Cardinality(below(z)) # Cardinality(below(x))
    BY <1>2, <2>1, FS_Subset
  <2> QED
    BY <1>2, <1>3, <2>2
<1> HIDE DEF below, n
<1>5. Rank(S) \in [S -> T]
  <2>1. \A x \in S : Rank(S)[x] \in T
    BY <1>1, <1>2, <1>3
  <2> QED
    BY <2>1 DEF Rank
<1>6. ASSUME NEW x \in S, NEW z \in S, Rank(S)[x] = Rank(S)[z] PROVE x = z
  <2>1. Rank(S)[x] \in Nat /\ Rank(S)[z] \in Nat
    BY <1>2, <1>3
  <2>2. ~ (x < z) /\ ~ (z < x)
    BY <1>4, <1>6, <2>1
  <2> QED
    BY <2>2
<1>7. Rank(S) \in Surjection(S, T)
  <2>1. Rank(S) \in Injection(S, T)
    BY <1>5, <1>6 DEF Injection, IsInjective
  <2>2. IsFiniteSet(T) /\ Cardinality(T) = n
    <3>1. 0 \in Int /\ n - 1 \in Int
      BY <1>1
    <3>2. IsFiniteSet(T) /\ Cardinality(T) = IF 0 > n - 1 THEN 0 ELSE (n - 1) - 0 + 1
      BY <3>1, FS_Interval
    <3> QED
      BY <1>1, <3>2
  <2> HIDE DEF T
  <2> QED
    BY <2>1, <2>2, FS_Injection DEF n
<1>8. \A i \in T : \E x \in S : Rank(S)[x] = i
  BY <1>7 DEF Surjection
<1> QED
  BY <1>1, <1>4, <1>5, <1>8 DEF n

\* extract_leaf_nodes_from_avl (btree.cpp:16-37): the run of a memtable has its
\* pairs and no others, in strict key order.
THEOREM SortedRunSorts ==
  ASSUME NEW m, IsFiniteSet(DOMAIN m), DOMAIN m \subseteq 0 .. INVALID_VALUE,
         \A k \in DOMAIN m : m[k] \in 0 .. INVALID_VALUE
  PROVE  LET run == SortedRun(m)
         IN  /\ run \in Seq(Entry) /\ KeysGoUp(run)
             /\ Contents(run) = {[key |-> k, value |-> m[k]] : k \in DOMAIN m}
             /\ DOMAIN m # {} => run # <<>>
<1> DEFINE S == DOMAIN m
           n == Cardinality(S)
           at(i) == CHOOSE x \in S : Cardinality({y \in S : y < x}) = i - 1
           run == SortedRun(m)
           Pr(k) == [key |-> k, value |-> m[k]]
<1>1. S \subseteq Nat
  BY SentinelsTyped
<1>2. /\ n \in Nat
      /\ Rank(S) \in [S -> 0 .. n - 1]
      /\ \A x, z \in S : x < z => Rank(S)[x] < Rank(S)[z]
      /\ \A i \in 0 .. n - 1 : \E x \in S : Rank(S)[x] = i
  BY <1>1, RankFacts
<1>3. \A x \in S : Rank(S)[x] = Cardinality({y \in S : y < x})
  BY DEF Rank
<1>4. run = [i \in 1 .. n |-> Pr(at(i))]
  BY DEF SortedRun
<1> HIDE DEF S, n, run
<1>5. ASSUME NEW i \in 1 .. n PROVE at(i) \in S /\ Rank(S)[at(i)] = i - 1
  <2>1. i - 1 \in 0 .. n - 1
    BY <1>2
  <2>2. \E x \in S : Cardinality({y \in S : y < x}) = i - 1
    BY <1>2, <1>3, <2>1
  <2>3. at(i) \in S /\ Cardinality({y \in S : y < at(i)}) = i - 1
    BY <2>2
  <2> HIDE DEF at
  <2> QED
    BY <1>3, <2>3
<1>6. ASSUME NEW x \in S, NEW z \in S, Rank(S)[x] = Rank(S)[z] PROVE x = z
  <2>1. Rank(S)[x] \in Nat /\ Rank(S)[z] \in Nat
    BY <1>2
  <2>2. ~ (x < z) /\ ~ (z < x) /\ x \in Nat /\ z \in Nat
    BY <1>1, <1>2, <1>6, <2>1
  <2> QED
    BY <2>2
<1> HIDE DEF at
<1>7. ASSUME NEW i \in 1 .. n PROVE run[i] = Pr(at(i)) /\ run[i] \in Entry /\ run[i].key = at(i)
  <2>1. run[i] = Pr(at(i))
    BY <1>4
  <2>2. at(i) \in 0 .. INVALID_VALUE /\ m[at(i)] \in 0 .. INVALID_VALUE
    BY <1>5 DEF S
  <2> QED
    BY <2>1, <2>2 DEF Entry
<1>8. run \in Seq(Entry) /\ DOMAIN run = 1 .. n /\ Len(run) = n
  <2>1. DOMAIN run = 1 .. n /\ run = [i \in 1 .. n |-> run[i]]
    BY <1>4
  <2>2. \A i \in 1 .. n : run[i] \in Entry
    BY <1>7
  <2> QED
    BY <1>2, <2>1, <2>2
<1>9. ASSUME NEW i \in 1 .. n, NEW j \in 1 .. n, i < j PROVE run[i].key < run[j].key
  <2>1. at(i) \in S /\ at(j) \in S /\ Rank(S)[at(i)] = i - 1 /\ Rank(S)[at(j)] = j - 1
    BY <1>5
  <2>2. at(i) # at(j) /\ ~ (at(j) < at(i))
    <3>1. i - 1 # j - 1 /\ ~ (j - 1 < i - 1)
      BY <1>2, <1>9
    <3> QED
      BY <1>2, <2>1, <3>1
  <2>3. at(i) \in Nat /\ at(j) \in Nat
    BY <1>1, <2>1
  <2> QED
    <3>1. at(i) < at(j)
      BY <2>2, <2>3
    <3>2. run[i].key = at(i) /\ run[j].key = at(j)
      BY <1>7
    <3> QED
      BY <3>1, <3>2
<1>10. Contents(run) = {Pr(k) : k \in S}
  <2>1. ASSUME NEW k \in S PROVE \E i \in 1 .. n : run[i] = Pr(k)
    <3>1. Rank(S)[k] \in 0 .. n - 1
      BY <1>2
    <3>2. Rank(S)[k] + 1 \in 1 .. n /\ (Rank(S)[k] + 1) - 1 = Rank(S)[k]
      BY <1>2, <3>1
    <3>3. at(Rank(S)[k] + 1) = k
      BY <1>5, <1>6, <3>2
    <3> QED
      BY <1>7, <3>2, <3>3
  <2>2. \A i \in 1 .. n : \E k \in S : run[i] = Pr(k)
    BY <1>5, <1>7
  <2> HIDE DEF Pr
  <2>3. \A e \in Contents(run) : e \in {Pr(k) : k \in S}
    BY <1>8, <2>2 DEF Contents
  <2>4. \A e \in {Pr(k) : k \in S} : e \in Contents(run)
    BY <1>8, <2>1 DEF Contents
  <2> QED
    BY <2>3, <2>4
<1>11. S # {} => run # <<>>
  <2>1. SUFFICES ASSUME NEW k \in S PROVE n # 0
    BY <1>8
  <2> QED
    BY <1>2, <2>1
<1> QED
  BY <1>8, <1>9, <1>10, <1>11 DEF KeysGoUp, S, run
=============================================================================
