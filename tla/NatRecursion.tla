---------------------------- MODULE NatRecursion ----------------------------
(***************************************************************************)
(* Recursive functions over data: induction along a measure, and the       *)
(* existence of the function that a recursive definition chooses.          *)
(*                                                                         *)
(* A predicate to prove by induction is given as the set of the elements   *)
(* that satisfy it, so that no lemma takes an operator as a parameter.     *)
(***************************************************************************)
EXTENDS Integers, WellFoundedInduction, TLAPS

\* A set of natural numbers that is not empty has a smallest element.
LEMMA SmallestElement ==
  ASSUME NEW T, T \subseteq Nat, T # {}
  PROVE  \E x \in T : \A y \in T : x <= y
<1>1. IsWellFoundedOn(OpToRel(<, Nat), Nat)
  BY NatLessThanWellFounded
<1>2. PICK x \in T : \A y \in T : ~ (<<y, x>> \in OpToRel(<, Nat))
  BY <1>1, WFMin
<1>3. \A a, b \in Nat : a < b => <<a, b>> \in OpToRel(<, Nat)
  BY DEF OpToRel
<1>4. ASSUME NEW y \in T PROVE x <= y
  <2>1. x \in Nat /\ y \in Nat
    OBVIOUS
  <2>2. ~ (y < x)
    BY <2>1, <1>2, <1>3
  <2> QED
    BY <2>1, <2>2
<1> QED
  BY <1>4

\* Induction over the natural numbers, with a set for the predicate.
LEMMA InductionOnNat ==
  ASSUME NEW S, 0 \in S, \A n \in Nat : n \in S => n + 1 \in S
  PROVE  Nat \subseteq S
<1> DEFINE missing == Nat \ S
<1> SUFFICES ASSUME missing # {} PROVE FALSE
  OBVIOUS
<1>1. PICK x \in missing : \A y \in missing : x <= y
  <2>1. missing \subseteq Nat
    OBVIOUS
  <2> QED
    BY <2>1, SmallestElement
<1>2. x \in Nat /\ x \notin S /\ x # 0
  OBVIOUS
<1>3. x - 1 \in Nat /\ ~ (x <= x - 1) /\ (x - 1) + 1 = x
  BY <1>2
<1>4. x - 1 \in S
  BY <1>1, <1>3
<1> QED
  BY <1>2, <1>3, <1>4

\* The elements of D that the measure m puts below x.
Below(D, m, x) == {y \in D : m[y] < m[x]}

\* S has every element of D once it has those below it.
Progressive(S, D, m) == \A x \in D : Below(D, m, x) \subseteq S => x \in S

\* Induction over the elements of D along a measure: what the proofs about
\* the recursive functions of the model use.
LEMMA MeasureInduction ==
  ASSUME NEW D, NEW m \in [D -> Nat], NEW S, Progressive(S, D, m)
  PROVE  D \subseteq S
<1> DEFINE missing == {m[x] : x \in D \ S}
<1> SUFFICES ASSUME missing # {} PROVE FALSE
  OBVIOUS
<1>1. missing \subseteq Nat
  OBVIOUS
<1>2. PICK least \in missing : \A n \in missing : least <= n
  <2> HIDE DEF missing
  <2> QED
    BY <1>1, SmallestElement
<1>3. PICK x \in D \ S : m[x] = least
  BY <1>2
<1>4. ASSUME NEW y \in Below(D, m, x) PROVE y \in S
  <2>1. y \in D /\ m[y] \in Nat /\ m[x] \in Nat /\ m[y] < m[x]
    BY DEF Below
  <2>2. m[y] \notin missing
    BY <1>2, <1>3, <2>1
  <2> QED
    BY <2>1, <2>2
<1>5. Below(D, m, x) \subseteq S
  BY <1>4
<1> QED
  BY <1>3, <1>5 DEF Progressive

\* Step[x][g] is the value of a recursive function at x, g being its values
\* below x.
IsStep(Step, D, V, m) ==
  \A x \in D : \A g \in [Below(D, m, x) -> V] : Step[x][g] \in V

\* f is a solution of the recursion with these steps.
Solves(f, Step, D, m) ==
  \A x \in D : f[x] = Step[x][[y \in Below(D, m, x) |-> f[y]]]

\* A recursion whose measure goes down, and has a bound, has a solution: the
\* CHOOSE behind a recursive function of the model picks a function.
LEMMA BoundedRecursion ==
  ASSUME NEW D, NEW V, NEW m \in [D -> Nat], NEW bound \in Nat, \A x \in D : m[x] < bound,
         NEW Step, IsStep(Step, D, V, m)
  PROVE  \E f \in [D -> V] : Solves(f, Step, D, m)
<1> USE DEF IsStep, Solves
<1> DEFINE Upto(n)  == {x \in D : m[x] < n}
           Good(f, n) == \A x \in Upto(n) : f[x] = Step[x][[y \in Below(D, m, x) |-> f[y]]]
           S == {n \in Nat : \E f \in [Upto(n) -> V] : Good(f, n)}
<1>1. 0 \in S
  <2>1. Upto(0) = {}
    OBVIOUS
  <2>2. [x \in {} |-> 0] \in [Upto(0) -> V] /\ Good([x \in {} |-> 0], 0)
    BY <2>1
  <2> QED
    BY <2>2
<1>2. ASSUME NEW n \in Nat, n \in S PROVE n + 1 \in S
  <2>1. PICK f \in [Upto(n) -> V] : Good(f, n)
    BY <1>2
  <2> DEFINE g == [x \in Upto(n + 1) |->
                     IF m[x] < n THEN f[x] ELSE Step[x][[y \in Below(D, m, x) |-> f[y]]]]
  <2>2. ASSUME NEW x \in Upto(n + 1)
        PROVE  /\ Below(D, m, x) \subseteq Upto(n)
               /\ Below(D, m, x) \subseteq Upto(n + 1)
               /\ [y \in Below(D, m, x) |-> f[y]] = [y \in Below(D, m, x) |-> g[y]]
               /\ [y \in Below(D, m, x) |-> f[y]] \in [Below(D, m, x) -> V]
    <3>1. m[x] \in Nat /\ \A y \in D : m[y] \in Nat
      OBVIOUS
    <3>2. Below(D, m, x) \subseteq Upto(n) /\ Below(D, m, x) \subseteq Upto(n + 1)
      BY <3>1 DEF Below
    <3>3. \A y \in Below(D, m, x) : g[y] = f[y]
      BY <3>2
    <3> QED
      BY <3>2, <3>3
  <2>3. g \in [Upto(n + 1) -> V]
    <3>1. ASSUME NEW x \in Upto(n + 1) PROVE g[x] \in V
      <4>1. CASE m[x] < n
        BY <4>1
      <4>2. CASE ~ (m[x] < n)
        <5>1. [y \in Below(D, m, x) |-> f[y]] \in [Below(D, m, x) -> V]
          BY <2>2
        <5> QED
          BY <5>1, <4>2
      <4> QED
        BY <4>1, <4>2
    <3> QED
      BY <3>1
  <2>4. Good(g, n + 1)
    <3>1. ASSUME NEW x \in Upto(n + 1)
          PROVE  g[x] = Step[x][[y \in Below(D, m, x) |-> g[y]]]
      <4>1. g[x] = Step[x][[y \in Below(D, m, x) |-> f[y]]]
        <5>1. CASE m[x] < n
          BY <5>1, <2>1
        <5> QED
          BY <5>1
      <4> QED
        BY <4>1, <2>2
    <3> HIDE DEF g
    <3> QED
      BY <3>1
  <2>5. \E h \in [Upto(n + 1) -> V] : Good(h, n + 1)
    <3> HIDE DEF g, Upto, Good
    <3> QED
      BY <2>3, <2>4
  <2>6. n + 1 \in Nat
    OBVIOUS
  <2> QED
    BY <2>5, <2>6
<1>3. bound \in S
  <2> HIDE DEF S
  <2> QED
    BY <1>1, <1>2, InductionOnNat
<1>4. Upto(bound) = D
  OBVIOUS
<1> QED
  BY <1>3, <1>4

\* A tail recursion ends in End and otherwise goes on at next[x], below x.
TailStep(next, D, m, End) == \A x \in D \ End : next[x] \in Below(D, m, x)

\* A tail recursion, such as a loop of the program, has a solution.
LEMMA TailRecursion ==
  ASSUME NEW D, NEW m \in [D -> Nat], NEW bound \in Nat, \A x \in D : m[x] < bound,
         NEW End, NEW a, NEW next, TailStep(next, D, m, End)
  PROVE  \E f : f = [x \in D |-> IF x \in End THEN a[x] ELSE f[next[x]]]
<1> DEFINE V == {a[x] : x \in D}
           Step == [x \in D |-> [g \in [Below(D, m, x) -> V] |->
                                   IF x \in End THEN a[x] ELSE g[next[x]]]]
<1>1. IsStep(Step, D, V, m)
  <2>1. ASSUME NEW x \in D, NEW g \in [Below(D, m, x) -> V] PROVE Step[x][g] \in V
    <3>1. CASE x \in End
      BY <3>1
    <3>2. CASE x \notin End
      <4>1. next[x] \in Below(D, m, x)
        BY <3>2 DEF TailStep
      <4>2. g[next[x]] \in V
        BY <4>1
      <4>3. Step[x][g] = g[next[x]]
        BY <3>2
      <4> QED
        BY <4>2, <4>3
    <3> QED
      BY <3>1, <3>2
  <2> QED
    BY <2>1 DEF IsStep
<1>2. PICK f \in [D -> V] : Solves(f, Step, D, m)
  <2> HIDE DEF V, Step
  <2> QED
    BY <1>1, BoundedRecursion
<1>3. ASSUME NEW x \in D PROVE f[x] = IF x \in End THEN a[x] ELSE f[next[x]]
  <2> DEFINE r == [y \in Below(D, m, x) |-> f[y]]
  <2>1. r \in [Below(D, m, x) -> V]
    BY DEF Below
  <2>2. f[x] = Step[x][r]
    BY <1>2 DEF Solves
  <2>3. f[x] = IF x \in End THEN a[x] ELSE r[next[x]]
    BY <2>1, <2>2
  <2>4. CASE x \in End
    BY <2>3, <2>4
  <2>5. CASE x \notin End
    <3>1. next[x] \in Below(D, m, x)
      BY <2>5 DEF TailStep
    <3>2. r[next[x]] = f[next[x]]
      BY <3>1
    <3> HIDE DEF r
    <3> QED
      BY <2>3, <2>5, <3>2
  <2> QED
    BY <2>4, <2>5
<1>4. f = [x \in D |-> IF x \in End THEN a[x] ELSE f[next[x]]]
  BY <1>3
<1> QED
  BY <1>4
=============================================================================
