------------------------------- MODULE NatFacts -------------------------------
(***************************************************************************)
(* Induction over the natural numbers, for proofs about what is defined by *)
(* recursion.  The principle is stated of sets, in which form the provers  *)
(* can use it; it is derived from finite sets being well-founded.          *)
(***************************************************************************)
EXTENDS Integers, FiniteSetTheorems, TLAPS

\* Every set of natural numbers that has an element has a least one.
LEMMA LeastNumber ==
  ASSUME NEW S \in SUBSET Nat, S # {}
  PROVE  \E m \in S : \A k \in S : m <= k
<1>. DEFINE T == {0..k : k \in S}
            R == StrictSubsetOrdering(Nat)
            F == FiniteSubsetsOf(Nat)
<1>1. IsWellFoundedOn(R, F)
  BY FS_StrictSubsetOrderingWellFounded
<1>2. \A k \in S : IsFiniteSet(0..k)
  BY FS_Interval
<1>3. T \subseteq F /\ T # {}
  <2>1. ASSUME NEW k \in S PROVE 0..k \in F
    <3>1. 0..k \in SUBSET Nat
      OBVIOUS
    <3>. QED BY <3>1, <1>2 DEF FiniteSubsetsOf
  <2>. HIDE DEF F
  <2>. QED BY <2>1
<1>4. \E x \in T : \A y \in T : <<y, x>> \notin R
  <2>. HIDE DEF T, R, F
  <2>. QED BY <1>1, <1>3, WFMin
<1>5. PICK m \in S : \A k \in S : <<0..k, 0..m>> \notin R
  BY <1>4
<1>6. \A k \in S : k < m => <<0..k, 0..m>> \in R
  BY DEF StrictSubsetOrdering
<1>. HIDE DEF T, R, F
<1>7. ASSUME NEW k \in S PROVE m <= k
  <2>1. ~(k < m)
    BY <1>5, <1>6
  <2>2. k \in Nat /\ m \in Nat
    OBVIOUS
  <2>. QED BY <2>1, <2>2
<1>. QED BY <1>7

\* What holds of a number if it holds of all smaller ones holds of all.
LEMMA SetInduction ==
  ASSUME NEW n \in Nat, NEW S \in SUBSET (0..n),
         \A m \in 0..n : 0..(m - 1) \subseteq S => m \in S
  PROVE  S = 0..n
<1>. SUFFICES ASSUME (0..n) \ S # {} PROVE FALSE
  OBVIOUS
<1>1. PICK m \in (0..n) \ S : \A k \in (0..n) \ S : m <= k
  <2>1. (0..n) \ S \in SUBSET Nat
    OBVIOUS
  <2>. QED BY <2>1, LeastNumber
<1>2. 0..(m - 1) \subseteq S
  BY <1>1
<1>. QED BY <1>1, <1>2

\* Below n, next leads from every number outside Stop to a smaller one.
Descends(n, Stop, next) == \A m \in 0..n : m \notin Stop => next[m] \in 0..(m - 1)
\* f climbs by next until it is in Stop, and is what `here` says there.
ClimbsTo(n, Stop, next, here, f) ==
  \A m \in 0..n : f[m] = IF m \in Stop THEN here[m] ELSE f[next[m]]

\* A function that is defined at a number either directly or by its value at a
\* smaller one exists: the recursion that climbs from a node to its parent.
LEMMA ClimbDefined ==
  ASSUME NEW n \in Nat, NEW Stop, NEW next, NEW V, NEW here \in [0..n -> V],
         Descends(n, Stop, next)
  PROVE  \E f \in [0..n -> V] : ClimbsTo(n, Stop, next, here, f)
<1>. USE DEF Descends, ClimbsTo
<1>. DEFINE Climbs(m, g) == \A k \in 0..m : g[k] = IF k \in Stop THEN here[k] ELSE g[next[k]]
            S == {m \in 0..n : \E g \in [0..m -> V] : Climbs(m, g)}
<1>1. ASSUME NEW m \in 0..n, 0..(m - 1) \subseteq S PROVE m \in S
  <2>1. CASE m = 0
    <3>1. 0 \in Stop /\ here[0] \in V
      BY <2>1
    <3>2. Climbs(0, [k \in 0..0 |-> here[0]])
      BY <3>1
    <3>. QED BY <2>1, <3>1, <3>2
  <2>2. CASE m # 0
    <3>1. m - 1 \in S
      <4>1. m - 1 \in 0..(m - 1)
        BY <2>2
      <4>. HIDE DEF S
      <4>. QED BY <4>1, <1>1
    <3>2. PICK g \in [0..(m - 1) -> V] : Climbs(m - 1, g)
      BY <3>1
    <3>. DEFINE top == IF m \in Stop THEN here[m] ELSE g[next[m]]
                h == [k \in 0..m |-> IF k = m THEN top ELSE g[k]]
    <3>3. top \in V
      OBVIOUS
    <3>4. h \in [0..m -> V]
      BY <3>3
    <3>5. ASSUME NEW k \in 0..m
          PROVE  h[k] = IF k \in Stop THEN here[k] ELSE h[next[k]]
      <4>1. CASE k = m
        <5>1. m \notin Stop => next[m] \in 0..m /\ next[m] # m
          OBVIOUS
        <5>. QED BY <4>1, <5>1
      <4>2. CASE k # m
        <5>1. k \in 0..(m - 1)
          BY <4>2
        <5>2. g[k] = IF k \in Stop THEN here[k] ELSE g[next[k]]
          BY <3>2, <5>1
        <5>3. k \notin Stop => next[k] \in 0..m /\ next[k] # m
          BY <5>1
        <5>. QED BY <4>2, <5>2, <5>3
      <4>. QED BY <4>1, <4>2
    <3>. HIDE DEF h
    <3>6. Climbs(m, h)
      BY <3>4, <3>5
    <3>. QED BY <3>4, <3>6
  <2>. QED BY <2>1, <2>2
<1>2. n \in S
  <2>1. S \in SUBSET (0..n)
    OBVIOUS
  <2>. HIDE DEF S
  <2>2. S = 0..n
    BY <1>1, <2>1, SetInduction
  <2>. QED BY <2>2
<1>. QED BY <1>2

\* f repeats the step `next` n times.
Iterates(n, first, next, f) == f[0] = first /\ \A k \in 1..n : f[k] = next[f[k - 1]]

\* A function that is defined at 0 and at every other number by its value at the
\* number before exists: the recursion that repeats a step.
LEMMA IterationDefined ==
  ASSUME NEW n \in Nat, NEW V, NEW next \in [V -> V], NEW first \in V
  PROVE  \E f \in [0..n -> V] : Iterates(n, first, next, f)
<1>. USE DEF Iterates
<1>. DEFINE S == {m \in 0..n : \E f \in [0..m -> V] : Iterates(m, first, next, f)}
<1>1. ASSUME NEW m \in 0..n, 0..(m - 1) \subseteq S PROVE m \in S
  <2>1. CASE m = 0
    <3>. DEFINE f == [k \in 0..0 |-> first]
    <3>1. f \in [0..0 -> V] /\ Iterates(0, first, next, f)
      OBVIOUS
    <3>. HIDE DEF f
    <3>. QED BY <2>1, <3>1
  <2>2. CASE m # 0
    <3>1. m - 1 \in S
      <4>1. m - 1 \in 0..(m - 1)
        BY <2>2
      <4>. HIDE DEF S
      <4>. QED BY <4>1, <1>1
    <3>2. PICK g \in [0..(m - 1) -> V] : Iterates(m - 1, first, next, g)
      BY <3>1
    <3>. DEFINE h == [k \in 0..m |-> IF k = m THEN next[g[m - 1]] ELSE g[k]]
    <3>3. h \in [0..m -> V]
      BY <2>2
    <3>4. \A j \in 0..(m - 1) : h[j] = g[j]
      OBVIOUS
    <3>5. h[m] = next[g[m - 1]]
      BY <2>2
    <3>6. h[0] = first
      BY <2>2, <3>2, <3>4
    <3>. HIDE DEF h
    <3>7. ASSUME NEW k \in 1..m PROVE h[k] = next[h[k - 1]]
      <4>1. k - 1 \in 0..(m - 1) /\ (k # m => k \in 1..(m - 1) /\ k \in 0..(m - 1))
        OBVIOUS
      <4>. QED BY <4>1, <3>2, <3>4, <3>5
    <3>8. Iterates(m, first, next, h)
      BY <3>6, <3>7
    <3>. QED BY <3>3, <3>8
  <2>. QED BY <2>1, <2>2
<1>2. n \in S
  <2>1. S \in SUBSET (0..n)
    OBVIOUS
  <2>. HIDE DEF S
  <2>2. S = 0..n
    BY <1>1, <2>1, SetInduction
  <2>. QED BY <2>2
<1>. QED BY <1>2
===============================================================================
