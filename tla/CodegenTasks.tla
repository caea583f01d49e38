---------------------------- MODULE CodegenTasks ----------------------------
(***************************************************************************)
(* What the compiler still has to do: that the tasks of Codegen are a walk *)
(* over the tree which visits every node once and in order, that functions *)
(* are entered and left in pairs, and that what is compiled is a result.   *)
(* Codegen's theorems, in CodegenProofs, rest on it.                       *)
(***************************************************************************)
EXTENDS Codegen, NatFacts, SequenceTheorems

(***************************************************************************)
(* Trees                                                                   *)
(***************************************************************************)
\* What IsProgram says of one node.
LEMMA ProgramFacts ==
  ASSUME NEW t, IsProgram(t)
  PROVE  /\ DOMAIN t = 1..Len(t) /\ Len(t) \in Nat \ {0} /\ 1 \in DOMAIN t
         /\ t[1].k = "block" /\ t[1].parent = 0
         /\ \A n \in DOMAIN t : /\ t[n] \in TreeNodes /\ t[n].parent \in 0..(n - 1)
                                /\ n # 1 => t[n].parent \in DOMAIN t
                                /\ Placed(t, n) /\ Complete(t[n])
<1>1. t \in Seq(TreeNodes) /\ t # <<>> /\ t[1].k = "block" /\ \A n \in DOMAIN t : Complete(t[n]) /\ Placed(t, n)
  BY DEF IsProgram
<1>2. DOMAIN t = 1..Len(t) /\ Len(t) \in Nat \ {0} /\ 1 \in DOMAIN t
  BY <1>1
<1>3. \A n \in DOMAIN t : t[n] \in TreeNodes
  BY <1>1
<1>4. \A n \in DOMAIN t : t[n].parent \in Nat
  BY <1>3 DEF TreeNodes
<1>5. \A n \in DOMAIN t : t[n].parent < n /\ (t[n].parent = 0 <=> n = 1)
  BY <1>1 DEF Placed
<1>. QED BY <1>1, <1>2, <1>3, <1>4, <1>5

\* f is the recursion by which Only picks the first m elements.
OnlyOf(s, S, m, f) ==
  f = [i \in 0..m |->
         IF i = 0 THEN <<>> ELSE IF s[i] \in S THEN Append(f[i - 1], s[i]) ELSE f[i - 1]]

\* The recursion has a function, so that Only is that function's last value.
LEMMA OnlyExists ==
  ASSUME NEW T, NEW s \in Seq(T), NEW S
  PROVE  \E f : OnlyOf(s, S, Len(s), f)
<1>. DEFINE N == Len(s)
            M == {m \in 0..N : \E f : OnlyOf(s, S, m, f)}
<1>1. ASSUME NEW m \in 0..N, 0..(m - 1) \subseteq M PROVE m \in M
  <2>1. CASE m = 0
    <3>1. OnlyOf(s, S, 0, [i \in 0..0 |-> <<>>])
      BY DEF OnlyOf
    <3>. QED BY <2>1, <3>1
  <2>2. CASE m # 0
    <3>1. m - 1 \in M
      <4>1. m - 1 \in 0..(m - 1)
        BY <2>2
      <4>. HIDE DEF M
      <4>. QED BY <4>1, <1>1
    <3>2. PICK g : OnlyOf(s, S, m - 1, g)
      BY <3>1
    <3>. DEFINE h == [i \in 0..m |-> IF i = m THEN IF s[m] \in S THEN Append(g[m - 1], s[m]) ELSE g[m - 1]
                                    ELSE g[i]]
    <3>3. \A i \in 0..(m - 1) : g[i] = IF i = 0 THEN <<>> ELSE IF s[i] \in S THEN Append(g[i - 1], s[i]) ELSE g[i - 1]
      BY <3>2 DEF OnlyOf
    <3>4. \A i \in 0..(m - 1) : h[i] = g[i]
      OBVIOUS
    <3>5. h[m] = IF s[m] \in S THEN Append(g[m - 1], s[m]) ELSE g[m - 1]
      OBVIOUS
    <3>6. DOMAIN h = 0..m /\ h = [i \in 0..m |-> h[i]]
      OBVIOUS
    <3>. HIDE DEF h
    <3>7. \A i \in 0..m : h[i] = IF i = 0 THEN <<>> ELSE IF s[i] \in S THEN Append(h[i - 1], s[i]) ELSE h[i - 1]
      <4>. SUFFICES ASSUME NEW i \in 0..m
                    PROVE h[i] = IF i = 0 THEN <<>> ELSE IF s[i] \in S THEN Append(h[i - 1], s[i]) ELSE h[i - 1]
        OBVIOUS
      <4>1. CASE i = m
        <5>1. m - 1 \in 0..(m - 1)
          BY <2>2
        <5>. QED BY <4>1, <5>1, <3>4, <3>5, <2>2
      <4>2. CASE i # m
        <5>1. i \in 0..(m - 1) /\ (i # 0 => i - 1 \in 0..(m - 1))
          BY <4>2
        <5>. QED BY <5>1, <3>3, <3>4
      <4>. QED BY <4>1, <4>2
    <3>8. OnlyOf(s, S, m, h)
      BY <3>6, <3>7 DEF OnlyOf
    <3>. QED BY <3>8
  <2>. QED BY <2>1, <2>2
<1>2. N \in 0..N /\ N \in Nat /\ M \in SUBSET (0..N)
  OBVIOUS
<1>3. M = 0..N
  <2>. HIDE DEF M, N
  <2>. QED BY <1>1, <1>2, SetInduction
<1>. QED BY <1>2, <1>3

\* Places of elements in the sequence they were picked from.
Picks(s, S, n, r, w) ==
  /\ w \in [1..Len(r) -> 1..n]
  /\ \A i, j \in 1..Len(r) : i < j => w[i] < w[j]
  /\ \A i \in 1..Len(r) : r[i] = s[w[i]] /\ s[w[i]] \in S
  /\ \A j \in 1..n : s[j] \in S => \E i \in 1..Len(r) : w[i] = j

\* Only picks the elements that are in the set, each once, in order.
LEMMA OnlyPicks ==
  ASSUME NEW T, NEW s \in Seq(T), NEW S
  PROVE  Only(s, S) \in Seq(T) /\ \E w : Picks(s, S, Len(s), Only(s, S), w)
<1>. DEFINE N == Len(s)
            only == CHOOSE f : OnlyOf(s, S, N, f)
            M == {m \in 0..N : only[m] \in Seq(T) /\ \E w : Picks(s, S, m, only[m], w)}
<1>1. OnlyOf(s, S, N, only)
  BY OnlyExists
<1>2. \A i \in 0..N : only[i] = IF i = 0 THEN <<>> ELSE IF s[i] \in S THEN Append(only[i - 1], s[i]) ELSE only[i - 1]
  BY <1>1 DEF OnlyOf
<1>3. Only(s, S) = only[N]
  BY DEF Only, OnlyOf
<1>. HIDE DEF only
<1>4. ASSUME NEW m \in 0..N, 0..(m - 1) \subseteq M PROVE m \in M
  <2>1. CASE m = 0
    <3>1. only[0] = <<>>
      BY <1>2
    <3>2. Picks(s, S, 0, <<>>, <<>>)
      BY DEF Picks
    <3>3. <<>> \in Seq(T)
      OBVIOUS
    <3>. QED BY <2>1, <3>1, <3>2, <3>3
  <2>2. CASE m # 0
    <3>1. m - 1 \in M
      <4>1. m - 1 \in 0..(m - 1)
        BY <2>2
      <4>. HIDE DEF M
      <4>. QED BY <4>1, <1>4
    <3>. DEFINE q == only[m - 1]
    <3>2. q \in Seq(T)
      BY <3>1
    <3>3. PICK w : Picks(s, S, m - 1, q, w)
      BY <3>1
    <3>4. only[m] = IF s[m] \in S THEN Append(q, s[m]) ELSE q
      BY <1>2, <2>2
    <3>. HIDE DEF q, M
    <3>5. s[m] \in T /\ Len(q) \in Nat /\ m \in 1..N /\ N \in Nat
      BY <2>2, <3>2
    <3>6. CASE s[m] \in S
      <4>. DEFINE r == Append(q, s[m])
                  v == [i \in 1..Len(r) |-> IF i = Len(r) THEN m ELSE w[i]]
      <4>1. r \in Seq(T) /\ Len(r) = Len(q) + 1 /\ r[Len(r)] = s[m] /\ \A i \in 1..Len(q) : r[i] = q[i]
        BY <3>2, <3>5
      <4>2. \A i \in 1..Len(r) : i # Len(r) => i \in 1..Len(q)
        BY <4>1, <3>5
      <4>. HIDE DEF r
      <4>3. \A i \in 1..Len(r) : i # Len(r) => v[i] = w[i] /\ w[i] \in 1..(m - 1)
        BY <4>2, <3>3 DEF Picks
      <4>4. v[Len(r)] = m
        BY <4>1, <3>5
      <4>5. v \in [1..Len(r) -> 1..m]
        <5>1. \A i \in 1..Len(r) : v[i] \in 1..m
          BY <4>3, <4>4, <3>5
        <5>. QED BY <5>1
      <4>. HIDE DEF v
      <4>6. \A i, j \in 1..Len(r) : i < j => v[i] < v[j]
        <5>. SUFFICES ASSUME NEW i \in 1..Len(r), NEW j \in 1..Len(r), i < j PROVE v[i] < v[j]
          OBVIOUS
        <5>1. i # Len(r)
          BY <4>1, <3>5
        <5>2. CASE j = Len(r)
          BY <5>1, <5>2, <4>3, <4>4, <3>5
        <5>3. CASE j # Len(r)
          BY <5>1, <5>3, <4>2, <4>3, <3>3 DEF Picks
        <5>. QED BY <5>2, <5>3
      <4>7. \A i \in 1..Len(r) : r[i] = s[v[i]] /\ s[v[i]] \in S
        BY <4>1, <4>2, <4>3, <4>4, <3>3, <3>6 DEF Picks
      <4>8. \A j \in 1..m : s[j] \in S => \E i \in 1..Len(r) : v[i] = j
        <5>. SUFFICES ASSUME NEW j \in 1..m, s[j] \in S PROVE \E i \in 1..Len(r) : v[i] = j
          OBVIOUS
        <5>1. CASE j = m
          <6>1. Len(r) \in 1..Len(r)
            BY <4>1, <3>5
          <6>. QED BY <5>1, <4>4, <6>1
        <5>2. CASE j # m
          <6>1. j \in 1..(m - 1)
            BY <5>2, <3>5
          <6>2. PICK i \in 1..Len(q) : w[i] = j
            BY <6>1, <3>3 DEF Picks
          <6>3. i \in 1..Len(r) /\ i # Len(r)
            BY <4>1, <3>5
          <6>. QED BY <6>2, <6>3, <4>3
        <5>. QED BY <5>1, <5>2
      <4>9. Picks(s, S, m, r, v)
        BY <4>5, <4>6, <4>7, <4>8 DEF Picks
      <4>10. only[m] = r
        BY <3>4, <3>6 DEF r
      <4>. QED BY <4>1, <4>9, <4>10 DEF M
    <3>7. CASE s[m] \notin S
      <4>1. Picks(s, S, m, q, w)
        <5>1. w \in [1..Len(q) -> 1..m]
          BY <3>3, <3>5 DEF Picks
        <5>2. \A j \in 1..m : s[j] \in S => j \in 1..(m - 1)
          BY <3>7
        <5>. QED BY <5>1, <5>2, <3>3 DEF Picks
      <4>2. only[m] = q
        BY <3>4, <3>7
      <4>. QED BY <4>1, <4>2, <3>2 DEF M
    <3>. QED BY <3>6, <3>7
  <2>. QED BY <2>1, <2>2
<1>5. N \in 0..N /\ N \in Nat /\ M \in SUBSET (0..N)
  OBVIOUS
<1>6. M = 0..N
  <2>. HIDE DEF M, N
  <2>. QED BY <1>4, <1>5, SetInduction
<1>. QED BY <1>3, <1>5, <1>6

\* The children of a node, each once, in the order of the source.
LEMMA KidsFacts ==
  ASSUME NEW t, IsProgram(t), NEW n
  PROVE  /\ Kids(t, n) \in Seq(DOMAIN t)
         /\ \A i \in DOMAIN Kids(t, n) : t[Kids(t, n)[i]].parent = n
         /\ \A i, j \in DOMAIN Kids(t, n) : i < j => Kids(t, n)[i] < Kids(t, n)[j]
         /\ \A m \in DOMAIN t : t[m].parent = n => \E i \in DOMAIN Kids(t, n) : Kids(t, n)[i] = m
<1>. DEFINE s == [m \in DOMAIN t |-> m]
            S == {m \in DOMAIN t : t[m].parent = n}
            r == Only(s, S)
<1>1. DOMAIN t = 1..Len(t) /\ Len(t) \in Nat
  BY ProgramFacts
<1>2. s \in Seq(DOMAIN t) /\ Len(s) = Len(t) /\ \A m \in 1..Len(t) : s[m] = m
  BY <1>1
<1>3. Kids(t, n) = r
  BY DEF Kids
<1>. HIDE DEF s, S, r
<1>4. r \in Seq(DOMAIN t) /\ \E w : Picks(s, S, Len(s), r, w)
  BY <1>2, OnlyPicks DEF r
<1>5. PICK w : Picks(s, S, Len(s), r, w)
  BY <1>4
<1>6. DOMAIN r = 1..Len(r)
  BY <1>4
<1>7. \A i \in 1..Len(r) : r[i] = w[i] /\ w[i] \in S /\ w[i] \in 1..Len(t)
  BY <1>2, <1>5 DEF Picks
<1>8. \A i \in DOMAIN r : t[r[i]].parent = n
  BY <1>6, <1>7 DEF S
<1>9. \A i, j \in DOMAIN r : i < j => r[i] < r[j]
  BY <1>6, <1>7, <1>5 DEF Picks
<1>10. ASSUME NEW m \in DOMAIN t, t[m].parent = n PROVE \E i \in DOMAIN r : r[i] = m
  <2>1. m \in 1..Len(s) /\ s[m] \in S
    BY <1>1, <1>2, <1>10 DEF S
  <2>2. PICK i \in 1..Len(r) : w[i] = m
    BY <2>1, <1>5 DEF Picks
  <2>. QED BY <2>2, <1>6, <1>7
<1>. QED BY <1>3, <1>4, <1>8, <1>9, <1>10

WithinOf(t, m, f) == f = [x \in 0..Len(t) |-> x = m \/ (x > m /\ f[t[x].parent])]

\* A node is in another if it is that, or its parent is in it.
LEMMA WithinStep ==
  ASSUME NEW t, IsProgram(t), NEW n \in DOMAIN t, NEW m \in DOMAIN t
  PROVE  Within(t, n, m) <=> n = m \/ (n # 1 /\ n > m /\ Within(t, t[n].parent, m))
<1>. DEFINE N == Len(t)
            Stop == 0..m
            next == [x \in 0..N |-> t[x].parent]
            here == [x \in 0..N |-> x = m]
            within == CHOOSE f : WithinOf(t, m, f)
<1>1. DOMAIN t = 1..N /\ N \in Nat /\ \A x \in 1..N : t[x].parent \in 0..(x - 1)
  BY ProgramFacts
<1>2. Descends(N, Stop, next)
  <2>. SUFFICES ASSUME NEW x \in 0..N, x \notin Stop PROVE next[x] \in 0..(x - 1)
    BY DEF Descends
  <2>1. x \in 1..N
    BY <1>1
  <2>. QED BY <2>1, <1>1
<1>3. here \in [0..N -> BOOLEAN] /\ N \in Nat
  BY <1>1
<1>4. \E f \in [0..N -> BOOLEAN] : ClimbsTo(N, Stop, next, here, f)
  <2>. HIDE DEF N, Stop, next, here
  <2>. QED BY <1>2, <1>3, ClimbDefined
<1>5. PICK f \in [0..N -> BOOLEAN] : \A x \in 0..N : f[x] = IF x \in Stop THEN here[x] ELSE f[next[x]]
  BY <1>4 DEF ClimbsTo
<1>6. \A x \in 0..N : f[x] = (x = m \/ (x > m /\ f[t[x].parent]))
  <2>. SUFFICES ASSUME NEW x \in 0..N PROVE f[x] = (x = m \/ (x > m /\ f[t[x].parent]))
    OBVIOUS
  <2>1. CASE x \in Stop
    <3>1. f[x] = (x = m) /\ ~(x > m)
      BY <2>1, <1>5, <1>1
    <3>. QED BY <3>1
  <2>2. CASE x \notin Stop
    <3>1. x > m /\ x # m /\ f[x] = f[t[x].parent]
      BY <2>2, <1>5, <1>1
    <3>2. t[x].parent \in 0..N
      BY <3>1, <1>1
    <3>. QED BY <3>1, <3>2
  <2>. QED BY <2>1, <2>2
<1>7. WithinOf(t, m, f)
  BY <1>5, <1>6 DEF WithinOf
<1>8. WithinOf(t, m, within)
  BY <1>7
<1>9. \A x \in DOMAIN t : Within(t, x, m) = within[x]
  BY DEF Within, WithinOf
<1>. HIDE DEF within
<1>10. within[n] = (n = m \/ (n > m /\ within[t[n].parent]))
  BY <1>8, <1>1 DEF WithinOf
<1>11. n # 1 => t[n].parent \in DOMAIN t
  BY ProgramFacts
<1>12. n = 1 => ~(n > m)
  BY <1>1
<1>. QED BY <1>9, <1>10, <1>11, <1>12

\* What holds of the root, and of a node if it holds of its parent, holds of all.
LEMMA NodeInduction ==
  ASSUME NEW t, IsProgram(t), NEW S \in SUBSET DOMAIN t,
         \A n \in DOMAIN t : n = 1 \/ t[n].parent \in S => n \in S
  PROVE  S = DOMAIN t
<1>. DEFINE N == Len(t)
            M == S \cup {0}
<1>1. DOMAIN t = 1..N /\ N \in Nat /\ \A n \in 1..N : n # 1 => t[n].parent \in 1..(n - 1)
  BY ProgramFacts
<1>2. ASSUME NEW m \in 0..N, 0..(m - 1) \subseteq M PROVE m \in M
  <2>1. CASE m = 0
    BY <2>1
  <2>2. CASE m # 0
    <3>1. m \in DOMAIN t
      BY <2>2, <1>1
    <3>2. m # 1 => t[m].parent \in 0..(m - 1) /\ t[m].parent # 0
      BY <3>1, <1>1
    <3>3. m # 1 => t[m].parent \in S
      BY <3>2, <1>2
    <3>. QED BY <3>1, <3>3
  <2>. QED BY <2>1, <2>2
<1>3. M \in SUBSET (0..N)
  BY <1>1
<1>4. M = 0..N
  <2>. HIDE DEF M, N
  <2>. QED BY <1>1, <1>2, <1>3, SetInduction
<1>5. \A n \in DOMAIN t : n \in 0..N /\ n # 0
  BY <1>1
<1>6. \A n \in DOMAIN t : n \in S
  BY <1>4, <1>5
<1>. QED BY <1>6

\* Within is an order in which a node's chain is linear, and its first element
\* the node's number's bound.
LEMMA WithinOrder ==
  ASSUME NEW t, IsProgram(t)
  PROVE  /\ \A n \in DOMAIN t : Within(t, n, n)
         /\ \A n, m \in DOMAIN t : Within(t, n, m) => m <= n
         /\ \A n, m \in DOMAIN t : Within(t, n, m) /\ n # m => n # 1 /\ Within(t, t[n].parent, m)
         /\ \A n, m \in DOMAIN t : n # 1 /\ Within(t, t[n].parent, m) => Within(t, n, m) /\ m < n
         /\ \A n, m, a \in DOMAIN t : Within(t, n, m) /\ Within(t, m, a) => Within(t, n, a)
         /\ \A n, m, a \in DOMAIN t : Within(t, n, m) /\ Within(t, n, a) => Within(t, m, a) \/ Within(t, a, m)
         /\ \A n \in DOMAIN t : Within(t, n, 1)
<1>1. \A n, m \in DOMAIN t : Within(t, n, m) <=> n = m \/ (n # 1 /\ n > m /\ Within(t, t[n].parent, m))
  BY WithinStep
<1>2. DOMAIN t = 1..Len(t) /\ Len(t) \in Nat /\ 1 \in DOMAIN t
      /\ \A n \in DOMAIN t : n # 1 => t[n].parent \in DOMAIN t /\ t[n].parent < n
  <2>1. \A n \in DOMAIN t : n # 1 => t[n].parent \in DOMAIN t /\ t[n].parent \in 0..(n - 1)
    BY ProgramFacts
  <2>. QED BY <2>1, ProgramFacts
<1>3. \A n \in DOMAIN t : Within(t, n, n)
  BY <1>1
<1>4. \A n, m \in DOMAIN t : Within(t, n, m) => m <= n
  BY <1>1, <1>2
<1>5. \A n, m \in DOMAIN t : Within(t, n, m) /\ n # m => n # 1 /\ Within(t, t[n].parent, m)
  BY <1>1
<1>6. \A n, m \in DOMAIN t : n # 1 /\ Within(t, t[n].parent, m) => Within(t, n, m) /\ m < n
  <2>. SUFFICES ASSUME NEW n \in DOMAIN t, NEW m \in DOMAIN t, n # 1, Within(t, t[n].parent, m)
                PROVE Within(t, n, m) /\ m < n
    OBVIOUS
  <2>1. t[n].parent \in DOMAIN t /\ t[n].parent < n
    BY <1>2
  <2>2. m <= t[n].parent
    BY <2>1, <1>4
  <2>3. n > m
    BY <2>1, <2>2, <1>2
  <2>. QED BY <2>3, <1>1, <1>2
<1>7. \A m, a \in DOMAIN t : \A n \in DOMAIN t : Within(t, n, m) /\ Within(t, m, a) => Within(t, n, a)
  <2>. SUFFICES ASSUME NEW m \in DOMAIN t, NEW a \in DOMAIN t
                PROVE \A n \in DOMAIN t : Within(t, n, m) /\ Within(t, m, a) => Within(t, n, a)
    OBVIOUS
  <2>. DEFINE S == {n \in DOMAIN t : Within(t, n, m) /\ Within(t, m, a) => Within(t, n, a)}
  <2>1. ASSUME NEW n \in DOMAIN t, n = 1 \/ t[n].parent \in S PROVE n \in S
    <3>. SUFFICES ASSUME Within(t, n, m), Within(t, m, a) PROVE Within(t, n, a)
      OBVIOUS
    <3>1. CASE n = m
      BY <3>1
    <3>2. CASE n # m
      <4>1. n # 1 /\ Within(t, t[n].parent, m)
        BY <3>2, <1>5
      <4>. QED BY <4>1, <2>1, <1>6
    <3>. QED BY <3>1, <3>2
  <2>2. S = DOMAIN t
    <3>1. S \in SUBSET DOMAIN t
      OBVIOUS
    <3>. HIDE DEF S
    <3>. QED BY <2>1, <3>1, NodeInduction
  <2>. QED BY <2>2
<1>8. \A m, a \in DOMAIN t : \A n \in DOMAIN t :
        Within(t, n, m) /\ Within(t, n, a) => Within(t, m, a) \/ Within(t, a, m)
  <2>. SUFFICES ASSUME NEW m \in DOMAIN t, NEW a \in DOMAIN t
                PROVE \A n \in DOMAIN t : Within(t, n, m) /\ Within(t, n, a) => Within(t, m, a) \/ Within(t, a, m)
    OBVIOUS
  <2>. DEFINE S == {n \in DOMAIN t : Within(t, n, m) /\ Within(t, n, a) => Within(t, m, a) \/ Within(t, a, m)}
  <2>1. ASSUME NEW n \in DOMAIN t, n = 1 \/ t[n].parent \in S PROVE n \in S
    <3>. SUFFICES ASSUME Within(t, n, m), Within(t, n, a) PROVE Within(t, m, a) \/ Within(t, a, m)
      OBVIOUS
    <3>1. CASE n = m \/ n = a
      BY <3>1
    <3>2. CASE n # m /\ n # a
      <4>1. n # 1 /\ Within(t, t[n].parent, m) /\ Within(t, t[n].parent, a)
        BY <3>2, <1>5
      <4>. QED BY <4>1, <2>1
    <3>. QED BY <3>1, <3>2
  <2>2. S = DOMAIN t
    <3>1. S \in SUBSET DOMAIN t
      OBVIOUS
    <3>. HIDE DEF S
    <3>. QED BY <2>1, <3>1, NodeInduction
  <2>. QED BY <2>2
<1>9. \A n \in DOMAIN t : Within(t, n, 1)
  <2>. DEFINE S == {n \in DOMAIN t : Within(t, n, 1)}
  <2>1. ASSUME NEW n \in DOMAIN t, n = 1 \/ t[n].parent \in S PROVE n \in S
    <3>1. CASE n = 1
      BY <3>1, <1>3
    <3>2. CASE n # 1
      BY <3>2, <2>1, <1>2, <1>6
    <3>. QED BY <3>1, <3>2
  <2>2. S = DOMAIN t
    <3>1. S \in SUBSET DOMAIN t
      OBVIOUS
    <3>. HIDE DEF S
    <3>. QED BY <2>1, <3>1, NodeInduction
  <2>. QED BY <2>2
<1>. QED BY <1>3, <1>4, <1>5, <1>6, <1>7, <1>8, <1>9

\* The nodes in a node are numbered without a gap.
LEMMA WithinInterval ==
  ASSUME NEW t, IsProgram(t), NEW m \in DOMAIN t
  PROVE  \A n, x \in DOMAIN t : Within(t, n, m) /\ m <= x /\ x <= n => Within(t, x, m)
<1>1. DOMAIN t = 1..Len(t) /\ Len(t) \in Nat
      /\ \A n \in DOMAIN t : n # 1 => t[n].parent \in DOMAIN t /\ t[n].parent < n
                                      /\ \A x \in (t[n].parent + 1)..(n - 1) : t[x].parent >= t[n].parent
  <2>1. \A n \in DOMAIN t : n # 1 => t[n].parent \in DOMAIN t /\ t[n].parent \in 0..(n - 1) /\ Placed(t, n)
    BY ProgramFacts
  <2>2. \A n \in DOMAIN t : n # 1 => \A x \in (t[n].parent + 1)..(n - 1) : t[x].parent >= t[n].parent
    BY <2>1 DEF Placed
  <2>. QED BY <2>1, <2>2, ProgramFacts
\* Between a node and one in it, chains do not leave the node.
<1>2. \A n \in DOMAIN t : n # 1 => \A x \in DOMAIN t : t[n].parent <= x /\ x <= n => Within(t, x, t[n].parent)
  <2>. SUFFICES ASSUME NEW n \in DOMAIN t, n # 1
                PROVE \A x \in DOMAIN t : t[n].parent <= x /\ x <= n => Within(t, x, t[n].parent)
    OBVIOUS
  <2>. DEFINE p == t[n].parent
              S == {x \in DOMAIN t : p <= x /\ x <= n => Within(t, x, p)}
  <2>0. p \in DOMAIN t /\ p < n
    BY <1>1
  <2>1. ASSUME NEW x \in DOMAIN t, x = 1 \/ t[x].parent \in S PROVE x \in S
    <3>. SUFFICES ASSUME p <= x, x <= n PROVE Within(t, x, p)
      OBVIOUS
    <3>1. CASE x = p
      BY <3>1, WithinOrder
    <3>2. CASE x # p
      <4>1. x # 1 /\ x > p
        BY <3>2, <2>0, <1>1
      <4>2. t[x].parent \in DOMAIN t /\ t[x].parent < x /\ t[x].parent >= p
        <5>1. CASE x = n
          BY <5>1, <4>1, <1>1, <2>0
        <5>2. CASE x # n
          <6>1. x \in (p + 1)..(n - 1)
            BY <5>2, <4>1, <1>1, <2>0
          <6>. QED BY <6>1, <4>1, <1>1
        <5>. QED BY <5>1, <5>2
      <4>3. t[x].parent <= n
        BY <4>2, <1>1
      <4>4. Within(t, t[x].parent, p)
        BY <4>1, <4>2, <4>3, <2>1
      <4>. HIDE DEF p
      <4>. QED BY <4>1, <4>4, <2>0, WithinOrder
    <3>. QED BY <3>1, <3>2
  <2>2. S = DOMAIN t
    <3>1. S \in SUBSET DOMAIN t
      OBVIOUS
    <3>. HIDE DEF S
    <3>. QED BY <2>1, <3>1, NodeInduction
  <2>. QED BY <2>2
<1>. DEFINE S == {n \in DOMAIN t : \A x \in DOMAIN t : Within(t, n, m) /\ m <= x /\ x <= n => Within(t, x, m)}
<1>3. ASSUME NEW n \in DOMAIN t, n = 1 \/ t[n].parent \in S PROVE n \in S
  <2>. SUFFICES ASSUME NEW x \in DOMAIN t, Within(t, n, m), m <= x, x <= n PROVE Within(t, x, m)
    OBVIOUS
  <2>1. CASE n = m
    <3>1. x = m
      BY <2>1, <1>1
    <3>. QED BY <3>1, WithinOrder
  <2>2. CASE n # m
    <3>1. n # 1 /\ Within(t, t[n].parent, m) /\ t[n].parent \in DOMAIN t
      BY <2>2, <1>1, WithinOrder
    <3>2. CASE x <= t[n].parent
      BY <3>1, <3>2, <1>3
    <3>3. CASE x > t[n].parent
      <4>1. Within(t, x, t[n].parent)
        BY <3>1, <3>3, <1>1, <1>2
      <4>. QED BY <3>1, <4>1, WithinOrder
    <3>4. x <= t[n].parent \/ x > t[n].parent
      BY <3>1, <1>1
    <3>. QED BY <3>2, <3>3, <3>4
  <2>. QED BY <2>1, <2>2
<1>4. S = DOMAIN t
  <2>1. S \in SUBSET DOMAIN t
    OBVIOUS
  <2>. HIDE DEF S
  <2>. QED BY <1>3, <2>1, NodeInduction
<1>. QED BY <1>4

AboveOf(t, f) ==
  f = [m \in 0..Len(t) |->
         IF m = 0 THEN {} ELSE (IF t[m].k = "block" THEN {m} ELSE {}) \cup f[t[m].parent]]

\* The recursion by which BlocksAbove collects the blocks above a node has a
\* function.
LEMMA AboveExists ==
  ASSUME NEW t, IsProgram(t)
  PROVE  \E f : AboveOf(t, f)
<1>. DEFINE N == Len(t)
            f == [m \in 0..N |-> {b \in DOMAIN t : m # 0 /\ t[b].k = "block" /\ Within(t, m, b)}]
<1>1. DOMAIN t = 1..N /\ N \in Nat
      /\ \A m \in 1..N : t[m].parent \in 0..N /\ (m # 1 => t[m].parent \in DOMAIN t) /\ (m = 1 => t[m].parent = 0)
  <2>1. \A m \in DOMAIN t : t[m].parent \in 0..(m - 1) /\ (m # 1 => t[m].parent \in DOMAIN t)
    BY ProgramFacts
  <2>2. DOMAIN t = 1..N /\ N \in Nat /\ t[1].parent = 0
    BY ProgramFacts
  <2>. QED BY <2>1, <2>2
<1>2. ASSUME NEW m \in 1..N
      PROVE  f[m] = (IF t[m].k = "block" THEN {m} ELSE {}) \cup f[t[m].parent]
  <2>1. \A b \in DOMAIN t : Within(t, m, b) <=> m = b \/ (m # 1 /\ Within(t, t[m].parent, b))
    BY <1>1, WithinOrder
  <2>2. f[m] = {b \in DOMAIN t : t[b].k = "block" /\ Within(t, m, b)}
    BY <1>1
  <2>3. f[t[m].parent] = {b \in DOMAIN t : m # 1 /\ t[b].k = "block" /\ Within(t, t[m].parent, b)}
    BY <1>1
  <2>. HIDE DEF f
  <2>. QED BY <2>1, <2>2, <2>3, <1>1
<1>3. f[0] = {}
  BY <1>1
<1>4. f = [m \in 0..N |-> f[m]]
  OBVIOUS
<1>. HIDE DEF f
<1>5. AboveOf(t, f)
  BY <1>1, <1>2, <1>3, <1>4 DEF AboveOf
<1>. QED BY <1>5

\* The blocks above a node are the blocks it is in, without itself.
LEMMA BlocksAboveStep ==
  ASSUME NEW t, IsProgram(t), NEW n \in DOMAIN t
  PROVE  /\ n = 1 => BlocksAbove(t, n) = {}
         /\ n # 1 => BlocksAbove(t, n) = (IF t[t[n].parent].k = "block" THEN {t[n].parent} ELSE {})
                                           \cup BlocksAbove(t, t[n].parent)
<1>. DEFINE above == CHOOSE f : AboveOf(t, f)
<1>1. AboveOf(t, above)
  BY AboveExists
<1>2. \A m \in DOMAIN t : BlocksAbove(t, m) = above[t[m].parent]
  BY DEF BlocksAbove, AboveOf
<1>. HIDE DEF above
<1>3. DOMAIN t = 1..Len(t) /\ Len(t) \in Nat /\ (n = 1 => t[n].parent = 0) /\ (n # 1 => t[n].parent \in DOMAIN t)
  BY ProgramFacts
<1>4. above[0] = {} /\ \A m \in DOMAIN t : above[m] = (IF t[m].k = "block" THEN {m} ELSE {}) \cup above[t[m].parent]
  BY <1>1, <1>3 DEF AboveOf
<1>. QED BY <1>2, <1>3, <1>4

\* BlocksAbove, read off the tree: the blocks that a node is strictly within.
LEMMA BlocksAboveAre ==
  ASSUME NEW t, IsProgram(t)
  PROVE  \A n \in DOMAIN t :
           BlocksAbove(t, n) = {b \in DOMAIN t : t[b].k = "block" /\ b # n /\ Within(t, n, b)}
<1>. DEFINE Are(n) == {b \in DOMAIN t : t[b].k = "block" /\ b # n /\ Within(t, n, b)}
            S == {n \in DOMAIN t : BlocksAbove(t, n) = Are(n)}
<1>1. ASSUME NEW n \in DOMAIN t, n = 1 \/ t[n].parent \in S PROVE n \in S
  <2>1. CASE n = 1
    <3>1. \A b \in DOMAIN t : ~(b # 1 /\ Within(t, 1, b))
      BY WithinOrder, ProgramFacts
    <3>2. Are(1) = {}
      BY <3>1
    <3>. QED BY <2>1, <3>2, BlocksAboveStep
  <2>2. CASE n # 1
    <3>. DEFINE p == t[n].parent
    <3>1. p \in DOMAIN t /\ p # n
      <4>1. p \in DOMAIN t /\ p \in 0..(n - 1) /\ n \in Nat
        BY <2>2, ProgramFacts
      <4>. QED BY <4>1
    <3>2. BlocksAbove(t, p) = Are(p)
      BY <2>2, <1>1
    <3>3. BlocksAbove(t, n) = (IF t[p].k = "block" THEN {p} ELSE {}) \cup BlocksAbove(t, p)
      BY <2>2, BlocksAboveStep
    <3>4. \A b \in DOMAIN t : b # n /\ Within(t, n, b) <=> Within(t, p, b)
      <4>1. \A b \in DOMAIN t : b # n /\ Within(t, n, b) => Within(t, p, b)
        BY WithinOrder
      <4>2. \A b \in DOMAIN t : Within(t, p, b) => Within(t, n, b) /\ b < n
        BY <2>2, WithinOrder
      <4>3. DOMAIN t = 1..Len(t) /\ Len(t) \in Nat
        BY ProgramFacts
      <4>. QED BY <4>1, <4>2, <4>3
    <3>5. Within(t, p, p)
      BY <3>1, WithinOrder
    <3>6. BlocksAbove(t, n) = Are(n)
      <4>. HIDE DEF p
      <4>. QED BY <3>1, <3>2, <3>3, <3>4, <3>5
    <3>. QED BY <3>6
  <2>. QED BY <2>1, <2>2
<1>2. S = DOMAIN t
  <2>1. S \in SUBSET DOMAIN t
    OBVIOUS
  <2>. HIDE DEF S
  <2>. QED BY <1>1, <2>1, NodeInduction
<1>. QED BY <1>2

ClimbOf(t, k, f) ==
  f = [m \in 0..Len(t) |-> IF m = 0 THEN 0 ELSE IF t[m].k = k THEN m ELSE f[t[m].parent]]

\* The recursion by which FindAbove climbs from parent to parent has a
\* function.
LEMMA ClimbExists ==
  ASSUME NEW t, IsProgram(t), NEW k
  PROVE  \E f \in [0..Len(t) -> 0..Len(t)] : ClimbOf(t, k, f)
<1>. DEFINE N == Len(t)
            Stop == {m \in 0..N : m = 0 \/ t[m].k = k}
            next == [m \in 0..N |-> t[m].parent]
            here == [m \in 0..N |-> m]
            V == 0..N
<1>1. DOMAIN t = 1..N /\ N \in Nat /\ \A m \in 1..N : t[m].parent \in 0..(m - 1)
  BY ProgramFacts
<1>2. Descends(N, Stop, next)
  <2>. SUFFICES ASSUME NEW m \in 0..N, m \notin Stop PROVE next[m] \in 0..(m - 1)
    BY DEF Descends
  <2>1. m \in 1..N
    BY <1>1
  <2>. QED BY <2>1, <1>1
<1>3. here \in [0..N -> V] /\ N \in Nat
  BY <1>1
<1>4. \E f \in [0..N -> V] : ClimbsTo(N, Stop, next, here, f)
  <2>. HIDE DEF N, Stop, next, here, V
  <2>. QED BY <1>2, <1>3, ClimbDefined
<1>5. PICK f \in [0..N -> 0..N] :
        \A m \in 0..N : f[m] = IF m \in Stop THEN here[m] ELSE f[next[m]]
  BY <1>4 DEF ClimbsTo
<1>6. \A m \in 0..N : f[m] = IF m = 0 THEN 0 ELSE IF t[m].k = k THEN m ELSE f[t[m].parent]
  BY <1>5
<1>. QED BY <1>5, <1>6 DEF ClimbOf

\* The node FindAbove finds is of the kind it looks for, and no other of that
\* kind is nearer.
Nearest(t, n, k, m) ==
  IF m = 0 THEN \A a \in DOMAIN t : t[a].k = k /\ Within(t, n, a) => a = n
  ELSE /\ m \in DOMAIN t /\ t[m].k = k /\ m # n /\ Within(t, n, m)
       /\ \A a \in DOMAIN t : t[a].k = k /\ a # n /\ Within(t, n, a) => Within(t, m, a)

\* FindAbove (findAbove in ast.hpp) finds the nearest node of the kind above,
\* or 0.
LEMMA FindAboveIsNearest ==
  ASSUME NEW t, IsProgram(t), NEW k
  PROVE  \A n \in DOMAIN t : FindAbove(t, n, k) \in 0..Len(t) /\ Nearest(t, n, k, FindAbove(t, n, k))
<1>. DEFINE climb == CHOOSE f : ClimbOf(t, k, f)
            S == {n \in DOMAIN t : FindAbove(t, n, k) \in 0..Len(t) /\ Nearest(t, n, k, FindAbove(t, n, k))}
<1>1. ClimbOf(t, k, climb)
  BY ClimbExists
<1>2. \A n \in DOMAIN t : FindAbove(t, n, k) = climb[t[n].parent]
  BY DEF FindAbove, ClimbOf
<1>. HIDE DEF climb
<1>3. DOMAIN t = 1..Len(t) /\ Len(t) \in Nat /\ t[1].parent = 0 /\ \A n \in DOMAIN t : n # 1 => t[n].parent \in DOMAIN t
  BY ProgramFacts
<1>4. climb[0] = 0 /\ \A m \in DOMAIN t : climb[m] = IF t[m].k = k THEN m ELSE climb[t[m].parent]
  BY <1>1, <1>3 DEF ClimbOf
<1>5. ASSUME NEW n \in DOMAIN t, n = 1 \/ t[n].parent \in S PROVE n \in S
  <2>1. CASE n = 1
    <3>1. FindAbove(t, 1, k) = 0
      BY <2>1, <1>2, <1>3, <1>4
    <3>2. \A a \in DOMAIN t : Within(t, 1, a) => a = 1
      BY WithinOrder, <2>1
    <3>3. Nearest(t, 1, k, 0)
      BY <3>2 DEF Nearest
    <3>. QED BY <2>1, <3>1, <3>3, <1>3
  <2>2. CASE n # 1
    <3>. DEFINE p == t[n].parent
    <3>1. p \in DOMAIN t /\ FindAbove(t, n, k) = IF t[p].k = k THEN p ELSE FindAbove(t, p, k)
      BY <2>2, <1>2, <1>3, <1>4
    <3>2. \A a \in DOMAIN t : a # n /\ Within(t, n, a) => Within(t, p, a)
      BY WithinOrder
    <3>3. \A a \in DOMAIN t : Within(t, p, a) => Within(t, n, a) /\ a < n
      BY <2>2, WithinOrder
    <3>4. \A a \in DOMAIN t : Within(t, p, a) => Within(t, n, a) /\ a # n
      BY <3>3, <1>3
    <3>5. Within(t, p, p)
      BY <3>1, WithinOrder
    <3>6. CASE t[p].k = k
      <4>1. p # 0
        BY <3>1, <1>3
      <4>2. Nearest(t, n, k, p)
        <5>. HIDE DEF p
        <5>. QED BY <4>1, <3>6, <3>1, <3>2, <3>4, <3>5 DEF Nearest
      <4>. QED BY <4>2, <3>6, <3>1, <1>3
    <3>7. CASE t[p].k # k
      <4>. DEFINE m == FindAbove(t, p, k)
      <4>1. m \in 0..Len(t) /\ Nearest(t, p, k, m)
        BY <2>2, <1>5
      <4>2. Nearest(t, n, k, m)
        <5>. HIDE DEF p, m
        <5>1. CASE m = 0
          BY <5>1, <4>1, <3>2, <3>7 DEF Nearest
        <5>2. CASE m # 0
          <6>1. m \in DOMAIN t /\ t[m].k = k /\ m # p /\ Within(t, p, m)
            BY <5>2, <4>1 DEF Nearest
          <6>2. \A a \in DOMAIN t : t[a].k = k /\ a # n /\ Within(t, n, a) => Within(t, m, a)
            <7>. SUFFICES ASSUME NEW a \in DOMAIN t, t[a].k = k, a # n, Within(t, n, a) PROVE Within(t, m, a)
              OBVIOUS
            <7>1. Within(t, p, a) /\ a # p
              BY <3>2, <3>7
            <7>. QED BY <7>1, <5>2, <4>1 DEF Nearest
          <6>. QED BY <5>2, <6>1, <6>2, <3>4 DEF Nearest
        <5>. QED BY <5>1, <5>2
      <4>. QED BY <4>1, <4>2, <3>1, <3>7
    <3>. QED BY <3>6, <3>7
  <2>. QED BY <2>1, <2>2
<1>6. S = DOMAIN t
  <2>1. S \in SUBSET DOMAIN t
    OBVIOUS
  <2>. HIDE DEF S
  <2>. QED BY <1>5, <2>1, NodeInduction
<1>. QED BY <1>6

(***************************************************************************)
(* Tasks                                                                   *)
(***************************************************************************)
TaskKinds ==
  {"visit", "initialize", "condition", "update", "endFunction", "addMethod", "finalize", "beginInit",
   "initMember", "endInit", "static", "method", "constructor", "endConstructor", "known"}
\* A task is of a node it can be of.
Fits(t, x) ==
  /\ x \in [t : TaskKinds, n : DOMAIN t, old : 0..(2 * Len(t))]
  /\ LET k == t[x.n].k IN
     /\ x.t = "initialize" => k = "decl" /\ t[x.n].e # None
     /\ x.t = "condition" => k \in {"branch", "loop"}
     /\ x.t = "update" => k = "loop"
     /\ x.t = "endFunction" => k \in {"function", "method"}
     /\ x.t \in {"addMethod", "method"} => k = "method"
     /\ x.t \in {"constructor", "endConstructor"} => k = "constructor"
     /\ x.t \in {"finalize", "known", "beginInit", "endInit"} => k = "type"
     /\ x.t = "initMember" => k = "member" /\ ~t[x.n].static /\ t[x.n].e # None
     /\ x.t = "static" => k = "member" /\ t[x.n].static

\* Bodies of these are compiled when their type is finalized.
Deferred(t, n) == t[n].k = "constructor" \/ (t[n].k = "method" /\ ~t[n].static)
Inner(t, n) == {m \in DOMAIN t : m # n /\ Within(t, m, n)}
\* What is visited because of a task, and only because of it.
Claims(t, x) ==
  IF x.t = "visit" THEN IF Deferred(t, x.n) THEN {x.n} ELSE {x.n} \cup Inner(t, x.n)
  ELSE IF x.t \in {"method", "constructor"} THEN Inner(t, x.n)
  ELSE IF x.t = "finalize"
       THEN {m \in DOMAIN t : \E c \in DOMAIN t : t[c].parent = x.n /\ Deferred(t, c) /\ m \in Inner(t, c)}
  ELSE {}
Closing(x) == x.t \in {"finalize", "known"}
\* These put a member of a type on one of its lists.
Listing(x) == x.t \in {"visit", "addMethod"}
\* How a task y is related to one that is due later.
Order(t, y, z) ==
  /\ Listing(y) /\ Listing(z) /\ t[y.n].parent = t[z.n].parent => y.n < z.n
  /\ Claims(t, y) \cap Claims(t, z) = {}
  /\ y.n \notin Claims(t, z) /\ z.n \notin Claims(t, y)
  /\ BlocksAbove(t, z.n) \subseteq BlocksAbove(t, y.n)
  /\ Closing(z) => Within(t, y.n, z.n)
  /\ Closing(y) => ~Within(t, z.n, y.n)
Queue(t, q) ==
  /\ q \in Seq([t : TaskKinds, n : DOMAIN t, old : 0..(2 * Len(t))])
  /\ \A i \in DOMAIN q : Fits(t, q[i])
  /\ \A i, j \in DOMAIN q : i < j => Order(t, q[i], q[j])
\* Task y is what task x leads to.
LeadsTo(t, x, y) ==
  /\ Listing(y) => \/ y.n = x.n /\ Listing(x)
                   \/ /\ t[y.n].parent = x.n
                      /\ x.t \in {"method", "constructor"} \/ (x.t = "visit" /\ ~Deferred(t, x.n))
  /\ Claims(t, y) \subseteq Claims(t, x)
  /\ BlocksAbove(t, x.n) \subseteq BlocksAbove(t, y.n)
  /\ Within(t, y.n, x.n)
  /\ y.n = x.n \/ t[y.n].parent = x.n
  /\ y.n = x.n \/ y.n \in Claims(t, x) \/ (x.t = "finalize" /\ t[y.n].parent = x.n)
  /\ Closing(y) => y.n = x.n /\ (Closing(x) \/ (x.t = "visit" /\ ~Deferred(t, x.n)))
  /\ y.t = "known" => x.t = "finalize"

\* Two queues, all of the first in order with all of the second, make one.
LEMMA QueueConcat ==
  ASSUME NEW t, NEW a, NEW b, Queue(t, a), Queue(t, b),
         \A i \in DOMAIN a, j \in DOMAIN b : Order(t, a[i], b[j])
  PROVE  Queue(t, a \o b)
<1>. DEFINE T == [t : TaskKinds, n : DOMAIN t, old : 0..(2 * Len(t))]
            c == a \o b
<1>1. a \in Seq(T) /\ b \in Seq(T)
  BY DEF Queue
<1>. HIDE DEF T
<1>2. c \in Seq(T) /\ DOMAIN c = 1..(Len(a) + Len(b)) /\ Len(a) \in Nat /\ Len(b) \in Nat
      /\ DOMAIN a = 1..Len(a) /\ DOMAIN b = 1..Len(b)
      /\ \A i \in DOMAIN c : c[i] = IF i <= Len(a) THEN a[i] ELSE b[i - Len(a)]
  BY <1>1
<1>. HIDE DEF c
<1>3. \A i \in DOMAIN c : (i <= Len(a) => i \in DOMAIN a /\ c[i] = a[i])
                          /\ (i > Len(a) => i - Len(a) \in DOMAIN b /\ c[i] = b[i - Len(a)])
  BY <1>2
<1>4. \A i \in DOMAIN c : i <= Len(a) \/ i > Len(a)
  BY <1>2
<1>5. \A i \in DOMAIN c : Fits(t, c[i])
  BY <1>3, <1>4 DEF Queue
<1>6. ASSUME NEW i \in DOMAIN c, NEW j \in DOMAIN c, i < j PROVE Order(t, c[i], c[j])
  <2>1. CASE j <= Len(a)
    <3>1. i <= Len(a)
      BY <2>1, <1>6, <1>2
    <3>. QED BY <2>1, <3>1, <1>3, <1>6 DEF Queue
  <2>2. CASE i > Len(a)
    <3>1. j > Len(a) /\ i - Len(a) < j - Len(a)
      BY <2>2, <1>6, <1>2
    <3>. QED BY <2>2, <3>1, <1>3 DEF Queue
  <2>3. CASE i <= Len(a) /\ j > Len(a)
    BY <2>3, <1>3
  <2>. QED BY <2>1, <2>2, <2>3, <1>4
<1>. QED BY <1>2, <1>5, <1>6 DEF Queue, T, c

\* In a queue there is nothing to say of parts.
LEMMA QueueTail ==
  ASSUME NEW t, NEW q, Queue(t, q), q # <<>>
  PROVE  /\ Queue(t, Tail(q)) /\ Fits(t, Head(q)) /\ Head(q) = q[1]
         /\ \A i \in DOMAIN Tail(q) : Tail(q)[i] = q[i + 1] /\ i + 1 \in DOMAIN q /\ Order(t, Head(q), Tail(q)[i])
<1>. DEFINE T == [t : TaskKinds, n : DOMAIN t, old : 0..(2 * Len(t))]
            r == Tail(q)
<1>1. q \in Seq(T)
  BY DEF Queue
<1>. HIDE DEF T
<1>2. r \in Seq(T) /\ DOMAIN r = 1..(Len(q) - 1) /\ DOMAIN q = 1..Len(q) /\ Len(q) \in Nat \ {0}
      /\ Head(q) = q[1] /\ \A i \in DOMAIN r : r[i] = q[i + 1]
  BY <1>1
<1>. HIDE DEF r
<1>3. 1 \in DOMAIN q /\ \A i \in DOMAIN r : i + 1 \in DOMAIN q /\ 1 < i + 1
  BY <1>2
<1>4. \A i \in DOMAIN r : Fits(t, r[i])
  BY <1>2, <1>3 DEF Queue
<1>5. \A i, j \in DOMAIN r : i < j => i + 1 < j + 1
  BY <1>2
<1>6. \A i, j \in DOMAIN r : i < j => Order(t, r[i], r[j])
  BY <1>2, <1>3, <1>5 DEF Queue
<1>7. Queue(t, r)
  BY <1>2, <1>4, <1>6 DEF Queue, T
<1>. QED BY <1>2, <1>3, <1>7 DEF Queue, r

\* A node is in a claim if its parent is, or it is where the claim begins.
LEMMA ClaimsClosed ==
  ASSUME NEW t, IsProgram(t), NEW z, Fits(t, z), NEW m \in DOMAIN t, m \in Claims(t, z), m # 1,
         t[t[m].parent].k # "method" /\ t[t[m].parent].k # "constructor"
  PROVE  t[m].parent \in Claims(t, z) \/ (z.t = "visit" /\ z.n = m)
<1>. DEFINE p == t[m].parent
<1>1. p \in DOMAIN t /\ z.n \in DOMAIN t
  BY ProgramFacts DEF Fits
<1>2. \A a \in DOMAIN t : m # a /\ Within(t, m, a) => Within(t, p, a)
  BY WithinOrder
<1>. HIDE DEF p
<1>3. CASE z.t = "visit"
  <2>1. CASE m = z.n
    BY <1>3, <2>1
  <2>2. CASE m # z.n
    <3>1. ~Deferred(t, z.n) /\ m \in Inner(t, z.n)
      BY <1>3, <2>2 DEF Claims
    <3>2. Within(t, p, z.n)
      BY <3>1, <1>1, <1>2 DEF Inner
    <3>. QED BY <1>3, <3>1, <3>2, <1>1 DEF Claims, Inner, p
  <2>. QED BY <2>1, <2>2
<1>4. CASE z.t \in {"method", "constructor"}
  <2>1. m \in Inner(t, z.n)
    BY <1>4 DEF Claims
  <2>2. Within(t, p, z.n)
    BY <2>1, <1>1, <1>2 DEF Inner
  <2>3. p # z.n
    BY <1>4 DEF Fits, p
  <2>. QED BY <1>4, <2>2, <2>3, <1>1 DEF Claims, Inner, p
<1>5. CASE z.t = "finalize"
  <2>1. PICK c \in DOMAIN t : t[c].parent = z.n /\ Deferred(t, c) /\ m \in Inner(t, c)
    BY <1>5 DEF Claims
  <2>2. Within(t, p, c) /\ p # c
    BY <2>1, <1>1, <1>2 DEF Inner, Deferred, p
  <2>3. p \in Inner(t, c)
    BY <2>2, <1>1 DEF Inner
  <2>. QED BY <1>5, <2>1, <2>3, <1>1 DEF Claims, p
<1>6. z.t \in {"method", "constructor", "finalize", "visit"}
  BY DEF Claims
<1>. QED BY <1>3, <1>4, <1>5, <1>6

\* What a task leads to keeps the task's place in the order.
LEMMA LeadsToOrder ==
  ASSUME NEW t, IsProgram(t), NEW x, NEW y, NEW z, Fits(t, x), Fits(t, y), Fits(t, z),
         LeadsTo(t, x, y), Order(t, x, z)
  PROVE  Order(t, y, z)
<1>1. x.n \in DOMAIN t /\ y.n \in DOMAIN t /\ z.n \in DOMAIN t
  BY DEF Fits
<1>2. Claims(t, y) \cap Claims(t, z) = {} /\ z.n \notin Claims(t, y)
  BY DEF LeadsTo, Order
<1>3. BlocksAbove(t, z.n) \subseteq BlocksAbove(t, y.n)
  BY DEF LeadsTo, Order
<1>4. Closing(z) => Within(t, y.n, z.n)
  <2>1. Closing(z) => Within(t, x.n, z.n) /\ Within(t, y.n, x.n)
    BY DEF LeadsTo, Order
  <2>. QED BY <2>1, <1>1, WithinOrder
<1>5. Closing(y) => ~Within(t, z.n, y.n)
  <2>. SUFFICES ASSUME Closing(y) PROVE ~Within(t, z.n, y.n)
    OBVIOUS
  <2>1. y.n = x.n /\ (Closing(x) \/ (x.t = "visit" /\ ~Deferred(t, x.n)))
    BY DEF LeadsTo
  <2>2. CASE Closing(x)
    BY <2>1, <2>2 DEF Order
  <2>3. CASE x.t = "visit" /\ ~Deferred(t, x.n)
    <3>1. z.n \notin {x.n} \cup Inner(t, x.n)
      BY <2>3 DEF Order, Claims
    <3>. QED BY <2>1, <3>1, <1>1 DEF Inner
  <2>. QED BY <2>1, <2>2, <2>3
<1>6. y.n \notin Claims(t, z)
  <2>1. CASE y.n = x.n \/ y.n \in Claims(t, x)
    BY <2>1 DEF Order
  <2>2. CASE x.t = "finalize" /\ t[y.n].parent = x.n
    <3>. SUFFICES ASSUME y.n \in Claims(t, z) PROVE FALSE
      OBVIOUS
    <3>1. t[x.n].k = "type" /\ Closing(x)
      BY <2>2 DEF Fits, Closing
    <3>2. y.n # 1
      BY <2>2, <1>1, ProgramFacts
    <3>3. x.n \in Claims(t, z) \/ z.n = y.n
      BY <2>2, <3>1, <3>2, <1>1, ClaimsClosed
    <3>4. z.n = y.n
      BY <3>3 DEF Order
    <3>. QED BY <3>1, <3>4 DEF Order, LeadsTo
  <2>. QED BY <2>1, <2>2 DEF LeadsTo
<1>7. Listing(y) /\ Listing(z) /\ t[y.n].parent = t[z.n].parent => y.n < z.n
  <2>. SUFFICES ASSUME Listing(y), Listing(z), t[y.n].parent = t[z.n].parent PROVE y.n < z.n
    OBVIOUS
  <2>1. CASE y.n = x.n /\ Listing(x)
    BY <2>1 DEF Order
  <2>2. CASE t[y.n].parent = x.n /\ (x.t \in {"method", "constructor"} \/ (x.t = "visit" /\ ~Deferred(t, x.n)))
    <3>1. z.n # 1 /\ t[z.n].parent = x.n
      <4>1. t[1].parent = 0 /\ x.n # 0
        BY <1>1, ProgramFacts
      <4>. QED BY <2>2, <4>1
    <3>2. Within(t, z.n, x.n) /\ x.n # z.n
      <4>1. Within(t, z.n, x.n) /\ x.n < z.n
        BY <3>1, <1>1, WithinOrder
      <4>. QED BY <4>1, <1>1, ProgramFacts
    <3>3. z.n \in Inner(t, x.n)
      BY <3>2, <1>1 DEF Inner
    <3>4. z.n \in Claims(t, x)
      BY <2>2, <3>3 DEF Claims
    <3>. QED BY <3>4 DEF Order
  <2>. QED BY <2>1, <2>2 DEF LeadsTo
<1>. QED BY <1>2, <1>3, <1>4, <1>5, <1>6, <1>7 DEF Order

\* The first task is replaced by those it leads to.
LEMMA QueueStep ==
  ASSUME NEW t, IsProgram(t), NEW q, Queue(t, q), q # <<>>, NEW ts, Queue(t, ts),
         \A i \in DOMAIN ts : LeadsTo(t, Head(q), ts[i])
  PROVE  Queue(t, ts \o Tail(q))
<1>1. Queue(t, Tail(q)) /\ Fits(t, Head(q)) /\ \A i \in DOMAIN Tail(q) : Order(t, Head(q), Tail(q)[i])
  BY QueueTail
<1>2. \A i \in DOMAIN ts, j \in DOMAIN Tail(q) : Order(t, ts[i], Tail(q)[j])
  BY <1>1, LeadsToOrder DEF Queue
<1>. QED BY <1>1, <1>2, QueueConcat

(***************************************************************************)
(* What a task leads to                                                    *)
(***************************************************************************)
Tasks(t) == [t : TaskKinds, n : DOMAIN t, old : 0..(2 * Len(t))]
Among(q) == {q[i] : i \in DOMAIN q}

\* The tasks of two queues one after the other.
LEMMA AmongConcat ==
  ASSUME NEW T, NEW a \in Seq(T), NEW b \in Seq(T)
  PROVE  a \o b \in Seq(T) /\ Among(a \o b) = Among(a) \cup Among(b)
<1>. DEFINE c == a \o b
<1>2. c \in Seq(T) /\ DOMAIN c = 1..(Len(a) + Len(b)) /\ Len(a) \in Nat /\ Len(b) \in Nat
      /\ DOMAIN a = 1..Len(a) /\ DOMAIN b = 1..Len(b)
      /\ \A i \in DOMAIN c : c[i] = IF i <= Len(a) THEN a[i] ELSE b[i - Len(a)]
  OBVIOUS
<1>. HIDE DEF c
<1>3. \A i \in DOMAIN c : (i <= Len(a) => i \in DOMAIN a /\ c[i] = a[i])
                          /\ (i > Len(a) => i - Len(a) \in DOMAIN b /\ c[i] = b[i - Len(a)])
  BY <1>2
<1>4. \A i \in DOMAIN c : i <= Len(a) \/ i > Len(a)
  BY <1>2
<1>5. \A i \in DOMAIN a : i \in DOMAIN c /\ c[i] = a[i]
  BY <1>2
<1>6. \A i \in DOMAIN b : i + Len(a) \in DOMAIN c /\ c[i + Len(a)] = b[i]
  BY <1>2
<1>7. Among(c) \subseteq Among(a) \cup Among(b)
  BY <1>3, <1>4 DEF Among
<1>8. Among(a) \cup Among(b) \subseteq Among(c)
  BY <1>5, <1>6 DEF Among
<1>. QED BY <1>2, <1>7, <1>8 DEF c

\* The tasks of a queue of one.
LEMMA AmongOne ==
  ASSUME NEW x
  PROVE  Among(<<x>>) = {x}
BY DEF Among

\* The tasks of the empty queue.
LEMMA AmongNone == Among(<<>>) = {}
BY DEF Among

\* What is in one child is not in another, nor around them; children of one node
\* are in the same blocks.
LEMMA Siblings ==
  ASSUME NEW t, IsProgram(t), NEW p \in DOMAIN t, NEW c \in DOMAIN t, t[c].parent = p
  PROVE  /\ c # 1 /\ c # p /\ Within(t, c, p) /\ p \notin Inner(t, c) /\ c \in Inner(t, p)
         /\ Inner(t, c) \subseteq Inner(t, p)
         /\ BlocksAbove(t, c) = (IF t[p].k = "block" THEN {p} ELSE {}) \cup BlocksAbove(t, p)
         /\ \A d \in DOMAIN t : t[d].parent = p /\ c # d =>
              c \notin Inner(t, d) /\ Inner(t, c) \cap Inner(t, d) = {} /\ BlocksAbove(t, d) = BlocksAbove(t, c)
<1>1. t[1].parent = 0 /\ DOMAIN t = 1..Len(t) /\ Len(t) \in Nat
  BY ProgramFacts
<1>2. \A d \in DOMAIN t : t[d].parent = p => d # 1 /\ Within(t, d, d) /\ Within(t, d, p) /\ p < d
  BY <1>1, WithinOrder
<1>3. \A d \in DOMAIN t : t[d].parent = p => d # p /\ ~Within(t, p, d)
  BY <1>1, <1>2, WithinOrder
<1>4. \A d \in DOMAIN t : t[d].parent = p /\ c # d => ~Within(t, c, d) /\ ~Within(t, d, c)
  BY <1>2, <1>3, WithinOrder
<1>5. \A d \in DOMAIN t : t[d].parent = p /\ c # d => Inner(t, c) \cap Inner(t, d) = {}
  BY <1>4, WithinOrder DEF Inner
<1>6. \A m \in Inner(t, c) : Within(t, m, p) /\ m # p
  BY <1>2, <1>3, WithinOrder DEF Inner
<1>7. Inner(t, c) \subseteq Inner(t, p)
  BY <1>6 DEF Inner
<1>8. \A d \in DOMAIN t : t[d].parent = p =>
        BlocksAbove(t, d) = (IF t[p].k = "block" THEN {p} ELSE {}) \cup BlocksAbove(t, p)
  BY <1>2, BlocksAboveStep
<1>. QED BY <1>2, <1>3, <1>4, <1>5, <1>7, <1>8 DEF Inner

\* What is in a node is one of its children or in one.
LEMMA InnerKids ==
  ASSUME NEW t, IsProgram(t), NEW p \in DOMAIN t
  PROVE  \A m \in Inner(t, p) : \E c \in DOMAIN t : t[c].parent = p /\ (m = c \/ m \in Inner(t, c))
<1>. DEFINE S == {m \in DOMAIN t : Within(t, m, p) /\ m # p => \E c \in DOMAIN t : t[c].parent = p /\ Within(t, m, c)}
<1>1. ASSUME NEW m \in DOMAIN t, m = 1 \/ t[m].parent \in S PROVE m \in S
  <2>. SUFFICES ASSUME Within(t, m, p), m # p PROVE \E c \in DOMAIN t : t[c].parent = p /\ Within(t, m, c)
    OBVIOUS
  <2>1. m # 1 /\ Within(t, t[m].parent, p) /\ t[m].parent \in DOMAIN t
    BY WithinOrder, ProgramFacts
  <2>2. CASE t[m].parent = p
    BY <2>2, WithinOrder
  <2>3. CASE t[m].parent # p
    <3>1. PICK c \in DOMAIN t : t[c].parent = p /\ Within(t, t[m].parent, c)
      BY <2>1, <2>3, <1>1
    <3>2. Within(t, m, c)
      BY <2>1, <3>1, WithinOrder
    <3>. QED BY <3>1, <3>2
  <2>. QED BY <2>2, <2>3
<1>2. S = DOMAIN t
  <2>1. S \in SUBSET DOMAIN t
    OBVIOUS
  <2>. HIDE DEF S
  <2>. QED BY <1>1, <2>1, NodeInduction
<1>. QED BY <1>2 DEF Inner

\* What has nothing in it, and where members are.
LEMMA Placing ==
  ASSUME NEW t, IsProgram(t), NEW n \in DOMAIN t
  PROVE  /\ t[n].k \in {"decl", "expr", "return", "member"} \/ t[n].foreign => Inner(t, n) = {}
         /\ n # 1 /\ t[n].k \in {"member", "method", "constructor"} => t[t[n].parent].k = "type"
         /\ n # 1 => /\ t[t[n].parent].k = "loop" => t[n].k \in {"decl", "block"}
                     /\ t[t[n].parent].k = "type" => t[n].k \in {"member", "method", "constructor"}
         /\ t[n].k \in NodeKinds
<1>1. \A c \in DOMAIN t : t[c].parent = n => ~(t[n].k \in {"decl", "expr", "return", "member"} \/ t[n].foreign)
  <2>. SUFFICES ASSUME NEW c \in DOMAIN t, t[c].parent = n
                PROVE  ~(t[n].k \in {"decl", "expr", "return", "member"} \/ t[n].foreign)
    OBVIOUS
  <2>1. c # 1 /\ Placed(t, c)
    BY ProgramFacts
  <2>. QED BY <2>1 DEF Placed
<1>2. t[n].k \in {"decl", "expr", "return", "member"} \/ t[n].foreign => Inner(t, n) = {}
  BY <1>1, InnerKids
<1>3. Placed(t, n) /\ t[n] \in TreeNodes
  BY ProgramFacts
<1>4. t[n].k \in NodeKinds
  BY <1>3 DEF TreeNodes
<1>5. n # 1 /\ t[n].k \in {"member", "method", "constructor"} => t[t[n].parent].k = "type"
  BY <1>3 DEF Placed
<1>6. n # 1 /\ t[t[n].parent].k = "loop" => t[n].k \in {"decl", "block"}
  BY <1>3, <1>4 DEF Placed, NodeKinds
<1>7. n # 1 /\ t[t[n].parent].k = "type" => t[n].k \in {"member", "method", "constructor"}
  BY <1>3, <1>4 DEF Placed, NodeKinds
<1>. QED BY <1>2, <1>4, <1>5, <1>6, <1>7

\* A task of p itself, or of one of its children.
Relative(t, p, x) ==
  \/ x.n = p /\ x.t \notin {"visit", "method", "constructor"}
  \/ t[x.n].parent = p /\ x.t \in {"visit", "method", "constructor", "initMember", "static"}

\* What a task of p or of a child of p still claims of the tree: nothing of p
\* itself, and only what is within that child.
LEMMA RelativeClaims ==
  ASSUME NEW t, IsProgram(t), NEW p \in DOMAIN t, NEW x, Fits(t, x), Relative(t, p, x)
  PROVE  /\ x.n = p => Claims(t, x) = IF x.t = "finalize" THEN Claims(t, x) ELSE {}
         /\ x.n # p => t[x.n].parent = p /\ Claims(t, x) \subseteq {x.n} \cup Inner(t, x.n)
                       /\ (x.t # "visit" => x.n \notin Claims(t, x)) /\ ~Closing(x) /\ x.t # "addMethod"
         /\ x.n = p \/ t[x.n].parent = p
         /\ p \notin Claims(t, x)
<1>1. x.n \in DOMAIN t
  BY DEF Fits
<1>2. t[x.n].parent = p => x.n # p /\ p \notin Inner(t, x.n) /\ x.n \notin Inner(t, x.n)
  BY <1>1, Siblings DEF Inner
<1>3. x.n = p => Claims(t, x) = IF x.t = "finalize" THEN Claims(t, x) ELSE {}
  BY <1>2 DEF Relative, Claims
<1>4. x.n # p => t[x.n].parent = p /\ x.t \in {"visit", "method", "constructor", "initMember", "static"}
  BY DEF Relative
<1>5. x.n # p => Claims(t, x) \subseteq {x.n} \cup Inner(t, x.n) /\ (x.t # "visit" => x.n \notin Claims(t, x))
  BY <1>2, <1>4 DEF Claims
<1>6. p \notin Claims(t, x)
  <2>1. CASE x.n = p
    <3>1. \A c \in DOMAIN t : t[c].parent = p => p \notin Inner(t, c)
      BY Siblings
    <3>. QED BY <3>1, <2>1, <1>3 DEF Claims
  <2>2. CASE x.n # p
    BY <2>2, <1>2, <1>4, <1>5
  <2>. QED BY <2>1, <2>2
<1>. QED BY <1>3, <1>4, <1>5, <1>6 DEF Closing

\* When two tasks of p and its children may follow each other.
LEMMA FamilyOrder ==
  ASSUME NEW t, IsProgram(t), NEW p \in DOMAIN t, NEW y, NEW z, Fits(t, y), Fits(t, z),
         Relative(t, p, y), Relative(t, p, z),
         y.n = p => ~Closing(y) /\ ~Listing(y) /\ t[p].k # "block",
         y.n = z.n => y.n = p,
         Listing(y) /\ Listing(z) /\ z.n # p => y.n < z.n,
         z.t = "finalize" => y.t = "visit"
  PROVE  Order(t, y, z)
<1>1. y.n \in DOMAIN t /\ z.n \in DOMAIN t
  BY DEF Fits
<1>2. Claims(t, y) \cap Claims(t, z) = {} /\ y.n \notin Claims(t, z) /\ z.n \notin Claims(t, y)
  <2>1. CASE y.n = p /\ y.t # "finalize"
    <3>1. Claims(t, y) = {} /\ p \notin Claims(t, z)
      BY <2>1, RelativeClaims
    <3>. QED BY <3>1, <2>1
  <2>2. CASE y.n # p /\ z.n = p
    <3>1. t[y.n].parent = p /\ Claims(t, y) \subseteq {y.n} \cup Inner(t, y.n) /\ p \notin Claims(t, y)
      BY <2>2, RelativeClaims
    <3>2. CASE z.t # "finalize"
      <4>1. Claims(t, z) = {}
        BY <2>2, <3>2, RelativeClaims
      <4>. QED BY <4>1, <3>1, <2>2
    <3>3. CASE z.t = "finalize"
      <4>1. Claims(t, y) = IF Deferred(t, y.n) THEN {y.n} ELSE {y.n} \cup Inner(t, y.n)
        BY <3>3 DEF Claims
      <4>2. \A c \in DOMAIN t : t[c].parent = p /\ Deferred(t, c) =>
               y.n \notin Inner(t, c) /\ (c = y.n \/ Inner(t, y.n) \cap Inner(t, c) = {})
        <5>1. y.n \notin Inner(t, y.n)
          BY DEF Inner
        <5>. QED BY <5>1, <3>1, <1>1, Siblings
      <4>3. Claims(t, z) = {m \in DOMAIN t : \E c \in DOMAIN t : t[c].parent = p /\ Deferred(t, c) /\ m \in Inner(t, c)}
        BY <2>2, <3>3 DEF Claims
      <4>4. y.n \notin Claims(t, z) /\ Claims(t, y) \cap Claims(t, z) = {}
        BY <4>1, <4>2, <4>3
      <4>. QED BY <4>4, <3>1, <2>2
    <3>. QED BY <3>2, <3>3
  <2>3. CASE y.n # p /\ z.n # p
    <3>1. t[y.n].parent = p /\ t[z.n].parent = p /\ y.n # z.n
          /\ Claims(t, y) \subseteq {y.n} \cup Inner(t, y.n) /\ Claims(t, z) \subseteq {z.n} \cup Inner(t, z.n)
      BY <2>3, RelativeClaims
    <3>2. y.n \notin Inner(t, z.n) /\ z.n \notin Inner(t, y.n) /\ Inner(t, y.n) \cap Inner(t, z.n) = {}
      BY <3>1, <1>1, Siblings
    <3>. QED BY <3>1, <3>2
  <2>. QED BY <2>1, <2>2, <2>3 DEF Closing
<1>3. (y.n = p \/ t[y.n].parent = p) /\ (z.n = p \/ t[z.n].parent = p)
  BY RelativeClaims
<1>4. BlocksAbove(t, z.n) \subseteq BlocksAbove(t, y.n)
  BY <1>1, <1>3, Siblings
<1>5. Closing(z) => Within(t, y.n, z.n)
  <2>1. Closing(z) => z.n = p
    BY RelativeClaims
  <2>2. Within(t, y.n, p)
    BY <1>1, <1>3, Siblings, WithinOrder
  <2>. QED BY <2>1, <2>2
<1>6. ~Closing(y)
  BY RelativeClaims
<1>7. Listing(y) /\ Listing(z) /\ t[y.n].parent = t[z.n].parent => y.n < z.n
  <2>1. t[y.n].parent = p => t[p].parent # p
    <3>1. p # t[p].parent
      <4>1. t[p].parent \in 0..(p - 1) /\ p \in Nat
        BY ProgramFacts
      <4>. QED BY <4>1
    <3>. QED BY <3>1
  <2>. QED BY <2>1, <1>3
<1>. QED BY <1>2, <1>4, <1>5, <1>6, <1>7 DEF Order

\* One task is a queue.
LEMMA QueueOne ==
  ASSUME NEW t, NEW x, Fits(t, x)
  PROVE  Queue(t, <<x>>)
<1>. DEFINE T == [t : TaskKinds, n : DOMAIN t, old : 0..(2 * Len(t))]
<1>1. x \in T
  BY DEF Fits
<1>. HIDE DEF T
<1>2. <<x>> \in Seq(T)
  BY <1>1
<1>. QED BY <1>2 DEF Queue, T

\* No task is a queue.
LEMMA QueueNone ==
  ASSUME NEW t
  PROVE  Queue(t, <<>>)
BY DEF Queue

\* q has tasks of the children that s lists.
TasksFor(t, p, s, q) ==
  /\ q \in Seq(Tasks(t)) /\ DOMAIN q = DOMAIN s /\ s \in Seq(DOMAIN t)
  /\ \A i, j \in DOMAIN s : i < j => s[i] < s[j]
  /\ \A i \in DOMAIN s : q[i].n = s[i] /\ s[i] # p /\ Fits(t, q[i]) /\ Relative(t, p, q[i])

\* The tasks made one by one for children of p, in their order, are a queue.
LEMMA KidTasks ==
  ASSUME NEW t, IsProgram(t), NEW p \in DOMAIN t, NEW s, NEW q, TasksFor(t, p, s, q)
  PROVE  Queue(t, q)
<1>1. DOMAIN q = DOMAIN s /\ q \in Seq(Tasks(t)) /\ s \in Seq(DOMAIN t)
  BY DEF TasksFor
<1>2. \A i \in DOMAIN s : q[i].n = s[i] /\ s[i] # p /\ Fits(t, q[i]) /\ Relative(t, p, q[i])
  BY DEF TasksFor
<1>3. ASSUME NEW i \in DOMAIN s, NEW j \in DOMAIN s, i < j PROVE Order(t, q[i], q[j])
  <2>1. s[i] < s[j] /\ s[i] \in DOMAIN t /\ s[j] \in DOMAIN t
    BY <1>1, <1>3 DEF TasksFor
  <2>2. s[i] # s[j]
    BY <2>1, ProgramFacts
  <2>3. q[i].n = s[i] /\ q[j].n = s[j] /\ q[i].n # p /\ Fits(t, q[i]) /\ Fits(t, q[j])
        /\ Relative(t, p, q[i]) /\ Relative(t, p, q[j])
    BY <1>2
  <2>4. q[j].t # "finalize"
    BY <1>2, <2>3 DEF Relative
  <2>. QED BY <2>1, <2>2, <2>3, <2>4, FamilyOrder
<1>4. \A i \in DOMAIN q : Fits(t, q[i])
  BY <1>1, <1>2
<1>. QED BY <1>1, <1>3, <1>4 DEF Queue, Tasks

Visited(x) == IF x.t = "visit" THEN {x.n} ELSE {}
ClaimsOf(t, q) == UNION {Claims(t, y) : y \in Among(q)}
\* ts is what is to be done because of task x: no more, and no less.
Advance(t, x, ts) ==
  /\ Queue(t, ts)
  /\ \A y \in Among(ts) : LeadsTo(t, x, y) /\ x.n \notin Claims(t, y)
  /\ Claims(t, x) = Visited(x) \cup ClaimsOf(t, ts)

\* A task leads to the later tasks of its own node.
LEMMA LeadsOwn ==
  ASSUME NEW t, IsProgram(t), NEW x, NEW y, Fits(t, x), Fits(t, y), y.n = x.n,
         y.t \notin {"visit", "method", "constructor"},
         y.t = "finalize" => x.t = "visit" /\ ~Deferred(t, x.n),
         y.t = "known" => x.t = "finalize", y.t = "addMethod" => x.t = "visit"
  PROVE  LeadsTo(t, x, y)
<1>1. x.n \in DOMAIN t /\ Within(t, x.n, x.n)
  BY WithinOrder DEF Fits
<1>2. y.t # "finalize" => Claims(t, y) = {}
  BY DEF Claims
<1>3. y.t = "finalize" => Claims(t, y) \subseteq Claims(t, x)
  <2>. SUFFICES ASSUME y.t = "finalize" PROVE Claims(t, y) \subseteq Claims(t, x)
    OBVIOUS
  <2>1. \A c \in DOMAIN t : t[c].parent = x.n => Inner(t, c) \subseteq Inner(t, x.n)
    BY <1>1, Siblings
  <2>2. Claims(t, x) = {x.n} \cup Inner(t, x.n)
    BY DEF Claims
  <2>3. Claims(t, y) = {m \in DOMAIN t : \E c \in DOMAIN t : t[c].parent = x.n /\ Deferred(t, c) /\ m \in Inner(t, c)}
    BY DEF Claims
  <2>. QED BY <2>1, <2>2, <2>3
<1>. QED BY <1>1, <1>2, <1>3 DEF LeadsTo, Listing, Closing

\* A task leads to the tasks of the node's children that it is responsible for.
LEMMA LeadsKid ==
  ASSUME NEW t, IsProgram(t), NEW x, NEW y, Fits(t, x), Fits(t, y), t[y.n].parent = x.n,
         \/ y.t = "visit" /\ (x.t \in {"method", "constructor"} \/ (x.t = "visit" /\ ~Deferred(t, x.n)))
         \/ y.t \in {"initMember", "static"} /\ x.t = "finalize"
         \/ y.t \in {"method", "constructor"} /\ x.t = "finalize" /\ Deferred(t, y.n)
  PROVE  LeadsTo(t, x, y)
<1>1. x.n \in DOMAIN t /\ y.n \in DOMAIN t
  BY DEF Fits
<1>2. /\ y.n # x.n /\ Within(t, y.n, x.n) /\ y.n \in Inner(t, x.n) /\ Inner(t, y.n) \subseteq Inner(t, x.n)
      /\ BlocksAbove(t, x.n) \subseteq BlocksAbove(t, y.n)
  BY <1>1, Siblings
<1>3. ~Closing(y)
  BY DEF Closing
<1>4. CASE y.t = "visit"
  <2>1. Inner(t, x.n) \subseteq Claims(t, x)
    BY <1>4 DEF Claims
  <2>2. Claims(t, y) \subseteq {y.n} \cup Inner(t, y.n)
    BY <1>4 DEF Claims
  <2>3. Claims(t, y) \subseteq Claims(t, x) /\ y.n \in Claims(t, x)
    BY <1>2, <2>1, <2>2
  <2>. QED BY <1>2, <1>3, <1>4, <2>3 DEF LeadsTo
<1>5. CASE y.t # "visit"
  <2>1. ~Listing(y) /\ x.t = "finalize"
    BY <1>5 DEF Listing
  <2>2. Claims(t, y) \subseteq Claims(t, x)
    <3>1. CASE y.t \in {"initMember", "static"}
      BY <3>1 DEF Claims
    <3>2. CASE y.t \in {"method", "constructor"}
      <4>1. Claims(t, y) = Inner(t, y.n) /\ Deferred(t, y.n)
        BY <3>2 DEF Claims
      <4>2. Claims(t, x) = {m \in DOMAIN t : \E c \in DOMAIN t : t[c].parent = x.n /\ Deferred(t, c) /\ m \in Inner(t, c)}
        BY <2>1 DEF Claims
      <4>3. Inner(t, y.n) \subseteq DOMAIN t
        BY DEF Inner
      <4>. QED BY <1>1, <4>1, <4>2, <4>3
    <3>. QED BY <1>5, <3>1, <3>2
  <2>. QED BY <1>2, <1>3, <2>1, <2>2 DEF LeadsTo
<1>. QED BY <1>4, <1>5

\* A task that is done with.
LEMMA AdvanceNone ==
  ASSUME NEW t, NEW x, Claims(t, x) = Visited(x)
  PROVE  Advance(t, x, <<>>)
BY QueueNone, AmongNone DEF Advance, ClaimsOf

\* The rest of a visit.
LEMMA AdvanceRest ==
  ASSUME NEW t, IsProgram(t), NEW x, NEW y, Fits(t, x), Fits(t, y), y.n = x.n,
         x.t = "visit", y.t \in {"initialize", "addMethod"}, Claims(t, x) = {x.n}
  PROVE  Advance(t, x, <<y>>)
<1>1. Queue(t, <<y>>) /\ Among(<<y>>) = {y}
  BY QueueOne, AmongOne
<1>2. LeadsTo(t, x, y)
  BY LeadsOwn
<1>3. Claims(t, y) = {} /\ Visited(x) = {x.n}
  BY DEF Claims, Visited
<1>. QED BY <1>1, <1>2, <1>3 DEF Advance, ClaimsOf

\* A node's children are visited, and what else is to be done about it is done.
LEMMA AdvanceInto ==
  ASSUME NEW t, IsProgram(t), NEW x, Fits(t, x), NEW ts, Queue(t, ts),
         x.t \in {"method", "constructor"} \/ (x.t = "visit" /\ ~Deferred(t, x.n)),
         \A y \in Among(ts) :
           /\ Fits(t, y)
           /\ \/ y.t = "visit" /\ t[y.n].parent = x.n
              \/ y.n = x.n /\ y.t \notin {"visit", "method", "constructor", "known"}
                 /\ (y.t \in {"addMethod", "finalize"} => x.t = "visit"),
         \A c \in DOMAIN t : t[c].parent = x.n => \E y \in Among(ts) : y.t = "visit" /\ y.n = c,
         t[x.n].k = "type" => \E y \in Among(ts) : y.t = "finalize" /\ y.n = x.n
  PROVE  Advance(t, x, ts)
<1>. DEFINE p == x.n
<1>1. p \in DOMAIN t
  BY DEF Fits
<1>2. \A y \in Among(ts) : Relative(t, p, y)
  BY DEF Relative
<1>3. \A y \in Among(ts) : LeadsTo(t, x, y)
  <2>. TAKE y \in Among(ts)
  <2>1. CASE y.t = "visit" /\ t[y.n].parent = x.n
    BY <2>1, LeadsKid
  <2>2. CASE y.n = x.n /\ y.t \notin {"visit", "method", "constructor", "known"}
             /\ (y.t \in {"addMethod", "finalize"} => x.t = "visit")
    <3>1. y.t = "finalize" => x.t = "visit" /\ ~Deferred(t, x.n)
      BY <2>2
    <3>. QED BY <2>2, <3>1, LeadsOwn
  <2>. QED BY <2>1, <2>2
<1>4. \A y \in Among(ts) : p \notin Claims(t, y)
  BY <1>1, <1>2, RelativeClaims
<1>5. Claims(t, x) = Visited(x) \cup Inner(t, p)
  BY DEF Claims, Visited
<1>6. ClaimsOf(t, ts) \subseteq Inner(t, p)
  <2>1. \A y \in Among(ts) : Claims(t, y) \subseteq Claims(t, x)
    BY <1>3 DEF LeadsTo
  <2>2. \A y \in Among(ts) : Claims(t, y) \subseteq Inner(t, p)
    BY <2>1, <1>4, <1>5 DEF Visited
  <2>. QED BY <2>2 DEF ClaimsOf
<1>7. Inner(t, p) \subseteq ClaimsOf(t, ts)
  <2>. SUFFICES ASSUME NEW m \in Inner(t, p) PROVE \E y \in Among(ts) : m \in Claims(t, y)
    BY DEF ClaimsOf
  <2>1. PICK c \in DOMAIN t : t[c].parent = p /\ (m = c \/ m \in Inner(t, c))
    BY <1>1, InnerKids
  <2>2. PICK y \in Among(ts) : y.t = "visit" /\ y.n = c
    BY <2>1
  <2>3. CASE m = c \/ ~Deferred(t, c)
    <3>1. m \in Claims(t, y)
      BY <2>1, <2>2, <2>3 DEF Claims
    <3>. QED BY <3>1
  <2>4. CASE m # c /\ Deferred(t, c)
    <3>1. c # 1 /\ t[c].k \in {"method", "constructor"}
      BY <1>1, <2>1, <2>4, Siblings DEF Deferred
    <3>2. t[p].k = "type"
      BY <2>1, <3>1, Placing
    <3>3. PICK z \in Among(ts) : z.t = "finalize" /\ z.n = p
      BY <3>2
    <3>4. m \in DOMAIN t
      BY DEF Inner
    <3>5. m \in Claims(t, z)
      BY <2>1, <2>4, <3>3, <3>4 DEF Claims
    <3>. QED BY <3>5
  <2>. QED BY <2>3, <2>4
<1>. QED BY <1>3, <1>4, <1>5, <1>6, <1>7 DEF Advance

\* TypeData::finalize
LEMMA AdvanceFinalize ==
  ASSUME NEW t, IsProgram(t), NEW x, Fits(t, x), x.t = "finalize", NEW ts, Queue(t, ts),
         \A y \in Among(ts) :
           /\ Fits(t, y)
           /\ \/ y.n = x.n /\ y.t \in {"beginInit", "endInit", "known"}
              \/ t[y.n].parent = x.n /\ y.t \in {"initMember", "static"}
              \/ t[y.n].parent = x.n /\ y.t \in {"method", "constructor"} /\ Deferred(t, y.n),
         \A c \in DOMAIN t : t[c].parent = x.n /\ Deferred(t, c) /\ Inner(t, c) # {} =>
           \E y \in Among(ts) : y.t \in {"method", "constructor"} /\ y.n = c
  PROVE  Advance(t, x, ts)
<1>1. x.n \in DOMAIN t
  BY DEF Fits
<1>2. \A y \in Among(ts) : Relative(t, x.n, y)
  BY DEF Relative
<1>3. \A y \in Among(ts) : LeadsTo(t, x, y)
  <2>. TAKE y \in Among(ts)
  <2>1. CASE y.n = x.n /\ y.t \in {"beginInit", "endInit", "known"}
    BY <2>1, LeadsOwn
  <2>2. CASE t[y.n].parent = x.n /\ (y.t \in {"initMember", "static"} \/ (y.t \in {"method", "constructor"} /\ Deferred(t, y.n)))
    BY <2>2, LeadsKid
  <2>. QED BY <2>1, <2>2
<1>4. \A y \in Among(ts) : x.n \notin Claims(t, y)
  BY <1>1, <1>2, RelativeClaims
<1>5. ClaimsOf(t, ts) \subseteq Claims(t, x)
  BY <1>3 DEF ClaimsOf, LeadsTo
<1>6. Claims(t, x) \subseteq ClaimsOf(t, ts)
  <2>. SUFFICES ASSUME NEW m \in Claims(t, x) PROVE \E y \in Among(ts) : m \in Claims(t, y)
    BY DEF ClaimsOf
  <2>1. PICK c \in DOMAIN t : t[c].parent = x.n /\ Deferred(t, c) /\ m \in Inner(t, c)
    BY DEF Claims
  <2>2. PICK y \in Among(ts) : y.t \in {"method", "constructor"} /\ y.n = c
    BY <2>1
  <2>3. m \in Claims(t, y)
    BY <2>1, <2>2 DEF Claims
  <2>. QED BY <2>3
<1>7. Visited(x) = {}
  BY DEF Visited
<1>. QED BY <1>3, <1>4, <1>5, <1>6, <1>7 DEF Advance

(***************************************************************************)
(* What was visited                                                        *)
(***************************************************************************)
Seen(t, q) == {n \in DOMAIN t : \A y \in Among(q) : n \notin Claims(t, y)}
\* Members are listed in the order of the source.
SeenBefore(t, q) ==
  \A m \in Seen(t, q), y \in Among(q) : Listing(y) /\ t[m].parent = t[y.n].parent => m <= y.n

\* The head and the tail of a queue.
LEMMA QueueParts ==
  ASSUME NEW t, NEW q, Queue(t, q), q # <<>>
  PROVE  /\ q \in Seq(Tasks(t)) /\ Tail(q) \in Seq(Tasks(t)) /\ Queue(t, Tail(q)) /\ Fits(t, Head(q))
         /\ Head(q) \in Tasks(t) /\ Head(q).n \in DOMAIN t /\ Head(q).t \in TaskKinds
         /\ Among(q) = {Head(q)} \cup Among(Tail(q))
         /\ \A y \in Among(q) : Fits(t, y)
         /\ \A y \in Among(Tail(q)) : Order(t, Head(q), y) /\ Fits(t, y)
<1>1. q \in Seq(Tasks(t))
  BY DEF Queue, Tasks
<1>2. Tail(q) \in Seq(Tasks(t)) /\ q = <<Head(q)>> \o Tail(q) /\ Head(q) \in Tasks(t)
  BY <1>1
<1>3. Among(q) = {Head(q)} \cup Among(Tail(q))
  <2>1. <<Head(q)>> \in Seq(Tasks(t))
    BY <1>2
  <2>2. Among(<<Head(q)>> \o Tail(q)) = Among(<<Head(q)>>) \cup Among(Tail(q))
    BY <1>2, <2>1, AmongConcat
  <2>3. Among(q) = Among(<<Head(q)>> \o Tail(q))
    BY <1>2
  <2>. QED BY <2>2, <2>3, AmongOne
<1>4. Queue(t, Tail(q)) /\ Fits(t, Head(q)) /\ \A y \in Among(Tail(q)) : Order(t, Head(q), y)
  BY QueueTail DEF Among
<1>5. \A y \in Among(Tail(q)) : Fits(t, y)
  BY <1>4 DEF Queue, Among
<1>. QED BY <1>1, <1>2, <1>3, <1>4, <1>5 DEF Tasks

\* Doing the head of a queue and putting its tasks in front leaves a queue, and
\* what was visited grows by what the head visits, for the first time.
LEMMA AdvanceStep ==
  ASSUME NEW t, IsProgram(t), NEW q, Queue(t, q), q # <<>>, NEW ts, Advance(t, Head(q), ts)
  PROVE  /\ Queue(t, ts \o Tail(q)) /\ Among(ts \o Tail(q)) = Among(ts) \cup Among(Tail(q))
         /\ Seen(t, ts \o Tail(q)) = Seen(t, q) \cup Visited(Head(q))
         /\ Visited(Head(q)) \cap Seen(t, q) = {}
<1>. DEFINE x == Head(q)
            r == Tail(q)
<1>1. Queue(t, ts) /\ \A y \in Among(ts) : LeadsTo(t, x, y) /\ x.n \notin Claims(t, y)
  BY DEF Advance
<1>2. Among(q) = {x} \cup Among(r) /\ r \in Seq(Tasks(t)) /\ (\A y \in Among(r) : Order(t, x, y)) /\ x.n \in DOMAIN t
  BY QueueParts
<1>3. ts \in Seq(Tasks(t))
  BY <1>1 DEF Queue, Tasks
<1>4. Among(ts \o r) = Among(ts) \cup Among(r)
  <2>. HIDE DEF r
  <2>. QED BY <1>2, <1>3, AmongConcat
<1>5. Queue(t, ts \o r)
  <2>1. \A i \in DOMAIN ts : LeadsTo(t, x, ts[i])
    BY <1>1 DEF Among
  <2>. QED BY <1>1, <2>1, QueueStep
<1>. HIDE DEF x, r
<1>6. \A y \in Among(r) : x.n \notin Claims(t, y)
  BY <1>2 DEF Order
<1>7. Claims(t, x) = Visited(x) \cup ClaimsOf(t, ts)
  BY DEF Advance, x
<1>8. Visited(x) \subseteq {x.n}
  BY DEF Visited
<1>9. ASSUME NEW n \in DOMAIN t
      PROVE  n \in Seen(t, ts \o r) <=> n \in Seen(t, q) \/ n \in Visited(x)
  <2>1. n \in Seen(t, ts \o r) <=> n \notin ClaimsOf(t, ts) /\ \A y \in Among(r) : n \notin Claims(t, y)
    BY <1>4 DEF Seen, ClaimsOf
  <2>2. n \in Seen(t, q) <=> n \notin Claims(t, x) /\ \A y \in Among(r) : n \notin Claims(t, y)
    BY <1>2 DEF Seen
  <2>3. n \in Visited(x) => n \notin ClaimsOf(t, ts) /\ \A y \in Among(r) : n \notin Claims(t, y)
    BY <1>1, <1>6, <1>8 DEF ClaimsOf
  <2>. QED BY <2>1, <2>2, <2>3, <1>7
<1>10. Visited(x) \subseteq DOMAIN t /\ Seen(t, q) \subseteq DOMAIN t /\ Seen(t, ts \o r) \subseteq DOMAIN t
  BY <1>2, <1>8 DEF Seen
<1>11. Seen(t, ts \o r) = Seen(t, q) \cup Visited(x)
  BY <1>9, <1>10
<1>12. Visited(x) \cap Seen(t, q) = {}
  BY <1>2, <1>7 DEF Seen
<1>. QED BY <1>4, <1>5, <1>11, <1>12 DEF x, r

\* What was visited is before what is still to be visited; a step keeps it so.
LEMMA SeenBeforeStep ==
  ASSUME NEW t, IsProgram(t), NEW q, Queue(t, q), q # <<>>, NEW ts, Advance(t, Head(q), ts), SeenBefore(t, q)
  PROVE  SeenBefore(t, ts \o Tail(q))
<1>. DEFINE x == Head(q)
            r == Tail(q)
<1>1. Among(ts \o r) = Among(ts) \cup Among(r) /\ Seen(t, ts \o r) = Seen(t, q) \cup Visited(x)
  BY AdvanceStep
<1>2. Among(q) = {x} \cup Among(r) /\ (\A y \in Among(r) : Order(t, x, y) /\ Fits(t, y)) /\ x.n \in DOMAIN t
  BY QueueParts
<1>3. \A y \in Among(ts) : LeadsTo(t, x, y) /\ Fits(t, y)
  BY DEF Advance, Queue, Among
<1>. HIDE DEF x, r
<1>. SUFFICES ASSUME NEW m \in Seen(t, q) \cup Visited(x), NEW y \in Among(ts) \cup Among(r), Listing(y),
                     t[m].parent = t[y.n].parent
              PROVE  m <= y.n
  BY <1>1 DEF SeenBefore, x, r
<1>4. DOMAIN t = 1..Len(t) /\ Len(t) \in Nat /\ t[1].parent = 0
  BY ProgramFacts
<1>5. y.n \in DOMAIN t /\ m \in DOMAIN t
  BY <1>2, <1>3 DEF Seen, Visited, Fits
<1>6. m \in Visited(x) => m = x.n /\ Listing(x)
  BY DEF Visited, Listing
<1>7. CASE y \in Among(r)
  <2>1. CASE m \in Seen(t, q)
    BY <1>2, <1>7, <2>1 DEF SeenBefore
  <2>2. CASE m \in Visited(x)
    <3>1. m < y.n
      BY <1>2, <1>6, <1>7, <2>2 DEF Order
    <3>. QED BY <3>1, <1>4, <1>5
  <2>. QED BY <2>1, <2>2
<1>8. CASE y \in Among(ts)
  <2>1. CASE y.n = x.n /\ Listing(x)
    <3>1. CASE m \in Seen(t, q)
      BY <1>2, <2>1, <3>1 DEF SeenBefore
    <3>2. CASE m \in Visited(x)
      BY <1>4, <1>5, <1>6, <2>1, <3>2
    <3>. QED BY <3>1, <3>2
  <2>2. CASE t[y.n].parent = x.n /\ (x.t \in {"method", "constructor"} \/ (x.t = "visit" /\ ~Deferred(t, x.n)))
    <3>1. m \in Inner(t, x.n)
      BY <1>2, <1>5, <2>2, Siblings
    <3>2. m \in Claims(t, x)
      BY <2>2, <3>1 DEF Claims
    <3>3. m # x.n
      BY <3>1 DEF Inner
    <3>. QED BY <1>2, <1>6, <3>2, <3>3 DEF Seen
  <2>. QED BY <1>3, <1>8, <2>1, <2>2 DEF LeadsTo
<1>. QED BY <1>7, <1>8

(***************************************************************************)
(* Ascending lists                                                         *)
(***************************************************************************)
\* s lists R in ascending order.
AscendsTo(s, R) ==
  /\ s \in Seq(R)
  /\ \A i, j \in DOMAIN s : i < j => s[i] < s[j]
  /\ \A m \in R : \E i \in DOMAIN s : s[i] = m

\* Appending what is above everything so far keeps a sequence ascending.
LEMMA AscendsAppend ==
  ASSUME NEW s, NEW R \in SUBSET Nat, NEW m \in Nat, AscendsTo(s, R), \A r \in R : r < m
  PROVE  AscendsTo(Append(s, m), R \cup {m})
<1>. DEFINE a == Append(s, m)
<1>1. s \in Seq(R) /\ s \in Seq(R \cup {m}) /\ m \in R \cup {m}
  BY DEF AscendsTo
<1>2. a \in Seq(R \cup {m}) /\ DOMAIN a = 1..(Len(s) + 1) /\ DOMAIN s = 1..Len(s) /\ Len(s) \in Nat
      /\ a[Len(s) + 1] = m /\ \A i \in 1..Len(s) : a[i] = s[i] /\ s[i] \in R
  BY <1>1
<1>. HIDE DEF a
<1>3. ASSUME NEW i \in DOMAIN a, NEW j \in DOMAIN a, i < j PROVE a[i] < a[j]
  <2>1. i \in 1..Len(s) /\ (j \in 1..Len(s) \/ j = Len(s) + 1)
    BY <1>2, <1>3
  <2>. QED BY <2>1, <1>2, <1>3 DEF AscendsTo
<1>4. ASSUME NEW r \in R \cup {m} PROVE \E i \in DOMAIN a : a[i] = r
  <2>1. CASE r \in R
    <3>1. PICK i \in DOMAIN s : s[i] = r
      BY <2>1 DEF AscendsTo
    <3>2. i \in DOMAIN a /\ a[i] = r
      BY <3>1, <1>2
    <3>. QED BY <3>2
  <2>2. CASE r = m
    <3>1. Len(s) + 1 \in DOMAIN a
      BY <1>2
    <3>. QED BY <3>1, <2>2, <1>2
  <2>. QED BY <2>1, <2>2
<1>. QED BY <1>2, <1>3, <1>4 DEF AscendsTo, a

\* A selection of an ascending sequence ascends.
LEMMA AscendsOnly ==
  ASSUME NEW s, NEW R \in SUBSET Nat, AscendsTo(s, R), NEW S
  PROVE  AscendsTo(Only(s, S), R \cap S)
<1>. DEFINE r == Only(s, S)
<1>1. s \in Seq(R)
  BY DEF AscendsTo
<1>2. r \in Seq(R) /\ \E w : Picks(s, S, Len(s), r, w)
  BY <1>1, OnlyPicks
<1>. HIDE DEF r
<1>3. PICK w : Picks(s, S, Len(s), r, w)
  BY <1>2
<1>4. DOMAIN r = 1..Len(r) /\ Len(r) \in Nat /\ DOMAIN s = 1..Len(s)
  BY <1>1, <1>2
<1>5. \A i \in 1..Len(r) : r[i] = s[w[i]] /\ r[i] \in S /\ w[i] \in DOMAIN s /\ r[i] \in R
  <2>1. \A i \in 1..Len(r) : w[i] \in 1..Len(s) /\ r[i] = s[w[i]] /\ r[i] \in S
    BY <1>3 DEF Picks
  <2>. QED BY <2>1, <1>2, <1>4
<1>6. r \in Seq(R \cap S)
  <2>1. \A i \in 1..Len(r) : r[i] \in R \cap S
    BY <1>5
  <2>. QED BY <2>1, <1>2, <1>4
<1>7. ASSUME NEW i \in DOMAIN r, NEW j \in DOMAIN r, i < j PROVE r[i] < r[j]
  <2>1. w[i] < w[j] /\ w[i] \in DOMAIN s /\ w[j] \in DOMAIN s
    BY <1>3, <1>4, <1>5, <1>7 DEF Picks
  <2>2. s[w[i]] < s[w[j]]
    BY <2>1 DEF AscendsTo
  <2>. QED BY <2>2, <1>4, <1>5
<1>8. ASSUME NEW m \in R \cap S PROVE \E i \in DOMAIN r : r[i] = m
  <2>1. PICK j \in DOMAIN s : s[j] = m
    BY DEF AscendsTo
  <2>2. PICK i \in 1..Len(r) : w[i] = j
    BY <2>1, <1>3, <1>4 DEF Picks
  <2>. QED BY <2>1, <2>2, <1>4, <1>5
<1>. QED BY <1>6, <1>7, <1>8 DEF AscendsTo, r

\* Kids lists exactly the children of a node, in ascending order.
LEMMA KidsAscend ==
  ASSUME NEW t, IsProgram(t), NEW n
  PROVE  AscendsTo(Kids(t, n), {m \in DOMAIN t : t[m].parent = n})
<1>. DEFINE s == Kids(t, n)
            R == {m \in DOMAIN t : t[m].parent = n}
<1>1. /\ s \in Seq(DOMAIN t)
      /\ \A i \in DOMAIN s : t[s[i]].parent = n
      /\ \A i, j \in DOMAIN s : i < j => s[i] < s[j]
      /\ \A m \in DOMAIN t : t[m].parent = n => \E i \in DOMAIN s : s[i] = m
  BY KidsFacts
<1>. HIDE DEF s
<1>2. DOMAIN s = 1..Len(s) /\ Len(s) \in Nat /\ \A i \in 1..Len(s) : s[i] \in R
  BY <1>1
<1>3. s \in Seq(R)
  BY <1>1, <1>2
<1>. QED BY <1>1, <1>3 DEF AscendsTo, s

\* Lists of the same numbers are the same.
LEMMA AscendsUnique ==
  ASSUME NEW a, NEW b, NEW R \in SUBSET Nat, AscendsTo(a, R), AscendsTo(b, R)
  PROVE  a = b
<1>1. /\ a \in Seq(R) /\ b \in Seq(R) /\ DOMAIN a = 1..Len(a) /\ DOMAIN b = 1..Len(b)
      /\ Len(a) \in Nat /\ Len(b) \in Nat
      /\ (\A i \in DOMAIN a : a[i] \in R /\ a[i] \in Nat) /\ (\A i \in DOMAIN b : b[i] \in R /\ b[i] \in Nat)
  <2>1. a \in Seq(R) /\ b \in Seq(R)
    BY DEF AscendsTo
  <2>2. DOMAIN a = 1..Len(a) /\ Len(a) \in Nat /\ \A i \in 1..Len(a) : a[i] \in R
    BY <2>1
  <2>3. DOMAIN b = 1..Len(b) /\ Len(b) \in Nat /\ \A i \in 1..Len(b) : b[i] \in R
    BY <2>1
  <2>. QED BY <2>1, <2>2, <2>3
<1>. DEFINE S == {i \in 0..Len(a) : i = 0 \/ (i \in DOMAIN b /\ a[i] = b[i])}
<1>2. ASSUME NEW i \in 0..Len(a), 0..(i - 1) \subseteq S PROVE i \in S
  <2>1. CASE i = 0
    BY <2>1
  <2>2. CASE i # 0
    <3>0. i \in DOMAIN a
      BY <2>2, <1>1
    <3>1. \A j \in 1..(i - 1) : j \in DOMAIN b /\ a[j] = b[j] /\ j \in DOMAIN a
      <4>. SUFFICES ASSUME NEW j \in 1..(i - 1) PROVE j \in DOMAIN b /\ a[j] = b[j] /\ j \in DOMAIN a
        OBVIOUS
      <4>1. j \in 0..(i - 1) /\ j # 0
        OBVIOUS
      <4>2. j \in S
        BY <4>1, <1>2
      <4>. QED BY <4>1, <4>2, <1>1
    <3>. HIDE DEF S
    <3>2. PICK j \in DOMAIN b : b[j] = a[i]
      BY <3>0, <1>1 DEF AscendsTo
    <3>3. i <= j
      <4>. SUFFICES ASSUME j < i PROVE FALSE
        BY <3>2, <1>1, <3>0
      <4>1. j \in 1..(i - 1)
        BY <1>1, <3>0
      <4>2. a[j] = b[j] /\ j \in DOMAIN a
        BY <4>1, <3>1
      <4>3. a[j] < a[i]
        BY <4>2, <3>0 DEF AscendsTo
      <4>. QED BY <4>2, <4>3, <3>2, <3>0, <1>1
    <3>4. i \in DOMAIN b
      BY <3>3, <3>2, <3>0, <1>1
    <3>5. PICK k \in DOMAIN a : a[k] = b[i]
      BY <3>4, <1>1 DEF AscendsTo
    <3>6. i <= k
      <4>. SUFFICES ASSUME k < i PROVE FALSE
        BY <3>5, <1>1, <3>0
      <4>1. k \in 1..(i - 1)
        BY <1>1, <3>0, <3>5
      <4>2. a[k] = b[k] /\ k \in DOMAIN b
        BY <4>1, <3>1
      <4>3. b[k] < b[i]
        BY <4>2, <3>4 DEF AscendsTo
      <4>. QED BY <4>2, <4>3, <3>5, <3>4, <1>1
    <3>7. a[i] <= b[i]
      <4>1. CASE k = i
        BY <4>1, <3>5, <3>0, <1>1
      <4>2. CASE k # i
        <5>1. a[i] < a[k]
          BY <4>2, <3>0, <3>5, <3>6, <1>1 DEF AscendsTo
        <5>. QED BY <5>1, <3>5, <3>0, <3>4, <1>1
      <4>. QED BY <4>1, <4>2
    <3>8. b[i] <= a[i]
      <4>1. CASE j = i
        BY <4>1, <3>2, <3>0, <1>1
      <4>2. CASE j # i
        <5>1. b[i] < b[j]
          BY <4>2, <3>4, <3>2, <3>3, <1>1 DEF AscendsTo
        <5>. QED BY <5>1, <3>2, <3>0, <3>4, <1>1
      <4>. QED BY <4>1, <4>2
    <3>. QED BY <3>0, <3>4, <3>7, <3>8, <1>1 DEF S
  <2>. QED BY <2>1, <2>2
<1>3. S = 0..Len(a)
  <2>1. S \in SUBSET (0..Len(a)) /\ Len(a) \in Nat
    BY <1>1
  <2>. HIDE DEF S
  <2>. QED BY <1>2, <2>1, SetInduction
<1>4. \A i \in DOMAIN a : i \in DOMAIN b /\ a[i] = b[i]
  <2>. SUFFICES ASSUME NEW i \in DOMAIN a PROVE i \in DOMAIN b /\ a[i] = b[i]
    OBVIOUS
  <2>1. i \in 0..Len(a) /\ i # 0
    BY <1>1
  <2>2. i \in S
    BY <2>1, <1>3
  <2>. QED BY <2>1, <2>2
<1>. HIDE DEF S
<1>5. \A j \in DOMAIN b : j \in DOMAIN a
  <2>. SUFFICES ASSUME NEW j \in DOMAIN b, j \notin DOMAIN a PROVE FALSE
    OBVIOUS
  <2>1. PICK k \in DOMAIN a : a[k] = b[j]
    BY <1>1 DEF AscendsTo
  <2>2. k \in DOMAIN b /\ b[k] = b[j] /\ k < j
    BY <2>1, <1>1, <1>4
  <2>3. b[k] < b[j]
    BY <2>2 DEF AscendsTo
  <2>. QED BY <2>2, <2>3, <1>1
<1>6. Len(a) = Len(b)
  <2>1. \A m, n \in Nat : 1..m \subseteq 1..n /\ 1..n \subseteq 1..m => m = n
    <3>. SUFFICES ASSUME NEW m \in Nat, NEW n \in Nat, 1..m \subseteq 1..n, 1..n \subseteq 1..m PROVE m = n
      OBVIOUS
    <3>1. m # 0 => m \in 1..m
      OBVIOUS
    <3>2. n # 0 => n \in 1..n
      OBVIOUS
    <3>3. (m # 0 => m \in 1..n) /\ (n # 0 => n \in 1..m)
      BY <3>1, <3>2
    <3>. QED BY <3>3
  <2>2. 1..Len(a) \subseteq 1..Len(b) /\ 1..Len(b) \subseteq 1..Len(a)
    BY <1>1, <1>4, <1>5
  <2>. QED BY <2>1, <2>2, <1>1
<1>. QED BY <1>1, <1>4, <1>6

(***************************************************************************)
(* The function code belongs to                                            *)
(***************************************************************************)
Headed(t, n) == t[n].k \in {"function", "method", "constructor"}
Initialised(t, n) == t[n].k = "member" /\ ~t[n].static

HomeMap(t, f) ==
  f = [m \in DOMAIN t |->
         IF t[m].k \in {"function", "method", "constructor"} THEN m
         ELSE IF t[m].k = "member" /\ ~t[m].static THEN Len(t) + t[m].parent
         ELSE IF m = 1 THEN 1 ELSE f[t[m].parent]]

\* A node that is no function and no member is of the function its parent is of.
LEMMA HomeStep ==
  ASSUME NEW t, IsProgram(t), NEW n \in DOMAIN t
  PROVE  /\ HomeOf(t, n) = IF Headed(t, n) THEN n
                           ELSE IF Initialised(t, n) THEN Len(t) + t[n].parent
                           ELSE IF n = 1 THEN 1 ELSE HomeOf(t, t[n].parent)
         /\ HomeOf(t, n) \in 1..(2 * Len(t))
<1>. DEFINE N == Len(t)
            Stop == {0, 1} \cup {m \in DOMAIN t : Headed(t, m) \/ Initialised(t, m)}
            next == [x \in 0..N |-> t[x].parent]
            here == [x \in 0..N |-> IF x \in DOMAIN t
                                    THEN IF Headed(t, x) THEN x ELSE IF Initialised(t, x) THEN N + t[x].parent ELSE 1
                                    ELSE 1]
            home == CHOOSE f : HomeMap(t, f)
<1>1. DOMAIN t = 1..N /\ N \in Nat \ {0} /\ (\A x \in 1..N : t[x].parent \in 0..(x - 1)) /\ t[1].k = "block"
      /\ \A x \in 1..N : x # 1 => t[x].parent \in 1..N
  <2>1. \A x \in DOMAIN t : t[x].parent \in 0..(x - 1) /\ (x # 1 => t[x].parent \in DOMAIN t)
    BY ProgramFacts
  <2>. QED BY <2>1, ProgramFacts
<1>2. Descends(N, Stop, next)
  <2>. SUFFICES ASSUME NEW x \in 0..N, x \notin Stop PROVE next[x] \in 0..(x - 1)
    BY DEF Descends
  <2>1. x \in 1..N
    BY <1>1
  <2>. QED BY <2>1, <1>1
<1>3. here \in [0..N -> 1..(2 * N)] /\ N \in Nat
  <2>. SUFFICES ASSUME NEW x \in 0..N PROVE here[x] \in 1..(2 * N)
    BY <1>1
  <2>1. ~Headed(t, x) /\ Initialised(t, x) => x # 1
    BY <1>1 DEF Initialised
  <2>2. x \in DOMAIN t /\ Initialised(t, x) => t[x].parent \in 1..N
    BY <1>1 DEF Initialised
  <2>. QED BY <2>1, <2>2, <1>1
<1>4. \E f \in [0..N -> 1..(2 * N)] : ClimbsTo(N, Stop, next, here, f)
  <2>. DEFINE V == 1..(2 * N)
  <2>. HIDE DEF N, Stop, next, here, V
  <2>1. \E f \in [0..N -> V] : ClimbsTo(N, Stop, next, here, f)
    BY <1>2, <1>3, ClimbDefined DEF V
  <2>. QED BY <2>1 DEF V
<1>5. PICK f \in [0..N -> 1..(2 * N)] : \A x \in 0..N : f[x] = IF x \in Stop THEN here[x] ELSE f[next[x]]
  BY <1>4 DEF ClimbsTo
<1>6. \A x \in DOMAIN t : f[x] = IF Headed(t, x) THEN x ELSE IF Initialised(t, x) THEN N + t[x].parent
                                 ELSE IF x = 1 THEN 1 ELSE f[t[x].parent]
  <2>. SUFFICES ASSUME NEW x \in DOMAIN t
                PROVE  f[x] = IF Headed(t, x) THEN x ELSE IF Initialised(t, x) THEN N + t[x].parent
                              ELSE IF x = 1 THEN 1 ELSE f[t[x].parent]
    OBVIOUS
  <2>1. x \in 0..N /\ x # 0
    BY <1>1
  <2>2. CASE x \in Stop
    <3>1. f[x] = here[x]
      BY <2>1, <2>2, <1>5
    <3>2. here[x] = IF Headed(t, x) THEN x ELSE IF Initialised(t, x) THEN N + t[x].parent ELSE 1
      BY <2>1
    <3>3. ~Headed(t, x) /\ ~Initialised(t, x) => x = 1
      BY <2>1, <2>2
    <3>. QED BY <3>1, <3>2, <3>3
  <2>3. CASE x \notin Stop
    <3>1. f[x] = f[t[x].parent]
      BY <2>1, <2>3, <1>5
    <3>2. ~Headed(t, x) /\ ~Initialised(t, x) /\ x # 1
      BY <2>3
    <3>. QED BY <3>1, <3>2
  <2>. QED BY <2>2, <2>3
<1>. DEFINE g == [x \in DOMAIN t |-> f[x]]
<1>7. HomeMap(t, g)
  <2>1. \A x \in DOMAIN t : g[x] = f[x]
    OBVIOUS
  <2>2. g = [x \in DOMAIN t |-> g[x]]
    OBVIOUS
  <2>3. \A x \in DOMAIN t : ~Headed(t, x) /\ ~Initialised(t, x) /\ x # 1 => g[t[x].parent] = f[t[x].parent]
    BY <1>1
  <2>. HIDE DEF g
  <2>4. \A x \in DOMAIN t : g[x] = IF Headed(t, x) THEN x ELSE IF Initialised(t, x) THEN N + t[x].parent
                                 ELSE IF x = 1 THEN 1 ELSE g[t[x].parent]
    BY <2>1, <2>3, <1>6
  <2>. QED BY <2>2, <2>4 DEF HomeMap, Headed, Initialised
<1>8. HomeMap(t, home)
  BY <1>7
<1>9. \A x \in DOMAIN t : HomeOf(t, x) = home[x]
  BY DEF HomeOf, HomeMap
<1>. HIDE DEF home
<1>10. \A x \in DOMAIN t : home[x] = IF Headed(t, x) THEN x ELSE IF Initialised(t, x) THEN N + t[x].parent
                                 ELSE IF x = 1 THEN 1 ELSE home[t[x].parent]
  BY <1>8 DEF HomeMap, Headed, Initialised
<1>. DEFINE S == {x \in DOMAIN t : home[x] \in 1..(2 * N)}
<1>11. ASSUME NEW x \in DOMAIN t, x = 1 \/ t[x].parent \in S PROVE x \in S
  <2>1. Initialised(t, x) => x # 1
    BY <1>1 DEF Initialised
  <2>2. Initialised(t, x) => t[x].parent \in 1..N
    BY <2>1, <1>1
  <2>3. x \in 1..N /\ N \in Nat
    BY <1>1
  <2>. QED BY <2>2, <2>3, <1>10, <1>11
<1>12. S = DOMAIN t
  <2>1. S \in SUBSET DOMAIN t
    OBVIOUS
  <2>. HIDE DEF S
  <2>. QED BY <1>11, <2>1, NodeInduction
<1>13. n # 1 => t[n].parent \in DOMAIN t
  BY <1>1
<1>. QED BY <1>9, <1>10, <1>12, <1>13

(***************************************************************************)
(* The stack of functions                                                  *)
(***************************************************************************)
Stacks(t) == Seq(1..(2 * Len(t)))
\* The function that is compiled when it is task x's turn.
Where(t, x) ==
  IF x.t \in {"visit", "addMethod", "method", "constructor"}
  THEN IF x.n = 1 THEN 1 ELSE HomeOf(t, t[x.n].parent)
  ELSE IF x.t = "endInit" THEN Len(t) + x.n ELSE HomeOf(t, x.n)
Ends(x) == x.t \in {"endFunction", "endConstructor", "endInit"}
\* Task x, and what it leads to, takes stack a to stack b.
Turn(t, x, a, b) ==
  /\ a # <<>> /\ Head(a) = Where(t, x)
  /\ Ends(x) => b = Tail(a) /\ b # <<>> /\ x.old = Head(b)
  /\ x.t = "beginInit" => b = <<Len(t) + x.n>> \o a
  /\ ~Ends(x) /\ x.t # "beginInit" => b = a
\* The tasks of q, one after the other, take a to b.
Path(t, q, a, b) ==
  \E s \in [1..(Len(q) + 1) -> Stacks(t)] :
    s[1] = a /\ s[Len(q) + 1] = b /\ \A i \in DOMAIN q : Turn(t, q[i], s[i], s[i + 1])

\* Nothing to do leaves the stack of functions as it is.
LEMMA PathNone ==
  ASSUME NEW t, NEW a \in Stacks(t)
  PROVE  Path(t, <<>>, a, a)
<1>. DEFINE q == <<>>
            s == [i \in 1..(Len(q) + 1) |-> a]
<1>1. Len(q) = 0 /\ DOMAIN q = {}
  OBVIOUS
<1>2. 1 \in 1..(Len(q) + 1) /\ Len(q) + 1 \in 1..(Len(q) + 1)
  BY <1>1
<1>3. s \in [1..(Len(q) + 1) -> Stacks(t)] /\ s[1] = a /\ s[Len(q) + 1] = a
  BY <1>2
<1>. HIDE DEF q, s
<1>4. Path(t, q, a, a)
  BY <1>1, <1>3 DEF Path
<1>. QED BY <1>4 DEF q

\* One task, done, is a path.
LEMMA PathOne ==
  ASSUME NEW t, NEW x, NEW a \in Stacks(t), NEW b \in Stacks(t), Turn(t, x, a, b)
  PROVE  Path(t, <<x>>, a, b)
<1>. DEFINE s == [i \in 1..2 |-> IF i = 1 THEN a ELSE b]
<1>1. s \in [1..2 -> Stacks(t)] /\ s[1] = a /\ s[2] = b
  OBVIOUS
<1>. HIDE DEF s
<1>2. Len(<<x>>) = 1 /\ DOMAIN <<x>> = 1..1 /\ <<x>>[1] = x
  OBVIOUS
<1>3. \A i \in DOMAIN <<x>> : i = 1
  BY <1>2
<1>. QED BY <1>1, <1>2, <1>3 DEF Path

\* Tasks that all leave the stack as it is.
LEMMA PathFlat ==
  ASSUME NEW t, NEW q, NEW T, q \in Seq(T), NEW a \in Stacks(t), \A y \in Among(q) : Turn(t, y, a, a)
  PROVE  Path(t, q, a, a)
<1>1. \A i \in DOMAIN q : i + 1 \in 1..(Len(q) + 1) /\ i \in 1..(Len(q) + 1) /\ Turn(t, q[i], a, a)
  BY DEF Among
<1>2. 1 \in 1..(Len(q) + 1) /\ Len(q) + 1 \in 1..(Len(q) + 1)
  OBVIOUS
<1>3. [i \in 1..(Len(q) + 1) |-> a] \in [1..(Len(q) + 1) -> Stacks(t)]
  OBVIOUS
<1>. QED BY <1>1, <1>2, <1>3 DEF Path

\* Paths one after the other.
LEMMA PathConcat ==
  ASSUME NEW t, NEW T, NEW p \in Seq(T), NEW q \in Seq(T), NEW a, NEW b, NEW c, Path(t, p, a, b), Path(t, q, b, c)
  PROVE  Path(t, p \o q, a, c)
<1>. DEFINE m == Len(p)
            n == Len(q)
            r == p \o q
<1>1. m \in Nat /\ n \in Nat /\ DOMAIN p = 1..m /\ DOMAIN q = 1..n /\ Len(r) = m + n /\ DOMAIN r = 1..(m + n)
      /\ \A i \in 1..(m + n) : r[i] = IF i <= m THEN p[i] ELSE q[i - m]
  OBVIOUS
<1>2. PICK u \in [1..(m + 1) -> Stacks(t)] :
        u[1] = a /\ u[m + 1] = b /\ \A i \in 1..m : Turn(t, p[i], u[i], u[i + 1])
  BY <1>1 DEF Path
<1>3. PICK v \in [1..(n + 1) -> Stacks(t)] :
        v[1] = b /\ v[n + 1] = c /\ \A i \in 1..n : Turn(t, q[i], v[i], v[i + 1])
  BY <1>1 DEF Path
<1>. HIDE DEF m, n, r
<1>. DEFINE s == [i \in 1..(m + n + 1) |-> IF i <= m THEN u[i] ELSE v[i - m]]
<1>4. \A i \in 1..(m + n + 1) : (i <= m => i \in 1..(m + 1)) /\ (~(i <= m) => i - m \in 1..(n + 1))
  BY <1>1
<1>5. s \in [1..(m + n + 1) -> Stacks(t)]
  BY <1>2, <1>3, <1>4
<1>6. s[1] = a
  <2>1. CASE m = 0
    BY <2>1, <1>1, <1>2, <1>3
  <2>2. CASE m # 0
    BY <2>2, <1>1, <1>2
  <2>. QED BY <2>1, <2>2
<1>7. s[m + n + 1] = c
  BY <1>1, <1>3
<1>8. ASSUME NEW i \in 1..(m + n) PROVE Turn(t, r[i], s[i], s[i + 1])
  <2>1. CASE i <= m
    <3>1. i \in 1..m /\ s[i] = u[i] /\ r[i] = p[i]
      BY <2>1, <1>1
    <3>2. s[i + 1] = u[i + 1]
      <4>1. CASE i = m
        <5>1. s[i + 1] = v[1]
          BY <4>1, <1>1, <3>1
        <5>. QED BY <5>1, <4>1, <1>2, <1>3
      <4>2. CASE i # m
        BY <4>2, <3>1, <1>1
      <4>. QED BY <4>1, <4>2
    <3>. QED BY <3>1, <3>2, <1>2
  <2>2. CASE ~(i <= m)
    <3>1. i - m \in 1..n /\ s[i] = v[i - m] /\ r[i] = q[i - m] /\ s[i + 1] = v[(i - m) + 1]
      <4>1. i - m \in 1..n /\ i + 1 \in 1..(m + n + 1) /\ ~(i + 1 <= m) /\ (i + 1) - m = (i - m) + 1 /\ i \in 1..(m + n + 1)
        BY <2>2, <1>1
      <4>. QED BY <4>1, <2>2, <1>1
    <3>. HIDE DEF s
    <3>. QED BY <3>1, <1>3
  <2>. QED BY <2>1, <2>2
<1>. HIDE DEF s
<1>9. Len(r) + 1 = m + n + 1
  BY <1>1
<1>. QED BY <1>1, <1>5, <1>6, <1>7, <1>8, <1>9 DEF Path, r

\* The first step of a path, and the path of the rest.
LEMMA PathTail ==
  ASSUME NEW t, NEW T, NEW q \in Seq(T), q # <<>>, NEW a, NEW c, Path(t, q, a, c)
  PROVE  a \in Stacks(t) /\ \E b \in Stacks(t) : Turn(t, Head(q), a, b) /\ Path(t, Tail(q), b, c)
<1>. DEFINE n == Len(q)
            r == Tail(q)
<1>1. n \in Nat \ {0} /\ DOMAIN q = 1..n /\ Len(r) = n - 1 /\ DOMAIN r = 1..(n - 1) /\ Head(q) = q[1]
      /\ \A i \in 1..(n - 1) : r[i] = q[i + 1]
  OBVIOUS
<1>2. PICK u \in [1..(n + 1) -> Stacks(t)] :
        u[1] = a /\ u[n + 1] = c /\ \A i \in 1..n : Turn(t, q[i], u[i], u[i + 1])
  BY <1>1 DEF Path
<1>. HIDE DEF n, r
<1>. DEFINE s == [i \in 1..n |-> u[i + 1]]
<1>3. s \in [1..n -> Stacks(t)] /\ s[n] = c /\ s[1] = u[2] /\ u[2] \in Stacks(t) /\ a \in Stacks(t)
  BY <1>1, <1>2
<1>4. \A i \in 1..(n - 1) : Turn(t, r[i], s[i], s[i + 1])
  <2>. SUFFICES ASSUME NEW i \in 1..(n - 1) PROVE Turn(t, r[i], s[i], s[i + 1])
    OBVIOUS
  <2>1. i + 1 \in 1..n /\ i \in 1..n /\ (i + 1) + 1 \in 1..(n + 1)
    BY <1>1
  <2>2. r[i] = q[i + 1] /\ s[i] = u[i + 1] /\ s[i + 1] = u[(i + 1) + 1]
    BY <1>1, <2>1
  <2>. HIDE DEF s
  <2>. QED BY <2>1, <2>2, <1>2
<1>. HIDE DEF s
<1>5. Path(t, r, u[2], c)
  <2>1. Len(r) + 1 = n
    BY <1>1
  <2>. QED BY <2>1, <1>1, <1>3, <1>4 DEF Path
<1>6. Turn(t, Head(q), a, u[2])
  BY <1>1, <1>2
<1>. QED BY <1>3, <1>5, <1>6 DEF r

\* Of a node's children the same function is compiled as of the node.
LEMMA WhereKid ==
  ASSUME NEW t, IsProgram(t), NEW p \in DOMAIN t, NEW c \in DOMAIN t, t[c].parent = p, NEW y, y.n = c,
         y.t \in {"visit", "addMethod", "method", "constructor"}
  PROVE  Where(t, y) = HomeOf(t, p)
<1>1. c # 1
  BY Siblings
<1>. QED BY <1>1 DEF Where

\* A node that is neither a function nor initialised in one is compiled where it is visited.
LEMMA WhereOwn ==
  ASSUME NEW t, IsProgram(t), NEW p \in DOMAIN t, ~Headed(t, p), ~Initialised(t, p), NEW x, x.n = p, x.t = "visit"
  PROVE  HomeOf(t, p) = Where(t, x)
BY HomeStep DEF Where

\* Pushing a function on a stack of functions, and what its head and tail are.
LEMMA Onto ==
  ASSUME NEW t, NEW a \in Stacks(t), NEW f \in 1..(2 * Len(t))
  PROVE  /\ <<f>> \o a \in Stacks(t) /\ <<f>> \o a # <<>> /\ Head(<<f>> \o a) = f /\ Tail(<<f>> \o a) = a
         /\ (a # <<>> => Head(a) \in 1..(2 * Len(t)) /\ Tail(a) \in Stacks(t))
BY DEF Stacks

(***************************************************************************)
(* The tasks there are because of each                                     *)
(***************************************************************************)
KidVisit(t, p, y) ==
  y.t = "visit" /\ t[y.n].parent = p /\ y.n # p /\ Fits(t, y) /\ Relative(t, p, y) /\ Where(t, y) = HomeOf(t, p)

\* Visits of children in ascending order are a queue of visits of those
\* children.
LEMMA VisitsQueue ==
  ASSUME NEW t, IsProgram(t), NEW p \in DOMAIN t, NEW R \in SUBSET DOMAIN t, \A c \in R : t[c].parent = p,
         NEW s, AscendsTo(s, R)
  PROVE  /\ Visits(s) \in Seq(Tasks(t)) /\ Queue(t, Visits(s))
         /\ \A y \in Among(Visits(s)) : KidVisit(t, p, y) /\ y.n \in R
         /\ \A c \in R : \E y \in Among(Visits(s)) : y.t = "visit" /\ y.n = c
<1>. DEFINE q == Visits(s)
<1>1. Len(t) \in Nat
  BY ProgramFacts
<1>2. \A c \in R : c \in DOMAIN t /\ t[c].parent = p /\ c # p
  BY Siblings
<1>3. \A c \in R : KidVisit(t, p, Visit(c)) /\ Visit(c) \in Tasks(t) /\ Visit(c).t = "visit" /\ Visit(c).n = c
  <2>. TAKE c \in R
  <2>1. Visit(c).t = "visit" /\ Visit(c).n = c /\ Visit(c).old = 0
    BY DEF Visit
  <2>2. Visit(c) \in Tasks(t)
    BY <1>1, <1>2 DEF Visit, Tasks, TaskKinds
  <2>3. Fits(t, Visit(c))
    BY <2>1, <2>2 DEF Fits, Tasks
  <2>4. Relative(t, p, Visit(c))
    BY <1>2, <2>1 DEF Relative
  <2>5. Where(t, Visit(c)) = HomeOf(t, p)
    BY <1>2, <2>1, WhereKid
  <2>. QED BY <1>2, <2>1, <2>2, <2>3, <2>4, <2>5 DEF KidVisit
<1>4. s \in Seq(R) /\ DOMAIN s = 1..Len(s) /\ Len(s) \in Nat /\ \A i \in DOMAIN s : s[i] \in R
  BY DEF AscendsTo
<1>5. s \in Seq(DOMAIN t)
  BY <1>4
<1>6. DOMAIN q = DOMAIN s /\ \A i \in DOMAIN s : q[i] = Visit(s[i])
  BY DEF Visits
<1>7. q \in Seq(Tasks(t))
  BY <1>3, <1>4 DEF Visits
<1>. HIDE DEF q
<1>8. \A i \in DOMAIN s : q[i].n = s[i] /\ s[i] # p /\ Fits(t, q[i]) /\ Relative(t, p, q[i])
  BY <1>2, <1>3, <1>4, <1>6 DEF KidVisit
<1>9. TasksFor(t, p, s, q)
  BY <1>5, <1>6, <1>7, <1>8 DEF TasksFor, AscendsTo
<1>10. Queue(t, q)
  BY <1>9, KidTasks
<1>11. \A y \in Among(q) : KidVisit(t, p, y) /\ y.n \in R
  BY <1>3, <1>4, <1>6 DEF Among
<1>12. \A c \in R : \E y \in Among(q) : y.t = "visit" /\ y.n = c
  <2>1. \A c \in R : \E i \in DOMAIN s : s[i] = c
    BY DEF AscendsTo
  <2>. QED BY <1>3, <1>6, <2>1 DEF Among
<1>. QED BY <1>7, <1>10, <1>11, <1>12 DEF q

\* q visits the children of p that are in S.
VisitsTo(t, p, S, q) ==
  /\ q \in Seq(Tasks(t)) /\ Queue(t, q)
  /\ \A y \in Among(q) : KidVisit(t, p, y) /\ y.n \in S
  /\ \A c \in DOMAIN t : t[c].parent = p /\ c \in S => \E y \in Among(q) : y.t = "visit" /\ y.n = c

\* The same for a selection of the children.
LEMMA ListVisits ==
  ASSUME NEW t, IsProgram(t), NEW p \in DOMAIN t, NEW S, NEW s,
         AscendsTo(s, {m \in DOMAIN t : t[m].parent = p /\ m \in S})
  PROVE  VisitsTo(t, p, S, Visits(s))
<1>. DEFINE R == {m \in DOMAIN t : t[m].parent = p /\ m \in S}
            q == Visits(s)
<1>1. R \in SUBSET DOMAIN t /\ AscendsTo(s, R) /\ \A c \in R : t[c].parent = p
  OBVIOUS
<1>2. \A c : c \in R <=> c \in DOMAIN t /\ t[c].parent = p /\ c \in S
  OBVIOUS
<1>. HIDE DEF R
<1>3. /\ q \in Seq(Tasks(t)) /\ Queue(t, q)
      /\ \A y \in Among(q) : KidVisit(t, p, y) /\ y.n \in R
      /\ \A c \in R : \E y \in Among(q) : y.t = "visit" /\ y.n = c
  BY <1>1, VisitsQueue
<1>. HIDE DEF q
<1>4. VisitsTo(t, p, S, q)
  BY <1>2, <1>3 DEF VisitsTo
<1>. QED BY <1>4 DEF q

\* Visiting a selection of the children of p.
LEMMA OnlyVisits ==
  ASSUME NEW t, IsProgram(t), NEW p \in DOMAIN t, NEW S
  PROVE  VisitsTo(t, p, S, Visits(Only(Kids(t, p), S)))
<1>. DEFINE R == {m \in DOMAIN t : t[m].parent = p}
            s == Only(Kids(t, p), S)
<1>1. AscendsTo(s, R \cap S)
  <2>1. R \in SUBSET Nat
    BY ProgramFacts
  <2>2. AscendsTo(Kids(t, p), R)
    BY KidsAscend
  <2>. HIDE DEF R
  <2>. QED BY <2>1, <2>2, AscendsOnly
<1>2. R \cap S = {m \in DOMAIN t : t[m].parent = p /\ m \in S}
  OBVIOUS
<1>. HIDE DEF s
<1>3. VisitsTo(t, p, S, Visits(s))
  BY <1>1, <1>2, ListVisits
<1>. QED BY <1>3 DEF s

\* Visiting all the children of p.
LEMMA KidVisits ==
  ASSUME NEW t, IsProgram(t), NEW p \in DOMAIN t
  PROVE  VisitsTo(t, p, DOMAIN t, Visits(Kids(t, p)))
<1>. DEFINE s == Kids(t, p)
<1>1. AscendsTo(s, {m \in DOMAIN t : t[m].parent = p})
  BY KidsAscend
<1>2. {m \in DOMAIN t : t[m].parent = p} = {m \in DOMAIN t : t[m].parent = p /\ m \in DOMAIN t}
  OBVIOUS
<1>. HIDE DEF s
<1>3. VisitsTo(t, p, DOMAIN t, Visits(s))
  BY <1>1, <1>2, ListVisits
<1>. QED BY <1>3 DEF s

\* A task of p itself.
Own(t, p, y, k) == Fits(t, y) /\ y.n = p /\ y.t = k /\ k \notin {"visit", "method", "constructor"}

\* A list of tasks of a node and its children.
Family(t, p, q) == q \in Seq(Tasks(t)) /\ Queue(t, q) /\ \A y \in Among(q) : Fits(t, y) /\ Relative(t, p, y)
\* Task y may come before task z.
Before(t, p, y, z) ==
  /\ y.n = p => ~Closing(y) /\ ~Listing(y) /\ t[p].k # "block"
  /\ y.n = z.n => y.n = p
  /\ Listing(y) /\ Listing(z) /\ z.n # p => y.n < z.n
  /\ z.t = "finalize" => y.t = "visit"

\* Two families of tasks of p, the first before the second, are one.
LEMMA FamilyConcat ==
  ASSUME NEW t, IsProgram(t), NEW p \in DOMAIN t, NEW a, NEW b, Family(t, p, a), Family(t, p, b),
         \A y \in Among(a), z \in Among(b) : Before(t, p, y, z)
  PROVE  Family(t, p, a \o b) /\ Among(a \o b) = Among(a) \cup Among(b)
<1>1. a \in Seq(Tasks(t)) /\ b \in Seq(Tasks(t)) /\ Queue(t, a) /\ Queue(t, b)
  BY DEF Family
<1>2. Among(a \o b) = Among(a) \cup Among(b) /\ a \o b \in Seq(Tasks(t))
  BY <1>1, AmongConcat
<1>3. \A y \in Among(a) \cup Among(b) : Fits(t, y) /\ Relative(t, p, y)
  BY DEF Family
<1>4. \A y \in Among(a), z \in Among(b) : Order(t, y, z)
  BY <1>3, FamilyOrder DEF Before
<1>5. Queue(t, a \o b)
  <2>1. \A i \in DOMAIN a, j \in DOMAIN b : Order(t, a[i], b[j])
    BY <1>4 DEF Among
  <2>. QED BY <1>1, <2>1, QueueConcat
<1>. QED BY <1>2, <1>3, <1>5 DEF Family

\* A task of p is a family.
LEMMA FamilyOne ==
  ASSUME NEW t, NEW p, NEW k, NEW y, Own(t, p, y, k)
  PROVE  Family(t, p, <<y>>) /\ Among(<<y>>) = {y}
<1>1. Fits(t, y) /\ Relative(t, p, y)
  BY DEF Own, Relative
<1>2. y \in Tasks(t)
  BY <1>1 DEF Fits, Tasks
<1>3. <<y>> \in Seq(Tasks(t))
  BY <1>2
<1>. QED BY <1>1, <1>3, QueueOne, AmongOne DEF Family

\* The visits of the children of p are a family.
LEMMA FamilyKids ==
  ASSUME NEW t, IsProgram(t), NEW p \in DOMAIN t
  PROVE  Family(t, p, Visits(Kids(t, p)))
BY KidVisits DEF Family, KidVisit, VisitsTo

Steady(y) == ~Ends(y) /\ y.t # "beginInit"
\* All of q is compiled in function h.
Flat(t, q, h) == \A y \in Among(q) : Steady(y) /\ Where(t, y) = h

\* A family all of whose tasks are done in function h leaves the stack with h
\* on top.
LEMMA FlatPath ==
  ASSUME NEW t, NEW p, NEW q, Family(t, p, q), NEW h, Flat(t, q, h), NEW a \in Stacks(t), a # <<>>, Head(a) = h
  PROVE  Path(t, q, a, a)
<1>1. \A y \in Among(q) : Turn(t, y, a, a)
  BY DEF Flat, Steady, Turn
<1>2. q \in Seq(Tasks(t))
  BY DEF Family
<1>. QED BY <1>1, <1>2, PathFlat

\* The children of p are visited in the function p is in.
LEMMA FlatKids ==
  ASSUME NEW t, IsProgram(t), NEW p \in DOMAIN t
  PROVE  Flat(t, Visits(Kids(t, p)), HomeOf(t, p))
BY KidVisits DEF Flat, Steady, Ends, KidVisit, VisitsTo

\* What x leads to is compiled where x is.
Stays(t, x, ts) == Advance(t, x, ts) /\ \A a \in Stacks(t) : Turn(t, x, a, a) => Path(t, ts, a, a)

\* A task whose family is done where it was done itself leaves the stack as it
\* is.
LEMMA StaysFlat ==
  ASSUME NEW t, NEW p, NEW x, NEW ts, Advance(t, x, ts), Family(t, p, ts), Flat(t, ts, Where(t, x))
  PROVE  Stays(t, x, ts)
<1>1. ASSUME NEW a \in Stacks(t), Turn(t, x, a, a) PROVE Path(t, ts, a, a)
  <2>1. a # <<>> /\ Head(a) = Where(t, x)
    BY <1>1 DEF Turn
  <2>. QED BY <2>1, FlatPath
<1>. QED BY <1>1 DEF Stays

\* So does one that leads to nothing.
LEMMA StaysNone ==
  ASSUME NEW t, NEW x, Claims(t, x) = Visited(x)
  PROVE  Stays(t, x, <<>>)
BY AdvanceNone, PathNone DEF Stays

\* So does one that leads to one later task of its own node.
LEMMA StaysRest ==
  ASSUME NEW t, IsProgram(t), NEW x, NEW y, Fits(t, x), x.t = "visit", Claims(t, x) = {x.n},
         NEW k \in {"initialize", "addMethod"}, Own(t, x.n, y, k), k = "initialize" => t[x.n].k = "decl"
  PROVE  Stays(t, x, <<y>>)
<1>1. Fits(t, y) /\ y.n = x.n /\ y.t = k /\ x.n \in DOMAIN t
  BY DEF Own, Fits
<1>2. Advance(t, x, <<y>>)
  BY <1>1, AdvanceRest
<1>3. Family(t, x.n, <<y>>) /\ Among(<<y>>) = {y}
  BY FamilyOne
<1>4. Where(t, y) = Where(t, x)
  <2>1. CASE k = "addMethod"
    BY <1>1, <2>1 DEF Where
  <2>2. CASE k = "initialize"
    <3>1. HomeOf(t, x.n) = Where(t, x)
      BY <1>1, <2>2, WhereOwn DEF Headed, Initialised
    <3>. QED BY <1>1, <2>2, <3>1 DEF Where
  <2>. QED BY <2>1, <2>2
<1>5. Flat(t, <<y>>, Where(t, x))
  BY <1>1, <1>3, <1>4 DEF Flat, Steady, Ends
<1>. QED BY <1>2, <1>3, <1>5, StaysFlat

\* Visiting a block: its children.
LEMMA BlockTasks ==
  ASSUME NEW t, IsProgram(t), NEW x, Fits(t, x), x.t = "visit", t[x.n].k = "block"
  PROVE  Stays(t, x, Visits(Kids(t, x.n)))
<1>. DEFINE vs == Visits(Kids(t, x.n))
<1>1. x.n \in DOMAIN t
  BY DEF Fits
<1>2. Family(t, x.n, vs) /\ Flat(t, vs, HomeOf(t, x.n))
  BY <1>1, FamilyKids, FlatKids
<1>3. /\ \A y \in Among(vs) : KidVisit(t, x.n, y)
      /\ \A c \in DOMAIN t : t[c].parent = x.n => \E y \in Among(vs) : y.t = "visit" /\ y.n = c
  BY <1>1, KidVisits DEF VisitsTo
<1>. HIDE DEF vs
<1>4. Advance(t, x, vs)
  <2>1. ~Deferred(t, x.n) /\ t[x.n].k # "type"
    BY DEF Deferred
  <2>2. \A y \in Among(vs) : Fits(t, y) /\ y.t = "visit" /\ t[y.n].parent = x.n
    BY <1>3 DEF KidVisit
  <2>. QED BY <1>2, <1>3, <2>1, <2>2, AdvanceInto DEF Family
<1>5. HomeOf(t, x.n) = Where(t, x)
  BY <1>1, WhereOwn DEF Headed, Initialised
<1>. QED BY <1>2, <1>4, <1>5, StaysFlat DEF vs

\* Visiting a branch: the condition, then its blocks.
LEMMA BranchTasks ==
  ASSUME NEW t, IsProgram(t), NEW x, Fits(t, x), x.t = "visit", t[x.n].k = "branch", NEW c, Own(t, x.n, c, "condition")
  PROVE  Stays(t, x, <<c>> \o Visits(Kids(t, x.n)))
<1>. DEFINE vs == Visits(Kids(t, x.n))
            cs == <<c>>
            ts == cs \o vs
<1>1. x.n \in DOMAIN t
  BY DEF Fits
<1>2. Family(t, x.n, vs) /\ Flat(t, vs, HomeOf(t, x.n))
  BY <1>1, FamilyKids, FlatKids
<1>3. /\ \A y \in Among(vs) : KidVisit(t, x.n, y)
      /\ \A m \in DOMAIN t : t[m].parent = x.n => \E y \in Among(vs) : y.t = "visit" /\ y.n = m
  BY <1>1, KidVisits DEF VisitsTo
<1>4. Family(t, x.n, cs) /\ Among(cs) = {c}
  BY FamilyOne
<1>5. c.n = x.n /\ c.t = "condition" /\ Fits(t, c)
  BY DEF Own
<1>. HIDE DEF vs, cs
<1>6. \A y \in Among(cs), z \in Among(vs) : Before(t, x.n, y, z)
  BY <1>3, <1>4, <1>5 DEF Before, Closing, Listing, KidVisit
<1>7. Family(t, x.n, ts) /\ Among(ts) = Among(cs) \cup Among(vs)
  BY <1>1, <1>2, <1>4, <1>6, FamilyConcat
<1>. HIDE DEF ts
<1>8. Advance(t, x, ts)
  <2>1. ~Deferred(t, x.n) /\ t[x.n].k # "type"
    BY DEF Deferred
  <2>2. \A y \in Among(ts) : Fits(t, y) /\ \/ y.t = "visit" /\ t[y.n].parent = x.n
                                           \/ y.n = x.n /\ y.t = "condition"
    BY <1>3, <1>4, <1>5, <1>7 DEF KidVisit
  <2>3. \A m \in DOMAIN t : t[m].parent = x.n => \E y \in Among(ts) : y.t = "visit" /\ y.n = m
    BY <1>3, <1>7
  <2>. QED BY <1>7, <2>1, <2>2, <2>3, AdvanceInto DEF Family
<1>9. HomeOf(t, x.n) = Where(t, x)
  BY <1>1, WhereOwn DEF Headed, Initialised
<1>10. Flat(t, ts, Where(t, x))
  BY <1>2, <1>4, <1>5, <1>7, <1>9 DEF Flat, Steady, Ends, Where
<1>. QED BY <1>7, <1>8, <1>10, StaysFlat DEF ts, cs, vs

\* Visiting a loop: its declarations, the condition, its block, its update.
LEMMA LoopTasks ==
  ASSUME NEW t, IsProgram(t), NEW x, Fits(t, x), x.t = "visit", t[x.n].k = "loop",
         NEW c, Own(t, x.n, c, "condition"), NEW u, Own(t, x.n, u, "update")
  PROVE  LET Of(k) == Visits(Only(Kids(t, x.n), {m \in DOMAIN t : t[m].k = k})) IN
         Stays(t, x, Of("decl") \o <<c>> \o Of("block") \o <<u>>)
<1>. DEFINE p == x.n
            Sd == {m \in DOMAIN t : t[m].k = "decl"}
            Sb == {m \in DOMAIN t : t[m].k = "block"}
            ds == Visits(Only(Kids(t, p), Sd))
            bs == Visits(Only(Kids(t, p), Sb))
            cs == <<c>>
            us == <<u>>
<1>1. p \in DOMAIN t
  BY DEF Fits
<1>2. DOMAIN t = 1..Len(t) /\ Len(t) \in Nat
  BY ProgramFacts
<1>4. /\ ds \in Seq(Tasks(t)) /\ Queue(t, ds)
      /\ \A y \in Among(ds) : KidVisit(t, p, y) /\ y.n \in Sd
      /\ \A m \in DOMAIN t : t[m].parent = p /\ m \in Sd => \E y \in Among(ds) : y.t = "visit" /\ y.n = m
  <2>. HIDE DEF p, Sd, Sb
  <2>. QED BY <1>1, OnlyVisits DEF VisitsTo
<1>5. /\ bs \in Seq(Tasks(t)) /\ Queue(t, bs)
      /\ \A y \in Among(bs) : KidVisit(t, p, y) /\ y.n \in Sb
      /\ \A m \in DOMAIN t : t[m].parent = p /\ m \in Sb => \E y \in Among(bs) : y.t = "visit" /\ y.n = m
  <2>. HIDE DEF p, Sd, Sb
  <2>. QED BY <1>1, OnlyVisits DEF VisitsTo
<1>6. Family(t, p, cs) /\ Among(cs) = {c} /\ Family(t, p, us) /\ Among(us) = {u}
  BY FamilyOne
<1>7. c.n = p /\ c.t = "condition" /\ Fits(t, c) /\ u.n = p /\ u.t = "update" /\ Fits(t, u)
  BY DEF Own
<1>8. Family(t, p, ds) /\ Family(t, p, bs)
  BY <1>4, <1>5 DEF Family, KidVisit
\* The variables of a loop come before its block.
<1>9. \A m \in Sd, b \in Sb : t[m].parent = p /\ t[b].parent = p => m < b
  <2>. SUFFICES ASSUME NEW m \in Sd, NEW b \in Sb, t[m].parent = p, t[b].parent = p, ~(m < b) PROVE FALSE
    OBVIOUS
  <2>1. m # 1 /\ b # 1 /\ Placed(t, m) /\ p < b /\ m # b
    BY <1>1, Siblings, ProgramFacts, WithinOrder
  <2>2. b \in p..m
    BY <1>1, <1>2, <2>1
  <2>3. \A j \in p..m : t[j].k # "block"
    BY <2>1 DEF Placed
  <2>. QED BY <2>2, <2>3
<1>10. \A m \in DOMAIN t : t[m].parent = p => m \in Sd \/ m \in Sb
  <2>. SUFFICES ASSUME NEW m \in DOMAIN t, t[m].parent = p PROVE t[m].k \in {"decl", "block"}
    OBVIOUS
  <2>1. m # 1
    BY <1>1, Siblings
  <2>. QED BY <2>1, Placing
<1>11. \A y \in Among(ds), z \in Among(bs) : y.n < z.n /\ y.n # z.n
  <2>1. \A m \in Sd, b \in Sb : m # b
    OBVIOUS
  <2>. HIDE DEF Sd, Sb, ds, bs
  <2>. QED BY <1>4, <1>5, <1>9, <2>1 DEF KidVisit
<1>. DEFINE ts1 == ds \o cs
            ts2 == ts1 \o bs
            ts == ts2 \o us
<1>12. ts = Visits(Only(Kids(t, x.n), {m \in DOMAIN t : t[m].k = "decl"})) \o <<c>>
             \o Visits(Only(Kids(t, x.n), {m \in DOMAIN t : t[m].k = "block"})) \o <<u>>
  OBVIOUS
<1>. HIDE DEF p, ds, bs, cs, us
<1>13. \A y \in Among(ds), z \in Among(cs) : Before(t, p, y, z)
  BY <1>4, <1>6, <1>7 DEF Before, Closing, Listing, KidVisit
<1>14. Family(t, p, ts1) /\ Among(ts1) = Among(ds) \cup Among(cs)
  BY <1>1, <1>8, <1>6, <1>13, FamilyConcat
<1>. HIDE DEF ts1
<1>15. \A y \in Among(ts1), z \in Among(bs) : Before(t, p, y, z)
  <2>1. t[p].k = "loop"
    BY DEF p
  <2>2. ASSUME NEW y \in Among(ds), NEW z \in Among(bs) PROVE Before(t, p, y, z)
    BY <1>4, <1>5, <1>11 DEF Before, KidVisit
  <2>3. ASSUME NEW z \in Among(bs) PROVE Before(t, p, c, z)
    BY <1>5, <1>7, <2>1 DEF Before, KidVisit, Closing, Listing
  <2>. QED BY <1>6, <1>14, <2>2, <2>3
<1>16. Family(t, p, ts2) /\ Among(ts2) = Among(ts1) \cup Among(bs)
  BY <1>1, <1>8, <1>14, <1>15, FamilyConcat
<1>. HIDE DEF ts2
<1>17. \A y \in Among(ts2), z \in Among(us) : Before(t, p, y, z)
  <2>1. t[p].k = "loop"
    BY DEF p
  <2>2. ASSUME NEW y \in Among(ds) \cup Among(bs) PROVE Before(t, p, y, u)
    BY <1>4, <1>5, <1>7 DEF Before, KidVisit, Closing, Listing
  <2>3. Before(t, p, c, u)
    BY <1>7, <2>1 DEF Before, Closing, Listing
  <2>. QED BY <1>6, <1>14, <1>16, <2>2, <2>3
<1>18. Family(t, p, ts) /\ Among(ts) = Among(ts2) \cup Among(us)
  BY <1>1, <1>6, <1>16, <1>17, FamilyConcat
<1>. HIDE DEF ts
<1>19. Among(ts) = Among(ds) \cup Among(bs) \cup {c, u}
  BY <1>6, <1>14, <1>16, <1>18
<1>20. Advance(t, x, ts)
  <2>1. ~Deferred(t, x.n) /\ t[x.n].k # "type"
    BY DEF Deferred
  <2>2. \A y \in Among(ts) : Fits(t, y) /\ \/ y.t = "visit" /\ t[y.n].parent = x.n
                                           \/ y.n = x.n /\ y.t \in {"condition", "update"}
    BY <1>4, <1>5, <1>7, <1>19 DEF KidVisit, p
  <2>3. \A m \in DOMAIN t : t[m].parent = x.n => \E y \in Among(ts) : y.t = "visit" /\ y.n = m
    <3>. HIDE DEF Sd, Sb
    <3>. QED BY <1>10, <1>4, <1>5, <1>19 DEF p
  <2>4. Queue(t, ts)
    BY <1>18 DEF Family
  <2>. QED BY <2>1, <2>2, <2>3, <2>4, AdvanceInto
<1>21. HomeOf(t, x.n) = Where(t, x)
  BY <1>1, WhereOwn DEF Headed, Initialised, p
<1>22. Flat(t, ts, Where(t, x))
  BY <1>4, <1>5, <1>7, <1>19, <1>21 DEF Flat, Steady, Ends, Where, KidVisit, p
<1>23. Stays(t, x, ts)
  BY <1>18, <1>20, <1>22, StaysFlat
<1>. QED BY <1>12, <1>23

\* A function's body, and the end of the function: its code is compiled with the
\* function on the stack, and then what was being compiled is compiled again.
LEMMA BodyTasks ==
  ASSUME NEW t, IsProgram(t), NEW x, Fits(t, x), Headed(t, x.n),
         x.t \in {"method", "constructor"} \/ (x.t = "visit" /\ ~Deferred(t, x.n)),
         NEW k \in {"endFunction", "endConstructor"}, NEW e, Own(t, x.n, e, k)
  PROVE  LET ts == Visits(Kids(t, x.n)) \o <<e>> IN
         /\ Advance(t, x, ts) /\ Family(t, x.n, ts)
         /\ \A y \in Among(ts) : y = e \/ KidVisit(t, x.n, y)
         /\ \A a \in Stacks(t) : a # <<>> /\ Head(a) = e.old => Path(t, ts, <<x.n>> \o a, a)
<1>. DEFINE vs == Visits(Kids(t, x.n))
            es == <<e>>
            ts == vs \o es
<1>1. x.n \in DOMAIN t
  BY DEF Fits
<1>20. DOMAIN t = 1..Len(t) /\ Len(t) \in Nat
  BY ProgramFacts
<1>2. Family(t, x.n, vs) /\ Flat(t, vs, HomeOf(t, x.n))
  BY <1>1, FamilyKids, FlatKids
<1>3. /\ \A y \in Among(vs) : KidVisit(t, x.n, y)
      /\ \A m \in DOMAIN t : t[m].parent = x.n => \E y \in Among(vs) : y.t = "visit" /\ y.n = m
  BY <1>1, KidVisits DEF VisitsTo
<1>4. Family(t, x.n, es) /\ Among(es) = {e}
  BY FamilyOne
<1>41. es \in Seq(Tasks(t))
  BY <1>4 DEF Family
<1>5. e.n = x.n /\ e.t = k /\ Fits(t, e)
  BY DEF Own
<1>. HIDE DEF vs, es
<1>6. \A y \in Among(vs), z \in Among(es) : Before(t, x.n, y, z)
  BY <1>3, <1>4, <1>5 DEF Before, Closing, Listing, KidVisit
<1>7. Family(t, x.n, ts) /\ Among(ts) = Among(vs) \cup Among(es)
  BY <1>1, <1>2, <1>4, <1>6, FamilyConcat
<1>8. vs \in Seq(Tasks(t))
  BY <1>2 DEF Family
<1>9. Advance(t, x, ts)
  <2>. HIDE DEF ts
  <2>1. t[x.n].k # "type"
    BY DEF Headed
  <2>2. \A y \in Among(ts) : Fits(t, y) /\ \/ y.t = "visit" /\ t[y.n].parent = x.n
                                           \/ y.n = x.n /\ y.t \in {"endFunction", "endConstructor"}
    BY <1>3, <1>4, <1>5, <1>7 DEF KidVisit
  <2>3. \A m \in DOMAIN t : t[m].parent = x.n => \E y \in Among(ts) : y.t = "visit" /\ y.n = m
    BY <1>3, <1>7
  <2>. QED BY <1>7, <2>1, <2>2, <2>3, AdvanceInto DEF Family
<1>10. HomeOf(t, x.n) = x.n
  BY <1>1, HomeStep
<1>11. ASSUME NEW a \in Stacks(t), a # <<>>, Head(a) = e.old PROVE Path(t, ts, <<x.n>> \o a, a)
  <2>. DEFINE b == <<x.n>> \o a
  <2>1. b \in Stacks(t) /\ b # <<>> /\ Head(b) = x.n /\ Tail(b) = a
    <3>1. x.n \in 1..(2 * Len(t))
      BY <1>1, <1>20
    <3>. QED BY <3>1, Onto
  <2>. HIDE DEF b
  <2>2. Path(t, vs, b, b)
    BY <1>2, <1>10, <2>1, FlatPath
  <2>3. Turn(t, e, b, a)
    <3>1. Ends(e) /\ Where(t, e) = x.n
      BY <1>5, <1>10 DEF Ends, Where
    <3>. QED BY <1>11, <2>1, <3>1, <1>5 DEF Turn
  <2>4. Path(t, es, b, a)
    BY <2>1, <2>3, PathOne DEF es
  <2>5. Path(t, ts, b, a)
    BY <1>41, <1>8, <2>2, <2>4, PathConcat
  <2>. QED BY <2>5 DEF b
<1>12. \A y \in Among(ts) : y = e \/ KidVisit(t, x.n, y)
  BY <1>3, <1>4, <1>7
<1>. QED BY <1>7, <1>9, <1>11, <1>12 DEF ts, vs, es

\* The body of a static method is compiled when it is visited.
LEMMA StaticMethodTasks ==
  ASSUME NEW t, IsProgram(t), NEW x, Fits(t, x), x.t = "visit", t[x.n].k = "method", ~Deferred(t, x.n),
         NEW e, Own(t, x.n, e, "endFunction"), NEW d, Own(t, x.n, d, "addMethod")
  PROVE  LET ts == (Visits(Kids(t, x.n)) \o <<e>>) \o <<d>> IN
         /\ Advance(t, x, ts)
         /\ \A a \in Stacks(t) :
              a # <<>> /\ Head(a) = e.old /\ Head(a) = Where(t, x) => Path(t, ts, <<x.n>> \o a, a)
<1>. DEFINE vs == Visits(Kids(t, x.n))
            bs == vs \o <<e>>
            ds == <<d>>
            ts == bs \o ds
<1>1. x.n \in DOMAIN t /\ Headed(t, x.n)
  BY DEF Fits, Headed
<1>2. /\ Advance(t, x, bs) /\ Family(t, x.n, bs)
      /\ \A y \in Among(bs) : y = e \/ KidVisit(t, x.n, y)
      /\ \A a \in Stacks(t) : a # <<>> /\ Head(a) = e.old => Path(t, bs, <<x.n>> \o a, a)
  BY <1>1, BodyTasks
<1>3. /\ e.n = x.n /\ e.t = "endFunction" /\ Fits(t, e)
      /\ d.n = x.n /\ d.t = "addMethod" /\ Fits(t, d)
  BY DEF Own
<1>4. Family(t, x.n, ds) /\ Among(ds) = {d} /\ ds \in Seq(Tasks(t))
  BY FamilyOne DEF Family
<1>5. \A m \in DOMAIN t : t[m].parent = x.n => \E y \in Among(bs) : y.t = "visit" /\ y.n = m
  <2>1. \A m \in DOMAIN t : t[m].parent = x.n => \E y \in Among(vs) : y.t = "visit" /\ y.n = m
    BY <1>1, KidVisits DEF VisitsTo
  <2>. DEFINE es == <<e>>
  <2>2. Family(t, x.n, vs) /\ Family(t, x.n, es)
    BY <1>1, FamilyKids, FamilyOne
  <2>3. vs \in Seq(Tasks(t)) /\ es \in Seq(Tasks(t))
    BY <2>2 DEF Family
  <2>. HIDE DEF vs, es
  <2>4. Among(vs \o es) = Among(vs) \cup Among(es)
    BY <2>3, AmongConcat
  <2>. QED BY <2>1, <2>4 DEF es
<1>. HIDE DEF bs, ds
<1>6. \A y \in Among(bs), z \in Among(ds) : Before(t, x.n, y, z)
  BY <1>2, <1>3, <1>4 DEF Before, Closing, Listing, KidVisit
<1>7. Family(t, x.n, ts) /\ Among(ts) = Among(bs) \cup Among(ds)
  BY <1>1, <1>2, <1>4, <1>6, FamilyConcat
<1>8. Advance(t, x, ts)
  <2>. HIDE DEF ts
  <2>1. t[x.n].k # "type"
    OBVIOUS
  <2>2. \A y \in Among(ts) : Fits(t, y) /\ \/ y.t = "visit" /\ t[y.n].parent = x.n
                                           \/ y.n = x.n /\ y.t \in {"endFunction", "addMethod"}
    BY <1>2, <1>3, <1>4, <1>7 DEF KidVisit
  <2>3. \A m \in DOMAIN t : t[m].parent = x.n => \E y \in Among(ts) : y.t = "visit" /\ y.n = m
    BY <1>5, <1>7
  <2>. QED BY <1>7, <2>1, <2>2, <2>3, AdvanceInto DEF Family
<1>9. ASSUME NEW a \in Stacks(t), a # <<>>, Head(a) = e.old, Head(a) = Where(t, x)
      PROVE  Path(t, ts, <<x.n>> \o a, a)
  <2>1. Path(t, bs, <<x.n>> \o a, a)
    BY <1>2, <1>9
  <2>2. Where(t, d) = Where(t, x) /\ ~Ends(d) /\ d.t # "beginInit"
    BY <1>3 DEF Where, Ends
  <2>3. Turn(t, d, a, a)
    BY <1>9, <2>2 DEF Turn
  <2>4. Path(t, ds, a, a)
    BY <2>3, PathOne DEF ds
  <2>5. bs \in Seq(Tasks(t))
    BY <1>2 DEF Family
  <2>. QED BY <1>4, <2>1, <2>4, <2>5, PathConcat
<1>. QED BY <1>8, <1>9 DEF ts, bs, ds

\* A type's members are visited before it is finalized.
LEMMA TypeTasks ==
  ASSUME NEW t, IsProgram(t), NEW x, Fits(t, x), x.t = "visit", t[x.n].k = "type",
         NEW f, Own(t, x.n, f, "finalize")
  PROVE  Stays(t, x, Visits(Kids(t, x.n)) \o <<f>>)
<1>. DEFINE vs == Visits(Kids(t, x.n))
            fs == <<f>>
            ts == vs \o fs
<1>1. x.n \in DOMAIN t
  BY DEF Fits
<1>2. Family(t, x.n, vs) /\ Flat(t, vs, HomeOf(t, x.n))
  BY <1>1, FamilyKids, FlatKids
<1>3. /\ \A y \in Among(vs) : KidVisit(t, x.n, y)
      /\ \A m \in DOMAIN t : t[m].parent = x.n => \E y \in Among(vs) : y.t = "visit" /\ y.n = m
  BY <1>1, KidVisits DEF VisitsTo
<1>4. Family(t, x.n, fs) /\ Among(fs) = {f}
  BY FamilyOne
<1>5. f.n = x.n /\ f.t = "finalize" /\ Fits(t, f)
  BY DEF Own
<1>. HIDE DEF vs, fs
<1>6. \A y \in Among(vs), z \in Among(fs) : Before(t, x.n, y, z)
  BY <1>3, <1>4, <1>5 DEF Before, Closing, Listing, KidVisit
<1>7. Family(t, x.n, ts) /\ Among(ts) = Among(vs) \cup Among(fs)
  BY <1>1, <1>2, <1>4, <1>6, FamilyConcat
<1>. HIDE DEF ts
<1>8. Advance(t, x, ts)
  <2>1. ~Deferred(t, x.n)
    BY DEF Deferred
  <2>2. \A y \in Among(ts) : Fits(t, y) /\ \/ y.t = "visit" /\ t[y.n].parent = x.n
                                           \/ y.n = x.n /\ y.t = "finalize"
    BY <1>3, <1>4, <1>5, <1>7 DEF KidVisit
  <2>3. \A m \in DOMAIN t : t[m].parent = x.n => \E y \in Among(ts) : y.t = "visit" /\ y.n = m
    BY <1>3, <1>7
  <2>4. \E y \in Among(ts) : y.t = "finalize" /\ y.n = x.n
    BY <1>4, <1>5, <1>7
  <2>. QED BY <1>7, <2>1, <2>2, <2>3, <2>4, AdvanceInto DEF Family
<1>9. HomeOf(t, x.n) = Where(t, x)
  BY <1>1, WhereOwn DEF Headed, Initialised
<1>10. Flat(t, ts, Where(t, x))
  BY <1>2, <1>4, <1>5, <1>7, <1>9 DEF Flat, Steady, Ends, Where
<1>. QED BY <1>7, <1>8, <1>10, StaysFlat DEF ts, vs, fs

\* Tasks of kind k, from function o, of what s lists.
TaskList(k, s, o) == [i \in DOMAIN s |-> [t |-> k, n |-> s[i], old |-> o]]
\* What a type's finalization does with its children: k says what, c with which.
MadeOf(t, p, k, c) ==
  /\ t[c].parent = p
  /\ CASE k = "initMember" -> t[c].k = "member" /\ ~t[c].static /\ t[c].e # None
       [] k = "static" -> t[c].k = "member" /\ t[c].static
       [] k = "method" -> t[c].k = "method" /\ ~t[c].static
       [] k = "constructor" -> t[c].k = "constructor"
       [] OTHER -> FALSE
\* q does k with each of R.
Makes(t, p, k, R, q) ==
  /\ Family(t, p, q)
  /\ \A y \in Among(q) : Fits(t, y) /\ y.t = k /\ y.n \in R /\ y.n # p /\ MadeOf(t, p, k, y.n)
  /\ \A c \in R : \E y \in Among(q) : y.t = k /\ y.n = c

\* The tasks made for a list of children, one kind for all.
LEMMA ListTasks ==
  ASSUME NEW t, IsProgram(t), NEW p \in DOMAIN t, NEW k, NEW R \in SUBSET DOMAIN t,
         \A c \in R : MadeOf(t, p, k, c), NEW s, AscendsTo(s, R), NEW o \in 0..(2 * Len(t))
  PROVE  Makes(t, p, k, R, TaskList(k, s, o))
<1>. DEFINE q == TaskList(k, s, o)
<1>1. /\ s \in Seq(R) /\ DOMAIN s = 1..Len(s) /\ Len(s) \in Nat
      /\ \A i \in DOMAIN s : s[i] \in R
      /\ \A i, j \in DOMAIN s : i < j => s[i] < s[j]
      /\ \A m \in R : \E i \in DOMAIN s : s[i] = m
  BY DEF AscendsTo
<1>2. \A c \in R : c \in DOMAIN t /\ c # p /\ t[c].parent = p /\ MadeOf(t, p, k, c)
  <2>1. \A c \in R : t[c].parent = p /\ c \in DOMAIN t
    BY DEF MadeOf
  <2>. QED BY <2>1, Siblings
<1>3. \A c \in R : k \in {"initMember", "static", "method", "constructor"}
  BY <1>2 DEF MadeOf
<1>4. DOMAIN q = DOMAIN s /\ \A i \in DOMAIN s : q[i] = [t |-> k, n |-> s[i], old |-> o]
  BY DEF TaskList
<1>41. q \in [1..Len(s) -> {q[i] : i \in 1..Len(s)}]
  BY <1>1 DEF TaskList
<1>5. \A i \in DOMAIN s : q[i] \in Tasks(t) /\ Fits(t, q[i]) /\ Relative(t, p, q[i]) /\ q[i].n = s[i] /\ q[i].t = k
  <2>. SUFFICES ASSUME NEW i \in DOMAIN s
       PROVE q[i] \in Tasks(t) /\ Fits(t, q[i]) /\ Relative(t, p, q[i]) /\ q[i].n = s[i] /\ q[i].t = k
    OBVIOUS
  <2>1. s[i] \in R
    BY <1>1
  <2>2. k \in {"initMember", "static", "method", "constructor"} /\ s[i] \in DOMAIN t /\ MadeOf(t, p, k, s[i])
        /\ t[s[i]].parent = p
    BY <2>1, <1>2, <1>3
  <2>3. q[i] = [t |-> k, n |-> s[i], old |-> o]
    BY <1>4
  <2>4. k \in TaskKinds
    BY <2>2 DEF TaskKinds
  <2>. HIDE DEF q
  <2>5. q[i] \in Tasks(t)
    BY <2>2, <2>3, <2>4 DEF Tasks
  <2>6. Fits(t, q[i])
    BY <2>2, <2>3, <2>5 DEF Fits, MadeOf, Tasks
  <2>. QED BY <2>2, <2>3, <2>5, <2>6 DEF Relative
<1>. HIDE DEF q
<1>6. q \in Seq(Tasks(t))
  <2>1. q \in [1..Len(s) -> Tasks(t)]
    BY <1>1, <1>41, <1>5
  <2>. QED BY <2>1, <1>1
<1>7. TasksFor(t, p, s, q)
  <2>1. s \in Seq(DOMAIN t)
    BY <1>1
  <2>2. \A i \in DOMAIN s : s[i] # p
    BY <1>1, <1>2
  <2>. QED BY <1>1, <1>4, <1>5, <1>6, <2>1, <2>2 DEF TasksFor
<1>8. Queue(t, q)
  BY <1>7, KidTasks
<1>9. \A y \in Among(q) : \E i \in DOMAIN s : y = q[i]
  BY <1>4 DEF Among
<1>10. Family(t, p, q)
  BY <1>5, <1>6, <1>8, <1>9 DEF Family
<1>11. \A y \in Among(q) : Fits(t, y) /\ y.t = k /\ y.n \in R /\ y.n # p /\ MadeOf(t, p, k, y.n)
  BY <1>1, <1>2, <1>5, <1>9
<1>12. \A c \in R : \E y \in Among(q) : y.t = k /\ y.n = c
  <2>. SUFFICES ASSUME NEW c \in R PROVE \E y \in Among(q) : y.t = k /\ y.n = c
    OBVIOUS
  <2>1. PICK i \in DOMAIN s : s[i] = c
    BY <1>1
  <2>. QED BY <2>1, <1>4, <1>5 DEF Among
<1>. QED BY <1>10, <1>11, <1>12 DEF Makes, q

\* Members are initialised in the initialiser, if there are any that are.
InitTasks(p, ms, b, e, o) ==
  IF ms = <<>> THEN <<>> ELSE <<b>> \o TaskList("initMember", ms, o) \o <<e>>
InitTask(t, p, y) ==
  /\ Fits(t, y)
  /\ \/ y.n = p /\ y.t \in {"beginInit", "endInit"}
     \/ t[y.n].parent = p /\ y.t = "initMember" /\ y.n # p /\ MadeOf(t, p, "initMember", y.n)

\* The normal initialiser's tasks begin and end in it, and leave the stack as
\* it was.
LEMMA InitTasksAre ==
  ASSUME NEW t, IsProgram(t), NEW p \in DOMAIN t, t[p].k = "type", NEW M \in SUBSET DOMAIN t,
         \A c \in M : MadeOf(t, p, "initMember", c), NEW ms, AscendsTo(ms, M), NEW o \in 0..(2 * Len(t)),
         NEW b, Own(t, p, b, "beginInit"), NEW e, Own(t, p, e, "endInit"), e.old = o
  PROVE  LET q == InitTasks(p, ms, b, e, o) IN
         /\ Family(t, p, q) /\ \A y \in Among(q) : InitTask(t, p, y)
         /\ \A a \in Stacks(t) : a # <<>> /\ Head(a) = HomeOf(t, p) /\ Head(a) = o => Path(t, q, a, a)
<1>. DEFINE q == InitTasks(p, ms, b, e, o)
            im == TaskList("initMember", ms, o)
            bs == <<b>>
            es == <<e>>
            q1 == bs \o im
            q2 == q1 \o es
<1>1. CASE ms = <<>>
  <2>1. q = <<>>
    BY <1>1 DEF InitTasks
  <2>2. Family(t, p, <<>>) /\ Among(<<>>) = {}
    BY QueueNone, AmongNone DEF Family
  <2>3. \A a \in Stacks(t) : Path(t, <<>>, a, a)
    BY PathNone
  <2>. QED BY <2>1, <2>2, <2>3
<1>2. CASE ms # <<>>
  <2>1. q = q2
    BY <1>2 DEF InitTasks
  <2>2. Makes(t, p, "initMember", M, im)
    BY ListTasks
  <2>3. Family(t, p, bs) /\ Among(bs) = {b} /\ Family(t, p, es) /\ Among(es) = {e}
    BY FamilyOne
  <2>4. b.n = p /\ b.t = "beginInit" /\ Fits(t, b) /\ e.n = p /\ e.t = "endInit" /\ Fits(t, e)
    BY DEF Own
  <2>5. Family(t, p, im) /\ \A y \in Among(im) : Fits(t, y) /\ y.t = "initMember" /\ y.n # p /\ MadeOf(t, p, "initMember", y.n)
    BY <2>2 DEF Makes
  <2>6. bs \in Seq(Tasks(t)) /\ im \in Seq(Tasks(t)) /\ es \in Seq(Tasks(t))
    BY <2>3, <2>5 DEF Family
  <2>. HIDE DEF im, bs, es, q
  <2>7. \A y \in Among(bs), z \in Among(im) : Before(t, p, y, z)
    BY <2>3, <2>4, <2>5 DEF Before, Closing, Listing
  <2>8. Family(t, p, q1) /\ Among(q1) = Among(bs) \cup Among(im)
    BY <2>3, <2>5, <2>7, FamilyConcat
  <2>9. q1 \in Seq(Tasks(t))
    BY <2>8 DEF Family
  <2>10. \A y \in Among(q1), z \in Among(es) : Before(t, p, y, z)
    <3>. HIDE DEF q1
    <3>. QED BY <2>3, <2>4, <2>5, <2>8 DEF Before, Closing, Listing
  <2>11. Family(t, p, q2) /\ Among(q2) = Among(q1) \cup Among(es)
    <3>. HIDE DEF q1
    <3>. QED BY <2>3, <2>8, <2>10, FamilyConcat
  <2>12. \A y \in Among(q2) : InitTask(t, p, y)
    <3>. HIDE DEF q1, q2
    <3>1. \A y \in Among(im) : t[y.n].parent = p
      BY <2>5 DEF MadeOf
    <3>. QED BY <2>3, <2>4, <2>5, <2>8, <2>11, <3>1 DEF InitTask
  <2>13. ASSUME NEW a \in Stacks(t), a # <<>>, Head(a) = HomeOf(t, p), Head(a) = o PROVE Path(t, q2, a, a)
    <3>. DEFINE h == Len(t) + p
                a2 == <<h>> \o a
    <3>1. h \in 1..(2 * Len(t))
      <4>1. DOMAIN t = 1..Len(t) /\ Len(t) \in Nat
        BY ProgramFacts
      <4>. QED BY <4>1
    <3>. HIDE DEF h
    <3>2. a2 \in Stacks(t) /\ a2 # <<>> /\ Head(a2) = h /\ Tail(a2) = a
      BY <3>1, Onto
    <3>3. Turn(t, b, a, a2)
      <4>1. Where(t, b) = HomeOf(t, p) /\ ~Ends(b)
        BY <2>4 DEF Where, Ends
      <4>. QED BY <2>13, <2>4, <4>1 DEF Turn, h
    <3>. HIDE DEF a2
    <3>4. \A y \in Among(im) : Turn(t, y, a2, a2)
      <4>. SUFFICES ASSUME NEW y \in Among(im) PROVE Turn(t, y, a2, a2)
        OBVIOUS
      <4>1. y.t = "initMember" /\ y.n \in DOMAIN t /\ t[y.n].parent = p /\ Initialised(t, y.n)
        BY <2>5 DEF MadeOf, Initialised, Fits
      <4>2. HomeOf(t, y.n) = h
        BY <4>1, HomeStep DEF Headed, Initialised, h
      <4>3. Where(t, y) = h /\ ~Ends(y)
        BY <4>1, <4>2 DEF Where, Ends
      <4>. QED BY <3>2, <4>1, <4>3 DEF Turn
    <3>5. Turn(t, e, a2, a)
      <4>1. Where(t, e) = h /\ Ends(e)
        BY <2>4 DEF Where, Ends, h
      <4>. QED BY <2>13, <2>4, <3>2, <4>1 DEF Turn
    <3>6. Path(t, bs, a, a2)
      BY <3>2, <3>3, PathOne DEF bs
    <3>7. Path(t, im, a2, a2)
      BY <2>6, <3>2, <3>4, PathFlat
    <3>8. Path(t, es, a2, a)
      BY <3>2, <3>5, PathOne DEF es
    <3>9. Path(t, q1, a, a2)
      BY <2>6, <3>6, <3>7, PathConcat
    <3>. QED BY <2>6, <2>9, <3>8, <3>9, PathConcat
  <2>. QED BY <2>1, <2>11, <2>12, <2>13 DEF q
<1>. QED BY <1>1, <1>2

\* What the finalization of type p leads to.
FinalTask(t, p, y) ==
  /\ Fits(t, y)
  /\ \/ y.n = p /\ y.t \in {"beginInit", "endInit", "known"}
     \/ t[y.n].parent = p /\ y.n # p /\ y.t \in {"initMember", "static"} /\ MadeOf(t, p, y.t, y.n)
     \/ t[y.n].parent = p /\ y.n # p /\ y.t \in {"method", "constructor"} /\ MadeOf(t, p, y.t, y.n)

\* finalize: the initialiser, the static members, the bodies of methods and
\* constructors, and then the type is known. These are all the tasks the type
\* still claimed, and they leave the stack as it was.
LEMMA FinalizeTasks ==
  ASSUME NEW t, IsProgram(t), NEW x, Fits(t, x), x.t = "finalize", NEW o \in 0..(2 * Len(t)),
         NEW M \in SUBSET DOMAIN t, \A c \in M : MadeOf(t, x.n, "initMember", c), NEW ms, AscendsTo(ms, M),
         NEW S \in SUBSET DOMAIN t, \A c \in S : MadeOf(t, x.n, "static", c), NEW ss, AscendsTo(ss, S),
         NEW F \in SUBSET DOMAIN t, \A c \in F : MadeOf(t, x.n, "method", c), NEW fs, AscendsTo(fs, F),
         NEW C \in SUBSET DOMAIN t, \A c \in C : MadeOf(t, x.n, "constructor", c), NEW cs, AscendsTo(cs, C),
         \A c \in DOMAIN t : t[c].parent = x.n /\ Deferred(t, c) /\ Inner(t, c) # {} => c \in F \cup C,
         NEW b, Own(t, x.n, b, "beginInit"), NEW e, Own(t, x.n, e, "endInit"), e.old = o,
         NEW w, Own(t, x.n, w, "known")
  PROVE  LET ts == Ordered(InitTasks(x.n, ms, b, e, o), TaskList("static", ss, o), TaskList("method", fs, o),
                           TaskList("constructor", cs, o), <<w>>)
         IN  /\ Advance(t, x, ts)
             /\ \A a \in Stacks(t) : a # <<>> /\ Head(a) = o /\ Head(a) = Where(t, x) => Path(t, ts, a, a)
<1>. DEFINE p == x.n
            q0 == InitTasks(p, ms, b, e, o)
            q1 == TaskList("static", ss, o)
            q2 == TaskList("method", fs, o)
            q3 == TaskList("constructor", cs, o)
            q4 == <<w>>
            r1 == q0 \o q1
            r2 == r1 \o q2
            r3 == r2 \o q3
            ts == r3 \o q4
<1>1. p \in DOMAIN t /\ t[p].k = "type"
  BY DEF Fits
<1>2. /\ Family(t, p, q0) /\ \A y \in Among(q0) : InitTask(t, p, y)
      /\ \A a \in Stacks(t) : a # <<>> /\ Head(a) = HomeOf(t, p) /\ Head(a) = o => Path(t, q0, a, a)
  BY <1>1, InitTasksAre
<1>3. Makes(t, p, "static", S, q1)
  BY <1>1, ListTasks
<1>4. Makes(t, p, "method", F, q2)
  BY <1>1, ListTasks
<1>5. Makes(t, p, "constructor", C, q3)
  BY <1>1, ListTasks
<1>6. Family(t, p, q4) /\ Among(q4) = {w}
  BY FamilyOne
<1>7. w.n = p /\ w.t = "known" /\ Fits(t, w)
  BY DEF Own
<1>8. ts = Ordered(InitTasks(x.n, ms, b, e, o), TaskList("static", ss, o), TaskList("method", fs, o),
                   TaskList("constructor", cs, o), <<w>>)
  BY DEF Ordered
<1>. HIDE DEF q0, q1, q2, q3, q4
<1>9. /\ Family(t, p, q1) /\ Family(t, p, q2) /\ Family(t, p, q3)
      /\ \A y \in Among(q1) : Fits(t, y) /\ y.t = "static" /\ y.n # p /\ MadeOf(t, p, "static", y.n)
      /\ \A y \in Among(q2) : Fits(t, y) /\ y.t = "method" /\ y.n # p /\ MadeOf(t, p, "method", y.n)
      /\ \A y \in Among(q3) : Fits(t, y) /\ y.t = "constructor" /\ y.n # p /\ MadeOf(t, p, "constructor", y.n)
      /\ \A c \in F : \E y \in Among(q2) : y.t = "method" /\ y.n = c
      /\ \A c \in C : \E y \in Among(q3) : y.t = "constructor" /\ y.n = c
  BY <1>3, <1>4, <1>5 DEF Makes
<1>. DEFINE Early(y) == ~Closing(y) /\ ~Listing(y)
<1>10. \A y \in Among(q0) : Early(y) /\ InitTask(t, p, y)
  BY <1>2 DEF InitTask, Closing, Listing
<1>11. \A y, z : /\ Early(y) /\ ~(z.t \in {"finalize"}) /\ (y.n = z.n => y.n = p)
                 => Before(t, p, y, z)
  BY <1>1 DEF Before
<1>12. \A y \in Among(q0), z \in Among(q1) : Before(t, p, y, z)
  <2>1. \A y \in Among(q0), z \in Among(q1) : y.n = z.n => y.n = p
    BY <1>2, <1>9 DEF InitTask, MadeOf
  <2>. QED BY <2>1, <1>9, <1>10, <1>11
<1>13. Family(t, p, r1) /\ Among(r1) = Among(q0) \cup Among(q1)
  BY <1>1, <1>2, <1>9, <1>12, FamilyConcat
<1>. HIDE DEF r1
<1>14. \A y \in Among(q1) : Early(y)
  BY <1>9 DEF Closing, Listing
<1>15. \A y \in Among(q2) : Early(y)
  BY <1>9 DEF Closing, Listing
<1>16. \A y \in Among(q3) : Early(y)
  BY <1>9 DEF Closing, Listing
<1>17. \A y \in Among(r1), z \in Among(q2) : Before(t, p, y, z)
  <2>1. \A y \in Among(q0), z \in Among(q2) : y.n = z.n => y.n = p
    BY <1>2, <1>9 DEF InitTask, MadeOf
  <2>2. \A y \in Among(q1), z \in Among(q2) : y.n = z.n => y.n = p
    BY <1>9 DEF MadeOf
  <2>. QED BY <2>1, <2>2, <1>9, <1>10, <1>11, <1>13, <1>14
<1>18. Family(t, p, r2) /\ Among(r2) = Among(r1) \cup Among(q2)
  BY <1>1, <1>9, <1>13, <1>17, FamilyConcat
<1>. HIDE DEF r2
<1>19. \A y \in Among(r2), z \in Among(q3) : Before(t, p, y, z)
  <2>1. \A y \in Among(q0), z \in Among(q3) : y.n = z.n => y.n = p
    BY <1>2, <1>9 DEF InitTask, MadeOf
  <2>2. \A y \in Among(q1), z \in Among(q3) : y.n = z.n => y.n = p
    BY <1>9 DEF MadeOf
  <2>3. \A y \in Among(q2), z \in Among(q3) : y.n = z.n => y.n = p
    BY <1>9 DEF MadeOf
  <2>. QED BY <2>1, <2>2, <2>3, <1>9, <1>10, <1>11, <1>13, <1>14, <1>15, <1>18
<1>20. Family(t, p, r3) /\ Among(r3) = Among(r2) \cup Among(q3)
  BY <1>1, <1>9, <1>18, <1>19, FamilyConcat
<1>. HIDE DEF r3
<1>21. \A y \in Among(r3) : y \in Among(q0) \/ y \in Among(q1) \/ y \in Among(q2) \/ y \in Among(q3)
  BY <1>13, <1>18, <1>20
<1>22. \A y \in Among(r3), z \in Among(q4) : Before(t, p, y, z)
  BY <1>6, <1>7, <1>10, <1>11, <1>14, <1>15, <1>16, <1>21
<1>23. Family(t, p, ts) /\ Among(ts) = Among(r3) \cup Among(q4)
  BY <1>1, <1>6, <1>20, <1>22, FamilyConcat
<1>24. Advance(t, x, ts)
  <2>. HIDE DEF ts
  <2>1. \A y \in Among(ts) :
           /\ Fits(t, y)
           /\ \/ y.n = x.n /\ y.t \in {"beginInit", "endInit", "known"}
              \/ t[y.n].parent = x.n /\ y.t \in {"initMember", "static"}
              \/ t[y.n].parent = x.n /\ y.t \in {"method", "constructor"} /\ Deferred(t, y.n)
    BY <1>6, <1>7, <1>9, <1>10, <1>21, <1>23 DEF InitTask, MadeOf, Deferred
  <2>2. \A c \in DOMAIN t : t[c].parent = x.n /\ Deferred(t, c) /\ Inner(t, c) # {} =>
           \E y \in Among(ts) : y.t \in {"method", "constructor"} /\ y.n = c
    <3>1. Among(q2) \subseteq Among(ts) /\ Among(q3) \subseteq Among(ts)
      BY <1>18, <1>20, <1>23
    <3>. QED BY <1>9, <3>1
  <2>. QED BY <2>1, <2>2, <1>23, AdvanceFinalize DEF Family
<1>25. ASSUME NEW a \in Stacks(t), a # <<>>, Head(a) = o, Head(a) = Where(t, x) PROVE Path(t, ts, a, a)
  <2>1. Head(a) = HomeOf(t, p)
    BY <1>25 DEF Where
  <2>2. Path(t, q0, a, a)
    BY <1>2, <1>25, <2>1
  <2>3. Flat(t, q1, HomeOf(t, p))
    <3>. SUFFICES ASSUME NEW y \in Among(q1) PROVE Steady(y) /\ Where(t, y) = HomeOf(t, p)
      BY DEF Flat
    <3>1. y.t = "static" /\ y.n \in DOMAIN t /\ t[y.n].parent = p /\ t[y.n].k = "member" /\ t[y.n].static /\ y.n # 1
      BY <1>9, <1>1, Siblings DEF MadeOf, Fits
    <3>2. HomeOf(t, y.n) = HomeOf(t, p)
      BY <3>1, HomeStep DEF Headed, Initialised
    <3>. QED BY <3>1, <3>2 DEF Steady, Ends, Where
  <2>4. Flat(t, q2, HomeOf(t, p))
    <3>. SUFFICES ASSUME NEW y \in Among(q2) PROVE Steady(y) /\ Where(t, y) = HomeOf(t, p)
      BY DEF Flat
    <3>1. y.t = "method" /\ y.n \in DOMAIN t /\ t[y.n].parent = p
      BY <1>9 DEF MadeOf, Fits
    <3>. QED BY <1>1, <3>1, WhereKid DEF Steady, Ends
  <2>5. Flat(t, q3, HomeOf(t, p))
    <3>. SUFFICES ASSUME NEW y \in Among(q3) PROVE Steady(y) /\ Where(t, y) = HomeOf(t, p)
      BY DEF Flat
    <3>1. y.t = "constructor" /\ y.n \in DOMAIN t /\ t[y.n].parent = p
      BY <1>9 DEF MadeOf, Fits
    <3>. QED BY <1>1, <3>1, WhereKid DEF Steady, Ends
  <2>6. Flat(t, q4, HomeOf(t, p))
    BY <1>6, <1>7 DEF Flat, Steady, Ends, Where
  <2>7. Path(t, q1, a, a)
    BY <1>9, <1>25, <2>1, <2>3, FlatPath
  <2>8. Path(t, q2, a, a)
    BY <1>9, <1>25, <2>1, <2>4, FlatPath
  <2>9. Path(t, q3, a, a)
    BY <1>9, <1>25, <2>1, <2>5, FlatPath
  <2>10. Path(t, q4, a, a)
    BY <1>6, <1>25, <2>1, <2>6, FlatPath
  <2>11. /\ q0 \in Seq(Tasks(t)) /\ q1 \in Seq(Tasks(t)) /\ q2 \in Seq(Tasks(t)) /\ q3 \in Seq(Tasks(t))
         /\ q4 \in Seq(Tasks(t)) /\ r1 \in Seq(Tasks(t)) /\ r2 \in Seq(Tasks(t)) /\ r3 \in Seq(Tasks(t))
    BY <1>2, <1>6, <1>9, <1>13, <1>18, <1>20 DEF Family
  <2>12. Path(t, r1, a, a)
    BY <2>2, <2>7, <2>11, PathConcat DEF r1
  <2>13. Path(t, r2, a, a)
    BY <2>12, <2>8, <2>11, PathConcat DEF r2
  <2>14. Path(t, r3, a, a)
    BY <2>13, <2>9, <2>11, PathConcat DEF r3
  <2>. QED BY <2>14, <2>10, <2>11, PathConcat
<1>. QED BY <1>8, <1>24, <1>25

(***************************************************************************)
(* Tables                                                                  *)
(***************************************************************************)
Failures == {"internal", "uncaught", "undefined"} \cup Errors
Lts == [ptr : {0, 1}, of : Int]
Uses == [name : STRING, kind : {"argument", "var", "function", "member"}, to : Nat \cup {Runtime}]
\* Names of types, those of the language among them.
Names == STRING \cup {"Integer", "Float", "Boolean", "Function", "Void"}
Ops == {"alloca", "expr", "return", "method", "constructor", "initMember", "static", "callInit"}
StoreSet == [allows : DOMAIN ids, ty : DOMAIN ids, into : {"place", "caller"}]
StoresAllowed(S) == \A s \in S : TypeFits(s) \/ LeftToTheCheck(s)

IdsTyped ==
  /\ ids \in Seq([names : SUBSET Names, types : SUBSET Nat]) /\ Len(ids) >= 5
  /\ \A i \in DOMAIN ids : ids[i].types \subseteq DOMAIN ids /\ ids[i].types # {}
BlocksTyped == blockTypes \in [DOMAIN prog -> SUBSET (DOMAIN ids)]
ScopeTyped ==
  blockScope \subseteq [block : DOMAIN prog, name : STRING, node : DOMAIN prog, ty : DOMAIN ids,
                        fn : 1..(2 * Len(prog)), returned : BOOLEAN]
\* What can be called takes values that are no pointers, as many as are declared.
Callable(f) ==
  /\ prog[f].k = "function" /\ Len(signatures[f].args) = Len(prog[f].args)
  /\ \A i \in DOMAIN signatures[f].args : signatures[f].args[i].ptr = 0
FuncsTyped ==
  /\ blockFuncs \subseteq [block : DOMAIN prog, name : STRING \cup RuntimeNames, node : DOMAIN prog \cup {Runtime}]
  /\ \A f \in blockFuncs : f.node # Runtime => Callable(f.node)
SignaturesTyped == signatures \in [1..(2 * Len(prog)) -> [args : Seq(Lts), ret : Nat]]
DataSet ==
  [tid : {0} \cup DOMAIN ids, members : Seq([node : DOMAIN prog, of : Nat]), statics : Seq(DOMAIN prog),
   methods : Seq(DOMAIN prog), constructors : Seq(DOMAIN prog), laidOut : BOOLEAN, initExists : BOOLEAN]
DataTyped == tyData \in [DOMAIN prog -> DataSet]
Instruction ==
  [op : Ops, node : DOMAIN prog, fn : 1..(2 * Len(prog)), ok : BOOLEAN, uses : SUBSET Uses,
   stores : SUBSET StoreSet, words : SUBSET Nat]
CodeTyped == code \in Seq(Instruction)
StatusTyped == status \in {"compiling", "compiled"} \cup Failures
TablesTyped == /\ prog \in Programs
               /\ IdsTyped /\ BlocksTyped /\ ScopeTyped /\ FuncsTyped /\ SignaturesTyped /\ DataTyped
\* There is a function to insert in.
StackTyped == functionStack \in Stacks(prog) /\ functionStack # <<>> /\ at = Head(functionStack)
Typed == TablesTyped /\ CodeTyped /\ StatusTyped

(***************************************************************************)
(* Lookups                                                                 *)
(***************************************************************************)
\* A set of numbers up to n has a least and a greatest element.
LEMMA PickFacts ==
  ASSUME NEW n \in Nat, NEW S \in SUBSET (0..n), S # {}
  PROVE  /\ Min(S) \in S /\ \A y \in S : Min(S) <= y
         /\ Max(S) \in S /\ \A y \in S : y <= Max(S)
         /\ Pick(S) \in S
<1>1. \E x \in S : \A y \in S : x <= y
  BY LeastNumber
<1>2. \E x \in S : \A y \in S : y <= x
  <2>. DEFINE R == {n - x : x \in S}
  <2>1. R \in SUBSET Nat
    OBVIOUS
  <2>11. R # {}
    <3>1. PICK x : x \in S
      OBVIOUS
    <3>2. n - x \in R
      BY <3>1
    <3>. QED BY <3>2
  <2>2. PICK r \in R : \A y \in R : r <= y
    <3>. HIDE DEF R
    <3>. QED BY <2>1, <2>11, LeastNumber
  <2>3. PICK x \in S : r = n - x
    BY <2>2
  <2>4. \A y \in S : y <= x
    BY <2>2, <2>3
  <2>. QED BY <2>4
<1>3. Min(S) \in S /\ \A y \in S : Min(S) <= y
  BY <1>1 DEF Min
<1>4. Max(S) \in S /\ \A y \in S : y <= Max(S)
  <2>1. \E x \in S : \A y \in S : x >= y
    BY <1>2
  <2>2. Max(S) \in S /\ \A y \in S : Max(S) >= y
    BY <2>1 DEF Max
  <2>. QED BY <2>2
<1>. QED BY <1>3, <1>4 DEF Pick

\* Tables that have their types have a program.
LEMMA ProgTree ==
  ASSUME TablesTyped
  PROVE  IsProgram(prog) /\ DOMAIN prog = 1..Len(prog) /\ Len(prog) \in Nat \ {0}
BY ProgramsAssumption, ProgramFacts DEF TablesTyped

\* The identifiers begin with the five basic ones.
LEMMA IdsAre ==
  ASSUME IdsTyped
  PROVE  /\ DOMAIN ids = 1..Len(ids) /\ Len(ids) \in Nat
         /\ 1 \in DOMAIN ids /\ 2 \in DOMAIN ids /\ 3 \in DOMAIN ids /\ 4 \in DOMAIN ids /\ 5 \in DOMAIN ids
BY DEF IdsTyped

\* The blocks above a node are nodes; the nearest of some of them is one of them.
LEMMA NearestAbove ==
  ASSUME TablesTyped, NEW n \in DOMAIN prog
  PROVE  /\ BlocksAbove(prog, n) \subseteq DOMAIN prog
         /\ \A S \in SUBSET BlocksAbove(prog, n) : S # {} => NearestBlock(S) \in S /\ \A y \in S : y <= NearestBlock(S)
<1>1. BlocksAbove(prog, n) \subseteq DOMAIN prog
  BY ProgTree, BlocksAboveAre
<1>2. ASSUME NEW S \in SUBSET BlocksAbove(prog, n), S # {}
      PROVE  NearestBlock(S) \in S /\ \A y \in S : y <= NearestBlock(S)
  <2>1. S \in SUBSET (0..Len(prog)) /\ Len(prog) \in Nat
    BY <1>1, ProgTree
  <2>. QED BY <1>2, <2>1, PickFacts DEF NearestBlock
<1>. QED BY <1>1, <1>2

\* An identifier that is found by names is known in the nearest block above that
\* knows these.
LEMMA FoundByName ==
  ASSUME TablesTyped, NEW n \in DOMAIN prog, NEW names
  PROVE  LET i == TypeIdFromInfo(names, n) IN
         /\ i \in {0} \cup DOMAIN ids /\ i \in Nat
         /\ i # 0 => /\ i \in DOMAIN ids /\ ids[i].names = names
                     /\ \E b \in BlocksAbove(prog, n) : i \in blockTypes[b]
         /\ i = 0 => \A b \in BlocksAbove(prog, n) : Named(b, names) = {}
<1>. DEFINE knowing == {b \in BlocksAbove(prog, n) : Named(b, names) # {}}
            i == TypeIdFromInfo(names, n)
            c == NearestBlock(knowing)
<1>1. CASE knowing = {}
  BY <1>1 DEF TypeIdFromInfo
<1>2. CASE knowing # {}
  <2>1. c \in knowing
    BY <1>2, NearestAbove
  <2>2. i = Pick(Named(c, names))
    BY <1>2 DEF TypeIdFromInfo
  <2>3. c \in BlocksAbove(prog, n) /\ c \in DOMAIN prog /\ Named(c, names) # {}
    BY <2>1, NearestAbove
  <2>4. Named(c, names) \subseteq blockTypes[c] /\ blockTypes[c] \subseteq DOMAIN ids
    BY <2>3 DEF Named, TablesTyped, BlocksTyped
  <2>5. DOMAIN ids = 1..Len(ids) /\ Len(ids) \in Nat
    BY IdsAre DEF TablesTyped
  <2>. DEFINE N == Named(c, names)
  <2>. HIDE DEF i, c, knowing, N
  <2>51. N \subseteq DOMAIN ids /\ N # {} /\ i = Pick(N)
    BY <2>2, <2>3, <2>4 DEF N
  <2>6. N \in SUBSET (0..Len(ids))
    BY <2>51, <2>5
  <2>7. i \in Named(c, names)
    <3>1. Pick(N) \in N
      BY <2>51, <2>5, <2>6, PickFacts
    <3>. QED BY <2>51, <3>1 DEF N
  <2>8. i \in DOMAIN ids /\ i # 0 /\ i \in Nat /\ ids[i].names = names
    BY <2>4, <2>5, <2>7 DEF Named
  <2>9. i \in blockTypes[c]
    BY <2>4, <2>7
  <2>. QED BY <2>3, <2>8, <2>9 DEF i
<1>. QED BY <1>1, <1>2

\* What FindAbove finds is a node of that kind above.
LEMMA AboveOne ==
  ASSUME TablesTyped, NEW n \in DOMAIN prog, NEW k
  PROVE  FindAbove(prog, n, k) # 0 => /\ FindAbove(prog, n, k) \in DOMAIN prog
                                      /\ prog[FindAbove(prog, n, k)].k = k /\ FindAbove(prog, n, k) # n
                                      /\ Within(prog, n, FindAbove(prog, n, k))
BY ProgTree, FindAboveIsNearest DEF Nearest

\* A node that is not the root is in a block.
LEMMA Enclosed ==
  ASSUME TablesTyped, NEW n \in DOMAIN prog, n # 1
  PROVE  /\ EnclosingBlock(n) \in DOMAIN prog /\ EnclosingBlock(n) \in BlocksAbove(prog, n)
         /\ \A b \in BlocksAbove(prog, n) : b = EnclosingBlock(n) \/ b \in BlocksAbove(prog, EnclosingBlock(n))
<1>. DEFINE e == EnclosingBlock(n)
<1>1. e \in 0..Len(prog) /\ Nearest(prog, n, "block", e)
  BY ProgTree, FindAboveIsNearest DEF EnclosingBlock
<1>2. prog[1].k = "block" /\ Within(prog, n, 1) /\ 1 \in DOMAIN prog
  BY ProgTree, ProgramFacts, WithinOrder
<1>3. e # 0
  BY <1>1, <1>2 DEF Nearest
<1>4. e \in DOMAIN prog /\ prog[e].k = "block" /\ e # n /\ Within(prog, n, e)
  BY <1>1, <1>3 DEF Nearest
<1>5. \A a \in DOMAIN prog : prog[a].k = "block" /\ a # n /\ Within(prog, n, a) => Within(prog, e, a)
  BY <1>1, <1>3 DEF Nearest
<1>. HIDE DEF e
<1>6. BlocksAbove(prog, n) = {b \in DOMAIN prog : prog[b].k = "block" /\ b # n /\ Within(prog, n, b)}
  BY ProgTree, BlocksAboveAre
<1>7. BlocksAbove(prog, e) = {b \in DOMAIN prog : prog[b].k = "block" /\ b # e /\ Within(prog, e, b)}
  BY <1>4, ProgTree, BlocksAboveAre
<1>8. \A b \in BlocksAbove(prog, n) : b = e \/ b \in BlocksAbove(prog, e)
  BY <1>5, <1>6, <1>7
<1>. QED BY <1>4, <1>6, <1>8 DEF e

(***************************************************************************)
(* What expressions give                                                   *)
(***************************************************************************)
Functional == {0} \cup {f.node : f \in blockFuncs}
Values ==
  [how : {"ok"}, ty : DOMAIN ids, lt : Lts, ok : BOOLEAN, here : BOOLEAN, uses : SUBSET Uses,
   stores : SUBSET StoreSet, words : SUBSET Nat, fun : Functional, var : Nat]
\* What LLVM accepts was allowed.
Good(v) == v \in Values /\ (v.ok => StoresAllowed(v.stores))
Result(v) == (\E h \in Failures : v = Thrown(h)) \/ Good(v)

\* A failure is a result.
LEMMA ThrownIs ==
  ASSUME NEW h \in Failures
  PROVE  Result(Thrown(h)) /\ Thrown(h).how = h /\ h # "ok"
BY DEF Result, Thrown, Failures, Errors

\* A result is a good value or a failure.
LEMMA ResultIs ==
  ASSUME NEW v, Result(v)
  PROVE  /\ v.how = "ok" => Good(v)
         /\ v.how # "ok" => v.how \in Failures /\ v = Thrown(v.how)
BY DEF Result, Good, Values, Thrown, Failures, Errors

\* A fresh value is good.
LEMMA ValueIs ==
  ASSUME NEW ty \in DOMAIN ids, NEW lt \in Lts
  PROVE  /\ Good(Value(ty, lt))
         /\ Value(ty, lt) = [how |-> "ok", ty |-> ty, lt |-> lt, ok |-> TRUE, here |-> TRUE, uses |-> {},
                             stores |-> {}, words |-> {}, fun |-> 0, var |-> 0]
BY DEF Good, Value, Values, StoresAllowed, Functional

\* The type an identifier stands for.
LEMMA BaseIs ==
  ASSUME IdsTyped, NEW i \in DOMAIN ids
  PROVE  Base(i) \in {0, i} /\ Base(i) \in Nat
BY IdsAre DEF Base, Union

\* A loaded value is good.
LEMMA LoadIs ==
  ASSUME NEW v, Good(v)
  PROVE  Good(Load(v)) /\ Load(v).lt \in Lts /\ Load(v).ty = v.ty /\ Load(v).ok = v.ok
<1>1. CASE v.lt.ptr > 0
  <2>1. Load(v) = [v EXCEPT !.lt.ptr = v.lt.ptr - 1]
    BY <1>1 DEF Load
  <2>2. v.lt \in Lts /\ v.lt.ptr = 1
    BY <1>1 DEF Good, Values, Lts
  <2>3. [v.lt EXCEPT !.ptr = 0] \in Lts
    BY <2>2 DEF Lts
  <2>4. Load(v) = [v EXCEPT !.lt = [v.lt EXCEPT !.ptr = 0]]
    BY <2>1, <2>2 DEF Good, Values
  <2>. QED BY <2>3, <2>4 DEF Good, Values
<1>2. CASE ~(v.lt.ptr > 0)
  BY <1>2 DEF Load, Good, Values
<1>. QED BY <1>1, <1>2

\* Operands that were compiled.
AllGood(ops) == \A i \in DOMAIN ops : Good(ops[i])

\* A value made from good operands is good, and accepted only if what made it
\* was.
LEMMA FromIs ==
  ASSUME NEW ops, AllGood(ops), NEW ty \in DOMAIN ids, NEW lt \in Lts, NEW ok \in BOOLEAN
  PROVE  LET r == From(ops, ty, lt, ok) IN
         /\ Good(r) /\ r.ty = ty /\ r.lt = lt /\ (r.ok => ok)
<1>. DEFINE oks == ok /\ \A i \in DOMAIN ops : ops[i].ok /\ ops[i].here
            uses == UNION {ops[i].uses : i \in DOMAIN ops}
            stores == UNION {ops[i].stores : i \in DOMAIN ops}
            words == UNION {ops[i].words : i \in DOMAIN ops}
            r == From(ops, ty, lt, ok)
<1>1. r = [[[[Value(ty, lt) EXCEPT !.ok = oks] EXCEPT !.uses = uses] EXCEPT !.stores = stores] EXCEPT !.words = words]
  BY DEF From
<1>2. r = [how |-> "ok", ty |-> ty, lt |-> lt, ok |-> oks, here |-> TRUE, uses |-> uses, stores |-> stores,
           words |-> words, fun |-> 0, var |-> 0]
  <2>. DEFINE u == Value(ty, lt)
  <2>1. u = [how |-> "ok", ty |-> ty, lt |-> lt, ok |-> TRUE, here |-> TRUE, uses |-> {}, stores |-> {},
             words |-> {}, fun |-> 0, var |-> 0]
    BY ValueIs
  <2>2. r = [[[[u EXCEPT !.ok = oks] EXCEPT !.uses = uses] EXCEPT !.stores = stores] EXCEPT !.words = words]
    BY <1>1
  <2>. HIDE DEF oks, uses, stores, words, r, u
  <2>. QED BY <2>1, <2>2
<1>3. uses \in SUBSET Uses /\ stores \in SUBSET StoreSet /\ words \in SUBSET Nat /\ oks \in BOOLEAN
  <2>1. \A i \in DOMAIN ops : ops[i].uses \subseteq Uses /\ ops[i].stores \subseteq StoreSet /\ ops[i].words \subseteq Nat
    BY DEF AllGood, Good, Values
  <2>. QED BY <2>1
<1>4. oks => StoresAllowed(stores)
  <2>. SUFFICES ASSUME oks, NEW s \in stores PROVE TypeFits(s) \/ LeftToTheCheck(s)
    BY DEF StoresAllowed
  <2>1. PICK i \in DOMAIN ops : s \in ops[i].stores
    OBVIOUS
  <2>. QED BY <2>1 DEF AllGood, Good, StoresAllowed
<1>5. r.ok = oks /\ r.ty = ty /\ r.lt = lt /\ r.stores = stores
  BY <1>2
<1>6. r \in Values
  <2>. HIDE DEF oks, uses, stores, words, r
  <2>. QED BY <1>2, <1>3 DEF Values, Functional
<1>7. Good(r) /\ r.ty = ty /\ r.lt = lt /\ (r.ok => ok)
  <2>. HIDE DEF stores, r
  <2>. QED BY <1>4, <1>5, <1>6 DEF Good
<1>. QED BY <1>7

\* A type check that passes was of compatible types, or of an address, which
\* typeCheck's own comparison lets through.
LEMMA CheckIs ==
  ASSUME NEW ty \in DOMAIN ids, NEW v
  PROVE  /\ TypeCheck(ty, v) \in {"type", "undefined", "ok"}
         /\ TypeCheck(ty, v) = "ok" => IsCompat(ids[ty], ids[v.ty]) # "incompatible"
         /\ TypeCheck(ty, v) = "ok" => ids[v.ty].types \subseteq ids[ty].types \/ v.lt.ptr # 0
BY DEF TypeCheck, IsCompat

\* CheckedStore yields a result, with what it stores recorded.
LEMMA StoreIs ==
  ASSUME IdsTyped, NEW ops, AllGood(ops), NEW to, to.ty \in DOMAIN ids, to.lt \in Lts, NEW v, Good(v),
         NEW boxed \in BOOLEAN
  PROVE  Result(CheckedStore(ops, to, v, boxed))
<1>. DEFINE check == TypeCheck(to.ty, v)
            fits == IF boxed THEN IsA(v, Base(v.ty)) ELSE to.lt = Lt(v.lt.ptr + 1, v.lt.of)
            r == From(ops, v.ty, v.lt, fits)
            s == Stored(to.ty, v.ty, "place")
            ws == IF boxed THEN BoxedWords ELSE {}
            w == [[[[r EXCEPT !.stores = r.stores \cup {s}] EXCEPT !.fun = v.fun] EXCEPT !.var = v.var]
                    EXCEPT !.words = r.words \cup ws]
<1>1. v.ty \in DOMAIN ids /\ v.lt \in Lts /\ v.fun \in Functional /\ v.var \in Nat /\ fits \in BOOLEAN
  BY DEF Good, Values, IsA
<1>2. Good(r) /\ r.ty = v.ty /\ r.lt = v.lt /\ (r.ok => fits)
  <2>. HIDE DEF fits
  <2>. QED BY <1>1, FromIs
<1>3. CASE check # "ok"
  <2>1. CheckedStore(ops, to, v, boxed) = Thrown(check)
    BY <1>3 DEF CheckedStore
  <2>2. check \in Failures
    BY <1>3, CheckIs DEF Failures, Errors
  <2>. QED BY <2>1, <2>2, ThrownIs
<1>4. CASE check = "ok" /\ boxed /\ to.lt.ptr = 0
  <2>1. CheckedStore(ops, to, v, boxed) = Thrown("undefined")
    BY <1>4 DEF CheckedStore, Store
  <2>. QED BY <2>1, ThrownIs DEF Failures
<1>5. CASE check = "ok" /\ ~(boxed /\ to.lt.ptr = 0)
  <2>1. CheckedStore(ops, to, v, boxed) = w
    <3>1. CheckedStore(ops, to, v, boxed) = Store(ops, to, v, boxed)
      BY <1>5 DEF CheckedStore
    <3>2. Store(ops, to, v, boxed) = w
      BY <1>5 DEF Store
    <3>. QED BY <3>1, <3>2
  <2>2. ids[v.ty].types \subseteq ids[to.ty].types \/ v.lt.ptr # 0
    BY <1>5, CheckIs
  <2>3. fits => v.lt.ptr = 0
    <3>1. CASE boxed
      BY <3>1 DEF IsA, Lt
    <3>2. CASE ~boxed
      <4>1. fits => to.lt.ptr = v.lt.ptr + 1
        BY <3>2 DEF Lt
      <4>. QED BY <4>1, <1>1 DEF Lts
    <3>. QED BY <3>1, <3>2
  <2>. HIDE DEF r, fits, check
  <2>4. s \in StoreSet
    BY <1>1 DEF StoreSet, Stored
  <2>5. ws \in SUBSET Nat
    BY DEF BoxedWords, UnionField, UnionWords
  <2>. HIDE DEF s, ws
  <2>6. w \in Values
    BY <1>1, <1>2, <2>4, <2>5 DEF Good, Values
  <2>7. w.ok = r.ok /\ w.stores = r.stores \cup {s}
    BY <1>2 DEF Good, Values
  <2>8. w.ok => StoresAllowed(w.stores)
    <3>. SUFFICES ASSUME w.ok, NEW z \in w.stores PROVE TypeFits(z) \/ LeftToTheCheck(z)
      BY DEF StoresAllowed
    <3>. HIDE DEF w
    <3>1. CASE z \in r.stores
      BY <3>1, <1>2, <2>7 DEF Good, StoresAllowed
    <3>2. CASE z = s
      BY <3>2, <1>2, <2>2, <2>3, <2>7 DEF s, Stored, TypeFits
    <3>. QED BY <3>1, <3>2, <2>7
  <2>. HIDE DEF w
  <2>. QED BY <2>1, <2>6, <2>8 DEF Result, Good
<1>. QED BY <1>3, <1>4, <1>5

\* Operators on numbers and truth values.
LEMMA LoadingIs ==
  ASSUME IdsTyped, NEW ops, AllGood(ops), 1 \in DOMAIN ops, NEW op
  PROVE  Result(LoadingOp(op, ops)) /\ Result(IncrementOp(op, ops)) /\ Result(ops[1])
         /\ (2 \in DOMAIN ops => Result(ArithmeticOp(ops)))
<1>1. Good(ops[1]) /\ ops[1].ty \in DOMAIN ids /\ Load(ops[1]).lt \in Lts
  BY LoadIs DEF AllGood, Good, Values
<1>2. Integer \in DOMAIN ids /\ Float \in DOMAIN ids /\ Boolean \in DOMAIN ids
  BY IdsAre DEF Integer, Float, Boolean
<1>3. Lt(0, Boolean) \in Lts /\ Lt(0, Void) \in Lts
  BY DEF Lt, Lts, Boolean, Void
<1>4. Result(LoadingOp(op, ops))
  <2>. DEFINE valid == \A i \in DOMAIN ops : IsA(Load(ops[i]), ops[i].ty)
  <2>1. valid \in BOOLEAN
    OBVIOUS
  <2>2. LoadingOp(op, ops) = IF op \in Comparisons THEN From(ops, Boolean, Lt(0, Boolean), valid)
                             ELSE From(ops, ops[1].ty, Load(ops[1]).lt, valid)
    BY DEF LoadingOp
  <2>. HIDE DEF valid
  <2>3. Good(From(ops, Boolean, Lt(0, Boolean), valid))
    BY <1>2, <1>3, <2>1, FromIs
  <2>4. Good(From(ops, ops[1].ty, Load(ops[1]).lt, valid))
    BY <1>1, <2>1, FromIs
  <2>. QED BY <2>2, <2>3, <2>4 DEF Result
<1>5. Result(IncrementOp(op, ops))
  <2>. DEFINE valid == ops[1].ty = Integer /\ ops[1].lt = Lt(1, Integer)
              lt == IF op \in {"Postfix ++", "Postfix --"} THEN Load(ops[1]).lt ELSE Lt(0, Void)
  <2>1. valid \in BOOLEAN /\ lt \in Lts
    BY <1>1, <1>3
  <2>2. IncrementOp(op, ops) = From(ops, ops[1].ty, lt, valid)
    BY DEF IncrementOp
  <2>. HIDE DEF valid, lt
  <2>3. Good(From(ops, ops[1].ty, lt, valid))
    BY <1>1, <2>1, FromIs
  <2>. QED BY <2>2, <2>3 DEF Result
<1>6. ASSUME 2 \in DOMAIN ops PROVE Result(ArithmeticOp(ops))
  <2>. DEFINE ty == IF \A i \in {1, 2} : ops[i].ty = Integer THEN Integer ELSE Float
              valid == \A i \in {1, 2} : IsA(Load(ops[i]), ty)
  <2>1. ty \in DOMAIN ids /\ valid \in BOOLEAN
    BY <1>2
  <2>2. ArithmeticOp(ops) = From(ops, ty, Load(ops[1]).lt, valid)
    BY DEF ArithmeticOp
  <2>. HIDE DEF ty, valid
  <2>3. Good(From(ops, ty, Load(ops[1]).lt, valid))
    BY <1>1, <2>1, FromIs
  <2>. QED BY <2>2, <2>3 DEF Result
<1>7. Result(ops[1])
  BY <1>1 DEF Result
<1>. QED BY <1>4, <1>5, <1>6, <1>7

\* A call passes what its function's arguments allow.
LEMMA CallIs ==
  ASSUME TablesTyped, NEW n \in DOMAIN prog, NEW ops, ops \in Seq(Values), AllGood(ops), ops # <<>>
  PROVE  Result(Call(ops, n))
<1>. DEFINE fun == ops[1].fun
            args == Arguments(fun)
            argIds == [i \in DOMAIN args |-> TypeIdFromInfo(args[i].types, n)]
            how == [i \in DOMAIN args |-> IF argIds[i] = 0 THEN "type" ELSE TypeCheck(argIds[i], ops[i + 1])]
            wrong == {i \in DOMAIN args : how[i] # "ok"}
            ret == IF prog[fun].types = {} THEN Void ELSE TypeIdFromInfo(prog[fun].types, n)
            fits == \A i \in DOMAIN args : ops[i + 1].lt = signatures[fun].args[i]
            passed == {Stored(argIds[i], ops[i + 1].ty, "place") : i \in DOMAIN args}
            lt == Lt(0, signatures[fun].ret)
            r == From(ops, ret, lt, fits)
            w == [r EXCEPT !.stores = r.stores \cup passed]
<1>1. 1 \in DOMAIN ops /\ DOMAIN ops = 1..Len(ops) /\ Len(ops) \in Nat /\ Good(ops[1])
  BY DEF AllGood
<1>2. CASE ops[1].ty # Function
  <2>1. Call(ops, n) = Thrown("type")
    BY <1>2 DEF Call
  <2>. QED BY <2>1, ThrownIs DEF Failures, Errors
<1>3. CASE ops[1].ty = Function /\ fun = 0
  <2>1. Call(ops, n) = Thrown("undefined")
    BY <1>3 DEF Call
  <2>. QED BY <2>1, ThrownIs DEF Failures
<1>4. CASE ops[1].ty = Function /\ fun # 0 /\ (fun = Runtime \/ Len(ops) - 1 # Len(args))
  <2>1. Call(ops, n) = Thrown("type")
    BY <1>4 DEF Call
  <2>. QED BY <2>1, ThrownIs DEF Failures, Errors
<1>5. CASE ops[1].ty = Function /\ fun # 0 /\ fun # Runtime /\ Len(ops) - 1 = Len(args)
  <2>1. fun \in DOMAIN prog /\ Callable(fun)
    <3>1. PICK f \in blockFuncs : fun = f.node
      BY <1>1, <1>5 DEF Good, Values, Functional
    <3>. QED BY <1>5, <3>1 DEF TablesTyped, FuncsTyped
  <2>2. fun <= Len(prog) /\ fun \in 1..(2 * Len(prog)) /\ prog[fun] \in TreeNodes
    BY <2>1, ProgTree, ProgramFacts
  <2>3. args = prog[fun].args
    BY <2>1, <2>2 DEF Arguments, Callable
  <2>4. args \in Seq([name : STRING, types : SUBSET STRING])
    BY <2>2, <2>3 DEF TreeNodes
  <2>5. DOMAIN args = 1..Len(args) /\ Len(args) \in Nat
    BY <2>4
  <2>6. signatures[fun] \in [args : Seq(Lts), ret : Nat]
    BY <2>2 DEF TablesTyped, SignaturesTyped
  <2>7. Len(signatures[fun].args) = Len(args) /\ \A i \in DOMAIN args : signatures[fun].args[i].ptr = 0
    BY <2>1, <2>3, <2>5, <2>6 DEF Callable
  <2>8. \A i \in DOMAIN args : i + 1 \in DOMAIN ops /\ Good(ops[i + 1])
    <3>. HIDE DEF args
    <3>1. Len(ops) = Len(args) + 1
      <4>1. Len(ops) - 1 = Len(args)
        BY <1>5
      <4>2. Len(ops) \in Nat /\ Len(args) \in Nat
        BY <1>1, <2>5
      <4>. QED BY <4>1, <4>2
    <3>2. \A i \in DOMAIN args : i + 1 \in DOMAIN ops
      BY <1>1, <2>5, <3>1
    <3>. QED BY <3>2 DEF AllGood
  <2>9. \A i \in DOMAIN args : argIds[i] \in {0} \cup DOMAIN ids
    BY FoundByName
  <2>10. \A i \in DOMAIN args : how[i] \in {"type", "undefined", "ok"}
    BY <2>9, CheckIs
  <2>11. CASE wrong # {}
    <3>1. Call(ops, n) = Thrown(how[Min(wrong)])
      BY <1>5, <2>11 DEF Call
    <3>2. Min(wrong) \in wrong
      <4>1. wrong \in SUBSET (0..Len(args)) /\ Len(args) \in Nat
        BY <2>5
      <4>. HIDE DEF wrong, args
      <4>. QED BY <2>11, <4>1, PickFacts
    <3>3. how[Min(wrong)] \in Failures
      BY <2>10, <3>2 DEF Failures, Errors
    <3>. QED BY <3>1, <3>3, ThrownIs
  <2>12. CASE wrong = {} /\ ret = 0
    <3>1. Call(ops, n) = Thrown("type")
      BY <1>5, <2>12 DEF Call
    <3>. QED BY <3>1, ThrownIs DEF Failures, Errors
  <2>13. CASE wrong = {} /\ ret # 0
    <3>1. Call(ops, n) = w
      BY <1>5, <2>13 DEF Call
    <3>2. ret \in DOMAIN ids
      <4>1. Void \in DOMAIN ids
        BY IdsAre DEF TablesTyped, Void
      <4>. QED BY <2>13, <4>1, FoundByName
    <3>3. lt \in Lts
      BY <2>6 DEF Lt, Lts
    <3>4. fits \in BOOLEAN
      OBVIOUS
    <3>5. \A i \in DOMAIN args : /\ argIds[i] \in DOMAIN ids /\ TypeCheck(argIds[i], ops[i + 1]) = "ok"
                                 /\ ops[i + 1].ty \in DOMAIN ids
      <4>1. \A i \in DOMAIN args : how[i] = "ok"
        BY <2>13
      <4>2. \A i \in DOMAIN args : ops[i + 1].ty \in DOMAIN ids
        BY <2>8 DEF Good, Values
      <4>. QED BY <2>9, <4>1, <4>2
    <3>6. passed \subseteq StoreSet
      BY <3>5 DEF StoreSet, Stored
    <3>7. fits => StoresAllowed(passed)
      <4>. SUFFICES ASSUME fits, NEW i \in DOMAIN args PROVE ids[ops[i + 1].ty].types \subseteq ids[argIds[i]].types
        BY DEF StoresAllowed, Stored, TypeFits
      <4>1. ops[i + 1].lt.ptr = 0
        BY <2>7
      <4>2. argIds[i] \in DOMAIN ids /\ TypeCheck(argIds[i], ops[i + 1]) = "ok"
        BY <3>5
      <4>. HIDE DEF argIds
      <4>. QED BY <4>1, <4>2, CheckIs
    <3>. HIDE DEF ret, lt, fits, passed
    <3>8. Good(r) /\ (r.ok => fits)
      BY <3>2, <3>3, <3>4, FromIs
    <3>. HIDE DEF r
    <3>9. w \in Values /\ w.ok = r.ok /\ w.stores = r.stores \cup passed
      BY <3>6, <3>8 DEF Good, Values
    <3>10. w.ok => StoresAllowed(w.stores)
      BY <3>7, <3>8, <3>9 DEF Good, StoresAllowed
    <3>. HIDE DEF w
    <3>. QED BY <3>1, <3>9, <3>10 DEF Good, Result
  <2>. QED BY <2>11, <2>12, <2>13
<1>. QED BY <1>2, <1>3, <1>4, <1>5

\* Every operator, of as many good operands as it takes, yields a result.
LEMMA CodegenIs ==
  ASSUME TablesTyped, NEW n \in DOMAIN prog, NEW ops, ops \in Seq(Values), AllGood(ops), ops # <<>>, NEW op,
         op = "Call" \/ Len(ops) = (IF op \in Unary THEN 1 ELSE 2)
  PROVE  Result(Codegen(op, ops, n))
<1>1. 1 \in DOMAIN ops /\ DOMAIN ops = 1..Len(ops) /\ Len(ops) \in Nat
  OBVIOUS
<1>2. IdsTyped
  BY DEF TablesTyped
<1>3. "uncaught" \in Failures /\ "type" \in Failures
  BY DEF Failures, Errors
<1>4. Result(Thrown("uncaught")) /\ Result(Thrown("type"))
  BY <1>3, ThrownIs
<1>5. Result(Call(ops, n))
  BY CallIs
<1>6. op = "Assignment" => Result(Assignment(ops))
  <2>. SUFFICES ASSUME op = "Assignment" PROVE Result(Assignment(ops))
    OBVIOUS
  <2>1. 2 \in DOMAIN ops
    BY <1>1 DEF Unary, Nots, Signs, Increments
  <2>2. Good(ops[1]) /\ Good(ops[2]) /\ ops[1].ty \in DOMAIN ids /\ ops[1].lt \in Lts
    BY <1>1, <2>1 DEF AllGood, Good, Values
  <2>. DEFINE boxed == IsList(ids[ops[1].ty])
  <2>3. boxed \in BOOLEAN
    BY DEF IsList
  <2>4. Assignment(ops) = CheckedStore(ops, ops[1], ops[2], boxed)
    BY DEF Assignment
  <2>. HIDE DEF boxed
  <2>. QED BY <1>2, <2>2, <2>3, <2>4, StoreIs
<1>7. Result(LoadingOp(op, ops)) /\ Result(IncrementOp(op, ops)) /\ Result(ops[1])
  BY <1>1, <1>2, LoadingIs
<1>8. op \in Arithmetic => Result(ArithmeticOp(ops))
  <2>. SUFFICES ASSUME op \in Arithmetic PROVE Result(ArithmeticOp(ops))
    OBVIOUS
  <2>1. 2 \in DOMAIN ops
    <3>1. op # "Call"
      BY DEF Arithmetic
    <3>2. op \notin Unary
      BY DEF Arithmetic, Unary, Nots, Signs, Increments
    <3>. QED BY <1>1, <3>1, <3>2
  <2>. QED BY <1>1, <1>2, <2>1, LoadingIs
<1>. QED BY <1>4, <1>5, <1>6, <1>7, <1>8 DEF Codegen

ArgumentSet == [name : STRING \cup {"this"}, types : SUBSET STRING]

\* One use of a name.
LEMMA UseIs ==
  ASSUME NEW name \in STRING, NEW kind \in {"argument", "var", "function", "member"}, NEW to \in Nat \cup {Runtime}
  PROVE  {Use(name, kind, to)} \in SUBSET Uses
<1>2. Use(name, kind, to) = [name |-> name, kind |-> kind, to |-> to]
  BY DEF Use
<1>3. Use(name, kind, to) \in Uses
  BY <1>2 DEF Uses
<1>. QED BY <1>3

\* The arguments of a function, the normal initialisers included.
LEMMA ArgumentsAre ==
  ASSUME TablesTyped, NEW f \in 1..(2 * Len(prog))
  PROVE  Arguments(f) \in Seq(ArgumentSet)
<1>1. Len(prog) \in Nat /\ DOMAIN prog = 1..Len(prog)
  BY ProgTree
<1>2. \A n \in DOMAIN prog : prog[n] \in TreeNodes /\ (n # 1 => prog[n].parent \in DOMAIN prog)
  BY ProgTree, ProgramFacts
<1>3. \A n \in DOMAIN prog : This(n) \in ArgumentSet /\ prog[n].args \in Seq(ArgumentSet)
  <2>. SUFFICES ASSUME NEW n \in DOMAIN prog PROVE This(n) \in ArgumentSet /\ prog[n].args \in Seq(ArgumentSet)
    OBVIOUS
  <2>1. prog[n].name \in STRING /\ prog[n].args \in Seq([name : STRING, types : SUBSET STRING])
    BY <1>2 DEF TreeNodes
  <2>2. This(n) \in ArgumentSet
    BY <2>1 DEF This, ArgumentSet
  <2>3. [name : STRING, types : SUBSET STRING] \subseteq ArgumentSet
    BY DEF ArgumentSet
  <2>. HIDE DEF ArgumentSet
  <2>4. \A S : \A T : S \subseteq T => Seq(S) \subseteq Seq(T)
    BY SeqMonotonic
  <2>. QED BY <2>1, <2>2, <2>3, <2>4
<1>4. CASE f > Len(prog)
  <2>1. f - Len(prog) \in DOMAIN prog
    BY <1>1, <1>4
  <2>2. Arguments(f) = <<This(f - Len(prog))>>
    BY <1>4 DEF Arguments
  <2>. QED BY <1>3, <2>1, <2>2
<1>5. CASE f <= Len(prog)
  <2>1. f \in DOMAIN prog
    BY <1>1, <1>5
  <2>2. CASE prog[f].k = "constructor"
    <3>1. f # 1
      BY <2>2, ProgTree, ProgramFacts
    <3>2. prog[f].parent \in DOMAIN prog
      BY <2>1, <3>1, <1>2
    <3>3. Arguments(f) = <<This(prog[f].parent)>> \o prog[f].args
      BY <1>1, <1>5, <2>2 DEF Arguments
    <3>. QED BY <1>3, <2>1, <3>2, <3>3
  <2>3. CASE prog[f].k # "constructor"
    BY <1>1, <1>3, <1>5, <2>1, <2>3 DEF Arguments
  <2>. QED BY <2>2, <2>3
<1>. QED BY <1>1, <1>4, <1>5

\* A name that a block binds is a variable or a function.
LEMMA ScopeIs ==
  ASSUME TablesTyped, NEW name \in STRING, NEW b, Binds(b, name)
  PROVE  Result(InScope(b, name))
<1>1. IdsTyped
  BY DEF TablesTyped
<1>2. Function \in DOMAIN ids
  BY <1>1, IdsAre DEF Function
<1>3. CASE Variables(b, name) # {}
  <2>. DEFINE v == CHOOSE v \in Variables(b, name) : TRUE
              lt == Lt(IF v.returned THEN 0 ELSE 1, Base(v.ty))
              u == Value(v.ty, lt)
              ok == v.fn = at /\ ~v.returned
              s == {Use(name, "var", v.node)}
              w == [[[u EXCEPT !.here = ok] EXCEPT !.var = v.node] EXCEPT !.uses = s]
  <2>1. v \in Variables(b, name)
    BY <1>3
  <2>2. v.ty \in DOMAIN ids /\ v.node \in DOMAIN prog /\ v.returned \in BOOLEAN
    BY <2>1 DEF Variables, TablesTyped, ScopeTyped
  <2>3. lt \in Lts
    BY <1>1, <2>2, BaseIs DEF Lt, Lts
  <2>4. v.node \in Nat
    BY <2>2, ProgTree
  <2>5. s \in SUBSET Uses
    BY <2>4, UseIs
  <2>6. ok \in BOOLEAN
    BY <2>2
  <2>7. InScope(b, name) = w
    BY <1>3 DEF InScope
  <2>. HIDE DEF v, lt, ok, s
  <2>8. Good(u) /\ u.stores = {}
    BY <2>2, <2>3, ValueIs
  <2>. HIDE DEF u
  <2>9. w \in Values /\ w.stores = {}
    BY <2>4, <2>5, <2>6, <2>8 DEF Good, Values
  <2>. QED BY <2>7, <2>9 DEF Result, Good, StoresAllowed
<1>4. CASE Variables(b, name) = {}
  <2>. DEFINE f == CHOOSE f \in FunctionsIn(b, name) : TRUE
              u == Value(Function, Lt(1, Code))
              s == {Use(name, "function", f.node)}
              w == [[u EXCEPT !.fun = f.node] EXCEPT !.uses = s]
  <2>1. f \in FunctionsIn(b, name)
    BY <1>4 DEF Binds
  <2>2. f \in blockFuncs /\ f.node \in DOMAIN prog \cup {Runtime}
    BY <2>1 DEF FunctionsIn, TablesTyped, FuncsTyped
  <2>3. f.node \in Nat \cup {Runtime}
    BY <2>2, ProgTree
  <2>4. s \in SUBSET Uses
    BY <2>3, UseIs
  <2>5. InScope(b, name) = w
    BY <1>4 DEF InScope
  <2>6. f.node \in Functional
    BY <2>2 DEF Functional
  <2>. HIDE DEF f, s
  <2>7. Lt(1, Code) \in Lts
    BY DEF Lt, Lts, Code
  <2>8. Good(u) /\ u.stores = {}
    BY <1>2, <2>7, ValueIs
  <2>. HIDE DEF u
  <2>9. w \in Values /\ w.stores = {}
    BY <2>4, <2>6, <2>8 DEF Good, Values
  <2>. QED BY <2>5, <2>9 DEF Result, Good, StoresAllowed
<1>. QED BY <1>3, <1>4

\* A name looked up in the type that this points to yields a result.
LEMMA FromThisIs ==
  ASSUME TablesTyped, NEW name \in STRING, NEW n \in DOMAIN prog, NEW f \in 1..(2 * Len(prog))
  PROVE  Result(FromThis(name, n, f))
<1>. DEFINE constructor == FindAbove(prog, n, "constructor")
            above == IF constructor # 0 THEN constructor ELSE FindAbove(prog, n, "method")
            t == prog[above].parent
            members == tyData[t].members
            found == {i \in DOMAIN members : prog[members[i].node].name = name}
            first == members[Min(found)]
            ty == TypeIdFromInfo(prog[first.node].types, t)
            u == Value(ty, Lt(1, first.of))
            ok == signatures[f].args[1] = Lt(1, TidOf(t))
            s == {Use(name, "member", first.node)}
            w == [[u EXCEPT !.ok = ok] EXCEPT !.uses = s]
<1>1. "unbound" \in Failures /\ "internal" \in Failures
  BY DEF Failures, Errors
<1>2. Result(Thrown("unbound")) /\ Result(Thrown("internal"))
  BY <1>1, ThrownIs
<1>3. CASE above = 0
  BY <1>2, <1>3 DEF FromThis
<1>4. CASE above # 0 /\ (signatures[f].args = <<>> \/ ~tyData[t].laidOut)
  BY <1>2, <1>4 DEF FromThis
<1>5. CASE above # 0 /\ ~(signatures[f].args = <<>> \/ ~tyData[t].laidOut) /\ (found = {} \/ ty = 0)
  BY <1>2, <1>5 DEF FromThis
<1>6. CASE above # 0 /\ ~(signatures[f].args = <<>> \/ ~tyData[t].laidOut) /\ ~(found = {} \/ ty = 0)
  <2>1. FromThis(name, n, f) = w
    BY <1>6 DEF FromThis
  <2>2. above \in DOMAIN prog /\ prog[above].k \in {"constructor", "method"}
    BY <1>6, AboveOne
  <2>3. t \in DOMAIN prog
    <3>1. above # 1
      BY <2>2, ProgTree, ProgramFacts
    <3>. QED BY <2>2, <3>1, ProgTree, ProgramFacts
  <2>. HIDE DEF t
  <2>4. members \in Seq([node : DOMAIN prog, of : Nat])
    BY <2>3 DEF TablesTyped, DataTyped, DataSet
  <2>. HIDE DEF members
  <2>5. Min(found) \in found
    <3>1. found \in SUBSET (0..Len(members)) /\ Len(members) \in Nat
      BY <2>4
    <3>2. found # {}
      BY <1>6
    <3>. HIDE DEF found
    <3>. QED BY <3>1, <3>2, PickFacts
  <2>6. first.node \in DOMAIN prog /\ first.of \in Nat
    <3>1. Min(found) \in DOMAIN members
      BY <2>5
    <3>2. DOMAIN members = 1..Len(members)
      BY <2>4
    <3>3. first \in [node : DOMAIN prog, of : Nat]
      <4>. DEFINE k == Min(found)
      <4>1. first = members[k]
        OBVIOUS
      <4>2. k \in DOMAIN members
        BY <3>1
      <4>. DEFINE R == [node : DOMAIN prog, of : Nat]
      <4>3. members \in Seq(R)
        BY <2>4
      <4>. HIDE DEF k, first, R
      <4>4. first \in R
        BY <4>1, <4>2, <4>3
      <4>. QED BY <4>4 DEF R
    <3>. HIDE DEF first
    <3>. QED BY <3>3
  <2>. HIDE DEF first
  <2>7. ty \in DOMAIN ids
    BY <1>6, <2>3, FoundByName
  <2>8. Lt(1, first.of) \in Lts
    BY <2>6 DEF Lt, Lts
  <2>9. first.node \in Nat
    BY <2>6, ProgTree
  <2>10. s \in SUBSET Uses
    BY <2>9, UseIs
  <2>11. ok \in BOOLEAN
    OBVIOUS
  <2>. HIDE DEF ty, ok, s
  <2>12. Good(u) /\ u.stores = {}
    BY <2>7, <2>8, ValueIs
  <2>. HIDE DEF u
  <2>13. w \in Values /\ w.stores = {}
    BY <2>10, <2>11, <2>12 DEF Good, Values
  <2>. QED BY <2>1, <2>13 DEF Result, Good, StoresAllowed
<1>. QED BY <1>3, <1>4, <1>5, <1>6

\* valueFromIdentifier yields a result, whatever the name.
LEMMA NameIs ==
  ASSUME TablesTyped, StackTyped, NEW name \in STRING, NEW n \in DOMAIN prog
  PROVE  Result(ValueFromIdentifier(name, n))
<1>. DEFINE f == Head(functionStack)
            args == Arguments(f)
            named == {i \in DOMAIN args : args[i].name = name}
            renamed == {i \in DOMAIN args : \E j \in 1..(i - 1) : args[j].name = args[i].name}
            ty == TypeIdFromInfo(args[Min(named)].types, n)
            binding == {b \in BlocksAbove(prog, n) : Binds(b, name)}
            clash == \/ Len(signatures[f].args) # Len(args)
                     \/ renamed # {} /\ \A i \in named : Min(renamed) < i
            u == Value(ty, signatures[f].args[Min(named)])
            s == {Use(name, "argument", f)}
            w == [u EXCEPT !.uses = s]
<1>1. "internal" \in Failures /\ "type" \in Failures
  BY DEF Failures, Errors
<1>2. Result(Thrown("internal")) /\ Result(Thrown("type"))
  BY <1>1, ThrownIs
<1>3. f \in 1..(2 * Len(prog)) /\ f \in Nat
  BY ProgTree DEF StackTyped, Stacks
<1>. HIDE DEF f
<1>4. CASE clash
  BY <1>2, <1>4 DEF ValueFromIdentifier, f
<1>5. CASE ~clash /\ named # {} /\ ty = 0
  BY <1>2, <1>5 DEF ValueFromIdentifier, f
<1>6. CASE ~clash /\ named # {} /\ ty # 0
  <2>1. ValueFromIdentifier(name, n) = w
    BY <1>6 DEF ValueFromIdentifier, f, Using
  <2>2. args \in Seq(ArgumentSet)
    BY <1>3, ArgumentsAre
  <2>. HIDE DEF args
  <2>3. Min(named) \in named
    <3>1. named \in SUBSET (0..Len(args)) /\ Len(args) \in Nat
      BY <2>2
    <3>2. named # {}
      BY <1>6
    <3>. HIDE DEF named
    <3>. QED BY <3>1, <3>2, PickFacts
  <2>4. ty \in DOMAIN ids
    BY <1>6, FoundByName
  <2>5. signatures[f].args \in Seq(Lts)
    BY <1>3 DEF TablesTyped, SignaturesTyped
  <2>6. signatures[f].args[Min(named)] \in Lts
    <3>1. Min(named) \in DOMAIN args /\ Len(signatures[f].args) = Len(args)
      BY <1>6, <2>3
    <3>2. Min(named) \in DOMAIN signatures[f].args
      BY <2>2, <2>5, <3>1
    <3>. HIDE DEF named
    <3>. QED BY <2>5, <3>2
  <2>7. s \in SUBSET Uses
    BY <1>3, UseIs
  <2>. HIDE DEF ty, s, named
  <2>8. Good(u) /\ u.stores = {}
    BY <2>4, <2>6, ValueIs
  <2>. HIDE DEF u
  <2>9. w \in Values /\ w.stores = {}
    BY <2>7, <2>8 DEF Good, Values
  <2>. QED BY <2>1, <2>9 DEF Result, Good, StoresAllowed
<1>7. CASE ~clash /\ named = {} /\ binding # {}
  <2>1. ValueFromIdentifier(name, n) = InScope(NearestBlock(binding), name)
    BY <1>7 DEF ValueFromIdentifier, f
  <2>2. NearestBlock(binding) \in binding
    BY <1>7, NearestAbove
  <2>. QED BY <2>1, <2>2, ScopeIs
<1>8. CASE ~clash /\ named = {} /\ binding = {}
  <2>1. ValueFromIdentifier(name, n) = FromThis(name, n, f)
    BY <1>8 DEF ValueFromIdentifier, f
  <2>. QED BY <1>3, <2>1, FromThisIs
<1>. QED BY <1>4, <1>5, <1>6, <1>7, <1>8

(***************************************************************************)
(* compileExpression                                                       *)
(***************************************************************************)
\* What the operands of entry i give.
Operands(e, i, f) ==
  [j \in DOMAIN e[i].args |->
     IF j = 1 /\ e[i].op \in Mutating /\ e[e[i].args[j]].k \notin {"name", "op"} THEN Thrown("syntax")
     ELSE f[e[i].args[j]]]
\* What entry i gives, given that.
Combined(e, i, n, ops) ==
  LET thrown == {j \in DOMAIN ops : ops[j].how # "ok"} IN
  IF thrown # {} THEN ops[Min(thrown)]
  ELSE IF e[i].op # "Call" /\ Len(ops) # (IF e[i].op \in Unary THEN 1 ELSE 2) THEN Thrown("internal")
  ELSE Codegen(e[i].op, ops, n)

\* What an entry of an expression's table is.
LEMMA EntryIs ==
  ASSUME NEW e, IsExpression(e), NEW i \in DOMAIN e
  PROVE  /\ DOMAIN e = 1..Len(e) /\ Len(e) \in Nat
         /\ e[i].k \in {"literal", "huge", "string", "name", "op"}
         /\ e[i].k = "literal" => e[i].ty \in {Integer, Float, Boolean}
         /\ e[i].k = "name" => e[i].name \in STRING
         /\ e[i].k = "op" => /\ e[i].args \in Seq(Nat) /\ DOMAIN e[i].args = 1..Len(e[i].args) /\ Len(e[i].args) \in Nat
                             /\ \A j \in DOMAIN e[i].args : e[i].args[j] \in 1..(i - 1)
                             /\ e[i].op = "Call" => e[i].args # <<>>
<1>1. DOMAIN e = 1..Len(e) /\ Len(e) \in Nat /\ e[i] \in Entries
  BY DEF IsExpression
<1>2. /\ e[i].k \in {"literal", "huge", "string", "name", "op"}
      /\ e[i].k = "literal" => e[i].ty \in {Integer, Float, Boolean}
      /\ e[i].k = "name" => e[i].name \in STRING
      /\ e[i].k = "op" => e[i].args \in Seq(Nat)
  BY <1>1 DEF Entries
<1>3. e[i].k = "op" => /\ \A j \in DOMAIN e[i].args : e[i].args[j] \in 1..(i - 1)
                       /\ e[i].op = "Call" => e[i].args # <<>>
  <2>. SUFFICES ASSUME e[i].k = "op"
       PROVE  (\A j \in DOMAIN e[i].args : e[i].args[j] \in 1..(i - 1)) /\ (e[i].op = "Call" => e[i].args # <<>>)
    OBVIOUS
  <2>. QED BY DEF IsExpression
<1>. QED BY <1>1, <1>2, <1>3

\* An entry is compiled on its own or from its operands.
LEMMA NodeCases ==
  ASSUME NEW e, IsExpression(e), NEW i \in DOMAIN e, NEW n, NEW f
  PROVE  CompileNode(e, i, n, f) =
           CASE e[i].k = "literal" -> Value(e[i].ty, Lt(0, e[i].ty))
             [] e[i].k = "huge" -> Thrown("uncaught")
             [] e[i].k = "string" -> Thrown("internal")
             [] e[i].k = "name" -> ValueFromIdentifier(e[i].name, n)
             [] e[i].k = "op" -> Combined(e, i, n, Operands(e, i, f))
<1>1. e[i].k \in {"literal", "huge", "string", "name", "op"}
  BY EntryIs
<1>2. CASE e[i].k = "literal"
  BY <1>2 DEF CompileNode
<1>3. CASE e[i].k = "huge"
  BY <1>3 DEF CompileNode
<1>4. CASE e[i].k = "string"
  BY <1>4 DEF CompileNode
<1>5. CASE e[i].k = "name"
  BY <1>5 DEF CompileNode
<1>6. CASE e[i].k = "op"
  <2>1. CompileNode(e, i, n, f) = Combined(e, i, n, Operands(e, i, f))
    BY <1>6 DEF CompileNode, Combined, Operands
  <2>. QED BY <1>6, <2>1
<1>. QED BY <1>1, <1>2, <1>3, <1>4, <1>5, <1>6

\* What an entry gives depends on the entries before it.
LEMMA NodeAgrees ==
  ASSUME NEW e, IsExpression(e), NEW i \in DOMAIN e, NEW n, NEW f, NEW g,
         \A j \in 1..(i - 1) : f[j] = g[j]
  PROVE  CompileNode(e, i, n, f) = CompileNode(e, i, n, g)
<1>1. e[i].k = "op" => Operands(e, i, f) = Operands(e, i, g)
  <2>. SUFFICES ASSUME e[i].k = "op" PROVE Operands(e, i, f) = Operands(e, i, g)
    OBVIOUS
  <2>1. \A j \in DOMAIN e[i].args : f[e[i].args[j]] = g[e[i].args[j]]
    BY EntryIs
  <2>. QED BY <2>1 DEF Operands
<1>. QED BY <1>1, NodeCases

\* An entry yields a result if those before it do.
LEMMA NodeIs ==
  ASSUME TablesTyped, StackTyped, NEW n \in DOMAIN prog, NEW e, IsExpression(e), NEW i \in DOMAIN e, NEW f,
         \A j \in 1..(i - 1) : Result(f[j])
  PROVE  Result(CompileNode(e, i, n, f))
<1>1. e[i].k \in {"literal", "huge", "string", "name", "op"}
  BY EntryIs
<1>2. "uncaught" \in Failures /\ "internal" \in Failures /\ "syntax" \in Failures
  BY DEF Failures, Errors
<1>3. CASE e[i].k = "literal"
  <2>1. e[i].ty \in DOMAIN ids /\ e[i].ty \in Nat
    BY <1>3, EntryIs, IdsAre DEF TablesTyped, Integer, Float, Boolean
  <2>2. Lt(0, e[i].ty) \in Lts
    BY <2>1 DEF Lt, Lts
  <2>3. Good(Value(e[i].ty, Lt(0, e[i].ty)))
    BY <2>1, <2>2, ValueIs
  <2>. QED BY <1>3, <2>3, NodeCases DEF Result
<1>4. CASE e[i].k \in {"huge", "string"}
  BY <1>2, <1>4, NodeCases, ThrownIs
<1>5. CASE e[i].k = "name"
  <2>1. e[i].name \in STRING
    BY <1>5, EntryIs
  <2>2. Result(ValueFromIdentifier(e[i].name, n))
    BY <2>1, NameIs
  <2>. QED BY <1>5, <2>2, NodeCases
<1>6. CASE e[i].k = "op"
  <2>. DEFINE ops == Operands(e, i, f)
              thrown == {j \in DOMAIN ops : ops[j].how # "ok"}
  <2>1. CompileNode(e, i, n, f) = Combined(e, i, n, ops)
    BY <1>6, NodeCases
  <2>2. /\ DOMAIN e[i].args = 1..Len(e[i].args) /\ Len(e[i].args) \in Nat
        /\ \A j \in DOMAIN e[i].args : e[i].args[j] \in 1..(i - 1)
        /\ e[i].op = "Call" => e[i].args # <<>>
        /\ e[i].args \in Seq(Nat)
    BY <1>6, EntryIs
  <2>3. DOMAIN ops = 1..Len(e[i].args)
    BY <2>2 DEF Operands
  <2>4. \A j \in DOMAIN ops : Result(ops[j])
    <3>. SUFFICES ASSUME NEW j \in DOMAIN ops PROVE Result(ops[j])
      OBVIOUS
    <3>1. j \in DOMAIN e[i].args
      BY DEF Operands
    <3>2. ops[j] = Thrown("syntax") \/ ops[j] = f[e[i].args[j]]
      BY <3>1 DEF Operands
    <3>3. Result(f[e[i].args[j]])
      BY <2>2, <3>1
    <3>. QED BY <1>2, <3>2, <3>3, ThrownIs
  <2>5. ops \in [1..Len(e[i].args) -> {ops[j] : j \in DOMAIN ops}]
    BY <2>2, <2>3 DEF Operands
  <2>. HIDE DEF ops
  <2>6. CASE thrown # {}
    <3>1. Combined(e, i, n, ops) = ops[Min(thrown)]
      BY <2>6 DEF Combined
    <3>2. Min(thrown) \in thrown
      <4>1. thrown \in SUBSET (0..Len(e[i].args))
        BY <2>2, <2>3
      <4>. HIDE DEF thrown
      <4>. QED BY <2>2, <2>6, <4>1, PickFacts
    <3>. QED BY <2>1, <2>4, <3>1, <3>2
  <2>7. CASE thrown = {} /\ e[i].op # "Call" /\ Len(ops) # (IF e[i].op \in Unary THEN 1 ELSE 2)
    <3>1. Combined(e, i, n, ops) = Thrown("internal")
      BY <2>7 DEF Combined
    <3>. QED BY <1>2, <2>1, <3>1, ThrownIs
  <2>8. CASE thrown = {} /\ ~(e[i].op # "Call" /\ Len(ops) # (IF e[i].op \in Unary THEN 1 ELSE 2))
    <3>1. Combined(e, i, n, ops) = Codegen(e[i].op, ops, n)
      BY <2>8 DEF Combined
    <3>2. \A j \in DOMAIN ops : Good(ops[j])
      BY <2>4, <2>8, ResultIs
    <3>3. AllGood(ops) /\ \A j \in DOMAIN ops : ops[j] \in Values
      BY <3>2 DEF AllGood, Good
    <3>4. ops \in [1..Len(e[i].args) -> Values]
      BY <2>3, <2>5, <3>3
    <3>5. ops \in Seq(Values) /\ Len(ops) = Len(e[i].args)
      BY <2>2, <3>4
    <3>6. ops # <<>>
      <4>1. Len(ops) # 0
        BY <2>2, <2>8, <3>5
      <4>. QED BY <4>1
    <3>7. Result(Codegen(e[i].op, ops, n))
      BY <2>8, <3>3, <3>5, <3>6, CodegenIs
    <3>. QED BY <2>1, <3>1, <3>7
  <2>. QED BY <2>6, <2>7, <2>8
<1>. QED BY <1>1, <1>3, <1>4, <1>5, <1>6

\* The recursion over the entries of an expression.
CompiledOf(e, n, f) == f = [i \in DOMAIN e |-> CompileNode(e, i, n, f)]

\* The recursion of CompileExpression has a function.
LEMMA CompiledExists ==
  ASSUME NEW e, IsExpression(e), NEW n
  PROVE  \E f : CompiledOf(e, n, f)
<1>. DEFINE N == Len(e)
            Upto(m, f) == DOMAIN f = 1..m /\ \A i \in 1..m : f[i] = CompileNode(e, i, n, f)
            M == {m \in 0..N : \E f : Upto(m, f)}
<1>1. DOMAIN e = 1..N /\ N \in Nat
  BY DEF IsExpression
<1>2. ASSUME NEW m \in 0..N, 0..(m - 1) \subseteq M PROVE m \in M
  <2>1. CASE m = 0
    <3>. DEFINE f == [i \in 1..0 |-> 0]
    <3>1. Upto(0, f)
      OBVIOUS
    <3>. HIDE DEF Upto, f
    <3>2. 0 \in 0..N /\ \E g : Upto(0, g)
      BY <1>1, <3>1
    <3>. QED BY <2>1, <3>2
  <2>2. CASE m # 0
    <3>1. m - 1 \in M
      BY <1>1, <1>2, <2>2
    <3>2. PICK g : Upto(m - 1, g)
      BY <3>1
    <3>. DEFINE top == CompileNode(e, m, n, g)
                h == [i \in 1..m |-> IF i = m THEN top ELSE g[i]]
    <3>3. m \in DOMAIN e
      BY <1>1, <2>2
    <3>4. \A i \in 1..m : h[i] = CompileNode(e, i, n, h)
      <4>. SUFFICES ASSUME NEW i \in 1..m PROVE h[i] = CompileNode(e, i, n, h)
        OBVIOUS
      <4>1. \A j \in 1..(i - 1) : h[j] = g[j]
        BY <1>1
      <4>2. i \in DOMAIN e
        BY <1>1
      <4>3. CompileNode(e, i, n, h) = CompileNode(e, i, n, g)
        <5>. HIDE DEF h
        <5>. QED BY <4>1, <4>2, NodeAgrees
      <4>4. i # m => g[i] = CompileNode(e, i, n, g)
        BY <1>1, <3>2
      <4>. QED BY <4>3, <4>4
    <3>5. DOMAIN h = 1..m
      OBVIOUS
    <3>. HIDE DEF h
    <3>6. Upto(m, h)
      BY <3>4, <3>5
    <3>. HIDE DEF Upto
    <3>. QED BY <3>6
  <2>. QED BY <2>1, <2>2
<1>3. M = 0..N
  <2>. HIDE DEF M
  <2>1. M \in SUBSET (0..N)
    BY DEF M
  <2>. QED BY <1>1, <1>2, <2>1, SetInduction
<1>4. N \in M
  BY <1>1, <1>3
<1>5. PICK f : Upto(N, f)
  BY <1>4
<1>6. \A i \in DOMAIN e : f[i] = CompileNode(e, i, n, f)
  BY <1>1, <1>5
<1>. DEFINE g == [i \in DOMAIN e |-> f[i]]
<1>7. \A i \in DOMAIN e : g[i] = CompileNode(e, i, n, g)
  <2>. SUFFICES ASSUME NEW i \in DOMAIN e PROVE g[i] = CompileNode(e, i, n, g)
    OBVIOUS
  <2>1. \A j \in 1..(i - 1) : g[j] = f[j]
    BY <1>1
  <2>2. g[i] = f[i]
    OBVIOUS
  <2>. HIDE DEF g
  <2>. QED BY <1>6, <2>1, <2>2, NodeAgrees
<1>8. g = [i \in DOMAIN e |-> g[i]]
  OBVIOUS
<1>. HIDE DEF g
<1>9. g = [i \in DOMAIN e |-> CompileNode(e, i, n, g)]
  BY <1>7, <1>8
<1>. QED BY <1>9 DEF CompiledOf

\* What compileExpression returns is a value, or the way it fails.
LEMMA ExpressionIs ==
  ASSUME TablesTyped, StackTyped, NEW n \in DOMAIN prog, NEW e, IsExpression(e), e # None
  PROVE  Result(CompileExpression(e, n))
<1>. DEFINE c == CHOOSE f : CompiledOf(e, n, f)
            N == Len(e)
            M == {0} \cup {i \in 1..N : Result(c[i])}
<1>1. DOMAIN e = 1..N /\ N \in Nat /\ N \in DOMAIN e
  <2>1. DOMAIN e = 1..N /\ N \in Nat
    BY DEF IsExpression
  <2>2. N # 0
    BY DEF IsExpression, None
  <2>. QED BY <2>1, <2>2
<1>2. CompiledOf(e, n, c)
  BY CompiledExists
<1>3. CompileExpression(e, n) = c[N]
  BY DEF CompileExpression, CompiledOf
<1>4. \A i \in DOMAIN e : c[i] = CompileNode(e, i, n, c)
  <2>. HIDE DEF c
  <2>. QED BY <1>2 DEF CompiledOf
<1>. HIDE DEF c
<1>5. ASSUME NEW m \in 0..N, 0..(m - 1) \subseteq M PROVE m \in M
  <2>1. CASE m = 0
    BY <2>1
  <2>2. CASE m # 0
    <3>1. m \in DOMAIN e
      BY <1>1, <2>2
    <3>2. \A j \in 1..(m - 1) : Result(c[j])
      <4>. SUFFICES ASSUME NEW j \in 1..(m - 1) PROVE Result(c[j])
        OBVIOUS
      <4>1. j \in M /\ j # 0
        BY <1>1, <1>5
      <4>. QED BY <4>1
    <3>3. Result(CompileNode(e, m, n, c))
      BY <3>1, <3>2, NodeIs
    <3>. QED BY <1>1, <1>4, <3>1, <3>3
  <2>. QED BY <2>1, <2>2
<1>6. M \in SUBSET (0..N)
  BY <1>1
<1>7. M = 0..N
  <2>. HIDE DEF M
  <2>. QED BY <1>1, <1>5, <1>6, SetInduction
<1>8. N \in M /\ N # 0
  BY <1>1, <1>7
<1>. QED BY <1>3, <1>8

(***************************************************************************)
(* What is listed of a type                                                *)
(***************************************************************************)
FieldNodes(members) == [i \in DOMAIN members |-> members[i].node]
MembersOf(t, q, n, k, static) == {m \in Seen(t, q) : t[m].parent = n /\ t[m].k = k /\ t[m].static = static}
ConstructorsOf(t, q, n) == {m \in Seen(t, q) : t[m].parent = n /\ t[m].k = "constructor"}
\* A method is listed when it is added.
MethodsOf(t, q, n) ==
  {m \in MembersOf(t, q, n, "method", FALSE) : \A y \in Among(q) : y.t = "addMethod" => y.n # m}
\* The lists of type n have what was visited of it, in the order of the source.
Listed(t, q, d, n) ==
  /\ AscendsTo(FieldNodes(d.members), MembersOf(t, q, n, "member", FALSE))
  /\ AscendsTo(d.statics, MembersOf(t, q, n, "member", TRUE))
  /\ AscendsTo(d.methods, MethodsOf(t, q, n))
  /\ AscendsTo(d.constructors, ConstructorsOf(t, q, n))

\* s becomes r: x.n is added to it, or nothing is.
Extended(s, adds, m, r) == r = IF adds THEN Append(s, m) ELSE s
\* What a step makes of the lists of type n.
Relisted(t, x, d, e, n) ==
  LET child == t[x.n].parent = n
      k == t[x.n].k
  IN  /\ Extended(FieldNodes(d.members), child /\ x.t = "visit" /\ k = "member" /\ ~t[x.n].static, x.n, FieldNodes(e.members))
      /\ Extended(d.statics, child /\ x.t = "visit" /\ k = "member" /\ t[x.n].static, x.n, e.statics)
      /\ Extended(d.methods, child /\ x.t = "addMethod" /\ ~t[x.n].static, x.n, e.methods)
      /\ Extended(d.constructors, child /\ x.t = "visit" /\ k = "constructor", x.n, e.constructors)
\* Methods are added after they were visited.
AddsLater(t, x, ts) ==
  /\ \A y \in Among(ts) : y.t = "addMethod" => y.n = x.n /\ x.t = "visit"
  /\ x.t = "visit" /\ t[x.n].k = "method" /\ ~t[x.n].static => \E y \in Among(ts) : y.t = "addMethod" /\ y.n = x.n

\* A list that a step extends by a later node ascends.
LEMMA ExtendedAscends ==
  ASSUME NEW s, NEW R \in SUBSET Nat, AscendsTo(s, R), NEW adds, NEW m \in Nat, NEW r, Extended(s, adds, m, r),
         NEW R2, R2 = IF adds THEN R \cup {m} ELSE R, adds => \A x \in R : x < m
  PROVE  AscendsTo(r, R2)
<1>1. CASE adds
  BY <1>1, AscendsAppend DEF Extended
<1>2. CASE ~adds
  BY <1>2 DEF Extended
<1>. QED BY <1>1, <1>2

\* The lists of a type keep exactly what was visited of its children.
LEMMA ListedStep ==
  ASSUME NEW t, IsProgram(t), NEW q, Queue(t, q), q # <<>>, SeenBefore(t, q), NEW ts, Advance(t, Head(q), ts),
         AddsLater(t, Head(q), ts), NEW n \in DOMAIN t, t[n].k = "type", NEW d, NEW e, Listed(t, q, d, n),
         Relisted(t, Head(q), d, e, n)
  PROVE  Listed(t, ts \o Tail(q), e, n)
<1>. DEFINE x == Head(q)
            r == ts \o Tail(q)
            child == t[x.n].parent = n
<1>1. /\ Among(r) = Among(ts) \cup Among(Tail(q))
      /\ Seen(t, r) = Seen(t, q) \cup Visited(x) /\ Visited(x) \cap Seen(t, q) = {}
  BY AdvanceStep
<1>2. /\ Fits(t, x) /\ x.n \in DOMAIN t /\ Among(q) = {x} \cup Among(Tail(q))
      /\ \A y \in Among(Tail(q)) : Order(t, x, y) /\ Fits(t, y)
  BY QueueParts
<1>3. DOMAIN t = 1..Len(t) /\ Len(t) \in Nat
  BY ProgramFacts
<1>4. Seen(t, q) \subseteq DOMAIN t
  BY DEF Seen
<1>5. x.n \in Nat /\ Seen(t, q) \in SUBSET Nat
  BY <1>2, <1>3, <1>4
<1>6. \A m \in Seen(t, q) : Listing(x) /\ t[m].parent = n /\ child => m <= x.n
  BY <1>2 DEF SeenBefore
<1>7. x.t = "visit" => Visited(x) = {x.n} /\ x.n \notin Seen(t, q)
  BY <1>1 DEF Visited
<1>8. x.t # "visit" => Visited(x) = {}
  BY DEF Visited
<1>9. Listing(x) <=> x.t = "visit" \/ x.t = "addMethod"
  BY DEF Listing
<1>10. \A m \in Seen(t, q) : x.t = "visit" /\ t[m].parent = n /\ child => m < x.n
  BY <1>5, <1>6, <1>7, <1>9
<1>. HIDE DEF r
<1>11. \A k, st : MembersOf(t, r, n, k, st) =
         IF child /\ x.t = "visit" /\ t[x.n].k = k /\ t[x.n].static = st
         THEN MembersOf(t, q, n, k, st) \cup {x.n} ELSE MembersOf(t, q, n, k, st)
  BY <1>1, <1>2, <1>7, <1>8 DEF MembersOf
<1>12. ConstructorsOf(t, r, n) = IF child /\ x.t = "visit" /\ t[x.n].k = "constructor"
                                 THEN ConstructorsOf(t, q, n) \cup {x.n} ELSE ConstructorsOf(t, q, n)
  BY <1>1, <1>2, <1>7, <1>8 DEF ConstructorsOf
<1>13. t[x.n].static \in BOOLEAN
  BY <1>2, ProgramFacts DEF TreeNodes
<1>14. AscendsTo(FieldNodes(e.members), MembersOf(t, r, n, "member", FALSE))
  <2>. DEFINE R == MembersOf(t, q, n, "member", FALSE)
              S == MembersOf(t, r, n, "member", FALSE)
              adds == child /\ x.t = "visit" /\ t[x.n].k = "member" /\ ~t[x.n].static
  <2>1. R \in SUBSET Nat /\ \A m \in R : m \in Seen(t, q) /\ t[m].parent = n
    BY <1>5 DEF MembersOf
  <2>2. S = IF adds THEN R \cup {x.n} ELSE R
    BY <1>11, <1>13
  <2>3. adds => \A m \in R : m < x.n
    BY <1>10, <2>1
  <2>4. AscendsTo(FieldNodes(d.members), R) /\ Extended(FieldNodes(d.members), adds, x.n, FieldNodes(e.members))
    BY DEF Listed, Relisted
  <2>. DEFINE fs == FieldNodes(d.members)
              gs == FieldNodes(e.members)
  <2>6. AscendsTo(fs, R) /\ Extended(fs, adds, x.n, gs)
    BY <2>4
  <2>. HIDE DEF R, S, fs, gs, adds, x
  <2>5. AscendsTo(gs, S)
    BY <1>5, <2>1, <2>2, <2>3, <2>6, ExtendedAscends
  <2>. QED BY <2>5 DEF S, gs
<1>15. AscendsTo(e.statics, MembersOf(t, r, n, "member", TRUE))
  <2>. DEFINE R == MembersOf(t, q, n, "member", TRUE)
              S == MembersOf(t, r, n, "member", TRUE)
              adds == child /\ x.t = "visit" /\ t[x.n].k = "member" /\ t[x.n].static
  <2>1. R \in SUBSET Nat /\ \A m \in R : m \in Seen(t, q) /\ t[m].parent = n
    BY <1>5 DEF MembersOf
  <2>2. S = IF adds THEN R \cup {x.n} ELSE R
    BY <1>11, <1>13
  <2>3. adds => \A m \in R : m < x.n
    BY <1>10, <2>1
  <2>4. AscendsTo(d.statics, R) /\ Extended(d.statics, adds, x.n, e.statics)
    BY DEF Listed, Relisted
  <2>. HIDE DEF R, S, adds, x
  <2>5. AscendsTo(e.statics, S)
    BY <1>5, <2>1, <2>2, <2>3, <2>4, ExtendedAscends
  <2>. QED BY <2>5 DEF S
<1>16. AscendsTo(e.constructors, ConstructorsOf(t, r, n))
  <2>. DEFINE R == ConstructorsOf(t, q, n)
              adds == child /\ x.t = "visit" /\ t[x.n].k = "constructor"
  <2>1. R \in SUBSET Nat /\ \A m \in R : m \in Seen(t, q) /\ t[m].parent = n
    BY <1>5 DEF ConstructorsOf
  <2>2. ConstructorsOf(t, r, n) = IF adds THEN R \cup {x.n} ELSE R
    BY <1>12
  <2>3. adds => \A m \in R : m < x.n
    BY <1>10, <2>1
  <2>4. AscendsTo(d.constructors, R) /\ Extended(d.constructors, adds, x.n, e.constructors)
    BY DEF Listed, Relisted
  <2>. HIDE DEF R, adds, x
  <2>. QED BY <1>5, <2>1, <2>2, <2>3, <2>4, ExtendedAscends
<1>17. AscendsTo(e.methods, MethodsOf(t, r, n))
  <2>. DEFINE R == MethodsOf(t, q, n)
              adds == child /\ x.t = "addMethod" /\ ~t[x.n].static
  <2>1. R \in SUBSET Nat /\ \A m \in R : m \in Seen(t, q) /\ t[m].parent = n
    BY <1>5 DEF MethodsOf, MembersOf
  <2>2. x.t = "addMethod" => x.n \notin R /\ x.n \in Seen(t, q) /\ t[x.n].k = "method"
    <3>. SUFFICES ASSUME x.t = "addMethod" PROVE x.n \notin R /\ x.n \in Seen(t, q) /\ t[x.n].k = "method"
      OBVIOUS
    <3>1. x.n \notin R
      BY <1>2 DEF MethodsOf
    <3>2. x.n \notin Claims(t, x)
      BY DEF Claims
    <3>3. \A y \in Among(Tail(q)) : x.n \notin Claims(t, y)
      BY <1>2 DEF Order
    <3>. QED BY <3>1, <3>2, <3>3, <1>2 DEF Seen, Fits
  <2>3. adds => \A m \in R : m < x.n
    <3>. SUFFICES ASSUME adds, NEW m \in R PROVE m < x.n
      OBVIOUS
    <3>1. m <= x.n /\ m # x.n /\ m \in Nat
      BY <1>6, <1>9, <2>1, <2>2
    <3>. QED BY <1>5, <3>1
  <2>4. \A y \in Among(Tail(q)) : x.t = "addMethod" /\ y.t = "addMethod" => y.n # x.n
    BY <1>2, <1>3 DEF Order, Listing
  <2>5. MethodsOf(t, r, n) = IF adds THEN R \cup {x.n} ELSE R
    <3>. SUFFICES ASSUME NEW m PROVE m \in MethodsOf(t, r, n) <=> m \in R \/ (adds /\ m = x.n)
      OBVIOUS
    <3>1. m \in MethodsOf(t, r, n) <=> /\ m \in MembersOf(t, r, n, "method", FALSE)
                                       /\ \A y \in Among(ts) \cup Among(Tail(q)) : y.t = "addMethod" => y.n # m
      BY <1>1 DEF MethodsOf
    <3>2. m \in R <=> /\ m \in MembersOf(t, q, n, "method", FALSE)
                      /\ x.t = "addMethod" => x.n # m
                      /\ \A y \in Among(Tail(q)) : y.t = "addMethod" => y.n # m
      BY <1>2 DEF MethodsOf
    <3>3. \A y \in Among(ts) : y.t = "addMethod" => y.n = x.n /\ x.t = "visit"
      BY DEF AddsLater
    <3>4. CASE x.t = "visit"
      <4>1. CASE m = x.n
        <5>1. m \notin R
          BY <1>7, <2>1, <3>4, <4>1
        <5>2. m \in MembersOf(t, r, n, "method", FALSE) => t[x.n].k = "method" /\ ~t[x.n].static
          BY <4>1 DEF MembersOf
        <5>3. m \notin MethodsOf(t, r, n)
          BY <3>1, <3>4, <4>1, <5>2 DEF AddsLater
        <5>. QED BY <3>4, <5>1, <5>3
      <4>2. CASE m # x.n
        <5>1. m \in MembersOf(t, r, n, "method", FALSE) <=> m \in MembersOf(t, q, n, "method", FALSE)
          BY <1>11, <4>2
        <5>. QED BY <3>1, <3>2, <3>3, <3>4, <4>2, <5>1
      <4>. QED BY <4>1, <4>2
    <3>5. CASE x.t # "visit"
      <4>1. MembersOf(t, r, n, "method", FALSE) = MembersOf(t, q, n, "method", FALSE)
        BY <1>11, <3>5
      <4>2. CASE x.t = "addMethod" /\ m = x.n
        <5>1. m \in MembersOf(t, q, n, "method", FALSE) <=> adds
          BY <1>13, <2>2, <4>2 DEF MembersOf
        <5>. QED BY <2>2, <2>4, <3>1, <3>3, <3>5, <4>1, <4>2, <5>1
      <4>3. CASE ~(x.t = "addMethod" /\ m = x.n)
        BY <3>1, <3>2, <3>3, <3>5, <4>1, <4>3
      <4>. QED BY <4>2, <4>3
    <3>. QED BY <3>4, <3>5
  <2>6. AscendsTo(d.methods, R) /\ Extended(d.methods, adds, x.n, e.methods)
    BY DEF Listed, Relisted
  <2>. HIDE DEF R, adds, x
  <2>. QED BY <1>5, <2>1, <2>3, <2>5, <2>6, ExtendedAscends
<1>. QED BY <1>14, <1>15, <1>16, <1>17 DEF Listed, r

(***************************************************************************)
(* The state of the visits                                                 *)
(***************************************************************************)
\* Types are listed as they were visited, and have an identifier since then.
TypesKept(t, q, d) ==
  \A n \in DOMAIN t : t[n].k = "type" =>
    Listed(t, q, d[n], n) /\ (d[n].tid # 0 <=> n \in Seen(t, q))
Controlled(t, q, fs, d) ==
  /\ Queue(t, q) /\ SeenBefore(t, q)
  /\ fs \in Stacks(t) /\ Path(t, q, fs, <<1>>)
  /\ TypesKept(t, q, d)

\* What comes of task x can be done with stack b as x could with stack a.
Onward(t, x, ts, a, b) == b \in Stacks(t) /\ \A c \in Stacks(t) : Turn(t, x, a, c) => Path(t, ts, b, c)
\* What x does to the types.
Retyped(t, x, d, e) ==
  \A n \in DOMAIN t : t[n].k = "type" =>
    Relisted(t, x, d[n], e[n], n) /\ (e[n].tid # 0 <=> d[n].tid # 0 \/ n \in Visited(x))

\* A step that does what is due keeps the visits in order.
LEMMA ControlStep ==
  ASSUME NEW t, IsProgram(t), NEW q, q # <<>>, NEW a, NEW d, Controlled(t, q, a, d),
         NEW ts, Advance(t, Head(q), ts), AddsLater(t, Head(q), ts),
         NEW b, Onward(t, Head(q), ts, a, b), NEW e, Retyped(t, Head(q), d, e)
  PROVE  Controlled(t, ts \o Tail(q), b, e)
<1>. DEFINE r == Tail(q)
            w == ts \o r
<1>1. Queue(t, q) /\ SeenBefore(t, q)
  BY DEF Controlled
<1>2. Queue(t, w) /\ Seen(t, w) = Seen(t, q) \cup Visited(Head(q))
  BY <1>1, AdvanceStep
<1>3. SeenBefore(t, w)
  BY <1>1, SeenBeforeStep
<1>4. q \in Seq(Tasks(t)) /\ r \in Seq(Tasks(t)) /\ ts \in Seq(Tasks(t))
  BY <1>1, QueueParts DEF Advance, Queue, Tasks
<1>. HIDE DEF w, r
<1>5. PICK c \in Stacks(t) : Turn(t, Head(q), a, c) /\ Path(t, r, c, <<1>>)
  <2>1. \E c \in Stacks(t) : Turn(t, Head(q), a, c) /\ Path(t, Tail(q), c, <<1>>)
    BY <1>4, PathTail DEF Controlled
  <2>. QED BY <2>1 DEF r
<1>6. Path(t, w, b, <<1>>)
  <2>1. Path(t, ts, b, c)
    BY <1>5 DEF Onward
  <2>. QED BY <1>4, <1>5, <2>1, PathConcat DEF w
<1>7. ASSUME NEW n \in DOMAIN t, t[n].k = "type"
      PROVE  Listed(t, w, e[n], n) /\ (e[n].tid # 0 <=> n \in Seen(t, w))
  <2>1. Listed(t, q, d[n], n) /\ (d[n].tid # 0 <=> n \in Seen(t, q))
    BY <1>7 DEF Controlled, TypesKept
  <2>2. Relisted(t, Head(q), d[n], e[n], n) /\ (e[n].tid # 0 <=> d[n].tid # 0 \/ n \in Visited(Head(q)))
    BY <1>7 DEF Retyped
  <2>3. Listed(t, w, e[n], n)
    BY <1>1, <1>7, <2>1, <2>2, ListedStep DEF w, r
  <2>. QED BY <1>2, <2>1, <2>2, <2>3
<1>8. b \in Stacks(t)
  BY DEF Onward
<1>. QED BY <1>2, <1>3, <1>6, <1>7, <1>8 DEF Controlled, TypesKept, w, r

(***************************************************************************)
(* The stack, and the lists                                                *)
(***************************************************************************)
\* The function on the stack is the one the due task is of.
LEMMA DueTurn ==
  ASSUME NEW t, NEW q, q # <<>>, NEW a, NEW d, Controlled(t, q, a, d)
  PROVE  /\ a \in Stacks(t) /\ a # <<>> /\ Head(a) = Where(t, Head(q))
         /\ Ends(Head(q)) => Tail(a) \in Stacks(t) /\ Tail(a) # <<>> /\ Head(q).old = Head(Tail(a))
<1>1. q \in Seq(Tasks(t)) /\ Path(t, q, a, <<1>>)
  BY DEF Controlled, Queue, Tasks
<1>2. PICK c \in Stacks(t) : Turn(t, Head(q), a, c)
  BY <1>1, PathTail
<1>. QED BY <1>2 DEF Turn, Controlled

\* A step that stays is a step of the stack.
LEMMA OnwardStays ==
  ASSUME NEW t, NEW x, NEW ts, Stays(t, x, ts), Steady(x), NEW a \in Stacks(t)
  PROVE  Onward(t, x, ts, a, a)
BY DEF Onward, Stays, Steady, Turn

\* A step that ends a function takes it from the stack.
LEMMA OnwardEnds ==
  ASSUME NEW t, NEW x, Ends(x), NEW a, Tail(a) \in Stacks(t)
  PROVE  Onward(t, x, <<>>, a, Tail(a))
<1>1. Path(t, <<>>, Tail(a), Tail(a))
  BY PathNone
<1>. QED BY <1>1 DEF Onward, Turn

\* beginInit puts the initialiser on the stack.
LEMMA OnwardInit ==
  ASSUME NEW t, IsProgram(t), NEW x, x.t = "beginInit", x.n \in DOMAIN t, NEW a \in Stacks(t)
  PROVE  Onward(t, x, <<>>, a, <<Len(t) + x.n>> \o a)
<1>. DEFINE b == <<Len(t) + x.n>> \o a
<1>1. Len(t) + x.n \in 1..(2 * Len(t))
  BY ProgramFacts
<1>2. b \in Stacks(t)
  BY <1>1, Onto
<1>. HIDE DEF b
<1>3. Path(t, <<>>, b, b)
  BY <1>2, PathNone
<1>4. Onward(t, x, <<>>, a, b)
  BY <1>2, <1>3 DEF Onward, Turn, b
<1>. QED BY <1>4 DEF b

\* A body is compiled with its function on the stack.
LEMMA OnwardBody ==
  ASSUME NEW t, IsProgram(t), NEW x, Steady(x), x.n \in DOMAIN t, NEW ts, NEW a \in Stacks(t),
         a # <<>> /\ Head(a) = Where(t, x) => Path(t, ts, <<x.n>> \o a, a)
  PROVE  Onward(t, x, ts, a, <<x.n>> \o a)
<1>1. x.n \in 1..(2 * Len(t))
  BY ProgramFacts
<1>2. <<x.n>> \o a \in Stacks(t)
  BY <1>1, Onto
<1>. QED BY <1>2 DEF Onward, Turn, Steady

SameLists(d, e) ==
  d.members = e.members /\ d.statics = e.statics /\ d.methods = e.methods /\ d.constructors = e.constructors
\* Task x lists nothing.
Quiet(t, x) == /\ ~(x.t = "visit" /\ t[x.n].k \in {"member", "constructor"})
               /\ ~(x.t = "addMethod" /\ ~t[x.n].static)

\* A step that is not of a child of a type extends no list.
LEMMA QuietRelisted ==
  ASSUME NEW t, NEW x, Quiet(t, x), NEW d, NEW e, NEW n, SameLists(d, e)
  PROVE  Relisted(t, x, d, e, n)
BY DEF Quiet, SameLists, Relisted, Extended

\* Task x changes nothing of the types.
LEMMA QuietRetyped ==
  ASSUME NEW t, NEW x, Quiet(t, x), t[x.n].k # "type" \/ x.t # "visit", NEW d, NEW e,
         \A n \in DOMAIN t : SameLists(d[n], e[n]) /\ d[n].tid = e[n].tid
  PROVE  Retyped(t, x, d, e)
<1>1. \A n \in DOMAIN t : Relisted(t, x, d[n], e[n], n)
  BY QuietRelisted
<1>2. \A n \in DOMAIN t : t[n].k = "type" => n \notin Visited(x)
  BY DEF Visited
<1>. QED BY <1>1, <1>2 DEF Retyped

\* Only a method that is visited is added later.
LEMMA AddsNothing ==
  ASSUME NEW t, NEW x, ~(x.t = "visit" /\ t[x.n].k = "method"), NEW ts, \A y \in Among(ts) : y.t # "addMethod"
  PROVE  AddsLater(t, x, ts)
BY DEF AddsLater

\* What visits lead to nothing else.
LEMMA LeafClaims ==
  ASSUME NEW t, IsProgram(t), NEW x, Fits(t, x)
  PROVE  /\ x.t = "visit" /\ (t[x.n].k \in {"decl", "expr", "return", "member"} \/ t[x.n].foreign \/ Deferred(t, x.n))
              => Claims(t, x) = {x.n}
         /\ x.t \notin {"visit", "method", "constructor", "finalize"} => Claims(t, x) = {}
<1>1. x.n \in DOMAIN t
  BY DEF Fits
<1>2. t[x.n].k \in {"decl", "expr", "return", "member"} \/ t[x.n].foreign => Inner(t, x.n) = {}
  BY <1>1, Placing
<1>. QED BY <1>2 DEF Claims

\* When a type is finalized, all that is in it was visited, and listed.
LEMMA FinalizeSeesAll ==
  ASSUME NEW t, IsProgram(t), NEW q, Queue(t, q), q # <<>>, Head(q).t = "finalize"
  PROVE  /\ \A c \in DOMAIN t : t[c].parent = Head(q).n => c \in Seen(t, q)
         /\ \A y \in Among(q) : y.t = "addMethod" => t[y.n].parent # Head(q).n
<1>. DEFINE x == Head(q)
            n == x.n
<1>1. /\ Fits(t, x) /\ n \in DOMAIN t /\ Among(q) = {x} \cup Among(Tail(q)) /\ t[n].k = "type"
      /\ \A z \in Among(Tail(q)) : Order(t, x, z) /\ Fits(t, z)
  <2>1. /\ Fits(t, x) /\ n \in DOMAIN t /\ Among(q) = {x} \cup Among(Tail(q))
        /\ \A z \in Among(Tail(q)) : Order(t, x, z) /\ Fits(t, z)
    BY QueueParts
  <2>. QED BY <2>1 DEF Fits
<1>2. \A z \in Among(Tail(q)) : n \notin Claims(t, z) /\ ~Within(t, z.n, n) /\ z.n \in DOMAIN t
  BY <1>1 DEF Order, Closing, Fits
<1>3. ASSUME NEW c \in DOMAIN t, t[c].parent = n PROVE c \in Seen(t, q)
  <2>1. c # 1 /\ Within(t, c, n)
    BY <1>1, <1>3, Siblings
  <2>2. c \notin Claims(t, x)
    <3>1. \A d \in DOMAIN t : t[d].parent = n => c \notin Inner(t, d)
      BY <1>1, <1>3, Siblings DEF Inner
    <3>2. Claims(t, x) = {m \in DOMAIN t : \E d \in DOMAIN t : t[d].parent = n /\ Deferred(t, d) /\ m \in Inner(t, d)}
      BY DEF Claims
    <3>. QED BY <3>1, <3>2
  <2>3. ASSUME NEW z \in Among(Tail(q)), c \in Claims(t, z) PROVE FALSE
    <3>1. t[c].parent \in Claims(t, z) \/ (z.t = "visit" /\ z.n = c)
      <4>1. t[t[c].parent].k # "method" /\ t[t[c].parent].k # "constructor"
        BY <1>1, <1>3
      <4>2. Fits(t, z)
        BY <1>1
      <4>. QED BY <2>1, <2>3, <4>1, <4>2, ClaimsClosed
    <3>. QED BY <1>2, <1>3, <2>1, <3>1
  <2>. QED BY <1>1, <2>2, <2>3 DEF Seen
<1>4. ASSUME NEW y \in Among(q), y.t = "addMethod", t[y.n].parent = n PROVE FALSE
  <2>1. y \in Among(Tail(q))
    BY <1>1, <1>4
  <2>2. y.n \in DOMAIN t
    BY <1>2, <2>1
  <2>3. Within(t, y.n, n)
    BY <1>1, <1>4, <2>2, Siblings
  <2>. QED BY <1>2, <2>1, <2>3
<1>. QED BY <1>3, <1>4

(***************************************************************************)
(* Every step does what is due                                             *)
(***************************************************************************)
Control == Controlled(prog, todo, functionStack, tyData)
\* Nothing but the status changes, or what is due is done.
Idle == UNCHANGED <<given, tables, place, code, todo>>
Moves == todo # <<>> /\ \E ts : TodoFirst(ts) /\ Advance(prog, Head(todo), ts)
Stepped == Control' /\ StackTyped' /\ (Idle \/ Moves)

\* Methods are added by those that visit them.
LEMMA AddsOnly ==
  ASSUME NEW t, IsProgram(t), NEW x, Fits(t, x), NEW ts, Advance(t, x, ts), NEW y \in Among(ts), y.t = "addMethod"
  PROVE  (y.n = x.n /\ Listing(x)) \/ (t[x.n].k = "type" /\ x.t = "visit")
<1>1. Fits(t, y) /\ LeadsTo(t, x, y) /\ Listing(y)
  BY DEF Advance, Queue, Among, Listing
<1>2. y.n \in DOMAIN t /\ t[y.n].k = "method" /\ x.n \in DOMAIN t
  BY <1>1 DEF Fits
<1>3. \/ y.n = x.n /\ Listing(x)
      \/ /\ t[y.n].parent = x.n
         /\ x.t \in {"method", "constructor"} \/ (x.t = "visit" /\ ~Deferred(t, x.n))
  BY <1>1 DEF LeadsTo
<1>4. CASE t[y.n].parent = x.n /\ (x.t \in {"method", "constructor"} \/ (x.t = "visit" /\ ~Deferred(t, x.n)))
  <2>1. y.n # 1
    BY <1>2, <1>4, Siblings
  <2>2. t[x.n].k = "type"
    BY <1>2, <1>4, <2>1, Placing
  <2>3. x.t \notin {"method", "constructor"}
    BY <2>2 DEF Fits
  <2>. QED BY <1>4, <2>2, <2>3
<1>. QED BY <1>3, <1>4

\* What is known when a task is due.
LEMMA DueIs ==
  ASSUME TablesTyped, StackTyped, Control, NEW k, NEW n, Due(k, n)
  PROVE  /\ todo # <<>> /\ Head(todo).t = k /\ Head(todo).n = n /\ n \in DOMAIN prog
         /\ Fits(prog, Head(todo)) /\ IsProgram(prog) /\ Queue(prog, todo)
         /\ functionStack \in Stacks(prog) /\ functionStack # <<>> /\ at = Head(functionStack)
         /\ at = Where(prog, Head(todo)) /\ at \in 0..(2 * Len(prog))
<1>1. todo # <<>> /\ Head(todo).t = k /\ Head(todo).n = n
  BY DEF Due
<1>2. Queue(prog, todo) /\ IsProgram(prog)
  BY ProgTree DEF Control, Controlled
<1>3. Fits(prog, Head(todo)) /\ Head(todo).n \in DOMAIN prog
  BY <1>1, <1>2, QueueParts
<1>4. at = Where(prog, Head(todo))
  BY <1>1, DueTurn DEF Control, StackTyped
<1>5. at \in 0..(2 * Len(prog))
  <2>1. at \in 1..(2 * Len(prog))
    BY DEF StackTyped, Stacks
  <2>. QED BY <2>1
<1>. QED BY <1>1, <1>2, <1>3, <1>4, <1>5 DEF StackTyped

\* Nothing of this is changed.
LEMMA ControlSame ==
  ASSUME Control, StackTyped, Idle
  PROVE  Stepped
BY DEF Control, StackTyped, Idle, given, tables, place, Stepped

\* A step that does what is due.
LEMMA ControlNext ==
  ASSUME TablesTyped, Control, todo # <<>>, NEW ts, TodoFirst(ts), Advance(prog, Head(todo), ts),
         AddsLater(prog, Head(todo), ts), Onward(prog, Head(todo), ts, functionStack, functionStack'),
         Retyped(prog, Head(todo), tyData, tyData')
  PROVE  Control' /\ Moves
<1>1. Controlled(prog, ts \o Tail(todo), functionStack', tyData')
  BY ProgTree, ControlStep DEF Control
<1>2. todo' = ts \o Tail(todo) /\ prog' = prog
  BY DEF TodoFirst, given
<1>. QED BY <1>1, <1>2 DEF Control, Moves

\* One that goes on in the same function, and lists nothing.
LEMMA ControlStays ==
  ASSUME TablesTyped, Control, StackTyped, NEW k, NEW n, Due(k, n), NEW ts, TodoFirst(ts), Stays(prog, Head(todo), ts),
         Steady(Head(todo)), Quiet(prog, Head(todo)), prog[n].k # "type" \/ k # "visit",
         prog[n].k = "method" => k = "addMethod" /\ ts = <<>>,
         UNCHANGED <<functionStack, at>>,
         \A m \in DOMAIN prog : SameLists(tyData[m], tyData'[m]) /\ tyData[m].tid = tyData'[m].tid
  PROVE  Stepped
<1>1. /\ todo # <<>> /\ Head(todo).t = k /\ Head(todo).n = n /\ n \in DOMAIN prog
      /\ Fits(prog, Head(todo)) /\ IsProgram(prog) /\ functionStack \in Stacks(prog)
  BY DueIs
<1>2. Advance(prog, Head(todo), ts)
  BY DEF Stays
<1>3. \A y \in Among(ts) : y.t # "addMethod"
  <2>. SUFFICES ASSUME NEW y \in Among(ts), y.t = "addMethod" PROVE FALSE
    OBVIOUS
  <2>1. y.n = n /\ Listing(Head(todo))
    BY <1>1, <1>2, AddsOnly
  <2>2. Fits(prog, y)
    BY <1>2 DEF Advance, Queue, Among
  <2>3. prog[n].k = "method"
    BY <2>1, <2>2 DEF Fits
  <2>. QED BY <2>3, AmongNone
<1>4. AddsLater(prog, Head(todo), ts)
  <2>1. ~(Head(todo).t = "visit" /\ prog[Head(todo).n].k = "method")
    BY <1>1
  <2>. QED BY <1>3, <2>1, AddsNothing
<1>5. Onward(prog, Head(todo), ts, functionStack, functionStack')
  BY <1>1, OnwardStays
<1>6. Retyped(prog, Head(todo), tyData, tyData')
  BY <1>1, QuietRetyped
<1>7. Control' /\ Moves
  BY <1>1, <1>2, <1>4, <1>5, <1>6, ControlNext
<1>8. StackTyped'
  <2>1. prog' = prog
    BY DEF TodoFirst, given
  <2>. QED BY <2>1 DEF StackTyped
<1>. QED BY <1>7, <1>8 DEF Stepped

\* What leaves the types as they are leaves their lists.
LEMMA SameData ==
  ASSUME NEW d, NEW e, e = d, NEW S
  PROVE  \A m \in S : SameLists(d[m], e[m]) /\ d[m].tid = e[m].tid
BY DEF SameLists

\* One that only inserts instructions, or fails.
LEMMA InsertControls ==
  ASSUME TablesTyped, Control, StackTyped, NEW k, NEW n, Due(k, n), NEW op, NEW v, Insert(op, n, v),
         \/ k \in {"initialize", "condition", "update", "initMember", "static"}
         \/ k = "visit" /\ prog[n].k \in {"expr", "return"}
  PROVE  Stepped
<1>1. CASE v.how # "ok"
  BY <1>1, ControlSame DEF Insert, Fail, Idle
<1>2. CASE v.how = "ok"
  <2>1. TodoFirst(<<>>) /\ UNCHANGED <<tables, place, status>>
    BY <1>2 DEF Insert
  <2>2. Head(todo).t = k /\ Head(todo).n = n /\ Fits(prog, Head(todo)) /\ IsProgram(prog)
    BY DueIs
  <2>3. Claims(prog, Head(todo)) = Visited(Head(todo))
    BY <2>2, LeafClaims DEF Visited
  <2>4. Stays(prog, Head(todo), <<>>)
    BY <2>3, StaysNone
  <2>5. prog[n].k # "method"
    BY <2>2 DEF Fits
  <2>6. Steady(Head(todo)) /\ Quiet(prog, Head(todo))
    BY <2>2 DEF Steady, Ends, Quiet
  <2>7. UNCHANGED <<functionStack, at>> /\ tyData' = tyData
    BY <2>1 DEF tables, place
  <2>. QED BY <2>1, <2>4, <2>5, <2>6, <2>7, SameData, ControlStays
<1>. QED BY <1>1, <1>2

\* A task for what is due.
LEMMA OwnTask ==
  ASSUME TablesTyped, StackTyped, Control, NEW j, NEW n, Due(j, n), NEW k \in TaskKinds,
         k \notin {"visit", "method", "constructor"},
         k = "initialize" => prog[n].k = "decl" /\ prog[n].e # None,
         k = "condition" => prog[n].k \in {"branch", "loop"},
         k = "update" => prog[n].k = "loop",
         k = "endFunction" => prog[n].k \in {"function", "method"},
         k = "addMethod" => prog[n].k = "method",
         k = "endConstructor" => prog[n].k = "constructor",
         k \in {"finalize", "known", "beginInit", "endInit"} => prog[n].k = "type",
         k \notin {"initMember", "static"}
  PROVE  Own(prog, n, Task(k, n), k) /\ Task(k, n).old = at /\ Task(k, n).n = n /\ Task(k, n).t = k
<1>1. n \in DOMAIN prog /\ at \in 0..(2 * Len(prog))
  BY DueIs
<1>2. Task(k, n) = [t |-> k, n |-> n, old |-> at]
  BY DEF Task
<1>3. Task(k, n) \in [t : TaskKinds, n : DOMAIN prog, old : 0..(2 * Len(prog))]
  BY <1>1, <1>2
<1>. QED BY <1>2, <1>3 DEF Own, Fits

(***************************************************************************)
(* Statements                                                              *)
(***************************************************************************)
LEMMA DeclarationControls ==
  ASSUME TablesTyped, Control, StackTyped, NEW n, VisitDeclaration(n)
  PROVE  Stepped
<1>1. Due("visit", n) /\ prog[n].k = "decl"
  BY DEF VisitDeclaration, DueVisit
<1>2. CASE \E how : Fail(how)
  BY <1>2, ControlSame DEF Fail, Idle
<1>3. CASE ~\E how : Fail(how)
  <2>. DEFINE ts == IF prog[n].e = None THEN <<>> ELSE <<Task("initialize", n)>>
  <2>1. TodoFirst(ts) /\ UNCHANGED <<blockFuncs, signatures, tyData, place, status>>
    BY <1>3 DEF VisitDeclaration
  <2>2. Head(todo).t = "visit" /\ Head(todo).n = n /\ Fits(prog, Head(todo)) /\ IsProgram(prog)
    BY <1>1, DueIs
  <2>3. Claims(prog, Head(todo)) = {n}
    BY <1>1, <2>2, LeafClaims
  <2>4. ASSUME prog[n].e = None PROVE Stays(prog, Head(todo), ts)
    <3>1. Stays(prog, Head(todo), <<>>)
      BY <2>2, <2>3, StaysNone DEF Visited
    <3>. QED BY <2>4, <3>1
  <2>5. ASSUME prog[n].e # None PROVE Stays(prog, Head(todo), ts)
    <3>1. Own(prog, n, Task("initialize", n), "initialize")
      <4>1. "initialize" \in TaskKinds
        BY DEF TaskKinds
      <4>. QED BY <1>1, <2>5, <4>1, OwnTask
    <3>. DEFINE y == Task("initialize", n)
    <3>. HIDE DEF y
    <3>2. Stays(prog, Head(todo), <<y>>)
      <4>1. Own(prog, Head(todo).n, y, "initialize") /\ prog[Head(todo).n].k = "decl"
        BY <1>1, <2>2, <3>1 DEF y
      <4>. QED BY <2>2, <2>3, <4>1, StaysRest
    <3>. QED BY <2>5, <3>2 DEF y
  <2>6. Stays(prog, Head(todo), ts)
    BY <2>4, <2>5
  <2>7. Steady(Head(todo)) /\ Quiet(prog, Head(todo)) /\ prog[n].k # "type" /\ prog[n].k # "method"
    BY <1>1, <2>2 DEF Steady, Ends, Quiet
  <2>8. UNCHANGED <<functionStack, at>> /\ tyData' = tyData
    BY <2>1 DEF place
  <2>. HIDE DEF ts
  <2>. QED BY <1>1, <2>1, <2>6, <2>7, <2>8, SameData, ControlStays
<1>. QED BY <1>2, <1>3

\* Statements that insert their instructions and lead to nothing.
LEMMA InsertsControl ==
  ASSUME TablesTyped, Control, StackTyped, NEW n,
         Initialize(n) \/ VisitExpression(n) \/ Condition(n) \/ Update(n) \/ InitMember(n) \/ StaticMember(n)
  PROVE  Stepped
<1>1. CASE Initialize(n)
  BY <1>1, InsertControls DEF Initialize
<1>2. CASE VisitExpression(n)
  BY <1>2, InsertControls DEF VisitExpression, DueVisit
<1>3. CASE Condition(n)
  BY <1>3, InsertControls DEF Condition
<1>4. CASE Update(n)
  BY <1>4, InsertControls DEF Update
<1>5. CASE InitMember(n)
  BY <1>5, InsertControls DEF InitMember
<1>6. CASE StaticMember(n)
  BY <1>6, InsertControls DEF StaticMember
<1>. QED BY <1>1, <1>2, <1>3, <1>4, <1>5, <1>6

\* Blocks, branches and loops.
LEMMA BlockControls ==
  ASSUME TablesTyped, Control, StackTyped, NEW n, VisitBlock(n) \/ VisitBranch(n) \/ VisitLoop(n)
  PROVE  Stepped
<1>. DEFINE k == prog[n].k
<1>1. Due("visit", n) /\ k \in {"block", "branch", "loop"} /\ UNCHANGED <<tables, place>>
  BY DEF VisitBlock, VisitBranch, VisitLoop, DueVisit
<1>2. Head(todo).t = "visit" /\ Head(todo).n = n /\ Fits(prog, Head(todo)) /\ IsProgram(prog)
  BY <1>1, DueIs
<1>3. Steady(Head(todo)) /\ Quiet(prog, Head(todo))
  BY <1>1, <1>2 DEF Steady, Ends, Quiet
<1>4. "condition" \in TaskKinds /\ "update" \in TaskKinds
  BY DEF TaskKinds
<1>5. ASSUME k \in {"branch", "loop"} PROVE Own(prog, n, Task("condition", n), "condition")
  BY <1>1, <1>4, <1>5, OwnTask
<1>6. ASSUME k = "loop" PROVE Own(prog, n, Task("update", n), "update")
  BY <1>1, <1>4, <1>6, OwnTask
<1>7. PICK ts : TodoFirst(ts) /\ Stays(prog, Head(todo), ts)
  <2>1. CASE VisitBlock(n)
    <3>1. TodoFirst(Visits(Kids(prog, n))) /\ k = "block"
      BY <2>1 DEF VisitBlock, VisitKids, DueVisit
    <3>2. Stays(prog, Head(todo), Visits(Kids(prog, n)))
      BY <1>2, <3>1, BlockTasks
    <3>. QED BY <3>1, <3>2
  <2>2. CASE VisitBranch(n)
    <3>. DEFINE c == Task("condition", n)
                vs == <<c>> \o Visits(Kids(prog, n))
    <3>1. TodoFirst(vs) /\ k = "branch"
      BY <2>2 DEF VisitBranch, VisitKids, DueVisit
    <3>2. Own(prog, n, c, "condition")
      BY <1>5, <3>1
    <3>. HIDE DEF c
    <3>3. Stays(prog, Head(todo), vs)
      BY <1>2, <3>1, <3>2, BranchTasks
    <3>. QED BY <3>1, <3>3
  <2>3. CASE VisitLoop(n)
    <3>. DEFINE c == Task("condition", n)
                u == Task("update", n)
                ds == Visits(Only(Kids(prog, n), {m \in DOMAIN prog : prog[m].k = "decl"}))
                bs == Visits(Only(Kids(prog, n), {m \in DOMAIN prog : prog[m].k = "block"}))
                vs == ds \o <<c>> \o bs \o <<u>>
    <3>1. TodoFirst(vs) /\ k = "loop"
      BY <2>3 DEF VisitLoop, DueVisit
    <3>2. Own(prog, n, c, "condition") /\ Own(prog, n, u, "update")
      BY <1>5, <1>6, <3>1
    <3>. HIDE DEF c, u
    <3>3. Stays(prog, Head(todo), vs)
      BY <1>2, <3>1, <3>2, LoopTasks
    <3>. QED BY <3>1, <3>3
  <2>. QED BY <2>1, <2>2, <2>3
<1>8. UNCHANGED <<functionStack, at>> /\ tyData' = tyData
  BY <1>1 DEF tables, place
<1>. QED BY <1>1, <1>3, <1>7, <1>8, SameData, ControlStays

\* A function is on the stack while its body is compiled.
LEMMA EnterControls ==
  ASSUME TablesTyped, Control, StackTyped, NEW k, NEW n, Due(k, n), Headed(prog, n), NEW ts, TodoFirst(ts),
         k \in {"method", "constructor"} \/ (k = "visit" /\ ~Deferred(prog, n)),
         Advance(prog, Head(todo), ts), AddsLater(prog, Head(todo), ts),
         \A a \in Stacks(prog) : a # <<>> /\ Head(a) = at => Path(prog, ts, <<n>> \o a, a),
         EnterFunction(n), \A m \in DOMAIN prog : SameLists(tyData[m], tyData'[m]) /\ tyData[m].tid = tyData'[m].tid
  PROVE  Stepped
<1>1. /\ todo # <<>> /\ Head(todo).t = k /\ Head(todo).n = n /\ n \in DOMAIN prog /\ IsProgram(prog)
      /\ functionStack \in Stacks(prog) /\ functionStack # <<>> /\ at = Head(functionStack)
  BY DueIs
<1>2. Steady(Head(todo)) /\ Quiet(prog, Head(todo)) /\ prog[n].k # "type"
  BY <1>1 DEF Steady, Ends, Quiet, Headed, Deferred
<1>3. functionStack' = <<n>> \o functionStack /\ at' = n /\ prog' = prog
  BY DEF EnterFunction, TodoFirst, given
<1>4. Path(prog, ts, <<n>> \o functionStack, functionStack)
  BY <1>1
<1>5. Onward(prog, Head(todo), ts, functionStack, functionStack')
  BY <1>1, <1>2, <1>3, <1>4, OnwardBody
<1>6. Retyped(prog, Head(todo), tyData, tyData')
  BY <1>1, <1>2, QuietRetyped
<1>7. Control' /\ Moves
  BY <1>1, <1>5, <1>6, ControlNext
<1>8. n \in 1..(2 * Len(prog))
  BY <1>1, ProgTree
<1>9. StackTyped'
  <2>. DEFINE b == <<n>> \o functionStack
  <2>1. b \in Stacks(prog) /\ b # <<>> /\ Head(b) = n
    BY <1>1, <1>8, Onto
  <2>2. functionStack' = b
    BY <1>3
  <2>. HIDE DEF b
  <2>. QED BY <1>3, <2>1, <2>2 DEF StackTyped
<1>. QED BY <1>7, <1>9 DEF Stepped

\* A body that is due.
LEMMA BodyControls ==
  ASSUME TablesTyped, Control, StackTyped, NEW k, NEW n, Due(k, n), Headed(prog, n),
         k \in {"method", "constructor"} \/ (k = "visit" /\ prog[n].k = "function"),
         NEW j \in {"endFunction", "endConstructor"},
         j = "endFunction" <=> prog[n].k # "constructor",
         TodoFirst(VisitKids(n) \o <<Task(j, n)>>), EnterFunction(n), tyData' = tyData
  PROVE  Stepped
<1>. DEFINE e == Task(j, n)
            ts == Visits(Kids(prog, n)) \o <<e>>
<1>1. Head(todo).t = k /\ Head(todo).n = n /\ Fits(prog, Head(todo)) /\ IsProgram(prog)
  BY DueIs
<1>2. Own(prog, n, e, j) /\ e.old = at
  <2>1. j \in TaskKinds /\ j \notin {"visit", "method", "constructor", "finalize", "known", "beginInit", "endInit",
                                     "initMember", "static", "initialize", "condition", "update", "addMethod"}
    BY DEF TaskKinds
  <2>2. j = "endFunction" => prog[n].k \in {"function", "method"}
    BY DEF Headed
  <2>3. j = "endConstructor" => prog[n].k = "constructor"
    OBVIOUS
  <2>. QED BY <2>1, <2>2, <2>3, OwnTask
<1>. HIDE DEF e
<1>3. TodoFirst(ts)
  BY DEF VisitKids, e
<1>31. ~Deferred(prog, n) \/ k \in {"method", "constructor"}
  BY DEF Deferred
<1>4. /\ Advance(prog, Head(todo), ts)
      /\ \A y \in Among(ts) : y = e \/ KidVisit(prog, n, y)
      /\ \A a \in Stacks(prog) : a # <<>> /\ Head(a) = at => Path(prog, ts, <<n>> \o a, a)
  <2>. HIDE DEF ts
  <2>1. Headed(prog, Head(todo).n) /\ Own(prog, Head(todo).n, e, j)
    BY <1>1, <1>2
  <2>2. \/ Head(todo).t \in {"method", "constructor"}
        \/ (Head(todo).t = "visit" /\ ~Deferred(prog, Head(todo).n))
    BY <1>1, <1>31
  <2>. QED BY <1>1, <1>2, <2>1, <2>2, BodyTasks DEF ts
<1>. HIDE DEF ts
<1>5. AddsLater(prog, Head(todo), ts)
  <2>1. \A y \in Among(ts) : y.t # "addMethod"
    BY <1>2, <1>4 DEF Own, KidVisit
  <2>2. ~(Head(todo).t = "visit" /\ prog[Head(todo).n].k = "method")
    BY <1>1
  <2>. QED BY <2>1, <2>2, AddsNothing
<1>. QED BY <1>3, <1>31, <1>4, <1>5, SameData, EnterControls

\* visitFunction: the function goes on the stack, its body and its end are
\* next.
LEMMA FunctionControls ==
  ASSUME TablesTyped, Control, StackTyped, NEW n, VisitFunction(n)
  PROVE  Stepped
<1>1. Due("visit", n) /\ prog[n].k = "function"
  BY DEF VisitFunction, DueVisit
<1>2. CASE \E how : Fail(how)
  BY <1>2, ControlSame DEF Fail, Idle
<1>3. CASE ~\E how : Fail(how)
  <2>1. /\ IF prog[n].foreign THEN TodoFirst(<<>>) /\ UNCHANGED place ELSE TodoFirst(Body(n)) /\ EnterFunction(n)
        /\ tyData' = tyData
    BY <1>3 DEF VisitFunction
  <2>2. Head(todo).t = "visit" /\ Head(todo).n = n /\ Fits(prog, Head(todo)) /\ IsProgram(prog)
    BY <1>1, DueIs
  <2>3. CASE prog[n].foreign
    <3>1. Claims(prog, Head(todo)) = Visited(Head(todo))
      BY <2>2, <2>3, LeafClaims DEF Visited
    <3>2. Stays(prog, Head(todo), <<>>)
      BY <3>1, StaysNone
    <3>3. Steady(Head(todo)) /\ Quiet(prog, Head(todo))
      BY <1>1, <2>2 DEF Steady, Ends, Quiet
    <3>4. TodoFirst(<<>>) /\ UNCHANGED <<functionStack, at>>
      BY <2>1, <2>3 DEF place
    <3>. QED BY <1>1, <2>1, <3>2, <3>3, <3>4, SameData, ControlStays
  <2>4. CASE ~prog[n].foreign
    <3>1. TodoFirst(VisitKids(n) \o <<Task("endFunction", n)>>) /\ EnterFunction(n)
      BY <2>1, <2>4 DEF Body
    <3>2. Headed(prog, n)
      BY <1>1 DEF Headed
    <3>. QED BY <1>1, <2>1, <3>1, <3>2, BodyControls
  <2>. QED BY <2>3, <2>4
<1>. QED BY <1>2, <1>3

\* What a function was entered from is gone on with.
LEMMA LeaveControls ==
  ASSUME TablesTyped, Control, StackTyped, NEW k \in {"endFunction", "endConstructor", "endInit"}, NEW n, Due(k, n),
         LeaveFunction, TodoFirst(<<>>), tyData' = tyData
  PROVE  Stepped
<1>1. /\ todo # <<>> /\ Head(todo).t = k /\ Head(todo).n = n /\ n \in DOMAIN prog /\ IsProgram(prog)
      /\ Fits(prog, Head(todo))
  BY DueIs
<1>2. Ends(Head(todo)) /\ Quiet(prog, Head(todo))
  BY <1>1 DEF Ends, Quiet
<1>3. /\ Tail(functionStack) \in Stacks(prog) /\ Tail(functionStack) # <<>>
      /\ Head(todo).old = Head(Tail(functionStack))
  BY <1>1, <1>2, DueTurn DEF Control
<1>4. functionStack' = Tail(functionStack) /\ at' = Head(todo).old /\ prog' = prog
  BY DEF LeaveFunction, Pop, BackTo, TodoFirst, given
<1>5. Onward(prog, Head(todo), <<>>, functionStack, functionStack')
  BY <1>2, <1>3, <1>4, OnwardEnds
<1>6. Claims(prog, Head(todo)) = Visited(Head(todo))
  BY <1>1, LeafClaims DEF Visited
<1>7. Advance(prog, Head(todo), <<>>)
  BY <1>6, AdvanceNone
<1>8. AddsLater(prog, Head(todo), <<>>)
  BY <1>1, AmongNone, AddsNothing
<1>9. Retyped(prog, Head(todo), tyData, tyData')
  <2>1. \A m \in DOMAIN prog : SameLists(tyData[m], tyData'[m]) /\ tyData[m].tid = tyData'[m].tid
    BY SameData
  <2>. QED BY <1>1, <1>2, <2>1, QuietRetyped
<1>10. Control' /\ Moves
  BY <1>1, <1>5, <1>7, <1>8, <1>9, ControlNext
<1>11. StackTyped'
  BY <1>3, <1>4 DEF StackTyped
<1>. QED BY <1>10, <1>11 DEF Stepped

\* What visitReturn does with a value that fits.
ReturnStored(n, v, returned, loses) ==
  /\ code' = Inserted("return", n, returned)
  /\ blockScope' = {IF loses /\ x.node = v.var THEN [x EXCEPT !.returned = TRUE] ELSE x : x \in blockScope}
  /\ TodoFirst(<<>>)
  /\ UNCHANGED <<ids, blockTypes, blockFuncs, signatures, tyData, place, status>>
ReturnTypes(n) == LET func == FunctionAbove(n) IN IF func = 0 THEN {"Integer"} ELSE prog[func].types
ReturnChecked(n, v) ==
  LET ty == TypeIdFromInfo(ReturnTypes(n), n) IN
  IF ty = 0 THEN Thrown("type") ELSE IF TypeCheck(ty, v) # "ok" THEN Thrown(TypeCheck(ty, v))
  ELSE ToCaller(ReturnedValue(v, signatures[Head(functionStack)].ret), ty)

\* The ways visitReturn ends.
LEMMA ReturnIs ==
  ASSUME NEW n, VisitReturn(n)
  PROVE  \/ Fail("syntax") \/ Fail("type") \/ Insert("return", n, Value(Void, Lt(0, Void)))
         \/ /\ prog[n].e # None /\ ReturnTypes(n) # {}
            /\ LET v == CompileExpression(prog[n].e, n)
                   w == Then(v, ReturnChecked(n, v))
               IN  \/ w.how # "ok" /\ Fail(w.how)
                   \/ /\ w.how = "ok"
                      /\ \E loses : ReturnStored(n, v, ReturnChecked(n, v), loses)
<1>. DEFINE func == FunctionAbove(n)
            types == IF func = 0 THEN {"Integer"} ELSE prog[func].types
            v == CompileExpression(prog[n].e, n)
            ty == TypeIdFromInfo(types, n)
            returned == ReturnedValue(v, signatures[Head(functionStack)].ret)
            checked == IF ty = 0 THEN Thrown("type")
                       ELSE IF TypeCheck(ty, v) # "ok" THEN Thrown(TypeCheck(ty, v)) ELSE ToCaller(returned, ty)
            loses == prog[n].e # None /\ v.how = "ok" /\ v.var # 0 /\ returned.lt # v.lt
            w == Then(v, checked)
<1>1. IF func = 0 /\ ~BlockReturn THEN Fail("syntax")
      ELSE IF prog[n].e = None /\ types = {} THEN Insert("return", n, Value(Void, Lt(0, Void)))
      ELSE IF prog[n].e = None \/ types = {} THEN Fail("type")
      ELSE IF w.how # "ok" THEN Fail(w.how)
      ELSE ReturnStored(n, v, checked, loses)
  <2>1. /\ DueVisit("return", n)
        /\ IF func = 0 /\ ~BlockReturn THEN Fail("syntax")
           ELSE IF prog[n].e = None /\ types = {} THEN Insert("return", n, Value(Void, Lt(0, Void)))
           ELSE IF prog[n].e = None \/ types = {} THEN Fail("type")
           ELSE IF Then(v, checked).how # "ok" THEN Fail(Then(v, checked).how)
           ELSE /\ code' = Inserted("return", n, checked)
                /\ blockScope' =
                     {IF loses /\ x.node = v.var THEN [x EXCEPT !.returned = TRUE] ELSE x : x \in blockScope}
                /\ TodoFirst(<<>>)
                /\ UNCHANGED <<ids, blockTypes, blockFuncs, signatures, tyData, place, status>>
    BY Zenon DEF VisitReturn
  <2>. QED BY <2>1 DEF ReturnStored
<1>2. types = ReturnTypes(n)
  BY DEF ReturnTypes
<1>3. checked = ReturnChecked(n, v)
  BY DEF ReturnChecked, ReturnTypes
<1>. HIDE DEF func, types, v, returned, checked, loses
<1>. QED BY <1>1, <1>2, <1>3 DEF v

\* visitReturn.
LEMMA ReturnControls ==
  ASSUME TablesTyped, Control, StackTyped, NEW n, VisitReturn(n)
  PROVE  Stepped
<1>1. Due("visit", n) /\ prog[n].k = "return"
  BY DEF VisitReturn, DueVisit
<1>2. CASE \E how : Fail(how)
  BY <1>2, ControlSame DEF Fail, Idle
<1>3. CASE Insert("return", n, Value(Void, Lt(0, Void)))
  BY <1>1, <1>3, InsertControls
<1>4. CASE \E v, returned, loses : ReturnStored(n, v, returned, loses)
  <2>1. TodoFirst(<<>>) /\ UNCHANGED <<functionStack, at>> /\ tyData' = tyData
    BY <1>4 DEF ReturnStored, place
  <2>2. Head(todo).t = "visit" /\ Head(todo).n = n /\ Fits(prog, Head(todo)) /\ IsProgram(prog)
    BY <1>1, DueIs
  <2>3. Claims(prog, Head(todo)) = Visited(Head(todo))
    BY <1>1, <2>2, LeafClaims DEF Visited
  <2>4. Stays(prog, Head(todo), <<>>)
    BY <2>3, StaysNone
  <2>5. Steady(Head(todo)) /\ Quiet(prog, Head(todo))
    BY <1>1, <2>2 DEF Steady, Ends, Quiet
  <2>. QED BY <1>1, <2>1, <2>4, <2>5, SameData, ControlStays
<1>5. \/ \E how : Fail(how)
      \/ Insert("return", n, Value(Void, Lt(0, Void)))
      \/ \E v, returned, loses : ReturnStored(n, v, returned, loses)
  BY ReturnIs
<1>. QED BY <1>2, <1>3, <1>4, <1>5

(***************************************************************************)
(* Types                                                                   *)
(***************************************************************************)
LEMMA DataIs ==
  ASSUME TablesTyped
  PROVE  /\ tyData \in [DOMAIN prog -> DataSet]
         /\ \A m \in DOMAIN prog : tyData[m] \in DataSet
BY DEF TablesTyped, DataTyped

\* One list of one type is made longer.
LEMMA BuildIs ==
  ASSUME TablesTyped, NEW t \in DOMAIN prog, NEW entry
  PROVE  /\ Build(t, "members", entry) => tyData' = [tyData EXCEPT ![t] = [tyData[t] EXCEPT !.members = Append(tyData[t].members, entry)]]
         /\ Build(t, "statics", entry) => tyData' = [tyData EXCEPT ![t] = [tyData[t] EXCEPT !.statics = Append(tyData[t].statics, entry)]]
         /\ Build(t, "methods", entry) => tyData' = [tyData EXCEPT ![t] = [tyData[t] EXCEPT !.methods = Append(tyData[t].methods, entry)]]
         /\ Build(t, "constructors", entry) => tyData' = [tyData EXCEPT ![t] = [tyData[t] EXCEPT !.constructors = Append(tyData[t].constructors, entry)]]
BY DEF Build
\* What is built of one type otherwise lists nothing.
LEMMA MarkIs ==
  ASSUME TablesTyped, NEW n \in DOMAIN prog,
         \/ tyData' = [tyData EXCEPT ![n].laidOut = TRUE] \/ tyData' = [tyData EXCEPT ![n].initExists = TRUE]
         \/ tyData' = tyData
  PROVE  \A m \in DOMAIN prog : SameLists(tyData[m], tyData'[m]) /\ tyData[m].tid = tyData'[m].tid
<1>1. CASE tyData' = [tyData EXCEPT ![n].laidOut = TRUE]
  <2>1. tyData' = [tyData EXCEPT ![n] = [tyData[n] EXCEPT !.laidOut = TRUE]]
    BY <1>1
  <2>. QED BY <2>1, DataIs DEF SameLists, DataSet
<1>2. CASE tyData' = [tyData EXCEPT ![n].initExists = TRUE]
  <2>1. tyData' = [tyData EXCEPT ![n] = [tyData[n] EXCEPT !.initExists = TRUE]]
    BY <1>2
  <2>. QED BY <2>1, DataIs DEF SameLists, DataSet
<1>3. CASE tyData' = tyData
  BY <1>3, SameData
<1>. QED BY <1>1, <1>2, <1>3

\* visitType: its children first, then finalize.
LEMMA TypeControls ==
  ASSUME TablesTyped, Control, StackTyped, NEW n, VisitType(n)
  PROVE  Stepped
<1>1. Due("visit", n) /\ prog[n].k = "type"
  BY DEF VisitType, DueVisit
<1>2. CASE Fail("redefined")
  BY <1>2, ControlSame DEF Fail, Idle
<1>3. CASE ~Fail("redefined")
  <2>. DEFINE f == Task("finalize", n)
              vs == Visits(Kids(prog, n))
              ts == vs \o <<f>>
              tid == Len(ids) + 1
  <2>1. TodoFirst(ts) /\ tyData' = [tyData EXCEPT ![n].tid = tid] /\ UNCHANGED place
    BY <1>3 DEF VisitType, VisitKids
  <2>2. todo # <<>> /\ Head(todo).t = "visit" /\ Head(todo).n = n /\ Fits(prog, Head(todo)) /\ IsProgram(prog)
        /\ n \in DOMAIN prog /\ functionStack \in Stacks(prog)
    BY <1>1, DueIs
  <2>3. Own(prog, n, f, "finalize")
    <3>1. "finalize" \in TaskKinds
      BY DEF TaskKinds
    <3>. QED BY <1>1, <3>1, OwnTask
  <2>. HIDE DEF f
  <2>4. Stays(prog, Head(todo), ts)
    BY <1>1, <2>2, <2>3, TypeTasks
  <2>5. Steady(Head(todo)) /\ Quiet(prog, Head(todo))
    BY <1>1, <2>2 DEF Steady, Ends, Quiet
  <2>6. AddsLater(prog, Head(todo), ts)
    <3>1. vs \in Seq(Tasks(prog)) /\ \A y \in Among(vs) : y.t = "visit"
      BY <2>2, KidVisits DEF VisitsTo, KidVisit
    <3>. DEFINE fs == <<f>>
    <3>2. fs \in Seq(Tasks(prog)) /\ Among(fs) = {f} /\ f.t = "finalize"
      BY <2>3, FamilyOne DEF Family, Own
    <3>. HIDE DEF fs, vs
    <3>3. Among(vs \o fs) = Among(vs) \cup Among(fs)
      BY <3>1, <3>2, AmongConcat
    <3>4. \A y \in Among(vs \o fs) : y.t # "addMethod"
      BY <3>1, <3>2, <3>3
    <3>5. ~(Head(todo).t = "visit" /\ prog[Head(todo).n].k = "method")
      BY <1>1, <2>2
    <3>. QED BY <3>4, <3>5, AddsNothing DEF fs
  <2>7. Onward(prog, Head(todo), ts, functionStack, functionStack')
    <3>1. functionStack' = functionStack
      BY <2>1 DEF place
    <3>. QED BY <2>2, <2>4, <2>5, <3>1, OnwardStays
  <2>8. Retyped(prog, Head(todo), tyData, tyData')
    <3>1. tid # 0
      BY IdsAre DEF TablesTyped
    <3>. HIDE DEF tid
    <3>2. tyData' = [tyData EXCEPT ![n] = [tyData[n] EXCEPT !.tid = tid]]
      BY <2>1
    <3>3. \A m \in DOMAIN prog : SameLists(tyData[m], tyData'[m]) /\ tyData'[m].tid = IF m = n THEN tid ELSE tyData[m].tid
      BY <2>2, <3>2, DataIs DEF SameLists, DataSet
    <3>4. \A m \in DOMAIN prog : Relisted(prog, Head(todo), tyData[m], tyData'[m], m)
      BY <2>5, <3>3, QuietRelisted
    <3>5. Visited(Head(todo)) = {n}
      BY <2>2 DEF Visited
    <3>6. \A m \in DOMAIN prog : tyData'[m].tid # 0 <=> tyData[m].tid # 0 \/ m \in Visited(Head(todo))
      BY <3>1, <3>3, <3>5
    <3>. QED BY <3>4, <3>6 DEF Retyped
  <2>9. Control' /\ Moves
    <3>. HIDE DEF ts
    <3>1. Advance(prog, Head(todo), ts)
      BY <2>4 DEF Stays
    <3>. QED BY <2>1, <2>2, <2>6, <2>7, <2>8, <3>1, ControlNext
  <2>10. StackTyped'
    BY <2>1 DEF StackTyped, place, TodoFirst, given
  <2>. QED BY <2>9, <2>10 DEF Stepped
<1>. QED BY <1>2, <1>3

\* One that goes on in the same function, and lists n.
LEMMA ListControls ==
  ASSUME TablesTyped, Control, StackTyped, NEW k, NEW n, Due(k, n), NEW ts, TodoFirst(ts), Stays(prog, Head(todo), ts),
         Steady(Head(todo)), AddsLater(prog, Head(todo), ts), UNCHANGED <<functionStack, at>>,
         k = "visit" => prog[n].k # "type",
         \A m \in DOMAIN prog : prog[m].k = "type" =>
           Relisted(prog, Head(todo), tyData[m], tyData'[m], m) /\ tyData'[m].tid = tyData[m].tid
  PROVE  Stepped
<1>1. /\ todo # <<>> /\ Head(todo).t = k /\ Head(todo).n = n /\ n \in DOMAIN prog
      /\ Fits(prog, Head(todo)) /\ IsProgram(prog) /\ functionStack \in Stacks(prog)
  BY DueIs
<1>2. Advance(prog, Head(todo), ts)
  BY DEF Stays
<1>3. Onward(prog, Head(todo), ts, functionStack, functionStack')
  BY <1>1, OnwardStays
<1>4. Retyped(prog, Head(todo), tyData, tyData')
  BY <1>1 DEF Retyped, Visited
<1>5. Control' /\ Moves
  BY <1>1, <1>2, <1>3, <1>4, ControlNext
<1>6. StackTyped'
  <2>1. prog' = prog
    BY DEF TodoFirst, given
  <2>. QED BY <2>1 DEF StackTyped
<1>. QED BY <1>5, <1>6 DEF Stepped

\* The nodes of a list of fields that grew by one.
LEMMA FieldNodesAppend ==
  ASSUME NEW T, NEW members \in Seq([node : T, of : Nat]), NEW n \in T, NEW i \in Nat
  PROVE  FieldNodes(Append(members, [node |-> n, of |-> i])) = Append(FieldNodes(members), n)
<1>. DEFINE E == [node : T, of : Nat]
            e == [node |-> n, of |-> i]
            r == Append(members, e)
<1>1. e \in E /\ e.node = n
  OBVIOUS
<1>2. members \in Seq(E)
  OBVIOUS
<1>3. \A j \in 1..Len(members) : members[j].node \in T
  <2>1. \A j \in 1..Len(members) : members[j] \in E
    <3>. HIDE DEF E
    <3>. QED BY <1>2
  <2>. QED BY <2>1
<1>. HIDE DEF E, e
<1>4. DOMAIN r = 1..(Len(members) + 1) /\ DOMAIN members = 1..Len(members) /\ Len(members) \in Nat
      /\ r[Len(members) + 1] = e /\ \A j \in 1..Len(members) : r[j] = members[j]
  BY <1>1, <1>2
<1>. DEFINE f == FieldNodes(members)
            g == Append(f, n)
            h == FieldNodes(r)
<1>. HIDE DEF r
<1>5. f \in Seq(T) /\ Len(f) = Len(members) /\ \A j \in 1..Len(members) : f[j] = members[j].node
  <2>1. f = [j \in 1..Len(members) |-> members[j].node]
    BY <1>4 DEF FieldNodes
  <2>2. f \in [1..Len(members) -> T]
    BY <1>3, <2>1
  <2>. QED BY <1>4, <2>1, <2>2
<1>. HIDE DEF f
<1>6. DOMAIN g = 1..(Len(members) + 1) /\ g[Len(members) + 1] = n /\ (\A j \in 1..Len(members) : g[j] = f[j])
      /\ g \in Seq(T)
  BY <1>4, <1>5
<1>7. h = [j \in DOMAIN r |-> r[j].node]
  BY DEF FieldNodes
<1>. HIDE DEF g, h
<1>8. \A j \in 1..(Len(members) + 1) : h[j] = g[j]
  <2>1. \A j \in 1..(Len(members) + 1) : j \in 1..Len(members) \/ j = Len(members) + 1
    BY <1>4
  <2>. QED BY <1>1, <1>4, <1>5, <1>6, <1>7, <2>1
<1>9. h = [j \in 1..(Len(members) + 1) |-> h[j]] /\ g = [j \in 1..(Len(members) + 1) |-> g[j]]
  BY <1>4, <1>6, <1>7
<1>10. h = g
  BY <1>8, <1>9
<1>. QED BY <1>10 DEF f, g, h, r, e

\* A step of a child of p changes the lists of p at most.
LEMMA OneRelisted ==
  ASSUME NEW t, NEW x, NEW p, t[x.n].parent = p, NEW d, NEW e, Relisted(t, x, d[p], e[p], p),
         NEW S, \A m \in S : m # p => e[m] = d[m]
  PROVE  \A m \in S : Relisted(t, x, d[m], e[m], m)
<1>. SUFFICES ASSUME NEW m \in S PROVE Relisted(t, x, d[m], e[m], m)
  OBVIOUS
<1>1. CASE m = p
  BY <1>1
<1>2. CASE m # p
  BY <1>2 DEF Relisted, Extended
<1>. QED BY <1>1, <1>2

\* A member, a method or a constructor is one of a type.
LEMMA ChildOfType ==
  ASSUME TablesTyped, NEW n \in DOMAIN prog, prog[n].k \in {"member", "method", "constructor"}
  PROVE  TypeOf(n) \in DOMAIN prog /\ prog[TypeOf(n)].k = "type" /\ n # 1
<1>1. n # 1
  BY ProgTree, ProgramFacts
<1>. QED BY <1>1, ProgTree, ProgramFacts, Placing DEF TypeOf

\* visitMember, of both kinds.
LEMMA MemberControls ==
  ASSUME TablesTyped, Control, StackTyped, NEW n, VisitMember(n)
  PROVE  Stepped
<1>1. Due("visit", n) /\ prog[n].k = "member"
  BY DEF VisitMember, DueVisit
<1>2. CASE \E how : Fail(how)
  BY <1>2, ControlSame DEF Fail, Idle
<1>3. CASE ~\E how : Fail(how)
  <2>. DEFINE t == TypeOf(n)
              i == TypeIdFromInfo(prog[n].types, n)
              entry == [node |-> n, of |-> Base(i)]
  <2>1. /\ Unusable(prog[n].types, n) = "ok"
        /\ IF prog[n].static THEN Build(t, "statics", n) ELSE Build(t, "members", entry)
        /\ TodoFirst(<<>>) /\ UNCHANGED <<functionStack, at>>
    BY <1>3 DEF VisitMember, place
  <2>2. /\ Head(todo).t = "visit" /\ Head(todo).n = n /\ Fits(prog, Head(todo)) /\ IsProgram(prog) /\ n \in DOMAIN prog
    BY <1>1, DueIs
  <2>3. t \in DOMAIN prog /\ prog[t].k = "type" /\ prog[n].parent = t
    BY <1>1, <2>2, ChildOfType DEF TypeOf
  <2>4. Base(i) \in Nat
    <3>1. i # 0
      BY <2>1 DEF Unusable
    <3>2. i \in DOMAIN ids
      BY <2>2, <3>1, FoundByName
    <3>. QED BY <3>2, BaseIs DEF TablesTyped
  <2>5. prog[n].static \in BOOLEAN
    BY <2>2, ProgramFacts DEF TreeNodes
  <2>. HIDE DEF t, i
  <2>6. Claims(prog, Head(todo)) = Visited(Head(todo))
    BY <1>1, <2>2, LeafClaims DEF Visited
  <2>7. Stays(prog, Head(todo), <<>>)
    BY <2>6, StaysNone
  <2>8. Steady(Head(todo)) /\ prog[n].k # "type"
    BY <1>1, <2>2 DEF Steady, Ends
  <2>9. AddsLater(prog, Head(todo), <<>>)
    BY <1>1, <2>2, AmongNone, AddsNothing
  <2>10. tyData \in [DOMAIN prog -> DataSet]
    BY DataIs
  <2>11. /\ Relisted(prog, Head(todo), tyData[t], tyData'[t], t) /\ tyData'[t].tid = tyData[t].tid
         /\ \A m \in DOMAIN prog : m # t => tyData'[m] = tyData[m]
    <3>1. CASE prog[n].static
      <4>1. tyData' = [tyData EXCEPT ![t] = [tyData[t] EXCEPT !.statics = Append(tyData[t].statics, n)]]
        BY <2>1, <2>3, <3>1, BuildIs
      <4>. DEFINE s == Append(tyData[t].statics, n)
      <4>2. tyData[t] \in DataSet /\ s = Append(tyData[t].statics, n)
        BY <2>3, <2>10
      <4>. HIDE DEF s
      <4>3. /\ tyData'[t] = [tyData[t] EXCEPT !.statics = s]
            /\ \A m \in DOMAIN prog : m # t => tyData'[m] = tyData[m]
        BY <2>3, <2>10, <4>1, <4>2
      <4>4. /\ SameLists([tyData'[t] EXCEPT !.statics = tyData[t].statics], tyData[t])
            /\ tyData'[t].members = tyData[t].members /\ tyData'[t].methods = tyData[t].methods
            /\ tyData'[t].constructors = tyData[t].constructors /\ tyData'[t].statics = s
            /\ tyData'[t].tid = tyData[t].tid
        BY <4>2, <4>3 DEF DataSet, SameLists
      <4>5. Relisted(prog, Head(todo), tyData[t], tyData'[t], t)
        BY <1>1, <2>2, <2>3, <3>1, <4>2, <4>4 DEF Relisted, Extended
      <4>. QED BY <4>3, <4>4, <4>5
    <3>2. CASE ~prog[n].static
      <4>1. tyData' = [tyData EXCEPT ![t] = [tyData[t] EXCEPT !.members = Append(tyData[t].members, entry)]]
        BY <2>1, <2>3, <3>2, BuildIs
      <4>. DEFINE s == Append(tyData[t].members, entry)
      <4>2. tyData[t] \in DataSet
        BY <2>3, <2>10
      <4>21. tyData[t].members \in Seq([node : DOMAIN prog, of : Nat])
        BY <4>2 DEF DataSet
      <4>22. FieldNodes(s) = Append(FieldNodes(tyData[t].members), n)
        BY <2>2, <2>4, <4>21, FieldNodesAppend
      <4>. HIDE DEF s
      <4>3. /\ tyData'[t] = [tyData[t] EXCEPT !.members = s]
            /\ \A m \in DOMAIN prog : m # t => tyData'[m] = tyData[m]
        BY <2>3, <2>10, <4>1 DEF s
      <4>4. /\ tyData'[t].statics = tyData[t].statics /\ tyData'[t].methods = tyData[t].methods
            /\ tyData'[t].constructors = tyData[t].constructors /\ tyData'[t].members = s
            /\ tyData'[t].tid = tyData[t].tid
        BY <4>2, <4>3 DEF DataSet
      <4>5. Relisted(prog, Head(todo), tyData[t], tyData'[t], t)
        BY <1>1, <2>2, <2>3, <2>5, <3>2, <4>22, <4>4 DEF Relisted, Extended
      <4>. QED BY <4>3, <4>4, <4>5
    <3>. QED BY <2>5, <3>1, <3>2
  <2>12. \A m \in DOMAIN prog : Relisted(prog, Head(todo), tyData[m], tyData'[m], m) /\ tyData'[m].tid = tyData[m].tid
    <3>1. prog[Head(todo).n].parent = t
      BY <2>2, <2>3
    <3>2. Relisted(prog, Head(todo), tyData[t], tyData'[t], t)
      BY <2>11
    <3>3. \A m \in DOMAIN prog : m # t => tyData'[m] = tyData[m]
      BY <2>11
    <3>4. \A m \in DOMAIN prog : Relisted(prog, Head(todo), tyData[m], tyData'[m], m)
      <4>. SUFFICES ASSUME NEW m \in DOMAIN prog PROVE Relisted(prog, Head(todo), tyData[m], tyData'[m], m)
        OBVIOUS
      <4>1. CASE m = t
        BY <3>2, <4>1
      <4>2. CASE m # t
        BY <3>1, <3>3, <4>2 DEF Relisted, Extended
      <4>. QED BY <4>1, <4>2
    <3>. QED BY <2>11, <3>4
  <2>. QED BY <1>1, <2>1, <2>7, <2>8, <2>9, <2>12, ListControls
<1>. QED BY <1>2, <1>3

\* addMethod extends one list.
LEMMA AddControls ==
  ASSUME TablesTyped, Control, StackTyped, NEW n, AddMethod(n)
  PROVE  Stepped
<1>1. Due("addMethod", n)
  BY DEF AddMethod
<1>2. CASE \E how : Fail(how)
  BY <1>2, ControlSame DEF Fail, Idle
<1>3. CASE ~\E how : Fail(how)
  <2>. DEFINE t == TypeOf(n)
  <2>1. /\ IF prog[n].static THEN UNCHANGED tyData ELSE Build(t, "methods", n)
        /\ TodoFirst(<<>>) /\ UNCHANGED <<functionStack, at>>
    BY <1>3 DEF AddMethod, place
  <2>2. /\ Head(todo).t = "addMethod" /\ Head(todo).n = n /\ Fits(prog, Head(todo)) /\ IsProgram(prog) /\ n \in DOMAIN prog
        /\ prog[n].k = "method"
    BY <1>1, DueIs DEF Fits
  <2>3. t \in DOMAIN prog /\ prog[t].k = "type" /\ prog[n].parent = t
    BY <2>2, ChildOfType DEF TypeOf
  <2>5. prog[n].static \in BOOLEAN
    BY <2>2, ProgramFacts DEF TreeNodes
  <2>. HIDE DEF t
  <2>6. Claims(prog, Head(todo)) = Visited(Head(todo))
    BY <2>2, LeafClaims DEF Visited
  <2>7. Stays(prog, Head(todo), <<>>)
    BY <2>6, StaysNone
  <2>8. Steady(Head(todo))
    BY <2>2 DEF Steady, Ends
  <2>9. AddsLater(prog, Head(todo), <<>>)
    BY <2>2, AmongNone, AddsNothing
  <2>10. tyData \in [DOMAIN prog -> DataSet]
    BY DataIs
  <2>11. CASE prog[n].static
    <3>1. tyData' = tyData
      BY <2>1, <2>11
    <3>2. \A m \in DOMAIN prog : SameLists(tyData[m], tyData'[m]) /\ tyData[m].tid = tyData'[m].tid
      BY <3>1, SameData
    <3>3. Quiet(prog, Head(todo))
      BY <2>2, <2>11 DEF Quiet
    <3>4. \A m \in DOMAIN prog : Relisted(prog, Head(todo), tyData[m], tyData'[m], m) /\ tyData'[m].tid = tyData[m].tid
      BY <3>2, <3>3, QuietRelisted
    <3>. QED BY <1>1, <2>1, <2>7, <2>8, <2>9, <3>4, ListControls
  <2>12. CASE ~prog[n].static
    <3>1. tyData' = [tyData EXCEPT ![t] = [tyData[t] EXCEPT !.methods = Append(tyData[t].methods, n)]]
      BY <2>1, <2>3, <2>12, BuildIs
    <3>. DEFINE s == Append(tyData[t].methods, n)
    <3>2. tyData[t] \in DataSet
      BY <2>3, <2>10
    <3>3. s = Append(tyData[t].methods, n)
      OBVIOUS
    <3>. HIDE DEF s
    <3>4. /\ tyData'[t] = [tyData[t] EXCEPT !.methods = s]
          /\ \A m \in DOMAIN prog : m # t => tyData'[m] = tyData[m]
      BY <2>3, <2>10, <3>1, <3>3
    <3>5. /\ tyData'[t].statics = tyData[t].statics /\ tyData'[t].members = tyData[t].members
          /\ tyData'[t].constructors = tyData[t].constructors /\ tyData'[t].methods = s
          /\ tyData'[t].tid = tyData[t].tid
      BY <3>2, <3>4 DEF DataSet
    <3>6. Relisted(prog, Head(todo), tyData[t], tyData'[t], t)
      BY <2>2, <2>3, <2>12, <3>3, <3>5 DEF Relisted, Extended
    <3>7. prog[Head(todo).n].parent = t
      BY <2>2, <2>3
    <3>8. \A m \in DOMAIN prog : Relisted(prog, Head(todo), tyData[m], tyData'[m], m)
      BY <3>4, <3>6, <3>7, OneRelisted
    <3>9. \A m \in DOMAIN prog : tyData'[m].tid = tyData[m].tid
      BY <3>4, <3>5
    <3>. QED BY <1>1, <2>1, <2>7, <2>8, <2>9, <3>8, <3>9, ListControls
  <2>. QED BY <2>5, <2>11, <2>12
<1>. QED BY <1>2, <1>3

\* visitConstructor.
LEMMA ConstructorControls ==
  ASSUME TablesTyped, Control, StackTyped, NEW n, VisitConstructor(n)
  PROVE  Stepped
<1>1. Due("visit", n) /\ prog[n].k = "constructor"
  BY DEF VisitConstructor, DueVisit
<1>2. CASE \E how : Fail(how)
  BY <1>2, ControlSame DEF Fail, Idle
<1>3. CASE ~\E how : Fail(how)
  <2>. DEFINE t == TypeOf(n)
  <2>1. Build(t, "constructors", n) /\ TodoFirst(<<>>) /\ UNCHANGED <<functionStack, at>>
    BY <1>3 DEF VisitConstructor, place
  <2>2. /\ Head(todo).t = "visit" /\ Head(todo).n = n /\ Fits(prog, Head(todo)) /\ IsProgram(prog) /\ n \in DOMAIN prog
    BY <1>1, DueIs
  <2>3. t \in DOMAIN prog /\ prog[t].k = "type" /\ prog[n].parent = t
    BY <1>1, <2>2, ChildOfType DEF TypeOf
  <2>. HIDE DEF t
  <2>4. Claims(prog, Head(todo)) = Visited(Head(todo))
    BY <1>1, <2>2, LeafClaims DEF Visited, Deferred
  <2>5. Stays(prog, Head(todo), <<>>)
    BY <2>4, StaysNone
  <2>6. Steady(Head(todo)) /\ prog[n].k # "type"
    BY <1>1, <2>2 DEF Steady, Ends
  <2>7. AddsLater(prog, Head(todo), <<>>)
    BY <1>1, <2>2, AmongNone, AddsNothing
  <2>8. tyData \in [DOMAIN prog -> DataSet]
    BY DataIs
  <2>9. tyData' = [tyData EXCEPT ![t] = [tyData[t] EXCEPT !.constructors = Append(tyData[t].constructors, n)]]
    BY <2>1, <2>3, BuildIs
  <2>. DEFINE s == Append(tyData[t].constructors, n)
  <2>10. tyData[t] \in DataSet /\ s = Append(tyData[t].constructors, n)
    BY <2>3, <2>8
  <2>. HIDE DEF s
  <2>11. /\ tyData'[t] = [tyData[t] EXCEPT !.constructors = s]
         /\ \A m \in DOMAIN prog : m # t => tyData'[m] = tyData[m]
    BY <2>3, <2>8, <2>9, <2>10
  <2>12. /\ tyData'[t].statics = tyData[t].statics /\ tyData'[t].members = tyData[t].members
         /\ tyData'[t].methods = tyData[t].methods /\ tyData'[t].constructors = s
         /\ tyData'[t].tid = tyData[t].tid
    BY <2>10, <2>11 DEF DataSet
  <2>13. Relisted(prog, Head(todo), tyData[t], tyData'[t], t)
    BY <1>1, <2>2, <2>3, <2>10, <2>12 DEF Relisted, Extended
  <2>14. prog[Head(todo).n].parent = t
    BY <2>2, <2>3
  <2>15. \A m \in DOMAIN prog : Relisted(prog, Head(todo), tyData[m], tyData'[m], m)
    BY <2>11, <2>13, <2>14, OneRelisted
  <2>16. \A m \in DOMAIN prog : tyData'[m].tid = tyData[m].tid
    BY <2>11, <2>12
  <2>. QED BY <1>1, <2>1, <2>5, <2>6, <2>7, <2>15, <2>16, ListControls
<1>. QED BY <1>2, <1>3

(***************************************************************************)
(* Methods, bodies and the end of a type                                   *)
(***************************************************************************)
\* A method that is not static, or has no body, is only added.
LEMMA PlainMethodControls ==
  ASSUME TablesTyped, Control, StackTyped, NEW n, Due("visit", n), prog[n].k = "method",
         ~(prog[n].static /\ ~prog[n].foreign), TodoFirst(<<Task("addMethod", n)>>),
         UNCHANGED <<functionStack, at>>, tyData' = tyData
  PROVE  Stepped
<1>. DEFINE y == Task("addMethod", n)
            ts == <<y>>
<1>1. /\ Head(todo).t = "visit" /\ Head(todo).n = n /\ Fits(prog, Head(todo)) /\ IsProgram(prog) /\ n \in DOMAIN prog
  BY DueIs
<1>2. Own(prog, n, y, "addMethod") /\ y.n = n /\ y.t = "addMethod"
  <2>1. "addMethod" \in TaskKinds
    BY DEF TaskKinds
  <2>. QED BY <2>1, OwnTask
<1>. HIDE DEF y
<1>3. Claims(prog, Head(todo)) = {n}
  <2>1. prog[n].foreign \/ Deferred(prog, n)
    BY DEF Deferred
  <2>. QED BY <1>1, <2>1, LeafClaims
<1>4. Stays(prog, Head(todo), ts)
  <2>1. Own(prog, Head(todo).n, y, "addMethod")
    BY <1>1, <1>2
  <2>. QED BY <1>1, <1>3, <2>1, StaysRest
<1>5. AddsLater(prog, Head(todo), ts)
  <2>1. Among(ts) = {y}
    BY AmongOne
  <2>. HIDE DEF ts
  <2>. QED BY <1>1, <1>2, <2>1 DEF AddsLater
<1>6. Steady(Head(todo)) /\ Quiet(prog, Head(todo))
  BY <1>1 DEF Steady, Ends, Quiet
<1>7. \A m \in DOMAIN prog : SameLists(tyData[m], tyData'[m]) /\ tyData[m].tid = tyData'[m].tid
  BY SameData
<1>8. \A m \in DOMAIN prog : Relisted(prog, Head(todo), tyData[m], tyData'[m], m) /\ tyData'[m].tid = tyData[m].tid
  BY <1>6, <1>7, QuietRelisted
<1>. QED BY <1>4, <1>5, <1>6, <1>8, ListControls DEF y

\* A static method is compiled at once and added afterwards.
LEMMA StaticMethodControls ==
  ASSUME TablesTyped, Control, StackTyped, NEW n, Due("visit", n), prog[n].k = "method",
         prog[n].static, TodoFirst(Body(n) \o <<Task("addMethod", n)>>), EnterFunction(n), tyData' = tyData
  PROVE  Stepped
<1>. DEFINE d == Task("addMethod", n)
            e == Task("endFunction", n)
            ts == (Visits(Kids(prog, n)) \o <<e>>) \o <<d>>
<1>1. /\ Head(todo).t = "visit" /\ Head(todo).n = n /\ Fits(prog, Head(todo)) /\ IsProgram(prog) /\ n \in DOMAIN prog
      /\ at = Where(prog, Head(todo))
  BY DueIs
<1>2. Own(prog, n, d, "addMethod") /\ d.n = n /\ d.t = "addMethod"
  <2>1. "addMethod" \in TaskKinds
    BY DEF TaskKinds
  <2>. QED BY <2>1, OwnTask
<1>3. Own(prog, n, e, "endFunction") /\ e.old = at
  <2>1. "endFunction" \in TaskKinds
    BY DEF TaskKinds
  <2>. QED BY <2>1, OwnTask
<1>4. TodoFirst(ts)
  BY DEF Body, VisitKids
<1>. HIDE DEF d, e
<1>5. ~Deferred(prog, n) /\ Headed(prog, n)
  BY DEF Deferred, Headed
<1>6. /\ Advance(prog, Head(todo), ts)
      /\ \A a \in Stacks(prog) :
           a # <<>> /\ Head(a) = e.old /\ Head(a) = Where(prog, Head(todo)) => Path(prog, ts, <<Head(todo).n>> \o a, a)
  <2>1. Own(prog, Head(todo).n, d, "addMethod") /\ Own(prog, Head(todo).n, e, "endFunction")
        /\ ~Deferred(prog, Head(todo).n) /\ prog[Head(todo).n].k = "method"
    BY <1>1, <1>2, <1>3, <1>5
  <2>. HIDE DEF ts
  <2>. QED BY <1>1, <2>1, StaticMethodTasks DEF ts
<1>. HIDE DEF ts
<1>7. \A a \in Stacks(prog) : a # <<>> /\ Head(a) = at => Path(prog, ts, <<n>> \o a, a)
  BY <1>1, <1>3, <1>6
<1>8. AddsLater(prog, Head(todo), ts)
  <2>1. \A y \in Among(ts) : y.t = "addMethod" => y.n = n
    <3>1. ~(prog[n].k = "type" /\ Head(todo).t = "visit")
      OBVIOUS
    <3>. QED BY <1>1, <1>6, <3>1, AddsOnly
  <2>. QED BY <1>1, <2>1 DEF AddsLater
<1>. QED BY <1>4, <1>5, <1>6, <1>7, <1>8, SameData, EnterControls

\* visitMethod.
LEMMA MethodControls ==
  ASSUME TablesTyped, Control, StackTyped, NEW n, VisitMethod(n)
  PROVE  Stepped
<1>1. Due("visit", n) /\ prog[n].k = "method"
  BY DEF VisitMethod, DueVisit
<1>2. CASE \E how : Fail(how)
  BY <1>2, ControlSame DEF Fail, Idle
<1>3. CASE ~\E how : Fail(how)
  <2>1. /\ IF prog[n].static /\ ~prog[n].foreign
           THEN TodoFirst(Body(n) \o <<Task("addMethod", n)>>) /\ EnterFunction(n)
           ELSE TodoFirst(<<Task("addMethod", n)>>) /\ UNCHANGED place
        /\ tyData' = tyData
    BY <1>3 DEF VisitMethod
  <2>2. CASE prog[n].static /\ ~prog[n].foreign
    BY <1>1, <2>1, <2>2, StaticMethodControls
  <2>3. CASE ~(prog[n].static /\ ~prog[n].foreign)
    BY <1>1, <2>1, <2>3, PlainMethodControls DEF place
  <2>. QED BY <2>2, <2>3
<1>. QED BY <1>2, <1>3

\* The bodies of methods and constructors, which finalize asks for.
LEMMA BodiesControl ==
  ASSUME TablesTyped, Control, StackTyped, NEW n, MethodBody(n) \/ ConstructorBody(n)
  PROVE  Stepped
<1>1. CASE MethodBody(n)
  <2>1. /\ Due("method", n) /\ EnterFunction(n) /\ tyData' = tyData
        /\ TodoFirst(VisitKids(n) \o <<Task("endFunction", n)>>)
    BY <1>1 DEF MethodBody, Body, tables
  <2>2. prog[n].k = "method"
    BY <2>1, DueIs DEF Fits
  <2>3. Headed(prog, n)
    BY <2>2 DEF Headed
  <2>. QED BY <2>1, <2>2, <2>3, BodyControls
<1>2. CASE ConstructorBody(n)
  <2>1. /\ Due("constructor", n) /\ EnterFunction(n) /\ tyData' = tyData
        /\ TodoFirst(VisitKids(n) \o <<Task("endConstructor", n)>>)
    BY <1>2 DEF ConstructorBody, tables
  <2>2. prog[n].k = "constructor"
    BY <2>1, DueIs DEF Fits
  <2>3. Headed(prog, n)
    BY <2>2 DEF Headed
  <2>. QED BY <2>1, <2>2, <2>3, BodyControls
<1>. QED BY <1>1, <1>2

\* The ends of functions, constructors and initialisers.
LEMMA EndsControl ==
  ASSUME TablesTyped, Control, StackTyped, NEW n, EndFunction(n) \/ EndConstructor(n) \/ EndInit(n)
  PROVE  Stepped
<1>1. PICK k \in {"endFunction", "endConstructor", "endInit"} :
        Due(k, n) /\ LeaveFunction /\ TodoFirst(<<>>) /\ tyData' = tyData
  <2>1. CASE EndFunction(n)
    BY <2>1 DEF EndFunction, tables
  <2>2. CASE EndConstructor(n)
    BY <2>2 DEF EndConstructor, tables
  <2>3. CASE EndInit(n)
    BY <2>3 DEF EndInit, tables
  <2>. QED BY <2>1, <2>2, <2>3
<1>. QED BY <1>1, LeaveControls

\* The end of finalize.
LEMMA KnownControls ==
  ASSUME TablesTyped, Control, StackTyped, NEW n, BecomeKnown(n)
  PROVE  Stepped
<1>1. Due("known", n) /\ TodoFirst(<<>>) /\ tyData' = tyData /\ UNCHANGED <<functionStack, at>>
  BY DEF BecomeKnown, place
<1>2. Head(todo).t = "known" /\ Head(todo).n = n /\ Fits(prog, Head(todo)) /\ IsProgram(prog)
  BY <1>1, DueIs
<1>3. Claims(prog, Head(todo)) = Visited(Head(todo))
  BY <1>2, LeafClaims DEF Visited
<1>4. Stays(prog, Head(todo), <<>>)
  BY <1>3, StaysNone
<1>5. Steady(Head(todo)) /\ Quiet(prog, Head(todo)) /\ prog[n].k # "method"
  BY <1>2 DEF Steady, Ends, Quiet, Fits
<1>6. \A m \in DOMAIN prog : SameLists(tyData[m], tyData'[m]) /\ tyData[m].tid = tyData'[m].tid
  BY <1>1, SameData
<1>. QED BY <1>1, <1>4, <1>5, <1>6, ControlStays

\* The initialiser begins.
LEMMA BeginControls ==
  ASSUME TablesTyped, Control, StackTyped, NEW n, BeginInit(n)
  PROVE  Stepped
<1>1. /\ Due("beginInit", n) /\ TodoFirst(<<>>) /\ tyData' = [tyData EXCEPT ![n].initExists = TRUE]
      /\ functionStack' = <<Len(prog) + n>> \o functionStack /\ at' = Len(prog) + n /\ prog' = prog
  BY DEF BeginInit, EnterFunction, InitOf, TodoFirst, given
<1>2. /\ todo # <<>> /\ Head(todo).t = "beginInit" /\ Head(todo).n = n /\ n \in DOMAIN prog /\ IsProgram(prog)
      /\ Fits(prog, Head(todo)) /\ functionStack \in Stacks(prog)
  BY <1>1, DueIs
<1>3. Claims(prog, Head(todo)) = Visited(Head(todo))
  BY <1>2, LeafClaims DEF Visited
<1>4. Advance(prog, Head(todo), <<>>)
  BY <1>3, AdvanceNone
<1>5. AddsLater(prog, Head(todo), <<>>)
  BY <1>2, AmongNone, AddsNothing
<1>6. Onward(prog, Head(todo), <<>>, functionStack, functionStack')
  BY <1>1, <1>2, OnwardInit
<1>7. Retyped(prog, Head(todo), tyData, tyData')
  <2>1. \A m \in DOMAIN prog : SameLists(tyData[m], tyData'[m]) /\ tyData[m].tid = tyData'[m].tid
    BY <1>1, <1>2, MarkIs
  <2>2. Quiet(prog, Head(todo))
    BY <1>2 DEF Quiet
  <2>. QED BY <1>2, <2>1, <2>2, QuietRetyped
<1>8. Control' /\ Moves
  BY <1>1, <1>2, <1>4, <1>5, <1>6, <1>7, ControlNext
<1>9. StackTyped'
  <2>. DEFINE f == Len(prog) + n
              b == <<f>> \o functionStack
  <2>1. f \in 1..(2 * Len(prog))
    BY <1>2, ProgTree
  <2>. HIDE DEF f
  <2>2. b \in Stacks(prog) /\ b # <<>> /\ Head(b) = f
    BY <1>2, <2>1, Onto
  <2>3. functionStack' = b /\ at' = f
    BY <1>1 DEF f
  <2>. HIDE DEF b
  <2>. QED BY <1>1, <2>2, <2>3 DEF StackTyped
<1>. QED BY <1>8, <1>9 DEF Stepped

\* The tasks of a type that is finalized.
Fields(n) == Only(FieldNodes(tyData[n].members), {m \in DOMAIN prog : prog[m].e # None})
NativeOf(nodes) == Only(nodes, {m \in DOMAIN prog : ~prog[m].foreign})
FinalTasks(n) ==
  Ordered(InitTasks(n, Fields(n), Task("beginInit", n), Task("endInit", n), at),
          TaskList("static", tyData[n].statics, at), TaskList("method", NativeOf(tyData[n].methods), at),
          TaskList("constructor", NativeOf(tyData[n].constructors), at), <<Task("known", n)>>)

\* Finalize, its tasks named.
LEMMA FinalizeIs ==
  ASSUME NEW n, Finalize(n)
  PROVE  /\ Due("finalize", n) /\ tyData' = [tyData EXCEPT ![n].laidOut = TRUE] /\ TodoFirst(FinalTasks(n))
         /\ UNCHANGED <<ids, blockTypes, blockScope, blockFuncs, signatures, place, code, status>>
<1>1. \A t, nodes : [i \in DOMAIN nodes |-> Task(t, nodes[i])] = TaskList(t, nodes, at)
  BY DEF Task, TaskList
<1>. DEFINE d == tyData[n]
            Tasks2(t, nodes) == [i \in DOMAIN nodes |-> Task(t, nodes[i])]
            fields == [i \in DOMAIN d.members |-> d.members[i].node]
            initialised == Only(fields, {m \in DOMAIN prog : prog[m].e # None})
            inits == IF initialised = <<>> THEN <<>> ELSE <<Task("beginInit", n)>>
                       \o Tasks2("initMember", initialised) \o <<Task("endInit", n)>>
            last == <<Task("known", n)>>
            ts == Ordered(inits, Tasks2("static", d.statics), Tasks2("method", NativeOf(d.methods)),
                          Tasks2("constructor", NativeOf(d.constructors)), last)
<1>2. /\ Due("finalize", n) /\ tyData' = [tyData EXCEPT ![n].laidOut = TRUE] /\ TodoFirst(ts)
      /\ UNCHANGED <<ids, blockTypes, blockScope, blockFuncs, signatures, place, code, status>>
  BY DEF Finalize, NativeOf
<1>3. initialised = Fields(n)
  BY DEF Fields, FieldNodes
<1>4. inits = InitTasks(n, Fields(n), Task("beginInit", n), Task("endInit", n), at)
  <2>. HIDE DEF initialised
  <2>. QED BY <1>1, <1>3 DEF InitTasks
<1>5. ts = FinalTasks(n)
  <2>. HIDE DEF inits
  <2>. QED BY <1>1, <1>4 DEF FinalTasks
<1>. QED BY <1>2, <1>5

\* finalize.
LEMMA FinalizeControls ==
  ASSUME TablesTyped, Control, StackTyped, NEW n, Finalize(n)
  PROVE  Stepped
<1>. DEFINE b == Task("beginInit", n)
            e == Task("endInit", n)
            w == Task("known", n)
            ms == Fields(n)
            ss == tyData[n].statics
            fs == NativeOf(tyData[n].methods)
            cs == NativeOf(tyData[n].constructors)
            M == MembersOf(prog, todo, n, "member", FALSE) \cap {m \in DOMAIN prog : prog[m].e # None}
            S == MembersOf(prog, todo, n, "member", TRUE)
            F == MethodsOf(prog, todo, n) \cap {m \in DOMAIN prog : ~prog[m].foreign}
            C == ConstructorsOf(prog, todo, n) \cap {m \in DOMAIN prog : ~prog[m].foreign}
            ts == FinalTasks(n)
<1>1. Due("finalize", n) /\ tyData' = [tyData EXCEPT ![n].laidOut = TRUE] /\ TodoFirst(ts) /\ UNCHANGED place
  BY FinalizeIs
<1>2. /\ todo # <<>> /\ Head(todo).t = "finalize" /\ Head(todo).n = n /\ n \in DOMAIN prog /\ IsProgram(prog)
      /\ Fits(prog, Head(todo)) /\ Queue(prog, todo) /\ at \in 0..(2 * Len(prog)) /\ at = Where(prog, Head(todo))
  BY <1>1, DueIs
<1>3. prog[n].k = "type"
  BY <1>2 DEF Fits
<1>4. Own(prog, n, b, "beginInit") /\ Own(prog, n, e, "endInit") /\ e.old = at /\ Own(prog, n, w, "known")
  <2>1. "beginInit" \in TaskKinds /\ "endInit" \in TaskKinds /\ "known" \in TaskKinds
    BY DEF TaskKinds
  <2>. QED BY <1>1, <1>3, <2>1, OwnTask
<1>5. Listed(prog, todo, tyData[n], n)
  BY <1>2, <1>3 DEF Control, Controlled, TypesKept
<1>6. Seen(prog, todo) \subseteq DOMAIN prog /\ DOMAIN prog \subseteq Nat
  BY ProgTree DEF Seen
<1>7. M \subseteq DOMAIN prog /\ S \subseteq DOMAIN prog /\ F \subseteq DOMAIN prog /\ C \subseteq DOMAIN prog
  BY <1>6 DEF MembersOf
<1>8. AscendsTo(ms, M)
  <2>. DEFINE R == MembersOf(prog, todo, n, "member", FALSE)
              s == FieldNodes(tyData[n].members)
  <2>1. AscendsTo(s, R) /\ R \in SUBSET Nat
    BY <1>5, <1>6 DEF Listed, MembersOf
  <2>. HIDE DEF R, s
  <2>2. AscendsTo(Only(s, {m \in DOMAIN prog : prog[m].e # None}), R \cap {m \in DOMAIN prog : prog[m].e # None})
    BY <2>1, AscendsOnly
  <2>. QED BY <2>2 DEF Fields, R, s
<1>9. AscendsTo(ss, S)
  BY <1>5 DEF Listed
<1>10. AscendsTo(fs, F)
  <2>. DEFINE R == MethodsOf(prog, todo, n)
              s == tyData[n].methods
  <2>1. AscendsTo(s, R) /\ R \in SUBSET Nat
    BY <1>5, <1>6 DEF Listed, MethodsOf, MembersOf
  <2>. HIDE DEF R, s
  <2>2. AscendsTo(Only(s, {m \in DOMAIN prog : ~prog[m].foreign}), R \cap {m \in DOMAIN prog : ~prog[m].foreign})
    BY <2>1, AscendsOnly
  <2>. QED BY <2>2 DEF NativeOf, R, s
<1>11. AscendsTo(cs, C)
  <2>. DEFINE R == ConstructorsOf(prog, todo, n)
              s == tyData[n].constructors
  <2>1. AscendsTo(s, R) /\ R \in SUBSET Nat
    BY <1>5, <1>6 DEF Listed, ConstructorsOf
  <2>. HIDE DEF R, s
  <2>2. AscendsTo(Only(s, {m \in DOMAIN prog : ~prog[m].foreign}), R \cap {m \in DOMAIN prog : ~prog[m].foreign})
    BY <2>1, AscendsOnly
  <2>. QED BY <2>2 DEF NativeOf, R, s
<1>12. /\ \A c \in M : MadeOf(prog, n, "initMember", c)
       /\ \A c \in S : MadeOf(prog, n, "static", c)
       /\ \A c \in F : MadeOf(prog, n, "method", c)
       /\ \A c \in C : MadeOf(prog, n, "constructor", c)
  BY DEF MadeOf, MembersOf, MethodsOf, ConstructorsOf
<1>13. \A c \in DOMAIN prog : prog[c].parent = n /\ Deferred(prog, c) /\ Inner(prog, c) # {} => c \in F \cup C
  <2>. SUFFICES ASSUME NEW c \in DOMAIN prog, prog[c].parent = n, Deferred(prog, c), Inner(prog, c) # {}
                PROVE  c \in F \cup C
    OBVIOUS
  <2>1. c \in Seen(prog, todo) /\ \A y \in Among(todo) : y.t = "addMethod" => prog[y.n].parent # n
    BY <1>2, FinalizeSeesAll
  <2>2. ~prog[c].foreign
    BY <1>2, Placing
  <2>3. prog[c].static \in BOOLEAN
    BY <1>2, ProgramFacts DEF TreeNodes
  <2>. QED BY <2>1, <2>2, <2>3 DEF Deferred, MethodsOf, MembersOf, ConstructorsOf
<1>14. ts = Ordered(InitTasks(Head(todo).n, ms, b, e, at), TaskList("static", ss, at), TaskList("method", fs, at),
                    TaskList("constructor", cs, at), <<w>>)
  BY <1>2 DEF FinalTasks
<1>. HIDE DEF b, e, w, ms, ss, fs, cs, M, S, F, C, ts
<1>15. /\ Advance(prog, Head(todo), ts)
       /\ \A a \in Stacks(prog) : a # <<>> /\ Head(a) = at /\ Head(a) = Where(prog, Head(todo)) => Path(prog, ts, a, a)
  <2>1. /\ \A c \in M : MadeOf(prog, Head(todo).n, "initMember", c)
        /\ \A c \in S : MadeOf(prog, Head(todo).n, "static", c)
        /\ \A c \in F : MadeOf(prog, Head(todo).n, "method", c)
        /\ \A c \in C : MadeOf(prog, Head(todo).n, "constructor", c)
    BY <1>2, <1>12
  <2>2. \A c \in DOMAIN prog : prog[c].parent = Head(todo).n /\ Deferred(prog, c) /\ Inner(prog, c) # {} => c \in F \cup C
    BY <1>2, <1>13
  <2>3. /\ Own(prog, Head(todo).n, b, "beginInit") /\ Own(prog, Head(todo).n, e, "endInit")
        /\ Own(prog, Head(todo).n, w, "known")
    BY <1>2, <1>4
  <2>4. M \in SUBSET DOMAIN prog /\ S \in SUBSET DOMAIN prog /\ F \in SUBSET DOMAIN prog /\ C \in SUBSET DOMAIN prog
    BY <1>7
  <2>. QED BY <1>2, <1>4, <1>8, <1>9, <1>10, <1>11, <1>14, <2>1, <2>2, <2>3, <2>4, FinalizeTasks
<1>16. Stays(prog, Head(todo), ts)
  BY <1>2, <1>15 DEF Stays, Turn
<1>17. Steady(Head(todo)) /\ Quiet(prog, Head(todo))
  BY <1>2 DEF Steady, Ends, Quiet
<1>18. \A m \in DOMAIN prog : SameLists(tyData[m], tyData'[m]) /\ tyData[m].tid = tyData'[m].tid
  BY <1>1, <1>2, MarkIs
<1>19. prog[n].k # "method" /\ UNCHANGED <<functionStack, at>>
  BY <1>1, <1>3 DEF place
<1>. HIDE DEF ts
<1>. DEFINE k == "finalize"
<1>20. Due(k, n) /\ k # "visit" /\ TodoFirst(ts)
  BY <1>1
<1>. HIDE DEF k
<1>. QED BY <1>16, <1>17, <1>18, <1>19, <1>20, ControlStays

(***************************************************************************)
(* Every step, and the start                                               *)
(***************************************************************************)
LEMMA NextControls ==
  ASSUME TablesTyped, Control, StackTyped, Next
  PROVE  Stepped
<1>1. CASE Finish
  BY <1>1, ControlSame DEF Finish, Idle
<1>2. ASSUME NEW n \in DOMAIN prog, Statement(n) PROVE Stepped
  BY <1>2, DeclarationControls, InsertsControl, BlockControls, FunctionControls, EndsControl, ReturnControls
  DEF Statement
<1>3. ASSUME NEW n \in DOMAIN prog, TypeStep(n) PROVE Stepped
  BY <1>3, TypeControls, MemberControls, MethodControls, AddControls, ConstructorControls, FinalizeControls,
     BeginControls, InsertsControl, EndsControl, BodiesControl, KnownControls
  DEF TypeStep
<1>. QED BY <1>1, <1>2, <1>3 DEF Next

\* At the start the root is due, in main.
LEMMA InitControls ==
  ASSUME Init
  PROVE  Control /\ StackTyped
<1>. DEFINE x == Visit(1)
<1>1. IsProgram(prog) /\ DOMAIN prog = 1..Len(prog) /\ Len(prog) \in Nat \ {0} /\ 1 \in DOMAIN prog
      /\ prog[1].k = "block"
  BY ProgramsAssumption, ProgramFacts DEF Init
<1>2. todo = <<x>> /\ functionStack = <<1>> /\ at = 1 /\ \A n \in DOMAIN prog : tyData[n] = NoData
  BY DEF Init
<1>3. x.t = "visit" /\ x.n = 1 /\ x.old = 0 /\ x = [t |-> "visit", n |-> 1, old |-> 0]
  BY DEF Visit
<1>4. Fits(prog, x)
  <2>1. "visit" \in TaskKinds /\ 0 \in 0..(2 * Len(prog))
    BY <1>1 DEF TaskKinds
  <2>. QED BY <1>1, <1>3, <2>1 DEF Fits
<1>. DEFINE q == <<x>>
<1>. HIDE DEF x
<1>5. Queue(prog, q) /\ Among(q) = {x}
  BY <1>4, QueueOne, AmongOne
<1>6. 1 \in 1..(2 * Len(prog)) /\ <<1>> \in Stacks(prog)
  BY <1>1 DEF Stacks
<1>7. Path(prog, q, <<1>>, <<1>>)
  <2>1. Turn(prog, x, <<1>>, <<1>>)
    BY <1>3 DEF Turn, Where, Ends
  <2>. QED BY <1>6, <2>1, PathOne
<1>8. Claims(prog, x) = DOMAIN prog
  <2>1. ~Deferred(prog, 1)
    BY <1>1 DEF Deferred
  <2>2. \A m \in DOMAIN prog : Within(prog, m, 1)
    BY <1>1, WithinOrder
  <2>. QED BY <1>1, <1>3, <2>1, <2>2 DEF Claims, Inner
<1>. HIDE DEF q
<1>9. Seen(prog, q) = {}
  BY <1>5, <1>8 DEF Seen
<1>10. SeenBefore(prog, q)
  BY <1>9 DEF SeenBefore
<1>11. TypesKept(prog, q, tyData)
  <2>. SUFFICES ASSUME NEW n \in DOMAIN prog PROVE Listed(prog, q, NoData, n) /\ NoData.tid = 0
    BY <1>2, <1>9 DEF TypesKept
  <2>1. AscendsTo(<<>>, {})
    BY DEF AscendsTo
  <2>2. FieldNodes(<<>>) = <<>>
    BY DEF FieldNodes
  <2>. QED BY <1>9, <2>1, <2>2 DEF Listed, NoData, MembersOf, MethodsOf, ConstructorsOf
<1>12. Control
  BY <1>2, <1>5, <1>6, <1>7, <1>10, <1>11 DEF Control, Controlled, q
<1>13. StackTyped
  BY <1>2, <1>6 DEF StackTyped
<1>. QED BY <1>12, <1>13

=============================================================================
