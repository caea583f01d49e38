------------------------------- MODULE CfgProofs -------------------------------
(***************************************************************************)
(* Proofs about the layout of basic blocks, for every set of trees.        *)
(*                                                                         *)
(* The lemmas speak of a tree t, blocks bs, the insert point a, functions  *)
(* fs, break targets xs and visits s, without primes: what an action does  *)
(* is a few of these steps (an instruction, a new block, a visit pushed,   *)
(* turned or popped, a block erased), each of which keeps LayoutOK.        *)
(***************************************************************************)
EXTENDS CfgRun, NatFacts, SequenceTheorems

(***************************************************************************)
(* Trees                                                                   *)
(***************************************************************************)
\* What IsTree says of one node.
LEMMA TreeFacts ==
  ASSUME NEW t, IsTree(t), NEW n \in DOMAIN t
  PROVE  /\ DOMAIN t = 1..Len(t) /\ Len(t) \in Nat
         /\ t[n] \in NodesOf(Len(t))
         /\ t[n].parent \in 0..(n - 1)
         /\ n # 1 => t[n].parent \in DOMAIN t
         /\ \A c \in ChildrenOf(t, n) : t[c].parent = n
<1>1. t \in Seq(NodesOf(Len(t))) /\ LinkedIn(t, n)
  BY DEF IsTree
<1>2. DOMAIN t = 1..Len(t) /\ Len(t) \in Nat /\ t[n] \in NodesOf(Len(t))
  BY <1>1
<1>3. t[n].parent \in 0..Len(t)
  BY <1>2 DEF NodesOf
<1>. QED BY <1>1, <1>2, <1>3 DEF LinkedIn

\* f is the climb that FindAbove defines.
ClimbOf(t, k, f) ==
  f = [m \in 0..Len(t) |-> IF m = 0 THEN 0 ELSE IF t[m].k = k THEN m ELSE f[t[m].parent]]

\* Climbing from node to parent is defined.
LEMMA ClimbExists ==
  ASSUME NEW t, IsTree(t), NEW k
  PROVE  \E f \in [0..Len(t) -> 0..Len(t)] : ClimbOf(t, k, f)
<1>. DEFINE N == Len(t)
            Stop == {m \in 0..N : m = 0 \/ t[m].k = k}
            next == [m \in 0..N |-> t[m].parent]
            here == [m \in 0..N |-> m]
            V == 0..N
<1>1. DOMAIN t = 1..N /\ N \in Nat /\ \A m \in 1..N : t[m].parent \in 0..(m - 1)
  BY TreeFacts
<1>2. Descends(N, Stop, next)
  <2>. SUFFICES ASSUME NEW m \in 0..N, m \notin Stop PROVE next[m] \in 0..(m - 1)
    BY DEF Descends
  <2>1. m \in 1..N
    BY <1>1
  <2>. QED BY <2>1, <1>1
<1>3. here \in [0..N -> V] /\ N \in Nat
  BY <1>1
<1>4. \E f \in [0..N -> V] : ClimbsTo(N, Stop, next, here, f)
  <2>. HIDE DEF N, Stop, next, here, V
  <2>. QED BY <1>2, <1>3, ClimbDefined
<1>5. PICK f \in [0..N -> 0..N] :
        \A m \in 0..N : f[m] = IF m \in Stop THEN here[m] ELSE f[next[m]]
  BY <1>4 DEF ClimbsTo
<1>6. \A m \in 0..N : f[m] = IF m = 0 THEN 0 ELSE IF t[m].k = k THEN m ELSE f[t[m].parent]
  BY <1>5
<1>. QED BY <1>5, <1>6 DEF ClimbOf

\* findAbove looks at the parent, and goes on from there.
LEMMA FindAboveStep ==
  ASSUME NEW t, IsTree(t), NEW n \in DOMAIN t, NEW k
  PROVE  LET p == t[n].parent IN
         /\ FindAbove(t, n, k) \in 0..Len(t)
         /\ FindAbove(t, n, k) =
              IF p = 0 THEN 0 ELSE IF t[p].k = k THEN p ELSE FindAbove(t, p, k)
<1>. DEFINE N == Len(t)
            climb == CHOOSE f : ClimbOf(t, k, f)
<1>1. DOMAIN t = 1..N /\ N \in Nat /\ \A m \in 1..N : t[m].parent \in 0..(m - 1)
  BY TreeFacts
<1>2. ClimbOf(t, k, climb)
  BY ClimbExists
<1>3. \A m \in 0..N : climb[m] = IF m = 0 THEN 0 ELSE IF t[m].k = k THEN m ELSE climb[t[m].parent]
  BY <1>2 DEF ClimbOf
<1>4. \A m \in 0..N : m < n => climb[m] \in 0..N
  <2>. DEFINE S == {m \in 0..N : climb[m] \in 0..N}
  <2>1. ASSUME NEW m \in 0..N, 0..(m - 1) \subseteq S PROVE m \in S
    <3>1. CASE m = 0
      BY <3>1, <1>3
    <3>2. CASE m # 0
      <4>1. m \in 1..N /\ t[m].parent \in 0..(m - 1)
        BY <3>2, <1>1
      <4>2. climb[t[m].parent] \in 0..N
        BY <4>1, <2>1
      <4>. QED BY <4>1, <4>2, <1>3
    <3>. QED BY <3>1, <3>2
  <2>2. S \in SUBSET (0..N) /\ N \in Nat
    BY <1>1
  <2>3. S = 0..N
    <3>. HIDE DEF S
    <3>. QED BY <2>1, <2>2, SetInduction
  <2>. QED BY <2>3
<1>5. FindAbove(t, n, k) = climb[t[n].parent]
  BY DEF FindAbove, ClimbOf
<1>6. t[n].parent \in 0..N /\ t[n].parent < n
  BY <1>1
<1>7. t[n].parent # 0 => FindAbove(t, t[n].parent, k) = climb[t[t[n].parent].parent]
  BY DEF FindAbove, ClimbOf
<1>. HIDE DEF climb
<1>. QED BY <1>3, <1>4, <1>5, <1>6, <1>7

(***************************************************************************)
(* The inductive invariant.  It is stated of a tree t, basic blocks bs,    *)
(* break targets xs and visits s, so that the lemmas need no primes.       *)
(***************************************************************************)
\* Instructions, blocks and visits, when there are n blocks.
Instrs(t, n) ==
  {i \in [op : Terminators \cup {"expr", "init", "update"}, node : {0} \cup DOMAIN t,
          to : Seq(1..n)] :
     (i.op = "jump" => Len(i.to) = 1) /\ (i.op = "test" => Len(i.to) \in 1..2)}
BlockSet(t, n) == [fn : DOMAIN t, code : Seq(Instrs(t, n)), live : BOOLEAN]
BlockFrames(t, n) ==
  [f : {"block"}, node : DOMAIN t, todo : Seq(DOMAIN t), old : {0} \cup 1..n, made : 1..n]
LoopFrames(t, n) ==
  [f : {"loop"}, node : DOMAIN t, todo : Seq(DOMAIN t), made : 1..n, after : 1..n]
FunctionFrames(t) == [f : {"function"}, node : DOMAIN t]
SuccessFrames(t, n) ==
  [f : {"success"}, node : DOMAIN t, old : 1..n, after : {0} \cup 1..n]
FailiureFrames(t, n) ==
  [f : {"failiure"}, node : DOMAIN t, old : 1..n, made : 1..n, after : 1..n, outer : BOOLEAN]
NextFrames(t, n) ==
  [f : {"next"}, node : DOMAIN t, old : 1..n, made : 1..n, after : 1..n, outer : BOOLEAN,
   other : 1..n]
Frames(t, n) ==
  BlockFrames(t, n) \cup LoopFrames(t, n) \cup FunctionFrames(t) \cup SuccessFrames(t, n)
    \cup FailiureFrames(t, n) \cup NextFrames(t, n)

\* Where the instructions of bs jump to.
Jumped(bs) ==
  {c \in DOMAIN bs : \E b \in DOMAIN bs : \E i \in DOMAIN bs[b].code : JumpsTo(bs[b].code[i], c)}
\* An erased block is never the first of its function.
BlocksOK(t, bs) ==
  /\ bs \in Seq(BlockSet(t, Len(bs)))
  /\ \A b \in DOMAIN bs : ~bs[b].live => \E c \in DOMAIN bs : c < b /\ bs[c].fn = bs[b].fn

\* The function that node n is in: the nearest above it, or main.
FnOf(t, n) ==
  LET f == FindAbove(t, n, "function") IN IF f = 0 THEN 1 ELSE f
\* The parent of the nodes that visit w visits.
Body(t, w) == IF w.f = "loop" THEN t[w.node].code ELSE w.node
\* The loop that a break below n leaves knows where to go.
LoopOpen(t, xs, n) ==
  LET loop == FindAbove(t, n, "loop") IN loop # 0 => xs[loop] # 0

InBranch(w) == w.f \in {"success", "failiure", "next"}
\* The blocks that the rest of visit w will jump to.
Targets(w) ==
  CASE w.f = "loop" -> {w.made, w.after}
    [] w.f = "success" -> {w.after} \ {0}
    [] w.f = "failiure" -> {w.made, w.after}
    [] w.f = "next" -> {w.made, w.after, w.other}
    [] OTHER -> {}
\* Those it refers to in its function, and all.
Owned(w) ==
  Targets(w) \cup (IF w.f = "block" THEN {w.made} ELSE IF InBranch(w) THEN {w.old} ELSE {})
Mentioned(w) == Owned(w) \cup (IF w.f = "block" THEN {w.old} \ {0} ELSE {})
\* Visit w is the outermost of a branch and may erase w.after.
MayErase(w) == w.f \in {"failiure", "next"} /\ w.outer
Exits(xs) == {xs[n] : n \in DOMAIN xs} \ {0}

NodeFits(t, w) ==
  /\ w.f = "block" => t[w.node].k = "block" /\ (w.old = 0 => w.node = 1)
  /\ w.f = "loop" => t[w.node].k = "loop"
  /\ w.f = "function" => t[w.node].k = "function"
  /\ InBranch(w) => t[w.node].k = "branch"
  /\ w.f \in {"block", "loop"} => \A i \in DOMAIN w.todo : t[w.todo[i]].parent = Body(t, w)
FrameOK(t, bs, xs, w) ==
  /\ w \in Frames(t, Len(bs))
  /\ NodeFits(t, w)
  /\ \A b \in Mentioned(w) : bs[b].live
  /\ \A b \in Owned(w) : bs[b].fn = FnOf(t, w.node)
  /\ w.f = "block" /\ w.old # 0 => bs[w.old].fn = FnOf(t, t[w.node].parent)
  /\ LoopOpen(t, xs, w.node) /\ (w.f = "loop" => xs[w.node] # 0)
  /\ w.f = "block" => w.made \notin Exits(xs) /\ w.made \notin Jumped(bs)
  /\ MayErase(w) => w.old < w.after /\ w.after \notin Exits(xs)
\* Visit v was begun by visit w, or by one that v's visits are begun by.
Apart(v, w) ==
  /\ v.f = "block" => w.f # "block" \/ w.made # v.made
  /\ v.f = "block" => v.made \notin Targets(w)
  /\ w.f = "block" => w.made \notin Targets(v)
  /\ MayErase(v) => v.after \notin Mentioned(w)
\* Visit v was begun by visit w.
Under(t, v, w) ==
  /\ t[v.node].parent = Body(t, w)
  /\ InBranch(v) => w.f \notin {"success", "failiure"}
FramesOK(t, bs, xs, s) ==
  /\ \A k \in DOMAIN s : FrameOK(t, bs, xs, s[k])
  /\ \A j, k \in DOMAIN s : j < k => Apart(s[j], s[k])
  /\ \A k \in DOMAIN s : IF k = Len(s) THEN s[k].node = 1 ELSE Under(t, s[k], s[k + 1])

ExitsOK(t, bs, xs) ==
  /\ xs \in [DOMAIN t -> {0} \cup DOMAIN bs]
  /\ \A b \in Exits(xs) : bs[b].live
\* The functions that are open when the innermost is n.
StackOK(t, fs, n) ==
  /\ fs \in Seq(DOMAIN t) /\ fs # <<>> /\ fs[1] = n /\ fs[Len(fs)] = 1
  /\ \A i \in 1..(Len(fs) - 1) : t[fs[i]].k = "function" /\ fs[i + 1] = FnOf(t, fs[i])
\* The function the builder is in, and the one that is open.
BuilderIn(t, s) == IF s = <<>> THEN 1 ELSE FnOf(t, s[1].node)
OpenIn(t, s) ==
  IF s # <<>> /\ s[1].f = "function" THEN s[1].node ELSE BuilderIn(t, s)
\* What compileBlock returned is a block of this function that nothing else is
\* going to fill.
ResultOK(t, bs, s, r) ==
  s # <<>> /\ s[1].f \in {"success", "failiure"} =>
    /\ r \in DOMAIN bs /\ bs[r].live /\ bs[r].fn = FnOf(t, s[1].node)
    /\ \A k \in DOMAIN s : s[k].f = "block" => s[k].made # r

LayoutOK(t, bs, a, fs, xs, s, r) ==
  /\ BlocksOK(t, bs) /\ ExitsOK(t, bs, xs)
  /\ s \in Seq(Frames(t, Len(bs))) /\ FramesOK(t, bs, xs, s)
  /\ a \in DOMAIN bs /\ bs[a].live /\ bs[a].fn = BuilderIn(t, s)
  /\ StackOK(t, fs, OpenIn(t, s))
  /\ r \in {0} \cup DOMAIN bs /\ ResultOK(t, bs, s, r)
LayoutInv ==
  /\ prog \in Programs /\ blockReturn \in Builds
  /\ LayoutOK(prog, blocks, at, functionStack, exitBlock, work, result)
  /\ status \in {"compiling", "compiled", "error", "internal"}

\* The generated module is run only if it was verified, and then goes from
\* instruction to instruction of blocks that were not erased.
RunInv ==
  /\ pc \in [block : {0} \cup DOMAIN blocks, i : Nat] /\ took \in BOOLEAN
  /\ status = "compiled" => Verifies(blocks)
  /\ status # "compiled" => pc = NotStarted
  /\ Running => blocks[pc.block].live /\ pc.i \in DOMAIN blocks[pc.block].code
IInv == LayoutInv /\ RunInv

(***************************************************************************)
(* Nodes, their functions and their loops                                  *)
(***************************************************************************)
\* A node's function is its parent, or the parent's.
LEMMA FnStep ==
  ASSUME NEW t, IsTree(t), NEW n \in DOMAIN t
  PROVE  /\ FnOf(t, n) \in DOMAIN t
         /\ n = 1 => FnOf(t, n) = 1
         /\ n # 1 => LET p == t[n].parent IN
                     FnOf(t, n) = IF t[p].k = "function" THEN p ELSE FnOf(t, p)
<1>1. DOMAIN t = 1..Len(t) /\ Len(t) \in Nat
      /\ t[n].parent \in 0..(n - 1) /\ (n # 1 => t[n].parent \in DOMAIN t)
  BY TreeFacts
<1>. QED BY <1>1, FindAboveStep DEF FnOf

\* A node's loop is its parent, or the parent's.
LEMMA LoopStep ==
  ASSUME NEW t, IsTree(t), NEW xs, NEW n \in DOMAIN t
  PROVE  /\ FindAbove(t, n, "loop") \in {0} \cup DOMAIN t
         /\ n = 1 => LoopOpen(t, xs, n)
         /\ n # 1 => LET p == t[n].parent IN
                     LoopOpen(t, xs, n) <=> IF t[p].k = "loop" THEN xs[p] # 0 ELSE LoopOpen(t, xs, p)
<1>1. DOMAIN t = 1..Len(t) /\ Len(t) \in Nat
      /\ t[n].parent \in 0..(n - 1) /\ (n # 1 => t[n].parent \in DOMAIN t)
  BY TreeFacts
<1>. QED BY <1>1, FindAboveStep DEF LoopOpen

\* The fields of the visits, kind by kind.
LEMMA FrameFields ==
  ASSUME NEW t, NEW n, NEW w \in Frames(t, n)
  PROVE  /\ w.node \in DOMAIN t
         /\ w.f \in {"block", "loop", "function", "success", "failiure", "next"}
         /\ w.f = "block" => w \in BlockFrames(t, n)
         /\ w.f = "loop" => w \in LoopFrames(t, n)
         /\ w.f = "function" => w \in FunctionFrames(t)
         /\ w.f = "success" => w \in SuccessFrames(t, n)
         /\ w.f = "failiure" => w \in FailiureFrames(t, n)
         /\ w.f = "next" => w \in NextFrames(t, n)
         /\ Targets(w) \subseteq 1..n /\ Owned(w) \subseteq 1..n /\ Mentioned(w) \subseteq 1..n
<1>. USE DEF BlockFrames, LoopFrames, FunctionFrames, SuccessFrames, FailiureFrames, NextFrames,
             Targets, Owned, Mentioned, InBranch
<1>1. CASE w \in BlockFrames(t, n)
  BY <1>1
<1>2. CASE w \in LoopFrames(t, n)
  BY <1>2
<1>3. CASE w \in FunctionFrames(t)
  BY <1>3
<1>4. CASE w \in SuccessFrames(t, n)
  BY <1>4
<1>5. CASE w \in FailiureFrames(t, n)
  BY <1>5
<1>6. CASE w \in NextFrames(t, n)
  BY <1>6
<1>. QED BY <1>1, <1>2, <1>3, <1>4, <1>5, <1>6 DEF Frames

\* Visits stay visits when there are more blocks.
LEMMA FramesGrow ==
  ASSUME NEW t, NEW n \in Nat, NEW m \in Nat, n <= m
  PROVE  Frames(t, n) \subseteq Frames(t, m)
<1>1. 1..n \subseteq 1..m
  OBVIOUS
<1>2. BlockFrames(t, n) \subseteq BlockFrames(t, m)
  BY <1>1 DEF BlockFrames
<1>3. LoopFrames(t, n) \subseteq LoopFrames(t, m)
  BY <1>1 DEF LoopFrames
<1>4. SuccessFrames(t, n) \subseteq SuccessFrames(t, m)
  BY <1>1 DEF SuccessFrames
<1>5. FailiureFrames(t, n) \subseteq FailiureFrames(t, m)
  BY <1>1 DEF FailiureFrames
<1>6. NextFrames(t, n) \subseteq NextFrames(t, m)
  BY <1>1 DEF NextFrames
<1>. QED BY <1>2, <1>3, <1>4, <1>5, <1>6 DEF Frames

\* What a node that visit w visits, or began at, inherits from it.
LEMMA BodyFacts ==
  ASSUME NEW t, IsTree(t), NEW bs, NEW xs, NEW w, FrameOK(t, bs, xs, w),
         NEW n \in DOMAIN t, t[n].parent = Body(t, w)
  PROVE  /\ Body(t, w) \in DOMAIN t /\ n # 1
         /\ FnOf(t, Body(t, w)) = FnOf(t, w.node)
         /\ FnOf(t, n) = IF w.f = "function" THEN w.node ELSE FnOf(t, w.node)
         /\ LoopOpen(t, xs, n)
<1>1. w.node \in DOMAIN t /\ NodeFits(t, w) /\ LoopOpen(t, xs, w.node)
      /\ (w.f = "loop" => xs[w.node] # 0)
      /\ w.f \in {"block", "loop", "function", "success", "failiure", "next"}
  BY FrameFields DEF FrameOK
<1>2. DOMAIN t = 1..Len(t) /\ (n = 1 => t[n].parent = 0)
  BY TreeFacts DEF IsTree
<1>3. CASE w.f = "loop"
  <2>. DEFINE c == t[w.node].code
  <2>1. c \in DOMAIN t /\ t[c].k = "block" /\ t[w.node].k = "loop" /\ t[c].parent = w.node
    <3>1. t[w.node].k = "loop" /\ ShapeOf(t, w.node) /\ t[w.node] \in NodesOf(Len(t))
      BY <1>1, <1>3, TreeFacts DEF NodeFits, IsTree
    <3>2. c \in DOMAIN t
      BY <3>1, <1>2 DEF NodesOf
    <3>3. t[c].k = "block"
      BY <3>1 DEF ShapeOf
    <3>4. c \in ChildrenOf(t, w.node)
      BY <3>1, <3>2, <1>2 DEF ChildrenOf
    <3>. QED BY <3>1, <3>2, <3>3, <3>4, <1>1, TreeFacts
  <2>2. Body(t, w) = c
    BY <1>3 DEF Body
  <2>3. c # 1 /\ n # 1
    BY <2>1, <2>2, <1>1, <1>2, TreeFacts
  <2>. QED BY <2>1, <2>2, <2>3, <1>1, <1>3, FnStep, LoopStep
<1>4. CASE w.f # "loop"
  <2>1. Body(t, w) = w.node /\ n # 1
    BY <1>1, <1>2, <1>4 DEF Body
  <2>2. t[w.node].k # "loop" /\ (t[w.node].k = "function" <=> w.f = "function")
    BY <1>1, <1>4 DEF NodeFits, InBranch
  <2>. QED BY <2>1, <2>2, <1>1, FnStep, LoopStep
<1>. QED BY <1>3, <1>4

(***************************************************************************)
(* Blocks                                                                  *)
(***************************************************************************)
\* So do blocks.
LEMMA BlockSetGrows ==
  ASSUME NEW t, NEW n \in Nat, NEW m \in Nat, n <= m
  PROVE  BlockSet(t, n) \subseteq BlockSet(t, m)
<1>1. 1..n \subseteq 1..m
  OBVIOUS
<1>2. Instrs(t, n) \subseteq Instrs(t, m)
  BY <1>1 DEF Instrs
<1>3. ASSUME NEW c \in Seq(Instrs(t, n)) PROVE c \in Seq(Instrs(t, m))
  BY <1>2
<1>. QED BY <1>3 DEF BlockSet

\* The fields of the blocks.
LEMMA BlockFields ==
  ASSUME NEW t, NEW bs, BlocksOK(t, bs)
  PROVE  /\ DOMAIN bs = 1..Len(bs) /\ Len(bs) \in Nat
         /\ \A b \in DOMAIN bs :
              /\ bs[b] \in BlockSet(t, Len(bs))
              /\ bs[b].fn \in DOMAIN t /\ bs[b].live \in BOOLEAN
              /\ bs[b].code \in Seq(Instrs(t, Len(bs)))
              /\ Len(bs[b].code) \in Nat /\ DOMAIN bs[b].code = 1..Len(bs[b].code)
<1>1. bs \in Seq(BlockSet(t, Len(bs)))
  BY DEF BlocksOK
<1>2. DOMAIN bs = 1..Len(bs) /\ Len(bs) \in Nat /\ \A b \in DOMAIN bs : bs[b] \in BlockSet(t, Len(bs))
  BY <1>1
<1>. QED BY <1>2 DEF BlockSet

\* bs2 has the blocks of bs, and jumps where bs does or to a block of J.
Grown(t, bs, bs2, J) ==
  /\ BlocksOK(t, bs2)
  /\ Len(bs) <= Len(bs2)
  /\ \A b \in DOMAIN bs : bs2[b].fn = bs[b].fn /\ bs2[b].live = bs[b].live
  /\ Jumped(bs2) \subseteq Jumped(bs) \cup J

\* An instruction at the end of a block adds the places it jumps to.
LEMMA PutGrows ==
  ASSUME NEW t, NEW bs, BlocksOK(t, bs), NEW b \in DOMAIN bs, NEW i \in Instrs(t, Len(bs))
  PROVE  /\ Grown(t, bs, Put(bs, b, i), {c \in DOMAIN bs : JumpsTo(i, c)})
         /\ Len(Put(bs, b, i)) = Len(bs)
<1>. DEFINE N == Len(bs)
            bs2 == Put(bs, b, i)
<1>1. DOMAIN bs = 1..N /\ N \in Nat /\ bs \in Seq(BlockSet(t, N))
      /\ \A c \in DOMAIN bs : bs[c] \in BlockSet(t, N) /\ bs[c].code \in Seq(Instrs(t, N))
  BY BlockFields DEF BlocksOK
<1>2. /\ bs2[b] = [bs[b] EXCEPT !.code = Append(bs[b].code, i)]
      /\ \A c \in DOMAIN bs : c # b => bs2[c] = bs[c]
      /\ DOMAIN bs2 = DOMAIN bs
  BY <1>1 DEF Put
<1>3. bs2[b] \in BlockSet(t, N) /\ bs2[b].code = Append(bs[b].code, i)
      /\ bs2[b].fn = bs[b].fn /\ bs2[b].live = bs[b].live
  <2>1. bs[b] \in BlockSet(t, N) /\ Append(bs[b].code, i) \in Seq(Instrs(t, N))
    BY <1>1
  <2>. QED BY <2>1, <1>2 DEF BlockSet
<1>4. bs2 \in Seq(BlockSet(t, N)) /\ Len(bs2) = N
  <2>1. bs2 \in [1..N -> BlockSet(t, N)]
    BY <1>1, <1>2, <1>3 DEF Put
  <2>. QED BY <2>1, <1>1
<1>5. \A c \in DOMAIN bs : bs2[c].fn = bs[c].fn /\ bs2[c].live = bs[c].live
  BY <1>2, <1>3
<1>6. BlocksOK(t, bs2)
  BY <1>2, <1>4, <1>5 DEF BlocksOK
<1>7. ASSUME NEW c \in Jumped(bs2) PROVE c \in Jumped(bs) \cup {d \in DOMAIN bs : JumpsTo(i, d)}
  <2>1. PICK a \in DOMAIN bs : \E k \in DOMAIN bs2[a].code : JumpsTo(bs2[a].code[k], c)
    BY <1>7, <1>2 DEF Jumped
  <2>2. PICK k \in DOMAIN bs2[a].code : JumpsTo(bs2[a].code[k], c)
    BY <2>1
  <2>3. c \in DOMAIN bs
    BY <1>7, <1>2 DEF Jumped
  <2>4. CASE a # b
    BY <2>2, <2>3, <2>4, <1>2 DEF Jumped
  <2>5. CASE a = b
    <3>1. k \in 1..(Len(bs[b].code) + 1) /\ DOMAIN bs[b].code = 1..Len(bs[b].code)
          /\ Len(bs[b].code) \in Nat
          /\ bs2[b].code[k] = IF k = Len(bs[b].code) + 1 THEN i ELSE bs[b].code[k]
      BY <1>1, <1>3, <2>2, <2>5
    <3>. QED BY <2>2, <2>3, <2>5, <3>1 DEF Jumped
  <2>. QED BY <2>4, <2>5
<1>. HIDE DEF bs2, N
<1>. QED BY <1>4, <1>5, <1>6, <1>7, <1>1 DEF N, Grown, bs2

\* A new block adds no jump.
LEMMA AppendGrows ==
  ASSUME NEW t, NEW bs, BlocksOK(t, bs), NEW f \in DOMAIN t
  PROVE  /\ Grown(t, bs, Append(bs, Fresh(f)), {})
         /\ Len(Append(bs, Fresh(f))) = Len(bs) + 1
         /\ Append(bs, Fresh(f))[Len(bs) + 1] = Fresh(f)
<1>. DEFINE N == Len(bs)
            bs2 == Append(bs, Fresh(f))
<1>1. DOMAIN bs = 1..N /\ N \in Nat /\ bs \in Seq(BlockSet(t, N))
      /\ \A c \in DOMAIN bs : bs[c] \in BlockSet(t, N)
  BY BlockFields DEF BlocksOK
<1>2. Fresh(f) \in BlockSet(t, N + 1) /\ Fresh(f).code = <<>> /\ Fresh(f).live
  BY DEF Fresh, BlockSet
<1>3. BlockSet(t, N) \subseteq BlockSet(t, N + 1)
  BY <1>1, BlockSetGrows
<1>4. bs \in Seq(BlockSet(t, N + 1))
  <2>. HIDE DEF N
  <2>. QED BY <1>1, <1>3
<1>5. bs2 \in Seq(BlockSet(t, N + 1)) /\ Len(bs2) = N + 1 /\ bs2[N + 1] = Fresh(f)
      /\ DOMAIN bs2 = 1..(N + 1) /\ \A c \in DOMAIN bs : bs2[c] = bs[c]
  <2>. HIDE DEF N
  <2>1. Len(bs) = N
    BY DEF N
  <2>. QED BY <1>1, <1>2, <1>4, <2>1
<1>. HIDE DEF bs2
<1>6. BlocksOK(t, bs2)
  <2>1. \A b \in DOMAIN bs2 : b \in DOMAIN bs \/ bs2[b].live
    BY <1>1, <1>2, <1>5
  <2>2. \A b \in DOMAIN bs : b \in DOMAIN bs2
    BY <1>1, <1>5
  <2>. QED BY <1>5, <2>1, <2>2 DEF BlocksOK
<1>7. Jumped(bs2) \subseteq Jumped(bs)
  <2>1. ASSUME NEW c \in Jumped(bs2) PROVE c \in Jumped(bs)
    <3>1. PICK b \in DOMAIN bs2 : \E k \in DOMAIN bs2[b].code : JumpsTo(bs2[b].code[k], c)
      BY <2>1 DEF Jumped
    <3>2. b \in DOMAIN bs
      BY <3>1, <1>1, <1>2, <1>5
    <3>3. PICK k \in DOMAIN bs[b].code : JumpsTo(bs[b].code[k], c)
      BY <3>1, <3>2, <1>5
    <3>4. bs[b].code[k] \in Instrs(t, N)
      BY <3>2, <3>3, BlockFields
    <3>5. c \in DOMAIN bs
      BY <3>3, <3>4, <1>1 DEF Instrs, JumpsTo
    <3>. QED BY <3>2, <3>3, <3>5 DEF Jumped
  <2>. QED BY <2>1
<1>. QED BY <1>1, <1>5, <1>6, <1>7 DEF Grown, bs2

\* Two changes are one.
LEMMA GrowsAgain ==
  ASSUME NEW t, NEW bs1, NEW bs2, NEW bs3, NEW J1, NEW J2, BlocksOK(t, bs1),
         Grown(t, bs1, bs2, J1), Grown(t, bs2, bs3, J2)
  PROVE  Grown(t, bs1, bs3, J1 \cup J2)
<1>1. DOMAIN bs1 \subseteq DOMAIN bs2 /\ Len(bs1) <= Len(bs3)
  BY BlockFields DEF Grown
<1>. QED BY <1>1 DEF Grown

\* Nothing changed.
LEMMA GrowsNot ==
  ASSUME NEW t, NEW bs, BlocksOK(t, bs)
  PROVE  Grown(t, bs, bs, {})
BY BlockFields DEF Grown

(***************************************************************************)
(* Visits                                                                  *)
(***************************************************************************)
\* A visit outlives a change of the blocks that does not jump to what it fills.
LEMMA FrameKept ==
  ASSUME NEW t, NEW bs, BlocksOK(t, bs), NEW bs2, NEW J, Grown(t, bs, bs2, J), NEW xs,
         NEW w, FrameOK(t, bs, xs, w), w.f = "block" => w.made \notin J
  PROVE  FrameOK(t, bs2, xs, w)
<1>1. DOMAIN bs = 1..Len(bs) /\ Len(bs) \in Nat /\ Len(bs2) \in Nat /\ Len(bs) <= Len(bs2)
  BY BlockFields DEF Grown
<1>2. w \in Frames(t, Len(bs)) /\ w \in Frames(t, Len(bs2))
  BY <1>1, FramesGrow DEF FrameOK
<1>3. Owned(w) \subseteq DOMAIN bs /\ Mentioned(w) \subseteq DOMAIN bs
      /\ (w.f = "block" => w.old \in {0} \cup DOMAIN bs)
  BY <1>1, <1>2, FrameFields DEF BlockFrames
<1>. QED BY <1>2, <1>3 DEF FrameOK, Grown

\* So do all visits.
LEMMA FramesKept ==
  ASSUME NEW t, NEW bs, BlocksOK(t, bs), NEW bs2, NEW J, Grown(t, bs, bs2, J), NEW xs,
         NEW s \in Seq(Frames(t, Len(bs))), FramesOK(t, bs, xs, s),
         \A k \in DOMAIN s : s[k].f = "block" => s[k].made \notin J
  PROVE  s \in Seq(Frames(t, Len(bs2))) /\ FramesOK(t, bs2, xs, s)
<1>1. Frames(t, Len(bs)) \subseteq Frames(t, Len(bs2))
  BY FramesGrow, BlockFields DEF Grown
<1>2. s \in Seq(Frames(t, Len(bs2)))
  BY <1>1
<1>3. \A k \in DOMAIN s : FrameOK(t, bs2, xs, s[k])
  BY FrameKept DEF FramesOK
<1>. QED BY <1>2, <1>3 DEF FramesOK

\* What is in a sequence with one more in front.
LEMMA PushSeq ==
  ASSUME NEW S, NEW x \in S, NEW s \in Seq(S)
  PROVE  LET s2 == <<x>> \o s IN
         /\ s2 \in Seq(S) /\ Len(s2) = Len(s) + 1 /\ s2[1] = x /\ s2 # <<>>
         /\ \A k \in DOMAIN s : s2[k + 1] = s[k]
         /\ \A k \in DOMAIN s2 : k # 1 => k - 1 \in DOMAIN s /\ s2[k] = s[k - 1]
OBVIOUS

\* What is in a sequence without its first.
LEMMA TailSeq ==
  ASSUME NEW S, NEW s \in Seq(S), s # <<>>
  PROVE  /\ Tail(s) \in Seq(S) /\ Len(Tail(s)) = Len(s) - 1 /\ Len(s) \in Nat /\ Len(s) > 0
         /\ s[1] \in S /\ Head(s) = s[1]
         /\ DOMAIN s = 1..Len(s) /\ DOMAIN Tail(s) = 1..(Len(s) - 1)
         /\ (Tail(s) = <<>> <=> Len(s) = 1)
         /\ \A k \in DOMAIN Tail(s) : k + 1 \in DOMAIN s /\ Tail(s)[k] = s[k + 1]
<1>1. Tail(s) \in Seq(S) /\ Len(Tail(s)) = Len(s) - 1 /\ Len(s) \in Nat
  OBVIOUS
<1>2. Tail(s) = <<>> <=> Len(Tail(s)) = 0
  BY <1>1, EmptySeq
<1>. QED BY <1>1, <1>2

\* A visit begun by the innermost one goes on top.
LEMMA PushOK ==
  ASSUME NEW t, NEW bs, NEW xs, NEW s \in Seq(Frames(t, Len(bs))), FramesOK(t, bs, xs, s),
         NEW x, FrameOK(t, bs, xs, x),
         IF s = <<>> THEN x.node = 1 ELSE Under(t, x, s[1]),
         \A k \in DOMAIN s : Apart(x, s[k])
  PROVE  /\ <<x>> \o s \in Seq(Frames(t, Len(bs)))
         /\ FramesOK(t, bs, xs, <<x>> \o s)
<1>. DEFINE s2 == <<x>> \o s
<1>1. x \in Frames(t, Len(bs))
  BY DEF FrameOK
<1>2. /\ s2 \in Seq(Frames(t, Len(bs))) /\ Len(s2) = Len(s) + 1 /\ s2[1] = x
      /\ \A k \in DOMAIN s2 : k # 1 => k - 1 \in DOMAIN s /\ s2[k] = s[k - 1]
  BY <1>1, PushSeq
<1>3. DOMAIN s2 = 1..(Len(s) + 1) /\ DOMAIN s = 1..Len(s) /\ Len(s) \in Nat
      /\ (s = <<>> <=> Len(s) = 0)
  BY <1>2, EmptySeq
<1>. HIDE DEF s2
<1>4. \A k \in DOMAIN s2 : FrameOK(t, bs, xs, s2[k])
  BY <1>2 DEF FramesOK
<1>5. ASSUME NEW j \in DOMAIN s2, NEW k \in DOMAIN s2, j < k PROVE Apart(s2[j], s2[k])
  <2>1. k - 1 \in DOMAIN s /\ s2[k] = s[k - 1]
    BY <1>2, <1>3, <1>5
  <2>2. CASE j = 1
    BY <2>1, <2>2, <1>2
  <2>3. CASE j # 1
    <3>1. j - 1 \in DOMAIN s /\ s2[j] = s[j - 1] /\ j - 1 < k - 1
      BY <1>2, <1>3, <1>5, <2>3
    <3>. QED BY <2>1, <3>1 DEF FramesOK
  <2>. QED BY <2>2, <2>3
<1>6. ASSUME NEW k \in DOMAIN s2
      PROVE  IF k = Len(s2) THEN s2[k].node = 1 ELSE Under(t, s2[k], s2[k + 1])
  <2>1. CASE k = 1
    <3>1. k = Len(s2) <=> s = <<>>
      BY <1>2, <1>3, <2>1
    <3>2. s # <<>> => s2[2] = s[2 - 1]
      BY <1>2, <1>3
    <3>. QED BY <3>1, <3>2, <2>1, <1>2
  <2>2. CASE k # 1
    <3>1. k - 1 \in DOMAIN s /\ s2[k] = s[k - 1] /\ (k = Len(s2) <=> k - 1 = Len(s))
      BY <1>2, <1>3, <2>2
    <3>2. k # Len(s2) => s2[k + 1] = s[(k - 1) + 1]
      <4>1. k # Len(s2) => k + 1 \in DOMAIN s2 /\ k + 1 # 1 /\ (k + 1) - 1 = (k - 1) + 1
        BY <1>2, <1>3
      <4>. QED BY <4>1, <1>2
    <3>. QED BY <3>1, <3>2 DEF FramesOK
  <2>. QED BY <2>1, <2>2
<1>. QED BY <1>2, <1>4, <1>5, <1>6 DEF FramesOK, s2

\* The innermost visit is taken away.
LEMMA PopOK ==
  ASSUME NEW t, NEW bs, NEW xs, NEW s \in Seq(Frames(t, Len(bs))), FramesOK(t, bs, xs, s),
         s # <<>>
  PROVE  /\ Tail(s) \in Seq(Frames(t, Len(bs)))
         /\ FramesOK(t, bs, xs, Tail(s))
         /\ Head(s) = s[1] /\ FrameOK(t, bs, xs, s[1])
         /\ \A k \in DOMAIN Tail(s) : Apart(s[1], Tail(s)[k])
         /\ IF Tail(s) = <<>> THEN s[1].node = 1 ELSE Under(t, s[1], Tail(s)[1])
<1>. DEFINE r == Tail(s)
<1>1. /\ r \in Seq(Frames(t, Len(bs))) /\ Len(r) = Len(s) - 1 /\ Len(s) \in Nat /\ Len(s) > 0
      /\ Head(s) = s[1]
      /\ \A k \in DOMAIN r : k + 1 \in DOMAIN s /\ r[k] = s[k + 1]
  BY TailSeq
<1>2. DOMAIN s = 1..Len(s) /\ DOMAIN r = 1..(Len(s) - 1) /\ (r = <<>> <=> Len(s) = 1)
  BY TailSeq
<1>. HIDE DEF r
<1>3. FramesOK(t, bs, xs, r)
  <2>1. \A k \in DOMAIN r : FrameOK(t, bs, xs, r[k])
    BY <1>1 DEF FramesOK
  <2>2. ASSUME NEW j \in DOMAIN r, NEW k \in DOMAIN r, j < k PROVE Apart(r[j], r[k])
    <3>1. j + 1 \in DOMAIN s /\ k + 1 \in DOMAIN s /\ j + 1 < k + 1
      BY <1>1, <1>2, <2>2
    <3>. QED BY <3>1, <1>1 DEF FramesOK
  <2>3. ASSUME NEW k \in DOMAIN r
        PROVE  IF k = Len(r) THEN r[k].node = 1 ELSE Under(t, r[k], r[k + 1])
    <3>1. k + 1 \in DOMAIN s /\ r[k] = s[k + 1] /\ (k = Len(r) <=> k + 1 = Len(s))
      BY <1>1, <1>2
    <3>2. k # Len(r) => r[k + 1] = s[(k + 1) + 1]
      BY <1>1, <1>2
    <3>. QED BY <3>1, <3>2 DEF FramesOK
  <2>. QED BY <2>1, <2>2, <2>3 DEF FramesOK
<1>4. 1 \in DOMAIN s /\ FrameOK(t, bs, xs, s[1])
  BY <1>1, <1>2 DEF FramesOK
<1>5. \A k \in DOMAIN r : Apart(s[1], r[k])
  BY <1>1, <1>2, <1>4, SMTT(30) DEF FramesOK
<1>6. IF r = <<>> THEN s[1].node = 1 ELSE Under(t, s[1], r[1])
  <2>1. r # <<>> => r[1] = s[1 + 1]
    BY <1>1, <1>2
  <2>. QED BY <2>1, <1>2, <1>4 DEF FramesOK
<1>. QED BY <1>1, <1>3, <1>4, <1>5, <1>6 DEF r

\* Visit w without the child it takes next.
Rest(w) == [w EXCEPT !.todo = Tail(@)]
Turned(t, bs, xs, s, s2, n) ==
  /\ s2 \in Seq(Frames(t, Len(bs))) /\ FramesOK(t, bs, xs, s2)
  /\ s2 # <<>> /\ s2[1].f = s[1].f /\ s2[1].node = s[1].node
  /\ n \in DOMAIN t /\ t[n].parent = Body(t, s2[1])
  /\ FnOf(t, n) = FnOf(t, s[1].node) /\ LoopOpen(t, xs, n)

\* The innermost visit takes its next child.
LEMMA TakeOK ==
  ASSUME NEW t, IsTree(t), NEW bs, NEW xs, NEW s \in Seq(Frames(t, Len(bs))),
         FramesOK(t, bs, xs, s), s # <<>>, s[1].f \in {"block", "loop"}, s[1].todo # <<>>
  PROVE  Turned(t, bs, xs, s, <<Rest(s[1])>> \o Tail(s), Head(s[1].todo))
<1>. DEFINE w == s[1]
            n == Head(w.todo)
            v == Rest(w)
            N == Len(bs)
<1>1. /\ Tail(s) \in Seq(Frames(t, N)) /\ FramesOK(t, bs, xs, Tail(s))
      /\ FrameOK(t, bs, xs, w) /\ \A k \in DOMAIN Tail(s) : Apart(w, Tail(s)[k])
      /\ IF Tail(s) = <<>> THEN w.node = 1 ELSE Under(t, w, Tail(s)[1])
  BY PopOK
<1>2. w \in BlockFrames(t, N) \/ w \in LoopFrames(t, N)
  BY <1>1, FrameFields DEF FrameOK
<1>. HIDE DEF w
<1>3. w.todo \in Seq(DOMAIN t) /\ w.todo # <<>>
  BY <1>2 DEF w, BlockFrames, LoopFrames
<1>. HIDE DEF n
<1>4. Tail(w.todo) \in Seq(DOMAIN t) /\ n = w.todo[1] /\ n \in DOMAIN t /\ 1 \in DOMAIN w.todo
      /\ \A k \in DOMAIN Tail(w.todo) : k + 1 \in DOMAIN w.todo /\ Tail(w.todo)[k] = w.todo[k + 1]
  <2>1. n = w.todo[1] /\ 1 \in DOMAIN w.todo
    BY <1>3, TailSeq DEF n
  <2>. QED BY <1>3, <2>1, TailSeq
<1>5. /\ v.todo = Tail(w.todo) /\ v.f = w.f /\ v.node = w.node /\ v.made = w.made
      /\ w.f = "block" => v.old = w.old
      /\ w.f = "loop" => v.after = w.after
      /\ v \in Frames(t, N)
  <2>1. CASE w \in BlockFrames(t, N)
    BY <2>1, <1>4 DEF Rest, BlockFrames, Frames
  <2>2. CASE w \in LoopFrames(t, N)
    BY <2>2, <1>4 DEF Rest, LoopFrames, Frames
  <2>. QED BY <1>2, <2>1, <2>2
<1>6. w.f \in {"block", "loop"}
  BY DEF w
<1>. HIDE DEF v
<1>7. Targets(v) = Targets(w) /\ Owned(v) = Owned(w) /\ Mentioned(v) = Mentioned(w)
      /\ Body(t, v) = Body(t, w)
  BY <1>5, <1>6 DEF Targets, Owned, Mentioned, Body, InBranch
<1>8. NodeFits(t, v)
  BY <1>1, <1>4, <1>5, <1>6, <1>7 DEF FrameOK, NodeFits, InBranch
<1>9. FrameOK(t, bs, xs, v)
  BY <1>1, <1>5, <1>6, <1>7, <1>8 DEF FrameOK, MayErase
<1>10. \A k \in DOMAIN Tail(s) : Apart(v, Tail(s)[k])
  BY <1>1, <1>5, <1>6, <1>7 DEF Apart, MayErase
<1>11. /\ <<v>> \o Tail(s) \in Seq(Frames(t, N)) /\ FramesOK(t, bs, xs, <<v>> \o Tail(s))
       /\ <<v>> \o Tail(s) # <<>> /\ (<<v>> \o Tail(s))[1] = v
  <2>1. IF Tail(s) = <<>> THEN v.node = 1 ELSE Under(t, v, Tail(s)[1])
    BY <1>1, <1>5, <1>6 DEF Under, InBranch
  <2>2. /\ <<v>> \o Tail(s) \in Seq(Frames(t, N)) /\ FramesOK(t, bs, xs, <<v>> \o Tail(s))
    BY <1>1, <1>9, <1>10, <2>1, PushOK
  <2>. QED BY <2>2, <1>1, <1>5, PushSeq
<1>12. t[n].parent = Body(t, w)
  BY <1>1, <1>4, <1>6 DEF FrameOK, NodeFits
<1>13. FnOf(t, n) = FnOf(t, w.node) /\ LoopOpen(t, xs, n)
  BY <1>1, <1>4, <1>6, <1>12, BodyFacts
<1>14. Turned(t, bs, xs, s, <<v>> \o Tail(s), n)
  BY <1>4, <1>5, <1>7, <1>11, <1>12, <1>13 DEF Turned, w
<1>. QED BY <1>14 DEF v, w, n

\* The break targets outlive such a change.
LEMMA ExitsKept ==
  ASSUME NEW t, NEW bs, BlocksOK(t, bs), NEW bs2, NEW J, Grown(t, bs, bs2, J), NEW xs,
         ExitsOK(t, bs, xs)
  PROVE  ExitsOK(t, bs2, xs) /\ Exits(xs) \subseteq DOMAIN bs
<1>1. DOMAIN bs \subseteq DOMAIN bs2
  BY BlockFields DEF Grown
<1>2. Exits(xs) \subseteq DOMAIN bs
  BY DEF ExitsOK, Exits
<1>. QED BY <1>1, <1>2 DEF ExitsOK, Grown

\* compileBlock makes a block for node n of the visit that is now innermost.
LEMMA OpenOK ==
  ASSUME NEW t, IsTree(t), NEW bs, BlocksOK(t, bs), NEW xs, ExitsOK(t, bs, xs),
         NEW s \in Seq(Frames(t, Len(bs))), FramesOK(t, bs, xs, s), s # <<>>,
         NEW n \in DOMAIN t, t[n].k = "block", t[n].parent = Body(t, s[1]),
         NEW old \in DOMAIN bs, bs[old].live, bs[old].fn = FnOf(t, t[n].parent),
         NEW fs, NEW f, f = FnOf(t, n), StackOK(t, fs, f), NEW r \in {0} \cup DOMAIN bs
  PROVE  LET b == Len(bs) + 1
             x == [f |-> "block", node |-> n, todo |-> t[n].kids, old |-> old, made |-> b]
         IN  LayoutOK(t, Append(bs, Fresh(f)), b, fs, xs, <<x>> \o s, r)
<1>. DEFINE b == Len(bs) + 1
            x == [f |-> "block", node |-> n, todo |-> t[n].kids, old |-> old, made |-> b]
            bs2 == Append(bs, Fresh(f))
<1>1. f \in DOMAIN t
  BY FnStep
<1>2. Grown(t, bs, bs2, {}) /\ Len(bs2) = b /\ bs2[b] = Fresh(f) /\ BlocksOK(t, bs2)
  <2>1. Grown(t, bs, bs2, {}) /\ Len(bs2) = b /\ bs2[b] = Fresh(f)
    BY <1>1, AppendGrows
  <2>. HIDE DEF bs2, b
  <2>. QED BY <2>1 DEF Grown
<1>3. DOMAIN bs = 1..Len(bs) /\ Len(bs) \in Nat /\ DOMAIN bs2 = 1..b
  BY <1>2, BlockFields
<1>. HIDE DEF bs2
<1>4. s \in Seq(Frames(t, b)) /\ FramesOK(t, bs2, xs, s) /\ ExitsOK(t, bs2, xs)
      /\ Exits(xs) \subseteq DOMAIN bs
  BY <1>2, FramesKept, ExitsKept
<1>5. t[n].kids \in Seq(DOMAIN t) /\ \A i \in DOMAIN t[n].kids : t[t[n].kids[i]].parent = n
  <2>1. t[n] \in NodesOf(Len(t)) /\ DOMAIN t = 1..Len(t)
        /\ \A c \in ChildrenOf(t, n) : t[c].parent = n
    BY TreeFacts
  <2>2. t[n].kids \in Seq(DOMAIN t)
    BY <2>1 DEF NodesOf
  <2>. QED BY <2>1, <2>2 DEF ChildrenOf
<1>6. x \in Frames(t, b)
  BY <1>3, <1>5 DEF Frames, BlockFrames
<1>7. FrameOK(t, bs2, xs, x)
  <2>1. NodeFits(t, x)
    BY <1>3, <1>5 DEF NodeFits, Body, InBranch
  <2>2. Mentioned(x) = {b, old} /\ Owned(x) = {b}
    BY <1>3 DEF Mentioned, Owned, Targets
  <2>3. bs2[b].live /\ bs2[b].fn = f /\ bs2[old].live /\ bs2[old].fn = bs[old].fn
    BY <1>2 DEF Fresh, Grown
  <2>4. b \notin Exits(xs) /\ b \notin Jumped(bs2)
    <3>1. Jumped(bs2) \subseteq DOMAIN bs
      BY <1>2 DEF Grown, Jumped
    <3>. QED BY <3>1, <1>3, <1>4
  <2>5. LoopOpen(t, xs, n)
    <3>1. FrameOK(t, bs, xs, s[1])
      BY PopOK
    <3>. QED BY <3>1, BodyFacts
  <2>. QED BY <1>6, <1>2, <2>1, <2>2, <2>3, <2>4, <2>5 DEF FrameOK, MayErase
<1>8. \A k \in DOMAIN s : Apart(x, s[k])
  <2>. SUFFICES ASSUME NEW k \in DOMAIN s PROVE Apart(x, s[k])
    OBVIOUS
  <2>1. s[k] \in Frames(t, Len(bs))
    OBVIOUS
  <2>2. Targets(s[k]) \subseteq 1..Len(bs) /\ Mentioned(s[k]) \subseteq 1..Len(bs)
        /\ (s[k].f = "block" => s[k].made \in 1..Len(bs))
    BY <2>1, FrameFields DEF BlockFrames
  <2>3. x.f = "block" /\ x.made = b /\ Targets(x) = {} /\ ~MayErase(x)
    BY DEF Targets, MayErase
  <2>. HIDE DEF x
  <2>. QED BY <2>2, <2>3, <1>3 DEF Apart
<1>. DEFINE s2 == <<x>> \o s
<1>9. s2 \in Seq(Frames(t, b)) /\ FramesOK(t, bs2, xs, s2) /\ s2 # <<>> /\ s2[1] = x
  <2>1. Under(t, x, s[1])
    BY DEF Under, InBranch
  <2>. HIDE DEF x, b
  <2>2. s2 \in Seq(Frames(t, b)) /\ FramesOK(t, bs2, xs, s2)
    BY <1>2, <1>4, <1>7, <1>8, <2>1, PushOK
  <2>. QED BY <2>2, <1>4, <1>6, PushSeq
<1>10. BuilderIn(t, s2) = f /\ OpenIn(t, s2) = f /\ ResultOK(t, bs2, s2, r)
  <2>1. x.f = "block" /\ x.node = n
    OBVIOUS
  <2>. HIDE DEF x, s2
  <2>. QED BY <1>9, <2>1 DEF BuilderIn, OpenIn, ResultOK
<1>11. b \in DOMAIN bs2 /\ bs2[b].live /\ bs2[b].fn = f /\ r \in {0} \cup DOMAIN bs2
  BY <1>2, <1>3 DEF Fresh
<1>. HIDE DEF x, b, s2
<1>12. LayoutOK(t, bs2, b, fs, xs, s2, r)
  BY <1>2, <1>4, <1>9, <1>10, <1>11 DEF LayoutOK
<1>. QED BY <1>12 DEF bs2, x, b, s2

\* The layout outlives a change of the blocks that jumps to none being filled.
LEMMA LayoutKept ==
  ASSUME NEW t, NEW bs, NEW a, NEW fs, NEW xs, NEW s, NEW r, LayoutOK(t, bs, a, fs, xs, s, r),
         NEW bs2, NEW J, Grown(t, bs, bs2, J),
         \A k \in DOMAIN s : s[k].f = "block" => s[k].made \notin J
  PROVE  LayoutOK(t, bs2, a, fs, xs, s, r)
<1>1. BlocksOK(t, bs) /\ s \in Seq(Frames(t, Len(bs))) /\ FramesOK(t, bs, xs, s)
      /\ ExitsOK(t, bs, xs)
  BY DEF LayoutOK
<1>2. BlocksOK(t, bs2) /\ DOMAIN bs \subseteq DOMAIN bs2
  BY <1>1, BlockFields DEF Grown
<1>3. s \in Seq(Frames(t, Len(bs2))) /\ FramesOK(t, bs2, xs, s)
  BY <1>1, FramesKept
<1>4. ExitsOK(t, bs2, xs)
  BY <1>1, ExitsKept
<1>5. ResultOK(t, bs2, s, r)
  BY <1>2 DEF LayoutOK, ResultOK, Grown
<1>. QED BY <1>2, <1>3, <1>4, <1>5 DEF LayoutOK, Grown

\* The visit on top of s2 has just turned to n.
AtChild(t, bs, a, fs, xs, s2, r, n) ==
  /\ LayoutOK(t, bs, a, fs, xs, s2, r)
  /\ s2 # <<>> /\ s2[1].f \in {"block", "loop"}
  /\ n \in DOMAIN t /\ t[n].parent = Body(t, s2[1])
  /\ FnOf(t, n) = FnOf(t, s2[1].node) /\ FnOf(t, n) = FnOf(t, Body(t, s2[1]))
  /\ bs[a].fn = FnOf(t, n) /\ fs[1] = FnOf(t, n) /\ StackOK(t, fs, FnOf(t, n))
  /\ LoopOpen(t, xs, n)

\* So the visitor turns to that child.
LEMMA TakenOK ==
  ASSUME NEW t, IsTree(t), NEW bs, NEW a, NEW fs, NEW xs, NEW s, NEW r,
         LayoutOK(t, bs, a, fs, xs, s, r),
         s # <<>>, s[1].f \in {"block", "loop"}, s[1].todo # <<>>
  PROVE  AtChild(t, bs, a, fs, xs, <<Rest(s[1])>> \o Tail(s), r, Head(s[1].todo))
<1>. DEFINE n == Head(s[1].todo)
<1>. DEFINE s2 == <<Rest(s[1])>> \o Tail(s)
<1>1. s \in Seq(Frames(t, Len(bs))) /\ FramesOK(t, bs, xs, s)
  BY DEF LayoutOK
<1>2. /\ s2 \in Seq(Frames(t, Len(bs))) /\ FramesOK(t, bs, xs, s2)
      /\ s2 # <<>> /\ s2[1].f = s[1].f /\ s2[1].node = s[1].node
      /\ n \in DOMAIN t /\ t[n].parent = Body(t, s2[1])
      /\ FnOf(t, n) = FnOf(t, s[1].node) /\ LoopOpen(t, xs, n)
  <2>1. Turned(t, bs, xs, s, s2, n)
    BY <1>1, TakeOK
  <2>. QED BY <2>1 DEF Turned
<1>. HIDE DEF s2, n
<1>3. BuilderIn(t, s2) = BuilderIn(t, s) /\ OpenIn(t, s2) = OpenIn(t, s) /\ ResultOK(t, bs, s2, r)
      /\ BuilderIn(t, s) = FnOf(t, n) /\ OpenIn(t, s) = FnOf(t, n)
  BY <1>2 DEF BuilderIn, OpenIn, ResultOK
<1>4. LayoutOK(t, bs, a, fs, xs, s2, r)
  BY <1>2, <1>3 DEF LayoutOK
<1>5. bs[a].fn = FnOf(t, n) /\ StackOK(t, fs, FnOf(t, n)) /\ fs[1] = FnOf(t, n)
  BY <1>3 DEF LayoutOK, StackOK
<1>6. FrameOK(t, bs, xs, s2[1])
  BY <1>2, PopOK
<1>7. FnOf(t, Body(t, s2[1])) = FnOf(t, s2[1].node)
  BY <1>2, <1>6, BodyFacts
<1>8. AtChild(t, bs, a, fs, xs, s2, r, n)
  BY <1>2, <1>4, <1>5, <1>7 DEF AtChild
<1>. QED BY <1>8 DEF s2, n

\* An instruction is added to block b.
LEMMA EmitOK ==
  ASSUME NEW t, NEW bs, NEW a, NEW fs, NEW xs, NEW s, NEW r, LayoutOK(t, bs, a, fs, xs, s, r),
         NEW b \in DOMAIN bs, NEW i \in Instrs(t, Len(bs)),
         \A k \in DOMAIN s : s[k].f = "block" => ~JumpsTo(i, s[k].made)
  PROVE  LayoutOK(t, Put(bs, b, i), a, fs, xs, s, r) /\ Len(Put(bs, b, i)) = Len(bs)
<1>1. BlocksOK(t, bs)
  BY DEF LayoutOK
<1>. DEFINE J == {c \in DOMAIN bs : JumpsTo(i, c)}
<1>2. Grown(t, bs, Put(bs, b, i), J) /\ Len(Put(bs, b, i)) = Len(bs)
  BY <1>1, PutGrows
<1>3. \A k \in DOMAIN s : s[k].f = "block" => s[k].made \notin J
  OBVIOUS
<1>. HIDE DEF J
<1>. QED BY <1>2, <1>3, LayoutKept

\* Instructions that go nowhere, and a jump.
LEMMA InstrFacts ==
  ASSUME NEW t, NEW n \in Nat
  PROVE  /\ \A op \in {"expr", "init", "update", "return"}, m \in {0} \cup DOMAIN t :
              /\ Instr(op, m, <<>>) \in Instrs(t, n)
              /\ \A c : ~JumpsTo(Instr(op, m, <<>>), c)
         /\ \A b \in 1..n : Jump(b) \in Instrs(t, n) /\ \A c : JumpsTo(Jump(b), c) <=> c = b
         /\ \A m \in DOMAIN t, b \in 1..n :
              /\ Instr("test", m, <<b>>) \in Instrs(t, n)
              /\ \A c : JumpsTo(Instr("test", m, <<b>>), c) <=> c = b
         /\ \A m \in DOMAIN t, b \in 1..n, d \in 1..n :
              /\ Instr("test", m, <<b, d>>) \in Instrs(t, n)
              /\ \A c : JumpsTo(Instr("test", m, <<b, d>>), c) <=> c \in {b, d}
<1>1. ASSUME NEW op \in {"expr", "init", "update", "return"}, NEW m \in {0} \cup DOMAIN t
      PROVE  /\ Instr(op, m, <<>>) \in Instrs(t, n)
             /\ \A c : ~JumpsTo(Instr(op, m, <<>>), c)
  BY DEF Instr, Instrs, JumpsTo, Terminators
<1>2. ASSUME NEW b \in 1..n PROVE Jump(b) \in Instrs(t, n) /\ \A c : JumpsTo(Jump(b), c) <=> c = b
  BY DEF Jump, Instr, Instrs, JumpsTo, Terminators
<1>3. ASSUME NEW m \in DOMAIN t, NEW b \in 1..n
      PROVE  /\ Instr("test", m, <<b>>) \in Instrs(t, n)
             /\ \A c : JumpsTo(Instr("test", m, <<b>>), c) <=> c = b
  BY DEF Instr, Instrs, JumpsTo, Terminators
<1>4. ASSUME NEW m \in DOMAIN t, NEW b \in 1..n, NEW d \in 1..n
      PROVE  /\ Instr("test", m, <<b, d>>) \in Instrs(t, n)
             /\ \A c : JumpsTo(Instr("test", m, <<b, d>>), c) <=> c \in {b, d}
  BY DEF Instr, Instrs, JumpsTo, Terminators
<1>. QED BY <1>1, <1>2, <1>3, <1>4

(***************************************************************************)
(* The visits keep the invariant                                           *)
(***************************************************************************)
\* What the visit of node n starts from.
LEMMA ChildOK ==
  ASSUME LayoutInv, NEW n, Child(n)
  PROVE  AtChild(prog, blocks, at, functionStack, exitBlock, Taken, result, n)
<1>1. IsTree(prog) /\ LayoutOK(prog, blocks, at, functionStack, exitBlock, work, result)
  BY ProgramsAssumption DEF LayoutInv
<1>2. work \in Seq(Frames(prog, Len(blocks))) /\ work # <<>>
  BY <1>1 DEF LayoutOK, Child
<1>3. Top = work[1] /\ Taken = <<Rest(work[1])>> \o Tail(work)
  <2>1. Top = work[1]
    BY <1>2, TailSeq DEF Top
  <2>. QED BY <2>1 DEF Taken, Rest
<1>4. work[1].f \in {"block", "loop"} /\ work[1].todo # <<>> /\ n = Head(work[1].todo)
  BY <1>3 DEF Child
<1>. QED BY <1>1, <1>2, <1>3, <1>4, TakenOK

\* The node's instruction goes where the builder is.
LEMMA EmitHereKeeps ==
  ASSUME LayoutInv, NEW n, Child(n), NEW i \in Instrs(prog, Len(blocks)), EmitHere(i),
         \A k \in DOMAIN Taken : Taken[k].f = "block" => ~JumpsTo(i, Taken[k].made),
         UNCHANGED <<prog, blockReturn>>
  PROVE  LayoutInv'
<1>1. LayoutOK(prog, blocks, at, functionStack, exitBlock, Taken, result)
  BY ChildOK DEF AtChild
<1>2. at \in DOMAIN blocks
  BY <1>1 DEF LayoutOK
<1>3. LayoutOK(prog, Put(blocks, at, i), at, functionStack, exitBlock, Taken, result)
  BY <1>1, <1>2, EmitOK
<1>4. blocks' = Put(blocks, at, i) /\ work' = Taken
      /\ UNCHANGED <<at, functionStack, exitBlock, result, status>>
  BY DEF EmitHere
<1>. QED BY <1>3, <1>4 DEF LayoutInv

\* An error changes nothing.
LEMMA ThrowKeeps ==
  ASSUME LayoutInv, NEW how \in {"error", "internal"}, Throw(how), UNCHANGED <<prog, blockReturn>>
  PROVE  LayoutInv'
BY DEF LayoutInv, Throw

\* An expression emits nothing, an instruction, or throws.
LEMMA VisitExpressionKeeps ==
  ASSUME LayoutInv, NEW n, Child(n), VisitExpression(n), UNCHANGED <<prog, blockReturn>>
  PROVE  LayoutInv'
<1>1. AtChild(prog, blocks, at, functionStack, exitBlock, Taken, result, n)
  BY ChildOK
<1>2. CASE prog[n].emits = "error" /\ Throw("error")
  BY <1>2, ThrowKeeps
<1>3. CASE /\ prog[n].emits = "nothing" /\ work' = Taken
           /\ UNCHANGED <<blocks, at, functionStack, exitBlock, result, status>>
  BY <1>1, <1>3 DEF LayoutInv, AtChild
<1>4. CASE EmitHere(Instr("expr", n, <<>>))
  <2>1. Len(blocks) \in Nat /\ n \in DOMAIN prog
    BY <1>1, BlockFields DEF AtChild, LayoutOK
  <2>2. Instr("expr", n, <<>>) \in Instrs(prog, Len(blocks))
        /\ \A c : ~JumpsTo(Instr("expr", n, <<>>), c)
    BY <2>1, InstrFacts
  <2>. QED BY <1>4, <2>2, EmitHereKeeps
<1>. QED BY <1>2, <1>3, <1>4 DEF VisitExpression

\* A return goes where the builder is.
LEMMA VisitReturnKeeps ==
  ASSUME LayoutInv, NEW n, Child(n), VisitReturn(n), UNCHANGED <<prog, blockReturn>>
  PROVE  LayoutInv'
<1>1. AtChild(prog, blocks, at, functionStack, exitBlock, Taken, result, n)
  BY ChildOK
<1>2. CASE Throw("error")
  BY <1>2, ThrowKeeps
<1>3. CASE EmitHere(Ret(n))
  <2>1. Len(blocks) \in Nat /\ n \in DOMAIN prog
    BY <1>1, BlockFields DEF AtChild, LayoutOK
  <2>2. Ret(n) \in Instrs(prog, Len(blocks)) /\ \A c : ~JumpsTo(Ret(n), c)
    BY <2>1, InstrFacts DEF Ret
  <2>. QED BY <1>3, <2>2, EmitHereKeeps
<1>. QED BY <1>2, <1>3 DEF VisitReturn

\* A break jumps to the exit of its loop, which no visit fills or will erase.
LEMMA VisitBreakLoopKeeps ==
  ASSUME LayoutInv, NEW n, Child(n), VisitBreakLoop(n), UNCHANGED <<prog, blockReturn>>
  PROVE  LayoutInv'
<1>. DEFINE loop == FindAbove(prog, n, "loop")
            b == exitBlock[loop]
<1>1. AtChild(prog, blocks, at, functionStack, exitBlock, Taken, result, n)
  BY ChildOK
<1>2. CASE loop = 0
  BY <1>2, ThrowKeeps DEF VisitBreakLoop
<1>3. CASE loop # 0
  <2>1. Len(blocks) \in Nat /\ DOMAIN blocks = 1..Len(blocks) /\ n \in DOMAIN prog
        /\ ExitsOK(prog, blocks, exitBlock) /\ FramesOK(prog, blocks, exitBlock, Taken)
    BY <1>1, BlockFields DEF AtChild, LayoutOK
  <2>2. b # 0
    BY <1>1, <1>3 DEF AtChild, LoopOpen
  <2>3. loop \in DOMAIN prog
    BY <1>3, <2>1, LoopStep, ProgramsAssumption DEF LayoutInv
  <2>4. b \in DOMAIN blocks /\ b \in Exits(exitBlock)
    BY <2>1, <2>2, <2>3 DEF ExitsOK, Exits
  <2>5. Jump(b) \in Instrs(prog, Len(blocks)) /\ \A c : JumpsTo(Jump(b), c) <=> c = b
    BY <2>1, <2>4, InstrFacts
  <2>6. \A k \in DOMAIN Taken : Taken[k].f = "block" => Taken[k].made # b
    BY <2>1, <2>4 DEF FramesOK, FrameOK
  <2>. QED BY <1>3, <2>5, <2>6, EmitHereKeeps DEF VisitBreakLoop
<1>. QED BY <1>2, <1>3

\* A block's visit gets a block of its own.
LEMMA VisitBlockKeeps ==
  ASSUME LayoutInv, NEW n, Child(n), VisitBlock(n), UNCHANGED <<prog, blockReturn>>
  PROVE  LayoutInv'
<1>1. AtChild(prog, blocks, at, functionStack, exitBlock, Taken, result, n)
  BY ChildOK
<1>. DEFINE f == FnOf(prog, n)
            b == Len(blocks) + 1
            x == [f |-> "block", node |-> n, todo |-> prog[n].kids, old |-> at, made |-> b]
<1>2. LayoutOK(prog, Append(blocks, Fresh(f)), b, functionStack, exitBlock, <<x>> \o Taken, result)
  BY <1>1, OpenOK, ProgramsAssumption DEF AtChild, LayoutOK, LayoutInv, VisitBlock
<1>3. Head(functionStack) = f
  BY <1>1 DEF AtChild, StackOK
<1>4. blocks' = Append(blocks, Fresh(f)) /\ at' = b /\ work' = <<x>> \o Taken
      /\ UNCHANGED <<functionStack, exitBlock, result, status>>
  BY <1>3 DEF VisitBlock, OpenBlock, BlockFrame
<1>. HIDE DEF x, b, f
<1>. QED BY <1>2, <1>4 DEF LayoutInv

\* A child of a node.
LEMMA ChildFacts ==
  ASSUME NEW t, IsTree(t), NEW n \in DOMAIN t, NEW c \in ChildrenOf(t, n)
  PROVE  /\ c \in DOMAIN t /\ c # 1 /\ t[c].parent = n
         /\ t[n].k # "function" => FnOf(t, c) = FnOf(t, n)
         /\ t[n].k = "function" => FnOf(t, c) = n
<1>1. DOMAIN t = 1..Len(t) /\ t[n] \in NodesOf(Len(t)) /\ t[c].parent = n
  BY TreeFacts
<1>2. c \in DOMAIN t
  <2>1. CASE t[n].k = "block"
    BY <2>1, <1>1 DEF NodesOf, ChildrenOf
  <2>2. CASE t[n].k = "branch"
    BY <2>2, <1>1 DEF NodesOf, ChildrenOf
  <2>3. CASE t[n].k \in {"loop", "function"}
    BY <2>3, <1>1 DEF NodesOf, ChildrenOf
  <2>4. CASE t[n].k \notin {"block", "branch", "loop", "function"}
    BY <2>4 DEF ChildrenOf
  <2>. QED BY <2>1, <2>2, <2>3, <2>4
<1>3. c # 1
  BY <1>1, <1>2, TreeFacts
<1>. QED BY <1>1, <1>2, <1>3, FnStep

\* The shape of a branch.
LEMMA BranchFacts ==
  ASSUME NEW t, IsTree(t), NEW n \in DOMAIN t, t[n].k = "branch"
  PROVE  /\ t[n].yes \in ChildrenOf(t, n) /\ t[t[n].yes].k = "block"
         /\ t[n].no # 0 => t[n].no \in ChildrenOf(t, n) /\ t[t[n].no].k \in {"block", "branch"}
<1>1. t[n] \in NodesOf(Len(t)) /\ ShapeOf(t, n)
  BY TreeFacts DEF IsTree
<1>2. t[n].yes \in 1..Len(t)
  BY <1>1 DEF NodesOf
<1>3. 0 \notin 1..Len(t)
  OBVIOUS
<1>. QED BY <1>1, <1>2, <1>3 DEF ShapeOf, ChildrenOf

\* compileBranch starts: the builder is in block b, and rest is to be done after.
LEMMA OpenBranchOK ==
  ASSUME NEW t, IsTree(t), NEW bs, BlocksOK(t, bs), NEW xs, ExitsOK(t, bs, xs),
         NEW s \in Seq(Frames(t, Len(bs))), FramesOK(t, bs, xs, s), s # <<>>,
         NEW n \in DOMAIN t, t[n].k = "branch", t[n].parent = Body(t, s[1]),
         s[1].f \notin {"success", "failiure"},
         NEW b \in DOMAIN bs, bs[b].live, bs[b].fn = FnOf(t, n),
         NEW after \in {0} \cup DOMAIN bs, after # 0 => bs[after].live /\ bs[after].fn = FnOf(t, n),
         \A k \in DOMAIN s : s[k].f = "block" => s[k].made # after,
         NEW fs, StackOK(t, fs, FnOf(t, n)), NEW r \in {0} \cup DOMAIN bs
  PROVE  LET made == Len(bs) + 1
             yes == t[n].yes
             x == [f |-> "success", node |-> n, old |-> b, after |-> after]
             y == [f |-> "block", node |-> yes, todo |-> t[yes].kids, old |-> b, made |-> made]
         IN  LayoutOK(t, Append(bs, Fresh(FnOf(t, n))), made, fs, xs, <<y>> \o (<<x>> \o s), r)
<1>. DEFINE yes == t[n].yes
            x == [f |-> "success", node |-> n, old |-> b, after |-> after]
<1>1. DOMAIN bs = 1..Len(bs) /\ Len(bs) \in Nat
  BY BlockFields
<1>2. x \in Frames(t, Len(bs))
  BY <1>1 DEF Frames, SuccessFrames
<1>3. Targets(x) = {after} \ {0} /\ Owned(x) = Targets(x) \cup {b} /\ Mentioned(x) = Owned(x)
  BY DEF Targets, Owned, Mentioned, InBranch
<1>4. x.f = "success" /\ x.node = n /\ Body(t, x) = n /\ InBranch(x) /\ ~MayErase(x)
  BY DEF Body, InBranch, MayErase
<1>. HIDE DEF x
<1>5. LoopOpen(t, xs, n)
  <2>1. FrameOK(t, bs, xs, s[1])
    BY PopOK
  <2>. QED BY <2>1, BodyFacts
<1>6. FrameOK(t, bs, xs, x)
  <2>1. NodeFits(t, x)
    BY <1>4 DEF NodeFits
  <2>. QED BY <1>2, <1>3, <1>4, <1>5, <2>1 DEF FrameOK
<1>7. \A k \in DOMAIN s : Apart(x, s[k])
  BY <1>3, <1>4 DEF Apart
<1>8. <<x>> \o s \in Seq(Frames(t, Len(bs))) /\ FramesOK(t, bs, xs, <<x>> \o s)
  <2>1. Under(t, x, s[1])
    BY <1>4 DEF Under
  <2>. QED BY <2>1, <1>6, <1>7, PushOK
<1>9. <<x>> \o s # <<>> /\ (<<x>> \o s)[1] = x
  BY <1>2, PushSeq
<1>. DEFINE s2 == <<x>> \o s
<1>. HIDE DEF s2
<1>10. yes \in DOMAIN t /\ t[yes].k = "block" /\ t[yes].parent = n /\ FnOf(t, yes) = FnOf(t, n)
  BY BranchFacts, ChildFacts
<1>. DEFINE made == Len(bs) + 1
            y == [f |-> "block", node |-> yes, todo |-> t[yes].kids, old |-> b, made |-> made]
<1>. HIDE DEF yes
<1>11. LayoutOK(t, Append(bs, Fresh(FnOf(t, yes))), made, fs, xs, <<y>> \o s2, r)
  <2>1. s2 \in Seq(Frames(t, Len(bs))) /\ FramesOK(t, bs, xs, s2) /\ s2 # <<>> /\ s2[1] = x
    BY <1>8, <1>9 DEF s2
  <2>. QED BY <2>1, <1>4, <1>10, OpenOK
<1>. QED BY <1>10, <1>11 DEF s2, x, yes

\* A branch starts with its success block.
LEMMA VisitBranchKeeps ==
  ASSUME LayoutInv, NEW n, Child(n), VisitBranch(n), UNCHANGED <<prog, blockReturn>>
  PROVE  LayoutInv'
<1>1. AtChild(prog, blocks, at, functionStack, exitBlock, Taken, result, n)
  BY ChildOK
<1>2. CASE Throw("error")
  BY <1>2, ThrowKeeps
<1>3. CASE ~(prog[n].cond = "bad")
  <2>. DEFINE f == FnOf(prog, n)
              b == Len(blocks) + 1
              yes == prog[n].yes
              x == [f |-> "success", node |-> n, old |-> at, after |-> 0]
              y == [f |-> "block", node |-> yes, todo |-> prog[yes].kids, old |-> at, made |-> b]
  <2>1. \A k \in DOMAIN Taken : Taken[k].f = "block" => Taken[k].made # 0
    <3>1. Taken \in Seq(Frames(prog, Len(blocks)))
      BY <1>1 DEF AtChild, LayoutOK
    <3>2. \A k \in DOMAIN Taken : Taken[k] \in Frames(prog, Len(blocks))
      BY <3>1
    <3>. QED BY <3>2, FrameFields DEF BlockFrames
  <2>2. LayoutOK(prog, Append(blocks, Fresh(f)), b, functionStack, exitBlock,
                 <<y>> \o (<<x>> \o Taken), result)
    BY <1>1, <2>1, OpenBranchOK, ProgramsAssumption DEF AtChild, LayoutOK, LayoutInv, VisitBranch
  <2>3. Head(functionStack) = f
    BY <1>1 DEF AtChild, StackOK
  <2>4. blocks' = Append(blocks, Fresh(f)) /\ at' = b /\ work' = <<y>> \o (<<x>> \o Taken)
        /\ UNCHANGED <<functionStack, exitBlock, result, status>>
    BY <1>3, <2>3 DEF VisitBranch, OpenBranch, OpenBlock, BlockFrame, SuccessFrame
  <2>. HIDE DEF x, y, b, f
  <2>. QED BY <2>2, <2>4 DEF LayoutInv
<1>. QED BY <1>2, <1>3 DEF VisitBranch, OpenBranch

\* A function is pushed and popped.
LEMMA StackPush ==
  ASSUME NEW t, IsTree(t), NEW n \in DOMAIN t, t[n].k = "function",
         NEW fs, StackOK(t, fs, FnOf(t, n))
  PROVE  StackOK(t, <<n>> \o fs, n)
<1>. DEFINE gs == <<n>> \o fs
<1>1. fs \in Seq(DOMAIN t) /\ fs # <<>>
  BY DEF StackOK
<1>2. /\ gs \in Seq(DOMAIN t) /\ Len(gs) = Len(fs) + 1 /\ gs[1] = n /\ gs # <<>>
      /\ \A k \in DOMAIN gs : k # 1 => k - 1 \in DOMAIN fs /\ gs[k] = fs[k - 1]
  BY <1>1, PushSeq
<1>3. Len(fs) \in Nat /\ Len(fs) > 0 /\ DOMAIN gs = 1..(Len(fs) + 1)
  BY <1>1, <1>2, TailSeq
<1>. HIDE DEF gs
<1>4. gs[Len(gs)] = 1
  BY <1>2, <1>3 DEF StackOK
<1>5. ASSUME NEW i \in 1..(Len(gs) - 1)
      PROVE  t[gs[i]].k = "function" /\ gs[i + 1] = FnOf(t, gs[i])
  <2>1. gs[i + 1] = fs[i]
    BY <1>2, <1>3
  <2>2. CASE i = 1
    BY <2>1, <2>2, <1>2 DEF StackOK
  <2>3. CASE i # 1
    <3>1. gs[i] = fs[i - 1] /\ i - 1 \in 1..(Len(fs) - 1) /\ (i - 1) + 1 = i
      BY <1>2, <1>3, <2>3, SMTT(30)
    <3>. QED BY <2>1, <3>1 DEF StackOK
  <2>. QED BY <2>2, <2>3
<1>6. StackOK(t, gs, n)
  BY <1>2, <1>4, <1>5 DEF StackOK
<1>. QED BY <1>6 DEF gs

\* A function is popped: the one it is in is on top.
LEMMA StackPop ==
  ASSUME NEW t, IsTree(t), NEW n, t[n].k = "function", NEW fs, StackOK(t, fs, n)
  PROVE  StackOK(t, Tail(fs), FnOf(t, n))
<1>. DEFINE gs == Tail(fs)
<1>1. fs \in Seq(DOMAIN t) /\ fs # <<>> /\ fs[1] = n /\ fs[Len(fs)] = 1
  BY DEF StackOK
<1>2. t[1].k = "block"
  BY DEF IsTree
<1>3. /\ gs \in Seq(DOMAIN t) /\ Len(gs) = Len(fs) - 1 /\ Len(fs) \in Nat /\ Len(fs) > 0
      /\ DOMAIN gs = 1..(Len(fs) - 1) /\ (gs = <<>> <=> Len(fs) = 1)
      /\ \A k \in DOMAIN gs : gs[k] = fs[k + 1]
  BY <1>1, TailSeq
<1>. HIDE DEF gs
<1>4. Len(fs) > 1
  BY <1>1, <1>2, <1>3
<1>5. gs # <<>> /\ gs[1] = FnOf(t, n) /\ gs[Len(gs)] = 1
  <2>1. gs[1] = fs[1 + 1] /\ gs[Len(gs)] = fs[Len(fs)]
    BY <1>3, <1>4
  <2>. QED BY <2>1, <1>1, <1>3, <1>4 DEF StackOK
<1>6. ASSUME NEW i \in 1..(Len(gs) - 1)
      PROVE  t[gs[i]].k = "function" /\ gs[i + 1] = FnOf(t, gs[i])
  <2>1. gs[i] = fs[i + 1] /\ gs[i + 1] = fs[(i + 1) + 1] /\ i + 1 \in 1..(Len(fs) - 1)
    BY <1>3, SMTT(30)
  <2>. QED BY <2>1 DEF StackOK
<1>7. StackOK(t, gs, FnOf(t, n))
  BY <1>3, <1>5, <1>6 DEF StackOK
<1>. QED BY <1>7 DEF gs

\* A function is pushed on functionStack, and its block is begun.
LEMMA VisitFunctionKeeps ==
  ASSUME LayoutInv, NEW n, Child(n), VisitFunction(n), UNCHANGED <<prog, blockReturn>>
  PROVE  LayoutInv'
<1>. DEFINE code == prog[n].code
            F == Frames(prog, Len(blocks))
<1>1. AtChild(prog, blocks, at, functionStack, exitBlock, Taken, result, n)
      /\ LayoutOK(prog, blocks, at, functionStack, exitBlock, Taken, result)
  BY ChildOK DEF AtChild
<1>2. IsTree(prog) /\ n \in DOMAIN prog /\ prog[n].k = "function"
  BY <1>1, ProgramsAssumption DEF AtChild, LayoutInv, VisitFunction
<1>3. CASE code = 0
  BY <1>1, <1>3 DEF VisitFunction, LayoutInv
<1>4. CASE code # 0
  <2>. DEFINE x == [f |-> "function", node |-> n]
              s2 == <<x>> \o Taken
  <2>1. code \in ChildrenOf(prog, n) /\ prog[code].k = "block"
    <3>1. ShapeOf(prog, n)
      BY <1>2 DEF IsTree
    <3>. QED BY <3>1, <1>2, <1>4 DEF ShapeOf, ChildrenOf
  <2>2. code \in DOMAIN prog /\ prog[code].parent = n /\ FnOf(prog, code) = n
    BY <1>2, <2>1, ChildFacts
  <2>3. FrameOK(prog, blocks, exitBlock, x)
    <3>1. x \in F /\ Mentioned(x) = {} /\ Owned(x) = {} /\ ~MayErase(x) /\ NodeFits(prog, x)
      BY <1>2 DEF Frames, FunctionFrames, Mentioned, Owned, Targets, MayErase, InBranch, NodeFits
    <3>. QED BY <3>1, <1>1 DEF FrameOK, AtChild
  <2>4. \A k \in DOMAIN Taken : Apart(x, Taken[k])
    BY DEF Apart, Targets, MayErase
  <2>5. s2 \in Seq(F) /\ FramesOK(prog, blocks, exitBlock, s2) /\ s2 # <<>> /\ s2[1] = x
    <3>1. x.node = n
      OBVIOUS
    <3>2. ~InBranch(x)
      BY DEF InBranch
    <3>. HIDE DEF x
    <3>3. Taken \in Seq(F) /\ FramesOK(prog, blocks, exitBlock, Taken) /\ Taken # <<>>
          /\ Under(prog, x, Taken[1])
      BY <1>1, <3>1, <3>2 DEF AtChild, LayoutOK, Under
    <3>4. s2 \in Seq(F) /\ FramesOK(prog, blocks, exitBlock, s2)
      BY <2>3, <2>4, <3>1, <3>3, PushOK
    <3>5. x \in F
      BY <2>3 DEF FrameOK
    <3>. QED BY <3>3, <3>4, <3>5, PushSeq
  <2>6. Body(prog, s2[1]) = n
    BY <2>5 DEF Body
  <2>7. StackOK(prog, <<n>> \o functionStack, n)
    BY <1>1, <1>2, StackPush DEF AtChild
  <2>. DEFINE b == Len(blocks) + 1
              y == [f |-> "block", node |-> code, todo |-> prog[code].kids, old |-> at, made |-> b]
  <2>. HIDE DEF s2, code
  <2>8. LayoutOK(prog, Append(blocks, Fresh(n)), b, <<n>> \o functionStack, exitBlock,
                 <<y>> \o s2, result)
    <3>1. blocks[at].fn = FnOf(prog, prog[code].parent)
      BY <1>1, <2>2 DEF AtChild
    <3>. QED BY <1>1, <1>2, <2>1, <2>2, <2>5, <2>6, <2>7, <3>1, OpenOK DEF LayoutOK
  <2>9. /\ blocks' = Append(blocks, Fresh(n)) /\ at' = b /\ work' = <<y>> \o s2
        /\ functionStack' = <<n>> \o functionStack /\ UNCHANGED <<exitBlock, result, status>>
    BY <1>4 DEF VisitFunction, OpenBlock, BlockFrame, FunctionFrame, s2, code
  <2>. HIDE DEF y, b
  <2>. QED BY <2>8, <2>9 DEF LayoutInv
<1>. QED BY <1>3, <1>4

\* A new block, which nothing refers to yet.
LEMMA AppendOK ==
  ASSUME NEW t, NEW bs, NEW a, NEW fs, NEW xs, NEW s, NEW r, LayoutOK(t, bs, a, fs, xs, s, r),
         NEW f \in DOMAIN t
  PROVE  LET bs2 == Append(bs, Fresh(f)) IN
         /\ LayoutOK(t, bs2, a, fs, xs, s, r) /\ Grown(t, bs, bs2, {})
         /\ Len(bs) \in Nat /\ DOMAIN bs = 1..Len(bs) /\ DOMAIN bs2 = 1..Len(bs2)
         /\ Len(bs2) = Len(bs) + 1 /\ bs2[Len(bs2)].fn = f /\ bs2[Len(bs2)].live
<1>. DEFINE bs2 == Append(bs, Fresh(f))
<1>1. BlocksOK(t, bs)
  BY DEF LayoutOK
<1>2. Grown(t, bs, bs2, {}) /\ Len(bs2) = Len(bs) + 1 /\ bs2[Len(bs) + 1] = Fresh(f)
  BY <1>1, AppendGrows
<1>. HIDE DEF bs2
<1>3. LayoutOK(t, bs2, a, fs, xs, s, r)
  BY <1>2, LayoutKept
<1>4. BlocksOK(t, bs2) /\ Fresh(f).fn = f /\ Fresh(f).live
  BY <1>2 DEF Grown, Fresh
<1>5. DOMAIN bs2 = 1..Len(bs2)
  BY <1>4, BlockFields
<1>. QED BY <1>1, <1>2, <1>3, <1>4, <1>5, BlockFields DEF bs2

\* The visits refer to no block that is not there.
LEMMA NothingBeyond ==
  ASSUME NEW t, NEW bs, NEW s \in Seq(Frames(t, Len(bs))), Len(bs) \in Nat,
         NEW b, b > Len(bs), b \in Nat, NEW k \in DOMAIN s
  PROVE  /\ b \notin Mentioned(s[k]) /\ b \notin Targets(s[k])
         /\ s[k].f = "block" => s[k].made # b
         /\ MayErase(s[k]) => s[k].after # b
<1>1. s[k] \in Frames(t, Len(bs))
  OBVIOUS
<1>2. /\ Targets(s[k]) \subseteq 1..Len(bs) /\ Mentioned(s[k]) \subseteq 1..Len(bs)
      /\ s[k].f = "block" => s[k].made \in 1..Len(bs)
      /\ MayErase(s[k]) => s[k].after \in 1..Len(bs)
  BY <1>1, FrameFields DEF BlockFrames, FailiureFrames, NextFrames, MayErase
<1>. QED BY <1>2

\* The exit of loop n is block b.
LEMMA ExitOK ==
  ASSUME NEW t, NEW bs, NEW a, NEW fs, NEW xs, NEW s, NEW r, LayoutOK(t, bs, a, fs, xs, s, r),
         NEW n \in DOMAIN t, NEW b \in DOMAIN bs, bs[b].live, b # 0,
         \A k \in DOMAIN s : /\ s[k].f = "block" => s[k].made # b
                             /\ MayErase(s[k]) => s[k].after # b
  PROVE  LET xs2 == [xs EXCEPT ![n] = b] IN LayoutOK(t, bs, a, fs, xs2, s, r) /\ xs2[n] = b
<1>. DEFINE xs2 == [xs EXCEPT ![n] = b]
<1>1. xs \in [DOMAIN t -> {0} \cup DOMAIN bs] /\ (\A c \in Exits(xs) : bs[c].live)
  BY DEF LayoutOK, ExitsOK
<1>2. xs2 \in [DOMAIN t -> {0} \cup DOMAIN bs] /\ xs2[n] = b
      /\ \A m \in DOMAIN t : m # n => xs2[m] = xs[m]
  BY <1>1
<1>. HIDE DEF xs2
<1>3. Exits(xs2) \subseteq Exits(xs) \cup {b}
  BY <1>1, <1>2 DEF Exits
<1>4. ExitsOK(t, bs, xs2)
  BY <1>1, <1>2, <1>3 DEF ExitsOK
<1>5. ASSUME NEW m, LoopOpen(t, xs, m) PROVE LoopOpen(t, xs2, m)
  <2>. DEFINE l == FindAbove(t, m, "loop")
  <2>1. l \notin DOMAIN t => xs2[l] = xs[l]
    BY <1>1 DEF xs2
  <2>. HIDE DEF l
  <2>2. xs[l] # 0 => xs2[l] # 0
    BY <1>2, <2>1
  <2>. QED BY <1>5, <2>2 DEF LoopOpen, l
<1>6. ASSUME NEW k \in DOMAIN s PROVE FrameOK(t, bs, xs2, s[k])
  <2>1. FrameOK(t, bs, xs, s[k])
    BY DEF LayoutOK, FramesOK
  <2>2. s[k].node \in DOMAIN t
    BY <2>1, FrameFields DEF FrameOK
  <2>3. xs[s[k].node] # 0 => xs2[s[k].node] # 0
    BY <2>2, <1>2
  <2>. QED BY <2>1, <2>3, <1>3, <1>5 DEF FrameOK
<1>7. FramesOK(t, bs, xs2, s)
  BY <1>6 DEF FramesOK, LayoutOK
<1>8. LayoutOK(t, bs, a, fs, xs2, s, r)
  BY <1>4, <1>7 DEF LayoutOK
<1>. QED BY <1>2, <1>8 DEF xs2

\* A loop's visit goes on top; the builder is in block b, its body.
LEMMA EnterLoopOK ==
  ASSUME NEW t, IsTree(t), NEW bs, NEW a, NEW fs, NEW xs, NEW s, NEW r, NEW n,
         AtChild(t, bs, a, fs, xs, s, r, n), t[n].k = "loop",
         NEW after \in DOMAIN bs, NEW cond \in DOMAIN bs, NEW b \in DOMAIN bs,
         xs[n] # 0,
         \A c \in {after, cond, b} : bs[c].live /\ bs[c].fn = FnOf(t, n),
         \A k \in DOMAIN s : s[k].f = "block" => s[k].made \notin {after, cond}
  PROVE  LET x == [f |-> "loop", node |-> n, todo |-> t[t[n].code].kids, made |-> cond,
                   after |-> after]
         IN  LayoutOK(t, bs, b, fs, xs, <<x>> \o s, r)
<1>. DEFINE code == t[n].code
            x == [f |-> "loop", node |-> n, todo |-> t[code].kids, made |-> cond, after |-> after]
            s2 == <<x>> \o s
<1>1. /\ s \in Seq(Frames(t, Len(bs))) /\ FramesOK(t, bs, xs, s) /\ s # <<>>
      /\ n \in DOMAIN t /\ t[n].parent = Body(t, s[1]) /\ BlocksOK(t, bs)
      /\ LoopOpen(t, xs, n) /\ StackOK(t, fs, FnOf(t, n))
  BY DEF AtChild, LayoutOK
<1>2. DOMAIN bs = 1..Len(bs) /\ Len(bs) \in Nat
  BY <1>1, BlockFields
<1>3. code \in ChildrenOf(t, n) /\ t[code].k = "block"
  <2>1. ShapeOf(t, n) /\ t[n] \in NodesOf(Len(t))
    BY <1>1, TreeFacts DEF IsTree
  <2>2. code # 0
    BY <2>1 DEF NodesOf
  <2>. QED BY <2>1, <2>2 DEF ShapeOf, ChildrenOf
<1>4. code \in DOMAIN t
  BY <1>1, <1>3, ChildFacts
<1>5. t[code].kids \in Seq(DOMAIN t) /\ \A i \in DOMAIN t[code].kids : t[t[code].kids[i]].parent = code
  <2>1. t[code] \in NodesOf(Len(t)) /\ DOMAIN t = 1..Len(t)
        /\ \A c \in ChildrenOf(t, code) : t[c].parent = code
    BY <1>4, TreeFacts
  <2>. HIDE DEF code
  <2>2. t[code].kids \in Seq(DOMAIN t)
    BY <2>1, <1>3 DEF NodesOf
  <2>. QED BY <2>1, <2>2, <1>3 DEF ChildrenOf
<1>6. x \in Frames(t, Len(bs))
  <2>. HIDE DEF code
  <2>. QED BY <1>1, <1>2, <1>5 DEF Frames, LoopFrames
<1>7. /\ x.f = "loop" /\ x.node = n /\ Body(t, x) = code /\ x.todo = t[code].kids
      /\ Targets(x) = {cond, after} /\ Owned(x) = {cond, after} /\ Mentioned(x) = {cond, after}
      /\ ~MayErase(x) /\ ~InBranch(x)
  BY DEF Body, Targets, Owned, Mentioned, MayErase, InBranch
<1>. HIDE DEF x, code
<1>8. FrameOK(t, bs, xs, x)
  <2>1. NodeFits(t, x)
    BY <1>5, <1>7 DEF NodeFits
  <2>. QED BY <1>1, <1>6, <1>7, <2>1 DEF FrameOK
<1>9. \A k \in DOMAIN s : Apart(x, s[k])
  BY <1>7 DEF Apart
<1>10. s2 \in Seq(Frames(t, Len(bs))) /\ FramesOK(t, bs, xs, s2)
  <2>1. Under(t, x, s[1])
    BY <1>1, <1>7 DEF Under
  <2>. QED BY <2>1, <1>1, <1>8, <1>9, PushOK
<1>11. s2 # <<>> /\ s2[1] = x
  BY <1>1, <1>6, PushSeq
<1>. HIDE DEF s2
<1>12. BuilderIn(t, s2) = FnOf(t, n) /\ OpenIn(t, s2) = FnOf(t, n) /\ ResultOK(t, bs, s2, r)
  BY <1>7, <1>11 DEF BuilderIn, OpenIn, ResultOK
<1>13. LayoutOK(t, bs, b, fs, xs, s2, r)
  BY <1>1, <1>10, <1>12 DEF LayoutOK, AtChild
<1>. QED BY <1>13 DEF s2, x, code

\* A loop makes three blocks and enters the second.
LEMMA VisitLoopKeeps ==
  ASSUME LayoutInv, NEW n, Child(n), VisitLoop(n), UNCHANGED <<prog, blockReturn>>
  PROVE  LayoutInv'
<1>1. CASE prog[n].cond = "bad"
  BY <1>1, ThrowKeeps DEF VisitLoop
<1>2. CASE prog[n].cond # "bad"
  <2>. DEFINE f == FnOf(prog, n)
              after == Len(blocks) + 1
              body == Len(blocks) + 2
              cond == Len(blocks) + 3
              Good(bs) == LayoutOK(prog, bs, at, functionStack, exitBlock, Taken, result)
              inits == IF prog[n].init THEN Put(blocks, at, Instr("init", n, <<>>)) ELSE blocks
              bs1 == Append(inits, Fresh(f))
              bs2 == Append(bs1, Fresh(f))
              bs3 == Append(bs2, Fresh(f))
              bs4 == Put(bs3, at, Jump(cond))
              test == Instr("test", n, IF prog[n].cond = "none" THEN <<body>> ELSE <<body, after>>)
              bs5 == Put(bs4, cond, test)
              xs2 == [exitBlock EXCEPT ![n] = after]
              x == [f |-> "loop", node |-> n, todo |-> prog[prog[n].code].kids, made |-> cond,
                    after |-> after]
  <2>1. IsTree(prog) /\ AtChild(prog, blocks, at, functionStack, exitBlock, Taken, result, n)
    BY ChildOK, ProgramsAssumption DEF LayoutInv
  <2>. HIDE DEF f
  <2>2. Len(blocks) \in Nat /\ n \in DOMAIN prog
    BY <2>1, BlockFields DEF AtChild, LayoutOK
  <2>3. Good(blocks) /\ at \in DOMAIN blocks /\ f \in DOMAIN prog
    BY <2>1, <2>2, FnStep DEF AtChild, LayoutOK, f
  <2>4. Taken \in Seq(Frames(prog, Len(blocks)))
    BY <2>1 DEF AtChild, LayoutOK
  <2>5. Good(inits) /\ Len(inits) = Len(blocks)
    <3>1. Instr("init", n, <<>>) \in Instrs(prog, Len(blocks))
          /\ \A c : ~JumpsTo(Instr("init", n, <<>>), c)
      BY <2>2, InstrFacts
    <3>2. /\ Good(Put(blocks, at, Instr("init", n, <<>>)))
          /\ Len(Put(blocks, at, Instr("init", n, <<>>))) = Len(blocks)
      BY <2>3, <3>1, EmitOK
    <3>. QED BY <2>3, <3>2
  <2>6. Good(inits)
    BY <2>5
  <2>. HIDE DEF inits
  <2>7. /\ Good(bs1) /\ Grown(prog, inits, bs1, {})
        /\ Len(bs1) = after /\ bs1[after].fn = f /\ bs1[after].live /\ DOMAIN bs1 = 1..after
    <3>1. LET b == Append(inits, Fresh(f)) IN
          /\ Good(b) /\ Grown(prog, inits, b, {}) /\ DOMAIN b = 1..Len(b)
          /\ Len(b) = Len(inits) + 1 /\ b[Len(b)].fn = f /\ b[Len(b)].live
      BY <2>3, <2>6, AppendOK
    <3>. QED BY <3>1, <2>5
  <2>. HIDE DEF bs1
  <2>8. /\ Good(bs2) /\ Grown(prog, bs1, bs2, {})
        /\ Len(bs2) = body /\ bs2[body].fn = f /\ bs2[body].live /\ DOMAIN bs2 = 1..body
    <3>1. LET b == Append(bs1, Fresh(f)) IN
          /\ Good(b) /\ Grown(prog, bs1, b, {}) /\ DOMAIN b = 1..Len(b)
          /\ Len(b) = Len(bs1) + 1 /\ b[Len(b)].fn = f /\ b[Len(b)].live
      BY <2>3, <2>7, AppendOK
    <3>. QED BY <3>1, <2>2, <2>7
  <2>. HIDE DEF bs2
  <2>9. /\ Good(bs3) /\ Grown(prog, bs2, bs3, {})
        /\ Len(bs3) = cond /\ bs3[cond].fn = f /\ bs3[cond].live /\ DOMAIN bs3 = 1..cond
    <3>1. LET b == Append(bs2, Fresh(f)) IN
          /\ Good(b) /\ Grown(prog, bs2, b, {}) /\ DOMAIN b = 1..Len(b)
          /\ Len(b) = Len(bs2) + 1 /\ b[Len(b)].fn = f /\ b[Len(b)].live
      BY <2>3, <2>8, AppendOK
    <3>. QED BY <3>1, <2>2, <2>8
  <2>. HIDE DEF bs3
  <2>10. \A c \in {after, body, cond} : c \in DOMAIN bs3 /\ bs3[c].live /\ bs3[c].fn = f
    <3>1. /\ after \in DOMAIN bs1 /\ after \in DOMAIN bs2 /\ after \in DOMAIN bs3
          /\ body \in DOMAIN bs2 /\ body \in DOMAIN bs3 /\ cond \in DOMAIN bs3
      BY <2>2, <2>7, <2>8, <2>9
    <3>. QED BY <3>1, <2>7, <2>8, <2>9 DEF Grown
  <2>11. \A k \in DOMAIN Taken, c \in {after, body, cond} :
          /\ Taken[k].f = "block" => Taken[k].made # c
          /\ MayErase(Taken[k]) => Taken[k].after # c
    <3>. SUFFICES ASSUME NEW k \in DOMAIN Taken, NEW c \in {after, body, cond}
                  PROVE  /\ Taken[k].f = "block" => Taken[k].made # c
                         /\ MayErase(Taken[k]) => Taken[k].after # c
      OBVIOUS
    <3>1. c > Len(blocks) /\ c \in Nat
      BY <2>2
    <3>. QED BY <3>1, <2>2, <2>4, NothingBeyond
  <2>12. Jump(cond) \in Instrs(prog, Len(bs3)) /\ \A c : JumpsTo(Jump(cond), c) <=> c = cond
    BY <2>2, <2>9, InstrFacts
  <2>13. test \in Instrs(prog, Len(bs3)) /\ \A c : JumpsTo(test, c) => c \in {body, after}
    BY <2>2, <2>9, InstrFacts
  <2>. HIDE DEF test
  <2>14. Good(bs3) /\ at \in DOMAIN bs3 /\ BlocksOK(prog, bs3)
    BY <2>9 DEF LayoutOK
  <2>. DEFINE Spares(i) == \A k \in DOMAIN Taken : Taken[k].f = "block" => ~JumpsTo(i, Taken[k].made)
  <2>15. Spares(Jump(cond)) /\ Spares(test)
    BY <2>11, <2>12, <2>13
  <2>16. Good(bs4) /\ Len(bs4) = Len(bs3)
         /\ Grown(prog, bs3, bs4, {c \in DOMAIN bs3 : JumpsTo(Jump(cond), c)})
    <3>1. Jump(cond) \in Instrs(prog, Len(bs3)) /\ Spares(Jump(cond))
      BY <2>12, <2>15
    <3>. DEFINE i == Jump(cond)
    <3>. HIDE DEF i
    <3>2. Good(Put(bs3, at, i)) /\ Len(Put(bs3, at, i)) = Len(bs3)
      BY <2>14, <3>1, EmitOK DEF i
    <3>3. Grown(prog, bs3, Put(bs3, at, i), {c \in DOMAIN bs3 : JumpsTo(i, c)})
      BY <2>14, <3>1, PutGrows DEF i
    <3>. QED BY <3>2, <3>3 DEF i
  <2>. HIDE DEF bs4
  <2>17. Good(bs5) /\ Len(bs5) = Len(bs3)
         /\ Grown(prog, bs4, bs5, {c \in DOMAIN bs4 : JumpsTo(test, c)})
    <3>1. test \in Instrs(prog, Len(bs4)) /\ Spares(test)
      BY <2>13, <2>15, <2>16
    <3>2. cond \in DOMAIN bs4 /\ BlocksOK(prog, bs4) /\ Good(bs4)
      BY <2>2, <2>9, <2>16, BlockFields DEF LayoutOK
    <3>3. Good(bs5) /\ Len(bs5) = Len(bs4)
      BY <3>1, <3>2, EmitOK
    <3>4. Grown(prog, bs4, bs5, {c \in DOMAIN bs4 : JumpsTo(test, c)})
      BY <3>1, <3>2, PutGrows
    <3>. QED BY <2>16, <3>3, <3>4
  <2>. HIDE DEF bs5
  <2>18. DOMAIN bs5 = 1..cond /\ \A c \in {after, body, cond} :
           c \in DOMAIN bs5 /\ bs5[c].live /\ bs5[c].fn = f
    <3>1. DOMAIN bs4 = 1..cond /\ DOMAIN bs5 = 1..cond
      BY <2>9, <2>16, <2>17, BlockFields DEF LayoutOK
    <3>. QED BY <3>1, <2>9, <2>10, <2>16, <2>17 DEF Grown
  <2>19. LayoutOK(prog, bs5, at, functionStack, xs2, Taken, result) /\ xs2[n] = after
    <3>1. after # 0
      BY <2>2
    <3>2. Good(bs5) /\ after \in DOMAIN bs5 /\ bs5[after].live
      BY <2>17, <2>18
    <3>3. \A k \in DOMAIN Taken : /\ Taken[k].f = "block" => Taken[k].made # after
                                  /\ MayErase(Taken[k]) => Taken[k].after # after
      BY <2>11
    <3>4. n \in DOMAIN prog
      BY <2>2
    <3>. HIDE DEF after
    <3>. QED BY <3>1, <3>2, <3>3, <3>4, ExitOK
  <2>. HIDE DEF xs2
  <2>20. AtChild(prog, bs5, at, functionStack, xs2, Taken, result, n)
    <3>1. bs5[at].fn = f
      BY <2>1, <2>19 DEF AtChild, LayoutOK, BuilderIn, f
    <3>2. LoopOpen(prog, xs2, n)
      <4>1. FrameOK(prog, bs5, xs2, Taken[1])
        BY <2>1, <2>19, PopOK DEF AtChild, LayoutOK
      <4>. QED BY <4>1, <2>1, <2>2, BodyFacts DEF AtChild
    <3>. QED BY <2>1, <2>19, <3>1, <3>2 DEF AtChild, f
  <2>21. LayoutOK(prog, bs5, body, functionStack, xs2, <<x>> \o Taken, result)
    <3>1. prog[n].k = "loop"
      BY DEF VisitLoop
    <3>2. xs2[n] # 0
      BY <2>2, <2>19
    <3>. QED BY <3>1, <3>2, <2>1, <2>11, <2>18, <2>20, EnterLoopOK DEF f
  <2>22. /\ blocks' = bs5 /\ at' = body /\ exitBlock' = xs2 /\ work' = <<x>> \o Taken
         /\ UNCHANGED <<functionStack, result, status>>
    <3>1. Head(functionStack) = f
      BY <2>1 DEF AtChild, StackOK, f
    <3>. QED BY <1>2, <3>1 DEF VisitLoop, LoopFrame, inits, bs1, bs2, bs3, bs4, bs5, test, xs2
  <2>. HIDE DEF x, body
  <2>. QED BY <2>21, <2>22 DEF LayoutInv
<1>. QED BY <1>1, <1>2

(***************************************************************************)
(* What visits do at their end keeps the invariant                         *)
(***************************************************************************)
\* Whose child a node can be.
LEMMA ParentFits ==
  ASSUME NEW t, IsTree(t), NEW n \in DOMAIN t, NEW m, t[n].parent = m, m # 0
  PROVE  /\ m \in DOMAIN t /\ n # 1
         /\ t[m].k = "function" => t[n].k = "block" /\ t[n].type = "function"
         /\ t[m].k = "branch" => t[n].k \in {"block", "branch"}
<1>1. LinkedIn(t, n) /\ n # 1 /\ m \in DOMAIN t
  BY TreeFacts DEF IsTree, LinkedIn
<1>2. n \in ChildrenOf(t, m) /\ ShapeOf(t, m)
  BY <1>1 DEF LinkedIn, IsTree
<1>3. t[m].k = "function" => n = t[m].code /\ n # 0
  BY <1>2 DEF ChildrenOf
<1>4. t[m].k = "branch" => n = t[m].yes \/ (n = t[m].no /\ n # 0)
  BY <1>2 DEF ChildrenOf
<1>5. t[m].k = "function" => t[n].k = "block" /\ t[n].type = "function"
  BY <1>2, <1>3 DEF ShapeOf
<1>6. t[m].k = "branch" => t[n].k \in {"block", "branch"}
  BY <1>2, <1>4 DEF ShapeOf
<1>. QED BY <1>1, <1>5, <1>6

\* The visit below the one on top, and the function that is open then.
LEMMA BelowOK ==
  ASSUME NEW t, IsTree(t), NEW bs, NEW a, NEW fs, NEW xs, NEW s, NEW r,
         LayoutOK(t, bs, a, fs, xs, s, r), s # <<>>
  PROVE  LET n == s[1].node
             w == Tail(s)[1]
         IN  /\ FrameOK(t, bs, xs, s[1]) /\ n \in DOMAIN t
             /\ Tail(s) = <<>> => n = 1 /\ FnOf(t, n) = 1
             /\ Tail(s) # <<>> =>
                  /\ n # 1 /\ t[n].parent = Body(t, w) /\ t[n].parent \in DOMAIN t
                  /\ FnOf(t, t[n].parent) = FnOf(t, w.node)
                  /\ FnOf(t, n) = IF w.f = "function" THEN w.node ELSE FnOf(t, w.node)
                  /\ w.f = "function" => t[n].k = "block" /\ t[n].type = "function"
                  /\ w.f = "success" => t[n].k \in {"block", "branch"}
                  /\ w.f = "failiure" => t[n].k \in {"block", "branch"}
             /\ s[1].f # "function" => OpenIn(t, Tail(s)) = FnOf(t, n)
<1>. DEFINE n == s[1].node
            q == Tail(s)
            w == q[1]
<1>1. s \in Seq(Frames(t, Len(bs))) /\ FramesOK(t, bs, xs, s)
  BY DEF LayoutOK
<1>2. /\ q \in Seq(Frames(t, Len(bs))) /\ FramesOK(t, bs, xs, q) /\ FrameOK(t, bs, xs, s[1])
      /\ IF q = <<>> THEN n = 1 ELSE Under(t, s[1], w)
  BY <1>1, PopOK
<1>3. n \in DOMAIN t
  BY <1>2, FrameFields DEF FrameOK
<1>. HIDE DEF q, n
<1>4. q = <<>> => n = 1 /\ FnOf(t, n) = 1
  BY <1>2, <1>3, FnStep
<1>5. CASE q # <<>>
  <2>1. FrameOK(t, bs, xs, w) /\ t[n].parent = Body(t, w)
    BY <1>2, <1>5, PopOK DEF Under, n
  <2>. HIDE DEF w
  <2>2. /\ Body(t, w) \in DOMAIN t /\ n # 1 /\ FnOf(t, Body(t, w)) = FnOf(t, w.node)
        /\ FnOf(t, n) = IF w.f = "function" THEN w.node ELSE FnOf(t, w.node)
    BY <2>1, <1>3, BodyFacts
  <2>3. /\ w.f = "function" => Body(t, w) = w.node /\ t[w.node].k = "function"
        /\ w.f \in {"success", "failiure"} => Body(t, w) = w.node /\ t[w.node].k = "branch"
    BY <2>1 DEF FrameOK, NodeFits, InBranch, Body
  <2>4. Body(t, w) # 0
    BY <2>2, TreeFacts
  <2>5. /\ w.f = "function" => t[n].k = "block" /\ t[n].type = "function"
        /\ w.f = "success" => t[n].k \in {"block", "branch"}
        /\ w.f = "failiure" => t[n].k \in {"block", "branch"}
    BY <1>3, <2>1, <2>3, <2>4, ParentFits
  <2>6. OpenIn(t, q) = FnOf(t, n)
    BY <1>5, <2>2 DEF OpenIn, BuilderIn, w
  <2>. QED BY <1>2, <1>3, <1>5, <2>1, <2>2, <2>5, <2>6 DEF w, q, n
<1>6. CASE q = <<>>
  BY <1>2, <1>3, <1>4, <1>6 DEF OpenIn, BuilderIn, q, n
<1>. QED BY <1>5, <1>6

\* A block is over: the builder stays where it is, or goes back to where it came from.
LEMMA LeaveBlockOK ==
  ASSUME NEW t, IsTree(t), NEW bs, NEW a, NEW fs, NEW xs, NEW s, NEW r,
         LayoutOK(t, bs, a, fs, xs, s, r), s # <<>>, s[1].f = "block"
  PROVE  LayoutOK(t, bs, IF t[s[1].node].type = "function" THEN s[1].old ELSE a, fs, xs,
                  Tail(s), s[1].made)
<1>. DEFINE w == s[1]
            n == w.node
            q == Tail(s)
            b == IF t[n].type = "function" THEN w.old ELSE a
<1>1. s \in Seq(Frames(t, Len(bs))) /\ FramesOK(t, bs, xs, s) /\ BlocksOK(t, bs)
  BY DEF LayoutOK
<1>2. /\ q \in Seq(Frames(t, Len(bs))) /\ FramesOK(t, bs, xs, q) /\ FrameOK(t, bs, xs, w)
      /\ \A k \in DOMAIN q : Apart(w, q[k])
  BY <1>1, PopOK
<1>3. /\ n \in DOMAIN t
      /\ q = <<>> => n = 1 /\ FnOf(t, n) = 1
      /\ q # <<>> =>
           /\ n # 1 /\ FnOf(t, t[n].parent) = FnOf(t, q[1].node)
           /\ FnOf(t, n) = IF q[1].f = "function" THEN q[1].node ELSE FnOf(t, q[1].node)
           /\ q[1].f = "function" => t[n].type = "function"
      /\ OpenIn(t, q) = FnOf(t, n)
  BY BelowOK
<1>. HIDE DEF q
<1>4. w.f = "block" /\ w \in BlockFrames(t, Len(bs)) /\ w.made \in Owned(w)
  BY <1>2, FrameFields DEF FrameOK, Owned
<1>5. DOMAIN bs = 1..Len(bs)
  BY <1>1, BlockFields
<1>. HIDE DEF w
<1>6. w.made \in DOMAIN bs /\ w.old \in {0} \cup DOMAIN bs
  BY <1>4, <1>5 DEF BlockFrames
<1>7. t[n].type = "function" => n # 1
  BY DEF IsTree
<1>8. b \in DOMAIN bs /\ bs[b].live /\ bs[b].fn = BuilderIn(t, q)
  <2>1. CASE t[n].type = "function"
    <3>1. w.old # 0
      BY <1>2, <1>4, <1>7, <2>1 DEF FrameOK, NodeFits
    <3>2. w.old \in Mentioned(w)
      BY <1>4, <3>1 DEF Mentioned
    <3>3. bs[w.old].live /\ bs[w.old].fn = FnOf(t, t[n].parent)
      BY <1>2, <1>4, <3>1, <3>2 DEF FrameOK
    <3>4. q # <<>>
      BY <1>3, <1>7, <2>1
    <3>. QED BY <1>3, <1>6, <2>1, <3>1, <3>3, <3>4 DEF BuilderIn
  <2>2. CASE t[n].type # "function"
    <3>1. a \in DOMAIN bs /\ bs[a].live /\ bs[a].fn = FnOf(t, n)
      BY DEF LayoutOK, BuilderIn, w
    <3>. QED BY <1>3, <2>2, <3>1 DEF BuilderIn
  <2>. QED BY <2>1, <2>2
<1>9. ResultOK(t, bs, q, w.made)
  <2>1. bs[w.made].live /\ bs[w.made].fn = FnOf(t, n)
    BY <1>2, <1>4 DEF FrameOK, Mentioned
  <2>2. \A k \in DOMAIN q : q[k].f = "block" => q[k].made # w.made
    BY <1>2, <1>4 DEF Apart
  <2>. QED BY <1>3, <1>6, <2>1, <2>2 DEF ResultOK
<1>10. StackOK(t, fs, OpenIn(t, q))
  <2>1. StackOK(t, fs, FnOf(t, n))
    BY <1>4 DEF LayoutOK, OpenIn, BuilderIn, w
  <2>. QED BY <2>1, <1>3
<1>. HIDE DEF b
<1>11. LayoutOK(t, bs, b, fs, xs, q, w.made)
  BY <1>2, <1>6, <1>8, <1>9, <1>10 DEF LayoutOK
<1>. QED BY <1>11 DEF b, q, w

\* What an action over the visit on top starts from.
LEMMA OverFacts ==
  ASSUME LayoutInv, NEW f, Over(f)
  PROVE  /\ IsTree(prog) /\ LayoutOK(prog, blocks, at, functionStack, exitBlock, work, result)
         /\ work # <<>> /\ Top = work[1] /\ Top.f = f
         /\ BlocksOK(prog, blocks) /\ Len(blocks) \in Nat /\ DOMAIN blocks = 1..Len(blocks)
         /\ at \in DOMAIN blocks /\ work \in Seq(Frames(prog, Len(blocks)))
         /\ Head(functionStack) \in DOMAIN prog
         /\ f # "function" => /\ Head(functionStack) = FnOf(prog, Top.node)
                              /\ StackOK(prog, functionStack, FnOf(prog, Top.node))
<1>1. IsTree(prog) /\ LayoutOK(prog, blocks, at, functionStack, exitBlock, work, result)
      /\ work # <<>> /\ Top.f = f
  BY ProgramsAssumption DEF LayoutInv, Over
<1>2. /\ BlocksOK(prog, blocks) /\ at \in DOMAIN blocks
      /\ work \in Seq(Frames(prog, Len(blocks)))
      /\ StackOK(prog, functionStack, OpenIn(prog, work))
  BY <1>1 DEF LayoutOK
<1>3. Top = work[1]
  BY <1>1, <1>2, TailSeq DEF Top
<1>4. Len(blocks) \in Nat /\ DOMAIN blocks = 1..Len(blocks)
  BY <1>2, BlockFields
<1>5. Head(functionStack) = functionStack[1] /\ functionStack[1] \in DOMAIN prog
  BY <1>2, TailSeq DEF StackOK
<1>6. f # "function" => OpenIn(prog, work) = FnOf(prog, Top.node)
  BY <1>1, <1>3 DEF OpenIn, BuilderIn
<1>. QED BY <1>1, <1>2, <1>3, <1>4, <1>5, <1>6 DEF StackOK

\* A block's visit is over and the builder goes back.
LEMMA LeaveBlockKeeps ==
  ASSUME LayoutInv, Over("block"), NEW bs,
         LayoutOK(prog, bs, at, functionStack, exitBlock, work, result),
         LeaveBlock(bs), UNCHANGED <<prog, blockReturn>>
  PROVE  LayoutInv'
<1>1. IsTree(prog) /\ work # <<>> /\ Top = work[1] /\ work[1].f = "block"
  BY OverFacts
<1>2. LayoutOK(prog, bs, IF prog[work[1].node].type = "function" THEN work[1].old ELSE at,
               functionStack, exitBlock, Tail(work), work[1].made)
  BY <1>1, LeaveBlockOK
<1>3. at' = IF prog[work[1].node].type = "function" THEN work[1].old ELSE at
  BY <1>1 DEF LeaveBlock, ReturnTo
<1>4. blocks' = bs /\ work' = Tail(work) /\ result' = work[1].made
      /\ UNCHANGED <<functionStack, exitBlock, status>>
  BY <1>1 DEF LeaveBlock
<1>. QED BY <1>2, <1>3, <1>4 DEF LayoutInv

\* A return is put where the builder is.
LEMMA ReturnOK ==
  ASSUME LayoutInv, NEW f \in DOMAIN prog, Over("block")
  PROVE  LayoutOK(prog, Put(blocks, at, Ret(f)), at, functionStack, exitBlock, work, result)
<1>1. LayoutOK(prog, blocks, at, functionStack, exitBlock, work, result)
      /\ at \in DOMAIN blocks
  BY OverFacts
<1>2. Ret(f) \in Instrs(prog, Len(blocks)) /\ \A c : ~JumpsTo(Ret(f), c)
  <2>1. Len(blocks) \in Nat /\ "return" \in {"expr", "init", "update", "return"}
        /\ f \in {0} \cup DOMAIN prog
    BY OverFacts
  <2>2. \A op \in {"expr", "init", "update", "return"}, m \in {0} \cup DOMAIN prog :
          /\ Instr(op, m, <<>>) \in Instrs(prog, Len(blocks))
          /\ \A c : ~JumpsTo(Instr(op, m, <<>>), c)
    BY <2>1, InstrFacts
  <2>. QED BY <2>1, <2>2 DEF Ret
<1>. QED BY <1>1, <1>2, EmitOK

\* compileBlock adds the terminator that is missing, or throws.
LEMMA EndBlockKeeps ==
  ASSUME LayoutInv, EndBlock, UNCHANGED <<prog, blockReturn>>
  PROVE  LayoutInv'
<1>. DEFINE fun == Head(functionStack)
<1>1. Over("block")
  BY DEF EndBlock
<1>2. LayoutOK(prog, blocks, at, functionStack, exitBlock, work, result)
      /\ fun \in DOMAIN prog /\ 1 \in DOMAIN prog
  BY <1>1, OverFacts, TreeFacts DEF IsTree
<1>3. CASE LeaveBlock(blocks)
  BY <1>1, <1>2, <1>3, LeaveBlockKeeps
<1>4. CASE LeaveBlock(Put(blocks, at, Ret(1)))
  BY <1>1, <1>2, <1>4, ReturnOK, LeaveBlockKeeps
<1>5. CASE LeaveBlock(Put(blocks, at, Ret(fun)))
  BY <1>1, <1>2, <1>5, ReturnOK, LeaveBlockKeeps
<1>6. CASE Throw("internal") \/ Throw("error")
  BY <1>6, ThrowKeeps
<1>. QED BY <1>3, <1>4, <1>5, <1>6 DEF EndBlock

\* A function is popped, and its parent's function is on top again.
LEMMA EndFunctionKeeps ==
  ASSUME LayoutInv, EndFunction, UNCHANGED <<prog, blockReturn>>
  PROVE  LayoutInv'
<1>. DEFINE n == work[1].node
            q == Tail(work)
            fs == Tail(functionStack)
<1>1. /\ IsTree(prog) /\ LayoutOK(prog, blocks, at, functionStack, exitBlock, work, result)
      /\ work # <<>> /\ work[1].f = "function"
  BY OverFacts DEF EndFunction
<1>2. /\ FrameOK(prog, blocks, exitBlock, work[1]) /\ n \in DOMAIN prog
      /\ q = <<>> => n = 1
      /\ q # <<>> => /\ FnOf(prog, n) = IF q[1].f = "function" THEN q[1].node
                                        ELSE FnOf(prog, q[1].node)
                     /\ q[1].f \in {"function", "success", "failiure"} =>
                          prog[n].k \in {"block", "branch"}
  BY <1>1, BelowOK
<1>3. prog[n].k = "function" /\ n # 1
  BY <1>1, <1>2 DEF FrameOK, NodeFits, IsTree
<1>4. q # <<>> /\ q[1].f \notin {"function", "success", "failiure"}
  BY <1>2, <1>3
<1>5. BuilderIn(prog, q) = FnOf(prog, n) /\ OpenIn(prog, q) = FnOf(prog, n)
      /\ ResultOK(prog, blocks, q, result)
  BY <1>2, <1>4 DEF BuilderIn, OpenIn, ResultOK
<1>6. StackOK(prog, fs, FnOf(prog, n))
  <2>1. StackOK(prog, functionStack, n)
    BY <1>1 DEF LayoutOK, OpenIn
  <2>. QED BY <1>1, <1>3, <2>1, StackPop
<1>7. q \in Seq(Frames(prog, Len(blocks))) /\ FramesOK(prog, blocks, exitBlock, q)
  BY <1>1, PopOK DEF LayoutOK
<1>8. blocks[at].fn = FnOf(prog, n)
  BY <1>1 DEF LayoutOK, BuilderIn
<1>. HIDE DEF q, fs, n
<1>9. LayoutOK(prog, blocks, at, fs, exitBlock, q, result)
  BY <1>1, <1>5, <1>6, <1>7, <1>8 DEF LayoutOK
<1>. QED BY <1>9 DEF LayoutInv, EndFunction, q, fs

\* A loop's body jumps back to the test, and the builder goes on behind it.
LEMMA EndLoopKeeps ==
  ASSUME LayoutInv, EndLoop, UNCHANGED <<prog, blockReturn>>
  PROVE  LayoutInv'
<1>. DEFINE w == work[1]
            n == w.node
            q == Tail(work)
            update == Instr("update", n, <<>>)
            bs1 == IF prog[n].update THEN Put(blocks, at, update) ELSE blocks
            bs2 == Put(bs1, at, Jump(w.made))
            Good(bs) == LayoutOK(prog, bs, at, functionStack, exitBlock, work, result)
<1>1. /\ IsTree(prog) /\ Good(blocks) /\ work # <<>> /\ w.f = "loop" /\ Top = w
      /\ StackOK(prog, functionStack, FnOf(prog, n))
  BY OverFacts DEF EndLoop
<1>2. Len(blocks) \in Nat /\ DOMAIN blocks = 1..Len(blocks) /\ at \in DOMAIN blocks
      /\ work \in Seq(Frames(prog, Len(blocks)))
  BY OverFacts DEF EndLoop
<1>3. /\ FrameOK(prog, blocks, exitBlock, w) /\ n \in DOMAIN prog
      /\ q = <<>> => n = 1
      /\ q # <<>> => /\ FnOf(prog, n) = IF q[1].f = "function" THEN q[1].node
                                        ELSE FnOf(prog, q[1].node)
                     /\ q[1].f \in {"function", "success", "failiure"} =>
                          prog[n].k \in {"block", "branch"}
      /\ OpenIn(prog, q) = FnOf(prog, n)
  BY <1>1, BelowOK
<1>4. prog[n].k = "loop" /\ n # 1 /\ w \in LoopFrames(prog, Len(blocks))
      /\ w.made \in Targets(w) /\ w.after \in Targets(w)
  BY <1>1, <1>3, FrameFields DEF FrameOK, NodeFits, IsTree, Targets
<1>5. q # <<>> /\ q[1].f \notin {"function", "success", "failiure"}
  BY <1>3, <1>4
<1>6. /\ w.made \in 1..Len(blocks) /\ w.after \in 1..Len(blocks)
      /\ blocks[w.after].live /\ blocks[w.after].fn = FnOf(prog, n)
  BY <1>3, <1>4 DEF LoopFrames, FrameOK, Owned, Mentioned
<1>7. \A k \in DOMAIN work : work[k].f = "block" => work[k].made # w.made
  <2>. SUFFICES ASSUME NEW k \in DOMAIN work, work[k].f = "block" PROVE work[k].made # w.made
    OBVIOUS
  <2>1. 1 < k /\ 1 \in DOMAIN work
    BY <1>1, <1>2, TailSeq
  <2>2. Apart(w, work[k])
    BY <1>1, <2>1 DEF LayoutOK, FramesOK
  <2>. QED BY <1>4, <2>2 DEF Apart
<1>. HIDE DEF w, n, q
<1>8. update \in Instrs(prog, Len(blocks)) /\ (\A c : ~JumpsTo(update, c))
      /\ Jump(w.made) \in Instrs(prog, Len(blocks)) /\ (\A c : JumpsTo(Jump(w.made), c) <=> c = w.made)
  <2>1. Len(blocks) \in Nat /\ n \in DOMAIN prog /\ w.made \in 1..Len(blocks)
    BY <1>2, <1>3, <1>6
  <2>. QED BY <2>1, InstrFacts
<1>. HIDE DEF update
<1>9. Good(bs1) /\ Len(bs1) = Len(blocks)
      /\ \A b \in DOMAIN blocks : bs1[b].fn = blocks[b].fn /\ bs1[b].live = blocks[b].live
  <2>1. at \in DOMAIN blocks /\ Good(blocks) /\ BlocksOK(prog, blocks)
        /\ update \in Instrs(prog, Len(blocks)) /\ (\A c : ~JumpsTo(update, c))
    BY <1>1, <1>2, <1>8 DEF LayoutOK
  <2>2. Good(Put(blocks, at, update)) /\ Len(Put(blocks, at, update)) = Len(blocks)
    BY <2>1, EmitOK
  <2>3. Grown(prog, blocks, Put(blocks, at, update), {c \in DOMAIN blocks : JumpsTo(update, c)})
    BY <2>1, PutGrows
  <2>. QED BY <2>1, <2>2, <2>3 DEF Grown
<1>. HIDE DEF bs1
<1>10. Good(bs2) /\ \A b \in DOMAIN bs1 : bs2[b].fn = bs1[b].fn /\ bs2[b].live = bs1[b].live
  <2>. DEFINE i == Jump(w.made)
  <2>1. at \in DOMAIN bs1 /\ Good(bs1) /\ BlocksOK(prog, bs1) /\ i \in Instrs(prog, Len(bs1))
    BY <1>8, <1>9 DEF LayoutOK
  <2>2. \A k \in DOMAIN work : work[k].f = "block" => ~JumpsTo(i, work[k].made)
    BY <1>7, <1>8
  <2>. HIDE DEF i
  <2>3. Good(Put(bs1, at, i))
    BY <2>1, <2>2, EmitOK
  <2>4. Grown(prog, bs1, Put(bs1, at, i), {c \in DOMAIN bs1 : JumpsTo(i, c)})
    BY <2>1, PutGrows
  <2>. QED BY <2>3, <2>4 DEF Grown, i
<1>. HIDE DEF bs2
<1>11. w.after \in DOMAIN bs2 /\ bs2[w.after].live /\ bs2[w.after].fn = FnOf(prog, n)
  <2>1. DOMAIN bs1 = 1..Len(bs1) /\ DOMAIN bs2 = 1..Len(bs2) /\ Len(bs1) <= Len(bs2)
    <3>1. BlocksOK(prog, bs1) /\ BlocksOK(prog, bs2)
      BY <1>9, <1>10 DEF LayoutOK
    <3>2. Len(bs2) = Len(bs1)
      <4>1. at \in DOMAIN bs1 /\ Jump(w.made) \in Instrs(prog, Len(bs1))
        BY <1>8, <1>9 DEF LayoutOK
      <4>. QED BY <3>1, <4>1, PutGrows DEF bs2
    <3>. QED BY <3>1, <3>2, BlockFields
  <2>. QED BY <1>2, <1>6, <1>9, <1>10, <2>1
<1>12. BuilderIn(prog, q) = FnOf(prog, n) /\ ResultOK(prog, bs2, q, result)
  BY <1>3, <1>5 DEF BuilderIn, ResultOK
<1>13. q \in Seq(Frames(prog, Len(bs2))) /\ FramesOK(prog, bs2, exitBlock, q)
  BY <1>1, <1>10, PopOK DEF LayoutOK, q
<1>14. LayoutOK(prog, bs2, w.after, functionStack, exitBlock, q, result)
  BY <1>1, <1>3, <1>10, <1>11, <1>12, <1>13 DEF LayoutOK
<1>15. /\ blocks' = bs2 /\ at' = w.after /\ work' = q
       /\ UNCHANGED <<functionStack, exitBlock, result, status>>
  BY <1>1 DEF EndLoop, bs1, bs2, q, update, n
<1>. QED BY <1>14, <1>15 DEF LayoutInv

(***************************************************************************)
(* Branches                                                                *)
(***************************************************************************)
\* Block e, which an earlier one of its function precedes and to which nothing
\* that is still to be done refers, is erased.
Erased(bs, e) == [bs EXCEPT ![e].live = FALSE]

\* The layout outlives the erasure of such a block.
LEMMA EraseOK ==
  ASSUME NEW t, NEW bs, NEW a, NEW fs, NEW xs, NEW s, NEW r, LayoutOK(t, bs, a, fs, xs, s, r),
         NEW e \in DOMAIN bs, a # e, e \notin Exits(xs),
         \A k \in DOMAIN s : e \notin Mentioned(s[k]),
         NEW c \in DOMAIN bs, c < e, bs[c].fn = bs[e].fn,
         s # <<>> => s[1].f \notin {"success", "failiure"}
  PROVE  LayoutOK(t, Erased(bs, e), a, fs, xs, s, r)
<1>. DEFINE N == Len(bs)
            bs2 == Erased(bs, e)
<1>1. /\ BlocksOK(t, bs) /\ DOMAIN bs = 1..N /\ N \in Nat /\ bs \in Seq(BlockSet(t, N))
      /\ \A b \in DOMAIN bs : bs[b] \in BlockSet(t, N)
  BY BlockFields DEF LayoutOK, BlocksOK
<1>2. /\ DOMAIN bs2 = DOMAIN bs
      /\ bs2[e] = [bs[e] EXCEPT !.live = FALSE]
      /\ \A b \in DOMAIN bs : b # e => bs2[b] = bs[b]
  BY <1>1 DEF Erased
<1>3. bs2[e] \in BlockSet(t, N) /\ bs2[e].fn = bs[e].fn /\ bs2[e].code = bs[e].code
  BY <1>1, <1>2 DEF BlockSet
<1>4. bs2 \in Seq(BlockSet(t, N)) /\ Len(bs2) = N
  <2>1. bs2 \in [1..N -> BlockSet(t, N)]
    BY <1>1, <1>2, <1>3 DEF Erased
  <2>. QED BY <2>1, <1>1
<1>. HIDE DEF bs2
<1>5. \A b \in DOMAIN bs : bs2[b].fn = bs[b].fn /\ bs2[b].code = bs[b].code
  BY <1>2, <1>3
<1>6. BlocksOK(t, bs2)
  <2>1. ASSUME NEW b \in DOMAIN bs2, ~bs2[b].live
        PROVE  \E d \in DOMAIN bs2 : d < b /\ bs2[d].fn = bs2[b].fn
    <3>1. CASE b = e
      BY <3>1, <1>2, <1>5
    <3>2. CASE b # e
      BY <3>2, <2>1, <1>1, <1>2, <1>5 DEF BlocksOK
    <3>. QED BY <3>1, <3>2
  <2>. QED BY <2>1, <1>4 DEF BlocksOK
<1>7. Jumped(bs2) = Jumped(bs)
  BY <1>2, <1>5 DEF Jumped
<1>8. ASSUME NEW k \in DOMAIN s PROVE FrameOK(t, bs2, xs, s[k])
  <2>1. FrameOK(t, bs, xs, s[k]) /\ e \notin Mentioned(s[k])
    BY DEF LayoutOK, FramesOK
  <2>2. /\ Owned(s[k]) \subseteq DOMAIN bs /\ Mentioned(s[k]) \subseteq DOMAIN bs
        /\ s[k].f = "block" => s[k].old \in {0} \cup DOMAIN bs
    BY <2>1, <1>1, FrameFields DEF FrameOK, BlockFrames
  <2>3. \A b \in Mentioned(s[k]) : bs2[b].live
    BY <2>1, <2>2, <1>2 DEF FrameOK
  <2>. QED BY <2>1, <2>2, <2>3, <1>4, <1>5, <1>7 DEF FrameOK
<1>9. FramesOK(t, bs2, xs, s)
  BY <1>8 DEF FramesOK, LayoutOK
<1>10. ExitsOK(t, bs2, xs)
  <2>1. ExitsOK(t, bs, xs)
    BY DEF LayoutOK
  <2>2. Exits(xs) \subseteq DOMAIN bs
    BY <2>1 DEF ExitsOK, Exits
  <2>. QED BY <2>1, <2>2, <1>2 DEF ExitsOK
<1>11. a \in DOMAIN bs2 /\ bs2[a].live /\ bs2[a].fn = BuilderIn(t, s)
  BY <1>2 DEF LayoutOK
<1>12. LayoutOK(t, bs2, a, fs, xs, s, r)
  BY <1>2, <1>4, <1>6, <1>9, <1>10, <1>11 DEF LayoutOK, ResultOK
<1>. QED BY <1>12 DEF bs2

\* The visit of a branch is over; the builder goes to block b.
LEMMA LeaveBranchOK ==
  ASSUME NEW t, IsTree(t), NEW bs, NEW a, NEW fs, NEW xs, NEW s, NEW r,
         LayoutOK(t, bs, a, fs, xs, s, r), s # <<>>, InBranch(s[1]),
         NEW b \in DOMAIN bs, bs[b].live, bs[b].fn = FnOf(t, s[1].node)
  PROVE  /\ LayoutOK(t, bs, b, fs, xs, Tail(s), r)
         /\ Tail(s) # <<>> /\ Tail(s)[1].f \notin {"success", "failiure", "function"}
<1>. DEFINE w == s[1]
            n == w.node
            q == Tail(s)
<1>1. s \in Seq(Frames(t, Len(bs))) /\ FramesOK(t, bs, xs, s) /\ BlocksOK(t, bs)
  BY DEF LayoutOK
<1>2. /\ q \in Seq(Frames(t, Len(bs))) /\ FramesOK(t, bs, xs, q) /\ FrameOK(t, bs, xs, w)
      /\ IF q = <<>> THEN n = 1 ELSE Under(t, w, q[1])
  BY <1>1, PopOK
<1>3. /\ n \in DOMAIN t
      /\ q # <<>> => /\ FnOf(t, n) = IF q[1].f = "function" THEN q[1].node
                                     ELSE FnOf(t, q[1].node)
                     /\ q[1].f = "function" => t[n].k = "block"
      /\ w.f # "function" => OpenIn(t, q) = FnOf(t, n)
  BY BelowOK
<1>4. w.f # "function" /\ t[n].k = "branch" /\ n # 1
  BY <1>2 DEF InBranch, FrameOK, NodeFits, IsTree
<1>5. q # <<>> /\ q[1].f \notin {"success", "failiure", "function"}
  BY <1>2, <1>3, <1>4 DEF Under
<1>6. StackOK(t, fs, OpenIn(t, q))
  BY <1>3, <1>4 DEF LayoutOK, OpenIn, BuilderIn
<1>7. BuilderIn(t, q) = FnOf(t, n) /\ ResultOK(t, bs, q, r)
  BY <1>3, <1>5 DEF BuilderIn, ResultOK
<1>. HIDE DEF w, n, q
<1>8. LayoutOK(t, bs, b, fs, xs, q, r)
  BY <1>2, <1>6, <1>7 DEF LayoutOK, n, w
<1>. QED BY <1>5, <1>8 DEF q

\* handleBranchExit: `after` belongs to this visit alone when it is outer.
LEMMA BranchExitOK ==
  ASSUME NEW t, IsTree(t), NEW bs, NEW a, NEW fs, NEW xs, NEW s, NEW r,
         LayoutOK(t, bs, a, fs, xs, s, r), s # <<>>, InBranch(s[1]),
         NEW old \in DOMAIN bs, bs[old].live, bs[old].fn = FnOf(t, s[1].node),
         NEW success \in DOMAIN bs,
         NEW after \in DOMAIN bs, bs[after].live, bs[after].fn = FnOf(t, s[1].node),
         \A k \in DOMAIN Tail(s) : Tail(s)[k].f = "block" => Tail(s)[k].made # after,
         NEW outer,
         outer => /\ old < after /\ after \notin Exits(xs)
                  /\ \A k \in DOMAIN Tail(s) : after \notin Mentioned(Tail(s)[k]),
         NEW back,
         NEW erase, erase => outer
  PROVE  LET jumped == IF back THEN Put(bs, success, Jump(after)) ELSE bs IN
         LayoutOK(t, IF erase THEN Erased(jumped, after) ELSE jumped,
                  IF erase THEN old ELSE after, fs, xs, Tail(s), r)
<1>. DEFINE q == Tail(s)
            jumped == IF back THEN Put(bs, success, Jump(after)) ELSE bs
            Good(cs, b) == LayoutOK(t, cs, b, fs, xs, q, r)
<1>1. Good(bs, old) /\ Good(bs, after) /\ q # <<>>
      /\ q[1].f \notin {"success", "failiure"}
  BY LeaveBranchOK
<1>. HIDE DEF q
<1>2. BlocksOK(t, bs) /\ Len(bs) \in Nat /\ DOMAIN bs = 1..Len(bs)
  BY <1>1, BlockFields DEF LayoutOK
<1>3. Jump(after) \in Instrs(t, Len(bs)) /\ \A c : JumpsTo(Jump(after), c) <=> c = after
  <2>1. Len(bs) \in Nat /\ after \in 1..Len(bs)
    BY <1>2
  <2>2. \A b \in 1..Len(bs) :
          Jump(b) \in Instrs(t, Len(bs)) /\ \A c : JumpsTo(Jump(b), c) <=> c = b
    BY <2>1, InstrFacts
  <2>. QED BY <2>1, <2>2
<1>4. /\ Good(jumped, old) /\ Good(jumped, after) /\ DOMAIN jumped = DOMAIN bs
      /\ \A b \in DOMAIN bs : jumped[b].fn = bs[b].fn
  <2>. DEFINE i == Jump(after)
  <2>1. i \in Instrs(t, Len(bs)) /\ \A k \in DOMAIN q : q[k].f = "block" => ~JumpsTo(i, q[k].made)
    BY <1>3 DEF q
  <2>. HIDE DEF i
  <2>2. Good(bs, old) /\ Good(bs, after) /\ BlocksOK(t, bs)
    BY <1>1, <1>2
  <2>3. Good(Put(bs, success, i), old) /\ Good(Put(bs, success, i), after)
    BY <2>1, <2>2, EmitOK
  <2>4. Grown(t, bs, Put(bs, success, i), {c \in DOMAIN bs : JumpsTo(i, c)})
        /\ Len(Put(bs, success, i)) = Len(bs)
    BY <2>1, <2>2, PutGrows
  <2>5. DOMAIN Put(bs, success, i) = DOMAIN bs
    BY <2>4, <1>2, BlockFields DEF Grown
  <2>. QED BY <2>2, <2>3, <2>4, <2>5 DEF Grown, i
<1>. HIDE DEF jumped
<1>5. CASE erase
  <2>1. /\ old < after /\ after \notin Exits(xs) /\ old # after
        /\ \A k \in DOMAIN q : after \notin Mentioned(q[k])
    BY <1>2, <1>5 DEF q
  <2>2. /\ old \in DOMAIN jumped /\ after \in DOMAIN jumped /\ jumped[old].fn = jumped[after].fn
        /\ Good(jumped, old)
    BY <1>4
  <2>3. Good(Erased(jumped, after), old)
    BY <1>1, <2>1, <2>2, EraseOK
  <2>. QED BY <1>5, <2>3 DEF q, jumped
<1>6. CASE ~erase
  BY <1>4, <1>6 DEF q, jumped
<1>. QED BY <1>5, <1>6

\* The blocks of bs2 are those of bs, but for their code.
SameBlocks(bs, bs2) ==
  /\ DOMAIN bs2 = DOMAIN bs /\ Len(bs2) = Len(bs)
  /\ \A b \in DOMAIN bs : bs2[b].fn = bs[b].fn /\ bs2[b].live = bs[b].live

\* An instruction changes nothing but the code of its block.
LEMMA EmitSame ==
  ASSUME NEW t, NEW bs, NEW a, NEW fs, NEW xs, NEW s, NEW r, LayoutOK(t, bs, a, fs, xs, s, r),
         NEW b \in DOMAIN bs, NEW i \in Instrs(t, Len(bs)),
         \A k \in DOMAIN s : s[k].f = "block" => ~JumpsTo(i, s[k].made)
  PROVE  LayoutOK(t, Put(bs, b, i), a, fs, xs, s, r) /\ SameBlocks(bs, Put(bs, b, i))
<1>1. BlocksOK(t, bs)
  BY DEF LayoutOK
<1>2. Grown(t, bs, Put(bs, b, i), {c \in DOMAIN bs : JumpsTo(i, c)})
      /\ Len(Put(bs, b, i)) = Len(bs)
  BY <1>1, PutGrows
<1>3. DOMAIN Put(bs, b, i) = DOMAIN bs
  BY <1>1, <1>2, BlockFields DEF Grown
<1>. QED BY <1>2, <1>3, EmitOK DEF SameBlocks, Grown

\* What a visit on top that is no block's refers to, no block below is filled at.
LEMMA TopSpares ==
  ASSUME NEW t, NEW bs, NEW xs, NEW s \in Seq(Frames(t, Len(bs))), FramesOK(t, bs, xs, s),
         s # <<>>, s[1].f # "block", NEW k \in DOMAIN s, s[k].f = "block"
  PROVE  s[k].made \notin Targets(s[1])
<1>1. 1 \in DOMAIN s /\ 1 < k
  BY TailSeq
<1>2. Apart(s[1], s[k])
  BY <1>1 DEF FramesOK
<1>. QED BY <1>2 DEF Apart

\* The end of a branch, with the erasure of continueCurrent.
LEMMA BranchExitKeeps ==
  ASSUME LayoutInv, work # <<>>, InBranch(work[1]), NEW bs,
         LayoutOK(prog, bs, at, functionStack, exitBlock, work, result),
         NEW old \in DOMAIN bs, bs[old].live, bs[old].fn = FnOf(prog, work[1].node),
         NEW success \in DOMAIN bs,
         NEW after \in DOMAIN bs, bs[after].live, bs[after].fn = FnOf(prog, work[1].node),
         \A k \in DOMAIN Tail(work) : Tail(work)[k].f = "block" => Tail(work)[k].made # after,
         NEW outer,
         outer => /\ old < after /\ after \notin Exits(exitBlock)
                  /\ \A k \in DOMAIN Tail(work) : after \notin Mentioned(Tail(work)[k]),
         NEW used, BranchExit(bs, old, success, after, outer, used), UNCHANGED <<prog, blockReturn>>
  PROVE  LayoutInv'
<1>. DEFINE back == ~Terminated(bs, success)
            jumped == IF back THEN Put(bs, success, Jump(after)) ELSE bs
            erase == Unused(jumped, after, outer, used \/ back)
<1>1. IsTree(prog) /\ (erase => outer)
  BY ProgramsAssumption DEF LayoutInv, Unused
<1>2. /\ blocks' = IF erase THEN Erased(jumped, after) ELSE jumped
      /\ at' = IF erase THEN old ELSE after
      /\ work' = Tail(work) /\ UNCHANGED <<functionStack, exitBlock, result, status>>
  BY DEF BranchExit, Erased
<1>. HIDE DEF erase, back
<1>3. LayoutOK(prog, IF erase THEN Erased(jumped, after) ELSE jumped,
               IF erase THEN old ELSE after, functionStack, exitBlock, Tail(work), result)
  BY <1>1, BranchExitOK
<1>. QED BY <1>2, <1>3 DEF LayoutInv

\* Both sides of a branch were compiled.
LEMMA AfterFailiureKeeps ==
  ASSUME LayoutInv, AfterFailiure, UNCHANGED <<prog, blockReturn>>
  PROVE  LayoutInv'
<1>. DEFINE w == work[1]
            n == w.node
            back == ~Terminated(blocks, result)
            bs1 == IF back THEN Put(blocks, result, Jump(w.after)) ELSE blocks
            bs2 == Put(bs1, w.old, CondBr(n, w.made, result))
            Good(bs) == LayoutOK(prog, bs, at, functionStack, exitBlock, work, result)
<1>1. Good(blocks) /\ work # <<>> /\ w.f = "failiure" /\ Top = w
  BY OverFacts DEF AfterFailiure
<1>2. Len(blocks) \in Nat /\ DOMAIN blocks = 1..Len(blocks)
  BY OverFacts DEF AfterFailiure
<1>3. work \in Seq(Frames(prog, Len(blocks))) /\ FramesOK(prog, blocks, exitBlock, work)
  BY <1>1 DEF LayoutOK
<1>4. /\ FrameOK(prog, blocks, exitBlock, w)
      /\ \A k \in DOMAIN Tail(work) : Apart(w, Tail(work)[k])
  BY <1>1, <1>3, PopOK
<1>5. /\ n \in DOMAIN prog /\ w.old \in 1..Len(blocks) /\ w.made \in 1..Len(blocks)
      /\ w.after \in 1..Len(blocks) /\ InBranch(w)
      /\ Targets(w) = {w.made, w.after} /\ w.old \in Owned(w) /\ w.after \in Owned(w)
  BY <1>1, <1>4, FrameFields DEF FrameOK, FailiureFrames, Targets, Owned, InBranch
<1>6. /\ \A b \in {w.old, w.after} : blocks[b].live /\ blocks[b].fn = FnOf(prog, n)
      /\ w.outer => w.old < w.after /\ w.after \notin Exits(exitBlock)
  BY <1>1, <1>4, <1>5 DEF FrameOK, Mentioned, MayErase
<1>7. result \in 1..Len(blocks) /\ \A k \in DOMAIN work : work[k].f = "block" => work[k].made # result
  BY <1>1, <1>2 DEF LayoutOK, ResultOK
<1>8. \A k \in DOMAIN work : work[k].f = "block" => work[k].made \notin {w.made, w.after}
  BY <1>1, <1>3, <1>5, TopSpares
<1>9. /\ \A k \in DOMAIN Tail(work) : Tail(work)[k].f = "block" => Tail(work)[k].made # w.after
      /\ w.outer => \A k \in DOMAIN Tail(work) : w.after \notin Mentioned(Tail(work)[k])
  BY <1>1, <1>4, <1>5 DEF Apart, MayErase
<1>. HIDE DEF w, n
<1>10. /\ Jump(w.after) \in Instrs(prog, Len(blocks))
       /\ \A c : JumpsTo(Jump(w.after), c) <=> c = w.after
       /\ CondBr(n, w.made, result) \in Instrs(prog, Len(blocks))
       /\ \A c : JumpsTo(CondBr(n, w.made, result), c) <=> c \in {w.made, result}
  <2>1. Len(blocks) \in Nat /\ n \in DOMAIN prog /\ w.after \in 1..Len(blocks)
        /\ w.made \in 1..Len(blocks) /\ result \in 1..Len(blocks)
    BY <1>2, <1>5, <1>7
  <2>. QED BY <2>1, InstrFacts DEF CondBr
<1>11. Good(bs1) /\ SameBlocks(blocks, bs1)
  <2>. DEFINE i == Jump(w.after)
  <2>1. Good(blocks) /\ result \in DOMAIN blocks /\ i \in Instrs(prog, Len(blocks))
    BY <1>1, <1>2, <1>7, <1>10
  <2>2. \A k \in DOMAIN work : work[k].f = "block" => ~JumpsTo(i, work[k].made)
    BY <1>8, <1>10
  <2>. HIDE DEF i
  <2>3. Good(Put(blocks, result, i)) /\ SameBlocks(blocks, Put(blocks, result, i))
    BY <2>1, <2>2, EmitSame
  <2>. QED BY <2>1, <2>3 DEF SameBlocks, i
<1>. HIDE DEF bs1
<1>12. Good(bs2) /\ SameBlocks(blocks, bs2)
  <2>. DEFINE i == CondBr(n, w.made, result)
  <2>1. Good(bs1) /\ w.old \in DOMAIN bs1 /\ i \in Instrs(prog, Len(bs1))
    BY <1>2, <1>5, <1>10, <1>11 DEF SameBlocks
  <2>2. \A k \in DOMAIN work : work[k].f = "block" => ~JumpsTo(i, work[k].made)
    BY <1>7, <1>8, <1>10
  <2>. HIDE DEF i
  <2>3. Good(Put(bs1, w.old, i)) /\ SameBlocks(bs1, Put(bs1, w.old, i))
    BY <2>1, <2>2, EmitSame
  <2>. QED BY <2>3, <1>11 DEF SameBlocks, i
<1>. HIDE DEF bs2
<1>13. BranchExit(bs2, w.old, w.made, w.after, w.outer, back)
  BY <1>1 DEF AfterFailiure, bs1, bs2, n
<1>. HIDE DEF back
<1>14. /\ w.old \in DOMAIN bs2 /\ bs2[w.old].live /\ bs2[w.old].fn = FnOf(prog, n)
       /\ w.after \in DOMAIN bs2 /\ bs2[w.after].live /\ bs2[w.after].fn = FnOf(prog, n)
       /\ w.made \in DOMAIN bs2
  BY <1>2, <1>5, <1>6, <1>12 DEF SameBlocks
<1>. QED BY <1>1, <1>5, <1>6, <1>9, <1>12, <1>13, <1>14, BranchExitKeeps DEF w, n

\* The else-ifs of a branch were compiled.
LEMMA AfterNextKeeps ==
  ASSUME LayoutInv, AfterNext, UNCHANGED <<prog, blockReturn>>
  PROVE  LayoutInv'
<1>. DEFINE w == work[1]
            n == w.node
            bs2 == Put(blocks, w.old, CondBr(n, w.made, w.other))
            Good(bs) == LayoutOK(prog, bs, at, functionStack, exitBlock, work, result)
<1>1. Good(blocks) /\ work # <<>> /\ w.f = "next" /\ Top = w
  BY OverFacts DEF AfterNext
<1>2. Len(blocks) \in Nat /\ DOMAIN blocks = 1..Len(blocks)
  BY OverFacts DEF AfterNext
<1>3. work \in Seq(Frames(prog, Len(blocks))) /\ FramesOK(prog, blocks, exitBlock, work)
  BY <1>1 DEF LayoutOK
<1>4. /\ FrameOK(prog, blocks, exitBlock, w)
      /\ \A k \in DOMAIN Tail(work) : Apart(w, Tail(work)[k])
  BY <1>1, <1>3, PopOK
<1>5. /\ n \in DOMAIN prog /\ w.old \in 1..Len(blocks) /\ w.made \in 1..Len(blocks)
      /\ w.after \in 1..Len(blocks) /\ w.other \in 1..Len(blocks) /\ InBranch(w)
      /\ Targets(w) = {w.made, w.after, w.other} /\ w.old \in Owned(w) /\ w.after \in Owned(w)
  BY <1>1, <1>4, FrameFields DEF FrameOK, NextFrames, Targets, Owned, InBranch
<1>6. /\ \A b \in {w.old, w.after} : blocks[b].live /\ blocks[b].fn = FnOf(prog, n)
      /\ w.outer => w.old < w.after /\ w.after \notin Exits(exitBlock)
  BY <1>1, <1>4, <1>5 DEF FrameOK, Mentioned, MayErase
<1>7. \A k \in DOMAIN work : work[k].f = "block" => work[k].made \notin {w.made, w.after, w.other}
  BY <1>1, <1>3, <1>5, TopSpares
<1>8. /\ \A k \in DOMAIN Tail(work) : Tail(work)[k].f = "block" => Tail(work)[k].made # w.after
      /\ w.outer => \A k \in DOMAIN Tail(work) : w.after \notin Mentioned(Tail(work)[k])
  BY <1>1, <1>4, <1>5 DEF Apart, MayErase
<1>. HIDE DEF w, n
<1>9. /\ CondBr(n, w.made, w.other) \in Instrs(prog, Len(blocks))
      /\ \A c : JumpsTo(CondBr(n, w.made, w.other), c) <=> c \in {w.made, w.other}
  <2>1. Len(blocks) \in Nat /\ n \in DOMAIN prog
        /\ w.made \in 1..Len(blocks) /\ w.other \in 1..Len(blocks)
    BY <1>2, <1>5
  <2>. QED BY <2>1, InstrFacts DEF CondBr
<1>10. Good(bs2) /\ SameBlocks(blocks, bs2)
  <2>. DEFINE i == CondBr(n, w.made, w.other)
  <2>1. Good(blocks) /\ w.old \in DOMAIN blocks /\ i \in Instrs(prog, Len(blocks))
    BY <1>1, <1>2, <1>5, <1>9
  <2>2. \A k \in DOMAIN work : work[k].f = "block" => ~JumpsTo(i, work[k].made)
    BY <1>7, <1>9
  <2>. HIDE DEF i
  <2>3. Good(Put(blocks, w.old, i)) /\ SameBlocks(blocks, Put(blocks, w.old, i))
    BY <2>1, <2>2, EmitSame
  <2>. QED BY <2>3 DEF i
<1>11. BranchExit(bs2, w.old, w.made, w.after, w.outer, FALSE)
  BY <1>1 DEF AfterNext, n
<1>. HIDE DEF bs2
<1>12. /\ w.old \in DOMAIN bs2 /\ bs2[w.old].live /\ bs2[w.old].fn = FnOf(prog, n)
       /\ w.after \in DOMAIN bs2 /\ bs2[w.after].live /\ bs2[w.after].fn = FnOf(prog, n)
       /\ w.made \in DOMAIN bs2
  BY <1>2, <1>5, <1>6, <1>10 DEF SameBlocks
<1>. QED BY <1>1, <1>5, <1>6, <1>8, <1>10, <1>11, <1>12, BranchExitKeeps DEF w, n

\* The blocks, and continueCurrent, once the success block is compiled.
ContinueBlocks ==
  IF Top.after = 0 THEN Append(blocks, Fresh(Head(functionStack))) ELSE blocks
ContinueCurrent == IF Top.after = 0 THEN Len(ContinueBlocks) ELSE Top.after

\* What AfterSuccess starts from.
LEMMA SuccessFacts ==
  ASSUME LayoutInv, Over("success")
  PROVE  LET w == work[1]
             n == work[1].node
             f == FnOf(prog, n)
             bs == ContinueBlocks
             after == ContinueCurrent
         IN  /\ IsTree(prog) /\ Top = w /\ w.node \in DOMAIN prog /\ prog[n].k = "branch"
             /\ work # <<>> /\ w.f = "success" /\ InBranch(w)
             /\ Tail(work) \in Seq(Frames(prog, Len(bs)))
             /\ FramesOK(prog, bs, exitBlock, Tail(work))
             /\ Tail(work) # <<>> /\ Under(prog, w, Tail(work)[1])
             /\ LayoutOK(prog, bs, at, functionStack, exitBlock, work, result)
             /\ BlocksOK(prog, bs) /\ ExitsOK(prog, bs, exitBlock)
             /\ DOMAIN bs = 1..Len(bs) /\ Len(bs) \in Nat
             /\ at \in DOMAIN bs /\ bs[at].live /\ bs[at].fn = f
             /\ \A b \in {w.old, result, after} : b \in DOMAIN bs /\ bs[b].live /\ bs[b].fn = f
             /\ \A k \in DOMAIN work : work[k].f = "block" => work[k].made \notin {result, after}
             /\ \A k \in DOMAIN Tail(work) :
                  Tail(work)[k].f = "block" => Tail(work)[k].made \notin {result, after}
             /\ w.after = 0 =>
                  /\ w.old < after /\ after \notin Exits(exitBlock)
                  /\ \A k \in DOMAIN Tail(work) : after \notin Mentioned(Tail(work)[k])
             /\ Head(functionStack) = f /\ StackOK(prog, functionStack, f)
             /\ LoopOpen(prog, exitBlock, n)
<1>. DEFINE w == work[1]
            n == work[1].node
            f == FnOf(prog, n)
            bs == ContinueBlocks
            after == ContinueCurrent
            Good(cs) == LayoutOK(prog, cs, at, functionStack, exitBlock, work, result)
<1>1. /\ IsTree(prog) /\ Good(blocks) /\ work # <<>> /\ w.f = "success" /\ Top = w
      /\ Head(functionStack) = f /\ StackOK(prog, functionStack, f) /\ f \in DOMAIN prog
  BY OverFacts
<1>2. Len(blocks) \in Nat /\ DOMAIN blocks = 1..Len(blocks)
  BY OverFacts
<1>3. work \in Seq(Frames(prog, Len(blocks))) /\ FramesOK(prog, blocks, exitBlock, work)
  BY <1>1 DEF LayoutOK
<1>4. FrameOK(prog, blocks, exitBlock, w)
      /\ (IF Tail(work) = <<>> THEN n = 1 ELSE Under(prog, w, Tail(work)[1]))
  BY <1>1, <1>3, PopOK
<1>5. /\ n \in DOMAIN prog /\ prog[n].k = "branch" /\ InBranch(w) /\ w.old \in 1..Len(blocks)
      /\ w.after \in {0} \cup 1..Len(blocks) /\ w.old \in Owned(w)
      /\ Targets(w) = {w.after} \ {0}
      /\ LoopOpen(prog, exitBlock, n)
  BY <1>1, <1>4, FrameFields DEF FrameOK, SuccessFrames, Targets, Owned, InBranch, NodeFits
<1>6. Tail(work) # <<>> /\ Under(prog, w, Tail(work)[1])
  BY <1>1, <1>4, <1>5 DEF IsTree
<1>7. \A b \in {w.old, w.after} : b # 0 => blocks[b].live /\ blocks[b].fn = f
  BY <1>1, <1>4, <1>5 DEF FrameOK, Mentioned, Owned
<1>8. /\ result \in 1..Len(blocks) /\ blocks[result].live /\ blocks[result].fn = f
      /\ \A k \in DOMAIN work : work[k].f = "block" => work[k].made # result
  BY <1>1, <1>2 DEF LayoutOK, ResultOK
<1>9. \A k \in DOMAIN work : work[k].f = "block" => work[k].made \notin {w.after} \ {0}
  BY <1>1, <1>3, <1>5, TopSpares
<1>. HIDE DEF w, n, f
<1>10. /\ Good(bs) /\ Len(blocks) <= Len(bs) /\ after \in DOMAIN bs
       /\ bs[after].live /\ bs[after].fn = f
       /\ \A b \in DOMAIN blocks : b \in DOMAIN bs /\ bs[b].live = blocks[b].live
                                   /\ bs[b].fn = blocks[b].fn
       /\ w.after = 0 => after > Len(blocks) /\ after \in Nat
       /\ w.after # 0 => after = w.after
  <2>1. CASE w.after = 0
    <3>1. bs = Append(blocks, Fresh(f)) /\ after = Len(bs)
      BY <1>1, <2>1 DEF ContinueBlocks, ContinueCurrent
    <3>. HIDE DEF bs, after
    <3>2. Good(blocks) /\ f \in DOMAIN prog
      BY <1>1
    <3>3. LET b2 == Append(blocks, Fresh(f)) IN
          /\ Good(b2) /\ Grown(prog, blocks, b2, {})
          /\ DOMAIN b2 = 1..Len(b2)
          /\ Len(b2) = Len(blocks) + 1 /\ b2[Len(b2)].fn = f /\ b2[Len(b2)].live
      BY <3>2, AppendOK
    <3>4. /\ Good(bs) /\ Grown(prog, blocks, bs, {}) /\ DOMAIN bs = 1..Len(bs)
          /\ Len(bs) = Len(blocks) + 1 /\ bs[after].fn = f /\ bs[after].live
      BY <3>1, <3>3
    <3>. QED BY <1>2, <2>1, <3>1, <3>4 DEF Grown
  <2>2. CASE w.after # 0
    <3>1. bs = blocks /\ after = w.after
      BY <1>1, <2>2 DEF ContinueBlocks, ContinueCurrent
    <3>. QED BY <1>1, <1>2, <1>5, <1>7, <2>2, <3>1
  <2>. QED BY <2>1, <2>2
<1>. HIDE DEF bs, after
<1>11. \A k \in DOMAIN work :
         /\ work[k].f = "block" => work[k].made # after
         /\ w.after = 0 => after \notin Mentioned(work[k])
  <2>. SUFFICES ASSUME NEW k \in DOMAIN work
                PROVE  /\ work[k].f = "block" => work[k].made # after
                       /\ w.after = 0 => after \notin Mentioned(work[k])
    OBVIOUS
  <2>1. CASE w.after = 0
    <3>1. after > Len(blocks) /\ after \in Nat
      BY <1>10, <2>1
    <3>. QED BY <1>2, <1>3, <2>1, <3>1, NothingBeyond
  <2>2. CASE w.after # 0
    BY <1>9, <1>10, <2>2
  <2>. QED BY <2>1, <2>2
<1>12. w.after = 0 => w.old < after /\ after \notin Exits(exitBlock)
  <2>1. Exits(exitBlock) \subseteq DOMAIN blocks
    BY <1>1 DEF LayoutOK, ExitsOK, Exits
  <2>. QED BY <1>2, <1>5, <1>10, <2>1
<1>13. work \in Seq(Frames(prog, Len(bs))) /\ FramesOK(prog, bs, exitBlock, work)
       /\ BlocksOK(prog, bs) /\ ExitsOK(prog, bs, exitBlock)
  BY <1>10 DEF LayoutOK
<1>14. Tail(work) \in Seq(Frames(prog, Len(bs))) /\ FramesOK(prog, bs, exitBlock, Tail(work))
  BY <1>1, <1>13, PopOK
<1>15. DOMAIN bs = 1..Len(bs) /\ Len(bs) \in Nat
  BY <1>13, BlockFields
<1>16. at \in DOMAIN bs /\ bs[at].live /\ bs[at].fn = f
  BY <1>1, <1>10 DEF LayoutOK, BuilderIn, w, f, n
<1>17. \A b \in {w.old, result, after} : b \in DOMAIN bs /\ bs[b].live /\ bs[b].fn = f
  BY <1>2, <1>5, <1>7, <1>8, <1>10
<1>18. \A k \in DOMAIN Tail(work) : /\ Tail(work)[k] = work[k + 1] /\ k + 1 \in DOMAIN work
  BY <1>1, <1>3, TailSeq
<1>. QED BY <1>1, <1>5, <1>6, <1>8, <1>10, <1>11, <1>12, <1>13, <1>14, <1>15, <1>16, <1>17, <1>18, SMTT(30)
         DEF w, n, f, bs, after

\* compileBranch goes on to the other side: its visit is now x.
LEMMA OtherSideOK ==
  ASSUME NEW t, IsTree(t), NEW bs, NEW xs, NEW s \in Seq(Frames(t, Len(bs))),
         FramesOK(t, bs, xs, s), s # <<>>,
         NEW x \in Frames(t, Len(bs)), x.f \in {"failiure", "next"},
         t[x.node].k = "branch", LoopOpen(t, xs, x.node),
         t[x.node].parent = Body(t, s[1]), s[1].f \notin {"success", "failiure"},
         \A b \in Targets(x) \cup {x.old} : bs[b].live /\ bs[b].fn = FnOf(t, x.node),
         \A k \in DOMAIN s : s[k].f = "block" => s[k].made \notin Targets(x),
         x.outer => /\ x.old < x.after /\ x.after \notin Exits(xs)
                    /\ \A k \in DOMAIN s : x.after \notin Mentioned(s[k])
  PROVE  /\ <<x>> \o s \in Seq(Frames(t, Len(bs))) /\ FramesOK(t, bs, xs, <<x>> \o s)
         /\ <<x>> \o s # <<>> /\ (<<x>> \o s)[1] = x
<1>1. InBranch(x) /\ Mentioned(x) = Targets(x) \cup {x.old} /\ Owned(x) = Mentioned(x)
      /\ (MayErase(x) => x.outer)
  BY DEF InBranch, Mentioned, Owned, MayErase
<1>2. NodeFits(t, x)
  BY DEF NodeFits, InBranch
<1>3. FrameOK(t, bs, xs, x)
  BY <1>1, <1>2 DEF FrameOK
<1>4. \A k \in DOMAIN s : Apart(x, s[k])
  BY <1>1 DEF Apart
<1>5. Under(t, x, s[1])
  BY <1>1 DEF Under
<1>6. <<x>> \o s \in Seq(Frames(t, Len(bs))) /\ FramesOK(t, bs, xs, <<x>> \o s)
  BY <1>3, <1>4, <1>5, PushOK
<1>. QED BY <1>6, PushSeq

\* The success block was compiled: the branch ends or its other side begins.
LEMMA AfterSuccessKeeps ==
  ASSUME LayoutInv, AfterSuccess, UNCHANGED <<prog, blockReturn>>
  PROVE  LayoutInv'
<1>. DEFINE w == work[1]
            n == w.node
            no == prog[n].no
            f == FnOf(prog, n)
            bs == ContinueBlocks
            after == ContinueCurrent
            q == Tail(work)
            outer == w.after = 0
            Good(cs) == LayoutOK(prog, cs, at, functionStack, exitBlock, work, result)
<1>1. Over("success")
  BY DEF AfterSuccess
<1>2. /\ IsTree(prog) /\ Top = w /\ n \in DOMAIN prog /\ prog[n].k = "branch"
      /\ work # <<>> /\ w.f = "success" /\ InBranch(w)
      /\ q \in Seq(Frames(prog, Len(bs))) /\ FramesOK(prog, bs, exitBlock, q)
      /\ q # <<>> /\ Under(prog, w, q[1])
      /\ Good(bs) /\ BlocksOK(prog, bs) /\ ExitsOK(prog, bs, exitBlock)
      /\ DOMAIN bs = 1..Len(bs) /\ Len(bs) \in Nat
      /\ at \in DOMAIN bs /\ bs[at].live /\ bs[at].fn = f
      /\ \A b \in {w.old, result, after} : b \in DOMAIN bs /\ bs[b].live /\ bs[b].fn = f
      /\ \A k \in DOMAIN work : work[k].f = "block" => work[k].made \notin {result, after}
      /\ \A k \in DOMAIN q : q[k].f = "block" => q[k].made \notin {result, after}
      /\ outer => /\ w.old < after /\ after \notin Exits(exitBlock)
                  /\ \A k \in DOMAIN q : after \notin Mentioned(q[k])
      /\ Head(functionStack) = f /\ StackOK(prog, functionStack, f)
      /\ LoopOpen(prog, exitBlock, n)
  BY <1>1, SuccessFacts
<1>3. prog[n].parent = Body(prog, q[1]) /\ q[1].f \notin {"success", "failiure"}
  BY <1>2 DEF Under
<1>4. no # 0 => /\ no \in DOMAIN prog /\ prog[no].parent = n /\ FnOf(prog, no) = f
                /\ prog[no].k \in {"block", "branch"}
  BY <1>2, BranchFacts, ChildFacts
<1>5. result \in {0} \cup DOMAIN bs
  BY <1>2
<1>6. \/ no = 0 /\ BranchExit(Put(bs, w.old, CondBr(n, result, after)), w.old, result, after,
                              outer, FALSE)
      \/ /\ no # 0 /\ prog[no].k = "block"
         /\ OpenBlock(no, bs, at, f, <<FailiureFrame(n, w.old, result, after, outer)>> \o q)
         /\ UNCHANGED <<functionStack, exitBlock, result, status>>
      \/ /\ no # 0 /\ prog[no].k = "branch"
         /\ OpenBranch(no, Append(bs, Fresh(f)), Len(bs) + 1, after,
              <<NextFrame(n, w.old, result, after, outer, Len(bs) + 1)>> \o q)
  BY <1>2 DEF AfterSuccess, ContinueBlocks, ContinueCurrent, WithoutElse
<1>. HIDE DEF w, n, no, f, bs, after, q, outer
<1>7. CASE no = 0 /\ BranchExit(Put(bs, w.old, CondBr(n, result, after)), w.old, result, after,
                                outer, FALSE)
  <2>. DEFINE i == CondBr(n, result, after)
              bs2 == Put(bs, w.old, i)
  <2>1. i \in Instrs(prog, Len(bs)) /\ \A c : JumpsTo(i, c) <=> c \in {result, after}
    <3>1. Len(bs) \in Nat /\ n \in DOMAIN prog /\ result \in 1..Len(bs) /\ after \in 1..Len(bs)
      BY <1>2
    <3>. QED BY <3>1, InstrFacts DEF CondBr
  <2>. HIDE DEF i
  <2>2. \A k \in DOMAIN work : work[k].f = "block" => ~JumpsTo(i, work[k].made)
    BY <2>1, <1>2
  <2>3. w.old \in DOMAIN bs
    BY <1>2
  <2>4. Good(bs2) /\ SameBlocks(bs, bs2)
    BY <1>2, <2>1, <2>2, <2>3, EmitSame
  <2>5. BranchExit(bs2, w.old, result, after, outer, FALSE)
    BY <1>7 DEF i
  <2>. HIDE DEF bs2
  <2>6. /\ w.old \in DOMAIN bs2 /\ bs2[w.old].live /\ bs2[w.old].fn = f
        /\ after \in DOMAIN bs2 /\ bs2[after].live /\ bs2[after].fn = f
        /\ result \in DOMAIN bs2
    BY <1>2, <2>4 DEF SameBlocks
  <2>7. work # <<>> /\ InBranch(work[1]) /\ f = FnOf(prog, work[1].node) /\ q = Tail(work)
    BY <1>2 DEF w, n, f, q
  <2>8. /\ \A k \in DOMAIN Tail(work) : Tail(work)[k].f = "block" => Tail(work)[k].made # after
        /\ outer => /\ w.old < after /\ after \notin Exits(exitBlock)
                    /\ \A k \in DOMAIN Tail(work) : after \notin Mentioned(Tail(work)[k])
    BY <1>2, <2>7
  <2>. QED BY <2>4, <2>5, <2>6, <2>7, <2>8, BranchExitKeeps
<1>8. CASE /\ no # 0 /\ prog[no].k = "block"
           /\ OpenBlock(no, bs, at, f, <<FailiureFrame(n, w.old, result, after, outer)>> \o q)
           /\ UNCHANGED <<functionStack, exitBlock, result, status>>
  <2>. DEFINE x == FailiureFrame(n, w.old, result, after, outer)
              s == <<x>> \o q
              b == Len(bs) + 1
              y == BlockFrame(no, at, b)
  <2>1. /\ x.f = "failiure" /\ x.node = n /\ x.old = w.old /\ x.outer = outer /\ x.after = after
        /\ Targets(x) = {result, after} /\ Body(prog, x) = n
        /\ x \in Frames(prog, Len(bs))
    <3>1. x \in FailiureFrames(prog, Len(bs))
      BY <1>2 DEF FailiureFrame, FailiureFrames, outer
    <3>. QED BY <3>1 DEF FailiureFrame, Targets, Body, Frames
  <2>. HIDE DEF x
  <2>2. s \in Seq(Frames(prog, Len(bs))) /\ FramesOK(prog, bs, exitBlock, s)
        /\ s # <<>> /\ s[1] = x
    BY <1>2, <1>3, <2>1, OtherSideOK DEF f
  <2>. HIDE DEF s
  <2>3. LayoutOK(prog, Append(bs, Fresh(f)), b, functionStack, exitBlock, <<y>> \o s, result)
    <3>1. no \in DOMAIN prog /\ prog[no].k = "block" /\ prog[no].parent = Body(prog, s[1])
          /\ f = FnOf(prog, no) /\ bs[at].fn = FnOf(prog, prog[no].parent)
      BY <1>2, <1>4, <1>8, <2>1, <2>2 DEF f
    <3>. QED BY <1>2, <1>5, <2>2, <3>1, OpenOK DEF BlockFrame
  <2>4. blocks' = Append(bs, Fresh(f)) /\ at' = b /\ work' = <<y>> \o s
        /\ UNCHANGED <<functionStack, exitBlock, result, status>>
    BY <1>8 DEF OpenBlock, s, x
  <2>. HIDE DEF y, b
  <2>. QED BY <2>3, <2>4 DEF LayoutInv
<1>9. CASE /\ no # 0 /\ prog[no].k = "branch"
           /\ OpenBranch(no, Append(bs, Fresh(f)), Len(bs) + 1, after,
                <<NextFrame(n, w.old, result, after, outer, Len(bs) + 1)>> \o q)
  <2>. DEFINE b == Len(bs) + 1
              bs2 == Append(bs, Fresh(f))
              x == NextFrame(n, w.old, result, after, outer, b)
              s == <<x>> \o q
  <2>1. f \in DOMAIN prog
    BY <1>2, FnStep DEF f
  <2>2. /\ Good(bs2) /\ Grown(prog, bs, bs2, {})
        /\ DOMAIN bs2 = 1..Len(bs2) /\ Len(bs2) = b /\ bs2[b].fn = f /\ bs2[b].live
    <3>1. Good(bs)
      BY <1>2
    <3>2. LET c2 == Append(bs, Fresh(f)) IN
          /\ Good(c2) /\ Grown(prog, bs, c2, {})
          /\ DOMAIN c2 = 1..Len(c2)
          /\ Len(c2) = Len(bs) + 1 /\ c2[Len(c2)].fn = f /\ c2[Len(c2)].live
      BY <2>1, <3>1, AppendOK
    <3>. QED BY <3>2
  <2>. HIDE DEF bs2
  <2>3. /\ BlocksOK(prog, bs2) /\ ExitsOK(prog, bs2, exitBlock)
        /\ q \in Seq(Frames(prog, b)) /\ FramesOK(prog, bs2, exitBlock, q)
    <3>1. BlocksOK(prog, bs2) /\ ExitsOK(prog, bs2, exitBlock)
      BY <2>2 DEF LayoutOK
    <3>2. work \in Seq(Frames(prog, Len(bs2))) /\ FramesOK(prog, bs2, exitBlock, work)
          /\ work # <<>>
      BY <1>2, <2>2 DEF LayoutOK
    <3>. QED BY <2>2, <3>1, <3>2, PopOK DEF q
  <2>4. \A d \in {w.old, result, after} : d \in DOMAIN bs2 /\ bs2[d].live /\ bs2[d].fn = f
    BY <1>2, <2>2 DEF Grown
  <2>5. \A k \in DOMAIN q : q[k].f = "block" => q[k].made # b
    <3>1. b > Len(bs) /\ b \in Nat /\ Len(bs) \in Nat /\ q \in Seq(Frames(prog, Len(bs)))
      BY <1>2
    <3>. HIDE DEF b
    <3>. QED BY <3>1, NothingBeyond
  <2>6. /\ x.f = "next" /\ x.node = n /\ x.old = w.old /\ x.outer = outer /\ x.after = after
        /\ Targets(x) = {result, after, b} /\ Body(prog, x) = n
        /\ x \in Frames(prog, Len(bs2))
    <3>1. x \in NextFrames(prog, Len(bs2))
      BY <1>2, <2>2, <2>4 DEF NextFrame, NextFrames, outer
    <3>. QED BY <3>1 DEF NextFrame, Targets, Body, Frames
  <2>. HIDE DEF x, b
  <2>7. s \in Seq(Frames(prog, Len(bs2))) /\ FramesOK(prog, bs2, exitBlock, s)
        /\ s # <<>> /\ s[1] = x
    BY <1>2, <1>3, <2>2, <2>3, <2>4, <2>5, <2>6, OtherSideOK, SMTT(30) DEF f
  <2>. HIDE DEF s
  <2>8. CASE Throw("error")
    BY <2>8, ThrowKeeps
  <2>9. CASE prog[no].cond # "bad"
    <3>. DEFINE yes == prog[no].yes
                made == Len(bs2) + 1
                z == [f |-> "success", node |-> no, old |-> b, after |-> after]
                y == [f |-> "block", node |-> yes, todo |-> prog[yes].kids, old |-> b,
                      made |-> made]
    <3>1. \A k \in DOMAIN s : s[k].f = "block" => s[k].made # after
      <4>1. s[1].f # "block" /\ after \in Targets(s[1])
        BY <2>6, <2>7
      <4>. QED BY <2>7, <4>1, TopSpares
    <3>2. LayoutOK(prog, Append(bs2, Fresh(f)), made, functionStack, exitBlock,
                   <<y>> \o (<<z>> \o s), result)
      <4>1. /\ no \in DOMAIN prog /\ prog[no].k = "branch" /\ prog[no].parent = Body(prog, s[1])
            /\ s[1].f \notin {"success", "failiure"} /\ f = FnOf(prog, no)
        BY <1>4, <1>9, <2>6, <2>7
      <4>2. b \in DOMAIN bs2 /\ bs2[b].live /\ bs2[b].fn = f
            /\ after \in {0} \cup DOMAIN bs2 /\ result \in {0} \cup DOMAIN bs2
            /\ bs2[after].live /\ bs2[after].fn = f
        BY <1>2, <2>2, <2>4 DEF b
      <4>. QED BY <1>2, <2>3, <2>7, <3>1, <4>1, <4>2, OpenBranchOK
    <3>3. blocks' = Append(bs2, Fresh(f)) /\ at' = made /\ work' = <<y>> \o (<<z>> \o s)
          /\ UNCHANGED <<functionStack, exitBlock, result, status>>
      BY <1>2, <1>9, <2>9 DEF OpenBranch, OpenBlock, BlockFrame, SuccessFrame, s, x, b, bs2
    <3>. HIDE DEF y, z, made
    <3>. QED BY <3>2, <3>3 DEF LayoutInv
  <2>. QED BY <1>9, <2>8, <2>9 DEF OpenBranch
<1>. QED BY <1>6, <1>7, <1>8, <1>9

\* compile adds the last terminator and runs the verifier.
LEMMA FinishKeeps ==
  ASSUME LayoutInv, Finish, UNCHANGED <<prog, blockReturn>>
  PROVE  LayoutInv'
<1>. DEFINE bs == IF Terminated(blocks, at) THEN blocks ELSE Put(blocks, at, Ret(1))
            Good(cs) == LayoutOK(prog, cs, at, functionStack, exitBlock, work, result)
<1>1. Good(blocks) /\ IsTree(prog)
  BY ProgramsAssumption DEF LayoutInv
<1>2. at \in DOMAIN blocks /\ Len(blocks) \in Nat /\ 1 \in DOMAIN prog
  BY <1>1, BlockFields DEF LayoutOK, IsTree
<1>3. Ret(1) \in Instrs(prog, Len(blocks)) /\ \A c : ~JumpsTo(Ret(1), c)
  <2>1. Len(blocks) \in Nat /\ 1 \in DOMAIN prog
    BY <1>2
  <2>. QED BY <2>1, InstrFacts DEF Ret
<1>4. Good(Put(blocks, at, Ret(1)))
  BY <1>1, <1>2, <1>3, EmitOK
<1>5. Good(bs)
  BY <1>1, <1>4
<1>6. blocks' = bs /\ status' \in {"compiled", "internal"}
      /\ UNCHANGED <<at, functionStack, exitBlock, work, result>>
  BY DEF Finish
<1>. HIDE DEF bs
<1>. QED BY <1>5, <1>6 DEF LayoutInv

\* compile begins in the first block of main.
LEMMA InitKeeps ==
  ASSUME Init
  PROVE  LayoutInv
<1>. DEFINE bs == <<Fresh(1)>>
            x == BlockFrame(1, 0, 1)
            s == <<x>>
            fs == <<1>>
<1>1. /\ prog \in Programs /\ blockReturn \in Builds /\ IsTree(prog)
      /\ blocks = bs /\ at = 1 /\ functionStack = fs /\ exitBlock = [n \in DOMAIN prog |-> 0]
      /\ work = s /\ result = 0 /\ status = "compiling"
  BY ProgramsAssumption DEF Init, CfgInit
<1>2. /\ 1 \in DOMAIN prog /\ prog[1].k = "block" /\ prog[1].kids \in Seq(DOMAIN prog)
      /\ \A i \in DOMAIN prog[1].kids : prog[prog[1].kids[i]].parent = 1
      /\ FnOf(prog, 1) = 1 /\ LoopOpen(prog, exitBlock, 1)
  <2>1. 1 \in DOMAIN prog /\ prog[1].k = "block"
    BY <1>1 DEF IsTree
  <2>2. prog[1] \in NodesOf(Len(prog)) /\ DOMAIN prog = 1..Len(prog)
        /\ \A c \in ChildrenOf(prog, 1) : prog[c].parent = 1
    BY <1>1, <2>1, TreeFacts
  <2>3. prog[1].kids \in Seq(DOMAIN prog)
    BY <2>1, <2>2 DEF NodesOf
  <2>4. FnOf(prog, 1) = 1 /\ LoopOpen(prog, exitBlock, 1)
    BY <1>1, <2>1, FnStep, LoopStep
  <2>. QED BY <2>1, <2>2, <2>3, <2>4 DEF ChildrenOf
<1>3. /\ Len(bs) = 1 /\ DOMAIN bs = {1} /\ bs[1] = Fresh(1)
      /\ Fresh(1).fn = 1 /\ Fresh(1).live /\ Fresh(1).code = <<>>
      /\ Fresh(1) \in BlockSet(prog, 1) /\ bs \in Seq(BlockSet(prog, 1))
  BY <1>2 DEF Fresh, BlockSet
<1>4. BlocksOK(prog, bs)
  BY <1>3 DEF BlocksOK
<1>5. ExitsOK(prog, bs, exitBlock) /\ Exits(exitBlock) = {}
  BY <1>1 DEF ExitsOK, Exits
<1>6. /\ x.f = "block" /\ x.node = 1 /\ x.todo = prog[1].kids /\ x.old = 0 /\ x.made = 1
      /\ x \in Frames(prog, 1)
  BY <1>2 DEF BlockFrame, Frames, BlockFrames
<1>7. Jumped(bs) = {}
  BY <1>3 DEF Jumped
<1>. HIDE DEF x, bs
<1>8. FrameOK(prog, bs, exitBlock, x)
  <2>1. NodeFits(prog, x)
    BY <1>2, <1>6 DEF NodeFits, Body, InBranch
  <2>2. Mentioned(x) = {1} /\ Owned(x) = {1} /\ ~MayErase(x)
    BY <1>6 DEF Mentioned, Owned, Targets, MayErase
  <2>. QED BY <1>2, <1>3, <1>5, <1>6, <1>7, <2>1, <2>2 DEF FrameOK
<1>9. s \in Seq(Frames(prog, 1)) /\ Len(s) = 1 /\ DOMAIN s = {1} /\ s[1] = x /\ s # <<>>
  BY <1>6
<1>. HIDE DEF s
<1>10. FramesOK(prog, bs, exitBlock, s)
  BY <1>6, <1>8, <1>9 DEF FramesOK
<1>11. StackOK(prog, fs, 1)
  BY <1>2 DEF StackOK
<1>12. BuilderIn(prog, s) = 1 /\ OpenIn(prog, s) = 1 /\ ResultOK(prog, bs, s, 0)
  BY <1>2, <1>6, <1>9 DEF BuilderIn, OpenIn, ResultOK
<1>. HIDE DEF fs
<1>13. LayoutOK(prog, bs, 1, fs, exitBlock, s, 0)
  BY <1>3, <1>4, <1>5, <1>9, <1>10, <1>11, <1>12 DEF LayoutOK
<1>. QED BY <1>1, <1>13 DEF LayoutInv

\* Every step of the compiler keeps the layout.
LEMMA CompileKeeps ==
  ASSUME LayoutInv, Compile
  PROVE  LayoutInv'
<1>1. UNCHANGED <<prog, blockReturn>>
  BY DEF Compile
<1>2. CASE \E n \in DOMAIN prog : Visit(n)
  <2>1. PICK n \in DOMAIN prog : Visit(n)
    BY <1>2
  <2>2. Child(n)
    BY <2>1 DEF Visit
  <2>3. CASE VisitExpression(n)
    BY <1>1, <2>2, <2>3, VisitExpressionKeeps
  <2>4. CASE VisitReturn(n)
    BY <1>1, <2>2, <2>4, VisitReturnKeeps
  <2>5. CASE VisitBreakLoop(n)
    BY <1>1, <2>2, <2>5, VisitBreakLoopKeeps
  <2>6. CASE VisitBlock(n)
    BY <1>1, <2>2, <2>6, VisitBlockKeeps
  <2>7. CASE VisitBranch(n)
    BY <1>1, <2>2, <2>7, VisitBranchKeeps
  <2>8. CASE VisitLoop(n)
    BY <1>1, <2>2, <2>8, VisitLoopKeeps
  <2>9. CASE VisitFunction(n)
    BY <1>1, <2>2, <2>9, VisitFunctionKeeps
  <2>. QED BY <2>1, <2>3, <2>4, <2>5, <2>6, <2>7, <2>8, <2>9 DEF Visit
<1>3. CASE EndBlock
  BY <1>1, <1>3, EndBlockKeeps
<1>4. CASE EndFunction
  BY <1>1, <1>4, EndFunctionKeeps
<1>5. CASE EndLoop
  BY <1>1, <1>5, EndLoopKeeps
<1>6. CASE AfterSuccess
  BY <1>1, <1>6, AfterSuccessKeeps
<1>7. CASE AfterFailiure
  BY <1>1, <1>7, AfterFailiureKeeps
<1>8. CASE AfterNext
  BY <1>1, <1>8, AfterNextKeeps
<1>9. CASE Finish
  BY <1>1, <1>9, FinishKeeps
<1>. QED BY <1>2, <1>3, <1>4, <1>5, <1>6, <1>7, <1>8, <1>9 DEF Compile

(***************************************************************************)
(* Running the module                                                      *)
(***************************************************************************)
\* A module that was verified can start in each block that was not erased.
LEMMA VerifiedFacts ==
  ASSUME LayoutInv, Verifies(blocks), NEW b \in DOMAIN blocks, blocks[b].live
  PROVE  LET code == blocks[b].code IN
         /\ code \in Seq(Instrs(prog, Len(blocks))) /\ Len(code) \in Nat /\ DOMAIN code = 1..Len(code)
         /\ 1 \in DOMAIN code /\ IsTerminator(code[Len(code)])
         /\ \A k \in DOMAIN code, c \in DOMAIN blocks : JumpsTo(code[k], c) => blocks[c].live
         /\ DOMAIN blocks = 1..Len(blocks)
<1>1. BlocksOK(prog, blocks)
  BY DEF LayoutInv, LayoutOK
<1>2. DOMAIN blocks = 1..Len(blocks) /\ blocks[b].code \in Seq(Instrs(prog, Len(blocks)))
  BY <1>1, BlockFields
<1>3. blocks[b].code # <<>> /\ IsTerminator(blocks[b].code[Len(blocks[b].code)])
      /\ \A k \in DOMAIN blocks[b].code, c \in DOMAIN blocks :
           JumpsTo(blocks[b].code[k], c) => blocks[c].live
  BY DEF Verifies, Terminated
<1>4. 1 \in DOMAIN blocks[b].code /\ Len(blocks[b].code) \in Nat
      /\ DOMAIN blocks[b].code = 1..Len(blocks[b].code)
  BY <1>2, <1>3, TailSeq
<1>. QED BY <1>2, <1>3, <1>4

\* Only the end of compile reports success, and only of a module that was
\* verified.
LEMMA CompiledIsVerified ==
  ASSUME Compile, status' = "compiled"
  PROVE  Verifies(blocks')
<1>1. status = "compiling"
  BY DEF Compile
<1>. USE DEF Throw, EmitHere, OpenBlock, OpenBranch, LeaveBlock, BranchExit
<1>2. CASE \E n \in DOMAIN prog : Visit(n)
  <2>1. PICK n \in DOMAIN prog : Visit(n)
    BY <1>2
  <2>2. ~VisitExpression(n)
    BY <1>1 DEF VisitExpression
  <2>3. ~VisitReturn(n)
    BY <1>1 DEF VisitReturn
  <2>4. ~VisitBreakLoop(n)
    BY <1>1 DEF VisitBreakLoop
  <2>5. ~VisitBlock(n)
    BY <1>1 DEF VisitBlock
  <2>6. ~VisitBranch(n)
    BY <1>1 DEF VisitBranch
  <2>7. ~VisitLoop(n)
    BY <1>1 DEF VisitLoop
  <2>8. ~VisitFunction(n)
    BY <1>1 DEF VisitFunction
  <2>. QED BY <2>1, <2>2, <2>3, <2>4, <2>5, <2>6, <2>7, <2>8 DEF Visit
<1>3. ~EndBlock
  BY <1>1 DEF EndBlock
<1>4. ~EndFunction /\ ~EndLoop
  BY <1>1 DEF EndFunction, EndLoop
<1>5. ~AfterSuccess
  BY <1>1 DEF AfterSuccess
<1>6. ~AfterFailiure /\ ~AfterNext
  BY <1>1 DEF AfterFailiure, AfterNext
<1>7. CASE Finish
  BY <1>7 DEF Finish
<1>. QED BY <1>2, <1>3, <1>4, <1>5, <1>6, <1>7 DEF Compile

\* A run begins at the first block of a function, which is never erased.
LEMMA EnterKeeps ==
  ASSUME LayoutInv, RunInv, Enter, UNCHANGED cfgVars
  PROVE  RunInv'
<1>1. PICK b \in EntryBlocks : pc' = StartOf(b)
  BY DEF Enter
<1>2. b \in DOMAIN blocks /\ \A c \in DOMAIN blocks : blocks[c].fn = blocks[b].fn => b <= c
  BY <1>1 DEF EntryBlocks
<1>3. /\ DOMAIN blocks = 1..Len(blocks)
      /\ ~blocks[b].live => \E c \in DOMAIN blocks : c < b /\ blocks[c].fn = blocks[b].fn
  BY <1>2, BlockFields DEF LayoutInv, LayoutOK, BlocksOK
<1>4. blocks[b].live
  BY <1>2, <1>3
<1>5. status = "compiled" /\ Verifies(blocks)
  BY DEF Enter, RunInv
<1>6. 1 \in DOMAIN blocks[b].code
  BY <1>2, <1>4, <1>5, VerifiedFacts
<1>7. pc'.block = b /\ pc'.i = 1 /\ pc' \in [block : {0} \cup DOMAIN blocks, i : Nat]
  BY <1>1, <1>2 DEF StartOf
<1>8. UNCHANGED <<blocks, status, took>>
  BY DEF Enter, cfgVars
<1>. QED BY <1>4, <1>5, <1>6, <1>7, <1>8 DEF RunInv, Running

\* A run goes on within a block, or to the start of one that was not erased.
LEMMA ExecuteKeeps ==
  ASSUME LayoutInv, RunInv, Execute, UNCHANGED cfgVars
  PROVE  RunInv'
<1>. DEFINE b == pc.block
            code == blocks[b].code
            i == code[pc.i]
            n == Len(blocks)
<1>1. /\ pc \in [block : {0} \cup DOMAIN blocks, i : Nat] /\ took \in BOOLEAN
      /\ b # 0 /\ b \in DOMAIN blocks /\ blocks[b].live /\ pc.i \in DOMAIN code
  BY DEF Execute, RunInv, Running
<1>2. status = "compiled" /\ Verifies(blocks)
  BY <1>1 DEF RunInv, NotStarted
<1>3. /\ code \in Seq(Instrs(prog, n)) /\ Len(code) \in Nat /\ DOMAIN code = 1..Len(code)
      /\ IsTerminator(code[Len(code)])
      /\ \A c \in DOMAIN blocks : JumpsTo(i, c) => blocks[c].live
      /\ DOMAIN blocks = 1..n
  BY <1>1, <1>2, VerifiedFacts
<1>4. UNCHANGED <<blocks, status>>
  BY DEF cfgVars
<1>5. i \in Instrs(prog, n)
  BY <1>1, <1>3
<1>. HIDE DEF i, code, b, n
<1>6. CASE ~IsTerminator(i) /\ pc' = [pc EXCEPT !.i = @ + 1] /\ UNCHANGED took
  <2>1. pc.i # Len(code)
    BY <1>3, <1>6 DEF i
  <2>2. pc.i + 1 \in DOMAIN code /\ pc.i + 1 \in Nat
    BY <1>1, <1>3, <2>1
  <2>3. pc'.block = b /\ pc'.i = pc.i + 1 /\ pc' \in [block : {0} \cup DOMAIN blocks, i : Nat]
    BY <1>1, <1>6, <2>2 DEF b
  <2>. QED BY <1>1, <1>2, <1>4, <1>6, <2>2, <2>3 DEF RunInv, Running, code
<1>7. ASSUME NEW k \in DOMAIN i.to, pc' = StartOf(i.to[k]), took' \in BOOLEAN
      PROVE  RunInv'
  <2>1. i.to[k] \in DOMAIN blocks
    <3>1. i.to \in Seq(DOMAIN blocks)
      BY <1>3, <1>5 DEF Instrs
    <3>2. \A S : \A q \in Seq(S) : \A j \in DOMAIN q : q[j] \in S
      OBVIOUS
    <3>. QED BY <3>1, <3>2
  <2>2. i.to[k] \in DOMAIN blocks /\ JumpsTo(i, i.to[k])
    BY <1>3, <1>7, <2>1 DEF JumpsTo
  <2>3. blocks[i.to[k]].live
    BY <1>3, <2>2
  <2>4. 1 \in DOMAIN blocks[i.to[k]].code
    BY <1>2, <2>2, <2>3, VerifiedFacts
  <2>5. pc'.block = i.to[k] /\ pc'.i = 1 /\ pc' \in [block : {0} \cup DOMAIN blocks, i : Nat]
    BY <1>7, <2>2 DEF StartOf
  <2>. QED BY <1>2, <1>4, <1>7, <2>3, <2>4, <2>5 DEF RunInv, Running
<1>8. CASE i.op = "jump" /\ pc' = StartOf(i.to[1]) /\ UNCHANGED took
  <2>1. 1 \in DOMAIN i.to
    BY <1>5, <1>8 DEF Instrs
  <2>. QED BY <1>1, <1>7, <1>8, <2>1
<1>9. CASE i.op = "test" /\ pc' = StartOf(i.to[1]) /\ took' = TRUE
  <2>1. 1 \in DOMAIN i.to
    BY <1>5, <1>9 DEF Instrs
  <2>. QED BY <1>7, <1>9, <2>1
<1>10. CASE i.op = "test" /\ Len(i.to) = 2 /\ pc' = StartOf(i.to[2]) /\ took' = FALSE
  <2>1. 2 \in DOMAIN i.to
    BY <1>5, <1>10 DEF Instrs
  <2>. QED BY <1>7, <1>10, <2>1
<1>11. CASE i.op = "return" /\ pc' = Returned /\ UNCHANGED took
  BY <1>1, <1>2, <1>4, <1>11 DEF RunInv, Running, Returned
<1>. QED BY <1>6, <1>8, <1>9, <1>10, <1>11 DEF Execute, i, code, b

(***************************************************************************)
(* The theorems                                                            *)
(***************************************************************************)
\* Every step keeps the inductive invariant.
LEMMA StepKeeps ==
  ASSUME IInv, [Next]_runVars
  PROVE  IInv'
<1>. USE DEF IInv
<1>1. CASE Compile /\ UNCHANGED <<pc, took>>
  <2>1. LayoutInv'
    BY <1>1, CompileKeeps
  <2>2. pc = NotStarted /\ took \in BOOLEAN
    BY <1>1 DEF RunInv, Compile
  <2>3. status' = "compiled" => Verifies(blocks')
    BY <1>1, CompiledIsVerified
  <2>4. RunInv'
    BY <1>1, <2>2, <2>3 DEF RunInv, Running, NotStarted, Verifies
  <2>. QED BY <2>1, <2>4
<1>2. CASE (Enter \/ Execute) /\ UNCHANGED cfgVars
  <2>1. LayoutInv'
    BY <1>2 DEF LayoutInv, cfgVars
  <2>. QED BY <1>2, <2>1, EnterKeeps, ExecuteKeeps
<1>3. CASE UNCHANGED runVars
  BY <1>3 DEF runVars, LayoutInv, RunInv, Running
<1>. QED BY <1>1, <1>2, <1>3 DEF Next

\* The instructions of the blocks, the visits, the break targets and the run
\* fit the inductive invariant in each state that compile, or the module it
\* made, can reach.
THEOREM LayoutIsKept == Spec => []IInv
<1>1. Init => IInv
  <2>1. ASSUME Init PROVE RunInv
    BY <2>1 DEF Init, CfgInit, RunInv, Running, NotStarted
  <2>. QED BY <2>1, InitKeeps DEF IInv
<1>2. IInv /\ [Next]_runVars => IInv'
  BY StepKeeps
<1>. QED BY <1>1, <1>2, PTL DEF Spec

\* Whatever the trees are, the builder has a block to insert in, and blocks,
\* instructions and visits refer to blocks and nodes that exist.
THEOREM LayoutIsTyped == Spec => []TypeOK
<1>1. IInv => TypeOK
  <2>. SUFFICES ASSUME IInv PROVE TypeOK
    OBVIOUS
  <2>1. LayoutOK(prog, blocks, at, functionStack, exitBlock, work, result) /\ BlocksOK(prog, blocks)
    BY DEF IInv, LayoutInv, LayoutOK
  <2>2. DOMAIN blocks = 1..Len(blocks) /\ \A b \in DOMAIN blocks : blocks[b] \in BlockSet(prog, Len(blocks))
    BY <2>1, BlockFields
  <2>3. Instrs(prog, Len(blocks)) \subseteq InstrSet
    BY <2>2 DEF Instrs, InstrSet
  <2>4. blocks \in Seq([fn : DOMAIN prog, code : Seq(InstrSet), live : BOOLEAN])
    <3>1. ASSUME NEW c \in Seq(Instrs(prog, Len(blocks))) PROVE c \in Seq(InstrSet)
      BY <2>3
    <3>2. BlockSet(prog, Len(blocks)) \subseteq [fn : DOMAIN prog, code : Seq(InstrSet), live : BOOLEAN]
      BY <3>1 DEF BlockSet
    <3>3. blocks \in Seq(BlockSet(prog, Len(blocks)))
      BY <2>1 DEF BlocksOK
    <3>. DEFINE S == BlockSet(prog, Len(blocks))
                T == [fn : DOMAIN prog, code : Seq(InstrSet), live : BOOLEAN]
    <3>. HIDE DEF S, T
    <3>4. S \subseteq T /\ blocks \in Seq(S)
      BY <3>2, <3>3 DEF S, T
    <3>5. blocks \in Seq(T)
      BY <3>4
    <3>. QED BY <3>5 DEF T
  <2>5. work \in Seq(FrameSet)
    <3>1. Frames(prog, Len(blocks)) = FrameSet
      BY <2>2 DEF Frames, FrameSet, BlockFrames, LoopFrames, FunctionFrames, SuccessFrames,
                  FailiureFrames, NextFrames
    <3>. QED BY <2>1, <3>1 DEF LayoutOK
  <2>6. functionStack \in Seq(DOMAIN prog) /\ at \in DOMAIN blocks
        /\ exitBlock \in [DOMAIN prog -> {0} \cup DOMAIN blocks] /\ result \in {0} \cup DOMAIN blocks
    BY <2>1 DEF LayoutOK, StackOK, ExitsOK
  <2>. QED BY <2>4, <2>5, <2>6 DEF TypeOK, IInv, LayoutInv, RunInv
<1>. QED BY <1>1, LayoutIsKept, PTL

\* The builder is in the function that is being compiled, however functions,
\* branches and loops are nested: functionStack and the insert point, which
\* visitFunction and compileBlock restore separately, stay in step.
THEOREM BuilderStaysInTopFunction == Spec => []BuilderInTopFunction
<1>1. IInv => BuilderInTopFunction
  <2>. SUFFICES ASSUME IInv, status = "compiling", ~Over("function")
                PROVE  functionStack # <<>> /\ blocks[at].fn = Head(functionStack)
    BY DEF BuilderInTopFunction
  <2>1. LayoutOK(prog, blocks, at, functionStack, exitBlock, work, result)
    BY DEF IInv, LayoutInv
  <2>2. StackOK(prog, functionStack, OpenIn(prog, work)) /\ blocks[at].fn = BuilderIn(prog, work)
        /\ work \in Seq(Frames(prog, Len(blocks)))
    BY <2>1 DEF LayoutOK
  <2>3. work # <<>> => Top = work[1]
    BY <2>2, TailSeq DEF Top
  <2>4. OpenIn(prog, work) = BuilderIn(prog, work)
    BY <2>3 DEF OpenIn, Over
  <2>5. functionStack # <<>> /\ Head(functionStack) = functionStack[1]
        /\ functionStack[1] = OpenIn(prog, work)
    BY <2>2, TailSeq DEF StackOK
  <2>. QED BY <2>2, <2>4, <2>5
<1>. QED BY <1>1, LayoutIsKept, PTL

\* Nothing jumps to a block that compileBlock is still filling, so its attempt
\* to merge a code block into its predecessor cannot succeed, and the entry
\* block of a function has no predecessor.
THEOREM BlocksFilledAreFresh == Spec => []FreshBlocksAreFresh
<1>1. IInv => FreshBlocksAreFresh
  <2>. SUFFICES ASSUME IInv, NEW k \in DOMAIN work, work[k].f = "block"
                PROVE  Predecessors(blocks, work[k].made) = {}
    BY DEF FreshBlocksAreFresh
  <2>1. FrameOK(prog, blocks, exitBlock, work[k]) /\ BlocksOK(prog, blocks)
    BY DEF IInv, LayoutInv, LayoutOK, FramesOK
  <2>2. work[k].made \notin Jumped(blocks) /\ work[k] \in Frames(prog, Len(blocks))
        /\ DOMAIN blocks = 1..Len(blocks)
    BY <2>1, BlockFields DEF FrameOK
  <2>3. work[k].made \in DOMAIN blocks
    BY <2>2, FrameFields DEF BlockFrames
  <2>. QED BY <2>2, <2>3 DEF Predecessors, Jumped
<1>. QED BY <1>1, LayoutIsKept, PTL

\* The outermost call of compileBranch erases continueCurrent only when nothing
\* will use it any more: neither the builder, nor a break, nor a visit that is
\* not over is left with a block that was erased.
THEOREM ErasedIsNotUsed == Spec => []ErasedIsDead
<1>1. IInv => ErasedIsDead
  <2>. SUFFICES ASSUME IInv PROVE ErasedIsDead
    OBVIOUS
  <2>1. LayoutOK(prog, blocks, at, functionStack, exitBlock, work, result)
    BY DEF IInv, LayoutInv
  <2>2. blocks[at].live /\ \A n \in DOMAIN exitBlock : exitBlock[n] # 0 => blocks[exitBlock[n]].live
    BY <2>1 DEF LayoutOK, ExitsOK, Exits
  <2>3. ASSUME NEW k \in DOMAIN work
        PROVE  /\ work[k].f \in {"success", "failiure", "next"} /\ work[k].after # 0
                    => blocks[work[k].after].live
               /\ work[k].f \in {"loop", "failiure", "next"} => blocks[work[k].made].live
    <3>1. FrameOK(prog, blocks, exitBlock, work[k])
      BY <2>1 DEF LayoutOK, FramesOK
    <3>. QED BY <3>1 DEF FrameOK, Mentioned, Owned, Targets
  <2>. QED BY <2>2, <2>3 DEF ErasedIsDead
<1>. QED BY <1>1, LayoutIsKept, PTL
=============================================================================
