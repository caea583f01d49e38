--------------------------------- MODULE Ast ---------------------------------
(***************************************************************************)
(* The trees the code generator is given (ast.hpp), as far as control flow *)
(* goes.  A tree is a table of nodes, numbered so that a parent comes      *)
(* before its children; node 1 is the root block.  A declaration is an     *)
(* "expr" that emits an instruction.  0 stands for a null link.            *)
(***************************************************************************)
EXTENDS Integers, Sequences

BlockTypes == {"root", "if", "code", "function"}
Conditions == {"none", "ok", "bad"}   \* bad: an Error, or not a Boolean

NodesOf(n) ==
       [k : {"block"}, parent : 0..n, type : BlockTypes, kids : Seq(1..n)]
  \cup [k : {"branch"}, parent : 0..n, cond : {"ok", "bad"}, yes : 1..n, no : 0..n]
  \cup [k : {"loop"}, parent : 0..n, init : BOOLEAN, cond : Conditions,
        update : BOOLEAN, code : 1..n]
  \cup [k : {"function"}, parent : 0..n, void : BOOLEAN, code : 0..n]
  \cup [k : {"return"}, parent : 0..n, value : BOOLEAN]
  \cup [k : {"break"}, parent : 0..n]
  \cup [k : {"expr"}, parent : 0..n, emits : {"nothing", "instruction", "error"}]

\* The children of a node, null links left out.
ChildrenOf(t, n) ==
  CASE t[n].k = "block" -> {t[n].kids[i] : i \in DOMAIN t[n].kids}
    [] t[n].k = "branch" -> {t[n].yes, t[n].no} \ {0}
    [] t[n].k \in {"loop", "function"} -> {t[n].code} \ {0}
    [] OTHER -> {}
\* addChild: a node is a child of its parent, and of no other.
LinkedIn(t, n) ==
  LET p == t[n].parent IN
  /\ p < n /\ (p = 0 <=> n = 1)
  /\ p # 0 => n \in ChildrenOf(t, p)
  /\ \A c \in ChildrenOf(t, n) : t[c].parent = n

\* Blocks are where the node classes want them.
ShapeOf(t, n) ==
  LET IsBlock(m) == t[m].k = "block" IN
  CASE t[n].k = "branch" -> /\ IsBlock(t[n].yes) /\ t[t[n].yes].type \in {"if", "code"}
                            /\ t[n].no # 0 => t[t[n].no].k \in {"block", "branch"}
    [] t[n].k = "loop" -> IsBlock(t[n].code)
    [] t[n].k = "function" ->
         t[n].code # 0 => IsBlock(t[n].code) /\ t[t[n].code].type = "function"
    [] OTHER -> TRUE

IsTree(t) ==
  /\ t \in Seq(NodesOf(Len(t))) /\ t # <<>>
  /\ t[1].k = "block" /\ t[1].type = "root"
  /\ \A n \in DOMAIN t : LinkedIn(t, n) /\ ShapeOf(t, n)

\* findAbove: the nearest node of kind k above n, or null.
FindAbove(t, n, k) ==
  LET f[m \in 0..Len(t)] ==
        IF m = 0 THEN 0 ELSE IF t[m].k = k THEN m ELSE f[t[m].parent]
  IN  f[t[n].parent]

(***************************************************************************)
(* More about such tables, whatever else their nodes have.                 *)
(***************************************************************************)
\* The elements of sequence s that are in S.
Only(s, S) ==
  LET only[i \in 0..Len(s)] ==
        IF i = 0 THEN <<>> ELSE IF s[i] \in S THEN Append(only[i - 1], s[i]) ELSE only[i - 1]
  IN  only[Len(s)]
\* The children of a node, in the order of the source.
Kids(t, n) == Only([m \in DOMAIN t |-> m], {m \in DOMAIN t : t[m].parent = n})
\* n is m, or in it.
Within(t, n, m) ==
  LET within[x \in 0..Len(t)] == x = m \/ (x > m /\ within[t[x].parent]) IN within[n]
BlocksAbove(t, n) ==
  LET above[m \in 0..Len(t)] ==
        IF m = 0 THEN {}
        ELSE (IF t[m].k = "block" THEN {m} ELSE {}) \cup above[t[m].parent]
  IN  above[t[n].parent]
=============================================================================
