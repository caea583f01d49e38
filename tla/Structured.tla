------------------------------ MODULE Structured ------------------------------
(***************************************************************************)
(* What a program means, as far as control flow goes: a walk over the      *)
(* tree.  It is what the generated code is supposed to implement; no basic *)
(* block, jump or builder appears in it.                                   *)
(*                                                                         *)
(* A place is a node and what is to be done there.  Each function, main    *)
(* included, is a walk of its own.                                         *)
(***************************************************************************)
EXTENDS Ast

VARIABLES
  prog,    \* the tree
  loc,     \* the place the walk is at
  took     \* how the last test came out

walkVars == <<prog, loc, took>>

Idle == [node |-> 0, op |-> "idle"]
Ended == [node |-> 0, op |-> "ended"]
Place(n, op) == [node |-> n, op |-> op]

LastOf(s) == s[Len(s)]
NextSibling(s, n) == s[1 + CHOOSE i \in DOMAIN s : s[i] = n]

\* go["first", n]: the first place of the statement n.  go["next", n]: the
\* place that comes when n is over: the statement after it, or what follows
\* the end of its block.
go[x \in {"first", "next"} \X DOMAIN prog] ==
  LET n == x[2]
      node == prog[n]
      p == node.parent
      loop == FindAbove(prog, n, "loop")
      First ==
        CASE node.k = "expr" ->
               IF node.emits = "instruction" THEN Place(n, "expr") ELSE go[<<"next", n>>]
          [] node.k = "return" -> Place(n, "return")
          [] node.k = "break" /\ loop # 0 -> go[<<"next", loop>>]
          [] node.k = "break" /\ loop = 0 -> Place(n, "stuck")
          [] node.k = "branch" -> Place(n, "test")
          [] node.k = "loop" -> Place(n, IF node.init THEN "init" ELSE "test")
          [] node.k = "function" -> go[<<"next", n>>]
          [] node.k = "block" ->
               IF node.kids = <<>> THEN go[<<"next", n>>] ELSE go[<<"first", Head(node.kids)>>]
      AfterIt ==
        CASE p = 0 -> Place(1, "return")
          [] p # 0 /\ prog[p].k = "block" ->
               IF n = LastOf(prog[p].kids) THEN go[<<"next", p>>]
               ELSE go[<<"first", NextSibling(prog[p].kids, n)>>]
          [] p # 0 /\ prog[p].k = "branch" -> go[<<"next", p>>]
          [] p # 0 /\ prog[p].k = "loop" -> Place(p, IF prog[p].update THEN "update" ELSE "test")
          [] p # 0 /\ prog[p].k = "function" -> Place(p, "return")
  IN  IF x[1] = "first" THEN First ELSE AfterIt
First(n) == go[<<"first", n>>]
Following(n) == go[<<"next", n>>]

Functions == {n \in DOMAIN prog : prog[n].k = "function" /\ prog[n].code # 0}

WalkInit == loc = Idle /\ took = TRUE

Begin ==
  /\ loc = Idle
  /\ loc' = First(1) \/ \E f \in Functions : loc' = First(prog[f].code)
  /\ UNCHANGED took

Do ==
  /\ \/ loc.op = "expr" /\ loc' = Following(loc.node)
     \/ loc.op \in {"init", "update"} /\ loc' = Place(loc.node, "test")
     \/ loc.op = "return" /\ loc' = Ended
  /\ UNCHANGED took

Test ==
  LET n == prog[loc.node]
      code == IF n.k = "branch" THEN n.yes ELSE n.code
  IN  /\ loc.op = "test"
      /\ \/ took' = TRUE /\ loc' = First(code)
         \/ /\ n.cond # "none"
            /\ took' = FALSE
            /\ loc' = IF n.k = "branch" /\ n.no # 0 THEN First(n.no) ELSE Following(loc.node)

Walk == (Begin \/ Do \/ Test) /\ UNCHANGED prog

WalkSpec == WalkInit /\ [][Walk]_walkVars
=============================================================================
