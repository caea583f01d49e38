-------------------------------- MODULE Scopes --------------------------------
(***************************************************************************)
(* What ModuleCompiler (llvm/compiler.cpp) knows while it visits a tree,   *)
(* and how it looks names and types up.                                    *)
(*                                                                         *)
(* A tree is a table of nodes in source order, a parent before its         *)
(* children; node 1 is the root block.  A function of the module is named  *)
(* by the node it is made for: 1 is main, InitOf(t) the initialiser of     *)
(* type t; Runtime stands for those of the runtime, which are linked in    *)
(* later.  An LLVM type is [ptr, of]: ptr stars on a value of identifier   *)
(* `of`, on a tagged union, or on a function's code.                       *)
(***************************************************************************)
EXTENDS Ast, TypeIds, FiniteSetsExt

CONSTANTS
  Programs,      \* the trees considered
  BlockReturn    \* XYLENE_BLOCK_RETURN: returns are allowed outside functions

ASSUME BlockReturnAssumption == BlockReturn \in BOOLEAN

VARIABLES
  prog,            \* the tree
  newestFirst,     \* which of two identifiers with the same names a block's set yields
  ids,             \* the identifiers made so far
  blockTypes,      \* of each block, the identifiers it knows
  blockScope,      \* variables: where, for which node, with which type, in which function
  blockFuncs,      \* functions: where, for which node
  signatures,      \* of each function of the module, its LLVM type
  tyData,          \* of each type, what was built of it
  functionStack,   \* functions being compiled, innermost first
  at,              \* the function the builder inserts in
  code,            \* instructions, a record for those of one node
  todo,            \* visits that are due, the next one first
  status           \* "compiling", or how the compilation ended

compilerVars ==
  <<prog, newestFirst, ids, blockTypes, blockScope, blockFuncs, signatures, tyData,
    functionStack, at, code, todo, status>>

(***************************************************************************)
(* The tree                                                                *)
(***************************************************************************)
\* insertRuntimeFuncDecls: the root block knows these functions from the start.
\* Their wrappers have no arguments, and a return type that nothing has.
Runtime == -1
RuntimeNames ==
  {"_xyl_checkTypeCompat", "_xyl_typeOf", "_xyl_typeErrIfIncompatible",
   "_xyl_typeErrIfIncompatibleTid", "_xyl_finish", "malloc"}

\* An expression is a table too, operands before their operator, in the order
\* they are compiled; the last entry is the whole.
None == <<>>
InitOf(t) == Len(prog) + t
EnclosingBlock(n) == FindAbove(prog, n, "block")
\* Nodes of tree t every way through which ends with a return.
Leaving(t) ==
  LET Below(n) == {m \in DOMAIN t : t[m].parent = n}
      leaves[n \in DOMAIN t] ==
        \/ t[n].k = "return"
        \/ t[n].k = "block" /\ \E m \in Below(n) : leaves[m]
        \/ t[n].k = "branch" /\ Cardinality(Below(n)) > 1 /\ \A m \in Below(n) : leaves[m]
  IN  {n \in DOMAIN t : leaves[n]}
\* findAbove<FunctionNode>: methods and constructors are function nodes too.
FunctionAbove(n) == Max({FindAbove(prog, n, k) : k \in {"function", "method", "constructor"}})

(***************************************************************************)
(* Types                                                                   *)
(***************************************************************************)
Union == 0
Code == -1
Lt(ptr, of) == [ptr |-> ptr, of |-> of]
\* getAllocaType
Base(id) == IF IsList(ids[id]) THEN Union ELSE id
TidOf(t) == tyData[t].tid

Pick(S) == IF newestFirst THEN Max(S) ELSE Min(S)
NoValue == Lt(0, Void)

\* Mutant: the outermost block that knows the names wins.
OutermostBlock(S) == Min(S)
\* findAbove: a block is numbered after the ones around it.
NearestBlock(S) == Max(S)
Named(b, names) == {i \in blockTypes[b] : ids[i].names = names}
\* typeIdFromInfo; 0 when it throws.
TypeIdFromInfo(names, n) ==
  LET knowing == {b \in BlocksAbove(prog, n) : Named(b, names) # {}} IN
  IF knowing = {} THEN 0 ELSE Pick(Named(NearestBlock(knowing), names))

(***************************************************************************)
(* Values.  Beside type and LLVM type: whether LLVM's verifier accepts the *)
(* instructions behind it, and would accept one more that uses the value   *)
(* here; the names they use, the values they store and the words of a      *)
(* union they write; and the function, or the variable, whose wrapper it   *)
(* is.                                                                     *)
(***************************************************************************)
Thrown(how) == [how |-> how]
Value(ty, lt) ==
  [how |-> "ok", ty |-> ty, lt |-> lt, ok |-> TRUE, here |-> TRUE, uses |-> {}, stores |-> {},
   words |-> {}, fun |-> 0, var |-> 0]
\* A value computed from others, which are used: what they did was done.
From(ops, ty, lt, ok) ==
  LET All(f(_)) == UNION {f(ops[i]) : i \in DOMAIN ops} IN
  [Value(ty, lt) EXCEPT
     !.ok = ok /\ \A i \in DOMAIN ops : ops[i].ok /\ ops[i].here, !.uses = All(LAMBDA v : v.uses),
     !.stores = All(LAMBDA v : v.stores), !.words = All(LAMBDA v : v.words)]
\* A value of type ty, not a pointer to one.
IsA(v, ty) == v.lt = Lt(0, ty)
\* load
Load(v) == IF v.lt.ptr > 0 THEN [v EXCEPT !.lt.ptr = @ - 1] ELSE v

(***************************************************************************)
(* valueFromIdentifier                                                     *)
(***************************************************************************)
This(t) == [name |-> "this", types |-> {prog[t].name}]
\* The arguments a FunctionWrapper's signature has.  That of a method has no
\* `this`, though its LLVM function has one.
Arguments(f) ==
  IF f > Len(prog) THEN <<This(f - Len(prog))>>
  ELSE IF prog[f].k = "constructor" THEN <<This(prog[f].parent)>> \o prog[f].args
  ELSE prog[f].args

Use(name, kind, to) == [name |-> name, kind |-> kind, to |-> to]
Using(v, u) == [v EXCEPT !.uses = {u}]

Variables(b, name) == {v \in blockScope : v.block = b /\ v.name = name}
FunctionsIn(b, name) == {f \in blockFuncs : f.block = b /\ f.name = name}
Binds(b, name) == Variables(b, name) # {} \/ FunctionsIn(b, name) # {}

\* What a block knows by that name, variables first.  A variable that was
\* returned holds the value loaded then (see VisitReturn), which no other block
\* may use; neither may another function use a variable.  The name alone makes
\* no instruction that the verifier could reject.
InScope(b, name) ==
  IF Variables(b, name) # {}
  THEN LET v == CHOOSE v \in Variables(b, name) : TRUE IN
       [Value(v.ty, Lt(IF v.returned THEN 0 ELSE 1, Base(v.ty))) EXCEPT
          !.here = v.fn = at /\ ~v.returned, !.var = v.node, !.uses = {Use(name, "var", v.node)}]
  ELSE LET f == CHOOSE f \in FunctionsIn(b, name) : TRUE IN
       [Value(Function, Lt(1, Code)) EXCEPT
          !.fun = f.node, !.uses = {Use(name, "function", f.node)}]

\* A member, through the first argument of the function being compiled.
FromThis(name, n, f) ==
  LET constructor == FindAbove(prog, n, "constructor")
      above == IF constructor # 0 THEN constructor ELSE FindAbove(prog, n, "method")
      t == prog[above].parent
      members == tyData[t].members
      found == {i \in DOMAIN members : prog[members[i].node].name = name}
      first == members[Min(found)]
      ty == TypeIdFromInfo(prog[first.node].types, t)
  IN  IF above = 0 THEN Thrown("unbound")
      ELSE IF signatures[f].args = <<>> \/ ~tyData[t].laidOut THEN Thrown("internal")
      ELSE IF found = {} \/ ty = 0 THEN Thrown("unbound")
      ELSE [Value(ty, Lt(1, first.of)) EXCEPT
              !.ok = signatures[f].args[1] = Lt(1, TidOf(t)),
              !.uses = {Use(name, "member", first.node)}]

\* LLVM renames the second of two arguments with one name, which is only
\* noticed by a lookup that gets there.
ValueFromIdentifier(name, n) ==
  LET f == Head(functionStack)
      args == Arguments(f)
      named == {i \in DOMAIN args : args[i].name = name}
      renamed == {i \in DOMAIN args : \E j \in 1..(i - 1) : args[j].name = args[i].name}
      ty == TypeIdFromInfo(args[Min(named)].types, n)
      binding == {b \in BlocksAbove(prog, n) : Binds(b, name)}
  IN  IF \/ Len(signatures[f].args) # Len(args)
         \/ renamed # {} /\ \A i \in named : Min(renamed) < i
      THEN Thrown("internal")
      ELSE IF named # {}
      THEN IF ty = 0 THEN Thrown("type")
           ELSE Using(Value(ty, signatures[f].args[Min(named)]), Use(name, "argument", f))
      ELSE IF binding # {} THEN InScope(NearestBlock(binding), name)
      ELSE FromThis(name, n, f)
=============================================================================
