-------------------------------- MODULE Codegen --------------------------------
(***************************************************************************)
(* ModuleCompiler as a whole (llvm/compiler.cpp): from the tree to a       *)
(* verified module, with the properties its tables and its instructions    *)
(* are held to.  Those speak of the tree where they can: which declaration *)
(* a name means, which function an instruction is of.                      *)
(***************************************************************************)
EXTENDS TypeBuilder

-----------------------------------------------------------------------------
(***************************************************************************)
(* The trees                                                               *)
(***************************************************************************)
\* Control flow is CfgBuilder's.  Here nothing follows what leaves a block; the
\* blocks of branches and of functions that return something are left, those of
\* loops are not, and a function that returns nothing is left or runs straight.
WellEnded(t) ==
  LET leaving == Leaving(t)
      Below(n) == {m \in DOMAIN t : t[m].parent = n}
  IN  /\ \A m \in leaving, n \in DOMAIN t :
           t[n].parent = t[m].parent /\ n > m => t[t[m].parent].k = "branch"
      /\ \A b \in DOMAIN t : t[b].k = "block" /\ b # 1 =>
           LET owner == t[t[b].parent] IN
           CASE owner.k = "branch" -> b \in leaving
             [] owner.k = "loop" -> b \notin leaving
             [] owner.k \in {"function", "method"} ->
                  \/ b \in leaving
                  \/ owner.types = {} /\ \A m \in Below(b) : t[m].k \notin {"branch", "loop"}
             [] OTHER -> TRUE
\* Operands come before their operator, and a call has something it calls.
Entries ==
  [k : {"literal"}, ty : {Integer, Float, Boolean}] \cup [k : {"huge", "string"}]
    \cup [k : {"name"}, name : STRING] \cup [k : {"op"}, op : STRING, args : Seq(Nat)]
IsExpression(e) ==
  /\ e \in Seq(Entries)
  /\ \A i \in DOMAIN e : e[i].k = "op" =>
       /\ \A j \in DOMAIN e[i].args : e[i].args[j] \in 1..(i - 1)
       /\ e[i].op = "Call" => e[i].args # <<>>
NodeKinds ==
  {"block", "decl", "expr", "return", "branch", "loop", "function", "type", "member", "method", "constructor"}
TreeNodes ==
  [k : NodeKinds, parent : Nat, name : STRING, types : SUBSET STRING,
   args : Seq([name : STRING, types : SUBSET STRING]), e : Seq(Entries), update : Seq(Entries),
   static : BOOLEAN, foreign : BOOLEAN]
Complete(x) ==
  /\ IsExpression(x.e) /\ IsExpression(x.update) /\ (x.k = "expr" => x.e # None)
  /\ IsFiniteSet(x.types) /\ \A i \in DOMAIN x.args : IsFiniteSet(x.args[i].types)
\* A node's parent is the node before it or one that is around that; what is
\* foreign has no body, and the variables of a loop come before its block.
Placed(t, n) ==
  LET p == t[n].parent IN
  /\ p < n /\ (p = 0 <=> n = 1)
  /\ \A m \in (p + 1)..(n - 1) : t[m].parent >= p
  /\ n # 1 =>
       /\ ~t[p].foreign
       /\ CASE t[n].k \in {"member", "method", "constructor"} -> t[p].k = "type"
            [] t[n].k = "block" -> t[p].k \in {"function", "method", "constructor", "branch", "loop"}
            [] t[n].k = "decl" -> t[p].k = "block" \/ (t[p].k = "loop" /\ \A m \in p..n : t[m].k # "block")
            [] OTHER -> t[p].k = "block" \/ (t[n].k = "branch" /\ t[p].k = "branch")
IsProgram(t) ==
  /\ t \in Seq(TreeNodes) /\ t # <<>> /\ t[1].k = "block"
  /\ \A n \in DOMAIN t : Complete(t[n]) /\ Placed(t, n)
  /\ WellEnded(t)
ASSUME ProgramsAssumption == \A t \in Programs : IsProgram(t)

-----------------------------------------------------------------------------
(***************************************************************************)
(* The specification                                                       *)
(***************************************************************************)
NoSignature == [args |-> <<>>, ret |-> Void]

\* The constructor, which declares the functions of the runtime, create and
\* addMainFunction; then compile visits the root.
Init ==
  /\ prog \in Programs
  /\ newestFirst \in BOOLEAN
  /\ ids = BasicIds
  /\ blockTypes = [n \in DOMAIN prog |-> IF n = 1 THEN {Integer, Float, Boolean, Function} ELSE {}]
  /\ blockScope = {}
  /\ blockFuncs = {[block |-> 1, name |-> x, node |-> Runtime] : x \in RuntimeNames}
  /\ signatures = [f \in 1..(2 * Len(prog)) |->
                     IF f = 1 THEN [NoSignature EXCEPT !.ret = Integer] ELSE NoSignature]
  /\ tyData = [n \in DOMAIN prog |-> NoData]
  /\ functionStack = <<1>> /\ at = 1
  /\ code = <<>>
  /\ todo = <<Visit(1)>>
  /\ status = "compiling"

\* The end of compile: the verifier.  What serializeTypeSet adds to an accepted
\* module, a constant for each type, nothing refers to.
Finish ==
  /\ status = "compiling" /\ todo = <<>>
  /\ status' = IF \A i \in DOMAIN code : code[i].ok THEN "compiled" ELSE "internal"
  /\ UNCHANGED <<given, tables, place, code, todo>>

Next == Finish \/ \E n \in DOMAIN prog : Statement(n) \/ TypeStep(n)
Spec == Init /\ [][Next]_compilerVars

-----------------------------------------------------------------------------
(***************************************************************************)
(* Properties                                                              *)
(***************************************************************************)
Nodes == DOMAIN prog
Functions == DOMAIN signatures
IdNumbers == DOMAIN ids
Errors == {"syntax", "type", "unbound", "redefined"}

\* Tables refer to nodes, functions and identifiers that exist; there is a
\* function to insert in as long as there is something to visit.
TypeOK ==
  /\ \A i \in IdNumbers : ids[i].types \subseteq IdNumbers /\ ids[i].types # {}
  /\ blockTypes \in [Nodes -> SUBSET IdNumbers]
  /\ \A v \in blockScope : v.block \in Nodes /\ v.node \in Nodes /\ v.ty \in IdNumbers /\ v.fn \in Functions
  /\ \A f \in blockFuncs : f.block \in Nodes /\ f.node \in Nodes \cup {Runtime}
  /\ functionStack \in Seq(Functions) /\ at \in Functions
  /\ \A i \in DOMAIN code : code[i].node \in Nodes /\ code[i].fn \in Functions
  /\ \A i \in DOMAIN todo : todo[i].n \in Nodes /\ todo[i].old \in {0} \cup Functions
  /\ status \in {"compiling", "compiled", "internal", "uncaught", "undefined"} \cup Errors
  /\ status = "compiling" => functionStack # <<>>

(***************************************************************************)
(* What the tree says                                                      *)
(***************************************************************************)
\* The function the code of node n belongs to: a member's initialisation to the
\* initialiser, a static one's to what is around the type.
HomeOf(t, n) ==
  LET home[m \in DOMAIN t] ==
        IF t[m].k \in {"function", "method", "constructor"} THEN m
        ELSE IF t[m].k = "member" /\ ~t[m].static THEN Len(t) + t[m].parent
        ELSE IF m = 1 THEN 1 ELSE home[t[m].parent]
  IN  home[n]
Home(n) == HomeOf(prog, n)

\* What a name means at node n: an argument of the function n is in, or else
\* the declaration that precedes n, or is one of loop n's own, in the innermost
\* block that has one, or else a function of the runtime, or else, in a constructor
\* or in a function inside a method, a member of the type.
Meaning(n, name) ==
  LET f == Home(n)
      declared == {m \in Nodes : /\ m <= n \/ prog[m].parent = n
                                 /\ prog[m].k \in {"decl", "function"} /\ prog[m].name = name
                                 /\ EnclosingBlock(m) \in BlocksAbove(prog, n)}
      innermost == {m \in declared : \A x \in declared : EnclosingBlock(x) <= EnclosingBlock(m)}
      variable == {m \in innermost : prog[m].k = "decl"}
      constructor == FindAbove(prog, n, "constructor")
      above == IF constructor # 0 THEN constructor ELSE FindAbove(prog, n, "method")
      members == {m \in Nodes : /\ above # 0 /\ prog[m].parent = prog[above].parent
                                /\ prog[m].k = "member" /\ ~prog[m].static /\ prog[m].name = name}
  IN  IF \E i \in DOMAIN Arguments(f) : Arguments(f)[i].name = name THEN Use(name, "argument", f)
      ELSE IF variable # {} THEN Use(name, "var", Min(variable))
      ELSE IF innermost # {} THEN Use(name, "function", Min(innermost))
      ELSE IF name \in RuntimeNames THEN Use(name, "function", Runtime)
      ELSE IF members # {} THEN Use(name, "member", Min(members))
      ELSE Use(name, "nothing", 0)

NamesIn(e) == {e[i].name : i \in {j \in DOMAIN e : e[j].k = "name"}}

\* Every name that was compiled stands for what it means in the tree, and a
\* name that is not found means nothing there: the tables blocks are given as
\* their statements are visited, constructors and methods long after the rest,
\* show each of them what precedes it and nothing else.
NamesResolved ==
  /\ \A i \in DOMAIN code : \A u \in code[i].uses : u = Meaning(code[i].node, u.name)
  /\ status = "unbound" =>
       LET n == prog[Head(todo).n] IN
       \E name \in NamesIn(n.e) \cup NamesIn(n.update) : Meaning(Head(todo).n, name).kind = "nothing"

\* Whether n defines what is defined already: a variable or a function in its
\* block, in the root block a function of the runtime too, a type in a block around
\* it, a member, or a method after a member, of its type.
SameArgs(m, n) ==
  LET Llvm(x) == [i \in DOMAIN prog[x].args |->
                    IF Cardinality(prog[x].args[i].types) > 1 THEN {} ELSE prog[x].args[i].types]
  IN  Llvm(m) = Llvm(n)
Clashes(n) ==
  LET k == prog[n].k IN
  \/ k = "type" /\ prog[n].name \in {"Integer", "Float", "Boolean", "Function"}
  \/ k = "function" /\ EnclosingBlock(n) = 1 /\ prog[n].name \in RuntimeNames
  \/ \E m \in 1..(n - 1) :
       LET siblings == prog[m].parent = prog[n].parent
           same == prog[m].k = k /\ prog[m].name = prog[n].name
       IN  \/ k \in {"decl", "function"} /\ same /\ EnclosingBlock(m) = EnclosingBlock(n)
           \/ k = "type" /\ same /\ EnclosingBlock(m) \in BlocksAbove(prog, n) /\ ~Within(prog, n, m)
           \/ k \in {"member", "method"} /\ siblings /\ prog[m].k = "member" /\ prog[m].name = prog[n].name
           \/ k = "constructor" /\ siblings /\ prog[m].k = k /\ SameArgs(m, n)

\* A program that compiles defines nothing twice, and one that is rejected for
\* it does, at the node that was being visited: the variables of two loops in
\* one block included.
DefinedOnce ==
  /\ status = "compiled" => \A n \in Nodes : ~Clashes(n)
  /\ status = "redefined" => Clashes(Head(todo).n)

\* In a module that is accepted every value that is stored or passed is of a
\* type its place allows: where only a check at run time could tell (a list
\* into a list, or into one of its types) LLVM has rejected the store.  So is
\* every value that is returned, unless it is a variable of a list that has a
\* type in common with what is returned: that, and nothing else, is left to the
\* check, which is a stub.
TypeFits(s) == ids[s.ty].types \subseteq ids[s.allows].types
LeftToTheCheck(s) ==
  s.into = "caller" /\ IsList(ids[s.ty]) /\ ids[s.ty].types \cap ids[s.allows].types # {}
StoresFit ==
  status = "compiled" =>
    \A i \in DOMAIN code : \A s \in code[i].stores : TypeFits(s) \/ LeftToTheCheck(s)

\* visitReturn says "If the returnedValue's type can't be found in the list of
\* possible return types, get mad": a value that is returned is of a type the
\* function returns.  The code takes a list for it if one type is in both, and
\* LLVM takes the first word of the union, an address, for the value.
ReturnsFit ==
  status = "compiled" =>
    \A i \in DOMAIN code : \A s \in code[i].stores : s.into = "caller" => TypeFits(s)

\* Identifiers that are looked up by the same names, from where there is still
\* something to visit, allow the same types: which of them an unordered set
\* yields first makes no difference.
ListsByNameAgree ==
  \A k \in DOMAIN todo :
    LET visible == UNION {blockTypes[b] : b \in BlocksAbove(prog, todo[k].n)} IN
    \A i, j \in visible : ids[i].names = ids[j].names => ids[i].types = ids[j].types

\* Once a type is known by its name, nothing of it is left to be compiled and
\* its struct has a body; until then no variable has it.
KnownTypesAreComplete ==
  \A t \in Nodes : prog[t].k = "type" /\ TidOf(t) # 0 =>
    LET known == \E b \in Nodes : TidOf(t) \in blockTypes[b] IN
    /\ known => /\ tyData[t].laidOut
                /\ \A k \in DOMAIN todo : todo[k].n # t /\ prog[todo[k].n].parent # t
    /\ ~known => \A v \in blockScope : TidOf(t) \notin ids[v.ty].types

\* In a module that is accepted the initialiser stores every member that has an
\* initialisation, once and in order, and every constructor calls it before it
\* does anything else, if there is anything to initialise.
OfFunction(f) == SelectSeq(code, LAMBDA i : i.fn = f)
ConstructorsInitialise ==
  status = "compiled" =>
    \A t \in Nodes : prog[t].k = "type" =>
      LET initialised == Only(Kids(prog, t), {m \in Nodes : prog[m].k = "member" /\ ~prog[m].static
                                                           /\ prog[m].e # None})
          inits == OfFunction(InitOf(t))
      IN  /\ [i \in DOMAIN inits |-> inits[i].node] = initialised
          /\ \A c \in Nodes : prog[c].k = "constructor" /\ prog[c].parent = t =>
               \A i \in DOMAIN OfFunction(c) :
                 OfFunction(c)[i].op = "callInit" <=> i = 1 /\ initialised # <<>>

\* The instructions of a node are in the function the node belongs to, whatever
\* functions, methods, initialisers and constructors were compiled in between.
\* In a module that is accepted none is missing and none is there twice, though
\* bodies and initialisations of a type are compiled long after they are visited.
Instructions(n) ==
  LET k == prog[n].k
      IfAny(op) == IF prog[n].e = None THEN <<>> ELSE <<op>>
  IN  CASE k = "decl" -> <<"alloca">> \o IfAny("expr")
        [] k \in {"expr", "branch"} -> <<"expr">>
        [] k = "loop" -> <<"expr", "expr">>
        [] k = "return" -> <<"return">>
        [] k = "member" -> IfAny("initMember")
        [] k = "constructor" ->
             (IF tyData[TypeOf(n)].initExists THEN <<"callInit">> ELSE <<>>) \o <<"return">>
        [] OTHER -> <<>>
CompiledInPlace ==
  /\ \A i \in DOMAIN code : code[i].fn = Home(code[i].node)
  /\ status = "compiled" =>
       \A n \in Nodes : Instructions(n) =
         LET mine == SelectSeq(code, LAMBDA i : i.node = n) IN [i \in DOMAIN mine |-> mine[i].op]

\* Storing into a union writes the words of that union: compiler.hpp says of
\* storeTypeList "Store in the allowed type list field of a union" and of
\* assignToUnion "Update all required fields in a union".  The code steps over
\* whole unions instead.
FieldsStayInUnion == \A i \in DOMAIN code : code[i].words \subseteq 0..(UnionWords - 1)
=============================================================================
