------------------------------ MODULE Statements ------------------------------
(***************************************************************************)
(* The visits of statements and functions (llvm/compiler.cpp), as far as   *)
(* names, types and values go; basic blocks are in CfgBuilder.  A step     *)
(* takes the first visit of `todo`; what a visit does around others is a   *)
(* step before and a step after them.                                      *)
(***************************************************************************)
EXTENDS Expressions

given == <<prog, newestFirst>>
tables == <<ids, blockTypes, blockScope, blockFuncs, signatures, tyData>>
place == <<functionStack, at>>

Visit(n) == [t |-> "visit", n |-> n, old |-> 0]
Task(t, n) == [t |-> t, n |-> n, old |-> at]
Due(t, n) == status = "compiling" /\ todo # <<>> /\ Head(todo).t = t /\ Head(todo).n = n
DueVisit(k, n) == Due("visit", n) /\ prog[n].k = k
\* What comes after the first visit, once these are done.
TodoFirst(tasks) == todo' = tasks \o Tail(todo) /\ UNCHANGED given
Visits(nodes) == [i \in DOMAIN nodes |-> Visit(nodes[i])]
VisitKids(n) == Visits(Kids(prog, n))

Fail(how) == status' = how /\ UNCHANGED <<given, tables, place, code, todo>>
\* v's instructions, for node n, in function f or where the builder is.
InsertedIn(f, op, n, v) ==
  Append(code, [op |-> op, node |-> n, fn |-> f, ok |-> v.ok, uses |-> v.uses,
                stores |-> v.stores, words |-> v.words])
Inserted(op, n, v) == InsertedIn(at, op, n, v)
\* r, unless v was thrown.
Then(v, r) == IF v.how = "ok" THEN r ELSE v
\* A visit that only inserts v's instructions.
Insert(op, n, v) ==
  IF v.how # "ok" THEN Fail(v.how)
  ELSE /\ code' = Inserted(op, n, v)
       /\ TodoFirst(<<>>)
       /\ UNCHANGED <<tables, place, status>>

(***************************************************************************)
(* Declarations                                                            *)
(***************************************************************************)
\* Mutant: a second declaration hides the first one.
NeverDefined(b, name) == FALSE
Defined(b, name) == Variables(b, name) # {}

\* visitDeclaration, up to the initialisation.  A list of types gets an
\* identifier of its own, and then one with its names is looked for.
VisitDeclaration(n) ==
  LET b == EnclosingBlock(n)
      names == prog[n].types
      each == {TypeIdFromInfo({x}, n) : x \in names}
      isList == Cardinality(names) > 1
      new == Len(ids) + 1
      id == IF isList THEN Pick(Named(b, names) \cup {new}) ELSE TypeIdFromInfo(names, n)
      var == [block |-> b, name |-> prog[n].name, node |-> n, ty |-> id, fn |-> at,
              returned |-> FALSE]
      tagged == [Value(id, Lt(1, Union)) EXCEPT !.words = IF isList THEN {UnionField(1)} ELSE {}]
  IN  /\ DueVisit("decl", n)
      /\ IF names = {} THEN Fail("internal")
         ELSE IF 0 \in each THEN Fail("type")
         ELSE IF Defined(b, prog[n].name) THEN Fail("redefined")
         ELSE /\ ids' = IF isList THEN Append(ids, TypeListId(names, each)) ELSE ids
              /\ blockTypes' = IF isList THEN [blockTypes EXCEPT ![b] = @ \cup {new}] ELSE blockTypes
              /\ blockScope' = blockScope \cup {var}
              /\ code' = Inserted("alloca", n, tagged)
              /\ TodoFirst(IF prog[n].e = None THEN <<>> ELSE <<Task("initialize", n)>>)
              /\ UNCHANGED <<blockFuncs, signatures, tyData, place, status>>

\* The rest of it: the variable is in scope of its own initialisation.
Initialize(n) ==
  LET var == CHOOSE v \in blockScope : v.node = n
      to == Value(var.ty, Lt(1, Base(var.ty)))
      v == CompileExpression(prog[n].e, n)
  IN  /\ Due("initialize", n)
      /\ Insert("expr", n, Then(v, CheckedStore(<<v>>, to, v, IsList(ids[var.ty]))))

(***************************************************************************)
(* Expressions, blocks, branches and loops                                 *)
(***************************************************************************)
VisitExpression(n) ==
  DueVisit("expr", n) /\ Insert("expr", n, CompileExpression(prog[n].e, n))

VisitBlock(n) ==
  DueVisit("block", n) /\ TodoFirst(VisitKids(n)) /\ UNCHANGED <<tables, place, code, status>>

\* compileBranch and visitLoop: the condition is compiled before the blocks, and
\* after the variables of a for; the updates come last.
VisitBranch(n) ==
  /\ DueVisit("branch", n)
  /\ TodoFirst(<<Task("condition", n)>> \o VisitKids(n))
  /\ UNCHANGED <<tables, place, code, status>>
VisitLoop(n) ==
  LET Of(k) == Visits(Only(Kids(prog, n), {m \in DOMAIN prog : prog[m].k = k})) IN
  /\ DueVisit("loop", n)
  /\ TodoFirst(Of("decl") \o <<Task("condition", n)>> \o Of("block") \o <<Task("update", n)>>)
  /\ UNCHANGED <<tables, place, code, status>>

\* canBeBoolean, and the jump that uses the value as it is.
Tested(v) ==
  IF v.ty = Boolean THEN [v EXCEPT !.ok = @ /\ v.here /\ IsA(v, Boolean)] ELSE Thrown("type")
Optional(e, n) == IF e = None THEN Value(Boolean, Lt(0, Boolean)) ELSE CompileExpression(e, n)
Condition(n) ==
  LET v == Optional(prog[n].e, n) IN
  Due("condition", n) /\ Insert("expr", n, Then(v, Tested(v)))
Update(n) == Due("update", n) /\ Insert("expr", n, Optional(prog[n].update, n))

(***************************************************************************)
(* Functions                                                               *)
(***************************************************************************)
\* typeFromInfo, of the arguments and of the return type of n; {} is void
\* there, and no type at all elsewhere.
Unusable(types, n) ==
  IF types = {} THEN "internal" ELSE IF TypeIdFromInfo(types, n) = 0 THEN "type" ELSE "ok"
SignatureProblem(n) ==
  LET all == [i \in DOMAIN prog[n].args |-> Unusable(prog[n].args[i].types, n)]
               \o <<IF prog[n].types = {} THEN "ok" ELSE Unusable(prog[n].types, n)>>
      wrong == {i \in DOMAIN all : all[i] # "ok"}
  IN  IF wrong = {} THEN "ok" ELSE all[Min(wrong)]
\* `this` is what comes before the arguments.
SignatureOf(n, this) ==
  LET args == prog[n].args
      Of(types) == Base(TypeIdFromInfo(types, n))
  IN  [args |-> this \o [i \in DOMAIN args |-> Lt(0, Of(args[i].types))],
       ret |-> IF prog[n].types = {} THEN Void ELSE Of(prog[n].types)]

\* A function's body is compiled with the function on the stack.
Body(n) == VisitKids(n) \o <<Task("endFunction", n)>>
EnterFunction(n) == functionStack' = <<n>> \o functionStack /\ at' = n

\* visitFunction: a function is in scope of its own body.
VisitFunction(n) ==
  LET b == EnclosingBlock(n)
      problem == SignatureProblem(n)
  IN  /\ DueVisit("function", n)
      /\ IF problem # "ok" THEN Fail(problem)
         ELSE IF FunctionsIn(b, prog[n].name) # {} THEN Fail("redefined")
         ELSE /\ signatures' = [signatures EXCEPT ![n] = SignatureOf(n, <<>>)]
              /\ blockFuncs' = blockFuncs \cup {[block |-> b, name |-> prog[n].name, node |-> n]}
              /\ IF prog[n].foreign THEN TodoFirst(<<>>) /\ UNCHANGED place
                 ELSE TodoFirst(Body(n)) /\ EnterFunction(n)
              /\ UNCHANGED <<ids, blockTypes, blockScope, tyData, code, status>>

\* Mutant: the builder stays in the function that is over.
BackNowhere(task) == at
\* Where the builder goes when a function is over.
BackTo(task) == task.old

\* Mutant: popped with the block, and again with the function.
PopTwice(stack) == Tail(Tail(stack))
Pop(stack) == Tail(stack)

LeaveFunction == functionStack' = Pop(functionStack) /\ at' = BackTo(Head(todo))
\* compileBlock and visitFunction, when the body is over.
EndFunction(n) ==
  /\ Due("endFunction", n)
  /\ LeaveFunction
  /\ TodoFirst(<<>>)
  /\ UNCHANGED <<tables, code, status>>

\* The value visitReturn returns: a pointer, of whatever, is loaded; one to a
\* union is first taken for one to what the function returns.
ReturnedValue(v, ret) ==
  IF v.lt = Lt(0, ret) THEN [v EXCEPT !.ok = @ /\ v.here]
  ELSE IF v.lt = Lt(1, Union) THEN [v EXCEPT !.ok = @ /\ v.here, !.lt = Lt(0, ret)]
  ELSE [Load(v) EXCEPT !.ok = @ /\ v.here /\ v.lt = Lt(1, ret)]
\* It goes to the caller, which takes it for a value of type ty.
ToCaller(v, ty) == [v EXCEPT !.stores = @ \cup {Stored(ty, v.ty, "caller")}]

\* visitReturn.  The loaded value replaces that of the wrapper, and if it is a
\* variable's the variable has no pointer any more.
VisitReturn(n) ==
  LET func == FunctionAbove(n)
      types == IF func = 0 THEN {"Integer"} ELSE prog[func].types
      v == CompileExpression(prog[n].e, n)
      ty == TypeIdFromInfo(types, n)
      returned == ReturnedValue(v, signatures[Head(functionStack)].ret)
      checked == IF ty = 0 THEN Thrown("type")
                 ELSE IF TypeCheck(ty, v) # "ok" THEN Thrown(TypeCheck(ty, v))
                 ELSE ToCaller(returned, ty)
      loses == prog[n].e # None /\ v.how = "ok" /\ v.var # 0 /\ returned.lt # v.lt
  IN  /\ DueVisit("return", n)
      /\ IF func = 0 /\ ~BlockReturn THEN Fail("syntax")
         ELSE IF prog[n].e = None /\ types = {} THEN Insert("return", n, Value(Void, Lt(0, Void)))
         ELSE IF prog[n].e = None \/ types = {} THEN Fail("type")
         ELSE IF Then(v, checked).how # "ok" THEN Fail(Then(v, checked).how)
         ELSE /\ code' = Inserted("return", n, checked)
              /\ blockScope' =
                   {IF loses /\ x.node = v.var THEN [x EXCEPT !.returned = TRUE] ELSE x : x \in blockScope}
              /\ TodoFirst(<<>>)
              /\ UNCHANGED <<ids, blockTypes, blockFuncs, signatures, tyData, place, status>>

Statement(n) ==
  \/ VisitDeclaration(n) \/ Initialize(n) \/ VisitExpression(n) \/ VisitBlock(n)
  \/ VisitBranch(n) \/ VisitLoop(n) \/ Condition(n) \/ Update(n)
  \/ VisitFunction(n) \/ EndFunction(n) \/ VisitReturn(n)
=============================================================================
