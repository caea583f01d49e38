------------------------------ MODULE Expressions ------------------------------
(***************************************************************************)
(* compileExpression and the operators of codegenMap (llvm/compiler.cpp).  *)
(* An entry of an expression is a literal, a name, or an operator by its   *)
(* name in Operator::list with its operands, by their numbers; a call has  *)
(* what is called first.                                                   *)
(***************************************************************************)
EXTENDS Scopes

Numeric == {Integer, Float}

(***************************************************************************)
(* Storing                                                                 *)
(***************************************************************************)
\* typeCheck.  The run-time check is given the value boxed, and boxPrimitive
\* looks through a pointer without asking whether it has one.
TypeCheck(ty, v) ==
  LET compat == IsCompat(ids[ty], ids[v.ty]) IN
  CASE compat = "incompatible" -> "type"
    [] compat = "dynamic" /\ v.lt.ptr = 0 -> "undefined"
    [] OTHER -> "ok"

\* A tagged union: a pointer to the data, the id of the allowed types, the id
\* of the current one.
UnionWords == 3
\* Where CreateConstGEP1_32 goes: over that many unions.
UnionField(i) == i * UnionWords
\* assignToUnion: the value in memory of its own, then its address and type.
BoxedWords == {UnionField(0), UnionField(2)}

\* A value of type ty goes into a place that allows `allows`, or to the caller of
\* a function that returns `allows`.
Stored(allows, ty, into) == [allows |-> allows, ty |-> ty, into |-> into]
\* v is stored where `to` points, boxed or not.
Store(ops, to, v, boxed) ==
  LET fits == IF boxed THEN IsA(v, Base(v.ty)) ELSE to.lt = Lt(v.lt.ptr + 1, v.lt.of)
      r == From(ops, v.ty, v.lt, fits)
  IN  IF boxed /\ to.lt.ptr = 0 THEN Thrown("undefined")
      ELSE [r EXCEPT !.stores = @ \cup {Stored(to.ty, v.ty, "place")}, !.fun = v.fun, !.var = v.var,
                     !.words = @ \cup IF boxed THEN BoxedWords ELSE {}]
\* The same, once typeCheck has let it pass.
CheckedStore(ops, to, v, boxed) ==
  LET check == TypeCheck(to.ty, v) IN
  IF check # "ok" THEN Thrown(check) ELSE Store(ops, to, v, boxed)

(***************************************************************************)
(* The operators                                                           *)
(***************************************************************************)
Arithmetic == {"Add", "Substract", "Multiply", "Divide", "Modulo"}
Comparisons ==
  {"Equality", "Inequality", "Less", "Less or equal", "Greater", "Greater or equal"}
Shifts == {"Bitshift >>", "Bitshift <<"}
Nots == {"Bitwise NOT", "Logical NOT"}
Bitwise == {"Bitwise AND", "Logical AND", "Bitwise OR", "Logical OR", "Bitwise XOR"}
Signs == {"Unary +", "Unary -"}
Increments == {"Postfix ++", "Postfix --", "Prefix ++", "Prefix --"}
Implemented ==
  Arithmetic \cup Comparisons \cup Shifts \cup Nots \cup Bitwise \cup Signs \cup Increments
    \cup {"Call", "Assignment"}

\* The reference lists of Operator::list: operators whose first operand must
\* be mutable, and what a call calls.
Mutating ==
  Increments \cup {"Call", "Assignment", "Member access", "Subscript"}
    \cup {"+Assignment", "-Assignment", "*Assignment", "/Assignment", "%Assignment"}
    \cup {"<<Assignment", ">>Assignment", "&Assignment", "^Assignment", "|Assignment"}

\* operatorTypeCheck, per operator: the types its operands may have.  Each list
\* for a binary bit operator has one type and is never as long as its operands.
Allowed(op) ==
  CASE op \in Arithmetic -> {<<a, b>> : a \in Numeric, b \in Numeric}
    [] op \in Comparisons ->
         {<<a, b>> : a \in Numeric, b \in Numeric} \cup {<<Boolean, Boolean>>}
    [] op \in Shifts -> {<<Integer, Integer>>}
    [] op = "Logical NOT" -> {<<Boolean>>}
    [] op = "Bitwise NOT" -> {<<Boolean>>, <<Integer>>}
    [] op \in Bitwise -> {<<Boolean>>, <<Integer>>}
    [] op \in Signs \cup Increments -> {<<Integer>>, <<Float>>}

\* arithmOpBuilder: only integers are computed as such, and nothing is converted.
ArithmeticOp(ops) ==
  LET ty == IF \A i \in {1, 2} : ops[i].ty = Integer THEN Integer ELSE Float IN
  From(ops, ty, Load(ops[1]).lt, \A i \in {1, 2} : IsA(Load(ops[i]), ty))
\* cmpOpBuilder, whose operands are converted to a Float if their types differ;
\* the shifts; notFunction and unaryMinus.
LoadingOp(op, ops) ==
  LET valid == \A i \in DOMAIN ops : IsA(Load(ops[i]), ops[i].ty) IN
  IF op \in Comparisons THEN From(ops, Boolean, Lt(0, Boolean), valid)
  ELSE From(ops, ops[1].ty, Load(ops[1]).lt, valid)
\* preOrPostfixOpBuilder: the addition is one of integers; a prefix operator
\* returns its store instruction, which has no value.
IncrementOp(op, ops) ==
  From(ops, ops[1].ty, IF op \in {"Postfix ++", "Postfix --"} THEN Load(ops[1]).lt ELSE Lt(0, Void),
       ops[1].ty = Integer /\ ops[1].lt = Lt(1, Integer))

\* call, at node n: arguments are checked from left to right and passed as
\* they are.
Call(ops, n) ==
  LET fun == ops[1].fun
      args == Arguments(fun)
      argIds == [i \in DOMAIN args |-> TypeIdFromInfo(args[i].types, n)]
      how == [i \in DOMAIN args |->
                IF argIds[i] = 0 THEN "type" ELSE TypeCheck(argIds[i], ops[i + 1])]
      wrong == {i \in DOMAIN args : how[i] # "ok"}
      ret == IF prog[fun].types = {} THEN Void ELSE TypeIdFromInfo(prog[fun].types, n)
      fits == \A i \in DOMAIN args : ops[i + 1].lt = signatures[fun].args[i]
      passed == {Stored(argIds[i], ops[i + 1].ty, "place") : i \in DOMAIN args}
  IN  IF ops[1].ty # Function THEN Thrown("type")
      ELSE IF fun = 0 THEN Thrown("undefined")    \* no FunctionWrapper, but cast to one
      ELSE IF fun = Runtime THEN Thrown("type")
      ELSE IF Len(ops) - 1 # Len(args) THEN Thrown("type")
      ELSE IF wrong # {} THEN Thrown(how[Min(wrong)])
      ELSE IF ret = 0 THEN Thrown("type")
      ELSE [From(ops, ret, Lt(0, signatures[fun].ret), fits) EXCEPT !.stores = @ \cup passed]

Assignment(ops) == CheckedStore(ops, ops[1], ops[2], IsList(ids[ops[1].ty]))

\* The entry of codegenMap; one that is missing is an empty function, and
\* calling it an exception nobody catches.
Codegen(op, ops, n) ==
  IF op \notin Implemented THEN Thrown("uncaught")
  ELSE IF op = "Call" THEN Call(ops, n)
  ELSE IF op = "Assignment" THEN Assignment(ops)
  ELSE IF [i \in DOMAIN ops |-> ops[i].ty] \notin Allowed(op) THEN Thrown("type")
  ELSE IF op \in Arithmetic THEN ArithmeticOp(ops)
  ELSE IF op \in Increments THEN IncrementOp(op, ops)
  ELSE IF op = "Unary +" THEN ops[1]
  ELSE LoadingOp(op, ops)

\* compileExpression, of entry i of an expression that belongs to node n: the
\* first operand that throws is what is thrown.  A literal has no pointer to ask
\* for, a name is never loaded, whatever is asked for; a literal beyond std::stoll
\* throws an exception of the standard library, a string is not implemented.
Unary == Nots \cup Signs \cup Increments
CompileNode(e, i, n, compiled) ==
  LET x == e[i]
      NoPointer(j) == j = 1 /\ x.op \in Mutating /\ e[x.args[j]].k \notin {"name", "op"}
      ops == [j \in DOMAIN x.args |-> IF NoPointer(j) THEN Thrown("syntax") ELSE compiled[x.args[j]]]
      thrown == {j \in DOMAIN ops : ops[j].how # "ok"}
  IN  CASE x.k = "literal" -> Value(x.ty, Lt(0, x.ty))
        [] x.k = "huge" -> Thrown("uncaught")
        [] x.k = "string" -> Thrown("internal")
        [] x.k = "name" -> ValueFromIdentifier(x.name, n)
        [] x.k = "op" ->
             IF thrown # {} THEN ops[Min(thrown)]
             ELSE IF x.op # "Call" /\ Len(ops) # (IF x.op \in Unary THEN 1 ELSE 2) THEN Thrown("internal")
             ELSE Codegen(x.op, ops, n)
CompileExpression(e, n) ==
  LET compiled[i \in DOMAIN e] == CompileNode(e, i, n, compiled) IN compiled[Len(e)]
=============================================================================
