------------------------------ MODULE ExprParser ------------------------------
(***************************************************************************)
(* TokenParser::expression and what it calls (tokenParser.cpp): the tokens *)
(* of an expression to a tree.                                             *)
(*                                                                         *)
(* The recursion is a stack of invocations, so one step is what the code   *)
(* does between two calls.  Trees are linked as the code links them: a     *)
(* node is the position of its token and kids[n] its children so far, 0 is *)
(* the null pointer.  A call is the node of its opening bracket, its "Call *)
(* arguments" the node of the closing one.                                 *)
(***************************************************************************)
EXTENDS ExprOutline, FiniteSets

CONSTANT Inputs   \* the token lists considered, with the final FILE_END

OpenTypes == {"PAREN_LEFT", "SQPAREN_LEFT", "CALL_BEGIN"}
CloserOf == [t \in OpenTypes |-> CASE t = "PAREN_LEFT" -> "PAREN_RIGHT"
                                   [] t = "SQPAREN_LEFT" -> "SQPAREN_RIGHT"
                                   [] t = "CALL_BEGIN" -> "CALL_END"]
TokenTypes ==
  TerminalTypes \cup EndTypes \cup OpenTypes \cup
    {"PAREN_RIGHT", "SQPAREN_RIGHT", "CALL_END", "OPERATOR", "OTHER"}
TokenSet ==
  {t \in [type : TokenTypes, op : {0} \cup DOMAIN Operators] :
     t.type = "OPERATOR" <=> t.op # 0}

ASSUME InputsAssumption ==
  \A i \in Inputs : /\ i \in Seq(TokenSet) /\ i # <<>>
                    /\ i[Len(i)].type = "FILE_END"

VARIABLES
  input,  \* the tokens, fixed
  pos,    \* the current one
  limit,  \* where this parser's input ends: a group is parsed by a parser of its own
  kids,   \* node -> its children
  stack,  \* the invocations that wait for a value, innermost last
  val,    \* the node being returned or passed
  mode    \* what runs next, or how the parser ended

vars == <<input, pos, limit, kids, stack, val, mode>>

-----------------------------------------------------------------------------
\* What waits: the parser of the group opened at `begin` (0: the outermost
\* parser), called on `callee`; a chain of prefix operators from `first` to
\* `last`; expressionImpl(_, min), with its locals tokExpr, base and lastExpr.
GroupFrame(begin, callee) ==
  [kind |-> "group", begin |-> begin, callee |-> callee, limit |-> limit]
PrefixFrame(first, last) == [kind |-> "prefix", first |-> first, last |-> last]
ImplFrame(op, base, last, min) ==
  [kind |-> "impl", op |-> op, base |-> base, last |-> last, min |-> min]

Top == stack[Len(stack)]
Rest == SubSeq(stack, 1, Len(stack) - 1)
Push(frame) == stack' = Append(stack, frame)
Replace(frame) == stack' = Append(Rest, frame)

\* The copied input of a group ends in a FILE_END of its own.
TypeAt(p) == IF p = limit THEN "FILE_END" ELSE input[p].type
OpAt(p) == IF p = limit THEN 0 ELSE input[p].op
AcceptEndOfExpression == TypeAt(pos) \in EndTypes
IsBinaryOp == TypeAt(pos) = "OPERATOR" /\ IsBinary(OpAt(pos))
IsPrefixOp == TypeAt(pos) = "OPERATOR" /\ IsPrefix(OpAt(pos))
IsPostfixOp == TypeAt(pos) = "OPERATOR" /\ IsPostfix(OpAt(pos))
CurPrec == Operators[OpAt(pos)].prec
PrecOf(node) == Operators[input[node].op].prec
IsComma(node) == IsOp(input[node], <<",">>)
SkipFrom(p) == IF p + 1 > limit THEN limit ELSE p + 1

\* addChild dereferences the child: a null one is a crash.
Ended(how) == mode' = how /\ UNCHANGED <<input, pos, limit, kids, stack, val>>
Link(parent, child) == kids' = [kids EXCEPT ![parent] = Append(@, child)]

\* Where the group opened at p ends: the scan counts the brackets of its own
\* kind only.  Empty if they do not balance; the scan then never ends.
OfType(from, to, t) == {q \in from..to : TypeAt(q) = t}
Closed(p, q) ==
  Cardinality(OfType(p, q, TypeAt(p))) = Cardinality(OfType(p, q, CloserOf[TypeAt(p)]))
\* Mutant: the last token before the end is not looked at.
GroupEndsEarly(p) ==
  {q \in p..(limit - 2) : Closed(p, q) /\ \A r \in p..(q - 1) : ~Closed(p, r)}
GroupEnds(p) ==
  {q \in p..(limit - 1) : Closed(p, q) /\ \A r \in p..(q - 1) : ~Closed(p, r)}

\* The commas a call's arguments are read from, from the root of the tree down
\* its first children.
Descent(root) ==
  LET at[k \in 0..Len(input)] ==
        IF k = 0 THEN root
        ELSE LET node == at[k - 1] IN IF IsComma(node) THEN kids[node][1] ELSE node
  IN  at
CommaSpine(root) ==
  LET at == Descent(root)
      size == CHOOSE k \in 0..Len(input) :
                ~IsComma(at[k]) /\ \A j \in 0..(k - 1) : IsComma(at[j])
  IN  IF root = 0 THEN <<>> ELSE [i \in 1..size |-> at[i - 1]]
\* Mutant: the list is left as it was collected.
ArgsReversed(inside) ==
  LET spine == CommaSpine(inside)
      size == Len(spine)
  IN  IF inside = 0 THEN <<>>
      ELSE IF size = 0 THEN <<inside>>
      ELSE [i \in 1..size |-> kids[spine[i]][2]] \o <<kids[spine[size]][1]>>
ArgsFrom(inside) ==
  LET spine == CommaSpine(inside)
      size == Len(spine)
  IN  IF inside = 0 THEN <<>>
      ELSE IF size = 0 THEN <<inside>>
      ELSE <<kids[spine[size]][1]>> \o [i \in 1..size |-> kids[spine[size + 1 - i]][2]]
\* Reading a comma's second child throws std::out_of_range if it has one only.
ArgsMissing(inside) ==
  \E i \in DOMAIN CommaSpine(inside) : Len(kids[CommaSpine(inside)[i]]) < 2

(***************************************************************************)
(* parseExpressionPrimary                                                  *)
(***************************************************************************)
EmptyPrimary ==
  /\ mode = "primary" /\ AcceptEndOfExpression
  /\ val' = 0 /\ mode' = "operand"
  /\ UNCHANGED <<input, pos, limit, kids, stack>>

Terminal ==
  /\ mode = "primary" /\ TypeAt(pos) \in TerminalTypes
  /\ val' = pos /\ pos' = SkipFrom(pos) /\ mode' = "postfix"
  /\ UNCHANGED <<input, limit, kids, stack>>

\* A prefix operator: the first of a chain, or one more, linked to the one
\* before it.
PrefixOp ==
  /\ mode = "primary" /\ IsPrefixOp
  /\ IF Top.kind = "prefix"
     THEN Link(Top.last, pos) /\ Replace(PrefixFrame(Top.first, pos))
     ELSE UNCHANGED kids /\ Push(PrefixFrame(pos, pos))
  /\ pos' = SkipFrom(pos)
  /\ UNCHANGED <<input, limit, val, mode>>

Illegal ==
  /\ mode = "primary" /\ ~AcceptEndOfExpression /\ ~IsPrefixOp
  /\ TypeAt(pos) \notin TerminalTypes \cup {"PAREN_LEFT"}
  /\ Ended(IF TypeAt(pos) \in {"CALL_BEGIN", "SQPAREN_LEFT"} THEN "internal" ELSE "error")

\* The operand of a chain of prefix operators has been parsed.
PrefixOperand ==
  /\ mode = "operand" /\ Top.kind = "prefix"
  /\ IF val = 0 THEN Ended("crash")
     ELSE /\ Link(Top.last, val)
          /\ val' = Top.first /\ stack' = Rest
          /\ UNCHANGED <<input, pos, limit, mode>>

(***************************************************************************)
(* parseCircumfixGroup and parsePostfix                                    *)
(***************************************************************************)
\* The group opened at the current token is parsed by a new parser, on a copy
\* of what is between its brackets.
EnterGroup(callee, close) ==
  /\ Push(GroupFrame(pos, callee))
  /\ pos' = pos + 1 /\ limit' = close /\ val' = 0 /\ mode' = "primary"
  /\ UNCHANGED <<input, kids>>

\* The call node gets its arguments, then what is called.  The commas between
\* the arguments are not used any more.
MakeCall(begin, close, inside, callee) ==
  LET spine == CommaSpine(inside) IN
  /\ kids' = [n \in DOMAIN kids |->
                CASE n = begin -> <<close, callee>>
                  [] n = close -> ArgsFrom(inside)
                  [] \E i \in DOMAIN spine : spine[i] = n -> <<>>
                  [] OTHER -> kids[n]]
  /\ val' = begin /\ mode' = "postfix"

OpenParen ==
  /\ mode = "primary" /\ TypeAt(pos) = "PAREN_LEFT"
  /\ \E close \in GroupEnds(pos) :
       IF close = pos + 1 THEN Ended("internal") ELSE EnterGroup(0, close)

OpenCall ==
  /\ mode = "postfix" /\ TypeAt(pos) = "CALL_BEGIN"
  /\ \E close \in GroupEnds(pos) :
       IF close = pos + 1
       THEN /\ MakeCall(pos, close, 0, val)
            /\ pos' = close + 1
            /\ UNCHANGED <<input, limit, stack>>
       ELSE EnterGroup(val, close)

PostfixOp ==
  /\ mode = "postfix" /\ IsPostfixOp
  /\ Link(pos, val)
  /\ val' = pos /\ pos' = SkipFrom(pos)
  /\ UNCHANGED <<input, limit, stack, mode>>

PostfixDone ==
  /\ mode = "postfix" /\ ~IsPostfixOp /\ TypeAt(pos) # "CALL_BEGIN"
  /\ mode' = "operand"
  /\ UNCHANGED <<input, pos, limit, kids, stack, val>>

\* Mutant: one token too far.
AfterGroupAndNext == limit + 2
\* The scan has skipped the closing bracket.
AfterGroup == limit + 1
\* The value of a group goes to whoever opened it.  What its parser did not
\* read is dropped with its copy of the input.
LeaveGroup ==
  /\ mode = "value" /\ Top.kind = "group"
  /\ IF Top.begin = 0
     THEN /\ stack' = Rest /\ mode' = "done"
          /\ UNCHANGED <<input, pos, limit, kids, val>>
     ELSE IF ArgsMissing(val) /\ input[Top.begin].type = "CALL_BEGIN"
     THEN Ended("uncaught")
     ELSE /\ stack' = Rest /\ pos' = AfterGroup /\ limit' = Top.limit
          /\ IF input[Top.begin].type = "CALL_BEGIN"
             THEN MakeCall(Top.begin, limit, val, Top.callee)
             ELSE mode' = "postfix" /\ UNCHANGED <<kids, val>>
          /\ UNCHANGED input

(***************************************************************************)
(* expression and expressionImpl                                           *)
(***************************************************************************)
\* expression(): an empty one is an error in parentheses, no arguments in a
\* call, and up to the statement in the outermost parser.
EmptyExpression ==
  /\ mode = "operand" /\ Top.kind = "group" /\ val = 0
  /\ \E throwIfEmpty \in BOOLEAN :
       /\ Top.begin # 0 => throwIfEmpty = (input[Top.begin].type # "CALL_BEGIN")
       /\ IF throwIfEmpty THEN Ended("internal")
          ELSE mode' = "value" /\ UNCHANGED <<input, pos, limit, kids, stack, val>>

FirstOperand ==
  /\ mode = "operand" /\ Top.kind = "group" /\ val # 0
  /\ Push(ImplFrame(0, 0, 0, 0)) /\ mode' = "loop"
  /\ UNCHANGED <<input, pos, limit, kids, val>>

\* The outer loop takes the operator and goes for its right operand.
Shift ==
  /\ mode = "loop" /\ IsBinaryOp /\ CurPrec >= Top.min
  /\ IF val = 0 THEN Ended("crash")
     ELSE /\ Link(pos, val)
          /\ Replace([Top EXCEPT !.op = pos])
          /\ pos' = SkipFrom(pos) /\ mode' = "primary"
          /\ UNCHANGED <<input, limit, val>>

\* Mutant: the two cases tell left from right association.
TakesTreeStrictly ==
  /\ IsBinaryOp
  /\ \/ CurPrec < PrecOf(Top.op)
     \/ CurPrec = PrecOf(Top.op) /\ Operators[OpAt(pos)].asoc = "right"
\* The condition of the inner loop, on the operator after the right operand:
\* it takes the tree so far for its left operand.
TakesTree ==
  /\ IsBinaryOp
  /\ \/ CurPrec <= PrecOf(Top.op)
     \/ CurPrec = PrecOf(Top.op) /\ Operators[OpAt(pos)].asoc = "right"

\* Mutant: the recursive call only takes operators that bind tighter.
NextMinPrecedence == CurPrec + 1
MinPrecedence == CurPrec
\* The inner loop's recursive call.
Regroup ==
  /\ mode = "operand" /\ Top.kind = "impl" /\ TakesTree
  /\ IF val = 0 THEN Ended("crash")
     ELSE /\ Link(Top.op, val)
          /\ Push(ImplFrame(0, 0, 0, MinPrecedence))
          /\ val' = Top.op /\ mode' = "loop"
          /\ UNCHANGED <<input, pos, limit>>

\* Mutant: tokExpr stays what it was.
DiscardResult == Top.op
Result == val
\* It returned: its result is tokExpr from now on, and there is no operand.
Resume ==
  /\ mode = "value" /\ Top.kind = "impl"
  /\ Replace([Top EXCEPT !.op = Result])
  /\ val' = 0 /\ mode' = "operand"
  /\ UNCHANGED <<input, pos, limit, kids>>

\* Mutant: lastExpr stays where it was.
LastStays == IF Top.base = 0 THEN Top.op ELSE Top.last
LastExpr == Top.op
\* After the inner loop: tokExpr goes under the operator before it, the right
\* operand becomes the left one of what follows.
Attach ==
  /\ mode = "operand" /\ Top.kind = "impl" /\ ~TakesTree
  /\ IF Top.base = 0
     THEN Replace([Top EXCEPT !.base = Top.op, !.last = LastExpr]) /\ UNCHANGED kids
     ELSE Replace([Top EXCEPT !.last = LastExpr]) /\ Link(Top.last, Top.op)
  /\ mode' = "loop"
  /\ UNCHANGED <<input, pos, limit, val>>

Return ==
  /\ mode = "loop" /\ ~(IsBinaryOp /\ CurPrec >= Top.min)
  /\ IF Top.base # 0 /\ val # 0 THEN Link(Top.last, val) ELSE UNCHANGED kids
  /\ val' = IF Top.base = 0 THEN val ELSE Top.base
  /\ stack' = Rest /\ mode' = "value"
  /\ UNCHANGED <<input, pos, limit>>

-----------------------------------------------------------------------------
Init ==
  /\ input \in Inputs
  /\ pos = 1 /\ limit = Len(input)
  /\ kids = [n \in DOMAIN input |-> <<>>]
  /\ stack = <<[kind |-> "group", begin |-> 0, callee |-> 0, limit |-> 0]>>
  /\ val = 0 /\ mode = "primary"

ParsePrimary ==
  EmptyPrimary \/ Terminal \/ PrefixOp \/ Illegal \/ PrefixOperand
ParseGroup == OpenParen \/ OpenCall \/ PostfixOp \/ PostfixDone \/ LeaveGroup
ParseBinary ==
  EmptyExpression \/ FirstOperand \/ Shift \/ Regroup \/ Resume \/ Attach \/ Return
Next == ParsePrimary \/ ParseGroup \/ ParseBinary

\* Recursive descent that nothing interrupts: it takes its next step.
Spec == Init /\ [][Next]_vars /\ WF_vars(Next)

-----------------------------------------------------------------------------
(***************************************************************************)
(* Properties                                                              *)
(***************************************************************************)
Node == DOMAIN input
NodeOrNull == {0} \cup Node
Frame ==
  [kind : {"group"}, begin : NodeOrNull, callee : NodeOrNull, limit : NodeOrNull]
    \cup [kind : {"prefix"}, first : Node, last : Node]
    \cup [kind : {"impl"}, op : NodeOrNull, base : NodeOrNull, last : NodeOrNull, min : Nat]
Failures == {"error", "internal", "uncaught", "crash"}

\* The parser stays inside its own copy of the tokens, nodes have nodes for
\* children and every invocation has its locals.
TypeOK ==
  /\ input \in Seq(TokenSet)
  /\ limit \in Node /\ pos \in 1..limit
  /\ kids \in [Node -> Seq(Node)]
  /\ stack \in Seq(Frame)
  /\ val \in NodeOrNull
  /\ mode \in {"primary", "postfix", "operand", "loop", "value", "done"} \cup Failures

\* The null pointer that stands for a missing operand reaches addChild (which
\* dereferences it) only from a prefix operator that nothing follows: the inner
\* loop, which forgets its operand after its recursive call, is never run again,
\* and the outer one never resumes on the operand it forgot.
NullNeverLinked ==
  mode = "crash" => Top.kind = "prefix" /\ val = 0 /\ AcceptEndOfExpression

\* A node is linked once, however the trees being built are handed around:
\* never shared by two parents, never twice under one.
OneParent ==
  \A n \in Node :
    Cardinality({e \in Node \X Node : e[2] \in DOMAIN kids[e[1]] /\ kids[e[1]][e[2]] = n}) <= 1

\* The nodes of the tree under n.
Under[n \in Nat] == {n} \cup UNION {Under[kids[n][i]] : i \in DOMAIN kids[n]}
Before(m, n) == \A k \in Under[m] : k < n
After(m, n) == \A k \in Under[m] : n < k
\* Regrouping never swaps operands: left operands come from the left of their
\* operator and right ones from its right, arguments in their order from
\* between the brackets of their call.
OperandsInOrder ==
  \A n \in Node : kids[n] # <<>> =>
    CASE input[n].type = "CALL_BEGIN" -> Before(kids[n][2], n) /\ After(kids[n][1], n)
      [] input[n].type = "CALL_END" ->
           \A i \in DOMAIN kids[n] :
             /\ Before(kids[n][i], n)
             /\ i > 1 => \A k \in Under[kids[n][i - 1]] : After(kids[n][i], k)
      [] IsBinary(input[n].op) ->
           Before(kids[n][1], n) /\ (Len(kids[n]) > 1 => After(kids[n][2], n))
      [] IsPrefix(input[n].op) -> After(kids[n][1], n)
      [] IsPostfix(input[n].op) -> Before(kids[n][1], n)

\* The expressions of grammar.ebnf: operands and operators alternate.
EndsOperand(t) ==
  \/ t.type \in TerminalTypes \cup {"PAREN_RIGHT", "CALL_END"}
  \/ t.type = "OPERATOR" /\ IsPostfix(t.op)
StartsOperand(t) ==
  \/ t.type \in TerminalTypes \cup {"PAREN_LEFT"}
  \/ t.type = "OPERATOR" /\ IsPrefix(t.op)
MayFollow(t, u) ==
  IF EndsOperand(t)
  THEN \/ u.type \in {"CALL_BEGIN", "PAREN_RIGHT", "CALL_END", "FILE_END"}
       \/ u.type = "OPERATOR" /\ (IsBinary(u.op) \/ IsPostfix(u.op))
  ELSE StartsOperand(u) \/ (t.type = "CALL_BEGIN" /\ u.type = "CALL_END")
WellFormed ==
  /\ StartsOperand(input[1])
  /\ \A i \in 1..(Len(input) - 1) : MayFollow(input[i], input[i + 1])

BinaryAt(i) == input[i].op # 0 /\ IsBinary(input[i].op)
\* The arguments of a call, when none of them has a binary operator: one for
\* each comma and one more.
PlainArguments(b, e) ==
  /\ e > b + 1
  /\ \A i \in (b + 1)..(e - 1) :
       /\ input[i].type \in TerminalTypes \cup {"OPERATOR"}
       /\ BinaryAt(i) => IsComma(i)
ArgumentsSeparated ==
  \A b, e \in Node :
    /\ input[b].type = "CALL_BEGIN" /\ input[e].type = "CALL_END"
    /\ PlainArguments(b, e)
    => Len(kids[e]) = 1 + Cardinality({i \in (b + 1)..(e - 1) : IsComma(i)})

\* Every expression of the grammar is parsed to its end, keeps every operand
\* and operator (a comma may only have become an argument list) and gives each
\* operator the operands of its arity and each call an argument for each that
\* its commas separate.
GrammarIsParsed ==
  WellFormed =>
    /\ mode \notin Failures
    /\ mode = "done" =>
         /\ pos = Len(input) /\ val # 0
         /\ \A n \in Node : input[n].type \in TerminalTypes \cup {"OPERATOR", "CALL_BEGIN"} =>
              \/ n \in Under[val]
              \/ IsComma(n) /\ \E b \in Node :
                   input[b].type = "CALL_BEGIN" /\ b < n /\ n < kids[b][1]
         /\ \A n \in Under[val] : input[n].op # 0 =>
              Len(kids[n]) = IF IsBinary(input[n].op) THEN 2 ELSE 1
         /\ ArgumentsSeparated

\* An expression of binary operators and terminals only.
BinaryChain ==
  /\ Len(input) % 2 = 0
  /\ \A i \in 1..(Len(input) - 1) :
       IF i % 2 = 0 THEN BinaryAt(i) ELSE input[i].type \in TerminalTypes
\* An operator is followed by a tighter one, and later by one that is not.
FallsBack ==
  \E i, k \in 1..(Len(input) - 1) :
    /\ BinaryAt(i) /\ BinaryAt(k) /\ i + 2 < k
    /\ PrecOf(i) < PrecOf(i + 2) /\ PrecOf(k) <= PrecOf(i)
\* Operators bind as tightly as their precedence says, from left to right.
LeftOperandTight(n) ==
  LET l == kids[n][1] IN input[l].op # 0 => PrecOf(l) >= PrecOf(n)
RightOperandTight(n) ==
  LET r == kids[n][2] IN input[r].op # 0 => PrecOf(r) > PrecOf(n)
\* Which chains are grouped by precedence, from left to right: exactly those
\* whose operators never fall back.  In the others what follows the rise stays
\* inside its right operand.  Operators that the table lets associate from the
\* right are no exception: `a = b = c` is `(a = b) = c`.
GroupedUnlessFallsBack ==
  mode = "done" /\ BinaryChain =>
    ((\A n \in Node : BinaryAt(n) => LeftOperandTight(n) /\ RightOperandTight(n))
       <=> ~FallsBack)

\* The outline that the parser of statements is modelled with: of terminals and
\* operators this parser reads the expression that ExprOutline says, with these
\* commas at its top.
Outlined ==
  \A i \in Node : \/ input[i].type \in TerminalTypes \cup EndTypes
                  \/ input[i].op # 0 /\ IsBinary(input[i].op)
OutlineFollowed ==
  Outlined =>
    /\ mode = "error" => ExprRejected(input, 1)
    /\ mode = "internal" => ExprEmpty(input, 1)
    /\ mode = "done" =>
         /\ ~ExprRejected(input, 1)
         /\ pos = ExprEnd(input, 1)
         /\ {CommaSpine(val)[i] : i \in DOMAIN CommaSpine(val)} = Commas(input, 1)

\* Every token list of balanced brackets is parsed or rejected: the scan for
\* the end of a group finds it, the loops of expressionImpl end.
Terminates == <>(mode \in {"done"} \cup Failures)

\* grammar.ebnf: "Operators respect the see Operator::list": in a chain no
\* operator has one that binds less for its operand.
PrecedenceRespected ==
  mode = "done" /\ BinaryChain =>
    \A n \in Node : BinaryAt(n) =>
      \A i \in DOMAIN kids[n] : input[kids[n][i]].op # 0 => PrecOf(kids[n][i]) >= PrecOf(n)
=============================================================================
