--------------------------- MODULE StatementParser ---------------------------
(***************************************************************************)
(* TokenParser::parse, statement, block and what they call for types,      *)
(* functions and ifs (tokenParser.cpp): a token list to the tree of        *)
(* statements.  Expressions are read as ExprOutline says.                  *)
(*                                                                         *)
(* The recursion is a stack of invocations: a step is what the code does   *)
(* from one call of block() or statement(), or return of one, to the next. *)
(* A node is the position of the token it starts at: a block's is its      *)
(* 'do', 0 is the root block.                                              *)
(***************************************************************************)
EXTENDS ExprOutline, FiniteSets

CONSTANTS
  Inputs,   \* the token lists considered, with the final FILE_END
  Programs  \* those that are whole programs, written as the tests of the parser write
            \* them, without types and with an else for every if

Visibilities == {"PUBLIC", "PRIVATE", "PROTECT"}
Modifiers == Visibilities \cup {"STATIC", "FOREIGN"}
TokenTypes ==
  TerminalTypes \cup EndTypes \cup Modifiers \cup
    {"OPERATOR", "SQPAREN_LEFT", "SQPAREN_RIGHT", "FAT_ARROW", "DEFINE", "END", "IF",
     "ELSE", "FOR", "WHILE", "BREAK", "CONTINUE", "RETURN", "FUNCTION", "METHOD",
     "CONSTR", "TYPE", "INHERITS", "FROM"}
TokenSet ==
  {t \in [type : TokenTypes, op : {0} \cup DOMAIN Operators] :
     /\ t.type = "OPERATOR" <=> t.op # 0
     /\ t.op # 0 => IsBinary(t.op)}

ASSUME InputsAssumption ==
  \A i \in Inputs : /\ i \in Seq(TokenSet) /\ i # <<>>
                    /\ \A k \in DOMAIN i : i[k].type = "FILE_END" <=> k = Len(i)
ASSUME ProgramsAssumption == Programs \subseteq Inputs

VARIABLES
  input,  \* the tokens, fixed
  pos,    \* the current one
  kids,   \* node -> its children among the blocks and statements
  ends,   \* block or type -> the token it stopped at; 0 while it is open
  stack,  \* the invocations that wait, innermost last
  val,    \* the node being returned
  mode    \* what runs next, or how the parser ended

vars == <<input, pos, kids, ends, stack, val, mode>>

-----------------------------------------------------------------------------
\* What waits: block(type); ifStatement for its first block ("if") or for what
\* follows else ("else"); a loop, with the position of its updates if it has
\* any; function or constructor; type.
Frame(kind, node) == [kind |-> kind, node |-> node, type |-> "", updates |-> 0]
Block(node, type) == [Frame("block", node) EXCEPT !.type = type]
Loop(node, updates) == [Frame("loop", node) EXCEPT !.updates = updates]

Top == stack[Len(stack)]
Rest == SubSeq(stack, 1, Len(stack) - 1)
Last == Len(input)
TypeAt(p) == input[p].type
\* Mutant: nothing keeps it inside the list.
SkipUnclamped(p) == p + 1
SkipFrom(p) == IF p + 1 > Last THEN Last ELSE p + 1
CommaAt(p) == IsOp(input[p], <<",">>)
AssignAt(p) == IsOp(input[p], <<"=">>)

Failures == {"error", "internal", "uncaught", "crash"}
Ended(how) == mode' = how /\ UNCHANGED <<input, pos, kids, ends, stack, val>>
\* Mutant: the child takes the place of the others.
AddOnly(parent, child) == kids' = [kids EXCEPT ![parent] = <<child>>]
\* Mutant: the child comes first.
AddFirst(parent, child) == kids' = [kids EXCEPT ![parent] = <<child>> \o @]
Add(parent, child) == kids' = [kids EXCEPT ![parent] = Append(@, child)]
Return(node) == val' = node /\ mode' = "return"

\* What a helper leaves: the position after what it read, and "ok", "null" or
\* how it failed.
Ok(p) == [pos |-> p, how |-> "ok"]
Null(p) == [pos |-> p, how |-> "null"]
Fail(how) == [pos |-> 0, how |-> how]
Outcome == [pos : Nat, how : {"ok", "null"} \cup Failures]
Then(first, Second(_)) ==
  [o \in Outcome |-> IF o.how = "ok" THEN Second(o.pos) ELSE o][first]
OrElse(first, how) == [o \in Outcome |-> IF o.how = "null" THEN Fail(how) ELSE o][first]
Expect(p, t) == IF TypeAt(p) = t THEN Ok(SkipFrom(p)) ELSE Fail("error")
Semi(p) == Expect(p, "SEMI")

Expression(p) ==
  CASE ExprEmpty(input, p) -> Null(p)
    [] ExprRejected(input, p) ->
         Fail(IF TypeAt(ExprEnd(input, p)) = "SQPAREN_LEFT" THEN "internal" ELSE "error")
    [] OTHER -> Ok(ExprEnd(input, p))
\* throwIfEmpty
SomeExpression(p) == OrElse(Expression(p), "internal")

\* getTypeList: identifiers and commas in turn, up to the first token that is
\* neither; after a comma it must be an identifier.
InTurn(p, i) == IF (i - p) % 2 = 0 THEN TypeAt(i) = "IDENTIFIER" ELSE CommaAt(i)
TypeListEnd(p) ==
  CHOOSE q \in p..Last : ~InTurn(p, q) /\ \A i \in p..(q - 1) : InTurn(p, i)
TypeList(p) ==
  IF (TypeListEnd(p) - p) % 2 = 0 THEN Fail("error") ELSE Ok(TypeListEnd(p))
\* getSigArgs: any token is taken for the name of an argument.
SigArgs[p \in 1..Last] ==
  LET name == TypeListEnd(p)
      after == SkipFrom(name)
  IN  IF TypeList(p).how # "ok" THEN TypeList(p)
      ELSE IF CommaAt(after) THEN SigArgs[SkipFrom(after)]
      ELSE IF TypeAt(after) = "SQPAREN_RIGHT" THEN Ok(SkipFrom(after))
      ELSE Fail("error")

DeclaredName(p) ==
  CASE TypeAt(p) = "SEMI" -> Null(p)
    [] TypeAt(p) = "DEFINE" -> Expect(SkipFrom(p), "IDENTIFIER")
    [] OTHER -> Then(TypeList(p), LAMBDA q : Expect(q, "IDENTIFIER"))
HasInit(p) == DeclaredName(p).how = "ok" /\ AssignAt(DeclaredName(p).pos)
Declaration(p) ==
  IF HasInit(p) THEN SomeExpression(SkipFrom(DeclaredName(p).pos)) ELSE DeclaredName(p)

ArgList(p) == IF TypeAt(p) = "SQPAREN_LEFT" THEN SigArgs[SkipFrom(p)] ELSE Ok(p)
ReturnType(p) == IF TypeAt(p) = "FAT_ARROW" THEN TypeList(SkipFrom(p)) ELSE Ok(p)
Name(p, isForeign) ==
  IF TypeAt(p) = "IDENTIFIER" THEN Ok(SkipFrom(p))
  ELSE IF isForeign THEN Fail("error") ELSE Ok(p)
\* function, up to its block or its semicolon; its keyword is skipped unread.
Signature(p, isForeign) ==
  Then(Then(Name(SkipFrom(p), isForeign), ArgList), ReturnType)
\* A keyword more is skipped, whatever it is.
ForeignFunction(p) == Then(Signature(SkipFrom(p), TRUE), Semi)

-----------------------------------------------------------------------------
\* A statement without a block has been read, as `outcome` says.
Read(node, outcome) ==
  \E read \in {outcome} :
    IF read.how = "ok"
    THEN pos' = read.pos /\ Return(node) /\ UNCHANGED <<input, kids, ends, stack>>
    ELSE Ended(read.how)
\* The header of a statement has been read, its block follows.
Open(below, header, type) ==
  \E head \in {header} :
    IF head.how = "ok" /\ TypeAt(head.pos) = "DO"
    THEN /\ stack' = Append(below, Block(head.pos, type))
         /\ pos' = SkipFrom(head.pos) /\ mode' = "block"
         /\ UNCHANGED <<input, kids, ends, val>>
    ELSE Ended(IF head.how = "ok" THEN "error" ELSE head.how)
Call(frame) == Append(stack, frame)
Instead(frame) == Append(Rest, frame)

(***************************************************************************)
(* block                                                                   *)
(***************************************************************************)
\* Mutant: else ends any block.
AtEndOrElse ==
  \/ TypeAt(pos) \in {"END", "ELSE"}
  \/ Top.type = "ROOT_BLOCK" /\ TypeAt(pos) = "FILE_END"
AtBlockEnd ==
  \/ TypeAt(pos) = "END"
  \/ Top.type = "IF_BLOCK" /\ TypeAt(pos) = "ELSE"
  \/ Top.type = "ROOT_BLOCK" /\ TypeAt(pos) = "FILE_END"
\* Mutant: the token a block ends at is left.
AfterBlockStays == pos
AfterBlock == SkipFrom(pos)
EndBlock ==
  /\ mode = "block" /\ AtBlockEnd
  /\ ends' = [ends EXCEPT ![Top.node] = pos]
  /\ pos' = AfterBlock /\ stack' = Rest /\ val' = Top.node
  /\ mode' = IF Top.node = 0 THEN "done" ELSE "return"
  /\ UNCHANGED <<input, kids>>
\* addChild
ToBlock ==
  /\ mode = "return" /\ Top.kind = "block"
  /\ Add(Top.node, val) /\ mode' = "block"
  /\ UNCHANGED <<input, pos, ends, stack, val>>

AtStatement(t) == mode = "block" /\ ~AtBlockEnd /\ TypeAt(pos) = t

(***************************************************************************)
(* ifStatement                                                             *)
(***************************************************************************)
\* From the token `if` at p, which is in a statement or follows else.
\* Mutant: an empty condition is not rejected; addCondition dereferences it.
ConditionUnchecked(p) == OrElse(Expression(SkipFrom(p)), "crash")
Condition(p) == OrElse(Expression(SkipFrom(p)), "error")
If == AtStatement("IF") /\ Open(Call(Frame("if", pos)), Condition(pos), "IF_BLOCK")

\* success: back to the token that ended the block.  An 'end' stays there.
ToIf ==
  /\ mode = "return" /\ Top.kind = "if"
  /\ Add(Top.node, val)
  /\ IF TypeAt(pos - 1) = "ELSE"
     THEN mode' = "else" /\ UNCHANGED <<pos, stack, val>>
     ELSE pos' = pos - 1 /\ stack' = Rest /\ Return(Top.node)
  /\ UNCHANGED <<input, ends>>
\* Mutant: the if after else returns to where the one before it should.
ElseForgetsIf ==
  /\ mode = "else"
  /\ CASE TypeAt(pos) = "IF" ->
            Open(Instead(Frame("if", pos)), Condition(pos), "IF_BLOCK")
       [] TypeAt(pos) = "DO" -> Open(Instead(Frame("else", Top.node)), Ok(pos), "CODE_BLOCK")
       [] OTHER -> Ended("error")
\* Mutant: something else after else is not rejected.
ElseUnchecked ==
  /\ mode = "else" /\ TypeAt(pos) \in {"IF", "DO"}
  /\ LET below == Instead(Frame("else", Top.node)) IN
     IF TypeAt(pos) = "IF"
     THEN Open(Append(below, Frame("if", pos)), Condition(pos), "IF_BLOCK")
     ELSE Open(below, Ok(pos), "CODE_BLOCK")
Else ==
  /\ mode = "else"
  /\ LET below == Instead(Frame("else", Top.node)) IN
     CASE TypeAt(pos) = "IF" ->
            Open(Append(below, Frame("if", pos)), Condition(pos), "IF_BLOCK")
       [] TypeAt(pos) = "DO" -> Open(below, Ok(pos), "CODE_BLOCK")
       [] OTHER -> Ended("error")
\* failiure
ToElse ==
  /\ mode = "return" /\ Top.kind = "else"
  /\ Add(Top.node, val)
  /\ stack' = Rest /\ Return(Top.node)
  /\ UNCHANGED <<input, pos, ends>>

(***************************************************************************)
(* Loops.  addInit and condition dereference their argument: an omitted    *)
(* part of a for is a crash.                                               *)
(***************************************************************************)
ForUpdates(p) ==
  LET init == OrElse(Declaration(SkipFrom(p)), "crash")
      condition == Then(Then(init, Semi), LAMBDA q : OrElse(Expression(q), "crash"))
  IN  Then(condition, Semi)
For ==
  /\ AtStatement("FOR")
  /\ \E start \in {ForUpdates(pos)} : \E updates \in {Then(start, Expression)} :
       IF updates.how = "null"
       THEN Open(Call(Loop(pos, 0)), start, "CODE_BLOCK")
       ELSE Open(Call(Loop(pos, start.pos)), updates, "CODE_BLOCK")
While ==
  /\ AtStatement("WHILE")
  /\ Open(Call(Loop(pos, 0)), SomeExpression(SkipFrom(pos)), "CODE_BLOCK")

\* Splitting the updates at their commas: op() throws on a terminal, at(1) on
\* an operator without right operand.
SplitUpdates(p) ==
  LET commas == Commas(input, p)
      last == ExprEnd(input, p) - 1
  IN  CASE last = p -> "internal"
        [] last \in commas -> "uncaught"
        [] p + 1 \in commas -> "internal"
        [] OTHER -> "ok"
\* code
ToLoop ==
  /\ mode = "return" /\ Top.kind = "loop"
  /\ Add(Top.node, val)
  /\ IF Top.updates # 0 /\ SplitUpdates(Top.updates) # "ok"
     THEN mode' = SplitUpdates(Top.updates) /\ UNCHANGED <<stack, val>>
     ELSE stack' = Rest /\ Return(Top.node)
  /\ UNCHANGED <<input, pos, ends>>

(***************************************************************************)
(* function                                                                *)
(***************************************************************************)
Function ==
  /\ AtStatement("FUNCTION")
  /\ Open(Call(Frame("function", pos)), Signature(pos, FALSE), "FUNCTION_BLOCK")
Foreign == AtStatement("FOREIGN") /\ Read(pos, ForeignFunction(pos))
ToFunction ==
  /\ mode = "return" /\ Top.kind = "function"
  /\ Add(Top.node, val)
  /\ stack' = Rest /\ Return(Top.node)
  /\ UNCHANGED <<input, pos, ends>>

(***************************************************************************)
(* The other statements                                                    *)
(***************************************************************************)
Do == AtStatement("DO") /\ Open(stack, Ok(pos), "CODE_BLOCK")
\* Its semicolon is not skipped.
Break == AtStatement("BREAK") /\ Read(pos, Ok(SkipFrom(pos)))
Continue == AtStatement("CONTINUE") /\ Ended("internal")
ReturnStatement ==
  /\ AtStatement("RETURN")
  /\ LET value == Expression(SkipFrom(pos)) IN
     Read(pos, IF value.how = "null" THEN Semi(value.pos) ELSE Then(value, Semi))
StartsDeclaration ==
  \/ TypeAt(pos) = "DEFINE"
  \/ /\ TypeAt(pos) = "IDENTIFIER"
     /\ TypeAt(SkipFrom(pos)) = "IDENTIFIER" \/ CommaAt(SkipFrom(pos))
DeclarationStatement ==
  /\ mode = "block" /\ ~AtBlockEnd /\ StartsDeclaration
  /\ Read(pos, Then(Declaration(pos), Semi))
ExpressionStatement ==
  /\ mode = "block" /\ ~AtBlockEnd /\ ~StartsDeclaration
  /\ TypeAt(pos) \notin {"TYPE", "IF", "FOR", "WHILE", "DO", "BREAK", "CONTINUE", "RETURN",
                         "FUNCTION", "FOREIGN"}
  /\ Read(pos, Then(SomeExpression(pos), Semi))

(***************************************************************************)
(* type, constructor, method and member                                    *)
(***************************************************************************)
Ancestors(p) ==
  IF TypeAt(p) # "INHERITS" THEN Ok(p)
  ELSE LET from == SkipFrom(p)
       IN  TypeList(IF TypeAt(from) = "FROM" THEN SkipFrom(from) ELSE from)
Type ==
  /\ AtStatement("TYPE")
  /\ LET head == Then(Expect(SkipFrom(pos), "IDENTIFIER"), Ancestors) IN
     \E body \in {Then(head, LAMBDA p : Expect(p, "DO"))} :
       IF body.how # "ok" THEN Ended(body.how)
       ELSE /\ stack' = Call(Frame("type", pos))
            /\ pos' = body.pos /\ mode' = "body"
            /\ UNCHANGED <<input, kids, ends, val>>
\* The 'end' of the body stays there.
EndType ==
  /\ mode = "body" /\ TypeAt(pos) = "END"
  /\ ends' = [ends EXCEPT ![Top.node] = pos]
  /\ stack' = Rest /\ Return(Top.node)
  /\ UNCHANGED <<input, pos, kids>>
ToType ==
  /\ mode = "return" /\ Top.kind = "type"
  /\ Add(Top.node, val) /\ mode' = "body"
  /\ UNCHANGED <<input, pos, ends, stack, val>>

ModifiersEnd ==
  CHOOSE q \in pos..Last :
    TypeAt(q) \notin Modifiers /\ \A i \in pos..(q - 1) : TypeAt(i) \in Modifiers
Given(types) == {i \in pos..(ModifiersEnd - 1) : TypeAt(i) \in types}
Repeated ==
  \E types \in {Visibilities, {"STATIC"}, {"FOREIGN"}} : Cardinality(Given(types)) > 1
IsForeign == Given({"FOREIGN"}) # {}
AtMember(types) == mode = "body" /\ ~Repeated /\ TypeAt(ModifiersEnd) \in types

\* The body is not closed, or a member has modifiers it must not have, or not
\* those it needs.
BadMember ==
  /\ mode = "body" /\ TypeAt(pos) # "END"
  /\ \/ TypeAt(pos) = "FILE_END" \/ Repeated
     \/ TypeAt(ModifiersEnd) = "CONSTR" /\ Given({"STATIC"}) # {}
     \/ TypeAt(ModifiersEnd) = "METHOD" /\ Given(Visibilities) = {}
     \/ TypeAt(ModifiersEnd) \notin {"CONSTR", "METHOD"} /\ IsForeign
  /\ Ended("error")
Constructor ==
  /\ AtMember({"CONSTR"}) /\ Given({"STATIC"}) = {}
  /\ LET head == ArgList(SkipFrom(ModifiersEnd)) IN
     IF IsForeign THEN Read(ModifiersEnd, Then(head, Semi))
     ELSE Open(Call(Frame("function", ModifiersEnd)), head, "FUNCTION_BLOCK")
\* A foreign one takes a token more than it has for its keywords, and two
\* semicolons.
Method ==
  /\ AtMember({"METHOD"}) /\ Given(Visibilities) # {}
  /\ IF IsForeign THEN Read(ModifiersEnd, Then(ForeignFunction(ModifiersEnd), Semi))
     ELSE Open(Call(Frame("function", ModifiersEnd)), Signature(ModifiersEnd, FALSE),
               "FUNCTION_BLOCK")
\* init dereferences the expression: a member without one is a crash.
Member ==
  /\ AtMember(TokenTypes \ {"CONSTR", "METHOD"}) /\ ~IsForeign
  /\ TypeAt(pos) \notin {"END", "FILE_END"}
  /\ LET read == OrElse(Declaration(ModifiersEnd), "internal") IN
     Read(ModifiersEnd,
          IF read.how = "ok" /\ ~HasInit(ModifiersEnd) THEN Fail("crash")
          ELSE Then(read, Semi))

-----------------------------------------------------------------------------
Init ==
  /\ input \in Inputs
  /\ pos = 1
  /\ kids = [n \in 0..Len(input) |-> <<>>]
  /\ ends = [n \in 0..Len(input) |-> 0]
  /\ stack = <<Block(0, "ROOT_BLOCK")>>
  /\ val = 0 /\ mode = "block"

Statement ==
  \/ Type \/ If \/ For \/ While \/ Do \/ DeclarationStatement \/ ExpressionStatement
  \/ Break \/ Continue \/ ReturnStatement \/ Function \/ Foreign
Body == EndType \/ BadMember \/ Constructor \/ Method \/ Member
Returned == ToBlock \/ ToIf \/ ToElse \/ ToLoop \/ ToFunction \/ ToType
Next == EndBlock \/ Statement \/ Else \/ Body \/ Returned

\* Recursive descent that nothing interrupts: it takes its next step.
Spec == Init /\ [][Next]_vars /\ WF_vars(Next)

-----------------------------------------------------------------------------
(***************************************************************************)
(* Properties                                                              *)
(***************************************************************************)
Node == 0..Last
FrameSet ==
  [kind : {"block", "if", "else", "loop", "function", "type"}, node : Node,
   type : {"", "ROOT_BLOCK", "CODE_BLOCK", "FUNCTION_BLOCK", "IF_BLOCK"}, updates : Node]

\* The parser stays inside the list; nodes have nodes for children.
TypeOK ==
  /\ input \in Seq(TokenSet)
  /\ pos \in 1..Last
  /\ kids \in [Node -> Seq(Node)]
  /\ ends \in [Node -> Node]
  /\ stack \in Seq(FrameSet)
  /\ val \in Node
  /\ mode \in {"block", "return", "else", "body", "done"} \cup Failures

\* The 'do' at p begins the first block of an if, the body of a type.
Follows(p, keyword, header) ==
  \E q \in 1..(p - 1) :
    TypeAt(q) = keyword /\ \A i \in (q + 1)..(p - 1) : TypeAt(i) \in header
IfBody(p) == Follows(p, "IF", TerminalTypes \cup {"OPERATOR"})
TypeBody(p) == Follows(p, "TYPE", {"IDENTIFIER", "OPERATOR", "INHERITS", "FROM"})
Foreigner(n) ==
  TypeAt(n) = "FOREIGN" \/ \E q \in 1..(n - 1) :
    TypeAt(q) = "FOREIGN" /\ \A i \in q..(n - 1) : TypeAt(i) \in Modifiers
\* Three tokens are skipped unseen: the name of an argument, the one after
\* 'foreign', and the one after 'method' in what is foreign.  Where a keyword
\* stands there, nobody can say what it begins or ends.
Keywords == {"DO", "END", "TYPE", "IF", "FOR", "WHILE", "BREAK", "RETURN"}
Unseen(p) ==
  \/ p < Last /\ (CommaAt(p + 1) \/ TypeAt(p + 1) = "SQPAREN_RIGHT")
  \/ p > 1 /\ (TypeAt(p - 1) = "FOREIGN" \/ (TypeAt(p - 1) = "METHOD" /\ Foreigner(p - 1)))
KeywordsSeen == \A p \in 1..Last : TypeAt(p) \in Keywords => ~Unseen(p)

\* Which token ends which block, however they are nested: every block ends at
\* its own level, except that an if without else and a type have no 'end' of
\* their own, theirs ends what is around them as well.
Openers == {p \in 1..Last : TypeAt(p) = "DO" /\ ~IfBody(p) /\ ~TypeBody(p)}
Closers == {p \in 1..Last : TypeAt(p) = "END"}
Level(b, e) ==
  Cardinality({p \in Openers : b < p /\ p <= e}) - Cardinality({p \in Closers : b < p /\ p <= e})
BlocksMatched ==
  KeywordsSeen => \A b \in Node : ends[b] # 0 =>
    LET e == ends[b] IN
    /\ \A p \in b..(e - 1) : Level(b, p) >= 0
    /\ CASE TypeAt(e) = "END" -> Level(b, e) = -1
         [] TypeAt(e) = "ELSE" -> IfBody(b) /\ Level(b, e) = 0
         [] TypeAt(e) = "FILE_END" -> b = 0 /\ Level(b, e) = 0
         [] OTHER -> FALSE

Under[n \in Node] == {n} \cup UNION {Under[kids[n][i]] : i \in DOMAIN kids[n]}
\* The tree is in the order of the source: what is under a node is after it,
\* inside it if it is a block, and after all that is under the sibling before.
TreeInOrder ==
  \A n \in Node : \A i \in DOMAIN kids[n] :
    \A k \in Under[kids[n][i]] :
      /\ n < k
      /\ ends[n] # 0 => k < ends[n]
      /\ \A j \in 1..(i - 1) : kids[n][j] < kids[n][i]
      /\ i < Len(kids[n]) => k < kids[n][i + 1]

\* What the code generator relies on in every node that was handed to its
\* parent: a finished block for each loop and function, and for an if one, with
\* the part after the 'else' that this very block stopped at.
Complete(n) ==
  LET own == kids[n] IN
  CASE TypeAt(n) = "IF" ->
         /\ Len(own) \in 1..2 /\ IfBody(own[1])
         /\ IF Len(own) = 2 THEN own[2] = ends[own[1]] + 1 ELSE TypeAt(ends[own[1]]) = "END"
    [] TypeAt(n) \in {"FOR", "WHILE", "FUNCTION", "METHOD", "CONSTR"} ->
         Foreigner(n) \/ (Len(own) = 1 /\ TypeAt(own[1]) = "DO")
    [] TypeAt(n) \in {"DO", "TYPE"} -> ends[n] # 0
    [] OTHER -> own = <<>>
LinkedComplete ==
  \A n \in Node : \A i \in DOMAIN kids[n] : Complete(kids[n][i])

\* No statement up to the token the root block ended at is lost on its way
\* through the returns, from however deep.
StatementsKept ==
  mode = "done" /\ KeywordsSeen =>
    \A p \in 1..(ends[0] - 1) :
      \/ TypeAt(p) \in {"TYPE", "IF", "FOR", "WHILE", "BREAK", "RETURN"}
      \/ TypeAt(p) = "DO" /\ ~TypeBody(p)
      => p \in Under[0]

\* Every program whose ifs have an else and that defines no type is parsed to its
\* end, whatever its blocks contain.
ProgramsAreParsed ==
  input \in Programs =>
    mode \notin Failures /\ (mode = "done" => ends[0] = Last)

\* No loop of the parser goes round without taking a token, and no nesting keeps
\* it going: on every token list it comes to an end.  The end need not be a good
\* one: the list is parsed, or rejected with an error, or an exception nobody
\* catches or a null dereference ends the process (the next two properties).
Terminates == <>(mode \in {"done"} \cup Failures)

\* grammar.ebnf brackets the declaration and the condition of a for, ast.hpp calls
\* both optional, and the tests compile loops without them: whatever a for leaves
\* out is not dereferenced.
ForPartsAreOptional == TypeAt(pos) = "FOR" => mode # "crash"

\* A null pointer is dereferenced for what a for leaves out, its declaration or
\* its condition, and for a member without initialisation; an operand, condition
\* or declaration that is missing anywhere else is seen before it is used.
FirstSemi(p) == TypeAt(p) = "SEMI" /\ \A q \in pos..(p - 1) : TypeAt(q) # "SEMI"
ForLeavesOut ==
  /\ TypeAt(pos) = "FOR"
  /\ \E p \in pos..(Last - 1) :
       FirstSemi(p) /\ (p = pos + 1 \/ ExprEmpty(input, p + 1))
InDeclaration(p) == TypeAt(p) \in Modifiers \cup {"DEFINE", "IDENTIFIER"} \/ CommaAt(p)
MemberLeavesOut ==
  /\ Top.kind = "type"
  /\ \E p \in (pos + 1)..Last :
       /\ ~InDeclaration(p) /\ ~AssignAt(p)
       /\ \A q \in pos..(p - 1) : InDeclaration(q)
NullOnlyWhereLeftOut == mode = "crash" => ForLeavesOut \/ MemberLeavesOut

\* tokenParser.hpp, block: "Root blocks aren't expected to be enclosed, and
\* instead they end at the file end."
RootEndsAtFileEnd == mode = "done" => TypeAt(ends[0]) = "FILE_END"
=============================================================================
