# A verification project for the Xylene compiler

Xylene is a small programming language with a compiler in C++: a lexer, a
recursive descent parser, a code generator for LLVM, and a driver that runs the
result or writes an object file. This directory holds TLA+ models of it, the
configurations TLC checks them with, and proofs that TLAPS checks.

The program is one thread and keeps nothing from one run to the next. What is
hard in it is not concurrency but state that is threaded through recursion by
hand: a cursor that is stepped back so that a loop's increment lands right, trees
that are linked while they are still being regrouped, blocks that end at a token
some other block was waiting for, instructions that are added to whatever block
the builder happens to be in. That is what the properties are about.

## 1. Inventory

| component | source | state | operations | used by |
|---|---|---|---|---|
| Lexer | `src/lexer.cpp`, `include/lexer.hpp` | `code`, `pos`, `currentLine`, `currentLinePos`, `tokens`, the local `parenStack` | `tokenize`: comments, numbers, strings, constructs, operators, words | driver, `Compiler` |
| Token types | `include/token.hpp`, `src/token.cpp` | none | `findConstruct`, `findKeyword`, `isTerminal`, `isOp` | lexer, parsers |
| Operator table | `src/operator.cpp`, `include/operator.hpp` | constant list | `find`, `hasArity`, `hasFixity`... | lexer, parsers, code generator |
| Expression parser | `src/parser/tokenParser.cpp` 9-209 | `input`, `pos`; the tree in the locals of the recursion | `expression`, `expressionImpl`, `parseExpressionPrimary`, `parsePostfix`, `parseCircumfixGroup` | statement parser |
| Statement parser | `src/parser/tokenParser.cpp` 211-560 | the same | `parse`, `block`, `statement`, `ifStatement`, `declaration`, `function`, `type`, ... | driver |
| AST | `include/ast.hpp`, `src/ast.cpp` | children, parent | `addChild`, `at`, `findAbove`, comparison, printing | all after it |
| XML parser | `src/parser/xmlParser.cpp` | none of its own | a tree from an XML document | driver, tests |
| Type information, type ids, values | `src/utils/typeInfo.cpp`, `src/llvm/typeId.cpp`, `src/llvm/values.cpp` | names, unique ids, lists of types, member pointers | `isCompat`, `storedNames`, `getMember` | code generator |
| Code generator | `src/llvm/compiler.cpp` 80-1250 | the LLVM module, the builder's insert point, `functionStack`, `blockScope`, `blockFuncs` and `blockTypes` of every block, `exitBlock` of every loop | one `visit` for each kind of node, `compileBlock`, `compileBranch`, `compileExpression`, operators, calls, assignments | driver |
| Types under construction | `src/llvm/typeData.cpp` | members, methods, constructors, two initialisers, `finalized` | `addMember`, `addMethod`, `addConstructor`, `finalize` | code generator |
| Object files | `src/llvm/compiler.cpp` 1-78 | a module | `compile` | driver |
| Runner | `src/llvm/runner.cpp` | an execution engine | `run` | driver |
| Runtime | `src/runtime/*.cpp` | none | run-time type checks (stubs), `_xyl_finish` | generated code |
| Driver | `src/main.cpp` | command line | the stages in their order, exit codes | user |

The components call one another in a line: text, tokens, tree, module. Each relies
on what the one before it rejects. The parser's scan for a closing bracket has no
other end than the bracket, so it needs the lexer's promise that brackets are
balanced; the code generator takes the children of a node as present, so it needs
complete trees. Errors travel as exceptions to the driver, which catches `Error`
(a mistake in the user's program), `InternalError` and those of the command line
library, and no other.

What makes each component correct:

* **Lexer**: every bracket token has its partner; accepted texts are balanced;
  nothing but blanks and comments is skipped and nothing is read twice; lines are
  counted as the text has them; of the operators that match, the longest is taken;
  it ends.
* **Expression parser**: what the grammar allows is parsed, to its end, with every
  operand and operator once, in order, and grouped as the table says; a null
  pointer is never linked; it ends.
* **Statement parser**: every block ends at its own token, statements are neither
  lost nor reordered, a node that reaches its parent is complete, a program is
  parsed to its end; it ends.
* **Type ids**: a value that passes the check, with its run-time part, has a type
  the place it goes to allows.
* **Code generator, control flow**: every basic block ends in exactly one terminator,
  no jump leaves its function, and what is accepted does what its tree says.
* **Code generator, scopes and expressions**: a name is what the nearest declaration
  before it says, whenever the body it stands in happens to be compiled; nothing is
  defined twice; each node's instructions are in the function it belongs to, once;
  a store into a union stays inside it.
* **Types under construction**: a type is known only when its struct has its body and
  its own bodies are compiled; every constructor runs the initialiser first, and the
  initialiser stores each member once.
* **Driver**: the stages that were asked for run and no others, and each failure ends
  in its exit code.

Section 7 gives the hard behaviours found while reading; `PROJECT.json` lists
them with lines under `hazards`.

## 2. Modules

| module | models | extends |
|---|---|---|
| `Operators` | the operator table, in order | |
| `Lexer` | `Lexer::processTokens` and all it calls | `Operators` |
| `LexerProofs` | theorems about `Lexer`: types, brackets; what is read, passed over and counted | `Lexer`, TLAPS |
| `MCLexer` | texts for TLC | `Lexer` |
| `ExprOutline` | what the statement parser has to know of expressions | `Operators` |
| `ExprParser` | `TokenParser::expression` and what it calls | `ExprOutline` |
| `ExprParserProofs` | theorems about `ExprParser` | `ExprParser`, `NatFacts` |
| `MCExprParser` | token lists for TLC | `ExprParser` |
| `StatementParser` | `TokenParser::parse`, `block`, `statement` and what they call | `ExprOutline` |
| `StatementProofs` | theorems about `StatementParser` | `StatementParser`, `NatFacts` |
| `MCStatementParser` | token lists for TLC | `StatementParser` |
| `Ast` | the tree of statements, as a table of nodes with parents | |
| `CfgBuilder` | how `ModuleCompiler` lays out basic blocks | `Ast` |
| `Structured` | what a program means: a walk over the tree, the abstract specification | `Ast` |
| `CfgRun` | the generated code, run, and compared with `Structured` | `CfgBuilder` |
| `NatFacts` | induction and iteration over natural numbers, stated with sets | TLAPS |
| `CfgProofs` | theorems about `CfgRun` | `CfgRun`, `NatFacts` |
| `MCCfg` | trees for TLC | `CfgRun` |
| `TypeIds` | type identifiers and `isCompat` | |
| `Scopes` | what `ModuleCompiler` knows, and how it looks names and types up | `Ast`, `TypeIds` |
| `Expressions` | `compileExpression` and the operators of `codegenMap` | `Scopes` |
| `Statements` | the visits of statements and functions | `Expressions` |
| `TypeBuilder` | `visitType`, members, methods, constructors, `TypeData::finalize` | `Statements` |
| `Codegen` | the code generator as a whole, and its properties | `TypeBuilder` |
| `CodegenTasks` | lemmas about `Codegen`: the tree, the tasks, the results of expressions | `Codegen`, `NatFacts` |
| `CodegenProofs` | theorems about `Codegen` | `CodegenTasks` |
| `MCCodegen` | trees for TLC | `Codegen` |
| `Driver` | `main`: switches, stages, exit codes | |
| `DriverProofs` | the theorem about `Driver` | `Driver`, TLAPS |

### Lexer

`at` is the pair of cursors `pos` and (`currentLine`, `currentLinePos`); `tokens` and
`parenStack` are the code's (the stack holds indices of tokens). `status` says whether
the loop is between tokens, inside a string literal, or how it ended: `done`, `error`
(an `Error`), or `uncaught` (an exception of `std::stoll` or `std::stoi` that nobody catches).
A step is one round of the `for` loop of `processTokens`, or one character or escape of
a string literal; the multi-line comment and the count of the line that a round
begins with are part of it (`Starts`). The text of a token is not kept; the token has the
cursor before and after it, as `Trace` has. `LongLongBits` is the width of a
`long long`: a small one lets TLC reach the overflow. Characters are one-letter
strings, a text is a sequence of them. A character past the end reads `NUL`, which is no
character of a text (`CodesAssumption`): `isEOF` goes by the position alone, so a zero byte
in a file would be one more ordinary character, which no run needs.

### ExprParser

The recursion is a stack of frames: `group` for a `TokenParser` of its own inside
brackets, `prefix` for a chain of prefix operators, `impl` for one `expressionImpl` with
its locals `tokExpr` (`op`), `base`, `lastExpr` (`last`) and `minPrecedence`; `val` is the node
being passed or returned (`lhs`, `rhs`, the result). `kids` is the tree under
construction, linked when the code calls `addChild`. The copy of the tokens that the
parser of a group gets is a `limit` in the same list. `mode` names what runs next,
or the outcome: `error`, `internal` (`InternalError`), `uncaught` (`std::out_of_range`) or
`crash` (a null pointer dereferenced).

### StatementParser

The stack has a frame for each `block`, `ifStatement`, loop, function and `type` that is
waiting. A statement without a block is one step; headers (declarations, signatures,
conditions) are read by operators that return the position after them or how they
failed, which is what the code's helpers do: they change nothing but `pos`.
`ends` remembers where each block stopped. Expressions are those of `ExprOutline`: operands
and binary operators; where one ends, when it is rejected, and which commas are at
the top of its tree. The run of `ExprParser` checks these against the parser of
expressions (`OutlineFollowed`), so the composition is not taken on trust.

The code skips three tokens without looking at them: the name of an argument, the one after
`foreign`, and the one after `method` in a foreign one. What is said of matched ends and of lost
statements presumes that no keyword which begins or ends something stands there (`KeywordsSeen`;
for the names of arguments: before a comma or a closing square bracket).

### CfgBuilder, CfgRun and Structured

`blocks` holds the basic blocks in the order of their creation, with the function
they were created in and whether they were erased; `at` is the builder's insert
point; `functionStack` and `exitBlock` are the code's. The recursion of the visitor is
the stack `work`: frames for `compileBlock` (with `oldBlock` and `newBlock`), for
`visitLoop`, for `visitFunction`, and for `compileBranch` at the three points where it
waits (`success`, `failiure`, `next`, with `current`, `continueCurrent` and whether
`surrounding` was null). A step visits one node, or does what a visit does after its
block. An instruction is kept if it moves control, or if a run can tell that it
is executed: an expression, a loop's initialisation, test or update. A
declaration is an expression that emits an instruction; a constant emits none,
which matters, because a terminator followed by nothing is still at the end.
`status` is `compiled`, `error` (an `Error`) or `internal` (an `InternalError`, the one for a module
that fails validation included). LLVM's verifier and `getTerminator` are external, with
what the code relies on: one terminator, at the end, and jumps that stay in
their function. `XYLENE_BLOCK_RETURN` is `blockReturn`, and both builds are checked.

`CfgRun` then executes main or any function of a compiled module: `pc` is an
instruction, a test goes either way. `Structured` has no blocks: its state is a place
in the tree, and `First` and `Following` say where control goes by the nesting alone. The
refinement maps an instruction to the node it is for, following jumps; the outcome
of each test is visible in both, so that swapped targets are a difference.

### TypeIds, Scopes, Expressions, Statements, TypeBuilder and Codegen

These are `ModuleCompiler` as far as names, types and values go. `CfgBuilder` has the
blocks and leaves expressions out; here it is the other way round, over one tree format
(`Ast`). `ids` are the identifiers of types and lists in the order they are made
(`TypeId`, `TypeListId`), and `IsCompat` is the code's. `blockTypes`, `blockScope` and
`blockFuncs` are the maps of `ASTData` attached to blocks; `signatures` are the LLVM
functions; `tyData` is `TypeData`; `functionStack` and `at` are the function on top and the
one the builder inserts in. `todo` is the recursion of the visitor: the visits that are
due, and what a visit does after the ones inside it (`Pop` after a function's block,
`finalize` after a type's children, and the delayed bodies that `finalize` runs).

An expression of a program is a table: each entry is a literal, a name, or an operator with the
entries of its operands, which come before it; the last entry is the whole. It is compiled in one
step by `CompileExpression`, a recursive function over the table whose last value is the result:
a value (its type identifier, its LLVM type as a number of pointers on something, and
whether it is a variable's) or how it failed. LLVM's verifier runs at the end; each
instruction remembers in `ok` whether the verifier takes it, so that an accepted module is
one where all are. The outcomes are `compiled`, the user's errors (`syntax`, `type`,
`unbound`, `redefined`), `internal`, `uncaught` (`std::bad_function_call`, `std::out_of_range`)
and `undefined`, for what C++ leaves undefined. An instruction keeps its node, its function, the
names it resolved and to what, which types it stores where, and which words of a union
it writes. Two declarations of the same list in blocks around a use leave two identifiers
with the same names in an unordered set; `newestFirst` is which one the set yields.

`Codegen` states the properties against the tree: `Meaning` says what a name stands for
by the nesting of the tree and the order of the statements alone, `Home` says which function
a node belongs to, and `Clashes` when a node defines what is defined. Methods and
constructors are compiled long after they are visited, from inside another function; that is
what makes these differ from the tables.

The functions of the runtime are in the root block's `blockFuncs` before anything is visited
(`insertRuntimeFuncDecls`), under names a program may write (`RuntimeNames`): `malloc` is an identifier
to the lexer. One wrapper, `Runtime`, stands for all of them, since the code gives each the same signature,
without arguments and with a return type that nothing has; so a name finds them, a call of one is an error
of types, and a function of such a name in the root block is a redefinition. The verifier looks at
instructions, not at names: a value that cannot be used where it stands (`here`) is rejected only when
something uses it, so a bare `a;` or `+a` is accepted whatever `a` is.

What is left out: the LLVM declarations of the runtime functions, the names of LLVM values, and
`serializeTypeSet`, which `compile` calls at its end and which adds constants that nothing refers to. A
`FunctionWrapper` that a function returns is not followed further, since no type of the language can hold
its signature. Control flow is `CfgBuilder`'s, so the programs here are those whose
blocks are well ended (`WellEnded`). `ProgramsAssumption` says that and what else a tree from the
parser is (`IsProgram`): parents come before their children and a subtree is in one piece; members,
methods and constructors are in types, nothing is below what is foreign, the declarations of a loop
come before its block; operands come before their operator, and a call has something it calls.

### Driver

`options` are the switches, `stage` the stage that runs, `completed` what was done, `shown` what
was printed, `threw` what ended the process and `exit` its code. Each stage completes, or
throws what the `catch` clauses of `main` tell apart: an `Error`, an `InternalError`, the
`InternalError` of an invalid module, or an exception of the standard library. Any stage may
throw any of the first, second and fourth kind, which is more than the stages do.
`CRASH_ON_INTERNAL_ERROR` is the build's. A mistake that the command line library finds
itself ends in its own exit and is not modelled.

## 3. Runs

| run | question | instance |
|---|---|---|
| `lexer` | Are all texts tokenised or rejected with the invariants of `Lexer`? | every text of up to 3 or 4 characters over ten alphabets, each chosen for one part of the lexer (brackets, fixity, comments, radix, operators, strings, escapes), some after a prefix that leads into it |
| `lexer_fixity` | Is the operator after an operand postfix or infix? No. | the same |
| `expr_parser` | Is the tree right? | all chains of up to 4 of five operators (four precedences, one right associative); all lists of up to 4 of operands, prefix, postfix, binary operators and ends; groups and calls around lists of up to 3, and nested calls |
| `expr_precedence` | Does the table's precedence hold? No. | chains of up to 3 operators |
| `statement_parser` | Are trees complete, in order, with matched blocks? | programs with every statement inside every block, two levels deep; every order of up to 4 pieces of block structure; types with up to 2 of 17 members; every `for` with and without each of its parts; incomplete statements |
| `statement_root` | Do root blocks end at the end of the file? No. | an `if` without `else`, followed by something |
| `statement_for` | May a `for` leave out its declaration, its condition and its updates? No. | every `for` with and without each of the three, with an empty body and one statement |
| `cfg` | Which programs compile, and do they do what their tree says? | every statement of a set (leaves; ifs with and without else over six bodies; else-ifs; loops with every header; functions; ifs and loops around ifs and loops) in nine contexts: alone, before and after other statements, in a loop, in a function with and without a value; 3400 trees, in both builds |
| `codegen` | Do names, types, instructions and initialisers come out as the tree says? | 2094 trees, with both orders of an unordered set: stores between every pair of four kinds of types and lists; every operator over five pairs or seven single operands; a dozen declarations, uses, loops and functions in pairs, and inside functions before and after a declaration and a use; lists passed and returned; returns in branches; the name of a runtime function used, called, assigned to and defined; types with every pair of 22 members, methods and constructors, and uses of them |
| `codegen_union_fields` | Does a store into a union stay inside it? No. | the same |
| `codegen_returns` | Is a returned value of a type the function returns? No. | the same |
| `driver` | Do the stages, the output and the exit code answer the switches? | every set of the nine switches, every outcome of every stage |

Bounds and why they are enough. The lexer looks at most two characters ahead and one
token back, and its stack only at the top, so three or four characters after a
context reach every branch and every pair of branches; the brackets' alphabet nests
twice. `expressionImpl` compares an operator with the one before it and with its
caller's: four operators give every rise, fall and return to a level, one more than
the shortest list that is grouped wrongly. Blocks interact through the token they
stop at: two levels with something after them are enough to see an `end` taken by the
wrong one, and four pieces give the longer orders, well formed or not. The code generator looks at
a block's own terminator and at the predecessors of one block; what it can confuse
is the block it made, the one the builder is in and the one to continue in: three
levels (context, statement, inner statement) make each of them a different block.
A name can be wrong by the block it is found in or by the time it is looked up: a
declaration before, after, inside and outside a function that uses it, and in a type whose
bodies are compiled late, give every combination of the two. A type's parts interact
through the order in which `finalize` takes them, kind by kind, so two parts of every
pair of kinds are enough.

`CHECK_DEADLOCK FALSE` is in every configuration because every run of these programs
ends: the final states have no successor.

Fairness is weak fairness of `Next`, for every module. The program is one thread and nothing can
interrupt it between two steps, so it takes the next one. `Terminates` then says that no loop goes
round for ever: the program comes to an end, which may be a result, an error, or an exception nobody
catches or a null pointer dereferenced. Which of these it may be is what other properties say
(`NullNeverLinked`, `NullOnlyWhereLeftOut`, `ForPartsAreOptional`). `CfgRun`, `Codegen` and `Driver`
have no liveness property: the visitor goes down a finite tree, a compiled program may loop, and the
driver's stages follow one another once.

## 4. Findings

Each is a run that TLC finds violated, by what the code does. What a passing run already says exactly, and
what has no run of its own, is in section 7.

1. `f() - 1` is no subtraction (`LexerFixity.cfg`). `determineFixity` does not count the end of
   a call among the tokens that end an operand, and makes the minus a prefix operator, which the
   parser of expressions ends the expression in front of; inside a group what follows is dropped.
2. `a + b * c < d` is grouped as `a + ((b * c) < d)` (`ExprPrecedence.cfg`). The exact
   condition is the invariant `GroupedUnlessFallsBack`: a chain is grouped as the table says
   unless an operator is followed by a tighter one and later by one that is not tighter.
3. `if x do end y` drops `y` and ends the program (`StatementRoot.cfg`). The `end` of an `if`
   without `else` is left for the block around it. Inside a `while` or a function the
   same `end` closes both: `BlocksMatched` states what closes what. The same holds of `type`.
4. A `for` without a declaration or without a condition dereferences a null pointer
   (`StatementFor.cfg`): `addInit` and `condition` call `setParent` on what the parser of the part
   returned, which is nothing when nothing is there. `grammar.ebnf` and the comments in `ast.hpp` call
   both optional, and the tests compile such loops, from XML.
5. Declaring a variable of several types, or assigning to it, writes behind it
   (`CodegenUnionFields.cfg`). The address of a field is computed with
   `CreateConstGEP1_32`, which steps over whole unions.
6. A variable of several types returned from a function of one of them returns an address
   (`CodegenReturns.cfg`). `typeCheck` leaves it to the run-time check, since one type is in both lists; the
   check is a stub; and the load that follows takes the first word of the union, the pointer to its
   data, for the value, which LLVM accepts. `StoresFit` says that this is the only way past the check.

## 5. Proofs

`LexerProofs` proves for every set of texts, every set of keywords and every width:

* `TypeCorrect`: `Spec => []TypeOK`. The clamp in `skip` and the step back of `noIncrement`
  keep the cursor inside the text.
* `BracketsAlwaysMatched` and `AcceptedAlwaysBalanced`. `BracketsMatched` is inductive together
  with the type invariant: it says that there is a matching of the closing tokens with
  opening ones, in which the openers without a partner are exactly those on the
  stack, in order. Pushing an opener keeps the matching, closing extends it with the
  top of the stack, any other token leaves it. With an empty stack at the end the
  matching is total, which is `AcceptedIsBalanced`, the promise that
  `parseCircumfixGroup` names in its comment.

`LexerProofs` also proves what the runs check about the places of tokens. All of that rests on one
summary of a round of the main loop (`StepShape`, from a lemma for each kind of round): a
round fails, adds one token that it read without meeting a newline (`ReadsAs`), passes
over a blank, or opens a string literal, from one of the `Starts`. What each theorem adds:

* `AlwaysMovesForward`: `Spec => MovesForward`, from the summary alone. The steps back of
  `noIncrement` never take back more than the loop's own skip adds.
* `TracesAlwaysAscend`. `TracesAscend` alone is not inductive; the invariant (`PlacesInv`) adds
  that the last token ends at or before the cursor and stands on an earlier line or column,
  and that an open string literal's start does so while the literal is being read.
* `OnlyCommentsAlwaysSkipped`. The property says that what lies between two tokens is, from its first
  character to its last, blanks and whole comments, one after the other (`OnlyComments`, by the places
  where each begins). The invariant (`GapInv`) says the same of the part of the gap that has been
  passed over so far, and that it begins where the cursor is or before, except at the end of the
  text; a round that passes over something adds one piece at its end. What a round takes for a comment is
  shown to be one, to its end and no further.
* `LinesAlwaysCounted`. Newlines of a stretch of the text are counted by cardinality; those
  inside a block comment are counted with it, one where the round begins by
  `CountNewline`, and a round's token has none.
* `LongestAlwaysTaken`. The table is read once, symbol by symbol (`SymbolTable`), and `LongestFirst`
  shows of it what its comment "must be ordered" asks for: no entry is longer than an earlier
  one that begins with the same character.

`ExprParserProofs` proves about `ExprParser`, for every set of token lists:

* `NullOperandsNotLinked`: `Spec => []NullNeverLinked`. The invariant (`ParserInv`) says of each
  `impl` frame how its operators' precedences are ordered with its caller's, and that a null
  operand is held only while the token after it is no operator the loops would continue
  with; this is what the code relies on when it sets `rhs` to null after a recursive call.
  (`NullNeverLinked` alone is not inductive: it says nothing of the states before the crash.)
* `NodesStayTyped`: `Spec => []TypeOK`;
* `LinkedOnce`: `Spec => []OneParent`, no node is linked twice.

The last two rest on one invariant (`TreeInv`), because neither is inductive: a node that is
nobody's child yet may be in the hands of two invocations, and the next call of `addChild`
would link it twice. The code passes `shared_ptr`s around and says nowhere who owns a tree; the
invariant does. A node is *held* in a slot: slot 0 is what is being returned or passed, slot
i what the i-th invocation has in its locals and will still link (`Holds`; `tokExpr` is an
invocation's own only while it waits for the operand, since after a recursive call it is that
call that has it). No node is held in two slots (`Apart`); what is held is the root of a
tree, of tokens already passed (`Rooted`); a node behind the current token has no children yet
(`Untouched`); groups lie inside each other and end at brackets (`Nested`); and a comma in a
tree has a left operand, which is before it (`LiveCommas`). The last one makes the descent to
the arguments of a call end, and its commas distinct (`DescentEnds`, `SpineDescends`): the
descent is a recursive function, which has to be shown to exist before anything can be said of
its values (`IterationDefined` in `NatFacts`). When a call is made, its arguments leave the
commas, which are then in nobody's hands and under nobody (`CallLinks`). A step is described
by what it hands over, what it makes and what it links (`Handing`, `Links`); `StepGrows`
concludes the invariant from that, so that each action's lemma only says which nodes
those are. TLC checked the invariant on the lists of the run before it was proved.

`StatementProofs` proves about `StatementParser`, for every set of token lists, with whatever
types in them:

* `StaysInside`: `Spec => []TypeOK`;
* `HandedOverComplete`: `Spec => []LinkedComplete`. What `addChild`, `success`, `failiure` and
  `code` are given is complete, whatever else the list holds;
* `TreeOrdered`: `Spec => []TreeInOrder`;
* `EndsMatch`: `Spec => []BlocksMatched`;
* `NothingLost`: `Spec => []StatementsKept`. The last two are about lists in which no keyword is
  skipped unseen (`KeywordsSeen`).

The first part of the module is about the helpers: each either fails or leaves a position of
the list that is not before the one it started at (`Reads`, `Tries`), which for
`getSigArgs` takes an induction, since it takes any token for the name of an argument.
`LinkedComplete` alone is not inductive, because a node is linked to its parent long after its
parts were read. The invariant (`IInv`) adds what is known meanwhile: the stack is a chain
from the root block on, in the order of the source, in which each invocation may have made
the one above it (`Chain`, `Makes`) and has built as much as it can have by then (`Built`:
an if waits with no child or with a first block that stopped at an else); what is being
returned is complete and is what the top of the stack waits for (`ReturnInv`), and for
an if the token before the current one is where that block stopped, which is what
`skip(-1)` relies on; nothing is known yet of tokens to come (`FreshInv`); and a child is
behind its parent and in nobody's hands (`LinkInv`). Without the last one, a node that is
linked could still be changed. TLC checked the invariant on the lists of the run before it
was proved.

The other three theorems need to know which tokens a step passes over, and most of the
module shows it once: each helper takes no keyword but the one it is for (`Quiet`, `Plain`),
so each statement's step has one of seven shapes (`NextShape`): it fails; reads a statement
that has no block; opens a block, of its own or behind a header; enters the body of a type; hands a node
over and stays in its parent, or leaves the parent too; closes a block or a body. Each invariant
is then preserved by seven lemmas, not by one for each statement.

* `OrderInv`, for `TreeInOrder`. Children ascend, and of two nodes whose stretches meet one is inside
  the other (`TreeInv`); while the parser runs, all that belongs to a node before one that
  is *held*, on the stack or just returned, is before that one, and what is on the stack is
  still open (`HeldInv`). What the recursive `Under` collects follows by induction from
  the last token back, a node's children being after it.
* `KeptInv`, for `StatementsKept`. What has begun is held or has a parent, and so is what has
  children. When the root block returns, nothing else is held; that everything is then under
  the root is another induction, along the parents (`UnderClosed`).
* `LevelInv`, for `BlocksMatched`. Each block that has an end stopped at its own level
  (`EndedAt`); each invocation began at the level of the one that made it (`Nested`); and
  the innermost is at its own level again, when no level of one that waits has been left
  (`Levelled`). A level is a difference of two cardinalities, which add up over stretches
  of tokens (`Counted`, `Levels`). The delicate case is the `end` of an `if`, which is read twice,
  by its block and by what is around it.

`DriverProofs` proves `AlwaysAsAsked`, `Spec => []DoesAsAsked`, for both kinds of build and
whatever interpreted programs return. What the property says of the end does not carry
over from one step to the next: the invariant adds what is completed when a stage
begins (`Before`), and that the switches allow the stage (`Allowed`). Each of the stages'
steps then has to be shown to complete exactly what the next one, or the end, presumes.

`CfgProofs` proves about `CfgRun`, for every set of programs, in both kinds of build:

* `LayoutIsTyped`: `Spec => []TypeOK`, which is proved only, since a run would show less;
* `BuilderStaysInTopFunction`: the insert point is in the function on top of
  `functionStack`, which two different visits restore;
* `BlocksFilledAreFresh`: no jump goes to a block that `compileBlock` is still filling;
* `ErasedIsNotUsed`: nobody is left with the block `compileBranch` erased.

None of the three is inductive. They follow from one invariant (`LayoutIsKept`), which says how the
visits that are not over fit together. Its parts: each frame of `work` refers to nodes and
blocks that exist, and stands under the one below it as the tree says (`Frames`, `Under`);
the blocks that different visits fill or wait to fill are different (`Apart`); no
jump goes to a block that is being filled, and the targets a visit has still to jump
to are live and of the function it is in; a `continueCurrent` that may be erased is
mentioned by no visit below, and the function of the erased block has an earlier block;
`functionStack` is the chain of the functions of the visits, innermost on top. What follows the
compilation needs little: only a module that was verified runs, from an instruction of a
live block to another (`RunInv`). There is one lemma for each way a visit ends and one for each
statement; the rest is about what adding an instruction, a block or a frame leaves as it was. TLC checked the
invariant on a part of the programs before it was proved, which found what was missing in it.
`NatFacts` has the induction the proofs about sequences of frames need, with a set in the place
of the library's operator parameter, from the fact that a set of naturals that is not empty
has a least element.

`CodegenProofs` proves about `Codegen`, for every set of programs and both orders of the unordered
set (`CodegenTasks` has what it needs of the tree and of the tasks):

* `TypesHold`: `Spec => []TypeOK`, with a function to insert in as long as anything is to be visited;
* `StoresHold`: `Spec => []StoresFit`. Of an accepted module, every value that is stored, passed or
  returned has only types the place allows, but for what is exactly `LeftToTheCheck`: a variable of a list,
  returned, that has a type in common with what the function returns;
* `CompleteHold`: `Spec => []KnownTypesAreComplete`;
* `ListsHold`: `Spec => []ListsByNameAgree`.

The first two rest on one invariant (`Sound`). `TypeOK` alone is not inductive: whether there is a
function left to insert in depends on everything that is still to be done, and an expression
has a value only if what it looks up has what the lookup takes for granted. The invariant has
these parts.

* `Control`: what `todo` says. Each task *claims* a part of the tree, what is visited because of
  it and because of nothing else (`Claims`: a visit claims the subtree, but the body of a method or a
  constructor is claimed by its type's `finalize`). No two tasks claim the same, and they
  are in the order of the source, except that a body comes late (`Queue`, `Order`); so a node is visited once,
  and what was visited is what nobody claims any more (`Seen`). A step replaces its task with
  others that claim exactly the rest of what it claimed (`Advance`), for each kind of task.
* The same tasks, done one after the other, take `functionStack` down to main alone (`Path`): `Pop`
  after a body, `endInit` after the initialiser. That is why it never runs empty.
* The lists of a type (`Listed`) and the tables of blocks (`ScopeKept`, `FuncsKept`,
  `MembersKnown`) have what was visited, once and in order, though a method is added after its body.
* The tables have their types (`TablesTyped`), and what was written fits (`CodeKept`: an instruction
  the verifier takes stores what is allowed or what is left to the check, and is in the function its
  node belongs to; the latter is also the first half of `CompiledInPlace`).

An expression is compiled by a recursive function over its table; that it has values at all
is shown first (`CompiledExists`), then each entry yields a result if those before it do
(`NodeIs`), by induction. So is the recursion that climbs to the block or the function
above a node (`BlocksAboveAre`, `FindAboveIsNearest`), which after that is read off the tree.

The other two add a second invariant (`LearnedWell`) about what blocks know. `ListsByNameAgree`
compares identifiers that any block above sees, so it needs that a list allows exactly the
types its names mean at its block (`Grounded`), that a name means one type wherever there is
something to do (`NamesDistinct`), that a type being finalized is not visible under its name yet
(`ClosingUnnamed`), and that a block that was not visited knows nothing (`BlocksFresh`).
`KnownTypesAreComplete` needs that what a block learns is settled for good (`Settled`,
`LaidOutFirst`). What a step does to all of this is said once (`Learning`): most
steps teach nothing; a declaration may make a list, `visitType` makes an identifier, the end of
`finalize` makes it known.

Writing the proofs corrected the model in four places: expressions became tables, so that they
are not compiled by a `RECURSIVE` operator; what `IsProgram` says of operands had been
laid out so that it meant less; the lookups that walk up the tree are now the functions of
`Ast`; and `BlocksMatched` and `StatementsKept` were false of lists in which a keyword stands
where the parser skips a token without looking, which the lists of the run did not have: they now
say so (`KeywordsSeen`).

The assumptions on constants are the named `ASSUME`s of `Operators`, `Lexer`, `ExprParser`,
`StatementParser`, `CfgBuilder`, `Scopes`, `Codegen` and `Driver`; TLC evaluates them in every run.

Only model-checked: termination (liveness is not in the prover's reach); that a comment is read as
tokens nowhere but right after a block comment (`CommentsReadAfterComments`); the order of the
operands in the trees of expressions and their grouping; that a list is parsed to the program it was
made from (`ProgramsAreParsed`), which is about the programs of the run. That generated code implements
`Structured` and that exactly the translatable programs compile stays with TLC because both sides are
defined by recursion over the tree: an inductive proof would need, for each program
construct, what its whole subtree has laid out. Of `Codegen`, what names resolve to, that nothing is
defined twice, that the initialiser stores each member and that no instruction is missing or twice.

## 6. Not modelled, and the plan

What is left to do, the most important first:

1. Proofs: the rest of the invariants of `Codegen`, from the order of its tasks; `OperandsInOrder` of
   `ExprParser`, whose trees are a recursive function as yet without induction.
2. The composition of lexer and parsers: the tokens of a text parsed as the grammar reads it.
3. One tree format with the blocks and the expressions of the code generator together, so that
   names and values can be checked in programs whose control flow is rejected.

Not modelled:

* The XML parser. It translates a document, tag by tag, and keeps nothing from one tag to the
  next; a missing attribute, condition or body is an `XMLParseError`. To the driver it is a stage
  that completes or throws.
* Printing of tokens, trees and errors, and traces beyond their positions.
* Object file emission and the runner, which are calls of LLVM: stages of `Driver`.
* The runtime: its type checks return without looking. `StoresFit` says that in a module that is
  accepted nothing rests on them but values that are returned, and the run `codegen_returns` that those do.
* What `serializeTypeSet` adds to a finished module: a constant for each type, which no instruction
  refers to.
* Errors of the command line library; the build and the tests.

## 7. Behaviour worth knowing

Found by reading or by the models and not among the findings above; where a document or a comment says
otherwise, the item names it:

* `0b2` and a number too large for its radix end in an exception of the standard
  library that nobody catches; so does an escape of three digits that begins with 8 or
  9. `0x` alone reads the last character of an empty string.
* The character right after `=>` is skipped. A `//` right after a block comment is lexed
  as two operators; that is the only place where a comment is read as tokens.
  Newlines in strings are not counted.
* `f(x]` is accepted: any closer that finds a call on the stack becomes the end of the call
  before it is compared.
* `a + ;` leaves an operator with one operand. `- ;` dereferences a null pointer. `f(a,)` throws
  `std::out_of_range`; `f(a, b + 1, c)` is a call with two arguments, and so is `f((a, b))`.
* What follows a complete expression inside brackets is dropped without a message.
* An empty statement is an internal error; so is a file without the `end` of its last block. So is
  `break;`, because `break` does not read its semicolon, although `grammar.ebnf` has one after every
  statement and the comment in `tests/data/llvm/loops/no_condition.xml` writes one.
* A member without initialisation dereferences a null pointer: the guard that should see to it counts the
  places for children, of which a declaration always has one, not the children (`tokenParser.cpp:385`).
  `NullOnlyWhereLeftOut` says that this and a `for` are the only such places among statements.
* `a = b = c` is `(a = b) = c`, although `operator.hpp` says of `=` that it associates from the right: the
  comparison that looks at associativity (`tokenParser.cpp:174`) comes after one that is true in the same
  cases. `GroupedUnlessFallsBack` groups every chain from the left.
* A foreign method needs two semicolons and loses the token after `method`.
* An `if` whose body does not end by leaving it (a `return`, a `break`, an `if` with an `else`) is an
  `InternalError`: `compileBlock` demands the terminator (`compiler.cpp:251`, "Technically should never
  happen") before `compileBranch` can add the jump to `branchAfter`, and the jump back in
  `handleBranchExit` is never executed.
* Exactly which programs get past the code generator is the invariant
  `CompiledIffTranslatable`: both sides of an `if` must leave, a loop's body must not end by
  leaving, nothing that emits an instruction may follow a statement that leaves, a
  function without value either leaves at its end or has no jump at all, and no block
  stands directly in another. A `break` in a function inside a loop is an internal error,
  not a syntax error.
* A module that is not the root has no function on `functionStack`, whose top is read when
  its root block is compiled. `Compiler` and the driver only make root modules.
* The operand of an operator that is a variable is never loaded, though the comment at
  `compiler.hpp:188` promises it: `a = b` of two variables of type Integer is rejected by the
  verifier. A bit or logical operator with two operands is always an error, `++` and `--` reject a
  Float, and the two shifts have each other's names.
* `visitReturn` writes the loaded value into the wrapper it was given, which for a variable is
  the one its block holds: a variable returned in one branch cannot be used in another,
  because the verifier finds a value that does not dominate its use.
* A static member, a foreign method and a foreign constructor end in a module the verifier
  rejects. The static initialiser never has any code, so the lines that would call it
  (`typeData.cpp:121`) are dead. In a method that is not static every name is an
  `InternalError`.
* A method may have the name of a method, and a member that of a method before it, but not the
  other way round. Two arguments may have the same name; a lookup of a later one is then an
  `InternalError`.
* `malloc`, `_xyl_finish` and the other functions of the runtime are in scope in every program: a use of
  such a name finds them, a call is an error of types whatever the arguments, and a function of
  that name in the root block is a redefinition, though the program defines nothing twice.
* Calling a variable of type Function casts a `ValueWrapper` to the `FunctionWrapper` it is not.
  A run-time check of a value that is a union but not in memory takes the element type of something that is no
  pointer.
* Operators without an entry in `codegenMap`, and literals too large for `std::stoll`, end the
  process with an exception of the standard library. An invalid module is printed whether
  `--ir` was given or not. Exit codes 2 and 3 are also those of programs that return them.
