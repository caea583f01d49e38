------------------------------ MODULE CfgBuilder ------------------------------
(***************************************************************************)
(* How ModuleCompiler (llvm/compiler.cpp) lays out basic blocks: compile,  *)
(* compileBlock, compileBranch and the visits of loops, breaks, returns    *)
(* and functions.                                                          *)
(*                                                                         *)
(* The visitor's recursion is the stack `work`; a step is the visit of one *)
(* node, or what a visit does once a block it compiled is over.  An        *)
(* instruction is kept when it moves control or when the program can see   *)
(* that it runs; it says which node it is for and what it does there.      *)
(***************************************************************************)
EXTENDS Ast, FiniteSets

CONSTANTS
  Programs,   \* the trees considered
  Builds      \* the values of XYLENE_BLOCK_RETURN considered

ASSUME ProgramsAssumption == \A t \in Programs : IsTree(t)
ASSUME BuildsAssumption == Builds \subseteq BOOLEAN

VARIABLES
  prog,           \* the tree
  blockReturn,    \* XYLENE_BLOCK_RETURN: returns are allowed outside functions
  blocks,         \* basic blocks, in the order of their creation
  at,             \* the block the builder inserts in, 0 for none
  functionStack,  \* functions being compiled, innermost first; main is node 1
  exitBlock,      \* where a break of each loop goes
  work,           \* visits that are not over, innermost first
  result,         \* what the last compileBlock returned
  status          \* "compiling", "compiled", "error", "internal"

cfgVars ==
  <<prog, blockReturn, blocks, at, functionStack, exitBlock, work, result, status>>

(***************************************************************************)
(* Instructions and blocks                                                 *)
(***************************************************************************)
Instr(op, n, to) == [op |-> op, node |-> n, to |-> to]
Jump(b) == Instr("jump", 0, <<b>>)
Ret(n) == Instr("return", n, <<>>)
Terminators == {"jump", "test", "return"}
IsTerminator(i) == i.op \in Terminators

Fresh(f) == [fn |-> f, code |-> <<>>, live |-> TRUE]
\* Adds i at the end of block b.
Put(bs, b, i) == [bs EXCEPT ![b].code = Append(@, i)]
\* getTerminator: the last instruction, if it is a terminator.
Terminated(bs, b) == bs[b].code # <<>> /\ IsTerminator(bs[b].code[Len(bs[b].code)])
JumpsTo(i, b) == \E k \in DOMAIN i.to : i.to[k] = b
Predecessors(bs, b) ==
  {p \in DOMAIN bs : bs[p].live /\ \E k \in DOMAIN bs[p].code : JumpsTo(bs[p].code[k], b)}

\* verifyModule, for what this model keeps: each block has one terminator, at
\* its end, and jumps stay in their function.
Verifies(bs) ==
  \A b \in DOMAIN bs : bs[b].live =>
    LET code == bs[b].code IN
    /\ Terminated(bs, b)
    /\ \A k \in DOMAIN code : IsTerminator(code[k]) => k = Len(code)
    /\ \A k \in DOMAIN code, c \in DOMAIN bs :
         JumpsTo(code[k], c) => bs[c].live /\ bs[c].fn = bs[b].fn

(***************************************************************************)
(* The visits                                                              *)
(***************************************************************************)
Top == Head(work)
BlockFrame(n, old, made) ==
  [f |-> "block", node |-> n, todo |-> prog[n].kids, old |-> old, made |-> made]
LoopFrame(n, cond, after) ==
  [f |-> "loop", node |-> n, todo |-> prog[prog[n].code].kids, made |-> cond, after |-> after]
FunctionFrame(n) == [f |-> "function", node |-> n]
\* compileBranch, while the success block is compiled.  old is the block the
\* condition is in; surrounding is 0 in the outermost call.
SuccessFrame(n, old, surrounding) ==
  [f |-> "success", node |-> n, old |-> old, after |-> surrounding]
\* compileBranch, while the other side is compiled: made is the success block,
\* other the one an else-if starts in.
FailiureFrame(n, old, made, after, outer) ==
  [f |-> "failiure", node |-> n, old |-> old, made |-> made, after |-> after, outer |-> outer]
NextFrame(n, old, made, after, outer, other) ==
  [f |-> "next", node |-> n, old |-> old, made |-> made, after |-> after,
   outer |-> outer, other |-> other]

Throw(how) ==
  /\ status' = how
  /\ UNCHANGED <<blocks, at, functionStack, exitBlock, work, result>>

\* compileBlock(n), up to its first child, once the blocks are bs: function f
\* gets a new block.
OpenBlock(n, bs, old, f, rest) ==
  /\ blocks' = Append(bs, Fresh(f))
  /\ at' = Len(bs) + 1
  /\ work' = <<BlockFrame(n, old, Len(bs) + 1)>> \o rest

\* compileBranch(n, surrounding), up to its success block: the builder is in
\* block b of bs.
OpenBranch(n, bs, b, surrounding, rest) ==
  IF prog[n].cond = "bad" THEN Throw("error")
  ELSE /\ OpenBlock(prog[n].yes, bs, b, Head(functionStack),
                    <<SuccessFrame(n, b, surrounding)>> \o rest)
       /\ UNCHANGED <<functionStack, exitBlock, result, status>>

\* The node to visit next, and the visits once it is taken.
Child(n) == work # <<>> /\ Top.f \in {"block", "loop"} /\ Top.todo # <<>> /\ n = Head(Top.todo)
Taken == <<[Top EXCEPT !.todo = Tail(@)]>> \o Tail(work)

\* An instruction for n, where the builder is.
EmitHere(i) ==
  /\ blocks' = Put(blocks, at, i)
  /\ work' = Taken
  /\ UNCHANGED <<at, functionStack, exitBlock, result, status>>

VisitExpression(n) ==
  /\ prog[n].k = "expr"
  /\ \/ prog[n].emits = "error" /\ Throw("error")
     \/ /\ prog[n].emits = "nothing"
        /\ work' = Taken
        /\ UNCHANGED <<blocks, at, functionStack, exitBlock, result, status>>
     \/ prog[n].emits = "instruction" /\ EmitHere(Instr("expr", n, <<>>))

\* Outside functions a return, where it is allowed, is one of an Integer.
ReturnAgrees(n) ==
  LET func == FindAbove(prog, n, "function") IN
  IF func = 0 THEN blockReturn /\ prog[n].value ELSE prog[n].value = ~prog[func].void
VisitReturn(n) ==
  /\ prog[n].k = "return"
  /\ IF ReturnAgrees(n) THEN EmitHere(Ret(n)) ELSE Throw("error")

VisitBreakLoop(n) ==
  LET loop == FindAbove(prog, n, "loop") IN
  /\ prog[n].k = "break"
  /\ IF loop = 0 THEN Throw("error") ELSE EmitHere(Jump(exitBlock[loop]))

VisitBlock(n) ==
  /\ prog[n].k = "block"
  /\ OpenBlock(n, blocks, at, Head(functionStack), Taken)
  /\ UNCHANGED <<functionStack, exitBlock, result, status>>

VisitBranch(n) == prog[n].k = "branch" /\ OpenBranch(n, blocks, at, 0, Taken)

VisitLoop(n) ==
  LET loopAfter == Len(blocks) + 1
      loopBlock == Len(blocks) + 2
      loopCondition == Len(blocks) + 3
      fresh == Fresh(Head(functionStack))
      inits == IF prog[n].init THEN Put(blocks, at, Instr("init", n, <<>>)) ELSE blocks
      made == Append(Append(Append(inits, fresh), fresh), fresh)
      jumped == Put(made, at, Jump(loopCondition))
      targets == IF prog[n].cond = "none" THEN <<loopBlock>> ELSE <<loopBlock, loopAfter>>
  IN  /\ prog[n].k = "loop"
      /\ IF prog[n].cond = "bad" THEN Throw("error")
         ELSE /\ blocks' = Put(jumped, loopCondition, Instr("test", n, targets))
              /\ at' = loopBlock
              /\ exitBlock' = [exitBlock EXCEPT ![n] = loopAfter]
              /\ work' = <<LoopFrame(n, loopCondition, loopAfter)>> \o Taken
              /\ UNCHANGED <<functionStack, result, status>>

\* A foreign function has no block: it is pushed and popped again.
VisitFunction(n) ==
  /\ prog[n].k = "function"
  /\ IF prog[n].code = 0
     THEN work' = Taken /\ UNCHANGED <<blocks, at, functionStack>>
     ELSE /\ functionStack' = <<n>> \o functionStack
          /\ OpenBlock(prog[n].code, blocks, at, n, <<FunctionFrame(n)>> \o Taken)
  /\ UNCHANGED <<exitBlock, result, status>>

(***************************************************************************)
(* What a visit does once its children were visited                        *)
(***************************************************************************)
Over(f) == work # <<>> /\ Top.f = f /\ (f \in {"block", "loop"} => Top.todo = <<>>)

\* Mutant: the builder stays in the function that is over.
StayInside(frame) == at
\* Where the builder goes when a block is over.
ReturnTo(frame) == IF prog[frame.node].type = "function" THEN frame.old ELSE at

\* compileBlock returns the block it made.
LeaveBlock(bs) ==
  /\ blocks' = bs
  /\ at' = ReturnTo(Top)
  /\ work' = Tail(work)
  /\ result' = Top.made
  /\ UNCHANGED <<functionStack, exitBlock, status>>

\* The end of compileBlock.  Only the block made at its start is looked at; a
\* terminator it lacks is added where the builder is by now.  A block that
\* nothing jumps to cannot be merged into its predecessor.
EndBlock ==
  LET type == prog[Top.node].type
      fun == Head(functionStack)
      void == prog[fun].k = "function" /\ prog[fun].void
  IN  /\ Over("block")
      /\ \/ Terminated(blocks, Top.made) /\ LeaveBlock(blocks)
         \/ /\ ~Terminated(blocks, Top.made)
            /\ \/ type = "root" /\ LeaveBlock(Put(blocks, at, Ret(1)))
               \/ type \in {"if", "code"} /\ Throw("internal")
               \/ type = "function" /\ void /\ LeaveBlock(Put(blocks, at, Ret(fun)))
               \/ type = "function" /\ ~void /\ Throw("error")

EndFunction ==
  /\ Over("function")
  /\ functionStack' = Tail(functionStack)
  /\ work' = Tail(work)
  /\ UNCHANGED <<blocks, at, exitBlock, result, status>>

EndLoop ==
  LET updated ==
        IF prog[Top.node].update THEN Put(blocks, at, Instr("update", Top.node, <<>>)) ELSE blocks
  IN  /\ Over("loop")
      /\ blocks' = Put(updated, at, Jump(Top.made))
      /\ at' = Top.after
      /\ work' = Tail(work)
      /\ UNCHANGED <<functionStack, exitBlock, result, status>>

\* Mutant: branchAfter is kept though nothing jumps to it.
KeepAfter(bs, after, outer, used) == FALSE
\* Mutant: the inner calls of an else-if erase it as well.
EraseInner(bs, after, outer, used) == ~used /\ Predecessors(bs, after) = {}
Unused(bs, after, outer, used) == outer /\ ~used /\ Predecessors(bs, after) = {}
\* handleBranchExit, once the condition's block has its jump: the rest of the
\* statements go to `after`, or, if it is erased, stay where the builder is.
BranchExit(bs, old, success, after, outer, used) ==
  LET back == ~Terminated(bs, success)
      jumped == IF back THEN Put(bs, success, Jump(after)) ELSE bs
      erase == Unused(jumped, after, outer, used \/ back)
  IN  /\ blocks' = IF erase THEN [jumped EXCEPT ![after].live = FALSE] ELSE jumped
      /\ at' = IF erase THEN old ELSE after
      /\ work' = Tail(work)
      /\ UNCHANGED <<functionStack, exitBlock, result, status>>

\* Mutant: the sides are swapped.
SwappedSides(n, success, other) == Instr("test", n, <<other, success>>)
CondBr(n, success, other) == Instr("test", n, <<success, other>>)

\* Mutant: current and continueCurrent are mixed up.
BackToCondition(old, after) == old
\* Where control goes when the condition is false and there is no else.
WithoutElse(old, after) == after

\* The success block is compiled: continueCurrent is made, unless the caller
\* gave one, and the other side is next.
AfterSuccess ==
  LET n == Top.node
      no == prog[n].no
      outer == Top.after = 0
      fresh == Fresh(Head(functionStack))
      bs == IF outer THEN Append(blocks, fresh) ELSE blocks
      after == IF outer THEN Len(bs) ELSE Top.after
      nextBranch == Len(bs) + 1
  IN  /\ Over("success")
      /\ \/ no = 0 /\ BranchExit(Put(bs, Top.old, CondBr(n, result, WithoutElse(Top.old, after))),
                                 Top.old, result, after, outer, FALSE)
         \/ /\ no # 0 /\ prog[no].k = "block"
            /\ OpenBlock(no, bs, at, Head(functionStack),
                         <<FailiureFrame(n, Top.old, result, after, outer)>> \o Tail(work))
            /\ UNCHANGED <<functionStack, exitBlock, result, status>>
         \/ /\ no # 0 /\ prog[no].k = "branch"
            /\ OpenBranch(no, Append(bs, fresh), nextBranch, after,
                 <<NextFrame(n, Top.old, result, after, outer, nextBranch)>> \o Tail(work))

AfterFailiure ==
  LET back == ~Terminated(blocks, result)
      bs == IF back THEN Put(blocks, result, Jump(Top.after)) ELSE blocks
  IN  /\ Over("failiure")
      /\ BranchExit(Put(bs, Top.old, CondBr(Top.node, Top.made, result)),
                    Top.old, Top.made, Top.after, Top.outer, back)

AfterNext ==
  /\ Over("next")
  /\ BranchExit(Put(blocks, Top.old, CondBr(Top.node, Top.made, Top.other)),
                Top.old, Top.made, Top.after, Top.outer, FALSE)

(***************************************************************************)
(* The specification                                                       *)
(***************************************************************************)
\* compile visits the root block, whose function is main.
CfgInit ==
  /\ prog \in Programs /\ blockReturn \in Builds
  /\ blocks = <<Fresh(1)>> /\ at = 1
  /\ functionStack = <<1>>
  /\ exitBlock = [n \in DOMAIN prog |-> 0]
  /\ work = <<BlockFrame(1, 0, 1)>>
  /\ result = 0 /\ status = "compiling"

\* The end of compile: a terminator for the block the builder is in, and the
\* verifier.
Finish ==
  LET bs == IF Terminated(blocks, at) THEN blocks ELSE Put(blocks, at, Ret(1)) IN
  /\ work = <<>>
  /\ blocks' = bs
  /\ status' = IF Verifies(bs) THEN "compiled" ELSE "internal"
  /\ UNCHANGED <<at, functionStack, exitBlock, work, result>>

Visit(n) ==
  Child(n) /\ (VisitExpression(n) \/ VisitReturn(n) \/ VisitBreakLoop(n) \/ VisitBlock(n)
                 \/ VisitBranch(n) \/ VisitLoop(n) \/ VisitFunction(n))

Compile ==
  /\ status = "compiling"
  /\ \/ \E n \in DOMAIN prog : Visit(n)
     \/ EndBlock \/ EndFunction \/ EndLoop
     \/ AfterSuccess \/ AfterFailiure \/ AfterNext \/ Finish
  /\ UNCHANGED <<prog, blockReturn>>
=============================================================================
