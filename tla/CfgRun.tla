-------------------------------- MODULE CfgRun --------------------------------
(***************************************************************************)
(* The generated module, run: once CfgBuilder has compiled a program, the  *)
(* code of main or of a function is executed, block by block.  It is       *)
(* compared with the walk over the tree (Structured).                      *)
(***************************************************************************)
EXTENDS CfgBuilder

VARIABLES
  pc,     \* [block, i]: the instruction that is next
  took    \* how the last conditional jump came out

runVars == <<prog, blockReturn, blocks, at, functionStack, exitBlock, work, result,
             status, pc, took>>

NotStarted == [block |-> 0, i |-> 0]
Returned == [block |-> 0, i |-> 1]
StartOf(b) == [block |-> b, i |-> 1]
Running == pc.block # 0

\* A function starts at the block that was made for it first.
EntryBlocks ==
  {b \in DOMAIN blocks : \A c \in DOMAIN blocks : blocks[c].fn = blocks[b].fn => b <= c}

Enter ==
  /\ status = "compiled" /\ pc = NotStarted
  /\ \E b \in EntryBlocks : pc' = StartOf(b)
  /\ UNCHANGED took

Execute ==
  LET i == blocks[pc.block].code[pc.i] IN
  /\ Running
  /\ \/ ~IsTerminator(i) /\ pc' = [pc EXCEPT !.i = @ + 1] /\ UNCHANGED took
     \/ i.op = "jump" /\ pc' = StartOf(i.to[1]) /\ UNCHANGED took
     \/ i.op = "test" /\ pc' = StartOf(i.to[1]) /\ took' = TRUE
     \/ i.op = "test" /\ Len(i.to) = 2 /\ pc' = StartOf(i.to[2]) /\ took' = FALSE
     \/ i.op = "return" /\ pc' = Returned /\ UNCHANGED took

Init == CfgInit /\ pc = NotStarted /\ took = TRUE
Next ==
  \/ Compile /\ UNCHANGED <<pc, took>>
  \/ (Enter \/ Execute) /\ UNCHANGED cfgVars
Spec == Init /\ [][Next]_runVars /\ WF_runVars(Next)

-----------------------------------------------------------------------------
(***************************************************************************)
(* Properties                                                              *)
(***************************************************************************)
InstrSet ==
  [op : Terminators \cup {"expr", "init", "update"}, node : {0} \cup DOMAIN prog,
   to : Seq(DOMAIN blocks)]
FrameSet ==
       [f : {"block"}, node : DOMAIN prog, todo : Seq(DOMAIN prog),
        old : {0} \cup DOMAIN blocks, made : DOMAIN blocks]
  \cup [f : {"loop"}, node : DOMAIN prog, todo : Seq(DOMAIN prog),
        made : DOMAIN blocks, after : DOMAIN blocks]
  \cup [f : {"function"}, node : DOMAIN prog]
  \cup [f : {"success"}, node : DOMAIN prog, old : DOMAIN blocks,
        after : {0} \cup DOMAIN blocks]
  \cup [f : {"failiure"}, node : DOMAIN prog, old : DOMAIN blocks, made : DOMAIN blocks,
        after : DOMAIN blocks, outer : BOOLEAN]
  \cup [f : {"next"}, node : DOMAIN prog, old : DOMAIN blocks, made : DOMAIN blocks,
        after : DOMAIN blocks, outer : BOOLEAN, other : DOMAIN blocks]

\* Blocks, instructions and visits refer to blocks and nodes that exist, and
\* the builder always has a block to insert in.
TypeOK ==
  /\ blockReturn \in Builds
  /\ blocks \in Seq([fn : DOMAIN prog, code : Seq(InstrSet), live : BOOLEAN])
  /\ at \in DOMAIN blocks
  /\ functionStack \in Seq(DOMAIN prog)
  /\ exitBlock \in [DOMAIN prog -> {0} \cup DOMAIN blocks]
  /\ work \in Seq(FrameSet)
  /\ result \in {0} \cup DOMAIN blocks
  /\ status \in {"compiling", "compiled", "error", "internal"}
  /\ pc \in [block : {0} \cup DOMAIN blocks, i : Nat]
  /\ took \in BOOLEAN

\* The builder is in the function that is being compiled: what visitFunction
\* and compileBlock do with functionStack and with the insert point keeps the
\* two in step, for functions inside functions, branches and loops.
BuilderInTopFunction ==
  status = "compiling" /\ ~Over("function") =>
    functionStack # <<>> /\ blocks[at].fn = Head(functionStack)

\* Nothing jumps to the block that compileBlock is filling: its attempt to
\* merge a code block into its predecessor cannot succeed, and the entry block
\* of a function has no predecessor, as LLVM wants.
FreshBlocksAreFresh ==
  \A k \in DOMAIN work : work[k].f = "block" => Predecessors(blocks, work[k].made) = {}

\* The builder is never left in a block that was erased, and nothing that is
\* still to be done will jump to one.
ErasedIsDead ==
  /\ blocks[at].live
  /\ \A n \in DOMAIN exitBlock : exitBlock[n] # 0 => blocks[exitBlock[n]].live
  /\ \A k \in DOMAIN work :
       /\ work[k].f \in {"success", "failiure", "next"} /\ work[k].after # 0
            => blocks[work[k].after].live
       /\ work[k].f \in {"loop", "failiure", "next"} => blocks[work[k].made].live

(***************************************************************************)
(* Which programs can be translated                                        *)
(***************************************************************************)
Kid(b, i) == prog[prog[b].kids[i]]
\* Emits no instruction in the block it is in.
Silent(s) == s.k = "function" \/ (s.k = "expr" /\ s.emits = "nothing")
\* Whether the chain of else-ifs that starts at branch n ends with an else.
HasElse(n) ==
  LET e[m \in DOMAIN prog] ==
        prog[m].no # 0 /\ (prog[prog[m].no].k = "block" \/ e[prog[m].no])
  IN  e[n]
\* After child i of block b nothing more can be emitted there.
Leaves(b, i) ==
  Kid(b, i).k \in {"return", "break"} \/ (Kid(b, i).k = "branch" /\ HasElse(prog[b].kids[i]))
Positions(b) == DOMAIN prog[b].kids
Ends(b) ==
  \E i \in Positions(b) :
    Leaves(b, i) /\ \A j \in Positions(b) : i < j => Silent(Kid(b, j))
Turns(b) == \E i \in Positions(b) : Kid(b, i).k \in {"return", "break", "branch", "loop"}

Translatable(n) ==
  LET s == prog[n]
      func == FindAbove(prog, n, "function")
  IN  CASE s.k = "expr" -> s.emits # "error"
        [] s.k = "return" ->
             IF func = 0 THEN blockReturn /\ s.value ELSE s.value # prog[func].void
        [] s.k = "break" -> FindAbove(prog, n, "loop") > func
        [] s.k = "branch" -> /\ s.cond = "ok" /\ Ends(s.yes)
                             /\ s.no # 0 /\ prog[s.no].k = "block" => Ends(s.no)
        [] s.k = "loop" -> s.cond # "bad" /\ ~Ends(s.code)
        [] s.k = "function" ->
             s.code # 0 => Ends(s.code) \/ (s.void /\ ~Turns(s.code))
        [] s.k = "block" ->
             /\ s.parent # 0 => prog[s.parent].k # "block"
             /\ \A i, j \in Positions(n) : i < j /\ Leaves(n, i) => Silent(Kid(n, j))

\* The programs that get past compile and the verifier are exactly these: both
\* sides of every if end by leaving it, nothing is emitted after a statement
\* that leaves, no loop body ends by leaving, a function either ends by leaving
\* or (without a value) never turns, a break is in a loop of its own function,
\* and no block is nested directly in another.
CompiledIffTranslatable ==
  status # "compiling" =>
    (status = "compiled" <=> \A n \in DOMAIN prog : Translatable(n))

(***************************************************************************)
(* The code does what the tree says                                        *)
(***************************************************************************)
InstrAt(p) == blocks[p.block].code[p.i]
\* The instruction that is next once jumps are followed: every cycle of a
\* module that compiles has a test in it.
Visible ==
  LET land[b \in DOMAIN blocks] ==
        LET i == blocks[b].code[1] IN IF i.op = "jump" THEN land[i.to[1]] ELSE i
      i == InstrAt(pc)
  IN  IF i.op = "jump" THEN land[i.to[1]] ELSE i
Tree == INSTANCE Structured WITH
  loc <- IF Running THEN [node |-> Visible.node, op |-> Visible.op]
         ELSE IF pc = NotStarted THEN [node |-> 0, op |-> "idle"]
         ELSE [node |-> 0, op |-> "ended"]

\* A program that compiles does what its tree says: statements, tests, updates
\* and returns run in the order of the walk, a test that comes out true goes
\* where the walk goes, and so does one that comes out false.
RunsLikeTheTree == Tree!WalkSpec
=============================================================================
