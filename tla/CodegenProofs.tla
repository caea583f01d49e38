--------------------------- MODULE CodegenProofs ---------------------------
(***************************************************************************)
(* Theorems about Codegen, for every set of programs: its tables have      *)
(* their types, what is stored was allowed, types are complete when they   *)
(* are known, and a list is found by its names.                            *)
(***************************************************************************)
EXTENDS CodegenTasks

(***************************************************************************)
(* What is written                                                         *)
(***************************************************************************)
\* What LLVM accepts was allowed, and instructions are where their nodes are.
CodeFits == \A i \in DOMAIN code : code[i].ok => StoresAllowed(code[i].stores)
CodeHome == \A i \in DOMAIN code : code[i].fn = Home(code[i].node)
CodeKept == CodeTyped /\ CodeFits /\ CodeHome
\* Identifiers are added, and blocks learn them.
IdsGrow == DOMAIN ids \subseteq DOMAIN ids' /\ \A i \in DOMAIN ids : ids'[i] = ids[i]
TypesGrow == IdsGrow /\ \A b \in DOMAIN prog : blockTypes[b] \subseteq blockTypes'[b]

\* The tables of the blocks have what was visited, once.
ScopeKept ==
  /\ \A v \in blockScope : /\ v.node \in Seen(prog, todo) /\ prog[v.node].k = "decl"
                           /\ v.block = EnclosingBlock(v.node) /\ v.name = prog[v.node].name
                           /\ v.fn = Home(v.node)
  /\ \A n \in Seen(prog, todo) : prog[n].k = "decl" => \E v \in blockScope : v.node = n
  /\ \A u, v \in blockScope : u.block = v.block /\ u.name = v.name => u = v
FuncsKept ==
  /\ \A f \in blockFuncs : f.node # Runtime =>
       /\ f.node \in Seen(prog, todo) /\ prog[f.node].k = "function"
       /\ f.block = EnclosingBlock(f.node) /\ f.name = prog[f.node].name
  /\ \A n \in Seen(prog, todo) : prog[n].k = "function" => \E f \in blockFuncs : f.node = n
  /\ \A f, g \in blockFuncs : f.block = g.block /\ f.name = g.name => f = g
\* The types of members that were visited are known where they are.
Knows(names, n) == \E b \in BlocksAbove(prog, n) : Named(b, names) # {}
MembersKnown == \A n \in Seen(prog, todo) : prog[n].k = "member" => Knows(prog[n].types, n)
SeenKept == ScopeKept /\ FuncsKept /\ MembersKnown

\* What was written so far.
Sound == TablesTyped /\ CodeKept /\ SeenKept /\ Control /\ StackTyped
Failed == \E how \in Failures : Fail(how)
Writes == Failed \/ (status' = status /\ TablesTyped' /\ CodeKept' /\ SeenKept')

\* What a step visits.
LEMMA MovesSee ==
  ASSUME TablesTyped, Control, Moves
  PROVE  /\ prog' = prog /\ todo # <<>> /\ Head(todo).n \in DOMAIN prog
         /\ Seen(prog', todo') = Seen(prog, todo) \cup Visited(Head(todo))
         /\ Visited(Head(todo)) \cap Seen(prog, todo) = {} /\ Seen(prog, todo) \subseteq DOMAIN prog
<1>1. PICK ts : TodoFirst(ts) /\ Advance(prog, Head(todo), ts)
  BY DEF Moves
<1>2. prog' = prog /\ todo' = ts \o Tail(todo) /\ todo # <<>>
  BY <1>1 DEF TodoFirst, given, Moves
<1>3. IsProgram(prog) /\ Queue(prog, todo)
  BY ProgTree DEF Control, Controlled
<1>4. /\ Seen(prog, ts \o Tail(todo)) = Seen(prog, todo) \cup Visited(Head(todo))
      /\ Visited(Head(todo)) \cap Seen(prog, todo) = {}
  BY <1>1, <1>2, <1>3, AdvanceStep
<1>5. Head(todo).n \in DOMAIN prog
  BY <1>2, <1>3, QueueParts
<1>6. Seen(prog, todo) \subseteq DOMAIN prog
  BY DEF Seen
<1>. QED BY <1>2, <1>4, <1>5, <1>6

\* What is due for a node is so after its visit.
LEMMA DueSeen ==
  ASSUME TablesTyped, StackTyped, Control, NEW k, NEW n, Due(k, n), k \notin {"visit", "method", "constructor", "finalize"}
  PROVE  n \in Seen(prog, todo)
<1>1. Queue(prog, todo) /\ todo # <<>> /\ Head(todo).t = k /\ Head(todo).n = n /\ n \in DOMAIN prog
  BY DueIs
<1>2. Claims(prog, Head(todo)) = {}
  BY <1>1 DEF Claims
<1>3. /\ Among(todo) = {Head(todo)} \cup Among(Tail(todo))
      /\ \A y \in Among(Tail(todo)) : Order(prog, Head(todo), y)
  BY <1>1, QueueParts
<1>4. \A y \in Among(todo) : n \notin Claims(prog, y)
  BY <1>1, <1>2, <1>3 DEF Order
<1>. QED BY <1>1, <1>4 DEF Seen

\* A step that declares no variable.
LEMMA SameScope ==
  ASSUME TablesTyped, Control, Moves, ScopeKept, blockScope' = blockScope,
         Head(todo).t = "visit" => prog[Head(todo).n].k # "decl"
  PROVE  ScopeKept'
<1>1. prog' = prog /\ Seen(prog', todo') = Seen(prog, todo) \cup Visited(Head(todo))
  BY MovesSee
<1>2. \A n \in Visited(Head(todo)) : prog[n].k # "decl"
  BY DEF Visited
<1>3. \A n : EnclosingBlock(n)' = EnclosingBlock(n) /\ Home(n)' = Home(n)
  BY <1>1 DEF EnclosingBlock, Home
<1>. QED BY <1>1, <1>2, <1>3 DEF ScopeKept

\* A step that declares no function.
LEMMA SameFuncs ==
  ASSUME TablesTyped, Control, Moves, FuncsKept, blockFuncs' = blockFuncs,
         Head(todo).t = "visit" => prog[Head(todo).n].k # "function"
  PROVE  FuncsKept'
<1>1. prog' = prog /\ Seen(prog', todo') = Seen(prog, todo) \cup Visited(Head(todo))
  BY MovesSee
<1>2. \A n \in Visited(Head(todo)) : prog[n].k # "function"
  BY DEF Visited
<1>3. \A n : EnclosingBlock(n)' = EnclosingBlock(n)
  BY <1>1 DEF EnclosingBlock
<1>. QED BY <1>1, <1>2, <1>3 DEF FuncsKept

\* A type that is known somewhere stays known there.
LEMMA KnowsMore ==
  ASSUME TablesTyped, TypesGrow, prog' = prog, NEW n \in DOMAIN prog, NEW names, Knows(names, n)
  PROVE  Knows(names, n)'
<1>1. PICK b \in BlocksAbove(prog, n) : Named(b, names) # {}
  BY DEF Knows
<1>2. PICK i \in blockTypes[b] : ids[i].names = names
  BY <1>1 DEF Named
<1>3. b \in DOMAIN prog /\ i \in DOMAIN ids
  BY NearestAbove DEF TablesTyped, BlocksTyped
<1>4. i \in blockTypes'[b] /\ ids'[i].names = names
  BY <1>2, <1>3 DEF TypesGrow, IdsGrow
<1>. QED BY <1>1, <1>4 DEF Knows, Named

\* A step that visits no member of an unknown type.
LEMMA SameMembers ==
  ASSUME TablesTyped, Control, Moves, MembersKnown, TypesGrow,
         Head(todo).t = "visit" /\ prog[Head(todo).n].k = "member" => Knows(prog[Head(todo).n].types, Head(todo).n)
  PROVE  MembersKnown'
<1>1. /\ prog' = prog /\ Seen(prog', todo') = Seen(prog, todo) \cup Visited(Head(todo))
      /\ Seen(prog, todo) \subseteq DOMAIN prog /\ Head(todo).n \in DOMAIN prog
  BY MovesSee
<1>2. ASSUME NEW n \in Seen(prog', todo'), prog[n].k = "member" PROVE Knows(prog[n].types, n)'
  <2>1. Knows(prog[n].types, n) /\ n \in DOMAIN prog
    BY <1>1, <1>2 DEF MembersKnown, Visited
  <2>. DEFINE names == prog[n].types
  <2>2. Knows(names, n)
    BY <2>1
  <2>31. prog'[n].types = names
    BY <1>1
  <2>. HIDE DEF names
  <2>4. \A x : \A m \in DOMAIN prog : Knows(x, m) => \E b \in BlocksAbove(prog', m) : {i \in blockTypes'[b] : ids'[i].names = x} # {}
    BY <1>1, KnowsMore DEF Knows, Named
  <2>5. \E b \in BlocksAbove(prog', n) : {i \in blockTypes'[b] : ids'[i].names = names} # {}
    BY <2>1, <2>2, <2>4
  <2>. QED BY <2>31, <2>5 DEF Knows, Named
<1>. QED BY <1>1, <1>2 DEF MembersKnown

\* One that is no visit of what the tables are of.
LEMMA SameSeen ==
  ASSUME Sound, Moves, UNCHANGED <<blockScope, blockFuncs>>, TypesGrow,
         Head(todo).t = "visit" => prog[Head(todo).n].k \notin {"decl", "function", "member"}
  PROVE  SeenKept'
<1>1. TablesTyped /\ Control /\ ScopeKept /\ FuncsKept /\ MembersKnown
  BY DEF Sound, SeenKept
<1>2. ScopeKept'
  BY <1>1, SameScope
<1>3. FuncsKept'
  BY <1>1, SameFuncs
<1>4. MembersKnown'
  BY <1>1, SameMembers
<1>. QED BY <1>2, <1>3, <1>4 DEF SeenKept

\* An instruction of a good value fits.
LEMMA InstructionIs ==
  ASSUME TablesTyped, NEW op \in Ops, NEW n \in DOMAIN prog, NEW f \in 1..(2 * Len(prog)), NEW v, Good(v)
  PROVE  LET c == [op |-> op, node |-> n, fn |-> f, ok |-> v.ok, uses |-> v.uses, stores |-> v.stores, words |-> v.words]
         IN  c \in Instruction /\ (c.ok => StoresAllowed(c.stores)) /\ c.fn = f /\ c.node = n
BY DEF Instruction, Good, Values

\* What identifiers say of a store does not change when others are added.
LEMMA AllowedStays ==
  ASSUME IdsGrow, NEW s \in StoreSet, TypeFits(s) \/ LeftToTheCheck(s)
  PROVE  TypeFits(s)' \/ LeftToTheCheck(s)'
<1>1. ids'[s.ty] = ids[s.ty] /\ ids'[s.allows] = ids[s.allows]
  BY DEF StoreSet, IdsGrow
<1>. QED BY <1>1 DEF TypeFits, LeftToTheCheck

\* A step that inserts nothing.
LEMMA CodeSame ==
  ASSUME TablesTyped, CodeKept, prog' = prog, IdsGrow, code' = code
  PROVE  CodeKept'
<1>1. StoreSet \subseteq StoreSet'
  BY DEF StoreSet, IdsGrow
<1>2. Instruction \subseteq Instruction'
  <2>1. SUBSET StoreSet \subseteq SUBSET (StoreSet')
    BY <1>1
  <2>2. Instruction' = [op : Ops, node : DOMAIN prog, fn : 1..(2 * Len(prog)), ok : BOOLEAN, uses : SUBSET Uses,
                        stores : SUBSET (StoreSet'), words : SUBSET Nat]
    BY DEF Instruction
  <2>. HIDE DEF StoreSet
  <2>. QED BY <2>1, <2>2 DEF Instruction
<1>3. CodeTyped'
  <2>1. code \in Seq(Instruction)
    BY DEF CodeKept, CodeTyped
  <2>. DEFINE A == Instruction
              B == Instruction'
  <2>. HIDE DEF A, B
  <2>2. A \subseteq B /\ code \in Seq(A)
    BY <1>2, <2>1 DEF A, B
  <2>3. code \in Seq(B)
    BY <2>2
  <2>. QED BY <2>3 DEF CodeTyped, B
<1>4. \A i \in DOMAIN code : code[i].stores \subseteq StoreSet
  <2>1. \A i \in DOMAIN code : code[i] \in Instruction
    <3>. HIDE DEF Instruction
    <3>. QED BY DEF CodeKept, CodeTyped
  <2>. QED BY <2>1 DEF Instruction
<1>5. CodeFits'
  <2>1. \A s \in StoreSet : TypeFits(s) \/ LeftToTheCheck(s) => TypeFits(s)' \/ LeftToTheCheck(s)'
    BY AllowedStays
  <2>2. \A i \in DOMAIN code : code[i].ok => \A s \in code[i].stores : TypeFits(s) \/ LeftToTheCheck(s)
    BY DEF CodeKept, CodeFits, StoresAllowed
  <2>3. \A i \in DOMAIN code : code[i].ok => \A s \in code[i].stores : TypeFits(s)' \/ LeftToTheCheck(s)'
    BY <1>4, <2>1, <2>2
  <2>. QED BY <2>3 DEF CodeFits, StoresAllowed
<1>6. CodeHome'
  BY DEF CodeKept, CodeHome, Home
<1>. QED BY <1>3, <1>5, <1>6 DEF CodeKept

\* An instruction more.
LEMMA CodeAdds ==
  ASSUME Sound, prog' = prog, IdsGrow, NEW c, c \in Instruction, c.ok => StoresAllowed(c.stores), c.fn = Home(c.node),
         code' = Append(code, c), ids' = ids
  PROVE  CodeKept'
<1>1. CodeKept /\ code \in Seq(Instruction)
  BY DEF Sound, CodeKept, CodeTyped
<1>2. Instruction' = Instruction
  BY DEF Instruction, StoreSet
<1>3. \A S : StoresAllowed(S)' = StoresAllowed(S)
  BY DEF StoresAllowed, TypeFits, LeftToTheCheck
<1>4. \A n : Home(n)' = Home(n)
  BY DEF Home
<1>. DEFINE A == Instruction
            d == Append(code, c)
<1>. HIDE DEF A
<1>5. code \in Seq(A) /\ c \in A
  BY <1>1 DEF A
<1>6. d \in Seq(A) /\ \A i \in DOMAIN d : (i \in DOMAIN code /\ d[i] = code[i]) \/ d[i] = c
  BY <1>5
<1>. HIDE DEF d
<1>7. code' = d
  BY DEF d
<1>8. CodeTyped'
  BY <1>2, <1>6, <1>7 DEF CodeTyped, A
<1>9. \A i \in DOMAIN d : d[i].ok => StoresAllowed(d[i].stores)
  BY <1>1, <1>6 DEF CodeKept, CodeFits
<1>10. \A i \in DOMAIN d : d[i].fn = Home(d[i].node)
  BY <1>1, <1>6 DEF CodeKept, CodeHome
<1>11. CodeFits'
  BY <1>3, <1>7, <1>9 DEF CodeFits
<1>12. CodeHome'
  BY <1>4, <1>7, <1>10 DEF CodeHome
<1>. QED BY <1>8, <1>11, <1>12 DEF CodeKept

\* One of node n, in the function it is of.
LEMMA CodeInserts ==
  ASSUME Sound, prog' = prog, ids' = ids, NEW op \in Ops, NEW n \in DOMAIN prog, NEW f, f = Home(n), NEW v, Good(v),
         code' = InsertedIn(f, op, n, v)
  PROVE  CodeKept'
<1>1. f \in 1..(2 * Len(prog))
  BY ProgTree, HomeStep DEF Home, Sound
<1>. DEFINE c == [op |-> op, node |-> n, fn |-> f, ok |-> v.ok, uses |-> v.uses, stores |-> v.stores, words |-> v.words]
<1>2. c \in Instruction /\ (c.ok => StoresAllowed(c.stores)) /\ c.fn = Home(c.node)
  BY <1>1, InstructionIs DEF Sound
<1>3. code' = Append(code, c)
  BY DEF InsertedIn
<1>4. IdsGrow
  BY DEF IdsGrow
<1>. HIDE DEF c
<1>. QED BY <1>2, <1>3, <1>4, CodeAdds

\* A step that leaves the tables as they are.
LEMMA SameTables ==
  ASSUME TablesTyped, UNCHANGED <<prog, tables>>
  PROVE  TablesTyped' /\ TypesGrow
<1>1. IdsTyped' /\ BlocksTyped' /\ DataTyped' /\ ScopeTyped'
  BY DEF TablesTyped, tables, IdsTyped, BlocksTyped, DataTyped, DataSet, ScopeTyped
<1>2. SignaturesTyped' /\ FuncsTyped'
  BY DEF TablesTyped, tables, SignaturesTyped, FuncsTyped, Callable
<1>. QED BY <1>1, <1>2 DEF TablesTyped, tables, TypesGrow, IdsGrow

\* The function a node's own code goes to.
LEMMA OwnHome ==
  ASSUME TablesTyped, StackTyped, Control, NEW k, NEW n, Due(k, n),
         \/ k \in {"initialize", "condition", "update", "initMember", "static", "endConstructor"}
         \/ k = "visit" /\ prog[n].k \in {"decl", "expr", "return"}
  PROVE  at = Home(n)
<1>1. at = Where(prog, Head(todo)) /\ Head(todo).t = k /\ Head(todo).n = n /\ n \in DOMAIN prog /\ IsProgram(prog)
  BY DueIs
<1>2. CASE k = "visit"
  <2>1. ~Headed(prog, n) /\ ~Initialised(prog, n)
    BY <1>2 DEF Headed, Initialised
  <2>. QED BY <1>1, <1>2, <2>1, WhereOwn DEF Home
<1>3. CASE k # "visit"
  BY <1>1, <1>3 DEF Where, Home
<1>. QED BY <1>2, <1>3

\* A visit, or a rest of one, that inserts the instructions of a value.
LEMMA InsertWrites ==
  ASSUME Sound, Moves \/ Idle, NEW k, NEW n, Due(k, n),
         \/ k \in {"initialize", "condition", "update", "initMember", "static"}
         \/ k = "visit" /\ prog[n].k \in {"expr", "return"},
         NEW op \in Ops, NEW v, Result(v), Insert(op, n, v)
  PROVE  Writes
<1>1. CASE v.how # "ok"
  BY <1>1, ResultIs DEF Insert, Writes, Failed
<1>2. CASE v.how = "ok"
  <2>1. Good(v) /\ code' = InsertedIn(at, op, n, v) /\ TodoFirst(<<>>) /\ UNCHANGED <<tables, place, status>>
    BY <1>2, ResultIs DEF Insert, Inserted
  <2>2. TablesTyped /\ StackTyped /\ Control
    BY DEF Sound
  <2>3. n \in DOMAIN prog /\ Head(todo).t = k /\ Head(todo).n = n /\ at = Home(n)
    BY <2>2, DueIs, OwnHome
  <2>4. prog' = prog /\ ids' = ids /\ UNCHANGED <<blockScope, blockFuncs>>
    BY <2>1 DEF tables, TodoFirst, given
  <2>5. CodeKept'
    BY <2>1, <2>3, <2>4, CodeInserts
  <2>6. TablesTyped' /\ TypesGrow
    BY <2>1, <2>2, <2>4, SameTables
  <2>7. ~Idle
    <3>1. code' # code
      <4>. DEFINE c == [op |-> op, node |-> n, fn |-> at, ok |-> v.ok, uses |-> v.uses, stores |-> v.stores, words |-> v.words]
      <4>1. code' = Append(code, c)
        BY <2>1 DEF InsertedIn
      <4>2. code \in Seq(Instruction)
        BY DEF Sound, CodeKept, CodeTyped
      <4>. HIDE DEF c
      <4>3. Len(Append(code, c)) = Len(code) + 1 /\ Len(code) \in Nat
        BY <4>2
      <4>. QED BY <4>1, <4>3
    <3>. QED BY <3>1 DEF Idle
  <2>8. SeenKept'
    BY <2>3, <2>4, <2>6, <2>7, SameSeen
  <2>. QED BY <2>1, <2>5, <2>6, <2>8 DEF Writes
<1>. QED BY <1>1, <1>2

\* When nothing changes, what was written is still sound.
LEMMA IdleWrites ==
  ASSUME Sound, Idle
  PROVE  TablesTyped' /\ CodeKept' /\ SeenKept'
<1>1. prog' = prog /\ ids' = ids /\ code' = code /\ todo' = todo /\ UNCHANGED <<tables, given, blockScope, blockFuncs, blockTypes>>
  BY DEF Idle, given, tables
<1>2. TablesTyped' /\ TypesGrow
  BY <1>1, SameTables DEF Sound
<1>3. CodeKept'
  BY <1>1, CodeSame DEF Sound, IdsGrow
<1>4. \A n : EnclosingBlock(n)' = EnclosingBlock(n) /\ Home(n)' = Home(n)
  BY <1>1 DEF EnclosingBlock, Home
<1>5. ScopeKept' /\ FuncsKept'
  BY <1>1, <1>4 DEF ScopeKept, FuncsKept, Sound, SeenKept
<1>6. MembersKnown'
  BY <1>1 DEF MembersKnown, Knows, Named, Sound, SeenKept
<1>. QED BY <1>2, <1>3, <1>5, <1>6 DEF SeenKept

\* What a step has to show of what it writes.
LEMMA Writing ==
  ASSUME Sound, Moves \/ Idle, status' = status, Moves => TablesTyped' /\ CodeKept' /\ SeenKept'
  PROVE  Writes
BY IdleWrites DEF Writes

\* What is due, while what was written is sound.
LEMMA DueNow ==
  ASSUME Sound, NEW k, NEW n, Due(k, n)
  PROVE  /\ TablesTyped /\ StackTyped /\ Control /\ IdsTyped
         /\ n \in DOMAIN prog /\ Head(todo).t = k /\ Head(todo).n = n /\ todo # <<>>
         /\ Fits(prog, Head(todo)) /\ IsProgram(prog) /\ at \in 1..(2 * Len(prog))
<1>1. TablesTyped /\ StackTyped /\ Control
  BY DEF Sound
<1>2. at \in 1..(2 * Len(prog))
  BY <1>1 DEF StackTyped, Stacks
<1>. QED BY <1>1, <1>2, DueIs DEF TablesTyped

\* A visit that changes no table, and inserts nothing.
LEMMA PlainWrites ==
  ASSUME Sound, Moves, UNCHANGED <<tables, code>>,
         Head(todo).t = "visit" => prog[Head(todo).n].k \notin {"decl", "function", "member"}
  PROVE  TablesTyped' /\ CodeKept' /\ SeenKept'
<1>1. prog' = prog /\ TablesTyped /\ Control
  BY MovesSee DEF Sound
<1>2. TablesTyped' /\ TypesGrow /\ IdsGrow
  BY <1>1, SameTables DEF TypesGrow
<1>3. code' = code /\ UNCHANGED <<blockScope, blockFuncs>>
  BY DEF tables
<1>4. CodeKept'
  BY <1>1, <1>2, <1>3, CodeSame DEF Sound
<1>5. SeenKept'
  BY <1>2, <1>3, SameSeen
<1>. QED BY <1>2, <1>4, <1>5

\* Steps that only say what is next.
LEMMA StepsWrite ==
  ASSUME Sound, Moves \/ Idle, NEW n,
         VisitBlock(n) \/ VisitBranch(n) \/ VisitLoop(n) \/ EndFunction(n) \/ EndInit(n) \/ MethodBody(n)
  PROVE  Writes
<1>1. UNCHANGED <<tables, code>> /\ status' = status
  BY DEF VisitBlock, VisitBranch, VisitLoop, EndFunction, EndInit, MethodBody
<1>2. Head(todo).t = "visit" => prog[Head(todo).n].k \notin {"decl", "function", "member"}
  BY DEF VisitBlock, VisitBranch, VisitLoop, EndFunction, EndInit, MethodBody, DueVisit, Due
<1>. QED BY <1>1, <1>2, PlainWrites, Writing

\* One that changes no table, and inserts instructions of its node.
LEMMA InsertedWrites ==
  ASSUME Sound, Moves, UNCHANGED tables, NEW op \in Ops, NEW n \in DOMAIN prog, NEW f, f = Home(n), NEW v, Good(v),
         code' = code \/ code' = InsertedIn(f, op, n, v),
         Head(todo).t = "visit" => prog[Head(todo).n].k \notin {"decl", "function", "member"}
  PROVE  TablesTyped' /\ CodeKept' /\ SeenKept'
<1>1. prog' = prog /\ TablesTyped /\ Control
  BY MovesSee DEF Sound
<1>2. TablesTyped' /\ TypesGrow /\ IdsGrow
  BY <1>1, SameTables DEF TypesGrow
<1>3. ids' = ids /\ UNCHANGED <<blockScope, blockFuncs>>
  BY DEF tables
<1>4. CodeKept'
  BY <1>1, <1>2, <1>3, CodeSame, CodeInserts DEF Sound
<1>5. SeenKept'
  BY <1>2, <1>3, SameSeen
<1>. QED BY <1>2, <1>4, <1>5

\* A value without type.
LEMMA PlainIs ==
  ASSUME TablesTyped, NEW ok \in BOOLEAN
  PROVE  Good(Plain(ok))
<1>1. 5 \in DOMAIN ids
  BY IdsAre DEF TablesTyped
<1>2. NoValue \in Lts
  BY DEF NoValue, Lt, Lts, Void
<1>3. Good(Value(Void, NoValue))
  BY <1>1, <1>2, ValueIs DEF Void
<1>. DEFINE v == Value(Void, NoValue)
<1>4. Good([v EXCEPT !.ok = ok])
  <2>1. v \in Values /\ v.stores = {}
    BY <1>1, <1>2, <1>3, ValueIs DEF Good, Void
  <2>. HIDE DEF v
  <2>. QED BY <2>1 DEF Good, Values, StoresAllowed
<1>. QED BY <1>4 DEF Plain

\* Constructors begin with a call of the initialiser and end with a return.
LEMMA BodiesWrite ==
  ASSUME Sound, Moves \/ Idle, NEW n, ConstructorBody(n) \/ EndConstructor(n)
  PROVE  Writes
<1>1. CASE ConstructorBody(n)
  <2>1. /\ Due("constructor", n) /\ UNCHANGED <<tables, status>>
        /\ code' = code \/ code' = InsertedIn(n, "callInit", n, Plain(TRUE))
    BY <1>1 DEF ConstructorBody
  <2>2. n \in DOMAIN prog /\ IsProgram(prog) /\ TablesTyped /\ Head(todo).t = "constructor" /\ Fits(prog, Head(todo)) /\ Head(todo).n = n
    BY <2>1, DueNow
  <2>3. prog[n].k = "constructor"
    BY <2>2 DEF Fits
  <2>4. n = Home(n)
    BY <2>2, <2>3, HomeStep DEF Headed, Home
  <2>5. Good(Plain(TRUE)) /\ "callInit" \in Ops
    BY <2>2, PlainIs DEF Ops
  <2>. DEFINE v == Plain(TRUE)
  <2>. HIDE DEF v
  <2>6. Good(v) /\ (code' = code \/ code' = InsertedIn(n, "callInit", n, v))
    BY <2>1, <2>5 DEF v
  <2>7. Moves => TablesTyped' /\ CodeKept' /\ SeenKept'
    BY <2>1, <2>2, <2>4, <2>5, <2>6, InsertedWrites
  <2>. QED BY <2>1, <2>7, Writing
<1>2. CASE EndConstructor(n)
  <2>. DEFINE ok == \A b \in Leaving(prog) : prog[b].parent # n
              v == Plain(ok)
  <2>1. /\ Due("endConstructor", n) /\ UNCHANGED <<tables, status>>
        /\ code' = InsertedIn(at, "return", n, v)
    BY <1>2 DEF EndConstructor, Inserted
  <2>2. n \in DOMAIN prog /\ IsProgram(prog) /\ TablesTyped /\ StackTyped /\ Control /\ Head(todo).t = "endConstructor" /\ Head(todo).n = n
    BY <2>1, DueNow
  <2>4. at = Home(n)
    BY <2>1, <2>2, OwnHome
  <2>5. Good(v) /\ "return" \in Ops
    <3>1. ok \in BOOLEAN
      OBVIOUS
    <3>. HIDE DEF ok
    <3>. QED BY <2>2, <3>1, PlainIs DEF Ops
  <2>. HIDE DEF v
  <2>7. Moves => TablesTyped' /\ CodeKept' /\ SeenKept'
    BY <2>1, <2>2, <2>4, <2>5, InsertedWrites
  <2>. QED BY <2>1, <2>7, Writing
<1>. QED BY <1>1, <1>2

(***************************************************************************)
(* Values, statement by statement                                          *)
(***************************************************************************)
LEMMA ThenIs ==
  ASSUME NEW v, Result(v), NEW r, v.how = "ok" => Result(r)
  PROVE  Result(Then(v, r))
BY DEF Then

\* A value is a result.
LEMMA ValueResult ==
  ASSUME NEW ty \in DOMAIN ids, NEW lt \in Lts
  PROVE  Result(Value(ty, lt))
BY ValueIs DEF Result

\* The expressions of a node.
LEMMA NodeExpressions ==
  ASSUME Sound, NEW n \in DOMAIN prog
  PROVE  /\ prog[n].e # None => Result(CompileExpression(prog[n].e, n))
         /\ prog[n].update # None => Result(CompileExpression(prog[n].update, n))
         /\ prog[n].k = "expr" => prog[n].e # None
<1>1. TablesTyped /\ StackTyped
  BY DEF Sound
<1>2. IsExpression(prog[n].e) /\ IsExpression(prog[n].update) /\ (prog[n].k = "expr" => prog[n].e # None)
  BY <1>1, ProgTree, ProgramFacts DEF Complete
<1>. QED BY <1>1, <1>2, ExpressionIs

\* An optional expression yields a result.
LEMMA OptionalIs ==
  ASSUME Sound, NEW n \in DOMAIN prog
  PROVE  Result(Optional(prog[n].e, n)) /\ Result(Optional(prog[n].update, n))
<1>1. Boolean \in DOMAIN ids /\ Lt(0, Boolean) \in Lts
  BY IdsAre DEF Sound, TablesTyped, Boolean, Lt, Lts
<1>2. Result(Value(Boolean, Lt(0, Boolean)))
  BY <1>1, ValueResult
<1>. QED BY <1>2, NodeExpressions DEF Optional

\* What a condition tests yields a result.
LEMMA TestedIs ==
  ASSUME NEW v, Good(v)
  PROVE  Result(Tested(v))
<1>1. CASE v.ty = Boolean
  <2>. DEFINE ok == v.ok /\ v.here /\ IsA(v, Boolean)
  <2>1. Tested(v) = [v EXCEPT !.ok = ok]
    BY <1>1 DEF Tested
  <2>2. ok \in BOOLEAN /\ (ok => v.ok)
    BY DEF Good, Values
  <2>. HIDE DEF ok
  <2>3. Good([v EXCEPT !.ok = ok])
    BY <2>2 DEF Good, Values
  <2>. QED BY <2>1, <2>3 DEF Result
<1>2. CASE v.ty # Boolean
  BY <1>2, ThrownIs DEF Tested, Failures, Errors
<1>. QED BY <1>1, <1>2

\* A value stored into a place of a type.
LEMMA CheckedIs ==
  ASSUME Sound, NEW v, Good(v), NEW ty \in DOMAIN ids, NEW of \in Int, NEW boxed \in BOOLEAN
  PROVE  Result(CheckedStore(<<v>>, Value(ty, Lt(1, of)), v, boxed))
<1>1. Lt(1, of) \in Lts
  BY DEF Lt, Lts
<1>. DEFINE to == Value(ty, Lt(1, of))
            lt == Lt(1, of)
            ops == <<v>>
<1>2. to.ty = ty /\ to.lt = lt
  BY <1>1, ValueIs
<1>3. AllGood(ops)
  BY DEF AllGood
<1>4. to.ty \in DOMAIN ids /\ to.lt \in Lts
  BY <1>1, <1>2
<1>. HIDE DEF to, lt, ops
<1>5. Result(CheckedStore(ops, to, v, boxed))
  BY <1>3, <1>4, StoreIs DEF Sound, TablesTyped
<1>. QED BY <1>5 DEF to, ops

\* The variable a declaration made.
LEMMA VariableOf ==
  ASSUME Sound, NEW n \in Seen(prog, todo), prog[n].k = "decl"
  PROVE  LET var == CHOOSE v \in blockScope : v.node = n IN
         var \in blockScope /\ var.node = n /\ var.ty \in DOMAIN ids
<1>1. \E v \in blockScope : v.node = n
  BY DEF Sound, SeenKept, ScopeKept
<1>. DEFINE var == CHOOSE v \in blockScope : v.node = n
<1>2. var \in blockScope /\ var.node = n
  BY <1>1
<1>. HIDE DEF var
<1>3. var.ty \in DOMAIN ids
  BY <1>2 DEF Sound, TablesTyped, ScopeTyped
<1>. QED BY <1>2, <1>3 DEF var

\* The initialisation of a variable.
LEMMA InitializeWrites ==
  ASSUME Sound, Moves \/ Idle, NEW n, Initialize(n)
  PROVE  Writes
<1>. DEFINE var == CHOOSE v \in blockScope : v.node = n
            to == Value(var.ty, Lt(1, Base(var.ty)))
            v == CompileExpression(prog[n].e, n)
            r == CheckedStore(<<v>>, to, v, IsList(ids[var.ty]))
<1>1. Due("initialize", n) /\ Insert("expr", n, Then(v, r))
  BY DEF Initialize
<1>2. TablesTyped /\ StackTyped /\ Control /\ IdsTyped /\ n \in DOMAIN prog /\ prog[n].k = "decl" /\ prog[n].e # None
  BY <1>1, DueNow DEF Fits
<1>3. n \in Seen(prog, todo)
  BY <1>1, <1>2, DueSeen
<1>4. var.ty \in DOMAIN ids
  BY <1>2, <1>3, VariableOf
<1>5. Result(v)
  BY <1>2, NodeExpressions
<1>6. Base(var.ty) \in Int /\ IsList(ids[var.ty]) \in BOOLEAN
  BY <1>2, <1>4, BaseIs DEF IsList
<1>7. v.how = "ok" => Result(r)
  <2>. HIDE DEF v, var
  <2>. QED BY <1>4, <1>5, <1>6, ResultIs, CheckedIs
<1>. DEFINE w == Then(v, r)
<1>8. Result(w) /\ "expr" \in Ops /\ Insert("expr", n, w)
  <2>. HIDE DEF v, r
  <2>. QED BY <1>1, <1>5, <1>7, ThenIs DEF Ops
<1>. HIDE DEF w
<1>. QED BY <1>1, <1>8, InsertWrites

\* Conditions, updates and expressions that stand alone.
LEMMA ConditionWrites ==
  ASSUME Sound, Moves \/ Idle, NEW n, Condition(n) \/ Update(n) \/ VisitExpression(n)
  PROVE  Writes
<1>0. "expr" \in Ops
  BY DEF Ops
<1>1. CASE Condition(n)
  <2>. DEFINE v == Optional(prog[n].e, n)
              w == Then(v, Tested(v))
  <2>1. Due("condition", n) /\ Insert("expr", n, w)
    BY <1>1 DEF Condition
  <2>2. Result(v)
    BY <2>1, DueNow, OptionalIs
  <2>. HIDE DEF v
  <2>3. Result(w)
    BY <2>2, ResultIs, TestedIs, ThenIs
  <2>. HIDE DEF w
  <2>. QED BY <1>0, <2>1, <2>3, InsertWrites
<1>2. CASE Update(n)
  <2>. DEFINE v == Optional(prog[n].update, n)
  <2>1. Due("update", n) /\ Insert("expr", n, v)
    BY <1>2 DEF Update
  <2>2. Result(v)
    BY <2>1, DueNow, OptionalIs
  <2>. HIDE DEF v
  <2>. QED BY <1>0, <2>1, <2>2, InsertWrites
<1>3. CASE VisitExpression(n)
  <2>. DEFINE v == CompileExpression(prog[n].e, n)
  <2>1. Due("visit", n) /\ prog[n].k = "expr" /\ Insert("expr", n, v)
    BY <1>3 DEF VisitExpression, DueVisit
  <2>2. Result(v)
    BY <2>1, DueNow, NodeExpressions
  <2>. HIDE DEF v
  <2>. QED BY <1>0, <2>1, <2>2, InsertWrites
<1>. QED BY <1>1, <1>2, <1>3

\* The type of a member that was visited is found.
LEMMA MemberType ==
  ASSUME Sound, NEW n \in Seen(prog, todo), prog[n].k = "member"
  PROVE  TypeIdFromInfo(prog[n].types, n) \in DOMAIN ids
<1>1. TablesTyped /\ n \in DOMAIN prog
  BY DEF Sound, Seen
<1>2. Knows(prog[n].types, n)
  BY DEF Sound, SeenKept, MembersKnown
<1>. DEFINE i == TypeIdFromInfo(prog[n].types, n)
<1>3. i # 0
  BY <1>1, <1>2, FoundByName DEF Knows
<1>. QED BY <1>1, <1>3, FoundByName

\* What a member is initialised with yields a result.
LEMMA InitialisationIs ==
  ASSUME Sound, NEW n \in Seen(prog, todo), prog[n].k = "member", prog[n].e # None, NEW of \in Int
  PROVE  Result(Initialisation(n, of))
<1>1. n \in DOMAIN prog
  BY DEF Seen
<1>. DEFINE v == CompileExpression(prog[n].e, n)
            ty == TypeIdFromInfo(prog[n].types, n)
            r == CheckedStore(<<v>>, Value(ty, Lt(1, of)), v, FALSE)
<1>2. Result(v) /\ ty \in DOMAIN ids
  BY <1>1, NodeExpressions, MemberType
<1>3. v.how = "ok" => Result(r)
  <2>. HIDE DEF v, ty
  <2>. QED BY <1>2, ResultIs, CheckedIs
<1>4. Initialisation(n, of) = Then(v, r)
  BY DEF Initialisation
<1>. HIDE DEF v, r
<1>. QED BY <1>2, <1>3, <1>4, ThenIs

\* The field that is listed for a member.
LEMMA FieldIs ==
  ASSUME Sound, NEW n \in Seen(prog, todo), prog[n].k = "member", ~prog[n].static
  PROVE  Field(n).of \in Nat /\ Field(n).node = n
<1>1. TablesTyped /\ Control /\ n \in DOMAIN prog
  BY DEF Sound, Seen
<1>. DEFINE t == TypeOf(n)
            members == tyData[t].members
<1>2. t \in DOMAIN prog /\ prog[t].k = "type" /\ prog[n].parent = t
  BY <1>1, ChildOfType DEF TypeOf
<1>3. prog[n].static = FALSE
  BY <1>1, ProgTree, ProgramFacts DEF TreeNodes
<1>4. Listed(prog, todo, tyData[t], t)
  BY <1>1, <1>2 DEF Control, Controlled, TypesKept
<1>5. n \in MembersOf(prog, todo, t, "member", FALSE)
  BY <1>2, <1>3 DEF MembersOf
<1>6. \E i \in DOMAIN FieldNodes(members) : FieldNodes(members)[i] = n
  BY <1>4, <1>5 DEF Listed, AscendsTo
<1>7. \E i \in DOMAIN members : members[i].node = n
  BY <1>6 DEF FieldNodes
<1>8. members \in Seq([node : DOMAIN prog, of : Nat])
  BY <1>1, <1>2, DataIs DEF DataSet
<1>. DEFINE F == [node : DOMAIN prog, of : Nat]
<1>81. members \in Seq(F)
  BY <1>8
<1>. DEFINE i == CHOOSE i \in DOMAIN members : members[i].node = n
<1>9. Field(n) = members[i] /\ i \in DOMAIN members /\ members[i].node = n
  BY <1>7 DEF Field
<1>. HIDE DEF i, members
<1>10. members[i] \in F
  <2>. HIDE DEF F
  <2>. QED BY <1>81, <1>9
<1>. QED BY <1>9, <1>10

\* The initialisation of members of both kinds.
LEMMA MembersWrite ==
  ASSUME Sound, Moves \/ Idle, NEW n, InitMember(n) \/ StaticMember(n)
  PROVE  Writes
<1>1. CASE InitMember(n)
  <2>. DEFINE of == Field(n).of
              v == Initialisation(n, of)
  <2>1. Due("initMember", n) /\ Insert("initMember", n, v)
    BY <1>1 DEF InitMember
  <2>2. TablesTyped /\ StackTyped /\ Control /\ prog[n].k = "member" /\ ~prog[n].static /\ prog[n].e # None
    BY <2>1, DueNow DEF Fits
  <2>3. n \in Seen(prog, todo)
    BY <2>1, <2>2, DueSeen
  <2>4. of \in Int
    BY <2>2, <2>3, FieldIs
  <2>. HIDE DEF of
  <2>5. Result(v) /\ "initMember" \in Ops
    BY <2>2, <2>3, <2>4, InitialisationIs DEF Ops
  <2>. HIDE DEF v
  <2>. QED BY <2>1, <2>5, InsertWrites
<1>2. CASE StaticMember(n)
  <2>. DEFINE of == Base(TypeIdFromInfo(prog[n].types, n))
              v == IF prog[n].e = None THEN Plain(FALSE) ELSE Initialisation(n, of)
              r == [v EXCEPT !.ok = FALSE]
              w == Then(v, r)
  <2>1. Due("static", n) /\ Insert("static", n, w)
    BY <1>2 DEF StaticMember
  <2>2. TablesTyped /\ StackTyped /\ Control /\ prog[n].k = "member" /\ IdsTyped
    BY <2>1, DueNow DEF Fits
  <2>3. n \in Seen(prog, todo)
    BY <2>1, <2>2, DueSeen
  <2>4. of \in Int
    BY <2>2, <2>3, MemberType, BaseIs
  <2>. HIDE DEF of
  <2>5. Result(v)
    <3>1. CASE prog[n].e = None
      <4>. DEFINE no == FALSE
      <4>1. no \in BOOLEAN
        OBVIOUS
      <4>. HIDE DEF no
      <4>2. Good(Plain(no))
        BY <2>2, <4>1, PlainIs
      <4>3. Good(Plain(FALSE))
        BY <4>2 DEF no
      <4>. QED BY <3>1, <4>3 DEF Result
    <3>2. CASE prog[n].e # None
      BY <2>2, <2>3, <2>4, <3>2, InitialisationIs
    <3>. QED BY <3>1, <3>2
  <2>. HIDE DEF v
  <2>6. v.how = "ok" => Result(r)
    <3>. SUFFICES ASSUME v.how = "ok" PROVE Result(r)
      OBVIOUS
    <3>1. v \in Values
      BY <2>5, ResultIs DEF Good
    <3>2. r \in Values /\ ~r.ok
      BY <3>1 DEF Values
    <3>. QED BY <3>2 DEF Result, Good
  <2>. HIDE DEF r
  <2>7. Result(w) /\ "static" \in Ops
    BY <2>5, <2>6, ThenIs DEF Ops
  <2>. HIDE DEF w
  <2>. QED BY <2>1, <2>7, InsertWrites
<1>. QED BY <1>1, <1>2

\* A good value of another LLVM type, if that is accepted.
LEMMA RecastIs ==
  ASSUME NEW v, Good(v), NEW lt \in Lts, NEW ok \in BOOLEAN, ok => v.ok
  PROVE  Good([v EXCEPT !.ok = ok, !.lt = lt]) /\ [v EXCEPT !.ok = ok, !.lt = lt].ty = v.ty
BY DEF Good, Values

\* What was returned.
LEMMA ReturnedIs ==
  ASSUME NEW v, Good(v), NEW ret \in Int
  PROVE  Good(ReturnedValue(v, ret)) /\ ReturnedValue(v, ret).ty = v.ty
<1>. DEFINE here == v.ok /\ v.here
            loaded == v.ok /\ v.here /\ v.lt = Lt(1, ret)
            lt == Lt(0, ret)
            l == Load(v)
<1>1. here \in BOOLEAN /\ loaded \in BOOLEAN /\ v.lt \in Lts
  BY DEF Good, Values
<1>2. lt \in Lts
  BY DEF Lt, Lts
<1>3. Good(l) /\ l.ok = v.ok /\ l.ty = v.ty /\ l.lt \in Lts
  BY LoadIs
<1>4. v = [v EXCEPT !.lt = v.lt] /\ l = [l EXCEPT !.lt = l.lt]
  BY <1>3 DEF Good, Values
<1>5. \/ ReturnedValue(v, ret) = [v EXCEPT !.ok = here]
      \/ ReturnedValue(v, ret) = [v EXCEPT !.ok = here, !.lt = lt]
      \/ ReturnedValue(v, ret) = [l EXCEPT !.ok = loaded]
  <2>1. l.ok = v.ok
    BY <1>3
  <2>2. v \in Values /\ l \in Values
    BY <1>3 DEF Good
  <2>. QED BY <2>1, <2>2 DEF ReturnedValue
<1>. HIDE DEF here, loaded, lt, l
<1>6. Good([v EXCEPT !.ok = here]) /\ [v EXCEPT !.ok = here].ty = v.ty
  BY <1>1 DEF Good, Values, here
<1>7. Good([v EXCEPT !.ok = here, !.lt = lt]) /\ [v EXCEPT !.ok = here, !.lt = lt].ty = v.ty
  BY <1>1, <1>2, RecastIs DEF here
<1>8. Good([l EXCEPT !.ok = loaded]) /\ [l EXCEPT !.ok = loaded].ty = v.ty
  <2>1. loaded => l.ok
    BY <1>3 DEF loaded
  <2>. QED BY <1>1, <1>3, <2>1 DEF Good, Values
<1>. QED BY <1>5, <1>6, <1>7, <1>8

\* What goes to the caller, once typeCheck has let it pass, is of the type the
\* caller takes it for or is left to the check.
LEMMA CallerIs ==
  ASSUME TablesTyped, NEW u, Good(u), NEW ty \in DOMAIN ids, IsCompat(ids[ty], ids[u.ty]) # "incompatible"
  PROVE  Good(ToCaller(u, ty)) /\ ToCaller(u, ty).how = "ok"
<1>. DEFINE s == Stored(ty, u.ty, "caller")
            stores == u.stores \cup {s}
<1>1. u \in Values /\ u.ty \in DOMAIN ids
  BY DEF Good, Values
<1>2. s \in StoreSet /\ s.ty = u.ty /\ s.allows = ty /\ s.into = "caller"
  BY <1>1 DEF Stored, StoreSet
<1>3. TypeFits(s) \/ LeftToTheCheck(s)
  BY <1>2 DEF IsCompat, TypeFits, LeftToTheCheck
<1>. HIDE DEF s
<1>4. stores \in SUBSET StoreSet /\ (u.ok => StoresAllowed(stores))
  <2>1. u.stores \in SUBSET StoreSet
    BY <1>1 DEF Values
  <2>. QED BY <1>2, <1>3, <2>1 DEF Good, StoresAllowed
<1>5. ToCaller(u, ty) = [u EXCEPT !.stores = stores]
  BY DEF ToCaller, s
<1>. HIDE DEF stores
<1>6. [u EXCEPT !.stores = stores] \in Values /\ [u EXCEPT !.stores = stores].ok = u.ok
      /\ [u EXCEPT !.stores = stores].stores = stores /\ [u EXCEPT !.stores = stores].how = "ok"
  <2>. HIDE DEF StoreSet
  <2>. QED BY <1>1, <1>4 DEF Values
<1>. QED BY <1>4, <1>5, <1>6 DEF Good

ScopeRecords ==
  [block : DOMAIN prog, name : STRING, node : DOMAIN prog, ty : DOMAIN ids, fn : 1..(2 * Len(prog)), returned : BOOLEAN]
Marked(x, loses, m) == IF loses /\ x.node = m THEN [x EXCEPT !.returned = TRUE] ELSE x

\* A variable whose wrapper visitReturn loaded is still the same variable.
LEMMA MarkedIs ==
  ASSUME NEW x \in ScopeRecords, NEW loses, NEW m
  PROVE  LET y == Marked(x, loses, m) IN
         /\ y \in ScopeRecords /\ y.block = x.block /\ y.name = x.name /\ y.node = x.node /\ y.ty = x.ty /\ y.fn = x.fn
<1>1. [x EXCEPT !.returned = TRUE] \in ScopeRecords
  BY DEF ScopeRecords
<1>. DEFINE z == [x EXCEPT !.returned = TRUE]
<1>2. z.block = x.block /\ z.name = x.name /\ z.node = x.node /\ z.ty = x.ty /\ z.fn = x.fn
  BY DEF ScopeRecords
<1>. QED BY <1>1, <1>2 DEF Marked

\* A variable that was returned is still the variable of its declaration.
LEMMA MarkedScope ==
  ASSUME Sound, Moves, NEW loses, NEW m, blockScope' = {Marked(x, loses, m) : x \in blockScope},
         UNCHANGED <<ids, blockFuncs, blockTypes, signatures, tyData>>,
         Head(todo).t = "visit" => prog[Head(todo).n].k \notin {"decl", "function", "member"}
  PROVE  TablesTyped' /\ SeenKept'
<1>1. TablesTyped /\ Control /\ ScopeKept /\ FuncsKept /\ MembersKnown
  BY DEF Sound, SeenKept
<1>2. prog' = prog /\ Seen(prog', todo') = Seen(prog, todo) \cup Visited(Head(todo))
  BY <1>1, MovesSee
<1>3. \A x \in blockScope : x \in ScopeRecords
  BY <1>1 DEF TablesTyped, ScopeTyped, ScopeRecords
<1>4. \A y \in blockScope' : \E x \in blockScope : /\ y = Marked(x, loses, m) /\ y \in ScopeRecords
        /\ y.block = x.block /\ y.name = x.name /\ y.node = x.node /\ y.ty = x.ty /\ y.fn = x.fn
  <2>. SUFFICES ASSUME NEW y \in blockScope' PROVE \E x \in blockScope : /\ y = Marked(x, loses, m) /\ y \in ScopeRecords
                  /\ y.block = x.block /\ y.name = x.name /\ y.node = x.node /\ y.ty = x.ty /\ y.fn = x.fn
    OBVIOUS
  <2>1. PICK x \in blockScope : y = Marked(x, loses, m)
    OBVIOUS
  <2>2. x \in ScopeRecords
    BY <1>3
  <2>. QED BY <2>1, <2>2, MarkedIs
<1>5. \A x \in blockScope : Marked(x, loses, m) \in blockScope' /\ Marked(x, loses, m).node = x.node
  BY <1>3, MarkedIs
<1>6. ScopeTyped'
  <2>1. ScopeRecords' = ScopeRecords
    BY <1>2 DEF ScopeRecords
  <2>2. \A y \in blockScope' : y \in ScopeRecords
    BY <1>4
  <2>. QED BY <2>1, <2>2 DEF ScopeTyped, ScopeRecords
<1>7. TablesTyped'
  <2>1. IdsTyped' /\ BlocksTyped' /\ SignaturesTyped'
    BY <1>1, <1>2 DEF TablesTyped, IdsTyped, BlocksTyped, SignaturesTyped
  <2>2. FuncsTyped'
    BY <1>1, <1>2 DEF TablesTyped, FuncsTyped, Callable
  <2>3. DataTyped'
    BY <1>1, <1>2 DEF TablesTyped, DataTyped, DataSet
  <2>. QED BY <1>1, <1>2, <1>6, <2>1, <2>2, <2>3 DEF TablesTyped
<1>8. FuncsKept'
  BY <1>1, SameFuncs
<1>9. MembersKnown'
  BY <1>1, <1>2, SameMembers DEF TypesGrow, IdsGrow
<1>10. \A k : EnclosingBlock(k)' = EnclosingBlock(k) /\ Home(k)' = Home(k)
  BY <1>2 DEF EnclosingBlock, Home
<1>11. \A k \in Visited(Head(todo)) : prog[k].k # "decl"
  BY DEF Visited
<1>12. ScopeKept'
  <2>1. ASSUME NEW y \in blockScope'
        PROVE  /\ y.node \in Seen(prog', todo') /\ prog[y.node].k = "decl" /\ y.block = EnclosingBlock(y.node)
               /\ y.name = prog[y.node].name /\ y.fn = Home(y.node)
    <3>1. PICK x \in blockScope : y.block = x.block /\ y.name = x.name /\ y.node = x.node /\ y.fn = x.fn
      BY <1>4
    <3>. QED BY <1>1, <1>2, <3>1 DEF ScopeKept
  <2>2. ASSUME NEW k \in Seen(prog', todo'), prog[k].k = "decl" PROVE \E y \in blockScope' : y.node = k
    <3>1. k \in Seen(prog, todo)
      BY <1>2, <1>11, <2>2
    <3>2. PICK x \in blockScope : x.node = k
      BY <1>1, <2>2, <3>1 DEF ScopeKept
    <3>. QED BY <1>5, <3>2
  <2>3. ASSUME NEW y \in blockScope', NEW z \in blockScope', y.block = z.block, y.name = z.name PROVE y = z
    <3>1. PICK x \in blockScope : y = Marked(x, loses, m) /\ y.block = x.block /\ y.name = x.name
      BY <1>4
    <3>2. PICK w \in blockScope : z = Marked(w, loses, m) /\ z.block = w.block /\ z.name = w.name
      BY <1>4
    <3>3. x = w
      BY <1>1, <2>3, <3>1, <3>2 DEF ScopeKept
    <3>. QED BY <3>1, <3>2, <3>3
  <2>. QED BY <1>2, <1>10, <2>1, <2>2, <2>3 DEF ScopeKept
<1>. QED BY <1>7, <1>8, <1>9, <1>12 DEF SeenKept

\* visitReturn.
LEMMA ReturnWrites ==
  ASSUME Sound, Moves \/ Idle, NEW n, VisitReturn(n)
  PROVE  Writes
<1>1. Due("visit", n) /\ prog[n].k = "return"
  BY DEF VisitReturn, DueVisit
<1>2. TablesTyped /\ StackTyped /\ Control /\ n \in DOMAIN prog /\ Head(todo).t = "visit" /\ Head(todo).n = n
  BY <1>1, DueNow
<1>3. CASE Fail("syntax") \/ Fail("type")
  BY <1>3 DEF Writes, Failed, Failures, Errors
<1>4. CASE Insert("return", n, Value(Void, Lt(0, Void)))
  <2>. DEFINE v == Value(Void, Lt(0, Void))
  <2>1. Void \in DOMAIN ids /\ Lt(0, Void) \in Lts
    BY <1>2, IdsAre DEF TablesTyped, Void, Lt, Lts
  <2>2. Result(v) /\ "return" \in Ops
    BY <2>1, ValueResult DEF Ops
  <2>. HIDE DEF v
  <2>3. Insert("return", n, v)
    BY <1>4 DEF v
  <2>. QED BY <1>1, <2>2, <2>3, InsertWrites
<1>. DEFINE v == CompileExpression(prog[n].e, n)
            r == ReturnChecked(n, v)
            ret == signatures[Head(functionStack)].ret
            returned == ReturnedValue(v, ret)
            w == Then(v, r)
<1>5. prog[n].e # None => Result(v)
  BY <1>2, NodeExpressions
<1>6. Head(functionStack) \in 1..(2 * Len(prog)) /\ ret \in Nat
  <2>1. Head(functionStack) \in 1..(2 * Len(prog))
    BY <1>2 DEF StackTyped, Stacks
  <2>. QED BY <1>2, <2>1 DEF TablesTyped, SignaturesTyped
<1>7. Result(v) /\ v.how = "ok" => Result(r)
  <2>. SUFFICES ASSUME Result(v), v.how = "ok" PROVE Result(r)
    OBVIOUS
  <2>. DEFINE ty == TypeIdFromInfo(ReturnTypes(n), n)
  <2>1. Good(v)
    BY ResultIs
  <2>. HIDE DEF v, ret
  <2>2. Good(returned) /\ returned.ty = v.ty
    <3>1. ret \in Int
      BY <1>6
    <3>. QED BY <2>1, <3>1, ReturnedIs
  <2>3. CASE ty = 0
    <3>1. r = Thrown("type") /\ "type" \in Failures
      BY <2>3 DEF ReturnChecked, Failures, Errors
    <3>. QED BY <3>1, ThrownIs
  <2>4. CASE ty # 0
    <3>1. ty \in DOMAIN ids
      BY <1>2, <2>4, FoundByName
    <3>2. CASE TypeCheck(ty, v) # "ok"
      <4>1. TypeCheck(ty, v) \in Failures
        BY <3>1, <3>2, CheckIs DEF Failures, Errors
      <4>2. r = Thrown(TypeCheck(ty, v))
        BY <2>4, <3>2 DEF ReturnChecked
      <4>. QED BY <4>1, <4>2, ThrownIs
    <3>3. CASE TypeCheck(ty, v) = "ok"
      <4>1. r = ToCaller(returned, ty)
        BY <2>4, <3>3 DEF ReturnChecked, ret
      <4>2. IsCompat(ids[ty], ids[v.ty]) # "incompatible"
        BY <3>1, <3>3, CheckIs
      <4>. HIDE DEF returned, ty, r
      <4>3. Good(ToCaller(returned, ty))
        BY <1>2, <2>2, <3>1, <4>2, CallerIs
      <4>. QED BY <4>1, <4>3 DEF Result
    <3>. QED BY <3>2, <3>3
  <2>. QED BY <2>3, <2>4
<1>8. CASE prog[n].e # None /\ w.how # "ok" /\ Fail(w.how)
  <2>1. Result(v)
    BY <1>5, <1>8
  <2>. HIDE DEF v, r, returned
  <2>2. v.how = "ok" => Result(r)
    BY <1>7, <2>1
  <2>3. w.how \in Failures
    <3>1. Result(w)
      BY <2>1, <2>2, ThenIs
    <3>. QED BY <1>8, <3>1, ResultIs
  <2>. QED BY <1>8, <2>3 DEF Writes, Failed
<1>9. ASSUME prog[n].e # None, w.how = "ok", NEW loses, ReturnStored(n, v, r, loses)
      PROVE  Writes
  <2>. HIDE DEF v, r, returned
  <2>1. /\ code' = InsertedIn(at, "return", n, r)
        /\ blockScope' = {Marked(x, loses, v.var) : x \in blockScope}
        /\ UNCHANGED <<ids, blockTypes, blockFuncs, signatures, tyData, place, status>>
    BY <1>9 DEF ReturnStored, Inserted, Marked
  <2>2. Good(r)
    <3>1. Result(v)
      BY <1>5, <1>9
    <3>2. v.how = "ok" /\ r.how = "ok"
      BY <1>9 DEF Then
    <3>. QED BY <1>7, <3>1, <3>2, ResultIs
  <2>3. at = Home(n) /\ "return" \in Ops
    BY <1>1, <1>2, OwnHome DEF Ops
  <2>4. Moves => TablesTyped' /\ CodeKept' /\ SeenKept'
    <3>. SUFFICES ASSUME Moves PROVE TablesTyped' /\ CodeKept' /\ SeenKept'
      OBVIOUS
    <3>1. prog' = prog /\ ids' = ids
      BY <1>2, <2>1, MovesSee
    <3>2. CodeKept'
      BY <1>2, <2>1, <2>2, <2>3, <3>1, CodeInserts
    <3>3. TablesTyped' /\ SeenKept'
      BY <1>1, <1>2, <2>1, MarkedScope
    <3>. QED BY <3>2, <3>3
  <2>. QED BY <2>1, <2>4, Writing
<1>10. \/ Fail("syntax") \/ Fail("type") \/ Insert("return", n, Value(Void, Lt(0, Void)))
       \/ prog[n].e # None /\ w.how # "ok" /\ Fail(w.how)
       \/ prog[n].e # None /\ w.how = "ok" /\ \E loses : ReturnStored(n, v, r, loses)
  BY ReturnIs
<1>. QED BY <1>3, <1>4, <1>8, <1>9, <1>10

(***************************************************************************)
(* Tables that grow                                                        *)
(***************************************************************************)
LEMMA TablesStay ==
  ASSUME TablesTyped, prog' = prog, IdsGrow
  PROVE  /\ blockScope' = blockScope => ScopeTyped'
         /\ tyData' = tyData => DataTyped'
         /\ signatures' = signatures => SignaturesTyped'
         /\ UNCHANGED <<blockFuncs, signatures>> => FuncsTyped'
         /\ UNCHANGED <<ids, blockTypes>> => IdsTyped' /\ BlocksTyped'
<1>1. blockScope' = blockScope => ScopeTyped'
  <2>1. ScopeRecords \subseteq ScopeRecords'
    BY DEF ScopeRecords, IdsGrow
  <2>2. ScopeTyped <=> blockScope \subseteq ScopeRecords
    BY DEF ScopeTyped, ScopeRecords
  <2>3. ScopeTyped' <=> blockScope' \subseteq ScopeRecords'
    BY DEF ScopeTyped, ScopeRecords
  <2>. QED BY <2>1, <2>2, <2>3 DEF TablesTyped
<1>2. tyData' = tyData => DataTyped'
  <2>1. \A d \in DataSet : d \in DataSet'
    BY DEF DataSet, IdsGrow
  <2>. DEFINE A == DataSet
              B == DataSet'
  <2>. HIDE DEF A, B
  <2>2. A \subseteq B
    BY <2>1 DEF A, B
  <2>3. tyData \in [DOMAIN prog -> A]
    BY DataIs DEF A
  <2>4. tyData \in [DOMAIN prog -> B]
    BY <2>2, <2>3
  <2>5. tyData \in [DOMAIN prog -> DataSet']
    BY <2>4 DEF B
  <2>. QED BY <2>5 DEF DataTyped
<1>3. signatures' = signatures => SignaturesTyped'
  BY DEF TablesTyped, SignaturesTyped
<1>4. UNCHANGED <<blockFuncs, signatures>> => FuncsTyped'
  BY DEF TablesTyped, FuncsTyped, Callable
<1>5. UNCHANGED <<ids, blockTypes>> => IdsTyped' /\ BlocksTyped'
  BY DEF TablesTyped, IdsTyped, BlocksTyped
<1>. QED BY <1>1, <1>2, <1>3, <1>4, <1>5

\* An identifier that is appended leaves the others as they are.
LEMMA IdsAppend ==
  ASSUME IdsTyped, NEW names \in SUBSET Names, NEW types \in SUBSET (1..(Len(ids) + 1)), types # {},
         ids' = Append(ids, [names |-> names, types |-> types])
  PROVE  /\ IdsTyped' /\ IdsGrow /\ DOMAIN ids' = 1..(Len(ids) + 1) /\ Len(ids) + 1 \in DOMAIN ids'
         /\ Len(ids) + 1 \notin DOMAIN ids /\ ids'[Len(ids) + 1] = [names |-> names, types |-> types]
<1>. DEFINE x == [names |-> names, types |-> types]
            I == [names : SUBSET Names, types : SUBSET Nat]
            new == Len(ids) + 1
            js == Append(ids, x)
<1>1. ids \in Seq(I) /\ Len(ids) \in Nat /\ Len(ids) >= 5 /\ DOMAIN ids = 1..Len(ids)
  BY DEF IdsTyped
<1>2. x \in I /\ x.types = types /\ x.types # {} /\ x.types \subseteq 1..(Len(ids) + 1)
  BY <1>1
<1>. HIDE DEF I, x
<1>3. js \in Seq(I) /\ Len(js) = new /\ DOMAIN js = 1..new /\ js[new] = x /\ \A i \in DOMAIN ids : js[i] = ids[i]
  BY <1>1, <1>2
<1>4. \A i \in DOMAIN js : js[i].types \subseteq 1..new /\ js[i].types # {}
  <2>. SUFFICES ASSUME NEW i \in DOMAIN js PROVE js[i].types \subseteq 1..new /\ js[i].types # {}
    OBVIOUS
  <2>1. CASE i = new
    BY <1>2, <1>3, <2>1
  <2>2. CASE i \in DOMAIN ids
    <3>1. ids[i].types \subseteq DOMAIN ids /\ ids[i].types # {}
      BY <2>2 DEF IdsTyped
    <3>. QED BY <1>1, <1>3, <2>2, <3>1
  <2>. QED BY <1>1, <1>3, <2>1, <2>2
<1>. HIDE DEF js
<1>5. ids' = js
  BY DEF js, x
<1>6. IdsTyped'
  BY <1>1, <1>3, <1>4, <1>5 DEF IdsTyped, I
<1>7. IdsGrow
  BY <1>1, <1>3, <1>5 DEF IdsGrow
<1>. QED BY <1>1, <1>3, <1>5, <1>6, <1>7 DEF x

\* A block learns an identifier.
LEMMA BlocksLearn ==
  ASSUME TablesTyped, prog' = prog, IdsTyped', IdsGrow, NEW b \in DOMAIN prog, NEW i \in DOMAIN ids',
         blockTypes' = [blockTypes EXCEPT ![b] = blockTypes[b] \cup {i}]
  PROVE  BlocksTyped' /\ TypesGrow
<1>1. blockTypes \in [DOMAIN prog -> SUBSET (DOMAIN ids)]
  BY DEF TablesTyped, BlocksTyped
<1>2. blockTypes \in [DOMAIN prog -> SUBSET (DOMAIN ids')]
  <2>1. SUBSET (DOMAIN ids) \subseteq SUBSET (DOMAIN ids')
    BY DEF IdsGrow
  <2>. QED BY <1>1, <2>1
<1>3. blockTypes' \in [DOMAIN prog -> SUBSET (DOMAIN ids')]
  BY <1>2
<1>4. \A c \in DOMAIN prog : blockTypes[c] \subseteq blockTypes'[c]
  BY <1>1
<1>. QED BY <1>3, <1>4 DEF BlocksTyped, TypesGrow

\* Blocks that learn nothing.
LEMMA BlocksStay ==
  ASSUME TablesTyped, prog' = prog, IdsGrow, blockTypes' = blockTypes
  PROVE  BlocksTyped' /\ TypesGrow
<1>1. SUBSET (DOMAIN ids) \subseteq SUBSET (DOMAIN ids')
  BY DEF IdsGrow
<1>. QED BY <1>1 DEF BlocksTyped, TypesGrow, TablesTyped

\* What is built of one type.
LEMMA DataBuilds ==
  ASSUME TablesTyped, prog' = prog, IdsGrow, NEW t \in DOMAIN prog, NEW e \in DataSet', tyData' = [tyData EXCEPT ![t] = e]
  PROVE  DataTyped'
<1>. DEFINE A == DataSet
            B == DataSet'
<1>1. \A d \in DataSet : d \in DataSet'
  BY DEF DataSet, IdsGrow
<1>2. tyData \in [DOMAIN prog -> A]
  BY DataIs
<1>. HIDE DEF A, B
<1>3. tyData \in [DOMAIN prog -> B] /\ e \in B
  BY <1>1, <1>2 DEF A, B
<1>4. tyData' \in [DOMAIN prog -> B]
  BY <1>3
<1>5. tyData' \in [DOMAIN prog -> DataSet']
  BY <1>4 DEF B
<1>. QED BY <1>5 DEF DataTyped

(***************************************************************************)
(* Signatures                                                              *)
(***************************************************************************)
SignatureSet == [args : Seq(Lts), ret : Nat]

\* A signature that is taken has types that are found.
LEMMA SignatureFound ==
  ASSUME TablesTyped, NEW n \in DOMAIN prog, SignatureProblem(n) = "ok"
  PROVE  /\ \A i \in DOMAIN prog[n].args : TypeIdFromInfo(prog[n].args[i].types, n) \in DOMAIN ids
         /\ prog[n].types # {} => TypeIdFromInfo(prog[n].types, n) \in DOMAIN ids
<1>. DEFINE args == prog[n].args
            L == Len(args)
            each == [i \in DOMAIN args |-> Unusable(args[i].types, n)]
            last == IF prog[n].types = {} THEN "ok" ELSE Unusable(prog[n].types, n)
            all == each \o <<last>>
            wrong == {i \in DOMAIN all : all[i] # "ok"}
<1>1. DOMAIN args = 1..L /\ L \in Nat
  BY ProgTree, ProgramFacts DEF TreeNodes
<1>2. \A types : Unusable(types, n) \in {"internal", "type", "ok"}
  BY DEF Unusable
<1>3. SignatureProblem(n) = IF wrong = {} THEN "ok" ELSE all[Min(wrong)]
  BY DEF SignatureProblem
<1>. DEFINE W == {"internal", "type", "ok"}
<1>4. each \in Seq(W) /\ last \in W
  BY <1>1, <1>2
<1>5. DOMAIN all = 1..(L + 1) /\ all[L + 1] = last /\ \A i \in 1..L : all[i] = each[i]
  <2>1. Len(each) = L
    BY <1>1
  <2>. HIDE DEF W, each, last, L
  <2>. QED BY <1>1, <1>4, <2>1 DEF L
<1>. HIDE DEF W, all
<1>6. wrong = {}
  <2>1. CASE wrong # {}
    <3>1. wrong \in SUBSET (0..(L + 1)) /\ L + 1 \in Nat
      BY <1>1, <1>5
    <3>2. Min(wrong) \in wrong
      <4>. HIDE DEF wrong, L
      <4>. QED BY <2>1, <3>1, PickFacts
    <3>. QED BY <1>3, <2>1, <3>2
  <2>. QED BY <2>1
<1>7. \A i \in 1..(L + 1) : all[i] = "ok"
  BY <1>5, <1>6
<1>8. \A types : Unusable(types, n) = "ok" => TypeIdFromInfo(types, n) \in DOMAIN ids
  <2>. SUFFICES ASSUME NEW types, Unusable(types, n) = "ok" PROVE TypeIdFromInfo(types, n) \in DOMAIN ids
    OBVIOUS
  <2>1. TypeIdFromInfo(types, n) # 0
    BY DEF Unusable
  <2>. QED BY <2>1, FoundByName
<1>9. ASSUME NEW i \in DOMAIN args PROVE TypeIdFromInfo(args[i].types, n) \in DOMAIN ids
  <2>1. i \in 1..(L + 1) /\ i \in 1..L
    BY <1>1
  <2>2. Unusable(args[i].types, n) = "ok"
    BY <1>5, <1>7, <2>1
  <2>. QED BY <1>8, <2>2
<1>10. prog[n].types # {} => TypeIdFromInfo(prog[n].types, n) \in DOMAIN ids
  <2>1. L + 1 \in 1..(L + 1)
    BY <1>1
  <2>2. last = "ok"
    BY <1>5, <1>7, <2>1
  <2>. QED BY <1>8, <2>2
<1>. QED BY <1>9, <1>10

\* The signature of a function whose types are usable.
LEMMA SignatureIs ==
  ASSUME TablesTyped, NEW n \in DOMAIN prog, SignatureProblem(n) = "ok", NEW this \in Seq(Lts)
  PROVE  /\ SignatureOf(n, this) \in SignatureSet
         /\ this = <<>> => /\ Len(SignatureOf(n, this).args) = Len(prog[n].args)
                           /\ \A i \in DOMAIN SignatureOf(n, this).args : SignatureOf(n, this).args[i].ptr = 0
<1>. DEFINE args == prog[n].args
            L == Len(args)
            Of(types) == Base(TypeIdFromInfo(types, n))
            rest == [i \in DOMAIN args |-> Lt(0, Of(args[i].types))]
            all == this \o rest
            ret == IF prog[n].types = {} THEN Void ELSE Of(prog[n].types)
<1>1. DOMAIN args = 1..L /\ L \in Nat
  BY ProgTree, ProgramFacts DEF TreeNodes
<1>2. IdsTyped
  BY DEF TablesTyped
<1>3. \A i \in DOMAIN args : Of(args[i].types) \in Nat
  BY <1>2, SignatureFound, BaseIs
<1>4. ret \in Nat
  BY <1>2, SignatureFound, BaseIs DEF Void
<1>5. SignatureOf(n, this) = [args |-> all, ret |-> ret]
  BY DEF SignatureOf
<1>. HIDE DEF ret, Of
<1>6. \A i \in DOMAIN args : rest[i] \in Lts /\ rest[i].ptr = 0
  BY <1>3 DEF Lt, Lts
<1>61. rest = [i \in DOMAIN args |-> rest[i]] /\ DOMAIN rest = DOMAIN args
  OBVIOUS
<1>. HIDE DEF rest
<1>7. rest \in [1..L -> Lts] /\ Len(rest) = L
  <2>. DEFINE A == Lts
  <2>1. \A i \in 1..L : rest[i] \in A
    BY <1>1, <1>6
  <2>. HIDE DEF A, L
  <2>2. rest \in [1..L -> A]
    BY <1>1, <1>61, <2>1
  <2>3. Len(rest) = L
    BY <1>1, <1>61
  <2>. QED BY <2>2, <2>3 DEF A
<1>8. rest \in Seq(Lts)
  BY <1>1, <1>7
<1>. DEFINE A == Lts
<1>9. all \in Seq(Lts)
  <2>1. this \in Seq(A) /\ rest \in Seq(A)
    BY <1>8
  <2>. HIDE DEF A
  <2>2. all \in Seq(A)
    BY <2>1
  <2>. QED BY <2>2 DEF A
<1>10. this = <<>> => all = rest
  BY <1>8
<1>. HIDE DEF all
<1>11. this = <<>> => Len(all) = L /\ DOMAIN all = 1..L /\ \A i \in DOMAIN all : all[i].ptr = 0
  BY <1>1, <1>6, <1>7, <1>10
<1>. QED BY <1>4, <1>5, <1>9, <1>11 DEF SignatureSet

\* A function is given its signature.
LEMMA SignaturesChange ==
  ASSUME TablesTyped, prog' = prog, NEW f \in 1..(2 * Len(prog)), NEW sig \in SignatureSet,
         signatures' = [signatures EXCEPT ![f] = sig], blockFuncs' = blockFuncs, \A g \in blockFuncs : g.node # f
  PROVE  SignaturesTyped' /\ FuncsTyped'
<1>1. signatures \in [1..(2 * Len(prog)) -> SignatureSet]
  BY DEF TablesTyped, SignaturesTyped, SignatureSet
<1>2. signatures' \in [1..(2 * Len(prog)) -> SignatureSet]
  <2>. HIDE DEF SignatureSet
  <2>. QED BY <1>1
<1>3. \A g \in blockFuncs : g.node # Runtime => signatures'[g.node] = signatures[g.node]
  <2>1. \A g \in blockFuncs : g.node # Runtime => g.node \in 1..(2 * Len(prog))
    <3>1. \A g \in blockFuncs : g.node # Runtime => g.node \in DOMAIN prog
      BY DEF TablesTyped, FuncsTyped
    <3>. QED BY <3>1, ProgTree
  <2>. QED BY <1>1, <2>1
<1>4. FuncsTyped'
  BY <1>3 DEF TablesTyped, FuncsTyped, Callable
<1>. QED BY <1>2, <1>4 DEF SignaturesTyped, SignatureSet

\* A step of a type that is visited: nothing but the types grows.
LEMMA TypeWrites ==
  ASSUME Sound, Moves, TablesTyped', TypesGrow, UNCHANGED <<blockScope, blockFuncs>>,
         NEW n \in DOMAIN prog, NEW op \in Ops, NEW ok \in BOOLEAN,
         code' = code \/ (code' = InsertedIn(n, op, n, Plain(ok)) /\ ids' = ids /\ Headed(prog, n)),
         Head(todo).t = "visit" => prog[Head(todo).n].k \notin {"decl", "function", "member"}
  PROVE  TablesTyped' /\ CodeKept' /\ SeenKept'
<1>1. prog' = prog /\ TablesTyped /\ Control
  BY MovesSee DEF Sound
<1>2. IdsGrow
  BY DEF TypesGrow
<1>3. CASE code' = code
  <2>1. CodeKept'
    BY <1>1, <1>2, <1>3, CodeSame DEF Sound
  <2>. QED BY <2>1, SameSeen
<1>4. CASE code' = InsertedIn(n, op, n, Plain(ok)) /\ ids' = ids /\ Headed(prog, n)
  <2>1. n = Home(n)
    BY <1>1, <1>4, ProgTree, HomeStep DEF Home
  <2>. DEFINE v == Plain(ok)
  <2>2. Good(v)
    BY <1>1, PlainIs
  <2>. HIDE DEF v
  <2>3. code' = InsertedIn(n, op, n, v)
    BY <1>4 DEF v
  <2>4. CodeKept'
    BY <1>1, <1>4, <2>1, <2>2, <2>3, CodeInserts
  <2>. QED BY <2>4, SameSeen
<1>. QED BY <1>3, <1>4

\* visitType.
LEMMA TypeWritten ==
  ASSUME Sound, Moves \/ Idle, NEW n, VisitType(n)
  PROVE  Writes
<1>1. Due("visit", n) /\ prog[n].k = "type"
  BY DEF VisitType, DueVisit
<1>2. CASE Fail("redefined")
  BY <1>2 DEF Writes, Failed, Failures, Errors
<1>3. CASE ~Fail("redefined")
  <2>. DEFINE tid == Len(ids) + 1
              names == {prog[n].name}
              types == {tid}
              sig == [args |-> <<Lt(1, tid)>>, ret |-> Void]
  <2>1. /\ ids' = Append(ids, [names |-> names, types |-> types])
        /\ tyData' = [tyData EXCEPT ![n].tid = tid]
        /\ signatures' = [signatures EXCEPT ![InitOf(n)] = sig]
        /\ UNCHANGED <<blockTypes, blockScope, blockFuncs, code, status>>
    BY <1>3 DEF VisitType, TypeId
  <2>2. TablesTyped /\ IdsTyped /\ n \in DOMAIN prog /\ Head(todo).t = "visit" /\ Head(todo).n = n /\ DOMAIN prog = 1..Len(prog) /\ Len(prog) \in Nat
    BY <1>1, DueNow, ProgTree
  <2>3. names \in SUBSET Names
    BY <2>2, ProgTree, ProgramFacts DEF TreeNodes, Names
  <2>4. types \in SUBSET (1..(Len(ids) + 1)) /\ types # {} /\ tid \in Nat
    BY <2>2, IdsAre
  <2>. HIDE DEF names, types
  <2>5. IdsTyped' /\ IdsGrow /\ tid \in DOMAIN ids'
    BY <2>1, <2>2, <2>3, <2>4, IdsAppend
  <2>6. Moves => TablesTyped' /\ CodeKept' /\ SeenKept'
    <3>. SUFFICES ASSUME Moves PROVE TablesTyped' /\ CodeKept' /\ SeenKept'
      OBVIOUS
    <3>1. prog' = prog
      BY <2>2, MovesSee DEF Sound
    <3>2. BlocksTyped' /\ TypesGrow /\ ScopeTyped'
      BY <2>1, <2>2, <2>5, <3>1, BlocksStay, TablesStay
    <3>3. sig \in SignatureSet
      <4>1. Lt(1, tid) \in Lts
        BY <2>4 DEF Lt, Lts
      <4>. DEFINE l == Lt(1, tid)
                  args == <<l>>
      <4>. HIDE DEF l
      <4>2. args \in Seq(Lts)
        <5>. DEFINE A == Lts
        <5>1. l \in A
          BY <4>1 DEF l
        <5>. HIDE DEF A
        <5>2. args \in Seq(A)
          BY <5>1
        <5>. QED BY <5>2 DEF A
      <4>. HIDE DEF args
      <4>3. [args |-> args, ret |-> Void] \in SignatureSet
        BY <4>2 DEF SignatureSet, Void
      <4>. QED BY <4>3 DEF args, l
    <3>4. InitOf(n) \in 1..(2 * Len(prog)) /\ \A g \in blockFuncs : g.node # InitOf(n)
      <4>1. \A g \in blockFuncs : g.node \in DOMAIN prog \cup {Runtime}
        BY <2>2 DEF TablesTyped, FuncsTyped
      <4>. QED BY <2>2, <4>1 DEF InitOf, Runtime
    <3>. HIDE DEF sig
    <3>5. SignaturesTyped' /\ FuncsTyped'
      BY <2>1, <2>2, <3>1, <3>3, <3>4, SignaturesChange
    <3>6. DataTyped'
      <4>. DEFINE e == [tyData[n] EXCEPT !.tid = tid]
      <4>1. tyData' = [tyData EXCEPT ![n] = e]
        BY <2>1
      <4>2. tyData[n] \in DataSet
        BY <2>2, DataIs
      <4>3. e \in DataSet'
        <5>1. tyData[n] \in DataSet'
          BY <2>5, <3>1, <4>2 DEF DataSet, IdsGrow
        <5>. HIDE DEF tid
        <5>. QED BY <2>5, <5>1 DEF DataSet
      <4>. HIDE DEF e
      <4>. QED BY <2>2, <2>5, <3>1, <4>1, <4>3, DataBuilds
    <3>7. TablesTyped'
      BY <2>2, <2>5, <3>1, <3>2, <3>5, <3>6 DEF TablesTyped
    <3>. DEFINE op == "method"
    <3>8. op \in Ops /\ TRUE \in BOOLEAN
      BY DEF Ops
    <3>. HIDE DEF op
    <3>. QED BY <1>1, <2>1, <2>2, <3>2, <3>7, <3>8, TypeWrites
  <2>. QED BY <2>1, <2>6, Writing
<1>. QED BY <1>2, <1>3

\* Nothing but what is built of one type changes.
LEMMA DataWrites ==
  ASSUME TablesTyped, prog' = prog, NEW t \in DOMAIN prog, NEW e \in DataSet, tyData' = [tyData EXCEPT ![t] = e],
         UNCHANGED <<ids, blockTypes, blockScope, blockFuncs, signatures>>
  PROVE  TablesTyped' /\ TypesGrow
<1>1. IdsGrow /\ DataSet' = DataSet
  BY DEF IdsGrow, DataSet
<1>2. DataTyped'
  BY <1>1, DataBuilds
<1>3. BlocksTyped' /\ TypesGrow /\ ScopeTyped' /\ SignaturesTyped' /\ FuncsTyped' /\ IdsTyped'
  BY <1>1, BlocksStay, TablesStay
<1>. QED BY <1>2, <1>3 DEF TablesTyped

\* The data of a type with one more entry in one of its lists.
LEMMA DataAppends ==
  ASSUME TablesTyped, NEW t \in DOMAIN prog
  PROVE  /\ \A m \in DOMAIN prog : /\ [tyData[t] EXCEPT !.statics = Append(tyData[t].statics, m)] \in DataSet
                                   /\ [tyData[t] EXCEPT !.methods = Append(tyData[t].methods, m)] \in DataSet
                                   /\ [tyData[t] EXCEPT !.constructors = Append(tyData[t].constructors, m)] \in DataSet
         /\ \A x \in [node : DOMAIN prog, of : Nat] : [tyData[t] EXCEPT !.members = Append(tyData[t].members, x)] \in DataSet
         /\ [tyData[t] EXCEPT !.laidOut = TRUE] \in DataSet /\ [tyData[t] EXCEPT !.initExists = TRUE] \in DataSet
<1>. DEFINE d == tyData[t]
            D == DOMAIN prog
            E == [node : DOMAIN prog, of : Nat]
<1>1. d \in [tid : {0} \cup DOMAIN ids, members : Seq(E), statics : Seq(D),
             methods : Seq(D), constructors : Seq(D), laidOut : BOOLEAN, initExists : BOOLEAN]
  BY DataIs DEF DataSet
<1>2. DataSet = [tid : {0} \cup DOMAIN ids, members : Seq(E), statics : Seq(D),
             methods : Seq(D), constructors : Seq(D), laidOut : BOOLEAN, initExists : BOOLEAN]
  BY DEF DataSet
<1>. HIDE DEF d, D, E
<1>3. \A m \in D : /\ Append(d.statics, m) \in Seq(D) /\ Append(d.methods, m) \in Seq(D)
                   /\ Append(d.constructors, m) \in Seq(D)
  BY <1>1
<1>4. \A x \in E : Append(d.members, x) \in Seq(E)
  BY <1>1
<1>5. \A s \in Seq(D) : /\ [d EXCEPT !.statics = s] \in DataSet /\ [d EXCEPT !.methods = s] \in DataSet
                        /\ [d EXCEPT !.constructors = s] \in DataSet
  BY <1>1, <1>2
<1>6. \A s \in Seq(E) : [d EXCEPT !.members = s] \in DataSet
  BY <1>1, <1>2
<1>7. [d EXCEPT !.laidOut = TRUE] \in DataSet /\ [d EXCEPT !.initExists = TRUE] \in DataSet
  BY <1>1, <1>2
<1>8. \A m \in D : /\ [d EXCEPT !.statics = Append(d.statics, m)] \in DataSet
                   /\ [d EXCEPT !.methods = Append(d.methods, m)] \in DataSet
                   /\ [d EXCEPT !.constructors = Append(d.constructors, m)] \in DataSet
  BY <1>3, <1>5
<1>9. \A x \in E : [d EXCEPT !.members = Append(d.members, x)] \in DataSet
  BY <1>4, <1>6
<1>. QED BY <1>7, <1>8, <1>9 DEF d, D, E

\* What throws ends the compilation and leaves the rest as it is.
LEMMA FailWrites ==
  ASSUME NEW how \in Failures, Fail(how)
  PROVE  Writes
BY DEF Writes, Failed

\* A signature is usable or throws.
LEMMA SignatureProblemIs ==
  ASSUME TablesTyped, NEW n \in DOMAIN prog
  PROVE  SignatureProblem(n) = "ok" \/ SignatureProblem(n) \in Failures
<1>. DEFINE args == prog[n].args
            L == Len(args)
            each == [i \in DOMAIN args |-> Unusable(args[i].types, n)]
            last == IF prog[n].types = {} THEN "ok" ELSE Unusable(prog[n].types, n)
            all == each \o <<last>>
            wrong == {i \in DOMAIN all : all[i] # "ok"}
            W == {"internal", "type", "ok"}
<1>1. DOMAIN args = 1..L /\ L \in Nat
  BY ProgTree, ProgramFacts DEF TreeNodes
<1>2. \A types : Unusable(types, n) \in W
  BY DEF Unusable
<1>3. SignatureProblem(n) = IF wrong = {} THEN "ok" ELSE all[Min(wrong)]
  BY DEF SignatureProblem
<1>4. each \in Seq(W) /\ last \in W /\ Len(each) = L
  BY <1>1, <1>2
<1>5. all \in Seq(W) /\ DOMAIN all = 1..(L + 1)
  <2>. HIDE DEF W, each, last, L
  <2>. QED BY <1>1, <1>4 DEF L
<1>6. wrong # {} => Min(wrong) \in DOMAIN all
  <2>. SUFFICES ASSUME wrong # {} PROVE Min(wrong) \in DOMAIN all
    OBVIOUS
  <2>1. wrong \in SUBSET (0..(L + 1)) /\ L + 1 \in Nat
    BY <1>1, <1>5
  <2>2. Min(wrong) \in wrong
    <3>. HIDE DEF wrong, L
    <3>. QED BY <2>1, PickFacts
  <2>. QED BY <2>2
<1>7. wrong # {} => all[Min(wrong)] \in W
  <2>. HIDE DEF all, W, wrong
  <2>. QED BY <1>5, <1>6
<1>. QED BY <1>3, <1>7 DEF Failures, Errors

\* A type that is usable is known here and has an identifier.
LEMMA UnusableIs ==
  ASSUME TablesTyped, NEW n \in DOMAIN prog, NEW types
  PROVE  /\ Unusable(types, n) = "ok" \/ Unusable(types, n) \in Failures
         /\ Unusable(types, n) = "ok" => TypeIdFromInfo(types, n) \in DOMAIN ids /\ Knows(types, n)
<1>1. Unusable(types, n) = "ok" \/ Unusable(types, n) \in Failures
  BY DEF Unusable, Failures, Errors
<1>2. Unusable(types, n) = "ok" => TypeIdFromInfo(types, n) # 0
  BY DEF Unusable
<1>3. TypeIdFromInfo(types, n) # 0 => Knows(types, n)
  BY FoundByName DEF Knows, Named
<1>. QED BY <1>1, <1>2, <1>3, FoundByName

\* A type that is extended has data.
LEMMA BuildsData ==
  ASSUME TablesTyped, NEW t \in DOMAIN prog
  PROVE  /\ \A m \in DOMAIN prog : Build(t, "statics", m) \/ Build(t, "methods", m) \/ Build(t, "constructors", m)
                                  => \E e \in DataSet : tyData' = [tyData EXCEPT ![t] = e]
         /\ \A x \in [node : DOMAIN prog, of : Nat] : Build(t, "members", x)
                                  => \E e \in DataSet : tyData' = [tyData EXCEPT ![t] = e]
<1>1. ASSUME NEW m \in DOMAIN prog, Build(t, "statics", m) PROVE \E e \in DataSet : tyData' = [tyData EXCEPT ![t] = e]
  <2>. DEFINE e == [tyData[t] EXCEPT !.statics = Append(tyData[t].statics, m)]
  <2>1. e \in DataSet /\ tyData' = [tyData EXCEPT ![t] = e]
    BY <1>1, BuildIs, DataAppends
  <2>. HIDE DEF e
  <2>. QED BY <2>1
<1>2. ASSUME NEW m \in DOMAIN prog, Build(t, "methods", m) PROVE \E e \in DataSet : tyData' = [tyData EXCEPT ![t] = e]
  <2>. DEFINE e == [tyData[t] EXCEPT !.methods = Append(tyData[t].methods, m)]
  <2>1. e \in DataSet /\ tyData' = [tyData EXCEPT ![t] = e]
    BY <1>2, BuildIs, DataAppends
  <2>. HIDE DEF e
  <2>. QED BY <2>1
<1>3. ASSUME NEW m \in DOMAIN prog, Build(t, "constructors", m) PROVE \E e \in DataSet : tyData' = [tyData EXCEPT ![t] = e]
  <2>. DEFINE e == [tyData[t] EXCEPT !.constructors = Append(tyData[t].constructors, m)]
  <2>1. e \in DataSet /\ tyData' = [tyData EXCEPT ![t] = e]
    BY <1>3, BuildIs, DataAppends
  <2>. HIDE DEF e
  <2>. QED BY <2>1
<1>4. ASSUME NEW x \in [node : DOMAIN prog, of : Nat], Build(t, "members", x)
      PROVE  \E e \in DataSet : tyData' = [tyData EXCEPT ![t] = e]
  <2>. DEFINE e == [tyData[t] EXCEPT !.members = Append(tyData[t].members, x)]
  <2>1. e \in DataSet /\ tyData' = [tyData EXCEPT ![t] = e]
    BY <1>4, BuildIs, DataAppends
  <2>. HIDE DEF e
  <2>. QED BY <2>1
<1>. QED BY <1>1, <1>2, <1>3, <1>4

\* visitMember.
LEMMA MemberWrites ==
  ASSUME Sound, Moves \/ Idle, NEW n, VisitMember(n)
  PROVE  Writes
<1>. DEFINE problem == Unusable(prog[n].types, n)
            i == TypeIdFromInfo(prog[n].types, n)
            entry == [node |-> n, of |-> Base(i)]
            t == TypeOf(n)
<1>1. Due("visit", n) /\ prog[n].k = "member"
  BY DEF VisitMember, DueVisit
<1>2. TablesTyped /\ IdsTyped /\ Control /\ n \in DOMAIN prog /\ Head(todo).t = "visit" /\ Head(todo).n = n
  BY <1>1, DueNow
<1>3. CASE problem # "ok" /\ Fail(problem)
  BY <1>2, <1>3, UnusableIs, FailWrites
<1>4. CASE Fail("redefined")
  <2>. DEFINE how == "redefined"
  <2>1. how \in Failures
    BY DEF Failures, Errors
  <2>. HIDE DEF how
  <2>2. Fail(how)
    BY <1>4 DEF how
  <2>. QED BY <2>1, <2>2, FailWrites
<1>5. CASE /\ problem = "ok"
           /\ IF prog[n].static THEN Build(t, "statics", n) ELSE Build(t, "members", entry)
           /\ UNCHANGED <<ids, blockTypes, blockScope, blockFuncs, signatures, place, code, status>>
  <2>1. i \in DOMAIN ids /\ Knows(prog[n].types, n)
    BY <1>2, <1>5, UnusableIs
  <2>2. Base(i) \in Nat /\ t \in DOMAIN prog
    BY <1>1, <1>2, <2>1, BaseIs, ChildOfType
  <2>. HIDE DEF i, t
  <2>3. entry \in [node : DOMAIN prog, of : Nat]
    BY <1>2, <2>2
  <2>. HIDE DEF entry
  <2>4. \E e \in DataSet : tyData' = [tyData EXCEPT ![t] = e]
    BY <1>2, <1>5, <2>2, <2>3, BuildsData
  <2>5. Moves => TablesTyped' /\ CodeKept' /\ SeenKept'
    <3>. SUFFICES ASSUME Moves PROVE TablesTyped' /\ CodeKept' /\ SeenKept'
      OBVIOUS
    <3>1. prog' = prog
      BY <1>2, MovesSee
    <3>2. TablesTyped' /\ TypesGrow /\ IdsGrow
      BY <1>2, <1>5, <2>2, <2>4, <3>1, DataWrites DEF TypesGrow
    <3>3. ScopeKept /\ FuncsKept /\ MembersKnown /\ CodeKept
      BY DEF Sound, SeenKept
    <3>4. CodeKept'
      BY <1>2, <1>5, <3>1, <3>2, <3>3, CodeSame
    <3>5. ScopeKept' /\ FuncsKept'
      BY <1>1, <1>2, <1>5, <3>3, SameScope, SameFuncs
    <3>6. MembersKnown'
      BY <1>1, <1>2, <2>1, <3>2, <3>3, SameMembers
    <3>. QED BY <3>2, <3>4, <3>5, <3>6 DEF SeenKept
  <2>. QED BY <1>5, <2>5, Writing
<1>6. \/ problem # "ok" /\ Fail(problem)
      \/ Fail("redefined")
      \/ /\ problem = "ok"
         /\ IF prog[n].static THEN Build(t, "statics", n) ELSE Build(t, "members", entry)
         /\ UNCHANGED <<ids, blockTypes, blockScope, blockFuncs, signatures, place, code, status>>
  BY DEF VisitMember
<1>. QED BY <1>3, <1>4, <1>5, <1>6

\* addMethod.
LEMMA AddWrites ==
  ASSUME Sound, Moves \/ Idle, NEW n, AddMethod(n)
  PROVE  Writes
<1>1. Due("addMethod", n)
  BY DEF AddMethod
<1>2. TablesTyped /\ Control /\ n \in DOMAIN prog /\ Head(todo).t = "addMethod" /\ Head(todo).n = n /\ prog[n].k = "method"
  BY <1>1, DueNow DEF Fits
<1>. DEFINE op == "method"
            no == FALSE
            t == TypeOf(n)
<1>3. op \in Ops /\ no \in BOOLEAN /\ t \in DOMAIN prog
  BY <1>2, ChildOfType DEF Ops
<1>4. CASE Fail("redefined")
  <2>. DEFINE how == "redefined"
  <2>1. how \in Failures
    BY DEF Failures, Errors
  <2>. HIDE DEF how
  <2>2. Fail(how)
    BY <1>4 DEF how
  <2>. QED BY <2>1, <2>2, FailWrites
<1>5. CASE ~Fail("redefined")
  <2>1. /\ tyData' = tyData \/ Build(t, "methods", n)
        /\ code' = code \/ code' = InsertedIn(n, op, n, Plain(no))
        /\ UNCHANGED <<ids, blockTypes, blockScope, blockFuncs, signatures, place, status>>
    BY <1>5 DEF AddMethod
  <2>. HIDE DEF op, no, t
  <2>2. tyData' = tyData \/ \E e \in DataSet : tyData' = [tyData EXCEPT ![t] = e]
    BY <1>2, <1>3, <2>1, BuildsData
  <2>3. Moves => TablesTyped' /\ CodeKept' /\ SeenKept'
    <3>. SUFFICES ASSUME Moves PROVE TablesTyped' /\ CodeKept' /\ SeenKept'
      OBVIOUS
    <3>1. prog' = prog
      BY <1>2, MovesSee
    <3>2. TablesTyped' /\ TypesGrow
      <4>1. CASE tyData' = tyData
        BY <1>2, <2>1, <3>1, <4>1, SameTables DEF tables
      <4>2. CASE \E e \in DataSet : tyData' = [tyData EXCEPT ![t] = e]
        BY <1>2, <1>3, <2>1, <3>1, <4>2, DataWrites
      <4>. QED BY <2>2, <4>1, <4>2
    <3>3. Headed(prog, n)
      BY <1>2 DEF Headed
    <3>. QED BY <1>2, <1>3, <2>1, <3>2, <3>3, TypeWrites
  <2>. QED BY <2>1, <2>3, Writing
<1>. QED BY <1>4, <1>5

\* finalize, the start of the initialiser, and the end of finalize.
LEMMA KnownWrites ==
  ASSUME Sound, Moves \/ Idle, NEW n, Finalize(n) \/ BeginInit(n) \/ BecomeKnown(n)
  PROVE  Writes
<1>. DEFINE op == "method"
            no == FALSE
<1>0. op \in Ops /\ no \in BOOLEAN
  BY DEF Ops
<1>. HIDE DEF op, no
<1>1. CASE Finalize(n) \/ BeginInit(n)
  <2>1. /\ Due("finalize", n) \/ Due("beginInit", n)
        /\ tyData' = [tyData EXCEPT ![n].laidOut = TRUE] \/ tyData' = [tyData EXCEPT ![n].initExists = TRUE]
        /\ UNCHANGED <<ids, blockTypes, blockScope, blockFuncs, signatures, code, status>>
    BY <1>1, FinalizeIs DEF BeginInit
  <2>2. TablesTyped /\ Control /\ n \in DOMAIN prog /\ Head(todo).t # "visit"
    BY <2>1, DueNow
  <2>3. \E e \in DataSet : tyData' = [tyData EXCEPT ![n] = e]
    <3>1. /\ [tyData EXCEPT ![n].laidOut = TRUE] = [tyData EXCEPT ![n] = [tyData[n] EXCEPT !.laidOut = TRUE]]
          /\ [tyData EXCEPT ![n].initExists = TRUE] = [tyData EXCEPT ![n] = [tyData[n] EXCEPT !.initExists = TRUE]]
      OBVIOUS
    <3>2. [tyData[n] EXCEPT !.laidOut = TRUE] \in DataSet /\ [tyData[n] EXCEPT !.initExists = TRUE] \in DataSet
      BY <2>2, DataAppends
    <3>. QED BY <2>1, <3>1, <3>2
  <2>4. Moves => TablesTyped' /\ CodeKept' /\ SeenKept'
    <3>. SUFFICES ASSUME Moves PROVE TablesTyped' /\ CodeKept' /\ SeenKept'
      OBVIOUS
    <3>1. prog' = prog
      BY <2>2, MovesSee
    <3>2. TablesTyped' /\ TypesGrow
      BY <2>1, <2>2, <2>3, <3>1, DataWrites
    <3>. QED BY <1>0, <2>1, <2>2, <3>2, TypeWrites
  <2>. QED BY <2>1, <2>4, Writing
<1>2. CASE BecomeKnown(n)
  <2>. DEFINE b == EnclosingBlock(n)
              i == TidOf(n)
  <2>1. /\ Due("known", n) /\ blockTypes' = [blockTypes EXCEPT ![b] = blockTypes[b] \cup {i}]
        /\ UNCHANGED <<ids, blockScope, blockFuncs, signatures, tyData, place, code, status>>
    BY <1>2 DEF BecomeKnown
  <2>2. TablesTyped /\ StackTyped /\ Control /\ n \in DOMAIN prog /\ Head(todo).t = "known" /\ Head(todo).n = n /\ prog[n].k = "type"
    BY <2>1, DueNow DEF Fits
  <2>3. n # 1
    BY <2>2, ProgTree, ProgramFacts
  <2>4. b \in DOMAIN prog
    BY <2>2, <2>3, Enclosed
  <2>5. i \in DOMAIN ids
    <3>1. n \in Seen(prog, todo)
      BY <2>1, <2>2, DueSeen
    <3>2. i # 0
      BY <2>2, <3>1 DEF Control, Controlled, TypesKept, TidOf
    <3>. QED BY <2>2, <3>2, DataIs DEF DataSet, TidOf
  <2>. HIDE DEF b, i
  <2>6. Moves => TablesTyped' /\ CodeKept' /\ SeenKept'
    <3>. SUFFICES ASSUME Moves PROVE TablesTyped' /\ CodeKept' /\ SeenKept'
      OBVIOUS
    <3>1. prog' = prog
      BY <2>2, MovesSee
    <3>2. IdsGrow /\ IdsTyped'
      BY <2>1, <2>2 DEF IdsGrow, TablesTyped, IdsTyped
    <3>3. BlocksTyped' /\ TypesGrow
      <4>1. i \in DOMAIN ids'
        BY <2>1, <2>5
      <4>. QED BY <2>1, <2>2, <2>4, <3>1, <3>2, <4>1, BlocksLearn
    <3>4. ScopeTyped' /\ DataTyped' /\ SignaturesTyped' /\ FuncsTyped'
      BY <2>1, <2>2, <3>1, <3>2, TablesStay
    <3>5. TablesTyped'
      BY <2>2, <3>1, <3>2, <3>3, <3>4 DEF TablesTyped
    <3>. QED BY <1>0, <2>1, <2>2, <3>3, <3>5, TypeWrites
  <2>. QED BY <2>1, <2>6, Writing
<1>. QED BY <1>1, <1>2

\* Sequences of at most one LLVM type.
LEMMA OneLt ==
  ASSUME NEW l \in Lts
  PROVE  <<l>> \in Seq(Lts) /\ <<>> \in Seq(Lts)
<1>. DEFINE A == Lts
<1>1. l \in A
  OBVIOUS
<1>. HIDE DEF A
<1>2. <<l>> \in Seq(A) /\ <<>> \in Seq(A)
  BY <1>1
<1>. QED BY <1>2 DEF A

\* A pointer to an object of a type, or an object.
LEMMA ThisIs ==
  ASSUME TablesTyped, NEW t \in DOMAIN prog
  PROVE  Lt(0, TidOf(t)) \in Lts /\ Lt(1, TidOf(t)) \in Lts
<1>1. TidOf(t) \in Int
  BY DataIs, IdsAre DEF TidOf, DataSet, TablesTyped
<1>. QED BY <1>1 DEF Lt, Lts

\* visitConstructor.
LEMMA ConstructorWrites ==
  ASSUME Sound, Moves \/ Idle, NEW n, VisitConstructor(n)
  PROVE  Writes
<1>. DEFINE problem == SignatureProblem(n)
            t == TypeOf(n)
            this == <<Lt(1, TidOf(t))>>
            sig == SignatureOf(n, this)
            op == "constructor"
            no == FALSE
            how == "redefined"
<1>1. Due("visit", n) /\ prog[n].k = "constructor"
  BY DEF VisitConstructor, DueVisit
<1>2. TablesTyped /\ Control /\ n \in DOMAIN prog /\ Head(todo).t = "visit" /\ Head(todo).n = n
  BY <1>1, DueNow
<1>3. op \in Ops /\ no \in BOOLEAN /\ t \in DOMAIN prog /\ how \in Failures
  BY <1>1, <1>2, ChildOfType DEF Ops, Failures, Errors
<1>4. this \in Seq(Lts)
  BY <1>2, <1>3, ThisIs, OneLt
<1>5. \/ problem # "ok" /\ Fail(problem)
      \/ Fail(how)
      \/ /\ problem = "ok" /\ signatures' = [signatures EXCEPT ![n] = sig] /\ Build(t, "constructors", n)
         /\ code' = code \/ code' = InsertedIn(n, op, n, Plain(no))
         /\ UNCHANGED <<ids, blockTypes, blockScope, blockFuncs, place, status>>
  BY DEF VisitConstructor
<1>. HIDE DEF problem, t, this, op, no, how
<1>6. CASE problem # "ok" /\ Fail(problem)
  BY <1>2, <1>6, SignatureProblemIs, FailWrites DEF problem
<1>7. CASE Fail(how)
  BY <1>3, <1>7, FailWrites
<1>8. CASE /\ problem = "ok" /\ signatures' = [signatures EXCEPT ![n] = sig] /\ Build(t, "constructors", n)
           /\ code' = code \/ code' = InsertedIn(n, op, n, Plain(no))
           /\ UNCHANGED <<ids, blockTypes, blockScope, blockFuncs, place, status>>
  <2>1. sig \in SignatureSet
    BY <1>2, <1>4, <1>8, SignatureIs DEF problem
  <2>. HIDE DEF sig
  <2>2. n \in 1..(2 * Len(prog)) /\ \A g \in blockFuncs : g.node # n
    <3>1. n \in 1..(2 * Len(prog)) /\ n # Runtime
      BY <1>2, ProgTree DEF Runtime
    <3>. QED BY <1>1, <1>2, <3>1 DEF TablesTyped, FuncsTyped, Callable
  <2>3. PICK e \in DataSet : tyData' = [tyData EXCEPT ![t] = e]
    BY <1>2, <1>3, <1>8, BuildsData
  <2>4. Moves => TablesTyped' /\ CodeKept' /\ SeenKept'
    <3>. SUFFICES ASSUME Moves PROVE TablesTyped' /\ CodeKept' /\ SeenKept'
      OBVIOUS
    <3>1. prog' = prog
      BY <1>2, MovesSee
    <3>2. IdsGrow /\ DataSet' = DataSet
      BY <1>8, <3>1 DEF IdsGrow, DataSet
    <3>3. SignaturesTyped' /\ FuncsTyped'
      BY <1>2, <1>8, <2>1, <2>2, <3>1, SignaturesChange
    <3>4. DataTyped'
      BY <1>2, <1>3, <2>3, <3>1, <3>2, DataBuilds
    <3>5. BlocksTyped' /\ TypesGrow /\ ScopeTyped' /\ IdsTyped'
      BY <1>2, <1>8, <3>1, <3>2, BlocksStay, TablesStay
    <3>6. TablesTyped'
      BY <1>2, <3>1, <3>3, <3>4, <3>5 DEF TablesTyped
    <3>7. Headed(prog, n)
      BY <1>1 DEF Headed
    <3>. QED BY <1>1, <1>2, <1>3, <1>8, <3>5, <3>6, <3>7, TypeWrites
  <2>. QED BY <1>8, <2>4, Writing
<1>. QED BY <1>5, <1>6, <1>7, <1>8

\* visitMethod.
LEMMA MethodWrites ==
  ASSUME Sound, Moves \/ Idle, NEW n, VisitMethod(n)
  PROVE  Writes
<1>. DEFINE problem == SignatureProblem(n)
            this == IF prog[n].static THEN <<>> ELSE <<Lt(0, TidOf(TypeOf(n)))>>
            sig == SignatureOf(n, this)
<1>1. Due("visit", n) /\ prog[n].k = "method"
  BY DEF VisitMethod, DueVisit
<1>2. TablesTyped /\ Control /\ n \in DOMAIN prog /\ Head(todo).t = "visit" /\ Head(todo).n = n
  BY <1>1, DueNow
<1>3. TypeOf(n) \in DOMAIN prog
  BY <1>1, <1>2, ChildOfType
<1>4. this \in Seq(Lts)
  BY <1>2, <1>3, ThisIs, OneLt
<1>5. \/ problem # "ok" /\ Fail(problem)
      \/ /\ problem = "ok" /\ signatures' = [signatures EXCEPT ![n] = sig]
         /\ UNCHANGED <<ids, blockTypes, blockScope, blockFuncs, tyData, code, status>>
  BY DEF VisitMethod
<1>. HIDE DEF problem, this
<1>6. CASE problem # "ok" /\ Fail(problem)
  BY <1>2, <1>6, SignatureProblemIs, FailWrites DEF problem
<1>7. CASE /\ problem = "ok" /\ signatures' = [signatures EXCEPT ![n] = sig]
           /\ UNCHANGED <<ids, blockTypes, blockScope, blockFuncs, tyData, code, status>>
  <2>1. sig \in SignatureSet
    BY <1>2, <1>4, <1>7, SignatureIs DEF problem
  <2>. HIDE DEF sig
  <2>2. n \in 1..(2 * Len(prog)) /\ \A g \in blockFuncs : g.node # n
    <3>1. n \in 1..(2 * Len(prog)) /\ n # Runtime
      BY <1>2, ProgTree DEF Runtime
    <3>. QED BY <1>1, <1>2, <3>1 DEF TablesTyped, FuncsTyped, Callable
  <2>3. Moves => TablesTyped' /\ CodeKept' /\ SeenKept'
    <3>. SUFFICES ASSUME Moves PROVE TablesTyped' /\ CodeKept' /\ SeenKept'
      OBVIOUS
    <3>1. prog' = prog
      BY <1>2, MovesSee
    <3>2. IdsGrow
      BY <1>7, <3>1 DEF IdsGrow
    <3>3. SignaturesTyped' /\ FuncsTyped'
      BY <1>2, <1>7, <2>1, <2>2, <3>1, SignaturesChange
    <3>5. BlocksTyped' /\ TypesGrow /\ ScopeTyped' /\ IdsTyped' /\ DataTyped'
      BY <1>2, <1>7, <3>1, <3>2, BlocksStay, TablesStay
    <3>6. TablesTyped'
      BY <1>2, <3>1, <3>3, <3>5 DEF TablesTyped
    <3>. DEFINE op == "method"
                no == FALSE
    <3>7. op \in Ops /\ no \in BOOLEAN
      BY DEF Ops
    <3>. HIDE DEF op, no
    <3>. QED BY <1>1, <1>2, <1>7, <3>5, <3>6, <3>7, TypeWrites
  <2>. QED BY <1>7, <2>3, Writing
<1>. QED BY <1>5, <1>6, <1>7

\* visitFunction.
LEMMA FunctionWrites ==
  ASSUME Sound, Moves \/ Idle, NEW n, VisitFunction(n)
  PROVE  Writes
<1>. DEFINE b == EnclosingBlock(n)
            problem == SignatureProblem(n)
            this == <<>>
            sig == SignatureOf(n, this)
            how == "redefined"
            f == [block |-> b, name |-> prog[n].name, node |-> n]
<1>1. Due("visit", n) /\ prog[n].k = "function"
  BY DEF VisitFunction, DueVisit
<1>2. TablesTyped /\ Control /\ n \in DOMAIN prog /\ Head(todo).t = "visit" /\ Head(todo).n = n
  BY <1>1, DueNow
<1>3. how \in Failures
  BY DEF Failures, Errors
<1>4. \/ problem # "ok" /\ Fail(problem)
      \/ Fail(how)
      \/ /\ problem = "ok" /\ FunctionsIn(b, prog[n].name) = {} /\ signatures' = [signatures EXCEPT ![n] = sig]
         /\ blockFuncs' = blockFuncs \cup {f}
         /\ UNCHANGED <<ids, blockTypes, blockScope, tyData, code, status>>
  BY DEF VisitFunction
<1>. HIDE DEF problem, how
<1>5. CASE problem # "ok" /\ Fail(problem)
  BY <1>2, <1>5, SignatureProblemIs, FailWrites DEF problem
<1>6. CASE Fail(how)
  BY <1>3, <1>6, FailWrites
<1>7. CASE /\ problem = "ok" /\ FunctionsIn(b, prog[n].name) = {} /\ signatures' = [signatures EXCEPT ![n] = sig]
           /\ blockFuncs' = blockFuncs \cup {f}
           /\ UNCHANGED <<ids, blockTypes, blockScope, tyData, code, status>>
  <2>1. /\ sig \in SignatureSet /\ Len(sig.args) = Len(prog[n].args)
        /\ \A i \in DOMAIN sig.args : sig.args[i].ptr = 0
    <3>. DEFINE A == Lts
    <3>1. this \in Seq(A)
      <4>. HIDE DEF A
      <4>. QED OBVIOUS
    <3>2. this = <<>> /\ this \in Seq(Lts)
      BY <3>1
    <3>. HIDE DEF this, A
    <3>. QED BY <1>2, <1>7, <3>2, SignatureIs DEF problem
  <2>. HIDE DEF sig
  <2>2. n # 1 /\ prog[n].name \in STRING /\ n \in 1..(2 * Len(prog))
    <3>1. n \in 1..(2 * Len(prog)) /\ n # 1
      BY <1>1, <1>2, ProgTree, ProgramFacts
    <3>2. prog[n].name \in STRING
      BY <1>2, ProgTree, ProgramFacts DEF TreeNodes
    <3>. QED BY <3>1, <3>2
  <2>3. b \in DOMAIN prog
    BY <1>2, <2>2, Enclosed
  <2>4. Moves => TablesTyped' /\ CodeKept' /\ SeenKept'
    <3>. SUFFICES ASSUME Moves PROVE TablesTyped' /\ CodeKept' /\ SeenKept'
      OBVIOUS
    <3>1. prog' = prog /\ Seen(prog', todo') = Seen(prog, todo) \cup {n}
      BY <1>2, MovesSee DEF Visited
    <3>2. IdsGrow
      BY <1>7, <3>1 DEF IdsGrow
    <3>3. SignaturesTyped' /\ signatures'[n] = sig /\ \A m \in DOMAIN prog : m # n => signatures'[m] = signatures[m]
      <4>1. signatures \in [1..(2 * Len(prog)) -> SignatureSet]
        BY <1>2 DEF TablesTyped, SignaturesTyped, SignatureSet
      <4>2. signatures' \in [1..(2 * Len(prog)) -> SignatureSet]
        <5>. HIDE DEF SignatureSet
        <5>. QED BY <1>7, <2>1, <2>2, <4>1
      <4>3. signatures'[n] = sig
        <5>. HIDE DEF SignatureSet
        <5>. QED BY <1>7, <2>2, <4>1
      <4>4. \A m \in 1..(2 * Len(prog)) : m # n => signatures'[m] = signatures[m]
        <5>. HIDE DEF SignatureSet
        <5>. QED BY <1>7, <4>1
      <4>5. DOMAIN prog \subseteq 1..(2 * Len(prog))
        BY <1>2, ProgTree
      <4>. QED BY <3>1, <4>2, <4>3, <4>4, <4>5 DEF SignaturesTyped, SignatureSet
    <3>4. FuncsTyped'
      <4>1. blockFuncs' \subseteq [block : DOMAIN prog, name : STRING \cup RuntimeNames, node : DOMAIN prog \cup {Runtime}]
        BY <1>2, <1>7, <2>2, <2>3 DEF TablesTyped, FuncsTyped
      <4>2. ASSUME NEW g \in blockFuncs', g.node # Runtime PROVE Callable(g.node)'
        <5>1. CASE g.node = n
          BY <1>1, <2>1, <3>1, <3>3, <5>1 DEF Callable
        <5>2. CASE g.node # n
          <6>1. g \in blockFuncs /\ g.node \in DOMAIN prog
            BY <1>7, <4>1, <4>2, <5>2
          <6>. QED BY <1>2, <3>1, <3>3, <4>2, <5>2, <6>1 DEF TablesTyped, FuncsTyped, Callable
        <5>. QED BY <5>1, <5>2
      <4>3. blockFuncs' \subseteq [block : DOMAIN prog', name : STRING \cup RuntimeNames, node : DOMAIN prog' \cup {Runtime}]
        BY <3>1, <4>1
      <4>. QED BY <4>2, <4>3 DEF FuncsTyped
    <3>5. BlocksTyped' /\ TypesGrow /\ ScopeTyped' /\ IdsTyped' /\ DataTyped'
      BY <1>2, <1>7, <3>1, <3>2, BlocksStay, TablesStay
    <3>6. TablesTyped'
      BY <1>2, <3>1, <3>3, <3>4, <3>5 DEF TablesTyped
    <3>7. CodeKept /\ ScopeKept /\ FuncsKept /\ MembersKnown
      BY DEF Sound, SeenKept
    <3>8. CodeKept'
      BY <1>2, <1>7, <3>1, <3>2, <3>7, CodeSame
    <3>9. ScopeKept'
      BY <1>1, <1>2, <1>7, <3>7, SameScope
    <3>10. MembersKnown'
      BY <1>1, <1>2, <3>5, <3>7, SameMembers
    <3>11. \A k : EnclosingBlock(k)' = EnclosingBlock(k)
      BY <3>1 DEF EnclosingBlock
    <3>12. FuncsKept'
      <4>1. ASSUME NEW g \in blockFuncs', g.node # Runtime
            PROVE  /\ g.node \in Seen(prog', todo') /\ prog[g.node].k = "function"
                   /\ g.block = EnclosingBlock(g.node) /\ g.name = prog[g.node].name
        BY <1>1, <1>7, <3>1, <3>7, <4>1 DEF FuncsKept
      <4>2. ASSUME NEW m \in Seen(prog', todo'), prog[m].k = "function" PROVE \E g \in blockFuncs' : g.node = m
        <5>1. CASE m = n
          <6>1. f \in blockFuncs' /\ f.node = n
            BY <1>7
          <6>. QED BY <5>1, <6>1
        <5>2. CASE m # n
          <6>1. \E g \in blockFuncs : g.node = m
            BY <3>1, <3>7, <4>2, <5>2 DEF FuncsKept
          <6>. QED BY <1>7, <6>1
        <5>. QED BY <5>1, <5>2
      <4>3. ASSUME NEW g \in blockFuncs', NEW h \in blockFuncs', g.block = h.block, g.name = h.name PROVE g = h
        <5>1. \A x \in blockFuncs : ~(x.block = f.block /\ x.name = f.name)
          BY <1>7 DEF FunctionsIn
        <5>. QED BY <1>7, <3>7, <4>3, <5>1 DEF FuncsKept
      <4>. QED BY <3>1, <3>11, <4>1, <4>2, <4>3 DEF FuncsKept
    <3>. QED BY <3>6, <3>8, <3>9, <3>10, <3>12 DEF SeenKept
  <2>. QED BY <1>7, <2>4, Writing
<1>. QED BY <1>4, <1>5, <1>6, <1>7

\* An instruction that stores nothing, beside identifiers that were added.
LEMMA CodeGrows ==
  ASSUME TablesTyped, CodeKept, prog' = prog, IdsGrow, NEW c \in Instruction, c.stores = {}, c.fn = Home(c.node),
         code' = Append(code, c)
  PROVE  CodeKept'
<1>1. Instruction \subseteq Instruction'
  <2>1. SUBSET StoreSet \subseteq SUBSET (StoreSet')
    BY DEF StoreSet, IdsGrow
  <2>2. Instruction' = [op : Ops, node : DOMAIN prog, fn : 1..(2 * Len(prog)), ok : BOOLEAN, uses : SUBSET Uses,
                        stores : SUBSET (StoreSet'), words : SUBSET Nat]
    BY DEF Instruction
  <2>. HIDE DEF StoreSet
  <2>. QED BY <2>1, <2>2 DEF Instruction
<1>. DEFINE A == Instruction
            B == Instruction'
            d == Append(code, c)
<1>2. code \in Seq(A) /\ A \subseteq B /\ c \in A
  BY <1>1 DEF CodeKept, CodeTyped
<1>3. \A i \in DOMAIN code : code[i].stores \subseteq StoreSet
  <2>1. \A i \in DOMAIN code : code[i] \in A
    <3>. HIDE DEF A
    <3>. QED BY <1>2
  <2>. QED BY <2>1 DEF Instruction
<1>. HIDE DEF A, B
<1>4. d \in Seq(B) /\ \A i \in DOMAIN d : (i \in DOMAIN code /\ d[i] = code[i]) \/ d[i] = c
  BY <1>2
<1>. HIDE DEF d
<1>5. code' = d
  BY DEF d
<1>6. CodeTyped'
  BY <1>4, <1>5 DEF CodeTyped, B
<1>7. \A i \in DOMAIN d : d[i].ok => \A s \in d[i].stores : TypeFits(s)' \/ LeftToTheCheck(s)'
  <2>1. \A s \in StoreSet : TypeFits(s) \/ LeftToTheCheck(s) => TypeFits(s)' \/ LeftToTheCheck(s)'
    BY AllowedStays
  <2>2. \A i \in DOMAIN code : code[i].ok => \A s \in code[i].stores : TypeFits(s) \/ LeftToTheCheck(s)
    BY DEF CodeKept, CodeFits, StoresAllowed
  <2>3. ASSUME NEW i \in DOMAIN d, d[i].ok, NEW s \in d[i].stores PROVE TypeFits(s)' \/ LeftToTheCheck(s)'
    <3>1. i \in DOMAIN code /\ d[i] = code[i]
      BY <1>4, <2>3
    <3>. QED BY <1>3, <2>1, <2>2, <2>3, <3>1
  <2>. QED BY <2>3
<1>8. CodeFits'
  BY <1>5, <1>7 DEF CodeFits, StoresAllowed
<1>9. CodeHome'
  <2>1. \A i \in DOMAIN d : d[i].fn = Home(d[i].node)
    BY <1>4 DEF CodeKept, CodeHome
  <2>. QED BY <1>5, <2>1 DEF CodeHome, Home
<1>. QED BY <1>6, <1>8, <1>9 DEF CodeKept

DeclaredTypes(n) == {TypeIdFromInfo({x}, n) : x \in prog[n].types}
DeclaredList(n) == Cardinality(prog[n].types) > 1
\* What the identifier of a variable comes from: that of its one type, or those of a list.
DeclaredFrom(n, b) ==
  LET names == prog[n].types IN
  /\ names \in SUBSET Names /\ DeclaredTypes(n) \in SUBSET DOMAIN ids /\ DeclaredTypes(n) # {}
  /\ Pick(Named(b, names) \cup {Len(ids) + 1}) \in Named(b, names) \cup {Len(ids) + 1}
  /\ ~DeclaredList(n) => TypeIdFromInfo(names, n) \in DOMAIN ids /\ \E x : names = {x}
\* The types a declaration lists are found before its identifier is made of them.
LEMMA DeclaredId ==
  ASSUME TablesTyped, NEW n \in DOMAIN prog, NEW b \in DOMAIN prog, prog[n].types # {}, 0 \notin DeclaredTypes(n)
  PROVE  DeclaredFrom(n, b)
<1>. DEFINE names == prog[n].types
            each == DeclaredTypes(n)
<1>1. names \subseteq STRING /\ IsFiniteSet(names)
  BY ProgTree, ProgramFacts DEF TreeNodes, Complete
<1>2. \A x \in names : TypeIdFromInfo({x}, n) \in DOMAIN ids
  <2>. SUFFICES ASSUME NEW x \in names PROVE TypeIdFromInfo({x}, n) \in DOMAIN ids
    OBVIOUS
  <2>1. TypeIdFromInfo({x}, n) # 0
    BY DEF DeclaredTypes
  <2>. QED BY <2>1, FoundByName
<1>3. each \in SUBSET DOMAIN ids /\ each # {}
  BY <1>2 DEF DeclaredTypes
<1>4. Pick(Named(b, names) \cup {Len(ids) + 1}) \in Named(b, names) \cup {Len(ids) + 1}
  <2>. DEFINE S == Named(b, names) \cup {Len(ids) + 1}
              N == Len(ids) + 1
  <2>1. DOMAIN ids = 1..Len(ids) /\ Len(ids) \in Nat
    BY IdsAre DEF TablesTyped
  <2>2. Named(b, names) \subseteq DOMAIN ids
    BY DEF Named, TablesTyped, BlocksTyped
  <2>3. S \in SUBSET (0..N) /\ S # {} /\ N \in Nat
    BY <2>1, <2>2
  <2>. HIDE DEF S, N
  <2>4. Pick(S) \in S
    BY <2>3, PickFacts
  <2>. QED BY <2>4 DEF S
<1>5. ASSUME ~(Cardinality(names) > 1) PROVE TypeIdFromInfo(names, n) \in DOMAIN ids /\ \E x : names = {x}
  <2>1. PICK x : x \in names
    OBVIOUS
  <2>2. names = {x}
    <3>1. Cardinality(names) \in Nat /\ Cardinality(names) # 0
      BY <1>1, FS_CardinalityType, FS_EmptySet
    <3>2. Cardinality(names) = 1
      BY <1>5, <3>1
    <3>3. \E y : names = {y}
      BY <1>1, <3>2, FS_Singleton
    <3>. QED BY <2>1, <3>3
  <2>. QED BY <1>2, <2>1, <2>2
<1>. QED BY <1>1, <1>3, <1>4, <1>5 DEF Names, DeclaredFrom, DeclaredList

DeclaredVar(n) ==
  LET b == EnclosingBlock(n)
      names == prog[n].types
      id == IF DeclaredList(n) THEN Pick(Named(b, names) \cup {Len(ids) + 1}) ELSE TypeIdFromInfo(names, n)
  IN  [block |-> b, name |-> prog[n].name, node |-> n, ty |-> id, fn |-> at, returned |-> FALSE]
TaggedWords(n) == IF DeclaredList(n) THEN {UnionField(1)} ELSE {}
\* What a declaration that is taken does.
Declares(n) ==
  /\ prog[n].types # {} /\ 0 \notin DeclaredTypes(n) /\ Variables(EnclosingBlock(n), prog[n].name) = {}
  /\ ids' = IF DeclaredList(n) THEN Append(ids, TypeListId(prog[n].types, DeclaredTypes(n))) ELSE ids
  /\ blockTypes' = IF DeclaredList(n) THEN [blockTypes EXCEPT ![EnclosingBlock(n)] = blockTypes[EnclosingBlock(n)] \cup {Len(ids) + 1}]
                   ELSE blockTypes
  /\ blockScope' = blockScope \cup {DeclaredVar(n)}
  /\ code' = InsertedIn(at, "alloca", n, [Value(DeclaredVar(n).ty, Lt(1, Union)) EXCEPT !.words = TaggedWords(n)])
  /\ UNCHANGED <<blockFuncs, signatures, tyData, place, status>>

\* The ways visitDeclaration ends.
LEMMA DeclarationIs ==
  ASSUME NEW n, VisitDeclaration(n)
  PROVE  DueVisit("decl", n) /\ (Fail("internal") \/ Fail("type") \/ Fail("redefined") \/ Declares(n))
<1>1. DueVisit("decl", n)
  BY DEF VisitDeclaration
<1>2. ASSUME ~(Fail("internal") \/ Fail("type") \/ Fail("redefined")) PROVE Declares(n)
  <2>. DEFINE b == EnclosingBlock(n)
              names == prog[n].types
              each == {TypeIdFromInfo({x}, n) : x \in names}
              isList == Cardinality(names) > 1
              new == Len(ids) + 1
              id == IF isList THEN Pick(Named(b, names) \cup {new}) ELSE TypeIdFromInfo(names, n)
              var == [block |-> b, name |-> prog[n].name, node |-> n, ty |-> id, fn |-> at, returned |-> FALSE]
              tagged == [Value(id, Lt(1, Union)) EXCEPT !.words = IF isList THEN {UnionField(1)} ELSE {}]
  <2>1. /\ names # {} /\ 0 \notin each /\ ~Defined(b, prog[n].name)
        /\ ids' = IF isList THEN Append(ids, TypeListId(names, each)) ELSE ids
        /\ blockTypes' = IF isList THEN [blockTypes EXCEPT ![b] = blockTypes[b] \cup {new}] ELSE blockTypes
        /\ blockScope' = blockScope \cup {var}
        /\ code' = Inserted("alloca", n, tagged)
        /\ UNCHANGED <<blockFuncs, signatures, tyData, place, status>>
    BY <1>2 DEF VisitDeclaration
  <2>2. isList = DeclaredList(n) /\ each = DeclaredTypes(n) /\ var = DeclaredVar(n) /\ var.ty = id
    BY DEF DeclaredList, DeclaredTypes, DeclaredVar
  <2>3. code' = InsertedIn(at, "alloca", n, [Value(id, Lt(1, Union)) EXCEPT !.words = TaggedWords(n)])
    BY <2>1, <2>2 DEF Inserted, TaggedWords
  <2>. HIDE DEF each, var, id, tagged
  <2>. QED BY <2>1, <2>2, <2>3 DEF Declares, Defined
<1>. QED BY <1>1, <1>2

\* The tables after a declaration that is taken.
LEMMA DeclaresTables ==
  ASSUME TablesTyped, prog' = prog, NEW n \in DOMAIN prog, n # 1, at \in 1..(2 * Len(prog)), Declares(n)
  PROVE  TablesTyped' /\ TypesGrow /\ DeclaredVar(n) \in ScopeRecords'
<1>. DEFINE b == EnclosingBlock(n)
            names == prog[n].types
            each == DeclaredTypes(n)
            new == Len(ids) + 1
            var == DeclaredVar(n)
<1>1. b \in DOMAIN prog
  BY Enclosed
<1>2. /\ names \in SUBSET Names /\ each \in SUBSET DOMAIN ids /\ each # {}
      /\ DeclaredList(n) => Pick(Named(b, names) \cup {new}) \in Named(b, names) \cup {new}
      /\ ~DeclaredList(n) => TypeIdFromInfo(names, n) \in DOMAIN ids
  <2>1. DeclaredFrom(n, b)
    BY <1>1, DeclaredId DEF Declares
  <2>. QED BY <2>1 DEF DeclaredFrom
<1>3. IdsTyped /\ DOMAIN ids = 1..Len(ids) /\ Len(ids) \in Nat
  BY IdsAre DEF TablesTyped
<1>4. Named(b, names) \subseteq DOMAIN ids
  BY <1>1 DEF Named, TablesTyped, BlocksTyped
<1>. HIDE DEF each
<1>5. IdsTyped' /\ IdsGrow /\ (DeclaredList(n) => new \in DOMAIN ids') /\ var.ty \in DOMAIN ids'
  <2>1. CASE DeclaredList(n)
    <3>1. ids' = Append(ids, [names |-> names, types |-> each])
      BY <2>1 DEF Declares, TypeListId, each
    <3>2. each \in SUBSET (1..(Len(ids) + 1))
      BY <1>2, <1>3
    <3>3. IdsTyped' /\ IdsGrow /\ new \in DOMAIN ids'
      <4>. HIDE DEF names
      <4>. QED BY <1>2, <1>3, <3>1, <3>2, IdsAppend
    <3>4. var.ty = Pick(Named(b, names) \cup {new})
      BY <2>1 DEF DeclaredVar
    <3>. QED BY <1>2, <1>4, <2>1, <3>3, <3>4 DEF IdsGrow
  <2>2. CASE ~DeclaredList(n)
    <3>1. ids' = ids
      BY <2>2 DEF Declares
    <3>2. var.ty = TypeIdFromInfo(names, n)
      BY <2>2 DEF DeclaredVar
    <3>. QED BY <1>2, <1>3, <2>2, <3>1, <3>2 DEF IdsTyped, IdsGrow
  <2>. QED BY <2>1, <2>2
<1>6. BlocksTyped' /\ TypesGrow
  <2>1. CASE DeclaredList(n)
    <3>1. blockTypes' = [blockTypes EXCEPT ![b] = blockTypes[b] \cup {new}]
      BY <2>1 DEF Declares
    <3>. HIDE DEF b, new
    <3>. QED BY <1>1, <1>5, <2>1, <3>1, BlocksLearn
  <2>2. CASE ~DeclaredList(n)
    BY <1>5, <2>2, BlocksStay DEF Declares
  <2>. QED BY <2>1, <2>2
<1>7. SignaturesTyped' /\ FuncsTyped' /\ DataTyped'
  BY <1>5, TablesStay DEF Declares
<1>8. var \in ScopeRecords'
  <2>1. prog[n].name \in STRING
    BY ProgTree, ProgramFacts DEF TreeNodes
  <2>2. var = [block |-> b, name |-> prog[n].name, node |-> n, ty |-> var.ty, fn |-> at, returned |-> FALSE]
    BY DEF DeclaredVar
  <2>3. ScopeRecords' = [block : DOMAIN prog, name : STRING, node : DOMAIN prog, ty : DOMAIN ids',
                         fn : 1..(2 * Len(prog)), returned : BOOLEAN]
    BY DEF ScopeRecords
  <2>. DEFINE ty == var.ty
              name == prog[n].name
  <2>4. ty \in DOMAIN ids' /\ name \in STRING /\ var = [block |-> b, name |-> name, node |-> n, ty |-> ty, fn |-> at, returned |-> FALSE]
    BY <1>5, <2>1, <2>2
  <2>. HIDE DEF var, b, ty, name
  <2>. QED BY <1>1, <2>3, <2>4
<1>9. ScopeTyped'
  <2>1. ScopeRecords \subseteq ScopeRecords'
    BY <1>5 DEF ScopeRecords, IdsGrow
  <2>2. blockScope \subseteq ScopeRecords
    BY DEF TablesTyped, ScopeTyped, ScopeRecords
  <2>3. blockScope' = blockScope \cup {var}
    BY DEF Declares
  <2>. HIDE DEF var
  <2>4. blockScope' \subseteq ScopeRecords'
    BY <1>8, <2>1, <2>2, <2>3
  <2>. QED BY <2>4 DEF ScopeTyped, ScopeRecords
<1>. QED BY <1>5, <1>6, <1>7, <1>8, <1>9 DEF TablesTyped

\* visitDeclaration.
LEMMA DeclarationWrites ==
  ASSUME Sound, Moves \/ Idle, NEW n, VisitDeclaration(n)
  PROVE  Writes
<1>1. Due("visit", n) /\ prog[n].k = "decl"
  BY DeclarationIs DEF DueVisit
<1>2. /\ TablesTyped /\ StackTyped /\ Control /\ n \in DOMAIN prog /\ Head(todo).t = "visit" /\ Head(todo).n = n
      /\ at \in 1..(2 * Len(prog))
  BY <1>1, DueNow
<1>3. CASE Fail("internal") \/ Fail("type") \/ Fail("redefined")
  BY <1>3 DEF Writes, Failed, Failures, Errors
<1>4. CASE Declares(n)
  <2>. DEFINE var == DeclaredVar(n)
  <2>1. n # 1
    BY <1>1, <1>2, ProgTree, ProgramFacts
  <2>2. status' = status
    BY <1>4 DEF Declares
  <2>3. Moves => TablesTyped' /\ CodeKept' /\ SeenKept'
    <3>. SUFFICES ASSUME Moves PROVE TablesTyped' /\ CodeKept' /\ SeenKept'
      OBVIOUS
    <3>1. prog' = prog /\ Seen(prog', todo') = Seen(prog, todo) \cup {n}
      BY <1>2, MovesSee DEF Visited
    <3>2. TablesTyped' /\ TypesGrow /\ IdsGrow /\ var \in ScopeRecords'
      BY <1>2, <1>4, <2>1, <3>1, DeclaresTables DEF TypesGrow
    <3>3. CodeKept /\ ScopeKept /\ FuncsKept /\ MembersKnown
      BY DEF Sound, SeenKept
    <3>4. at = Home(n)
      BY <1>1, <1>2, OwnHome
    <3>5. CodeKept'
      <4>. DEFINE v == [Value(var.ty, Lt(1, Union)) EXCEPT !.words = TaggedWords(n)]
                  c == [op |-> "alloca", node |-> n, fn |-> at, ok |-> v.ok, uses |-> v.uses, stores |-> v.stores,
                        words |-> v.words]
      <4>1. v.ok = TRUE /\ v.uses = {} /\ v.stores = {} /\ v.words = TaggedWords(n)
        BY DEF Value
      <4>2. TaggedWords(n) \in SUBSET Nat
        BY DEF TaggedWords, UnionField, UnionWords
      <4>3. code' = Append(code, c)
        BY <1>4 DEF Declares, InsertedIn
      <4>. HIDE DEF v
      <4>4. c \in Instruction /\ c.stores = {} /\ c.fn = Home(c.node)
        BY <1>2, <3>4, <4>1, <4>2 DEF Instruction, Ops
      <4>. HIDE DEF c
      <4>. QED BY <1>2, <3>1, <3>2, <3>3, <4>3, <4>4, CodeGrows
    <3>6. FuncsKept'
      BY <1>1, <1>2, <1>4, <3>3, SameFuncs DEF Declares
    <3>7. MembersKnown'
      BY <1>1, <1>2, <3>2, <3>3, SameMembers
    <3>8. ScopeKept'
      <4>1. /\ blockScope' = blockScope \cup {var} /\ var.node = n /\ var.block = EnclosingBlock(n)
            /\ var.name = prog[n].name /\ var.fn = at
            /\ \A u \in blockScope : ~(u.block = var.block /\ u.name = var.name)
        BY <1>4 DEF Declares, DeclaredVar, Variables
      <4>. HIDE DEF var
      <4>2. ASSUME NEW u \in blockScope'
            PROVE  /\ u.node \in Seen(prog', todo') /\ prog[u.node].k = "decl" /\ u.block = EnclosingBlock(u.node)
                   /\ u.name = prog[u.node].name /\ u.fn = Home(u.node)
        BY <1>1, <3>1, <3>3, <3>4, <4>1 DEF ScopeKept
      <4>3. ASSUME NEW m \in Seen(prog', todo'), prog[m].k = "decl" PROVE \E u \in blockScope' : u.node = m
        <5>1. CASE m = n
          BY <4>1, <5>1
        <5>2. CASE m # n
          <6>1. \E u \in blockScope : u.node = m
            BY <3>1, <3>3, <4>3, <5>2 DEF ScopeKept
          <6>. QED BY <4>1, <6>1
        <5>. QED BY <5>1, <5>2
      <4>4. ASSUME NEW u \in blockScope', NEW w \in blockScope', u.block = w.block, u.name = w.name PROVE u = w
        BY <3>3, <4>1, <4>4 DEF ScopeKept
      <4>5. \A k : EnclosingBlock(k)' = EnclosingBlock(k) /\ Home(k)' = Home(k)
        BY <3>1 DEF EnclosingBlock, Home
      <4>. QED BY <3>1, <4>2, <4>3, <4>4, <4>5 DEF ScopeKept
    <3>. QED BY <3>2, <3>5, <3>6, <3>7, <3>8 DEF SeenKept
  <2>. QED BY <2>2, <2>3, Writing
<1>. QED BY <1>3, <1>4, DeclarationIs

(***************************************************************************)
(* Every step                                                              *)
(***************************************************************************)
\* LLVM accepted all of a module that was compiled.
Accepted == status = "compiled" => \A i \in DOMAIN code : code[i].ok

\* Every step writes what it may.
LEMMA StepWrites ==
  ASSUME Sound, Moves \/ Idle, NEW n, Statement(n) \/ TypeStep(n)
  PROVE  Writes
<1>1. CASE Statement(n)
  BY <1>1, DeclarationWrites, InitializeWrites, ConditionWrites, StepsWrite, FunctionWrites, ReturnWrites DEF Statement
<1>2. CASE TypeStep(n)
  BY <1>2, TypeWritten, MemberWrites, MethodWrites, AddWrites, ConstructorWrites, KnownWrites, MembersWrite, StepsWrite,
     BodiesWrite DEF TypeStep
<1>. QED BY <1>1, <1>2

\* Nothing is due once the compilation is over.
LEMMA DueCompiles ==
  ASSUME NEW n, Statement(n) \/ TypeStep(n)
  PROVE  status = "compiling"
BY DEF Statement, TypeStep, VisitDeclaration, Initialize, VisitExpression, VisitBlock, VisitBranch, VisitLoop, Condition,
  Update, VisitFunction, EndFunction, VisitReturn, VisitType, VisitMember, VisitMethod, AddMethod, VisitConstructor, Finalize,
  BeginInit, InitMember, EndInit, StaticMember, MethodBody, ConstructorBody, EndConstructor, BecomeKnown, DueVisit, Due

\* The tables, the instructions and the tasks stay sound.
LEMMA NextSound ==
  ASSUME Sound, StatusTyped, Accepted, Next
  PROVE  Sound' /\ StatusTyped' /\ Accepted'
<1>1. TablesTyped /\ Control /\ StackTyped
  BY DEF Sound
<1>2. Control' /\ StackTyped' /\ (Idle \/ Moves)
  BY <1>1, NextControls DEF Stepped
<1>3. CASE Finish
  <2>1. Idle
    BY <1>3 DEF Finish, Idle
  <2>2. Sound'
    BY <1>2, <2>1, IdleWrites DEF Sound
  <2>3. code' = code /\ StatusTyped'
    BY <1>3 DEF Finish, StatusTyped, Failures
  <2>4. Accepted'
    BY <1>3, <2>3 DEF Finish, Accepted
  <2>. QED BY <2>2, <2>3, <2>4
<1>4. CASE \E n \in DOMAIN prog : Statement(n) \/ TypeStep(n)
  <2>1. PICK n \in DOMAIN prog : Statement(n) \/ TypeStep(n)
    BY <1>4
  <2>2. Writes /\ status = "compiling"
    BY <1>2, <2>1, StepWrites, DueCompiles
  <2>3. CASE Failed
    <3>1. PICK how \in Failures : Fail(how)
      BY <2>3 DEF Failed
    <3>2. Idle /\ status' = how
      BY <3>1 DEF Fail, Idle
    <3>3. Sound'
      BY <1>2, <3>2, IdleWrites DEF Sound
    <3>4. StatusTyped' /\ Accepted'
      BY <3>2 DEF StatusTyped, Accepted, Failures, Errors
    <3>. QED BY <3>3, <3>4
  <2>4. CASE ~Failed
    BY <1>2, <2>2, <2>4 DEF Writes, Sound, StatusTyped, Accepted
  <2>. QED BY <2>3, <2>4
<1>. QED BY <1>3, <1>4 DEF Next

(***************************************************************************)
(* The beginning                                                           *)
(***************************************************************************)
LEMMA BasicIdsTyped ==
  /\ BasicIds \in Seq([names : SUBSET Names, types : SUBSET Nat]) /\ Len(BasicIds) = 5 /\ DOMAIN BasicIds = 1..5
  /\ \A i \in 1..5 : BasicIds[i].types = {i}
<1>. DEFINE I == [names : SUBSET Names, types : SUBSET Nat]
            a == TypeId(Integer, "Integer")
            b == TypeId(Float, "Float")
            c == TypeId(Boolean, "Boolean")
            d == TypeId(Function, "Function")
            e == TypeId(Void, "Void")
<1>1. a \in I /\ b \in I /\ c \in I /\ d \in I /\ e \in I
  BY DEF TypeId, Names, Integer, Float, Boolean, Function, Void
<1>2. a.types = {1} /\ b.types = {2} /\ c.types = {3} /\ d.types = {4} /\ e.types = {5}
  BY DEF TypeId, Integer, Float, Boolean, Function, Void
<1>. DEFINE s == <<a, b, c, d, e>>
<1>3. BasicIds = s
  BY DEF BasicIds
<1>. HIDE DEF I, a, b, c, d, e
<1>4. s \in Seq(I) /\ Len(s) = 5 /\ s[1] = a /\ s[2] = b /\ s[3] = c /\ s[4] = d /\ s[5] = e
  BY <1>1
<1>5. DOMAIN s = 1..5
  BY <1>4
<1>6. \A i \in 1..5 : i = 1 \/ i = 2 \/ i = 3 \/ i = 4 \/ i = 5
  OBVIOUS
<1>. HIDE DEF s
<1>. QED BY <1>2, <1>3, <1>4, <1>5, <1>6 DEF I

\* At the start they are.
LEMMA InitSound ==
  ASSUME Init
  PROVE  Sound /\ StatusTyped /\ Accepted
<1>1. Control /\ StackTyped
  BY InitControls
<1>2. prog \in Programs /\ IsProgram(prog) /\ DOMAIN prog = 1..Len(prog) /\ Len(prog) \in Nat \ {0} /\ 1 \in DOMAIN prog
  BY ProgramsAssumption, ProgramFacts DEF Init
<1>3. IdsTyped /\ DOMAIN ids = 1..5
  <2>1. ids = BasicIds
    BY DEF Init
  <2>. DEFINE I == [names : SUBSET Names, types : SUBSET Nat]
  <2>2. ids \in Seq(I) /\ Len(ids) = 5 /\ DOMAIN ids = 1..5 /\ \A i \in DOMAIN ids : ids[i].types = {i}
    BY <2>1, BasicIdsTyped
  <2>3. \A i \in DOMAIN ids : ids[i].types \subseteq DOMAIN ids /\ ids[i].types # {}
    BY <2>2
  <2>. HIDE DEF I
  <2>4. Len(ids) >= 5
    BY <2>2
  <2>. QED BY <2>2, <2>3, <2>4 DEF IdsTyped, I
<1>4. BlocksTyped
  BY <1>2, <1>3 DEF Init, BlocksTyped, Integer, Float, Boolean, Function
<1>5. /\ blockScope = {} /\ code = <<>> /\ status = "compiling" /\ todo = <<Visit(1)>>
      /\ blockFuncs = {[block |-> 1, name |-> x, node |-> Runtime] : x \in RuntimeNames}
  BY DEF Init
<1>6. ScopeTyped /\ FuncsTyped
  <2>. DEFINE F == [block : DOMAIN prog, name : STRING \cup RuntimeNames, node : DOMAIN prog \cup {Runtime}]
  <2>1. \A x \in RuntimeNames : [block |-> 1, name |-> x, node |-> Runtime] \in F
    BY <1>2
  <2>. HIDE DEF F
  <2>2. blockFuncs \subseteq F /\ \A f \in blockFuncs : f.node = Runtime
    BY <1>5, <2>1
  <2>. QED BY <1>5, <2>2 DEF ScopeTyped, FuncsTyped, F
<1>7. SignaturesTyped
  <2>. DEFINE R == [args : Seq(Lts), ret : Nat]
              main == [NoSignature EXCEPT !.ret = Integer]
  <2>1. <<>> \in Seq(Lts)
    OBVIOUS
  <2>2. NoSignature \in R /\ main \in R
    BY <2>1 DEF NoSignature, Void, Integer
  <2>3. signatures = [f \in 1..(2 * Len(prog)) |-> IF f = 1 THEN main ELSE NoSignature]
    BY DEF Init
  <2>. HIDE DEF R, main
  <2>4. signatures \in [1..(2 * Len(prog)) -> R]
    BY <2>2, <2>3
  <2>. QED BY <2>4 DEF SignaturesTyped, R
<1>8. DataTyped
  <2>. DEFINE none == <<>>
  <2>1. none \in Seq(DOMAIN prog) /\ none \in Seq([node : DOMAIN prog, of : Nat])
    OBVIOUS
  <2>2. NoData = [tid |-> 0, members |-> none, statics |-> none, methods |-> none, constructors |-> none,
                  laidOut |-> FALSE, initExists |-> FALSE]
    BY DEF NoData
  <2>. HIDE DEF none
  <2>3. NoData \in DataSet
    BY <2>1, <2>2 DEF DataSet
  <2>4. tyData = [n \in DOMAIN prog |-> NoData]
    BY DEF Init
  <2>. QED BY <2>3, <2>4 DEF DataTyped
<1>9. TablesTyped
  BY <1>2, <1>3, <1>4, <1>6, <1>7, <1>8 DEF TablesTyped
<1>10. CodeKept
  <2>1. code \in Seq(Instruction) /\ DOMAIN code = {}
    BY <1>5
  <2>. QED BY <2>1 DEF CodeKept, CodeTyped, CodeFits, CodeHome
<1>11. SeenKept
  <2>1. Seen(prog, todo) = {}
    <3>. DEFINE x == Visit(1)
                q == <<x>>
    <3>1. x.t = "visit" /\ x.n = 1 /\ prog[1].k = "block" /\ todo = q
      BY <1>2, <1>5, ProgramFacts DEF Visit, IsProgram
    <3>. HIDE DEF x
    <3>2. Among(q) = {x}
      BY AmongOne
    <3>3. ~Deferred(prog, 1)
      BY <3>1 DEF Deferred
    <3>4. \A m \in DOMAIN prog : Within(prog, m, 1)
      BY <1>2, WithinOrder
    <3>5. Claims(prog, x) = DOMAIN prog
      BY <1>2, <3>1, <3>3, <3>4 DEF Claims, Inner
    <3>. HIDE DEF q
    <3>. QED BY <3>1, <3>2, <3>5 DEF Seen
  <2>2. ScopeKept /\ MembersKnown
    BY <1>5, <2>1 DEF ScopeKept, MembersKnown
  <2>3. FuncsKept
    BY <1>5, <2>1 DEF FuncsKept
  <2>. QED BY <2>2, <2>3 DEF SeenKept
<1>12. StatusTyped /\ Accepted
  BY <1>5 DEF StatusTyped, Accepted
<1>. QED BY <1>1, <1>9, <1>10, <1>11, <1>12 DEF Sound

\* A stutter keeps them.
LEMMA SameSound ==
  ASSUME Sound, StatusTyped, Accepted, UNCHANGED compilerVars
  PROVE  Sound' /\ StatusTyped' /\ Accepted'
<1>1. Idle /\ status' = status /\ code' = code
  BY DEF compilerVars, Idle, given, tables, place
<1>2. TablesTyped' /\ CodeKept' /\ SeenKept'
  BY <1>1, IdleWrites
<1>3. Control' /\ StackTyped'
  BY DEF compilerVars, Control, StackTyped, Sound
<1>. QED BY <1>1, <1>2, <1>3 DEF Sound, StatusTyped, Accepted

\* The inductive invariant: tables, instructions, what was visited and the
\* tasks agree, and what was accepted was allowed.
LEMMA SoundAlways == Spec => [](Sound /\ StatusTyped /\ Accepted)
<1>. DEFINE I == Sound /\ StatusTyped /\ Accepted
<1>1. Init => I
  BY InitSound
<1>2. I /\ [Next]_compilerVars => I'
  BY NextSound, SameSound
<1>. QED BY <1>1, <1>2, PTL DEF Spec

\* The tables of ModuleCompiler (compiler.cpp) never refer to a node, a
\* function or an identifier that is not there, and as long as something is to
\* be visited there is a function to insert in: functionStack and the insert
\* point, which visitFunction, visitType, finalize and the constructors change
\* and restore each on their own, never run empty, for every program.
THEOREM TypesHold == Spec => []TypeOK
<1>1. Sound /\ StatusTyped => TypeOK
  <2>. SUFFICES ASSUME Sound, StatusTyped PROVE TypeOK
    OBVIOUS
  <2>1. TablesTyped /\ CodeTyped /\ StackTyped /\ Control
    BY DEF Sound, CodeKept
  <2>2. DOMAIN prog = 1..Len(prog) /\ Len(prog) \in Nat \ {0}
    BY <2>1, ProgTree
  <2>3. \A i \in IdNumbers : ids[i].types \subseteq IdNumbers /\ ids[i].types # {}
    BY <2>1 DEF TablesTyped, IdsTyped, IdNumbers
  <2>4. Functions = 1..(2 * Len(prog))
    BY <2>1 DEF TablesTyped, SignaturesTyped, Functions
  <2>5. blockTypes \in [Nodes -> SUBSET IdNumbers]
    BY <2>1 DEF TablesTyped, BlocksTyped, Nodes, IdNumbers
  <2>6. \A v \in blockScope : v.block \in Nodes /\ v.node \in Nodes /\ v.ty \in IdNumbers /\ v.fn \in Functions
    BY <2>1, <2>4 DEF TablesTyped, ScopeTyped, Nodes, IdNumbers
  <2>7. \A f \in blockFuncs : f.block \in Nodes /\ f.node \in Nodes \cup {Runtime}
    BY <2>1 DEF TablesTyped, FuncsTyped, Nodes
  <2>8. functionStack \in Seq(Functions) /\ at \in Functions /\ functionStack # <<>>
    BY <2>1, <2>4 DEF StackTyped, Stacks
  <2>9. \A i \in DOMAIN code : code[i].node \in Nodes /\ code[i].fn \in Functions
    <3>1. \A i \in DOMAIN code : code[i] \in Instruction
      <4>. HIDE DEF Instruction
      <4>. QED BY <2>1 DEF CodeTyped
    <3>. QED BY <2>4, <3>1 DEF Instruction, Nodes
  <2>10. \A i \in DOMAIN todo : todo[i].n \in Nodes /\ todo[i].old \in {0} \cup Functions
    BY <2>1, <2>2, <2>4 DEF Control, Controlled, Queue, Fits, Nodes
  <2>. QED BY <2>3, <2>5, <2>6, <2>7, <2>8, <2>9, <2>10 DEF TypeOK, StatusTyped, Failures
<1>2. Spec => []TypeOK
  BY <1>1, SoundAlways, PTL
<1>. QED BY <1>2

\* In a module that LLVM's verifier accepts, every value stored or passed (by
\* visitDeclaration, an assignment, a call, a member) has an identifier all of
\* whose types its place allows, for every program: where typeCheck lets more
\* through and leaves it to a check at run time, which is a stub, the verifier has
\* rejected the store.  A value that is returned is of a type the function
\* returns, or of a list that has one of those: only what visitReturn loads from a
\* union rests on the stub.
THEOREM StoresHold == Spec => []StoresFit
<1>1. Sound /\ Accepted => StoresFit
  BY DEF Sound, Accepted, StoresFit, CodeKept, CodeFits, StoresAllowed
<1>. QED BY <1>1, SoundAlways, PTL

(***************************************************************************)
(* What blocks learn                                                       *)
(***************************************************************************)
Learned == UNION {blockTypes[b] : b \in DOMAIN prog}
VisibleAt(n) == UNION {blockTypes[b] : b \in BlocksAbove(prog, n)}
\* An identifier with one name is that of a type, which allows itself.
OneName(i) == \E x : ids[i].names = {x}
IdsMeant == \A i \in DOMAIN ids : OneName(i) => ids[i].types = {i}
IsType(t) == t \in DOMAIN prog /\ prog[t].k = "type" /\ TidOf(t) # 0
TidsMeant ==
  /\ \A t : IsType(t) => TidOf(t) > 5 /\ ids[TidOf(t)].names = {prog[t].name}
  /\ \A t, u : IsType(t) /\ IsType(u) /\ TidOf(t) = TidOf(u) => t = u
\* What a block knows allows types that it, or a block above it, knows by one of the
\* names, and by each of them.
Grounded(b, i) ==
  LET around == {b} \cup BlocksAbove(prog, b) IN
  /\ \A j \in ids[i].types : \E c \in around, x \in ids[i].names : j \in blockTypes[c] /\ ids[j].names = {x}
  /\ \A x \in ids[i].names : \E j \in ids[i].types : ids[j].names = {x}
BlocksGrounded == \A b \in DOMAIN prog : \A i \in blockTypes[b] : Grounded(b, i)
\* The variables' types are known somewhere.
ScopeGrounded == \A v \in blockScope : v.ty \in Learned
\* Of a type that is known nothing is left to be done.
Settled ==
  \A t : IsType(t) /\ TidOf(t) \in Learned =>
    tyData[t].laidOut /\ \A y \in Among(todo) : y.n # t /\ prog[y.n].parent # t
LaidOutFirst == \A y \in Among(todo) : y.t = "known" => tyData[y.n].laidOut
\* A block that was not visited knows nothing but, if it is the root, what is basic.
Distinct(S) == \A i, j \in S : OneName(i) /\ ids[i].names = ids[j].names => i = j
BlocksFresh ==
  \A b \in DOMAIN prog \ Seen(prog, todo) : IF b = 1 THEN Distinct(blockTypes[1]) ELSE blockTypes[b] = {}
\* Where there is something to do a name means one type, and that of a type that is
\* not known yet means none.
NamesDistinct == \A y \in Among(todo) : Distinct(VisibleAt(y.n))
Unnamed(n) == \A i \in VisibleAt(n) : ids[i].names # {prog[n].name}
ClosingUnnamed == \A y \in Among(todo) : Closing(y) => Unnamed(y.n)

LearnedWell ==
  /\ IdsMeant /\ TidsMeant /\ BlocksGrounded /\ ScopeGrounded
  /\ Settled /\ LaidOutFirst /\ BlocksFresh /\ NamesDistinct /\ ClosingUnnamed

(***************************************************************************)
(* What steps do to identifiers, to what blocks know and to types          *)
(***************************************************************************)
TypesStay == /\ \A t \in DOMAIN prog : tyData'[t].tid = tyData[t].tid /\ (tyData[t].laidOut => tyData'[t].laidOut)
             /\ Head(todo).t = "finalize" => tyData'[Head(todo).n].laidOut
VariablesStay == \A v \in blockScope' : \E u \in blockScope : v.ty = u.ty
Calm == UNCHANGED <<ids, blockTypes>> /\ VariablesStay /\ TypesStay
MakesType(n) ==
  /\ DueVisit("type", n) /\ ~Known(n)
  /\ ids' = Append(ids, TypeId(Len(ids) + 1, prog[n].name)) /\ tyData' = [tyData EXCEPT ![n].tid = Len(ids) + 1]
  /\ UNCHANGED <<blockTypes, blockScope>>
LearnsType(n) ==
  /\ Due("known", n) /\ TodoFirst(<<>>)
  /\ blockTypes' = [blockTypes EXCEPT ![EnclosingBlock(n)] = blockTypes[EnclosingBlock(n)] \cup {TidOf(n)}]
  /\ UNCHANGED <<ids, blockScope, tyData>>
Effect(n) == Idle \/ Calm \/ MakesType(n) \/ LearnsType(n) \/ (DueVisit("decl", n) /\ Declares(n))

\* A step that teaches nothing.
LEMMA CalmIs ==
  ASSUME UNCHANGED <<ids, blockTypes, tyData>>, VariablesStay, Head(todo).t # "finalize"
  PROVE  Calm
BY DEF Calm, TypesStay

\* A step that leaves the tables teaches nothing.
LEMMA TablesCalm ==
  ASSUME UNCHANGED tables, Head(todo).t # "finalize"
  PROVE  Calm
BY CalmIs DEF tables, VariablesStay

\* Inserting an instruction teaches nothing.
LEMMA InsertEffect ==
  ASSUME NEW k, NEW n, NEW op, NEW v, Insert(op, n, v), Due(k, n), k # "finalize"
  PROVE  Effect(n)
<1>1. Head(todo).t # "finalize"
  BY DEF Due
<1>2. CASE v.how # "ok"
  BY <1>2 DEF Insert, Fail, Idle, Effect
<1>3. CASE v.how = "ok"
  BY <1>1, <1>3, TablesCalm DEF Insert, Effect
<1>. QED BY <1>2, <1>3

\* A list of one type gets longer, and nothing else of it changes.
LEMMA BuildStays ==
  ASSUME TablesTyped, NEW t \in DOMAIN prog, NEW entry, NEW field \in {"members", "statics", "methods", "constructors"},
         Build(t, field, entry), Head(todo).t # "finalize"
  PROVE  TypesStay
<1>1. \A m \in DOMAIN prog : tyData[m] \in DataSet /\ m \in DOMAIN tyData
  BY DataIs
<1>2. ASSUME NEW e, e.tid = tyData[t].tid, e.laidOut = tyData[t].laidOut, tyData' = [tyData EXCEPT ![t] = e] PROVE TypesStay
  BY <1>1, <1>2 DEF TypesStay
<1>3. CASE field = "members"
  <2>. DEFINE e == [tyData[t] EXCEPT !.members = Append(tyData[t].members, entry)]
  <2>1. tyData' = [tyData EXCEPT ![t] = e]
    BY <1>3, BuildIs
  <2>2. e.tid = tyData[t].tid /\ e.laidOut = tyData[t].laidOut
    BY <1>1 DEF DataSet
  <2>. HIDE DEF e
  <2>. QED BY <1>2, <2>1, <2>2
<1>4. CASE field = "statics"
  <2>. DEFINE e == [tyData[t] EXCEPT !.statics = Append(tyData[t].statics, entry)]
  <2>1. tyData' = [tyData EXCEPT ![t] = e]
    BY <1>4, BuildIs
  <2>2. e.tid = tyData[t].tid /\ e.laidOut = tyData[t].laidOut
    BY <1>1 DEF DataSet
  <2>. HIDE DEF e
  <2>. QED BY <1>2, <2>1, <2>2
<1>5. CASE field = "methods"
  <2>. DEFINE e == [tyData[t] EXCEPT !.methods = Append(tyData[t].methods, entry)]
  <2>1. tyData' = [tyData EXCEPT ![t] = e]
    BY <1>5, BuildIs
  <2>2. e.tid = tyData[t].tid /\ e.laidOut = tyData[t].laidOut
    BY <1>1 DEF DataSet
  <2>. HIDE DEF e
  <2>. QED BY <1>2, <2>1, <2>2
<1>6. CASE field = "constructors"
  <2>. DEFINE e == [tyData[t] EXCEPT !.constructors = Append(tyData[t].constructors, entry)]
  <2>1. tyData' = [tyData EXCEPT ![t] = e]
    BY <1>6, BuildIs
  <2>2. e.tid = tyData[t].tid /\ e.laidOut = tyData[t].laidOut
    BY <1>1 DEF DataSet
  <2>. HIDE DEF e
  <2>. QED BY <1>2, <2>1, <2>2
<1>. QED BY <1>3, <1>4, <1>5, <1>6

\* Extending a list of a type teaches nothing.
LEMMA BuildEffect ==
  ASSUME TablesTyped, NEW n, NEW t \in DOMAIN prog, NEW entry, NEW field \in {"members", "statics", "methods", "constructors"},
         Build(t, field, entry), Head(todo).t # "finalize", UNCHANGED <<ids, blockTypes, blockScope>>
  PROVE  Effect(n)
BY BuildStays DEF Effect, Calm, VariablesStay

\* visitReturn teaches nothing, though it may change the wrapper of a variable.
LEMMA ReturnEffect ==
  ASSUME Sound, NEW n, VisitReturn(n)
  PROVE  Effect(n)
<1>1. DueVisit("return", n)
  BY DEF VisitReturn
<1>2. Head(todo).t # "finalize"
  BY <1>1 DEF DueVisit, Due
<1>3. (\E how : Fail(how)) \/ Insert("return", n, Value(Void, Lt(0, Void))) \/ \E v, r, loses : ReturnStored(n, v, r, loses)
  <2>. DEFINE void == Value(Void, Lt(0, Void))
  <2>1. \/ Fail("syntax") \/ Fail("type") \/ Insert("return", n, void)
        \/ LET v == CompileExpression(prog[n].e, n)
               w == Then(v, ReturnChecked(n, v))
           IN  \/ Fail(w.how)
               \/ \E loses : ReturnStored(n, v, ReturnChecked(n, v), loses)
    BY ReturnIs
  <2>. HIDE DEF void
  <2>. QED BY <2>1 DEF void
<1>4. CASE \E how : Fail(how)
  BY <1>4 DEF Fail, Idle, Effect
<1>5. CASE Insert("return", n, Value(Void, Lt(0, Void)))
  BY <1>1, <1>5, InsertEffect DEF DueVisit
<1>6. CASE \E v, r, loses : ReturnStored(n, v, r, loses)
  <2>1. PICK v, r, loses : ReturnStored(n, v, r, loses)
    BY <1>6
  <2>2. blockScope' = {Marked(x, loses, v.var) : x \in blockScope} /\ UNCHANGED <<ids, blockTypes, tyData>>
    BY <2>1 DEF ReturnStored, Marked
  <2>3. \A x \in blockScope : x \in ScopeRecords
    BY DEF Sound, TablesTyped, ScopeTyped, ScopeRecords
  <2>4. VariablesStay
    <3>. SUFFICES ASSUME NEW y \in blockScope' PROVE \E u \in blockScope : y.ty = u.ty
      BY DEF VariablesStay
    <3>1. PICK u \in blockScope : y = Marked(u, loses, v.var)
      BY <2>2
    <3>2. y.ty = u.ty
      BY <2>3, <3>1, MarkedIs
    <3>. QED BY <3>2
  <2>. QED BY <1>2, <2>2, <2>4, CalmIs DEF Effect
<1>. QED BY <1>3, <1>4, <1>5, <1>6

\* What statements teach: declarations of several types make a list, functions
\* make no type.
LEMMA StatementEffect ==
  ASSUME Sound, NEW n, Statement(n)
  PROVE  Effect(n)
<1>1. CASE VisitDeclaration(n)
  BY <1>1, DeclarationIs DEF Effect, Fail, Idle
<1>2. CASE Initialize(n) \/ VisitExpression(n) \/ Condition(n) \/ Update(n)
  BY <1>2, InsertEffect DEF Initialize, VisitExpression, Condition, Update, DueVisit
<1>3. CASE VisitBlock(n) \/ VisitBranch(n) \/ VisitLoop(n) \/ EndFunction(n)
  <2>1. UNCHANGED tables /\ Head(todo).t # "finalize"
    BY <1>3 DEF VisitBlock, VisitBranch, VisitLoop, EndFunction, DueVisit, Due
  <2>. QED BY <2>1, TablesCalm DEF Effect
<1>4. CASE VisitFunction(n)
  <2>1. Head(todo).t # "finalize"
    BY <1>4 DEF VisitFunction, DueVisit, Due
  <2>2. (\E how : Fail(how)) \/ UNCHANGED <<ids, blockTypes, blockScope, tyData>>
    BY <1>4 DEF VisitFunction
  <2>. QED BY <2>1, <2>2, CalmIs DEF Effect, VariablesStay, Fail, Idle
<1>5. CASE VisitReturn(n)
  BY <1>5, ReturnEffect
<1>. QED BY <1>1, <1>2, <1>3, <1>4, <1>5 DEF Statement

\* What types teach: visitType makes the type, finalize lays it out, its end
\* makes it known to its block.
LEMMA TypeStepEffect ==
  ASSUME Sound, NEW n, TypeStep(n)
  PROVE  Effect(n)
<1>1. CASE VisitType(n)
  BY <1>1 DEF VisitType, Effect, Fail, Idle, MakesType
<1>2. CASE VisitMember(n)
  <2>. DEFINE entry == [node |-> n, of |-> Base(TypeIdFromInfo(prog[n].types, n))]
              t == TypeOf(n)
  <2>1. Due("visit", n) /\ prog[n].k = "member"
    BY <1>2 DEF VisitMember, DueVisit
  <2>2. TablesTyped /\ n \in DOMAIN prog /\ Head(todo).t # "finalize" /\ t \in DOMAIN prog
    BY <2>1, DueNow, ChildOfType DEF TypeOf
  <2>3. \/ \E how : Fail(how)
        \/ (Build(t, "statics", n) \/ Build(t, "members", entry)) /\ UNCHANGED <<ids, blockTypes, blockScope>>
    BY <1>2 DEF VisitMember
  <2>. HIDE DEF entry, t
  <2>4. CASE \E how : Fail(how)
    BY <2>4 DEF Fail, Idle, Effect
  <2>5. CASE (Build(t, "statics", n) \/ Build(t, "members", entry)) /\ UNCHANGED <<ids, blockTypes, blockScope>>
    BY <2>2, <2>5, BuildEffect
  <2>. QED BY <2>3, <2>4, <2>5
<1>3. CASE VisitMethod(n)
  <2>1. Head(todo).t # "finalize"
    BY <1>3 DEF VisitMethod, DueVisit, Due
  <2>2. (\E how : Fail(how)) \/ UNCHANGED <<ids, blockTypes, blockScope, tyData>>
    BY <1>3 DEF VisitMethod
  <2>. QED BY <2>1, <2>2, CalmIs DEF Effect, VariablesStay, Fail, Idle
<1>4. CASE AddMethod(n)
  <2>. DEFINE t == TypeOf(n)
  <2>1. Due("addMethod", n)
    BY <1>4 DEF AddMethod
  <2>2. TablesTyped /\ n \in DOMAIN prog /\ Head(todo).t # "finalize" /\ prog[n].k = "method"
    BY <2>1, DueNow DEF Fits
  <2>3. t \in DOMAIN prog
    BY <2>2, ChildOfType DEF TypeOf
  <2>4. \/ \E how : Fail(how)
        \/ (Build(t, "methods", n) \/ tyData' = tyData) /\ UNCHANGED <<ids, blockTypes, blockScope>>
    BY <1>4 DEF AddMethod
  <2>. HIDE DEF t
  <2>5. CASE \E how : Fail(how)
    BY <2>5 DEF Fail, Idle, Effect
  <2>6. CASE Build(t, "methods", n) /\ UNCHANGED <<ids, blockTypes, blockScope>>
    BY <2>2, <2>3, <2>6, BuildEffect
  <2>7. CASE tyData' = tyData /\ UNCHANGED <<ids, blockTypes, blockScope>>
    BY <2>2, <2>7, CalmIs DEF Effect, VariablesStay
  <2>. QED BY <2>4, <2>5, <2>6, <2>7
<1>5. CASE VisitConstructor(n)
  <2>. DEFINE t == TypeOf(n)
  <2>1. Due("visit", n) /\ prog[n].k = "constructor"
    BY <1>5 DEF VisitConstructor, DueVisit
  <2>2. TablesTyped /\ n \in DOMAIN prog /\ Head(todo).t # "finalize" /\ t \in DOMAIN prog
    BY <2>1, DueNow, ChildOfType DEF TypeOf
  <2>3. (\E how : Fail(how)) \/ (Build(t, "constructors", n) /\ UNCHANGED <<ids, blockTypes, blockScope>>)
    BY <1>5 DEF VisitConstructor
  <2>. HIDE DEF t
  <2>4. CASE \E how : Fail(how)
    BY <2>4 DEF Fail, Idle, Effect
  <2>5. CASE Build(t, "constructors", n) /\ UNCHANGED <<ids, blockTypes, blockScope>>
    BY <2>2, <2>5, BuildEffect
  <2>. QED BY <2>3, <2>4, <2>5
<1>6. CASE Finalize(n)
  <2>1. Due("finalize", n) /\ tyData' = [tyData EXCEPT ![n].laidOut = TRUE] /\ UNCHANGED <<ids, blockTypes, blockScope>>
    BY <1>6, FinalizeIs
  <2>2. TablesTyped /\ n \in DOMAIN prog /\ Head(todo).n = n
    BY <2>1, DueNow
  <2>3. \A m \in DOMAIN prog : tyData[m] \in DataSet /\ m \in DOMAIN tyData
    BY <2>2, DataIs
  <2>. DEFINE e == [tyData[n] EXCEPT !.laidOut = TRUE]
  <2>4. tyData' = [tyData EXCEPT ![n] = e] /\ e.tid = tyData[n].tid /\ e.laidOut = TRUE
    BY <2>1, <2>2, <2>3 DEF DataSet
  <2>. HIDE DEF e
  <2>5. TypesStay
    BY <2>2, <2>3, <2>4 DEF TypesStay
  <2>. QED BY <2>1, <2>5 DEF Effect, Calm, VariablesStay
<1>7. CASE BeginInit(n)
  <2>1. Due("beginInit", n) /\ tyData' = [tyData EXCEPT ![n].initExists = TRUE] /\ UNCHANGED <<ids, blockTypes, blockScope>>
    BY <1>7 DEF BeginInit
  <2>2. TablesTyped /\ n \in DOMAIN prog /\ Head(todo).t # "finalize"
    BY <2>1, DueNow
  <2>3. \A m \in DOMAIN prog : tyData[m] \in DataSet /\ m \in DOMAIN tyData
    BY <2>2, DataIs
  <2>. DEFINE e == [tyData[n] EXCEPT !.initExists = TRUE]
  <2>4. tyData' = [tyData EXCEPT ![n] = e] /\ e.tid = tyData[n].tid /\ e.laidOut = tyData[n].laidOut
    BY <2>1, <2>2, <2>3 DEF DataSet
  <2>. HIDE DEF e
  <2>5. TypesStay
    BY <2>2, <2>3, <2>4 DEF TypesStay
  <2>. QED BY <2>1, <2>5 DEF Effect, Calm, VariablesStay
<1>8. CASE InitMember(n) \/ StaticMember(n)
  BY <1>8, InsertEffect DEF InitMember, StaticMember
<1>9. CASE EndInit(n) \/ MethodBody(n) \/ ConstructorBody(n) \/ EndConstructor(n)
  <2>1. UNCHANGED tables /\ Head(todo).t # "finalize"
    BY <1>9 DEF EndInit, MethodBody, ConstructorBody, EndConstructor, Due
  <2>. QED BY <2>1, TablesCalm DEF Effect
<1>10. CASE BecomeKnown(n)
  BY <1>10 DEF BecomeKnown, Effect, LearnsType
<1>. QED BY <1>1, <1>2, <1>3, <1>4, <1>5, <1>6, <1>7, <1>8, <1>9, <1>10 DEF TypeStep

(***************************************************************************)
(* Where what is to be done is                                             *)
(***************************************************************************)
\* After a step, what is to be done was to be done before, or is what the step leads to.
Follows(x, y) ==
  /\ y.n \in DOMAIN prog /\ Fits(prog, y)
  /\ \/ y \in Among(Tail(todo)) /\ Order(prog, x, y)
     \/ LeadsTo(prog, x, y) /\ x.n \notin Claims(prog, y)

\* What is to be done after a step was to be done before it or follows from its
\* task.
LEMMA MovesFollow ==
  ASSUME TablesTyped, Control, Moves
  PROVE  /\ IsProgram(prog) /\ prog' = prog /\ Fits(prog, Head(todo)) /\ Head(todo) \in Among(todo)
         /\ \A y \in Among(Tail(todo)) : y \in Among(todo)
         /\ \A y \in Among(todo') : Follows(Head(todo), y)
<1>1. PICK ts : TodoFirst(ts) /\ Advance(prog, Head(todo), ts)
  BY DEF Moves
<1>2. prog' = prog /\ todo' = ts \o Tail(todo) /\ todo # <<>> /\ IsProgram(prog) /\ Queue(prog, todo)
  BY <1>1, ProgTree DEF TodoFirst, given, Moves, Control, Controlled
<1>3. Among(ts \o Tail(todo)) = Among(ts) \cup Among(Tail(todo))
  BY <1>1, <1>2, AdvanceStep
<1>4. /\ Among(todo) = {Head(todo)} \cup Among(Tail(todo)) /\ Fits(prog, Head(todo))
      /\ \A y \in Among(Tail(todo)) : Order(prog, Head(todo), y) /\ Fits(prog, y)
  BY <1>2, QueueParts
<1>5. \A y \in Among(ts) : LeadsTo(prog, Head(todo), y) /\ Fits(prog, y) /\ Head(todo).n \notin Claims(prog, y)
  BY <1>1 DEF Advance, Queue, Among
<1>6. \A y \in Among(todo') : Fits(prog, y) => y.n \in DOMAIN prog
  BY DEF Fits
<1>. QED BY <1>2, <1>3, <1>4, <1>5, <1>6 DEF Follows

\* What is to be done after x sees no block that x did not see, but the one x visits.
LEMMA FollowsBelow ==
  ASSUME IsProgram(prog), NEW x, Fits(prog, x), NEW y, Follows(x, y)
  PROVE  \A b \in BlocksAbove(prog, y.n) :
           b \in BlocksAbove(prog, x.n) \/ (b = x.n /\ prog[b].k = "block" /\ x.t = "visit")
<1>1. x.n \in DOMAIN prog /\ y.n \in DOMAIN prog
  BY DEF Fits, Follows
<1>2. CASE Order(prog, x, y)
  BY <1>2 DEF Order
<1>3. CASE LeadsTo(prog, x, y)
  <2>. SUFFICES ASSUME NEW b \in BlocksAbove(prog, y.n)
                PROVE  b \in BlocksAbove(prog, x.n) \/ (b = x.n /\ prog[b].k = "block" /\ x.t = "visit")
    OBVIOUS
  <2>1. CASE y.n = x.n
    BY <2>1
  <2>2. CASE prog[y.n].parent = x.n
    <3>1. b \in DOMAIN prog /\ prog[b].k = "block" /\ b # y.n /\ Within(prog, y.n, b)
      BY <1>1, BlocksAboveAre
    <3>2. Within(prog, x.n, b)
      BY <1>1, <2>2, <3>1, WithinOrder
    <3>3. CASE b = x.n
      BY <3>1, <3>3 DEF Fits, TaskKinds
    <3>4. CASE b # x.n
      BY <1>1, <3>1, <3>2, <3>4, BlocksAboveAre
    <3>. QED BY <3>3, <3>4
  <2>. QED BY <1>3, <2>1, <2>2 DEF LeadsTo
<1>. QED BY <1>2, <1>3 DEF Follows

\* A claim on a block is one on all that is in it.
LEMMA BlockClaims ==
  ASSUME NEW t, IsProgram(t), NEW z, Fits(t, z), NEW b \in DOMAIN t, t[b].k = "block", b \in Claims(t, z),
         NEW n \in DOMAIN t, Within(t, n, b)
  PROVE  n \in Claims(t, z) /\ Within(t, b, z.n)
<1>1. z.n \in DOMAIN t
  BY DEF Fits
<1>2. ASSUME NEW c \in DOMAIN t, b \in Inner(t, c) PROVE n \in Inner(t, c)
  <2>1. b # c /\ Within(t, b, c) /\ Within(t, n, c)
    BY <1>2, WithinOrder DEF Inner
  <2>2. n # c
    <3>. SUFFICES ASSUME n = c PROVE FALSE
      OBVIOUS
    <3>1. b <= c /\ c <= b /\ b \in Nat /\ c \in Nat
      BY <2>1, WithinOrder, ProgramFacts
    <3>. QED BY <2>1, <3>1
  <2>. QED BY <2>1, <2>2 DEF Inner
<1>3. CASE z.t = "visit"
  <2>1. ~Deferred(t, z.n)
    BY <1>3 DEF Claims, Deferred
  <2>2. Claims(t, z) = {z.n} \cup Inner(t, z.n)
    BY <1>3, <2>1 DEF Claims
  <2>3. CASE b = z.n
    BY <1>1, <2>2, <2>3, WithinOrder DEF Inner
  <2>4. CASE b \in Inner(t, z.n)
    BY <1>1, <1>2, <2>2, <2>4 DEF Inner
  <2>. QED BY <2>2, <2>3, <2>4
<1>4. CASE z.t \in {"method", "constructor"}
  <2>1. Claims(t, z) = Inner(t, z.n)
    BY <1>4 DEF Claims
  <2>. QED BY <1>1, <1>2, <2>1 DEF Inner
<1>5. CASE z.t = "finalize"
  <2>1. Claims(t, z) = {m \in DOMAIN t : \E c \in DOMAIN t : t[c].parent = z.n /\ Deferred(t, c) /\ m \in Inner(t, c)}
    BY <1>5 DEF Claims
  <2>2. PICK c \in DOMAIN t : t[c].parent = z.n /\ Deferred(t, c) /\ b \in Inner(t, c)
    BY <2>1
  <2>3. n \in Claims(t, z)
    BY <1>2, <2>1, <2>2
  <2>4. Within(t, b, c) /\ Within(t, c, z.n)
    BY <1>1, <2>2, Siblings DEF Inner
  <2>. QED BY <1>1, <2>3, <2>4, WithinOrder
<1>6. z.t \in {"method", "constructor", "finalize", "visit"}
  BY DEF Claims
<1>. QED BY <1>3, <1>4, <1>5, <1>6

\* The blocks around what is due were visited.
LEMMA BlocksSeen ==
  ASSUME TablesTyped, Control, todo # <<>>
  PROVE  \A b \in BlocksAbove(prog, Head(todo).n) : b \in Seen(prog, todo)
<1>. DEFINE x == Head(todo)
<1>1. IsProgram(prog) /\ Queue(prog, todo)
  BY ProgTree DEF Control, Controlled
<1>2. /\ Among(todo) = {x} \cup Among(Tail(todo)) /\ Fits(prog, x) /\ x.n \in DOMAIN prog
      /\ \A z \in Among(Tail(todo)) : Order(prog, x, z) /\ Fits(prog, z)
  BY <1>1, QueueParts
<1>. HIDE DEF x
<1>. SUFFICES ASSUME NEW b \in BlocksAbove(prog, x.n) PROVE b \in Seen(prog, todo)
  BY DEF x
<1>3. b \in DOMAIN prog /\ prog[b].k = "block" /\ b # x.n /\ Within(prog, x.n, b)
  BY <1>1, <1>2, BlocksAboveAre
<1>4. b \notin Claims(prog, x)
  <2>. SUFFICES ASSUME b \in Claims(prog, x) PROVE FALSE
    OBVIOUS
  <2>1. Within(prog, b, x.n)
    BY <1>1, <1>2, <1>3, BlockClaims
  <2>2. b <= x.n /\ x.n <= b /\ b \in Nat /\ x.n \in Nat
    BY <1>1, <1>2, <1>3, <2>1, WithinOrder, ProgramFacts
  <2>. QED BY <1>3, <2>2
<1>5. ASSUME NEW z \in Among(Tail(todo)), b \in Claims(prog, z) PROVE FALSE
  <2>1. x.n \in Claims(prog, z)
    BY <1>1, <1>2, <1>3, <1>5, BlockClaims
  <2>. QED BY <1>2, <2>1 DEF Order
<1>. QED BY <1>2, <1>3, <1>4, <1>5 DEF Seen

\* A type inside another is not in a block around that.
LEMMA InnerBlock ==
  ASSUME TablesTyped, NEW n \in DOMAIN prog, NEW m \in DOMAIN prog, prog[n].k = "type", prog[m].k = "type", n # m,
         Within(prog, n, m)
  PROVE  EnclosingBlock(n) \notin BlocksAbove(prog, m)
<1>. DEFINE p == prog[n].parent
            e == EnclosingBlock(n)
<1>1. IsProgram(prog) /\ n # 1
  BY ProgTree, ProgramFacts
<1>2. p \in DOMAIN prog /\ Within(prog, p, m) /\ Within(prog, n, p) /\ p # n
  <2>1. p \in DOMAIN prog /\ p \in 0..(n - 1) /\ n \in Nat
    BY <1>1, ProgramFacts
  <2>2. Within(prog, p, m) /\ Within(prog, p, p)
    BY <1>1, <2>1, WithinOrder
  <2>3. Within(prog, n, p)
    BY <1>1, <2>1, <2>2, WithinOrder
  <2>. QED BY <2>1, <2>2, <2>3
<1>3. prog[p].k = "block"
  BY <1>1, ProgramFacts DEF Placed
<1>4. e \in 0..Len(prog) /\ Nearest(prog, n, "block", e)
  BY <1>1, FindAboveIsNearest DEF EnclosingBlock
<1>5. e \in DOMAIN prog
  BY <1>1, Enclosed
<1>. HIDE DEF e, p
<1>6. Within(prog, e, p)
  BY <1>1, <1>2, <1>3, <1>4, <1>5, ProgramFacts DEF Nearest
<1>7. Within(prog, e, m)
  BY <1>1, <1>2, <1>5, <1>6, WithinOrder
<1>. SUFFICES ASSUME e \in BlocksAbove(prog, m) PROVE FALSE
  BY DEF e
<1>8. Within(prog, m, e) /\ e # m
  BY <1>1, BlocksAboveAre
<1>9. e <= m /\ m <= e /\ m \in Nat /\ e \in Nat
  BY <1>1, <1>5, <1>7, <1>8, WithinOrder, ProgramFacts
<1>. QED BY <1>8, <1>9

(***************************************************************************)
(* A step that does something                                              *)
(***************************************************************************)
DeclaresAt(n) == DueVisit("decl", n) /\ Declares(n)
Learning(n) == Calm \/ MakesType(n) \/ LearnsType(n) \/ DeclaresAt(n)
\* An identifier that a step makes: that of a type, or of a list.
NewId(n, i) ==
  /\ i = Len(ids) + 1 /\ i \notin DOMAIN ids
  /\ \/ MakesType(n) /\ ids'[i].names = {prog[n].name} /\ ids'[i].types = {i}
     \/ DeclaresAt(n) /\ DeclaredList(n) /\ ids'[i].names = prog[n].types /\ ids'[i].types = DeclaredTypes(n)

\* The node that is due.
LEMMA LearningAt ==
  ASSUME Sound, Moves, NEW n, MakesType(n) \/ LearnsType(n) \/ DeclaresAt(n)
  PROVE  /\ n \in DOMAIN prog /\ Head(todo).n = n /\ n # 1 /\ prog[n].k = IF DeclaresAt(n) THEN "decl" ELSE "type"
         /\ Head(todo).t = IF LearnsType(n) THEN "known" ELSE "visit"
<1>1. PICK k : Due(k, n) /\ k = IF LearnsType(n) THEN "known" ELSE "visit"
  BY DEF MakesType, LearnsType, DeclaresAt, DueVisit, Due
<1>2. n \in DOMAIN prog /\ Head(todo).n = n /\ Head(todo).t = k /\ IsProgram(prog) /\ Fits(prog, Head(todo))
  BY <1>1, DueNow
<1>3. prog[n].k = IF DeclaresAt(n) THEN "decl" ELSE "type"
  <2>1. CASE DeclaresAt(n)
    BY <2>1 DEF DeclaresAt, DueVisit
  <2>2. CASE MakesType(n) /\ ~DeclaresAt(n)
    BY <2>2 DEF MakesType, DueVisit
  <2>3. CASE LearnsType(n) /\ ~DeclaresAt(n)
    BY <1>1, <1>2, <2>3 DEF Fits
  <2>. QED BY <2>1, <2>2, <2>3
<1>4. n # 1
  BY <1>2, <1>3, ProgramFacts
<1>. QED BY <1>1, <1>2, <1>3, <1>4

\* A step makes at most one identifier.
LEMMA IdsStep ==
  ASSUME Sound, Moves, NEW n, Learning(n)
  PROVE  /\ prog' = prog /\ TypesGrow /\ IdsTyped /\ DOMAIN ids = 1..Len(ids) /\ Len(ids) \in Nat /\ Len(ids) >= 5
         /\ \A i \in DOMAIN ids' : i \in DOMAIN ids \/ NewId(n, i)
<1>1. prog' = prog /\ TablesTyped /\ IdsTyped
  BY MovesSee DEF Sound, TablesTyped
<1>2. DOMAIN ids = 1..Len(ids) /\ Len(ids) \in Nat /\ Len(ids) >= 5
  BY <1>1, IdsAre DEF IdsTyped
<1>. SUFFICES TypesGrow /\ \A i \in DOMAIN ids' : i \in DOMAIN ids \/ NewId(n, i)
  BY <1>1, <1>2
<1>3. CASE Calm
  BY <1>3 DEF Calm, TypesGrow, IdsGrow
<1>4. CASE LearnsType(n)
  <2>1. EnclosingBlock(n) \in DOMAIN prog /\ blockTypes \in [DOMAIN prog -> SUBSET (DOMAIN ids)]
    BY <1>1, <1>4, LearningAt, Enclosed DEF TablesTyped, BlocksTyped
  <2>. QED BY <1>4, <2>1 DEF LearnsType, TypesGrow, IdsGrow
<1>5. CASE MakesType(n)
  <2>. DEFINE new == Len(ids) + 1
              names == {prog[n].name}
              types == {new}
  <2>1. n \in DOMAIN prog
    BY <1>5, LearningAt
  <2>2. names \in SUBSET Names
    BY <1>1, <2>1, ProgTree, ProgramFacts DEF TreeNodes, Names
  <2>3. types \in SUBSET (1..(Len(ids) + 1)) /\ types # {}
    BY <1>2
  <2>4. ids' = Append(ids, [names |-> names, types |-> types]) /\ blockTypes' = blockTypes
    BY <1>5 DEF MakesType, TypeId
  <2>. HIDE DEF names, types
  <2>5. IdsGrow /\ DOMAIN ids' = 1..(Len(ids) + 1) /\ new \notin DOMAIN ids /\ ids'[new] = [names |-> names, types |-> types]
    BY <1>1, <2>2, <2>3, <2>4, IdsAppend
  <2>6. NewId(n, new)
    BY <1>5, <2>5 DEF NewId, names, types
  <2>7. \A i \in DOMAIN ids' : i \in DOMAIN ids \/ i = new
    BY <1>2, <2>5
  <2>. QED BY <2>4, <2>5, <2>6, <2>7 DEF TypesGrow
<1>6. CASE DeclaresAt(n)
  <2>. DEFINE new == Len(ids) + 1
              names == prog[n].types
              types == DeclaredTypes(n)
  <2>1. n \in DOMAIN prog /\ n # 1 /\ Declares(n)
    BY <1>6, LearningAt DEF DeclaresAt
  <2>2. at \in 1..(2 * Len(prog))
    BY <1>6, DueNow DEF DeclaresAt, DueVisit
  <2>3. TypesGrow
    BY <1>1, <2>1, <2>2, DeclaresTables
  <2>4. CASE ~DeclaredList(n)
    BY <2>1, <2>3, <2>4 DEF Declares
  <2>5. CASE DeclaredList(n)
    <3>1. EnclosingBlock(n) \in DOMAIN prog /\ types # {} /\ names # {}
      BY <1>1, <2>1, Enclosed DEF Declares, DeclaredTypes
    <3>2. DeclaredFrom(n, EnclosingBlock(n))
      BY <1>1, <2>1, <3>1, DeclaredId DEF Declares
    <3>3. names \in SUBSET Names /\ types \in SUBSET (DOMAIN ids)
      BY <3>2 DEF DeclaredFrom
    <3>4. types \in SUBSET (1..(Len(ids) + 1))
      BY <1>2, <3>3
    <3>5. ids' = Append(ids, [names |-> names, types |-> types])
      BY <2>1, <2>5 DEF Declares, TypeListId
    <3>. HIDE DEF names, types
    <3>6. DOMAIN ids' = 1..(Len(ids) + 1) /\ new \notin DOMAIN ids /\ ids'[new] = [names |-> names, types |-> types]
      BY <1>1, <3>1, <3>3, <3>4, <3>5, IdsAppend
    <3>7. NewId(n, new)
      BY <1>6, <2>5, <3>6 DEF NewId, names, types
    <3>8. \A i \in DOMAIN ids' : i \in DOMAIN ids \/ i = new
      BY <1>2, <3>6
    <3>. QED BY <2>3, <3>7, <3>8
  <2>. QED BY <2>4, <2>5
<1>. QED BY <1>3, <1>4, <1>5, <1>6 DEF Learning

\* A list does not have one name.
LEMMA ListIsNotOne ==
  ASSUME NEW n, DeclaredList(n)
  PROVE  ~\E x : prog[n].types = {x}
<1>. SUFFICES ASSUME NEW x, prog[n].types = {x} PROVE FALSE
  OBVIOUS
<1>1. Cardinality({x}) = 1
  BY FS_Singleton
<1>. QED BY <1>1 DEF DeclaredList

\* Identifiers mean what the step that made them says.
LEMMA IdsMeantStep ==
  ASSUME Sound, Moves, NEW n, Learning(n), IdsMeant
  PROVE  IdsMeant'
<1>1. prog' = prog /\ IdsGrow /\ \A i \in DOMAIN ids' : i \in DOMAIN ids \/ NewId(n, i)
  BY IdsStep DEF TypesGrow
<1>. SUFFICES ASSUME NEW i \in DOMAIN ids', NEW x, ids'[i].names = {x} PROVE ids'[i].types = {i}
  BY DEF IdsMeant, OneName
<1>2. CASE i \in DOMAIN ids
  <2>1. ids'[i] = ids[i]
    BY <1>1, <1>2 DEF IdsGrow
  <2>. QED BY <1>2, <2>1 DEF IdsMeant, OneName
<1>3. CASE NewId(n, i)
  <2>1. ~DeclaredList(n) \/ ids'[i].names # prog[n].types
    BY ListIsNotOne
  <2>. QED BY <1>3, <2>1 DEF NewId
<1>. QED BY <1>1, <1>2, <1>3

\* An identifier that block b learns in a step.
Learns(n, b, i) ==
  /\ b = EnclosingBlock(n) /\ b \in BlocksAbove(prog, n) /\ b \in Seen(prog, todo) /\ Head(todo).n = n
  /\ (LearnsType(n) /\ i = TidOf(n)) \/ (DeclaresAt(n) /\ NewId(n, i))

\* What a block learns in a step.
LEMMA BlockStep ==
  ASSUME Sound, Moves, NEW n, Learning(n), NEW b \in DOMAIN prog, NEW i \in blockTypes'[b]
  PROVE  i \in blockTypes[b] \/ Learns(n, b, i)
<1>1. TablesTyped /\ Control /\ todo # <<>> /\ blockTypes \in [DOMAIN prog -> SUBSET (DOMAIN ids)]
  BY DEF Sound, Moves, TablesTyped, BlocksTyped
<1>2. CASE Calm \/ MakesType(n)
  BY <1>2 DEF Calm, MakesType
<1>. DEFINE e == EnclosingBlock(n)
<1>3. ASSUME LearnsType(n) \/ DeclaresAt(n)
      PROVE  e \in DOMAIN prog /\ e \in BlocksAbove(prog, n) /\ e \in Seen(prog, todo) /\ Head(todo).n = n
  <2>1. n \in DOMAIN prog /\ n # 1 /\ Head(todo).n = n
    BY <1>3, LearningAt
  <2>. QED BY <1>1, <2>1, Enclosed, BlocksSeen
<1>4. CASE LearnsType(n)
  <2>1. blockTypes' = [blockTypes EXCEPT ![e] = blockTypes[e] \cup {TidOf(n)}]
    BY <1>4 DEF LearnsType
  <2>2. i \in blockTypes[b] \/ (b = e /\ i = TidOf(n))
    <3>. HIDE DEF e
    <3>. QED BY <1>1, <2>1
  <2>. QED BY <1>3, <1>4, <2>2 DEF Learns
<1>5. CASE DeclaresAt(n)
  <2>1. CASE ~DeclaredList(n)
    BY <1>5, <2>1 DEF DeclaresAt, Declares
  <2>2. CASE DeclaredList(n)
    <3>. DEFINE new == Len(ids) + 1
    <3>1. blockTypes' = [blockTypes EXCEPT ![e] = blockTypes[e] \cup {new}]
      BY <1>5, <2>2 DEF DeclaresAt, Declares
    <3>2. i \in blockTypes[b] \/ (b = e /\ i = new)
      <4>. HIDE DEF e, new
      <4>. QED BY <1>1, <3>1
    <3>3. TablesTyped' /\ new \notin DOMAIN ids
      <4>1. DOMAIN ids = 1..Len(ids) /\ Len(ids) \in Nat
        BY IdsStep
      <4>2. n \in DOMAIN prog /\ n # 1 /\ Declares(n) /\ prog' = prog
        BY <1>5, LearningAt, IdsStep DEF DeclaresAt
      <4>3. at \in 1..(2 * Len(prog))
        BY <1>5, DueNow DEF DeclaresAt, DueVisit
      <4>4. TablesTyped'
        BY <1>1, <4>2, <4>3, DeclaresTables
      <4>. QED BY <4>1, <4>4
    <3>4. prog' = prog
      BY IdsStep
    <3>5. i \in DOMAIN ids'
      BY <3>3, <3>4 DEF TablesTyped, BlocksTyped
    <3>6. i = new => NewId(n, i)
      BY <3>3, <3>5, IdsStep
    <3>. QED BY <1>3, <1>5, <3>2, <3>6 DEF Learns
  <2>. QED BY <2>1, <2>2
<1>. QED BY <1>2, <1>4, <1>5 DEF Learning

\* Types keep their identifiers, and one may get its own.
LEMMA TidStep ==
  ASSUME Sound, Moves, NEW n, Learning(n), NEW t \in DOMAIN prog
  PROVE  /\ tyData[t].tid \in 0..Len(ids)
         /\ tyData'[t].tid = tyData[t].tid \/ (MakesType(n) /\ t = n /\ tyData'[t].tid = Len(ids) + 1)
         /\ tyData[t].laidOut => tyData'[t].laidOut
<1>1. TablesTyped /\ Len(ids) \in Nat /\ DOMAIN ids = 1..Len(ids)
  BY IdsStep DEF Sound
<1>2. \A m \in DOMAIN prog : tyData[m] \in DataSet /\ m \in DOMAIN tyData
  BY <1>1, DataIs
<1>3. tyData[t].tid \in 0..Len(ids)
  BY <1>1, <1>2 DEF DataSet
<1>4. CASE Calm
  BY <1>3, <1>4 DEF Calm, TypesStay
<1>5. CASE LearnsType(n) \/ DeclaresAt(n)
  BY <1>3, <1>5 DEF LearnsType, DeclaresAt, Declares
<1>6. CASE MakesType(n)
  <2>. DEFINE e == [tyData[n] EXCEPT !.tid = Len(ids) + 1]
  <2>1. n \in DOMAIN prog
    BY <1>6, LearningAt
  <2>2. tyData' = [tyData EXCEPT ![n] = e] /\ e.tid = Len(ids) + 1 /\ e.laidOut = tyData[n].laidOut
    BY <1>2, <1>6, <2>1 DEF MakesType, DataSet
  <2>. HIDE DEF e
  <2>. QED BY <1>2, <1>3, <1>6, <2>1, <2>2
<1>. QED BY <1>4, <1>5, <1>6 DEF Learning

\* The identifier of a type is the one its visit made.
LEMMA TidsMeantStep ==
  ASSUME Sound, Moves, NEW n, Learning(n), TidsMeant
  PROVE  TidsMeant'
<1>1. /\ prog' = prog /\ IdsGrow /\ DOMAIN ids = 1..Len(ids) /\ Len(ids) \in Nat /\ Len(ids) >= 5
  BY IdsStep DEF TypesGrow
<1>2. ASSUME NEW t, IsType(t)'
      PROVE  /\ t \in DOMAIN prog /\ prog[t].k = "type"
             /\ \/ IsType(t) /\ tyData'[t].tid = TidOf(t) /\ TidOf(t) \in 1..Len(ids)
                \/ MakesType(n) /\ t = n /\ tyData'[t].tid = Len(ids) + 1
  <2>1. t \in DOMAIN prog /\ prog[t].k = "type" /\ tyData'[t].tid # 0
    BY <1>1, <1>2 DEF IsType, TidOf
  <2>. QED BY <1>1, <2>1, TidStep DEF IsType, TidOf
<1>3. ASSUME NEW t, IsType(t)' PROVE tyData'[t].tid > 5 /\ ids'[tyData'[t].tid].names = {prog[t].name}
  <2>1. CASE IsType(t) /\ tyData'[t].tid = TidOf(t) /\ TidOf(t) \in 1..Len(ids)
    BY <1>1, <2>1 DEF TidsMeant, IdsGrow
  <2>2. CASE MakesType(n) /\ t = n /\ tyData'[t].tid = Len(ids) + 1
    <3>. DEFINE entry == TypeId(Len(ids) + 1, prog[n].name)
    <3>1. ids' = Append(ids, entry) /\ entry.names = {prog[n].name}
      BY <2>2 DEF MakesType, TypeId
    <3>2. IdsTyped
      BY DEF Sound, TablesTyped
    <3>. HIDE DEF entry
    <3>3. ids'[Len(ids) + 1] = entry
      BY <3>1, <3>2 DEF IdsTyped
    <3>. QED BY <1>1, <2>2, <3>1, <3>3
  <2>. QED BY <1>2, <1>3, <2>1, <2>2
<1>4. ASSUME NEW t, NEW u, IsType(t)', IsType(u)', tyData'[t].tid = tyData'[u].tid PROVE t = u
  BY <1>1, <1>2, <1>4 DEF TidsMeant
<1>. QED BY <1>1, <1>3, <1>4 DEF TidsMeant, TidOf

\* What was learned stays learned.
LEMMA LearnedGrows ==
  ASSUME prog' = prog, TypesGrow
  PROVE  Learned \subseteq Learned'
BY DEF TypesGrow, Learned

\* Variables have types that were learned.
LEMMA ScopeGroundedStep ==
  ASSUME Sound, Moves, NEW n, Learning(n), ScopeGrounded
  PROVE  ScopeGrounded'
<1>1. prog' = prog /\ TypesGrow /\ TablesTyped
  BY IdsStep DEF Sound
<1>2. Learned \subseteq Learned'
  BY <1>1, LearnedGrows
<1>. SUFFICES ASSUME NEW v \in blockScope' PROVE v.ty \in Learned'
  BY DEF ScopeGrounded
<1>3. CASE Calm
  BY <1>2, <1>3 DEF Calm, VariablesStay, ScopeGrounded
<1>4. CASE MakesType(n) \/ LearnsType(n)
  BY <1>2, <1>4 DEF MakesType, LearnsType, ScopeGrounded
<1>5. CASE DeclaresAt(n)
  <2>. DEFINE b == EnclosingBlock(n)
              names == prog[n].types
              new == Len(ids) + 1
  <2>1. n \in DOMAIN prog /\ n # 1 /\ Declares(n)
    BY <1>5, LearningAt DEF DeclaresAt
  <2>2. b \in DOMAIN prog
    BY <1>1, <2>1, Enclosed
  <2>3. DeclaredFrom(n, b)
    BY <1>1, <2>1, <2>2, DeclaredId DEF Declares
  <2>4. CASE v \in blockScope
    BY <1>2, <2>4 DEF ScopeGrounded
  <2>5. CASE v = DeclaredVar(n) /\ ~DeclaredList(n)
    <3>1. v.ty = TypeIdFromInfo(names, n) /\ v.ty \in DOMAIN ids
      BY <2>3, <2>5 DEF DeclaredFrom, DeclaredVar
    <3>2. v.ty # 0
      BY <3>1, IdsStep
    <3>3. PICK c \in BlocksAbove(prog, n) : v.ty \in blockTypes[c]
      BY <1>1, <2>1, <3>1, <3>2, FoundByName
    <3>4. c \in DOMAIN prog
      BY <1>1, <2>1, NearestAbove
    <3>5. v.ty \in Learned
      BY <3>3, <3>4 DEF Learned
    <3>. QED BY <1>2, <3>5
  <2>6. CASE v = DeclaredVar(n) /\ DeclaredList(n)
    <3>1. v.ty = Pick(Named(b, names) \cup {new})
      BY <2>6 DEF DeclaredVar
    <3>2. v.ty \in Named(b, names) \/ v.ty = new
      BY <2>3, <3>1 DEF DeclaredFrom
    <3>3. v.ty \in Named(b, names) => v.ty \in Learned
      BY <2>2 DEF Named, Learned
    <3>4. blockTypes' = [blockTypes EXCEPT ![b] = blockTypes[b] \cup {new}] /\ b \in DOMAIN blockTypes
      BY <1>1, <2>1, <2>2, <2>6 DEF Declares, TablesTyped, BlocksTyped
    <3>5. new \in blockTypes'[b]
      <4>. HIDE DEF b, new
      <4>. QED BY <3>4
    <3>6. new \in Learned'
      BY <1>1, <2>2, <3>5 DEF Learned
    <3>. QED BY <1>2, <3>2, <3>3, <3>6
  <2>7. v \in blockScope \/ v = DeclaredVar(n)
    BY <2>1 DEF Declares
  <2>. QED BY <2>4, <2>5, <2>6, <2>7
<1>. QED BY <1>3, <1>4, <1>5 DEF Learning

\* A type that is still to be known was laid out, or its finalize is first.
LEMMA LaidOutFirstStep ==
  ASSUME Sound, Moves, NEW n, Learning(n), LaidOutFirst
  PROVE  LaidOutFirst'
<1>. DEFINE x == Head(todo)
<1>1. TablesTyped /\ Control
  BY DEF Sound
<1>2. /\ prog' = prog /\ x \in Among(todo) /\ Fits(prog, x)
      /\ \A y \in Among(Tail(todo)) : y \in Among(todo)
      /\ \A y \in Among(todo') : Follows(x, y)
  BY <1>1, MovesFollow
<1>. HIDE DEF x
<1>. SUFFICES ASSUME NEW y \in Among(todo'), y.t = "known" PROVE tyData'[y.n].laidOut
  BY DEF LaidOutFirst
<1>3. y.n \in DOMAIN prog
  BY <1>2 DEF Follows
<1>4. CASE y \in Among(todo)
  <2>1. tyData[y.n].laidOut
    BY <1>4 DEF LaidOutFirst
  <2>. QED BY <1>3, <2>1, TidStep
<1>5. CASE LeadsTo(prog, x, y)
  <2>1. x.t = "finalize" /\ y.n = x.n
    BY <1>5 DEF LeadsTo, Closing
  <2>2. Calm
    BY <2>1, LearningAt DEF Learning, x
  <2>. QED BY <2>1, <2>2 DEF Calm, TypesStay, x
<1>. QED BY <1>2, <1>4, <1>5 DEF Follows

\* Identifiers that were there are those they were.
LEMMA DistinctStays ==
  ASSUME IdsGrow, NEW S \in SUBSET DOMAIN ids, Distinct(S)
  PROVE  \A i, j \in S : (\E x : ids'[i].names = {x}) /\ ids'[i].names = ids'[j].names => i = j
BY DEF Distinct, OneName, IdsGrow

\* Blocks that were not visited know nothing.
LEMMA BlocksFreshStep ==
  ASSUME Sound, Moves, NEW n, Learning(n), BlocksFresh
  PROVE  BlocksFresh'
<1>1. prog' = prog /\ Seen(prog, todo) \subseteq Seen(prog', todo') /\ IdsGrow
  BY MovesSee, IdsStep DEF Sound, TypesGrow
<1>2. 1 \in DOMAIN prog /\ blockTypes \in [DOMAIN prog -> SUBSET (DOMAIN ids)]
  BY ProgTree, ProgramFacts DEF Sound, TablesTyped, BlocksTyped
<1>. SUFFICES ASSUME NEW b \in DOMAIN prog, b \notin Seen(prog', todo')
              PROVE  IF b = 1 THEN Distinct(blockTypes[1])' ELSE blockTypes'[b] = {}
  BY <1>1 DEF BlocksFresh
<1>3. b \notin Seen(prog, todo)
  BY <1>1
<1>4. \A i \in blockTypes'[b] : i \in blockTypes[b]
  BY <1>3, BlockStep DEF Learns
<1>5. CASE b # 1
  BY <1>3, <1>4, <1>5 DEF BlocksFresh
<1>6. CASE b = 1
  <2>1. Distinct(blockTypes[1])
    BY <1>3, <1>6, <1>2 DEF BlocksFresh
  <2>2. \A i, j \in blockTypes[1] : (\E x : ids'[i].names = {x}) /\ ids'[i].names = ids'[j].names => i = j
    BY <1>1, <1>2, <2>1, DistinctStays
  <2>. QED BY <1>4, <1>6, <2>2 DEF Distinct, OneName
<1>. QED BY <1>5, <1>6

(***************************************************************************)
(* What a block knows is grounded                                          *)
(***************************************************************************)
Around(b) == {b} \cup BlocksAbove(prog, b)

\* What was grounded stays so.
LEMMA GroundedStays ==
  ASSUME TablesTyped, TypesGrow, prog' = prog, NEW b \in DOMAIN prog, NEW i \in DOMAIN ids, Grounded(b, i)
  PROVE  Grounded(b, i)'
<1>1. IsProgram(prog) /\ \A k \in DOMAIN ids : ids[k].types \subseteq DOMAIN ids
  BY ProgTree DEF TablesTyped, IdsTyped
<1>2. \A c \in Around(b) : c \in DOMAIN prog
  BY <1>1, BlocksAboveAre DEF Around
<1>3. /\ \A j \in ids[i].types : j \in DOMAIN ids /\ \E c \in Around(b), x \in ids[i].names : j \in blockTypes[c] /\ ids[j].names = {x}
      /\ \A x \in ids[i].names : \E j \in ids[i].types : ids[j].names = {x}
  BY <1>1 DEF Grounded, Around
<1>4. ids'[i] = ids[i] /\ \A j \in DOMAIN ids : ids'[j] = ids[j]
  BY DEF TypesGrow, IdsGrow
<1>5. \A j \in ids[i].types : \E c \in Around(b), x \in ids[i].names : j \in blockTypes'[c] /\ ids'[j].names = {x}
  BY <1>2, <1>3, <1>4 DEF TypesGrow
<1>6. \A x \in ids[i].names : \E j \in ids[i].types : ids'[j].names = {x}
  BY <1>3, <1>4
<1>7. BlocksAbove(prog', b) = BlocksAbove(prog, b)
  OBVIOUS
<1>8. /\ \A j \in ids'[i].types : \E c \in Around(b), x \in ids'[i].names : j \in blockTypes'[c] /\ ids'[j].names = {x}
      /\ \A x \in ids'[i].names : \E j \in ids'[i].types : ids'[j].names = {x}
  BY <1>4, <1>5, <1>6
<1>. QED BY <1>7, <1>8 DEF Grounded, Around

\* A list that is made of types that are found is grounded in the block it is made in.
LEMMA ListGrounded ==
  ASSUME Sound, Moves, NEW n, DeclaresAt(n), NEW i, NewId(n, i)
  PROVE  Grounded(EnclosingBlock(n), i)'
<1>. DEFINE e == EnclosingBlock(n)
            names == prog[n].types
<1>1. prog' = prog /\ TypesGrow /\ TablesTyped
  BY IdsStep DEF Sound, Learning
<1>2. n \in DOMAIN prog /\ n # 1 /\ Declares(n) /\ prog[n].k = "decl"
  BY LearningAt DEF DeclaresAt
<1>3. ids'[i].names = names /\ ids'[i].types = DeclaredTypes(n)
  <2>1. ~MakesType(n)
    BY <1>2 DEF MakesType, DueVisit
  <2>. QED BY <2>1 DEF NewId
<1>4. ASSUME NEW x \in names
      PROVE  /\ TypeIdFromInfo({x}, n) \in DeclaredTypes(n) /\ ids'[TypeIdFromInfo({x}, n)].names = {x}
             /\ \E c \in Around(e) : TypeIdFromInfo({x}, n) \in blockTypes'[c]
  <2>. DEFINE j == TypeIdFromInfo({x}, n)
  <2>1. j \in DeclaredTypes(n) /\ j # 0
    BY <1>2 DEF DeclaredTypes, Declares
  <2>2. j \in DOMAIN ids /\ ids[j].names = {x} /\ \E c \in BlocksAbove(prog, n) : j \in blockTypes[c]
    BY <1>1, <1>2, <2>1, FoundByName
  <2>. HIDE DEF j
  <2>3. PICK c \in BlocksAbove(prog, n) : j \in blockTypes[c]
    BY <2>2
  <2>4. c \in Around(e) /\ c \in DOMAIN prog
    BY <1>1, <1>2, Enclosed, NearestAbove DEF Around
  <2>5. j \in blockTypes'[c]
    BY <1>1, <2>3, <2>4 DEF TypesGrow
  <2>6. ids'[j].names = {x}
    BY <1>1, <2>2 DEF TypesGrow, IdsGrow
  <2>. QED BY <2>1, <2>4, <2>5, <2>6 DEF j
<1>5. ASSUME NEW j \in DeclaredTypes(n)
      PROVE  \E c \in Around(e), x \in names : j \in blockTypes'[c] /\ ids'[j].names = {x}
  <2>1. PICK x \in names : j = TypeIdFromInfo({x}, n)
    BY DEF DeclaredTypes
  <2>. QED BY <1>4, <2>1
<1>6. \A x \in names : \E j \in DeclaredTypes(n) : ids'[j].names = {x}
  BY <1>4
<1>7. EnclosingBlock(n)' = e /\ BlocksAbove(prog', e) = BlocksAbove(prog, e)
  BY <1>1 DEF EnclosingBlock
<1>. HIDE DEF e, names
<1>8. /\ \A j \in ids'[i].types : \E c \in Around(e), x \in ids'[i].names : j \in blockTypes'[c] /\ ids'[j].names = {x}
      /\ \A x \in ids'[i].names : \E j \in ids'[i].types : ids'[j].names = {x}
  BY <1>3, <1>5, <1>6
<1>. QED BY <1>7, <1>8 DEF Grounded, Around

\* What a block knows was learned, and is of that block.
LEMMA BlocksGroundedStep ==
  ASSUME Sound, Moves, NEW n, Learning(n), BlocksGrounded, TidsMeant, IdsMeant
  PROVE  BlocksGrounded'
<1>1. /\ prog' = prog /\ TypesGrow /\ IdsGrow /\ TablesTyped
      /\ blockTypes \in [DOMAIN prog -> SUBSET (DOMAIN ids)]
  BY IdsStep DEF Sound, TypesGrow, TablesTyped, BlocksTyped
<1>. SUFFICES ASSUME NEW b \in DOMAIN prog, NEW i \in blockTypes'[b] PROVE Grounded(b, i)'
  BY <1>1 DEF BlocksGrounded
<1>2. CASE i \in blockTypes[b]
  <2>1. Grounded(b, i) /\ i \in DOMAIN ids
    BY <1>1, <1>2 DEF BlocksGrounded
  <2>. QED BY <1>1, <2>1, GroundedStays
<1>3. CASE Learns(n, b, i) /\ DeclaresAt(n)
  <2>1. NewId(n, i)
    <3>1. ~LearnsType(n)
      BY <1>3, LearningAt DEF DeclaresAt, DueVisit, Due
    <3>. QED BY <1>3, <3>1 DEF Learns
  <2>2. Grounded(EnclosingBlock(n), i)'
    BY <1>3, <2>1, ListGrounded
  <2>3. b = EnclosingBlock(n) /\ EnclosingBlock(n)' = EnclosingBlock(n)
    BY <1>1, <1>3 DEF Learns, EnclosingBlock
  <2>. QED BY <2>2, <2>3
<1>4. CASE Learns(n, b, i) /\ ~DeclaresAt(n)
  <2>1. n \in DOMAIN prog /\ prog[n].k = "type" /\ i = TidOf(n) /\ LearnsType(n)
    BY <1>4, LearningAt DEF Learns
  <2>2. i # 0 /\ i \in DOMAIN ids
    <3>1. n \in Seen(prog, todo)
      BY <2>1, DueSeen DEF LearnsType, Sound
    <3>2. tyData[n].tid # 0 /\ tyData[n].tid \in 0..Len(ids) /\ DOMAIN ids = 1..Len(ids)
      BY <2>1, <3>1, TidStep, IdsStep DEF Sound, Control, Controlled, TypesKept
    <3>. QED BY <2>1, <3>2 DEF TidOf
  <2>3. ids[i].names = {prog[n].name}
    BY <2>1, <2>2 DEF TidsMeant, IsType
  <2>4. ids[i].types = {i}
    BY <2>2, <2>3 DEF IdsMeant, OneName
  <2>5. ids'[i].names = {prog[n].name} /\ ids'[i].types = {i}
    BY <1>1, <2>2, <2>3, <2>4 DEF IdsGrow
  <2>6. /\ \A j \in ids'[i].types : j \in blockTypes'[b] /\ prog[n].name \in ids'[i].names /\ ids'[j].names = {prog[n].name}
        /\ \A x \in ids'[i].names : i \in ids'[i].types /\ ids'[i].names = {x}
    BY <2>5
  <2>7. /\ \A j \in ids'[i].types : \E c \in {b} \cup BlocksAbove(prog', b), x \in ids'[i].names : j \in blockTypes'[c] /\ ids'[j].names = {x}
        /\ \A x \in ids'[i].names : \E j \in ids'[i].types : ids'[j].names = {x}
    BY <2>6
  <2>. QED BY <2>7 DEF Grounded
<1>. QED BY <1>2, <1>3, <1>4, BlockStep

(***************************************************************************)
(* Of what is known nothing is left                                        *)
(***************************************************************************)
\* What blocks learn in a step.
LEMMA LearnedStep ==
  ASSUME Sound, Moves, NEW n, Learning(n), NEW i \in Learned'
  PROVE  i \in Learned \/ (LearnsType(n) /\ i = TidOf(n)) \/ (DeclaresAt(n) /\ NewId(n, i))
<1>1. prog' = prog
  BY IdsStep
<1>2. PICK b \in DOMAIN prog : i \in blockTypes'[b]
  BY <1>1 DEF Learned
<1>3. i \in blockTypes[b] \/ Learns(n, b, i)
  BY <1>2, BlockStep
<1>. QED BY <1>2, <1>3 DEF Learned, Learns

\* Task y is not of node t, or of a child of it.
Leaves(t, y) == y.n # t /\ prog[y.n].parent # t

\* A task that follows one that has nothing to do with a type that was visited has not either.
LEMMA LeavesStep ==
  ASSUME IsProgram(prog), NEW x, Fits(prog, x), NEW y, LeadsTo(prog, x, y), NEW t \in DOMAIN prog, prog[t].k = "type",
         t \notin Claims(prog, x), Leaves(t, x)
  PROVE  Leaves(t, y)
<1>1. t # 1 => prog[prog[t].parent].k = "block"
  BY ProgramFacts DEF Placed
<1>2. t # 1
  BY ProgramFacts
<1>3. y.n # t
  <2>. SUFFICES ASSUME y.n = t PROVE FALSE
    OBVIOUS
  <2>1. x.t = "finalize" /\ prog[t].parent = x.n
    BY DEF LeadsTo, Leaves
  <2>. QED BY <1>1, <1>2, <2>1 DEF Fits
<1>4. prog[y.n].parent # t
  BY DEF LeadsTo, Leaves
<1>. QED BY <1>3, <1>4 DEF Leaves

\* When a type becomes known, all that is left to be done is elsewhere.
LEMMA KnownLeaves ==
  ASSUME Sound, Moves, NEW n, LearnsType(n), NEW y \in Among(todo')
  PROVE  Leaves(n, y) /\ y \in Among(Tail(todo)) /\ Order(prog, Head(todo), y)
<1>1. TablesTyped /\ IsProgram(prog) /\ Queue(prog, todo) /\ todo # <<>>
  BY ProgTree DEF Sound, Control, Controlled, Moves
<1>2. /\ Tail(todo) \in Seq(Tasks(prog))
      /\ \A z \in Among(Tail(todo)) : Order(prog, Head(todo), z) /\ Fits(prog, z)
  BY <1>1, QueueParts
<1>3. todo' = <<>> \o Tail(todo)
  BY DEF LearnsType, TodoFirst
<1>4. Among(todo') = Among(Tail(todo))
  <2>. DEFINE no == <<>>
              tail == Tail(todo)
              T == Tasks(prog)
  <2>1. no \in Seq(T) /\ tail \in Seq(T)
    BY <1>2
  <2>2. Among(no) = {} /\ todo' = no \o tail
    BY <1>3, AmongNone
  <2>. HIDE DEF no, tail, T
  <2>3. Among(no \o tail) = Among(no) \cup Among(tail)
    BY <2>1, AmongConcat
  <2>. QED BY <2>2, <2>3 DEF tail
<1>5. Order(prog, Head(todo), y) /\ Fits(prog, y) /\ y.n \in DOMAIN prog
  BY <1>2, <1>4 DEF Fits
<1>6. n \in DOMAIN prog /\ Head(todo).n = n /\ Head(todo).t = "known"
  BY LearningAt
<1>7. ~Within(prog, y.n, n)
  BY <1>5, <1>6 DEF Order, Closing
<1>8. y.n # n
  BY <1>1, <1>5, <1>7, WithinOrder
<1>9. prog[y.n].parent # n
  <2>. SUFFICES ASSUME prog[y.n].parent = n PROVE FALSE
    OBVIOUS
  <2>1. y.n # 1
    BY <1>1, <1>6, ProgramFacts
  <2>. QED BY <1>1, <1>5, <1>6, <1>7, <2>1, WithinOrder
<1>. QED BY <1>4, <1>5, <1>8, <1>9 DEF Leaves

\* What is learned is a type that is laid out, or a list of such.
LEMMA SettledStep ==
  ASSUME Sound, Moves, NEW n, Learning(n), Settled, TidsMeant, LaidOutFirst
  PROVE  Settled'
<1>. DEFINE x == Head(todo)
<1>1. TablesTyped /\ Control
  BY DEF Sound
<1>2. /\ IsProgram(prog) /\ prog' = prog /\ x \in Among(todo) /\ Fits(prog, x)
      /\ \A y \in Among(Tail(todo)) : y \in Among(todo)
      /\ \A y \in Among(todo') : Follows(x, y)
  BY <1>1, MovesFollow
<1>. HIDE DEF x
<1>. SUFFICES ASSUME NEW t, IsType(t)', tyData'[t].tid \in Learned'
              PROVE  tyData'[t].laidOut /\ \A y \in Among(todo') : Leaves(t, y)
  BY <1>2 DEF Settled, TidOf, Leaves
<1>3. t \in DOMAIN prog /\ prog[t].k = "type" /\ tyData'[t].tid # 0
  BY <1>2 DEF IsType, TidOf
<1>4. DOMAIN ids = 1..Len(ids) /\ Len(ids) \in Nat /\ Learned \subseteq DOMAIN ids
  BY <1>1, IdsStep DEF TablesTyped, BlocksTyped, Learned
<1>5. tyData'[t].tid = TidOf(t) /\ TidOf(t) \in DOMAIN ids /\ IsType(t)
  <2>1. ASSUME MakesType(n), t = n, tyData'[t].tid = Len(ids) + 1 PROVE FALSE
    <3>1. Len(ids) + 1 \in Learned \/ LearnsType(n) \/ DeclaresAt(n)
      BY <2>1, LearnedStep
    <3>2. Len(ids) + 1 \notin Learned
      BY <1>4
    <3>3. ~LearnsType(n)
      BY <2>1 DEF MakesType, LearnsType, DueVisit, Due
    <3>4. ~DeclaresAt(n)
      BY <2>1 DEF MakesType, DeclaresAt, DueVisit
    <3>. QED BY <3>1, <3>2, <3>3, <3>4
  <2>. QED BY <1>3, <1>4, <2>1, TidStep DEF TidOf, IsType
<1>6. TidOf(t) \in Learned \/ (LearnsType(n) /\ TidOf(t) = TidOf(n))
  BY <1>5, LearnedStep DEF NewId
<1>7. CASE TidOf(t) \in Learned
  <2>1. tyData[t].laidOut /\ \A y \in Among(todo) : Leaves(t, y)
    BY <1>5, <1>7 DEF Settled, Leaves
  <2>2. tyData'[t].laidOut
    BY <1>3, <2>1, TidStep
  <2>3. t \in Seen(prog, todo)
    BY <1>1, <1>3, <1>5 DEF IsType, TidOf, Control, Controlled, TypesKept
  <2>4. t \notin Claims(prog, x)
    BY <1>2, <2>3 DEF Seen
  <2>5. ASSUME NEW y \in Among(todo') PROVE Leaves(t, y)
    <3>1. CASE y \in Among(todo)
      BY <2>1, <3>1
    <3>2. CASE LeadsTo(prog, x, y)
      BY <1>2, <1>3, <2>1, <2>4, <3>2, LeavesStep
    <3>. QED BY <1>2, <3>1, <3>2 DEF Follows
  <2>. QED BY <2>2, <2>5
<1>8. CASE LearnsType(n) /\ TidOf(t) = TidOf(n)
  <2>1. n \in DOMAIN prog /\ prog[n].k = "type" /\ x.n = n /\ x.t = "known"
    <3>1. ~DeclaresAt(n)
      BY <1>8 DEF LearnsType, DeclaresAt, DueVisit, Due
    <3>. QED BY <1>8, <3>1, LearningAt DEF x
  <2>2. t = n
    BY <1>3, <1>5, <1>8, <2>1 DEF TidsMeant, IsType
  <2>3. tyData[t].laidOut
    BY <1>2, <2>1, <2>2 DEF LaidOutFirst
  <2>4. tyData'[t].laidOut
    BY <1>3, <2>3, TidStep
  <2>. QED BY <1>8, <2>2, <2>4, KnownLeaves
<1>. QED BY <1>6, <1>7, <1>8

\* What a node that is due after a step sees.
Sees(n, x, m, i) ==
  \/ i \in VisibleAt(x.n)
  \/ x.t = "visit" /\ prog[x.n].k = "block" /\ i \in blockTypes[x.n]
  \/ \E b \in BlocksAbove(prog, m) : Learns(n, b, i)

\* What is visible at a task after a step was so before it, or the step taught
\* it.
LEMMA VisibleNext ==
  ASSUME Sound, Moves, NEW n, Learning(n), NEW y \in Among(todo'), NEW i \in VisibleAt(y.n)'
  PROVE  Sees(n, Head(todo), y.n, i)
<1>. DEFINE x == Head(todo)
<1>1. TablesTyped /\ Control
  BY DEF Sound
<1>2. IsProgram(prog) /\ prog' = prog /\ Fits(prog, x) /\ Follows(x, y)
  BY <1>1, MovesFollow
<1>. HIDE DEF x
<1>3. y.n \in DOMAIN prog /\ BlocksAbove(prog, y.n) \subseteq DOMAIN prog
  BY <1>1, <1>2, NearestAbove DEF Follows
<1>4. PICK b \in BlocksAbove(prog, y.n) : i \in blockTypes'[b]
  BY <1>2 DEF VisibleAt
<1>5. i \in blockTypes[b] \/ Learns(n, b, i)
  BY <1>3, <1>4, BlockStep
<1>6. b \in BlocksAbove(prog, x.n) \/ (b = x.n /\ prog[b].k = "block" /\ x.t = "visit")
  BY <1>2, <1>4, FollowsBelow
<1>7. i \in blockTypes[b] => Sees(n, x, y.n, i)
  BY <1>6 DEF Sees, VisibleAt
<1>8. Learns(n, b, i) => Sees(n, x, y.n, i)
  BY <1>4 DEF Sees
<1>. QED BY <1>5, <1>7, <1>8 DEF x

\* A list that is made has not one name.
LEMMA NewListNames ==
  ASSUME NEW n, NEW i, DeclaresAt(n), NewId(n, i)
  PROVE  ~\E x : ids'[i].names = {x}
<1>1. ~MakesType(n)
  BY DEF DeclaresAt, MakesType, DueVisit
<1>2. DeclaredList(n) /\ ids'[i].names = prog[n].types
  BY <1>1 DEF NewId
<1>. QED BY <1>2, ListIsNotOne

\* When a block is visited nothing is learned.
LEMMA BlockVisit ==
  ASSUME Sound, Moves, NEW n, Head(todo).t = "visit", prog[Head(todo).n].k = "block", NEW b, NEW i
  PROVE  ~Learns(n, b, i)
<1>. SUFFICES ASSUME Learns(n, b, i) PROVE FALSE
  OBVIOUS
<1>1. LearnsType(n) \/ DeclaresAt(n)
  BY DEF Learns
<1>2. Head(todo).n = n /\ prog[n].k \in {"decl", "type"}
  BY <1>1, LearningAt
<1>. QED BY <1>2

\* Identifiers of one block have different names.
LEMMA NamesDistinctStep ==
  ASSUME Sound, Moves, NEW n, Learning(n), NamesDistinct, ClosingUnnamed, BlocksFresh, TidsMeant
  PROVE  NamesDistinct'
<1>. DEFINE x == Head(todo)
            S == VisibleAt(x.n)
<1>1. TablesTyped /\ Control /\ IdsGrow /\ DOMAIN ids = 1..Len(ids)
  BY IdsStep DEF Sound, TypesGrow
<1>2. IsProgram(prog) /\ prog' = prog /\ x \in Among(todo) /\ Fits(prog, x) /\ x.n \in DOMAIN prog
  BY <1>1, MovesFollow DEF Fits
<1>3. \A b \in DOMAIN prog : blockTypes[b] \subseteq DOMAIN ids
  BY <1>1 DEF TablesTyped, BlocksTyped
<1>4. S \subseteq DOMAIN ids /\ Distinct(S)
  <2>1. BlocksAbove(prog, x.n) \subseteq DOMAIN prog
    BY <1>1, <1>2, NearestAbove
  <2>. QED BY <1>2, <1>3, <2>1 DEF VisibleAt, NamesDistinct
<1>5. \A i, j \in S : (\E z : ids'[i].names = {z}) /\ ids'[i].names = ids'[j].names => i = j
  <2>. HIDE DEF S
  <2>. QED BY <1>1, <1>4, DistinctStays
<1>. SUFFICES ASSUME NEW y \in Among(todo'), NEW i \in VisibleAt(y.n)', NEW j \in VisibleAt(y.n)',
                     NEW z, ids'[i].names = {z}, ids'[j].names = {z}
              PROVE  i = j
  BY DEF NamesDistinct, Distinct, OneName
<1>6. Sees(n, x, y.n, i) /\ Sees(n, x, y.n, j)
  BY VisibleNext
<1>7. CASE x.t = "visit" /\ prog[x.n].k = "block"
  <2>1. i \in S \cup blockTypes[x.n] /\ j \in S \cup blockTypes[x.n]
    BY <1>6, <1>7, BlockVisit DEF Sees
  <2>2. x.n \notin Seen(prog, todo)
    <3>1. Visited(x) \cap Seen(prog, todo) = {} /\ x.n \in Visited(x)
      BY <1>1, <1>7, MovesSee DEF Visited
    <3>. QED BY <3>1
  <2>3. CASE x.n # 1
    <3>1. blockTypes[x.n] = {}
      BY <1>2, <2>2, <2>3 DEF BlocksFresh
    <3>. QED BY <1>5, <2>1, <3>1
  <2>4. CASE x.n = 1
    <3>1. S = {}
      BY <1>2, <2>4, BlocksAboveStep DEF VisibleAt
    <3>2. Distinct(blockTypes[1]) /\ blockTypes[1] \subseteq DOMAIN ids
      BY <1>2, <1>3, <2>2, <2>4 DEF BlocksFresh
    <3>. DEFINE R == blockTypes[1]
    <3>3. \A k, l \in R : (\E u : ids'[k].names = {u}) /\ ids'[k].names = ids'[l].names => k = l
      <4>. HIDE DEF R
      <4>1. R \in SUBSET DOMAIN ids /\ Distinct(R)
        BY <3>2 DEF R
      <4>. QED BY <1>1, <4>1, DistinctStays
    <3>4. i \in R /\ j \in R
      BY <2>1, <2>4, <3>1
    <3>. QED BY <3>3, <3>4
  <2>. QED BY <2>3, <2>4
<1>8. CASE ~(x.t = "visit" /\ prog[x.n].k = "block")
  <2>1. ASSUME NEW k, Sees(n, x, y.n, k), ids'[k].names = {z} PROVE k \in S \/ (LearnsType(n) /\ k = TidOf(n))
    <3>1. ~(DeclaresAt(n) /\ NewId(n, k))
      BY <2>1, NewListNames
    <3>. QED BY <1>8, <2>1, <3>1 DEF Sees, Learns
  <2>2. ASSUME LearnsType(n), NEW k \in S, ids'[k].names = {z}, ids'[TidOf(n)].names = {z} PROVE FALSE
    <3>1. n \in DOMAIN prog /\ x.n = n /\ x.t = "known" /\ prog[n].k = "type"
      <4>1. ~DeclaresAt(n)
        BY <2>2 DEF LearnsType, DeclaresAt, DueVisit, Due
      <4>. QED BY <2>2, <4>1, LearningAt
    <3>2. n \in Seen(prog, todo)
      BY <2>2, DueSeen DEF LearnsType, Sound
    <3>3. TidOf(n) # 0 /\ TidOf(n) \in DOMAIN ids
      BY <1>1, <3>1, <3>2, TidStep, IdsStep DEF Control, Controlled, TypesKept, TidOf
    <3>4. ids[TidOf(n)].names = {prog[n].name}
      BY <3>1, <3>3 DEF TidsMeant, IsType
    <3>5. ids[k].names # {prog[n].name}
      BY <1>2, <2>2, <3>1 DEF ClosingUnnamed, Closing, Unnamed
    <3>6. ids'[k] = ids[k] /\ ids'[TidOf(n)] = ids[TidOf(n)]
      <4>. HIDE DEF S
      <4>. QED BY <1>1, <1>4, <2>2, <3>3 DEF IdsGrow
    <3>. QED BY <2>2, <3>4, <3>5, <3>6
  <2>3. i \in S \/ (LearnsType(n) /\ i = TidOf(n))
    BY <1>6, <2>1
  <2>4. j \in S \/ (LearnsType(n) /\ j = TidOf(n))
    BY <1>6, <2>1
  <2>. HIDE DEF S, x
  <2>. QED BY <1>5, <2>2, <2>3, <2>4
<1>. QED BY <1>7, <1>8

\* The visit of a type makes its identifier.
LEMMA VisitMakes ==
  ASSUME Sound, Moves, Control', NEW n, Learning(n), Head(todo).t = "visit", prog[Head(todo).n].k = "type"
  PROVE  MakesType(n) /\ Head(todo).n = n
<1>. DEFINE m == Head(todo).n
<1>1. TablesTyped /\ Control
  BY DEF Sound
<1>2. /\ prog' = prog /\ m \in DOMAIN prog /\ m \in Seen(prog', todo') /\ m \notin Seen(prog, todo)
  <2>1. /\ prog' = prog /\ m \in DOMAIN prog /\ Seen(prog', todo') = Seen(prog, todo) \cup Visited(Head(todo))
        /\ Visited(Head(todo)) \cap Seen(prog, todo) = {} /\ m \in Visited(Head(todo))
    BY <1>1, MovesSee DEF Visited
  <2>. HIDE DEF m
  <2>. QED BY <2>1
<1>3. tyData[m].tid = 0
  BY <1>1, <1>2 DEF Control, Controlled, TypesKept
<1>4. tyData'[m].tid # 0
  BY <1>2 DEF Control, Controlled, TypesKept
<1>. QED BY <1>2, <1>3, <1>4, TidStep

\* A type that is being closed is not known by its name yet where its task
\* stands.
LEMMA ClosingUnnamedStep ==
  ASSUME Sound, Moves, Control', NEW n, Learning(n), ClosingUnnamed
  PROVE  ClosingUnnamed'
<1>. DEFINE x == Head(todo)
<1>1. TablesTyped /\ Control /\ IdsGrow
  BY IdsStep DEF Sound, TypesGrow
<1>2. /\ IsProgram(prog) /\ prog' = prog /\ x \in Among(todo) /\ Fits(prog, x) /\ x.n \in DOMAIN prog
      /\ \A y \in Among(Tail(todo)) : y \in Among(todo)
      /\ \A y \in Among(todo') : Follows(x, y)
  BY <1>1, MovesFollow DEF Fits
<1>. HIDE DEF x
<1>. SUFFICES ASSUME NEW y \in Among(todo'), Closing(y), NEW i \in VisibleAt(y.n)'
              PROVE  ids'[i].names # {prog[y.n].name}
  BY <1>2 DEF ClosingUnnamed, Unnamed
<1>3. y.n \in DOMAIN prog /\ prog[y.n].k = "type" /\ BlocksAbove(prog, y.n) \subseteq DOMAIN prog
  BY <1>1, <1>2, NearestAbove DEF Follows, Fits, Closing
<1>4. PICK b \in BlocksAbove(prog, y.n) : i \in blockTypes'[b]
  BY <1>2 DEF VisibleAt
<1>5. ASSUME DeclaresAt(n), NewId(n, i) PROVE ids'[i].names # {prog[y.n].name}
  BY <1>5, NewListNames
<1>6. i \in blockTypes[b] => i \in DOMAIN ids /\ i \in VisibleAt(y.n)
  BY <1>1, <1>3, <1>4 DEF TablesTyped, BlocksTyped, VisibleAt
<1>7. CASE y \in Among(Tail(todo)) /\ Order(prog, x, y)
  <2>1. CASE i \in blockTypes[b]
    <3>1. ids[i].names # {prog[y.n].name}
      BY <1>2, <1>6, <1>7, <2>1 DEF ClosingUnnamed, Unnamed
    <3>. QED BY <1>1, <1>6, <2>1, <3>1 DEF IdsGrow
  <2>2. CASE Learns(n, b, i) /\ LearnsType(n)
    <3>1. n \in DOMAIN prog /\ x.n = n /\ x.t = "known" /\ prog[n].k = "type"
      <4>1. ~DeclaresAt(n)
        BY <2>2 DEF LearnsType, DeclaresAt, DueVisit, Due
      <4>. QED BY <2>2, <4>1, LearningAt DEF x
    <3>2. Within(prog, n, y.n) /\ ~Within(prog, y.n, n)
      BY <1>7, <3>1 DEF Order, Closing
    <3>3. n # y.n
      BY <3>2
    <3>4. EnclosingBlock(n) \notin BlocksAbove(prog, y.n)
      BY <1>1, <1>3, <3>1, <3>2, <3>3, InnerBlock
    <3>. QED BY <1>4, <2>2, <3>4 DEF Learns
  <2>. QED BY <1>3, <1>4, <1>5, <2>1, <2>2, BlockStep DEF Learns
<1>8. CASE LeadsTo(prog, x, y)
  <2>1. y.n = x.n /\ (Closing(x) \/ x.t = "visit")
    BY <1>8 DEF LeadsTo
  <2>2. i \in blockTypes[b] \/ (DeclaresAt(n) /\ NewId(n, i))
    <3>1. ~LearnsType(n)
      <4>. SUFFICES ASSUME LearnsType(n) PROVE FALSE
        OBVIOUS
      <4>1. y.n # n
        BY KnownLeaves DEF Leaves
      <4>. QED BY <2>1, <4>1, LearningAt DEF x
    <3>. QED BY <1>3, <1>4, <3>1, BlockStep DEF Learns
  <2>3. ASSUME i \in blockTypes[b] PROVE ids[i].names # {prog[y.n].name}
    <3>1. CASE Closing(x)
      BY <1>2, <1>6, <2>1, <2>3, <3>1 DEF ClosingUnnamed, Unnamed
    <3>2. CASE x.t = "visit"
      <4>1. MakesType(n) /\ y.n = n
        BY <1>3, <2>1, <3>2, VisitMakes DEF x
      <4>2. Named(b, {prog[n].name}) = {}
        BY <1>4, <4>1 DEF MakesType, Known
      <4>. QED BY <2>3, <4>1, <4>2 DEF Named
    <3>. QED BY <2>1, <3>1, <3>2
  <2>4. i \in blockTypes[b] => ids'[i] = ids[i]
    BY <1>1, <1>6 DEF IdsGrow
  <2>. QED BY <1>5, <2>2, <2>3, <2>4
<1>. QED BY <1>2, <1>7, <1>8 DEF Follows

\* All of it is kept by every step that visits something.
LEMMA LearnedStepWell ==
  ASSUME Sound, Moves, Control', NEW n, Learning(n), LearnedWell
  PROVE  LearnedWell'
<1>1. /\ IdsMeant /\ TidsMeant /\ BlocksGrounded /\ ScopeGrounded
      /\ Settled /\ LaidOutFirst /\ BlocksFresh /\ NamesDistinct /\ ClosingUnnamed
  BY DEF LearnedWell
<1>2. IdsMeant' /\ TidsMeant' /\ BlocksGrounded' /\ ScopeGrounded'
  BY <1>1, IdsMeantStep, TidsMeantStep, BlocksGroundedStep, ScopeGroundedStep
<1>3. Settled' /\ LaidOutFirst' /\ BlocksFresh' /\ NamesDistinct' /\ ClosingUnnamed'
  BY <1>1, SettledStep, LaidOutFirstStep, BlocksFreshStep, NamesDistinctStep, ClosingUnnamedStep
<1>. QED BY <1>2, <1>3 DEF LearnedWell

BasicNames == <<"Integer", "Float", "Boolean", "Function", "Void">>

\* The basic identifiers have one name each, all different.
LEMMA BasicNamed ==
  /\ \A i \in 1..5 : BasicIds[i].names = {BasicNames[i]}
  /\ \A i, j \in 1..4 : BasicNames[i] = BasicNames[j] => i = j
<1>1. \A i \in 1..5 : i = 1 \/ i = 2 \/ i = 3 \/ i = 4 \/ i = 5
  OBVIOUS
<1>2. /\ BasicNames[1] = "Integer" /\ BasicNames[2] = "Float" /\ BasicNames[3] = "Boolean"
      /\ BasicNames[4] = "Function" /\ BasicNames[5] = "Void"
  BY DEF BasicNames
<1>3. \A i \in 1..5 : BasicIds[i].names = {BasicNames[i]}
  <2>. DEFINE a == TypeId(Integer, "Integer")
              b == TypeId(Float, "Float")
              c == TypeId(Boolean, "Boolean")
              d == TypeId(Function, "Function")
              e == TypeId(Void, "Void")
              s == <<a, b, c, d, e>>
  <2>1. BasicIds = s
    BY DEF BasicIds
  <2>2. /\ a.names = {"Integer"} /\ b.names = {"Float"} /\ c.names = {"Boolean"}
        /\ d.names = {"Function"} /\ e.names = {"Void"}
    BY DEF TypeId
  <2>. HIDE DEF a, b, c, d, e
  <2>3. s[1] = a /\ s[2] = b /\ s[3] = c /\ s[4] = d /\ s[5] = e
    OBVIOUS
  <2>. HIDE DEF s
  <2>. QED BY <1>1, <1>2, <2>1, <2>2, <2>3
<1>4. /\ BasicNames[1] # BasicNames[2] /\ BasicNames[1] # BasicNames[3] /\ BasicNames[1] # BasicNames[4]
      /\ BasicNames[2] # BasicNames[3] /\ BasicNames[2] # BasicNames[4] /\ BasicNames[3] # BasicNames[4]
  BY <1>2
<1>5. ASSUME NEW i \in 1..4, NEW j \in 1..4, BasicNames[i] = BasicNames[j] PROVE i = j
  <2>1. i = 1 \/ i = 2 \/ i = 3 \/ i = 4
    OBVIOUS
  <2>2. j = 1 \/ j = 2 \/ j = 3 \/ j = 4
    OBVIOUS
  <2>. QED BY <1>4, <1>5, <2>1, <2>2
<1>. QED BY <1>3, <1>5

\* At the start only the basic types are known.
LEMMA InitLearned ==
  ASSUME Init
  PROVE  LearnedWell
<1>1. prog \in Programs /\ IsProgram(prog) /\ 1 \in DOMAIN prog /\ DOMAIN prog = 1..Len(prog)
  BY ProgramsAssumption, ProgramFacts DEF Init
<1>2. ids = BasicIds /\ DOMAIN ids = 1..5 /\ \A i \in 1..5 : ids[i].types = {i} /\ ids[i].names = {BasicNames[i]}
  BY BasicIdsTyped, BasicNamed DEF Init
<1>3. \A b \in DOMAIN prog : blockTypes[b] = IF b = 1 THEN 1..4 ELSE {}
  <2>1. {Integer, Float, Boolean, Function} = 1..4
    BY DEF Integer, Float, Boolean, Function
  <2>. QED BY <2>1 DEF Init
<1>4. \A t : ~IsType(t)
  <2>1. NoData.tid = 0
    BY DEF NoData
  <2>2. \A t \in DOMAIN prog : tyData[t].tid = 0
    BY <2>1 DEF Init
  <2>. QED BY <2>2 DEF IsType, TidOf
<1>5. \A y \in Among(todo) : y.t = "visit" /\ y.n = 1
  <2>. DEFINE y == Visit(1)
  <2>1. todo = <<y>> /\ y.t = "visit" /\ y.n = 1
    BY DEF Init, Visit
  <2>. HIDE DEF y
  <2>2. Among(todo) = {y}
    BY <2>1, AmongOne
  <2>. QED BY <2>1, <2>2
<1>6. IdsMeant
  BY <1>2 DEF IdsMeant
<1>7. TidsMeant /\ Settled
  BY <1>4 DEF TidsMeant, Settled
<1>8. BlocksGrounded
  <2>. SUFFICES ASSUME NEW b \in DOMAIN prog, NEW i \in blockTypes[b] PROVE Grounded(b, i)
    BY DEF BlocksGrounded
  <2>1. i \in 1..5
    BY <1>3
  <2>2. ids[i].types = {i} /\ ids[i].names = {BasicNames[i]}
    BY <1>2, <2>1
  <2>. QED BY <2>2 DEF Grounded
<1>9. ScopeGrounded
  BY DEF Init, ScopeGrounded
<1>10. LaidOutFirst /\ ClosingUnnamed
  BY <1>5 DEF LaidOutFirst, ClosingUnnamed, Closing
<1>11. BlocksFresh
  <2>1. Distinct(blockTypes[1])
    <3>1. blockTypes[1] = 1..4
      BY <1>1, <1>3
    <3>2. \A i \in 1..4 : ids[i].names = {BasicNames[i]}
      BY <1>2
    <3>3. \A i, j \in 1..4 : ids[i].names = ids[j].names => BasicNames[i] = BasicNames[j]
      BY <3>2
    <3>. QED BY <3>1, <3>3, BasicNamed DEF Distinct
  <2>. QED BY <1>3, <2>1 DEF BlocksFresh
<1>12. NamesDistinct
  <2>1. BlocksAbove(prog, 1) = {}
    BY <1>1, BlocksAboveStep
  <2>. QED BY <1>5, <2>1 DEF NamesDistinct, VisibleAt, Distinct
<1>. QED BY <1>6, <1>7, <1>8, <1>9, <1>10, <1>11, <1>12 DEF LearnedWell

\* When nothing is written, nothing is learned.
LEMMA IdleLearned ==
  ASSUME UNCHANGED <<prog, tables, todo>>, LearnedWell
  PROVE  LearnedWell'
<1>1. /\ prog' = prog /\ ids' = ids /\ blockTypes' = blockTypes /\ blockScope' = blockScope
      /\ tyData' = tyData /\ todo' = todo
  BY DEF tables
<1>2. /\ IdsMeant /\ TidsMeant /\ BlocksGrounded /\ ScopeGrounded
      /\ Settled /\ LaidOutFirst /\ BlocksFresh /\ NamesDistinct /\ ClosingUnnamed
  BY DEF LearnedWell
<1>3. Learned' = Learned
  BY <1>1 DEF Learned
<1>4. \A i : OneName(i)' <=> OneName(i)
  BY <1>1 DEF OneName
<1>5. \A t : (IsType(t)' <=> IsType(t)) /\ TidOf(t)' = TidOf(t)
  BY <1>1 DEF IsType, TidOf
<1>6. \A n : VisibleAt(n)' = VisibleAt(n)
  BY <1>1 DEF VisibleAt
<1>7. IdsMeant'
  BY <1>1, <1>2, <1>4 DEF IdsMeant
<1>8. TidsMeant'
  BY <1>1, <1>2, <1>5 DEF TidsMeant
<1>9. BlocksGrounded'
  <2>. SUFFICES ASSUME NEW b \in DOMAIN prog, NEW i \in blockTypes[b] PROVE Grounded(b, i)'
    BY <1>1 DEF BlocksGrounded
  <2>1. Grounded(b, i)
    BY <1>2 DEF BlocksGrounded
  <2>. QED BY <1>1, <2>1 DEF Grounded
<1>10. ScopeGrounded'
  BY <1>1, <1>2, <1>3 DEF ScopeGrounded
<1>11. Settled'
  BY <1>1, <1>2, <1>3, <1>5 DEF Settled
<1>12. LaidOutFirst'
  BY <1>1, <1>2 DEF LaidOutFirst
<1>13. BlocksFresh'
  BY <1>1, <1>2, <1>4 DEF BlocksFresh, Distinct
<1>14. NamesDistinct'
  BY <1>1, <1>2, <1>4, <1>6 DEF NamesDistinct, Distinct
<1>15. ClosingUnnamed'
  BY <1>1, <1>2, <1>6 DEF ClosingUnnamed, Unnamed
<1>. QED BY <1>7, <1>8, <1>9, <1>10, <1>11, <1>12, <1>13, <1>14, <1>15 DEF LearnedWell

\* What was learned stays well learned.
LEMMA NextLearned ==
  ASSUME Sound, LearnedWell, [Next]_compilerVars
  PROVE  LearnedWell'
<1>1. CASE UNCHANGED compilerVars
  BY <1>1, IdleLearned DEF compilerVars, tables
<1>2. CASE Idle
  BY <1>2, IdleLearned DEF Idle, given
<1>3. CASE Next /\ ~Idle
  <2>1. Control' /\ Moves
    BY <1>3, NextControls DEF Stepped, Sound
  <2>2. PICK n : Statement(n) \/ TypeStep(n)
    BY <1>3 DEF Next, Finish, Idle
  <2>3. Effect(n)
    BY <2>2, StatementEffect, TypeStepEffect
  <2>4. Learning(n)
    BY <1>3, <2>3 DEF Effect, Learning, DeclaresAt
  <2>. QED BY <2>1, <2>4, LearnedStepWell
<1>. QED BY <1>1, <1>2, <1>3

\* The second inductive invariant, on top of the first.
LEMMA LearnedAlways == Spec => [](Sound /\ LearnedWell)
<1>1. Init => LearnedWell
  BY InitLearned
<1>2. Sound /\ LearnedWell /\ [Next]_compilerVars => LearnedWell'
  BY NextLearned
<1>. QED BY <1>1, <1>2, SoundAlways, PTL DEF Spec

\* A type is in a block's table only when finalize is over: its struct is laid
\* out and nothing of it is left to compile; until then no variable has it. So
\* though visitType makes the identifier before it visits the members that may
\* name it, nothing ever uses a type whose fields are not all there, for every
\* program.
THEOREM CompleteHold == Spec => []KnownTypesAreComplete
<1>1. Sound /\ LearnedWell => KnownTypesAreComplete
  <2>. SUFFICES ASSUME Sound, LearnedWell, NEW t \in Nodes, prog[t].k = "type", TidOf(t) # 0
                PROVE  LET known == \E b \in Nodes : TidOf(t) \in blockTypes[b] IN
                       /\ known => /\ tyData[t].laidOut
                                   /\ \A k \in DOMAIN todo : todo[k].n # t /\ prog[todo[k].n].parent # t
                       /\ ~known => \A v \in blockScope : TidOf(t) \notin ids[v.ty].types
    BY DEF KnownTypesAreComplete
  <2>1. IsType(t) /\ TablesTyped /\ IsProgram(prog)
    BY ProgTree DEF IsType, Nodes, Sound
  <2>2. ASSUME TidOf(t) \in Learned
        PROVE  tyData[t].laidOut /\ \A k \in DOMAIN todo : todo[k].n # t /\ prog[todo[k].n].parent # t
    BY <2>1, <2>2 DEF LearnedWell, Settled, Among
  <2>3. ASSUME NEW v \in blockScope, TidOf(t) \in ids[v.ty].types PROVE TidOf(t) \in Learned
    <3>1. PICK b \in DOMAIN prog : v.ty \in blockTypes[b]
      BY DEF LearnedWell, ScopeGrounded, Learned
    <3>2. Grounded(b, v.ty)
      BY <3>1 DEF LearnedWell, BlocksGrounded
    <3>3. PICK c \in {b} \cup BlocksAbove(prog, b) : TidOf(t) \in blockTypes[c]
      BY <2>3, <3>2 DEF Grounded
    <3>4. c \in DOMAIN prog
      BY <2>1, <3>1, <3>3, NearestAbove
    <3>. QED BY <3>3, <3>4 DEF Learned
  <2>4. (\E b \in Nodes : TidOf(t) \in blockTypes[b]) <=> TidOf(t) \in Learned
    BY DEF Learned, Nodes
  <2>. QED BY <2>2, <2>3, <2>4
<1>. QED BY <1>1, LearnedAlways, PTL

\* Two identifiers visible from where there is still something to visit that
\* have the same names allow the same types, for every program: typeIdFromInfo,
\* which finds lists in an unordered set by their names alone, never takes one
\* for another.
THEOREM ListsHold == Spec => []ListsByNameAgree
<1>1. Sound /\ LearnedWell => ListsByNameAgree
  <2>. SUFFICES ASSUME Sound, LearnedWell, NEW k \in DOMAIN todo,
                       NEW i \in VisibleAt(todo[k].n), NEW j \in VisibleAt(todo[k].n), ids[i].names = ids[j].names
                PROVE  ids[i].types = ids[j].types
    BY DEF ListsByNameAgree, VisibleAt
  <2>. DEFINE z == todo[k]
  <2>1. TablesTyped /\ IsProgram(prog) /\ z \in Among(todo) /\ z.n \in DOMAIN prog
    BY ProgTree DEF Sound, Control, Controlled, Queue, Among, Fits
  <2>. HIDE DEF z
  <2>2. ASSUME NEW b \in BlocksAbove(prog, z.n)
        PROVE  b \in DOMAIN prog /\ {b} \cup BlocksAbove(prog, b) \subseteq BlocksAbove(prog, z.n)
    <3>1. b \in DOMAIN prog /\ Within(prog, z.n, b) /\ b # z.n
      BY <2>1, BlocksAboveAre
    <3>. SUFFICES ASSUME NEW c \in BlocksAbove(prog, b) PROVE c \in BlocksAbove(prog, z.n)
      BY <3>1
    <3>2. c \in DOMAIN prog /\ prog[c].k = "block" /\ c # b /\ Within(prog, b, c)
      BY <2>1, <3>1, BlocksAboveAre
    <3>3. Within(prog, z.n, c)
      BY <2>1, <3>1, <3>2, WithinOrder
    <3>4. c # z.n
      <4>. SUFFICES ASSUME c = z.n PROVE FALSE
        OBVIOUS
      <4>1. b <= z.n /\ z.n <= b /\ b \in Nat /\ z.n \in Nat
        BY <2>1, <3>1, <3>2, WithinOrder, ProgramFacts
      <4>. QED BY <3>1, <4>1
    <3>. QED BY <2>1, <3>2, <3>3, <3>4, BlocksAboveAre
  <2>3. ASSUME NEW p \in VisibleAt(z.n)
        PROVE  /\ \A q \in ids[p].types : q \in VisibleAt(z.n) /\ \E x \in ids[p].names : ids[q].names = {x}
               /\ \A x \in ids[p].names : \E q \in ids[p].types : ids[q].names = {x}
    <3>1. PICK b \in BlocksAbove(prog, z.n) : p \in blockTypes[b]
      BY DEF VisibleAt
    <3>2. Grounded(b, p)
      BY <2>2, <3>1 DEF LearnedWell, BlocksGrounded
    <3>3. \A q \in ids[p].types : \E c \in {b} \cup BlocksAbove(prog, b), x \in ids[p].names : q \in blockTypes[c] /\ ids[q].names = {x}
      BY <3>2 DEF Grounded
    <3>4. \A x \in ids[p].names : \E q \in ids[p].types : ids[q].names = {x}
      BY <3>2 DEF Grounded
    <3>5. \A q \in ids[p].types : q \in VisibleAt(z.n) /\ \E x \in ids[p].names : ids[q].names = {x}
      BY <2>2, <3>3 DEF VisibleAt
    <3>. QED BY <3>4, <3>5
  <2>4. ASSUME NEW p \in VisibleAt(z.n), NEW r \in VisibleAt(z.n), ids[p].names = ids[r].names, NEW q \in ids[p].types
        PROVE  q \in ids[r].types
    <3>1. PICK x \in ids[p].names : ids[q].names = {x} /\ q \in VisibleAt(z.n)
      BY <2>3, <2>4
    <3>2. PICK u \in ids[r].types : ids[u].names = {x}
      BY <2>3, <2>4, <3>1
    <3>3. u \in VisibleAt(z.n)
      BY <2>3, <2>4, <3>2
    <3>4. Distinct(VisibleAt(z.n))
      BY <2>1 DEF LearnedWell, NamesDistinct
    <3>5. q = u
      BY <3>1, <3>2, <3>3, <3>4 DEF Distinct, OneName
    <3>. QED BY <3>2, <3>5
  <2>5. ids[i].types \subseteq ids[j].types /\ ids[j].types \subseteq ids[i].types
    BY <2>4 DEF z
  <2>. QED BY <2>5
<1>. QED BY <1>1, LearnedAlways, PTL

=============================================================================
