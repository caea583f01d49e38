--------------------------- MODULE ExprParserProofs ---------------------------
(***************************************************************************)
(* Proofs about ExprParser, for every list of tokens.                      *)
(*                                                                         *)
(* ParserInv says what each mode may rely on: that is enough for null      *)
(* operands.  TreeInv says who holds which node: every tree under          *)
(* construction is held once, by an invocation or by the one that is       *)
(* handing it over, so that linking it makes it a child once.              *)
(***************************************************************************)
EXTENDS ExprParser, SequenceTheorems, NatFacts, TLAPS

Running == mode \in {"primary", "postfix", "operand", "loop", "value"}

\* What the parser points at exists.
Places ==
  /\ input \in Inputs
  /\ limit \in Node /\ pos \in Node
  /\ val \in NodeOrNull
  /\ stack \in Seq(Frame)

\* The groups being parsed: below all, the parser of the whole expression; the
\* others end before the last token.
IsGroup(i) == stack[i].kind = "group" /\ stack[i].begin # 0
Groups ==
  /\ stack # <<>> /\ stack[1].kind = "group" /\ stack[1].begin = 0
  /\ \A i \in DOMAIN stack : IsGroup(i) => stack[i].limit \in Node /\ limit < Len(input)
  /\ \A i, j \in DOMAIN stack :
       i < j /\ IsGroup(i) /\ IsGroup(j) => stack[j].limit < Len(input)

\* An invocation of expressionImpl that waits for a right operand took an
\* operator that its minimal precedence allows.
TookAllowed(i) ==
  LET op == stack[i].op IN
  op # 0 /\ input[op].op # 0 /\ PrecOf(op) >= stack[i].min
Waits(i) ==
  /\ stack[i].kind = "impl"
  /\ IF i = Len(stack) THEN mode \in {"primary", "postfix", "operand"}
     ELSE stack[i + 1].kind # "impl"
OperatorsAllowed ==
  \A i \in DOMAIN stack : Waits(i) =>
    \/ TookAllowed(i)
    \/ i = Len(stack) /\ mode = "operand" /\ ~IsBinaryOp /\ stack[i].op # 0

\* What each mode may rely on.  The loops leave an operator to nobody: an
\* invocation returns only where there is none.
Modes ==
  /\ mode = "postfix" => val # 0
  /\ mode = "operand" /\ val = 0 =>
       ~IsBinaryOp /\ (Top.kind # "impl" => AcceptEndOfExpression)
  /\ mode = "value" =>
       /\ ~IsBinaryOp
       /\ val = 0 => /\ Top.kind # "impl"
                     /\ Top.kind = "group" =>
                          Top.begin = 0 \/ input[Top.begin].type = "CALL_BEGIN"
  /\ mode = "loop" =>
       /\ Top.kind = "impl"
       /\ Top.base = 0 => val # 0
       /\ IsBinaryOp => val # 0 /\ CurPrec >= Top.min

ParserInv ==
  /\ mode \in {"primary", "postfix", "operand", "loop", "value", "done"} \cup Failures
  /\ NullNeverLinked
  /\ Running => Places /\ Groups /\ OperatorsAllowed /\ Modes

(***************************************************************************)
(* The stack and the current token                                         *)
(***************************************************************************)
LEMMA PushFacts ==
  ASSUME NEW S, NEW s \in Seq(S), NEW f \in S
  PROVE  /\ Append(s, f) \in Seq(S) /\ Append(s, f) # <<>>
         /\ Len(Append(s, f)) = Len(s) + 1
         /\ DOMAIN Append(s, f) = 1..(Len(s) + 1)
         /\ \A i \in DOMAIN s : Append(s, f)[i] = s[i]
         /\ Append(s, f)[Len(s) + 1] = f
  OBVIOUS

LEMMA PopFacts ==
  ASSUME NEW S, NEW s \in Seq(S), s # <<>>
  PROVE  /\ SubSeq(s, 1, Len(s) - 1) \in Seq(S)
         /\ Len(SubSeq(s, 1, Len(s) - 1)) = Len(s) - 1
         /\ DOMAIN SubSeq(s, 1, Len(s) - 1) = 1..(Len(s) - 1)
         /\ \A i \in 1..(Len(s) - 1) : SubSeq(s, 1, Len(s) - 1)[i] = s[i]
<1>0. PICK k \in Nat : k = Len(s) /\ k # 0
  OBVIOUS
<1>1. Len(s) \in Nat \ {0} /\ \A i \in 1..(Len(s) - 1) : s[i] \in S
  OBVIOUS
<1>. DEFINE r == SubSeq(s, 1, Len(s) - 1)
<1>2. /\ r \in Seq(S)
      /\ Len(r) = IF 1 <= Len(s) - 1 THEN (Len(s) - 1) - 1 + 1 ELSE 0
      /\ \A i \in 1..((Len(s) - 1) - 1 + 1) : r[i] = s[1 + i - 1]
  BY <1>1, SubSeqProperties
<1>3. Len(r) = Len(s) - 1
  <2>1. CASE Len(s) = 1
    BY <1>2, <2>1
  <2>2. CASE Len(s) # 1
    <3>1. 1 <= Len(s) - 1 /\ (Len(s) - 1) - 1 + 1 = Len(s) - 1
      BY <1>0, <2>2
    <3>. HIDE DEF r
    <3>. QED BY <1>2, <3>1
  <2>. QED BY <2>1, <2>2
<1>. HIDE DEF r
<1>4. DOMAIN r = 1..(Len(s) - 1)
  BY <1>2, <1>3
<1>5. ASSUME NEW i \in 1..(Len(s) - 1)
      PROVE  r[i] = s[i]
  <2>1. i \in 1..((Len(s) - 1) - 1 + 1) /\ 1 + i - 1 = i
    BY <1>0
  <2>. QED BY <1>2, <2>1
<1>. QED BY <1>2, <1>3, <1>4, <1>5 DEF r

LEMMA ReplaceFacts ==
  ASSUME NEW S, NEW s \in Seq(S), s # <<>>, NEW f \in S,
         NEW t, t = Append(SubSeq(s, 1, Len(s) - 1), f)
  PROVE  /\ t \in Seq(S) /\ t # <<>>
         /\ Len(t) = Len(s) /\ DOMAIN t = DOMAIN s
         /\ \A i \in DOMAIN s : i # Len(s) => t[i] = s[i]
         /\ t[Len(s)] = f
<1>1. Len(s) \in Nat \ {0} /\ DOMAIN s = 1..Len(s)
  OBVIOUS
<1>. DEFINE r == SubSeq(s, 1, Len(s) - 1)
<1>2. r \in Seq(S) /\ Len(r) = Len(s) - 1 /\ DOMAIN r = 1..(Len(s) - 1)
      /\ \A i \in 1..(Len(s) - 1) : r[i] = s[i]
  BY PopFacts
<1>. HIDE DEF r
<1>3. t = Append(r, f)
  BY DEF r
<1>. QED BY <1>1, <1>2, <1>3, PushFacts

\* What the three kinds of frame hold.
LEMMA FrameFacts ==
  ASSUME NEW f \in Frame
  PROVE  /\ f.kind \in {"group", "prefix", "impl"}
         /\ f.kind = "group" =>
              f.begin \in NodeOrNull /\ f.callee \in NodeOrNull /\ f.limit \in NodeOrNull
         /\ f.kind = "prefix" => f.first \in Node /\ f.last \in Node
         /\ f.kind = "impl" =>
              /\ f.op \in NodeOrNull /\ f.base \in NodeOrNull
              /\ f.last \in NodeOrNull /\ f.min \in Nat
BY DEF Frame

LEMMA OpUpdate ==
  ASSUME NEW f \in Frame, f.kind = "impl", NEW n \in NodeOrNull
  PROVE  /\ [f EXCEPT !.op = n] \in Frame
         /\ [f EXCEPT !.op = n].kind = "impl" /\ [f EXCEPT !.op = n].op = n
         /\ [f EXCEPT !.op = n].min = f.min /\ [f EXCEPT !.op = n].base = f.base
BY DEF Frame

LEMMA BaseUpdate ==
  ASSUME NEW f \in Frame, f.kind = "impl", NEW n \in NodeOrNull
  PROVE  /\ [f EXCEPT !.base = n, !.last = n] \in Frame
         /\ [f EXCEPT !.base = n, !.last = n].kind = "impl"
         /\ [f EXCEPT !.base = n, !.last = n].base = n
         /\ [f EXCEPT !.base = n, !.last = n].min = f.min
BY DEF Frame

LEMMA LastUpdate ==
  ASSUME NEW f \in Frame, f.kind = "impl", NEW n \in NodeOrNull
  PROVE  /\ [f EXCEPT !.last = n] \in Frame
         /\ [f EXCEPT !.last = n].kind = "impl"
         /\ [f EXCEPT !.last = n].base = f.base
         /\ [f EXCEPT !.last = n].min = f.min
BY DEF Frame

\* The tokens are tokens, the nodes positions.
LEMMA InputFacts ==
  ASSUME input \in Inputs
  PROVE  /\ input \in Seq(TokenSet) /\ Len(input) \in Nat \ {0} /\ Node = 1..Len(input)
         /\ \A n \in Node : input[n].type = "OPERATOR" <=> input[n].op # 0
         /\ \A n \in Node : input[n].op \in {0} \cup DOMAIN Operators
<1>1. input \in Seq(TokenSet) /\ input # <<>>
  BY InputsAssumption
<1>2. Len(input) \in Nat \ {0} /\ DOMAIN input = 1..Len(input)
  BY <1>1
<1>3. \A n \in DOMAIN input : input[n] \in TokenSet
  BY <1>1
<1>4. \A t \in TokenSet : /\ t.type = "OPERATOR" <=> t.op # 0
                         /\ t.op \in {0} \cup DOMAIN Operators
  BY DEF TokenSet
<1>. QED BY <1>1, <1>2, <1>3, <1>4 DEF Node

LEMMA PrecIsNat ==
  ASSUME input \in Inputs, NEW n \in Node, input[n].op # 0
  PROVE  PrecOf(n) \in Nat
<1>1. input[n].op \in DOMAIN Operators
  BY InputFacts
<1>. QED BY <1>1, PrecedencesAssumption DEF PrecOf

\* A binary operator at hand is an operator token inside the parser's input.
LEMMA BinaryFacts ==
  ASSUME Places, IsBinaryOp
  PROVE  /\ pos # limit /\ input[pos].op # 0 /\ input[pos].op = OpAt(pos)
         /\ CurPrec = PrecOf(pos) /\ CurPrec \in Nat
         /\ ~AcceptEndOfExpression
<1>1. pos # limit /\ input[pos].type = "OPERATOR"
  BY DEF IsBinaryOp, TypeAt
<1>2. input[pos].op # 0 /\ input[pos].op = OpAt(pos) /\ CurPrec = PrecOf(pos)
  BY <1>1, InputFacts DEF Places, OpAt, CurPrec, PrecOf
<1>3. CurPrec \in Nat
  BY <1>2, PrecIsNat DEF Places
<1>. QED BY <1>1, <1>2, <1>3 DEF AcceptEndOfExpression, EndTypes, TypeAt

\* At the end of an expression there is no operator.
LEMMA NoOperatorAtEnd ==
  ASSUME AcceptEndOfExpression
  PROVE  ~IsBinaryOp
BY DEF AcceptEndOfExpression, IsBinaryOp, EndTypes

LEMMA SameCurrent ==
  ASSUME UNCHANGED <<input, pos, limit>>
  PROVE  /\ IsBinaryOp' = IsBinaryOp /\ CurPrec' = CurPrec
         /\ AcceptEndOfExpression' = AcceptEndOfExpression
BY DEF IsBinaryOp, CurPrec, AcceptEndOfExpression, TypeAt, OpAt

LEMMA SkipIsNode ==
  ASSUME Places
  PROVE  SkipFrom(pos) \in Node
<1>1. Node = 1..Len(input) /\ Len(input) \in Nat /\ limit \in 1..Len(input) /\ pos \in 1..Len(input)
  BY InputFacts DEF Places
<1>. QED BY <1>1 DEF SkipFrom

\* A parser that ends any other way than on a null operand keeps the invariant.
LEMMA EndedInv ==
  ASSUME NEW how \in Failures, Ended(how),
         how = "crash" => Top.kind = "prefix" /\ val = 0 /\ AcceptEndOfExpression
  PROVE  ParserInv'
<1>1. mode' = how /\ ~Running'
  BY DEF Ended, Failures, Running
<1>2. NullNeverLinked'
  BY <1>1, SameCurrent DEF Ended, NullNeverLinked, Top
<1>. QED BY <1>1, <1>2 DEF ParserInv

\* What remains to be shown when the parser goes on.
LEMMA RunningInv ==
  ASSUME Running', Places', Groups', OperatorsAllowed', Modes'
  PROVE  ParserInv'
<1>1. mode' \in {"primary", "postfix", "operand", "loop", "value"}
  BY DEF Running
<1>. QED BY <1>1 DEF ParserInv, NullNeverLinked, Running

(***************************************************************************)
(* What the operations on the stack preserve                               *)
(***************************************************************************)
\* The top frame is a frame, and so is every other.
LEMMA StackFacts ==
  ASSUME Places, Groups
  PROVE  /\ Len(stack) \in Nat \ {0} /\ DOMAIN stack = 1..Len(stack)
         /\ \A i \in DOMAIN stack : stack[i] \in Frame
         /\ Top = stack[Len(stack)] /\ Top \in Frame
         /\ Top.kind # "group" \/ Top.begin # 0 => Len(stack) > 1
<1>1. stack \in Seq(Frame) /\ stack # <<>>
  BY DEF Places, Groups
<1>2. Len(stack) \in Nat \ {0} /\ DOMAIN stack = 1..Len(stack)
  BY <1>1
<1>3. \A i \in DOMAIN stack : stack[i] \in Frame
  BY <1>1
<1>4. Len(stack) = 1 => Top.kind = "group" /\ Top.begin = 0
  BY DEF Groups, Top
<1>. QED BY <1>2, <1>3, <1>4 DEF Top

\* Inside a primary the stack stays, wherever the parser moves.
LEMMA MoveKeeps ==
  ASSUME Places, Groups, OperatorsAllowed, UNCHANGED <<input, limit, stack>>,
         \/ mode' = "value"
         \/ mode \in {"primary", "postfix"} /\ mode' \in {"primary", "postfix", "operand"},
         pos' \in Node, val' \in NodeOrNull
  PROVE  Places' /\ Groups' /\ OperatorsAllowed' /\ Running'
<1>1. Node' = Node /\ NodeOrNull' = NodeOrNull
  BY DEF Node, NodeOrNull
<1>2. Frame' = Frame
  BY <1>1 DEF Frame
<1>3. Places'
  BY <1>1, <1>2 DEF Places
<1>4. Groups'
  BY <1>1 DEF Groups, IsGroup
<1>5. \A i \in DOMAIN stack : Waits(i)' => Waits(i)
  BY DEF Waits
<1>6. \A i \in DOMAIN stack : TookAllowed(i)' = TookAllowed(i)
  BY DEF TookAllowed, PrecOf
<1>7. OperatorsAllowed'
  <2>1. SUFFICES ASSUME NEW i \in DOMAIN stack, Waits(i)'
                 PROVE  TookAllowed(i)
    BY <1>6 DEF OperatorsAllowed
  <2>2. i = Len(stack) => mode # "operand"
    BY <2>1 DEF Waits
  <2>. QED BY <1>5, <2>1, <2>2 DEF OperatorsAllowed
<1>. QED BY <1>3, <1>4, <1>7 DEF Running

LEMMA PushKeeps ==
  ASSUME Places, Groups, OperatorsAllowed, NEW f \in Frame, Push(f), input' = input,
         pos' \in Node, val' \in NodeOrNull, limit' \in Node,
         f.kind = "group" => f.begin # 0 /\ f.limit = limit /\ limit' < limit,
         f.kind # "group" => limit' = limit,
         f.kind = "impl" => mode' = "loop",
         Top.kind = "impl" => f.kind = "impl" \/ mode \in {"primary", "postfix"}
  PROVE  Places' /\ Groups' /\ OperatorsAllowed' /\ Top' = f
<1>0. PICK n : n = Len(stack)
  OBVIOUS
<1>1. Node' = Node /\ NodeOrNull' = NodeOrNull
  BY DEF Node, NodeOrNull
<1>2. Frame' = Frame
  BY <1>1 DEF Frame
<1>3. /\ n \in Nat \ {0} /\ DOMAIN stack = 1..n
      /\ \A i \in 1..n : stack[i] \in Frame
  BY <1>0, StackFacts
<1>4. /\ stack' \in Seq(Frame) /\ stack' # <<>> /\ Len(stack') = n + 1
      /\ DOMAIN stack' = 1..(n + 1)
      /\ \A i \in 1..n : stack'[i] = stack[i]
      /\ stack'[n + 1] = f
  BY <1>0, <1>3, PushFacts DEF Places, Push
<1>5. Places'
  BY <1>1, <1>2, <1>4 DEF Places
<1>6. /\ limit \in Nat /\ Len(input) \in Nat /\ limit <= Len(input)
      /\ \A m \in Node : m \in Nat
      /\ limit' <= limit
  BY <1>1, InputFacts DEF Places
<1>7. Groups'
  <2>1. stack'[1] = stack[1]
    BY <1>3, <1>4
  <2>2. \A i \in 1..n : IsGroup(i)' = IsGroup(i)
    BY <1>4 DEF IsGroup
  <2>3. IsGroup(n + 1)' => f.kind = "group"
    BY <1>4 DEF IsGroup
  <2>4. ASSUME NEW i \in DOMAIN stack', IsGroup(i)'
        PROVE  stack'[i].limit \in Node' /\ limit' < Len(input)'
    <3>1. CASE i = n + 1
      BY <3>1, <2>3, <2>4, <1>1, <1>4, <1>6 DEF Places
    <3>2. CASE i \in 1..n
      <4>1. IsGroup(i) /\ stack'[i] = stack[i]
        BY <3>2, <2>2, <2>4, <1>4
      <4>2. stack[i].limit \in Node /\ limit < Len(input)
        BY <4>1, <3>2, <1>3 DEF Groups
      <4>. QED BY <4>1, <4>2, <1>1, <1>6
    <3>. QED BY <3>1, <3>2, <1>3, <1>4
  <2>5. ASSUME NEW i \in DOMAIN stack', NEW j \in DOMAIN stack',
               i < j, IsGroup(i)', IsGroup(j)'
        PROVE  stack'[j].limit < Len(input)'
    <3>1. i \in 1..n /\ IsGroup(i)
      BY <2>2, <2>5, <1>3, <1>4
    <3>2. limit < Len(input)
      BY <3>1, <1>3 DEF Groups
    <3>3. CASE j = n + 1
      BY <3>2, <3>3, <2>3, <2>5, <1>4
    <3>4. CASE j \in 1..n
      <4>1. IsGroup(j) /\ stack'[j] = stack[j]
        BY <3>4, <2>2, <2>5, <1>4
      <4>. QED BY <3>1, <3>4, <4>1, <2>5, <1>3 DEF Groups
    <3>. QED BY <3>3, <3>4, <1>3, <1>4
  <2>. QED BY <2>1, <2>4, <2>5, <1>4 DEF Groups
<1>8. OperatorsAllowed'
  <2>1. SUFFICES ASSUME NEW i \in DOMAIN stack', Waits(i)'
                 PROVE  TookAllowed(i)'
    BY DEF OperatorsAllowed
  <2>2. i # n + 1
    BY <2>1, <1>4 DEF Waits
  <2>3. i \in 1..n /\ stack'[i] = stack[i]
    BY <2>2, <1>3, <1>4
  <2>4. Waits(i) /\ (i = n => mode \in {"primary", "postfix"})
    <3>1. stack'[i].kind = "impl" /\ stack'[i + 1].kind # "impl"
      BY <2>1, <2>3, <1>3, <1>4 DEF Waits
    <3>2. CASE i = n
      BY <3>1, <3>2, <2>3, <1>0, <1>4 DEF Waits, Top
    <3>3. CASE i # n
      BY <3>1, <3>3, <2>3, <1>0, <1>3, <1>4 DEF Waits
    <3>. QED BY <3>2, <3>3
  <2>5. TookAllowed(i)
    BY <2>3, <2>4, <1>0, <1>3 DEF OperatorsAllowed
  <2>. QED BY <2>3, <2>5 DEF TookAllowed, PrecOf
<1>. QED BY <1>4, <1>5, <1>7, <1>8 DEF Top
LEMMA PopKeeps ==
  ASSUME Places, Groups, OperatorsAllowed, Len(stack) > 1, stack' = Rest, input' = input,
         pos' \in Node, val' \in NodeOrNull,
         limit' = IF Top.kind = "group" THEN Top.limit ELSE limit,
         Top.kind = "impl" => mode' = "value", Top.kind = "group" => Top.begin # 0
  PROVE  Places' /\ Groups' /\ OperatorsAllowed' /\ Top' = stack[Len(stack) - 1]
<1>0. PICK n : n = Len(stack)
  OBVIOUS
<1>1. Node' = Node /\ NodeOrNull' = NodeOrNull
  BY DEF Node, NodeOrNull
<1>2. Frame' = Frame
  BY <1>1 DEF Frame
<1>3. /\ n \in Nat \ {0} /\ n > 1 /\ DOMAIN stack = 1..n
      /\ \A i \in 1..n : stack[i] \in Frame
      /\ Top = stack[n]
  BY <1>0, StackFacts
<1>4. /\ stack' \in Seq(Frame) /\ Len(stack') = n - 1
      /\ DOMAIN stack' = 1..(n - 1)
      /\ \A i \in 1..(n - 1) : stack'[i] = stack[i]
  BY <1>0, <1>3, PopFacts DEF Places, Groups, Rest
<1>5. stack' # <<>> /\ stack'[1] = stack[1]
  BY <1>3, <1>4
<1>6. \A i \in 1..(n - 1) : IsGroup(i)' = IsGroup(i)
  BY <1>4 DEF IsGroup
<1>7. Top.kind = "group" => IsGroup(n)
  BY <1>3 DEF IsGroup
<1>8. limit' \in Node
  BY <1>3, <1>7 DEF Groups, Places
<1>9. Places'
  BY <1>1, <1>2, <1>4, <1>8 DEF Places
<1>10. Groups'
  <2>1. ASSUME NEW i \in DOMAIN stack', IsGroup(i)'
        PROVE  stack'[i].limit \in Node' /\ limit' < Len(input)'
    <3>1. i \in 1..(n - 1) /\ IsGroup(i) /\ stack'[i] = stack[i] /\ i < n
      BY <2>1, <1>3, <1>4, <1>6
    <3>2. stack[i].limit \in Node /\ limit < Len(input)
      BY <3>1, <1>3 DEF Groups
    <3>3. Top.kind = "group" => Top.limit < Len(input)
      BY <3>1, <1>3, <1>7 DEF Groups
    <3>. QED BY <3>1, <3>2, <3>3, <1>1
  <2>2. ASSUME NEW i \in DOMAIN stack', NEW j \in DOMAIN stack',
               i < j, IsGroup(i)', IsGroup(j)'
        PROVE  stack'[j].limit < Len(input)'
    BY <2>2, <1>3, <1>4, <1>6 DEF Groups
  <2>. QED BY <2>1, <2>2, <1>5 DEF Groups
<1>11. OperatorsAllowed'
  <2>1. SUFFICES ASSUME NEW i \in DOMAIN stack', Waits(i)'
                 PROVE  TookAllowed(i)'
    BY DEF OperatorsAllowed
  <2>2. i \in 1..(n - 1) /\ stack'[i] = stack[i] /\ i # n
    BY <1>3, <1>4
  <2>3. Waits(i)
    <3>1. CASE i = n - 1
      <4>1. stack'[i].kind = "impl" /\ mode' # "value"
        BY <2>1, <3>1, <1>4 DEF Waits
      <4>. QED BY <4>1, <3>1, <2>2, <1>0, <1>3 DEF Waits
    <3>2. CASE i # n - 1
      <4>1. i + 1 \in 1..(n - 1) /\ stack'[i + 1] = stack[i + 1] /\ i # n
        BY <3>2, <2>2, <1>3, <1>4
      <4>2. stack'[i].kind = "impl" /\ stack'[i + 1].kind # "impl"
        BY <2>1, <3>2, <1>4 DEF Waits
      <4>. QED BY <4>1, <4>2, <2>2, <1>0 DEF Waits
    <3>. QED BY <3>1, <3>2
  <2>4. TookAllowed(i)
    BY <2>2, <2>3, <1>0, <1>3 DEF OperatorsAllowed
  <2>. QED BY <2>2, <2>4 DEF TookAllowed, PrecOf
<1>12. Top' = stack[Len(stack) - 1]
  BY <1>0, <1>3, <1>4 DEF Top
<1>. QED BY <1>9, <1>10, <1>11, <1>12

LEMMA ReplaceKeeps ==
  ASSUME Places, Groups, OperatorsAllowed, NEW f \in Frame, Replace(f),
         f.kind = Top.kind, f.kind # "group", UNCHANGED <<input, limit>>,
         pos' \in Node, val' \in NodeOrNull,
         f.kind = "impl" /\ mode' \in {"primary", "postfix", "operand"} =>
           /\ f.op # 0
           /\ \/ input[f.op].op # 0 /\ PrecOf(f.op) >= f.min
              \/ mode' = "operand" /\ ~IsBinaryOp'
  PROVE  Places' /\ Groups' /\ OperatorsAllowed' /\ Top' = f
<1>0. PICK n : n = Len(stack)
  OBVIOUS
<1>1. Node' = Node /\ NodeOrNull' = NodeOrNull
  BY DEF Node, NodeOrNull
<1>2. Frame' = Frame
  BY <1>1 DEF Frame
<1>3. /\ n \in Nat \ {0} /\ n > 1 /\ DOMAIN stack = 1..n
      /\ \A i \in 1..n : stack[i] \in Frame
      /\ Top = stack[n]
  BY <1>0, StackFacts
<1>4. /\ stack' \in Seq(Frame) /\ Len(stack') = n /\ stack' # <<>>
      /\ DOMAIN stack' = 1..n
      /\ \A i \in 1..n : i # n => stack'[i] = stack[i]
      /\ stack'[n] = f
  <2>1. stack \in Seq(Frame) /\ stack # <<>>
    BY DEF Places, Groups
  <2>2. stack' = Append(SubSeq(stack, 1, Len(stack) - 1), f)
    BY DEF Replace, Rest
  <2>. QED BY <1>0, <1>3, <2>1, <2>2, ReplaceFacts
<1>5. stack'[1] = stack[1]
  BY <1>3, <1>4
<1>6. \A i \in 1..n : IsGroup(i)' => i # n /\ IsGroup(i) /\ stack'[i] = stack[i]
  BY <1>4 DEF IsGroup
<1>7. Places'
  BY <1>1, <1>2, <1>4 DEF Places
<1>8. Groups'
  BY <1>1, <1>3, <1>4, <1>5, <1>6 DEF Groups
<1>9. OperatorsAllowed'
  <2>1. SUFFICES ASSUME NEW i \in DOMAIN stack', Waits(i)'
                 PROVE  \/ TookAllowed(i)'
                        \/ i = Len(stack)' /\ mode' = "operand" /\ ~IsBinaryOp' /\ stack'[i].op # 0
    BY DEF OperatorsAllowed
  <2>2. CASE i = n
    <3>1. f.kind = "impl" /\ mode' \in {"primary", "postfix", "operand"}
      BY <2>1, <2>2, <1>4 DEF Waits
    <3>. QED BY <3>1, <2>2, <1>4 DEF TookAllowed, PrecOf
  <2>3. CASE i # n
    <3>1. i \in 1..n /\ i + 1 \in 1..n /\ stack'[i] = stack[i]
      BY <2>3, <1>3, <1>4
    <3>2. stack'[i + 1].kind = stack[i + 1].kind
      BY <3>1, <1>3, <1>4
    <3>3. Waits(i)
      BY <2>1, <2>3, <3>1, <3>2, <1>0, <1>4 DEF Waits
    <3>4. TookAllowed(i)
      BY <2>3, <3>1, <3>3, <1>0, <1>3 DEF OperatorsAllowed
    <3>. QED BY <3>1, <3>4 DEF TookAllowed, PrecOf
  <2>. QED BY <2>2, <2>3
<1>10. Top' = f
  BY <1>4 DEF Top
<1>. QED BY <1>7, <1>8, <1>9, <1>10
(***************************************************************************)
(* The steps                                                               *)
(***************************************************************************)
LEMMA LiveFacts ==
  ASSUME ParserInv, Running
  PROVE  /\ Places /\ Groups /\ OperatorsAllowed /\ Modes
         /\ 0 \notin Node /\ Node \subseteq NodeOrNull /\ 0 \in NodeOrNull
         /\ Top \in Frame
<1>1. Places /\ Groups /\ OperatorsAllowed /\ Modes
  BY DEF ParserInv
<1>2. 0 \notin Node /\ Node \subseteq NodeOrNull /\ 0 \in NodeOrNull
  BY <1>1, InputFacts DEF Places, NodeOrNull
<1>. QED BY <1>1, <1>2, StackFacts

\* An invocation whose right operand has been parsed has taken its operator.
LEMMA TopTookOperator ==
  ASSUME Places, Groups, OperatorsAllowed, mode = "operand", Top.kind = "impl"
  PROVE  /\ Top.op # 0
         /\ IsBinaryOp => input[Top.op].op # 0 /\ PrecOf(Top.op) >= Top.min
<1>1. PICK n : n = Len(stack)
  OBVIOUS
<1>2. n \in DOMAIN stack /\ Top = stack[n]
  BY <1>1, StackFacts
<1>3. Waits(n)
  BY <1>1, <1>2 DEF Waits
<1>. QED BY <1>1, <1>2, <1>3 DEF OperatorsAllowed, TookAllowed

LEMMA PrimaryStep ==
  ASSUME ParserInv, EmptyPrimary \/ Terminal \/ PrefixOp \/ Illegal
  PROVE  ParserInv'
<1>1. mode = "primary" /\ Running
  BY DEF EmptyPrimary, Terminal, PrefixOp, Illegal, Running
<1>2. /\ Places /\ Groups /\ OperatorsAllowed /\ Modes
      /\ 0 \notin Node /\ Node \subseteq NodeOrNull /\ 0 \in NodeOrNull
      /\ Top \in Frame /\ pos \in Node /\ SkipFrom(pos) \in Node
  BY <1>1, LiveFacts, SkipIsNode DEF Places
<1>3. CASE EmptyPrimary
  <2>1. UNCHANGED <<input, pos, limit, stack>> /\ mode' = "operand" /\ val' = 0
    BY <1>3 DEF EmptyPrimary
  <2>2. Places' /\ Groups' /\ OperatorsAllowed' /\ Running'
    BY <1>1, <1>2, <2>1, MoveKeeps
  <2>3. AcceptEndOfExpression' /\ ~IsBinaryOp'
    BY <1>3, <2>1, SameCurrent, NoOperatorAtEnd DEF EmptyPrimary
  <2>4. Modes'
    BY <2>1, <2>3 DEF Modes
  <2>. QED BY <2>2, <2>4, RunningInv
<1>4. CASE Terminal
  <2>1. UNCHANGED <<input, limit, stack>> /\ mode' = "postfix" /\ val' = pos
        /\ pos' = SkipFrom(pos)
    BY <1>4 DEF Terminal
  <2>2. Places' /\ Groups' /\ OperatorsAllowed' /\ Running'
    BY <1>1, <1>2, <2>1, MoveKeeps
  <2>3. Modes'
    BY <1>2, <2>1 DEF Modes
  <2>. QED BY <2>2, <2>3, RunningInv
<1>5. CASE PrefixOp
  <2>1. UNCHANGED <<input, limit, val, mode>> /\ pos' = SkipFrom(pos)
    BY <1>5 DEF PrefixOp
  <2>2. val' \in NodeOrNull
    BY <1>2, <2>1 DEF Places
  <2>3. Places' /\ Groups' /\ OperatorsAllowed'
    <3>1. CASE Top.kind = "prefix"
      <4>. DEFINE f == PrefixFrame(Top.first, pos)
      <4>1. f \in Frame /\ f.kind = "prefix"
        BY <1>2, <3>1, FrameFacts DEF PrefixFrame, Frame
      <4>2. Replace(f)
        BY <1>5, <3>1 DEF PrefixOp
      <4>. HIDE DEF f
      <4>. QED BY <1>2, <2>1, <2>2, <3>1, <4>1, <4>2, ReplaceKeeps
    <3>2. CASE Top.kind # "prefix"
      <4>. DEFINE f == PrefixFrame(pos, pos)
      <4>1. f \in Frame /\ f.kind = "prefix"
        BY <1>2 DEF PrefixFrame, Frame
      <4>2. Push(f)
        BY <1>5, <3>2 DEF PrefixOp
      <4>. HIDE DEF f
      <4>3. limit' \in Node
        BY <1>2, <2>1 DEF Places
      <4>. QED BY <1>1, <1>2, <2>1, <2>2, <4>1, <4>2, <4>3, PushKeeps
    <3>. QED BY <3>1, <3>2
  <2>4. Modes' /\ Running'
    BY <1>1, <2>1 DEF Modes, Running
  <2>. QED BY <2>3, <2>4, RunningInv
<1>6. CASE Illegal
  <2>1. PICK how \in {"internal", "error"} : Ended(how)
    BY <1>6 DEF Illegal
  <2>. QED BY <2>1, EndedInv DEF Failures
<1>. QED BY <1>3, <1>4, <1>5, <1>6

LEMMA PrefixOperandStep ==
  ASSUME ParserInv, PrefixOperand
  PROVE  ParserInv'
<1>1. mode = "operand" /\ Running /\ Top.kind = "prefix"
  BY DEF PrefixOperand, Running
<1>2. /\ Places /\ Groups /\ OperatorsAllowed /\ Modes
      /\ 0 \notin Node /\ Node \subseteq NodeOrNull
      /\ Top \in Frame /\ Top.first \in Node
  BY <1>1, LiveFacts, FrameFacts
<1>3. CASE val = 0
  <2>1. Ended("crash") /\ AcceptEndOfExpression
    BY <1>1, <1>2, <1>3 DEF PrefixOperand, Modes
  <2>. QED BY <1>1, <1>3, <2>1, EndedInv DEF Failures
<1>4. CASE val # 0
  <2>1. /\ UNCHANGED <<input, pos, limit, mode>> /\ val' = Top.first /\ stack' = Rest
    BY <1>4 DEF PrefixOperand
  <2>2. Len(stack) > 1
    BY <1>1, <1>2, StackFacts
  <2>3. Places' /\ Groups' /\ OperatorsAllowed'
    BY <1>1, <1>2, <2>1, <2>2, PopKeeps DEF Places
  <2>4. Modes' /\ Running'
    BY <1>1, <1>2, <2>1 DEF Modes, Running
  <2>. QED BY <2>3, <2>4, RunningInv
<1>. QED BY <1>3, <1>4
\* The closing bracket the scan finds is inside the parser's input.
LEMMA GroupEndFacts ==
  ASSUME Places, NEW close \in GroupEnds(pos)
  PROVE  /\ close \in Node /\ close < limit /\ close + 1 \in Node
         /\ pos + 1 \in Node
<1>1. Node = 1..Len(input) /\ Len(input) \in Nat /\ limit \in 1..Len(input) /\ pos \in 1..Len(input)
  BY InputFacts DEF Places
<1>2. close \in pos..(limit - 1)
  BY DEF GroupEnds
<1>. QED BY <1>1, <1>2

LEMMA EnterGroupStep ==
  ASSUME ParserInv, mode \in {"primary", "postfix"},
         NEW callee \in NodeOrNull, NEW close \in GroupEnds(pos), EnterGroup(callee, close)
  PROVE  ParserInv'
<1>1. Running
  BY DEF Running
<1>2. /\ Places /\ Groups /\ OperatorsAllowed /\ Modes
      /\ 0 \notin Node /\ Node \subseteq NodeOrNull /\ 0 \in NodeOrNull
      /\ Top \in Frame /\ pos \in Node /\ limit \in Node
  BY <1>1, LiveFacts DEF Places
<1>3. close \in Node /\ close < limit /\ pos + 1 \in Node
  BY <1>2, GroupEndFacts
<1>. DEFINE f == GroupFrame(pos, callee)
<1>4. f \in Frame /\ f.kind = "group" /\ f.begin = pos /\ f.limit = limit
  BY <1>2 DEF GroupFrame, Frame
<1>5. Push(f) /\ pos' = pos + 1 /\ limit' = close /\ val' = 0 /\ mode' = "primary" /\ input' = input
  BY DEF EnterGroup
<1>. HIDE DEF f
<1>6. Places' /\ Groups' /\ OperatorsAllowed'
  BY <1>2, <1>3, <1>4, <1>5, PushKeeps
<1>7. Modes' /\ Running'
  BY <1>5 DEF Modes, Running
<1>. QED BY <1>6, <1>7, RunningInv

LEMMA GroupStep ==
  ASSUME ParserInv, OpenParen \/ OpenCall \/ PostfixOp \/ PostfixDone
  PROVE  ParserInv'
<1>1. mode \in {"primary", "postfix"} /\ Running
  BY DEF OpenParen, OpenCall, PostfixOp, PostfixDone, Running
<1>2. /\ Places /\ Groups /\ OperatorsAllowed /\ Modes
      /\ 0 \notin Node /\ Node \subseteq NodeOrNull /\ 0 \in NodeOrNull
      /\ pos \in Node /\ SkipFrom(pos) \in Node /\ val \in NodeOrNull
  BY <1>1, LiveFacts, SkipIsNode DEF Places
<1>3. CASE OpenParen
  <2>1. PICK close \in GroupEnds(pos) :
          IF close = pos + 1 THEN Ended("internal") ELSE EnterGroup(0, close)
    BY <1>3 DEF OpenParen
  <2>2. CASE close = pos + 1
    BY <2>1, <2>2, EndedInv DEF Failures
  <2>3. CASE close # pos + 1
    BY <1>1, <1>2, <2>1, <2>3, EnterGroupStep
  <2>. QED BY <2>2, <2>3
<1>4. CASE OpenCall
  <2>1. PICK close \in GroupEnds(pos) :
          IF close = pos + 1
          THEN /\ MakeCall(pos, close, 0, val)
               /\ pos' = close + 1
               /\ UNCHANGED <<input, limit, stack>>
          ELSE EnterGroup(val, close)
    BY <1>4 DEF OpenCall
  <2>2. CASE close = pos + 1
    <3>1. val' = pos /\ mode' = "postfix" /\ pos' \in Node /\ UNCHANGED <<input, limit, stack>>
      BY <1>2, <2>1, <2>2, GroupEndFacts DEF MakeCall
    <3>2. Places' /\ Groups' /\ OperatorsAllowed' /\ Running'
      BY <1>1, <1>2, <3>1, MoveKeeps
    <3>3. Modes'
      BY <1>2, <3>1 DEF Modes
    <3>. QED BY <3>2, <3>3, RunningInv
  <2>3. CASE close # pos + 1
    BY <1>1, <1>2, <2>1, <2>3, EnterGroupStep
  <2>. QED BY <2>2, <2>3
<1>5. CASE PostfixOp
  <2>1. val' = pos /\ pos' = SkipFrom(pos) /\ UNCHANGED <<input, limit, stack, mode>>
        /\ mode = "postfix"
    BY <1>5 DEF PostfixOp
  <2>2. Places' /\ Groups' /\ OperatorsAllowed' /\ Running'
    BY <1>2, <2>1, MoveKeeps
  <2>3. Modes'
    BY <1>2, <2>1 DEF Modes
  <2>. QED BY <2>2, <2>3, RunningInv
<1>6. CASE PostfixDone
  <2>1. UNCHANGED <<input, pos, limit, stack, val>> /\ mode' = "operand" /\ mode = "postfix"
    BY <1>6 DEF PostfixDone
  <2>2. Places' /\ Groups' /\ OperatorsAllowed' /\ Running'
    BY <1>2, <2>1, MoveKeeps
  <2>3. Modes'
    BY <1>2, <2>1 DEF Modes
  <2>. QED BY <2>2, <2>3, RunningInv
<1>. QED BY <1>3, <1>4, <1>5, <1>6

LEMMA LeaveGroupStep ==
  ASSUME ParserInv, LeaveGroup
  PROVE  ParserInv'
<1>1. mode = "value" /\ Running /\ Top.kind = "group"
  BY DEF LeaveGroup, Running
<1>2. /\ Places /\ Groups /\ OperatorsAllowed /\ Modes
      /\ 0 \notin Node /\ Node \subseteq NodeOrNull /\ 0 \in NodeOrNull
      /\ Top \in Frame /\ Top.begin \in NodeOrNull /\ val \in NodeOrNull
  BY <1>1, LiveFacts, FrameFacts DEF Places
<1>3. CASE Top.begin = 0
  <2>1. mode' = "done"
    BY <1>3 DEF LeaveGroup
  <2>. QED BY <2>1 DEF ParserInv, NullNeverLinked, Running
<1>4. CASE Ended("uncaught")
  BY <1>4, EndedInv DEF Failures
<1>5. CASE Top.begin # 0 /\ ~Ended("uncaught")
  <2>1. /\ stack' = Rest /\ pos' = limit + 1 /\ limit' = Top.limit /\ input' = input
        /\ IF input[Top.begin].type = "CALL_BEGIN"
           THEN MakeCall(Top.begin, limit, val, Top.callee)
           ELSE mode' = "postfix" /\ UNCHANGED <<kids, val>>
    BY <1>5 DEF LeaveGroup, AfterGroup
  <2>2. /\ val' = IF input[Top.begin].type = "CALL_BEGIN" THEN Top.begin ELSE val
        /\ mode' = "postfix"
    BY <2>1 DEF MakeCall
  <2>3. val' # 0 /\ val' \in NodeOrNull
    BY <1>1, <1>2, <1>5, <2>2 DEF Modes
  <2>4. Len(stack) > 1
    BY <1>2, <1>5, StackFacts
  <2>5. pos' \in Node
    <3>1. PICK n : n = Len(stack)
      OBVIOUS
    <3>2. n \in DOMAIN stack /\ Top = stack[n]
      BY <1>2, <3>1, StackFacts
    <3>3. limit < Len(input)
      BY <1>1, <1>2, <1>5, <3>2 DEF Groups, IsGroup
    <3>4. limit + 1 \in Node
      BY <1>2, <3>3, InputFacts DEF Places
    <3>. QED BY <2>1, <3>4
  <2>6. Places' /\ Groups' /\ OperatorsAllowed'
    BY <1>1, <1>2, <1>5, <2>1, <2>3, <2>4, <2>5, PopKeeps
  <2>7. Modes' /\ Running'
    BY <2>2, <2>3 DEF Modes, Running
  <2>. QED BY <2>6, <2>7, RunningInv
<1>. QED BY <1>3, <1>4, <1>5
LEMMA ExpressionStep ==
  ASSUME ParserInv, EmptyExpression \/ FirstOperand
  PROVE  ParserInv'
<1>1. mode = "operand" /\ Running /\ Top.kind = "group"
  BY DEF EmptyExpression, FirstOperand, Running
<1>2. /\ Places /\ Groups /\ OperatorsAllowed /\ Modes
      /\ 0 \notin Node /\ Node \subseteq NodeOrNull /\ 0 \in NodeOrNull
      /\ pos \in Node /\ limit \in Node /\ val \in NodeOrNull
  BY <1>1, LiveFacts DEF Places
<1>3. CASE EmptyExpression
  <2>1. PICK throwIfEmpty \in BOOLEAN :
          /\ Top.begin # 0 => throwIfEmpty = (input[Top.begin].type # "CALL_BEGIN")
          /\ IF throwIfEmpty THEN Ended("internal")
             ELSE mode' = "value" /\ UNCHANGED <<input, pos, limit, kids, stack, val>>
    BY <1>3 DEF EmptyExpression
  <2>2. CASE throwIfEmpty
    BY <2>1, <2>2, EndedInv DEF Failures
  <2>3. CASE ~throwIfEmpty
    <3>1. mode' = "value" /\ UNCHANGED <<input, pos, limit, stack, val>>
      BY <2>1, <2>3
    <3>2. Top.begin = 0 \/ input[Top.begin].type = "CALL_BEGIN"
      BY <2>1, <2>3
    <3>3. Places' /\ Groups' /\ OperatorsAllowed' /\ Running'
      BY <1>2, <3>1, MoveKeeps
    <3>4. ~IsBinaryOp' /\ Top' = Top
      BY <1>1, <1>2, <1>3, <3>1, SameCurrent DEF Modes, EmptyExpression, Top
    <3>5. Modes'
      BY <1>1, <3>1, <3>2, <3>4 DEF Modes
    <3>. QED BY <3>3, <3>5, RunningInv
  <2>. QED BY <2>2, <2>3
<1>4. CASE FirstOperand
  <2>. DEFINE f == ImplFrame(0, 0, 0, 0)
  <2>1. f \in Frame /\ f.kind = "impl" /\ f.base = 0 /\ f.min = 0
    BY <1>2 DEF ImplFrame, Frame
  <2>2. Push(f) /\ mode' = "loop" /\ val # 0 /\ UNCHANGED <<input, pos, limit, val>>
    BY <1>4 DEF FirstOperand
  <2>. HIDE DEF f
  <2>3. Places' /\ Groups' /\ OperatorsAllowed' /\ Top' = f
    BY <1>1, <1>2, <2>1, <2>2, PushKeeps
  <2>4. IsBinaryOp' => CurPrec' >= 0
    <3>1. IsBinaryOp' = IsBinaryOp /\ CurPrec' = CurPrec
      BY <2>2, SameCurrent
    <3>2. IsBinaryOp => CurPrec \in Nat
      BY <1>2, BinaryFacts
    <3>3. IsBinaryOp => CurPrec >= 0
      BY <3>2
    <3>. QED BY <3>1, <3>3
  <2>5. Modes' /\ Running'
    BY <2>1, <2>2, <2>3, <2>4 DEF Modes, Running
  <2>. QED BY <2>3, <2>5, RunningInv
<1>. QED BY <1>3, <1>4

LEMMA ShiftStep ==
  ASSUME ParserInv, Shift
  PROVE  ParserInv'
<1>1. mode = "loop" /\ Running /\ IsBinaryOp /\ CurPrec >= Top.min
  BY DEF Shift, Running
<1>2. /\ Places /\ Groups /\ OperatorsAllowed /\ Modes /\ Top \in Frame
      /\ 0 \notin Node /\ Node \subseteq NodeOrNull
      /\ pos \in Node /\ limit \in Node /\ val \in NodeOrNull /\ SkipFrom(pos) \in Node
  BY <1>1, LiveFacts, SkipIsNode DEF Places
<1>3. Top.kind = "impl" /\ val # 0
  BY <1>1, <1>2 DEF Modes
<1>. DEFINE f == [Top EXCEPT !.op = pos]
<1>4. Replace(f) /\ pos' = SkipFrom(pos) /\ mode' = "primary" /\ UNCHANGED <<input, limit, val>>
  BY <1>3 DEF Shift
<1>5. f \in Frame /\ f.kind = "impl" /\ f.op = pos /\ f.min = Top.min
  BY <1>2, <1>3, OpUpdate
<1>. HIDE DEF f
<1>6. pos # 0 /\ input[pos].op # 0 /\ PrecOf(pos) >= Top.min
  BY <1>1, <1>2, BinaryFacts
<1>7. Places' /\ Groups' /\ OperatorsAllowed'
  BY <1>2, <1>3, <1>4, <1>5, <1>6, ReplaceKeeps
<1>8. Modes' /\ Running'
  BY <1>4 DEF Modes, Running
<1>. QED BY <1>7, <1>8, RunningInv

LEMMA RegroupStep ==
  ASSUME ParserInv, Regroup
  PROVE  ParserInv'
<1>1. mode = "operand" /\ Running /\ Top.kind = "impl" /\ IsBinaryOp
  BY DEF Regroup, TakesTree, Running
<1>2. /\ Places /\ Groups /\ OperatorsAllowed /\ Modes /\ Top \in Frame
      /\ 0 \notin Node /\ Node \subseteq NodeOrNull /\ 0 \in NodeOrNull
      /\ pos \in Node /\ limit \in Node
  BY <1>1, LiveFacts DEF Places
<1>3. val # 0
  BY <1>1, <1>2 DEF Modes
<1>. DEFINE f == ImplFrame(0, 0, 0, CurPrec)
<1>4. Push(f) /\ val' = Top.op /\ mode' = "loop" /\ UNCHANGED <<input, pos, limit>>
  BY <1>3 DEF Regroup, MinPrecedence
<1>5. CurPrec \in Nat
  BY <1>1, <1>2, BinaryFacts
<1>6. f \in Frame /\ f.kind = "impl" /\ f.base = 0 /\ f.min = CurPrec
  BY <1>2, <1>5 DEF ImplFrame, Frame
<1>. HIDE DEF f
<1>7. Top.op # 0 /\ Top.op \in NodeOrNull
  BY <1>1, <1>2, TopTookOperator, FrameFacts
<1>8. Places' /\ Groups' /\ OperatorsAllowed' /\ Top' = f
  BY <1>2, <1>4, <1>6, <1>7, PushKeeps
<1>9. CurPrec' = CurPrec
  BY <1>4, SameCurrent
<1>10. Modes' /\ Running'
  BY <1>4, <1>5, <1>6, <1>7, <1>8, <1>9 DEF Modes, Running
<1>. QED BY <1>8, <1>10, RunningInv

LEMMA ResumeStep ==
  ASSUME ParserInv, Resume
  PROVE  ParserInv'
<1>1. mode = "value" /\ Running /\ Top.kind = "impl"
  BY DEF Resume, Running
<1>2. /\ Places /\ Groups /\ OperatorsAllowed /\ Modes /\ Top \in Frame
      /\ 0 \in NodeOrNull /\ pos \in Node /\ limit \in Node /\ val \in NodeOrNull
  BY <1>1, LiveFacts DEF Places
<1>3. val # 0 /\ ~IsBinaryOp
  BY <1>1, <1>2 DEF Modes
<1>. DEFINE f == [Top EXCEPT !.op = val]
<1>4. Replace(f) /\ val' = 0 /\ mode' = "operand" /\ UNCHANGED <<input, pos, limit>>
  BY DEF Resume, Result
<1>5. f \in Frame /\ f.kind = "impl" /\ f.op = val
  BY <1>1, <1>2, OpUpdate
<1>. HIDE DEF f
<1>6. ~IsBinaryOp'
  BY <1>3, <1>4, SameCurrent
<1>7. Places' /\ Groups' /\ OperatorsAllowed' /\ Top' = f
  BY <1>1, <1>2, <1>3, <1>4, <1>5, <1>6, ReplaceKeeps
<1>8. Modes' /\ Running'
  BY <1>4, <1>5, <1>6, <1>7 DEF Modes, Running
<1>. QED BY <1>7, <1>8, RunningInv

LEMMA AttachStep ==
  ASSUME ParserInv, Attach
  PROVE  ParserInv'
<1>1. mode = "operand" /\ Running /\ Top.kind = "impl" /\ ~TakesTree
  BY DEF Attach, Running
<1>2. /\ Places /\ Groups /\ OperatorsAllowed /\ Modes /\ Top \in Frame
      /\ pos \in Node /\ limit \in Node /\ val \in NodeOrNull
      /\ Top.op \in NodeOrNull /\ Top.min \in Nat
  BY <1>1, LiveFacts, FrameFacts DEF Places
<1>3. Top.op # 0 /\ (IsBinaryOp => input[Top.op].op # 0 /\ PrecOf(Top.op) >= Top.min)
  BY <1>1, <1>2, TopTookOperator
<1>. DEFINE f == IF Top.base = 0 THEN [Top EXCEPT !.base = Top.op, !.last = Top.op]
                 ELSE [Top EXCEPT !.last = Top.op]
<1>4. Replace(f) /\ mode' = "loop" /\ UNCHANGED <<input, pos, limit, val>>
  BY DEF Attach, LastExpr
<1>5. f \in Frame /\ f.kind = "impl" /\ f.base # 0 /\ f.min = Top.min
  <2>. DEFINE g == [Top EXCEPT !.base = Top.op, !.last = Top.op]
              h == [Top EXCEPT !.last = Top.op]
  <2>1. g \in Frame /\ g.kind = "impl" /\ g.base = Top.op /\ g.min = Top.min
    BY <1>1, <1>2, BaseUpdate
  <2>2. h \in Frame /\ h.kind = "impl" /\ h.base = Top.base /\ h.min = Top.min
    BY <1>1, <1>2, LastUpdate
  <2>3. f = IF Top.base = 0 THEN g ELSE h
    OBVIOUS
  <2>. HIDE DEF g, h, f
  <2>. QED BY <1>3, <2>1, <2>2, <2>3
<1>. HIDE DEF f
<1>6. Places' /\ Groups' /\ OperatorsAllowed' /\ Top' = f
  BY <1>1, <1>2, <1>4, <1>5, ReplaceKeeps
<1>7. IsBinaryOp => val # 0 /\ CurPrec >= Top.min
  <2>1. SUFFICES ASSUME IsBinaryOp PROVE val # 0 /\ CurPrec >= Top.min
    OBVIOUS
  <2>2. CurPrec \in Nat /\ ~(CurPrec <= PrecOf(Top.op))
    BY <1>1, <1>2, <2>1, BinaryFacts DEF TakesTree
  <2>3. PrecOf(Top.op) \in Nat
    <3>1. Top.op \in Node
      BY <1>2, <1>3 DEF NodeOrNull
    <3>. QED BY <1>2, <1>3, <2>1, <3>1, PrecIsNat DEF Places
  <2>4. val # 0
    BY <1>1, <1>2, <2>1 DEF Modes
  <2>. QED BY <1>2, <1>3, <2>1, <2>2, <2>3, <2>4
<1>8. IsBinaryOp' = IsBinaryOp /\ CurPrec' = CurPrec
  BY <1>4, SameCurrent
<1>9. Modes' /\ Running'
  BY <1>4, <1>5, <1>6, <1>7, <1>8 DEF Modes, Running
<1>. QED BY <1>6, <1>9, RunningInv

LEMMA ReturnStep ==
  ASSUME ParserInv, Return
  PROVE  ParserInv'
<1>1. mode = "loop" /\ Running /\ ~(IsBinaryOp /\ CurPrec >= Top.min)
  BY DEF Return, Running
<1>2. /\ Places /\ Groups /\ OperatorsAllowed /\ Modes /\ Top \in Frame
      /\ pos \in Node /\ val \in NodeOrNull
  BY <1>1, LiveFacts DEF Places
<1>3. Top.kind = "impl" /\ (Top.base = 0 => val # 0) /\ ~IsBinaryOp
  BY <1>1, <1>2 DEF Modes
<1>4. /\ val' = (IF Top.base = 0 THEN val ELSE Top.base)
      /\ stack' = Rest /\ mode' = "value" /\ UNCHANGED <<input, pos, limit>>
  BY DEF Return
<1>5. val' # 0 /\ val' \in NodeOrNull
  BY <1>2, <1>3, <1>4, FrameFacts
<1>6. Len(stack) > 1
  BY <1>2, <1>3, StackFacts
<1>7. Places' /\ Groups' /\ OperatorsAllowed'
  BY <1>2, <1>3, <1>4, <1>5, <1>6, PopKeeps
<1>8. ~IsBinaryOp'
  BY <1>3, <1>4, SameCurrent
<1>9. Modes' /\ Running'
  BY <1>4, <1>5, <1>8 DEF Modes, Running
<1>. QED BY <1>7, <1>9, RunningInv

LEMMA ParserInit ==
  ASSUME Init
  PROVE  ParserInv
<1>1. input \in Inputs /\ pos = 1 /\ limit = Len(input) /\ val = 0 /\ mode = "primary"
  BY DEF Init
<1>2. Node = 1..Len(input) /\ Len(input) \in Nat \ {0}
  BY <1>1, InputFacts
<1>. DEFINE f == [kind |-> "group", begin |-> 0, callee |-> 0, limit |-> 0]
<1>3. f \in Frame /\ f.kind = "group" /\ f.begin = 0
  BY DEF Frame, NodeOrNull
<1>4. stack = <<f>>
  BY DEF Init
<1>. HIDE DEF f
<1>5. stack \in Seq(Frame) /\ stack # <<>> /\ DOMAIN stack = {1} /\ stack[1] = f
  BY <1>3, <1>4
<1>6. Places
  BY <1>1, <1>2, <1>5 DEF Places, NodeOrNull
<1>7. Groups
  BY <1>3, <1>5 DEF Groups, IsGroup
<1>8. OperatorsAllowed
  BY <1>3, <1>5 DEF OperatorsAllowed, Waits
<1>9. Modes
  BY <1>1 DEF Modes
<1>. QED BY <1>1, <1>6, <1>7, <1>8, <1>9 DEF ParserInv, NullNeverLinked

LEMMA ParserStep ==
  ASSUME ParserInv, [Next]_vars
  PROVE  ParserInv'
<1>1. CASE ParsePrimary
  BY <1>1, PrimaryStep, PrefixOperandStep DEF ParsePrimary
<1>2. CASE ParseGroup
  BY <1>2, GroupStep, LeaveGroupStep DEF ParseGroup
<1>3. CASE ParseBinary
  BY <1>3, ExpressionStep, ShiftStep, RegroupStep, ResumeStep, AttachStep, ReturnStep
  DEF ParseBinary
<1>4. CASE UNCHANGED vars
  BY <1>4 DEF vars, ParserInv, NullNeverLinked, Running, Places, Groups, IsGroup,
     OperatorsAllowed, Waits, TookAllowed, Modes, Top, IsBinaryOp, AcceptEndOfExpression,
     CurPrec, PrecOf, TypeAt, OpAt, Node, NodeOrNull, Frame
<1>. QED BY <1>1, <1>2, <1>3, <1>4 DEF Next

LEMMA ParserInvHolds == Spec => []ParserInv
BY ParserInit, ParserStep, PTL DEF Spec

\* Whatever the tokens, addChild is given a null operand in one place only, a
\* prefix operator with nothing behind it: the operand that expressionImpl
\* forgets after its recursive call is never linked, because that call leaves
\* no operator behind.
THEOREM NullOperandsNotLinked == Spec => []NullNeverLinked
<1>1. ParserInv => NullNeverLinked
  BY DEF ParserInv
<1>. QED BY <1>1, ParserInvHolds, PTL

(***************************************************************************)
(* Trees: who holds a node                                                 *)
(***************************************************************************)
IsChild(m) == \E n \in Node : \E i \in DOMAIN kids[n] : kids[n][i] = m
\* No node is linked twice.
Unshared ==
  \A a, b \in Node : \A i \in DOMAIN kids[a], j \in DOMAIN kids[b] :
    kids[a][i] = kids[b][j] => a = b /\ i = j

\* The nodes that somebody holds and will link: slot 0 is what is handed from
\* one invocation to another, slot i what the i-th invocation keeps in its
\* locals.  tokExpr is an invocation's own only while it waits for an operand.
InHand == IF mode = "primary" THEN 0 ELSE val
KeptBy(i) ==
  CASE stack[i].kind = "group" -> {stack[i].begin, stack[i].callee}
    [] stack[i].kind = "prefix" -> {stack[i].first}
    [] stack[i].kind = "impl" -> {stack[i].base, IF Waits(i) THEN stack[i].op ELSE 0}
Holds(i) == (IF i = 0 THEN {InHand} ELSE KeptBy(i)) \ {0}
Slots == 0..Len(stack)
IsOwned(n) == \E i \in Slots : n \in Holds(i)

\* No node is held twice, by two or by one.
HeldTwice(i) ==
  \/ stack[i].kind = "group" /\ stack[i].begin # 0 /\ stack[i].begin = stack[i].callee
  \/ stack[i].kind = "impl" /\ Waits(i) /\ stack[i].base = stack[i].op
Apart ==
  /\ \A i \in DOMAIN stack : ~HeldTwice(i)
  /\ \A i, j \in Slots : i # j => Holds(i) \cap Holds(j) = {}

\* What is held is the root of a tree, and all trees are of tokens that have
\* been passed.
Rooted ==
  /\ \A n : IsOwned(n) => n \in 1..(pos - 1) /\ ~IsChild(n)
  /\ \A n : IsChild(n) => n \in 1..(pos - 1)
Untouched ==
  /\ \A n \in Node : n >= pos => kids[n] = <<>>
  /\ \A i \in DOMAIN stack : stack[i].kind # "group" => stack[i].last < pos

\* A comma that is in a tree has an operand, and that is before it.
InTree(n) == IsOwned(n) \/ IsChild(n)
LiveCommas ==
  \A n \in Node : InTree(n) /\ IsComma(n) => kids[n] # <<>> /\ kids[n][1] < n

\* A group ends inside the one around it, at a bracket, and a call's has
\* something that is called.
CalleeKept(i) == input[stack[i].begin].type = "CALL_BEGIN" => stack[i].callee # 0
Nested ==
  /\ pos <= limit /\ input[limit].type # "OPERATOR"
  /\ \A i \in DOMAIN stack :
       IsGroup(i) => /\ limit < stack[i].limit /\ input[stack[i].limit].type # "OPERATOR"
                     /\ CalleeKept(i)
  /\ \A i, j \in DOMAIN stack :
       i < j /\ IsGroup(i) /\ IsGroup(j) => stack[j].limit < stack[i].limit

KidsTyped == kids \in [Node -> Seq(Node)]
Trees == KidsTyped /\ Nested /\ Apart /\ Rooted /\ Untouched /\ LiveCommas

TreeInv ==
  /\ TypeOK /\ Unshared
  /\ Running => Trees

(***************************************************************************)
(* The commas between arguments                                            *)
(***************************************************************************)
Spined(s, root) ==
  /\ s \in Seq(Node)
  /\ \A i \in 1..Len(s) : InTree(s[i]) /\ IsComma(s[i])
  /\ IF Len(s) = 0 THEN ~IsComma(root) ELSE s[1] = root
  /\ \A i \in 1..Len(s) : i # Len(s) => s[i + 1] = kids[s[i]][1]
  /\ Len(s) # 0 => ~IsComma(kids[s[Len(s)]][1])

\* Commas descend.
LEMMA CommaFacts ==
  ASSUME KidsTyped, LiveCommas, NEW n \in Node, InTree(n), IsComma(n)
  PROVE  /\ kids[n][1] \in Node /\ kids[n][1] < n /\ InTree(kids[n][1])
         /\ 1 \in DOMAIN kids[n]
<1>1. kids[n] \in Seq(Node) /\ kids[n] # <<>> /\ kids[n][1] < n
  BY DEF KidsTyped, LiveCommas
<1>2. 1 \in DOMAIN kids[n] /\ kids[n][1] \in Node
  BY <1>1
<1>3. IsChild(kids[n][1])
  BY <1>2 DEF IsChild
<1>. QED BY <1>1, <1>2, <1>3 DEF InTree

LEMMA DescentFacts ==
  ASSUME input \in Inputs, KidsTyped, LiveCommas, NEW root \in Node, InTree(root),
         NEW at, at = Descent(root)
  PROVE  /\ at \in [0..Len(input) -> {n \in Node : InTree(n)}]
         /\ at[0] = root
         /\ \A k \in 1..Len(input) :
              at[k] = IF IsComma(at[k - 1]) THEN kids[at[k - 1]][1] ELSE at[k - 1]
<1>. DEFINE V == {n \in Node : InTree(n)}
            next == [n \in V |-> IF IsComma(n) THEN kids[n][1] ELSE n]
            Fixed(f) == f = [k \in 0..Len(input) |->
                               IF k = 0 THEN root
                               ELSE LET node == f[k - 1]
                                    IN  IF IsComma(node) THEN kids[node][1] ELSE node]
<1>1. Len(input) \in Nat
  BY InputFacts
<1>2. next \in [V -> V] /\ \A n \in V : next[n] = IF IsComma(n) THEN kids[n][1] ELSE n
  BY CommaFacts
<1>3. root \in V
  OBVIOUS
<1>4. PICK f \in [0..Len(input) -> V] :
        Iterates(Len(input), root, next, f)
  <2>. DEFINE N == Len(input)
  <2>1. next \in [V -> V] /\ N \in Nat /\ root \in V
    BY <1>1, <1>2
  <2>2. \E f \in [0..N -> V] : Iterates(N, root, next, f)
    <3>. HIDE DEF V, next, Fixed, N
    <3>. QED BY <2>1, IterationDefined
  <2>. QED BY <2>2
<1>. USE DEF Iterates
<1>5. Fixed(f)
  <2>1. ASSUME NEW k \in 0..Len(input)
        PROVE  f[k] = IF k = 0 THEN root
                      ELSE LET node == f[k - 1]
                           IN  IF IsComma(node) THEN kids[node][1] ELSE node
    <3>1. CASE k = 0
      BY <1>4, <3>1
    <3>2. CASE k # 0
      <4>1. k - 1 \in 0..Len(input)
        BY <1>1, <3>2
      <4>2. f[k - 1] \in V
        BY <4>1
      <4>3. f[k] = next[f[k - 1]]
        BY <1>1, <1>4, <3>2
      <4>. HIDE DEF V, next
      <4>. QED BY <1>2, <3>2, <4>2, <4>3
    <3>. QED BY <3>1, <3>2
  <2>2. f = [k \in 0..Len(input) |-> f[k]]
    BY <1>4
  <2>. HIDE DEF V, next
  <2>. QED BY <2>1, <2>2
<1>6. Fixed(at)
  <2>1. at = CHOOSE g : Fixed(g)
    BY DEF Descent
  <2>. HIDE DEF Fixed
  <2>. QED BY <1>5, <2>1
<1>7. /\ at[0] = root
      /\ \A k \in 1..Len(input) :
           at[k] = IF IsComma(at[k - 1]) THEN kids[at[k - 1]][1] ELSE at[k - 1]
  BY <1>1, <1>6
<1>8. DOMAIN at = 0..Len(input) /\ at = [k \in 0..Len(input) |-> at[k]]
  BY <1>6
<1>9. \A k \in 0..Len(input) : at[k] \in V
  <2>. DEFINE S == {k \in 0..Len(input) : at[k] \in V}
  <2>1. ASSUME NEW k \in 0..Len(input), 0..(k - 1) \subseteq S PROVE k \in S
    <3>1. CASE k = 0
      BY <3>1, <1>7
    <3>2. CASE k # 0
      <4>1. k - 1 \in 0..(k - 1) /\ k \in 1..Len(input)
        BY <3>2, <1>1
      <4>2. at[k - 1] \in V
        BY <4>1, <2>1
      <4>3. at[k] = next[at[k - 1]]
        BY <4>1, <4>2, <1>2, <1>7
      <4>. HIDE DEF V, next
      <4>. QED BY <1>2, <4>2, <4>3
    <3>. QED BY <3>1, <3>2
  <2>2. S \in SUBSET (0..Len(input))
    OBVIOUS
  <2>. HIDE DEF S
  <2>3. S = 0..Len(input)
    BY <1>1, <2>1, <2>2, SetInduction
  <2>. QED BY <2>3 DEF S
<1>. HIDE DEF V
<1>10. at \in [0..Len(input) -> V]
  BY <1>8, <1>9
<1>. QED BY <1>7, <1>10 DEF V

\* The descent leaves the commas: they come earlier and earlier.
LEMMA DescentEnds ==
  ASSUME input \in Inputs, KidsTyped, LiveCommas, NEW root \in Node, InTree(root),
         NEW at, at = Descent(root)
  PROVE  \E k \in 0..Len(input) : ~IsComma(at[k]) /\ \A j \in 0..(k - 1) : IsComma(at[j])
<1>1. Node = 1..Len(input) /\ Len(input) \in Nat
  BY InputFacts
<1>2. /\ \A k \in 0..Len(input) : at[k] \in Node /\ InTree(at[k])
      /\ at[0] = root
      /\ \A k \in 1..Len(input) :
           at[k] = IF IsComma(at[k - 1]) THEN kids[at[k - 1]][1] ELSE at[k - 1]
  BY DescentFacts
<1>. DEFINE T == {k \in 0..Len(input) : ~IsComma(at[k])}
<1>3. T # {}
  <2>. SUFFICES ASSUME \A k \in 0..Len(input) : IsComma(at[k]) PROVE FALSE
    OBVIOUS
  <2>. DEFINE S == {k \in 0..Len(input) : at[k] + k <= root}
  <2>1. ASSUME NEW k \in 0..Len(input), 0..(k - 1) \subseteq S PROVE k \in S
    <3>1. CASE k = 0
      BY <3>1, <1>1, <1>2
    <3>2. CASE k # 0
      <4>1. k - 1 \in 0..(k - 1) /\ k - 1 \in 0..Len(input) /\ k \in 1..Len(input)
        BY <3>2, <1>1
      <4>2. at[k - 1] + (k - 1) <= root
        BY <4>1, <2>1
      <4>3. at[k] = kids[at[k - 1]][1] /\ at[k - 1] \in Node /\ InTree(at[k - 1])
            /\ IsComma(at[k - 1])
        BY <4>1, <1>2
      <4>4. at[k] < at[k - 1]
        BY <4>3, CommaFacts
      <4>5. at[k] \in Nat /\ at[k - 1] \in Nat /\ root \in Nat /\ k \in Nat
        BY <4>1, <1>1, <1>2
      <4>6. at[k] + k <= root
        BY <4>2, <4>4, <4>5
      <4>. QED BY <4>6
    <3>. QED BY <3>1, <3>2
  <2>2. S \in SUBSET (0..Len(input))
    OBVIOUS
  <2>3. Len(input) \in S
    <3>. HIDE DEF S
    <3>1. S = 0..Len(input)
      BY <1>1, <2>1, <2>2, SetInduction
    <3>. QED BY <3>1, <1>1
  <2>4. at[Len(input)] + Len(input) <= root /\ at[Len(input)] \in Node
    BY <2>3, <1>1, <1>2
  <2>. QED BY <2>4, <1>1
<1>4. PICK k \in T : \A j \in T : k <= j
  <2>1. T \in SUBSET Nat
    BY <1>1
  <2>. HIDE DEF T
  <2>. QED BY <1>3, <2>1, LeastNumber
<1>5. ASSUME NEW j \in 0..(k - 1) PROVE IsComma(at[j])
  <2>1. j \in 0..Len(input) /\ ~(k <= j)
    BY <1>1
  <2>. QED BY <2>1, <1>4
<1>. QED BY <1>4, <1>5

LEMMA SpineFacts ==
  ASSUME input \in Inputs, KidsTyped, LiveCommas, NEW root \in Node, InTree(root)
  PROVE  Spined(CommaSpine(root), root)
<1>. DEFINE at == Descent(root)
            Ends(k) == ~IsComma(at[k]) /\ \A j \in 0..(k - 1) : IsComma(at[j])
            size == CHOOSE k \in 0..Len(input) : Ends(k)
            s == CommaSpine(root)
<1>1. Len(input) \in Nat /\ Node = 1..Len(input) /\ root # 0
  BY InputFacts
<1>2. /\ \A k \in 0..Len(input) : at[k] \in Node /\ InTree(at[k])
      /\ at[0] = root
      /\ \A k \in 1..Len(input) :
           at[k] = IF IsComma(at[k - 1]) THEN kids[at[k - 1]][1] ELSE at[k - 1]
  BY DescentFacts
<1>3. size \in 0..Len(input) /\ Ends(size)
  <2>1. \E k \in 0..Len(input) : Ends(k)
    BY DescentEnds
  <2>. HIDE DEF Ends
  <2>. QED BY <2>1
<1>4. s = [i \in 1..size |-> at[i - 1]]
  BY <1>1 DEF CommaSpine
<1>. HIDE DEF s, at, size
<1>5. size \in Nat /\ size <= Len(input)
  BY <1>1, <1>3
<1>6. \A i \in 1..size :
        /\ i - 1 \in 0..Len(input) /\ i - 1 \in 0..(size - 1) /\ i \in 0..Len(input)
        /\ i \in 1..Len(input)
  BY <1>1, <1>5
<1>7. \A i \in 1..size : at[i - 1] \in Node /\ InTree(at[i - 1]) /\ IsComma(at[i - 1])
  BY <1>2, <1>3, <1>6
<1>8. s \in Seq(Node) /\ Len(s) = size /\ \A i \in 1..size : s[i] = at[i - 1]
  <2>1. s \in [1..size -> Node]
    BY <1>4, <1>7
  <2>. QED BY <2>1, <1>4, <1>5
<1>9. \A i \in 1..size : at[i] = kids[s[i]][1]
  BY <1>2, <1>6, <1>7, <1>8
<1>10. \A i \in 1..Len(s) : InTree(s[i]) /\ IsComma(s[i])
  BY <1>7, <1>8
<1>11. IF Len(s) = 0 THEN ~IsComma(root) ELSE s[1] = root
  <2>1. CASE size = 0
    BY <2>1, <1>2, <1>3, <1>8
  <2>2. CASE size # 0
    <3>1. 1 \in 1..size /\ 1 - 1 = 0
      BY <2>2, <1>5
    <3>. QED BY <2>2, <3>1, <1>2, <1>8
  <2>. QED BY <2>1, <2>2
<1>12. \A i \in 1..Len(s) : i # Len(s) => s[i + 1] = kids[s[i]][1]
  <2>. SUFFICES ASSUME NEW i \in 1..size, i # size PROVE s[i + 1] = kids[s[i]][1]
    BY <1>8
  <2>1. i + 1 \in 1..size /\ (i + 1) - 1 = i
    BY <1>5
  <2>. QED BY <2>1, <1>8, <1>9
<1>13. Len(s) # 0 => ~IsComma(kids[s[Len(s)]][1])
  <2>. SUFFICES ASSUME size # 0 PROVE ~IsComma(kids[s[size]][1])
    BY <1>8
  <2>1. size \in 1..size
    BY <1>5
  <2>. QED BY <2>1, <1>3, <1>9
<1>. QED BY <1>8, <1>10, <1>11, <1>12, <1>13 DEF Spined, s

\* Nothing called with nothing between its brackets.
LEMMA NoSpine ==
  CommaSpine(0) = <<>> /\ ArgsFrom(0) = <<>> /\ ~ArgsMissing(0)
BY DEF CommaSpine, ArgsFrom, ArgsMissing

\* The commas of a spine come earlier and earlier, so none occurs twice.
LEMMA SpineDescends ==
  ASSUME input \in Inputs, KidsTyped, LiveCommas, NEW root, NEW s, Spined(s, root),
         NEW i \in 1..Len(s), NEW j \in 1..Len(s), i < j
  PROVE  s[j] < s[i]
<1>. DEFINE S == {k \in 0..Len(s) : i < k => s[k] < s[i]}
<1>1. s \in Seq(Node) /\ Len(s) \in Nat /\ \A k \in 1..Len(s) : s[k] \in Node
  BY DEF Spined
<1>2. Node = 1..Len(input) /\ Len(input) \in Nat
  BY InputFacts
<1>3. ASSUME NEW k \in 0..Len(s), 0..(k - 1) \subseteq S PROVE k \in S
  <2>1. SUFFICES ASSUME i < k PROVE s[k] < s[i]
    OBVIOUS
  <2>2. k - 1 \in 1..Len(s) /\ k - 1 # Len(s) /\ (k - 1) + 1 = k /\ k \in 1..Len(s)
        /\ k - 1 \in 0..(k - 1)
    BY <1>1, <2>1
  <2>3. s[k] = kids[s[k - 1]][1] /\ s[k - 1] \in Node /\ InTree(s[k - 1]) /\ IsComma(s[k - 1])
    <3>1. s[(k - 1) + 1] = kids[s[k - 1]][1]
      BY <2>2 DEF Spined
    <3>. QED BY <3>1, <2>2, <1>1 DEF Spined
  <2>4. s[k] < s[k - 1]
    BY <2>3, CommaFacts
  <2>5. k - 1 = i \/ s[k - 1] < s[i]
    <3>1. k - 1 = i \/ i < k - 1
      BY <2>1, <2>2
    <3>. QED BY <3>1, <2>2, <1>3
  <2>6. s[k] \in Nat /\ s[k - 1] \in Nat /\ s[i] \in Nat
    BY <1>1, <1>2, <2>2
  <2>. QED BY <2>4, <2>5, <2>6
<1>4. S \in SUBSET (0..Len(s))
  OBVIOUS
<1>5. j \in S
  <2>. HIDE DEF S
  <2>1. S = 0..Len(s)
    BY <1>1, <1>3, <1>4, SetInduction
  <2>. QED BY <2>1, <1>1
<1>. QED BY <1>5

(***************************************************************************)
(* Handing nodes over                                                      *)
(***************************************************************************)
\* The invocations below those that a step touches hold what they held.
LEMMA BelowKeeps ==
  ASSUME NEW n \in Nat, n = Len(stack), NEW k \in Nat, k = Len(stack)',
         NEW m \in Nat, m <= n, m <= k,
         \A i \in 1..m : stack'[i] = stack[i],
         m # 0 => Waits(m)' = Waits(m)
  PROVE  \A i \in 1..m : Holds(i)' = Holds(i) /\ HeldTwice(i)' = HeldTwice(i)
<1>1. ASSUME NEW i \in 1..m PROVE Waits(i)' = Waits(i)
  <2>1. CASE i = m
    BY <2>1
  <2>2. CASE i # m
    <3>1. i # n /\ i # k /\ i + 1 \in 1..m
      BY <2>2
    <3>. QED BY <3>1 DEF Waits
  <2>. QED BY <2>1, <2>2
<1>2. ASSUME NEW i \in 1..m
      PROVE  Holds(i)' = Holds(i) /\ HeldTwice(i)' = HeldTwice(i)
  <2>1. i # 0 /\ stack'[i] = stack[i] /\ Waits(i)' = Waits(i)
    BY <1>1
  <2>2. KeptBy(i)' = KeptBy(i)
    BY <2>1 DEF KeptBy
  <2>. QED BY <2>1, <2>2 DEF Holds, HeldTwice
<1>. QED BY <1>2

LEMMA MorePassed ==
  ASSUME NEW a \in Nat, NEW b \in Nat, a <= b
  PROVE  \A x \in 1..(a - 1) : x \in 1..(b - 1)
OBVIOUS

\* A step hands the nodes of the invocations above the m-th (Spare), and those
\* it makes (New), to others or links them (Linked).
Handing(m, Spare, New, Linked) ==
  LET Upper == {0} \cup (m + 1)..Len(stack') IN
  /\ m \in Nat /\ m <= Len(stack) /\ m <= Len(stack')
  /\ \A i \in 1..m : stack'[i] = stack[i]
  /\ m # 0 => Waits(m)' = Waits(m)
  /\ \A x \in New : x \in pos..(pos' - 1)
  /\ \A x \in Spare : \E i \in {0} \cup (m + 1)..Len(stack) : x \in Holds(i)
  /\ \A x \in Linked : x \in Spare \/ x \in New
  /\ \A i \in (m + 1)..Len(stack') :
       /\ ~HeldTwice(i)'
       /\ stack'[i].kind # "group" => stack'[i].last < pos'
  /\ \A i \in Upper : \A x \in Holds(i)' : (x \in Spare \/ x \in New) /\ x \notin Linked
  /\ \A i, j \in Upper : i # j => Holds(i)' \cap Holds(j)' = {}

LEMMA PlaceFacts ==
  ASSUME Places, Groups
  PROVE  /\ Node = 1..Len(input) /\ Len(input) \in Nat \ {0}
         /\ pos \in Node /\ pos \in Nat /\ pos > 0
         /\ limit \in Node /\ limit \in Nat /\ limit <= Len(input)
         /\ Len(stack) \in Nat \ {0} /\ DOMAIN stack = 1..Len(stack)
         /\ \A i \in DOMAIN stack : stack[i] \in Frame
         /\ Top = stack[Len(stack)] /\ Top \in Frame
BY InputFacts, StackFacts DEF Places

LEMMA HandingKeeps ==
  ASSUME Places, Groups, Places', Groups', Apart, Rooted, pos <= pos',
         NEW m, NEW Spare, NEW New, NEW Linked, Handing(m, Spare, New, Linked),
         \A c : IsChild(c)' => IsChild(c) \/ c \in Linked
  PROVE  /\ Apart' /\ Rooted'
         /\ \A c : InTree(c)' => InTree(c) \/ c \in New
         /\ \A c : IsOwned(c)' => ~IsChild(c) /\ c \notin Linked
<1>. DEFINE Upper == {0} \cup (m + 1)..Len(stack')
<1>0. PICK n, k : n = Len(stack) /\ k = Len(stack')
  OBVIOUS
<1>1. n \in Nat /\ DOMAIN stack = 1..n /\ pos \in Nat /\ pos > 0
  BY <1>0, PlaceFacts
<1>2. k \in Nat /\ DOMAIN stack' = 1..k /\ pos' \in Nat
  <2>1. input' \in Seq(TokenSet) /\ pos' \in DOMAIN input'
    BY InputsAssumption DEF Places, Node
  <2>2. stack' \in Seq(Frame')
    BY DEF Places
  <2>. QED BY <1>0, <2>1, <2>2
<1>3. /\ m \in Nat /\ m <= n /\ m <= k
      /\ \A i \in 1..m : stack'[i] = stack[i]
      /\ m # 0 => Waits(m)' = Waits(m)
  BY <1>0 DEF Handing
<1>4. \A i \in 1..m : Holds(i)' = Holds(i) /\ HeldTwice(i)' = HeldTwice(i)
  BY <1>0, <1>1, <1>2, <1>3, BelowKeeps
<1>5. /\ \A x \in New : x \in pos..(pos' - 1)
      /\ \A x \in Spare : \E i \in {0} \cup (m + 1)..n : x \in Holds(i)
      /\ \A x \in Linked : x \in Spare \/ x \in New
      /\ \A i \in (m + 1)..k : ~HeldTwice(i)'
  BY <1>0 DEF Handing
<1>6. /\ Upper = {0} \cup (m + 1)..k
      /\ \A i \in Upper : \A x \in Holds(i)' : (x \in Spare \/ x \in New) /\ x \notin Linked
      /\ \A i, j \in Upper : i # j => Holds(i)' \cap Holds(j)' = {}
  BY <1>0 DEF Handing
<1>. HIDE DEF Upper
<1>. USE <1>0, <1>1, <1>2, <1>3, <1>4, <1>5, <1>6
<1>7. \A x \in Spare : IsOwned(x)
  <2>1. \A i \in {0} \cup (m + 1)..n : i \in Slots
    BY DEF Slots
  <2>. QED BY <2>1 DEF IsOwned
<1>8. \A x \in Spare : x \in 1..(pos - 1) /\ ~IsChild(x)
  BY <1>7 DEF Rooted
<1>9. \A i \in 0..k : i \in Upper \/ i \in 1..m
  OBVIOUS
<1>10. \A i \in 1..m : i \in Slots
  BY DEF Slots
<1>11. \A i \in 1..m : \A x \in Holds(i) :
         IsOwned(x) /\ x \notin Spare /\ x \in 1..(pos - 1) /\ ~IsChild(x)
  <2>. SUFFICES ASSUME NEW i \in 1..m, NEW x \in Holds(i)
                PROVE  IsOwned(x) /\ x \notin Spare
    BY DEF Rooted
  <2>1. \A j \in {0} \cup (m + 1)..n : j \in Slots /\ j # i
    BY DEF Slots
  <2>2. \A j \in {0} \cup (m + 1)..n : x \notin Holds(j)
    BY <2>1, <1>10 DEF Apart
  <2>. QED BY <2>2, <1>10 DEF IsOwned
<1>12. \A x \in New : ~IsChild(x) /\ x \notin 1..(pos - 1) /\ x \in 1..(pos' - 1)
  BY DEF Rooted
<1>13. ASSUME NEW i \in Upper, NEW j \in 1..m PROVE Holds(i)' \cap Holds(j)' = {}
  <2>1. ASSUME NEW x \in Holds(i)', x \in Holds(j) PROVE FALSE
    <3>1. x \notin Spare /\ x \in 1..(pos - 1)
      BY <2>1, <1>11
    <3>2. x \in Spare \/ x \in New
      BY <2>1
    <3>. QED BY <3>1, <3>2, <1>12
  <2>. QED BY <2>1
<1>14. Apart'
  <2>1. \A i \in DOMAIN stack' : ~HeldTwice(i)'
    <3>1. \A i \in 1..m : i \in DOMAIN stack
      OBVIOUS
    <3>2. \A i \in 1..k : i \in 1..m \/ i \in (m + 1)..k
      OBVIOUS
    <3>. QED BY <3>1, <3>2 DEF Apart
  <2>2. ASSUME NEW i \in 0..k, NEW j \in 0..k, i # j PROVE Holds(i)' \cap Holds(j)' = {}
    <3>1. CASE i \in Upper /\ j \in Upper
      BY <2>2, <3>1
    <3>2. CASE i \in Upper /\ j \in 1..m
      BY <1>13, <3>2
    <3>3. CASE i \in 1..m /\ j \in Upper
      BY <1>13, <3>3
    <3>4. CASE i \in 1..m /\ j \in 1..m
      <4>1. Holds(i) \cap Holds(j) = {}
        BY <2>2, <3>4, <1>10 DEF Apart
      <4>. QED BY <3>4, <4>1
    <3>. QED BY <1>9, <3>1, <3>2, <3>3, <3>4
  <2>3. Slots' = 0..k
    BY DEF Slots
  <2>. QED BY <2>1, <2>2, <2>3 DEF Apart
<1>15. \A x \in 1..(pos - 1) : x \in 1..(pos' - 1)
  BY MorePassed
<1>16. ASSUME NEW c, IsChild(c)' PROVE c \in 1..(pos' - 1)
  <2>1. CASE IsChild(c)
    BY <2>1, <1>15 DEF Rooted
  <2>2. CASE c \in Linked
    BY <2>2, <1>8, <1>12, <1>15
  <2>. QED BY <1>16, <2>1, <2>2
<1>17. \A c : IsOwned(c)' => \E i \in 0..k : c \in Holds(i)'
  BY DEF IsOwned, Slots
<1>18. ASSUME NEW c, IsOwned(c)'
       PROVE  /\ c \in 1..(pos' - 1) /\ ~IsChild(c)' /\ (IsOwned(c) \/ c \in New)
              /\ ~IsChild(c) /\ c \notin Linked
  <2>1. PICK i \in 0..k : c \in Holds(i)'
    BY <1>17, <1>18
  <2>2. CASE i \in Upper
    <3>1. (c \in Spare \/ c \in New) /\ c \notin Linked
      BY <2>1, <2>2
    <3>2. ~IsChild(c)
      BY <3>1, <1>8, <1>12
    <3>. QED BY <3>1, <3>2, <1>7, <1>8, <1>12, <1>15
  <2>3. CASE i \in 1..m
    <3>1. c \in Holds(i)
      BY <2>1, <2>3
    <3>2. IsOwned(c) /\ c \notin Spare /\ c \in 1..(pos - 1) /\ ~IsChild(c)
      BY <2>3, <3>1, <1>11
    <3>3. c \notin Linked
      BY <3>2, <1>12
    <3>. QED BY <3>2, <3>3, <1>15
  <2>. QED BY <2>2, <2>3, <1>9
<1>19. Rooted'
  BY <1>16, <1>18 DEF Rooted
<1>20. ASSUME NEW c, InTree(c)' PROVE InTree(c) \/ c \in New
  BY <1>20, <1>18, <1>7 DEF InTree
<1>. QED BY <1>14, <1>18, <1>19, <1>20

(***************************************************************************)
(* Linking                                                                 *)
(***************************************************************************)
LEMMA AppendFacts ==
  ASSUME NEW S, NEW s \in Seq(S), NEW x \in S
  PROVE  /\ Append(s, x) \in Seq(S) /\ Append(s, x) # <<>>
         /\ Len(s) \in Nat
         /\ DOMAIN s = 1..Len(s) /\ DOMAIN Append(s, x) = 1..(Len(s) + 1)
         /\ \A i \in 1..Len(s) : Append(s, x)[i] = s[i]
         /\ Append(s, x)[Len(s) + 1] = x
         /\ s # <<>> => Append(s, x)[1] = s[1]
         /\ s = <<>> => Append(s, x)[1] = x
OBVIOUS

LEMMA LinkFacts ==
  ASSUME KidsTyped, Unshared, UNCHANGED input,
         NEW p \in NodeOrNull, NEW x \in Node, Link(p, x), ~IsChild(x)
  PROVE  /\ KidsTyped' /\ Unshared'
         /\ \A c : IsChild(c)' => IsChild(c) \/ c = x
         /\ \A n \in Node : n # p => kids'[n] = kids[n]
         /\ \A n \in Node : kids[n] # <<>> => kids'[n] # <<>> /\ kids'[n][1] = kids[n][1]
         /\ p \in Node /\ kids[p] = <<>> => kids'[p] # <<>> /\ kids'[p][1] = x
<1>1. Node' = Node /\ kids \in [Node -> Seq(Node)]
  BY DEF Node, KidsTyped
<1>2. kids' = [kids EXCEPT ![p] = Append(kids[p], x)]
  BY DEF Link
<1>3. CASE p \notin Node
  <2>1. kids' = kids
    BY <1>1, <1>2, <1>3
  <2>. QED BY <1>1, <1>3, <2>1 DEF KidsTyped, Unshared, IsChild
<1>4. CASE p \in Node
  <2>. DEFINE s == kids[p]
              t == Append(s, x)
  <2>1. s \in Seq(Node)
    BY <1>1, <1>4
  <2>2. /\ t \in Seq(Node) /\ t # <<>> /\ Len(s) \in Nat
        /\ DOMAIN s = 1..Len(s) /\ DOMAIN t = 1..(Len(s) + 1)
        /\ \A i \in 1..Len(s) : t[i] = s[i]
        /\ t[Len(s) + 1] = x
        /\ s # <<>> => t[1] = s[1]
        /\ s = <<>> => t[1] = x
    BY <2>1, AppendFacts
  <2>3. kids' = [kids EXCEPT ![p] = t]
    BY <1>2
  <2>. HIDE DEF t
  <2>4. /\ kids' \in [Node -> Seq(Node)] /\ kids'[p] = t
        /\ \A n \in Node : n # p => kids'[n] = kids[n]
    BY <2>2, <2>3, <1>1, <1>4
  \* A child that is not x is where it was.
  <2>5. ASSUME NEW a \in Node, NEW i \in DOMAIN kids'[a]
        PROVE  \/ a = p /\ i = Len(s) + 1 /\ kids'[a][i] = x
               \/ i \in DOMAIN kids[a] /\ kids'[a][i] = kids[a][i] /\ kids[a][i] # x
    <3>1. CASE a = p
      <4>1. i \in 1..(Len(s) + 1) /\ (i = Len(s) + 1 \/ i \in 1..Len(s))
        BY <3>1, <2>2, <2>4, <2>5
      <4>2. CASE i \in 1..Len(s)
        <5>1. i \in DOMAIN kids[a] /\ kids'[a][i] = kids[a][i]
          BY <4>2, <3>1, <2>2, <2>4
        <5>. QED BY <5>1 DEF IsChild
      <4>. QED BY <4>1, <4>2, <3>1, <2>2, <2>4
    <3>2. CASE a # p
      BY <3>2, <2>4, <2>5 DEF IsChild
    <3>. QED BY <3>1, <3>2
  <2>6. ASSUME NEW c, IsChild(c)' PROVE IsChild(c) \/ c = x
    <3>1. PICK n \in Node : \E i \in DOMAIN kids'[n] : kids'[n][i] = c
      BY <2>6, <1>1 DEF IsChild
    <3>. QED BY <3>1, <2>5 DEF IsChild
  <2>7. Unshared'
    <3>1. ASSUME NEW a \in Node, NEW b \in Node,
                 NEW i \in DOMAIN kids'[a], NEW j \in DOMAIN kids'[b], kids'[a][i] = kids'[b][j]
          PROVE  a = b /\ i = j
      <4>1. CASE kids'[a][i] = x
        <5>1. a = p /\ i = Len(s) + 1
          BY <4>1, <2>5
        <5>2. b = p /\ j = Len(s) + 1
          BY <4>1, <3>1, <2>5
        <5>. QED BY <5>1, <5>2
      <4>2. CASE kids'[a][i] # x
        <5>1. i \in DOMAIN kids[a] /\ kids'[a][i] = kids[a][i]
          BY <4>2, <2>5
        <5>2. j \in DOMAIN kids[b] /\ kids'[b][j] = kids[b][j]
          BY <4>2, <3>1, <2>5
        <5>3. kids[a][i] = kids[b][j]
          BY <3>1, <5>1, <5>2
        <5>. QED BY <5>1, <5>2, <5>3 DEF Unshared
      <4>. QED BY <4>1, <4>2
    <3>. QED BY <3>1, <1>1 DEF Unshared
  <2>8. KidsTyped'
    BY <1>1, <2>4 DEF KidsTyped
  <2>9. \A n \in Node : kids[n] # <<>> => kids'[n] # <<>> /\ kids'[n][1] = kids[n][1]
    BY <2>2, <2>4
  <2>. QED BY <2>2, <2>4, <2>6, <2>7, <2>8, <2>9
<1>. QED BY <1>3, <1>4

\* What a step links is what it hands over: nothing, or one node to another.
Links(New, Linked) ==
  \/ kids' = kids /\ Linked = {} /\ \A c \in New : ~IsComma(c)
  \/ \E p \in NodeOrNull, x \in Node :
       /\ Link(p, x) /\ Linked = {x} /\ p < pos'
       /\ \A c \in New : IsComma(c) => c = p /\ x < c

\* What is handed over is no child of another.
LEMMA SpareIsRoot ==
  ASSUME Places, Groups, Rooted, NEW m, NEW Spare, NEW New, NEW Linked,
         Handing(m, Spare, New, Linked), NEW x, x \in Spare \/ x \in New
  PROVE  ~IsChild(x)
<1>1. pos \in Nat /\ Len(stack) \in Nat
  BY PlaceFacts
<1>2. CASE x \in New
  <2>1. x \in pos..(pos' - 1)
    BY <1>2 DEF Handing
  <2>2. x \notin 1..(pos - 1)
    BY <1>1, <2>1
  <2>. QED BY <2>2 DEF Rooted
<1>3. CASE x \in Spare
  <2>1. m \in Nat
    BY DEF Handing
  <2>2. PICK i \in {0} \cup (m + 1)..Len(stack) : x \in Holds(i)
    BY <1>3 DEF Handing
  <2>3. i \in Slots
    BY <1>1, <2>1 DEF Slots
  <2>. QED BY <2>2, <2>3 DEF IsOwned, Rooted
<1>. QED BY <1>2, <1>3

LEMMA LastsPassed ==
  ASSUME Places, Groups, Places', input' = input, Untouched, pos <= pos',
         NEW m, NEW Spare, NEW New, NEW Linked, Handing(m, Spare, New, Linked)
  PROVE  \A i \in DOMAIN stack' : stack'[i].kind # "group" => stack'[i].last < pos'
<1>1. Node' = Node /\ pos \in Nat /\ pos' \in Nat /\ \A n \in Node : n \in Nat
  <2>1. Node' = Node
    BY DEF Node
  <2>. QED BY <2>1, PlaceFacts DEF Places
<1>2. ASSUME NEW i \in DOMAIN stack', stack'[i].kind # "group"
      PROVE  stack'[i].last < pos'
  <2>1. m \in Nat /\ m <= Len(stack) /\ m <= Len(stack')
    BY DEF Handing
  <2>2. DOMAIN stack' = 1..Len(stack') /\ Len(stack') \in Nat
    BY DEF Places
  <2>3. CASE i \in (m + 1)..Len(stack')
    BY <1>2, <2>3 DEF Handing
  <2>4. CASE i \in 1..m
    <3>1. stack'[i] = stack[i]
      BY <2>4 DEF Handing
    <3>2. i \in DOMAIN stack
      BY <2>1, <2>4, PlaceFacts
    <3>3. stack[i].last < pos
      BY <1>2, <3>1, <3>2 DEF Untouched
    <3>4. stack[i].last \in NodeOrNull
      <4>1. stack[i] \in Frame /\ stack[i].kind # "group"
        BY <1>2, <3>1, <3>2, PlaceFacts
      <4>. QED BY <4>1, FrameFacts DEF NodeOrNull
    <3>5. stack[i].last \in Nat
      BY <3>4, <1>1 DEF NodeOrNull
    <3>. QED BY <3>1, <3>3, <3>5, <1>1
  <2>5. i \in (m + 1)..Len(stack') \/ i \in 1..m
    BY <2>1, <2>2
  <2>. QED BY <2>3, <2>4, <2>5
<1>. QED BY <1>2

LEMMA TreesGrow ==
  ASSUME Places, Groups, Places', Groups', Trees, Unshared, Nested', input' = input,
         pos <= pos', NEW m, NEW Spare, NEW New, NEW Linked,
         Handing(m, Spare, New, Linked), Links(New, Linked)
  PROVE  Trees' /\ Unshared'
<1>1. KidsTyped /\ Nested /\ Apart /\ Rooted /\ Untouched /\ LiveCommas
  BY DEF Trees
<1>2. Node' = Node /\ NodeOrNull' = NodeOrNull /\ \A n : IsComma(n)' = IsComma(n)
  BY DEF Node, NodeOrNull, IsComma
<1>3. /\ pos \in Nat /\ pos' \in Nat /\ \A n \in Node : n \in Nat
      /\ \A n \in New : n \in pos..(pos' - 1)
  BY <1>2, PlaceFacts DEF Handing, Places
<1>. DEFINE Linking(p, x) ==
       /\ Link(p, x) /\ Linked = {x} /\ p < pos'
       /\ \A c \in New : IsComma(c) => c = p /\ x < c
     Nothing == kids' = kids /\ Linked = {} /\ \A c \in New : ~IsComma(c)
<1>4. Nothing \/ \E p \in NodeOrNull, x \in Node : Linking(p, x)
  BY DEF Links
<1>5. ASSUME NEW p \in NodeOrNull, NEW x \in Node, Linking(p, x)
      PROVE  /\ KidsTyped' /\ Unshared'
             /\ \A c : IsChild(c)' => IsChild(c) \/ c = x
             /\ \A n \in Node : n # p => kids'[n] = kids[n]
             /\ \A n \in Node : kids[n] # <<>> => kids'[n] # <<>> /\ kids'[n][1] = kids[n][1]
             /\ p \in Node /\ kids[p] = <<>> => kids'[p] # <<>> /\ kids'[p][1] = x
  <2>1. x \in Spare \/ x \in New
    BY <1>5 DEF Handing
  <2>2. ~IsChild(x)
    BY <1>1, <2>1, SpareIsRoot
  <2>. QED BY <1>1, <1>5, <2>2, LinkFacts
<1>6. KidsTyped' /\ Unshared' /\ \A c : IsChild(c)' => IsChild(c) \/ c \in Linked
  <2>1. CASE Nothing
    BY <2>1, <1>1, <1>2 DEF KidsTyped, Unshared, IsChild
  <2>2. ASSUME NEW p \in NodeOrNull, NEW x \in Node, Linking(p, x)
        PROVE  KidsTyped' /\ Unshared' /\ \A c : IsChild(c)' => IsChild(c) \/ c \in Linked
    BY <2>2, <1>5
  <2>. QED BY <1>4, <2>1, <2>2
<1>7. Apart' /\ Rooted' /\ \A c : InTree(c)' => InTree(c) \/ c \in New
  BY <1>1, <1>6, HandingKeeps
<1>8. Untouched'
  <2>1. ASSUME NEW n \in Node, n >= pos' PROVE kids'[n] = <<>>
    <3>1. kids[n] = <<>>
      <4>1. n >= pos
        BY <1>3, <2>1
      <4>. QED BY <1>1, <4>1 DEF Untouched
    <3>2. ASSUME NEW p \in NodeOrNull, NEW x \in Node, Linking(p, x) PROVE kids'[n] = <<>>
      <4>1. n # p
        <5>1. p < pos' /\ p \in Nat
          BY <3>2, <1>3 DEF NodeOrNull
        <5>. QED BY <1>3, <2>1, <5>1
      <4>2. kids'[n] = kids[n]
        BY <1>5, <3>2, <4>1
      <4>. QED BY <3>1, <4>2
    <3>. QED BY <1>4, <3>1, <3>2
  <2>2. \A i \in DOMAIN stack' : stack'[i].kind # "group" => stack'[i].last < pos'
    BY <1>1, LastsPassed
  <2>. QED BY <2>1, <2>2, <1>2 DEF Untouched
<1>9. LiveCommas'
  <2>1. SUFFICES ASSUME NEW n \in Node, InTree(n)', IsComma(n)
                 PROVE  kids'[n] # <<>> /\ kids'[n][1] < n
    BY <1>2 DEF LiveCommas
  <2>2. CASE InTree(n)
    <3>1. kids[n] # <<>> /\ kids[n][1] < n
      BY <1>1, <2>1, <2>2 DEF LiveCommas
    <3>2. ASSUME NEW p \in NodeOrNull, NEW x \in Node, Linking(p, x)
          PROVE  kids'[n] # <<>> /\ kids'[n][1] = kids[n][1]
      BY <3>1, <3>2, <1>5
    <3>. QED BY <1>4, <3>1, <3>2
  <2>3. CASE n \in New
    <3>1. ~Nothing
      BY <2>1, <2>3
    <3>2. PICK p \in NodeOrNull, x \in Node : Linking(p, x)
      BY <1>4, <3>1
    <3>3. n = p /\ x < n
      BY <2>1, <2>3, <3>2
    <3>4. kids[n] = <<>>
      <4>1. n >= pos
        BY <1>3, <2>3
      <4>. QED BY <1>1, <4>1 DEF Untouched
    <3>5. kids'[p] # <<>> /\ kids'[p][1] = x
      BY <1>5, <3>2, <3>3, <3>4
    <3>. QED BY <3>3, <3>5
  <2>. QED BY <1>7, <2>1, <2>2, <2>3
<1>. QED BY <1>6, <1>7, <1>8, <1>9 DEF Trees

\* The places of the parser and the trees together are what TypeOK says.
LEMMA TypesFollow ==
  ASSUME Places, Places', KidsTyped', input' = input, (pos <= limit)',
         mode' \in {"primary", "postfix", "operand", "loop", "value", "done"} \cup Failures
  PROVE  TypeOK'
<1>1. Node' = Node /\ input \in Seq(TokenSet) /\ \A n \in Node : n \in Nat /\ n > 0
  BY InputFacts DEF Places, Node
<1>2. pos' \in 1..limit'
  <2>1. pos' \in Node /\ limit' \in Node
    BY <1>1 DEF Places
  <2>2. pos' \in Nat /\ pos' > 0 /\ limit' \in Nat
    BY <1>1, <2>1
  <2>. QED BY <2>2
<1>. QED BY <1>1, <1>2 DEF TypeOK, Places, KidsTyped

LEMMA StepGrows ==
  ASSUME ParserInv, ParserInv', TreeInv, Running, Running', Nested', input' = input,
         pos <= pos', NEW m, NEW Spare, NEW New, NEW Linked,
         Handing(m, Spare, New, Linked), Links(New, Linked)
  PROVE  TreeInv'
<1>1. Places /\ Groups /\ Places' /\ Groups' /\ Trees /\ Unshared
  BY DEF ParserInv, TreeInv
<1>2. Trees' /\ Unshared'
  BY <1>1, TreesGrow
<1>3. TypeOK'
  <2>1. KidsTyped' /\ (pos <= limit)'
    BY <1>2 DEF Trees, Nested
  <2>. QED BY <1>1, <2>1, TypesFollow DEF ParserInv
<1>. QED BY <1>2, <1>3 DEF TreeInv

(***************************************************************************)
(* Handing over by the operations on the stack                             *)
(***************************************************************************)
\* What is held in a slot.
LEMMA HandFacts ==
  /\ \A x : x \in Holds(0) <=> x # 0 /\ x = InHand
  /\ \A x : x \in Holds(0)' <=> x # 0 /\ x = InHand'
BY DEF Holds

LEMMA KeptFacts ==
  ASSUME NEW i, i # 0, NEW f, f = stack[i]
  PROVE  /\ f.kind = "group" => \A x : x \in Holds(i) <=> x # 0 /\ (x = f.begin \/ x = f.callee)
         /\ f.kind = "prefix" => \A x : x \in Holds(i) <=> x # 0 /\ x = f.first
         /\ f.kind = "impl" =>
              \A x : x \in Holds(i) <=> x # 0 /\ (x = f.base \/ (Waits(i) /\ x = f.op))
<1>1. CASE f.kind = "group"
  BY <1>1 DEF Holds, KeptBy
<1>2. CASE f.kind = "prefix"
  BY <1>2 DEF Holds, KeptBy
<1>3. CASE f.kind = "impl"
  BY <1>3 DEF Holds, KeptBy
<1>. QED BY <1>1, <1>2, <1>3

LEMMA KeptThen ==
  ASSUME NEW i, i # 0, NEW f, f = stack'[i]
  PROVE  /\ f.kind = "group" => \A x : x \in Holds(i)' <=> x # 0 /\ (x = f.begin \/ x = f.callee)
         /\ f.kind = "prefix" => \A x : x \in Holds(i)' <=> x # 0 /\ x = f.first
         /\ f.kind = "impl" =>
              \A x : x \in Holds(i)' <=> x # 0 /\ (x = f.base \/ (Waits(i)' /\ x = f.op))
<1>1. CASE f.kind = "group"
  BY <1>1 DEF Holds, KeptBy
<1>2. CASE f.kind = "prefix"
  BY <1>2 DEF Holds, KeptBy
<1>3. CASE f.kind = "impl"
  BY <1>3 DEF Holds, KeptBy
<1>. QED BY <1>1, <1>2, <1>3

WaitingModes == {"primary", "postfix", "operand"}

LEMMA StayHands ==
  ASSUME Places, Groups, stack' = stack,
         Top.kind = "impl" => (mode \in WaitingModes <=> mode' \in WaitingModes),
         NEW New, \A x \in New : x \in pos..(pos' - 1),
         NEW Linked, \A x \in Linked : x \in Holds(0) \/ x \in New,
         \A x \in Holds(0)' : (x \in Holds(0) \/ x \in New) /\ x \notin Linked
  PROVE  Handing(Len(stack), Holds(0), New, Linked)
<1>0. PICK n : n = Len(stack)
  OBVIOUS
<1>1. n \in Nat /\ n # 0 /\ Top = stack[n]
  BY <1>0, PlaceFacts
<1>2. Waits(n)' = Waits(n)
  BY <1>0, <1>1 DEF Waits, WaitingModes
<1>3. (n + 1)..n = {} /\ n <= n
  BY <1>1
<1>4. Handing(n, Holds(0), New, Linked)
  BY <1>0, <1>1, <1>2, <1>3 DEF Handing
<1>. QED BY <1>0, <1>4

LEMMA PushHands ==
  ASSUME Places, Groups, NEW f \in Frame, Push(f),
         Top.kind = "impl" => f.kind # "impl" /\ mode \in WaitingModes,
         NEW n, n = Len(stack),
         NEW New, \A x \in New : x \in pos..(pos' - 1),
         NEW Linked, \A x \in Linked : x \in Holds(0) \/ x \in New,
         \A x \in Holds(0)' : (x \in Holds(0) \/ x \in New) /\ x \notin Linked,
         \A x \in Holds(n + 1)' : (x \in Holds(0) \/ x \in New) /\ x \notin Linked,
         \A x \in Holds(0)' : x \notin Holds(n + 1)',
         ~HeldTwice(n + 1)', f.kind # "group" => f.last < pos'
  PROVE  Handing(n, Holds(0), New, Linked)
<1>1. n \in Nat /\ n # 0 /\ Top = stack[n] /\ stack \in Seq(Frame)
  BY PlaceFacts DEF Places
<1>2. /\ Len(stack') = n + 1
      /\ \A i \in 1..n : stack'[i] = stack[i]
      /\ stack'[n + 1] = f
  BY <1>1, PushFacts DEF Push
<1>3. Waits(n)' = Waits(n)
  <2>1. stack'[n] = stack[n] /\ n # n + 1
    BY <1>1, <1>2
  <2>. QED BY <1>1, <1>2, <2>1 DEF Waits, WaitingModes
<1>4. (n + 1)..(n + 1) = {n + 1} /\ (n + 1)..n = {} /\ n <= n + 1 /\ n <= n
  BY <1>1
<1>. QED BY <1>1, <1>2, <1>3, <1>4 DEF Handing

LEMMA PopHands ==
  ASSUME Places, Groups, Len(stack) > 1, stack' = Rest,
         Top.kind = "impl" <=> mode' \notin WaitingModes,
         NEW n, n = Len(stack),
         NEW New, \A x \in New : x \in pos..(pos' - 1),
         NEW Linked, \A x \in Linked : x \in Holds(0) \cup Holds(n) \/ x \in New,
         \A x \in Holds(0)' : (x \in Holds(0) \cup Holds(n) \/ x \in New) /\ x \notin Linked
  PROVE  Handing(n - 1, Holds(0) \cup Holds(n), New, Linked)
<1>1. n \in Nat /\ n > 1 /\ Top = stack[n] /\ stack \in Seq(Frame) /\ stack # <<>>
  BY PlaceFacts DEF Places, Groups
<1>2. /\ Len(stack') = n - 1
      /\ \A i \in 1..(n - 1) : stack'[i] = stack[i]
  BY <1>1, PopFacts DEF Rest
<1>3. Waits(n - 1)' = Waits(n - 1)
  <2>1. stack'[n - 1] = stack[n - 1] /\ n - 1 # n /\ (n - 1) + 1 = n
    BY <1>1, <1>2
  <2>. QED BY <1>1, <1>2, <2>1 DEF Waits, WaitingModes
<1>4. (n - 1) + 1 = n /\ n..n = {n} /\ n..(n - 1) = {} /\ n - 1 <= n /\ n - 1 <= n - 1
      /\ n - 1 \in Nat
  BY <1>1
<1>. QED BY <1>1, <1>2, <1>3, <1>4 DEF Handing

LEMMA ReplaceHands ==
  ASSUME Places, Groups, Len(stack) > 1, NEW f \in Frame, Replace(f), f.kind = Top.kind,
         NEW n, n = Len(stack),
         NEW New, \A x \in New : x \in pos..(pos' - 1),
         NEW Linked, \A x \in Linked : x \in Holds(0) \cup Holds(n) \/ x \in New,
         \A x \in Holds(0)' : (x \in Holds(0) \cup Holds(n) \/ x \in New) /\ x \notin Linked,
         \A x \in Holds(n)' : (x \in Holds(0) \cup Holds(n) \/ x \in New) /\ x \notin Linked,
         \A x \in Holds(0)' : x \notin Holds(n)',
         ~HeldTwice(n)', f.kind # "group" => f.last < pos'
  PROVE  Handing(n - 1, Holds(0) \cup Holds(n), New, Linked)
<1>1. n \in Nat /\ n > 1 /\ Top = stack[n] /\ stack \in Seq(Frame) /\ stack # <<>>
  BY PlaceFacts DEF Places, Groups
<1>2. /\ Len(stack') = n
      /\ \A i \in 1..(n - 1) : stack'[i] = stack[i]
      /\ stack'[n] = f
  <2>1. /\ Len(stack') = Len(stack)
        /\ \A i \in DOMAIN stack : i # Len(stack) => stack'[i] = stack[i]
        /\ stack'[Len(stack)] = f
    BY <1>1, ReplaceFacts DEF Replace, Rest
  <2>2. \A i \in 1..(n - 1) : i \in DOMAIN stack /\ i # n
    BY <1>1
  <2>. QED BY <2>1, <2>2
<1>3. Waits(n - 1)' = Waits(n - 1)
  <2>1. stack'[n - 1] = stack[n - 1] /\ n - 1 # n /\ (n - 1) + 1 = n
    BY <1>1, <1>2
  <2>. QED BY <1>1, <1>2, <2>1 DEF Waits
<1>4. (n - 1) + 1 = n /\ n..n = {n} /\ n - 1 <= n /\ n - 1 \in Nat
  BY <1>1
<1>. QED BY <1>1, <1>2, <1>3, <1>4 DEF Handing

\* Groups stay nested where no group is entered or left.
LEMMA NestedKeeps ==
  ASSUME Nested, UNCHANGED <<input, limit>>, pos' <= limit,
         \A i \in DOMAIN stack' :
           stack'[i].kind = "group" => i \in DOMAIN stack /\ stack'[i] = stack[i]
  PROVE  Nested'
BY DEF Nested, IsGroup, CalleeKept

LEMMA PushNests ==
  ASSUME Places, Groups, Nested, UNCHANGED <<input, limit>>, pos' <= limit,
         NEW f \in Frame, f.kind # "group", Push(f)
  PROVE  Nested'
<1>1. stack \in Seq(Frame)
  BY DEF Places
<1>2. /\ DOMAIN stack = 1..Len(stack) /\ DOMAIN stack' = 1..(Len(stack) + 1)
      /\ \A i \in DOMAIN stack : stack'[i] = stack[i]
      /\ stack'[Len(stack) + 1] = f
      /\ Len(stack) \in Nat
  BY <1>1, PushFacts, PlaceFacts DEF Push
<1>3. \A i \in DOMAIN stack' : i \in DOMAIN stack \/ i = Len(stack) + 1
  BY <1>2
<1>. QED BY <1>2, <1>3, NestedKeeps

LEMMA PopNests ==
  ASSUME Places, Groups, Nested, UNCHANGED <<input, limit>>, pos' <= limit, stack' = Rest
  PROVE  Nested'
<1>1. stack \in Seq(Frame) /\ stack # <<>>
  BY DEF Places, Groups
<1>2. /\ DOMAIN stack = 1..Len(stack) /\ DOMAIN stack' = 1..(Len(stack) - 1)
      /\ \A i \in 1..(Len(stack) - 1) : stack'[i] = stack[i]
      /\ Len(stack) \in Nat
  BY <1>1, PopFacts, PlaceFacts DEF Rest
<1>3. \A i \in DOMAIN stack' : i \in DOMAIN stack /\ stack'[i] = stack[i]
  BY <1>2
<1>. QED BY <1>3, NestedKeeps

LEMMA ReplaceNests ==
  ASSUME Places, Groups, Nested, UNCHANGED <<input, limit>>, pos' <= limit,
         NEW f \in Frame, f.kind # "group", Replace(f)
  PROVE  Nested'
<1>0. PICK n : n = Len(stack)
  OBVIOUS
<1>1. stack \in Seq(Frame) /\ stack # <<>> /\ DOMAIN stack = 1..n /\ n \in Nat /\ n # 0
  BY <1>0, PlaceFacts DEF Places, Groups
<1>2. /\ DOMAIN stack' = 1..n
      /\ \A i \in 1..n : i # n => stack'[i] = stack[i]
      /\ stack'[n] = f
  <2>1. stack' = Append(SubSeq(stack, 1, Len(stack) - 1), f)
    BY DEF Replace, Rest
  <2>. QED BY <1>0, <1>1, <2>1, ReplaceFacts
<1>. QED BY <1>1, <1>2, NestedKeeps

(***************************************************************************)
(* The steps                                                               *)
(***************************************************************************)
LEMMA EndedKeeps ==
  ASSUME TreeInv, NEW how \in Failures, Ended(how)
  PROVE  TreeInv'
<1>1. ~Running'
  BY DEF Ended, Failures, Running
<1>2. mode' \in Failures
  BY DEF Ended
<1>3. TypeOK'
  BY <1>2 DEF TreeInv, Ended, TypeOK, Node, NodeOrNull, Frame
<1>4. Unshared'
  BY DEF TreeInv, Ended, Unshared, Node
<1>. QED BY <1>1, <1>3, <1>4 DEF TreeInv

\* A token that is not the end of the input is passed by a skip.
LEMMA SkipFacts ==
  ASSUME Places, Groups, Nested, TypeAt(pos) # "FILE_END"
  PROVE  /\ TypeAt(pos) = input[pos].type /\ OpAt(pos) = input[pos].op
         /\ SkipFrom(pos) = pos + 1 /\ pos + 1 <= limit /\ pos < limit
         /\ pos \in Node /\ pos # 0 /\ pos \in pos..(pos + 1 - 1) /\ pos <= pos + 1
<1>1. pos # limit
  BY DEF TypeAt
<1>2. pos \in Node /\ pos \in Nat /\ pos > 0 /\ limit \in Nat /\ pos <= limit
  BY PlaceFacts DEF Nested
<1>. QED BY <1>1, <1>2 DEF TypeAt, OpAt, SkipFrom

\* A comma is an operator token, and not a prefix.
LEMMA NotComma ==
  ASSUME input \in Inputs, NEW n \in Node,
         input[n].type # "OPERATOR" \/ IsPrefix(input[n].op)
  PROVE  ~IsComma(n)
<1>1. /\ input[n].type = "OPERATOR" <=> input[n].op # 0
      /\ input[n].op \in {0} \cup DOMAIN Operators
  BY InputFacts
<1>2. CASE input[n].type # "OPERATOR"
  BY <1>1, <1>2 DEF IsComma, IsOp
<1>3. CASE input[n].op # 0 /\ IsPrefix(input[n].op)
  BY <1>1, <1>3, CommaAssumption DEF IsComma, IsOp
<1>. QED BY <1>1, <1>2, <1>3

\* What every step relies on.
LEMMA TreeFacts ==
  ASSUME ParserInv, TreeInv, Running
  PROVE  /\ Places /\ Groups /\ OperatorsAllowed /\ Modes
         /\ Trees /\ KidsTyped /\ Nested /\ Apart /\ Rooted /\ Untouched /\ LiveCommas
         /\ 0 \notin Node /\ Node \subseteq NodeOrNull /\ 0 \in NodeOrNull
         /\ pos \in Node /\ pos \in Nat /\ pos > 0 /\ pos <= limit
         /\ val \in NodeOrNull
         /\ Len(stack) \in Nat /\ Top = stack[Len(stack)] /\ Top \in Frame
         /\ Len(stack) # 0
         /\ Top.kind # "group" \/ Top.begin # 0 => Len(stack) > 1
<1>1. Places /\ Groups /\ OperatorsAllowed /\ Modes
      /\ 0 \notin Node /\ Node \subseteq NodeOrNull /\ 0 \in NodeOrNull
  BY LiveFacts
<1>2. Trees
  BY DEF TreeInv
<1>. QED BY <1>1, <1>2, PlaceFacts, StackFacts DEF Trees, Nested, Places

LEMMA PrimaryGrows ==
  ASSUME ParserInv, ParserInv', TreeInv, EmptyPrimary \/ Terminal
  PROVE  TreeInv'
<1>1. mode = "primary" /\ Running /\ input' = input /\ UNCHANGED <<stack, limit, kids>>
  BY DEF EmptyPrimary, Terminal, Running
<1>2. /\ Places /\ Groups /\ Nested /\ Untouched /\ pos \in Nat /\ pos <= limit
      /\ input \in Inputs
  BY <1>1, TreeFacts DEF Places
<1>3. \A x : x \notin Holds(0)
  BY <1>1, HandFacts DEF InHand
<1>4. CASE EmptyPrimary
  <2>1. mode' = "operand" /\ val' = 0 /\ pos' = pos /\ Running'
    BY <1>4 DEF EmptyPrimary, Running
  <2>2. \A x : x \notin Holds(0)'
    BY <2>1, HandFacts DEF InHand
  <2>3. Handing(Len(stack), Holds(0), {}, {})
    BY <1>1, <1>2, <2>1, <2>2, StayHands DEF WaitingModes
  <2>4. Links({}, {})
    BY <1>1 DEF Links
  <2>5. Nested'
    BY <1>1, <1>2, <2>1, NestedKeeps
  <2>. QED BY <1>1, <1>2, <2>1, <2>3, <2>4, <2>5, StepGrows
<1>5. CASE Terminal
  <2>1. /\ mode' = "postfix" /\ val' = pos /\ Running' /\ pos' = SkipFrom(pos)
        /\ TypeAt(pos) \in TerminalTypes
    BY <1>5 DEF Terminal, Running
  <2>2. TypeAt(pos) # "FILE_END" /\ TypeAt(pos) # "OPERATOR"
    BY <2>1 DEF TerminalTypes
  <2>3. /\ TypeAt(pos) = input[pos].type /\ pos' = pos + 1 /\ pos' <= limit
        /\ pos \in Node /\ pos # 0 /\ pos \in pos..(pos' - 1) /\ pos <= pos'
    BY <1>2, <2>1, <2>2, SkipFacts
  <2>4. \A x : x \in Holds(0)' <=> x = pos
    BY <2>1, <2>3, HandFacts DEF InHand
  <2>5. Handing(Len(stack), Holds(0), {pos}, {})
    BY <1>1, <1>2, <2>1, <2>3, <2>4, StayHands DEF WaitingModes
  <2>6. Links({pos}, {})
    BY <1>1, <1>2, <2>2, <2>3, NotComma DEF Links
  <2>7. Nested'
    BY <1>1, <1>2, <2>3, NestedKeeps
  <2>. QED BY <1>1, <1>2, <2>1, <2>3, <2>5, <2>6, <2>7, StepGrows
<1>. QED BY <1>4, <1>5

LEMMA PrefixGrows ==
  ASSUME ParserInv, ParserInv', TreeInv, PrefixOp
  PROVE  TreeInv'
<1>1. /\ mode = "primary" /\ mode' = "primary" /\ Running /\ Running' /\ input' = input
      /\ limit' = limit /\ pos' = SkipFrom(pos) /\ IsPrefixOp
  BY DEF PrefixOp, Running
<1>2. /\ Places /\ Groups /\ Nested /\ Untouched /\ pos \in Nat /\ pos <= limit
      /\ input \in Inputs /\ Top \in Frame /\ Node \subseteq NodeOrNull
      /\ Len(stack) \in Nat /\ Len(stack) # 0 /\ Top = stack[Len(stack)]
      /\ Top.kind # "group" => Len(stack) > 1
  BY <1>1, TreeFacts DEF Places
<1>3. TypeAt(pos) # "FILE_END" /\ TypeAt(pos) = "OPERATOR" /\ IsPrefix(OpAt(pos))
  BY <1>1 DEF IsPrefixOp
<1>4. /\ OpAt(pos) = input[pos].op /\ pos' = pos + 1 /\ pos' <= limit /\ pos < pos'
      /\ pos \in Node /\ pos # 0 /\ pos \in pos..(pos' - 1) /\ pos <= pos'
  BY <1>1, <1>2, <1>3, SkipFacts
<1>5. ~IsComma(pos)
  BY <1>2, <1>3, <1>4, NotComma
<1>6. (\A x : x \notin Holds(0)) /\ \A x : x \notin Holds(0)'
  BY <1>1, HandFacts DEF InHand
<1>0. PICK n : n = Len(stack)
  OBVIOUS
<1>7. CASE Top.kind = "prefix"
  <2>. DEFINE f == PrefixFrame(Top.first, pos)
  <2>1. f \in Frame /\ f.kind = "prefix" /\ f.first = Top.first /\ f.last = pos
    BY <1>0, <1>2, <1>4, <1>7, FrameFacts DEF PrefixFrame, Frame
  <2>2. Replace(f) /\ Link(Top.last, pos)
    BY <1>7 DEF PrefixOp
  <2>. HIDE DEF f
  <2>3. stack'[n] = f
    <3>1. Len(Rest) = n - 1 /\ Rest \in Seq(Frame)
      BY <1>0, <1>2, PopFacts DEF Rest, Places, Groups
    <3>. QED BY <1>0, <1>2, <2>1, <2>2, <3>1, PushFacts DEF Replace
  <2>4. \A x : x \in Holds(n)' <=> x \in Holds(n)
    BY <1>0, <1>2, <1>7, <2>1, <2>3, KeptFacts, KeptThen
  <2>5. \A x \in Holds(n) : x # pos
    <3>1. n \in Slots
      BY <1>0, <1>2 DEF Slots
    <3>2. \A x \in Holds(n) : x \in 1..(pos - 1)
      BY <1>1, <3>1, TreeFacts DEF Rooted, IsOwned
    <3>. QED BY <1>0, <1>2, <3>2
  <2>6. ~HeldTwice(n)'
    BY <2>1, <2>3 DEF HeldTwice
  <2>7. Handing(n - 1, Holds(0) \cup Holds(n), {pos}, {pos})
    BY <1>0, <1>2, <1>4, <1>6, <1>7, <2>1, <2>2, <2>4, <2>5, <2>6, ReplaceHands
  <2>8. Links({pos}, {pos})
    <3>1. Top.last \in NodeOrNull /\ Top.last \in Node
      BY <1>0, <1>2, <1>7, FrameFacts
    <3>2. Top.last < pos
      BY <1>0, <1>2, <1>7, PlaceFacts DEF Untouched
    <3>3. Top.last < pos'
      BY <1>0, <1>4, <3>1, <3>2, PlaceFacts, <1>2
    <3>. QED BY <1>4, <1>5, <2>2, <3>1, <3>3 DEF Links
  <2>9. Nested'
    BY <1>0, <1>1, <1>2, <1>4, <2>1, <2>2, ReplaceNests
  <2>. QED BY <1>1, <1>4, <2>7, <2>8, <2>9, StepGrows
<1>8. CASE Top.kind # "prefix"
  <2>. DEFINE f == PrefixFrame(pos, pos)
  <2>1. f \in Frame /\ f.kind = "prefix" /\ f.first = pos /\ f.last = pos
    BY <1>4 DEF PrefixFrame, Frame
  <2>2. Push(f) /\ kids' = kids
    BY <1>8 DEF PrefixOp
  <2>. HIDE DEF f
  <2>3. stack'[n + 1] = f
    BY <1>0, <2>1, <2>2, <1>2, PushFacts DEF Push, Places
  <2>4. \A x : x \in Holds(n + 1)' <=> x = pos
    BY <1>0, <1>2, <1>4, <2>1, <2>3, KeptThen
  <2>5. ~HeldTwice(n + 1)'
    BY <2>1, <2>3 DEF HeldTwice
  <2>6. Handing(n, Holds(0), {pos}, {})
    BY <1>0, <1>1, <1>2, <1>4, <1>6, <2>1, <2>2, <2>4, <2>5, PushHands DEF WaitingModes
  <2>7. Links({pos}, {})
    BY <1>5, <2>2 DEF Links
  <2>8. Nested'
    BY <1>0, <1>1, <1>2, <1>4, <2>1, <2>2, PushNests
  <2>. QED BY <1>1, <1>4, <2>6, <2>7, <2>8, StepGrows
<1>. QED BY <1>7, <1>8

LEMMA PrefixOperandGrows ==
  ASSUME ParserInv, ParserInv', TreeInv, PrefixOperand
  PROVE  TreeInv'
<1>1. mode = "operand" /\ Top.kind = "prefix" /\ Running
  BY DEF PrefixOperand, Running
<1>2. CASE val = 0
  BY <1>2, EndedKeeps DEF PrefixOperand, Failures
<1>3. CASE val # 0
  <2>1. /\ Link(Top.last, val) /\ val' = Top.first /\ stack' = Rest
        /\ UNCHANGED <<input, pos, limit>> /\ mode' = "operand" /\ Running'
    BY <1>1, <1>3 DEF PrefixOperand, Running
  <2>2. /\ Places /\ Groups /\ Nested /\ Untouched /\ Apart /\ pos \in Nat /\ pos <= limit
        /\ Top \in Frame /\ Node \subseteq NodeOrNull /\ 0 \notin Node
        /\ val \in Node /\ Top.first \in Node /\ Top.last \in Node
        /\ Len(stack) \in Nat /\ Len(stack) > 1 /\ Top = stack[Len(stack)]
    BY <1>1, <1>3, TreeFacts, FrameFacts DEF NodeOrNull
  <2>0. PICK n : n = Len(stack)
    OBVIOUS
  <2>3. \A x : x \in Holds(0) <=> x = val
    BY <1>1, <1>3, HandFacts DEF InHand
  <2>4. \A x : x \in Holds(n) <=> x = Top.first
    BY <2>0, <1>1, <2>2, KeptFacts
  <2>5. \A x : x \in Holds(0)' <=> x = Top.first
    BY <2>0, <2>1, <2>2, HandFacts DEF InHand
  <2>6. val # Top.first
    <3>1. n \in Slots /\ 0 \in Slots /\ n # 0
      BY <2>0, <2>2 DEF Slots
    <3>. QED BY <2>0, <2>2, <2>3, <2>4, <3>1 DEF Apart
  <2>7. Handing(n - 1, Holds(0) \cup Holds(n), {}, {val})
    BY <2>0, <1>1, <2>1, <2>2, <2>3, <2>4, <2>5, <2>6, PopHands DEF WaitingModes
  <2>8. Links({}, {val})
    <3>1. Top.last < pos'
      BY <2>0, <1>1, <2>1, <2>2, PlaceFacts DEF Untouched
    <3>. QED BY <2>0, <2>1, <2>2, <3>1 DEF Links
  <2>9. Nested'
    BY <2>0, <2>1, <2>2, PopNests
  <2>. QED BY <2>0, <1>1, <2>1, <2>2, <2>7, <2>8, <2>9, StepGrows
<1>. QED BY <1>2, <1>3

LEMMA PostfixGrows ==
  ASSUME ParserInv, ParserInv', TreeInv, PostfixOp \/ PostfixDone
  PROVE  TreeInv'
<1>1. mode = "postfix" /\ Running /\ UNCHANGED <<input, limit, stack>>
  BY DEF PostfixOp, PostfixDone, Running
<1>2. /\ Places /\ Groups /\ Nested /\ pos \in Nat /\ pos <= limit /\ input \in Inputs
      /\ val \in NodeOrNull /\ val # 0 /\ Node \subseteq NodeOrNull /\ Rooted
  BY <1>1, TreeFacts DEF Places, Modes
<1>3. \A x : x \in Holds(0) <=> x = val
  BY <1>1, <1>2, HandFacts DEF InHand
<1>4. CASE PostfixOp
  <2>1. /\ Link(pos, val) /\ val' = pos /\ pos' = SkipFrom(pos) /\ mode' = "postfix" /\ Running'
        /\ TypeAt(pos) # "FILE_END"
    BY <1>1, <1>4 DEF PostfixOp, IsPostfixOp, Running
  <2>2. /\ pos' = pos + 1 /\ pos' <= limit /\ pos \in Node /\ pos # 0
        /\ pos \in pos..(pos' - 1) /\ pos <= pos' /\ pos < pos'
    BY <1>2, <2>1, SkipFacts
  <2>3. \A x : x \in Holds(0)' <=> x = pos
    BY <2>1, <2>2, HandFacts DEF InHand
  <2>4. val < pos /\ val # pos /\ val \in Node
    <3>1. val \in 1..(pos - 1)
      <4>1. 0 \in Slots
        BY PlaceFacts, <1>2 DEF Slots
      <4>. QED BY <1>2, <1>3, <4>1 DEF Rooted, IsOwned
    <3>. QED BY <1>2, <3>1 DEF NodeOrNull
  <2>5. Handing(Len(stack), Holds(0), {pos}, {val})
    BY <1>1, <1>2, <1>3, <2>1, <2>2, <2>3, <2>4, StayHands DEF WaitingModes
  <2>6. Links({pos}, {val})
    BY <1>2, <2>1, <2>2, <2>4 DEF Links
  <2>7. Nested'
    BY <1>1, <1>2, <2>2, NestedKeeps
  <2>. QED BY <1>1, <1>2, <2>1, <2>2, <2>5, <2>6, <2>7, StepGrows
<1>5. CASE PostfixDone
  <2>1. mode' = "operand" /\ UNCHANGED <<pos, kids, val>> /\ Running'
    BY <1>5 DEF PostfixDone, Running
  <2>2. \A x : x \in Holds(0)' <=> x = val
    BY <1>2, <2>1, HandFacts DEF InHand
  <2>3. Handing(Len(stack), Holds(0), {}, {})
    BY <1>1, <1>2, <1>3, <2>1, <2>2, StayHands DEF WaitingModes
  <2>4. Links({}, {})
    BY <2>1 DEF Links
  <2>5. Nested'
    BY <1>1, <1>2, <2>1, NestedKeeps
  <2>. QED BY <1>1, <1>2, <2>1, <2>3, <2>4, <2>5, StepGrows
<1>. QED BY <1>4, <1>5

\* A group is not closed where it is opened, and it closes at a bracket.
LEMMA CloseFacts ==
  ASSUME Places, Groups, Nested, TypeAt(pos) \in {"PAREN_LEFT", "CALL_BEGIN"},
         NEW close \in GroupEnds(pos)
  PROVE  /\ pos \in Node /\ close \in Node /\ pos < close /\ close < limit /\ pos \in Nat
         /\ close \in Nat /\ pos + 1 <= close
         /\ input[close].type # "OPERATOR" /\ input[pos].type = TypeAt(pos)
<1>1. /\ pos \in Node /\ pos \in Nat /\ limit \in Nat /\ limit \in Node
      /\ Node = 1..Len(input) /\ Len(input) \in Nat
  BY PlaceFacts
<1>2. close \in pos..(limit - 1) /\ Closed(pos, close)
      /\ \A r \in pos..(close - 1) : ~Closed(pos, r)
  BY DEF GroupEnds
<1>. DEFINE open == TypeAt(pos)
            shut == CloserOf[open]
<1>3. open # shut /\ open # "OPERATOR" /\ shut # "OPERATOR"
  BY DEF CloserOf, OpenTypes
<1>. HIDE DEF open, shut
<1>4. close # pos
  <2>. SUFFICES ASSUME close = pos PROVE FALSE
    OBVIOUS
  <2>1. OfType(pos, pos, open) = {pos}
    BY <1>1 DEF OfType, open
  <2>2. OfType(pos, pos, shut) = {}
    BY <1>1, <1>3 DEF OfType, open
  <2>3. Cardinality({pos}) = 1 /\ Cardinality({}) = 0
    BY FS_Singleton, FS_EmptySet
  <2>. QED BY <1>2, <2>1, <2>2, <2>3 DEF Closed, open, shut
<1>5. close \in Nat /\ pos < close /\ close < limit /\ pos + 1 <= close
  BY <1>1, <1>2, <1>4
<1>6. TypeAt(close) \in {open, shut}
  <2>. SUFFICES ASSUME TypeAt(close) \notin {open, shut} PROVE FALSE
    OBVIOUS
  <2>1. \A q \in pos..close : q = close \/ q \in pos..(close - 1)
    BY <1>1, <1>5
  <2>2. \A q \in pos..(close - 1) : q \in pos..close
    BY <1>1, <1>5
  <2>3. OfType(pos, close, open) = OfType(pos, close - 1, open)
    BY <2>1, <2>2 DEF OfType
  <2>4. OfType(pos, close, shut) = OfType(pos, close - 1, shut)
    BY <2>1, <2>2 DEF OfType
  <2>5. Closed(pos, close - 1)
    BY <1>2, <2>3, <2>4 DEF Closed, open, shut
  <2>6. close - 1 \in pos..(close - 1)
    BY <1>1, <1>5
  <2>. QED BY <1>2, <2>5, <2>6
<1>7. close \in Node
  BY <1>1, <1>5
<1>8. input[close].type # "OPERATOR"
  <2>1. close # limit
    BY <1>1, <1>5
  <2>. QED BY <2>1, <1>3, <1>6 DEF TypeAt
<1>9. input[pos].type = TypeAt(pos)
  BY DEF TypeAt
<1>. QED BY <1>1, <1>5, <1>7, <1>8, <1>9

LEMMA EnterGroupGrows ==
  ASSUME ParserInv, ParserInv', TreeInv, mode \in {"primary", "postfix"},
         TypeAt(pos) \in {"PAREN_LEFT", "CALL_BEGIN"},
         NEW callee, callee = 0 \/ (mode = "postfix" /\ callee = val),
         TypeAt(pos) = "CALL_BEGIN" => callee # 0,
         NEW close \in GroupEnds(pos), EnterGroup(callee, close)
  PROVE  TreeInv'
<1>0. PICK n : n = Len(stack)
  OBVIOUS
<1>. DEFINE f == GroupFrame(pos, callee)
<1>1. /\ Running /\ Push(f) /\ pos' = pos + 1 /\ limit' = close /\ val' = 0 /\ mode' = "primary"
      /\ UNCHANGED <<input, kids>> /\ Running'
  BY DEF EnterGroup, Running
<1>2. /\ Places /\ Groups /\ Nested /\ Rooted /\ input \in Inputs /\ Node \subseteq NodeOrNull
      /\ n \in Nat /\ n # 0 /\ 0 \notin Node /\ 0 \in NodeOrNull /\ val \in NodeOrNull
      /\ limit \in Node /\ limit \in Nat /\ stack \in Seq(Frame)
  BY <1>0, <1>1, TreeFacts, PlaceFacts DEF Places
<1>3. /\ pos \in Node /\ close \in Node /\ pos < close /\ close < limit /\ pos \in Nat
      /\ close \in Nat /\ pos + 1 <= close
      /\ input[close].type # "OPERATOR" /\ input[pos].type = TypeAt(pos)
  BY <1>2, CloseFacts
<1>4. f \in Frame /\ f.kind = "group" /\ f.begin = pos /\ f.callee = callee /\ f.limit = limit
  BY <1>2, <1>3 DEF GroupFrame, Frame
<1>. HIDE DEF f
<1>5. /\ stack'[n + 1] = f /\ DOMAIN stack = 1..n /\ DOMAIN stack' = 1..(n + 1)
      /\ \A i \in 1..n : stack'[i] = stack[i]
  BY <1>0, <1>1, <1>2, <1>4, PushFacts DEF Push
<1>6. \A x : x \notin Holds(0)'
  BY <1>1, HandFacts DEF InHand
<1>7. callee # 0 => callee \in Holds(0) /\ callee \in 1..(pos - 1)
  <2>1. callee # 0 => callee \in Holds(0)
    BY HandFacts DEF InHand
  <2>2. 0 \in Slots
    BY <1>0, <1>2 DEF Slots
  <2>. QED BY <2>1, <2>2, <1>2 DEF Rooted, IsOwned
<1>8. \A x : x \in Holds(n + 1)' <=> x # 0 /\ (x = pos \/ x = callee)
  BY <1>2, <1>4, <1>5, KeptThen
<1>9. ~HeldTwice(n + 1)'
  <2>1. callee # pos
    BY <1>2, <1>3, <1>7
  <2>. QED BY <1>4, <1>5, <2>1 DEF HeldTwice
<1>10. pos \in pos..(pos' - 1) /\ pos <= pos'
  BY <1>1, <1>3
<1>11. Handing(n, Holds(0), {pos}, {})
  BY <1>0, <1>1, <1>2, <1>4, <1>6, <1>7, <1>8, <1>9, <1>10, PushHands DEF WaitingModes
<1>12. Links({pos}, {})
  <2>1. ~IsComma(pos)
    BY <1>2, <1>3, NotComma
  <2>. QED BY <1>1, <2>1 DEF Links
<1>13. Nested'
  <2>1. pos' <= limit' /\ input'[limit'].type # "OPERATOR" /\ input[limit].type # "OPERATOR"
    BY <1>1, <1>2, <1>3 DEF Nested
  <2>2. \A i \in 1..n : IsGroup(i)' = IsGroup(i)
    BY <1>5 DEF IsGroup
  <2>3. \A i \in 1..(n + 1) : i = n + 1 \/ i \in 1..n
    BY <1>2
  <2>4. \A i \in 1..n : IsGroup(i) =>
          /\ limit < stack[i].limit /\ stack[i].limit \in Nat
          /\ input[stack[i].limit].type # "OPERATOR" /\ CalleeKept(i)
    <3>1. \A m \in Node : m \in Nat
      BY <1>2, PlaceFacts
    <3>. QED BY <1>2, <1>5, <3>1 DEF Nested, Groups
  <2>5. ASSUME NEW i \in 1..(n + 1), IsGroup(i)'
        PROVE  /\ limit' < stack'[i].limit /\ input'[stack'[i].limit].type # "OPERATOR"
               /\ CalleeKept(i)'
    <3>1. CASE i = n + 1
      BY <3>1, <2>1, <1>1, <1>3, <1>4, <1>5 DEF CalleeKept
    <3>2. CASE i \in 1..n
      <4>1. limit < stack[i].limit /\ stack[i].limit \in Nat
            /\ input[stack[i].limit].type # "OPERATOR" /\ CalleeKept(i)
        BY <3>2, <2>2, <2>4, <2>5
      <4>. QED BY <4>1, <3>2, <1>1, <1>2, <1>3, <1>5 DEF CalleeKept
    <3>. QED BY <2>3, <3>1, <3>2
  <2>6. ASSUME NEW i \in 1..(n + 1), NEW j \in 1..(n + 1), i < j, IsGroup(i)', IsGroup(j)'
        PROVE  stack'[j].limit < stack'[i].limit
    <3>1. i \in 1..n
      BY <2>6, <1>2
    <3>2. CASE j = n + 1
      BY <3>1, <3>2, <2>2, <2>4, <2>6, <1>4, <1>5
    <3>3. CASE j \in 1..n
      BY <3>1, <3>3, <2>2, <2>6, <1>2, <1>5 DEF Nested
    <3>. QED BY <2>3, <3>2, <3>3
  <2>. QED BY <2>1, <2>5, <2>6, <1>5 DEF Nested
<1>. QED BY <1>1, <1>10, <1>11, <1>12, <1>13, StepGrows

\* What is handed around and what the topmost invocation holds.
LEMMA HeldFacts ==
  ASSUME Places, Groups, Rooted, Apart, NEW n, n = Len(stack)
  PROVE  /\ \A x : x \in Holds(0) \/ x \in Holds(n) =>
              x \in Node /\ x \in Nat /\ x < pos /\ ~IsChild(x)
         /\ \A x : x \in Holds(0) => x \notin Holds(n)
         /\ ~HeldTwice(n)
<1>1. /\ n \in Nat /\ n # 0 /\ 0 \in Slots /\ n \in Slots /\ n \in DOMAIN stack
      /\ pos \in Nat /\ pos \in Node /\ Node = 1..Len(input) /\ Len(input) \in Nat
  BY PlaceFacts DEF Slots
<1>2. \A x : x \in Holds(0) \/ x \in Holds(n) => x \in 1..(pos - 1) /\ ~IsChild(x)
  BY <1>1 DEF Rooted, IsOwned
<1>3. \A x \in 1..(pos - 1) : x \in Node /\ x \in Nat /\ x < pos
  BY <1>1
<1>4. Holds(0) \cap Holds(n) = {}
  BY <1>1 DEF Apart
<1>5. ~HeldTwice(n)
  BY <1>1 DEF Apart
<1>. QED BY <1>2, <1>3, <1>4, <1>5

LEMMA ImplUpdate ==
  ASSUME NEW f \in Frame, f.kind = "impl", NEW n \in NodeOrNull
  PROVE  /\ [f EXCEPT !.op = n].last = f.last
         /\ [f EXCEPT !.base = n, !.last = n].last = n
         /\ [f EXCEPT !.last = n].last = n
BY DEF Frame

LEMMA ExpressionGrows ==
  ASSUME ParserInv, ParserInv', TreeInv, EmptyExpression \/ FirstOperand
  PROVE  TreeInv'
<1>1. mode = "operand" /\ Top.kind = "group" /\ Running
  BY DEF EmptyExpression, FirstOperand, Running
<1>2. PICK n : n = Len(stack)
  OBVIOUS
<1>3. /\ Places /\ Groups /\ Nested /\ pos \in Nat /\ pos > 0 /\ pos <= limit /\ 0 \in NodeOrNull
      /\ n \in Nat /\ n # 0 /\ stack \in Seq(Frame) /\ Top = stack[n]
  BY <1>1, <1>2, TreeFacts DEF Places
<1>4. CASE EmptyExpression
  <2>1. PICK throwIfEmpty \in BOOLEAN :
          IF throwIfEmpty THEN Ended("internal")
          ELSE mode' = "value" /\ UNCHANGED <<input, pos, limit, kids, stack, val>>
    BY <1>4 DEF EmptyExpression
  <2>2. CASE throwIfEmpty
    BY <2>1, <2>2, EndedKeeps DEF Failures
  <2>3. CASE ~throwIfEmpty
    <3>1. mode' = "value" /\ UNCHANGED <<input, pos, limit, kids, stack, val>> /\ Running'
      BY <2>1, <2>3 DEF Running
    <3>2. \A x : x \in Holds(0)' <=> x \in Holds(0)
      BY <1>1, <3>1, HandFacts DEF InHand
    <3>3. Handing(Len(stack), Holds(0), {}, {})
      BY <1>1, <1>3, <3>1, <3>2, StayHands DEF WaitingModes
    <3>4. Links({}, {})
      BY <3>1 DEF Links
    <3>5. Nested'
      BY <1>3, <3>1, NestedKeeps
    <3>. QED BY <1>1, <1>3, <3>1, <3>3, <3>4, <3>5, StepGrows
  <2>. QED BY <2>2, <2>3
<1>5. CASE FirstOperand
  <2>. DEFINE f == ImplFrame(0, 0, 0, 0)
  <2>1. f \in Frame /\ f.kind = "impl" /\ f.base = 0 /\ f.op = 0 /\ f.last = 0
    BY <1>3 DEF ImplFrame, Frame
  <2>2. Push(f) /\ mode' = "loop" /\ UNCHANGED <<input, pos, limit, kids, val>> /\ Running'
    BY <1>5 DEF FirstOperand, Running
  <2>. HIDE DEF f
  <2>3. stack'[n + 1] = f /\ Len(stack') = n + 1
    BY <1>2, <1>3, <2>1, <2>2, PushFacts DEF Push
  <2>4. ~Waits(n + 1)'
    BY <2>2, <2>3 DEF Waits
  <2>5. \A x : x \notin Holds(n + 1)'
    BY <1>3, <2>1, <2>3, KeptThen
  <2>6. ~HeldTwice(n + 1)'
    BY <2>1, <2>3, <2>4 DEF HeldTwice
  <2>7. \A x : x \in Holds(0)' <=> x \in Holds(0)
    BY <1>1, <2>2, HandFacts DEF InHand
  <2>8. Handing(n, Holds(0), {}, {})
    BY <1>1, <1>2, <1>3, <2>1, <2>2, <2>5, <2>6, <2>7, PushHands
  <2>9. Links({}, {})
    BY <2>2 DEF Links
  <2>10. Nested'
    BY <1>3, <2>1, <2>2, PushNests
  <2>. QED BY <1>1, <1>3, <2>2, <2>8, <2>9, <2>10, StepGrows
<1>. QED BY <1>4, <1>5

LEMMA ShiftGrows ==
  ASSUME ParserInv, ParserInv', TreeInv, Shift
  PROVE  TreeInv'
<1>1. mode = "loop" /\ IsBinaryOp /\ Running
  BY DEF Shift, Running
<1>2. PICK n : n = Len(stack)
  OBVIOUS
<1>3. /\ Places /\ Groups /\ Nested /\ Apart /\ Rooted /\ Untouched /\ Modes
      /\ pos \in Nat /\ pos > 0 /\ pos <= limit /\ Node \subseteq NodeOrNull
      /\ n \in Nat /\ n # 0 /\ stack \in Seq(Frame) /\ Top = stack[n] /\ Top \in Frame
  BY <1>1, <1>2, TreeFacts DEF Places
<1>4. Top.kind = "impl" /\ val # 0 /\ n > 1
  BY <1>1, <1>2, <1>3, StackFacts DEF Modes
<1>. DEFINE f == [Top EXCEPT !.op = pos]
<1>5. /\ Replace(f) /\ Link(pos, val) /\ pos' = SkipFrom(pos) /\ mode' = "primary"
      /\ UNCHANGED <<input, limit, val>> /\ Running'
  BY <1>4 DEF Shift, Running
<1>6. /\ pos' = pos + 1 /\ pos' <= limit /\ pos \in Node /\ pos # 0
      /\ pos \in pos..(pos' - 1) /\ pos <= pos' /\ pos < pos'
  <2>1. TypeAt(pos) # "FILE_END"
    BY <1>1 DEF IsBinaryOp
  <2>. QED BY <1>3, <1>5, <2>1, SkipFacts
<1>7. f \in Frame /\ f.kind = "impl" /\ f.op = pos /\ f.base = Top.base /\ f.last = Top.last
  BY <1>3, <1>4, <1>6, OpUpdate, ImplUpdate
<1>. HIDE DEF f
<1>8. stack'[n] = f /\ Len(stack') = n
  BY <1>2, <1>3, <1>5, <1>7, ReplaceFacts DEF Replace, Rest, Groups
<1>9. ~Waits(n) /\ Waits(n)'
  BY <1>1, <1>2, <1>5, <1>7, <1>8 DEF Waits
<1>10. /\ \A x : x \in Holds(0) <=> x = val
       /\ \A x : x \notin Holds(0)'
  BY <1>1, <1>4, <1>5, HandFacts DEF InHand
<1>11. /\ \A x : x \in Holds(n) <=> x # 0 /\ x = Top.base
       /\ \A x : x \in Holds(n)' <=> x # 0 /\ (x = Top.base \/ x = pos)
  BY <1>3, <1>4, <1>7, <1>8, <1>9, KeptFacts, KeptThen
<1>12. /\ val \in Node /\ val < pos /\ val # pos
       /\ Top.base # 0 => Top.base # val /\ Top.base < pos
  BY <1>2, <1>3, <1>4, <1>10, <1>11, HeldFacts
<1>13. ~HeldTwice(n)'
  <2>1. Top.base # pos
    BY <1>3, <1>6, <1>12
  <2>. QED BY <2>1, <1>7, <1>8 DEF HeldTwice
<1>14. f.last < pos'
  <2>1. Top.last < pos /\ Top.last \in NodeOrNull
    BY <1>2, <1>3, <1>4, FrameFacts, PlaceFacts DEF Untouched
  <2>2. Top.last \in Nat
    BY <2>1, <1>3, PlaceFacts DEF NodeOrNull
  <2>. QED BY <2>1, <2>2, <1>3, <1>6, <1>7
<1>15. Handing(n - 1, Holds(0) \cup Holds(n), {pos}, {val})
  <2>1. \A x \in Holds(n)' : (x \in Holds(0) \cup Holds(n) \/ x \in {pos}) /\ x \notin {val}
    BY <1>11, <1>12
  <2>2. \A x \in {val} : x \in Holds(0) \cup Holds(n) \/ x \in {pos}
    BY <1>10
  <2>. QED BY <1>2, <1>3, <1>4, <1>5, <1>6, <1>7, <1>10, <1>13, <1>14, <2>1, <2>2, ReplaceHands
<1>16. Links({pos}, {val})
  BY <1>3, <1>5, <1>6, <1>12 DEF Links
<1>17. Nested'
  BY <1>3, <1>5, <1>6, <1>7, ReplaceNests
<1>. QED BY <1>1, <1>5, <1>6, <1>15, <1>16, <1>17, StepGrows

LEMMA RegroupGrows ==
  ASSUME ParserInv, ParserInv', TreeInv, Regroup
  PROVE  TreeInv'
<1>1. mode = "operand" /\ Top.kind = "impl" /\ IsBinaryOp /\ Running
  BY DEF Regroup, TakesTree, Running
<1>2. PICK n : n = Len(stack)
  OBVIOUS
<1>3. /\ Places /\ Groups /\ Nested /\ Apart /\ Rooted /\ Untouched /\ Modes /\ OperatorsAllowed
      /\ pos \in Nat /\ pos > 0 /\ pos <= limit /\ Node \subseteq NodeOrNull /\ 0 \in NodeOrNull
      /\ n \in Nat /\ n # 0 /\ stack \in Seq(Frame) /\ Top = stack[n] /\ Top \in Frame
      /\ DOMAIN stack = 1..n /\ n - 1 \in Nat
  BY <1>1, <1>2, TreeFacts, PlaceFacts DEF Places
<1>4. val # 0 /\ Top.op # 0
  BY <1>1, <1>3, TopTookOperator DEF Modes
<1>. DEFINE f == ImplFrame(0, 0, 0, MinPrecedence)
<1>5. /\ Push(f) /\ Link(Top.op, val) /\ val' = Top.op /\ mode' = "loop"
      /\ UNCHANGED <<input, pos, limit>> /\ Running'
  BY <1>4 DEF Regroup, Running
<1>6. f \in Frame /\ f.kind = "impl" /\ f.base = 0 /\ f.op = 0 /\ f.last = 0
  <2>1. CurPrec \in Nat
    BY <1>1, <1>3, BinaryFacts
  <2>. QED BY <1>3, <2>1 DEF ImplFrame, Frame, MinPrecedence
<1>. HIDE DEF f
<1>7. /\ stack'[n + 1] = f /\ Len(stack') = n + 1
      /\ \A i \in 1..n : stack'[i] = stack[i]
  BY <1>2, <1>3, <1>5, <1>6, PushFacts DEF Push
<1>8. stack'[n] = Top /\ n # n + 1
  BY <1>3, <1>7
<1>9. Waits(n) /\ ~Waits(n)' /\ ~Waits(n + 1)'
  <2>1. Waits(n)
    BY <1>1, <1>2, <1>3 DEF Waits
  <2>2. ~Waits(n)'
    BY <1>6, <1>7, <1>8 DEF Waits
  <2>3. ~Waits(n + 1)'
    BY <1>5, <1>7 DEF Waits
  <2>. QED BY <2>1, <2>2, <2>3
<1>10. /\ \A x : x \in Holds(0) <=> x = val
       /\ \A x : x \in Holds(0)' <=> x = Top.op
  BY <1>1, <1>4, <1>5, HandFacts DEF InHand
<1>11. /\ \A x : x \in Holds(n) <=> x # 0 /\ (x = Top.base \/ x = Top.op)
       /\ \A x : x \in Holds(n)' <=> x # 0 /\ x = Top.base
       /\ \A x : x \notin Holds(n + 1)'
  <2>1. \A x : x \in Holds(n) <=> x # 0 /\ (x = Top.base \/ x = Top.op)
    BY <1>1, <1>3, <1>9, KeptFacts
  <2>2. \A x : x \in Holds(n)' <=> x # 0 /\ x = Top.base
    BY <1>1, <1>3, <1>8, <1>9, KeptThen
  <2>3. \A x : x \notin Holds(n + 1)'
    BY <1>3, <1>6, <1>7, <1>9, KeptThen
  <2>. QED BY <2>1, <2>2, <2>3
<1>12. /\ val \in Node /\ Top.op \in Node /\ Top.op < pos
       /\ Top.op # val /\ Top.base # Top.op /\ (Top.base # 0 => Top.base # val)
  <2>1. Top.base # Top.op
    BY <1>1, <1>2, <1>3, <1>9, HeldFacts DEF HeldTwice
  <2>. QED BY <1>2, <1>3, <1>4, <1>10, <1>11, <2>1, HeldFacts
<1>13. ~HeldTwice(n)' /\ ~HeldTwice(n + 1)'
  BY <1>1, <1>6, <1>7, <1>8, <1>9 DEF HeldTwice
<1>14. Top.last < pos'
  BY <1>1, <1>3, <1>5 DEF Untouched
<1>15. Handing(n - 1, Holds(0) \cup Holds(n), {}, {val})
  <2>1. \A i \in 1..(n - 1) : stack'[i] = stack[i]
    BY <1>3, <1>7
  <2>2. n - 1 # 0 => Waits(n - 1)' = Waits(n - 1)
    <3>1. (n - 1) + 1 = n /\ n - 1 # n /\ n - 1 # n + 1
      BY <1>3
    <3>2. n - 1 # 0 => stack'[n - 1] = stack[n - 1]
      BY <1>3, <1>7
    <3>. QED BY <1>2, <1>3, <1>7, <1>8, <3>1, <3>2 DEF Waits
  <2>3. /\ ((n - 1) + 1)..(n + 1) = {n, n + 1} /\ ((n - 1) + 1)..n = {n}
        /\ n - 1 <= n /\ n - 1 <= n + 1 /\ n + 1 # 0
    BY <1>3
  <2>4. \A i \in {n, n + 1} :
          ~HeldTwice(i)' /\ (stack'[i].kind # "group" => stack'[i].last < pos')
    BY <1>3, <1>5, <1>6, <1>7, <1>8, <1>13, <1>14
  <2>5. \A i \in {0} \cup {n, n + 1} : \A x \in Holds(i)' :
          x \in Holds(0) \cup Holds(n) /\ x \notin {val}
    BY <1>4, <1>10, <1>11, <1>12
  <2>6. \A i, j \in {0} \cup {n, n + 1} : i # j => Holds(i)' \cap Holds(j)' = {}
    BY <1>10, <1>11, <1>12
  <2>. QED BY <1>2, <1>3, <1>7, <1>10, <2>1, <2>2, <2>3, <2>4, <2>5, <2>6 DEF Handing
<1>16. Links({}, {val})
  BY <1>3, <1>5, <1>12 DEF Links
<1>17. Nested'
  <2>1. \A i \in DOMAIN stack' : i = n + 1 \/ i \in 1..n
    BY <1>2, <1>3, <1>5, <1>6, PushFacts DEF Push
  <2>. QED BY <1>3, <1>5, <1>6, <1>7, <2>1, NestedKeeps
<1>. QED BY <1>1, <1>3, <1>5, <1>15, <1>16, <1>17, StepGrows

LEMMA ResumeGrows ==
  ASSUME ParserInv, ParserInv', TreeInv, Resume
  PROVE  TreeInv'
<1>1. mode = "value" /\ Top.kind = "impl" /\ Running
  BY DEF Resume, Running
<1>2. PICK n : n = Len(stack)
  OBVIOUS
<1>3. /\ Places /\ Groups /\ Nested /\ Apart /\ Rooted /\ Untouched /\ Modes
      /\ pos \in Nat /\ pos > 0 /\ pos <= limit /\ Node \subseteq NodeOrNull
      /\ n \in Nat /\ n # 0 /\ stack \in Seq(Frame) /\ Top = stack[n] /\ Top \in Frame
      /\ val \in NodeOrNull
  BY <1>1, <1>2, TreeFacts DEF Places
<1>4. val # 0 /\ n > 1
  BY <1>1, <1>2, <1>3, StackFacts DEF Modes
<1>. DEFINE f == [Top EXCEPT !.op = val]
<1>5. /\ Replace(f) /\ val' = 0 /\ mode' = "operand"
      /\ UNCHANGED <<input, pos, limit, kids>> /\ Running'
  BY DEF Resume, Result, Running
<1>6. f \in Frame /\ f.kind = "impl" /\ f.op = val /\ f.base = Top.base /\ f.last = Top.last
  BY <1>1, <1>3, OpUpdate, ImplUpdate
<1>. HIDE DEF f
<1>7. stack'[n] = f /\ Len(stack') = n
  BY <1>2, <1>3, <1>5, <1>6, ReplaceFacts DEF Replace, Rest, Groups
<1>8. ~Waits(n)
  BY <1>1, <1>2 DEF Waits
<1>9. /\ \A x : x \in Holds(0) <=> x = val
      /\ \A x : x \notin Holds(0)'
  BY <1>1, <1>4, <1>5, HandFacts DEF InHand
<1>10. /\ \A x : x \in Holds(n) <=> x # 0 /\ x = Top.base
       /\ \A x \in Holds(n)' : x # 0 /\ (x = Top.base \/ x = val)
  BY <1>1, <1>3, <1>6, <1>7, <1>8, KeptFacts, KeptThen
<1>11. Top.base # val
  BY <1>2, <1>3, <1>4, <1>9, <1>10, HeldFacts
<1>12. ~HeldTwice(n)'
  BY <1>6, <1>7, <1>11 DEF HeldTwice
<1>13. f.last < pos'
  BY <1>1, <1>2, <1>3, <1>5, <1>6, PlaceFacts DEF Untouched
<1>14. Handing(n - 1, Holds(0) \cup Holds(n), {}, {})
  <2>1. \A x \in Holds(n)' : (x \in Holds(0) \cup Holds(n) \/ x \in {}) /\ x \notin {}
    BY <1>9, <1>10
  <2>. QED BY <1>1, <1>2, <1>4, <1>3, <1>5, <1>6, <1>9, <1>12, <1>13, <2>1, ReplaceHands
<1>15. Links({}, {})
  BY <1>5 DEF Links
<1>16. Nested'
  BY <1>3, <1>5, <1>6, ReplaceNests
<1>. QED BY <1>1, <1>3, <1>5, <1>14, <1>15, <1>16, StepGrows

LEMMA AttachGrows ==
  ASSUME ParserInv, ParserInv', TreeInv, Attach
  PROVE  TreeInv'
<1>1. mode = "operand" /\ Top.kind = "impl" /\ Running
  BY DEF Attach, Running
<1>2. PICK n : n = Len(stack)
  OBVIOUS
<1>3. /\ Places /\ Groups /\ Nested /\ Apart /\ Rooted /\ Untouched /\ OperatorsAllowed
      /\ pos \in Nat /\ pos > 0 /\ pos <= limit /\ Node \subseteq NodeOrNull
      /\ n \in Nat /\ n # 0 /\ stack \in Seq(Frame) /\ Top = stack[n] /\ Top \in Frame
      /\ n > 1 /\ Top.op \in NodeOrNull
  BY <1>1, <1>2, TreeFacts, FrameFacts DEF Places
<1>4. Top.op # 0
  BY <1>1, <1>3, TopTookOperator
<1>. DEFINE f == IF Top.base = 0 THEN [Top EXCEPT !.base = Top.op, !.last = Top.op]
                 ELSE [Top EXCEPT !.last = Top.op]
<1>5. /\ Replace(f) /\ mode' = "loop" /\ UNCHANGED <<input, pos, limit, val>> /\ Running'
      /\ IF Top.base = 0 THEN kids' = kids ELSE Link(Top.last, Top.op)
  BY DEF Attach, LastExpr, Running
<1>6. /\ f \in Frame /\ f.kind = "impl" /\ f.last = Top.op
      /\ f.base = IF Top.base = 0 THEN Top.op ELSE Top.base
  <2>. DEFINE g == [Top EXCEPT !.base = Top.op, !.last = Top.op]
              h == [Top EXCEPT !.last = Top.op]
  <2>1. g \in Frame /\ g.kind = "impl" /\ g.base = Top.op /\ g.last = Top.op
    BY <1>1, <1>3, BaseUpdate, ImplUpdate
  <2>2. h \in Frame /\ h.kind = "impl" /\ h.base = Top.base /\ h.last = Top.op
    BY <1>1, <1>3, LastUpdate, ImplUpdate
  <2>3. f = IF Top.base = 0 THEN g ELSE h
    OBVIOUS
  <2>. HIDE DEF g, h, f
  <2>. QED BY <2>1, <2>2, <2>3
<1>. HIDE DEF f
<1>7. stack'[n] = f /\ Len(stack') = n
  BY <1>2, <1>3, <1>5, <1>6, ReplaceFacts DEF Replace, Rest, Groups
<1>8. Waits(n) /\ ~Waits(n)'
  BY <1>1, <1>2, <1>3, <1>5, <1>7 DEF Waits
<1>9. \A x : x \in Holds(0)' <=> x \in Holds(0)
  BY <1>1, <1>5, HandFacts DEF InHand
<1>10. /\ \A x : x \in Holds(n) <=> x # 0 /\ (x = Top.base \/ x = Top.op)
       /\ \A x : x \in Holds(n)' <=> x # 0 /\ x = f.base
  BY <1>1, <1>3, <1>6, <1>7, <1>8, KeptFacts, KeptThen
<1>11. /\ Top.op \in Node /\ Top.op < pos /\ Top.base # Top.op
       /\ \A x \in Holds(0) : x \notin Holds(n) /\ x # Top.op
  <2>1. Top.base # Top.op
    BY <1>1, <1>2, <1>3, <1>8, HeldFacts DEF HeldTwice
  <2>. QED BY <1>2, <1>3, <1>4, <1>10, <2>1, HeldFacts
<1>12. ~HeldTwice(n)'
  BY <1>6, <1>7, <1>8 DEF HeldTwice
<1>13. f.last < pos' /\ Top.last < pos' /\ Top.last \in NodeOrNull
  BY <1>1, <1>2, <1>3, <1>5, <1>6, <1>11, PlaceFacts, FrameFacts DEF Untouched
<1>. DEFINE linked == IF Top.base = 0 THEN {} ELSE {Top.op}
<1>14. Handing(n - 1, Holds(0) \cup Holds(n), {}, linked)
  <2>1. \A x \in Holds(n)' : (x \in Holds(0) \cup Holds(n) \/ x \in {}) /\ x \notin linked
    BY <1>4, <1>6, <1>10, <1>11
  <2>2. \A x \in Holds(0)' : (x \in Holds(0) \cup Holds(n) \/ x \in {}) /\ x \notin linked
    BY <1>9, <1>11
  <2>3. \A x \in Holds(0)' : x \notin Holds(n)'
    BY <1>6, <1>9, <1>10, <1>11
  <2>4. \A x \in linked : x \in Holds(0) \cup Holds(n) \/ x \in {}
    BY <1>4, <1>10
  <2>. HIDE DEF linked
  <2>. QED BY <1>1, <1>2, <1>3, <1>5, <1>6, <1>12, <1>13, <2>1, <2>2, <2>3, <2>4, ReplaceHands
<1>15. Links({}, linked)
  <2>1. CASE Top.base = 0
    BY <2>1, <1>5 DEF Links
  <2>2. CASE Top.base # 0
    BY <2>2, <1>5, <1>11, <1>13 DEF Links
  <2>. QED BY <2>1, <2>2
<1>16. Nested'
  BY <1>3, <1>5, <1>6, ReplaceNests
<1>. HIDE DEF linked
<1>. QED BY <1>1, <1>3, <1>5, <1>14, <1>15, <1>16, StepGrows

LEMMA ReturnGrows ==
  ASSUME ParserInv, ParserInv', TreeInv, Return
  PROVE  TreeInv'
<1>1. mode = "loop" /\ Running
  BY DEF Return, Running
<1>2. PICK n : n = Len(stack)
  OBVIOUS
<1>3. /\ Places /\ Groups /\ Nested /\ Apart /\ Rooted /\ Untouched /\ Modes
      /\ pos \in Nat /\ pos > 0 /\ pos <= limit /\ Node \subseteq NodeOrNull
      /\ n \in Nat /\ n # 0 /\ stack \in Seq(Frame) /\ Top = stack[n] /\ Top \in Frame
      /\ 0 \notin Node
  BY <1>1, <1>2, TreeFacts DEF Places
<1>4. Top.kind = "impl" /\ (Top.base = 0 => val # 0) /\ n > 1
  BY <1>1, <1>2, <1>3, StackFacts DEF Modes
<1>5. /\ IF Top.base # 0 /\ val # 0 THEN Link(Top.last, val) ELSE kids' = kids
      /\ val' = (IF Top.base = 0 THEN val ELSE Top.base)
      /\ stack' = Rest /\ mode' = "value" /\ UNCHANGED <<input, pos, limit>> /\ Running'
  BY DEF Return, Running
<1>6. ~Waits(n)
  BY <1>1, <1>2 DEF Waits
<1>7. /\ \A x : x \in Holds(0) <=> x # 0 /\ x = val
      /\ \A x : x \in Holds(0)' <=> x # 0 /\ x = val'
      /\ \A x : x \in Holds(n) <=> x # 0 /\ x = Top.base
  <2>1. \A x : x \in Holds(n) <=> x # 0 /\ x = Top.base
    BY <1>3, <1>4, <1>6, KeptFacts
  <2>. QED BY <1>1, <1>5, <2>1, HandFacts DEF InHand
<1>8. val # 0 => val \in Node /\ val # Top.base
  BY <1>2, <1>3, <1>7, HeldFacts
<1>9. Top.last < pos' /\ Top.last \in NodeOrNull
  BY <1>2, <1>3, <1>4, <1>5, PlaceFacts, FrameFacts DEF Untouched
<1>. DEFINE linked == IF Top.base # 0 /\ val # 0 THEN {val} ELSE {}
<1>10. Handing(n - 1, Holds(0) \cup Holds(n), {}, linked)
  <2>1. \A x \in Holds(0)' : (x \in Holds(0) \cup Holds(n) \/ x \in {}) /\ x \notin linked
    BY <1>5, <1>7, <1>8
  <2>2. \A x \in linked : x \in Holds(0) \cup Holds(n) \/ x \in {}
    BY <1>7
  <2>. HIDE DEF linked
  <2>. QED BY <1>2, <1>3, <1>4, <1>5, <2>1, <2>2, PopHands DEF WaitingModes
<1>11. Links({}, linked)
  <2>1. CASE Top.base # 0 /\ val # 0
    BY <2>1, <1>5, <1>8, <1>9 DEF Links
  <2>2. CASE ~(Top.base # 0 /\ val # 0)
    BY <2>2, <1>5 DEF Links
  <2>. QED BY <2>1, <2>2
<1>12. Nested'
  BY <1>3, <1>5, PopNests
<1>. HIDE DEF linked
<1>. QED BY <1>1, <1>3, <1>5, <1>10, <1>11, <1>12, StepGrows

(***************************************************************************)
(* Calls                                                                   *)
(***************************************************************************)
LEMMA PrependFacts ==
  ASSUME NEW S, NEW x \in S, NEW t \in Seq(S)
  PROVE  /\ <<x>> \o t \in Seq(S)
         /\ DOMAIN (<<x>> \o t) = 1..(Len(t) + 1)
         /\ (<<x>> \o t)[1] = x
         /\ \A i \in 1..Len(t) : (<<x>> \o t)[i + 1] = t[i]
<1>1. <<x>> \in Seq(S) /\ Len(<<x>>) = 1 /\ <<x>>[1] = x /\ Len(t) \in Nat
  OBVIOUS
<1>. DEFINE r == <<x>> \o t
            o == <<x>>
<1>2. /\ r \in Seq(S) /\ Len(r) = Len(o) + Len(t)
      /\ \A i \in 1..(Len(o) + Len(t)) : r[i] = IF i <= Len(o) THEN o[i] ELSE t[i - Len(o)]
  BY <1>1, ConcatProperties
<1>. HIDE DEF r, o
<1>3. Len(o) = 1 /\ o[1] = x /\ Len(t) \in Nat
  BY <1>1 DEF o
<1>4. Len(r) = Len(t) + 1 /\ DOMAIN r = 1..(Len(t) + 1) /\ r[1] = x
  BY <1>2, <1>3
<1>5. ASSUME NEW i \in 1..Len(t) PROVE r[i + 1] = t[i]
  <2>1. i + 1 \in 1..(Len(o) + Len(t)) /\ ~(i + 1 <= Len(o)) /\ (i + 1) - Len(o) = i
    BY <1>3
  <2>. QED BY <1>2, <2>1
<1>. QED BY <1>2, <1>4, <1>5 DEF r

\* The i-th argument of a call comes from below a comma, or is all there is.
ArgumentAt(s, inside, i, c) ==
  \/ Len(s) = 0 /\ inside # 0 /\ i = 1 /\ c = inside
  \/ Len(s) # 0 /\ i = 1 /\ c = kids[s[Len(s)]][1]
  \/ \E k \in 1..Len(s) : i = Len(s) + 2 - k /\ c = kids[s[k]][2]

LEMMA ArgumentFacts ==
  ASSUME input \in Inputs, KidsTyped, LiveCommas,
         NEW inside \in NodeOrNull, inside # 0 => InTree(inside), ~ArgsMissing(inside),
         NEW s, s = CommaSpine(inside)
  PROVE  /\ s \in Seq(Node)
         /\ inside # 0 => Spined(s, inside)
         /\ inside = 0 => Len(s) = 0
         /\ \A k \in 1..Len(s) : 1 \in DOMAIN kids[s[k]] /\ 2 \in DOMAIN kids[s[k]]
         /\ ArgsFrom(inside) \in Seq(Node)
         /\ \A i \in DOMAIN ArgsFrom(inside) : ArgumentAt(s, inside, i, ArgsFrom(inside)[i])
<1>1. CASE inside = 0
  <2>1. s = <<>> /\ ArgsFrom(inside) = <<>>
    BY <1>1, NoSpine
  <2>2. Len(s) = 0 /\ s \in Seq(Node) /\ ArgsFrom(inside) \in Seq(Node)
        /\ DOMAIN ArgsFrom(inside) = {} /\ 1..Len(s) = {}
    BY <2>1
  <2>. QED BY <1>1, <2>2
<1>2. CASE inside # 0
  <2>0. inside \in Node
    BY <1>2 DEF NodeOrNull
  <2>1. Spined(s, inside) /\ s \in Seq(Node)
    BY <1>2, <2>0, SpineFacts DEF Spined
  <2>2. PICK size \in Nat : size = Len(s) /\ DOMAIN s = 1..size
    BY <2>1
  <2>3. \A k \in 1..size : s[k] \in Node /\ kids[s[k]] \in Seq(Node) /\ Len(kids[s[k]]) >= 2
    <3>1. \A k \in DOMAIN s : ~(Len(kids[s[k]]) < 2)
      BY DEF ArgsMissing
    <3>2. \A k \in 1..size : s[k] \in Node
      BY <2>1, <2>2
    <3>3. \A n \in Node : kids[n] \in Seq(Node) /\ Len(kids[n]) \in Nat
      BY DEF KidsTyped
    <3>. QED BY <2>2, <3>1, <3>2, <3>3
  <2>4. \A k \in 1..size : 1 \in DOMAIN kids[s[k]] /\ 2 \in DOMAIN kids[s[k]]
    BY <2>3
  <2>5. CASE size = 0
    <3>1. ArgsFrom(inside) = <<inside>>
      BY <1>2, <2>2, <2>5 DEF ArgsFrom
    <3>. QED BY <1>2, <2>0, <2>1, <2>2, <2>4, <2>5, <3>1 DEF ArgumentAt
  <2>6. CASE size # 0
    <3>. DEFINE t == [i \in 1..size |-> kids[s[size + 1 - i]][2]]
                x == kids[s[size]][1]
    <3>1. ArgsFrom(inside) = <<x>> \o t
      BY <1>2, <2>2, <2>6 DEF ArgsFrom
    <3>2. x \in Node
      BY <2>2, <2>3, <2>4, <2>6
    <3>3. \A i \in 1..size : size + 1 - i \in 1..size
      BY <2>2
    <3>4. t \in Seq(Node) /\ Len(t) = size
      <4>1. \A i \in 1..size : kids[s[size + 1 - i]][2] \in Node
        BY <2>3, <2>4, <3>3
      <4>. QED BY <4>1, <2>2
    <3>5. \A i \in 1..size : t[i] = kids[s[size + 1 - i]][2]
      OBVIOUS
    <3>. HIDE DEF t, x
    <3>. DEFINE r == <<x>> \o t
    <3>6. /\ r \in Seq(Node) /\ DOMAIN r = 1..(size + 1) /\ r[1] = x
          /\ \A i \in 1..size : r[i + 1] = t[i]
      BY <3>2, <3>4, PrependFacts
    <3>. HIDE DEF r
    <3>7. ASSUME NEW i \in 1..(size + 1) PROVE ArgumentAt(s, inside, i, r[i])
      <4>1. CASE i = 1
        BY <4>1, <2>2, <2>6, <3>6 DEF ArgumentAt, x
      <4>2. CASE i # 1
        <5>. DEFINE k == size + 2 - i
        <5>1. i - 1 \in 1..size /\ (i - 1) + 1 = i /\ size + 1 - (i - 1) = k /\ k \in 1..size
              /\ i = size + 2 - k
          BY <4>2, <2>2
        <5>2. r[i] = kids[s[k]][2]
          BY <5>1, <3>5, <3>6
        <5>. HIDE DEF k
        <5>. QED BY <5>1, <5>2, <2>2 DEF ArgumentAt
      <4>. QED BY <4>1, <4>2
    <3>. QED BY <1>2, <2>1, <2>2, <2>4, <3>1, <3>6, <3>7 DEF r
  <2>. QED BY <2>5, <2>6
<1>. QED BY <1>1, <1>2

\* What a call is made of: nodes of their own, none of them linked yet.
CallParts(begin, close, inside, callee) ==
  /\ begin \in Node /\ close \in Node /\ callee \in Node /\ inside \in NodeOrNull
  /\ begin # close /\ callee # close /\ inside # close /\ callee # inside
  /\ ~IsChild(close) /\ ~IsChild(callee) /\ ~IsChild(inside)
  /\ inside # 0 => InTree(inside)
  /\ ~IsComma(begin) /\ ~IsComma(close)
  /\ ~ArgsMissing(inside)

\* Where the child c at (a, i) was before the call was made.
CameFrom(close, s, a, i, p, q) ==
  \/ p = a /\ q = i /\ \A k \in 1..Len(s) : p # s[k]
  \/ a = close /\ Len(s) # 0 /\ p = s[Len(s)] /\ q = 1 /\ i = 1
  \/ a = close /\ \E k \in 1..Len(s) : p = s[k] /\ q = 2 /\ i = Len(s) + 2 - k
OldPlace(close, s, a, i, c) ==
  \E p \in Node : \E q \in DOMAIN kids[p] : c = kids[p][q] /\ CameFrom(close, s, a, i, p, q)
NewPlace(begin, close, inside, callee, s, a, i, c) ==
  \/ a = begin /\ i = 1 /\ c = close
  \/ a = begin /\ i = 2 /\ c = callee
  \/ a = close /\ i = 1 /\ c = inside /\ inside # 0 /\ Len(s) = 0

LEMMA CallPlaces ==
  ASSUME input \in Inputs, KidsTyped, LiveCommas, UNCHANGED input,
         NEW begin, NEW close, NEW inside, NEW callee,
         CallParts(begin, close, inside, callee), MakeCall(begin, close, inside, callee),
         NEW s, s = CommaSpine(inside)
  PROVE  /\ KidsTyped'
         /\ \A n \in Node : n # begin /\ n # close =>
              kids'[n] = IF \E k \in 1..Len(s) : s[k] = n THEN <<>> ELSE kids[n]
         /\ \A a \in Node : \A i \in DOMAIN kids'[a] :
              \/ OldPlace(close, s, a, i, kids'[a][i])
              \/ NewPlace(begin, close, inside, callee, s, a, i, kids'[a][i])
<1>. DEFINE spent(n) == \E k \in 1..Len(s) : s[k] = n
            args == ArgsFrom(inside)
<1>1. /\ begin \in Node /\ close \in Node /\ callee \in Node /\ inside \in NodeOrNull
      /\ begin # close /\ (inside # 0 => InTree(inside)) /\ ~ArgsMissing(inside)
  BY DEF CallParts
<1>2. /\ s \in Seq(Node)
      /\ \A k \in 1..Len(s) : 1 \in DOMAIN kids[s[k]] /\ 2 \in DOMAIN kids[s[k]]
      /\ args \in Seq(Node)
      /\ \A i \in DOMAIN args : ArgumentAt(s, inside, i, args[i])
  BY <1>1, ArgumentFacts
<1>3. kids \in [Node -> Seq(Node)] /\ Node' = Node
  BY DEF KidsTyped, Node
<1>4. DOMAIN s = 1..Len(s) /\ Len(s) \in Nat
  BY <1>2
<1>5. ~spent(begin) /\ ~spent(close)
  <2>1. CASE inside = 0
    BY <2>1, <1>1, ArgumentFacts
  <2>2. CASE inside # 0
    <3>1. \A k \in 1..Len(s) : IsComma(s[k])
      BY <2>2, <1>1, ArgumentFacts DEF Spined
    <3>2. ~IsComma(begin) /\ ~IsComma(close)
      BY DEF CallParts
    <3>. QED BY <3>1, <3>2
  <2>. QED BY <2>1, <2>2
<1>6. kids' = [n \in Node |-> IF n = begin THEN <<close, callee>>
                              ELSE IF n = close THEN args
                              ELSE IF spent(n) THEN <<>> ELSE kids[n]]
  <2>. DEFINE now(n) == CASE n = begin -> <<close, callee>>
                          [] n = close -> args
                          [] \E i \in DOMAIN s : s[i] = n -> <<>>
                          [] OTHER -> kids[n]
              then(n) == IF n = begin THEN <<close, callee>>
                         ELSE IF n = close THEN args
                         ELSE IF spent(n) THEN <<>> ELSE kids[n]
  <2>1. DOMAIN kids = Node
    BY <1>3
  <2>2. kids' = [n \in DOMAIN kids |-> now(n)]
    BY DEF MakeCall
  <2>3. ASSUME NEW n \in Node PROVE now(n) = then(n)
    <3>. HIDE DEF args
    <3>1. (\E i \in DOMAIN s : s[i] = n) <=> spent(n)
      BY <1>4
    <3>. HIDE DEF spent
    <3>2. CASE n = begin
      BY <3>1, <3>2, <1>1, <1>5
    <3>3. CASE n = close
      BY <3>1, <3>3, <1>1, <1>5
    <3>4. CASE n # begin /\ n # close /\ spent(n)
      BY <3>1, <3>4
    <3>5. CASE n # begin /\ n # close /\ ~spent(n)
      BY <3>1, <3>5
    <3>. QED BY <3>2, <3>3, <3>4, <3>5
  <2>. HIDE DEF now, then
  <2>4. kids' = [n \in Node |-> then(n)]
    BY <2>1, <2>2, <2>3
  <2>. QED BY <2>4 DEF then
<1>. HIDE DEF args
<1>7. /\ kids'[begin] = <<close, callee>> /\ kids'[close] = args
      /\ \A n \in Node : n # begin /\ n # close =>
           kids'[n] = IF spent(n) THEN <<>> ELSE kids[n]
  BY <1>1, <1>6
<1>8. <<close, callee>> \in Seq(Node) /\ DOMAIN <<close, callee>> = {1, 2}
      /\ <<close, callee>>[1] = close /\ <<close, callee>>[2] = callee
  BY DEF CallParts
<1>9. KidsTyped'
  <2>1. \A n \in Node : kids'[n] \in Seq(Node)
    <3>. HIDE DEF spent
    <3>1. <<>> \in Seq(Node) /\ \A n \in Node : kids[n] \in Seq(Node)
      BY <1>3
    <3>. QED BY <3>1, <1>2, <1>7, <1>8
  <2>2. DOMAIN kids' = Node /\ kids' = [n \in DOMAIN kids' |-> kids'[n]]
    BY <1>6
  <2>. QED BY <2>1, <2>2, <1>3 DEF KidsTyped
<1>10. ASSUME NEW a \in Node, NEW i \in DOMAIN kids'[a]
       PROVE  \/ OldPlace(close, s, a, i, kids'[a][i])
              \/ NewPlace(begin, close, inside, callee, s, a, i, kids'[a][i])
  <2>1. CASE a = begin
    BY <2>1, <1>7, <1>8, <1>10 DEF NewPlace
  <2>2. CASE a = close
    <3>1. ArgumentAt(s, inside, i, args[i])
      BY <2>2, <1>2, <1>7, <1>10
    <3>2. \A k \in 1..Len(s) : s[k] \in Node
      BY <1>2, <1>4
    <3>3. CASE Len(s) = 0 /\ inside # 0 /\ i = 1 /\ args[i] = inside
      BY <2>2, <3>3, <1>7 DEF NewPlace
    <3>4. CASE Len(s) # 0 /\ i = 1 /\ args[i] = kids[s[Len(s)]][1]
      <4>1. Len(s) \in 1..Len(s)
        BY <3>4, <1>4
      <4>. QED BY <2>2, <3>2, <3>4, <4>1, <1>2, <1>7 DEF OldPlace, CameFrom
    <3>5. ASSUME NEW k \in 1..Len(s), i = Len(s) + 2 - k, args[i] = kids[s[k]][2]
          PROVE  OldPlace(close, s, a, i, args[i])
      BY <2>2, <3>2, <3>5, <1>2 DEF OldPlace, CameFrom
    <3>. QED BY <2>2, <3>1, <3>3, <3>4, <3>5, <1>7 DEF ArgumentAt
  <2>3. CASE a # begin /\ a # close
    <3>1. ~spent(a)
      BY <2>3, <1>7, <1>10
    <3>. QED BY <2>3, <3>1, <1>7, <1>10 DEF OldPlace, CameFrom
  <2>. QED BY <2>1, <2>2, <2>3
<1>. QED BY <1>7, <1>9, <1>10

LEMMA SameParent ==
  ASSUME Unshared, NEW a \in Node, NEW b \in Node,
         NEW i \in DOMAIN kids[a], NEW j \in DOMAIN kids[b], kids[a][i] = kids[b][j]
  PROVE  a = b /\ i = j
BY DEF Unshared

\* Of the commas between arguments nobody knows any more.
LEMMA CallLinks ==
  ASSUME input \in Inputs, KidsTyped, LiveCommas, Unshared, UNCHANGED input,
         NEW begin, NEW close, NEW inside, NEW callee,
         CallParts(begin, close, inside, callee), MakeCall(begin, close, inside, callee),
         NEW s, s = CommaSpine(inside)
  PROVE  /\ Unshared'
         /\ \A c : IsChild(c)' => IsChild(c) \/ c \in {close, callee} \/ (c = inside /\ inside # 0)
         /\ \A k \in 1..Len(s) : ~IsChild(s[k])'
         /\ \A k \in 1..Len(s) : s[k] = inside \/ IsChild(s[k])
<1>1. /\ begin \in Node /\ close \in Node /\ callee \in Node /\ inside \in NodeOrNull
      /\ begin # close /\ callee # close /\ inside # close /\ callee # inside
      /\ ~IsChild(close) /\ ~IsChild(callee) /\ ~IsChild(inside)
      /\ ~IsComma(begin) /\ ~IsComma(close)
  BY DEF CallParts
<1>2. s \in Seq(Node) /\ (inside # 0 => Spined(s, inside)) /\ (inside = 0 => Len(s) = 0)
  BY ArgumentFacts DEF CallParts
<1>3. \A a \in Node : \A i \in DOMAIN kids'[a] :
        \/ OldPlace(close, s, a, i, kids'[a][i])
        \/ NewPlace(begin, close, inside, callee, s, a, i, kids'[a][i])
  BY CallPlaces
<1>4. Node' = Node /\ Len(s) \in Nat
  BY <1>2 DEF Node
<1>5. \A a, i, c : OldPlace(close, s, a, i, c) => IsChild(c)
  BY DEF OldPlace, IsChild
<1>6. \A a, i, c : NewPlace(begin, close, inside, callee, s, a, i, c) =>
        /\ c \in {close, callee} \/ (c = inside /\ inside # 0)
        /\ ~IsChild(c)
  BY <1>1 DEF NewPlace
<1>7. ASSUME NEW k \in 1..Len(s)
      PROVE  \/ s[k] = inside
             \/ \E j \in 1..Len(s) : /\ k = j + 1 /\ s[j] \in Node
                                     /\ 1 \in DOMAIN kids[s[j]] /\ s[k] = kids[s[j]][1]
  <2>1. inside # 0
    BY <1>2
  <2>2. CASE k = 1
    BY <2>1, <2>2, <1>2 DEF Spined
  <2>3. CASE k # 1
    <3>. DEFINE j == k - 1
    <3>1. j \in 1..Len(s) /\ j # Len(s) /\ k = j + 1
      BY <2>3, <1>4
    <3>. HIDE DEF j
    <3>2. s[j + 1] = kids[s[j]][1] /\ s[j] \in Node
      BY <2>1, <3>1, <1>2 DEF Spined
    <3>3. 1 \in DOMAIN kids[s[j]]
      BY <3>1, ArgumentFacts DEF CallParts
    <3>. QED BY <3>1, <3>2, <3>3
  <2>. QED BY <2>2, <2>3
<1>8. \A k, l \in 1..Len(s) : s[k] = s[l] => k = l
  <2>. SUFFICES ASSUME NEW k \in 1..Len(s), NEW l \in 1..Len(s), k < l PROVE s[k] # s[l]
    BY <1>4
  <2>1. inside # 0
    BY <1>2
  <2>2. s[l] < s[k]
    BY <2>1, <1>2, SpineDescends
  <2>3. s[l] \in Node /\ s[k] \in Node /\ \A m \in Node : m \in Nat
    BY <1>2, InputFacts
  <2>. QED BY <2>2, <2>3
<1>9. ASSUME NEW a \in Node, NEW b \in Node, NEW i, NEW j, NEW c,
             OldPlace(close, s, a, i, c), OldPlace(close, s, b, j, c)
      PROVE  a = b /\ i = j
  <2>1. PICK p \in Node : \E q \in DOMAIN kids[p] :
          c = kids[p][q] /\ CameFrom(close, s, a, i, p, q)
    BY <1>9 DEF OldPlace
  <2>2. PICK q \in DOMAIN kids[p] : c = kids[p][q] /\ CameFrom(close, s, a, i, p, q)
    BY <2>1
  <2>3. PICK r \in Node : \E t \in DOMAIN kids[r] :
          c = kids[r][t] /\ CameFrom(close, s, b, j, r, t)
    BY <1>9 DEF OldPlace
  <2>8. PICK t \in DOMAIN kids[r] : c = kids[r][t] /\ CameFrom(close, s, b, j, r, t)
    BY <2>3
  <2>9. p = r /\ q = t
    <3>1. p \in Node /\ r \in Node
      BY <2>1, <2>3
    <3>2. q \in DOMAIN kids[p] /\ t \in DOMAIN kids[r] /\ kids[p][q] = kids[r][t]
      BY <2>2, <2>8
    <3>. QED BY <3>1, <3>2, SameParent
  <2>4. Len(s) # 0 => Len(s) \in 1..Len(s)
    BY <1>4
  <2>5. CASE \A k \in 1..Len(s) : p # s[k]
    BY <2>2, <2>8, <2>9, <2>4, <2>5 DEF CameFrom
  <2>6. CASE q = 1 /\ \E k \in 1..Len(s) : p = s[k]
    BY <2>2, <2>8, <2>9, <2>6 DEF CameFrom
  <2>7. CASE q # 1 /\ \E k \in 1..Len(s) : p = s[k]
    <3>1. PICK k \in 1..Len(s) : p = s[k] /\ i = Len(s) + 2 - k /\ a = close
      BY <2>2, <2>7 DEF CameFrom
    <3>2. PICK l \in 1..Len(s) : r = s[l] /\ j = Len(s) + 2 - l /\ b = close
      BY <2>8, <2>9, <2>7 DEF CameFrom
    <3>3. k = l
      BY <2>9, <3>1, <3>2, <1>8
    <3>. QED BY <3>1, <3>2, <3>3
  <2>. QED BY <2>5, <2>6, <2>7
<1>10. ASSUME NEW a \in Node, NEW b \in Node, NEW i, NEW j, NEW c,
              NewPlace(begin, close, inside, callee, s, a, i, c),
              NewPlace(begin, close, inside, callee, s, b, j, c)
       PROVE  a = b /\ i = j
  BY <1>1, <1>10 DEF NewPlace
<1>11. Unshared'
  <2>1. ASSUME NEW a \in Node, NEW b \in Node,
               NEW i \in DOMAIN kids'[a], NEW j \in DOMAIN kids'[b], kids'[a][i] = kids'[b][j]
        PROVE  a = b /\ i = j
    <3>. DEFINE c == kids'[a][i]
    <3>1. OldPlace(close, s, a, i, c) \/ NewPlace(begin, close, inside, callee, s, a, i, c)
      BY <1>3
    <3>2. OldPlace(close, s, b, j, c) \/ NewPlace(begin, close, inside, callee, s, b, j, c)
      BY <1>3, <2>1
    <3>. HIDE DEF c
    <3>. QED BY <3>1, <3>2, <1>5, <1>6, <1>9, <1>10
  <2>. QED BY <2>1, <1>4 DEF Unshared
<1>12. ASSUME NEW c, IsChild(c)'
       PROVE  \E a \in Node : \E i : \/ OldPlace(close, s, a, i, c)
                                     \/ NewPlace(begin, close, inside, callee, s, a, i, c)
  BY <1>3, <1>4, <1>12 DEF IsChild
<1>13. \A k \in 1..Len(s) : s[k] = inside \/ IsChild(s[k])
  BY <1>7 DEF IsChild
<1>14. ASSUME NEW k \in 1..Len(s), IsChild(s[k])' PROVE FALSE
  <2>1. PICK a, i : \/ OldPlace(close, s, a, i, s[k])
                    \/ NewPlace(begin, close, inside, callee, s, a, i, s[k])
    BY <1>12, <1>14
  <2>2. inside # 0 /\ IsComma(s[k]) /\ Spined(s, inside)
    BY <1>2 DEF Spined
  <2>3. CASE NewPlace(begin, close, inside, callee, s, a, i, s[k])
    <3>1. s[k] = close \/ s[k] = callee \/ Len(s) = 0
      BY <2>3 DEF NewPlace
    <3>2. s[k] # close
      BY <2>2, <1>1
    <3>3. s[k] # callee
      BY <1>1, <1>13
    <3>. QED BY <3>1, <3>2, <3>3, <1>4
  <2>4. CASE OldPlace(close, s, a, i, s[k])
    <3>1. s[k] # inside
      BY <2>4, <1>1, <1>5
    <3>2. PICK j \in 1..Len(s) : /\ k = j + 1 /\ s[j] \in Node
                                 /\ 1 \in DOMAIN kids[s[j]] /\ s[k] = kids[s[j]][1]
      BY <3>1, <1>7
    <3>3. PICK p \in Node : \E q \in DOMAIN kids[p] :
            s[k] = kids[p][q] /\ CameFrom(close, s, a, i, p, q)
      BY <2>4 DEF OldPlace
    <3>6. PICK q \in DOMAIN kids[p] : s[k] = kids[p][q] /\ CameFrom(close, s, a, i, p, q)
      BY <3>3
    <3>4. p = s[j] /\ q = 1
      <4>1. p \in Node
        BY <3>3
      <4>2. q \in DOMAIN kids[p] /\ kids[p][q] = kids[s[j]][1]
        BY <3>2, <3>6
      <4>. QED BY <4>1, <4>2, <3>2, SameParent
    <3>5. j = Len(s)
      <4>1. Len(s) \in 1..Len(s)
        BY <1>4
      <4>2. p = s[Len(s)]
        BY <3>6, <3>4 DEF CameFrom
      <4>. QED BY <4>1, <4>2, <3>4, <1>8
    <3>. QED BY <3>2, <3>5, <1>4
  <2>. QED BY <2>1, <2>3, <2>4
<1>. QED BY <1>5, <1>6, <1>11, <1>12, <1>13, <1>14

LEMMA CallGrows ==
  ASSUME ParserInv, ParserInv', TreeInv, Running, Running', Nested', input' = input,
         pos <= pos', NEW begin, NEW close, NEW inside, NEW callee,
         CallParts(begin, close, inside, callee), MakeCall(begin, close, inside, callee),
         begin < pos', close < pos',
         NEW m, NEW Spare, NEW New, NEW Linked, Handing(m, Spare, New, Linked),
         \A c \in New : ~IsComma(c),
         \A x : x \in Linked <=> x # 0 /\ x \in {close, callee, inside}
  PROVE  TreeInv'
<1>0. PICK s : s = CommaSpine(inside)
  OBVIOUS
<1>1. /\ Places /\ Groups /\ Places' /\ Groups' /\ Trees /\ Unshared /\ input \in Inputs
      /\ KidsTyped /\ Nested /\ Apart /\ Rooted /\ Untouched /\ LiveCommas
  BY DEF ParserInv, TreeInv, Trees, Places
<1>2. Node' = Node /\ \A n : IsComma(n)' = IsComma(n)
  BY DEF Node, IsComma
<1>3. pos \in Nat /\ pos' \in Nat /\ 0 \notin Node /\ \A n \in Node : n \in Nat
  BY <1>1, <1>2, PlaceFacts DEF Places
<1>4. /\ KidsTyped'
      /\ \A n \in Node : n # begin /\ n # close =>
           kids'[n] = IF \E k \in 1..Len(s) : s[k] = n THEN <<>> ELSE kids[n]
  BY <1>0, <1>1, CallPlaces
<1>5. /\ Unshared'
      /\ \A c : IsChild(c)' => IsChild(c) \/ c \in {close, callee} \/ (c = inside /\ inside # 0)
      /\ \A k \in 1..Len(s) : ~IsChild(s[k])'
      /\ \A k \in 1..Len(s) : s[k] = inside \/ IsChild(s[k])
  BY <1>0, <1>1, CallLinks
<1>6. \A k \in 1..Len(s) : inside # 0
  BY <1>0, <1>1, ArgumentFacts DEF CallParts
<1>7. /\ begin \in Node /\ close \in Node /\ callee \in Node
      /\ ~IsComma(begin) /\ ~IsComma(close)
  BY DEF CallParts
<1>8. \A c : IsChild(c)' => IsChild(c) \/ c \in Linked
  BY <1>3, <1>5, <1>7
<1>9. /\ Apart' /\ Rooted'
      /\ \A c : InTree(c)' => InTree(c) \/ c \in New
      /\ \A c : IsOwned(c)' => ~IsChild(c) /\ c \notin Linked
  BY <1>1, <1>8, HandingKeeps
<1>10. Untouched'
  <2>1. ASSUME NEW n \in Node, n >= pos' PROVE kids'[n] = <<>>
    <3>1. n # begin /\ n # close /\ n >= pos
      BY <2>1, <1>3, <1>7
    <3>2. kids[n] = <<>>
      BY <3>1, <1>1 DEF Untouched
    <3>. QED BY <3>1, <3>2, <1>4
  <2>2. \A i \in DOMAIN stack' : stack'[i].kind # "group" => stack'[i].last < pos'
    BY <1>1, LastsPassed
  <2>. QED BY <2>1, <2>2, <1>2 DEF Untouched
<1>11. LiveCommas'
  <2>1. SUFFICES ASSUME NEW n \in Node, InTree(n)', IsComma(n)
                 PROVE  kids'[n] # <<>> /\ kids'[n][1] < n
    BY <1>2 DEF LiveCommas
  <2>2. InTree(n)
    BY <2>1, <1>9
  <2>3. ASSUME NEW k \in 1..Len(s), s[k] = n PROVE FALSE
    <3>1. ~IsChild(n)'
      BY <2>3, <1>5
    <3>2. ~IsChild(n) /\ n \notin Linked
      BY <2>1, <3>1, <1>9 DEF InTree
    <3>. QED BY <2>3, <3>2, <1>5, <1>6
  <2>4. kids'[n] = kids[n]
    BY <2>1, <2>3, <1>4, <1>7
  <2>. QED BY <2>1, <2>2, <2>4, <1>1 DEF LiveCommas
<1>12. Trees'
  BY <1>4, <1>9, <1>10, <1>11 DEF Trees
<1>13. TypeOK'
  <2>1. (pos <= limit)'
    BY DEF Nested
  <2>. QED BY <2>1, <1>1, <1>4, TypesFollow DEF ParserInv
<1>. QED BY <1>5, <1>12, <1>13 DEF TreeInv

LEMMA IllegalGrows ==
  ASSUME TreeInv, Illegal
  PROVE  TreeInv'
<1>1. Ended("internal") \/ Ended("error")
  BY DEF Illegal
<1>2. "internal" \in Failures /\ "error" \in Failures
  BY DEF Failures
<1>. QED BY <1>1, <1>2, EndedKeeps

LEMMA OpenParenGrows ==
  ASSUME ParserInv, ParserInv', TreeInv, OpenParen
  PROVE  TreeInv'
<1>1. mode = "primary" /\ TypeAt(pos) = "PAREN_LEFT"
  BY DEF OpenParen
<1>2. PICK close \in GroupEnds(pos) :
        IF close = pos + 1 THEN Ended("internal") ELSE EnterGroup(0, close)
  BY DEF OpenParen
<1>3. CASE close = pos + 1
  BY <1>2, <1>3, EndedKeeps DEF Failures
<1>4. CASE close # pos + 1
  BY <1>1, <1>2, <1>4, EnterGroupGrows
<1>. QED BY <1>3, <1>4

LEMMA OpenCallGrows ==
  ASSUME ParserInv, ParserInv', TreeInv, OpenCall
  PROVE  TreeInv'
<1>1. mode = "postfix" /\ TypeAt(pos) = "CALL_BEGIN" /\ Running
  BY DEF OpenCall, Running
<1>2. PICK close \in GroupEnds(pos) :
        IF close = pos + 1
        THEN MakeCall(pos, close, 0, val) /\ pos' = close + 1 /\ UNCHANGED <<input, limit, stack>>
        ELSE EnterGroup(val, close)
  BY DEF OpenCall
<1>3. PICK n : n = Len(stack)
  OBVIOUS
<1>4. /\ Places /\ Groups /\ Nested /\ Apart /\ Rooted /\ Modes /\ input \in Inputs
      /\ pos \in Nat /\ pos > 0 /\ pos <= limit /\ Node \subseteq NodeOrNull /\ 0 \in NodeOrNull
      /\ val \in NodeOrNull /\ val # 0 /\ 0 \notin Node
  BY <1>1, TreeFacts DEF Places, Modes
<1>5. CASE close # pos + 1
  BY <1>1, <1>2, <1>4, <1>5, EnterGroupGrows
<1>6. CASE close = pos + 1
  <2>1. /\ MakeCall(pos, close, 0, val) /\ pos' = close + 1 /\ UNCHANGED <<input, limit, stack>>
        /\ val' = pos /\ mode' = "postfix" /\ Running'
    BY <1>2, <1>6 DEF MakeCall, Running
  <2>2. /\ pos \in Node /\ close \in Node /\ pos < close /\ close < limit /\ close \in Nat
        /\ input[close].type # "OPERATOR" /\ input[pos].type = "CALL_BEGIN"
    BY <1>1, <1>4, CloseFacts
  <2>3. /\ pos' <= limit /\ pos <= pos' /\ pos < pos' /\ close < pos' /\ pos # 0 /\ close # 0
        /\ pos \in pos..(pos' - 1) /\ close \in pos..(pos' - 1)
        /\ close \notin 1..(pos - 1) /\ 0 \notin 1..(pos - 1)
    <3>1. limit \in Nat
      BY <1>4, PlaceFacts
    <3>. QED BY <2>1, <2>2, <1>4, <3>1
  <2>4. /\ \A x : x \in Holds(0) <=> x = val
        /\ \A x : x \in Holds(0)' <=> x = pos
    BY <1>1, <1>4, <2>1, <2>3, HandFacts DEF InHand
  <2>5. val \in Node /\ val < pos /\ val # pos /\ val # close /\ ~IsChild(val)
    BY <1>3, <1>4, <2>2, <2>4, HeldFacts
  <2>6. ~IsComma(pos) /\ ~IsComma(close)
    BY <1>4, <2>2, NotComma
  <2>7. CallParts(pos, close, 0, val)
    <3>1. ~IsChild(close) /\ ~IsChild(0)
      BY <2>3, <1>4 DEF Rooted
    <3>2. ~ArgsMissing(0)
      BY NoSpine
    <3>3. pos # close
      BY <2>2, <1>4
    <3>. QED BY <1>4, <2>2, <2>3, <2>5, <2>6, <3>1, <3>2, <3>3 DEF CallParts
  <2>8. Handing(Len(stack), Holds(0), {pos, close}, {close, val})
    <3>1. \A x \in {pos, close} : x \in pos..(pos' - 1)
      BY <2>3
    <3>2. \A x \in {close, val} : x \in Holds(0) \/ x \in {pos, close}
      BY <2>4
    <3>3. \A x \in Holds(0)' : (x \in Holds(0) \/ x \in {pos, close}) /\ x \notin {close, val}
      <4>1. pos # close
        BY <2>2, <1>4
      <4>. QED BY <2>4, <2>5, <4>1
    <3>. QED BY <1>1, <1>4, <2>1, <3>1, <3>2, <3>3, StayHands DEF WaitingModes
  <2>9. Nested'
    BY <1>4, <2>1, <2>3, NestedKeeps
  <2>10. \A x : x \in {close, val} <=> x # 0 /\ x \in {close, val, 0}
    BY <1>4, <2>3
  <2>. QED BY <1>1, <2>1, <2>3, <2>6, <2>7, <2>8, <2>9, <2>10, CallGrows
<1>. QED BY <1>5, <1>6

\* The group around the one that is left has room for the bracket and what is
\* behind it.
LEMMA LeaveNests ==
  ASSUME Places, Groups, Nested, UNCHANGED input, NEW n, n = Len(stack), IsGroup(n), n > 1,
         stack' = Rest, limit' = Top.limit, pos' = limit + 1
  PROVE  /\ Nested' /\ pos <= pos' /\ limit \in pos..(pos' - 1) /\ limit < pos'
         /\ CalleeKept(n) /\ limit \in Node /\ input[limit].type # "OPERATOR"
<1>1. /\ n \in Nat /\ stack \in Seq(Frame) /\ stack # <<>> /\ DOMAIN stack = 1..n
      /\ Top = stack[n] /\ limit \in Node /\ limit \in Nat /\ pos \in Nat /\ pos <= limit
      /\ \A m \in Node : m \in Nat
  BY PlaceFacts DEF Places, Groups, Nested
<1>2. /\ DOMAIN stack' = 1..(n - 1)
      /\ \A i \in 1..(n - 1) : stack'[i] = stack[i]
  BY <1>1, PopFacts DEF Rest
<1>3. \A i \in 1..(n - 1) : i \in DOMAIN stack /\ i < n
  BY <1>1
<1>4. /\ limit < Top.limit /\ input[Top.limit].type # "OPERATOR" /\ CalleeKept(n)
      /\ Top.limit \in Nat /\ input[limit].type # "OPERATOR"
  <2>1. n \in DOMAIN stack
    BY <1>1
  <2>2. stack[n].limit \in Node
    BY <2>1 DEF Groups
  <2>3. limit < stack[n].limit /\ input[stack[n].limit].type # "OPERATOR" /\ CalleeKept(n)
        /\ input[limit].type # "OPERATOR"
    BY <2>1 DEF Nested
  <2>. QED BY <2>2, <2>3, <1>1
<1>5. pos' <= limit' /\ pos <= pos' /\ limit \in pos..(pos' - 1) /\ limit < pos'
  BY <1>1, <1>4
<1>6. \A i \in 1..(n - 1) : IsGroup(i)' = IsGroup(i) /\ CalleeKept(i)' = CalleeKept(i)
  BY <1>2 DEF IsGroup, CalleeKept
<1>7. ASSUME NEW i \in 1..(n - 1), IsGroup(i)'
      PROVE  limit' < stack'[i].limit /\ input'[stack'[i].limit].type # "OPERATOR" /\ CalleeKept(i)'
  <2>1. IsGroup(i) /\ i \in DOMAIN stack /\ i < n /\ n \in DOMAIN stack
    BY <1>1, <1>3, <1>6, <1>7
  <2>2. Top.limit < stack[i].limit
    BY <2>1, <1>1 DEF Nested
  <2>3. input[stack[i].limit].type # "OPERATOR" /\ CalleeKept(i)
    BY <2>1 DEF Nested
  <2>. QED BY <2>2, <2>3, <1>2, <1>6
<1>8. ASSUME NEW i \in 1..(n - 1), NEW j \in 1..(n - 1), i < j, IsGroup(i)', IsGroup(j)'
      PROVE  stack'[j].limit < stack'[i].limit
  <2>1. stack[j].limit < stack[i].limit
    BY <1>3, <1>6, <1>8 DEF Nested
  <2>. QED BY <2>1, <1>2
<1>9. Nested'
  BY <1>2, <1>4, <1>5, <1>7, <1>8 DEF Nested
<1>. QED BY <1>1, <1>4, <1>5, <1>9

LEMMA LeaveGroupGrows ==
  ASSUME ParserInv, ParserInv', TreeInv, LeaveGroup
  PROVE  TreeInv'
<1>1. mode = "value" /\ Top.kind = "group" /\ Running
  BY DEF LeaveGroup, Running
<1>2. PICK n : n = Len(stack)
  OBVIOUS
<1>3. /\ Places /\ Groups /\ Nested /\ Apart /\ Rooted /\ input \in Inputs /\ Top \in Frame
      /\ pos \in Nat /\ pos > 0 /\ pos <= limit /\ Node \subseteq NodeOrNull /\ 0 \in NodeOrNull
      /\ val \in NodeOrNull /\ 0 \notin Node /\ n \in Nat /\ n # 0 /\ Top = stack[n]
      /\ stack \in Seq(Frame) /\ stack # <<>> /\ limit \in Nat
  BY <1>1, <1>2, TreeFacts, PlaceFacts DEF Places, Groups
<1>4. CASE Top.begin = 0
  <2>1. stack' = Rest /\ mode' = "done" /\ UNCHANGED <<input, pos, limit, kids, val>>
    BY <1>4 DEF LeaveGroup
  <2>2. ~Running' /\ Unshared'
    BY <2>1 DEF Running, TreeInv, Unshared, Node
  <2>3. stack' \in Seq(Frame)
    BY <1>3, <2>1, PopFacts DEF Rest
  <2>4. Node' = Node /\ NodeOrNull' = NodeOrNull /\ Frame' = Frame
    BY <2>1 DEF Node, NodeOrNull, Frame
  <2>5. TypeOK'
    BY <2>1, <2>3, <2>4 DEF TreeInv, TypeOK
  <2>. QED BY <2>2, <2>5 DEF TreeInv
<1>. DEFINE called == input[Top.begin].type = "CALL_BEGIN"
<1>5. CASE Top.begin # 0 /\ ArgsMissing(val) /\ called
  BY <1>5, EndedKeeps DEF LeaveGroup, Failures
<1>6. CASE Top.begin # 0 /\ ~(ArgsMissing(val) /\ called)
  <2>1. /\ stack' = Rest /\ pos' = limit + 1 /\ limit' = Top.limit /\ input' = input
        /\ IF called THEN MakeCall(Top.begin, limit, val, Top.callee)
           ELSE mode' = "postfix" /\ UNCHANGED <<kids, val>>
    BY <1>6 DEF LeaveGroup, AfterGroup
  <2>2. n > 1 /\ IsGroup(n)
    BY <1>1, <1>2, <1>3, <1>6, TreeFacts DEF IsGroup
  <2>3. /\ Nested' /\ pos <= pos' /\ limit \in pos..(pos' - 1) /\ limit < pos'
        /\ CalleeKept(n) /\ limit \in Node /\ input[limit].type # "OPERATOR"
    BY <1>2, <1>3, <2>1, <2>2, LeaveNests
  <2>4. mode' = "postfix" /\ Running'
    BY <2>1 DEF MakeCall, Running
  <2>5. /\ \A x : x \in Holds(0) <=> x # 0 /\ x = val
        /\ \A x : x \in Holds(0)' <=> x # 0 /\ x = val'
        /\ \A x : x \in Holds(n) <=> x # 0 /\ (x = Top.begin \/ x = Top.callee)
    <3>1. \A x : x \in Holds(n) <=> x # 0 /\ (x = Top.begin \/ x = Top.callee)
      BY <1>1, <1>3, KeptFacts
    <3>. QED BY <1>1, <2>4, <3>1, HandFacts DEF InHand
  <2>6. /\ Top.begin \in Node /\ Top.begin < pos /\ Top.begin \in Nat
        /\ \A x : x \in Holds(0) \/ x \in Holds(n) =>
             x \in Node /\ x \in Nat /\ x < pos /\ ~IsChild(x)
        /\ \A x : x \in Holds(0) => x \notin Holds(n)
        /\ ~HeldTwice(n)
    <3>1. /\ \A x : x \in Holds(0) \/ x \in Holds(n) =>
               x \in Node /\ x \in Nat /\ x < pos /\ ~IsChild(x)
          /\ \A x : x \in Holds(0) => x \notin Holds(n)
          /\ ~HeldTwice(n)
      BY <1>2, <1>3, HeldFacts
    <3>. QED BY <1>6, <2>5, <3>1
  <2>7. CASE ~called
    <3>1. UNCHANGED <<kids, val>>
      BY <2>1, <2>7
    <3>2. \A x \in Holds(0)' : (x \in Holds(0) \cup Holds(n) \/ x \in {}) /\ x \notin {}
      BY <2>5, <3>1
    <3>3. Handing(n - 1, Holds(0) \cup Holds(n), {}, {})
      BY <1>1, <1>2, <1>3, <2>1, <2>2, <2>4, <3>2, PopHands DEF WaitingModes
    <3>4. Links({}, {})
      BY <3>1 DEF Links
    <3>. QED BY <1>1, <2>1, <2>3, <2>4, <3>3, <3>4, StepGrows
  <2>8. CASE called
    <3>. DEFINE linked == {limit, Top.callee} \cup ({val} \ {0})
    <3>1. MakeCall(Top.begin, limit, val, Top.callee) /\ val' = Top.begin
      BY <2>1, <2>8 DEF MakeCall
    <3>2. Top.callee # 0 /\ Top.begin # Top.callee
      BY <1>1, <1>3, <1>6, <2>3, <2>6, <2>8 DEF CalleeKept, HeldTwice
    <3>3. /\ Top.callee \in Node /\ Top.callee < pos /\ Top.callee \in Nat /\ ~IsChild(Top.callee)
      BY <2>5, <2>6, <3>2
    <3>4. /\ val # limit /\ val # Top.begin /\ val # Top.callee /\ ~IsChild(val)
          /\ val # 0 => InTree(val)
      <4>1. CASE val = 0
        <5>1. 0 \notin 1..(pos - 1)
          BY <1>3
        <5>2. ~IsChild(0)
          BY <1>3, <5>1 DEF Rooted
        <5>3. limit # 0
          BY <1>3
        <5>. QED BY <4>1, <5>2, <5>3, <1>6, <3>2
      <4>2. CASE val # 0
        <5>1. val \in Holds(0) /\ 0 \in Slots
          BY <4>2, <1>2, <1>3, <2>5 DEF Slots
        <5>2. val < pos /\ val \in Nat /\ ~IsChild(val) /\ val \notin Holds(n)
          BY <5>1, <2>6
        <5>3. InTree(val)
          BY <5>1 DEF InTree, IsOwned
        <5>4. val # limit
          BY <5>2, <1>3
        <5>. QED BY <5>2, <5>3, <5>4, <1>6, <2>5, <3>2
      <4>. QED BY <4>1, <4>2
    <3>5. /\ limit # Top.begin /\ limit # Top.callee /\ ~IsChild(limit) /\ limit # 0
      <4>1. limit \notin 1..(pos - 1)
        BY <1>3
      <4>2. ~IsChild(limit)
        BY <1>3, <4>1 DEF Rooted
      <4>. QED BY <4>2, <1>3, <2>6, <3>3
    <3>6. ~IsComma(Top.begin) /\ ~IsComma(limit)
      BY <1>3, <2>3, <2>6, <2>8, NotComma
    <3>7. CallParts(Top.begin, limit, val, Top.callee)
      BY <1>3, <1>6, <2>3, <2>6, <2>8, <3>3, <3>4, <3>5, <3>6 DEF CallParts
    <3>8. Handing(n - 1, Holds(0) \cup Holds(n), {limit}, linked)
      <4>1. \A x \in linked : x \in Holds(0) \cup Holds(n) \/ x \in {limit}
        BY <2>5, <3>2
      <4>2. \A x \in Holds(0)' : (x \in Holds(0) \cup Holds(n) \/ x \in {limit}) /\ x \notin linked
        BY <1>6, <2>5, <3>1, <3>2, <3>4, <3>5
      <4>3. \A x \in {limit} : x \in pos..(pos' - 1)
        BY <2>3
      <4>. HIDE DEF linked
      <4>. QED BY <1>1, <1>2, <1>3, <2>1, <2>2, <2>4, <4>1, <4>2, <4>3, PopHands DEF WaitingModes
    <3>9. \A x : x \in linked <=> x # 0 /\ x \in {limit, Top.callee, val}
      BY <3>2, <3>5
    <3>10. Top.begin < pos'
      BY <1>3, <2>1, <2>6
    <3>. HIDE DEF linked
    <3>. QED BY <1>1, <2>1, <2>3, <2>4, <3>1, <3>6, <3>7, <3>8, <3>9, <3>10, CallGrows
  <2>. QED BY <2>7, <2>8
<1>. QED BY <1>4, <1>5, <1>6

(***************************************************************************)
(* The trees of every run                                                  *)
(***************************************************************************)
LEMMA TreeInit ==
  ASSUME Init
  PROVE  TreeInv
<1>1. ParserInv /\ Places /\ Groups /\ Running
  BY ParserInit DEF Init, ParserInv, Running
<1>2. /\ input \in Inputs /\ pos = 1 /\ limit = Len(input) /\ val = 0 /\ mode = "primary"
      /\ kids = [n \in Node |-> <<>>]
  BY DEF Init, Node
<1>3. /\ Node = 1..Len(input) /\ Len(input) \in Nat \ {0} /\ input[Len(input)].type = "FILE_END"
      /\ input \in Seq(TokenSet)
  BY <1>2, InputFacts, InputsAssumption
<1>4. /\ DOMAIN stack = {1} /\ Len(stack) = 1
      /\ stack[1].kind = "group" /\ stack[1].begin = 0 /\ stack[1].callee = 0
  BY DEF Init
<1>5. \A n \in Node : kids[n] = <<>> /\ DOMAIN kids[n] = {}
  BY <1>2
<1>6. KidsTyped /\ Unshared /\ \A c : ~IsChild(c)
  <2>1. <<>> \in Seq(Node)
    OBVIOUS
  <2>. QED BY <2>1, <1>2, <1>5 DEF KidsTyped, Unshared, IsChild
<1>7. Slots = {0, 1} /\ \A i \in Slots : Holds(i) = {}
  <2>1. Slots = {0, 1}
    BY <1>4 DEF Slots
  <2>2. Holds(0) = {}
    BY <1>2 DEF Holds, InHand
  <2>3. Holds(1) = {}
    BY <1>4 DEF Holds, KeptBy
  <2>. QED BY <2>1, <2>2, <2>3
<1>8. Nested
  <2>1. pos <= limit /\ input[limit].type # "OPERATOR"
    BY <1>2, <1>3
  <2>. QED BY <2>1, <1>4 DEF Nested, IsGroup
<1>9. Apart
  BY <1>4, <1>7 DEF Apart, HeldTwice
<1>10. \A c : ~IsOwned(c)
  BY <1>7 DEF IsOwned
<1>11. Rooted /\ Untouched /\ LiveCommas
  BY <1>4, <1>5, <1>6, <1>10 DEF Rooted, Untouched, LiveCommas, InTree
<1>12. TypeOK
  <2>1. pos \in 1..limit
    BY <1>2, <1>3
  <2>. QED BY <2>1, <1>1, <1>2, <1>3, <1>6 DEF TypeOK, KidsTyped, Places
<1>. QED BY <1>6, <1>8, <1>9, <1>11, <1>12 DEF TreeInv, Trees

LEMMA TreeStep ==
  ASSUME ParserInv, ParserInv', TreeInv, [Next]_vars
  PROVE  TreeInv'
<1>1. CASE ParsePrimary
  BY <1>1, PrimaryGrows, PrefixGrows, IllegalGrows, PrefixOperandGrows DEF ParsePrimary
<1>2. CASE ParseGroup
  BY <1>2, OpenParenGrows, OpenCallGrows, PostfixGrows, LeaveGroupGrows DEF ParseGroup
<1>3. CASE ParseBinary
  BY <1>3, ExpressionGrows, ShiftGrows, RegroupGrows, ResumeGrows, AttachGrows, ReturnGrows
  DEF ParseBinary
<1>4. CASE UNCHANGED vars
  <2>1. /\ Node' = Node /\ NodeOrNull' = NodeOrNull /\ Running' = Running /\ Unshared' = Unshared
        /\ \A n : IsComma(n)' = IsComma(n) /\ IsChild(n)' = IsChild(n)
    BY <1>4 DEF vars, Node, NodeOrNull, Running, Unshared, IsComma, IsChild
  <2>2. \A i : /\ IsGroup(i)' = IsGroup(i) /\ Waits(i)' = Waits(i)
               /\ CalleeKept(i)' = CalleeKept(i)
    BY <1>4 DEF vars, IsGroup, Waits, CalleeKept
  <2>3. Slots' = Slots /\ \A i : Holds(i)' = Holds(i) /\ HeldTwice(i)' = HeldTwice(i)
    BY <1>4, <2>2 DEF vars, Slots, Holds, InHand, KeptBy, HeldTwice
  <2>4. \A n : IsOwned(n)' = IsOwned(n) /\ InTree(n)' = InTree(n)
    BY <2>1, <2>3 DEF IsOwned, InTree
  <2>5. TypeOK' = TypeOK
    BY <1>4, <2>1 DEF vars, TypeOK, Frame
  <2>6. Nested' = Nested
    BY <1>4, <2>2 DEF vars, Nested
  <2>7. Apart' = Apart /\ Rooted' = Rooted
    BY <1>4, <2>1, <2>3, <2>4 DEF vars, Apart, Rooted
  <2>8. Untouched' = Untouched /\ LiveCommas' = LiveCommas /\ KidsTyped' = KidsTyped
    BY <1>4, <2>1, <2>4 DEF vars, Untouched, LiveCommas, KidsTyped
  <2>. QED BY <2>1, <2>5, <2>6, <2>7, <2>8 DEF TreeInv, Trees
<1>. QED BY <1>1, <1>2, <1>3, <1>4 DEF Next

LEMMA TreeInvHolds == Spec => []TreeInv
<1>1. Init => TreeInv
  BY TreeInit
<1>2. ParserInv /\ ParserInv' /\ TreeInv /\ [Next]_vars => TreeInv'
  BY TreeStep
<1>. QED BY <1>1, <1>2, ParserInvHolds, PTL DEF Spec

\* Whatever the tokens, the parser stays inside its own copy of them, a node's
\* children are nodes and every invocation has its locals: no child of a comma
\* is read that is not there.
THEOREM NodesStayTyped == Spec => []TypeOK
<1>1. TreeInv => TypeOK
  BY DEF TreeInv
<1>. QED BY <1>1, TreeInvHolds, PTL

\* Whatever the tokens, no node is linked twice: not by two invocations that
\* both believe they own it, and not when a call takes its arguments from below
\* the commas between them.
THEOREM LinkedOnce == Spec => []OneParent
<1>1. ASSUME Unshared PROVE OneParent
  <2>1. SUFFICES ASSUME NEW n \in Node
                 PROVE  Cardinality({e \in Node \X Node :
                          e[2] \in DOMAIN kids[e[1]] /\ kids[e[1]][e[2]] = n}) <= 1
    BY DEF OneParent
  <2>. DEFINE S == {e \in Node \X Node : e[2] \in DOMAIN kids[e[1]] /\ kids[e[1]][e[2]] = n}
  <2>2. \A d, e \in S : d = e
    BY <1>1 DEF Unshared
  <2>3. Cardinality(S) <= 1
    <3>. HIDE DEF S
    <3>1. CASE S = {}
      <4>1. Cardinality(S) = 0
        BY <3>1, FS_EmptySet
      <4>. QED BY <4>1
    <3>2. CASE S # {}
      <4>1. PICK e : S = {e}
        BY <2>2, <3>2
      <4>2. Cardinality(S) = 1
        BY <4>1, FS_Singleton
      <4>. QED BY <4>2
    <3>. QED BY <3>1, <3>2
  <2>. QED BY <2>3
<1>2. TreeInv => OneParent
  BY <1>1 DEF TreeInv
<1>. QED BY <1>2, TreeInvHolds, PTL
===============================================================================
