---------------------------- MODULE StatementProofs ----------------------------
(***************************************************************************)
(* Proofs about StatementParser, for every set of token lists: the parser  *)
(* stays inside the list, a node that was handed to its parent is          *)
(* complete, the tree is in the order of the source, every end closes the  *)
(* block it stands at, and no statement is lost.                           *)
(*                                                                         *)
(* The later theorems argue about the shape a step has, whichever          *)
(* statement it reads (NextShape): it reads one statement, opens a block,  *)
(* enters the body of a type, hands a node to its parent and stays there   *)
(* or leaves it too, closes a block or a body, or fails.                   *)
(***************************************************************************)
EXTENDS StatementParser, NatFacts, SequenceTheorems

(***************************************************************************)
(* The token list                                                          *)
(***************************************************************************)

\* A token list ends with its only FILE_END; where an operator stands there is
\* nothing else.
LEMMA Tokens ==
  ASSUME input \in Inputs
  PROVE  /\ input \in Seq(TokenSet) /\ Last \in Nat \ {0}
         /\ \A p \in 1..Last : /\ input[p] \in TokenSet /\ TypeAt(p) \in TokenTypes
                               /\ TypeAt(p) = "FILE_END" <=> p = Last
<1>1. input \in Seq(TokenSet) /\ input # <<>>
      /\ \A k \in DOMAIN input : input[k].type = "FILE_END" <=> k = Len(input)
  BY InputsAssumption
<1>2. Last \in Nat \ {0} /\ DOMAIN input = 1..Last
  BY <1>1 DEF Last
<1>3. \A p \in 1..Last : input[p] \in TokenSet
  BY <1>1, <1>2
<1>4. \A t \in TokenSet : t.type \in TokenTypes
  BY DEF TokenSet
<1>. QED BY <1>1, <1>2, <1>3, <1>4 DEF TypeAt, Last

\* Skipping goes on, except from the last token.
LEMMA Skip ==
  ASSUME input \in Inputs, NEW p \in 1..Last
  PROVE  /\ SkipFrom(p) \in p..Last /\ SkipFrom(p) \in 1..Last
         /\ TypeAt(p) # "FILE_END" => SkipFrom(p) = p + 1 /\ p + 1 \in 1..Last
<1>1. Last \in Nat \ {0} /\ (TypeAt(p) = "FILE_END" <=> p = Last)
  BY Tokens
<1>. QED BY <1>1 DEF SkipFrom

\* Among the tokens from p on there is a first one with a property the last
\* one has.
LEMMA FirstOf ==
  ASSUME input \in Inputs, NEW p \in 1..Last, NEW S, Last \in S
  PROVE  \E q \in p..Last : q \in S /\ \A i \in p..(q - 1) : i \notin S
<1>1. Last \in Nat \ {0}
  BY Tokens
<1>2. {q \in p..Last : q \in S} \in SUBSET Nat
  BY <1>1
<1>3. Last \in {q \in p..Last : q \in S}
  BY <1>1
<1>4. PICK m \in {q \in p..Last : q \in S} : \A k \in {q \in p..Last : q \in S} : m <= k
  BY <1>2, <1>3, LeastNumber
<1>5. \A i \in p..(m - 1) : i \in p..Last /\ ~(m <= i)
  BY <1>1, <1>4
<1>. QED BY <1>4, <1>5

\* An expression ends, and has terminals and operators only.
LEMMA ExprEnds ==
  ASSUME input \in Inputs, NEW p \in 1..Last
  PROVE  LET e == ExprEnd(input, p) IN
         /\ e \in p..Last
         /\ \A i \in p..(e - 1) : TypeAt(i) \in TerminalTypes \cup {"OPERATOR"}
         /\ TypeAt(p) \notin TerminalTypes => e = p
<1>. DEFINE S == {q \in p..Last : ~Alternates(input, p, q)}
            Ends(q) == q \in p..Len(input) /\ (\A i \in p..(q - 1) : Alternates(input, p, i))
                         /\ ~Alternates(input, p, q)
<1>1. Last \in Nat \ {0} /\ Last = Len(input) /\ p \in Nat /\ p <= Last
  BY Tokens DEF Last
<1>2. ~Alternates(input, p, Last)
  <2>1. input[Last] \in TokenSet /\ TypeAt(Last) = "FILE_END"
    BY Tokens, <1>1
  <2>2. input[Last].type = "FILE_END" /\ input[Last].op = 0
    BY <2>1 DEF TokenSet, TypeAt
  <2>. QED BY <2>2 DEF Alternates, TerminalTypes
<1>3. \E q \in p..Last : q \in S /\ \A i \in p..(q - 1) : i \notin S
  <2>1. Last \in S
    BY <1>1, <1>2
  <2>. HIDE DEF S
  <2>. QED BY <2>1, FirstOf
<1>4. \E q : Ends(q)
  <2>1. PICK q \in p..Last : q \in S /\ \A i \in p..(q - 1) : i \notin S
    BY <1>3
  <2>2. \A i \in p..(q - 1) : i \in p..Last
    BY <1>1
  <2>. QED BY <1>1, <2>1, <2>2
<1>5. ExprEnd(input, p) = CHOOSE q \in p..Len(input) :
        (\A i \in p..(q - 1) : Alternates(input, p, i)) /\ ~Alternates(input, p, q)
  BY DEF ExprEnd
<1>6. Ends(ExprEnd(input, p))
  BY <1>4, <1>5
<1>7. \A i \in p..Last : Alternates(input, p, i) => TypeAt(i) \in TerminalTypes \cup {"OPERATOR"}
  <2>1. \A i \in p..Last : input[i] \in TokenSet
    BY Tokens, <1>1
  <2>. QED BY <2>1 DEF Alternates, TypeAt, TokenSet
<1>8. Alternates(input, p, p) <=> TypeAt(p) \in TerminalTypes
  BY <1>1 DEF Alternates, TypeAt
<1>. QED BY <1>1, <1>6, <1>7, <1>8

\* A list of types ends, and has identifiers and commas only.
LEMMA TypeListEnds ==
  ASSUME input \in Inputs, NEW p \in 1..Last
  PROVE  /\ TypeListEnd(p) \in p..Last
         /\ TypeAt(p) # "IDENTIFIER" => TypeListEnd(p) = p
<1>. DEFINE S == {q \in p..Last : ~InTurn(p, q)}
            Ends(q) == q \in p..Last /\ ~InTurn(p, q) /\ \A i \in p..(q - 1) : InTurn(p, i)
<1>1. Last \in Nat \ {0} /\ p \in Nat /\ p <= Last
  BY Tokens
<1>2. ~InTurn(p, Last)
  <2>1. input[Last] \in TokenSet /\ TypeAt(Last) = "FILE_END"
    BY Tokens, <1>1
  <2>2. input[Last].type = "FILE_END" /\ input[Last].op = 0
    BY <2>1 DEF TokenSet, TypeAt
  <2>. QED BY <2>1, <2>2 DEF InTurn, CommaAt, IsOp
<1>3. \E q \in p..Last : q \in S /\ \A i \in p..(q - 1) : i \notin S
  <2>1. Last \in S
    BY <1>1, <1>2
  <2>. HIDE DEF S
  <2>. QED BY <2>1, FirstOf
<1>4. \E q : Ends(q)
  <2>1. PICK q \in p..Last : q \in S /\ \A i \in p..(q - 1) : i \notin S
    BY <1>3
  <2>2. \A i \in p..(q - 1) : i \in p..Last
    BY <1>1
  <2>. QED BY <2>1, <2>2
<1>5. Ends(TypeListEnd(p))
  BY <1>4 DEF TypeListEnd
<1>6. InTurn(p, p) <=> TypeAt(p) = "IDENTIFIER"
  BY <1>1 DEF InTurn
<1>. QED BY <1>1, <1>5, <1>6

(***************************************************************************)
(* What the helpers leave                                                  *)
(***************************************************************************)

\* A helper that started at p fails or has read on, up to a token of the list.
Reads(o, p) ==
  /\ o \in Outcome /\ o.how \in {"ok"} \cup Failures
  /\ o.how = "ok" => o.pos \in p..Last

\* It may also leave nothing.
Tries(o, p) ==
  /\ o \in Outcome /\ o.how \in {"ok", "null"} \cup Failures
  /\ o.how \in {"ok", "null"} => o.pos \in p..Last

\* What Ok, Null and Fail say of a helper that started at p.
LEMMA Simplest ==
  ASSUME input \in Inputs, NEW p \in 1..Last, NEW q \in p..Last
  PROVE  /\ Reads(Ok(q), p) /\ Ok(q).how = "ok" /\ Ok(q).pos = q
         /\ Tries(Null(q), p) /\ Null(q).how = "null" /\ Null(q).pos = q
         /\ \A how \in Failures : Reads(Fail(how), p) /\ Fail(how).how = how
<1>1. p \in Nat /\ q \in Nat /\ 0 \in Nat
  BY Tokens
<1>2. \A how \in Failures : how # "ok"
  BY DEF Failures
<1>3. Ok(q) \in Outcome /\ Null(q) \in Outcome /\ \A how \in Failures : Fail(how) \in Outcome
  <2>. HIDE DEF Failures
  <2>. QED BY <1>1, <1>2 DEF Ok, Null, Fail, Outcome
<1>4. \A how : Fail(how).how = how
  BY DEF Fail
<1>5. \A how \in Failures : Reads(Fail(how), p)
  BY <1>2, <1>3, <1>4 DEF Reads
<1>6. Reads(Ok(q), p) /\ Tries(Null(q), p)
  <2>1. Ok(q).how = "ok" /\ Ok(q).pos = q /\ Null(q).how = "null" /\ Null(q).pos = q
    BY DEF Ok, Null
  <2>. QED BY <1>3, <2>1 DEF Reads, Tries
<1>. QED BY <1>4, <1>5, <1>6 DEF Ok, Null

\* What is left is left as well by a helper that started before, and by one that
\* may leave nothing.
LEMMA Wider ==
  ASSUME input \in Inputs, NEW p \in 1..Last, NEW q \in p..Last, NEW o
  PROVE  /\ Reads(o, q) => Reads(o, p) /\ Tries(o, p)
         /\ Tries(o, q) => Tries(o, p)
<1>1. Last \in Nat \ {0} /\ q..Last \subseteq p..Last
  BY Tokens
<1>. QED BY <1>1 DEF Reads, Tries, Failures

\* expect takes the token it is for, and no other.
LEMMA ExpectReads ==
  ASSUME input \in Inputs, NEW p \in 1..Last, NEW t
  PROVE  /\ Reads(Expect(p, t), p)
         /\ Expect(p, t).how = "ok" => TypeAt(p) = t /\ Expect(p, t).pos = SkipFrom(p)
<1>1. SkipFrom(p) \in p..Last
  BY Skip
<1>2. Reads(Ok(SkipFrom(p)), p) /\ Reads(Fail("error"), p) /\ Fail("error").how = "error"
      /\ Ok(SkipFrom(p)).pos = SkipFrom(p)
  BY <1>1, Simplest DEF Failures
<1>. QED BY <1>2 DEF Expect

\* A semicolon that is read is behind p.
LEMMA SemiReads ==
  ASSUME input \in Inputs, NEW p \in 1..Last
  PROVE  /\ Reads(Semi(p), p)
         /\ Semi(p).how = "ok" => Semi(p).pos \in (p + 1)..Last
<1>1. /\ Reads(Semi(p), p)
      /\ Semi(p).how = "ok" => TypeAt(p) = "SEMI" /\ Semi(p).pos = SkipFrom(p)
  BY ExpectReads DEF Semi
<1>2. TypeAt(p) = "SEMI" => SkipFrom(p) = p + 1 /\ p + 1 \in 1..Last
  BY Skip
<1>3. p \in Nat /\ Last \in Nat
  BY Tokens
<1>. QED BY <1>1, <1>2, <1>3

\* Instead of nothing, a failure.
LEMMA OrElseReads ==
  ASSUME NEW p, NEW o, Tries(o, p), NEW how \in Failures
  PROVE  /\ Reads(OrElse(o, how), p)
         /\ OrElse(o, how).how = "ok" => o.how = "ok" /\ OrElse(o, how).pos = o.pos
<1>1. o \in Outcome
  BY DEF Tries
<1>2. OrElse(o, how) = IF o.how = "null" THEN Fail(how) ELSE o
  BY <1>1 DEF OrElse
<1>3. Fail(how) \in Outcome /\ Fail(how).how = how /\ how # "ok"
  <2>1. how # "ok"
    BY DEF Failures
  <2>. QED BY <2>1 DEF Fail, Outcome
<1>. QED BY <1>2, <1>3 DEF Reads, Tries

\* An expression that is not empty begins with a terminal.
LEMMA ExpressionTries ==
  ASSUME input \in Inputs, NEW p \in 1..Last
  PROVE  /\ Tries(Expression(p), p) /\ Reads(SomeExpression(p), p)
         /\ Expression(p).how = "ok" =>
              /\ Expression(p).pos = ExprEnd(input, p)
              /\ TypeAt(p) \in TerminalTypes
         /\ SomeExpression(p).how = "ok" => TypeAt(p) \in TerminalTypes
<1>. DEFINE e == ExprEnd(input, p)
<1>1. e \in p..Last /\ (TypeAt(p) \notin TerminalTypes => e = p)
  BY ExprEnds
<1>2. p \in Nat
  BY Tokens
<1>3. TypeAt(p) \notin TerminalTypes => ExprEmpty(input, p) \/ ExprRejected(input, p)
  <2>1. e = p => OperandDue(input, p)
    BY <1>2 DEF OperandDue
  <2>. QED BY <1>1, <2>1 DEF ExprEmpty, ExprRejected, TypeAt
<1>. HIDE DEF e
<1>4. Expression(p) \in {Null(p), Fail("internal"), Fail("error"), Ok(e)}
      /\ (~ExprEmpty(input, p) /\ ~ExprRejected(input, p) <=> Expression(p).how = "ok")
      /\ (Expression(p).how = "ok" => Expression(p) = Ok(e))
  BY DEF Expression, e, Null, Fail, Ok
<1>5. Tries(Null(p), p) /\ Tries(Fail("internal"), p) /\ Tries(Fail("error"), p)
      /\ Tries(Ok(e), p) /\ Ok(e).pos = e
  <2>1. p \in p..Last
    BY Tokens
  <2>. QED BY <1>1, <2>1, Simplest, Wider DEF Failures
<1>6. Tries(Expression(p), p)
  BY <1>4, <1>5
<1>7. Reads(SomeExpression(p), p) /\ (SomeExpression(p).how = "ok" => Expression(p).how = "ok")
  <2>1. "internal" \in Failures
    BY DEF Failures
  <2>. QED BY <1>6, <2>1, OrElseReads DEF SomeExpression
<1>. QED BY <1>3, <1>4, <1>5, <1>6, <1>7 DEF e

\* A list of types that is read begins with an identifier.
LEMMA TypeListReads ==
  ASSUME input \in Inputs, NEW p \in 1..Last
  PROVE  /\ Reads(TypeList(p), p)
         /\ TypeList(p).how = "ok" => TypeAt(p) = "IDENTIFIER" /\ TypeList(p).pos = TypeListEnd(p)
<1>1. TypeListEnd(p) \in p..Last /\ (TypeAt(p) # "IDENTIFIER" => TypeListEnd(p) = p)
  BY TypeListEnds
<1>2. Reads(Ok(TypeListEnd(p)), p) /\ Ok(TypeListEnd(p)).pos = TypeListEnd(p)
      /\ Reads(Fail("error"), p) /\ Fail("error").how = "error"
  BY <1>1, Simplest DEF Failures
<1>3. p \in Nat
  BY Tokens
<1>4. TypeListEnd(p) = p => TypeList(p) = Fail("error")
  BY <1>3 DEF TypeList
<1>. QED BY <1>1, <1>2, <1>4 DEF TypeList

\* The arguments of a function: what they are is defined at every token.
LEMMA SigArgsDefined ==
  ASSUME input \in Inputs
  PROVE  \A p \in 1..Last :
           LET after == SkipFrom(TypeListEnd(p))
           IN  SigArgs[p] =
                 IF TypeList(p).how # "ok" THEN TypeList(p)
                 ELSE IF CommaAt(after) THEN SigArgs[SkipFrom(after)]
                 ELSE IF TypeAt(after) = "SQPAREN_RIGHT" THEN Ok(SkipFrom(after))
                 ELSE Fail("error")
<1>. DEFINE n == Last - 1
            After(p) == SkipFrom(TypeListEnd(p))
            goesOn == {p \in 1..Last : TypeList(p).how = "ok" /\ CommaAt(After(p))}
            Here(p) == IF TypeList(p).how # "ok" THEN TypeList(p)
                       ELSE IF TypeAt(After(p)) = "SQPAREN_RIGHT" THEN Ok(SkipFrom(After(p)))
                       ELSE Fail("error")
            Stop == {m \in 0..n : Last - m \notin goesOn}
            next == [m \in 0..n |-> Last - SkipFrom(After(Last - m))]
            V == {Here(p) : p \in 1..Last}
            here == [m \in 0..n |-> Here(Last - m)]
            Value(f, p) == IF TypeList(p).how # "ok" THEN TypeList(p)
                          ELSE IF CommaAt(After(p)) THEN f[SkipFrom(After(p))]
                          ELSE IF TypeAt(After(p)) = "SQPAREN_RIGHT" THEN Ok(SkipFrom(After(p)))
                          ELSE Fail("error")
<1>1. n \in Nat /\ Last \in Nat \ {0} /\ n = Last - 1 /\ \A m \in 0..n : Last - m \in 1..Last
  BY Tokens
<1>2. \A p \in goesOn : p \in 1..Last /\ SkipFrom(After(p)) \in (p + 1)..Last
  <2>. SUFFICES ASSUME NEW p \in goesOn PROVE SkipFrom(After(p)) \in (p + 1)..Last
    OBVIOUS
  <2>1. p \in 1..Last /\ CommaAt(After(p)) /\ TypeListEnd(p) \in p..Last
    BY TypeListEnds
  <2>2. TypeListEnd(p) \in 1..Last
    BY <1>1, <2>1
  <2>3. After(p) \in TypeListEnd(p)..Last /\ After(p) \in 1..Last
    BY <2>2, Skip
  <2>4. TypeAt(After(p)) # "FILE_END"
    <3>. HIDE DEF goesOn
    <3>1. input[After(p)] \in TokenSet
      BY <2>3, Tokens
    <3>2. input[After(p)].op # 0
      BY <2>1 DEF CommaAt, IsOp
    <3>. QED BY <3>1, <3>2 DEF TokenSet, TypeAt
  <2>5. SkipFrom(After(p)) = After(p) + 1 /\ After(p) + 1 \in 1..Last
    BY <2>3, <2>4, Skip
  <2>. HIDE DEF After, goesOn
  <2>. QED BY <1>1, <2>1, <2>3, <2>5
<1>3. Descends(n, Stop, next)
  <2>. SUFFICES ASSUME NEW m \in 0..n, m \notin Stop PROVE next[m] \in 0..(m - 1)
    BY DEF Descends
  <2>1. Last - m \in goesOn
    OBVIOUS
  <2>2. SkipFrom(After(Last - m)) \in (Last - m + 1)..Last
    <3>. HIDE DEF After, goesOn
    <3>. QED BY <1>2, <2>1
  <2>3. next[m] = Last - SkipFrom(After(Last - m))
    OBVIOUS
  <2>. HIDE DEF next, After, goesOn
  <2>. QED BY <1>1, <2>2, <2>3
<1>4. here \in [0..n -> V]
  BY <1>1
<1>5. PICK g \in [0..n -> V] :
        \A m \in 0..n : g[m] = IF m \in Stop THEN here[m] ELSE g[next[m]]
  <2>. HIDE DEF n, Stop, next, here, V
  <2>1. \E g \in [0..n -> V] : ClimbsTo(n, Stop, next, here, g)
    BY <1>1, <1>3, <1>4, ClimbDefined
  <2>. QED BY <2>1 DEF ClimbsTo
<1>. DEFINE f == [p \in 1..Last |-> g[Last - p]]
<1>6. \A p \in 1..Last : f[p] = Value(f, p)
  <2>. SUFFICES ASSUME NEW p \in 1..Last PROVE f[p] = Value(f, p)
    OBVIOUS
  <2>1. Last - p \in 0..n /\ Last - (Last - p) = p
    BY <1>1
  <2>2. f[p] = IF p \notin goesOn THEN Here(p) ELSE g[Last - SkipFrom(After(p))]
    <3>1. here[Last - p] = Here(p) /\ next[Last - p] = Last - SkipFrom(After(p))
          /\ (Last - p \in Stop <=> p \notin goesOn)
      <4>. HIDE DEF Here, After, goesOn
      <4>. QED BY <2>1
    <3>. HIDE DEF here, next, Stop, Here, After, goesOn
    <3>. QED BY <1>5, <2>1, <3>1
  <2>3. p \in goesOn => g[Last - SkipFrom(After(p))] = f[SkipFrom(After(p))]
    <3>1. p \in goesOn => SkipFrom(After(p)) \in 1..Last
      <4>. HIDE DEF goesOn, After
      <4>. QED BY <1>1, <1>2
    <3>. HIDE DEF goesOn, After
    <3>. QED BY <3>1
  <2>. HIDE DEF f
  <2>. QED BY <2>2, <2>3
<1>7. f = [p \in 1..Last |-> Value(f, p)]
  <2>. HIDE DEF Value
  <2>. QED BY <1>6
<1>8. SigArgs = CHOOSE h : h = [p \in 1..Last |-> Value(h, p)]
  BY DEF SigArgs
<1>9. SigArgs = [p \in 1..Last |-> Value(SigArgs, p)]
  <2>. DEFINE Fixed(h) == h = [p \in 1..Last |-> Value(h, p)]
  <2>1. Fixed(f) /\ SigArgs = CHOOSE h : Fixed(h)
    BY <1>7, <1>8
  <2>2. Fixed(SigArgs)
    <3>. HIDE DEF Fixed, f, Value
    <3>. QED BY <2>1
  <2>. QED BY <2>2
<1>. QED
  <2>1. \A p \in 1..Last : SigArgs[p] = Value(SigArgs, p)
    <3>. HIDE DEF Value
    <3>. QED BY <1>9
  <2>. QED BY <2>1

\* The arguments of a function end inside the list, though each one takes any
\* token for its name.
LEMMA SigArgsReads ==
  ASSUME input \in Inputs, NEW p \in 1..Last
  PROVE  Reads(SigArgs[p], p)
<1>. DEFINE n == Last - 1
            S == {m \in 0..n : Reads(SigArgs[Last - m], Last - m)}
<1>1. n \in Nat /\ Last \in Nat \ {0} /\ n = Last - 1 /\ \A m \in 0..n : Last - m \in 1..Last
  BY Tokens
<1>2. ASSUME NEW m \in 0..n, 0..(m - 1) \subseteq S PROVE m \in S
  <2>. DEFINE q == Last - m
              after == SkipFrom(TypeListEnd(q))
  <2>1. q \in 1..Last
    BY <1>1
  <2>2. TypeListEnd(q) \in q..Last /\ TypeListEnd(q) \in 1..Last
    BY <1>1, <2>1, TypeListEnds
  <2>3. after \in q..Last /\ after \in 1..Last
    <3>1. after \in TypeListEnd(q)..Last
      BY <2>2, Skip
    <3>. HIDE DEF after
    <3>. QED BY <1>1, <2>1, <2>2, <3>1
  <2>4. SkipFrom(after) \in q..Last /\ (TypeAt(after) # "FILE_END" => SkipFrom(after) \in (q + 1)..Last)
    <3>. HIDE DEF after
    <3>1. SkipFrom(after) \in after..Last
          /\ (TypeAt(after) # "FILE_END" => SkipFrom(after) = after + 1 /\ after + 1 \in 1..Last)
      BY <2>3, Skip
    <3>. HIDE DEF q
    <3>. QED BY <1>1, <2>1, <2>3, <3>1
  <2>5. Reads(Ok(SkipFrom(after)), q) /\ Reads(Fail("error"), q)
    <3>. HIDE DEF after, q
    <3>. QED BY <2>1, <2>4, Simplest DEF Failures
  <2>6. Reads(TypeList(q), q)
    BY <2>1, TypeListReads
  <2>7. CommaAt(after) => Reads(SigArgs[SkipFrom(after)], q)
    <3>. SUFFICES ASSUME CommaAt(after) PROVE Reads(SigArgs[SkipFrom(after)], q)
      OBVIOUS
    <3>. DEFINE r == SkipFrom(after)
    <3>1. r \in (q + 1)..Last
      <4>1. input[after] \in TokenSet /\ input[after].op # 0
        BY <2>3, Tokens DEF CommaAt, IsOp
      <4>2. TypeAt(after) # "FILE_END"
        BY <4>1 DEF TokenSet, TypeAt
      <4>. QED BY <2>4, <4>2
    <3>. HIDE DEF r
    <3>2. Last - r \in 0..(m - 1) /\ Last - (Last - r) = r /\ r \in q..Last
      BY <1>1, <3>1
    <3>3. Reads(SigArgs[r], r)
      <4>1. Last - r \in S
        BY <1>2, <3>2
      <4>. QED BY <3>2, <4>1
    <3>4. Reads(SigArgs[r], q)
      <4>. HIDE DEF q
      <4>. QED BY <2>1, <3>2, <3>3, Wider
    <3>. QED BY <3>4 DEF r
  <2>8. Reads(SigArgs[q], q)
    <3>1. SigArgs[q] = IF TypeList(q).how # "ok" THEN TypeList(q)
                       ELSE IF CommaAt(after) THEN SigArgs[SkipFrom(after)]
                       ELSE IF TypeAt(after) = "SQPAREN_RIGHT" THEN Ok(SkipFrom(after))
                       ELSE Fail("error")
      BY <2>1, SigArgsDefined
    <3>. HIDE DEF after, q
    <3>. QED BY <2>5, <2>6, <2>7, <3>1
  <2>. QED BY <2>8
<1>3. S \in SUBSET (0..n)
  OBVIOUS
<1>4. S = 0..n
  <2>. HIDE DEF S, n
  <2>. QED BY <1>1, <1>2, <1>3, SetInduction
<1>5. Last - p \in S /\ Last - (Last - p) = p
  <2>. HIDE DEF S
  <2>. QED BY <1>1, <1>4
<1>. QED BY <1>5

\* First a helper, then another from where it stopped.
LEMMA Stops ==
  ASSUME input \in Inputs, NEW p \in 1..Last, NEW o, Reads(o, p)
  PROVE  o \in Outcome /\ (o.how = "ok" => o.pos \in p..Last /\ o.pos \in 1..Last)
<1>1. Last \in Nat
  BY Tokens
<1>. QED BY <1>1 DEF Reads

\* The same of a helper that may leave nothing.
LEMMA StopsToo ==
  ASSUME input \in Inputs, NEW p \in 1..Last, NEW o, Tries(o, p)
  PROVE  o \in Outcome /\ (o.how \in {"ok", "null"} => o.pos \in p..Last /\ o.pos \in 1..Last)
<1>1. Last \in Nat
  BY Tokens
<1>. QED BY <1>1 DEF Tries

\* A declaration begins with its name, unless there is only a semicolon.
LEMMA DeclaredNameTries ==
  ASSUME input \in Inputs, NEW p \in 1..Last
  PROVE  /\ Tries(DeclaredName(p), p)
         /\ DeclaredName(p).how = "null" => TypeAt(p) = "SEMI"
         /\ DeclaredName(p).how = "ok" => TypeAt(p) \in {"DEFINE", "IDENTIFIER"}
<1>1. p \in p..Last
  BY Tokens
<1>2. CASE TypeAt(p) = "SEMI"
  <2>1. DeclaredName(p) = Null(p)
    BY <1>2 DEF DeclaredName
  <2>2. Tries(Null(p), p) /\ Null(p).how = "null"
    BY <1>1, Simplest
  <2>. QED BY <1>2, <2>1, <2>2
<1>3. CASE TypeAt(p) = "DEFINE"
  <2>1. DeclaredName(p) = Expect(SkipFrom(p), "IDENTIFIER")
    BY <1>3 DEF DeclaredName
  <2>2. SkipFrom(p) \in p..Last /\ SkipFrom(p) \in 1..Last
    BY Skip
  <2>3. Reads(DeclaredName(p), SkipFrom(p))
    BY <2>1, <2>2, ExpectReads
  <2>4. Tries(DeclaredName(p), p) /\ Reads(DeclaredName(p), p)
    BY <2>2, <2>3, Wider
  <2>. QED BY <1>3, <2>4 DEF Reads, Failures
<1>4. CASE TypeAt(p) \notin {"SEMI", "DEFINE"}
  <2>1. Reads(TypeList(p), p) /\ (TypeList(p).how = "ok" => TypeAt(p) = "IDENTIFIER")
    BY TypeListReads
  <2>2. TypeList(p) \in Outcome /\ (TypeList(p).how = "ok" => TypeList(p).pos \in p..Last
                                                            /\ TypeList(p).pos \in 1..Last)
    BY <2>1, Stops
  <2>3. DeclaredName(p) = Then(TypeList(p), LAMBDA q : Expect(q, "IDENTIFIER"))
    BY <1>4 DEF DeclaredName
  <2>4. DeclaredName(p) = IF TypeList(p).how = "ok" THEN Expect(TypeList(p).pos, "IDENTIFIER")
                          ELSE TypeList(p)
    BY <2>2, <2>3 DEF Then
  <2>5. TypeList(p).how = "ok" => Reads(Expect(TypeList(p).pos, "IDENTIFIER"), TypeList(p).pos)
    BY <2>2, ExpectReads
  <2>6. Reads(DeclaredName(p), p) /\ Tries(DeclaredName(p), p)
    BY <2>1, <2>2, <2>4, <2>5, Wider
  <2>. QED BY <1>4, <2>1, <2>4, <2>6 DEF Reads, Failures
<1>. QED BY <1>2, <1>3, <1>4

\* A declaration that is read begins with 'define' or a type.
LEMMA DeclarationTries ==
  ASSUME input \in Inputs, NEW p \in 1..Last
  PROVE  /\ Tries(Declaration(p), p)
         /\ TypeAt(p) # "SEMI" => Reads(Declaration(p), p)
         /\ Declaration(p).how = "ok" => TypeAt(p) \in {"DEFINE", "IDENTIFIER"}
<1>. DEFINE name == DeclaredName(p)
<1>1. /\ Tries(name, p)
      /\ name.how = "null" => TypeAt(p) = "SEMI"
      /\ name.how = "ok" => TypeAt(p) \in {"DEFINE", "IDENTIFIER"}
  BY DeclaredNameTries
<1>. HIDE DEF name
<1>2. name.how = "ok" => name.pos \in p..Last /\ name.pos \in 1..Last
  BY <1>1, StopsToo
<1>3. CASE HasInit(p)
  <2>1. name.how = "ok" /\ Declaration(p) = SomeExpression(SkipFrom(name.pos))
    BY <1>3 DEF HasInit, Declaration, name
  <2>2. SkipFrom(name.pos) \in name.pos..Last /\ SkipFrom(name.pos) \in 1..Last
    BY <1>2, <2>1, Skip
  <2>3. Reads(Declaration(p), SkipFrom(name.pos))
    BY <2>1, <2>2, ExpressionTries
  <2>4. Reads(Declaration(p), p) /\ Tries(Declaration(p), p)
    <3>1. SkipFrom(name.pos) \in p..Last
      BY <1>2, <2>1, <2>2, Tokens
    <3>. QED BY <2>3, <3>1, Wider
  <2>. QED BY <1>1, <2>1, <2>4
<1>4. CASE ~HasInit(p)
  <2>1. Declaration(p) = name
    BY <1>4 DEF Declaration, name
  <2>2. TypeAt(p) # "SEMI" => Reads(name, p)
    BY <1>1 DEF Reads, Tries
  <2>. QED BY <1>1, <2>1, <2>2
<1>. QED BY <1>3, <1>4

\* The parentheses of a function may be missing, and its return type.
LEMMA ArgListReads ==
  ASSUME input \in Inputs, NEW p \in 1..Last
  PROVE  Reads(ArgList(p), p)
<1>1. p \in p..Last
  BY Tokens
<1>2. SkipFrom(p) \in p..Last /\ SkipFrom(p) \in 1..Last
  BY Skip
<1>3. Reads(SigArgs[SkipFrom(p)], SkipFrom(p))
  BY <1>2, SigArgsReads
<1>4. Reads(SigArgs[SkipFrom(p)], p) /\ Reads(Ok(p), p)
  BY <1>1, <1>2, <1>3, Wider, Simplest
<1>. QED BY <1>4 DEF ArgList

\* The return type is a list of types, or none.
LEMMA ReturnTypeReads ==
  ASSUME input \in Inputs, NEW p \in 1..Last
  PROVE  Reads(ReturnType(p), p)
<1>1. p \in p..Last
  BY Tokens
<1>2. SkipFrom(p) \in p..Last /\ SkipFrom(p) \in 1..Last
  BY Skip
<1>3. Reads(TypeList(SkipFrom(p)), SkipFrom(p))
  BY <1>2, TypeListReads
<1>4. Reads(TypeList(SkipFrom(p)), p) /\ Reads(Ok(p), p)
  BY <1>1, <1>2, <1>3, Wider, Simplest
<1>. QED BY <1>4 DEF ReturnType

\* A function's header is read from after its keyword on.
LEMMA SignatureReads ==
  ASSUME input \in Inputs, NEW p \in 1..Last, NEW isForeign
  PROVE  Reads(Signature(p, isForeign), SkipFrom(p))
<1>. DEFINE q == SkipFrom(p)
            name == Name(q, isForeign)
            args == Then(name, ArgList)
<1>1. q \in 1..Last /\ q \in q..Last
  BY Skip, Tokens
<1>. HIDE DEF q
<1>2. Reads(name, q)
  <2>1. SkipFrom(q) \in q..Last
    BY <1>1, Skip
  <2>2. Reads(Ok(q), q) /\ Reads(Ok(SkipFrom(q)), q) /\ Reads(Fail("error"), q)
    BY <1>1, <2>1, Simplest DEF Failures
  <2>. QED BY <2>2 DEF Name
<1>3. name \in Outcome /\ (name.how = "ok" => name.pos \in q..Last /\ name.pos \in 1..Last)
  BY <1>1, <1>2, Stops
<1>4. args = IF name.how = "ok" THEN ArgList(name.pos) ELSE name
  BY <1>3 DEF Then
<1>. HIDE DEF name, args
<1>5. Reads(args, q)
  <2>1. name.how = "ok" => Reads(ArgList(name.pos), name.pos)
    BY <1>3, ArgListReads
  <2>. QED BY <1>1, <1>2, <1>3, <1>4, <2>1, Wider
<1>6. args \in Outcome /\ (args.how = "ok" => args.pos \in q..Last /\ args.pos \in 1..Last)
  BY <1>1, <1>5, Stops
<1>7. Signature(p, isForeign) = Then(args, ReturnType)
  BY DEF Signature, args, name, q
<1>8. Signature(p, isForeign) = IF args.how = "ok" THEN ReturnType(args.pos) ELSE args
  BY <1>6, <1>7 DEF Then
<1>9. args.how = "ok" => Reads(ReturnType(args.pos), args.pos)
  BY <1>6, ReturnTypeReads
<1>10. Reads(Signature(p, isForeign), q)
  BY <1>1, <1>5, <1>6, <1>8, <1>9, Wider
<1>. QED BY <1>10 DEF q

\* What is read has a semicolon after it.
LEMMA ThenSemi ==
  ASSUME input \in Inputs, NEW p \in 1..Last, NEW o, Reads(o, p)
  PROVE  /\ Reads(Then(o, Semi), p)
         /\ Then(o, Semi).how = "ok" => o.how = "ok" /\ Then(o, Semi).pos \in (p + 1)..Last
<1>1. o \in Outcome /\ (o.how = "ok" => o.pos \in p..Last /\ o.pos \in 1..Last)
  BY Stops
<1>2. Then(o, Semi) = IF o.how = "ok" THEN Semi(o.pos) ELSE o
  BY <1>1 DEF Then
<1>3. o.how = "ok" => /\ Reads(Semi(o.pos), o.pos)
                      /\ Semi(o.pos).how = "ok" => Semi(o.pos).pos \in (o.pos + 1)..Last
  BY <1>1, SemiReads
<1>4. Reads(Then(o, Semi), p)
  BY <1>1, <1>2, <1>3, Wider
<1>5. ASSUME Then(o, Semi).how = "ok" PROVE o.how = "ok" /\ Then(o, Semi).pos \in (p + 1)..Last
  <2>1. o.how = "ok"
    BY <1>2, <1>5
  <2>2. Then(o, Semi).pos \in (o.pos + 1)..Last /\ o.pos \in p..Last
    BY <1>1, <1>2, <1>3, <1>5, <2>1
  <2>3. p \in Nat /\ Last \in Nat
    BY Tokens
  <2>. QED BY <2>1, <2>2, <2>3
<1>. QED BY <1>4, <1>5

\* The header of a foreign function, and its semicolon.
LEMMA ForeignFunctionReads ==
  ASSUME input \in Inputs, NEW p \in 1..Last
  PROVE  Reads(ForeignFunction(p), SkipFrom(p))
<1>. DEFINE q == SkipFrom(p)
            o == Signature(q, TRUE)
<1>1. q \in 1..Last /\ SkipFrom(q) \in q..Last
  BY Skip
<1>2. Reads(o, SkipFrom(q))
  BY <1>1, SignatureReads
<1>3. Reads(o, q)
  <2>. HIDE DEF o, q
  <2>. QED BY <1>1, <1>2, Wider
<1>4. Reads(Then(o, Semi), q)
  <2>. HIDE DEF o, q
  <2>. QED BY <1>1, <1>3, ThenSemi
<1>. QED BY <1>4 DEF ForeignFunction

\* The block of an if follows it after terminals and operators.
LEMMA ConditionReads ==
  ASSUME input \in Inputs, NEW p \in 1..Last, TypeAt(p) = "IF"
  PROVE  LET c == Condition(p) IN
         /\ Reads(c, p + 1)
         /\ c.how = "ok" => IfBody(c.pos)
<1>. DEFINE q == p + 1
            c == Condition(p)
<1>1. q = SkipFrom(p) /\ q \in 1..Last /\ Last \in Nat
  BY Skip, Tokens
<1>2. /\ Tries(Expression(q), q)
      /\ Expression(q).how = "ok" => Expression(q).pos = ExprEnd(input, q)
  BY <1>1, ExpressionTries
<1>3. c = OrElse(Expression(q), "error") /\ "error" \in Failures
  BY <1>1 DEF Condition, Failures
<1>4. Reads(c, q) /\ (c.how = "ok" => c.pos = ExprEnd(input, q))
  <2>. HIDE DEF c, q
  <2>. QED BY <1>2, <1>3, OrElseReads
<1>5. ExprEnd(input, q) \in q..Last
      /\ \A i \in q..(ExprEnd(input, q) - 1) : TypeAt(i) \in TerminalTypes \cup {"OPERATOR"}
  BY <1>1, ExprEnds
<1>6. IfBody(ExprEnd(input, q))
  <2>1. p \in 1..(ExprEnd(input, q) - 1)
    BY <1>1, <1>5
  <2>. QED BY <1>5, <2>1 DEF IfBody, Follows
<1>. QED BY <1>4, <1>6

\* A part of a for must not be missing, except the last one.
LEMMA ForReads ==
  ASSUME input \in Inputs, NEW p \in 1..Last, TypeAt(p) = "FOR"
  PROVE  LET start == ForUpdates(p) IN
         LET updates == Then(start, Expression) IN
         /\ Reads(start, p + 1) /\ Tries(updates, p + 1)
         /\ updates.how \in {"ok", "null"} => start.how = "ok"
<1>. DEFINE q == p + 1
            init == OrElse(Declaration(q), "crash")
            first == Then(init, Semi)
            second == Then(first, LAMBDA r : OrElse(Expression(r), "crash"))
            start == Then(second, Semi)
            updates == Then(start, Expression)
<1>1. q = SkipFrom(p) /\ q \in 1..Last /\ "crash" \in Failures
  BY Skip, Tokens DEF Failures
<1>2. ForUpdates(p) = start
  BY <1>1 DEF ForUpdates
<1>. HIDE DEF q
<1>3. Reads(init, q)
  BY <1>1, DeclarationTries, OrElseReads
<1>. HIDE DEF init
<1>4. Reads(first, q)
  BY <1>1, <1>3, ThenSemi
<1>. HIDE DEF first
<1>5. first \in Outcome /\ (first.how = "ok" => first.pos \in q..Last /\ first.pos \in 1..Last)
  BY <1>1, <1>4, Stops
<1>6. second = IF first.how = "ok" THEN OrElse(Expression(first.pos), "crash") ELSE first
  BY <1>5 DEF Then
<1>. HIDE DEF second
<1>7. Reads(second, q)
  <2>1. first.how = "ok" => Reads(OrElse(Expression(first.pos), "crash"), first.pos)
    BY <1>1, <1>5, ExpressionTries, OrElseReads
  <2>. QED BY <1>1, <1>4, <1>5, <1>6, <2>1, Wider
<1>8. Reads(start, q)
  BY <1>1, <1>7, ThenSemi
<1>. HIDE DEF start
<1>9. start \in Outcome /\ (start.how = "ok" => start.pos \in q..Last /\ start.pos \in 1..Last)
  BY <1>1, <1>8, Stops
<1>10. updates = IF start.how = "ok" THEN Expression(start.pos) ELSE start
  BY <1>9 DEF Then
<1>. HIDE DEF updates
<1>11. Tries(updates, q)
  <2>1. start.how = "ok" => Tries(Expression(start.pos), start.pos)
    BY <1>9, ExpressionTries
  <2>2. Tries(start, q)
    <3>1. q \in q..Last
      BY <1>1, Tokens
    <3>. QED BY <1>1, <1>8, <3>1, Wider
  <2>. QED BY <1>1, <1>9, <1>10, <2>1, <2>2, Wider
<1>12. updates.how \in {"ok", "null"} => start.how = "ok"
  BY <1>8, <1>10 DEF Reads, Failures
<1>. QED BY <1>2, <1>8, <1>11, <1>12 DEF q, updates

\* Up to the 'do' of a type.
TypeHead(p) ==
  Then(Then(Expect(SkipFrom(p), "IDENTIFIER"), Ancestors), LAMBDA q : Expect(q, "DO"))

\* The types a type inherits from.
LEMMA AncestorsReads ==
  ASSUME input \in Inputs, NEW p \in 1..Last
  PROVE  Reads(Ancestors(p), p)
<1>. DEFINE from == SkipFrom(p)
            list == IF TypeAt(from) = "FROM" THEN SkipFrom(from) ELSE from
<1>1. p \in p..Last /\ from \in p..Last /\ from \in 1..Last
  BY Skip, Tokens
<1>. HIDE DEF from
<1>2. list \in p..Last /\ list \in 1..Last
  <2>1. SkipFrom(from) \in from..Last
    BY <1>1, Skip
  <2>. QED BY <1>1, <2>1, Tokens
<1>3. Ancestors(p) = IF TypeAt(p) # "INHERITS" THEN Ok(p) ELSE TypeList(list)
  BY DEF Ancestors, from
<1>. HIDE DEF list
<1>4. Reads(TypeList(list), list) /\ Reads(Ok(p), p)
  BY <1>1, <1>2, TypeListReads, Simplest
<1>. QED BY <1>2, <1>3, <1>4, Wider

\* The header of a type.
LEMMA TypeHeadReads ==
  ASSUME input \in Inputs, NEW p \in 1..Last, TypeAt(p) = "TYPE"
  PROVE  Reads(TypeHead(p), p + 1)
<1>. DEFINE q == p + 1
            name == Expect(q, "IDENTIFIER")
            head == Then(name, Ancestors)
            body == Then(head, LAMBDA r : Expect(r, "DO"))
<1>1. q = SkipFrom(p) /\ q \in 1..Last
  BY Skip
<1>2. TypeHead(p) = body
  BY <1>1 DEF TypeHead
<1>. HIDE DEF q
<1>3. Reads(name, q)
  BY <1>1, ExpectReads
<1>. HIDE DEF name
<1>4. name \in Outcome /\ (name.how = "ok" => name.pos \in q..Last /\ name.pos \in 1..Last)
  BY <1>1, <1>3, Stops
<1>5. head = IF name.how = "ok" THEN Ancestors(name.pos) ELSE name
  BY <1>4 DEF Then
<1>. HIDE DEF head
<1>6. Reads(head, q)
  <2>1. name.how = "ok" => Reads(Ancestors(name.pos), name.pos)
    BY <1>4, AncestorsReads
  <2>. QED BY <1>1, <1>3, <1>4, <1>5, <2>1, Wider
<1>7. head \in Outcome /\ (head.how = "ok" => head.pos \in q..Last /\ head.pos \in 1..Last)
  BY <1>1, <1>6, Stops
<1>8. body = IF head.how = "ok" THEN Expect(head.pos, "DO") ELSE head
  BY <1>7 DEF Then
<1>. HIDE DEF body
<1>9. Reads(body, q)
  <2>1. head.how = "ok" => Reads(Expect(head.pos, "DO"), head.pos)
    BY <1>7, ExpectReads
  <2>. QED BY <1>1, <1>6, <1>7, <1>8, <2>1, Wider
<1>. QED BY <1>2, <1>9 DEF q

\* The modifiers of a member end.
LEMMA ModifiersEnded ==
  ASSUME input \in Inputs, pos \in 1..Last
  PROVE  /\ ModifiersEnd \in pos..Last /\ TypeAt(ModifiersEnd) \notin Modifiers
         /\ \A i \in pos..(ModifiersEnd - 1) : TypeAt(i) \in Modifiers
<1>. DEFINE S == {q \in 1..Last : TypeAt(q) \notin Modifiers}
            Ends(q) == q \in pos..Last /\ TypeAt(q) \notin Modifiers
                         /\ \A i \in pos..(q - 1) : TypeAt(i) \in Modifiers
<1>1. Last \in Nat \ {0} /\ pos \in Nat /\ pos <= Last /\ TypeAt(Last) = "FILE_END"
  BY Tokens
<1>2. Last \in S
  BY <1>1 DEF Modifiers, Visibilities
<1>3. \E q \in pos..Last : q \in S /\ \A i \in pos..(q - 1) : i \notin S
  <2>1. \A p \in 1..Last : \E q \in p..Last : q \in S /\ \A i \in p..(q - 1) : i \notin S
    <3>. HIDE DEF S
    <3>. QED BY <1>2, FirstOf
  <2>. HIDE DEF S
  <2>. QED BY <2>1
<1>4. \E q : Ends(q)
  <2>1. PICK q \in pos..Last : q \in S /\ \A i \in pos..(q - 1) : i \notin S
    BY <1>3
  <2>2. \A i \in pos..(q - 1) : i \in 1..Last
    BY <1>1, <2>1
  <2>. QED BY <2>1, <2>2
<1>5. Ends(ModifiersEnd)
  BY <1>4 DEF ModifiersEnd
<1>. QED BY <1>5

(***************************************************************************)
(* The invariant                                                           *)
(***************************************************************************)

Running == mode \in {"block", "return", "else", "body"}
Children(n) == {kids[n][i] : i \in DOMAIN kids[n]}
Headed == {"FOR", "WHILE", "FUNCTION", "METHOD", "CONSTR"}

\* An if whose first block stopped at an else.
HalfIf(n) ==
  /\ Len(kids[n]) = 1 /\ IfBody(kids[n][1])
  /\ TypeAt(ends[kids[n][1]]) = "ELSE"

\* What the invocation f has built so far.
Built(f) ==
  LET n == f.node IN
  /\ f.kind = "block" =>
       ends[n] = 0 /\ (n # 0 => TypeAt(n) = "DO" /\ f.type # "ROOT_BLOCK")
  /\ f.kind = "type" => TypeAt(n) = "TYPE"
  /\ f.kind = "if" => TypeAt(n) = "IF" /\ (kids[n] = <<>> \/ HalfIf(n))
  /\ f.kind = "else" => TypeAt(n) = "IF" /\ HalfIf(n)
  /\ f.kind \in {"loop", "function"} => TypeAt(n) \in Headed /\ kids[n] = <<>>

\* n is what the invocation f waits for.
Awaits(f, n) ==
  /\ f.kind = "if" => kids[f.node] = <<>> /\ IfBody(n)
  /\ f.kind = "else" => n = ends[kids[f.node][1]] + 1
  /\ f.kind \in {"loop", "function"} => TypeAt(n) = "DO"

\* f may have made the invocation g.
Makes(f, g) ==
  /\ Awaits(f, g.node)
  /\ f.kind = "if" => g.kind = "block" /\ g.type = "IF_BLOCK"

\* A stack of invocations, from the one for the root block on.
Chain(s) ==
  /\ s # <<>> /\ s[1].node = 0 /\ s[1].kind = "block"
  /\ \A i \in DOMAIN s : Built(s[i])
  /\ \A i, j \in DOMAIN s : i < j => s[i].node < s[j].node
  /\ \A i \in 1..(Len(s) - 1) : Makes(s[i], s[i + 1])

StackInv ==
  /\ stack # <<>> /\ Chain(stack) /\ Top.node < pos
  /\ mode = "block" => Top.kind = "block"
  /\ mode = "body" => Top.kind = "type"
  /\ mode = "else" =>
       Top.kind = "if" /\ HalfIf(Top.node) /\ ends[kids[Top.node][1]] = pos - 1

\* What is returned is what is waited for; an if looks at the token before.
ReturnInv ==
  mode = "return" =>
    /\ Top.node < val /\ val < pos /\ TypeAt(val) # "END"
    /\ Awaits(Top, val) /\ Complete(val)
    /\ Top.kind = "if" => /\ ends[val] = pos - 1 /\ val < pos - 1
                          /\ TypeAt(pos - 1) \in {"END", "ELSE"}

\* Nothing is known yet of the tokens to come, nor ever of an 'end'.
FreshInv ==
  \A n \in Node : n >= pos \/ (n # 0 /\ TypeAt(n) = "END") => kids[n] = <<>> /\ ends[n] = 0

\* A child comes after its parent, is complete, and no invocation has it.
LinkInv ==
  \A n \in Node : \A c \in Children(n) :
    /\ n < c /\ c < pos /\ TypeAt(c) # "END"
    /\ \A i \in DOMAIN stack : stack[i].node # c
    /\ mode = "return" => c # val

IInv ==
  /\ input \in Inputs /\ TypeOK /\ LinkedComplete
  /\ Running => StackInv /\ ReturnInv /\ FreshInv /\ LinkInv

(***************************************************************************)
(* Stacks                                                                  *)
(***************************************************************************)

\* What the frames of the stack are.
LEMMA Frames ==
  ASSUME input \in Inputs
  PROVE  /\ \A f \in FrameSet : f.node \in Node /\ f.updates \in Node
         /\ \A k \in {"block", "if", "else", "loop", "function", "type"} : \A n \in Node :
              /\ Frame(k, n) \in FrameSet
              /\ Frame(k, n).kind = k /\ Frame(k, n).node = n
         /\ \A t \in {"ROOT_BLOCK", "CODE_BLOCK", "FUNCTION_BLOCK", "IF_BLOCK"} : \A n \in Node :
              /\ Block(n, t) \in FrameSet
              /\ Block(n, t).kind = "block" /\ Block(n, t).node = n /\ Block(n, t).type = t
         /\ \A n, u \in Node :
              /\ Loop(n, u) \in FrameSet
              /\ Loop(n, u).kind = "loop" /\ Loop(n, u).node = n /\ Loop(n, u).updates = u
<1>1. 0 \in Node
  BY Tokens DEF Node
<1>2. \A f \in FrameSet : f.node \in Node /\ f.updates \in Node
  BY DEF FrameSet
<1>3. \A k \in {"block", "if", "else", "loop", "function", "type"} : \A n \in Node :
        /\ Frame(k, n) \in FrameSet
        /\ Frame(k, n).kind = k /\ Frame(k, n).node = n
  BY <1>1 DEF Frame, FrameSet
<1>4. \A t \in {"ROOT_BLOCK", "CODE_BLOCK", "FUNCTION_BLOCK", "IF_BLOCK"} : \A n \in Node :
        /\ Block(n, t) \in FrameSet
        /\ Block(n, t).kind = "block" /\ Block(n, t).node = n /\ Block(n, t).type = t
  BY <1>1 DEF Block, Frame, FrameSet
<1>5. \A n, u \in Node :
        /\ Loop(n, u) \in FrameSet
        /\ Loop(n, u).kind = "loop" /\ Loop(n, u).node = n /\ Loop(n, u).updates = u
  BY <1>1 DEF Loop, Frame, FrameSet
<1>. QED BY <1>2, <1>3, <1>4, <1>5

\* The nodes of the tokens are what they are as long as the tokens do not change.
LEMMA SameTokens ==
  ASSUME input' = input
  PROVE  /\ Last' = Last /\ Node' = Node /\ FrameSet' = FrameSet
         /\ \A n : /\ TypeAt(n)' = TypeAt(n) /\ (IfBody(n)' <=> IfBody(n))
                   /\ Foreigner(n)' <=> Foreigner(n)
<1>1. Last' = Last /\ \A n : TypeAt(n)' = TypeAt(n)
  BY DEF Last, TypeAt
<1>2. Node' = Node
  BY <1>1 DEF Node
<1>3. FrameSet' = FrameSet
  BY <1>2 DEF FrameSet
<1>4. \A n : IfBody(n)' <=> IfBody(n)
  BY <1>1 DEF IfBody, Follows
<1>5. \A n : Foreigner(n)' <=> Foreigner(n)
  BY <1>1 DEF Foreigner
<1>. QED BY <1>1, <1>2, <1>3, <1>4, <1>5

\* A chain goes on with an invocation that its last one may have made.
LEMMA Push ==
  ASSUME input \in Inputs, NEW s \in Seq(FrameSet), Chain(s), NEW f \in FrameSet,
         Built(f), Makes(s[Len(s)], f), s[Len(s)].node < f.node
  PROVE  /\ Append(s, f) \in Seq(FrameSet) /\ Chain(Append(s, f))
         /\ Len(Append(s, f)) = Len(s) + 1 /\ Append(s, f)[Len(s) + 1] = f
<1>. DEFINE t == Append(s, f)
            L == Len(s)
<1>1. L \in Nat \ {0} /\ DOMAIN s = 1..L
  BY DEF Chain
<1>2. /\ t \in Seq(FrameSet) /\ Len(t) = L + 1 /\ DOMAIN t = 1..(L + 1)
      /\ t[L + 1] = f /\ \A i \in 1..L : t[i] = s[i]
  OBVIOUS
<1>3. s[1].node = 0 /\ s[1].kind = "block" /\ (\A i \in 1..L : Built(s[i]))
      /\ (\A i, j \in 1..L : i < j => s[i].node < s[j].node)
      /\ (\A i \in 1..(L - 1) : Makes(s[i], s[i + 1]))
  BY <1>1 DEF Chain
<1>4. Last \in Nat /\ \A g \in FrameSet : g.node \in Nat
  BY Tokens, Frames DEF Node
<1>5. \A i \in 1..L : s[i] \in FrameSet
  BY <1>1
<1>. HIDE DEF t, L
<1>6. t # <<>> /\ t[1].node = 0 /\ t[1].kind = "block" /\ \A i \in 1..(L + 1) : Built(t[i])
  BY <1>1, <1>2, <1>3
<1>7. ASSUME NEW i \in 1..(L + 1), NEW j \in 1..(L + 1), i < j
      PROVE  t[i].node < t[j].node
  <2>1. CASE j \in 1..L
    <3>1. i \in 1..L
      BY <1>1, <1>7, <2>1
    <3>. QED BY <1>2, <1>3, <1>7, <2>1, <3>1
  <2>2. CASE j = L + 1
    <3>1. i \in 1..L /\ L \in 1..L
      BY <1>1, <1>7, <2>2
    <3>2. s[i].node \in Nat /\ s[L].node \in Nat /\ f.node \in Nat
      BY <1>4, <1>5, <3>1
    <3>3. s[i].node < f.node
      <4>1. CASE i = L
        BY <4>1 DEF L
      <4>2. CASE i # L
        <5>1. s[i].node < s[L].node
          BY <1>1, <1>3, <3>1, <4>2
        <5>2. s[L].node < f.node
          BY DEF L
        <5>. QED BY <3>2, <5>1, <5>2
      <4>. QED BY <4>1, <4>2
    <3>. QED BY <1>2, <2>2, <3>1, <3>3
  <2>. QED BY <1>1, <2>1, <2>2
<1>8. ASSUME NEW i \in 1..L PROVE Makes(t[i], t[i + 1])
  <2>1. CASE i = L
    BY <1>2, <2>1 DEF L
  <2>2. CASE i # L
    <3>1. i \in 1..(L - 1) /\ i + 1 \in 1..L
      BY <1>1, <2>2
    <3>. QED BY <1>2, <1>3, <3>1
  <2>. QED BY <2>1, <2>2
<1>9. Len(t) - 1 = L
  BY <1>1, <1>2
<1>10. Chain(t)
  BY <1>2, <1>6, <1>7, <1>8, <1>9 DEF Chain
<1>. QED BY <1>2, <1>10 DEF t, L

\* A chain without its last invocation is one, unless that is the root block.
LEMMA Pop ==
  ASSUME input \in Inputs, NEW s \in Seq(FrameSet), Chain(s), s[Len(s)].node # 0
  PROVE  LET t == SubSeq(s, 1, Len(s) - 1) IN
         /\ t \in Seq(FrameSet) /\ Chain(t) /\ Len(s) > 1 /\ Len(t) = Len(s) - 1
         /\ Makes(t[Len(t)], s[Len(s)])
         /\ \A i \in DOMAIN t : t[i] = s[i] /\ i \in DOMAIN s /\ t[i].node < s[Len(s)].node
<1>. DEFINE t == SubSeq(s, 1, Len(s) - 1)
            L == Len(s)
<1>1. L \in Nat \ {0} /\ DOMAIN s = 1..L
  BY DEF Chain
<1>2. s[1].node = 0 /\ s[1].kind = "block" /\ (\A i \in 1..L : Built(s[i]))
      /\ (\A i, j \in 1..L : i < j => s[i].node < s[j].node)
      /\ (\A i \in 1..(L - 1) : Makes(s[i], s[i + 1]))
  BY <1>1 DEF Chain
<1>3. L > 1
  BY <1>1, <1>2
<1>4. /\ t \in Seq(FrameSet) /\ Len(t) = L - 1 /\ DOMAIN t = 1..(L - 1)
      /\ \A i \in 1..(L - 1) : t[i] = s[i]
  BY <1>1, <1>3
<1>5. \A i \in 1..(L - 1) : i \in 1..L /\ i < L
  BY <1>1
<1>6. \A i \in 1..(L - 1) : s[i].node < s[L].node
  BY <1>1, <1>2, <1>5
<1>7. Makes(t[L - 1], s[L])
  <2>1. L - 1 \in 1..(L - 1) /\ (L - 1) + 1 = L
    BY <1>1, <1>3
  <2>. HIDE DEF t, L
  <2>2. Makes(s[L - 1], s[(L - 1) + 1])
    BY <1>2, <2>1
  <2>. QED BY <1>4, <2>1, <2>2
<1>8. Chain(t)
  <2>. HIDE DEF t, L
  <2>1. t # <<>> /\ t[1].node = 0 /\ t[1].kind = "block" /\ \A i \in 1..(L - 1) : Built(t[i])
    <3>1. 1 \in 1..(L - 1) /\ Len(t) # 0
      BY <1>1, <1>3, <1>4
    <3>2. t # <<>>
      BY <1>4, <3>1
    <3>. QED BY <1>2, <1>4, <1>5, <3>1, <3>2
  <2>2. \A i, j \in 1..(L - 1) : i < j => t[i].node < t[j].node
    BY <1>2, <1>4, <1>5
  <2>3. \A i \in 1..(L - 2) : Makes(t[i], t[i + 1])
    <3>1. \A i \in 1..(L - 2) : i \in 1..(L - 1) /\ i + 1 \in 1..(L - 1)
      BY <1>1
    <3>. QED BY <1>2, <1>4, <3>1
  <2>4. Len(t) - 1 = L - 2
    BY <1>1, <1>4
  <2>. QED BY <1>4, <2>1, <2>2, <2>3, <2>4 DEF Chain
<1>. HIDE DEF t
<1>. QED BY <1>1, <1>3, <1>4, <1>5, <1>6, <1>7, <1>8 DEF t

\* A step leaves what the invocation f has built.
Leaves(f) ==
  LET n == f.node IN
  /\ f.kind = "block" => ends'[n] = ends[n]
  /\ f.kind \notin {"block", "type"} => kids'[n] = kids[n]
  /\ f.kind \in {"if", "else"} /\ kids[n] # <<>> => ends'[kids[n][1]] = ends[kids[n][1]]

\* What a step leaves alone stays built, and stays waited for.
LEMMA BuiltKept ==
  ASSUME input' = input
  PROVE  \A f : Leaves(f) /\ Built(f) =>
           Built(f)' /\ \A g : Makes(f, g) => Makes(f, g)'
<1>. SUFFICES ASSUME NEW f, Leaves(f), Built(f)
              PROVE  Built(f)' /\ \A g : Makes(f, g) => Makes(f, g)'
  OBVIOUS
<1>1. \A n : TypeAt(n)' = TypeAt(n) /\ (IfBody(n)' <=> IfBody(n))
  BY SameTokens
<1>. DEFINE n == f.node
<1>2. /\ f.kind = "block" => ends'[n] = ends[n]
      /\ f.kind \notin {"block", "type"} => kids'[n] = kids[n]
      /\ f.kind \in {"if", "else"} /\ kids[n] # <<>> => ends'[kids[n][1]] = ends[kids[n][1]]
  BY DEF Leaves
<1>3. HalfIf(n) => kids[n] # <<>>
  BY DEF HalfIf
<1>4. f.kind \in {"if", "else"} => (HalfIf(n) => HalfIf(n)')
  BY <1>1, <1>2, <1>3 DEF HalfIf
<1>5. CASE f.kind \in {"if", "else"}
  <2>1. kids'[n] = kids[n]
    BY <1>2, <1>5
  <2>2. Built(f)'
    BY <1>1, <1>4, <1>5, <2>1 DEF Built
  <2>3. f.kind = "else" => ends'[kids[n][1]] = ends[kids[n][1]]
    BY <1>2, <1>3 DEF Built
  <2>4. \A m : Awaits(f, m) => Awaits(f, m)'
    BY <1>1, <1>5, <2>1, <2>3 DEF Awaits
  <2>. QED BY <2>2, <2>4 DEF Makes
<1>6. CASE f.kind \notin {"if", "else"}
  <2>1. Built(f)'
    BY <1>1, <1>2, <1>6 DEF Built
  <2>2. \A m : Awaits(f, m) => Awaits(f, m)'
    BY <1>1, <1>6 DEF Awaits
  <2>. QED BY <2>1, <2>2 DEF Makes
<1>. QED BY <1>5, <1>6

\* All but the innermost left, the innermost as it must be afterwards.
LEMMA ChainTop ==
  ASSUME input' = input, NEW s, Chain(s), Len(s) \in Nat, DOMAIN s = 1..Len(s),
         \A i \in 1..(Len(s) - 1) : Leaves(s[i]),
         NEW top, top = s[Len(s)], Built(top)'
  PROVE  Chain(s)'
<1>1. s # <<>> /\ s[1].node = 0 /\ s[1].kind = "block"
      /\ (\A i \in DOMAIN s : Built(s[i]))
      /\ (\A i, j \in DOMAIN s : i < j => s[i].node < s[j].node)
      /\ (\A i \in 1..(Len(s) - 1) : Makes(s[i], s[i + 1]))
  BY DEF Chain
<1>2. \A i \in 1..(Len(s) - 1) : i \in DOMAIN s
  OBVIOUS
<1>3. \A i \in DOMAIN s : Built(s[i])'
  <2>1. \A i \in DOMAIN s : i = Len(s) \/ i \in 1..(Len(s) - 1)
    OBVIOUS
  <2>. QED BY <1>1, <1>2, <2>1, BuiltKept
<1>4. \A i \in 1..(Len(s) - 1) : Makes(s[i], s[i + 1])'
  <2>1. \A i \in 1..(Len(s) - 1) : \A g : Makes(s[i], g) => Makes(s[i], g)'
    BY <1>1, <1>2, BuiltKept
  <2>. QED BY <1>1, <2>1
<1>. QED BY <1>1, <1>3, <1>4 DEF Chain

\* All of them left.
LEMMA ChainKept ==
  ASSUME input' = input, NEW s, Chain(s), \A i \in DOMAIN s : Leaves(s[i]),
         Len(s) \in Nat, DOMAIN s = 1..Len(s)
  PROVE  Chain(s)'
<1>1. Len(s) \in DOMAIN s /\ \A i \in 1..(Len(s) - 1) : i \in DOMAIN s
  <2>1. Len(s) # 0
    BY DEF Chain
  <2>. QED BY <2>1
<1>2. Built(s[Len(s)])'
  BY <1>1, BuiltKept DEF Chain
<1>. QED BY <1>1, <1>2, ChainTop

\* A node stays complete as long as its children and their ends stay.
LEMMA CompleteKept ==
  ASSUME input' = input, NEW n, Complete(n), kids'[n] = kids[n], ends'[n] = ends[n],
         \A c \in Children(n) : ends'[c] = ends[c], Len(kids[n]) \in Nat,
         DOMAIN kids[n] = 1..Len(kids[n])
  PROVE  Complete(n)'
<1>1. \A m : /\ TypeAt(m)' = TypeAt(m) /\ (IfBody(m)' <=> IfBody(m))
             /\ Foreigner(m)' <=> Foreigner(m)
  BY SameTokens
<1>. DEFINE own == kids[n]
<1>2. Len(own) \in 1..2 => own[1] \in Children(n)
  BY DEF Children
<1>3. CASE TypeAt(n) = "IF"
  <2>1. /\ Len(own) \in 1..2 /\ IfBody(own[1])
        /\ IF Len(own) = 2 THEN own[2] = ends[own[1]] + 1 ELSE TypeAt(ends[own[1]]) = "END"
    BY <1>3 DEF Complete
  <2>2. ends'[own[1]] = ends[own[1]]
    BY <1>2, <2>1
  <2>3. /\ Len(own) \in 1..2 /\ IfBody(own[1])'
        /\ IF Len(own) = 2 THEN own[2] = ends'[own[1]] + 1
           ELSE TypeAt(ends[own[1]])' = "END"
    BY <1>1, <2>1, <2>2
  <2>. HIDE DEF own
  <2>. QED BY <1>1, <1>3, <2>1, <2>2 DEF Complete, own
<1>4. CASE TypeAt(n) \in {"FOR", "WHILE", "FUNCTION", "METHOD", "CONSTR"}
  <2>1. TypeAt(n)' \in {"FOR", "WHILE", "FUNCTION", "METHOD", "CONSTR"}
    BY <1>1, <1>4
  <2>2. Foreigner(n) \/ (Len(own) = 1 /\ TypeAt(own[1]) = "DO")
    BY <1>4 DEF Complete
  <2>. QED BY <1>1, <2>1, <2>2 DEF Complete
<1>5. CASE TypeAt(n) \in {"DO", "TYPE"}
  <2>1. TypeAt(n)' \in {"DO", "TYPE"} /\ ends[n] # 0
    BY <1>1, <1>5 DEF Complete
  <2>. QED BY <2>1 DEF Complete
<1>6. CASE TypeAt(n) \notin {"IF", "FOR", "WHILE", "FUNCTION", "METHOD", "CONSTR", "DO", "TYPE"}
  <2>1. own = <<>> /\ TypeAt(n)' = TypeAt(n)
    BY <1>1, <1>6 DEF Complete
  <2>. QED BY <1>6, <2>1 DEF Complete
<1>. QED BY <1>3, <1>4, <1>5, <1>6

(***************************************************************************)
(* What the invariant says of the innermost invocation                     *)
(***************************************************************************)

\* The types of the innermost invocation and of those below.
LEMMA TopFacts ==
  ASSUME IInv, Running
  PROVE  /\ input \in Inputs /\ Last \in Nat \ {0} /\ pos \in 1..Last /\ Node = 0..Last
         /\ stack \in Seq(FrameSet) /\ stack # <<>> /\ Len(stack) \in Nat \ {0}
         /\ DOMAIN stack = 1..Len(stack) /\ Len(stack) \in DOMAIN stack
         /\ Top \in FrameSet /\ Top = stack[Len(stack)]
         /\ Top.node \in Node /\ Top.node < pos /\ Top.updates \in Node
         /\ Rest \in Seq(FrameSet) /\ Len(Rest) = Len(stack) - 1
         /\ DOMAIN Rest = 1..(Len(stack) - 1)
         /\ \A i \in 1..(Len(stack) - 1) : Rest[i] = stack[i] /\ i \in DOMAIN stack
<1>1. input \in Inputs /\ TypeOK /\ stack # <<>> /\ Top.node < pos
  BY DEF IInv, StackInv
<1>2. Last \in Nat \ {0} /\ pos \in 1..Last /\ Node = 0..Last /\ stack \in Seq(FrameSet)
  BY <1>1, Tokens DEF TypeOK, Node
<1>3. Len(stack) \in Nat \ {0} /\ DOMAIN stack = 1..Len(stack) /\ Len(stack) \in DOMAIN stack
  BY <1>1, <1>2
<1>4. Top = stack[Len(stack)] /\ Top \in FrameSet
  BY <1>2, <1>3 DEF Top
<1>5. Top.node \in Node /\ Top.updates \in Node
  BY <1>1, <1>4, Frames
<1>6. /\ Rest \in Seq(FrameSet) /\ Len(Rest) = Len(stack) - 1
      /\ DOMAIN Rest = 1..(Len(stack) - 1)
      /\ \A i \in 1..(Len(stack) - 1) : Rest[i] = stack[i]
  BY <1>2, <1>3 DEF Rest
<1>. QED BY <1>1, <1>2, <1>3, <1>4, <1>5, <1>6

\* What the invariant says of them.
LEMMA StackFacts ==
  ASSUME IInv, Running
  PROVE  /\ Chain(stack) /\ Built(Top)
         /\ \A i \in DOMAIN stack : stack[i].node \in Nat /\ stack[i].node <= Top.node
         /\ Top.node = 0 => Top.kind = "block"
         /\ Top.kind = "block" /\ Top.type = "ROOT_BLOCK" => Top.node = 0
         /\ Top.node # 0 =>
              /\ Len(stack) > 1 /\ Chain(Rest) /\ Makes(Rest[Len(Rest)], Top)
              /\ \A i \in DOMAIN Rest : Rest[i].node \in Nat /\ Rest[i].node < Top.node
<1>1. /\ input \in Inputs /\ Node = 0..Last /\ stack \in Seq(FrameSet)
      /\ Len(stack) \in Nat \ {0} /\ DOMAIN stack = 1..Len(stack)
      /\ Top = stack[Len(stack)] /\ DOMAIN Rest = 1..(Len(stack) - 1)
      /\ \A i \in 1..(Len(stack) - 1) : Rest[i] = stack[i] /\ i \in DOMAIN stack
  BY TopFacts
<1>2. Chain(stack)
  BY DEF IInv, StackInv
<1>3. /\ stack[1].node = 0 /\ stack[1].kind = "block"
      /\ \A i \in DOMAIN stack : Built(stack[i])
      /\ \A i, j \in DOMAIN stack : i < j => stack[i].node < stack[j].node
  BY <1>2 DEF Chain
<1>4. \A i \in DOMAIN stack : stack[i] \in FrameSet /\ stack[i].node \in Nat
  <2>1. \A f \in FrameSet : f.node \in Nat
    BY <1>1, Frames
  <2>. QED BY <1>1, <2>1
<1>5. \A i \in DOMAIN stack : i # Len(stack) => stack[i].node < Top.node
  <2>1. \A L \in Nat \ {0} : L \in 1..L /\ \A i \in 1..L : i # L => i < L
    OBVIOUS
  <2>. QED BY <1>1, <1>3, <2>1
<1>6. \A i \in DOMAIN stack : stack[i].node <= Top.node
  <2>. SUFFICES ASSUME NEW i \in DOMAIN stack PROVE stack[i].node <= Top.node
    OBVIOUS
  <2>1. Top.node \in Nat
    BY <1>1, <1>4
  <2>. QED BY <1>1, <1>4, <1>5, <2>1
<1>7. Built(Top)
  BY <1>1, <1>3
<1>8. Top.node = 0 => Top.kind = "block"
  <2>1. 1 \in DOMAIN stack
    BY <1>1
  <2>2. CASE Len(stack) = 1
    BY <1>1, <1>3, <2>2
  <2>3. CASE Len(stack) # 1
    <3>1. stack[1].node < Top.node
      BY <1>1, <1>5, <2>1, <2>3
    <3>. QED BY <1>3, <3>1
  <2>. QED BY <2>2, <2>3
<1>9. Top.kind = "block" /\ Top.type = "ROOT_BLOCK" => Top.node = 0
  BY <1>7 DEF Built
<1>10. Top.node # 0 =>
         /\ Len(stack) > 1 /\ Chain(Rest) /\ Makes(Rest[Len(Rest)], Top)
         /\ \A i \in DOMAIN Rest : Rest[i].node \in Nat /\ Rest[i].node < Top.node
  <2>. SUFFICES ASSUME Top.node # 0
                PROVE  /\ Len(stack) > 1 /\ Chain(Rest) /\ Makes(Rest[Len(Rest)], Top)
                       /\ \A i \in DOMAIN Rest : Rest[i].node \in Nat /\ Rest[i].node < Top.node
    OBVIOUS
  <2>1. stack[Len(stack)].node # 0
    BY <1>1
  <2>2. /\ Chain(Rest) /\ Len(stack) > 1 /\ Makes(Rest[Len(Rest)], stack[Len(stack)])
        /\ \A i \in DOMAIN Rest : Rest[i] = stack[i] /\ i \in DOMAIN stack
                                  /\ Rest[i].node < stack[Len(stack)].node
    BY <1>1, <1>2, <2>1, Pop DEF Rest
  <2>3. \A i \in DOMAIN Rest : Rest[i].node \in Nat
    BY <1>4, <2>2
  <2>. QED BY <1>1, <2>2, <2>3
<1>. QED BY <1>2, <1>4, <1>6, <1>7, <1>8, <1>9, <1>10

\* What the invariant says of the children of a node, and of the tokens to come.
LEMMA LinkFacts ==
  ASSUME IInv
  PROVE  /\ kids \in [Node -> Seq(Node)] /\ ends \in [Node -> Node] /\ val \in Node
         /\ \A n \in Node :
              /\ kids[n] \in Seq(Node) /\ Len(kids[n]) \in Nat
              /\ DOMAIN kids[n] = 1..Len(kids[n]) /\ Children(n) \in SUBSET Node
         /\ \A n \in Node : \A c \in Children(n) : Complete(c)
         /\ Running => \A n \in Node : \A c \in Children(n) :
              /\ n < c /\ c < pos /\ TypeAt(c) # "END" /\ c # Top.node
              /\ \A i \in DOMAIN stack : stack[i].node # c
              /\ mode = "return" => c # val
         /\ Running => \A n \in Node : n >= pos \/ (n # 0 /\ TypeAt(n) = "END") =>
              kids[n] = <<>> /\ ends[n] = 0 /\ Children(n) = {}
<1>1. kids \in [Node -> Seq(Node)] /\ ends \in [Node -> Node] /\ val \in Node
  BY DEF IInv, TypeOK
<1>2. \A n \in Node : /\ kids[n] \in Seq(Node) /\ Len(kids[n]) \in Nat
                      /\ DOMAIN kids[n] = 1..Len(kids[n])
  BY <1>1
<1>3. \A n \in Node : Children(n) \in SUBSET Node
  BY <1>2 DEF Children
<1>4. \A n \in Node : \A c \in Children(n) : Complete(c)
  BY DEF IInv, LinkedComplete, Children
<1>5. ASSUME Running, NEW n \in Node, NEW c \in Children(n)
      PROVE  /\ n < c /\ c < pos /\ TypeAt(c) # "END" /\ c # Top.node
             /\ \A i \in DOMAIN stack : stack[i].node # c
             /\ mode = "return" => c # val
  <2>1. LinkInv
    BY <1>5 DEF IInv
  <2>2. Len(stack) \in DOMAIN stack /\ Top = stack[Len(stack)]
    BY <1>5, TopFacts
  <2>. QED BY <2>1, <2>2 DEF LinkInv
<1>6. ASSUME Running, NEW n \in Node, n >= pos \/ (n # 0 /\ TypeAt(n) = "END")
      PROVE  kids[n] = <<>> /\ ends[n] = 0 /\ Children(n) = {}
  <2>1. kids[n] = <<>> /\ ends[n] = 0
    BY <1>6 DEF IInv, FreshInv
  <2>. QED BY <2>1 DEF Children
<1>. QED BY <1>1, <1>2, <1>3, <1>4, <1>5, <1>6

(***************************************************************************)
(* Steps                                                                   *)
(***************************************************************************)

\* A linked node stays complete when neither it nor what it consists of ends anew.
LEMMA LinkedKept ==
  ASSUME IInv, input' = input, kids' = kids,
         \A n \in Node : \A c \in Children(n) : ends'[c] = ends[c]
  PROVE  LinkedComplete'
<1>1. Node' = Node
  BY SameTokens
<1>2. ASSUME NEW n \in Node, NEW i \in DOMAIN kids[n]
      PROVE  Complete(kids[n][i])'
  <2>. DEFINE c == kids[n][i]
  <2>1. c \in Children(n)
    BY DEF Children
  <2>2. c \in Node /\ Complete(c) /\ ends'[c] = ends[c]
    BY <2>1, LinkFacts
  <2>3. Len(kids[c]) \in Nat /\ DOMAIN kids[c] = 1..Len(kids[c])
        /\ \A d \in Children(c) : ends'[d] = ends[d]
    BY <2>2, LinkFacts
  <2>4. \A m : /\ Complete(m) /\ ends'[m] = ends[m] /\ \A d \in Children(m) : ends'[d] = ends[d]
               /\ Len(kids[m]) \in Nat /\ DOMAIN kids[m] = 1..Len(kids[m])
               => Complete(m)'
    BY CompleteKept
  <2>. HIDE DEF c
  <2>5. \A m : m = c => Complete(m)'
    BY <2>2, <2>3, <2>4
  <2>. QED BY <2>5 DEF c
<1>3. \A n \in Node : \A i \in DOMAIN kids[n] : Complete(kids[n][i])'
  BY <1>2
<1>. QED BY <1>1, <1>3 DEF LinkedComplete

\* A parser that fails leaves everything as it is.
LEMMA FailStep ==
  ASSUME IInv, NEW how \in Failures, Ended(how)
  PROVE  IInv'
<1>1. /\ UNCHANGED <<input, pos, kids, ends, stack, val>> /\ mode' \in Failures
  BY DEF Ended
<1>2. Node' = Node /\ FrameSet' = FrameSet /\ Last' = Last
  BY <1>1, SameTokens
<1>3. TypeOK'
  BY <1>1, <1>2 DEF IInv, TypeOK
<1>4. LinkedComplete'
  BY <1>1, LinkedKept
<1>5. ~Running'
  BY <1>1 DEF Running, Failures
<1>. QED BY <1>1, <1>3, <1>4, <1>5 DEF IInv

\* A step that only reads on: s waits afterwards.
LEMMA ReadOn ==
  ASSUME IInv, Running, UNCHANGED <<input, kids, ends>>, pos' \in pos..Last,
         NEW s \in Seq(FrameSet), stack' = s, Chain(s),
         \A i \in DOMAIN s : s[i].node >= pos \/ \E j \in DOMAIN stack : s[i].node = stack[j].node
  PROVE  /\ Chain(stack)' /\ LinkedComplete' /\ FreshInv'
         /\ (mode' = "return" => val' >= pos) => LinkInv'
<1>1. Node' = Node /\ \A n : TypeAt(n)' = TypeAt(n)
  BY SameTokens
<1>2. pos \in 1..Last /\ Last \in Nat /\ Node = 0..Last
  BY TopFacts
<1>3. pos' \in Nat /\ pos' >= pos
  BY <1>2
<1>4. LinkedComplete'
  BY LinkedKept
<1>5. Chain(s)'
  <2>1. \A i \in DOMAIN s : Leaves(s[i])
    BY DEF Leaves
  <2>2. Len(s) \in Nat /\ DOMAIN s = 1..Len(s)
    OBVIOUS
  <2>. QED BY <2>1, <2>2, ChainKept
<1>6. Chain(stack)'
  BY <1>5
<1>7. FreshInv'
  <2>1. \A n \in Node : n >= pos \/ (n # 0 /\ TypeAt(n) = "END") => kids[n] = <<>> /\ ends[n] = 0
    BY DEF IInv, FreshInv
  <2>2. \A n \in Node : n >= pos' => n >= pos
    BY <1>2, <1>3
  <2>. QED BY <1>1, <2>1, <2>2 DEF FreshInv
<1>8. ASSUME mode' = "return" => val' >= pos
      PROVE  LinkInv'
  <2>1. ASSUME NEW n \in Node, NEW c \in Children(n)
        PROVE  /\ n < c /\ c < pos' /\ TypeAt(c)' # "END"
               /\ \A i \in DOMAIN s : s[i].node # c
               /\ mode' = "return" => c # val'
    <3>1. /\ n < c /\ c < pos /\ TypeAt(c) # "END" /\ c \in Node
          /\ \A i \in DOMAIN stack : stack[i].node # c
      BY LinkFacts
    <3>2. c \in Nat /\ c < pos'
      BY <1>2, <1>3, <3>1
    <3>3. \A i \in DOMAIN s : s[i].node # c
      BY <1>2, <3>1, <3>2
    <3>4. mode' = "return" => c # val'
      BY <1>2, <1>8, <3>1, <3>2
    <3>. QED BY <1>1, <3>1, <3>2, <3>3, <3>4
  <2>2. \A n : Children(n)' = Children(n)
    BY DEF Children
  <2>. QED BY <1>1, <2>1, <2>2 DEF LinkInv
<1>. QED BY <1>4, <1>6, <1>7, <1>8

\* A statement without a block, or a member, as a node.
Leaf(n) ==
  \/ TypeAt(n) \notin {"IF", "FOR", "WHILE", "FUNCTION", "METHOD", "CONSTR", "DO", "TYPE", "END"}
  \/ TypeAt(n) \in {"METHOD", "CONSTR"} /\ Foreigner(n)

\* A statement or member without a block becomes a node that is returned.
LEMMA ReadStep ==
  ASSUME IInv, mode \in {"block", "body"}, NEW n \in pos..Last,
         NEW o, Reads(o, n), o.how = "ok" => Leaf(n) /\ o.pos # n, Read(n, o)
  PROVE  IInv'
<1>1. Running /\ mode # "else"
  BY DEF Running
<1>2. /\ input \in Inputs /\ Last \in Nat \ {0} /\ pos \in 1..Last /\ Node = 0..Last
      /\ stack \in Seq(FrameSet) /\ stack # <<>> /\ Top.node \in Node /\ Top.node < pos
  BY <1>1, TopFacts
<1>3. CASE o.how # "ok"
  <2>1. Ended(o.how)
    BY <1>3 DEF Read
  <2>2. o.how \in Failures
    BY <1>3 DEF Reads
  <2>. QED BY <2>1, <2>2, FailStep
<1>4. CASE o.how = "ok"
  <2>1. /\ pos' = o.pos /\ val' = n /\ mode' = "return"
        /\ UNCHANGED <<input, kids, ends, stack>>
    BY <1>4 DEF Read, Return
  <2>2. o.pos \in n..Last /\ o.pos # n
    BY <1>4 DEF Reads
  <2>3. pos' \in pos..Last /\ n < pos' /\ n >= pos /\ n \in Node /\ pos' \in 1..Last
    BY <1>2, <2>1, <2>2
  <2>4. Chain(stack)
    BY <1>1, StackFacts
  <2>5. Chain(stack)' /\ LinkedComplete' /\ FreshInv' /\ LinkInv'
    <3>1. \A i \in DOMAIN stack : \E j \in DOMAIN stack : stack[i].node = stack[j].node
      OBVIOUS
    <3>. QED BY <1>1, <1>2, <2>1, <2>3, <2>4, <3>1, ReadOn
  <2>6. Node' = Node /\ FrameSet' = FrameSet /\ Last' = Last /\ Top' = Top
        /\ \A m : TypeAt(m)' = TypeAt(m) /\ (Foreigner(m)' <=> Foreigner(m))
    BY <2>1, SameTokens DEF Top
  <2>7. TypeOK'
    BY <2>1, <2>3, <2>6 DEF IInv, TypeOK
  <2>8. StackInv'
    <3>1. stack' # <<>> /\ Chain(stack)' /\ Top'.node < pos'
      BY <1>2, <2>1, <2>3, <2>5, <2>6
    <3>. QED BY <2>1, <3>1 DEF StackInv
  <2>9. ReturnInv'
    <3>1. Top.kind \in {"block", "type"}
      BY <1>1 DEF IInv, StackInv
    <3>2. Awaits(Top, val)'
      BY <2>6, <3>1 DEF Awaits
    <3>3. kids[n] = <<>>
      BY <1>1, <2>3, LinkFacts
    <3>4. Complete(n)'
      <4>1. kids'[n] = <<>>
        BY <2>1, <3>3
      <4>2. CASE TypeAt(n) \notin {"IF", "FOR", "WHILE", "FUNCTION", "METHOD", "CONSTR", "DO", "TYPE"}
        BY <2>6, <4>1, <4>2 DEF Complete
      <4>3. CASE TypeAt(n) \in {"METHOD", "CONSTR"} /\ Foreigner(n)
        BY <2>6, <4>3 DEF Complete
      <4>. QED BY <1>4, <4>2, <4>3 DEF Leaf
    <3>5. Complete(val)'
      BY <2>1, <3>4
    <3>6. TypeAt(n) # "END"
      BY <1>4 DEF Leaf
    <3>7. TypeAt(val)' # "END"
      BY <2>1, <2>6, <3>6
    <3>8. Top.node < n
      BY <1>2, <2>3
    <3>. QED BY <2>1, <2>3, <2>6, <3>1, <3>2, <3>5, <3>7, <3>8 DEF ReturnInv
  <2>10. input' \in Inputs
    BY <1>2, <2>1
  <2>. QED BY <2>5, <2>7, <2>8, <2>9, <2>10 DEF IInv
<1>. QED BY <1>3, <1>4

\* The header of a statement is read, the invocations of `below` wait for its block.
LEMMA OpenStep ==
  ASSUME IInv, Running, NEW below \in Seq(FrameSet), Chain(below),
         \A i \in DOMAIN below :
           below[i].node >= pos \/ \E j \in DOMAIN stack : below[i].node = stack[j].node,
         NEW p \in pos..Last, p > below[Len(below)].node,
         NEW o, Reads(o, p), NEW type \in {"CODE_BLOCK", "FUNCTION_BLOCK", "IF_BLOCK"},
         o.how = "ok" /\ TypeAt(o.pos) = "DO" => Makes(below[Len(below)], Block(o.pos, type)),
         Open(below, o, type)
  PROVE  IInv'
<1>1. /\ input \in Inputs /\ Last \in Nat \ {0} /\ pos \in 1..Last /\ Node = 0..Last
      /\ stack \in Seq(FrameSet) /\ stack # <<>> /\ Top.node \in Node /\ Top.node < pos
  BY TopFacts
<1>2. CASE ~(o.how = "ok" /\ TypeAt(o.pos) = "DO")
  <2>1. Ended(IF o.how = "ok" THEN "error" ELSE o.how)
    BY <1>2 DEF Open
  <2>2. (IF o.how = "ok" THEN "error" ELSE o.how) \in Failures
    BY DEF Reads, Failures
  <2>. QED BY <2>1, <2>2, FailStep
<1>3. CASE o.how = "ok" /\ TypeAt(o.pos) = "DO"
  <2>. DEFINE d == o.pos
              f == Block(d, type)
              s == Append(below, f)
  <2>1. /\ stack' = s /\ pos' = SkipFrom(d) /\ mode' = "block"
        /\ UNCHANGED <<input, kids, ends, val>>
    BY <1>3 DEF Open
  <2>2. d \in p..Last
    BY <1>3 DEF Reads
  <2>. HIDE DEF d
  <2>3. d \in Node /\ d \in pos..Last /\ d \in 1..Last /\ d # 0
    BY <1>1, <2>2
  <2>4. pos' = d + 1 /\ pos' \in 1..Last /\ pos' \in pos..Last
    <3>1. TypeAt(d) # "FILE_END"
      BY <1>3 DEF d
    <3>2. SkipFrom(d) = d + 1 /\ d + 1 \in 1..Last
      BY <1>1, <2>3, <3>1, Skip
    <3>. QED BY <1>1, <2>1, <2>3, <3>2
  <2>5. f \in FrameSet /\ f.kind = "block" /\ f.node = d /\ f.type = type
    BY <1>1, <2>3, Frames
  <2>. HIDE DEF f
  <2>6. below # <<>> /\ Len(below) \in Nat \ {0} /\ below[Len(below)] \in FrameSet
        /\ below[Len(below)].node \in Nat
    <3>1. below # <<>>
      BY DEF Chain
    <3>2. Len(below) \in Nat \ {0} /\ below[Len(below)] \in FrameSet
      BY <3>1
    <3>. QED BY <1>1, <3>1, <3>2, Frames
  <2>7. Built(f) /\ below[Len(below)].node < d
    <3>1. ends[d] = 0
      BY <1>1, <2>3, LinkFacts
    <3>2. TypeAt(d) = "DO" /\ type # "ROOT_BLOCK"
      BY <1>3 DEF d
    <3>3. Built(f)
      BY <2>5, <3>1, <3>2 DEF Built
    <3>4. below[Len(below)].node < d
      BY <1>1, <2>2, <2>6
    <3>. QED BY <3>3, <3>4
  <2>8. Makes(below[Len(below)], f)
    BY <1>3 DEF f, d
  <2>9. /\ s \in Seq(FrameSet) /\ Chain(s)
        /\ Len(s) = Len(below) + 1 /\ s[Len(below) + 1] = f
    BY <1>1, <2>5, <2>7, <2>8, Push
  <2>10. \A i \in DOMAIN s : s[i].node >= pos \/ \E j \in DOMAIN stack : s[i].node = stack[j].node
    <3>. SUFFICES ASSUME NEW i \in DOMAIN s
                  PROVE  s[i].node >= pos \/ \E j \in DOMAIN stack : s[i].node = stack[j].node
      OBVIOUS
    <3>1. i \in 1..(Len(below) + 1)
      BY <2>9
    <3>2. CASE i = Len(below) + 1
      BY <1>1, <2>3, <2>5, <2>9, <3>2
    <3>3. CASE i # Len(below) + 1
      <4>1. i \in DOMAIN below /\ s[i] = below[i]
        BY <2>6, <3>1, <3>3
      <4>. HIDE DEF s
      <4>. QED BY <1>1, <4>1
    <3>. QED BY <3>2, <3>3
  <2>. HIDE DEF s
  <2>11. Chain(stack)' /\ LinkedComplete' /\ FreshInv' /\ LinkInv'
    BY <2>1, <2>4, <2>9, <2>10, ReadOn
  <2>12. Node' = Node /\ FrameSet' = FrameSet /\ Last' = Last
    BY <2>1, SameTokens
  <2>13. Top' = f /\ stack' # <<>>
    <3>1. stack'[Len(stack')] = f
      BY <2>1, <2>9
    <3>2. s # <<>>
      BY <2>9 DEF Chain
    <3>. QED BY <2>1, <3>1, <3>2 DEF Top
  <2>14. TypeOK'
    BY <2>1, <2>4, <2>9, <2>12 DEF IInv, TypeOK
  <2>15. StackInv'
    <3>1. Chain(stack)'
      BY <2>11
    <3>2. Top'.node < pos' /\ Top'.kind = "block"
      BY <2>3, <2>4, <2>5, <2>13
    <3>. QED BY <2>1, <2>13, <3>1, <3>2 DEF StackInv
  <2>16. ReturnInv' /\ input' \in Inputs
    BY <1>1, <2>1 DEF ReturnInv
  <2>. QED BY <2>11, <2>14, <2>15, <2>16 DEF IInv
<1>. QED BY <1>2, <1>3

\* An 'end' begins no invocation.
LEMMA TopNoEnd ==
  ASSUME IInv, Running
  PROVE  Top.node # 0 => TypeAt(Top.node) # "END"
<1>1. Built(Top) /\ Top \in FrameSet
  BY TopFacts, StackFacts
<1>2. Top.kind \in {"block", "if", "else", "loop", "function", "type"}
  BY <1>1 DEF FrameSet
<1>. QED BY <1>1, <1>2 DEF Built, Headed

\* A step that gives a node to its parent.
LEMMA AddStep ==
  ASSUME IInv, mode = "return", input' = input, ends' = ends, Add(Top.node, val),
         pos' = pos \/ (pos' = pos - 1 /\ TypeAt(pos - 1) = "END")
  PROVE  /\ LinkedComplete' /\ FreshInv' /\ kids' \in [Node -> Seq(Node)]
         /\ kids'[Top.node] = Append(kids[Top.node], val)
         /\ \A n \in Node : n # Top.node => kids'[n] = kids[n]
         /\ pos' \in 1..Last /\ Top.node < pos' /\ val < pos'
         /\ stack' \in {stack, Rest} /\ (mode' = "return" => val' = Top.node) => LinkInv'
<1>. DEFINE top == Top.node
<1>1. /\ input \in Inputs /\ Last \in Nat \ {0} /\ pos \in 1..Last /\ Node = 0..Last
      /\ top \in Node /\ top < pos /\ Running
      /\ DOMAIN stack = 1..Len(stack) /\ Len(stack) \in DOMAIN stack
      /\ DOMAIN Rest = 1..(Len(stack) - 1)
      /\ \A i \in 1..(Len(stack) - 1) : Rest[i] = stack[i] /\ i \in DOMAIN stack
  BY TopFacts DEF Running
<1>2. /\ kids \in [Node -> Seq(Node)] /\ ends \in [Node -> Node] /\ val \in Node
      /\ \A n \in Node : /\ kids[n] \in Seq(Node) /\ Len(kids[n]) \in Nat
                         /\ DOMAIN kids[n] = 1..Len(kids[n]) /\ Children(n) \in SUBSET Node
      /\ \A n \in Node : \A c \in Children(n) : Complete(c)
      /\ \A n \in Node : \A c \in Children(n) :
           /\ n < c /\ c < pos /\ TypeAt(c) # "END" /\ c # top
           /\ \A i \in DOMAIN stack : stack[i].node # c
      /\ \A n \in Node : n >= pos \/ (n # 0 /\ TypeAt(n) = "END") => kids[n] = <<>> /\ ends[n] = 0
  BY <1>1, LinkFacts
<1>3. top < val /\ val < pos /\ TypeAt(val) # "END" /\ Complete(val)
  BY DEF IInv, ReturnInv, Running
<1>4. top # 0 => TypeAt(top) # "END"
  BY <1>1, TopNoEnd
<1>5. \A i \in DOMAIN stack : stack[i].node <= top /\ stack[i].node \in Nat
  BY <1>1, StackFacts
<1>. HIDE DEF top
<1>6. kids' = [kids EXCEPT ![top] = Append(@, val)]
  BY DEF Add, top
<1>7. /\ kids' \in [Node -> Seq(Node)] /\ kids'[top] = Append(kids[top], val)
      /\ \A n \in Node : n # top => kids'[n] = kids[n]
  <2>1. Append(kids[top], val) \in Seq(Node)
    <3>1. kids[top] \in Seq(Node) /\ val \in Node
      BY <1>1, <1>2
    <3>. QED BY <3>1
  <2>2. kids' = [kids EXCEPT ![top] = Append(kids[top], val)]
    BY <1>6
  <2>3. kids \in [Node -> Seq(Node)] /\ top \in Node
    BY <1>1, <1>2
  <2>. QED BY <2>1, <2>2, <2>3
<1>8. pos' \in 1..Last /\ val < pos' /\ pos' <= pos /\ top < pos' /\ top \in Nat /\ val \in Nat
  <2>1. TypeAt(pos - 1) = "END" => val # pos - 1
    BY <1>3
  <2>2. pos \in Nat /\ val \in Nat /\ top \in Nat /\ Last \in Nat /\ pos <= Last
    BY <1>1, <1>2
  <2>3. CASE pos' = pos
    BY <1>3, <2>2, <2>3
  <2>4. CASE pos' = pos - 1 /\ TypeAt(pos - 1) = "END"
    BY <1>3, <2>1, <2>2, <2>4
  <2>. QED BY <2>3, <2>4
<1>9. Node' = Node /\ \A n : TypeAt(n)' = TypeAt(n)
  BY SameTokens
<1>10. FreshInv'
  <2>1. ASSUME NEW n \in Node, n >= pos' \/ (n # 0 /\ TypeAt(n) = "END")
        PROVE  kids'[n] = <<>> /\ ends[n] = 0
    <3>1. n # top
      BY <1>1, <1>4, <1>8, <2>1
    <3>2. n >= pos \/ (n # 0 /\ TypeAt(n) = "END")
      BY <1>1, <1>8, <2>1
    <3>. QED BY <1>2, <1>7, <3>1, <3>2
  <2>. QED BY <1>9, <2>1 DEF FreshInv
<1>11. \A n \in Node : Children(n)' \in SUBSET (Children(n) \cup (IF n = top THEN {val} ELSE {}))
  <2>. SUFFICES ASSUME NEW n \in Node
                PROVE  Children(n)' \in SUBSET (Children(n) \cup (IF n = top THEN {val} ELSE {}))
    OBVIOUS
  <2>1. CASE n # top
    <3>1. kids'[n] = kids[n]
      BY <1>7, <2>1
    <3>. QED BY <2>1, <3>1 DEF Children
  <2>2. CASE n = top
    <3>1. kids'[n] = Append(kids[n], val)
      BY <1>7, <2>2
    <3>2. \A i \in DOMAIN Append(kids[n], val) :
            Append(kids[n], val)[i] = val \/ (i \in DOMAIN kids[n] /\ Append(kids[n], val)[i] = kids[n][i])
      <4>1. kids[n] \in Seq(Node) /\ val \in Node
        BY <1>2
      <4>. QED BY <4>1
    <3>3. \A i \in DOMAIN Append(kids[n], val) : Append(kids[n], val)[i] \in Children(n) \cup {val}
      BY <3>2 DEF Children
    <3>. QED BY <2>2, <3>1, <3>3 DEF Children
  <2>. QED BY <2>1, <2>2
<1>12. \A n \in Node : \A c \in Children(n)' :
         /\ n < c /\ c < pos' /\ TypeAt(c) # "END" /\ c # top /\ c \in Node /\ Complete(c)
         /\ \A i \in DOMAIN stack : stack[i].node # c
  <2>. SUFFICES ASSUME NEW n \in Node, NEW c \in Children(n)'
                PROVE  /\ n < c /\ c < pos' /\ TypeAt(c) # "END" /\ c # top /\ c \in Node
                       /\ Complete(c) /\ \A i \in DOMAIN stack : stack[i].node # c
    OBVIOUS
  <2>1. CASE c \in Children(n)
    <3>1. /\ n < c /\ c < pos /\ TypeAt(c) # "END" /\ c # top /\ c \in Node /\ Complete(c)
          /\ \A i \in DOMAIN stack : stack[i].node # c
      BY <1>2, <2>1
    <3>2. c \in Nat /\ pos \in Nat
      BY <1>1, <3>1
    <3>3. c < pos'
      <4>1. TypeAt(pos - 1) = "END" => c # pos - 1
        BY <3>1
      <4>. QED BY <3>1, <3>2, <4>1
    <3>. QED BY <3>1, <3>3
  <2>2. CASE n = top /\ c = val
    <3>1. \A i \in DOMAIN stack : stack[i].node # val
      BY <1>3, <1>5, <1>8
    <3>. QED BY <1>2, <1>3, <1>8, <2>2, <3>1
  <2>3. c \in Children(n) \/ (n = top /\ c = val)
    BY <1>11
  <2>. QED BY <2>1, <2>2, <2>3
<1>13. LinkedComplete'
  <2>1. ASSUME NEW n \in Node, NEW c \in Children(n)'
        PROVE  Complete(c)'
    <3>1. c # top /\ c \in Node /\ Complete(c)
      BY <1>12
    <3>2. kids'[c] = kids[c] /\ Len(kids[c]) \in Nat /\ DOMAIN kids[c] = 1..Len(kids[c])
      BY <1>2, <1>7, <3>1
    <3>. QED BY <3>1, <3>2, CompleteKept
  <2>2. \A n \in Node : \A i \in DOMAIN kids'[n] : kids'[n][i] \in Children(n)'
    BY DEF Children
  <2>3. \A n \in Node : \A i \in DOMAIN kids'[n] : \A c : c = kids'[n][i] => Complete(c)'
    BY <2>1, <2>2
  <2>. QED BY <1>9, <2>3 DEF LinkedComplete
<1>14. ASSUME stack' \in {stack, Rest}, mode' = "return" => val' = top
       PROVE  LinkInv'
  <2>1. \A i \in DOMAIN stack' : \E j \in DOMAIN stack : stack'[i] = stack[j]
    BY <1>1, <1>14
  <2>2. \A n \in Node : \A c \in Children(n)' :
          /\ \A i \in DOMAIN stack' : stack'[i].node # c
          /\ mode' = "return" => c # val'
    BY <1>12, <1>14, <2>1
  <2>. QED BY <1>9, <1>12, <2>2 DEF LinkInv
<1>. QED BY <1>7, <1>8, <1>10, <1>13, <1>14 DEF top

\* What an invocation of the stack below the innermost has built is out of reach
\* of a step that changes the innermost only.
LEMMA RestKept ==
  ASSUME IInv, Running, input' = input, Top.node # 0,
         \A n \in Node : n # Top.node => kids'[n] = kids[n] /\ ends'[n] = ends[n]
  PROVE  /\ (\A s : s = Rest => Chain(s)') /\ Makes(Rest[Len(Rest)], Top)
         /\ \A f : f = Rest[Len(Rest)] => \A g : Makes(f, g) => Makes(f, g)'
         /\ Rest # <<>> /\ Rest \in Seq(FrameSet) /\ Rest[Len(Rest)].node \in Node
         /\ Rest[Len(Rest)].node < Top.node
         /\ \A i \in DOMAIN Rest : \E j \in DOMAIN stack : Rest[i] = stack[j]
         /\ \A i \in 1..(Len(stack) - 1) : Leaves(stack[i])
<1>1. /\ input \in Inputs /\ Node = 0..Last /\ Rest \in Seq(FrameSet) /\ Len(Rest) \in Nat
      /\ DOMAIN Rest = 1..Len(Rest) /\ Len(Rest) = Len(stack) - 1
      /\ \A i \in 1..(Len(stack) - 1) : Rest[i] = stack[i] /\ i \in DOMAIN stack
      /\ Len(stack) \in Nat
  <2>1. Len(stack) \in Nat \ {0} /\ Len(Rest) = Len(stack) - 1
    BY TopFacts
  <2>2. Len(Rest) \in Nat /\ Len(stack) \in Nat
    BY <2>1
  <2>3. DOMAIN Rest = 1..(Len(stack) - 1)
    BY TopFacts
  <2>4. DOMAIN Rest = 1..Len(Rest)
    BY <2>1, <2>3
  <2>. QED BY <2>1, <2>2, <2>4, TopFacts
<1>2. /\ Len(stack) > 1 /\ Chain(Rest) /\ Makes(Rest[Len(Rest)], Top)
      /\ \A i \in DOMAIN Rest : Rest[i].node \in Nat /\ Rest[i].node < Top.node
  BY StackFacts
<1>3. ASSUME NEW i \in DOMAIN Rest PROVE Rest[i] \in FrameSet /\ Leaves(Rest[i]) /\ Built(Rest[i])
  <2>. DEFINE f == Rest[i]
  <2>1. f \in FrameSet /\ Built(f)
    BY <1>1, <1>2 DEF Chain
  <2>2. f.node \in Node /\ f.node # Top.node
    <3>1. f.node \in Nat /\ f.node < Top.node
      BY <1>2
    <3>2. f.node \in Node
      BY <1>1, <2>1, Frames
    <3>. QED BY <3>1, <3>2
  <2>. HIDE DEF f
  <2>3. kids[f.node] # <<>> => kids[f.node][1] \in Node /\ kids[f.node][1] # Top.node
    <3>. SUFFICES ASSUME kids[f.node] # <<>>
                  PROVE  kids[f.node][1] \in Node /\ kids[f.node][1] # Top.node
      OBVIOUS
    <3>1. kids[f.node] \in Seq(Node) /\ Children(f.node) \in SUBSET Node
      BY <2>2, LinkFacts
    <3>2. kids[f.node][1] \in Children(f.node)
      BY <3>1 DEF Children
    <3>. QED BY <2>2, <3>1, <3>2, LinkFacts
  <2>4. Leaves(f)
    BY <2>2, <2>3 DEF Leaves
  <2>. QED BY <2>1, <2>4 DEF f
<1>4. \A s : s = Rest => Chain(s)'
  BY <1>1, <1>2, <1>3, ChainKept
<1>5. Len(Rest) \in DOMAIN Rest /\ Rest # <<>>
  BY <1>1, <1>2
<1>6. \A f : f = Rest[Len(Rest)] => \A g : Makes(f, g) => Makes(f, g)'
  BY <1>3, <1>5, BuiltKept
<1>7. Rest[Len(Rest)].node \in Node /\ Rest[Len(Rest)].node < Top.node
  BY <1>1, <1>2, <1>3, <1>5, Frames
<1>8. \A i \in DOMAIN Rest : \E j \in DOMAIN stack : Rest[i] = stack[j]
  BY <1>1
<1>9. \A i \in 1..(Len(stack) - 1) : Leaves(stack[i])
  BY <1>1, <1>3
<1>. QED BY <1>1, <1>2, <1>4, <1>5, <1>6, <1>7, <1>8, <1>9

\* A step of ToBlock or ToType: the invocation goes on.
LEMMA StayStep ==
  ASSUME IInv, mode = "return", Top.kind \in {"block", "type"}, Add(Top.node, val),
         mode' = (IF Top.kind = "block" THEN "block" ELSE "body"),
         UNCHANGED <<input, pos, ends, stack, val>>
  PROVE  IInv'
<1>1. /\ input \in Inputs /\ Last \in Nat \ {0} /\ pos \in 1..Last /\ Node = 0..Last
      /\ stack \in Seq(FrameSet) /\ stack # <<>> /\ Len(stack) \in Nat
      /\ DOMAIN stack = 1..Len(stack) /\ Len(stack) \in DOMAIN stack
      /\ Top.node \in Node /\ Top.node < pos /\ Top = stack[Len(stack)] /\ Running
  BY TopFacts DEF Running
<1>2. /\ LinkedComplete' /\ FreshInv' /\ kids' \in [Node -> Seq(Node)]
      /\ (\A n \in Node : n # Top.node => kids'[n] = kids[n]) /\ LinkInv'
  BY AddStep
<1>3. Node' = Node /\ FrameSet' = FrameSet /\ Last' = Last /\ Top' = Top
  BY SameTokens DEF Top
<1>4. TypeOK'
  BY <1>1, <1>2, <1>3 DEF IInv, TypeOK
<1>5. Chain(stack)'
  <2>1. ASSUME NEW i \in DOMAIN stack PROVE Leaves(stack[i])
    <3>1. CASE i = Len(stack)
      BY <1>1, <3>1 DEF Leaves
    <3>2. CASE i # Len(stack)
      <4>1. stack[i].node # Top.node /\ stack[i].node \in Node
        <5>1. \A j, k \in DOMAIN stack : j < k => stack[j].node < stack[k].node
          BY <1>1, StackFacts DEF Chain
        <5>2. i < Len(stack)
          BY <1>1, <3>2
        <5>3. stack[i] \in FrameSet
          BY <1>1
        <5>4. stack[i].node < Top.node /\ stack[i].node \in Node
          BY <1>1, <5>1, <5>2, <5>3, Frames
        <5>. QED BY <1>1, <5>4
      <4>. QED BY <1>2, <4>1 DEF Leaves
    <3>. QED BY <3>1, <3>2
  <2>2. Chain(stack)
    BY <1>1, StackFacts
  <2>. QED BY <1>1, <2>1, <2>2, ChainKept
<1>6. StackInv'
  <2>1. stack' # <<>> /\ Top'.node < pos'
    BY <1>1, <1>3
  <2>. QED BY <1>3, <1>5, <2>1 DEF StackInv
<1>7. ReturnInv'
  BY DEF ReturnInv
<1>. QED BY <1>1, <1>2, <1>4, <1>6, <1>7 DEF IInv

\* The innermost invocation returns its node.
LEMMA ReturnStep ==
  ASSUME IInv, Running, Top.node # 0, TypeAt(Top.node) # "END", input' = input,
         \A n \in Node : n # Top.node => kids'[n] = kids[n] /\ ends'[n] = ends[n],
         kids' \in [Node -> Seq(Node)], ends' \in [Node -> Node],
         LinkedComplete', FreshInv', LinkInv',
         pos' \in 1..Last, Top.node < pos', stack' = Rest, val' = Top.node, mode' = "return",
         NEW n, n = Top.node, Complete(n)',
         Rest[Len(Rest)].kind = "if" =>
           /\ ends'[n] = pos' - 1 /\ n < pos' - 1
           /\ TypeAt(pos' - 1) \in {"END", "ELSE"}
  PROVE  IInv'
<1>. DEFINE below == Rest[Len(Rest)]
<1>1. /\ (\A s : s = Rest => Chain(s)') /\ Makes(below, Top)
      /\ \A f : f = below => \A g : Makes(f, g) => Makes(f, g)'
      /\ Rest # <<>> /\ Rest \in Seq(FrameSet) /\ below.node \in Node
      /\ below.node < n
  BY RestKept
<1>2. /\ input \in Inputs /\ Last \in Nat \ {0} /\ Node = 0..Last /\ Top \in FrameSet
      /\ n \in Node
  BY TopFacts
<1>3. Top' = below
  BY DEF Top
<1>. HIDE DEF below
<1>4. /\ Node' = Node /\ FrameSet' = FrameSet /\ Last' = Last
      /\ \A m : TypeAt(m)' = TypeAt(m)
  BY SameTokens
<1>5. TypeOK'
  <2>1. mode' = "return" /\ input' \in Seq(TokenSet)
    BY DEF IInv, TypeOK
  <2>. QED BY <1>1, <1>2, <1>4, <2>1 DEF TypeOK
<1>6. StackInv'
  <2>1. Chain(stack)' /\ stack' # <<>>
    BY <1>1
  <2>2. below.node < pos'
    <3>1. n < pos' /\ below.node < n
      BY <1>1
    <3>2. Node \in SUBSET Nat /\ 1..Last \in SUBSET Nat
      BY <1>2
    <3>3. below.node \in Nat /\ n \in Nat /\ pos' \in Nat
      BY <1>1, <1>2, <3>2, Zenon
    <3>. QED BY <3>1, <3>3
  <2>. QED BY <1>3, <2>1, <2>2 DEF StackInv
<1>7. Awaits(Top, val)'
  <2>1. \A f : f = below => \A g : g = Top => Awaits(f, g.node)'
    BY <1>1 DEF Makes
  <2>. QED BY <1>3, <2>1
<1>8. ReturnInv'
  <2>1. Top'.node < val' /\ val' < pos' /\ TypeAt(val)' # "END"
    BY <1>1, <1>3, <1>4
  <2>2. Complete(val)'
    OBVIOUS
  <2>3. Top'.kind = "if" => /\ ends'[val'] = pos' - 1 /\ val' < pos' - 1
                            /\ TypeAt(pos - 1)' \in {"END", "ELSE"}
    BY <1>3, <1>4 DEF below
  <2>. QED BY <1>7, <2>1, <2>2, <2>3 DEF ReturnInv
<1>. QED BY <1>2, <1>5, <1>6, <1>8 DEF IInv

\* An invocation that gets what it waited for and returns.
LEMMA FinishStep ==
  ASSUME IInv, mode = "return", Top.kind \in {"if", "else", "loop", "function"},
         input' = input, ends' = ends, Add(Top.node, val), stack' = Rest, Return(Top.node),
         pos' = pos \/ (pos' = pos - 1 /\ TypeAt(pos - 1) = "END"),
         NEW n, n = Top.node, Complete(n)'
  PROVE  IInv'
<1>1. /\ Running /\ Top.node \in Node
  BY TopFacts DEF Running
<1>2. Top.node # 0 /\ Makes(Rest[Len(Rest)], Top) /\ TypeAt(Top.node) # "END"
  BY <1>1, StackFacts, TopNoEnd
<1>3. Rest[Len(Rest)].kind # "if"
  BY <1>2 DEF Makes
<1>4. val' = Top.node /\ mode' = "return"
  BY DEF Return
<1>5. /\ LinkedComplete' /\ FreshInv' /\ kids' \in [Node -> Seq(Node)]
      /\ \A m \in Node : m # Top.node => kids'[m] = kids[m]
      /\ pos' \in 1..Last /\ Top.node < pos' /\ LinkInv'
  BY <1>4, AddStep
<1>6. ends' \in [Node -> Node]
  BY LinkFacts
<1>. QED BY <1>1, <1>2, <1>3, <1>4, <1>5, <1>6, ReturnStep

\* A block and a type get another child.
LEMMA ToBlockStep ==
  ASSUME IInv, ToBlock
  PROVE  IInv'
BY StayStep DEF ToBlock

\* A type goes on in its body.
LEMMA ToTypeStep ==
  ASSUME IInv, ToType
  PROVE  IInv'
BY StayStep DEF ToType

\* A second child is the second child.
LEMMA SecondChild ==
  ASSUME NEW S, NEW s \in Seq(S), Len(s) = 1, NEW c \in S
  PROVE  Len(Append(s, c)) = 2 /\ Append(s, c)[1] = s[1] /\ Append(s, c)[2] = c
<1>1. /\ Len(Append(s, c)) = Len(s) + 1 /\ Append(s, c)[Len(s) + 1] = c
      /\ \A i \in 1..Len(s) : Append(s, c)[i] = s[i]
  OBVIOUS
<1>2. 1 \in 1..Len(s) /\ Len(s) + 1 = 2
  OBVIOUS
<1>. QED BY <1>1, <1>2

\* A loop, a function and an if in parts have the children they must have.
LEMMA ToElseStep ==
  ASSUME IInv, ToElse
  PROVE  IInv'
<1>. DEFINE n == Top.node
            own == kids[n]
<1>1. /\ mode = "return" /\ Top.kind = "else" /\ Add(n, val) /\ stack' = Rest /\ Return(n)
      /\ UNCHANGED <<input, pos, ends>>
  BY DEF ToElse
<1>2. Running /\ n \in Node /\ Built(Top)
  BY <1>1, TopFacts, StackFacts DEF Running
<1>3. TypeAt(n) = "IF" /\ Len(own) = 1 /\ IfBody(own[1])
  BY <1>1, <1>2 DEF Built, HalfIf
<1>4. val = ends[own[1]] + 1
  BY <1>1 DEF IInv, ReturnInv, Running, Awaits
<1>5. kids'[n] = Append(own, val)
  BY <1>1, AddStep
<1>6. Len(kids'[n]) = 2 /\ kids'[n][1] = own[1] /\ kids'[n][2] = val
  <2>1. own \in Seq(Node) /\ val \in Node
    BY <1>2, LinkFacts
  <2>2. \A s \in Seq(Node) : Len(s) = 1 =>
          \A c \in Node : /\ Len(Append(s, c)) = 2
                         /\ Append(s, c)[1] = s[1] /\ Append(s, c)[2] = c
    BY SecondChild
  <2>. HIDE DEF own
  <2>. QED BY <1>3, <1>5, <2>1, <2>2
<1>7. \A m : TypeAt(m)' = TypeAt(m) /\ (IfBody(m)' <=> IfBody(m))
  BY <1>1, SameTokens
<1>8. \A m : m = n => Complete(m)'
  <2>. SUFFICES ASSUME NEW m, m = n PROVE Complete(m)'
    OBVIOUS
  <2>1. Len(kids'[m]) = 2 /\ kids'[m][1] = own[1] /\ kids'[m][2] = ends'[own[1]] + 1
    BY <1>1, <1>4, <1>6
  <2>2. TypeAt(m)' = "IF"
    BY <1>3, <1>7
  <2>3. \A c : c = own[1] => IfBody(c)'
    BY <1>3, <1>7
  <2>4. IfBody(kids[m][1])'
    BY <2>1, <2>3
  <2>5. Len(kids'[m]) \in 1..2
    BY <2>1
  <2>. HIDE DEF n, own
  <2>. QED BY <2>1, <2>2, <2>4, <2>5 DEF Complete
<1>. QED BY <1>1, <1>8, FinishStep

\* A loop or a function has its only child.
LEMMA BodyStep ==
  ASSUME IInv, mode = "return", Top.kind \in {"loop", "function"}, Add(Top.node, val),
         UNCHANGED <<input, pos, ends>>
  PROVE  \A m : m = Top.node => Complete(m)'
<1>. DEFINE n == Top.node
<1>1. Running /\ n \in Node /\ Built(Top)
  BY TopFacts, StackFacts DEF Running
<1>2. TypeAt(n) \in Headed /\ kids[n] = <<>>
  BY <1>1 DEF Built
<1>3. TypeAt(val) = "DO"
  BY DEF IInv, ReturnInv, Running, Awaits
<1>4. kids'[n] = Append(kids[n], val)
  BY AddStep
<1>5. kids'[n] = <<val>>
  BY <1>2, <1>4
<1>6. \A m : TypeAt(m)' = TypeAt(m)
  BY SameTokens
<1>7. \A m : m = n => Complete(m)'
  <2>. SUFFICES ASSUME NEW m, m = n PROVE Complete(m)'
    OBVIOUS
  <2>1. Len(kids'[m]) = 1 /\ kids'[m][1] = val
    BY <1>5
  <2>2. \A c : c = val => TypeAt(c)' = "DO"
    BY <1>3, <1>6
  <2>3. TypeAt(kids[m][1])' = "DO"
    BY <2>1, <2>2
  <2>4. TypeAt(m)' \in Headed
    BY <1>2, <1>6
  <2>. QED BY <2>1, <2>3, <2>4 DEF Complete, Headed
<1>. QED BY <1>7

\* A function is returned.
LEMMA ToFunctionStep ==
  ASSUME IInv, ToFunction
  PROVE  IInv'
<1>1. /\ mode = "return" /\ Top.kind = "function" /\ Add(Top.node, val)
      /\ stack' = Rest /\ Return(Top.node) /\ UNCHANGED <<input, pos, ends>>
  BY DEF ToFunction
<1>2. \A m : m = Top.node => Complete(m)'
  BY <1>1, BodyStep
<1>. QED BY <1>1, <1>2, FinishStep

\* So is a loop, whose updates may still fail.
LEMMA ToLoopStep ==
  ASSUME IInv, ToLoop
  PROVE  IInv'
<1>1. /\ mode = "return" /\ Top.kind = "loop" /\ Add(Top.node, val)
      /\ UNCHANGED <<input, pos, ends>>
  BY DEF ToLoop
<1>2. CASE Top.updates # 0 /\ SplitUpdates(Top.updates) # "ok"
  <2>1. mode' = SplitUpdates(Top.updates) /\ UNCHANGED <<stack, val>>
    BY <1>2 DEF ToLoop
  <2>2. mode' \in Failures
    BY <1>2, <2>1 DEF SplitUpdates, Failures
  <2>3. mode' # "return"
    BY <2>2 DEF Failures
  <2>4. LinkedComplete' /\ kids' \in [Node -> Seq(Node)]
    BY <1>1, AddStep
  <2>5. Node' = Node /\ FrameSet' = FrameSet /\ Last' = Last
    BY <1>1, SameTokens
  <2>6. TypeOK'
    BY <1>1, <2>1, <2>2, <2>4, <2>5 DEF IInv, TypeOK
  <2>7. ~Running'
    BY <2>2 DEF Running, Failures
  <2>. QED BY <1>1, <2>4, <2>6, <2>7 DEF IInv
<1>3. CASE ~(Top.updates # 0 /\ SplitUpdates(Top.updates) # "ok")
  <2>1. stack' = Rest /\ Return(Top.node)
    BY <1>3 DEF ToLoop
  <2>2. \A m : m = Top.node => Complete(m)'
    BY <1>1, BodyStep
  <2>. QED BY <1>1, <2>1, <2>2, FinishStep
<1>. QED BY <1>2, <1>3

\* An if that gets its first block waits for what follows else, or returns and
\* leaves the 'end' there.
LEMMA ToIfStep ==
  ASSUME IInv, ToIf
  PROVE  IInv'
<1>. DEFINE n == Top.node
<1>1. mode = "return" /\ Top.kind = "if" /\ Add(n, val) /\ UNCHANGED <<input, ends>>
  BY DEF ToIf
<1>2. /\ Running /\ n \in Node /\ n # 0 /\ Built(Top) /\ Top = stack[Len(stack)]
      /\ Len(stack) \in Nat /\ DOMAIN stack = 1..Len(stack) /\ stack # <<>> /\ Chain(stack)
      /\ stack \in Seq(FrameSet) /\ input \in Inputs /\ pos \in 1..Last /\ n < pos
  BY <1>1, TopFacts, StackFacts DEF Running
<1>3. TypeAt(n) = "IF"
  BY <1>1, <1>2 DEF Built
<1>4. /\ kids[n] = <<>> /\ IfBody(val)
      /\ ends[val] = pos - 1 /\ val < pos - 1 /\ TypeAt(pos - 1) \in {"END", "ELSE"}
  BY <1>1 DEF IInv, ReturnInv, Running, Awaits
<1>5. \A m : TypeAt(m)' = TypeAt(m) /\ (IfBody(m)' <=> IfBody(m))
  BY <1>1, SameTokens
<1>6. CASE TypeAt(pos - 1) = "ELSE"
  <2>1. mode' = "else" /\ UNCHANGED <<pos, stack, val>>
    BY <1>6 DEF ToIf
  <2>2. /\ LinkedComplete' /\ FreshInv' /\ kids' \in [Node -> Seq(Node)] /\ LinkInv'
        /\ kids'[n] = Append(kids[n], val)
        /\ \A m \in Node : m # n => kids'[m] = kids[m]
    BY <1>1, <2>1, AddStep
  <2>3. kids'[n] = <<val>>
    BY <1>4, <2>2
  <2>4. Node' = Node /\ FrameSet' = FrameSet /\ Last' = Last /\ Top' = Top
    BY <1>1, <2>1, SameTokens DEF Top
  <2>5. \A m : m = n => HalfIf(m)'
    <3>1. \A m : m = n => Len(kids'[m]) = 1 /\ kids'[m][1] = val
      BY <2>3
    <3>2. IfBody(val) /\ TypeAt(ends'[val]) = "ELSE"
      BY <1>1, <1>4, <1>6
    <3>3. \A c : c = val => IfBody(c)' /\ TypeAt(ends[c])' = "ELSE"
      BY <1>5, <3>2
    <3>. HIDE DEF n
    <3>. QED BY <3>1, <3>3 DEF HalfIf
  <2>6. \A f : f = Top => Built(f)'
    <3>. SUFFICES ASSUME NEW f, f = Top PROVE Built(f)'
      OBVIOUS
    <3>1. TypeAt(f.node)' = "IF" /\ HalfIf(f.node)' /\ f.kind = "if"
      BY <1>1, <1>3, <1>5, <2>5
    <3>. QED BY <3>1 DEF Built
  <2>7. Chain(stack)'
    <3>1. \A i \in 1..(Len(stack) - 1) : Leaves(stack[i])
      BY <1>1, <1>2, <2>2, RestKept
    <3>. QED BY <1>1, <1>2, <2>1, <2>6, <3>1, ChainTop
  <2>8. TypeOK'
    BY <1>1, <2>1, <2>2, <2>4 DEF IInv, TypeOK
  <2>9. StackInv'
    <3>1. HalfIf(Top.node)'
      BY <2>4, <2>5
    <3>2. ends'[kids'[n][1]] = pos' - 1
      BY <1>1, <1>4, <2>1, <2>3
    <3>3. stack' # <<>> /\ Top'.node < pos' /\ Top'.kind = "if"
      BY <1>1, <1>2, <2>1, <2>4
    <3>. QED BY <2>1, <2>4, <2>7, <3>1, <3>2, <3>3 DEF StackInv
  <2>10. ReturnInv' /\ input' \in Inputs
    BY <1>1, <1>2, <2>1 DEF ReturnInv
  <2>. QED BY <2>2, <2>8, <2>9, <2>10 DEF IInv
<1>7. CASE TypeAt(pos - 1) # "ELSE"
  <2>1. pos' = pos - 1 /\ stack' = Rest /\ Return(n)
    BY <1>7 DEF ToIf
  <2>2. TypeAt(pos - 1) = "END"
    BY <1>4, <1>7
  <2>3. kids'[n] = <<val>>
    <3>1. kids'[n] = Append(kids[n], val)
      BY <1>1, <2>1, <2>2, AddStep
    <3>. QED BY <1>4, <3>1
  <2>4. \A m : m = n => Complete(m)'
    <3>. SUFFICES ASSUME NEW m, m = n PROVE Complete(m)'
      OBVIOUS
    <3>1. Len(kids'[m]) = 1 /\ kids'[m][1] = val
      BY <2>3
    <3>2. TypeAt(ends'[val]) = "END"
      BY <1>1, <1>4, <2>2
    <3>3. \A c : c = val => IfBody(c)' /\ TypeAt(ends[c])' = "END"
      BY <1>4, <1>5, <3>2
    <3>4. IfBody(kids[m][1])' /\ TypeAt(ends[kids[m][1]])' = "END" /\ TypeAt(m)' = "IF"
      BY <1>3, <1>5, <3>1, <3>3
    <3>5. Len(kids'[m]) \in 1..2
      BY <3>1
    <3>. HIDE DEF n
    <3>. QED BY <3>1, <3>4, <3>5 DEF Complete
  <2>. QED BY <1>1, <2>1, <2>2, <2>4, FinishStep
<1>. QED BY <1>6, <1>7

\* What a block or a type that ends changes.
LEMMA EndStep ==
  ASSUME IInv, mode \in {"block", "body"}, UNCHANGED <<input, kids>>, stack' = Rest,
         ends' = [ends EXCEPT ![Top.node] = pos], pos' \in pos..Last, val' = Top.node
  PROVE  /\ LinkedComplete' /\ FreshInv' /\ LinkInv'
         /\ ends' \in [Node -> Node] /\ ends'[Top.node] = pos /\ pos \in 1..Last
         /\ pos' \in 1..Last /\ Top.node < pos'
         /\ \A n \in Node : n # Top.node => kids'[n] = kids[n] /\ ends'[n] = ends[n]
<1>. DEFINE top == Top.node
<1>1. /\ input \in Inputs /\ Last \in Nat \ {0} /\ pos \in 1..Last /\ Node = 0..Last
      /\ top \in Node /\ top < pos /\ Running /\ DOMAIN Rest = 1..(Len(stack) - 1)
      /\ \A i \in 1..(Len(stack) - 1) : Rest[i] = stack[i] /\ i \in DOMAIN stack
  BY TopFacts DEF Running
<1>2. /\ ends \in [Node -> Node]
      /\ \A n \in Node : Children(n) \in SUBSET Node
      /\ \A n \in Node : \A c \in Children(n) :
           /\ n < c /\ c < pos /\ TypeAt(c) # "END" /\ c # top
           /\ \A i \in DOMAIN stack : stack[i].node # c
      /\ \A n \in Node : n >= pos \/ (n # 0 /\ TypeAt(n) = "END") => kids[n] = <<>> /\ ends[n] = 0
  BY <1>1, LinkFacts
<1>3. top # 0 => TypeAt(top) # "END"
  BY <1>1, TopNoEnd
<1>. HIDE DEF top
<1>4. /\ ends' \in [Node -> Node] /\ ends'[top] = pos
      /\ \A n \in Node : n # top => kids'[n] = kids[n] /\ ends'[n] = ends[n]
  <2>1. ends' = [ends EXCEPT ![top] = pos]
    BY DEF top
  <2>2. top \in Node /\ pos \in Node /\ ends \in [Node -> Node]
    BY <1>1, <1>2
  <2>3. ends' \in [Node -> Node]
    BY <2>1, <2>2
  <2>4. ends'[top] = pos /\ \A n \in Node : n # top => ends'[n] = ends[n]
    BY <2>1, <2>2
  <2>. QED BY <2>3, <2>4
<1>5. pos' \in 1..Last /\ top < pos' /\ pos' >= pos /\ pos' \in Nat
  BY <1>1
<1>6. Node' = Node /\ \A n : TypeAt(n)' = TypeAt(n)
  BY SameTokens
<1>7. LinkedComplete'
  <2>1. \A n \in Node : \A c \in Children(n) : ends'[c] = ends[c]
    BY <1>2, <1>4
  <2>. QED BY <2>1, LinkedKept
<1>8. FreshInv'
  <2>1. ASSUME NEW n \in Node, n >= pos' \/ (n # 0 /\ TypeAt(n) = "END")
        PROVE  kids'[n] = <<>> /\ ends'[n] = 0
    <3>1. n # top
      BY <1>1, <1>3, <1>5, <2>1
    <3>2. n >= pos \/ (n # 0 /\ TypeAt(n) = "END")
      BY <1>1, <1>5, <2>1
    <3>. QED BY <1>2, <1>4, <3>1, <3>2
  <2>. QED BY <1>6, <2>1 DEF FreshInv
<1>9. LinkInv'
  <2>1. \A n : Children(n)' = Children(n)
    BY DEF Children
  <2>2. \A i \in DOMAIN stack' : \E j \in DOMAIN stack : stack'[i] = stack[j]
    BY <1>1
  <2>3. ASSUME NEW n \in Node, NEW c \in Children(n)
        PROVE  /\ n < c /\ c < pos' /\ TypeAt(c)' # "END" /\ c # val'
               /\ \A i \in DOMAIN stack' : stack'[i].node # c
    <3>1. /\ n < c /\ c < pos /\ TypeAt(c) # "END" /\ c # top /\ c \in Nat
          /\ \A i \in DOMAIN stack : stack[i].node # c
      BY <1>1, <1>2
    <3>2. c < pos'
      BY <1>1, <1>5, <3>1
    <3>. QED BY <1>6, <2>2, <3>1, <3>2 DEF top
  <2>. QED BY <1>6, <2>1, <2>3 DEF LinkInv
<1>. QED BY <1>1, <1>4, <1>5, <1>7, <1>8, <1>9 DEF top

\* A block ends; the root block ends the parser.
LEMMA EndBlockStep ==
  ASSUME IInv, EndBlock
  PROVE  IInv'
<1>. DEFINE n == Top.node
<1>1. /\ mode = "block" /\ AtBlockEnd /\ UNCHANGED <<input, kids>> /\ stack' = Rest
      /\ ends' = [ends EXCEPT ![n] = pos] /\ pos' = SkipFrom(pos) /\ val' = n
      /\ mode' = IF n = 0 THEN "done" ELSE "return"
  BY DEF EndBlock, AfterBlock
<1>2. /\ Running /\ Top.kind = "block" /\ input \in Inputs /\ pos \in 1..Last /\ n \in Node
      /\ Rest \in Seq(FrameSet) /\ n < pos /\ Last \in Nat
  BY <1>1, TopFacts DEF Running, IInv, StackInv
<1>3. pos' \in pos..Last
  BY <1>1, <1>2, Skip
<1>4. /\ LinkedComplete' /\ FreshInv' /\ LinkInv'
      /\ ends' \in [Node -> Node] /\ ends'[n] = pos
      /\ pos' \in 1..Last /\ n < pos'
      /\ \A m \in Node : m # n => kids'[m] = kids[m] /\ ends'[m] = ends[m]
  BY <1>1, <1>3, EndStep
<1>5. CASE n = 0
  <2>1. Node' = Node /\ FrameSet' = FrameSet /\ Last' = Last
    BY <1>1, SameTokens
  <2>2. TypeOK'
    BY <1>1, <1>2, <1>4, <1>5, <2>1 DEF IInv, TypeOK
  <2>3. ~Running'
    BY <1>1, <1>5 DEF Running
  <2>. QED BY <1>1, <1>2, <1>4, <2>2, <2>3 DEF IInv
<1>6. CASE n # 0
  <2>1. Built(Top) /\ Makes(Rest[Len(Rest)], Top) /\ TypeAt(n) # "END"
    BY <1>2, <1>6, StackFacts, TopNoEnd
  <2>2. TypeAt(n) = "DO" /\ Top.type # "ROOT_BLOCK"
    BY <1>2, <1>6, <2>1 DEF Built
  <2>3. TypeAt(pos) \in {"END", "ELSE"}
    BY <1>1, <2>2 DEF AtBlockEnd
  <2>4. pos' = pos + 1
    <3>1. TypeAt(pos) # "FILE_END"
      BY <2>3
    <3>. QED BY <1>1, <1>2, <3>1, Skip
  <2>5. n < pos' - 1 /\ pos = pos' - 1
    BY <1>2, <2>4
  <2>6. Rest[Len(Rest)].kind = "if" =>
          ends'[n] = pos' - 1 /\ n < pos' - 1 /\ TypeAt(pos' - 1) \in {"END", "ELSE"}
    BY <1>4, <2>3, <2>5
  <2>7. \A m : m = n => Complete(m)'
    <3>. SUFFICES ASSUME NEW m, m = n PROVE Complete(m)'
      OBVIOUS
    <3>1. TypeAt(m)' = "DO"
      BY <1>1, <2>2, SameTokens
    <3>2. ends'[m] # 0
      BY <1>2, <1>4
    <3>. QED BY <3>1, <3>2 DEF Complete
  <2>8. kids' \in [Node -> Seq(Node)]
    BY <1>1, LinkFacts
  <2>9. mode' = "return"
    BY <1>1, <1>6
  <2>. QED BY <1>1, <1>2, <1>4, <1>6, <2>1, <2>6, <2>7, <2>8, <2>9, ReturnStep
<1>. QED BY <1>5, <1>6

\* A type ends at the end of its body, which it leaves there.
LEMMA EndTypeStep ==
  ASSUME IInv, EndType
  PROVE  IInv'
<1>. DEFINE n == Top.node
<1>1. /\ mode = "body" /\ UNCHANGED <<input, pos, kids>> /\ stack' = Rest
      /\ ends' = [ends EXCEPT ![n] = pos] /\ val' = n /\ mode' = "return"
  BY DEF EndType, Return
<1>2. Running /\ Top.kind = "type" /\ pos \in 1..Last /\ n \in Node /\ Last \in Nat
  BY <1>1, TopFacts DEF Running, IInv, StackInv
<1>3. pos' \in pos..Last
  BY <1>1, <1>2
<1>4. /\ LinkedComplete' /\ FreshInv' /\ LinkInv'
      /\ ends' \in [Node -> Node] /\ ends'[n] = pos
      /\ pos' \in 1..Last /\ n < pos'
      /\ \A m \in Node : m # n => kids'[m] = kids[m] /\ ends'[m] = ends[m]
  BY <1>1, <1>3, EndStep
<1>5. Built(Top) /\ n # 0
  BY <1>2, StackFacts
<1>6. TypeAt(n) = "TYPE"
  BY <1>2, <1>5 DEF Built
<1>7. Makes(Rest[Len(Rest)], Top)
  BY <1>2, <1>5, StackFacts
<1>8. Rest[Len(Rest)].kind # "if"
  BY <1>2, <1>7 DEF Makes
<1>9. \A m : m = n => Complete(m)'
  <2>. SUFFICES ASSUME NEW m, m = n PROVE Complete(m)'
    OBVIOUS
  <2>1. TypeAt(m)' = "TYPE"
    BY <1>1, <1>6, SameTokens
  <2>2. ends'[m] # 0
    BY <1>2, <1>4
  <2>. QED BY <2>1, <2>2 DEF Complete
<1>10. kids' \in [Node -> Seq(Node)] /\ TypeAt(n) # "END"
  BY <1>1, <1>6, LinkFacts
<1>. QED BY <1>1, <1>2, <1>4, <1>5, <1>8, <1>9, <1>10, ReturnStep

\* A statement or member with a block: its invocation f waits for it.
LEMMA CallStep ==
  ASSUME IInv, mode \in {"block", "body"}, NEW q \in pos..Last, TypeAt(q) # "FILE_END",
         NEW f \in FrameSet, f.node = q, Built(f), NEW o, Reads(o, q + 1),
         NEW type \in {"CODE_BLOCK", "FUNCTION_BLOCK", "IF_BLOCK"},
         o.how = "ok" /\ TypeAt(o.pos) = "DO" => Makes(f, Block(o.pos, type)),
         Open(Call(f), o, type)
  PROVE  IInv'
<1>. DEFINE s == Call(f)
<1>1. /\ Running /\ Top.kind \in {"block", "type"}
  BY DEF Running, IInv, StackInv
<1>2. /\ input \in Inputs /\ Last \in Nat \ {0} /\ pos \in 1..Last /\ Node = 0..Last
      /\ stack \in Seq(FrameSet) /\ stack # <<>> /\ Len(stack) \in Nat
      /\ DOMAIN stack = 1..Len(stack) /\ Top = stack[Len(stack)] /\ Top.node \in Node
      /\ Top.node < pos /\ Chain(stack)
  BY <1>1, TopFacts, StackFacts
<1>3. q \in 1..Last /\ q + 1 \in pos..Last
  <2>1. q \in 1..Last
    BY <1>2
  <2>2. q + 1 \in 1..Last
    BY <1>2, <2>1, Skip
  <2>. QED BY <1>2, <2>1, <2>2
<1>4. Makes(Top, f)
  BY <1>1 DEF Makes, Awaits
<1>5. Top.node < q
  BY <1>2
<1>6. /\ s \in Seq(FrameSet) /\ Chain(s)
      /\ Len(s) = Len(stack) + 1 /\ s[Len(stack) + 1] = f
  BY <1>2, <1>4, <1>5, Push DEF Call
<1>7. \A i \in DOMAIN s : s[i].node >= pos \/ \E j \in DOMAIN stack : s[i].node = stack[j].node
  <2>. SUFFICES ASSUME NEW i \in DOMAIN s
                PROVE  s[i].node >= pos \/ \E j \in DOMAIN stack : s[i].node = stack[j].node
    OBVIOUS
  <2>1. s = Append(stack, f)
    BY DEF Call
  <2>. HIDE DEF s
  <2>2. i \in 1..(Len(stack) + 1)
    BY <1>6
  <2>3. CASE i = Len(stack) + 1
    BY <1>2, <1>6, <2>3
  <2>4. CASE i # Len(stack) + 1
    <3>1. i \in DOMAIN stack
      BY <1>2, <2>2, <2>4
    <3>2. s[i] = stack[i]
      BY <1>2, <2>1, <3>1
    <3>. QED BY <3>1, <3>2
  <2>. QED BY <2>3, <2>4
<1>. HIDE DEF s
<1>8. s[Len(s)] = f
  BY <1>6
<1>9. q + 1 > s[Len(s)].node
  BY <1>2, <1>3, <1>8
<1>10. Open(s, o, type)
  BY DEF s
<1>11. o.how = "ok" /\ TypeAt(o.pos) = "DO" => Makes(s[Len(s)], Block(o.pos, type))
  BY <1>8
<1>. QED BY <1>1, <1>3, <1>6, <1>7, <1>9, <1>10, <1>11, OpenStep

\* A statement starts at a token that is not the last.
LEMMA Starts ==
  ASSUME IInv, mode \in {"block", "body"}
  PROVE  /\ input \in Inputs /\ Last \in Nat \ {0} /\ pos \in 1..Last /\ pos \in pos..Last
         /\ Running /\ pos \in Node /\ kids[pos] = <<>>
         /\ \A q \in pos..Last : q \in 1..Last /\ q \in Node /\ kids[q] = <<>>
<1>1. Running /\ input \in Inputs /\ Last \in Nat \ {0} /\ pos \in 1..Last /\ Node = 0..Last
  BY TopFacts DEF Running
<1>2. \A q \in pos..Last : q \in 1..Last /\ q \in Node /\ q >= pos
  BY <1>1
<1>3. \A q \in pos..Last : kids[q] = <<>>
  BY <1>1, <1>2, LinkFacts
<1>4. pos \in pos..Last
  BY <1>1
<1>. QED BY <1>1, <1>2, <1>3, <1>4

\* An if waits for its first block.
LEMMA IfStep ==
  ASSUME IInv, If
  PROVE  IInv'
<1>. DEFINE f == Frame("if", pos)
            o == Condition(pos)
<1>1. mode = "block" /\ TypeAt(pos) = "IF" /\ Open(Call(f), o, "IF_BLOCK")
  BY DEF If, AtStatement
<1>2. /\ input \in Inputs /\ pos \in 1..Last /\ pos \in pos..Last /\ pos \in Node
      /\ kids[pos] = <<>> /\ Last \in Nat /\ Node = 0..Last
  BY <1>1, Starts DEF Node
<1>3. f \in FrameSet /\ f.kind = "if" /\ f.node = pos
  BY <1>2, Frames
<1>. HIDE DEF f
<1>4. Built(f)
  BY <1>1, <1>2, <1>3 DEF Built
<1>5. Reads(o, pos + 1) /\ (o.how = "ok" => IfBody(o.pos))
  BY <1>1, <1>2, ConditionReads
<1>. HIDE DEF o
<1>6. o.how = "ok" => Makes(f, Block(o.pos, "IF_BLOCK"))
  <2>. SUFFICES ASSUME o.how = "ok" PROVE Makes(f, Block(o.pos, "IF_BLOCK"))
    OBVIOUS
  <2>1. o.pos \in Node
    BY <1>2, <1>5 DEF Reads
  <2>2. LET b == Block(o.pos, "IF_BLOCK") IN
        b.kind = "block" /\ b.node = o.pos /\ b.type = "IF_BLOCK"
    BY <1>2, <2>1, Frames
  <2>. QED BY <1>2, <1>3, <1>5, <2>2 DEF Makes, Awaits
<1>7. TypeAt(pos) # "FILE_END"
  BY <1>1
<1>. QED BY <1>1, <1>2, <1>3, <1>4, <1>5, <1>6, <1>7, CallStep

\* A loop, a function, a method or a constructor with its block.
LEMMA HeadStep ==
  ASSUME IInv, mode \in {"block", "body"}, NEW q \in pos..Last, TypeAt(q) \in Headed,
         NEW f \in FrameSet, f.node = q, f.kind \in {"loop", "function"},
         NEW o, Reads(o, q + 1), NEW type \in {"CODE_BLOCK", "FUNCTION_BLOCK"},
         Open(Call(f), o, type)
  PROVE  IInv'
<1>1. /\ input \in Inputs /\ q \in 1..Last /\ q \in Node /\ kids[q] = <<>>
      /\ Last \in Nat /\ pos \in 1..Last /\ Node = 0..Last
  BY Starts DEF Node
<1>2. Built(f)
  BY <1>1 DEF Built
<1>3. o.how = "ok" /\ TypeAt(o.pos) = "DO" => Makes(f, Block(o.pos, type))
  <2>. SUFFICES ASSUME o.how = "ok", TypeAt(o.pos) = "DO" PROVE Makes(f, Block(o.pos, type))
    OBVIOUS
  <2>1. o.pos \in Node
    <3>1. o.pos \in (q + 1)..Last
      BY DEF Reads
    <3>. QED BY <1>1, <3>1
  <2>2. Block(o.pos, type).node = o.pos
    BY <1>1, <2>1, Frames
  <2>. QED BY <2>2 DEF Makes, Awaits
<1>4. TypeAt(q) # "FILE_END"
  BY DEF Headed
<1>. QED BY <1>2, <1>3, <1>4, CallStep

\* A for and a while wait for their block.
LEMMA ForStep ==
  ASSUME IInv, For
  PROVE  IInv'
<1>. DEFINE start == ForUpdates(pos)
            updates == Then(start, Expression)
<1>1. mode = "block" /\ TypeAt(pos) = "FOR"
  BY DEF For, AtStatement
<1>2. IF updates.how = "null" THEN Open(Call(Loop(pos, 0)), start, "CODE_BLOCK")
      ELSE Open(Call(Loop(pos, start.pos)), updates, "CODE_BLOCK")
  BY DEF For
<1>3. /\ input \in Inputs /\ pos \in 1..Last /\ pos \in pos..Last /\ pos \in Node
      /\ Last \in Nat /\ Node = 0..Last /\ 0 \in Node
  BY <1>1, Starts DEF Node
<1>4. /\ Reads(start, pos + 1) /\ Tries(updates, pos + 1)
      /\ updates.how \in {"ok", "null"} => start.how = "ok"
  BY <1>1, <1>3, ForReads
<1>. HIDE DEF start, updates
<1>5. TypeAt(pos) \in Headed
  BY <1>1 DEF Headed
<1>6. \A u \in Node : Loop(pos, u) \in FrameSet /\ Loop(pos, u).kind = "loop" /\ Loop(pos, u).node = pos
  BY <1>3, Frames
<1>7. CASE updates.how = "null"
  BY <1>1, <1>2, <1>3, <1>4, <1>5, <1>6, <1>7, HeadStep
<1>8. CASE updates.how = "ok"
  <2>1. start.pos \in Node
    <3>1. start.pos \in (pos + 1)..Last
      BY <1>4, <1>8 DEF Reads
    <3>. QED BY <1>3, <3>1
  <2>2. Reads(updates, pos + 1)
    BY <1>4, <1>8 DEF Tries, Reads
  <2>. QED BY <1>1, <1>2, <1>3, <1>5, <1>6, <1>8, <2>1, <2>2, HeadStep
<1>9. CASE updates.how \notin {"ok", "null"}
  <2>1. Ended(updates.how)
    BY <1>2, <1>9 DEF Open
  <2>2. updates.how \in Failures
    BY <1>4, <1>9 DEF Tries
  <2>. QED BY <2>1, <2>2, FailStep
<1>. QED BY <1>7, <1>8, <1>9

\* The condition of a while must not be empty.
LEMMA WhileStep ==
  ASSUME IInv, While
  PROVE  IInv'
<1>. DEFINE f == Loop(pos, 0)
            o == SomeExpression(SkipFrom(pos))
<1>1. mode = "block" /\ TypeAt(pos) = "WHILE" /\ Open(Call(f), o, "CODE_BLOCK")
  BY DEF While, AtStatement
<1>2. /\ input \in Inputs /\ pos \in 1..Last /\ pos \in pos..Last /\ pos \in Node
      /\ Last \in Nat /\ 0 \in Node
  BY <1>1, Starts DEF Node
<1>3. f \in FrameSet /\ f.kind = "loop" /\ f.node = pos
  BY <1>2, Frames
<1>4. SkipFrom(pos) = pos + 1 /\ pos + 1 \in 1..Last
  BY <1>1, <1>2, Skip
<1>5. Reads(o, pos + 1)
  BY <1>2, <1>4, ExpressionTries
<1>. HIDE DEF f, o
<1>. QED BY <1>1, <1>2, <1>3, <1>5, HeadStep DEF Headed

\* A function waits for its block.
LEMMA FunctionStep ==
  ASSUME IInv, Function
  PROVE  IInv'
<1>. DEFINE f == Frame("function", pos)
            o == Signature(pos, FALSE)
<1>1. mode = "block" /\ TypeAt(pos) = "FUNCTION" /\ Open(Call(f), o, "FUNCTION_BLOCK")
  BY DEF Function, AtStatement
<1>2. input \in Inputs /\ pos \in 1..Last /\ pos \in pos..Last /\ pos \in Node
  BY <1>1, Starts
<1>3. f \in FrameSet /\ f.kind = "function" /\ f.node = pos
  BY <1>2, Frames
<1>4. Reads(o, pos + 1)
  BY <1>1, <1>2, Skip, SignatureReads
<1>. HIDE DEF f, o
<1>. QED BY <1>1, <1>2, <1>3, <1>4, HeadStep DEF Headed

\* A block of its own.
LEMMA DoStep ==
  ASSUME IInv, Do
  PROVE  IInv'
<1>1. mode = "block" /\ TypeAt(pos) = "DO" /\ Open(stack, Ok(pos), "CODE_BLOCK")
  BY DEF Do, AtStatement
<1>2. /\ Running /\ Top.kind = "block" /\ input \in Inputs /\ pos \in 1..Last /\ pos \in pos..Last
      /\ stack \in Seq(FrameSet) /\ Top = stack[Len(stack)] /\ Top.node < pos /\ Chain(stack)
      /\ Top.node \in Nat
  BY <1>1, TopFacts, StackFacts, Starts DEF Running, IInv, StackInv
<1>3. Reads(Ok(pos), pos)
  BY <1>2, Simplest
<1>4. \A g : Makes(Top, g)
  BY <1>2 DEF Makes, Awaits
<1>5. \A i \in DOMAIN stack : \E j \in DOMAIN stack : stack[i].node = stack[j].node
  OBVIOUS
<1>6. pos > stack[Len(stack)].node
  BY <1>2
<1>7. Makes(stack[Len(stack)], Block(Ok(pos).pos, "CODE_BLOCK"))
  BY <1>2, <1>4
<1>. QED BY <1>1, <1>2, <1>3, <1>5, <1>6, <1>7, OpenStep

\* What follows else belongs to the if before it.
LEMMA ElseStep ==
  ASSUME IInv, Else
  PROVE  IInv'
<1>. DEFINE n == Top.node
            f == Frame("else", n)
            below == Append(Rest, f)
<1>1. /\ mode = "else"
      /\ CASE TypeAt(pos) = "IF" ->
                Open(Append(below, Frame("if", pos)), Condition(pos), "IF_BLOCK")
           [] TypeAt(pos) = "DO" -> Open(below, Ok(pos), "CODE_BLOCK")
           [] OTHER -> Ended("error")
  BY DEF Else, Instead
<1>2. /\ Running /\ Top.kind = "if" /\ HalfIf(n) /\ ends[kids[n][1]] = pos - 1
      /\ input \in Inputs /\ Last \in Nat \ {0} /\ pos \in 1..Last /\ Node = 0..Last
      /\ n \in Node /\ n < pos /\ Built(Top) /\ n # 0
      /\ Rest \in Seq(FrameSet) /\ DOMAIN Rest = 1..(Len(stack) - 1) /\ Len(Rest) = Len(stack) - 1
      /\ \A i \in 1..(Len(stack) - 1) : Rest[i] = stack[i] /\ i \in DOMAIN stack
  BY <1>1, TopFacts, StackFacts DEF Running, IInv, StackInv
<1>3. /\ Chain(Rest) /\ Makes(Rest[Len(Rest)], Top) /\ Len(stack) > 1
      /\ \A i \in DOMAIN Rest : Rest[i].node < n
  BY <1>2, StackFacts
<1>4. f \in FrameSet /\ f.kind = "else" /\ f.node = n
  BY <1>2, Frames
<1>. HIDE DEF f
<1>5. TypeAt(n) = "IF" /\ Built(f)
  BY <1>2, <1>4 DEF Built
<1>6. Makes(Rest[Len(Rest)], f)
  <2>1. Rest[Len(Rest)].kind # "if" /\ Awaits(Rest[Len(Rest)], n)
    BY <1>2, <1>3 DEF Makes
  <2>. QED BY <1>4, <2>1 DEF Makes
<1>7. Rest[Len(Rest)].node < f.node /\ Len(Rest) \in Nat
  <2>1. Len(stack) \in Nat
    BY <1>2, TopFacts
  <2>2. Len(Rest) \in Nat /\ Len(Rest) \in DOMAIN Rest
    BY <1>2, <1>3, <2>1
  <2>3. Rest[Len(Rest)].node < n
    BY <1>3, <2>2
  <2>. QED BY <1>4, <2>2, <2>3
<1>8. /\ below \in Seq(FrameSet) /\ Chain(below)
      /\ Len(below) = Len(Rest) + 1 /\ below[Len(Rest) + 1] = f
  BY <1>2, <1>3, <1>4, <1>5, <1>6, <1>7, Push
<1>9. \A i \in DOMAIN below : \E j \in DOMAIN stack : below[i].node = stack[j].node
  <2>. SUFFICES ASSUME NEW i \in DOMAIN below
                PROVE  \E j \in DOMAIN stack : below[i].node = stack[j].node
    OBVIOUS
  <2>1. i \in 1..(Len(Rest) + 1)
    BY <1>8
  <2>2. CASE i = Len(Rest) + 1
    <3>1. Top = stack[Len(stack)] /\ Len(stack) \in DOMAIN stack
      BY <1>2, TopFacts
    <3>. HIDE DEF below
    <3>. QED BY <1>4, <1>8, <2>2, <3>1
  <2>3. CASE i # Len(Rest) + 1
    <3>1. i \in 1..Len(Rest)
      BY <1>7, <2>1, <2>3
    <3>2. below[i] = Rest[i]
      BY <1>2, <1>4, <3>1
    <3>. QED BY <1>2, <3>1, <3>2
  <2>. QED BY <2>2, <2>3
<1>. HIDE DEF below
<1>10. below[Len(below)] = f
  BY <1>8
<1>11. CASE TypeAt(pos) = "IF"
  <2>. DEFINE g == Frame("if", pos)
              s == Append(below, g)
              o == Condition(pos)
  <2>1. Open(s, o, "IF_BLOCK")
    BY <1>1, <1>11
  <2>2. pos \in Node /\ kids[pos] = <<>> /\ pos + 1 \in pos..Last
    <3>1. pos \in Node /\ pos + 1 \in 1..Last
      BY <1>2, <1>11, Skip
    <3>. QED BY <1>2, <3>1, LinkFacts
  <2>3. g \in FrameSet /\ g.kind = "if" /\ g.node = pos
    BY <1>2, <2>2, Frames
  <2>. HIDE DEF g
  <2>4. Built(g)
    BY <1>11, <2>2, <2>3 DEF Built
  <2>5. Makes(f, g)
    BY <1>2, <1>4, <2>3 DEF Makes, Awaits
  <2>6. below[Len(below)].node < g.node
    BY <1>2, <1>4, <1>10, <2>3
  <2>7. /\ s \in Seq(FrameSet) /\ Chain(s)
        /\ Len(s) = Len(below) + 1 /\ s[Len(below) + 1] = g
    BY <1>2, <1>8, <1>10, <2>3, <2>4, <2>5, <2>6, Push
  <2>8. \A i \in DOMAIN s : s[i].node >= pos \/ \E j \in DOMAIN stack : s[i].node = stack[j].node
    <3>. SUFFICES ASSUME NEW i \in DOMAIN s
                  PROVE  s[i].node >= pos \/ \E j \in DOMAIN stack : s[i].node = stack[j].node
      OBVIOUS
    <3>1. i = Len(below) + 1 \/ (i \in DOMAIN below /\ s[i] = below[i])
      BY <1>8, <2>3
    <3>. HIDE DEF s
    <3>. QED BY <1>2, <1>9, <2>3, <2>7, <3>1
  <2>. HIDE DEF s
  <2>9. s[Len(s)] = g
    BY <2>7
  <2>10. Reads(o, pos + 1) /\ (o.how = "ok" => IfBody(o.pos))
    BY <1>2, <1>11, ConditionReads
  <2>. HIDE DEF o
  <2>11. o.how = "ok" => Makes(s[Len(s)], Block(o.pos, "IF_BLOCK"))
    <3>. SUFFICES ASSUME o.how = "ok" PROVE Makes(g, Block(o.pos, "IF_BLOCK"))
      BY <2>9
    <3>1. o.pos \in Node
      <4>1. o.pos \in (pos + 1)..Last
        BY <2>10 DEF Reads
      <4>. QED BY <1>2, <4>1
    <3>2. LET b == Block(o.pos, "IF_BLOCK") IN
          b.kind = "block" /\ b.node = o.pos /\ b.type = "IF_BLOCK"
      BY <1>2, <3>1, Frames
    <3>. QED BY <2>2, <2>3, <2>10, <3>2 DEF Makes, Awaits
  <2>12. pos + 1 > s[Len(s)].node
    BY <1>2, <2>3, <2>9
  <2>. QED BY <1>2, <2>1, <2>2, <2>7, <2>8, <2>10, <2>11, <2>12, OpenStep
<1>12. CASE TypeAt(pos) = "DO"
  <2>1. Open(below, Ok(pos), "CODE_BLOCK")
    BY <1>1, <1>12
  <2>2. pos \in pos..Last /\ Reads(Ok(pos), pos) /\ Ok(pos).pos = pos /\ pos \in Node
    <3>1. pos \in pos..Last /\ pos \in Node
      BY <1>2
    <3>. QED BY <1>2, <3>1, Simplest
  <2>3. Makes(f, Block(pos, "CODE_BLOCK"))
    <3>1. Block(pos, "CODE_BLOCK").node = pos
      BY <1>2, <2>2, Frames
    <3>. QED BY <1>2, <1>4, <3>1 DEF Makes, Awaits
  <2>4. pos > below[Len(below)].node
    BY <1>2, <1>4, <1>10
  <2>5. Makes(below[Len(below)], Block(Ok(pos).pos, "CODE_BLOCK"))
    BY <1>10, <2>2, <2>3
  <2>. QED BY <1>2, <1>8, <1>9, <2>1, <2>2, <2>4, <2>5, OpenStep
<1>13. CASE TypeAt(pos) \notin {"IF", "DO"}
  <2>1. Ended("error")
    BY <1>1, <1>13
  <2>. QED BY <2>1, FailStep DEF Failures
<1>. QED BY <1>11, <1>12, <1>13

\* A type waits at its do for what its body begins with.
LEMMA TypeStep ==
  ASSUME IInv, Type
  PROVE  IInv'
<1>. DEFINE o == TypeHead(pos)
            f == Frame("type", pos)
            s == Append(stack, f)
<1>1. mode = "block" /\ TypeAt(pos) = "TYPE"
  BY DEF Type, AtStatement
<1>2. IF o.how # "ok" THEN Ended(o.how)
      ELSE /\ stack' = s /\ pos' = o.pos /\ mode' = "body"
           /\ UNCHANGED <<input, kids, ends, val>>
  BY DEF Type, TypeHead, Call
<1>3. /\ Running /\ Top.kind = "block" /\ input \in Inputs /\ pos \in 1..Last /\ pos \in Node
      /\ stack \in Seq(FrameSet) /\ Top = stack[Len(stack)] /\ Top.node < pos /\ Chain(stack)
      /\ Last \in Nat /\ Len(stack) \in Nat /\ DOMAIN stack = 1..Len(stack) /\ stack # <<>>
  BY <1>1, TopFacts, StackFacts, Starts DEF Running, IInv, StackInv
<1>4. Reads(o, pos + 1)
  BY <1>1, <1>3, TypeHeadReads
<1>. HIDE DEF o
<1>5. CASE o.how # "ok"
  <2>1. o.how \in Failures
    BY <1>4, <1>5 DEF Reads
  <2>. QED BY <1>2, <1>5, <2>1, FailStep
<1>6. CASE o.how = "ok"
  <2>1. /\ stack' = s /\ pos' = o.pos /\ mode' = "body" /\ UNCHANGED <<input, kids, ends, val>>
    BY <1>2, <1>6
  <2>2. o.pos \in (pos + 1)..Last
    BY <1>4, <1>6 DEF Reads
  <2>3. pos' \in pos..Last /\ pos' \in 1..Last /\ pos < pos'
    BY <1>3, <2>1, <2>2
  <2>4. f \in FrameSet /\ f.kind = "type" /\ f.node = pos
    BY <1>3, Frames
  <2>. HIDE DEF f
  <2>5. Built(f) /\ Makes(Top, f)
    BY <1>1, <1>3, <2>4 DEF Built, Makes, Awaits
  <2>6. /\ s \in Seq(FrameSet) /\ Chain(s) /\ Len(s) = Len(stack) + 1 /\ s[Len(stack) + 1] = f
    BY <1>3, <2>4, <2>5, Push
  <2>7. \A i \in DOMAIN s : s[i].node >= pos \/ \E j \in DOMAIN stack : s[i].node = stack[j].node
    <3>. SUFFICES ASSUME NEW i \in DOMAIN s
                  PROVE  s[i].node >= pos \/ \E j \in DOMAIN stack : s[i].node = stack[j].node
      OBVIOUS
    <3>1. i = Len(stack) + 1 \/ (i \in DOMAIN stack /\ s[i] = stack[i])
      BY <1>3, <2>4, <2>6
    <3>. HIDE DEF s
    <3>. QED BY <1>3, <2>4, <2>6, <3>1
  <2>. HIDE DEF s
  <2>8. Chain(stack)' /\ LinkedComplete' /\ FreshInv' /\ LinkInv'
    BY <1>3, <2>1, <2>3, <2>6, <2>7, ReadOn
  <2>9. Node' = Node /\ FrameSet' = FrameSet /\ Last' = Last
    BY <2>1, SameTokens
  <2>10. Top' = f /\ stack' # <<>>
    <3>1. stack'[Len(stack')] = f
      BY <2>1, <2>6
    <3>2. s # <<>>
      BY <2>6 DEF Chain
    <3>. QED BY <2>1, <3>1, <3>2 DEF Top
  <2>11. TypeOK'
    BY <2>1, <2>3, <2>6, <2>9 DEF IInv, TypeOK
  <2>12. StackInv'
    BY <2>1, <2>3, <2>4, <2>8, <2>10 DEF StackInv
  <2>13. ReturnInv' /\ input' \in Inputs
    BY <1>3, <2>1 DEF ReturnInv
  <2>. QED BY <2>8, <2>11, <2>12, <2>13 DEF IInv
<1>. QED BY <1>5, <1>6

(***************************************************************************)
(* Statements and members without a block                                  *)
(***************************************************************************)

\* A foreign function has no block.
LEMMA ForeignStep ==
  ASSUME IInv, Foreign
  PROVE  IInv'
<1>. DEFINE o == ForeignFunction(pos)
<1>1. mode = "block" /\ TypeAt(pos) = "FOREIGN" /\ Read(pos, o)
  BY DEF Foreign, AtStatement
<1>2. input \in Inputs /\ pos \in 1..Last /\ pos \in pos..Last /\ Last \in Nat
  BY <1>1, Starts
<1>3. SkipFrom(pos) = pos + 1 /\ pos + 1 \in 1..Last
  BY <1>1, <1>2, Skip
<1>4. Reads(o, pos + 1)
  BY <1>2, <1>3, ForeignFunctionReads
<1>. HIDE DEF o
<1>5. pos + 1 \in pos..Last
  BY <1>2, <1>3
<1>6. Reads(o, pos)
  BY <1>2, <1>4, <1>5, Wider
<1>7. o.how = "ok" => o.pos # pos
  BY <1>2, <1>4 DEF Reads
<1>8. Leaf(pos)
  BY <1>1 DEF Leaf
<1>. QED BY <1>1, <1>2, <1>6, <1>7, <1>8, ReadStep

\* A break is its token.
LEMMA BreakStep ==
  ASSUME IInv, Break
  PROVE  IInv'
<1>1. mode = "block" /\ TypeAt(pos) = "BREAK" /\ Read(pos, Ok(SkipFrom(pos)))
  BY DEF Break, AtStatement
<1>2. input \in Inputs /\ pos \in 1..Last /\ pos \in pos..Last /\ Last \in Nat
  BY <1>1, Starts
<1>3. SkipFrom(pos) = pos + 1 /\ SkipFrom(pos) \in pos..Last
  BY <1>1, <1>2, Skip
<1>4. Reads(Ok(SkipFrom(pos)), pos) /\ Ok(SkipFrom(pos)).pos = SkipFrom(pos)
  BY <1>2, <1>3, Simplest
<1>5. Ok(SkipFrom(pos)).pos # pos
  BY <1>2, <1>3, <1>4
<1>6. Leaf(pos)
  BY <1>1 DEF Leaf
<1>. QED BY <1>1, <1>2, <1>4, <1>5, <1>6, ReadStep

\* What a statement reads before its semicolon.
LEMMA UpToSemiStep ==
  ASSUME IInv, mode \in {"block", "body"}, NEW n \in pos..Last,
         NEW o, Reads(o, n), o.how = "ok" => Leaf(n), Read(n, Then(o, Semi))
  PROVE  IInv'
<1>1. input \in Inputs /\ n \in 1..Last /\ Last \in Nat
  BY Starts
<1>2. /\ Reads(Then(o, Semi), n)
      /\ Then(o, Semi).how = "ok" => o.how = "ok" /\ Then(o, Semi).pos \in (n + 1)..Last
  BY <1>1, ThenSemi
<1>3. Then(o, Semi).how = "ok" => Leaf(n) /\ Then(o, Semi).pos # n
  BY <1>1, <1>2
<1>. QED BY <1>2, <1>3, ReadStep

\* A return has an expression or none.
LEMMA ReturnStatementStep ==
  ASSUME IInv, ReturnStatement
  PROVE  IInv'
<1>. DEFINE q == SkipFrom(pos)
            value == Expression(q)
<1>1. mode = "block" /\ TypeAt(pos) = "RETURN"
      /\ Read(pos, IF value.how = "null" THEN Semi(value.pos) ELSE Then(value, Semi))
  BY DEF ReturnStatement, AtStatement
<1>2. input \in Inputs /\ pos \in 1..Last /\ pos \in pos..Last /\ Last \in Nat
  BY <1>1, Starts
<1>3. q = pos + 1 /\ q \in 1..Last /\ q \in pos..Last
  BY <1>1, <1>2, Skip
<1>4. Tries(value, q)
  BY <1>3, <1>2, ExpressionTries
<1>. HIDE DEF q, value
<1>5. Tries(value, pos)
  BY <1>2, <1>3, <1>4, Wider
<1>6. Leaf(pos)
  BY <1>1 DEF Leaf
<1>7. CASE value.how = "null"
  <2>. DEFINE r == value.pos
              o == Semi(r)
  <2>1. r \in pos..Last /\ r \in 1..Last
    BY <1>2, <1>5, <1>7, StopsToo
  <2>2. Reads(o, r) /\ (o.how = "ok" => o.pos \in (r + 1)..Last)
    BY <1>2, <2>1, SemiReads
  <2>3. Read(pos, o)
    BY <1>1, <1>7
  <2>. HIDE DEF r, o
  <2>4. Reads(o, pos)
    BY <1>2, <2>1, <2>2, Wider
  <2>5. o.how = "ok" => o.pos # pos
    BY <1>2, <2>1, <2>2
  <2>. QED BY <1>1, <1>2, <1>6, <2>3, <2>4, <2>5, ReadStep
<1>8. CASE value.how # "null"
  <2>1. Reads(value, pos)
    BY <1>5, <1>8 DEF Reads, Tries
  <2>. QED BY <1>1, <1>2, <1>6, <1>8, <2>1, UpToSemiStep
<1>. QED BY <1>7, <1>8

\* A declaration begins with a name or define.
LEMMA DeclarationStep ==
  ASSUME IInv, DeclarationStatement
  PROVE  IInv'
<1>1. mode = "block" /\ TypeAt(pos) \in {"DEFINE", "IDENTIFIER"}
      /\ Read(pos, Then(Declaration(pos), Semi))
  BY DEF DeclarationStatement, StartsDeclaration
<1>2. input \in Inputs /\ pos \in 1..Last /\ pos \in pos..Last
  BY <1>1, Starts
<1>3. Reads(Declaration(pos), pos)
  BY <1>1, <1>2, DeclarationTries
<1>4. Leaf(pos)
  BY <1>1 DEF Leaf
<1>. QED BY <1>1, <1>2, <1>3, <1>4, UpToSemiStep

\* An expression begins with a terminal, so it is none of the other statements.
LEMMA ExpressionStep ==
  ASSUME IInv, ExpressionStatement
  PROVE  IInv'
<1>1. mode = "block" /\ Read(pos, Then(SomeExpression(pos), Semi))
  BY DEF ExpressionStatement
<1>2. input \in Inputs /\ pos \in 1..Last /\ pos \in pos..Last
  BY <1>1, Starts
<1>3. Reads(SomeExpression(pos), pos)
      /\ (SomeExpression(pos).how = "ok" => TypeAt(pos) \in TerminalTypes)
  BY <1>2, ExpressionTries
<1>4. SomeExpression(pos).how = "ok" => Leaf(pos)
  BY <1>3 DEF Leaf, TerminalTypes
<1>. QED BY <1>1, <1>2, <1>3, <1>4, UpToSemiStep

\* A member is where its modifiers end.
LEMMA MemberStarts ==
  ASSUME IInv, mode = "body"
  PROVE  /\ input \in Inputs /\ pos \in 1..Last /\ Last \in Nat
         /\ ModifiersEnd \in pos..Last /\ ModifiersEnd \in 1..Last /\ ModifiersEnd \in Node
         /\ IsForeign => Foreigner(ModifiersEnd)
<1>. DEFINE q == ModifiersEnd
<1>1. input \in Inputs /\ pos \in 1..Last /\ Last \in Nat
  BY Starts
<1>2. q \in pos..Last /\ \A i \in pos..(q - 1) : TypeAt(i) \in Modifiers
  BY <1>1, ModifiersEnded
<1>3. q \in 1..Last /\ q \in Node
  BY <1>1, <1>2 DEF Node
<1>. HIDE DEF q
<1>4. ASSUME NEW r \in pos..(q - 1), TypeAt(r) = "FOREIGN" PROVE Foreigner(q)
  <2>1. r \in 1..(q - 1) /\ \A i \in r..(q - 1) : i \in pos..(q - 1)
    BY <1>1, <1>3
  <2>. QED BY <1>2, <1>4, <2>1 DEF Foreigner
<1>5. IsForeign => \E r \in pos..(q - 1) : TypeAt(r) = "FOREIGN"
  BY DEF IsForeign, Given, q
<1>. QED BY <1>1, <1>2, <1>3, <1>4, <1>5 DEF q

\* A constructor has a block unless it is foreign.
LEMMA ConstructorStep ==
  ASSUME IInv, Constructor
  PROVE  IInv'
<1>. DEFINE q == ModifiersEnd
            f == Frame("function", q)
            o == ArgList(SkipFrom(q))
<1>1. /\ mode = "body" /\ TypeAt(q) = "CONSTR"
      /\ IF IsForeign THEN Read(q, Then(o, Semi)) ELSE Open(Call(f), o, "FUNCTION_BLOCK")
  BY DEF Constructor, AtMember
<1>2. /\ input \in Inputs /\ pos \in 1..Last /\ Last \in Nat
      /\ q \in pos..Last /\ q \in 1..Last /\ q \in Node
      /\ IsForeign => Foreigner(q)
  BY <1>1, MemberStarts
<1>. HIDE DEF q
<1>3. SkipFrom(q) = q + 1 /\ q + 1 \in 1..Last /\ q + 1 \in q..Last
  BY <1>1, <1>2, Skip
<1>4. Reads(o, q + 1)
  BY <1>2, <1>3, ArgListReads
<1>5. f \in FrameSet /\ f.kind = "function" /\ f.node = q
  BY <1>2, Frames
<1>. HIDE DEF f, o
<1>6. CASE IsForeign
  <2>1. Reads(o, q)
    BY <1>2, <1>3, <1>4, Wider
  <2>2. Leaf(q)
    BY <1>1, <1>2, <1>6 DEF Leaf
  <2>. QED BY <1>1, <1>2, <1>6, <2>1, <2>2, UpToSemiStep
<1>7. CASE ~IsForeign
  <2>1. TypeAt(q) \in Headed
    BY <1>1 DEF Headed
  <2>. QED BY <1>1, <1>2, <1>4, <1>5, <1>7, <2>1, HeadStep
<1>. QED BY <1>6, <1>7

\* So has a method.
LEMMA MethodStep ==
  ASSUME IInv, Method
  PROVE  IInv'
<1>. DEFINE q == ModifiersEnd
            f == Frame("function", q)
            o == ForeignFunction(q)
            h == Signature(q, FALSE)
<1>1. /\ mode = "body" /\ TypeAt(q) = "METHOD"
      /\ IF IsForeign THEN Read(q, Then(o, Semi)) ELSE Open(Call(f), h, "FUNCTION_BLOCK")
  BY DEF Method, AtMember
<1>2. /\ input \in Inputs /\ pos \in 1..Last /\ Last \in Nat
      /\ q \in pos..Last /\ q \in 1..Last /\ q \in Node
      /\ IsForeign => Foreigner(q)
  BY <1>1, MemberStarts
<1>. HIDE DEF q
<1>3. SkipFrom(q) = q + 1 /\ q + 1 \in 1..Last /\ q + 1 \in q..Last
  BY <1>1, <1>2, Skip
<1>4. Reads(o, q + 1)
  BY <1>2, <1>3, ForeignFunctionReads
<1>5. Reads(h, q + 1)
  BY <1>2, <1>3, SignatureReads
<1>6. f \in FrameSet /\ f.kind = "function" /\ f.node = q
  BY <1>2, Frames
<1>. HIDE DEF f, o, h
<1>7. CASE IsForeign
  <2>1. Reads(o, q)
    BY <1>2, <1>3, <1>4, Wider
  <2>2. Leaf(q)
    BY <1>1, <1>2, <1>7 DEF Leaf
  <2>. QED BY <1>1, <1>2, <1>7, <2>1, <2>2, UpToSemiStep
<1>8. CASE ~IsForeign
  <2>1. TypeAt(q) \in Headed
    BY <1>1 DEF Headed
  <2>. QED BY <1>1, <1>2, <1>5, <1>6, <1>8, <2>1, HeadStep
<1>. QED BY <1>7, <1>8

\* A member is a declaration that has an initial value.
LEMMA MemberStep ==
  ASSUME IInv, Member
  PROVE  IInv'
<1>. DEFINE q == ModifiersEnd
            read == OrElse(Declaration(q), "internal")
<1>1. /\ mode = "body"
      /\ Read(q, IF read.how = "ok" /\ ~HasInit(q) THEN Fail("crash") ELSE Then(read, Semi))
  BY DEF Member, AtMember
<1>2. input \in Inputs /\ q \in pos..Last /\ q \in 1..Last
  BY <1>1, MemberStarts
<1>. HIDE DEF q
<1>3. Tries(Declaration(q), q)
      /\ (Declaration(q).how = "ok" => TypeAt(q) \in {"DEFINE", "IDENTIFIER"})
  BY <1>2, DeclarationTries
<1>4. Reads(read, q) /\ (read.how = "ok" => Declaration(q).how = "ok")
  <2>1. "internal" \in Failures
    BY DEF Failures
  <2>. QED BY <1>3, <2>1, OrElseReads
<1>. HIDE DEF read
<1>5. read.how = "ok" => Leaf(q)
  BY <1>3, <1>4 DEF Leaf
<1>6. CASE read.how = "ok" /\ ~HasInit(q)
  <2>1. Fail("crash").how = "crash"
    BY DEF Fail
  <2>2. Ended("crash")
    BY <1>1, <1>6, <2>1 DEF Read
  <2>. QED BY <2>2, FailStep DEF Failures
<1>7. CASE ~(read.how = "ok" /\ ~HasInit(q))
  <2>1. Read(q, Then(read, Semi))
    BY <1>1, <1>7
  <2>. QED BY <1>1, <1>2, <1>4, <1>5, <2>1, UpToSemiStep
<1>. QED BY <1>6, <1>7

(***************************************************************************)
(* The specification                                                       *)
(***************************************************************************)

\* The parser begins with the root block, at the first token.
LEMMA InitHolds ==
  ASSUME Init
  PROVE  IInv
<1>. DEFINE b == Block(0, "ROOT_BLOCK")
<1>1. /\ input \in Inputs /\ pos = 1 /\ val = 0 /\ mode = "block" /\ stack = <<b>>
      /\ kids = [n \in Node |-> <<>>] /\ ends = [n \in Node |-> 0]
  BY DEF Init, Node, Last
<1>2. input \in Seq(TokenSet) /\ Last \in Nat \ {0} /\ Node = 0..Last /\ 0 \in Node
  BY <1>1, Tokens DEF Node
<1>3. b \in FrameSet /\ b.kind = "block" /\ b.node = 0
  BY <1>1, <1>2, Frames
<1>. HIDE DEF b
<1>4. /\ stack \in Seq(FrameSet) /\ Len(stack) = 1 /\ DOMAIN stack = {1} /\ stack[1] = b
      /\ stack # <<>> /\ Top = b
  BY <1>1, <1>3 DEF Top
<1>5. \A n \in Node : kids[n] = <<>> /\ ends[n] = 0 /\ DOMAIN kids[n] = {}
  BY <1>1
<1>6. TypeOK
  <2>1. kids \in [Node -> Seq(Node)] /\ ends \in [Node -> Node] /\ pos \in 1..Last /\ val \in Node
    BY <1>1, <1>2
  <2>. QED BY <1>1, <1>2, <1>4, <2>1 DEF TypeOK
<1>7. LinkedComplete
  BY <1>5 DEF LinkedComplete
<1>8. Built(b)
  BY <1>2, <1>3, <1>5 DEF Built
<1>9. Chain(stack)
  <2>1. 1..(Len(stack) - 1) = {}
    BY <1>4
  <2>2. \A i, j \in DOMAIN stack : ~(i < j)
    BY <1>4
  <2>. QED BY <1>3, <1>4, <1>8, <2>1, <2>2 DEF Chain
<1>10. StackInv
  BY <1>1, <1>3, <1>4, <1>9 DEF StackInv
<1>11. ReturnInv /\ FreshInv
  BY <1>1, <1>5 DEF ReturnInv, FreshInv
<1>12. LinkInv
  BY <1>5 DEF LinkInv, Children
<1>. QED BY <1>1, <1>6, <1>7, <1>10, <1>11, <1>12 DEF IInv

\* Nothing in the invariant but the variables.
LEMMA StutterStep ==
  ASSUME IInv, UNCHANGED vars
  PROVE  IInv'
<1>1. UNCHANGED <<input, pos, kids, ends, stack, val, mode>>
  BY DEF vars
<1>2. Last' = Last /\ Node' = Node /\ FrameSet' = FrameSet /\ Top' = Top
  BY <1>1, SameTokens DEF Top
<1>3. \A n : /\ TypeAt(n)' = TypeAt(n) /\ (IfBody(n)' <=> IfBody(n))
             /\ Foreigner(n)' <=> Foreigner(n)
  BY <1>1, SameTokens
<1>4. \A n : Children(n)' = Children(n) /\ (HalfIf(n)' <=> HalfIf(n))
  BY <1>1, <1>3 DEF Children, HalfIf
<1>5. \A n : Complete(n)' <=> Complete(n)
  BY <1>1, <1>3 DEF Complete
<1>6. \A f, n : (Built(f)' <=> Built(f)) /\ (Awaits(f, n)' <=> Awaits(f, n))
  BY <1>1, <1>3, <1>4 DEF Built, Awaits
<1>7. \A f, g : Makes(f, g)' <=> Makes(f, g)
  BY <1>6 DEF Makes
<1>8. \A s : Chain(s)' <=> Chain(s)
  BY <1>6, <1>7 DEF Chain
<1>9. TypeOK' /\ LinkedComplete'
  BY <1>1, <1>2, <1>5 DEF IInv, TypeOK, LinkedComplete
<1>10. ASSUME Running PROVE StackInv' /\ ReturnInv' /\ FreshInv' /\ LinkInv'
  <2>1. StackInv /\ ReturnInv /\ FreshInv /\ LinkInv
    BY <1>10 DEF IInv
  <2>2. StackInv'
    BY <1>1, <1>2, <1>4, <1>8, <2>1 DEF StackInv
  <2>3. ReturnInv'
    BY <1>1, <1>2, <1>3, <1>5, <1>6, <2>1 DEF ReturnInv
  <2>4. FreshInv'
    BY <1>1, <1>2, <1>3, <2>1 DEF FreshInv
  <2>5. LinkInv'
    BY <1>1, <1>2, <1>3, <1>4, <2>1 DEF LinkInv
  <2>. QED BY <2>2, <2>3, <2>4, <2>5
<1>11. Running' <=> Running
  BY <1>1 DEF Running
<1>. QED BY <1>1, <1>9, <1>10, <1>11 DEF IInv

\* Every step keeps the invariant.
LEMMA NextStep ==
  ASSUME IInv, Next
  PROVE  IInv'
<1>1. CASE EndBlock
  BY <1>1, EndBlockStep
<1>2. CASE Statement
  <2>1. CASE Type
    BY <2>1, TypeStep
  <2>2. CASE If
    BY <2>2, IfStep
  <2>3. CASE For
    BY <2>3, ForStep
  <2>4. CASE While
    BY <2>4, WhileStep
  <2>5. CASE Do
    BY <2>5, DoStep
  <2>6. CASE DeclarationStatement
    BY <2>6, DeclarationStep
  <2>7. CASE ExpressionStatement
    BY <2>7, ExpressionStep
  <2>8. CASE Break
    BY <2>8, BreakStep
  <2>9. CASE Continue
    BY <2>9, FailStep DEF Continue, Failures
  <2>10. CASE ReturnStatement
    BY <2>10, ReturnStatementStep
  <2>11. CASE Function
    BY <2>11, FunctionStep
  <2>12. CASE Foreign
    BY <2>12, ForeignStep
  <2>. QED BY <1>2, <2>1, <2>2, <2>3, <2>4, <2>5, <2>6, <2>7, <2>8, <2>9, <2>10, <2>11, <2>12
           DEF Statement
<1>3. CASE Else
  BY <1>3, ElseStep
<1>4. CASE Body
  <2>1. CASE EndType
    BY <2>1, EndTypeStep
  <2>2. CASE BadMember
    BY <2>2, FailStep DEF BadMember, Failures
  <2>3. CASE Constructor
    BY <2>3, ConstructorStep
  <2>4. CASE Method
    BY <2>4, MethodStep
  <2>5. CASE Member
    BY <2>5, MemberStep
  <2>. QED BY <1>4, <2>1, <2>2, <2>3, <2>4, <2>5 DEF Body
<1>5. CASE Returned
  <2>1. CASE ToBlock
    BY <2>1, ToBlockStep
  <2>2. CASE ToIf
    BY <2>2, ToIfStep
  <2>3. CASE ToElse
    BY <2>3, ToElseStep
  <2>4. CASE ToLoop
    BY <2>4, ToLoopStep
  <2>5. CASE ToFunction
    BY <2>5, ToFunctionStep
  <2>6. CASE ToType
    BY <2>6, ToTypeStep
  <2>. QED BY <1>5, <2>1, <2>2, <2>3, <2>4, <2>5, <2>6 DEF Returned
<1>. QED BY <1>1, <1>2, <1>3, <1>4, <1>5 DEF Next

\* The invariant holds in every state the parser is in.
LEMMA Invariance == Spec => []IInv
<1>1. Init => IInv
  BY InitHolds
<1>2. IInv /\ [Next]_vars => IInv'
  BY NextStep, StutterStep
<1>. QED BY <1>1, <1>2, PTL DEF Spec

\* Whatever the tokens, tokenParser.cpp reads none behind the last one and keeps
\* its stack of calls, and the tree's nodes are tokens.
THEOREM StaysInside == Spec => []TypeOK
<1>1. IInv => TypeOK
  BY DEF IInv
<1>. QED BY <1>1, Invariance, PTL

\* Whatever the tokens, what addChild, success, failiure and code hand to a parent
\* has all the parts the code generator will ask it for: an if its block and, when
\* that stopped at an else, what follows this else; a loop and a function
\* their block; a block and a type an end.
THEOREM HandedOverComplete == Spec => []LinkedComplete
<1>1. IInv => LinkedComplete
  BY DEF IInv
<1>. QED BY <1>1, Invariance, PTL

(***************************************************************************)
(* Which tokens headers and statements take                                *)
(***************************************************************************)

\* No keyword stands from p up to before q.
Quiet(p, q) == \A i \in p..(q - 1) : TypeAt(i) \notin Keywords

\* What o read from p on has no keyword.
Plain(o, p) == o.how \in {"ok", "null"} => o.pos \in p..Last /\ Quiet(p, o.pos)

\* Stretches without keywords, one after the other.
LEMMA QuietOn ==
  ASSUME NEW p \in Int, NEW q \in Int, NEW r \in Int, Quiet(p, q), Quiet(q, r)
  PROVE  Quiet(p, r)
<1>. SUFFICES ASSUME NEW i \in p..(r - 1) PROVE TypeAt(i) \notin Keywords
  BY DEF Quiet
<1>1. i \in p..(q - 1) \/ i \in q..(r - 1)
  OBVIOUS
<1>. QED BY <1>1 DEF Quiet

\* None at all, one token, and what is read by going on from a.
LEMMA QuietOne ==
  ASSUME input \in Inputs, NEW p \in 1..Last
  PROVE  /\ Quiet(p, p) /\ Plain(Ok(p), p) /\ Plain(Null(p), p)
         /\ \A how \in Failures : Plain(Fail(how), p)
         /\ TypeAt(p) \notin Keywords => Quiet(p, p + 1) /\ Quiet(p, SkipFrom(p)) /\ Plain(Ok(SkipFrom(p)), p)
<1>1. p \in Nat /\ Last \in Nat /\ p \in p..Last
  BY Tokens
<1>2. SkipFrom(p) \in p..Last /\ (SkipFrom(p) = p \/ SkipFrom(p) = p + 1)
  <2>1. SkipFrom(p) \in p..Last
    BY Skip
  <2>. QED BY <1>1, <2>1 DEF SkipFrom
<1>3. Quiet(p, p)
  BY <1>1 DEF Quiet
<1>4. TypeAt(p) \notin Keywords => Quiet(p, p + 1)
  BY <1>1 DEF Quiet
<1>5. /\ Ok(p).how = "ok" /\ Ok(p).pos = p /\ Null(p).how = "null" /\ Null(p).pos = p
      /\ Ok(SkipFrom(p)).how = "ok" /\ Ok(SkipFrom(p)).pos = SkipFrom(p)
      /\ \A how \in Failures : Fail(how).how \notin {"ok", "null"}
  BY DEF Ok, Null, Fail, Failures
<1>6. TypeAt(p) \notin Keywords => Quiet(p, SkipFrom(p))
  BY <1>2, <1>3, <1>4
<1>. QED BY <1>1, <1>2, <1>3, <1>4, <1>5, <1>6 DEF Plain

\* A plain outcome after a plain outcome is plain.
LEMMA PlainOn ==
  ASSUME NEW p \in Nat, NEW a, NEW b, NEW o, Plain(a, p), a.how = "ok" => Plain(b, a.pos),
         o = IF a.how = "ok" THEN b ELSE a
  PROVE  Plain(o, p)
<1>1. CASE a.how = "ok"
  <2>1. SUFFICES ASSUME o.how \in {"ok", "null"} PROVE o.pos \in p..Last /\ Quiet(p, o.pos)
    BY DEF Plain
  <2>2. a.pos \in p..Last /\ Quiet(p, a.pos) /\ o = b /\ o.pos \in a.pos..Last /\ Quiet(a.pos, o.pos)
    BY <1>1, <2>1 DEF Plain
  <2>3. o.pos \in p..Last /\ a.pos \in Int /\ o.pos \in Int
    BY <2>2
  <2>4. Quiet(p, o.pos)
    BY <2>2, <2>3, QuietOn
  <2>. QED BY <2>3, <2>4
<1>2. CASE a.how # "ok"
  BY <1>2
<1>. QED BY <1>1, <1>2

\* An expected token that is no keyword.
LEMMA ExpectPlain ==
  ASSUME input \in Inputs, NEW p \in 1..Last, NEW t, t \notin Keywords
  PROVE  Plain(Expect(p, t), p)
<1>1. Plain(Fail("error"), p)
  BY QuietOne DEF Failures
<1>2. TypeAt(p) = t => Plain(Ok(SkipFrom(p)), p)
  BY QuietOne
<1>. QED BY <1>1, <1>2 DEF Expect

\* Another name for a failure does not change which tokens were taken.
LEMMA OrElsePlain ==
  ASSUME input \in Inputs, NEW p \in 1..Last, NEW o, o \in Outcome, Plain(o, p), NEW how \in Failures
  PROVE  Plain(OrElse(o, how), p)
<1>1. OrElse(o, how) = IF o.how = "null" THEN Fail(how) ELSE o
  BY DEF OrElse
<1>2. Plain(Fail(how), p)
  BY QuietOne
<1>. QED BY <1>1, <1>2

\* Expressions have terminals and operators.
LEMMA ExpressionPlain ==
  ASSUME input \in Inputs, NEW p \in 1..Last
  PROVE  /\ Plain(Expression(p), p) /\ Plain(SomeExpression(p), p)
         /\ Expression(p).how = "ok" => \A i \in p..(Expression(p).pos - 1) : TypeAt(i) \in TerminalTypes \cup {"OPERATOR"}
<1>. DEFINE e == ExprEnd(input, p)
<1>1. e \in p..Last /\ \A i \in p..(e - 1) : TypeAt(i) \in TerminalTypes \cup {"OPERATOR"}
  BY ExprEnds
<1>2. Quiet(p, e)
  BY <1>1 DEF Quiet, Keywords, TerminalTypes
<1>3. Tries(Expression(p), p) /\ (Expression(p).how = "ok" => Expression(p).pos = e)
  BY ExpressionTries
<1>4. Expression(p) \in {Null(p), Fail("internal"), Fail("error"), Ok(e)}
  BY DEF Expression
<1>. HIDE DEF e
<1>5. Plain(Null(p), p) /\ Plain(Fail("internal"), p) /\ Plain(Fail("error"), p)
  BY QuietOne DEF Failures
<1>6. Plain(Ok(e), p)
  BY <1>1, <1>2 DEF Plain, Ok
<1>7. Plain(Expression(p), p)
  BY <1>4, <1>5, <1>6
<1>8. Plain(SomeExpression(p), p)
  BY <1>3, <1>7, OrElsePlain DEF SomeExpression, Tries, Failures
<1>. QED BY <1>1, <1>3, <1>7, <1>8

\* A comma is an operator.
LEMMA CommaType ==
  ASSUME input \in Inputs, NEW p \in 1..Last, CommaAt(p)
  PROVE  TypeAt(p) = "OPERATOR"
<1>1. input[p] \in TokenSet /\ input[p].op # 0
  BY Tokens DEF CommaAt, IsOp
<1>. QED BY <1>1 DEF TokenSet, TypeAt

\* Type lists have identifiers and commas.
LEMMA TypeListPlain ==
  ASSUME input \in Inputs, NEW p \in 1..Last
  PROVE  /\ Plain(TypeList(p), p) /\ Quiet(p, TypeListEnd(p))
         /\ \A i \in p..(TypeListEnd(p) - 1) : TypeAt(i) \in {"IDENTIFIER", "OPERATOR"}
<1>. DEFINE S == {q \in p..Last : ~InTurn(p, q)}
            e == TypeListEnd(p)
<1>1. p \in Nat /\ Last \in Nat /\ \A i \in p..Last : i \in 1..Last
  BY Tokens
<1>2. Last \in S
  <2>1. TypeAt(Last) = "FILE_END" /\ Last \in 1..Last
    BY Tokens
  <2>2. ~CommaAt(Last)
    BY <2>1, CommaType
  <2>. QED BY <1>1, <2>1, <2>2 DEF InTurn
<1>3. \E q \in p..Last : q \in S /\ \A i \in p..(q - 1) : i \notin S
  <2>. HIDE DEF S
  <2>. QED BY <1>2, FirstOf
<1>4. \E q \in p..Last : ~InTurn(p, q) /\ \A i \in p..(q - 1) : InTurn(p, i)
  BY <1>1, <1>3
<1>5. e \in p..Last /\ \A i \in p..(e - 1) : InTurn(p, i)
  BY <1>4 DEF TypeListEnd
<1>. HIDE DEF e
<1>6. \A i \in p..(e - 1) : TypeAt(i) \in {"IDENTIFIER", "OPERATOR"}
  <2>. SUFFICES ASSUME NEW i \in p..(e - 1) PROVE TypeAt(i) \in {"IDENTIFIER", "OPERATOR"}
    OBVIOUS
  <2>1. InTurn(p, i) /\ i \in 1..Last
    BY <1>1, <1>5
  <2>. QED BY <2>1, CommaType DEF InTurn
<1>7. Quiet(p, e)
  BY <1>6 DEF Quiet, Keywords
<1>8. TypeList(p) \in {Fail("error"), Ok(e)}
  BY DEF TypeList, e
<1>9. Plain(Fail("error"), p)
  BY QuietOne DEF Failures
<1>10. Plain(Ok(e), p)
  BY <1>5, <1>7 DEF Plain, Ok
<1>11. Plain(TypeList(p), p)
  BY <1>8, <1>9, <1>10
<1>. QED BY <1>6, <1>7, <1>11 DEF e

\* The names of arguments are no keywords if those are seen.
LEMMA SigArgsPlain ==
  ASSUME input \in Inputs, KeywordsSeen, NEW p \in 1..Last
  PROVE  Plain(SigArgs[p], p)
<1>. DEFINE n == Last - 1
            S == {m \in 0..n : Plain(SigArgs[Last - m], Last - m)}
<1>1. n \in Nat /\ Last \in Nat \ {0} /\ n = Last - 1 /\ \A m \in 0..n : Last - m \in 1..Last
  BY Tokens
<1>2. ASSUME NEW m \in 0..n, 0..(m - 1) \subseteq S PROVE m \in S
  <2>. DEFINE q == Last - m
              name == TypeListEnd(q)
              after == SkipFrom(name)
  <2>1. q \in 1..Last /\ q \in Nat
    BY <1>1
  <2>2. name \in q..Last /\ name \in 1..Last /\ name \in Nat /\ Quiet(q, name) /\ Plain(TypeList(q), q)
    <3>1. name \in q..Last
      BY <2>1, TypeListEnds
    <3>2. name \in 1..Last /\ name \in Nat
      BY <1>1, <2>1, <3>1
    <3>. QED BY <2>1, <3>1, <3>2, TypeListPlain
  <2>3. after \in 1..Last /\ (TypeAt(name) # "FILE_END" => after = name + 1)
    BY <2>2, Skip
  <2>4. SigArgs[q] = IF TypeList(q).how # "ok" THEN TypeList(q)
                     ELSE IF CommaAt(after) THEN SigArgs[SkipFrom(after)]
                     ELSE IF TypeAt(after) = "SQPAREN_RIGHT" THEN Ok(SkipFrom(after))
                     ELSE Fail("error")
    BY <2>1, SigArgsDefined
  <2>5. CommaAt(after) \/ TypeAt(after) = "SQPAREN_RIGHT" => TypeAt(after) \in {"OPERATOR", "SQPAREN_RIGHT"}
    BY <2>3, CommaType
  <2>6. TypeAt(name) = "FILE_END" => TypeAt(after) = "FILE_END"
    <3>1. TypeAt(name) = "FILE_END" => name = Last
      BY <2>2, Tokens
    <3>2. name = Last => after = Last
      BY <1>1 DEF SkipFrom
    <3>. QED BY <3>1, <3>2
  <2>7. ASSUME CommaAt(after) \/ TypeAt(after) = "SQPAREN_RIGHT"
        PROVE  LET r == SkipFrom(after) IN
               Quiet(q, r) /\ r = name + 2 /\ r \in q..Last /\ r \in 1..Last /\ q < r /\ r \in Nat
    <3>1. TypeAt(after) # "FILE_END" /\ after = name + 1 /\ TypeAt(after) \notin Keywords
      BY <2>3, <2>5, <2>6, <2>7 DEF Keywords
    <3>2. TypeAt(name) \notin Keywords
      <4>1. Unseen(name)
        BY <1>1, <2>2, <2>3, <2>7, <3>1 DEF Unseen
      <4>. QED BY <2>2, <4>1 DEF KeywordsSeen
    <3>3. SkipFrom(after) = after + 1 /\ after + 1 \in 1..Last
      BY <2>3, <3>1, Skip
    <3>. HIDE DEF after, name, q
    <3>4. Quiet(name, name + 1) /\ Quiet(name + 1, name + 2)
      BY <2>2, <2>3, <3>1, <3>2 DEF Quiet
    <3>5. Quiet(q, name + 1)
      BY <2>1, <2>2, <3>4, QuietOn
    <3>6. Quiet(q, name + 2)
      BY <2>1, <2>2, <3>4, <3>5, QuietOn
    <3>. QED BY <1>1, <2>1, <2>2, <3>1, <3>3, <3>6
  <2>. HIDE DEF after, name
  <2>8. ASSUME CommaAt(after) PROVE Plain(SigArgs[SkipFrom(after)], q)
    <3>. DEFINE r == SkipFrom(after)
    <3>1. Quiet(q, r) /\ r \in 1..Last /\ q < r /\ r \in Nat /\ r \in q..Last
      BY <2>7, <2>8
    <3>. HIDE DEF r
    <3>2. Last - r \in 0..(m - 1) /\ Last - (Last - r) = r
      BY <1>1, <3>1
    <3>3. Plain(SigArgs[r], r)
      <4>1. Last - r \in S
        BY <1>2, <3>2
      <4>. QED BY <3>2, <4>1
    <3>. HIDE DEF q
    <3>4. Plain(SigArgs[r], q)
      <4>. SUFFICES ASSUME SigArgs[r].how \in {"ok", "null"} PROVE SigArgs[r].pos \in q..Last /\ Quiet(q, SigArgs[r].pos)
        BY DEF Plain
      <4>1. SigArgs[r].pos \in r..Last /\ Quiet(r, SigArgs[r].pos)
        BY <3>3 DEF Plain
      <4>2. SigArgs[r].pos \in q..Last /\ SigArgs[r].pos \in Int
        BY <2>1, <3>1, <4>1
      <4>. QED BY <2>1, <3>1, <4>1, <4>2, QuietOn
    <3>. QED BY <3>4 DEF r
  <2>9. ASSUME TypeAt(after) = "SQPAREN_RIGHT" PROVE Plain(Ok(SkipFrom(after)), q)
    BY <2>7, <2>9 DEF Plain, Ok
  <2>10. Plain(Fail("error"), q)
    BY <2>1, QuietOne DEF Failures
  <2>11. Plain(SigArgs[q], q)
    <3>. HIDE DEF q
    <3>. QED BY <2>2, <2>4, <2>8, <2>9, <2>10
  <2>. QED BY <2>11
<1>3. S \in SUBSET (0..n)
  OBVIOUS
<1>4. S = 0..n
  <2>. HIDE DEF S, n
  <2>. QED BY <1>1, <1>2, <1>3, SetInduction
<1>5. Last - p \in S /\ Last - (Last - p) = p
  <2>. HIDE DEF S
  <2>. QED BY <1>1, <1>4
<1>. QED BY <1>5

\* The rest of the helpers.
LEMMA DeclarationPlain ==
  ASSUME input \in Inputs, NEW p \in 1..Last
  PROVE  Plain(DeclaredName(p), p) /\ Plain(Declaration(p), p)
<1>. DEFINE list == TypeList(p)
            name == Then(list, LAMBDA q : Expect(q, "IDENTIFIER"))
<1>0. p \in Nat /\ p \in p..Last
  BY Tokens
<1>1. Reads(list, p) /\ Plain(list, p)
  BY TypeListReads, TypeListPlain
<1>. HIDE DEF list
<1>2. list \in Outcome /\ (list.how = "ok" => list.pos \in 1..Last)
  BY <1>1, Stops
<1>3. name = IF list.how = "ok" THEN Expect(list.pos, "IDENTIFIER") ELSE list
  BY <1>2 DEF Then
<1>. HIDE DEF name
<1>4. list.how = "ok" => Plain(Expect(list.pos, "IDENTIFIER"), list.pos)
  BY <1>2, ExpectPlain DEF Keywords
<1>5. Plain(name, p)
  BY <1>0, <1>1, <1>3, <1>4, PlainOn
<1>6. TypeAt(p) = "DEFINE" => Plain(Expect(SkipFrom(p), "IDENTIFIER"), p)
  <2>. SUFFICES ASSUME TypeAt(p) = "DEFINE" PROVE Plain(Expect(SkipFrom(p), "IDENTIFIER"), p)
    OBVIOUS
  <2>1. Plain(Ok(SkipFrom(p)), p)
    BY QuietOne DEF Keywords
  <2>2. SkipFrom(p) \in 1..Last
    BY Skip
  <2>3. Plain(Expect(SkipFrom(p), "IDENTIFIER"), SkipFrom(p))
    BY <2>2, ExpectPlain DEF Keywords
  <2>4. Ok(SkipFrom(p)).how = "ok" /\ Ok(SkipFrom(p)).pos = SkipFrom(p)
    BY DEF Ok
  <2>. QED BY <1>0, <2>1, <2>3, <2>4, PlainOn
<1>7. Plain(Null(p), p)
  BY QuietOne
<1>. DEFINE d == DeclaredName(p)
<1>8. Plain(d, p)
  BY <1>5, <1>6, <1>7 DEF DeclaredName, name, list
<1>9. Tries(d, p)
  BY DeclaredNameTries
<1>. HIDE DEF d
<1>10. HasInit(p) => d.how = "ok" /\ AssignAt(d.pos)
  BY DEF HasInit, d
<1>11. HasInit(p) => Plain(SomeExpression(SkipFrom(d.pos)), p)
  <2>. SUFFICES ASSUME HasInit(p) PROVE Plain(SomeExpression(SkipFrom(d.pos)), p)
    OBVIOUS
  <2>1. d.how = "ok" /\ d.pos \in p..Last /\ d.pos \in 1..Last /\ d.pos \in Nat
    BY <1>0, <1>9, <1>10 DEF Tries
  <2>2. TypeAt(d.pos) = "OPERATOR"
    <3>1. input[d.pos] \in TokenSet /\ input[d.pos].op # 0
      BY <1>10, <2>1, Tokens DEF AssignAt, IsOp
    <3>. QED BY <3>1 DEF TokenSet, TypeAt
  <2>3. Plain(Ok(SkipFrom(d.pos)), d.pos) /\ SkipFrom(d.pos) \in 1..Last
    BY <2>1, <2>2, QuietOne, Skip DEF Keywords
  <2>4. Plain(SomeExpression(SkipFrom(d.pos)), SkipFrom(d.pos))
    BY <2>3, ExpressionPlain
  <2>5. Ok(SkipFrom(d.pos)).how = "ok" /\ Ok(SkipFrom(d.pos)).pos = SkipFrom(d.pos)
    BY DEF Ok
  <2>6. Plain(SomeExpression(SkipFrom(d.pos)), d.pos)
    BY <2>1, <2>3, <2>4, <2>5, PlainOn
  <2>. QED BY <1>0, <1>8, <2>1, <2>6, PlainOn
<1>12. Plain(Declaration(p), p)
  BY <1>8, <1>11 DEF Declaration, d
<1>. QED BY <1>8, <1>12 DEF d

\* A return type takes no keyword.
LEMMA ReturnTypePlain ==
  ASSUME input \in Inputs, NEW p \in 1..Last
  PROVE  Plain(ReturnType(p), p)
<1>1. TypeAt(p) = "FAT_ARROW" => Plain(TypeList(SkipFrom(p)), p)
  <2>. SUFFICES ASSUME TypeAt(p) = "FAT_ARROW" PROVE Plain(TypeList(SkipFrom(p)), p)
    OBVIOUS
  <2>0. TypeAt(p) \notin Keywords /\ SkipFrom(p) \in 1..Last /\ p \in Nat
    BY Skip, Tokens DEF Keywords
  <2>1. Plain(Ok(SkipFrom(p)), p) /\ SkipFrom(p) \in 1..Last /\ p \in Nat
    BY <2>0, QuietOne
  <2>2. Plain(TypeList(SkipFrom(p)), SkipFrom(p))
    BY <2>1, TypeListPlain
  <2>3. Ok(SkipFrom(p)).how = "ok" /\ Ok(SkipFrom(p)).pos = SkipFrom(p)
    BY DEF Ok
  <2>. QED BY <2>1, <2>2, <2>3, PlainOn
<1>2. Plain(Ok(p), p)
  BY QuietOne
<1>. QED BY <1>1, <1>2 DEF ReturnType

\* A list of parameters takes no keyword, as long as no keyword stands for a name.
LEMMA ArgListPlain ==
  ASSUME input \in Inputs, KeywordsSeen, NEW p \in 1..Last
  PROVE  Plain(ArgList(p), p)
<1>1. TypeAt(p) = "SQPAREN_LEFT" => Plain(SigArgs[SkipFrom(p)], p)
  <2>. SUFFICES ASSUME TypeAt(p) = "SQPAREN_LEFT" PROVE Plain(SigArgs[SkipFrom(p)], p)
    OBVIOUS
  <2>0. TypeAt(p) \notin Keywords /\ SkipFrom(p) \in 1..Last /\ p \in Nat
    BY Skip, Tokens DEF Keywords
  <2>1. Plain(Ok(SkipFrom(p)), p) /\ SkipFrom(p) \in 1..Last /\ p \in Nat
    BY <2>0, QuietOne
  <2>2. Plain(SigArgs[SkipFrom(p)], SkipFrom(p))
    BY <2>1, SigArgsPlain
  <2>3. Ok(SkipFrom(p)).how = "ok" /\ Ok(SkipFrom(p)).pos = SkipFrom(p)
    BY DEF Ok
  <2>. QED BY <2>1, <2>2, <2>3, PlainOn
<1>2. Plain(Ok(p), p)
  BY QuietOne
<1>. QED BY <1>1, <1>2 DEF ArgList

\* A signature takes no keyword, as long as no keyword stands for a name.
LEMMA SignaturePlain ==
  ASSUME input \in Inputs, KeywordsSeen, NEW p \in 1..Last, NEW isForeign
  PROVE  Plain(Signature(p, isForeign), SkipFrom(p))
<1>. DEFINE q == SkipFrom(p)
            name == Name(q, isForeign)
            args == Then(name, ArgList)
<1>1. q \in 1..Last /\ q \in q..Last /\ q \in Nat
  BY Skip, Tokens
<1>. HIDE DEF q
<1>2. Reads(name, q) /\ Plain(name, q)
  <2>1. SkipFrom(q) \in q..Last
    BY <1>1, Skip
  <2>2. Reads(Ok(q), q) /\ Reads(Ok(SkipFrom(q)), q) /\ Reads(Fail("error"), q)
    BY <1>1, <2>1, Simplest DEF Failures
  <2>3. Plain(Ok(q), q) /\ Plain(Fail("error"), q) /\ (TypeAt(q) = "IDENTIFIER" => Plain(Ok(SkipFrom(q)), q))
    BY <1>1, QuietOne DEF Failures, Keywords
  <2>. QED BY <2>2, <2>3 DEF Name
<1>3. name \in Outcome /\ (name.how = "ok" => name.pos \in q..Last /\ name.pos \in 1..Last)
  BY <1>1, <1>2, Stops
<1>4. args = IF name.how = "ok" THEN ArgList(name.pos) ELSE name
  BY <1>3 DEF Then
<1>. HIDE DEF name, args
<1>5. Reads(args, q)
  <2>1. name.how = "ok" => Reads(ArgList(name.pos), name.pos)
    BY <1>3, ArgListReads
  <2>. QED BY <1>1, <1>2, <1>3, <1>4, <2>1, Wider
<1>6. Plain(args, q)
  <2>1. name.how = "ok" => Plain(ArgList(name.pos), name.pos)
    BY <1>3, ArgListPlain
  <2>. QED BY <1>1, <1>2, <1>4, <2>1, PlainOn
<1>7. args \in Outcome /\ (args.how = "ok" => args.pos \in q..Last /\ args.pos \in 1..Last)
  BY <1>1, <1>5, Stops
<1>8. Signature(p, isForeign) = Then(args, ReturnType)
  BY DEF Signature, args, name, q
<1>9. Signature(p, isForeign) = IF args.how = "ok" THEN ReturnType(args.pos) ELSE args
  BY <1>7, <1>8 DEF Then
<1>10. args.how = "ok" => Plain(ReturnType(args.pos), args.pos)
  BY <1>7, ReturnTypePlain
<1>11. Plain(Signature(p, isForeign), q)
  BY <1>1, <1>6, <1>9, <1>10, PlainOn
<1>. QED BY <1>11 DEF q

\* Something, and then a semicolon.
LEMMA SemiPlain ==
  ASSUME input \in Inputs, NEW p \in 1..Last, NEW o, Reads(o, p), Plain(o, p)
  PROVE  /\ Plain(Then(o, Semi), p)
         /\ Then(o, Semi).how = "ok" => TypeAt(Then(o, Semi).pos - 1) = "SEMI"
<1>0. p \in Nat /\ Last \in Nat
  BY Tokens
<1>1. o \in Outcome /\ (o.how = "ok" => o.pos \in 1..Last)
  BY Stops
<1>2. Then(o, Semi) = IF o.how = "ok" THEN Semi(o.pos) ELSE o
  BY <1>1 DEF Then
<1>3. o.how = "ok" => Plain(Semi(o.pos), o.pos)
  BY <1>1, ExpectPlain DEF Semi, Keywords
<1>4. Plain(Then(o, Semi), p)
  BY <1>0, <1>2, <1>3, PlainOn
<1>5. o.how = "ok" /\ Semi(o.pos).how = "ok" => TypeAt(o.pos) = "SEMI" /\ Semi(o.pos).pos = SkipFrom(o.pos)
  BY <1>1, ExpectReads DEF Semi
<1>6. o.how = "ok" /\ TypeAt(o.pos) = "SEMI" => SkipFrom(o.pos) = o.pos + 1
  BY <1>1, Skip
<1>7. o.how = "ok" => o.pos \in Nat /\ o.pos + 1 - 1 = o.pos
  BY <1>1, <1>0
<1>. QED BY <1>2, <1>4, <1>5, <1>6, <1>7

\* Foreign functions: the token after the first one is skipped unseen.
LEMMA ForeignPlain ==
  ASSUME input \in Inputs, KeywordsSeen, NEW p \in 1..Last,
         TypeAt(p) = "FOREIGN" \/ (TypeAt(p) = "METHOD" /\ Foreigner(p))
  PROVE  Plain(ForeignFunction(p), p + 1) /\ Plain(Then(ForeignFunction(p), Semi), p + 1)
         /\ (ForeignFunction(p).how = "ok" => TypeAt(ForeignFunction(p).pos - 1) = "SEMI")
         /\ (Then(ForeignFunction(p), Semi).how = "ok" => TypeAt(Then(ForeignFunction(p), Semi).pos - 1) = "SEMI")
<1>. DEFINE q == p + 1
            r == SkipFrom(q)
            sig == Signature(q, TRUE)
            f == Then(sig, Semi)
<1>1. q = SkipFrom(p) /\ q \in 1..Last /\ q \in Nat /\ q - 1 = p /\ q > 1 /\ p \in Nat /\ Last \in Nat
  BY Skip, Tokens
<1>2. TypeAt(q) \notin Keywords
  <2>1. Unseen(q)
    <3>. HIDE DEF q
    <3>. QED BY <1>1 DEF Unseen
  <2>. HIDE DEF q
  <2>. QED BY <1>1, <2>1 DEF KeywordsSeen
<1>3. ForeignFunction(p) = f
  BY <1>1 DEF ForeignFunction
<1>. HIDE DEF q
<1>4. r \in q..Last /\ r \in 1..Last /\ Plain(Ok(r), q) /\ Ok(r).how = "ok" /\ Ok(r).pos = r
  BY <1>1, <1>2, Skip, QuietOne DEF Ok
<1>5. Reads(sig, r) /\ Plain(sig, r)
  BY <1>1, SignatureReads, SignaturePlain
<1>. HIDE DEF sig, r
<1>6. Plain(sig, q)
  BY <1>1, <1>4, <1>5, PlainOn
<1>7. Reads(sig, q)
  BY <1>1, <1>4, <1>5, Wider
<1>8. Plain(f, q) /\ (f.how = "ok" => TypeAt(f.pos - 1) = "SEMI")
  BY <1>1, <1>6, <1>7, SemiPlain
<1>9. Reads(f, q)
  BY <1>1, <1>7, ThenSemi
<1>. HIDE DEF f
<1>10. Plain(Then(f, Semi), q) /\ (Then(f, Semi).how = "ok" => TypeAt(Then(f, Semi).pos - 1) = "SEMI")
  BY <1>1, <1>8, <1>9, SemiPlain
<1>. QED BY <1>3, <1>8, <1>10 DEF q

\* The condition of an if, and the header of a for.
LEMMA ConditionPlain ==
  ASSUME input \in Inputs, NEW p \in 1..Last, TypeAt(p) = "IF"
  PROVE  Plain(Condition(p), p + 1)
<1>1. SkipFrom(p) = p + 1 /\ p + 1 \in 1..Last
  BY Skip
<1>2. Plain(Expression(p + 1), p + 1) /\ Tries(Expression(p + 1), p + 1)
  BY <1>1, ExpressionPlain, ExpressionTries
<1>3. Expression(p + 1) \in Outcome
  BY <1>2 DEF Tries
<1>4. Plain(OrElse(Expression(p + 1), "error"), p + 1)
  BY <1>1, <1>2, <1>3, OrElsePlain DEF Failures
<1>. QED BY <1>1, <1>4 DEF Condition

\* The header of a for takes no keyword but its own.
LEMMA ForPlain ==
  ASSUME input \in Inputs, NEW p \in 1..Last, TypeAt(p) = "FOR"
  PROVE  LET start == ForUpdates(p) IN
         Plain(start, p + 1) /\ Plain(Then(start, Expression), p + 1)
<1>. DEFINE q == p + 1
            init == OrElse(Declaration(q), "crash")
            first == Then(init, Semi)
            second == Then(first, LAMBDA r : OrElse(Expression(r), "crash"))
            start == Then(second, Semi)
            updates == Then(start, Expression)
<1>1. q = SkipFrom(p) /\ q \in 1..Last /\ "crash" \in Failures /\ q \in Nat
  BY Skip, Tokens DEF Failures
<1>2. ForUpdates(p) = start
  BY <1>1 DEF ForUpdates
<1>. HIDE DEF q
<1>3. Reads(init, q)
  BY <1>1, DeclarationTries, OrElseReads
<1>4. Plain(init, q)
  <2>1. Tries(Declaration(q), q) /\ Plain(Declaration(q), q)
    BY <1>1, DeclarationTries, DeclarationPlain
  <2>. QED BY <1>1, <2>1, OrElsePlain DEF Tries
<1>. HIDE DEF init
<1>5. Reads(first, q) /\ Plain(first, q)
  BY <1>1, <1>3, <1>4, ThenSemi, SemiPlain
<1>. HIDE DEF first
<1>6. first \in Outcome /\ (first.how = "ok" => first.pos \in q..Last /\ first.pos \in 1..Last)
  BY <1>1, <1>5, Stops
<1>7. second = IF first.how = "ok" THEN OrElse(Expression(first.pos), "crash") ELSE first
  BY <1>6 DEF Then
<1>. HIDE DEF second
<1>8. first.how = "ok" => /\ Reads(OrElse(Expression(first.pos), "crash"), first.pos)
                          /\ Plain(OrElse(Expression(first.pos), "crash"), first.pos)
  <2>. SUFFICES ASSUME first.how = "ok"
                PROVE  /\ Reads(OrElse(Expression(first.pos), "crash"), first.pos)
                       /\ Plain(OrElse(Expression(first.pos), "crash"), first.pos)
    OBVIOUS
  <2>1. Tries(Expression(first.pos), first.pos) /\ Plain(Expression(first.pos), first.pos)
    BY <1>6, ExpressionTries, ExpressionPlain
  <2>2. Expression(first.pos) \in Outcome
    BY <2>1 DEF Tries
  <2>3. Plain(OrElse(Expression(first.pos), "crash"), first.pos)
    BY <1>1, <1>6, <2>1, <2>2, OrElsePlain
  <2>4. Reads(OrElse(Expression(first.pos), "crash"), first.pos)
    BY <1>1, <2>1, OrElseReads
  <2>. QED BY <2>3, <2>4
<1>9. Reads(second, q)
  BY <1>1, <1>5, <1>6, <1>7, <1>8, Wider
<1>10. Plain(second, q)
  BY <1>1, <1>5, <1>7, <1>8, PlainOn
<1>11. Reads(start, q) /\ Plain(start, q)
  BY <1>1, <1>9, <1>10, ThenSemi, SemiPlain
<1>. HIDE DEF start
<1>12. start \in Outcome /\ (start.how = "ok" => start.pos \in q..Last /\ start.pos \in 1..Last)
  BY <1>1, <1>11, Stops
<1>13. updates = IF start.how = "ok" THEN Expression(start.pos) ELSE start
  BY <1>12 DEF Then
<1>. HIDE DEF updates
<1>14. start.how = "ok" => Plain(Expression(start.pos), start.pos)
  BY <1>12, ExpressionPlain
<1>15. Plain(updates, q)
  BY <1>1, <1>11, <1>13, <1>14, PlainOn
<1>. QED BY <1>2, <1>11, <1>15 DEF q, updates

\* A type's 'do' is the only keyword of its header.
LEMMA AncestorsPlain ==
  ASSUME input \in Inputs, NEW p \in 1..Last
  PROVE  Plain(Ancestors(p), p) /\ (Ancestors(p).how = "ok" => \A i \in p..(Ancestors(p).pos - 1) :
                                      TypeAt(i) \in {"IDENTIFIER", "OPERATOR", "INHERITS", "FROM"})
<1>. DEFINE from == SkipFrom(p)
            list == IF TypeAt(from) = "FROM" THEN SkipFrom(from) ELSE from
<1>0. p \in Nat /\ Last \in Nat
  BY Tokens
<1>1. from \in p..Last /\ from \in 1..Last /\ (TypeAt(p) = "INHERITS" => from = p + 1)
  BY <1>0, Skip
<1>2. list \in from..Last /\ (TypeAt(from) = "FROM" => list = from + 1) /\ (TypeAt(from) # "FROM" => list = from)
  <2>. HIDE DEF from
  <2>1. SkipFrom(from) \in from..Last /\ (TypeAt(from) = "FROM" => SkipFrom(from) = from + 1)
    BY <1>1, Skip
  <2>. QED BY <1>0, <1>1, <2>1
<1>3. Ancestors(p) = IF TypeAt(p) # "INHERITS" THEN Ok(p) ELSE TypeList(list)
  BY DEF Ancestors, from
<1>. HIDE DEF list, from
<1>4. CASE TypeAt(p) # "INHERITS"
  <2>1. Ancestors(p) = Ok(p) /\ Ok(p).pos = p /\ Plain(Ok(p), p)
    BY <1>3, <1>4, QuietOne DEF Ok
  <2>. QED BY <1>0, <2>1
<1>5. CASE TypeAt(p) = "INHERITS"
  <2>1. list \in 1..Last /\ Ancestors(p) = TypeList(list) /\ list \in p..Last /\ list \in Nat
    BY <1>0, <1>1, <1>2, <1>3, <1>5
  <2>2. Plain(TypeList(list), list) /\ (TypeList(list).how = "ok" => TypeList(list).pos = TypeListEnd(list))
        /\ \A i \in list..(TypeListEnd(list) - 1) : TypeAt(i) \in {"IDENTIFIER", "OPERATOR"}
    BY <2>1, TypeListPlain, TypeListReads
  <2>3. \A i \in p..(list - 1) : TypeAt(i) \in {"INHERITS", "FROM"}
    <3>1. \A i \in p..(list - 1) : i = p \/ (i = from /\ TypeAt(from) = "FROM")
      BY <1>0, <1>1, <1>2, <1>5
    <3>. QED BY <1>5, <3>1
  <2>4. Quiet(p, list)
    BY <2>3 DEF Quiet, Keywords
  <2>5. Plain(Ok(list), p) /\ Ok(list).how = "ok" /\ Ok(list).pos = list
    BY <2>1, <2>4 DEF Plain, Ok
  <2>6. Plain(TypeList(list), p)
    BY <1>0, <2>2, <2>5, PlainOn
  <2>7. TypeList(list).how = "ok" => \A i \in p..(TypeList(list).pos - 1) :
                                      TypeAt(i) \in {"IDENTIFIER", "OPERATOR", "INHERITS", "FROM"}
    <3>. SUFFICES ASSUME TypeList(list).how = "ok", NEW i \in p..(TypeListEnd(list) - 1)
                  PROVE  TypeAt(i) \in {"IDENTIFIER", "OPERATOR", "INHERITS", "FROM"}
      BY <2>2
    <3>1. i \in p..(list - 1) \/ i \in list..(TypeListEnd(list) - 1)
      BY <1>0, <2>1
    <3>. QED BY <2>2, <2>3, <3>1
  <2>. QED BY <2>1, <2>6, <2>7
<1>. QED BY <1>4, <1>5

\* Between a type and the do of its body there is no keyword.
LEMMA TypeHeadPlain ==
  ASSUME input \in Inputs, NEW p \in 1..Last, TypeAt(p) = "TYPE", TypeHead(p).how = "ok"
  PROVE  LET q == TypeHead(p).pos - 1 IN
         q \in (p + 1)..Last /\ TypeAt(q) = "DO" /\ TypeBody(q) /\ Quiet(p + 1, q)
<1>. DEFINE q == p + 1
            name == Expect(q, "IDENTIFIER")
            head == Then(name, Ancestors)
            body == Then(head, LAMBDA r : Expect(r, "DO"))
<1>0. p \in Nat /\ Last \in Nat
  BY Tokens
<1>1. q = SkipFrom(p) /\ q \in 1..Last /\ q \in Nat
  BY Skip, <1>0
<1>2. TypeHead(p) = body
  BY <1>1 DEF TypeHead
<1>3. Reads(name, q) /\ Plain(name, q) /\ (name.how = "ok" => TypeAt(q) = "IDENTIFIER" /\ name.pos = SkipFrom(q))
  <2>. HIDE DEF q
  <2>. QED BY <1>1, ExpectReads, ExpectPlain DEF Keywords
<1>. HIDE DEF name
<1>4. name \in Outcome /\ (name.how = "ok" => name.pos \in q..Last /\ name.pos \in 1..Last)
  <2>. HIDE DEF q
  <2>. QED BY <1>1, <1>3, Stops
<1>5. head = IF name.how = "ok" THEN Ancestors(name.pos) ELSE name
  BY <1>4 DEF Then
<1>. HIDE DEF head
<1>6. Reads(head, q)
  <2>1. name.how = "ok" => Reads(Ancestors(name.pos), name.pos)
    BY <1>4, AncestorsReads
  <2>. HIDE DEF q
  <2>. QED BY <1>1, <1>3, <1>4, <1>5, <2>1, Wider
<1>7. head \in Outcome /\ (head.how = "ok" => head.pos \in q..Last /\ head.pos \in 1..Last)
  <2>. HIDE DEF q
  <2>. QED BY <1>1, <1>6, Stops
<1>8. body = IF head.how = "ok" THEN Expect(head.pos, "DO") ELSE head
  BY <1>7 DEF Then
<1>. HIDE DEF body
<1>9. head.how = "ok" /\ Expect(head.pos, "DO").how = "ok"
  <2>1. body.how = "ok"
    BY <1>2
  <2>. QED BY <1>8, <2>1
<1>10. TypeAt(head.pos) = "DO" /\ body.pos = SkipFrom(head.pos) /\ SkipFrom(head.pos) = head.pos + 1
  BY <1>7, <1>8, <1>9, ExpectReads, Skip
<1>11. name.how = "ok" /\ head = Ancestors(name.pos)
  <2>1. name.how # "ok" => head.how # "ok"
    BY <1>5
  <2>. QED BY <1>5, <1>9, <2>1
<1>12. name.pos = q + 1
  <2>1. TypeAt(q) = "IDENTIFIER" /\ name.pos = SkipFrom(q)
    BY <1>3, <1>11
  <2>. HIDE DEF q
  <2>. QED BY <1>1, <2>1, Skip
<1>13. \A i \in name.pos..(head.pos - 1) : TypeAt(i) \in {"IDENTIFIER", "OPERATOR", "INHERITS", "FROM"}
  BY <1>4, <1>9, <1>11, AncestorsPlain
<1>14. head.pos \in Nat /\ head.pos >= q /\ head.pos \in 1..Last
  BY <1>0, <1>7, <1>9
<1>15. \A i \in (p + 1)..(head.pos - 1) : TypeAt(i) \in {"IDENTIFIER", "OPERATOR", "INHERITS", "FROM"}
  <2>. SUFFICES ASSUME NEW i \in (p + 1)..(head.pos - 1) PROVE TypeAt(i) \in {"IDENTIFIER", "OPERATOR", "INHERITS", "FROM"}
    OBVIOUS
  <2>1. i = q \/ i \in name.pos..(head.pos - 1)
    BY <1>0, <1>12, <1>14
  <2>. QED BY <1>3, <1>11, <1>13, <2>1
<1>16. TypeBody(head.pos)
  <2>1. p \in 1..(head.pos - 1)
    BY <1>0, <1>14
  <2>. QED BY <1>15, <2>1 DEF TypeBody, Follows
<1>17. Quiet(p + 1, head.pos)
  BY <1>15 DEF Quiet, Keywords
<1>18. TypeHead(p).pos - 1 = head.pos
  BY <1>2, <1>10, <1>14
<1>. QED BY <1>10, <1>14, <1>16, <1>17, <1>18

(***************************************************************************)
(* The shapes of the steps                                                 *)
(***************************************************************************)

\* A 'do' at p would begin neither the first block of an if nor the body of a type.
Fresh(p) == ~IfBody(p) /\ ~TypeBody(p)

\* The parser fails, an updating loop with its block in hand.
Failing ==
  /\ mode' \in Failures /\ UNCHANGED <<input, ends>>
  /\ UNCHANGED kids \/ (mode = "return" /\ Add(Top.node, val))

\* A statement or member without a block is read and returned.
Reading ==
  /\ mode \in {"block", "body"} /\ mode' = "return" /\ UNCHANGED <<input, kids, ends, stack>>
  /\ val' \in pos..Last /\ pos' \in (val' + 1)..Last
  /\ KeywordsSeen => /\ Quiet(pos, val') /\ Quiet(val' + 1, pos')
                     /\ TypeAt(val') \notin {"DO", "END"} /\ Fresh(pos')

\* The stack but for the if that goes on after its 'else'.
Like(base) ==
  /\ Len(base) = Len(stack)
  /\ \A i \in 1..Len(stack) :
       /\ base[i].node = stack[i].node
       /\ base[i] = stack[i] \/ (i = Len(stack) /\ base[i].kind = "else" /\ base[i].type = "")

\* f waits for its block b, the first one of an if when f is an if.
Heads(f, b) ==
  /\ f.kind \in {"if", "loop", "function"} /\ f.type # "IF_BLOCK"
  /\ f.node \in pos..(b.node - 1)
  /\ b.type = "IF_BLOCK" => f.kind = "if"
  /\ f.kind = "if" => IfBody(b.node)
  /\ KeywordsSeen => /\ Quiet(pos, f.node) /\ Quiet(f.node + 1, b.node)
                     /\ TypeAt(f.node) \notin {"DO", "END"}
                     /\ f.kind # "if" => Fresh(b.node)

\* A block begins, of its own or behind a header.
Opening ==
  /\ mode \in {"block", "body", "else"} /\ mode' = "block" /\ UNCHANGED <<input, kids, ends, val>>
  /\ pos' \in (pos + 1)..Last /\ TypeAt(pos' - 1) = "DO"
  /\ \E base, b :
       /\ base \in Seq(FrameSet) /\ Like(base)
       /\ b \in FrameSet /\ b.kind = "block" /\ b.node = pos' - 1
       /\ \/ /\ stack' = Append(base, b) /\ pos' = pos + 1
             /\ base[Len(base)].kind # "if" /\ b.type # "IF_BLOCK"
          \/ \E f \in FrameSet : stack' = Append(Append(base, f), b) /\ Heads(f, b)

\* The body of a type begins.
Entering ==
  /\ mode = "block" /\ mode' = "body" /\ UNCHANGED <<input, kids, ends, val>>
  /\ pos' \in (pos + 2)..Last /\ TypeAt(pos' - 1) = "DO" /\ TypeBody(pos' - 1)
  /\ TypeAt(pos) = "TYPE" /\ Quiet(pos + 1, pos' - 1)
  /\ \E f \in FrameSet : f.kind = "type" /\ f.type = "" /\ f.node = pos /\ stack' = Append(stack, f)

\* What was returned is handed over, and more is awaited.
Staying ==
  /\ mode = "return" /\ Add(Top.node, val) /\ UNCHANGED <<input, pos, ends, stack, val>>
  /\ \/ Top.kind \in {"block", "type"} /\ mode' \in {"block", "body"}
     \/ Top.kind = "if" /\ TypeAt(pos - 1) = "ELSE" /\ mode' = "else"

\* It is handed over, and all is there.
Leaving ==
  /\ mode = "return" /\ Add(Top.node, val) /\ UNCHANGED <<input, ends>>
  /\ stack' = Rest /\ val' = Top.node /\ mode' = "return"
  /\ Top.kind \notin {"block", "type"}
  /\ pos' = IF Top.kind = "if" THEN pos - 1 ELSE pos
  /\ Top.kind = "if" => TypeAt(pos - 1) = "END"

\* A block or the body of a type ends.
Closing ==
  /\ mode \in {"block", "body"} /\ UNCHANGED <<input, kids>>
  /\ ends' = [ends EXCEPT ![Top.node] = pos] /\ stack' = Rest /\ val' = Top.node
  /\ \/ /\ mode = "block" /\ AtBlockEnd /\ pos' = SkipFrom(pos)
        /\ mode' = IF Top.node = 0 THEN "done" ELSE "return"
     \/ mode = "body" /\ TypeAt(pos) = "END" /\ pos' = pos /\ mode' = "return"

Shaped == Failing \/ Reading \/ Opening \/ Entering \/ Staying \/ Leaving \/ Closing

\* Behind a token that ends something a new 'do' is one of its own.
LEMMA FreshAfter ==
  ASSUME input \in Inputs, NEW p \in 1..Last,
         p = 1 \/ TypeAt(p - 1) \in {"SEMI", "BREAK", "END", "ELSE", "DO"}
  PROVE  Fresh(p)
<1>1. p \in Nat
  BY Tokens
<1>2. \A k, h : k \in {"IF", "TYPE"} /\ h \cap {"SEMI", "BREAK", "END", "ELSE", "DO"} = {} => ~Follows(p, k, h)
  <2>. SUFFICES ASSUME NEW k \in {"IF", "TYPE"}, NEW h, h \cap {"SEMI", "BREAK", "END", "ELSE", "DO"} = {},
                       NEW q \in 1..(p - 1), TypeAt(q) = k, \A i \in (q + 1)..(p - 1) : TypeAt(i) \in h
                PROVE  FALSE
    BY DEF Follows
  <2>1. p # 1
    BY <1>1
  <2>2. q = p - 1 \/ p - 1 \in (q + 1)..(p - 1)
    BY <1>1
  <2>. QED BY <2>1, <2>2
<1>3. TerminalTypes \cap {"SEMI", "BREAK", "END", "ELSE", "DO"} = {}
  BY DEF TerminalTypes
<1>4. ~IfBody(p)
  BY <1>2, <1>3 DEF IfBody
<1>5. ~TypeBody(p)
  BY <1>2 DEF TypeBody
<1>. QED BY <1>4, <1>5 DEF Fresh

\* So is one behind the header of a loop or a function.
LEMMA FreshHead ==
  ASSUME input \in Inputs, NEW n \in 1..Last, NEW q \in (n + 1)..Last, TypeAt(n) \in Headed, Quiet(n + 1, q)
  PROVE  Fresh(q)
<1>1. n \in Nat /\ Last \in Nat
  BY Tokens
<1>2. \A k, h : k \in {"IF", "TYPE"} /\ h \cap Headed = {} => ~Follows(q, k, h)
  <2>. SUFFICES ASSUME NEW k \in {"IF", "TYPE"}, NEW h, h \cap Headed = {},
                       NEW r \in 1..(q - 1), TypeAt(r) = k, \A i \in (r + 1)..(q - 1) : TypeAt(i) \in h
                PROVE  FALSE
    BY DEF Follows
  <2>1. r \notin (n + 1)..(q - 1)
    BY DEF Quiet, Keywords
  <2>2. r # n
    BY DEF Headed
  <2>3. n \in (r + 1)..(q - 1)
    BY <1>1, <2>1, <2>2
  <2>. QED BY <2>3
<1>3. TerminalTypes \cap Headed = {}
  BY DEF TerminalTypes, Headed
<1>4. ~IfBody(q)
  <2>1. (TerminalTypes \cup {"OPERATOR"}) \cap Headed = {}
    BY <1>3 DEF Headed
  <2>. QED BY <1>2, <2>1 DEF IfBody
<1>5. ~TypeBody(q)
  <2>1. {"IDENTIFIER", "OPERATOR", "INHERITS", "FROM"} \cap Headed = {}
    BY DEF Headed
  <2>. QED BY <1>2, <2>1 DEF TypeBody
<1>. QED BY <1>4, <1>5 DEF Fresh

\* A failure is one, whatever it is called for.
LEMMA FailShape ==
  ASSUME NEW how \in Failures, Ended(how)
  PROVE  Failing
BY DEF Ended, Failing

\* What Read says.
LEMMA ReadShape ==
  ASSUME IInv, mode \in {"block", "body"}, NEW n \in pos..Last,
         NEW o, Reads(o, n), o.how = "ok" => Leaf(n) /\ o.pos # n,
         KeywordsSeen /\ o.how = "ok" =>
           Quiet(pos, n) /\ Quiet(n + 1, o.pos) /\ TypeAt(o.pos - 1) \in {"SEMI", "BREAK"},
         Read(n, o)
  PROVE  Shaped
<1>1. input \in Inputs /\ n \in 1..Last /\ Last \in Nat /\ n \in Nat
  BY Starts
<1>2. CASE o.how # "ok"
  <2>1. Ended(o.how) /\ o.how \in Failures
    BY <1>2 DEF Read, Reads
  <2>. QED BY <2>1, FailShape DEF Shaped
<1>3. CASE o.how = "ok"
  <2>1. /\ pos' = o.pos /\ val' = n /\ mode' = "return"
        /\ UNCHANGED <<input, kids, ends, stack>>
    BY <1>3 DEF Read, Return
  <2>2. o.pos \in (n + 1)..Last
    <3>1. o.pos \in n..Last /\ o.pos # n
      BY <1>3 DEF Reads
    <3>. QED BY <1>1, <3>1
  <2>3. o.pos \in 1..Last
    BY <1>1, <2>2
  <2>4. TypeAt(n) \notin {"DO", "END"}
    BY <1>3 DEF Leaf
  <2>5. KeywordsSeen => Fresh(o.pos)
    BY <1>1, <1>3, <2>3, FreshAfter
  <2>6. Reading
    BY <1>3, <2>1, <2>2, <2>4, <2>5 DEF Reading
  <2>. QED BY <2>6 DEF Shaped
<1>. QED BY <1>2, <1>3

\* What it says when a semicolon comes last.
LEMMA SemiShape ==
  ASSUME IInv, mode \in {"block", "body"}, NEW n \in pos..Last,
         NEW o, Reads(o, n), o.how = "ok" => Leaf(n),
         KeywordsSeen /\ o.how = "ok" => Quiet(pos, n) /\ Quiet(n + 1, o.pos),
         Read(n, Then(o, Semi))
  PROVE  Shaped
<1>. DEFINE t == Then(o, Semi)
<1>1. input \in Inputs /\ n \in 1..Last /\ Last \in Nat /\ n \in Nat
  BY Starts
<1>2. /\ Reads(t, n)
      /\ t.how = "ok" => o.how = "ok" /\ t.pos \in (n + 1)..Last
  BY <1>1, ThenSemi
<1>3. o \in Outcome /\ (o.how = "ok" => o.pos \in n..Last /\ o.pos \in 1..Last)
  BY <1>1, Stops
<1>4. t = IF o.how = "ok" THEN Semi(o.pos) ELSE o
  BY <1>3 DEF Then
<1>. HIDE DEF t
<1>5. t.how = "ok" => t.pos = o.pos + 1 /\ TypeAt(o.pos) = "SEMI"
  <2>. SUFFICES ASSUME t.how = "ok" PROVE t.pos = o.pos + 1 /\ TypeAt(o.pos) = "SEMI"
    OBVIOUS
  <2>1. o.how = "ok" /\ t = Semi(o.pos)
    BY <1>2, <1>4
  <2>2. TypeAt(o.pos) = "SEMI" /\ t.pos = SkipFrom(o.pos)
    BY <1>1, <1>3, <2>1, ExpectReads DEF Semi
  <2>3. SkipFrom(o.pos) = o.pos + 1
    BY <1>1, <1>3, <2>1, <2>2, Skip
  <2>. QED BY <2>2, <2>3
<1>6. ASSUME KeywordsSeen, t.how = "ok"
      PROVE  Quiet(pos, n) /\ Quiet(n + 1, t.pos) /\ TypeAt(t.pos - 1) \in {"SEMI", "BREAK"}
  <2>1. o.how = "ok" /\ o.pos \in n..Last
    BY <1>2, <1>3, <1>6
  <2>2. \A i \in (n + 1)..(t.pos - 1) : i \in (n + 1)..(o.pos - 1) \/ i = o.pos
    BY <1>1, <1>5, <1>6, <2>1
  <2>3. Quiet(n + 1, o.pos) /\ Quiet(pos, n)
    BY <1>6, <2>1
  <2>4. Quiet(n + 1, t.pos)
    <3>1. "SEMI" \notin Keywords
      BY DEF Keywords
    <3>. QED BY <1>5, <1>6, <2>2, <2>3, <3>1 DEF Quiet
  <2>5. t.pos - 1 = o.pos
    BY <1>1, <1>5, <1>6, <2>1
  <2>. QED BY <1>5, <1>6, <2>3, <2>4, <2>5
<1>7. Read(n, t)
  BY DEF t
<1>8. t.how = "ok" => Leaf(n) /\ t.pos # n
  BY <1>1, <1>2
<1>. QED BY <1>2, <1>6, <1>7, <1>8, ReadShape

\* What Open says, of a block of its own and of one behind a header.
LEMMA OpenShape ==
  ASSUME IInv, mode \in {"block", "body", "else"},
         NEW base \in Seq(FrameSet), Like(base), NEW f \in FrameSet, f.node \in pos..Last,
         f.kind \in {"if", "loop", "function"}, f.type # "IF_BLOCK",
         NEW o, Reads(o, f.node + 1), NEW type \in {"CODE_BLOCK", "FUNCTION_BLOCK", "IF_BLOCK"},
         type = "IF_BLOCK" => f.kind = "if",
         f.kind = "if" /\ o.how = "ok" => IfBody(o.pos),
         TypeAt(f.node) \in Headed \cup {"IF"}, f.kind # "if" => TypeAt(f.node) \in Headed,
         KeywordsSeen => Quiet(pos, f.node) /\ Plain(o, f.node + 1),
         Open(Append(base, f), o, type)
  PROVE  Shaped
<1>1. /\ input \in Inputs /\ Last \in Nat \ {0} /\ pos \in 1..Last /\ Node = 0..Last
  BY TopFacts DEF Running
<1>2. CASE ~(o.how = "ok" /\ TypeAt(o.pos) = "DO")
  <2>1. Ended(IF o.how = "ok" THEN "error" ELSE o.how)
    BY <1>2 DEF Open
  <2>2. (IF o.how = "ok" THEN "error" ELSE o.how) \in Failures
    BY DEF Reads, Failures
  <2>. QED BY <2>1, <2>2, FailShape DEF Shaped
<1>3. CASE o.how = "ok" /\ TypeAt(o.pos) = "DO"
  <2>. DEFINE d == o.pos
              b == Block(d, type)
  <2>1. /\ stack' = Append(Append(base, f), b) /\ pos' = SkipFrom(d) /\ mode' = "block"
        /\ UNCHANGED <<input, kids, ends, val>>
    BY <1>3 DEF Open
  <2>2. d \in (f.node + 1)..Last
    BY <1>3 DEF Reads
  <2>. HIDE DEF d
  <2>3. d \in Node /\ d \in 1..Last /\ f.node \in pos..(d - 1) /\ f.node \in 1..Last
    BY <1>1, <2>2
  <2>4. pos' = d + 1 /\ d + 1 \in 1..Last
    BY <1>1, <1>3, <2>1, <2>3, Skip DEF d
  <2>5. b \in FrameSet /\ b.kind = "block" /\ b.node = d /\ b.type = type
    BY <1>1, <2>3, Frames
  <2>. HIDE DEF b
  <2>6. pos' \in (pos + 1)..Last /\ pos' - 1 = d /\ TypeAt(d) = "DO"
    BY <1>1, <1>3, <2>3, <2>4 DEF d
  <2>7. KeywordsSeen => Quiet(f.node + 1, d)
    BY <1>3 DEF Plain, d
  <2>8. TypeAt(f.node) \notin {"DO", "END"}
    BY DEF Headed
  <2>9. KeywordsSeen /\ f.kind # "if" => Fresh(d)
    BY <1>1, <2>2, <2>3, <2>7, FreshHead
  <2>10. f.kind = "if" => IfBody(d)
    BY <1>3 DEF d
  <2>11. Heads(f, b)
    BY <2>3, <2>5, <2>7, <2>8, <2>9, <2>10 DEF Heads
  <2>12. Opening
    BY <2>1, <2>5, <2>6, <2>11 DEF Opening
  <2>. QED BY <2>12 DEF Shaped
<1>. QED BY <1>2, <1>3

\* A do of its own, or one right after an else, goes straight on to its block.
LEMMA DirectShape ==
  ASSUME IInv, mode \in {"block", "else"}, NEW base \in Seq(FrameSet), Like(base),
         base[Len(base)].kind # "if", TypeAt(pos) = "DO", Open(base, Ok(pos), "CODE_BLOCK")
  PROVE  Shaped
<1>1. /\ input \in Inputs /\ Last \in Nat \ {0} /\ pos \in 1..Last /\ Node = 0..Last /\ pos \in Node
  BY TopFacts DEF Running
<1>. DEFINE b == Block(pos, "CODE_BLOCK")
<1>2. Ok(pos).how = "ok" /\ Ok(pos).pos = pos
  BY DEF Ok
<1>3. /\ stack' = Append(base, b) /\ pos' = SkipFrom(pos) /\ mode' = "block"
      /\ UNCHANGED <<input, kids, ends, val>>
  BY <1>2 DEF Open
<1>4. b \in FrameSet /\ b.kind = "block" /\ b.node = pos /\ b.type = "CODE_BLOCK"
  BY <1>1, Frames
<1>. HIDE DEF b
<1>5. pos' = pos + 1 /\ pos + 1 \in 1..Last
  BY <1>1, <1>3, Skip
<1>6. pos' \in (pos + 1)..Last /\ pos' - 1 = pos
  BY <1>1, <1>5
<1>7. Opening
  BY <1>3, <1>4, <1>5, <1>6 DEF Opening
<1>. QED BY <1>7 DEF Shaped

\* The stack goes on as it is, or with the if after its 'else'.
LEMMA LikeStack ==
  ASSUME IInv, Running
  PROVE  /\ stack \in Seq(FrameSet) /\ Like(stack)
         /\ LET base == Append(Rest, Frame("else", Top.node)) IN
            Top.kind = "if" => base \in Seq(FrameSet) /\ Like(base) /\ base[Len(base)].kind = "else"
<1>1. /\ input \in Inputs /\ stack \in Seq(FrameSet) /\ Len(stack) \in Nat \ {0}
      /\ Top = stack[Len(stack)] /\ Top.node \in Node
      /\ Rest \in Seq(FrameSet) /\ Len(Rest) = Len(stack) - 1
      /\ \A i \in 1..(Len(stack) - 1) : Rest[i] = stack[i]
  BY TopFacts
<1>2. Like(stack)
  BY DEF Like
<1>. DEFINE f == Frame("else", Top.node)
            base == Append(Rest, f)
<1>3. f \in FrameSet /\ f.kind = "else" /\ f.node = Top.node
  BY <1>1, Frames
<1>4. f.type = ""
  BY DEF Frame
<1>. HIDE DEF f
<1>5. base \in Seq(FrameSet) /\ Len(base) = Len(stack) /\ base[Len(stack)] = f
      /\ \A i \in 1..(Len(stack) - 1) : base[i] = Rest[i]
  <2>1. base \in Seq(FrameSet) /\ Len(base) = Len(Rest) + 1 /\ base[Len(Rest) + 1] = f
        /\ \A i \in 1..Len(Rest) : base[i] = Rest[i]
    BY <1>1, <1>3
  <2>2. Len(Rest) + 1 = Len(stack)
    BY <1>1
  <2>. HIDE DEF base
  <2>. QED BY <1>1, <2>1, <2>2
<1>. HIDE DEF base
<1>6. Like(base)
  <2>. SUFFICES ASSUME NEW i \in 1..Len(stack)
                PROVE  /\ base[i].node = stack[i].node
                       /\ base[i] = stack[i] \/ (i = Len(stack) /\ base[i].kind = "else" /\ base[i].type = "")
    BY <1>5 DEF Like
  <2>1. i = Len(stack) \/ i \in 1..(Len(stack) - 1)
    BY <1>1
  <2>. QED BY <1>1, <1>3, <1>4, <1>5, <2>1
<1>. QED BY <1>1, <1>2, <1>3, <1>5, <1>6 DEF base, f

\* The step of an if has the shape of an opening step.
LEMMA IfShape ==
  ASSUME IInv, If
  PROVE  Shaped
<1>. DEFINE f == Frame("if", pos)
            o == Condition(pos)
<1>1. mode = "block" /\ TypeAt(pos) = "IF" /\ Open(Append(stack, f), o, "IF_BLOCK")
  BY DEF If, AtStatement, Call
<1>2. /\ input \in Inputs /\ pos \in 1..Last /\ pos \in pos..Last /\ pos \in Node /\ Running
  BY <1>1, Starts DEF Node
<1>3. f \in FrameSet /\ f.kind = "if" /\ f.node = pos
  BY <1>2, Frames
<1>4. f.type # "IF_BLOCK"
  BY DEF Frame
<1>. HIDE DEF f
<1>5. Reads(o, pos + 1) /\ (o.how = "ok" => IfBody(o.pos)) /\ Plain(o, pos + 1)
  BY <1>1, <1>2, ConditionReads, ConditionPlain
<1>. HIDE DEF o
<1>6. stack \in Seq(FrameSet) /\ Like(stack)
  BY <1>2, LikeStack
<1>7. Quiet(pos, pos)
  BY <1>2, QuietOne
<1>. QED BY <1>1, <1>2, <1>3, <1>4, <1>5, <1>6, <1>7, OpenShape

\* A loop, a function, a method or a constructor.
LEMMA HeadShape ==
  ASSUME IInv, mode \in {"block", "body"}, NEW q \in pos..Last, TypeAt(q) \in Headed,
         NEW f \in FrameSet, f.node = q, f.kind \in {"loop", "function"}, f.type # "IF_BLOCK",
         NEW o, Reads(o, q + 1), NEW type \in {"CODE_BLOCK", "FUNCTION_BLOCK"},
         KeywordsSeen => Quiet(pos, q) /\ Plain(o, q + 1),
         Open(Call(f), o, type)
  PROVE  Shaped
<1>1. Open(Append(stack, f), o, type)
  BY DEF Call
<1>2. stack \in Seq(FrameSet) /\ Like(stack)
  BY LikeStack DEF Running
<1>. QED BY <1>1, <1>2, OpenShape

\* The step of a for has the shape of an opening step, or fails.
LEMMA ForShape ==
  ASSUME IInv, For
  PROVE  Shaped
<1>. DEFINE start == ForUpdates(pos)
            updates == Then(start, Expression)
<1>1. mode = "block" /\ TypeAt(pos) = "FOR"
  BY DEF For, AtStatement
<1>2. IF updates.how = "null" THEN Open(Call(Loop(pos, 0)), start, "CODE_BLOCK")
      ELSE Open(Call(Loop(pos, start.pos)), updates, "CODE_BLOCK")
  BY DEF For
<1>3. /\ input \in Inputs /\ pos \in 1..Last /\ pos \in pos..Last /\ pos \in Node
      /\ Last \in Nat /\ Node = 0..Last /\ 0 \in Node
  BY <1>1, Starts DEF Node
<1>4. /\ Reads(start, pos + 1) /\ Tries(updates, pos + 1)
      /\ updates.how \in {"ok", "null"} => start.how = "ok"
      /\ Plain(start, pos + 1) /\ Plain(updates, pos + 1)
  BY <1>1, <1>3, ForReads, ForPlain
<1>. HIDE DEF start, updates
<1>5. TypeAt(pos) \in Headed /\ Quiet(pos, pos)
  BY <1>1, <1>3, QuietOne DEF Headed
<1>6. \A u \in Node : Loop(pos, u) \in FrameSet /\ Loop(pos, u).kind = "loop" /\ Loop(pos, u).node = pos
  BY <1>3, Frames
<1>7. \A u \in Node : Loop(pos, u).type # "IF_BLOCK"
  BY DEF Loop, Frame
<1>8. CASE updates.how = "null"
  BY <1>1, <1>2, <1>3, <1>4, <1>5, <1>6, <1>7, <1>8, HeadShape
<1>9. CASE updates.how = "ok"
  <2>1. start.pos \in Node
    <3>1. start.pos \in (pos + 1)..Last
      BY <1>4, <1>9 DEF Reads
    <3>. QED BY <1>3, <3>1
  <2>2. Reads(updates, pos + 1)
    BY <1>4, <1>9 DEF Tries, Reads
  <2>. QED BY <1>1, <1>2, <1>3, <1>4, <1>5, <1>6, <1>7, <1>9, <2>1, <2>2, HeadShape
<1>10. CASE updates.how \notin {"ok", "null"}
  <2>1. Ended(updates.how)
    BY <1>2, <1>10 DEF Open
  <2>2. updates.how \in Failures
    BY <1>4, <1>10 DEF Tries
  <2>. QED BY <2>1, <2>2, FailShape DEF Shaped
<1>. QED BY <1>8, <1>9, <1>10

\* The step of a while has the shape of an opening step, or fails.
LEMMA WhileShape ==
  ASSUME IInv, While
  PROVE  Shaped
<1>. DEFINE f == Loop(pos, 0)
            o == SomeExpression(SkipFrom(pos))
<1>1. mode = "block" /\ TypeAt(pos) = "WHILE" /\ Open(Call(f), o, "CODE_BLOCK")
  BY DEF While, AtStatement
<1>2. /\ input \in Inputs /\ pos \in 1..Last /\ pos \in pos..Last /\ pos \in Node
      /\ Last \in Nat /\ 0 \in Node
  BY <1>1, Starts DEF Node
<1>3. f \in FrameSet /\ f.kind = "loop" /\ f.node = pos
  BY <1>2, Frames
<1>4. f.type # "IF_BLOCK"
  BY DEF Loop, Frame
<1>5. SkipFrom(pos) = pos + 1 /\ pos + 1 \in 1..Last
  BY <1>1, <1>2, Skip
<1>6. Reads(o, pos + 1) /\ Plain(o, pos + 1)
  BY <1>2, <1>5, ExpressionTries, ExpressionPlain
<1>7. TypeAt(pos) \in Headed /\ Quiet(pos, pos)
  BY <1>1, <1>2, QuietOne DEF Headed
<1>. HIDE DEF f, o
<1>. QED BY <1>1, <1>2, <1>3, <1>4, <1>6, <1>7, HeadShape

\* The step of a function with a body has the shape of an opening step, or fails.
LEMMA FunctionShape ==
  ASSUME IInv, Function
  PROVE  Shaped
<1>. DEFINE f == Frame("function", pos)
            o == Signature(pos, FALSE)
<1>1. mode = "block" /\ TypeAt(pos) = "FUNCTION" /\ Open(Call(f), o, "FUNCTION_BLOCK")
  BY DEF Function, AtStatement
<1>2. input \in Inputs /\ pos \in 1..Last /\ pos \in pos..Last /\ pos \in Node
  BY <1>1, Starts
<1>3. f \in FrameSet /\ f.kind = "function" /\ f.node = pos
  BY <1>2, Frames
<1>4. f.type # "IF_BLOCK"
  BY DEF Frame
<1>5. SkipFrom(pos) = pos + 1
  BY <1>1, <1>2, Skip
<1>6. Reads(o, pos + 1) /\ (KeywordsSeen => Plain(o, pos + 1))
  BY <1>2, <1>5, SignatureReads, SignaturePlain
<1>7. TypeAt(pos) \in Headed /\ Quiet(pos, pos)
  BY <1>1, <1>2, QuietOne DEF Headed
<1>. HIDE DEF f, o
<1>. QED BY <1>1, <1>2, <1>3, <1>4, <1>6, <1>7, HeadShape

\* The step of a do has the shape of an opening step.
LEMMA DoShape ==
  ASSUME IInv, Do
  PROVE  Shaped
<1>1. mode = "block" /\ TypeAt(pos) = "DO" /\ Open(stack, Ok(pos), "CODE_BLOCK")
  BY DEF Do, AtStatement
<1>2. Running /\ Top.kind = "block" /\ Top = stack[Len(stack)]
  BY <1>1, TopFacts DEF Running, IInv, StackInv
<1>3. stack \in Seq(FrameSet) /\ Like(stack)
  BY <1>2, LikeStack
<1>4. stack[Len(stack)].kind # "if"
  BY <1>2
<1>. QED BY <1>1, <1>3, <1>4, DirectShape

\* The step after an else opens its block or that of another if, or fails.
LEMMA ElseShape ==
  ASSUME IInv, Else
  PROVE  Shaped
<1>. DEFINE base == Append(Rest, Frame("else", Top.node))
<1>1. /\ mode = "else"
      /\ CASE TypeAt(pos) = "IF" ->
                Open(Append(base, Frame("if", pos)), Condition(pos), "IF_BLOCK")
           [] TypeAt(pos) = "DO" -> Open(base, Ok(pos), "CODE_BLOCK")
           [] OTHER -> Ended("error")
  BY DEF Else, Instead
<1>2. /\ Running /\ Top.kind = "if" /\ input \in Inputs /\ pos \in 1..Last /\ Node = 0..Last
      /\ Last \in Nat
  BY <1>1, TopFacts DEF Running, IInv, StackInv
<1>3. base \in Seq(FrameSet) /\ Like(base) /\ base[Len(base)].kind = "else"
  BY <1>2, LikeStack
<1>. HIDE DEF base
<1>4. CASE TypeAt(pos) = "IF"
  <2>. DEFINE f == Frame("if", pos)
              o == Condition(pos)
  <2>1. Open(Append(base, f), o, "IF_BLOCK")
    BY <1>1, <1>4
  <2>2. pos \in Node /\ pos \in pos..Last
    BY <1>2
  <2>3. f \in FrameSet /\ f.kind = "if" /\ f.node = pos
    BY <1>2, <2>2, Frames
  <2>4. f.type # "IF_BLOCK"
    BY DEF Frame
  <2>. HIDE DEF f
  <2>5. Reads(o, pos + 1) /\ (o.how = "ok" => IfBody(o.pos)) /\ Plain(o, pos + 1)
    BY <1>2, <1>4, ConditionReads, ConditionPlain
  <2>6. Quiet(pos, pos)
    BY <1>2, QuietOne
  <2>. HIDE DEF o
  <2>. QED BY <1>1, <1>3, <1>4, <2>1, <2>2, <2>3, <2>4, <2>5, <2>6, OpenShape
<1>5. CASE TypeAt(pos) = "DO"
  <2>1. Open(base, Ok(pos), "CODE_BLOCK")
    BY <1>1, <1>5
  <2>2. base[Len(base)].kind # "if"
    BY <1>3
  <2>. QED BY <1>1, <1>3, <1>5, <2>1, <2>2, DirectShape
<1>6. CASE TypeAt(pos) \notin {"IF", "DO"}
  <2>1. Ended("error")
    BY <1>1, <1>6
  <2>. QED BY <2>1, FailShape DEF Failures, Shaped
<1>. QED BY <1>4, <1>5, <1>6

\* The step of a type enters its body, or fails.
LEMMA TypeShape ==
  ASSUME IInv, Type
  PROVE  Shaped
<1>. DEFINE o == TypeHead(pos)
            f == Frame("type", pos)
<1>1. mode = "block" /\ TypeAt(pos) = "TYPE"
  BY DEF Type, AtStatement
<1>2. IF o.how # "ok" THEN Ended(o.how)
      ELSE /\ stack' = Append(stack, f) /\ pos' = o.pos /\ mode' = "body"
           /\ UNCHANGED <<input, kids, ends, val>>
  BY DEF Type, TypeHead, Call
<1>3. /\ input \in Inputs /\ pos \in 1..Last /\ pos \in Node /\ Last \in Nat /\ pos \in Nat
  BY <1>1, Starts
<1>4. Reads(o, pos + 1)
  BY <1>1, <1>3, TypeHeadReads
<1>5. o.how = "ok" => LET q == o.pos - 1 IN
        q \in (pos + 1)..Last /\ TypeAt(q) = "DO" /\ TypeBody(q) /\ Quiet(pos + 1, q)
  BY <1>1, <1>3, TypeHeadPlain
<1>. HIDE DEF o
<1>6. CASE o.how # "ok"
  <2>1. o.how \in Failures
    BY <1>4, <1>6 DEF Reads
  <2>. QED BY <1>2, <1>6, <2>1, FailShape DEF Shaped
<1>7. CASE o.how = "ok"
  <2>1. f \in FrameSet /\ f.kind = "type" /\ f.node = pos
    BY <1>3, Frames
  <2>2. f.type = ""
    BY DEF Frame
  <2>3. o.pos \in (pos + 2)..Last
    <3>1. o.pos \in (pos + 1)..Last /\ o.pos - 1 \in (pos + 1)..Last
      BY <1>4, <1>5, <1>7 DEF Reads
    <3>. QED BY <1>3, <3>1
  <2>. HIDE DEF f
  <2>4. Entering
    BY <1>1, <1>2, <1>5, <1>7, <2>1, <2>2, <2>3 DEF Entering
  <2>. QED BY <2>4 DEF Shaped
<1>. QED BY <1>6, <1>7

\* A foreign function is a statement read in one step, or fails.
LEMMA ForeignShape ==
  ASSUME IInv, Foreign
  PROVE  Shaped
<1>. DEFINE o == ForeignFunction(pos)
<1>1. mode = "block" /\ TypeAt(pos) = "FOREIGN" /\ Read(pos, o)
  BY DEF Foreign, AtStatement
<1>2. input \in Inputs /\ pos \in 1..Last /\ pos \in pos..Last /\ Last \in Nat
  BY <1>1, Starts
<1>3. SkipFrom(pos) = pos + 1 /\ pos + 1 \in 1..Last
  BY <1>1, <1>2, Skip
<1>4. Reads(o, pos + 1)
  BY <1>2, <1>3, ForeignFunctionReads
<1>5. KeywordsSeen => Plain(o, pos + 1) /\ (o.how = "ok" => TypeAt(o.pos - 1) = "SEMI")
  BY <1>1, <1>2, ForeignPlain
<1>. HIDE DEF o
<1>6. pos + 1 \in pos..Last
  BY <1>2, <1>3
<1>7. Reads(o, pos)
  BY <1>2, <1>4, <1>6, Wider
<1>8. o.how = "ok" => o.pos # pos
  BY <1>2, <1>4 DEF Reads
<1>9. Leaf(pos)
  BY <1>1 DEF Leaf
<1>10. KeywordsSeen /\ o.how = "ok" =>
         Quiet(pos, pos) /\ Quiet(pos + 1, o.pos) /\ TypeAt(o.pos - 1) \in {"SEMI", "BREAK"}
  <2>1. Quiet(pos, pos)
    BY <1>2, QuietOne
  <2>. QED BY <1>5, <2>1 DEF Plain
<1>. QED BY <1>1, <1>2, <1>7, <1>8, <1>9, <1>10, ReadShape

\* A break is a statement read in one step, or fails.
LEMMA BreakShape ==
  ASSUME IInv, Break
  PROVE  Shaped
<1>. DEFINE o == Ok(SkipFrom(pos))
<1>1. mode = "block" /\ TypeAt(pos) = "BREAK" /\ Read(pos, o)
  BY DEF Break, AtStatement
<1>2. input \in Inputs /\ pos \in 1..Last /\ pos \in pos..Last /\ Last \in Nat
  BY <1>1, Starts
<1>3. SkipFrom(pos) = pos + 1 /\ pos + 1 \in 1..Last /\ SkipFrom(pos) \in pos..Last
  BY <1>1, <1>2, Skip
<1>4. Reads(o, pos) /\ o.pos = pos + 1
  BY <1>2, <1>3, Simplest
<1>. HIDE DEF o
<1>5. o.pos # pos
  BY <1>2, <1>4
<1>6. Leaf(pos)
  BY <1>1 DEF Leaf
<1>7. Quiet(pos, pos) /\ Quiet(pos + 1, o.pos)
  BY <1>2, <1>3, <1>4, QuietOne
<1>8. o.pos - 1 = pos
  BY <1>2, <1>4
<1>. QED BY <1>1, <1>2, <1>4, <1>5, <1>6, <1>7, <1>8, ReadShape

\* A return is a statement read in one step, or fails.
LEMMA ReturnStatementShape ==
  ASSUME IInv, ReturnStatement
  PROVE  Shaped
<1>. DEFINE q == SkipFrom(pos)
            value == Expression(q)
<1>1. mode = "block" /\ TypeAt(pos) = "RETURN"
      /\ Read(pos, IF value.how = "null" THEN Semi(value.pos) ELSE Then(value, Semi))
  BY DEF ReturnStatement, AtStatement
<1>2. input \in Inputs /\ pos \in 1..Last /\ pos \in pos..Last /\ Last \in Nat
  BY <1>1, Starts
<1>3. q = pos + 1 /\ q \in 1..Last /\ q \in pos..Last
  BY <1>1, <1>2, Skip
<1>4. Tries(value, q) /\ Plain(value, q)
  BY <1>3, <1>2, ExpressionTries, ExpressionPlain
<1>. HIDE DEF q, value
<1>5. Tries(value, pos)
  BY <1>2, <1>3, <1>4, Wider
<1>6. Leaf(pos)
  BY <1>1 DEF Leaf
<1>7. Quiet(pos, pos)
  BY <1>2, QuietOne
<1>8. CASE value.how = "null"
  <2>. DEFINE r == value.pos
              o == Semi(r)
  <2>1. r \in q..Last /\ r \in pos..Last /\ r \in 1..Last /\ Quiet(q, r) /\ r \in Nat
    BY <1>2, <1>3, <1>4, <1>5, <1>8, StopsToo DEF Plain, Tries
  <2>2. Reads(o, r) /\ (o.how = "ok" => o.pos \in (r + 1)..Last)
    BY <1>2, <2>1, SemiReads
  <2>3. o.how = "ok" => TypeAt(r) = "SEMI" /\ o.pos = SkipFrom(r)
    BY <1>2, <2>1, ExpectReads DEF Semi
  <2>4. Read(pos, o)
    BY <1>1, <1>8
  <2>. HIDE DEF r, o
  <2>5. Reads(o, pos)
    BY <1>2, <2>1, <2>2, Wider
  <2>6. o.how = "ok" => o.pos # pos
    BY <1>2, <2>1, <2>2
  <2>7. ASSUME o.how = "ok"
        PROVE  Quiet(pos + 1, o.pos) /\ TypeAt(o.pos - 1) \in {"SEMI", "BREAK"}
    <3>1. TypeAt(r) = "SEMI" /\ o.pos = r + 1
      BY <1>2, <2>1, <2>3, <2>7, Skip
    <3>2. TypeAt(r) \notin Keywords
      BY <3>1 DEF Keywords
    <3>3. Quiet(r, r + 1)
      BY <1>2, <2>1, <3>2, QuietOne
    <3>4. Quiet(q, r + 1)
      BY <1>2, <1>3, <2>1, <3>3, QuietOn
    <3>5. o.pos - 1 = r
      BY <2>1, <3>1
    <3>. QED BY <1>3, <3>1, <3>4, <3>5
  <2>. QED BY <1>1, <1>2, <1>6, <1>7, <2>4, <2>5, <2>6, <2>7, ReadShape
<1>9. CASE value.how # "null"
  <2>1. Reads(value, pos)
    BY <1>5, <1>9 DEF Reads, Tries
  <2>2. value.how = "ok" => Quiet(pos + 1, value.pos)
    BY <1>3, <1>4 DEF Plain
  <2>3. Read(pos, Then(value, Semi))
    BY <1>1, <1>9
  <2>. QED BY <1>1, <1>2, <1>6, <1>7, <2>1, <2>2, <2>3, SemiShape
<1>. QED BY <1>8, <1>9

\* Less of a stretch without keywords.
LEMMA QuietLess ==
  ASSUME NEW p \in Nat, NEW q, Quiet(p, q)
  PROVE  Quiet(p + 1, q)
<1>1. ASSUME NEW i \in (p + 1)..(q - 1) PROVE i \in p..(q - 1)
  OBVIOUS
<1>. QED BY <1>1 DEF Quiet

\* A declaration is a statement read in one step, or fails.
LEMMA DeclarationShape ==
  ASSUME IInv, DeclarationStatement
  PROVE  Shaped
<1>1. mode = "block" /\ TypeAt(pos) \in {"DEFINE", "IDENTIFIER"}
      /\ Read(pos, Then(Declaration(pos), Semi))
  BY DEF DeclarationStatement, StartsDeclaration
<1>2. input \in Inputs /\ pos \in 1..Last /\ pos \in pos..Last /\ pos \in Nat
  BY <1>1, Starts
<1>3. Reads(Declaration(pos), pos) /\ Plain(Declaration(pos), pos)
  BY <1>1, <1>2, DeclarationTries, DeclarationPlain
<1>4. Leaf(pos)
  BY <1>1 DEF Leaf
<1>5. Quiet(pos, pos)
  BY <1>2, QuietOne
<1>6. Declaration(pos).how = "ok" => Quiet(pos + 1, Declaration(pos).pos)
  BY <1>2, <1>3, QuietLess DEF Plain
<1>. QED BY <1>1, <1>2, <1>3, <1>4, <1>5, <1>6, SemiShape

\* An expression is a statement read in one step, or fails.
LEMMA ExpressionShape ==
  ASSUME IInv, ExpressionStatement
  PROVE  Shaped
<1>1. mode = "block" /\ Read(pos, Then(SomeExpression(pos), Semi))
  BY DEF ExpressionStatement
<1>2. input \in Inputs /\ pos \in 1..Last /\ pos \in pos..Last /\ pos \in Nat
  BY <1>1, Starts
<1>3. Reads(SomeExpression(pos), pos) /\ Plain(SomeExpression(pos), pos)
      /\ (SomeExpression(pos).how = "ok" => TypeAt(pos) \in TerminalTypes)
  BY <1>2, ExpressionTries, ExpressionPlain
<1>4. SomeExpression(pos).how = "ok" => Leaf(pos)
  BY <1>3 DEF Leaf, TerminalTypes
<1>5. Quiet(pos, pos)
  BY <1>2, QuietOne
<1>6. SomeExpression(pos).how = "ok" => Quiet(pos + 1, SomeExpression(pos).pos)
  BY <1>2, <1>3, QuietLess DEF Plain
<1>. QED BY <1>1, <1>2, <1>3, <1>4, <1>5, <1>6, SemiShape

\* Modifiers are no keywords.
LEMMA ModifiersQuiet ==
  ASSUME input \in Inputs, pos \in 1..Last
  PROVE  Quiet(pos, ModifiersEnd)
<1>1. \A i \in pos..(ModifiersEnd - 1) : TypeAt(i) \in Modifiers
  BY ModifiersEnded
<1>. QED BY <1>1 DEF Quiet, Keywords, Modifiers, Visibilities

\* A constructor opens its block, or fails.
LEMMA ConstructorShape ==
  ASSUME IInv, Constructor
  PROVE  Shaped
<1>. DEFINE q == ModifiersEnd
            f == Frame("function", q)
            o == ArgList(SkipFrom(q))
<1>1. /\ mode = "body" /\ TypeAt(q) = "CONSTR"
      /\ IF IsForeign THEN Read(q, Then(o, Semi)) ELSE Open(Call(f), o, "FUNCTION_BLOCK")
  BY DEF Constructor, AtMember
<1>2. /\ input \in Inputs /\ pos \in 1..Last /\ Last \in Nat
      /\ q \in pos..Last /\ q \in 1..Last /\ q \in Node
      /\ IsForeign => Foreigner(q)
  BY <1>1, MemberStarts
<1>3. Quiet(pos, q)
  BY <1>2, ModifiersQuiet
<1>. HIDE DEF q
<1>4. SkipFrom(q) = q + 1 /\ q + 1 \in 1..Last /\ q + 1 \in q..Last
  BY <1>1, <1>2, Skip
<1>5. Reads(o, q + 1) /\ (KeywordsSeen => Plain(o, q + 1))
  BY <1>2, <1>4, ArgListReads, ArgListPlain
<1>6. f \in FrameSet /\ f.kind = "function" /\ f.node = q
  BY <1>2, Frames
<1>7. f.type # "IF_BLOCK"
  BY DEF Frame
<1>. HIDE DEF f, o
<1>8. CASE IsForeign
  <2>1. Reads(o, q)
    BY <1>2, <1>4, <1>5, Wider
  <2>2. Leaf(q)
    BY <1>1, <1>2, <1>8 DEF Leaf
  <2>3. KeywordsSeen /\ o.how = "ok" => Quiet(q + 1, o.pos)
    BY <1>5 DEF Plain
  <2>. QED BY <1>1, <1>2, <1>3, <1>8, <2>1, <2>2, <2>3, SemiShape
<1>9. CASE ~IsForeign
  <2>1. TypeAt(q) \in Headed
    BY <1>1 DEF Headed
  <2>. QED BY <1>1, <1>2, <1>3, <1>5, <1>6, <1>7, <1>9, <2>1, HeadShape
<1>. QED BY <1>8, <1>9

\* A method opens its block, a foreign one is read in one step, or it fails.
LEMMA MethodShape ==
  ASSUME IInv, Method
  PROVE  Shaped
<1>. DEFINE q == ModifiersEnd
            f == Frame("function", q)
            o == Then(ForeignFunction(q), Semi)
            h == Signature(q, FALSE)
<1>1. /\ mode = "body" /\ TypeAt(q) = "METHOD"
      /\ IF IsForeign THEN Read(q, o) ELSE Open(Call(f), h, "FUNCTION_BLOCK")
  BY DEF Method, AtMember
<1>2. /\ input \in Inputs /\ pos \in 1..Last /\ Last \in Nat
      /\ q \in pos..Last /\ q \in 1..Last /\ q \in Node
      /\ IsForeign => Foreigner(q)
  BY <1>1, MemberStarts
<1>3. Quiet(pos, q)
  BY <1>2, ModifiersQuiet
<1>. HIDE DEF q
<1>4. SkipFrom(q) = q + 1 /\ q + 1 \in 1..Last /\ q + 1 \in q..Last
  BY <1>1, <1>2, Skip
<1>5. Reads(h, q + 1) /\ (KeywordsSeen => Plain(h, q + 1))
  BY <1>2, <1>4, SignatureReads, SignaturePlain
<1>6. f \in FrameSet /\ f.kind = "function" /\ f.node = q
  BY <1>2, Frames
<1>7. f.type # "IF_BLOCK"
  BY DEF Frame
<1>8. CASE IsForeign
  <2>1. Reads(ForeignFunction(q), q)
    <3>1. Reads(ForeignFunction(q), q + 1)
      BY <1>2, <1>4, ForeignFunctionReads
    <3>. QED BY <1>2, <1>4, <3>1, Wider
  <2>2. Reads(o, q) /\ (o.how = "ok" => o.pos \in (q + 1)..Last)
    BY <1>2, <2>1, ThenSemi
  <2>3. KeywordsSeen => Plain(o, q + 1) /\ (o.how = "ok" => TypeAt(o.pos - 1) = "SEMI")
    BY <1>1, <1>2, <1>8, ForeignPlain
  <2>4. Leaf(q)
    BY <1>1, <1>2, <1>8 DEF Leaf
  <2>5. Read(q, o)
    BY <1>1, <1>8
  <2>. HIDE DEF o
  <2>6. o.how = "ok" => o.pos # q
    BY <1>2, <2>2
  <2>7. KeywordsSeen /\ o.how = "ok" => Quiet(q + 1, o.pos) /\ TypeAt(o.pos - 1) \in {"SEMI", "BREAK"}
    BY <2>3 DEF Plain
  <2>. QED BY <1>1, <1>2, <1>3, <2>2, <2>4, <2>5, <2>6, <2>7, ReadShape
<1>9. CASE ~IsForeign
  <2>1. TypeAt(q) \in Headed
    BY <1>1 DEF Headed
  <2>. HIDE DEF f, h
  <2>. QED BY <1>1, <1>2, <1>3, <1>5, <1>6, <1>7, <1>9, <2>1, HeadShape
<1>. QED BY <1>8, <1>9

\* A member is read in one step, or fails.
LEMMA MemberShape ==
  ASSUME IInv, Member
  PROVE  Shaped
<1>. DEFINE q == ModifiersEnd
            read == OrElse(Declaration(q), "internal")
<1>1. /\ mode = "body"
      /\ Read(q, IF read.how = "ok" /\ ~HasInit(q) THEN Fail("crash") ELSE Then(read, Semi))
  BY DEF Member, AtMember
<1>2. input \in Inputs /\ q \in pos..Last /\ q \in 1..Last /\ q \in Nat /\ pos \in 1..Last
  BY <1>1, MemberStarts
<1>3. Quiet(pos, q)
  BY <1>2, ModifiersQuiet
<1>. HIDE DEF q
<1>4. Tries(Declaration(q), q) /\ Plain(Declaration(q), q)
      /\ (Declaration(q).how = "ok" => TypeAt(q) \in {"DEFINE", "IDENTIFIER"})
  BY <1>2, DeclarationTries, DeclarationPlain
<1>5. Reads(read, q) /\ (read.how = "ok" => Declaration(q).how = "ok") /\ Plain(read, q)
  <2>1. "internal" \in Failures /\ Declaration(q) \in Outcome
    BY <1>4 DEF Failures, Tries
  <2>2. Plain(read, q)
    BY <1>2, <1>4, <2>1, OrElsePlain
  <2>. QED BY <1>2, <1>4, <2>1, <2>2, OrElseReads
<1>. HIDE DEF read
<1>6. read.how = "ok" => Leaf(q)
  BY <1>4, <1>5 DEF Leaf
<1>7. CASE read.how = "ok" /\ ~HasInit(q)
  <2>1. Fail("crash").how = "crash"
    BY DEF Fail
  <2>2. Ended("crash")
    BY <1>1, <1>7, <2>1 DEF Read
  <2>. QED BY <2>2, FailShape DEF Failures, Shaped
<1>8. CASE ~(read.how = "ok" /\ ~HasInit(q))
  <2>1. Read(q, Then(read, Semi))
    BY <1>1, <1>8
  <2>2. read.how = "ok" => Quiet(q + 1, read.pos)
    BY <1>2, <1>5, QuietLess DEF Plain
  <2>. QED BY <1>1, <1>2, <1>3, <1>5, <1>6, <2>1, <2>2, SemiShape
<1>. QED BY <1>7, <1>8

\* A step that hands a node to its parent goes on in the parent or leaves it.
LEMMA LinkShape ==
  ASSUME IInv, Returned
  PROVE  Shaped
<1>1. CASE ToBlock \/ ToType
  <2>1. Staying
    BY <1>1 DEF ToBlock, ToType, Staying
  <2>. QED BY <2>1 DEF Shaped
<1>2. CASE ToElse \/ ToFunction
  <2>1. Leaving
    BY <1>2 DEF ToElse, ToFunction, Leaving, Return
  <2>. QED BY <2>1 DEF Shaped
<1>3. CASE ToLoop
  <2>1. CASE Top.updates # 0 /\ SplitUpdates(Top.updates) # "ok"
    <3>1. mode' = SplitUpdates(Top.updates)
      BY <1>3, <2>1 DEF ToLoop
    <3>2. SplitUpdates(Top.updates) \in {"internal", "uncaught", "ok"}
      BY DEF SplitUpdates
    <3>3. Failing
      BY <1>3, <2>1, <3>1, <3>2 DEF ToLoop, Failing, Failures
    <3>. QED BY <3>3 DEF Shaped
  <2>2. CASE ~(Top.updates # 0 /\ SplitUpdates(Top.updates) # "ok")
    <3>1. Leaving
      BY <1>3, <2>2 DEF ToLoop, Leaving, Return
    <3>. QED BY <3>1 DEF Shaped
  <2>. QED BY <2>1, <2>2
<1>4. CASE ToIf
  <2>1. CASE TypeAt(pos - 1) = "ELSE"
    <3>1. Staying
      BY <1>4, <2>1 DEF ToIf, Staying
    <3>. QED BY <3>1 DEF Shaped
  <2>2. CASE TypeAt(pos - 1) # "ELSE"
    <3>1. TypeAt(pos - 1) = "END"
      BY <1>4, <2>2 DEF IInv, Running, ReturnInv, ToIf
    <3>2. Leaving
      BY <1>4, <2>2, <3>1 DEF ToIf, Leaving, Return
    <3>. QED BY <3>2 DEF Shaped
  <2>. QED BY <2>1, <2>2
<1>. QED BY <1>1, <1>2, <1>3, <1>4 DEF Returned

\* Every step has one of the shapes.
LEMMA NextShape ==
  ASSUME IInv, Next
  PROVE  Shaped
<1>1. CASE EndBlock
  <2>1. Closing
    BY <1>1 DEF EndBlock, Closing, AfterBlock
  <2>. QED BY <2>1 DEF Shaped
<1>2. CASE EndType
  <2>1. Closing
    BY <1>2 DEF EndType, Closing, Return
  <2>. QED BY <2>1 DEF Shaped
<1>3. CASE BadMember \/ Continue
  <2>1. Ended("error") \/ Ended("internal")
    BY <1>3 DEF BadMember, Continue
  <2>. QED BY <2>1, FailShape DEF Failures, Shaped
<1>4. CASE Statement
  BY <1>3, <1>4, TypeShape, IfShape, ForShape, WhileShape, DoShape, DeclarationShape,
     ExpressionShape, BreakShape, ReturnStatementShape, FunctionShape, ForeignShape DEF Statement
<1>5. CASE Body
  BY <1>2, <1>3, <1>5, ConstructorShape, MethodShape, MemberShape DEF Body
<1>. QED BY <1>1, <1>4, <1>5, ElseShape, LinkShape DEF Next

(***************************************************************************)
(* What stands, what is held                                               *)
(***************************************************************************)

\* An if looks at the token before: its block has taken the one it stopped at.
Cur == IF mode = "return" /\ Top.kind = "if" THEN pos - 1 ELSE pos

\* Nodes an invocation is building, and the one that is being returned.
Standing(n) == \E i \in 1..Len(stack) : stack[i].node = n
Held(n) == Standing(n) \/ (mode = "return" /\ n = val)

\* A sequence and one element more.
LEMMA OneMore ==
  ASSUME NEW S, NEW s \in Seq(S), NEW x \in S
  PROVE  /\ Append(s, x) \in Seq(S) /\ Len(s) \in Nat /\ Len(Append(s, x)) = Len(s) + 1
         /\ Append(s, x)[Len(s) + 1] = x /\ Append(s, x)[Len(Append(s, x))] = x
         /\ DOMAIN s = 1..Len(s) /\ DOMAIN Append(s, x) = 1..(Len(s) + 1)
         /\ \A i \in 1..Len(s) : Append(s, x)[i] = s[i]
OBVIOUS

\* Nodes stand in the order of the source, up to the innermost.
LEMMA Stands ==
  ASSUME IInv, Running
  PROVE  /\ \A n : Standing(n) => n \in Node /\ n \in Nat /\ n <= Top.node /\ n < pos
         /\ Standing(Top.node)
         /\ \A i \in 1..(Len(stack) - 1) : stack[i].node < Top.node
         /\ mode = "return" => val \in Node /\ val \in Nat /\ Top.node < val /\ val < pos
         /\ mode # "return" => Cur = pos
         /\ Cur \in Nat /\ Cur <= pos
<1>1. /\ input \in Inputs /\ Last \in Nat \ {0} /\ pos \in 1..Last /\ Node = 0..Last
      /\ stack \in Seq(FrameSet) /\ Len(stack) \in Nat \ {0} /\ DOMAIN stack = 1..Len(stack)
      /\ Top = stack[Len(stack)] /\ Top.node \in Node /\ Top.node < pos
  BY TopFacts
<1>2. Chain(stack) /\ \A i \in DOMAIN stack : stack[i].node \in Nat /\ stack[i].node <= Top.node
  BY StackFacts
<1>3. \A i \in 1..(Len(stack) - 1) : stack[i].node < Top.node
  <2>. SUFFICES ASSUME NEW i \in 1..(Len(stack) - 1) PROVE stack[i].node < Top.node
    OBVIOUS
  <2>1. i \in DOMAIN stack /\ Len(stack) \in DOMAIN stack /\ i < Len(stack)
    BY <1>1
  <2>. QED BY <1>1, <1>2, <2>1 DEF Chain
<1>4. \A n : Standing(n) => n \in Node /\ n \in Nat /\ n <= Top.node /\ n < pos
  <2>. SUFFICES ASSUME NEW i \in 1..Len(stack)
                PROVE  stack[i].node \in Node /\ stack[i].node \in Nat
                       /\ stack[i].node <= Top.node /\ stack[i].node < pos
    BY DEF Standing
  <2>1. stack[i].node \in Nat /\ stack[i].node <= Top.node
    BY <1>1, <1>2
  <2>. QED BY <1>1, <2>1
<1>5. Standing(Top.node)
  BY <1>1 DEF Standing
<1>6. mode = "return" => val \in Node /\ val \in Nat /\ Top.node < val /\ val < pos
  <2>1. val \in Node
    BY LinkFacts
  <2>. QED BY <1>1, <2>1 DEF IInv, ReturnInv
<1>7. Cur \in Nat /\ Cur <= pos /\ (mode # "return" => Cur = pos)
  BY <1>1 DEF Cur
<1>. QED BY <1>3, <1>4, <1>5, <1>6, <1>7

\* The stack when a block begins.
LEMMA Opened ==
  ASSUME IInv, Opening
  PROVE  /\ Len(stack') \in {Len(stack) + 1, Len(stack) + 2}
         /\ \A i \in 1..Len(stack) :
              /\ stack'[i].node = stack[i].node
              /\ stack'[i] = stack[i] \/ (i = Len(stack) /\ stack'[i].kind = "else" /\ stack'[i].type = "")
         /\ stack'[Len(stack')].kind = "block" /\ stack'[Len(stack')].node = pos' - 1
         /\ Len(stack') = Len(stack) + 1 =>
              pos' = pos + 1 /\ stack'[Len(stack)].kind # "if" /\ stack'[Len(stack')].type # "IF_BLOCK"
         /\ Len(stack') = Len(stack) + 2 => Heads(stack'[Len(stack) + 1], stack'[Len(stack) + 2])
<1>. DEFINE L == Len(stack)
<1>1. L \in Nat \ {0}
  BY TopFacts DEF Running, Opening
<1>2. PICK base, b :
       /\ base \in Seq(FrameSet) /\ Like(base)
       /\ b \in FrameSet /\ b.kind = "block" /\ b.node = pos' - 1
       /\ \/ /\ stack' = Append(base, b) /\ pos' = pos + 1
             /\ base[Len(base)].kind # "if" /\ b.type # "IF_BLOCK"
          \/ \E f \in FrameSet : stack' = Append(Append(base, f), b) /\ Heads(f, b)
  BY DEF Opening
<1>. HIDE DEF L
<1>3. Len(base) = L /\ \A i \in 1..L :
              /\ base[i].node = stack[i].node
              /\ base[i] = stack[i] \/ (i = L /\ base[i].kind = "else" /\ base[i].type = "")
  BY <1>2 DEF Like, L
<1>4. CASE /\ stack' = Append(base, b) /\ pos' = pos + 1
           /\ base[Len(base)].kind # "if" /\ b.type # "IF_BLOCK"
  <2>0. base \in Seq(FrameSet) /\ b \in FrameSet
    BY <1>2
  <2>1. Len(stack') = L + 1 /\ stack'[L + 1] = b /\ \A i \in 1..L : stack'[i] = base[i]
    <3>1. /\ Len(Append(base, b)) = Len(base) + 1 /\ Append(base, b)[Len(base) + 1] = b
          /\ \A i \in 1..Len(base) : Append(base, b)[i] = base[i]
      BY <2>0, OneMore
    <3>. QED BY <1>3, <1>4, <3>1
  <2>2. L + 1 # L + 2 /\ L \in 1..L
    BY <1>1
  <2>. QED BY <1>2, <1>3, <1>4, <2>1, <2>2 DEF L
<1>5. ASSUME NEW f \in FrameSet, stack' = Append(Append(base, f), b), Heads(f, b)
      PROVE  /\ Len(stack') = L + 2 /\ stack'[L + 2] = b /\ stack'[L + 1] = f
             /\ \A i \in 1..L : stack'[i] = base[i]
  <2>. DEFINE t == Append(base, f)
  <2>0. base \in Seq(FrameSet) /\ b \in FrameSet
    BY <1>2
  <2>1. t \in Seq(FrameSet) /\ Len(t) = L + 1 /\ t[L + 1] = f /\ \A i \in 1..L : t[i] = base[i]
    <3>1. /\ Append(base, f) \in Seq(FrameSet)
          /\ Len(Append(base, f)) = Len(base) + 1 /\ Append(base, f)[Len(base) + 1] = f
          /\ \A i \in 1..Len(base) : Append(base, f)[i] = base[i]
      BY <2>0, OneMore
    <3>. QED BY <1>3, <3>1
  <2>2. stack' = Append(t, b)
    BY <1>5
  <2>. HIDE DEF t
  <2>3. Len(stack') = L + 2 /\ stack'[L + 2] = b /\ \A i \in 1..(L + 1) : stack'[i] = t[i]
    <3>0. /\ Len(Append(t, b)) = Len(t) + 1 /\ Append(t, b)[Len(t) + 1] = b
          /\ \A i \in 1..Len(t) : Append(t, b)[i] = t[i]
      BY <2>0, <2>1, OneMore
    <3>1. Len(stack') = Len(t) + 1 /\ stack'[Len(t) + 1] = b /\ \A i \in 1..Len(t) : stack'[i] = t[i]
      BY <2>2, <3>0
    <3>2. Len(t) + 1 = L + 2
      BY <1>1, <2>1
    <3>. QED BY <2>1, <3>1, <3>2
  <2>4. L + 1 \in 1..(L + 1) /\ \A i \in 1..L : i \in 1..(L + 1)
    BY <1>1
  <2>. QED BY <2>1, <2>3, <2>4
<1>6. CASE \E f \in FrameSet : stack' = Append(Append(base, f), b) /\ Heads(f, b)
  <2>1. L + 1 # L + 2
    BY <1>1
  <2>. QED BY <1>2, <1>3, <1>5, <1>6, <2>1 DEF L
<1>. QED BY <1>2, <1>4, <1>6

\* The stack when a type begins.
LEMMA Entered ==
  ASSUME IInv, Entering
  PROVE  /\ Len(stack') = Len(stack) + 1 /\ \A i \in 1..Len(stack) : stack'[i] = stack[i]
         /\ stack'[Len(stack')].node = pos /\ stack'[Len(stack')].kind = "type"
         /\ stack'[Len(stack')].type = ""
<1>1. stack \in Seq(FrameSet)
  BY TopFacts DEF Running, Entering
<1>2. PICK f \in FrameSet : f.kind = "type" /\ f.type = "" /\ f.node = pos /\ stack' = Append(stack, f)
  BY DEF Entering
<1>3. /\ Len(stack') = Len(stack) + 1 /\ \A i \in 1..Len(stack) : stack'[i] = stack[i]
      /\ stack'[Len(stack')] = f
  <2>1. /\ Len(Append(stack, f)) = Len(stack) + 1 /\ Append(stack, f)[Len(Append(stack, f))] = f
        /\ \A i \in 1..Len(stack) : Append(stack, f)[i] = stack[i]
    BY <1>1, OneMore
  <2>. QED BY <1>2, <2>1
<1>. QED BY <1>2, <1>3

\* New nodes stand at tokens that were still to come.
LEMMA NewStands ==
  ASSUME IInv, Opening \/ Entering
  PROVE  \A n : Standing(n)' => Standing(n) \/ n \in pos..(pos' - 1)
<1>1. Len(stack) \in Nat \ {0} /\ pos \in Nat /\ Last \in Nat
  <2>1. Running
    BY DEF Running, Opening, Entering
  <2>. QED BY <2>1, TopFacts
<1>2. SUFFICES ASSUME NEW i \in 1..Len(stack')
               PROVE  Standing(stack'[i].node) \/ stack'[i].node \in pos..(pos' - 1)
  BY DEF Standing
<1>3. CASE Opening
  <2>1. /\ Len(stack') \in {Len(stack) + 1, Len(stack) + 2}
        /\ \A j \in 1..Len(stack) : stack'[j].node = stack[j].node
        /\ stack'[Len(stack')].node = pos' - 1
        /\ Len(stack') = Len(stack) + 2 => Heads(stack'[Len(stack) + 1], stack'[Len(stack) + 2])
    BY <1>3, Opened
  <2>2. pos' - 1 \in pos..(pos' - 1)
    <3>1. pos' \in (pos + 1)..Last
      BY <1>3 DEF Opening
    <3>2. \A a, b, c \in Nat : c \in (a + 1)..b => c - 1 \in a..(c - 1)
      OBVIOUS
    <3>3. pos' \in Nat
      BY <1>1, <3>1
    <3>. QED BY <1>1, <3>1, <3>2, <3>3
  <2>3. Len(stack') = Len(stack) + 2 => stack'[Len(stack) + 1].node \in pos..(pos' - 1)
    <3>1. \A q \in pos..((pos' - 1) - 1) : q \in pos..(pos' - 1)
      BY <1>1, <2>2
    <3>. QED BY <2>1, <3>1 DEF Heads
  <2>4. i \in 1..Len(stack) \/ i = Len(stack') \/ (Len(stack') = Len(stack) + 2 /\ i = Len(stack) + 1)
    BY <1>1, <2>1
  <2>. QED BY <2>1, <2>2, <2>3, <2>4 DEF Standing
<1>4. CASE Entering
  <2>1. /\ Len(stack') = Len(stack) + 1 /\ \A j \in 1..Len(stack) : stack'[j] = stack[j]
        /\ stack'[Len(stack')].node = pos
    BY <1>4, Entered
  <2>2. pos \in pos..(pos' - 1)
    <3>1. pos' \in (pos + 2)..Last
      BY <1>4 DEF Entering
    <3>2. \A a, b, c \in Nat : c \in (a + 2)..b => a \in a..(c - 1)
      OBVIOUS
    <3>3. pos' \in Nat
      BY <1>1, <3>1
    <3>. QED BY <1>1, <3>1, <3>2, <3>3
  <2>3. i \in 1..Len(stack) \/ i = Len(stack')
    BY <1>1, <2>1
  <2>. QED BY <2>1, <2>2, <2>3 DEF Standing
<1>. QED BY <1>3, <1>4

\* Only the innermost one leaves.
LEMMA RestStands ==
  ASSUME IInv, Running, stack' = Rest
  PROVE  /\ \A n : Standing(n)' => Standing(n) /\ n < Top.node
         /\ \A n : Standing(n) => Standing(n)' \/ n = Top.node
         /\ Top.node # 0 => Top' = stack[Len(stack) - 1] /\ Len(stack) - 1 \in 1..(Len(stack) - 1)
         /\ Top.kind # "block" => Top.node # 0 /\ Top'.kind # "if"
<1>1. /\ Len(stack) \in Nat \ {0} /\ Top = stack[Len(stack)] /\ Len(Rest) = Len(stack) - 1
      /\ \A i \in 1..(Len(stack) - 1) : Rest[i] = stack[i]
  BY TopFacts
<1>2. \A i \in 1..(Len(stack) - 1) : stack[i].node < Top.node
  BY Stands
<1>3. ASSUME NEW n, Standing(n)' PROVE Standing(n) /\ n < Top.node
  <2>1. PICK i \in 1..(Len(stack) - 1) : Rest[i].node = n
    BY <1>1, <1>3 DEF Standing
  <2>2. i \in 1..Len(stack)
    BY <1>1
  <2>. QED BY <1>1, <1>2, <2>1, <2>2 DEF Standing
<1>4. ASSUME NEW n, Standing(n) PROVE Standing(n)' \/ n = Top.node
  <2>1. PICK i \in 1..Len(stack) : stack[i].node = n
    BY <1>4 DEF Standing
  <2>2. i = Len(stack) \/ i \in 1..(Len(stack) - 1)
    BY <1>1
  <2>3. i \in 1..(Len(stack) - 1) => Standing(n)'
    BY <1>1, <2>1 DEF Standing
  <2>. QED BY <1>1, <2>1, <2>2, <2>3
<1>5. Top.node # 0 =>
        /\ Top' = stack[Len(stack) - 1] /\ Len(stack) - 1 \in 1..(Len(stack) - 1)
        /\ Makes(Top', Top)
  <2>. SUFFICES ASSUME Top.node # 0
                PROVE  /\ Top' = stack[Len(stack) - 1] /\ Len(stack) - 1 \in 1..(Len(stack) - 1)
                       /\ Makes(Rest[Len(Rest)], Top) /\ Top' = Rest[Len(Rest)]
    OBVIOUS
  <2>1. Len(stack) > 1 /\ Makes(Rest[Len(Rest)], Top)
    BY StackFacts
  <2>2. Top' = Rest[Len(Rest)]
    BY DEF Top
  <2>3. Len(stack) - 1 \in 1..(Len(stack) - 1)
    BY <1>1, <2>1
  <2>. QED BY <1>1, <2>1, <2>2, <2>3
<1>6. Top.kind # "block" => Top.node # 0
  BY StackFacts
<1>7. Top.kind # "block" => Top'.kind # "if"
  BY <1>5, <1>6 DEF Makes
<1>. QED BY <1>3, <1>4, <1>5, <1>6, <1>7

\* What the children are after one is added.
LEMMA Added ==
  ASSUME IInv, mode = "return", input' = input, Add(Top.node, val)
  PROVE  /\ \A n \in Node : Children(n)' = IF n = Top.node THEN Children(n) \cup {val} ELSE Children(n)
         /\ \A n \in Node : n # Top.node => kids'[n] = kids[n]
         /\ LET k == kids[Top.node] IN
            /\ Len(kids'[Top.node]) = Len(k) + 1 /\ kids'[Top.node][Len(k) + 1] = val
            /\ DOMAIN kids'[Top.node] = 1..(Len(k) + 1) /\ DOMAIN k = 1..Len(k) /\ Len(k) \in Nat
            /\ \A i \in 1..Len(k) : kids'[Top.node][i] = k[i]
<1>1. /\ kids \in [Node -> Seq(Node)] /\ val \in Node
      /\ \A n \in Node : kids[n] \in Seq(Node)
  BY LinkFacts
<1>2. Top.node \in Node
  BY TopFacts DEF Running
<1>3. kids' = [kids EXCEPT ![Top.node] = Append(@, val)]
  BY DEF Add
<1>. DEFINE m == Top.node
            k == kids[m]
<1>. HIDE DEF m
<1>4. k \in Seq(Node) /\ kids'[m] = Append(k, val) /\ \A n \in Node : n # m => kids'[n] = kids[n]
  BY <1>1, <1>2, <1>3 DEF m
<1>. HIDE DEF k
<1>5. /\ Len(kids'[m]) = Len(k) + 1 /\ kids'[m][Len(k) + 1] = val
      /\ DOMAIN kids'[m] = 1..(Len(k) + 1) /\ DOMAIN k = 1..Len(k) /\ Len(k) \in Nat
      /\ \A i \in 1..Len(k) : kids'[m][i] = k[i]
  BY <1>1, <1>4, OneMore
<1>0. \A n \in Node : Children(n)' = {kids'[n][i] : i \in DOMAIN kids'[n]}
                     /\ Children(n) = {kids[n][i] : i \in DOMAIN kids[n]}
  BY DEF Children
<1>6. {kids'[m][i] : i \in DOMAIN kids'[m]} = {k[i] : i \in DOMAIN k} \cup {val}
  <2>1. {kids'[m][i] : i \in DOMAIN kids'[m]} = {kids'[m][i] : i \in 1..(Len(k) + 1)}
        /\ {k[i] : i \in DOMAIN k} = {k[i] : i \in 1..Len(k)}
    BY <1>5
  <2>2. \A i \in 1..(Len(k) + 1) : i \in 1..Len(k) \/ i = Len(k) + 1
    BY <1>5
  <2>3. Len(k) + 1 \in 1..(Len(k) + 1) /\ \A i \in 1..Len(k) : i \in 1..(Len(k) + 1)
    BY <1>5
  <2>. QED BY <1>5, <2>1, <2>2, <2>3
<1>7. \A n \in Node : Children(n)' = IF n = m THEN Children(n) \cup {val} ELSE Children(n)
  <2>. SUFFICES ASSUME NEW n \in Node
                PROVE  Children(n)' = IF n = m THEN Children(n) \cup {val} ELSE Children(n)
    OBVIOUS
  <2>1. CASE n = m
    <3>1. k = kids[n]
      BY <2>1 DEF k
    <3>. QED BY <1>0, <1>6, <2>1, <3>1
  <2>2. CASE n # m
    BY <1>0, <1>4, <2>2
  <2>. QED BY <2>1, <2>2
<1>8. \A n \in Node : n # m => kids'[n] = kids[n]
  BY <1>4
<1>. QED BY <1>5, <1>7, <1>8 DEF m, k

(***************************************************************************)
(* The order of the tree                                                   *)
(***************************************************************************)

\* Children come after their parent, one after the other; what is between a node
\* and its child, or inside it, has its own children there as well.
TreeInv ==
  /\ \A n \in Node : \A i, j \in DOMAIN kids[n] : i < j => kids[n][i] < kids[n][j]
  /\ \A n \in Node : \A c \in Children(n) : n < c
  /\ \A n, m \in Node : \A d \in Children(n) : \A c \in Children(m) : n < m /\ m < d => c < d
  /\ \A n, m \in Node : \A c \in Children(m) : ends[n] # 0 /\ n <= m /\ m < ends[n] => c < ends[n]
  /\ \A n \in Node : ends[n] # 0 => n < ends[n]

\* Of the nodes before one that is held, all is before it; what stands is open.
HeldInv ==
  /\ \A s, n \in Node : Held(s) /\ n < s => (\A c \in Children(n) : c < s) /\ ends[n] <= s
  /\ \A n \in Node : ends[n] <= Cur /\ (ends[n] # 0 => ~Standing(n))
OrderInv == TreeInv /\ (Running => HeldInv)

\* As long as the tree stays.
LEMMA TreeKept ==
  ASSUME TreeInv, UNCHANGED <<input, kids, ends>>
  PROVE  TreeInv'
<1>1. Node' = Node /\ \A n : Children(n)' = Children(n)
  BY SameTokens DEF Children
<1>2. kids' = kids /\ ends' = ends
  OBVIOUS
<1>. QED BY <1>1, <1>2 DEF TreeInv

\* A step that goes on to tokens that were still to come.
LEMMA OrderOn ==
  ASSUME IInv, OrderInv, mode \in {"block", "body", "else"}, UNCHANGED <<input, kids, ends>>,
         pos' \in pos..Last, Cur' = pos',
         \A s : Held(s)' => Standing(s) \/ s >= pos,
         \A s : Standing(s)' => Standing(s) \/ s >= pos
  PROVE  OrderInv'
<1>1. Running /\ mode # "return" /\ pos \in Nat /\ Node = 0..Last /\ Last \in Nat
  <2>1. Running
    BY DEF Running
  <2>. QED BY <2>1, TopFacts
<1>2. TreeInv'
  BY TreeKept DEF OrderInv
<1>3. HeldInv /\ Cur = pos
  BY <1>1, Stands DEF OrderInv
<1>4. Node' = Node /\ \A n : Children(n)' = Children(n)
  BY SameTokens DEF Children
<1>5. pos' \in Nat /\ pos <= pos' /\ ends' = ends
  BY <1>1
<1>6. \A n \in Node : ends[n] \in Nat
  <2>1. ends \in [Node -> Node]
    BY LinkFacts
  <2>. QED BY <1>1, <2>1
<1>7. ASSUME NEW s \in Node, NEW n \in Node, Held(s)', n < s
      PROVE  (\A c \in Children(n) : c < s) /\ ends[n] <= s
  <2>1. CASE Standing(s)
    BY <1>3, <1>7, <2>1 DEF HeldInv, Held
  <2>2. CASE s >= pos
    <3>1. \A c \in Children(n) : c < pos /\ c \in Node
      BY <1>1, LinkFacts
    <3>2. ends[n] <= pos
      BY <1>3 DEF HeldInv
    <3>. QED BY <1>1, <1>6, <2>2, <3>1, <3>2
  <2>. QED BY <1>7, <2>1, <2>2
<1>8. ASSUME NEW n \in Node
      PROVE  ends[n] <= pos' /\ (ends[n] # 0 => ~Standing(n)')
  <2>1. ends[n] <= pos /\ (ends[n] # 0 => ~Standing(n))
    BY <1>3 DEF HeldInv
  <2>2. n >= pos => ends[n] = 0
    BY <1>1, LinkFacts
  <2>. QED BY <1>1, <1>5, <1>6, <2>1, <2>2
<1>9. HeldInv'
  BY <1>4, <1>5, <1>7, <1>8 DEF HeldInv
<1>. QED BY <1>2, <1>9 DEF OrderInv

\* Reading a statement in one step keeps the tree in order.
LEMMA OrderReading ==
  ASSUME IInv, OrderInv, Reading
  PROVE  OrderInv'
<1>1. Running /\ mode # "return"
  BY DEF Running, Reading
<1>2. pos \in Nat /\ Last \in Nat /\ (mode = "block" => Top.kind = "block") /\ (mode = "body" => Top.kind = "type")
  BY <1>1, TopFacts DEF IInv, StackInv
<1>3. /\ mode \in {"block", "body"} /\ mode' = "return" /\ UNCHANGED <<input, kids, ends, stack>>
      /\ val' \in pos..Last /\ pos' \in (val' + 1)..Last
  BY DEF Reading
<1>4. Top' = Top /\ \A s : Standing(s)' <=> Standing(s)
  BY <1>3 DEF Top, Standing
<1>5. Cur' = pos'
  BY <1>2, <1>3, <1>4 DEF Cur
<1>6. pos' \in pos..Last /\ val' >= pos
  <2>1. \A v \in pos..Last : v \in Nat /\ v >= pos /\ \A p \in (v + 1)..Last : p \in pos..Last
    BY <1>2
  <2>. QED BY <1>3, <2>1
<1>7. \A s : Held(s)' => Standing(s) \/ s >= pos
  BY <1>4, <1>6 DEF Held
<1>. QED BY <1>3, <1>4, <1>5, <1>6, <1>7, OrderOn

\* Opening a block or a body keeps the tree in order.
LEMMA OrderOpening ==
  ASSUME IInv, OrderInv, Opening \/ Entering
  PROVE  OrderInv'
<1>1. Running
  BY DEF Running, Opening, Entering
<1>2. pos \in Nat /\ Last \in Nat
  BY <1>1, TopFacts
<1>3. /\ mode \in {"block", "body", "else"} /\ mode' \in {"block", "body"} /\ UNCHANGED <<input, kids, ends>>
  BY DEF Opening, Entering
<1>4. pos' \in pos..Last
  <2>1. pos' \in (pos + 1)..Last \/ pos' \in (pos + 2)..Last
    BY DEF Opening, Entering
  <2>. QED BY <1>2, <2>1
<1>5. Cur' = pos'
  BY <1>3 DEF Cur
<1>6. \A s : Standing(s)' => Standing(s) \/ s >= pos
  <2>1. \A s : s \in pos..(pos' - 1) => s >= pos
    BY <1>2
  <2>. QED BY <2>1, NewStands
<1>7. \A s : Held(s)' => Standing(s) \/ s >= pos
  BY <1>3, <1>6 DEF Held
<1>. QED BY <1>3, <1>4, <1>5, <1>6, <1>7, OrderOn

\* What is returned comes after all there is.
LEMMA AddTree ==
  ASSUME IInv, OrderInv, mode = "return", UNCHANGED <<input, ends>>, Add(Top.node, val)
  PROVE  TreeInv'
<1>. DEFINE t == Top.node
            k == kids[t]
<1>1. Running /\ Node' = Node
  BY SameTokens DEF Running
<1>2. /\ t \in Node /\ Last \in Nat /\ Node = 0..Last /\ val \in Node /\ t < val
      /\ Held(val) /\ Held(t) /\ Standing(t)
  BY <1>1, TopFacts, Stands DEF Held
<1>3. TreeInv /\ HeldInv
  BY <1>1 DEF OrderInv
<1>4. /\ \A n \in Node : Children(n)' = IF n = t THEN Children(n) \cup {val} ELSE Children(n)
      /\ \A n \in Node : n # t => kids'[n] = kids[n]
      /\ Len(kids'[t]) = Len(k) + 1 /\ kids'[t][Len(k) + 1] = val
      /\ DOMAIN kids'[t] = 1..(Len(k) + 1) /\ DOMAIN k = 1..Len(k) /\ Len(k) \in Nat
      /\ \A i \in 1..Len(k) : kids'[t][i] = k[i]
  BY Added
<1>5. /\ \A n \in Node : \A c \in Children(n) : c \in Node
      /\ \A n \in Node : ends[n] \in Node
  BY LinkFacts
<1>. HIDE DEF t
<1>6. \A c \in Children(t) : c < val
  BY <1>2, <1>3 DEF HeldInv
<1>7. ASSUME NEW n \in Node, NEW i \in DOMAIN kids'[n], NEW j \in DOMAIN kids'[n], i < j
      PROVE  kids'[n][i] < kids'[n][j]
  <2>1. CASE n # t
    BY <1>3, <1>4, <1>7, <2>1 DEF TreeInv
  <2>2. CASE n = t
    <3>1. i \in 1..Len(k) /\ j \in 1..(Len(k) + 1)
      BY <1>4, <1>7, <2>2
    <3>2. kids'[n][i] = k[i] /\ k[i] \in Children(t)
      BY <1>4, <2>2, <3>1 DEF Children
    <3>3. CASE j = Len(k) + 1
      BY <1>4, <1>6, <2>2, <3>2, <3>3
    <3>4. CASE j # Len(k) + 1
      <4>1. j \in 1..Len(k)
        BY <1>4, <3>1, <3>4
      <4>2. k[i] < k[j]
        BY <1>2, <1>3, <1>4, <1>7, <3>1, <4>1 DEF TreeInv
      <4>. QED BY <1>4, <2>2, <3>2, <4>1, <4>2
    <3>. QED BY <3>3, <3>4
  <2>. QED BY <2>1, <2>2
<1>8. ASSUME NEW n \in Node, NEW c \in Children(n)' PROVE n < c
  <2>1. c \in Children(n) \/ (n = t /\ c = val)
    BY <1>4, <1>8
  <2>. QED BY <1>2, <1>3, <2>1 DEF TreeInv
<1>9. ASSUME NEW n \in Node, NEW m \in Node, NEW d \in Children(n)', NEW c \in Children(m)', n < m, m < d
      PROVE  c < d
  <2>1. (c \in Children(m) \/ (m = t /\ c = val)) /\ (d \in Children(n) \/ (n = t /\ d = val))
    BY <1>4, <1>9
  <2>2. CASE c \in Children(m) /\ d \in Children(n)
    BY <1>3, <1>9, <2>2 DEF TreeInv
  <2>3. CASE n = t /\ d = val
    <3>1. m # t
      BY <1>2, <1>9, <2>3
    <3>2. c \in Children(m)
      BY <2>1, <3>1
    <3>. QED BY <1>2, <1>3, <1>9, <2>3, <3>2 DEF HeldInv
  <2>4. CASE m = t /\ c = val /\ d \in Children(n)
    <3>1. d < t
      BY <1>2, <1>3, <1>9, <2>4 DEF HeldInv
    <3>. QED BY <1>2, <1>5, <1>9, <2>4, <3>1
  <2>. QED BY <2>1, <2>2, <2>3, <2>4
<1>10. ASSUME NEW n \in Node, NEW m \in Node, NEW c \in Children(m)', ends[n] # 0, n <= m, m < ends[n]
       PROVE  c < ends[n]
  <2>1. c \in Children(m) \/ (m = t /\ c = val)
    BY <1>4, <1>10
  <2>2. CASE c \in Children(m)
    BY <1>3, <1>10, <2>2 DEF TreeInv
  <2>3. CASE m = t /\ c = val
    <3>1. n # t
      BY <1>2, <1>3, <1>10 DEF HeldInv
    <3>2. n < t
      BY <1>2, <1>10, <2>3, <3>1
    <3>3. ends[n] <= t
      BY <1>2, <1>3, <3>2 DEF HeldInv
    <3>. QED BY <1>2, <1>5, <1>10, <2>3, <3>3
  <2>. QED BY <2>1, <2>2, <2>3
<1>11. \A n \in Node : ends[n] # 0 => n < ends[n]
  BY <1>3 DEF TreeInv
<1>12. ends' = ends
  OBVIOUS
<1>. QED BY <1>1, <1>7, <1>8, <1>9, <1>10, <1>11, <1>12 DEF TreeInv

\* Afterwards only nodes are held that are not after the one it was added to.
LEMMA AddHeld ==
  ASSUME IInv, OrderInv, mode = "return", UNCHANGED <<input, ends>>, Add(Top.node, val),
         Cur' >= Cur, Cur' \in Nat, \A s : Held(s)' => Standing(s), \A s : Standing(s)' => Standing(s)
  PROVE  OrderInv'
<1>. DEFINE t == Top.node
<1>1. Running /\ Node' = Node
  BY SameTokens DEF Running
<1>2. HeldInv
  BY <1>1 DEF OrderInv
<1>3. Cur \in Nat /\ t \in Nat /\ \A s : Standing(s) => s <= t /\ s \in Nat
  BY <1>1, Stands
<1>4. \A n \in Node : Children(n)' = IF n = t THEN Children(n) \cup {val} ELSE Children(n)
  BY Added
<1>5. \A n \in Node : ends[n] \in Nat
  BY <1>1, LinkFacts, TopFacts
<1>. HIDE DEF t
<1>6. ASSUME NEW s \in Node, NEW n \in Node, Held(s)', n < s
      PROVE  (\A c \in Children(n)' : c < s) /\ ends[n] <= s
  <2>1. Standing(s)
    BY <1>6
  <2>2. n # t
    BY <1>3, <1>6, <2>1
  <2>. QED BY <1>2, <1>4, <1>6, <2>1, <2>2 DEF HeldInv, Held
<1>7. ASSUME NEW n \in Node
      PROVE  ends[n] <= Cur' /\ (ends[n] # 0 => ~Standing(n)')
  <2>1. ends[n] <= Cur /\ (ends[n] # 0 => ~Standing(n))
    BY <1>2 DEF HeldInv
  <2>. QED BY <1>3, <1>5, <2>1
<1>8. ends' = ends
  OBVIOUS
<1>9. HeldInv'
  BY <1>1, <1>6, <1>7, <1>8 DEF HeldInv
<1>. QED BY <1>9, AddTree DEF OrderInv

\* Handing a node to its parent keeps the tree in order.
LEMMA OrderLinking ==
  ASSUME IInv, OrderInv, Staying \/ Leaving
  PROVE  OrderInv'
<1>1. mode = "return" /\ Running /\ UNCHANGED <<input, ends>> /\ Add(Top.node, val)
  BY DEF Staying, Leaving, Running
<1>2. Cur \in Nat /\ Cur <= pos /\ Standing(Top.node) /\ pos \in Nat
  BY <1>1, Stands, TopFacts
<1>3. CASE Staying
  <2>1. Cur' = pos
    BY <1>3 DEF Staying, Cur
  <2>2. \A s : Standing(s)' <=> Standing(s)
    BY <1>3 DEF Staying, Standing
  <2>3. \A s : Held(s)' => Standing(s)
    BY <1>3, <2>2 DEF Staying, Held
  <2>. QED BY <1>1, <1>2, <2>1, <2>2, <2>3, AddHeld
<1>4. CASE Leaving
  <2>1. stack' = Rest /\ val' = Top.node /\ Top.kind # "block" /\ pos' = IF Top.kind = "if" THEN pos - 1 ELSE pos
    BY <1>4 DEF Leaving
  <2>2. (\A s : Standing(s)' => Standing(s)) /\ Top'.kind # "if"
    BY <1>1, <2>1, RestStands
  <2>3. Cur' = Cur
    BY <1>1, <2>1, <2>2 DEF Cur
  <2>4. \A s : Held(s)' => Standing(s)
    BY <1>2, <2>1, <2>2 DEF Held
  <2>. QED BY <1>1, <1>2, <2>2, <2>3, <2>4, AddHeld
<1>. QED BY <1>3, <1>4

\* An error keeps the tree in order.
LEMMA OrderFailing ==
  ASSUME IInv, OrderInv, Failing
  PROVE  OrderInv'
<1>1. ~Running'
  BY DEF Failing, Running, Failures
<1>2. TreeInv'
  BY AddTree, TreeKept DEF Failing, OrderInv
<1>. QED BY <1>1, <1>2 DEF OrderInv

\* A block, or the body of a type, is left to what is around it.
LEMMA OrderClosing ==
  ASSUME IInv, OrderInv, Closing
  PROVE  OrderInv'
<1>. DEFINE t == Top.node
<1>1. Running /\ mode # "return" /\ Node' = Node /\ \A n : Children(n)' = Children(n)
  BY SameTokens DEF Running, Closing, Children
<1>2. /\ t \in Node /\ t \in Nat /\ Last \in Nat /\ Node = 0..Last /\ pos \in Nat /\ t < pos
      /\ pos \in 1..Last /\ input \in Inputs
  BY <1>1, TopFacts
<1>3. TreeInv /\ HeldInv /\ Cur = pos
  BY <1>1, Stands DEF OrderInv
<1>4. /\ kids' = kids /\ ends' = [ends EXCEPT ![t] = pos] /\ stack' = Rest /\ val' = t
      /\ mode' \in {"return", "done"}
  BY DEF Closing
<1>5. ends \in [Node -> Node] /\ \A n \in Node : \A c \in Children(n) : c \in Nat /\ c < pos
  <2>1. ends \in [Node -> Node] /\ \A n \in Node : \A c \in Children(n) : c \in Node /\ c < pos
    BY <1>1, LinkFacts
  <2>. QED BY <1>2, <2>1
<1>6. \A n \in Node : ends'[n] = IF n = t THEN pos ELSE ends[n]
  BY <1>2, <1>4, <1>5
<1>7. /\ \A n : Standing(n)' => Standing(n) /\ n < t
      /\ \A s : Standing(s) => s \in Nat /\ s <= t
      /\ Standing(t)
  BY <1>1, <1>4, RestStands, Stands
<1>8. TreeInv'
  <2>1. ASSUME NEW n \in Node, NEW m \in Node, NEW c \in Children(m), ends'[n] # 0, n <= m, m < ends'[n]
        PROVE  c < ends'[n]
    <3>1. CASE n = t
      BY <1>5, <1>6, <3>1
    <3>2. CASE n # t
      <4>1. ends'[n] = ends[n]
        BY <1>6, <3>2
      <4>. QED BY <1>3, <2>1, <4>1 DEF TreeInv
    <3>. QED BY <3>1, <3>2
  <2>2. ASSUME NEW n \in Node, ends'[n] # 0 PROVE n < ends'[n]
    BY <1>2, <1>3, <1>6, <2>2 DEF TreeInv
  <2>3. /\ \A n \in Node : \A i, j \in DOMAIN kids[n] : i < j => kids[n][i] < kids[n][j]
        /\ \A n \in Node : \A c \in Children(n) : n < c
        /\ \A n, m \in Node : \A d \in Children(n) : \A c \in Children(m) : n < m /\ m < d => c < d
    BY <1>3 DEF TreeInv
  <2>. HIDE DEF t
  <2>. QED BY <1>1, <1>4, <2>1, <2>2, <2>3 DEF TreeInv
<1>9. CASE mode' = "done"
  <2>1. ~Running'
    BY <1>9 DEF Running
  <2>. QED BY <1>8, <2>1 DEF OrderInv
<1>10. CASE mode' = "return"
  <2>1. Cur' \in Nat /\ pos <= Cur'
    <3>1. CASE mode = "block"
      <4>1. pos' = SkipFrom(pos) /\ t # 0
        BY <1>10, <3>1 DEF Closing
      <4>2. TypeAt(pos) # "FILE_END"
        <5>1. Top.type # "ROOT_BLOCK"
          <6>1. Top.kind = "block"
            BY <1>1, <3>1 DEF IInv, StackInv
          <6>. QED BY <1>1, <4>1, <6>1, StackFacts
        <5>. QED BY <3>1, <5>1 DEF Closing, AtBlockEnd
      <4>3. pos' = pos + 1
        BY <1>2, <4>1, <4>2, Skip
      <4>4. Cur' = pos' \/ Cur' = pos' - 1
        BY DEF Cur
      <4>. QED BY <1>2, <4>3, <4>4
    <3>2. CASE mode = "body"
      <4>1. pos' = pos /\ Top.kind = "type"
        BY <1>1, <3>2 DEF Closing, IInv, StackInv
      <4>2. Top'.kind # "if"
        BY <1>1, <1>4, <4>1, RestStands
      <4>3. Cur' = pos
        BY <4>1, <4>2 DEF Cur
      <4>. QED BY <1>2, <4>3
    <3>. QED BY <3>1, <3>2 DEF Closing
  <2>2. \A s : Held(s)' => Standing(s)
    BY <1>4, <1>7 DEF Held
  <2>3. ASSUME NEW s \in Node, NEW n \in Node, Held(s)', n < s
        PROVE  (\A c \in Children(n) : c < s) /\ ends'[n] <= s
    <3>1. Standing(s) /\ s <= t
      BY <1>7, <2>2, <2>3
    <3>2. n # t
      BY <1>2, <2>3, <3>1
    <3>3. ends'[n] = ends[n]
      BY <1>6, <3>2
    <3>. QED BY <1>3, <2>3, <3>1, <3>3 DEF HeldInv, Held
  <2>4. ASSUME NEW n \in Node
        PROVE  ends'[n] <= Cur' /\ (ends'[n] # 0 => ~Standing(n)')
    <3>1. CASE n = t
      <4>1. ~Standing(n)'
        <5>1. ~(n < t)
          BY <1>2, <3>1
        <5>. QED BY <1>7, <5>1
      <4>2. ends'[n] = pos
        BY <1>6, <3>1
      <4>. QED BY <2>1, <4>1, <4>2
    <3>2. CASE n # t
      <4>1. ends'[n] = ends[n] /\ ends[n] \in Nat
        <5>1. ends[n] \in Node
          BY <1>5
        <5>. QED BY <1>2, <1>6, <3>2, <5>1
      <4>2. ends[n] <= pos /\ (ends[n] # 0 => ~Standing(n))
        BY <1>3 DEF HeldInv
      <4>. QED BY <1>2, <1>7, <2>1, <4>1, <4>2
    <3>. QED BY <3>1, <3>2
  <2>. HIDE DEF t
  <2>5. HeldInv'
    BY <1>1, <2>3, <2>4 DEF HeldInv
  <2>. QED BY <1>8, <2>5 DEF OrderInv
<1>. QED BY <1>4, <1>9, <1>10

\* The order is kept, and there at the beginning.
LEMMA OrderStep ==
  ASSUME IInv, OrderInv, [Next]_vars
  PROVE  OrderInv'
<1>1. CASE Next
  BY <1>1, NextShape, OrderFailing, OrderReading, OrderOpening, OrderLinking, OrderClosing DEF Shaped
<1>2. CASE UNCHANGED vars
  <2>1. UNCHANGED <<input, pos, kids, ends, stack, val, mode>>
    BY <1>2 DEF vars
  <2>2. TreeInv'
    BY <2>1, TreeKept DEF OrderInv
  <2>3. Node' = Node /\ (\A n : Children(n)' = Children(n)) /\ Top' = Top
    BY <2>1, SameTokens DEF Children, Top
  <2>4. Cur' = Cur /\ \A n : (Standing(n)' <=> Standing(n)) /\ (Held(n)' <=> Held(n))
    BY <2>1, <2>3 DEF Cur, Standing, Held
  <2>5. HeldInv => HeldInv'
    BY <2>1, <2>3, <2>4 DEF HeldInv
  <2>6. Running' <=> Running
    BY <2>1 DEF Running
  <2>. QED BY <2>2, <2>5, <2>6 DEF OrderInv
<1>. QED BY <1>1, <1>2

\* In the beginning there is only the root block.
LEMMA OrderInit ==
  ASSUME Init
  PROVE  OrderInv
<1>1. input \in Inputs
  BY DEF Init
<1>2. Node = 0..Last /\ Last \in Nat /\ pos = 1 /\ Cur = 1
  BY <1>1, Tokens DEF Node, Init, Cur
<1>3. \A n \in Node : kids[n] = <<>> /\ ends[n] = 0 /\ Children(n) = {}
  <2>1. \A n \in Node : kids[n] = <<>> /\ ends[n] = 0
    BY <1>2 DEF Init, Last
  <2>. QED BY <2>1 DEF Children
<1>4. TreeInv
  BY <1>3 DEF TreeInv
<1>5. HeldInv
  <2>1. \A s, n \in Node : n < s => 0 <= s
    BY <1>2
  <2>2. 0 <= Cur
    BY <1>2
  <2>. QED BY <1>3, <2>1, <2>2 DEF HeldInv
<1>. QED BY <1>4, <1>5 DEF OrderInv

(***************************************************************************)
(* What is under a node                                                    *)
(***************************************************************************)

\* Induction from the last token back.
LEMMA Downward ==
  ASSUME NEW n \in Nat, NEW S \in SUBSET (0..n),
         \A m \in 0..n : (m + 1)..n \subseteq S => m \in S
  PROVE  S = 0..n
<1>. DEFINE T == {m \in 0..n : n - m \in S}
<1>1. T \in SUBSET (0..n)
  OBVIOUS
<1>2. ASSUME NEW m \in 0..n, 0..(m - 1) \subseteq T PROVE m \in T
  <2>1. n - m \in 0..n
    OBVIOUS
  <2>2. ASSUME NEW i \in ((n - m) + 1)..n PROVE i \in S
    <3>1. n - i \in 0..(m - 1)
      BY <2>1
    <3>2. n - i \in T
      BY <1>2, <3>1
    <3>3. n - (n - i) = i
      BY <2>1
    <3>. QED BY <3>2, <3>3
  <2>3. n - m \in S
    BY <2>1, <2>2
  <2>. QED BY <2>3
<1>3. T = 0..n
  <2>. HIDE DEF T
  <2>. QED BY <1>1, <1>2, SetInduction
<1>4. ASSUME NEW i \in 0..n PROVE i \in S
  <2>1. n - i \in 0..n /\ n - (n - i) = i
    OBVIOUS
  <2>2. n - i \in T
    BY <1>3, <2>1
  <2>. QED BY <2>1, <2>2
<1>. QED BY <1>4

\* The smallest set with n that has the children of what it has.
LEMMA UnderDefined ==
  ASSUME IInv
  PROVE  \A n \in Node : Under[n] = {n} \cup UNION {Under[c] : c \in Children(n)}
<1>. DEFINE Has(S) == \A m \in S : Children(m) \subseteq S
            Sets(n) == {S \in SUBSET Node : n \in S /\ Has(S)}
            Least(n) == {k \in Node : \A S \in Sets(n) : k \in S}
            Value(h, n) == {n} \cup UNION {h[kids[n][i]] : i \in DOMAIN kids[n]}
            f == [n \in Node |-> Least(n)]
<1>1. \A n \in Node : Children(n) \in SUBSET Node
  BY LinkFacts
<1>2. \A n \in Node : n \in Least(n) /\ Least(n) \in SUBSET Node
  OBVIOUS
<1>3. \A n \in Node : Has(Least(n))
  <2>. SUFFICES ASSUME NEW n \in Node, NEW m \in Least(n), NEW c \in Children(m) PROVE c \in Least(n)
    OBVIOUS
  <2>1. c \in Node
    BY <1>1
  <2>2. ASSUME NEW S \in Sets(n) PROVE c \in S
    OBVIOUS
  <2>. QED BY <2>1, <2>2
<1>4. ASSUME NEW n \in Node
      PROVE  Least(n) = {n} \cup UNION {Least(c) : c \in Children(n)}
  <2>. DEFINE R == {n} \cup UNION {Least(c) : c \in Children(n)}
  <2>1. ASSUME NEW c \in Children(n) PROVE Least(c) \subseteq Least(n)
    <3>1. \A S \in Sets(n) : S \in Sets(c)
      OBVIOUS
    <3>. QED BY <3>1
  <2>2. R \in SUBSET Node
    BY <1>1, <1>2
  <2>3. Has(R)
    <3>. SUFFICES ASSUME NEW m \in R, NEW d \in Children(m) PROVE d \in R
      OBVIOUS
    <3>. HIDE DEF Least
    <3>1. CASE m = n
      <4>1. d \in Node /\ d \in Least(d)
        BY <1>1, <1>2, <3>1
      <4>. QED BY <3>1, <4>1
    <3>2. CASE \E c \in Children(n) : m \in Least(c)
      <4>1. PICK c \in Children(n) : m \in Least(c)
        BY <3>2
      <4>2. c \in Node
        BY <1>1
      <4>3. d \in Least(c)
        BY <1>3, <4>1, <4>2
      <4>. QED BY <4>1, <4>3
    <3>. QED BY <3>1, <3>2
  <2>4. R \in Sets(n)
    BY <2>2, <2>3
  <2>5. Least(n) \subseteq R
    <3>. HIDE DEF R, Sets
    <3>. QED BY <2>4
  <2>6. R \subseteq Least(n)
    <3>. HIDE DEF Least
    <3>. QED BY <1>2, <2>1
  <2>. QED BY <2>5, <2>6
<1>5. ASSUME NEW n \in Node PROVE f[n] = Value(f, n)
  <2>1. \A i \in DOMAIN kids[n] : kids[n][i] \in Node
    <3>1. \A i \in DOMAIN kids[n] : kids[n][i] \in Children(n)
      BY DEF Children
    <3>. QED BY <1>1, <3>1
  <2>2. UNION {Least(c) : c \in Children(n)} = UNION {f[kids[n][i]] : i \in DOMAIN kids[n]}
    <3>. HIDE DEF Least
    <3>1. \A i \in DOMAIN kids[n] : f[kids[n][i]] = Least(kids[n][i])
      BY <2>1
    <3>. HIDE DEF f
    <3>. QED BY <3>1 DEF Children
  <2>3. f[n] = Least(n)
    OBVIOUS
  <2>. HIDE DEF Least, f
  <2>. QED BY <1>4, <2>2, <2>3
<1>6. f = [n \in Node |-> Value(f, n)]
  <2>1. f = [n \in Node |-> f[n]]
    OBVIOUS
  <2>. HIDE DEF f, Value
  <2>. QED BY <1>5, <2>1
<1>7. Under = [n \in Node |-> Value(Under, n)]
  <2>. DEFINE Fixed(h) == h = [n \in Node |-> Value(h, n)]
  <2>1. Fixed(f)
    BY <1>6
  <2>2. Under = CHOOSE h : Fixed(h)
    BY DEF Under
  <2>3. Fixed(Under)
    <3>. HIDE DEF Fixed, f, Value
    <3>. QED BY <2>1, <2>2
  <2>. QED BY <2>3
<1>8. \A n \in Node : Under[n] = Value(Under, n)
  <2>. HIDE DEF Value
  <2>. QED BY <1>7
<1>. QED BY <1>8 DEF Children

\* What is under a node stays in a stretch that has the children of what it has.
LEMMA UnderWithin ==
  ASSUME IInv, NEW lo \in Nat, NEW hi \in Nat,
         \A m \in Node : lo <= m /\ m < hi => \A c \in Children(m) : m < c /\ c < hi
  PROVE  \A m \in Node : lo <= m /\ m < hi => \A k \in Under[m] : m <= k /\ k < hi
<1>1. Last \in Nat /\ Node = 0..Last
  BY Tokens DEF IInv, Node
<1>2. \A n \in Node : Children(n) \in SUBSET Node
  BY LinkFacts
<1>. DEFINE S == {m \in 0..Last : lo <= m /\ m < hi => \A k \in Under[m] : k \in Int /\ m <= k /\ k < hi}
<1>3. ASSUME NEW m \in 0..Last, (m + 1)..Last \subseteq S PROVE m \in S
  <2>. SUFFICES ASSUME lo <= m, m < hi, NEW k \in Under[m] PROVE k \in Int /\ m <= k /\ k < hi
    OBVIOUS
  <2>1. k = m \/ \E c \in Children(m) : k \in Under[c]
    <3>1. Under[m] = {m} \cup UNION {Under[c] : c \in Children(m)}
      BY <1>1, UnderDefined
    <3>. QED BY <3>1
  <2>2. ASSUME NEW c \in Children(m), k \in Under[c] PROVE k \in Int /\ m <= k /\ k < hi
    <3>1. c \in 0..Last /\ m < c /\ c < hi
      BY <1>1, <1>2
    <3>2. c \in S /\ lo <= c
      <4>1. c \in (m + 1)..Last
        BY <1>1, <3>1
      <4>. QED BY <1>3, <3>1, <4>1
    <3>3. k \in Int /\ c <= k /\ k < hi
      BY <2>2, <3>1, <3>2
    <3>. QED BY <3>1, <3>3
  <2>. QED BY <2>1, <2>2
<1>4. S = 0..Last
  <2>1. S \in SUBSET (0..Last)
    OBVIOUS
  <2>. HIDE DEF S
  <2>. QED BY <1>1, <1>3, <2>1, Downward
<1>. QED BY <1>1, <1>4

\* The tree is in order.
LEMMA InOrder ==
  ASSUME IInv, OrderInv
  PROVE  TreeInOrder
<1>1. Last \in Nat /\ Node = 0..Last
  BY Tokens DEF IInv, Node
<1>2. /\ \A n \in Node : \A c \in Children(n) : c \in Node
      /\ \A n \in Node : ends[n] \in Node /\ DOMAIN kids[n] = 1..Len(kids[n]) /\ Len(kids[n]) \in Nat
  BY LinkFacts
<1>3. TreeInv
  BY DEF OrderInv
<1>. SUFFICES ASSUME NEW n \in Node, NEW i \in DOMAIN kids[n], NEW k \in Under[kids[n][i]]
              PROVE  /\ n < k
                     /\ ends[n] # 0 => k < ends[n]
                     /\ \A j \in 1..(i - 1) : kids[n][j] < kids[n][i]
                     /\ i < Len(kids[n]) => k < kids[n][i + 1]
  BY DEF TreeInOrder
<1>. DEFINE c == kids[n][i]
<1>4. c \in Children(n) /\ c \in Node /\ n < c
  BY <1>2, <1>3 DEF Children, TreeInv
<1>5. k \in Int /\ c <= k /\ k < Last + 1
  <2>1. ASSUME NEW m \in Node, 0 <= m, m < Last + 1, NEW d \in Children(m)
        PROVE  m < d /\ d < Last + 1
    BY <1>1, <1>2, <1>3 DEF TreeInv
  <2>2. \A m \in Node : 0 <= m /\ m < Last + 1 => \A q \in Under[m] : m <= q /\ q < Last + 1
    <3>1. 0 \in Nat /\ Last + 1 \in Nat
      BY <1>1
    <3>. QED BY <2>1, <3>1, UnderWithin
  <2>3. \A m \in Node : \A q \in Under[m] : q \in Int
    <3>. DEFINE S == {m \in 0..Last : \A q \in Under[m] : q \in Int}
    <3>1. ASSUME NEW m \in 0..Last, (m + 1)..Last \subseteq S PROVE m \in S
      <4>. SUFFICES ASSUME NEW q \in Under[m] PROVE q \in Int
        OBVIOUS
      <4>1. q = m \/ \E d \in Children(m) : q \in Under[d]
        <5>1. Under[m] = {m} \cup UNION {Under[d] : d \in Children(m)}
          BY <1>1, UnderDefined
        <5>. QED BY <5>1
      <4>2. ASSUME NEW d \in Children(m), q \in Under[d] PROVE q \in Int
        <5>1. d \in Node /\ m < d
          BY <1>1, <1>2, <1>3 DEF TreeInv
        <5>2. d \in (m + 1)..Last
          BY <1>1, <5>1
        <5>. QED BY <3>1, <4>2, <5>2
      <4>. QED BY <4>1, <4>2
    <3>2. S = 0..Last
      <4>1. S \in SUBSET (0..Last)
        OBVIOUS
      <4>. HIDE DEF S
      <4>. QED BY <1>1, <3>1, <4>1, Downward
    <3>. QED BY <1>1, <3>2
  <2>. HIDE DEF c
  <2>4. 0 <= c /\ c < Last + 1
    BY <1>1, <1>4
  <2>. QED BY <1>4, <2>2, <2>3, <2>4 DEF c
<1>6. n < k
  <2>. HIDE DEF c
  <2>. QED BY <1>1, <1>4, <1>5
<1>7. ASSUME ends[n] # 0 PROVE k < ends[n]
  <2>. DEFINE e == ends[n]
  <2>1. e \in Nat /\ n < e /\ c < e
    <3>1. n < e
      BY <1>3, <1>7 DEF TreeInv
    <3>2. c < e
      BY <1>1, <1>3, <1>4, <1>7, <3>1 DEF TreeInv
    <3>. QED BY <1>1, <1>2, <3>1, <3>2
  <2>2. ASSUME NEW m \in Node, n <= m, m < e, NEW d \in Children(m)
        PROVE  m < d /\ d < e
    BY <1>3, <1>7, <2>2 DEF TreeInv
  <2>. HIDE DEF e
  <2>3. \A m \in Node : n <= m /\ m < e => \A q \in Under[m] : m <= q /\ q < e
    <3>1. n \in Nat
      BY <1>1
    <3>. QED BY <2>1, <2>2, <3>1, UnderWithin
  <2>4. n <= c
    BY <1>1, <1>4
  <2>. QED BY <1>4, <2>1, <2>3, <2>4 DEF e, c
<1>8. \A j \in 1..(i - 1) : kids[n][j] < kids[n][i]
  <2>1. \A j \in 1..(i - 1) : j \in DOMAIN kids[n] /\ j < i
    BY <1>2
  <2>. QED BY <1>3, <2>1 DEF TreeInv
<1>9. ASSUME i < Len(kids[n]) PROVE k < kids[n][i + 1]
  <2>. DEFINE d == kids[n][i + 1]
  <2>1. i + 1 \in DOMAIN kids[n] /\ i < i + 1
    BY <1>2, <1>9
  <2>2. d \in Children(n) /\ c < d
    BY <1>3, <2>1 DEF Children, TreeInv
  <2>3. d \in Nat
    BY <1>1, <1>2, <2>2
  <2>4. ASSUME NEW m \in Node, n + 1 <= m, m < d, NEW b \in Children(m)
        PROVE  m < b /\ b < d
    <3>1. n < m
      BY <1>1, <2>4
    <3>. QED BY <1>3, <2>2, <2>4, <3>1 DEF TreeInv
  <2>. HIDE DEF d
  <2>5. \A m \in Node : n + 1 <= m /\ m < d => \A q \in Under[m] : m <= q /\ q < d
    <3>1. n + 1 \in Nat
      BY <1>1
    <3>. QED BY <2>3, <2>4, <3>1, UnderWithin
  <2>6. n + 1 <= c
    <3>. HIDE DEF c
    <3>. QED BY <1>1, <1>4
  <2>. QED BY <1>4, <2>2, <2>5, <2>6 DEF d, c
<1>. QED BY <1>6, <1>7, <1>8, <1>9

\* Whatever the tokens, what addChild appends is in the order of the source: what
\* is under a node starts after it, before the token it ended at, and before the
\* sibling that follows.
THEOREM TreeOrdered == Spec => []TreeInOrder
<1>1. Init => OrderInv
  BY OrderInit
<1>2. IInv /\ OrderInv /\ [Next]_vars => OrderInv'
  BY OrderStep
<1>3. IInv /\ OrderInv => TreeInOrder
  BY InOrder
<1>. QED BY <1>1, <1>2, <1>3, Invariance, PTL DEF Spec

(***************************************************************************)
(* No statement is lost                                                    *)
(***************************************************************************)

Linked(p) == \E n \in Node : p \in Children(n)

\* What begins at p is a node of the tree, wherever it is.
Kept(p) ==
  \/ TypeAt(p) \in {"TYPE", "IF", "FOR", "WHILE", "BREAK", "RETURN"}
  \/ TypeAt(p) = "DO" /\ ~TypeBody(p)

\* What has begun is being built, or being returned, or has a parent; and so is
\* and has what has children.
KeptInv ==
  KeywordsSeen =>
    /\ Running =>
         /\ \A p \in 1..(pos - 1) : Kept(p) => Held(p) \/ Linked(p)
         /\ \A n \in Node : Children(n) # {} => Held(n) \/ Linked(n)
    /\ mode = "done" =>
         /\ \A p \in 1..(ends[0] - 1) : Kept(p) => Linked(p)
         /\ \A n \in Node : Children(n) # {} => n = 0 \/ Linked(n)

\* A token of which something is said only depends on the tokens.
LEMMA KeptTokens ==
  ASSUME input' = input
  PROVE  /\ Node' = Node /\ KeywordsSeen' = KeywordsSeen /\ \A p : Kept(p)' = Kept(p)
         /\ \A p : TypeAt(p)' = TypeAt(p) /\ TypeBody(p)' = TypeBody(p) /\ IfBody(p)' = IfBody(p)
<1>1. Last' = Last /\ Node' = Node /\ \A p : TypeAt(p)' = TypeAt(p) /\ CommaAt(p)' = CommaAt(p)
  BY DEF Last, Node, TypeAt, CommaAt
<1>2. \A p : TypeBody(p)' = TypeBody(p) /\ IfBody(p)' = IfBody(p)
  BY <1>1 DEF TypeBody, IfBody, Follows
<1>3. \A p : Foreigner(p)' = Foreigner(p)
  BY <1>1 DEF Foreigner
<1>4. \A p : Unseen(p)' = Unseen(p)
  BY <1>1, <1>3 DEF Unseen
<1>5. KeywordsSeen' = KeywordsSeen
  BY <1>1, <1>4 DEF KeywordsSeen
<1>6. \A p : Kept(p)' = Kept(p)
  BY <1>1, <1>2 DEF Kept
<1>. QED BY <1>1, <1>2, <1>5, <1>6

\* Tokens without keywords begin nothing that has to be kept.
LEMMA QuietKept ==
  ASSUME NEW p, NEW q, Quiet(p, q)
  PROVE  \A i \in p..(q - 1) : ~Kept(i)
BY DEF Quiet, Kept, Keywords

\* Where a number in a stretch may be.
LEMMA Cut ==
  /\ \A a, b \in Nat : \A p \in 1..(b - 1) : p \in 1..(a - 1) \/ p \in a..(b - 1)
  /\ \A a, b, c \in Nat : \A p \in a..(b - 1) : p \in a..(c - 1) \/ p = c \/ p \in (c + 1)..(b - 1)
  /\ \A a, b \in Nat : \A p \in a..(b - 1) : p = a \/ p \in (a + 1)..((b - 1) - 1) \/ p = b - 1
  /\ \A a, b, c \in Nat : \A p \in a..(b - 1) :
       p \in a..(c - 1) \/ p = c \/ p \in (c + 1)..((b - 1) - 1) \/ p = b - 1
  /\ \A a, b \in Nat : b <= a => \A p \in 1..(b - 1) : p \in 1..(a - 1)
  /\ \A a, b \in Nat : b <= a + 1 => \A p \in 1..(b - 1) : p \in 1..(a - 1) \/ p = a
OBVIOUS

\* A step that goes on, where what begins is held.
LEMMA KeptOn ==
  ASSUME IInv, KeptInv, mode \in {"block", "body", "else"}, mode' # "done",
         UNCHANGED <<input, kids>>, pos' \in pos..Last,
         \A n : Standing(n) => Held(n)',
         KeywordsSeen => \A p \in pos..(pos' - 1) : Kept(p) => Held(p)'
  PROVE  KeptInv'
<1>1. Running /\ mode # "return"
  BY DEF Running
<1>2. pos \in Nat /\ Last \in Nat /\ pos' \in Nat
  <2>1. pos \in Nat /\ Last \in Nat
    BY <1>1, TopFacts
  <2>. QED BY <2>1
<1>3. /\ Node' = Node /\ KeywordsSeen' = KeywordsSeen /\ \A p : Kept(p)' = Kept(p)
      /\ \A n : Children(n)' = Children(n)
  BY KeptTokens DEF Children
<1>4. \A p : Linked(p) <=> Linked(p)'
  BY <1>3 DEF Linked
<1>5. \A p : Held(p) => Held(p)'
  BY <1>1 DEF Held
<1>. SUFFICES ASSUME KeywordsSeen
              PROVE  /\ \A p \in 1..(pos' - 1) : Kept(p) => Held(p)' \/ Linked(p)
                     /\ \A n \in Node : Children(n) # {} => Held(n)' \/ Linked(n)
  BY <1>3, <1>4 DEF KeptInv
<1>6. /\ \A p \in 1..(pos - 1) : Kept(p) => Held(p) \/ Linked(p)
      /\ \A n \in Node : Children(n) # {} => Held(n) \/ Linked(n)
  BY <1>1 DEF KeptInv
<1>7. \A p \in 1..(pos' - 1) : p \in 1..(pos - 1) \/ p \in pos..(pos' - 1)
  BY <1>2, Cut
<1>. QED BY <1>5, <1>6, <1>7

\* Reading a statement in one step loses none.
LEMMA KeptReading ==
  ASSUME IInv, KeptInv, Reading
  PROVE  KeptInv'
<1>1. /\ mode \in {"block", "body"} /\ mode' = "return" /\ UNCHANGED <<input, kids, ends, stack>>
      /\ val' \in pos..Last /\ pos' \in (val' + 1)..Last
      /\ KeywordsSeen => Quiet(pos, val') /\ Quiet(val' + 1, pos')
  BY DEF Reading
<1>2. pos \in Nat /\ Last \in Nat
  <2>1. Running
    BY <1>1 DEF Running
  <2>. QED BY <2>1, TopFacts
<1>3. val' \in Nat /\ pos' \in pos..Last /\ pos' \in Nat
  <2>1. \A v \in pos..Last : v \in Nat /\ \A p \in (v + 1)..Last : p \in pos..Last /\ p \in Nat
    BY <1>2
  <2>. QED BY <1>1, <2>1
<1>4. \A n : Standing(n) => Held(n)'
  BY <1>1 DEF Standing, Held
<1>5. ASSUME KeywordsSeen, NEW p \in pos..(pos' - 1), Kept(p)
      PROVE  Held(p)'
  <2>1. p \in pos..(val' - 1) \/ p \in (val' + 1)..(pos' - 1) \/ p = val'
    BY <1>2, <1>3, Cut
  <2>2. p = val'
    BY <1>1, <1>5, <2>1, QuietKept
  <2>. QED BY <1>1, <2>2 DEF Held
<1>. QED BY <1>1, <1>3, <1>4, <1>5, KeptOn

\* Opening a block or a body loses no statement.
LEMMA KeptOpening ==
  ASSUME IInv, KeptInv, Opening
  PROVE  KeptInv'
<1>. DEFINE L == Len(stack)
<1>1. /\ mode \in {"block", "body", "else"} /\ mode' = "block" /\ UNCHANGED <<input, kids, ends, val>>
      /\ pos' \in (pos + 1)..Last
  BY DEF Opening
<1>2. pos \in Nat /\ Last \in Nat /\ L \in Nat \ {0} /\ pos' \in pos..Last /\ pos' \in Nat
  <2>1. Running
    BY <1>1 DEF Running
  <2>2. pos \in Nat /\ Last \in Nat /\ L \in Nat \ {0}
    BY <2>1, TopFacts
  <2>. QED BY <1>1, <2>2
<1>3. /\ Len(stack') \in {L + 1, L + 2}
      /\ \A i \in 1..L : stack'[i].node = stack[i].node
      /\ stack'[Len(stack')].node = pos' - 1
      /\ Len(stack') = L + 1 => pos' = pos + 1
      /\ Len(stack') = L + 2 => Heads(stack'[L + 1], stack'[L + 2])
  BY Opened
<1>4. \A i \in 1..Len(stack') : \A n : n = stack'[i].node => Held(n)'
  BY DEF Held, Standing
<1>. HIDE DEF L
<1>5. \A i \in 1..L : i \in 1..Len(stack')
  BY <1>2, <1>3
<1>6. Len(stack') \in 1..Len(stack') /\ (Len(stack') = L + 2 => L + 1 \in 1..Len(stack'))
  BY <1>2, <1>3
<1>7. \A n : Standing(n) => Held(n)'
  BY <1>3, <1>4, <1>5 DEF Standing, L
<1>8. ASSUME KeywordsSeen, NEW p \in pos..(pos' - 1), Kept(p)
      PROVE  Held(p)'
  <2>1. CASE Len(stack') = L + 1
    <3>1. p = pos' - 1
      BY <1>2, <1>3, <2>1
    <3>. QED BY <1>3, <1>4, <1>6, <3>1
  <2>2. CASE Len(stack') = L + 2
    <3>. DEFINE h == stack'[L + 1].node
    <3>1. /\ stack'[L + 2].node = pos' - 1
          /\ h \in pos..((pos' - 1) - 1) /\ Quiet(pos, h) /\ Quiet(h + 1, pos' - 1)
      BY <1>3, <1>8, <2>2 DEF Heads
    <3>2. \A n : n = h \/ n = pos' - 1 => Held(n)'
      BY <1>3, <1>4, <1>6, <2>2
    <3>. HIDE DEF h
    <3>3. p \in pos..(h - 1) \/ p = h \/ p \in (h + 1)..((pos' - 1) - 1) \/ p = pos' - 1
      <4>1. \A a, c \in Nat : \A b \in (a + 1)..c : b - 1 \in Nat
        OBVIOUS
      <4>2. pos' - 1 \in Nat
        BY <1>1, <1>2, <4>1
      <4>3. h \in Nat
        <5>1. \A a \in Nat : \A b \in Int : \A k \in a..b : k \in Nat
          OBVIOUS
        <5>2. (pos' - 1) - 1 \in Int
          BY <4>2
        <5>. QED BY <1>2, <3>1, <5>1, <5>2
      <4>. QED BY <1>2, <4>3, Cut
    <3>4. p \notin pos..(h - 1) /\ p \notin (h + 1)..((pos' - 1) - 1)
      BY <1>8, <3>1, QuietKept
    <3>. QED BY <3>2, <3>3, <3>4
  <2>. QED BY <1>3, <2>1, <2>2
<1>. QED BY <1>1, <1>2, <1>7, <1>8, KeptOn

\* Entering the body of a type loses no statement.
LEMMA KeptEntering ==
  ASSUME IInv, KeptInv, Entering
  PROVE  KeptInv'
<1>. DEFINE L == Len(stack)
<1>1. /\ mode = "block" /\ mode' = "body" /\ UNCHANGED <<input, kids, ends, val>>
      /\ pos' \in (pos + 2)..Last /\ TypeAt(pos' - 1) = "DO" /\ TypeBody(pos' - 1)
      /\ Quiet(pos + 1, pos' - 1)
  BY DEF Entering
<1>2. pos \in Nat /\ Last \in Nat /\ L \in Nat \ {0}
  <2>1. Running
    BY <1>1 DEF Running
  <2>. QED BY <2>1, TopFacts
<1>3. pos' \in pos..Last /\ pos' \in Nat
  <2>1. \A a, b \in Nat : \A c \in (a + 2)..b : c \in a..b /\ c \in Nat
    OBVIOUS
  <2>. QED BY <1>1, <1>2, <2>1
<1>4. /\ Len(stack') = L + 1 /\ \A i \in 1..L : stack'[i] = stack[i]
      /\ stack'[Len(stack')].node = pos
  BY Entered
<1>5. \A i \in 1..Len(stack') : \A n : n = stack'[i].node => Held(n)'
  BY DEF Held, Standing
<1>. HIDE DEF L
<1>6. Len(stack') \in 1..Len(stack') /\ \A i \in 1..L : i \in 1..Len(stack')
  BY <1>2, <1>4
<1>7. \A n : Standing(n) => Held(n)'
  BY <1>4, <1>5, <1>6 DEF Standing, L
<1>8. ASSUME KeywordsSeen, NEW p \in pos..(pos' - 1), Kept(p)
      PROVE  Held(p)'
  <2>1. p = pos \/ p \in (pos + 1)..((pos' - 1) - 1) \/ p = pos' - 1
    BY <1>2, <1>3, Cut
  <2>2. ~Kept(pos' - 1)
    BY <1>1 DEF Kept
  <2>3. p = pos
    BY <1>1, <1>8, <2>1, <2>2, QuietKept
  <2>. QED BY <1>4, <1>5, <1>6, <2>3
<1>. QED BY <1>1, <1>3, <1>7, <1>8, KeptOn

\* What was returned has a parent, which is still there.
LEMMA KeptLinking ==
  ASSUME IInv, KeptInv, Staying \/ Leaving
  PROVE  KeptInv'
<1>1. /\ mode = "return" /\ Running /\ UNCHANGED <<input, ends>> /\ Add(Top.node, val)
      /\ mode' # "done"
  BY DEF Staying, Leaving, Running
<1>2. pos \in Nat /\ Top.node \in Node
  BY <1>1, TopFacts
<1>3. Node' = Node /\ KeywordsSeen' = KeywordsSeen /\ \A p : Kept(p)' = Kept(p)
  BY <1>1, KeptTokens
<1>4. \A n \in Node : Children(n)' = IF n = Top.node THEN Children(n) \cup {val} ELSE Children(n)
  BY <1>1, Added
<1>5. \A p : Linked(p) => Linked(p)'
  <2>1. \A n \in Node : Children(n) \subseteq Children(n)'
    BY <1>4
  <2>. QED BY <1>3, <2>1 DEF Linked
<1>6. \A p : p = val => Linked(p)'
  <2>1. \A t \in Node : t = Top.node => val \in Children(t)'
    BY <1>4
  <2>. QED BY <1>2, <1>3, <2>1 DEF Linked
<1>7. (\A n : Standing(n) => Held(n)') /\ pos' \in Nat /\ pos' <= pos
  <2>1. CASE Staying
    BY <1>2, <2>1 DEF Staying, Standing, Held
  <2>2. CASE Leaving
    <3>1. stack' = Rest /\ val' = Top.node /\ mode' = "return" /\ pos' \in {pos, pos - 1}
      BY <2>2 DEF Leaving
    <3>2. \A n : Standing(n) => Standing(n)' \/ n = Top.node
      BY <1>1, <3>1, RestStands
    <3>3. pos # 0
      BY <1>1, TopFacts
    <3>. QED BY <1>2, <3>1, <3>2, <3>3 DEF Held
  <2>. QED BY <2>1, <2>2
<1>8. \A p : Held(p) => Held(p)' \/ Linked(p)'
  BY <1>6, <1>7 DEF Held
<1>9. Standing(Top.node)
  BY <1>1, Stands
<1>. SUFFICES ASSUME KeywordsSeen
              PROVE  /\ \A p \in 1..(pos' - 1) : Kept(p) => Held(p)' \/ Linked(p)'
                     /\ \A n \in Node : Children(n)' # {} => Held(n)' \/ Linked(n)'
  BY <1>1, <1>3 DEF KeptInv
<1>10. /\ \A p \in 1..(pos - 1) : Kept(p) => Held(p) \/ Linked(p)
       /\ \A n \in Node : Children(n) # {} => Held(n) \/ Linked(n)
  BY <1>1 DEF KeptInv
<1>11. \A p \in 1..(pos' - 1) : p \in 1..(pos - 1)
  BY <1>2, <1>7, Cut
<1>12. \A n \in Node : Children(n)' # {} => Children(n) # {} \/ n = Top.node
  BY <1>4
<1>. QED BY <1>5, <1>7, <1>8, <1>9, <1>10, <1>11, <1>12

\* Closing a block or a body loses no statement.
LEMMA KeptClosing ==
  ASSUME IInv, KeptInv, Closing
  PROVE  KeptInv'
<1>1. /\ mode \in {"block", "body"} /\ UNCHANGED <<input, kids>> /\ Running /\ mode # "return"
      /\ ends' = [ends EXCEPT ![Top.node] = pos] /\ stack' = Rest /\ val' = Top.node
      /\ pos' \in {pos, SkipFrom(pos)} /\ TypeAt(pos) \in {"END", "ELSE", "FILE_END"}
      /\ mode' = "return" \/ (mode' = "done" /\ Top.node = 0)
  BY DEF Closing, AtBlockEnd, Running
<1>2. pos \in Nat /\ Top.node \in Node /\ Node = 0..Last /\ ends \in [Node -> Node]
  BY <1>1, TopFacts, LinkFacts
<1>3. /\ Node' = Node /\ KeywordsSeen' = KeywordsSeen /\ \A p : Kept(p)' = Kept(p)
      /\ \A n : Children(n)' = Children(n)
  BY <1>1, KeptTokens DEF Children
<1>4. \A p : Linked(p) <=> Linked(p)'
  BY <1>3 DEF Linked
<1>5. \A n : Held(n) => Standing(n)' \/ n = Top.node
  BY <1>1, RestStands DEF Held
<1>6. pos' \in Nat /\ pos' <= pos + 1
  <2>1. Last \in Nat /\ pos <= Last
    BY <1>1, TopFacts
  <2>2. SkipFrom(pos) \in Nat /\ SkipFrom(pos) <= pos + 1
    BY <1>2, <2>1 DEF SkipFrom
  <2>. QED BY <1>1, <1>2, <2>2
<1>7. ~Kept(pos)
  BY <1>1 DEF Kept
<1>. SUFFICES ASSUME KeywordsSeen
              PROVE  /\ mode' = "return" =>
                          /\ \A p \in 1..(pos' - 1) : Kept(p) => Held(p)' \/ Linked(p)
                          /\ \A n \in Node : Children(n) # {} => Held(n)' \/ Linked(n)
                     /\ mode' = "done" =>
                          /\ \A p \in 1..(ends'[0] - 1) : Kept(p) => Linked(p)
                          /\ \A n \in Node : Children(n) # {} => n = 0 \/ Linked(n)
  BY <1>1, <1>3, <1>4 DEF KeptInv, Running
<1>8. /\ \A p \in 1..(pos - 1) : Kept(p) => Held(p) \/ Linked(p)
      /\ \A n \in Node : Children(n) # {} => Held(n) \/ Linked(n)
  BY <1>1 DEF KeptInv
<1>9. CASE mode' = "return"
  <2>1. \A p \in 1..(pos' - 1) : p \in 1..(pos - 1) \/ p = pos
    BY <1>2, <1>6, Cut
  <2>2. \A n : Held(n) => Held(n)'
    BY <1>1, <1>5, <1>9 DEF Held
  <2>. QED BY <1>7, <1>8, <1>9, <2>1, <2>2
<1>10. CASE mode' = "done"
  <2>1. Top.node = 0 /\ ends'[0] = pos
    BY <1>1, <1>2, <1>10
  <2>2. \A n \in Nat : Held(n) => n = 0
    <3>1. \A n : Standing(n) => n <= Top.node
      BY <1>1, Stands
    <3>. QED BY <1>1, <2>1, <3>1 DEF Held
  <2>3. (\A p \in 1..(pos - 1) : p \in Nat /\ p # 0) /\ \A n \in Node : n \in Nat
    BY <1>2
  <2>. QED BY <1>8, <1>10, <2>1, <2>2, <2>3
<1>. QED BY <1>1, <1>9, <1>10

\* Nothing is lost by a step, and at the beginning there is nothing yet.
LEMMA KeptStep ==
  ASSUME IInv, KeptInv, [Next]_vars
  PROVE  KeptInv'
<1>1. CASE Failing
  <2>1. ~Running' /\ mode' # "done"
    BY <1>1 DEF Failing, Running, Failures
  <2>. QED BY <2>1 DEF KeptInv
<1>2. CASE Next
  BY <1>1, <1>2, NextShape, KeptReading, KeptOpening, KeptEntering, KeptLinking, KeptClosing DEF Shaped
<1>3. CASE UNCHANGED vars
  <2>1. UNCHANGED <<input, pos, kids, ends, stack, val, mode>>
    BY <1>3 DEF vars
  <2>2. /\ Node' = Node /\ KeywordsSeen' = KeywordsSeen /\ \A p : Kept(p)' = Kept(p)
        /\ \A n : Children(n)' = Children(n)
    BY <2>1, KeptTokens DEF Children
  <2>3. \A n : (Held(n)' <=> Held(n)) /\ (Linked(n)' <=> Linked(n))
    BY <2>1, <2>2 DEF Standing, Held, Linked
  <2>4. Running' <=> Running
    BY <2>1 DEF Running
  <2>. QED BY <2>1, <2>2, <2>3, <2>4 DEF KeptInv
<1>. QED BY <1>2, <1>3

\* Before the first token there is nothing to lose.
LEMMA KeptInit ==
  ASSUME Init
  PROVE  KeptInv
<1>1. \A n \in Node : Children(n) = {}
  <2>1. \A n \in Node : kids[n] = <<>>
    BY DEF Init, Node, Last
  <2>. QED BY <2>1 DEF Children
<1>2. pos = 1 /\ mode = "block"
  BY DEF Init
<1>3. 1..(pos - 1) = {}
  BY <1>2
<1>. QED BY <1>1, <1>2, <1>3 DEF KeptInv

\* The children of what is under a node are under it too.
LEMMA UnderClosed ==
  ASSUME IInv, OrderInv, NEW m \in Node, NEW p \in Children(m)
  PROVE  \A n \in Node : m \in Under[n] => p \in Under[n]
<1>1. Last \in Nat /\ Node = 0..Last
  BY Tokens DEF IInv, Node
<1>2. \A n \in Node : \A c \in Children(n) : c \in Node /\ n < c
  BY LinkFacts DEF OrderInv, TreeInv
<1>3. \A n \in Node : Under[n] = {n} \cup UNION {Under[c] : c \in Children(n)}
  BY UnderDefined
<1>. DEFINE S == {n \in 0..Last : m \in Under[n] => p \in Under[n]}
<1>4. ASSUME NEW n \in 0..Last, (n + 1)..Last \subseteq S PROVE n \in S
  <2>. SUFFICES ASSUME m \in Under[n] PROVE p \in Under[n]
    OBVIOUS
  <2>1. Under[n] = {n} \cup UNION {Under[c] : c \in Children(n)}
    BY <1>1, <1>3
  <2>2. CASE m = n
    <3>1. p \in Under[p]
      BY <1>2, <1>3
    <3>. QED BY <2>1, <2>2, <3>1
  <2>3. ASSUME NEW c \in Children(n), m \in Under[c] PROVE p \in Under[n]
    <3>1. c \in (n + 1)..Last
      <4>1. c \in 0..Last /\ n < c
        BY <1>1, <1>2
      <4>. QED BY <1>1, <4>1
    <3>2. p \in Under[c]
      BY <1>4, <2>3, <3>1
    <3>. QED BY <2>1, <3>2
  <2>. QED BY <2>1, <2>2, <2>3
<1>5. S = 0..Last
  <2>1. S \in SUBSET (0..Last)
    OBVIOUS
  <2>. HIDE DEF S
  <2>. QED BY <1>1, <1>4, <2>1, Downward
<1>. QED BY <1>1, <1>5

\* In the end what has a parent is under the root block.
LEMMA AllKept ==
  ASSUME IInv, OrderInv, KeptInv
  PROVE  StatementsKept
<1>. SUFFICES ASSUME mode = "done", KeywordsSeen PROVE \A p \in 1..(ends[0] - 1) : Kept(p) => p \in Under[0]
  BY DEF StatementsKept, Kept
<1>1. Last \in Nat /\ Node = 0..Last /\ 0 \in Node
  BY Tokens DEF IInv, Node
<1>2. \A n \in Node : \A c \in Children(n) : c \in Node /\ n < c
  BY LinkFacts DEF OrderInv, TreeInv
<1>3. /\ \A p \in 1..(ends[0] - 1) : Kept(p) => Linked(p)
      /\ \A n \in Node : Children(n) # {} => n = 0 \/ Linked(n)
  BY DEF KeptInv
<1>. DEFINE S == {p \in 0..Last : p = 0 \/ Linked(p) => p \in Under[0]}
<1>4. ASSUME NEW p \in 0..Last, 0..(p - 1) \subseteq S PROVE p \in S
  <2>1. CASE p = 0
    <3>1. Under[0] = {0} \cup UNION {Under[c] : c \in Children(0)}
      BY <1>1, UnderDefined
    <3>. QED BY <2>1, <3>1
  <2>2. CASE Linked(p)
    <3>1. PICK m \in Node : p \in Children(m)
      BY <2>2 DEF Linked
    <3>2. m \in 0..(p - 1)
      BY <1>1, <1>2, <3>1
    <3>3. m = 0 \/ Linked(m)
      BY <1>3, <3>1
    <3>4. m \in Under[0]
      BY <1>4, <3>2, <3>3
    <3>5. p \in Under[0]
      BY <1>1, <3>1, <3>4, UnderClosed
    <3>. QED BY <3>5
  <2>. QED BY <2>1, <2>2
<1>5. S = 0..Last
  <2>1. S \in SUBSET (0..Last)
    OBVIOUS
  <2>. HIDE DEF S
  <2>. QED BY <1>1, <1>4, <2>1, SetInduction
<1>6. \A p : Linked(p) => p \in 0..Last
  BY <1>1, <1>2 DEF Linked
<1>. QED BY <1>3, <1>5, <1>6

\* Whatever the tokens, as long as no keyword stands where getSigArgs or function
\* skip a token unseen: every type, if, loop, block, break and return up to where
\* the root block ended is a node under it, from however deep it was returned.
THEOREM NothingLost == Spec => []StatementsKept
<1>1. Init => OrderInv /\ KeptInv
  BY OrderInit, KeptInit
<1>2. IInv /\ OrderInv /\ KeptInv /\ [Next]_vars => OrderInv' /\ KeptInv'
  BY OrderStep, KeptStep
<1>3. IInv /\ OrderInv /\ KeptInv => StatementsKept
  BY AllKept
<1>. QED BY <1>1, <1>2, <1>3, Invariance, PTL DEF Spec

(***************************************************************************)
(* Levels                                                                  *)
(***************************************************************************)

\* How many elements of a set of tokens there are in a stretch.
Count(S, b, e) == Cardinality({p \in S : b < p /\ p <= e})

\* A stretch counts what its two parts count; a stretch of one token counts it or not.
LEMMA Counted ==
  ASSUME NEW n \in Nat, NEW S \in SUBSET (1..n), NEW b \in 0..n, NEW e \in b..n
  PROVE  /\ Count(S, 0, e) \in Nat /\ Count(S, 0, b) \in Nat /\ Count(S, b, e) \in Nat
         /\ Count(S, 0, e) = Count(S, 0, b) + Count(S, b, e)
         /\ (\A i \in (b + 1)..e : i \notin S) => Count(S, b, e) = 0
         /\ e = b + 1 => Count(S, b, e) = IF e \in S THEN 1 ELSE 0
<1>. DEFINE A == {p \in S : 0 < p /\ p <= b}
            B == {p \in S : b < p /\ p <= e}
            C == {p \in S : 0 < p /\ p <= e}
<1>0. (\A p \in S : p \in Nat /\ 0 < p) /\ b \in Nat /\ e \in Nat /\ b <= e
  OBVIOUS
<1>1. C = A \cup B /\ A \cap B = {}
  <2>1. \A p \in S : (0 < p /\ p <= e) <=> (0 < p /\ p <= b) \/ (b < p /\ p <= e)
    BY <1>0
  <2>2. \A p \in S : ~((0 < p /\ p <= b) /\ (b < p /\ p <= e))
    BY <1>0
  <2>. QED BY <2>1, <2>2
<1>2. IsFiniteSet(S)
  <2>1. IsFiniteSet(1..n)
    BY FS_Interval
  <2>. QED BY <2>1, FS_Subset
<1>3. IsFiniteSet(A) /\ IsFiniteSet(B)
  <2>1. A \in SUBSET S /\ B \in SUBSET S
    OBVIOUS
  <2>. HIDE DEF A, B
  <2>. QED BY <1>2, <2>1, FS_Subset
<1>4. (\A i \in (b + 1)..e : i \notin S) => B = {}
  <2>1. \A p \in S : b < p /\ p <= e => p \in (b + 1)..e
    BY <1>0
  <2>. QED BY <2>1
<1>5. e = b + 1 => B = IF e \in S THEN {e} ELSE {}
  <2>1. e = b + 1 => \A p \in S : b < p /\ p <= e <=> p = e
    BY <1>0
  <2>. QED BY <2>1
<1>. HIDE DEF A, B, C
<1>6. Cardinality({}) = 0 /\ Cardinality({e}) = 1 /\ Cardinality(A) \in Nat /\ Cardinality(B) \in Nat
  BY <1>3, FS_EmptySet, FS_Singleton, FS_CardinalityType
<1>7. Cardinality(C) = Cardinality(A) + Cardinality(B)
  <2>1. Cardinality(A \cup B) = Cardinality(A) + Cardinality(B) - Cardinality(A \cap B)
    BY <1>3, FS_Union
  <2>2. Cardinality(A \cap B) = 0
    BY <1>1, <1>6
  <2>3. Cardinality(C) = Cardinality(A \cup B)
    BY <1>1
  <2>. QED BY <1>6, <2>1, <2>2, <2>3
<1>8. (\A i \in (b + 1)..e : i \notin S) => Cardinality(B) = 0
  BY <1>4, <1>6
<1>9. e = b + 1 => Cardinality(B) = IF e \in S THEN 1 ELSE 0
  BY <1>5, <1>6
<1>10. Count(S, 0, b) = Cardinality(A) /\ Count(S, b, e) = Cardinality(B) /\ Count(S, 0, e) = Cardinality(C)
  BY DEF A, B, C, Count
<1>. QED BY <1>6, <1>7, <1>8, <1>9, <1>10

\* The level from the beginning.
Lv == [p \in Node |-> Level(0, p)]

\* Levels add up: from b to e the level rises by the openers and falls by the closers between.
LEMMA Levels ==
  ASSUME input \in Inputs, NEW b \in Node, NEW e \in b..Last
  PROVE  /\ Lv[b] \in Int /\ Lv[e] \in Int
         /\ Level(b, e) = Lv[e] - Lv[b]
         /\ (\A i \in (b + 1)..e : i \notin Openers /\ i \notin Closers) => Lv[e] = Lv[b]
         /\ e = b + 1 =>
              Lv[e] = Lv[b] + (IF e \in Openers THEN 1 ELSE 0) - (IF e \in Closers THEN 1 ELSE 0)
<1>1. Last \in Nat /\ b \in 0..Last
  BY Tokens DEF Node
<1>2. Openers \in SUBSET (1..Last) /\ Closers \in SUBSET (1..Last)
  BY DEF Openers, Closers
<1>3. \A S \in SUBSET (1..Last) :
        /\ Count(S, 0, e) \in Nat /\ Count(S, 0, b) \in Nat /\ Count(S, b, e) \in Nat
        /\ Count(S, 0, e) = Count(S, 0, b) + Count(S, b, e)
        /\ (\A i \in (b + 1)..e : i \notin S) => Count(S, b, e) = 0
        /\ e = b + 1 => Count(S, b, e) = IF e \in S THEN 1 ELSE 0
  BY <1>1, Counted
<1>4. \A x, y : Level(x, y) = Count(Openers, x, y) - Count(Closers, x, y)
  BY DEF Level, Count
<1>5. /\ Lv[b] = Count(Openers, 0, b) - Count(Closers, 0, b)
      /\ Lv[e] = Count(Openers, 0, e) - Count(Closers, 0, e)
  <2>1. b \in Node /\ e \in Node
    BY <1>1 DEF Node
  <2>. QED BY <1>4, <2>1 DEF Lv
<1>6. Lv[b] \in Int /\ Lv[e] \in Int /\ Level(b, e) = Lv[e] - Lv[b]
  BY <1>2, <1>3, <1>4, <1>5
<1>7. (\A i \in (b + 1)..e : i \notin Openers /\ i \notin Closers) => Lv[e] = Lv[b]
  BY <1>2, <1>3, <1>5
<1>8. e = b + 1 =>
        Lv[e] = Lv[b] + (IF e \in Openers THEN 1 ELSE 0) - (IF e \in Closers THEN 1 ELSE 0)
  BY <1>2, <1>3, <1>5
<1>. QED BY <1>6, <1>7, <1>8

\* A token that ends nothing, and begins nothing that has an 'end' of its own.
Flat(p) == TypeAt(p) # "END" /\ (TypeAt(p) = "DO" => ~Fresh(p))

\* What a token does to the level.
LEMMA LevelAt ==
  ASSUME input \in Inputs, NEW p \in 1..Last
  PROVE  /\ p - 1 \in Node /\ p \in Node /\ Lv[p - 1] \in Int /\ Lv[p] \in Int
         /\ TypeAt(p) = "END" => Lv[p] = Lv[p - 1] - 1
         /\ TypeAt(p) = "DO" /\ Fresh(p) => Lv[p] = Lv[p - 1] + 1
         /\ Flat(p) => Lv[p] = Lv[p - 1]
<1>1. Last \in Nat /\ p \in Nat
  BY Tokens
<1>2. p - 1 \in Node /\ p \in Node /\ p \in (p - 1)..Last /\ p = (p - 1) + 1
  BY <1>1 DEF Node
<1>3. /\ Lv[p - 1] \in Int /\ Lv[p] \in Int
      /\ Lv[p] = Lv[p - 1] + (IF p \in Openers THEN 1 ELSE 0) - (IF p \in Closers THEN 1 ELSE 0)
  BY <1>2, Levels
<1>4. (p \in Openers <=> TypeAt(p) = "DO" /\ Fresh(p)) /\ (p \in Closers <=> TypeAt(p) = "END")
  BY DEF Openers, Closers, Fresh
<1>. QED BY <1>2, <1>3, <1>4 DEF Flat

\* In a stretch of such tokens the level stays.
LEMMA FlatOn ==
  ASSUME input \in Inputs, NEW b \in Node, NEW e \in b..Last, \A i \in (b + 1)..e : Flat(i)
  PROVE  Lv[b] \in Int /\ \A i \in b..e : Lv[i] = Lv[b]
<1>1. Last \in Nat /\ b \in 0..Last
  BY Tokens DEF Node
<1>2. \A i \in (b + 1)..e : i \notin Openers /\ i \notin Closers
  <2>. SUFFICES ASSUME NEW i \in (b + 1)..e PROVE i \notin Openers /\ i \notin Closers
    OBVIOUS
  <2>1. Flat(i)
    OBVIOUS
  <2>. QED BY <2>1 DEF Flat, Fresh, Openers, Closers
<1>3. ASSUME NEW i \in b..e PROVE Lv[i] = Lv[b]
  <2>1. i \in b..Last /\ \A j \in (b + 1)..i : j \in (b + 1)..e
    BY <1>1
  <2>2. \A j \in (b + 1)..i : j \notin Openers /\ j \notin Closers
    BY <1>2, <2>1
  <2>. QED BY <2>1, <2>2, Levels
<1>4. Lv[b] \in Int
  BY Levels
<1>. QED BY <1>3, <1>4

\* Tokens without keywords are such.
LEMMA QuietFlat ==
  ASSUME NEW p, NEW q, Quiet(p, q)
  PROVE  \A i \in p..(q - 1) : Flat(i)
BY DEF Quiet, Flat, Keywords

\* The same, of the tokens from p to before q.
LEMMA FlatStretch ==
  ASSUME input \in Inputs, NEW p \in 1..Last, NEW q \in p..(Last + 1), \A i \in p..(q - 1) : Flat(i)
  PROVE  Lv[p - 1] \in Int /\ \A i \in (p - 1)..(q - 1) : Lv[i] = Lv[p - 1]
<1>1. Last \in Nat /\ p \in Nat
  BY Tokens
<1>2. p - 1 \in Node /\ q - 1 \in (p - 1)..Last /\ (p - 1) + 1 = p
  BY <1>1 DEF Node
<1>3. \A i \in ((p - 1) + 1)..(q - 1) : Flat(i)
  BY <1>2
<1>. QED BY <1>2, <1>3, FlatOn

\* The block b stopped at e, at its own level.
EndedAt(b, e) ==
  /\ \A p \in b..(e - 1) : Lv[p] >= Lv[b]
  /\ \/ TypeAt(e) = "END" /\ Lv[e] = Lv[b] - 1
     \/ TypeAt(e) = "ELSE" /\ IfBody(b) /\ Lv[e] = Lv[b]
     \/ TypeAt(e) = "FILE_END" /\ b = 0 /\ Lv[e] = Lv[b]

\* An invocation begins at the level of the one that made it.
MadeBy(f, g) ==
  /\ g.type = "IF_BLOCK" => f.kind = "if"
  /\ g.kind = "block" /\ f.kind # "if" => Fresh(g.node)
  /\ Lv[g.node - 1] = Lv[f.node]
Nested ==
  /\ stack[1].type = "ROOT_BLOCK"
  /\ \A i \in 1..(Len(stack) - 1) : \A f, g : f = stack[i] /\ g = stack[i + 1] => MadeBy(f, g)

\* The innermost one is at its own level again, and no level of one that waits
\* has been left.
Levelled ==
  /\ Lv[Cur - 1] = Lv[Top.node]
  /\ \A n : Standing(n) => \A p \in n..(Cur - 1) : Lv[p] >= Lv[n]
  /\ \A p : p = pos /\ TypeAt(p) = "DO" => Fresh(p)
LevelInv ==
  KeywordsSeen =>
    /\ \A b \in Node : \A e : ends[b] = e /\ e # 0 => EndedAt(b, e)
    /\ Running => Nested /\ Levelled

\* Levels depend on the tokens only.
LEMMA LevelTokens ==
  ASSUME input' = input
  PROVE  /\ Lv' = Lv /\ Node' = Node /\ KeywordsSeen' = KeywordsSeen
         /\ \A p : TypeAt(p)' = TypeAt(p) /\ Fresh(p)' = Fresh(p)
         /\ \A b, e : EndedAt(b, e)' = EndedAt(b, e)
         /\ \A f, g : MadeBy(f, g)' = MadeBy(f, g)
<1>1. Node' = Node /\ KeywordsSeen' = KeywordsSeen
  BY KeptTokens
<1>2. \A p : /\ TypeAt(p)' = TypeAt(p) /\ IfBody(p)' = IfBody(p) /\ TypeBody(p)' = TypeBody(p)
             /\ Fresh(p)' = Fresh(p)
  BY KeptTokens DEF Fresh
<1>3. Openers' = Openers /\ Closers' = Closers
  <2>1. Last' = Last
    BY SameTokens
  <2>. QED BY <1>2, <2>1 DEF Openers, Closers
<1>4. Lv' = Lv
  <2>1. \A p : Level(0, p)' = Level(0, p)
    BY <1>3 DEF Level
  <2>. QED BY <1>1, <2>1 DEF Lv
<1>5. \A b, e : EndedAt(b, e)' = EndedAt(b, e)
  BY <1>2, <1>4 DEF EndedAt
<1>6. \A f, g : MadeBy(f, g)' = MadeBy(f, g)
  BY <1>2, <1>4 DEF MadeBy
<1>. QED BY <1>1, <1>2, <1>4, <1>5, <1>6

\* A step that goes on over tokens at the level of the one before, up to the last.
LEMMA LevelledOn ==
  ASSUME IInv, Running, mode # "return", Levelled, input' = input,
         NEW q \in (pos + 1)..Last, pos' = q, Cur' = q,
         \A n : Standing(n)' => Standing(n) \/ n \in pos..(q - 1),
         \A p \in pos..(q - 2) : Lv[p] = Lv[pos - 1], Lv[q - 1] >= Lv[pos - 1],
         Lv[q - 1] = Lv[Top'.node],
         TypeAt(q) = "DO" => Fresh(q)
  PROVE  Levelled'
<1>1. /\ input \in Inputs /\ pos \in 1..Last /\ pos \in Nat /\ Last \in Nat /\ Cur = pos
      /\ \A n : Standing(n) => n \in Nat /\ n < pos
  <2>1. input \in Inputs /\ pos \in 1..Last /\ Last \in Nat
    BY TopFacts
  <2>. QED BY <2>1, Stands
<1>2. q \in Nat /\ pos < q /\ q <= Last
  BY <1>1
<1>3. \A p \in 0..Last : Lv[p] \in Int
  BY <1>1, Levels DEF Node
<1>4. \A p \in pos..(q - 1) : Lv[p] >= Lv[pos - 1]
  <2>. SUFFICES ASSUME NEW p \in pos..(q - 1) PROVE Lv[p] >= Lv[pos - 1]
    OBVIOUS
  <2>1. p \in pos..(q - 2) \/ p = q - 1
    BY <1>1, <1>2
  <2>2. Lv[pos - 1] \in Int
    BY <1>1, <1>3
  <2>. QED BY <2>1, <2>2
<1>5. ASSUME NEW n, Standing(n), NEW p \in n..(q - 1) PROVE Lv[p] >= Lv[n]
  <2>1. n \in Nat /\ n < pos /\ n \in 0..Last /\ pos - 1 \in n..(pos - 1) /\ pos - 1 \in 0..Last
    BY <1>1, <1>5
  <2>2. Lv[n] \in Int /\ Lv[pos - 1] \in Int /\ Lv[pos - 1] >= Lv[n]
    BY <1>1, <1>3, <1>5, <2>1 DEF Levelled
  <2>3. CASE p \in n..(pos - 1)
    BY <1>1, <1>5, <2>3 DEF Levelled
  <2>4. CASE p \in pos..(q - 1)
    <3>1. p \in 0..Last
      BY <1>1, <1>2, <2>4
    <3>. QED BY <1>3, <1>4, <2>2, <2>4, <3>1
  <2>5. p \in n..(pos - 1) \/ p \in pos..(q - 1)
    BY <1>1, <1>2, <2>1
  <2>. QED BY <2>3, <2>4, <2>5
<1>6. ASSUME NEW n \in pos..(q - 1), NEW p \in n..(q - 1) PROVE Lv[p] >= Lv[n]
  <2>1. Lv[pos - 1] \in Int /\ Lv[q - 1] \in Int
    BY <1>1, <1>2, <1>3
  <2>2. CASE n = q - 1
    <3>1. p = n
      BY <1>1, <1>2, <2>2
    <3>. QED BY <2>1, <2>2, <3>1
  <2>3. CASE n # q - 1
    <3>1. n \in pos..(q - 2) /\ p \in pos..(q - 1)
      BY <1>1, <1>2, <2>3
    <3>. QED BY <1>4, <3>1
  <2>. QED BY <2>2, <2>3
<1>7. Lv' = Lv /\ \A p : TypeAt(p)' = TypeAt(p) /\ Fresh(p)' = Fresh(p)
  BY LevelTokens
<1>8. Lv'[Cur' - 1] = Lv'[Top'.node]
  BY <1>7
<1>9. \A n : Standing(n)' => \A p \in n..(Cur' - 1) : Lv'[p] >= Lv'[n]
  BY <1>5, <1>6, <1>7
<1>10. \A p : p = pos' /\ TypeAt(p)' = "DO" => Fresh(p)'
  BY <1>7
<1>. QED BY <1>8, <1>9, <1>10 DEF Levelled

\* As long as no block ends.
LEMMA LevelSame ==
  ASSUME LevelInv, UNCHANGED <<input, ends>>, KeywordsSeen /\ Running' => Nested' /\ Levelled'
  PROVE  LevelInv'
<1>1. /\ Node' = Node /\ KeywordsSeen' = KeywordsSeen
      /\ \A b, e : EndedAt(b, e)' = EndedAt(b, e)
  BY LevelTokens
<1>. QED BY <1>1 DEF LevelInv

\* A statement read in one step leaves the level where it was.
LEMMA LevelReading ==
  ASSUME IInv, LevelInv, Reading
  PROVE  LevelInv'
<1>. SUFFICES ASSUME KeywordsSeen PROVE Nested' /\ Levelled'
  BY LevelSame DEF Reading
<1>1. /\ mode \in {"block", "body"} /\ mode # "return" /\ mode' = "return" /\ Running
      /\ UNCHANGED <<input, kids, ends, stack>>
      /\ val' \in pos..Last /\ pos' \in (val' + 1)..Last
      /\ Quiet(pos, val') /\ Quiet(val' + 1, pos')
      /\ TypeAt(val') \notin {"DO", "END"} /\ Fresh(pos')
  BY DEF Reading, Running
<1>2. /\ input \in Inputs /\ pos \in 1..Last /\ pos \in Nat /\ Last \in Nat
      /\ (mode = "block" => Top.kind = "block") /\ (mode = "body" => Top.kind = "type")
  BY <1>1, TopFacts DEF IInv, StackInv
<1>3. Nested /\ Levelled
  BY <1>1 DEF LevelInv
<1>4. Top' = Top /\ \A n : Standing(n)' <=> Standing(n)
  BY <1>1 DEF Top, Standing
<1>5. Cur' = pos' /\ Cur = pos
  BY <1>1, <1>2, <1>4 DEF Cur
<1>6. Nested'
  BY <1>1, <1>3, LevelTokens DEF Nested
<1>. DEFINE q == pos'
            v == val'
<1>7. v \in pos..Last /\ q \in (v + 1)..Last /\ Quiet(pos, v) /\ Quiet(v + 1, q) /\ Flat(v) /\ Fresh(q)
  BY <1>1 DEF Flat
<1>. HIDE DEF q, v
<1>8. v \in Nat /\ q \in Nat /\ q \in (pos + 1)..Last /\ q \in pos..(Last + 1)
  BY <1>2, <1>7
<1>9. \A i \in pos..(q - 1) : Flat(i)
  <2>. SUFFICES ASSUME NEW i \in pos..(q - 1) PROVE Flat(i)
    OBVIOUS
  <2>1. i \in pos..(v - 1) \/ i = v \/ i \in (v + 1)..(q - 1)
    BY <1>2, <1>8
  <2>. QED BY <1>7, <2>1, QuietFlat
<1>10. Lv[pos - 1] \in Int /\ \A i \in (pos - 1)..(q - 1) : Lv[i] = Lv[pos - 1]
  BY <1>2, <1>8, <1>9, FlatStretch
<1>11. Lv[q - 1] = Lv[pos - 1] /\ \A p \in pos..(q - 2) : Lv[p] = Lv[pos - 1]
  <2>1. q - 1 \in (pos - 1)..(q - 1) /\ \A p \in pos..(q - 2) : p \in (pos - 1)..(q - 1)
    BY <1>2, <1>8
  <2>. QED BY <1>10, <2>1
<1>12. Lv[q - 1] = Lv[Top'.node] /\ Lv[q - 1] >= Lv[pos - 1]
  BY <1>3, <1>4, <1>5, <1>10, <1>11 DEF Levelled
<1>13. pos' = q /\ Cur' = q
  BY <1>5 DEF q
<1>14. Levelled'
  BY <1>1, <1>3, <1>4, <1>7, <1>8, <1>11, <1>12, <1>13, LevelledOn
<1>. QED BY <1>6, <1>14

\* The levels where a block begins: the one before, up to its 'do'.
LEMMA OpenLevels ==
  ASSUME input \in Inputs, NEW p \in 1..Last, NEW h \in p..Last, NEW b \in (h + 1)..Last,
         Quiet(p, h), TypeAt(h) \notin {"DO", "END"}, Quiet(h + 1, b), TypeAt(b) = "DO"
  PROVE  /\ \A i \in (p - 1)..(b - 1) : Lv[i] = Lv[p - 1]
         /\ Lv[p - 1] \in Int /\ Lv[b] \in Int /\ Lv[b] >= Lv[p - 1]
<1>1. p \in Nat /\ Last \in Nat /\ h \in Nat /\ b \in Nat /\ b \in p..(Last + 1) /\ b \in 1..Last
  <2>1. p \in Nat /\ Last \in Nat
    BY Tokens
  <2>. QED BY <2>1
<1>2. \A i \in p..(b - 1) : Flat(i)
  <2>. SUFFICES ASSUME NEW i \in p..(b - 1) PROVE Flat(i)
    OBVIOUS
  <2>1. i \in p..(h - 1) \/ i = h \/ i \in (h + 1)..(b - 1)
    BY <1>1
  <2>2. Flat(h)
    BY DEF Flat
  <2>. QED BY <2>1, <2>2, QuietFlat
<1>3. Lv[p - 1] \in Int /\ \A i \in (p - 1)..(b - 1) : Lv[i] = Lv[p - 1]
  BY <1>1, <1>2, FlatStretch
<1>4. Lv[b - 1] = Lv[p - 1]
  <2>1. b - 1 \in (p - 1)..(b - 1)
    BY <1>1
  <2>. QED BY <1>3, <2>1
<1>5. Lv[b] \in Int /\ (Lv[b] = Lv[b - 1] \/ Lv[b] = Lv[b - 1] + 1)
  BY <1>1, LevelAt DEF Flat
<1>. QED BY <1>3, <1>4, <1>5

\* Opening a block, whether it raises the level or not, begins at the level of the block.
LEMMA LevelOpening ==
  ASSUME IInv, LevelInv, Opening, stack'[1].kind = "block"
  PROVE  LevelInv'
<1>. SUFFICES ASSUME KeywordsSeen PROVE Nested' /\ Levelled'
  BY LevelSame DEF Opening
<1>. DEFINE L == Len(stack)
            q == pos'
            s == stack'
<1>1. /\ mode \in {"block", "body", "else"} /\ mode # "return" /\ mode' = "block" /\ Running
      /\ UNCHANGED <<input, kids, ends, val>>
      /\ q \in (pos + 1)..Last /\ TypeAt(q - 1) = "DO" /\ pos' = q /\ stack' = s
  BY DEF Opening, Running
<1>2. /\ input \in Inputs /\ pos \in 1..Last /\ pos \in Nat /\ Last \in Nat /\ L \in Nat \ {0}
      /\ Top = stack[L]
  BY <1>1, TopFacts
<1>3. /\ Nested /\ Levelled /\ Cur = pos /\ Cur' = q
  BY <1>1 DEF LevelInv, Cur
<1>4. /\ Len(s) \in {L + 1, L + 2}
      /\ \A i \in 1..L :
           /\ s[i].node = stack[i].node
           /\ s[i] = stack[i] \/ (i = L /\ s[i].kind = "else" /\ s[i].type = "")
      /\ s[Len(s)].kind = "block" /\ s[Len(s)].node = q - 1
      /\ Len(s) = L + 1 => q = pos + 1 /\ s[L].kind # "if" /\ s[Len(s)].type # "IF_BLOCK"
      /\ Len(s) = L + 2 => Heads(s[L + 1], s[L + 2])
  BY Opened
<1>5. \A n : Standing(n)' => Standing(n) \/ n \in pos..(q - 1)
  BY NewStands
<1>6. s[1].kind = "block"
  OBVIOUS
<1>7. Top' = s[Len(s)]
  BY DEF Top
<1>. HIDE DEF L, q, s
<1>8. q \in Nat /\ q \in 1..Last /\ q - 1 \in 1..Last /\ q - 1 \in Nat /\ pos <= q - 1
  BY <1>1, <1>2
<1>9. TypeAt(q) = "DO" => Fresh(q)
  BY <1>1, <1>2, <1>8, FreshAfter
<1>10. Lv[pos - 1] = Lv[stack[L].node]
  BY <1>2, <1>3 DEF Levelled
<1>11. s[1].type = "ROOT_BLOCK"
  <2>1. 1 \in 1..L
    BY <1>2
  <2>2. s[1] = stack[1] \/ s[1].kind = "else"
    BY <1>4, <2>1
  <2>. QED BY <1>3, <1>6, <2>2 DEF Nested
<1>12. ASSUME NEW i \in 1..(L - 1), NEW f, NEW g, f = s[i], g = s[i + 1]
       PROVE  MadeBy(f, g)
  <2>1. i \in 1..L /\ i + 1 \in 1..L /\ i # L /\ i \in 1..(Len(stack) - 1)
    BY <1>2, <1>12 DEF L
  <2>2. MadeBy(stack[i], stack[i + 1])
    BY <1>3, <2>1 DEF Nested
  <2>3. f = stack[i] /\ g.node = stack[i + 1].node
        /\ (g = stack[i + 1] \/ (g.kind = "else" /\ g.type = ""))
    BY <1>4, <1>12, <2>1
  <2>. QED BY <2>2, <2>3 DEF MadeBy
<1>13. Lv' = Lv /\ \A f, g : MadeBy(f, g)' = MadeBy(f, g)
  BY <1>1, LevelTokens
<1>14. CASE Len(s) = L + 1
  <2>1. q = pos + 1 /\ s[L].kind # "if" /\ s[L + 1].type # "IF_BLOCK" /\ s[L + 1].kind = "block"
        /\ s[L + 1].node = q - 1 /\ q - 1 = pos /\ s[L].node = stack[L].node
    <3>1. L \in 1..L
      BY <1>2
    <3>2. q = pos + 1 /\ s[L].kind # "if" /\ s[L + 1].type # "IF_BLOCK" /\ s[L + 1].kind = "block"
      BY <1>4, <1>14
    <3>3. s[L + 1].node = q - 1 /\ s[L].node = stack[L].node
      BY <1>4, <1>14, <3>1
    <3>4. q - 1 = pos
      BY <1>2, <3>2
    <3>. QED BY <3>2, <3>3, <3>4
  <2>2. TypeAt(pos) = "DO" /\ Fresh(pos)
    BY <1>1, <1>3, <2>1 DEF Levelled
  <2>3. MadeBy(s[L], s[L + 1])
    BY <1>10, <2>1, <2>2 DEF MadeBy
  <2>4. Nested'
    <3>1. \A i \in 1..(Len(s) - 1) : i \in 1..(L - 1) \/ i = L
      BY <1>2, <1>14
    <3>2. \A i \in 1..(Len(s) - 1) : \A f, g : f = s[i] /\ g = s[i + 1] => MadeBy(f, g)
      BY <1>12, <2>3, <3>1
    <3>. QED BY <1>1, <1>11, <1>13, <3>2 DEF Nested
  <2>5. /\ Lv[q - 1] = Lv[pos - 1] + 1 /\ Lv[pos - 1] \in Int
        /\ \A p \in pos..(q - 2) : Lv[p] = Lv[pos - 1]
    <3>1. Lv[pos] = Lv[pos - 1] + 1 /\ Lv[pos - 1] \in Int
      BY <1>2, <2>2, LevelAt
    <3>2. pos..(q - 2) = {}
      BY <1>2, <2>1
    <3>. QED BY <2>1, <3>1, <3>2
  <2>6. Lv[q - 1] >= Lv[pos - 1] /\ Lv[q - 1] = Lv[Top'.node]
    BY <1>7, <1>14, <2>1, <2>5
  <2>7. Levelled'
    BY <1>1, <1>3, <1>5, <1>9, <2>5, <2>6, LevelledOn
  <2>. QED BY <2>4, <2>7
<1>15. CASE Len(s) = L + 2
  <2>. DEFINE f == s[L + 1]
              h == f.node
              b == q - 1
  <2>1. /\ s[L + 2].node = b /\ s[L + 2].kind = "block" /\ Heads(f, s[L + 2])
        /\ s[L].node = stack[L].node
    <3>1. L \in 1..L
      BY <1>2
    <3>. QED BY <1>4, <1>15, <3>1
  <2>2. /\ f.kind \in {"if", "loop", "function"} /\ f.type # "IF_BLOCK"
        /\ h \in pos..(b - 1)
        /\ s[L + 2].type = "IF_BLOCK" => f.kind = "if"
        /\ Quiet(pos, h) /\ Quiet(h + 1, b) /\ TypeAt(h) \notin {"DO", "END"}
        /\ f.kind # "if" => Fresh(b)
    BY <2>1 DEF Heads
  <2>. HIDE DEF f, h
  <2>3. b \in Nat /\ h \in pos..Last /\ b \in (h + 1)..Last /\ h \in Nat /\ TypeAt(b) = "DO"
    BY <1>1, <1>2, <1>8, <2>2
  <2>. HIDE DEF b
  <2>4. /\ \A i \in (pos - 1)..(b - 1) : Lv[i] = Lv[pos - 1]
        /\ Lv[pos - 1] \in Int /\ Lv[b] \in Int /\ Lv[b] >= Lv[pos - 1]
    BY <1>2, <2>2, <2>3, OpenLevels
  <2>5. MadeBy(s[L], f)
    <3>1. h - 1 \in (pos - 1)..(b - 1)
      BY <1>2, <2>3
    <3>2. Lv[h - 1] = Lv[s[L].node]
      BY <1>10, <2>1, <2>4, <3>1
    <3>. QED BY <2>2, <3>2 DEF MadeBy, h
  <2>6. MadeBy(f, s[L + 2])
    <3>1. h \in (pos - 1)..(b - 1) /\ b - 1 \in (pos - 1)..(b - 1)
      BY <1>2, <2>3
    <3>2. Lv[b - 1] = Lv[h]
      BY <2>4, <3>1
    <3>. QED BY <2>1, <2>2, <3>2 DEF MadeBy, h
  <2>7. Nested'
    <3>1. \A i \in 1..(Len(s) - 1) : i \in 1..(L - 1) \/ i = L \/ i = L + 1
      BY <1>2, <1>15
    <3>2. (L + 1) + 1 = L + 2
      BY <1>2
    <3>3. \A i \in 1..(Len(s) - 1) : \A x, y : x = s[i] /\ y = s[i + 1] => MadeBy(x, y)
      BY <1>12, <2>5, <2>6, <3>1, <3>2 DEF f
    <3>. QED BY <1>1, <1>11, <1>13, <3>3 DEF Nested
  <2>8. \A p \in pos..(q - 2) : Lv[p] = Lv[pos - 1]
    <3>1. \A p \in pos..(q - 2) : p \in (pos - 1)..(b - 1)
      BY <1>2, <1>8 DEF b
    <3>. QED BY <2>4, <3>1
  <2>9. Lv[q - 1] >= Lv[pos - 1] /\ Lv[q - 1] = Lv[Top'.node]
    BY <1>7, <1>15, <2>1, <2>4 DEF b
  <2>10. Levelled'
    BY <1>1, <1>3, <1>5, <1>9, <2>8, <2>9, LevelledOn
  <2>. QED BY <2>7, <2>10
<1>. QED BY <1>4, <1>14, <1>15

\* Entering the body of a type leaves the level where it was.
LEMMA LevelEntering ==
  ASSUME IInv, LevelInv, Entering
  PROVE  LevelInv'
<1>. SUFFICES ASSUME KeywordsSeen PROVE Nested' /\ Levelled'
  BY LevelSame DEF Entering
<1>. DEFINE L == Len(stack)
            q == pos'
            s == stack'
<1>1. /\ mode = "block" /\ mode # "return" /\ mode' = "body" /\ Running
      /\ UNCHANGED <<input, kids, ends, val>> /\ pos' = q /\ stack' = s
      /\ q \in (pos + 2)..Last /\ TypeAt(q - 1) = "DO" /\ TypeBody(q - 1)
      /\ TypeAt(pos) = "TYPE" /\ Quiet(pos + 1, q - 1)
  BY DEF Entering, Running
<1>2. /\ input \in Inputs /\ pos \in 1..Last /\ pos \in Nat /\ Last \in Nat /\ L \in Nat \ {0}
      /\ Top = stack[L]
  BY <1>1, TopFacts
<1>3. /\ Nested /\ Levelled /\ Cur = pos /\ Cur' = q
  BY <1>1 DEF LevelInv, Cur
<1>4. /\ Len(s) = L + 1 /\ \A i \in 1..L : s[i] = stack[i]
      /\ s[L + 1].node = pos /\ s[L + 1].kind = "type" /\ s[L + 1].type = ""
  BY Entered
<1>5. \A n : Standing(n)' => Standing(n) \/ n \in pos..(q - 1)
  BY NewStands
<1>6. Top' = s[L + 1]
  BY <1>4 DEF Top
<1>. HIDE DEF L, q, s
<1>7. q \in Nat /\ q \in 1..Last /\ q - 1 \in 1..Last /\ q - 1 \in Nat /\ pos < q - 1
      /\ q \in (pos + 1)..Last /\ q \in pos..(Last + 1)
  <2>1. \A a, c \in Nat : \A d \in (a + 2)..c :
          d \in Nat /\ d - 1 \in Nat /\ a < d - 1 /\ d \in (a + 1)..c /\ d \in a..(c + 1) /\ d <= c
    OBVIOUS
  <2>2. q \in Nat /\ q - 1 \in Nat /\ pos < q - 1 /\ q \in (pos + 1)..Last /\ q \in pos..(Last + 1) /\ q <= Last
    BY <1>1, <1>2, <2>1
  <2>. QED BY <1>2, <2>2
<1>8. TypeAt(q) = "DO" => Fresh(q)
  BY <1>1, <1>2, <1>7, FreshAfter
<1>9. Lv[pos - 1] = Lv[stack[L].node]
  BY <1>2, <1>3 DEF Levelled
<1>10. \A i \in pos..(q - 1) : Flat(i)
  <2>. SUFFICES ASSUME NEW i \in pos..(q - 1) PROVE Flat(i)
    OBVIOUS
  <2>1. i = pos \/ i \in (pos + 1)..((q - 1) - 1) \/ i = q - 1
    BY <1>2, <1>7
  <2>2. Flat(pos) /\ Flat(q - 1)
    BY <1>1 DEF Flat, Fresh
  <2>. QED BY <1>1, <2>1, <2>2, QuietFlat
<1>11. Lv[pos - 1] \in Int /\ \A i \in (pos - 1)..(q - 1) : Lv[i] = Lv[pos - 1]
  BY <1>2, <1>7, <1>10, FlatStretch
<1>12. /\ Lv[q - 1] = Lv[pos - 1] /\ Lv[pos] = Lv[pos - 1] /\ Lv[q - 1] >= Lv[pos - 1]
       /\ \A p \in pos..(q - 2) : Lv[p] = Lv[pos - 1]
  <2>1. /\ q - 1 \in (pos - 1)..(q - 1) /\ pos \in (pos - 1)..(q - 1)
        /\ \A p \in pos..(q - 2) : p \in (pos - 1)..(q - 1)
    BY <1>2, <1>7
  <2>. QED BY <1>11, <2>1
<1>13. Nested'
  <2>1. \A i \in 1..(Len(s) - 1) : i \in 1..(L - 1) \/ i = L
    <3>1. Len(s) = L + 1
      BY <1>4
    <3>2. L \in Nat /\ (L + 1) - 1 = L
      BY <1>2
    <3>3. \A i \in 1..L : i \in 1..(L - 1) \/ i = L
      BY <3>2
    <3>. QED BY <3>1, <3>2, <3>3
  <2>2. MadeBy(s[L], s[L + 1])
    <3>1. L \in 1..L
      BY <1>2
    <3>. QED BY <1>4, <1>9, <3>1 DEF MadeBy
  <2>3. ASSUME NEW i \in 1..(L - 1) PROVE MadeBy(s[i], s[i + 1])
    <3>1. i \in 1..L /\ i + 1 \in 1..L /\ i \in 1..(Len(stack) - 1)
      BY <1>2 DEF L
    <3>. QED BY <1>3, <1>4, <3>1 DEF Nested
  <2>4. \A i \in 1..(Len(s) - 1) : \A f, g : f = s[i] /\ g = s[i + 1] => MadeBy(f, g)
    BY <2>1, <2>2, <2>3
  <2>5. s[1].type = "ROOT_BLOCK"
    <3>1. 1 \in 1..L
      BY <1>2
    <3>2. s[1] = stack[1]
      BY <1>4, <3>1
    <3>. QED BY <1>3, <3>2 DEF Nested
  <2>6. \A f, g : MadeBy(f, g)' = MadeBy(f, g)
    BY <1>1, LevelTokens
  <2>. QED BY <1>1, <2>4, <2>5, <2>6 DEF Nested
<1>14. Lv[q - 1] = Lv[Top'.node]
  BY <1>4, <1>6, <1>12
<1>15. Levelled'
  BY <1>1, <1>3, <1>5, <1>7, <1>8, <1>12, <1>14, LevelledOn
<1>. QED BY <1>13, <1>15

\* A step of an 'if' is at the level of the token before, an 'else' does nothing to it.
LEMMA LevelStaying ==
  ASSUME IInv, LevelInv, Staying
  PROVE  LevelInv'
<1>. SUFFICES ASSUME KeywordsSeen PROVE Nested' /\ Levelled'
  BY LevelSame DEF Staying
<1>1. /\ mode = "return" /\ Running /\ UNCHANGED <<input, pos, ends, stack, val>>
      /\ \/ Top.kind \in {"block", "type"} /\ mode' \in {"block", "body"}
         \/ Top.kind = "if" /\ TypeAt(pos - 1) = "ELSE" /\ mode' = "else"
  BY DEF Staying, Running
<1>2. Nested /\ Levelled
  BY <1>1 DEF LevelInv
<1>3. Lv' = Lv /\ \A p : TypeAt(p)' = TypeAt(p) /\ Fresh(p)' = Fresh(p)
  BY <1>1, LevelTokens
<1>4. Nested'
  BY <1>1, <1>2, LevelTokens DEF Nested
<1>5. Top' = Top /\ (\A n : Standing(n)' <=> Standing(n)) /\ Cur' = pos
  BY <1>1 DEF Top, Standing, Cur
<1>6. CASE Top.kind # "if"
  <2>1. Cur = pos
    BY <1>6 DEF Cur
  <2>. QED BY <1>1, <1>2, <1>3, <1>4, <1>5, <2>1 DEF Levelled
<1>7. CASE Top.kind = "if"
  <2>. DEFINE c == pos - 1
  <2>1. Cur = c /\ TypeAt(c) = "ELSE"
    BY <1>1, <1>7 DEF Cur
  <2>2. pos \in Nat /\ Last \in Nat /\ pos <= Last /\ input \in Inputs
    BY <1>1, TopFacts
  <2>3. /\ val \in Nat /\ Top.node \in Nat /\ Top.node < val /\ val < c
        /\ \A n : Standing(n) => n \in Nat /\ n <= Top.node
    <3>1. val < pos - 1
      BY <1>1, <1>7 DEF IInv, ReturnInv
    <3>. QED BY <1>1, <3>1, Stands
  <2>4. c \in Nat /\ c \in 1..Last /\ pos = c + 1
    BY <2>2, <2>3
  <2>. HIDE DEF c
  <2>5. Lv[c] = Lv[c - 1] /\ Lv[c] \in Int
    BY <2>1, <2>2, <2>4, LevelAt DEF Flat
  <2>6. Lv[c - 1] = Lv[Top.node] /\ \A n : Standing(n) => \A p \in n..(c - 1) : Lv[p] >= Lv[n]
    BY <1>2, <2>1 DEF Levelled
  <2>7. ASSUME NEW n, Standing(n), NEW p \in n..c PROVE Lv[p] >= Lv[n]
    <3>1. n \in Nat /\ n <= c - 1
      BY <2>3, <2>4, <2>7
    <3>2. p \in n..(c - 1) \/ p = c
      BY <2>4, <3>1
    <3>3. c - 1 \in n..(c - 1)
      BY <2>4, <3>1
    <3>4. Lv[c - 1] >= Lv[n]
      BY <2>6, <2>7, <3>3
    <3>. QED BY <2>5, <2>6, <2>7, <3>2, <3>4
  <2>8. (c + 1) - 1 = c
    BY <2>4
  <2>9. Lv'[Cur' - 1] = Lv'[Top'.node]
    BY <1>3, <1>5, <2>4, <2>5, <2>6, <2>8
  <2>10. \A n : Standing(n)' => \A p \in n..(Cur' - 1) : Lv'[p] >= Lv'[n]
    BY <1>3, <1>5, <2>4, <2>7, <2>8
  <2>11. \A p : p = pos' /\ TypeAt(p)' = "DO" => Fresh(p)'
    BY <1>1, <1>2, <1>3 DEF Levelled
  <2>. QED BY <1>4, <2>9, <2>10, <2>11 DEF Levelled
<1>. QED BY <1>6, <1>7

\* What is left when the innermost invocation returns.
LEMMA NestedRest ==
  ASSUME IInv, Running, Nested, input' = input, stack' = Rest, Top.node # 0
  PROVE  Nested' /\ MadeBy(Top', Top) /\ Makes(Top', Top)
<1>. DEFINE L == Len(stack)
            s == stack'
            f == Top'
<1>1. /\ L \in Nat \ {0} /\ Top = stack[L] /\ Len(Rest) = L - 1
      /\ \A i \in 1..(L - 1) : Rest[i] = stack[i]
  BY TopFacts
<1>2. f = stack[L - 1] /\ L - 1 \in 1..(L - 1)
  BY RestStands
<1>3. Makes(f, Top)
  <2>1. Makes(Rest[Len(Rest)], Top)
    BY StackFacts
  <2>2. Rest[Len(Rest)] = stack[L - 1]
    BY <1>1, <1>2
  <2>. QED BY <1>2, <2>1, <2>2
<1>4. s = Rest /\ stack' = s /\ Top' = f
  OBVIOUS
<1>. HIDE DEF f, s
<1>5. stack[1].type = "ROOT_BLOCK" /\ \A i \in 1..(L - 1) : MadeBy(stack[i], stack[i + 1])
  BY DEF Nested
<1>. HIDE DEF L
<1>6. (L - 1) + 1 = L
  BY <1>1
<1>7. MadeBy(f, Top)
  BY <1>1, <1>2, <1>5, <1>6
<1>8. 1 \in 1..(L - 1) /\ \A i \in 1..((L - 1) - 1) : i \in 1..(L - 1) /\ i + 1 \in 1..(L - 1)
  BY <1>1, <1>2
<1>9. s[1].type = "ROOT_BLOCK" /\ \A i \in 1..(Len(s) - 1) : MadeBy(s[i], s[i + 1])
  BY <1>1, <1>4, <1>5, <1>8
<1>10. \A x, y : MadeBy(x, y)' = MadeBy(x, y)
  BY LevelTokens
<1>11. Nested'
  BY <1>4, <1>9, <1>10 DEF Nested
<1>. QED BY <1>3, <1>4, <1>7, <1>11

\* Only a block that has an 'end' of its own begins a level.
LEMMA TopLevel ==
  ASSUME IInv, Running, Top.node # 0, NEW f, MadeBy(f, Top), Makes(f, Top)
  PROVE  /\ Lv[f.node] \in Int /\ Lv[Top.node - 1] = Lv[f.node]
         /\ Top.kind = "block" /\ f.kind # "if" => Lv[Top.node] = Lv[f.node] + 1
         /\ Top.kind # "block" \/ f.kind = "if" => Lv[Top.node] = Lv[f.node]
<1>1. /\ input \in Inputs /\ Top.node \in 1..Last
      /\ Top.kind \in {"block", "if", "else", "loop", "function", "type"}
  <2>1. input \in Inputs /\ Last \in Nat /\ Top.node \in 0..Last /\ Top \in FrameSet
    BY TopFacts
  <2>2. Top.kind \in {"block", "if", "else", "loop", "function", "type"}
    BY <2>1 DEF FrameSet
  <2>3. Top.node \in 1..Last
    BY <2>1
  <2>. QED BY <2>1, <2>2, <2>3
<1>2. Lv[Top.node - 1] = Lv[f.node] /\ (Top.kind = "block" /\ f.kind # "if" => Fresh(Top.node))
  BY DEF MadeBy
<1>3. Built(Top)
  BY StackFacts
<1>4. CASE Top.kind = "block"
  <2>1. TypeAt(Top.node) = "DO"
    BY <1>3, <1>4 DEF Built
  <2>2. f.kind = "if" => IfBody(Top.node)
    BY DEF Makes, Awaits
  <2>. QED BY <1>1, <1>2, <1>4, <2>1, <2>2, LevelAt DEF Flat, Fresh
<1>5. CASE Top.kind # "block"
  <2>1. TypeAt(Top.node) \in {"TYPE", "IF"} \cup Headed
    BY <1>1, <1>3, <1>5 DEF Built
  <2>2. Flat(Top.node)
    BY <2>1 DEF Flat, Headed
  <2>. QED BY <1>1, <1>2, <1>5, <2>2, LevelAt
<1>. QED BY <1>4, <1>5

\* What hands over its last part is at its own level again.
LEMMA LevelLeaving ==
  ASSUME IInv, LevelInv, Leaving
  PROVE  LevelInv'
<1>. SUFFICES ASSUME KeywordsSeen PROVE Nested' /\ Levelled'
  BY LevelSame DEF Leaving
<1>1. /\ mode = "return" /\ Running /\ UNCHANGED <<input, ends>>
      /\ stack' = Rest /\ val' = Top.node /\ mode' = "return"
      /\ Top.kind # "block"
      /\ pos' = IF Top.kind = "if" THEN pos - 1 ELSE pos
      /\ Top.kind = "if" => TypeAt(pos - 1) = "END"
  BY DEF Leaving, Running
<1>2. Nested /\ Levelled
  BY <1>1 DEF LevelInv
<1>3. Lv' = Lv /\ \A p : TypeAt(p)' = TypeAt(p) /\ Fresh(p)' = Fresh(p)
  BY <1>1, LevelTokens
<1>4. /\ \A n : Standing(n)' => Standing(n)
      /\ Top.node # 0 /\ Top'.kind # "if"
  BY <1>1, RestStands
<1>5. Cur' = Cur
  BY <1>1, <1>4 DEF Cur
<1>6. Nested' /\ MadeBy(Top', Top) /\ Makes(Top', Top)
  BY <1>1, <1>2, <1>4, NestedRest
<1>7. Lv[Top.node] = Lv[Top'.node]
  <2>. DEFINE f == Top'
  <2>1. MadeBy(f, Top) /\ Makes(f, Top)
    BY <1>6
  <2>. HIDE DEF f
  <2>2. Lv[Top.node] = Lv[f.node]
    BY <1>1, <1>4, <2>1, TopLevel
  <2>. QED BY <2>2 DEF f
<1>8. Lv'[Cur' - 1] = Lv'[Top'.node]
  BY <1>2, <1>3, <1>5, <1>7 DEF Levelled
<1>9. \A n : Standing(n)' => \A p \in n..(Cur' - 1) : Lv'[p] >= Lv'[n]
  BY <1>2, <1>3, <1>4, <1>5 DEF Levelled
<1>10. \A p : p = pos' /\ TypeAt(p)' = "DO" => Fresh(p)'
  BY <1>1, <1>2, <1>3 DEF Levelled
<1>. QED BY <1>6, <1>8, <1>9, <1>10 DEF Levelled

\* Where the innermost block, or type, ends at its own level.
LEMMA EndsLevel ==
  ASSUME IInv, LevelInv, Closing, KeywordsSeen
  PROVE  EndedAt(Top.node, pos)
<1>. DEFINE t == Top.node
            L == Len(stack)
<1>1. Running /\ mode # "return" /\ mode \in {"block", "body"}
  BY DEF Closing, Running
<1>2. /\ input \in Inputs /\ pos \in 1..Last /\ pos \in Nat /\ t \in Nat /\ t < pos
      /\ L \in Nat \ {0} /\ Top = stack[L] /\ t \in Node
      /\ (mode = "block" => Top.kind = "block") /\ (mode = "body" => Top.kind = "type")
  BY <1>1, TopFacts DEF IInv, StackInv
<1>3. Nested /\ Levelled /\ Cur = pos /\ Standing(t)
  BY <1>1, Stands DEF LevelInv
<1>4. (\A p \in t..(pos - 1) : Lv[p] >= Lv[t]) /\ Lv[pos - 1] = Lv[t]
  BY <1>3 DEF Levelled
<1>5. /\ Lv[pos - 1] \in Int
      /\ TypeAt(pos) = "END" => Lv[pos] = Lv[pos - 1] - 1
      /\ TypeAt(pos) # "END" /\ TypeAt(pos) # "DO" => Lv[pos] = Lv[pos - 1]
  BY <1>2, LevelAt DEF Flat
<1>6. \/ TypeAt(pos) = "END"
      \/ TypeAt(pos) = "ELSE" /\ Top.kind = "block" /\ Top.type = "IF_BLOCK"
      \/ TypeAt(pos) = "FILE_END" /\ Top.kind = "block" /\ Top.type = "ROOT_BLOCK"
  BY <1>2 DEF Closing, AtBlockEnd
<1>7. ASSUME Top.kind = "block", Top.type = "IF_BLOCK" PROVE IfBody(t)
  <2>1. L # 1
    BY <1>2, <1>3, <1>7 DEF Nested
  <2>2. L - 1 \in 1..(L - 1) /\ (L - 1) + 1 = L
    <3>1. \A k \in Nat \ {0, 1} : k - 1 \in 1..(k - 1) /\ (k - 1) + 1 = k
      OBVIOUS
    <3>2. L \in Nat \ {0, 1}
      BY <1>2, <2>1
    <3>. QED BY <3>1, <3>2
  <2>3. MadeBy(stack[L - 1], Top)
    BY <1>2, <1>3, <2>2 DEF Nested
  <2>4. stack[L - 1].kind = "if"
    BY <1>7, <2>3 DEF MadeBy
  <2>5. Chain(stack)
    BY <1>1, StackFacts
  <2>6. Makes(stack[L - 1], Top)
    BY <1>2, <2>2, <2>5 DEF Chain
  <2>. QED BY <2>4, <2>6 DEF Makes, Awaits
<1>8. Top.kind = "block" /\ Top.type = "ROOT_BLOCK" => t = 0
  BY <1>1, StackFacts
<1>. HIDE DEF t
<1>9. EndedAt(t, pos)
  <2>1. \/ TypeAt(pos) = "END" /\ Lv[pos] = Lv[t] - 1
        \/ TypeAt(pos) = "ELSE" /\ IfBody(t) /\ Lv[pos] = Lv[t]
        \/ TypeAt(pos) = "FILE_END" /\ t = 0 /\ Lv[pos] = Lv[t]
    BY <1>4, <1>5, <1>6, <1>7, <1>8
  <2>. QED BY <1>4, <2>1 DEF EndedAt
<1>. QED BY <1>9 DEF t

\* What it returns to is at the level where it began.
LEMMA LevelClosing ==
  ASSUME IInv, LevelInv, Closing
  PROVE  LevelInv'
<1>. DEFINE t == Top.node
            f == Top'
<1>1. /\ Running /\ mode # "return" /\ mode \in {"block", "body"} /\ UNCHANGED <<input, kids>>
      /\ ends' = [ends EXCEPT ![t] = pos] /\ stack' = Rest /\ val' = t
      /\ mode' \in {"return", "done"} /\ (mode' = "done" => mode = "block")
      /\ mode = "block" => AtBlockEnd /\ pos' = SkipFrom(pos) /\ (mode' = "done" <=> t = 0)
      /\ mode = "body" => TypeAt(pos) = "END" /\ pos' = pos
  BY DEF Closing, Running
<1>2. /\ input \in Inputs /\ pos \in 1..Last /\ pos \in Nat /\ Last \in Nat
      /\ t \in Node /\ t \in Nat /\ t < pos /\ ends \in [Node -> Node]
      /\ (mode = "block" => Top.kind = "block") /\ (mode = "body" => Top.kind = "type")
  BY <1>1, TopFacts, LinkFacts DEF IInv, StackInv
<1>3. /\ Lv' = Lv /\ Node' = Node /\ KeywordsSeen' = KeywordsSeen
      /\ \A p : TypeAt(p)' = TypeAt(p) /\ Fresh(p)' = Fresh(p)
      /\ \A b, e : EndedAt(b, e)' = EndedAt(b, e)
  BY <1>1, LevelTokens
<1>. SUFFICES ASSUME KeywordsSeen
              PROVE  /\ \A b \in Node : \A e : ends'[b] = e /\ e # 0 => EndedAt(b, e)
                     /\ mode' = "return" => Nested' /\ Levelled'
  BY <1>1, <1>3 DEF LevelInv, Running
<1>4. EndedAt(t, pos)
  BY EndsLevel
<1>5. \A b \in Node : \A e : ends'[b] = e /\ e # 0 => EndedAt(b, e)
  <2>. SUFFICES ASSUME NEW b \in Node, NEW e, ends'[b] = e, e # 0 PROVE EndedAt(b, e)
    OBVIOUS
  <2>1. e = IF b = t THEN pos ELSE ends[b]
    BY <1>1, <1>2
  <2>. HIDE DEF t
  <2>2. CASE b = t
    BY <1>4, <2>1, <2>2
  <2>3. CASE b # t
    BY <2>1, <2>3 DEF LevelInv
  <2>. QED BY <2>2, <2>3
<1>6. ASSUME mode' = "return" PROVE Nested' /\ Levelled'
  <2>1. Nested /\ Levelled /\ Cur = pos
    BY <1>1, Stands DEF LevelInv
  <2>2. t # 0
    BY <1>1, <1>2, <1>6, StackFacts
  <2>3. /\ \A n : Standing(n)' => Standing(n) /\ n < t
        /\ Top.kind = "type" => f.kind # "if"
        /\ \A n : Standing(n) => n \in Nat
    BY <1>1, RestStands, Stands
  <2>4. Nested' /\ MadeBy(f, Top) /\ Makes(f, Top)
    BY <1>1, <2>1, <2>2, NestedRest
  <2>5. Cur' = IF f.kind = "if" THEN pos' - 1 ELSE pos'
    BY <1>6 DEF Cur
  <2>. HIDE DEF f, t
  <2>6. /\ Lv[f.node] \in Int /\ Lv[t - 1] = Lv[f.node]
        /\ Top.kind = "block" /\ f.kind # "if" => Lv[t] = Lv[f.node] + 1
        /\ Top.kind # "block" \/ f.kind = "if" => Lv[t] = Lv[f.node]
    BY <1>1, <2>2, <2>4, TopLevel DEF t
  <2>7. /\ TypeAt(pos) = "END" => Lv[pos] = Lv[t] - 1
        /\ Lv[pos - 1] = Lv[t] /\ \A n : Standing(n) => \A p \in n..(pos - 1) : Lv[p] >= Lv[n]
    <3>1. Lv[pos - 1] \in Int /\ (TypeAt(pos) = "END" => Lv[pos] = Lv[pos - 1] - 1)
      BY <1>2, LevelAt
    <3>. QED BY <2>1, <3>1 DEF Levelled, t
  <2>8. CASE mode = "body"
    <3>1. Cur' = pos /\ pos' = pos /\ TypeAt(pos) = "END" /\ Lv[t] = Lv[f.node]
      BY <1>1, <1>2, <2>3, <2>5, <2>6, <2>8
    <3>2. Lv'[Cur' - 1] = Lv'[Top'.node]
      BY <1>3, <2>7, <3>1 DEF f
    <3>3. \A n : Standing(n)' => \A p \in n..(Cur' - 1) : Lv'[p] >= Lv'[n]
      BY <1>3, <2>3, <2>7, <3>1
    <3>4. \A p : p = pos' /\ TypeAt(p)' = "DO" => Fresh(p)'
      BY <1>3, <3>1
    <3>. QED BY <2>4, <3>2, <3>3, <3>4 DEF Levelled
  <2>9. CASE mode = "block"
    <3>1. TypeAt(pos) # "FILE_END" /\ TypeAt(pos) \in {"END", "ELSE", "FILE_END"}
      <4>1. Top.type # "ROOT_BLOCK"
        BY <1>1, <1>2, <2>2, <2>9, StackFacts DEF t
      <4>. QED BY <1>1, <2>9, <4>1 DEF AtBlockEnd
    <3>2. pos' = pos + 1 /\ pos + 1 \in 1..Last
      BY <1>1, <1>2, <2>9, <3>1, Skip
    <3>3. Fresh(pos + 1)
      <4>1. (pos + 1) - 1 = pos
        BY <1>2
      <4>. QED BY <1>2, <3>1, <3>2, <4>1, FreshAfter
    <3>4. \A p : p = pos' /\ TypeAt(p)' = "DO" => Fresh(p)'
      BY <1>3, <3>2, <3>3
    <3>5. (pos + 1) - 1 = pos
      BY <1>2
    <3>6. CASE f.kind = "if"
      <4>1. Cur' = pos /\ Lv[t] = Lv[f.node]
        BY <2>5, <2>6, <3>2, <3>5, <3>6
      <4>2. Lv'[Cur' - 1] = Lv'[Top'.node]
        BY <1>3, <2>7, <4>1 DEF f
      <4>3. \A n : Standing(n)' => \A p \in n..(Cur' - 1) : Lv'[p] >= Lv'[n]
        BY <1>3, <2>3, <2>7, <4>1
      <4>. QED BY <2>4, <3>4, <4>2, <4>3 DEF Levelled
    <3>7. CASE f.kind # "if"
      <4>1. Cur' = pos + 1 /\ Lv[t] = Lv[f.node] + 1
        BY <1>2, <2>5, <2>6, <2>9, <3>2, <3>7
      <4>2. TypeAt(pos) = "END"
        <5>1. Top.type # "IF_BLOCK"
          BY <2>4, <3>7 DEF MadeBy
        <5>. QED BY <1>1, <2>9, <3>1, <5>1 DEF AtBlockEnd
      <4>3. Lv[pos] = Lv[f.node]
        BY <2>6, <2>7, <4>1, <4>2
      <4>4. Lv'[Cur' - 1] = Lv'[Top'.node]
        BY <1>3, <3>5, <4>1, <4>3 DEF f
      <4>5. ASSUME NEW n, Standing(n)', NEW p \in n..pos PROVE Lv[p] >= Lv[n]
        <5>1. Standing(n) /\ n \in Nat /\ n < t
          BY <2>3, <4>5
        <5>2. p \in n..(pos - 1) \/ p = pos
          BY <1>2, <5>1
        <5>3. t - 1 \in n..(pos - 1)
          BY <1>2, <5>1
        <5>4. Lv[t - 1] >= Lv[n]
          BY <2>7, <5>1, <5>3
        <5>5. p = pos => Lv[p] >= Lv[n]
          BY <2>6, <4>3, <5>4
        <5>. QED BY <2>7, <5>1, <5>2, <5>5
      <4>6. \A n : Standing(n)' => \A p \in n..(Cur' - 1) : Lv'[p] >= Lv'[n]
        BY <1>3, <3>5, <4>1, <4>5
      <4>. QED BY <2>4, <3>4, <4>4, <4>6 DEF Levelled
    <3>. QED BY <3>6, <3>7
  <2>. QED BY <1>1, <2>8, <2>9
<1>. QED BY <1>5, <1>6

\* Every step leaves the levels as they should be, and so they are at the beginning.
LEMMA LevelStep ==
  ASSUME IInv, LevelInv, [Next]_vars
  PROVE  LevelInv'
<1>1. CASE Failing
  <2>1. ~Running' /\ UNCHANGED <<input, ends>>
    BY <1>1 DEF Failing, Running, Failures
  <2>. QED BY <2>1, LevelSame
<1>2. ASSUME Next, Opening PROVE LevelInv'
  <2>1. IInv' /\ Running'
    BY <1>2, NextStep DEF Opening, Running
  <2>2. Chain(stack)'
    BY <2>1 DEF IInv, StackInv
  <2>3. stack'[1].kind = "block"
    BY <2>2 DEF Chain
  <2>. QED BY <1>2, <2>3, LevelOpening
<1>3. CASE Next
  BY <1>1, <1>2, <1>3, NextShape, LevelReading, LevelEntering, LevelStaying, LevelLeaving, LevelClosing
  DEF Shaped
<1>4. CASE UNCHANGED vars
  <2>1. UNCHANGED <<input, pos, kids, ends, stack, val, mode>>
    BY <1>4 DEF vars
  <2>2. /\ Lv' = Lv /\ \A p : TypeAt(p)' = TypeAt(p) /\ Fresh(p)' = Fresh(p)
        /\ \A x, y : MadeBy(x, y)' = MadeBy(x, y)
    BY <2>1, LevelTokens
  <2>3. Top' = Top
    BY <2>1 DEF Top
  <2>4. Cur' = Cur /\ (\A n : Standing(n)' <=> Standing(n)) /\ (Running' <=> Running)
    BY <2>1, <2>3 DEF Cur, Standing, Running
  <2>5. Nested => Nested'
    BY <2>1, <2>2 DEF Nested
  <2>6. Levelled => Levelled'
    BY <2>1, <2>2, <2>3, <2>4 DEF Levelled
  <2>7. KeywordsSeen /\ Running' => Nested' /\ Levelled'
    BY <2>4, <2>5, <2>6 DEF LevelInv
  <2>. QED BY <2>1, <2>7, LevelSame
<1>. QED BY <1>3, <1>4

\* The root block begins at level zero.
LEMMA LevelInit ==
  ASSUME Init
  PROVE  LevelInv
<1>1. /\ input \in Inputs /\ pos = 1 /\ mode = "block" /\ stack = <<Block(0, "ROOT_BLOCK")>>
      /\ \A n \in Node : ends[n] = 0
  BY DEF Init, Node, Last
<1>2. Last \in Nat \ {0} /\ Node = 0..Last /\ 0 \in Node /\ 0 \in 0..Last
  BY <1>1, Tokens DEF Node
<1>3. Lv[0] \in Int
  BY <1>1, <1>2, Levels
<1>4. Len(stack) = 1 /\ stack[1].type = "ROOT_BLOCK" /\ stack[1].node = 0 /\ Top.node = 0
  BY <1>1 DEF Top, Block, Frame
<1>5. Cur = 1
  BY <1>1 DEF Cur
<1>6. Nested
  <2>1. 1..(Len(stack) - 1) = {}
    BY <1>4
  <2>. QED BY <1>4, <2>1 DEF Nested
<1>7. \A n : Standing(n) => n = 0
  BY <1>4 DEF Standing
<1>8. TypeAt(1) = "DO" => Fresh(1)
  BY <1>1, <1>2, FreshAfter
<1>9. Levelled
  <2>1. \A p \in 0..(1 - 1) : p = 0
    OBVIOUS
  <2>2. Lv[Cur - 1] = Lv[Top.node]
    BY <1>4, <1>5
  <2>3. \A n : Standing(n) => \A p \in n..(Cur - 1) : Lv[p] >= Lv[n]
    BY <1>3, <1>5, <1>7, <2>1
  <2>. QED BY <1>1, <1>8, <2>2, <2>3 DEF Levelled
<1>. QED BY <1>1, <1>6, <1>9 DEF LevelInv

\* From the levels to the blocks.
LEMMA AllMatched ==
  ASSUME IInv, OrderInv, LevelInv
  PROVE  BlocksMatched
<1>. SUFFICES ASSUME KeywordsSeen, NEW b \in Node, ends[b] # 0
              PROVE  LET e == ends[b] IN
                     /\ \A p \in b..(e - 1) : Level(b, p) >= 0
                     /\ CASE TypeAt(e) = "END" -> Level(b, e) = -1
                          [] TypeAt(e) = "ELSE" -> IfBody(b) /\ Level(b, e) = 0
                          [] TypeAt(e) = "FILE_END" -> b = 0 /\ Level(b, e) = 0
                          [] OTHER -> FALSE
  BY DEF BlocksMatched
<1>. DEFINE e == ends[b]
<1>1. input \in Inputs /\ Last \in Nat /\ Node = 0..Last
  BY Tokens DEF IInv, Node
<1>2. e \in Node /\ b < e /\ EndedAt(b, e)
  <2>1. ends \in [Node -> Node]
    BY LinkFacts
  <2>2. b < ends[b]
    BY DEF OrderInv, TreeInv
  <2>3. EndedAt(b, ends[b])
    BY DEF LevelInv
  <2>. QED BY <2>1, <2>2, <2>3
<1>. HIDE DEF e
<1>3. b \in Nat /\ e \in Nat /\ e \in b..Last /\ \A p \in b..(e - 1) : p \in b..Last
  BY <1>1, <1>2
<1>4. \A p \in b..Last : Level(b, p) = Lv[p] - Lv[b] /\ Lv[p] \in Int /\ Lv[b] \in Int
  BY <1>1, Levels
<1>5. \A p \in b..(e - 1) : Level(b, p) >= 0
  <2>. SUFFICES ASSUME NEW p \in b..(e - 1) PROVE Level(b, p) >= 0
    OBVIOUS
  <2>1. Level(b, p) = Lv[p] - Lv[b] /\ Lv[p] \in Int /\ Lv[b] \in Int
    BY <1>3, <1>4
  <2>2. Lv[p] >= Lv[b]
    BY <1>2 DEF EndedAt
  <2>. QED BY <2>1, <2>2
<1>6. Level(b, e) = Lv[e] - Lv[b] /\ Lv[e] \in Int /\ Lv[b] \in Int
  BY <1>3, <1>4
<1>7. \/ TypeAt(e) = "END" /\ Level(b, e) = -1
      \/ TypeAt(e) = "ELSE" /\ IfBody(b) /\ Level(b, e) = 0
      \/ TypeAt(e) = "FILE_END" /\ b = 0 /\ Level(b, e) = 0
  <2>1. \/ TypeAt(e) = "END" /\ Lv[e] = Lv[b] - 1
        \/ TypeAt(e) = "ELSE" /\ IfBody(b) /\ Lv[e] = Lv[b]
        \/ TypeAt(e) = "FILE_END" /\ b = 0 /\ Lv[e] = Lv[b]
    BY <1>2 DEF EndedAt
  <2>. QED BY <1>6, <2>1
<1>8. (CASE TypeAt(e) = "END" -> Level(b, e) = -1
         [] TypeAt(e) = "ELSE" -> IfBody(b) /\ Level(b, e) = 0
         [] TypeAt(e) = "FILE_END" -> b = 0 /\ Level(b, e) = 0
         [] OTHER -> FALSE)
  BY <1>7
<1>. QED BY <1>5, <1>8 DEF e

\* Whatever the tokens, as long as no keyword stands where getSigArgs or function
\* skip a token unseen: the token at which block or type stopped is at the level
\* of what it ends, one below for an 'end', and nothing before it was; an 'else'
\* only ends the first block of an if, the end of the file only the root block.
THEOREM EndsMatch == Spec => []BlocksMatched
<1>1. Init => OrderInv /\ LevelInv
  BY OrderInit, LevelInit
<1>2. IInv /\ OrderInv /\ LevelInv /\ [Next]_vars => OrderInv' /\ LevelInv'
  BY OrderStep, LevelStep
<1>3. IInv /\ OrderInv /\ LevelInv => BlocksMatched
  BY AllMatched
<1>. QED BY <1>1, <1>2, <1>3, Invariance, PTL DEF Spec
===============================================================================
