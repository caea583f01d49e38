----------------------------- MODULE LexerProofs -----------------------------
(***************************************************************************)
(* Proofs about Lexer, for every set of texts and every keyword set: its   *)
(* types and its bracket stack, and what it reads: that it moves forward,  *)
(* that its tokens stand in the order of the text, that nothing but blanks *)
(* and comments is passed over, that lines are counted and that the        *)
(* longest operator is taken.  The last five rest on one summary of a      *)
(* round of the main loop.                                                 *)
(***************************************************************************)
EXTENDS Lexer, FiniteSetTheorems, WellFoundedInduction, TLAPS

(***************************************************************************)
(* Facts about numbers, scanning and cursors                               *)
(***************************************************************************)

\* A nonempty set of naturals has a least element.
LEMMA LeastNat ==
  ASSUME NEW T \in SUBSET Nat, T # {}
  PROVE  \E m \in T : \A k \in T : m <= k
<1>1. PICK m \in T : \A k \in T : ~(<<k, m>> \in OpToRel(<, Nat))
  BY WFMin, NatLessThanWellFounded
<1>2. \A k \in T : ~(k < m)
  BY <1>1 DEF OpToRel
<1>. QED BY <1>2

\* The operator list starts at 1: an operator's index is never 0.
LEMMA OperatorIndices == DOMAIN Operators = 1..40
BY DEF Operators

\* The cursors inside the text.
Place == {c \in Cursor : c.pos \in 1..EOF}

\* The end of the text is a position, and reading there gives NUL.
LEMMA EndOfText ==
  ASSUME code \in Codes
  PROVE  /\ code \in Seq(STRING)
         /\ EOF \in Nat \ {0}
         /\ DOMAIN code = 1..(EOF - 1)
         /\ At(EOF) = NUL
BY CodesAssumption DEF EOF, At

\* scanning forward for a character of S stays inside the text.
LEMMA ScanToRange ==
  ASSUME code \in Codes, NEW p \in 1..EOF, NEW S
  PROVE  ScanTo(p, S) \in p..EOF
<1>. DEFINE T == {q \in p..EOF : q = EOF \/ At(q) \in S}
<1>1. EOF \in T /\ T \in SUBSET Nat
  BY EndOfText
<1>2. PICK m \in T : \A k \in T : m <= k
  BY <1>1, LeastNat
<1>3. \A r \in p..(m - 1) : At(r) \notin S
  BY <1>2, EndOfText
<1>. QED BY <1>2, <1>3 DEF ScanTo

\* So does scanning forward over characters of S.
LEMMA ScanOverRange ==
  ASSUME code \in Codes, NEW p \in 1..EOF, NEW S, NUL \notin S
  PROVE  ScanOver(p, S) \in p..EOF
<1>. DEFINE T == {q \in p..EOF : At(q) \notin S}
<1>1. EOF \in T /\ T \in SUBSET Nat
  BY EndOfText
<1>2. PICK m \in T : \A k \in T : m <= k
  BY <1>1, LeastNat
<1>3. \A r \in p..(m - 1) : At(r) \in S
  BY <1>2, EndOfText
<1>. QED BY <1>2, <1>3 DEF ScanOver

\* skip(n) keeps a cursor inside the text.
LEMMA SkipType ==
  ASSUME code \in Codes, NEW c \in Place, NEW n \in Nat
  PROVE  Skip(c, n) \in Place
<1>1. c \in Cursor /\ c.pos \in 1..EOF /\ EOF \in Nat \ {0}
  BY EndOfText DEF Place
<1>2. Skip(c, n) \in Cursor
  BY <1>1 DEF Skip, Cursor
<1>3. Skip(c, n).pos \in 1..EOF
  BY <1>1 DEF Skip, Cursor
<1>. QED BY <1>2, <1>3 DEF Place

LEMMA SkipToType ==
  ASSUME code \in Codes, NEW c \in Place, NEW p \in c.pos..EOF
  PROVE  SkipTo(c, p) \in Place
<1>1. p - c.pos \in Nat
  BY EndOfText DEF Place, Cursor
<1>. QED BY <1>1, SkipType DEF SkipTo

\* noIncrement() followed by the loop's skip(1) leaves the position alone.
LEMMA NoIncrementSkip ==
  ASSUME code \in Codes, NEW c \in Place
  PROVE  Skip(NoIncrement(c), 1) \in Place
<1>1. c \in Cursor /\ c.pos \in 1..EOF /\ EOF \in Nat \ {0}
  BY EndOfText DEF Place
<1>. DEFINE b == NoIncrement(c)
<1>2. b \in [pos : Int, line : Nat, col : Nat] /\ b.pos = c.pos - 1
  BY <1>1 DEF NoIncrement, Cursor
<1>3. Skip(b, 1) \in Cursor /\ Skip(b, 1).pos = c.pos
  <2>. HIDE DEF b
  <2>. QED BY <1>1, <1>2 DEF Skip, Cursor
<1>. QED BY <1>1, <1>3 DEF Place

LEMMA CountNewlineType ==
  ASSUME NEW c \in Place
  PROVE  CountNewline(c) \in Place
<1>1. c \in Cursor /\ c.pos \in 1..EOF
  BY DEF Place
<1>2. NextLine(c) \in Cursor /\ NextLine(c).pos = c.pos
  BY <1>1 DEF NextLine, Cursor
<1>. QED BY <1>1, <1>2 DEF CountNewline, Place

\* After a block comment the lexer is still inside the text.
LEMMA AfterCommentType ==
  ASSUME code \in Codes, at \in Place, NEW e \in CommentEnds(at)
  PROVE  AfterComment(at, e) \in Place
<1>. DEFINE nls == Newlines(at.pos + 2, e - 1)
<1>1. e \in (at.pos + 2)..EOF /\ at.pos \in 1..EOF /\ at.line \in Nat /\ at.col \in Nat
  BY DEF CommentEnds, Place, Cursor
<1>2. At(e + 1) = "/"
  BY <1>1, EndOfText DEF CommentEnds, Looking
<1>3. e + 2 \in 1..EOF
  BY <1>1, <1>2, EndOfText DEF At, NUL
<1>4. Cardinality(nls) \in Nat
  <2>1. IsFiniteSet((at.pos + 2)..(e - 1))
    <3>1. at.pos + 2 \in Int /\ e - 1 \in Int
      BY <1>1, EndOfText
    <3>. QED BY <3>1, FS_Interval
  <2>2. IsFiniteSet(nls)
    BY <2>1, FS_Subset DEF Newlines
  <2>. QED BY <2>2, FS_CardinalityType
<1>5. ASSUME nls # {}
      PROVE  e + 2 - (CHOOSE n \in nls : \A m \in nls : m <= n) \in Nat
  <2>. DEFINE T == {e - 1 - n : n \in nls}
  <2>1. T \in SUBSET Nat /\ T # {}
    BY <1>1, <1>5, EndOfText DEF Newlines
  <2>2. PICK k \in T : \A l \in T : k <= l
    BY <2>1, LeastNat
  <2>3. PICK n \in nls : k = e - 1 - n
    BY <2>2
  <2>4. ASSUME NEW m \in nls PROVE m <= n
    <3>1. k <= e - 1 - m
      BY <2>2
    <3>2. m \in Int /\ n \in Int /\ e \in Int
      BY <1>1, <2>3, EndOfText DEF Newlines
    <3>. QED BY <2>3, <3>1, <3>2
  <2>5. (CHOOSE x \in nls : \A m \in nls : m <= x) \in nls
    BY <2>3, <2>4
  <2>6. (CHOOSE x \in nls : \A m \in nls : m <= x) \in (at.pos + 2)..(e - 1)
    BY <2>5 DEF Newlines
  <2>. QED BY <2>6, <1>1, EndOfText
<1>. DEFINE last == CHOOSE n \in nls : \A m \in nls : m <= n
            col  == IF nls = {} THEN at.col + (e + 2 - at.pos) ELSE e + 2 - last
            line == at.line + Cardinality(nls)
<1>6. AfterComment(at, e) = [pos |-> e + 2, line |-> line, col |-> col]
  BY DEF AfterComment
<1>7. line \in Nat
  BY <1>1, <1>4
<1>8. at.col + (e + 2 - at.pos) \in Nat
  BY <1>1, EndOfText, SMTT(30)
<1>9. col \in Nat
  BY <1>5, <1>8
<1>10. e + 2 \in Nat
  BY <1>3, EndOfText
<1>. HIDE DEF line, col
<1>. QED BY <1>3, <1>6, <1>7, <1>9, <1>10 DEF Place, Cursor

LEMMA StartsType ==
  ASSUME code \in Codes, at \in Place
  PROVE  \A c \in Starts : c \in Place
BY AfterCommentType, CountNewlineType DEF Starts

(***************************************************************************)
(* Type correctness                                                        *)
(***************************************************************************)

\* What TypeOK says of the token list.
TokensOK(ts) ==
  /\ ts \in Seq(TokenSet)
  /\ \A i \in DOMAIN ts : ts[i].type = "OPERATOR" <=> ts[i].op # 0

\* Adding a well-formed token to a well-formed list.
LEMMA EmitType ==
  ASSUME NEW ts, TokensOK(ts), NEW type \in TokenTypes, NEW op \in {0} \cup DOMAIN Operators,
         type = "OPERATOR" <=> op # 0,
         NEW from \in Cursor, NEW next \in Nat
  PROVE  /\ TokensOK(Append(ts, Token(type, op, from, next)))
         /\ DOMAIN ts = 1..Len(ts) /\ Len(ts) \in Nat
         /\ DOMAIN Append(ts, Token(type, op, from, next)) = 1..(Len(ts) + 1)
<1>. DEFINE t == Token(type, op, from, next)
<1>1. t \in TokenSet /\ t.type = type /\ t.op = op
  BY DEF Token, TokenSet, Cursor
<1>. HIDE DEF t
<1>2. /\ Append(ts, t) \in Seq(TokenSet)
      /\ Len(Append(ts, t)) = Len(ts) + 1
      /\ \A i \in 1..Len(ts) : Append(ts, t)[i] = ts[i]
      /\ Append(ts, t)[Len(ts) + 1] = t
      /\ DOMAIN ts = 1..Len(ts) /\ Len(ts) \in Nat
      /\ DOMAIN Append(ts, t) = 1..(Len(ts) + 1)
  BY <1>1 DEF TokensOK
<1>3. \A i \in DOMAIN Append(ts, t) :
        Append(ts, t)[i].type = "OPERATOR" <=> Append(ts, t)[i].op # 0
  BY <1>1, <1>2 DEF TokensOK
<1>. QED BY <1>2, <1>3 DEF TokensOK, t

\* TypeOK, with the cursors as places and the lists as above.
TypeInv ==
  /\ code \in Codes
  /\ at \in Place
  /\ TokensOK(tokens)
  /\ parenStack \in Seq(DOMAIN tokens)
  /\ status \in {"lexing", "string", "done", "error", "uncaught"}
  /\ strStart \in Place

\* The open groups stay indices of a list that grows by one token.
LEMMA StackType ==
  ASSUME NEW n \in Nat, NEW s \in Seq(1..n)
  PROVE  s \in Seq(1..(n + 1)) /\ Append(s, n + 1) \in Seq(1..(n + 1))
<1>1. 1..n \subseteq 1..(n + 1)
  OBVIOUS
<1>2. s \in Seq(1..(n + 1))
  BY <1>1
<1>. QED BY <1>2

\* A step that adds a token, moves to a place and leaves the stack alone.
LEMMA EmitStep ==
  ASSUME TypeInv, code' = code, at' \in Place,
         NEW type \in TokenTypes, NEW op \in {0} \cup DOMAIN Operators,
         type = "OPERATOR" <=> op # 0, NEW from \in Place, NEW next \in Nat,
         Emit(type, op, from, next),
         \/ UNCHANGED parenStack
         \/ parenStack' = Append(parenStack, Len(tokens) + 1)
         \/ /\ parenStack # <<>>
            /\ parenStack' = SubSeq(parenStack, 1, Len(parenStack) - 1),
         status' \in {"lexing", "string", "done", "error", "uncaught"},
         strStart' = strStart
  PROVE  TypeInv'
<1>1. /\ TokensOK(tokens')
      /\ DOMAIN tokens = 1..Len(tokens) /\ Len(tokens) \in Nat
      /\ DOMAIN tokens' = 1..(Len(tokens) + 1)
  BY EmitType DEF Emit, Place, TypeInv
<1>2. parenStack \in Seq(1..Len(tokens))
  BY <1>1 DEF TypeInv
<1>3. parenStack' \in Seq(1..(Len(tokens) + 1))
  <2>1. CASE UNCHANGED parenStack
    BY <2>1, <1>1, <1>2, StackType
  <2>2. CASE parenStack' = Append(parenStack, Len(tokens) + 1)
    BY <2>2, <1>1, <1>2, StackType
  <2>3. CASE /\ parenStack # <<>>
             /\ parenStack' = SubSeq(parenStack, 1, Len(parenStack) - 1)
    <3>1. parenStack' \in Seq(1..Len(tokens))
      BY <2>3, <1>2
    <3>. QED BY <3>1, <1>1, StackType
  <2>. QED BY <2>1, <2>2, <2>3
<1>4. Place' = Place
  BY DEF Place, EOF
<1>. QED BY <1>1, <1>3, <1>4 DEF TypeInv

\* A step that adds no token.
LEMMA QuietStep ==
  ASSUME TypeInv, code' = code, at' \in Place, UNCHANGED <<tokens, parenStack>>,
         status' \in {"lexing", "string", "done", "error", "uncaught"},
         strStart' \in Place
  PROVE  TypeInv'
<1>1. Place' = Place
  BY DEF Place, EOF
<1>. QED BY <1>1 DEF TypeInv, TokensOK

LEMMA FailType ==
  ASSUME TypeInv, code' = code, NEW how \in {"error", "uncaught"}, Fail(how)
  PROVE  TypeInv'
BY QuietStep DEF Fail, TypeInv

LEMMA NumberType ==
  ASSUME code \in Codes, NEW c \in Place, ~BadRadix(c)
  PROVE  /\ NumberStart(c) \in Place
         /\ NumberStart(c).pos >= c.pos
         /\ NumberEnd(c) \in NumberStart(c).pos..EOF
<1>1. NumberStart(c) \in Place /\ NumberStart(c).pos >= c.pos
  <2>1. Skip(c, 2) \in Place
    BY SkipType
  <2>2. Skip(c, 2).pos >= c.pos
    BY EndOfText DEF Skip, Place, Cursor
  <2>3. c.pos >= c.pos
    BY DEF Place
  <2>. QED BY <2>1, <2>2, <2>3 DEF NumberStart
<1>2. NumberStart(c).pos \in 1..EOF
  BY <1>1 DEF Place
<1>3. NUL \notin ValidForRadix(Radix(c)) \cup {"."}
  BY DEF NUL, ValidForRadix, HexDigit, Digit, OctDigit
<1>. QED BY <1>1, <1>2, <1>3, ScanOverRange DEF NumberEnd

\* The invariant holds at the start and each step keeps it.
LEMMA TypeInvInit == Init => TypeInv
<1>. SUFFICES ASSUME Init PROVE TypeInv
  OBVIOUS
<1>1. Start \in Place
  BY EndOfText DEF Init, Start, Place, Cursor
<1>2. 1 \in 1..EOF /\ Start.pos = 1
  BY EndOfText DEF Init, Start
<1>3. ScanTo(1, {"\n"}) \in 1..EOF
  BY <1>2, ScanToRange DEF Init
<1>4. at \in Place
  BY <1>1, <1>2, <1>3, SkipToType DEF Init
<1>. QED BY <1>1, <1>4 DEF Init, TypeInv, TokensOK

LEMMA TypeInvStep == TypeInv /\ [Next]_vars => TypeInv'
<1>. SUFFICES ASSUME TypeInv, [Next]_vars PROVE TypeInv'
  OBVIOUS
<1>. USE DEF TokenTypes, TerminalTypes, OpenTypes, CloseTypes
<1>0. /\ code \in Codes /\ at \in Place /\ at.pos \in 1..EOF /\ EOF \in Nat \ {0}
      /\ \A c \in Starts : c \in Place
  BY StartsType, EndOfText DEF TypeInv, Place
<1>1. CASE UNCHANGED vars
  BY <1>1, QuietStep DEF vars, TypeInv
<1>2. ASSUME LineComment, UNCHANGED code PROVE TypeInv'
  <2>1. ScanTo(at.pos, {"\n"}) \in at.pos..EOF
    BY <1>0, ScanToRange
  <2>2. at' \in Place
    BY <1>0, <1>2, <2>1, SkipToType, SkipType DEF LineComment
  <2>. QED BY <1>2, <2>2, QuietStep DEF LineComment, TypeInv
<1>3. ASSUME Finish, UNCHANGED code PROVE TypeInv'
  <2>1. CASE AllClosed
    BY <1>0, <1>3, <2>1, EmitStep DEF Finish, TypeInv
  <2>2. CASE ~AllClosed
    BY <1>3, <2>2, FailType DEF Finish
  <2>. QED BY <2>1, <2>2
<1>4. ASSUME LexString, UNCHANGED code PROVE TypeInv'
  <2>0. \A n \in Nat : Skip(at, n) \in Place
    BY <1>0, SkipType
  <2>1. CASE StringChar
    BY <1>4, <2>0, <2>1, QuietStep DEF StringChar, TypeInv
  <2>2. CASE StringEscape
    BY <1>4, <2>0, <2>2, QuietStep, FailType DEF StringEscape, TypeInv
  <2>3. CASE StringEnd
    <3>1. at.pos + 1 \in Nat /\ at' \in Place /\ strStart \in Place
      <4>1. at' = Skip(at, 1)
        BY <2>3 DEF StringEnd
      <4>2. at' \in Place
        BY <2>0, <4>1
      <4>3. strStart \in Place
        BY DEF TypeInv
      <4>. QED BY <1>0, <4>2, <4>3
    <3>. QED BY <1>4, <2>3, <3>1, EmitStep DEF StringEnd
  <2>4. CASE StringUnclosed
    BY <1>4, <2>4, FailType DEF StringUnclosed
  <2>. QED BY <1>4, <2>1, <2>2, <2>3, <2>4 DEF LexString
<1>5. ASSUME LexToken, UNCHANGED code PROVE TypeInv'
  <2>1. CASE UnclosedComment
    BY <1>5, <2>1, FailType DEF UnclosedComment
  <2>2. ASSUME NEW c \in Starts,
               \/ Blank(c) \/ NumberError(c) \/ NumberLiteral(c) \/ StringBegin(c)
               \/ OpenGroup(c) \/ CloseGroup(c) \/ Mismatch(c) \/ PlainConstruct(c)
               \/ FatArrow(c) \/ OperatorToken(c) \/ Word(c)
        PROVE  TypeInv'
    <3>0. /\ c \in Place /\ c.pos \in 1..EOF /\ c.pos + 1 \in Nat /\ c.pos + 2 \in Nat
          /\ \A n \in Nat : Skip(c, n) \in Place
      <4>1. c \in Place
        BY <1>0, <2>2
      <4>2. c.pos \in 1..EOF
        BY <4>1 DEF Place
      <4>3. \A n \in Nat : Skip(c, n) \in Place
        BY <1>0, <4>1, SkipType
      <4>. QED BY <1>0, <4>1, <4>2, <4>3
    <3>1. CASE Blank(c)
      BY <1>5, <3>0, <3>1, QuietStep DEF Blank, TypeInv
    <3>2. CASE NumberError(c)
      BY <1>5, <3>2, FailType DEF NumberError
    <3>3. CASE NumberLiteral(c)
      <4>1. /\ NumberStart(c) \in Place
            /\ NumberEnd(c) \in c.pos..EOF /\ NumberEnd(c) \in Nat
        <5>1. ~BadRadix(c)
          BY <3>3 DEF NumberLiteral
        <5>2. /\ NumberStart(c) \in Place
              /\ NumberStart(c).pos >= c.pos
              /\ NumberEnd(c) \in NumberStart(c).pos..EOF
          BY <1>0, <3>0, <5>1, NumberType
        <5>3. NumberStart(c).pos \in 1..EOF
          BY <5>2 DEF Place
        <5>. QED BY <1>0, <3>0, <5>2, <5>3
      <4>2. at' \in Place
        BY <1>0, <3>0, <3>3, <4>1, SkipToType, NoIncrementSkip DEF NumberLiteral
      <4>. QED BY <1>5, <3>3, <4>1, <4>2, EmitStep DEF NumberLiteral, TypeInv
    <3>4. CASE StringBegin(c)
      BY <1>5, <3>0, <3>4, QuietStep DEF StringBegin
    <3>5. CASE OpenGroup(c)
      <4>. DEFINE t == IF At(c.pos) = "(" THEN DetermineParenBeginType ELSE "SQPAREN_LEFT"
      <4>1. t \in TokenTypes /\ t # "OPERATOR"
        BY DEF DetermineParenBeginType
      <4>. HIDE DEF t
      <4>2. /\ Emit(t, 0, c, c.pos + 1) /\ at' \in Place
            /\ parenStack' = Append(parenStack, Len(tokens) + 1)
            /\ status' \in {"lexing", "string", "done", "error", "uncaught"}
            /\ strStart' = strStart
        BY <3>0, <3>5 DEF OpenGroup, TypeInv, t
      <4>. QED BY <1>5, <3>0, <4>1, <4>2, EmitStep
    <3>6. CASE CloseGroup(c)
      <4>. DEFINE t == CloserType(At(c.pos))
      <4>1. t \in TokenTypes /\ t # "OPERATOR"
        BY <3>6 DEF CloserType, ConstructType, CloseGroup
      <4>. HIDE DEF t
      <4>2. /\ Emit(t, 0, c, c.pos + 1) /\ at' \in Place
            /\ parenStack # <<>>
            /\ parenStack' = SubSeq(parenStack, 1, Len(parenStack) - 1)
            /\ status' \in {"lexing", "string", "done", "error", "uncaught"}
            /\ strStart' = strStart
        BY <3>0, <3>6 DEF CloseGroup, IsMatched, TypeInv, t
      <4>. QED BY <1>5, <3>0, <4>1, <4>2, EmitStep
    <3>7. CASE Mismatch(c)
      BY <1>5, <3>7, FailType DEF Mismatch
    <3>8. CASE PlainConstruct(c)
      <4>. DEFINE t == ConstructType(At(c.pos))
      <4>1. t \in TokenTypes /\ t # "OPERATOR"
        BY <3>8 DEF ConstructType, PlainConstruct
      <4>. HIDE DEF t
      <4>2. /\ Emit(t, 0, c, c.pos + 1) /\ at' \in Place
            /\ UNCHANGED parenStack
            /\ status' \in {"lexing", "string", "done", "error", "uncaught"}
            /\ strStart' = strStart
        BY <3>0, <3>8 DEF PlainConstruct, TypeInv, t
      <4>. QED BY <1>5, <3>0, <4>1, <4>2, EmitStep
    <3>9. CASE FatArrow(c)
      <4>1. at' \in Place
        BY <1>0, <3>0, <3>9, SkipType DEF FatArrow
      <4>. QED BY <1>5, <3>0, <3>9, <4>1, EmitStep DEF FatArrow, TypeInv
    <3>10. CASE OperatorToken(c)
      <4>1. PICK op \in FindOperator(c.pos) :
              /\ Emit("OPERATOR", op, c, c.pos + Len(Operators[op].sym))
              /\ OperatorMoves(c, op)
        BY <3>10 DEF OperatorToken
      <4>2. op \in DOMAIN Operators
        BY <4>1 DEF FindOperator, SymbolsAt
      <4>3. Len(Operators[op].sym) \in Nat /\ op # 0
        <5>1. Len(Operators[op].sym) \in 1..3
          BY <4>2, SymbolsAssumption
        <5>2. op \in 1..40
          BY <4>2, OperatorIndices
        <5>. QED BY <5>1, <5>2
      <4>4. at' \in Place /\ c.pos + Len(Operators[op].sym) \in Nat
        BY <1>0, <3>0, <4>1, <4>3, NoIncrementSkip DEF OperatorMoves
      <4>. QED BY <1>5, <3>0, <3>10, <4>1, <4>2, <4>3, <4>4, EmitStep
               DEF OperatorToken, TypeInv
    <3>11. CASE Word(c)
      <4>. DEFINE e == ScanTo(c.pos, NotIdentifierChars \cup {"\\"})
      <4>1. e \in c.pos..EOF /\ e \in Nat
        BY <1>0, <3>0, ScanToRange
      <4>. HIDE DEF e
      <4>2. CASE At(e) = "\\"
        BY <1>5, <3>11, <4>2, FailType DEF Word, e
      <4>3. CASE At(e) # "\\"
        <5>1. at' \in Place /\ UNCHANGED <<parenStack, status, strStart>>
          BY <1>0, <3>0, <3>11, <4>1, <4>3, SkipToType, NoIncrementSkip DEF Word, e
        <5>2. CASE e = c.pos
          BY <1>5, <3>11, <4>3, <5>1, <5>2, QuietStep DEF Word, e, TypeInv
        <5>3. CASE e # c.pos
          <6>. DEFINE t == WordType(SubSeq(code, c.pos, e - 1))
          <6>1. t \in TokenTypes /\ t # "OPERATOR"
            BY DEF WordType
          <6>2. Emit(t, 0, c, e)
            BY <3>11, <4>3, <5>3 DEF Word, e
          <6>. HIDE DEF t
          <6>. QED BY <1>5, <3>0, <4>1, <5>1, <6>1, <6>2, EmitStep DEF TypeInv
        <5>. QED BY <5>2, <5>3
      <4>. QED BY <4>2, <4>3
    <3>. QED BY <2>2, <3>1, <3>2, <3>3, <3>4, <3>5, <3>6, <3>7, <3>8, <3>9, <3>10, <3>11
  <2>. QED BY <1>5, <2>1, <2>2 DEF LexToken
<1>. QED BY <1>1, <1>2, <1>3, <1>4, <1>5 DEF Next

LEMMA TypeInvHolds == Spec => []TypeInv
BY TypeInvInit, TypeInvStep, PTL DEF Spec

\* The fields keep their types and the position stays inside the text, for
\* every text: no skip leaves the text, no index of parenStack dangles.
THEOREM TypeCorrect == Spec => []TypeOK
<1>1. TypeInv => TypeOK
  BY DEF TypeInv, TypeOK, TokensOK, Place
<1>. QED BY <1>1, TypeInvHolds, PTL

(***************************************************************************)
(* Brackets                                                                *)
(***************************************************************************)

\* What a list that grows by one token has for openers and closers.
LEMMA AppendBrackets ==
  ASSUME NEW ts \in Seq(TokenSet), NEW t \in TokenSet
  PROVE  /\ Len(ts) \in Nat /\ DOMAIN ts = 1..Len(ts)
         /\ \A i \in 1..Len(ts) : Append(ts, t)[i] = ts[i]
         /\ Append(ts, t)[Len(ts) + 1] = t
         /\ t.type \in OpenTypes => Openers(Append(ts, t)) = Openers(ts) \cup {Len(ts) + 1}
         /\ t.type \notin OpenTypes => Openers(Append(ts, t)) = Openers(ts)
         /\ t.type \in CloseTypes => Closers(Append(ts, t)) = Closers(ts) \cup {Len(ts) + 1}
         /\ t.type \notin CloseTypes => Closers(Append(ts, t)) = Closers(ts)
         /\ Openers(ts) \subseteq 1..Len(ts) /\ Closers(ts) \subseteq 1..Len(ts)
<1>. DEFINE n == Len(ts)
            us == Append(ts, t)
<1>1. /\ n \in Nat /\ DOMAIN ts = 1..n /\ DOMAIN us = 1..(n + 1)
      /\ \A i \in 1..n : us[i] = ts[i]
      /\ us[n + 1] = t
  OBVIOUS
<1>. HIDE DEF us, n
<1>2. 1..(n + 1) = 1..n \cup {n + 1}
  BY <1>1
<1>3. /\ t.type \in OpenTypes => Openers(us) = Openers(ts) \cup {n + 1}
      /\ t.type \notin OpenTypes => Openers(us) = Openers(ts)
  BY <1>1, <1>2 DEF Openers
<1>4. /\ t.type \in CloseTypes => Closers(us) = Closers(ts) \cup {n + 1}
      /\ t.type \notin CloseTypes => Closers(us) = Closers(ts)
  BY <1>1, <1>2 DEF Closers
<1>5. Openers(ts) \subseteq 1..n /\ Closers(ts) \subseteq 1..n
  BY <1>1 DEF Openers, Closers
<1>. QED BY <1>1, <1>3, <1>4, <1>5 DEF us, n

\* A token that is no bracket leaves the matching as it is.
LEMMA MatchPlain ==
  ASSUME NEW ts \in Seq(TokenSet), NEW t \in TokenSet,
         t.type \notin OpenTypes \cup CloseTypes,
         NEW open \in Seq(DOMAIN ts), NEW m, IsMatching(ts, open, m)
  PROVE  IsMatching(Append(ts, t), open, m)
<1>. DEFINE us == Append(ts, t)
<1>1. /\ Openers(us) = Openers(ts) /\ Closers(us) = Closers(ts)
      /\ \A i \in Openers(ts) \cup Closers(ts) : us[i] = ts[i]
  BY AppendBrackets
<1>. HIDE DEF us
<1>2. \A c \in Closers(ts) : m[c] \in Openers(ts)
  BY DEF IsMatching
<1>. SUFFICES IsMatching(us, open, m)
  BY DEF us
<1>. QED BY <1>1, <1>2 DEF IsMatching

\* An opening bracket becomes the innermost open group.
LEMMA MatchOpen ==
  ASSUME NEW ts \in Seq(TokenSet), NEW t \in TokenSet, t.type \in OpenTypes,
         NEW open \in Seq(DOMAIN ts), NEW m, IsMatching(ts, open, m)
  PROVE  IsMatching(Append(ts, t), Append(open, Len(ts) + 1), m)
<1>. DEFINE us == Append(ts, t)
            n == Len(ts)
            k == Len(open)
            after == Append(open, n + 1)
<1>0. t.type \notin CloseTypes
  BY DEF OpenTypes, CloseTypes
<1>1. /\ Openers(us) = Openers(ts) \cup {n + 1} /\ Closers(us) = Closers(ts)
      /\ \A i \in 1..n : us[i] = ts[i]
      /\ Openers(ts) \subseteq 1..n /\ Closers(ts) \subseteq 1..n /\ n \in Nat
      /\ DOMAIN ts = 1..n
  BY <1>0, AppendBrackets
<1>2. /\ k \in Nat /\ DOMAIN open = 1..k /\ DOMAIN after = 1..(k + 1)
      /\ \A i \in 1..k : after[i] = open[i] /\ open[i] \in 1..n
      /\ after[k + 1] = n + 1
  BY <1>1
<1>. HIDE DEF us, n, k, after
<1>3. /\ m \in [Closers(ts) -> Openers(ts)]
      /\ \A c \in Closers(ts) : m[c] \in Openers(ts) /\ m[c] \in 1..n /\ c \in 1..n
  BY <1>1 DEF IsMatching
<1>4. m \in [Closers(us) -> Openers(us)]
  BY <1>1, <1>3
<1>5. \A c \in Closers(us) : m[c] < c /\ us[c].type = CloserOf[us[m[c]].type]
  BY <1>1, <1>3 DEF IsMatching
<1>6. /\ \A c, d \in Closers(us) : c # d => m[c] # m[d]
      /\ \A c, d \in Closers(us) : m[c] < m[d] /\ m[d] < c => d < c
  BY <1>1 DEF IsMatching
<1>7. \A j \in DOMAIN after : after[j] \in Openers(us)
  BY <1>1, <1>2 DEF IsMatching
<1>8. ASSUME NEW i \in Openers(us)
      PROVE  (\E j \in DOMAIN after : after[j] = i) <=> (\A c \in Closers(us) : m[c] # i)
  <2>1. CASE i = n + 1
    BY <2>1, <1>1, <1>2, <1>3, SMTT(30)
  <2>2. CASE i \in Openers(ts)
    <3>1. (\E j \in DOMAIN after : after[j] = i) <=> (\E j \in DOMAIN open : open[j] = i)
      <4>1. 1..(k + 1) = 1..k \cup {k + 1} /\ i # n + 1
        BY <2>2, <1>1, <1>2
      <4>. QED BY <4>1, <1>2
    <3>. QED BY <3>1, <2>2, <1>1 DEF IsMatching
  <2>. QED BY <2>1, <2>2, <1>1
<1>9. \A i, j \in DOMAIN after : i < j => after[i] < after[j]
  BY <1>1, <1>2 DEF IsMatching
<1>10. \A j \in DOMAIN after, c \in Closers(us) : ~(m[c] < after[j] /\ after[j] < c)
  <2>. SUFFICES ASSUME NEW j \in 1..(k + 1), NEW c \in Closers(ts)
                PROVE  ~(m[c] < after[j] /\ after[j] < c)
    BY <1>1, <1>2
  <2>1. CASE j = k + 1
    BY <2>1, <1>1, <1>2, <1>3
  <2>2. CASE j \in 1..k
    BY <2>2, <1>2 DEF IsMatching
  <2>. QED BY <2>1, <2>2, <1>2
<1>. SUFFICES IsMatching(us, after, m)
  BY DEF us, after, n
<1>. QED BY <1>4, <1>5, <1>6, <1>7, <1>8, <1>9, <1>10 DEF IsMatching

\* A closing bracket of the innermost open group's kind closes it.
LEMMA MatchClose ==
  ASSUME NEW ts \in Seq(TokenSet), NEW t \in TokenSet,
         NEW open \in Seq(DOMAIN ts), open # <<>>, NEW m, IsMatching(ts, open, m),
         t.type \in CloseTypes, t.type = CloserOf[ts[open[Len(open)]].type]
  PROVE  \E w : IsMatching(Append(ts, t), SubSeq(open, 1, Len(open) - 1), w)
<1>. DEFINE us == Append(ts, t)
            n == Len(ts)
            k == Len(open)
            top == open[k]
            rest == SubSeq(open, 1, k - 1)
            w == [c \in Closers(ts) \cup {n + 1} |-> IF c = n + 1 THEN top ELSE m[c]]
<1>0. t.type \notin OpenTypes
  BY DEF OpenTypes, CloseTypes
<1>1. /\ Openers(us) = Openers(ts) /\ Closers(us) = Closers(ts) \cup {n + 1}
      /\ \A i \in 1..n : us[i] = ts[i]
      /\ us[n + 1] = t
      /\ Openers(ts) \subseteq 1..n /\ Closers(ts) \subseteq 1..n /\ n \in Nat
      /\ DOMAIN ts = 1..n
  BY <1>0, AppendBrackets
<1>2. /\ k \in Nat \ {0} /\ DOMAIN open = 1..k /\ DOMAIN rest = 1..(k - 1)
      /\ \A i \in 1..(k - 1) : rest[i] = open[i]
      /\ \A i \in 1..k : open[i] \in 1..n
  BY <1>1
<1>3. /\ m \in [Closers(ts) -> Openers(ts)]
      /\ \A c \in Closers(ts) : m[c] \in Openers(ts) /\ m[c] \in 1..n /\ c \in 1..n
  BY <1>1 DEF IsMatching
<1>4. /\ top \in Openers(ts) /\ top \in 1..n
      /\ \A c \in Closers(ts) : m[c] # top
      /\ \A i \in 1..(k - 1) : open[i] < top
      /\ \A c \in Closers(ts) : ~(m[c] < top /\ top < c)
  <2>1. k \in DOMAIN open /\ top \in Openers(ts)
    BY <1>2 DEF IsMatching
  <2>2. \A c \in Closers(ts) : m[c] # top
    BY <2>1 DEF IsMatching
  <2>3. \A i \in 1..(k - 1) : open[i] < top
    <3>1. \A i, j \in DOMAIN open : i < j => open[i] < open[j]
      BY DEF IsMatching
    <3>. HIDE DEF k
    <3>. QED BY <3>1, <1>2, SMTT(30)
  <2>4. \A c \in Closers(ts) : ~(m[c] < top /\ top < c)
    BY <2>1 DEF IsMatching
  <2>. QED BY <2>1, <2>2, <2>3, <2>4, <1>1
<1>5. /\ w[n + 1] = top
      /\ \A c \in Closers(ts) : w[c] = m[c] /\ c # n + 1
  BY <1>1, <1>3
<1>6. w \in [Closers(us) -> Openers(us)]
  BY <1>1, <1>3, <1>4
<1>. HIDE DEF us, n, k, top, rest, w
<1>7. \A c \in Closers(us) : w[c] < c /\ us[c].type = CloserOf[us[w[c]].type]
  <2>. SUFFICES ASSUME NEW c \in Closers(us)
                PROVE  w[c] < c /\ us[c].type = CloserOf[us[w[c]].type]
    OBVIOUS
  <2>1. CASE c = n + 1
    <3>1. w[c] = top /\ us[c] = t /\ us[top] = ts[top]
      BY <2>1, <1>1, <1>4, <1>5
    <3>2. t.type = CloserOf[ts[top].type]
      BY DEF top, k
    <3>. QED BY <2>1, <3>1, <3>2, <1>1, <1>4
  <2>2. CASE c \in Closers(ts)
    BY <2>2, <1>1, <1>3, <1>5 DEF IsMatching
  <2>. QED BY <2>1, <2>2, <1>1
<1>8. \A c, d \in Closers(us) : c # d => w[c] # w[d]
  BY <1>1, <1>4, <1>5 DEF IsMatching
<1>9. ASSUME NEW c \in Closers(us), NEW d \in Closers(us), w[c] < w[d], w[d] < c
      PROVE  d < c
  <2>1. CASE c = n + 1
    <3>1. d # n + 1
      <4>1. w[c] = top
        BY <2>1, <1>5
      <4>2. top \in Nat
        BY <1>1, <1>4
      <4>3. ~(top < top)
        BY <4>2
      <4>. QED BY <2>1, <4>1, <4>3, <1>9
    <3>. QED BY <3>1, <2>1, <1>1
  <2>2. CASE c \in Closers(ts) /\ d = n + 1
    BY <2>2, <1>9, <1>4, <1>5
  <2>3. CASE c \in Closers(ts) /\ d \in Closers(ts)
    BY <2>3, <1>9, <1>5 DEF IsMatching
  <2>. QED BY <2>1, <2>2, <2>3, <1>1
<1>10. \A j \in DOMAIN rest : rest[j] \in Openers(us)
  BY <1>1, <1>2 DEF IsMatching
<1>11. ASSUME NEW i \in Openers(us)
       PROVE  (\E j \in DOMAIN rest : rest[j] = i) <=> (\A c \in Closers(us) : w[c] # i)
  <2>1. (\E j \in DOMAIN open : open[j] = i) <=> (\A c \in Closers(ts) : m[c] # i)
    BY <1>1 DEF IsMatching
  <2>2. (\E j \in DOMAIN open : open[j] = i) <=> (i = top \/ \E j \in DOMAIN rest : rest[j] = i)
    <3>1. 1..k = 1..(k - 1) \cup {k}
      BY <1>2
    <3>. QED BY <3>1, <1>2 DEF top
  <2>3. \A j \in DOMAIN rest : rest[j] # top
    BY <1>2, <1>4
  <2>4. (\A c \in Closers(us) : w[c] # i) <=> (i # top /\ \A c \in Closers(ts) : m[c] # i)
    BY <1>1, <1>5
  <2>. QED BY <2>1, <2>2, <2>3, <2>4
<1>12. \A i, j \in DOMAIN rest : i < j => rest[i] < rest[j]
  <2>1. \A i, j \in DOMAIN open : i < j => open[i] < open[j]
    BY DEF IsMatching
  <2>. QED BY <2>1, <1>2, SMTT(30)
<1>13. \A j \in DOMAIN rest, c \in Closers(us) : ~(w[c] < rest[j] /\ rest[j] < c)
  <2>. SUFFICES ASSUME NEW j \in 1..(k - 1), NEW c \in Closers(us)
                PROVE  ~(w[c] < rest[j] /\ rest[j] < c)
    BY <1>2
  <2>1. rest[j] = open[j] /\ open[j] < top /\ open[j] \in 1..n /\ j \in DOMAIN open
    BY <1>2, <1>4
  <2>2. CASE c = n + 1
    BY <2>1, <2>2, <1>4, <1>5
  <2>3. CASE c \in Closers(ts)
    BY <2>1, <2>3, <1>5 DEF IsMatching
  <2>. QED BY <2>2, <2>3, <1>1
<1>. SUFFICES IsMatching(us, rest, w)
  BY DEF us, rest, k
<1>. QED BY <1>6, <1>7, <1>8, <1>9, <1>10, <1>11, <1>12, <1>13 DEF IsMatching

\* The strengthening that makes AcceptedIsBalanced inductive: the stack tells
\* what is open at every step, so an empty one at the end means balanced.
BracketInv ==
  /\ BracketsMatched
  /\ status = "done" => parenStack = <<>>

LEMMA QuietBrackets ==
  ASSUME BracketsMatched, UNCHANGED <<tokens, parenStack>>
  PROVE  BracketsMatched'
<1>1. PICK m : IsMatching(tokens, parenStack, m)
  BY DEF BracketsMatched
<1>2. IsMatching(tokens', parenStack', m)
  BY <1>1
<1>. QED BY <1>2 DEF BracketsMatched, IsMatching

\* The token that a step adds is a token.
LEMMA AddedToken ==
  ASSUME TypeInv, TypeInv', NEW t, tokens' = Append(tokens, t)
  PROVE  t \in TokenSet /\ tokens \in Seq(TokenSet) /\ parenStack \in Seq(DOMAIN tokens)
<1>1. tokens \in Seq(TokenSet) /\ Append(tokens, t) \in Seq(TokenSet)
  BY DEF TypeInv, TokensOK
<1>2. Len(tokens) + 1 \in DOMAIN Append(tokens, t) /\ Append(tokens, t)[Len(tokens) + 1] = t
  BY <1>1
<1>3. t \in TokenSet
  BY <1>1, <1>2
<1>. QED BY <1>1, <1>3 DEF TypeInv

LEMMA PlainBrackets ==
  ASSUME TypeInv, TypeInv', BracketsMatched,
         NEW t, tokens' = Append(tokens, t), UNCHANGED parenStack,
         t.type \notin OpenTypes \cup CloseTypes
  PROVE  BracketsMatched'
<1>1. PICK m : IsMatching(tokens, parenStack, m)
  BY DEF BracketsMatched
<1>2. t \in TokenSet /\ tokens \in Seq(TokenSet) /\ parenStack \in Seq(DOMAIN tokens)
  BY AddedToken
<1>3. IsMatching(tokens', parenStack', m)
  BY <1>1, <1>2, MatchPlain
<1>. QED BY <1>3 DEF BracketsMatched, IsMatching

LEMMA OpenBrackets ==
  ASSUME TypeInv, TypeInv', BracketsMatched,
         NEW t, tokens' = Append(tokens, t), t.type \in OpenTypes,
         parenStack' = Append(parenStack, Len(tokens) + 1)
  PROVE  BracketsMatched'
<1>1. PICK m : IsMatching(tokens, parenStack, m)
  BY DEF BracketsMatched
<1>2. t \in TokenSet /\ tokens \in Seq(TokenSet) /\ parenStack \in Seq(DOMAIN tokens)
  BY AddedToken
<1>3. IsMatching(tokens', parenStack', m)
  BY <1>1, <1>2, MatchOpen
<1>. QED BY <1>3 DEF BracketsMatched, IsMatching

LEMMA CloseBrackets ==
  ASSUME TypeInv, TypeInv', BracketsMatched,
         NEW t, tokens' = Append(tokens, t), t.type \in CloseTypes,
         parenStack # <<>>, t.type = CloserOf[TopType],
         parenStack' = SubSeq(parenStack, 1, Len(parenStack) - 1)
  PROVE  BracketsMatched'
<1>1. PICK m : IsMatching(tokens, parenStack, m)
  BY DEF BracketsMatched
<1>2. t \in TokenSet /\ tokens \in Seq(TokenSet) /\ parenStack \in Seq(DOMAIN tokens)
  BY AddedToken
<1>3. \E w : IsMatching(tokens', parenStack', w)
  BY <1>1, <1>2, MatchClose DEF TopType
<1>. QED BY <1>3 DEF BracketsMatched, IsMatching

LEMMA TokenHasType ==
  \A type, op, from, next : Token(type, op, from, next).type = type
BY DEF Token

LEMMA BracketStep ==
  ASSUME TypeInv, TypeInv', BracketInv, [Next]_vars
  PROVE  BracketInv'
<1>. DEFINE Brackets == OpenTypes \cup CloseTypes
<1>0. BracketsMatched
  BY DEF BracketInv
<1>1. ASSUME UNCHANGED <<tokens, parenStack>>, status' # "done" \/ UNCHANGED status
      PROVE  BracketInv'
  BY <1>0, <1>1, QuietBrackets DEF BracketInv
<1>2. ASSUME NEW type, NEW op, NEW from, NEW next, Emit(type, op, from, next),
             type \notin Brackets, UNCHANGED parenStack,
             status' = "done" => parenStack = <<>>
      PROVE  BracketInv'
  BY <1>0, <1>2, PlainBrackets, TokenHasType DEF BracketInv, Emit
<1>3. ASSUME NEW how \in {"error", "uncaught"}, Fail(how) PROVE BracketInv'
  BY <1>1, <1>3 DEF Fail
<1>. USE DEF OpenTypes, CloseTypes, TerminalTypes
<1>4. CASE UNCHANGED vars
  BY <1>4, <1>1 DEF vars
<1>5. CASE LineComment
  BY <1>5, <1>1 DEF LineComment
<1>6. CASE Finish
  <2>1. CASE AllClosed
    BY <1>6, <1>2, <2>1 DEF Finish, AllClosed
  <2>2. CASE ~AllClosed
    BY <1>6, <1>3, <2>2 DEF Finish
  <2>. QED BY <2>1, <2>2
<1>7. CASE LexString
  <2>1. CASE StringChar
    BY <1>1, <2>1 DEF StringChar
  <2>2. CASE StringEscape
    BY <1>1, <1>3, <2>2 DEF StringEscape
  <2>3. CASE StringEnd
    BY <1>2, <2>3 DEF StringEnd
  <2>4. CASE StringUnclosed
    BY <1>3, <2>4 DEF StringUnclosed
  <2>. QED BY <1>7, <2>1, <2>2, <2>3, <2>4 DEF LexString
<1>8. CASE LexToken
  <2>1. CASE UnclosedComment
    BY <1>3, <2>1 DEF UnclosedComment
  <2>2. ASSUME NEW c,
               \/ Blank(c) \/ NumberError(c) \/ NumberLiteral(c) \/ StringBegin(c)
               \/ OpenGroup(c) \/ CloseGroup(c) \/ Mismatch(c) \/ PlainConstruct(c)
               \/ FatArrow(c) \/ OperatorToken(c) \/ Word(c)
        PROVE  BracketInv'
    <3>0. status = "lexing"
      BY <1>8 DEF LexToken
    <3>1. CASE Blank(c)
      BY <1>1, <3>1 DEF Blank
    <3>2. CASE NumberError(c)
      BY <1>3, <3>2 DEF NumberError
    <3>3. CASE NumberLiteral(c)
      <4>. DEFINE t == IF Dots(c) = {} THEN "INTEGER" ELSE "FLOAT"
      <4>1. t \notin Brackets
        OBVIOUS
      <4>2. Emit(t, 0, NumberStart(c), NumberEnd(c)) /\ UNCHANGED <<parenStack, status>>
        BY <3>3 DEF NumberLiteral
      <4>. HIDE DEF t
      <4>. QED BY <1>2, <3>0, <4>1, <4>2
    <3>4. CASE StringBegin(c)
      BY <1>1, <3>4 DEF StringBegin
    <3>5. CASE OpenGroup(c)
      <4>. DEFINE t == IF At(c.pos) = "(" THEN DetermineParenBeginType ELSE "SQPAREN_LEFT"
      <4>1. t \in OpenTypes
        BY DEF DetermineParenBeginType
      <4>2. /\ Emit(t, 0, c, c.pos + 1)
            /\ parenStack' = Append(parenStack, Len(tokens) + 1) /\ UNCHANGED status
        BY <3>5 DEF OpenGroup
      <4>. HIDE DEF t
      <4>3. BracketsMatched'
        BY <1>0, <4>1, <4>2, OpenBrackets, TokenHasType DEF Emit
      <4>. QED BY <3>0, <4>2, <4>3 DEF BracketInv
    <3>6. CASE CloseGroup(c)
      <4>. DEFINE t == CloserType(At(c.pos))
      <4>1. t \in CloseTypes
        BY <3>6 DEF CloserType, ConstructType, CloseGroup
      <4>2. /\ Emit(t, 0, c, c.pos + 1) /\ parenStack # <<>> /\ t = CloserOf[TopType]
            /\ parenStack' = SubSeq(parenStack, 1, Len(parenStack) - 1) /\ UNCHANGED status
        BY <3>6 DEF CloseGroup, IsMatched
      <4>. HIDE DEF t
      <4>3. BracketsMatched'
        BY <1>0, <4>1, <4>2, CloseBrackets, TokenHasType DEF Emit
      <4>. QED BY <3>0, <4>2, <4>3 DEF BracketInv
    <3>7. CASE Mismatch(c)
      BY <1>3, <3>7 DEF Mismatch
    <3>8. CASE PlainConstruct(c)
      <4>. DEFINE t == ConstructType(At(c.pos))
      <4>1. t \notin Brackets
        BY <3>8 DEF ConstructType, PlainConstruct
      <4>2. Emit(t, 0, c, c.pos + 1) /\ UNCHANGED <<parenStack, status>>
        BY <3>8 DEF PlainConstruct
      <4>. HIDE DEF t
      <4>. QED BY <1>2, <3>0, <4>1, <4>2
    <3>9. CASE FatArrow(c)
      BY <1>2, <3>0, <3>9 DEF FatArrow
    <3>10. CASE OperatorToken(c)
      BY <1>2, <3>0, <3>10 DEF OperatorToken
    <3>11. CASE Word(c)
      <4>. DEFINE e == ScanTo(c.pos, NotIdentifierChars \cup {"\\"})
                  t == WordType(SubSeq(code, c.pos, e - 1))
      <4>1. t \notin Brackets
        BY DEF WordType
      <4>2. \/ Fail("error")
            \/ UNCHANGED <<tokens, parenStack, status>>
            \/ Emit(t, 0, c, e) /\ UNCHANGED <<parenStack, status>>
        BY <3>11 DEF Word
      <4>. HIDE DEF t, e
      <4>. QED BY <1>1, <1>2, <1>3, <3>0, <4>1, <4>2
    <3>. QED BY <2>2, <3>1, <3>2, <3>3, <3>4, <3>5, <3>6, <3>7, <3>8, <3>9, <3>10, <3>11
  <2>. QED BY <1>8, <2>1, <2>2 DEF LexToken
<1>. QED BY <1>4, <1>5, <1>6, <1>7, <1>8 DEF Next

\* At the start nothing is open and there is nothing to match.
LEMMA BracketInit == Init => BracketInv
<1>. SUFFICES ASSUME Init PROVE BracketInv
  OBVIOUS
<1>1. tokens = <<>> /\ parenStack = <<>> /\ status = "lexing"
  BY DEF Init
<1>2. Openers(tokens) = {} /\ Closers(tokens) = {} /\ DOMAIN parenStack = {}
  BY <1>1 DEF Openers, Closers
<1>3. [c \in {} |-> c] \in [Closers(tokens) -> Openers(tokens)]
  BY <1>2
<1>4. IsMatching(tokens, parenStack, [c \in {} |-> c])
  BY <1>2, <1>3 DEF IsMatching
<1>. QED BY <1>1, <1>3, <1>4 DEF BracketInv, BracketsMatched

LEMMA BracketInvHolds == Spec => []BracketInv
<1>1. TypeInv /\ TypeInv' /\ BracketInv /\ [Next]_vars => BracketInv'
  BY BracketStep
<1>. QED BY <1>1, BracketInit, TypeInvHolds, PTL DEF Spec

\* parenStack always holds exactly the groups the tokens leave open.
THEOREM BracketsAlwaysMatched == Spec => []BracketsMatched
<1>1. BracketInv => BracketsMatched
  BY DEF BracketInv
<1>. QED BY <1>1, BracketInvHolds, PTL

\* Whatever text was accepted, its groups are balanced: the guarantee the
\* parser's scan for the end of a group rests on.
THEOREM AcceptedAlwaysBalanced == Spec => []AcceptedIsBalanced
<1>1. BracketInv => AcceptedIsBalanced
  BY DEF BracketInv, BracketsMatched, AcceptedIsBalanced, Balanced
<1>. QED BY <1>1, BracketInvHolds, PTL

(***************************************************************************)
(* Reading and moving                                                      *)
(***************************************************************************)

\* There is a character at a position exactly if it is before the end.
LEMMA CharactersInText ==
  ASSUME code \in Codes
  PROVE  /\ \A p : At(p) # NUL => p \in 1..(EOF - 1)
         /\ \A p \in 1..(EOF - 1) : At(p) # NUL
<1>1. code \in Seq(STRING \ {NUL})
  BY CodesAssumption DEF NUL
<1>2. DOMAIN code = 1..(EOF - 1)
  BY EndOfText
<1>3. \A p \in DOMAIN code : code[p] \in STRING \ {NUL}
  BY <1>1
<1>. QED BY <1>2, <1>3 DEF At

\* A text read at p has its characters there, one after the other.
LEMMA LookingAtTwo ==
  ASSUME NEW p \in Int, NEW a, NEW b
  PROVE  Looking(p, <<a, b>>) <=> At(p) = a /\ At(p + 1) = b
<1>1. DOMAIN <<a, b>> = {1, 2} /\ <<a, b>>[1] = a /\ <<a, b>>[2] = b
  OBVIOUS
<1>2. p + 1 - 1 = p /\ p + 2 - 1 = p + 1
  OBVIOUS
<1>. QED BY <1>1, <1>2 DEF Looking

\* Scanning for a character of S stops at the first one.
LEMMA ScanToStops ==
  ASSUME code \in Codes, NEW p \in 1..EOF, NEW S
  PROVE  /\ ScanTo(p, S) \in p..EOF
         /\ ScanTo(p, S) = EOF \/ At(ScanTo(p, S)) \in S
         /\ \A r \in p..(ScanTo(p, S) - 1) : At(r) \notin S
<1>. DEFINE T == {q \in p..EOF : q = EOF \/ At(q) \in S}
<1>1. EOF \in T /\ T \in SUBSET Nat
  BY EndOfText
<1>2. PICK m \in T : \A k \in T : m <= k
  BY <1>1, LeastNat
<1>3. \A r \in p..(m - 1) : At(r) \notin S
  BY <1>2, EndOfText
<1>. QED BY <1>2, <1>3 DEF ScanTo

\* Scanning over characters of S stops at the first other one.
LEMMA ScanOverStops ==
  ASSUME code \in Codes, NEW p \in 1..EOF, NEW S, NUL \notin S
  PROVE  /\ ScanOver(p, S) \in p..EOF
         /\ At(ScanOver(p, S)) \notin S
         /\ \A r \in p..(ScanOver(p, S) - 1) : At(r) \in S
<1>. DEFINE T == {q \in p..EOF : At(q) \notin S}
<1>1. EOF \in T /\ T \in SUBSET Nat
  BY EndOfText
<1>2. PICK m \in T : \A k \in T : m <= k
  BY <1>1, LeastNat
<1>3. \A r \in p..(m - 1) : At(r) \in S
  BY <1>2, EndOfText
<1>. QED BY <1>2, <1>3 DEF ScanOver

\* skip(n) moves the column by n and the position by at most n.
LEMMA SkipMoves ==
  ASSUME code \in Codes, NEW c \in Place, NEW n \in Nat
  PROVE  /\ Skip(c, n).line = c.line /\ Skip(c, n).col = c.col + n
         /\ Skip(c, n).pos >= c.pos
         /\ c.pos + n <= EOF => Skip(c, n).pos = c.pos + n
         /\ c.pos + n > EOF => Skip(c, n).pos = EOF
<1>1. c.pos \in 1..EOF /\ EOF \in Nat
  BY EndOfText DEF Place
<1>. QED BY <1>1 DEF Skip

\* A round that reads up to e and steps back for the loop's skip: the position
\* is e, the column one further than what was read.
LEMMA SkipToStepBack ==
  ASSUME code \in Codes, NEW c \in Place, NEW e \in c.pos..EOF
  PROVE  LET a == Skip(NoIncrement(SkipTo(c, e)), 1)
         IN  a.pos = e /\ a.line = c.line /\ a.col = c.col + (e - c.pos) + 1
<1>. DEFINE b == SkipTo(c, e)
            d == NoIncrement(b)
            a == Skip(d, 1)
<1>1. c.pos \in 1..EOF /\ EOF \in Nat \ {0} /\ e \in 1..EOF /\ e - c.pos \in Nat /\ c.col \in Nat
  BY EndOfText DEF Place, Cursor
<1>2. b \in Place /\ b.pos = e /\ b.line = c.line /\ b.col = c.col + (e - c.pos)
  <2>1. b = Skip(c, e - c.pos)
    BY DEF SkipTo
  <2>. HIDE DEF b
  <2>2. b \in Place
    BY <1>1, <2>1, SkipType
  <2>3. c.pos + (e - c.pos) = e
    BY <1>1
  <2>4. e - c.pos \in Nat /\ c.pos + (e - c.pos) <= EOF
    BY <1>1, <2>3
  <2>5. Skip(c, e - c.pos).pos = e /\ Skip(c, e - c.pos).line = c.line
        /\ Skip(c, e - c.pos).col = c.col + (e - c.pos)
    BY <2>3, <2>4, SkipMoves
  <2>. QED BY <2>1, <2>2, <2>5
<1>. HIDE DEF b
<1>3. d.pos = e - 1 /\ d.line = c.line /\ d.col = c.col + (e - c.pos)
  BY <1>1, <1>2 DEF NoIncrement, Place, Cursor
<1>4. a.pos = e /\ a.line = c.line /\ a.col = c.col + (e - c.pos) + 1
  <2>. HIDE DEF d
  <2>. QED BY <1>1, <1>3 DEF Skip
<1>. QED BY <1>4 DEF a, b, d

(***************************************************************************)
(* Where a round looks for its token                                       *)
(***************************************************************************)

\* a stands before b in the text, by what the lexer says of lines and columns.
Before(a, b) == a.line < b.line \/ (a.line = b.line /\ a.col < b.col)
NotAfter(a, b) == a.line < b.line \/ (a.line = b.line /\ a.col <= b.col)

\* Lines only go up, and what is before something stays before what follows it.
LEMMA BeforeFollows ==
  ASSUME NEW a, a.line \in Nat, a.col \in Nat, NEW b, b.line \in Nat, b.col \in Nat,
         NEW c, c.line \in Nat, c.col \in Nat
  PROVE  /\ Before(a, b) /\ NotAfter(b, c) => Before(a, c)
         /\ NotAfter(a, b) /\ Before(b, c) => Before(a, c)
         /\ NotAfter(a, b) /\ NotAfter(b, c) => NotAfter(a, c)
         /\ Before(a, b) => NotAfter(a, b)
BY DEF Before, NotAfter

\* The newlines of a stretch of the text are finitely many.
LEMMA NewlinesFinite ==
  ASSUME NEW p \in Int, NEW q \in Int
  PROVE  IsFiniteSet(Newlines(p, q)) /\ Cardinality(Newlines(p, q)) \in Nat
<1>1. IsFiniteSet(p..q)
  BY FS_Interval
<1>2. IsFiniteSet(Newlines(p, q))
  BY <1>1, FS_Subset DEF Newlines
<1>. QED BY <1>2, FS_CardinalityType

\* A stretch has the newlines of its two parts.
LEMMA NewlinesAdd ==
  ASSUME NEW p \in Int, NEW m \in Int, NEW q \in Int, p <= m + 1, m <= q
  PROVE  Cardinality(Newlines(p, q)) =
           Cardinality(Newlines(p, m)) + Cardinality(Newlines(m + 1, q))
<1>. DEFINE A == Newlines(p, m)
            B == Newlines(m + 1, q)
<1>1. Newlines(p, q) = A \cup B /\ A \cap B = {}
  BY DEF Newlines
<1>2. IsFiniteSet(A) /\ IsFiniteSet(B) /\ Cardinality(A) \in Nat /\ Cardinality(B) \in Nat
  BY NewlinesFinite
<1>3. Cardinality(A \cup B) = Cardinality(A) + Cardinality(B) - Cardinality(A \cap B)
  BY <1>2, FS_Union
<1>4. Cardinality(A \cap B) = 0
  BY <1>1, FS_EmptySet
<1>5. Cardinality(A \cup B) = Cardinality(A) + Cardinality(B)
  <2>. HIDE DEF A, B
  <2>. QED BY <1>2, <1>3, <1>4
<1>. QED BY <1>1, <1>5

\* A stretch without newlines has none, and a newline counts once.
LEMMA NewlinesOf ==
  ASSUME NEW p \in Int, NEW q \in Int
  PROVE  /\ (\A r \in p..q : At(r) # "\n") => Cardinality(Newlines(p, q)) = 0
         /\ p = q /\ At(p) = "\n" => Cardinality(Newlines(p, q)) = 1
<1>1. ASSUME \A r \in p..q : At(r) # "\n" PROVE Cardinality(Newlines(p, q)) = 0
  <2>1. Newlines(p, q) = {}
    BY <1>1 DEF Newlines
  <2>. QED BY <2>1, FS_EmptySet
<1>2. ASSUME p = q, At(p) = "\n" PROVE Cardinality(Newlines(p, q)) = 1
  <2>1. Newlines(p, q) = {p}
    BY <1>2 DEF Newlines
  <2>. QED BY <2>1, FS_Singleton
<1>. QED BY <1>1, <1>2

\* The end of the block comment that the lexer looks at, and the cursor there.
LEMMA CommentPassed ==
  ASSUME code \in Codes, at \in Place, InComment(at), NEW e \in CommentEnds(at)
  PROVE  LET c == AfterComment(at, e)
         IN  /\ c \in Place /\ c.pos = e + 2 /\ at.pos + 2 <= e /\ e \in Nat
             /\ c.line = at.line + Cardinality(Newlines(at.pos, c.pos - 1))
             /\ Before(at, c)
<1>. DEFINE c == AfterComment(at, e)
            nls == Newlines(at.pos + 2, e - 1)
<1>0. c \in Place
  BY AfterCommentType
<1>1. /\ at.pos \in 1..EOF /\ EOF \in Nat /\ at.line \in Nat /\ at.col \in Nat
      /\ e \in (at.pos + 2)..EOF /\ Looking(e, <<"*", "/">>)
  BY EndOfText DEF Place, Cursor, CommentEnds
<1>2. /\ At(at.pos) = "/" /\ At(at.pos + 1) = "*" /\ At(e) = "*" /\ At(e + 1) = "/"
  BY <1>1, LookingAtTwo DEF InComment
<1>3. c.pos = e + 2 /\ c.line = at.line + Cardinality(nls)
  BY DEF AfterComment
<1>4. nls = {} => c.col = at.col + (e + 2 - at.pos)
  BY DEF AfterComment
<1>5. Cardinality(nls) \in Nat /\ (nls # {} => Cardinality(nls) > 0)
  <2>1. IsFiniteSet(nls) /\ Cardinality(nls) \in Nat
    <3>1. at.pos + 2 \in Int /\ e - 1 \in Int
      BY <1>1
    <3>. QED BY <3>1, NewlinesFinite
  <2>2. nls # {} => Cardinality(nls) # 0
    BY <2>1, FS_EmptySet
  <2>. HIDE DEF nls
  <2>. QED BY <2>1, <2>2
<1>6. Cardinality(Newlines(at.pos, e + 1)) = Cardinality(nls)
  <2>1. Newlines(at.pos, e + 1) = nls
    <3>1. \A r \in at.pos..(e + 1) : At(r) = "\n" => r \in (at.pos + 2)..(e - 1)
      <4>. SUFFICES ASSUME NEW r \in at.pos..(e + 1), At(r) = "\n"
                    PROVE  r \in (at.pos + 2)..(e - 1)
        OBVIOUS
      <4>1. r # at.pos /\ r # at.pos + 1 /\ r # e /\ r # e + 1
        BY <1>2
      <4>. QED BY <1>1, <4>1
    <3>. QED BY <3>1, <1>1 DEF Newlines
  <2>. QED BY <2>1
<1>7. c.pos - 1 = e + 1
  BY <1>1, <1>3
<1>8. Before(at, c)
  <2>. HIDE DEF c
  <2>1. CASE nls = {}
    <3>1. Cardinality(nls) = 0
      BY <2>1, FS_EmptySet
    <3>2. c.line = at.line /\ c.col = at.col + (e + 2 - at.pos)
      BY <1>1, <1>3, <1>4, <2>1, <3>1
    <3>. QED BY <3>2, <1>1 DEF Before
  <2>2. CASE nls # {}
    <3>. HIDE DEF nls
    <3>. QED BY <2>2, <1>1, <1>3, <1>5 DEF Before
  <2>. QED BY <2>1, <2>2
<1>9. c.line = at.line + Cardinality(Newlines(at.pos, c.pos - 1))
  <2>. HIDE DEF c, nls
  <2>. QED BY <1>3, <1>6, <1>7
<1>. QED BY <1>0, <1>1, <1>3, <1>8, <1>9 DEF c

\* Where the round looks for a token: at the cursor, or after the comment it
\* stands at; the newline it finds there is counted already.
LEMMA StartAfter ==
  ASSUME code \in Codes, at \in Place, NEW c \in Starts
  PROVE  /\ c \in Place /\ at.pos <= c.pos /\ NotAfter(at, c)
         /\ c.line = at.line + Cardinality(Newlines(at.pos, c.pos))
         /\ c.pos # at.pos => at.pos < c.pos /\ IsComment(at.pos, c.pos - 1)
<1>0. at.pos \in 1..EOF /\ EOF \in Nat /\ at.line \in Nat /\ at.col \in Nat
  BY EndOfText DEF Place, Cursor
<1>1. \A b \in Place : /\ CountNewline(b) \in Place /\ CountNewline(b).pos = b.pos
                       /\ NotAfter(b, CountNewline(b))
                       /\ CountNewline(b).line = b.line + Cardinality(Newlines(b.pos, b.pos))
  <2>. SUFFICES ASSUME NEW b \in Place
                PROVE  /\ CountNewline(b) \in Place /\ CountNewline(b).pos = b.pos
                       /\ NotAfter(b, CountNewline(b))
                       /\ CountNewline(b).line = b.line + Cardinality(Newlines(b.pos, b.pos))
    OBVIOUS
  <2>1. b.pos \in Int /\ b.line \in Nat /\ b.col \in Nat
    BY EndOfText DEF Place, Cursor
  <2>2. CountNewline(b) \in Place
    BY CountNewlineType
  <2>3. CASE At(b.pos) = "\n"
    <3>1. Cardinality(Newlines(b.pos, b.pos)) = 1
      BY <2>1, <2>3, NewlinesOf
    <3>2. CountNewline(b).pos = b.pos /\ CountNewline(b).line = b.line + 1
      BY <2>3 DEF CountNewline, NextLine
    <3>. QED BY <2>1, <2>2, <3>1, <3>2 DEF NotAfter
  <2>4. CASE At(b.pos) # "\n"
    <3>1. Cardinality(Newlines(b.pos, b.pos)) = 0
      <4>1. \A r \in b.pos..b.pos : At(r) # "\n"
        BY <2>1, <2>4
      <4>. QED BY <2>1, <4>1, NewlinesOf
    <3>2. CountNewline(b) = b
      BY <2>4 DEF CountNewline
    <3>. QED BY <2>1, <2>2, <3>1, <3>2 DEF NotAfter
  <2>. QED BY <2>3, <2>4
<1>2. CASE ~InComment(at)
  <2>1. c = CountNewline(at)
    BY <1>2 DEF Starts
  <2>. QED BY <2>1, <1>0, <1>1
<1>3. CASE InComment(at)
  <2>1. PICK e \in CommentEnds(at) : c = CountNewline(AfterComment(at, e))
    BY <1>3 DEF Starts
  <2>. DEFINE b == AfterComment(at, e)
  <2>2. /\ b \in Place /\ b.pos = e + 2 /\ at.pos + 2 <= e /\ e \in Nat
        /\ b.line = at.line + Cardinality(Newlines(at.pos, b.pos - 1))
        /\ Before(at, b)
    BY <1>3, CommentPassed
  <2>. HIDE DEF b
  <2>3. b.pos \in Int /\ b.line \in Nat /\ b.col \in Nat
    BY <2>2, EndOfText DEF Place, Cursor
  <2>4. /\ c \in Place /\ c.pos = b.pos /\ NotAfter(b, c)
        /\ c.line = b.line + Cardinality(Newlines(b.pos, b.pos))
    BY <2>1, <2>2, <1>1 DEF b
  <2>5. c.line \in Nat /\ c.col \in Nat
    BY <2>4 DEF Place, Cursor
  <2>6. NotAfter(at, c)
    BY <1>0, <2>2, <2>3, <2>4, <2>5 DEF Before, NotAfter
  <2>7. c.line = at.line + Cardinality(Newlines(at.pos, c.pos))
    <3>1. Cardinality(Newlines(at.pos, b.pos)) =
            Cardinality(Newlines(at.pos, b.pos - 1)) + Cardinality(Newlines(b.pos, b.pos))
      <4>1. at.pos \in Int /\ b.pos - 1 \in Int /\ at.pos <= (b.pos - 1) + 1
            /\ b.pos - 1 <= b.pos /\ (b.pos - 1) + 1 = b.pos
        BY <1>0, <2>2, <2>3
      <4>. QED BY <4>1, <2>3, NewlinesAdd
    <3>2. Cardinality(Newlines(at.pos, b.pos - 1)) \in Nat
          /\ Cardinality(Newlines(b.pos, b.pos)) \in Nat
      <4>1. at.pos \in Int /\ b.pos - 1 \in Int /\ b.pos \in Int
        BY <1>0, <2>3
      <4>. QED BY <4>1, NewlinesFinite
    <3>. QED BY <1>0, <2>2, <2>4, <3>1, <3>2
  <2>8. at.pos < c.pos /\ IsComment(at.pos, c.pos - 1)
    <3>1. /\ Looking(at.pos, <<"/", "*">>) /\ Looking(e, <<"*", "/">>)
          /\ \A r \in (at.pos + 2)..(e - 1) : ~Looking(r, <<"*", "/">>)
      BY <1>3 DEF InComment, CommentEnds
    <3>2. c.pos - 1 = e + 1 /\ (e + 1) - 1 = e /\ (e + 1) - 2 = e - 1 /\ at.pos + 3 <= e + 1
          /\ at.pos < c.pos
      BY <1>0, <2>2, <2>3, <2>4
    <3>. QED BY <3>1, <3>2 DEF IsComment
  <2>. QED BY <1>0, <2>2, <2>3, <2>4, <2>6, <2>7, <2>8
<1>. QED BY <1>2, <1>3

(***************************************************************************)
(* What a round of the main loop does                                      *)
(***************************************************************************)

\* The first operator of the list whose symbol is at p has op's symbol.
Found(p, op) ==
  \E i \in SymbolsAt(p) : /\ \A j \in SymbolsAt(p) : i <= j
                          /\ Operators[i].sym = Operators[op].sym

\* A round adds a token whose text ends at `next`, and goes on there; a fat
\* arrow takes one character more.  Only the prefix of a radix literal is passed
\* over, and no newline is read that c has not counted.
ReadsAs(c, type, op, from, next) ==
  /\ Emit(type, op, from, next)
  /\ UNCHANGED <<status, strStart>>
  /\ c.pos <= from.pos /\ from.pos <= next /\ c.pos < next /\ next <= at'.pos
  /\ from.line = c.line /\ from.col = c.col + (from.pos - c.pos)
  /\ at'.line = c.line /\ from.col < at'.col
  /\ from.pos # c.pos => /\ type = "INTEGER" /\ At(c.pos) = "0" /\ from.pos = c.pos + 2
                         /\ At(c.pos + 1) \in RadixLetters
  /\ type # "FAT_ARROW" => at'.pos = next
  /\ type = "FAT_ARROW" =>
       /\ Looking(c.pos, <<"=", ">">>) /\ from.pos = c.pos /\ next = c.pos + 2
       /\ at'.pos = next + 1 \/ (at'.pos = next /\ next = EOF)
  /\ \A r \in c.pos..(next - 1) : At(r) # "\n"
  /\ type = "OPERATOR" =>
       op \in DOMAIN Operators /\ next = from.pos + Len(Operators[op].sym) /\ Found(from.pos, op)
Reads(c) ==
  \E type \in TokenTypes, op \in {0} \cup DOMAIN Operators, from \in Place, next \in Nat :
    ReadsAs(c, type, op, from, next)
\* A round passes over a blank, or finds nothing at the end of the text.
Passes(c) ==
  /\ UNCHANGED <<tokens, status, strStart>>
  /\ at.pos < at'.pos /\ c.pos <= at'.pos /\ at'.pos <= c.pos + 1
  /\ at'.line = c.line /\ c.col <= at'.col
  /\ IF c.pos = at'.pos THEN c.pos = EOF ELSE At(c.pos) \in Space
\* A round begins a string literal.
Opens(c) ==
  /\ At(c.pos) = "\"" /\ at'.pos = c.pos + 1
  /\ at'.line = c.line /\ at'.col = c.col + 1
  /\ status' = "string" /\ strStart' = c /\ UNCHANGED tokens
\* The lexing fails, and nothing else changes.
Fails == status' \in {"error", "uncaught"} /\ UNCHANGED <<at, tokens, strStart>>

\* A number ends after where it started, on the same line.
LEMMA NumberReads ==
  ASSUME code \in Codes, NEW c \in Place, At(c.pos) \in Digit, ~BadRadix(c)
  PROVE  LET s == NumberStart(c)
             e == NumberEnd(c)
         IN  /\ s \in Place /\ s.line = c.line /\ s.col = c.col + (s.pos - c.pos)
             /\ s.pos = c.pos \/ (HasRadix(c) /\ At(c.pos) = "0" /\ s.pos = c.pos + 2)
             /\ HasRadix(c) => Radix(c) # 10
             /\ e \in s.pos..EOF /\ c.pos < e /\ e \in Nat
             /\ \A r \in c.pos..(e - 1) : At(r) # "\n"
<1>. DEFINE s == NumberStart(c)
            e == NumberEnd(c)
            S == ValidForRadix(Radix(c)) \cup {"."}
<1>0. c.pos \in 1..EOF /\ EOF \in Nat \ {0} /\ c.col \in Nat
  BY EndOfText DEF Place, Cursor
<1>1. s \in Place /\ s.pos \in 1..EOF
  BY NumberType DEF Place
<1>2. NUL \notin S /\ "\n" \notin S
  BY DEF NUL, ValidForRadix, HexDigit, Digit, OctDigit
<1>3. /\ e \in s.pos..EOF
      /\ At(e) \notin S
      /\ \A r \in s.pos..(e - 1) : At(r) \in S
  <2>1. e = ScanOver(s.pos, S)
    BY DEF NumberEnd
  <2>. HIDE DEF s, e, S
  <2>. QED BY <1>1, <1>2, <2>1, ScanOverStops
<1>4. CASE HasRadix(c)
  <2>1. At(c.pos) = "0" /\ At(c.pos + 1) \in RadixLetters
    BY <1>4 DEF HasRadix, BadRadix
  <2>2. c.pos + 1 \in 1..(EOF - 1)
    <3>1. At(c.pos + 1) # NUL
      BY <2>1 DEF RadixLetters, NUL
    <3>. QED BY <3>1, CharactersInText
  <2>3. s = Skip(c, 2)
    BY <1>4 DEF NumberStart
  <2>4. s.line = c.line /\ s.col = c.col + 2 /\ s.pos = c.pos + 2
    <3>1. c.pos + 2 <= EOF
      BY <1>0, <2>2
    <3>. HIDE DEF s
    <3>. QED BY <2>3, <3>1, SkipMoves
  <2>5. Radix(c) # 10
    BY <1>4, <2>1 DEF Radix, RadixOf, RadixLetters
  <2>6. At(c.pos + 1) # "\n"
    BY <2>1 DEF RadixLetters
  <2>. HIDE DEF s, e, S
  <2>7. \A r \in c.pos..(e - 1) : At(r) # "\n"
    <3>. SUFFICES ASSUME NEW r \in c.pos..(e - 1) PROVE At(r) # "\n"
      OBVIOUS
    <3>1. r = c.pos \/ r = c.pos + 1 \/ r \in s.pos..(e - 1)
      BY <1>0, <2>4
    <3>. QED BY <3>1, <2>1, <2>6, <1>3, <1>2
  <2>8. e \in s.pos..EOF /\ c.pos < e /\ e \in Nat
    BY <1>0, <1>1, <1>3, <2>4
  <2>9. s.col = c.col + (s.pos - c.pos)
    BY <1>0, <2>4
  <2>. QED BY <1>1, <1>4, <2>1, <2>4, <2>5, <2>7, <2>8, <2>9 DEF s, e
<1>5. CASE ~HasRadix(c)
  <2>1. s = c
    BY <1>5 DEF NumberStart
  <2>2. Digit \subseteq S
    BY <1>5 DEF Radix, ValidForRadix
  <2>. HIDE DEF s, e, S
  <2>3. e # c.pos
    BY <1>3, <2>2
  <2>4. e \in s.pos..EOF /\ c.pos < e /\ e \in Nat
    BY <1>0, <1>3, <2>1, <2>3
  <2>5. \A r \in c.pos..(e - 1) : At(r) # "\n"
    BY <1>2, <1>3, <2>1
  <2>6. s.line = c.line /\ s.col = c.col + (s.pos - c.pos) /\ s.pos = c.pos
    BY <1>0, <2>1
  <2>. QED BY <1>1, <1>5, <2>4, <2>5, <2>6 DEF s, e
<1>. QED BY <1>4, <1>5

(***************************************************************************)
(* The operator table, read by length and characters                       *)
(***************************************************************************)

\* The symbol of an operator is spelt a, or a and b, or a, b and c.
Spelt(op, n) == Len(Operators[op].sym) = n /\ DOMAIN Operators[op].sym = 1..n
One(op, a) == Spelt(op, 1) /\ Operators[op].sym[1] = a
Two(op, a, b) == Spelt(op, 2) /\ Operators[op].sym[1] = a /\ Operators[op].sym[2] = b
Three(op, a, b, c) ==
  /\ Spelt(op, 3)
  /\ Operators[op].sym[1] = a /\ Operators[op].sym[2] = b /\ Operators[op].sym[3] = c

\* The table, one symbol after the other.
LEMMA SymbolTable ==
  /\ Two(1, "=", "=") /\ Two(2, "!", "=") /\ One(3, "=") /\ Two(4, "+", "=")
  /\ Two(5, "-", "=") /\ Two(6, "*", "=") /\ Two(7, "/", "=") /\ Two(8, "%", "=")
  /\ Three(9, "<", "<", "=") /\ Three(10, ">", ">", "=") /\ Two(11, "&", "=") /\ Two(12, "^", "=")
  /\ Two(13, "|", "=") /\ Two(14, ">", ">") /\ Two(15, "<", "<") /\ Two(16, "<", "=")
  /\ One(17, "<") /\ Two(18, ">", "=") /\ One(19, ">") /\ Two(20, "-", "-")
  /\ Two(21, "+", "+") /\ Two(22, ".", ".") /\ One(23, ".") /\ Two(24, "-", "-")
  /\ Two(25, "+", "+") /\ One(26, "-") /\ One(27, "+") /\ One(28, "~")
  /\ One(29, "!") /\ One(30, "*") /\ One(31, "/") /\ One(32, "%")
  /\ One(33, "+") /\ One(34, "-") /\ Two(35, "&", "&") /\ Two(36, "|", "|")
  /\ One(37, "&") /\ One(38, "^") /\ One(39, "|") /\ One(40, ",")
<1>1. /\ Operators[1].sym = <<"=", "=">> /\ Operators[2].sym = <<"!", "=">>
      /\ Operators[3].sym = <<"=">> /\ Operators[4].sym = <<"+", "=">>
      /\ Operators[5].sym = <<"-", "=">> /\ Operators[6].sym = <<"*", "=">>
      /\ Operators[7].sym = <<"/", "=">> /\ Operators[8].sym = <<"%", "=">>
      /\ Operators[9].sym = <<"<", "<", "=">> /\ Operators[10].sym = <<">", ">", "=">>
      /\ Operators[11].sym = <<"&", "=">> /\ Operators[12].sym = <<"^", "=">>
      /\ Operators[13].sym = <<"|", "=">> /\ Operators[14].sym = <<">", ">">>
      /\ Operators[15].sym = <<"<", "<">> /\ Operators[16].sym = <<"<", "=">>
      /\ Operators[17].sym = <<"<">> /\ Operators[18].sym = <<">", "=">>
      /\ Operators[19].sym = <<">">> /\ Operators[20].sym = <<"-", "-">>
      /\ Operators[21].sym = <<"+", "+">> /\ Operators[22].sym = <<".", ".">>
      /\ Operators[23].sym = <<".">> /\ Operators[24].sym = <<"-", "-">>
      /\ Operators[25].sym = <<"+", "+">> /\ Operators[26].sym = <<"-">>
      /\ Operators[27].sym = <<"+">> /\ Operators[28].sym = <<"~">>
      /\ Operators[29].sym = <<"!">> /\ Operators[30].sym = <<"*">>
      /\ Operators[31].sym = <<"/">> /\ Operators[32].sym = <<"%">>
      /\ Operators[33].sym = <<"+">> /\ Operators[34].sym = <<"-">>
      /\ Operators[35].sym = <<"&", "&">> /\ Operators[36].sym = <<"|", "|">>
      /\ Operators[37].sym = <<"&">> /\ Operators[38].sym = <<"^">>
      /\ Operators[39].sym = <<"|">> /\ Operators[40].sym = <<",">>
  BY DEF Operators, Binary, Assign, Prefix, Postfix
<1>2. ASSUME NEW op, NEW a, Operators[op].sym = <<a>> PROVE One(op, a)
  <2>1. Len(<<a>>) = 1 /\ DOMAIN <<a>> = 1..1 /\ <<a>>[1] = a
    OBVIOUS
  <2>. QED BY <1>2, <2>1, Zenon DEF One, Spelt
<1>3. ASSUME NEW op, NEW a, NEW b, Operators[op].sym = <<a, b>> PROVE Two(op, a, b)
  <2>1. Len(<<a, b>>) = 2 /\ DOMAIN <<a, b>> = 1..2 /\ <<a, b>>[1] = a /\ <<a, b>>[2] = b
    OBVIOUS
  <2>. QED BY <1>3, <2>1, Zenon DEF Two, Spelt
<1>4. ASSUME NEW op, NEW a, NEW b, NEW c, Operators[op].sym = <<a, b, c>>
      PROVE  Three(op, a, b, c)
  <2>1. /\ Len(<<a, b, c>>) = 3 /\ DOMAIN <<a, b, c>> = 1..3
        /\ <<a, b, c>>[1] = a /\ <<a, b, c>>[2] = b /\ <<a, b, c>>[3] = c
    OBVIOUS
  <2>. QED BY <1>4, <2>1, Zenon DEF Three, Spelt
<1>. QED BY <1>1, <1>2, <1>3, <1>4, ZenonT(60)

\* The lengths of the symbols, and how they begin.
LEMMA SymbolLengths ==
  /\ Spelt(3, 1) /\ Spelt(17, 1) /\ Spelt(19, 1) /\ Spelt(23, 1) /\ Spelt(26, 1) /\ Spelt(27, 1)
  /\ Spelt(28, 1) /\ Spelt(29, 1) /\ Spelt(30, 1) /\ Spelt(31, 1) /\ Spelt(32, 1) /\ Spelt(33, 1)
  /\ Spelt(34, 1) /\ Spelt(37, 1) /\ Spelt(38, 1) /\ Spelt(39, 1) /\ Spelt(40, 1) /\ Spelt(1, 2)
  /\ Spelt(2, 2) /\ Spelt(4, 2) /\ Spelt(5, 2) /\ Spelt(6, 2) /\ Spelt(7, 2) /\ Spelt(8, 2)
  /\ Spelt(11, 2) /\ Spelt(12, 2) /\ Spelt(13, 2) /\ Spelt(14, 2) /\ Spelt(15, 2) /\ Spelt(16, 2)
  /\ Spelt(18, 2) /\ Spelt(20, 2) /\ Spelt(21, 2) /\ Spelt(22, 2) /\ Spelt(24, 2) /\ Spelt(25, 2)
  /\ Spelt(35, 2) /\ Spelt(36, 2) /\ Spelt(9, 3) /\ Spelt(10, 3)
<1>1. \A k, a : One(k, a) => Spelt(k, 1)
  BY DEF One
<1>2. \A k, a, b : Two(k, a, b) => Spelt(k, 2)
  BY DEF Two
<1>3. \A k, a, b, c : Three(k, a, b, c) => Spelt(k, 3)
  BY DEF Three
<1>. QED BY <1>1, <1>2, <1>3, SymbolTable, ZenonT(60)

\* An entry of the table is as long as any later one that begins with its
\* first character: what its "must be ordered" comes to.
LEMMA LongestFirst ==
  ASSUME NEW i \in DOMAIN Operators, NEW j \in DOMAIN Operators, i < j,
         Operators[i].sym[1] = Operators[j].sym[1]
  PROVE  Len(Operators[j].sym) <= Len(Operators[i].sym)
<1>. DEFINE l(op) == Len(Operators[op].sym)
            f(op) == Operators[op].sym[1]
<1>1. i \in 1..40 /\ j \in 1..40 /\ f(i) = f(j)
  BY OperatorIndices
<1>2. /\ l(1) = 2 /\ l(2) = 2 /\ l(3) = 1 /\ l(4) = 2 /\ l(5) = 2 /\ l(6) = 2 /\ l(7) = 2 /\ l(8) = 2
      /\ l(9) = 3 /\ l(10) = 3 /\ l(11) = 2 /\ l(12) = 2 /\ l(13) = 2 /\ l(14) = 2 /\ l(15) = 2 /\ l(16) = 2
      /\ l(17) = 1 /\ l(18) = 2 /\ l(19) = 1 /\ l(20) = 2 /\ l(21) = 2 /\ l(22) = 2 /\ l(23) = 1 /\ l(24) = 2
      /\ l(25) = 2 /\ l(26) = 1 /\ l(27) = 1 /\ l(28) = 1 /\ l(29) = 1 /\ l(30) = 1 /\ l(31) = 1 /\ l(32) = 1
      /\ l(33) = 1 /\ l(34) = 1 /\ l(35) = 2 /\ l(36) = 2 /\ l(37) = 1 /\ l(38) = 1 /\ l(39) = 1 /\ l(40) = 1
  BY SymbolLengths, ZenonT(60) DEF Spelt
<1>. HIDE DEF l, f
<1>3. \/ i \in 1..8 /\ j \in {9, 10}
      \/ i = 9 /\ j = 10
      \/ i = 3 /\ j \in (4..8) \cup (11..16) \cup {18, 20, 21, 22, 24, 25, 35, 36}
      \/ i = 17 /\ j \in {18, 20, 21, 22, 24, 25, 35, 36}
      \/ i = 19 /\ j \in {20, 21, 22, 24, 25, 35, 36}
      \/ i = 23 /\ j \in {24, 25, 35, 36}
      \/ i \in 26..34 /\ j \in {35, 36}
      \/ l(j) <= l(i)
  BY <1>1, <1>2

<1>4. ASSUME i \in 1..8 /\ j \in {9, 10} PROVE FALSE
  <2>1. /\ f(1) = "=" /\ f(2) = "!" /\ f(3) = "=" /\ f(4) = "+" /\ f(5) = "-"
        /\ f(6) = "*" /\ f(7) = "/" /\ f(8) = "%" /\ f(9) = "<" /\ f(10) = ">"
    BY SymbolTable, ZenonT(60) DEF One, Two, Three, f
  <2>. QED BY <1>1, <1>4, <2>1
<1>5. ASSUME i = 9 /\ j = 10 PROVE FALSE
  <2>1. /\ f(9) = "<" /\ f(10) = ">"
    BY SymbolTable, ZenonT(60) DEF One, Two, Three, f
  <2>. QED BY <1>1, <1>5, <2>1
<1>6. ASSUME i = 3 /\ j \in (4..8) \cup (11..16) PROVE FALSE
  <2>1. /\ f(3) = "=" /\ f(4) = "+" /\ f(5) = "-" /\ f(6) = "*" /\ f(7) = "/"
        /\ f(8) = "%" /\ f(11) = "&" /\ f(12) = "^" /\ f(13) = "|" /\ f(14) = ">"
        /\ f(15) = "<" /\ f(16) = "<"
    BY SymbolTable, ZenonT(60) DEF One, Two, Three, f
  <2>. QED BY <1>1, <1>6, <2>1
<1>7. ASSUME i = 3 /\ j \in {18, 20, 21, 22, 24, 25, 35, 36} PROVE FALSE
  <2>1. /\ f(3) = "=" /\ f(18) = ">" /\ f(20) = "-" /\ f(21) = "+" /\ f(22) = "."
        /\ f(24) = "-" /\ f(25) = "+" /\ f(35) = "&" /\ f(36) = "|"
    BY SymbolTable, ZenonT(60) DEF One, Two, Three, f
  <2>. QED BY <1>1, <1>7, <2>1
<1>8. ASSUME i = 17 /\ j \in {18, 20, 21, 22, 24, 25, 35, 36} PROVE FALSE
  <2>1. /\ f(17) = "<" /\ f(18) = ">" /\ f(20) = "-" /\ f(21) = "+" /\ f(22) = "."
        /\ f(24) = "-" /\ f(25) = "+" /\ f(35) = "&" /\ f(36) = "|"
    BY SymbolTable, ZenonT(60) DEF One, Two, Three, f
  <2>. QED BY <1>1, <1>8, <2>1
<1>9. ASSUME i = 19 /\ j \in {20, 21, 22, 24, 25, 35, 36} PROVE FALSE
  <2>1. /\ f(19) = ">" /\ f(20) = "-" /\ f(21) = "+" /\ f(22) = "." /\ f(24) = "-"
        /\ f(25) = "+" /\ f(35) = "&" /\ f(36) = "|"
    BY SymbolTable, ZenonT(60) DEF One, Two, Three, f
  <2>. QED BY <1>1, <1>9, <2>1
<1>10. ASSUME i = 23 /\ j \in {24, 25, 35, 36} PROVE FALSE
  <2>1. /\ f(23) = "." /\ f(24) = "-" /\ f(25) = "+" /\ f(35) = "&" /\ f(36) = "|"
    BY SymbolTable, ZenonT(60) DEF One, Two, Three, f
  <2>. QED BY <1>1, <1>10, <2>1
<1>11. ASSUME i \in 26..34 /\ j \in {35, 36} PROVE FALSE
  <2>1. /\ f(26) = "-" /\ f(27) = "+" /\ f(28) = "~" /\ f(29) = "!" /\ f(30) = "*"
        /\ f(31) = "/" /\ f(32) = "%" /\ f(33) = "+" /\ f(34) = "-" /\ f(35) = "&"
        /\ f(36) = "|"
    BY SymbolTable, ZenonT(60) DEF One, Two, Three, f
  <2>. QED BY <1>1, <1>11, <2>1
<1>. QED BY <1>3, <1>4, <1>5, <1>6, <1>7, <1>8, <1>9, <1>10, <1>11 DEF l

\* A symbol has no newline, and none of its characters is past the end.
LEMMA SymbolCharacters ==
  ASSUME NEW op \in DOMAIN Operators
  PROVE  /\ Len(Operators[op].sym) \in 1..3
         /\ DOMAIN Operators[op].sym = 1..Len(Operators[op].sym)
         /\ \A k \in DOMAIN Operators[op].sym : Operators[op].sym[k] \notin {"\n", NUL}
<1>. DEFINE Fine(c) == c # "\n" /\ c # NUL
            Plain(i) == /\ Len(Operators[i].sym) \in 1..3
                        /\ DOMAIN Operators[i].sym = 1..Len(Operators[i].sym)
                        /\ \A k \in DOMAIN Operators[i].sym : Fine(Operators[i].sym[k])
<1>1. /\ Fine("=") /\ Fine("!") /\ Fine("+") /\ Fine("-") /\ Fine("*") /\ Fine("/")
      /\ Fine("%") /\ Fine("<") /\ Fine(">") /\ Fine("&") /\ Fine("^") /\ Fine("|")
      /\ Fine(".") /\ Fine("~") /\ Fine(",")
  BY DEF NUL
<1>. HIDE DEF Fine
<1>2. \A i, a : One(i, a) /\ Fine(a) => Plain(i)
  BY DEF One, Spelt
<1>3. \A i, a, b : Two(i, a, b) /\ Fine(a) /\ Fine(b) => Plain(i)
  BY DEF Two, Spelt
<1>4. \A i, a, b, c : Three(i, a, b, c) /\ Fine(a) /\ Fine(b) /\ Fine(c) => Plain(i)
  BY DEF Three, Spelt
<1>. HIDE DEF Plain
<1>5. /\ Plain(1) /\ Plain(2) /\ Plain(3) /\ Plain(4) /\ Plain(5) /\ Plain(6) /\ Plain(7) /\ Plain(8)
      /\ Plain(9) /\ Plain(10) /\ Plain(11) /\ Plain(12) /\ Plain(13) /\ Plain(14) /\ Plain(15) /\ Plain(16)
      /\ Plain(17) /\ Plain(18) /\ Plain(19) /\ Plain(20) /\ Plain(21) /\ Plain(22) /\ Plain(23) /\ Plain(24)
      /\ Plain(25) /\ Plain(26) /\ Plain(27) /\ Plain(28) /\ Plain(29) /\ Plain(30) /\ Plain(31) /\ Plain(32)
      /\ Plain(33) /\ Plain(34) /\ Plain(35) /\ Plain(36) /\ Plain(37) /\ Plain(38) /\ Plain(39) /\ Plain(40)
  <2>1. /\ Plain(1) /\ Plain(2) /\ Plain(3) /\ Plain(4) /\ Plain(5) /\ Plain(6) /\ Plain(7) /\ Plain(8)
    BY <1>1, <1>2, <1>3, <1>4, SymbolTable, ZenonT(60)
  <2>2. /\ Plain(9) /\ Plain(10) /\ Plain(11) /\ Plain(12) /\ Plain(13) /\ Plain(14) /\ Plain(15) /\ Plain(16)
    BY <1>1, <1>2, <1>3, <1>4, SymbolTable, ZenonT(60)
  <2>3. /\ Plain(17) /\ Plain(18) /\ Plain(19) /\ Plain(20) /\ Plain(21) /\ Plain(22) /\ Plain(23) /\ Plain(24)
    BY <1>1, <1>2, <1>3, <1>4, SymbolTable, ZenonT(60)
  <2>4. /\ Plain(25) /\ Plain(26) /\ Plain(27) /\ Plain(28) /\ Plain(29) /\ Plain(30) /\ Plain(31) /\ Plain(32)
    BY <1>1, <1>2, <1>3, <1>4, SymbolTable, ZenonT(60)
  <2>5. /\ Plain(33) /\ Plain(34) /\ Plain(35) /\ Plain(36) /\ Plain(37) /\ Plain(38) /\ Plain(39) /\ Plain(40)
    BY <1>1, <1>2, <1>3, <1>4, SymbolTable, ZenonT(60)
  <2>. QED BY <2>1, <2>2, <2>3, <2>4, <2>5
<1>6. op \in 1..40
  BY OperatorIndices
<1>7. Plain(op)
  BY <1>5, <1>6
<1>. QED BY <1>7 DEF Plain, Fine

(***************************************************************************)
(* Each kind of round                                                      *)
(***************************************************************************)

\* Where there is a character a round can go on.
LEMMA InText ==
  ASSUME code \in Codes, NEW c \in Place, At(c.pos) # NUL
  PROVE  c.pos \in 1..(EOF - 1) /\ c.pos \in Nat /\ c.col \in Nat /\ c.line \in Nat
BY CharactersInText, EndOfText DEF Place, Cursor

\* A token of one character.
LEMMA OneCharacter ==
  ASSUME code \in Codes, NEW c \in Place, At(c.pos) \notin {NUL, "\n"},
         NEW type \in TokenTypes \ {"FAT_ARROW", "OPERATOR"},
         Emit(type, 0, c, c.pos + 1), at' = Skip(c, 1), UNCHANGED <<status, strStart>>
  PROVE  Reads(c)
<1>1. c.pos \in 1..(EOF - 1) /\ c.pos \in Nat /\ c.col \in Nat /\ c.line \in Nat /\ EOF \in Nat
  BY InText, EndOfText
<1>2. at'.pos = c.pos + 1 /\ at'.line = c.line /\ at'.col = c.col + 1
  BY <1>1, SkipMoves
<1>3. 0 \in {0} \cup DOMAIN Operators /\ c.pos + 1 \in Nat /\ c \in Place
  BY <1>1
<1>4. \A r \in c.pos..((c.pos + 1) - 1) : At(r) # "\n"
  BY <1>1
<1>5. /\ c.pos <= c.pos /\ c.pos <= c.pos + 1 /\ c.pos < c.pos + 1 /\ c.pos + 1 <= at'.pos
      /\ c.col = c.col + (c.pos - c.pos) /\ c.col < at'.col
  BY <1>1, <1>2
<1>6. ReadsAs(c, type, 0, c, c.pos + 1)
  BY <1>2, <1>4, <1>5 DEF ReadsAs
<1>. QED BY <1>3, <1>6 DEF Reads

\* A number literal, its radix prefix included.
LEMMA NumberRound ==
  ASSUME code \in Codes, NEW c \in Place, NumberLiteral(c)
  PROVE  Reads(c)
<1>. DEFINE s == NumberStart(c)
            e == NumberEnd(c)
            type == IF Dots(c) = {} THEN "INTEGER" ELSE "FLOAT"
<1>1. /\ s \in Place /\ s.line = c.line /\ s.col = c.col + (s.pos - c.pos)
      /\ s.pos = c.pos \/ (HasRadix(c) /\ At(c.pos) = "0" /\ s.pos = c.pos + 2)
      /\ HasRadix(c) => Radix(c) # 10
      /\ e \in s.pos..EOF /\ c.pos < e /\ e \in Nat
      /\ \A r \in c.pos..(e - 1) : At(r) # "\n"
  BY NumberReads DEF NumberLiteral
<1>2. HasRadix(c) => type = "INTEGER" /\ At(c.pos + 1) \in RadixLetters
  BY <1>1 DEF NumberLiteral, BadNumber, BadRadix
<1>3. /\ Emit(type, 0, s, e) /\ UNCHANGED <<status, strStart>>
      /\ at' = Skip(NoIncrement(SkipTo(c, e)), 1)
  BY DEF NumberLiteral
<1>4. type \in TokenTypes \ {"FAT_ARROW", "OPERATOR"}
  BY DEF TokenTypes, TerminalTypes
<1>5. c.pos \in 1..EOF /\ EOF \in Nat /\ c.col \in Nat /\ s.pos \in 1..EOF
  BY <1>1, EndOfText DEF Place, Cursor
<1>. HIDE DEF s, e, type
<1>6. e \in c.pos..EOF
  BY <1>1, <1>5
<1>7. at'.pos = e /\ at'.line = c.line /\ at'.col = c.col + (e - c.pos) + 1
  BY <1>3, <1>6, SkipToStepBack
<1>8. c.pos <= s.pos /\ s.pos <= e /\ e <= at'.pos /\ s.col < at'.col
  BY <1>1, <1>5, <1>6, <1>7
<1>9. ReadsAs(c, type, 0, s, e)
  BY <1>1, <1>2, <1>3, <1>4, <1>7, <1>8 DEF ReadsAs
<1>. QED BY <1>1, <1>4, <1>9 DEF Reads

\* A fat arrow and the character after it.
LEMMA ArrowRound ==
  ASSUME code \in Codes, NEW c \in Place, FatArrow(c)
  PROVE  Reads(c)
<1>0. c.pos \in 1..EOF /\ EOF \in Nat /\ c.col \in Nat
  BY EndOfText DEF Place, Cursor
<1>1. At(c.pos) = "=" /\ At(c.pos + 1) = ">"
  BY <1>0, LookingAtTwo DEF FatArrow
<1>2. c.pos + 1 \in 1..(EOF - 1)
  <2>1. At(c.pos + 1) # NUL
    BY <1>1 DEF NUL
  <2>. QED BY <2>1, CharactersInText
<1>. DEFINE d == Skip(c, 2)
<1>3. d \in Place /\ d.pos = c.pos + 2 /\ d.line = c.line /\ d.col = c.col + 2
  <2>1. c.pos + 2 <= EOF
    BY <1>0, <1>2
  <2>. QED BY <2>1, SkipType, SkipMoves
<1>4. at' = Skip(d, 1) /\ Emit("FAT_ARROW", 0, c, c.pos + 2) /\ UNCHANGED <<status, strStart>>
      /\ Looking(c.pos, <<"=", ">">>)
  BY DEF FatArrow
<1>. HIDE DEF d
<1>5. /\ at'.line = c.line /\ at'.col = c.col + 3 /\ c.pos + 2 <= at'.pos
      /\ at'.pos = (c.pos + 2) + 1 \/ (at'.pos = c.pos + 2 /\ c.pos + 2 = EOF)
  <2>1. /\ Skip(d, 1).line = d.line /\ Skip(d, 1).col = d.col + 1
        /\ d.pos + 1 <= EOF => Skip(d, 1).pos = d.pos + 1
        /\ d.pos + 1 > EOF => Skip(d, 1).pos = EOF
    BY <1>3, SkipMoves
  <2>. QED BY <1>0, <1>2, <1>3, <1>4, <2>1
<1>6. \A r \in c.pos..((c.pos + 2) - 1) : At(r) # "\n"
  <2>. SUFFICES ASSUME NEW r \in c.pos..((c.pos + 2) - 1) PROVE At(r) # "\n"
    OBVIOUS
  <2>1. r = c.pos \/ r = c.pos + 1
    BY <1>0
  <2>. QED BY <1>1, <2>1
<1>7. /\ c.pos <= c.pos /\ c.pos <= c.pos + 2 /\ c.pos < c.pos + 2
      /\ c.col = c.col + (c.pos - c.pos) /\ c.col < at'.col /\ c.pos + 2 \in Nat
  BY <1>0, <1>5
<1>8. ReadsAs(c, "FAT_ARROW", 0, c, c.pos + 2)
  BY <1>4, <1>5, <1>6, <1>7 DEF ReadsAs
<1>. QED BY <1>7, <1>8 DEF Reads, TokenTypes

\* What findOperator and the fixity choose has the symbol that is there.
LEMMA OperatorFound ==
  ASSUME NEW p, NEW op \in FindOperator(p)
  PROVE  op \in DOMAIN Operators /\ Found(p, op) /\ Looking(p, Operators[op].sym)
<1>. DEFINE first == {i \in SymbolsAt(p) : \A j \in SymbolsAt(p) : i <= j}
<1>1. PICK i \in first : op \in DOMAIN Operators /\ Operators[op].sym = Operators[i].sym
  <2>. DEFINE Entry(sym, fixity) ==
                {k \in DOMAIN Operators : Operators[k].sym = sym /\ Operators[k].fixity = fixity}
              Refined(k) ==
                LET sym == Operators[k].sym IN
                IF sym \in {<<"+", "+">>, <<"-", "-">>}
                THEN Entry(sym, DetermineFixity("PREFIX", "POSTFIX", "PREFIX"))
                ELSE IF sym \in {<<"+">>, <<"-">>}
                THEN Entry(sym, DetermineFixity("PREFIX", "INFIX", "PREFIX"))
                ELSE {k}
  <2>1. FindOperator(p) = UNION {Refined(k) : k \in first}
    BY DEF FindOperator
  <2>2. \A k \in first : k \in DOMAIN Operators
    BY DEF SymbolsAt
  <2>3. \A k \in first : \A o \in Refined(k) :
          o \in DOMAIN Operators /\ Operators[o].sym = Operators[k].sym
    BY <2>2, Zenon
  <2>. HIDE DEF first, Refined
  <2>. QED BY <2>1, <2>3
<1>2. Looking(p, Operators[i].sym)
  BY DEF SymbolsAt
<1>. QED BY <1>1, <1>2 DEF Found

\* An operator, read to the end of its symbol.
LEMMA OperatorRound ==
  ASSUME code \in Codes, NEW c \in Place, OperatorToken(c)
  PROVE  Reads(c)
<1>1. PICK op \in FindOperator(c.pos) :
        /\ Emit("OPERATOR", op, c, c.pos + Len(Operators[op].sym))
        /\ OperatorMoves(c, op)
  BY DEF OperatorToken
<1>2. op \in DOMAIN Operators /\ Found(c.pos, op) /\ Looking(c.pos, Operators[op].sym)
  BY OperatorFound
<1>. DEFINE sym == Operators[op].sym
            n == Len(sym)
            e == c.pos + n
<1>3. n \in 1..3 /\ DOMAIN sym = 1..n /\ \A k \in 1..n : sym[k] \notin {"\n", NUL}
  BY <1>2, SymbolCharacters
<1>4. c.pos \in 1..EOF /\ EOF \in Nat /\ c.col \in Nat
  BY EndOfText DEF Place, Cursor
<1>. HIDE DEF n
<1>5. \A k \in 1..n : At(c.pos + k - 1) \notin {"\n", NUL}
  <2>1. \A k \in 1..n : At(c.pos + k - 1) = sym[k]
    BY <1>2, <1>3 DEF Looking
  <2>. QED BY <2>1, <1>3
<1>6. \A r \in c.pos..(e - 1) : At(r) # "\n"
  <2>. SUFFICES ASSUME NEW r \in c.pos..(e - 1) PROVE At(r) # "\n"
    OBVIOUS
  <2>1. (r - c.pos) + 1 \in 1..n /\ c.pos + ((r - c.pos) + 1) - 1 = r
    BY <1>3, <1>4
  <2>. QED BY <2>1, <1>5
<1>7. e <= EOF
  <2>1. n \in 1..n
    BY <1>3
  <2>2. c.pos + n - 1 \in 1..(EOF - 1)
    BY <2>1, <1>5, CharactersInText
  <2>. QED BY <2>2, <1>3, <1>4
<1>8. at'.pos = e /\ at'.line = c.line /\ at'.col = c.col + n + 1
  <2>1. e \in c.pos..EOF /\ e - c.pos = n
    BY <1>3, <1>4, <1>7
  <2>2. at' = Skip(NoIncrement(SkipTo(c, e)), 1)
    BY <1>1, <2>1 DEF OperatorMoves, SkipTo, n
  <2>3. LET a == Skip(NoIncrement(SkipTo(c, e)), 1)
        IN  a.pos = e /\ a.line = c.line /\ a.col = c.col + (e - c.pos) + 1
    BY <2>1, SkipToStepBack
  <2>. QED BY <2>1, <2>2, <2>3
<1>9. /\ Emit("OPERATOR", op, c, e) /\ UNCHANGED <<status, strStart>>
      /\ e = c.pos + Len(Operators[op].sym)
  BY <1>1 DEF OperatorToken, n
<1>10. /\ c.pos <= c.pos /\ c.pos <= e /\ c.pos < e /\ e <= at'.pos /\ e \in Nat
       /\ c.col = c.col + (c.pos - c.pos) /\ c.col < at'.col
  BY <1>3, <1>4, <1>8
<1>. HIDE DEF e, sym
<1>11. ReadsAs(c, "OPERATOR", op, c, e)
  BY <1>2, <1>6, <1>8, <1>9, <1>10 DEF ReadsAs
<1>. QED BY <1>2, <1>10, <1>11 DEF Reads, TokenTypes

\* A word is read to its end; an empty one is found at the end of the text only.
LEMMA WordRound ==
  ASSUME code \in Codes, at \in Place, at.pos # EOF, NEW c \in Place, at.pos <= c.pos, Word(c)
  PROVE  Fails \/ Reads(c) \/ Passes(c)
<1>. DEFINE S == NotIdentifierChars \cup {"\\"}
            e == ScanTo(c.pos, S)
            type == WordType(SubSeq(code, c.pos, e - 1))
<1>1. c.pos \in 1..EOF /\ EOF \in Nat /\ c.col \in Nat /\ at.pos \in 1..EOF
  BY EndOfText DEF Place, Cursor
<1>2. /\ e \in c.pos..EOF
      /\ e = EOF \/ At(e) \in S
      /\ \A r \in c.pos..(e - 1) : At(r) \notin S
  <2>. HIDE DEF S
  <2>. QED BY <1>1, ScanToStops
<1>3. At(c.pos) \notin Space \cup Digit \cup OperatorChars \cup ConstructChars \cup {"\""}
  BY DEF Word
<1>4. \/ At(e) = "\\" /\ Fail("error")
      \/ /\ At(e) # "\\"
         /\ IF e = c.pos THEN UNCHANGED tokens ELSE Emit(type, 0, c, e)
         /\ at' = Skip(NoIncrement(SkipTo(c, e)), 1)
         /\ UNCHANGED <<status, strStart>>
  BY DEF Word
<1>5. type \in TokenTypes \ {"FAT_ARROW", "OPERATOR"}
  BY DEF WordType, TokenTypes, TerminalTypes
<1>6. "\n" \in S
  BY DEF NotIdentifierChars
<1>7. e = c.pos /\ At(e) # "\\" => c.pos = EOF
  <2>. SUFFICES ASSUME e = c.pos, At(e) # "\\", c.pos # EOF PROVE FALSE
    OBVIOUS
  <2>1. At(c.pos) \in S /\ At(c.pos) # "\\"
    BY <1>2
  <2>2. At(c.pos) = NUL
    BY <2>1, <1>3 DEF NotIdentifierChars, Space
  <2>3. c.pos \in 1..(EOF - 1)
    BY <1>1
  <2>. QED BY <2>2, <2>3, CharactersInText
<1>. HIDE DEF S, e, type
<1>8. CASE At(e) = "\\" /\ Fail("error")
  BY <1>8 DEF Fail, Fails
<1>9. CASE /\ At(e) # "\\"
           /\ IF e = c.pos THEN UNCHANGED tokens ELSE Emit(type, 0, c, e)
           /\ at' = Skip(NoIncrement(SkipTo(c, e)), 1)
           /\ UNCHANGED <<status, strStart>>
  <2>1. at'.pos = e /\ at'.line = c.line /\ at'.col = c.col + (e - c.pos) + 1
    BY <1>2, <1>9, SkipToStepBack
  <2>2. CASE e = c.pos
    <3>1. /\ c.pos = EOF /\ at'.pos = EOF /\ at.pos < EOF /\ EOF <= EOF + 1 /\ EOF <= EOF
          /\ at'.line = c.line /\ c.col <= at'.col
      BY <2>1, <2>2, <1>1, <1>7, <1>9
    <3>2. UNCHANGED <<tokens, status, strStart>>
      BY <2>2, <1>9
    <3>3. Passes(c)
      BY <3>1, <3>2 DEF Passes
    <3>. QED BY <3>3
  <2>3. CASE e # c.pos
    <3>1. /\ c.pos <= c.pos /\ c.pos <= e /\ c.pos < e /\ e <= at'.pos /\ e \in Nat
          /\ c.col = c.col + (c.pos - c.pos) /\ c.col < at'.col
      BY <1>1, <1>2, <2>1, <2>3
    <3>2. \A r \in c.pos..(e - 1) : At(r) # "\n"
      BY <1>2, <1>6
    <3>3. ReadsAs(c, type, 0, c, e)
      BY <1>5, <1>9, <2>1, <2>3, <3>1, <3>2 DEF ReadsAs
    <3>. QED BY <1>5, <3>1, <3>3 DEF Reads
  <2>. QED BY <2>2, <2>3
<1>. QED BY <1>4, <1>8, <1>9

\* Every round fails, adds a token, passes over a blank or begins a string.
LEMMA RoundShape ==
  ASSUME TypeInv, at.pos # EOF, NEW c \in Starts,
         \/ Blank(c) \/ NumberError(c) \/ NumberLiteral(c) \/ StringBegin(c)
         \/ OpenGroup(c) \/ CloseGroup(c) \/ Mismatch(c) \/ PlainConstruct(c)
         \/ FatArrow(c) \/ OperatorToken(c) \/ Word(c)
  PROVE  Fails \/ Reads(c) \/ Passes(c) \/ Opens(c)
<1>0. code \in Codes /\ at \in Place /\ c \in Place /\ at.pos <= c.pos
  BY StartAfter DEF TypeInv
<1>1. at.pos \in Nat /\ c.pos \in 1..EOF /\ EOF \in Nat /\ c.col \in Nat
  BY <1>0, EndOfText DEF Place, Cursor
<1>2. ASSUME At(c.pos) # NUL
      PROVE  Skip(c, 1).pos = c.pos + 1 /\ Skip(c, 1).line = c.line /\ Skip(c, 1).col = c.col + 1
  <2>1. c.pos + 1 <= EOF
    BY <1>0, <1>1, <1>2, InText
  <2>. QED BY <1>0, <2>1, SkipMoves
<1>3. CASE Blank(c)
  <2>1. At(c.pos) \in Space /\ At(c.pos) # NUL
    BY <1>3 DEF Blank, Space, NUL
  <2>2. at' = Skip(c, 1) /\ UNCHANGED <<tokens, status, strStart>>
    BY <1>3 DEF Blank
  <2>. QED BY <1>0, <1>1, <1>2, <2>1, <2>2 DEF Passes
<1>4. CASE NumberError(c) \/ Mismatch(c)
  BY <1>4 DEF NumberError, Mismatch, Fail, Fails
<1>5. CASE NumberLiteral(c)
  BY <1>0, <1>5, NumberRound
<1>6. CASE StringBegin(c)
  <2>1. At(c.pos) = "\"" /\ At(c.pos) # NUL
    BY <1>6 DEF StringBegin, NUL
  <2>. QED BY <1>2, <1>6, <2>1 DEF StringBegin, Opens
<1>7. CASE OpenGroup(c)
  <2>. DEFINE t == IF At(c.pos) = "(" THEN DetermineParenBeginType ELSE "SQPAREN_LEFT"
  <2>1. t \in TokenTypes \ {"FAT_ARROW", "OPERATOR"}
    BY DEF DetermineParenBeginType, TokenTypes, OpenTypes
  <2>2. /\ Emit(t, 0, c, c.pos + 1) /\ at' = Skip(c, 1) /\ UNCHANGED <<status, strStart>>
        /\ At(c.pos) \notin {NUL, "\n"}
    BY <1>7 DEF OpenGroup, NUL
  <2>. HIDE DEF t
  <2>. QED BY <1>0, <2>1, <2>2, OneCharacter
<1>8. CASE CloseGroup(c)
  <2>. DEFINE t == CloserType(At(c.pos))
  <2>1. t \in TokenTypes \ {"FAT_ARROW", "OPERATOR"}
    BY <1>8 DEF CloserType, ConstructType, CloseGroup, TokenTypes, CloseTypes
  <2>2. /\ Emit(t, 0, c, c.pos + 1) /\ at' = Skip(c, 1) /\ UNCHANGED <<status, strStart>>
        /\ At(c.pos) \notin {NUL, "\n"}
    BY <1>8 DEF CloseGroup, NUL
  <2>. HIDE DEF t
  <2>. QED BY <1>0, <2>1, <2>2, OneCharacter
<1>9. CASE PlainConstruct(c)
  <2>. DEFINE t == ConstructType(At(c.pos))
  <2>1. t \in TokenTypes \ {"FAT_ARROW", "OPERATOR"}
    BY <1>9 DEF ConstructType, PlainConstruct, TokenTypes
  <2>2. /\ Emit(t, 0, c, c.pos + 1) /\ at' = Skip(c, 1) /\ UNCHANGED <<status, strStart>>
        /\ At(c.pos) \notin {NUL, "\n"}
    BY <1>9 DEF PlainConstruct, NUL
  <2>. HIDE DEF t
  <2>. QED BY <1>0, <2>1, <2>2, OneCharacter
<1>10. CASE FatArrow(c)
  BY <1>0, <1>10, ArrowRound
<1>11. CASE OperatorToken(c)
  BY <1>0, <1>11, OperatorRound
<1>12. CASE Word(c)
  BY <1>0, <1>12, WordRound
<1>. QED BY <1>3, <1>4, <1>5, <1>6, <1>7, <1>8, <1>9, <1>10, <1>11, <1>12

(***************************************************************************)
(* Every step of the lexer                                                 *)
(***************************************************************************)

\* A line comment is passed over, with the newline after it.
PassesLine ==
  /\ Looking(at.pos, <<"/", "/">>) /\ UNCHANGED <<tokens, status, strStart>>
  /\ at.pos < at'.pos /\ at'.line = at.line /\ at.col < at'.col
  /\ \E l \in at.pos..(at'.pos - 1) :
       IsComment(at.pos, l) /\ \A r \in (l + 1)..(at'.pos - 1) : At(r) \in Space
\* A character or an escape of a string literal, and its end.
ReadsString ==
  /\ UNCHANGED <<tokens, status, strStart>>
  /\ at.pos < at'.pos /\ at'.line = at.line /\ at.col < at'.col
ClosesString ==
  /\ Emit("STRING", 0, strStart, at.pos + 1) /\ status' = "lexing" /\ UNCHANGED strStart
  /\ at'.pos = at.pos + 1 /\ at'.line = at.line /\ at.col < at'.col
\* The end of an accepted text.
Completes ==
  /\ Emit("FILE_END", 0, at, EOF) /\ status' = "done"
  /\ at.pos = EOF /\ UNCHANGED <<at, strStart>>

\* In front of the end, every skip moves.
LEMMA SkipAdvances ==
  ASSUME code \in Codes, NEW c \in Place, c.pos # EOF, NEW n \in Nat \ {0}
  PROVE  Skip(c, n).pos > c.pos /\ Skip(c, n).line = c.line /\ c.col < Skip(c, n).col
<1>1. c.pos \in 1..EOF /\ EOF \in Nat /\ c.col \in Nat
  BY EndOfText DEF Place, Cursor
<1>2. /\ Skip(c, n).line = c.line /\ Skip(c, n).col = c.col + n
      /\ c.pos + n <= EOF => Skip(c, n).pos = c.pos + n
      /\ c.pos + n > EOF => Skip(c, n).pos = EOF
  BY SkipMoves
<1>. QED BY <1>1, <1>2

\* A line comment moves at least over its slashes.
LEMMA LineShape ==
  ASSUME TypeInv, LineComment
  PROVE  PassesLine
<1>. DEFINE e == ScanTo(at.pos, {"\n"})
            b == SkipTo(at, e)
<1>0. code \in Codes /\ at \in Place /\ at.pos \in 1..EOF /\ EOF \in Nat /\ at.col \in Nat
  BY EndOfText DEF TypeInv, Place, Cursor
<1>1. Looking(at.pos, <<"/", "/">>) /\ at' = Skip(b, 1) /\ UNCHANGED <<tokens, status, strStart>>
  BY DEF LineComment
<1>2. At(at.pos) = "/" /\ at.pos # EOF
  <2>1. At(at.pos) = "/"
    BY <1>0, <1>1, LookingAtTwo
  <2>. QED BY <1>0, <2>1, EndOfText DEF NUL
<1>3. e \in at.pos..EOF /\ (e = EOF \/ At(e) \in {"\n"})
  BY <1>0, ScanToStops
<1>4. e # at.pos
  BY <1>2, <1>3
<1>5. b = Skip(at, e - at.pos) /\ e - at.pos \in Nat \ {0}
  BY <1>0, <1>3, <1>4 DEF SkipTo
<1>. HIDE DEF e, b
<1>6. b \in Place /\ b.pos > at.pos /\ b.line = at.line /\ b.col > at.col
  <2>1. b \in Place
    BY <1>0, <1>5, SkipType
  <2>2. b.pos > at.pos /\ b.line = at.line /\ at.col < b.col
    BY <1>0, <1>2, <1>5, SkipAdvances
  <2>3. b.col \in Nat
    BY <2>1 DEF Place, Cursor
  <2>. QED BY <1>0, <2>1, <2>2, <2>3
<1>7. at'.pos >= b.pos /\ at'.line = b.line /\ at'.col = b.col + 1 /\ at'.pos \in Nat
  <2>1. 1 \in Nat
    OBVIOUS
  <2>2. Skip(b, 1).pos >= b.pos /\ Skip(b, 1).line = b.line /\ Skip(b, 1).col = b.col + 1
    BY <1>0, <1>6, <2>1, SkipMoves
  <2>3. Skip(b, 1).pos \in Nat
    BY <1>0, <1>6, <2>1, SkipType DEF Place, Cursor
  <2>. QED BY <1>1, <2>2, <2>3
<1>8. b.pos \in Nat /\ b.col \in Nat
  BY <1>6 DEF Place, Cursor
<1>9. \E l \in at.pos..(at'.pos - 1) :
        IsComment(at.pos, l) /\ \A r \in (l + 1)..(at'.pos - 1) : At(r) \in Space
  <2>1. b.pos = e /\ e \in Nat
    BY <1>0, <1>3, <1>5, SkipMoves
  <2>2. at'.pos <= e + 1 /\ (at'.pos # e => e # EOF)
    <3>1. /\ e + 1 <= EOF => Skip(b, 1).pos = e + 1
          /\ e + 1 > EOF => Skip(b, 1).pos = EOF
      <4>1. 1 \in Nat
        OBVIOUS
      <4>. QED BY <1>0, <1>6, <2>1, <4>1, SkipMoves
    <3>. QED BY <1>0, <1>1, <1>3, <2>1, <3>1
  <2>3. e - 1 \in at.pos..(at'.pos - 1)
    BY <1>0, <1>3, <1>4, <1>7, <2>1
  <2>4. IsComment(at.pos, e - 1)
    <3>1. \A r \in at.pos..(e - 1) : At(r) \notin {"\n"}
      BY <1>0, ScanToStops DEF e
    <3>2. \A r \in at.pos..(e - 1) : At(r) # NUL
      BY <1>0, <1>3, CharactersInText
    <3>3. At(e) \in {"\n", NUL} /\ (e - 1) + 1 = e
      BY <1>0, <1>3, <2>1, EndOfText
    <3>. QED BY <1>1, <3>1, <3>2, <3>3 DEF IsComment
  <2>5. \A r \in ((e - 1) + 1)..(at'.pos - 1) : At(r) \in Space
    <3>. SUFFICES ASSUME NEW r \in ((e - 1) + 1)..(at'.pos - 1) PROVE At(r) \in Space
      OBVIOUS
    <3>1. r = e /\ at'.pos # e
      BY <1>7, <2>1, <2>2
    <3>2. At(e) = "\n"
      BY <1>3, <2>2, <3>1
    <3>. QED BY <3>1, <3>2 DEF Space
  <2>. QED BY <2>3, <2>4, <2>5
<1>. QED BY <1>0, <1>1, <1>6, <1>7, <1>8, <1>9 DEF PassesLine

\* Every step inside a string literal moves in it, ends it or fails.
LEMMA StringShape ==
  ASSUME TypeInv, LexString
  PROVE  Fails \/ ReadsString \/ ClosesString
<1>0. code \in Codes /\ at \in Place /\ at.pos \in 1..EOF /\ EOF \in Nat /\ at.col \in Nat
  BY EndOfText DEF TypeInv, Place, Cursor
<1>1. ASSUME at.pos # EOF, NEW n \in {1, 2, 4}, at' = Skip(at, n),
             UNCHANGED <<tokens, status, strStart>>
      PROVE  ReadsString
  BY <1>0, <1>1, SkipAdvances DEF ReadsString
<1>2. \A how \in {"error", "uncaught"} : Fail(how) => Fails
  BY DEF Fail, Fails
<1>3. \A ch : At(at.pos) = ch /\ ch # NUL => at.pos # EOF
  BY <1>0, EndOfText
<1>4. CASE StringChar
  BY <1>1, <1>4 DEF StringChar
<1>5. CASE StringEscape
  <2>1. at.pos # EOF
    BY <1>3, <1>5 DEF StringEscape, NUL
  <2>. QED BY <1>1, <1>2, <1>5, <2>1 DEF StringEscape
<1>6. CASE StringEnd
  <2>1. at.pos # EOF
    BY <1>3, <1>6 DEF StringEnd, NUL
  <2>2. /\ Skip(at, 1).line = at.line /\ at.col < Skip(at, 1).col
        /\ at.pos + 1 <= EOF => Skip(at, 1).pos = at.pos + 1
    <3>1. 1 \in Nat \ {0}
      OBVIOUS
    <3>. QED BY <1>0, <2>1, <3>1, SkipAdvances, SkipMoves
  <2>3. at.pos + 1 <= EOF /\ at.pos < at.pos + 1
    BY <1>0, <2>1
  <2>4. /\ at' = Skip(at, 1) /\ status' = "lexing" /\ UNCHANGED strStart
        /\ Emit("STRING", 0, strStart, at.pos + 1)
    BY <1>6 DEF StringEnd
  <2>. QED BY <2>1, <2>2, <2>3, <2>4 DEF ClosesString
<1>7. CASE StringUnclosed
  BY <1>2, <1>7 DEF StringUnclosed
<1>. QED BY <1>4, <1>5, <1>6, <1>7 DEF LexString

\* Every step is one of the few below: what the five invariants are proved from.
LEMMA StepShape ==
  ASSUME TypeInv, Next
  PROVE  \/ Fails
         \/ status = "lexing" /\ (PassesLine \/ Completes)
         \/ /\ status = "lexing" /\ at.pos # EOF
            /\ \E c \in Starts : Reads(c) \/ Passes(c) \/ Opens(c)
         \/ status = "string" /\ (ReadsString \/ ClosesString)
<1>1. CASE LineComment
  BY <1>1, LineShape DEF LineComment
<1>2. CASE Finish
  BY <1>2 DEF Finish, Fail, Fails, Completes
<1>3. CASE LexString
  BY <1>3, StringShape DEF LexString
<1>4. CASE LexToken
  <2>1. CASE UnclosedComment
    BY <2>1 DEF UnclosedComment, Fail, Fails
  <2>2. ASSUME NEW c \in Starts,
               \/ Blank(c) \/ NumberError(c) \/ NumberLiteral(c) \/ StringBegin(c)
               \/ OpenGroup(c) \/ CloseGroup(c) \/ Mismatch(c) \/ PlainConstruct(c)
               \/ FatArrow(c) \/ OperatorToken(c) \/ Word(c)
        PROVE  Fails \/ \E d \in Starts : Reads(d) \/ Passes(d) \/ Opens(d)
    <3>1. at.pos # EOF
      BY <1>4 DEF LexToken
    <3>. QED BY <2>2, <3>1, RoundShape
  <2>. QED BY <1>4, <2>1, <2>2 DEF LexToken
<1>. QED BY <1>1, <1>2, <1>3, <1>4 DEF Next

\* The list after a token was added to it.
LEMMA Added ==
  ASSUME TypeInv, NEW type, NEW op, NEW from, NEW next, Emit(type, op, from, next)
  PROVE  LET t == Token(type, op, from, next)
         IN  /\ Len(tokens) \in Nat /\ DOMAIN tokens = 1..Len(tokens)
             /\ Len(tokens') = Len(tokens) + 1 /\ DOMAIN tokens' = 1..(Len(tokens) + 1)
             /\ \A i \in DOMAIN tokens : tokens'[i] = tokens[i]
             /\ tokens'[Len(tokens) + 1] = t /\ tokens' # <<>>
<1>. DEFINE t == Token(type, op, from, next)
<1>1. tokens \in Seq(TokenSet) /\ tokens' = Append(tokens, t)
  BY DEF TypeInv, TokensOK, Emit
<1>. HIDE DEF t
<1>2. /\ Len(tokens) \in Nat /\ DOMAIN tokens = 1..Len(tokens)
      /\ Len(Append(tokens, t)) = Len(tokens) + 1
      /\ DOMAIN Append(tokens, t) = 1..(Len(tokens) + 1)
      /\ \A i \in 1..Len(tokens) : Append(tokens, t)[i] = tokens[i]
      /\ Append(tokens, t)[Len(tokens) + 1] = t
      /\ Append(tokens, t) # <<>>
  BY <1>1
<1>. QED BY <1>1, <1>2 DEF t

\* Each step moves forward in the text or ends the lexing, and takes back no
\* token: noIncrement and the loop's own skip cancel out.
THEOREM AlwaysMovesForward == Spec => MovesForward
<1>. DEFINE Forward == /\ status' \in {"lexing", "string"} => at.pos < at'.pos
                       /\ Len(tokens) <= Len(tokens')
                       /\ \A i \in DOMAIN tokens : tokens'[i] = tokens[i]
<1>1. TypeInv /\ Next => Forward
  <2>. SUFFICES ASSUME TypeInv, Next PROVE Forward
    OBVIOUS
  <2>0. /\ code \in Codes /\ at \in Place /\ at.pos \in Nat /\ Len(tokens) \in Nat
        /\ \A c \in Starts : at.pos <= c.pos /\ c.pos \in Nat
    <3>1. code \in Codes /\ at \in Place /\ tokens \in Seq(TokenSet)
      BY DEF TypeInv, TokensOK
    <3>2. \A c \in Starts : c \in Place /\ at.pos <= c.pos
      BY <3>1, StartAfter
    <3>. QED BY <3>1, <3>2 DEF Place, Cursor
  <2>1. CASE Fails
    BY <2>0, <2>1 DEF Fails
  <2>2. CASE PassesLine \/ ReadsString
    BY <2>0, <2>2 DEF PassesLine, ReadsString
  <2>3. CASE Completes
    BY <2>0, <2>3, Added DEF Completes
  <2>4. CASE ClosesString
    BY <2>0, <2>4, Added DEF ClosesString
  <2>5. ASSUME NEW c \in Starts, Reads(c) PROVE Forward
    <3>1. PICK type \in TokenTypes, op \in {0} \cup DOMAIN Operators, from \in Place,
               next \in Nat : ReadsAs(c, type, op, from, next)
      BY <2>5 DEF Reads
    <3>2. /\ Len(tokens) <= Len(tokens')
          /\ \A i \in DOMAIN tokens : tokens'[i] = tokens[i]
      BY <2>0, <3>1, Added DEF ReadsAs
    <3>3. c.pos < next /\ next <= at'.pos /\ at' \in [pos : Nat, line : Nat, col : Nat]
      <4>1. TypeInv'
        BY TypeInvStep
      <4>. QED BY <3>1, <4>1 DEF ReadsAs, TypeInv, Place, Cursor
    <3>. QED BY <2>0, <2>5, <3>2, <3>3
  <2>6. ASSUME NEW c \in Starts, Passes(c) PROVE Forward
    BY <2>0, <2>6 DEF Passes
  <2>7. ASSUME NEW c \in Starts, Opens(c) PROVE Forward
    <3>1. at'.pos = c.pos + 1 /\ tokens' = tokens
      BY <2>7 DEF Opens
    <3>2. at.pos <= c.pos /\ c.pos \in Nat /\ at.pos \in Nat
      BY <2>0
    <3>. QED BY <2>0, <3>1, <3>2
  <2>. QED BY <2>1, <2>2, <2>3, <2>4, <2>5, <2>6, <2>7, StepShape
<1>2. TypeInv /\ [Next]_vars => [Forward]_vars
  BY <1>1
<1>. QED BY <1>2, TypeInvHolds, PTL DEF Spec, MovesForward

(***************************************************************************)
(* Tokens stand in the order of the text                                   *)
(***************************************************************************)

Reading == status \in {"lexing", "string"}
\* Where the next token cannot begin before: a string literal begins at its quote.
Here == IF status = "string" THEN strStart ELSE at
\* The tokens so far stand before c.
TokensBefore(c) == tokens # <<>> => LastToken.next <= c.pos /\ Before(LastToken, c)
EachEndsAfterItsStart == \A i \in DOMAIN tokens : tokens[i].first <= tokens[i].next

\* What a reader of the traces relies on, with what the next token needs to go on:
\* the last token is before the cursor, and an open string literal too.
PlacesInv ==
  /\ TracesAscend
  /\ EachEndsAfterItsStart
  /\ status = "string" => strStart.pos < at.pos /\ Before(strStart, at)
  /\ Reading => TokensBefore(Here)

\* The numbers a token and a cursor hold.
LEMMA PlaceNumbers ==
  ASSUME TypeInv
  PROVE  /\ \A c \in Place : c.pos \in Nat /\ c.line \in Nat /\ c.col \in Nat
         /\ at \in Place /\ strStart \in Place /\ code \in Codes
         /\ \A i \in DOMAIN tokens : /\ tokens[i].first \in Nat /\ tokens[i].next \in Nat
                                     /\ tokens[i].line \in Nat /\ tokens[i].col \in Nat
         /\ Len(tokens) \in Nat /\ DOMAIN tokens = 1..Len(tokens)
         /\ tokens # <<>> => Len(tokens) \in DOMAIN tokens
<1>1. tokens \in Seq(TokenSet) /\ at \in Place /\ strStart \in Place /\ code \in Codes
  BY DEF TypeInv, TokensOK
<1>2. \A i \in DOMAIN tokens : tokens[i] \in TokenSet
  BY <1>1
<1>3. /\ Len(tokens) \in Nat /\ DOMAIN tokens = 1..Len(tokens)
      /\ tokens # <<>> => Len(tokens) \in DOMAIN tokens
  BY <1>1
<1>4. \A t \in TokenSet : t.first \in Nat /\ t.next \in Nat /\ t.line \in Nat /\ t.col \in Nat
  BY DEF TokenSet
<1>. QED BY <1>1, <1>2, <1>3, <1>4 DEF Place, Cursor

\* A token that stands after the others keeps them in order.
LEMMA PlacesAdded ==
  ASSUME TypeInv, TracesAscend, EachEndsAfterItsStart,
         NEW type, NEW op, NEW from \in Place, NEW next \in Nat, Emit(type, op, from, next),
         from.pos <= next, TokensBefore(from)
  PROVE  /\ TracesAscend' /\ EachEndsAfterItsStart'
         /\ tokens' # <<>> /\ LastToken' = Token(type, op, from, next)
<1>. DEFINE t == Token(type, op, from, next)
            n == Len(tokens)
<1>1. /\ n \in Nat /\ DOMAIN tokens = 1..n /\ Len(tokens') = n + 1 /\ DOMAIN tokens' = 1..(n + 1)
      /\ \A i \in 1..n : tokens'[i] = tokens[i]
      /\ tokens'[n + 1] = t /\ tokens' # <<>>
  BY Added
<1>2. t.first = from.pos /\ t.next = next /\ t.line = from.line /\ t.col = from.col
  BY DEF Token
<1>3. n # 0 => tokens[n].next <= from.pos /\ Before(tokens[n], from) /\ tokens[n].first <= tokens[n].next
  <2>1. n # 0 => tokens # <<>>
    OBVIOUS
  <2>. QED BY <1>1, <2>1 DEF TokensBefore, LastToken, EachEndsAfterItsStart
<1>. HIDE DEF t, n
<1>4. EachEndsAfterItsStart'
  <2>1. \A i \in 1..(n + 1) : tokens'[i].first <= tokens'[i].next
    <3>. SUFFICES ASSUME NEW i \in 1..(n + 1) PROVE tokens'[i].first <= tokens'[i].next
      OBVIOUS
    <3>1. CASE i \in 1..n
      BY <1>1, <3>1 DEF EachEndsAfterItsStart
    <3>2. CASE i = n + 1
      BY <1>1, <1>2, <3>2
    <3>. QED BY <1>1, <3>1, <3>2
  <2>. QED BY <1>1, <2>1 DEF EachEndsAfterItsStart
<1>5. TracesAscend'
  <2>. DEFINE Ordered(a, b) == /\ a.first <= a.next /\ a.next <= b.first
                               /\ a.line < b.line \/ (a.line = b.line /\ a.col < b.col)
  <2>1. \A i \in 1..(n - 1) : Ordered(tokens[i], tokens[i + 1])
    BY DEF TracesAscend, n
  <2>2. n # 0 => Ordered(tokens[n], t)
    BY <1>2, <1>3 DEF Before
  <2>. HIDE DEF Ordered
  <2>3. \A i \in 1..n : Ordered(tokens'[i], tokens'[i + 1])
    <3>. SUFFICES ASSUME NEW i \in 1..n PROVE Ordered(tokens'[i], tokens'[i + 1])
      OBVIOUS
    <3>1. CASE i # n
      <4>1. i \in 1..(n - 1) /\ i + 1 \in 1..n
        BY <1>1, <3>1
      <4>. QED BY <1>1, <2>1, <4>1
    <3>2. CASE i = n
      <4>1. n # 0
        BY <1>1, <3>2
      <4>. QED BY <1>1, <2>2, <3>2, <4>1
    <3>. QED BY <3>1, <3>2
  <2>4. 1..(Len(tokens') - 1) = 1..n
    BY <1>1
  <2>. QED BY <2>3, <2>4 DEF Ordered, TracesAscend
<1>6. LastToken' = t
  BY <1>1 DEF LastToken
<1>. QED BY <1>1, <1>4, <1>5, <1>6 DEF t

\* A step that leaves the tokens leaves their order.
LEMMA PlacesKept ==
  ASSUME TracesAscend, EachEndsAfterItsStart, UNCHANGED tokens
  PROVE  /\ TracesAscend' /\ EachEndsAfterItsStart'
         /\ LastToken' = LastToken /\ (tokens' = <<>> <=> tokens = <<>>)
BY DEF TracesAscend, EachEndsAfterItsStart, LastToken

\* What is before c is before what follows c.
LEMMA TokensBeforeFollows ==
  ASSUME TypeInv, NEW b \in Place, NEW c \in Place, TokensBefore(b), b.pos <= c.pos, NotAfter(b, c)
  PROVE  TokensBefore(c)
<1>. SUFFICES ASSUME tokens # <<>> PROVE LastToken.next <= c.pos /\ Before(LastToken, c)
  BY DEF TokensBefore
<1>1. /\ LastToken.next \in Nat /\ LastToken.line \in Nat /\ LastToken.col \in Nat
      /\ b.pos \in Nat /\ b.line \in Nat /\ b.col \in Nat
      /\ c.pos \in Nat /\ c.line \in Nat /\ c.col \in Nat
  BY PlaceNumbers DEF LastToken
<1>2. LastToken.next <= b.pos /\ Before(LastToken, b)
  BY DEF TokensBefore
<1>3. Before(LastToken, c)
  BY <1>1, <1>2, BeforeFollows
<1>. QED BY <1>1, <1>2, <1>3

\* Each step keeps the tokens in order and before the cursor.
LEMMA PlacesStep == TypeInv /\ PlacesInv /\ [Next]_vars => PlacesInv'
<1>. SUFFICES ASSUME TypeInv, PlacesInv, [Next]_vars PROVE PlacesInv'
  OBVIOUS
<1>0. TypeInv'
  BY TypeInvStep
<1>1. /\ at \in Place /\ strStart \in Place /\ at' \in Place' /\ strStart' \in Place'
      /\ Place' = Place
  <2>1. code' = code
    BY DEF Next, vars
  <2>. QED BY <1>0, <2>1 DEF TypeInv, Place, EOF
<1>2. /\ \A c \in Place : c.pos \in Nat /\ c.line \in Nat /\ c.col \in Nat
      /\ code \in Codes
  BY PlaceNumbers
<1>3. /\ TracesAscend /\ EachEndsAfterItsStart
      /\ status = "string" => strStart.pos < at.pos /\ Before(strStart, at)
      /\ Reading => TokensBefore(Here)
  BY DEF PlacesInv
<1>4. CASE UNCHANGED vars
  <2>1. PlacesInv' <=> PlacesInv
    BY <1>4 DEF vars, PlacesInv, TracesAscend, EachEndsAfterItsStart, Before, Reading,
                TokensBefore, LastToken, Here
  <2>. QED BY <2>1
<1>5. ASSUME UNCHANGED tokens, TokensBefore(Here'), (status = "string")' =>
               (strStart.pos < at.pos)' /\ Before(strStart, at)'
      PROVE  PlacesInv'
  <2>1. TracesAscend' /\ EachEndsAfterItsStart' /\ LastToken' = LastToken
        /\ (tokens' = <<>> <=> tokens = <<>>)
    BY <1>3, <1>5, PlacesKept
  <2>2. TokensBefore(Here)'
    BY <1>5, <2>1 DEF TokensBefore, Before
  <2>. QED BY <1>5, <2>1, <2>2 DEF PlacesInv
<1>6. ASSUME NEW type, NEW op, NEW from \in Place, NEW next \in Nat, Emit(type, op, from, next),
             from.pos <= next, TokensBefore(from), status' # "string",
             Reading' => next <= at'.pos /\ Before(from, at')
      PROVE  PlacesInv'
  <2>1. /\ TracesAscend' /\ EachEndsAfterItsStart'
        /\ tokens' # <<>> /\ LastToken' = Token(type, op, from, next)
    BY <1>3, <1>6, PlacesAdded
  <2>2. Reading' => TokensBefore(Here)'
    BY <1>6, <2>1 DEF TokensBefore, Here, Token, Before
  <2>. QED BY <1>6, <2>1, <2>2 DEF PlacesInv
<1>7. ASSUME Next, Fails PROVE PlacesInv'
  <2>1. TracesAscend' /\ EachEndsAfterItsStart'
    BY <1>3, <1>7, PlacesKept DEF Fails
  <2>. QED BY <1>7, <2>1 DEF PlacesInv, Fails, Reading
<1>8. ASSUME status = "lexing", PassesLine PROVE PlacesInv'
  <2>1. Here = at /\ Here' = at' /\ status' # "string" /\ UNCHANGED tokens
    BY <1>8 DEF PassesLine, Here
  <2>2. TokensBefore(at) /\ at.pos <= at'.pos /\ NotAfter(at, at')
    BY <1>1, <1>2, <1>3, <1>8, <2>1 DEF Reading, PassesLine, NotAfter
  <2>3. TokensBefore(at')
    BY <1>1, <2>2, TokensBeforeFollows
  <2>. QED BY <1>5, <2>1, <2>3
<1>9. ASSUME status = "lexing", Completes PROVE PlacesInv'
  <2>1. Here = at /\ status' # "string" /\ ~Reading' /\ Emit("FILE_END", 0, at, EOF)
    BY <1>9 DEF Completes, Here, Reading
  <2>2. TokensBefore(at) /\ at.pos <= EOF /\ EOF \in Nat
    BY <1>2, <1>3, <1>9, <2>1, EndOfText DEF Reading, Completes
  <2>. QED BY <1>1, <1>6, <2>1, <2>2
<1>10. ASSUME status = "string", ReadsString PROVE PlacesInv'
  <2>1. Here = strStart /\ Here' = strStart /\ UNCHANGED <<tokens, strStart>>
    BY <1>10 DEF ReadsString, Here
  <2>2. TokensBefore(strStart) /\ strStart.pos < at'.pos /\ Before(strStart, at')
    BY <1>1, <1>2, <1>3, <1>10, <2>1 DEF Reading, ReadsString, Before
  <2>3. (strStart.pos < at.pos)' /\ Before(strStart, at)'
    BY <2>1, <2>2 DEF Before
  <2>. QED BY <1>5, <2>1, <2>2, <2>3
<1>11. ASSUME status = "string", ClosesString PROVE PlacesInv'
  <2>1. Here = strStart /\ Emit("STRING", 0, strStart, at.pos + 1) /\ status' # "string"
    BY <1>11 DEF ClosesString, Here
  <2>2. /\ TokensBefore(strStart) /\ strStart.pos <= at.pos + 1 /\ at.pos + 1 \in Nat
        /\ at.pos + 1 <= at'.pos /\ Before(strStart, at')
    BY <1>1, <1>2, <1>3, <1>11, <2>1 DEF Reading, ClosesString, Before
  <2>. QED BY <1>1, <1>6, <2>1, <2>2
<1>12. ASSUME status = "lexing", NEW c \in Starts, Reads(c) \/ Passes(c) \/ Opens(c)
       PROVE  PlacesInv'
  <2>1. c \in Place /\ at.pos <= c.pos /\ NotAfter(at, c)
    BY <1>1, <1>2, StartAfter
  <2>2. TokensBefore(c)
    <3>1. TokensBefore(at)
      BY <1>3, <1>12 DEF Reading, Here
    <3>. QED BY <1>1, <2>1, <3>1, TokensBeforeFollows
  <2>3. CASE Reads(c)
    <3>1. PICK type \in TokenTypes, op \in {0} \cup DOMAIN Operators, from \in Place,
               next \in Nat : ReadsAs(c, type, op, from, next)
      BY <2>3 DEF Reads
    <3>2. /\ Emit(type, op, from, next) /\ status' # "string"
          /\ c.pos <= from.pos /\ from.pos <= next /\ next <= at'.pos
          /\ from.line = c.line /\ from.col = c.col + (from.pos - c.pos)
          /\ at'.line = c.line /\ from.col < at'.col
      BY <1>12, <3>1 DEF ReadsAs
    <3>3. NotAfter(c, from) /\ Before(from, at')
      BY <1>1, <1>2, <2>1, <3>2 DEF NotAfter, Before
    <3>4. TokensBefore(from)
      BY <2>1, <2>2, <3>2, <3>3, TokensBeforeFollows
    <3>. QED BY <1>6, <3>2, <3>3, <3>4
  <2>4. CASE Passes(c)
    <3>1. Here' = at' /\ status' # "string" /\ UNCHANGED tokens
      BY <1>12, <2>4 DEF Passes, Here
    <3>2. c.pos <= at'.pos /\ NotAfter(c, at')
      BY <2>4 DEF Passes, NotAfter
    <3>3. TokensBefore(at')
      BY <1>1, <2>1, <2>2, <3>2, TokensBeforeFollows
    <3>. QED BY <1>5, <3>1, <3>3
  <2>5. CASE Opens(c)
    <3>1. Here' = c /\ strStart' = c /\ UNCHANGED tokens
      BY <2>5 DEF Opens, Here
    <3>2. c.pos < at'.pos /\ Before(c, at')
      <4>1. c.pos \in Nat /\ c.col \in Nat
        BY <1>2, <2>1
      <4>2. at'.pos = c.pos + 1 /\ at'.line = c.line /\ at'.col = c.col + 1
        BY <2>5 DEF Opens
      <4>. QED BY <4>1, <4>2 DEF Before
    <3>3. (strStart.pos < at.pos)' /\ Before(strStart, at)'
      BY <3>1, <3>2 DEF Before
    <3>. QED BY <1>5, <2>2, <3>1, <3>3
  <2>. QED BY <1>12, <2>3, <2>4, <2>5
<1>13. CASE Next
  BY <1>13, <1>7, <1>8, <1>9, <1>10, <1>11, <1>12, StepShape
<1>. QED BY <1>4, <1>13

\* No token stands anywhere at first.
LEMMA PlacesInit == Init => PlacesInv
<1>. SUFFICES ASSUME Init PROVE PlacesInv
  OBVIOUS
<1>1. tokens = <<>> /\ status = "lexing"
  BY DEF Init
<1>2. DOMAIN tokens = {} /\ 1..(Len(tokens) - 1) = {}
  BY <1>1
<1>. QED BY <1>1, <1>2 DEF PlacesInv, TracesAscend, EachEndsAfterItsStart, TokensBefore

\* Tokens are found in the order of the text, none overlaps the next, and the
\* traces (line, then column) never run backwards: what error messages point at
\* is in the order of the source, whatever comments and literals are in between.
THEOREM TracesAlwaysAscend == Spec => []TracesAscend
<1>1. PlacesInv => TracesAscend
  BY DEF PlacesInv
<1>. QED BY <1>1, PlacesInit, PlacesStep, TypeInvHolds, PTL DEF Spec

(***************************************************************************)
(* The longest operator is taken                                           *)
(***************************************************************************)

\* No symbol that is where t was found goes further than t does.
TakesLongest(t) ==
  t.type = "OPERATOR" =>
    \A op \in DOMAIN Operators :
      Looking(t.first, Operators[op].sym) => t.first + Len(Operators[op].sym) <= t.next

\* The first symbol of the list that is there is the longest that is there.
LEMMA FirstIsLongest ==
  ASSUME NEW p \in Nat, NEW op \in DOMAIN Operators, Found(p, op),
         NEW k \in DOMAIN Operators, Looking(p, Operators[k].sym)
  PROVE  Len(Operators[k].sym) <= Len(Operators[op].sym)
<1>1. PICK i \in SymbolsAt(p) : /\ \A j \in SymbolsAt(p) : i <= j
                                /\ Operators[i].sym = Operators[op].sym
  BY DEF Found
<1>2. i \in DOMAIN Operators /\ Looking(p, Operators[i].sym) /\ k \in SymbolsAt(p)
  BY DEF SymbolsAt
<1>3. \A j \in DOMAIN Operators :
        Looking(p, Operators[j].sym) => At(p) = Operators[j].sym[1]
  <2>. SUFFICES ASSUME NEW j \in DOMAIN Operators, Looking(p, Operators[j].sym)
                PROVE  At(p) = Operators[j].sym[1]
    OBVIOUS
  <2>1. 1 \in DOMAIN Operators[j].sym
    BY SymbolCharacters
  <2>2. p + 1 - 1 = p
    OBVIOUS
  <2>. QED BY <2>1, <2>2 DEF Looking
<1>4. i = k \/ i < k
  BY <1>1, <1>2, OperatorIndices
<1>5. Len(Operators[k].sym) <= Len(Operators[i].sym)
  <2>1. CASE i = k
    <3>1. Len(Operators[k].sym) \in Nat
      BY SymbolCharacters
    <3>. QED BY <2>1, <3>1
  <2>2. CASE i < k
    BY <1>2, <1>3, <2>2, LongestFirst
  <2>. QED BY <1>4, <2>1, <2>2
<1>. QED BY <1>1, <1>5

\* Each step takes the longest symbol, and no text changes under a token.
LEMMA LongestStep == TypeInv /\ LongestOperator /\ [Next]_vars => LongestOperator'
<1>. SUFFICES ASSUME TypeInv, LongestOperator, [Next]_vars PROVE LongestOperator'
  OBVIOUS
<1>1. code' = code
  BY DEF Next, vars
<1>2. \A i \in DOMAIN tokens : TakesLongest(tokens[i])
  BY DEF LongestOperator, TakesLongest
<1>3. (\A i \in DOMAIN tokens' : TakesLongest(tokens'[i])) => LongestOperator'
  BY <1>1 DEF LongestOperator, TakesLongest, Looking, At
<1>4. CASE UNCHANGED tokens
  BY <1>2, <1>3, <1>4
<1>5. ASSUME NEW type, NEW op, NEW from, NEW next, Emit(type, op, from, next),
             TakesLongest(Token(type, op, from, next))
      PROVE  LongestOperator'
  <2>1. /\ Len(tokens) \in Nat /\ DOMAIN tokens = 1..Len(tokens)
        /\ DOMAIN tokens' = 1..(Len(tokens) + 1)
        /\ \A i \in DOMAIN tokens : tokens'[i] = tokens[i]
        /\ tokens'[Len(tokens) + 1] = Token(type, op, from, next)
    BY <1>5, Added
  <2>2. ASSUME NEW i \in DOMAIN tokens' PROVE TakesLongest(tokens'[i])
    <3>1. CASE i \in DOMAIN tokens
      BY <1>2, <2>1, <3>1
    <3>2. CASE i = Len(tokens) + 1
      BY <1>5, <2>1, <3>2
    <3>. QED BY <2>1, <2>2, <3>1, <3>2
  <2>. QED BY <1>3, <2>2
<1>6. \A type, op, from, next : type # "OPERATOR" => TakesLongest(Token(type, op, from, next))
  BY DEF TakesLongest, Token
<1>7. ASSUME NEW c \in Starts, Reads(c) PROVE LongestOperator'
  <2>1. PICK type \in TokenTypes, op \in {0} \cup DOMAIN Operators, from \in Place,
             next \in Nat : ReadsAs(c, type, op, from, next)
    BY <1>7 DEF Reads
  <2>2. Emit(type, op, from, next)
    BY <2>1 DEF ReadsAs
  <2>3. CASE type = "OPERATOR"
    <3>1. op \in DOMAIN Operators /\ next = from.pos + Len(Operators[op].sym)
          /\ Found(from.pos, op)
      BY <2>1, <2>3 DEF ReadsAs
    <3>2. from.pos \in Nat
      BY PlaceNumbers
    <3>3. \A k \in DOMAIN Operators :
            Looking(from.pos, Operators[k].sym)
              => Len(Operators[k].sym) <= Len(Operators[op].sym)
      BY <3>1, <3>2, FirstIsLongest
    <3>4. \A k \in DOMAIN Operators : Len(Operators[k].sym) \in Nat
      BY SymbolCharacters
    <3>5. \A k \in DOMAIN Operators :
            Looking(from.pos, Operators[k].sym) => from.pos + Len(Operators[k].sym) <= next
      <4>. SUFFICES ASSUME NEW k \in DOMAIN Operators, Looking(from.pos, Operators[k].sym)
                    PROVE  from.pos + Len(Operators[k].sym) <= next
        OBVIOUS
      <4>1. Len(Operators[k].sym) <= Len(Operators[op].sym)
            /\ Len(Operators[k].sym) \in Nat /\ Len(Operators[op].sym) \in Nat
        BY <3>1, <3>3, <3>4
      <4>. QED BY <3>1, <3>2, <4>1
    <3>6. TakesLongest(Token(type, op, from, next))
      BY <3>5 DEF TakesLongest, Token
    <3>. QED BY <1>5, <2>2, <3>6
  <2>4. CASE type # "OPERATOR"
    BY <1>5, <1>6, <2>2, <2>4
  <2>. QED BY <2>3, <2>4
<1>8. CASE Completes
  <2>1. Emit("FILE_END", 0, at, EOF)
    BY <1>8 DEF Completes
  <2>. QED BY <1>5, <1>6, <2>1
<1>9. CASE ClosesString
  <2>1. Emit("STRING", 0, strStart, at.pos + 1)
    BY <1>9 DEF ClosesString
  <2>. QED BY <1>5, <1>6, <2>1
<1>10. CASE Next
  <2>1. \A c \in Starts : Passes(c) \/ Opens(c) => UNCHANGED tokens
    BY DEF Passes, Opens
  <2>2. Fails \/ PassesLine \/ ReadsString => UNCHANGED tokens
    BY DEF Fails, PassesLine, ReadsString
  <2>. QED BY <1>4, <1>7, <1>8, <1>9, <1>10, <2>1, <2>2, StepShape
<1>11. CASE UNCHANGED vars
  BY <1>4, <1>11 DEF vars
<1>. QED BY <1>10, <1>11

\* The order of the operator list makes the lexer take the longest symbol that
\* is there, as the list's "must be ordered" asks for: "<<=" is never read as
\* "<<" and "=", nor ">=" as ">" and "=".
THEOREM LongestAlwaysTaken == Spec => []LongestOperator
<1>1. Init => LongestOperator
  BY DEF Init, LongestOperator
<1>. QED BY <1>1, LongestStep, TypeInvHolds, PTL DEF Spec

(***************************************************************************)
(* Lines are counted                                                       *)
(***************************************************************************)

\* The text has something after which a newline goes uncounted: a line comment,
\* a string literal, a fat arrow at the end of a line.
Uncounted ==
  \E q \in DOMAIN code :
    \/ Looking(q, <<"/", "/">>) \/ At(q) = "\"" \/ Looking(q, <<"=", ">", "\n">>)
\* In any other text the line is right, and the lexer is in no string literal.
LineInv ==
  Uncounted \/ (status # "string" /\ at.line = 1 + Cardinality(Newlines(1, at.pos - 1)))

\* A text read at p has its three characters there.
LEMMA LookingAtThree ==
  ASSUME NEW p \in Int, NEW a, NEW b, NEW c, At(p) = a, At(p + 1) = b, At(p + 2) = c
  PROVE  Looking(p, <<a, b, c>>)
<1>1. /\ DOMAIN <<a, b, c>> = {1, 2, 3} /\ <<a, b, c>>[1] = a /\ <<a, b, c>>[2] = b
      /\ <<a, b, c>>[3] = c
  OBVIOUS
<1>2. p + 1 - 1 = p /\ p + 2 - 1 = p + 1 /\ p + 3 - 1 = p + 2
  OBVIOUS
<1>. QED BY <1>1, <1>2 DEF Looking

\* The line after a stretch of the text from the cursor on.
LEMMA CountedUpTo ==
  ASSUME TypeInv, at.line = 1 + Cardinality(Newlines(1, at.pos - 1)),
         NEW c \in Starts, NEW p \in c.pos..EOF, \A r \in (c.pos + 1)..p : At(r) # "\n"
  PROVE  c.line = 1 + Cardinality(Newlines(1, p))
<1>1. /\ at.pos \in 1..EOF /\ EOF \in Nat /\ at.line \in Nat /\ c.pos \in Nat /\ at.pos <= c.pos
      /\ c.line = at.line + Cardinality(Newlines(at.pos, c.pos))
  <2>1. at \in Place /\ c \in Place /\ code \in Codes
    BY StartAfter DEF TypeInv
  <2>. QED BY <2>1, StartAfter, PlaceNumbers, EndOfText DEF Place
<1>2. /\ 1 \in Int /\ at.pos - 1 \in Int /\ c.pos \in Int /\ p \in Int /\ at.pos \in Int
      /\ c.pos + 1 \in Int
      /\ 1 <= (at.pos - 1) + 1 /\ at.pos - 1 <= c.pos /\ (at.pos - 1) + 1 = at.pos
      /\ 1 <= c.pos + 1 /\ c.pos <= p
  BY <1>1
<1>3. Cardinality(Newlines(1, c.pos)) =
        Cardinality(Newlines(1, at.pos - 1)) + Cardinality(Newlines(at.pos, c.pos))
  BY <1>2, NewlinesAdd
<1>4. Cardinality(Newlines(1, p)) =
        Cardinality(Newlines(1, c.pos)) + Cardinality(Newlines(c.pos + 1, p))
  BY <1>2, NewlinesAdd
<1>5. Cardinality(Newlines(c.pos + 1, p)) = 0
  BY <1>2, NewlinesOf
<1>6. /\ Cardinality(Newlines(1, at.pos - 1)) \in Nat /\ Cardinality(Newlines(at.pos, c.pos)) \in Nat
      /\ Cardinality(Newlines(1, c.pos)) \in Nat
  BY <1>2, NewlinesFinite
<1>. QED BY <1>1, <1>3, <1>4, <1>5, <1>6

\* Each step counts the newlines it reads, in a text that has nothing to miss them.
LEMMA LineStep == TypeInv /\ LineInv /\ [Next]_vars => LineInv'
<1>. SUFFICES ASSUME TypeInv, LineInv, [Next]_vars PROVE LineInv'
  OBVIOUS
<1>1. code' = code /\ (Uncounted' <=> Uncounted)
  <2>1. code' = code
    BY DEF Next, vars
  <2>. QED BY <2>1 DEF Uncounted, Looking, At
<1>2. CASE Uncounted
  BY <1>1, <1>2 DEF LineInv
<1>. DEFINE Counted == status # "string" /\ at.line = 1 + Cardinality(Newlines(1, at.pos - 1))
<1>3. Counted' => LineInv'
  BY DEF LineInv
<1>4. CASE Counted /\ ~Uncounted
  <2>1. status # "string" /\ at.line = 1 + Cardinality(Newlines(1, at.pos - 1))
    BY <1>4
  <2>2. CASE UNCHANGED <<at, status>>
    BY <1>1, <1>3, <2>1, <2>2 DEF Newlines, At
  <2>3. \A q : At(q) # NUL => q \in DOMAIN code
    BY DEF At
  <2>4. ASSUME NEW c \in Starts, at'.line = c.line, at'.pos - 1 \in c.pos..EOF,
               \A r \in (c.pos + 1)..(at'.pos - 1) : At(r) # "\n", status' # "string"
        PROVE  LineInv'
    <3>1. c.line = 1 + Cardinality(Newlines(1, at'.pos - 1))
      BY <2>1, <2>4, CountedUpTo
    <3>2. Newlines(1, at'.pos - 1) = Newlines(1, at.pos - 1)'
      BY <1>1 DEF Newlines, At
    <3>. QED BY <1>3, <2>4, <3>1, <3>2
  <2>5. CASE PassesLine
    <3>1. at.pos \in Int
      BY PlaceNumbers
    <3>2. At(at.pos) = "/"
      BY <2>5, <3>1, LookingAtTwo DEF PassesLine
    <3>3. At(at.pos) # NUL
      BY <3>2 DEF NUL
    <3>. QED BY <1>4, <2>3, <2>5, <3>3 DEF PassesLine, Uncounted
  <2>6. ASSUME Fails \/ Completes PROVE LineInv'
    <3>1. at' = at /\ status' # "string"
      BY <2>6 DEF Fails, Completes
    <3>. QED BY <1>1, <1>3, <2>1, <3>1 DEF Newlines, At
  <2>7. ASSUME status = "lexing", at.pos # EOF, NEW c \in Starts, Reads(c) \/ Passes(c) \/ Opens(c)
        PROVE  LineInv'
    <3>0. /\ at.pos \in Nat /\ c.pos \in 1..EOF /\ EOF \in Nat /\ at.pos <= c.pos
          /\ at'.pos \in 1..EOF
          /\ c.line = at.line + Cardinality(Newlines(at.pos, c.pos))
          /\ code \in Codes
      <4>1. at \in Place /\ c \in Place /\ code \in Codes
        BY StartAfter DEF TypeInv
      <4>2. at'.pos \in 1..EOF
        <5>1. TypeInv'
          BY TypeInvStep
        <5>. QED BY <5>1, <1>1 DEF TypeInv, Place, EOF
      <4>. QED BY <4>1, <4>2, StartAfter, PlaceNumbers, EndOfText DEF Place
    <3>1. CASE Opens(c)
      <4>1. c.pos \in DOMAIN code
        BY <2>3, <3>1 DEF Opens, NUL
      <4>. QED BY <1>4, <3>1, <4>1 DEF Opens, Uncounted
    <3>2. CASE Passes(c)
      <4>1. at'.line = c.line /\ status' # "string" /\ c.pos <= at'.pos /\ at'.pos <= c.pos + 1
            /\ (c.pos = at'.pos => c.pos = EOF) /\ at.pos < at'.pos
        BY <2>7, <3>2 DEF Passes
      <4>2. CASE c.pos # at'.pos
        <5>1. at'.pos - 1 \in c.pos..EOF /\ \A r \in (c.pos + 1)..(at'.pos - 1) : At(r) # "\n"
          BY <3>0, <4>1, <4>2
        <5>. QED BY <2>4, <4>1, <5>1
      <4>3. CASE c.pos = at'.pos
        <5>1. c.pos = EOF /\ At(EOF) = NUL
          BY <4>1, <4>3, <3>0, EndOfText
        <5>2. Newlines(1, EOF) = Newlines(1, EOF - 1)
          <6>1. At(EOF) # "\n"
            BY <5>1 DEF NUL
          <6>2. \A r \in 1..EOF : r = EOF \/ r \in 1..(EOF - 1)
            BY <3>0
          <6>. QED BY <3>0, <6>1, <6>2 DEF Newlines
        <5>3. c.line = 1 + Cardinality(Newlines(1, EOF))
          <6>1. EOF \in c.pos..EOF /\ \A r \in (c.pos + 1)..EOF : At(r) # "\n"
            BY <3>0, <5>1
          <6>. QED BY <2>1, <6>1, CountedUpTo
        <5>4. Newlines(1, at.pos - 1)' = Newlines(1, EOF - 1)
          BY <1>1, <4>3, <5>1 DEF Newlines, At
        <5>. QED BY <1>3, <4>1, <5>2, <5>3, <5>4
      <4>. QED BY <4>2, <4>3
    <3>3. CASE Reads(c)
      <4>1. PICK type \in TokenTypes, op \in {0} \cup DOMAIN Operators, from \in Place,
                 next \in Nat : ReadsAs(c, type, op, from, next)
        BY <3>3 DEF Reads
      <4>2. /\ at'.line = c.line /\ status' # "string" /\ c.pos < next /\ next <= at'.pos
            /\ \A r \in c.pos..(next - 1) : At(r) # "\n"
            /\ type # "FAT_ARROW" => at'.pos = next
            /\ type = "FAT_ARROW" =>
                 /\ Looking(c.pos, <<"=", ">">>) /\ next = c.pos + 2
                 /\ at'.pos = next + 1 \/ at'.pos = next
        BY <2>7, <4>1 DEF ReadsAs
      <4>3. at'.pos - 1 \in c.pos..EOF
        BY <3>0, <4>2
      <4>4. CASE at'.pos = next
        <5>1. \A r \in (c.pos + 1)..(at'.pos - 1) : At(r) # "\n"
          BY <3>0, <4>2, <4>4
        <5>. QED BY <2>4, <4>2, <4>3, <5>1
      <4>5. CASE at'.pos # next
        <5>1. Looking(c.pos, <<"=", ">">>) /\ next = c.pos + 2 /\ at'.pos - 1 = c.pos + 2
          BY <3>0, <4>2, <4>5
        <5>2. At(c.pos) = "=" /\ At(c.pos + 1) = ">"
          BY <3>0, <5>1, LookingAtTwo
        <5>3. At(c.pos + 2) # "\n"
          <6>. SUFFICES ASSUME At(c.pos + 2) = "\n" PROVE FALSE
            OBVIOUS
          <6>1. Looking(c.pos, <<"=", ">", "\n">>)
            BY <3>0, <5>2, LookingAtThree
          <6>2. c.pos \in DOMAIN code
            BY <2>3, <5>2 DEF NUL
          <6>. QED BY <1>4, <6>1, <6>2 DEF Uncounted
        <5>4. \A r \in (c.pos + 1)..(at'.pos - 1) : r = c.pos + 1 \/ r = c.pos + 2
          BY <3>0, <5>1
        <5>5. \A r \in (c.pos + 1)..(at'.pos - 1) : At(r) # "\n"
          BY <5>2, <5>3, <5>4
        <5>. QED BY <2>4, <4>2, <4>3, <5>5
      <4>. QED BY <4>4, <4>5
    <3>. QED BY <2>7, <3>1, <3>2, <3>3
  <2>8. CASE Next
    BY <2>1, <2>5, <2>6, <2>7, <2>8, StepShape
  <2>9. CASE UNCHANGED vars
    BY <2>2, <2>9 DEF vars
  <2>. QED BY <2>8, <2>9
<1>. QED BY <1>2, <1>4 DEF LineInv

\* The lexer begins on line 1, or before the first newline when it passes over a
\* hashbang.
LEMMA LineInit == Init => LineInv
<1>. SUFFICES ASSUME Init PROVE LineInv
  OBVIOUS
<1>0. code \in Codes /\ EOF \in Nat \ {0} /\ status = "lexing" /\ Start \in Place
  BY EndOfText DEF Init, Start, Place, Cursor
<1>1. CASE ~Looking(1, <<"#", "!">>)
  <2>1. at.line = 1 /\ at.pos = 1
    BY <1>1 DEF Init, Start
  <2>2. Cardinality(Newlines(1, at.pos - 1)) = 0
    BY <2>1, NewlinesOf
  <2>. QED BY <1>0, <2>1, <2>2 DEF LineInv
<1>2. CASE Looking(1, <<"#", "!">>)
  <2>. DEFINE e == ScanTo(1, {"\n"})
  <2>1. e \in 1..EOF /\ \A r \in 1..(e - 1) : At(r) \notin {"\n"}
    BY <1>0, ScanToStops
  <2>2. at = Skip(Start, e - Start.pos) /\ Start.pos = 1 /\ Start.line = 1
    BY <1>2 DEF Init, SkipTo, Start
  <2>. HIDE DEF e
  <2>3. at.pos = e /\ at.line = 1
    <3>1. e - Start.pos \in Nat /\ Start.pos + (e - Start.pos) = e /\ e <= EOF
      BY <1>0, <2>1, <2>2
    <3>. QED BY <1>0, <2>2, <3>1, SkipMoves
  <2>4. Cardinality(Newlines(1, at.pos - 1)) = 0
    <3>1. 1 \in Int /\ at.pos - 1 \in Int /\ \A r \in 1..(at.pos - 1) : At(r) # "\n"
      BY <2>1, <2>3
    <3>. QED BY <3>1, NewlinesOf
  <2>. QED BY <1>0, <2>3, <2>4 DEF LineInv
<1>. QED BY <1>1, <1>2

\* Line numbers are right in every text with no line comment, no string literal
\* and no fat arrow at the end of a line, block comments included.
THEOREM LinesAlwaysCounted == Spec => []LinesCounted
<1>1. LineInv => LinesCounted
  BY DEF LineInv, LinesCounted, Uncounted
<1>. QED BY <1>1, LineInit, LineStep, TypeInvHolds, PTL DEF Spec

(***************************************************************************)
(* Only blanks and comments are passed over                                *)
(***************************************************************************)

\* The gap before token t, which begins at g, is one that the lexer may pass over.
GapFine(t, g) ==
  \/ OnlyComments(g, t.first - 1)
  \/ HasPrefix(t, g) /\ OnlyComments(g, t.first - 3)
NextGap == GapStart(Len(tokens) + 1)

\* The gap before the next token, as far as it is read, is one too; and it
\* begins where the lexer is or before, unless the text is at its end.
GapInv ==
  /\ OnlyCommentsAreSkipped
  /\ Reading => OnlyComments(NextGap, Here.pos - 1)
  /\ status = "lexing" => NextGap <= at.pos \/ at.pos = EOF

\* The cuts of a stretch: where it begins, where it has ended, and between the
\* two one after each blank and after each comment.
AreCuts(cuts, from, end) ==
  /\ cuts \in SUBSET (from..end)
  /\ from \in cuts /\ end \in cuts
  /\ \A p \in cuts \ {end} :
       \/ At(p) \in Space /\ p + 1 \in cuts
       \/ \E l \in p..(end - 1) : IsComment(p, l) /\ l + 1 \in cuts
LEMMA CutsOf ==
  ASSUME NEW from \in Nat, NEW end \in Nat
  PROVE  OnlyComments(from, end - 1) <=> end - 1 < from \/ \E cuts : AreCuts(cuts, from, end)
<1>1. (end - 1) + 1 = end
  OBVIOUS
<1>. QED BY <1>1 DEF OnlyComments, AreCuts

\* What is cut up to m, and goes on at n, where a blank or a comment that begins
\* at m has ended, with blanks up to k, is cut up to k.
LEMMA CutsGoOn ==
  ASSUME NEW g \in Nat, NEW m \in Nat, NEW n \in Nat, NEW k \in Nat, m <= n, n <= k,
         NEW cuts, AreCuts(cuts, g, m), m = n \/ (m < n /\ IsComment(m, n - 1)),
         \A r \in n..(k - 1) : At(r) \in Space
  PROVE  AreCuts(cuts \cup (n..k), g, k)
<1>. DEFINE more == cuts \cup (n..k)
<1>1. cuts \in SUBSET (g..m) /\ g \in cuts /\ m \in cuts /\ g <= m
  BY DEF AreCuts
<1>2. more \in SUBSET (g..k) /\ g \in more /\ k \in more
  BY <1>1
<1>3. ASSUME NEW p \in more \ {k}
      PROVE  \/ At(p) \in Space /\ p + 1 \in more
             \/ \E l \in p..(k - 1) : IsComment(p, l) /\ l + 1 \in more
  <2>1. CASE p \in n..k
    <3>1. p \in n..(k - 1) /\ p + 1 \in n..k
      BY <1>3, <2>1
    <3>. QED BY <3>1
  <2>2. CASE p \in cuts /\ p # m
    <3>1. \/ At(p) \in Space /\ p + 1 \in cuts
          \/ \E l \in p..(m - 1) : IsComment(p, l) /\ l + 1 \in cuts
      BY <2>2 DEF AreCuts
    <3>2. \A l \in p..(m - 1) : l \in p..(k - 1)
      BY <1>1, <2>2
    <3>. QED BY <3>1, <3>2
  <2>3. CASE p = m /\ m # n
    <3>1. IsComment(p, n - 1) /\ n - 1 \in p..(k - 1) /\ (n - 1) + 1 \in more
      BY <2>3
    <3>. QED BY <3>1
  <2>4. CASE p = m /\ m = n
    BY <2>1, <2>4
  <2>. QED BY <1>3, <2>1, <2>2, <2>3, <2>4
<1>. QED BY <1>2, <1>3 DEF AreCuts

\* A gap that is fine up to a place goes on over a comment there, and blanks.
LEMMA SkippedFurther ==
  ASSUME NEW g \in Nat, NEW m \in Nat, NEW n \in Nat, NEW k \in Nat, m <= n, n <= k,
         OnlyComments(g, m - 1), m = n \/ (g <= m /\ m < n /\ IsComment(m, n - 1)),
         \A r \in n..(k - 1) : At(r) \in Space
  PROVE  OnlyComments(g, k - 1)
<1>1. CASE k - 1 < g
  BY <1>1, CutsOf
<1>2. CASE g <= m
  <2>1. CASE m = g
    <3>1. AreCuts({g}, g, m)
      BY <2>1 DEF AreCuts
    <3>2. AreCuts({g} \cup (n..k), g, k)
      BY <1>2, <3>1, CutsGoOn
    <3>. QED BY <3>2, CutsOf
  <2>2. CASE m # g
    <3>1. PICK cuts : AreCuts(cuts, g, m)
      BY <1>2, <2>2, CutsOf
    <3>2. AreCuts(cuts \cup (n..k), g, k)
      BY <1>2, <3>1, CutsGoOn
    <3>. QED BY <3>2, CutsOf
  <2>. QED BY <2>1, <2>2
<1>3. CASE m < g /\ g <= k - 1
  <2>1. m = n
    BY <1>3
  <2>2. AreCuts({g}, g, g)
    BY DEF AreCuts
  <2>3. \A r \in g..(k - 1) : At(r) \in Space
    BY <1>3, <2>1
  <2>4. AreCuts({g} \cup (g..k), g, k)
    BY <1>3, <2>2, <2>3, CutsGoOn
  <2>. QED BY <2>4, CutsOf
<1>. QED BY <1>1, <1>2, <1>3

\* A token may begin where what was skipped ends, and two characters further
\* when they are the prefix of a radix literal.
LEMMA SkippedIsFine ==
  ASSUME NEW g \in Nat, NEW t
  PROVE  /\ OnlyComments(g, t.first - 1) => GapFine(t, g)
         /\ \A p \in Nat : /\ OnlyComments(g, p - 1) /\ g <= p /\ t.type = "INTEGER"
                           /\ At(p) = "0" /\ At(p + 1) \in RadixLetters /\ t.first = p + 2
                           => GapFine(t, g)
<1>1. \A p \in Nat : (p + 2) - 2 = p /\ (p + 2) - 1 = p + 1 /\ (p + 2) - 3 = p - 1
  OBVIOUS
<1>. QED BY <1>1 DEF GapFine, HasPrefix

\* Where the gaps begin when a token was added to the list, and when none was.
LEMMA GapStarts ==
  ASSUME TypeInv, NEW type, NEW op, NEW from, NEW next, Emit(type, op, from, next)
  PROVE  /\ \A i \in 1..(Len(tokens) + 1) : GapStart(i)' = GapStart(i)
         /\ NextGap' = IF type = "FAT_ARROW" THEN next + 1 ELSE next
<1>. DEFINE n == Len(tokens)
<1>1. /\ n \in Nat /\ DOMAIN tokens = 1..n /\ Len(tokens') = n + 1
      /\ \A i \in 1..n : tokens'[i] = tokens[i]
      /\ tokens'[n + 1] = Token(type, op, from, next)
  BY Added
<1>. HIDE DEF n
<1>2. \A i \in 1..(n + 1) : GapStart(i)' = GapStart(i)
  <2>. SUFFICES ASSUME NEW i \in 1..(n + 1) PROVE GapStart(i)' = GapStart(i)
    OBVIOUS
  <2>1. i = 1 \/ i - 1 \in 1..n
    BY <1>1
  <2>2. i = 1 \/ tokens'[i - 1] = tokens[i - 1]
    BY <1>1, <2>1
  <2>. QED BY <2>2 DEF GapStart
<1>3. NextGap' = IF type = "FAT_ARROW" THEN next + 1 ELSE next
  <2>1. (n + 1) + 1 # 1 /\ ((n + 1) + 1) - 1 = n + 1
    BY <1>1
  <2>2. /\ tokens'[((n + 1) + 1) - 1].type = type
        /\ tokens'[((n + 1) + 1) - 1].next = next
    BY <1>1, <2>1 DEF Token
  <2>. QED BY <1>1, <2>1, <2>2 DEF NextGap, GapStart
<1>. QED BY <1>1, <1>2, <1>3 DEF n

\* The gaps are fine after a token was added, if the gap before that one is.
LEMMA GapAdded ==
  ASSUME TypeInv, OnlyCommentsAreSkipped, code' = code,
         NEW type, NEW op, NEW from, NEW next, Emit(type, op, from, next),
         GapFine(Token(type, op, from, next), NextGap)
  PROVE  OnlyCommentsAreSkipped'
<1>1. /\ Len(tokens) \in Nat /\ DOMAIN tokens = 1..Len(tokens)
      /\ DOMAIN tokens' = 1..(Len(tokens) + 1)
      /\ \A i \in DOMAIN tokens : tokens'[i] = tokens[i]
      /\ tokens'[Len(tokens) + 1] = Token(type, op, from, next)
  BY Added
<1>2. \A i \in 1..(Len(tokens) + 1) : GapStart(i)' = GapStart(i)
  BY GapStarts
<1>3. \A i \in DOMAIN tokens : GapFine(tokens[i], GapStart(i))
  BY DEF OnlyCommentsAreSkipped, GapFine
<1>4. \A i \in DOMAIN tokens' : GapFine(tokens'[i], GapStart(i)')
  <2>. SUFFICES ASSUME NEW i \in DOMAIN tokens' PROVE GapFine(tokens'[i], GapStart(i)')
    OBVIOUS
  <2>1. CASE i \in DOMAIN tokens
    BY <1>1, <1>2, <1>3, <2>1
  <2>2. CASE i = Len(tokens) + 1
    BY <1>1, <1>2, <2>2 DEF NextGap
  <2>. QED BY <1>1, <2>1, <2>2
<1>5. \A q : At(q)' = At(q)
  BY DEF At
<1>6. \A p, a, b : Looking(p, <<a, b>>)' <=> Looking(p, <<a, b>>)
  BY DEF At, Looking
<1>7. \A f, e : OnlyComments(f, e)' <=> OnlyComments(f, e)
  BY <1>5, <1>6 DEF OnlyComments, IsComment
<1>8. \A t, g : HasPrefix(t, g)' <=> HasPrefix(t, g)
  BY <1>5 DEF HasPrefix
<1>. QED BY <1>4, <1>7, <1>8 DEF OnlyCommentsAreSkipped, GapFine

\* Each step skips only what may be skipped.
LEMMA GapStep == TypeInv /\ GapInv /\ [Next]_vars => GapInv'
<1>. SUFFICES ASSUME TypeInv, GapInv, [Next]_vars PROVE GapInv'
  OBVIOUS
<1>0. /\ OnlyCommentsAreSkipped
      /\ Reading => OnlyComments(NextGap, Here.pos - 1)
      /\ status = "lexing" => NextGap <= at.pos \/ at.pos = EOF
  BY DEF GapInv
<1>1. code' = code /\ EOF' = EOF
  BY DEF Next, vars, EOF
<1>2. /\ code \in Codes /\ EOF \in Nat /\ at.pos \in 1..EOF /\ strStart.pos \in Nat
      /\ at'.pos \in 1..EOF /\ NextGap \in Nat
      /\ \A c \in Starts : c \in Place /\ c.pos \in 1..EOF /\ at.pos <= c.pos
                           /\ (c.pos # at.pos => at.pos < c.pos /\ IsComment(at.pos, c.pos - 1))
  <2>1. at \in Place /\ strStart \in Place /\ code \in Codes
    BY DEF TypeInv
  <2>2. at'.pos \in 1..EOF
    <3>1. TypeInv'
      BY TypeInvStep
    <3>. QED BY <3>1, <1>1 DEF TypeInv, Place
  <2>3. NextGap \in Nat
    <3>1. /\ Len(tokens) \in Nat /\ \A i \in DOMAIN tokens : tokens[i].next \in Nat
          /\ DOMAIN tokens = 1..Len(tokens)
      BY PlaceNumbers
    <3>2. (Len(tokens) + 1) - 1 = Len(tokens) /\ (Len(tokens) + 1 # 1 => Len(tokens) \in DOMAIN tokens)
      BY <3>1
    <3>. QED BY <3>1, <3>2 DEF NextGap, GapStart
  <2>. QED BY <2>1, <2>2, <2>3, StartAfter, PlaceNumbers, EndOfText DEF Place
<1>3. /\ \A f, e : OnlyComments(f, e)' <=> OnlyComments(f, e)
      /\ \A t, g : HasPrefix(t, g)' <=> HasPrefix(t, g)
  <2>1. /\ \A q : At(q)' = At(q)
        /\ \A p, a, b : Looking(p, <<a, b>>)' <=> Looking(p, <<a, b>>)
    BY <1>1 DEF At, Looking
  <2>. QED BY <2>1 DEF OnlyComments, IsComment, HasPrefix
<1>4. ASSUME NEW g, NEW h, g = NextGap', h = Here'.pos - 1, OnlyComments(g, h)
      PROVE  OnlyComments(NextGap, Here.pos - 1)'
  BY <1>3, <1>4
<1>5. ASSUME UNCHANGED tokens, Reading' => OnlyComments(NextGap, Here'.pos - 1),
             status' = "lexing" => NextGap <= at'.pos \/ at'.pos = EOF
      PROVE  GapInv'
  <2>1. NextGap' = NextGap
    BY <1>5 DEF NextGap, GapStart
  <2>2. OnlyCommentsAreSkipped'
    BY <1>0, <1>3, <1>5 DEF OnlyCommentsAreSkipped, GapStart
  <2>3. Reading' => OnlyComments(NextGap, Here.pos - 1)'
    BY <1>4, <1>5, <2>1
  <2>. QED BY <1>1, <1>5, <2>1, <2>2, <2>3 DEF GapInv
<1>6. ASSUME NEW type, NEW op, NEW from, NEW next \in Nat, Emit(type, op, from, next),
             GapFine(Token(type, op, from, next), NextGap), status' # "string",
             Reading' => /\ type # "FAT_ARROW" => at'.pos = next
                         /\ type = "FAT_ARROW" =>
                              at'.pos = next + 1 \/ (at'.pos = next /\ next = EOF)
      PROVE  GapInv'
  <2>1. OnlyCommentsAreSkipped'
    BY <1>0, <1>1, <1>6, GapAdded
  <2>2. NextGap' = IF type = "FAT_ARROW" THEN next + 1 ELSE next
    BY <1>6, GapStarts
  <2>3. Reading' => at'.pos - 1 < NextGap' /\ (NextGap' <= at'.pos \/ at'.pos = EOF)
    BY <1>2, <1>6, <2>2
  <2>4. Here' = at'
    BY <1>6 DEF Here
  <2>5. Reading' => OnlyComments(NextGap', Here'.pos - 1)
    BY <2>3, <2>4 DEF OnlyComments
  <2>6. Reading' => OnlyComments(NextGap, Here.pos - 1)'
    BY <1>4, <2>5
  <2>. QED BY <1>1, <2>1, <2>3, <2>6 DEF GapInv, Reading
<1>7. CASE UNCHANGED vars
  <2>1. UNCHANGED <<tokens, at, status, strStart>> /\ Here' = Here /\ (Reading' <=> Reading)
    BY <1>7 DEF vars, Here, Reading
  <2>. QED BY <1>0, <1>5, <2>1
<1>8. ASSUME Fails PROVE GapInv'
  BY <1>5, <1>8 DEF Fails, Reading
\* A comment where the lexer is makes a gap up to any place after it, with only
\* blanks between.
<1>9. ASSUME status = "lexing", at.pos # EOF, NEW l \in Nat, NEW k \in Nat, at.pos <= l, l < k,
             IsComment(at.pos, l), \A r \in (l + 1)..(k - 1) : At(r) \in Space
      PROVE  OnlyComments(NextGap, k - 1) /\ NextGap <= k
  <2>1. NextGap <= at.pos /\ OnlyComments(NextGap, at.pos - 1) /\ at.pos \in Nat
    BY <1>0, <1>2, <1>9 DEF Reading, Here
  <2>. DEFINE n == l + 1
  <2>2. n \in Nat /\ at.pos < n /\ n <= k /\ n - 1 = l
    BY <1>9, <2>1
  <2>3. \A r \in n..(k - 1) : At(r) \in Space
    BY <1>9
  <2>. HIDE DEF n
  <2>4. IsComment(at.pos, n - 1) /\ at.pos <= n
    BY <1>9, <2>1, <2>2
  <2>5. OnlyComments(NextGap, k - 1)
    BY <1>2, <2>1, <2>2, <2>3, <2>4, SkippedFurther
  <2>. QED BY <1>2, <1>9, <2>1, <2>5
<1>10. ASSUME status = "lexing", PassesLine PROVE GapInv'
  <2>1. /\ at'.pos \in Nat /\ at.pos < at'.pos /\ at.pos # EOF /\ status' = "lexing" /\ Here' = at'
        /\ UNCHANGED tokens
    BY <1>2, <1>10 DEF PassesLine, Here
  <2>2. PICK l \in at.pos..(at'.pos - 1) :
          IsComment(at.pos, l) /\ \A r \in (l + 1)..(at'.pos - 1) : At(r) \in Space
    BY <1>10 DEF PassesLine
  <2>3. l \in Nat /\ at.pos <= l /\ l < at'.pos
    BY <1>2, <2>1
  <2>4. OnlyComments(NextGap, at'.pos - 1) /\ NextGap <= at'.pos
    BY <1>9, <1>10, <2>1, <2>2, <2>3
  <2>. QED BY <1>5, <2>1, <2>4
<1>11. ASSUME status = "lexing", Completes PROVE GapInv'
  <2>1. OnlyComments(NextGap, at.pos - 1) /\ Token("FILE_END", 0, at, EOF).first = at.pos
    BY <1>0, <1>11 DEF Reading, Here, Token
  <2>2. GapFine(Token("FILE_END", 0, at, EOF), NextGap)
    BY <1>2, <2>1, SkippedIsFine
  <2>. QED BY <1>2, <1>6, <1>11, <2>2 DEF Completes, Reading
<1>12. ASSUME status = "string", ReadsString PROVE GapInv'
  BY <1>0, <1>5, <1>12 DEF ReadsString, Reading, Here
<1>13. ASSUME status = "string", ClosesString PROVE GapInv'
  <2>1. /\ OnlyComments(NextGap, strStart.pos - 1)
        /\ Token("STRING", 0, strStart, at.pos + 1).first = strStart.pos
    BY <1>0, <1>13 DEF Reading, Here, Token
  <2>2. GapFine(Token("STRING", 0, strStart, at.pos + 1), NextGap)
    BY <1>2, <2>1, SkippedIsFine
  <2>3. at.pos + 1 \in Nat
    BY <1>2
  <2>. QED BY <1>6, <1>13, <2>2, <2>3 DEF ClosesString
<1>14. ASSUME status = "lexing", at.pos # EOF, NEW c \in Starts, Reads(c) \/ Passes(c) \/ Opens(c)
       PROVE  GapInv'
  <2>1. c.pos \in Nat /\ NextGap <= c.pos /\ OnlyComments(NextGap, c.pos - 1)
    <3>1. CASE c.pos = at.pos
      BY <1>0, <1>2, <1>14, <3>1 DEF Reading, Here
    <3>2. CASE c.pos # at.pos
      <4>1. /\ c.pos \in Nat /\ c.pos - 1 \in Nat /\ at.pos <= c.pos - 1 /\ c.pos - 1 < c.pos
            /\ IsComment(at.pos, c.pos - 1)
        BY <1>2, <1>14, <3>2
      <4>2. \A r \in ((c.pos - 1) + 1)..(c.pos - 1) : At(r) \in Space
        BY <4>1
      <4>. QED BY <1>9, <1>14, <4>1, <4>2
    <3>. QED BY <3>1, <3>2
  <2>2. CASE Reads(c)
    <3>1. PICK type \in TokenTypes, op \in {0} \cup DOMAIN Operators, from \in Place,
               next \in Nat : ReadsAs(c, type, op, from, next)
      BY <2>2 DEF Reads
    <3>. DEFINE t == Token(type, op, from, next)
    <3>2. t.first = from.pos /\ t.type = type /\ from.pos \in Nat
      BY PlaceNumbers DEF Token
    <3>3. GapFine(t, NextGap)
      <4>. HIDE DEF t
      <4>1. CASE from.pos = c.pos
        BY <1>2, <2>1, <3>2, <4>1, SkippedIsFine
      <4>2. CASE from.pos # c.pos
        <5>1. /\ type = "INTEGER" /\ At(c.pos) = "0" /\ from.pos = c.pos + 2
              /\ At(c.pos + 1) \in RadixLetters
          BY <3>1, <4>2 DEF ReadsAs
        <5>. QED BY <1>2, <2>1, <3>2, <5>1, SkippedIsFine
      <4>. QED BY <4>1, <4>2
    <3>4. /\ Emit(type, op, from, next) /\ status' # "string"
          /\ type # "FAT_ARROW" => at'.pos = next
          /\ type = "FAT_ARROW" => at'.pos = next + 1 \/ (at'.pos = next /\ next = EOF)
      BY <1>14, <3>1 DEF ReadsAs
    <3>. QED BY <1>6, <3>3, <3>4
  <2>3. CASE Passes(c)
    <3>1. /\ UNCHANGED tokens /\ status' # "string" /\ Here' = at'
          /\ c.pos <= at'.pos /\ at'.pos <= c.pos + 1
          /\ c.pos # at'.pos => At(c.pos) \in Space
      BY <1>14, <2>3 DEF Passes, Here
    <3>2. \A r \in c.pos..(at'.pos - 1) : At(r) \in Space
      <4>. SUFFICES ASSUME NEW r \in c.pos..(at'.pos - 1) PROVE At(r) \in Space
        OBVIOUS
      <4>1. r = c.pos /\ c.pos # at'.pos
        BY <1>2, <2>1, <3>1
      <4>. QED BY <3>1, <4>1
    <3>3. OnlyComments(NextGap, at'.pos - 1)
      <4>1. at'.pos \in Nat
        BY <1>2
      <4>. QED BY <1>2, <2>1, <3>1, <3>2, <4>1, SkippedFurther
    <3>4. NextGap <= at'.pos
      BY <1>2, <2>1, <3>1
    <3>. QED BY <1>5, <3>1, <3>3, <3>4
  <2>4. CASE Opens(c)
    <3>1. UNCHANGED tokens /\ status' = "string" /\ Here' = c
      BY <2>4 DEF Opens, Here
    <3>. QED BY <1>5, <2>1, <3>1
  <2>. QED BY <1>14, <2>2, <2>3, <2>4
<1>15. CASE Next
  BY <1>15, <1>8, <1>10, <1>11, <1>12, <1>13, <1>14, StepShape
<1>. QED BY <1>7, <1>15

\* At first at most the hashbang line is passed over.
LEMMA GapInit == Init => GapInv
<1>. SUFFICES ASSUME Init PROVE GapInv
  OBVIOUS
<1>0. /\ code \in Codes /\ EOF \in Nat \ {0} /\ status = "lexing" /\ Start \in Place
      /\ tokens = <<>>
  BY EndOfText DEF Init, Start, Place, Cursor
<1>1. DOMAIN tokens = {} /\ Len(tokens) + 1 = 1
  BY <1>0
<1>2. NextGap = 1 /\ Here = at /\ OnlyCommentsAreSkipped
  BY <1>0, <1>1 DEF NextGap, GapStart, Here, OnlyCommentsAreSkipped
<1>3. at \in Place
  <2>1. TypeInv
    BY TypeInvInit
  <2>. QED BY <2>1 DEF TypeInv
<1>4. at.pos \in Nat /\ 1 <= at.pos
  BY <1>0, <1>3 DEF Place
<1>5. OnlyComments(1, at.pos - 1)
  <2>1. CASE ~Looking(1, <<"#", "!">>)
    <3>1. at.pos = 1
      BY <2>1 DEF Init, Start
    <3>. QED BY <3>1 DEF OnlyComments
  <2>2. CASE Looking(1, <<"#", "!">>)
    <3>. DEFINE e == ScanTo(1, {"\n"})
    <3>0. 1 \in 1..EOF
      BY <1>0
    <3>1. /\ e \in 1..EOF /\ (e = EOF \/ At(e) = "\n")
          /\ \A r \in 1..(e - 1) : At(r) # "\n"
      BY <1>0, <3>0, ScanToStops
    <3>2. at.pos = e
      <4>1. at = Skip(Start, e - 1) /\ Start.pos = 1 /\ e - 1 \in Nat
        BY <2>2, <3>1 DEF Init, SkipTo, Start
      <4>2. 1 + (e - 1) = e /\ e <= EOF
        BY <1>0, <3>1
      <4>. HIDE DEF e
      <4>. QED BY <1>0, <4>1, <4>2, SkipMoves
    <3>3. At(1) = "#" /\ At(1) # "\n" /\ At(1) # NUL
      BY <2>2, LookingAtTwo DEF NUL
    <3>4. 1 # EOF
      BY <1>0, <3>3, CharactersInText
    <3>5. e # 1
      BY <3>1, <3>3, <3>4
    <3>. HIDE DEF e
    <3>6. IsComment(1, e - 1)
      <4>1. \A r \in 1..(e - 1) : At(r) # NUL
        BY <1>0, <3>1, CharactersInText
      <4>2. At(e) \in {"\n", NUL} /\ (e - 1) + 1 = e
        BY <1>0, <3>1, EndOfText
      <4>. QED BY <2>2, <3>1, <4>1, <4>2 DEF IsComment
    <3>7. OnlyComments(1, 1 - 1)
      BY DEF OnlyComments
    <3>8. e \in Nat /\ 1 < e /\ \A r \in e..(e - 1) : At(r) \in Space
      BY <3>1, <3>5
    <3>9. OnlyComments(1, e - 1)
      BY <3>6, <3>7, <3>8, SkippedFurther
    <3>. QED BY <3>2, <3>9
  <2>. QED BY <2>1, <2>2
<1>. QED BY <1>2, <1>4, <1>5 DEF GapInv

\* Between two tokens the lexer passes over blanks and whole comments, and
\* besides only the hashbang line, the prefix of a radix literal and the
\* character after a fat arrow: no other character of a program is lost.
THEOREM OnlyCommentsAlwaysSkipped == Spec => []OnlyCommentsAreSkipped
<1>1. GapInv => OnlyCommentsAreSkipped
  BY DEF GapInv
<1>. QED BY <1>1, GapInit, GapStep, TypeInvHolds, PTL DEF Spec
=============================================================================
