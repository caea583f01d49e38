-------------------------------- MODULE Lexer --------------------------------
(***************************************************************************)
(* Lexer::processTokens (lexer.cpp): source text to tokens.                *)
(*                                                                         *)
(* One step is one iteration of the main loop, its trailing skip(1)        *)
(* included; inside a string literal it is one iteration of the inner      *)
(* loop.  Positions are 1-based, Len(code) + 1 is the end of the file.  A  *)
(* token keeps its type, its operator and where it was found; its data is  *)
(* the text between `first` and `next`.                                    *)
(***************************************************************************)
EXTENDS Operators, Integers, FiniteSets

CONSTANTS
  Codes,         \* the source texts considered
  Keywords,      \* the words that are keywords (TT::keywords)
  BooleanWords,  \* "true" and "false"
  LongLongBits   \* number of bits std::stoll can return

\* A text holds characters: what is read past its end is none of them.
ASSUME CodesAssumption == Codes \subseteq Seq(STRING \ {"NUL"})
ASSUME WordsAssumption == Keywords \cap BooleanWords = {}
ASSUME BitsAssumption == LongLongBits \in Nat

VARIABLES
  code,        \* the text being lexed, fixed
  at,          \* [pos, line, col]: where the lexer is, and where it says it is
  tokens,      \* tokens found so far
  parenStack,  \* indices in tokens of the groups that are still open
  status,      \* "lexing", inside a "string", "done", or how it failed
  strStart     \* where the string literal being read starts

vars == <<code, at, tokens, parenStack, status, strStart>>

(***************************************************************************)
(* Character classes                                                       *)
(***************************************************************************)
NUL == "NUL"    \* what reading one past the end gives
Space == {" ", "\t", "\n"}
Letter == {"a", "b", "c", "d", "e", "f", "g", "h", "i", "j", "k", "l", "m",
           "n", "o", "p", "q", "r", "s", "t", "u", "v", "w", "x", "y", "z"}
OctDigit == {"0", "1", "2", "3", "4", "5", "6", "7"}
Digit == OctDigit \cup {"8", "9"}
HexDigit == Digit \cup {"a", "b", "c", "d", "e", "f"}
ConstructChars == {";", ":", "?", "(", ")", "[", "]"}
NotIdentifierChars == OperatorChars \cup ConstructChars \cup {"\n", NUL}
SingleEscapes == {"a", "b", "f", "n", "r", "t", "v", "\\", "'", "\"", "?"}
RadixLetters == {"x", "b", "o"}
RadixOf == [c \in RadixLetters |-> CASE c = "x" -> 16 [] c = "b" -> 2 [] c = "o" -> 8]

\* isValidForRadix: every decimal digit is let through, whatever the radix.
ValidForRadix(radix) == IF radix = 16 THEN HexDigit ELSE Digit
\* What std::stoll and std::stoi take for a digit.
DigitsOf(radix) ==
  CASE radix = 2 -> {"0", "1"} [] radix = 8 -> OctDigit [] radix = 16 -> HexDigit

ConstructType(c) ==
  CASE c = ";" -> "SEMI" [] c = ":" -> "TWO_POINT" [] c = "?" -> "QUESTION"
    [] c = "(" -> "PAREN_LEFT" [] c = ")" -> "PAREN_RIGHT"
    [] c = "[" -> "SQPAREN_LEFT" [] c = "]" -> "SQPAREN_RIGHT"

TerminalTypes == {"IDENTIFIER", "INTEGER", "FLOAT", "STRING", "BOOLEAN"}
OpenTypes == {"PAREN_LEFT", "SQPAREN_LEFT", "CALL_BEGIN"}
CloseTypes == {"PAREN_RIGHT", "SQPAREN_RIGHT", "CALL_END"}
TokenTypes ==
  TerminalTypes \cup OpenTypes \cup CloseTypes \cup
    {"SEMI", "TWO_POINT", "QUESTION", "FAT_ARROW", "KEYWORD", "OPERATOR", "FILE_END"}
CloserOf == [t \in OpenTypes |-> CASE t = "PAREN_LEFT" -> "PAREN_RIGHT"
                                   [] t = "SQPAREN_LEFT" -> "SQPAREN_RIGHT"
                                   [] t = "CALL_BEGIN" -> "CALL_END"]

(***************************************************************************)
(* Reading the text                                                        *)
(***************************************************************************)
EOF == Len(code) + 1
At(p) == IF p \in DOMAIN code THEN code[p] ELSE NUL
Looking(p, s) == \A i \in DOMAIN s : At(p + i - 1) = s[i]
\* The first position from p on that holds a character of S, or the end.
ScanTo(p, S) ==
  CHOOSE q \in p..EOF : /\ q = EOF \/ At(q) \in S
                        /\ \A r \in p..(q - 1) : At(r) \notin S
\* The first position from p on that does not hold a character of S.
ScanOver(p, S) ==
  CHOOSE q \in p..EOF : /\ At(q) \notin S
                        /\ \A r \in p..(q - 1) : At(r) \in S

\* Mutant: no clamp.
SkipUnclamped(c, n) == [pos |-> c.pos + n, line |-> c.line, col |-> c.col + n]
\* skip(n): clamps the position, not the column.
Skip(c, n) ==
  [pos |-> IF c.pos + n > EOF THEN EOF ELSE c.pos + n, line |-> c.line, col |-> c.col + n]
SkipTo(c, p) == Skip(c, p - c.pos)
\* Mutant: the call is forgotten.
NoIncrementForgotten(c) == c
\* noIncrement(), undone by the loop's skip(1): only the column moves.
NoIncrement(c) == [c EXCEPT !.pos = @ - 1]
\* Mutant: the line number is forgotten.
NextLineKeepsLine(c) == [c EXCEPT !.col = 0]
NextLine(c) == [pos |-> c.pos, line |-> c.line + 1, col |-> 0]

Newlines(from, to) == {q \in from..to : At(q) = "\n"}

\* handleMultiLineComments: the position of the comment's "*/", if it has one.
CommentEnds(c) ==
  {q \in (c.pos + 2)..EOF :
     Looking(q, <<"*", "/">>) /\ \A r \in (c.pos + 2)..(q - 1) : ~Looking(r, <<"*", "/">>)}
\* Mutant: a block comment is looked for only where a line begins.
InCommentAtLineStart(c) ==
  Looking(c.pos, <<"/", "*">>) /\ At(c.pos - 1) \in {"\n", NUL}
InComment(c) == Looking(c.pos, <<"/", "*">>)
\* Mutant: newlines in a comment are skipped like any character.
AfterCommentNoLines(c, e) == SkipTo(c, e + 2)
\* The cursor after the comment that ends at e: each newline in it is counted
\* and resets the column.
AfterComment(c, e) ==
  LET nls == Newlines(c.pos + 2, e - 1)
  IN  [pos  |-> e + 2,
       line |-> c.line + Cardinality(nls),
       col  |-> IF nls = {} THEN c.col + (e + 2 - c.pos)
                ELSE e + 2 - (CHOOSE n \in nls : \A m \in nls : m <= n)]
CountNewline(c) == IF At(c.pos) = "\n" THEN NextLine(c) ELSE c
\* Where an iteration looks for a token: past the block comment it starts at
\* (nowhere, if the comment is not closed), the newline found there counted.
Starts ==
  IF InComment(at) THEN {CountNewline(AfterComment(at, e)) : e \in CommentEnds(at)}
  ELSE {CountNewline(at)}

(***************************************************************************)
(* What a token is depends on the one before it                            *)
(***************************************************************************)
LastToken == tokens[Len(tokens)]

\* determineFixity: what ++, --, + and - are here.  CALL_END is not among the
\* tokens that end an operand.
DetermineFixity(afterBinaryOrPrefix, afterIdentOrParen, otherCases) ==
  LET op == LastToken.op IN
  IF tokens = <<>> THEN otherCases
  ELSE IF LastToken.type = "OPERATOR" /\ (IsBinary(op) \/ IsPrefix(op))
  THEN afterBinaryOrPrefix
  ELSE IF \/ LastToken.type \in TerminalTypes \cup {"PAREN_RIGHT"}
          \/ LastToken.type = "OPERATOR" /\ IsPostfix(op)
  THEN afterIdentOrParen
  ELSE otherCases

DetermineParenBeginType ==
  IF /\ tokens # <<>>
     /\ \/ LastToken.type \in {"IDENTIFIER", "PAREN_RIGHT", "CALL_END"}
        \/ LastToken.type = "OPERATOR" /\ IsPostfix(LastToken.op)
  THEN "CALL_BEGIN" ELSE "PAREN_LEFT"

SymbolsAt(p) == {i \in DOMAIN Operators : Looking(p, Operators[i].sym)}
\* Mutant: the list is searched from its end.
FindOperatorBackwards(p) == {i \in SymbolsAt(p) : \A j \in SymbolsAt(p) : j <= i}
\* The operator at position p (a set, empty if there is none): the first of the
\* list whose symbol is there; ++, --, + and - have two entries, which the
\* fixity tells apart.
FindOperator(p) ==
  LET first == {i \in SymbolsAt(p) : \A j \in SymbolsAt(p) : i <= j}
      Entry(sym, fixity) ==
        {i \in DOMAIN Operators : Operators[i].sym = sym /\ Operators[i].fixity = fixity}
      Refined(i) ==
        LET sym == Operators[i].sym IN
        IF sym \in {<<"+", "+">>, <<"-", "-">>}
        THEN Entry(sym, DetermineFixity("PREFIX", "POSTFIX", "PREFIX"))
        ELSE IF sym \in {<<"+">>, <<"-">>}
        THEN Entry(sym, DetermineFixity("PREFIX", "INFIX", "PREFIX"))
        ELSE {i}
  IN  UNION {Refined(i) : i \in first}

WordType(word) ==
  IF word \in BooleanWords THEN "BOOLEAN"
  ELSE IF word \in Keywords THEN "KEYWORD" ELSE "IDENTIFIER"

(***************************************************************************)
(* Numbers                                                                 *)
(***************************************************************************)
HasRadix(c) == At(c.pos) = "0" /\ At(c.pos + 1) \in Letter
BadRadix(c) == HasRadix(c) /\ At(c.pos + 1) \notin RadixLetters
Radix(c) == IF HasRadix(c) THEN RadixOf[At(c.pos + 1)] ELSE 10
NumberStart(c) == IF HasRadix(c) THEN Skip(c, 2) ELSE c
NumberEnd(c) == ScanOver(NumberStart(c).pos, ValidForRadix(Radix(c)) \cup {"."})
Dots(c) == {q \in NumberStart(c).pos..(NumberEnd(c) - 1) : At(q) = "."}
NoDigits(c) == NumberStart(c).pos = NumberEnd(c)

BadNumber(c) ==
  LET p == NumberStart(c).pos
      e == NumberEnd(c)
  IN  \/ At(p) = "0" /\ At(p + 1) \in Digit
      \/ Cardinality(Dots(c)) > 1
      \/ At(e) \notin NotIdentifierChars
      \/ ~NoDigits(c) /\ At(e - 1) = "."
      \/ Radix(c) # 10 /\ Dots(c) # {}

LeadingBits(d) ==
  CASE d = "1" -> 1 [] d \in {"2", "3"} -> 2 [] d \in {"4", "5", "6", "7"} -> 3
    [] OTHER -> 4
BitsPerDigit(radix) == CASE radix = 2 -> 1 [] radix = 8 -> 3 [] radix = 16 -> 4
\* std::stoll throws, and not an Error: no digit of the radix to start with, or
\* too many of them.
StollThrows(c) ==
  LET p == NumberStart(c).pos
      z == ScanOver(p, {"0"})
      d == ScanOver(p, DigitsOf(Radix(c)))
  IN  /\ Radix(c) # 10
      /\ \/ d = p
         \/ z < d /\ (d - z - 1) * BitsPerDigit(Radix(c)) + LeadingBits(At(z)) > LongLongBits

(***************************************************************************)
(* The steps.  c is where this iteration looks for a token.                *)
(***************************************************************************)
Token(type, op, from, next) ==
  [type |-> type, op |-> op, first |-> from.pos, next |-> next,
   line |-> from.line, col |-> from.col]
Emit(type, op, from, next) == tokens' = Append(tokens, Token(type, op, from, next))

\* An exception leaves processTokens: nothing of the lexer is used again.
Fail(how) == status' = how /\ UNCHANGED <<at, tokens, parenStack, strStart>>

\* A // comment: to the end of the line, whose newline the loop then skips.
LineComment ==
  /\ status = "lexing" /\ Looking(at.pos, <<"/", "/">>)
  /\ at' = Skip(SkipTo(at, ScanTo(at.pos, {"\n"})), 1)
  /\ UNCHANGED <<tokens, parenStack, status, strStart>>

UnclosedComment == InComment(at) /\ CommentEnds(at) = {} /\ Fail("error")

\* Mutant: the loop does not advance.
BlankStays(c) ==
  /\ At(c.pos) \in Space
  /\ UNCHANGED <<at, tokens, parenStack, status, strStart>>
Blank(c) ==
  /\ At(c.pos) \in Space
  /\ at' = Skip(c, 1)
  /\ UNCHANGED <<tokens, parenStack, status, strStart>>

\* Reading past the end of an empty number ("0x" alone) is undefined: it may
\* or may not look like a trailing dot.
NumberError(c) ==
  /\ At(c.pos) \in Digit
  /\ IF BadRadix(c) \/ BadNumber(c) THEN Fail("error")
     ELSE \/ NoDigits(c) /\ Fail("error")
          \/ StollThrows(c) /\ Fail("uncaught")

NumberLiteral(c) ==
  /\ At(c.pos) \in Digit
  /\ ~BadRadix(c) /\ ~BadNumber(c) /\ ~StollThrows(c)
  /\ Emit(IF Dots(c) = {} THEN "INTEGER" ELSE "FLOAT", 0, NumberStart(c), NumberEnd(c))
  /\ at' = Skip(NoIncrement(SkipTo(c, NumberEnd(c))), 1)
  /\ UNCHANGED <<parenStack, status, strStart>>

OpenGroup(c) ==
  /\ At(c.pos) \in {"(", "["}
  /\ Emit(IF At(c.pos) = "(" THEN DetermineParenBeginType ELSE "SQPAREN_LEFT",
          0, c, c.pos + 1)
  /\ parenStack' = Append(parenStack, Len(tokens) + 1)
  /\ at' = Skip(c, 1)
  /\ UNCHANGED <<status, strStart>>

\* The type of the group a closer is checked against, and its own: whatever
\* bracket it is, it ends a call when the innermost open group is one.
TopType == tokens[parenStack[Len(parenStack)]].type
CloserType(ch) == IF TopType = "CALL_BEGIN" THEN "CALL_END" ELSE ConstructType(ch)

\* Mutant: the kinds are not compared.
AnyCloser(c) == parenStack # <<>>
IsMatched(c) == parenStack # <<>> /\ CloserOf[TopType] = CloserType(At(c.pos))

CloseGroup(c) ==
  /\ At(c.pos) \in {")", "]"} /\ IsMatched(c)
  /\ Emit(CloserType(At(c.pos)), 0, c, c.pos + 1)
  /\ parenStack' = SubSeq(parenStack, 1, Len(parenStack) - 1)
  /\ at' = Skip(c, 1)
  /\ UNCHANGED <<status, strStart>>

Mismatch(c) == At(c.pos) \in {")", "]"} /\ ~IsMatched(c) /\ Fail("error")

PlainConstruct(c) ==
  /\ At(c.pos) \in {";", ":", "?"}
  /\ Emit(ConstructType(At(c.pos)), 0, c, c.pos + 1)
  /\ at' = Skip(c, 1)
  /\ UNCHANGED <<parenStack, status, strStart>>

\* Skips the arrow itself and leaves the loop's own skip in place: the
\* character that follows the arrow is lost.
FatArrow(c) ==
  /\ Looking(c.pos, <<"=", ">">>)
  /\ Emit("FAT_ARROW", 0, c, c.pos + 2)
  /\ at' = Skip(Skip(c, 2), 1)
  /\ UNCHANGED <<parenStack, status, strStart>>

\* Mutant: the symbol is not skipped.
OperatorStays(c, op) == at' = Skip(NoIncrement(c), 1)
OperatorMoves(c, op) == at' = Skip(NoIncrement(Skip(c, Len(Operators[op].sym))), 1)
OperatorToken(c) ==
  /\ ~Looking(c.pos, <<"=", ">">>)
  /\ \E op \in FindOperator(c.pos) :
       /\ Emit("OPERATOR", op, c, c.pos + Len(Operators[op].sym))
       /\ OperatorMoves(c, op)
  /\ UNCHANGED <<parenStack, status, strStart>>

\* Everything else is a word.  It is empty only at the end of the file, right
\* after a block comment.
Word(c) ==
  LET e == ScanTo(c.pos, NotIdentifierChars \cup {"\\"}) IN
  /\ At(c.pos) \notin Space \cup Digit \cup OperatorChars \cup ConstructChars \cup {"\""}
  /\ IF At(e) = "\\" THEN Fail("error")
     ELSE /\ IF e = c.pos THEN UNCHANGED tokens
             ELSE Emit(WordType(SubSeq(code, c.pos, e - 1)), 0, c, e)
          /\ at' = Skip(NoIncrement(SkipTo(c, e)), 1)
          /\ UNCHANGED <<parenStack, status, strStart>>

StringBegin(c) ==
  /\ At(c.pos) = "\""
  /\ status' = "string" /\ strStart' = c
  /\ at' = Skip(c, 1)
  /\ UNCHANGED <<tokens, parenStack>>

(***************************************************************************)
(* Inside a string literal                                                 *)
(***************************************************************************)
StringChar ==
  /\ at.pos # EOF /\ At(at.pos) \notin {"\"", "\\"}
  /\ at' = Skip(at, 1)
  /\ UNCHANGED <<tokens, parenStack, status, strStart>>

StringEscape ==
  LET esc == At(at.pos + 1)
      code2 == {At(at.pos + 2), At(at.pos + 3)}
  IN  /\ At(at.pos) = "\\"
      /\ \/ /\ esc \in SingleEscapes
            /\ at' = Skip(at, 2)
            /\ UNCHANGED <<tokens, parenStack, status, strStart>>
         \/ /\ \/ esc = "x" /\ code2 \subseteq HexDigit
               \/ esc \in OctDigit /\ code2 \subseteq ValidForRadix(8)
            /\ at' = Skip(at, 4)
            /\ UNCHANGED <<tokens, parenStack, status, strStart>>
         \/ \* std::stoi finds no octal digit to start with
            esc \in Digit \ OctDigit /\ code2 \subseteq ValidForRadix(8) /\ Fail("uncaught")
         \/ /\ esc \notin SingleEscapes
            /\ esc = "x" => ~(code2 \subseteq HexDigit)
            /\ esc \in Digit => ~(code2 \subseteq ValidForRadix(8))
            /\ Fail("error")

StringEnd ==
  /\ At(at.pos) = "\""
  /\ Emit("STRING", 0, strStart, at.pos + 1)
  /\ status' = "lexing"
  /\ at' = Skip(at, 1)
  /\ UNCHANGED <<parenStack, strStart>>

StringUnclosed == at.pos = EOF /\ Fail("error")

(***************************************************************************)
(* The specification                                                       *)
(***************************************************************************)
\* A "#!" line is skipped before the loop.
Start == [pos |-> 1, line |-> 1, col |-> 0]
Init ==
  /\ code \in Codes
  /\ at = IF Looking(1, <<"#", "!">>) THEN SkipTo(Start, ScanTo(1, {"\n"})) ELSE Start
  /\ tokens = <<>> /\ parenStack = <<>>
  /\ status = "lexing" /\ strStart = Start

\* Mutant: groups left open are not looked for.
FinishAnyway == TRUE
AllClosed == parenStack = <<>>
Finish ==
  /\ status = "lexing" /\ at.pos = EOF
  /\ IF AllClosed
     THEN /\ Emit("FILE_END", 0, at, EOF)
          /\ status' = "done"
          /\ UNCHANGED <<at, parenStack, strStart>>
     ELSE Fail("error")

LexToken ==
  /\ status = "lexing" /\ at.pos # EOF /\ ~Looking(at.pos, <<"/", "/">>)
  /\ \/ UnclosedComment
     \/ \E c \in Starts :
          \/ Blank(c) \/ NumberError(c) \/ NumberLiteral(c) \/ StringBegin(c)
          \/ OpenGroup(c) \/ CloseGroup(c) \/ Mismatch(c) \/ PlainConstruct(c)
          \/ FatArrow(c) \/ OperatorToken(c) \/ Word(c)

LexString ==
  /\ status = "string"
  /\ StringChar \/ StringEscape \/ StringEnd \/ StringUnclosed

Next == (LineComment \/ LexToken \/ LexString \/ Finish) /\ UNCHANGED code

\* The lexer is one loop that nothing interrupts: it takes its next step.
Spec == Init /\ [][Next]_vars /\ WF_vars(Next)

-----------------------------------------------------------------------------
(***************************************************************************)
(* Properties                                                              *)
(***************************************************************************)
Cursor == [pos : Nat, line : Nat, col : Nat]
TokenSet ==
  [type : TokenTypes, op : {0} \cup DOMAIN Operators, first : Nat, next : Nat,
   line : Nat, col : Nat]

\* The lexer's fields hold what lexer.hpp declares, the position stays inside
\* the text, and an operator token (and no other) names an entry of the list.
TypeOK ==
  /\ code \in Codes
  /\ at \in Cursor /\ at.pos \in 1..EOF
  /\ tokens \in Seq(TokenSet)
  /\ \A i \in DOMAIN tokens : tokens[i].type = "OPERATOR" <=> tokens[i].op # 0
  /\ parenStack \in Seq(DOMAIN tokens)
  /\ status \in {"lexing", "string", "done", "error", "uncaught"}
  /\ strStart \in Cursor

Openers(ts) == {i \in DOMAIN ts : ts[i].type \in OpenTypes}
Closers(ts) == {i \in DOMAIN ts : ts[i].type \in CloseTypes}
\* m gives each closer of ts its opener: of its kind, before it, groups nested
\* and never crossing; the openers in the sequence `open` are the ones that no
\* closer has, innermost last, and none of them is inside a closed group.
IsMatching(ts, open, m) ==
  /\ m \in [Closers(ts) -> Openers(ts)]
  /\ \A c \in Closers(ts) : m[c] < c /\ ts[c].type = CloserOf[ts[m[c]].type]
  /\ \A c, d \in Closers(ts) : c # d => m[c] # m[d]
  /\ \A c, d \in Closers(ts) : m[c] < m[d] /\ m[d] < c => d < c
  /\ \A k \in DOMAIN open : open[k] \in Openers(ts)
  /\ \A i \in Openers(ts) :
       (\E k \in DOMAIN open : open[k] = i) <=> (\A c \in Closers(ts) : m[c] # i)
  /\ \A j, k \in DOMAIN open : j < k => open[j] < open[k]
  /\ \A k \in DOMAIN open, c \in Closers(ts) : ~(m[c] < open[k] /\ open[k] < c)
Balanced(ts) == \E m \in [Closers(ts) -> Openers(ts)] : IsMatching(ts, <<>>, m)

\* parenStack holds exactly the groups the tokens so far leave open, innermost
\* last, and every closed one is well nested: what lets the top of the stack
\* decide what a closing bracket is.
BracketsMatched ==
  \E m \in [Closers(tokens) -> Openers(tokens)] : IsMatching(tokens, parenStack, m)

\* A token list the lexer hands out has every group closed by its own kind:
\* the guarantee TokenParser::parseCircumfixGroup relies on to end its scan.
AcceptedIsBalanced == status = "done" => Balanced(tokens)

\* Each step moves forward in the text or ends the lexing, and never takes back
\* a token: noIncrement and the loop's own skip cancel out.
MovesForward ==
  [][/\ status' \in {"lexing", "string"} => at.pos < at'.pos
     /\ Len(tokens) <= Len(tokens')
     /\ \A i \in DOMAIN tokens : tokens'[i] = tokens[i]]_vars

\* Every text is accepted or rejected: no text makes the lexer loop.
Terminates == <>(status \in {"done", "error", "uncaught"})

\* Tokens are found in the order of the text, none overlaps the next, and the
\* traces (line, then column) never run backwards, comments included.
TracesAscend ==
  \A i \in 1..(Len(tokens) - 1) :
    LET t == tokens[i]
        u == tokens[i + 1]
    IN  /\ t.first <= t.next /\ t.next <= u.first
        /\ t.line < u.line \/ (t.line = u.line /\ t.col < u.col)

\* The text from q to l is one comment; the hashbang line counts as one.
IsComment(q, l) ==
  \/ /\ Looking(q, <<"/", "/">>) \/ (q = 1 /\ Looking(1, <<"#", "!">>))
     /\ \A r \in q..l : At(r) \notin {"\n", NUL}
     /\ At(l + 1) \in {"\n", NUL}
  \/ /\ Looking(q, <<"/", "*">>) /\ q + 3 <= l /\ Looking(l - 1, <<"*", "/">>)
     /\ \A r \in (q + 2)..(l - 2) : ~Looking(r, <<"*", "/">>)
\* from..to is blanks and whole comments, one after the other: `cuts` is where
\* one of them begins, and where the last one has ended.
OnlyComments(from, to) ==
  \/ to < from
  \/ \E cuts \in SUBSET (from..(to + 1)) :
       /\ from \in cuts /\ to + 1 \in cuts
       /\ \A p \in cuts \ {to + 1} :
            \/ At(p) \in Space /\ p + 1 \in cuts
            \/ \E l \in p..to : IsComment(p, l) /\ l + 1 \in cuts

\* The gap before token i begins where the token before it ends.  A fat arrow
\* takes one character more, and a radix literal begins after its prefix.
GapStart(i) ==
  IF i = 1 THEN 1
  ELSE IF tokens[i - 1].type = "FAT_ARROW" THEN tokens[i - 1].next + 1
  ELSE tokens[i - 1].next
HasPrefix(t, g) ==
  /\ t.type = "INTEGER" /\ g <= t.first - 2
  /\ At(t.first - 2) = "0" /\ At(t.first - 1) \in RadixLetters

\* Between two tokens the lexer passes over blanks and whole comments and over
\* nothing else: no character after a comment, or between two, is lost.  What it
\* passes over besides is the hashbang line, the prefix of a radix literal, and
\* the character after a fat arrow.
OnlyCommentsAreSkipped ==
  \A i \in DOMAIN tokens :
    \/ OnlyComments(GapStart(i), tokens[i].first - 1)
    \/ /\ HasPrefix(tokens[i], GapStart(i))
       /\ OnlyComments(GapStart(i), tokens[i].first - 3)

\* A comment is read as tokens only where it comes right after a block comment:
\* the round that passes over one (lexer.cpp:183) does not look for another.
CommentsReadAfterComments ==
  \A i \in DOMAIN tokens :
    LET p == tokens[i].first IN
    Looking(p, <<"/", "/">>) \/ Looking(p, <<"/", "*">>) => Looking(p - 2, <<"*", "/">>)

\* Line numbers are right in a text with no // comment, no string and no
\* newline right after a fat arrow; those newlines are skipped uncounted.
LinesCounted ==
  \/ \E q \in DOMAIN code :
       \/ Looking(q, <<"/", "/">>) \/ At(q) = "\"" \/ Looking(q, <<"=", ">", "\n">>)
  \/ at.line = 1 + Cardinality(Newlines(1, at.pos - 1))

\* The order of the operator list makes the lexer take the longest symbol, as
\* the list's "must be ordered" asks for.
LongestOperator ==
  \A i \in DOMAIN tokens : tokens[i].type = "OPERATOR" =>
    \A op \in DOMAIN Operators :
      Looking(tokens[i].first, Operators[op].sym)
        => tokens[i].first + Len(Operators[op].sym) <= tokens[i].next

\* determineFixity says that after an identifier or a closing parenthesis an
\* operator "must be a postfix unary or a binary infix", and in the grammar an
\* operand ends as well with a call.  Of + - ++ and --, which can be either.
FixityAfterOperand ==
  LET Either == {i \in DOMAIN tokens : /\ tokens[i].type = "OPERATOR"
                                       /\ Operators[tokens[i].op].sym[1] \in {"+", "-"}}
      AfterOperand ==
        {i \in Either : /\ i > 1
                        /\ tokens[i - 1].type \in TerminalTypes \cup {"PAREN_RIGHT", "CALL_END"}}
  IN  \A i \in AfterOperand : ~IsPrefix(tokens[i].op)
=============================================================================
