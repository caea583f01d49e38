----------------------------- MODULE MCExprParser -----------------------------
(* ExprParser on chains of operators, on short token lists and on calls and    *)
(* groups; only lists that the lexer can produce.                              *)
EXTENDS ExprParser

Other(t) == [type |-> t, op |-> 0]
Op(sym, fixity) ==
  [type |-> "OPERATOR",
   op |-> CHOOSE i \in DOMAIN Operators : Operators[i].sym = sym /\ Operators[i].fixity = fixity]
Infix(sym) == Op(sym, "INFIX")
Ident == Other("IDENTIFIER")
Call == Other("CALL_BEGIN")
CallEnd == Other("CALL_END")
Paren == Other("PAREN_LEFT")
ParenEnd == Other("PAREN_RIGHT")
Semi == Other("SEMI")
Comma == Infix(<<",">>)
Plus == Infix(<<"+">>)
Star == Infix(<<"*">>)
Less == Infix(<<"<">>)
Assigned == Infix(<<"=">>)
Not == Op(<<"!">>, "PREFIX")
Inc == Op(<<"+", "+">>, "POSTFIX")

Words(alphabet, len) == UNION {[1..n -> alphabet] : n \in 0..len}
Chains(ops, len) ==
  {[i \in 1..(2 * Len(w) + 1) |-> IF i % 2 = 1 THEN Ident ELSE w[i \div 2]] :
     w \in Words(ops, len)}

\* What the lexer makes of a bracket and of ++ depends on the token before it.
Lexable(w) ==
  \A i \in DOMAIN w :
    LET prev == IF i = 1 THEN Semi ELSE w[i - 1] IN
    /\ w[i] \in {Call, Paren} =>
         (w[i] = Call <=> prev \in {Ident, ParenEnd, CallEnd, Inc})
    /\ w[i] = Inc => prev \in {Ident, ParenEnd, Inc}
Grouped(words) ==
  {<<Paren>> \o w \o <<ParenEnd>> : w \in words}
    \cup {<<Ident, Call>> \o w \o <<CallEnd>> : w \in words}

Lists ==
  Chains({Comma, Assigned, Less, Plus, Star}, 4)
    \cup Words({Ident, Plus, Star, Not, Inc, Semi}, 4)
    \cup Grouped(Words({Ident, Comma, Plus, Not, Inc, Semi}, 3))
    \cup Grouped(Chains({Comma, Plus, Star}, 3))
    \cup {x \o g \o y : x \in Words({Ident, Not, Plus}, 2),
                        g \in Grouped(Words({Ident, Comma}, 1)),
                        y \in Words({Ident, Star, Inc}, 2)}
    \cup {<<Ident, Call>> \o x \o g \o y \o <<CallEnd>> :
            x \in Words({Ident, Comma}, 2), g \in Grouped(Chains({Comma}, 1) \cup {<<>>}),
            y \in Words({Comma, Ident}, 2)}
    \cup {<<Ident, Call, Ident, CallEnd, Call, CallEnd>>, <<Call>>}

MCInputs == {w \o <<Other("FILE_END")>> : w \in {w \in Lists : Lexable(w)}}
\* The chains alone.
ChainInputs == {w \o <<Other("FILE_END")>> : w \in Chains({Assigned, Less, Plus, Star}, 3)}
=============================================================================
