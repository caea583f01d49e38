----------------------------- MODULE ExprOutline -----------------------------
(***************************************************************************)
(* What the parser of statements has to know of an expression: where it    *)
(* ends, whether it is rejected, and which operator comes out on top.      *)
(* Only expressions of terminals and binary operators are outlined; the    *)
(* run of ExprParser checks the outline against the parser of expressions. *)
(***************************************************************************)
EXTENDS Operators, Integers

TerminalTypes == {"IDENTIFIER", "INTEGER", "FLOAT", "STRING", "BOOLEAN"}
EndTypes == {"SEMI", "FILE_END", "DO"}

IsOp(t, sym) == t.op # 0 /\ Operators[t.op].sym = sym

\* From p on operands and operators alternate.
Alternates(tokens, p, i) ==
  IF (i - p) % 2 = 0
  THEN tokens[i].type \in TerminalTypes
  ELSE tokens[i].op # 0 /\ IsBinary(tokens[i].op)

\* The first token of an expression that starts at p that is not part of it.
ExprEnd(tokens, p) ==
  CHOOSE q \in p..Len(tokens) :
    /\ \A i \in p..(q - 1) : Alternates(tokens, p, i)
    /\ ~Alternates(tokens, p, q)
\* It is missing where an operand is due: parsed if something that ends
\* expressions is there (the operator before it, if any, stays without its
\* right operand), an error otherwise.
OperandDue(tokens, p) == (ExprEnd(tokens, p) - p) % 2 = 0
ExprRejected(tokens, p) ==
  OperandDue(tokens, p) /\ tokens[ExprEnd(tokens, p)].type \notin EndTypes
ExprEmpty(tokens, p) == tokens[p].type \in EndTypes

\* No operator up to i binds tighter than the one before it.
NoRise(tokens, p, i) ==
  \A k \in p..(i - 2) :
    tokens[k].op # 0 /\ tokens[k + 2].op # 0
      => Operators[tokens[k].op].prec >= Operators[tokens[k + 2].op].prec
\* The commas on the path from the top of the tree down its first children; a
\* comma after a rise is inside the right operand of an operator before it.
Commas(tokens, p) ==
  {i \in p..(ExprEnd(tokens, p) - 1) : IsOp(tokens[i], <<",">>) /\ NoRise(tokens, p, i)}
=============================================================================
