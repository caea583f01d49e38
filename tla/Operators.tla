------------------------------ MODULE Operators ------------------------------
(***************************************************************************)
(* The operator table of the language (operator.cpp): an ordered list, the *)
(* lexer takes the first entry whose symbol starts the remaining input.    *)
(* A symbol is a sequence of characters.  The reference lists of the table *)
(* (which operands must be mutable) are left out: only the code generator  *)
(* reads them.                                                             *)
(***************************************************************************)
EXTENDS Naturals, Sequences

\* The constructor's defaults: associates from the left, binary, infix.
Binary(sym, prec) ==
  [sym |-> sym, prec |-> prec, asoc |-> "left", arity |-> "BINARY", fixity |-> "INFIX"]
Assign(sym) == [Binary(sym, 10) EXCEPT !.asoc = "right"]
Postfix(sym) == [Binary(sym, 130) EXCEPT !.arity = "UNARY", !.fixity = "POSTFIX"]
Prefix(sym) ==
  [Binary(sym, 120) EXCEPT !.asoc = "right", !.arity = "UNARY", !.fixity = "PREFIX"]

\* Operator::list without its last four entries, whose symbols are never
\* matched as operators (they are built by the parser).
Operators ==
  << Binary(<<"=", "=">>, 70), Binary(<<"!", "=">>, 70),
     Assign(<<"=">>), Assign(<<"+", "=">>), Assign(<<"-", "=">>),
     Assign(<<"*", "=">>), Assign(<<"/", "=">>), Assign(<<"%", "=">>),
     Assign(<<"<", "<", "=">>), Assign(<<">", ">", "=">>),
     Assign(<<"&", "=">>), Assign(<<"^", "=">>), Assign(<<"|", "=">>),
     Binary(<<">", ">">>, 90), Binary(<<"<", "<">>, 90),
     Binary(<<"<", "=">>, 80), Binary(<<"<">>, 80),
     Binary(<<">", "=">>, 80), Binary(<<">">>, 80),
     Postfix(<<"-", "-">>), Postfix(<<"+", "+">>),
     Binary(<<".", ".">>, 15), Binary(<<".">>, 130),
     Prefix(<<"-", "-">>), Prefix(<<"+", "+">>), Prefix(<<"-">>),
     Prefix(<<"+">>), Prefix(<<"~">>), Prefix(<<"!">>),
     Binary(<<"*">>, 110), Binary(<<"/">>, 110), Binary(<<"%">>, 110),
     Binary(<<"+">>, 100), Binary(<<"-">>, 100),
     Binary(<<"&", "&">>, 30), Binary(<<"|", "|">>, 20),
     Binary(<<"&">>, 60), Binary(<<"^">>, 50), Binary(<<"|">>, 40),
     Binary(<<",">>, 0) >>

\* A symbol has one to three characters (a fact of the table above, which TLC
\* evaluates).
ASSUME SymbolsAssumption == \A i \in DOMAIN Operators : Len(Operators[i].sym) \in 1..3

\* The constructor takes a signed precedence; the table has none below 0.
ASSUME PrecedencesAssumption == \A i \in DOMAIN Operators : Operators[i].prec \in Nat

\* Every character of a symbol, those of "[]", "()", "?:" and " " included.
OperatorChars ==
  UNION {{Operators[i].sym[k] : k \in DOMAIN Operators[i].sym} : i \in DOMAIN Operators}
    \cup {"[", "]", "(", ")", "?", ":", " "}

\* Whether the operators at these indices have two operands.
IsBinary(op) == Operators[op].arity = "BINARY"
IsPrefix(op) == Operators[op].fixity = "PREFIX"
IsPostfix(op) == Operators[op].fixity = "POSTFIX"

\* The comma stands between two operands only (a fact of the table, as above).
ASSUME CommaAssumption ==
  \A i \in DOMAIN Operators : Operators[i].sym = <<",">> => ~IsPrefix(i)
=============================================================================
