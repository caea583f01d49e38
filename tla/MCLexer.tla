------------------------------- MODULE MCLexer -------------------------------
(* Lexer on every text over several small alphabets. *)
EXTENDS Lexer

Texts(alphabet, len) == UNION {[1..n -> alphabet] : n \in 0..len}

MCCodes ==
  Texts({"(", ")", "[", "]", "a"}, 4)
    \cup {<<"a", "(">> \o w : w \in Texts({"(", ")", "[", "]", "a"}, 4)}
    \cup Texts({"a", "+", "-", "(", ")", "1"}, 4)
    \cup Texts({"/", "*", "\n", "a", " "}, 4)
    \cup {<<"/", "*">> \o w : w \in Texts({"/", "*", "\n", "a"}, 4)}
    \cup Texts({"0", "x", "b", "2", "f", ".", ";"}, 3)
    \cup {<<"0", r>> \o w : r \in {"x", "b", "o"}, w \in Texts({"0", "1", "8", "f"}, 3)}
    \cup Texts({"=", ">", "<", "&", "!", "a", "\n"}, 4)
    \cup Texts({"\"", "\\", "n", "\n"}, 4)
    \cup {<<"\"", "\\">> \o w : w \in Texts({"x", "0", "8", "n", "\""}, 4)}
    \cup {<<"#", "!">> \o w : w \in Texts({"k", "t", "\t", "\n", ":"}, 3)}

MCKeywords == {<<"k">>}
MCBooleanWords == {<<"t">>}
=============================================================================
