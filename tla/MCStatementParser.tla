-------------------------- MODULE MCStatementParser --------------------------
(* StatementParser on whole programs, on every order of a few pieces of block   *)
(* structure, on types and on incomplete statements.                          *)
EXTENDS StatementParser

Tk(t) == [type |-> t, op |-> 0]
Op(sym) ==
  [type |-> "OPERATOR",
   op |-> CHOOSE i \in DOMAIN Operators : Operators[i].sym = <<sym>> /\ IsBinary(i)]
X == Tk("IDENTIFIER")
Comma == Op(",")
Plus == Op("+")
Equals == Op("=")
Semicolon == Tk("SEMI")
DoTk == Tk("DO")
EndTk == Tk("END")

XSemi == <<X, Semicolon>>
Sum == <<X, Plus, X>>
Define == <<Tk("DEFINE"), X, Equals, X, Semicolon>>
IfX == <<Tk("IF"), X, DoTk>>
ElseDo == <<Tk("ELSE"), DoTk>>
ElseIfX == <<Tk("ELSE")>> \o IfX
WhileX == <<Tk("WHILE"), X, DoTk>>
EndOnly == <<EndTk>>
Args == <<Tk("SQPAREN_LEFT"), X, Comma, X, X, Comma, X, X, Tk("SQPAREN_RIGHT")>>
Returns == <<Tk("FAT_ARROW"), X, Comma, X>>
FunctionX == <<Tk("FUNCTION"), X>>

\* Up to len of these, one after the other.
RECURSIVE Words(_, _)
Words(pieces, len) ==
  IF len = 0 THEN {<<>>}
  ELSE Words(pieces, len - 1) \cup {p \o w : p \in pieces, w \in Words(pieces, len - 1)}

Simple ==
  {<<>>, XSemi, Define, <<X, X, Semicolon>>, <<X, Comma, X, X, Equals>> \o Sum \o <<Semicolon>>,
   <<Tk("BREAK")>>, <<Tk("RETURN"), Semicolon>>, <<Tk("RETURN")>> \o Sum \o <<Semicolon>>,
   <<Tk("FOREIGN")>> \o FunctionX \o Args \o Returns \o <<Semicolon>>}
ForHead(updates) == <<Tk("FOR")>> \o Define \o XSemi \o updates \o <<DoTk>>
Heads ==
  {<<DoTk>>, WhileX, ForHead(<<>>), ForHead(Sum \o <<Comma>> \o Sum),
   FunctionX \o Args \o Returns \o <<DoTk>>, <<Tk("FUNCTION"), DoTk>>,
   IfX \o XSemi \o ElseDo, IfX \o ElseIfX \o ElseDo}
Compound(bodies) == {h \o b \o EndOnly : h \in Heads, b \in bodies}
Nested == Compound({w \o s : w \in Compound({XSemi}), s \in {<<>>, XSemi}})
GrammarLists ==
  Simple \cup {s \o c \o XSemi : s \in {<<>>, XSemi}, c \in Compound(Simple)} \cup Nested
    \cup {IfX \o n \o ElseIfX \o m \o ElseDo \o EndOnly : n, m \in Compound({<<>>})}

Mod(words) == [i \in DOMAIN words |-> Tk(words[i])]
MethodX == <<Tk("METHOD"), X>>
Members ==
  {Define, <<X, X, Semicolon>>, XSemi, <<Semicolon>>,
   Mod(<<"PUBLIC", "STATIC">>) \o Define, Mod(<<"PUBLIC", "PRIVATE">>) \o Define,
   Mod(<<"STATIC", "STATIC">>) \o Define, Mod(<<"FOREIGN">>) \o Define,
   MethodX \o <<DoTk, EndTk>>, Mod(<<"PUBLIC">>) \o MethodX \o <<DoTk>> \o XSemi \o EndOnly,
   Mod(<<"STATIC", "PROTECT">>) \o MethodX \o <<DoTk>> \o IfX \o EndOnly,
   Mod(<<"PUBLIC", "FOREIGN">>) \o MethodX \o <<Semicolon>>,
   Mod(<<"PUBLIC", "FOREIGN">>) \o MethodX \o <<X, Semicolon, Semicolon>>,
   Mod(<<"CONSTR">>) \o Args \o <<DoTk, EndTk>>, Mod(<<"FOREIGN", "CONSTR", "SEMI">>),
   Mod(<<"STATIC", "CONSTR">>) \o Args \o <<DoTk, EndTk>>, Mod(<<"PUBLIC">>)}
TypeX == <<Tk("TYPE"), X, DoTk>>
TypeLists ==
  {head \o m \o e :
     head \in {TypeX, <<Tk("TYPE"), X, Tk("INHERITS"), Tk("FROM"), X, Comma, X, DoTk>>},
     m \in Words(Members, 2), e \in {<<>>, EndOnly, EndOnly \o XSemi}}

Broken ==
  {ForHead(<<X>>), ForHead(<<X, Comma, X>>), ForHead(Sum \o <<Comma>>),
   ForHead(<<X, Comma>> \o Sum \o <<Comma, X>>),
   ForHead(Sum \o <<Comma>> \o Sum \o <<Comma>>),
   ForHead(<<Plus>>), ForHead(<<X, X>>), ForHead(<<X, Semicolon>>),
   <<Tk("FOR")>> \o XSemi \o XSemi \o <<DoTk>>, <<Tk("FOR"), Semicolon>> \o XSemi \o <<DoTk>>,
   <<Tk("FOR")>> \o Define \o <<Semicolon, DoTk>>, <<Tk("FOR")>> \o Define \o <<X, DoTk>>,
   <<Tk("WHILE"), DoTk>>, <<Tk("WHILE"), X>>, <<Tk("IF"), DoTk>>, <<Tk("IF"), X, Plus, DoTk>>,
   <<Tk("CONTINUE")>>, <<Semicolon>>, <<Tk("ELSE")>>, <<Tk("BREAK"), Semicolon>>,
   <<X, X>>, <<X, Comma, Tk("INTEGER")>>, <<Tk("INTEGER"), Plus, Semicolon>>,
   <<Tk("DEFINE"), Semicolon>>, <<Tk("DEFINE"), X, Equals, Semicolon>>,
   <<Tk("SQPAREN_LEFT")>>, FunctionX, FunctionX \o <<Tk("FAT_ARROW"), DoTk>>,
   FunctionX \o <<Tk("SQPAREN_LEFT"), X, X, X, Tk("SQPAREN_RIGHT"), DoTk>>,
   FunctionX \o <<Tk("SQPAREN_LEFT"), Tk("SQPAREN_RIGHT"), DoTk>>,
   <<Tk("FOREIGN"), Tk("FUNCTION"), Semicolon>>, <<Tk("TYPE"), DoTk>>, <<Tk("TYPE"), X, X>>,
   IfX \o <<Tk("ELSE")>> \o XSemi}

\* What has no token of its own in the source but follows all others.
Listed(lists) == {w \o <<Tk("FILE_END")>> : w \in lists}
MCPrograms == Listed(GrammarLists)
\* A for in which the initialisation, the condition or the updates are left out.
ForInputs ==
  Listed({<<Tk("FOR")>> \o d \o c \o u \o <<DoTk>> \o b \o EndOnly :
            d \in {Define, <<Semicolon>>}, c \in {XSemi, <<Semicolon>>}, u \in {<<>>, Sum},
            b \in {<<>>, XSemi}})
MCInputs ==
  MCPrograms \cup ForInputs \cup
    Listed(Words({XSemi, IfX, ElseDo, ElseIfX, WhileX, EndOnly, TypeX}, 4)
             \cup {w \o e : w \in Words({IfX, WhileX, ElseDo, TypeX}, 4),
                           e \in {EndOnly \o EndOnly, EndOnly \o XSemi \o EndOnly}}
             \cup TypeLists \cup {b \o e : b \in Broken, e \in Words({EndOnly, XSemi}, 2)})
NoPrograms == {}
\* An if without else, then something.
IfInputs == Listed({IfX \o b \o EndOnly \o XSemi : b \in Simple})
=============================================================================
