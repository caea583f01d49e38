-------------------------------- MODULE MCCfg --------------------------------
(***************************************************************************)
(* Small programs for CfgRun: nested statements, numbered as Ast wants.    *)
(***************************************************************************)
EXTENDS CfgRun

(* Statements, nested. *)
Expr(e) == [k |-> "expr", emits |-> e]
Return(v) == [k |-> "return", value |-> v]
Break == [k |-> "break"]
Block(type, kids) == [k |-> "block", type |-> type, body |-> kids]
NoElse == <<>>
If(c, yes, no) == [k |-> "branch", cond |-> c, yes |-> Block("if", yes), no |-> no]
Else(kids) == <<Block("code", kids)>>
Loop(init, c, update, kids) ==
  [k |-> "loop", init |-> init, cond |-> c, update |-> update, code |-> Block("code", kids)]
Fun(void, kids) == [k |-> "function", void |-> void, code |-> <<Block("function", kids)>>]
Foreign == [k |-> "function", void |-> TRUE, code |-> <<>>]

(* The table of statement s, whose parent is p and whose number is n. *)
RECURSIVE Numbered(_, _, _), NumberedAll(_, _, _)
Numbered(s, p, n) ==
  CASE s.k = "block" ->
         LET kids == NumberedAll(s.body, n, n + 1) IN
         <<[k |-> "block", parent |-> p, type |-> s.type, kids |-> kids.ids]>> \o kids.table
    [] s.k = "branch" ->
         LET yes == Numbered(s.yes, n, n + 1)
             no == NumberedAll(s.no, n, n + 1 + Len(yes))
         IN  <<[k |-> "branch", parent |-> p, cond |-> s.cond, yes |-> n + 1,
                no |-> IF no.ids = <<>> THEN 0 ELSE no.ids[1]]>> \o yes \o no.table
    [] s.k = "loop" ->
         <<[k |-> "loop", parent |-> p, init |-> s.init, cond |-> s.cond,
            update |-> s.update, code |-> n + 1]>> \o Numbered(s.code, n, n + 1)
    [] s.k = "function" ->
         LET code == NumberedAll(s.code, n, n + 1) IN
         <<[k |-> "function", parent |-> p, void |-> s.void,
            code |-> IF code.ids = <<>> THEN 0 ELSE n + 1]>> \o code.table
    [] s.k = "return" -> <<[k |-> "return", parent |-> p, value |-> s.value]>>
    [] s.k = "break" -> <<[k |-> "break", parent |-> p]>>
    [] s.k = "expr" -> <<[k |-> "expr", parent |-> p, emits |-> s.emits]>>
NumberedAll(ss, p, n) ==
  IF ss = <<>> THEN [ids |-> <<>>, table |-> <<>>]
  ELSE LET first == Numbered(ss[1], p, n)
           rest == NumberedAll(Tail(ss), p, n + Len(first))
       IN  [ids |-> <<n>> \o rest.ids, table |-> first \o rest.table]
Program(kids) == Numbered(Block("root", kids), 0, 1)

E_ == Expr("instruction")
C_ == Expr("nothing")
R_ == Return(TRUE)

(* Straight lines. *)
Leaf == {E_, C_, R_, Return(FALSE), Break, Expr("error")}
Arms == {<<>>, <<E_>>, <<R_>>, <<E_, Break>>, <<R_, C_>>, <<R_, E_>>}
ShortArms == {<<E_>>, <<R_>>, <<Break>>}

(* Statements that turn. *)
Ifs(arms) ==
  {If("ok", a, NoElse) : a \in arms} \cup {If("ok", a, Else(b)) : a, b \in arms}
ElseIfs(arms) ==
  {If("ok", a, <<i>>) : a \in arms, i \in Ifs(arms)}
Loops(arms) ==
  {Loop(i, c, u, a) : i \in BOOLEAN, c \in {"none", "ok"}, u \in BOOLEAN, a \in arms}

(* Statements inside statements: inner ifs and loops in arms and bodies,
   followed by something or not. *)
Inner == Ifs({<<R_>>, <<E_, Break>>}) \cup Loops({<<>>, <<Break>>})
InnerArms == {<<i>> : i \in Inner} \cup {<<i, s>> : i \in Inner, s \in {E_, R_, Break}}
Simple(arms) ==
  Ifs(arms) \cup {Loop(FALSE, c, TRUE, a) : c \in {"none", "ok"}, a \in arms}
Others ==
  {Foreign, Block("code", <<>>), Block("code", <<E_>>), Block("code", <<R_>>),
   If("bad", <<R_>>, NoElse), If("ok", <<R_>>, <<If("bad", <<R_>>, NoElse)>>),
   Loop(FALSE, "bad", FALSE, <<>>),
   Fun(TRUE, <<>>), Fun(TRUE, <<E_>>), Fun(FALSE, <<E_>>), Fun(FALSE, <<R_>>),
   Fun(TRUE, <<Break>>), Fun(TRUE, <<Return(FALSE)>>),
   Fun(FALSE, <<Fun(TRUE, <<E_>>), R_>>)}
Deep ==
  {If("ok", <<R_>>, Else(a)) : a \in InnerArms} \cup {If("ok", a, NoElse) : a \in InnerArms}
    \cup {Loop(FALSE, "ok", TRUE, a) : a \in InnerArms}

Statements ==
  Leaf \cup Others \cup Simple(Arms) \cup ElseIfs(ShortArms) \cup Loops({<<E_>>}) \cup Deep
(* In a context: alone, before or after something, inside a loop or function. *)
Contexts(s) ==
  {<<s>>, <<s, E_>>, <<s, C_>>, <<E_, s>>,
   <<Loop(FALSE, "ok", TRUE, <<s>>), E_>>,
   <<Loop(FALSE, "none", FALSE, <<s, If("ok", <<Break>>, NoElse)>>)>>,
   <<Fun(FALSE, <<s, R_>>), E_>>, <<Fun(FALSE, <<s>>)>>,
   <<Fun(TRUE, <<s>>)>>}
MCPrograms == {Program(<<>>)} \cup {Program(l) : l \in UNION {Contexts(s) : s \in Statements}}
=============================================================================
