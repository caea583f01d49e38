------------------------------ MODULE MCCodegen ------------------------------
(***************************************************************************)
(* Small programs for Codegen: nested statements, numbered as Scopes wants.*)
(***************************************************************************)
EXTENDS Codegen, SequencesExt

(* Statements, nested. *)
Node(k) ==
  [k |-> k, name |-> "", types |-> {}, args |-> <<>>, e |-> None, update |-> None,
   static |-> FALSE, foreign |-> FALSE, kids |-> <<>>]
Block(kids) == [Node("block") EXCEPT !.kids = kids]
Decl(x, types, e) == [Node("decl") EXCEPT !.name = x, !.types = types, !.e = e]
Do(e) == [Node("expr") EXCEPT !.e = e]
Return(e) == [Node("return") EXCEPT !.e = e]
If(c, yes, no) == [Node("branch") EXCEPT !.e = c, !.kids = <<Block(yes)>> \o no]
Else(kids) == <<Block(kids)>>
For(inits, c, u, kids) == [Node("loop") EXCEPT !.e = c, !.update = u, !.kids = inits \o <<Block(kids)>>]
Fun(f, types, args, kids) ==
  [Node("function") EXCEPT !.name = f, !.types = types, !.args = args, !.kids = <<Block(kids)>>]
Foreign(s) == [s EXCEPT !.foreign = TRUE, !.kids = <<>>]
Static(s) == [s EXCEPT !.static = TRUE]
Class(t, kids) == [Node("type") EXCEPT !.name = t, !.kids = kids]
Member(x, types, e) == [Decl(x, types, e) EXCEPT !.k = "member"]
Method(f, types, args, kids) == [Fun(f, types, args, kids) EXCEPT !.k = "method"]
Ctor(args, kids) == [Fun("", {}, args, kids) EXCEPT !.k = "constructor"]
Arg(x, types) == [name |-> x, types |-> types]

(* Their table: statements of one parent, the first of which has number n. *)
RECURSIVE Table(_, _, _)
Table(kids, parent, n) ==
  IF kids = <<>> THEN <<>>
  ELSE LET s == kids[1]
           own == [k |-> s.k, parent |-> parent, name |-> s.name, types |-> s.types, args |-> s.args,
                   e |-> s.e, update |-> s.update, static |-> s.static, foreign |-> s.foreign]
           below == Table(s.kids, n, n + 1)
       IN  <<own>> \o below \o Table(Tail(kids), parent, n + 1 + Len(below))
Program(kids) == Table(<<Block(kids)>>, 0, 1)

(* Expressions. *)
One == <<[k |-> "literal", ty |-> Integer]>>
Half == <<[k |-> "literal", ty |-> Float]>>
True == <<[k |-> "literal", ty |-> Boolean]>>
Huge == <<[k |-> "huge"]>>
Text == <<[k |-> "string"]>>
N(x) == <<[k |-> "name", name |-> x]>>
Moved(e, by) ==
  [i \in DOMAIN e |-> IF e[i].k = "op" THEN [e[i] EXCEPT !.args = [j \in DOMAIN @ |-> @[j] + by]] ELSE e[i]]
RECURSIVE Joined(_)
Joined(args) ==
  IF args = <<>> THEN <<>> ELSE LET e == Joined(Front(args)) IN e \o Moved(Last(args), Len(e))
Op(op, args) ==
  Append(Joined(args), [k |-> "op", op |-> op, args |-> [j \in DOMAIN args |-> Len(Joined(SubSeq(args, 1, j)))]])
Assign(x, e) == Op("Assignment", <<x, e>>)
CallOf(f, args) == Op("Call", <<N(f)>> \o args)

I == {"Integer"}
F == {"Float"}
B == {"Boolean"}
IF_ == {"Integer", "Float"}
IB == {"Integer", "Boolean"}
IT == {"Integer", "T"}
a == N("a")
b == N("b")

(* Declarations and assignments, of types and of lists. *)
Kinds == {I, F, IF_, IB}
Stores ==
  {<<Decl("a", s, None), Decl("b", t, i), Do(Assign(a, e))>> :
     s, t \in Kinds, i \in {None, One}, e \in {One, Half, a, b}}
    \cup {<<Decl("a", s, None), Decl("b", t, e)>> : s, t \in Kinds, e \in {a, b, Half}}
    \cup {<<Decl("a", s, One), Do(Assign(a, CallOf("f", <<>>)))>> : s \in {I, {}, {"Missing"}}}
    \cup {<<Decl("a", I, None), Do(Assign(b, Assign(a, One)))>>,
          <<Decl("a", I, None), Do(Assign(One, One))>>, <<Decl("a", {"Function"}, None), Do(CallOf("a", <<>>))>>}

(* The operators. *)
Pairs == {<<One, One>>, <<a, Half>>, <<b, a>>, <<True, True>>, <<True, One>>}
Singles == {<<a>>, <<b>>, <<One>>, <<True>>, <<Huge>>, <<Text>>, <<N("c")>>}
Operations ==
  {<<Decl("a", I, One), Decl("b", F, Half), Do(e)>> : e \in
     {Op(op, p) : op \in Arithmetic \cup Comparisons \cup Shifts \cup Bitwise, p \in Pairs}
       \cup {Op(op, p) : op \in Nots \cup Signs \cup Increments, p \in Singles}
       \cup {Op("Range", <<a, b>>), Op("+Assignment", <<a, One>>), Op("+Assignment", <<One, One>>), Op("Add", <<a>>), Op("Assignment", <<a>>)}}

(* Names: blocks, loops, functions inside functions. *)
Loop(x, t) ==
  For(<<Decl(x, t, One)>>, Op("Less", <<N(x), One>>), Op("Postfix ++", <<N(x)>>), <<Do(N(x))>>)
Small ==
  {Decl("a", I, One), Decl("a", F, a), Do(a), Do(Assign(a, One)), Do(CallOf("a", <<>>)), Do(CallOf("a", <<One>>)),
   Loop("a", I), Loop("a", F), Fun("a", {}, <<>>, <<Do(a)>>), Fun("a", I, <<Arg("b", I)>>, <<Return(b)>>),
   If(a, <<Decl("a", B, True), Return(One)>>, <<>>)}
Nested(f, args, s) ==
  {Fun(f, {}, args, <<s>>), Fun(f, I, args, <<s, Return(One)>>), Fun(f, I, args, <<s, Return(a)>>)}
Fitting(ss) == {l \in ss : WellEnded(Program(l))}
Names ==
  {<<s, t>> : s, t \in Small} \cup {<<Decl("a", I, None), s, t>> : s, t \in Small}
    \cup {<<x, f, y>> : x \in {Decl("a", I, One), Do(One)}, y \in {Do(CallOf("f", <<>>)), Do(a), Do(CallOf("f", <<True>>))},
            f \in UNION {Nested("f", args, s) : s \in Small, args \in {<<>>, <<Arg("a", I)>>}}}
    \cup {<<Decl("a", I, One), Fun("f", {}, <<Arg("b", I)>>, <<g>>), Do(CallOf("f", <<One>>))>> :
            g \in UNION {Nested("g", <<>>, s) : s \in {Decl("a", I, One), Do(a), Do(b)}}}
    \cup {<<Fun("f", {}, <<Arg("a", I), Arg("a", I), Arg("b", I)>>, <<Do(x)>>)>> : x \in {a, b, N("c")}}

(* Lists that blocks around know by the same names. *)
Passing ==
  {<<Decl("a", IF_, i), Fun("f", r, <<Arg("x", t)>>, <<s, Return(v)>>), c>> :
     i \in {None, One}, r \in {I, IF_}, t \in {I, IF_}, s \in {Decl("b", IF_, One), Decl("b", I, N("x"))},
     v \in {One, N("x"), b}, c \in {Do(CallOf("f", <<a>>)), Do(CallOf("f", <<One>>)), Do(CallOf("f", <<>>))}}

(* Branches and returns. *)
Returns ==
  {<<Decl("a", t, One), If(c, <<Return(v)>>, n), s>> :
     t \in {I, IF_}, c \in {True, One, Op("Less", <<a, One>>)}, v \in {a, One, Assign(a, One), Half, None},
     n \in {<<>>, <<If(True, <<Return(a)>>, <<>>)>>}, s \in {Return(a), Return(One), Do(Assign(a, One))}}
    \cup {<<Decl("a", I, One), If(True, <<Return(a)>>, Else(<<Return(v)>>))>> : v \in {a, One}}
    \cup {<<Fun("f", r, <<>>, <<Return(v)>>)>> : r \in {{}, I, {"Missing"}}, v \in {None, One, Half}}
    \cup {<<For(<<>>, c, None, <<Decl("a", I, One)>>), Loop(x, I)>> : c \in {None, True, One, N("c")}, x \in {"a", "b"}}
    \cup {<<Foreign(Fun("f", {}, args, <<>>)), Do(CallOf("f", <<One>>))>> : args \in {<<Arg("x", I)>>, <<Arg("x", {})>>, <<>>}}

(* Functions of the runtime, whose names are names like any other. *)
Malloc == N("malloc")
Runtimes ==
  {<<s>> : s \in {Do(Malloc), Do(CallOf("malloc", <<>>)), Do(CallOf("malloc", <<One>>)), Do(Assign(Malloc, One)),
                  Fun("malloc", {}, <<>>, <<>>), Foreign(Fun("malloc", I, <<Arg("x", I)>>, <<>>)),
                  Fun("f", {}, <<Arg("malloc", I)>>, <<Do(Malloc)>>),
                  Class("T", <<Member("malloc", I, None), Ctor(<<>>, <<Do(Malloc)>>)>>)}}
    \cup {<<Do(Malloc), s, Do(u)>> : s \in {Decl("malloc", I, One), Fun("malloc", {}, <<>>, <<>>)},
                                     u \in {Malloc, CallOf("malloc", <<>>)}}
    \cup {<<Fun("f", {}, <<>>, <<s, Do(u)>>), Do(Malloc)>> :
            s \in {Fun("malloc", {}, <<>>, <<>>), Decl("malloc", I, One), Do(One)},
            u \in {Malloc, CallOf("malloc", <<>>), Assign(Malloc, One)}}

(* Types. *)
Parts ==
  {Member("x", I, None), Member("x", I, One), Member("y", F, Half), Member("y", I, Half), Member("x", IF_, One),
   Member("y", {"T"}, None), Member("y", I, a), Static(Member("x", I, None)), Static(Member("x", I, One)),
   Method("x", I, <<>>, <<Return(One)>>), Method("m", {}, <<>>, <<Do(N("x"))>>),
   Method("m", {}, <<>>, <<Fun("f", {}, <<Arg("b", I)>>, <<Do(N("x"))>>)>>),
   Foreign(Method("m", {}, <<>>, <<>>)), Static(Method("m", I, <<>>, <<Return(One)>>)),
   Static(Method("m", I, <<Arg("b", I)>>, <<Do(N("x")), Return(b)>>)), Static(Method("m", I, <<>>, <<Return(a)>>)),
   Ctor(<<>>, <<>>), Ctor(<<>>, <<Do(Assign(N("x"), One))>>), Ctor(<<Arg("b", I)>>, <<Do(Assign(N("x"), b)), Return(None)>>),
   Ctor(<<Arg("b", I)>>, <<Do(N("this")), Decl("a", I, b), Do(a)>>), Foreign(Ctor(<<Arg("b", F)>>, <<>>)),
   Ctor(<<>>, <<Fun("f", {}, <<>>, <<Do(N("x"))>>)>>), Ctor(<<Arg("b", I)>>, <<Class("T", <<>>), Decl("t", {"T"}, None)>>)}
Uses == {Do(One), Decl("t", {"T"}, None), Class("T", <<>>), Decl("t", {"T", "Integer"}, One)}
Types ==
  {<<Class("T", <<p, q>>), Decl("t", {"T"}, None)>> : p, q \in Parts}
    \cup {<<Decl("a", I, One), Class("T", <<p>>), u>> : p \in Parts, u \in Uses}
    \cup {<<Decl("l", IF_, None), Class("T", <<Member("x", IF_, i), Member("y", I, j), Ctor(<<>>, <<Do(e)>>)>>), u>> :
            i, j \in {None, One}, e \in {N("x"), Assign(N("x"), One), Assign(N("y"), One), N("z")}, u \in Uses}
    \cup {<<Fun("f", {}, <<>>, <<Class("T", <<p, Ctor(<<>>, <<>>)>>), Decl("t", {"T"}, None)>>), u>> : p \in Parts, u \in Uses}
    \cup {<<Class("T", <<>>), Decl("l", IT, None), Class(t, <<>>), Decl("m", IT, N("l")), Do(One)>> : t \in {"T", "U"}}
    \cup {<<Class("Integer", <<>>)>>}

MCPrograms ==
  {Program(l) : l \in Fitting(Stores \cup Operations \cup Names \cup Passing \cup Returns \cup Runtimes \cup Types)}
=============================================================================
