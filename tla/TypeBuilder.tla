------------------------------ MODULE TypeBuilder ------------------------------
(***************************************************************************)
(* Types under construction: visitType and the visits of what a type has   *)
(* (llvm/compiler.cpp), TypeData and its initialisers (llvm/typeData.cpp). *)
(* tyData is what was built of each type.                                  *)
(***************************************************************************)
EXTENDS Statements

NoData ==
  [tid |-> 0, members |-> <<>>, statics |-> <<>>, methods |-> <<>>, constructors |-> <<>>,
   laidOut |-> FALSE, initExists |-> FALSE]

TypeOf(n) == prog[n].parent
Build(t, field, entry) == tyData' = [tyData EXCEPT ![t][field] = Append(@, entry)]
\* An instruction, or a declaration, without a value, and whether LLVM takes it.
Plain(ok) == [Value(Void, NoValue) EXCEPT !.ok = ok]

\* Mutant: a type may have the name of another.
NeverKnown(n) == FALSE
\* Some block above has a type of that name.
Known(n) == \E b \in BlocksAbove(prog, n) : Named(b, {prog[n].name}) # {}

\* visitType, before its children: the type has an identifier, which nobody
\* finds by name, and an initialiser to be filled.
VisitType(n) ==
  LET tid == Len(ids) + 1 IN
  /\ DueVisit("type", n)
  /\ IF Known(n) THEN Fail("redefined")
     ELSE /\ ids' = Append(ids, TypeId(tid, prog[n].name))
          /\ tyData' = [tyData EXCEPT ![n].tid = tid]
          /\ signatures' = [signatures EXCEPT ![InitOf(n)] = [args |-> <<Lt(1, tid)>>, ret |-> Void]]
          /\ TodoFirst(VisitKids(n) \o <<Task("finalize", n)>>)
          /\ UNCHANGED <<blockTypes, blockScope, blockFuncs, place, code, status>>

\* validateName: only members are asked.
NameTaken(n) ==
  LET d == tyData[TypeOf(n)] IN
  \/ \E i \in DOMAIN d.members : prog[d.members[i].node].name = prog[n].name
  \/ \E i \in DOMAIN d.statics : prog[d.statics[i]].name = prog[n].name

VisitMember(n) ==
  LET problem == Unusable(prog[n].types, n)
      entry == [node |-> n, of |-> Base(TypeIdFromInfo(prog[n].types, n))]
  IN  /\ DueVisit("member", n)
      /\ IF problem # "ok" THEN Fail(problem)
         ELSE IF NameTaken(n) THEN Fail("redefined")
         ELSE /\ IF prog[n].static THEN Build(TypeOf(n), "statics", n)
                 ELSE Build(TypeOf(n), "members", entry)
              /\ TodoFirst(<<>>)
              /\ UNCHANGED <<ids, blockTypes, blockScope, blockFuncs, signatures, place, code, status>>

\* visitMethod: the body of a static method is compiled at once.
VisitMethod(n) ==
  LET problem == SignatureProblem(n)
      this == IF prog[n].static THEN <<>> ELSE <<Lt(0, TidOf(TypeOf(n)))>>
      add == <<Task("addMethod", n)>>
  IN  /\ DueVisit("method", n)
      /\ IF problem # "ok" THEN Fail(problem)
         ELSE /\ signatures' = [signatures EXCEPT ![n] = SignatureOf(n, this)]
              /\ IF prog[n].static /\ ~prog[n].foreign
                 THEN TodoFirst(Body(n) \o add) /\ EnterFunction(n)
                 ELSE TodoFirst(add) /\ UNCHANGED place
              /\ UNCHANGED <<ids, blockTypes, blockScope, blockFuncs, tyData, code, status>>

\* addMethod.  A foreign method is a function with internal linkage that has
\* no body, which LLVM does not take.
AddMethod(n) ==
  /\ Due("addMethod", n)
  /\ IF NameTaken(n) THEN Fail("redefined")
     ELSE /\ IF prog[n].static THEN UNCHANGED tyData ELSE Build(TypeOf(n), "methods", n)
          /\ code' = IF prog[n].foreign THEN InsertedIn(n, "method", n, Plain(FALSE)) ELSE code
          /\ TodoFirst(<<>>)
          /\ UNCHANGED <<ids, blockTypes, blockScope, blockFuncs, signatures, place, status>>

\* visitConstructor and addConstructor, which compares LLVM types.  A foreign
\* one is like a foreign method.
VisitConstructor(n) ==
  LET problem == SignatureProblem(n)
      sig == SignatureOf(n, <<Lt(1, TidOf(TypeOf(n)))>>)
      others == tyData[TypeOf(n)].constructors
  IN  /\ DueVisit("constructor", n)
      /\ IF problem # "ok" THEN Fail(problem)
         ELSE IF \E i \in DOMAIN others : signatures[others[i]] = sig THEN Fail("redefined")
         ELSE /\ signatures' = [signatures EXCEPT ![n] = sig]
              /\ Build(TypeOf(n), "constructors", n)
              /\ code' = IF prog[n].foreign THEN InsertedIn(n, "constructor", n, Plain(FALSE)) ELSE code
              /\ TodoFirst(<<>>)
              /\ UNCHANGED <<ids, blockTypes, blockScope, blockFuncs, place, status>>

(***************************************************************************)
(* TypeData::finalize                                                      *)
(***************************************************************************)
\* Mutant: constructors are compiled before the initialiser.
ConstructorsFirst(inits, statics, methods, constructors, known) ==
  statics \o methods \o constructors \o inits \o known
\* Mutant: the type is known before its constructors are compiled.
KnownEarly(inits, statics, methods, constructors, known) ==
  inits \o statics \o methods \o known \o constructors
Ordered(inits, statics, methods, constructors, known) ==
  inits \o statics \o methods \o constructors \o known

\* The struct gets its body; then come the initialiser, which is erased if no
\* member has an initialisation, static members, methods and constructors.
Finalize(n) ==
  LET d == tyData[n]
      Native(nodes) == Only(nodes, {m \in DOMAIN prog : ~prog[m].foreign})
      Tasks(t, nodes) == [i \in DOMAIN nodes |-> Task(t, nodes[i])]
      fields == [i \in DOMAIN d.members |-> d.members[i].node]
      initialised == Only(fields, {m \in DOMAIN prog : prog[m].e # None})
      inits == IF initialised = <<>> THEN <<>> ELSE <<Task("beginInit", n)>>
                 \o Tasks("initMember", initialised) \o <<Task("endInit", n)>>
  IN  /\ Due("finalize", n)
      /\ tyData' = [tyData EXCEPT ![n].laidOut = TRUE]
      /\ TodoFirst(Ordered(inits, Tasks("static", d.statics), Tasks("method", Native(d.methods)),
                           Tasks("constructor", Native(d.constructors)), <<Task("known", n)>>))
      /\ UNCHANGED <<ids, blockTypes, blockScope, blockFuncs, signatures, place, code, status>>

\* TypeInitializer::finalize
BeginInit(n) ==
  /\ Due("beginInit", n)
  /\ EnterFunction(InitOf(n))
  /\ TodoFirst(<<>>)
  /\ tyData' = [tyData EXCEPT ![n].initExists = TRUE]
  /\ UNCHANGED <<ids, blockTypes, blockScope, blockFuncs, signatures, code, status>>
EndInit(n) ==
  /\ Due("endInit", n)
  /\ LeaveFunction
  /\ TodoFirst(<<>>)
  /\ UNCHANGED <<tables, code, status>>

\* The value of n's initialisation, checked and stored in a place of type `of`;
\* a union is stored into as anything else.
Initialisation(n, of) ==
  LET v == CompileExpression(prog[n].e, n) IN
  Then(v, CheckedStore(<<v>>, Value(TypeIdFromInfo(prog[n].types, n), Lt(1, of)), v, FALSE))
Field(n) ==
  LET members == tyData[TypeOf(n)].members IN
  members[CHOOSE i \in DOMAIN members : members[i].node = n]
InitMember(n) ==
  Due("initMember", n) /\ Insert("initMember", n, Initialisation(n, Field(n).of))

\* A static member is a global with internal linkage that nothing defines,
\* which LLVM does not take; it is initialised where the builder happens to be.
StaticMember(n) ==
  LET of == Base(TypeIdFromInfo(prog[n].types, n))
      v == IF prog[n].e = None THEN Plain(FALSE) ELSE Initialisation(n, of)
  IN  /\ Due("static", n)
      /\ Insert("static", n, Then(v, [v EXCEPT !.ok = FALSE]))

MethodBody(n) ==
  /\ Due("method", n)
  /\ EnterFunction(n)
  /\ TodoFirst(Body(n))
  /\ UNCHANGED <<tables, code, status>>

\* A constructor calls the initialiser first, and ends with a return even if its
\* body has left it.
ConstructorBody(n) ==
  /\ Due("constructor", n)
  /\ EnterFunction(n)
  /\ code' = IF tyData[TypeOf(n)].initExists THEN InsertedIn(n, "callInit", n, Plain(TRUE)) ELSE code
  /\ TodoFirst(VisitKids(n) \o <<Task("endConstructor", n)>>)
  /\ UNCHANGED <<tables, status>>
EndConstructor(n) ==
  /\ Due("endConstructor", n)
  /\ code' = Inserted("return", n, Plain(\A b \in Leaving(prog) : prog[b].parent # n))
  /\ LeaveFunction
  /\ TodoFirst(<<>>)
  /\ UNCHANGED <<tables, status>>

\* The end of finalize and of visitType.
BecomeKnown(n) ==
  /\ Due("known", n)
  /\ blockTypes' = [blockTypes EXCEPT ![EnclosingBlock(n)] = @ \cup {TidOf(n)}]
  /\ TodoFirst(<<>>)
  /\ UNCHANGED <<ids, blockScope, blockFuncs, signatures, tyData, place, code, status>>

TypeStep(n) ==
  \/ VisitType(n) \/ VisitMember(n) \/ VisitMethod(n) \/ AddMethod(n) \/ VisitConstructor(n)
  \/ Finalize(n) \/ BeginInit(n) \/ InitMember(n) \/ EndInit(n) \/ StaticMember(n)
  \/ MethodBody(n) \/ ConstructorBody(n) \/ EndConstructor(n) \/ BecomeKnown(n)
=============================================================================
