------------------------------- MODULE TypeIds -------------------------------
(***************************************************************************)
(* Type identifiers (llvm/typeId.cpp).  An identifier is made for each     *)
(* type, and for each list of types a declaration allows; they are counted *)
(* in the order they are made, and equal only to themselves.  A table of   *)
(* identifiers says of each which names it has and which types it stores:  *)
(* a type stores itself.                                                   *)
(***************************************************************************)
EXTENDS Naturals, Sequences, FiniteSets

\* The identifiers ModuleCompiler starts with, in this order.
Integer == 1
Float == 2
Boolean == 3
Function == 4
Void == 5

TypeId(i, name) == [names |-> {name}, types |-> {i}]
TypeListId(names, types) == [names |-> names, types |-> types]
BasicIds ==
  << TypeId(Integer, "Integer"), TypeId(Float, "Float"), TypeId(Boolean, "Boolean"),
     TypeId(Function, "Function"), TypeId(Void, "Void") >>

\* storedTypeCount
IsList(id) == Cardinality(id.types) > 1

\* Mutant: whatever is no list is taken.
CompatUnlessList(lhs, rhs) == IF IsList(rhs) THEN "dynamic" ELSE "compatible"
\* isCompat, of a type and of a list: may a value of rhs be assigned to lhs?
\* One common type is enough for a list to be left to the run-time check.
IsCompat(lhs, rhs) ==
  IF ~IsList(rhs)
  THEN IF rhs.types \subseteq lhs.types THEN "compatible" ELSE "incompatible"
  ELSE IF lhs.types \cap rhs.types # {} THEN "dynamic" ELSE "incompatible"
=============================================================================
