------------------------------- MODULE Types -------------------------------
(***************************************************************************)
(* Types of the checker and of the code generator, assignability, and the  *)
(* narrowing of a variable's type by a condition                           *)
(* (src/packages/compiler/src/typecheck-advanced.ts, typecheck.ts).        *)
(*                                                                         *)
(* A type is a tree of Grammar: a class, interface, enum or literal with   *)
(* its name or value as text, an array, map or future over one type, a     *)
(* tuple or a union over several, a function over its result and its       *)
(* parameters.  The texts of literals are their values.                    *)
(*                                                                         *)
(* Left out: intersections, object types, pointers, function pointers,     *)
(* fixed arrays, generic types and namespaces.                             *)
(***************************************************************************)
EXTENDS Grammar, FiniteSets, SequencesExt

VARIABLE
  unit   \* the declarations of the compile unit, by name: classes, interfaces, enums, functions, globals

NoName == ""

Type(kind) == Leaf(kind, "")
Bool == Type("bool")
I32 == Type("i32")
Str == Type("string")
NullType == Type("null")
Void == Type("void")

\* What a function of the checker returns when it has reported an error.
NoType == Type("error")

ClassType(name) == Leaf("class", name)
InterfaceType(name) == Leaf("interface", name)
ArrayOf(t) == Node("array", <<t>>)
MapOf(t) == Node("map", <<t>>)
FutureOf(t) == Node("future", <<t>>)
TupleType(ts) == Node("tuple", ts)
FunctionType(async, result, params) ==
  [kind |-> "function", text |-> IF async THEN "async" ELSE "", kids |-> <<result>> \o params]
Result(t) == t.kids[1]
ParamsOf(t) == Tail(t.kids)
Element(t) == t.kids[1]

IsUnion(t) == t.kind = "union"
IsLiteral(t) == t.kind \in {"stringLiteral", "numberLiteral"}
LiteralBase(t) == IF t.kind = "stringLiteral" THEN Str ELSE I32

IntegerKinds == {"i8", "i32", "i64"}
FloatKinds == {"f32", "f64"}
IsInteger(t) == t.kind \in IntegerKinds
IsNumeric(t) == t.kind \in IntegerKinds \union FloatKinds

-----------------------------------------------------------------------------
(* Unions.                                                                 *)

Arms(t) == IF IsUnion(t) THEN t.kids ELSE <<t>>
ArmSet(t) == ToSet(Arms(t))

\* Duplicates are dropped; a union of one arm is that arm.
MakeUnion(types) ==
  LET flat == FlattenSeq([i \in DOMAIN types |-> Arms(types[i])])
      arms == FoldLeft(LAMBDA kept, t : IF Contains(kept, t) THEN kept ELSE Append(kept, t), <<>>, flat)
  IN IF Len(arms) = 1 THEN arms[1] ELSE Node("union", arms)

IncludesNull(t) == NullType \in ArmSet(t)

ArmsThat(t, Keep(_)) == SelectSeq(Arms(t), Keep)

StripNull(t) ==
  LET rest == ArmsThat(t, LAMBDA arm : arm # NullType)
  IN IF rest = <<>> THEN NullType ELSE MakeUnion(rest)

Optionally(t) == MakeUnion(<<t, NullType>>)

-----------------------------------------------------------------------------
(* Assignability.                                                          *)

Class(c) == unit.classes[c]
Interface(i) == unit.interfaces[i]

RECURSIVE ClassChain(_)
ClassChain(c) == IF c = NoName THEN <<>> ELSE <<c>> \o ClassChain(Class(c).base)

IsSubclass(c, d) == d \in ToSet(ClassChain(c))

\* An interface and all that it extends.
RECURSIVE InterfaceChain(_)
InterfaceChain(i) == {i} \union UNION {InterfaceChain(j) : j \in ToSet(Interface(i).bases)}

ClassSatisfies(c, i) ==
  \E d \in ToSet(ClassChain(c)) : \E named \in ToSet(Class(d).implements) : i \in InterfaceChain(named)

BaseAssignable(from, to) ==
  \/ from = to
  \/ from.kind = "class" /\ to.kind = "class" /\ IsSubclass(from.text, to.text)
  \/ from.kind = "class" /\ to.kind = "interface" /\ ClassSatisfies(from.text, to.text)
  \/ from.kind = "interface" /\ to.kind = "interface" /\ to.text \in InterfaceChain(from.text)

\* Arrays and functions are invariant; maps, futures and tuples are not.
RECURSIVE Assignable(_, _)
Assignable(from, to) ==
  CASE from = to -> TRUE
    [] from = NullType -> IsUnion(to) /\ \E arm \in ArmSet(to) : Assignable(from, arm)
    [] IsLiteral(from) /\ BaseAssignable(LiteralBase(from), to) -> TRUE
    [] IsUnion(from) -> \A arm \in ArmSet(from) : Assignable(arm, to)
    [] IsUnion(to) -> \E arm \in ArmSet(to) : Assignable(from, arm)
    [] from.kind = to.kind /\ from.kind \in {"map", "future"} -> Assignable(Element(from), Element(to))
    [] from.kind = "tuple" /\ to.kind = "tuple" ->
         /\ Len(from.kids) = Len(to.kids)
         /\ \A i \in DOMAIN from.kids : Assignable(from.kids[i], to.kids[i])
    [] from.kind = "function" /\ to.kind = "function" -> FALSE
    [] OTHER -> BaseAssignable(from, to)

-----------------------------------------------------------------------------
(* What an annotation means.  Void is a type of results only.              *)

IsVoid(annotation) == annotation.kind = "Primitive" /\ annotation.text = "void"

Named(name) ==
  CASE name \in DOMAIN unit.enums -> Leaf("enum", name)
    [] name \in DOMAIN unit.classes -> ClassType(name)
    [] name \in DOMAIN unit.interfaces -> InterfaceType(name)
    [] OTHER -> NoType

RECURSIVE Resolve(_), ResolveResult(_)
Resolve(a) ==
  LET each == [i \in DOMAIN a.kids |-> Resolve(a.kids[i])]
      whole(t) == IF NoType \in ToSet(each) THEN NoType ELSE t
  IN CASE a.kind = "Primitive" -> IF IsVoid(a) THEN NoType ELSE Type(a.text)
       [] a.kind = "null" -> NullType
       [] a.kind = "Integer" -> Leaf("numberLiteral", a.text)
       [] a.kind = "String" -> Leaf("stringLiteral", a.text)
       [] a.kind = "ArrayType" -> whole(ArrayOf(each[1]))
       [] a.kind = "TupleType" -> whole(TupleType(each))
       [] a.kind = "UnionType" -> whole(MakeUnion(each))
       [] a.kind = "FunctionType" ->
            LET params == [i \in DOMAIN a.kids[2].kids |-> Resolve(a.kids[2].kids[i])]
                result == ResolveResult(a.kids[3])
            IN IF NoType \in ToSet(Append(params, result)) THEN NoType
               ELSE FunctionType(a.kids[1] # None, result, params)
       [] a.kind = "NamedType" /\ a.kids[3] = None -> Named(a.kids[1].text)
       [] a.kind = "NamedType" /\ a.kids[1].text = "Future" ->
            LET inner == ResolveResult(a.kids[3].kids[1]) IN IF inner = NoType THEN NoType ELSE FutureOf(inner)
       [] OTHER -> NoType

ResolveResult(a) == IF IsVoid(a) THEN Void ELSE Resolve(a)

-----------------------------------------------------------------------------
(* Narrowing: what a condition says of the variables in it.                *)

TypeofTag(t) ==
  CASE t.kind \in {"null", "string", "bool", "char", "i32", "i64", "f32", "f64"} -> t.kind
    [] IsLiteral(t) -> LiteralBase(t).kind
    [] t.kind \in {"class", "struct", "interface", "enum", "array", "tuple", "map"} -> "object"
    [] OTHER -> "none"

\* The text of a string that says it.
Quoted(tag) == "'" \o tag \o "'"

\* A narrowing that no arm survives is dropped.
Kept(t, Keep(_)) ==
  LET arms == ArmsThat(t, Keep) IN IF arms = <<>> THEN t ELSE MakeUnion(arms)

\* A fact is about a variable: that it is null, of a typeof tag, or of a type.
Fact(name, about, type, holds) == [name |-> name, about |-> about, type |-> type, holds |-> holds]

NarrowNull(t, isNull) == IF isNull THEN NullType ELSE StripNull(t)

NarrowToTag(t, tag, holds) == Kept(t, LAMBDA arm : Quoted(TypeofTag(arm)) = tag)
NarrowTypeof(t, tag, holds) == Kept(t, LAMBDA arm : (Quoted(TypeofTag(arm)) = tag) = holds)

NarrowIs(t, type, holds) ==
  IF type = NullType THEN NarrowNull(t, holds) ELSE Kept(t, LAMBDA arm : (arm = type) = holds)

NarrowBy(t, fact) ==
  CASE fact.about = "null" -> NarrowNull(t, fact.holds)
    [] fact.about = "typeof" -> NarrowTypeof(t, fact.type.text, fact.holds)
    [] fact.about = "is" -> NarrowIs(t, fact.type, fact.holds)

Inverted(facts) == [i \in DOMAIN facts |-> [facts[i] EXCEPT !.holds = ~@]]

\* A comparison of a variable (or its typeof) with a constant, in either order.
CompareFacts(operator, left, right) ==
  LET eq == operator = "=="
  IN CASE left.kind = "TypeofExpression" /\ left.kids[1].kind = "Identifier" /\ right.kind = "String" ->
            <<Fact(left.kids[1].text, "typeof", right, eq)>>
       [] right.kind = "TypeofExpression" /\ right.kids[1].kind = "Identifier" /\ left.kind = "String" ->
            <<Fact(right.kids[1].text, "typeof", left, eq)>>
       [] left.kind = "Identifier" /\ right.kind = "null" -> <<Fact(left.text, "null", NullType, eq)>>
       [] right.kind = "Identifier" /\ left.kind = "null" -> <<Fact(right.text, "null", NullType, eq)>>
       [] OTHER -> <<>>

\* What holds where the condition is true.
RECURSIVE FactsOf(_)
FactsOf(e) ==
  CASE e.kind = "UnaryExpression" /\ e.kids[1].kind = "!" -> Inverted(FactsOf(e.kids[2]))
    [] e.kind = "BinaryExpression" /\ e.kids[2].kind = "&&" -> FactsOf(e.kids[1]) \o FactsOf(e.kids[3])
    [] e.kind = "BinaryExpression" /\ e.kids[2].kind \in {"==", "!="} ->
         CompareFacts(e.kids[2].kind, e.kids[1], e.kids[3])
    [] e.kind = "IsExpression" /\ e.kids[1].kind = "Identifier" /\ Resolve(e.kids[2]) # NoType ->
         <<Fact(e.kids[1].text, "is", Resolve(e.kids[2]), TRUE)>>
    [] OTHER -> <<>>

\* What holds where it is false: the inverse, also of a conjunction, and both
\* sides of a disjunction.
RECURSIVE FalseFactsOf(_)
FalseFactsOf(e) ==
  IF e.kind = "BinaryExpression" /\ e.kids[2].kind = "||"
  THEN FalseFactsOf(e.kids[1]) \o FalseFactsOf(e.kids[3])
  ELSE Inverted(FactsOf(e))
=============================================================================
