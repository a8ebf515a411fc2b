------------------------------ MODULE Checker ------------------------------
(***************************************************************************)
(* The type checker's judgements on expressions and statements             *)
(* (src/packages/compiler/src/typecheck.ts, from checkFunction on).        *)
(*                                                                         *)
(* A place in a program is a record: the scope (a variable's type, as      *)
(* narrowed so far, and whether it may be assigned), and what surrounds    *)
(* it (async function, class, constructor, static method, lambda).         *)
(* TypeOf is checkExpression: NoType stands for an expression with an      *)
(* error, Void for a call without a value.                                 *)
(*                                                                         *)
(* Left out: what only records something for the editor, warnings, unsafe  *)
(* code, namespaces, generic declarations, structs and extensions.         *)
(***************************************************************************)
EXTENDS Types, TLC

Equality == {"==", "!="}
Comparisons == Equality \union {"<", "<=", ">", ">="}
Logical == {"&&", "||"}

\* A variable: its type as narrowed so far, and the constant a const stands for.
Binding(type, mutable) == [type |-> type, mutable |-> mutable, constant |-> None]
Bind(scope, name, binding) == [n \in DOMAIN scope \union {name} |-> IF n = name THEN binding ELSE scope[n]]
Known(at, name) == name \in DOMAIN at.scope

\* The variables as the facts narrow them; other names are left alone.
Narrowed(scope, facts) ==
  FoldLeft(LAMBDA s, fact : IF fact.name \in DOMAIN s
                            THEN [s EXCEPT ![fact.name].type = NarrowBy(@, fact)] ELSE s, scope, facts)
Under(at, facts) == [at EXCEPT !.scope = Narrowed(@, facts)]

-----------------------------------------------------------------------------
(* What values may do.                                                     *)

Scalars == {I32, Type("i64"), Type("f32"), Type("f64"), Bool, Type("char")}

TemplateConvertible(t) ==
  t = Str \/ t \in Scalars \/ IsLiteral(t) \/ t.kind \in {"enum", "array"}

RECURSIVE Printable(_)
Printable(t) ==
  \/ t = Str \/ t \in Scalars \/ IsLiteral(t) \/ t.kind = "enum"
  \/ t.kind = "array" /\ Printable(Element(t))
  \/ IsUnion(t) /\ \A arm \in ArmSet(t) : Printable(arm)

SupportsEquality(t) ==
  \/ t.kind \in {"i32", "i64", "f32", "f64", "bool", "char", "string", "null"}
  \/ t.kind \in {"enum", "class", "interface", "array", "map", "union"}

Throwable(t) == t.kind = "class" /\ IsSubclass(t.text, "Error")

CheckComparison(operator, left, right) ==
  LET equality == operator \in Equality
      other == IF left = NullType THEN right ELSE left
  IN IF \/ equality /\ NullType \in {left, right} /\ (other = Str \/ SupportsEquality(other))
        \/ /\ equality /\ left # right /\ NullType \notin {left, right}
           /\ \/ IsUnion(left) /\ Assignable(right, left)
              \/ IsUnion(right) /\ Assignable(left, right)
        \/ equality /\ left = right /\ SupportsEquality(left)
        \/ ~equality /\ left = right /\ IsNumeric(left)
     THEN Bool ELSE NoType

\* A literal suits types its own type is not assignable to.
RECURSIVE ValueMatches(_, _, _)
ValueMatches(e, type, expected) ==
  \/ Assignable(type, expected)
  \/ e.kind = "String" /\ Assignable(Leaf("stringLiteral", e.text), expected)
  \/ e.kind = "Integer" /\ (Assignable(Leaf("numberLiteral", e.text), expected) \/ IsInteger(expected))
  \/ e.kind = "Float" /\ expected.kind \in FloatKinds
  \/ /\ e.kind = "ArrayLiteral" /\ type.kind = "array" /\ expected.kind = "array"
     /\ \A i \in DOMAIN e.kids :
          LET el == e.kids[i]
          IN CASE el.kind = "Integer" -> ValueMatches(el, I32, Element(expected))
               [] el.kind = "Float" -> ValueMatches(el, Type("f64"), Element(expected))
               [] OTHER -> Element(type) = Element(expected)
  \/ /\ e.kind = "ArrayLiteral" /\ type.kind = "tuple" /\ expected.kind = "tuple"
     /\ Len(e.kids) = Len(expected.kids)
     /\ \A i \in DOMAIN e.kids : ValueMatches(e.kids[i], type.kids[i], expected.kids[i])

\* constantIndexValue: the position an index names; a variable index names none.
Digits == [d \in {"0", "1", "2", "3"} |-> CHOOSE n \in 0..3 : ToString(n) = d]
Constant(e) == e.kind = "Integer"
InTuple(e, t) == Digits[e.text] + 1 \in DOMAIN t.kids

-----------------------------------------------------------------------------
(* Members of classes, as the declarations fill the tables.                *)

Has(members, name) == \E i \in DOMAIN members : members[i].name = name
Member(members, name) == members[CHOOSE i \in DOMAIN members : members[i].name = name]

Accessible(at, member) == member.public \/ at.class = member.class

\* A name that is a class here, and no variable.
NamesClass(at, e) == e.kind = "Identifier" /\ ~Known(at, e.text) /\ e.text \in DOMAIN unit.classes

\* The methods that a value of the type answers to.
MethodsOf(t) ==
  CASE t.kind = "class" -> Class(t.text).methods
    [] t.kind = "interface" -> Interface(t.text).methods
    [] OTHER -> <<>>

ResultOfCall(async, result, voidOk) ==
  CASE async -> FutureOf(result)
    [] ~async /\ result = Void /\ ~voidOk -> NoType
    [] OTHER -> result

-----------------------------------------------------------------------------
(* Arguments: positional ones first, then named ones, then the defaults of *)
(* the parameters left out.  The checker puts them in the order of the     *)
(* parameters, and the code generator sees them in that order.             *)

Absent == Leaf("absent", "")

\* mapCallArgumentsToSlots and fillDefaultArgumentSlots; <<Absent>> for an error.
Slots(args, params) ==
  LET named == {i \in DOMAIN args : args[i].kind = "NamedArgument"}
      place(i) == IF i \in named
                  THEN {j \in DOMAIN params : params[j].kids[1] = args[i].kids[1]}
                  ELSE {i} \intersect DOMAIN params
      for(j) == {i \in DOMAIN args : j \in place(i)}
      value(i) == IF i \in named THEN args[i].kids[2] ELSE args[i]
  IN IF \/ \E i \in named : \E j \in DOMAIN args \ named : i < j
        \/ \E i \in DOMAIN args : place(i) = {}
        \/ \E j \in DOMAIN params : Cardinality(for(j)) > 1 \/ (for(j) = {} /\ params[j].kids[3] = None)
     THEN <<Absent>>
     ELSE [j \in DOMAIN params |-> IF for(j) = {} THEN params[j].kids[3] ELSE value(CHOOSE i \in for(j) : TRUE)]

-----------------------------------------------------------------------------
(* Checking: what Check says of an expression is its type, of a statement  *)
(* a judgement.  A statement without an error is ok; one that leaves its   *)
(* block on every path exits; the scope is what the next one sees.         *)

RECURSIVE Check(_, _)

Judged(ok, exits, scope) == [ok |-> ok, exits |-> exits, scope |-> scope]
InScope(at, scope) == [at EXCEPT !.scope = scope]

\* What follows an exit is still checked.
Followed(r, next) == Judged(r.ok /\ next.ok, r.exits \/ next.exits, next.scope)
CheckStatements(statements, at) ==
  FoldLeft(LAMBDA r, s : Followed(r, Check(s, InScope(at, r.scope))), Judged(TRUE, FALSE, at.scope), statements)

-----------------------------------------------------------------------------
(* Expressions.  The place asks for the type `want', NoType for none, and  *)
(* may do without a value (voidOk).                                        *)

TypeOf(e, at, want, voidOk) == Check(e, [at EXCEPT !.want = want, !.voidOk = voidOk])
Plain(e, at) == TypeOf(e, at, NoType, FALSE)
SuitsAs(e, t, want) == t # NoType /\ ValueMatches(e, t, want)
Suits(e, at, want) == SuitsAs(e, TypeOf(e, at, want, FALSE), want)
AllSuit(es, at, types) == Len(es) = Len(types) /\ \A i \in DOMAIN es : Suits(es[i], at, types[i])

\* checkDeclarationCallArgs; a value of function type takes no named arguments.
ArgumentsSuit(args, at, params, types) == AllSuit(Slots(args, params), at, types)
ValuesSuit(args, at, types) == (\A i \in DOMAIN args : args[i].kind # "NamedArgument") /\ AllSuit(args, at, types)

\* A literal keeps its value where the place asks for a literal.
CheckLiteral(e, kind, want) ==
  LET literal == Leaf(kind, e.text)
  IN IF want.kind = kind \/ (IsUnion(want) /\ Assignable(literal, want)) THEN literal ELSE LiteralBase(literal)

CommonArray(types) ==
  CASE NoType \in ToSet(types) -> NoType
    [] \A i \in DOMAIN types : types[i] = types[1] -> ArrayOf(types[1])
    [] OTHER -> TupleType(types)
CheckArrayLiteral(e, at, want) ==
  CASE want.kind = "tuple" -> IF AllSuit(e.kids, at, want.kids) THEN want ELSE NoType
    [] want.kind = "array" -> IF \A i \in DOMAIN e.kids : Suits(e.kids[i], at, Element(want)) THEN want ELSE NoType
    [] OTHER -> IF e.kids = <<>> THEN NoType ELSE CommonArray([i \in DOMAIN e.kids |-> Plain(e.kids[i], at)])

\* What is left of an operand after ?. has looked at it.
Present(t, optional) == IF optional /\ IncludesNull(t) THEN StripNull(t) ELSE t
Wrapped(t, optional) == IF optional /\ t \notin {NoType, Void} THEN Optionally(t) ELSE t

CheckIndex(e, at, optional) ==
  LET object == Plain(e.kids[1], at)
      index == Plain(e.kids[2], at)
      t == Present(object, optional)
      found == CASE t.kind = "map" -> IF index = Str \/ index.kind = "stringLiteral" THEN Element(t) ELSE NoType
                 [] t.kind = "tuple" /\ IsInteger(index) ->
                      IF ~Constant(e.kids[2]) THEN MakeUnion(t.kids)
                      ELSE IF InTuple(e.kids[2], t) THEN t.kids[Digits[e.kids[2].text] + 1] ELSE NoType
                 [] t.kind = "array" /\ IsInteger(index) -> Element(t)
                 [] OTHER -> NoType
  IN CASE NoType \in {object, index} -> NoType
       [] optional /\ object = NullType -> NullType
       [] OTHER -> Wrapped(found, optional)

CheckFieldOf(t, name, at) ==
  CASE t.kind = "class" ->
         IF Has(Class(t.text).fields, name) /\ Accessible(at, Member(Class(t.text).fields, name))
         THEN Member(Class(t.text).fields, name).type ELSE NoType
    [] t.kind \in {"string", "array", "tuple"} /\ name = "length" -> I32
    [] OTHER -> NoType

CheckMember(e, at, optional) ==
  LET name == e.kids[2].text
      object == Plain(e.kids[1], at)
  IN CASE e.kids[1].kind = "Identifier" /\ ~Known(at, e.kids[1].text) /\ e.kids[1].text \in DOMAIN unit.enums ->
            IF name \in ToSet(unit.enums[e.kids[1].text]) THEN Leaf("enum", e.kids[1].text) ELSE NoType
       [] NamesClass(at, e.kids[1]) /\ Has(Class(e.kids[1].text).statics, name) ->
            LET field == Member(Class(e.kids[1].text).statics, name)
            IN IF Accessible(at, field) THEN field.type ELSE NoType
       [] ~optional /\ (IsUnion(object) \/ object = NullType) -> NoType
       [] optional /\ object = NullType -> NullType
       [] OTHER -> Wrapped(CheckFieldOf(IF optional THEN StripNull(object) ELSE object, name, at), optional)

CheckNew(e, at) ==
  LET c == e.kids[1].text
      args == e.kids[4].kids
  IN IF /\ c \in DOMAIN unit.classes /\ ~Class(c).abstract
        /\ ArgumentsSuit(args, at, Class(c).constructor.params, Class(c).constructor.types)
     THEN ClassType(c) ELSE NoType

CheckName(e, at) ==
  CASE Known(at, e.text) -> at.scope[e.text].type
    [] ~Known(at, e.text) /\ e.text \in DOMAIN unit.globals -> unit.globals[e.text].type
    [] ~Known(at, e.text) /\ e.text \notin DOMAIN unit.globals /\ e.text \in DOMAIN unit.functions ->
         LET f == unit.functions[e.text] IN FunctionType(f.async, f.result, f.types)
    [] OTHER -> NoType

CheckAwait(e, at, voidOk) ==
  LET t == Plain(e.kids[1], at)
  IN IF at.async /\ t.kind = "future" /\ (Element(t) # Void \/ voidOk) THEN Element(t) ELSE NoType

CheckUnary(e, at) ==
  LET t == Plain(e.kids[2], at)
  IN CASE e.kids[1].kind = "!" -> IF t = Bool THEN Bool ELSE NoType
       [] e.kids[1].kind = "-" -> IF IsNumeric(t) THEN t ELSE NoType
       [] OTHER -> NoType

CheckCoalescing(e, at) ==
  LET left == Plain(e.kids[1], at)
      right == Plain(e.kids[2], at)
  IN IF NoType \notin {left, right} /\ Assignable(right, StripNull(left)) THEN StripNull(left) ELSE NoType

CastType(from, to) ==
  IF NoType \notin {from, to} /\ (from = to \/ {from, to} \subseteq {Type(k) : k \in IntegerKinds}) THEN to ELSE NoType
CheckCast(e, at) == CastType(Plain(e.kids[1], at), Resolve(e.kids[2]))

\* The right side of && is only reached where the left one holds.
CheckLogical(e, at) ==
  LET facts == IF e.kids[2].kind = "&&" THEN FactsOf(e.kids[1]) ELSE <<>>
  IN IF Plain(e.kids[1], at) = Bool /\ Plain(e.kids[3], Under(at, facts)) = Bool THEN Bool ELSE NoType

CheckArithmetic(operator, left, right) ==
  CASE operator = "+" /\ Str \in {left, right} /\ {left, right} \subseteq Scalars \union {Str} -> Str
    [] IsNumeric(left) /\ left = right -> left
    [] OTHER -> NoType

CheckBinary(e, at) ==
  LET operator == e.kids[2].kind
      left == Plain(e.kids[1], at)
      right == Plain(e.kids[3], at)
  IN CASE operator \in Logical -> CheckLogical(e, at)
       [] operator \notin Logical /\ NoType \in {left, right} -> NoType
       [] operator \in Comparisons -> CheckComparison(operator, left, right)
       [] OTHER -> CheckArithmetic(operator, left, right)

\* The types of a lambda's parameters and its declared result, by annotation or
\* as the place asks for it.
LambdaTypes(params, want) ==
  [i \in DOMAIN params |-> IF params[i].kids[2] # None THEN Resolve(params[i].kids[2])
                           ELSE IF want.kind = "function" THEN ParamsOf(want)[i] ELSE NoType]
LambdaResult(e, want) ==
  CASE e.kids[3] # None -> ResolveResult(e.kids[3])
    [] e.kids[3] = None /\ want.kind = "function" -> Result(want)
    [] OTHER -> NoType

\* What the body of a lambda gives, NoType where that is not what it declares.
LambdaBody(body, at, declared) ==
  LET returns(r) == r.ok /\ declared # NoType /\ (declared = Void \/ r.exits)
  IN CASE body.kind = "Block" ->
            IF returns(CheckStatements(body.kids, [at EXCEPT !.result = declared, !.loops = 0, !.switches = 0]))
            THEN declared ELSE NoType
       [] body.kind # "Block" /\ declared = NoType -> Plain(body, at)
       [] OTHER -> IF declared # Void /\ Suits(body, at, declared) THEN declared ELSE NoType

\* The body sees the variables as they are narrowed where the lambda stands.
LambdaType(e, at, want, async, params, types, declared) ==
  LET bound == FoldLeftDomain(LAMBDA s, i : Bind(s, params[i].kids[1].text, Binding(types[i], FALSE)), at.scope, params)
      result == LambdaBody(e.kids[4], [at EXCEPT !.scope = bound, !.lambda = TRUE, !.async = async], declared)
  IN IF \/ NoType \in ToSet(types)
        \/ want.kind = "function" /\ (types # ParamsOf(want) \/ declared # Result(want))
        \/ result = NoType
     THEN NoType ELSE FunctionType(async, result, types)

CheckLambda(e, at, want) ==
  LET params == e.kids[2].kids
      async == e.kids[1] # None
  IN IF want.kind = "function" /\ (async # (want.text = "async") \/ Len(params) # Len(ParamsOf(want)))
     THEN NoType
     ELSE LambdaType(e, at, want, async, params, LambdaTypes(params, want), LambdaResult(e, want))

CheckMethodCall(object, name, args, at, optional, voidOk) ==
  LET known == NamesClass(at, object)
      t == IF known THEN ClassType(object.text) ELSE Plain(object, at)
      methods == IF known THEN Class(object.text).staticMethods ELSE MethodsOf(Present(t, optional))
      method == Member(methods, name)
  IN CASE t = NoType -> NoType
       [] optional /\ t = NullType -> NullType
       [] Has(methods, name) /\ Accessible(at, method) /\ ArgumentsSuit(args, at, method.params, method.types) ->
            Wrapped(ResultOfCall(method.async, method.result, voidOk), optional /\ ~known)
       [] OTHER -> NoType

CheckValueCall(type, args, at, voidOk) ==
  IF type.kind = "function" /\ ValuesSuit(args, at, ParamsOf(type))
  THEN ResultOfCall(type.text = "async", Result(type), voidOk) ELSE NoType

CheckPrint(args, at, voidOk) ==
  IF voidOk /\ args # <<>> /\ \A i \in DOMAIN args : Printable(Plain(args[i], at)) THEN Void ELSE NoType

CheckCall(e, at, voidOk) ==
  LET f == e.kids[1]
      args == e.kids[3].kids
  IN CASE f.kind = "super" ->
            IF /\ at.constructor /\ Class(at.class).base # NoName /\ voidOk
               /\ LET base == Class(Class(at.class).base).constructor IN ArgumentsSuit(args, at, base.params, base.types)
            THEN Void ELSE NoType
       [] f.kind = "MemberExpression" -> CheckMethodCall(f.kids[1], f.kids[2].text, args, at, FALSE, voidOk)
       [] f.kind = "Identifier" /\ f.text = "print" -> CheckPrint(args, at, voidOk)
       [] f.kind = "Identifier" /\ f.text # "print" /\ f.text \in DOMAIN unit.functions ->
            LET g == unit.functions[f.text]
            IN IF ArgumentsSuit(args, at, g.params, g.types) THEN ResultOfCall(g.async, g.result, voidOk) ELSE NoType
       [] f.kind = "Identifier" /\ f.text # "print" /\ f.text \notin DOMAIN unit.functions ->
            IF Known(at, f.text) THEN CheckValueCall(at.scope[f.text].type, args, at, voidOk) ELSE NoType
       [] OTHER -> CheckValueCall(Plain(f, at), args, at, voidOk)

CheckExpression(e, at, want, voidOk) ==
  CASE e.kind = "Integer" -> CheckLiteral(e, "numberLiteral", want)
    [] e.kind = "String" -> CheckLiteral(e, "stringLiteral", want)
    [] e.kind = "Float" -> Type("f64")
    [] e.kind \in {"true", "false"} -> Bool
    [] e.kind = "null" -> NullType
    [] e.kind = "TemplateLiteral" ->
         IF \A i \in DOMAIN e.kids : TemplateConvertible(Plain(e.kids[i], at)) THEN Str ELSE NoType
    [] e.kind = "ArrayLiteral" -> CheckArrayLiteral(e, at, want)
    [] e.kind \in {"IndexExpression", "OptionalIndex"} -> CheckIndex(e, at, e.kind = "OptionalIndex")
    [] e.kind \in {"MemberExpression", "OptionalMember"} -> CheckMember(e, at, e.kind = "OptionalMember")
    [] e.kind = "this" -> IF at.lambda \/ at.static THEN NoType ELSE at.this
    [] e.kind = "NewExpression" -> CheckNew(e, at)
    [] e.kind = "Identifier" -> CheckName(e, at)
    [] e.kind = "AwaitExpression" -> CheckAwait(e, at, voidOk)
    [] e.kind = "NonNullExpression" ->
         LET t == Plain(e.kids[1], at) IN IF t # NoType /\ IncludesNull(t) THEN StripNull(t) ELSE NoType
    [] e.kind = "NullCoalescingExpression" -> CheckCoalescing(e, at)
    [] e.kind = "UnaryExpression" -> CheckUnary(e, at)
    [] e.kind = "CastExpression" -> CheckCast(e, at)
    [] e.kind = "TypeofExpression" ->
         LET t == Plain(e.kids[1], at) IN IF t # NoType /\ (TypeofTag(t) # "none" \/ IsUnion(t)) THEN Str ELSE NoType
    [] e.kind = "IsExpression" -> IF NoType \in {Plain(e.kids[1], at), Resolve(e.kids[2])} THEN NoType ELSE Bool
    [] e.kind = "BinaryExpression" -> CheckBinary(e, at)
    [] e.kind = "LambdaExpression" -> CheckLambda(e, at, want)
    [] e.kind = "CallExpression" -> CheckCall(e, at, voidOk)
    [] e.kind = "OptionalCall" -> CheckMethodCall(e.kids[1], e.kids[2].text, e.kids[4].kids, at, TRUE, voidOk)
    [] OTHER -> NoType

-----------------------------------------------------------------------------
(* Statements.  The scope of a block that is not copied is the scope       *)
(* around it.                                                              *)

\* The expressions a const may stand for in a case.
ConstantInitializer(e) ==
  \/ e.kind \in {"Integer", "Float", "true", "false", "String", "Char"}
  \/ e.kind = "UnaryExpression" /\ e.kids[1].kind = "-" /\ e.kids[2].kind = "Integer"
  \/ e.kind = "MemberExpression" /\ e.kids[1].kind = "Identifier"

\* No name is declared twice, not even in a block inside.
Annotation(s) == IF s.kids[3] = None THEN NoType ELSE Resolve(s.kids[3])
VariableAs(s, at, annotated) ==
  LET mutable == s.kids[1].kind = "let"
      name == s.kids[2].text
      value == s.kids[4]
      inferred == IF value = None THEN annotated ELSE TypeOf(value, at, annotated, FALSE)
      type == IF annotated = NoType THEN inferred ELSE annotated
      constant == IF ~mutable /\ value # None /\ ConstantInitializer(value) THEN value ELSE None
  IN IF /\ name \notin DOMAIN at.scope
        /\ s.kids[3] # None => annotated # NoType
        /\ inferred # NoType
        /\ annotated # NoType /\ value # None => ValueMatches(value, inferred, annotated)
     THEN Judged(TRUE, FALSE, Bind(at.scope, name, [Binding(type, mutable) EXCEPT !.constant = constant]))
     ELSE Judged(FALSE, FALSE, at.scope)
CheckVariable(s, at) == VariableAs(s, at, Annotation(s))

\* Each name of the pattern takes the element in its place.
DestructuringAs(s, at, asked) ==
  LET names == s.kids[2].kids
      inferred == IF s.kids[4] = None THEN NoType ELSE TypeOf(s.kids[4], at, asked, FALSE)
      tuple == IF asked = NoType THEN inferred ELSE asked
      bound == {i \in DOMAIN names : names[i] # None}
  IN IF /\ inferred # NoType /\ tuple.kind = "tuple" /\ Len(names) = Len(tuple.kids)
        /\ s.kids[3] # None => asked # NoType /\ ValueMatches(s.kids[4], inferred, asked)
        /\ \A i \in bound : names[i].text \notin DOMAIN at.scope
        /\ \A i, j \in bound : i # j => names[i].text # names[j].text
     THEN Judged(TRUE, FALSE,
            FoldLeftDomain(LAMBDA scope, i :
                             IF i \in bound THEN Bind(scope, names[i].text, Binding(tuple.kids[i], s.kids[1].kind = "let"))
                             ELSE scope, at.scope, names))
     ELSE Judged(FALSE, FALSE, at.scope)
CheckDestructuring(s, at) == DestructuringAs(s, at, Annotation(s))

\* The type a member takes, NoType where it may not be assigned.
CheckMemberLvalue(e, at) ==
  LET name == e.kids[2].text
      known == NamesClass(at, e.kids[1])
      object == Plain(e.kids[1], at)
      fields == IF known THEN Class(e.kids[1].text).statics
                ELSE IF object.kind = "class" THEN Class(object.text).fields ELSE <<>>
      field == Member(fields, name)
  IN IF /\ Has(fields, name) /\ Accessible(at, field)
        /\ field.readonly => ~known /\ at.constructor /\ at.class = field.class
     THEN field.type ELSE NoType

\* An element may be assigned through a const; in a tuple at a constant place.
CheckIndexLvalue(e, operator, at) ==
  LET object == Plain(e.kids[1], at)
      index == Plain(e.kids[2], at)
  IN CASE NoType \in {object, index} -> NoType
       [] object.kind = "map" ->
            IF operator = "=" /\ (index = Str \/ index.kind = "stringLiteral") THEN Element(object) ELSE NoType
       [] object.kind = "array" -> IF IsInteger(index) THEN Element(object) ELSE NoType
       [] object.kind = "tuple" ->
            IF IsInteger(index) /\ Constant(e.kids[2]) /\ InTuple(e.kids[2], object)
            THEN object.kids[Digits[e.kids[2].text] + 1] ELSE NoType
       [] OTHER -> NoType

\* A local variable, or one of the module.
Variable(at, name) ==
  CASE Known(at, name) -> at.scope[name]
    [] ~Known(at, name) /\ name \in DOMAIN unit.globals -> unit.globals[name]
    [] OTHER -> Binding(NoType, FALSE)

LvalueType(target, operator, at) ==
  CASE target.kind = "Identifier" ->
         IF Variable(at, target.text).mutable THEN Variable(at, target.text).type ELSE NoType
    [] target.kind = "MemberExpression" -> CheckMemberLvalue(target, at)
    [] target.kind = "IndexExpression" -> CheckIndexLvalue(target, operator, at)
    [] OTHER -> NoType

\* The value must suit the variable as it is narrowed here.
AssignedTo(type, s, at) ==
  LET value == TypeOf(s.kids[3], at, IF s.kids[1].kind = "Identifier" THEN type ELSE NoType, FALSE)
  IN /\ NoType \notin {type, value}
     /\ s.kids[2].kind # "=" => IsNumeric(type)
     /\ ValueMatches(s.kids[3], value, type)
CheckAssignment(s, at) == AssignedTo(LvalueType(s.kids[1], s.kids[2].kind, at), s, at)

CheckUpdate(s, at) ==
  LET variable == Variable(at, s.kids[1].text) IN variable.mutable /\ IsNumeric(variable.type)

CheckReturn(s, at) ==
  IF at.result = Void \/ s.kids[1] = None THEN at.result = Void /\ s.kids[1] = None
  ELSE LET t == TypeOf(s.kids[1], at, at.result, FALSE)
       IN t # NoType /\ ~(at.async /\ t.kind = "future") /\ ValueMatches(s.kids[1], t, at.result)

\* Where one branch exits, what the other one knows holds from here on.
AfterIf(tested, then, else, scope, holds, fails) ==
  Judged(tested /\ then.ok /\ else.ok, then.exits /\ else.exits,
         CASE then.exits /\ ~else.exits -> Narrowed(scope, fails)
           [] else.exits /\ ~then.exits -> Narrowed(scope, holds)
           [] OTHER -> scope)
IfKnowing(s, at, holds, fails) ==
  AfterIf(Plain(s.kids[1], at) = Bool, CheckStatements(s.kids[2].kids, Under(at, holds)),
          CASE s.kids[3] = None -> Judged(TRUE, FALSE, at.scope)
            [] s.kids[3].kind = "Block" -> CheckStatements(s.kids[3].kids, Under(at, fails))
            [] OTHER -> Check(s.kids[3], Under(at, fails)),
          at.scope, holds, fails)
CheckIf(s, at) == IfKnowing(s, at, FactsOf(s.kids[1]), FalseFactsOf(s.kids[1]))

InLoop(at) == [at EXCEPT !.loops = @ + 1]

CheckWhile(s, at) ==
  LET body == CheckStatements(s.kids[2].kids, InLoop(Under(at, FactsOf(s.kids[1]))))
  IN Judged(Plain(s.kids[1], at) = Bool /\ body.ok, FALSE, at.scope)

\* All parts of a for share the scope around it, the body too.
CheckFor(s, at) ==
  LET part(e, scope) == IF e = None THEN Judged(TRUE, FALSE, scope) ELSE Check(e, InScope(at, scope))
      init == part(s.kids[1], at.scope)
      update == part(s.kids[3], init.scope)
      body == CheckStatements(s.kids[4].kids, InLoop(InScope(at, update.scope)))
      condition == s.kids[2] = None \/ Plain(s.kids[2], InScope(at, init.scope)) = Bool
  IN Judged(init.ok /\ condition /\ update.ok /\ body.ok, FALSE, body.scope)

CheckForIn(s, at) ==
  LET name == s.kids[2].text
      iterable == Plain(s.kids[3], at)
      bound == Bind(at.scope, name, Binding(Element(iterable), s.kids[1].kind = "let"))
      body == CheckStatements(s.kids[4].kids, InLoop(InScope(at, bound)))
  IN IF iterable.kind = "array" /\ name \notin DOMAIN at.scope
     THEN Judged(body.ok, FALSE, [n \in DOMAIN body.scope \ {name} |-> body.scope[n]])
     ELSE Judged(FALSE, FALSE, at.scope)

\* resolveSwitchCaseConstantExpr: the constant of a label, None for none.
CaseConstant(e, at) ==
  CASE ConstantInitializer(e) -> e
    [] e.kind = "Identifier" /\ Known(at, e.text) -> at.scope[e.text].constant
    [] OTHER -> None

\* The cases share one scope; two cases may not have one constant.
CheckSwitch(s, at) ==
  LET subject == Plain(s.kids[1], at)
      cases == Tail(s.kids)
      default(c) == c.kids[1] = None
      tests(c, scope) ==
        LET test == c.kids[1]
        IN default(c) \/ /\ CaseConstant(test, InScope(at, scope)) # None
                         /\ Plain(test, InScope(at, scope)) # NoType
                         /\ Assignable(Plain(test, InScope(at, scope)), subject)
      checked == FoldLeft(LAMBDA r, c :
                   LET body == CheckStatements(c.kids[2].kids, [InScope(at, r.scope) EXCEPT !.switches = @ + 1])
                   IN Judged(r.ok /\ tests(c, r.scope) /\ body.ok, FALSE, body.scope),
                   Judged(TRUE, FALSE, at.scope), cases)
  IN IF subject = NoType \/ ~SupportsEquality(subject) THEN Judged(FALSE, FALSE, at.scope)
     ELSE Judged(/\ checked.ok
                 /\ \A i, j \in DOMAIN cases : i # j =>
                      IF default(cases[i]) THEN ~default(cases[j])
                      ELSE ~default(cases[j]) =>
                             CaseConstant(cases[i].kids[1], at) # CaseConstant(cases[j].kids[1], at),
                 FALSE, checked.scope)

\* The handler alone has a scope of its own.
CheckTry(s, at) ==
  LET handler == s.kids[2]
      final == s.kids[3]
      body == CheckStatements(s.kids[1].kids, at)
      caught == IF handler = None THEN TRUE
                ELSE CheckStatements(handler.kids[2].kids,
                       InScope(at, Bind(body.scope, handler.kids[1].text, Binding(ClassType("Error"), FALSE)))).ok
      last == IF final = None THEN body ELSE CheckStatements(final.kids, InScope(at, body.scope))
  IN IF handler = None /\ final = None THEN Judged(FALSE, FALSE, at.scope)
     ELSE Judged(body.ok /\ caught /\ last.ok, FALSE, last.scope)

CheckStatement(s, at) ==
  LET stays(ok) == Judged(ok, FALSE, at.scope)
      leaves(ok) == Judged(ok, TRUE, at.scope)
  IN CASE s.kind = "VariableDeclaration" ->
            IF s.kids[2].kind = "ArrayBindingPattern" THEN CheckDestructuring(s, at) ELSE CheckVariable(s, at)
       [] s.kind = "AssignmentStatement" -> stays(CheckAssignment(s, at))
       [] s.kind = "UpdateStatement" -> stays(CheckUpdate(s, at))
       [] s.kind = "ExpressionStatement" -> stays(TypeOf(s.kids[1], at, NoType, TRUE) # NoType)
       [] s.kind = "ReturnStatement" -> leaves(CheckReturn(s, at))
       [] s.kind = "IfStatement" -> CheckIf(s, at)
       [] s.kind = "WhileStatement" -> CheckWhile(s, at)
       [] s.kind = "ForStatement" -> CheckFor(s, at)
       [] s.kind = "ForInStatement" -> CheckForIn(s, at)
       [] s.kind = "SwitchStatement" -> CheckSwitch(s, at)
       [] s.kind = "BreakStatement" -> leaves(at.loops + at.switches > 0)
       [] s.kind = "ContinueStatement" -> leaves(at.loops > 0)
       [] s.kind = "ThrowStatement" -> leaves(Throwable(Plain(s.kids[1], at)))
       [] s.kind = "TryStatement" -> CheckTry(s, at)
       [] OTHER -> stays(FALSE)

Statements ==
  {"VariableDeclaration", "AssignmentStatement", "UpdateStatement", "ExpressionStatement", "ReturnStatement",
   "IfStatement", "WhileStatement", "ForStatement", "ForInStatement", "SwitchStatement", "BreakStatement",
   "ContinueStatement", "ThrowStatement", "TryStatement"}
Check(node, at) ==
  IF node.kind \in Statements THEN CheckStatement(node, at) ELSE CheckExpression(node, at, at.want, at.voidOk)

\* Whether some statement of the list returns a value or throws.
RECURSIVE BodyReturnsValue(_)
BodyReturnsValue(statements) ==
  \E i \in DOMAIN statements :
    LET s == statements[i]
        within(b) == b # None /\ BodyReturnsValue(IF b.kind = "Block" THEN b.kids ELSE <<b>>)
    IN \/ s.kind = "ReturnStatement" /\ s.kids[1] # None
       \/ s.kind = "ThrowStatement"
       \/ s.kind = "TryStatement" /\ (within(s.kids[1]) \/ (s.kids[2] # None /\ within(s.kids[2].kids[2])))
       \/ s.kind = "IfStatement" /\ within(s.kids[2]) /\ within(s.kids[3])
=============================================================================
