------------------------------ MODULE Lowering ------------------------------
(***************************************************************************)
(* The code generator (src/packages/compiler/src/codegen/llvm.ts): the     *)
(* symbols it collects, and the code it emits for expressions, statements  *)
(* and bodies.  It runs on programs the checker has accepted; it has types *)
(* of its own, which know nothing of narrowing.                            *)
(*                                                                         *)
(* A value has a type and a representation in LLVM (a number, a bit, a     *)
(* pointer, a tagged union, an interface with its table).  Code is a tree  *)
(* of operations, abstracted from registers and labels; Broken stands for  *)
(* no code, the generator having thrown, and for code that LLVM rejects or *)
(* gives no meaning: an operation on another representation than it is     *)
(* for, or a name declared twice.                                          *)
(*                                                                         *)
(* Left out: async functions, lambdas and function values, exceptions      *)
(* (TryCodegen has those), generics, structs, tuples, maps, templates,     *)
(* concatenation, casts, numbers other than i32, and roots (Collector).    *)
(***************************************************************************)
EXTENDS Declarations

VARIABLE
  symbols   \* what the generator knows of the module: interfaces, classes, functions, values

Broken == Leaf("broken", "")

\* An operation on broken code is broken.
Op(kind, text, kids) ==
  IF Broken \in ToSet(kids) THEN Broken ELSE [kind |-> kind, text |-> text, kids |-> kids]

-----------------------------------------------------------------------------
(* Representations.                                                        *)

IntRep == Leaf("i32", "")
BitRep == Leaf("i1", "")
PtrRep == Leaf("ptr", "")
UnionRep == Leaf("union", "")
VoidRep == Leaf("void", "")
FatRep(interface) == Leaf("fat", interface)

\* isSinglePtrReference
IsPointer(t) == t.kind \in {"string", "stringLiteral", "class", "array", "map", "future", "null"}

\* isNullablePointerUnion: the null pointer is the null.
NullablePointer(t) == IsUnion(t) /\ IncludesNull(t) /\ \A arm \in ArmSet(t) : IsPointer(arm)

AllLiteral(t, kind) == IsUnion(t) /\ \A arm \in ArmSet(t) : arm.kind = kind

LlvmType(t) ==
  CASE NullablePointer(t) \/ AllLiteral(t, "stringLiteral") -> PtrRep
    [] AllLiteral(t, "numberLiteral") -> IntRep
    [] IsUnion(t) /\ ~NullablePointer(t) /\ ~AllLiteral(t, "stringLiteral") /\ ~AllLiteral(t, "numberLiteral") -> UnionRep
    [] t.kind \in {"i32", "enum", "numberLiteral"} -> IntRep
    [] t = Bool -> BitRep
    [] t = Void -> VoidRep
    [] t.kind = "interface" -> FatRep(t.text)
    [] OTHER -> PtrRep

\* An emitted value; Of gives it the representation of its type.
Emitted(type, rep, code) == [type |-> type, rep |-> rep, code |-> code]
Of(type, code) == Emitted(type, LlvmType(type), code)
Thrown == Emitted(NoType, PtrRep, Broken)

\* The code of a value where a value of type t is stored, passed or returned.
As(v, t) == IF v.rep = LlvmType(t) THEN v.code ELSE Broken

Zero(t) ==
  CASE LlvmType(t) = IntRep -> Op("int", "0", <<>>)
    [] LlvmType(t) = BitRep -> Op("bit", "false", <<>>)
    [] LlvmType(t) = UnionRep -> Op("zero union", "", <<>>)
    [] LlvmType(t).kind = "fat" -> Op("zero fat", "", <<>>)
    [] OTHER -> Op("null", "", <<>>)

-----------------------------------------------------------------------------
(* Conversions.                                                            *)

UnionTag(t) == IF TypeofTag(t) = "none" THEN "object" ELSE TypeofTag(t)

NullBox(t) == Emitted(t, UnionRep, Op("box", "null", <<Op("null", "", <<>>)>>))

\* boxUnion: the value goes to the heap, as a number, a bit or a pointer.
Payload(t) ==
  CASE t.kind \in {"i32", "numberLiteral"} -> IntRep
    [] t = Bool -> BitRep
    [] OTHER -> PtrRep

Box(v, t) == IF v.rep = Payload(v.type) THEN Emitted(t, UnionRep, Op("box", UnionTag(v.type), <<v.code>>)) ELSE Thrown

\* unboxUnion: what is there is read as the type expects it, whatever the tag.
Unbox(v, t) ==
  IF v.rep = UnionRep
  THEN Emitted(IF t.kind = "numberLiteral" THEN I32 ELSE t, Payload(t), Op("unbox", Payload(t).kind, <<v.code>>))
  ELSE Thrown

\* Into a union that is no nullable pointer.
CoerceToUnion(v, t) ==
  CASE AllLiteral(t, "stringLiteral") /\ v.type.kind \in {"string", "stringLiteral"} -> [v EXCEPT !.type = t]
    [] AllLiteral(t, "numberLiteral") /\ v.type.kind \in {"i32", "numberLiteral"} -> [v EXCEPT !.type = t]
    [] v.type = NullType -> NullBox(t)
    [] OTHER -> Box(v, t)

\* A class becomes an interface with the table of its static class.
ToInterface(v, t) ==
  IF v.rep = PtrRep /\ ClassSatisfies(v.type.text, t.text)
  THEN Of(t, Op("face", v.type.text, <<v.code, Leaf("interface", t.text)>>)) ELSE Thrown

Relabelled(v, t) == [v EXCEPT !.type = t]
BetweenInterfaces(v, t) ==
  IF t.text \in DOMAIN symbols.interfaces[v.type.text].offsets /\ v.rep = FatRep(v.type.text)
  THEN Of(t, Op("reface", ToString(symbols.interfaces[v.type.text].offsets[t.text]), <<v.code>>)) ELSE Thrown

\* coerceValue
Coerce(v, t) ==
  CASE v.type = t -> v
    [] v.type.kind = "class" /\ t.kind = "interface" -> ToInterface(v, t)
    [] v.type.kind = "interface" /\ t.kind = "interface" /\ v.type # t -> BetweenInterfaces(v, t)
    [] ~IsUnion(v.type) /\ NullablePointer(t) -> [v EXCEPT !.type = t]
    [] ~IsUnion(v.type) /\ IsUnion(t) /\ ~NullablePointer(t) -> CoerceToUnion(v, t)
    [] ~IsUnion(t) /\ NullablePointer(v.type) -> [v EXCEPT !.type = t]
    [] ~IsUnion(t) /\ IsUnion(v.type) /\ ~NullablePointer(v.type) -> Unbox(v, t)
    [] IsLiteral(v.type) /\ t = LiteralBase(v.type) -> [v EXCEPT !.type = t]
    [] OTHER -> v

\* emitIsNullValue
IsNull(v) ==
  CASE v.type = NullType -> Op("bit", "true", <<>>)
    [] NullablePointer(v.type) \/ (v.type # NullType /\ IsPointer(v.type)) ->
         IF v.rep = PtrRep THEN Op("is null", "", <<v.code>>) ELSE Broken
    [] IsUnion(v.type) /\ ~NullablePointer(v.type) ->
         IF v.rep = UnionRep THEN Op("is tag", "null", <<v.code>>) ELSE Broken
    [] OTHER -> Op("bit", "false", <<>>)

\* Code that ends in another block than it starts in.
RECURSIVE Splits(_)
Splits(code) == code.kind \in {"choose", "at"} \/ \E i \in DOMAIN code.kids : Splits(code.kids[i])

\* Two arms that meet, with `it' for the tested value.  The phi names the blocks
\* that the arms start in, so an arm that ends elsewhere is rejected.
It(v) == [v EXCEPT !.code = Op("it", "", <<>>)]
Meet(v, whenNull, otherwise, t) ==
  IF Splits(whenNull.code) \/ Splits(otherwise.code) THEN Thrown
  ELSE Of(t, Op("choose", "", <<v.code, IsNull(It(v)), As(whenNull, t), As(otherwise, t)>>))

\* emitOptionalBranch: the access comes with the value's type, not null.
NullFor(t) == IF IsUnion(t) /\ ~NullablePointer(t) THEN NullBox(t) ELSE Of(t, Op("null", "", <<>>))
Rewrapped(inner, t) ==
  CASE NullablePointer(t) -> [inner EXCEPT !.type = t]
    [] IsUnion(t) /\ ~NullablePointer(t) -> Box(inner, t)
    [] OTHER -> inner
OptionalBranch(v, t, accessed) ==
  Meet(v, NullFor(t), Rewrapped(Coerce(accessed, IF IncludesNull(t) THEN StripNull(t) ELSE t), t), t)

-----------------------------------------------------------------------------
(* Symbols, collected declaration by declaration.                          *)

With(table, name, entry) == [n \in DOMAIN table \union {name} |-> IF n = name THEN entry ELSE table[n]]
InOrder(kind) == [i \in DOMAIN Declared(kind) |-> NameOf(Declared(kind)[i])]

\* buildInterfaceInfo: the methods of the bases, then its own, each name once;
\* a base's table begins where its methods do.  One declared later is empty.
AddNew(kept, methods) == FoldLeft(LAMBDA s, m : IF Has(s, m.name) THEN s ELSE Append(s, m), kept, methods)
Shifted(offsets, base, from, n) ==
  [i \in DOMAIN offsets \union {base} \union DOMAIN from |->
     IF i = base THEN n ELSE IF i \in DOMAIN offsets THEN offsets[i] ELSE n + from[i]]

InterfaceInfo(built, i) ==
  LET start == [methods |-> <<>>, offsets |-> i :> 0]
      extended == FoldLeft(LAMBDA s, b : [methods |-> AddNew(s.methods, built[b].methods),
                                          offsets |-> Shifted(s.offsets, b, built[b].offsets, Len(s.methods))],
                           start, BasesOf(i))
  IN [extended EXCEPT !.methods = AddNew(@, OwnInterfaceMethods(i))]

\* buildClassInfo: an override takes the slot of what it overrides; a class
\* declared before its base inherits from the stub of it.
ClassInfo(built, c) ==
  LET base == IF SuperOf(c) = NoName THEN Placeholder ELSE built[SuperOf(c)]
      slots == FoldLeft(LAMBDA s, m : IF Has(s, m.name) THEN [k \in DOMAIN s |-> IF s[k].name = m.name THEN m ELSE s[k]]
                                      ELSE Append(s, m), base.methods, OwnMethods(c, FALSE))
  IN [base |-> SuperOf(c), abstract |-> IsAbstract(c), fields |-> base.fields \o OwnFields(c, FALSE),
      statics |-> OwnFields(c, TRUE), methods |-> slots, staticMethods |-> OwnMethods(c, TRUE),
      constructor |-> ConstructorOf(c)]

ClassStub(c) ==
  [base |-> SuperOf(c), abstract |-> IsAbstract(c), fields |-> IF c = "Error" THEN <<MessageField>> ELSE <<>>,
   statics |-> <<>>, methods |-> <<>>, staticMethods |-> <<>>, constructor |-> ConstructorOf(c)]

Built(kind, stubs, Info(_, _)) ==
  FoldLeft(LAMBDA built, name : [built EXCEPT ![name] = Info(built, name)], stubs, InOrder(kind))

\* A module's variable: its type, and whether its initializer is a constant of
\* LLVM; the others are assigned before main runs.
IsConstantInit(e) == e.kind \in {"Integer", "String", "true", "false", "null"}
LiteralModuleType(e) ==
  CASE e.kind = "Integer" -> I32
    [] e.kind = "String" -> Str
    [] e.kind \in {"true", "false"} -> Bool
    [] e.kind = "null" -> NullType
    [] OTHER -> NoType

ModuleValue(name) ==
  LET v == DeclarationOf("ModuleVariableDeclaration", name).kids[7]
  IN [type |-> IF v.kids[3] # None THEN Resolve(v.kids[3]) ELSE LiteralModuleType(v.kids[4]),
      constant |-> IsConstantInit(v.kids[4]), init |-> v.kids[4]]

Symbols ==
  [interfaces |-> Built("InterfaceDeclaration",
                        [i \in NamesOf("InterfaceDeclaration") |-> [methods |-> <<>>, offsets |-> <<>>]], InterfaceInfo),
   classes |-> Built("ClassDeclaration",
                     [c \in NamesOf("ClassDeclaration") \union {"Error"} |-> ClassStub(c)], ClassInfo),
   functions |-> [f \in NamesOf("FunctionDeclaration") |-> FunctionOf(f)],
   values |-> [v \in NamesOf("ModuleVariableDeclaration") |-> ModuleValue(v)]]

NeverSubclassed(c) == FALSE
Subclassed(c) == \E d \in DOMAIN symbols.classes : symbols.classes[d].base = c

-----------------------------------------------------------------------------
(* A place in a body: the locals and their declared types, the names that  *)
(* already have a slot in the function, the class of this, the result.     *)

Local(at, name) == name \in DOMAIN at.locals
NamesAClass(at, e) == e.kind = "Identifier" /\ ~Local(at, e.text) /\ e.text \in DOMAIN symbols.classes
NamesAnEnum(at, e) == e.kind = "Identifier" /\ ~Local(at, e.text) /\ e.text \in DOMAIN unit.enums

\* The static field that the member expression names, if it does.
IsStatic(at, e) == NamesAClass(at, e.kids[1]) /\ Has(symbols.classes[e.kids[1].text].statics, e.kids[2].text)
StaticField(e) == Member(symbols.classes[e.kids[1].text].statics, e.kids[2].text)
StaticName(e) == e.kids[1].text \o "." \o e.kids[2].text

FieldsOf(t) == IF t.kind = "class" THEN symbols.classes[t.text].fields ELSE <<>>
SlotsOf(t) ==
  CASE t.kind = "class" -> symbols.classes[t.text].methods
    [] t.kind = "interface" -> symbols.interfaces[t.text].methods
    [] OTHER -> <<>>
IsStaticMethod(at, object, name) ==
  NamesAClass(at, object) /\ Has(symbols.classes[object.text].staticMethods, name)

-----------------------------------------------------------------------------
(* The generator walks the tree for three things: Infer is the type of an  *)
(* expression without emitting it (NoType where that throws), Emit its     *)
(* code, converted to the type the place asks for (NoType for none), and   *)
(* EmitStatement the code of a statement.                                  *)

RECURSIVE Lower(_, _, _, _)

Infer(e, at) == Lower("type", e, at, NoType)
Emit(e, at, want) == Lower("value", e, at, want)
EmitStatement(s, at) == Lower("statement", s, at, NoType)
Value(e, at) == Emit(e, at, NoType)

-----------------------------------------------------------------------------
(* Types of expressions. *)

InferMember(e, at, optional) ==
  LET name == e.kids[2].text
      object == Infer(e.kids[1], at)
      t == Present(object, optional)
      found == CASE t.kind = "class" -> IF Has(FieldsOf(t), name) THEN Member(FieldsOf(t), name).type ELSE NoType
                 [] t.kind # "class" /\ name = "length" -> I32
                 [] OTHER -> NoType
  IN CASE NamesAnEnum(at, e.kids[1]) -> Leaf("enum", e.kids[1].text)
       [] IsStatic(at, e) -> StaticField(e).type
       [] object = NoType -> NoType
       [] optional /\ object = NullType -> NullType
       [] OTHER -> Wrapped(found, optional)

InferIndex(e, at, optional) ==
  LET object == Infer(e.kids[1], at)
      t == Present(object, optional)
  IN CASE optional /\ object = NullType -> NullType
       [] t.kind = "array" -> Wrapped(Element(t), optional)
       [] OTHER -> NoType

InferMethod(object, name, at, optional) ==
  LET static == IsStaticMethod(at, object, name)
      t == Infer(object, at)
      methods == IF static THEN symbols.classes[object.text].staticMethods ELSE SlotsOf(Present(t, optional))
  IN CASE ~static /\ optional /\ t = NullType -> NullType
       [] Has(methods, name) /\ Member(methods, name).result # Void -> Wrapped(Member(methods, name).result, optional)
       [] OTHER -> NoType

InferArray(e, at) ==
  LET types == [i \in DOMAIN e.kids |-> Infer(e.kids[i], at)]
  IN IF types # <<>> /\ NoType \notin ToSet(types) /\ \A i \in DOMAIN types : types[i] = types[1]
     THEN ArrayOf(types[1]) ELSE NoType

InferCall(e, at) ==
  LET f == e.kids[1]
  IN CASE f.kind = "MemberExpression" -> InferMethod(f.kids[1], f.kids[2].text, at, FALSE)
       [] f.kind = "Identifier" /\ f.text \in DOMAIN symbols.functions ->
            IF symbols.functions[f.text].result = Void THEN NoType ELSE symbols.functions[f.text].result
       [] OTHER -> NoType

InferExpressionType(e, at) ==
  CASE e.kind = "Integer" -> I32
    [] e.kind \in {"String", "TypeofExpression"} -> Str
    [] e.kind \in {"true", "false", "IsExpression"} -> Bool
    [] e.kind = "null" -> NullType
    [] e.kind = "ArrayLiteral" -> InferArray(e, at)
    [] e.kind = "NewExpression" -> ClassType(e.kids[1].text)
    [] e.kind = "this" -> at.this
    [] e.kind \in {"MemberExpression", "OptionalMember"} -> InferMember(e, at, e.kind = "OptionalMember")
    [] e.kind \in {"IndexExpression", "OptionalIndex"} -> InferIndex(e, at, e.kind = "OptionalIndex")
    [] e.kind \in {"NonNullExpression", "NullCoalescingExpression"} -> StripNull(Infer(e.kids[1], at))
    [] e.kind = "Identifier" ->
         IF Local(at, e.text) THEN at.locals[e.text]
         ELSE IF e.text \in DOMAIN symbols.values THEN symbols.values[e.text].type ELSE NoType
    [] e.kind = "UnaryExpression" -> IF e.kids[1].kind = "!" THEN Bool ELSE Infer(e.kids[2], at)
    [] e.kind = "BinaryExpression" ->
         IF e.kids[2].kind \in Comparisons \union Logical THEN Bool ELSE Infer(e.kids[1], at)
    [] e.kind = "CallExpression" -> InferCall(e, at)
    [] e.kind = "OptionalCall" -> InferMethod(e.kids[1], e.kids[2].text, at, TRUE)
    [] OTHER -> NoType

-----------------------------------------------------------------------------
(* Expressions. *)

\* The arguments as the checker has put them, each converted to its parameter.
Arguments(args, params, types, at) ==
  LET values == Slots(args, params)
  IN [i \in DOMAIN values |-> As(Emit(values[i], at, types[i]), types[i])]

\* A call without a value is a statement only.
Called(result, code, voidOk) == IF result = Void /\ ~voidOk THEN Thrown ELSE Of(result, code)

\* emitMethodCall: a method of a class that has no subclasses is called
\* directly, another through the slot of the object's own class.  `on' holds the
\* tested object of an optional call.
MethodOf(t, static, object, name, args, at, voidOk, on) ==
  LET methods == IF static THEN symbols.classes[object.text].staticMethods ELSE SlotsOf(t)
      method == Member(methods, name)
      slot == CHOOSE k \in DOMAIN methods : methods[k].name = name
      this == IF on = <<>> THEN Value(object, at) ELSE on[1]
      receiver == IF this.rep = LlvmType(t) THEN this.code ELSE Broken
      kind == CASE static -> "static call"
                [] ~static /\ t.kind = "interface" -> "interface call"
                [] OTHER -> IF symbols.classes[t.text].abstract \/ Subclassed(t.text) THEN "virtual call" ELSE "direct call"
      whose == CASE kind = "static call" -> <<Leaf("class", method.class)>>
                 [] kind = "direct call" -> <<Leaf("class", method.class), receiver>>
                 [] OTHER -> <<Leaf("slot", ToString(slot)), receiver>>
  IN IF Has(methods, name)
     THEN Called(method.result, Op(kind, name, whose \o Arguments(args, method.params, method.types, at)), voidOk)
     ELSE Thrown

EmitMethod(object, name, args, at, voidOk, on) ==
  MethodOf(CASE on = <<>> -> Infer(object, at)
             [] on # <<>> -> IF IncludesNull(on[1].type) THEN StripNull(on[1].type) ELSE on[1].type,
           IsStaticMethod(at, object, name), object, name, args, at, voidOk, on)

\* emitUserCall
EmitCall(f, args, at, voidOk) ==
  IF f \notin DOMAIN symbols.functions THEN Thrown
  ELSE LET fn == symbols.functions[f]
       IN Called(fn.result, Op("call", f, Arguments(args, fn.params, fn.types, at)), voidOk)

\* emitSuperCall
EmitSuper(args, at) ==
  LET base == symbols.classes[at.this.text].base
      made == symbols.classes[base].constructor
  IN Of(Void, Op("construct", base, <<Op("this", "", <<>>)>> \o Arguments(args, made.params, made.types, at)))

EmitNew(e, at) ==
  LET c == e.kids[1].text
      made == symbols.classes[c].constructor
  IN Of(ClassType(c), Op("new", c, Arguments(e.kids[4].kids, made.params, made.types, at)))

EmitArray(e, at, want) ==
  LET element == IF want.kind = "array" THEN Element(want) ELSE Infer(e.kids[1], at)
      types == {Infer(e.kids[i], at) : i \in DOMAIN e.kids}
  IN IF \/ e.kids = <<>> /\ want.kind # "array"
        \/ NoType \in types \/ Cardinality(types) > 1
     THEN Thrown
     ELSE Of(ArrayOf(element),
             Op("array", "", [i \in DOMAIN e.kids |-> As(Emit(e.kids[i], at, element), element)]))

\* A field of an object of class c, by its place in the layout of c.
FieldOf(c, name, object) ==
  LET fields == symbols.classes[c].fields
      place == CHOOSE k \in DOMAIN fields : fields[k].name = name
  IN IF Has(fields, name) /\ object.rep = PtrRep
     THEN Of(fields[place].type, Op("field", ToString(place), <<object.code>>)) ELSE Thrown

\* `.length': of a string, and of a union as if it were one; of an array.
LengthOf(v) ==
  LET string == IF IsUnion(v.type) /\ ~NullablePointer(v.type) THEN Unbox(v, Str) ELSE v
  IN CASE v.type = Str \/ IsUnion(v.type) -> IF string.rep = PtrRep THEN Of(I32, Op("strlen", "", <<string.code>>)) ELSE Thrown
       [] v.type.kind = "array" -> Of(I32, Op("length", "", <<v.code>>))
       [] OTHER -> Thrown

\* emitMemberValueWithObject: the object is there, and its type without null.
MemberOf(e, at, v) ==
  LET t == StripNull(Infer(e.kids[1], at))
  IN CASE t.kind = "class" -> FieldOf(t.text, e.kids[2].text, v)
       [] t.kind # "class" /\ e.kids[2].text = "length" -> LengthOf(v)
       [] OTHER -> Thrown

\* A member of a nullable pointer is the field of its first class.
EmitMember(e, at) ==
  LET t == Infer(e.kids[1], at)
      classes == ArmsThat(t, LAMBDA arm : arm.kind = "class")
      variant == CHOOSE k \in DOMAIN unit.enums[e.kids[1].text] : unit.enums[e.kids[1].text][k] = e.kids[2].text
  IN CASE NamesAnEnum(at, e.kids[1]) -> Of(Leaf("enum", e.kids[1].text), Op("int", ToString(variant - 1), <<>>))
       [] IsStatic(at, e) -> Of(StaticField(e).type, Op("global", StaticName(e), <<>>))
       [] t = NoType -> Thrown
       [] t.kind = "class" -> FieldOf(t.text, e.kids[2].text, Value(e.kids[1], at))
       [] NullablePointer(t) /\ classes # <<>> -> FieldOf(classes[1].text, e.kids[2].text, Value(e.kids[1], at))
       [] OTHER -> IF e.kids[2].text = "length" THEN LengthOf(Value(e.kids[1], at)) ELSE Thrown

\* emitIndexAccess: checked against the length.
IndexOf(e, at, v) ==
  LET arms == IF NullablePointer(v.type) THEN ArmsThat(v.type, LAMBDA arm : arm # NullType) ELSE <<v.type>>
      index == Value(e.kids[2], at)
  IN IF Len(arms) = 1 /\ arms[1].kind = "array" /\ index.type = I32
     THEN Of(Element(arms[1]), Op("at", "", <<v.code, index.code>>)) ELSE Thrown

EmitOptional(e, at) ==
  LET v == Value(e.kids[1], at)
      t == Infer(e, at)
      it == It(v)
  IN IF t = NoType THEN Thrown
     ELSE OptionalBranch(v, t, CASE e.kind = "OptionalMember" -> MemberOf(e, at, it)
                                 [] e.kind = "OptionalIndex" -> IndexOf(e, at, it)
                                 [] e.kind = "OptionalCall" -> EmitMethod(e.kids[1], e.kids[2].text, e.kids[4].kids, at, FALSE, <<it>>))

EmitCoalescing(e, at) ==
  LET t == Infer(e, at)
      v == Value(e.kids[1], at)
  IN IF t = NoType THEN Thrown ELSE Meet(v, Coerce(Emit(e.kids[2], at, t), t), Coerce(It(v), t), t)

\* What typeof says of a pointer that may be null: "null" or "object".
EmitTypeof(e, at) ==
  LET v == Value(e.kids[1], at)
      said == IF TypeofTag(v.type) = "none" THEN "object" ELSE TypeofTag(v.type)
  IN CASE NullablePointer(v.type) -> IF v.rep = PtrRep THEN Of(Str, Op("typeof pointer", "", <<v.code>>)) ELSE Thrown
       [] IsUnion(v.type) /\ ~NullablePointer(v.type) ->
            IF v.rep = UnionRep THEN Of(Str, Op("typeof union", "", <<v.code>>)) ELSE Thrown
       [] OTHER -> IF v.code = Broken THEN Thrown ELSE Of(Str, Op("text", Quoted(said), <<>>))

\* emitIsExpression: null; a class, by the object's own class (in a union the
\* payload is taken for an object before the tag is looked at); or a tag.
IsOf(v, t) ==
  LET boxed == IsUnion(v.type) /\ ~NullablePointer(v.type)
      bit(kind, text, rep) == IF v.rep = rep THEN Of(Bool, Op(kind, text, <<v.code>>)) ELSE Thrown
      known(b) == IF v.code = Broken THEN Thrown ELSE Of(Bool, Op("bit", IF b THEN "true" ELSE "false", <<>>))
  IN CASE t = NullType /\ (NullablePointer(v.type) \/ IsPointer(v.type)) -> bit("is null", "", PtrRep)
       [] t = NullType /\ boxed -> bit("is tag", "null", UnionRep)
       [] t = NullType /\ ~boxed /\ ~NullablePointer(v.type) /\ ~IsPointer(v.type) -> known(FALSE)
       [] t.kind = "class" /\ boxed -> bit("is boxed instance", t.text, UnionRep)
       [] t.kind = "class" /\ (NullablePointer(v.type) \/ v.type.kind = "class") -> bit("is instance", t.text, PtrRep)
       [] t # NullType /\ t.kind # "class" /\ boxed -> bit("is tag", UnionTag(t), UnionRep)
       [] t # NullType /\ t.kind # "class" /\ NullablePointer(v.type) ->
            IF \E arm \in ArmSet(v.type) \ {NullType} : UnionTag(arm) = UnionTag(t)
            THEN bit("is not null", "", PtrRep) ELSE known(FALSE)
       [] OTHER -> known(UnionTag(v.type) = UnionTag(t))
EmitIs(e, at) == IsOf(Value(e.kids[1], at), Resolve(e.kids[2]))

\* The operands of a binary operator, converted to one another.
Operands(left, right) ==
  LET boxed(v) == IsUnion(v.type) /\ ~NullablePointer(v.type)
  IN CASE IsUnion(left.type) /\ ~IsUnion(right.type) -> <<IF boxed(left) THEN Unbox(left, right.type) ELSE left, right>>
       [] ~IsUnion(left.type) /\ IsUnion(right.type) -> <<left, IF boxed(right) THEN Unbox(right, left.type) ELSE right>>
       [] IsUnion(left.type) /\ IsUnion(right.type) ->
            IF boxed(left) /\ boxed(right) THEN <<Unbox(left, I32), Unbox(right, I32)>> ELSE <<left, right>>
       [] OTHER -> IF NullType \in {left.type, right.type} THEN <<left, right>> ELSE <<left, Coerce(right, left.type)>>

NullTest(v) == IF v.type = NullType THEN Op("is null", "", <<v.code>>) ELSE IsNull(v)
Operation(operator, left, right) ==
  LET rep == LlvmType(left.type)
      plain == left.rep = rep /\ right.rep = rep /\ rep \in {IntRep, BitRep, PtrRep}
      logical == operator \in Comparisons \union Logical
  IN Of(IF logical THEN Bool ELSE left.type,
        IF plain THEN Op(IF logical THEN "compare" ELSE "arithmetic", operator, <<left.code, right.code>>) ELSE Broken)
OnBoth(operator, both) == Operation(operator, both[1], both[2])

\* emitBinary.  Both operands are computed, those of && and || too; strings are
\* compared by content.
EmitBinary(e, at) ==
  LET operator == e.kids[2].kind
      null == NullTest(Value(IF e.kids[1].kind = "null" THEN e.kids[3] ELSE e.kids[1], at))
  IN CASE operator \in Equality /\ "null" \in {e.kids[1].kind, e.kids[3].kind} ->
            Of(Bool, IF operator = "==" THEN null ELSE Op("not", "", <<null>>))
       [] operator = "+" /\ Str \in {Infer(e.kids[1], at), Infer(e.kids[3], at)} -> Thrown
       [] OTHER -> OnBoth(operator, Operands(Value(e.kids[1], at), Value(e.kids[3], at)))

EmitUnary(e, at) ==
  LET v == Value(e.kids[2], at)
  IN IF e.kids[1].kind = "!" THEN (IF v.rep = BitRep THEN Of(Bool, Op("not", "", <<v.code>>)) ELSE Thrown)
     ELSE IF v.rep = IntRep /\ LlvmType(v.type) = IntRep THEN Of(v.type, Op("negative", "", <<v.code>>)) ELSE Thrown

EmitExpressionRaw(e, at, want) ==
  CASE e.kind = "Integer" -> Of(I32, Op("int", e.text, <<>>))
    [] e.kind = "String" -> Of(Str, Op("text", e.text, <<>>))
    [] e.kind \in {"true", "false"} -> Of(Bool, Op("bit", e.kind, <<>>))
    [] e.kind = "null" -> Of(NullType, Op("null", "", <<>>))
    [] e.kind = "this" -> Of(at.this, Op("this", "", <<>>))
    [] e.kind = "Identifier" ->
         IF Local(at, e.text) THEN Of(at.locals[e.text], Op("local", e.text, <<>>))
         ELSE IF e.text \in DOMAIN symbols.values THEN Of(symbols.values[e.text].type, Op("global", e.text, <<>>)) ELSE Thrown
    [] e.kind = "ArrayLiteral" -> EmitArray(e, at, want)
    [] e.kind = "NewExpression" -> EmitNew(e, at)
    [] e.kind = "MemberExpression" -> EmitMember(e, at)
    [] e.kind = "IndexExpression" -> IndexOf(e, at, Value(e.kids[1], at))
    [] e.kind \in {"OptionalMember", "OptionalIndex", "OptionalCall"} -> EmitOptional(e, at)
    [] e.kind = "NonNullExpression" -> Emit(e.kids[1], at, want)
    [] e.kind = "NullCoalescingExpression" -> EmitCoalescing(e, at)
    [] e.kind = "TypeofExpression" -> EmitTypeof(e, at)
    [] e.kind = "IsExpression" -> EmitIs(e, at)
    [] e.kind = "UnaryExpression" -> EmitUnary(e, at)
    [] e.kind = "BinaryExpression" -> EmitBinary(e, at)
    [] e.kind = "CallExpression" ->
         IF e.kids[1].kind = "MemberExpression"
         THEN EmitMethod(e.kids[1].kids[1], e.kids[1].kids[2].text, e.kids[3].kids, at, FALSE, <<>>)
         ELSE EmitCall(e.kids[1].text, e.kids[3].kids, at, FALSE)
    [] OTHER -> Thrown

Converted(v, want) == IF want = NoType THEN v ELSE Coerce(v, want)

-----------------------------------------------------------------------------
(* Statements: their code, the place after them, and whether what follows  *)
(* in the list is left out because they never fall through.                *)

Lowered(code, at, ends) == [code |-> code, at |-> at, ends |-> ends]

\* emitVariableDeclaration, emitParameter: a slot for each name, once.
Declare(at, name, t) == [at EXCEPT !.locals = With(@, name, t), !.slots = @ \union {name}]

Continued(s, next) == Lowered(Append(s.code, next.code), next.at, next.ends)
EmitAll(statements, at) ==
  LET r == FoldLeft(LAMBDA s, statement :
             IF s.ends THEN s ELSE Continued(s, EmitStatement(statement, s.at)), Lowered(<<>>, at, FALSE), statements)
  IN [r EXCEPT !.code = Op("sequence", "", @)]

VariableOf(t, s, at) ==
  LET name == s.kids[2].text
      declared == Declare(at, name, t)
      value == IF s.kids[4] = None THEN Zero(t) ELSE As(Emit(s.kids[4], declared, t), t)
  IN Lowered(IF t = NoType \/ name \in at.slots THEN Broken ELSE Op("set", name, <<value>>), declared, FALSE)
EmitVariable(s, at) == VariableOf(IF s.kids[3] # None THEN Resolve(s.kids[3]) ELSE Infer(s.kids[4], at), s, at)

\* Where an assignment stores: the operation, what it needs, and the type.
Target(e, at) ==
  LET v == Value(e.kids[1], at)
      t == Infer(e.kids[1], at)
      index == Value(e.kids[2], at)
      place == CHOOSE k \in DOMAIN FieldsOf(t) : FieldsOf(t)[k].name = e.kids[2].text
      to(kind, text, kids, type) == [code |-> Op(kind, text, kids), type |-> type]
      wrong == [code |-> Broken, type |-> NoType]
  IN CASE e.kind = "Identifier" ->
            IF Local(at, e.text) THEN to("set", e.text, <<>>, at.locals[e.text])
            ELSE IF e.text \in DOMAIN symbols.values THEN to("set global", e.text, <<>>, symbols.values[e.text].type) ELSE wrong
       [] e.kind = "MemberExpression" /\ IsStatic(at, e) -> to("set global", StaticName(e), <<>>, StaticField(e).type)
       [] e.kind = "MemberExpression" /\ ~IsStatic(at, e) ->
            IF Has(FieldsOf(t), e.kids[2].text)
            THEN to("set field", ToString(place), <<v.code>>, FieldsOf(t)[place].type) ELSE wrong
       [] e.kind = "IndexExpression" ->
            IF v.type.kind = "array" /\ index.type = I32 THEN to("set at", "", <<v.code, index.code>>, Element(v.type)) ELSE wrong

\* += and -= read the target first.
Stored(e, at) == IF e.kind = "IndexExpression" THEN IndexOf(e, at, Value(e.kids[1], at)) ELSE Value(e, at)

StoredIn(target, value, operator, old) ==
  LET changed == IF old.rep = IntRep
                 THEN Op("arithmetic", IF operator = "+=" THEN "+" ELSE "-", <<old.code, value>>) ELSE Broken
      stored == IF operator = "=" THEN value ELSE changed
  IN IF Broken \in {target.code, stored} THEN Broken ELSE [target.code EXCEPT !.kids = Append(@, stored)]
AssignmentTo(target, s, at) ==
  StoredIn(target, As(Emit(s.kids[3], at, target.type), target.type), s.kids[2].kind, Stored(s.kids[1], at))
EmitAssignment(s, at) == AssignmentTo(Target(s.kids[1], at), s, at)

EmitUpdate(s, at) ==
  LET old == Value(s.kids[1], at)
      operator == IF s.kids[2].kind = "++" THEN "+" ELSE "-"
      changed == IF old.rep = IntRep THEN Op("arithmetic", operator, <<old.code, Op("int", "1", <<>>)>>) ELSE Broken
  IN Op(IF Local(at, s.kids[1].text) THEN "set" ELSE "set global", s.kids[1].text, <<changed>>)

EmitReturn(s, at) ==
  IF s.kids[1] = None THEN Op("return", "", <<>>)
  ELSE Op("return", "", <<As(Emit(s.kids[1], at, at.result), at.result)>>)

PrintableRep(t) == t.kind \in {"array", "bool", "string", "i32", "enum", "stringLiteral", "numberLiteral"}
EmitPrint(args, at) ==
  LET values == [i \in DOMAIN args |-> Value(args[i], at)]
  IN Op("print", "", [i \in DOMAIN args |-> IF PrintableRep(values[i].type) THEN values[i].code ELSE Broken])

\* emitCallStatement: an optional call looks no null up here.
EmitCallStatement(e, at) ==
  CASE e.kind = "OptionalCall" -> EmitMethod(e.kids[1], e.kids[2].text, e.kids[4].kids, at, TRUE, <<>>).code
    [] e.kind # "OptionalCall" /\ e.kids[1].kind = "super" -> EmitSuper(e.kids[3].kids, at).code
    [] e.kind # "OptionalCall" /\ e.kids[1].kind = "MemberExpression" ->
         EmitMethod(e.kids[1].kids[1], e.kids[1].kids[2].text, e.kids[3].kids, at, TRUE, <<>>).code
    [] OTHER -> IF e.kids[1].text = "print" THEN EmitPrint(e.kids[3].kids, at)
                ELSE EmitCall(e.kids[1].text, e.kids[3].kids, at, TRUE).code

ConditionOf(e, at) == LET v == Value(e, at) IN IF v.rep = BitRep THEN v.code ELSE Broken

\* Blocks have no scope here: what one declares, the next one sees.
EmitIf(s, at) ==
  LET then == EmitAll(s.kids[2].kids, at)
      else == CASE s.kids[3] = None -> Lowered(Op("sequence", "", <<>>), then.at, FALSE)
                [] s.kids[3].kind = "Block" -> EmitAll(s.kids[3].kids, then.at)
                [] OTHER -> EmitStatement(s.kids[3], then.at)
  IN Lowered(Op("if", "", <<ConditionOf(s.kids[1], at), then.code, else.code>>), else.at, then.ends /\ else.ends)

\* A while, or the loop of a for: condition, update, body.
Nothing == Op("sequence", "", <<>>)
EmitWhile(s, at) ==
  LET body == EmitAll(s.kids[2].kids, at)
  IN Lowered(Op("loop", "", <<ConditionOf(s.kids[1], at), Nothing, body.code>>), body.at, FALSE)

EmitFor(s, at) ==
  LET part(e, a) == IF e = None THEN Lowered(Nothing, a, FALSE) ELSE EmitStatement(e, a)
      init == part(s.kids[1], at)
      body == EmitAll(s.kids[4].kids, init.at)
      update == part(s.kids[3], body.at)
      condition == IF s.kids[2] = None THEN Op("bit", "true", <<>>) ELSE ConditionOf(s.kids[2], init.at)
  IN Lowered(Op("sequence", "", <<init.code, Op("loop", "", <<condition, update.code, body.code>>)>>), update.at, FALSE)

\* The element is loaded anew each time, the length once.
EmitForIn(s, at) ==
  LET name == s.kids[2].text
      iterable == Value(s.kids[3], at)
      bound == Declare(at, name, Element(iterable.type))
      body == EmitAll(s.kids[4].kids, bound)
      code == IF name \in at.slots THEN Broken ELSE Op("each", name, <<iterable.code, body.code>>)
  IN IF iterable.type.kind # "array" THEN Lowered(Broken, at, FALSE)
     ELSE Lowered(code, [body.at EXCEPT !.locals = [n \in DOMAIN @ \ {name} |-> @[n]]], FALSE)

Comparable(label, rep) == IF label.rep = rep /\ rep \in {IntRep, BitRep, PtrRep} THEN label.code ELSE Broken

\* emitSwitchStatement: the first label that equals the subject, or default;
\* from there the bodies run on into each other.
EmitSwitch(s, at) ==
  LET subject == Value(s.kids[1], at)
      cases == Tail(s.kids)
      test(c) == IF c.kids[1] = None THEN Op("default", "", <<>>)
                 ELSE Comparable(Coerce(Value(c.kids[1], at), subject.type), LlvmType(subject.type))
      bodies == FoldLeft(LAMBDA r, c :
                  LET body == EmitAll(c.kids[2].kids, r.at)
                  IN Lowered(Append(r.code, Op("case", "", <<test(c), body.code>>)), body.at, FALSE),
                  Lowered(<<>>, at, FALSE), cases)
  IN Lowered(IF cases = <<>> THEN Broken ELSE Op("switch", "", <<subject.code>> \o bodies.code), bodies.at, FALSE)

EmitStatementRaw(s, at) ==
  CASE s.kind = "VariableDeclaration" -> EmitVariable(s, at)
    [] s.kind = "AssignmentStatement" -> Lowered(EmitAssignment(s, at), at, FALSE)
    [] s.kind = "UpdateStatement" -> Lowered(EmitUpdate(s, at), at, FALSE)
    [] s.kind = "ExpressionStatement" -> Lowered(Op("do", "", <<EmitCallStatement(s.kids[1], at)>>), at, FALSE)
    [] s.kind = "ReturnStatement" -> Lowered(EmitReturn(s, at), at, TRUE)
    [] s.kind = "IfStatement" -> EmitIf(s, at)
    [] s.kind = "WhileStatement" -> EmitWhile(s, at)
    [] s.kind = "ForStatement" -> EmitFor(s, at)
    [] s.kind = "ForInStatement" -> EmitForIn(s, at)
    [] s.kind = "SwitchStatement" -> EmitSwitch(s, at)
    [] s.kind = "BreakStatement" -> Lowered(Op("break", "", <<>>), at, TRUE)
    [] s.kind = "ContinueStatement" -> Lowered(Op("continue", "", <<>>), at, TRUE)
    [] OTHER -> Lowered(Broken, at, FALSE)

Lower(what, node, at, want) ==
  CASE what = "type" -> InferExpressionType(node, at)
    [] what \in {"value", "constant"} ->
         Converted(EmitExpressionRaw(node, at, want), IF what = "constant" THEN NoType ELSE want)
    [] what = "statement" -> EmitStatementRaw(node, at)

-----------------------------------------------------------------------------
(* Bodies, by class ("" for a function) and name.                          *)

\* A body that must return a value may not fall off its end.
Finished(emitted, result) == IF ~emitted.ends /\ result # Void THEN Broken ELSE emitted.code
EmitBody(params, types, body, this, result) ==
  LET start == [locals |-> [p \in {params[i].kids[1].text : i \in DOMAIN params} |->
                              types[CHOOSE i \in DOMAIN params : params[i].kids[1].text = p]],
                slots |-> {params[i].kids[1].text : i \in DOMAIN params}, this |-> this, result |-> result]
  IN Finished(EmitAll(body, start), result)

\* emitClassConstructor: without one of its own, a class runs that of its base.
EmitConstructor(c) ==
  LET own == Constructor(c)
      made == ConstructorOf(c)
      this == Op("this", "", <<>>)
  IN CASE c = "Error" -> Op("set field", "1", <<this, Op("local", "message", <<>>)>>)
       [] c # "Error" /\ own # <<>> -> EmitBody(made.params, made.types, own[1].kids[6].kids[2].kids, ClassType(c), Void)
       [] OTHER -> IF SuperOf(c) = NoName THEN Nothing ELSE Op("do", "", <<Op("construct", SuperOf(c), <<this>>)>>)

EmitMethodBody(m, this) == EmitBody(m.params, m.types, m.body.kids, this, m.result)

Code(params, body) == [params |-> [i \in DOMAIN params |-> params[i].kids[1].text], body |-> body]

OwnBodies(c) == {m \in ToSet(OwnMethods(c, FALSE) \o OwnMethods(c, TRUE)) : ~m.abstract}

\* The module's variables: a constant, or what is computed before main.
Outside == [locals |-> <<>>, slots |-> {}, this |-> NoType, result |-> Void]
EmitModuleValue(v) ==
  As(IF v.constant /\ IsUnion(v.type) /\ v.init.kind = "null" /\ LlvmType(v.type) = PtrRep
     THEN Of(v.type, Op("null", "", <<>>))
     ELSE Lower(IF v.constant THEN "constant" ELSE "value", v.init, Outside, v.type), v.type)

\* Everything that is emitted, by its class ("" for a function, "module" for a
\* variable of the module) and name.
Emissions ==
  LET functions == {<<NoName, f>> : f \in DOMAIN symbols.functions}
      constructors == {<<c, "constructor">> : c \in DOMAIN symbols.classes}
      methods == UNION {{<<c, m.name>> : m \in OwnBodies(c)} : c \in DOMAIN symbols.classes}
      values == {<<"module", v>> : v \in DOMAIN symbols.values}
      static(key) == key \in functions \/ Has(OwnMethods(key[1], TRUE), key[2])
      method(key) == IF key \in functions THEN symbols.functions[key[2]]
                     ELSE CHOOSE m \in OwnBodies(key[1]) : m.name = key[2]
  IN [key \in functions \union constructors \union methods \union values |->
        CASE key \in constructors -> Code(ConstructorOf(key[1]).params, EmitConstructor(key[1]))
          [] key \in values -> Code(<<>>, EmitModuleValue(symbols.values[key[2]]))
          [] OTHER -> Code(method(key).params,
                           EmitMethodBody(method(key), IF static(key) THEN NoType ELSE ClassType(key[1])))]
=============================================================================
