---------------------------- MODULE Declarations ----------------------------
(***************************************************************************)
(* The declarations of a module: how the tables of the compile unit are    *)
(* collected from the tree, and the checks on functions and classes        *)
(* (src/packages/compiler/src/typecheck.ts, the collect functions,         *)
(* checkFunction and checkClassMembers).                                   *)
(*                                                                         *)
(* The tables are filled in the order of the code: first the names, so     *)
(* that annotations can mean something; then members and signatures; then  *)
(* the module's variables, whose types may come from their initializers.   *)
(* A table with an error in it is never used: the error is all that stays. *)
(*                                                                         *)
(* Left out: structs, type aliases, generic declarations, external         *)
(* functions, index signatures, and imports.                               *)
(***************************************************************************)
EXTENDS Checker

VARIABLE
  program   \* the tree of the module

\* The declarations of a kind: the declaration, and the modifiers before it.
Declared(kind) ==
  SelectSeq(program.kids, LAMBDA d : d.kind = "Declaration" /\ d.kids[7].kind = kind)
NameOf(d) == IF d.kids[7].kind = "ModuleVariableDeclaration" THEN d.kids[7].kids[2].text ELSE d.kids[7].kids[1].text
NamesOf(kind) == {NameOf(d) : d \in ToSet(Declared(kind))}
DeclarationOf(kind, name) == CHOOSE d \in ToSet(Declared(kind)) : NameOf(d) = name

Kinds == {"EnumDeclaration", "InterfaceDeclaration", "ClassDeclaration", "FunctionDeclaration", "ModuleVariableDeclaration"}

\* One name, one declaration; some names are the language's own.
NamesDistinct ==
  LET all == SelectSeq(program.kids, LAMBDA d : d.kind = "Declaration")
  IN /\ \A i, j \in DOMAIN all : i # j => NameOf(all[i]) # NameOf(all[j])
     /\ "Error" \notin NamesOf("ClassDeclaration")
     /\ {"print", "createMap"} \intersect NamesOf("FunctionDeclaration") = {}

-----------------------------------------------------------------------------
(* Names.                                                                  *)

Variants(e) == [i \in 1..(Len(e.kids[7].kids) - 1) |-> e.kids[7].kids[i + 1].text]

EnumsDeclared ==
  \A e \in ToSet(Declared("EnumDeclaration")) : Variants(e) # <<>> /\ IsInjective(Variants(e))

Placeholder ==
  [base |-> NoName, implements |-> <<>>, abstract |-> FALSE, fields |-> <<>>, statics |-> <<>>,
   methods |-> <<>>, staticMethods |-> <<>>, constructor |-> [params |-> <<>>, types |-> <<>>]]

\* The class every thrown value descends from.
MessageField ==
  [name |-> "message", type |-> Str, public |-> TRUE, readonly |-> FALSE, class |-> "Error", init |-> None]
ErrorClass ==
  [Placeholder EXCEPT !.fields = <<MessageField>>,
                      !.constructor = [params |-> <<Node("Parameter", <<Leaf("Identifier", "message"), Leaf("Primitive", "string"), None>>)>>,
                                       types |-> <<Str>>]]

Names ==
  [enums |-> [e \in NamesOf("EnumDeclaration") |-> Variants(DeclarationOf("EnumDeclaration", e))],
   interfaces |-> [i \in NamesOf("InterfaceDeclaration") |-> [bases |-> <<>>, methods |-> <<>>]],
   classes |-> [c \in NamesOf("ClassDeclaration") \union {"Error"} |-> IF c = "Error" THEN ErrorClass ELSE Placeholder],
   functions |-> <<>>, globals |-> <<>>]

-----------------------------------------------------------------------------
(* Signatures.  From here on the names of unit are those of the module.    *)

ParameterTypes(params) == [i \in DOMAIN params |-> Resolve(params[i].kids[2])]

\* What the tables keep of a method: name, parameters, result, and the body's tree.
Method(d, async, public, abstract, class, body) ==
  [name |-> d[1].text, params |-> d[3].kids, types |-> ParameterTypes(d[3].kids), result |-> ResolveResult(d[4]),
   async |-> async, public |-> public, abstract |-> abstract, class |-> class, body |-> body]

Resolved(method) == NoType \notin ToSet(Append(method.types, method.result))
SameSignature(m, n) == m.types = n.types /\ m.result = n.result

\* No name is among its own ancestors.
Acyclic(names, Above(_)) ==
  LET Reached[n \in 0..Cardinality(names), x \in names] ==
        IF n = 0 THEN Above(x) \intersect names
        ELSE UNION {{y} \union Reached[n - 1, y] : y \in Above(x) \intersect names}
  IN \A x \in names : x \notin Reached[Cardinality(names), x]

InterfaceDecl(i) == DeclarationOf("InterfaceDeclaration", i).kids[7]
BaseNames(list) == [i \in DOMAIN list.kids |-> list.kids[i].kids[1].text]
BasesOf(i) == BaseNames(InterfaceDecl(i).kids[3])

OwnInterfaceMethods(i) ==
  LET members == SubSeq(InterfaceDecl(i).kids, 4, Len(InterfaceDecl(i).kids))
  IN [k \in DOMAIN members |-> Method(Tail(members[k].kids), members[k].kids[1] # None, TRUE, TRUE, i, None)]

\* The methods of the bases first, each name once.
RECURSIVE InterfaceMethods(_)
InterfaceMethods(i) ==
  LET inherited == FlattenSeq([k \in DOMAIN BasesOf(i) |-> InterfaceMethods(BasesOf(i)[k])])
  IN FoldLeft(LAMBDA kept, m : IF Has(kept, m.name) THEN kept ELSE Append(kept, m), <<>>, inherited)
     \o OwnInterfaceMethods(i)

InterfaceDeclared(i) ==
  LET inherited == UNION {ToSet(InterfaceMethods(b)) : b \in ToSet(BasesOf(i))}
      own == OwnInterfaceMethods(i)
  IN /\ \A m, n \in inherited : m.name = n.name => SameSignature(m, n) /\ m.async = n.async
     /\ \A k \in DOMAIN own : /\ Resolved(own[k])
                              /\ \A m \in inherited : m.name # own[k].name
                              /\ \A j \in DOMAIN own : j # k => own[j].name # own[k].name

InterfacesDeclared ==
  LET names == NamesOf("InterfaceDeclaration")
  IN /\ \A i \in names : ToSet(BasesOf(i)) \subseteq names
     /\ Acyclic(names, LAMBDA i : ToSet(BasesOf(i)))
     /\ \A i \in names : InterfaceDeclared(i)

-----------------------------------------------------------------------------
(* Classes.                                                                *)

ClassDeclaration(c) == DeclarationOf("ClassDeclaration", c)
ClassDecl(c) == ClassDeclaration(c).kids[7]
SuperOf(c) == IF c = "Error" \/ ClassDecl(c).kids[3] = None THEN NoName ELSE ClassDecl(c).kids[3].kids[1].text
IsAbstract(c) == c # "Error" /\ ClassDeclaration(c).kids[4] # None

MembersOf(c, kind) ==
  IF c = "Error" THEN <<>>
  ELSE SelectSeq(SubSeq(ClassDecl(c).kids, 5, Len(ClassDecl(c).kids)), LAMBDA m : m.kids[6].kind = kind)
Static(member) == member.kids[3] # None
Public(member) == member.kids[1] = None

Constructor(c) == MembersOf(c, "ConstructorDeclaration")

Field(c, m) ==
  [name |-> m.kids[6].kids[1].text, type |-> Resolve(m.kids[6].kids[2]), public |-> Public(m),
   readonly |-> m.kids[4] # None, class |-> c, init |-> m.kids[6].kids[3]]
OwnFields(c, static) ==
  LET own == SelectSeq(MembersOf(c, "ClassField"), LAMBDA m : Static(m) = static)
  IN [k \in DOMAIN own |-> Field(c, own[k])]

ClassMethod(c, m) ==
  Method(m.kids[6].kids, m.kids[5] # None, Public(m), m.kids[2] # None, c, m.kids[6].kids[5])
OwnMethods(c, static) ==
  LET own == SelectSeq(MembersOf(c, "ClassMethod"), LAMBDA m : Static(m) = static)
  IN [k \in DOMAIN own |-> ClassMethod(c, own[k])]

\* The fields of the base come first: they keep their places.
RECURSIVE InstanceFields(_)
InstanceFields(c) ==
  CASE c = NoName -> <<>>
    [] c = "Error" -> <<MessageField>>
    [] OTHER -> InstanceFields(SuperOf(c)) \o OwnFields(c, FALSE)

\* An override takes the slot of what it overrides.
RECURSIVE InstanceMethods(_)
InstanceMethods(c) ==
  IF c = NoName THEN <<>>
  ELSE FoldLeft(LAMBDA slots, m : IF Has(slots, m.name)
                                  THEN [k \in DOMAIN slots |-> IF slots[k].name = m.name THEN m ELSE slots[k]]
                                  ELSE Append(slots, m),
                InstanceMethods(SuperOf(c)), OwnMethods(c, FALSE))

ConstructorOf(c) ==
  CASE c = "Error" -> ErrorClass.constructor
    [] c # "Error" /\ Constructor(c) = <<>> -> Placeholder.constructor
    [] OTHER -> LET params == Constructor(c)[1].kids[6].kids[1].kids
                IN [params |-> params, types |-> ParameterTypes(params)]

FieldsDeclared(c) ==
  LET inherited == InstanceFields(SuperOf(c))
      own == OwnFields(c, FALSE)
      named == OwnFields(c, TRUE) \o OwnMethods(c, TRUE) \o OwnMethods(c, FALSE)
  IN /\ \A k \in DOMAIN own : /\ own[k].init = None /\ ~Has(inherited, own[k].name)
                              /\ \A j \in DOMAIN own : j # k => own[j].name # own[k].name
     /\ \A j, k \in DOMAIN named : j # k => named[j].name # named[k].name
     /\ \A f \in ToSet(own \o OwnFields(c, TRUE)) : f.type # NoType

\* An override has the types of what it overrides.
MethodsDeclared(c) ==
  LET own == OwnMethods(c, FALSE)
      inherited == InstanceMethods(SuperOf(c))
  IN /\ \A m \in ToSet(own \o OwnMethods(c, TRUE)) : Resolved(m) /\ (m.abstract => IsAbstract(c))
     /\ \A m \in ToSet(OwnMethods(c, TRUE)) : ~m.abstract
     /\ \A m \in ToSet(own) : Has(inherited, m.name) => SameSignature(Member(inherited, m.name), m)
     /\ IsAbstract(c) \/ \A m \in ToSet(InstanceMethods(c)) : ~m.abstract

\* What a class implements it has, in public and with the same signature.
InterfacesImplemented(c) ==
  LET named == BaseNames(ClassDecl(c).kids[4])
      methods == InstanceMethods(c)
  IN /\ ToSet(named) \subseteq NamesOf("InterfaceDeclaration") /\ IsInjective(named)
     /\ \A i \in ToSet(named) : \A asked \in ToSet(InterfaceMethods(i)) :
          /\ Has(methods, asked.name)
          /\ LET m == Member(methods, asked.name) IN m.public /\ m.async = asked.async /\ SameSignature(m, asked)

ConstructorDeclared(c) ==
  /\ Len(Constructor(c)) <= 1
  /\ NoType \notin ToSet(ConstructorOf(c).types)
  /\ Constructor(c) = <<>> /\ SuperOf(c) # NoName => ConstructorOf(SuperOf(c)).types = <<>>

ClassesDeclared ==
  LET names == NamesOf("ClassDeclaration")
  IN /\ \A c \in names : SuperOf(c) \in names \union {"Error", NoName}
     /\ Acyclic(names, LAMBDA c : {SuperOf(c)})
     /\ \A c \in names : FieldsDeclared(c) /\ MethodsDeclared(c) /\ InterfacesImplemented(c) /\ ConstructorDeclared(c)

ClassTable(c) ==
  [base |-> SuperOf(c), implements |-> IF c = "Error" THEN <<>> ELSE BaseNames(ClassDecl(c).kids[4]),
   abstract |-> IsAbstract(c), fields |-> InstanceFields(c), statics |-> OwnFields(c, TRUE),
   methods |-> InstanceMethods(c), staticMethods |-> OwnMethods(c, TRUE), constructor |-> ConstructorOf(c)]

-----------------------------------------------------------------------------
(* Functions and the module's variables.                                   *)

FunctionOf(f) ==
  LET d == DeclarationOf("FunctionDeclaration", f)
  IN Method(d.kids[7].kids, d.kids[6] # None, TRUE, FALSE, NoName, d.kids[7].kids[5])

FunctionsDeclared == \A f \in NamesOf("FunctionDeclaration") : Resolved(FunctionOf(f))

SignaturesDeclared == InterfacesDeclared /\ ClassesDeclared /\ FunctionsDeclared

Signatures ==
  [unit EXCEPT
     !.interfaces = [i \in DOMAIN @ |-> [bases |-> BasesOf(i), methods |-> InterfaceMethods(i)]],
     !.classes = [c \in DOMAIN @ |-> ClassTable(c)],
     !.functions = [f \in NamesOf("FunctionDeclaration") |-> FunctionOf(f)]]

Top == [scope |-> <<>>, async |-> FALSE, this |-> NoType, class |-> NoName, static |-> FALSE,
        constructor |-> FALSE, lambda |-> FALSE, want |-> NoType, voidOk |-> FALSE,
        result |-> Void, loops |-> 0, switches |-> 0]

\* A variable sees those declared before it.
Values ==
  FoldLeft(LAMBDA r, d :
             Followed(r, Check(Node("VariableDeclaration", d.kids[7].kids), InScope(Top, r.scope))),
           Judged(TRUE, FALSE, <<>>), Declared("ModuleVariableDeclaration"))

-----------------------------------------------------------------------------
(* Bodies.                                                                 *)

\* A default may name what the module declares, and no other parameter.
DefaultsSuit(params, types, at) ==
  \A i \in DOMAIN params : params[i].kids[3] # None => Suits(params[i].kids[3], InScope(at, <<>>), types[i])

ParameterScope(params, types) ==
  FoldLeftDomain(LAMBDA s, i : Bind(s, params[i].kids[1].text, Binding(types[i], FALSE)), <<>>, params)

\* A body that must return a value ends in a return, or has one somewhere.
EndsWithValue(body, result) ==
  \/ result = Void
  \/ BodyReturnsValue(body)
  \/ body # <<>> /\ Last(body).kind = "ReturnStatement" /\ Last(body).kids[1] # None

\* The parameters and statements of a body, and where it stands.
BodyOf(params, types, statements, at) == [params |-> params, types |-> types, statements |-> statements, at |-> at]
CheckBody(b) ==
  /\ \A i, j \in DOMAIN b.params : i # j => b.params[i].kids[1].text # b.params[j].kids[1].text
  /\ DefaultsSuit(b.params, b.types, b.at)
  /\ CheckStatements(b.statements, InScope(b.at, ParameterScope(b.params, b.types))).ok
  /\ EndsWithValue(b.statements, b.at.result)

FunctionBody(fn, at) == BodyOf(fn.params, fn.types, fn.body.kids, [at EXCEPT !.async = fn.async, !.result = fn.result])
Inside(c) == [Top EXCEPT !.this = ClassType(c), !.class = c]
MethodBodies(c, methods, static) ==
  {FunctionBody(m, [Inside(c) EXCEPT !.static = static]) : m \in {n \in ToSet(methods) : n.class = c /\ ~n.abstract}}
ConstructorBodies(c) ==
  {LET made == ConstructorOf(c)
   IN BodyOf(made.params, made.types, d.kids[6].kids[2].kids, [Inside(c) EXCEPT !.constructor = TRUE]) :
     d \in ToSet(Constructor(c))}

CallsSuper(s) == s.kind = "ExpressionStatement" /\ s.kids[1].kind = "CallExpression" /\ s.kids[1].kids[1].kind = "super"

\* The base is constructed first, and once.
BaseConstructed(c) ==
  \A d \in ToSet(Constructor(c)) :
    LET body == d.kids[6].kids[2].kids
    IN /\ SuperOf(c) # NoName => body # <<>> /\ CallsSuper(body[1])
       /\ \A i \in 2..Len(body) : ~CallsSuper(body[i])

StaticsSuit(c) == \A f \in ToSet(Class(c).statics) : f.init # None => Suits(f.init, Top, f.type)

BodiesChecked ==
  LET functions == NamesOf("FunctionDeclaration")
      classes == NamesOf("ClassDeclaration")
      bodies == {FunctionBody(unit.functions[f], Top) : f \in functions}
                \union UNION {ConstructorBodies(c) \union MethodBodies(c, Class(c).methods, FALSE)
                               \union MethodBodies(c, Class(c).staticMethods, TRUE) : c \in classes}
  IN /\ \A f \in functions : ~(unit.functions[f].async /\ unit.functions[f].result.kind = "future")
     /\ \A c \in classes : BaseConstructed(c) /\ StaticsSuit(c)
     /\ \A b \in bodies : CheckBody(b)
=============================================================================
