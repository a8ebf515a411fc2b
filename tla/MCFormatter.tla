---------------------------- MODULE MCFormatter ----------------------------
(* Small programs for Formatter: one of each construct, and each construct *)
(* in each place of another.                                               *)
EXTENDS Formatter

Id(name) == Leaf("Identifier", name)
ListOf(items) == Node("List", items)
a == Id("a")
b == Id("b")
K == Id("K")
One == Leaf("Integer", "1")
Sign(w) == Leaf(w, w)
Named(name, args) == Node("NamedType", <<Id(name), None, args>>)
T == Named("T", None)
I32 == Leaf("Primitive", "i32")

Ops == {"||", "&&", "==", "!=", "<", ">", ">=", "+", "-", "*", "%"}

Lambda(async, params, result, body) == Node("LambdaExpression", <<async, ListOf(params), result, body>>)
Call(f, args) == Node("CallExpression", <<f, None, ListOf(args)>>)

Closure == Lambda(None, <<Node("LambdaParameter", <<a, None>>)>>, None, Node("Block", <<>>))

\* The expressions with e as an operand.
Around(e) ==
  {Node("BinaryExpression", <<e, Leaf(o, o), b>>) : o \in Ops}
  \union {Node("BinaryExpression", <<a, Leaf(o, o), e>>) : o \in Ops}
  \union {Node("UnaryExpression", <<Leaf(o, o), e>>) : o \in {"-", "!", "*"}}
  \union {Node(kind, <<e>>) : kind \in {"TypeofExpression", "AwaitExpression", "NonNullExpression",
                                         "ArrayLiteral", "TemplateLiteral"}}
  \union {Node(kind, <<e, t>>) : kind \in {"CastExpression", "IsExpression"}, t \in {T}}
  \union {Node(kind, pair) : kind \in {"IndexExpression", "OptionalIndex", "NullCoalescingExpression"},
                               pair \in {<<a, e>>, <<e, b>>}}
  \union {Node(kind, <<e, b>>) : kind \in {"MemberExpression", "OptionalMember"}}
  \union {Call(e, <<a>>), Call(a, <<e, b>>), Call(a, <<Node("NamedArgument", <<b, e>>)>>),
          Node("CallExpression", <<a, ListOf(<<T>>), ListOf(<<e>>)>>),
          Node("OptionalCall", <<e, b, None, ListOf(<<>>)>>),
          Node("OptionalCall", <<a, b, ListOf(<<T, I32>>), ListOf(<<e>>)>>),
          Node("NewExpression", <<Id("A"), Id("B"), ListOf(<<T>>), ListOf(<<e>>)>>),
          Node("StructLiteral", <<Id("A"), None, None, ListOf(<<Node("StructFieldInit", <<a, e>>),
                                                               Node("StructFieldInit", <<b, One>>)>>)>>),
          Node("StructLiteral", <<Id("A"), Id("B"), ListOf(<<T>>), ListOf(<<Node("StructFieldInit", <<a, e>>)>>)>>),
          Node("TemplateLiteral", <<a, e>>),
          Lambda(None, <<>>, None, e),
          Lambda(Sign("async"), <<Node("LambdaParameter", <<a, T>>), Node("LambdaParameter", <<b, None>>)>>, T, e)}

Plain == {a, One, Leaf("Float", "1.5"), Leaf("Char", "'c'"), Leaf("String", "'s'"), Sign("true"),
          Sign("null"), Sign("this"), Node("ArrayLiteral", <<>>), Node("TemplateLiteral", <<>>),
          Node("StructLiteral", <<Id("A"), None, None, ListOf(<<>>)>>),
          Closure,
          Call(Sign("super"), <<a>>)}

\* The types with t as a part.
AroundType(t) ==
  {Node(kind, <<t>>) : kind \in {"ArrayType", "PtrType", "KeyofType", "TupleType"}}
  \union {Node(kind, pair) : kind \in {"UnionType", "IntersectionType", "TupleType"}, pair \in {<<t, T>>, <<I32, t>>}}
  \union {Node("IndexedAccessType", pair) : pair \in {<<t, T>>, <<I32, t>>} \ {<<I32, One>>}}
  \union {Node("ConditionalType", s) : s \in {<<t, T, T, T>>, <<T, t, T, T>>, <<T, T, t, T>>, <<T, T, T, t>>}}
  \union {Node("FixedArrayType", <<t, One>>), Named("A", ListOf(<<t>>)),
          Node("NamedType", <<Id("A"), Id("B"), ListOf(<<I32, t>>)>>),
          Node("FunctionType", <<None, ListOf(<<>>), t>>),
          Node("FunctionType", <<Sign("async"), ListOf(<<t>>), T>>),
          Node("FnPtrType", <<Node("FunctionType", <<None, ListOf(<<t>>), I32>>)>>),
          Node("ObjectType", <<Node("ObjectTypeField", <<Sign("readonly"), a, t>>)>>),
          Node("ObjectType", <<Node("ObjectTypeField", <<None, a, t>>),
                               Node("ObjectIndexSignature", <<K, T, t>>)>>),
          Node("MappedType", <<None, K, t, T>>), Node("MappedType", <<Sign("readonly"), K, T, t>>)}

PlainTypes == {T, I32, One, Sign("null"), Leaf("String", "'s'"), Node("TypeofType", <<a>>),
               Node("TypeofType", <<Call(a, <<b>>)>>), Node("ObjectType", <<>>)}

-----------------------------------------------------------------------------
Variable(word, target, type, value) == Node("VariableDeclaration", <<Sign(word), target, type, value>>)
Assign(target, sign, e) == Node("AssignmentStatement", <<target, Leaf(sign, sign), e>>)
Update == Node("UpdateStatement", <<a, Leaf("++", "++")>>)
Block(statements) == Node("Block", statements)
Member(e) == Node("MemberExpression", <<e, b>>)
Index(e) == Node("IndexExpression", <<a, e>>)
ArrayBinding(names) == Node("ArrayBindingPattern", names)

\* The statements with an expression e, a statement s.
StatementsOf(e) ==
  {Variable("let", a, T, e), Variable("const", ArrayBinding(<<a, None, b>>), None, e),
   Variable("const", ArrayBinding(<<a, None>>), None, e),
   Assign(a, "=", e), Assign(Index(e), "+=", b), Assign(Member(Member(Sign("this"))), "-=", e),
   Assign(Node("UnaryExpression", <<Leaf("*", "*"), a>>), "=", e),
   Node("ReturnStatement", <<e>>), Node("ThrowStatement", <<e>>), Node("ExpressionStatement", <<Call(a, <<e>>)>>),
   Node("ExpressionStatement", <<Node("AwaitExpression", <<e>>)>>),
   Node("ExpressionStatement", <<Call(Member(e), <<>>)>>),
   Node("ExpressionStatement", <<Node("CallExpression", <<a, ListOf(<<T>>), ListOf(<<e>>)>>)>>),
   Node("ForInStatement", <<None, a, e, Block(<<>>)>>), Node("ForInStatement", <<Sign("let"), a, e, Block(<<>>)>>),
   Node("ForStatement", <<Variable("let", a, None, e), e, Update, Block(<<>>)>>),
   Node("ForStatement", <<Assign(a, "=", e), None, Assign(Member(a), "=", e), Block(<<>>)>>),
   Node("ForStatement", <<None, e, None, Block(<<>>)>>)}

StatementsAround(s) ==
  {Node("IfStatement", <<a, Block(<<s, Update>>), None>>),
   Node("IfStatement", <<a, Block(<<>>), Block(<<s>>)>>),
   Node("IfStatement", <<a, Block(<<s>>), Node("IfStatement", <<b, Block(<<s>>), Block(<<>>)>>)>>),
   Node("WhileStatement", <<a, Block(<<s, s>>)>>), Node("UnsafeBlock", <<Block(<<s>>)>>),
   Node("TryStatement", <<Block(<<s>>), Node("CatchClause", <<a, Block(<<>>)>>), None>>),
   Node("TryStatement", <<Block(<<>>), None, Block(<<s>>)>>),
   Node("SwitchStatement", <<a, Node("SwitchCase", <<One, Block(<<s, Node("BreakStatement", <<>>)>>)>>),
                             Node("SwitchCase", <<None, Block(<<s>>)>>)>>),
   Node("ForStatement", <<None, None, None, Block(<<s>>)>>),
   Node("ReturnStatement", <<Lambda(None, <<>>, None, Block(<<s>>))>>)}

Jumps == {Node("BreakStatement", <<>>), Node("ContinueStatement", <<>>), Update, Node("ReturnStatement", <<None>>)}

-----------------------------------------------------------------------------
Program(declarations) == Node("Program", declarations)
Plainly(d) == Node("Declaration", <<ListOf(<<>>), None, None, None, None, None, d>>)
Parameters == ListOf(<<Node("Parameter", <<a, T, One>>), Node("Parameter", <<b, T, None>>)>>)
TypeParameters == ListOf(<<Node("TypeParameter", <<K, Node("KeyofType", <<T>>)>>), Node("TypeParameter", <<Id("T"), None>>)>>)
Signed(types, parameters, body) == <<Id("f"), types, parameters, I32, body>>
Function(s) == Node("FunctionDeclaration", Signed(None, ListOf(<<>>), Block(<<s>>)))
Alias(t) == Node("TypeAliasDeclaration", <<Id("A"), None, t>>)
Field == Node("StructField", <<a, T>>)
Method == Node("StructMethod", Signed(TypeParameters, ListOf(<<>>), Block(<<>>)))
Attr == ListOf(<<Node("Attribute", <<a, None>>), Node("Attribute", <<b, Leaf("String", "'s'")>>)>>)

Members ==
  {Node("ClassMember", <<v, ab, st, None, as, Node("ClassMethod", Signed(None, Parameters, body))>>) :
      v \in {None, Sign("private")}, ab \in {None, Sign("abstract")}, st \in {None, Sign("static")},
      as \in {None, Sign("async")}, body \in {None, Block(<<>>)}}
  \union {Node("ClassMember", <<v, None, st, ro, None, Node("ClassField", <<a, T, e>>)>>) :
      v \in {None, Sign("private")}, st \in {None, Sign("static")}, ro \in {None, Sign("readonly")}, e \in {None, One}}
  \union {Node("ClassMember", <<v, None, None, None, None, Node("ConstructorDeclaration", <<Parameters, Block(<<>>)>>)>>) :
      v \in {None, Sign("private")}}

Declarations ==
  {Node("Declaration", <<at, ex, None, None, un, as, Node("FunctionDeclaration", Signed(ty, Parameters, body))>>) :
      at \in {ListOf(<<>>), Attr}, ex \in {None, Sign("export")}, un \in {None, Sign("unsafe")},
      as \in {None, Sign("async")}, ty \in {None, TypeParameters}, body \in {None, Block(<<>>)}}
  \union {Node("Declaration", <<ListOf(<<>>), Sign("export"), None, ab, None, None,
              Node("ClassDeclaration", <<Id("A"), ty, ext, ListOf(imp)>>)>>) :
      ab \in {None, Sign("abstract")}, ty \in {None, TypeParameters}, ext \in {None, T},
      imp \in {<<>>, <<T, Named("B", ListOf(<<T>>))>>}}
  \union {Plainly(Node("ClassDeclaration", <<Id("A"), None, None, ListOf(<<>>), member>>)) : member \in Members}
  \union {Plainly(Node("StructDeclaration", <<Id("A"), None>> \o members)) :
      members \in {<<>>, <<Field, Method>>, <<Method, Field>>}}
  \union {Plainly(Node("InterfaceDeclaration", <<Id("A"), TypeParameters, ListOf(bases)>> \o members)) :
      bases \in {<<>>, <<T, T>>},
      members \in {<<>>, <<Node("InterfaceMethodSignature", <<Sign("async"), Id("f"), None, Parameters, T>>),
                            Node("InterfaceIndexSignature", <<K, T, T>>)>>}}
  \union {Plainly(Node("EnumDeclaration", <<Id("A"), Id("B"), Id("K")>>)),
          Plainly(Node("TypeAliasDeclaration", <<Id("A"), TypeParameters, T>>)),
          Plainly(Node("ModuleVariableDeclaration", <<Sign("let"), a, T, One>>)),
          Node("Declaration", <<ListOf(<<>>), None, Sign("extern"), None, None, None,
               Node("FunctionDeclaration", Signed(None, Parameters, None))>>)}

Path(s) == Leaf("String", s)
Specifiers(kind) == ListOf(<<Node(kind, <<Id("A"), None>>), Node(kind, <<Id("B"), Id("T")>>)>>)
Imports ==
  {Node("PathImport", <<Path("'./m'"), None>>), Node("PathImport", <<Path("'std/m'"), a>>),
   Node("StarImport", <<a, Path("'p'")>>), Node("NamedImports", <<Specifiers("ImportSpecifier"), Path("'./m'")>>),
   Node("NamedImports", <<ListOf(<<>>), Path("'p'")>>)}
ReExports ==
  {Node("ExportAllFromDeclaration", <<Path("'p'")>>),
   Node("ExportNamedFromDeclaration", <<Specifiers("ExportSpecifier"), Path("'p'")>>)}

-----------------------------------------------------------------------------
Simple == UNION {Around(e) : e \in Plain} \union Plain
SimpleTypes == UNION {AroundType(t) : t \in PlainTypes} \union PlainTypes
Inner == Around(a)

MCPrograms ==
  {Constant(e) : e \in Simple \union UNION {Around(e) : e \in Inner}}
  \union {Program(<<Plainly(Alias(t))>>) : t \in SimpleTypes \union UNION {AroundType(t) : t \in AroundType(T)}}
  \union {Program(<<Plainly(Function(s))>>) :
            s \in Jumps \union UNION {StatementsOf(e) : e \in Inner \union Plain}
                    \union UNION {StatementsAround(s) : s \in Jumps \union UNION {StatementsOf(e) : e \in {a, Closure}}}}
  \union {Program(<<d>>) : d \in Declarations \union ReExports}
  \union {Program(<<c, d, Plainly(Function(Update))>>) : c \in Imports, d \in Imports \union ReExports}

\* Casts, for the run that shows what a second save does.
MCCasts == {Constant(Node("CastExpression", <<e, T>>)) : e \in Inner}

MCOperands == {a}
MCOperators == {"||", "??", "&&", "==", "<", ">", "+", "-", "*"}
=============================================================================
