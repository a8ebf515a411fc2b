------------------------------- MODULE Parser -------------------------------
(***************************************************************************)
(* The parser of the language: src/packages/compiler/src/parser/parser.ts. *)
(* One definition per method, written with the forms of Grammar, and an    *)
(* interpreter for the forms that reads a sequence of tokens into a tree.  *)
(*                                                                         *)
(* The methods that decide by looking ahead (looksLikeLambda and the like) *)
(* parse on trial and go back, as the code does.  Spans and the wording of *)
(* diagnostics are left out; of a diagnostic only that there is one is     *)
(* kept ("clean").  The marks an unfinished list leaves on its node        *)
(* (IncompleteCloser) are left out too: a list that is not closed fails.   *)
(***************************************************************************)
EXTENDS Grammar, FiniteSets, SequencesExt

\* The kind of a token.  The words and signs of the language are their own
\* kind; so are Ptr and FnPtr, which are names with a meaning in types only.
KindOf(token) ==
    CASE token \in {"a", "b", "f", "g", "m", "n", "x", "y", "A", "B", "C", "E", "I", "J", "K", "T",
                    "run", "length", "print"} -> "Identifier"
      [] token \in {"i32", "bool", "string", "void"} -> "Primitive"
      [] token \in {"0", "1", "2", "3"} -> "Integer"
      [] token = "1.5" -> "Float"
      [] token = "'c'" -> "Char"
      [] token \in {"'s'", "'t'", "'std/m'", "'./m'", "'p'", "'object'", "'string'", "'i32'"} -> "String"
      [] OTHER -> token

Assigning == {"=", "+=", "-="}
Updating == {"++", "--"}

-----------------------------------------------------------------------------
(* Expressions, from the loosest operator to the tightest.                 *)

Binary(method, operators) ==
    Chain(Ref(method), <<On(At(operators), "BinaryExpression",
                            Row(<<Take(operators), Ref(method)>>))>>)

ParseOr == Binary("NullishCoalesce", {"||"})

ParseNullishCoalesce ==
    Chain(Ref("And"), <<On(At({"??"}), "NullCoalescingExpression",
                           Row(<<Word("??"), Ref("And")>>))>>)

ParseAnd == Binary("Equality", {"&&"})
ParseEquality == Binary("Relational", {"==", "!="})

\* After the comparisons, the tests of a type.
ParseRelational ==
    Chain(Binary("Additive", {"<", "<=", ">", ">="}),
          <<On(At({"is"}), "IsExpression", Row(<<Word("is"), Ref("Type")>>))>>)

ParseAdditive == Binary("Multiplicative", {"+", "-"})
ParseMultiplicative == Binary("Cast", {"*", "/", "%"})

ParseCast ==
    Chain(Ref("Unary"),
          <<On(At({"as"}), "CastExpression", Row(<<Word("as"), Ref("Type")>>))>>)

ParseUnary ==
    Choice(<<When(At({"typeof"}), Tree("TypeofExpression", Row(<<Word("typeof"), Ref("Unary")>>))),
             When(At({"await"}), Tree("AwaitExpression", Row(<<Word("await"), Ref("Unary")>>))),
             When(At({"-", "!", "*"}),
                  Tree("UnaryExpression", Row(<<Take({"-", "!", "*"}), Ref("Unary")>>))),
             When(Always, Ref("Primary"))>>)

\* The cases of parsePostfix, in its order; Chain loops over them.
ParsePostfix ==
    <<On(Ahead(<<{"?."}, {"["}>>), "OptionalIndex",
         Row(<<Word("?."), Word("["), Ref("Or"), Word("]")>>)),
      On(Ahead(<<{"?."}, {"Identifier"}, {"("}>>), "OptionalCall",
         Row(<<Word("?."), Name, Ref("CallArgs")>>)),
      On(Like(<<{"?."}, {"Identifier"}>>, "generic call"), "OptionalCall",
         Row(<<Word("?."), Name, Ref("CallArgs")>>)),
      On(At({"?."}), "OptionalMember", Row(<<Word("?."), Name>>)),
      On(Ahead(<<{"?"}, {"["}>>), "OptionalIndex",
         Row(<<Word("?"), Word("["), Ref("Or"), Word("]")>>)),
      On(At({"["}), "IndexExpression", Row(<<Word("["), Ref("Or"), Word("]")>>)),
      On(At({"."}), "MemberExpression", Row(<<Word("."), Name>>)),
      On(At({"("}), "CallExpression", Ref("CallArgs")),
      On(Like(<<>>, "generic call"), "CallExpression", Ref("CallArgs")),
      On(At({"!"}), "NonNullExpression", Word("!"))>>

\* A call of super ends the expression; whatever else starts one may be
\* followed by postfix operators.
ParsePrimary ==
    Choice(<<
        When(Ahead(<<{"super"}, {"("}>>),
             Tree("CallExpression", Row(<<Take({"super"}), Ref("CallArgs")>>))),
        When(Always, Chain(Choice(<<
            When(At({"async"}), Ref("LambdaExpression")),
            When(Like(<<>>, "lambda"), Ref("LambdaExpression")),
            When(At({"("}), Row(<<Word("("), Ref("Or"), Word(")")>>)),
            When(At({"["}), Ref("ArrayLiteral")),
            When(At({"new"}), Ref("NewExpression")),
            When(Ahead(<<{"Identifier"}, {"("}>>), Ref("CallExpression")),
            When(Like(<<{"Identifier"}>>, "generic call"), Ref("CallExpression")),
            When(Ahead(<<{"Identifier"}, {"."}, {"Identifier"}, {"{"}>>), Ref("StructLiteral")),
            When(Like(<<{"Identifier"}, {"."}, {"Identifier"}>>, "generic struct"), Ref("StructLiteral")),
            When(Ahead(<<{"Identifier"}, {"{"}>>), Ref("StructLiteral")),
            When(Like(<<{"Identifier"}>>, "generic struct"), Ref("StructLiteral")),
            When(At({"~~", "~{"}), Ref("TemplateLiteral")),
            When(Always, Take({"this", "super", "Identifier", "String", "Integer", "Float",
                               "true", "false", "null", "Char"}))>>),
            ParsePostfix))>>)

ParseTemplateLiteral ==
    Tree("TemplateLiteral",
         Choice(<<When(At({"~~"}), Word("~~")),
                  When(Always, Row(<<Word("~{"), Ref("TemplateRest")>>))>>))

TemplateRest ==
    Row(<<Ref("Or"),
          Choice(<<When(At({"}~"}), Word("}~")),
                   When(Always, Row(<<Word("}~{"), Ref("TemplateRest")>>))>>)>>)

ParseNewExpression ==
    Tree("NewExpression",
         Row(<<Word("new"), Name, Optional(At({"."}), Row(<<Word("."), Name>>)), Ref("CallArgs")>>))

ParseArrayLiteral == Tree("ArrayLiteral", Row(<<Word("["), List(Ref("Or"), "]")>>))

ParseStructLiteral ==
    Tree("StructLiteral",
         Row(<<Name, Optional(At({"."}), Row(<<Word("."), Name>>)),
               Optional(Like(<<>>, "generic struct"), Ref("TypeArgumentListRequired")),
               Word("{"), Listed(Ref("StructFieldInit"), "}")>>))

ParseStructFieldInit == Tree("StructFieldInit", Row(<<Name, Word(":"), Ref("Or")>>))

ParseCallExpression == Tree("CallExpression", Row(<<Name, Ref("CallArgs")>>))

ParseCallArgs ==
    Row(<<Optional(Like(<<>>, "generic call"), Ref("TypeArgumentListRequired")),
          Word("("), Listed(Ref("CallArgument"), ")")>>)

ParseCallArgument ==
    Choice(<<When(Ahead(<<{"Identifier"}, {":"}>>),
                  Tree("NamedArgument", Row(<<Name, Word(":"), Ref("Or")>>))),
             When(Always, Ref("Or"))>>)

Initial == Optional(At({"="}), Row(<<Word("="), Ref("Or")>>))
OptionalType == Optional(At({":"}), Row(<<Word(":"), Ref("Type")>>))

ParseLambdaExpression ==
    Tree("LambdaExpression",
         Row(<<Flag("async"), Word("("), Listed(Ref("LambdaParameter"), ")"), OptionalType,
               Word("=>"), Choice(<<When(At({"{"}), Ref("Block")), When(Always, Ref("Or"))>>)>>))

ParseLambdaParameter == Tree("LambdaParameter", Row(<<Name, OptionalType>>))

-----------------------------------------------------------------------------
(* Types.                                                                  *)

ParseUnionType == Nary("UnionType", Ref("IntersectionType"), "|")
ParseIntersectionType == Nary("IntersectionType", Ref("ConditionalType"), "&")

\* The last type reads every "extends" that follows: the chain has one link.
ParseConditionalType ==
    Chain(Ref("PostfixType"),
          <<On(At({"extends"}), "ConditionalType",
               Row(<<Word("extends"), Ref("Type"), Word("?"), Ref("Type"), Word(":"), Ref("Type")>>))>>)

ParsePostfixType ==
    Chain(Ref("PrimaryType"),
          <<On(Ahead(<<{"["}, {"]"}>>), "ArrayType", Row(<<Word("["), Word("]")>>)),
            On(Ahead(<<{"["}, {"Integer"}, {"]"}>>), "FixedArrayType",
               Row(<<Word("["), Take({"Integer"}), Word("]")>>)),
            On(At({"["}), "IndexedAccessType", Row(<<Word("["), Ref("Type"), Word("]")>>))>>)

ParseTupleType == Tree("TupleType", Row(<<Word("["), List(Ref("Type"), "]")>>))

ParsePrimaryType ==
    Choice(<<
        When(At({"async"}), Ref("FunctionType")),
        When(Like(<<>>, "function type"), Ref("FunctionType")),
        When(At({"("}), Row(<<Word("("), Ref("Type"), Word(")")>>)),
        When(At({"["}), Ref("TupleType")),
        When(At({"keyof"}), Tree("KeyofType", Row(<<Word("keyof"), Ref("PostfixType")>>))),
        When(At({"typeof"}), Tree("TypeofType", Row(<<Word("typeof"), Ref("TypeofTypeExpression")>>))),
        When(At({"{"}), Ref("ObjectOrMappedType")),
        When(At({"String", "Integer", "null", "Primitive"}),
             Take({"String", "Integer", "null", "Primitive"})),
        When(At({"Ptr"}), Tree("PtrType", Row(<<Word("Ptr"), Word("<"), Ref("Type"), Word(">")>>))),
        When(At({"FnPtr"}), Tree("FnPtrType", Row(<<Word("FnPtr"), Word("<"), Ref("FunctionType"), Word(">")>>))),
        When(Always,
             Tree("NamedType",
                  Row(<<Name, Optional(At({"."}), Row(<<Word("."), Name>>)),
                        Optional(At({"<"}), Ref("TypeArgumentListRequired"))>>)))>>)

ParseTypeofTypeExpression ==
    Choice(<<When(Ahead(<<{"Identifier"}, {"("}>>),
                  Tree("CallExpression",
                       Row(<<Name, Give(None), Word("("), Listed(Ref("CallArgument"), ")")>>))),
             When(Always, Name)>>)

IndexSignature(kind, semicolon) ==
    Tree(kind, Row(<<Word("["), Name, Word(":"), Ref("Type"), Word("]"), Word(":"),
                     Ref("Type"), semicolon>>))

MappedType ==
    Tree("MappedType",
         Row(<<Word("{"), Flag("readonly"), Word("["), Name, Word("in"), Ref("Type"), Word("]"),
               Word(":"), Ref("Type"), Maybe(";"), Maybe(";"), Word("}")>>))

\* Every property ends with a semicolon, the last one too.
ParseObjectOrMappedType ==
    Choice(<<
        When(Ahead(<<{"{"}, {"readonly"}, {"["}>>), MappedType),
        When(Ahead(<<{"{"}, {"["}, {"Identifier"}, {"in"}>>), MappedType),
        When(Always, Tree("ObjectType",
            Row(<<Word("{"),
                  Until({"}"},
                        Choice(<<When(At({"["}), IndexSignature("ObjectIndexSignature", Maybe(";"))),
                                 When(Always, Tree("ObjectTypeField",
                                     Row(<<Flag("readonly"), Name, Word(":"), Ref("Type"), Word(";")>>)))>>),
                        "null"),
                  Word("}")>>)))>>)

ParseTypeParameterList == Optional(At({"<"}), Row(<<Word("<"), Listed(Ref("TypeParameter"), ">")>>))

ParseTypeParameter ==
    Tree("TypeParameter", Row(<<Name, Optional(At({"extends"}), Row(<<Word("extends"), Ref("Type")>>))>>))

\* No comma before the closing sign here.
ParseTypeArgumentListRequired ==
    Row(<<Word("<"), Tree("List", Row(<<Ref("Type"), Ref("TypeArgumentRest")>>))>>)

TypeArgumentRest ==
    Choice(<<When(At({","}), Row(<<Word(","), Ref("Type"), Ref("TypeArgumentRest")>>)),
             When(Always, Word(">"))>>)

ParseFunctionType ==
    Tree("FunctionType",
         Row(<<Flag("async"), Word("("), Listed(Ref("Type"), ")"), Word("=>"), Ref("Type")>>))

-----------------------------------------------------------------------------
(* Statements.                                                             *)

Assignment(target, semicolon) ==
    Tree("AssignmentStatement", Row(<<target, Take(Assigning), Ref("Or"), semicolon>>))

IndexTarget == Tree("IndexExpression", Row(<<Name, Word("["), Ref("Or"), Word("]")>>))

MemberTarget ==
    Chain(Take({"Identifier", "this"}), <<On(At({"."}), "MemberExpression", Row(<<Word("."), Name>>))>>)

ParseUpdateStatement(semicolon) == Tree("UpdateStatement", Row(<<Name, Take(Updating), semicolon>>))

\* The order of the cases is the code's: a name before a bracket is taken for
\* the target of an assignment.
ParseStatement ==
    Choice(<<
        When(At({"let", "const"}), Ref("VariableDeclaration")),
        When(At({"return"}), Ref("ReturnStatement")),
        When(At({"if"}), Ref("IfStatement")),
        When(At({"while"}), Ref("WhileStatement")),
        When(At({"for"}), Ref("ForStatement")),
        When(At({"switch"}), Ref("SwitchStatement")),
        When(At({"break", "continue"}), Ref("JumpStatement")),
        When(At({"throw"}), Ref("ThrowStatement")),
        When(At({"try"}), Ref("TryStatement")),
        When(At({"unsafe"}), Tree("UnsafeBlock", Row(<<Word("unsafe"), Ref("Block")>>))),
        When(Like(<<>>, "dereference assignment"), Assignment(Ref("Unary"), Soft(";"))),
        When(Ahead(<<{"Identifier"}, Updating>>), ParseUpdateStatement(Soft(";"))),
        When(Ahead(<<{"Identifier"}, Assigning>>), Assignment(Name, Soft(";"))),
        When(Ahead(<<{"Identifier"}, {"["}>>), Assignment(IndexTarget, Soft(";"))),
        When(Like(<<>>, "member assignment"), Assignment(MemberTarget, Soft(";"))),
        When(Always, Ref("ExpressionStatement"))>>)

ParseBlock ==
    Tree("Block", Row(<<Word("{"), Until({"}"}, Ref("Statement"), "statement"), Word("}")>>))

Condition(word) == Row(<<Word(word), Word("("), Ref("Or"), Word(")")>>)

ParseIfStatement == Tree("IfStatement", Row(<<Condition("if"), Ref("Block"), Ref("Alternate")>>))

ParseElseIfChain == Tree("IfStatement", Row(<<Condition("elseif"), Ref("Block"), Ref("Alternate")>>))

Alternate ==
    Choice(<<When(At({"elseif"}), Ref("ElseIfChain")),
             When(At({"else"}), Row(<<Word("else"), Ref("Block")>>)),
             When(Always, Give(None))>>)

ParseWhileStatement == Tree("WhileStatement", Row(<<Condition("while"), Ref("Block")>>))

ParseForStatement ==
    Row(<<Word("for"), Word("("),
          Choice(<<When(Ahead(<<{"Identifier"}, {"in"}>>), Ref("ForInRemainder")),
                   When(Ahead(<<{"let", "const"}, {"Identifier"}, {"in"}>>), Ref("ForInRemainder")),
                   When(Always, Tree("ForStatement",
                       Row(<<Ref("ForInitializer"),
                             Choice(<<When(At({";"}), Give(None)), When(Always, Ref("Or"))>>), Word(";"),
                             Choice(<<When(At({")"}), Give(None)), When(Always, Ref("ForUpdate"))>>), Word(")"),
                             Ref("Block")>>)))>>)>>)

ParseForInRemainder ==
    Tree("ForInStatement",
         Row(<<Optional(At({"let", "const"}), Take({"let", "const"})), Name, Word("in"),
               Ref("Or"), Word(")"), Ref("Block")>>))

\* The initializer takes its semicolon with it.
ParseForInitializer ==
    Choice(<<When(At({";"}), Row(<<Word(";"), Give(None)>>)),
             When(At({"let", "const"}), Ref("VariableDeclaration")),
             When(Ahead(<<{"Identifier"}, Assigning>>), Assignment(Name, Soft(";"))),
             When(Ahead(<<{"Identifier"}, {"["}>>), Assignment(IndexTarget, Soft(";"))),
             When(Like(<<{"Identifier"}>>, "member assignment"), Assignment(MemberTarget, Soft(";")))>>)

ParseForUpdate ==
    Choice(<<When(Ahead(<<{"Identifier"}, Updating>>), ParseUpdateStatement(Row(<<>>))),
             When(Ahead(<<{"Identifier"}, Assigning>>), Assignment(Name, Row(<<>>))),
             When(Ahead(<<{"Identifier"}, {"["}>>), Assignment(IndexTarget, Row(<<>>))),
             When(Like(<<{"Identifier"}>>, "member assignment"), Assignment(MemberTarget, Row(<<>>)))>>)

ParseJumpStatement ==
    Choice(<<When(At({"break"}), Tree("BreakStatement", Row(<<Word("break"), Soft(";")>>))),
             When(Always, Tree("ContinueStatement", Row(<<Word("continue"), Soft(";")>>)))>>)

ParseThrowStatement == Tree("ThrowStatement", Row(<<Word("throw"), Ref("Or"), Soft(";")>>))

ParseTryStatement ==
    Tree("TryStatement",
         Row(<<Word("try"), Ref("Block"),
               Optional(At({"catch"}), Tree("CatchClause",
                   Row(<<Word("catch"), Word("("), Name, Word(")"), Ref("Block")>>))),
               Optional(At({"finally"}), Row(<<Word("finally"), Ref("Block")>>))>>))

ParseSwitchStatement ==
    Tree("SwitchStatement",
         Row(<<Condition("switch"), Word("{"), Until({"}"}, Ref("SwitchCase"), "null"), Soft("}")>>))

SwitchCase ==
    Tree("SwitchCase",
         Row(<<Choice(<<When(At({"case"}), Row(<<Word("case"), Ref("Or"), Word(":")>>)),
                        When(Always, Row(<<Word("default"), Word(":"), Give(None)>>))>>),
               Tree("Block", Until({"case", "default", "}"}, Ref("Statement"), "statement"))>>))

ParseVariableDeclaration ==
    Tree("VariableDeclaration",
         Row(<<Take({"let", "const"}),
               Choice(<<When(At({"["}), Ref("ArrayBindingPattern")), When(Always, Name)>>),
               OptionalType, Initial, Soft(";")>>))

\* A comma with no name before it is a hole.
ParseArrayBindingPattern ==
    Tree("ArrayBindingPattern",
         Row(<<Word("["), List(Choice(<<When(At({","}), Give(None)), When(Always, Name)>>), "]")>>))

ParseReturnStatement ==
    Tree("ReturnStatement",
         Row(<<Word("return"), Choice(<<When(At({";"}), Give(None)), When(Always, Ref("Or"))>>), Soft(";")>>))

\* A statement that starts with a call of a name is that call and no more.
ParseExpressionStatement ==
    Tree("ExpressionStatement",
         Row(<<Choice(<<When(Ahead(<<{"Identifier"}, {"("}>>), Ref("CallExpression")),
                        When(Like(<<{"Identifier"}>>, "generic call"), Ref("CallExpression")),
                        When(Always, Only({"CallExpression", "OptionalCall", "AwaitExpression"}, Ref("Or")))>>),
               Soft(";")>>))

-----------------------------------------------------------------------------
(* Declarations.                                                           *)

ParseProgram == Tree("Program", Until({}, Ref("Declaration"), "program"))

Attribute ==
    Tree("Attribute", Row(<<Word("@"), Name, Optional(At({"("}), Row(<<Word("("), Take({"String"}), Word(")")>>))>>))

ParseAttributeList ==
    Tree("List", Choice(<<When(At({"@"}), Ref("AttributeRest")), When(Always, Row(<<>>))>>))

AttributeRest ==
    Row(<<Attribute, Choice(<<When(At({"@"}), Ref("AttributeRest")), When(Always, Row(<<>>))>>)>>)

\* The modifiers and what they may precede; one that does not fit is only
\* reported by the code, and kept out of the programs considered here.
ParseDeclaration ==
    Choice(<<
        When(At({"import"}), Ref("ImportDeclaration")),
        When(Ahead(<<{"export"}, {"*", "{"}>>), Ref("ReExportDeclaration")),
        When(Always, Tree("Declaration",
            Row(<<ParseAttributeList, Flag("export"), Flag("extern"), Flag("abstract"),
                  Flag("unsafe"), Flag("async"),
                  Choice(<<When(At({"struct"}), Ref("StructDeclaration")),
                           When(At({"enum"}), Ref("EnumDeclaration")),
                           When(At({"interface"}), Ref("InterfaceDeclaration")),
                           When(At({"type"}), Ref("TypeAliasDeclaration")),
                           When(At({"class"}), Ref("ClassDeclaration")),
                           When(At({"function"}), Ref("FunctionDeclaration")),
                           When(At({"const", "let"}), Ref("ModuleVariableDeclaration"))>>)>>)))>>)

Specifier(kind) == Tree(kind, Row(<<Name, Optional(At({"as"}), Row(<<Word("as"), Name>>))>>))

ParseImportDeclaration ==
    Choice(<<
        When(Ahead(<<{"import"}, {"String"}>>),
             Tree("PathImport", Row(<<Word("import"), Take({"String"}),
                                      Optional(At({"as"}), Row(<<Word("as"), Name>>)), Word(";")>>))),
        When(Ahead(<<{"import"}, {"*"}>>),
             Tree("StarImport", Row(<<Word("import"), Word("*"), Word("as"), Name, Word("from"),
                                      Take({"String"}), Word(";")>>))),
        When(Always,
             Tree("NamedImports", Row(<<Word("import"), Word("{"), Listed(Specifier("ImportSpecifier"), "}"),
                                        Word("from"), Take({"String"}), Soft(";")>>)))>>)

ParseReExportDeclaration ==
    Choice(<<
        When(Ahead(<<{"export"}, {"*"}>>),
             Tree("ExportAllFromDeclaration",
                  Row(<<Word("export"), Word("*"), Word("from"), Take({"String"}), Word(";")>>))),
        When(Always,
             Tree("ExportNamedFromDeclaration",
                  Row(<<Word("export"), Word("{"), Listed(Specifier("ExportSpecifier"), "}"),
                        Word("from"), Take({"String"}), Word(";")>>)))>>)

\* The parts every signature has: parameters of type, of value, and the result.
Signature ==
    Row(<<Ref("TypeParameterList"), Word("("), Listed(Ref("Parameter"), ")"), Word(":"), Ref("Type")>>)

ParseParameter ==
    Tree("Parameter", Row(<<Take({"Identifier", "this"}), Word(":"), Ref("Type"), Initial>>))

ParseFunctionDeclaration ==
    Tree("FunctionDeclaration",
         Row(<<Word("function"), Name, Signature,
               Choice(<<When(At({"{"}), Ref("Block")), When(Always, Row(<<Word(";"), Give(None)>>))>>)>>))

ParseStructMethod == Tree("StructMethod", Row(<<Name, Signature, Ref("Block")>>))
ParseStructField == Tree("StructField", Row(<<Name, Word(":"), Ref("Type"), Soft(";")>>))

ParseStructDeclaration ==
    Tree("StructDeclaration",
         Row(<<Word("struct"), Name, Ref("TypeParameterList"), Word("{"),
               Until({"}"}, Choice(<<When(Ahead(<<{"Identifier"}, {"(", "<"}>>), ParseStructMethod),
                                     When(Always, ParseStructField)>>), "null"),
               Word("}")>>))

ParseConstructor ==
    Tree("ConstructorDeclaration",
         Row(<<Word("constructor"), Word("("), Listed(Ref("Parameter"), ")"), Ref("Block")>>))

\* An abstract method ends where another has its body.
ParseClassMethod ==
    Tree("ClassMethod",
         Row(<<Name, Signature,
               Choice(<<When(At({"{"}), Ref("Block")), When(Always, Row(<<Soft(";"), Give(None)>>))>>)>>))

ParseClassField ==
    Tree("ClassField", Row(<<Name, Word(":"), Ref("Type"), Initial, Soft(";")>>))

ParseClassMember ==
    Tree("ClassMember",
         Row(<<Choice(<<When(At({"public"}), Row(<<Word("public"), Give(None)>>)),
                        When(Always, Flag("private"))>>),
               Flag("abstract"), Flag("static"), Flag("readonly"), Flag("async"),
               Choice(<<When(At({"constructor"}), ParseConstructor),
                        When(Ahead(<<{"Identifier"}, {"(", "<"}>>), ParseClassMethod),
                        When(Always, ParseClassField)>>)>>))

Bases(word) ==
    Tree("List", Choice(<<When(At({word}), Row(<<Word(word), Ref("BaseRest")>>)), When(Always, Row(<<>>))>>))

BaseRest ==
    Row(<<Only({"NamedType"}, Ref("Type")),
          Choice(<<When(At({","}), Row(<<Word(","), Ref("BaseRest")>>)), When(Always, Row(<<>>))>>)>>)

ParseClassDeclaration ==
    Tree("ClassDeclaration",
         Row(<<Word("class"), Name, Ref("TypeParameterList"),
               Optional(At({"extends"}), Row(<<Word("extends"), Only({"NamedType"}, Ref("Type"))>>)),
               Bases("implements"), Word("{"), Until({"}"}, ParseClassMember, "null"), Word("}")>>))

ParseInterfaceMethod == Tree("InterfaceMethodSignature", Row(<<Flag("async"), Name, Signature, Word(";")>>))

ParseInterfaceDeclaration ==
    Tree("InterfaceDeclaration",
         Row(<<Word("interface"), Name, Ref("TypeParameterList"), Bases("extends"), Word("{"),
               Until({"}"}, Choice(<<When(At({"["}), IndexSignature("InterfaceIndexSignature", Word(";"))),
                                     When(Always, ParseInterfaceMethod)>>), "null"),
               Word("}")>>))

ParseEnumDeclaration ==
    Tree("EnumDeclaration", Row(<<Word("enum"), Name, Word("{"), List(Name, "}")>>))

ParseTypeAliasDeclaration ==
    Tree("TypeAliasDeclaration",
         Row(<<Word("type"), Name, Ref("TypeParameterList"), Word("="), Ref("Type"), Word(";")>>))

ParseModuleVariableDeclaration ==
    Tree("ModuleVariableDeclaration",
         Row(<<Take({"const", "let"}), Name, OptionalType, Word("="), Ref("Or"), Word(";")>>))

-----------------------------------------------------------------------------
(* The methods by name.                                                    *)

Rule ==
    [Program |-> ParseProgram, Declaration |-> ParseDeclaration,
     ImportDeclaration |-> ParseImportDeclaration, ReExportDeclaration |-> ParseReExportDeclaration,
     AttributeRest |-> AttributeRest, Parameter |-> ParseParameter,
     FunctionDeclaration |-> ParseFunctionDeclaration, StructDeclaration |-> ParseStructDeclaration,
     ClassDeclaration |-> ParseClassDeclaration, BaseRest |-> BaseRest,
     InterfaceDeclaration |-> ParseInterfaceDeclaration, EnumDeclaration |-> ParseEnumDeclaration,
     TypeAliasDeclaration |-> ParseTypeAliasDeclaration,
     ModuleVariableDeclaration |-> ParseModuleVariableDeclaration,
     Statement |-> ParseStatement, Block |-> ParseBlock, IfStatement |-> ParseIfStatement,
     ElseIfChain |-> ParseElseIfChain, Alternate |-> Alternate, WhileStatement |-> ParseWhileStatement,
     ForStatement |-> ParseForStatement, ForInRemainder |-> ParseForInRemainder,
     ForInitializer |-> ParseForInitializer, ForUpdate |-> ParseForUpdate,
     JumpStatement |-> ParseJumpStatement, ThrowStatement |-> ParseThrowStatement,
     TryStatement |-> ParseTryStatement, SwitchStatement |-> ParseSwitchStatement,
     SwitchCase |-> SwitchCase, VariableDeclaration |-> ParseVariableDeclaration,
     ArrayBindingPattern |-> ParseArrayBindingPattern, ReturnStatement |-> ParseReturnStatement,
     ExpressionStatement |-> ParseExpressionStatement,
     Or |-> ParseOr, NullishCoalesce |-> ParseNullishCoalesce, And |-> ParseAnd,
     Equality |-> ParseEquality, Relational |-> ParseRelational, Additive |-> ParseAdditive,
     Multiplicative |-> ParseMultiplicative, Cast |-> ParseCast, Unary |-> ParseUnary,
     Primary |-> ParsePrimary, TemplateLiteral |-> ParseTemplateLiteral, TemplateRest |-> TemplateRest,
     NewExpression |-> ParseNewExpression, ArrayLiteral |-> ParseArrayLiteral,
     StructLiteral |-> ParseStructLiteral, StructFieldInit |-> ParseStructFieldInit,
     CallExpression |-> ParseCallExpression, CallArgs |-> ParseCallArgs,
     CallArgument |-> ParseCallArgument, LambdaExpression |-> ParseLambdaExpression,
     LambdaParameter |-> ParseLambdaParameter,
     Type |-> ParseUnionType, IntersectionType |-> ParseIntersectionType,
     ConditionalType |-> ParseConditionalType, PostfixType |-> ParsePostfixType,
     PrimaryType |-> ParsePrimaryType, TypeofTypeExpression |-> ParseTypeofTypeExpression,
     ObjectOrMappedType |-> ParseObjectOrMappedType, TupleType |-> ParseTupleType,
     TypeParameterList |-> ParseTypeParameterList, TypeParameter |-> ParseTypeParameter,
     TypeArgumentListRequired |-> ParseTypeArgumentListRequired, TypeArgumentRest |-> TypeArgumentRest,
     FunctionType |-> ParseFunctionType]

-----------------------------------------------------------------------------
(* Reading tokens by a form: ok when the method returns a node, clean when *)
(* nothing was reported, at the next token, and the trees read.            *)

KindAt(s, p) == IF p \in DOMAIN s THEN KindOf(s[p]) ELSE "eof"

Got(p, trees) == [ok |-> TRUE, clean |-> TRUE, at |-> p, trees |-> trees]
Failed(p) == [ok |-> FALSE, clean |-> FALSE, at |-> p, trees |-> <<>>]

\* The results of two parts in a row.
Then(r, q) ==
    [ok |-> q.ok, clean |-> r.clean /\ q.clean, at |-> q.at,
     trees |-> IF q.ok THEN r.trees \o q.trees ELSE <<>>]

\* What is read becomes one tree.
Grown(r, kind) == IF r.ok THEN [r EXCEPT !.trees = <<Node(kind, @)>>] ELSE r

\* The parenthesis that closes the one at p; the end if none does.
Closing(s, p) ==
    LET Depth[q \in p..Len(s)] ==
            (IF q = p THEN 0 ELSE Depth[q - 1])
              + (CASE KindAt(s, q) = "(" -> 1 [] KindAt(s, q) = ")" -> -1 [] OTHER -> 0)
        closed == {q \in p..Len(s) : Depth[q] = 0}
    IN  IF closed = {} THEN Len(s) + 1 ELSE CHOOSE q \in closed : \A r \in closed : q <= r

\* synchronizeStatement: past the next semicolon, or to a closing brace.
Synchronized(s, p) ==
    LET stops == {q \in p..Len(s) : KindAt(s, q) \in {";", "}"}}
    IN  IF stops = {} THEN Len(s) + 1
        ELSE LET q == CHOOSE q \in stops : \A r \in stops : q <= r
             IN  IF KindAt(s, q) = ";" THEN q + 1 ELSE q

RECURSIVE Read(_, _, _), ReadAll(_, _, _), Linked(_, _, _), Items(_, _, _), Siblings(_, _, _), Sees(_, _, _)

\* isLambda and the other methods that look ahead.
LooksLikeLambda(s, p) ==
    /\ KindAt(s, p) = "("
    /\ LET q == Closing(s, p) + 1
       IN  IF KindAt(s, q) # ":" THEN KindAt(s, q) = "=>"
           ELSE LET r == Read(Ref("Type"), s, q + 1) IN r.ok /\ KindAt(s, r.at) = "=>"

LooksLikeFunctionType(s, p) == KindAt(s, p) = "(" /\ KindAt(s, Closing(s, p) + 1) = "=>"

\* A mistake: any smaller-than sign is taken for the start of type arguments.
AnyTypeArgs(s, p, after) == KindAt(s, p) = "<"

LooksLikeTypeArgsThen(s, p, after) ==
    /\ KindAt(s, p) = "<"
    /\ LET r == Read(Ref("TypeArgumentListRequired"), s, p) IN r.ok /\ KindAt(s, r.at) = after

\* A path of names and then an assignment.
LooksLikeMemberAssignment(s, p) ==
    /\ KindAt(s, p) \in {"Identifier", "this"}
    /\ KindAt(s, p + 1) = "."
    /\ LET r == Read(MemberTarget, s, p) IN r.ok /\ KindAt(s, r.at) \in Assigning

LooksLikeDereferenceAssignment(s, p) ==
    /\ KindAt(s, p) = "*"
    /\ LET r == Read(Ref("Unary"), s, p) IN r.ok /\ KindAt(s, r.at) \in Assigning

Sees(when, s, p) ==
    LET q == p + Len(when.next)
    IN  /\ \A i \in DOMAIN when.next : KindAt(s, p + i - 1) \in when.next[i]
        /\ CASE when.like = "" -> TRUE
             [] when.like = "lambda" -> LooksLikeLambda(s, q)
             [] when.like = "function type" -> LooksLikeFunctionType(s, q)
             [] when.like = "generic call" -> LooksLikeTypeArgsThen(s, q, "(")
             [] when.like = "generic struct" -> LooksLikeTypeArgsThen(s, q, "{")
             [] when.like = "member assignment" -> LooksLikeMemberAssignment(s, p)
             [] when.like = "dereference assignment" -> LooksLikeDereferenceAssignment(s, q)

\* The first case whose condition holds, 0 if none does.
FirstCase(cases, s, p) ==
    LET open == {i \in DOMAIN cases : Sees(cases[i].when, s, p)}
    IN  IF open = {} THEN 0 ELSE CHOOSE i \in open : \A j \in open : i <= j

ReadAll(parts, s, r) ==
    IF parts = <<>> \/ ~r.ok THEN r ELSE ReadAll(Tail(parts), s, Then(r, Read(Head(parts), s, r.at)))

\* The loop of a Chain.
Linked(cases, s, r) ==
    LET i == IF r.ok THEN FirstCase(cases, s, r.at) ELSE 0
    IN  IF i = 0 THEN r
        ELSE Linked(cases, s, Grown(Then(r, Read(cases[i].part, s, r.at)), cases[i].kind))

\* The loop of a List; it ends past the closing token.
Items(g, s, r) ==
    IF ~r.ok THEN r
    ELSE IF KindAt(s, r.at) = g.close THEN Then(r, Got(r.at + 1, <<>>))
    ELSE LET q == Then(r, Read(g.part, s, r.at))
         IN  IF q.ok /\ KindAt(s, q.at) = "," THEN Items(g, s, Then(q, Got(q.at + 1, <<>>)))
             ELSE Then(q, IF q.ok /\ KindAt(s, q.at) = g.close THEN Got(q.at + 1, <<>>) ELSE Failed(q.at))

\* The loop of an Until.
Siblings(g, s, r) ==
    IF KindAt(s, r.at) \in g.kinds \union {"eof"} THEN r
    ELSE LET q == Read(g.part, s, r.at)
         IN  CASE q.ok -> Siblings(g, s, Then(r, q))
               [] ~q.ok /\ g.failing = "null" -> q
               [] ~q.ok /\ g.failing = "statement" ->
                    Siblings(g, s, [r EXCEPT !.clean = FALSE, !.at = Synchronized(s, q.at)])
               [] ~q.ok /\ g.failing = "program" -> [r EXCEPT !.clean = FALSE]

RECURSIVE Separated(_, _, _)
Separated(g, s, r) ==
    IF ~r.ok \/ KindAt(s, r.at) # g.separator THEN r
    ELSE Separated(g, s, Then(r, Read(g.part, s, r.at + 1)))

Read(g, s, p) ==
    CASE g.form = "word" -> IF KindAt(s, p) = g.kind THEN Got(p + 1, <<>>) ELSE Failed(p)
      [] g.form = "soft" -> IF KindAt(s, p) = g.kind THEN Got(p + 1, <<>>)
                            ELSE [Got(p, <<>>) EXCEPT !.clean = FALSE]
      [] g.form = "take" -> IF KindAt(s, p) \in g.kinds THEN Got(p + 1, <<Leaf(KindAt(s, p), s[p])>>)
                            ELSE Failed(p)
      [] g.form = "give" -> Got(p, <<g.node>>)
      [] g.form = "ref" -> Read(Rule[g.method], s, p)
      [] g.form = "row" -> ReadAll(g.parts, s, Got(p, <<>>))
      [] g.form = "choice" -> LET i == FirstCase(g.cases, s, p)
                              IN  IF i = 0 THEN Failed(p) ELSE Read(g.cases[i].part, s, p)
      [] g.form = "tree" -> Grown(Read(g.part, s, p), g.kind)
      [] g.form = "only" -> LET r == Read(g.part, s, p)
                            IN  IF r.ok /\ r.trees[1].kind \notin g.kinds THEN Failed(r.at) ELSE r
      [] g.form = "chain" -> Linked(g.cases, s, Read(g.first, s, p))
      [] g.form = "nary" -> LET r == Read(g.part, s, p)
                            IN  IF r.ok /\ KindAt(s, r.at) = g.separator
                                THEN Grown(Separated(g, s, r), g.kind) ELSE r
      [] g.form = "list" -> Items(g, s, Got(p, <<>>))
      [] g.form = "until" -> Siblings(g, s, Got(p, <<>>))

\* The tree of a program, and whether nothing was reported.
Parse(s) ==
    LET r == Read(Ref("Program"), s, 1) IN [clean |-> r.clean, tree |-> r.trees[1]]
=============================================================================
