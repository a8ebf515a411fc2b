------------------------------ MODULE Printer ------------------------------
(***************************************************************************)
(* The printer of the formatter: src/packages/compiler/src/format/         *)
(* printer.ts, from the trees of Parser back to tokens.  Layout (blanks,   *)
(* line ends, comments) is left out; what the width of a line decides      *)
(* about tokens, the comma after the last item of a broken list, is the    *)
(* "narrow" of a style.                                                    *)
(*                                                                         *)
(* The style also says whether to print as the printer does, parentheses   *)
(* where its precedences ask for them, or "careful": every operand in      *)
(* parentheses of its own and every property closed.  The careful text of  *)
(* a tree is what a programmer who trusts no precedence would have written.*)
(***************************************************************************)
EXTENDS Grammar, SequencesExt

Styles == [careful : BOOLEAN, narrow : BOOLEAN]
Careful == [careful |-> TRUE, narrow |-> FALSE]
Printed(narrow) == [careful |-> FALSE, narrow |-> narrow]

\* Precedences, ten times the code's: a right operand asks for a tenth more.
BinaryPrecedence(operator) ==
    CASE operator = "||" -> 40
      [] operator = "&&" -> 50
      [] operator \in {"==", "!="} -> 80
      [] operator \in {"<", "<=", ">", ">="} -> 90
      [] operator \in {"+", "-"} -> 110
      [] operator \in {"*", "/", "%"} -> 120

UnaryPrecedence == 140
CastPrecedence == 70
NullCoalescePrecedence == 30

\* Whatever is not listed here never gets parentheses.
ExprPrecedence(e) ==
    CASE e.kind = "BinaryExpression" -> BinaryPrecedence(e.kids[2].text)
      [] e.kind = "NullCoalescingExpression" -> NullCoalescePrecedence
      [] e.kind \in {"UnaryExpression", "TypeofExpression"} -> UnaryPrecedence
      [] e.kind \in {"CastExpression", "IsExpression"} -> 70
      [] OTHER -> 1000

-----------------------------------------------------------------------------
Joined(texts, sign) ==
    FoldLeft(LAMBDA done, text : IF done = <<>> THEN text ELSE done \o <<sign>> \o text, <<>>, texts)

\* Names that are not there still count between commas.
Spaced(texts) ==
    FlattenSeq([i \in DOMAIN texts |-> IF i = 1 THEN texts[i] ELSE <<",">> \o texts[i]])

Parenthesized(text) == <<"(">> \o text \o <<")">>

\* A minus before a minus is read as one token.
Glued(sign, text) == IF sign = "-" /\ Head(text) = "-" THEN <<"--">> \o Tail(text) ELSE <<sign>> \o text

RECURSIVE Show(_, _)

Each(trees, style) == [i \in DOMAIN trees |-> Show(trees[i], style)]
All(trees, style) == FlattenSeq(Each(trees, style))
After(sign, t, style) == IF t = None THEN <<>> ELSE <<sign>> \o Show(t, style)

\* printExprWithParen.
PrintExprWithParen(e, least, style) ==
    LET text == Show(e, style)
    IN  IF style.careful
        THEN IF e.kids = <<>> THEN text ELSE Parenthesized(text)
        ELSE IF ExprPrecedence(e) < least THEN Parenthesized(text) ELSE text

Bare(t, style) == PrintExprWithParen(t, 0, style)

\* The items of a list that may be broken over lines when it has so many.
PrintItems(list, least, style) ==
    Joined(Each(list.kids, style), ",")
      \o (IF style.narrow /\ Len(list.kids) >= least THEN <<",">> ELSE <<>>)

TypeArgs(t, style) ==
    IF t = None THEN <<>> ELSE <<"<">> \o Joined(Each(t.kids, style), ",") \o <<">">>

PrintParamList(list, style) == <<"(">> \o PrintItems(list, 1, style) \o <<")">>
PrintArgList(list, style) == <<"(">> \o PrintItems(list, 1, style) \o <<")">>
PrintBlock(block, style) == <<"{">> \o All(block.kids, style) \o <<"}">>

Qualified(k, style) == <<k[1].text>> \o After(".", k[2], style) \o TypeArgs(k[3], style)

-----------------------------------------------------------------------------
\* A mistake: a right operand of the same level goes without parentheses.
PrintBinaryAlike(k, style) ==
    LET least == BinaryPrecedence(k[2].text)
    IN  PrintExprWithParen(k[1], least, style) \o <<k[2].text>> \o PrintExprWithParen(k[3], least, style)

PrintBinary(k, style) ==
    LET least == BinaryPrecedence(k[2].text)
    IN  PrintExprWithParen(k[1], least, style) \o <<k[2].text>>
          \o PrintExprWithParen(k[3], least + 1, style)

PrintLambda(k, style) ==
    Show(k[1], style) \o Parenthesized(Joined(Each(k[2].kids, style), ",")) \o After(":", k[3], style)
      \o <<"=>">> \o (IF k[4].kind = "Block" THEN Show(k[4], style) ELSE Bare(k[4], style))

PrintExpr(e, style) ==
    LET k == e.kids
    IN  CASE e.kind = "BinaryExpression" -> PrintBinary(k, style)
          [] e.kind = "UnaryExpression" ->
               Glued(k[1].text, PrintExprWithParen(k[2], UnaryPrecedence, style))
          [] e.kind = "CastExpression" ->
               PrintExprWithParen(k[1], CastPrecedence, style) \o <<"as">> \o Bare(k[2], style)
          [] e.kind = "AwaitExpression" -> <<"await">> \o PrintExprWithParen(k[1], UnaryPrecedence, style)
          [] e.kind = "NonNullExpression" -> Bare(k[1], style) \o <<"!">>
          [] e.kind = "NullCoalescingExpression" ->
               PrintExprWithParen(k[1], NullCoalescePrecedence, style) \o <<"??">>
                 \o PrintExprWithParen(k[2], NullCoalescePrecedence + 1, style)
          [] e.kind = "TypeofExpression" -> <<"typeof">> \o Bare(k[1], style)
          [] e.kind = "IsExpression" -> Bare(k[1], style) \o <<"is">> \o Bare(k[2], style)
          [] e.kind = "OptionalIndex" -> Bare(k[1], style) \o <<"?.", "[">> \o Show(k[2], style) \o <<"]">>
          [] e.kind = "IndexExpression" -> Bare(k[1], style) \o <<"[">> \o Show(k[2], style) \o <<"]">>
          [] e.kind = "OptionalMember" -> Bare(k[1], style) \o <<"?.", k[2].text>>
          [] e.kind = "MemberExpression" -> Bare(k[1], style) \o <<".", k[2].text>>
          [] e.kind = "OptionalCall" ->
               Bare(k[1], style) \o <<"?.", k[2].text>> \o TypeArgs(k[3], style) \o PrintArgList(k[4], style)
          [] e.kind = "CallExpression" -> Bare(k[1], style) \o TypeArgs(k[2], style) \o PrintArgList(k[3], style)
          [] e.kind = "NewExpression" -> <<"new">> \o Qualified(k, style) \o PrintArgList(k[4], style)
          [] e.kind = "ArrayLiteral" -> <<"[">> \o PrintItems(e, 2, style) \o <<"]">>
          [] e.kind = "StructLiteral" -> Qualified(k, style) \o <<"{">> \o PrintItems(k[4], 2, style) \o <<"}">>
          [] e.kind \in {"StructFieldInit", "NamedArgument"} -> <<k[1].text, ":">> \o Show(k[2], style)
          [] e.kind = "LambdaExpression" -> PrintLambda(k, style)
          [] e.kind = "LambdaParameter" -> <<k[1].text>> \o After(":", k[2], style)
          [] e.kind = "TemplateLiteral" ->
               IF k = <<>> THEN <<"~~">>
               ELSE <<"~{">> \o Joined(Each(k, style), "}~{") \o <<"}~">>

-----------------------------------------------------------------------------
\* No type is ever put in parentheses, and the last property has no semicolon.
PrintType(t, style) ==
    LET k == t.kids
    IN  CASE t.kind = "ArrayType" -> Bare(k[1], style) \o <<"[", "]">>
          [] t.kind = "FixedArrayType" -> Bare(k[1], style) \o <<"[", k[2].text, "]">>
          [] t.kind = "IndexedAccessType" -> Bare(k[1], style) \o <<"[">> \o Show(k[2], style) \o <<"]">>
          [] t.kind = "PtrType" -> <<"Ptr", "<">> \o Show(k[1], style) \o <<">">>
          [] t.kind = "FnPtrType" -> <<"FnPtr", "<">> \o Show(k[1], style) \o <<">">>
          [] t.kind = "TupleType" -> <<"[">> \o Joined(Each(k, style), ",") \o <<"]">>
          [] t.kind = "NamedType" -> Qualified(k, style)
          [] t.kind = "UnionType" -> Joined([i \in DOMAIN k |-> Bare(k[i], style)], "|")
          [] t.kind = "IntersectionType" -> Joined([i \in DOMAIN k |-> Bare(k[i], style)], "&")
          [] t.kind = "KeyofType" -> <<"keyof">> \o Bare(k[1], style)
          [] t.kind = "TypeofType" -> <<"typeof">> \o Show(k[1], style)
          [] t.kind = "ConditionalType" ->
               Bare(k[1], style) \o <<"extends">> \o Bare(k[2], style) \o <<"?">>
                 \o Bare(k[3], style) \o <<":">> \o Bare(k[4], style)
          [] t.kind = "ObjectType" ->
               <<"{">> \o Joined(Each(k, style), ";")
                 \o (IF style.careful /\ k # <<>> THEN <<";">> ELSE <<>>) \o <<"}">>
          [] t.kind = "ObjectTypeField" -> Show(k[1], style) \o <<k[2].text, ":">> \o Show(k[3], style)
          [] t.kind \in {"ObjectIndexSignature", "InterfaceIndexSignature"} ->
               <<"[", k[1].text, ":">> \o Show(k[2], style) \o <<"]", ":">> \o Show(k[3], style)
                 \o (IF t.kind = "InterfaceIndexSignature" THEN <<";">> ELSE <<>>)
          [] t.kind = "MappedType" ->
               <<"{">> \o Show(k[1], style) \o <<"[", k[2].text, "in">> \o Show(k[3], style)
                 \o <<"]", ":">> \o Show(k[4], style) \o <<"}">>
          [] t.kind = "FunctionType" ->
               Show(k[1], style) \o Parenthesized(Joined(Each(k[2].kids, style), ",")) \o <<"=>">>
                 \o Show(k[3], style)

-----------------------------------------------------------------------------
\* The target of an assignment is a path: it has no operands to put in
\* parentheses.
PrintAssignable(target, style) == Show(target, Printed(style.narrow))

\* A declaration or an assignment without its semicolon, as in the head of a
\* for: printForInit and printForUpdate.
PrintSimple(s, style) ==
    LET k == s.kids
    IN  CASE s.kind = "none" -> <<>>
          [] s.kind = "VariableDeclaration" ->
               <<k[1].text>> \o Show(k[2], style) \o After(":", k[3], style) \o After("=", k[4], style)
          [] s.kind = "AssignmentStatement" -> PrintAssignable(k[1], style) \o <<k[2].text>> \o Show(k[3], style)
          [] s.kind = "UpdateStatement" -> <<k[1].text, k[2].text>>

RECURSIVE PrintIf(_, _, _)
PrintIf(word, k, style) ==
    <<word, "(">> \o Show(k[1], style) \o <<")">> \o PrintBlock(k[2], style)
      \o (CASE k[3] = None -> <<>>
            [] k[3].kind = "Block" -> <<"else">> \o PrintBlock(k[3], style)
            [] OTHER -> PrintIf("elseif", k[3].kids, style))

PrintStatement(s, style) ==
    LET k == s.kids
    IN  CASE s.kind \in {"VariableDeclaration", "AssignmentStatement", "UpdateStatement"} ->
               PrintSimple(s, style) \o <<";">>
          [] s.kind = "ArrayBindingPattern" ->
               <<"[">> \o Spaced([i \in DOMAIN k |-> IF k[i] = None THEN <<>> ELSE <<k[i].text>>])
                 \o (IF style.careful THEN <<",">> ELSE <<>>) \o <<"]">>
          [] s.kind = "ExpressionStatement" -> Show(k[1], style) \o <<";">>
          [] s.kind = "ReturnStatement" -> <<"return">> \o Show(k[1], style) \o <<";">>
          [] s.kind = "IfStatement" -> PrintIf("if", k, style)
          [] s.kind = "WhileStatement" ->
               <<"while", "(">> \o Show(k[1], style) \o <<")">> \o PrintBlock(k[2], style)
          [] s.kind = "ForStatement" ->
               <<"for", "(">> \o PrintSimple(k[1], style) \o <<";">> \o Show(k[2], style) \o <<";">>
                 \o PrintSimple(k[3], style) \o <<")">> \o PrintBlock(k[4], style)
          [] s.kind = "ForInStatement" ->
               <<"for", "(">> \o Show(k[1], style) \o <<k[2].text, "in">> \o Show(k[3], style) \o <<")">>
                 \o PrintBlock(k[4], style)
          [] s.kind = "SwitchStatement" ->
               <<"switch", "(">> \o Show(k[1], style) \o <<")", "{">> \o All(Tail(k), style) \o <<"}">>
          [] s.kind = "SwitchCase" ->
               (IF k[1] = None THEN <<"default">> ELSE <<"case">> \o Show(k[1], style)) \o <<":">>
                 \o All(k[2].kids, style)
          [] s.kind = "BreakStatement" -> <<"break", ";">>
          [] s.kind = "ContinueStatement" -> <<"continue", ";">>
          [] s.kind = "ThrowStatement" -> <<"throw">> \o Show(k[1], style) \o <<";">>
          [] s.kind = "TryStatement" ->
               <<"try">> \o PrintBlock(k[1], style) \o Show(k[2], style) \o After("finally", k[3], style)
          [] s.kind = "CatchClause" -> <<"catch", "(", k[1].text, ")">> \o PrintBlock(k[2], style)
          [] s.kind = "UnsafeBlock" -> <<"unsafe">> \o PrintBlock(k[1], style)
          [] s.kind = "Block" -> PrintBlock(s, style)

-----------------------------------------------------------------------------
PrintTypeParams(t, style) == TypeArgs(t, style)

PrintSignature(k, style) ==
    <<k[1].text>> \o PrintTypeParams(k[2], style) \o PrintParamList(k[3], style) \o <<":">> \o Show(k[4], style)

\* A body, or the semicolon in its place.
BodyOr(body, style) == IF body = None THEN <<";">> ELSE PrintBlock(body, style)

PrintNamedTypes(word, list, style) ==
    IF list.kids = <<>> THEN <<>> ELSE <<word>> \o Joined(Each(list.kids, style), ",")

\* The modifiers come in another order than the parser reads them in:
\* "static" before "abstract".
PrintClassMember(k, style) ==
    LET modifiers == CASE style.careful -> SubSeq(k, 1, 5)
                       [] ~style.careful /\ k[6].kind = "ClassMethod" -> <<k[1], k[3], k[2], k[5]>>
                       [] OTHER -> <<k[1], k[3], k[4]>>
        m == k[6].kids
    IN  All(modifiers, style)
          \o (CASE k[6].kind = "ClassField" ->
                     <<m[1].text, ":">> \o Show(m[2], style) \o After("=", m[3], style) \o <<";">>
                [] k[6].kind = "ClassMethod" -> PrintSignature(m, style) \o BodyOr(m[5], style)
                [] k[6].kind = "ConstructorDeclaration" ->
                     <<"constructor">> \o PrintParamList(m[1], style) \o PrintBlock(m[2], style))

PrintStruct(k, style) ==
    LET members == Tail(Tail(k))
        of(kind) == SelectSeq(members, LAMBDA member : member.kind = kind)
    IN  <<"struct", k[1].text>> \o PrintTypeParams(k[2], style) \o <<"{">>
          \o All(IF style.careful THEN members ELSE of("StructField") \o of("StructMethod"), style) \o <<"}">>

PrintClass(k, style) ==
    <<"class", k[1].text>> \o PrintTypeParams(k[2], style) \o After("extends", k[3], style)
      \o PrintNamedTypes("implements", k[4], style) \o <<"{">> \o All(SubSeq(k, 5, Len(k)), style) \o <<"}">>

PrintInterface(k, style) ==
    <<"interface", k[1].text>> \o PrintTypeParams(k[2], style) \o PrintNamedTypes("extends", k[3], style)
      \o <<"{">> \o All(SubSeq(k, 4, Len(k)), style) \o <<"}">>

PrintImport(d, style) ==
    LET k == d.kids
    IN  CASE d.kind = "PathImport" -> <<"import", k[1].text>> \o After("as", k[2], style) \o <<";">>
          [] d.kind = "StarImport" -> <<"import", "*", "as", k[1].text, "from", k[2].text, ";">>
          [] d.kind = "NamedImports" ->
               <<"import", "{">> \o PrintItems(k[1], 2, style) \o <<"}", "from", k[2].text, ";">>

PrintTopLevel(d, style) ==
    LET k == d.kids
    IN  CASE d.kind = "Declaration" -> All(k[1].kids, style) \o All(Tail(k), style)
          [] d.kind = "Attribute" ->
               <<"@", k[1].text>> \o (IF k[2] = None THEN <<>> ELSE Parenthesized(<<k[2].text>>))
          [] d.kind \in {"PathImport", "StarImport", "NamedImports"} -> PrintImport(d, style)
          [] d.kind = "ExportAllFromDeclaration" -> <<"export", "*", "from", k[1].text, ";">>
          [] d.kind = "ExportNamedFromDeclaration" ->
               <<"export", "{">> \o Joined(Each(k[1].kids, style), ",") \o <<"}", "from", k[2].text, ";">>
          [] d.kind \in {"ImportSpecifier", "ExportSpecifier"} -> <<k[1].text>> \o After("as", k[2], style)
          [] d.kind = "FunctionDeclaration" -> <<"function">> \o PrintSignature(k, style) \o BodyOr(k[5], style)
          [] d.kind = "Parameter" -> <<k[1].text, ":">> \o Show(k[2], style) \o After("=", k[3], style)
          [] d.kind = "TypeParameter" -> <<k[1].text>> \o After("extends", k[2], style)
          [] d.kind = "StructDeclaration" -> PrintStruct(k, style)
          [] d.kind = "StructField" -> <<k[1].text, ":">> \o Show(k[2], style) \o <<";">>
          [] d.kind = "StructMethod" -> PrintSignature(k, style) \o PrintBlock(k[5], style)
          [] d.kind = "EnumDeclaration" ->
               <<"enum", k[1].text, "{">> \o FlattenSeq([i \in DOMAIN Tail(k) |-> <<k[i + 1].text, ",">>]) \o <<"}">>
          [] d.kind = "ClassDeclaration" -> PrintClass(k, style)
          [] d.kind = "ClassMember" -> PrintClassMember(k, style)
          [] d.kind = "InterfaceDeclaration" -> PrintInterface(k, style)
          [] d.kind = "InterfaceMethodSignature" -> Show(k[1], style) \o PrintSignature(Tail(k), style) \o <<";">>
          [] d.kind = "TypeAliasDeclaration" ->
               <<"type", k[1].text>> \o PrintTypeParams(k[2], style) \o <<"=">> \o Show(k[3], style) \o <<";">>
          [] d.kind = "ModuleVariableDeclaration" ->
               <<k[1].text, k[2].text>> \o After(":", k[3], style) \o After("=", k[4], style) \o <<";">>

-----------------------------------------------------------------------------
\* imports.ts: modules of std first, then of packages, then of the project,
\* each group by name.
ImportRank(path) ==
    CASE path = "'std/m'" -> 0 [] path = "'p'" -> 1 [] path = "'s'" -> 2 [] path = "'./m'" -> 3

IsImport(d) == d.kind \in {"PathImport", "StarImport", "NamedImports"}
ImportPath(d) == IF d.kind = "PathImport" THEN d.kids[1].text ELSE d.kids[2].text

\* A mistake: an import is put before those of its group.
ReorderNewestFirst(body) ==
    LET group(rank) == SelectSeq(body, LAMBDA d : IsImport(d) /\ ImportRank(ImportPath(d)) = rank)
    IN  FlattenSeq([rank \in 1..4 |-> Reverse(group(rank - 1))]) \o SelectSeq(body, LAMBDA d : ~IsImport(d))

ReorderTopLevel(body) ==
    LET imports == SelectSeq(body, IsImport)
        rest == SelectSeq(body, LAMBDA d : ~IsImport(d))
    IN  FlattenSeq([rank \in 1..4 |-> SelectSeq(imports, LAMBDA d : ImportRank(ImportPath(d)) = rank - 1)]) \o rest

PrintProgram(program, style) ==
    All(IF style.careful THEN program.kids ELSE ReorderTopLevel(program.kids), style)

TypeKinds == {"ArrayType", "FixedArrayType", "IndexedAccessType", "PtrType", "FnPtrType", "TupleType",
    "NamedType", "UnionType", "IntersectionType", "KeyofType", "TypeofType", "ConditionalType", "ObjectType",
    "ObjectTypeField", "ObjectIndexSignature", "InterfaceIndexSignature", "MappedType", "FunctionType"}

StatementKinds == {"VariableDeclaration", "AssignmentStatement", "UpdateStatement", "ArrayBindingPattern",
    "ExpressionStatement", "ReturnStatement", "IfStatement", "WhileStatement", "ForStatement",
    "ForInStatement", "SwitchStatement", "SwitchCase", "BreakStatement", "ContinueStatement",
    "ThrowStatement", "TryStatement", "CatchClause", "UnsafeBlock", "Block"}

TopLevelKinds == {"Declaration", "Attribute", "PathImport", "StarImport", "NamedImports",
    "ExportAllFromDeclaration", "ExportNamedFromDeclaration", "ImportSpecifier", "ExportSpecifier",
    "FunctionDeclaration", "Parameter", "TypeParameter", "StructDeclaration", "StructField",
    "StructMethod", "EnumDeclaration", "ClassDeclaration", "ClassMember", "InterfaceDeclaration",
    "InterfaceMethodSignature", "TypeAliasDeclaration", "ModuleVariableDeclaration"}

Show(t, style) ==
    CASE t.kind = "none" -> <<>>
      [] t.kind = "Program" -> PrintProgram(t, style)
      [] t.kind \in TypeKinds -> PrintType(t, style)
      [] t.kind \in StatementKinds -> PrintStatement(t, style)
      [] t.kind \in TopLevelKinds -> PrintTopLevel(t, style)
      [] t.kids = <<>> /\ t.text # "" -> <<t.text>>
      [] OTHER -> PrintExpr(t, style)
=============================================================================
