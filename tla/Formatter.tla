----------------------------- MODULE Formatter -----------------------------
(***************************************************************************)
(* A source file that is written by hand and formatted on every save:      *)
(* formatSource of src/packages/compiler/src/format/format.ts, which reads *)
(* the text with Parser and prints the tree with Printer, as "sn fmt" and  *)
(* the language server call it.                                            *)
(***************************************************************************)
EXTENDS Parser, Printer

CONSTANTS
    Programs,   \* trees of programs a programmer may have in mind
    Operands,   \* trees without operators
    Operators,  \* binary operators
    MaxChain    \* operators in an expression written without parentheses

VARIABLES
    program,    \* the tree the programmer has in mind
    narrow,     \* whether the lists of the program exceed the width of a line
    source,     \* the tokens of the file
    saves       \* formatted so often

vars == <<program, narrow, source, saves>>

-----------------------------------------------------------------------------
(* An expression written without any parentheses, and what it means by the *)
(* table of precedences of the language's specification: split it at the   *)
(* last of its loosest operators.                                          *)

Tightness == <<{"||"}, {"??"}, {"&&"}, {"==", "!="}, {"<", "<=", ">", ">="}, {"+", "-"}, {"*", "/", "%"}>>

Level(operator) == CHOOSE i \in DOMAIN Tightness : operator \in Tightness[i]

Chains ==
    UNION {[operands : [1..n + 1 -> Operands], operators : [1..n -> Operators]] : n \in 1..MaxChain}

Flat(c) ==
    FlattenSeq([i \in DOMAIN c.operands |->
        (IF i = 1 THEN <<>> ELSE <<c.operators[i - 1]>>) \o Show(c.operands[i], Careful)])

Operation(operator, left, right) ==
    IF operator = "??" THEN Node("NullCoalescingExpression", <<left, right>>)
    ELSE Node("BinaryExpression", <<left, Leaf(operator, operator), right>>)

RECURSIVE Grouped(_)
Grouped(c) ==
    LET n == Len(c.operators)
        at == CHOOSE i \in 1..n : \A j \in 1..n :
                  Level(c.operators[i]) < Level(c.operators[j]) + (IF j <= i THEN 1 ELSE 0)
        part(from, to) == [operands |-> SubSeq(c.operands, from, to),
                           operators |-> SubSeq(c.operators, from, to - 1)]
    IN  IF n = 0 THEN c.operands[1]
        ELSE Operation(c.operators[at], Grouped(part(1, at)), Grouped(part(at + 1, n + 1)))

\* const x = e;
Constant(e) ==
    Node("Program", <<Node("Declaration",
        <<Node("List", <<>>), None, None, None, None, None,
          Node("ModuleVariableDeclaration", <<Leaf("const", "const"), Leaf("Identifier", "x"), None, e>>)>>)>>)

-----------------------------------------------------------------------------
Init ==
    /\ saves = 0
    /\ narrow \in BOOLEAN
    /\ \/ program \in Programs /\ source = Show(program, Careful)
       \/ \E c \in Chains :
            /\ program = Constant(Grouped(c))
            /\ source = <<"const", "x", "=">> \o Flat(c) \o <<";">>

\* Whatever of the file could be read is printed.
FormatSource == Show(Parse(source).tree, Printed(narrow))

Save ==
    /\ saves < 2
    /\ source' = FormatSource
    /\ saves' = saves + 1
    /\ UNCHANGED <<program, narrow>>

Spec == Init /\ [][Save]_vars

-----------------------------------------------------------------------------
(* What formatting may change: the order of imports (by group and name)    *)
(* and of the members of a struct, and the end of an array binding.        *)

FieldsFirst(d) ==
    IF d.kind = "Declaration" /\ d.kids[7].kind = "StructDeclaration"
    THEN LET k == d.kids[7].kids
             members == SubSeq(k, 3, Len(k))
             of(kind) == SelectSeq(members, LAMBDA member : member.kind = kind)
         IN  [d EXCEPT !.kids[7].kids = SubSeq(k, 1, 2) \o of("StructField") \o of("StructMethod")]
    ELSE d

Imported(body) == [d \in {body[i] : i \in DOMAIN body} |-> Cardinality({i \in DOMAIN body : body[i] = d})]

\* The same program up to that order; what is no import stays in its order.
SameProgram(p, q) ==
    LET fixed(t) == [i \in DOMAIN t.kids |-> FieldsFirst(t.kids[i])]
        others(body) == SelectSeq(body, LAMBDA d : ~IsImport(d))
    IN  /\ Imported(fixed(p)) = Imported(fixed(q))
        /\ others(fixed(p)) = others(fixed(q))

-----------------------------------------------------------------------------
(* Where the printed text means something else.  The printer knows no      *)
(* precedence for what is applied to an operand from the right, none for   *)
(* "as" and "is" that agrees with the parser's, and none for types; such   *)
(* programs are set apart here.                                            *)

Applied == {"IndexExpression", "OptionalIndex", "MemberExpression", "OptionalMember",
            "CallExpression", "OptionalCall", "NonNullExpression"}
Tight(e) ==
    \/ e.kids = <<>>
    \/ e.kind \in Applied /\ (e.kind = "CallExpression" => e.kids[1].text # "super")
    \/ e.kind \in {"ArrayLiteral", "StructLiteral", "TemplateLiteral", "NewExpression"}
Binds(e) == e.kind \in {"BinaryExpression", "NullCoalescingExpression", "IsExpression"}
Tested(e) ==
    /\ e.kind # "NullCoalescingExpression"
    /\ e.kind = "BinaryExpression" => BinaryPrecedence(e.kids[2].text) >= 90
Opens(e) == e.kind = "LambdaExpression"
Minus(e) == e.kind = "UnaryExpression" /\ e.kids[1].text = "-"
Disjoined(e) == e.kind = "BinaryExpression" /\ e.kids[2].text = "||"
Compared(e, sign) == e.kind = "BinaryExpression" /\ e.kids[2].text = sign

LooseTypes == {"UnionType", "IntersectionType", "ConditionalType", "FunctionType"}

\* The expression a statement starts with, were it printed.
RECURSIVE Leftmost(_)
Leftmost(e) == IF e.kind \in Applied /\ e.kids[1].kids # <<>> THEN Leftmost(e.kids[1]) ELSE e

Starts(e) ==
    LET first == Leftmost(e)
    IN  first # e => ~(first.kids[1].kind = "Identifier"
                         /\ first.kind \in {"CallExpression", "IndexExpression"})

Survives(t) ==
    LET k == t.kids
    IN  CASE t.kind \in Applied ->
               Tight(k[1]) /\ ~(t.kind = "CallExpression" /\ k[1].kind = "OptionalMember")
          [] t.kind = "TypeofExpression" -> ~Opens(k[1]) /\ ~Binds(k[1]) /\ k[1].kind # "CastExpression"
          [] t.kind = "AwaitExpression" -> ~Opens(k[1])
          [] t.kind = "UnaryExpression" -> ~Opens(k[2]) /\ ~(Minus(t) /\ Minus(k[2]))
          [] t.kind = "CastExpression" ->
               ~Opens(k[1]) /\ (Binds(k[1]) => ExprPrecedence(k[1]) < CastPrecedence)
          [] t.kind = "IsExpression" -> ~Opens(k[1]) /\ Tested(k[1])
          [] t.kind = "BinaryExpression" ->
               /\ ~Opens(k[1]) /\ ~Opens(k[3])
               /\ ~(k[2].text = ">" /\ Compared(k[1], "<") /\ Binds(k[3]))
          [] t.kind = "NullCoalescingExpression" ->
               \A i \in {1, 2} : ~Opens(k[i]) /\ ~Disjoined(k[i])
          [] t.kind \in {"ArrayType", "FixedArrayType", "IndexedAccessType", "KeyofType"} ->
               k[1].kind \notin LooseTypes /\ (k[1].kind = "KeyofType" => t.kind = "KeyofType")
          [] t.kind \in {"UnionType", "IntersectionType"} ->
               \A i \in DOMAIN k :
                   k[i].kind \in LooseTypes => k[i].kind = "IntersectionType" /\ t.kind = "UnionType"
          [] t.kind = "ConditionalType" -> k[1].kind \notin LooseTypes
          [] t.kind = "ObjectType" -> k = <<>> \/ k[Len(k)].kind # "ObjectTypeField"
          [] t.kind = "ExpressionStatement" -> Starts(k[1])
          [] t.kind = "ArrayBindingPattern" -> k = <<>> \/ k[Len(k)] # None
          [] t.kind = "ClassMember" -> k[2] = None \/ k[3] = None
          [] OTHER -> TRUE

RECURSIVE AllSurvive(_)
AllSurvive(t) == Survives(t) /\ \A i \in DOMAIN t.kids : AllSurvive(t.kids[i])

-----------------------------------------------------------------------------
(* The parser reads every program back from a text of it, whether each     *)
(* operand has parentheses or the grouping is left to the precedences; it  *)
(* reports nothing.  Its lookaheads (lambdas, generic calls, assignments,  *)
(* struct literals) must take no construct for another.                    *)
ReadBack ==
    saves = 0 => Parse(source) = [clean |-> TRUE, tree |-> program]

(* Formatting keeps the program: what a save writes is read without errors *)
(* and is the program that was written, through any number of saves.       *)
KeepsProgram ==
    saves > 0 /\ AllSurvive(program) =>
        LET read == Parse(source) IN read.clean /\ SameProgram(read.tree, program)

(* Saving a formatted file once more does not change it.                   *)
Settled == [][saves > 0 /\ AllSurvive(program) => source' = source]_vars
=============================================================================
