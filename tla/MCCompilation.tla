---------------------------- MODULE MCCompilation ----------------------------
(* Programs for Compilation, written as tokens: frames of declarations     *)
(* with places for a type, a condition and values.                         *)
EXTENDS Compilation

Function(f, params, result, body) ==
  <<"function", f, "(">> \o params \o <<")", ":">> \o result \o <<"{">> \o body \o <<"}">>
Return(e) == <<"return">> \o e \o <<";">>
If(condition, then) == <<"if", "(">> \o condition \o <<")", "{">> \o then \o <<"}">>
Main(result, e) == Function("m", <<>>, result, Return(e))

\* Classes: what stands before the brace, and members.
ClassNamed(head, members) == <<"class">> \o head \o <<"{">> \o members \o <<"}">>
Answer(method, e) == <<method, "(", ")", ":", "i32", "{", "return">> \o e \o <<";", "}">>
WithNumber ==
  <<"n", ":", "i32", ";",
    "constructor", "(", "n", ":", "i32", ")", "{", "this", ".", "n", "=", "n", ";", "}">>
ByNumber == <<"constructor", "(", "n", ":", "i32", ")", "{", "super", "(", "n", ")", ";", "}">>

\* A class with a number, and one that overrides its method.
ClassA == ClassNamed(<<"A">>, WithNumber \o Answer("run", <<"this", ".", "n">>))
ClassB == ClassNamed(<<"B", "extends", "A">>, ByNumber \o Answer("run", <<"2">>))
New(c) == <<"new", c, "(", "1", ")">>

-----------------------------------------------------------------------------
(* A value of a type, tested and used:                                     *)
(*   function f(x: T): R { if (C) { return U; } return V; }                *)

Tested(prelude, T, R, C, U, V, X) ==
  prelude \o Function("f", <<"x", ":">> \o T, R, If(C, Return(U)) \o Return(V))
    \o Main(R, <<"f", "(">> \o X \o <<")">>)

\* Either branch uses x, the other one is plain.
Branches(prelude, T, values, tests, R, uses, plain) ==
  {Tested(prelude, T, R, C, U, plain, X) : C \in tests, U \in uses, X \in values}
  \union {Tested(prelude, T, R, C, plain, V, X) : C \in tests, V \in uses, X \in values}

NullTests == {<<"x", "==", "null">>, <<"null", "!=", "x">>, <<"!", "(", "x", "==", "null", ")">>, <<"x", "is", "null">>}
Tag(t) == {<<"typeof", "x", "==", t>>, <<t, "!=", "typeof", "x">>}
Is(t) == {<<"x", "is", t>>, <<"!", "(", "x", "is", t, ")">>}

i32 == <<"i32">>
string == <<"string">>
x == <<"x">>
One == <<"1">>
s == <<"'s'">>
Or(t, u) == t \o <<"|">> \o u
null == <<"null">>

Narrowings ==
  Branches(<<>>, Or(i32, null), {One, null}, NullTests \union Tag("'i32'") \union Is("i32"), i32,
           {x, <<"x", "!">>, <<"x", "??", "2">>}, One)
  \union
  Branches(<<>>, Or(i32, string), {One, s}, Tag("'string'") \union Is("i32"), i32, {x, <<"x", ".", "length">>}, One)
  \union
  Branches(<<>>, Or(Or(i32, string), null), {One, s, null}, NullTests \union Tag("'string'") \union Is("i32"), Or(i32, null), {x}, One)
  \union
  Branches(<<>>, Or(string, null), {s, null}, NullTests, string, {x, <<"x", "??", "'t'">>}, s)
  \union
  Branches(ClassA \o ClassB, Or(<<"A">>, null), {New("A"), New("B"), null}, NullTests \union Is("B"), i32,
           {<<"x", ".", "n">>, <<"x", "?.", "n", "??", "1">>, <<"x", "?.", "run", "(", ")", "??", "3">>}, One)
  \union
  Branches(ClassA \o ClassB, Or(<<"A">>, null), {New("A"), New("B"), null}, NullTests, i32, {<<"x", "!", ".", "run", "(", ")">>}, One)
  \union
  Branches(ClassA \o ClassB, <<"A">>, {New("A"), New("B")}, Is("B"), <<"A">>, {x}, New("A"))

\* Two tests: of a disjunction what is false where it fails, of a conjunction
\* what is true where it holds, and one after the other.
Twice ==
  LET T == Or(Or(i32, string), null)
      nulls == {<<"x", "==", "null">>, <<"null", "!=", "x">>}
      tags == Tag("'string'") \union Is("i32")
      bodies(c, d, plain) ==
        {If(c \o <<"||">> \o d, Return(plain)) \o Return(x),
         If(c \o <<"&&">> \o d, Return(x)) \o Return(plain),
         If(c, Return(plain)) \o <<"elseif", "(">> \o d \o <<")", "{">> \o Return(x) \o <<"}">> \o Return(plain),
         If(c, Return(x)) \o <<"elseif", "(">> \o d \o <<")", "{">> \o Return(plain) \o <<"}", "else", "{">> \o Return(x) \o <<"}">>}
  IN UNION {{Function("f", <<"x", ":">> \o T, R[1], b) \o Main(R[1], <<"f", "(">> \o X \o <<")">>) :
               b \in UNION {bodies(c, d, R[2]) \union bodies(d, c, R[2]) : c \in nulls, d \in tags}, X \in {One, s, null}} :
             R \in {<<Or(i32, null), null>>, <<string, s>>}}

-----------------------------------------------------------------------------
(* A value of one type where another is expected: assigned to a variable,  *)
(* passed, returned, put in an array.                                      *)

Passed(prelude, T, U, X) ==
  {prelude \o Function("f", <<"x", ":">> \o T, U, Return(x)) \o Main(U, <<"f", "(">> \o X \o <<")">>),
   prelude \o Function("f", <<"x", ":">> \o T, U, <<"let", "y", ":">> \o U \o <<"=", "x", ";">> \o Return(<<"y">>))
     \o Main(U, <<"f", "(">> \o X \o <<")">>),
   prelude \o Function("f", <<"x", ":">> \o T, U \o <<"[", "]">>, Return(<<"[", "x", "]">>))
     \o Main(U \o <<"[", "]">>, <<"f", "(">> \o X \o <<")">>)}

Drawn == <<"interface", "I", "{", "run", "(", ")", ":", "i32", ";", "}">>
ClassC == ClassNamed(<<"C", "extends", "A", "implements", "I">>, ByNumber \o Answer("run", <<"3">>))
Hierarchy == Drawn \o ClassA \o ClassB \o ClassC

Values1 == {<<i32, One>>, <<string, s>>, <<<<"bool">>, <<"true">>>>, <<null, null>>,
            <<Or(i32, string), One>>, <<Or(i32, null), null>>, <<Or(string, null), s>>}
ClassValues == {<<<<c>>, New(c)>> : c \in {"A", "B", "C"}} \union {<<<<"I">>, New("C")>>, <<Or(<<"A">>, null), New("B")>>}

Conversions ==
  UNION {Passed(<<>>, v[1], w[1], v[2]) : v \in Values1, w \in Values1}
  \union UNION {Passed(Hierarchy, v[1], w[1], v[2]) : v \in ClassValues, w \in ClassValues}

-----------------------------------------------------------------------------
(* Methods: a chain of classes, each of which may leave a method alone,    *)
(* override it, or declare it first; an object of one class is called      *)
(* through another, or through an interface.                               *)

Overrides(methods, digit) == FlattenSeq([k \in DOMAIN methods |-> Answer(methods[k], <<digit>>)])
Extends(c, base, methods, digit) == ClassNamed(<<c, "extends", base>>, Overrides(methods, digit))
Overridden == {<<>>, <<"run">>, <<"f">>, <<"f", "run">>}

\* m(): i32 { let x: T = new D(); return x.run(); }
Calls(prelude, T, d, method) ==
  prelude \o Function("m", <<>>, i32, <<"let", "x", ":", T, "=", "new", d, "(", ")", ";">>
                                       \o Return(<<"x", ".", method, "(", ")">>))

Chained ==
  {Calls(ClassNamed(<<"A">>, Overrides(first, "1")) \o Extends("B", "A", second, "2") \o Extends("C", "B", third, "3"),
         T, d, method) :
     first \in Overridden, second \in Overridden, third \in Overridden \ {<<"f", "run">>},
     T \in {"A", "B"}, d \in {"B", "C"}, method \in {"run", "f"}}

\* An abstract method, called by one that is inherited.
Abstracts ==
  {<<"abstract">> \o ClassNamed(<<"A">>, <<"abstract", "run", "(", ")", ":", "i32", ";">> \o Answer("f", <<"this", ".", "run", "(", ")">>))
     \o Extends("B", "A", second, "2") \o Extends("C", "B", third, "3")
     \o Main(i32, <<"new", d, "(", ")", ".", "f", "(", ")">>) :
     second \in Overridden, third \in Overridden, d \in {"A", "B", "C"}}

\* Interfaces that extend one another; the object's class has them in another order.
Signatures1(methods) == FlattenSeq([k \in DOMAIN methods |-> <<methods[k], "(", ")", ":", "i32", ";">>])
Interfaces ==
  {<<"interface", "J", "{">> \o Signatures1(base) \o <<"}", "interface", "I", "extends", "J", "{">> \o Signatures1(own) \o <<"}">>
     \o ClassNamed(<<"C", "implements">> \o named, Overrides(order, "1") \o Answer("g", <<"3">>))
     \o Function("f", <<"x", ":", from>>, i32, <<"let", "y", ":", to, "=", "x", ";">> \o Return(<<"y", ".", method, "(", ")">>))
     \o Main(i32, <<"f", "(", "new", "C", "(", ")", ")">>) :
     base \in {<<"run">>, <<"run", "n">>}, own \in {<<>>, <<"g">>}, named \in {<<"I">>, <<"J">>},
     order \in {<<"n", "run">>, <<"run">>}, from \in {"C", "I", "J"}, to \in {"I", "J"}, method \in {"run", "g"}}

-----------------------------------------------------------------------------
(* Variables that change after they were tested, and loops.                *)

Let(y, T, e) == <<"let", y, ":">> \o T \o <<"=">> \o e \o <<";">>
Set(y, e) == <<y, "=">> \o e \o <<";">>
OptionalA == Or(<<"A">>, null)
Steps == {<<>>, Return(One), Set("y", null), Set("y", New("A")), Set("y", x)}
Field1 == Return(<<"y", ".", "n">>)

\* let y: A | null = x; if (y == null) { S } S' return y.n;
Changed ==
  {ClassA \o Function("f", <<"x", ":">> \o OptionalA, i32, Let("y", OptionalA, x) \o body)
     \o Main(i32, <<"f", "(">> \o X \o <<")">>) :
     X \in {null, New("A")},
     body \in {If(<<"y", "==", "null">>, first) \o second \o Field1 : first \in Steps, second \in Steps}
       \union {If(<<"y", "!=", "null">>, first \o second \o Field1) \o Return(One) : first \in Steps, second \in Steps}
       \union {<<"while", "(", "y", "!=", "null", ")", "{">> \o first \o <<"break", ";", "}">> \o second \o Field1 : first \in Steps, second \in Steps}
       \union {If(<<"y", "==", "null", "||", "x", "==", "null">>, first) \o Return(<<z, ".", "n">>) : first \in Steps, z \in {"x", "y"}}}

\* A loop over 0, 1, 2 that adds what it has not skipped.
Loops ==
  {Function("f", <<"x", ":", "i32", "[", "]">>, i32,
            <<"let", "y", "=", "0", ";">> \o loop[1] \o If(<<"n", "==", k>>, <<jump, ";">>) \o loop[2] \o Return(<<"y">>))
     \o Main(i32, <<"f", "(", "[", "0", ",", "1", ",", "2", "]", ")">>) :
     loop \in {<<<<"for", "(", "let", "n", "=", "0", ";", "n", "<", "3", ";", "n", "++", ")", "{">>, <<"y", "+=", "n", ";", "}">>>>,
               <<<<"for", "(", "n", "in", "x", ")", "{">>, <<"y", "+=", "n", ";", "}">>>>,
               <<<<"let", "n", "=", "0", ";", "while", "(", "n", "<", "3", ")", "{", "n", "++", ";">>, <<"y", "=", "y", "+", "x", "[", "n", "-", "1", "]", ";", "}">>>>},
     k \in {"0", "2", "'s'"}, jump \in {"break", "continue"}}

\* A switch: labels, bodies that may run on into the next, and a default.
Case(label, body) == <<"case">> \o label \o <<":">> \o body
Bodies == {<<>>, Return(<<"2">>), <<"y", "=", "3", ";", "break", ";">>}
Switches ==
  {Function("f", <<"x", ":">> \o t[1], i32,
            <<"let", "y", "=", "0", ";", "switch", "(", "x", ")", "{">> \o Case(t[2], first) \o Case(t[3], second)
              \o <<"default", ":">> \o third \o <<"}">> \o Return(<<"y">>))
     \o Main(i32, <<"f", "(", X, ")">>) :
     t \in {<<i32, One, <<"2">>>>, <<string, s, <<"'t'">>>>, <<i32, One, One>>}, first \in Bodies, second \in Bodies,
     third \in Bodies, X \in {"1", "2", "'s'"}}

-----------------------------------------------------------------------------
(* Arguments by place, by name and by default.                             *)

ArgumentLists ==
  {<<>>, One, <<"1", ",", "'s'">>, <<"y", ":", "'s'", ",", "x", ":", "2">>, <<"y", ":", "'s'">>, <<"1", ",", "y", ":", "'t'">>,
   <<"x", ":", "1", ",", "'s'">>, <<"1", ",", "x", ":", "2">>, <<"1", ",", "n", ":", "2">>, <<"1", ",", "'s'", ",", "2">>}

Passing ==
  {Function("f", <<"x", ":", "i32">> \o first \o <<",", "y", ":">> \o Or(string, null) \o second, result[1], Return(result[2]))
     \o Main(result[1], <<"f", "(">> \o args \o <<")">>) :
     first \in {<<>>, <<"=", "3">>, <<"=", "'s'">>}, second \in {<<>>, <<"=", "null">>, <<"=", "'t'">>},
     result \in {<<i32, x>>, <<Or(string, null), <<"y">>>>}, args \in ArgumentLists}

-----------------------------------------------------------------------------
(* What is stored and read back: a field, a static field, an element, a    *)
(* variable of the module.                                                 *)

Stores(T, X, R) ==
  {ClassNamed(<<"C">>, <<"x", ":">> \o T \o <<";", "constructor", "(", "x", ":">> \o T \o <<")", "{", "this", ".">> \o Set("x", x) \o <<"}">>)
     \o Function("m", <<>>, R, <<"let", "y", "=", "new", "C", "(">> \o X \o <<")", ";", "y", ".">> \o Set("x", X) \o Return(<<"y", ".", "x">>)),
   ClassNamed(<<"C">>, <<"static", "x", ":">> \o T \o <<";">>)
     \o Function("m", <<>>, R, <<"C", ".">> \o Set("x", X) \o Return(<<"C", ".", "x">>)),
   Function("m", <<>>, R, Let("y", <<"(">> \o T \o <<")", "[", "]">>, <<"[">> \o X \o <<"]">>)
                            \o <<"y", "[", "0", "]", "=">> \o X \o <<";">> \o Return(<<"y", "[", "0", "]">>))}
Module(T, X, R) == Let("T", T, X) \o Function("m", <<>>, R, Set("T", X) \o Return(<<"T">>))

Stored1 == {<<i32, One>>, <<string, s>>, <<Or(i32, null), null>>, <<Or(i32, string), s>>,
            <<<<"A">>, New("B")>>, <<<<"B">>, New("B")>>, <<Or(<<"A">>, null), null>>, <<Or(<<"A">>, null), New("B")>>}
Kept1 == {v \in Stored1 : v[1] \notin {Or(i32, null), Or(i32, string)}}
Storing ==
  UNION {{ClassA \o ClassB \o p : p \in Stores(v[1], v[2], w[1]) \union Stores(w[1], v[2], w[1])} : v \in Stored1, w \in Stored1}
  \union {ClassA \o ClassB \o Module(v[1], w[2], u[1]) : v \in Kept1, w \in Kept1, u \in Kept1}

-----------------------------------------------------------------------------
(* Literal types and enums.                                                *)

Enum == <<"enum", "E", "{", "K", ",", "T", "}">>
Letters == Or(s, <<"'t'">>)
Places == Or(One, <<"2">>)
Literals == {<<"E">>, Letters, Places, i32, string}
Constants ==
  {Enum \o Function("f", <<"x", ":">> \o types[1], types[2], Return(E)) \o Main(types[2], <<"f", "(">> \o X \o <<")">>) :
     types \in (Literals \X Literals) \ {<<Letters, string>>, <<Places, i32>>}, E \in {<<"E", ".", "K">>, <<"'t'">>, <<"2">>, x}, X \in {<<"E", ".", "T">>, s, <<"3">>, One}}
  \union
  {Enum \o Function("f", <<"x", ":", "E">>, i32,
                     <<"switch", "(", "x", ")", "{">> \o Case(<<"E", ".", "K">>, first) \o Case(label, second) \o <<"}">> \o Return(<<"3">>))
     \o Main(i32, <<"f", "(">> \o X \o <<")">>) :
     first \in {<<>>, Return(One)}, second \in {<<"break", ";">>, Return(<<"2">>)},
     label \in {<<"E", ".", "T">>, <<"E", ".", "K">>, One}, X \in {<<"E", ".", "T">>, <<"E", ".", "K">>, One}}

Inherited ==
  {ClassNamed(<<"A">>, <<"n", ":", "i32", ";", "constructor", "(", ")", "{">> \o first \o <<"}">>)
     \o ClassNamed(<<"B", "extends", "A">>, own)
     \o Function("m", <<>>, i32, <<"let", "y", "=", "new", c, "(", ")", ";">> \o Return(<<"y", ".", "n">>)) :
     first \in {<<"this", ".", "n", "=", "1", ";">>}, c \in {"A", "B"},
     own \in {<<>>, <<"constructor", "(", ")", "{", "super", "(", ")", ";", "}">>}}

MCSources ==
  Narrowings \union Twice \union Conversions \union Chained \union Abstracts \union Interfaces
  \union Changed \union Loops \union Switches \union Passing \union Storing \union Inherited \union Constants
=============================================================================
