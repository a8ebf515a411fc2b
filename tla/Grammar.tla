------------------------------ MODULE Grammar ------------------------------
(***************************************************************************)
(* Syntax trees, and the forms out of which Parser writes the methods of   *)
(* the recursive-descent parser (src/packages/compiler/src/parser).  A     *)
(* form says what a piece of a method does with the tokens in front of it: *)
(* expect one, take one into the tree, call another method, branch on the  *)
(* tokens ahead, loop.  Parser interprets them.                            *)
(*                                                                         *)
(* A tree is a kind, a text (for a token kept in the tree) and its         *)
(* children; every tree has the same three fields.                         *)
(***************************************************************************)
EXTENDS Integers, Sequences

Node(kind, kids) == [kind |-> kind, text |-> "", kids |-> kids]
Leaf(kind, text) == [kind |-> kind, text |-> text, kids |-> <<>>]

\* What stands for an optional child that is absent.
None == Leaf("none", "")

-----------------------------------------------------------------------------
(* Conditions on the tokens ahead: the kinds of the next tokens, one set   *)
(* each, and then a test by one of the looksLike methods ("" for none).    *)

Ahead(next) == [next |-> next, like |-> ""]
At(kinds) == Ahead(<<kinds>>)
Like(next, like) == [next |-> next, like |-> like]
Always == Ahead(<<>>)

-----------------------------------------------------------------------------
(* The forms.                                                              *)

\* expect(kind) whose failure makes the method return null.
Word(kind) == [form |-> "word", kind |-> kind]

\* expect(kind) whose failure is only reported.
Soft(kind) == [form |-> "soft", kind |-> kind]

\* A token that becomes a leaf of the tree.
Take(kinds) == [form |-> "take", kinds |-> kinds]

\* A child that no token stands for.
Give(node) == [form |-> "give", node |-> node]

\* A call of another method of the parser.
Ref(method) == [form |-> "ref", method |-> method]

Row(parts) == [form |-> "row", parts |-> parts]

\* if ... else if ... else: the first case whose condition holds.
When(when, part) == [when |-> when, part |-> part]
Choice(cases) == [form |-> "choice", cases |-> cases]

\* What the part reads becomes the children of one node.
Tree(kind, part) == [form |-> "tree", kind |-> kind, part |-> part]

\* As part, and null when the tree is of another kind.
Only(kinds, part) == [form |-> "only", kinds |-> kinds, part |-> part]

\* The loops that put what was read so far under a new node, as the first of
\* its children: binary operators, casts, postfix operators.
On(when, kind, part) == [when |-> when, kind |-> kind, part |-> part]
Chain(first, cases) == [form |-> "chain", first |-> first, cases |-> cases]

\* A first child alone, or one node over it and those that follow separators.
Nary(kind, part, separator) ==
    [form |-> "nary", kind |-> kind, part |-> part, separator |-> separator]

\* Comma-separated children up to and with the closing token; a comma may
\* precede it.
List(part, close) == [form |-> "list", part |-> part, close |-> close]

\* Children until one of the kinds (or the end) is next.  A child that fails
\* ends it ("null"), or is skipped as by synchronizeStatement ("statement"),
\* or ends the program ("program").
Until(kinds, part, failing) ==
    [form |-> "until", kinds |-> kinds, part |-> part, failing |-> failing]

-----------------------------------------------------------------------------
(* Frequent shapes.                                                        *)

Name == Take({"Identifier"})
Flag(word) == Choice(<<When(At({word}), Take({word})),
                       When(Always, Give(None))>>)
Optional(when, part) == Choice(<<When(when, part), When(Always, Give(None))>>)
Maybe(word) == Choice(<<When(At({word}), Word(word)), When(Always, Row(<<>>))>>)
Listed(part, close) == Tree("List", List(part, close))
=============================================================================
