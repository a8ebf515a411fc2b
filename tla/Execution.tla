----------------------------- MODULE Execution -----------------------------
(***************************************************************************)
(* What the emitted code does when it runs: the meaning LLVM and the       *)
(* runtime give to the operations of Lowering.  None of it is code of the  *)
(* compiler; it is what the compiler relies on.                            *)
(*                                                                         *)
(* A run ends in a value, in an abort (an index out of bounds, as the      *)
(* language has it), or in a crash: memory read as something it is not, a  *)
(* null pointer followed, a field read before it was written.  Strings are *)
(* constants of one character; numbers are too small to overflow.          *)
(***************************************************************************)
EXTENDS Lowering

VARIABLE
  code   \* the bodies, by class and name: parameters and operations

\* A value: its representation; a number, a bit or an address (0 for null); the
\* text of a string or the tag of a union; the table of an interface.
Val(rep, n, text, table) == [rep |-> rep, n |-> n, text |-> text, table |-> table]
Number(n) == Val("i32", n, "", <<>>)
Bit(b) == Val("i1", IF b THEN 1 ELSE 0, "", <<>>)
Text(s) == Val("ptr", 0, s, <<>>)
Address(a) == Val("ptr", a, "", <<>>)
Null == Address(0)
Garbage == Val("garbage", 0, "", <<>>)
True(v) == v.n = 1

IsNullValue(v) == v = Null

\* Memory: objects at addresses, module variables, what went wrong, and the
\* methods that ran: whose object, under which name, and whose method.
Fault(m, what) == IF m.fault = "" THEN [m EXCEPT !.fault = what] ELSE m
Ok(m) == m.fault = ""
Object(m, v) == m.heap[v.n]
Points(m, v) == v.rep = "ptr" /\ v.n \in DOMAIN m.heap
PointsToInstance(m, v) == Points(m, v) /\ Object(m, v).class \in DOMAIN symbols.classes
PointsToArray(m, v) == Points(m, v) /\ Object(m, v).class = "array"

Got(v, m) == [value |-> v, mem |-> m]
Crash(m) == Got(Garbage, Fault(m, "crash"))
Expect(condition, v, m) == IF condition THEN Got(v, m) ELSE Crash(m)

Allocate(m, class, cells) == [m EXCEPT !.heap = Append(@, [class |-> class, cells |-> cells])]
Fresh(m) == Address(Len(m.heap) + 1)

\* sn_is_instance
InstanceOf(m, v, c) == v.n # 0 /\ IsSubclass(Object(m, v).class, c)
MayTest(m, v) == IsNullValue(v) \/ PointsToInstance(m, v)

\* The payload of a union.
Payloads(m, v) == Object(m, v).cells[1]
HasPayload(m, v) == v.rep = "union" /\ v.n # 0

Arithmetic(operator, a, b) ==
  CASE operator = "+" -> a + b
    [] operator = "-" -> a - b
    [] OTHER -> a * b

Compare(operator, a, b) ==
  CASE operator = "==" -> a = b
    [] operator = "!=" -> a # b
    [] operator = "<" -> a.n < b.n
    [] operator = "<=" -> a.n <= b.n
    [] operator = ">" -> a.n > b.n
    [] operator = ">=" -> a.n >= b.n
    [] operator = "&&" -> True(a) /\ True(b)
    [] operator = "||" -> True(a) \/ True(b)

\* The table of a class for an interface: for each of its methods, whose runs.
Itable(c, i) ==
  [k \in DOMAIN symbols.interfaces[i].methods |->
     LET name == symbols.interfaces[i].methods[k].name
         methods == symbols.classes[c].methods
     IN IF Has(methods, name) /\ ~Member(methods, name).abstract THEN <<Member(methods, name).class, name>> ELSE <<>>]

\* An operation on the values of its operands.
Apply(c, v, m) ==
  CASE c.kind = "int" -> Got(Number(Digits[c.text]), m)
    [] c.kind = "bit" -> Got(Bit(c.text = "true"), m)
    [] c.kind = "text" -> Got(Text(c.text), m)
    [] c.kind = "null" -> Got(Null, m)
    [] c.kind = "zero union" -> Got(Val("union", 0, "string", <<>>), m)
    [] c.kind = "zero fat" -> Got(Val("fat", 0, "", <<>>), m)
    [] c.kind = "global" -> Got(m.globals[c.text], m)
    [] c.kind = "box" ->
         IF c.text = "null" THEN Got(Val("union", 0, "null", <<>>), m)
         ELSE Got(Val("union", Len(m.heap) + 1, c.text, <<>>), Allocate(m, "box", <<v[1]>>))
    [] c.kind = "unbox" -> Expect(HasPayload(m, v[1]) /\ Payloads(m, v[1]).rep = c.text, Payloads(m, v[1]), m)
    [] c.kind = "face" -> Got(Val("fat", v[1].n, c.kids[2].text, Itable(c.text, c.kids[2].text)), m)
    [] c.kind = "reface" -> Got([v[1] EXCEPT !.table = SubSeq(@, Digits[c.text] + 1, Len(@))], m)
    [] c.kind = "is null" -> Got(Bit(IsNullValue(v[1])), m)
    [] c.kind = "is not null" -> Got(Bit(~IsNullValue(v[1])), m)
    [] c.kind = "is tag" -> Got(Bit(v[1].text = c.text), m)
    [] c.kind = "is instance" -> Expect(MayTest(m, v[1]), Bit(InstanceOf(m, v[1], c.text)), m)
    [] c.kind = "is boxed instance" ->
         Expect(HasPayload(m, v[1]) /\ MayTest(m, Payloads(m, v[1])),
                Bit(v[1].text = "object" /\ InstanceOf(m, Payloads(m, v[1]), c.text)), m)
    [] c.kind = "typeof pointer" -> Got(Text(IF IsNullValue(v[1]) THEN "'null'" ELSE "'object'"), m)
    [] c.kind = "typeof union" -> Got(Text(Quoted(v[1].text)), m)
    [] c.kind = "compare" -> Got(Bit(Compare(c.text, v[1], v[2])), m)
    [] c.kind = "arithmetic" -> Got(Number(Arithmetic(c.text, v[1].n, v[2].n)), m)
    [] c.kind = "not" -> Got(Bit(~True(v[1])), m)
    [] c.kind = "negative" -> Got(Number(-v[1].n), m)
    [] c.kind = "strlen" -> Expect(v[1].rep = "ptr" /\ v[1].text # "", Number(1), m)
    [] c.kind = "length" -> Expect(PointsToArray(m, v[1]), Number(Len(Object(m, v[1]).cells)), m)
    [] c.kind = "array" -> Got(Fresh(m), Allocate(m, "array", v))
    [] c.kind = "field" ->
         LET place == Digits[c.text]
         IN Expect(PointsToInstance(m, v[1]) /\ place \in DOMAIN Object(m, v[1]).cells
                     /\ Object(m, v[1]).cells[place] # Garbage,
                   Object(m, v[1]).cells[place], m)
    [] c.kind = "at" ->
         IF ~PointsToArray(m, v[1]) THEN Crash(m)
         ELSE IF v[2].n + 1 \in DOMAIN Object(m, v[1]).cells THEN Got(Object(m, v[1]).cells[v[2].n + 1], m)
         ELSE Got(Garbage, Fault(m, "abort"))
    [] OTHER -> Got(Null, m)

-----------------------------------------------------------------------------
(* Evaluation.  A frame has the locals, this, and the tested value `it'.   *)

RECURSIVE Do(_, _, _)

Eval(c, frame, m) == Do(c, frame, m)
Exec(c, frame, m) == Do(c, frame, m)

\* A body with its parameters bound; a local has no value before it is set.
Invoke(key, this, args, m) ==
  LET body == code[key]
      locals == [p \in ToSet(body.params) |-> args[CHOOSE i \in DOMAIN args : body.params[i] = p]]
      r == Exec(body.body, [locals |-> locals, this |-> this, it |-> Null], m)
  IN Got(r.value, r.mem)

EvalAll(codes, frame, m) ==
  FoldLeft(LAMBDA r, c : LET e == Eval(c, frame, r.mem) IN [value |-> Append(r.value, e.value), mem |-> e.mem],
           [value |-> <<>>, mem |-> m], codes)

\* The method runs on its object, and that is noted.
Dispatch(key, name, this, args, m) ==
  IF key = <<>> THEN Crash(m)
  ELSE Invoke(key, this, args,
              IF PointsToInstance(m, this)
              THEN [m EXCEPT !.calls = @ \union {<<Object(m, this).class, name, key[1]>>}] ELSE m)

VtableEntry(c, k) ==
  LET methods == symbols.classes[c].methods
  IN IF k \in DOMAIN methods /\ ~methods[k].abstract THEN <<methods[k].class, methods[k].name>> ELSE <<>>

CallKinds == {"call", "static call", "direct call", "virtual call", "interface call", "construct", "new"}
Call(c, v, m) ==
  CASE c.kind = "call" -> Invoke(<<NoName, c.text>>, Null, v, m)
    [] c.kind = "static call" -> Invoke(<<c.kids[1].text, c.text>>, Null, v, m)
    [] c.kind = "direct call" -> Dispatch(<<c.kids[1].text, c.text>>, c.text, v[1], Tail(v), m)
    [] c.kind = "virtual call" ->
         IF PointsToInstance(m, v[1])
         THEN Dispatch(VtableEntry(Object(m, v[1]).class, Digits[c.kids[1].text]), c.text, v[1], Tail(v), m)
         ELSE Crash(m)
    [] c.kind = "interface call" ->
         IF v[1].rep = "fat" /\ Digits[c.kids[1].text] \in DOMAIN v[1].table
         THEN Dispatch(v[1].table[Digits[c.kids[1].text]], c.text, Address(v[1].n), Tail(v), m)
         ELSE Crash(m)
    [] c.kind = "construct" -> Invoke(<<c.text, "constructor">>, v[1], Tail(v), m)
    [] c.kind = "new" ->
         LET this == Fresh(m)
             made == Allocate(m, c.text, [k \in DOMAIN symbols.classes[c.text].fields |-> Garbage])
         IN Got(this, Invoke(<<c.text, "constructor">>, this, v, made).mem)

\* Operands that are names, not values.
Operand(c) ==
  CASE c.kind \in {"static call", "direct call", "virtual call", "interface call"} -> Tail(c.kids)
    [] c.kind = "face" -> <<c.kids[1]>>
    [] OTHER -> c.kids

\* The operands of new are the arguments, evaluated with the object there.
Expression(c, frame, m) ==
  CASE ~Ok(m) -> Got(Garbage, m)
    [] Ok(m) /\ c.kind = "local" -> Expect(frame.locals[c.text] # Garbage, frame.locals[c.text], m)
    [] Ok(m) /\ c.kind = "this" -> Got(frame.this, m)
    [] Ok(m) /\ c.kind = "it" -> Got(frame.it, m)
    [] Ok(m) /\ c.kind = "choose" ->
         LET object == Eval(c.kids[1], frame, m)
             inside == [frame EXCEPT !.it = object.value]
             test == Eval(c.kids[2], inside, object.mem)
         IN IF ~Ok(test.mem) THEN test
            ELSE Eval(IF True(test.value) THEN c.kids[3] ELSE c.kids[4], inside, test.mem)
    [] OTHER -> LET v == EvalAll(Operand(c), frame, m)
                IN IF ~Ok(v.mem) THEN Got(Garbage, v.mem)
                   ELSE IF c.kind \in CallKinds THEN Call(c, v.value, v.mem) ELSE Apply(c, v.value, v.mem)

-----------------------------------------------------------------------------
(* Statements: how they end ("next", "return", "break", "continue").       *)

Ended(flow, frame, v, m) == [flow |-> flow, frame |-> frame, value |-> v, mem |-> m]
Goes(r) == r.flow = "next" /\ Ok(r.mem)

RECURSIVE Loop(_, _, _), Each(_, _, _, _)

InSequence(codes, frame, m) ==
  FoldLeft(LAMBDA r, c : IF Goes(r) THEN Exec(c, r.frame, r.mem) ELSE r, Ended("next", frame, Null, m), codes)

\* After a body, a break ends the loop and a continue goes on with it.
Leaves(r) == r.flow = "return" \/ ~Ok(r.mem)

Loop(c, frame, m) ==
  LET test == Eval(c.kids[1], frame, m)
      body == Exec(c.kids[3], frame, test.mem)
      update == Exec(c.kids[2], body.frame, body.mem)
  IN CASE ~Ok(test.mem) \/ ~True(test.value) -> Ended("next", frame, Null, test.mem)
       [] Ok(test.mem) /\ True(test.value) /\ Leaves(body) -> body
       [] Ok(test.mem) /\ True(test.value) /\ ~Leaves(body) /\ body.flow = "break" -> [body EXCEPT !.flow = "next"]
       [] OTHER -> Loop(c, update.frame, update.mem)

Each(c, array, i, state) ==
  LET cells == Object(state.mem, array).cells
      bound == [state.frame EXCEPT !.locals = With(@, c.text, cells[i])]
      body == Exec(c.kids[2], bound, state.mem)
  IN CASE i > Len(cells) -> state
       [] i <= Len(cells) /\ Leaves(body) -> body
       [] i <= Len(cells) /\ ~Leaves(body) /\ body.flow = "break" -> [body EXCEPT !.flow = "next"]
       [] OTHER -> Each(c, array, i + 1, [body EXCEPT !.flow = "next"])

Switch(c, frame, m) ==
  LET subject == Eval(c.kids[1], frame, m)
      cases == Tail(c.kids)
      label(k) == Eval(cases[k].kids[1], frame, subject.mem).value
      hits == {k \in DOMAIN cases : cases[k].kids[1].kind # "default" /\ label(k) = subject.value}
      defaults == {k \in DOMAIN cases : cases[k].kids[1].kind = "default"}
      first == CHOOSE k \in hits \union defaults : \/ k \in hits /\ \A j \in hits : k <= j
                                                   \/ hits = {} /\ k \in defaults
      bodies == [k \in 1..(Len(cases) - first + 1) |-> cases[first + k - 1].kids[2]]
      r == InSequence(bodies, frame, subject.mem)
  IN CASE ~Ok(subject.mem) \/ hits \union defaults = {} -> Ended("next", frame, Null, subject.mem)
       [] OTHER -> IF r.flow = "break" THEN [r EXCEPT !.flow = "next"] ELSE r

\* A store through a pointer.
StoreIn(m, v, place, x) == [m EXCEPT !.heap[v.n].cells[place] = x]

Statement(c, frame, m) ==
  LET v == EvalAll(c.kids, frame, m)
      next(mem) == Ended("next", frame, Null, mem)
      x == Last(v.value)
  IN CASE c.kind = "sequence" -> InSequence(c.kids, frame, m)
       [] c.kind = "if" ->
            LET test == Eval(c.kids[1], frame, m)
            IN IF Ok(test.mem) THEN Exec(IF True(test.value) THEN c.kids[2] ELSE c.kids[3], frame, test.mem) ELSE next(test.mem)
       [] c.kind = "loop" -> Loop(c, frame, m)
       [] c.kind = "each" ->
            LET array == Eval(c.kids[1], frame, m)
            IN IF Ok(array.mem) /\ PointsToArray(array.mem, array.value)
               THEN Each(c, array.value, 1, Ended("next", frame, Null, array.mem)) ELSE next(Fault(array.mem, "crash"))
       [] c.kind = "switch" -> Switch(c, frame, m)
       [] c.kind \in {"break", "continue"} -> Ended(c.kind, frame, Null, m)
       [] c.kind = "return" -> Ended("return", frame, IF v.value = <<>> THEN Null ELSE x, v.mem)
       [] c.kind = "set" -> Ended("next", [frame EXCEPT !.locals = With(@, c.text, x)], Null, v.mem)
       [] c.kind = "set global" -> next([v.mem EXCEPT !.globals[c.text] = x])
       [] c.kind = "set field" ->
            next(IF Ok(v.mem) /\ PointsToInstance(v.mem, v.value[1]) /\ Digits[c.text] \in DOMAIN Object(v.mem, v.value[1]).cells
                 THEN StoreIn(v.mem, v.value[1], Digits[c.text], x) ELSE Fault(v.mem, "crash"))
       [] c.kind = "set at" ->
            next(IF Ok(v.mem) /\ PointsToArray(v.mem, v.value[1]) /\ v.value[2].n + 1 \in DOMAIN Object(v.mem, v.value[1]).cells
                 THEN StoreIn(v.mem, v.value[1], v.value[2].n + 1, x) ELSE Fault(v.mem, "crash"))
       [] OTHER -> next(v.mem)

StatementKinds ==
  {"sequence", "if", "loop", "each", "switch", "break", "continue", "return", "set", "set global", "set field",
   "set at", "do", "print"}
Do(c, frame, m) == IF c.kind \in StatementKinds THEN Statement(c, frame, m) ELSE Expression(c, frame, m)

-----------------------------------------------------------------------------
(* What a value denotes.                                                   *)

RECURSIVE Denotes(_, _, _)
Denotes(v, t, m) ==
  CASE t = I32 -> v.rep = "i32"
    [] t = Bool -> v.rep = "i1"
    [] t = Str -> v.rep = "ptr" /\ v.text # ""
    [] t = NullType -> v = Null
    [] t.kind = "stringLiteral" -> v = Text(t.text)
    [] t.kind = "numberLiteral" -> v = Number(Digits[t.text])
    [] t.kind = "enum" -> v.rep = "i32" /\ v.n + 1 \in DOMAIN unit.enums[t.text]
    [] t.kind = "class" -> PointsToInstance(m, v) /\ IsSubclass(Object(m, v).class, t.text)
    [] t.kind = "interface" -> v.rep = "fat" /\ v.n \in DOMAIN m.heap /\ ClassSatisfies(Object(m, Address(v.n)).class, t.text)
    [] t.kind = "array" -> PointsToArray(m, v) /\ \A i \in DOMAIN Object(m, v).cells : Denotes(Object(m, v).cells[i], Element(t), m)
    [] IsUnion(t) /\ LlvmType(t) # UnionRep -> \E arm \in ArmSet(t) : Denotes(v, arm, m)
    [] OTHER -> /\ v.rep = "union"
                /\ \E arm \in ArmSet(t) :
                     /\ UnionTag(arm) = v.text
                     /\ arm = NullType \/ (HasPayload(m, v) /\ Denotes(Payloads(m, v), arm, m))
=============================================================================
