----------------------------- MODULE Compilation -----------------------------
(***************************************************************************)
(* The compiler from the tokens of a module to a run of what it compiled:  *)
(* compileFile of src/packages/compiler/src/compiler.ts, which parses,     *)
(* checks and generates code.  The code is generated only when no phase    *)
(* has reported an error; the phases of the checker all report first, here *)
(* the first error ends the compilation.                                   *)
(*                                                                         *)
(* Parser, Declarations (with Checker and Types), Lowering and Execution   *)
(* are the parts; they hand over the tree, the tables of the checker, the  *)
(* symbols of the generator and the code.                                  *)
(*                                                                         *)
(* Left out: imports and the prelude (one module), the validation of main  *)
(* and of files, and the specialisation of generics.                       *)
(***************************************************************************)
EXTENDS Execution

CONSTANTS
  Sources,   \* programs, as tokens
  Entry      \* the function a run calls, without arguments

VARIABLES
  source,    \* the program being compiled
  phase,     \* the phase that is next, or how it ended
  outcome    \* of the run: the value of the entry, and the memory

vars == <<source, phase, program, unit, symbols, code, outcome>>

Syntax == INSTANCE Parser

Empty == <<>>

Init ==
  /\ source \in Sources
  /\ phase = "parse"
  /\ program = None
  /\ unit = Empty /\ symbols = Empty /\ code = Empty /\ outcome = Empty

\* A phase goes on to the next one, or ends the compilation with an error.
Passes(this, accepted, next) ==
  /\ phase = this
  /\ phase' = IF accepted THEN next ELSE "rejected"

Parse ==
  LET parsed == Syntax!Parse(source)
  IN /\ Passes("parse", parsed.clean, "names")
     /\ program' = parsed.tree
     /\ UNCHANGED <<source, unit, symbols, code, outcome>>

CollectNames ==
  /\ Passes("names", NamesDistinct /\ EnumsDeclared, "signatures")
  /\ unit' = Names
  /\ UNCHANGED <<source, program, symbols, code, outcome>>

CollectSignatures ==
  /\ Passes("signatures", SignaturesDeclared, "values")
  /\ unit' = IF phase' = "rejected" THEN unit ELSE Signatures
  /\ UNCHANGED <<source, program, symbols, code, outcome>>

CollectValues ==
  /\ phase = "values"
  /\ \E values \in {Values} :
       /\ Passes("values", values.ok, "bodies")
       /\ unit' = [unit EXCEPT !.globals = values.scope]
  /\ UNCHANGED <<source, program, symbols, code, outcome>>

CheckBodies ==
  /\ Passes("bodies", BodiesChecked, "symbols")
  /\ UNCHANGED <<source, program, unit, symbols, code, outcome>>

CollectSymbols ==
  /\ Passes("symbols", TRUE, "code")
  /\ symbols' = Symbols
  /\ UNCHANGED <<source, program, unit, code, outcome>>

\* Whether the generator threw or LLVM rejects the code, "broken" says.
EmitCode ==
  /\ phase = "code"
  /\ code' = Emissions
  /\ phase' = IF \E key \in DOMAIN code' : code'[key].body = Broken THEN "broken" ELSE "run"
  /\ UNCHANGED <<source, program, unit, symbols, outcome>>

\* Static fields are zero; variables of the module are the constants of their
\* initializers, or are computed in order before the entry is called.
StaticFields == UNION {ToSet(symbols.classes[c].statics) : c \in DOMAIN symbols.classes}
Qualified(field) == field.class \o "." \o field.name
Blank == [heap |-> <<>>, globals |-> Empty, fault |-> "", calls |-> {}]

Zeroed ==
  [Blank EXCEPT !.globals =
     [name \in {Qualified(f) : f \in StaticFields} |->
        Eval(Zero((CHOOSE f \in StaticFields : Qualified(f) = name).type), Empty, Blank).value]]

Initialized ==
  LET names == InOrder("ModuleVariableDeclaration")
      constants == SelectSeq(names, LAMBDA v : symbols.values[v].constant)
      deferred == SelectSeq(names, LAMBDA v : ~symbols.values[v].constant)
      assigned(v, set) == [set.mem EXCEPT !.globals = With(@, v, set.value)]
  IN FoldLeft(LAMBDA m, v : assigned(v, Eval(code[<<"module", v>>].body, Empty, m)), Zeroed, constants \o deferred)

Run ==
  /\ phase = "run"
  /\ phase' = "done"
  /\ outcome' = Invoke(<<NoName, Entry>>, Null, <<>>, Initialized)
  /\ UNCHANGED <<source, program, unit, symbols, code>>

Next ==
  \/ Parse \/ CollectNames \/ CollectSignatures \/ CollectValues \/ CheckBodies
  \/ CollectSymbols \/ EmitCode \/ Run

Spec == Init /\ [][Next]_vars

-----------------------------------------------------------------------------
(* What a typed language promises.                                         *)

\* What the checker accepts, the generator finds code for, and code that LLVM
\* accepts: checker and generator each compute types of their own, and the
\* generator's know nothing of narrowing.
AcceptedCompiles == phase # "broken"

\* A run reads no memory as something it is not, and the entry returns a value
\* of its declared type: narrowing, assignability and conversions fit together.
TypeSound ==
  phase = "done" =>
    /\ outcome.mem.fault # "crash"
    /\ outcome.mem.fault = "" => Denotes(outcome.value, unit.functions[Entry].result, outcome.mem)

\* Whatever type an object is called through, the method that runs is that of
\* its own class: slots, tables and direct calls agree.
DispatchesByClass ==
  phase = "done" =>
    \A call \in outcome.mem.calls : call[3] = Member(unit.classes[call[1]].methods, call[2]).class
=============================================================================
