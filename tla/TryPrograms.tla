----------------------------- MODULE TryPrograms -----------------------------
(***************************************************************************)
(* The programs whose try statements are compiled: what the parser and the *)
(* type checker hand to emitTryStatement, reduced to control.              *)
(*                                                                         *)
(* A program is one function body (statement 0), sync or async, and a      *)
(* sequence of try statements.  Statement i stands in region `where` of    *)
(* an earlier statement `parent` (or in the body, 0).  With `call` it is   *)
(* the body of a function called from there, else it is part of the same   *)
(* function.  exits[r] is the set of ways the code of region r may end,    *)
(* "await" (it may suspend there) included.  In the text of a region the   *)
(* nested statements come before the region's own exit.  Left out: a return *)
(* or a try statement written in a finally block (the block is emitted up  *)
(* to three times), an await in the finally block of a try without a catch *)
(* (its thunk would hold a label of another function), loops.              *)
(***************************************************************************)
EXTENDS Integers, Sequences, SequencesExt, FiniteSetsExt

CONSTANT Programs

Region == {"try", "catch", "finally"}
Completion == {"normal", "throw", "return"}

TryStatement ==
  [parent : Nat, where : Region \cup {"body"}, call : BOOLEAN, catch : BOOLEAN, finally : BOOLEAN,
   exits : [Region -> SUBSET (Completion \cup {"await"})]]

ASSUME ProgramsAssumption ==
  \A p \in Programs :
    /\ p.async \in BOOLEAN /\ p.stmts \in Seq(TryStatement)
    /\ \A i \in DOMAIN p.stmts :
         LET s == p.stmts[i] IN
         /\ s.parent \in 0 .. i - 1
         /\ s.where = "body" <=> s.parent = 0
         /\ s.catch \/ s.finally
         /\ "return" \notin s.exits["finally"]
         /\ s.where = "finally" => s.call
         /\ ~ s.catch => "await" \notin s.exits["finally"]

HasCatch(p, i) == p.stmts[i].catch
HasFinally(p, i) == p.stmts[i].finally
IsCall(p, i) == p.stmts[i].call

Exits(p, i, r) == IF i = 0 THEN Completion \cup {"await"} ELSE p.stmts[i].exits[r]

\* Only the outer function is async: the functions it calls run to their end.
AwaitsIn(p, i, r) == p.async /\ "await" \in Exits(p, i, r)

Children(p, i, r) ==
  {c \in DOMAIN p.stmts : p.stmts[c].parent = i /\ p.stmts[c].where = r}

\* Position c of a nest of statements starts a function of its own.
FunctionStart(p, nest) ==
  Max({0} \cup {j \in DOMAIN nest : IsCall(p, nest[j].try)})

=============================================================================
