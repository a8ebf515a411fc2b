----------------------------- MODULE TryCodegen -----------------------------
(***************************************************************************)
(* The code emitted for try statements (llvm.ts: emitTryStatement,         *)
(* emitTryLeave, emitReturn, emitThrowStatement, the await sequence) run   *)
(* on the runtime's handler stack (exception.c) and shadow stack of GC     *)
(* roots (gc.c).                                                           *)
(*                                                                         *)
(* One step of the model runs from one region of user code to the next: a  *)
(* throw up to the handler or finally thunk it reaches, the end of a block *)
(* up to the next one.  Values returned and thrown are left out.           *)
(***************************************************************************)
EXTENDS TryPrograms

CONSTANT MaxEntries   \* bound: try statements entered in one run

ASSUME EntriesAssumption == MaxEntries \in Nat

VARIABLES
  prog,    \* the program that runs
  ctl,     \* the try statements whose code is running, outermost first
  eh,      \* sn_eh_stack, outermost frame first
  roots,   \* the shadow stack of roots
  out,     \* "running", how the outer function ended, or "broken": control
           \* went to a frame whose code is over
  entries  \* try statements entered so far: numbers the activations

tryVars == <<prog, ctl, eh, roots, out, entries>>

Place == {"try", "catch", "leave", "leaveCatch", "thunk"}
Activation == [try : Nat, at : Place, n : Nat, cp : Nat, local : BOOLEAN]
Frame == [try : Nat, n : Nat, cp : Nat]
Root == [fn : Nat, n : Nat, at : Place]

TryTypeOK ==
  /\ ctl \in Seq(Activation) /\ eh \in Seq(Frame) /\ roots \in Seq(Root)
  /\ out \in {"running", "normal", "threw", "returned", "broken"}
  /\ entries \in 0 .. MaxEntries

-----------------------------------------------------------------------------
\* Where control is.

\* Mutant: the frame's root_checkpoint is never set.
UnsetRoot == [try |-> 0, n |-> 0, cp |-> -1]

\* The handler an async body installs on entry and again on every resume.
AsyncRoot == [try |-> 0, n |-> 0, cp |-> 0]
Base == IF prog.async THEN <<AsyncRoot>> ELSE <<>>

Here == IF ctl = <<>> THEN 0 ELSE Last(ctl).try

\* The three copies of a finally block, as one region of the source.
SourceRegion(at) == IF at \in Region THEN at ELSE "finally"
At == IF ctl = <<>> THEN "body" ELSE SourceRegion(Last(ctl).at)

\* The activation that is the current function's body: 0 for the outer one.
Function == LET j == FunctionStart(prog, ctl) IN IF j = 0 THEN 0 ELSE ctl[j].n
InAsync == prog.async /\ Function = 0

\* The activations of c that are at one of these places, in order.
AtPlaces(c, places) ==
  LET upto[j \in 0 .. Len(c)] ==
        IF j = 0 THEN <<>>
        ELSE IF c[j].at \in places THEN Append(upto[j - 1], c[j])
        ELSE upto[j - 1]
  IN upto[Len(c)]

\* asyncFrame.ehStack: the handlers the compiler holds active at this point,
\* as a resume sets them up (its shadow stack is empty then).
StaticHandlers(c) ==
  LET active == AtPlaces(c, {"try"})
  IN <<AsyncRoot>> \o [j \in DOMAIN active |-> [try |-> active[j].try, n |-> active[j].n, cp |-> 0]]

\* sn_eh_pop_top m times: an empty stack stays empty.
PopTop(e, m) == SubSeq(e, 1, Len(e) - m)

-----------------------------------------------------------------------------
(* What the compiler decides once for each statement.  A return under a    *)
(* finally branches to that try's leave block and is recorded in           *)
(* pendingReturn; the next leave block emitted takes the record.           *)

\* enclosingTryWithFinally, 0 when there is none.
FinallyAround(p) ==
  LET around[i \in DOMAIN p.stmts] ==
        IF HasFinally(p, i) THEN i
        ELSE IF IsCall(p, i) \/ p.stmts[i].parent = 0 THEN 0
        ELSE around[p.stmts[i].parent]
  IN around

Returned(p, i, r) ==
  IF "return" \in Exits(p, i, r) /\ FinallyAround(p)[i] # 0 THEN <<<<"return", i>>>> ELSE <<>>

Block(p, i, r) ==
  IF "normal" \in Exits(p, i, r) \/ HasFinally(p, i) THEN <<<<r, i>>>> ELSE <<>>

\* The code of the statements in a region that are not functions of their own,
\* f[j] the code of statement j.
Inner(p, f, i, r) ==
  LET upto[j \in 0 .. Len(p.stmts)] ==
        IF j = 0 THEN <<>>
        ELSE IF j \in Children(p, i, r) /\ ~ IsCall(p, j) THEN upto[j - 1] \o f[j]
        ELSE upto[j - 1]
  IN upto[Len(p.stmts)]

\* The returns and leave blocks of each statement in the order of emission.
Emission(p) ==
  LET code[i \in 0 .. Len(p.stmts)] ==
        IF i = 0 THEN Inner(p, code, 0, "body")
        ELSE Inner(p, code, i, "try") \o Returned(p, i, "try") \o Block(p, i, "try")
               \o (IF HasCatch(p, i)
                   THEN Inner(p, code, i, "catch") \o Returned(p, i, "catch") \o Block(p, i, "catch")
                   ELSE <<>>)
  IN code

\* The statement that stands for the function a statement is compiled in.
FunctionOf(p) ==
  LET up[i \in 0 .. Len(p.stmts)] ==
        IF i = 0 \/ IsCall(p, i) THEN i ELSE up[p.stmts[i].parent]
  IN up

\* The leave block of statement i's region r was emitted with pendingReturn set.
LeaveReturns(p, i, r) ==
  LET code == Emission(p)[FunctionOf(p)[i]]
  IN \E j \in 2 .. Len(code) : code[j] = <<r, i>> /\ code[j - 1][1] = "return"

-----------------------------------------------------------------------------
\* Leaving functions and statements.

\* emitFunctionRet with handler stack e: the function's roots go.
FunctionRet(e) ==
  LET j == FunctionStart(prog, ctl)
  IN IF j > 0
     THEN /\ ctl' = SubSeq(ctl, 1, j - 1)
          /\ roots' = SubSeq(roots, 1, ctl[j].cp)
          /\ eh' = e /\ out' = out
     ELSE ctl' = <<>> /\ roots' = <<>> /\ eh' = e /\ out' = "returned"

\* The return sequence: only an async function pops its handlers.
Return(e) ==
  FunctionRet(IF InAsync THEN PopTop(e, Len(StaticHandlers(ctl))) ELSE e)

\* Control goes past the try statement on top of ctl.
Past(e) ==
  IF IsCall(prog, Last(ctl).try)
  THEN FunctionRet(e)
  ELSE ctl' = Front(ctl) /\ eh' = e /\ UNCHANGED <<roots, out>>

\* emitTryLeave of region r, after its copy of the finally block.
TryLeave(r) ==
  LET top == Last(ctl)
      popped == IF r = "catch" THEN eh
                ELSE IF InAsync THEN PopTop(eh, 1)
                ELSE IF eh # <<>> /\ Last(eh).n = top.n /\ top.n > 0 THEN Front(eh)
                ELSE eh
  IN IF LeaveReturns(prog, top.try, r) THEN Return(popped) ELSE Past(popped)

\* The top statement's code goes on in another of its blocks.
MoveTo(c, place) == Append(Front(c), [Last(c) EXCEPT !.at = place, !.local = FALSE])

\* The region's code ends normally and runs into the leave block.
Fall ==
  LET top == Last(ctl) IN
  IF HasFinally(prog, top.try)
  THEN /\ ctl' = MoveTo(ctl, IF top.at = "try" THEN "leave" ELSE "leaveCatch")
       /\ UNCHANGED <<eh, roots, out>>
  ELSE TryLeave(top.at)

-----------------------------------------------------------------------------
(* sn_throw: the top frame takes the exception.  A frame is dead when the  *)
(* block that set it up is over.                                           *)

Owner(f) == {j \in DOMAIN ctl : ctl[j].n = f.n /\ ctl[j].at \in {"try", "leave", "thunk"}}

\* Mutant: the catch block does not pop its frame.
ThrowKeepsFrame(e) ==
  IF e = <<>>
  THEN ctl' = <<>> /\ eh' = <<>> /\ roots' = <<>> /\ out' = "threw"
  ELSE LET f == Last(e) IN
       IF Owner(f) = {}
       THEN ctl' = <<>> /\ eh' = e /\ roots' = <<>> /\ out' = "threw"
       ELSE /\ ctl' = MoveTo(SubSeq(ctl, 1, Max(Owner(f))),
                             IF HasCatch(prog, f.try) THEN "catch" ELSE "thunk")
            /\ roots' = SubSeq(roots, 1, f.cp)
            /\ eh' = e /\ out' = out

\* Mutant: the throw leaves the shadow stack as it is.
ThrowKeepsRoots(e) ==
  IF e = <<>> \/ Owner(Last(e)) = {}
  THEN ctl' = <<>> /\ eh' = <<>> /\ roots' = <<>> /\ out' = "threw"
  ELSE LET f == Last(e)
           c == SubSeq(ctl, 1, Max(Owner(f)))
       IN /\ UNCHANGED <<roots, out>>
          /\ ctl' = MoveTo(c, IF HasCatch(prog, f.try) THEN "catch" ELSE "thunk")
          /\ eh' = (IF HasCatch(prog, f.try) THEN Front(e) ELSE e)

Throw(e) ==
  IF e = <<>>
  THEN /\ ctl' = <<>> /\ eh' = <<>> /\ roots' = <<>> /\ out' = "threw"
  ELSE LET f == Last(e) IN
       IF f = AsyncRoot
       THEN \* the root catch fails the future and returns
            /\ ctl' = <<>> /\ eh' = Front(e) /\ roots' = <<>> /\ out' = "threw"
       ELSE IF Owner(f) = {} \/ f.cp > Len(roots)
       THEN ctl' = <<>> /\ eh' = e /\ roots' = roots /\ out' = "broken"
       ELSE LET c == SubSeq(ctl, 1, Max(Owner(f))) IN
            /\ roots' = SubSeq(roots, 1, f.cp)
            /\ UNCHANGED out
            /\ IF HasCatch(prog, f.try)
               THEN \* longjmp; the catch block pops the frame
                    ctl' = MoveTo(c, "catch") /\ eh' = Front(e)
               ELSE \* the thunk runs while its frame is still on the stack
                    ctl' = MoveTo(c, "thunk") /\ eh' = e

\* Mutant: a finally thunk that ends swallows the exception.
ThunkSwallows == Past(Front(eh))

\* The thunk returns to sn_throw, which drops the frame and goes on.
ThunkDone ==
  LET j == Max({i \in DOMAIN eh : eh[i].n = Last(ctl).n})
  IN Throw(SubSeq(eh, 1, j - 1))

-----------------------------------------------------------------------------
TryInit ==
  /\ prog \in Programs
  /\ ctl = <<>> /\ eh = Base /\ roots = <<>>
  /\ out = "running" /\ entries = 0

\* emitTryStatement up to the try body: root the catch parameter, push the frame.
Enter(c) ==
  /\ out = "running" /\ entries < MaxEntries
  /\ c \in Children(prog, Here, At)
  /\ LET n == entries + 1
         fn == IF IsCall(prog, c) THEN n ELSE Function
         rooted == IF HasCatch(prog, c)
                   THEN Append(roots, [fn |-> fn, n |-> n, at |-> "catch"])
                   ELSE roots
     IN /\ entries' = n
        /\ roots' = rooted
        /\ ctl' = Append(ctl, [try |-> c, at |-> "try", n |-> n,
                               cp |-> Len(roots),
                               local |-> FALSE])
        /\ eh' = Append(eh, [try |-> c, n |-> n, cp |-> Len(rooted)])
  /\ UNCHANGED <<prog, out>>

\* A declaration of reference type in the current block roots its slot.
Declare ==
  /\ out = "running" /\ ctl # <<>> /\ ~ Last(ctl).local
  /\ roots' = Append(roots, [fn |-> Function, n |-> Last(ctl).n, at |-> Last(ctl).at])
  /\ ctl' = Append(Front(ctl), [Last(ctl) EXCEPT !.local = TRUE])
  /\ UNCHANGED <<prog, eh, out, entries>>

May(k) == out = "running" /\ k \in Exits(prog, Here, At)

\* The current block's code ends normally.
EndBlock ==
  /\ May("normal")
  /\ UNCHANGED <<prog, entries>>
  /\ CASE ctl = <<>> ->
            /\ ctl' = ctl /\ roots' = <<>> /\ out' = "normal"
            /\ eh' = PopTop(eh, Len(Base))
       [] ctl # <<>> /\ Last(ctl).at \in {"try", "catch"} -> Fall
       [] ctl # <<>> /\ Last(ctl).at = "leave" -> TryLeave("try")
       [] ctl # <<>> /\ Last(ctl).at = "leaveCatch" -> TryLeave("catch")
       [] OTHER -> ThunkDone

\* emitThrowStatement, or a call or await that throws.
ThrowHere ==
  /\ May("throw")
  /\ Throw(eh)
  /\ UNCHANGED <<prog, entries>>

\* emitReturn: to the leave block of the nearest try with a finally, or out.
ReturnHere ==
  /\ May("return")
  /\ UNCHANGED <<prog, entries>>
  /\ LET i == IF ctl = <<>> THEN 0 ELSE FinallyAround(prog)[Here] IN
     IF i = 0
     THEN Return(eh)
     ELSE /\ ctl' = MoveTo(SubSeq(ctl, 1, Max({j \in DOMAIN ctl : ctl[j].try = i})), "leave")
          /\ UNCHANGED <<eh, roots, out>>

(* An await that suspends pops the handlers the compiler knows of, gives   *)
(* its roots back and returns to the scheduler; the resume function sets   *)
(* the handlers up again.  What stayed on the stack belongs to a call that *)
(* is over.                                                                *)
Await ==
  /\ May("await") /\ InAsync
  /\ LET left == PopTop(eh, Len(StaticHandlers(ctl)))
         dead == [try |-> 0, n |-> MaxEntries + 1, cp |-> 0]
     IN eh' = [j \in DOMAIN left |-> dead] \o StaticHandlers(ctl)
  /\ roots' = <<>>
  /\ UNCHANGED <<prog, ctl, out, entries>>

\* The program is over.
Done == out # "running" /\ UNCHANGED tryVars

TryNext ==
  \/ \E c \in DOMAIN prog.stmts : Enter(c)
  \/ Declare \/ EndBlock \/ ThrowHere \/ ReturnHere \/ Await \/ Done

TrySpec == TryInit /\ [][TryNext]_tryVars

-----------------------------------------------------------------------------
(***************************************************************************)
(* The programs that the emitted code runs as they are written.  What each *)
(* condition rules out:                                                    *)
(*  - a throw in an inline finally block, which finds the block's own      *)
(*    frame, or in a thunk, which runs the thunk again;                    *)
(*  - an await in a finally block, whose frame the compiler forgets;       *)
(*  - a catch block of a try with a finally that throws (the finally is    *)
(*    skipped) or returns (it branches to the leave block of the try body);*)
(*  - a return that has to pass a handler: the frame stays, except that an *)
(*    async function pops its own; or one that may be passed by, since the *)
(*    leave block returns whenever pendingReturn was set.                  *)
(***************************************************************************)
\* Whether a throw may leave a statement, for each statement.
Escapes(p) ==
  LET escapes[j \in DOMAIN p.stmts] ==
        LET Out(q) == \/ "throw" \in Exits(p, j, q)
                      \/ \E c \in Children(p, j, q) : escapes[c]
        IN Out(IF HasCatch(p, j) THEN "catch" ELSE "try") \/ (HasFinally(p, j) /\ Out("finally"))
  IN escapes

Throws(p, i, r) == "throw" \in Exits(p, i, r) \/ \E c \in Children(p, i, r) : Escapes(p)[c]

Returns(p, i, r) == "return" \in Exits(p, i, r)
Outermost(p, i) == IsCall(p, i) \/ p.stmts[i].parent = 0
PopsAll(p, i) == p.async /\ FunctionOf(p)[i] = 0 /\ FinallyAround(p)[i] = 0

Supported(p) ==
  \A i \in DOMAIN p.stmts :
    /\ ~ Throws(p, i, "finally") /\ ~ AwaitsIn(p, i, "finally")
    /\ HasFinally(p, i) /\ HasCatch(p, i) =>
         ~ Throws(p, i, "catch") /\ ~ Returns(p, i, "catch")
    /\ Returns(p, i, "try") =>
         \/ HasFinally(p, i) /\ "normal" \notin Exits(p, i, "try") /\ Outermost(p, i)
         \/ PopsAll(p, i)
    /\ HasCatch(p, i) /\ Returns(p, i, "catch") => Outermost(p, i) \/ PopsAll(p, i)

-----------------------------------------------------------------------------
(* Properties. *)

\* The frames of the handler stack are those of the statements whose try body
\* or finally block runs, in order, and none is left when the function ends.
HandlersMatchControl ==
  LET held == AtPlaces(ctl, {"try", "leave", "thunk"})
      handlers == IF out = "running" THEN Base ELSE <<>>
  IN /\ Len(eh) = Len(handlers) + Len(held)
     /\ \A j \in DOMAIN handlers : eh[j] = handlers[j]
     /\ \A j \in DOMAIN held :
          LET f == eh[Len(handlers) + j] IN f.try = held[j].try /\ f.n = held[j].n

\* No root slot outlives the call whose stack it is in, and every reference
\* local of a block that runs on the C stack is rooted.
RootsMatchControl ==
  /\ \A j \in DOMAIN roots :
       roots[j].fn = 0 \/ \E i \in DOMAIN ctl : ctl[i].n = roots[j].fn
  /\ \A i \in DOMAIN ctl :
       LET here == [fn |-> 0, n |-> ctl[i].n, at |-> ctl[i].at]
           fn == FunctionStart(prog, SubSeq(ctl, 1, i))
       IN ctl[i].local /\ ~ (prog.async /\ fn = 0)
            => \E j \in DOMAIN roots : [roots[j] EXCEPT !.fn = 0] = here

\* Whatever leaves a statement, the runtime's two stacks are those of the
\* statements and calls that are still going on.
UnwindingExact == HandlersMatchControl /\ RootsMatchControl

\* The completion that goes on after the finally block in which a is.
Pending(a) ==
  CASE a.at \in {"try", "catch"} -> "none"
    [] a.at = "thunk" -> "throw"
    [] OTHER -> IF LeaveReturns(prog, a.try, IF a.at = "leave" THEN "try" ELSE "catch")
                THEN "return" ELSE "normal"

Meaning(a) == [try |-> a.try, at |-> SourceRegion(a.at), pend |-> Pending(a)]

Nest == [j \in DOMAIN ctl |-> Meaning(ctl[j])]

Source == INSTANCE TrySemantics WITH nest <- Nest

\* The program goes from region to region as its source says: a throw reaches
\* the innermost catch around it, a finally block runs once on every way out of
\* its statement and then lets the completion go on, and control never reaches
\* the frame of a call that is over.
RunsAsWritten == Source!Spec

\* A try statement with a finally is only left from its finally block, as
\* docs/spec/errors.md:31 has it.
FinallyOnEveryExit ==
  [][\A j \in DOMAIN ctl :
       HasFinally(prog, ctl[j].try) /\ ~ (\E i \in DOMAIN ctl' : ctl'[i].n = ctl[j].n)
         => SourceRegion(ctl[j].at) = "finally"]_tryVars

=============================================================================
