---------------------------- MODULE TrySemantics ----------------------------
(***************************************************************************)
(* What a try statement means to the author of a program: a throw goes to  *)
(* the innermost catch clause around it, a finally block runs once on every *)
(* way out of its statement and the completion that led to it goes on when *)
(* it ends, a return leaves one function.  TryCodegen implements this with *)
(* a stack of jump frames.                                                 *)
(***************************************************************************)
EXTENDS TryPrograms

VARIABLES
  prog,   \* the program that runs
  nest,   \* the statements being executed, outermost first
  out     \* "running", or how the outer function ended

vars == <<prog, nest, out>>

\* Whatever the program is.
Init == nest = <<>> /\ out = "running"

Here == IF nest = <<>> THEN 0 ELSE Last(nest).try
At == IF nest = <<>> THEN "body" ELSE Last(nest).at

\* Control enters try statement c, which stands in the current region.
Enter(c) ==
  /\ out = "running"
  /\ c \in Children(prog, Here, At)
  /\ nest' = Append(nest, [try |-> c, at |-> "try", pend |-> "none"])
  /\ UNCHANGED <<prog, out>>

Catches(e, k) == k = "throw" /\ e.at = "try" /\ HasCatch(prog, e.try)
Takes(e, k) == e.at \in {"try", "catch"} /\ (Catches(e, k) \/ HasFinally(prog, e.try))

\* Completion k leaves nest n: the innermost statement that takes it does.
Leave(n, k) ==
  LET start == FunctionStart(prog, n)
      takers == {j \in DOMAIN n : Takes(n[j], k) /\ (k = "return" => j >= start)}
      j == Max(takers)
  IN IF takers # {}
     THEN /\ nest' = Append(SubSeq(n, 1, j - 1),
                            IF Catches(n[j], k)
                            THEN [n[j] EXCEPT !.at = "catch"]
                            ELSE [n[j] EXCEPT !.at = "finally", !.pend = k])
          /\ out' = out
     ELSE IF k = "return" /\ start > 0
          THEN nest' = SubSeq(n, 1, start - 1) /\ out' = out
          ELSE nest' = <<>> /\ out' = (IF k = "throw" THEN "threw" ELSE "returned")

\* The code of a try or catch region ends normally.
Fall(n) ==
  /\ out' = out
  /\ nest' = IF HasFinally(prog, Last(n).try)
             THEN Append(Front(n), [Last(n) EXCEPT !.at = "finally", !.pend = "normal"])
             ELSE Front(n)

\* The code of the current region ends with completion k.
Complete(k) ==
  /\ out = "running"
  /\ k \in Exits(prog, Here, At)
  /\ UNCHANGED prog
  /\ IF nest = <<>>
     THEN /\ nest' = <<>>
          /\ out' = CASE k = "normal" -> "normal" [] k = "throw" -> "threw" [] OTHER -> "returned"
     ELSE IF k # "normal"
     THEN Leave(nest, k)
     ELSE IF At # "finally"
     THEN Fall(nest)
     ELSE IF Last(nest).pend = "normal"
     THEN nest' = Front(nest) /\ out' = out
     ELSE Leave(nest, Last(nest).pend)

Next == (\E c \in DOMAIN prog.stmts : Enter(c)) \/ (\E k \in Completion : Complete(k))

Spec == Init /\ [][Next]_vars

=============================================================================
