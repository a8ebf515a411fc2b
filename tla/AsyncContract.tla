---------------------------- MODULE AsyncContract ----------------------------
(***************************************************************************)
(* What the async runtime promises to a program                            *)
(* (packages/runtime/include/sn/runtime.h, the scheduler section): a       *)
(* future settles once; a task that awaits a pending future gives up the   *)
(* thread, and the very step that settles the future makes every task      *)
(* waiting for it ready again; a task ends with its result future settled. *)
(* There is no queue, no waiter list and no wake loop here.                *)
(***************************************************************************)
CONSTANTS
  Task,      \* tasks, and their result futures
  External,  \* the other futures: of timers, I/O and compositions
  None

Future == Task \cup External
Outcomes == {"completed", "failed", "cancelled"}

VARIABLES
  fut,   \* the state of each future
  st,    \* "unborn", "ready", "waiting" or "done", for each task
  on     \* the future a waiting task waits for

vars == <<fut, st, on>>

Init ==
  /\ \E r \in Task :
       /\ fut = [f \in Future |-> IF f = r THEN "pending" ELSE "unborn"]
       /\ st = [t \in Task |-> IF t = r THEN "ready" ELSE "unborn"]
  /\ on = [t \in Task |-> None]

\* Settling f readies exactly its waiters; the task c, if any, is done as well.
SettleAnd(f, o, c) ==
  /\ fut[f] = "pending"
  /\ fut' = [fut EXCEPT ![f] = o]
  /\ st' = [t \in Task |-> IF t = c THEN "done"
                           ELSE IF on[t] = f THEN "ready" ELSE st[t]]
  /\ on' = [t \in Task |-> IF t = c \/ on[t] = f THEN None ELSE on[t]]

Begin(t) ==
  /\ st[t] = "unborn"
  /\ fut' = [fut EXCEPT ![t] = "pending"]
  /\ st' = [st EXCEPT ![t] = "ready"]
  /\ UNCHANGED on

Start(e) ==
  /\ fut[e] = "unborn"
  /\ \E s \in {"pending"} \cup Outcomes : fut' = [fut EXCEPT ![e] = s]
  /\ UNCHANGED <<st, on>>

Wait(t, f) ==
  /\ st[t] = "ready" /\ fut[f] = "pending"
  /\ st' = [st EXCEPT ![t] = "waiting"]
  /\ on' = [on EXCEPT ![t] = f]
  /\ UNCHANGED fut

Settle(f, o) == SettleAnd(f, o, None)

Cancel(c) == st[c] # "unborn" /\ SettleAnd(c, "cancelled", c)

End(t) ==
  /\ st[t] = "ready" /\ fut[t] \in Outcomes
  /\ st' = [st EXCEPT ![t] = "done"]
  /\ UNCHANGED <<fut, on>>

Next ==
  \/ \E t \in Task : Begin(t) \/ End(t) \/ Cancel(t)
  \/ \E e \in External : Start(e)
  \/ \E t \in Task, f \in Future : Wait(t, f)
  \/ \E f \in Future, o \in Outcomes : Settle(f, o)

Spec == Init /\ [][Next]_vars
=============================================================================
