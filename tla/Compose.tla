------------------------------- MODULE Compose -------------------------------
(***************************************************************************)
(* The composition of futures: sn_future_all and sn_future_race            *)
(* (packages/runtime/src/common/async.c) and the `timeout` of std/async    *)
(* built on them.                                                          *)
(*                                                                         *)
(* A future has ONE slot for the composition it is a member of             *)
(* (compose_data and on_settle).  settle() runs the callback of the slot   *)
(* before anything else; a callback may settle the result of its           *)
(* composition, whose own callback runs next.  As a settle calls at most   *)
(* one callback and a callback settles at most one future, the nest of     *)
(* calls is a chain, and `due` is the future whose callback is next.       *)
(***************************************************************************)
EXTENDS Integers, FiniteSets, SequencesExt

CONSTANTS
  Leaf,     \* futures of tasks, timers and I/O
  Comp,     \* compositions, each named after its result future
  Programs, \* the calls the program may make: <<kind, members>>
  SingleUse,\* the program passes a future to one call at most, and once
  Timed,    \* the leaves that are timers: they complete, and never fail
  None      \* the null pointer

Future == Leaf \cup Comp
Outcomes == {"completed", "failed", "cancelled"}
Kinds == {"all", "race", "timeout"}

ASSUME ComposeAssumption ==
  /\ SingleUse \in BOOLEAN /\ None \notin Future \cup Kinds \cup {"ok", "error", "late"}
  /\ Leaf \cap Comp = {} /\ Timed \subseteq Leaf
  /\ \A p \in Programs : p[1] \in Kinds /\ p[2] \in Seq(Future \cup {None})
  /\ \A p \in Programs : p[1] = "timeout" => Len(p[2]) = 2 /\ p[2][1] \in Future /\ p[2][2] \in Timed

VARIABLES
  state,    \* SnFuture.state; "unborn" before the call that makes it
  payload,  \* SnFuture.value or SnFuture.error: the leaf it came from
  slot,     \* compose_data: the composition a member reports to
  kind,     \* which function made the composition
  members,  \* futures
  outs,     \* results
  done,     \* done
  closed,   \* failed of SnAllState, settled of SnRaceState
  due,      \* the future whose on_settle runs next
  verdict,  \* what the body of `timeout` has returned: "ok", "error", "late"
  log       \* history: the futures in the order in which they settled

vars == <<state, payload, slot, kind, members, outs, done, closed, due, verdict, log>>

Settled(f) == state[f] \in Outcomes
Of(k, f) == \E i \in DOMAIN members[k] : members[k][i] = f

-----------------------------------------------------------------------------

\* settle() up to the call of the callback.
SettleTo(f, o, p) ==
  IF state[f] = "pending"
  THEN /\ state' = [state EXCEPT ![f] = o]
       /\ payload' = [payload EXCEPT ![f] = p]
       /\ log' = Append(log, f)
       /\ due' = IF slot[f] = None THEN None ELSE f
  ELSE UNCHANGED <<state, payload, log>> /\ due' = None

\* A leaf settles: its task ends, its timer fires, its request is answered.
SettleLeaf(f, o) ==
  /\ due = None
  /\ state[f] = "pending"
  /\ f \in Timed => o = "completed"
  /\ SettleTo(f, o, IF o = "cancelled" THEN None ELSE f)
  /\ UNCHANGED <<slot, kind, members, outs, done, closed, verdict>>

\* The members a new composition hooks: the pending ones before the place at
\* which the loop over the array returns.
Hooked(a, stop) == {a[i] : i \in {j \in 1 .. stop - 1 : a[j] # None /\ state[a[j]] = "pending"}}

\* The place of the first member in a state of S, or one past the end.
FirstIn(a, S) ==
  LET bad == {i \in DOMAIN a : a[i] # None /\ state[a[i]] \in S}
  IN  IF bad = {} THEN Len(a) + 1 ELSE CHOOSE i \in bad : \A j \in bad : i <= j

\* The common part of both functions, for a composition with a non-empty array
\* whose loop returns at stop: the result settles with o and p, or stays pending.
Made(k, kd, a, stop, results, already, o, p) ==
  /\ kind' = [kind EXCEPT ![k] = kd]
  /\ members' = [members EXCEPT ![k] = a]
  /\ slot' = [f \in Future |-> IF f \in Hooked(a, stop) THEN k ELSE slot[f]]
  /\ outs' = [outs EXCEPT ![k] = results]
  /\ done' = [done EXCEPT ![k] = already]
  /\ state' = [state EXCEPT ![k] = o]
  /\ payload' = [payload EXCEPT ![k] = p]
  /\ log' = IF o = "pending" THEN log ELSE Append(log, k)
  /\ UNCHANGED due

\* sn_future_all
NewAll(k, a) ==
  /\ due = None /\ state[k] = "unborn"
  /\ LET stop == FirstIn(a, {"failed", "cancelled"})
         results == [i \in DOMAIN a |-> IF a[i] # None /\ Settled(a[i]) THEN payload[a[i]] ELSE None]
         already == Cardinality({i \in DOMAIN a : a[i] = None \/ Settled(a[i])})
     IN  IF stop <= Len(a)
         THEN Made(k, "all", a, stop, [i \in DOMAIN a |-> None], 0, state[a[stop]], payload[a[stop]])
         ELSE Made(k, "all", a, stop, results, already,
                   IF already >= Len(a) THEN "completed" ELSE "pending", None)
  /\ UNCHANGED <<closed, verdict>>

\* What the body of `timeout` makes of its race, settled with o and p: an error of
\* the race is thrown by the await, otherwise the work decides.
Verdict(a, o, p) ==
  IF o # "completed" THEN "error" ELSE IF Settled(a[1]) THEN "ok" ELSE "late"

\* sn_future_race, and the first half of the body of `timeout`: its await of a
\* race that is settled already falls through to the test of the work.
NewRace(k, kd, a) ==
  /\ due = None /\ state[k] = "unborn"
  /\ LET stop == FirstIn(a, Outcomes)
     IN  IF a = <<>>
         THEN Made(k, kd, a, 1, <<>>, 0, "cancelled", None) /\ UNCHANGED <<closed, verdict>>
         ELSE IF stop <= Len(a)
         THEN /\ Made(k, kd, a, stop, <<>>, 0, state[a[stop]], payload[a[stop]])
              /\ closed' = [closed EXCEPT ![k] = TRUE]
              /\ verdict' = IF kd # "timeout" THEN verdict
                            ELSE [verdict EXCEPT ![k] = Verdict(a, state[a[stop]], payload[a[stop]])]
         ELSE Made(k, kd, a, stop, <<>>, 0, "pending", None) /\ UNCHANGED <<closed, verdict>>

\* Mutant of AllChild: the last member does not complete the result.
AllChildOffByOne(f, k) ==
  IF closed[k] \/ state[k] # "pending"
  THEN due' = None /\ UNCHANGED <<state, payload, log, outs, done, closed>>
  ELSE IF state[f] \in {"failed", "cancelled"}
  THEN /\ closed' = [closed EXCEPT ![k] = TRUE]
       /\ SettleTo(k, state[f], payload[f])
       /\ UNCHANGED <<outs, done>>
  ELSE LET i == CHOOSE i \in DOMAIN members[k] :
                  members[k][i] = f /\ \A j \in 1 .. i - 1 : members[k][j] # f
       IN  /\ outs' = [outs EXCEPT ![k][i] = payload[f]]
           /\ done' = [done EXCEPT ![k] = @ + 1]
           /\ IF done[k] >= Len(members[k]) THEN SettleTo(k, "completed", None)
              ELSE due' = None /\ UNCHANGED <<state, payload, log>>
           /\ UNCHANGED closed

\* Mutant of AllChild: a failed member is counted, not propagated.
AllChildSwallows(f, k) ==
  LET i == CHOOSE i \in DOMAIN members[k] :
             members[k][i] = f /\ \A j \in 1 .. i - 1 : members[k][j] # f
  IN  /\ outs' = [outs EXCEPT ![k][i] = payload[f]]
      /\ done' = [done EXCEPT ![k] = @ + 1]
      /\ IF done[k] + 1 >= Len(members[k]) THEN SettleTo(k, "completed", None)
         ELSE due' = None /\ UNCHANGED <<state, payload, log>>
      /\ UNCHANGED closed

\* on_all_child
AllChild(f, k) ==
  IF closed[k] \/ state[k] # "pending"
  THEN due' = None /\ UNCHANGED <<state, payload, log, outs, done, closed>>
  ELSE IF state[f] \in {"failed", "cancelled"}
  THEN /\ closed' = [closed EXCEPT ![k] = TRUE]
       /\ SettleTo(k, state[f], payload[f])
       /\ UNCHANGED <<outs, done>>
  ELSE LET i == CHOOSE i \in DOMAIN members[k] :
                  members[k][i] = f /\ \A j \in 1 .. i - 1 : members[k][j] # f
       IN  /\ outs' = [outs EXCEPT ![k][i] = payload[f]]
           /\ done' = [done EXCEPT ![k] = @ + 1]
           /\ IF done[k] + 1 >= Len(members[k]) THEN SettleTo(k, "completed", None)
              ELSE due' = None /\ UNCHANGED <<state, payload, log>>
           /\ UNCHANGED closed

\* Mutant of RaceChild: a failed member does not end the race.
RaceChildSkipsFailed(f, k) ==
  IF closed[k] \/ state[k] # "pending" \/ state[f] # "completed"
  THEN due' = None /\ UNCHANGED <<state, payload, log, closed>>
  ELSE closed' = [closed EXCEPT ![k] = TRUE] /\ SettleTo(k, state[f], payload[f])

\* Mutant of RaceChild: the result gets the member, not the member's value.
RaceChildPassesMember(f, k) ==
  IF closed[k] \/ state[k] # "pending"
  THEN due' = None /\ UNCHANGED <<state, payload, log, closed>>
  ELSE closed' = [closed EXCEPT ![k] = TRUE] /\ SettleTo(k, state[f], f)

\* race_child_settle
RaceChild(f, k) ==
  IF closed[k] \/ state[k] # "pending"
  THEN due' = None /\ UNCHANGED <<state, payload, log, closed>>
  ELSE closed' = [closed EXCEPT ![k] = TRUE] /\ SettleTo(k, state[f], payload[f])

\* The callback in the slot of the future that has just settled.
OnSettle ==
  /\ due # None
  /\ LET k == slot[due] IN
       IF kind[k] = "all" THEN AllChild(due, k)
       ELSE RaceChild(due, k) /\ UNCHANGED <<outs, done>>
  /\ UNCHANGED <<slot, kind, members, verdict>>

\* The task of `timeout` is resumed, some time after the race has settled.
Resume(k) ==
  /\ due = None
  /\ kind[k] = "timeout" /\ Settled(k) /\ verdict[k] = None
  /\ verdict' = [verdict EXCEPT ![k] = Verdict(members[k], state[k], payload[k])]
  /\ UNCHANGED <<state, payload, slot, kind, members, outs, done, closed, due, log>>

-----------------------------------------------------------------------------

Init ==
  /\ state = [f \in Future |-> IF f \in Leaf THEN "pending" ELSE "unborn"]
  /\ payload = [f \in Future |-> None]
  /\ slot = [f \in Future |-> None]
  /\ kind = [k \in Comp |-> None]
  /\ members = [k \in Comp |-> <<>>]
  /\ outs = [k \in Comp |-> <<>>]
  /\ done = [k \in Comp |-> 0]
  /\ closed = [k \in Comp |-> FALSE]
  /\ due = None
  /\ verdict = [k \in Comp |-> None]
  /\ log = <<>>

\* The members of a call exist when it is made, and each call is made once.
Callable(k, p) ==
  /\ \A i \in DOMAIN p[2] : p[2][i] # None => p[2][i] # k /\ state[p[2][i]] # "unborn"
  /\ ~ \E h \in Comp : kind[h] = p[1] /\ members[h] = p[2]
  /\ SingleUse => \A i \in DOMAIN p[2] : p[2][i] # None =>
       /\ ~ \E h \in Comp : Of(h, p[2][i])
       /\ \A n \in DOMAIN p[2] : p[2][n] = p[2][i] => n = i

New(k, p) ==
  /\ Callable(k, p)
  /\ IF p[1] = "all" THEN NewAll(k, p[2]) ELSE NewRace(k, p[1], p[2])

\* Everything has settled and nothing is left to call.
Quiet ==
  /\ due = None
  /\ \A f \in Leaf : Settled(f)
  /\ UNCHANGED vars

Next ==
  \/ \E f \in Leaf, o \in Outcomes : SettleLeaf(f, o)
  \/ \E k \in Comp, p \in Programs : New(k, p)
  \/ OnSettle
  \/ \E k \in Comp : Resume(k)
  \/ Quiet

Spec == Init /\ [][Next]_vars

\* Leaves settle in the end, callbacks are part of a settle, tasks are resumed.
FairSpec ==
  /\ Spec
  /\ WF_vars(OnSettle)
  /\ \A f \in Leaf : WF_vars(\E o \in Outcomes : SettleLeaf(f, o))
  /\ \A k \in Comp : WF_vars(Resume(k))

-----------------------------------------------------------------------------

TypeOK ==
  /\ state \in [Future -> {"unborn", "pending"} \cup Outcomes]
  /\ payload \in [Future -> Leaf \cup {None}]
  /\ slot \in [Future -> Comp \cup {None}]
  /\ kind \in [Comp -> Kinds \cup {None}]
  /\ members \in [Comp -> Seq(Future \cup {None})]
  /\ outs \in [Comp -> Seq(Leaf \cup {None})]
  /\ done \in [Comp -> Nat] /\ closed \in [Comp -> BOOLEAN]
  /\ due \in Future \cup {None}
  /\ verdict \in [Comp -> {"ok", "error", "late", None}]
  /\ log \in Seq(Future) /\ IsInjective(log)

\* `all` completes only when every member has completed, with the value of each
\* member at the member's own place; and it fails only with a member's error.
AllExact ==
  \A k \in Comp : kind[k] = "all" =>
    /\ state[k] = "completed" =>
         \A i \in DOMAIN members[k] : members[k][i] # None =>
           state[members[k][i]] = "completed" /\ outs[k][i] = payload[members[k][i]]
    /\ state[k] \in {"failed", "cancelled"} =>
         \E f \in Future : Of(k, f) /\ state[f] = state[k] /\ payload[f] = payload[k]

\* `all` fails fast: once a member has failed or was cancelled and the chain of
\* callbacks has ended, the result has settled too.
AllFailsFast ==
  due = None =>
    \A k \in Comp, f \in Future :
      kind[k] = "all" /\ Of(k, f) /\ state[f] \in {"failed", "cancelled"} => Settled(k)

\* `race` takes the outcome of the member that settled first; among members that
\* had settled before the call, of the first in the array.
RaceFirst ==
  \A k \in Comp : kind[k] \in {"race", "timeout"} /\ Settled(k) /\ members[k] # <<>> =>
    \E f \in Future :
      /\ Of(k, f) /\ state[k] = state[f] /\ payload[k] = payload[f]
      /\ Settled(f)
      /\ \A g \in Future :
           Of(k, g) /\ Settled(g) /\ g # f =>
             LET at(x) == CHOOSE n \in DOMAIN log : log[n] = x
                 place(x) == CHOOSE i \in DOMAIN members[k] :
                               members[k][i] = x /\ \A j \in 1 .. i - 1 : members[k][j] # x
             IN  at(f) < at(g) \/ (at(g) < at(k) /\ place(f) < place(g))

\* What all and race settle with, and when, is right for every composition.
SettlesRight == AllExact /\ AllFailsFast /\ RaceFirst

\* Every composition of futures that settle is itself settled in the end.
EventuallySettled ==
  \A k \in Comp : (kind[k] # None /\ members[k] # <<>>) ~> Settled(k)

\* "Wait until every future in `futures` settles." (std/async: all): a result that
\* has settled has no member left to wait for.
AllWaits ==
  \A k \in Comp : kind[k] = "all" /\ Settled(k) =>
    \A i \in DOMAIN members[k] : members[k][i] # None => Settled(members[k][i])

\* "Await `work`, or fail if it does not complete within `ms` milliseconds."
\* (std/async: timeout): success means that the work has completed.
OkMeansCompleted ==
  \A k \in Comp : verdict[k] = "ok" => state[members[k][1]] = "completed"
=============================================================================
