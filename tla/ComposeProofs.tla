---------------------------- MODULE ComposeProofs ----------------------------
(***************************************************************************)
(* Proofs about compositions of futures, for any futures, any compositions *)
(* and any calls of a program that passes a future to one call only: what  *)
(* `all` and `race` settle with, and when, is right.                       *)
(***************************************************************************)
EXTENDS Compose, FiniteSetTheorems, SequenceTheorems, WellFoundedInduction, TLAPS

-----------------------------------------------------------------------------
(* Lists that grow at their end.                                           *)

\* The empty sequence.
LEMMA EmptyFacts ==
  /\ \A S : <<>> \in Seq(S)
  /\ ToSet(<<>>) = {}
  /\ IsInjective(<<>>)
BY DEF ToSet, IsInjective

\* A sequence and what is put behind it.
LEMMA AppendFacts ==
  ASSUME NEW S, NEW q \in Seq(S), NEW x \in S
  PROVE  /\ Append(q, x) \in Seq(S) /\ Len(Append(q, x)) = Len(q) + 1
         /\ ToSet(Append(q, x)) = ToSet(q) \cup {x}
<1>1. /\ Append(q, x) \in Seq(S) /\ Len(Append(q, x)) = Len(q) + 1
      /\ Len(q) \in Nat /\ DOMAIN q = 1 .. Len(q) /\ DOMAIN Append(q, x) = 1 .. Len(q) + 1
      /\ \A k \in 1 .. Len(q) : Append(q, x)[k] = q[k]
      /\ Append(q, x)[Len(q) + 1] = x
  OBVIOUS
<1>2. ToSet(q) \cup {x} \subseteq ToSet(Append(q, x))
  BY <1>1 DEF ToSet
<1>3. ToSet(Append(q, x)) \subseteq ToSet(q) \cup {x}
  <2> SUFFICES ASSUME NEW k \in 1 .. Len(q) + 1 PROVE Append(q, x)[k] \in ToSet(q) \cup {x}
    BY <1>1 DEF ToSet
  <2>1. k \in 1 .. Len(q) \/ k = Len(q) + 1
    BY <1>1
  <2> QED BY <1>1, <2>1 DEF ToSet
<1> QED BY <1>1, <1>2, <1>3

\* A set of positions that is not empty has a first one.
LEMMA FirstFacts ==
  ASSUME NEW T, T \subseteq Nat, T # {}
  PROVE  \E i \in T : \A j \in T : ~ (j < i)
<1>1. PICK i \in T : \A j \in T : ~ (<<j, i>> \in OpToRel(<, Nat))
  BY NatLessThanWellFounded, WFMin
<1> QED BY <1>1 DEF OpToRel

\* The place of x in a sequence that holds it.
PlaceIn(q, x) == CHOOSE n \in DOMAIN q : q[n] = x

\* A list without duplicates to which a new entry is added.
LEMMA NewEntry ==
  ASSUME NEW S, NEW q \in Seq(S), IsInjective(q), NEW s \in S, s \notin ToSet(q)
  PROVE  /\ IsInjective(Append(q, s))
         /\ \A x \in ToSet(q) : PlaceIn(q, x) \in 1 .. Len(q) /\ PlaceIn(Append(q, s), x) = PlaceIn(q, x)
         /\ PlaceIn(Append(q, s), s) = Len(q) + 1
<1> DEFINE t == Append(q, s)
<1>1. /\ Len(q) \in Nat /\ DOMAIN q = 1 .. Len(q) /\ DOMAIN t = 1 .. Len(q) + 1
      /\ \A k \in 1 .. Len(q) : t[k] = q[k]
      /\ t[Len(q) + 1] = s
  OBVIOUS
<1> HIDE DEF t
<1>2. \A k \in 1 .. Len(q) : q[k] # s
  BY <1>1 DEF ToSet
<1>3. IsInjective(t)
  <2> SUFFICES ASSUME NEW a \in 1 .. Len(q) + 1, NEW b \in 1 .. Len(q) + 1, t[a] = t[b]
               PROVE  a = b
    BY <1>1 DEF IsInjective
  <2>1. (a \in 1 .. Len(q) \/ a = Len(q) + 1) /\ (b \in 1 .. Len(q) \/ b = Len(q) + 1)
    BY <1>1
  <2> QED BY <1>1, <1>2, <2>1 DEF IsInjective
<1>4. ASSUME NEW x \in ToSet(q)
      PROVE  PlaceIn(q, x) \in 1 .. Len(q) /\ PlaceIn(t, x) = PlaceIn(q, x)
  <2>1. PlaceIn(q, x) \in DOMAIN q /\ q[PlaceIn(q, x)] = x
    BY DEF ToSet, PlaceIn
  <2>2. PlaceIn(q, x) \in DOMAIN t /\ t[PlaceIn(q, x)] = x
    BY <1>1, <2>1
  <2>3. PlaceIn(t, x) \in DOMAIN t /\ t[PlaceIn(t, x)] = x
    BY <2>2 DEF PlaceIn
  <2> QED BY <1>1, <1>3, <2>1, <2>2, <2>3 DEF IsInjective
<1>5. PlaceIn(t, s) = Len(q) + 1
  <2>1. Len(q) + 1 \in DOMAIN t /\ t[Len(q) + 1] = s
    BY <1>1
  <2>2. PlaceIn(t, s) \in DOMAIN t /\ t[PlaceIn(t, s)] = s
    BY <2>1 DEF PlaceIn
  <2> QED BY <1>3, <2>1, <2>2 DEF IsInjective
<1> QED BY <1>3, <1>4, <1>5 DEF t

-----------------------------------------------------------------------------
(* The inductive invariant.                                                *)

Pending(f) == state[f] = "pending"
IsRace(k) == kind[k] \in {"race", "timeout"}

\* A composition has its members from the call on, which all exist by then, and
\* a future is a member of one composition, at one place.
MembersSound ==
  /\ \A f \in Leaf : state[f] # "unborn"
  /\ \A k \in Comp : kind[k] = None <=> state[k] = "unborn"
  /\ \A k \in Comp : kind[k] = None => members[k] = <<>>
  /\ \A k \in Comp : \A i \in DOMAIN members[k] :
       members[k][i] # None => state[members[k][i]] # "unborn"
  /\ \A h, k \in Comp : \A i \in DOMAIN members[h], j \in DOMAIN members[k] :
       members[h][i] = members[k][j] /\ members[h][i] # None => h = k /\ i = j

\* A slot leads to the composition of the future, and as long as both are pending
\* the slot is set; only a future that has settled is due.
SlotsSound ==
  /\ \A f \in Future : slot[f] # None => Of(slot[f], f)
  /\ \A k \in Comp, f \in Future : Of(k, f) /\ Pending(f) /\ Pending(k) => slot[f] = k
  /\ due # None => Settled(due) /\ slot[due] # None

\* What has settled is in the log.
LogSound == \A f \in Future : Settled(f) <=> f \in ToSet(log)

\* The members that on_all_child has counted, or the call before it.
Counted(k) ==
  {i \in DOMAIN members[k] :
     members[k][i] = None \/ (Settled(members[k][i]) /\ members[k][i] # due)}

\* A pending `all` has counted what has settled, which has all completed.
WaitingAll(k) ==
  kind[k] = "all" /\ Pending(k) =>
    /\ done[k] = Cardinality(Counted(k)) /\ Len(outs[k]) = Len(members[k])
    /\ \A i \in DOMAIN members[k] :
         members[k][i] # None /\ Settled(members[k][i]) /\ members[k][i] # due =>
           state[members[k][i]] = "completed" /\ outs[k][i] = payload[members[k][i]]

\* No member of a pending race has settled, but for the one that is due.
RaceWaits(k) ==
  IsRace(k) /\ Pending(k) => \A f \in Future : Of(k, f) /\ Settled(f) => f = due

Waiting == \A k \in Comp :
  /\ WaitingAll(k) /\ RaceWaits(k)
  /\ state[k] \in {"unborn", "pending"} => ~ closed[k]

\* AllExact and RaceFirst of one composition.
AllRight(k) ==
  kind[k] = "all" =>
    /\ state[k] = "completed" =>
         \A i \in DOMAIN members[k] : members[k][i] # None =>
           state[members[k][i]] = "completed" /\ outs[k][i] = payload[members[k][i]]
    /\ state[k] \in {"failed", "cancelled"} =>
         \E f \in Future : Of(k, f) /\ state[f] = state[k] /\ payload[f] = payload[k]

At(x) == PlaceIn(log, x)
Place(k, x) == CHOOSE i \in DOMAIN members[k] :
                 members[k][i] = x /\ \A j \in 1 .. i - 1 : members[k][j] # x

RaceRight(k) ==
  IsRace(k) /\ Settled(k) /\ members[k] # <<>> =>
    \E f \in Future :
      /\ Of(k, f) /\ state[k] = state[f] /\ payload[k] = payload[f]
      /\ Settled(f)
      /\ \A g \in Future : Of(k, g) /\ Settled(g) /\ g # f =>
           At(f) < At(g) \/ (At(g) < At(k) /\ Place(k, f) < Place(k, g))

Ended == \A k \in Comp : AllRight(k) /\ RaceRight(k)

ComposeInv == TypeOK /\ MembersSound /\ SlotsSound /\ LogSound /\ Waiting /\ Ended

-----------------------------------------------------------------------------
(* A future settles.                                                       *)

LEMMA SettleStep ==
  ASSUME ComposeInv, NEW s \in Future, Pending(s), NEW o \in Outcomes,
         NEW p \in Leaf \cup {None}, SettleTo(s, o, p),
         UNCHANGED <<slot, kind, members>>, due = None \/ slot[due] = s,
         \A h \in Comp \ {s} : outs'[h] = outs[h] /\ done'[h] = done[h] /\ closed'[h] = closed[h]
  PROVE  /\ state' = [state EXCEPT ![s] = o] /\ state' \in [Future -> {"unborn", "pending"} \cup Outcomes]
         /\ payload' \in [Future -> Leaf \cup {None}] /\ payload'[s] = p
         /\ \A f \in Future \ {s} : payload'[f] = payload[f]
         /\ due' \in Future \cup {None} /\ (due' # None => due' = s)
         /\ log' \in Seq(Future) /\ IsInjective(log')
         /\ MembersSound' /\ SlotsSound' /\ LogSound' /\ Waiting'
         /\ \A h \in Comp \ {s} : AllRight(h)' /\ RaceRight(h)'
         /\ At(s)' = Len(log) + 1
         /\ \A f \in Future : Settled(f) => At(f)' = At(f) /\ At(f) \in 1 .. Len(log)
<1>1. /\ state' = [state EXCEPT ![s] = o] /\ payload' = [payload EXCEPT ![s] = p]
      /\ log' = Append(log, s) /\ due' = IF slot[s] = None THEN None ELSE s
  BY DEF SettleTo, Pending
<1>2. /\ state \in [Future -> {"unborn", "pending"} \cup Outcomes]
      /\ payload \in [Future -> Leaf \cup {None}] /\ log \in Seq(Future) /\ IsInjective(log)
      /\ slot \in [Future -> Comp \cup {None}] /\ None \notin Future
      /\ members \in [Comp -> Seq(Future \cup {None})]
  BY ComposeAssumption DEF ComposeInv, TypeOK
<1>3. /\ state' \in [Future -> {"unborn", "pending"} \cup Outcomes]
      /\ payload' \in [Future -> Leaf \cup {None}] /\ payload'[s] = p
      /\ \A f \in Future \ {s} : payload'[f] = payload[f] /\ state'[f] = state[f]
      /\ state'[s] = o /\ due' \in Future \cup {None} /\ (due' # None => due' = s)
  BY <1>1, <1>2
<1>4. ~ Settled(s) /\ Settled(s)' /\ \A f \in Future \ {s} : Settled(f)' <=> Settled(f)
  BY <1>3 DEF Settled, Pending, Outcomes
<1>5. s \notin ToSet(log)
  BY <1>4 DEF ComposeInv, LogSound
<1>6. /\ log' \in Seq(Future) /\ IsInjective(log') /\ ToSet(log') = ToSet(log) \cup {s}
      /\ At(s)' = Len(log) + 1
      /\ \A f \in ToSet(log) : At(f)' = At(f) /\ At(f) \in 1 .. Len(log)
  BY <1>1, <1>2, <1>5, AppendFacts, NewEntry DEF At
<1>7. \A f \in Future : Settled(f) => At(f)' = At(f) /\ At(f) \in 1 .. Len(log)
  BY <1>6 DEF ComposeInv, LogSound
<1>8. LogSound'
  BY <1>4, <1>6 DEF ComposeInv, LogSound
<1>9. MembersSound'
  <2>1. state[s] # "unborn" /\ state'[s] # "unborn"
    BY <1>3 DEF Pending, Outcomes
  <2>2. \A k \in Comp : \A i \in DOMAIN members[k] : members[k][i] \in Future \cup {None}
    BY <1>2
  <2>3. \A f \in Future : state'[f] = "unborn" <=> state[f] = "unborn"
    BY <1>3, <2>1
  <2>4. members' = members /\ kind' = kind /\ Leaf \subseteq Future /\ Comp \subseteq Future
    BY DEF Future
  <2>5. \A k \in Comp : \A i \in DOMAIN members[k] :
          members[k][i] # None => state'[members[k][i]] # "unborn"
    BY <2>2, <2>3 DEF ComposeInv, MembersSound
  <2> QED BY <2>3, <2>4, <2>5 DEF ComposeInv, MembersSound
<1>10. SlotsSound'
  <2>1. \A f \in Future : slot'[f] # None => Of(slot[f], f)'
    BY DEF ComposeInv, SlotsSound, Of
  <2>2. ASSUME NEW k \in Comp, NEW f \in Future, Of(k, f)', Pending(f)', Pending(k)' PROVE slot'[f] = k
    <3>1. f # s /\ k # s /\ k \in Future
      BY <1>3, <2>2 DEF Pending, Outcomes, Future
    <3> QED BY <1>3, <2>2, <3>1 DEF Pending, ComposeInv, SlotsSound, Of
  <2>3. due' # None => Settled(due)' /\ slot'[due'] # None
    BY <1>1, <1>2, <1>4
  <2> QED BY <2>1, <2>2, <2>3 DEF SlotsSound
<1>11. ASSUME NEW h \in Comp \ {s}
       PROVE  /\ outs'[h] = outs[h] /\ done'[h] = done[h] /\ closed'[h] = closed[h]
              /\ members'[h] = members[h] /\ kind'[h] = kind[h]
              /\ state'[h] = state[h] /\ payload'[h] = payload[h] /\ h \in Future
              /\ \A f \in Future : Of(h, f)' <=> Of(h, f)
  BY <1>3 DEF Of, Future
\* A pending composition of which s is a member is told of it.
<1>12. ASSUME NEW h \in Comp \ {s}, Pending(h), NEW f \in Future, Of(h, f)
       PROVE  f # due /\ (f = s => due' = s)
  <2>1. CASE f = s
    <3>1. slot[s] = h
      BY <1>12, <2>1 DEF ComposeInv, SlotsSound
    <3>2. due' = s
      BY <1>1, <1>2, <3>1, ComposeAssumption DEF Future
    <3>3. s # due
      BY <1>2, <1>4 DEF ComposeInv, SlotsSound
    <3> QED BY <2>1, <3>2, <3>3
  <2>2. CASE f # s
    <3> SUFFICES ASSUME f = due PROVE FALSE
      BY <2>2
    <3>1. slot[f] = s /\ Of(s, f)
      BY <1>2 DEF ComposeInv, SlotsSound
    <3>2. s \in Comp
      BY <1>2, <3>1
    <3>3. PICK i \in DOMAIN members[h], j \in DOMAIN members[s] : members[h][i] = f /\ members[s][j] = f
      BY <1>12, <3>1 DEF Of
    <3> QED BY <1>2, <3>2, <3>3 DEF ComposeInv, MembersSound
  <2> QED BY <2>1, <2>2
<1>13. ASSUME NEW h \in Comp \ {s} PROVE WaitingAll(h)' /\ RaceWaits(h)'
  <2> SUFFICES ASSUME Pending(h) PROVE WaitingAll(h)' /\ RaceWaits(h)'
    BY <1>11 DEF WaitingAll, RaceWaits, Pending
  <2>1. \A i \in DOMAIN members[h] : members[h][i] # None =>
          /\ members[h][i] \in Future /\ Of(h, members[h][i])
    BY <1>2 DEF Of
  <2>2. ASSUME NEW f \in Future, Of(h, f)
        PROVE  /\ (Settled(f)' /\ f # due') <=> (Settled(f) /\ f # due)
               /\ Settled(f) => f # s
    BY <1>2, <1>3, <1>4, <1>12, <2>2
  <2>3. Counted(h)' = Counted(h)
    BY <1>11, <2>1, <2>2 DEF Counted
  <2>4. WaitingAll(h)'
    <3>1. WaitingAll(h)
      BY DEF ComposeInv, Waiting
    <3> QED BY <1>3, <1>11, <2>1, <2>2, <2>3, <3>1 DEF WaitingAll, Pending
  <2>5. RaceWaits(h)'
    <3>1. RaceWaits(h)
      BY DEF ComposeInv, Waiting
    <3> QED BY <1>11, <2>2, <3>1 DEF RaceWaits, Pending, IsRace
  <2> QED BY <2>4, <2>5
<1>14. Waiting'
  <2>1. \A h \in Comp : state'[h] \in {"unborn", "pending"} => h # s
    BY <1>3 DEF Outcomes
  <2>2. \A h \in Comp : state'[h] \in {"unborn", "pending"} => ~ closed'[h]
    BY <1>11, <2>1 DEF ComposeInv, Waiting
  <2>3. s \in Comp => WaitingAll(s)' /\ RaceWaits(s)'
    BY <1>3 DEF WaitingAll, RaceWaits, Pending, Outcomes
  <2> QED BY <1>13, <2>2, <2>3 DEF Waiting
<1>15. ASSUME NEW h \in Comp \ {s} PROVE AllRight(h)' /\ RaceRight(h)'
  <2>1. \A i \in DOMAIN members[h] : members[h][i] # None => members[h][i] \in Future
    BY <1>2
  <2>2. AllRight(h)'
    <3>1. AllRight(h)
      BY DEF ComposeInv, Ended
    <3>2. \A f \in Future : state[f] \in Outcomes => state'[f] = state[f] /\ payload'[f] = payload[f]
      BY <1>3, <1>4 DEF Settled
    <3> QED BY <1>11, <2>1, <3>1, <3>2 DEF AllRight, Outcomes
  <2>3. RaceRight(h)'
    <3> SUFFICES ASSUME IsRace(h), Settled(h), members[h] # <<>> PROVE RaceRight(h)'
      BY <1>4, <1>11 DEF RaceRight, IsRace
    <3>1. PICK f \in Future :
             /\ Of(h, f) /\ state[h] = state[f] /\ payload[h] = payload[f] /\ Settled(f)
             /\ \A g \in Future : Of(h, g) /\ Settled(g) /\ g # f =>
                  At(f) < At(g) \/ (At(g) < At(h) /\ Place(h, f) < Place(h, g))
      BY DEF ComposeInv, Ended, RaceRight
    <3>2. f # s /\ state'[f] = state[f] /\ payload'[f] = payload[f] /\ Settled(f)' /\ Of(h, f)'
      BY <1>3, <1>4, <1>11, <3>1
    <3>3. \A x : Place(h, x)' = Place(h, x)
      BY <1>11 DEF Place
    <3>4. ASSUME NEW g \in Future, Of(h, g)', Settled(g)', g # f
          PROVE  At(f)' < At(g)' \/ (At(g)' < At(h)' /\ Place(h, f)' < Place(h, g)')
      <4>1. CASE g = s
        <5>1. At(f)' \in 1 .. Len(log) /\ At(g)' = Len(log) + 1
          BY <1>6, <1>7, <3>1, <4>1
        <5> QED BY <1>2, <5>1
      <4>2. CASE g # s
        <5>1. Settled(g) /\ Of(h, g)
          BY <1>4, <1>11, <3>4, <4>2
        <5> QED BY <1>7, <1>11, <3>1, <3>3, <3>4, <5>1
      <4> QED BY <4>1, <4>2
    <3> QED BY <1>11, <3>1, <3>2, <3>4 DEF RaceRight
  <2> QED BY <2>2, <2>3
<1> QED BY <1>1, <1>3, <1>6, <1>7, <1>8, <1>9, <1>10, <1>14, <1>15

LEMMA LeafStep ==
  ASSUME ComposeInv, NEW f \in Leaf, NEW o \in Outcomes, SettleLeaf(f, o)
  PROVE  ComposeInv'
<1> DEFINE p == IF o = "cancelled" THEN None ELSE f
<1>1. /\ f \in Future /\ f \notin Comp /\ p \in Leaf \cup {None} /\ Pending(f)
      /\ due = None /\ SettleTo(f, o, p)
      /\ UNCHANGED <<slot, kind, members, outs, done, closed, verdict>>
  BY ComposeAssumption DEF SettleLeaf, Future, Pending
<1> HIDE DEF p
<1>2. /\ state' \in [Future -> {"unborn", "pending"} \cup Outcomes]
      /\ payload' \in [Future -> Leaf \cup {None}] /\ due' \in Future \cup {None}
      /\ log' \in Seq(Future) /\ IsInjective(log')
      /\ MembersSound' /\ SlotsSound' /\ LogSound' /\ Waiting'
      /\ \A h \in Comp \ {f} : AllRight(h)' /\ RaceRight(h)'
  BY <1>1, SettleStep
<1>3. TypeOK'
  BY <1>1, <1>2 DEF ComposeInv, TypeOK
<1> QED BY <1>1, <1>2, <1>3 DEF ComposeInv, Ended

-----------------------------------------------------------------------------
(* The callback of the future that is due.                                 *)

\* It is a member of one composition, and reports to that.
LEMMA DueFacts ==
  ASSUME ComposeInv, due # None
  PROVE  /\ due \in Future /\ slot[due] \in Comp /\ Of(slot[due], due)
         /\ Settled(due)
         /\ \A h \in Comp \ {slot[due]} : ~ Of(h, due)
<1>1. /\ due \in Future /\ Settled(due) /\ slot[due] \in Comp /\ Of(slot[due], due)
      /\ None \notin Future
  BY ComposeAssumption DEF ComposeInv, TypeOK, SlotsSound
<1>2. ASSUME NEW h \in Comp \ {slot[due]}, Of(h, due) PROVE FALSE
  <2>1. PICK i \in DOMAIN members[h], j \in DOMAIN members[slot[due]] :
           members[h][i] = due /\ members[slot[due]][j] = due
    BY <1>1, <1>2 DEF Of
  <2> QED BY <1>1, <2>1 DEF ComposeInv, MembersSound
<1> QED BY <1>1, <1>2

\* A callback that settles nothing.
LEMMA StillStep ==
  ASSUME ComposeInv, NEW f \in Future, NEW k \in Comp, f = due, k = slot[f], due' = None,
         UNCHANGED <<state, payload, slot, kind, members, log, closed>>,
         \A h \in Comp \ {k} : outs'[h] = outs[h] /\ done'[h] = done[h]
  PROVE  /\ MembersSound' /\ SlotsSound' /\ LogSound'
         /\ \A h \in Comp \ {k} :
              WaitingAll(h)' /\ RaceWaits(h)' /\ AllRight(h)' /\ RaceRight(h)'
         /\ RaceRight(k)'
         /\ \A h \in Comp : state'[h] \in {"unborn", "pending"} => ~ closed'[h]
<1>1. /\ members \in [Comp -> Seq(Future \cup {None})] /\ None \notin Future
      /\ due # None
  BY ComposeAssumption DEF ComposeInv, TypeOK
<1>2. \A h \in Comp \ {k} : ~ Of(h, due)
  BY <1>1, DueFacts
<1>3. MembersSound' /\ SlotsSound' /\ LogSound'
  BY DEF ComposeInv, MembersSound, SlotsSound, LogSound, Settled, Pending, Of
<1>4. ASSUME NEW h \in Comp \ {k} PROVE WaitingAll(h)' /\ RaceWaits(h)'
  <2>1. WaitingAll(h) /\ RaceWaits(h)
    BY DEF ComposeInv, Waiting
  <2>2. \A i \in DOMAIN members[h] : members[h][i] # None => members[h][i] # due /\ members[h][i] # due'
    BY <1>1, <1>2 DEF Of
  <2>3. Counted(h)' = Counted(h)
    BY <2>2 DEF Counted, Settled
  <2>4. WaitingAll(h)'
    BY <2>1, <2>2, <2>3 DEF WaitingAll, Pending, Settled
  <2>5. RaceWaits(h)'
    BY <1>2, <2>1 DEF RaceWaits, IsRace, Pending, Settled, Of
  <2> QED BY <2>4, <2>5
<1>5. ASSUME NEW h \in Comp PROVE RaceRight(h)'
  <2>1. RaceRight(h)
    BY DEF ComposeInv, Ended
  <2> QED BY <2>1 DEF RaceRight, IsRace, Settled, Of, At, Place
<1>6. ASSUME NEW h \in Comp \ {k} PROVE AllRight(h)'
  <2>1. AllRight(h)
    BY DEF ComposeInv, Ended
  <2> QED BY <2>1 DEF AllRight, Of
<1>7. \A h \in Comp : state'[h] \in {"unborn", "pending"} => ~ closed'[h]
  BY DEF ComposeInv, Waiting
<1> QED BY <1>2, <1>3, <1>4, <1>5, <1>6, <1>7

\* The composition has settled before: nothing happens.
LEMMA LateChildStep ==
  ASSUME ComposeInv, NEW f \in Future, NEW k \in Comp, f = due, k = slot[f], due' = None,
         closed[k] \/ state[k] # "pending",
         UNCHANGED <<state, payload, slot, kind, members, outs, done, closed, verdict, log>>
  PROVE  ComposeInv'
<1>2. state[k] # "pending"
  BY DEF ComposeInv, Waiting
<1>3. /\ MembersSound' /\ SlotsSound' /\ LogSound' /\ RaceRight(k)'
      /\ \A h \in Comp \ {k} : WaitingAll(h)' /\ RaceWaits(h)' /\ AllRight(h)' /\ RaceRight(h)'
      /\ \A h \in Comp : state'[h] \in {"unborn", "pending"} => ~ closed'[h]
  BY StillStep
<1>4. WaitingAll(k)' /\ RaceWaits(k)'
  BY <1>2 DEF WaitingAll, RaceWaits, Pending
<1>5. AllRight(k)'
  <2>1. AllRight(k)
    BY DEF ComposeInv, Ended
  <2> QED BY <2>1 DEF AllRight, Of
<1>6. TypeOK'
  BY DEF ComposeInv, TypeOK
<1> QED BY <1>3, <1>4, <1>5, <1>6 DEF ComposeInv, Waiting, Ended

\* The composition settles with the member that is due.
LEMMA ChildEndsStep ==
  ASSUME ComposeInv, NEW f \in Future, NEW k \in Comp, f = due, k = slot[f], Pending(k),
         SettleTo(k, state[f], payload[f]), closed' = [closed EXCEPT ![k] = TRUE],
         UNCHANGED <<slot, kind, members, outs, done, verdict>>,
         kind[k] = "all" => state[f] \in {"failed", "cancelled"}
  PROVE  ComposeInv'
<1>1. /\ k \in Future /\ Of(k, f) /\ Settled(f)
      /\ payload[f] \in Leaf \cup {None} /\ state[f] \in Outcomes
      /\ members \in [Comp -> Seq(Future \cup {None})] /\ log \in Seq(Future)
  BY DueFacts, ComposeAssumption DEF ComposeInv, TypeOK, Future, Settled
<1>2. f # k
  BY <1>1 DEF Pending, Settled, Outcomes
<1>3. /\ state' = [state EXCEPT ![k] = state[f]]
      /\ state' \in [Future -> {"unborn", "pending"} \cup Outcomes]
      /\ payload' \in [Future -> Leaf \cup {None}] /\ payload'[k] = payload[f]
      /\ \A g \in Future \ {k} : payload'[g] = payload[g]
      /\ due' \in Future \cup {None}
      /\ log' \in Seq(Future) /\ IsInjective(log')
      /\ MembersSound' /\ SlotsSound' /\ LogSound' /\ Waiting'
      /\ \A h \in Comp \ {k} : AllRight(h)' /\ RaceRight(h)'
      /\ At(k)' = Len(log) + 1
      /\ \A g \in Future : Settled(g) => At(g)' = At(g) /\ At(g) \in 1 .. Len(log)
  <2>2. \A h \in Comp \ {k} : outs'[h] = outs[h] /\ done'[h] = done[h] /\ closed'[h] = closed[h]
    BY DEF ComposeInv, TypeOK
  <2>1. due = None \/ slot[due] = k
    OBVIOUS
  <2>3. PICK o \in Outcomes, p \in Leaf \cup {None} : o = state[f] /\ p = payload[f]
    BY <1>1
  <2>4. SettleTo(k, o, p) /\ UNCHANGED <<slot, kind, members>>
    BY <2>3
  <2>5. /\ state' = [state EXCEPT ![k] = o]
        /\ state' \in [Future -> {"unborn", "pending"} \cup Outcomes]
    BY <1>1, <2>1, <2>2, <2>4, SettleStep
  <2>8. /\ payload' \in [Future -> Leaf \cup {None}] /\ payload'[k] = p
        /\ \A g \in Future \ {k} : payload'[g] = payload[g]
        /\ due' \in Future \cup {None}
    <3>1. /\ payload' = [payload EXCEPT ![k] = p]
          /\ due' = IF slot[k] = None THEN None ELSE k
      BY <2>4 DEF SettleTo, Pending
    <3>2. payload \in [Future -> Leaf \cup {None}]
      BY DEF ComposeInv, TypeOK
    <3> QED BY <1>1, <3>1, <3>2
  <2>9. /\ log' \in Seq(Future) /\ IsInjective(log')
        /\ MembersSound' /\ SlotsSound' /\ LogSound' /\ Waiting'
        /\ \A h \in Comp \ {k} : AllRight(h)' /\ RaceRight(h)'
    BY <1>1, <2>1, <2>2, <2>4, SettleStep
  <2>6. At(k)' = Len(log) + 1
    BY <1>1, <2>1, <2>2, <2>4, SettleStep
  <2>7. \A g \in Future : Settled(g) => At(g)' = At(g) /\ At(g) \in 1 .. Len(log)
    BY <1>1, <2>1, <2>2, <2>4, SettleStep
  <2> QED BY <2>3, <2>5, <2>6, <2>7, <2>8, <2>9
<1>4. TypeOK'
  <2>1. closed' \in [Comp -> BOOLEAN]
    BY DEF ComposeInv, TypeOK
  <2> QED BY <1>3, <2>1 DEF ComposeInv, TypeOK
<1>5. /\ state'[k] = state[f] /\ state'[f] = state[f] /\ payload'[k] = payload[f]
      /\ payload'[f] = payload[f] /\ Of(k, f)'
  BY <1>1, <1>2, <1>3 DEF ComposeInv, TypeOK, Of
<1>6. AllRight(k)'
  BY <1>1, <1>5 DEF AllRight
<1>7. RaceRight(k)'
  <2> SUFFICES ASSUME IsRace(k) PROVE RaceRight(k)'
    BY DEF RaceRight, IsRace
  <2>1. \A g \in Future : Of(k, g) /\ Settled(g) => g = f
    BY <1>1 DEF ComposeInv, Waiting, RaceWaits
  <2>2. Settled(f)'
    BY <1>1, <1>5 DEF Settled
  <2>3. ASSUME NEW g \in Future, Of(k, g)', Settled(g)', g # f PROVE At(f)' < At(g)'
    <3>1. g = k
      BY <1>3, <2>1, <2>3 DEF Of, Settled, ComposeInv, TypeOK
    <3>2. At(f)' \in 1 .. Len(log) /\ At(g)' = Len(log) + 1 /\ Len(log) \in Nat
      BY <1>1, <1>3, <3>1
    <3> QED BY <3>2
  <2> QED BY <1>1, <1>5, <2>2, <2>3 DEF RaceRight
<1> QED BY <1>3, <1>4, <1>6, <1>7 DEF ComposeInv, Ended

\* A member of `all` that has completed is counted, and the last one completes
\* the result.
LEMMA ChildCountedStep ==
  ASSUME ComposeInv, NEW f \in Future, NEW k \in Comp, f = due, k = slot[f], Pending(k),
         kind[k] = "all", state[f] = "completed", AllChild(f, k),
         UNCHANGED <<slot, kind, members, verdict>>
  PROVE  ComposeInv'
<1> DEFINE n == Len(members[k])
<1>1. /\ k \in Future /\ Of(k, f) /\ Settled(f) /\ due # None /\ None \notin Future
      /\ payload[f] \in Leaf \cup {None} /\ ~ closed[k]
      /\ members \in [Comp -> Seq(Future \cup {None})] /\ n \in Nat /\ DOMAIN members[k] = 1 .. n
  <2>1. /\ due # None /\ None \notin Future /\ Comp \subseteq Future
        /\ members \in [Comp -> Seq(Future \cup {None})] /\ payload \in [Future -> Leaf \cup {None}]
    BY ComposeAssumption DEF ComposeInv, TypeOK, Future
  <2>2. Of(k, f) /\ Settled(f)
    BY <2>1, DueFacts
  <2>3. ~ closed[k]
    BY DEF ComposeInv, Waiting, Pending
  <2>4. n \in Nat /\ DOMAIN members[k] = 1 .. n
    BY <2>1
  <2> QED BY <2>1, <2>2, <2>3, <2>4
<1>2. PICK i \in 1 .. n : members[k][i] = f /\ \A j \in 1 .. n \ {i} : members[k][j] # f
  BY <1>1 DEF Of, ComposeInv, MembersSound
<1>3. /\ outs' = [outs EXCEPT ![k][i] = payload[f]]
      /\ done' = [done EXCEPT ![k] = @ + 1]
      /\ closed' = closed
      /\ IF done[k] + 1 >= n THEN SettleTo(k, "completed", None)
         ELSE due' = None /\ UNCHANGED <<state, payload, log>>
  <2> DEFINE c == CHOOSE c \in DOMAIN members[k] :
                    members[k][c] = f /\ \A j \in 1 .. c - 1 : members[k][j] # f
  <2>1. i \in DOMAIN members[k] /\ \A j \in 1 .. i - 1 : members[k][j] # f
    BY <1>1, <1>2
  <2>2. c \in DOMAIN members[k] /\ members[k][c] = f
    BY <1>2, <2>1
  <2>3. c = i
    BY <1>1, <1>2, <2>2
  <2>4. closed' = closed /\ outs' = [outs EXCEPT ![k][c] = payload[f]] /\ done' = [done EXCEPT ![k] = @ + 1]
        /\ IF done[k] + 1 >= n THEN SettleTo(k, "completed", None)
           ELSE due' = None /\ UNCHANGED <<state, payload, log>>
    BY <1>1 DEF AllChild, Pending
  <2> HIDE DEF c
  <2> QED BY <2>3, <2>4
<1> HIDE DEF n
<1>4. /\ done[k] = Cardinality(Counted(k)) /\ Len(outs[k]) = n /\ outs[k] \in Seq(Leaf \cup {None})
      /\ \A j \in 1 .. n : members[k][j] # None /\ Settled(members[k][j]) /\ members[k][j] # f =>
           state[members[k][j]] = "completed" /\ outs[k][j] = payload[members[k][j]]
  <2>1. WaitingAll(k) /\ outs[k] \in Seq(Leaf \cup {None})
    BY DEF ComposeInv, Waiting, TypeOK
  <2> QED BY <1>1, <2>1 DEF WaitingAll, n
<1>5. /\ outs' \in [Comp -> Seq(Leaf \cup {None})] /\ Len(outs'[k]) = n
      /\ outs'[k][i] = payload[f] /\ \A j \in 1 .. n \ {i} : outs'[k][j] = outs[k][j]
      /\ \A h \in Comp \ {k} : outs'[h] = outs[h] /\ done'[h] = done[h] /\ closed'[h] = closed[h]
      /\ done' \in [Comp -> Nat] /\ done'[k] = done[k] + 1 /\ done[k] \in Nat
  <2>1. outs \in [Comp -> Seq(Leaf \cup {None})] /\ done \in [Comp -> Nat]
    BY DEF ComposeInv, TypeOK
  <2>2. DOMAIN outs[k] = 1 .. n
    BY <1>4
  <2>3. [outs[k] EXCEPT ![i] = payload[f]] \in Seq(Leaf \cup {None})
        /\ Len([outs[k] EXCEPT ![i] = payload[f]]) = n
    BY <1>1, <1>2, <1>4, <2>2
  <2> QED BY <1>1, <1>2, <1>3, <2>1, <2>2, <2>3
<1>6. /\ Counted(k) \subseteq 1 .. n \ {i} /\ IsFiniteSet(Counted(k))
      /\ IsFiniteSet(1 .. n) /\ Cardinality(1 .. n) = n
      /\ IsFiniteSet(1 .. n \ {i}) /\ Cardinality(1 .. n \ {i}) = n - 1
  <2>1. Counted(k) \subseteq 1 .. n \ {i}
    BY <1>1, <1>2 DEF Counted
  <2>2. IsFiniteSet(1 .. n) /\ Cardinality(1 .. n) = n
    <3>1. IsFiniteSet(1 .. n) /\ Cardinality(1 .. n) = IF 1 > n THEN 0 ELSE n - 1 + 1
      BY <1>1, FS_Interval
    <3> QED BY <1>1, <3>1
  <2>3. IsFiniteSet(1 .. n \ {i}) /\ Cardinality(1 .. n \ {i}) = n - 1
    BY <1>2, <2>2, FS_RemoveElement
  <2> QED BY <2>1, <2>2, <2>3, FS_Subset
<1>7. CASE done[k] + 1 >= n
  <2>1. Counted(k) = 1 .. n \ {i}
    <3>1. Cardinality(Counted(k)) <= n - 1
          /\ (n - 1 = Cardinality(Counted(k)) => 1 .. n \ {i} = Counted(k))
      BY <1>6, FS_Subset
    <3> QED BY <1>1, <1>4, <1>5, <1>7, <3>1
  <2>2. SettleTo(k, "completed", None) /\ (due = None \/ slot[due] = k) /\ "completed" \in Outcomes
    BY <1>3, <1>7 DEF Outcomes
  <2>3. /\ state' = [state EXCEPT ![k] = "completed"]
        /\ state' \in [Future -> {"unborn", "pending"} \cup Outcomes]
        /\ payload' \in [Future -> Leaf \cup {None}]
        /\ \A g \in Future \ {k} : payload'[g] = payload[g]
        /\ due' \in Future \cup {None}
        /\ log' \in Seq(Future) /\ IsInjective(log')
        /\ MembersSound' /\ SlotsSound' /\ LogSound' /\ Waiting'
        /\ \A h \in Comp \ {k} : AllRight(h)' /\ RaceRight(h)'
    BY <1>1, <1>5, <2>2, SettleStep
  <2>4. TypeOK'
    BY <1>3, <1>5, <2>3 DEF ComposeInv, TypeOK
  <2>5. AllRight(k)'
    <3>1. state'[k] = "completed" /\ kind'[k] = "all" /\ members'[k] = members[k]
      BY <1>1, <2>3 DEF ComposeInv, TypeOK
    <3>2. ASSUME NEW j \in 1 .. n, members[k][j] # None
          PROVE  state'[members[k][j]] = "completed" /\ outs'[k][j] = payload'[members[k][j]]
      <4>1. members[k][j] \in Future /\ members[k][j] # k
        <5>1. members[k][j] \in Future
          BY <1>1, <3>2
        <5>2. j = i => members[k][j] # k
          BY <1>1, <1>2 DEF Pending, Settled, Outcomes
        <5>3. j # i => Settled(members[k][j])
          BY <2>1, <3>2 DEF Counted
        <5> QED BY <5>1, <5>2, <5>3 DEF Pending, Settled, Outcomes
      <4>2. state'[members[k][j]] = state[members[k][j]] /\ payload'[members[k][j]] = payload[members[k][j]]
        BY <2>3, <4>1 DEF ComposeInv, TypeOK
      <4>3. CASE j = i
        <5>1. members[k][j] = f /\ outs'[k][j] = payload[f]
          BY <1>2, <1>5, <4>3
        <5>2. payload'[members[k][j]] = payload[members[k][j]] /\ state'[members[k][j]] = state[members[k][j]]
          BY <4>2
        <5> QED BY <5>1, <5>2
      <4>4. CASE j # i
        <5>1. Settled(members[k][j]) /\ members[k][j] # f
          BY <1>2, <2>1, <3>2, <4>4 DEF Counted
        <5>2. state[members[k][j]] = "completed" /\ outs[k][j] = payload[members[k][j]]
          BY <1>4, <3>2, <5>1
        <5>3. outs'[k][j] = outs[k][j]
          BY <1>5, <4>4
        <5> QED BY <4>2, <5>2, <5>3
      <4> QED BY <4>3, <4>4
    <3> QED BY <1>1, <3>1, <3>2 DEF AllRight
  <2>6. RaceRight(k)'
    BY DEF RaceRight, IsRace
  <2> QED BY <2>3, <2>4, <2>5, <2>6 DEF ComposeInv, Ended
<1>8. CASE ~ (done[k] + 1 >= n)
  <2>1. due' = None /\ UNCHANGED <<state, payload, log>>
    BY <1>3, <1>8
  <2>2. /\ MembersSound' /\ SlotsSound' /\ LogSound' /\ RaceRight(k)'
        /\ \A h \in Comp \ {k} : WaitingAll(h)' /\ RaceWaits(h)' /\ AllRight(h)' /\ RaceRight(h)'
        /\ \A h \in Comp : state'[h] \in {"unborn", "pending"} => ~ closed'[h]
    BY <1>3, <1>5, <2>1, StillStep
  <2>3. TypeOK'
    BY <1>3, <1>5, <2>1 DEF ComposeInv, TypeOK
  <2>4. AllRight(k)' /\ RaceWaits(k)'
    BY <2>1 DEF AllRight, RaceWaits, IsRace, Pending
  <2>5. WaitingAll(k)'
    <3>1. Counted(k)' = Counted(k) \cup {i} /\ i \notin Counted(k)
      <4>1. \A j \in 1 .. n : members[k][j] # None => members[k][j] # due'
        BY <2>1
      <4>2. Counted(k)' = {j \in 1 .. n : members[k][j] = None \/ Settled(members[k][j])}
        BY <1>1, <2>1, <4>1 DEF Counted, Settled
      <4>3. Counted(k) = {j \in 1 .. n : members[k][j] = None \/ (Settled(members[k][j]) /\ members[k][j] # f)}
        BY <1>1 DEF Counted
      <4> QED BY <1>1, <1>2, <4>2, <4>3
    <3>2. Cardinality(Counted(k)') = done'[k]
      <4>1. Cardinality(Counted(k) \cup {i}) = Cardinality(Counted(k)) + 1
        BY <1>6, <3>1, FS_AddElement
      <4> QED BY <1>4, <1>5, <3>1, <4>1
    <3>3. ASSUME NEW j \in 1 .. n, members[k][j] # None, Settled(members[k][j])
          PROVE  state[members[k][j]] = "completed" /\ outs'[k][j] = payload[members[k][j]]
      <4>1. CASE j = i
        BY <1>2, <1>5, <4>1
      <4>2. CASE j # i
        BY <1>2, <1>4, <1>5, <3>3, <4>2
      <4> QED BY <4>1, <4>2
    <3>4. DOMAIN members'[k] = 1 .. n /\ members'[k] = members[k] /\ Len(members'[k]) = n
      BY <1>1 DEF n
    <3> QED BY <1>5, <2>1, <3>2, <3>3, <3>4 DEF WaitingAll, Settled
  <2> QED BY <2>2, <2>3, <2>4, <2>5 DEF ComposeInv, Waiting, Ended
<1> QED BY <1>7, <1>8

LEMMA DueStep == ASSUME ComposeInv, OnSettle PROVE ComposeInv'
<1>1. PICK f \in Future, k \in Comp : f = due /\ k = slot[f] /\ Settled(f)
  BY DueFacts DEF OnSettle
<1>2. /\ IF kind[k] = "all" THEN AllChild(f, k) ELSE RaceChild(f, k) /\ UNCHANGED <<outs, done>>
      /\ UNCHANGED <<slot, kind, members, verdict>>
  BY <1>1 DEF OnSettle
<1>3. CASE closed[k] \/ state[k] # "pending"
  BY <1>1, <1>2, <1>3, LateChildStep DEF AllChild, RaceChild
<1>4. CASE ~ closed[k] /\ Pending(k)
  <2>1. CASE kind[k] = "all" /\ state[f] = "completed"
    BY <1>1, <1>2, <1>4, <2>1, ChildCountedStep
  <2>2. CASE kind[k] = "all" => state[f] \in {"failed", "cancelled"}
    <3>1. SettleTo(k, state[f], payload[f]) /\ closed' = [closed EXCEPT ![k] = TRUE]
          /\ UNCHANGED <<outs, done>>
      BY <1>2, <1>4, <2>2 DEF AllChild, RaceChild, Pending
    <3> QED BY <1>1, <1>2, <1>4, <2>2, <3>1, ChildEndsStep
  <2> QED BY <1>1, <2>1, <2>2 DEF Settled, Outcomes
<1> QED BY <1>3, <1>4 DEF Pending

-----------------------------------------------------------------------------
(* A call of all, race or timeout.                                         *)

\* The first member in a state of S, if there is one.
LEMMA FirstInFacts ==
  ASSUME NEW a \in Seq(Future \cup {None}), NEW S, NEW m, m = FirstIn(a, S)
  PROVE  /\ m \in 1 .. Len(a) + 1
         /\ \A i \in 1 .. Len(a) : a[i] # None /\ state[a[i]] \in S => m <= i
         /\ m <= Len(a) => a[m] # None /\ state[a[m]] \in S
<1> DEFINE bad == {i \in DOMAIN a : a[i] # None /\ state[a[i]] \in S}
<1>1. m = IF bad = {} THEN Len(a) + 1 ELSE CHOOSE i \in bad : \A j \in bad : i <= j
  BY DEF FirstIn
<1>2. Len(a) \in Nat /\ DOMAIN a = 1 .. Len(a) /\ bad \subseteq 1 .. Len(a)
  OBVIOUS
<1>3. CASE bad = {}
  BY <1>1, <1>2, <1>3
<1>4. CASE bad # {}
  <2>1. \E i \in bad : \A j \in bad : i <= j
    <3>1. bad \subseteq Nat
      BY <1>2
    <3>2. PICK i \in bad : \A j \in bad : ~ (j < i)
      BY <1>4, <3>1, FirstFacts
    <3> HIDE DEF bad
    <3> QED BY <3>1, <3>2
  <2>2. m \in bad /\ \A j \in bad : m <= j
    <3> HIDE DEF bad
    <3> QED BY <1>1, <1>4, <2>1
  <2> QED BY <1>2, <2>2
<1> QED BY <1>3, <1>4

\* The composition is there, and the others are as right as before.
AfterMade(k, kd, a, r, n, o, v) ==
  /\ state' \in [Future -> {"unborn", "pending"} \cup Outcomes]
  /\ payload' \in [Future -> Leaf \cup {None}]
  /\ slot' \in [Future -> Comp \cup {None}]
  /\ kind' \in [Comp -> Kinds \cup {None}]
  /\ members' \in [Comp -> Seq(Future \cup {None})]
  /\ outs' \in [Comp -> Seq(Leaf \cup {None})]
  /\ done' \in [Comp -> Nat]
  /\ log' \in Seq(Future) /\ IsInjective(log')
  /\ MembersSound' /\ SlotsSound' /\ LogSound' /\ due' = None
  /\ \A h \in Comp \ {k} : WaitingAll(h)' /\ RaceWaits(h)' /\ AllRight(h)' /\ RaceRight(h)'
  /\ \A h \in Comp \ {k} : state'[h] = state[h]
  /\ state'[k] = o /\ payload'[k] = v /\ kind'[k] = kd /\ members'[k] = a
  /\ outs'[k] = r /\ done'[k] = n
  /\ \A i \in 1 .. Len(a) : a[i] # None =>
       /\ a[i] \in Future /\ a[i] # k
       /\ state'[a[i]] = state[a[i]] /\ payload'[a[i]] = payload[a[i]]
  /\ \A i, j \in 1 .. Len(a) : a[i] = a[j] /\ a[i] # None => i = j
  /\ o # "pending" => At(k)' = Len(log) + 1
  /\ \A f \in Future : Settled(f) => At(f)' = At(f) /\ At(f) \in 1 .. Len(log)

\* What both functions do to the futures there are.
LEMMA MadeStep ==
  ASSUME ComposeInv, SingleUse, NEW k \in Comp, NEW p \in Programs, Callable(k, p),
         due = None, state[k] = "unborn",
         NEW a \in Seq(Future \cup {None}), a = p[2], NEW kd \in Kinds,
         NEW stop \in 1 .. Len(a) + 1, NEW r \in Seq(Leaf \cup {None}), NEW n \in Nat,
         NEW o \in {"pending"} \cup Outcomes, NEW v \in Leaf \cup {None},
         Made(k, kd, a, stop, r, n, o, v), o = "pending" => stop = Len(a) + 1
  PROVE  AfterMade(k, kd, a, r, n, o, v)
<1>1. /\ kind' = [kind EXCEPT ![k] = kd]
      /\ members' = [members EXCEPT ![k] = a]
      /\ slot' = [f \in Future |-> IF f \in Hooked(a, stop) THEN k ELSE slot[f]]
      /\ outs' = [outs EXCEPT ![k] = r]
      /\ done' = [done EXCEPT ![k] = n]
      /\ state' = [state EXCEPT ![k] = o]
      /\ payload' = [payload EXCEPT ![k] = v]
      /\ log' = IF o = "pending" THEN log ELSE Append(log, k)
      /\ due' = None
  BY DEF Made
<1>2. /\ state \in [Future -> {"unborn", "pending"} \cup Outcomes]
      /\ payload \in [Future -> Leaf \cup {None}]
      /\ slot \in [Future -> Comp \cup {None}]
      /\ kind \in [Comp -> Kinds \cup {None}]
      /\ members \in [Comp -> Seq(Future \cup {None})]
      /\ outs \in [Comp -> Seq(Leaf \cup {None})]
      /\ done \in [Comp -> Nat]
      /\ log \in Seq(Future) /\ IsInjective(log)
      /\ None \notin Future /\ Comp \subseteq Future /\ Leaf \subseteq Future /\ Leaf \cap Comp = {}
      /\ MembersSound /\ SlotsSound /\ LogSound
  BY ComposeAssumption DEF ComposeInv, TypeOK, Future
<1>3. /\ state' \in [Future -> {"unborn", "pending"} \cup Outcomes]
      /\ payload' \in [Future -> Leaf \cup {None}]
      /\ kind' \in [Comp -> Kinds \cup {None}]
      /\ members' \in [Comp -> Seq(Future \cup {None})]
      /\ outs' \in [Comp -> Seq(Leaf \cup {None})]
      /\ done' \in [Comp -> Nat]
  BY <1>1, <1>2
<1>4. slot' \in [Future -> Comp \cup {None}]
  BY <1>1, <1>2
<1>5. /\ state'[k] = o /\ payload'[k] = v /\ kind'[k] = kd /\ members'[k] = a
      /\ outs'[k] = r /\ done'[k] = n
      /\ \A f \in Future \ {k} : state'[f] = state[f] /\ payload'[f] = payload[f]
      /\ \A h \in Comp \ {k} : /\ state'[h] = state[h] /\ kind'[h] = kind[h] /\ members'[h] = members[h]
                               /\ outs'[h] = outs[h] /\ done'[h] = done[h] /\ payload'[h] = payload[h]
  BY <1>1, <1>2
<1>6. /\ DOMAIN a = 1 .. Len(a) /\ Len(a) \in Nat
      /\ \A i \in 1 .. Len(a) : a[i] # None =>
           /\ a[i] \in Future /\ a[i] # k /\ state[a[i]] # "unborn"
           /\ \A h \in Comp : ~ Of(h, a[i])
      /\ \A i, j \in 1 .. Len(a) : a[i] = a[j] /\ a[i] # None => i = j
  <2>1. DOMAIN a = 1 .. Len(a) /\ Len(a) \in Nat /\ \A i \in 1 .. Len(a) : a[i] \in Future \cup {None}
    OBVIOUS
  <2> QED BY <2>1 DEF Callable
\* k is no member yet, and has none.
<1>7. /\ ~ Settled(k) /\ ~ Pending(k) /\ members[k] = <<>>
      /\ \A h \in Comp : ~ Of(h, k)
  <2>1. kind[k] = None /\ members[k] = <<>>
    BY <1>2 DEF MembersSound
  <2>2. ~ Settled(k) /\ ~ Pending(k)
    BY DEF Settled, Pending, Outcomes
  <2>3. \A h \in Comp : ~ Of(h, k)
    BY <1>2 DEF MembersSound, Of
  <2> QED BY <2>1, <2>2, <2>3
<1>8. \A h \in Comp \ {k}, f \in Future : Of(h, f)' <=> Of(h, f)
  BY <1>5 DEF Of
<1>9. \A f \in Future : Of(k, f)' <=> \E i \in 1 .. Len(a) : a[i] = f
  BY <1>5, <1>6 DEF Of
<1>10. \A f \in Future \ {k} : (Settled(f)' <=> Settled(f)) /\ (Pending(f)' <=> Pending(f))
  BY <1>5 DEF Settled, Pending
<1>11. MembersSound'
  <2>1. \A f \in Leaf : state'[f] # "unborn"
    BY <1>2, <1>5 DEF MembersSound
  <2>2. \A h \in Comp : kind'[h] = None <=> state'[h] = "unborn"
    <3>1. kd # None /\ o # "unborn"
      BY ComposeAssumption DEF Outcomes
    <3>2. \A h \in Comp : kind[h] = None <=> state[h] = "unborn"
      BY <1>2 DEF MembersSound
    <3>3. kind'[k] # None /\ state'[k] # "unborn"
      BY <1>5, <3>1
    <3>4. \A h \in Comp \ {k} : kind'[h] = kind[h] /\ state'[h] = state[h]
      BY <1>5
    <3> QED BY <3>2, <3>3, <3>4
  <2>3. \A h \in Comp : kind'[h] = None => members'[h] = <<>>
    <3>1. kind'[k] # None
      BY <1>5, ComposeAssumption
    <3>2. \A h \in Comp : kind[h] = None => members[h] = <<>>
      BY <1>2 DEF MembersSound
    <3>3. \A h \in Comp \ {k} : kind'[h] = kind[h] /\ members'[h] = members[h]
      BY <1>5
    <3> QED BY <3>1, <3>2, <3>3
  <2>4. ASSUME NEW h \in Comp, NEW i \in DOMAIN members'[h], members'[h][i] # None
        PROVE  members'[h][i] \in Future /\ state'[members'[h][i]] # "unborn"
    <3>1. CASE h = k
      BY <1>5, <1>6, <2>4, <3>1
    <3>2. CASE h # k
      <4>1. /\ members'[h] = members[h] /\ members[h][i] \in Future
            /\ state[members[h][i]] # "unborn" /\ Of(h, members[h][i])
        BY <1>2, <1>5, <2>4, <3>2 DEF MembersSound, Of
      <4>2. members[h][i] # k
        BY <1>7, <4>1
      <4> QED BY <1>5, <4>1, <4>2
    <3> QED BY <3>1, <3>2
  <2>5. ASSUME NEW g \in Comp, NEW h \in Comp, NEW i \in DOMAIN members'[g], NEW j \in DOMAIN members'[h],
               members'[g][i] = members'[h][j], members'[g][i] # None
        PROVE  g = h /\ i = j
    <3> DEFINE x == members'[g][i]
    <3>1. x \in Future
      BY <2>4, <2>5
    <3>2. \A c \in Comp \ {k} : \A b \in DOMAIN members'[c] : members'[c][b] = x => Of(c, x)
      BY <1>5 DEF Of
    <3>3. \A b \in DOMAIN members'[k] : members'[k][b] = x => \A c \in Comp : ~ Of(c, x)
      BY <1>5, <1>6, <2>5
    <3>4. g = k /\ h = k => g = h /\ i = j
      BY <1>5, <1>6, <2>5
    <3>5. g # k /\ h # k => g = h /\ i = j
      <4>1. \A b, c \in Comp : \A s \in DOMAIN members[b], t \in DOMAIN members[c] :
              members[b][s] = members[c][t] /\ members[b][s] # None => b = c /\ s = t
        BY <1>2 DEF MembersSound
      <4>2. g # k /\ h # k => members'[g] = members[g] /\ members'[h] = members[h]
        BY <1>5
      <4> QED BY <2>5, <4>1, <4>2
    <3>6. g = k <=> h = k
      BY <2>5, <3>2, <3>3
    <3> HIDE DEF x
    <3> QED BY <3>4, <3>5, <3>6
  <2> QED BY <2>1, <2>2, <2>3, <2>4, <2>5 DEF MembersSound
<1>12. \A f \in Future : f \in Hooked(a, stop) =>
         Pending(f) /\ f # k /\ (\A h \in Comp : ~ Of(h, f)) /\ \E i \in 1 .. Len(a) : a[i] = f
  <2> SUFFICES ASSUME NEW i \in 1 .. stop - 1, a[i] # None, state[a[i]] = "pending"
               PROVE  Pending(a[i]) /\ a[i] # k /\ (\A h \in Comp : ~ Of(h, a[i])) /\ i \in 1 .. Len(a)
    BY DEF Hooked
  <2>1. i \in 1 .. Len(a)
    BY <1>6
  <2> QED BY <1>6, <2>1 DEF Pending
<1>13. SlotsSound'
  <2>1. ASSUME NEW f \in Future, NEW h \in Comp, slot'[f] = h PROVE Of(h, f)'
    <3>1. CASE f \in Hooked(a, stop)
      <4>1. h = k
        BY <1>1, <2>1, <3>1
      <4> QED BY <1>9, <1>12, <3>1, <4>1
    <3>2. CASE f \notin Hooked(a, stop)
      <4>1. h = slot[f] /\ h # None
        BY <1>1, <1>2, <2>1, <3>2
      <4>2. Of(h, f)
        BY <1>2, <4>1 DEF SlotsSound
      <4>3. h # k
        BY <1>7, <4>2 DEF Of
      <4> QED BY <1>8, <4>2, <4>3
    <3> QED BY <3>1, <3>2
  <2>2. ASSUME NEW h \in Comp, NEW f \in Future, Of(h, f)', Pending(f)', Pending(h)'
        PROVE  slot'[f] = h
    <3>1. CASE h = k
      <4>1. PICK i \in 1 .. Len(a) : a[i] = f
        BY <1>9, <2>2, <3>1
      <4>2. state[f] = "pending" /\ f # None /\ stop - 1 = Len(a)
        <5>1. f # None /\ f # k
          BY <1>2, <1>6, <4>1
        <5>2. state[f] = "pending"
          BY <1>10, <2>2, <5>1 DEF Pending
        <5>3. o = "pending"
          BY <1>5, <2>2, <3>1 DEF Pending
        <5>4. stop = Len(a) + 1
          BY <5>3
        <5> QED BY <1>6, <5>1, <5>2, <5>4
      <4>3. f \in Hooked(a, stop)
        BY <4>1, <4>2 DEF Hooked
      <4> QED BY <1>1, <3>1, <4>3
    <3>2. CASE h # k
      <4>1. Of(h, f) /\ f # k /\ h \in Future
        BY <1>2, <1>7, <1>8, <2>2, <3>2
      <4>2. Pending(f) /\ Pending(h)
        BY <1>10, <2>2, <3>2, <4>1
      <4>3. slot[f] = h
        BY <1>2, <4>1, <4>2 DEF SlotsSound
      <4>4. f \notin Hooked(a, stop)
        BY <1>12, <4>1
      <4> QED BY <1>1, <4>3, <4>4
    <3> QED BY <3>1, <3>2
  <2>3. due' = None
    BY <1>1
  <2>4. \A f \in Future : slot'[f] # None => Of(slot[f], f)'
    BY <1>4, <2>1 DEF Of
  <2> QED BY <2>2, <2>3, <2>4 DEF SlotsSound
<1>14. /\ log' \in Seq(Future) /\ IsInjective(log') /\ LogSound'
       /\ o # "pending" => At(k)' = Len(log) + 1
       /\ \A f \in Future : Settled(f) => At(f)' = At(f) /\ At(f) \in 1 .. Len(log)
  <2>1. \A f \in Future : Settled(f) <=> f \in ToSet(log)
    BY <1>2 DEF LogSound
  <2>2. k \notin ToSet(log) /\ k \in Future
    BY <1>2, <1>7, <2>1
  <2>3. /\ IsInjective(Append(log, k))
        /\ \A x \in ToSet(log) : PlaceIn(log, x) \in 1 .. Len(log)
                                 /\ PlaceIn(Append(log, k), x) = PlaceIn(log, x)
        /\ PlaceIn(Append(log, k), k) = Len(log) + 1
    BY <1>2, <2>2, NewEntry
  <2>4. /\ Append(log, k) \in Seq(Future)
        /\ ToSet(Append(log, k)) = ToSet(log) \cup {k}
    BY <1>2, <2>2, AppendFacts
  <2>5. CASE o = "pending"
    <3>1. log' = log /\ ~ Settled(k)'
      BY <1>1, <1>5, <2>5 DEF Settled, Outcomes
    <3>2. \A f \in Future : At(f)' = At(f)
      BY <3>1 DEF At
    <3>3. LogSound'
      BY <1>7, <1>10, <2>1, <3>1 DEF LogSound
    <3>4. \A f \in Future : Settled(f) => At(f) \in 1 .. Len(log)
      BY <2>1, <2>3 DEF At
    <3> QED BY <1>2, <2>5, <3>1, <3>2, <3>3, <3>4
  <2>6. CASE o # "pending"
    <3>1. log' = Append(log, k) /\ Settled(k)'
      BY <1>1, <1>5, <2>6 DEF Settled, Outcomes
    <3>2. LogSound'
      BY <1>10, <2>1, <2>4, <3>1 DEF LogSound
    <3> QED BY <2>1, <2>3, <2>4, <3>1, <3>2 DEF At
  <2> QED BY <2>5, <2>6
<1>15. ASSUME NEW h \in Comp \ {k}
       PROVE  /\ WaitingAll(h)' /\ RaceWaits(h)' /\ AllRight(h)' /\ RaceRight(h)'
              /\ state'[h] = state[h]
  <2>1. /\ WaitingAll(h) /\ RaceWaits(h) /\ AllRight(h) /\ RaceRight(h)
        /\ h \in Future /\ h # k
    BY <1>2 DEF ComposeInv, Waiting, Ended
  <2>2. \A i \in DOMAIN members[h] : members[h][i] # None =>
          /\ members[h][i] \in Future \ {k} /\ Of(h, members[h][i])
    <3>1. \A i \in DOMAIN members[h] : members[h][i] # None =>
            members[h][i] \in Future /\ Of(h, members[h][i])
      BY <1>2 DEF Of
    <3> QED BY <1>7, <3>1
  <2>3. /\ members'[h] = members[h] /\ kind'[h] = kind[h] /\ outs'[h] = outs[h] /\ done'[h] = done[h]
        /\ state'[h] = state[h] /\ payload'[h] = payload[h] /\ due' = due
    BY <1>1, <1>5
  <2>4. Counted(h)' = Counted(h)
    BY <1>10, <2>2, <2>3 DEF Counted
  <2>5. WaitingAll(h)'
    BY <1>5, <1>10, <2>1, <2>2, <2>3, <2>4 DEF WaitingAll, Pending
  <2>6. RaceWaits(h)'
    <3>1. \A f \in Future : Of(h, f)' => Of(h, f) /\ f # k
      BY <1>7, <1>8
    <3> QED BY <1>10, <2>1, <2>3, <3>1 DEF RaceWaits, IsRace, Pending
  <2>7. AllRight(h)'
    <3>1. \A f \in Future : Of(h, f) => Of(h, f)' /\ f # k
      BY <1>7, <1>8
    <3> QED BY <1>5, <2>1, <2>2, <2>3, <3>1 DEF AllRight
  <2>8. RaceRight(h)'
    <3> SUFFICES ASSUME IsRace(h), Settled(h), members[h] # <<>> PROVE RaceRight(h)'
      BY <1>10, <2>1, <2>3 DEF RaceRight, IsRace
    <3>1. PICK f \in Future :
             /\ Of(h, f) /\ state[h] = state[f] /\ payload[h] = payload[f] /\ Settled(f)
             /\ \A g \in Future : Of(h, g) /\ Settled(g) /\ g # f =>
                  At(f) < At(g) \/ (At(g) < At(h) /\ Place(h, f) < Place(h, g))
      BY <2>1 DEF RaceRight
    <3>2. \A g \in Future : Of(h, g)' /\ Settled(g)' => Of(h, g) /\ Settled(g)
      BY <1>7, <1>8, <1>10
    <3>3. \A x : Place(h, x)' = Place(h, x)
      BY <2>3 DEF Place
    <3>4. f # k /\ Of(h, f)' /\ Settled(f)' /\ state'[f] = state[f] /\ payload'[f] = payload[f]
      BY <1>5, <1>7, <1>8, <1>10, <3>1
    <3>5. ASSUME NEW g \in Future, Of(h, g)', Settled(g)', g # f
          PROVE  At(f)' < At(g)' \/ (At(g)' < At(h)' /\ Place(h, f)' < Place(h, g)')
      <4>1. At(f)' = At(f) /\ At(g)' = At(g) /\ At(h)' = At(h)
        BY <1>14, <2>1, <3>1, <3>2, <3>5
      <4> QED BY <3>1, <3>2, <3>3, <3>5, <4>1
    <3> QED BY <2>3, <3>1, <3>4, <3>5 DEF RaceRight
  <2> QED BY <2>3, <2>5, <2>6, <2>7, <2>8
<1>16. \A i \in 1 .. Len(a) : a[i] # None =>
         state'[a[i]] = state[a[i]] /\ payload'[a[i]] = payload[a[i]]
  BY <1>5, <1>6
<1> QED BY <1>1, <1>3, <1>4, <1>5, <1>6, <1>11, <1>13, <1>14, <1>15, <1>16 DEF AfterMade

\* all: what has settled is counted, the first member that has failed decides.
LEMMA AllStep ==
  ASSUME ComposeInv, SingleUse, NEW k \in Comp, NEW p \in Programs, p[1] = "all",
         Callable(k, p), NewAll(k, p[2])
  PROVE  ComposeInv'
<1> DEFINE a == p[2]
           settled == {i \in DOMAIN a : a[i] = None \/ Settled(a[i])}
           results == [i \in DOMAIN a |-> IF a[i] # None /\ Settled(a[i]) THEN payload[a[i]] ELSE None]
           nothing == [i \in DOMAIN a |-> None]
<1>1. a \in Seq(Future \cup {None}) /\ "all" \in Kinds
  BY ComposeAssumption DEF Kinds
<1>2. DOMAIN a = 1 .. Len(a) /\ Len(a) \in Nat /\ \A i \in 1 .. Len(a) : a[i] \in Future \cup {None}
  BY <1>1
<1> HIDE DEF a
<1>3. IsFiniteSet(settled) /\ Cardinality(settled) \in Nat /\ Cardinality(settled) <= Len(a)
      /\ (Cardinality(settled) >= Len(a) => settled = 1 .. Len(a))
  <2>1. IsFiniteSet(1 .. Len(a)) /\ Cardinality(1 .. Len(a)) = Len(a)
    <3>1. PICK n : n = Len(a) /\ n \in Nat
      BY <1>2
    <3>2. PICK m \in Int : m = 1
      OBVIOUS
    <3>3. IsFiniteSet(m .. n) /\ Cardinality(m .. n) = IF m > n THEN 0 ELSE n - m + 1
      <4>1. n \in Int
        BY <3>1
      <4> QED BY <4>1, FS_Interval
    <3> QED BY <3>1, <3>2, <3>3
  <2>2. settled \subseteq 1 .. Len(a)
    BY <1>2
  <2> HIDE DEF settled
  <2>3. IsFiniteSet(settled) /\ Cardinality(settled) \in Nat /\ Cardinality(settled) <= Len(a)
        /\ (Cardinality(settled) = Len(a) => settled = 1 .. Len(a))
    BY <2>1, <2>2, FS_Subset, FS_CardinalityType
  <2> QED BY <1>2, <2>3
<1>4. /\ results \in Seq(Leaf \cup {None}) /\ Len(results) = Len(a)
      /\ nothing \in Seq(Leaf \cup {None})
  <2>1. \A i \in 1 .. Len(a) : a[i] # None => payload[a[i]] \in Leaf \cup {None}
    BY <1>2 DEF ComposeInv, TypeOK
  <2>2. results \in [1 .. Len(a) -> Leaf \cup {None}] /\ nothing \in [1 .. Len(a) -> Leaf \cup {None}]
    BY <1>2, <2>1
  <2>3. DOMAIN results = 1 .. Len(a)
    BY <1>2
  <2> HIDE DEF results, nothing
  <2> QED BY <1>2, <2>2, <2>3, IsASeq
<1>5. PICK stop : stop = FirstIn(a, {"failed", "cancelled"})
  OBVIOUS
<1>6. /\ stop \in 1 .. Len(a) + 1
      /\ \A i \in 1 .. Len(a) : a[i] # None /\ state[a[i]] \in {"failed", "cancelled"} => stop <= i
      /\ stop <= Len(a) => a[stop] # None /\ state[a[stop]] \in {"failed", "cancelled"}
  BY <1>1, <1>5, FirstInFacts
<1>7. /\ due = None /\ state[k] = "unborn" /\ UNCHANGED <<closed, verdict>>
      /\ stop <= Len(a) => Made(k, "all", a, stop, nothing, 0, state[a[stop]], payload[a[stop]])
      /\ ~ (stop <= Len(a)) =>
           Made(k, "all", a, stop, results, Cardinality(settled),
                IF Cardinality(settled) >= Len(a) THEN "completed" ELSE "pending", None)
  BY <1>5 DEF NewAll, a
<1>8. ~ closed[k] /\ closed \in [Comp -> BOOLEAN]
      /\ \A h \in Comp : state[h] \in {"unborn", "pending"} => ~ closed[h]
  BY <1>7 DEF ComposeInv, Waiting, TypeOK
<1> HIDE DEF settled, results, nothing
<1>9. CASE stop <= Len(a)
  <2>1. /\ a[stop] \in Future /\ state[a[stop]] \in Outcomes /\ payload[a[stop]] \in Leaf \cup {None}
        /\ state[a[stop]] # "pending" /\ a[stop] # None /\ stop \in 1 .. Len(a)
    BY <1>2, <1>6, <1>9 DEF ComposeInv, TypeOK, Outcomes
  <2>2. PICK o \in {"pending"} \cup Outcomes, v \in Leaf \cup {None}, r \in Seq(Leaf \cup {None}) :
          o = state[a[stop]] /\ v = payload[a[stop]] /\ r = nothing
    BY <1>4, <2>1
  <2>3. Made(k, "all", a, stop, r, 0, o, v) /\ o # "pending" /\ 0 \in Nat /\ a = p[2]
    BY <1>7, <1>9, <2>1, <2>2 DEF a
  <2>15. AfterMade(k, "all", a, r, 0, o, v)
    BY <1>1, <1>6, <1>7, <2>1, <2>3, MadeStep
  <2>4. /\ state' \in [Future -> {"unborn", "pending"} \cup Outcomes]
        /\ payload' \in [Future -> Leaf \cup {None}]
        /\ slot' \in [Future -> Comp \cup {None}]
        /\ kind' \in [Comp -> Kinds \cup {None}]
        /\ members' \in [Comp -> Seq(Future \cup {None})]
        /\ outs' \in [Comp -> Seq(Leaf \cup {None})]
        /\ done' \in [Comp -> Nat]
        /\ log' \in Seq(Future) /\ IsInjective(log')
        /\ MembersSound' /\ SlotsSound' /\ LogSound' /\ due' = None
    BY <2>15 DEF AfterMade
  <2>10. /\ \A h \in Comp \ {k} : WaitingAll(h)' /\ RaceWaits(h)' /\ AllRight(h)' /\ RaceRight(h)'
         /\ \A h \in Comp \ {k} : state'[h] = state[h]
    BY <2>15 DEF AfterMade
  <2>11. state'[k] = o /\ payload'[k] = v /\ kind'[k] = "all" /\ members'[k] = a
    BY <2>15 DEF AfterMade
  <2>5. \A i \in 1 .. Len(a) : a[i] # None =>
          state'[a[i]] = state[a[i]] /\ payload'[a[i]] = payload[a[i]]
    BY <2>15 DEF AfterMade
  <2>6. WaitingAll(k)' /\ RaceWaits(k)' /\ RaceRight(k)'
    BY <2>3, <2>5, <2>10, <2>11 DEF WaitingAll, RaceWaits, RaceRight, IsRace, Pending
  <2>7. AllRight(k)'
    <3>1. PICK f \in Future : f = a[stop]
      BY <2>1
    <3>2. state'[f] = o /\ payload'[f] = v
      BY <2>1, <2>2, <2>5, <2>10, <2>11, <3>1
    <3>3. Of(k, f)'
      BY <1>2, <2>1, <2>5, <2>10, <2>11, <3>1 DEF Of
    <3>4. o # "completed"
      BY <1>6, <1>9, <2>2
    <3> QED BY <2>5, <2>10, <2>11, <3>2, <3>3, <3>4 DEF AllRight
  <2>8. TypeOK'
    BY <1>7, <2>4 DEF ComposeInv, TypeOK
  <2>9. \A h \in Comp : state'[h] \in {"unborn", "pending"} => ~ closed'[h]
    BY <1>7, <1>8, <2>5, <2>10, <2>11, <2>3 DEF Outcomes
  <2> QED BY <2>4, <2>5, <2>10, <2>11, <2>6, <2>7, <2>8, <2>9 DEF ComposeInv, Waiting, Ended
<1>10. CASE ~ (stop <= Len(a))
  <2>1. stop = Len(a) + 1 /\ stop \in 1 .. Len(a) + 1
    BY <1>2, <1>6, <1>10
  <2>2. PICK o \in {"pending"} \cup Outcomes, v \in Leaf \cup {None}, r \in Seq(Leaf \cup {None}), n \in Nat :
          /\ o = IF Cardinality(settled) >= Len(a) THEN "completed" ELSE "pending"
          /\ v = None /\ r = results /\ n = Cardinality(settled)
    BY <1>3, <1>4 DEF Outcomes
  <2>3. Made(k, "all", a, stop, r, n, o, v) /\ a = p[2]
    BY <1>7, <1>10, <2>2 DEF a
  <2>15. AfterMade(k, "all", a, r, n, o, v)
    BY <1>1, <1>6, <1>7, <2>1, <2>3, MadeStep
  <2>4. /\ state' \in [Future -> {"unborn", "pending"} \cup Outcomes]
        /\ payload' \in [Future -> Leaf \cup {None}]
        /\ slot' \in [Future -> Comp \cup {None}]
        /\ kind' \in [Comp -> Kinds \cup {None}]
        /\ members' \in [Comp -> Seq(Future \cup {None})]
        /\ outs' \in [Comp -> Seq(Leaf \cup {None})]
        /\ done' \in [Comp -> Nat]
        /\ log' \in Seq(Future) /\ IsInjective(log')
        /\ MembersSound' /\ SlotsSound' /\ LogSound' /\ due' = None
    BY <2>15 DEF AfterMade
  <2>13. /\ \A h \in Comp \ {k} : WaitingAll(h)' /\ RaceWaits(h)' /\ AllRight(h)' /\ RaceRight(h)'
         /\ \A h \in Comp \ {k} : state'[h] = state[h]
    BY <2>15 DEF AfterMade
  <2>14. state'[k] = o /\ kind'[k] = "all" /\ members'[k] = a /\ outs'[k] = r /\ done'[k] = n
    BY <2>15 DEF AfterMade
  <2>5. \A i \in 1 .. Len(a) : a[i] # None =>
          state'[a[i]] = state[a[i]] /\ payload'[a[i]] = payload[a[i]]
    BY <2>15 DEF AfterMade
\* What has settled before the call has completed.
  <2>6. \A i \in 1 .. Len(a) : a[i] # None /\ Settled(a[i]) =>
          state[a[i]] = "completed" /\ r[i] = payload[a[i]]
    <3> SUFFICES ASSUME NEW i \in 1 .. Len(a), a[i] # None, Settled(a[i])
                 PROVE  state[a[i]] = "completed" /\ r[i] = payload[a[i]]
      OBVIOUS
    <3>1. ~ (state[a[i]] \in {"failed", "cancelled"})
      BY <1>2, <1>6, <2>1
    <3>2. r[i] = payload[a[i]]
      BY <1>2, <2>2 DEF results
    <3> QED BY <3>1, <3>2 DEF Settled, Outcomes
  <2>7. \A i \in 1 .. Len(a) : a[i] # None => (Settled(a[i])' <=> Settled(a[i]))
    BY <2>5, <2>13, <2>14 DEF Settled
  <2>8. WaitingAll(k)'
    <3>1. Counted(k)' = settled
      BY <1>2, <2>4, <2>5, <2>13, <2>14, <2>7 DEF Counted, settled
    <3>2. done'[k] = Cardinality(Counted(k)') /\ Len(outs'[k]) = Len(members'[k])
      BY <1>4, <2>2, <2>5, <2>13, <2>14, <3>1
    <3> QED BY <1>2, <2>5, <2>13, <2>14, <2>6, <2>7, <3>2 DEF WaitingAll
  <2>9. AllRight(k)'
    <3>1. state'[k] = "completed" => \A i \in 1 .. Len(a) : a[i] # None => Settled(a[i])
      BY <1>3, <2>2, <2>5, <2>13, <2>14 DEF settled
    <3>2. state'[k] \notin {"failed", "cancelled"}
      BY <2>2, <2>5, <2>13, <2>14
    <3> QED BY <1>2, <2>5, <2>13, <2>14, <2>6, <3>1, <3>2 DEF AllRight
  <2>10. RaceWaits(k)' /\ RaceRight(k)'
    BY <2>5, <2>13, <2>14 DEF RaceWaits, RaceRight, IsRace
  <2>11. TypeOK'
    BY <1>7, <2>4 DEF ComposeInv, TypeOK
  <2>12. \A h \in Comp : state'[h] \in {"unborn", "pending"} => ~ closed'[h]
    BY <1>7, <1>8, <2>5, <2>13, <2>14
  <2> QED BY <2>4, <2>5, <2>13, <2>14, <2>8, <2>9, <2>10, <2>11, <2>12 DEF ComposeInv, Waiting, Ended
<1> QED BY <1>9, <1>10

\* What race chooses: nothing as long as no member has settled, and otherwise what
\* the first settled member has.
RaceChoice(k, a, stop, o, v) ==
  /\ o = "pending" =>
       /\ stop = Len(a) + 1 /\ ~ closed'[k]
       /\ \A i \in 1 .. Len(a) : a[i] # None => ~ Settled(a[i])
  /\ o # "pending" /\ a # <<>> =>
       /\ stop <= Len(a) /\ a[stop] # None /\ Settled(a[stop])
       /\ o = state[a[stop]] /\ v = payload[a[stop]]
       /\ \A i \in 1 .. Len(a) : a[i] # None /\ Settled(a[i]) => stop <= i

\* A race is pending if nothing has settled before the call, and otherwise it has
\* the outcome of the first member that has.
LEMMA RaceMade ==
  ASSUME ComposeInv, SingleUse, NEW k \in Comp, NEW p \in Programs, Callable(k, p),
         due = None, state[k] = "unborn",
         NEW a \in Seq(Future \cup {None}), a = p[2], NEW kd \in {"race", "timeout"},
         NEW stop \in 1 .. Len(a) + 1,
         NEW o \in {"pending"} \cup Outcomes, NEW v \in Leaf \cup {None},
         Made(k, kd, a, stop, <<>>, 0, o, v),
         closed' \in [Comp -> BOOLEAN], \A h \in Comp \ {k} : closed'[h] = closed[h],
         verdict' \in [Comp -> {"ok", "error", "late", None}],
         RaceChoice(k, a, stop, o, v)
  PROVE  ComposeInv'
<1>0. /\ o = "pending" => stop = Len(a) + 1 /\ ~ closed'[k]
                           /\ \A i \in 1 .. Len(a) : a[i] # None => ~ Settled(a[i])
      /\ o # "pending" /\ a # <<>> =>
           /\ stop <= Len(a) /\ a[stop] # None /\ Settled(a[stop])
           /\ o = state[a[stop]] /\ v = payload[a[stop]]
           /\ \A i \in 1 .. Len(a) : a[i] # None /\ Settled(a[i]) => stop <= i
  BY DEF RaceChoice
<1>1. AfterMade(k, kd, a, <<>>, 0, o, v)
  <2>1. kd \in Kinds /\ 0 \in Nat
    BY DEF Kinds
  <2>2. PICK r \in Seq(Leaf \cup {None}) : r = <<>>
    BY EmptyFacts
  <2>3. Made(k, kd, a, stop, r, 0, o, v)
    BY <2>2
  <2>4. AfterMade(k, kd, a, r, 0, o, v)
    <3>1. o = "pending" => stop = Len(a) + 1
      BY <1>0
    <3> QED BY <2>1, <2>3, <3>1, MadeStep
  <2> QED BY <2>2, <2>4
<1>2. DOMAIN a = 1 .. Len(a) /\ Len(a) \in Nat /\ \A i \in 1 .. Len(a) : a[i] \in Future \cup {None}
  OBVIOUS
<1>3. TypeOK'
  BY <1>1 DEF AfterMade, ComposeInv, TypeOK
<1>4. state'[k] = o /\ payload'[k] = v /\ kind'[k] = kd /\ members'[k] = a
  BY <1>1 DEF AfterMade
<1>5. \A i \in 1 .. Len(a) : a[i] # None =>
        /\ a[i] \in Future /\ a[i] # k
        /\ state'[a[i]] = state[a[i]] /\ payload'[a[i]] = payload[a[i]]
  BY <1>1 DEF AfterMade
<1>6. \A f \in Future : Of(k, f)' => \E i \in 1 .. Len(a) : a[i] = f
  BY <1>2, <1>4 DEF Of
<1>7. None \notin Future
  BY ComposeAssumption
<1>8. WaitingAll(k)' /\ AllRight(k)'
  BY <1>4 DEF WaitingAll, AllRight
<1>9. RaceWaits(k)'
  <2> SUFFICES ASSUME o = "pending", NEW f \in Future, Of(k, f)', Settled(f)' PROVE FALSE
    BY <1>4 DEF RaceWaits, Pending
  <2>1. PICK i \in 1 .. Len(a) : a[i] = f
    BY <1>6
  <2>2. ~ Settled(a[i]) /\ state'[f] = state[f]
    BY <1>0, <1>5, <1>7, <2>1
  <2> QED BY <2>1, <2>2 DEF Settled
<1>10. RaceRight(k)'
  <2> SUFFICES ASSUME o # "pending", a # <<>> PROVE RaceRight(k)'
    BY <1>4 DEF RaceRight, Settled, Outcomes
  <2>1. /\ stop \in 1 .. Len(a) /\ a[stop] # None /\ Settled(a[stop])
        /\ o = state[a[stop]] /\ v = payload[a[stop]]
        /\ \A i \in 1 .. Len(a) : a[i] # None /\ Settled(a[i]) => stop <= i
    BY <1>0, <1>2
  <2>2. PICK f \in Future : f = a[stop]
    BY <1>5, <2>1
  <2>3. /\ Of(k, f)' /\ state'[k] = state'[f] /\ payload'[k] = payload'[f] /\ Settled(f)'
    <3>1. Of(k, f)'
      BY <1>2, <1>4, <2>1, <2>2 DEF Of
    <3>2. state'[f] = state[f] /\ payload'[f] = payload[f]
      BY <1>5, <2>1, <2>2
    <3> QED BY <1>4, <2>1, <2>2, <3>1, <3>2 DEF Settled
  <2>4. ASSUME NEW x \in Future, NEW i \in 1 .. Len(a), a[i] = x PROVE Place(k, x)' = i
    <3> DEFINE c == CHOOSE c \in DOMAIN a : a[c] = x /\ \A j \in 1 .. c - 1 : a[j] # x
    <3>1. \A n, j \in 1 .. Len(a) : a[n] = a[j] /\ a[n] # None => n = j
      BY <1>1 DEF AfterMade
    <3>2. i \in DOMAIN a /\ \A j \in 1 .. i - 1 : a[j] # x
      BY <1>2, <1>7, <2>4, <3>1
    <3>3. c \in DOMAIN a /\ a[c] = x
      BY <2>4, <3>2
    <3>4. Place(k, x)' = c
      BY <1>4 DEF Place
    <3> HIDE DEF c
    <3> QED BY <1>2, <1>7, <2>4, <3>1, <3>3, <3>4
  <2>5. ASSUME NEW g \in Future, Of(k, g)', Settled(g)', g # f
        PROVE  At(g)' < At(k)' /\ Place(k, f)' < Place(k, g)'
    <3>1. PICK i \in 1 .. Len(a) : a[i] = g
      BY <1>6, <2>5
    <3>2. Settled(g) /\ stop <= i /\ stop # i /\ g # None
      BY <1>5, <1>7, <2>1, <2>2, <2>5, <3>1 DEF Settled
    <3>3. Place(k, f)' = stop /\ Place(k, g)' = i
      BY <2>1, <2>2, <2>4, <3>1
    <3>4. At(g)' \in 1 .. Len(log) /\ At(k)' = Len(log) + 1
      BY <1>1, <3>2 DEF AfterMade
    <3>5. Len(log) \in Nat
      BY DEF ComposeInv, TypeOK
    <3> QED BY <1>2, <3>2, <3>3, <3>4, <3>5
  <2> QED BY <2>3, <2>5 DEF RaceRight
<1>11. \A h \in Comp : state'[h] \in {"unborn", "pending"} => ~ closed'[h]
  <2>1. \A h \in Comp \ {k} : state'[h] = state[h]
    BY <1>1 DEF AfterMade
  <2>2. o # "unborn" /\ (o \in {"unborn", "pending"} => o = "pending")
    BY DEF Outcomes
  <2> QED BY <1>0, <1>4, <2>1, <2>2 DEF ComposeInv, Waiting
<1> QED BY <1>1, <1>3, <1>8, <1>9, <1>10, <1>11 DEF AfterMade, ComposeInv, Waiting, Ended

LEMMA RaceStep ==
  ASSUME ComposeInv, SingleUse, NEW k \in Comp, NEW p \in Programs, p[1] # "all",
         Callable(k, p), NewRace(k, p[1], p[2])
  PROVE  ComposeInv'
<1> DEFINE a == p[2]
           kd == p[1]
<1>1. a \in Seq(Future \cup {None}) /\ kd \in {"race", "timeout"}
  BY ComposeAssumption DEF Kinds
<1>2. DOMAIN a = 1 .. Len(a) /\ Len(a) \in Nat /\ \A i \in 1 .. Len(a) : a[i] \in Future \cup {None}
  BY <1>1
<1>3. PICK stop : stop = FirstIn(a, Outcomes)
  OBVIOUS
<1>4. /\ due = None /\ state[k] = "unborn"
      /\ IF a = <<>>
         THEN Made(k, kd, a, 1, <<>>, 0, "cancelled", None) /\ UNCHANGED <<closed, verdict>>
         ELSE IF stop <= Len(a)
         THEN /\ Made(k, kd, a, stop, <<>>, 0, state[a[stop]], payload[a[stop]])
              /\ closed' = [closed EXCEPT ![k] = TRUE]
              /\ verdict' = IF kd # "timeout" THEN verdict
                            ELSE [verdict EXCEPT ![k] = Verdict(a, state[a[stop]], payload[a[stop]])]
         ELSE Made(k, kd, a, stop, <<>>, 0, "pending", None) /\ UNCHANGED <<closed, verdict>>
  BY <1>3 DEF NewRace
<1>5. a = p[2] /\ kd = p[1]
  OBVIOUS
<1> HIDE DEF a, kd
<1>6. /\ stop \in 1 .. Len(a) + 1
      /\ \A i \in 1 .. Len(a) : a[i] # None /\ state[a[i]] \in Outcomes => stop <= i
      /\ stop <= Len(a) => a[stop] # None /\ state[a[stop]] \in Outcomes
  BY <1>1, <1>3, FirstInFacts
<1>7. /\ ~ closed[k] /\ closed \in [Comp -> BOOLEAN]
      /\ verdict \in [Comp -> {"ok", "error", "late", None}]
  BY <1>4 DEF ComposeInv, Waiting, TypeOK
<1>8. CASE a = <<>>
  <2>1. Made(k, kd, a, 1, <<>>, 0, "cancelled", None) /\ closed' = closed /\ verdict' = verdict
    BY <1>4, <1>8
  <2>2. "cancelled" \in {"pending"} \cup Outcomes /\ None \in Leaf \cup {None} /\ "cancelled" # "pending"
        /\ 1 \in 1 .. Len(a) + 1
    BY <1>2 DEF Outcomes
  <2>3. RaceChoice(k, a, 1, "cancelled", None)
    BY <1>8, <2>2 DEF RaceChoice
  <2> QED BY <1>1, <1>4, <1>5, <1>7, <2>1, <2>2, <2>3, RaceMade
<1>9. CASE a # <<>> /\ stop <= Len(a)
  <2>1. /\ a[stop] \in Future /\ Settled(a[stop]) /\ state[a[stop]] \in Outcomes
        /\ payload[a[stop]] \in Leaf \cup {None} /\ state[a[stop]] # "pending" /\ a[stop] # None
    BY <1>2, <1>6, <1>9 DEF ComposeInv, TypeOK, Settled, Outcomes
  <2>2. PICK o \in {"pending"} \cup Outcomes, v \in Leaf \cup {None} :
          o = state[a[stop]] /\ v = payload[a[stop]]
    BY <2>1
  <2>3. Made(k, kd, a, stop, <<>>, 0, o, v) /\ closed' = [closed EXCEPT ![k] = TRUE]
        /\ verdict' = IF kd # "timeout" THEN verdict ELSE [verdict EXCEPT ![k] = Verdict(a, o, v)]
    BY <1>4, <1>9, <2>2
  <2>4. closed' \in [Comp -> BOOLEAN] /\ \A h \in Comp \ {k} : closed'[h] = closed[h]
    BY <1>7, <2>3
  <2>5. verdict' \in [Comp -> {"ok", "error", "late", None}]
    <3>1. Verdict(a, o, v) \in {"ok", "error", "late", None}
      BY DEF Verdict
    <3> QED BY <1>7, <2>3, <3>1
  <2>6. \A i \in 1 .. Len(a) : a[i] # None /\ Settled(a[i]) => stop <= i
    BY <1>6 DEF Settled
  <2>7. /\ Made(k, kd, a, stop, <<>>, 0, o, v) /\ o # "pending" /\ due = None /\ state[k] = "unborn"
        /\ stop <= Len(a) /\ a[stop] # None /\ Settled(a[stop])
        /\ o = state[a[stop]] /\ v = payload[a[stop]]
    BY <1>4, <1>9, <2>1, <2>2, <2>3
  <2>8. RaceChoice(k, a, stop, o, v)
    BY <2>6, <2>7 DEF RaceChoice
  <2>9. stop \in 1 .. Len(a) + 1 /\ Made(k, kd, a, stop, <<>>, 0, o, v) /\ due = None /\ state[k] = "unborn"
    BY <1>6, <2>7
  <2> QED BY <1>1, <1>5, <2>4, <2>5, <2>8, <2>9, RaceMade
<1>10. CASE a # <<>> /\ ~ (stop <= Len(a))
  <2>1. Made(k, kd, a, stop, <<>>, 0, "pending", None) /\ closed' = closed /\ verdict' = verdict
    BY <1>4, <1>10
  <2>2. stop = Len(a) + 1 /\ \A i \in 1 .. Len(a) : a[i] # None => ~ Settled(a[i])
    BY <1>2, <1>6, <1>10 DEF Settled
  <2>3. PICK o \in {"pending"} \cup Outcomes, v \in Leaf \cup {None} : o = "pending" /\ v = None
    OBVIOUS
  <2>4. /\ Made(k, kd, a, stop, <<>>, 0, o, v) /\ o = "pending" /\ ~ closed'[k]
        /\ closed' \in [Comp -> BOOLEAN] /\ \A h \in Comp \ {k} : closed'[h] = closed[h]
        /\ verdict' \in [Comp -> {"ok", "error", "late", None}]
    BY <1>7, <2>1, <2>3
  <2>5. RaceChoice(k, a, stop, o, v)
    BY <2>2, <2>4 DEF RaceChoice
  <2>6. stop \in 1 .. Len(a) + 1 /\ due = None /\ state[k] = "unborn"
    BY <1>4, <1>6
  <2> QED BY <1>1, <1>5, <2>4, <2>5, <2>6, RaceMade
<1> QED BY <1>8, <1>9, <1>10

LEMMA NewStep ==
  ASSUME ComposeInv, SingleUse, NEW k \in Comp, NEW p \in Programs, New(k, p)
  PROVE  ComposeInv'
BY AllStep, RaceStep DEF New

-----------------------------------------------------------------------------
(* Every behaviour.                                                        *)

\* Nothing changes but what a `timeout` returns.
LEMMA SameStep ==
  ASSUME ComposeInv, verdict' \in [Comp -> {"ok", "error", "late", None}],
         UNCHANGED <<state, payload, slot, kind, members, outs, done, closed, due, log>>
  PROVE  ComposeInv'
<1>1. TypeOK'
  BY DEF ComposeInv, TypeOK
<1>2. MembersSound' /\ SlotsSound' /\ LogSound'
  BY DEF ComposeInv, MembersSound, SlotsSound, LogSound, Settled, Pending, Of
<1>3. ASSUME NEW h \in Comp PROVE WaitingAll(h)' /\ RaceWaits(h)' /\ (state'[h] \in {"unborn", "pending"} => ~ closed'[h])
  <2>1. WaitingAll(h) /\ RaceWaits(h) /\ (state[h] \in {"unborn", "pending"} => ~ closed[h])
    BY DEF ComposeInv, Waiting
  <2>2. Counted(h)' = Counted(h)
    BY DEF Counted, Settled
  <2>3. WaitingAll(h)'
    BY <2>1, <2>2 DEF WaitingAll, Pending, Settled
  <2>4. RaceWaits(h)'
    BY <2>1 DEF RaceWaits, IsRace, Pending, Settled, Of
  <2> QED BY <2>1, <2>3, <2>4
<1>4. ASSUME NEW h \in Comp PROVE AllRight(h)' /\ RaceRight(h)'
  <2>1. AllRight(h) /\ RaceRight(h)
    BY DEF ComposeInv, Ended
  <2>2. AllRight(h)'
    BY <2>1 DEF AllRight, Of
  <2>3. RaceRight(h)'
    BY <2>1 DEF RaceRight, IsRace, Settled, Of, At, Place
  <2> QED BY <2>2, <2>3
<1> QED BY <1>1, <1>2, <1>3, <1>4 DEF ComposeInv, Waiting, Ended

LEMMA ResumeStep == ASSUME ComposeInv, NEW k \in Comp, Resume(k) PROVE ComposeInv'
<1>1. Verdict(members[k], state[k], payload[k]) \in {"ok", "error", "late", None}
  BY DEF Verdict
<1>2. verdict' \in [Comp -> {"ok", "error", "late", None}]
  BY <1>1 DEF Resume, ComposeInv, TypeOK
<1> QED BY <1>2, SameStep DEF Resume

LEMMA UnchangedStep == ASSUME ComposeInv, UNCHANGED vars PROVE ComposeInv'
<1>1. verdict' \in [Comp -> {"ok", "error", "late", None}]
  BY DEF vars, ComposeInv, TypeOK
<1> QED BY <1>1, SameStep DEF vars

LEMMA InitStep == Init => ComposeInv
<1> SUFFICES ASSUME Init PROVE ComposeInv
  OBVIOUS
<1>1. /\ \A f \in Future : slot[f] = None /\ payload[f] = None /\ (f \in Leaf => state[f] = "pending")
      /\ \A k \in Comp : /\ state[k] = "unborn" /\ kind[k] = None /\ members[k] = <<>>
                         /\ done[k] = 0 /\ ~ closed[k]
      /\ due = None /\ log = <<>>
  BY ComposeAssumption DEF Init, Future
<1>2. \A f \in Future : ~ Settled(f)
  BY <1>1 DEF Settled, Outcomes, Future
<1>3. TypeOK
  BY ComposeAssumption, EmptyFacts DEF Init, TypeOK, Outcomes
<1>4. MembersSound
  BY <1>1 DEF MembersSound, Future
<1>5. SlotsSound
  BY <1>1 DEF SlotsSound, Of
<1>6. LogSound
  BY <1>1, <1>2, EmptyFacts DEF LogSound
<1>7. Waiting
  BY <1>1, ComposeAssumption DEF Waiting, WaitingAll, RaceWaits, IsRace, Kinds
<1>8. Ended
  BY <1>1, ComposeAssumption DEF Ended, AllRight, RaceRight, IsRace, Kinds
<1> QED BY <1>3, <1>4, <1>5, <1>6, <1>7, <1>8 DEF ComposeInv

LEMMA ComposeStep == SingleUse /\ ComposeInv /\ [Next]_vars => ComposeInv'
<1> SUFFICES ASSUME SingleUse, ComposeInv, [Next]_vars PROVE ComposeInv'
  OBVIOUS
<1>1. CASE UNCHANGED vars
  BY <1>1, UnchangedStep
<1>2. ASSUME NEW f \in Leaf, NEW o \in Outcomes, SettleLeaf(f, o) PROVE ComposeInv'
  BY <1>2, LeafStep
<1>3. ASSUME NEW k \in Comp, NEW p \in Programs, New(k, p) PROVE ComposeInv'
  BY <1>3, NewStep
<1>4. CASE OnSettle
  BY <1>4, DueStep
<1>5. ASSUME NEW k \in Comp, Resume(k) PROVE ComposeInv'
  BY <1>5, ResumeStep
<1>6. CASE Quiet
  BY <1>6, UnchangedStep DEF Quiet
<1> QED BY <1>1, <1>2, <1>3, <1>4, <1>5, <1>6 DEF Next

\* The inductive invariant of compositions: what a pending composition has counted,
\* and which slot a member that has not settled must hold.
THEOREM ComposeInvariant == ASSUME SingleUse PROVE Spec => []ComposeInv
<1>1. Init => ComposeInv
  BY InitStep
<1>2. SingleUse /\ ComposeInv /\ [Next]_vars => ComposeInv'
  BY ComposeStep
<1> QED BY <1>1, <1>2, PTL DEF Spec

LEMMA InvSettlesRight == ComposeInv => SettlesRight
<1> SUFFICES ASSUME ComposeInv PROVE SettlesRight
  OBVIOUS
<1>1. AllExact
  <2> SUFFICES ASSUME NEW k \in Comp, kind[k] = "all"
               PROVE  /\ state[k] = "completed" =>
                           \A i \in DOMAIN members[k] : members[k][i] # None =>
                             state[members[k][i]] = "completed" /\ outs[k][i] = payload[members[k][i]]
                      /\ state[k] \in {"failed", "cancelled"} =>
                           \E f \in Future : Of(k, f) /\ state[f] = state[k] /\ payload[f] = payload[k]
    BY DEF AllExact
  <2>1. AllRight(k)
    BY DEF ComposeInv, Ended
  <2> QED BY <2>1 DEF AllRight
\* A pending `all` has no member that has failed, unless its callback is due.
<1>2. AllFailsFast
  <2> SUFFICES ASSUME due = None, NEW k \in Comp, NEW f \in Future, kind[k] = "all", Of(k, f),
                      state[f] \in {"failed", "cancelled"}, ~ Settled(k)
               PROVE  FALSE
    BY DEF AllFailsFast
  <2>1. kind[k] # None /\ f # None /\ k \in Future
    BY ComposeAssumption DEF Kinds, Future
  <2>2. Pending(k)
    BY <2>1 DEF ComposeInv, MembersSound, TypeOK, Settled, Pending
  <2>3. WaitingAll(k)
    BY DEF ComposeInv, Waiting
  <2> QED BY <2>1, <2>2, <2>3 DEF WaitingAll, Of, Settled, Outcomes
<1>3. RaceFirst
  <2> SUFFICES ASSUME NEW k \in Comp, kind[k] \in {"race", "timeout"}, Settled(k), members[k] # <<>>
               PROVE  \E f \in Future :
                        /\ Of(k, f) /\ state[k] = state[f] /\ payload[k] = payload[f]
                        /\ Settled(f)
                        /\ \A g \in Future : Of(k, g) /\ Settled(g) /\ g # f =>
                             At(f) < At(g) \/ (At(g) < At(k) /\ Place(k, f) < Place(k, g))
    BY DEF RaceFirst, At, PlaceIn, Place
  <2>1. RaceRight(k)
    BY DEF ComposeInv, Ended
  <2> QED BY <2>1 DEF RaceRight, IsRace
<1> QED BY <1>1, <1>2, <1>3 DEF SettlesRight

\* What `all` and `race` settle with, and when: `all` completes with the value of
\* every member at its own place, fails only with a member's error and as soon as
\* one fails, and `race` has the outcome of the member that settled first.
THEOREM SettlesRightTheorem == ASSUME SingleUse PROVE Spec => []SettlesRight
<1>1. ComposeInv => SettlesRight
  BY InvSettlesRight
<1> QED BY <1>1, ComposeInvariant, PTL

=============================================================================
