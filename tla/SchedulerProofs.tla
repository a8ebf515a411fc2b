--------------------------- MODULE SchedulerProofs ---------------------------
(***************************************************************************)
(* Proofs about the scheduler, for every finite set of tasks and any sets  *)
(* of external and composed futures: its type invariant, the inductive invariant    *)
(* behind its safety properties, and that it implements AsyncContract.     *)
(***************************************************************************)
EXTENDS Scheduler, FiniteSetTheorems, SequenceTheorems, TLAPS

-----------------------------------------------------------------------------
(* Linked lists, which are read from the head.                             *)

\* The empty sequence.
LEMMA EmptyFacts ==
  /\ \A S : <<>> \in Seq(S)
  /\ ToSet(<<>>) = {}
  /\ IsInjective(<<>>)
BY DEF ToSet, IsInjective

\* The head of a sequence and what is behind it.
LEMMA TailFacts ==
  ASSUME NEW S, NEW q \in Seq(S), q # <<>>
  PROVE  /\ Tail(q) \in Seq(S)
         /\ Head(q) \in S
         /\ ToSet(q) = ToSet(Tail(q)) \cup {Head(q)}
         /\ IsInjective(q) => /\ IsInjective(Tail(q))
                              /\ Head(q) \notin ToSet(Tail(q))
<1>1. /\ Len(q) \in Nat /\ Len(q) > 0
      /\ DOMAIN q = 1 .. Len(q)
      /\ Head(q) = q[1] /\ Head(q) \in S
  OBVIOUS
<1> DEFINE p == Tail(q)
<1>2. /\ p \in Seq(S) /\ Len(p) = Len(q) - 1
      /\ DOMAIN p = 1 .. Len(q) - 1
      /\ \A i \in 1 .. Len(q) - 1 : p[i] = q[i + 1]
  OBVIOUS
<1> HIDE DEF p
<1>3. ToSet(q) = ToSet(p) \cup {Head(q)}
  <2>1. ASSUME NEW i \in 1 .. Len(q) PROVE q[i] \in ToSet(p) \cup {Head(q)}
    <3>1. CASE i = 1
      BY <3>1, <1>1
    <3>2. CASE i # 1
      <4>1. \A n \in Nat : i \in 1 .. n => i - 1 \in 1 .. n - 1 /\ (i - 1) + 1 = i
        BY <3>2
      <4>2. i - 1 \in 1 .. Len(q) - 1 /\ (i - 1) + 1 = i
        BY <4>1, <1>1
      <4>3. i - 1 \in DOMAIN p /\ p[i - 1] = q[i]
        BY <4>2, <1>2
      <4> QED BY <4>3 DEF ToSet
    <3> QED BY <3>1, <3>2
  <2>2. ASSUME NEW i \in DOMAIN p PROVE p[i] \in ToSet(q)
    BY <1>1, <1>2 DEF ToSet
  <2> QED BY <2>1, <2>2, <1>1 DEF ToSet
<1>4. ASSUME IsInjective(q)
      PROVE  IsInjective(p) /\ Head(q) \notin ToSet(p)
  <2>1. \A i, j \in 1 .. Len(q) : q[i] = q[j] => i = j
    BY <1>4, <1>1 DEF IsInjective
  <2>2. \A i, j \in DOMAIN p : p[i] = p[j] => i = j
    BY <2>1, <1>1, <1>2
  <2>3. \A i \in DOMAIN p : p[i] # q[1]
    BY <2>1, <1>1, <1>2
  <2> QED BY <2>2, <2>3, <1>1 DEF IsInjective, ToSet
<1> QED BY <1>1, <1>2, <1>3, <1>4 DEF p

\* A new entry in front of a list that does not hold it.
LEMMA ConsFacts ==
  ASSUME NEW S, NEW q \in Seq(S), NEW t \in S
  PROVE  /\ <<t>> \o q \in Seq(S)
         /\ <<t>> \o q # <<>>
         /\ ToSet(<<t>> \o q) = ToSet(q) \cup {t}
         /\ IsInjective(q) /\ t \notin ToSet(q) => IsInjective(<<t>> \o q)
<1> DEFINE p == <<t>> \o q
<1>1. /\ p \in Seq(S) /\ Len(p) = Len(q) + 1 /\ Len(q) \in Nat
      /\ DOMAIN p = 1 .. Len(q) + 1 /\ DOMAIN q = 1 .. Len(q)
      /\ p[1] = t
      /\ \A i \in 1 .. Len(q) : p[i + 1] = q[i]
  OBVIOUS
<1> HIDE DEF p
<1>2. \A i \in DOMAIN p : i # 1 => i - 1 \in DOMAIN q /\ p[i] = q[i - 1]
  <2>1. SUFFICES ASSUME NEW i \in DOMAIN p, i # 1
                 PROVE  i - 1 \in DOMAIN q /\ p[i] = q[i - 1]
    OBVIOUS
  <2>2. i - 1 \in 1 .. Len(q) /\ (i - 1) + 1 = i
    BY <2>1, <1>1
  <2> QED BY <2>2, <1>1
<1>3. ToSet(p) = ToSet(q) \cup {t}
  <2>1. \A i \in DOMAIN p : p[i] \in ToSet(q) \cup {t}
    BY <1>1, <1>2 DEF ToSet
  <2>2. \A i \in DOMAIN q : q[i] \in ToSet(p)
    <3>1. \A i \in DOMAIN q : i + 1 \in DOMAIN p /\ p[i + 1] = q[i]
      BY <1>1
    <3> QED BY <3>1 DEF ToSet
  <2>3. t \in ToSet(p)
    BY <1>1 DEF ToSet
  <2> QED BY <2>1, <2>2, <2>3 DEF ToSet
<1>4. ASSUME IsInjective(q), t \notin ToSet(q) PROVE IsInjective(p)
  <2>1. \A i \in DOMAIN q : q[i] # t
    BY <1>4 DEF ToSet
  <2>2. \A i, j \in DOMAIN q : q[i] = q[j] => i = j
    BY <1>4 DEF IsInjective
  <2>3. \A i, j \in DOMAIN p : p[i] = p[j] => i = j
    <3>1. \A i \in DOMAIN p : i \in Int
      BY <1>1
    <3> QED BY <2>1, <2>2, <1>1, <1>2, <3>1
  <2> QED BY <2>3 DEF IsInjective
<1>5. p # <<>>
  BY <1>1
<1> QED BY <1>1, <1>3, <1>4, <1>5 DEF p

\* One list in front of another.
LEMMA ConcatFacts ==
  ASSUME NEW S, NEW p \in Seq(S), NEW q \in Seq(S)
  PROVE  /\ p \o q \in Seq(S)
         /\ ToSet(p \o q) = ToSet(p) \cup ToSet(q)
         /\ IsInjective(p) /\ IsInjective(q) /\ ToSet(p) \cap ToSet(q) = {} => IsInjective(p \o q)
<1> DEFINE c == p \o q
<1>1. /\ c \in Seq(S) /\ Len(p) \in Nat /\ Len(q) \in Nat
      /\ DOMAIN c = 1 .. Len(p) + Len(q) /\ DOMAIN p = 1 .. Len(p) /\ DOMAIN q = 1 .. Len(q)
      /\ \A i \in 1 .. Len(p) : c[i] = p[i]
      /\ \A i \in 1 .. Len(q) : c[Len(p) + i] = q[i]
  OBVIOUS
<1> HIDE DEF c
<1>2. \A i \in DOMAIN c : IF i <= Len(p) THEN i \in DOMAIN p /\ c[i] = p[i]
                           ELSE i - Len(p) \in DOMAIN q /\ c[i] = q[i - Len(p)]
  <2>1. SUFFICES ASSUME NEW i \in DOMAIN c
                 PROVE  IF i <= Len(p) THEN i \in DOMAIN p /\ c[i] = p[i]
                        ELSE i - Len(p) \in DOMAIN q /\ c[i] = q[i - Len(p)]
    OBVIOUS
  <2>2. i \in Int /\ i >= 1 /\ i <= Len(p) + Len(q)
    BY <1>1
  <2>3. CASE i <= Len(p)
    BY <1>1, <2>2, <2>3
  <2>4. CASE ~ (i <= Len(p))
    <3>1. i - Len(p) \in 1 .. Len(q) /\ Len(p) + (i - Len(p)) = i
      BY <1>1, <2>2, <2>4
    <3> QED BY <1>1, <2>4, <3>1
  <2> QED BY <2>3, <2>4
<1>3. ToSet(c) = ToSet(p) \cup ToSet(q)
  <2>1. \A i \in DOMAIN c : c[i] \in ToSet(p) \cup ToSet(q)
    BY <1>2 DEF ToSet
  <2>2. \A i \in DOMAIN p : i \in DOMAIN c /\ c[i] = p[i]
    BY <1>1
  <2>3. \A i \in DOMAIN q : Len(p) + i \in DOMAIN c /\ c[Len(p) + i] = q[i]
    BY <1>1
  <2> QED BY <2>1, <2>2, <2>3 DEF ToSet
<1>4. ASSUME IsInjective(p), IsInjective(q), ToSet(p) \cap ToSet(q) = {} PROVE IsInjective(c)
  <2>1. SUFFICES ASSUME NEW i \in DOMAIN c, NEW j \in DOMAIN c, c[i] = c[j] PROVE i = j
    BY DEF IsInjective
  <2>2. i \in Int /\ j \in Int
    BY <1>1
  <2>3. \A x \in DOMAIN p, y \in DOMAIN q : p[x] # q[y]
    BY <1>4 DEF ToSet
  <2>4. /\ \A x, y \in DOMAIN p : p[x] = p[y] => x = y
        /\ \A x, y \in DOMAIN q : q[x] = q[y] => x = y
    BY <1>4 DEF IsInjective
  <2>5. CASE i <= Len(p) /\ j <= Len(p)
    BY <1>2, <2>1, <2>4, <2>5
  <2>6. CASE ~ (i <= Len(p)) /\ ~ (j <= Len(p))
    <3>1. i - Len(p) = j - Len(p)
      BY <1>2, <2>1, <2>4, <2>6
    <3> QED BY <3>1, <2>2, <1>1
  <2>7. CASE i <= Len(p) /\ ~ (j <= Len(p))
    BY <1>2, <2>1, <2>3, <2>7
  <2>8. CASE ~ (i <= Len(p)) /\ j <= Len(p)
    BY <1>2, <2>1, <2>3, <2>8
  <2> QED BY <2>5, <2>6, <2>7, <2>8
<1> QED BY <1>1, <1>3, <1>4 DEF c

-----------------------------------------------------------------------------
(* The operators on sequences. *)

\* Popping the runnable queue leaves a sequence without its first entry.
LEMMA PopFirstFacts ==
  ASSUME NEW S, NEW q \in Seq(S), q # <<>>
  PROVE  /\ PopFirst(q) \in Seq(S)
         /\ Len(PopFirst(q)) = Len(q) - 1
         /\ Head(q) \in S
         /\ Head(q) \in ToSet(q)
         /\ ToSet(q) = ToSet(PopFirst(q)) \cup {Head(q)}
         /\ IsInjective(q) => /\ IsInjective(PopFirst(q))
                              /\ Head(q) \notin ToSet(PopFirst(q))
<1>1. /\ Len(q) \in Nat /\ Len(q) > 0
      /\ DOMAIN q = 1 .. Len(q)
      /\ \A i \in 1 .. Len(q) : q[i] \in S
      /\ Head(q) = q[1]
  OBVIOUS
<1> DEFINE p == PopFirst(q)
<1>2. /\ p \in Seq(S) /\ Len(p) = Len(q) - 1
      /\ DOMAIN p = 1 .. Len(q) - 1
      /\ \A i \in 1 .. Len(q) - 1 : p[i] = IF i = 1 THEN q[Len(q)] ELSE q[i]
  <2>1. p = [i \in 1 .. Len(q) - 1 |-> IF i = 1 THEN q[Len(q)] ELSE q[i]]
    BY DEF PopFirst
  <2>2. \A i \in 1 .. Len(q) - 1 : (IF i = 1 THEN q[Len(q)] ELSE q[i]) \in S
    BY <1>1
  <2>3. p \in [1 .. Len(q) - 1 -> S]
    BY <2>1, <2>2
  <2>4. Len(q) - 1 \in Nat
    BY <1>1
  <2> QED BY <2>1, <2>3, <2>4, IsASeq
<1> HIDE DEF p
<1>3. Head(q) \in S /\ Head(q) \in ToSet(q)
  BY <1>1 DEF ToSet
<1>4. ToSet(q) = ToSet(p) \cup {Head(q)}
  <2>1. ASSUME NEW i \in 1 .. Len(q) PROVE q[i] \in ToSet(p) \cup {Head(q)}
    <3>1. CASE i = 1
      BY <3>1, <1>1
    <3>2. CASE i # 1 /\ i = Len(q)
      <4>1. 1 \in DOMAIN p /\ p[1] = q[i]
        BY <3>2, <1>1, <1>2
      <4> QED BY <4>1 DEF ToSet
    <3>3. CASE i # 1 /\ i # Len(q)
      <4>1. i \in 1 .. Len(q) - 1
        <5>1. \A n \in Nat : i \in 1 .. n /\ i # n => i \in 1 .. n - 1
          OBVIOUS
        <5> QED BY <5>1, <3>3, <1>1
      <4>2. i \in DOMAIN p /\ p[i] = q[i]
        BY <3>3, <4>1, <1>2
      <4> QED BY <4>2 DEF ToSet
    <3> QED BY <3>1, <3>2, <3>3
  <2>2. ASSUME NEW i \in DOMAIN p PROVE p[i] \in ToSet(q)
    BY <1>1, <1>2 DEF ToSet
  <2> QED BY <2>1, <2>2, <1>1, <1>3 DEF ToSet
<1>5. ASSUME IsInjective(q)
      PROVE  IsInjective(p) /\ Head(q) \notin ToSet(p)
  <2>1. \A i, j \in 1 .. Len(q) : q[i] = q[j] => i = j
    BY <1>5, <1>1 DEF IsInjective
  <2>2. \A i, j \in DOMAIN p : p[i] = p[j] => i = j
    BY <2>1, <1>1, <1>2
  <2>3. \A i \in DOMAIN p : p[i] # q[1]
    BY <2>1, <1>1, <1>2
  <2> QED BY <2>2, <2>3, <1>1 DEF IsInjective, ToSet
<1> QED BY <1>2, <1>3, <1>4, <1>5 DEF p

\* Queueing adds the task, and only once.
LEMMA EnqueuedFacts ==
  ASSUME NEW S, NEW q \in Seq(S), NEW t \in S
  PROVE  /\ Enqueued(q, t) \in Seq(S)
         /\ ToSet(Enqueued(q, t)) = ToSet(q) \cup {t}
         /\ IsInjective(q) => IsInjective(Enqueued(q, t))
<1>1. CASE t \in ToSet(q)
  BY <1>1 DEF Enqueued
<1>2. CASE t \notin ToSet(q)
  <2> DEFINE p == Append(q, t)
  <2>1. /\ p \in Seq(S) /\ Len(p) = Len(q) + 1 /\ Len(q) \in Nat
        /\ DOMAIN p = 1 .. Len(q) + 1 /\ DOMAIN q = 1 .. Len(q)
        /\ \A i \in 1 .. Len(q) : p[i] = q[i]
        /\ p[Len(q) + 1] = t
    OBVIOUS
  <2> HIDE DEF p
  <2>2. ToSet(p) = ToSet(q) \cup {t}
    <3>1. \A i \in DOMAIN p : p[i] \in ToSet(q) \cup {t}
      BY <2>1 DEF ToSet
    <3>2. \A i \in DOMAIN q : q[i] \in ToSet(p)
      BY <2>1 DEF ToSet
    <3>3. t \in ToSet(p)
      BY <2>1 DEF ToSet
    <3> QED BY <3>1, <3>2, <3>3 DEF ToSet
  <2>3. ASSUME IsInjective(q) PROVE IsInjective(p)
    <3>1. \A i \in DOMAIN q : q[i] # t
      BY <1>2 DEF ToSet
    <3>2. \A i, j \in DOMAIN q : q[i] = q[j] => i = j
      BY <2>3 DEF IsInjective
    <3> QED BY <3>1, <3>2, <2>1 DEF IsInjective
  <2> QED BY <1>2, <2>1, <2>2, <2>3 DEF Enqueued, p
<1> QED BY <1>1, <1>2

\* Unlinking a waiter takes out that waiter only.
LEMMA UnlinkedFacts ==
  ASSUME NEW S, NEW ws \in Seq(S), IsInjective(ws), NEW t
  PROVE  /\ Unlinked(ws, t) \in Seq(S)
         /\ IsInjective(Unlinked(ws, t))
         /\ ToSet(Unlinked(ws, t)) = ToSet(ws) \ {t}
<1>1. CASE t \notin ToSet(ws)
  BY <1>1 DEF Unlinked
<1>2. CASE t \in ToSet(ws)
  <2>1. /\ Len(ws) \in Nat /\ DOMAIN ws = 1 .. Len(ws)
        /\ \A i \in 1 .. Len(ws) : ws[i] \in S
    OBVIOUS
  <2>2. \A i, j \in 1 .. Len(ws) : ws[i] = ws[j] => i = j
    BY <2>1 DEF IsInjective
  <2> DEFINE P(i) == ws[i] = t /\ \A j \in 1 .. i - 1 : ws[j] # t
             n == CHOOSE i \in DOMAIN ws : P(i)
             p == Unlinked(ws, t)
  <2>3. n \in 1 .. Len(ws) /\ ws[n] = t
    <3>1. PICK i \in 1 .. Len(ws) : ws[i] = t
      BY <1>2, <2>1 DEF ToSet
    <3>2. P(i)
      BY <3>1, <2>1, <2>2
    <3> QED BY <3>2, <2>1
  <2>4. p = [k \in 1 .. Len(ws) - 1 |-> IF k < n THEN ws[k] ELSE ws[k + 1]]
    BY <1>2 DEF Unlinked
  <2> HIDE DEF n, p
  <2>5. /\ p \in Seq(S) /\ Len(p) = Len(ws) - 1 /\ DOMAIN p = 1 .. Len(ws) - 1
        /\ \A k \in 1 .. Len(ws) - 1 : p[k] = IF k < n THEN ws[k] ELSE ws[k + 1]
    <3>1. \A k \in 1 .. Len(ws) - 1 : (IF k < n THEN ws[k] ELSE ws[k + 1]) \in S
      BY <2>1, <2>3
    <3>2. p \in [1 .. Len(ws) - 1 -> S] /\ Len(ws) - 1 \in Nat
      BY <3>1, <2>4, <2>3, <2>1
    <3> QED BY <3>2, <2>4, IsASeq
  <2>6. \A i, j \in DOMAIN p : p[i] = p[j] => i = j
    BY <2>2, <2>3, <2>5, <2>1
  <2>7. \A i \in DOMAIN p : p[i] \in ToSet(ws) \ {t}
    BY <2>2, <2>1, <2>3, <2>5 DEF ToSet
  <2>8. ASSUME NEW i \in DOMAIN ws, ws[i] # t PROVE ws[i] \in ToSet(p)
    <3>1. CASE i < n
      <4>1. i \in DOMAIN p /\ p[i] = ws[i]
        BY <3>1, <2>1, <2>3, <2>5
      <4> QED BY <4>1 DEF ToSet
    <3>2. CASE i > n
      <4>1. i - 1 \in DOMAIN p /\ p[i - 1] = ws[i]
        BY <3>2, <2>1, <2>3, <2>5
      <4> QED BY <4>1 DEF ToSet
    <3> QED BY <3>1, <3>2, <2>8, <2>1, <2>3
  <2> QED BY <2>5, <2>6, <2>7, <2>8 DEF IsInjective, ToSet, p
<1> QED BY <1>1, <1>2

\* A sequence with no element is empty.
LEMMA NoElements ==
  ASSUME NEW S, NEW q \in Seq(S), ToSet(q) = {}
  PROVE  q = <<>>
<1>1. Len(q) \in Nat /\ DOMAIN q = 1 .. Len(q)
  OBVIOUS
<1>2. Len(q) = 0
  <2>1. Len(q) # 0 => q[1] \in ToSet(q)
    BY <1>1 DEF ToSet
  <2> QED BY <2>1
<1> QED BY <1>2, EmptySeq

-----------------------------------------------------------------------------
(* The inductive invariant. *)

\* What the assumption on the constants says.
LEMMA FutureFacts == /\ Task \subseteq Future /\ External \subseteq Future
                     /\ Composed \subseteq Future
                     /\ None \notin Future /\ None \notin Task /\ None \notin Composed
                     /\ Root \in Task
                     /\ External \cap Task = {} /\ Composed \cap Task = {}
BY ConstantsAssumption DEF Future

\* The sets of tasks the scheduler counts are finite.
LEMMA CountFacts ==
  ASSUME NEW T \in SUBSET Task, NEW t \in Task
  PROVE  /\ Cardinality(T) \in Nat
         /\ t \notin T => Cardinality(T \cup {t}) = Cardinality(T) + 1
         /\ t \in T => Cardinality(T \ {t}) = Cardinality(T) - 1
         /\ Cardinality(T) = 0 => T = {}
<1>1. IsFiniteSet(T)
  BY ConstantsAssumption, FS_Subset
<1> QED BY <1>1, FS_CardinalityType, FS_AddElement, FS_RemoveElement, FS_EmptySet

\* The generated main starts with the bookkeeping in order.
THEOREM InitInv == Init => IndInv
<1> SUFFICES ASSUME Init PROVE IndInv
  OBVIOUS
<1> USE FutureFacts, EmptyFacts
<1>1. TypeOK
  BY DEF Init, TypeOK, FutureStates, TaskStates, Phases
<1>2. IsInjective(runnable) /\ ToSet(runnable) = {Root}
  BY DEF Init, IsInjective, ToSet
<1>3. NoLostWakeup /\ WaitersParked /\ WakingSound
  BY DEF Init, NoLostWakeup, WaitersParked, WakingSound
<1>4. QueueSound /\ CurrentSound
  BY <1>2 DEF Init, QueueSound, CurrentSound
<1>5. TaskSound /\ AllTasksSound
  BY DEF Init, TaskSound, AllTasksSound
<1>6. CountExact
  BY FS_Singleton DEF Init, CountExact
<1> QED BY <1>1, <1>3, <1>4, <1>5, <1>6 DEF IndInv

\* A step that leaves the waiter lists and the suspended tasks alone, and settles
\* nothing, leaves the waiters parked.
LEMMA ParkedKept ==
  ASSUME IndInv, UNCHANGED waiters,
         \A f \in Future : fstate[f] = "pending" => fstate'[f] = "pending",
         \A u \in Task : tstate[u] = "suspended" =>
           tstate'[u] = "suspended" /\ awaiting'[u] = awaiting[u]
  PROVE  WaitersParked'
<1>1. \A f \in Future : \A u \in ToSet(waiters[f]) : u \in Task
  BY DEF IndInv, TypeOK, ToSet
<1> QED BY <1>1 DEF IndInv, WaitersParked

\* sn_task_spawn keeps the invariant.
LEMMA SpawnStep ==
  ASSUME IndInv, NEW t \in Task, NEW u \in Task, Spawn(t, u)
  PROVE  IndInv'
<1> USE FutureFacts DEF IndInv
<1>1. /\ runnable' \in Seq(Task) /\ ToSet(runnable') = ToSet(runnable) \cup {u}
      /\ IsInjective(runnable')
  BY EnqueuedFacts DEF Spawn, TypeOK, QueueSound
<1>2. TypeOK'
  BY <1>1 DEF Spawn, TypeOK, FutureStates, TaskStates, Outcomes, loopVars
<1>3. NoLostWakeup' /\ WakingSound'
  <2>1. waking = <<>> /\ waking' = <<>> /\ tstate[u] = "unborn" /\ fstate[u] = "unborn"
    BY DEF Spawn, InBody, Returned, TaskSound
  <2>2. NoLostWakeup'
    BY <2>1, EmptyFacts DEF Spawn, TypeOK, NoLostWakeup
  <2>3. WakingSound'
    BY <2>1, EmptyFacts DEF WakingSound
  <2> QED BY <2>2, <2>3
<1>7. WaitersParked'
  <2>1. /\ \A f \in Future : fstate[f] = "pending" => fstate'[f] = "pending"
        /\ \A v \in Task : tstate[v] = "suspended" => tstate'[v] = "suspended"
        /\ UNCHANGED <<waiters, awaiting>>
    BY DEF Spawn, TypeOK
  <2> QED BY <2>1, ParkedKept
<1>4. QueueSound' /\ CurrentSound'
  BY <1>1 DEF Spawn, InBody, Returned, TypeOK, QueueSound, CurrentSound, TaskSound, Settled, Outcomes, loopVars
<1>5. TaskSound' /\ AllTasksSound'
  BY <1>1 DEF Spawn, InBody, Returned, TypeOK, TaskSound, AllTasksSound, Settled, Outcomes, loopVars
<1>6. CountExact'
  <2>1. u \notin allTasks /\ allTasks \in SUBSET Task
    BY DEF Spawn, AllTasksSound, TypeOK
  <2>2. Cardinality(allTasks \cup {u}) = Cardinality(allTasks) + 1
    BY <2>1, CountFacts
  <2> QED BY <2>2 DEF Spawn, CountExact
<1> QED BY <1>2, <1>3, <1>4, <1>5, <1>6, <1>7

\* One iteration of sn_future_wake_waiters keeps the invariant.
LEMMA WakeOneStep ==
  ASSUME IndInv, WakeOne
  PROVE  IndInv'
<1> USE FutureFacts DEF IndInv
<1> DEFINE t == Head(waking)
<1>1. /\ waking' \in Seq(Task) /\ t \in Task /\ t \in ToSet(waking)
      /\ ToSet(waking) = ToSet(waking') \cup {t}
      /\ IsInjective(waking') /\ t \notin ToSet(waking')
  BY TailFacts DEF WakeOne, TypeOK, WakingSound
<1>2. /\ tstate[t] = "suspended" /\ ~cancelled[t]
      /\ awaiting[t] # None /\ Settled(awaiting[t])
  BY <1>1 DEF WakingSound, TaskSound
<1>3. /\ awaiting' = [awaiting EXCEPT ![t] = None]
      /\ tstate' = [tstate EXCEPT ![t] = "runnable"]
      /\ runnable' = Enqueued(runnable, t)
      /\ UNCHANGED <<fstate, waiters, hook, callback, cancelled, awaitSlot, allTasks, activeCount, current, phase>>
  BY <1>2 DEF WakeOne, loopVars
<1> HIDE DEF t
<1>4. /\ runnable' \in Seq(Task) /\ ToSet(runnable') = ToSet(runnable) \cup {t}
      /\ IsInjective(runnable')
  <2>1. runnable \in Seq(Task) /\ IsInjective(runnable) /\ t \in Task
    BY <1>1 DEF TypeOK, QueueSound
  <2>2. runnable' = Enqueued(runnable, t)
    BY <1>3
  <2> QED BY <2>1, <2>2, EnqueuedFacts
<1>5. TypeOK'
  BY <1>1, <1>3, <1>4 DEF TypeOK, TaskStates
<1>6. NoLostWakeup'
  BY <1>1, <1>2, <1>3 DEF TypeOK, NoLostWakeup
<1>7. WaitersParked'
  <2>1. \A f \in Future : t \notin ToSet(waiters[f])
    <3>1. SUFFICES ASSUME NEW f \in Future, t \in ToSet(waiters[f]) PROVE FALSE
      OBVIOUS
    <3>2. awaiting[t] = f /\ waiters[f] # <<>> /\ fstate[f] = "pending"
      BY <3>1, EmptyFacts DEF WaitersParked
    <3> QED BY <3>2, <1>2 DEF Settled, Outcomes
  <2> QED BY <2>1, <1>3 DEF TypeOK, WaitersParked
<1>8. WakingSound'
  BY <1>1, <1>2, <1>3 DEF TypeOK, WakingSound, Settled
<1>9. t \in allTasks /\ phase \notin {"exit", "stopped"}
  BY <1>1, <1>2 DEF AllTasksSound
<1>10. QueueSound'
  BY <1>1, <1>2, <1>3, <1>4, <1>9 DEF TypeOK, QueueSound
<1>11. CurrentSound'
  BY <1>1, <1>2, <1>3, <1>4, <1>9 DEF TypeOK, CurrentSound, Settled
<1>12. TaskSound'
  BY <1>1, <1>2, <1>3 DEF TypeOK, TaskSound, Settled
<1>13. AllTasksSound'
  BY <1>1, <1>2, <1>3, <1>9 DEF TypeOK, AllTasksSound
<1>14. CountExact'
  BY <1>3 DEF CountExact
<1> QED BY <1>5, <1>6, <1>7, <1>8, <1>10, <1>11, <1>12, <1>13, <1>14

\* settle() leaves the futures, the waiters, the wake list and the callback in
\* their types.
LEMMA SettleTypes ==
  ASSUME IndInv, NEW f \in Future, NEW o \in Outcomes, Settle(f, o)
  PROVE  /\ fstate' \in [Future -> FutureStates]
         /\ waiters' \in [Future -> Seq(Task)]
         /\ waking' \in Seq(Task) /\ IsInjective(waking')
         /\ hook' \in [Future -> Composed \cup {None}] /\ callback' \in Composed \cup {None}
<1> USE FutureFacts, EmptyFacts DEF IndInv
<1>1. CASE fstate[f] = "pending"
  <2>1. /\ fstate' = [fstate EXCEPT ![f] = o]
        /\ waking' = waiters[f] \o waking
        /\ waiters' = [waiters EXCEPT ![f] = <<>>]
        /\ callback' = hook[f] /\ hook' = hook
    BY <1>1 DEF Settle
  <2>2. waiters[f] \in Seq(Task) /\ waking \in Seq(Task)
    BY DEF TypeOK
  <2>3. \A t \in ToSet(waiters[f]) :
          t \in Task /\ tstate[t] = "suspended" /\ awaiting[t] = f
    BY <2>2 DEF WaitersParked, ToSet
  <2>4. \A t \in ToSet(waking) :
          t \in Task /\ tstate[t] = "suspended" /\ awaiting[t] # None /\ Settled(awaiting[t])
    BY <2>2 DEF WakingSound, ToSet
  <2>5. ToSet(waiters[f]) \cap ToSet(waking) = {}
    BY <1>1, <2>3, <2>4 DEF Settled, Outcomes
  <2>6. IsInjective(waiters[f]) /\ IsInjective(waking)
    BY DEF WaitersParked, WakingSound
  <2>7. /\ waking' \in Seq(Task) /\ IsInjective(waking')
        /\ ToSet(waking') = ToSet(waiters[f]) \cup ToSet(waking)
    BY <2>1, <2>2, <2>5, <2>6, ConcatFacts
  <2>8. /\ fstate' \in [Future -> FutureStates]
        /\ waiters' \in [Future -> Seq(Task)]
        /\ hook' \in [Future -> Composed \cup {None}] /\ callback' \in Composed \cup {None}
    BY <1>1, <2>1 DEF TypeOK, FutureStates, Outcomes
  <2> QED BY <2>7, <2>8
<1>2. CASE fstate[f] # "pending"
  <2>1. UNCHANGED <<fstate, waiters, waking, hook, callback>>
    BY <1>2 DEF Settle, futureVars
  <2> QED BY <2>1 DEF TypeOK, WakingSound
<1> QED BY <1>1, <1>2

\* What settle() does to the futures and the waiters, for a task table in
\* which the waiters stay suspended.
LEMMA SettleFacts ==
  ASSUME IndInv, NEW f \in Future, NEW o \in Outcomes, Settle(f, o)
  PROVE  /\ \A g \in Future : Settled(g) => fstate'[g] = fstate[g]
         /\ \A g \in Future : g # f => fstate'[g] = fstate[g]
         /\ fstate[f] # "unborn" => fstate'[f] \in Outcomes
         /\ \A g \in Future : (fstate'[g] = "unborn") <=> (fstate[g] = "unborn")
         /\ \A g \in Future : /\ IsInjective(waiters'[g])
                              /\ waiters'[g] # <<>> => fstate'[g] = "pending"
                              /\ ToSet(waiters'[g]) \subseteq ToSet(waiters[g])
                              /\ ToSet(waiters[g]) \subseteq ToSet(waiters'[g]) \cup ToSet(waking')
                              /\ fstate'[g] = "pending" =>
                                   fstate[g] = "pending" /\ ToSet(waiters'[g]) = ToSet(waiters[g])
         /\ ToSet(waking) \subseteq ToSet(waking')
         /\ \A t \in ToSet(waking') :
              /\ t \in Task /\ tstate[t] = "suspended"
              /\ awaiting[t] # None /\ fstate'[awaiting[t]] \in Outcomes
<1> USE FutureFacts, EmptyFacts DEF IndInv
<1>1. CASE fstate[f] = "pending"
  <2>1. /\ fstate' = [fstate EXCEPT ![f] = o]
        /\ waking' = waiters[f] \o waking
        /\ waiters' = [waiters EXCEPT ![f] = <<>>]
        /\ callback' = hook[f] /\ hook' = hook
    BY <1>1 DEF Settle
  <2>2. waiters[f] \in Seq(Task) /\ waking \in Seq(Task)
    BY DEF TypeOK
  <2>3. \A t \in ToSet(waiters[f]) :
          t \in Task /\ tstate[t] = "suspended" /\ awaiting[t] = f
    BY <2>2 DEF WaitersParked, ToSet
  <2>4. \A t \in ToSet(waking) :
          t \in Task /\ tstate[t] = "suspended" /\ awaiting[t] # None /\ Settled(awaiting[t])
    BY <2>2 DEF WakingSound, ToSet
  <2>5. ToSet(waiters[f]) \cap ToSet(waking) = {}
    BY <1>1, <2>3, <2>4 DEF Settled, Outcomes
  <2>6. IsInjective(waiters[f]) /\ IsInjective(waking)
    BY DEF WaitersParked, WakingSound
  <2>7. /\ waking' \in Seq(Task) /\ IsInjective(waking')
        /\ ToSet(waking') = ToSet(waiters[f]) \cup ToSet(waking)
    BY <2>1, <2>2, <2>5, <2>6, ConcatFacts
  <2>8. /\ fstate' \in [Future -> FutureStates]
        /\ hook' \in [Future -> Composed \cup {None}] /\ callback' \in Composed \cup {None}
        /\ \A g \in Future : Settled(g) => fstate'[g] = fstate[g]
        /\ \A g \in Future : g # f => fstate'[g] = fstate[g]
        /\ fstate'[f] = o
        /\ \A g \in Future : (fstate'[g] = "unborn") <=> (fstate[g] = "unborn")
    BY <1>1, <2>1 DEF TypeOK, Settled, FutureStates, Outcomes
  <2>9. /\ waiters' \in [Future -> Seq(Task)] /\ waiters'[f] = <<>>
        /\ \A g \in Future : g # f => waiters'[g] = waiters[g]
    BY <2>1 DEF TypeOK
  <2>10. \A g \in Future : /\ IsInjective(waiters'[g])
                           /\ waiters'[g] # <<>> => fstate'[g] = "pending"
                           /\ ToSet(waiters'[g]) \subseteq ToSet(waiters[g])
                           /\ ToSet(waiters[g]) \subseteq ToSet(waiters'[g]) \cup ToSet(waking')
                           /\ fstate'[g] = "pending" =>
                                fstate[g] = "pending" /\ ToSet(waiters'[g]) = ToSet(waiters[g])
    <3>1. \A g \in Future : /\ IsInjective(waiters[g])
                            /\ waiters[g] # <<>> => fstate[g] = "pending"
      BY DEF WaitersParked
    <3>2. o # "pending"
      BY DEF Outcomes
    <3> QED BY <2>7, <2>8, <2>9, <3>1, <3>2
  <2>11. \A t \in ToSet(waking') :
           /\ t \in Task /\ tstate[t] = "suspended"
           /\ awaiting[t] # None /\ fstate'[awaiting[t]] \in Outcomes
    <3>1. \A t \in Task : awaiting[t] \in Future \cup {None}
      BY DEF TypeOK
    <3> QED BY <2>3, <2>4, <2>7, <2>8, <3>1 DEF Settled
  <2>12. ToSet(waking) \subseteq ToSet(waking')
    BY <2>7
  <2>13. fstate[f] # "unborn" => fstate'[f] \in Outcomes
    BY <2>8
  <2>14. \A g \in Future : Settled(g) => fstate'[g] = fstate[g]
    BY <2>8
  <2>15. /\ \A g \in Future : g # f => fstate'[g] = fstate[g]
         /\ \A g \in Future : (fstate'[g] = "unborn") <=> (fstate[g] = "unborn")
    BY <2>8
  <2> QED BY <2>10, <2>11, <2>12, <2>13, <2>14, <2>15
<1>2. CASE fstate[f] # "pending"
  <2>1. UNCHANGED <<fstate, waiters, waking, hook, callback>>
    BY <1>2 DEF Settle, futureVars
  <2>2. \A t \in ToSet(waking') : t \in Task
    BY <2>1 DEF TypeOK, ToSet
  <2> QED BY <1>2, <2>1, <2>2 DEF TypeOK, WaitersParked, WakingSound, Settled, FutureStates, Outcomes
<1> QED BY <1>1, <1>2

\* A settle keeps every suspended task among the waiters of a pending future or
\* in the list being woken, whatever else the step does to the other tasks.
LEMMA SettleWaiters ==
  ASSUME IndInv, NEW f \in Future, NEW o \in Outcomes, Settle(f, o),
         \A u \in Task : tstate[u] = "suspended" <=> tstate'[u] = "suspended",
         \A u \in Task : tstate[u] = "suspended" => awaiting'[u] = awaiting[u]
  PROVE  NoLostWakeup' /\ WaitersParked' /\ WakingSound'
<1> USE FutureFacts
<1>1. \A u \in Task : tstate[u] = "suspended" =>
        /\ awaiting[u] \in Future
        /\ fstate[awaiting[u]] = "pending" => u \in ToSet(waiters[awaiting[u]])
        /\ fstate[awaiting[u]] # "pending" => u \in ToSet(waking)
  BY DEF IndInv, NoLostWakeup, TypeOK
<1>2. NoLostWakeup'
  <2>1. SUFFICES ASSUME NEW u \in Task, tstate[u] = "suspended", NEW g, g = awaiting[u]
                 PROVE  IF fstate'[g] = "pending" THEN u \in ToSet(waiters'[g])
                                                  ELSE u \in ToSet(waking')
    BY <1>1 DEF NoLostWakeup
  <2>2. g \in Future /\ (u \in ToSet(waiters[g]) \/ u \in ToSet(waking))
        /\ (fstate[g] = "pending" => u \in ToSet(waiters[g]))
    BY <1>1, <2>1
  <2>3. /\ ToSet(waiters[g]) \subseteq ToSet(waiters'[g]) \cup ToSet(waking')
        /\ waiters'[g] # <<>> => fstate'[g] = "pending"
        /\ fstate'[g] = "pending" =>
             fstate[g] = "pending" /\ ToSet(waiters'[g]) = ToSet(waiters[g])
        /\ ToSet(waking) \subseteq ToSet(waking')
    BY <2>2, SettleTypes, SettleFacts
  <2> QED BY <2>2, <2>3, EmptyFacts
<1>3. WaitersParked'
  <2>1. /\ \A g \in Future : IsInjective(waiters'[g])
        /\ \A g \in Future : waiters'[g] # <<>> => fstate'[g] = "pending"
    BY SettleTypes, SettleFacts
  <2>2. ASSUME NEW g \in Future, NEW u \in ToSet(waiters'[g])
        PROVE  tstate'[u] = "suspended" /\ awaiting'[u] = g
    <3>1. u \in ToSet(waiters[g])
      BY SettleTypes, SettleFacts
    <3>2. u \in Task
      BY <3>1 DEF IndInv, TypeOK, ToSet
    <3>3. tstate[u] = "suspended" /\ awaiting[u] = g
      BY <3>1 DEF IndInv, WaitersParked
    <3> QED BY <3>2, <3>3
  <2> QED BY <2>1, <2>2 DEF WaitersParked
<1>4. WakingSound'
  <2>1. IsInjective(waking')
    BY SettleTypes, SettleFacts
  <2>2. ASSUME NEW u \in ToSet(waking')
        PROVE  tstate'[u] = "suspended" /\ awaiting'[u] # None /\ Settled(awaiting[u])'
    <3>1. /\ u \in Task /\ tstate[u] = "suspended"
          /\ awaiting[u] # None /\ fstate'[awaiting[u]] \in Outcomes
      BY SettleTypes, SettleFacts
    <3>2. tstate'[u] = "suspended" /\ awaiting'[u] = awaiting[u]
      BY <3>1
    <3> QED BY <3>1, <3>2 DEF Settled
  <2> QED BY <2>1, <2>2 DEF WakingSound
<1> QED BY <1>2, <1>3, <1>4

\* A settle of a future that is not a task's, with no more to the step than that,
\* keeps the invariant.
LEMMA SettleOtherStep ==
  ASSUME IndInv, NEW e \in Future \ Task, NEW o \in Outcomes, Settle(e, o),
         phase \notin {"exit", "stopped"},
         UNCHANGED <<tstate, cancelled, awaiting, awaitSlot, runnable, allTasks,
                     activeCount, current, phase>>
  PROVE  IndInv'
<1> USE FutureFacts DEF IndInv
<1>1. TypeOK'
  BY SettleTypes, SettleFacts DEF TypeOK
<1>2. NoLostWakeup' /\ WaitersParked' /\ WakingSound'
  BY SettleWaiters
<1>3. \A u \in Task : fstate'[u] = fstate[u]
  BY SettleTypes, SettleFacts
<1>4. \A g \in Future : Settled(g) => Settled(g)'
  BY SettleTypes, SettleFacts DEF Settled
<1>5. QueueSound' /\ CurrentSound'
  BY <1>3 DEF QueueSound, CurrentSound, Settled, TypeOK
<1>6. TaskSound'
  BY <1>3, <1>4 DEF TaskSound, TypeOK
<1>7. AllTasksSound' /\ CountExact'
  BY DEF AllTasksSound, CountExact
<1> QED BY <1>1, <1>2, <1>5, <1>6, <1>7

\* A callback of a composition keeps the invariant.
LEMMA CallbackStep ==
  ASSUME IndInv, Callback
  PROVE  IndInv'
<1> USE FutureFacts DEF IndInv
<1>1. /\ callback \in Composed
      /\ UNCHANGED <<tstate, cancelled, awaiting, awaitSlot, runnable, allTasks,
                     activeCount, current, phase>>
  BY DEF Callback, TypeOK, taskVars, queueVars, loopVars
<1>2. phase \notin {"exit", "stopped"}
  BY <1>1 DEF AllTasksSound, Returned
<1>3. CASE fstate[callback] = "pending" /\ \E o \in Outcomes : Settle(callback, o)
  BY <1>1, <1>2, <1>3, SettleOtherStep
<1>4. CASE callback' = None /\ UNCHANGED <<fstate, waiters, waking, hook>>
  <2>1. TypeOK'
    BY <1>1, <1>4 DEF TypeOK
  <2>2. NoLostWakeup' /\ WaitersParked' /\ WakingSound'
    BY <1>1, <1>4 DEF NoLostWakeup, WaitersParked, WakingSound, Settled
  <2>3. QueueSound' /\ CurrentSound' /\ TaskSound'
    BY <1>1, <1>4 DEF QueueSound, CurrentSound, TaskSound, Settled
  <2>4. AllTasksSound' /\ CountExact'
    BY <1>1, <1>2 DEF AllTasksSound, CountExact
  <2> QED BY <2>1, <2>2, <2>3, <2>4
<1> QED BY <1>3, <1>4 DEF Callback

\* A completion delivered by the event loop keeps the invariant.
LEMMA SettleExternalStep ==
  ASSUME IndInv, NEW e \in External, SettleExternal(e)
  PROVE  IndInv'
<1>1. PICK o \in Outcomes : Settle(e, o)
  BY DEF SettleExternal
<1>2. /\ phase \in {"poll", "fire", "wait"} /\ e \in Future \ Task
      /\ UNCHANGED <<tstate, cancelled, awaiting, awaitSlot, runnable, allTasks,
                     activeCount, current, phase>>
  BY FutureFacts DEF SettleExternal, taskVars, queueVars, loopVars
<1> QED BY <1>1, <1>2, SettleOtherStep

\* The end of an async body keeps the invariant.
LEMMA ReturnStep ==
  ASSUME IndInv, NEW t \in Task, Return(t)
  PROVE  IndInv'
<1> USE FutureFacts DEF IndInv
<1>1. PICK o \in Outcomes : Settle(t, o)
  BY DEF Return, Outcomes
<1>2. /\ waking = <<>> /\ phase = "body" /\ current = t /\ phase' = "after"
      /\ UNCHANGED <<tstate, cancelled, awaiting, awaitSlot, runnable, allTasks,
                     activeCount, current>>
  BY DEF Return, InBody, Returned, taskVars, queueVars
<1>3. tstate[t] = "running" /\ fstate[t] # "unborn" /\ t \notin ToSet(runnable)
  BY <1>2 DEF CurrentSound, TaskSound, QueueSound
<1>4. TypeOK'
  BY <1>1, <1>2, SettleTypes, SettleFacts DEF TypeOK, Phases
<1>5. NoLostWakeup' /\ WaitersParked' /\ WakingSound'
  BY <1>1, <1>2, SettleWaiters
<1>6. Settled(t)'
  BY <1>1, <1>2, <1>3, SettleTypes, SettleFacts DEF Settled
<1>7. QueueSound' /\ CurrentSound'
  BY <1>2, <1>3, <1>6 DEF QueueSound, CurrentSound
<1>8. TaskSound'
  <2>1. \A g \in Future : Settled(g) => Settled(g)'
    BY <1>1, <1>2, SettleTypes, SettleFacts DEF Settled
  <2>2. /\ \A g \in Future : (fstate'[g] = "unborn") <=> (fstate[g] = "unborn")
        /\ \A u \in Task : u # t => fstate'[u] = fstate[u]
    BY <1>1, <1>2, SettleTypes, SettleFacts
  <2> QED BY <1>2, <1>3, <1>6, <2>1, <2>2 DEF TaskSound, TypeOK
<1>9. AllTasksSound' /\ CountExact'
  BY <1>2 DEF AllTasksSound, CountExact
<1> QED BY <1>4, <1>5, <1>7, <1>8, <1>9

\* An await of a cancelled task keeps the invariant.
LEMMA AwaitCancelledStep ==
  ASSUME IndInv, NEW t \in Task, NEW f \in Future, AwaitCancelled(t, f)
  PROVE  IndInv'
<1> USE FutureFacts DEF IndInv
<1>1. Settle(t, "cancelled") /\ "cancelled" \in Outcomes
  BY DEF AwaitCancelled, Outcomes
<1>2. /\ waking = <<>> /\ phase = "body" /\ current = t /\ phase' = "after"
      /\ cancelled[t]
      /\ awaitSlot' = [awaitSlot EXCEPT ![t] = f]
      /\ tstate' = [tstate EXCEPT ![t] = "cancelled"]
      /\ UNCHANGED <<cancelled, awaiting, runnable, allTasks, activeCount, current>>
  BY DEF AwaitCancelled, InBody, Returned, queueVars
<1>3. tstate[t] = "running" /\ fstate[t] # "unborn" /\ t \notin ToSet(runnable)
  BY <1>2 DEF CurrentSound, TaskSound, QueueSound
<1>4. TypeOK'
  BY <1>1, <1>2, SettleTypes, SettleFacts DEF TypeOK, Phases, TaskStates
<1>5. NoLostWakeup' /\ WaitersParked' /\ WakingSound'
  <2>1. /\ \A u \in Task : tstate[u] = "suspended" <=> tstate'[u] = "suspended"
        /\ awaiting' = awaiting
    BY <1>2, <1>3 DEF TypeOK
  <2> QED BY <1>1, <1>2, <2>1, SettleWaiters
<1>6. Settled(t)'
  BY <1>1, <1>2, <1>3, SettleTypes, SettleFacts DEF Settled
<1>7. QueueSound' /\ CurrentSound'
  BY <1>2, <1>3, <1>6 DEF QueueSound, CurrentSound, TypeOK
<1>8. TaskSound'
  <2>1. \A g \in Future : Settled(g) => Settled(g)'
    BY <1>1, <1>2, SettleTypes, SettleFacts DEF Settled
  <2>2. /\ \A g \in Future : (fstate'[g] = "unborn") <=> (fstate[g] = "unborn")
        /\ \A u \in Task : u # t => fstate'[u] = fstate[u]
    BY <1>1, <1>2, SettleTypes, SettleFacts
  <2> QED BY <1>2, <1>3, <1>6, <2>1, <2>2 DEF TaskSound, TypeOK
<1>9. AllTasksSound' /\ CountExact'
  BY <1>2, <1>3 DEF AllTasksSound, CountExact, TypeOK
<1> QED BY <1>4, <1>5, <1>7, <1>8, <1>9

\* The birth of a future that is not a task's keeps the invariant.
LEMMA BirthStep ==
  ASSUME IndInv, NEW e \in Future \ Task, NEW s \in {"pending"} \cup Outcomes,
         fstate[e] = "unborn", fstate' = [fstate EXCEPT ![e] = s],
         waking = <<>>, phase = "body",
         hook' \in [Future -> Composed \cup {None}],
         UNCHANGED <<waiters, waking, callback, tstate, cancelled, awaiting, awaitSlot, runnable,
                     allTasks, activeCount, current, phase>>
  PROVE  IndInv'
<1> USE FutureFacts DEF IndInv
<1>3. /\ \A f \in Future : fstate[f] # "unborn" => fstate'[f] = fstate[f]
      /\ \A u \in Task : fstate'[u] = fstate[u]
      /\ \A f \in Future : Settled(f) => Settled(f)'
  BY DEF TypeOK, Settled, Outcomes
<1>4. TypeOK'
  BY DEF TypeOK, FutureStates, Outcomes
<1>5. NoLostWakeup' /\ WakingSound'
  BY <1>3, EmptyFacts DEF NoLostWakeup, WakingSound, TypeOK
<1>6. WaitersParked'
  <2>1. \A f \in Future : fstate[f] = "pending" => fstate'[f] = "pending"
    BY <1>3
  <2> QED BY <2>1, ParkedKept
<1>7. QueueSound' /\ CurrentSound'
  BY <1>3 DEF QueueSound, CurrentSound, Settled
<1>8. TaskSound'
  BY <1>3 DEF TaskSound, TypeOK
<1>9. AllTasksSound' /\ CountExact'
  BY DEF AllTasksSound, CountExact
<1> QED BY <1>4, <1>5, <1>6, <1>7, <1>8, <1>9

\* Starting a timer or an I/O request keeps the invariant.
LEMMA StartExternalStep ==
  ASSUME IndInv, NEW t \in Task, NEW e \in External, StartExternal(t, e)
  PROVE  IndInv'
<1>1. PICK s \in {"pending", "completed", "failed"} : fstate' = [fstate EXCEPT ![e] = s]
  BY DEF StartExternal
<1>2. /\ waking = <<>> /\ phase = "body" /\ fstate[e] = "unborn" /\ e \in Future \ Task
      /\ UNCHANGED <<waiters, waking, hook, callback, tstate, cancelled, awaiting, awaitSlot,
                     runnable, allTasks, activeCount, current, phase>>
  BY FutureFacts DEF StartExternal, InBody, Returned, taskVars, queueVars, loopVars
<1>3. hook' \in [Future -> Composed \cup {None}] /\ s \in {"pending"} \cup Outcomes
  BY <1>2 DEF IndInv, TypeOK, Outcomes
<1> QED BY <1>1, <1>2, <1>3, BirthStep

\* sn_future_all and sn_future_race keep the invariant.
LEMMA ComposeStep ==
  ASSUME IndInv, NEW t \in Task, NEW g \in Composed, Compose(t, g)
  PROVE  IndInv'
<1>1. PICK s \in {"pending"} \cup Outcomes : fstate' = [fstate EXCEPT ![g] = s]
  BY DEF Compose
<1>2. /\ waking = <<>> /\ phase = "body" /\ fstate[g] = "unborn" /\ g \in Future \ Task
      /\ UNCHANGED <<waiters, waking, callback, tstate, cancelled, awaiting, awaitSlot,
                     runnable, allTasks, activeCount, current, phase>>
  BY FutureFacts DEF Compose, InBody, Returned, taskVars, queueVars, loopVars
<1>3. hook' \in [Future -> Composed \cup {None}]
  BY DEF Compose, IndInv, TypeOK
<1> QED BY <1>1, <1>2, <1>3, BirthStep

\* Awaiting a settled future keeps the invariant.
LEMMA AwaitReadyStep ==
  ASSUME IndInv, NEW t \in Task, NEW f \in Future, AwaitReady(t, f)
  PROVE  IndInv'
<1> USE FutureFacts DEF IndInv
<1>1. /\ Settled(f) /\ tstate[t] = "running"
      /\ awaitSlot' = [awaitSlot EXCEPT ![t] = f]
      /\ UNCHANGED <<fstate, waiters, waking, hook, callback, tstate, cancelled, awaiting, runnable,
                     allTasks, activeCount, current, phase>>
  BY DEF AwaitReady, InBody, Returned, CurrentSound, futureVars, queueVars, loopVars
<1>2. TypeOK'
  BY <1>1 DEF TypeOK
<1>3. NoLostWakeup' /\ WaitersParked' /\ WakingSound'
  BY <1>1 DEF NoLostWakeup, WaitersParked, WakingSound, Settled
<1>4. QueueSound' /\ CurrentSound' /\ AllTasksSound' /\ CountExact'
  BY <1>1 DEF QueueSound, CurrentSound, AllTasksSound, CountExact, Settled
<1>5. TaskSound'
  BY <1>1 DEF TaskSound, TypeOK, Settled
<1> QED BY <1>2, <1>3, <1>4, <1>5

\* Suspending keeps the invariant.
LEMMA AwaitPendingStep ==
  ASSUME IndInv, NEW t \in Task, NEW f \in Future, AwaitPending(t, f)
  PROVE  IndInv'
<1> USE FutureFacts DEF IndInv
<1> DEFINE ws == <<t>> \o waiters[f]
<1>1. /\ waking = <<>> /\ phase = "body" /\ current = t /\ phase' = "after"
      /\ fstate[f] = "pending" /\ ~cancelled[t] /\ tstate[t] = "running"
      /\ awaitSlot' = [awaitSlot EXCEPT ![t] = f]
      /\ awaiting' = [awaiting EXCEPT ![t] = f]
      /\ tstate' = [tstate EXCEPT ![t] = "suspended"]
      /\ waiters' = [waiters EXCEPT ![f] = ws]
      /\ UNCHANGED <<fstate, waking, hook, callback, cancelled, runnable, allTasks, activeCount, current>>
  BY DEF AwaitPending, InBody, Returned, CurrentSound, queueVars
<1>2. \A g \in Future : t \notin ToSet(waiters[g])
  BY <1>1 DEF WaitersParked
<1>3. /\ ws \in Seq(Task) /\ ws # <<>> /\ ToSet(ws) = ToSet(waiters[f]) \cup {t}
      /\ IsInjective(ws)
  <2>1. waiters[f] \in Seq(Task) /\ IsInjective(waiters[f]) /\ t \notin ToSet(waiters[f])
    BY <1>2 DEF TypeOK, WaitersParked
  <2> QED BY <2>1, ConsFacts
<1> HIDE DEF ws
<1>4. TypeOK'
  BY <1>1, <1>3 DEF TypeOK, TaskStates, Phases
<1>5. NoLostWakeup'
  BY <1>1, <1>3, EmptyFacts DEF NoLostWakeup, TypeOK
<1>6. WaitersParked'
  <2>1. waiters'[f] = ws /\ \A g \in Future \ {f} : waiters'[g] = waiters[g]
    BY <1>1 DEF TypeOK
  <2>2. \A g \in Future : IsInjective(waiters'[g])
    BY <2>1, <1>3 DEF WaitersParked
  <2>3. \A g \in Future : waiters'[g] # <<>> => fstate'[g] = "pending"
    BY <2>1, <1>1 DEF WaitersParked
  <2>4. ASSUME NEW g \in Future, NEW u \in ToSet(waiters'[g])
        PROVE  tstate'[u] = "suspended" /\ awaiting'[u] = g
    <3>1. CASE u = t
      BY <3>1, <2>1, <2>4, <1>1, <1>2 DEF TypeOK
    <3>2. CASE u # t
      <4>1. u \in ToSet(waiters[g])
        BY <3>2, <2>1, <2>4, <1>3
      <4>2. u \in Task
        BY <4>1 DEF TypeOK, ToSet
      <4> QED BY <3>2, <4>1, <4>2, <1>1 DEF WaitersParked, TypeOK
    <3> QED BY <3>1, <3>2
  <2> QED BY <2>2, <2>3, <2>4 DEF WaitersParked
<1>7. WakingSound'
  BY <1>1, EmptyFacts DEF WakingSound
<1>8. QueueSound' /\ CurrentSound'
  BY <1>1 DEF QueueSound, CurrentSound, TypeOK, Settled
<1>9. TaskSound'
  BY <1>1 DEF TaskSound, TypeOK, Settled, Outcomes
<1>10. AllTasksSound' /\ CountExact'
  BY <1>1 DEF AllTasksSound, CountExact, TypeOK
<1> QED BY <1>4, <1>5, <1>6, <1>7, <1>8, <1>9, <1>10

\* Being queued again keeps the invariant.
LEMMA YieldStep ==
  ASSUME IndInv, NEW t \in Task, NEW f \in Future, Yield(t, f)
  PROVE  IndInv'
<1> USE FutureFacts DEF IndInv
<1>1. /\ waking = <<>> /\ phase = "body" /\ current = t /\ phase' = "after"
      /\ ~cancelled[t] /\ tstate[t] = "running"
      /\ tstate' = [tstate EXCEPT ![t] = "runnable"]
      /\ runnable' = Enqueued(runnable, t)
      /\ UNCHANGED <<fstate, waiters, waking, hook, callback, cancelled, awaiting, awaitSlot, allTasks,
                     activeCount, current>>
  BY DEF Yield, InBody, Returned, CurrentSound, futureVars
<1>2. /\ runnable' \in Seq(Task) /\ ToSet(runnable') = ToSet(runnable) \cup {t}
      /\ IsInjective(runnable')
  BY <1>1, EnqueuedFacts DEF TypeOK, QueueSound
<1>3. TypeOK'
  BY <1>1, <1>2 DEF TypeOK, TaskStates, Phases
<1>4. NoLostWakeup' /\ WakingSound'
  BY <1>1, EmptyFacts DEF NoLostWakeup, WakingSound, TypeOK
<1>5. WaitersParked'
  BY <1>1, ParkedKept DEF TypeOK
<1>6. t \in allTasks
  BY <1>1 DEF AllTasksSound
<1>7. QueueSound' /\ CurrentSound'
  BY <1>1, <1>2, <1>6 DEF QueueSound, CurrentSound, TypeOK, Settled
<1>8. TaskSound'
  BY <1>1 DEF TaskSound, TypeOK, Settled
<1>9. AllTasksSound' /\ CountExact'
  BY <1>1, <1>6 DEF AllTasksSound, CountExact, TypeOK
<1> QED BY <1>3, <1>4, <1>5, <1>7, <1>8, <1>9

\* Resuming the first task of the queue keeps the invariant.
LEMMA RunNextStep ==
  ASSUME IndInv, RunNext
  PROVE  IndInv'
<1> USE FutureFacts DEF IndInv
<1> DEFINE t == Head(runnable)
<1>1. /\ t \in Task /\ t \in ToSet(runnable)
      /\ PopFirst(runnable) \in Seq(Task) /\ IsInjective(PopFirst(runnable))
      /\ ToSet(runnable) = ToSet(PopFirst(runnable)) \cup {t}
      /\ t \notin ToSet(PopFirst(runnable))
  BY PopFirstFacts DEF RunNext, TypeOK, QueueSound
<1>2. /\ waking = <<>> /\ phase = "ready" /\ phase' = "body" /\ ~cancelled[t]
      /\ runnable' = PopFirst(runnable)
      /\ current' = t
      /\ tstate' = [tstate EXCEPT ![t] = "running"]
      /\ UNCHANGED <<fstate, waiters, waking, hook, callback, cancelled, awaiting, awaitSlot, allTasks,
                     activeCount>>
  BY DEF RunNext, Returned, futureVars
<1> HIDE DEF t
<1>3. tstate[t] = "runnable" /\ current = None
  BY <1>1, <1>2 DEF QueueSound, CurrentSound
<1>4. TypeOK'
  BY <1>1, <1>2 DEF TypeOK, TaskStates, Phases
<1>5. NoLostWakeup' /\ WakingSound'
  BY <1>2, <1>3, EmptyFacts DEF NoLostWakeup, WakingSound, TypeOK
<1>6. WaitersParked'
  BY <1>2, <1>3, ParkedKept DEF TypeOK
<1>7. QueueSound' /\ CurrentSound'
  BY <1>1, <1>2, <1>3 DEF QueueSound, CurrentSound, TypeOK
<1>8. TaskSound'
  <2>1. \A u \in Task : tstate[u] # "running"
    BY <1>3 DEF CurrentSound
  <2>2. tstate'[t] = "running" /\ \A u \in Task : u # t => tstate'[u] = tstate[u]
    BY <1>1, <1>2 DEF TypeOK
  <2> QED BY <1>1, <1>2, <1>3, <2>1, <2>2 DEF TaskSound, Settled
<1>9. AllTasksSound' /\ CountExact'
  BY <1>1, <1>2, <1>3 DEF AllTasksSound, CountExact, QueueSound, TypeOK
<1> QED BY <1>4, <1>5, <1>6, <1>7, <1>8, <1>9

\* Dropping a cancelled task from the queue keeps the invariant.
LEMMA ReapCancelledStep ==
  ASSUME IndInv, ReapCancelled
  PROVE  IndInv'
<1> USE FutureFacts DEF IndInv
<1> DEFINE t == Head(runnable)
<1>1. /\ t \in Task /\ t \in ToSet(runnable)
      /\ PopFirst(runnable) \in Seq(Task) /\ IsInjective(PopFirst(runnable))
      /\ ToSet(runnable) = ToSet(PopFirst(runnable)) \cup {t}
      /\ t \notin ToSet(PopFirst(runnable))
  BY PopFirstFacts DEF ReapCancelled, TypeOK, QueueSound
<1>2. /\ waking = <<>> /\ phase = "ready" /\ cancelled[t]
      /\ runnable' = PopFirst(runnable)
      /\ tstate' = [tstate EXCEPT ![t] = "cancelled"]
      /\ Settle(t, "cancelled")
      /\ activeCount' = activeCount - 1
      /\ allTasks' = allTasks \ {t}
      /\ UNCHANGED <<cancelled, awaiting, awaitSlot, current, phase>>
  BY DEF ReapCancelled, Returned, Leave, loopVars
<1> HIDE DEF t
<1>3. tstate[t] = "cancelled" /\ Settled(t) /\ t \in allTasks
  BY <1>1, <1>2 DEF QueueSound, TaskSound
\* The queue had the task as cancelled and settled: nothing else changes.
<1>4. UNCHANGED <<tstate, fstate, waiters, waking, hook, callback>>
  BY <1>1, <1>2, <1>3 DEF Settle, Settled, Outcomes, TypeOK, futureVars
<1>5. TypeOK'
  BY <1>1, <1>2, <1>4 DEF TypeOK
<1>6. NoLostWakeup' /\ WakingSound'
  BY <1>2, <1>4 DEF NoLostWakeup, WakingSound, Settled
<1>7. WaitersParked'
  BY <1>2, <1>4 DEF WaitersParked
<1>8. QueueSound' /\ CurrentSound'
  BY <1>1, <1>2, <1>3, <1>4 DEF QueueSound, CurrentSound, TypeOK, Settled
<1>9. TaskSound'
  BY <1>2, <1>4 DEF TaskSound, Settled
<1>10. AllTasksSound'
  BY <1>1, <1>2, <1>3, <1>4 DEF AllTasksSound, TypeOK
<1>11. CountExact'
  BY <1>1, <1>2, <1>3, CountFacts DEF CountExact, TypeOK
<1> QED BY <1>5, <1>6, <1>7, <1>8, <1>9, <1>10, <1>11

\* What follows the resume function keeps the invariant.
LEMMA AfterBodyStep ==
  ASSUME IndInv, AfterBody
  PROVE  IndInv'
<1> USE FutureFacts DEF IndInv
<1> DEFINE t == current
<1>1. /\ t \in Task /\ waking = <<>> /\ phase = "after"
      /\ tstate[t] \in {"running", "suspended", "runnable", "cancelled"}
      /\ tstate[t] = "running" => Settled(t)
      /\ tstate[t] = "cancelled" => t \notin ToSet(runnable)
  BY DEF AfterBody, Returned, CurrentSound, TypeOK
<1>2. /\ tstate' = [tstate EXCEPT ![t] = IF @ = "running" THEN "completed" ELSE @]
      /\ current' = None /\ phase' = "ready"
      /\ UNCHANGED <<fstate, waiters, waking, hook, callback, cancelled, awaiting, awaitSlot, runnable>>
  BY DEF AfterBody, futureVars
<1>3. /\ tstate[t] \in {"running", "cancelled"} =>
           activeCount' = activeCount - 1 /\ allTasks' = allTasks \ {t}
      /\ tstate[t] \notin {"running", "cancelled"} => UNCHANGED <<activeCount, allTasks>>
  BY DEF AfterBody, Leave, TurnEnded
<1>4. TypeOK'
  BY <1>1, <1>2, <1>3 DEF TypeOK, TaskStates, Phases
<1>5. NoLostWakeup' /\ WakingSound'
  BY <1>1, <1>2, EmptyFacts DEF NoLostWakeup, WakingSound, TypeOK
<1>6. WaitersParked'
  BY <1>1, <1>2, ParkedKept DEF TypeOK
<1>7. CurrentSound'
  BY <1>1, <1>2 DEF CurrentSound, TypeOK
<1>8. QueueSound'
  <2>1. t \in ToSet(runnable) => tstate[t] = "runnable"
    BY <1>1 DEF QueueSound
  <2> QED BY <1>1, <1>2, <1>3, <2>1 DEF QueueSound, TypeOK
<1>9. TaskSound'
  BY <1>1, <1>2 DEF TaskSound, TypeOK, Settled
<1>10. AllTasksSound'
  BY <1>1, <1>2, <1>3 DEF AllTasksSound, TypeOK
<1>11. CountExact'
  BY <1>1, <1>3, CountFacts DEF CountExact, AllTasksSound, TypeOK
<1> QED BY <1>4, <1>5, <1>6, <1>7, <1>8, <1>9, <1>10, <1>11

\* Cancelling unlinks the task and settles its result future.
LEMMA CancelFacts ==
  ASSUME IndInv, NEW c \in Task, Cancel(c)
  PROVE  /\ fstate' \in [Future -> FutureStates]
         /\ waiters' \in [Future -> Seq(Task)]
         /\ waking' \in Seq(Task) /\ IsInjective(waking')
         /\ hook' \in [Future -> Composed \cup {None}] /\ callback' \in Composed \cup {None}
         /\ \A g \in Future : Settled(g) => fstate'[g] = fstate[g]
         /\ \A g \in Future : g # c => fstate'[g] = fstate[g]
         /\ fstate'[c] \in Outcomes
         /\ \A g \in Future : (fstate'[g] = "unborn") <=> (fstate[g] = "unborn")
         /\ \A g \in Future : IsInjective(waiters'[g])
         /\ \A g \in Future : ToSet(waiters'[g]) \subseteq ToSet(waiters[g]) \ {c}
         /\ \A g \in Future : g # c => ToSet(waiters'[g]) = ToSet(waiters[g]) \ {c}
         /\ fstate[c] = "pending" => waiters'[c] = <<>> /\ ToSet(waking') = ToSet(waiters[c]) \ {c}
         /\ fstate[c] # "pending" => ToSet(waking') = {} /\ UNCHANGED fstate
<1> USE FutureFacts, EmptyFacts DEF IndInv
<1> DEFINE w == IF awaiting[c] = None THEN waiters
                ELSE [waiters EXCEPT ![awaiting[c]] = Unlinked(@, c)]
<1>1. /\ fstate[c] = "pending" =>
           /\ fstate' = [fstate EXCEPT ![c] = "cancelled"]
           /\ waking' = w[c]
           /\ waiters' = [w EXCEPT ![c] = <<>>]
      /\ fstate[c] # "pending" => waiters' = w /\ UNCHANGED <<fstate, waking>>
      /\ waking = <<>> /\ fstate[c] # "unborn"
  BY DEF Cancel, Returned, TaskSound
<1>5. hook' \in [Future -> Composed \cup {None}] /\ callback' \in Composed \cup {None}
  BY DEF Cancel, Returned, TypeOK
<1>2. /\ w \in [Future -> Seq(Task)]
      /\ \A g \in Future : IsInjective(w[g])
      /\ \A g \in Future : ToSet(w[g]) = ToSet(waiters[g]) \ {c}
  <2>1. /\ waiters \in [Future -> Seq(Task)] /\ \A g \in Future : IsInjective(waiters[g])
        /\ \A g \in Future : c \in ToSet(waiters[g]) => awaiting[c] = g
        /\ awaiting[c] \in Future \cup {None}
    BY DEF TypeOK, WaitersParked
  <2>2. CASE awaiting[c] = None
    BY <2>1, <2>2
  <2>3. CASE awaiting[c] # None
    <3> DEFINE h == awaiting[c]
    <3>1. h \in Future
      BY <2>1, <2>3
    <3>2. /\ Unlinked(waiters[h], c) \in Seq(Task)
          /\ IsInjective(Unlinked(waiters[h], c))
          /\ ToSet(Unlinked(waiters[h], c)) = ToSet(waiters[h]) \ {c}
      BY <2>1, <3>1, UnlinkedFacts
    <3>3. w = [waiters EXCEPT ![h] = Unlinked(waiters[h], c)]
      BY <2>3
    <3> HIDE DEF h, w
    <3>4. w[h] = Unlinked(waiters[h], c) /\ \A g \in Future \ {h} : w[g] = waiters[g]
      BY <2>1, <3>1, <3>3
    <3>5. w \in [Future -> Seq(Task)]
      BY <2>1, <3>1, <3>2, <3>3
    <3>6. \A g \in Future : g # h => c \notin ToSet(waiters[g])
      BY <2>1 DEF h
    <3> QED BY <2>1, <3>2, <3>4, <3>5, <3>6
  <2> QED BY <2>2, <2>3
<1> HIDE DEF w
<1>3. CASE fstate[c] = "pending"
  <2>1. waking' \in Seq(Task) /\ IsInjective(waking') /\ ToSet(waking') = ToSet(waiters[c]) \ {c}
    BY <1>1, <1>2, <1>3
  <2>2. waiters'[c] = <<>> /\ (\A g \in Future : g # c => waiters'[g] = w[g])
        /\ waiters' \in [Future -> Seq(Task)]
    <3>1. waiters' = [w EXCEPT ![c] = <<>>] /\ w \in [Future -> Seq(Task)] /\ c \in Future
      BY <1>1, <1>2, <1>3
    <3> QED BY <3>1
  <2>3. /\ \A g \in Future : IsInjective(waiters'[g])
        /\ \A g \in Future : ToSet(waiters'[g]) \subseteq ToSet(waiters[g]) \ {c}
        /\ \A g \in Future : g # c => ToSet(waiters'[g]) = ToSet(waiters[g]) \ {c}
    BY <1>2, <2>2
  <2>4. /\ fstate' \in [Future -> FutureStates]
        /\ \A g \in Future : Settled(g) => fstate'[g] = fstate[g]
        /\ \A g \in Future : g # c => fstate'[g] = fstate[g]
        /\ fstate'[c] \in Outcomes
        /\ \A g \in Future : (fstate'[g] = "unborn") <=> (fstate[g] = "unborn")
    BY <1>1, <1>3 DEF TypeOK, Settled, Outcomes, FutureStates
  <2> QED BY <1>3, <1>5, <2>1, <2>2, <2>3, <2>4
<1>4. CASE fstate[c] # "pending"
  <2>1. /\ UNCHANGED fstate /\ waking' = <<>>
        /\ waiters' = w
    BY <1>1, <1>4
  <2>2. fstate[c] \in Outcomes
    BY <1>1, <1>4 DEF TypeOK, FutureStates
  <2>3. fstate' \in [Future -> FutureStates] /\ fstate'[c] \in Outcomes
    BY <2>1, <2>2 DEF TypeOK
  <2>4. /\ \A g \in Future : IsInjective(waiters'[g])
        /\ \A g \in Future : ToSet(waiters'[g]) = ToSet(waiters[g]) \ {c}
        /\ waiters' \in [Future -> Seq(Task)]
    BY <2>1, <1>2
  <2>5. waking' \in Seq(Task) /\ IsInjective(waking') /\ ToSet(waking') = {}
    BY <2>1
  <2> QED BY <1>4, <1>5, <2>1, <2>3, <2>4, <2>5
<1> QED BY <1>3, <1>4

\* sn_task_cancel keeps the invariant.
LEMMA CancelStep ==
  ASSUME IndInv, NEW c \in Task, Cancel(c)
  PROVE  IndInv'
<1> USE FutureFacts DEF IndInv
<1>1. /\ waking = <<>> /\ phase = "body" /\ tstate[c] # "unborn" /\ ~cancelled[c]
      /\ cancelled' = [cancelled EXCEPT ![c] = TRUE]
      /\ awaiting' = [awaiting EXCEPT ![c] = None]
      /\ tstate' = [tstate EXCEPT ![c] =
                      IF @ \in {"suspended", "runnable"} THEN "cancelled" ELSE @]
      /\ UNCHANGED <<awaitSlot, runnable, allTasks, activeCount, current, phase>>
  BY DEF Cancel, Returned, queueVars, loopVars
<1>2. tstate[c] # "cancelled"
  BY <1>1 DEF TaskSound
<1>3. TypeOK'
  BY <1>1, CancelFacts DEF TypeOK, TaskStates
<1>4. /\ \A u \in Task : u # c =>
           tstate'[u] = tstate[u] /\ awaiting'[u] = awaiting[u] /\ cancelled'[u] = cancelled[u]
      /\ tstate'[c] # "suspended" /\ awaiting'[c] = None /\ cancelled'[c]
      /\ tstate'[c] = IF tstate[c] \in {"suspended", "runnable"} THEN "cancelled" ELSE tstate[c]
  BY <1>1 DEF TypeOK
<1>5. \A u \in Task : tstate[u] = "suspended" =>
        /\ awaiting[u] \in Future /\ fstate[awaiting[u]] = "pending"
        /\ u \in ToSet(waiters[awaiting[u]])
  BY <1>1, EmptyFacts DEF NoLostWakeup, TypeOK
<1>6. NoLostWakeup'
  <2>1. SUFFICES ASSUME NEW u \in Task, u # c, tstate[u] = "suspended",
                        NEW g \in Future, g = awaiting[u]
                 PROVE  IF fstate'[g] = "pending" THEN u \in ToSet(waiters'[g])
                                                  ELSE u \in ToSet(waking')
    BY <1>4, <1>5 DEF NoLostWakeup
  <2>2. u \in ToSet(waiters[g]) /\ fstate[g] = "pending"
    BY <1>5, <2>1
  <2>3. CASE g = c
    BY <2>1, <2>2, <2>3, CancelFacts DEF Outcomes
  <2>4. CASE g # c
    <3>1. fstate'[g] = "pending" /\ ToSet(waiters'[g]) = ToSet(waiters[g]) \ {c}
      BY <2>2, <2>4, CancelFacts
    <3> QED BY <2>1, <2>2, <3>1
  <2> QED BY <2>3, <2>4
<1>7. WaitersParked'
  <2>1. \A g \in Future : IsInjective(waiters'[g])
    BY CancelFacts
  <2>2. ASSUME NEW g \in Future, waiters'[g] # <<>> PROVE fstate'[g] = "pending"
    <3>1. CASE g = c
      <4>1. fstate[c] # "pending"
        BY <2>2, <3>1, CancelFacts
      <4>2. waiters[c] = <<>>
        BY <4>1 DEF WaitersParked
      <4>3. ToSet(waiters'[c]) = {} /\ waiters'[c] \in Seq(Task)
        BY <4>2, CancelFacts, EmptyFacts
      <4> QED BY <4>3, <3>1, <2>2, NoElements
    <3>2. CASE g # c
      <4>1. ToSet(waiters'[g]) = ToSet(waiters[g]) \ {c} /\ waiters'[g] \in Seq(Task)
            /\ fstate'[g] = fstate[g]
        BY <3>2, CancelFacts
      <4>2. waiters[g] # <<>>
        <5>1. waiters[g] = <<>> => ToSet(waiters'[g]) = {}
          BY <4>1, EmptyFacts
        <5> QED BY <5>1, <4>1, <2>2, NoElements
      <4> QED BY <4>1, <4>2 DEF WaitersParked
    <3> QED BY <3>1, <3>2
  <2>3. ASSUME NEW g \in Future, NEW u \in ToSet(waiters'[g])
        PROVE  tstate'[u] = "suspended" /\ awaiting'[u] = g
    <3>1. u \in ToSet(waiters[g]) /\ u # c
      <4>1. ToSet(waiters'[g]) \subseteq ToSet(waiters[g]) \ {c}
        BY CancelFacts
      <4> QED BY <4>1
    <3>2. u \in Task
      BY <3>1 DEF TypeOK, ToSet
    <3>3. tstate[u] = "suspended" /\ awaiting[u] = g
      BY <3>1 DEF WaitersParked
    <3> QED BY <3>1, <3>2, <3>3, <1>4
  <2> QED BY <2>1, <2>2, <2>3 DEF WaitersParked
<1>8. WakingSound'
  <2>1. IsInjective(waking') /\ waking' \in Seq(Task)
    BY CancelFacts
  <2>2. ASSUME NEW u \in ToSet(waking')
        PROVE  tstate'[u] = "suspended" /\ awaiting'[u] # None /\ Settled(awaiting[u])'
    <3>1. u \in ToSet(waiters[c]) /\ u # c
      <4>1. ToSet(waking') = {} \/ ToSet(waking') = ToSet(waiters[c]) \ {c}
        BY CancelFacts
      <4> QED BY <4>1
    <3>4. u \in Task
      BY <3>1 DEF TypeOK, ToSet
    <3>2. tstate[u] = "suspended" /\ awaiting[u] = c
      BY <3>1 DEF WaitersParked
    <3>3. tstate'[u] = "suspended" /\ awaiting'[u] = c /\ fstate'[c] \in Outcomes
      BY <3>1, <3>2, <3>4, <1>4, CancelFacts
    <3> QED BY <3>3 DEF Settled
  <2> QED BY <2>1, <2>2 DEF WakingSound
<1>9. QueueSound'
  <2>1. ASSUME NEW u \in ToSet(runnable)
        PROVE  u \in allTasks /\ tstate'[u] = IF cancelled'[u] THEN "cancelled" ELSE "runnable"
    <3>1. u \in Task /\ u \in allTasks
          /\ tstate[u] = IF cancelled[u] THEN "cancelled" ELSE "runnable"
      BY DEF TypeOK, QueueSound, ToSet
    <3> QED BY <3>1, <1>1, <1>4
  <2> QED BY <2>1, <1>1, <1>4 DEF QueueSound
<1>10. \A g \in Future : Settled(g) => Settled(g)'
  BY CancelFacts DEF Settled
<1>11. CurrentSound'
  BY <1>1, <1>4 DEF CurrentSound, TypeOK
<1>12. TaskSound'
  <2>1. ASSUME NEW u \in Task, u # c
        PROVE  fstate'[u] = fstate[u] /\ tstate'[u] = tstate[u] /\ awaiting'[u] = awaiting[u]
               /\ cancelled'[u] = cancelled[u] /\ awaitSlot'[u] = awaitSlot[u]
    BY <2>1, <1>1, <1>4, CancelFacts
  <2>2. fstate'[c] \in Outcomes /\ awaitSlot'[c] = awaitSlot[c]
    BY <1>1, CancelFacts
  <2>3. awaitSlot \in [Task -> Future \cup {None}]
    BY DEF TypeOK
  <2> QED BY <2>1, <2>2, <2>3, <1>1, <1>2, <1>4, <1>10 DEF TaskSound, Settled, Outcomes
<1>13. AllTasksSound' /\ CountExact'
  BY <1>1, <1>4 DEF AllTasksSound, CountExact, TypeOK
<1> QED BY <1>3, <1>6, <1>7, <1>8, <1>9, <1>11, <1>12, <1>13

\* The tests and phases of the event loop keep the invariant.
LEMMA LoopStep ==
  ASSUME IndInv, RunReadyDone \/ PollDone \/ CheckExit \/ WaitDone
  PROVE  IndInv'
<1> USE FutureFacts DEF IndInv
<1>1. /\ waking = <<>> /\ phase \in {"poll", "ready", "fire", "wait"}
      /\ phase' \in {"ready", "fire", "exit", "poll", "wait"}
      /\ phase' = "exit" => ExitLoop
      /\ callback = None
      /\ UNCHANGED <<fstate, waiters, waking, hook, callback, tstate, cancelled, awaiting, awaitSlot,
                     runnable, allTasks, activeCount, current>>
  BY DEF RunReadyDone, PollDone, CheckExit, WaitDone, Returned, futureVars, taskVars, queueVars
<1>2. phase' = "exit" => allTasks = {} /\ runnable = <<>>
  <2>1. SUFFICES ASSUME phase' = "exit" PROVE allTasks = {} /\ runnable = <<>>
    OBVIOUS
  <2>2. activeCount <= 0 /\ runnable = <<>>
    BY <1>1, <2>1 DEF ExitLoop
  <2>3. /\ Cardinality(allTasks) \in Nat
        /\ Cardinality(allTasks) = 0 => allTasks = {}
    BY CountFacts DEF TypeOK
  <2> QED BY <2>2, <2>3 DEF CountExact
<1>3. TypeOK'
  BY <1>1 DEF TypeOK, Phases
<1>4. NoLostWakeup' /\ WaitersParked' /\ WakingSound'
  BY <1>1 DEF NoLostWakeup, WaitersParked, WakingSound, Settled
<1>5. QueueSound' /\ CurrentSound'
  BY <1>1 DEF QueueSound, CurrentSound
<1>6. TaskSound' /\ CountExact'
  BY <1>1 DEF TaskSound, CountExact, Settled
<1>7. AllTasksSound'
  BY <1>1, <1>2 DEF AllTasksSound, Returned
<1> QED BY <1>3, <1>4, <1>5, <1>6, <1>7

\* sn_async_shutdown keeps the invariant.
LEMMA ShutdownStep ==
  ASSUME IndInv, Shutdown
  PROVE  IndInv'
<1> USE FutureFacts, EmptyFacts DEF IndInv
<1>1. /\ phase = "exit" /\ phase' = "stopped"
      /\ runnable' = <<>> /\ allTasks' = {} /\ activeCount' = 0 /\ current' = None
      /\ UNCHANGED <<fstate, waiters, waking, hook, callback, tstate, cancelled, awaiting, awaitSlot>>
  BY DEF Shutdown, futureVars, taskVars
<1>2. TypeOK'
  BY <1>1 DEF TypeOK, Phases
<1>3. NoLostWakeup' /\ WaitersParked' /\ WakingSound'
  BY <1>1 DEF NoLostWakeup, WaitersParked, WakingSound, Settled
<1>4. /\ waking = <<>> /\ callback = None /\ current = None
      /\ \A t \in Task : tstate[t] \notin {"runnable", "running", "suspended"}
  BY <1>1 DEF AllTasksSound, CurrentSound, Returned
<1>5. QueueSound' /\ CurrentSound'
  BY <1>1, <1>4 DEF QueueSound, CurrentSound
<1>6. TaskSound' /\ AllTasksSound'
  BY <1>1, <1>4 DEF TaskSound, AllTasksSound, Settled, Returned
<1>7. CountExact'
  BY <1>1, FS_EmptySet DEF CountExact
<1> QED BY <1>2, <1>3, <1>5, <1>6, <1>7

-----------------------------------------------------------------------------
(* The invariant holds for ever. *)

\* Every step of the scheduler, of a body or of a completion keeps the bookkeeping.
THEOREM NextInv == IndInv /\ [Next]_vars => IndInv'
<1> SUFFICES ASSUME IndInv, [Next]_vars PROVE IndInv'
  OBVIOUS
<1>1. CASE Callback \/ WakeOne
  BY <1>1, CallbackStep, WakeOneStep
<1>2. CASE Body
  <2>1. CASE \E t, u \in Task : Spawn(t, u)
    BY <2>1, SpawnStep
  <2>2. CASE \E t \in Task, e \in External : StartExternal(t, e)
    BY <2>2, StartExternalStep
  <2>6. CASE \E t \in Task, g \in Composed : Compose(t, g)
    BY <2>6, ComposeStep
  <2>3. CASE \E t \in Task, f \in Future :
               AwaitReady(t, f) \/ AwaitPending(t, f) \/ AwaitCancelled(t, f) \/ Yield(t, f)
    BY <2>3, AwaitReadyStep, AwaitPendingStep, AwaitCancelledStep, YieldStep
  <2>4. CASE \E t \in Task : Return(t)
    BY <2>4, ReturnStep
  <2>5. CASE \E c \in Task : Cancel(c)
    BY <2>5, CancelStep
  <2> QED BY <1>2, <2>1, <2>2, <2>3, <2>4, <2>5, <2>6 DEF Body
<1>3. CASE RunReady
  BY <1>3, RunNextStep, ReapCancelledStep, AfterBodyStep, LoopStep DEF RunReady
<1>4. CASE Loop
  BY <1>4, SettleExternalStep, LoopStep, ShutdownStep DEF Loop
<1>5. CASE UNCHANGED vars
  <2>1. UNCHANGED <<fstate, waiters, waking, hook, callback, tstate, cancelled, awaiting, awaitSlot,
                    runnable, allTasks, activeCount, current, phase>>
    BY <1>5 DEF vars, futureVars, taskVars, queueVars, loopVars
  <2>2. TypeOK' /\ NoLostWakeup' /\ WaitersParked' /\ WakingSound'
    BY <2>1 DEF IndInv, TypeOK, NoLostWakeup, WaitersParked, WakingSound, Settled
  <2>3. QueueSound' /\ CurrentSound' /\ TaskSound' /\ AllTasksSound' /\ CountExact'
    BY <2>1 DEF IndInv, QueueSound, CurrentSound, TaskSound, AllTasksSound, CountExact, Settled, Returned
  <2> QED BY <2>2, <2>3 DEF IndInv
<1> QED BY <1>1, <1>2, <1>3, <1>4, <1>5 DEF Next, Stopped

\* In every reachable state the futures, the waiter lists, the task table, the
\* queue and the counter agree (sn_task_spawn .. sn_scheduler_run_ready).
THEOREM InductiveInvariant == Spec => []IndInv
BY InitInv, NextInv, PTL DEF Spec

\* The variables have their types.
THEOREM TypeCorrect == Spec => []TypeOK
<1>1. IndInv => TypeOK
  BY DEF IndInv
<1> QED BY <1>1, InductiveInvariant, PTL

\* No wakeup is lost and none is stale: a suspended task waits on a pending
\* future or is being woken, and only suspended tasks are in waiter lists.
THEOREM WakeupsSound == Spec => [](NoLostWakeup /\ WaitersParked)
<1>1. IndInv => NoLostWakeup /\ WaitersParked
  BY DEF IndInv
<1> QED BY <1>1, InductiveInvariant, PTL

\* The runnable queue holds the tasks that can run, once each, and besides them only
\* cancelled ones that wait to be reaped; active_count is the number of tasks in
\* all_tasks, each of which is queued, current, suspended or abandoned.
THEOREM AccountingSound == Spec => [](QueueSound /\ ActiveCountExact)
<1>1. IndInv => QueueSound /\ ActiveCountExact
  <2>1. SUFFICES ASSUME IndInv, NEW t \in allTasks,
                        t \notin ToSet(runnable), t # current, tstate[t] # "suspended"
                 PROVE  tstate[t] = "cancelled"
    BY DEF IndInv, TypeOK, ActiveCountExact, Abandoned
  <2>2. t \in Task /\ tstate[t] \in TaskStates /\ tstate[t] \notin {"unborn", "completed"}
    BY <2>1 DEF IndInv, TypeOK, AllTasksSound
  <2>3. tstate[t] \notin {"runnable", "running"}
    BY <2>1, <2>2 DEF IndInv, QueueSound, CurrentSound
  <2> QED BY <2>1, <2>2, <2>3 DEF TaskStates
<1> QED BY <1>1, InductiveInvariant, PTL

\* The code behind an await reads a settled future.
THEOREM ResumesOnSettled == Spec => []ResumedSettled
<1>1. IndInv => ResumedSettled
  BY DEF IndInv, TaskSound, ResumedSettled
<1> QED BY <1>1, InductiveInvariant, PTL

\* The event loop ends only when every spawned task has finished.
THEOREM ExitIsComplete == Spec => []ExitComplete
<1>1. IndInv => ExitComplete
  BY DEF IndInv, TypeOK, TaskStates, AllTasksSound, TaskSound, ExitComplete
<1> QED BY <1>1, InductiveInvariant, PTL

\* No step changes a settled future.
LEMMA SettleOnceStep ==
  IndInv /\ [Next]_vars => [\A f \in Future : Settled(f) => fstate'[f] = fstate[f]]_vars
<1> SUFFICES ASSUME IndInv, Next, NEW f \in Future, Settled(f)
             PROVE  fstate'[f] = fstate[f]
  BY DEF vars
<1> USE FutureFacts
<1>1. fstate \in [Future -> FutureStates] /\ fstate[f] \notin {"unborn", "pending"}
  BY DEF IndInv, TypeOK, Settled, Outcomes
<1>2. \A g \in Future, o \in Outcomes : Settle(g, o) => fstate'[f] = fstate[f]
  BY <1>1 DEF Settle, futureVars
<1>3. ASSUME NEW t \in Task, NEW u \in Task, Spawn(t, u) PROVE fstate'[f] = fstate[f]
  BY <1>1, <1>3 DEF Spawn, IndInv, TaskSound
<1>4. ASSUME NEW t \in Task, NEW e \in External, StartExternal(t, e)
      PROVE  fstate'[f] = fstate[f]
  BY <1>1, <1>4 DEF StartExternal
<1>5. ASSUME NEW t \in Task, NEW g \in Future,
             AwaitReady(t, g) \/ AwaitPending(t, g) \/ AwaitCancelled(t, g) \/ Yield(t, g)
      PROVE  fstate'[f] = fstate[f]
  BY <1>2, <1>5 DEF AwaitReady, AwaitPending, AwaitCancelled, Yield, futureVars, Outcomes
<1>6. ASSUME NEW t \in Task, Return(t) PROVE fstate'[f] = fstate[f]
  BY <1>2, <1>6 DEF Return, Outcomes
<1>7. ASSUME NEW c \in Task, Cancel(c) PROVE fstate'[f] = fstate[f]
  BY <1>7, CancelFacts
<1>8. ASSUME RunReady PROVE fstate'[f] = fstate[f]
  <2>1. CASE ReapCancelled
    <3>1. Head(runnable) \in Task
      BY <2>1, PopFirstFacts DEF ReapCancelled, IndInv, TypeOK
    <3> QED BY <2>1, <3>1, <1>2 DEF ReapCancelled, Outcomes
  <2>2. CASE RunNext \/ AfterBody \/ RunReadyDone
    BY <2>2 DEF RunNext, AfterBody, RunReadyDone, futureVars
  <2> QED BY <1>8, <2>1, <2>2 DEF RunReady
<1>9. ASSUME NEW e \in External, SettleExternal(e) PROVE fstate'[f] = fstate[f]
  BY <1>2, <1>9 DEF SettleExternal
<1>11. ASSUME NEW t \in Task, NEW g \in Composed, Compose(t, g) PROVE fstate'[f] = fstate[f]
  BY <1>1, <1>11 DEF Compose
<1>12. ASSUME Callback PROVE fstate'[f] = fstate[f]
  <2>1. callback \in Future
    BY <1>12 DEF Callback, IndInv, TypeOK
  <2> QED BY <2>1, <1>2, <1>12 DEF Callback
<1>10. ASSUME WakeOne \/ PollDone \/ CheckExit \/ WaitDone \/ Shutdown \/ Stopped
       PROVE  fstate'[f] = fstate[f]
  BY <1>10 DEF WakeOne, PollDone, CheckExit, WaitDone, Shutdown, Stopped, vars, futureVars
<1> QED BY <1>3, <1>4, <1>5, <1>6, <1>7, <1>8, <1>9, <1>10, <1>11, <1>12 DEF Next, Body, Loop

\* A future settles once, whoever settles it (settle()).
THEOREM SettlesOnce == Spec => SettleOnce
BY InductiveInvariant, SettleOnceStep, PTL DEF Spec, SettleOnce

\* Only a live, runnable task whose awaited future has settled gets the thread.
LEMMA ResumeStep ==
  IndInv /\ [Next]_vars =>
    [\A t \in Task : current # t /\ current' = t =>
       /\ ~cancelled[t] /\ tstate[t] = "runnable"
       /\ awaitSlot[t] # None => Settled(awaitSlot[t])]_vars
<1> SUFFICES ASSUME IndInv, Next, NEW t \in Task, current # t, current' = t
             PROVE  /\ ~cancelled[t] /\ tstate[t] = "runnable"
                    /\ awaitSlot[t] # None => Settled(awaitSlot[t])
  BY DEF vars
<1> USE FutureFacts
<1>1. RunNext
  <2>1. ~Callback /\ ~WakeOne /\ ~Body /\ ~Loop /\ ~Stopped
    BY DEF Callback, WakeOne, Body, Loop, Stopped, Spawn, StartExternal, Compose, AwaitReady, AwaitPending,
           AwaitCancelled, Yield, Return, Cancel, SettleExternal, PollDone, CheckExit,
           WaitDone, Shutdown, vars, loopVars
  <2>2. ~ReapCancelled /\ ~AfterBody /\ ~RunReadyDone
    BY DEF ReapCancelled, AfterBody, RunReadyDone, loopVars
  <2> QED BY <2>1, <2>2 DEF Next, RunReady
<1>2. t = Head(runnable) /\ t \in ToSet(runnable)
  BY <1>1, PopFirstFacts DEF RunNext, IndInv, TypeOK
<1>3. ~cancelled[t] /\ tstate[t] = "runnable"
  BY <1>1, <1>2 DEF RunNext, IndInv, QueueSound
<1> QED BY <1>3 DEF IndInv, TaskSound

\* A task enters its body again only when what it awaited has settled
\* (sn_scheduler_run_ready).
THEOREM ResumesOnlySettled == Spec => ResumeOnlySettled
BY InductiveInvariant, ResumeStep, PTL DEF Spec, ResumeOnlySettled

\* No step runs, reaps or queues an abandoned task, and none ends the loop before it.
LEMMA AbandonedStep ==
  IndInv /\ [Next]_vars => [Abandoned \subseteq Abandoned']_vars
<1> SUFFICES ASSUME IndInv, Next, NEW t \in Abandoned
             PROVE  t \in Abandoned'
  BY DEF vars
<1> DEFINE Kept == t \in allTasks' /\ tstate'[t] = "cancelled"
                   /\ t \notin ToSet(runnable') /\ t # current'
<1>0. SUFFICES Kept
  BY DEF Abandoned
<1>1. /\ t \in Task /\ t \in allTasks /\ tstate[t] = "cancelled" /\ cancelled[t]
      /\ t \notin ToSet(runnable) /\ t # current
  BY DEF Abandoned, IndInv, TypeOK, TaskSound
<1>2. /\ runnable \in Seq(Task) /\ waking \in Seq(Task)
      /\ tstate \in [Task -> TaskStates] /\ current \in Task \cup {None} /\ t # None
  BY <1>1, FutureFacts DEF IndInv, TypeOK
<1>3. \A u \in Task : u # t => t \notin ToSet(Enqueued(runnable, u))
  BY <1>1, <1>2, EnqueuedFacts
<1>4. ASSUME NEW v \in Task, NEW u \in Task, Spawn(v, u) PROVE Kept
  <2>1. u # t
    BY <1>1, <1>4 DEF Spawn
  <2> QED BY <1>1, <1>2, <1>3, <1>4, <2>1 DEF Spawn, loopVars
<1>5. ASSUME NEW v \in Task, NEW f \in Future,
             \/ AwaitReady(v, f) \/ AwaitPending(v, f) \/ AwaitCancelled(v, f) \/ Yield(v, f)
             \/ Return(v)
      PROVE  Kept
  <2>1. v # t
    BY <1>1, <1>5 DEF AwaitReady, AwaitPending, AwaitCancelled, Yield, Return, InBody
  <2>2. /\ allTasks' = allTasks /\ current' = current
        /\ runnable' = runnable \/ runnable' = Enqueued(runnable, v)
        /\ \A w \in Task : w # v => tstate'[w] = tstate[w]
    <3>1. CASE AwaitReady(v, f) \/ AwaitPending(v, f)
      BY <1>2, <3>1 DEF AwaitReady, AwaitPending, queueVars, loopVars
    <3>2. CASE AwaitCancelled(v, f)
      BY <1>2, <3>2 DEF AwaitCancelled, queueVars
    <3>3. CASE Yield(v, f)
      BY <1>2, <3>3 DEF Yield
    <3>4. CASE Return(v)
      BY <1>2, <3>4 DEF Return, taskVars, queueVars
    <3> QED BY <1>5, <3>1, <3>2, <3>3, <3>4
  <2> QED BY <1>1, <1>3, <2>1, <2>2
<1>6. ASSUME NEW c \in Task, Cancel(c) PROVE Kept
  BY <1>1, <1>2, <1>6 DEF Cancel, queueVars, loopVars
<1>7. CASE WakeOne
  <2>1. Head(waking) \in Task /\ tstate[Head(waking)] = "suspended"
    BY <1>7, TailFacts DEF WakeOne, IndInv, TypeOK, WakingSound
  <2>2. Head(waking) # t
    BY <1>1, <2>1
  <2> QED BY <1>1, <1>2, <1>3, <1>7, <2>1, <2>2 DEF WakeOne, loopVars
<1>8. CASE RunNext \/ ReapCancelled
  <2>1. /\ Head(runnable) \in ToSet(runnable)
        /\ ToSet(PopFirst(runnable)) \subseteq ToSet(runnable)
    BY <1>2, <1>8, PopFirstFacts DEF RunNext, ReapCancelled
  <2> QED BY <1>1, <1>2, <1>8, <2>1 DEF RunNext, ReapCancelled, Leave, loopVars
<1>9. CASE AfterBody
  BY <1>1, <1>2, <1>9 DEF AfterBody, Leave
<1>10. CASE Shutdown
  BY <1>1, <1>10 DEF Shutdown, IndInv, AllTasksSound
<1>11. ASSUME UNCHANGED <<tstate, allTasks, runnable, current>> PROVE Kept
  BY <1>1, <1>11
<1>12. ASSUME \/ \E v \in Task, e \in External : StartExternal(v, e)
              \/ \E v \in Task, g \in Composed : Compose(v, g)
              \/ Callback \/ \E e \in External : SettleExternal(e)
              \/ RunReadyDone \/ PollDone \/ CheckExit \/ WaitDone \/ Stopped
       PROVE  Kept
  BY <1>11, <1>12 DEF StartExternal, Compose, Callback, SettleExternal, RunReadyDone, PollDone,
     CheckExit, WaitDone, Stopped, vars, taskVars, queueVars, loopVars
<1> QED
  BY <1>4, <1>5, <1>6, <1>7, <1>8, <1>9, <1>10, <1>12, FutureFacts DEF Next, Body, RunReady, Loop

\* A task cancelled while it was suspended is never run, reaped or let go, and while
\* there is one the event loop does not end (sn_task_cancel, sn_event_loop_run).
THEOREM AbandonedForever ==
  Spec => AbandonedHeld /\ [](Abandoned # {} => phase \notin {"exit", "stopped"})
<1>1. IndInv => (Abandoned # {} => phase \notin {"exit", "stopped"})
  BY DEF IndInv, AllTasksSound, Abandoned
<1> QED BY <1>1, InductiveInvariant, AbandonedStep, PTL DEF Spec, AbandonedHeld

-----------------------------------------------------------------------------
(* The scheduler implements AsyncContract: every step maps to a step of    *)
(* the contract or to a stutter.                                           *)

\* A step that changes no future and no task's place leaves the contract alone.
LEMMA ContractStutter ==
  ASSUME UNCHANGED fstate,
         \A t \in Task : ContractState(t)' = ContractState(t) /\ WaitsFor(t)' = WaitsFor(t)
  PROVE  UNCHANGED Contract!vars
BY DEF Contract!vars

\* The same, said of the variables: the suspended tasks and the list being woken
\* stay, and no task changes between unborn, live and finished.
LEMMA ContractUnmoved ==
  ASSUME UNCHANGED <<fstate, waking>>,
         \A t \in Task : tstate[t] = "suspended" <=> tstate'[t] = "suspended",
         \A t \in Task : tstate[t] = "suspended" => awaiting'[t] = awaiting[t],
         \A t \in Task : tstate[t] = "unborn" <=> tstate'[t] = "unborn",
         \A t \in Task : tstate[t] \in {"completed", "cancelled"}
                           <=> tstate'[t] \in {"completed", "cancelled"}
  PROVE  UNCHANGED Contract!vars
<1>1. \A t \in Task : ContractState(t)' = ContractState(t) /\ WaitsFor(t)' = WaitsFor(t)
  BY DEF ContractState, WaitsFor, Waiting
<1> QED BY <1>1, ContractStutter

\* The contract's waiters of f are those of its list: the others are being woken.
LEMMA WaitersOf ==
  ASSUME IndInv, NEW t \in Task, NEW f \in Future
  PROVE  WaitsFor(t) = f <=> t \in ToSet(waiters[f])
<1> USE FutureFacts, EmptyFacts DEF IndInv
<1>2. ASSUME WaitsFor(t) = f PROVE t \in ToSet(waiters[f])
  <2>1. Waiting(t) /\ awaiting[t] = f
    BY <1>2 DEF WaitsFor
  <2> QED BY <2>1 DEF Waiting, NoLostWakeup
<1>3. ASSUME t \in ToSet(waiters[f]) PROVE WaitsFor(t) = f
  <2>1. tstate[t] = "suspended" /\ awaiting[t] = f /\ fstate[f] = "pending"
    BY <1>3 DEF WaitersParked
  <2>2. t \notin ToSet(waking)
    BY <2>1 DEF WakingSound, Settled, Outcomes
  <2> QED BY <2>1, <2>2 DEF WaitsFor, Waiting
<1> QED BY <1>2, <1>3

\* settle() of a pending future is the contract's settle.
LEMMA SettleMaps ==
  ASSUME IndInv, NEW f \in Future, NEW o \in Outcomes,
         fstate[f] = "pending", Settle(f, o), UNCHANGED <<tstate, awaiting>>
  PROVE  Contract!Settle(f, o)
<1> USE FutureFacts, EmptyFacts
<1>1. /\ fstate' = [fstate EXCEPT ![f] = o]
      /\ ToSet(waking') = ToSet(waiters[f]) \cup ToSet(waking)
  <2>1. waiters[f] \in Seq(Task) /\ waking \in Seq(Task)
    BY DEF IndInv, TypeOK
  <2>2. waking' = waiters[f] \o waking
    BY DEF Settle
  <2>3. ToSet(waking') = ToSet(waiters[f]) \cup ToSet(waking)
    BY <2>1, <2>2, ConcatFacts
  <2> QED BY <2>3 DEF Settle
<1>2. ASSUME NEW t \in Task
      PROVE  /\ ContractState(t)' = IF WaitsFor(t) = f THEN "ready" ELSE ContractState(t)
             /\ WaitsFor(t)' = IF WaitsFor(t) = f THEN None ELSE WaitsFor(t)
  <2>1. t \in ToSet(waking') <=> WaitsFor(t) = f \/ t \in ToSet(waking)
    BY <1>1, WaitersOf
  <2>2. Waiting(t)' <=> Waiting(t) /\ WaitsFor(t) # f
    BY <2>1 DEF Waiting
  <2>3. WaitsFor(t) = f => tstate[t] = "suspended"
    BY DEF WaitsFor, Waiting
  <2>4. CASE WaitsFor(t) = f
    BY <2>2, <2>3, <2>4 DEF ContractState, WaitsFor
  <2>5. CASE WaitsFor(t) # f
    <3>1. Waiting(t)' <=> Waiting(t)
      BY <2>2, <2>5
    <3> QED BY <2>5, <3>1 DEF ContractState, WaitsFor
  <2> QED BY <2>4, <2>5
<1>3. \A t \in Task : t # None
  OBVIOUS
<1> QED BY <1>1, <1>2, <1>3 DEF Contract!Settle, Contract!SettleAnd

\* Cancelling a task settles its result future and ends the task in the contract:
\* sn_task_cancel settles and unlinks in one step, no waiter of it is missed.
LEMMA CancelMaps ==
  ASSUME IndInv, NEW c \in Task, Cancel(c)
  PROVE  [Contract!Next]_(Contract!vars)
<1> USE FutureFacts, EmptyFacts
<1>1. /\ waking = <<>> /\ tstate[c] # "unborn" /\ ~cancelled[c]
      /\ awaiting' = [awaiting EXCEPT ![c] = None]
      /\ tstate' = [tstate EXCEPT ![c] =
                      IF @ \in {"suspended", "runnable"} THEN "cancelled" ELSE @]
  BY DEF Cancel, Returned
<1>2. /\ \A u \in Task : u # c => tstate'[u] = tstate[u] /\ awaiting'[u] = awaiting[u]
      /\ tstate'[c] = IF tstate[c] \in {"suspended", "runnable"} THEN "cancelled" ELSE tstate[c]
  BY <1>1 DEF IndInv, TypeOK
<1>3. CASE fstate[c] = "pending"
  <2>1. fstate' = [fstate EXCEPT ![c] = "cancelled"]
    BY <1>3 DEF Cancel
  <2>2. ToSet(waking') = ToSet(waiters[c]) \ {c}
    BY <1>3, CancelFacts
  <2>3. ASSUME NEW t \in Task, t # c
        PROVE  /\ ContractState(t)' = IF WaitsFor(t) = c THEN "ready" ELSE ContractState(t)
               /\ WaitsFor(t)' = IF WaitsFor(t) = c THEN None ELSE WaitsFor(t)
    <3>1. /\ Waiting(t) <=> tstate[t] = "suspended"
          /\ WaitsFor(t) = c <=> t \in ToSet(waking')
      BY <1>1, <2>2, <2>3, WaitersOf DEF Waiting
    <3>2. /\ Waiting(t)' <=> tstate[t] = "suspended" /\ WaitsFor(t) # c
          /\ tstate'[t] = tstate[t] /\ awaiting'[t] = awaiting[t]
      BY <1>2, <2>3, <3>1 DEF Waiting
    <3>3. CASE WaitsFor(t) = c
      <4>1. tstate[t] = "suspended"
        BY <3>1, <3>3 DEF WaitsFor
      <4> QED BY <3>2, <3>3, <4>1 DEF ContractState, WaitsFor
    <3>4. CASE WaitsFor(t) # c
      <4>1. Waiting(t)' <=> Waiting(t)
        BY <3>1, <3>2, <3>4
      <4> QED BY <3>2, <3>4, <4>1 DEF ContractState, WaitsFor
    <3> QED BY <3>3, <3>4
  <2>4. CASE tstate[c] \in {"suspended", "runnable"}
    <3>1. ContractState(c)' = "done" /\ WaitsFor(c)' = None
      BY <1>2, <2>4 DEF ContractState, WaitsFor, Waiting
    <3>2. ContractState(c) # "unborn"
      BY <1>1 DEF ContractState
    <3>3. Contract!SettleAnd(c, "cancelled", c)
      BY <1>3, <2>1, <2>3, <3>1 DEF Contract!SettleAnd
    <3> QED BY <3>2, <3>3 DEF Contract!Next, Contract!Cancel
  <2>5. CASE tstate[c] \notin {"suspended", "runnable"}
    <3>1. ContractState(c)' = ContractState(c) /\ WaitsFor(c)' = None /\ WaitsFor(c) = None
      BY <1>2, <2>5 DEF ContractState, WaitsFor, Waiting
    <3>2. Contract!SettleAnd(c, "cancelled", None)
      BY <1>3, <2>1, <2>3, <3>1 DEF Contract!SettleAnd
    <3> QED BY <3>2 DEF Contract!Next, Contract!Settle, Contract!Outcomes, Contract!Future, Future
  <2> QED BY <2>4, <2>5
<1>4. CASE fstate[c] # "pending"
  <2>1. UNCHANGED <<fstate, waking>>
    BY <1>4 DEF Cancel
  <2>2. tstate[c] \notin {"suspended", "runnable"}
    BY <1>4 DEF IndInv, TaskSound
  <2> QED BY <1>2, <2>1, <2>2, ContractUnmoved
<1> QED BY <1>3, <1>4

\* Every step of a body is a step of the contract.
LEMMA BodyMaps ==
  ASSUME IndInv, Body
  PROVE  [Contract!Next]_(Contract!vars)
<1> USE FutureFacts, EmptyFacts
<1>1. ASSUME NEW t \in Task, NEW u \in Task, Spawn(t, u)
      PROVE  [Contract!Next]_(Contract!vars)
  <2>1. /\ tstate[u] = "unborn" /\ waking' = waking /\ waking = <<>>
        /\ fstate' = [fstate EXCEPT ![u] = "pending"]
        /\ \A v \in Task : tstate'[v] = IF v = u THEN "runnable" ELSE tstate[v]
        /\ awaiting' = awaiting
    BY <1>1 DEF Spawn, InBody, Returned, IndInv, TypeOK
  <2>2. \A v \in Task : WaitsFor(v)' = WaitsFor(v)
    BY <2>1 DEF WaitsFor, Waiting
  <2>3. \A v \in Task : ContractState(v)' = IF v = u THEN "ready" ELSE ContractState(v)
    BY <2>1 DEF ContractState, Waiting
  <2>4. ContractState(u) = "unborn"
    BY <2>1 DEF ContractState, Waiting
  <2> QED BY <2>1, <2>2, <2>3, <2>4 DEF Contract!Next, Contract!Begin
<1>2. ASSUME NEW t \in Task, NEW e \in External, StartExternal(t, e)
      PROVE  [Contract!Next]_(Contract!vars)
  <2>1. /\ fstate[e] = "unborn" /\ UNCHANGED <<waking, tstate, awaiting>>
        /\ \E s \in {"pending"} \cup Outcomes : fstate' = [fstate EXCEPT ![e] = s]
    BY <1>2 DEF StartExternal, taskVars, Outcomes
  <2>2. \A v \in Task : ContractState(v)' = ContractState(v) /\ WaitsFor(v)' = WaitsFor(v)
    BY <2>1 DEF ContractState, WaitsFor, Waiting
  <2>3. Contract!Start(e)
    BY <2>1, <2>2 DEF Contract!Start, Contract!Outcomes, Outcomes
  <2> QED BY <2>3 DEF Contract!Next
<1>8. ASSUME NEW t \in Task, NEW g \in Composed, Compose(t, g)
      PROVE  [Contract!Next]_(Contract!vars)
  <2>1. /\ fstate[g] = "unborn" /\ UNCHANGED <<waking, tstate, awaiting>>
        /\ \E s \in {"pending"} \cup Outcomes : fstate' = [fstate EXCEPT ![g] = s]
    BY <1>8 DEF Compose, taskVars
  <2>2. \A v \in Task : ContractState(v)' = ContractState(v) /\ WaitsFor(v)' = WaitsFor(v)
    BY <2>1 DEF ContractState, WaitsFor, Waiting
  <2>3. Contract!Start(g)
    BY <2>1, <2>2 DEF Contract!Start, Contract!Outcomes, Outcomes
  <2> QED BY <2>3 DEF Contract!Next
<1>3. ASSUME NEW t \in Task, NEW f \in Future, AwaitReady(t, f)
      PROVE  UNCHANGED Contract!vars
  BY <1>3, ContractUnmoved DEF AwaitReady, futureVars
<1>4. ASSUME NEW t \in Task, NEW f \in Future, AwaitPending(t, f)
      PROVE  [Contract!Next]_(Contract!vars)
  <2>1. /\ waking' = <<>> /\ waking = <<>> /\ fstate[f] = "pending" /\ fstate' = fstate
        /\ tstate[t] = "running"
        /\ \A v \in Task : tstate'[v] = IF v = t THEN "suspended" ELSE tstate[v]
        /\ \A v \in Task : awaiting'[v] = IF v = t THEN f ELSE awaiting[v]
    BY <1>4 DEF AwaitPending, InBody, Returned, IndInv, TypeOK, CurrentSound
  <2>2. ContractState(t) = "ready"
    BY <2>1 DEF ContractState, Waiting
  <2>3. \A v \in Task :
          /\ ContractState(v)' = IF v = t THEN "waiting" ELSE ContractState(v)
          /\ WaitsFor(v)' = IF v = t THEN f ELSE WaitsFor(v)
    BY <2>1 DEF ContractState, WaitsFor, Waiting
  <2>4. Contract!Wait(t, f)
    BY <2>1, <2>2, <2>3 DEF Contract!Wait
  <2> QED BY <2>4 DEF Contract!Next, Contract!Future, Future
<1>5. ASSUME NEW t \in Task, NEW f \in Future, AwaitCancelled(t, f)
      PROVE  [Contract!Next]_(Contract!vars)
  <2>1. /\ waking = <<>> /\ cancelled[t] /\ tstate[t] = "running" /\ awaiting' = awaiting
        /\ \A v \in Task : tstate'[v] = IF v = t THEN "cancelled" ELSE tstate[v]
        /\ Settle(t, "cancelled")
    BY <1>5 DEF AwaitCancelled, InBody, Returned, IndInv, TypeOK, CurrentSound
  \* The cancel that set the flag has settled the result future already.
  <2>2. fstate[t] \in Outcomes /\ fstate' = fstate /\ waking' = <<>>
    <3>1. fstate[t] \in Outcomes
      BY <2>1 DEF IndInv, TaskSound, Settled
    <3> QED BY <2>1, <3>1 DEF Settle, Outcomes, futureVars
  <2>3. \A v \in Task :
          /\ ContractState(v)' = IF v = t THEN "done" ELSE ContractState(v)
          /\ WaitsFor(v)' = WaitsFor(v)
    BY <2>1, <2>2 DEF ContractState, WaitsFor, Waiting
  <2>4. ContractState(t) = "ready"
    BY <2>1 DEF ContractState, Waiting
  <2>5. Contract!End(t)
    BY <2>2, <2>3, <2>4 DEF Contract!End, Contract!Outcomes, Outcomes
  <2> QED BY <2>5 DEF Contract!Next
<1>6. ASSUME NEW t \in Task, NEW f \in Future, Yield(t, f)
      PROVE  UNCHANGED Contract!vars
  <2>1. tstate[t] = "running" /\ UNCHANGED <<fstate, waking, awaiting>>
        /\ \A v \in Task : tstate'[v] = IF v = t THEN "runnable" ELSE tstate[v]
    BY <1>6 DEF Yield, InBody, Returned, IndInv, TypeOK, CurrentSound, futureVars
  <2> QED BY <2>1, ContractUnmoved
<1>7. ASSUME NEW t \in Task, Return(t)
      PROVE  [Contract!Next]_(Contract!vars)
  <2>1. /\ UNCHANGED <<tstate, awaiting>>
        /\ \E o \in Outcomes : Settle(t, o)
    BY <1>7 DEF Return, InBody, Returned, taskVars, Outcomes
  <2>2. CASE fstate[t] = "pending"
    <3>1. \E o \in Outcomes : Contract!Settle(t, o)
      BY <2>1, <2>2, SettleMaps
    <3> QED BY <3>1 DEF Contract!Next, Contract!Future, Contract!Outcomes, Future, Outcomes
  <2>3. CASE fstate[t] # "pending"
    BY <2>1, <2>3, ContractUnmoved DEF Settle, futureVars
  <2> QED BY <2>2, <2>3
<1> QED
  BY <1>1, <1>2, <1>3, <1>4, <1>5, <1>6, <1>7, <1>8, CancelMaps DEF Body

\* Every step of the wake loop, the queue and the event loop is a completion, the
\* end of a task, or nothing to the contract.
LEMMA SchedulerMaps ==
  ASSUME IndInv, Callback \/ WakeOne \/ RunReady \/ Loop \/ UNCHANGED vars
  PROVE  [Contract!Next]_(Contract!vars)
<1> USE FutureFacts, EmptyFacts
<1>1. CASE WakeOne
  <2> DEFINE w == Head(waking)
  <2>1. /\ w \in Task /\ w \in ToSet(waking) /\ w \notin ToSet(waking')
        /\ ToSet(waking) = ToSet(waking') \cup {w}
    BY <1>1, TailFacts DEF WakeOne, IndInv, TypeOK, WakingSound
  <2>2. tstate[w] = "suspended" /\ ~cancelled[w]
    BY <2>1 DEF IndInv, WakingSound, TaskSound
  <2> HIDE DEF w
  <2>3. /\ \A v \in Task : tstate'[v] = IF v = w THEN "runnable" ELSE tstate[v]
        /\ \A v \in Task : awaiting'[v] = IF v = w THEN None ELSE awaiting[v]
        /\ fstate' = fstate
    BY <1>1, <2>2 DEF WakeOne, w, IndInv, TypeOK
  <2>4. \A v \in Task : ContractState(v)' = ContractState(v) /\ WaitsFor(v)' = WaitsFor(v)
    BY <2>1, <2>2, <2>3 DEF ContractState, WaitsFor, Waiting
  <2> QED BY <2>3, <2>4, ContractStutter
<1>2. CASE RunNext
  <2>1. Head(runnable) \in Task /\ tstate[Head(runnable)] = "runnable"
    BY <1>2, PopFirstFacts DEF RunNext, IndInv, TypeOK, QueueSound
  <2> QED BY <1>2, <2>1, ContractUnmoved DEF RunNext, IndInv, TypeOK, futureVars
<1>3. CASE ReapCancelled
  <2>1. /\ Head(runnable) \in Task /\ tstate[Head(runnable)] = "cancelled"
        /\ Settled(Head(runnable))
    BY <1>3, PopFirstFacts DEF ReapCancelled, IndInv, TypeOK, QueueSound, TaskSound
  <2>2. UNCHANGED <<fstate, waking, tstate, awaiting>>
    BY <1>3, <2>1 DEF ReapCancelled, Settle, Settled, Outcomes, IndInv, TypeOK, futureVars
  <2> QED BY <2>2, ContractUnmoved
<1>4. CASE AfterBody
  <2> DEFINE t == current
  <2>1. /\ t \in Task /\ UNCHANGED <<fstate, waking, awaiting>> /\ waking = <<>>
        /\ \A v \in Task : tstate'[v] = IF v = t /\ tstate[t] = "running"
                                        THEN "completed" ELSE tstate[v]
        /\ tstate[t] = "running" => fstate[t] \in Outcomes
    BY <1>4 DEF AfterBody, IndInv, TypeOK, CurrentSound, Settled, Returned, futureVars
  <2> HIDE DEF t
  <2>2. CASE tstate[t] = "running"
    <3>1. \A v \in Task :
            /\ ContractState(v)' = IF v = t THEN "done" ELSE ContractState(v)
            /\ WaitsFor(v)' = WaitsFor(v)
      BY <2>1, <2>2 DEF ContractState, WaitsFor, Waiting
    <3>2. ContractState(t) = "ready"
      BY <2>2 DEF ContractState, Waiting
    <3>3. Contract!End(t)
      BY <2>1, <2>2, <3>1, <3>2 DEF Contract!End, Contract!Outcomes, Outcomes
    <3> QED BY <2>1, <3>3 DEF Contract!Next
  <2>3. CASE tstate[t] # "running"
    BY <2>1, <2>3, ContractUnmoved
  <2> QED BY <2>2, <2>3
<1>5. CASE RunReadyDone \/ PollDone \/ CheckExit \/ WaitDone \/ Shutdown
  BY <1>5, ContractUnmoved
     DEF RunReadyDone, PollDone, CheckExit, WaitDone, Shutdown, futureVars, taskVars
<1>6. ASSUME NEW e \in External, SettleExternal(e)
      PROVE  [Contract!Next]_(Contract!vars)
  <2>1. PICK o \in Outcomes : Contract!Settle(e, o)
    BY <1>6, SettleMaps DEF SettleExternal, taskVars
  <2> QED BY <2>1 DEF Contract!Next, Contract!Future, Contract!Outcomes, Future, Outcomes
<1>8. CASE Callback
  <2>1. callback \in Composed /\ callback \in Future /\ UNCHANGED <<tstate, awaiting>>
    BY <1>8 DEF Callback, IndInv, TypeOK, taskVars
  <2>2. CASE fstate[callback] = "pending" /\ \E o \in Outcomes : Settle(callback, o)
    <3>1. \E o \in Outcomes : Contract!Settle(callback, o)
      BY <2>1, <2>2, SettleMaps
    <3> QED BY <2>1, <3>1 DEF Contract!Next, Contract!Future, Contract!Outcomes, Future, Outcomes
  <2>3. CASE UNCHANGED <<fstate, waking>>
    BY <2>1, <2>3, ContractUnmoved
  <2> QED BY <1>8, <2>2, <2>3 DEF Callback
<1>7. CASE UNCHANGED vars
  BY <1>7, ContractUnmoved DEF vars, futureVars, taskVars
<1> QED BY <1>1, <1>2, <1>3, <1>4, <1>5, <1>6, <1>7, <1>8 DEF RunReady, Loop

\* The generated main starts the contract with one ready task.
LEMMA InitMaps == Init => Contract!Init
<1> SUFFICES ASSUME Init PROVE Contract!Init
  OBVIOUS
<1> USE FutureFacts
<1>1. \A t \in Task : /\ ContractState(t) = IF t = Root THEN "ready" ELSE "unborn"
                      /\ WaitsFor(t) = None
  BY DEF Init, ContractState, WaitsFor, Waiting
<1> QED BY <1>1 DEF Init, Contract!Init, Contract!Future, Future

\* The scheduler implements the contract of the async runtime: futures settle
\* once, and a settle readies all of its waiters at once (runtime.h, async.c).
THEOREM ContractImplemented == Spec => ImplementsContract
<1>1. IndInv /\ [Next]_vars => [Contract!Next]_(Contract!vars)
  BY BodyMaps, SchedulerMaps DEF Next, Stopped
<1> QED BY <1>1, InitMaps, InductiveInvariant, PTL DEF Spec, ImplementsContract, Contract!Spec
=============================================================================
