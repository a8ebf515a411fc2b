--------------------------- MODULE FileStreamProofs ---------------------------
(***************************************************************************)
(* Proofs about file streams, for any requests, workers and descriptors:   *)
(* no job and no result is lost and work never waits for sleeping workers; *)
(* and, when a program awaits each request on a stream before the next,    *)
(* descriptors have their owner, and reads and writes reach their own file *)
(* in order and whole.                                                     *)
(***************************************************************************)
EXTENDS FileStream, FiniteSetTheorems, SequenceTheorems, TLAPS

-----------------------------------------------------------------------------
(* Lists that are read from the head, and runs of one entry.               *)

\* The empty sequence.
LEMMA EmptyFacts ==
  /\ \A S : <<>> \in Seq(S)
  /\ ToSet(<<>>) = {}
  /\ IsInjective(<<>>)
BY DEF ToSet, IsInjective

\* The head of a sequence and what is behind it.
LEMMA TailFacts ==
  ASSUME NEW S, NEW q \in Seq(S), q # <<>>
  PROVE  /\ Tail(q) \in Seq(S)
         /\ Head(q) \in S
         /\ ToSet(q) = ToSet(Tail(q)) \cup {Head(q)}
         /\ IsInjective(q) => /\ IsInjective(Tail(q))
                              /\ Head(q) \notin ToSet(Tail(q))
<1>1. /\ Len(q) \in Nat /\ Len(q) > 0
      /\ DOMAIN q = 1 .. Len(q)
      /\ Head(q) = q[1] /\ Head(q) \in S
  OBVIOUS
<1> DEFINE p == Tail(q)
<1>2. /\ p \in Seq(S) /\ Len(p) = Len(q) - 1
      /\ DOMAIN p = 1 .. Len(q) - 1
      /\ \A i \in 1 .. Len(q) - 1 : p[i] = q[i + 1]
  OBVIOUS
<1> HIDE DEF p
<1>3. ToSet(q) = ToSet(p) \cup {Head(q)}
  <2>1. ASSUME NEW i \in 1 .. Len(q) PROVE q[i] \in ToSet(p) \cup {Head(q)}
    <3>1. CASE i = 1
      BY <3>1, <1>1
    <3>2. CASE i # 1
      <4>1. \A n \in Nat : i \in 1 .. n => i - 1 \in 1 .. n - 1 /\ (i - 1) + 1 = i
        BY <3>2
      <4>2. i - 1 \in 1 .. Len(q) - 1 /\ (i - 1) + 1 = i
        BY <4>1, <1>1
      <4>3. i - 1 \in DOMAIN p /\ p[i - 1] = q[i]
        BY <4>2, <1>2
      <4> QED BY <4>3 DEF ToSet
    <3> QED BY <3>1, <3>2
  <2>2. ASSUME NEW i \in DOMAIN p PROVE p[i] \in ToSet(q)
    BY <1>1, <1>2 DEF ToSet
  <2> QED BY <2>1, <2>2, <1>1 DEF ToSet
<1>4. ASSUME IsInjective(q)
      PROVE  IsInjective(p) /\ Head(q) \notin ToSet(p)
  <2>1. \A i, j \in 1 .. Len(q) : q[i] = q[j] => i = j
    BY <1>4, <1>1 DEF IsInjective
  <2>2. \A i, j \in DOMAIN p : p[i] = p[j] => i = j
    BY <2>1, <1>1, <1>2
  <2>3. \A i \in DOMAIN p : p[i] # q[1]
    BY <2>1, <1>1, <1>2
  <2> QED BY <2>2, <2>3, <1>1 DEF IsInjective, ToSet
<1> QED BY <1>1, <1>2, <1>3, <1>4 DEF p

\* A new entry in front of a list that does not hold it.
LEMMA ConsFacts ==
  ASSUME NEW S, NEW q \in Seq(S), NEW t \in S
  PROVE  /\ <<t>> \o q \in Seq(S)
         /\ <<t>> \o q # <<>>
         /\ ToSet(<<t>> \o q) = ToSet(q) \cup {t}
         /\ IsInjective(q) /\ t \notin ToSet(q) => IsInjective(<<t>> \o q)
<1> DEFINE p == <<t>> \o q
<1>1. /\ p \in Seq(S) /\ Len(p) = Len(q) + 1 /\ Len(q) \in Nat
      /\ DOMAIN p = 1 .. Len(q) + 1 /\ DOMAIN q = 1 .. Len(q)
      /\ p[1] = t
      /\ \A i \in 1 .. Len(q) : p[i + 1] = q[i]
  OBVIOUS
<1> HIDE DEF p
<1>2. \A i \in DOMAIN p : i # 1 => i - 1 \in DOMAIN q /\ p[i] = q[i - 1]
  <2>1. SUFFICES ASSUME NEW i \in DOMAIN p, i # 1
                 PROVE  i - 1 \in DOMAIN q /\ p[i] = q[i - 1]
    OBVIOUS
  <2>2. i - 1 \in 1 .. Len(q) /\ (i - 1) + 1 = i
    BY <2>1, <1>1
  <2> QED BY <2>2, <1>1
<1>3. ToSet(p) = ToSet(q) \cup {t}
  <2>1. \A i \in DOMAIN p : p[i] \in ToSet(q) \cup {t}
    BY <1>1, <1>2 DEF ToSet
  <2>2. \A i \in DOMAIN q : q[i] \in ToSet(p)
    <3>1. \A i \in DOMAIN q : i + 1 \in DOMAIN p /\ p[i + 1] = q[i]
      BY <1>1
    <3> QED BY <3>1 DEF ToSet
  <2>3. t \in ToSet(p)
    BY <1>1 DEF ToSet
  <2> QED BY <2>1, <2>2, <2>3 DEF ToSet
<1>4. ASSUME IsInjective(q), t \notin ToSet(q) PROVE IsInjective(p)
  <2>1. \A i \in DOMAIN q : q[i] # t
    BY <1>4 DEF ToSet
  <2>2. \A i, j \in DOMAIN q : q[i] = q[j] => i = j
    BY <1>4 DEF IsInjective
  <2>3. \A i, j \in DOMAIN p : p[i] = p[j] => i = j
    <3>1. \A i \in DOMAIN p : i \in Int
      BY <1>1
    <3> QED BY <2>1, <2>2, <1>1, <1>2, <3>1
  <2> QED BY <2>3 DEF IsInjective
<1>5. p # <<>>
  BY <1>1
<1> QED BY <1>1, <1>3, <1>4, <1>5 DEF p

\* A run of one entry behind a sequence.
LEMMA RunFacts ==
  ASSUME NEW S, NEW s \in Seq(S), NEW x \in S, NEW n \in Nat
  PROVE  LET t == s \o [i \in 1 .. n |-> x] IN
         /\ t \in Seq(S)
         /\ DOMAIN t = 1 .. Len(s) + n
         /\ \A i \in 1 .. Len(s) : t[i] = s[i]
         /\ \A i \in 1 .. Len(s) + n : i > Len(s) => t[i] = x
<1> DEFINE r == [i \in 1 .. n |-> x]
<1>1. r \in Seq(S) /\ Len(r) = n /\ \A i \in 1 .. n : r[i] = x
  <2>1. r \in [1 .. n -> S]
    OBVIOUS
  <2> QED BY <2>1, IsASeq
<1> HIDE DEF r
<1>2. s \o r \in Seq(S) /\ Len(s \o r) = Len(s) + n /\ Len(s) \in Nat
  BY <1>1
<1>3. \A i \in 1 .. Len(s) : (s \o r)[i] = s[i]
  BY <1>1
<1>4. ASSUME NEW i \in 1 .. Len(s) + n, i > Len(s) PROVE (s \o r)[i] = x
  <2>1. (s \o r)[i] = r[i - Len(s)]
    BY <1>1, <1>2, <1>4
  <2>2. i - Len(s) \in 1 .. n
    BY <1>2, <1>4
  <2> QED BY <2>1, <2>2, <1>1
<1>5. DOMAIN (s \o r) = 1 .. Len(s) + n
  BY <1>2
<1> QED BY <1>2, <1>3, <1>4, <1>5 DEF r

\* Where an entry is in a sequence.
Places(q, y) == {i \in DOMAIN q : q[i] = y}

\* How often an entry occurs, once a run has been added.
LEMMA RunCount ==
  ASSUME NEW S, NEW s \in Seq(S), NEW x \in S, NEW n \in Nat, NEW y
  PROVE  /\ Cardinality(Places(s, y)) \in Nat
         /\ Cardinality(Places(s \o [i \in 1 .. n |-> x], y))
              = Cardinality(Places(s, y)) + (IF x = y THEN n ELSE 0)
<1> DEFINE t == s \o [i \in 1 .. n |-> x]
           old == {i \in DOMAIN s : s[i] = y}
           new == IF x = y THEN Len(s) + 1 .. Len(s) + n ELSE {}
           all == {i \in DOMAIN t : t[i] = y}
<1>1. /\ t \in Seq(S) /\ DOMAIN t = 1 .. Len(s) + n
      /\ \A i \in 1 .. Len(s) : t[i] = s[i]
      /\ \A i \in 1 .. Len(s) + n : i > Len(s) => t[i] = x
  BY RunFacts
<1>2. DOMAIN s = 1 .. Len(s) /\ Len(s) \in Nat
  OBVIOUS
<1> HIDE DEF t
<1>3. all = old \cup new
  <2>1. ASSUME NEW i \in 1 .. Len(s) + n
        PROVE  t[i] = y <=> i \in old \/ i \in new
    <3>1. CASE i > Len(s)
      BY <3>1, <1>1, <1>2
    <3>2. CASE ~(i > Len(s))
      <4>1. i \in 1 .. Len(s)
        BY <3>2, <1>2
      <4> QED BY <4>1, <1>1, <1>2
    <3> QED BY <3>1, <3>2
  <2>2. old \subseteq 1 .. Len(s) + n /\ new \subseteq 1 .. Len(s) + n
    BY <1>2
  <2> HIDE DEF old, new
  <2> QED BY <2>1, <2>2, <1>1
<1>4. old \cap new = {}
  BY <1>2
<1>5. IsFiniteSet(old) /\ Cardinality(old) \in Nat
  <2>1. old \subseteq 1 .. Len(s) /\ IsFiniteSet(1 .. Len(s))
    BY <1>2, FS_Interval
  <2> QED BY <2>1, FS_Subset, FS_CardinalityType
<1>6. IsFiniteSet(new) /\ Cardinality(new) = IF x = y THEN n ELSE 0
  <2>1. CASE x = y
    <3>1. /\ IsFiniteSet(Len(s) + 1 .. Len(s) + n)
          /\ Cardinality(Len(s) + 1 .. Len(s) + n)
               = IF Len(s) + 1 > Len(s) + n THEN 0 ELSE (Len(s) + n) - (Len(s) + 1) + 1
      <4>1. Len(s) + 1 \in Int /\ Len(s) + n \in Int
        BY <1>2
      <4> QED BY <4>1, FS_Interval
    <3> QED BY <2>1, <3>1, <1>2
  <2>2. CASE x # y
    BY <2>2, FS_EmptySet
  <2> QED BY <2>1, <2>2
<1> HIDE DEF old, new
<1>7. Cardinality(old \cup new) = Cardinality(old) + Cardinality(new)
  <2>1. old \cap new = {} /\ Cardinality(old \cap new) = 0
    BY <1>4, FS_EmptySet
  <2>2. Cardinality(new) \in Nat
    BY <1>6, FS_CardinalityType
  <2>3. IsFiniteSet(old) /\ IsFiniteSet(new)
    BY <1>5, <1>6
  <2>4. Cardinality(old \cup new) = Cardinality(old) + Cardinality(new) - Cardinality(old \cap new)
    BY <2>3, FS_Union
  <2> QED BY <2>1, <2>2, <2>4, <1>5
<1> QED BY <1>3, <1>5, <1>6, <1>7 DEF t, old, Places

-----------------------------------------------------------------------------
(* Where a request is.                                                     *)

Busy(w) == pc[w] \notin {"check", "sleep", "wake"}

\* A request is in one place only, and there only until its future settles.
Placed ==
  /\ IsInjective(queue) /\ IsInjective(results)
  /\ ToSet(queue) \cap ToSet(results) = {}
  /\ \A w \in Worker : Busy(w) => job[w] \in Op \ (ToSet(queue) \cup ToSet(results))
  /\ \A v, w \in Worker : Busy(v) /\ Busy(w) /\ job[v] = job[w] => v = w
  /\ \A o \in Op : InFlight(o) => fut[o] \in {"pending", "cancelled"}

\* Whom a request is about, and what a worker does with it.
StepSound ==
  /\ \A o \in Op : target[o] = None <=> o \in File \/ fut[o] = "unborn"
  /\ \A w \in Worker : /\ pc[w] = "io" => KindOf[job[w]] \in {"read", "write"} /\ left[w] > 0
                       /\ pc[w] = "unset" => KindOf[job[w]] = "close"

JobInv == TypeOK /\ Placed /\ StepSound /\ NothingLost /\ NotAllAsleep

\* The program awaits a request before the next on the same stream, and cancels
\* only opens.
Disciplined == OneAtATime /\ MayCancel \subseteq File

\* One request at a time on a stream.
OneByOne ==
  /\ \A o \in Op : fut[o] = "cancelled" => o \in File
  /\ \A o, p \in Op : InFlight(o) /\ InFlight(p) /\ target[o] # None /\ target[o] = target[p] => o = p

-----------------------------------------------------------------------------
(* Descriptors.                                                            *)

\* The descriptor a request has opened leads back to it while it is on its way.
OpenSound ==
  /\ \A n \in Fd : table[n] # None => openFd[table[n]] = n
  /\ \A o \in Op : /\ openFd[o] # None => o \in File
                   /\ InFlight(o) /\ openFd[o] # None => table[openFd[o]] = o
                   /\ o \in ToSet(queue) \/ fut[o] = "unborn" => openFd[o] = None
                   /\ o \in ToSet(results) /\ o \in File => (ok[o] <=> openFd[o] # None)
  /\ \A w \in Worker : /\ pc[w] = "test" => openFd[job[w]] = None
                       /\ pc[w] = "post" /\ job[w] \in File => (ok[job[w]] <=> openFd[job[w]] # None)

Closing(f) == \E w \in Worker : pc[w] = "unset" /\ target[job[w]] = f

\* A stream has its own descriptor, until it is being closed.
FdSound ==
  \A f \in File : fd[f] # None =>
    /\ fut[f] = "completed" /\ fd[f] = openFd[f]
    /\ table[fd[f]] = f \/ Closing(f)

-----------------------------------------------------------------------------
(* Order and count of what is transferred.                                 *)

On(f) == {p \in Op : target[p] = f}

RankSound ==
  /\ \A f \in File : \A p \in On(f) : rank[p] < Cardinality(On(f))
  /\ \A o, p \in Op : InFlight(o) /\ target[o] # None /\ target[p] = target[o] => rank[p] <= rank[o]

Written(o) == Cardinality(Places(io[target[o]], o))

CountSound ==
  /\ \A o \in Op : KindOf[o] = "write" =>
       /\ o \in ToSet(queue) => Written(o) = 0
       /\ o \in ToSet(results) /\ ok[o] => Written(o) = Chunks
       /\ fut[o] = "completed" => Written(o) = Chunks
  /\ \A w \in Worker : Busy(w) /\ KindOf[job[w]] = "write" =>
       /\ pc[w] = "test" => Written(job[w]) = 0
       /\ pc[w] = "io" => Written(job[w]) = Chunks - left[w]
       /\ pc[w] = "post" /\ ok[job[w]] => Written(job[w]) = Chunks

-----------------------------------------------------------------------------
(* Signals, and workers that go on with their job.                         *)

LEMMA ConstantFacts ==
  /\ None \notin Op /\ None \notin Fd /\ File \subseteq Op
  /\ KindOf \in [Op -> Kinds]
  /\ Chunks \in Nat /\ Chunks > 0
BY FileAssumption DEF File, Fd

\* A signal wakes one sleeper, and leaves somebody awake.
LEMMA SignalFacts ==
  ASSUME TypeOK, Signal
  PROVE  /\ pc' \in [Worker -> {"check", "sleep", "test", "io", "unset", "post", "wake"}]
         /\ \A w \in Worker : pc'[w] = pc[w] \/ (pc[w] = "sleep" /\ pc'[w] = "check")
         /\ \E w \in Worker : pc'[w] # "sleep"
<1> DEFINE asleep == {w \in Worker : pc[w] = "sleep"}
<1>1. CASE asleep = {}
  <2>1. pc' = pc
    BY <1>1 DEF Signal
  <2>2. PICK w \in Worker : TRUE
    BY FileAssumption
  <2>3. pc[w] # "sleep"
    BY <1>1
  <2> QED BY <2>1, <2>3 DEF TypeOK
<1>2. CASE asleep # {}
  <2>1. PICK w \in asleep : pc' = [pc EXCEPT ![w] = "check"]
    BY <1>2 DEF Signal
  <2> QED BY <2>1 DEF TypeOK
<1> QED BY <1>1, <1>2

\* The three places of a request that was made.
LEMMA FlightFacts ==
  \A o : InFlight(o) <=> \/ o \in ToSet(queue) \/ o \in ToSet(results)
                         \/ \E w \in Worker : Busy(w) /\ job[w] = o
BY DEF InFlight, Busy

\* A worker that goes from one place of its job to another.
LEMMA GoOn ==
  ASSUME JobInv, NEW w \in Worker, Busy(w),
         NEW place \in {"test", "io", "unset", "post"},
         pc' = [pc EXCEPT ![w] = place],
         job' = job, queue' = queue, results' = results, fut' = fut
  PROVE  /\ Placed' /\ NothingLost' /\ NotAllAsleep'
         /\ \A o : InFlight(o)' <=> InFlight(o)
         /\ \A v \in Worker : Busy(v)' <=> Busy(v)
         /\ pc' \in [Worker -> {"check", "sleep", "test", "io", "unset", "post", "wake"}]
<1>1. pc \in [Worker -> {"check", "sleep", "test", "io", "unset", "post", "wake"}]
  BY DEF JobInv, TypeOK
<1>2. \A v \in Worker : Busy(v)' <=> Busy(v)
  BY <1>1 DEF Busy
<1>3. \A o : InFlight(o)' <=> InFlight(o)
  BY <1>2 DEF InFlight, Busy
<1>4. Placed'
  BY <1>2, <1>3 DEF JobInv, Placed
<1>5. NothingLost'
  BY <1>3 DEF JobInv, NothingLost
<1>6. NotAllAsleep'
  BY <1>1 DEF NotAllAsleep
<1> QED BY <1>1, <1>2, <1>3, <1>4, <1>5, <1>6

\* A worker in its job has a request that was made.
LEMMA JobFacts ==
  ASSUME JobInv, NEW w \in Worker, Busy(w)
  PROVE  /\ job[w] \in Op /\ InFlight(job[w])
         /\ job[w] \in File <=> KindOf[job[w]] = "open"
         /\ KindOf[job[w]] # "open" => target[job[w]] \in File
<1>1. job[w] \in Op
  BY DEF JobInv, Placed
<1>2. InFlight(job[w])
  BY DEF InFlight, Busy
<1>3. fut[job[w]] # "unborn"
  BY <1>1, <1>2 DEF JobInv, Placed
<1> QED BY <1>1, <1>2, <1>3 DEF JobInv, StepSound, TypeOK, File

-----------------------------------------------------------------------------
(* The steps of the loop thread and of the workers, and where the requests *)
(* are.                                                                    *)

LEMMA InitJob == Init => JobInv
<1> SUFFICES ASSUME Init PROVE JobInv
  OBVIOUS
<1> USE ConstantFacts
<1>1. TypeOK
  <2>1. queue \in Seq(Op) /\ results \in Seq(Op) /\ io \in [File -> Seq(Op)]
    BY EmptyFacts DEF Init
  <2>2. 0 \in 0 .. Chunks /\ 0 \in Nat
    OBVIOUS
  <2>3. left \in [Worker -> 0 .. Chunks] /\ rank \in [Op -> Nat]
    BY <2>2 DEF Init
  <2> QED BY <2>1, <2>3 DEF Init, TypeOK
<1>2. Placed /\ NothingLost
  BY EmptyFacts DEF Init, Placed, InFlight, Busy, NothingLost
<1>3. StepSound /\ NotAllAsleep
  BY DEF Init, StepSound, NotAllAsleep
<1> QED BY <1>1, <1>2, <1>3 DEF JobInv

\* A new request goes to the head of the job list.
LEMMA EnqueueFacts ==
  ASSUME JobInv, NEW o \in Op, fut[o] = "unborn", Enqueue(o),
         fut' = [fut EXCEPT ![o] = "pending"], job' = job, results' = results
  PROVE  /\ Placed' /\ NothingLost' /\ NotAllAsleep'
         /\ \A p : InFlight(p)' <=> InFlight(p) \/ p = o
         /\ \A w \in Worker : Busy(w)' <=> Busy(w)
         /\ \A w \in Worker : pc'[w] = pc[w] \/ (pc[w] = "sleep" /\ pc'[w] = "check")
         /\ pc' \in [Worker -> {"check", "sleep", "test", "io", "unset", "post", "wake"}]
         /\ queue' \in Seq(Op) /\ ToSet(queue') = ToSet(queue) \cup {o}
         /\ ~InFlight(o)
<1>1. /\ pc' \in [Worker -> {"check", "sleep", "test", "io", "unset", "post", "wake"}]
      /\ \A w \in Worker : pc'[w] = pc[w] \/ (pc[w] = "sleep" /\ pc'[w] = "check")
      /\ \E w \in Worker : pc'[w] # "sleep"
  BY SignalFacts DEF JobInv, Enqueue
<1>2. \A w \in Worker : Busy(w)' <=> Busy(w)
  BY <1>1 DEF Busy
<1>3. ~InFlight(o)
  BY DEF JobInv, Placed
<1>4. /\ queue' \in Seq(Op) /\ ToSet(queue') = ToSet(queue) \cup {o}
      /\ IsInjective(queue')
  BY <1>3, ConsFacts DEF JobInv, TypeOK, Placed, Enqueue, InFlight
<1>5. \A p : InFlight(p)' <=> InFlight(p) \/ p = o
  BY <1>2, <1>4 DEF InFlight, Busy
<1>6. \A p \in Op : fut'[p] = IF p = o THEN "pending" ELSE fut[p]
  BY DEF JobInv, TypeOK
<1>7. Placed'
  <2>1. IsInjective(results') /\ ToSet(queue') \cap ToSet(results') = {}
    BY <1>3, <1>4 DEF JobInv, Placed, InFlight
  <2>2. \A w \in Worker : Busy(w)' => job'[w] \in Op \ (ToSet(queue') \cup ToSet(results'))
    <3>1. \A w \in Worker : Busy(w) => job[w] # o
      BY <1>3 DEF InFlight, Busy
    <3> QED BY <3>1, <1>2, <1>4 DEF JobInv, Placed
  <2>3. \A p \in Op : InFlight(p)' => fut'[p] \in {"pending", "cancelled"}
    BY <1>5, <1>6 DEF JobInv, Placed
  <2> QED BY <1>2, <1>4, <2>1, <2>2, <2>3 DEF JobInv, Placed
<1>8. NothingLost'
  BY <1>5, <1>6 DEF JobInv, NothingLost
<1>9. NotAllAsleep'
  BY <1>1 DEF NotAllAsleep
<1> QED BY <1>1, <1>2, <1>3, <1>4, <1>5, <1>7, <1>8, <1>9

LEMMA OpenJob ==
  ASSUME JobInv, NEW o \in Op, Open(o)
  PROVE  JobInv'
<1>1. CASE fut' = [fut EXCEPT ![o] = "pending"] /\ Enqueue(o)
  <2>1. /\ Placed' /\ NothingLost' /\ NotAllAsleep'
        /\ \A w \in Worker : pc'[w] = pc[w] \/ (pc[w] = "sleep" /\ pc'[w] = "check")
        /\ pc' \in [Worker -> {"check", "sleep", "test", "io", "unset", "post", "wake"}]
        /\ queue' \in Seq(Op)
    BY <1>1, EnqueueFacts DEF Open
  <2>2. TypeOK'
    BY <1>1, <2>1 DEF Open, JobInv, TypeOK, fileVars
  <2>3. StepSound'
    BY <1>1, <2>1, ConstantFacts DEF Open, JobInv, TypeOK, StepSound, File
  <2> QED BY <2>1, <2>2, <2>3 DEF JobInv
<1>2. CASE fut' = [fut EXCEPT ![o] = "failed"] /\ UNCHANGED <<queue, pc>>
  <2>1. TypeOK'
    BY <1>2 DEF Open, JobInv, TypeOK, fileVars
  <2>2. \A p : InFlight(p)' <=> InFlight(p)
    BY <1>2 DEF Open, InFlight
  <2>3. Placed' /\ NothingLost'
    BY <1>2, <2>2 DEF Open, JobInv, TypeOK, Placed, NothingLost, Busy
  <2>4. StepSound' /\ NotAllAsleep'
    BY <1>2, ConstantFacts DEF Open, JobInv, TypeOK, StepSound, NotAllAsleep, File
  <2> QED BY <2>1, <2>3, <2>4 DEF JobInv
<1> QED BY <1>1, <1>2 DEF Open

LEMMA RequestJob ==
  ASSUME JobInv, NEW o \in Op, NEW f \in File, Request(o, f)
  PROVE  JobInv'
<1>1. /\ Placed' /\ NothingLost' /\ NotAllAsleep'
      /\ \A w \in Worker : pc'[w] = pc[w] \/ (pc[w] = "sleep" /\ pc'[w] = "check")
      /\ pc' \in [Worker -> {"check", "sleep", "test", "io", "unset", "post", "wake"}]
      /\ queue' \in Seq(Op)
  BY EnqueueFacts DEF Request, Ask
<1>2. TypeOK'
  <2>1. Cardinality({p \in Op : target[p] = f}) \in Nat
    BY FileAssumption, FS_Subset, FS_CardinalityType
  <2>2. rank' \in [Op -> Nat]
    BY <2>1 DEF Request, JobInv, TypeOK
  <2> QED BY <1>1, <2>2 DEF Request, Ask, JobInv, TypeOK, fileVars
<1>3. StepSound'
  <2>1. \A p \in Op : target'[p] = None <=> p \in File \/ fut'[p] = "unborn"
    BY ConstantFacts DEF Request, Ask, JobInv, TypeOK, StepSound, File
  <2>2. left' = left /\ job' = job
    BY DEF Request
  <2> QED BY <1>1, <2>1, <2>2 DEF JobInv, StepSound
<1> QED BY <1>1, <1>2, <1>3 DEF JobInv

LEMMA CancelJob ==
  ASSUME JobInv, NEW o \in Op, Cancel(o)
  PROVE  JobInv'
<1>1. TypeOK'
  BY DEF Cancel, JobInv, TypeOK, workerVars, fileVars
<1>2. \A p : InFlight(p)' <=> InFlight(p)
  BY DEF Cancel, InFlight, workerVars
<1>3. Placed' /\ NothingLost'
  BY <1>2 DEF Cancel, JobInv, TypeOK, Placed, NothingLost, Busy, workerVars
<1>4. StepSound' /\ NotAllAsleep'
  BY DEF Cancel, JobInv, TypeOK, StepSound, NotAllAsleep, workerVars
<1> QED BY <1>1, <1>3, <1>4 DEF JobInv

\* A result leaves the list when its future settles, or has settled.
LEMMA PollFacts ==
  ASSUME JobInv, PollOne
  PROVE  LET o == Head(results) IN
         /\ o \in Op /\ o \in ToSet(results) /\ InFlight(o)
         /\ results' \in Seq(Op) /\ ToSet(results') = ToSet(results) \ {o}
         /\ IsInjective(results')
         /\ \A p : InFlight(p)' <=> InFlight(p) /\ p # o
         /\ \A w \in Worker : (Busy(w)' <=> Busy(w)) /\ (Busy(w) => job[w] # o)
<1> DEFINE o == Head(results)
<1>1. /\ results \in Seq(Op) /\ results # <<>> /\ results' = Tail(results)
      /\ IsInjective(results)
  BY DEF PollOne, JobInv, TypeOK, Placed
<1>2. /\ results' \in Seq(Op) /\ o \in Op
      /\ ToSet(results) = ToSet(results') \cup {o}
      /\ IsInjective(results') /\ o \notin ToSet(results')
  BY <1>1, TailFacts
<1> HIDE DEF o
<1>3. /\ ToSet(results') = ToSet(results) \ {o} /\ o \in ToSet(results) /\ InFlight(o)
  BY <1>2 DEF InFlight
<1>4. pc' = pc /\ job' = job /\ queue' = queue
  BY DEF PollOne, workerVars
<1>5. \A w \in Worker : (Busy(w)' <=> Busy(w)) /\ (Busy(w) => job[w] # o)
  BY <1>3, <1>4 DEF Busy, JobInv, Placed
<1>6. o \notin ToSet(queue)
  BY <1>3 DEF JobInv, Placed
<1>7. \A p : InFlight(p)' <=> InFlight(p) /\ p # o
  BY <1>3, <1>4, <1>5, <1>6 DEF InFlight, Busy
<1> QED BY <1>2, <1>3, <1>5, <1>7 DEF o

LEMMA PollOneJob ==
  ASSUME JobInv, PollOne
  PROVE  JobInv'
<1> DEFINE o == Head(results)
<1>1. /\ o \in Op /\ o \in ToSet(results) /\ InFlight(o)
      /\ results' \in Seq(Op) /\ ToSet(results') = ToSet(results) \ {o}
      /\ IsInjective(results')
      /\ \A p : InFlight(p)' <=> InFlight(p) /\ p # o
      /\ \A w \in Worker : (Busy(w)' <=> Busy(w)) /\ (Busy(w) => job[w] # o)
  BY PollFacts
<1>2. /\ target' = target /\ queue' = queue /\ ok' = ok /\ openFd' = openFd
      /\ job' = job /\ pc' = pc /\ left' = left /\ shut' = shut /\ sclosed' = sclosed
      /\ wake' = wake /\ loop' = loop /\ rank' = rank /\ io' = io
  BY DEF PollOne, workerVars
<1>3. /\ fut' \in [Op -> {"unborn", "pending", "completed", "failed", "cancelled"}]
      /\ \A p \in Op : p # o => fut'[p] = fut[p]
      /\ fut'[o] # "pending" /\ fut'[o] # "unborn" /\ fut[o] # "unborn"
      /\ fd' \in [File -> Fd \cup {None}] /\ table' \in [Fd -> File \cup {None}]
  <2>1. fut[o] \in {"pending", "cancelled"}
    BY <1>1 DEF JobInv, Placed
  <2>2. CASE fut[o] = "pending"
    <3>1. /\ fut' = [fut EXCEPT ![o] = IF ok[o] THEN "completed" ELSE "failed"]
          /\ fd' = IF o \in File /\ ok[o] THEN [fd EXCEPT ![o] = openFd[o]] ELSE fd
          /\ table' = table
      BY <2>2 DEF PollOne
    <3> HIDE DEF o
    <3> QED BY <2>2, <3>1, <1>1 DEF JobInv, TypeOK
  <2>3. CASE fut[o] = "cancelled"
    <3>1. /\ table' = IF openFd[o] # None THEN [table EXCEPT ![openFd[o]] = None] ELSE table
          /\ fut' = fut /\ fd' = fd
      BY <2>3 DEF PollOne
    <3> HIDE DEF o
    <3> QED BY <2>3, <3>1, <1>1 DEF JobInv, TypeOK
  <2> QED BY <2>1, <2>2, <2>3
<1> HIDE DEF o
<1>4. TypeOK'
  BY <1>1, <1>2, <1>3 DEF JobInv, TypeOK
<1>5. Placed' /\ NothingLost'
  BY <1>1, <1>2, <1>3 DEF JobInv, Placed, NothingLost
<1>6. StepSound' /\ NotAllAsleep'
  BY <1>2, <1>3 DEF JobInv, StepSound, NotAllAsleep
<1> QED BY <1>4, <1>5, <1>6 DEF JobInv

\* The other steps of the loop thread touch none of it.
Turn == PollDone \/ Block \/ WakeUp \/ WakeOtherwise

LEMMA TurnFacts ==
  ASSUME Turn
  PROVE  /\ UNCHANGED <<fut, target, sclosed, queue, results, ok, openFd, job, pc, left,
                        fd, shut, table, rank, io>>
         /\ wake' \in {wake, FALSE} /\ loop' \in {"run", "poll", "wait"}
BY DEF Turn, PollDone, Block, WakeUp, WakeOtherwise, streamVars, workerVars, fileVars

LEMMA TurnJob ==
  ASSUME JobInv, Turn
  PROVE  JobInv' /\ \A o : InFlight(o)' <=> InFlight(o)
<1>1. \A o : InFlight(o)' <=> InFlight(o)
  BY TurnFacts DEF InFlight
<1>2. TypeOK'
  BY TurnFacts DEF JobInv, TypeOK
<1>3. Placed' /\ NothingLost' /\ StepSound' /\ NotAllAsleep'
  BY <1>1, TurnFacts DEF JobInv, Placed, NothingLost, StepSound, NotAllAsleep, Busy
<1> QED BY <1>1, <1>2, <1>3 DEF JobInv

\* A worker takes the job at the head of the list.
LEMMA TakeFacts ==
  ASSUME JobInv, NEW w \in Worker, Take(w)
  PROVE  LET o == Head(queue) IN
         /\ o \in Op /\ o \in ToSet(queue)
         /\ queue' \in Seq(Op) /\ ToSet(queue') = ToSet(queue) \ {o} /\ IsInjective(queue')
         /\ job' = [job EXCEPT ![w] = o] /\ pc' = [pc EXCEPT ![w] = "test"]
         /\ \A v \in Worker : Busy(v)' <=> Busy(v) \/ v = w
         /\ \A v \in Worker : Busy(v) => job[v] # o
         /\ ~Busy(w)
         /\ \A p : InFlight(p)' <=> InFlight(p)
<1> DEFINE o == Head(queue)
<1>1. /\ queue \in Seq(Op) /\ queue # <<>> /\ queue' = Tail(queue) /\ IsInjective(queue)
      /\ job' = [job EXCEPT ![w] = o] /\ pc' = [pc EXCEPT ![w] = "test"]
      /\ pc[w] = "check" /\ results' = results
  BY DEF Take, JobInv, TypeOK, Placed, Goto
<1>2. /\ queue' \in Seq(Op) /\ o \in Op
      /\ ToSet(queue) = ToSet(queue') \cup {o}
      /\ IsInjective(queue') /\ o \notin ToSet(queue')
  BY <1>1, TailFacts
<1> HIDE DEF o
<1>3. ToSet(queue') = ToSet(queue) \ {o} /\ o \in ToSet(queue)
  BY <1>2
<1>4. /\ ~Busy(w)
      /\ \A v \in Worker : Busy(v)' <=> Busy(v) \/ v = w
  BY <1>1 DEF Busy, JobInv, TypeOK
<1>5. \A v \in Worker : Busy(v) => job[v] # o
  BY <1>3 DEF JobInv, Placed
<1>6. \A v \in Worker : job'[v] = IF v = w THEN o ELSE job[v]
  BY <1>1 DEF JobInv, TypeOK
<1>7. ASSUME NEW p PROVE InFlight(p)' <=> InFlight(p)
  <2>1. CASE p = o
    BY <2>1, <1>3, <1>4, <1>6 DEF InFlight, Busy
  <2>2. CASE p # o
    <3>1. (\E v \in Worker : Busy(v)' /\ job'[v] = p) <=> (\E v \in Worker : Busy(v) /\ job[v] = p)
      BY <2>2, <1>4, <1>6
    <3> QED BY <2>2, <3>1, <1>1, <1>3 DEF InFlight, Busy
  <2> QED BY <2>1, <2>2
<1> QED BY <1>1, <1>2, <1>3, <1>4, <1>5, <1>7 DEF o

LEMMA TakeJob ==
  ASSUME JobInv, NEW w \in Worker, Take(w)
  PROVE  JobInv'
<1> DEFINE o == Head(queue)
<1>1. /\ o \in Op /\ o \in ToSet(queue)
      /\ queue' \in Seq(Op) /\ ToSet(queue') = ToSet(queue) \ {o} /\ IsInjective(queue')
      /\ job' = [job EXCEPT ![w] = o] /\ pc' = [pc EXCEPT ![w] = "test"]
      /\ \A v \in Worker : Busy(v)' <=> Busy(v) \/ v = w
      /\ \A v \in Worker : Busy(v) => job[v] # o
      /\ ~Busy(w)
      /\ \A p : InFlight(p)' <=> InFlight(p)
  BY TakeFacts
<1> HIDE DEF o
<1>2. /\ fut' = fut /\ target' = target /\ results' = results /\ left' = left
  BY DEF Take, streamVars
<1>3. TypeOK'
  BY <1>1 DEF Take, JobInv, TypeOK, streamVars, fileVars
<1>4. \A v \in Worker : /\ job'[v] = IF v = w THEN o ELSE job[v]
                        /\ pc'[v] = IF v = w THEN "test" ELSE pc[v]
  BY <1>1 DEF JobInv, TypeOK
<1>5. Placed'
  <2>1. \A v \in Worker : Busy(v)' => job'[v] \in Op \ (ToSet(queue') \cup ToSet(results'))
    BY <1>1, <1>2, <1>4 DEF JobInv, Placed
  <2>2. \A v, u \in Worker : Busy(v)' /\ Busy(u)' /\ job'[v] = job'[u] => v = u
    BY <1>1, <1>4 DEF JobInv, Placed
  <2>3. \A p \in Op : InFlight(p)' => fut'[p] \in {"pending", "cancelled"}
    BY <1>1, <1>2 DEF JobInv, Placed
  <2> QED BY <2>1, <2>2, <2>3, <1>1, <1>2 DEF JobInv, Placed
<1>6. NothingLost' /\ NotAllAsleep'
  BY <1>1, <1>2, <1>4 DEF JobInv, NothingLost, NotAllAsleep
<1>7. StepSound'
  BY <1>2, <1>4 DEF JobInv, StepSound
<1> QED BY <1>3, <1>5, <1>6, <1>7 DEF JobInv

\* An idle worker that goes to sleep, or wakes the loop thread and looks again.
LEMMA IdleFacts ==
  ASSUME JobInv, NEW w \in Worker, Sleep(w) \/ Wake(w)
  PROVE  /\ \A p : InFlight(p)' <=> InFlight(p)
         /\ \A v \in Worker : (Busy(v)' <=> Busy(v)) /\ (Busy(v) => v # w /\ job'[v] = job[v] /\ pc'[v] = pc[v])
         /\ UNCHANGED <<fut, target, sclosed, queue, results, ok, openFd, left, fd, shut, table, rank, io>>
         /\ pc' \in [Worker -> {"check", "sleep", "test", "io", "unset", "post", "wake"}]
         /\ job' \in [Worker -> Op \cup {None}]
         /\ wake' \in BOOLEAN /\ loop' = loop
<1>1. UNCHANGED <<fut, target, sclosed, queue, results, ok, openFd, left, fd, shut, table, rank, io, loop>>
  BY DEF Sleep, Wake, streamVars, fileVars
<1>2. /\ ~Busy(w)
      /\ \E place \in {"check", "sleep"} : pc' = [pc EXCEPT ![w] = place]
      /\ job' = job \/ job' = [job EXCEPT ![w] = None]
      /\ wake' \in {wake, TRUE}
  BY DEF Sleep, Wake, Busy, Goto
<1>3. \A v \in Worker : (Busy(v)' <=> Busy(v)) /\ (Busy(v) => v # w /\ job'[v] = job[v] /\ pc'[v] = pc[v])
  BY <1>2 DEF Busy, JobInv, TypeOK
<1>4. \A p : InFlight(p)' <=> InFlight(p)
  BY <1>1, <1>3 DEF InFlight, Busy
<1>5. /\ pc' \in [Worker -> {"check", "sleep", "test", "io", "unset", "post", "wake"}]
      /\ job' \in [Worker -> Op \cup {None}] /\ wake' \in BOOLEAN
  BY <1>2 DEF JobInv, TypeOK
<1> QED BY <1>1, <1>3, <1>4, <1>5

LEMMA IdleJob ==
  ASSUME JobInv, NEW w \in Worker, Sleep(w) \/ Wake(w)
  PROVE  JobInv'
<1>1. TypeOK'
  BY IdleFacts DEF JobInv, TypeOK
<1>2. Placed' /\ NothingLost'
  <2>1. \A v \in Worker : Busy(v)' => job'[v] \in Op \ (ToSet(queue') \cup ToSet(results'))
    BY IdleFacts DEF JobInv, Placed
  <2>2. \A v, u \in Worker : Busy(v)' /\ Busy(u)' /\ job'[v] = job'[u] => v = u
    BY IdleFacts DEF JobInv, Placed
  <2> QED BY <2>1, <2>2, IdleFacts DEF JobInv, Placed, NothingLost
<1>3. StepSound'
  <2>1. \A v \in Worker : pc'[v] \in {"io", "unset"} => pc[v] = pc'[v] /\ job'[v] = job[v]
    BY IdleFacts DEF Busy
  <2> QED BY <2>1, IdleFacts DEF JobInv, StepSound
<1>4. NotAllAsleep'
  <2>1. CASE Sleep(w)
    BY <2>1 DEF Sleep, NotAllAsleep
  <2>2. CASE Wake(w)
    BY <2>2 DEF Wake, NotAllAsleep, Goto, JobInv, TypeOK
  <2> QED BY <2>1, <2>2
<1> QED BY <1>1, <1>2, <1>3, <1>4 DEF JobInv

\* The result of a job goes to the head of the list.
LEMMA PostFacts ==
  ASSUME JobInv, NEW w \in Worker, Post(w)
  PROVE  /\ Busy(w) /\ job[w] \in Op /\ job[w] \notin ToSet(results)
         /\ results' \in Seq(Op) /\ ToSet(results') = ToSet(results) \cup {job[w]}
         /\ IsInjective(results')
         /\ pc' = [pc EXCEPT ![w] = "wake"]
         /\ \A v \in Worker : Busy(v)' <=> Busy(v) /\ v # w
         /\ \A p : InFlight(p)' <=> InFlight(p)
         /\ UNCHANGED <<fut, target, sclosed, queue, ok, openFd, job, left, fd, shut, table, rank, io, wake, loop>>
<1>1. /\ UNCHANGED <<fut, target, sclosed, queue, ok, openFd, job, left, fd, shut, table, rank, io, wake, loop>>
      /\ results' = <<job[w]>> \o results
      /\ pc' = [pc EXCEPT ![w] = "wake"] /\ Busy(w)
  BY DEF Post, streamVars, fileVars, Goto, Busy
<1>2. job[w] \in Op /\ job[w] \notin ToSet(results) /\ results \in Seq(Op) /\ IsInjective(results)
  BY <1>1 DEF JobInv, TypeOK, Placed
<1>3. /\ results' \in Seq(Op) /\ ToSet(results') = ToSet(results) \cup {job[w]}
      /\ IsInjective(results')
  BY <1>1, <1>2, ConsFacts
<1>4. \A v \in Worker : Busy(v)' <=> Busy(v) /\ v # w
  BY <1>1 DEF Busy, JobInv, TypeOK
<1>5. \A p : InFlight(p)' <=> InFlight(p)
  BY <1>1, <1>3, <1>4 DEF InFlight, Busy
<1> QED BY <1>1, <1>2, <1>3, <1>4, <1>5

LEMMA PostJob ==
  ASSUME JobInv, NEW w \in Worker, Post(w)
  PROVE  JobInv'
<1>1. pc' \in [Worker -> {"check", "sleep", "test", "io", "unset", "post", "wake"}]
  BY PostFacts DEF JobInv, TypeOK
<1>2. TypeOK'
  BY <1>1, PostFacts DEF JobInv, TypeOK
<1>3. Placed' /\ NothingLost'
  <2>1. job[w] \notin ToSet(queue) /\ \A v \in Worker : Busy(v) /\ v # w => job[v] # job[w]
    BY PostFacts DEF JobInv, Placed
  <2>2. \A v \in Worker : Busy(v)' => job'[v] \in Op \ (ToSet(queue') \cup ToSet(results'))
    BY <2>1, PostFacts DEF JobInv, Placed
  <2> QED BY <2>1, <2>2, PostFacts DEF JobInv, Placed, NothingLost
<1>4. StepSound' /\ NotAllAsleep'
  <2>1. \A v \in Worker : pc'[v] = IF v = w THEN "wake" ELSE pc[v]
    BY PostFacts DEF JobInv, TypeOK
  <2> QED BY <2>1, PostFacts DEF JobInv, StepSound, NotAllAsleep
<1> QED BY <1>2, <1>3, <1>4 DEF JobInv

\* The steps in the middle of a job.
Middle(w) == OpenFile(w) \/ TestOpen(w) \/ Transfer(w) \/ CloseFd(w) \/ Unset(w)

LEMMA MiddleFacts ==
  ASSUME JobInv, NEW w \in Worker, Middle(w)
  PROVE  /\ Busy(w)
         /\ \E place \in {"io", "unset", "post"} : pc' = [pc EXCEPT ![w] = place]
         /\ UNCHANGED <<fut, target, sclosed, queue, results, job, rank, wake, loop>>
         /\ \A o : InFlight(o)' <=> InFlight(o)
         /\ \A v \in Worker : Busy(v)' <=> Busy(v)
<1>1. Busy(w)
  BY DEF Middle, OpenFile, TestOpen, Transfer, CloseFd, Unset, Busy
<1>2. UNCHANGED <<fut, target, sclosed, queue, results, job, rank, wake, loop>>
  BY DEF Middle, OpenFile, TestOpen, Transfer, CloseFd, Unset, streamVars, fileVars
<1>3. \E place \in {"io", "unset", "post"} : pc' = [pc EXCEPT ![w] = place]
  <2>1. CASE OpenFile(w)
    BY <2>1 DEF OpenFile, Answer, Goto
  <2>2. CASE TestOpen(w)
    BY <2>2 DEF TestOpen, Answer, Goto
  <2>3. CASE Transfer(w)
    <3>1. pc' = [pc EXCEPT ![w] = "post"] \/ (pc' = pc /\ pc[w] = "io")
      BY <2>3 DEF Transfer, Answer, Goto
    <3>2. pc = [pc EXCEPT ![w] = pc[w]]
      BY DEF JobInv, TypeOK
    <3> QED BY <3>1, <3>2
  <2>4. CASE CloseFd(w)
    BY <2>4 DEF CloseFd, Answer, Goto
  <2>5. CASE Unset(w)
    BY <2>5 DEF Unset, Answer, Goto
  <2> QED BY <2>1, <2>2, <2>3, <2>4, <2>5 DEF Middle
<1>4. /\ \A o : InFlight(o)' <=> InFlight(o)
      /\ \A v \in Worker : Busy(v)' <=> Busy(v)
  BY <1>1, <1>2, <1>3, GoOn
<1> QED BY <1>1, <1>2, <1>3, <1>4

LEMMA MiddleTypes ==
  ASSUME JobInv, NEW w \in Worker, Middle(w)
  PROVE  TypeOK'
<1>1. /\ job[w] \in Op
      /\ job[w] \in File <=> KindOf[job[w]] = "open"
      /\ KindOf[job[w]] # "open" => target[job[w]] \in File
  BY MiddleFacts, JobFacts
<1>2. ASSUME NEW good \in BOOLEAN PROVE [ok EXCEPT ![job[w]] = good] \in [Op -> BOOLEAN]
  BY DEF JobInv, TypeOK
<1>3. ok' \in [Op -> BOOLEAN]
  BY <1>2 DEF Middle, OpenFile, TestOpen, Transfer, CloseFd, Unset, Answer, JobInv, TypeOK
<1>4. /\ openFd' \in [Op -> Fd \cup {None}]
      /\ table' \in [Fd -> File \cup {None}]
  <2>1. CASE OpenFile(w)
    <3>1. job[w] \in File
      BY <2>1, <1>1 DEF OpenFile
    <3>2. \/ openFd' = openFd /\ table' = table
          \/ \E n \in Fd : /\ openFd' = [openFd EXCEPT ![job[w]] = n]
                           /\ table' = [table EXCEPT ![n] = job[w]]
      BY <2>1 DEF OpenFile
    <3>3. openFd \in [Op -> Fd \cup {None}] /\ table \in [Fd -> File \cup {None}]
      BY DEF JobInv, TypeOK
    <3> QED BY <3>1, <3>2, <3>3
  <2>2. CASE TestOpen(w) \/ Transfer(w) \/ CloseFd(w) \/ Unset(w)
    <3>1. openFd' = openFd
      BY <2>2 DEF TestOpen, Transfer, CloseFd, Unset
    <3>2. table' = table \/ \E n : table' = [table EXCEPT ![n] = None]
      BY <2>2 DEF TestOpen, Transfer, CloseFd, Unset, fileVars
    <3> QED BY <3>1, <3>2 DEF JobInv, TypeOK
  <2> QED BY <2>1, <2>2 DEF Middle
<1>5. /\ fd' \in [File -> Fd \cup {None}] /\ shut' \in [File -> BOOLEAN]
  BY DEF Middle, OpenFile, TestOpen, Transfer, CloseFd, Unset, JobInv, TypeOK, fileVars
<1>6. left' \in [Worker -> 0 .. Chunks]
  <2>1. CASE TestOpen(w)
    <3>1. left' = left \/ \E n \in {1, Chunks} : left' = [left EXCEPT ![w] = n]
      BY <2>1 DEF TestOpen
    <3>2. 1 \in 0 .. Chunks /\ Chunks \in 0 .. Chunks
      BY ConstantFacts
    <3> QED BY <3>1, <3>2 DEF JobInv, TypeOK
  <2>2. CASE Transfer(w)
    <3>1. CASE left' = left
      BY <3>1 DEF JobInv, TypeOK
    <3>2. CASE \E n \in 1 .. left[w] : left' = [left EXCEPT ![w] = @ - n]
      <4>1. PICK n \in 1 .. left[w] : left' = [left EXCEPT ![w] = @ - n]
        BY <3>2
      <4>2. left[w] \in 0 .. Chunks
        BY DEF JobInv, TypeOK
      <4>3. left[w] - n \in 0 .. Chunks
        BY <4>1, <4>2, ConstantFacts
      <4> QED BY <4>1, <4>3 DEF JobInv, TypeOK
    <3> QED BY <2>2, <3>1, <3>2 DEF Transfer
  <2>3. CASE OpenFile(w) \/ CloseFd(w) \/ Unset(w)
    BY <2>3 DEF OpenFile, CloseFd, Unset, JobInv, TypeOK
  <2> QED BY <2>1, <2>2, <2>3 DEF Middle
<1>7. io' \in [File -> Seq(Op)]
  <2>1. CASE io' = io
    BY <2>1 DEF JobInv, TypeOK
  <2>2. CASE Transfer(w) /\ io' # io
    <3> DEFINE g == Behind(target[job[w]])
    <3>1. PICK n \in 1 .. left[w] : io' = [io EXCEPT ![g] = @ \o [i \in 1 .. n |-> job[w]]]
      BY <2>2 DEF Transfer
    <3> HIDE DEF g
    <3>2. n \in Nat
      OBVIOUS
    <3>3. io \in [File -> Seq(Op)]
      BY DEF JobInv, TypeOK
    <3>4. \A f \in File : io[f] \o [i \in 1 .. n |-> job[w]] \in Seq(Op)
      BY <1>1, <3>2, <3>3, RunFacts
    <3> QED BY <3>1, <3>3, <3>4
  <2> QED BY <2>1, <2>2 DEF Middle, OpenFile, TestOpen, CloseFd, Unset
<1>8. pc' \in [Worker -> {"check", "sleep", "test", "io", "unset", "post", "wake"}]
  BY MiddleFacts DEF JobInv, TypeOK
<1> QED BY <1>3, <1>4, <1>5, <1>6, <1>7, <1>8, MiddleFacts DEF JobInv, TypeOK

LEMMA MiddleJob ==
  ASSUME JobInv, NEW w \in Worker, Middle(w)
  PROVE  JobInv'
<1>1. Placed' /\ NothingLost' /\ NotAllAsleep'
  BY MiddleFacts, GoOn
<1>2. StepSound'
  <2>1. \A o \in Op : target'[o] = None <=> o \in File \/ fut'[o] = "unborn"
    BY MiddleFacts DEF JobInv, StepSound
  <2>2. /\ left \in [Worker -> 0 .. Chunks]
        /\ pc \in [Worker -> {"check", "sleep", "test", "io", "unset", "post", "wake"}]
    BY DEF JobInv, TypeOK
  <2>3. \A v \in Worker : v # w => pc'[v] = pc[v] /\ left'[v] = left[v]
    BY <2>2, MiddleFacts DEF Middle, OpenFile, TestOpen, Transfer, CloseFd, Unset
  <2>4. pc'[w] = "io" => KindOf[job[w]] \in {"read", "write"} /\ left'[w] > 0
    <3>1. CASE TestOpen(w)
      BY <3>1, <2>2, ConstantFacts DEF TestOpen, Answer, Goto
    <3>2. CASE Transfer(w)
      <4>1. ASSUME pc'[w] = "io" PROVE \E n \in 1 .. left[w] : left' = [left EXCEPT ![w] = @ - n] /\ n # left[w]
        BY <4>1, <3>2, <2>2 DEF Transfer, Answer, Goto
      <4>2. ASSUME NEW n \in 1 .. left[w], left' = [left EXCEPT ![w] = @ - n], n # left[w]
            PROVE  left'[w] > 0
        BY <4>2, <2>2
      <4> QED BY <4>1, <4>2, <3>2 DEF Transfer
    <3>3. CASE OpenFile(w) \/ CloseFd(w) \/ Unset(w)
      BY <3>3, <2>2 DEF OpenFile, CloseFd, Unset, Answer, Goto
    <3> QED BY <3>1, <3>2, <3>3 DEF Middle
  <2>5. pc'[w] = "unset" => KindOf[job[w]] = "close"
    BY <2>2 DEF Middle, OpenFile, TestOpen, Transfer, CloseFd, Unset, Answer, Goto
  <2> QED BY <2>1, <2>3, <2>4, <2>5, MiddleFacts DEF JobInv, StepSound
<1> QED BY <1>1, <1>2, MiddleTypes DEF JobInv

LEMMA NextJob == JobInv /\ [Next]_vars => JobInv'
<1> SUFFICES ASSUME JobInv, [Next]_vars PROVE JobInv'
  OBVIOUS
<1>1. CASE LoopThread
  BY <1>1, OpenJob, CancelJob, RequestJob, PollOneJob, TurnJob DEF LoopThread, Turn
<1>2. ASSUME NEW w \in Worker, Work(w) PROVE JobInv'
  BY <1>2, TakeJob, IdleJob, PostJob, MiddleJob DEF Work, Middle
<1>3. CASE UNCHANGED vars
  <2>1. UNCHANGED <<fut, target, sclosed, queue, results, ok, openFd, job, pc, left,
                    fd, shut, table, rank, io, wake, loop>>
    BY <1>3 DEF vars, streamVars, workerVars, fileVars
  <2>2. \A o : InFlight(o)' <=> InFlight(o)
    BY <2>1 DEF InFlight
  <2>3. TypeOK'
    BY <2>1 DEF JobInv, TypeOK
  <2> QED BY <2>1, <2>2, <2>3 DEF JobInv, Placed, NothingLost, StepSound, NotAllAsleep, Busy
<1> QED BY <1>1, <1>2, <1>3 DEF Next

-----------------------------------------------------------------------------
(* One request at a time on a stream.                                      *)

\* A new request on a stream is the only one there.
LEMMA RequestFacts ==
  ASSUME JobInv, NEW o \in Op, NEW f \in File, Request(o, f)
  PROVE  /\ ~InFlight(o) /\ o \notin File /\ target[o] = None
         /\ \A p : InFlight(p)' <=> InFlight(p) \/ p = o
         /\ \A p \in Op : target'[p] = IF p = o THEN f ELSE target[p]
         /\ \A p \in Op : fut'[p] = IF p = o THEN "pending" ELSE fut[p]
         /\ queue' \in Seq(Op) /\ ToSet(queue') = ToSet(queue) \cup {o}
         /\ \A w \in Worker : pc'[w] = pc[w] \/ (pc[w] = "sleep" /\ pc'[w] = "check")
         /\ \A w \in Worker : Busy(w)' <=> Busy(w)
         /\ UNCHANGED <<results, ok, openFd, job, left, fd, shut, table, io>>
<1>1. /\ fut[o] = "unborn" /\ Enqueue(o) /\ fut' = [fut EXCEPT ![o] = "pending"]
      /\ target' = [target EXCEPT ![o] = f]
      /\ UNCHANGED <<results, ok, openFd, job, left, fd, shut, table, io>>
      /\ o \notin File
  BY DEF Request, Ask, fileVars, File
<1>2. \A p \in Op : /\ target'[p] = IF p = o THEN f ELSE target[p]
                    /\ fut'[p] = IF p = o THEN "pending" ELSE fut[p]
  BY <1>1 DEF JobInv, TypeOK
<1>3. target[o] = None
  BY <1>1 DEF JobInv, StepSound
<1> QED BY <1>1, <1>2, <1>3, EnqueueFacts

LEMMA InitOne == Init => OneByOne
<1> SUFFICES ASSUME Init PROVE OneByOne
  OBVIOUS
<1>1. \A o \in Op : target[o] = None /\ fut[o] = "unborn"
  BY DEF Init
<1> QED BY <1>1 DEF OneByOne

LEMMA NextOne ==
  ASSUME Disciplined, JobInv, OneByOne, [Next]_vars
  PROVE  OneByOne'
<1>1. ASSUME NEW o \in Op, Open(o) PROVE OneByOne'
  <2>1. \A p : InFlight(p)' => InFlight(p) \/ p = o
    <3>1. CASE fut' = [fut EXCEPT ![o] = "pending"] /\ Enqueue(o)
      BY <1>1, <3>1, EnqueueFacts DEF Open
    <3>2. CASE fut' = [fut EXCEPT ![o] = "failed"] /\ UNCHANGED <<queue, pc>>
      BY <1>1, <3>2 DEF Open, InFlight
    <3> QED BY <1>1, <3>1, <3>2 DEF Open
  <2>2. target' = target /\ target[o] = None
    BY <1>1 DEF Open, JobInv, StepSound
  <2>3. \A p \in Op : fut'[p] = "cancelled" => fut[p] = "cancelled"
    BY <1>1 DEF Open, JobInv, TypeOK
  <2> QED BY <2>1, <2>2, <2>3 DEF OneByOne
<1>2. ASSUME NEW o \in Op, NEW f \in File, Request(o, f) PROVE OneByOne'
  <2>1. \A p \in Op : target[p] = f => ~InFlight(p)
    <3>1. SUFFICES ASSUME NEW p \in Op, target[p] = f, InFlight(p) PROVE FALSE
      OBVIOUS
    <3>2. fut[p] # "pending"
      BY <1>2, <3>1 DEF Disciplined, Request, Unfinished
    <3>3. fut[p] = "cancelled"
      BY <3>1, <3>2 DEF JobInv, Placed
    <3>4. p \in File
      BY <3>3 DEF OneByOne
    <3>5. target[p] = None
      BY <3>4 DEF JobInv, StepSound
    <3> QED BY <3>1, <3>5, ConstantFacts
  <2> QED BY <1>2, <2>1, RequestFacts DEF OneByOne
<1>3. ASSUME NEW o \in Op, Cancel(o) PROVE OneByOne'
  <2>1. \A p : InFlight(p)' <=> InFlight(p)
    BY <1>3 DEF Cancel, InFlight, workerVars
  <2>2. target' = target /\ \A p \in Op : fut'[p] = "cancelled" => fut[p] = "cancelled" \/ p \in File
    BY <1>3 DEF Cancel, Disciplined, JobInv, TypeOK
  <2> QED BY <2>1, <2>2 DEF OneByOne
<1>4. CASE PollOne
  <2>1. \A p \in Op : fut'[p] = "cancelled" => fut[p] = "cancelled"
    BY <1>4, PollFacts DEF PollOne, JobInv, TypeOK
  <2>2. target' = target
    BY <1>4 DEF PollOne
  <2> QED BY <1>4, <2>1, <2>2, PollFacts DEF OneByOne
<1>5. CASE Turn
  BY <1>5, TurnFacts, TurnJob DEF OneByOne
<1>6. ASSUME NEW w \in Worker, Work(w) PROVE OneByOne'
  <2>1. fut' = fut /\ target' = target
    BY <1>6 DEF Work, Take, Sleep, OpenFile, TestOpen, Transfer, CloseFd, Unset, Post, Wake, streamVars
  <2>2. \A p : InFlight(p)' <=> InFlight(p)
    BY <1>6, TakeFacts, IdleFacts, MiddleFacts, PostFacts DEF Work, Middle
  <2> QED BY <2>1, <2>2 DEF OneByOne
<1>7. CASE UNCHANGED vars
  <2>1. UNCHANGED <<fut, target>> /\ \A p : InFlight(p)' <=> InFlight(p)
    BY <1>7 DEF vars, streamVars, workerVars, InFlight
  <2> QED BY <2>1 DEF OneByOne
<1> QED BY <1>1, <1>2, <1>3, <1>4, <1>5, <1>6, <1>7 DEF Next, LoopThread, Turn

-----------------------------------------------------------------------------
(* Descriptors.                                                            *)

DescInv == OpenSound /\ FdSound /\ NoFdLeak

\* Steps that leave the descriptors alone, and worker's steps as far as they matter.
LEMMA DescFrame ==
  ASSUME DescInv, UNCHANGED <<openFd, table, fd>>,
         \A o \in Op : InFlight(o)' => InFlight(o) \/ openFd[o] = None,
         \A o \in Op : InFlight(o) => InFlight(o)',
         \A o \in Op : (fut[o] = "completed" => fut'[o] = "completed") /\ (fut'[o] = "unborn" => fut[o] = "unborn"),
         \A o \in Op : o \in ToSet(queue') => openFd[o] = None,
         \A o \in ToSet(results') : o \in File => (ok'[o] <=> openFd[o] # None),
         \A w \in Worker : pc'[w] = "test" => openFd[job'[w]] = None,
         \A w \in Worker : pc'[w] = "post" /\ job'[w] \in File => (ok'[job'[w]] <=> openFd[job'[w]] # None),
         \A f \in File : Closing(f) => Closing(f)',
         TypeOK
  PROVE  DescInv'
<1>1. OpenSound'
  BY DEF DescInv, OpenSound, TypeOK
<1>2. FdSound'
  BY ConstantFacts DEF DescInv, FdSound
<1>3. NoFdLeak'
  BY ConstantFacts DEF DescInv, NoFdLeak, TypeOK
<1> QED BY <1>1, <1>2, <1>3 DEF DescInv

LEMMA InitDesc == Init => DescInv
<1> SUFFICES ASSUME Init PROVE DescInv
  OBVIOUS
<1>1. OpenSound
  BY EmptyFacts DEF Init, OpenSound
<1> QED BY <1>1 DEF Init, DescInv, FdSound, NoFdLeak

LEMMA LoopDesc ==
  ASSUME JobInv, DescInv
  PROVE  /\ \A o \in Op : Open(o) => DescInv'
         /\ \A o \in Op, f \in File : Request(o, f) => DescInv'
         /\ \A o \in Op : Cancel(o) => DescInv'
         /\ Turn => DescInv'
<1>1. ASSUME NEW o \in Op, Open(o) PROVE DescInv'
  <2>1. openFd[o] = None /\ ~InFlight(o)
    BY <1>1 DEF Open, DescInv, OpenSound, JobInv, Placed
  <2>2. UNCHANGED <<openFd, table, ok, fd, target, job, results>>
    BY <1>1 DEF Open, fileVars
  <2>3. /\ \A p : InFlight(p)' => InFlight(p) \/ p = o
        /\ \A p : InFlight(p) => InFlight(p)'
        /\ ToSet(queue') \subseteq ToSet(queue) \cup {o}
        /\ \A w \in Worker : pc'[w] = pc[w] \/ (pc[w] = "sleep" /\ pc'[w] = "check")
    <3>1. CASE fut' = [fut EXCEPT ![o] = "pending"] /\ Enqueue(o)
      BY <1>1, <3>1, EnqueueFacts DEF Open
    <3>2. CASE fut' = [fut EXCEPT ![o] = "failed"] /\ UNCHANGED <<queue, pc>>
      BY <1>1, <3>2 DEF Open, InFlight
    <3> QED BY <1>1, <3>1, <3>2 DEF Open
  <2>4. \A p \in Op : (fut[p] = "completed" => fut'[p] = "completed") /\ (fut'[p] = "unborn" => fut[p] = "unborn")
    BY <1>1 DEF Open, JobInv, TypeOK
  <2>5. \A f \in File : Closing(f) => Closing(f)'
    BY <2>2, <2>3 DEF Closing
  <2>6. /\ \A p \in Op : p \in ToSet(queue') => openFd[p] = None
        /\ \A p \in ToSet(results') : p \in File => (ok'[p] <=> openFd[p] # None)
        /\ \A w \in Worker : pc'[w] = "test" => openFd[job'[w]] = None
        /\ \A w \in Worker : pc'[w] = "post" /\ job'[w] \in File => (ok'[job'[w]] <=> openFd[job'[w]] # None)
    BY <2>1, <2>2, <2>3, ConstantFacts DEF DescInv, OpenSound
  <2>7. TypeOK /\ \A p \in Op : InFlight(p)' => InFlight(p) \/ openFd[p] = None
    BY <2>1, <2>3 DEF JobInv
  <2>8. \A p \in Op : InFlight(p) => InFlight(p)'
    BY <2>3
  <2> QED BY <2>2, <2>4, <2>5, <2>6, <2>7, <2>8, DescFrame
<1>2. ASSUME NEW o \in Op, NEW f \in File, Request(o, f) PROVE DescInv'
  <2>1. openFd[o] = None
    BY <1>2, RequestFacts DEF DescInv, OpenSound
  <2>2. \A g \in File : Closing(g) => Closing(g)'
    <3>1. SUFFICES ASSUME NEW g \in File, NEW w \in Worker, pc[w] = "unset", target[job[w]] = g
                   PROVE  pc'[w] = "unset" /\ target'[job'[w]] = g
      BY DEF Closing
    <3>2. Busy(w) /\ job[w] \in Op /\ InFlight(job[w])
      BY <3>1, JobFacts DEF Busy
    <3> QED BY <1>2, <3>1, <3>2, RequestFacts
  <2>3. \A p \in Op : (fut[p] = "completed" => fut'[p] = "completed") /\ (fut'[p] = "unborn" => fut[p] = "unborn")
    BY <1>2, RequestFacts DEF Request
  <2>4. /\ \A p \in Op : p \in ToSet(queue') => openFd[p] = None
        /\ \A p \in ToSet(results') : p \in File => (ok'[p] <=> openFd[p] # None)
        /\ \A w \in Worker : pc'[w] = "test" => openFd[job'[w]] = None
        /\ \A w \in Worker : pc'[w] = "post" /\ job'[w] \in File => (ok'[job'[w]] <=> openFd[job'[w]] # None)
    BY <1>2, <2>1, RequestFacts, ConstantFacts DEF DescInv, OpenSound
  <2>5. \A p \in Op : InFlight(p)' => InFlight(p) \/ openFd[p] = None
    BY <1>2, <2>1, RequestFacts
  <2>6. \A p \in Op : InFlight(p) => InFlight(p)'
    BY <1>2, RequestFacts
  <2>7. UNCHANGED <<openFd, table, ok, fd>> /\ TypeOK
    BY <1>2, RequestFacts DEF JobInv
  <2> QED BY <2>2, <2>3, <2>4, <2>5, <2>6, <2>7, DescFrame
<1>3. ASSUME NEW o \in Op, Cancel(o) PROVE DescInv'
  <2>1. UNCHANGED <<openFd, table, ok, fd, target, job, pc, queue, results>>
    BY <1>3 DEF Cancel, fileVars, workerVars
  <2>2. \A p : InFlight(p)' <=> InFlight(p)
    BY <2>1 DEF InFlight
  <2>3. \A p \in Op : (fut[p] = "completed" => fut'[p] = "completed") /\ (fut'[p] = "unborn" => fut[p] = "unborn")
    BY <1>3 DEF Cancel, JobInv, TypeOK
  <2>4. \A f \in File : Closing(f) => Closing(f)'
    BY <2>1 DEF Closing
  <2>5. /\ \A p \in Op : p \in ToSet(queue') => openFd[p] = None
        /\ \A p \in ToSet(results') : p \in File => (ok'[p] <=> openFd[p] # None)
        /\ \A w \in Worker : pc'[w] = "test" => openFd[job'[w]] = None
        /\ \A w \in Worker : pc'[w] = "post" /\ job'[w] \in File => (ok'[job'[w]] <=> openFd[job'[w]] # None)
    BY <2>1, ConstantFacts DEF DescInv, OpenSound
  <2> QED BY <2>1, <2>2, <2>3, <2>4, <2>5, DescFrame DEF JobInv
<1>4. ASSUME Turn PROVE DescInv'
  <2>1. UNCHANGED <<fut, openFd, table, ok, fd, target, job, pc, queue, results>>
    BY <1>4, TurnFacts
  <2>2. \A p : InFlight(p)' <=> InFlight(p)
    BY <2>1 DEF InFlight
  <2>3. \A f \in File : Closing(f) => Closing(f)'
    BY <2>1 DEF Closing
  <2>4. /\ \A p \in Op : p \in ToSet(queue') => openFd[p] = None
        /\ \A p \in ToSet(results') : p \in File => (ok'[p] <=> openFd[p] # None)
        /\ \A w \in Worker : pc'[w] = "test" => openFd[job'[w]] = None
        /\ \A w \in Worker : pc'[w] = "post" /\ job'[w] \in File => (ok'[job'[w]] <=> openFd[job'[w]] # None)
    BY <2>1, ConstantFacts DEF DescInv, OpenSound
  <2> QED BY <2>1, <2>2, <2>3, <2>4, DescFrame DEF JobInv
<1> QED BY <1>1, <1>2, <1>3, <1>4

\* A result that is polled: its descriptor goes to the stream, or is closed.
LEMMA PollDesc ==
  ASSUME JobInv, DescInv, PollOne
  PROVE  DescInv'
<1> DEFINE o == Head(results)
<1>1. /\ o \in Op /\ o \in ToSet(results) /\ InFlight(o)
      /\ ToSet(results') = ToSet(results) \ {o}
      /\ \A p : InFlight(p)' <=> InFlight(p) /\ p # o
      /\ \A w \in Worker : Busy(w) => job[w] # o
  BY PollFacts
<1>2. UNCHANGED <<target, queue, ok, openFd, job, pc>>
  BY DEF PollOne, workerVars
<1>3. /\ fut[o] \in {"pending", "cancelled"}
      /\ \A p \in Op : fut'[p] = fut[p] \/ (p = o /\ fut[o] = "pending" /\ fut'[o] = IF ok[o] THEN "completed" ELSE "failed")
      /\ fut[o] = "pending" =>
           /\ fut'[o] = IF ok[o] THEN "completed" ELSE "failed"
           /\ fd' = IF o \in File /\ ok[o] THEN [fd EXCEPT ![o] = openFd[o]] ELSE fd
           /\ table' = table
      /\ fut[o] = "cancelled" =>
           /\ table' = IF openFd[o] # None THEN [table EXCEPT ![openFd[o]] = None] ELSE table
           /\ fut' = fut /\ fd' = fd
  <2>1. fut[o] \in {"pending", "cancelled"}
    BY <1>1 DEF JobInv, Placed
  <2>2. /\ fut[o] = "pending" =>
             /\ fut' = [fut EXCEPT ![o] = IF ok[o] THEN "completed" ELSE "failed"]
             /\ fd' = IF o \in File /\ ok[o] THEN [fd EXCEPT ![o] = openFd[o]] ELSE fd
             /\ table' = table
        /\ fut[o] = "cancelled" =>
             /\ table' = IF openFd[o] # None THEN [table EXCEPT ![openFd[o]] = None] ELSE table
             /\ fut' = fut /\ fd' = fd
    BY DEF PollOne
  <2> HIDE DEF o
  <2> QED BY <1>1, <2>1, <2>2 DEF JobInv, TypeOK
<1> HIDE DEF o
<1>4. TypeOK
  BY DEF JobInv
<1>5. OpenSound'
  <2>1. \A n \in Fd : table'[n] # None => table'[n] = table[n]
    BY <1>3, <1>4 DEF TypeOK
  <2>2. \A n \in Fd : table'[n] # None => openFd'[table'[n]] = n
    BY <1>2, <2>1 DEF DescInv, OpenSound
  <2>3. ASSUME NEW p \in Op, InFlight(p)', openFd[p] # None PROVE table'[openFd[p]] = p
    <3>1. InFlight(p) /\ p # o /\ table[openFd[p]] = p
      BY <1>1, <2>3 DEF DescInv, OpenSound
    <3>2. openFd[p] \in Fd /\ openFd[o] \in Fd \cup {None}
      BY <1>1, <1>4, <2>3 DEF TypeOK
    <3>3. CASE fut[o] = "pending" \/ openFd[o] = None
      BY <3>1, <3>3, <1>3
    <3>4. CASE fut[o] = "cancelled" /\ openFd[o] # None
      <4>1. table[openFd[o]] = o
        BY <1>1, <3>4 DEF DescInv, OpenSound
      <4>2. openFd[o] # openFd[p]
        BY <3>1, <4>1
      <4> QED BY <3>1, <3>2, <3>4, <4>2, <1>3, <1>4 DEF TypeOK
    <3> QED BY <3>3, <3>4, <1>3
  <2>4. \A p \in Op : fut'[p] = "unborn" => fut[p] = "unborn"
    BY <1>3
  <2>5. \A p \in ToSet(results') : p \in ToSet(results)
    BY <1>1
  <2> QED BY <1>2, <2>2, <2>3, <2>4, <2>5 DEF DescInv, OpenSound
<1>6. FdSound'
  <2>1. SUFFICES ASSUME NEW f \in File, fd'[f] # None
                 PROVE  /\ fut'[f] = "completed" /\ fd'[f] = openFd'[f]
                        /\ table'[fd'[f]] = f \/ Closing(f)'
    BY DEF FdSound
  <2>2. Closing(f)' <=> Closing(f)
    BY <1>2 DEF Closing
  <2>3. CASE fd[f] # None /\ fd'[f] = fd[f]
    <3>1. /\ fut[f] = "completed" /\ fd[f] = openFd[f]
          /\ table[fd[f]] = f \/ Closing(f)
      BY <2>3 DEF DescInv, FdSound
    <3>2. f # o /\ fut'[f] = "completed"
      BY <3>1, <1>3, ConstantFacts
    <3>3. table[fd[f]] = f => table'[fd[f]] = f
      <4>1. SUFFICES ASSUME table[fd[f]] = f, fut[o] = "cancelled", openFd[o] # None PROVE table'[fd[f]] = f
        BY <1>3
      <4>2. table[openFd[o]] = o
        BY <1>1, <4>1 DEF DescInv, OpenSound
      <4>3. openFd[o] # fd[f] /\ openFd[o] \in Fd /\ fd[f] \in Fd
        BY <1>1, <1>4, <2>3, <3>2, <4>1, <4>2 DEF TypeOK
      <4> QED BY <4>1, <4>3, <1>3, <1>4 DEF TypeOK
    <3> QED BY <2>2, <2>3, <3>1, <3>2, <3>3, <1>2
  <2>4. CASE ~(fd[f] # None /\ fd'[f] = fd[f])
    <3>1. f = o /\ fut[o] = "pending" /\ ok[o] /\ fd'[o] = openFd[o]
      BY <2>1, <2>4, <1>3, <1>4 DEF TypeOK
    <3>2. table[openFd[o]] = o
      BY <2>1, <3>1, <1>1 DEF DescInv, OpenSound
    <3> QED BY <3>1, <3>2, <1>2, <1>3
  <2> QED BY <2>3, <2>4
<1>7. NoFdLeak'
  <2>1. SUFFICES ASSUME NEW n \in Fd, NEW p, p = table'[n], p # None
                 PROVE  fut'[p] = "completed" \/ InFlight(p)'
    BY DEF NoFdLeak, InFlight
  <2>2. table[n] = p /\ p \in Op
    BY <2>1, <1>3, <1>4, ConstantFacts DEF TypeOK
  <2>3. openFd[p] = n /\ (fut[p] = "completed" \/ InFlight(p))
    BY <2>1, <2>2 DEF DescInv, OpenSound, NoFdLeak
  <2>4. CASE p # o
    <3>1. fut'[p] = fut[p] /\ (InFlight(p)' <=> InFlight(p))
      BY <2>4, <2>2, <1>1, <1>3
    <3> QED BY <3>1, <2>2, <2>3
  <2>5. CASE p = o
    <3>1. openFd[o] = n /\ o \in File /\ n # None
      BY <2>2, <2>3, <2>5, ConstantFacts DEF DescInv, OpenSound
    <3>2. ok[o]
      BY <3>1, <1>1 DEF DescInv, OpenSound
    <3>3. fut[o] # "cancelled"
      BY <3>1, <2>1, <1>3, <1>4 DEF TypeOK
    <3> QED BY <3>2, <3>3, <2>2, <2>5, <1>3
  <2> QED BY <2>4, <2>5
<1> QED BY <1>5, <1>6, <1>7 DEF DescInv

\* A worker's own request is with nobody else.
LEMMA OwnJob ==
  ASSUME JobInv, NEW w \in Worker, Busy(w)
  PROVE  /\ job[w] \in Op /\ job[w] \notin ToSet(queue) /\ job[w] \notin ToSet(results)
         /\ \A v \in Worker : Busy(v) /\ job[v] = job[w] => v = w
BY DEF JobInv, Placed

\* Steps of a worker that open and close nothing.
LEMMA QuietDesc ==
  ASSUME JobInv, DescInv, NEW w \in Worker,
         Take(w) \/ Sleep(w) \/ Wake(w) \/ Post(w) \/ TestOpen(w) \/ Transfer(w)
  PROVE  DescInv'
<1>1. TypeOK
  BY DEF JobInv
<1>2. CASE Take(w)
  <2>1. /\ UNCHANGED <<openFd, table, ok, fd, fut, target, results>>
        /\ \A v \in Worker : /\ pc'[v] = IF v = w THEN "test" ELSE pc[v]
                             /\ job'[v] = IF v = w THEN Head(queue) ELSE job[v]
        /\ pc[w] = "check"
    BY <1>1, <1>2, TakeFacts DEF Take, TypeOK, streamVars, fileVars
  <2>2. Head(queue) \in ToSet(queue) /\ Head(queue) \in Op
    BY <1>2, TakeFacts
  <2>3. /\ \A p \in Op : p \in ToSet(queue') => openFd[p] = None
        /\ \A p \in ToSet(results') : p \in File => (ok'[p] <=> openFd[p] # None)
        /\ \A v \in Worker : pc'[v] = "test" => openFd[job'[v]] = None
        /\ \A v \in Worker : pc'[v] = "post" /\ job'[v] \in File => (ok'[job'[v]] <=> openFd[job'[v]] # None)
    <3>1. ToSet(queue') \subseteq ToSet(queue)
      BY <1>2, TakeFacts
    <3> QED BY <2>1, <2>2, <3>1, ConstantFacts DEF DescInv, OpenSound
  <2>4. \A f \in File : Closing(f) => Closing(f)'
    BY <2>1 DEF Closing
  <2>5. \A p : InFlight(p)' <=> InFlight(p)
    BY <1>2, TakeFacts
  <2> QED BY <1>1, <2>1, <2>3, <2>4, <2>5, DescFrame
<1>3. CASE Sleep(w) \/ Wake(w)
  <2>1. UNCHANGED <<openFd, table, ok, fd, fut, target, results, queue>>
    BY <1>3, IdleFacts
  <2>2. \A v \in Worker : pc'[v] \in {"test", "post", "unset"} => pc'[v] = pc[v] /\ job'[v] = job[v]
    BY <1>3, IdleFacts DEF Busy
  <2>3. \A v \in Worker : pc[v] = "unset" => pc'[v] = "unset" /\ job'[v] = job[v]
    BY <1>3, IdleFacts DEF Busy
  <2>4. /\ \A p \in Op : p \in ToSet(queue') => openFd[p] = None
        /\ \A p \in ToSet(results') : p \in File => (ok'[p] <=> openFd[p] # None)
        /\ \A v \in Worker : pc'[v] = "test" => openFd[job'[v]] = None
        /\ \A v \in Worker : pc'[v] = "post" /\ job'[v] \in File => (ok'[job'[v]] <=> openFd[job'[v]] # None)
    BY <2>1, <2>2, ConstantFacts DEF DescInv, OpenSound
  <2>5. \A f \in File : Closing(f) => Closing(f)'
    BY <2>1, <2>3 DEF Closing
  <2>6. \A p : InFlight(p)' <=> InFlight(p)
    BY <1>3, IdleFacts
  <2> QED BY <1>1, <2>1, <2>4, <2>5, <2>6, DescFrame
<1>4. CASE Post(w)
  <2>1. /\ UNCHANGED <<openFd, table, ok, fd, fut, target, queue, job>>
        /\ \A v \in Worker : pc'[v] = IF v = w THEN "wake" ELSE pc[v]
        /\ ToSet(results') = ToSet(results) \cup {job[w]}
        /\ pc[w] = "post" /\ job[w] \in Op
    BY <1>1, <1>4, PostFacts DEF TypeOK, Post
  <2>2. /\ \A p \in Op : p \in ToSet(queue') => openFd[p] = None
        /\ \A p \in ToSet(results') : p \in File => (ok'[p] <=> openFd[p] # None)
        /\ \A v \in Worker : pc'[v] = "test" => openFd[job'[v]] = None
        /\ \A v \in Worker : pc'[v] = "post" /\ job'[v] \in File => (ok'[job'[v]] <=> openFd[job'[v]] # None)
    BY <2>1, ConstantFacts DEF DescInv, OpenSound
  <2>3. \A f \in File : Closing(f) => Closing(f)'
    BY <2>1 DEF Closing
  <2>4. \A p : InFlight(p)' <=> InFlight(p)
    BY <1>4, PostFacts
  <2> QED BY <1>1, <2>1, <2>2, <2>3, <2>4, DescFrame
<1>5. CASE TestOpen(w) \/ Transfer(w)
  <2>1. /\ UNCHANGED <<openFd, table, fd, fut, target, queue, results, job>>
        /\ \A v \in Worker : pc'[v] = pc[v] \/ (v = w /\ pc'[v] \in {"io", "post"})
        /\ pc[w] \in {"test", "io"} /\ Busy(w) /\ job[w] \in Op /\ job[w] \notin File
        /\ \A p \in Op : p # job[w] => ok'[p] = ok[p]
    <3>1. /\ pc[w] \in {"test", "io"} /\ Busy(w)
          /\ KindOf[job[w]] \in {"read", "write"}
      BY <1>5 DEF TestOpen, Transfer, Busy
    <3>2. job[w] \in Op /\ job[w] \notin File
      BY <3>1, OwnJob DEF File
    <3>3. /\ \A v \in Worker : pc'[v] = pc[v] \/ (v = w /\ pc'[v] \in {"io", "post"})
          /\ \A p \in Op : p # job[w] => ok'[p] = ok[p]
      BY <1>1, <1>5 DEF TestOpen, Transfer, TypeOK, Answer, Goto
    <3>4. UNCHANGED <<openFd, table, fd, fut, target, queue, results, job>>
      BY <1>5 DEF TestOpen, Transfer, streamVars, fileVars
    <3> QED BY <3>1, <3>2, <3>3, <3>4
  <2>2. \A p \in File : p \in Op /\ p # job[w] /\ ok'[p] = ok[p]
    BY <2>1, ConstantFacts
  <2>3. /\ \A p \in Op : p \in ToSet(queue') => openFd[p] = None
        /\ \A p \in ToSet(results') : p \in File => (ok'[p] <=> openFd[p] # None)
        /\ \A v \in Worker : pc'[v] = "test" => openFd[job'[v]] = None
        /\ \A v \in Worker : pc'[v] = "post" /\ job'[v] \in File => (ok'[job'[v]] <=> openFd[job'[v]] # None)
    BY <2>1, <2>2 DEF DescInv, OpenSound
  <2>4. \A f \in File : Closing(f) => Closing(f)'
    BY <2>1 DEF Closing
  <2>5. \A p : InFlight(p)' <=> InFlight(p)
    BY <1>5, MiddleFacts DEF Middle
  <2> QED BY <1>1, <2>1, <2>3, <2>4, <2>5, DescFrame
<1> QED BY <1>2, <1>3, <1>4, <1>5

\* A descriptor that is open was not in use, and has no stream yet.
LEMMA OpenFileDesc ==
  ASSUME JobInv, DescInv, NEW w \in Worker, OpenFile(w)
  PROVE  DescInv'
<1> DEFINE o == job[w]
<1>1. /\ TypeOK /\ Busy(w) /\ o \in Op /\ o \in File /\ InFlight(o) /\ pc[w] = "test"
      /\ o \notin ToSet(queue) /\ o \notin ToSet(results)
      /\ \A v \in Worker : Busy(v) /\ job[v] = o => v = w
      /\ openFd[o] = None
  <2>1. pc[w] = "test" /\ Busy(w) /\ KindOf[o] = "open"
    BY DEF OpenFile, Busy
  <2> QED BY <2>1, OwnJob, JobFacts DEF JobInv, DescInv, OpenSound
<1>2. /\ UNCHANGED <<fut, target, queue, results, job, fd>>
      /\ \A v \in Worker : pc'[v] = IF v = w THEN "post" ELSE pc[v]
      /\ \A p : InFlight(p)' <=> InFlight(p)
  <2>1. UNCHANGED <<fut, target, queue, results, job, fd>> /\ pc' = [pc EXCEPT ![w] = "post"]
    BY DEF OpenFile, Answer, Goto, streamVars
  <2> QED BY <2>1, <1>1, MiddleFacts DEF Middle, TypeOK
<1>3. \A f \in File : Closing(f)' <=> Closing(f)
  BY <1>1, <1>2 DEF Closing
<1>4. /\ fut[o] # "unborn" /\ fut[o] # "completed"
  BY <1>1 DEF JobInv, Placed
<1>5. CASE ok' = [ok EXCEPT ![o] = FALSE] /\ UNCHANGED <<table, openFd>>
  <2>1. \A p \in Op : ok'[p] = IF p = o THEN FALSE ELSE ok[p]
    BY <1>1, <1>5 DEF TypeOK
  <2> HIDE DEF o
  <2>2. OpenSound'
    <3>1. \A v \in Worker : pc'[v] = "post" /\ job'[v] \in File => (ok'[job'[v]] <=> openFd'[job'[v]] # None)
      <4>1. \A v \in Worker : pc[v] = "post" /\ job[v] \in File => (ok[job[v]] <=> openFd[job[v]] # None)
        BY DEF DescInv, OpenSound
      <4>2. job[w] = o
        BY DEF o
      <4> QED BY <1>1, <1>2, <1>5, <2>1, <4>1, <4>2, ConstantFacts
    <3>2. \A p \in Op : p \in ToSet(results') /\ p \in File => (ok'[p] <=> openFd'[p] # None)
      BY <1>1, <1>2, <1>5, <2>1 DEF DescInv, OpenSound
    <3> QED BY <1>2, <1>5, <3>1, <3>2 DEF DescInv, OpenSound
  <2>3. FdSound' /\ NoFdLeak'
    BY <1>2, <1>3, <1>5 DEF DescInv, FdSound, NoFdLeak
  <2> QED BY <2>2, <2>3 DEF DescInv
<1>6. ASSUME NEW n \in Fd, table[n] = None, table' = [table EXCEPT ![n] = o],
             openFd' = [openFd EXCEPT ![o] = n], ok' = [ok EXCEPT ![o] = TRUE]
      PROVE  DescInv'
  <2>0. o = job[w] /\ \A p \in Op : ok'[p] = IF p = o THEN TRUE ELSE ok[p]
    BY <1>1, <1>6 DEF TypeOK
  <2> HIDE DEF o
  <2>1. /\ \A p \in Op : openFd'[p] = IF p = o THEN n ELSE openFd[p]
        /\ \A m \in Fd : table'[m] = IF m = n THEN o ELSE table[m]
        /\ n # None /\ o # None
    BY <1>1, <1>6, ConstantFacts DEF TypeOK
  <2>2. \A m \in Fd : table[m] # None => table[m] \in Op /\ table[m] # o
    BY <1>1, ConstantFacts DEF DescInv, OpenSound, TypeOK
  <2>3. OpenSound'
    <3> \A m \in Fd : table[m] # None => openFd[table[m]] = m
      BY DEF DescInv, OpenSound
    <3>1. \A m \in Fd : table'[m] # None => openFd'[table'[m]] = m
      BY <1>1, <2>1, <2>2
    <3>2. ASSUME NEW p \in Op, InFlight(p)', openFd'[p] # None PROVE table'[openFd'[p]] = p
      <4>1. CASE p = o
        BY <2>1, <4>1, <1>6
      <4>2. CASE p # o
        <5>1. openFd'[p] = openFd[p] /\ openFd[p] \in Fd
          BY <1>1, <2>1, <3>2, <4>2 DEF TypeOK
        <5>2. table[openFd[p]] = p
          BY <1>2, <3>2, <5>1 DEF DescInv, OpenSound
        <5>3. openFd[p] # n
          BY <5>2, <1>6, ConstantFacts
        <5> QED BY <5>1, <5>2, <5>3, <2>1
      <4> QED BY <4>1, <4>2
    <3>3. ASSUME NEW p \in Op
          PROVE  /\ openFd'[p] # None => p \in File
                 /\ p \in ToSet(queue') \/ fut'[p] = "unborn" => openFd'[p] = None
                 /\ p \in ToSet(results') /\ p \in File => (ok'[p] <=> openFd'[p] # None)
      <4>1. CASE p = o
        BY <1>1, <1>2, <1>4, <4>1
      <4>2. CASE p # o
        <5>1. openFd'[p] = openFd[p] /\ ok'[p] = ok[p]
          BY <2>0, <2>1, <4>2
        <5> QED BY <1>2, <5>1 DEF DescInv, OpenSound
      <4> QED BY <4>1, <4>2
    <3>4. ASSUME NEW v \in Worker
          PROVE  /\ pc'[v] = "test" => openFd'[job'[v]] = None
                 /\ pc'[v] = "post" /\ job'[v] \in File => (ok'[job'[v]] <=> openFd'[job'[v]] # None)
      <4>1. CASE v = w
        BY <1>1, <1>2, <2>0, <2>1, <4>1
      <4>2. CASE v # w
        <5>1. Busy(v) => job[v] \in Op /\ job[v] # o
          BY <2>0, <1>1, <4>2, OwnJob
        <5>2. pc'[v] \in {"test", "post"} => Busy(v) /\ pc'[v] = pc[v]
          BY <1>2, <4>2 DEF Busy
        <5> QED BY <5>1, <5>2, <1>2, <2>0, <2>1 DEF DescInv, OpenSound
      <4> QED BY <4>1, <4>2
    <3> QED BY <3>1, <3>2, <3>3, <3>4 DEF OpenSound
  <2>4. FdSound'
    <3>1. ASSUME NEW f \in File, fd[f] # None
          PROVE  f # o /\ fd[f] \in Fd /\ (table[fd[f]] = f => table'[fd[f]] = f) /\ openFd'[f] = openFd[f]
      <4>1. f # o
        BY <3>1, <1>4 DEF DescInv, FdSound
      <4>2. fd[f] \in Fd /\ f \in Op /\ f # None
        BY <3>1, <1>1, ConstantFacts DEF TypeOK
      <4> QED BY <4>1, <4>2, <2>1, <1>6
    <3> QED BY <3>1, <1>2, <1>3 DEF DescInv, FdSound
  <2>5. NoFdLeak'
    <3>1. SUFFICES ASSUME NEW m \in Fd, NEW p, p = table'[m], p # None
                   PROVE  fut'[p] = "completed" \/ InFlight(p)'
      BY DEF NoFdLeak, InFlight
    <3>2. p = o \/ p = table[m]
      BY <3>1, <2>1
    <3> QED BY <3>1, <3>2, <1>1, <1>2 DEF DescInv, NoFdLeak
  <2> QED BY <2>3, <2>4, <2>5 DEF DescInv
<1> QED BY <1>5, <1>6 DEF OpenFile, Answer

\* While a worker has a request on a stream, no other worker closes it.
LEMMA Alone ==
  ASSUME JobInv, OneByOne, NEW w \in Worker, Busy(w), target[job[w]] \in File,
         Closing(target[job[w]])
  PROVE  pc[w] = "unset"
<1>1. PICK v \in Worker : pc[v] = "unset" /\ target[job[v]] = target[job[w]]
  BY DEF Closing
<1>2. Busy(v)
  BY <1>1 DEF Busy
<1>3. job[v] \in Op /\ job[w] \in Op /\ InFlight(job[v]) /\ InFlight(job[w])
  BY <1>2, JobFacts
<1>4. job[v] = job[w]
  BY <1>1, <1>3, ConstantFacts DEF OneByOne
<1> QED BY <1>1, <1>2, <1>4, OwnJob

\* A worker that transfers or closes has the descriptor of its own stream.
LEMMA OwnDescriptor ==
  ASSUME JobInv, OneByOne, FdSound, NEW w \in Worker, Busy(w), pc[w] # "unset",
         KindOf[job[w]] # "open", fd[target[job[w]]] # None
  PROVE  LET f == target[job[w]] IN
         f \in File /\ fd[f] \in Fd /\ table[fd[f]] = f /\ fut[f] = "completed" /\ openFd[f] = fd[f]
<1>1. target[job[w]] \in File
  BY JobFacts
<1>2. ~Closing(target[job[w]])
  BY <1>1, Alone
<1> QED BY <1>1, <1>2 DEF FdSound, JobInv, TypeOK

LEMMA CloseFdDesc ==
  ASSUME JobInv, OneByOne, DescInv, NEW w \in Worker, CloseFd(w)
  PROVE  DescInv'
<1> DEFINE o == job[w]
           f == target[o]
<1>1. /\ TypeOK /\ Busy(w) /\ o \in Op /\ o \notin File /\ pc[w] = "test" /\ f \in File
      /\ o \notin ToSet(queue) /\ o \notin ToSet(results)
  <2>1. pc[w] = "test" /\ Busy(w) /\ KindOf[o] = "close"
    BY DEF CloseFd, Busy
  <2> QED BY <2>1, OwnJob, JobFacts DEF JobInv
<1>2. /\ UNCHANGED <<fut, target, queue, results, job, fd, openFd>>
      /\ \A p : InFlight(p)' <=> InFlight(p)
  BY MiddleFacts DEF Middle, CloseFd
<1>3. CASE ok' = [ok EXCEPT ![o] = TRUE] /\ pc' = [pc EXCEPT ![w] = "post"] /\ table' = table
  <2>1. /\ \A v \in Worker : pc'[v] = IF v = w THEN "post" ELSE pc[v]
        /\ \A p \in Op : p # o => ok'[p] = ok[p]
    BY <1>1, <1>3 DEF TypeOK
  <2>2. \A p \in File : p \in Op /\ p # o /\ ok'[p] = ok[p]
    BY <1>1, <2>1, ConstantFacts
  <2>3. /\ \A p \in Op : p \in ToSet(queue') => openFd[p] = None
        /\ \A p \in ToSet(results') : p \in File => (ok'[p] <=> openFd[p] # None)
        /\ \A v \in Worker : pc'[v] = "test" => openFd[job'[v]] = None
        /\ \A v \in Worker : pc'[v] = "post" /\ job'[v] \in File => (ok'[job'[v]] <=> openFd[job'[v]] # None)
    BY <1>1, <1>2, <2>1, <2>2 DEF DescInv, OpenSound
  <2>4. \A g \in File : Closing(g) => Closing(g)'
    BY <1>1, <1>2, <2>1 DEF Closing
  <2> HIDE DEF o, f
  <2> QED BY <1>1, <1>2, <1>3, <2>3, <2>4, DescFrame
<1>4. CASE /\ fd[f] # None /\ table' = [table EXCEPT ![fd[f]] = None]
           /\ pc' = [pc EXCEPT ![w] = "unset"] /\ ok' = ok
  <2>1. f \in File /\ fd[f] \in Fd /\ table[fd[f]] = f /\ fut[f] = "completed"
    BY <1>1, <1>4, OwnDescriptor DEF DescInv, File
  <2>2. ~InFlight(f)
    BY <2>1, ConstantFacts DEF JobInv, Placed
  <2>3. /\ \A v \in Worker : pc'[v] = IF v = w THEN "unset" ELSE pc[v]
        /\ \A g \in File : g = f => Closing(g)'
    BY <1>1, <1>2, <1>4 DEF TypeOK, Closing
  <2> HIDE DEF o, f
  <2>4. \A m \in Fd : table'[m] = IF m = fd[f] THEN None ELSE table[m]
    BY <1>1, <1>4, <2>1 DEF TypeOK
  <2>5. OpenSound'
    <3>1. \A m \in Fd : table'[m] # None => openFd'[table'[m]] = m
      BY <1>2, <2>4 DEF DescInv, OpenSound
    <3>2. ASSUME NEW p \in Op, InFlight(p)', openFd'[p] # None PROVE table'[openFd'[p]] = p
      <4>1. InFlight(p) /\ openFd'[p] = openFd[p] /\ openFd[p] \in Fd /\ p # f
        BY <1>1, <1>2, <2>2, <3>2 DEF TypeOK
      <4>2. table[openFd[p]] = p
        BY <4>1, <1>2, <3>2 DEF DescInv, OpenSound
      <4>3. openFd[p] # fd[f]
        BY <4>1, <4>2, <2>1
      <4> QED BY <4>1, <4>2, <4>3, <2>4
    <3> QED BY <1>2, <1>4, <2>3, <3>1, <3>2 DEF DescInv, OpenSound
  <2>6. FdSound'
    <3>1. SUFFICES ASSUME NEW g \in File, fd[g] # None
                   PROVE  /\ fut[g] = "completed" /\ fd[g] = openFd[g]
                          /\ table'[fd[g]] = g \/ Closing(g)'
      BY <1>2 DEF FdSound
    <3>2. fut[g] = "completed" /\ fd[g] = openFd[g] /\ (table[fd[g]] = g \/ Closing(g))
      BY <3>1 DEF DescInv, FdSound
    <3>3. Closing(g) => Closing(g)'
      BY <1>1, <1>2, <2>3 DEF Closing
    <3>4. g # f /\ table[fd[g]] = g => table'[fd[g]] = g
      BY <1>1, <2>1, <2>4, <3>1 DEF TypeOK
    <3> QED BY <2>3, <3>2, <3>3, <3>4
  <2>7. NoFdLeak'
    <3>1. SUFFICES ASSUME NEW m \in Fd, NEW p, p = table'[m], p # None
                   PROVE  fut'[p] = "completed" \/ InFlight(p)'
      BY DEF NoFdLeak, InFlight
    <3> QED BY <3>1, <2>4, <1>2 DEF DescInv, NoFdLeak
  <2> QED BY <2>5, <2>6, <2>7 DEF DescInv
<1> QED BY <1>3, <1>4 DEF CloseFd, Answer, Goto

LEMMA UnsetDesc ==
  ASSUME JobInv, OneByOne, DescInv, NEW w \in Worker, Unset(w)
  PROVE  DescInv'
<1> DEFINE o == job[w]
           f == target[o]
<1>1. /\ TypeOK /\ Busy(w) /\ o \in Op /\ o \notin File /\ pc[w] = "unset" /\ f \in File
      /\ o \notin ToSet(queue) /\ o \notin ToSet(results)
  <2>1. pc[w] = "unset" /\ Busy(w)
    BY DEF Unset, Busy
  <2>2. KindOf[o] = "close"
    BY <2>1 DEF JobInv, StepSound
  <2> QED BY <2>1, <2>2, OwnJob, JobFacts DEF JobInv
<1>2. /\ UNCHANGED <<fut, target, queue, results, job, openFd, table>>
      /\ \A p : InFlight(p)' <=> InFlight(p)
  BY MiddleFacts DEF Middle, Unset
<1>3. /\ fd' = [fd EXCEPT ![f] = None] /\ ok' = [ok EXCEPT ![o] = TRUE]
      /\ pc' = [pc EXCEPT ![w] = "post"]
  BY DEF Unset, Answer, Goto
<1>4. /\ \A v \in Worker : pc'[v] = IF v = w THEN "post" ELSE pc[v]
      /\ \A p \in File : ok'[p] = ok[p]
      /\ \A g \in File : fd'[g] = IF g = f THEN None ELSE fd[g]
  BY <1>1, <1>3, ConstantFacts DEF TypeOK
<1>5. OpenSound'
  BY <1>1, <1>2, <1>4 DEF DescInv, OpenSound
<1>6. FdSound'
  <2>1. \A g \in File : g # f /\ Closing(g) => Closing(g)'
    BY <1>1, <1>2, <1>4 DEF Closing
  <2> HIDE DEF o, f
  <2> QED BY <1>2, <1>4, <2>1 DEF DescInv, FdSound
<1>7. NoFdLeak'
  BY <1>2 DEF DescInv, NoFdLeak
<1> QED BY <1>5, <1>6, <1>7 DEF DescInv

LEMMA NextDesc ==
  ASSUME JobInv, OneByOne, DescInv, [Next]_vars
  PROVE  DescInv'
<1>1. CASE UNCHANGED vars
  <2>1. UNCHANGED <<fut, target, queue, results, job, pc, ok, openFd, fd, table>>
    BY <1>1 DEF vars, streamVars, workerVars, fileVars
  <2> QED BY <2>1 DEF DescInv, OpenSound, FdSound, NoFdLeak, Closing, InFlight
<1>2. CASE LoopThread
  BY <1>2, LoopDesc, PollDesc DEF LoopThread, Turn
<1>3. ASSUME NEW w \in Worker, Work(w) PROVE DescInv'
  BY <1>3, QuietDesc, OpenFileDesc, CloseFdDesc, UnsetDesc DEF Work
<1> QED BY <1>1, <1>2, <1>3 DEF Next

-----------------------------------------------------------------------------
(* Bytes, and the file they belong to.                                     *)

\* What a transfer adds to the history of the file behind the descriptor,
\* which is the file of the request.
LEMMA TransferFacts ==
  ASSUME JobInv, OneByOne, FdSound, NEW w \in Worker, Transfer(w)
  PROVE  LET o == job[w]
             f == target[o]
         IN  /\ o \in Op /\ f \in File /\ Busy(w) /\ KindOf[o] \in {"read", "write"} /\ InFlight(o)
             /\ \/ /\ io' = io /\ left' = left
                   /\ ok' = [ok EXCEPT ![o] = FALSE] /\ pc' = [pc EXCEPT ![w] = "post"]
                \/ \E n \in 1 .. left[w] :
                     /\ io' = [io EXCEPT ![f] = @ \o [i \in 1 .. n |-> o]]
                     /\ left' = [left EXCEPT ![w] = @ - n]
                     /\ \/ n = left[w] /\ ok' = [ok EXCEPT ![o] = TRUE] /\ pc' = [pc EXCEPT ![w] = "post"]
                        \/ n # left[w] /\ ok' = ok /\ pc' = pc
<1> DEFINE o == job[w]
           f == target[o]
<1>1. /\ o \in Op /\ f \in File /\ Busy(w) /\ KindOf[o] \in {"read", "write"} /\ pc[w] = "io"
      /\ InFlight(o)
  <2>1. KindOf[o] \in {"read", "write"} /\ pc[w] = "io" /\ Busy(w)
    BY DEF Transfer, Busy
  <2> QED BY <2>1, JobFacts
<1>2. Behind(f) \in {f, None}
  <2>1. fd[f] # None => table[fd[f]] = f
    BY <1>1, OwnDescriptor
  <2> QED BY <2>1 DEF Behind
<1>3. CASE io' = io /\ left' = left /\ ok' = [ok EXCEPT ![o] = FALSE] /\ pc' = [pc EXCEPT ![w] = "post"]
  BY <1>1, <1>3
<1>4. CASE \E n \in 1 .. left[w] :
             /\ io' = [io EXCEPT ![Behind(f)] = @ \o [i \in 1 .. n |-> o]]
             /\ left' = [left EXCEPT ![w] = @ - n]
             /\ IF n = left[w] THEN Answer(w, TRUE) ELSE UNCHANGED <<ok, pc>>
             /\ Behind(f) # None
  BY <1>1, <1>2, <1>4 DEF Answer, Goto
<1> QED BY <1>3, <1>4 DEF Transfer, Answer, Goto

\* Only a request and a transfer change what a request is about and the history.
LEMMA StepFacts ==
  ASSUME JobInv, [Next]_vars
  PROVE  \/ \E o \in Op, f \in File : Request(o, f)
         \/ \E w \in Worker : Transfer(w)
         \/ /\ UNCHANGED <<target, rank, io>>
            /\ \A p \in Op : InFlight(p)' => InFlight(p) \/ p \in File
<1>1. ASSUME NEW o \in Op, Open(o)
      PROVE  UNCHANGED <<target, rank, io>> /\ \A p \in Op : InFlight(p)' => InFlight(p) \/ p \in File
  <2>1. \A p : InFlight(p)' => InFlight(p) \/ p = o
    <3>1. CASE fut' = [fut EXCEPT ![o] = "pending"] /\ Enqueue(o)
      BY <1>1, <3>1, EnqueueFacts DEF Open
    <3>2. CASE fut' = [fut EXCEPT ![o] = "failed"] /\ UNCHANGED <<queue, pc>>
      BY <1>1, <3>2 DEF Open, InFlight
    <3> QED BY <1>1, <3>1, <3>2 DEF Open
  <2> QED BY <1>1, <2>1 DEF Open, File
<1>2. ASSUME NEW o \in Op, Cancel(o)
      PROVE  UNCHANGED <<target, rank, io>> /\ \A p \in Op : InFlight(p)' => InFlight(p)
  BY <1>2 DEF Cancel, InFlight, workerVars
<1>3. CASE PollOne
  BY <1>3, PollFacts DEF PollOne
<1>4. CASE Turn
  BY <1>4, TurnFacts, TurnJob
<1>5. ASSUME NEW w \in Worker, Work(w), ~Transfer(w)
      PROVE  UNCHANGED <<target, rank, io>> /\ \A p \in Op : InFlight(p)' => InFlight(p)
  <2>1. UNCHANGED <<target, rank, io>>
    BY <1>5 DEF Work, Take, Sleep, OpenFile, TestOpen, CloseFd, Unset, Post, Wake, streamVars
  <2>2. \A p : InFlight(p)' <=> InFlight(p)
    BY <1>5, TakeFacts, IdleFacts, MiddleFacts, PostFacts DEF Work, Middle
  <2> QED BY <2>1, <2>2
<1>6. CASE UNCHANGED vars
  BY <1>6 DEF vars, streamVars, workerVars, InFlight
<1> QED BY <1>1, <1>2, <1>3, <1>4, <1>5, <1>6 DEF Next, LoopThread, Turn

\* The history of a file after a transfer.
LEMMA HistoryFacts ==
  ASSUME JobInv, OneByOne, FdSound, NEW w \in Worker, Transfer(w), NEW g \in File
  PROVE  /\ io[g] \in Seq(Op) /\ io'[g] \in Seq(Op)
         /\ \A i \in DOMAIN io'[g] :
              \/ i \in DOMAIN io[g] /\ io'[g][i] = io[g][i]
              \/ g = target[job[w]] /\ io'[g][i] = job[w] /\ \A j \in DOMAIN io[g] : j < i
<1> DEFINE o == job[w]
           f == target[o]
<1>1. o \in Op /\ f \in File /\ io \in [File -> Seq(Op)] /\ io[g] \in Seq(Op)
  BY TransferFacts DEF JobInv, TypeOK
<1>2. CASE io'[g] = io[g]
  BY <1>1, <1>2
<1>3. CASE io'[g] # io[g]
  <2>1. PICK n \in 1 .. left[w] : io' = [io EXCEPT ![f] = @ \o [i \in 1 .. n |-> o]]
    BY <1>3, TransferFacts
  <2>2. n \in Nat
    BY <2>1 DEF JobInv, TypeOK
  <2>3. g = f /\ io'[g] = io[g] \o [i \in 1 .. n |-> o]
    BY <1>1, <1>3, <2>1
  <2>4. DOMAIN io[g] = 1 .. Len(io[g]) /\ Len(io[g]) \in Nat
    BY <1>1
  <2> HIDE DEF o, f
  <2>5. /\ io'[g] \in Seq(Op)
        /\ DOMAIN io'[g] = 1 .. Len(io[g]) + n
        /\ \A i \in 1 .. Len(io[g]) : io'[g][i] = io[g][i]
        /\ \A i \in 1 .. Len(io[g]) + n : i > Len(io[g]) => io'[g][i] = o
    <3> DEFINE t == io[g] \o [i \in 1 .. n |-> o]
    <3>1. /\ t \in Seq(Op)
          /\ DOMAIN t = 1 .. Len(io[g]) + n
          /\ \A i \in 1 .. Len(io[g]) : t[i] = io[g][i]
          /\ \A i \in 1 .. Len(io[g]) + n : i > Len(io[g]) => t[i] = o
      BY <1>1, <2>2, RunFacts
    <3>2. io'[g] = t
      BY <2>3
    <3> HIDE DEF t
    <3> QED BY <3>1, <3>2
  <2>6. \A i \in DOMAIN io'[g] : \/ i \in DOMAIN io[g] /\ io'[g][i] = io[g][i]
                                 \/ io'[g][i] = o /\ \A j \in DOMAIN io[g] : j < i
    <3>1. SUFFICES ASSUME NEW i \in 1 .. Len(io[g]) + n
                   PROVE  \/ i \in DOMAIN io[g] /\ io'[g][i] = io[g][i]
                          \/ io'[g][i] = o /\ \A j \in DOMAIN io[g] : j < i
      BY <2>5
    <3>2. CASE i > Len(io[g])
      BY <2>2, <2>4, <2>5, <3>2
    <3>3. CASE ~(i > Len(io[g]))
      <4>1. i \in 1 .. Len(io[g])
        BY <2>2, <2>4, <3>3
      <4> QED BY <4>1, <2>4, <2>5
    <3> QED BY <3>2, <3>3
  <2>7. o = job[w] /\ f = target[job[w]]
    BY DEF o, f
  <2> QED BY <1>1, <2>3, <2>5, <2>6, <2>7
<1> QED BY <1>2, <1>3

LEMMA NextOwn ==
  ASSUME JobInv, OneByOne, FdSound, OwnFile, [Next]_vars
  PROVE  OwnFile'
<1>1. ASSUME NEW o \in Op, NEW f \in File, Request(o, f) PROVE OwnFile'
  <2>1. \A g \in File : io[g] \in Seq(Op) /\ \A i \in DOMAIN io[g] : io[g][i] \in Op
    BY DEF JobInv, TypeOK
  <2>2. \A g \in File : g # None
    BY ConstantFacts
  <2> QED BY <1>1, <2>1, <2>2, RequestFacts DEF OwnFile
<1>2. ASSUME NEW w \in Worker, Transfer(w) PROVE OwnFile'
  <2>1. target' = target
    BY <1>2, MiddleFacts DEF Middle
  <2> QED BY <1>2, <2>1, HistoryFacts DEF OwnFile
<1>3. CASE UNCHANGED <<target, rank, io>>
  BY <1>3 DEF OwnFile
<1> QED BY <1>1, <1>2, <1>3, StepFacts

\* The requests on a stream are numbered in the order in which they are made.
LEMMA NextRank ==
  ASSUME JobInv, OneByOne', RankSound, [Next]_vars
  PROVE  RankSound'
<1>1. ASSUME NEW o \in Op, NEW f \in File, Request(o, f) PROVE RankSound'
  <2>1. /\ \A p \in Op : rank'[p] = IF p = o THEN Cardinality(On(f)) ELSE rank[p]
        /\ \A p \in Op : target'[p] = IF p = o THEN f ELSE target[p]
        /\ target[o] = None
        /\ rank \in [Op -> Nat] /\ f # None
    <3>1. rank' = [rank EXCEPT ![o] = Cardinality(On(f))] /\ rank \in [Op -> Nat]
      BY <1>1 DEF Request, On, JobInv, TypeOK
    <3>2. \A p \in Op : rank'[p] = IF p = o THEN Cardinality(On(f)) ELSE rank[p]
      BY <3>1
    <3> QED BY <1>1, <3>1, <3>2, RequestFacts, ConstantFacts
  <2>2. \A g \in File : IsFiniteSet(On(g)) /\ Cardinality(On(g)) \in Nat
    BY FileAssumption, FS_Subset, FS_CardinalityType DEF On
  <2>3. \A g \in File : On(g)' = IF g = f THEN On(f) \cup {o} ELSE On(g)
    <3>1. \A g \in File : \A p : p \in On(g)' <=> p \in Op /\ target'[p] = g
      BY DEF On
    <3>2. \A g \in File : \A p : p \in On(g) <=> p \in Op /\ target[p] = g
      BY DEF On
    <3>3. \A g \in File : g # f => On(g)' = On(g)
      <4>1. SUFFICES ASSUME NEW g \in File, g # f PROVE On(g)' = On(g)
        OBVIOUS
      <4>2. g # None
        BY ConstantFacts
      <4>3. \A p \in Op : target'[p] = g <=> target[p] = g
        BY <4>1, <4>2, <2>1
      <4> QED BY <4>3 DEF On
    <3>4. On(f)' = On(f) \cup {o}
      BY <3>1, <3>2, <2>1
    <3> QED BY <3>3, <3>4
  <2>4. Cardinality(On(f) \cup {o}) = Cardinality(On(f)) + 1
    <3>1. o \notin On(f)
      BY <2>1 DEF On
    <3> QED BY <2>2, <3>1, FS_AddElement
  <2>5. \A p \in On(f) : rank[p] < Cardinality(On(f))
    BY DEF RankSound
  <2>6. ASSUME NEW g \in File, NEW p \in On(g)' PROVE rank'[p] < Cardinality(On(g)')
    <3>1. p \in Op
      BY <2>6 DEF On
    <3>2. CASE g = f
      <4>1. p \in On(f) \cup {o}
        BY <2>3, <2>6, <3>2
      <4>2. rank[p] \in Nat /\ Cardinality(On(f)) \in Nat
        BY <2>1, <2>2, <3>1
      <4>3. Cardinality(On(g)') = Cardinality(On(f)) + 1
        BY <2>3, <2>4, <3>2
      <4> QED BY <4>1, <4>2, <4>3, <2>1, <2>5, <3>1
    <3>3. CASE g # f
      <4>1. p \in On(g) /\ On(g)' = On(g)
        BY <2>3, <2>6, <3>3
      <4>2. p # o
        BY <4>1, <2>1, ConstantFacts DEF On
      <4> QED BY <4>1, <4>2, <3>1, <2>1 DEF RankSound
    <3> QED BY <3>2, <3>3
  <2>7. ASSUME NEW x \in Op, NEW p \in Op, InFlight(x)', target'[x] # None, target'[p] = target'[x]
        PROVE  rank'[p] <= rank'[x]
    <3>1. CASE x = o
      <4>1. p \in On(f) \/ p = o
        BY <2>1, <2>7, <3>1 DEF On
      <4>2. Cardinality(On(f)) \in Nat /\ rank[p] \in Nat
        BY <2>1, <2>2
      <4> QED BY <4>1, <4>2, <3>1, <2>1, <2>5
    <3>2. CASE x # o
      <4>1. InFlight(o)' /\ InFlight(x)
        BY <1>1, <2>7, <3>2, RequestFacts
      <4>2. p # o
        BY <4>1, <2>1, <2>7, <3>2 DEF OneByOne
      <4> QED BY <4>1, <4>2, <3>2, <2>1, <2>7 DEF RankSound
    <3> QED BY <3>1, <3>2
  <2> QED BY <2>6, <2>7 DEF RankSound
<1>2. CASE /\ UNCHANGED <<target, rank>>
           /\ \A p \in Op : InFlight(p)' => InFlight(p) \/ p \in File
  <2>1. \A g : On(g)' = On(g)
    BY <1>2 DEF On
  <2>2. \A p \in File : target[p] = None
    BY ConstantFacts DEF JobInv, StepSound
  <2> QED BY <1>2, <2>1, <2>2 DEF RankSound
<1>3. ASSUME NEW w \in Worker, Transfer(w) PROVE RankSound'
  <2>1. UNCHANGED <<target, rank>> /\ \A p \in Op : InFlight(p)' => InFlight(p)
    BY <1>3, MiddleFacts DEF Middle
  <2> QED BY <1>2, <2>1
<1> QED BY <1>1, <1>2, <1>3, StepFacts

LEMMA NextOrder ==
  ASSUME JobInv, OneByOne, FdSound, OwnFile, RankSound, InOrder, [Next]_vars
  PROVE  InOrder'
<1>1. \A g \in File : /\ \A i \in DOMAIN io[g] : io[g][i] \in Op /\ target[io[g][i]] = g
                      /\ g # None
  BY ConstantFacts DEF OwnFile, JobInv, TypeOK
<1>2. ASSUME NEW o \in Op, NEW f \in File, Request(o, f) PROVE InOrder'
  <2>1. io' = io /\ target[o] = None /\ \A p \in Op : p # o => rank'[p] = rank[p]
    BY <1>2, RequestFacts DEF Request, JobInv, TypeOK
  <2> QED BY <1>1, <2>1 DEF InOrder
<1>3. ASSUME NEW w \in Worker, Transfer(w) PROVE InOrder'
  <2>1. rank' = rank /\ rank \in [Op -> Nat]
    BY <1>3, MiddleFacts DEF Middle, JobInv, TypeOK
  <2>2. SUFFICES ASSUME NEW g \in File, NEW i \in DOMAIN io'[g], NEW j \in DOMAIN io'[g], i < j
                 PROVE  rank[io'[g][i]] <= rank[io'[g][j]]
    BY <2>1 DEF InOrder
  <2>3. /\ \/ i \in DOMAIN io[g] /\ io'[g][i] = io[g][i]
           \/ g = target[job[w]] /\ io'[g][i] = job[w] /\ \A k \in DOMAIN io[g] : k < i
        /\ \/ j \in DOMAIN io[g] /\ io'[g][j] = io[g][j]
           \/ g = target[job[w]] /\ io'[g][j] = job[w] /\ \A k \in DOMAIN io[g] : k < j
    BY <1>3, HistoryFacts
  <2>4. job[w] \in Op /\ InFlight(job[w]) /\ target[job[w]] \in File
    BY <1>3, TransferFacts
  <2>5. \A p \in Op : target[p] = target[job[w]] => rank[p] <= rank[job[w]]
    BY <2>4, ConstantFacts DEF RankSound
  <2>6. CASE j \in DOMAIN io[g] /\ io'[g][j] = io[g][j]
    <3>1. i \in DOMAIN io[g] /\ io'[g][i] = io[g][i]
      <4>1. i \in Int /\ j \in Int
        <5>1. io'[g] \in Seq(Op)
          BY <1>3, HistoryFacts
        <5> QED BY <5>1
      <4> QED BY <2>2, <2>3, <2>6, <4>1
    <3> QED BY <2>2, <2>6, <3>1 DEF InOrder
  <2>7. CASE g = target[job[w]] /\ io'[g][j] = job[w]
    <3>1. io'[g][i] \in Op /\ target[io'[g][i]] = g
      BY <1>1, <2>3, <2>4
    <3> QED BY <3>1, <2>5, <2>7
  <2> QED BY <2>3, <2>6, <2>7
<1>4. CASE UNCHANGED <<target, rank, io>>
  BY <1>4 DEF InOrder
<1> QED BY <1>2, <1>3, <1>4, StepFacts

-----------------------------------------------------------------------------
(* How much of a write has been written.                                   *)

\* Where the writes that somebody has are, after a step.
LEMMA CountFrame ==
  ASSUME \A o \in Op : KindOf[o] = "write" => Written(o)' = Written(o),
         CountSound,
         \A o \in Op : KindOf[o] = "write" =>
            /\ o \in ToSet(queue') => o \in ToSet(queue)
            /\ o \in ToSet(results') /\ ok'[o] => o \in ToSet(results) /\ ok[o]
            /\ fut'[o] = "completed" => fut[o] = "completed",
         \A w \in Worker : Busy(w)' /\ KindOf[job'[w]] = "write" =>
            Busy(w) /\ job'[w] = job[w] /\ pc'[w] = pc[w] /\ left'[w] = left[w] /\ job[w] \in Op
              /\ (ok'[job[w]] => ok[job[w]])
  PROVE  CountSound'
<1>1. \A o \in Op : KindOf[o] = "write" =>
         /\ o \in ToSet(queue') => Written(o)' = 0
         /\ o \in ToSet(results') /\ ok'[o] => Written(o)' = Chunks
         /\ fut'[o] = "completed" => Written(o)' = Chunks
  BY DEF CountSound
<1>2. \A w \in Worker : Busy(w)' /\ KindOf[job'[w]] = "write" =>
         /\ pc'[w] = "test" => Written(job[w])' = 0
         /\ pc'[w] = "io" => Written(job[w])' = Chunks - left'[w]
         /\ pc'[w] = "post" /\ ok'[job'[w]] => Written(job[w])' = Chunks
  BY DEF CountSound
<1> QED BY <1>1, <1>2 DEF CountSound

\* The steps that leave every write as it is.
LEMMA QuietCount ==
  ASSUME JobInv, CountSound
  PROVE  /\ \A o \in Op : Open(o) \/ Cancel(o) => CountSound'
         /\ Turn \/ UNCHANGED vars => CountSound'
         /\ \A w \in Worker : Sleep(w) \/ Wake(w) \/ OpenFile(w) \/ CloseFd(w) \/ Unset(w) => CountSound'
<1> DEFINE Same == \A p \in Op : Written(p)' = Written(p)
<1>1. UNCHANGED <<io, target>> => Same
  BY DEF Written, Places
<1>2. \A v \in Worker : Busy(v) => job[v] \in Op
  BY DEF JobInv, Placed
<1>3. ASSUME NEW o \in Op, Open(o) PROVE CountSound'
  <2>1. UNCHANGED <<io, target, results, ok, job, left>> /\ KindOf[o] = "open"
    BY <1>3 DEF Open
  <2>2. /\ ToSet(queue') \subseteq ToSet(queue) \cup {o}
        /\ \A v \in Worker : pc'[v] = pc[v] \/ (pc[v] = "sleep" /\ pc'[v] = "check")
    <3>1. CASE fut' = [fut EXCEPT ![o] = "pending"] /\ Enqueue(o)
      BY <1>3, <3>1, EnqueueFacts DEF Open
    <3>2. CASE fut' = [fut EXCEPT ![o] = "failed"] /\ UNCHANGED <<queue, pc>>
      BY <1>3, <3>2 DEF Open
    <3> QED BY <1>3, <3>1, <3>2 DEF Open
  <2>3. \A p \in Op : fut'[p] = "completed" => fut[p] = "completed"
    BY <1>3 DEF Open, JobInv, TypeOK
  <2>4. \A v \in Worker : Busy(v)' => Busy(v) /\ pc'[v] = pc[v]
    BY <2>2 DEF Busy
  <2> QED BY <1>1, <1>2, <2>1, <2>2, <2>3, <2>4, CountFrame
<1>4. ASSUME NEW o \in Op, Cancel(o) PROVE CountSound'
  <2>1. UNCHANGED <<io, target, queue, results, ok, job, pc, left>>
    BY <1>4 DEF Cancel, workerVars
  <2>2. \A p \in Op : fut'[p] = "completed" => fut[p] = "completed"
    BY <1>4 DEF Cancel, JobInv, TypeOK
  <2>3. \A v \in Worker : Busy(v)' => Busy(v)
    BY <2>1 DEF Busy
  <2> QED BY <1>1, <1>2, <2>1, <2>2, <2>3, CountFrame
<1>5. CASE Turn \/ UNCHANGED vars
  <2>1. UNCHANGED <<io, target, fut, queue, results, ok, job, pc, left>>
    BY <1>5, TurnFacts DEF vars, streamVars, workerVars
  <2>2. \A v \in Worker : Busy(v)' => Busy(v)
    BY <2>1 DEF Busy
  <2> QED BY <1>1, <1>2, <2>1, <2>2, CountFrame
<1>6. ASSUME NEW w \in Worker, Sleep(w) \/ Wake(w) PROVE CountSound'
  <2>1. /\ UNCHANGED <<io, target, fut, queue, results, ok, left>>
        /\ \A v \in Worker : Busy(v)' => Busy(v) /\ job'[v] = job[v] /\ pc'[v] = pc[v]
    BY <1>6, IdleFacts
  <2> QED BY <1>1, <1>2, <2>1, CountFrame
<1>7. ASSUME NEW w \in Worker, OpenFile(w) \/ CloseFd(w) \/ Unset(w) PROVE CountSound'
  <2>1. /\ UNCHANGED <<io, target, fut, queue, results, job, left>>
        /\ \A v \in Worker : Busy(v)' <=> Busy(v)
    BY <1>7, MiddleFacts DEF Middle, OpenFile, CloseFd, Unset
  <2>2. Busy(w) /\ KindOf[job[w]] # "write" /\ job[w] \in Op
    BY <1>2, <1>7 DEF OpenFile, CloseFd, Unset, Busy, JobInv, StepSound
  <2>3. \A v \in Worker : v # w => pc'[v] = pc[v]
    BY <1>7, MiddleFacts DEF Middle, JobInv, TypeOK
  <2>4. \A p \in Op : p # job[w] => ok'[p] = ok[p]
    BY <1>7 DEF OpenFile, CloseFd, Unset, Answer, JobInv, TypeOK
  <2>5. \A p \in Op : KindOf[p] = "write" => ok'[p] = ok[p]
    BY <2>2, <2>4
  <2>6. \A v \in Worker : Busy(v)' /\ KindOf[job'[v]] = "write" => v # w /\ Busy(v) /\ job[v] \in Op /\ pc'[v] = pc[v]
    BY <1>2, <2>1, <2>2, <2>3
  <2> QED BY <1>1, <2>1, <2>5, <2>6, CountFrame
<1> QED BY <1>3, <1>4, <1>5, <1>6, <1>7

\* A worker that finds the stream open has all of its write before it.
LEMMA TestCount ==
  ASSUME JobInv, CountSound, NEW w \in Worker, TestOpen(w)
  PROVE  CountSound'
<1> DEFINE o == job[w]
<1>1. /\ TypeOK /\ pc[w] = "test" /\ Busy(w) /\ o \in Op
      /\ o \notin ToSet(results) /\ fut[o] # "completed"
      /\ \A v \in Worker : Busy(v) /\ job[v] = o => v = w
      /\ \A v \in Worker : Busy(v) => job[v] \in Op
  <2>1. pc[w] = "test" /\ Busy(w)
    BY DEF TestOpen, Busy
  <2>2. o \in Op /\ InFlight(o) /\ o \notin ToSet(results)
    BY <2>1, OwnJob, JobFacts
  <2> QED BY <2>1, <2>2, OwnJob DEF JobInv, Placed
<1>2. /\ UNCHANGED <<fut, target, queue, results, job, io>>
      /\ \A v \in Worker : Busy(v)' <=> Busy(v)
  BY MiddleFacts DEF Middle, TestOpen
<1>3. \A p \in Op : Written(p)' = Written(p)
  BY <1>2 DEF Written, Places
<1>4. /\ \A v \in Worker : v # w => pc'[v] = pc[v] /\ left'[v] = left[v]
      /\ \A p \in Op : p # o => ok'[p] = ok[p]
      /\ \/ pc'[w] = "post" /\ ok'[o] = FALSE
         \/ pc'[w] = "io" /\ (KindOf[o] = "write" => left'[w] = Chunks)
  BY <1>1 DEF TestOpen, Answer, Goto, TypeOK
<1>5. \A p \in Op : KindOf[p] = "write" =>
        /\ p \in ToSet(queue') => Written(p)' = 0
        /\ p \in ToSet(results') /\ ok'[p] => Written(p)' = Chunks
        /\ fut'[p] = "completed" => Written(p)' = Chunks
  BY <1>1, <1>2, <1>3, <1>4 DEF CountSound
<1>6. ASSUME NEW v \in Worker, Busy(v)', KindOf[job'[v]] = "write"
      PROVE  /\ pc'[v] = "test" => Written(job[v])' = 0
             /\ pc'[v] = "io" => Written(job[v])' = Chunks - left'[v]
             /\ pc'[v] = "post" /\ ok'[job'[v]] => Written(job[v])' = Chunks
  <2>1. Busy(v) /\ job'[v] = job[v] /\ Written(job[v])' = Written(job[v])
    BY <1>1, <1>2, <1>3, <1>6
  <2>2. CASE v = w
    <3>1. Written(job[v]) = 0
      BY <1>1, <1>6, <2>1, <2>2 DEF CountSound
    <3> QED BY <1>4, <1>6, <2>1, <2>2, <3>1, ConstantFacts
  <2>3. CASE v # w
    <3>1. ok'[job[v]] = ok[job[v]] /\ pc'[v] = pc[v] /\ left'[v] = left[v]
      BY <1>1, <1>4, <2>1, <2>3
    <3> QED BY <1>6, <2>1, <3>1 DEF CountSound
  <2> QED BY <2>2, <2>3
<1> QED BY <1>2, <1>5, <1>6 DEF CountSound

\* A piece that is written is counted, for the request it belongs to.
LEMMA TransferCount ==
  ASSUME JobInv, OneByOne, FdSound, CountSound, NEW w \in Worker, Transfer(w)
  PROVE  CountSound'
<1> DEFINE o == job[w]
           f == target[o]
<1>1. /\ o \in Op /\ f \in File /\ Busy(w) /\ InFlight(o) /\ pc[w] = "io"
      /\ o \notin ToSet(queue) /\ o \notin ToSet(results) /\ fut[o] # "completed"
      /\ \A v \in Worker : Busy(v) /\ job[v] = o => v = w
      /\ \A v \in Worker : Busy(v) => job[v] \in Op /\ fut[job[v]] # "unborn"
      /\ \A p \in Op : p \in ToSet(queue) \/ p \in ToSet(results) => fut[p] # "unborn"
  <2>1. o \in Op /\ f \in File /\ Busy(w) /\ InFlight(o) /\ pc[w] = "io"
    BY TransferFacts DEF Transfer
  <2>2. \A v \in Worker : Busy(v) => job[v] \in Op /\ InFlight(job[v])
    BY JobFacts
  <2> QED BY <2>1, <2>2, OwnJob DEF JobInv, Placed, InFlight
<1>2. /\ UNCHANGED <<fut, target, queue, results, job>>
      /\ \A v \in Worker : Busy(v)' <=> Busy(v)
  BY MiddleFacts DEF Middle
<1>3. \A p \in Op : KindOf[p] = "write" /\ fut[p] # "unborn" => target[p] \in File
  BY DEF JobInv, TypeOK, StepSound, File
<1>4. io \in [File -> Seq(Op)] /\ left[w] \in 0 .. Chunks /\ TypeOK
  BY DEF JobInv, TypeOK
<1>5. CASE io' = io /\ left' = left /\ ok' = [ok EXCEPT ![o] = FALSE] /\ pc' = [pc EXCEPT ![w] = "post"]
  <2>1. \A p \in Op : Written(p)' = Written(p)
    BY <1>2, <1>5 DEF Written, Places
  <2>2. /\ \A v \in Worker : pc'[v] = IF v = w THEN "post" ELSE pc[v]
        /\ \A p \in Op : p # o => ok'[p] = ok[p]
        /\ ok'[o] = FALSE
    BY <1>1, <1>4, <1>5 DEF TypeOK
  <2>3. \A p \in Op : KindOf[p] = "write" =>
          /\ p \in ToSet(queue') => Written(p)' = 0
          /\ p \in ToSet(results') /\ ok'[p] => Written(p)' = Chunks
          /\ fut'[p] = "completed" => Written(p)' = Chunks
    BY <1>1, <1>2, <2>1, <2>2 DEF CountSound
  <2>4. ASSUME NEW v \in Worker, Busy(v)', KindOf[job'[v]] = "write"
        PROVE  /\ pc'[v] = "test" => Written(job[v])' = 0
               /\ pc'[v] = "io" => Written(job[v])' = Chunks - left'[v]
               /\ pc'[v] = "post" /\ ok'[job'[v]] => Written(job[v])' = Chunks
    <3>1. Busy(v) /\ job'[v] = job[v] /\ Written(job[v])' = Written(job[v])
      BY <1>1, <1>2, <2>1, <2>4
    <3>2. v # w => ok'[job[v]] = ok[job[v]] /\ pc'[v] = pc[v] /\ left'[v] = left[v]
      BY <1>1, <1>5, <2>2, <3>1
    <3> QED BY <1>1, <2>2, <2>4, <3>1, <3>2 DEF CountSound
  <2> QED BY <1>2, <2>3, <2>4 DEF CountSound
<1>6. ASSUME NEW n \in 1 .. left[w],
             io' = [io EXCEPT ![f] = @ \o [i \in 1 .. n |-> o]],
             left' = [left EXCEPT ![w] = @ - n],
             \/ n = left[w] /\ ok' = [ok EXCEPT ![o] = TRUE] /\ pc' = [pc EXCEPT ![w] = "post"]
             \/ n # left[w] /\ ok' = ok /\ pc' = pc
      PROVE  CountSound'
  <2>1. n \in Nat /\ left[w] \in Nat /\ left'[w] = left[w] - n /\ \A v \in Worker : v # w => left'[v] = left[v]
    BY <1>4, <1>6 DEF TypeOK
  <2>2. /\ io'[f] = io[f] \o [i \in 1 .. n |-> o]
        /\ \A g \in File : g # f => io'[g] = io[g]
        /\ io[f] \in Seq(Op)
    BY <1>1, <1>4, <1>6
  <2>3. /\ \A v \in Worker : v # w => pc'[v] = pc[v]
        /\ \A p \in Op : p # o => ok'[p] = ok[p]
        /\ \/ n = left[w] /\ pc'[w] = "post"
           \/ n # left[w] /\ pc'[w] = "io"
    BY <1>1, <1>4, <1>6 DEF TypeOK
  <2>4. o = job[w] /\ f = target[o] /\ (KindOf[o] = "write" => Written(o) = Chunks - left[w])
    BY <1>1 DEF CountSound
  <2> HIDE DEF o, f
  <2>5. ASSUME NEW p \in Op, target[p] \in File
        PROVE  Written(p)' = Written(p) + (IF p = o THEN n ELSE 0) /\ Written(p) \in Nat
    <3>1. /\ Written(p)' = Cardinality(Places(io'[target[p]], p))
          /\ Written(p) = Cardinality(Places(io[target[p]], p))
      BY <1>2 DEF Written
    <3>2. CASE target[p] = f
      <4> DEFINE t == io[f] \o [i \in 1 .. n |-> o]
      <4>1. /\ Cardinality(Places(io[f], p)) \in Nat
            /\ Cardinality(Places(t, p))
                 = Cardinality(Places(io[f], p)) + (IF o = p THEN n ELSE 0)
        <5>1. io[f] \in Seq(Op) /\ o \in Op /\ n \in Nat
          BY <1>1, <2>1, <2>2
        <5> QED BY <5>1, RunCount
      <4>2. io'[f] = t
        BY <2>2
      <4> HIDE DEF t
      <4> QED BY <3>1, <3>2, <4>1, <4>2
    <3>3. CASE target[p] # f
      <4>1. p # o
        BY <2>4, <3>3
      <4>2. Written(p)' = Written(p)
        BY <2>2, <2>5, <3>1, <3>3
      <4>3. Cardinality(Places(io[target[p]], p)) \in Nat
        <5>1. io[target[p]] \in Seq(Op)
          BY <1>4, <2>5
        <5> QED BY <5>1, <2>1, <1>1, RunCount
      <4> QED BY <3>1, <4>1, <4>2, <4>3
    <3> QED BY <3>2, <3>3
  <2>6. \A p \in Op : p # o /\ target[p] \in File => Written(p)' = Written(p)
    BY <2>5
  <2>7. \A p \in Op : KindOf[p] = "write" =>
          /\ p \in ToSet(queue') => Written(p)' = 0
          /\ p \in ToSet(results') /\ ok'[p] => Written(p)' = Chunks
          /\ fut'[p] = "completed" => Written(p)' = Chunks
    BY <1>1, <1>2, <1>3, <2>3, <2>6 DEF CountSound
  <2>8. ASSUME NEW v \in Worker, Busy(v)', KindOf[job'[v]] = "write"
        PROVE  /\ pc'[v] = "test" => Written(job[v])' = 0
               /\ pc'[v] = "io" => Written(job[v])' = Chunks - left'[v]
               /\ pc'[v] = "post" /\ ok'[job'[v]] => Written(job[v])' = Chunks
    <3>1. Busy(v) /\ job'[v] = job[v] /\ job[v] \in Op /\ target[job[v]] \in File
      BY <1>1, <1>2, <1>3, <2>8
    <3>2. CASE v = w
      <4>1. Written(job[v])' = (Chunks - left[w]) + n
        BY <1>2, <2>4, <2>5, <2>8, <3>1, <3>2, ConstantFacts
      <4> QED BY <2>1, <2>3, <3>2, <4>1, ConstantFacts
    <3>3. CASE v # w
      <4>1. job[v] # o
        BY <1>1, <3>1, <3>3
      <4>2. Written(job[v])' = Written(job[v])
        BY <1>2, <2>6, <3>1, <4>1
      <4> QED BY <2>1, <2>3, <2>8, <3>1, <3>3, <4>1, <4>2 DEF CountSound
    <3> QED BY <3>2, <3>3
  <2> QED BY <1>2, <2>7, <2>8 DEF CountSound
<1> QED BY <1>5, <1>6, TransferFacts

LEMMA NextCount ==
  ASSUME JobInv, OneByOne, FdSound, OwnFile, CountSound, [Next]_vars
  PROVE  CountSound'
<1>1. /\ \A v \in Worker : Busy(v) => job[v] \in Op
      /\ TypeOK
      /\ \A p \in Op : InFlight(p) => fut[p] # "completed" /\ fut[p] # "unborn"
  BY DEF JobInv, Placed
<1>2. ASSUME NEW o \in Op, NEW f \in File, Request(o, f) PROVE CountSound'
  <2>1. /\ ~InFlight(o) /\ target'[o] = f /\ target[o] = None
        /\ \A p \in Op : p # o => target'[p] = target[p]
        /\ \A p \in Op : fut'[p] = IF p = o THEN "pending" ELSE fut[p]
        /\ ToSet(queue') = ToSet(queue) \cup {o}
        /\ \A w \in Worker : pc'[w] = pc[w] \/ (pc[w] = "sleep" /\ pc'[w] = "check")
        /\ \A w \in Worker : Busy(w)' <=> Busy(w)
        /\ UNCHANGED <<results, ok, job, left, io>>
    BY <1>2, RequestFacts
  <2>2. \A p \in Op : p # o => Written(p)' = Written(p)
    BY <2>1 DEF Written, Places
  <2>3. Written(o)' = 0
    <3>1. {i \in DOMAIN io[f] : io[f][i] = o} = {}
      BY <2>1, ConstantFacts DEF OwnFile
    <3>2. Written(o)' = Cardinality({i \in DOMAIN io[f] : io[f][i] = o})
      BY <2>1 DEF Written, Places
    <3> QED BY <3>1, <3>2, FS_EmptySet
  <2>4. o \notin ToSet(results) /\ \A v \in Worker : Busy(v) => job[v] # o
    BY <2>1 DEF InFlight, Busy
  <2>5. \A p \in Op : KindOf[p] = "write" =>
          /\ p \in ToSet(queue') => Written(p)' = 0
          /\ p \in ToSet(results') /\ ok'[p] => Written(p)' = Chunks
          /\ fut'[p] = "completed" => Written(p)' = Chunks
    BY <2>1, <2>2, <2>3, <2>4 DEF CountSound
  <2>6. \A v \in Worker : Busy(v)' /\ KindOf[job'[v]] = "write" =>
          /\ pc'[v] = "test" => Written(job[v])' = 0
          /\ pc'[v] = "io" => Written(job[v])' = Chunks - left'[v]
          /\ pc'[v] = "post" /\ ok'[job'[v]] => Written(job[v])' = Chunks
    <3>1. \A v \in Worker : Busy(v)' => Busy(v) /\ pc'[v] = pc[v]
      BY <2>1 DEF Busy
    <3>2. \A v \in Worker : Busy(v) => Written(job[v])' = Written(job[v])
      BY <1>1, <2>1, <2>2, <2>4
    <3> QED BY <2>1, <3>1, <3>2 DEF CountSound
  <2> QED BY <2>1, <2>5, <2>6 DEF CountSound
<1>3. CASE PollOne
  <2> DEFINE o == Head(results)
  <2>1. /\ o \in Op /\ o \in ToSet(results) /\ ToSet(results') = ToSet(results) \ {o}
        /\ \A w \in Worker : Busy(w)' <=> Busy(w)
        /\ UNCHANGED <<io, target, queue, ok, job, pc, left>>
    BY <1>3, PollFacts DEF PollOne, workerVars
  <2>2. \A p \in Op : fut'[p] = "completed" => fut[p] = "completed" \/ (p = o /\ ok[o])
    <3>1. fut' \in {fut, [fut EXCEPT ![o] = IF ok[o] THEN "completed" ELSE "failed"]}
      BY <1>3 DEF PollOne
    <3> HIDE DEF o
    <3> QED BY <3>1, <2>1, <1>1 DEF TypeOK
  <2>3. \A p \in Op : Written(p)' = Written(p)
    BY <2>1 DEF Written, Places
  <2> HIDE DEF o
  <2>4. \A p \in Op : KindOf[p] = "write" =>
          /\ p \in ToSet(queue') => Written(p)' = 0
          /\ p \in ToSet(results') /\ ok'[p] => Written(p)' = Chunks
          /\ fut'[p] = "completed" => Written(p)' = Chunks
    BY <2>1, <2>2, <2>3 DEF CountSound
  <2>5. \A v \in Worker : Busy(v)' /\ KindOf[job'[v]] = "write" =>
          /\ pc'[v] = "test" => Written(job[v])' = 0
          /\ pc'[v] = "io" => Written(job[v])' = Chunks - left'[v]
          /\ pc'[v] = "post" /\ ok'[job'[v]] => Written(job[v])' = Chunks
    <3>1. \A v \in Worker : Busy(v) => Written(job[v])' = Written(job[v])
      BY <1>1, <2>1, <2>3
    <3> QED BY <2>1, <3>1 DEF CountSound
  <2> QED BY <2>1, <2>4, <2>5 DEF CountSound
<1>4. ASSUME NEW w \in Worker, Take(w) PROVE CountSound'
  <2> DEFINE o == Head(queue)
  <2>1. /\ o \in Op /\ o \in ToSet(queue) /\ ToSet(queue') \subseteq ToSet(queue)
        /\ \A v \in Worker : Busy(v)' <=> Busy(v) \/ v = w
        /\ UNCHANGED <<io, target, results, ok, left, fut>>
        /\ \A v \in Worker : /\ pc'[v] = IF v = w THEN "test" ELSE pc[v]
                             /\ job'[v] = IF v = w THEN o ELSE job[v]
    BY <1>1, <1>4, TakeFacts DEF Take, TypeOK, streamVars
  <2>2. \A p \in Op : Written(p)' = Written(p)
    BY <2>1 DEF Written, Places
  <2> HIDE DEF o
  <2>3. \A p \in Op : KindOf[p] = "write" =>
          /\ p \in ToSet(queue') => Written(p)' = 0
          /\ p \in ToSet(results') /\ ok'[p] => Written(p)' = Chunks
          /\ fut'[p] = "completed" => Written(p)' = Chunks
    BY <2>1, <2>2 DEF CountSound
  <2>4. ASSUME NEW v \in Worker, Busy(v)', KindOf[job'[v]] = "write"
        PROVE  /\ pc'[v] = "test" => Written(job[v])' = 0
               /\ pc'[v] = "io" => Written(job[v])' = Chunks - left'[v]
               /\ pc'[v] = "post" /\ ok'[job'[v]] => Written(job[v])' = Chunks
    <3>1. CASE v = w
      <4>1. job'[v] = o /\ Written(job[v])' = Written(o) /\ pc'[v] = "test"
        BY <2>1, <2>2, <3>1
      <4> QED BY <4>1, <2>1, <2>4 DEF CountSound
    <3>2. CASE v # w
      <4>1. Busy(v) /\ job[v] \in Op
        BY <1>1, <2>1, <2>4, <3>2
      <4>2. Written(job[v])' = Written(job[v])
        BY <2>1, <2>2, <4>1, <3>2
      <4> QED BY <4>1, <4>2, <2>1, <2>4, <3>2 DEF CountSound
    <3> QED BY <3>1, <3>2
  <2> QED BY <2>1, <2>3, <2>4 DEF CountSound
<1>5. ASSUME NEW w \in Worker, Post(w) PROVE CountSound'
  <2>1. /\ UNCHANGED <<io, target, fut, queue, ok, job, left>>
        /\ ToSet(results') = ToSet(results) \cup {job[w]}
        /\ pc[w] = "post" /\ Busy(w)
        /\ \A v \in Worker : Busy(v)' => Busy(v) /\ pc'[v] = pc[v]
    BY <1>1, <1>5, PostFacts DEF TypeOK, Post
  <2>2. \A p \in Op : Written(p)' = Written(p)
    BY <2>1 DEF Written, Places
  <2>3. \A p \in Op : KindOf[p] = "write" =>
          /\ p \in ToSet(queue') => Written(p)' = 0
          /\ p \in ToSet(results') /\ ok'[p] => Written(p)' = Chunks
          /\ fut'[p] = "completed" => Written(p)' = Chunks
    BY <2>1, <2>2 DEF CountSound
  <2>4. \A v \in Worker : Busy(v)' /\ KindOf[job'[v]] = "write" =>
          /\ pc'[v] = "test" => Written(job[v])' = 0
          /\ pc'[v] = "io" => Written(job[v])' = Chunks - left'[v]
          /\ pc'[v] = "post" /\ ok'[job'[v]] => Written(job[v])' = Chunks
    <3>1. \A v \in Worker : Busy(v) => Written(job[v])' = Written(job[v])
      BY <1>1, <2>1, <2>2
    <3> QED BY <2>1, <3>1 DEF CountSound
  <2> QED BY <2>1, <2>3, <2>4 DEF CountSound
<1>6. ASSUME NEW w \in Worker, TestOpen(w) PROVE CountSound'
  BY <1>6, TestCount
<1>7. ASSUME NEW w \in Worker, Transfer(w) PROVE CountSound'
  BY <1>7, TransferCount
<1> QED BY <1>2, <1>3, <1>4, <1>5, <1>6, <1>7, QuietCount DEF Next, LoopThread, Turn, Work

-----------------------------------------------------------------------------
(* The theorems.                                                           *)

StreamInv == OneByOne /\ DescInv /\ OwnFile /\ RankSound /\ InOrder /\ CountSound

LEMMA InitStream == Init => StreamInv
<1> SUFFICES ASSUME Init PROVE StreamInv
  OBVIOUS
<1>1. OwnFile /\ InOrder
  BY EmptyFacts DEF Init, OwnFile, InOrder
<1>2. RankSound
  <2>1. \A f \in File : On(f) = {}
    BY ConstantFacts DEF Init, On
  <2>2. \A o \in Op : target[o] = None
    BY DEF Init
  <2> QED BY <2>1, <2>2 DEF RankSound
<1>3. CountSound
  BY EmptyFacts DEF Init, CountSound, Busy
<1> QED BY <1>1, <1>2, <1>3, InitOne, InitDesc DEF StreamInv

LEMMA NextStream ==
  ASSUME Disciplined
  PROVE  JobInv /\ StreamInv /\ [Next]_vars => StreamInv'
<1> SUFFICES ASSUME JobInv, StreamInv, [Next]_vars PROVE StreamInv'
  OBVIOUS
<1>1. OneByOne'
  BY NextOne DEF StreamInv
<1>2. DescInv'
  BY NextDesc DEF StreamInv
<1>3. OwnFile' /\ InOrder' /\ CountSound'
  BY NextOwn, NextOrder, NextCount DEF StreamInv, DescInv
<1>4. RankSound'
  BY <1>1, NextRank DEF StreamInv
<1> QED BY <1>1, <1>2, <1>3, <1>4 DEF StreamInv

\* Every state of the model is well typed, whatever the program asks for.
THEOREM StreamTypes == Spec => []TypeOK
<1>1. JobInv => TypeOK
  BY DEF JobInv
<1> QED BY <1>1, InitJob, NextJob, PTL DEF Spec

\* Whatever the program asks for and whenever it asks, a request it waits for
\* is in the job list, with one worker or in the result list, and never do all
\* the workers sleep while the job list holds one: enqueue_job signals under
\* the lock under which file_worker_main tests the list.
THEOREM JobsKept == Spec => []JobsReachWorkers
<1>1. JobInv => JobsReachWorkers
  BY DEF JobInv, JobsReachWorkers
<1> QED BY <1>1, InitJob, NextJob, PTL DEF Spec

\* A program that awaits each request on a stream before the next, and cancels
\* only opens: a transfer reaches the file of its stream, though the descriptors
\* are used again, and every open file has its stream or an open on its way.
THEOREM DescriptorsKept ==
  ASSUME Disciplined
  PROVE  Spec => []DescriptorsOwned
<1>1. StreamInv => DescriptorsOwned
  BY DEF StreamInv, DescInv, DescriptorsOwned
<1> QED BY <1>1, InitJob, NextJob, InitStream, NextStream, PTL DEF Spec

\* For such a program the transfers on a file happen in the order of the
\* requests, and a write that succeeded has written each of its pieces once,
\* however write(2) divides it.
THEOREM FilesKept ==
  ASSUME Disciplined
  PROVE  Spec => []FilesIntact
<1>1. StreamInv => FilesIntact
  BY DEF StreamInv, CountSound, Written, Places, FilesIntact, WriteWhole
<1> QED BY <1>1, InitJob, NextJob, InitStream, NextStream, PTL DEF Spec
=============================================================================
