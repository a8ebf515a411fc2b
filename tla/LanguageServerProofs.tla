------------------------- MODULE LanguageServerProofs -------------------------
(***************************************************************************)
(* Proofs about the language server, for any files, imports and limit and  *)
(* any number of documents: what the cache holds of a file and of the      *)
(* files it imports is their present text, so is the index, and the cache  *)
(* keeps to its limit.                                                     *)
(***************************************************************************)
EXTENDS LanguageServer, FiniteSetTheorems, SequenceTheorems, WellFoundedInduction, TLAPS

-----------------------------------------------------------------------------
(* Lists.                                                                  *)

\* The empty sequence.
LEMMA EmptyFacts ==
  /\ \A S : <<>> \in Seq(S)
  /\ ToSet(<<>>) = {}
  /\ IsInjective(<<>>)
BY DEF ToSet, IsInjective

\* A sequence and what is put behind it.
LEMMA AppendFacts ==
  ASSUME NEW S, NEW q \in Seq(S), NEW x \in S
  PROVE  /\ Append(q, x) \in Seq(S) /\ Len(Append(q, x)) = Len(q) + 1
         /\ ToSet(Append(q, x)) = ToSet(q) \cup {x}
<1>1. /\ Append(q, x) \in Seq(S) /\ Len(Append(q, x)) = Len(q) + 1
      /\ Len(q) \in Nat /\ DOMAIN q = 1 .. Len(q) /\ DOMAIN Append(q, x) = 1 .. Len(q) + 1
      /\ \A k \in 1 .. Len(q) : Append(q, x)[k] = q[k]
      /\ Append(q, x)[Len(q) + 1] = x
  OBVIOUS
<1>2. ToSet(q) \cup {x} \subseteq ToSet(Append(q, x))
  BY <1>1 DEF ToSet
<1>3. ToSet(Append(q, x)) \subseteq ToSet(q) \cup {x}
  <2> SUFFICES ASSUME NEW k \in 1 .. Len(q) + 1 PROVE Append(q, x)[k] \in ToSet(q) \cup {x}
    BY <1>1 DEF ToSet
  <2>1. k \in 1 .. Len(q) \/ k = Len(q) + 1
    BY <1>1
  <2> QED BY <1>1, <2>1 DEF ToSet
<1> QED BY <1>1, <1>2, <1>3

\* A set of positions that is not empty has a first one.
LEMMA FirstFacts ==
  ASSUME NEW T, T \subseteq Nat, T # {}
  PROVE  \E i \in T : \A j \in T : ~ (j < i)
<1>1. PICK i \in T : \A j \in T : ~ (<<j, i>> \in OpToRel(<, Nat))
  BY NatLessThanWellFounded, WFMin
<1> QED BY <1>1 DEF OpToRel

LEMMA TailFacts ==
  ASSUME NEW S, NEW q \in Seq(S), q # <<>>
  PROVE  Tail(q) \in Seq(S) /\ Head(q) \in S
OBVIOUS

-----------------------------------------------------------------------------
(* The inductive invariant.                                                *)

Typed ==
  /\ DOMAIN disk = File /\ DOMAIN doc \subseteq File
  /\ run \in [phase : Phases \cup {"idle", "failed"}, warm : Seq(File)]
  /\ hung \in BOOLEAN

CacheTyped ==
  /\ DOMAIN cache \subseteq File
  /\ touched \in Seq(File)
  /\ importers \in [File -> SUBSET File]

\* The graph that invalidates the cache has every import of a cached file.
Linked == \A f \in DOMAIN cache : \A i \in Imports(f, cache[f][f]) : f \in importers[i]

\* It is the order of touches that is kept to the limit, and the cache in it; the
\* file whose touch does not end is one too many.
InOrderOfTouch ==
  /\ IF hung THEN Len(touched) <= Limit + 1 ELSE Len(touched) <= Limit
  /\ DOMAIN cache \subseteq ToSet(touched)

CacheInv == CacheTyped /\ (hung \/ Linked) /\ InOrderOfTouch /\ CacheFresh

IndexInv == (index # None => DOMAIN index = File) /\ IndexFresh

ServerInv == Typed /\ CacheInv /\ IndexInv

-----------------------------------------------------------------------------
(* What a file reaches.                                                    *)

LEMMA ImportsFiles == ASSUME NEW f \in File, NEW t PROVE Imports(f, t) \subseteq File
BY LinkAssumption DEF Imports

LEMMA ModulesFacts ==
  ASSUME NEW f \in File
  PROVE  f \in Modules(f) /\ \A k \in Modules(f) : Imports(k, Now(k)) \subseteq Modules(f)
<1>1. f \in Modules(f)
  BY DEF Modules
<1>2. ASSUME NEW k \in Modules(f), NEW j \in Imports(k, Now(k)) PROVE j \in Modules(f)
  <2>1. k \in File /\ j \in File
    BY <1>2, ImportsFiles DEF Modules
  <2>2. ASSUME NEW S \in SUBSET File, f \in S, \A m \in S : Imports(m, Now(m)) \subseteq S
        PROVE  j \in S
    BY <1>2, <2>2 DEF Modules
  <2> QED BY <2>1, <2>2 DEF Modules
<1> QED BY <1>1, <1>2

-----------------------------------------------------------------------------
(* The order of touches.                                                   *)

\* One entry taken out, whichever of the two pieces comes first.
LEMMA DropFacts ==
  ASSUME NEW S, NEW q \in Seq(S), NEW i \in 1 .. Len(q)
  PROVE  LET a == SubSeq(q, 1, i - 1)  b == SubSeq(q, i + 1, Len(q)) IN
         /\ a \o b \in Seq(S) /\ Len(a \o b) = Len(q) - 1
         /\ b \o a \in Seq(S) /\ Len(b \o a) = Len(q) - 1
         /\ ToSet(q) \subseteq ToSet(a \o b) \cup {q[i]}
         /\ ToSet(q) \subseteq ToSet(b \o a) \cup {q[i]}
<1> DEFINE n == Len(q)  a == SubSeq(q, 1, i - 1)  b == SubSeq(q, i + 1, n)
<1>1. n \in Nat /\ i \in 1 .. n /\ \A k \in 1 .. n : q[k] \in S
  OBVIOUS
<1>2. a \in Seq(S) /\ Len(a) = i - 1 /\ \A k \in 1 .. i - 1 : a[k] = q[k]
  BY <1>1, SubSeqProperties
<1>3. b \in Seq(S) /\ Len(b) = n - i /\ \A k \in 1 .. n - i : b[k] = q[i + k]
  <2>1. b \in Seq(S) /\ Len(b) = (IF i + 1 <= n THEN n - (i + 1) + 1 ELSE 0)
        /\ \A k \in 1 .. n - (i + 1) + 1 : b[k] = q[i + 1 + k - 1]
    BY <1>1, SubSeqProperties
  <2> HIDE DEF b, n
  <2> QED BY <1>1, <2>1
<1> HIDE DEF a, b, n
<1>4. /\ a \o b \in Seq(S) /\ Len(a \o b) = Len(a) + Len(b)
      /\ b \o a \in Seq(S) /\ Len(b \o a) = Len(a) + Len(b)
      /\ \A k \in 1 .. Len(a) + Len(b) : (a \o b)[k] = IF k <= Len(a) THEN a[k] ELSE b[k - Len(a)]
      /\ \A k \in 1 .. Len(a) + Len(b) : (b \o a)[k] = IF k <= Len(b) THEN b[k] ELSE a[k - Len(b)]
  BY <1>2, <1>3, ConcatProperties
<1>5. /\ Len(a) + Len(b) = n - 1
      /\ DOMAIN (a \o b) = 1 .. n - 1 /\ DOMAIN (b \o a) = 1 .. n - 1
  <2>1. Len(a) + Len(b) = n - 1
    BY <1>1, <1>2, <1>3
  <2> QED BY <1>4, <2>1
<1>7. ASSUME NEW k \in 1 .. n, k # i
      PROVE  q[k] \in ToSet(a \o b) /\ q[k] \in ToSet(b \o a)
  <2>1. CASE k < i
    <3>1. k \in 1 .. n - 1 /\ k <= Len(a) /\ k \in 1 .. i - 1
      BY <1>1, <1>2, <2>1
    <3>2. (a \o b)[k] = q[k]
      BY <1>2, <1>4, <1>5, <3>1
    <3> DEFINE m == n - i + k
    <3>3. m \in 1 .. n - 1 /\ ~ (m <= Len(b)) /\ m - Len(b) = k
      BY <1>1, <1>3, <2>1
    <3> HIDE DEF m
    <3>4. (b \o a)[m] = q[k]
      <4>1. (b \o a)[m] = a[m - Len(b)]
        BY <1>4, <1>5, <3>3
      <4> QED BY <1>2, <3>1, <3>3, <4>1
    <3> QED BY <1>5, <3>1, <3>2, <3>3, <3>4 DEF ToSet
  <2>2. CASE k > i
    <3>1. k - i \in 1 .. n - i /\ i + (k - i) = k /\ k - i <= Len(b) /\ k - i \in 1 .. n - 1
      BY <1>1, <1>3, <2>2
    <3>2. (b \o a)[k - i] = q[k]
      BY <1>3, <1>4, <1>5, <3>1
    <3>3. k - 1 \in 1 .. n - 1 /\ ~ (k - 1 <= Len(a)) /\ k - 1 - Len(a) = k - i
      BY <1>1, <1>2, <2>2
    <3>4. (a \o b)[k - 1] = q[k]
      BY <1>3, <1>4, <1>5, <3>1, <3>3
    <3> QED BY <1>5, <3>1, <3>2, <3>3, <3>4 DEF ToSet
  <2> QED BY <1>1, <1>7, <2>1, <2>2
<1>8. ToSet(q) = {q[k] : k \in 1 .. n}
  BY DEF ToSet, n
<1> QED BY <1>4, <1>5, <1>7, <1>8 DEF a, b, n

LEMMA OrderFacts ==
  ASSUME touched \in Seq(File), NEW f \in File
  PROVE  /\ Order(f) \in Seq(File) /\ Len(Order(f)) <= Len(touched) + 1
         /\ ToSet(touched) \cup {f} \subseteq ToSet(Order(f))
<1>1. CASE f \in ToSet(touched)
  <2> DEFINE i == CHOOSE k \in DOMAIN touched : touched[k] = f
             rest == RemoveAt(touched, i)
  <2>1. i \in DOMAIN touched /\ touched[i] = f
    BY <1>1 DEF ToSet
  <2>2. i \in 1 .. Len(touched) /\ Len(touched) \in Nat
    BY <2>1
  <2> HIDE DEF i
  <2>3. rest \in Seq(File) /\ Len(rest) = Len(touched) - 1
        /\ ToSet(touched) \subseteq ToSet(rest) \cup {touched[i]}
    BY <2>2, DropFacts DEF RemoveAt
  <2> HIDE DEF rest
  <2>4. Order(f) = Append(rest, f)
    BY <1>1 DEF Order, rest, i
  <2> QED BY <2>1, <2>2, <2>3, <2>4, AppendFacts
<1>2. CASE f \notin ToSet(touched)
  <2>1. Order(f) = Append(touched, f)
    BY <1>2 DEF Order
  <2> QED BY <2>1, AppendFacts
<1> QED BY <1>1, <1>2

LEMMA TouchFacts ==
  ASSUME CacheTyped, InOrderOfTouch, ~hung, NEW f \in File, ~Stuck(f)
  PROVE  /\ Touch(f).order \in Seq(File) /\ Len(Touch(f).order) <= Limit
         /\ (ToSet(touched) \cup {f}) \ Touch(f).out \subseteq ToSet(Touch(f).order)
<1> DEFINE q == Order(f)
           at == CHOOSE i \in DOMAIN q : q[i] \notin Open /\ \A j \in 1 .. (i - 1) : q[j] \in Open
<1>1. /\ q \in Seq(File) /\ Len(q) \in Nat /\ DOMAIN q = 1 .. Len(q)
      /\ Len(q) <= Limit + 1 /\ Limit \in Nat
      /\ ToSet(touched) \cup {f} \subseteq ToSet(q)
  <2>1. touched \in Seq(File) /\ Len(touched) \in Nat /\ Len(touched) <= Limit /\ Limit \in Nat
    BY LimitAssumption DEF CacheTyped, InOrderOfTouch
  <2>2. q \in Seq(File) /\ Len(q) <= Len(touched) + 1 /\ ToSet(touched) \cup {f} \subseteq ToSet(q)
    BY <2>1, OrderFacts
  <2> HIDE DEF q
  <2>3. Len(q) \in Nat /\ DOMAIN q = 1 .. Len(q)
    BY <2>2
  <2> QED BY <2>1, <2>2, <2>3
<1>2. CASE Len(q) <= Limit
  <2>1. Touch(f) = [order |-> q, out |-> {}]
    BY <1>2 DEF Touch
  <2> QED BY <1>1, <1>2, <2>1
<1>3. CASE Len(q) > Limit
  <2>1. PICK k \in DOMAIN q : q[k] \notin Open
    BY <1>3 DEF Stuck, ToSet
  <2>2. at \in DOMAIN q
    <3> DEFINE T == {i \in DOMAIN q : q[i] \notin Open}
    <3>1. T \subseteq Nat /\ T # {}
      BY <1>1, <2>1
    <3>2. PICK i \in T : \A j \in T : ~ (j < i)
      BY <3>1, FirstFacts
    <3>3. \A j \in 1 .. (i - 1) : q[j] \in Open
      BY <1>1, <3>2
    <3> QED BY <3>2, <3>3
  <2> DEFINE r == SubSeq(q, at + 1, Len(q)) \o SubSeq(q, 1, at - 1)
  <2>3. Touch(f) = [order |-> r, out |-> {q[at]}]
    BY <1>1, <1>3 DEF Touch
  <2> HIDE DEF at, q
  <2>4. at \in 1 .. Len(q)
    BY <1>1, <2>2
  <2>5. r \in Seq(File) /\ Len(r) = Len(q) - 1 /\ ToSet(q) \subseteq ToSet(r) \cup {q[at]}
    BY <1>1, <2>4, DropFacts
  <2> HIDE DEF r
  <2> QED BY <1>1, <2>3, <2>5
<1> HIDE DEF q
<1> QED BY <1>1, <1>2, <1>3

-----------------------------------------------------------------------------
(* The cache of analyses.                                                  *)

\* Nothing of it depends on more than the cache and the texts.
LEMMA CacheSame ==
  ASSUME CacheInv, UNCHANGED <<analysis, hung>>, \A f \in File : Now(f)' = Now(f)
  PROVE  CacheInv'
<1>1. CacheTyped' /\ (hung \/ Linked)' /\ InOrderOfTouch'
  BY DEF CacheInv, CacheTyped, Linked, InOrderOfTouch, analysis, Imports
<1>2. CacheFresh'
  <2> SUFFICES ASSUME NEW f \in DOMAIN cache
               PROVE  /\ cache[f][f] = Now(f)'
                      /\ \A i \in Imports(f, cache[f][f]) : cache[f][i] = Now(i)'
    BY DEF CacheFresh, analysis, Imports
  <2>1. f \in File /\ Imports(f, cache[f][f]) \subseteq File
    BY ImportsFiles DEF CacheInv, CacheTyped
  <2> QED BY <2>1 DEF CacheInv, CacheFresh
<1> QED BY <1>1, <1>2 DEF CacheInv

\* A part of the cache, in an order that still has its files.
LEMMA CacheShrinks ==
  ASSUME CacheInv, ~hung, ~hung', NEW out,
         cache' = Without(cache, out), importers' = importers,
         touched' \in Seq(File), Len(touched') <= Limit,
         ToSet(touched) \ out \subseteq ToSet(touched'),
         \A f \in DOMAIN cache \ out :
            Now(f)' = Now(f) /\ \A i \in Imports(f, cache[f][f]) : Now(i)' = Now(i)
  PROVE  CacheInv'
<1>1. DOMAIN cache' = DOMAIN cache \ out /\ \A f \in DOMAIN cache' : cache'[f] = cache[f]
  BY DEF Without
<1>2. CacheTyped'
  BY <1>1 DEF CacheInv, CacheTyped
<1>3. Linked'
  BY <1>1 DEF CacheInv, Linked, Imports
<1>4. InOrderOfTouch'
  BY <1>1 DEF CacheInv, InOrderOfTouch
<1>5. CacheFresh'
  <2> SUFFICES ASSUME NEW f \in DOMAIN cache'
               PROVE  /\ cache'[f][f] = Now(f)'
                      /\ \A i \in Imports(f, cache'[f][f]) : cache'[f][i] = Now(i)'
    BY DEF CacheFresh, Imports
  <2> QED BY <1>1 DEF CacheInv, CacheFresh
<1> QED BY <1>2, <1>3, <1>4, <1>5 DEF CacheInv

\* What an analysis of f has of f and of the files f imports.
LEMMA AnalyzeFacts ==
  ASSUME NEW f \in File
  PROVE  LET a == Analyze(f) IN
         /\ DOMAIN a = Modules(f) /\ \A m \in Modules(f) : a[m] = Now(m)
         /\ f \in Modules(f) /\ a[f] = Now(f)
         /\ \A i \in Imports(f, a[f]) : i \in File /\ i \in Modules(f) /\ a[i] = Now(i)
<1>1. f \in Modules(f) /\ Imports(f, Now(f)) \subseteq Modules(f)
  BY ModulesFacts
<1> QED BY <1>1, ImportsFiles DEF Analyze

\* The touch of f does not end: nothing is dropped, and f is at the end.
LEMMA HangKeeps ==
  ASSUME CacheInv, ~hung, hung', NEW f \in File, touched' = Order(f),
         cache' = cache \/ cache' = Put(cache, f, Analyze(f)), importers' = importers,
         \A g \in File : Now(g)' = Now(g)
  PROVE  CacheInv'
<1> DEFINE a == Analyze(f)
<1>1. /\ DOMAIN cache' \subseteq DOMAIN cache \cup {f}
      /\ \A g \in DOMAIN cache' : (cache'[g] = a /\ g = f) \/ (g \in DOMAIN cache /\ cache'[g] = cache[g])
  BY DEF Put
<1>2. /\ a[f] = Now(f) /\ \A i \in Imports(f, a[f]) : i \in File /\ a[i] = Now(i)
  BY AnalyzeFacts
<1>3. touched' \in Seq(File) /\ Len(touched') <= Len(touched) + 1
      /\ ToSet(touched) \cup {f} \subseteq ToSet(touched')
  BY OrderFacts DEF CacheInv, CacheTyped
<1> HIDE DEF a
<1>4. CacheTyped'
  BY <1>1, <1>3 DEF CacheInv, CacheTyped
<1>5. InOrderOfTouch'
  <2>1. Len(touched) \in Nat /\ Len(touched') \in Nat /\ Limit \in Nat
    BY <1>3, LimitAssumption DEF CacheInv, CacheTyped
  <2> QED BY <1>1, <1>3, <2>1 DEF CacheInv, InOrderOfTouch
<1>6. CacheFresh'
  <2> SUFFICES ASSUME NEW g \in DOMAIN cache'
               PROVE  /\ cache'[g][g] = Now(g)'
                      /\ \A i \in Imports(g, cache'[g][g]) : cache'[g][i] = Now(i)'
    BY DEF CacheFresh, Imports
  <2>1. g \in File /\ Imports(g, cache'[g][g]) \subseteq File
    BY <1>1, ImportsFiles DEF CacheInv, CacheTyped
  <2>2. CASE cache'[g] = a /\ g = f
    BY <1>2, <2>1, <2>2
  <2>3. CASE g \in DOMAIN cache /\ cache'[g] = cache[g]
    BY <2>1, <2>3 DEF CacheInv, CacheFresh
  <2> QED BY <1>1, <2>2, <2>3
<1> QED BY <1>4, <1>5, <1>6 DEF CacheInv

LEMMA StoreKeeps ==
  ASSUME CacheInv, ~hung, NEW f \in File, Store(f, Analyze(f)), \A g \in File : Now(g)' = Now(g)
  PROVE  CacheInv'
<1>1. CASE Stuck(f)
  BY <1>1, HangKeeps DEF Store
<1>2. CASE ~Stuck(f)
  <2> DEFINE a == Analyze(f)  out == Touch(f).out
  <2>1. /\ cache' = Without(Put(cache, f, a), out)
        /\ touched' = Touch(f).order
        /\ importers' = [i \in File |-> (importers[i] \ {f}) \cup {e[1] : e \in {d \in Edges(a) : d[2] = i}}]
        /\ ~hung'
    BY <1>2 DEF Store
  <2>2. /\ DOMAIN a = Modules(f) /\ \A m \in Modules(f) : a[m] = Now(m)
        /\ f \in Modules(f) /\ a[f] = Now(f)
        /\ \A i \in Imports(f, a[f]) : i \in File /\ i \in Modules(f) /\ a[i] = Now(i)
    BY AnalyzeFacts
  <2>3. /\ DOMAIN cache' = (DOMAIN cache \cup {f}) \ out
        /\ \A g \in DOMAIN cache' : cache'[g] = IF g = f THEN a ELSE cache[g]
    BY <2>1 DEF Without, Put
  <2> HIDE DEF a, out
  <2>4. CacheTyped'
    <3>1. touched' \in Seq(File) /\ DOMAIN cache' \subseteq File
      BY <1>2, <2>1, <2>3, TouchFacts DEF CacheInv, CacheTyped
    <3>2. \A i \in File : (importers[i] \ {f}) \cup {e[1] : e \in {d \in Edges(a) : d[2] = i}} \in SUBSET File
      BY DEF CacheInv, CacheTyped, Edges
    <3> QED BY <2>1, <3>1, <3>2 DEF CacheTyped
  <2>5. Linked'
    <3> SUFFICES ASSUME NEW g \in DOMAIN cache', NEW i \in Imports(g, cache'[g][g])
                 PROVE  g \in importers'[i]
      BY DEF Linked, Imports
    <3>1. g \in File /\ i \in File
      BY <2>3, ImportsFiles DEF CacheInv, CacheTyped
    <3>2. CASE g = f
      <4>1. <<f, i>> \in Edges(a)
        BY <2>2, <2>3, <3>1, <3>2 DEF Edges
      <4>2. f \in {e[1] : e \in {d \in Edges(a) : d[2] = i}}
        BY <4>1
      <4> QED BY <2>1, <3>1, <3>2, <4>2
    <3>3. CASE g # f
      BY <2>1, <2>3, <3>1, <3>3 DEF CacheInv, Linked
    <3> QED BY <3>2, <3>3
  <2>6. InOrderOfTouch'
    BY <1>2, <2>1, <2>3, TouchFacts DEF CacheInv, InOrderOfTouch, out
  <2>7. CacheFresh'
    <3> SUFFICES ASSUME NEW g \in DOMAIN cache'
                 PROVE  /\ cache'[g][g] = Now(g)'
                        /\ \A i \in Imports(g, cache'[g][g]) : cache'[g][i] = Now(i)'
      BY DEF CacheFresh, Imports
    <3>1. g \in File /\ Imports(g, cache'[g][g]) \subseteq File
      BY <2>3, ImportsFiles DEF CacheInv, CacheTyped
    <3>2. CASE g = f
      BY <2>2, <2>3, <3>1, <3>2
    <3>3. CASE g # f
      BY <2>3, <3>1, <3>3 DEF CacheInv, CacheFresh
    <3> QED BY <3>2, <3>3
  <2> QED BY <2>4, <2>5, <2>6, <2>7 DEF CacheInv
<1> QED BY <1>1, <1>2

LEMMA EnsureKeeps ==
  ASSUME CacheInv, ~hung, NEW f \in File, EnsureAnalyzed(f), \A g \in File : Now(g)' = Now(g)
  PROVE  CacheInv'
<1>1. CASE Store(f, Analyze(f))
  BY <1>1, StoreKeeps
<1>2. CASE UNCHANGED <<analysis, hung>>
  BY <1>2, CacheSame
<1>3. CASE touched' = Order(f) /\ hung' /\ UNCHANGED <<cache, importers>>
  BY <1>3, HangKeeps
<1>4. CASE /\ ~Stuck(f) /\ cache' = Without(cache, Touch(f).out)
           /\ f \in DOMAIN cache /\ touched' = Touch(f).order /\ UNCHANGED <<importers, hung>>
  <2> DEFINE out == Touch(f).out
  <2>1. cache' = Without(cache, out) /\ importers' = importers /\ ~hung'
    BY <1>4
  <2>2. touched' \in Seq(File) /\ Len(touched') <= Limit /\ ToSet(touched) \ out \subseteq ToSet(touched')
    BY <1>4, TouchFacts DEF CacheInv
  <2>3. \A g \in DOMAIN cache : g \in File /\ Imports(g, cache[g][g]) \subseteq File
    BY ImportsFiles DEF CacheInv, CacheTyped
  <2> HIDE DEF out
  <2> QED BY <2>1, <2>2, <2>3, CacheShrinks
<1> QED BY <1>1, <1>2, <1>3, <1>4 DEF EnsureAnalyzed

\* The edges of the index run only add to the graph.
LEMMA GraphKeeps ==
  ASSUME CacheInv, BuildGraph, \A g \in File : Now(g)' = Now(g)
  PROVE  CacheInv'
<1>1. /\ UNCHANGED <<cache, touched, hung>> /\ ~hung /\ importers' \in [File -> SUBSET File]
      /\ \A i \in File : importers[i] \subseteq importers'[i]
  BY DEF BuildGraph, CacheInv, CacheTyped
<1>2. CacheTyped' /\ InOrderOfTouch'
  BY <1>1 DEF CacheInv, CacheTyped, InOrderOfTouch
<1>3. \A g \in DOMAIN cache : g \in File /\ Imports(g, cache[g][g]) \subseteq File
  BY ImportsFiles DEF CacheInv, CacheTyped
<1>4. Linked'
  BY <1>1, <1>3 DEF CacheInv, Linked, Imports
<1>5. CacheFresh'
  <2> SUFFICES ASSUME NEW f \in DOMAIN cache
               PROVE  /\ cache[f][f] = Now(f)'
                      /\ \A i \in Imports(f, cache[f][f]) : cache[f][i] = Now(i)'
    BY <1>1 DEF CacheFresh, Imports
  <2> QED BY <1>3 DEF CacheInv, CacheFresh
<1> QED BY <1>2, <1>4, <1>5 DEF CacheInv

\* An edit of f drops what was computed from f, at one remove.
LEMMA InvalidateKeeps ==
  ASSUME CacheInv, ~hung, ~hung', NEW f \in File, Invalidate(f), \A g \in File \ {f} : Now(g)' = Now(g)
  PROVE  CacheInv'
<1> DEFINE out == {f} \cup importers[f]
<1>1. cache' = Without(cache, out) /\ importers' = importers /\ touched' = touched
  BY DEF Invalidate
<1>2. touched' \in Seq(File) /\ Len(touched') <= Limit /\ ToSet(touched) \ out \subseteq ToSet(touched')
  BY <1>1 DEF CacheInv, CacheTyped, InOrderOfTouch
<1>3. ASSUME NEW g \in DOMAIN cache \ out
      PROVE  Now(g)' = Now(g) /\ \A i \in Imports(g, cache[g][g]) : Now(i)' = Now(i)
  <2>1. g \in File \ {f} /\ Imports(g, cache[g][g]) \subseteq File
    BY ImportsFiles DEF CacheInv, CacheTyped
  <2>2. f \notin Imports(g, cache[g][g])
    BY DEF CacheInv, Linked
  <2> QED BY <2>1, <2>2
<1> HIDE DEF out
<1> QED BY <1>1, <1>2, <1>3, CacheShrinks

-----------------------------------------------------------------------------
(* Texts and the background run.                                           *)

LEMMA SameTexts ==
  ASSUME UNCHANGED <<disk, doc>>
  PROVE  Open' = Open /\ \A g : Now(g)' = Now(g)
BY DEF Now, Open

\* Opening, changing, closing and saving f leave the other texts as they were;
\* saving leaves f's too, for the document has it.
LEMMA OtherTexts ==
  ASSUME Typed, NEW f \in File, DidOpen(f) \/ DidChange(f) \/ DidClose(f) \/ Save(f)
  PROVE  \A g \in File \ {f} : (g \in Open' <=> g \in Open) /\ Now(g)' = Now(g)
<1>1. CASE DidOpen(f) \/ DidChange(f)
  <2>1. PICK t, v : Received(f, t, v)
    BY <1>1 DEF DidOpen, DidChange
  <2> QED BY <2>1 DEF Received, Put, Now, Open
<1>2. CASE DidClose(f)
  BY <1>2 DEF DidClose, Without, Now, Open
<1>3. CASE Save(f)
  BY <1>3 DEF Save, Typed, Now, Open
<1> QED BY <1>1, <1>2, <1>3

LEMMA SavedText ==
  ASSUME Typed, NEW f \in File, Save(f)
  PROVE  Open' = Open /\ \A g \in File : Now(g)' = Now(g)
<1>1. Open' = Open /\ Now(f)' = Now(f)
  BY DEF Save, Now, Open
<1> QED BY <1>1, OtherTexts

LEMMA NextTyped == Typed /\ CacheTyped /\ [Next]_vars => Typed'
<1> SUFFICES ASSUME Typed, CacheTyped, [Next]_vars PROVE Typed'
  OBVIOUS
<1> USE DEF Typed
<1>0. /\ \A f : Store(f, Analyze(f)) => hung' \in BOOLEAN
      /\ \A f : EnsureAnalyzed(f) => hung' \in BOOLEAN
  BY DEF Store, EnsureAnalyzed, Put
<1>1. ASSUME NEW f \in File, RunAnalyze(f) \/ Request(f) PROVE Typed'
  <2>1. hung' \in BOOLEAN
    BY <1>0, <1>1 DEF RunAnalyze, Request
  <2>2. UNCHANGED <<disk, doc, run>>
    BY <1>1 DEF RunAnalyze, Request, background
  <2> QED BY <2>1, <2>2
<1>2. CASE Reindex
  BY <1>2, EmptyFacts DEF Reindex, Resting, Phases
<1>3. CASE BuildGraph \/ RunFails
  <2>1. UNCHANGED <<disk, doc, hung>>
    BY <1>3 DEF BuildGraph, RunFails
  <2>2. run' = [phase |-> "index", warm |-> <<>>] \/ run' = [phase |-> "failed", warm |-> <<>>]
    BY <1>3 DEF BuildGraph, RunFails, Resting
  <2>3. run' \in [phase : Phases \cup {"idle", "failed"}, warm : Seq(File)]
    <3>1. <<>> \in Seq(File) /\ {"index", "failed"} \subseteq Phases \cup {"idle", "failed"}
      BY EmptyFacts DEF Phases
    <3>2. CASE run' = [phase |-> "index", warm |-> <<>>]
      BY <3>1, <3>2
    <3>3. CASE run' = [phase |-> "failed", warm |-> <<>>]
      BY <3>1, <3>3
    <3> QED BY <2>2, <3>2, <3>3
  <2> QED BY <2>1, <2>3
<1>4. CASE BuildIndex
  <2>1. SetToSeq(Open) \in Seq(File)
    <3> DEFINE n == Cardinality(Open)
    <3>1. IsFiniteSet(Open) /\ Open \subseteq File
      BY LinkAssumption, FS_Subset DEF Open
    <3>2. n \in Nat /\ ExistsBijection(1 .. n, Open)
      BY <3>1, FS_CardinalityType
    <3> HIDE DEF n
    <3>3. \E g \in [1 .. n -> Open] : IsInjective(g)
      BY <3>2 DEF ExistsBijection, Bijection, Injection, IsInjective
    <3>4. SetToSeq(Open) \in [1 .. n -> Open]
      BY <3>3 DEF SetToSeq, n
    <3> QED BY <3>1, <3>2, <3>4
  <2> QED BY <1>4, <2>1 DEF BuildIndex, Phases
<1>5. CASE Warm
  <2>1. CASE run.warm = <<>>
    BY <1>5, <2>1, EmptyFacts DEF Warm, Resting
  <2>2. CASE run.warm # <<>>
    <3>1. Tail(run.warm) \in Seq(File)
      BY <2>2, TailFacts
    <3> QED BY <1>0, <1>5, <2>2, <3>1 DEF Warm, Phases
  <2> QED BY <2>1, <2>2
<1>6. ASSUME NEW f \in File, DidOpen(f) \/ DidChange(f) PROVE Typed'
  <2>1. PICK t, v : Received(f, t, v)
    BY <1>6 DEF DidOpen, DidChange
  <2> QED BY <2>1 DEF Received, Put
<1>7. ASSUME NEW f \in File, DidClose(f) PROVE Typed'
  BY <1>7 DEF DidClose, Without, background
<1>8. ASSUME NEW f \in File, Save(f) PROVE Typed'
  BY <1>8 DEF Save, background
<1>9. ASSUME NEW f \in File, NEW d \in File, WorkspaceRequest(f, d) PROVE Typed'
  BY <1>0, <1>9 DEF WorkspaceRequest, background
<1>10. CASE UNCHANGED vars
  BY <1>10 DEF vars, background
<1> QED BY <1>1, <1>2, <1>3, <1>4, <1>5, <1>6, <1>7, <1>8, <1>9, <1>10 DEF Next, Timers

LEMMA NextCache == Typed /\ CacheInv /\ [Next]_vars => CacheInv'
<1> SUFFICES ASSUME Typed, CacheInv, [Next]_vars PROVE CacheInv'
  OBVIOUS
<1>1. ASSUME NEW f \in File, RunAnalyze(f) PROVE CacheInv'
  <2>1. \A g : Now(g)' = Now(g)
    BY <1>1, SameTexts DEF RunAnalyze
  <2>2. ~hung /\ (UNCHANGED <<analysis, hung>> \/ Store(f, Analyze(f)))
    BY <1>1 DEF RunAnalyze
  <2> QED BY <2>1, <2>2, CacheSame, StoreKeeps
<1>2. ASSUME NEW f \in File, Request(f) PROVE CacheInv'
  <2>1. \A g : Now(g)' = Now(g)
    BY <1>2, SameTexts DEF Request
  <2> QED BY <1>2, <2>1, EnsureKeeps DEF Request
<1>3. ASSUME NEW f \in File, NEW d \in File, WorkspaceRequest(f, d) PROVE CacheInv'
  <2>1. \A g : Now(g)' = Now(g)
    BY <1>3, SameTexts DEF WorkspaceRequest
  <2>2. PICK h \in {d} \cup importers[d] : EnsureAnalyzed(h)
    BY <1>3 DEF WorkspaceRequest
  <2>3. h \in File /\ ~hung
    BY <1>3 DEF CacheInv, CacheTyped, WorkspaceRequest
  <2> QED BY <2>1, <2>2, <2>3, EnsureKeeps
<1>4. CASE Reindex \/ BuildIndex \/ RunFails
  <2>1. UNCHANGED <<analysis, hung>> /\ \A g : Now(g)' = Now(g)
    BY <1>4, SameTexts DEF Reindex, BuildIndex, RunFails
  <2> QED BY <2>1, CacheSame
<1>5. CASE BuildGraph
  <2>1. \A g : Now(g)' = Now(g)
    BY <1>5, SameTexts DEF BuildGraph
  <2> QED BY <1>5, <2>1, GraphKeeps
<1>6. CASE Warm
  <2>1. \A g : Now(g)' = Now(g)
    BY <1>6, SameTexts DEF Warm
  <2>2. CASE run.warm = <<>>
    BY <1>6, <2>1, <2>2, CacheSame DEF Warm
  <2>3. CASE run.warm # <<>>
    <3>1. Head(run.warm) \in File
      BY <2>3, TailFacts DEF Typed
    <3> QED BY <1>6, <2>1, <2>3, <3>1, EnsureKeeps DEF Warm
  <2> QED BY <2>2, <2>3
<1>7. ASSUME NEW f \in File, DidOpen(f) \/ DidChange(f) \/ DidClose(f) PROVE CacheInv'
  <2>1. \A g \in File \ {f} : Now(g)' = Now(g)
    BY <1>7, OtherTexts
  <2>2. Invalidate(f)
    BY <1>7 DEF DidOpen, DidChange, DidClose, Received
  <2>3. ~hung /\ UNCHANGED hung
    <3>1. ASSUME NEW t, NEW v, Received(f, t, v) PROVE UNCHANGED hung
      BY <3>1 DEF Received
    <3> QED BY <1>7, <3>1 DEF DidOpen, DidChange, DidClose
  <2>4. ~hung'
    BY <2>3
  <2> QED BY <2>1, <2>2, <2>3, <2>4, InvalidateKeeps
<1>8. ASSUME NEW f \in File, Save(f) PROVE CacheInv'
  <2>1. UNCHANGED <<analysis, hung>> /\ \A g \in File : Now(g)' = Now(g)
    BY <1>8, SavedText DEF Save
  <2> QED BY <2>1, CacheSame
<1>9. CASE UNCHANGED vars
  <2>1. UNCHANGED <<analysis, hung>> /\ \A g : Now(g)' = Now(g)
    BY <1>9, SameTexts DEF vars
  <2> QED BY <2>1, CacheSame
<1> QED BY <1>1, <1>2, <1>3, <1>4, <1>5, <1>6, <1>7, <1>8, <1>9 DEF Next, Timers

LEMMA NextIndex == Typed /\ CacheTyped /\ IndexInv /\ [Next]_vars => IndexInv'
<1> SUFFICES ASSUME Typed, CacheTyped, IndexInv, [Next]_vars PROVE IndexInv'
  OBVIOUS
<1>1. ASSUME UNCHANGED <<disk, doc, index>> PROVE IndexInv'
  BY <1>1, SameTexts DEF IndexInv, IndexFresh
<1>2. CASE (\E f \in File : RunAnalyze(f) \/ Request(f)) \/ UNCHANGED vars
  BY <1>1, <1>2 DEF RunAnalyze, Request, background, vars
<1>3. ASSUME NEW f \in File, NEW d \in File, WorkspaceRequest(f, d) PROVE IndexInv'
  BY <1>1, <1>3 DEF WorkspaceRequest, background
<1>4. CASE Reindex \/ BuildGraph \/ RunFails \/ Warm
  BY <1>1, <1>4 DEF Reindex, BuildGraph, RunFails, Warm
<1>5. CASE BuildIndex
  <2>1. Open' = Open /\ \A g : Now(g)' = Now(g)
    BY <1>5, SameTexts DEF BuildIndex
  <2>2. index' = [f \in File |-> Now(f)] /\ Open \subseteq File
    BY <1>5 DEF BuildIndex, Typed, Open
  <2> QED BY <2>1, <2>2 DEF IndexInv, IndexFresh
<1>6. ASSUME NEW f \in File, DidOpen(f) \/ DidChange(f) PROVE IndexInv'
  <2>1. \A g \in File \ {f} : (g \in Open' <=> g \in Open) /\ Now(g)' = Now(g)
    BY <1>6, OtherTexts
  <2>2. Unindex(f)
    BY <1>6 DEF DidOpen, DidChange, Received
  <2>3. Open' \subseteq File
    BY <1>6, NextTyped DEF Typed, Open, Next
  <2>4. CASE index = None
    BY <2>2, <2>4 DEF Unindex, IndexInv, IndexFresh
  <2>5. CASE index # None
    <3>1. index' = [index EXCEPT ![f] = None] /\ DOMAIN index = File
      BY <2>2, <2>5 DEF Unindex, IndexInv
    <3>2. \A g \in Open' : index'[g] \in {None, Now(g)'}
      BY <2>1, <2>3, <2>5, <3>1 DEF IndexInv, IndexFresh
    <3> QED BY <3>1, <3>2 DEF IndexInv, IndexFresh
  <2> QED BY <2>4, <2>5
<1>7. ASSUME NEW f \in File, DidClose(f) PROVE IndexInv'
  <2>1. \A g \in File \ {f} : (g \in Open' <=> g \in Open) /\ Now(g)' = Now(g)
    BY <1>7, OtherTexts
  <2>2. f \notin Open' /\ Open' \subseteq File /\ index' = index
    BY <1>7 DEF DidClose, Without, Open, Typed, background
  <2> QED BY <2>1, <2>2 DEF IndexInv, IndexFresh
<1>8. ASSUME NEW f \in File, Save(f) PROVE IndexInv'
  <2>1. Open' = Open /\ Open \subseteq File /\ index' = index /\ \A g \in File : Now(g)' = Now(g)
    BY <1>8, SavedText DEF Save, background, Typed, Open
  <2> QED BY <2>1 DEF IndexInv, IndexFresh
<1> QED BY <1>2, <1>3, <1>4, <1>5, <1>6, <1>7, <1>8 DEF Next, Timers

LEMMA InitServer == Init => ServerInv
<1> SUFFICES ASSUME Init PROVE ServerInv
  OBVIOUS
<1>1. Typed
  BY EmptyFacts DEF Init, Typed, Resting, Phases
<1>2. CacheTyped /\ DOMAIN cache = {} /\ Len(touched) = 0 /\ hung = FALSE
  BY EmptyFacts DEF Init, CacheTyped
<1>3. CacheInv
  BY <1>2, LimitAssumption DEF CacheInv, Linked, InOrderOfTouch, CacheFresh
<1>4. IndexInv
  BY DEF Init, IndexInv, IndexFresh
<1> QED BY <1>1, <1>3, <1>4 DEF ServerInv

LEMMA NextServer == ServerInv /\ [Next]_vars => ServerInv'
BY NextTyped, NextCache, NextIndex DEF ServerInv, CacheInv

-----------------------------------------------------------------------------
(* The theorems.                                                           *)

\* Whatever is opened, edited, saved, closed and asked in whatever order, a
\* cached analysis is of the present text of its file and of the files that
\* file imports: the graph of importers has them all when one is edited.
THEOREM CacheKept == Spec => []CacheFresh
<1>1. ServerInv => CacheFresh
  BY DEF ServerInv, CacheInv
<1> QED BY <1>1, InitServer, NextServer, PTL DEF Spec

\* The exports that completion offers from an open document are those of its
\* present text, or none.
THEOREM IndexKept == Spec => []IndexFresh
<1>1. ServerInv => IndexFresh
  BY DEF ServerInv, IndexInv
<1> QED BY <1>1, InitServer, NextServer, PTL DEF Spec

\* Every cached file is in the order of touches, which is kept to the limit: so
\* is the cache, though invalidated files stay in the order.  Only a touch that
\* does not end, with every document of the order open, leaves one entry more.
THEOREM CacheLimited == Spec => []CacheBounded
<1>1. ServerInv => CacheBounded
  <2> SUFFICES ASSUME ServerInv PROVE CacheBounded
    OBVIOUS
  <2> DEFINE n == Len(touched)  m == Limit + (IF hung THEN 1 ELSE 0)
  <2>1. /\ touched \in Seq(File) /\ n \in Nat /\ n <= m /\ m \in Nat
        /\ DOMAIN cache \subseteq ToSet(touched)
    BY LimitAssumption DEF ServerInv, CacheInv, CacheTyped, InOrderOfTouch
  <2>2. IsFiniteSet(1 .. n) /\ Cardinality(1 .. n) = n
    <3> HIDE DEF n
    <3>1. IsFiniteSet(1 .. n) /\ Cardinality(1 .. n) = IF 1 > n THEN 0 ELSE n - 1 + 1
      BY <2>1, FS_Interval
    <3> QED BY <2>1, <3>1
  <2>3. touched \in Surjection(1 .. n, ToSet(touched))
    BY <2>1 DEF Surjection, ToSet
  <2>4. IsFiniteSet(ToSet(touched)) /\ Cardinality(ToSet(touched)) <= n
    BY <2>2, <2>3, FS_Surjection
  <2>5. IsFiniteSet(DOMAIN cache) /\ Cardinality(DOMAIN cache) <= Cardinality(ToSet(touched))
    BY <2>1, <2>4, FS_Subset
  <2> HIDE DEF n, m
  <2>6. Cardinality(DOMAIN cache) \in Nat /\ Cardinality(ToSet(touched)) \in Nat
    BY <2>4, <2>5, FS_CardinalityType
  <2> QED BY <2>1, <2>4, <2>5, <2>6 DEF CacheBounded, m
<1> QED BY <1>1, InitServer, NextServer, PTL DEF Spec
=============================================================================
