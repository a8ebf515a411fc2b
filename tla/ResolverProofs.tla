--------------------------- MODULE ResolverProofs ---------------------------
(***************************************************************************)
(* Proofs about the dependency resolver, for any registry, packages,       *)
(* projects and bounds: what it selects and what a lock file is taken for  *)
(* meets every requirement (Consistent); with more rounds than packages,   *)
(* the wished selection is found if it can be had (FindsWish) and rounds   *)
(* come to rest unless packages need each other (AcyclicSettles).          *)
(***************************************************************************)
EXTENDS Resolver, FiniteSetTheorems, WellFoundedInduction, TLAPS

-----------------------------------------------------------------------------
(* What is reached along a relation.                                       *)

LEMMA FirstOf ==
  ASSUME NEW T, T \subseteq Nat, T # {}
  PROVE  \E i \in T : \A j \in T : ~ (j < i)
<1>1. PICK i \in T : \A j \in T : ~ (<<j, i>> \in OpToRel(<, Nat))
  BY NatLessThanWellFounded, WFMin
<1> QED BY <1>1 DEF OpToRel

IsWalk(w, A, E, m) ==
  w = [k \in 0..m |-> IF k = 0 THEN A ELSE w[k - 1] \cup UNION {E[n] : n \in w[k - 1] \cap DOMAIN E}]

LEMMA WalkExists ==
  ASSUME NEW A, NEW E, NEW m \in Nat
  PROVE  \E w : IsWalk(w, A, E, m)
<1> DEFINE T == {k \in Nat : ~ \E w : IsWalk(w, A, E, k)}
<1>1. ASSUME T # {} PROVE FALSE
  <2>1. PICK k \in T : \A j \in T : ~ (j < k)
    <3>1. T \subseteq Nat
      OBVIOUS
    <3> HIDE DEF T
    <3> QED BY <1>1, <3>1, FirstOf
  <2>2. CASE k = 0
    <3>1. IsWalk([i \in 0..0 |-> A], A, E, 0)
      BY DEF IsWalk
    <3> QED BY <2>1, <2>2, <3>1
  <2>3. CASE k # 0
    <3>1. k - 1 \in Nat /\ k - 1 < k /\ k \in Nat
      BY <2>1, <2>3
    <3>2. PICK h : IsWalk(h, A, E, k - 1)
      BY <2>1, <3>1
    <3> DEFINE Next1(s) == s \cup UNION {E[n] : n \in s \cap DOMAIN E}
               g == [i \in 0..k |-> IF i = k THEN Next1(h[k - 1]) ELSE h[i]]
               f == [i \in 0..k |-> IF i = 0 THEN A ELSE Next1(g[i - 1])]
    <3>3. ASSUME NEW i \in 0..k PROVE g[i] = f[i]
      <4>1. CASE i = k
        BY <2>3, <3>1, <4>1
      <4>2. CASE i = 0
        BY <2>3, <3>1, <3>2, <4>2 DEF IsWalk
      <4>3. CASE i # k /\ i # 0
        <5>1. i \in 0..(k - 1) /\ i - 1 \in 0..(k - 1) /\ i - 1 # k
          BY <3>1, <4>3
        <5>2. h[i] = Next1(h[i - 1])
          BY <3>2, <4>3, <5>1 DEF IsWalk
        <5> QED BY <4>3, <5>1, <5>2
      <4> QED BY <4>1, <4>2, <4>3
    <3>4. g = f
      BY <3>3
    <3>5. IsWalk(g, A, E, k)
      BY <3>4 DEF IsWalk
    <3> QED BY <2>1, <3>5
  <2> QED BY <2>2, <2>3
<1> QED BY <1>1

\* What is reached has the start, and is within each set that is closed.
LEMMA ReachedFacts ==
  ASSUME NEW A, NEW E
  PROVE  /\ A \subseteq Reached(A, E)
         /\ \A B : A \subseteq B /\ (\A n \in B \cap DOMAIN E : E[n] \subseteq B) => Reached(A, E) \subseteq B
<1> DEFINE m == Cardinality(Package)
           w == CHOOSE v : IsWalk(v, A, E, m)
<1>1. m \in Nat
  BY PackageAssumption, FS_CardinalityType
<1>2. IsWalk(w, A, E, m)
  BY <1>1, WalkExists
<1>3. Reached(A, E) = w[m]
  BY DEF Reached, IsWalk
<1> HIDE DEF m, w
<1>4. w[0] = A /\ \A k \in 1..m : w[k] = w[k - 1] \cup UNION {E[n] : n \in w[k - 1] \cap DOMAIN E}
  BY <1>1, <1>2 DEF IsWalk
<1>5. A \subseteq w[m]
  <2> DEFINE T == {k \in 0..m : ~ (A \subseteq w[k])}
  <2>1. ASSUME T # {} PROVE FALSE
    <3>1. PICK k \in T : \A j \in T : ~ (j < k)
      <4>1. T \subseteq Nat
        OBVIOUS
      <4> HIDE DEF T
      <4> QED BY <2>1, <4>1, FirstOf
    <3>2. k \in 1..m /\ k - 1 \in 0..m /\ k - 1 < k
      BY <1>1, <1>4, <3>1
    <3>3. A \subseteq w[k - 1]
      BY <3>1, <3>2
    <3> QED BY <1>4, <3>1, <3>2, <3>3
  <2> QED BY <1>1, <2>1
<1>6. ASSUME NEW B, A \subseteq B, \A n \in B \cap DOMAIN E : E[n] \subseteq B
      PROVE  w[m] \subseteq B
  <2> DEFINE T == {k \in 0..m : ~ (w[k] \subseteq B)}
  <2>1. ASSUME T # {} PROVE FALSE
    <3>1. PICK k \in T : \A j \in T : ~ (j < k)
      <4>1. T \subseteq Nat
        OBVIOUS
      <4> HIDE DEF T
      <4> QED BY <2>1, <4>1, FirstOf
    <3>2. k \in 1..m /\ k - 1 \in 0..m /\ k - 1 < k
      BY <1>1, <1>4, <1>6, <3>1
    <3>3. w[k - 1] \subseteq B
      BY <3>1, <3>2
    <3>4. w[k] \subseteq B
      BY <1>4, <1>6, <3>2, <3>3
    <3> QED BY <3>1, <3>4
  <2> QED BY <1>1, <2>1
<1> QED BY <1>3, <1>5, <1>6

-----------------------------------------------------------------------------
(* The inductive invariant.                                                *)

\* What the registry and project.toml hold.
Given ==
  /\ published \in [Package -> SUBSET Version] /\ project \in Project
  /\ \A n \in Package :
       /\ IsFiniteSet(published[n]) /\ published[n] \subseteq DOMAIN registry[n]
       /\ \A v \in DOMAIN registry[n] : IsManifest(registry[n][v])
  /\ DOMAIN local \subseteq Package /\ \A n \in DOMAIN local : IsManifest(local[n])

Resolving == status \in {"resolving", "resolved"}

\* An entry of a selection is a package in a directory, a published version, or
\* not selected yet.
EntrySound(n, e) ==
  /\ n \in Package
  /\ IF e.source = "path" THEN n \in DOMAIN local ELSE e.version \in published[n] \cup {None}

\* A selection in the making obeys the overrides, but for roots that were not
\* selected yet.
SelectionSound ==
  Resolving =>
    /\ \A n \in DOMAIN selected : EntrySound(n, selected[n])
    /\ PathRoots \subseteq DOMAIN selected
    /\ \A n \in DOMAIN selected \cap DOMAIN project.overrides :
         \/ selected[n].source = "path" \/ selected[n].version = project.overrides[n]
         \/ n \in DOMAIN project.roots /\ IsRange(project.roots[n])

\* The packages of g are satisfied within g, whatever project.toml says.
InnerMet(g) ==
  \A p \in DOMAIN g : \A d \in DOMAIN Dependencies(p, g[p]) :
    /\ IsRange(Dependencies(p, g[p])[d]) =>
         d \in DOMAIN g /\ (g[d].source = "path" \/ g[d].version \in Dependencies(p, g[p])[d].range)
    /\ Dependencies(p, g[p])[d].kind = "path" => d \in DOMAIN g

\* What n needs by the manifests l of the packages in directories.
NeededBy(l, n, e) ==
  IF e.version = None THEN <<>>
  ELSE IF e.source = "path" THEN l[n] ELSE registry[n][e.version]

\* So are the packages of the lock, by the manifests it was made from.
LockSound ==
  /\ \A n \in DOMAIN lock : lock[n].source = "path" => n \in DOMAIN read
  /\ \A p \in DOMAIN lock : \A d \in DOMAIN NeededBy(read, p, lock[p]) :
       /\ IsRange(NeededBy(read, p, lock[p])[d]) =>
            /\ d \in DOMAIN lock
            /\ lock[d].source = "path" \/ lock[d].version \in NeededBy(read, p, lock[p])[d].range
       /\ NeededBy(read, p, lock[p])[d].kind = "path" => d \in DOMAIN lock

ConsistentInv == Given /\ SelectionSound /\ LockSound /\ Consistent

\* The wish can be had.
Granted ==
  /\ PathRoots = {} /\ DOMAIN project.overrides = {} /\ DOMAIN project.roots # {}
  /\ \A n \in Package : published[n] # {}
  /\ Met(Wish) /\ ~Malformed(Wish) /\ \A n \in DOMAIN Wish : PathDeps(n, Wish[n]) = {}

\* Then each round selects some of it, all that the last one needed: in each round
\* but the last there is one name more at least.
Part(g, r) ==
  /\ DOMAIN project.roots \subseteq DOMAIN g /\ DOMAIN g \subseteq DOMAIN Wish
  /\ DOMAIN g \subseteq {c.name : c \in Constraints(g)}
  /\ r \in Nat /\ r <= Cardinality(DOMAIN g)
  /\ g = [n \in DOMAIN g |-> IF r = 0 THEN Unselected ELSE Wish[n]]

WishInv ==
  Granted => /\ status \in Failures => status = "failed"
             /\ status = "resolved" => selected = Wish
             /\ status = "resolving" => Part(selected, round)

-----------------------------------------------------------------------------
(* Selections.                                                             *)

LEMMA HighestFacts ==
  ASSUME NEW S, S \subseteq Nat, IsFiniteSet(S), S # {}
  PROVE  Highest(S) \in S /\ \A w \in S : w <= Highest(S)
<1> DEFINE above(v) == {w \in S : v < w}
           T == {Cardinality(above(v)) : v \in S}
<1>1. \A v \in S : IsFiniteSet(above(v)) /\ Cardinality(above(v)) \in Nat
  BY FS_Subset, FS_CardinalityType
<1>2. PICK v \in S : \A u \in S : ~ (Cardinality(above(u)) < Cardinality(above(v)))
  <2>1. T \subseteq Nat /\ T # {}
    BY <1>1
  <2>2. PICK i \in T : \A j \in T : ~ (j < i)
    <3> HIDE DEF T
    <3> QED BY <2>1, FirstOf
  <2> QED BY <2>2
<1>3. above(v) = {}
  <2>1. ASSUME NEW u \in above(v) PROVE FALSE
    <3>1. u \in S /\ v < u /\ u \in Nat /\ v \in Nat
      OBVIOUS
    <3>2. above(u) \subseteq above(v) /\ u \notin above(u)
      <4>1. \A w \in Nat : u < w => v < w
        BY <3>1
      <4>2. ~ (u < u)
        BY <3>1
      <4> QED BY <4>1, <4>2
    <3>3. Cardinality(above(u)) < Cardinality(above(v))
      <4>1. above(u) # above(v)
        BY <2>1, <3>2
      <4> HIDE DEF above
      <4> QED BY <1>1, <3>1, <3>2, <4>1, FS_Subset
    <3> QED BY <1>2, <3>1, <3>3
  <2> QED BY <2>1
<1>4. \A w \in S : w <= v
  BY <1>3
<1> QED BY <1>4 DEF Highest

LEMMA Fields ==
  /\ \A v, o : Released(v, o).source = "registry" /\ Released(v, o).version = v
  /\ InDirectory.source = "path" /\ InDirectory.version = 1
  /\ Unselected.source = "registry" /\ Unselected.version = None
<1>1. \A v, o : Released(v, o).source = "registry" /\ Released(v, o).version = v
  BY Zenon DEF Released
<1>2. InDirectory.source = "path" /\ InDirectory.version = 1
  BY Zenon DEF InDirectory
<1>3. Unselected.source = "registry" /\ Unselected.version = None
  BY Zenon DEF Unselected
<1> QED BY <1>1, <1>2, <1>3

LEMMA EntryFacts ==
  ASSUME Given, NEW n, NEW e, EntrySound(n, e)
  PROVE  IsManifest(Dependencies(n, e))
<1>1. IsManifest(<<>>)
  BY DEF IsManifest
<1> QED BY <1>1 DEF Given, EntrySound, Dependencies

\* The constraints, one by one.
LEMMA ConstraintFacts ==
  ASSUME NEW g
  PROVE  /\ \A n \in DOMAIN project.roots : IsRange(project.roots[n]) =>
              [name |-> n, range |-> project.roots[n].range, by |-> "project"] \in Constraints(g)
         /\ \A p \in DOMAIN g : \A d \in DOMAIN Dependencies(p, g[p]) : IsRange(Dependencies(p, g[p])[d]) =>
              [name |-> d, range |-> Dependencies(p, g[p])[d].range, by |-> p] \in Constraints(g)
         /\ \A c \in Constraints(g) :
              \/ \E n \in DOMAIN project.roots : IsRange(project.roots[n]) /\
                   c = [name |-> n, range |-> project.roots[n].range, by |-> "project"]
              \/ \E p \in DOMAIN g : \E d \in DOMAIN Dependencies(p, g[p]) :
                   IsRange(Dependencies(p, g[p])[d]) /\
                   c = [name |-> d, range |-> Dependencies(p, g[p])[d].range, by |-> p]
BY DEF Constraints

\* The roots are met within g.
RootsMet(g) ==
  \A n \in DOMAIN project.roots :
    /\ IsRange(project.roots[n]) =>
         n \in DOMAIN g /\ (g[n].source = "path" \/ g[n].version \in project.roots[n].range)
    /\ project.roots[n].kind = "path" => n \in DOMAIN g

LEMMA MetFacts ==
  ASSUME NEW g
  PROVE  Met(g) <=> InnerMet(g) /\ RootsMet(g)
<1>1. ASSUME Met(g) PROVE InnerMet(g) /\ RootsMet(g)
  <2>1. \A c \in Constraints(g) :
          c.name \in DOMAIN g /\ (g[c.name].source = "path" \/ g[c.name].version \in c.range)
    BY <1>1 DEF Met
  <2>2. PathRoots \subseteq DOMAIN g /\ \A n \in DOMAIN g : PathDeps(n, g[n]) \subseteq DOMAIN g
    BY <1>1 DEF Met
  <2>3. RootsMet(g)
    <3>1. ASSUME NEW n \in DOMAIN project.roots, IsRange(project.roots[n])
          PROVE  n \in DOMAIN g /\ (g[n].source = "path" \/ g[n].version \in project.roots[n].range)
      <4>1. PICK c \in Constraints(g) : c = [name |-> n, range |-> project.roots[n].range, by |-> "project"]
        BY <3>1, ConstraintFacts
      <4>2. c.name = n /\ c.range = project.roots[n].range
        BY <4>1
      <4> QED BY <2>1, <4>1, <4>2
    <3> QED BY <2>2, <3>1 DEF RootsMet, PathRoots
  <2>4. InnerMet(g)
    <3>1. ASSUME NEW p \in DOMAIN g, NEW d \in DOMAIN Dependencies(p, g[p]), NEW x,
                 x = Dependencies(p, g[p])[d], IsRange(x)
          PROVE  d \in DOMAIN g /\ (g[d].source = "path" \/ g[d].version \in x.range)
      <4>1. PICK c \in Constraints(g) : c = [name |-> d, range |-> x.range, by |-> p]
        BY <3>1, ConstraintFacts
      <4>2. c.name = d /\ c.range = x.range
        BY <4>1
      <4> QED BY <2>1, <4>1, <4>2
    <3> QED BY <2>2, <3>1 DEF InnerMet, PathDeps
  <2> QED BY <2>3, <2>4
<1>2. ASSUME InnerMet(g), RootsMet(g) PROVE Met(g)
  <2>1. ASSUME NEW c \in Constraints(g)
        PROVE  c.name \in DOMAIN g /\ (g[c.name].source = "path" \/ g[c.name].version \in c.range)
    BY <1>2, ConstraintFacts DEF InnerMet, RootsMet
  <2>2. PathRoots \subseteq DOMAIN g
    BY <1>2 DEF RootsMet, PathRoots
  <2>3. \A n \in DOMAIN g : PathDeps(n, g[n]) \subseteq DOMAIN g
    BY <1>2 DEF InnerMet, PathDeps
  <2> QED BY <2>1, <2>2, <2>3 DEF Met
<1> QED BY <1>1, <1>2

\* The packages in directories that a selection needs are discovered.
LEMMA DiscoveredFacts ==
  ASSUME NEW g
  PROVE  /\ \A n \in DOMAIN g : PathDeps(n, g[n]) \subseteq Discovered(g) \cup DOMAIN g
         /\ (\A n \in DOMAIN g : PathDeps(n, g[n]) = {}) => Discovered(g) = {}
<1> DEFINE U == UNION {PathDeps(n, g[n]) : n \in DOMAIN g}
           A == U \ DOMAIN g
           E == [n \in DOMAIN local |-> PathDeps(n, InDirectory) \ DOMAIN g]
<1>2. Discovered(g) = Reached(A, E)
  BY DEF Discovered
<1>1. \A n \in DOMAIN g : \A d \in PathDeps(n, g[n]) : d \in U
  OBVIOUS
<1>7. U # {} => \E n \in DOMAIN g : PathDeps(n, g[n]) # {}
  OBVIOUS
<1> HIDE DEF E, U
<1>3. A \subseteq Reached(A, E)
  BY ReachedFacts
<1>4. \A n \in DOMAIN g : PathDeps(n, g[n]) \subseteq A \cup DOMAIN g
  BY <1>1
<1>5. (\A n \in DOMAIN g : PathDeps(n, g[n]) = {}) => A = {}
  BY <1>7
<1> HIDE DEF A
<1>6. A = {} => Reached(A, E) \subseteq {}
  <2>1. ASSUME A = {} PROVE A \subseteq {} /\ \A n \in {} \cap DOMAIN E : E[n] \subseteq {}
    BY <2>1
  <2> QED BY <2>1, ReachedFacts
<1> QED BY <1>2, <1>3, <1>4, <1>5, <1>6

\* The same, after a step that leaves the manifests alone.
LEMMA SelectedMet ==
  ASSUME UNCHANGED <<registry, local, project>>, NEW g, selected' = g, Met(g), Obeyed(g), status' = "resolved"
  PROVE  Consistent'
BY DEF Consistent, Met, Obeyed, Constraints, Dependencies, IsRange, PathDeps, PathRoots

LEMMA LockMet ==
  ASSUME UNCHANGED <<registry, local, project>>, NEW g, lock' = g, Met(g), status' = "installed"
  PROVE  Consistent'
BY DEF Consistent, Met, Constraints, Dependencies, IsRange, PathDeps, PathRoots

LEMMA LockKept ==
  ASSUME LockSound, UNCHANGED <<registry, lock, read>>
  PROVE  LockSound'
BY DEF LockSound, NeededBy, IsRange

\* While the directories are as they were, the lock is satisfied within itself.
LEMMA LockInnerMet ==
  ASSUME LockSound, AsRead
  PROVE  InnerMet(lock)
<1>1. \A p \in DOMAIN lock : Dependencies(p, lock[p]) = NeededBy(read, p, lock[p])
  BY DEF LockSound, AsRead, Dependencies, NeededBy
<1> QED BY <1>1 DEF LockSound, InnerMet

-----------------------------------------------------------------------------
(* A round.                                                                *)

\* What a round considers: the names that are constrained, the packages it finds in
\* directories, and the selection it goes on with.
Considers(named, found, seen, kept) ==
  /\ named = {c.name : c \in Constraints(selected)}
  /\ found = Discovered(selected)
  /\ seen = Over(Over(selected, found, InDirectory), named, Unselected)
  /\ kept = Only(seen, Reachable(seen, named) \cup PathRoots)

\* A round that finds no problem.
Turn(named, found, seen, kept, next) ==
  /\ Considers(named, found, seen, kept) /\ ~ Malformed(selected) /\ found \subseteq DOMAIN local
  /\ \A n \in named : kept[n].source # "path" => Problem(n, Constraints(selected)) = ""
  /\ next = [n \in DOMAIN kept |-> IF n \in named /\ kept[n].source # "path"
                                    THEN Selection(n, Constraints(selected)) ELSE kept[n]]
  /\ selected' = next /\ UNCHANGED <<world, lock, read, prefer, float>>
  /\ IF seen # selected \/ kept # seen \/ next # kept
     THEN round' = round + 1 /\ status' = IF round = MaxRounds - 1 THEN "diverged" ELSE "resolving"
     ELSE round' = round /\ status' = "resolved"

\* The others.
GivesUp ==
  \E named, found, seen, kept :
    /\ Considers(named, found, seen, kept)
    /\ \/ Malformed(selected) \/ ~ (found \subseteq DOMAIN local)
       \/ \E n \in named : kept[n].source # "path" /\ Problem(n, Constraints(selected)) # ""

LEMMA RoundCases ==
  ASSUME Round
  PROVE  \/ \E named, found, seen, kept, next : Turn(named, found, seen, kept, next)
         \/ GivesUp /\ \E s \in Failures \ {"failed", "diverged"} : Stop(s)
<1> DEFINE cs == Constraints(selected)
           named == {c.name : c \in cs}
           found == Discovered(selected)
           seen == Over(Over(selected, found, InDirectory), named, Unselected)
           kept == Only(seen, Reachable(seen, named) \cup PathRoots)
           todo == {n \in named : kept[n].source # "path"}
           failing == {n \in todo : Problem(n, cs) # ""}
           next == [n \in DOMAIN kept |-> IF n \in todo THEN Selection(n, cs) ELSE kept[n]]
           changed == seen # selected \/ kept # seen \/ next # kept
<1>1. IF Malformed(selected) THEN Stop("invalid")
      ELSE IF ~(found \subseteq DOMAIN local) THEN Stop("no directory")
      ELSE IF failing # {} THEN \E n \in failing : Stop(Problem(n, cs))
      ELSE /\ selected' = next
           /\ round' = IF changed THEN round + 1 ELSE round
           /\ status' = IF ~changed THEN "resolved"
                        ELSE IF round = MaxRounds - 1 THEN "diverged" ELSE "resolving"
           /\ UNCHANGED <<world, lock, read, prefer, float>>
  BY DEF Round
<1> HIDE DEF cs
<1>0. Considers(named, found, seen, kept)
  BY DEF Considers, cs
<1>2. \A n : Problem(n, cs) # "" => Problem(n, cs) \in Failures \ {"failed", "diverged"}
  BY DEF Problem, Failures
<1>3. CASE Malformed(selected) \/ ~(found \subseteq DOMAIN local)
  <2>1. \E s \in Failures \ {"failed", "diverged"} : Stop(s)
    BY <1>1, <1>3 DEF Failures
  <2> HIDE DEF named, found, seen, kept
  <2> QED BY <1>0, <1>3, <2>1 DEF GivesUp
<1>4. CASE ~ Malformed(selected) /\ found \subseteq DOMAIN local /\ failing # {}
  <2>1. \E n \in failing : Stop(Problem(n, cs))
    BY <1>1, <1>4
  <2>2. PICK n \in named : kept[n].source # "path" /\ Problem(n, cs) # ""
    BY <1>4
  <2>3. \E s \in Failures \ {"failed", "diverged"} : Stop(s)
    BY <1>2, <2>1
  <2> HIDE DEF named, found, seen, kept
  <2> QED BY <1>0, <2>2, <2>3 DEF GivesUp, cs
<1>5. CASE ~ Malformed(selected) /\ found \subseteq DOMAIN local /\ failing = {}
  <2>1. /\ selected' = next
        /\ round' = IF changed THEN round + 1 ELSE round
        /\ status' = IF ~changed THEN "resolved"
                     ELSE IF round = MaxRounds - 1 THEN "diverged" ELSE "resolving"
        /\ UNCHANGED <<world, lock, read, prefer, float>>
    BY <1>1, <1>5
  <2>2. \A n \in named : kept[n].source # "path" => Problem(n, cs) = ""
    BY <1>5
  <2>3. next = [n \in DOMAIN kept |-> IF n \in named /\ kept[n].source # "path" THEN Selection(n, cs) ELSE kept[n]]
    OBVIOUS
  <2>4. ~ Malformed(selected) /\ found \subseteq DOMAIN local
    BY <1>5
  <2> HIDE DEF named, found, seen, kept, next
  <2>5. Turn(named, found, seen, kept, next)
    BY <1>0, <2>1, <2>2, <2>3, <2>4 DEF Turn, cs
  <2> QED BY <2>5
<1> QED BY <1>3, <1>4, <1>5

\* What that comes to, name by name.
Consideration(named, found, seen, kept) ==
  /\ DOMAIN seen = DOMAIN selected \cup found \cup named /\ DOMAIN kept \subseteq DOMAIN seen
  /\ named \subseteq DOMAIN kept /\ PathRoots \cap DOMAIN selected \subseteq DOMAIN kept
  /\ \A n \in DOMAIN kept : kept[n] = seen[n]
  /\ \A n \in DOMAIN seen : seen[n] = IF n \in DOMAIN selected THEN selected[n]
                                      ELSE IF n \in found THEN InDirectory ELSE Unselected
  /\ \A n \in DOMAIN project.roots : IsRange(project.roots[n]) => n \in named

LEMMA ConsideredFacts ==
  ASSUME NEW named, NEW found, NEW seen, NEW kept, Considers(named, found, seen, kept)
  PROVE  Consideration(named, found, seen, kept)
<1>1. /\ named = {c.name : c \in Constraints(selected)}
      /\ seen = Over(Over(selected, found, InDirectory), named, Unselected)
      /\ kept = Only(seen, Reachable(seen, named) \cup PathRoots)
  BY DEF Considers
<1>2. DOMAIN seen = DOMAIN selected \cup found \cup named
  BY <1>1 DEF Over
<1>3. \A n \in DOMAIN seen : seen[n] = IF n \in DOMAIN selected THEN selected[n]
                                       ELSE IF n \in found THEN InDirectory ELSE Unselected
  BY <1>1 DEF Over
<1>4. named \subseteq Reachable(seen, named)
  BY DEF Reachable
<1>5. DOMAIN kept = DOMAIN seen \cap (Reachable(seen, named) \cup PathRoots) /\ \A n \in DOMAIN kept : kept[n] = seen[n]
  BY <1>1 DEF Only
<1>6. ASSUME NEW n \in DOMAIN project.roots, IsRange(project.roots[n]) PROVE n \in named
  <2>1. PICK c \in Constraints(selected) : c = [name |-> n, range |-> project.roots[n].range, by |-> "project"]
    BY <1>6, ConstraintFacts
  <2>2. c.name = n
    BY <2>1
  <2> QED BY <1>1, <2>1, <2>2
<1> QED BY <1>2, <1>3, <1>4, <1>5, <1>6 DEF Consideration

\* What is selected for a name without a problem.
LEMMA SelectionFacts ==
  ASSUME Given, NEW n \in Package, NEW cs, Problem(n, cs) = ""
  PROVE  /\ Selection(n, cs).source = "registry" /\ Selection(n, cs).version \in published[n]
         /\ \A c \in cs : c.name = n => Selection(n, cs).version \in c.range
         /\ Overridden(n) => Selection(n, cs).version = project.overrides[n]
<1>0. PICK e : e = Selection(n, cs)
  OBVIOUS
<1>1. CASE Overridden(n)
  <2>2. project.overrides[n] \in published[n] /\ \A c \in cs : c.name = n => project.overrides[n] \in c.range
    BY <1>1 DEF Problem
  <2>3. e.source = "registry" /\ e.version = project.overrides[n]
    BY <1>0, <1>1 DEF Selection, Released
  <2> QED BY <1>0, <2>2, <2>3
<1>2. CASE ~ Overridden(n)
  <2>1. e.source = "registry" /\ e.version = PickVersion(n, Matching(n, cs))
    BY <1>0, <1>2 DEF Selection, Released
  <2>2. Matching(n, cs) # {}
    BY <1>2 DEF Problem
  <2>3. Matching(n, cs) \subseteq published[n] /\ \A c \in cs : c.name = n => Matching(n, cs) \subseteq c.range
    BY DEF Matching
  <2>4. PickVersion(n, Matching(n, cs)) \in Matching(n, cs)
    <3>1. IsFiniteSet(Matching(n, cs)) /\ Matching(n, cs) \subseteq Nat
      BY <2>3, VersionAssumption, FS_Subset DEF Given
    <3> QED BY <2>2, <3>1, HighestFacts DEF PickVersion
  <2> QED BY <1>0, <1>2, <2>1, <2>3, <2>4
<1> QED BY <1>1, <1>2

\* Constraints are on packages.
LEMMA NamedFacts ==
  ASSUME Given, NEW g, \A n \in DOMAIN g : EntrySound(n, g[n]), NEW c \in Constraints(g)
  PROVE  c.name \in Package
<1>1. CASE \E n \in DOMAIN project.roots : IsRange(project.roots[n]) /\
             c = [name |-> n, range |-> project.roots[n].range, by |-> "project"]
  <2>1. PICK n \in DOMAIN project.roots : c = [name |-> n, range |-> project.roots[n].range, by |-> "project"]
    BY <1>1
  <2>2. c.name = n /\ DOMAIN project.roots \subseteq Package
    BY <2>1, ProjectAssumption DEF Given, IsManifest
  <2> QED BY <2>2
<1>2. CASE \E p \in DOMAIN g : \E d \in DOMAIN Dependencies(p, g[p]) :
             c = [name |-> d, range |-> Dependencies(p, g[p])[d].range, by |-> p]
  <2>1. PICK p \in DOMAIN g : \E d \in DOMAIN Dependencies(p, g[p]) :
          c = [name |-> d, range |-> Dependencies(p, g[p])[d].range, by |-> p]
    BY <1>2
  <2>3. PICK d \in DOMAIN Dependencies(p, g[p]) :
          c = [name |-> d, range |-> Dependencies(p, g[p])[d].range, by |-> p]
    BY <2>1
  <2>2. c.name = d /\ DOMAIN Dependencies(p, g[p]) \subseteq Package
    BY <2>3, EntryFacts DEF IsManifest
  <2> QED BY <2>2
<1> QED BY <1>1, <1>2, ConstraintFacts

\* The selection after a round.
LEMMA TurnEntries ==
  ASSUME ConsistentInv, status = "resolving",
         NEW named, NEW found, NEW seen, NEW kept, NEW next, Turn(named, found, seen, kept, next),
         NEW n \in DOMAIN next
  PROVE  /\ n \in DOMAIN kept /\ EntrySound(n, next[n])
         /\ n \in named => \/ next[n].source = "path"
                           \/ /\ \A c \in Constraints(selected) : c.name = n => next[n].version \in c.range
                              /\ Overridden(n) => next[n].version = project.overrides[n]
         /\ n \notin named => next[n] = kept[n]
<1>1. /\ Given /\ \A m \in DOMAIN selected : EntrySound(m, selected[m])
  BY DEF ConsistentInv, SelectionSound, Resolving
<1>2. /\ Considers(named, found, seen, kept) /\ found \subseteq DOMAIN local
      /\ \A m \in named : kept[m].source # "path" => Problem(m, Constraints(selected)) = ""
      /\ next = [m \in DOMAIN kept |-> IF m \in named /\ kept[m].source # "path"
                                       THEN Selection(m, Constraints(selected)) ELSE kept[m]]
  BY DEF Turn
<1>3. n \in DOMAIN kept
  BY <1>2
<1>7. Consideration(named, found, seen, kept)
  BY <1>2, ConsideredFacts
<1>4. named \subseteq Package
  BY <1>1, <1>2, NamedFacts DEF Considers
<1>5. CASE n \in named /\ kept[n].source # "path"
  <2>1. next[n] = Selection(n, Constraints(selected)) /\ n \in Package /\ Problem(n, Constraints(selected)) = ""
    BY <1>2, <1>3, <1>4, <1>5
  <2> QED BY <1>1, <1>3, <1>5, <2>1, SelectionFacts DEF EntrySound
<1>6. CASE ~ (n \in named /\ kept[n].source # "path")
  <2>1. next[n] = kept[n]
    BY <1>2, <1>3, <1>6
  <2>2. kept[n] = IF n \in DOMAIN selected THEN selected[n] ELSE IF n \in found THEN InDirectory ELSE Unselected
    BY <1>3, <1>7 DEF Consideration
  <2>3. n \in DOMAIN selected \cup found \cup named
    BY <1>3, <1>7 DEF Consideration
  <2>4. EntrySound(n, kept[n])
    <3>1. CASE n \in DOMAIN selected
      BY <1>1, <2>2, <3>1
    <3>2. CASE n \notin DOMAIN selected /\ n \in found
      <4>1. kept[n] = InDirectory /\ n \in Package /\ n \in DOMAIN local
        BY <1>1, <1>2, <2>2, <3>2 DEF Given
      <4> QED BY <4>1, Fields DEF EntrySound
    <3>3. CASE n \notin DOMAIN selected /\ n \notin found
      <4>1. kept[n] = Unselected /\ n \in Package
        BY <1>3, <1>4, <1>6, <2>2, <2>3, <3>3
      <4> QED BY <4>1, Fields DEF EntrySound
    <3> QED BY <3>1, <3>2, <3>3
  <2> QED BY <1>3, <1>6, <2>1, <2>4
<1> QED BY <1>5, <1>6

LEMMA TurnSound ==
  ASSUME ConsistentInv, status = "resolving",
         NEW named, NEW found, NEW seen, NEW kept, NEW next, Turn(named, found, seen, kept, next)
  PROVE  SelectionSound' /\ Consistent'
<1>1. /\ Given /\ \A m \in DOMAIN selected : EntrySound(m, selected[m])
      /\ PathRoots \subseteq DOMAIN selected
      /\ \A m \in DOMAIN selected \cap DOMAIN project.overrides :
           \/ selected[m].source = "path" \/ selected[m].version = project.overrides[m]
           \/ m \in DOMAIN project.roots /\ IsRange(project.roots[m])
  BY DEF ConsistentInv, SelectionSound, Resolving
<1>2. /\ Considers(named, found, seen, kept) /\ found \subseteq DOMAIN local
      /\ DOMAIN next = DOMAIN kept
      /\ selected' = next /\ UNCHANGED <<world, lock, read, prefer, float>>
      /\ IF seen # selected \/ kept # seen \/ next # kept
         THEN status' \in {"diverged", "resolving"} ELSE status' = "resolved"
  BY DEF Turn
<1>3. \A n \in DOMAIN next : /\ EntrySound(n, next[n])
                             /\ n \in named => \/ next[n].source = "path"
                                               \/ /\ \A c \in Constraints(selected) : c.name = n => next[n].version \in c.range
                                                  /\ Overridden(n) => next[n].version = project.overrides[n]
                             /\ n \notin named => next[n] = kept[n]
  BY TurnEntries
<1>9. Consideration(named, found, seen, kept)
  BY <1>2, ConsideredFacts
<1>4. PathRoots \subseteq DOMAIN next /\ named \subseteq DOMAIN next
  BY <1>1, <1>2, <1>9 DEF Consideration
<1>5. ASSUME NEW n \in DOMAIN next \cap DOMAIN project.overrides
      PROVE  next[n].source = "path" \/ next[n].version = project.overrides[n]
  <2>1. CASE n \in named
    BY <1>3, <2>1 DEF Overridden
  <2>2. CASE n \notin named
    <3>1. next[n] = kept[n] /\ n \in DOMAIN kept
      BY <1>2, <1>3, <2>2
    <3>2. /\ kept[n] = IF n \in DOMAIN selected THEN selected[n] ELSE IF n \in found THEN InDirectory ELSE Unselected
          /\ n \in DOMAIN selected \cup found
          /\ ~ (n \in DOMAIN project.roots /\ IsRange(project.roots[n]))
      BY <1>9, <2>2, <3>1 DEF Consideration
    <3>3. CASE n \in DOMAIN selected
      BY <1>1, <3>1, <3>2, <3>3
    <3>4. CASE n \notin DOMAIN selected
      BY <3>1, <3>2, <3>4, Fields
    <3> QED BY <3>3, <3>4
  <2> QED BY <2>1, <2>2
<1>6. SelectionSound'
  BY <1>2, <1>3, <1>4, <1>5 DEF SelectionSound, EntrySound, world, PathRoots
<1>7. CASE status' \in {"diverged", "resolving"}
  BY <1>6, <1>7 DEF Consistent
<1>8. CASE seen = selected /\ kept = seen /\ next = kept
  <2>1. selected = next /\ named = {c.name : c \in Constraints(selected)} /\ found = Discovered(selected)
    BY <1>2, <1>8 DEF Considers
  <2>2. found \subseteq DOMAIN next /\ named \subseteq DOMAIN next
    BY <1>2, <1>8, <1>9 DEF Consideration
  <2>3. Met(next)
    <3>1. ASSUME NEW c \in Constraints(next)
          PROVE  c.name \in DOMAIN next /\ (next[c.name].source = "path" \/ next[c.name].version \in c.range)
      <4>1. c \in Constraints(selected) /\ c.name \in named
        BY <2>1
      <4> QED BY <1>3, <2>2, <4>1
    <3>2. \A n \in DOMAIN next : PathDeps(n, next[n]) \subseteq DOMAIN next
      BY <2>1, <2>2, DiscoveredFacts
    <3> QED BY <1>4, <3>1, <3>2 DEF Met
  <2>4. Obeyed(next)
    BY <1>5 DEF Obeyed
  <2>5. status' = "resolved" /\ selected' = next /\ UNCHANGED <<registry, local, project>>
    BY <1>2, <1>8 DEF world
  <2> QED BY <1>6, <2>3, <2>4, <2>5, SelectedMet
<1> QED BY <1>2, <1>7, <1>8

-----------------------------------------------------------------------------
(* Every requirement is met.                                               *)

LEMMA GivenKept ==
  ASSUME Given, UNCHANGED world
  PROVE  Given'
BY DEF Given, world

LEMMA StopConsistent ==
  ASSUME ConsistentInv, NEW s \in Failures, Stop(s)
  PROVE  ConsistentInv'
<1>1. status' = s /\ UNCHANGED world /\ UNCHANGED <<lock, read>>
  BY DEF Stop
<1>2. Given' /\ LockSound'
  BY <1>1, GivenKept, LockKept DEF ConsistentInv, world
<1>3. status' \notin {"resolving", "resolved", "installed"}
  BY <1>1 DEF Failures
<1> QED BY <1>2, <1>3 DEF ConsistentInv, SelectionSound, Resolving, Consistent

LEMMA RoundConsistent ==
  ASSUME ConsistentInv, Round
  PROVE  ConsistentInv'
<1>1. CASE \E named, found, seen, kept, next : Turn(named, found, seen, kept, next)
  <2>1. PICK named, found, seen, kept, next : Turn(named, found, seen, kept, next)
    BY <1>1
  <2>2. status = "resolving"
    BY DEF Round
  <2>3. SelectionSound' /\ Consistent'
    BY <2>1, <2>2, TurnSound
  <2>4. UNCHANGED world /\ UNCHANGED <<lock, read>>
    BY <2>1 DEF Turn
  <2>5. Given' /\ LockSound'
    BY <2>4, GivenKept, LockKept DEF ConsistentInv, world
  <2> QED BY <2>3, <2>5 DEF ConsistentInv
<1>2. CASE \E s \in Failures \ {"failed", "diverged"} : Stop(s)
  BY <1>2, StopConsistent
<1> QED BY <1>1, <1>2, RoundCases

LEMMA ResolveConsistent ==
  ASSUME ConsistentInv, NEW p, NEW f, Resolve(p, f)
  PROVE  ConsistentInv'
<1>1. /\ selected' = IF PathRoots \subseteq DOMAIN local THEN Seed ELSE selected
      /\ status' = IF PathRoots \subseteq DOMAIN local THEN "resolving" ELSE "no directory"
      /\ UNCHANGED world /\ UNCHANGED <<lock, read>>
  BY DEF Resolve
<1>2. Given' /\ LockSound'
  BY <1>1, GivenKept, LockKept DEF ConsistentInv, world
<1>3. Consistent'
  BY <1>1 DEF Consistent
<1>4. CASE ~ (PathRoots \subseteq DOMAIN local)
  BY <1>1, <1>2, <1>3, <1>4 DEF ConsistentInv, SelectionSound, Resolving
<1>5. CASE PathRoots \subseteq DOMAIN local
  <2>1. /\ DOMAIN project.roots \subseteq Package
        /\ \A n \in DOMAIN project.roots : n \in PathRoots \/ IsRange(project.roots[n])
    BY ProjectAssumption DEF ConsistentInv, Given, IsManifest, PathRoots, IsRange
  <2>2. selected' = Seed /\ DOMAIN Seed = DOMAIN project.roots
    BY <1>1, <1>5 DEF Seed
  <2>3. \A n \in DOMAIN Seed : Seed[n] = IF n \in PathRoots THEN InDirectory ELSE Unselected
    BY DEF Seed
  <2>4. ASSUME NEW n \in DOMAIN Seed PROVE EntrySound(n, Seed[n])
    <3>1. n \in Package /\ (n \in PathRoots => n \in DOMAIN local)
      BY <1>5, <2>1, <2>2
    <3>2. CASE n \in PathRoots
      BY <2>3, <3>1, <3>2, Fields DEF EntrySound
    <3>3. CASE n \notin PathRoots
      BY <2>3, <3>1, <3>3, Fields DEF EntrySound
    <3> QED BY <3>2, <3>3
  <2>5. PathRoots \subseteq DOMAIN Seed
    BY <2>2 DEF PathRoots
  <2>6. \A n \in DOMAIN Seed : Seed[n].source = "path" \/ (n \in DOMAIN project.roots /\ IsRange(project.roots[n]))
    BY <2>1, <2>2, <2>3, Fields
  <2>7. SelectionSound'
    BY <1>1, <2>2, <2>4, <2>5, <2>6 DEF SelectionSound, EntrySound, PathRoots, IsRange, world
  <2> QED BY <1>2, <1>3, <2>7 DEF ConsistentInv
<1> QED BY <1>4, <1>5

LEMMA WriteLockConsistent ==
  ASSUME ConsistentInv, WriteLock
  PROVE  ConsistentInv'
<1>1. /\ status = "resolved" /\ lock' = selected /\ status' = "installed" /\ UNCHANGED world
      /\ read' = [n \in {m \in DOMAIN selected : selected[m].source = "path"} |-> local[n]]
  BY DEF WriteLock
<1>2. Met(selected)
  BY <1>1 DEF ConsistentInv, Consistent
<1>3. LockSound'
  <2>1. InnerMet(selected)
    BY <1>2, MetFacts
  <2>2. \A p \in DOMAIN selected : NeededBy(read, p, lock[p])' = Dependencies(p, selected[p])
    BY <1>1 DEF NeededBy, Dependencies, world
  <2>3. \A n \in DOMAIN selected : selected[n].source = "path" => n \in DOMAIN read'
    BY <1>1
  <2> QED BY <1>1, <2>1, <2>2, <2>3 DEF LockSound, InnerMet, IsRange
<1>4. Given' /\ Consistent'
  BY <1>1, <1>2, GivenKept, LockMet DEF ConsistentInv, world
<1> QED BY <1>1, <1>3, <1>4 DEF ConsistentInv, SelectionSound, Resolving

LEMMA InstallConsistent ==
  ASSUME ConsistentInv, InstallLocked \/ InstallNothing
  PROVE  ConsistentInv'
<1>1. CASE InstallLocked
  <2>1. /\ LockSatisfiesRoots /\ status' \in {"installed", "missing"}
        /\ UNCHANGED world /\ UNCHANGED <<lock, read>>
    BY <1>1 DEF InstallLocked
  <2>2. Given' /\ LockSound'
    BY <2>1, GivenKept, LockKept DEF ConsistentInv, world
  <2>3. AsRead => Met(lock)
    BY <2>1, LockInnerMet, MetFacts DEF ConsistentInv, RootsMet, LockSatisfiesRoots
  <2>4. CASE AsRead /\ status' = "installed"
    BY <2>1, <2>2, <2>3, <2>4, LockMet DEF ConsistentInv, SelectionSound, Resolving, world
  <2>5. CASE ~ (AsRead /\ status' = "installed")
    <3>1. AsRead' <=> AsRead
      BY <2>1 DEF AsRead, world
    <3> QED BY <2>1, <2>2, <2>5, <3>1 DEF ConsistentInv, Consistent, SelectionSound, Resolving
  <2> QED BY <2>4, <2>5
<1>2. CASE InstallNothing
  <2>1. /\ lock' = <<>> /\ read' = <<>> /\ DOMAIN project.roots = {}
        /\ status' = "installed" /\ UNCHANGED world
    BY <1>2 DEF InstallNothing
  <2>2. Met(<<>>)
    <3>1. InnerMet(<<>>) /\ RootsMet(<<>>)
      BY <2>1 DEF InnerMet, RootsMet
    <3> QED BY <3>1, MetFacts
  <2>3. LockSound'
    BY <2>1 DEF LockSound
  <2> QED BY <2>1, <2>2, <2>3, GivenKept, LockMet DEF ConsistentInv, SelectionSound, Resolving, world
<1> QED BY <1>1, <1>2

LEMMA OutsideConsistent ==
  ASSUME ConsistentInv, \/ \E p \in Project : Edit(p)
                        \/ \E n \in Package, v \in Version : Publish(n, v)
                        \/ \E n \in Package : EditLocal(n)
  PROVE  ConsistentInv'
<1>1. status' = "idle" /\ UNCHANGED <<registry, lock, read>>
  BY DEF Edit, Publish, EditLocal
<1>2. Given'
  <2>1. ASSUME NEW p \in Project, Edit(p) PROVE Given'
    BY <2>1 DEF Edit, Given, ConsistentInv
  <2>2. ASSUME NEW n \in Package, NEW v \in Version, Publish(n, v) PROVE Given'
    <3>1. /\ v \in DOMAIN registry[n] /\ published' = [published EXCEPT ![n] = @ \cup {v}]
          /\ UNCHANGED <<registry, local, project>>
      BY <2>2 DEF Publish
    <3>2. published' \in [Package -> SUBSET Version]
      BY <3>1 DEF Given, ConsistentInv
    <3>3. \A m \in Package : IsFiniteSet(published'[m]) /\ published'[m] \subseteq DOMAIN registry[m]
      <4>1. IsFiniteSet(published[n] \cup {v})
        BY FS_AddElement DEF Given, ConsistentInv
      <4> QED BY <3>1, <4>1 DEF Given, ConsistentInv
    <3> QED BY <3>1, <3>2, <3>3 DEF Given, ConsistentInv
  <2>3. ASSUME NEW n \in Package, EditLocal(n) PROVE Given'
    <3>1. /\ n \in DOMAIN local /\ UNCHANGED <<registry, published, project>>
          /\ \/ \E m \in Rewritten : local' = [local EXCEPT ![n] = m]
             \/ local' = [m \in DOMAIN local \ {n} |-> local[m]]
      BY <2>3 DEF EditLocal
    <3>2. DOMAIN local' \subseteq Package /\ \A m \in DOMAIN local' : IsManifest(local'[m])
      BY <3>1, RewrittenAssumption DEF Given, ConsistentInv
    <3> QED BY <3>1, <3>2 DEF Given, ConsistentInv
  <2> QED BY <2>1, <2>2, <2>3
<1>3. LockSound'
  BY <1>1, LockKept DEF ConsistentInv
<1> QED BY <1>1, <1>2, <1>3 DEF ConsistentInv, SelectionSound, Resolving, Consistent

LEMMA ConsistentStart ==
  ASSUME Init
  PROVE  ConsistentInv
<1>1. Given
  BY ScenarioAssumption DEF Init, Given
<1>2. lock = <<>> /\ read = <<>> /\ status = "idle"
  BY DEF Init
<1> QED BY <1>1, <1>2 DEF ConsistentInv, SelectionSound, Resolving, Consistent, LockSound

LEMMA ConsistentStep ==
  ASSUME ConsistentInv, [Next]_vars
  PROVE  ConsistentInv'
<1>1. CASE Round
  BY <1>1, RoundConsistent
<1>2. CASE Unreachable
  BY <1>2, StopConsistent DEF Unreachable, Failures
<1>3. CASE WriteLock
  BY <1>3, WriteLockConsistent
<1>4. CASE InstallLocked \/ InstallNothing
  BY <1>4, InstallConsistent
<1>5. CASE InstallFresh \/ UpdateAll
  BY <1>5, ResolveConsistent DEF InstallFresh, UpdateAll
<1>6. CASE \E n \in Package : UpdateOnly(n)
  BY <1>6, ResolveConsistent DEF UpdateOnly
<1>7. CASE \/ \E p \in Project : Edit(p)
           \/ \E n \in Package, v \in Version : Publish(n, v)
           \/ \E n \in Package : EditLocal(n)
  BY <1>7, OutsideConsistent
<1>8. CASE UNCHANGED vars
  <2>1. UNCHANGED world /\ UNCHANGED <<lock, read>> /\ selected' = selected /\ status' = status
    BY <1>8 DEF vars
  <2>2. Given'
    BY <2>1, GivenKept DEF ConsistentInv
  <2>3. SelectionSound'
    BY <2>1 DEF ConsistentInv, SelectionSound, Resolving, EntrySound, IsRange, PathRoots, world
  <2>4. LockSound'
    BY <2>1, LockKept DEF ConsistentInv, world
  <2>5. Consistent'
    <3>1. (Met(selected)' <=> Met(selected)) /\ (Met(lock)' <=> Met(lock))
      BY <2>1 DEF Met, Constraints, Dependencies, IsRange, PathDeps, PathRoots, world
    <3>2. Obeyed(selected)' <=> Obeyed(selected)
      BY <2>1 DEF Obeyed, world
    <3>3. AsRead' <=> AsRead
      BY <2>1 DEF AsRead, world
    <3> QED BY <2>1, <3>1, <3>2, <3>3 DEF ConsistentInv, Consistent
  <2> QED BY <2>2, <2>3, <2>4, <2>5 DEF ConsistentInv
<1> QED BY <1>1, <1>2, <1>3, <1>4, <1>5, <1>6, <1>7, <1>8 DEF Next

\* What a resolution ends with meets every requirement and override of the project,
\* and what sn install takes from a lock file without resolving meets every
\* requirement (docs/packages.md:29, resolve.ts:722-783), in whatever order packages
\* are published, project.toml and the packages in directories are edited and the
\* commands are given, unless a package in a directory is not as it was when the
\* lock was made.
THEOREM ConsistentTheorem == Spec => []Consistent
<1>1. Init => ConsistentInv
  BY ConsistentStart
<1>2. ConsistentInv /\ [Next]_vars => ConsistentInv'
  BY ConsistentStep
<1>3. ConsistentInv => Consistent
  BY DEF ConsistentInv
<1> QED BY <1>1, <1>2, <1>3, PTL DEF Spec

-----------------------------------------------------------------------------
(* The wish is found.                                                      *)

LEMMA SameWish ==
  ASSUME UNCHANGED <<registry, local, published, project, prefer, float>>
  PROVE  Wish' = Wish /\ (Granted' <=> Granted)
<1>1. Wish' = Wish
  BY DEF Wish, Wanted, Dependencies
<1>2. Met(Wish)' <=> Met(Wish)
  BY <1>1 DEF Met, Constraints, Dependencies, IsRange, PathDeps, PathRoots
<1>3. Malformed(Wish)' <=> Malformed(Wish)
  BY <1>1 DEF Malformed, Dependencies
<1>4. (\A n \in DOMAIN Wish : PathDeps(n, Wish[n]) = {})' <=> \A n \in DOMAIN Wish : PathDeps(n, Wish[n]) = {}
  BY <1>1 DEF PathDeps, Dependencies
<1> QED BY <1>1, <1>2, <1>3, <1>4 DEF Granted, PathRoots

LEMMA SamePart ==
  ASSUME UNCHANGED <<registry, local, published, project, prefer, float>>, NEW g, NEW r,
         selected' = g, round' = r
  PROVE  Part(selected, round)' <=> Part(g, r)
<1>1. Wish' = Wish
  BY SameWish
<1>2. Constraints(selected)' = Constraints(g)
  BY DEF Constraints, Dependencies, IsRange
<1> QED BY <1>1, <1>2 DEF Part

LEMMA WantedFacts ==
  ASSUME Given, NEW n \in Package, published[n] # {}
  PROVE  /\ Wanted(n).source = "registry" /\ Wanted(n).version \in published[n] /\ Wanted(n) # Unselected
         /\ EntrySound(n, Wanted(n))
<1> DEFINE liked == {v \in published[n] : n \in DOMAIN prefer \ float /\ prefer[n] = v}
           pool == IF liked = {} THEN published[n] ELSE liked
<1>1. pool \subseteq published[n] /\ pool # {}
  OBVIOUS
<1>2. Wanted(n) = Released(Highest(pool), FALSE)
  BY DEF Wanted
<1> HIDE DEF pool
<1>3. pool \subseteq Nat \ {0} /\ IsFiniteSet(pool)
  BY <1>1, VersionAssumption, FS_Subset DEF Given
<1>4. Highest(pool) \in published[n] /\ Highest(pool) # 0
  BY <1>1, <1>3, HighestFacts
<1>5. PICK e : e = Wanted(n)
  OBVIOUS
<1>6. e.source = "registry" /\ e.version = Highest(pool)
  BY <1>2, <1>5 DEF Released
<1> QED BY <1>4, <1>5, <1>6, Fields DEF None, EntrySound

\* The wish, name by name.
LEMMA WishFacts ==
  ASSUME Given, \A n \in Package : published[n] # {}
  PROVE  /\ DOMAIN project.roots \subseteq DOMAIN Wish /\ DOMAIN Wish \subseteq Package
         /\ \A n \in DOMAIN Wish : Wish[n] = Wanted(n)
         /\ \A B : (/\ DOMAIN project.roots \subseteq B /\ B \subseteq DOMAIN Wish
                    /\ \A n \in B : DOMAIN Dependencies(n, Wish[n]) \subseteq B)
                   => DOMAIN Wish \subseteq B
<1> DEFINE E == [m \in Package |-> DOMAIN Dependencies(m, Wanted(m))]
           R == Reached(DOMAIN project.roots, E)
<1>1. DOMAIN Wish = R /\ \A n \in DOMAIN Wish : Wish[n] = Wanted(n)
  BY DEF Wish
<1>2. DOMAIN project.roots \subseteq Package
  BY ProjectAssumption DEF Given, IsManifest
<1>3. \A n \in Package : E[n] = DOMAIN Dependencies(n, Wanted(n)) /\ E[n] \subseteq Package
  BY WantedFacts, EntryFacts DEF IsManifest
<1>4. DOMAIN E = Package
  OBVIOUS
<1> HIDE DEF E
<1>5. DOMAIN project.roots \subseteq R
  BY ReachedFacts
<1>6. R \subseteq Package
  BY <1>2, <1>3, <1>4, ReachedFacts
<1>7. ASSUME NEW B, DOMAIN project.roots \subseteq B, B \subseteq R,
             \A n \in B : DOMAIN Dependencies(n, Wish[n]) \subseteq B
      PROVE  R \subseteq B
  <2>1. ASSUME NEW n \in B \cap DOMAIN E PROVE E[n] \subseteq B
    BY <1>1, <1>3, <1>4, <1>7
  <2> QED BY <1>7, <2>1, ReachedFacts
<1> QED BY <1>1, <1>5, <1>6, <1>7

\* What the constraints of a part ask for is wished.
LEMMA PartFacts ==
  ASSUME Given, Granted, NEW g, NEW r, Part(g, r)
  PROVE  /\ Constraints(g) \subseteq Constraints(Wish) /\ ~ Malformed(g) /\ Discovered(g) = {}
         /\ \A n \in DOMAIN g : g[n] = (IF r = 0 THEN Unselected ELSE Wish[n]) /\ g[n].source = "registry"
         /\ \A c \in Constraints(Wish) : c.name \in DOMAIN Wish /\ Wish[c.name].version \in c.range
         /\ {c.name : c \in Constraints(g)} \subseteq DOMAIN Wish
<1>1. /\ Met(Wish) /\ ~ Malformed(Wish) /\ \A n \in DOMAIN Wish : PathDeps(n, Wish[n]) = {}
      /\ \A n \in Package : published[n] # {}
  BY DEF Granted
<1>2. /\ DOMAIN Wish \subseteq Package /\ \A n \in DOMAIN Wish : Wish[n] = Wanted(n)
  BY <1>1, WishFacts
<1>3. /\ DOMAIN g \subseteq DOMAIN Wish
      /\ \A n \in DOMAIN g : g[n] = IF r = 0 THEN Unselected ELSE Wish[n]
  BY DEF Part
<1>4. \A n \in DOMAIN Wish : Wish[n].source = "registry"
  BY <1>1, <1>2, WantedFacts
<1>5. \A n \in DOMAIN g : g[n].source = "registry"
  BY <1>3, <1>4, Fields
<1>6. \A n \in DOMAIN g : \A d \in DOMAIN Dependencies(n, g[n]) :
        n \in DOMAIN Wish /\ g[n] = Wish[n]
  BY <1>3, Fields DEF Dependencies
<1>7. Constraints(g) \subseteq Constraints(Wish)
  <2>1. ASSUME NEW c \in Constraints(g) PROVE c \in Constraints(Wish)
    <3>1. CASE \E n \in DOMAIN project.roots : IsRange(project.roots[n]) /\
                 c = [name |-> n, range |-> project.roots[n].range, by |-> "project"]
      BY <3>1, ConstraintFacts
    <3>2. CASE \E p \in DOMAIN g : \E d \in DOMAIN Dependencies(p, g[p]) :
                 IsRange(Dependencies(p, g[p])[d]) /\
                 c = [name |-> d, range |-> Dependencies(p, g[p])[d].range, by |-> p]
      <4>1. PICK p \in DOMAIN g : \E d \in DOMAIN Dependencies(p, g[p]) :
                 IsRange(Dependencies(p, g[p])[d]) /\
                 c = [name |-> d, range |-> Dependencies(p, g[p])[d].range, by |-> p]
        BY <3>2
      <4>2. p \in DOMAIN Wish /\ g[p] = Wish[p]
        BY <1>6, <4>1
      <4> QED BY <4>1, <4>2, ConstraintFacts
    <3> QED BY <3>1, <3>2, ConstraintFacts
  <2> QED BY <2>1
<1>8. ~ Malformed(g)
  BY <1>1, <1>6 DEF Malformed
<1>9. \A n \in DOMAIN g : PathDeps(n, g[n]) = {}
  <2>1. ASSUME NEW n \in DOMAIN g, NEW d \in PathDeps(n, g[n]) PROVE FALSE
    <3>1. d \in DOMAIN Dependencies(n, g[n])
      BY DEF PathDeps
    <3>2. n \in DOMAIN Wish /\ g[n] = Wish[n]
      BY <1>6, <3>1
    <3> QED BY <1>1, <3>2
  <2> QED BY <2>1
<1>10. Discovered(g) = {}
  BY <1>9, DiscoveredFacts
<1>11. \A c \in Constraints(Wish) : c.name \in DOMAIN Wish /\ Wish[c.name].version \in c.range
  BY <1>1, <1>4 DEF Met
<1> QED BY <1>3, <1>5, <1>7, <1>8, <1>10, <1>11

\* What is wished of a name is what is selected if the constraints admit it.
LEMMA WantedSelected ==
  ASSUME Given, Granted, NEW n \in Package, NEW cs,
         \A c \in cs : c.name = n => Wanted(n).version \in c.range
  PROVE  Problem(n, cs) = "" /\ Selection(n, cs) = Wanted(n)
<1> DEFINE liked == {v \in published[n] : n \in DOMAIN prefer \ float /\ prefer[n] = v}
           pool == IF liked = {} THEN published[n] ELSE liked
           M == Matching(n, cs)
<1>1. ~ Overridden(n) /\ published[n] # {}
  BY DEF Granted, Overridden
<1>2. Wanted(n) = Released(Highest(pool), FALSE)
  BY DEF Wanted
<1>3. Wanted(n).version \in published[n]
  BY <1>1, WantedFacts
<1>4. Wanted(n).version = Highest(pool)
  <2>1. PICK e : e = Wanted(n)
    OBVIOUS
  <2>2. e.version = Highest(pool)
    BY <1>2, <2>1 DEF Released
  <2> QED BY <2>1, <2>2
<1>5. Highest(pool) \in M /\ M \subseteq published[n]
  BY <1>3, <1>4 DEF Matching
<1>6. /\ published[n] \subseteq Nat /\ IsFiniteSet(published[n])
  BY VersionAssumption DEF Given
<1>7. /\ Highest(M) \in M /\ \A w \in M : w <= Highest(M)
      /\ Highest(published[n]) \in published[n] /\ \A w \in published[n] : w <= Highest(published[n])
  <2>1. M \subseteq Nat /\ IsFiniteSet(M) /\ M # {}
    BY <1>5, <1>6, FS_Subset
  <2> HIDE DEF M
  <2> QED BY <1>1, <1>6, <2>1, HighestFacts
<1>8. PickVersion(n, M) = Highest(pool)
  <2>1. CASE liked = {}
    <3>1. pool = published[n]
      BY <2>1
    <3>2. ~ (n \notin float /\ n \in DOMAIN prefer /\ prefer[n] \in M)
      BY <1>5, <2>1
    <3>3. Highest(M) = Highest(published[n])
      <4>1. Highest(published[n]) \in M /\ Highest(M) \in published[n]
        BY <1>5, <1>7, <3>1
      <4> HIDE DEF M, pool
      <4>2. Highest(published[n]) <= Highest(M) /\ Highest(M) <= Highest(published[n])
        BY <1>7, <4>1
      <4>3. Highest(M) \in Nat /\ Highest(published[n]) \in Nat
        BY <1>6, <1>7, <4>1
      <4> QED BY <4>2, <4>3
    <3> HIDE DEF M, pool
    <3> QED BY <3>1, <3>2, <3>3 DEF PickVersion
  <2>2. CASE liked # {}
    <3>1. n \in DOMAIN prefer /\ n \notin float /\ prefer[n] \in published[n] /\ liked = {prefer[n]}
      BY <2>2
    <3>2. Highest(pool) = prefer[n]
      <4>1. pool = {prefer[n]} /\ prefer[n] \in Nat
        BY <1>6, <2>2, <3>1
      <4> HIDE DEF pool
      <4> QED BY <4>1 DEF Highest
    <3> HIDE DEF M, pool
    <3> QED BY <1>5, <3>1, <3>2 DEF PickVersion
  <2> QED BY <2>1, <2>2
<1>9. Problem(n, cs) = ""
  BY <1>1, <1>5 DEF Problem
<1>10. Selection(n, cs) = Released(PickVersion(n, M), FALSE)
  BY <1>1 DEF Selection
<1> HIDE DEF pool, M
<1> QED BY <1>2, <1>8, <1>9, <1>10

\* A round considers the names that are constrained, all of them wished.
LEMMA PartConsidered ==
  ASSUME Given, Granted, Part(selected, round),
         NEW named, NEW found, NEW seen, NEW kept, Considers(named, found, seen, kept)
  PROVE  /\ named = {c.name : c \in Constraints(selected)} /\ found = {}
         /\ DOMAIN selected \subseteq named /\ named \subseteq DOMAIN Wish /\ named \subseteq Package
         /\ DOMAIN kept = named /\ seen = kept
         /\ \A n \in named : kept[n] = IF n \in DOMAIN selected THEN selected[n] ELSE Unselected
         /\ \A n \in named : kept[n].source = "registry"
<1>1. named = {c.name : c \in Constraints(selected)} /\ found = {}
  BY PartFacts DEF Considers
<1>2. DOMAIN selected \subseteq named
  BY <1>1 DEF Part
<1>3. named \subseteq DOMAIN Wish /\ \A n \in DOMAIN selected : selected[n].source = "registry"
  BY <1>1, PartFacts
<1>4. DOMAIN Wish \subseteq Package
  BY WishFacts DEF Granted
<1>5. Consideration(named, found, seen, kept)
  BY ConsideredFacts
<1>6. DOMAIN kept = named /\ DOMAIN seen = named
  BY <1>1, <1>2, <1>5 DEF Consideration
<1>7. \A n \in named : seen[n] = (IF n \in DOMAIN selected THEN selected[n] ELSE Unselected) /\ kept[n] = seen[n]
  BY <1>1, <1>5, <1>6 DEF Consideration
<1>8. seen = kept
  <2>1. seen = [n \in named |-> seen[n]] /\ kept = [n \in named |-> kept[n]]
    BY <1>6 DEF Considers, Over, Only
  <2> QED BY <1>7, <2>1
<1> QED BY <1>1, <1>2, <1>3, <1>4, <1>6, <1>7, <1>8, Fields

\* Each of them is selected as wished, without a problem.
LEMMA PartSelected ==
  ASSUME Given, Granted, Part(selected, round), NEW n \in Package, n \in DOMAIN Wish
  PROVE  Problem(n, Constraints(selected)) = "" /\ Selection(n, Constraints(selected)) = Wish[n]
<1>1. Wish[n] = Wanted(n)
  BY WishFacts DEF Granted
<1>2. \A c \in Constraints(selected) : c.name = n => Wanted(n).version \in c.range
  BY <1>1, PartFacts
<1> QED BY <1>1, <1>2, WantedSelected

LEMMA PartGoesOn ==
  ASSUME Given, Granted, Part(selected, round)
  PROVE  ~ GivesUp
<1>1. ASSUME NEW named, NEW found, NEW seen, NEW kept, Considers(named, found, seen, kept)
      PROVE  /\ found = {} /\ \A n \in named : Problem(n, Constraints(selected)) = ""
  <2>1. found = {} /\ named \subseteq DOMAIN Wish /\ named \subseteq Package
    BY <1>1, PartConsidered
  <2> QED BY <2>1, PartSelected
<1>2. ~ Malformed(selected)
  BY PartFacts
<1> QED BY <1>1, <1>2 DEF GivesUp

LEMMA PartTurn ==
  ASSUME MaxRounds > Cardinality(Package), Given, Granted, Part(selected, round),
         NEW named, NEW found, NEW seen, NEW kept, NEW next, Turn(named, found, seen, kept, next)
  PROVE  \/ status' = "resolved" /\ selected' = Wish
         \/ status' = "resolving" /\ Part(selected', round')
<1>1. /\ Considers(named, found, seen, kept)
      /\ next = [n \in DOMAIN kept |-> IF n \in named /\ kept[n].source # "path"
                                       THEN Selection(n, Constraints(selected)) ELSE kept[n]]
      /\ selected' = next
      /\ IF seen # selected \/ kept # seen \/ next # kept
         THEN round' = round + 1 /\ status' = IF round = MaxRounds - 1 THEN "diverged" ELSE "resolving"
         ELSE round' = round /\ status' = "resolved"
  BY DEF Turn
<1>2. /\ named = {c.name : c \in Constraints(selected)} /\ found = {}
      /\ DOMAIN selected \subseteq named /\ named \subseteq DOMAIN Wish /\ named \subseteq Package
      /\ DOMAIN kept = named /\ seen = kept
      /\ \A n \in named : kept[n] = IF n \in DOMAIN selected THEN selected[n] ELSE Unselected
      /\ \A n \in named : kept[n].source = "registry"
  BY <1>1, PartConsidered
<1>3. next = [n \in named |-> Wish[n]]
  <2>1. \A n \in named : Selection(n, Constraints(selected)) = Wish[n]
    BY <1>2, PartSelected
  <2> QED BY <1>1, <1>2, <2>1
<1>4. DOMAIN project.roots \subseteq named
  BY <1>2 DEF Part
<1>5. CASE ~ (seen # selected \/ kept # seen \/ next # kept)
  <2>1. selected = next /\ named = DOMAIN selected
    BY <1>2, <1>3, <1>5
  <2>2. ASSUME NEW n \in named, NEW d \in DOMAIN Dependencies(n, Wish[n]) PROVE d \in named
    <3>1. n \in DOMAIN selected /\ selected[n] = Wish[n]
      BY <1>3, <2>1
    <3>2. Dependencies(n, Wish[n])[d].kind \in {"version", "path", "invalid"}
      BY <1>2, WishFacts, WantedFacts, EntryFacts DEF Granted, IsManifest
    <3>3. Dependencies(n, Wish[n])[d].kind # "path" /\ Dependencies(n, Wish[n])[d].kind # "invalid"
      BY <1>2 DEF Granted, Malformed, PathDeps
    <3>4. [name |-> d, range |-> Dependencies(n, selected[n])[d].range, by |-> n] \in Constraints(selected)
      BY <3>1, <3>2, <3>3, ConstraintFacts DEF IsRange
    <3>5. PICK c \in Constraints(selected) : c = [name |-> d, range |-> Dependencies(n, selected[n])[d].range, by |-> n]
      BY <3>4
    <3>6. c.name = d
      BY <3>5
    <3> QED BY <1>2, <3>5, <3>6
  <2>3. DOMAIN Wish \subseteq named
    BY <1>2, <1>4, <2>2, WishFacts DEF Granted
  <2>4. next = Wish
    <3>1. Wish = [n \in DOMAIN Wish |-> Wish[n]]
      BY DEF Wish
    <3> QED BY <1>2, <1>3, <2>3, <3>1
  <2> QED BY <1>1, <1>5, <2>4
<1>6. CASE seen # selected \/ kept # seen \/ next # kept
  <2>1. /\ round' = round + 1
        /\ status' = IF round = MaxRounds - 1 THEN "diverged" ELSE "resolving"
    BY <1>1, <1>6
  <2>2. IsFiniteSet(named) /\ Cardinality(named) \in Nat /\ Cardinality(named) <= Cardinality(Package)
    BY <1>2, PackageAssumption, FS_Subset, FS_CardinalityType
  <2>3. round \in Nat /\ round <= Cardinality(DOMAIN selected)
    BY DEF Part
  <2>4. round + 1 <= Cardinality(named)
    <3>1. CASE round = 0
      <4>1. named # {}
        BY <1>4 DEF Granted
      <4> QED BY <2>2, <3>1, <4>1, FS_EmptySet
    <3>2. CASE round # 0
      <4>1. selected = [n \in DOMAIN selected |-> Wish[n]]
        BY <3>2 DEF Part
      <4>2. ASSUME named = DOMAIN selected PROVE FALSE
        <5>1. selected = [n \in named |-> Wish[n]]
          BY <4>1, <4>2
        <5>2. kept = [n \in named |-> selected[n]]
          <6>1. kept = [n \in DOMAIN kept |-> kept[n]]
            BY <1>1 DEF Considers, Only
          <6> QED BY <1>2, <4>2, <6>1
        <5>3. kept = selected
          BY <4>2, <5>1, <5>2
        <5> QED BY <1>2, <1>3, <1>6, <5>1, <5>3
      <4>3. Cardinality(DOMAIN selected) < Cardinality(named) /\ Cardinality(DOMAIN selected) \in Nat
        BY <1>2, <2>2, <4>2, FS_Subset, FS_CardinalityType
      <4> QED BY <2>2, <2>3, <4>3
    <3> QED BY <3>1, <3>2
  <2>5. status' = "resolving"
    BY <2>1, <2>2, <2>3, <2>4, RoundsAssumption, PackageAssumption, FS_CardinalityType
  <2>6. named \subseteq {c.name : c \in Constraints(next)}
    <3>1. ASSUME NEW c \in Constraints(selected) PROVE c \in Constraints(next)
      <4>1. CASE \E n \in DOMAIN project.roots : IsRange(project.roots[n]) /\
                   c = [name |-> n, range |-> project.roots[n].range, by |-> "project"]
        BY <4>1, ConstraintFacts
      <4>2. CASE \E p \in DOMAIN selected : \E d \in DOMAIN Dependencies(p, selected[p]) :
                   IsRange(Dependencies(p, selected[p])[d]) /\
                   c = [name |-> d, range |-> Dependencies(p, selected[p])[d].range, by |-> p]
        <5>1. PICK p \in DOMAIN selected : \E d \in DOMAIN Dependencies(p, selected[p]) :
                   IsRange(Dependencies(p, selected[p])[d]) /\
                   c = [name |-> d, range |-> Dependencies(p, selected[p])[d].range, by |-> p]
          BY <4>2
        <5>2. selected[p] = IF round = 0 THEN Unselected ELSE Wish[p]
          BY PartFacts
        <5>3. selected[p] = next[p] /\ p \in DOMAIN next
          BY <1>2, <1>3, <5>1, <5>2, Fields DEF Dependencies
        <5> QED BY <5>1, <5>3, ConstraintFacts
      <4> QED BY <4>1, <4>2, ConstraintFacts
    <3> QED BY <1>2, <3>1
  <2>7. next = [n \in DOMAIN next |-> IF round + 1 = 0 THEN Unselected ELSE Wish[n]] /\ DOMAIN next = named
    BY <1>3, <2>3
  <2>8. Part(next, round + 1)
    <3>1. /\ DOMAIN project.roots \subseteq DOMAIN next /\ DOMAIN next \subseteq DOMAIN Wish
          /\ DOMAIN next \subseteq {c.name : c \in Constraints(next)}
          /\ round + 1 <= Cardinality(DOMAIN next)
      BY <1>2, <1>4, <2>4, <2>6, <2>7
    <3>2. round + 1 \in Nat
      BY <2>3
    <3> HIDE DEF Part
    <3> QED BY <2>7, <3>1, <3>2, Zenon DEF Part
  <2> QED BY <1>1, <2>1, <2>5, <2>8
<1> QED BY <1>5, <1>6

LEMMA RoundWish ==
  ASSUME MaxRounds > Cardinality(Package), Given, WishInv, Round
  PROVE  WishInv'
<1>1. status = "resolving"
  BY DEF Round
<1>2. CASE ~ Granted
  <2>1. UNCHANGED <<registry, local, published, project, prefer, float>>
    BY DEF Round, Stop, world
  <2> QED BY <1>2, <2>1, SameWish DEF WishInv
<1>3. CASE Granted
  <2>1. Part(selected, round)
    BY <1>1, <1>3 DEF WishInv
  <2>2. PICK named, found, seen, kept, next : Turn(named, found, seen, kept, next)
    BY <1>3, <2>1, PartGoesOn, RoundCases
  <2>3. UNCHANGED <<registry, local, published, project, prefer, float>>
    BY <2>2 DEF Turn, world
  <2>4. CASE status' = "resolved" /\ selected' = Wish
    BY <2>3, <2>4, SameWish DEF WishInv, Failures
  <2>5. CASE status' = "resolving" /\ Part(selected', round')
    <3>1. Part(selected, round)'
      <4>1. PICK g, r : g = selected' /\ r = round'
        OBVIOUS
      <4>2. Part(g, r)
        BY <2>5, <4>1
      <4> QED BY <2>3, <4>1, <4>2, SamePart
    <3> QED BY <2>5, <3>1 DEF WishInv, Failures
  <2> QED BY <1>3, <2>1, <2>2, <2>4, <2>5, PartTurn
<1> QED BY <1>2, <1>3

LEMMA ResolveWish ==
  ASSUME Given, NEW p, NEW f, Resolve(p, f)
  PROVE  WishInv'
<1>1. /\ selected' = IF PathRoots \subseteq DOMAIN local THEN Seed ELSE selected
      /\ status' = IF PathRoots \subseteq DOMAIN local THEN "resolving" ELSE "no directory"
      /\ round' = 0 /\ UNCHANGED world
  BY DEF Resolve
<1>2. ASSUME Granted' PROVE status' = "resolving" /\ Part(selected, round)'
  <2>1. PathRoots = {} /\ PathRoots' = {}
    BY <1>1, <1>2 DEF Granted, PathRoots, world
  <2>2. selected' = Seed /\ status' = "resolving"
    BY <1>1, <2>1
  <2>3. DOMAIN Seed = DOMAIN project.roots /\ Seed = [n \in DOMAIN Seed |-> Unselected]
    BY <2>1 DEF Seed
  <2>4. \A n \in DOMAIN project.roots : n \in Package /\ IsRange(project.roots[n])
    BY <2>1, ProjectAssumption DEF Given, IsManifest, PathRoots, IsRange
  <2>5. ASSUME NEW n \in DOMAIN project.roots PROVE n \in {c.name : c \in Constraints(Seed)}
    <3>1. PICK c \in Constraints(Seed) : c = [name |-> n, range |-> project.roots[n].range, by |-> "project"]
      BY <2>4, ConstraintFacts
    <3>2. c.name = n
      BY <3>1
    <3> QED BY <3>1, <3>2
  <2>6. DOMAIN Wish' = Reached(DOMAIN project.roots, [m \in Package |-> DOMAIN Dependencies(m, Wanted(m))]')
    BY <1>1 DEF Wish, world
  <2>7. DOMAIN project.roots \subseteq DOMAIN Wish'
    BY <2>6, ReachedFacts
  <2>8. Constraints(selected)' = Constraints(Seed)
    <3>1. PICK g : g = Seed
      OBVIOUS
    <3>2. selected' = g
      BY <2>2, <3>1
    <3>3. UNCHANGED <<registry, local, project>>
      BY <1>1 DEF world
    <3>4. Constraints(selected)' = Constraints(g)
      BY <3>2, <3>3 DEF Constraints, Dependencies, IsRange
    <3> QED BY <3>1, <3>4
  <2>9. Cardinality(DOMAIN project.roots) \in Nat
    BY <2>4, PackageAssumption, FS_Subset, FS_CardinalityType
  <2>10. UNCHANGED project
    BY <1>1 DEF world
  <2>11. Part(selected, round)'
    <3>1. /\ DOMAIN project'.roots \subseteq DOMAIN selected' /\ DOMAIN selected' \subseteq DOMAIN Wish'
          /\ round' \in Nat /\ round' <= Cardinality(DOMAIN selected')
      BY <1>1, <2>2, <2>3, <2>7, <2>9, <2>10
    <3>2. DOMAIN selected' \subseteq {c.name : c \in Constraints(selected)'}
      BY <2>2, <2>3, <2>5, <2>8
    <3>3. selected' = [n \in DOMAIN selected' |-> IF round' = 0 THEN Unselected ELSE Wish'[n]]
      BY <1>1, <2>2, <2>3
    <3> QED BY <3>1, <3>2, <3>3 DEF Part
  <2> QED BY <2>2, <2>11
<1> QED BY <1>2 DEF WishInv, Failures

LEMMA WishStep ==
  ASSUME MaxRounds > Cardinality(Package), Given, WishInv, [Next]_vars
  PROVE  WishInv'
<1>1. CASE Round
  BY <1>1, RoundWish
<1>2. CASE InstallFresh \/ UpdateAll
  BY <1>2, ResolveWish DEF InstallFresh, UpdateAll
<1>3. CASE \E n \in Package : UpdateOnly(n)
  BY <1>3, ResolveWish DEF UpdateOnly
<1>4. CASE \/ Unreachable \/ WriteLock \/ InstallLocked \/ InstallNothing
           \/ \E p \in Project : Edit(p)
           \/ \E n \in Package, v \in Version : Publish(n, v)
           \/ \E n \in Package : EditLocal(n)
  <2>1. status' \in {"failed", "installed", "idle", "missing"}
    BY <1>4 DEF Unreachable, Stop, WriteLock, InstallLocked, InstallNothing, Edit, Publish, EditLocal
  <2> QED BY <2>1 DEF WishInv, Failures
<1>5. CASE UNCHANGED vars
  <2>1. /\ UNCHANGED <<registry, local, published, project, prefer, float>>
        /\ selected' = selected /\ round' = round /\ status' = status
    BY <1>5 DEF vars, world
  <2>2. Part(selected, round)' <=> Part(selected, round)
    <3>1. PICK g, r : g = selected /\ r = round
      OBVIOUS
    <3> QED BY <2>1, <3>1, SamePart
  <2> QED BY <2>1, <2>2, SameWish DEF WishInv
<1> QED BY <1>1, <1>2, <1>3, <1>4, <1>5 DEF Next

\* With more rounds than there are packages, a selection that only wishes what the
\* ranges admit is found, the one of a lock file or the newest one (pickVersion,
\* resolve.ts:442-457): no round passes by it, and none gives up before it.
THEOREM FindsWishTheorem ==
  ASSUME MaxRounds > Cardinality(Package)
  PROVE  Spec => []FindsWish
<1>1. Init => ConsistentInv /\ WishInv
  BY ConsistentStart DEF Init, WishInv, Failures
<1>2. (ConsistentInv /\ WishInv) /\ [Next]_vars => (ConsistentInv /\ WishInv)'
  BY ConsistentStep, WishStep DEF ConsistentInv
<1>3. WishInv => FindsWish
  BY DEF WishInv, FindsWish, Granted, Failures
<1> QED BY <1>1, <1>2, <1>3, PTL DEF Spec

-----------------------------------------------------------------------------
(* What packages may need.                                                 *)

\* The walk ends: what is reached is closed, since each step that adds something
\* adds a package.
LEMMA ReachedClosed ==
  ASSUME NEW A, NEW E, A \subseteq Package, \A n \in DOMAIN E : E[n] \subseteq Package
  PROVE  /\ Reached(A, E) \subseteq Package
         /\ \A n \in Reached(A, E) \cap DOMAIN E : E[n] \subseteq Reached(A, E)
<1> DEFINE m == Cardinality(Package)
           w == CHOOSE v : IsWalk(v, A, E, m)
<1>1. m \in Nat
  BY PackageAssumption, FS_CardinalityType
<1>2. IsWalk(w, A, E, m)
  BY <1>1, WalkExists
<1>3. Reached(A, E) = w[m]
  BY DEF Reached, IsWalk
<1>0. m = Cardinality(Package)
  OBVIOUS
<1> HIDE DEF m, w
<1>4. w[0] = A /\ \A k \in 1..m : w[k] = w[k - 1] \cup UNION {E[n] : n \in w[k - 1] \cap DOMAIN E}
  BY <1>1, <1>2 DEF IsWalk
<1> DEFINE Closed(s) == \A n \in s \cap DOMAIN E : E[n] \subseteq s
           Grown(k) == w[k] \subseteq Package /\ (Closed(w[k]) \/ k < Cardinality(w[k]))
           T == {k \in 0..m : ~ Grown(k)}
<1>5. ASSUME NEW s, s \subseteq Package PROVE IsFiniteSet(s) /\ Cardinality(s) \in Nat /\ Cardinality(s) <= m
  BY <1>0, <1>5, PackageAssumption, FS_Subset, FS_CardinalityType
<1>6. ASSUME T # {} PROVE FALSE
  <2>1. PICK k \in T : \A j \in T : ~ (j < k)
    <3>1. T \subseteq Nat
      OBVIOUS
    <3> HIDE DEF T
    <3> QED BY <1>6, <3>1, FirstOf
  <2>2. CASE k = 0
    <3>1. A = {} => Closed(A)
      OBVIOUS
    <3>2. A # {} => 0 < Cardinality(A)
      BY <1>5, FS_EmptySet
    <3>3. ~ Grown(0)
      BY <2>1, <2>2
    <3> HIDE DEF Closed
    <3> QED BY <1>4, <3>1, <3>2, <3>3
  <2>3. CASE k # 0
    <3>1. k \in 1..m /\ k - 1 \in 0..m /\ k - 1 < k /\ k \in Nat
      BY <1>1, <2>1, <2>3
    <3>2. Grown(k - 1) /\ ~ Grown(k)
      BY <2>1, <3>1
    <3>3. PICK s, t : s = w[k - 1] /\ t = w[k]
      OBVIOUS
    <3>4. t = s \cup UNION {E[n] : n \in s \cap DOMAIN E} /\ s \subseteq Package
      BY <1>4, <3>1, <3>2, <3>3
    <3>5. t \subseteq Package /\ s \subseteq t
      BY <3>4
    <3>6. Closed(s) => t = s
      BY <3>4
    <3>7. ~ Closed(s) => t # s
      BY <3>4
    <3> HIDE DEF Closed
    <3>8. CASE Closed(s)
      BY <3>2, <3>3, <3>5, <3>6, <3>8
    <3>9. CASE ~ Closed(s)
      <4>1. t # s /\ k - 1 < Cardinality(s)
        BY <3>2, <3>3, <3>7, <3>9
      <4>2. Cardinality(s) < Cardinality(t) /\ Cardinality(s) \in Nat /\ Cardinality(t) \in Nat
        BY <1>5, <3>4, <3>5, <4>1, FS_Subset
      <4> QED BY <3>1, <3>2, <3>3, <3>5, <4>1, <4>2
    <3> QED BY <3>8, <3>9
  <2> QED BY <2>2, <2>3
<1>7. Grown(m)
  BY <1>1, <1>6
<1>8. Closed(w[m])
  BY <1>1, <1>5, <1>7
<1> QED BY <1>3, <1>7, <1>8

\* What is reached is started from or follows on something, that is reached too if
\* the names are packages.
LEMMA Unfold ==
  ASSUME NEW A, NEW E, NEW x \in Reached(A, E)
  PROVE  /\ x \in A \/ \E n \in DOMAIN E : x \in E[n]
         /\ A \subseteq Package /\ (\A n \in DOMAIN E : E[n] \subseteq Package) =>
              x \in A \/ \E n \in Reached(A, E) \cap DOMAIN E : x \in E[n]
<1> DEFINE B == A \cup UNION {E[n] : n \in DOMAIN E}
           C == A \cup UNION {E[n] : n \in Reached(A, E) \cap DOMAIN E}
<1>1. Reached(A, E) \subseteq B
  <2>1. A \subseteq B /\ \A n \in B \cap DOMAIN E : E[n] \subseteq B
    OBVIOUS
  <2> HIDE DEF B
  <2> QED BY <2>1, ReachedFacts
<1>2. ASSUME A \subseteq Package, \A n \in DOMAIN E : E[n] \subseteq Package PROVE Reached(A, E) \subseteq C
  <2>1. A \subseteq Reached(A, E) /\ \A n \in Reached(A, E) \cap DOMAIN E : E[n] \subseteq Reached(A, E)
    BY <1>2, ReachedFacts, ReachedClosed
  <2>2. A \subseteq C /\ \A n \in C \cap DOMAIN E : E[n] \subseteq C
    BY <2>1
  <2> HIDE DEF C
  <2> QED BY <2>2, ReachedFacts
<1> QED BY <1>1, <1>2

\* What one walk reaches within V another one reaches, if it goes all the ways that
\* lead into V.
LEMMA ReachedWithin ==
  ASSUME NEW A, NEW E, NEW B, NEW F, NEW V, A \cap V \subseteq B,
         B \subseteq Package, \A n \in DOMAIN F : F[n] \subseteq Package,
         \A n \in DOMAIN E : \A d \in E[n] \cap V : n \in V /\ n \in DOMAIN F /\ d \in F[n]
  PROVE  Reached(A, E) \cap V \subseteq Reached(B, F)
<1> DEFINE R == Reached(B, F)
           C == {x \in Reached(A, E) \cup A \cup UNION {E[n] : n \in DOMAIN E} : x \in V => x \in R}
<1>1. B \subseteq R /\ \A n \in R \cap DOMAIN F : F[n] \subseteq R
  BY ReachedFacts, ReachedClosed
<1> HIDE DEF R
<1>2. A \subseteq C
  BY <1>1
<1>3. \A n \in C \cap DOMAIN E : E[n] \subseteq C
  BY <1>1
<1>4. Reached(A, E) \subseteq C
  <2> HIDE DEF C
  <2> QED BY <1>2, <1>3, ReachedFacts
<1> QED BY <1>4 DEF R

Needs == [m \in Package |-> MayNeed(m)]

\* The packages that may need n, directly or not.
Above(n) == {m \in Package : n \in Reached(MayNeed(m), Needs)}

Level(n) == Cardinality(Above(n))

LEMMA NeedFacts ==
  ASSUME Given, NEW n
  PROVE  /\ n \in Package => MayNeed(n) \subseteq Package
         /\ \A m \in ManifestsOf(n) : DOMAIN m \subseteq MayNeed(n)
         /\ \A e : EntrySound(n, e) /\ DOMAIN Dependencies(n, e) # {} => Dependencies(n, e) \in ManifestsOf(n)
         /\ \A e : EntrySound(n, e) => DOMAIN Dependencies(n, e) \subseteq MayNeed(n)
<1>1. ASSUME n \in Package, NEW m \in ManifestsOf(n) PROVE DOMAIN m \subseteq Package
  BY <1>1 DEF ManifestsOf, Given, IsManifest
<1>2. \A m \in ManifestsOf(n) : DOMAIN m \subseteq MayNeed(n)
  BY DEF MayNeed
<1>3. n \in Package => MayNeed(n) \subseteq Package
  BY <1>1 DEF MayNeed
<1>4. ASSUME NEW e, EntrySound(n, e), DOMAIN Dependencies(n, e) # {}
      PROVE  Dependencies(n, e) \in ManifestsOf(n)
  <2>1. e.version # None
    BY <1>4 DEF Dependencies
  <2>2. CASE e.source = "path"
    BY <1>4, <2>1, <2>2 DEF EntrySound, Dependencies, ManifestsOf
  <2>3. CASE e.source # "path"
    <3>1. n \in Package /\ e.version \in DOMAIN registry[n] /\ Dependencies(n, e) = registry[n][e.version]
      BY <1>4, <2>1, <2>3 DEF EntrySound, Given, Dependencies
    <3> QED BY <3>1 DEF ManifestsOf
  <2> QED BY <2>2, <2>3
<1> QED BY <1>2, <1>3, <1>4

LEMMA AboveFacts ==
  ASSUME Given
  PROVE  /\ \A n : Above(n) \subseteq Package
         /\ \A n : \A m \in Package : n \in MayNeed(m) => m \in Above(n)
         /\ \A n : \A m \in Above(n) : Above(m) \subseteq Above(n)
         /\ Acyclic => \A n \in Package : n \notin Above(n)
<1>1. /\ DOMAIN Needs = Package /\ \A n \in Package : Needs[n] = MayNeed(n) /\ MayNeed(n) \subseteq Package
  BY NeedFacts DEF Needs
<1>2. ASSUME NEW n, NEW m \in Package, n \in MayNeed(m) PROVE m \in Above(n)
  BY <1>2, ReachedFacts DEF Above
<1>3. ASSUME NEW n, NEW m \in Above(n), NEW k \in Above(m) PROVE k \in Above(n)
  <2>1. k \in Package /\ m \in Package /\ m \in Reached(MayNeed(k), Needs) /\ n \in Reached(MayNeed(m), Needs)
    BY <1>3 DEF Above
  <2>2. \A x \in Reached(MayNeed(k), Needs) \cap DOMAIN Needs : Needs[x] \subseteq Reached(MayNeed(k), Needs)
    BY <1>1, <2>1, ReachedClosed
  <2>3. MayNeed(m) \subseteq Reached(MayNeed(k), Needs)
    BY <1>1, <2>1, <2>2
  <2>4. Reached(MayNeed(m), Needs) \subseteq Reached(MayNeed(k), Needs)
    BY <2>2, <2>3, ReachedFacts
  <2> QED BY <2>1, <2>4 DEF Above
<1>4. ASSUME Acyclic, NEW n \in Package PROVE n \notin Above(n)
  BY <1>4 DEF Acyclic, Above, Needs
<1> QED BY <1>2, <1>3, <1>4 DEF Above

LEMMA LevelFacts ==
  ASSUME Given, Acyclic, NEW n \in Package
  PROVE  /\ Level(n) \in Nat /\ Level(n) < Cardinality(Package)
         /\ \A m \in Above(n) : Level(m) \in Nat /\ Level(m) < Level(n)
<1>1. IsFiniteSet(Package) /\ Cardinality(Package) \in Nat
  BY PackageAssumption, FS_CardinalityType
<1>2. ASSUME NEW S, S \subseteq Package, NEW R, R \subseteq S, R # S
      PROVE  Cardinality(R) \in Nat /\ Cardinality(S) \in Nat /\ Cardinality(R) < Cardinality(S)
  <2>1. IsFiniteSet(S) /\ IsFiniteSet(R)
    BY <1>1, <1>2, FS_Subset
  <2> QED BY <1>2, <2>1, FS_Subset, FS_CardinalityType
<1>3. Above(n) \subseteq Package /\ n \notin Above(n)
  BY AboveFacts
<1>4. Level(n) \in Nat /\ Level(n) < Cardinality(Package)
  BY <1>2, <1>3 DEF Level
<1>5. ASSUME NEW m \in Above(n) PROVE Level(m) \in Nat /\ Level(m) < Level(n)
  <2>1. Above(m) \subseteq Above(n) /\ m \notin Above(m)
    BY <1>3, AboveFacts
  <2> QED BY <1>2, <1>3, <2>1 DEF Level
<1> QED BY <1>4, <1>5

\* Unless packages need each other in a circle, what passes from the packages that
\* need a package to the package holds of all.
LEMMA Descent ==
  ASSUME Given, Acyclic, NEW S, S \subseteq Package, S # {}
  PROVE  \E n \in S : Above(n) \cap S = {}
<1> DEFINE T == {Level(n) : n \in S}
<1>1. T \subseteq Nat /\ T # {}
  BY LevelFacts
<1>2. PICK i \in T : \A j \in T : ~ (j < i)
  <2> HIDE DEF T
  <2> QED BY <1>1, FirstOf
<1>3. PICK n \in S : i = Level(n)
  BY <1>2
<1>4. ASSUME NEW m \in Above(n) \cap S PROVE FALSE
  BY <1>2, <1>3, <1>4, LevelFacts
<1> QED BY <1>4

-----------------------------------------------------------------------------
(* The selection that a round makes of g.                                  *)

Named(g) == {c.name : c \in Constraints(g)}
SeenOf(g) == Over(Over(g, Discovered(g), InDirectory), Named(g), Unselected)
KeptOf(g) == Only(SeenOf(g), Reachable(SeenOf(g), Named(g)) \cup PathRoots)
After(g) ==
  [n \in DOMAIN KeptOf(g) |->
     IF n \in Named(g) /\ KeptOf(g)[n].source # "path" THEN Selection(n, Constraints(g)) ELSE KeptOf(g)[n]]

Sound(g) == (\A n \in DOMAIN g : EntrySound(n, g[n])) /\ Discovered(g) \subseteq DOMAIN local

\* g and h have the same entry of n, or none.
Same(g, h, n) == (n \in DOMAIN g <=> n \in DOMAIN h) /\ (n \in DOMAIN g => g[n] = h[n])

SameAbove(g, h, n) == \A m \in Above(n) : Same(g, h, m)

LEMMA SameFacts ==
  ASSUME Given, NEW g, NEW h, NEW n, SameAbove(g, h, n)
  PROVE  SameAbove(h, g, n) /\ \A m \in Above(n) : SameAbove(g, h, m)
<1>1. SameAbove(h, g, n)
  BY DEF SameAbove, Same
<1>2. ASSUME NEW m \in Above(n) PROVE SameAbove(g, h, m)
  BY AboveFacts DEF SameAbove
<1> QED BY <1>1, <1>2

\* What needs a name is above it.
LEMMA NeededFrom ==
  ASSUME Given, NEW p, NEW e, EntrySound(p, e), NEW d \in DOMAIN Dependencies(p, e)
  PROVE  p \in Above(d)
<1>1. p \in Package /\ d \in MayNeed(p)
  BY NeedFacts DEF EntrySound
<1> QED BY <1>1, AboveFacts

\* The same packages above a name constrain it in the same way.
LEMMA SameConstraints ==
  ASSUME Given, NEW g, NEW h, Sound(g), NEW n, SameAbove(g, h, n),
         NEW c \in Constraints(g), c.name = n
  PROVE  c \in Constraints(h)
<1>1. CASE \E m \in DOMAIN project.roots : IsRange(project.roots[m]) /\
             c = [name |-> m, range |-> project.roots[m].range, by |-> "project"]
  BY <1>1, ConstraintFacts
<1>2. CASE \E p \in DOMAIN g : \E d \in DOMAIN Dependencies(p, g[p]) :
             IsRange(Dependencies(p, g[p])[d]) /\
             c = [name |-> d, range |-> Dependencies(p, g[p])[d].range, by |-> p]
  <2>1. PICK p \in DOMAIN g : \E d \in DOMAIN Dependencies(p, g[p]) :
             IsRange(Dependencies(p, g[p])[d]) /\
             c = [name |-> d, range |-> Dependencies(p, g[p])[d].range, by |-> p]
    BY <1>2
  <2>2. PICK d \in DOMAIN Dependencies(p, g[p]) : c = [name |-> d, range |-> Dependencies(p, g[p])[d].range, by |-> p]
    BY <2>1
  <2>3. p \in Above(n)
    <3>1. d = n
      BY <2>2
    <3> QED BY <3>1, NeededFrom DEF Sound
  <2>4. p \in DOMAIN h /\ h[p] = g[p]
    BY <2>3 DEF SameAbove, Same
  <2> QED BY <2>1, <2>4, ConstraintFacts
<1> QED BY <1>1, <1>2, ConstraintFacts

LEMMA SameSelection ==
  ASSUME Given, NEW g, NEW h, Sound(g), Sound(h), NEW n, SameAbove(g, h, n)
  PROVE  /\ n \in Named(g) <=> n \in Named(h)
         /\ Selection(n, Constraints(g)) = Selection(n, Constraints(h))
<1>1. \A c \in Constraints(g) : c.name = n => c \in Constraints(h)
  BY SameConstraints
<1>2. \A c \in Constraints(h) : c.name = n => c \in Constraints(g)
  BY SameConstraints, SameFacts
<1>3. Matching(n, Constraints(g)) = Matching(n, Constraints(h))
  BY <1>1, <1>2 DEF Matching
<1> QED BY <1>1, <1>2, <1>3 DEF Named, Selection

\* A selected package or one that is discovered needs n from its directory.
FoundFor(g, n) ==
  \/ \E p \in DOMAIN g : n \in PathDeps(p, g[p])
  \/ \E p \in Discovered(g) : n \in PathDeps(p, InDirectory)

\* Discovering, as a walk.
FirstFound(g) == (UNION {PathDeps(n, g[n]) : n \in DOMAIN g}) \ DOMAIN g
NextFound(g) == [n \in DOMAIN local |-> PathDeps(n, InDirectory) \ DOMAIN g]

LEMMA InDirectorySound ==
  ASSUME Given, NEW n \in DOMAIN local
  PROVE  EntrySound(n, InDirectory)
BY Fields DEF Given, EntrySound

LEMMA FoundWalk ==
  ASSUME Given, NEW g, Sound(g)
  PROVE  /\ Discovered(g) = Reached(FirstFound(g), NextFound(g))
         /\ FirstFound(g) \subseteq Package /\ DOMAIN NextFound(g) = DOMAIN local
         /\ \A n \in DOMAIN local : NextFound(g)[n] = PathDeps(n, InDirectory) \ DOMAIN g
         /\ \A n \in DOMAIN NextFound(g) : NextFound(g)[n] \subseteq Package
<1>1. \A n \in DOMAIN g : PathDeps(n, g[n]) \subseteq Package
  BY EntryFacts DEF Sound, PathDeps, IsManifest
<1>2. \A n \in DOMAIN local : PathDeps(n, InDirectory) \subseteq Package
  BY InDirectorySound, EntryFacts DEF PathDeps, IsManifest
<1>3. FirstFound(g) \subseteq Package
  BY <1>1 DEF FirstFound
<1> QED BY <1>2, <1>3 DEF NextFound, Discovered, FirstFound

LEMMA DiscoveredIff ==
  ASSUME Given, NEW g, Sound(g), NEW n
  PROVE  n \in Discovered(g) <=> n \notin DOMAIN g /\ FoundFor(g, n)
<1>1. Discovered(g) \subseteq DOMAIN local
  BY DEF Sound
<1>2. /\ FirstFound(g) \subseteq Discovered(g)
      /\ \A m \in Discovered(g) : PathDeps(m, InDirectory) \ DOMAIN g \subseteq Discovered(g)
  BY <1>1, FoundWalk, ReachedFacts, ReachedClosed
<1>3. ASSUME n \in Discovered(g) PROVE n \notin DOMAIN g /\ FoundFor(g, n)
  <2>1. n \in FirstFound(g) \/ \E m \in Discovered(g) : n \in PathDeps(m, InDirectory) \ DOMAIN g
    BY <1>1, <1>3, FoundWalk, Unfold
  <2> QED BY <2>1 DEF FirstFound, FoundFor
<1>4. ASSUME n \notin DOMAIN g, FoundFor(g, n) PROVE n \in Discovered(g)
  <2>1. CASE \E p \in DOMAIN g : n \in PathDeps(p, g[p])
    <3>1. n \in FirstFound(g)
      BY <1>4, <2>1 DEF FirstFound
    <3> QED BY <1>2, <3>1
  <2>2. CASE \E p \in Discovered(g) : n \in PathDeps(p, InDirectory)
    BY <1>2, <1>4, <2>2
  <2> QED BY <1>4, <2>1, <2>2 DEF FoundFor
<1> QED BY <1>3, <1>4

\* The same packages above a name lead to the same directories above it, and to its
\* own or not.
LEMMA SameDiscovered ==
  ASSUME Given, NEW g, NEW h, Sound(g), Sound(h), NEW n, SameAbove(g, h, n), NEW m \in Above(n), m \in Discovered(g)
  PROVE  m \in Discovered(h)
<1>1. ASSUME NEW d \in FirstFound(g) \cap Above(n) PROVE d \in FirstFound(h)
  <2>1. d \notin DOMAIN h
    BY <1>1 DEF SameAbove, Same, FirstFound
  <2>2. PICK p \in DOMAIN g : d \in PathDeps(p, g[p])
    BY <1>1 DEF FirstFound
  <2>3. p \in Above(d)
    BY <2>2, NeededFrom DEF Sound, PathDeps
  <2>4. p \in DOMAIN h /\ h[p] = g[p]
    BY <1>1, <2>3, AboveFacts DEF SameAbove, Same
  <2> QED BY <2>1, <2>2, <2>4 DEF FirstFound
<1>2. ASSUME NEW p \in DOMAIN NextFound(g), NEW d \in NextFound(g)[p] \cap Above(n)
      PROVE  p \in Above(n) /\ p \in DOMAIN NextFound(h) /\ d \in NextFound(h)[p]
  <2>1. p \in DOMAIN local /\ d \in PathDeps(p, InDirectory) /\ d \notin DOMAIN g
    BY <1>2, FoundWalk
  <2>2. p \in Above(d)
    BY <2>1, InDirectorySound, NeededFrom DEF PathDeps
  <2>3. d \notin DOMAIN h
    BY <1>2, <2>1 DEF SameAbove, Same
  <2> QED BY <1>2, <2>1, <2>2, <2>3, AboveFacts, FoundWalk
<1>3. Discovered(g) \cap Above(n) \subseteq Discovered(h)
  <2>1. FirstFound(g) \cap Above(n) \subseteq FirstFound(h)
    BY <1>1
  <2>2. Reached(FirstFound(g), NextFound(g)) \cap Above(n) \subseteq Reached(FirstFound(h), NextFound(h))
    BY <1>2, <2>1, FoundWalk, ReachedWithin
  <2> QED BY <2>2, FoundWalk
<1> QED BY <1>3

LEMMA SameFound ==
  ASSUME Given, NEW g, NEW h, Sound(g), Sound(h), NEW n, SameAbove(g, h, n), FoundFor(g, n)
  PROVE  FoundFor(h, n)
<1>1. CASE \E p \in DOMAIN g : n \in PathDeps(p, g[p])
  <2>1. PICK p \in DOMAIN g : n \in PathDeps(p, g[p])
    BY <1>1
  <2>2. p \in Above(n)
    BY <2>1, NeededFrom DEF Sound, PathDeps
  <2> QED BY <2>1, <2>2 DEF SameAbove, Same, FoundFor
<1>2. CASE \E p \in Discovered(g) : n \in PathDeps(p, InDirectory)
  <2>1. PICK p \in Discovered(g) : n \in PathDeps(p, InDirectory)
    BY <1>2
  <2>2. p \in Above(n)
    BY <2>1, InDirectorySound, NeededFrom DEF Sound, PathDeps
  <2> QED BY <2>1, <2>2, SameDiscovered DEF FoundFor
<1> QED BY <1>1, <1>2 DEF FoundFor

\* What a round considers of g, name by name.
LEMMA SeenFacts ==
  ASSUME Given, NEW g, Sound(g)
  PROVE  /\ DOMAIN SeenOf(g) = DOMAIN g \cup Discovered(g) \cup Named(g)
         /\ \A n \in DOMAIN SeenOf(g) : SeenOf(g)[n] = IF n \in DOMAIN g THEN g[n]
                                                      ELSE IF n \in Discovered(g) THEN InDirectory ELSE Unselected
         /\ \A n \in DOMAIN SeenOf(g) : EntrySound(n, SeenOf(g)[n])
         /\ Named(g) \subseteq Package
         /\ \A n \in DOMAIN project.roots : IsRange(project.roots[n]) => n \in Named(g)
         /\ \A p \in DOMAIN g : \A d \in DOMAIN Dependencies(p, g[p]) :
              IsRange(Dependencies(p, g[p])[d]) => d \in Named(g)
<1>1. DOMAIN SeenOf(g) = DOMAIN g \cup Discovered(g) \cup Named(g)
  BY DEF SeenOf, Over
<1>2. \A n \in DOMAIN SeenOf(g) : SeenOf(g)[n] = IF n \in DOMAIN g THEN g[n]
                                                ELSE IF n \in Discovered(g) THEN InDirectory ELSE Unselected
  BY DEF SeenOf, Over
<1>3. Named(g) \subseteq Package
  BY NamedFacts DEF Named, Sound
<1>4. \A n \in Package : EntrySound(n, Unselected)
  BY Fields DEF EntrySound
<1>5. ASSUME NEW n \in DOMAIN SeenOf(g) PROVE EntrySound(n, SeenOf(g)[n])
  <2>1. CASE n \in DOMAIN g
    BY <1>2, <2>1 DEF Sound
  <2>2. CASE n \notin DOMAIN g /\ n \in Discovered(g)
    BY <1>2, <2>2, InDirectorySound DEF Sound
  <2>3. CASE n \notin DOMAIN g /\ n \notin Discovered(g)
    BY <1>1, <1>2, <1>3, <1>4, <2>3
  <2> QED BY <2>1, <2>2, <2>3
<1>6. ASSUME NEW n \in DOMAIN project.roots, IsRange(project.roots[n]) PROVE n \in Named(g)
  <2>1. PICK c \in Constraints(g) : c = [name |-> n, range |-> project.roots[n].range, by |-> "project"]
    BY <1>6, ConstraintFacts
  <2>2. c.name = n
    BY <2>1
  <2> QED BY <2>1, <2>2 DEF Named
<1>7. ASSUME NEW p \in DOMAIN g, NEW d \in DOMAIN Dependencies(p, g[p]), IsRange(Dependencies(p, g[p])[d])
      PROVE  d \in Named(g)
  <2>1. PICK c \in Constraints(g) : c = [name |-> d, range |-> Dependencies(p, g[p])[d].range, by |-> p]
    BY <1>7, ConstraintFacts
  <2>2. c.name = d
    BY <2>1
  <2> QED BY <2>1, <2>2 DEF Named
<1> QED BY <1>1, <1>2, <1>3, <1>5, <1>6, <1>7

LEMMA SameSeen ==
  ASSUME Given, NEW g, NEW h, Sound(g), Sound(h), NEW n, SameAbove(g, h, n), NEW m \in Above(n),
         m \in DOMAIN SeenOf(g)
  PROVE  m \in DOMAIN SeenOf(h) /\ SeenOf(h)[m] = SeenOf(g)[m]
<1>1. m \in DOMAIN g <=> m \in DOMAIN h
  BY DEF SameAbove, Same
<1>2. m \in DOMAIN g => g[m] = h[m]
  BY DEF SameAbove, Same
<1>3. m \in Named(g) <=> m \in Named(h)
  <2>1. SameAbove(g, h, m)
    BY SameFacts
  <2> QED BY <2>1, SameSelection
<1>4. m \in Discovered(g) <=> m \in Discovered(h)
  BY SameDiscovered, SameFacts
<1>5. m \in DOMAIN SeenOf(h)
  BY <1>1, <1>3, <1>4, SeenFacts
<1>6. SeenOf(g)[m] = IF m \in DOMAIN g THEN g[m] ELSE IF m \in Discovered(g) THEN InDirectory ELSE Unselected
  BY SeenFacts
<1>7. SeenOf(h)[m] = IF m \in DOMAIN h THEN h[m] ELSE IF m \in Discovered(h) THEN InDirectory ELSE Unselected
  BY <1>5, SeenFacts
<1> QED BY <1>1, <1>2, <1>4, <1>5, <1>6, <1>7

\* The walk from the roots.
Entered(sel) == DOMAIN project.roots \cup UNION {DOMAIN Dependencies(n, sel[n]) : n \in {project.last} \cap DOMAIN sel}
Onward(sel, named) == [n \in DOMAIN sel |-> DOMAIN Dependencies(n, sel[n]) \ named]

LEMMA ReachableWalk ==
  ASSUME NEW sel, NEW named
  PROVE  Reachable(sel, named) = Reached(Entered(sel), Onward(sel, named)) \cup named
<1> DEFINE deps == [n \in DOMAIN sel |-> DOMAIN Dependencies(n, sel[n])]
           met == DOMAIN project.roots \cup UNION {deps[n] : n \in {project.last} \cap DOMAIN sel}
<1>1. Reachable(sel, named) = Reached(met, [n \in DOMAIN sel |-> deps[n] \ named]) \cup named
  BY DEF Reachable
<1>2. met = Entered(sel)
  BY DEF Entered
<1>3. [n \in DOMAIN sel |-> deps[n] \ named] = Onward(sel, named)
  BY DEF Onward
<1> HIDE DEF deps, met
<1> QED BY <1>1, <1>2, <1>3

LEMMA WalkFacts ==
  ASSUME Given, NEW g, Sound(g)
  PROVE  /\ Entered(SeenOf(g)) \subseteq Package
         /\ \A n \in DOMAIN Onward(SeenOf(g), Named(g)) : Onward(SeenOf(g), Named(g))[n] \subseteq Package
<1>1. \A n \in DOMAIN SeenOf(g) : DOMAIN Dependencies(n, SeenOf(g)[n]) \subseteq Package
  BY SeenFacts, EntryFacts DEF IsManifest
<1>2. DOMAIN project.roots \subseteq Package
  BY ProjectAssumption DEF Given, IsManifest
<1> QED BY <1>1, <1>2 DEF Entered, Onward

\* The same packages above a name have it reached or not.
LEMMA SameReachable ==
  ASSUME Given, NEW g, NEW h, Sound(g), Sound(h), NEW n, SameAbove(g, h, n),
         n \in Reachable(SeenOf(g), Named(g))
  PROVE  n \in Reachable(SeenOf(h), Named(h))
<1> DEFINE V == Above(n) \cup {n}
<1>1. ASSUME NEW p \in DOMAIN SeenOf(g), NEW d \in DOMAIN Dependencies(p, SeenOf(g)[p]), d \in V
      PROVE  p \in Above(n) /\ p \in DOMAIN SeenOf(h) /\ SeenOf(h)[p] = SeenOf(g)[p]
  <2>1. p \in Above(d)
    BY SeenFacts, NeededFrom
  <2>2. p \in Above(n)
    BY <1>1, <2>1, AboveFacts
  <2> QED BY <2>2, SameSeen
<1>2. \A d \in V : d \in Named(g) <=> d \in Named(h)
  BY SameFacts, SameSelection
<1>3. Entered(SeenOf(g)) \cap V \subseteq Entered(SeenOf(h))
  <2>1. ASSUME NEW d \in V, NEW p \in {project.last} \cap DOMAIN SeenOf(g), d \in DOMAIN Dependencies(p, SeenOf(g)[p])
        PROVE  d \in Entered(SeenOf(h))
    BY <1>1, <2>1 DEF Entered
  <2> HIDE DEF V
  <2> QED BY <2>1 DEF Entered
<1>4. ASSUME NEW p \in DOMAIN Onward(SeenOf(g), Named(g)), NEW d \in Onward(SeenOf(g), Named(g))[p] \cap V
      PROVE  p \in V /\ p \in DOMAIN Onward(SeenOf(h), Named(h)) /\ d \in Onward(SeenOf(h), Named(h))[p]
  <2>1. p \in DOMAIN SeenOf(g) /\ d \in DOMAIN Dependencies(p, SeenOf(g)[p]) /\ d \notin Named(g) /\ d \in V
    BY <1>4 DEF Onward
  <2>2. p \in Above(n) /\ p \in DOMAIN SeenOf(h) /\ SeenOf(h)[p] = SeenOf(g)[p]
    BY <1>1, <2>1
  <2> QED BY <1>2, <2>1, <2>2 DEF Onward
<1>5. n \in V
  OBVIOUS
<1> HIDE DEF V
<1>6. Reached(Entered(SeenOf(g)), Onward(SeenOf(g), Named(g))) \cap V
        \subseteq Reached(Entered(SeenOf(h)), Onward(SeenOf(h), Named(h)))
  <2>1. Entered(SeenOf(g)) \cap V \subseteq Reached(Entered(SeenOf(h)), Onward(SeenOf(h), Named(h)))
    BY <1>3, ReachedFacts
  <2> QED BY <1>3, <1>4, WalkFacts, ReachedWithin
<1> QED BY <1>2, <1>5, <1>6, ReachableWalk

\* A round, name by name.
LEMMA AfterFacts ==
  ASSUME Given, NEW g, Sound(g)
  PROVE  /\ DOMAIN After(g) = DOMAIN KeptOf(g)
         /\ \A n : n \in DOMAIN KeptOf(g) <=> /\ n \in DOMAIN SeenOf(g)
                                              /\ n \in Reachable(SeenOf(g), Named(g)) \cup PathRoots
         /\ \A n \in DOMAIN KeptOf(g) : KeptOf(g)[n] = SeenOf(g)[n]
         /\ Named(g) \subseteq DOMAIN KeptOf(g)
         /\ \A n \in DOMAIN KeptOf(g) : After(g)[n] = IF n \in Named(g) /\ KeptOf(g)[n].source # "path"
                                                      THEN Selection(n, Constraints(g)) ELSE KeptOf(g)[n]
<1>1. \A n : n \in DOMAIN KeptOf(g) <=> n \in DOMAIN SeenOf(g) /\ n \in Reachable(SeenOf(g), Named(g)) \cup PathRoots
  BY DEF KeptOf, Only
<1>2. \A n \in DOMAIN KeptOf(g) : KeptOf(g)[n] = SeenOf(g)[n]
  BY DEF KeptOf, Only
<1>3. Named(g) \subseteq DOMAIN KeptOf(g)
  BY <1>1, SeenFacts, ReachableWalk
<1> QED BY <1>1, <1>2, <1>3 DEF After

\* A name that nothing constrains.
LEMMA AfterUnnamed ==
  ASSUME Given, NEW g, Sound(g), NEW n, n \notin Named(g)
  PROVE  /\ n \in DOMAIN After(g) <=> /\ n \in DOMAIN g \/ FoundFor(g, n)
                                      /\ n \in Reachable(SeenOf(g), Named(g)) \cup PathRoots
         /\ n \in DOMAIN After(g) /\ n \in DOMAIN g => After(g)[n] = g[n]
<1>1. n \in DOMAIN SeenOf(g) <=> n \in DOMAIN g \/ FoundFor(g, n)
  BY SeenFacts, DiscoveredIff
<1>2. ASSUME n \in DOMAIN After(g), n \in DOMAIN g PROVE After(g)[n] = g[n]
  <2>1. n \in DOMAIN KeptOf(g) /\ n \in DOMAIN SeenOf(g)
    BY <1>2, AfterFacts
  <2>2. KeptOf(g)[n] = SeenOf(g)[n]
    BY <2>1, AfterFacts
  <2>3. SeenOf(g)[n] = g[n]
    BY <1>2, <2>1, SeenFacts
  <2>4. After(g)[n] = KeptOf(g)[n]
    BY <2>1, AfterFacts
  <2> QED BY <2>2, <2>3, <2>4
<1> QED BY <1>1, <1>2, AfterFacts

\* A name whose packages above were the same before a round and after it stays the
\* same in the next round.
LEMMA AfterSame ==
  ASSUME Given, NEW g, NEW h, h = After(g), Sound(g), Sound(h), NEW n, SameAbove(g, h, n)
  PROVE  Same(After(h), h, n)
<1>1. n \in Named(g) <=> n \in Named(h)
  BY SameSelection
<1>2. Selection(n, Constraints(g)) = Selection(n, Constraints(h))
  BY SameSelection
<1>3. n \in Reachable(SeenOf(g), Named(g)) <=> n \in Reachable(SeenOf(h), Named(h))
  BY SameReachable, SameFacts
<1>4. FoundFor(g, n) <=> FoundFor(h, n)
  BY SameFound, SameFacts
<1>5. \A e : e = Selection(n, Constraints(h)) => e.source # "path"
  BY Fields DEF Selection
<1>6. CASE n \in Named(g)
  <2>1. n \in DOMAIN h /\ n \in DOMAIN KeptOf(h) /\ n \in DOMAIN KeptOf(g)
    BY <1>1, <1>6, AfterFacts
  <2>2. KeptOf(h)[n] = h[n]
    BY <2>1, AfterFacts, SeenFacts
  <2>3. After(h)[n] = IF h[n].source # "path" THEN Selection(n, Constraints(h)) ELSE h[n]
    BY <1>1, <1>6, <2>1, <2>2, AfterFacts
  <2>4. h[n] = IF KeptOf(g)[n].source # "path" THEN Selection(n, Constraints(g)) ELSE KeptOf(g)[n]
    BY <1>6, <2>1, AfterFacts
  <2>5. After(h)[n] = h[n]
    <3>1. CASE KeptOf(g)[n].source # "path"
      BY <1>2, <1>5, <2>3, <2>4, <3>1
    <3>2. CASE KeptOf(g)[n].source = "path"
      BY <2>3, <2>4, <3>2
    <3> QED BY <3>1, <3>2
  <2> QED BY <2>1, <2>5, AfterFacts DEF Same
<1>7. CASE n \notin Named(g)
  <2>1. n \in DOMAIN h <=> (n \in DOMAIN g \/ FoundFor(g, n)) /\ n \in Reachable(SeenOf(g), Named(g)) \cup PathRoots
    BY <1>7, AfterUnnamed
  <2>2. /\ n \in DOMAIN After(h) <=> (n \in DOMAIN h \/ FoundFor(h, n)) /\ n \in Reachable(SeenOf(h), Named(h)) \cup PathRoots
        /\ n \in DOMAIN After(h) /\ n \in DOMAIN h => After(h)[n] = h[n]
    <3>1. n \notin Named(h)
      BY <1>1, <1>7
    <3> QED BY ONLY Given, Sound(h), <3>1, AfterUnnamed
  <2> QED BY <1>3, <1>4, <2>1, <2>2 DEF Same
<1> QED BY <1>6, <1>7

-----------------------------------------------------------------------------
(* The rounds come to rest.                                                *)

\* Before round r the names with fewer than r packages above are settled: a round
\* leaves them as they are.
Settling(g, r) ==
  Acyclic /\ Discovered(g) \subseteq DOMAIN local => \A n \in Package : Level(n) < r => Same(After(g), g, n)

SettleInv ==
  /\ status = "resolving" =>
       selected = [n \in DOMAIN selected |-> selected[n]] /\ round \in Nat /\ Settling(selected, round)
  /\ AcyclicSettles

LEMMA TurnAfter ==
  ASSUME ConsistentInv, status = "resolving",
         NEW named, NEW found, NEW seen, NEW kept, NEW next, Turn(named, found, seen, kept, next)
  PROVE  /\ named = Named(selected) /\ found = Discovered(selected) /\ seen = SeenOf(selected)
         /\ kept = KeptOf(selected) /\ next = After(selected)
         /\ Given /\ Sound(selected) /\ \A n \in DOMAIN next : EntrySound(n, next[n])
<1>1. Considers(named, found, seen, kept) /\ found \subseteq DOMAIN local
  BY DEF Turn
<1>2. named = Named(selected) /\ found = Discovered(selected)
  BY <1>1 DEF Considers, Named
<1>3. seen = SeenOf(selected)
  BY <1>1, <1>2 DEF Considers, SeenOf
<1>4. kept = KeptOf(selected)
  BY <1>1, <1>2, <1>3 DEF Considers, KeptOf
<1>5. next = After(selected)
  BY <1>2, <1>4 DEF Turn, After
<1>6. Sound(selected) /\ Given
  BY <1>1, <1>2 DEF ConsistentInv, SelectionSound, Resolving, Sound
<1> QED BY <1>2, <1>3, <1>4, <1>5, <1>6, TurnEntries

LEMMA TurnSettles ==
  ASSUME ConsistentInv, status = "resolving", round \in Nat, Settling(selected, round),
         NEW named, NEW found, NEW seen, NEW kept, NEW next, Turn(named, found, seen, kept, next)
  PROVE  Settling(next, round + 1)
<1>1. Given /\ Sound(selected) /\ next = After(selected) /\ \A n \in DOMAIN next : EntrySound(n, next[n])
  BY TurnAfter
<1>2. ASSUME Acyclic, Discovered(next) \subseteq DOMAIN local, NEW n \in Package, Level(n) < round + 1
      PROVE  Same(After(next), next, n)
  <2>1. Sound(next)
    BY <1>1, <1>2 DEF Sound
  <2>2. ASSUME NEW m \in Above(n) PROVE Same(selected, next, m)
    <3>1. m \in Package /\ Level(m) < round
      <4>1. Level(m) \in Nat /\ Level(n) \in Nat /\ Level(m) < Level(n)
        BY <1>1, <1>2, LevelFacts
      <4>2. m \in Package
        BY <1>1, AboveFacts
      <4> QED BY <1>2, <4>1, <4>2
    <3>2. Same(After(selected), selected, m)
      BY <1>1, <1>2, <3>1 DEF Settling, Sound
    <3> QED BY <1>1, <3>2 DEF Same
  <2> QED BY <1>1, <2>1, <2>2, AfterSame DEF SameAbove
<1> QED BY <1>2 DEF Settling

\* The last round before the bound changes nothing: no name changes, so that the
\* directories that are discovered would be dropped again; but what needs them is
\* reached.
LEMMA TurnRests ==
  ASSUME MaxRounds > Cardinality(Package), ConsistentInv, Acyclic, PathsApart,
         status = "resolving", round \in Nat, Settling(selected, round), round = MaxRounds - 1,
         selected = [n \in DOMAIN selected |-> selected[n]],
         NEW named, NEW found, NEW seen, NEW kept, NEW next, Turn(named, found, seen, kept, next)
  PROVE  seen = selected /\ kept = seen /\ next = kept
<1>1. /\ named = Named(selected) /\ found = Discovered(selected) /\ seen = SeenOf(selected)
      /\ kept = KeptOf(selected) /\ next = After(selected)
      /\ Given /\ Sound(selected) /\ \A n \in DOMAIN next : EntrySound(n, next[n])
  BY TurnAfter
<1>2. ASSUME NEW n \in Package PROVE Same(next, selected, n)
  <2>1. Level(n) < round
    BY <1>1, LevelFacts, RoundsAssumption, PackageAssumption, FS_CardinalityType
  <2> QED BY <1>1, <2>1 DEF Settling, Sound
<1>3. DOMAIN next = DOMAIN selected /\ \A n \in DOMAIN selected : next[n] = selected[n]
  <2>1. DOMAIN next \subseteq Package /\ DOMAIN selected \subseteq Package
    BY <1>1 DEF Sound, EntrySound
  <2> QED BY <1>2, <2>1 DEF Same
<1>4. DOMAIN kept = DOMAIN selected /\ named \subseteq DOMAIN selected
  BY <1>1, <1>3, AfterFacts
<1>5. ASSUME NEW p \in DOMAIN selected, NEW d \in PathDeps(p, selected[p]), d \notin DOMAIN selected
      PROVE  FALSE
  <2>1. /\ p \in Package /\ d \in DOMAIN Dependencies(p, selected[p])
        /\ Dependencies(p, selected[p])[d].kind = "path" /\ EntrySound(p, selected[p])
    BY <1>1, <1>5 DEF PathDeps, Sound, EntrySound
  <2>2. Dependencies(p, selected[p]) \in ManifestsOf(p)
    BY <1>1, <2>1, NeedFacts
  <2>3. \A q \in Package : \A m \in ManifestsOf(q) : ~ (p \in DOMAIN m /\ IsRange(m[p]))
    BY <2>1, <2>2 DEF PathsApart
  <2> DEFINE R == Reached(Entered(seen), Onward(seen, named))
  <2>4. p \in R
    <3>1. DOMAIN project.roots \subseteq R
      <4>1. Entered(seen) \subseteq R
        BY ReachedFacts
      <4> HIDE DEF R
      <4> QED BY <4>1 DEF Entered
    <3>2. p \in R \cup named \cup PathRoots
      BY <1>1, <1>4, AfterFacts, ReachableWalk
    <3>3. ASSUME p \in named PROVE p \in DOMAIN project.roots
      <4>1. PICK c \in Constraints(selected) : c.name = p
        BY <1>1, <3>3 DEF Named
      <4>2. CASE \E n \in DOMAIN project.roots : IsRange(project.roots[n]) /\
                   c = [name |-> n, range |-> project.roots[n].range, by |-> "project"]
        BY <4>1, <4>2
      <4>3. CASE \E q \in DOMAIN selected : \E x \in DOMAIN Dependencies(q, selected[q]) :
                   IsRange(Dependencies(q, selected[q])[x]) /\
                   c = [name |-> x, range |-> Dependencies(q, selected[q])[x].range, by |-> q]
        <5>1. PICK q \in DOMAIN selected : \E x \in DOMAIN Dependencies(q, selected[q]) :
                   IsRange(Dependencies(q, selected[q])[x]) /\
                   c = [name |-> x, range |-> Dependencies(q, selected[q])[x].range, by |-> q]
          BY <4>3
        <5>2. PICK x \in DOMAIN Dependencies(q, selected[q]) :
                   IsRange(Dependencies(q, selected[q])[x]) /\
                   c = [name |-> x, range |-> Dependencies(q, selected[q])[x].range, by |-> q]
          BY <5>1
        <5>3. x = p
          BY <4>1, <5>2
        <5>4. EntrySound(q, selected[q]) /\ q \in Package
          BY <1>1 DEF Sound, EntrySound
        <5>5. Dependencies(q, selected[q]) \in ManifestsOf(q)
          BY <1>1, <5>2, <5>4, NeedFacts
        <5> QED BY <2>3, <5>2, <5>3, <5>4, <5>5
      <4> QED BY <4>1, <4>2, <4>3, ConstraintFacts
    <3> HIDE DEF R
    <3> QED BY <3>1, <3>2, <3>3 DEF PathRoots
  <2>5. p \in DOMAIN seen /\ seen[p] = selected[p]
    BY <1>1, SeenFacts
  <2>6. d \in R \cup named
    <3>1. \A n \in R \cap DOMAIN Onward(seen, named) : Onward(seen, named)[n] \subseteq R
      BY <1>1, WalkFacts, ReachedClosed
    <3> HIDE DEF R
    <3> QED BY <2>1, <2>4, <2>5, <3>1 DEF Onward
  <2>7. d \in found
    BY <1>1, <1>5, DiscoveredFacts
  <2>8. d \in DOMAIN kept
    <3>1. d \in DOMAIN seen /\ d \in Reachable(seen, named)
      BY <1>1, <2>6, <2>7, SeenFacts, ReachableWalk
    <3> HIDE DEF R
    <3> QED BY <1>1, <3>1, AfterFacts
  <2> QED BY <1>4, <1>5, <2>8
<1>6. found = {}
  <2>1. FirstFound(selected) = {}
    BY <1>5 DEF FirstFound
  <2>2. Reached(FirstFound(selected), NextFound(selected)) \subseteq {}
    BY <2>1, ReachedFacts
  <2> QED BY <1>1, <2>2, FoundWalk
<1>7. seen = selected
  <2>1. DOMAIN seen = DOMAIN selected /\ \A n \in DOMAIN selected : seen[n] = selected[n]
    BY <1>1, <1>4, <1>6, SeenFacts
  <2>2. seen = [n \in DOMAIN seen |-> seen[n]]
    BY <1>1 DEF SeenOf, Over
  <2> QED BY <2>1, <2>2
<1>8. kept = selected
  <2>1. \A n \in DOMAIN selected : kept[n] = selected[n]
    <3>1. \A n \in DOMAIN kept : kept[n] = seen[n]
      BY <1>1, AfterFacts
    <3> QED BY <1>4, <1>7, <3>1
  <2>2. kept = [n \in DOMAIN kept |-> kept[n]]
    BY <1>1 DEF KeptOf, Only
  <2> QED BY <1>4, <2>1, <2>2
<1>9. next = selected
  <2>1. next = [n \in DOMAIN next |-> next[n]]
    BY <1>1 DEF After
  <2> QED BY <1>3, <2>1
<1> QED BY <1>7, <1>8, <1>9

\* A round that changes nothing leaves what the roots need, and nothing more.
LEMMA TurnWalked ==
  ASSUME ConsistentInv, Acyclic, status = "resolving",
         NEW named, NEW found, NEW seen, NEW kept, NEW next, Turn(named, found, seen, kept, next),
         seen = selected, kept = seen, next = kept
  PROVE  DOMAIN selected = Walked(selected)
<1>1. /\ named = Named(selected) /\ found = Discovered(selected) /\ seen = SeenOf(selected)
      /\ kept = KeptOf(selected) /\ Given /\ Sound(selected)
  BY TurnAfter
<1>2. PathRoots \subseteq DOMAIN selected /\ ~ Malformed(selected)
  BY DEF ConsistentInv, SelectionSound, Resolving, Turn
<1>3. /\ DOMAIN project.roots \subseteq Package
      /\ \A n \in DOMAIN project.roots : n \in PathRoots \/ IsRange(project.roots[n])
  BY <1>1, ProjectAssumption DEF Given, IsManifest, PathRoots, IsRange
<1>4. DOMAIN project.roots # {} => project.last \in DOMAIN project.roots
  BY <1>1, ProjectAssumption DEF Given
<1> DEFINE E == [n \in DOMAIN selected |-> DOMAIN Dependencies(n, selected[n])]
           W == Reached(DOMAIN project.roots, E)
<1>5. Walked(selected) = W
  BY DEF Walked
<1>6. DOMAIN E = DOMAIN selected /\ \A n \in DOMAIN selected : E[n] = DOMAIN Dependencies(n, selected[n])
  OBVIOUS
<1>7. \A n \in DOMAIN selected : EntrySound(n, selected[n]) /\ n \in Package
  BY <1>1 DEF Sound, EntrySound
<1>8. \A n \in DOMAIN E : E[n] \subseteq Package
  BY <1>1, <1>6, <1>7, EntryFacts DEF IsManifest
<1>9. named \cup found \subseteq DOMAIN selected
  BY <1>1, SeenFacts
<1> HIDE DEF E
<1>10. /\ DOMAIN project.roots \subseteq W
       /\ \A n \in W \cap DOMAIN selected : DOMAIN Dependencies(n, selected[n]) \subseteq W
  BY <1>3, <1>6, <1>8, ReachedFacts, ReachedClosed
<1>11. W \subseteq DOMAIN selected
  <2>1. DOMAIN project.roots \subseteq DOMAIN selected
    BY <1>1, <1>2, <1>3, <1>9, SeenFacts
  <2>2. ASSUME NEW n \in DOMAIN selected, NEW d \in DOMAIN Dependencies(n, selected[n])
        PROVE  d \in DOMAIN selected
    <3>1. Dependencies(n, selected[n])[d].kind \in {"version", "path", "invalid"}
      BY <1>1, <1>7, EntryFacts DEF IsManifest
    <3>2. Dependencies(n, selected[n])[d].kind # "invalid"
      BY <1>2 DEF Malformed
    <3>3. CASE Dependencies(n, selected[n])[d].kind = "version"
      BY <1>1, <1>9, <3>3, SeenFacts DEF IsRange
    <3>4. CASE Dependencies(n, selected[n])[d].kind = "path"
      BY <1>1, <1>9, <3>4, DiscoveredFacts DEF PathDeps
    <3> QED BY <3>1, <3>2, <3>3, <3>4
  <2> QED BY <1>6, <2>1, <2>2, ReachedFacts
<1> HIDE DEF W
<1>12. DOMAIN selected \subseteq W
  <2> DEFINE S == DOMAIN selected \ W
  <2>1. ASSUME S # {} PROVE FALSE
    <3>1. PICK n \in S : Above(n) \cap S = {}
      <4>1. S \subseteq Package
        BY <1>7
      <4> HIDE DEF S
      <4> QED BY <1>1, <2>1, <4>1, Descent
    <3>2. ASSUME NEW p \in DOMAIN selected, n \in DOMAIN Dependencies(p, selected[p]) PROVE FALSE
      <4>1. p \in Above(n)
        BY <1>1, <1>7, <3>2, NeededFrom
      <4>2. p \in W
        BY <3>1, <4>1
      <4> QED BY <1>10, <3>1, <3>2, <4>2
    <3>3. n \notin DOMAIN project.roots
      BY <1>10, <3>1
    <3>4. n \notin named
      <4>1. ASSUME n \in named PROVE FALSE
        <5>1. PICK c \in Constraints(selected) : c.name = n
          BY <1>1, <4>1 DEF Named
        <5>2. CASE \E m \in DOMAIN project.roots : IsRange(project.roots[m]) /\
                     c = [name |-> m, range |-> project.roots[m].range, by |-> "project"]
          BY <3>3, <5>1, <5>2
        <5>3. CASE \E q \in DOMAIN selected : \E x \in DOMAIN Dependencies(q, selected[q]) :
                     IsRange(Dependencies(q, selected[q])[x]) /\
                     c = [name |-> x, range |-> Dependencies(q, selected[q])[x].range, by |-> q]
          <6>1. PICK q \in DOMAIN selected : \E x \in DOMAIN Dependencies(q, selected[q]) :
                     c = [name |-> x, range |-> Dependencies(q, selected[q])[x].range, by |-> q]
            BY <5>3
          <6>2. PICK x \in DOMAIN Dependencies(q, selected[q]) :
                     c = [name |-> x, range |-> Dependencies(q, selected[q])[x].range, by |-> q]
            BY <6>1
          <6>3. x = n
            BY <5>1, <6>2
          <6> QED BY <3>2, <6>2, <6>3
        <5> QED BY <5>1, <5>2, <5>3, ConstraintFacts
      <4> QED BY <4>1
    <3>5. n \in Reached(Entered(selected), Onward(selected, named))
      <4>1. n \in DOMAIN kept
        BY <3>1
      <4>2. n \in Reachable(seen, named) \cup PathRoots
        BY <1>1, <4>1, AfterFacts
      <4> QED BY <3>3, <3>4, <4>2, ReachableWalk DEF PathRoots
    <3>6. n \in Entered(selected) \/ \E m \in DOMAIN Onward(selected, named) : n \in Onward(selected, named)[m]
      BY <3>5, Unfold
    <3> QED BY <3>2, <3>3, <3>6 DEF Entered, Onward
  <2> QED BY <2>1
<1> QED BY <1>5, <1>11, <1>12

LEMMA SameNeeds ==
  ASSUME UNCHANGED <<registry, local>>
  PROVE  /\ Acyclic' <=> Acyclic
         /\ PathsApart' <=> PathsApart
         /\ \A n : Level(n)' = Level(n)
<1>1. \A n : ManifestsOf(n)' = ManifestsOf(n)
  BY DEF ManifestsOf
<1>2. \A n : MayNeed(n)' = MayNeed(n)
  BY <1>1 DEF MayNeed
<1>3. Acyclic' <=> Acyclic
  BY <1>2 DEF Acyclic
<1>4. PathsApart' <=> PathsApart
  BY <1>1 DEF PathsApart, IsRange
<1>5. Needs' = Needs
  BY <1>2 DEF Needs
<1>6. \A n : Level(n)' = Level(n)
  BY <1>2, <1>5 DEF Level, Above
<1> QED BY <1>3, <1>4, <1>6

LEMMA SameSettling ==
  ASSUME UNCHANGED <<registry, local, published, project, prefer, float>>, NEW g, NEW r,
         selected' = g, round' = r
  PROVE  Settling(selected, round)' <=> Settling(g, r)
<1>1. Constraints(selected)' = Constraints(g)
  BY DEF Constraints, Dependencies, IsRange
<1>2. Named(selected)' = Named(g)
  BY <1>1 DEF Named
<1>3. Discovered(selected)' = Discovered(g)
  BY DEF Discovered, PathDeps, Dependencies
<1>4. SeenOf(selected)' = SeenOf(g)
  BY <1>2, <1>3 DEF SeenOf, Over
<1>5. Reachable(SeenOf(selected), Named(selected))' = Reachable(SeenOf(g), Named(g))
  <2>1. PICK s, m : s = SeenOf(g) /\ m = Named(g)
    OBVIOUS
  <2>2. SeenOf(selected)' = s /\ Named(selected)' = m
    BY <1>2, <1>4, <2>1
  <2>3. Reachable(SeenOf(selected), Named(selected))' = Reachable(s, m)
    BY <2>2 DEF Reachable, Dependencies
  <2> QED BY <2>1, <2>3
<1>6. PathRoots' = PathRoots
  BY DEF PathRoots
<1>7. KeptOf(selected)' = KeptOf(g)
  BY <1>4, <1>5, <1>6 DEF KeptOf, Only
<1>8. ASSUME NEW n PROVE Selection(n, Constraints(selected))' = Selection(n, Constraints(g))
  BY <1>1 DEF Selection, PickVersion, Matching, Overridden
<1>9. After(selected)' = After(g)
  BY <1>2, <1>7, <1>8 DEF After
<1> QED BY <1>3, <1>9, SameNeeds DEF Settling, Same

LEMMA TurnSettleInv ==
  ASSUME MaxRounds > Cardinality(Package), ConsistentInv, SettleInv, status = "resolving",
         NEW named, NEW found, NEW seen, NEW kept, NEW next, Turn(named, found, seen, kept, next)
  PROVE  SettleInv'
<1>1. selected = [n \in DOMAIN selected |-> selected[n]] /\ round \in Nat /\ Settling(selected, round)
  BY DEF SettleInv
<1>2. /\ selected' = next /\ UNCHANGED world /\ UNCHANGED <<prefer, float>>
      /\ IF seen # selected \/ kept # seen \/ next # kept
         THEN round' = round + 1 /\ status' = IF round = MaxRounds - 1 THEN "diverged" ELSE "resolving"
         ELSE round' = round /\ status' = "resolved"
  BY DEF Turn
<1>3. UNCHANGED <<registry, local, published, project, prefer, float>>
  BY <1>2 DEF world
<1>4. next = [n \in DOMAIN next |-> next[n]]
  <2>1. next = After(selected)
    BY TurnAfter
  <2> QED BY <2>1 DEF After
<1>5. CASE seen # selected \/ kept # seen \/ next # kept
  <2>1. Settling(next, round + 1)
    BY <1>1, TurnSettles
  <2>2. PICK r : r = round + 1
    OBVIOUS
  <2>3. Settling(selected, round)'
    BY <1>2, <1>3, <1>5, <2>1, <2>2, SameSettling
  <2>4. AcyclicSettles'
    <3>1. ASSUME Acyclic, PathsApart PROVE status' # "diverged"
      BY <1>1, <1>2, <1>5, <3>1, TurnRests
    <3> QED BY <1>2, <1>3, <1>5, <3>1, SameNeeds DEF AcyclicSettles
  <2> QED BY <1>1, <1>2, <1>4, <1>5, <2>3, <2>4 DEF SettleInv
<1>6. CASE seen = selected /\ kept = seen /\ next = kept
  <2>1. status' = "resolved" /\ selected' = selected
    BY <1>2, <1>6
  <2>2. Walked(selected)' = Walked(selected)
    BY <1>3, <2>1 DEF Walked, Dependencies
  <2>3. Acyclic => DOMAIN selected = Walked(selected)
    BY <1>6, TurnWalked
  <2> QED BY <1>3, <2>1, <2>2, <2>3, SameNeeds DEF SettleInv, AcyclicSettles
<1> QED BY <1>5, <1>6

LEMMA ResolveSettles ==
  ASSUME Given, NEW p, NEW f, Resolve(p, f)
  PROVE  SettleInv'
<1>1. /\ selected' = IF PathRoots \subseteq DOMAIN local THEN Seed ELSE selected
      /\ status' = IF PathRoots \subseteq DOMAIN local THEN "resolving" ELSE "no directory"
      /\ round' = 0 /\ UNCHANGED world
  BY DEF Resolve
<1>2. AcyclicSettles'
  BY <1>1 DEF AcyclicSettles
<1>3. ASSUME status' = "resolving" PROVE selected' = [n \in DOMAIN selected' |-> selected'[n]]
  BY <1>1, <1>3 DEF Seed
<1>4. Settling(selected, round)'
  <2>1. ASSUME Acyclic', NEW n \in Package PROVE ~ (Level(n)' < round')
    <3>1. Level(n)' = Level(n) /\ Acyclic
      BY <1>1, <2>1, SameNeeds DEF world
    <3>2. Level(n) \in Nat /\ ~ (Level(n) < 0)
      BY <3>1, LevelFacts
    <3> QED BY <1>1, <3>1, <3>2
  <2> QED BY <2>1 DEF Settling
<1> QED BY <1>1, <1>2, <1>3, <1>4 DEF SettleInv

LEMMA SettleStep ==
  ASSUME MaxRounds > Cardinality(Package), ConsistentInv, SettleInv, [Next]_vars
  PROVE  SettleInv'
<1>1. CASE Round
  <2>1. status = "resolving"
    BY <1>1 DEF Round
  <2>2. CASE \E named, found, seen, kept, next : Turn(named, found, seen, kept, next)
    BY <2>1, <2>2, TurnSettleInv
  <2>3. CASE \E s \in Failures \ {"failed", "diverged"} : Stop(s)
    BY <2>3 DEF Stop, Failures, SettleInv, AcyclicSettles
  <2> QED BY <1>1, <2>2, <2>3, RoundCases
<1>2. CASE InstallFresh \/ UpdateAll
  BY <1>2, ResolveSettles DEF InstallFresh, UpdateAll, ConsistentInv
<1>3. CASE \E n \in Package : UpdateOnly(n)
  BY <1>3, ResolveSettles DEF UpdateOnly, ConsistentInv
<1>4. CASE \/ Unreachable \/ WriteLock \/ InstallLocked \/ InstallNothing
           \/ \E p \in Project : Edit(p)
           \/ \E n \in Package, v \in Version : Publish(n, v)
           \/ \E n \in Package : EditLocal(n)
  <2>1. status' \in {"failed", "installed", "idle", "missing"}
    BY <1>4 DEF Unreachable, Stop, WriteLock, InstallLocked, InstallNothing, Edit, Publish, EditLocal
  <2> QED BY <2>1 DEF SettleInv, AcyclicSettles
<1>5. CASE UNCHANGED vars
  <2>1. /\ UNCHANGED <<registry, local, published, project, prefer, float>>
        /\ selected' = selected /\ round' = round /\ status' = status
    BY <1>5 DEF vars, world
  <2>2. Settling(selected, round)' <=> Settling(selected, round)
    <3>1. PICK g, r : g = selected /\ r = round
      OBVIOUS
    <3> QED BY <2>1, <3>1, SameSettling
  <2>3. Walked(selected)' = Walked(selected)
    BY <2>1 DEF Walked, Dependencies
  <2> QED BY <2>1, <2>2, <2>3, SameNeeds DEF SettleInv, AcyclicSettles
<1> QED BY <1>1, <1>2, <1>3, <1>4, <1>5 DEF Next

\* With more rounds than there are packages, unless packages need each other in a
\* circle, what is selected is what the roots need and nothing more, and the rounds
\* come to rest, if what needs packages in directories is not required by a range as
\* well (resolve.ts:200-228, 311-323): each round settles one level more of what may
\* be needed.
THEOREM AcyclicSettlesTheorem ==
  ASSUME MaxRounds > Cardinality(Package)
  PROVE  Spec => []AcyclicSettles
<1>1. Init => ConsistentInv /\ SettleInv
  BY ConsistentStart DEF Init, SettleInv, AcyclicSettles
<1>2. (ConsistentInv /\ SettleInv) /\ [Next]_vars => (ConsistentInv /\ SettleInv)'
  BY ConsistentStep, SettleStep
<1>3. SettleInv => AcyclicSettles
  BY DEF SettleInv
<1> QED BY <1>1, <1>2, <1>3, PTL DEF Spec
=============================================================================
