------------------------------ MODULE Resolver ------------------------------
(***************************************************************************)
(* The dependency resolver of the package manager and the use of the lock  *)
(* file by sn install, sn add, sn remove and sn update                     *)
(* (src/packages/cli/src/deps/resolve.ts, semver.ts, install.ts, lock.ts). *)
(*                                                                         *)
(* A requirement is the set of versions it admits; a manifest maps the     *)
(* names of dependencies to requirements.  The resolver selects one        *)
(* version per name and repeats rounds until a round changes nothing.      *)
(***************************************************************************)
EXTENDS Integers, FiniteSets

CONSTANTS
  Package,    \* names of packages
  Version,    \* versions, ordered
  Scenario,   \* the registries and local packages to start from
  Project,    \* the contents project.toml may have
  Rewritten,  \* the manifests a package in a directory may be edited to
  MaxRounds,  \* maxRounds, 64 in the code
  MaxEdits    \* bound: edits of project.toml and of directories, publications

ASSUME VersionAssumption == Version \subseteq Nat \ {0}
ASSUME PackageAssumption == IsFiniteSet(Package)
ASSUME RoundsAssumption == MaxRounds \in Nat \ {0}

\* A manifest names packages, each with a requirement, a path or what cannot be
\* parsed.
IsManifest(m) ==
  DOMAIN m \subseteq Package /\ \A d \in DOMAIN m : m[d].kind \in {"version", "path", "invalid"}

\* Each package has finitely many versions to start from.
ASSUME ScenarioAssumption ==
  \A s \in Scenario :
    /\ s.published \in [Package -> SUBSET Version]
    /\ \A n \in Package :
         /\ IsFiniteSet(s.published[n]) /\ s.published[n] \subseteq DOMAIN s.registry[n]
         /\ \A v \in DOMAIN s.registry[n] : IsManifest(s.registry[n][v])
    /\ DOMAIN s.local \subseteq Package /\ \A n \in DOMAIN s.local : IsManifest(s.local[n])

\* A requirement in project.toml can be parsed, or the file is refused; one is the
\* last.
ASSUME ProjectAssumption ==
  \A x \in Project :
    /\ IsManifest(x.roots) /\ \A n \in DOMAIN x.roots : x.roots[n].kind # "invalid"
    /\ DOMAIN x.roots # {} => x.last \in DOMAIN x.roots

ASSUME RewrittenAssumption == \A m \in Rewritten : IsManifest(m)

VARIABLES
  registry,   \* name -> version -> manifest, as it will have been published
  local,      \* name -> manifest of the package in a directory
  published,  \* name -> the versions published so far
  project,    \* project.toml: requirements of the roots, overrides
  lock,       \* project.lock: name -> entry
  read,       \* history: the manifests in directories that the lock was made from
  prefer,     \* opts.prefer
  float,      \* opts.float
  selected,   \* name -> entry
  round,
  status,
  edits

world == <<registry, local, published, project, edits>>
vars == <<world, lock, read, prefer, float, selected, round, status>>

None == 0     \* the empty version of a name that is not selected yet
Unselected == [version |-> None, source |-> "registry", override |-> FALSE]
Released(v, o) == [version |-> v, source |-> "registry", override |-> o]
InDirectory == [version |-> 1, source |-> "path", override |-> FALSE]
Failures == {"invalid", "no directory", "override conflict", "not published",
             "conflict", "diverged", "failed"}

Path == [kind |-> "path"]
IsRange(spec) == spec.kind = "version"
Over(f, S, e) == [n \in DOMAIN f \cup S |-> IF n \in DOMAIN f THEN f[n] ELSE e]
Only(f, S) == [n \in DOMAIN f \cap S |-> f[n]]
Highest(S) == CHOOSE v \in S : \A w \in S : w <= v

\* What is reached from the names of A along E, from names to sets of names.
Reached(A, E) ==
  LET walk[k \in 0..Cardinality(Package)] ==
        IF k = 0 THEN A ELSE walk[k - 1] \cup UNION {E[n] : n \in walk[k - 1] \cap DOMAIN E}
  IN  walk[Cardinality(Package)]

PathRoots == {n \in DOMAIN project.roots : project.roots[n].kind = "path"}

Dependencies(n, e) ==
  IF e.version = None THEN <<>>
  ELSE IF e.source = "path" THEN local[n] ELSE registry[n][e.version]

(***************************************************************************)
(* One round                                                               *)
(***************************************************************************)
Constraints(sel) ==
  {[name |-> n, range |-> project.roots[n].range, by |-> "project"] :
     n \in {m \in DOMAIN project.roots : IsRange(project.roots[m])}}
  \cup UNION {{[name |-> d, range |-> Dependencies(p, sel[p])[d].range, by |-> p] :
     d \in {m \in DOMAIN Dependencies(p, sel[p]) : IsRange(Dependencies(p, sel[p])[m])}} :
       p \in DOMAIN sel}

Malformed(sel) ==
  \E p \in DOMAIN sel : \E d \in DOMAIN Dependencies(p, sel[p]) :
     Dependencies(p, sel[p])[d].kind = "invalid"

PathDeps(n, e) == {d \in DOMAIN Dependencies(n, e) : Dependencies(n, e)[d].kind = "path"}

\* The names that the path dependencies of the selected packages lead to.
Discovered(sel) ==
  Reached((UNION {PathDeps(n, sel[n]) : n \in DOMAIN sel}) \ DOMAIN sel,
          [n \in DOMAIN local |-> PathDeps(n, InDirectory) \ DOMAIN sel])

ReachableAll(sel, named) == DOMAIN sel \cup named

\* The walk from the roots.  The names that are constrained are added when its
\* first root is done, and are not walked through if they were not met before.
Reachable(sel, named) ==
  LET deps == [n \in DOMAIN sel |-> DOMAIN Dependencies(n, sel[n])]
      met == DOMAIN project.roots \cup UNION {deps[n] : n \in {project.last} \cap DOMAIN sel}
  IN  Reached(met, [n \in DOMAIN sel |-> deps[n] \ named]) \cup named

MatchingRoots(n, cs) ==
  {v \in published[n] : \A c \in cs : c.name = n /\ c.by = "project" => v \in c.range}

Matching(n, cs) == {v \in published[n] : \A c \in cs : c.name = n => v \in c.range}

PickHighest(n, matching) == Highest(matching)

PickVersion(n, matching) ==
  IF n \notin float /\ n \in DOMAIN prefer /\ prefer[n] \in matching
  THEN prefer[n] ELSE Highest(matching)

Overridden(n) == n \in DOMAIN project.overrides

Selection(n, cs) ==
  IF Overridden(n) THEN Released(project.overrides[n], TRUE)
  ELSE Released(PickVersion(n, Matching(n, cs)), FALSE)

\* What resolving the name n ends with, "" if it selects a version.
Problem(n, cs) ==
  IF Overridden(n)
  THEN IF \E c \in cs : c.name = n /\ project.overrides[n] \notin c.range
       THEN "override conflict"
       ELSE IF project.overrides[n] \notin published[n] THEN "not published" ELSE ""
  ELSE IF published[n] = {} THEN "not published"
       ELSE IF Matching(n, cs) = {} THEN "conflict" ELSE ""

\* The selection is local to the call.
Stop(s) == /\ status' = s /\ selected' = <<>> /\ round' = 0
           /\ UNCHANGED <<world, lock, read, prefer, float>>

Round ==
  /\ status = "resolving"
  /\ LET cs == Constraints(selected)
         named == {c.name : c \in cs}
         found == Discovered(selected)
         seen == Over(Over(selected, found, InDirectory), named, Unselected)
         kept == Only(seen, Reachable(seen, named) \cup PathRoots)
         todo == {n \in named : kept[n].source # "path"}
         failing == {n \in todo : Problem(n, cs) # ""}
         next == [n \in DOMAIN kept |-> IF n \in todo THEN Selection(n, cs) ELSE kept[n]]
         changed == seen # selected \/ kept # seen \/ next # kept
     IN  IF Malformed(selected) THEN Stop("invalid")
         ELSE IF ~(found \subseteq DOMAIN local) THEN Stop("no directory")
         ELSE IF failing # {} THEN \E n \in failing : Stop(Problem(n, cs))
         ELSE /\ selected' = next
              /\ round' = IF changed THEN round + 1 ELSE round
              /\ status' = IF ~changed THEN "resolved"
                           ELSE IF round = MaxRounds - 1 THEN "diverged" ELSE "resolving"
              /\ UNCHANGED <<world, lock, read, prefer, float>>

\* The registry cannot be reached, or a download does not match its checksum.
Unreachable == status \in {"resolving", "resolved"} /\ Stop("failed")

WriteLock ==
  /\ status = "resolved"
  /\ lock' = selected
  /\ read' = [n \in {m \in DOMAIN selected : selected[m].source = "path"} |-> local[n]]
  /\ selected' = <<>> /\ round' = 0
  /\ status' = "installed"
  /\ UNCHANGED <<world, prefer, float>>

(***************************************************************************)
(* Commands                                                                *)
(***************************************************************************)
Finished == status \in {"idle", "installed", "missing"} \cup Failures

Seed == [n \in DOMAIN project.roots |-> IF n \in PathRoots THEN InDirectory ELSE Unselected]

Resolve(p, f) ==
  /\ Finished
  /\ DOMAIN project.roots # {}
  /\ prefer' = p /\ float' = f
  /\ selected' = IF PathRoots \subseteq DOMAIN local THEN Seed ELSE selected
  /\ round' = 0
  /\ status' = IF PathRoots \subseteq DOMAIN local THEN "resolving" ELSE "no directory"
  /\ UNCHANGED <<world, lock, read>>

LockSatisfiesRoots ==
  \A n \in DOMAIN project.roots :
     /\ n \in DOMAIN lock
     /\ IF IsRange(project.roots[n])
        THEN lock[n].version \in project.roots[n].range
        ELSE lock[n].source = "path"

InstallLocked ==
  /\ Finished
  /\ DOMAIN project.roots # {} /\ DOMAIN lock # {}
  /\ LockSatisfiesRoots
  /\ status' = IF \A n \in DOMAIN lock : lock[n].source = "path" => n \in DOMAIN local
               THEN "installed" ELSE "missing"
  /\ UNCHANGED <<world, lock, read, prefer, float, selected, round>>

InstallFresh == ~(DOMAIN lock # {} /\ LockSatisfiesRoots) /\ Resolve(<<>>, {})

InstallNothing ==
  /\ Finished /\ DOMAIN project.roots = {}
  /\ lock' = <<>> /\ read' = <<>>
  /\ status' = "installed"
  /\ UNCHANGED <<world, prefer, float, selected, round>>

UpdateAll == Resolve(<<>>, {})
UpdateOnly(n) ==
  n \in DOMAIN project.roots /\ Resolve([m \in DOMAIN lock |-> lock[m].version], {n})

(***************************************************************************)
(* Outside                                                                 *)
(***************************************************************************)
Edit(p) ==
  /\ Finished /\ edits < MaxEdits /\ p # project
  /\ project' = p /\ edits' = edits + 1 /\ status' = "idle"
  /\ UNCHANGED <<registry, local, published, lock, read, prefer, float, selected, round>>

Publish(n, v) ==
  /\ Finished /\ edits < MaxEdits
  /\ v \in DOMAIN registry[n] \ published[n]
  /\ published' = [published EXCEPT ![n] = @ \cup {v}]
  /\ edits' = edits + 1 /\ status' = "idle"
  /\ UNCHANGED <<registry, local, project, lock, read, prefer, float, selected, round>>

\* The project.toml of a package in a directory is edited, or the directory goes.
EditLocal(n) ==
  /\ Finished /\ edits < MaxEdits /\ n \in DOMAIN local
  /\ \/ \E m \in Rewritten \ {local[n]} : local' = [local EXCEPT ![n] = m]
     \/ local' = [m \in DOMAIN local \ {n} |-> local[m]]
  /\ edits' = edits + 1 /\ status' = "idle"
  /\ UNCHANGED <<registry, published, project, lock, read, prefer, float, selected, round>>

Init ==
  /\ \E s \in Scenario :
       registry = s.registry /\ local = s.local /\ published = s.published
  /\ project \in Project
  /\ lock = <<>> /\ read = <<>> /\ prefer = <<>> /\ float = {} /\ selected = <<>>
  /\ round = 0 /\ status = "idle" /\ edits = 0

Next ==
  \/ Round \/ Unreachable \/ WriteLock
  \/ InstallLocked \/ InstallFresh \/ InstallNothing \/ UpdateAll
  \/ \E n \in Package : UpdateOnly(n)
  \/ \E p \in Project : Edit(p)
  \/ \E n \in Package, v \in Version : Publish(n, v)
  \/ \E n \in Package : EditLocal(n)

Spec == Init /\ [][Next]_vars /\ WF_vars(Round \/ WriteLock)

(***************************************************************************)
(* Properties                                                              *)
(***************************************************************************)
\* Every requirement of the roots and of the packages of g is met within g.  A
\* package in a directory answers any requirement of its name.
Met(g) ==
  /\ \A c \in Constraints(g) :
       c.name \in DOMAIN g /\ (g[c.name].source = "path" \/ g[c.name].version \in c.range)
  /\ PathRoots \cup UNION {PathDeps(n, g[n]) : n \in DOMAIN g} \subseteq DOMAIN g

Obeyed(g) ==
  \A n \in DOMAIN g \cap DOMAIN project.overrides :
     g[n].source = "path" \/ g[n].version = project.overrides[n]

\* The manifests in directories that the lock was made from are still there.
AsRead == \A n \in DOMAIN read : n \in DOMAIN local /\ local[n] = read[n]

\* What a resolution ends with meets every requirement and every override of the
\* project, and what sn install takes from a lock file without resolving still
\* meets every requirement of the project.toml it finds, whatever was edited there
\* or published since, as long as the packages in directories are as they were when
\* it was made (docs/packages.md:29, resolve.ts:722-783).
Consistent ==
  /\ status = "resolved" => Met(selected) /\ Obeyed(selected)
  /\ status = "installed" /\ AsRead => Met(lock)

\* "Full graph is locked" (docs/spec/packages.md:61): when sn install ends well the
\* lock has what every package of it requires, also those in directories.
FullGraphLocked == status = "installed" => Met(lock)

\* The preferred version of a name, or else the highest published one.
Wanted(n) ==
  LET liked == {v \in published[n] : n \in DOMAIN prefer \ float /\ prefer[n] = v}
  IN  Released(Highest(IF liked = {} THEN published[n] ELSE liked), FALSE)

\* The selection that takes what is wanted of every name, from the roots on.
Wish ==
  [n \in Reached(DOMAIN project.roots, [m \in Package |-> DOMAIN Dependencies(m, Wanted(m))]) |->
     Wanted(n)]

\* A selection that only wishes what the ranges admit is found: a lock file is
\* reproduced by the resolver, and the newest versions are taken if they fit
\* (pickVersion, resolve.ts:442-457).
FindsWish ==
  /\ status \in {"resolved"} \cup (Failures \ {"failed"})
  /\ PathRoots = {} /\ DOMAIN project.overrides = {} /\ DOMAIN project.roots # {}
  /\ \A n \in Package : published[n] # {}
  /\ Met(Wish) /\ ~Malformed(Wish) /\ \A n \in DOMAIN Wish : PathDeps(n, Wish[n]) = {}
  => status = "resolved" /\ selected = Wish

Walked(g) ==
  Reached(DOMAIN project.roots, [n \in DOMAIN g |-> DOMAIN Dependencies(n, g[n])])

ManifestsOf(n) ==
  {registry[n][v] : v \in DOMAIN registry[n]} \cup {local[m] : m \in {n} \cap DOMAIN local}

MayNeed(n) == UNION {DOMAIN m : m \in ManifestsOf(n)}

Acyclic == \A n \in Package : n \notin Reached(MayNeed(n), [m \in Package |-> MayNeed(m)])

\* What needs a package in a directory is itself required by no other package by a
\* range.
PathsApart ==
  \A n \in Package : (\E m \in ManifestsOf(n) : \E d \in DOMAIN m : m[d].kind = "path") =>
    \A p \in Package : \A m \in ManifestsOf(p) : ~ (n \in DOMAIN m /\ IsRange(m[n]))

\* Unless packages need each other in a circle, what is selected is what the roots
\* need and nothing more, and the rounds come to rest, if what needs packages in
\* directories is not required by a range as well (resolve.ts:200-228, 311-323).
AcyclicSettles ==
  Acyclic => /\ PathsApart => status # "diverged"
             /\ status = "resolved" => DOMAIN selected = Walked(selected)

\* "Nested path dependencies are supported" (docs/packages.md:40): whatever needs a
\* package in a directory, the rounds come to rest unless there is a circle.
NestedPathsSettle == Acyclic => status # "diverged"
=============================================================================
