----------------------------- MODULE MCResolver -----------------------------
(* Small registries and projects for Resolver. *)
EXTENDS Resolver, FiniteSetsExt, TLC

CONSTANTS p, q, r

MCPackage == {p, q, r}
MCVersion == {1, 2}

Needs(S) == [kind |-> "version", range |-> S]
Either == Needs({1, 2})

\* Version 1 of p and of r needs nothing, the others need up to MaxNeeds names.
Slot == {s \in MCPackage \X MCVersion \X MCPackage : s[1] # s[3] /\ (s[2] = 2 \/ s[1] = q)}
Edges(k) == UNION {[E -> {Needs({1}), Either}] : E \in kSubset(k, Slot)}
Manifest(f, n, v) == [d \in {s[3] : s \in {t \in DOMAIN f : t[1] = n /\ t[2] = v}} |-> f[<<n, v, d>>]]
Registry(f) == [n \in MCPackage |-> [v \in MCVersion |-> Manifest(f, n, v)]]

All == [n \in MCPackage |-> MCVersion]
Before(n) == [All EXCEPT ![n] = {1}]

MCScenario ==
  {[registry |-> Registry(f), local |-> <<>>, published |-> All] :
     f \in UNION {Edges(k) : k \in 0..3}}
  \cup {[registry |-> Registry(f), local |-> <<>>, published |-> Before(n)] :
     f \in UNION {Edges(k) : k \in 0..2}, n \in {p}}
  \cup {[registry |-> Registry(f), local |-> l, published |-> [All EXCEPT ![r] = S]] :
     f \in Edges(1), S \in {{}, {1, 2}},
     l \in {q :> (r :> Needs({1})), q :> (r :> Path) @@ r :> <<>>, q :> (r :> Path),
            q :> (p :> Needs({1}))}}
  \cup {[registry |-> Registry([s \in {<<p, 2, q>>} |-> [kind |-> "invalid"]]),
         local |-> <<>>, published |-> All]}

Roots(f, l) == [roots |-> f, last |-> l, overrides |-> <<>>]
MCProject == {Roots(p :> Either, p), Roots(p :> Either @@ q :> Either, q), Roots(p :> Either @@ q :> Path, q),
              Roots(p :> Either @@ q :> Needs({1}), p), Roots(<<>>, p),
              [roots |-> p :> Either, last |-> p, overrides |-> r :> 1]}

MCRewritten == {r :> Needs({1}), r :> Path}

\* Five packages in directories, none of which needs itself: a needs the directory of
\* q, c needs q by a range, q needs the directory of r.
NestedPackage == {"a", "b", "c", "q", "r"}
NestedScenario ==
  {[registry |-> [n \in NestedPackage |-> <<>>], published |-> [n \in NestedPackage |-> {}],
    local |-> [a |-> [q |-> Path], b |-> <<>>, c |-> [q |-> Needs({1})], q |-> [r |-> Path], r |-> <<>>]]}
NestedProject ==
  {[roots |-> [a |-> Path, b |-> Path, c |-> Path], last |-> "b", overrides |-> <<>>]}
=============================================================================
