------------------------- MODULE PackageStoreProofs -------------------------
(***************************************************************************)
(* Proofs about PackageStore: with one command at a time (the processes    *)
(* may die, but no file operation is torn) what is trusted is whole, a     *)
(* project that is done has its lock in the store, and it is registered    *)
(* for one version of a name.  For any projects, packages and versions.    *)
(***************************************************************************)
EXTENDS PackageStore, FiniteSetTheorems, TLAPS

-----------------------------------------------------------------------------
(* The inductive invariant.                                                *)

Maybe(S) == S \cup {<<>>}

\* Where a command can be.
Installing == {"check", "recheck", "download", "extract", "rest", "seal", "release", "register", "registered"}
Dropping == {"drop", "unregister", "collect"}
Ending == {"native", "copy", "lock"}

Process ==
  [pc : Installing \cup Dropping \cup Ending \cup {"idle", "resolve", "next"}, cmd : {"", "resolve", "locked", "nothing"},
   loaded : Graph, goal : Graph, loads : Nat, todo : SUBSET PV, cur : Maybe(PV), drops : SUBSET PV,
   old : Maybe(PV), then : {"", "next", "register", "lock"}, snap : Maybe([PV -> SUBSET Root])]

Typed == TypeOK /\ proc \in [Root -> Process]

\* Whole in the store, with its sidecar, and registered for the project.
Secured(r, e) == dir[e] = Whole(TRUE) /\ r \in index[e]

Alone == \A r, s \in Root : proc[r].pc # "idle" /\ proc[s].pc # "idle" => r = s
Uncommitted == \A r \in Root : proc[r].pc # "idle" => ~clean[r]
LocksSecured == \A r \in Root : clean[r] => \A e \in Entries(lock[r]) : Secured(r, e)
OneRegistered == \A r \in Root, e, f \in PV : r \in index[e] /\ r \in index[f] /\ e[1] = f[1] => e = f

\* A package is being installed, or the other versions of it are being dropped.
Releasing(p) == p.pc \in Dropping /\ p.then = "register"
InHand(p) == p.pc \in Installing \/ Releasing(p)
Ready(p) == p.pc \in {"release", "register", "registered"} \/ Releasing(p)

\* The directory of the package in hand, step by step of its installation.
HandSound(p) ==
  /\ InHand(p) => p.cur \in PV /\ (p.goal = NoPackage \/ p.cur \in Entries(p.goal))
  /\ p.pc = "recheck" => ~dir[p.cur].toml
  /\ p.pc = "download" => ~Trusted(dir[p.cur])
  /\ p.pc = "extract" => dir[p.cur] = Absent
  /\ p.pc = "rest" => ~dir[p.cur].sealed
  /\ p.pc = "seal" => dir[p.cur] = Whole(FALSE)
  /\ Ready(p) => dir[p.cur] = Whole(TRUE)

\* What is dropped, and what is about to be written to dependants.json.
DropsSound(r, p) ==
  /\ p.pc \in Dropping => p.then \in {"next", "register", "lock"}
  /\ p.pc \in {"unregister", "collect"} => p.old \in PV
  /\ Releasing(p) => \A e \in p.drops : e[1] = p.cur[1] /\ e # p.cur
  /\ Releasing(p) /\ p.pc # "drop" => p.old[1] = p.cur[1] /\ p.old # p.cur
  /\ p.pc = "unregister" => p.snap = [index EXCEPT ![p.old] = @ \ {r}]
  /\ p.pc = "registered" => p.snap = [index EXCEPT ![p.cur] = @ \cup {r}]

\* The other versions of the package in hand are registered no more, or dropped next.
Rivals(r, p) == {e \in PV : e[1] = p.cur[1] /\ e # p.cur /\ r \in index[e]}
VersionsSound(r, p) ==
  /\ p.pc \in {"register", "registered"} => Rivals(r, p) = {}
  /\ Releasing(p) => Rivals(r, p) \subseteq p.drops \cup (IF p.pc = "unregister" THEN {p.old} ELSE {})

\* How much of the goal has been reached.
GoalSound(r, p) ==
  /\ p.pc = "resolve" => p.goal = NoPackage
  /\ p.pc \in {"resolve", "next"} \/ InHand(p) => p.todo \subseteq Entries(p.goal)
  /\ p.pc \in Dropping /\ p.then = "next" => p.todo = Entries(p.goal)
  /\ p.pc \in Dropping /\ p.then = "lock" => p.goal = NoPackage
  /\ p.pc = "next" => \A e \in Entries(p.goal) \ p.todo : Secured(r, e)
  /\ InHand(p) => \A e \in Entries(p.goal) \ (p.todo \cup {p.cur}) : Secured(r, e)
  /\ p.pc \in Ending => \A e \in Entries(p.goal) : Secured(r, e)

Sound(r, p) == HandSound(p) /\ DropsSound(r, p) /\ VersionsSound(r, p) /\ GoalSound(r, p)
ProcessSound(r) == Sound(r, proc[r])

Inv ==
  /\ Typed
  /\ Alone /\ Uncommitted
  /\ TrustedIsWhole /\ LocksSecured /\ OneRegistered
  /\ \A r \in Root : ProcessSound(r)

\* The commands run one at a time, and no file operation is torn.
Sequential == ~Together /\ "torn" \notin Faults

-----------------------------------------------------------------------------
(* Facts about dependency graphs. *)

LEMMA EmptyGraph == NoPackage \in Graph /\ Entries(NoPackage) = {}
<1>1. NoPackage \in [{} -> Version] /\ DOMAIN NoPackage = {}
  BY DEF NoPackage
<1> QED BY <1>1 DEF Graph, Entries

\* A graph has one version of a name.
LEMMA GraphFacts ==
  ASSUME NEW g \in Graph
  PROVE  /\ DOMAIN g \subseteq Package
         /\ Entries(g) \subseteq PV
         /\ \A e, f \in Entries(g) : e[1] = f[1] => e = f
<1>1. PICK S \in SUBSET Package : g \in [S -> Version]
  BY DEF Graph
<1> QED BY <1>1 DEF Entries, PV

LEMMA ExtendGraph ==
  ASSUME NEW g \in Graph, NEW c \in PV
  PROVE  [n \in DOMAIN g \cup {c[1]} |-> IF n = c[1] THEN c[2] ELSE g[n]] \in Graph
<1>1. PICK S \in SUBSET Package : g \in [S -> Version]
  BY DEF Graph
<1>2. c[1] \in Package /\ c[2] \in Version
  BY DEF PV
<1>3. [n \in S \cup {c[1]} |-> IF n = c[1] THEN c[2] ELSE g[n]] \in [S \cup {c[1]} -> Version]
  BY <1>1, <1>2
<1> QED BY <1>1, <1>2, <1>3 DEF Graph

LEMMA RestrictGraph ==
  ASSUME NEW g \in Graph, NEW S \in SUBSET DOMAIN g
  PROVE  [n \in S |-> g[n]] \in Graph
<1>1. [n \in S |-> g[n]] \in [S -> Version] /\ S \in SUBSET Package
  BY DEF Graph
<1> QED BY <1>1 DEF Graph

LEMMA WholeFacts ==
  ASSUME NEW d \in [toml : BOOLEAN, whole : BOOLEAN, sealed : BOOLEAN], Trusted(d), d.whole
  PROVE  d = Whole(TRUE)
BY DEF Trusted, Whole

-----------------------------------------------------------------------------
(* What a step of one process leaves of the invariant. *)

LEMMA IdleSound ==
  ASSUME NEW s \in Root, proc'[s].pc = "idle"
  PROVE  ProcessSound(s)'
BY DEF ProcessSound, Sound, HandSound, DropsSound, VersionsSound, GoalSound, InHand, Ready,
       Releasing, Installing, Dropping, Ending

LEMMA MaybeFacts ==
  ASSUME NEW S
  PROVE  <<>> \in Maybe(S) /\ S \subseteq Maybe(S)
BY DEF Maybe

LEMMA IdleTyped == Idle \in Process
<1>1. <<>> \in Maybe(PV) /\ <<>> \in Maybe([PV -> SUBSET Root])
  BY MaybeFacts
<1> QED BY <1>1, EmptyGraph DEF Idle, Process

\* A running process moves on: the others are idle, and stay so.
LEMMA Moved ==
  ASSUME Inv, NEW r \in Root, proc[r].pc # "idle", NEW p \in Process, Go(r, p), clean' = clean
  PROVE  /\ proc' \in [Root -> Process] /\ proc'[r] = p
         /\ Alone' /\ Uncommitted'
         /\ \A s \in Root : s # r => ProcessSound(s)'
<1>1. proc \in [Root -> Process] /\ proc' = [proc EXCEPT ![r] = p]
  BY DEF Inv, Typed, Go
<1>2. proc' \in [Root -> Process] /\ proc'[r] = p /\ \A s \in Root : s # r => proc'[s] = proc[s]
  BY <1>1
<1>3. \A s \in Root : s # r => proc[s].pc = "idle"
  BY DEF Inv, Alone
<1>4. Alone' /\ Uncommitted'
  BY <1>2, <1>3 DEF Inv, Alone, Uncommitted
<1> QED BY <1>2, <1>3, <1>4, IdleSound

\* A step that changes no file but the cache of native artifacts.
LEMMA CacheStep ==
  ASSUME Inv, NEW r \in Root, proc[r].pc # "idle", NEW p \in Process, Go(r, p), Sound(r, p),
         UNCHANGED <<dir, index, lock, clean>>, cache' \in [PV -> {"none", "half", "whole"}]
  PROVE  Inv'
<1>1. clean' = clean /\ dir' = dir /\ index' = index /\ lock' = lock
  OBVIOUS
<1>2. proc' \in [Root -> Process] /\ proc'[r] = p /\ Alone' /\ Uncommitted'
      /\ \A s \in Root : s # r => ProcessSound(s)'
  BY <1>1, Moved
<1>3. ProcessSound(r)'
  <2>1. HandSound(p)' /\ DropsSound(r, p)'
    BY <1>1 DEF Sound, HandSound, DropsSound
  <2>2. Rivals(r, p)' = Rivals(r, p) /\ \A e : Secured(r, e)' <=> Secured(r, e)
    BY <1>1 DEF Rivals, Secured
  <2>3. VersionsSound(r, p)' /\ GoalSound(r, p)'
    BY <2>2 DEF Sound, VersionsSound, GoalSound
  <2>4. Sound(r, p)'
    BY <2>1, <2>3 DEF Sound
  <2> QED BY <2>4, <1>2 DEF ProcessSound
<1>4. TrustedIsWhole' /\ LocksSecured' /\ OneRegistered' /\ Typed'
  BY <1>1, <1>2 DEF Inv, TrustedIsWhole, LocksSecured, OneRegistered, Typed, TypeOK, Secured
<1> QED BY <1>2, <1>3, <1>4 DEF Inv

LEMMA QuietStep ==
  ASSUME Inv, NEW r \in Root, proc[r].pc # "idle", NEW p \in Process, Go(r, p), Sound(r, p), Quiet
  PROVE  Inv'
<1>1. UNCHANGED <<dir, index, lock, clean>> /\ cache' \in [PV -> {"none", "half", "whole"}]
  BY DEF Quiet, files, Inv, Typed, TypeOK
<1> QED BY <1>1, CacheStep

\* The directory of a version changes: what was secured stays secured, unless it
\* was whole, is not any more, and somebody is registered for it.
LEMMA DirStep ==
  ASSUME Inv, NEW r \in Root, NEW c \in PV,
         NEW d \in [toml : BOOLEAN, whole : BOOLEAN, sealed : BOOLEAN],
         SetDir(r, c, d), Trusted(d) => d.whole,
         dir[c] # Whole(TRUE) \/ d = Whole(TRUE) \/ index[c] = {}
  PROVE  /\ clean' = clean /\ index' = index
         /\ dir' \in [PV -> [toml : BOOLEAN, whole : BOOLEAN, sealed : BOOLEAN]]
         /\ dir'[c] = d /\ \A e \in PV : e # c => dir'[e] = dir[e]
         /\ \A s \in Root, e \in PV : Secured(s, e) => Secured(s, e)'
         /\ TypeOK' /\ TrustedIsWhole' /\ LocksSecured' /\ OneRegistered'
<1>1. /\ index' = index /\ cache' = cache /\ lock' = lock /\ clean' = clean
      /\ dir' = [dir EXCEPT ![c] = d]
  BY DEF SetDir
<1>2. /\ dir' \in [PV -> [toml : BOOLEAN, whole : BOOLEAN, sealed : BOOLEAN]]
      /\ dir'[c] = d /\ \A e \in PV : e # c => dir'[e] = dir[e]
  BY <1>1 DEF Inv, Typed, TypeOK
<1>3. TypeOK'
  BY <1>1, <1>2 DEF Inv, Typed, TypeOK
<1>4. \A s \in Root, e \in PV : Secured(s, e) => Secured(s, e)'
  BY <1>1, <1>2 DEF Secured
<1>5. LocksSecured'
  <2> SUFFICES ASSUME NEW s \in Root, clean[s], NEW e \in Entries(lock[s])
               PROVE  Secured(s, e)'
    BY <1>1 DEF LocksSecured
  <2>1. Secured(s, e) /\ lock[s] \in Graph
    BY DEF Inv, LocksSecured, Typed, TypeOK
  <2> QED BY <2>1, <1>4, GraphFacts
<1>6. TrustedIsWhole' /\ OneRegistered'
  BY <1>1, <1>2 DEF Inv, TrustedIsWhole, OneRegistered, Trusted
<1> QED BY <1>1, <1>2, <1>3, <1>4, <1>5, <1>6

\* A step that changes nothing but a directory.
LEMMA DirMove ==
  ASSUME Inv, NEW r \in Root, proc[r].pc # "idle", NEW p \in Process, Go(r, p), clean' = clean,
         TypeOK', TrustedIsWhole', LocksSecured', OneRegistered', Sound(r, p)'
  PROVE  Inv'
<1>1. proc' \in [Root -> Process] /\ proc'[r] = p /\ Alone' /\ Uncommitted'
      /\ \A s \in Root : s # r => ProcessSound(s)'
  BY Moved
<1>2. ProcessSound(r)'
  BY <1>1 DEF ProcessSound
<1> QED BY <1>1, <1>2 DEF Inv, Typed

LEMMA Ran ==
  ASSUME Inv, NEW r \in Root
  PROVE  proc[r] \in Process /\ Sound(r, proc[r])
BY DEF Inv, Typed, ProcessSound

-----------------------------------------------------------------------------
(* The commands begin and end. *)

LEMMA BeginStep ==
  ASSUME Inv, Sequential, NEW r \in Root, NEW p \in Process, Begin(r, p), Sound(r, p)
  PROVE  Inv'
<1>1. /\ dir' = dir /\ index' = index /\ cache' = cache /\ lock' = lock
      /\ clean' = [clean EXCEPT ![r] = FALSE] /\ proc' = [proc EXCEPT ![r] = p]
      /\ \A s \in Root : proc[s].pc = "idle"
  BY DEF Begin, Sequential, Running, files, Go
<1>2. proc' \in [Root -> Process] /\ proc'[r] = p /\ \A s \in Root : s # r => proc'[s].pc = "idle"
  BY <1>1 DEF Inv, Typed
<1>3. /\ clean' \in [Root -> BOOLEAN] /\ ~clean'[r]
      /\ \A s \in Root : clean'[s] => clean[s]
  BY <1>1 DEF Inv, Typed, TypeOK
<1>4. Alone' /\ Uncommitted'
  BY <1>2, <1>3 DEF Alone, Uncommitted
<1>5. Typed' /\ TrustedIsWhole' /\ LocksSecured' /\ OneRegistered'
  BY <1>1, <1>2, <1>3 DEF Inv, Typed, TypeOK, TrustedIsWhole, LocksSecured, OneRegistered, Secured
<1>6. ProcessSound(r)'
  <2>1. HandSound(p)' /\ DropsSound(r, p)'
    BY <1>1 DEF Sound, HandSound, DropsSound
  <2>2. Rivals(r, p)' = Rivals(r, p) /\ \A e : Secured(r, e)' <=> Secured(r, e)
    BY <1>1 DEF Rivals, Secured
  <2>3. VersionsSound(r, p)' /\ GoalSound(r, p)'
    BY <2>2 DEF Sound, VersionsSound, GoalSound
  <2>4. Sound(r, p)'
    BY <2>1, <2>3 DEF Sound
  <2> QED BY <2>4, <1>2 DEF ProcessSound
<1>7. \A s \in Root : ProcessSound(s)'
  BY <1>2, <1>6, IdleSound
<1> QED BY <1>4, <1>5, <1>7 DEF Inv

LEMMA ResolveStep ==
  ASSUME Inv, Sequential, NEW r \in Root, Resolve(r)
  PROVE  Inv'
<1> DEFINE p == [Idle EXCEPT !.pc = "resolve", !.cmd = "resolve"]
<1>1. p \in Process /\ p.pc = "resolve" /\ p.goal = NoPackage /\ p.todo = {}
  BY IdleTyped, EmptyGraph DEF Idle, Process
<1>2. Sound(r, p)
  BY <1>1 DEF Sound, HandSound, DropsSound, VersionsSound, GoalSound, InHand, Ready, Releasing,
              Installing, Dropping, Ending
<1> QED BY <1>1, <1>2, BeginStep DEF Resolve

LEMMA InstallLockedStep ==
  ASSUME Inv, Sequential, NEW r \in Root, InstallLocked(r)
  PROVE  Inv'
<1> DEFINE p == [Idle EXCEPT !.pc = "next", !.cmd = "locked", !.goal = lock[r],
                             !.todo = Entries(lock[r])]
<1>1. lock[r] \in Graph /\ Entries(lock[r]) \subseteq PV
  BY GraphFacts DEF Inv, Typed, TypeOK
<1>2. p \in Process /\ p.pc = "next" /\ p.goal = lock[r] /\ p.todo = Entries(lock[r])
  BY <1>1, IdleTyped, EmptyGraph DEF Idle, Process
<1> HIDE DEF p
<1>3. Sound(r, p)
  BY <1>2 DEF Sound, HandSound, DropsSound, VersionsSound, GoalSound, InHand, Ready, Releasing,
              Installing, Dropping, Ending
<1> QED BY <1>2, <1>3, BeginStep DEF InstallLocked, p

LEMMA InstallNothingStep ==
  ASSUME Inv, Sequential, NEW r \in Root, InstallNothing(r)
  PROVE  Inv'
<1> DEFINE p == [Idle EXCEPT !.pc = "drop", !.cmd = "nothing",
                             !.drops = Entries(lock[r]), !.then = "lock"]
<1>1. Entries(lock[r]) \subseteq PV
  BY GraphFacts DEF Inv, Typed, TypeOK
<1>2. p \in Process /\ p.pc = "drop" /\ p.goal = NoPackage /\ p.then = "lock"
  BY <1>1, IdleTyped, EmptyGraph DEF Idle, Process, Dropping
<1> HIDE DEF p
<1>3. Sound(r, p)
  BY <1>2 DEF Sound, HandSound, DropsSound, VersionsSound, GoalSound, InHand, Ready, Releasing,
              Installing, Dropping, Ending
<1> QED BY <1>2, <1>3, BeginStep DEF InstallNothing, p

\* A command that fails, or is killed, leaves the files as they are.
LEMMA Stopped ==
  ASSUME Inv, NEW r \in Root, proc[r].pc # "idle", Go(r, Idle),
         UNCHANGED <<files, clean>>
  PROVE  Inv'
<1>1. /\ dir' = dir /\ index' = index /\ cache' = cache /\ lock' = lock /\ clean' = clean
  BY DEF files
<1>2. /\ proc' \in [Root -> Process] /\ proc'[r] = Idle /\ Alone' /\ Uncommitted'
      /\ \A s \in Root : s # r => ProcessSound(s)'
  BY <1>1, IdleTyped, Moved
<1>3. ProcessSound(r)'
  <2>1. Idle.pc = "idle"
    BY DEF Idle
  <2> QED BY <2>1, <1>2, IdleSound
<1>4. TrustedIsWhole' /\ LocksSecured' /\ OneRegistered'
  BY <1>1 DEF Inv, TrustedIsWhole, LocksSecured, OneRegistered, Secured
<1>5. Typed'
  BY <1>1, <1>2 DEF Inv, Typed, TypeOK
<1> QED BY <1>2, <1>3, <1>4, <1>5 DEF Inv

LEMMA CrashStep ==
  ASSUME Inv, Sequential, NEW r \in Root, Crash(r)
  PROVE  Inv'
<1>1. dir' = dir /\ index' = index
  BY DEF Crash, Sequential
<1>2. proc[r].pc # "idle" /\ Go(r, Idle) /\ UNCHANGED <<files, clean>>
  BY <1>1 DEF Crash, At, files
<1> QED BY <1>2, Stopped

\* The lock is written when everything it names is in the store.
LEMMA WriteLockStep ==
  ASSUME Inv, NEW r \in Root, WriteLock(r)
  PROVE  Inv'
<1>1. /\ proc[r].pc = "lock" /\ proc[r] \in Process /\ ProcessSound(r)
      /\ dir' = dir /\ index' = index /\ cache' = cache
      /\ lock' = [lock EXCEPT ![r] = proc[r].goal] /\ clean' = [clean EXCEPT ![r] = TRUE]
      /\ proc' = [proc EXCEPT ![r] = Idle]
  BY DEF WriteLock, At, Go, Inv, Typed
<1>2. /\ proc[r].goal \in Graph /\ \A e \in Entries(proc[r].goal) : Secured(r, e)
  BY <1>1 DEF Process, ProcessSound, Sound, GoalSound, Ending
<1>3. proc' \in [Root -> Process] /\ \A s \in Root : proc'[s].pc = "idle"
  <2>1. proc' \in [Root -> Process] /\ proc'[r] = Idle /\ \A s \in Root : s # r => proc'[s] = proc[s]
    BY <1>1, IdleTyped DEF Inv, Typed
  <2>2. \A s \in Root : s # r => proc[s].pc = "idle"
    BY <1>1 DEF Inv, Alone
  <2>3. Idle.pc = "idle"
    BY DEF Idle
  <2> QED BY <2>1, <2>2, <2>3
<1>4. /\ lock' \in [Root -> Graph] /\ clean' \in [Root -> BOOLEAN] /\ lock'[r] = proc[r].goal
      /\ \A s \in Root : s # r => lock'[s] = lock[s] /\ clean'[s] = clean[s]
  BY <1>1, <1>2 DEF Inv, Typed, TypeOK
<1>5. LocksSecured'
  <2> SUFFICES ASSUME NEW s \in Root, clean'[s], NEW e \in Entries(lock'[s])
               PROVE  Secured(s, e)'
    BY DEF LocksSecured, Entries
  <2>1. Secured(s, e)
    BY <1>2, <1>4 DEF Inv, LocksSecured
  <2> QED BY <2>1, <1>1 DEF Secured
<1>6. Typed' /\ Alone' /\ Uncommitted' /\ TrustedIsWhole' /\ OneRegistered'
  BY <1>1, <1>3, <1>4 DEF Inv, Typed, TypeOK, Alone, Uncommitted, TrustedIsWhole, OneRegistered
<1> QED BY <1>3, <1>5, <1>6, IdleSound DEF Inv

LEMMA CacheCleanStep ==
  ASSUME Inv, CacheClean
  PROVE  Inv'
<1>1. /\ dir' = dir /\ index' = index /\ lock' = lock /\ clean' = clean /\ proc' = proc
      /\ cache' = [e \in PV |-> "none"]
  BY DEF CacheClean
<1>2. /\ Typed' /\ Alone' /\ Uncommitted' /\ TrustedIsWhole' /\ LocksSecured' /\ OneRegistered'
  BY <1>1 DEF Inv, Typed, TypeOK, Alone, Uncommitted, TrustedIsWhole, LocksSecured, OneRegistered, Secured
<1>3. ASSUME NEW r \in Root PROVE ProcessSound(r)'
  <2>1. HandSound(proc[r])' /\ DropsSound(r, proc[r])'
    BY <1>1 DEF Inv, ProcessSound, Sound, HandSound, DropsSound, InHand, Ready, Releasing
  <2>2. Rivals(r, proc[r])' = Rivals(r, proc[r]) /\ \A e : Secured(r, e)' <=> Secured(r, e)
    BY <1>1 DEF Rivals, Secured
  <2>3. VersionsSound(r, proc[r])' /\ GoalSound(r, proc[r])'
    BY <1>1, <2>2 DEF Inv, ProcessSound, Sound, VersionsSound, GoalSound, InHand, Releasing
  <2> QED BY <2>1, <2>3 DEF ProcessSound, Sound
<1> QED BY <1>2, <1>3 DEF Inv

-----------------------------------------------------------------------------
(* The steps of a resolution. *)

LEMMA LoadStep ==
  ASSUME Inv, NEW r \in Root, Load(r)
  PROVE  Inv'
<1>1. PICK c \in PV :
        Go(r, [proc[r] EXCEPT !.pc = IF Installed(dir[c]) THEN "check" ELSE "recheck",
                              !.cur = c, !.loads = @ + 1,
                              !.loaded = [n \in DOMAIN @ \cup {c[1]} |->
                                            IF n = c[1] THEN c[2] ELSE @[n]]])
  BY DEF Load
<1> DEFINE q == proc[r]
           p == [q EXCEPT !.pc = IF Installed(dir[c]) THEN "check" ELSE "recheck",
                          !.cur = c, !.loads = @ + 1,
                          !.loaded = [n \in DOMAIN @ \cup {c[1]} |->
                                        IF n = c[1] THEN c[2] ELSE @[n]]]
<1>2. q \in Process /\ Sound(r, q) /\ q.pc = "resolve" /\ Quiet
  BY Ran DEF Load
<1>3. q.goal = NoPackage /\ q.todo = {}
  BY <1>2, EmptyGraph DEF Sound, GoalSound
<1>4. c \in Maybe(PV) /\ q.loaded \in Graph
      /\ [n \in DOMAIN q.loaded \cup {c[1]} |-> IF n = c[1] THEN c[2] ELSE q.loaded[n]] \in Graph
  BY <1>2, MaybeFacts, ExtendGraph DEF Process
<1>5. p.goal = NoPackage /\ p.todo = {} /\ p.cur = c
  BY <1>2, <1>3 DEF Process
<1>6. p.pc \in {"check", "recheck"} /\ (p.pc = "recheck" => ~dir[c].toml)
  BY <1>2 DEF Process, Installed
<1>8. p \in Process
  <2>1. (IF Installed(dir[c]) THEN "check" ELSE "recheck") \in Installing
    BY DEF Installing
  <2>2. q.loads \in Nat
    BY <1>2 DEF Process
  <2>3. q.loads + 1 \in Nat
    BY <2>2
  <2> QED BY <1>2, <1>4, <2>1, <2>3 DEF Process
<1> HIDE DEF p
<1>7. Sound(r, p)
  BY <1>5, <1>6, EmptyGraph DEF Sound, HandSound, DropsSound, VersionsSound, GoalSound, InHand, Ready,
                                Releasing, Installing, Dropping, Ending
<1> QED BY <1>1, <1>2, <1>7, <1>8, QuietStep DEF p, q

LEMMA ResolvedStep ==
  ASSUME Inv, NEW r \in Root, Resolved(r)
  PROVE  Inv'
<1> DEFINE q == proc[r]
           Goal(S) == [n \in S |-> q.loaded[n]]
           P(S) == [q EXCEPT !.pc = "drop", !.goal = Goal(S), !.then = "next",
                             !.todo = Entries(Goal(S)),
                             !.drops = {e \in Entries(lock[r]) : e[1] \notin S}]
<1>1. PICK S \in SUBSET DOMAIN q.loaded : Go(r, P(S))
  BY DEF Resolved
<1> DEFINE p == P(S)
<1>2. q \in Process /\ q.pc = "resolve" /\ Quiet
  BY Ran DEF Resolved
<1>3. Goal(S) \in Graph /\ lock[r] \in Graph
  BY <1>2, RestrictGraph DEF Process, Inv, Typed, TypeOK
<1>4. Entries(Goal(S)) \subseteq PV /\ Entries(lock[r]) \subseteq PV
  BY <1>3, GraphFacts
<1> HIDE DEF Goal
<1>5. /\ p \in Process /\ p.pc = "drop" /\ p.then = "next" /\ p.todo = Entries(p.goal)
  BY <1>2, <1>3, <1>4 DEF Process, Dropping
<1> HIDE DEF P
<1>6. Sound(r, p)
  BY <1>5 DEF Sound, HandSound, DropsSound, VersionsSound, GoalSound, InHand, Ready, Releasing,
              Installing, Dropping, Ending
<1> QED BY <1>1, <1>2, <1>5, <1>6, QuietStep DEF q

\* What ends a command without a file being changed.
LEMMA QuitStep ==
  ASSUME Inv, NEW r \in Root, Unresolved(r) \/ DownloadFails(r) \/ IntegrityError(r)
  PROVE  Inv'
<1>1. proc[r].pc # "idle" /\ Go(r, Idle) /\ UNCHANGED <<files, clean>>
  BY DEF Unresolved, DownloadFails, IntegrityError, At, Quit
<1> QED BY <1>1, Stopped

-----------------------------------------------------------------------------
(* The installation of a package. *)

LEMMA NextInstallStep ==
  ASSUME Inv, NEW r \in Root, NextInstall(r)
  PROVE  Inv'
<1> DEFINE q == proc[r]
<1>1. q \in Process /\ Sound(r, q) /\ q.pc = "next" /\ Quiet
  BY Ran DEF NextInstall
<1>2. /\ q.todo \subseteq Entries(q.goal) /\ \A e \in Entries(q.goal) \ q.todo : Secured(r, e)
      /\ q.goal \in Graph
  BY <1>1 DEF Sound, GoalSound, Process
<1>3. CASE q.todo = {}
  <2> DEFINE p == [q EXCEPT !.pc = "native", !.todo = {e \in Entries(q.goal) : e[1] \in Native}]
  <2>1. Entries(q.goal) \subseteq PV
    BY <1>2, GraphFacts
  <2>2. p \in Process /\ p.pc = "native" /\ p.goal = q.goal
    BY <1>1, <2>1 DEF Process, Ending
  <2>3. Go(r, p)
    BY <1>3 DEF NextInstall
  <2> HIDE DEF p
  <2>4. Sound(r, p)
    BY <1>2, <1>3, <2>2 DEF Sound, HandSound, DropsSound, VersionsSound, GoalSound, InHand, Ready,
                            Releasing, Installing, Dropping, Ending
  <2> QED BY <1>1, <2>2, <2>3, <2>4, QuietStep
<1>4. CASE q.todo # {}
  <2>1. PICK e \in q.todo : Go(r, [q EXCEPT !.pc = "check", !.cur = e, !.todo = @ \ {e}])
    BY <1>4 DEF NextInstall
  <2> DEFINE p == [q EXCEPT !.pc = "check", !.cur = e, !.todo = @ \ {e}]
  <2>2. e \in PV /\ e \in Maybe(PV)
    BY <1>1, MaybeFacts DEF Process
  <2>3. p \in Process /\ p.pc = "check" /\ p.goal = q.goal /\ p.cur = e /\ p.todo = q.todo \ {e}
    BY <1>1, <2>2 DEF Process, Installing
  <2> HIDE DEF p
  <2>4. Sound(r, p)
    BY <1>2, <2>2, <2>3 DEF Sound, HandSound, DropsSound, VersionsSound, GoalSound, InHand, Ready,
                            Releasing, Installing, Dropping, Ending
  <2> QED BY <1>1, <2>1, <2>3, <2>4, QuietStep DEF p
<1> QED BY <1>3, <1>4

\* A package stays in hand and its directory as it is.
LEMMA HandMoves ==
  ASSUME Inv, NEW r \in Root, proc[r].pc \in Installing, Quiet,
         NEW to \in {"download", "release"}, To(r, to),
         to = "download" => ~Trusted(dir[proc[r].cur]),
         to = "release" => dir[proc[r].cur] = Whole(TRUE)
  PROVE  Inv'
<1> DEFINE q == proc[r]
           p == [q EXCEPT !.pc = to]
<1>1. q \in Process /\ Sound(r, q) /\ q.pc # "idle"
  BY Ran DEF Installing
<1>2. p \in Process /\ p.pc = to /\ p.goal = q.goal /\ p.cur = q.cur /\ p.todo = q.todo
  BY <1>1 DEF Process, Installing
<1> HIDE DEF p
<1>3. Sound(r, p)
  BY <1>1, <1>2 DEF Sound, HandSound, DropsSound, VersionsSound, GoalSound, InHand, Ready, Releasing,
                    Installing, Dropping, Ending
<1>4. Go(r, p)
  BY DEF To, p
<1> QED BY <1>1, <1>2, <1>3, <1>4, QuietStep

LEMMA CheckStep ==
  ASSUME Inv, NEW r \in Root, Check(r)
  PROVE  Inv'
<1> DEFINE c == proc[r].cur
<1>1. proc[r].pc \in Installing /\ c \in PV /\ Quiet
  BY Ran DEF Check, At, Installing, Sound, HandSound, InHand
<1>2. dir[c] \in [toml : BOOLEAN, whole : BOOLEAN, sealed : BOOLEAN]
  BY <1>1 DEF Inv, Typed, TypeOK
<1>3. Trusted(dir[c]) => dir[c] = Whole(TRUE)
  BY <1>1, <1>2, WholeFacts DEF Inv, TrustedIsWhole
<1>4. To(r, IF Trusted(dir[c]) THEN "release" ELSE "download")
  BY DEF Check
<1> QED BY <1>1, <1>3, <1>4, HandMoves

LEMMA RecheckStep ==
  ASSUME Inv, NEW r \in Root, Recheck(r)
  PROVE  Inv'
<1>1. proc[r].pc \in Installing /\ ~dir[proc[r].cur].toml
  BY Ran DEF Recheck, At, Installing, Sound, HandSound
<1>2. Quiet /\ To(r, "download") /\ ~Trusted(dir[proc[r].cur])
  BY <1>1 DEF Recheck, Installed, Trusted
<1> QED BY <1>1, <1>2, HandMoves

\* A package stays in hand and its directory, which is not trusted, changes.
LEMMA HandDirMoves ==
  ASSUME Inv, NEW r \in Root, proc[r].pc \in Installing,
         NEW d \in [toml : BOOLEAN, whole : BOOLEAN, sealed : BOOLEAN],
         SetDir(r, proc[r].cur, d), Trusted(d) => d.whole, dir[proc[r].cur] # Whole(TRUE),
         NEW to \in {"extract", "rest", "seal", "release"}, To(r, to),
         to = "extract" => d = Absent,
         to = "rest" => ~d.sealed,
         to = "seal" => d = Whole(FALSE),
         to = "release" => d = Whole(TRUE)
  PROVE  Inv'
<1>1. PICK q : q = proc[r]
  OBVIOUS
<1>2. PICK p : p = [q EXCEPT !.pc = to]
  OBVIOUS
<1> DEFINE c == q.cur
<1>3. q \in Process /\ Sound(r, q) /\ q.pc \in Installing
  BY <1>1, Ran
<1>4. c \in PV /\ Entries(q.goal) \subseteq PV
  BY <1>3, GraphFacts DEF Sound, HandSound, InHand, Process
<1>5. p \in Process /\ p.pc = to /\ p.goal = q.goal /\ p.cur = c /\ p.todo = q.todo
  BY <1>2, <1>3 DEF Process, Installing
<1>6. Go(r, p) /\ SetDir(r, c, d) /\ dir[c] # Whole(TRUE)
  BY <1>1, <1>2 DEF To
<1>7. /\ clean' = clean /\ index' = index /\ dir'[c] = d
      /\ \A s \in Root, e \in PV : Secured(s, e) => Secured(s, e)'
      /\ TypeOK' /\ TrustedIsWhole' /\ LocksSecured' /\ OneRegistered'
  BY <1>4, <1>6, DirStep
<1>8. HandSound(p)'
  BY <1>3, <1>4, <1>5, <1>7 DEF Sound, HandSound, InHand, Ready, Releasing, Installing, Dropping
<1>9. DropsSound(r, p)' /\ VersionsSound(r, p)'
  BY <1>5 DEF DropsSound, VersionsSound, Releasing, Dropping
<1>10. GoalSound(r, p)'
  <2>1. InHand(q) /\ InHand(p) /\ p.pc \notin Dropping \cup Ending \cup {"resolve", "next"}
    BY <1>3, <1>5 DEF InHand, Installing, Dropping, Ending
  <2>2. /\ p.todo \subseteq Entries(p.goal)
        /\ \A e \in Entries(p.goal) \ (p.todo \cup {p.cur}) : Secured(r, e)
    BY <1>3, <1>5, <2>1 DEF Sound, GoalSound
  <2>3. \A e \in Entries(p.goal) \ (p.todo \cup {p.cur}) : Secured(r, e)'
    BY <1>4, <1>5, <1>7, <2>2
  <2> QED BY <2>1, <2>2, <2>3 DEF GoalSound
<1>11. Sound(r, p)' /\ proc[r].pc # "idle"
  BY <1>8, <1>9, <1>10 DEF Sound, Installing
<1> QED BY <1>5, <1>6, <1>7, <1>11, DirMove

LEMMA ClearStep ==
  ASSUME Inv, NEW r \in Root, Clear(r)
  PROVE  Inv'
<1>1. proc[r].pc \in Installing /\ ~Trusted(dir[proc[r].cur])
  BY Ran DEF Clear, At, Installing, Sound, HandSound
<1>2. dir[proc[r].cur] # Whole(TRUE)
  BY <1>1 DEF Trusted, Whole
<1>3. Absent \in [toml : BOOLEAN, whole : BOOLEAN, sealed : BOOLEAN] /\ ~Trusted(Absent)
  BY DEF Absent, Trusted
<1>4. SetDir(r, proc[r].cur, Absent) /\ To(r, "extract")
  BY DEF Clear
<1> QED BY <1>1, <1>2, <1>3, <1>4, HandDirMoves

LEMMA ExtractStep ==
  ASSUME Inv, NEW r \in Root, Extract(r)
  PROVE  Inv'
<1> DEFINE c == proc[r].cur
<1>1. proc[r].pc \in {"extract", "rest"} /\ Sound(r, proc[r])
  BY Ran DEF Extract, At
<1>2. proc[r].pc \in Installing /\ c \in PV
  BY <1>1 DEF Installing, Sound, HandSound, InHand
<1>3. dir[c] \in [toml : BOOLEAN, whole : BOOLEAN, sealed : BOOLEAN] /\ ~dir[c].sealed
  BY <1>1, <1>2 DEF Sound, HandSound, Absent, Inv, Typed, TypeOK
<1>4. dir[c] # Whole(TRUE)
  BY <1>3 DEF Whole
<1>5. CASE proc[r].pc = "extract"
  <2>1. PICK toml \in BOOLEAN : To(r, "rest") /\ SetDir(r, c, [dir[c] EXCEPT !.toml = toml])
    BY <1>5 DEF Extract, At
  <2> DEFINE d == [dir[c] EXCEPT !.toml = toml]
  <2>2. d \in [toml : BOOLEAN, whole : BOOLEAN, sealed : BOOLEAN] /\ ~d.sealed /\ ~Trusted(d)
    BY <1>3 DEF Trusted
  <2> QED BY <1>2, <1>4, <2>1, <2>2, HandDirMoves
<1>6. CASE proc[r].pc = "rest"
  <2>1. To(r, "seal") /\ SetDir(r, c, Whole(FALSE))
    BY <1>3, <1>6 DEF Extract, At
  <2>2. Whole(FALSE) \in [toml : BOOLEAN, whole : BOOLEAN, sealed : BOOLEAN] /\ Whole(FALSE).whole
    BY DEF Whole
  <2> QED BY <1>2, <1>4, <2>1, <2>2, HandDirMoves
<1> QED BY <1>1, <1>5, <1>6

LEMMA SealStep ==
  ASSUME Inv, NEW r \in Root, Seal(r)
  PROVE  Inv'
<1> DEFINE c == proc[r].cur
           d == [dir[c] EXCEPT !.sealed = TRUE]
<1>1. proc[r].pc \in Installing /\ c \in PV /\ dir[c] = Whole(FALSE)
  BY Ran DEF Seal, At, Installing, Sound, HandSound, InHand
<1>2. dir[c].toml /\ dir[c].whole /\ ~dir[c].sealed
  BY <1>1 DEF Whole
<1>3. d \in [toml : BOOLEAN, whole : BOOLEAN, sealed : BOOLEAN] /\ Trusted(d) /\ d.whole
  BY <1>1, <1>2 DEF Inv, Typed, TypeOK, Trusted
<1>4. d = Whole(TRUE) /\ dir[c] # Whole(TRUE)
  <2>1. Whole(TRUE).sealed
    BY DEF Whole
  <2> QED BY <1>2, <1>3, <2>1, WholeFacts
<1>5. SetDir(r, c, d) /\ To(r, "release")
  BY DEF Seal
<1> QED BY <1>1, <1>3, <1>4, <1>5, HandDirMoves

-----------------------------------------------------------------------------
(* The versions that are dropped, and the registrations. *)

\* A process moves on, and no file changes: it is enough that it stays sound.
LEMMA Moves ==
  ASSUME Inv, NEW r \in Root, proc[r].pc # "idle", NEW p, Go(r, p), Quiet, p \in Process,
         HandSound(p), DropsSound(r, p), VersionsSound(r, p), GoalSound(r, p)
  PROVE  Inv'
<1>1. Sound(r, p)
  BY DEF Sound
<1> QED BY <1>1, QuietStep

LEMMA ReleaseStep ==
  ASSUME Inv, NEW r \in Root, Release(r)
  PROVE  Inv'
<1>1. PICK q : q = proc[r]
  OBVIOUS
<1>2. PICK p : p = [q EXCEPT !.pc = "drop", !.then = "register",
                       !.drops = {e \in PV : e[1] = q.cur[1] /\ e # q.cur /\ r \in index[e]}]
  OBVIOUS
<1>3. q \in Process /\ Sound(r, q) /\ q.pc = "release" /\ Quiet /\ Go(r, p)
  BY <1>1, <1>2, Ran DEF Release, At
<1>4. /\ p \in Process /\ p.pc = "drop" /\ p.then = "register" /\ p.goal = q.goal
      /\ p.cur = q.cur /\ p.todo = q.todo
      /\ p.drops = {e \in PV : e[1] = q.cur[1] /\ e # q.cur /\ r \in index[e]}
  BY <1>2, <1>3 DEF Process, Dropping
<1>5. Releasing(p) /\ InHand(p) /\ InHand(q) /\ Ready(q)
  BY <1>3, <1>4 DEF Releasing, InHand, Ready, Installing, Dropping
<1>6. HandSound(p)
  BY <1>3, <1>4, <1>5 DEF Sound, HandSound
<1>7. DropsSound(r, p) /\ VersionsSound(r, p)
  BY <1>4 DEF DropsSound, VersionsSound, Rivals
<1>8. GoalSound(r, p)
  BY <1>3, <1>4, <1>5 DEF Sound, GoalSound, Ending
<1> QED BY <1>1, <1>3, <1>4, <1>6, <1>7, <1>8, Moves

LEMMA DropStep ==
  ASSUME Inv, NEW r \in Root, Drop(r)
  PROVE  Inv'
<1>1. PICK q : q = proc[r]
  OBVIOUS
<1>2. q \in Process /\ Sound(r, q) /\ q.pc = "drop" /\ Quiet /\ q.pc \in Dropping
  BY <1>1, Ran DEF Drop, At, Dropping
<1>3. CASE q.drops = {}
  <2>1. PICK p : p = [q EXCEPT !.pc = q.then]
    OBVIOUS
  <2>2. Go(r, p) /\ q.then \in {"next", "register", "lock"}
    BY <1>1, <1>2, <1>3, <2>1 DEF Drop, Sound, DropsSound
  <2>3. /\ p \in Process /\ p.pc = q.then /\ p.goal = q.goal /\ p.cur = q.cur /\ p.todo = q.todo
    BY <1>2, <2>1, <2>2 DEF Process, Installing, Ending
  <2>4. q.then = "register" => Releasing(q) /\ InHand(q) /\ Ready(q)
    BY <1>2 DEF Releasing, InHand, Ready
  <2>5. HandSound(p) /\ DropsSound(r, p)
    BY <1>2, <2>2, <2>3, <2>4 DEF Sound, HandSound, DropsSound, InHand, Ready, Releasing, Installing, Dropping
  <2>6. VersionsSound(r, p)
    BY <1>2, <1>3, <2>2, <2>3, <2>4 DEF Sound, VersionsSound, Rivals, Releasing, Dropping
  <2>7. GoalSound(r, p)
    BY <1>2, <2>2, <2>3, <2>4, EmptyGraph DEF Sound, GoalSound, InHand, Releasing, Installing, Dropping, Ending
  <2> QED BY <1>1, <1>2, <2>2, <2>3, <2>5, <2>6, <2>7, Moves
<1>4. CASE q.drops # {}
  <2>1. PICK e \in q.drops : Go(r, [q EXCEPT !.pc = "unregister", !.old = e, !.drops = @ \ {e},
                                             !.snap = [index EXCEPT ![e] = @ \ {r}]])
    BY <1>1, <1>4 DEF Drop
  <2>2. PICK p : p = [q EXCEPT !.pc = "unregister", !.old = e, !.drops = @ \ {e},
                               !.snap = [index EXCEPT ![e] = @ \ {r}]]
    OBVIOUS
  <2>3. e \in PV /\ e \in Maybe(PV)
    BY <1>2, MaybeFacts DEF Process
  <2>4. [index EXCEPT ![e] = @ \ {r}] \in [PV -> SUBSET Root]
    BY <2>3 DEF Inv, Typed, TypeOK
  <2>5. [index EXCEPT ![e] = @ \ {r}] \in Maybe([PV -> SUBSET Root])
    BY <2>4, MaybeFacts
  <2>6. /\ p.pc = "unregister" /\ p.then = q.then /\ p.goal = q.goal /\ p.cur = q.cur
        /\ p.todo = q.todo /\ p.old = e /\ p.drops = q.drops \ {e}
        /\ p.snap = [index EXCEPT ![e] = @ \ {r}]
    BY <1>2, <2>2 DEF Process
  <2>7. p \in Process
    BY <1>2, <2>2, <2>3, <2>5 DEF Process, Dropping
  <2>8. Releasing(p) <=> Releasing(q)
    BY <1>2, <2>6 DEF Releasing, Dropping
  <2>9. p.pc \in Dropping /\ p.pc \notin Installing /\ q.pc \notin Installing
    BY <1>2, <2>6 DEF Dropping, Installing
  <2>10. HandSound(p)
    BY <1>2, <2>6, <2>8, <2>9 DEF Sound, HandSound, InHand, Ready
  <2>11. DropsSound(r, p)
    BY <1>2, <2>3, <2>6, <2>8 DEF Sound, DropsSound
  <2>12. VersionsSound(r, p)
    BY <1>2, <2>6, <2>8 DEF Sound, VersionsSound, Rivals
  <2>13. GoalSound(r, p)
    BY <1>2, <2>6, <2>8, <2>9 DEF Sound, GoalSound, InHand, Ending
  <2>14. Go(r, p)
    BY <2>1, <2>2
  <2> QED BY <1>1, <1>2, <2>7, <2>10, <2>11, <2>12, <2>13, <2>14, Moves
<1> QED BY <1>3, <1>4

\* A directory is removed when nobody is registered for it any more.
LEMMA CollectStep ==
  ASSUME Inv, NEW r \in Root, Collect(r)
  PROVE  Inv'
<1>1. PICK q : q = proc[r]
  OBVIOUS
<1>2. PICK p : p = [q EXCEPT !.pc = "drop"]
  OBVIOUS
<1>3. q \in Process /\ Sound(r, q) /\ q.pc = "collect" /\ Go(r, p)
  BY <1>1, <1>2, Ran DEF Collect, At, To
<1>4. /\ p \in Process /\ p.pc = "drop" /\ p.then = q.then /\ p.goal = q.goal /\ p.cur = q.cur
      /\ p.todo = q.todo /\ p.drops = q.drops
  BY <1>2, <1>3 DEF Process, Dropping
<1>5. (Releasing(p) <=> Releasing(q)) /\ q.old \in PV /\ p.pc \in Dropping /\ q.pc \in Dropping
      /\ p.pc \notin Installing /\ q.pc \notin Installing
  BY <1>3, <1>4 DEF Releasing, Dropping, Installing, Sound, DropsSound
<1>6. Releasing(q) => q.cur \in PV /\ q.old # q.cur
  BY <1>3, <1>5 DEF Sound, HandSound, DropsSound, InHand
<1>7. CASE index[q.old] # {}
  <2>1. Quiet
    BY <1>1, <1>7 DEF Collect
  <2>2. HandSound(p) /\ DropsSound(r, p)
    BY <1>3, <1>4, <1>5 DEF Sound, HandSound, DropsSound, InHand, Ready
  <2>3. VersionsSound(r, p) /\ GoalSound(r, p)
    BY <1>3, <1>4, <1>5 DEF Sound, VersionsSound, GoalSound, Rivals, InHand, Ending
  <2> QED BY <1>1, <1>3, <1>4, <2>1, <2>2, <2>3, Moves
<1>8. CASE index[q.old] = {}
  <2>1. SetDir(r, q.old, Absent)
    BY <1>1, <1>8 DEF Collect
  <2>2. Absent \in [toml : BOOLEAN, whole : BOOLEAN, sealed : BOOLEAN] /\ ~Trusted(Absent)
    BY DEF Absent, Trusted
  <2>3. /\ clean' = clean /\ index' = index /\ \A e \in PV : e # q.old => dir'[e] = dir[e]
        /\ \A s \in Root, e \in PV : Secured(s, e) => Secured(s, e)'
        /\ TypeOK' /\ TrustedIsWhole' /\ LocksSecured' /\ OneRegistered'
    BY <1>5, <1>8, <2>1, <2>2, DirStep
  <2>4. HandSound(p)'
    BY <1>3, <1>4, <1>5, <1>6, <2>3 DEF Sound, HandSound, InHand, Ready
  <2>5. DropsSound(r, p)' /\ VersionsSound(r, p)'
    BY <1>3, <1>4, <1>5, <2>3 DEF Sound, DropsSound, VersionsSound, Rivals
  <2>6. GoalSound(r, p)'
    <3>1. Entries(p.goal) \subseteq PV
      BY <1>4, GraphFacts DEF Process
    <3> QED BY <1>3, <1>4, <1>5, <2>3, <3>1 DEF Sound, GoalSound, InHand, Ending
  <2>7. Sound(r, p)' /\ proc[r].pc # "idle"
    BY <1>1, <1>3, <2>4, <2>5, <2>6 DEF Sound
  <2> QED BY <1>3, <1>4, <2>3, <2>7, DirMove
<1> QED BY <1>7, <1>8

\* The index is written: it loses or gains the project for one version.
LEMMA IndexStep ==
  ASSUME Inv, NEW r \in Root, proc[r].pc # "idle", NEW p \in Process, Go(r, p),
         UNCHANGED <<dir, cache, lock, clean>>, index' \in [PV -> SUBSET Root],
         \A s \in Root, e \in PV : s # r /\ s \in index[e] => s \in index'[e],
         OneRegistered', Sound(r, p)'
  PROVE  Inv'
<1>1. dir' = dir /\ cache' = cache /\ lock' = lock /\ clean' = clean
  OBVIOUS
<1>2. LocksSecured'
  <2> SUFFICES ASSUME NEW s \in Root, clean[s], NEW e \in Entries(lock[s])
               PROVE  Secured(s, e)'
    BY <1>1 DEF LocksSecured
  <2>1. Secured(s, e) /\ e \in PV /\ s # r
    BY GraphFacts DEF Inv, LocksSecured, Uncommitted, Typed, TypeOK
  <2> QED BY <1>1, <2>1 DEF Secured
<1>3. TypeOK' /\ TrustedIsWhole'
  BY <1>1 DEF Inv, Typed, TypeOK, TrustedIsWhole
<1> QED BY <1>1, <1>2, <1>3, DirMove

LEMMA UnregisterStep ==
  ASSUME Inv, NEW r \in Root, Unregister(r)
  PROVE  Inv'
<1>1. PICK q : q = proc[r]
  OBVIOUS
<1>2. PICK p : p = [[q EXCEPT !.pc = IF q.snap[q.old] = {} THEN "collect" ELSE "drop"] EXCEPT !.snap = <<>>]
  OBVIOUS
<1>3. q \in Process /\ Sound(r, q) /\ q.pc = "unregister" /\ Go(r, p) /\ index' = q.snap
      /\ UNCHANGED <<dir, cache, lock, clean>>
  BY <1>1, <1>2, Ran DEF Unregister, At, SaveDependants
<1>4. /\ p.pc \in {"collect", "drop"} /\ p.then = q.then /\ p.goal = q.goal /\ p.cur = q.cur
      /\ p.todo = q.todo /\ p.drops = q.drops /\ p.old = q.old
  BY <1>2, <1>3 DEF Process
<1>5. p \in Process
  <2>1. (IF q.snap[q.old] = {} THEN "collect" ELSE "drop") \in Dropping /\ <<>> \in Maybe([PV -> SUBSET Root])
    BY MaybeFacts DEF Dropping
  <2> QED BY <1>2, <1>3, <2>1 DEF Process
<1>6. q.old \in PV /\ index' = [index EXCEPT ![q.old] = @ \ {r}] /\ index \in [PV -> SUBSET Root]
  BY <1>3 DEF Sound, DropsSound, Inv, Typed, TypeOK
<1>7. /\ index' \in [PV -> SUBSET Root] /\ index'[q.old] = index[q.old] \ {r}
      /\ \A e \in PV : e # q.old => index'[e] = index[e]
  BY <1>6
<1>8. OneRegistered'
  BY <1>7 DEF Inv, OneRegistered
<1>9. (Releasing(p) <=> Releasing(q)) /\ p.pc \in Dropping /\ q.pc \in Dropping
      /\ p.pc \notin Installing /\ q.pc \notin Installing
  BY <1>3, <1>4 DEF Releasing, Dropping, Installing
<1>10. HandSound(p)' /\ DropsSound(r, p)'
  BY <1>3, <1>4, <1>9 DEF Sound, HandSound, DropsSound, InHand, Ready
<1>11. VersionsSound(r, p)'
  BY <1>3, <1>4, <1>7, <1>9 DEF Sound, VersionsSound, Rivals
<1>12. GoalSound(r, p)'
  <2>1. CASE Releasing(q)
    <3>1. /\ q.cur \in PV /\ q.old[1] = q.cur[1] /\ q.old # q.cur
          /\ q.goal = NoPackage \/ q.cur \in Entries(q.goal)
          /\ q.todo \subseteq Entries(q.goal)
          /\ \A e \in Entries(q.goal) \ (q.todo \cup {q.cur}) : Secured(r, e)
      BY <1>3, <2>1 DEF Sound, HandSound, DropsSound, GoalSound, InHand
    <3>2. Entries(q.goal) \subseteq PV /\ \A e \in Entries(q.goal) : e # q.old
      <4>1. q.goal \in Graph
        BY <1>3 DEF Process
      <4>2. Entries(q.goal) \subseteq PV /\ \A e, f \in Entries(q.goal) : e[1] = f[1] => e = f
        BY <4>1, GraphFacts
      <4>3. Entries(q.goal) = {} \/ q.cur \in Entries(q.goal)
        BY <3>1, EmptyGraph
      <4> QED BY <3>1, <4>2, <4>3
    <3>3. \A e \in Entries(p.goal) \ (p.todo \cup {p.cur}) : Secured(r, e)'
      BY <1>3, <1>4, <1>7, <3>1, <3>2 DEF Secured
    <3> QED BY <1>4, <1>9, <2>1, <3>1, <3>3 DEF GoalSound, InHand, Releasing, Ending
  <2>2. CASE ~Releasing(q)
    BY <1>3, <1>4, <1>9, <2>2 DEF Sound, GoalSound, InHand, Ending
  <2> QED BY <2>1, <2>2
<1>13. Sound(r, p)' /\ proc[r].pc # "idle"
  BY <1>1, <1>3, <1>10, <1>11, <1>12 DEF Sound
<1> QED BY <1>3, <1>5, <1>7, <1>8, <1>13, IndexStep

LEMMA RegisterStep ==
  ASSUME Inv, NEW r \in Root, Register(r)
  PROVE  Inv'
<1>1. PICK q : q = proc[r]
  OBVIOUS
<1>2. q \in Process /\ Sound(r, q) /\ q.pc \in {"register", "registered"}
  BY <1>1, Ran DEF Register, At
<1>3. /\ q.cur \in PV /\ dir[q.cur] = Whole(TRUE) /\ Rivals(r, q) = {}
      /\ q.todo \subseteq Entries(q.goal)
      /\ \A e \in Entries(q.goal) \ (q.todo \cup {q.cur}) : Secured(r, e)
      /\ q.goal = NoPackage \/ q.cur \in Entries(q.goal)
  BY <1>2 DEF Sound, HandSound, VersionsSound, GoalSound, InHand, Ready, Installing
<1>4. CASE q.pc = "register"
  <2> DEFINE written == [index EXCEPT ![q.cur] = @ \cup {r}]
  <2>1. PICK p : p = [q EXCEPT !.pc = "registered", !.snap = written]
    OBVIOUS
  <2>2. Go(r, p) /\ Quiet
    BY <1>1, <1>4, <2>1 DEF Register, At
  <2>3. written \in [PV -> SUBSET Root]
    BY <1>3 DEF Inv, Typed, TypeOK
  <2>4. written \in Maybe([PV -> SUBSET Root])
    BY <2>3, MaybeFacts
  <2>5. /\ p.pc = "registered" /\ p.goal = q.goal /\ p.cur = q.cur /\ p.todo = q.todo /\ p.snap = written
    BY <1>2, <2>1 DEF Process
  <2>6. p \in Process
    BY <1>2, <2>1, <2>4 DEF Process, Installing
  <2>7. HandSound(p) /\ DropsSound(r, p)
    BY <1>3, <2>5 DEF HandSound, DropsSound, InHand, Ready, Releasing, Dropping
  <2>8. VersionsSound(r, p) /\ GoalSound(r, p)
    BY <1>3, <2>5 DEF VersionsSound, GoalSound, Rivals, InHand, Releasing, Installing, Dropping, Ending
  <2> QED BY <1>1, <1>4, <2>2, <2>6, <2>7, <2>8, Moves
<1>5. CASE q.pc = "registered"
  <2>1. PICK p : p = [[q EXCEPT !.pc = IF q.goal = NoPackage THEN "resolve" ELSE "next"] EXCEPT !.snap = <<>>]
    OBVIOUS
  <2>2. Go(r, p) /\ index' = q.snap /\ UNCHANGED <<dir, cache, lock, clean>>
    BY <1>1, <1>5, <2>1 DEF Register, At, SaveDependants
  <2>3. p.pc = (IF q.goal = NoPackage THEN "resolve" ELSE "next") /\ p.goal = q.goal /\ p.todo = q.todo
    BY <1>2, <2>1 DEF Process
  <2>4. p \in Process
    BY <1>2, <2>1, MaybeFacts DEF Process
  <2>5. index' = [index EXCEPT ![q.cur] = @ \cup {r}] /\ index \in [PV -> SUBSET Root]
    BY <1>2, <1>5, <2>2 DEF Sound, DropsSound, Inv, Typed, TypeOK
  <2>6. /\ index' \in [PV -> SUBSET Root] /\ index'[q.cur] = index[q.cur] \cup {r}
        /\ \A e \in PV : e # q.cur => index'[e] = index[e]
    BY <1>3, <2>5
  <2>7. OneRegistered'
    BY <1>3, <2>6 DEF Inv, OneRegistered, Rivals
  <2>8. Entries(q.goal) \subseteq PV
    BY <1>2, GraphFacts DEF Process
  <2>9. \A e \in Entries(q.goal) \ q.todo : Secured(r, e)'
    BY <1>3, <2>2, <2>6, <2>8 DEF Secured
  <2>10. GoalSound(r, p)'
    BY <1>3, <2>3, <2>9 DEF GoalSound, InHand, Releasing, Installing, Dropping, Ending
  <2>11. HandSound(p)' /\ DropsSound(r, p)' /\ VersionsSound(r, p)'
    BY <2>3 DEF HandSound, DropsSound, VersionsSound, InHand, Ready, Releasing, Installing, Dropping
  <2>12. Sound(r, p)' /\ proc[r].pc # "idle"
    BY <1>1, <1>5, <2>10, <2>11 DEF Sound
  <2> QED BY <2>2, <2>4, <2>6, <2>7, <2>12, IndexStep
<1> QED BY <1>2, <1>4, <1>5

-----------------------------------------------------------------------------
(* Native artifacts. *)

LEMMA MaterializeStep ==
  ASSUME Inv, NEW r \in Root, Materialize(r)
  PROVE  Inv'
<1>1. PICK q : q = proc[r]
  OBVIOUS
<1>2. q \in Process /\ Sound(r, q) /\ q.pc \in {"native", "copy"}
  BY <1>1, Ran DEF Materialize, At
<1>3. PICK p : Go(r, p) /\ p \in Process /\ p.pc \in Ending /\ p.goal = q.goal
               /\ UNCHANGED <<dir, index, lock, clean>> /\ cache' \in [PV -> {"none", "half", "whole"}]
  <2>1. CASE At(r, "native") /\ To(r, "lock") /\ Quiet
    <3>1. [q EXCEPT !.pc = "lock"] \in Process /\ [q EXCEPT !.pc = "lock"].pc \in Ending
          /\ [q EXCEPT !.pc = "lock"].goal = q.goal
      BY <1>2 DEF Process, Ending
    <3>2. UNCHANGED <<dir, index, lock, clean>> /\ cache' \in [PV -> {"none", "half", "whole"}]
      BY <2>1 DEF Quiet, files, Inv, Typed, TypeOK
    <3>3. Go(r, [q EXCEPT !.pc = "lock"])
      BY <1>1, <2>1 DEF To
    <3> QED BY <3>1, <3>2, <3>3
  <2>2. ASSUME NEW e \in q.todo,
               Go(r, [q EXCEPT !.pc = IF cache[e] = "whole" THEN "native" ELSE "copy",
                               !.cur = e, !.todo = @ \ {e}]),
               SetCache(e, IF cache[e] = "whole" THEN "whole" ELSE "half")
        PROVE  \E p : Go(r, p) /\ p \in Process /\ p.pc \in Ending /\ p.goal = q.goal
                      /\ UNCHANGED <<dir, index, lock, clean>> /\ cache' \in [PV -> {"none", "half", "whole"}]
    <3> DEFINE to == IF cache[e] = "whole" THEN "native" ELSE "copy"
    <3>1. PICK p : p = [q EXCEPT !.pc = to, !.cur = e, !.todo = @ \ {e}]
      OBVIOUS
    <3>2. to \in Ending /\ e \in PV /\ e \in Maybe(PV)
      BY <1>2, MaybeFacts DEF Process, Ending
    <3>3. p \in Process /\ p.pc \in Ending /\ p.goal = q.goal
      BY <1>2, <3>1, <3>2 DEF Process
    <3>4. UNCHANGED <<dir, index, lock, clean>> /\ cache' \in [PV -> {"none", "half", "whole"}]
      BY <2>2 DEF SetCache, Inv, Typed, TypeOK
    <3> QED BY <2>2, <3>1, <3>3, <3>4
  <2>3. CASE At(r, "copy") /\ To(r, "native") /\ SetCache(q.cur, "whole")
    <3>1. [q EXCEPT !.pc = "native"] \in Process /\ [q EXCEPT !.pc = "native"].pc \in Ending
          /\ [q EXCEPT !.pc = "native"].goal = q.goal
      BY <1>2 DEF Process, Ending
    <3>2. UNCHANGED <<dir, index, lock, clean>> /\ cache' \in [PV -> {"none", "half", "whole"}]
      BY <2>3 DEF SetCache, Inv, Typed, TypeOK
    <3>3. Go(r, [q EXCEPT !.pc = "native"])
      BY <1>1, <2>3 DEF To
    <3> QED BY <3>1, <3>2, <3>3
  <2> QED BY <1>1, <2>1, <2>2, <2>3 DEF Materialize
<1>4. \A e \in Entries(q.goal) : Secured(r, e)
  BY <1>2 DEF Sound, GoalSound, Ending
<1>5. HandSound(p) /\ DropsSound(r, p) /\ VersionsSound(r, p)
  BY <1>3 DEF HandSound, DropsSound, VersionsSound, InHand, Ready, Releasing, Installing, Dropping, Ending
<1>6. GoalSound(r, p)
  BY <1>3, <1>4 DEF GoalSound, InHand, Releasing, Installing, Dropping, Ending
<1>7. Sound(r, p) /\ proc[r].pc # "idle"
  BY <1>1, <1>2, <1>5, <1>6 DEF Sound
<1> QED BY <1>3, <1>7, CacheStep

-----------------------------------------------------------------------------
(* The invariant, and what follows from it. *)

LEMMA InvInit == Init => Inv
<1> SUFFICES ASSUME Init PROVE Inv
  OBVIOUS
<1>1. /\ dir = [e \in PV |-> Absent] /\ index = [e \in PV |-> {}] /\ cache = [e \in PV |-> "none"]
      /\ lock = [r \in Root |-> NoPackage] /\ clean = [r \in Root |-> TRUE] /\ proc = [r \in Root |-> Idle]
  BY DEF Init
<1>2. Idle \in Process /\ Idle.pc = "idle" /\ NoPackage \in Graph /\ Entries(NoPackage) = {}
  BY IdleTyped, EmptyGraph DEF Idle
<1>3. Absent \in [toml : BOOLEAN, whole : BOOLEAN, sealed : BOOLEAN] /\ ~Trusted(Absent)
  BY DEF Absent, Trusted
<1>4. Typed /\ Alone /\ Uncommitted
  BY <1>1, <1>2, <1>3 DEF Typed, TypeOK, Alone, Uncommitted
<1>5. TrustedIsWhole /\ LocksSecured /\ OneRegistered
  BY <1>1, <1>2, <1>3 DEF TrustedIsWhole, LocksSecured, OneRegistered
<1>6. \A r \in Root : ProcessSound(r)
  BY <1>1, <1>2 DEF ProcessSound, Sound, HandSound, DropsSound, VersionsSound, GoalSound, InHand, Ready,
                    Releasing, Installing, Dropping, Ending
<1> QED BY <1>4, <1>5, <1>6 DEF Inv

LEMMA InvStep == Inv /\ Sequential /\ [Next]_vars => Inv'
<1> SUFFICES ASSUME Inv, Sequential, [Next]_vars PROVE Inv'
  OBVIOUS
<1>1. ASSUME NEW r \in Root, Command(r)
      PROVE  Inv'
  BY <1>1, LoadStep, ResolvedStep, QuitStep, NextInstallStep, CheckStep, RecheckStep, ClearStep, ExtractStep,
     SealStep, ReleaseStep, DropStep, UnregisterStep, CollectStep, RegisterStep, MaterializeStep, WriteLockStep
     DEF Command
<1>2. ASSUME NEW r \in Root, Resolve(r) \/ InstallLocked(r) \/ InstallNothing(r) \/ Crash(r)
      PROVE  Inv'
  BY <1>2, ResolveStep, InstallLockedStep, InstallNothingStep, CrashStep
<1>3. CASE UNCHANGED vars
  <2>1. /\ dir' = dir /\ index' = index /\ cache' = cache /\ lock' = lock /\ clean' = clean
        /\ proc' = proc
    BY <1>3 DEF vars, files
  <2>2. Typed' /\ Alone' /\ Uncommitted' /\ TrustedIsWhole' /\ LocksSecured' /\ OneRegistered'
    BY <2>1 DEF Inv, Typed, TypeOK, Alone, Uncommitted, TrustedIsWhole, LocksSecured, OneRegistered, Secured
  <2>3. ASSUME NEW r \in Root PROVE ProcessSound(r)'
    <3>1. HandSound(proc[r])' /\ DropsSound(r, proc[r])'
      BY <2>1 DEF Inv, ProcessSound, Sound, HandSound, DropsSound, InHand, Ready, Releasing
    <3>2. Rivals(r, proc[r])' = Rivals(r, proc[r]) /\ \A e : Secured(r, e)' <=> Secured(r, e)
      BY <2>1 DEF Rivals, Secured
    <3>3. VersionsSound(r, proc[r])' /\ GoalSound(r, proc[r])'
      BY <2>1, <3>2 DEF Inv, ProcessSound, Sound, VersionsSound, GoalSound, InHand, Releasing
    <3> QED BY <3>1, <3>3 DEF ProcessSound, Sound
  <2> QED BY <2>2, <2>3 DEF Inv
<1> QED BY <1>1, <1>2, <1>3, CacheCleanStep DEF Next

\* Crashes, an interrupted resolution and a failed download included, the
\* invariant holds as long as the commands do not overlap.
THEOREM Invariance == Sequential => (Spec => []Inv)
<1> SUFFICES ASSUME Sequential PROVE Spec => []Inv
  OBVIOUS
<1>1. Inv /\ [Next]_vars => Inv'
  BY InvStep
<1> QED BY InvInit, <1>1, PTL DEF Spec

\* What an install takes without a download is whole (isInstalled and the
\* sidecar of install-fetch.ts): whatever dies half-way is never trusted.
THEOREM NothingTorn == Sequential => (Spec => []TrustedIsWhole)
<1> SUFFICES ASSUME Sequential PROVE Spec => []TrustedIsWhole
  OBVIOUS
<1>1. Inv => TrustedIsWhole
  BY DEF Inv
<1> QED BY <1>1, Invariance, PTL

\* After a command that succeeded, every version of project.lock is whole and
\* registered, until a command of the same project begins.
THEOREM LockKept == Sequential => (Spec => []LockedIsInstalled)
<1> SUFFICES ASSUME Sequential PROVE Spec => []LockedIsInstalled
  OBVIOUS
<1>1. Inv => LockedIsInstalled
  <2> SUFFICES ASSUME Inv, NEW r \in Root, clean[r], NEW e \in Entries(lock[r])
               PROVE  dir[e].toml /\ dir[e].whole /\ r \in index[e]
    BY DEF LockedIsInstalled
  <2>1. Secured(r, e)
    BY DEF Inv, LocksSecured
  <2> QED BY <2>1 DEF Secured, Whole
<1> QED BY <1>1, Invariance, PTL

\* A project is registered for at most one version of a name.
THEOREM OneVersionKept == Sequential => (Spec => []OneVersion)
<1> SUFFICES ASSUME Sequential PROVE Spec => []OneVersion
  OBVIOUS
<1>1. Inv => OneVersion
  <2> SUFFICES ASSUME Inv, NEW r \in Root, NEW n \in Package
               PROVE  Cardinality({v \in Version : r \in index[<<n, v>>]}) <= 1
    BY DEF OneVersion
  <2> DEFINE S == {v \in Version : r \in index[<<n, v>>]}
  <2>1. \A v, w \in S : v = w
    <3> SUFFICES ASSUME NEW v \in S, NEW w \in S PROVE v = w
      OBVIOUS
    <3>1. <<n, v>> \in PV /\ <<n, w>> \in PV
      BY DEF PV
    <3>2. <<n, v>> = <<n, w>>
      BY <3>1 DEF Inv, OneRegistered
    <3> QED BY <3>2
  <2> HIDE DEF S
  <2>2. S = {} => Cardinality(S) = 0
    BY FS_EmptySet
  <2>3. S # {} => Cardinality(S) = 1
    <3> SUFFICES ASSUME S # {} PROVE Cardinality(S) = 1
      OBVIOUS
    <3>1. PICK v : S = {v}
      BY <2>1
    <3> QED BY <3>1, FS_Singleton
  <2>4. Cardinality(S) <= 1
    BY <2>2, <2>3
  <2> QED BY <2>4 DEF S
<1> QED BY <1>1, Invariance, PTL
=============================================================================
