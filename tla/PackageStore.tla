---------------------------- MODULE PackageStore ----------------------------
(***************************************************************************)
(* The package store that the projects of a user share: the directories of *)
(* the installed versions, dependants.json, the cache of native artifacts  *)
(* and the project.lock of every project, as the commands of the CLI       *)
(* change them one file operation at a time                                *)
(* (src/packages/cli/src/deps/store.ts, install-fetch.ts, install.ts,      *)
(* native-cache.ts, native-resolve.ts, commands/deps.ts).                  *)
(*                                                                         *)
(* What the resolver answers is not computed here: a command loads any     *)
(* candidates and ends with some of those it loaded last (see Resolver).   *)
(***************************************************************************)
EXTENDS Integers, FiniteSets

CONSTANTS
  Root,      \* projects, each with its own CLI process
  Package, Version,
  Native,    \* packages that bring a native artifact, another one per version
  Together,  \* TRUE: several commands may run at once
  Faults,    \* subset of {"crash", "torn"}
  MaxLoads,  \* bound: candidates a resolution loads
  MaxStarts  \* bound: commands

VARIABLES
  dir,     \* the store's directory of a version
  index,   \* dependants.json: version -> projects
  cache,   \* native cache: version -> "none", "half" or "whole"
  lock,    \* project -> project.lock: name -> version
  clean,   \* the project's last command wrote its lock and no other has begun
  result,  \* how the project's last command ended
  proc,    \* the process of a project
  starts

files == <<dir, index, cache, lock>>
vars == <<files, clean, result, proc, starts>>

PV == Package \X Version
Absent == [toml |-> FALSE, whole |-> FALSE, sealed |-> FALSE]
Whole(seal) == [toml |-> TRUE, whole |-> TRUE, sealed |-> seal]
NoPackage == [n \in {} |-> 0]
Graph == UNION {[S -> Version] : S \in SUBSET Package}
Entries(g) == {<<n, g[n]>> : n \in DOMAIN g}

Idle == [pc |-> "idle", cmd |-> "", loaded |-> NoPackage, goal |-> NoPackage, loads |-> 0,
         todo |-> {}, cur |-> <<>>, drops |-> {}, old |-> <<>>, then |-> "", snap |-> <<>>]

Running == {r \in Root : proc[r].pc # "idle"}
Go(r, p) == proc' = [proc EXCEPT ![r] = p]
To(r, pc) == Go(r, [proc[r] EXCEPT !.pc = pc])
At(r, pc) == proc[r].pc = pc

Quiet == UNCHANGED <<files, clean, result, starts>>

\* A command that fails leaves every file as it is.
Quit(r, how) ==
  /\ Go(r, Idle)
  /\ result' = [result EXCEPT ![r] = how]
  /\ UNCHANGED <<files, clean, starts>>

Installed(d) == d.toml          \* isPackageVersionInstalled
Trusted(d) == d.toml /\ d.sealed  \* cached, with the sidecar of the expected checksum

(***************************************************************************)
(* Commands                                                                *)
(***************************************************************************)
Begin(r, p) ==
  /\ proc[r].pc = "idle" /\ starts < MaxStarts
  /\ Together \/ Running = {}
  /\ Go(r, p)
  /\ clean' = [clean EXCEPT ![r] = FALSE]
  /\ starts' = starts + 1
  /\ UNCHANGED <<files, result>>

\* sn add, remove, update, or install with a lock that does not fit the roots.
Resolve(r) == Begin(r, [Idle EXCEPT !.pc = "resolve", !.cmd = "resolve"])

\* sn install with a lock that satisfies the roots.
InstallLocked(r) ==
  /\ lock[r] # NoPackage
  /\ Begin(r, [Idle EXCEPT !.pc = "next", !.cmd = "locked", !.goal = lock[r],
                           !.todo = Entries(lock[r])])

\* sn install or remove of a project without dependencies.
InstallNothing(r) ==
  Begin(r, [Idle EXCEPT !.pc = "drop", !.cmd = "nothing",
                        !.drops = Entries(lock[r]), !.then = "lock"])

LoadAsItIs(r) ==
  /\ proc[r].pc = "resolve" /\ proc[r].loads < MaxLoads
  /\ \E c \in PV :
       /\ c \notin Entries(proc[r].loaded)
       /\ Go(r, [proc[r] EXCEPT !.pc = "recheck", !.cur = c, !.loads = @ + 1,
                                !.loaded = [n \in DOMAIN @ \cup {c[1]} |->
                                              IF n = c[1] THEN c[2] ELSE @[n]]])
  /\ Quiet

\* The resolver loads a candidate to read its dependencies.
Load(r) ==
  /\ proc[r].pc = "resolve" /\ proc[r].loads < MaxLoads
  /\ \E c \in PV :
       /\ c \notin Entries(proc[r].loaded)
       /\ Go(r, [proc[r] EXCEPT !.pc = IF Installed(dir[c]) THEN "check" ELSE "recheck",
                                !.cur = c, !.loads = @ + 1,
                                !.loaded = [n \in DOMAIN @ \cup {c[1]} |->
                                              IF n = c[1] THEN c[2] ELSE @[n]]])
  /\ Quiet

\* The resolver ends with some of the names, each at the version loaded last.
Resolved(r) ==
  /\ proc[r].pc = "resolve" /\ proc[r].loaded # NoPackage
  /\ \E S \in SUBSET DOMAIN proc[r].loaded \ {{}} :
       LET goal == [n \in S |-> proc[r].loaded[n]]
       IN  Go(r, [proc[r] EXCEPT !.pc = "drop", !.goal = goal, !.then = "next",
                    !.todo = Entries(goal),
                    !.drops = {e \in Entries(lock[r]) : e[1] \notin S}])
  /\ Quiet

\* No selection, or the registry cannot be reached.
Unresolved(r) == proc[r].pc = "resolve" /\ Quit(r, "unresolved")

(***************************************************************************)
(* installPackageVersion                                                   *)
(***************************************************************************)
\* The next package of the resolved graph or of the lock.
NextInstall(r) ==
  /\ proc[r].pc = "next"
  /\ IF proc[r].todo = {}
     THEN Go(r, [proc[r] EXCEPT !.pc = "native", !.todo = {e \in Entries(proc[r].goal) : e[1] \in Native}])
     ELSE \E e \in proc[r].todo :
            Go(r, [proc[r] EXCEPT !.pc = "check", !.cur = e, !.todo = @ \ {e}])
  /\ Quiet

\* With an expected checksum the directory is used if its sidecar agrees.
Check(r) ==
  /\ At(r, "check")
  /\ To(r, IF Trusted(dir[proc[r].cur]) THEN "release" ELSE "download")
  /\ Quiet

SetDir(r, c, d) ==
  /\ dir' = [dir EXCEPT ![c] = d]
  /\ UNCHANGED <<index, cache, lock, clean, result, starts>>

\* Without one (the directory was absent a moment ago) it is sealed as it is.
Recheck(r) ==
  LET c == proc[r].cur IN
  /\ At(r, "recheck")
  /\ IF Installed(dir[c])
     THEN To(r, "release") /\ SetDir(r, c, [dir[c] EXCEPT !.sealed = TRUE])
     ELSE To(r, "download") /\ Quiet

DownloadFails(r) == At(r, "download") /\ Quit(r, "download failed")

Clear(r) == At(r, "download") /\ To(r, "extract") /\ SetDir(r, proc[r].cur, Absent)

\* The files of the archive appear one by one, project.toml early or late.
Extract(r) ==
  LET c == proc[r].cur IN
  \/ /\ At(r, "extract") /\ To(r, "rest")
     /\ \E toml \in BOOLEAN : SetDir(r, c, [dir[c] EXCEPT !.toml = toml])
  \/ /\ At(r, "rest") /\ To(r, "seal")
     /\ SetDir(r, c, Whole(dir[c].sealed))

Seal(r) ==
  LET c == proc[r].cur IN
  At(r, "seal") /\ To(r, "release") /\ SetDir(r, c, [dir[c] EXCEPT !.sealed = TRUE])

(***************************************************************************)
(* dependants.json: read, change and write back                            *)
(***************************************************************************)
ReleaseNothing(r) ==
  /\ At(r, "release")
  /\ Go(r, [proc[r] EXCEPT !.pc = "register"])
  /\ Quiet

\* releasePreviousVersion: the other versions of the name this project has.
Release(r) ==
  LET c == proc[r].cur IN
  /\ At(r, "release")
  /\ Go(r, [proc[r] EXCEPT !.pc = "drop", !.then = "register",
              !.drops = {e \in PV : e[1] = c[1] /\ e # c /\ r \in index[e]}])
  /\ Quiet

DropForAll(r) ==
  /\ At(r, "drop")
  /\ IF proc[r].drops = {}
     THEN Go(r, [proc[r] EXCEPT !.pc = proc[r].then])
     ELSE \E e \in proc[r].drops :
            Go(r, [proc[r] EXCEPT !.pc = "unregister", !.old = e, !.drops = @ \ {e},
                                  !.snap = [index EXCEPT ![e] = {}]])
  /\ Quiet

\* removeDependant of the next version to drop, or on to what comes after.
Drop(r) ==
  /\ At(r, "drop")
  /\ IF proc[r].drops = {}
     THEN Go(r, [proc[r] EXCEPT !.pc = proc[r].then])
     ELSE \E e \in proc[r].drops :
            Go(r, [proc[r] EXCEPT !.pc = "unregister", !.old = e, !.drops = @ \ {e},
                                  !.snap = [index EXCEPT ![e] = @ \ {r}]])
  /\ Quiet

SaveDependants(r, p) ==
  /\ Go(r, [p EXCEPT !.snap = <<>>])
  /\ index' = proc[r].snap
  /\ UNCHANGED <<dir, cache, lock, clean, result, starts>>

Unregister(r) ==
  /\ At(r, "unregister")
  /\ SaveDependants(r, [proc[r] EXCEPT !.pc = IF proc[r].snap[proc[r].old] = {}
                                              THEN "collect" ELSE "drop"])

\* gcPackageVersion reads the index again before it removes the directory.
Collect(r) ==
  /\ At(r, "collect") /\ To(r, "drop")
  /\ IF index[proc[r].old] = {} THEN SetDir(r, proc[r].old, Absent) ELSE Quiet

\* addDependant
Register(r) ==
  LET c == proc[r].cur IN
  \/ /\ At(r, "register")
     /\ Go(r, [proc[r] EXCEPT !.pc = "registered", !.snap = [index EXCEPT ![c] = @ \cup {r}]])
     /\ Quiet
  \/ /\ At(r, "registered")
     /\ SaveDependants(r, [proc[r] EXCEPT !.pc = IF proc[r].goal = NoPackage
                                                 THEN "resolve" ELSE "next"])

(***************************************************************************)
(* Native artifacts and the lock file                                      *)
(***************************************************************************)
SetCache(c, v) ==
  /\ cache' = [cache EXCEPT ![c] = v]
  /\ UNCHANGED <<dir, index, lock, clean, result, starts>>

\* The lock's artifact of that name is of another version: its checksum differs.
Mismatch(r, e) == e[1] \in DOMAIN lock[r] /\ lock[r][e[1]] # e[2]

\* installNativeArtifacts: an artifact in the cache is used if it is whole.
Materialize(r) ==
  \/ /\ At(r, "native") /\ proc[r].todo = {}
     /\ To(r, "lock") /\ Quiet
  \/ \E e \in proc[r].todo :
       /\ At(r, "native") /\ ~Mismatch(r, e)
       /\ Go(r, [proc[r] EXCEPT !.pc = IF cache[e] = "whole" THEN "native" ELSE "copy",
                                !.cur = e, !.todo = @ \ {e}])
       /\ SetCache(e, IF cache[e] = "whole" THEN "whole" ELSE "half")
  \/ /\ At(r, "copy") /\ To(r, "native")
     /\ SetCache(proc[r].cur, "whole")

IntegrityError(r) ==
  /\ At(r, "native") /\ \E e \in proc[r].todo : Mismatch(r, e)
  /\ Quit(r, "integrity")

\* project.lock is written beside and renamed.
WriteLock(r) ==
  /\ At(r, "lock")
  /\ lock' = [lock EXCEPT ![r] = proc[r].goal]
  /\ clean' = [clean EXCEPT ![r] = TRUE]
  /\ result' = [result EXCEPT ![r] = "ok"]
  /\ Go(r, Idle)
  /\ UNCHANGED <<dir, index, cache, starts>>

CacheClean == /\ \E e \in PV : cache[e] # "none"
              /\ Together \/ Running = {}
              /\ cache' = [e \in PV |-> "none"]
              /\ UNCHANGED <<dir, index, lock, clean, result, proc, starts>>

(***************************************************************************)
(* A process dies between two file operations or, torn, within one: the    *)
(* half-written index reads as empty, and a directory that was being       *)
(* removed has lost some of its files.                                     *)
(***************************************************************************)
Half(d) == {e \in [toml : BOOLEAN, whole : {FALSE}, sealed : BOOLEAN] :
              (e.toml => d.toml) /\ (e.sealed => d.sealed)}

Crash(r) ==
  /\ "crash" \in Faults /\ ~At(r, "idle")
  /\ Go(r, Idle)
  /\ result' = [result EXCEPT ![r] = "killed"]
  /\ index' \in {index} \cup
       IF "torn" \in Faults /\ proc[r].pc \in {"unregister", "registered"}
       THEN {[e \in PV |-> {}]} ELSE {}
  /\ dir' \in {dir} \cup
       IF "torn" \in Faults /\ At(r, "collect") /\ index[proc[r].old] = {}
       THEN {[dir EXCEPT ![proc[r].old] = d] : d \in Half(dir[proc[r].old])} ELSE {}
  /\ UNCHANGED <<cache, lock, clean, starts>>

Init ==
  /\ dir = [e \in PV |-> Absent] /\ index = [e \in PV |-> {}] /\ cache = [e \in PV |-> "none"]
  /\ lock = [r \in Root |-> NoPackage]
  /\ clean = [r \in Root |-> TRUE] /\ result = [r \in Root |-> "ok"]
  /\ proc = [r \in Root |-> Idle] /\ starts = 0

Command(r) ==
  \/ Load(r) \/ Resolved(r) \/ Unresolved(r) \/ NextInstall(r)
  \/ Check(r) \/ Recheck(r) \/ DownloadFails(r) \/ Clear(r) \/ Extract(r) \/ Seal(r)
  \/ Release(r) \/ Drop(r) \/ Unregister(r) \/ Collect(r) \/ Register(r)
  \/ Materialize(r) \/ IntegrityError(r) \/ WriteLock(r)

Next ==
  \/ \E r \in Root : Resolve(r) \/ InstallLocked(r) \/ InstallNothing(r) \/ Command(r) \/ Crash(r)
  \/ CacheClean

Spec == Init /\ [][Next]_vars

(***************************************************************************)
(* Properties                                                              *)
(***************************************************************************)
TypeOK ==
  /\ dir \in [PV -> [toml : BOOLEAN, whole : BOOLEAN, sealed : BOOLEAN]]
  /\ index \in [PV -> SUBSET Root]
  /\ cache \in [PV -> {"none", "half", "whole"}]
  /\ lock \in [Root -> Graph]
  /\ clean \in [Root -> BOOLEAN]

\* A project whose last command succeeded has every version of its lock whole in
\* the store and is registered for it, whatever the other projects install,
\* remove or leave half done (docs/packages.md:141, store.ts:1-4).
LockedIsInstalled ==
  \A r \in Root : clean[r] =>
    \A e \in Entries(lock[r]) : dir[e].toml /\ dir[e].whole /\ r \in index[e]

\* What the next install takes without a download is whole: an extraction that
\* died leaves nothing that is trusted (install-fetch.ts:48-66, 112-119).
TrustedIsWhole == \A e \in PV : Trusted(dir[e]) => dir[e].whole

\* A project is registered for one version of a name at most, so nothing it has
\* moved away from is kept for its sake (releasePreviousVersion, store.ts:150-176).
OneVersion ==
  \A r \in Root, n \in Package : Cardinality({v \in Version : r \in index[<<n, v>>]}) <= 1

\* sn update copies and records the artifacts of what it selects
\* (docs/native-packages.md:98-104): no command finds a mismatch, as no artifact
\* was tampered with.
UpdateGoesThrough == \A r \in Root : result[r] # "integrity"
=============================================================================
