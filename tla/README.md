# A verification project for Sonite

Sonite is a statically typed, TypeScript-like language: a compiler written in
TypeScript (lexer, parser, module resolver, type checker, monomorphizer, LLVM code
generator, formatter), a C runtime (garbage collector, exceptions, an async
scheduler with timers, a reactor, sockets, TLS and file streams), a standard library
in Sonite, a CLI with a package manager, a language server and a debug adapter. This
directory holds TLA+ models of these, the TLC configurations that check them, and
proofs.

`src/...` below abbreviates `src/packages/...`.

## 1. Inventory

| Component | State it keeps | Operations | Hard behaviours |
| --- | --- | --- | --- |
| Async scheduler (`runtime/src/common/async.c`) | futures with waiter lists, tasks, the `runnable` and `all_tasks` arrays, `active_count`, `current_task` | spawn, await, settle, cancel, run_ready, event loop, nested `sn_future_await_run` | lost and stale wakeups, double settle, accounting at every exit path, termination of the loop, fairness of the queue |
| `all` / `race` / `timeout` (`async.c`, `std/async`) | one `on_settle`/`compose_data` slot per future, the composition's counters | compose, child settles | settled children, duplicates, two compositions of one future, failure against completion order |
| Timers (`common/timer.c`) | unordered array of `{deadline, future, active}`, root array | sleep, cancel, next deadline, fire due | cancel against fire, swap-remove while iterating |
| Reactor (`linux/reactor.c`, `macos/`, `windows/`) | one epoll entry per fd: callback and userdata | add, mod, del, wait | stale callbacks, one registration per fd, level-triggered spins |
| TCP, UDP and TLS (`posix/net.c`, `udp.c`, `tls.c`) | request records (objects of the GC heap to which only the reactor's array points), fds, OpenSSL's buffers, handshake threads | connect, accept, read, write, upgrade, close | partial writes, close with a pending request, buffered plaintext, protocol messages between data, collection of a waiting request, reuse of descriptors |
| DNS worker (`posix/dns.c`) | mutex-protected job and result lists | post, worker loop, poll results | threads against the loop, result order, cancelled requesters |
| File streams (`posix/file_stream.c`) | job stack, result stack, two workers, `fd`, `closed` | open, read, write, close, poll | reordered jobs, close against a queued job, data races |
| Garbage collector (`common/gc.c`, `alloc.c`, `array.c`, `map.c`) | allocation list, mark bits, shadow stack of roots, global roots | alloc, collect, root push/pop, checkpoints | collection at every allocation, roots across exceptions and tasks |
| Exceptions (`common/exception.c`, `codegen/llvm.ts`) | stack of jump frames with root checkpoints | push, pop, throw; leave blocks, finally thunks | unwinding past roots, frames across suspension |
| Package resolver (`cli/src/deps/resolve.ts`) | the selection of the round, preferences, overrides | resolve, install from the lock, update | rounds that feed on their own selection, locks older than their project |
| Package store (`cli/src/deps/store.ts`, `install*.ts`, `native-*.ts`, `lock.ts`) | shared directories, sidecars, `dependants.json`, native cache, lock files | install, release, collect, lock | processes that die between two files, several processes at once |
| Lexer, parser, formatter (`compiler/src/parser`, `format`) | none between calls | parse, print | lookaheads that take one construct for another, precedences told twice |
| Type checker (`compiler/src/typecheck*.ts`) | symbol tables, scopes with narrowed types | collect declarations, check | narrowing against assignment, loops and exits; order of collection |
| Code generator (`compiler/src/codegen/llvm.ts`) | symbol tables of its own, slots, vtables, itables | emit | types inferred a second time, representations of unions, dispatch |
| Module resolver, monomorphizer (`compiler/src/modules`, `generics`) | module graph, instances | resolve imports, specialise | import cycles, worklists |
| Language server (`lsp/src`) | open documents, versions, analysis cache, import graph, index, timers | open, change, close, save, requests | stale analyses, timers that are overtaken, eviction |
| Debug adapter (`debug-adapter/src`) | session and child process | launch, breakpoints, stop | ordering of events, framing |
| Standard library (`std/*.sn`) | streams, HTTP, collections | buffered reads, request/response, maps | partial reads, protocol order |

The components meet in two places. In a compiled program, the code calls the
scheduler, the collector and the exceptions; timers, the reactor, DNS, TLS and file
workers settle futures; a settled future wakes tasks and runs at most one
composition callback; every allocation may run the collector. In the tools, the CLI
and the language server run the same parser, checker and formatter over module
graphs whose packages come out of the store.

What makes each component correct is listed with its module below; the hazards of
`PROJECT.json` name the source lines.

## 2. Modules

Each module's header comment says what it stands for; this section relates state
and actions to the code. Paths are under `packages/`. Definitions whose comment
begins with *Mutant* are wrong versions of the definition that follows them. They
are used by no specification: they show that a property can fail, by taking the
place of that definition.

### Scheduler, AsyncContract, SchedulerProofs (`runtime/src/common/async.c`)

The variables are the fields of `SnFuture` and `SnTask`, the arrays `runnable` and
`all_tasks`, `active_count` and `current_task`. `waking` is the local list of
`sn_future_wake_waiters`, and `phase` the place of the thread in
`sn_event_loop_run`. A task is named after its result future.

| Action | Code |
| --- | --- |
| `Spawn`, `StartExternal`, `Compose` | `sn_task_spawn` behind an async start stub; any runtime call that returns a timer's or a request's future; `sn_future_all` and `sn_future_race` |
| `AwaitReady`, `AwaitPending`, `AwaitCancelled`, `Yield` | the branches of `sn_task_await_suspend` and `sn_task_await` |
| `Return`, `Cancel` | the end of an async body; `sn_task_cancel` |
| `Settle`, `Callback`, `WakeOne` | `settle`: the state, then the `on_settle` callback, which may settle a composition in turn, then one turn of the loop of `sn_future_wake_waiters` for each waiter |
| `RunNext`, `ReapCancelled`, `AfterBody`, `RunReadyDone` | `sn_scheduler_run_ready`: the pop with swap of the last entry, the two ends of a turn |
| `SettleExternal`, `PollDone`, `CheckExit`, `WaitDone`, `Shutdown` | `sn_event_loop_run` and `sn_async_shutdown` |

`AsyncContract` is what a program relies on: no queue, no waiter lists, no wake
loop, and one step that settles a future and readies everybody who waits for it.
`Scheduler` implements it (`ImplementsContract`). Under the mapping a suspended task
is *waiting* only until the settle that concerns it has detached it; while the
wake loop still walks over it, it is *ready* already. What the refinement rules out
is a settle that overlooks a waiter and a wakeup for another future.

The scheduler matters most for the rest: every request of `FileStream` and `Network`
and every timer is one of its `External` futures, settled in a phase where it lets
external futures settle, and the result of an `all` or a `race` is one of its
`Composed` futures. Those are settled inside the settle of a member, wherever that
happens: in a body that returns or cancels, when a cancelled task is reaped, in the
poll. `Scheduler` says when (`hook`, `callback`); whether and with what, which it
leaves open, is the subject of `Compose`.

A task that is cancelled while it is suspended is `Abandoned`: `sn_task_cancel` takes
it out of the waiter list, it is in no queue, and nothing takes it out of `all_tasks`
and the count. `ActiveCountExact` says what the count then is: the tasks in
`all_tasks`, of which each is queued, current, suspended or abandoned. `LoopStops`
lists all that can keep the loop of a program from ending: an abandoned task, tasks
that wait for each other or for a composition that never settles (`Deadlocked`), and
tasks that yield again and again. That an abandoned task is dropped
(`CancelledDropped`) does not hold, nor that a queued task gets the thread
(`RunnableRuns`).

### Compose, ComposeProofs (`async.c`, `std/src/async/index.sn`)

`sn_future_all`, `sn_future_race`, their callbacks, and the body of `timeout`. A future
has one slot (`compose_data`, `on_settle`); `settle` runs the callback in it first. A
callback settles at most one more future, so the nest of calls is a chain, and `due`
names its end. `log` is a history variable, the order of settles. `SingleUse` states
the discipline under which the promises of `all` and `race` hold: a future is passed to
one call, once; without it compositions get stuck. `SettlesRight` takes over the code's
choice that `all` fails as soon as one member has failed (`AllFailsFast`). The
documentation of `all` says that it waits for every member; that is `AllWaits`, which
does not hold. `OkMeansCompleted`, what is documented of `timeout`, does not hold
either.

### FileStream, FileStreamProofs (`runtime/src/posix/file_stream.c`, `std/src/fs/file_stream.sn`)

Two threads take jobs from a list under a mutex and a condition variable, run
blocking calls on an `SnFile` no lock protects, and push results on a second list;
the loop thread polls it. Both lists are stacks, as in the code. A step of a worker
is one critical section, one read of the `SnFile` with its system call, or the two
stores behind `close`. The kernel's descriptor table is part of the state (lowest
free number first), so that a descriptor that is closed and used again can be told
from the old one. `rank` and `io` are history: the order in which the program asked
and the file behind each transferred piece.

`OneAtATime` says that a program awaits a request on a stream before it makes the
next one on the same stream. Nothing in the runtime enforces it; the hazards list
names what a program that does otherwise meets (reordered jobs, `close` overtaking a
queued `write`). Requests on different streams overlap freely.

### TryPrograms, TrySemantics, TryCodegen (`compiler/src/codegen/llvm.ts`, `runtime/src/common/exception.c`)

`TryPrograms` describes programs by their control: try statements that follow or
contain one another, in one function or through calls, with the set of ways the code
of a region may end. `TrySemantics` is the meaning an author expects: a throw goes to
the innermost catch, a finally block runs once on every way out of its statement,
and the completion that led there goes on. `TryCodegen` is the emitted code on the
runtime's stack of jump frames and its shadow stack of roots: frames pushed and
popped where `emitTryStatement`, `emitTryLeave` and `emitReturn` emit it, finally
blocks emitted three times (inline after try, after catch, and as a thunk called
while a throw passes), `pendingReturn`, and, in async functions, handlers taken down
by an await and set up again by the resume. `RunsAsWritten` is the refinement.

It holds for the programs `Supported` describes, and the comment there lists what each
of its conditions rules out: a throw or an await in a finally block, a catch that
throws or returns beside a finally, a return that passes a handler or that may be
passed by. The run checks that all programs inside the condition run as written; it
does not claim that those outside all go wrong. `Rethrow` in `MCTryCodegen` (run
`try_rethrow`) is one that does.

### Collector (`runtime/src/common/gc.c`, `alloc.c`)

`table` is the side table in order, because a free moves the last entry into the hole,
which happens under the sweep's own index. Marking's recursion is the set `todo` of
pointers still to visit, in any order. The mutator is any program that keeps the rule
of compiled code: a pointer it uses is in a root slot or in an object that is
reachable. A collection may start whenever the mutator may allocate, whatever the
threshold. `Opaque` objects have no scan information: what they point to is not kept
alive by them (section 5).

### Network, NetworkProofs (`runtime/src/linux/reactor.c`, `posix/net.c`, `posix/udp.c`, `posix/tls.c`)

The reactor has one entry for a descriptor. Requests are a sequence in the order in
which they were made, each with the state of its future and the units it has moved
(`sent` of a write, the length of a read). `net` is the outside of a socket: units
that have arrived, units OpenSSL has taken from the descriptor and holds (no poll
reports them), room in the send buffer, end of stream, answer to a connect, and how
far an exchange of messages of the TLS protocol has come (`talk`): the peer may ask for
one at any time, and then `SSL_read` may have to send before it goes on
(`WANT_WRITE`) and `SSL_write` to receive (`WANT_READ`). `Wants` is the event a request
needs, and `RequestsKept` asks for an entry for that event. The
program calls in phase `run`; `WaitEvents` freezes the batch `epoll_wait` returns,
and `Dispatch` handles its events one by one, each against the table as it is then.
Handshakes run in threads (`Shaken`, `Wake`) and report through a stack of results.

The guards are those of std's wrappers where they exist: a TCP stream that was
closed throws before it calls the runtime, so only listeners and UDP sockets reach C
with a closed handle. `sent` counts for TCP; an unfinished `SSL_write` keeps its
place inside OpenSSL; a datagram is one unit. `accept` may fail for want of a
descriptor, and a ready callback may find that nothing is there any more.

The record of a waiting request (`SnReadReq` and its like) is an object of the GC heap,
and only the reactor's array, which the collector does not see, points to it.
`CollectSpec` is the system in which collections happen: `Collect` sweeps a record
(`alive`), and dispatching an entry whose record is gone is no step, since what the
code then does is undefined. `RequestsAlive` fails there. The run `network` is that of
a program that allocates too little for a collection while it waits; the proofs are
about `CollectSpec`, that is, about programs with and without collections, as long as
no swept record is used.

### Resolver, ResolverProofs (`cli/src/deps/resolve.ts`, `semver.ts`, `install.ts`, `lock.ts`)

A requirement is the set of versions it admits (what `satisfies` computes from a
range), `Path`, or malformed. `registry` gives each published version its
dependencies, `local` those of a package in a directory, `project` the roots and
overrides of `project.toml`.

| Action | Code |
| --- | --- |
| `InstallLocked`, `InstallFresh`, `InstallNothing` | `sn install`: the lock is taken as it is when `LockSatisfiesRoots`, else the project is resolved |
| `UpdateAll`, `UpdateOnly` | `sn update`, with no preferences, or with those of the lock but for one name (`float`) |
| `Round` | one turn of the loop of `resolveDependencies`: constraints from the present selection, discovery of new names, `PickVersion` per name, removal of what is reachable no more |
| `WriteLock` | the lock of a resolution that came to rest; `read` remembers the manifests in directories it was made from |
| `Edit`, `EditLocal`, `Publish` | the user changes the roots, or the `project.toml` of a package in a directory, or moves that directory away; someone publishes a version |

A round reads a selection that it replaces, so it may come to rest or not:
`MaxRounds` stands for the limit of 64 (8 here; three names of two versions have
fewer selections than rounds that differ). `Wish` is the selection an author hopes
for, computed without rounds; `FindsWish` asks for it where it needs no package in a
directory, since a name that was once found in a directory keeps it while anything
needs the name. `AcyclicSettles` says that rounds come to rest unless packages need
each other in a circle, and that the selection is then what the roots lead to
(`Walked`). It asks that what needs a package in a directory is not required by a
range as well (`PathsApart`). The documentation makes no such condition; without it
the property fails (`NestedPathsSettle`). `Consistent` speaks
of an installed lock while the packages in directories are as they were when it was
made (`AsRead`): `LockSatisfiesRoots` compares the roots, and of a directory it is
only asked that there is a `project.toml` in it. Without that condition it is
`FullGraphLocked`, and does not hold. That a
requirement in `project.toml` can be parsed (`ProjectAssumption`) is what loading the
file ensures (`cli/src/project.ts:519`); those of published manifests may be
malformed.

### PackageStore, PackageStoreProofs (`cli/src/deps/store.ts`, `install-fetch.ts`, `install.ts`, `native-cache.ts`, `native-resolve.ts`, `commands/deps.ts`)

The files of one user: a directory per version with `project.toml`, its contents and
the checksum sidecar; `dependants.json`; the native cache; a lock file per project.
Each project has a process that does one file operation in a step, and what a
process has read is in its record (`snap` is the `dependants.json` it will write
back).

| Action | Code |
| --- | --- |
| `Resolve`, `InstallLocked`, `InstallNothing` | the three ways a command begins (`install.ts`) |
| `Load`, `Resolved`, `Unresolved` | candidates that the resolver loads are downloaded while it runs |
| `NextInstall`, `Check`, `Recheck`, `DownloadFails`, `Clear`, `Extract`, `Seal` | `ensurePackageInstalled`: trusted or not, remove, extract, write the sidecar |
| `Release`, `Drop`, `Unregister`, `Collect`, `Register` | `releasePreviousVersion`, `removeDependant`, `gcPackageVersion`, `addDependant`, each as a read of `dependants.json` and a write |
| `Materialize`, `IntegrityError`, `WriteLock` | `installNativeArtifacts` and the lock, which is written beside and renamed |
| `CacheClean` | `sn cache clean` |
| `Crash` | the process dies between two operations; with `"torn"` also within one |

`Together` lets the commands of several projects overlap. Nothing in the code locks
the store, and with `Together = TRUE` the properties do not hold (section 5); the
run and the proofs have `Together = FALSE` and crashes.

### LanguageServer, LanguageServerProofs (`lsp/src/server.ts`, `protocol.ts`)

Documents with their version, the debounce timers, the cache of analyses with the
order of touches, the reverse import graph (`importers`), the background index and
what the client shows. An analysis is the text of each module it read. Handlers run
to their end; timers and the index's yields are steps. An analysis may fail, which
leaves the cache as it was; without workspace roots (`rooted`) there is no index run.

| Action | Code |
| --- | --- |
| `DidOpen`, `DidChange`, `DidClose`, `Save` | the notification handlers: text, version, `invalidateDependents`; on open and change also a timer and a new index run; the editor's write to disk |
| `RunAnalyze` | a timer fires: the analysis of the version it was set for, or nothing when outdated; diagnostics go out for its file and for the modules that have some |
| `Request`, `WorkspaceRequest` | any request: `ensureAnalyzed` of one file, or of all |
| `Reindex`, `BuildGraph`, `BuildIndex`, `Warm` | the phases of the background run, each of which gives way to a newer run |
| `RunFails` | an exception in the graph or the index ends the run (`server.ts:474`) |
| `Touch`, `Store` | `touchCache` with its eviction loop, `setAnalysisCache` with the import graph; where the loop does not end the entry is already in the cache and the import graph is not yet written |

What hover, completion or rename compute from an analysis is pure and left out.

### Grammar, Parser, Printer, Formatter (`compiler/src/parser/parser.ts`, `lexer.ts`, `compiler/src/format/printer.ts`, `imports.ts`, `format.ts`)

`Grammar` has the trees and a small set of forms (expect a token, take one, call a
method, branch, loop, try and go back). `Parser` has one definition for each method
of the class `Parser`, written in these forms, and an interpreter for them; so the
lookaheads that parse on trial are the same operators as the methods they try.
`Printer` has one case per construct of `printer.ts`, with its precedences.
`Formatter` is a file that is written and saved: parse, sort the imports, print,
again and again. A programmer's text is the *careful* printing of a tree, with
parentheses around every operand, or the plain one. `Survives` names the constructs
for which the printer's parentheses agree with the parser (section 5 has the
others).

### Types, Checker, Declarations, Lowering, Execution, Compilation (`compiler/src/typecheck.ts`, `typecheck-advanced.ts`, `compiler.ts`, `compiler/src/codegen/llvm.ts`)

| Module | Code |
| --- | --- |
| `Types` | the types, `isAssignable`, unions and their normal form, facts of a condition, narrowing |
| `Checker` | `checkExpression`, `checkStatement`, `checkAssignment`, ... : one operator each; `Check` is the one recursive entry they share |
| `Declarations` | the collection of names, members, signatures and module variables in the order of the code; `checkFunction`, `checkClassMembers`, interface conformance |
| `Lowering` | the symbols, vtables and itables of `llvm.ts`, its own inference of types, conversions between representations, and the code of each expression (`Lower`) and statement (`Do`) |
| `Execution` | what LLVM and the runtime do with that code; none of it is the compiler's, so it is external in the map |
| `Compilation` | `compileFile`: one action per phase, each of which hands over its tables or ends the compilation |

A place in a program is a record with the scope, where a variable has its declared
and its narrowed type; a statement returns the scope after it. The generator has
types of its own, which know nothing of narrowing, and `Broken` stands for code it
throws on or LLVM rejects. The run of a program remembers every call
(`calls`) for `DispatchesByClass`.

## 3. Runs

| Run | Instance | What it shows |
| --- | --- | --- |
| `scheduler` | 3 tasks, 1 external future, 1 composition over a task and the external future, awaits that may be circular, two tasks that may be cancelled (main is one), one task that yields | `NoLostWakeup`, `ActiveCountExact`, `ExitComplete`, `ResumeOnlySettled`, the refinement `ImplementsContract`, and `LoopStops` |
| `compose` | 3 leaves (one a timer), 2 calls out of 7, possibly nested, each future used once | `SettlesRight`, `EventuallySettled`: outcomes, values, order and termination of `all`, `race`, `timeout` |
| `file_streams` | 2 opens, a read, a write, a close; 2 workers; 1 descriptor; writes of 2 pieces; the write may fail, one open may be cancelled | `JobsReachWorkers`, `DescriptorsOwned`, `FilesIntact`, `Answered` |
| `try_supported` | all supported programs of two try statements, sync and async, at most 3 entries | `UnwindingExact`: handler stack and root stack match control; `RunsAsWritten`: the refinement |
| `try_rethrow` (violated) | a try whose catch clause throws, with a finally block | `RunsAsWritten` |
| `collector` | 3 objects of sizes 1, 2, 4; one stack slot and one global; 2 pointers in an object | `NoDangling`, `FreesOnlyGarbage`, `FreesAllGarbage`, `CollectionEnds` |
| `network` | one socket of each of 4 kinds, of which 2 are made, 2 descriptors, 3 requests, 2 arrivals, a send buffer of 1 unit, writes of 2 | `RequestsKept`, `OwnDescriptor`, `BytesOnce`, `Answered` |
| `resolver` | registries of 3 packages with 2 versions and up to 3 requirements, packages in directories, overrides, malformed manifests; 6 projects; one edit (of the project or a directory) or publication | `Consistent`: what is resolved, or installed with the directories as they were, meets every requirement; `FindsWish`; `AcyclicSettles`: rounds come to rest, with what the roots need |
| `package_store` | 2 projects, 2 packages of 2 versions, 3 commands, 3 candidates, crashes | `LockedIsInstalled`, `TrustedIsWhole`, `OneVersion` |
| `language_server` | 3 files in a chain of imports that edits cut and join, a cache of 2, 3 open documents, 3 edits, with and without roots | `CacheFresh`, `IndexFresh`, `CacheBounded`, `EditsArrive` |
| `formatter` | every construct, every construct of expressions and types in every place of another, every statement in every block, all chains of 3 operators | `ReadBack`: the parser reads a tree back from its text; `KeepsProgram`; `Settled`: formatting twice is formatting once |
| `compilation` | 2917 programs, about a third of which the checker accepts; those are run | `AcceptedCompiles`, `TypeSound`, `DispatchesByClass` |

`try_rethrow` is the one run that TLC refutes: `docs/spec/errors.md:31` says that a
`finally` block runs on all exit paths, and it does not when the catch clause throws.
It is in the `findings` of `PROJECT.json`.

**Promises that are not kept.** These definitions say what a document or a comment says
of the code. They are stated beside the properties that hold, no run in the list checks
them, and TLC finds each violated: under the configuration that is named or, where none
is, under that of the component with the constants that are named.

| Definition | Where | How |
| --- | --- | --- |
| `CancelledDropped` | `MEMORY_MODEL.md:878` | `SchedulerCancel.cfg` |
| `RunnableRuns` | `MEMORY_MODEL.md:867` | `SchedulerCancel.cfg` with `MayCancel = {}`, `MayYield = {r, a}` |
| `AllWaits` | `std/src/async/index.sn:22` | `ComposeAllWaits.cfg` |
| `OkMeansCompleted` | `std/src/async/index.sn:34` | `Compose.cfg` with `Programs <- TimeoutOnly` |
| `EventuallySettled` | `std/src/async/index.sn:22` | `Compose.cfg` with `Programs <- Shared`, `SingleUse = FALSE` |
| `RequestsAlive` | `MEMORY_MODEL.md:861` | `NetworkCollected.cfg` |
| `RequestsKept` | `MEMORY_MODEL.md:861` | `Network.cfg` with `OneAtATime = FALSE` |
| `FullGraphLocked` | `docs/spec/packages.md:61` | `ResolverPathEdit.cfg` |
| `NestedPathsSettle` | `docs/packages.md:40` | `Resolver.cfg` with `NestedPackage`, `NestedScenario`, `NestedProject`, `Rewritten = {}`, `MaxRounds = 64` |
| `EvictionEnds` | `lsp/src/server.ts:209` | `LanguageServerHang.cfg` |

**Bounds.** They are small, and chosen so that the cases behind the hazards occur.
Three tasks are the least with two waiters on one future while a third runs, and with a
cancelled task between two live ones in the queue, so that the swapped pop matters. Two
compositions are the least that nest. One descriptor for two files means that every
second open either fails or gets a number that was just closed. A write of two pieces
can stop in the middle. Two try statements show every pair of nesting, and three
entries let a statement be entered again after a throw. With three objects there are
cycles, chains and a live last entry that is moved over a dead one; sizes are powers of
two, so two wrong accounts do not cancel out. Three requests are the least for a
cancelled one, its successor on the same socket and another socket that gets the
descriptor; a write of 2 into a buffer of 1 always waits. Three requests (a connect, a
read, a write) also bring a TLS read that has to send into a full buffer and a TLS
write that has to receive. Three packages are the least in which a choice takes a
dependant away from another. Three commands are the least with an install that dies,
one of another project that meets what it left, and one that cleans up. A chain of
three files is the least with an import of an import; a cache of two is below the
number of files, and no more documents are open than it holds. The programs of
`compilation` are frames with places: a test and a use of the tested value; a
conversion from every type to every other in four contexts; every chain of three
classes with overrides; interfaces that extend one another; reassignment between test
and use; loops, switches, argument lists, stores and literal types. `MaxSlots`,
`MaxFields`, `MaxEntries`, `MaxRequests`, `MaxSockets`, `MaxUnits`, `Capacity`,
`Chunks`, `MaxRounds`, `MaxEdits`, `MaxLoads`, `MaxStarts`, `MaxOpen`, `MaxChain` bound
what the code leaves unbounded; each is a guard named in its module.

**Symmetry.** Only in `package_store`, over the projects: no definition tells them
apart, and the run has no temporal property.

**Deadlock.** It is checked in the models of the scheduler, the compositions, the
file streams, the try statements and the collector: the ends of a run are explicit
there (`Stopped`, `Quiet`, `Done`), or there is always a step of a loop. It is off
where the system may stop: a network program whose peers send nothing (the real one
waits in `epoll_wait`), commands, edits or saves that have been used up, a
compilation that has ended.

**Fairness.**

- Scheduler: weak fairness for each step of the loops, since one thread runs and
  never stops between statements of the runtime; for the end of a body's turn, since
  liveness is claimed only for bodies that do not compute for ever; strong fairness
  for each external future, since a due timer or a ready descriptor stays due
  (deadlines are compared with the clock, epoll is level-triggered) at every later
  visit of the serving phases.
- Compose: callbacks are part of a settle, leaves settle, a task that is ready is
  resumed. The last does not hold of every program: where C resume functions yield for
  ever, the queue starves others (`RunnableRuns`). Compiled code has no such functions:
  its `await` on a settled future falls through (`async.c:367`), and no task of it is
  queued again unless a future settles.
- FileStream: each worker thread and each step of the loop thread.
- Network: the steps of the loop and each handshake thread. Nothing is assumed of
  peers: `Answered` speaks of requests for which an answer is there.
- Collector: its own steps, once a collection has begun.
- LanguageServer: `Fairness` says that timers that are due go off: either none is
  due again and again, or timer steps that change something happen again and again.
  It is the weak fairness of `Timers`, in terms of the state that makes one due and
  of what only a timer's step changes. Node's event loop gives it.
- Resolver: weak fairness of its rounds, which run in one loop.
- PackageStore, Formatter, Compilation and TryCodegen have safety properties only,
  and their specifications state no fairness.

## 4. Proofs

For every value of the constants, under the named assumptions of the modules
(the constants are finite sets where the code has finitely many of a thing, bounds
are numbers, sets that name different things are disjoint). Each proof module states
the few facts about lists that it needs.

**SchedulerProofs.** `IndInv` is inductive (`InitInv`, `NextInv`). None of the
properties is inductive alone. `NoLostWakeup` needs to know who is in `waking`
(`WakingSound`), since between the detaching and the last `WakeOne` waiters are in
no future's list; that a wake makes a task runnable once needs `WaitersParked`; that
a task leaves the count once needs `AllTasksSound` and `CurrentSound`; what a
cancellation in the middle of an own turn leaves behind is in `TaskSound`. The proof has one
lemma per action and lemmas about the three sequence operations (`PopFirst`,
`Enqueued`, `Unlinked`). From it: `TypeCorrect`, `WakeupsSound`, `AccountingSound`,
`ResumesOnSettled`, `ExitIsComplete`, and the action properties `SettlesOnce` and
`ResumesOnlySettled`. `AbandonedForever` is what `AccountingSound` means for a task that
is cancelled while it is suspended: from then on it is in `all_tasks` and counted, it
is never run or reaped, and the event loop does not end.

The refinement is proved from the same invariant. `ContractImplemented`: initial states
map to initial states and each step to a step of `AsyncContract` or to a stutter.
`WaitersOf` is the key: the waiter list of a pending future is exactly the set of tasks
that wait for it in the abstract state, hence a settle, which detaches the list, is the
abstract settle of all of them.

**ComposeProofs.** For any futures, calls and outcomes. `SettlesRightTheorem` assumes
`SingleUse`, without which the property fails. It speaks of compositions that have
settled only, hence `ComposeInv` says what the others have come to: a pending `all`
has counted exactly its members that have settled, but for the one whose callback is
still due (`Counted`), all of them completed and stored at their places; a pending
`race` has no settled member but the one that is due (`Waiting`); and a pending
member of a pending composition has that composition in its slot (`SlotsSound`),
which is what a second call would break. What has settled is right by then and stays
so, since the order of settles only grows behind it (`Ended`).

**FileStreamProofs.** For any finite set of requests, any workers, descriptors and
pieces. `JobsKept` needs nothing of the program: `JobInv` says that a request is in
one place only (`Placed`: the job list, one worker, the result list) and only while
its future is pending or cancelled, and what a worker does fits the request it holds
(`StepSound`). `DescriptorsKept` and `FilesKept` assume `Disciplined`: the program
awaits each request on a stream before the next, and cancels only opens. Then at most
one request on a stream is in flight (`OneByOne`), a fact about the program which the
lists keep. A descriptor and its open lead to each other (`OpenSound`); a stream that
holds a descriptor holds the one its open got, and the table still says so unless the
one worker that closes it is between `close(2)` and the two stores behind it
(`FdSound`). Hence what a transfer finds behind the descriptor is its own file
(`OwnDescriptor`), which gives `OwnFile`; a new request has a rank above all others on
its stream (`RankSound`), which gives `InOrder`; and what has been written of a
request is what its worker has not still to write (`CountSound`), which gives
`WriteWhole`. Between `close(2)` and the stores another open may already hold the same
number: this is where requests in parallel would break the proof.

**RuntimeProofs: the collector.** `IInv` is the type invariant, the absence of
duplicates and of leftovers in freed memory, closedness of the table under pointers
between collections (`Whole`), and an invariant for each phase. In `Marking`, what is
marked or still to be visited is reachable, covers the roots and all pointers of marked
objects. In `Sweeping`, what is kept (the marked objects and the entries the index has
passed) contains the roots, is closed and reachable; `SwapRemoveFacts` says what moving
the last entry does to that. From it: `TypeCorrect`, `NoDanglingPointer`, and the two
halves of "frees exactly the garbage", `OnlyGarbage` and `AllGarbage`. Reachability is
defined as membership in every closed set, so that no induction is needed.

**RuntimeProofs: try statements.** For any programs that are `Supported`
(`AllSupported`), of any size and nesting: `UnwindingTheorem`. `TryInv` says that the
activations are nested as the source is and numbered in the order of entry
(`Nested`), that frames and held activations stand for one another (`Framed`), that
the checkpoints in frames and calls rise with the nesting (`Checkpoints`), that what
lies below a checkpoint belongs to the calls below it (`Owned`), and that the slot of
a rooted local lies below the checkpoints of everything its block has entered
(`Rooted`): this is why cutting the shadow stack back to a checkpoint takes the roots
of what is over and no others. Whatever leaves a statement either goes on in another
block (`MovedInv`), takes one activation with its frame and roots away (`DropsInv`), or
ends the function (`OverInv`). What the compiler decides is in `LeaveFacts`: the only
leave blocks that return are those of outermost statements whose try body does not
end normally. Its proof follows the order of emission, a recursive function whose
code for a statement consists of that of the statements inside (`EmissionFacts`), and
shows that a pending return is always taken by the leave block next to it (`Paired`).
The same facts about lists in rising order (`SameOrder`) give the handlers that a
resume sets up (`StaticFacts`). Recursive functions exist by `StepwiseExists`, again
by the least counterexample.

`RunsAsWrittenTheorem` is the refinement: initial states map to initial states and
every step of the emitted code to a step of `TrySemantics` or to a stutter
(`SourceStep`). The mapping is `Nest`: the three copies of a finally block are one
region of the source, and the copy control is in tells which completion goes on
behind it (`Pending`). So the emitted code has to choose the right copy. For a return
the converse of `LeaveFacts` is needed, that the leave block really takes it
(`ReturnTaken`). For a throw, the handler on top has to be that of the statement the
source chooses: everything between the code that throws and the nearest running try
body is a catch clause without a finally block (`ThrowReaches`), else `Supported`
would not let the throw start; what `Supported` says of a region includes the calls
in it, again a recursive function (`EscapesFacts`, `ThrowsFacts`). One invariant is
added: a thunk only runs when a throw left the try body and no clause caught it
(`Thunks`).

**NetworkProofs.** Of `CollectSpec`, hence of `Spec` too: for any sockets of the four
kinds, descriptors, bounds and operations the program may cancel, and with
collections. `NetInv` (`NetworkInvariant`) says that sockets
have descriptors of their own (`SocketsSound`), that a request that makes a socket
has its record for itself and at the right stage (`MakingSound`), and whom an entry
of the reactor may be for (`EntrySound`). It holds for every program. With
`OneAtATime`, `RequestsKept` and `OwnDescriptor` are added, and that no two requests
are pending on a socket (`Single`): `RequestsKeptTheorem`, `OwnDescriptorTheorem`.
Without it the two fail. Since an entry must be for the event its request needs, every
step that moves a protocol message has to leave what other requests on the link need
as it was (`WantsFacts`, `TalkFacts`): with one request at a time there are none, and
the peer's own steps change no request's need.
The theorem is about the reactor's entries; that the record behind an entry survives
is not true (`RequestsAlive`). `BytesOnceTheorem` needs no such assumption: cancelled and
displaced requests take no byte with them. The code has twenty or so handlers which
do much the same, so the proof has one description of a step (`Frame`): one request,
which may be new, moves, on a few sockets and at most one entry of the table. Each
action is shown to be such a step, and `FrameStep`, `KeptStep` and the lemmas about
bytes say once what it preserves. The sums of `BytesOnce` are recursive functions;
what they become when one request moves is shown by the least counterexample
(`FirstFacts`), which replaces induction.

**ResolverProofs.** For any registries, packages in directories, projects, publications
and edits, of `project.toml` and in the directories. `ConsistentTheorem`: a round that
changes nothing has read the selection it ends with, so that every constraint is one of
that selection; since `Met` depends on the roots and the directories and a lock is kept
while they are edited, `ConsistentInv` has what does not depend on them, that the
packages of a lock are met within it by the manifests it was made from (`LockSound`,
with the history variable `read`). While these are as they were that is `InnerMet`, and
`MetFacts` says that this and `LockSatisfiesRoots` are all. What is being selected is
published or in a directory (`EntrySound`), obeys the overrides, and never loses the
roots in directories (`SelectionSound`). `FindsWishTheorem` assumes more rounds than
packages, that is, fewer than 64 names with the limit of the code. If the wish can be
had, a round has selected part of it (`Part`): its constraints are constraints of the
wish, so nothing fails and each constrained name gets the wished version
(`WantedSelected`), and unless this was the last round there is one name more than
before. At rest the part is closed under requirements, and `Wish` is the least such set
(`ReachedFacts`, by the least counterexample again). `AcyclicSettlesTheorem` makes the
same assumption. No number decreases from round to round: a package may be selected,
replaced and dropped again. What grows is the part that is settled. `Above(n)` is the
set of packages that may need `n`, directly or not, in any of their versions; without
circles each of these has fewer packages above it than `n` (`LevelFacts`). What a round
makes of `n` depends on the entries of the names above it only: the ranges that
constrain it, whether it is found in a directory, whether the walk reaches it
(`SameSelection`, `SameFound`, `SameReachable`). So a name whose packages above were
left alone by a round is left alone by the next one (`AfterSame`), and before round `r`
the names with fewer than `r` packages above are settled (`Settling`). In the last
round that is every name. It may still discover a directory and drop it again;
`TurnRests` shows that `PathsApart` excludes this, since whatever needs the directory
is then reached by the walk itself. Walks reach closed sets because a step that adds
something adds a package (`ReachedClosed`).

**PackageStoreProofs.** Under `Sequential` (the commands do not overlap, and no file
operation is torn; processes may die between any two), for any projects, packages,
versions and bounds: `NothingTorn`, `LockKept`, `OneVersionKept`. `LockedIsInstalled`
says nothing about sidecars and nothing about a command under way, so it is not
inductive. `Inv` adds: at most one process is under way (`Alone`), and what it works
for is not clean (`Uncommitted`); locked versions are whole *with* their sidecar
(`LocksSecured`), since an install removes what has none; a project is registered
for one version of a name (`OneRegistered`), since otherwise a release would leave
a version behind. `ProcessSound` follows the command: what the directory in hand is
like at each step (`HandSound`), that the index it is about to write back is the
present one but for its own entry (`DropsSound`; this is where overlapping commands
would break the proof), which other versions are still to be dropped
(`VersionsSound`), and how much of the goal has been reached (`GoalSound`). One lemma
per action; the steps that change one directory or one entry of the index share
lemmas about what other projects' locks can lose, which is nothing: a version is
collected only when its last dependant is gone.

**LanguageServerProofs.** For any finite set of files, any imports, limit and number of
open documents: `CacheKept`, `IndexKept` and `CacheLimited`. `CacheFresh` is not
inductive: an edit of `f` drops the analyses of `importers[f]` only, so the graph must
have every import of every cached file (`Linked`). It does, for an analysis enters its
own edges when it is stored (`StoreKeeps`), the index run only adds edges
(`GraphKeeps`), and the edges that a newer analysis of a file withdraws belong to an
analysis that is cached no longer. An analysis holds all a file reaches: `Modules` is
the least closed set, so that no induction is needed. `CacheBounded` follows from
`InOrderOfTouch`: the cache is within the order of touches, and that is as long as the
limit at most. `TouchFacts` is its core: unless every file of the order is open, there
is a first one that is not (`FirstFacts`, by well-foundedness of the naturals), and
taking it out leaves all others. When every one is open the loop does not end
(`Stuck`): the file is in the cache by then, one above the limit, and the import graph
is not written, so `Linked` and the limit are claimed of servers that are not `hung`
and `HangKeeps` shows what is left of the invariant in one that is.

**What proofs changed.** Two definitions were wrong where the instances could not show
it. `Connect` and `Upgrade` in `Network` could take the record that a pending `accept`
had chosen for its connection (in C each call allocates its own): with two
descriptors there is never room for both, with three there is; `Fresh` now says it.
The premise of `FindsWish` was that there are no packages in directories, which is
not enough when a published package asks for one, and no scenario has that; it now
speaks of what the wish asks for. `AcyclicSettles` had no `PathsApart`: the proof
failed at the directories a settled round may find, and the counterexample needs five
packages, two more than the instance had.

**Model-checked only.** All liveness (`LoopStops`, `EventuallySettled`, `Answered`,
`CollectionEnds`, `EditsArrive`): liveness under fairness is beyond the prover.
`Parser`, `Printer`, `Checker`, `Lowering` and `Execution` are recursive over trees,
with RECURSIVE operators, so nothing about them or about `Formatter` and `Compilation`
can be proved here.

## 5. Observations

The passing runs state what the code gives. This section has what it does not give,
met while modelling. What TLC shows is marked with the property or the constants that
show it (section 3); the rest was read in the code, and the programs of the runs leave
it out.

**Runtime**

- Tasks of C resume functions that call `sn_task_await` on a settled future are queued
  again, and the pop puts the last entry of the queue in the place of the first: two of
  them keep a third from ever running (`async.c:172`; `RunnableRuns`), where the
  documentation has peers make progress cooperatively (`MEMORY_MODEL.md:867`).
- A task cancelled while it is suspended stays a root and stays counted; the event
  loop then never ends (`async.c:420`; `CancelledDropped`, against
  `MEMORY_MODEL.md:878`; the theorem `AbandonedForever`).
- `all` settles as soon as a member has failed, while others are pending
  (`async.c:504`, `570`; `AllWaits`). Its documentation says "Wait
  until every future in `futures` settles." (`std/src/async/index.sn:22`)
- A future reports to one composition once: passed to two calls of `all`, `race` or
  `timeout`, or twice to one, it leaves a composition unsettled for ever
  (`async.c:583`; `EventuallySettled` without `SingleUse`).
- Work that fails between the firing of the timer and the resumption of `timeout` is
  reported as success, and its error is lost (`std/src/async/index.sn:42`;
  `OkMeansCompleted`).
- A catch clause that throws skips its finally block (`llvm.ts:5038`; the run
  `try_rethrow`), against `docs/spec/errors.md:31`.
- A request that waits is freed by the next collection: its record is an object of the
  heap that only the reactor's array points to (`net.c:332`, `reactor.c:62`;
  `RequestsAlive`). `MEMORY_MODEL.md:861` says that the queues keep requests alive.
- A `Bytes`, a `FileStream` or a `TcpStream` that is reachable does not keep the C
  object alive whose address it holds as an `i64` (`llvm.ts:2776`; `Collector` with
  an object in `Opaque`).
- Two requests at once on one descriptor share one reactor entry; the one that is
  displaced never settles (`reactor.c:122`; `RequestsKept` without `OneAtATime`).

**Package manager**

- Two commands at once lose registrations, and a later removal deletes a version
  that is in use (`store.ts:93`; `PackageStore` with `Together = TRUE`).
- A process that dies while it writes `dependants.json` or removes a directory leaves
  an index that reads as empty, or a directory that is trusted and not whole
  (`"torn"` in `Faults`).
- The lock's native artifact is looked up by name alone, so an update to another
  version finds another checksum and fails (`native-resolve.ts:367`;
  `UpdateGoesThrough` in `PackageStore` does not hold).
- A change in the `project.toml` of a path dependency is not noticed by `sn install`:
  the lock is taken without what the package now requires (`resolve.ts:756`,
  `install.ts:244`; `FullGraphLocked`). A lock is refused, on the other
  hand, when a directory that only an old lock entry names is gone.
- A change of the overrides alone is not noticed by `sn install` when the lock
  satisfies the roots (`resolve.ts:756`; hence `Obeyed` is asked of resolutions only).
- A package that is constrained by a range is taken for reached when the walk from
  the roots has handled its first root, without what it needs. If it needs a
  directory that nothing else leads to, the directory is found and dropped in each
  round, and a project without any circle ends with "dependency resolution did not
  converge" (`resolve.ts:219`), although nested path dependencies are supported
  (`docs/packages.md:40`; `NestedPathsSettle`).
- Rounds may oscillate when packages need each other in a circle; the command gives
  up after the limit though a selection exists (`resolve.ts:167`).

**Language server**

- `touchCache` does not end when more documents are open than the cache holds,
  whatever its comment says (`server.ts:209`; `EvictionEnds`).
- A change drops the analyses of direct importers only: those that import it through
  another module stay stale, and re-exports are not edges of the import graph
  (`server.ts:245`; hence `CacheFresh` speaks of direct imports).
- The debounce delay is declared and not used.

**Parser and formatter**

- The documentation calls the formatter idempotent (`docs/tooling/formatter.md:27`),
  which holds for the programs of the run (`Settled`) and not for others. The
  parentheses of the printer do not agree with the parser for a cast of a binary
  expression, for `is` and `??` over `||`, for a postfix operator on an operator
  expression, for the operand of `typeof` and `await`, for nested union, function and
  conditional types, and for a second minus; an object type loses its last semicolon, a
  class member with `static` and `abstract` their order, an array pattern its last hole
  (`printer.ts:1098`, `1318`; the cases of `Survives`).
- `sn fmt` and the editor's format command print the recovered tree: a declaration
  that did not parse is deleted from the file (`format.ts:70`).
- `xs[0].run();` and `f(x).g();` do not parse as statements (`Starts` in `Formatter`).

**Checker**

- When `a && b` is false, both tests are taken to have failed; what a loop, a switch
  or a try body narrows stays narrowed after it; a lambda sees captured variables as
  narrowed where it is written.
- A variable or a class field without an initializer may be read before it is
  written, and objects are not zeroed; initializers of static fields are checked and
  never run.
- `!` is not checked when it runs; an element may be stored past the end of an array;
  map types are covariant; named arguments are evaluated in the order of the
  parameters and defaults in the scope of the caller; the variable of a `for` stays
  in scope after it.
- An override is not compared in `async`; a class or interface that is declared
  before its base is built from an empty one.

**Code generator**: programs the checker accepts that get no code, invalid code, or
code that reads memory as something else

- `typeof` and `is` on unions that are nullable pointers (`string | null` is
  `"object"`; on `string | C | null`, `is string` is true of any object); `is A` on a
  boxed union follows the payload before it looks at the tag (`llvm.ts:8303`); `is`
  does not tell arms apart that share a tag; `string | null == string` compares
  pointers.
- `&&` and `||` evaluate both operands.
- Members, arithmetic and method calls on narrowed variables of other unions than
  nullable pointers; `.length` of a narrowed array; `x?.m()` as a statement; `x?.f`
  whose field is a union; optional indexing of an array and `??` on the right of
  `??` (labels of the phi).
- Conversions between a nullable pointer union and a tagged one; unions with
  interfaces or enums as arms; literal unions where their base type is expected; a
  module variable of a tagged union with a literal (`llvm.ts:2456`).
- Two sibling blocks, or two `for ... in` loops, that declare the same name; an empty
  `switch`; a missing return that `bodyReturnsValue` overlooks.
- A conversion to an interface takes the table of the static class, so overrides of
  subclasses are bypassed (against `docs/spec/classes-interfaces.md:64`), and between
  interfaces with two bases the offset is wrong (`llvm.ts:2808`).

## 6. Not modelled

`PROJECT.json` lists every component with its status and the reason. In short:
generics with the monomorphizer, imports and exports between modules, and the
validation of files; async bodies' spilled locals, lambdas, structs, tuples and maps
in `Lowering`; comments, blanks and the wording of diagnostics in the formatter; the
array of timers, the nested driver `sn_future_await_run`, DNS; the debug adapter; the
connection pool of `std/http`. The LLVM binding, release scripts and editor extension
are glue; editor analysis is pure queries; macOS and Windows implement the same
interfaces with other system calls. Within modelled modules each header names what
it abstracts: values and errors carried by futures, the contents of buffers and
files, addresses, error texts, memory exhaustion inside the runtime.

## 7. Plan

1. Done: scheduler with contract, compositions, file streams, collector, sockets,
   resolver, package store, language server and try statements, all with proofs;
   parser and formatter, checker and code generator, model-checked only.
2. `Timers` (array with swap-removal, cancel against fire, next deadline) and the
   nested driver, composed with `Scheduler`: the loop's exit test with timers left,
   an `await` in synchronous code called from a task.
3. `AsyncFrames`: what the resume switch restores, temporaries around an await, and
   which values are rooted when; composed with `Collector`.
4. Generics in `Declarations` and the worklist of the monomorphizer; modules with
   imports in `Compilation`.
5. `DebugAdapter` (session, pending requests, framing) and `HttpPool`.
6. Hazards met while reading and not in the list: the size request behind a file
   open that leaks the descriptor when it fails (`std/src/fs/file_stream.sn:92`);
   `break` through a leave block (`llvm.ts:5244`); the stack text captured before
   the error is a root (`exception.c:135`); the callback of a cancelled read that
   leaves its entry, so that the loop spins (`net.c:134`); root arrays of tasks and
   timers that are emptied and refilled by pushes that may collect (`async.c:69`,
   `timer.c:56`); a failed handshake that leaves its connection (`tls.c:182`);
   launch and configurationDone waiting for each other
   (`debug-adapter/src/backend/lldb.ts:82`) and its framing by UTF-16 units (`:129`);
   the migration of `sn.lock` in place (`cli/src/deps/lock.ts:69`).
