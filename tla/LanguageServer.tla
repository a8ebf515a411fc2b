--------------------------- MODULE LanguageServer ---------------------------
(***************************************************************************)
(* The language server (src/packages/lsp/src/server.ts, protocol.ts): open *)
(* documents, the timers that analyse them, the cache of analyses with its *)
(* eviction, the reverse import graph that invalidates it, the background  *)
(* index of exports and the diagnostics the client shows.  Every handler   *)
(* runs to its end on one thread; timers and yields are steps of their own.*)
(***************************************************************************)
EXTENDS Integers, Sequences, FiniteSets, SequencesExt

CONSTANTS
  File,
  None,
  Link,      \* Link[f]: the files that f imports when it imports at all
  Limit,     \* ANALYSIS_CACHE_LIMIT
  MaxOpen,   \* bound: documents open at a time
  MaxEdits   \* bound: documents opened, changed, saved and closed

ASSUME LimitAssumption == Limit \in Nat \ {0}
ASSUME LinkAssumption == IsFiniteSet(File) /\ Link \in [File -> SUBSET File]

VARIABLES
  disk,      \* file -> text
  doc,       \* open document -> text and version
  cache,     \* analysisCache: file -> text of every module of the analysis
  touched,   \* analysisTouchOrder
  importers, \* reverseDeps
  pending,   \* pendingAnalyzeVersion
  timer,     \* debounceTimers: file -> version
  shown,     \* file -> text of that file its diagnostics are about, or None
  index,     \* sharedExportIndex: file -> text its entries are from, or None
  reindex,   \* reindexTimer is set
  run,       \* the background run that is not cancelled
  rooted,    \* the client gave workspace roots
  hung,      \* a handler does not return
  edits

analysis == <<cache, touched, importers>>
background == <<index, reindex, run>>
vars == <<disk, doc, analysis, pending, timer, shown, background, rooted, hung, edits>>

\* What tells the texts of f apart: whether it imports, and all the rest.
Text(f) == [links : {FALSE} \cup {Link[f] # {}}, rev : 0..1]
Resting(phase) == [phase |-> phase, warm |-> <<>>]
Phases == {"graph", "index", "warm"}

Open == DOMAIN doc
Now(f) == IF f \in Open THEN doc[f].text ELSE disk[f]   \* getOverlay
VersionOf(f) == IF f \in Open THEN doc[f].version ELSE 0
Imports(f, t) == IF t.links THEN Link[f] ELSE {}

Put(g, f, v) == [x \in DOMAIN g \cup {f} |-> IF x = f THEN v ELSE g[x]]
Without(g, S) == [x \in DOMAIN g \ S |-> g[x]]

(***************************************************************************)
(* Analysis and its cache                                                  *)
(***************************************************************************)
\* What f reaches: the least set with f that holds the imports of its members.
Modules(f) ==
  {m \in File : \A S \in SUBSET File :
      f \in S /\ (\A k \in S : Imports(k, Now(k)) \subseteq S) => m \in S}

Analyze(f) == [m \in Modules(f) |-> Now(m)]

\* touchCache: f goes to the end of the order of touches.
Order(f) ==
  LET rest == IF f \in ToSet(touched)
              THEN RemoveAt(touched, CHOOSE i \in DOMAIN touched : touched[i] = f)
              ELSE touched
  IN  Append(rest, f)

\* Over the limit the oldest file that is not open goes; the loop does not end
\* if every file it could drop is open.
Stuck(f) == Len(Order(f)) > Limit /\ ToSet(Order(f)) \subseteq Open

TouchKeepsAll(f) == [order |-> Order(f), out |-> {}]

Touch(f) ==
  LET order == Order(f)
      at == CHOOSE i \in DOMAIN order :
              order[i] \notin Open /\ \A j \in 1..(i - 1) : order[j] \in Open
  IN  IF Len(order) <= Limit THEN [order |-> order, out |-> {}]
      ELSE [order |-> SubSeq(order, at + 1, Len(order)) \o SubSeq(order, 1, at - 1),
            out |-> {order[at]}]

Edges(a) == {e \in File \X File : e[1] \in DOMAIN a /\ e[2] \in Imports(e[1], a[e[1]])}

\* setAnalysisCache, which puts the entry in before it looks at the limit, and
\* replaceReverseDepsForResult.
Store(f, a) ==
  IF Stuck(f)
  THEN /\ cache' = Put(cache, f, a) /\ touched' = Order(f)
       /\ hung' = TRUE /\ UNCHANGED importers
  ELSE /\ cache' = Without(Put(cache, f, a), Touch(f).out)
       /\ touched' = Touch(f).order
       /\ importers' = [i \in File |-> (importers[i] \ {f}) \cup {e[1] : e \in {d \in Edges(a) : d[2] = i}}]
       /\ UNCHANGED hung

\* ensureAnalyzed and tryEnsureAnalyzed
EnsureAnalyzed(f) ==
  \/ /\ f \in DOMAIN cache /\ Stuck(f)
     /\ touched' = Order(f) /\ hung' = TRUE /\ UNCHANGED <<cache, importers>>
  \/ /\ f \in DOMAIN cache /\ ~Stuck(f)
     /\ cache' = Without(cache, Touch(f).out)
     /\ touched' = Touch(f).order
     /\ UNCHANGED <<importers, hung>>
  \/ f \notin DOMAIN cache /\ Store(f, Analyze(f))
  \/ f \notin DOMAIN cache /\ UNCHANGED <<analysis, hung>>   \* the analysis failed

\* Any request about a file: hover, definition, completion, symbols, rename ...
Request(f) ==
  /\ ~hung
  /\ EnsureAnalyzed(f)
  /\ UNCHANGED <<disk, doc, pending, timer, shown, background, rooted, edits>>

\* References and rename also analyse the definition's file and its importers.
WorkspaceRequest(f, d) ==
  /\ ~hung /\ f \in Open /\ f \in DOMAIN cache /\ d \in DOMAIN cache[f]
  /\ \E g \in {d} \cup importers[d] : EnsureAnalyzed(g)
  /\ UNCHANGED <<disk, doc, pending, timer, shown, background, rooted, edits>>

OutdatedOrCurrent(f, version) == version <= VersionOf(f)

Outdated(f, version) ==
  version < VersionOf(f) \/ (f \in DOMAIN pending /\ version < pending[f])

RunAnalyze(f) ==
  /\ ~hung /\ f \in DOMAIN timer
  /\ timer' = Without(timer, {f})
  /\ IF Outdated(f, timer[f])
     THEN UNCHANGED <<analysis, shown, hung>>
     ELSE \/ /\ Store(f, Analyze(f))
             /\ IF Stuck(f) THEN UNCHANGED shown
                ELSE \E D \in SUBSET Modules(f) :   \* those that have diagnostics
                        shown' = [m \in File |-> IF m \in D \cup {f} THEN Now(m) ELSE shown[m]]
          \/ /\ shown' = [shown EXCEPT ![f] = Now(f)]   \* the analysis failed
             /\ UNCHANGED <<analysis, hung>>
  /\ UNCHANGED <<disk, doc, pending, background, rooted, edits>>

(***************************************************************************)
(* Documents                                                               *)
(***************************************************************************)
InvalidateItself(f) == cache' = Without(cache, {f}) /\ UNCHANGED <<touched, importers>>

\* invalidateDependents
Invalidate(f) ==
  /\ cache' = Without(cache, {f} \cup importers[f])
  /\ UNCHANGED <<touched, importers>>

UnindexLate(f) == index' = index /\ reindex' = TRUE

\* invalidateExportIndexForFile
Unindex(f) ==
  /\ index' = IF index = None THEN None ELSE [index EXCEPT ![f] = None]
  /\ reindex' = TRUE

\* onDidOpen and onDidChangeContent
Received(f, t, v) ==
  /\ doc' = Put(doc, f, [text |-> t, version |-> v])
  /\ Invalidate(f)
  /\ Unindex(f)
  /\ pending' = Put(pending, f, v)
  /\ timer' = Put(timer, f, v)
  /\ edits' = edits + 1
  /\ UNCHANGED <<disk, shown, run, rooted, hung>>

DidOpen(f) ==
  /\ ~hung /\ edits < MaxEdits /\ f \notin Open /\ Cardinality(Open) < MaxOpen
  /\ Received(f, disk[f], 1)

DidChange(f) ==
  /\ ~hung /\ edits < MaxEdits /\ f \in Open
  /\ \E t \in Text(f) \ {doc[f].text} : Received(f, t, doc[f].version + 1)

DidClose(f) ==
  /\ ~hung /\ edits < MaxEdits /\ f \in Open
  /\ doc' = Without(doc, {f})
  /\ Invalidate(f)
  /\ timer' = Without(timer, {f}) /\ pending' = Without(pending, {f})
  /\ shown' = [shown EXCEPT ![f] = None]
  /\ edits' = edits + 1
  /\ UNCHANGED <<disk, background, rooted, hung>>

Save(f) ==
  /\ edits < MaxEdits /\ f \in Open /\ disk[f] # doc[f].text
  /\ disk' = [disk EXCEPT ![f] = doc[f].text]
  /\ edits' = edits + 1
  /\ UNCHANGED <<doc, analysis, pending, timer, shown, background, rooted, hung>>

(***************************************************************************)
(* The background index; a new run cancels the one before at its next yield*)
(***************************************************************************)
Reindex ==
  /\ ~hung /\ reindex
  /\ reindex' = FALSE
  /\ run' = IF rooted THEN Resting("graph") ELSE run
  /\ UNCHANGED <<disk, doc, analysis, pending, timer, shown, index, rooted, hung, edits>>

BuildGraph ==
  /\ ~hung /\ run.phase = "graph"
  /\ run' = Resting("index")
  /\ importers' = [i \in File |-> importers[i] \cup {f \in File : i \in Imports(f, Now(f))}]
  /\ UNCHANGED <<disk, doc, cache, touched, pending, timer, shown, index, reindex, rooted, hung, edits>>

BuildIndex ==
  /\ ~hung /\ run.phase = "index"
  /\ index' = [f \in File |-> Now(f)]
  /\ run' = [phase |-> "warm", warm |-> SetToSeq(Open)]
  /\ UNCHANGED <<disk, doc, analysis, pending, timer, shown, reindex, rooted, hung, edits>>

\* An exception in either ends the run, before anything of it is published.
RunFails ==
  /\ ~hung /\ run.phase \in {"graph", "index"}
  /\ run' = Resting("failed")
  /\ UNCHANGED <<disk, doc, analysis, pending, timer, shown, index, reindex, rooted, hung, edits>>

\* The documents that were open when the index was built, one at a time.
Warm ==
  /\ ~hung /\ run.phase = "warm"
  /\ \/ run.warm = <<>> /\ run' = Resting("idle") /\ UNCHANGED <<analysis, hung>>
     \/ run.warm # <<>> /\ run' = [run EXCEPT !.warm = Tail(@)] /\ EnsureAnalyzed(Head(run.warm))
  /\ UNCHANGED <<disk, doc, pending, timer, shown, index, reindex, rooted, edits>>

Init ==
  /\ disk = [f \in File |-> [links |-> Link[f] # {}, rev |-> 0]]
  /\ doc = [f \in {} |-> 0] /\ cache = [f \in {} |-> 0] /\ touched = <<>>
  /\ importers = [f \in File |-> {}]
  /\ pending = [f \in {} |-> 0] /\ timer = [f \in {} |-> 0]
  /\ shown = [f \in File |-> None] /\ index = None /\ reindex = FALSE
  /\ rooted \in BOOLEAN
  /\ run = Resting(IF rooted THEN "graph" ELSE "idle")   \* onInitialized
  /\ hung = FALSE /\ edits = 0

Timers == (\E f \in File : RunAnalyze(f)) \/ Reindex \/ BuildGraph \/ BuildIndex \/ RunFails \/ Warm

Next ==
  \/ Timers
  \/ \E f \in File : DidOpen(f) \/ DidChange(f) \/ DidClose(f) \/ Save(f) \/ Request(f)
  \/ \E f \in File, d \in File : WorkspaceRequest(f, d)

\* The event loop goes on to run the timers that are due and the immediates:
\* WF_vars(Timers), in terms of what enables Timers and what only they do.
Due == ~hung /\ (DOMAIN timer # {} \/ reindex \/ run.phase \in Phases)
Tick == edits' = edits /\ <<timer, reindex, run>>' # <<timer, reindex, run>>
Fairness == []<>~Due \/ []<><<Tick>>_vars

Spec == Init /\ [][Next]_vars /\ Fairness

(***************************************************************************)
(* Properties                                                              *)
(***************************************************************************)
\* Positions of a request are taken in the document's text and looked up in the
\* analysis: what the cache holds was computed from that text, and from the
\* present text of the files it imports itself (server.ts:245-254, 338-348).
CacheFresh ==
  \A f \in DOMAIN cache :
     LET kept == cache[f] IN
     kept[f] = Now(f) /\ \A i \in Imports(f, kept[f]) : kept[i] = Now(i)

\* No completion is offered from a text that an open document no longer has
\* (server.ts:226-233, 452-460).
IndexFresh == index # None => \A f \in Open : index[f] \in {None, Now(f)}

\* The cache holds no more than its limit, whatever is opened, closed, touched
\* and invalidated, and one more only in a server that no longer answers
\* (server.ts:192-224).
CacheBounded ==
  /\ Cardinality(DOMAIN cache) <= Limit + (IF hung THEN 1 ELSE 0)
  /\ DOMAIN cache \subseteq ToSet(touched)

Indexed(f) == index # None /\ index[f] = Now(f)
Current(f) == shown[f] = Now(f) /\ (Indexed(f) \/ ~rooted \/ (run.phase = "failed" /\ ~reindex))

\* Whatever requests and runs come between, an open document comes to show the
\* diagnostics of its present text, and to have its exports in the index unless
\* there are no workspace roots or the run for that text failed; a server that
\* hangs answers nothing (server.ts:269-335, 399-480).
EditsArrive == \A f \in File : f \in Open ~> f \notin Open \/ Current(f) \/ hung

\* "Still over limit with all open - drop oldest anyway after one pass": the loop
\* over the order of touches ends (server.ts:209).
EvictionEnds == ~hung
=============================================================================
