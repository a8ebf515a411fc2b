------------------------------ MODULE Scheduler ------------------------------
(***************************************************************************)
(* The cooperative scheduler of the runtime                                *)
(* (packages/runtime/src/common/async.c): futures and their waiter lists,  *)
(* tasks, the runnable queue, and the event loop that drives them until    *)
(* the future of the async `main` has settled.                             *)
(*                                                                         *)
(* Everything runs on one thread.  A step of the model is one API call     *)
(* made by the task that is running, one iteration of one of the loops of  *)
(* async.c, or one completion delivered by a timer, the reactor or a       *)
(* worker's result queue (the futures of External).  A task is named after *)
(* the future the start stub of its async function made for it, so that    *)
(* fstate[t] is the state of the result future of t.  The futures of       *)
(* Composed are the results of sn_future_all and sn_future_race: they are  *)
(* settled by on_settle, inside the settle of a member, wherever that is   *)
(* called.  What a composition decides is the subject of Compose; here it  *)
(* settles with anything, or waits for more members.                       *)
(***************************************************************************)
EXTENDS Integers, FiniteSets, SequencesExt

CONSTANTS
  Task,      \* the tasks the program can spawn, and their result futures
  Root,      \* the task of the async main
  External,  \* the futures settled by timers, the reactor and worker threads
  Composed,  \* the futures that sn_future_all and sn_future_race return
  MayAwait,  \* <<t, f>> : the body of t has an `await f`
  MayHook,   \* <<g, f>> : the composition g may have f as a member
  MayCancel, \* the tasks some body may pass to sn_task_cancel
  MayYield,  \* the tasks whose body may call sn_task_await on a settled future
  None       \* the null pointer

Future == Task \cup External \cup Composed

ASSUME ConstantsAssumption ==
  /\ IsFiniteSet(Task)
  /\ Root \in Task
  /\ Task \cap (External \cup Composed) = {} /\ External \cap Composed = {}
  /\ None \notin Future
  /\ MayAwait \subseteq Task \X Future
  /\ MayCancel \subseteq Task
  /\ MayYield \subseteq Task

Outcomes == {"completed", "failed", "cancelled"}    \* SN_FUTURE_* but PENDING
FutureStates == {"unborn", "pending"} \cup Outcomes
TaskStates == {"unborn", "runnable", "running", "suspended", "completed",
               "cancelled"}                          \* SN_TASK_*
Phases == {"poll", "ready", "body", "after", "fire", "wait", "exit", "stopped"}

VARIABLES
  fstate,      \* SnFuture.state
  waiters,     \* SnFuture.waiters: the newest waiter comes first
  waking,      \* the waiters sn_future_wake_waiters has detached, not yet woken
  hook,        \* SnFuture.on_settle and compose_data: the composition it reports to
  callback,    \* the composition whose on_settle runs next, in the settle of a member
  tstate,      \* SnTask.state
  cancelled,   \* SnTask.cancelled
  awaiting,    \* SnTask.awaiting
  awaitSlot,   \* the frame slot holding the future the task awaited last
  runnable,    \* the array of that name
  allTasks,    \* the array of that name, as a set
  activeCount, \* active_count
  current,     \* current_task
  phase        \* the place the thread has reached in sn_event_loop_run

futureVars == <<fstate, waiters, waking, hook, callback>>
taskVars   == <<tstate, cancelled, awaiting, awaitSlot>>
queueVars  == <<runnable, allTasks, activeCount>>
loopVars   == <<current, phase>>
vars == <<futureVars, taskVars, queueVars, loopVars>>

Settled(f) == fstate[f] \in Outcomes

\* Every settle() has returned: no callback and no waiter is left to serve.
Returned == waking = <<>> /\ callback = None

-----------------------------------------------------------------------------
(* The pieces the handlers are made of. *)

\* Mutants of PopFirst: the first entry is not replaced; the last one is lost.
PopLast(q) == [i \in 1 .. Len(q) - 1 |-> q[i]]
PopFirstLosesLast(q) == SubSeq(q, 2, Len(q) - 1)

\* The pop of sn_scheduler_run_ready: the last entry takes the place of the first.
PopFirst(q) == [i \in 1 .. Len(q) - 1 |-> IF i = 1 THEN q[Len(q)] ELSE q[i]]

\* sn_scheduler_enqueue, for a task that is not cancelled (its callers have
\* tested that): at the end of the queue, unless it is queued already.
Enqueued(q, t) == IF t \in ToSet(q) THEN q ELSE Append(q, t)

\* Mutants of Unlinked: the entry is cleared but stays; nothing is unlinked.
UnlinkedHole(ws, t) == [k \in DOMAIN ws |-> IF ws[k] = t THEN None ELSE ws[k]]
UnlinkedNever(ws, t) == ws

\* sn_future_remove_waiter unlinks the first entry of the task.
Unlinked(ws, t) ==
  IF t \notin ToSet(ws) THEN ws
  ELSE LET i == CHOOSE i \in DOMAIN ws : ws[i] = t /\ \A j \in 1 .. i - 1 : ws[j] # t
       IN  [k \in 1 .. Len(ws) - 1 |-> IF k < i THEN ws[k] ELSE ws[k + 1]]

\* Mutant of Settle: only the newest waiter is woken.
SettleWakesOne(f, o) ==
  IF fstate[f] = "pending"
  THEN /\ fstate' = [fstate EXCEPT ![f] = o]
       /\ waking' = (IF waiters[f] = <<>> THEN <<>> ELSE <<Head(waiters[f])>>) \o waking
       /\ waiters' = [waiters EXCEPT ![f] = <<>>]
       /\ callback' = hook[f]
       /\ UNCHANGED hook
  ELSE UNCHANGED futureVars

\* settle() with the outcome o: only a pending future changes.  Its callback is
\* next; its waiters are woken one by one in WakeOne, after those of the result
\* that the callback may settle, and before anything else happens.
Settle(f, o) ==
  IF fstate[f] = "pending"
  THEN /\ fstate' = [fstate EXCEPT ![f] = o]
       /\ waking' = waiters[f] \o waking
       /\ waiters' = [waiters EXCEPT ![f] = <<>>]
       /\ callback' = hook[f]
       /\ UNCHANGED hook
  ELSE UNCHANGED futureVars

\* on_all_child, race_child_settle: the composition settles its result, whose own
\* callback is then next, or has been settled, or waits for more members.
Callback ==
  /\ callback # None
  /\ \/ fstate[callback] = "pending" /\ \E o \in Outcomes : Settle(callback, o)
     \/ callback' = None /\ UNCHANGED <<fstate, waiters, waking, hook>>
  /\ UNCHANGED <<taskVars, queueVars, loopVars>>

\* One iteration of the loop of sn_future_wake_waiters.
WakeOne ==
  /\ waking # <<>> /\ callback = None
  /\ LET t == Head(waking) IN
       /\ waking' = Tail(waking)
       /\ IF ~cancelled[t] /\ tstate[t] = "suspended"
          THEN /\ awaiting' = [awaiting EXCEPT ![t] = None]
               /\ tstate' = [tstate EXCEPT ![t] = "runnable"]
               /\ runnable' = Enqueued(runnable, t)
          ELSE UNCHANGED <<awaiting, tstate, runnable>>
  /\ UNCHANGED <<fstate, waiters, hook, callback, cancelled, awaitSlot, allTasks, activeCount,
                 loopVars>>

-----------------------------------------------------------------------------
(* What the body of the running task may do, one runtime call at a time. *)

InBody(t) == phase = "body" /\ current = t /\ Returned

\* Calling an async function: its start stub makes the result future and the
\* frame and calls sn_task_spawn, which queues the task behind the others.
Spawn(t, u) ==
  /\ InBody(t)
  /\ tstate[u] = "unborn"
  /\ fstate' = [fstate EXCEPT ![u] = "pending"]
  /\ tstate' = [tstate EXCEPT ![u] = "runnable"]
  /\ allTasks' = allTasks \cup {u}
  /\ activeCount' = activeCount + 1
  /\ runnable' = Enqueued(runnable, u)
  /\ UNCHANGED <<waiters, waking, hook, callback, cancelled, awaiting, awaitSlot, loopVars>>

\* Starting a timer or an I/O request: the future it returns is pending, or
\* settled at once (sleep(0), a write the socket takes whole, a bad handle).
StartExternal(t, e) ==
  /\ InBody(t)
  /\ fstate[e] = "unborn"
  /\ \E s \in {"pending", "completed", "failed"} : fstate' = [fstate EXCEPT ![e] = s]
  /\ UNCHANGED <<waiters, waking, hook, callback, taskVars, queueVars, loopVars>>

\* sn_future_all, sn_future_race: the result is pending or settled at once, and
\* pending members get the callback, in place of one they may have had.
Compose(t, g) ==
  /\ InBody(t)
  /\ fstate[g] = "unborn"
  /\ \E s \in {"pending"} \cup Outcomes : fstate' = [fstate EXCEPT ![g] = s]
  /\ \E S \in SUBSET {f \in Future : fstate[f] = "pending" /\ <<g, f>> \in MayHook} :
       hook' = [f \in Future |-> IF f \in S THEN g ELSE hook[f]]
  /\ UNCHANGED <<waiters, waking, callback, taskVars, queueVars, loopVars>>

\* `await f` in the body of t, f settled: sn_task_await_suspend returns false
\* and the body falls through to read the result.
AwaitReady(t, f) ==
  /\ InBody(t) /\ <<t, f>> \in MayAwait
  /\ Settled(f)
  /\ awaitSlot' = [awaitSlot EXCEPT ![t] = f]
  /\ UNCHANGED <<futureVars, tstate, cancelled, awaiting, queueVars, loopVars>>

\* `await f` in the body of t, f pending: the task joins the waiters of f.
AwaitPending(t, f) ==
  /\ InBody(t) /\ <<t, f>> \in MayAwait
  /\ fstate[f] = "pending"
  /\ ~cancelled[t]
  /\ awaitSlot' = [awaitSlot EXCEPT ![t] = f]
  /\ awaiting' = [awaiting EXCEPT ![t] = f]
  /\ tstate' = [tstate EXCEPT ![t] = "suspended"]
  /\ waiters' = [waiters EXCEPT ![f] = <<t>> \o @]
  /\ phase' = "after"
  /\ UNCHANGED <<fstate, waking, hook, callback, cancelled, queueVars, current>>

\* An await of a task that was cancelled while it ran: it stops here.
\* sn_task_await makes this test before it looks at f.
AwaitCancelled(t, f) ==
  /\ InBody(t) /\ <<t, f>> \in MayAwait
  /\ fstate[f] = "pending" \/ (Settled(f) /\ t \in MayYield)
  /\ cancelled[t]
  /\ awaitSlot' = [awaitSlot EXCEPT ![t] = f]
  /\ tstate' = [tstate EXCEPT ![t] = "cancelled"]
  /\ Settle(t, "cancelled")
  /\ phase' = "after"
  /\ UNCHANGED <<cancelled, awaiting, queueVars, current>>

\* A C resume function that calls sn_task_await on a settled future and returns
\* is queued again ("still allow re-entry").
Yield(t, f) ==
  /\ InBody(t) /\ t \in MayYield
  /\ Settled(f)
  /\ ~cancelled[t]
  /\ tstate' = [tstate EXCEPT ![t] = "runnable"]
  /\ runnable' = Enqueued(runnable, t)
  /\ phase' = "after"
  /\ UNCHANGED <<futureVars, cancelled, awaiting, awaitSlot, allTasks, activeCount, current>>

\* The end of an async body: `return` completes the result future, the root
\* catch of the body fails it; both leave the resume function.
Return(t) ==
  /\ InBody(t)
  /\ \E o \in {"completed", "failed"} : Settle(t, o)
  /\ phase' = "after"
  /\ UNCHANGED <<taskVars, queueVars, current>>

\* sn_task_cancel called by the running body on any task it holds a handle of.
Cancel(c) ==
  /\ phase = "body" /\ Returned
  /\ c \in MayCancel
  /\ tstate[c] # "unborn"
  /\ ~cancelled[c]
  /\ cancelled' = [cancelled EXCEPT ![c] = TRUE]
  /\ LET unlinked == IF awaiting[c] = None THEN waiters
                     ELSE [waiters EXCEPT ![awaiting[c]] = Unlinked(@, c)]
     IN  IF fstate[c] = "pending"
         THEN /\ fstate' = [fstate EXCEPT ![c] = "cancelled"]
              /\ waking' = unlinked[c]
              /\ waiters' = [unlinked EXCEPT ![c] = <<>>]
              /\ callback' = hook[c]
         ELSE waiters' = unlinked /\ UNCHANGED <<fstate, waking, callback>>
  /\ awaiting' = [awaiting EXCEPT ![c] = None]
  /\ tstate' = [tstate EXCEPT ![c] = IF @ \in {"suspended", "runnable"} THEN "cancelled" ELSE @]
  /\ UNCHANGED <<hook, awaitSlot, queueVars, loopVars>>

-----------------------------------------------------------------------------
(* sn_scheduler_run_ready *)

\* Mutant of Leave: the counter is not lowered.
LeaveUncounted(t) == allTasks' = allTasks \ {t} /\ UNCHANGED activeCount

\* The task leaves all_tasks and the count.
Leave(t) == allTasks' = allTasks \ {t} /\ activeCount' = activeCount - 1

\* Mutant of RunNext: a cancelled task is resumed like any other.
RunNextCancelled ==
  /\ phase = "ready" /\ Returned /\ runnable # <<>>
  /\ runnable' = PopFirst(runnable)
  /\ current' = Head(runnable)
  /\ tstate' = [tstate EXCEPT ![Head(runnable)] = "running"]
  /\ phase' = "body"
  /\ UNCHANGED <<futureVars, cancelled, awaiting, awaitSlot, allTasks, activeCount>>

RunNext ==
  /\ phase = "ready" /\ Returned /\ runnable # <<>>
  /\ ~cancelled[Head(runnable)]
  /\ runnable' = PopFirst(runnable)
  /\ current' = Head(runnable)
  /\ tstate' = [tstate EXCEPT ![Head(runnable)] = "running"]
  /\ phase' = "body"
  /\ UNCHANGED <<futureVars, cancelled, awaiting, awaitSlot, allTasks, activeCount>>

ReapCancelled ==
  /\ phase = "ready" /\ Returned /\ runnable # <<>>
  /\ cancelled[Head(runnable)]
  /\ runnable' = PopFirst(runnable)
  /\ tstate' = [tstate EXCEPT ![Head(runnable)] = "cancelled"]
  /\ Settle(Head(runnable), "cancelled")
  /\ Leave(Head(runnable))
  /\ UNCHANGED <<cancelled, awaiting, awaitSlot, loopVars>>

\* Mutant of TurnEnded: a finished task does not leave.
TurnEndedOnlyCancelled(t) == tstate[t] = "cancelled"

\* The state with which a task leaves the scheduler after its turn.
TurnEnded(t) == tstate[t] \in {"running", "cancelled"}

\* The resume function has returned: by its state the task is finished, or it
\* was cancelled in its await, or it stays (suspended, or queued again).
AfterBody ==
  /\ phase = "after" /\ Returned
  /\ tstate' = [tstate EXCEPT ![current] = IF @ = "running" THEN "completed" ELSE @]
  /\ IF TurnEnded(current) THEN Leave(current) ELSE UNCHANGED <<activeCount, allTasks>>
  /\ current' = None
  /\ phase' = "ready"
  /\ UNCHANGED <<futureVars, cancelled, awaiting, awaitSlot, runnable>>

RunReadyDone ==
  /\ phase = "ready" /\ Returned /\ runnable = <<>>
  /\ phase' = "fire"
  /\ UNCHANGED <<futureVars, taskVars, queueVars, current>>

-----------------------------------------------------------------------------
(* sn_event_loop_run *)

\* A due timer, a reactor callback or a worker's result settles its future.
SettleExternal(e) ==
  /\ phase \in {"poll", "fire", "wait"} /\ Returned
  /\ fstate[e] = "pending"
  /\ \E o \in Outcomes : Settle(e, o)
  /\ UNCHANGED <<taskVars, queueVars, loopVars>>

PollDone ==
  /\ phase = "poll" /\ Returned
  /\ phase' = "ready"
  /\ UNCHANGED <<futureVars, taskVars, queueVars, current>>

\* Mutant of ExitLoop: the tasks that are still suspended are forgotten.
ExitWithoutCount == Settled(Root) /\ runnable = <<>>

\* The three tests that end the loop agree when it has a root future.
ExitLoop == Settled(Root) /\ activeCount <= 0 /\ runnable = <<>>

CheckExit ==
  /\ phase = "fire" /\ Returned
  /\ phase' = IF ExitLoop THEN "exit"
              ELSE IF runnable # <<>> THEN "poll" ELSE "wait"
  /\ UNCHANGED <<futureVars, taskVars, queueVars, current>>

\* sn_reactor_wait and the polls behind it return.
WaitDone ==
  /\ phase = "wait" /\ Returned
  /\ phase' = "poll"
  /\ UNCHANGED <<futureVars, taskVars, queueVars, current>>

\* sn_async_shutdown, called by the generated main when the loop has ended.
Shutdown ==
  /\ phase = "exit"
  /\ runnable' = <<>> /\ allTasks' = {} /\ activeCount' = 0
  /\ current' = None
  /\ phase' = "stopped"
  /\ UNCHANGED <<futureVars, taskVars>>

\* The process has ended.
Stopped == phase = "stopped" /\ UNCHANGED vars

-----------------------------------------------------------------------------
(* The generated main has called the start stub of the async main. *)

Init ==
  /\ fstate = [f \in Future |-> IF f = Root THEN "pending" ELSE "unborn"]
  /\ waiters = [f \in Future |-> <<>>]
  /\ waking = <<>>
  /\ hook = [f \in Future |-> None]
  /\ callback = None
  /\ tstate = [t \in Task |-> IF t = Root THEN "runnable" ELSE "unborn"]
  /\ cancelled = [t \in Task |-> FALSE]
  /\ awaiting = [t \in Task |-> None]
  /\ awaitSlot = [t \in Task |-> None]
  /\ runnable = <<Root>>
  /\ allTasks = {Root}
  /\ activeCount = 1
  /\ current = None
  /\ phase = "poll"

Body ==
  \/ \E t, u \in Task : Spawn(t, u)
  \/ \E t \in Task, e \in External : StartExternal(t, e)
  \/ \E t \in Task, g \in Composed : Compose(t, g)
  \/ \E t \in Task, f \in Future :
       AwaitReady(t, f) \/ AwaitPending(t, f) \/ AwaitCancelled(t, f) \/ Yield(t, f)
  \/ \E t \in Task : Return(t)
  \/ \E c \in Task : Cancel(c)

RunReady == RunNext \/ ReapCancelled \/ AfterBody \/ RunReadyDone

Loop ==
  \/ \E e \in External : SettleExternal(e)
  \/ PollDone \/ CheckExit \/ WaitDone \/ Shutdown

Next == Callback \/ WakeOne \/ Body \/ RunReady \/ Loop \/ Stopped

Spec == Init /\ [][Next]_vars

\* A body gives the thread back: it ends, or it awaits.
EndTurn ==
  \E t \in Task : \/ Return(t)
                  \/ \E f \in Future : AwaitPending(t, f) \/ AwaitCancelled(t, f) \/ Yield(t, f)

(***************************************************************************)
(* The thread never stops between two statements of the runtime, no body   *)
(* keeps the thread for ever, and an I/O request or a timer that is due    *)
(* stays due until the loop serves it (level-triggered reactor, deadlines  *)
(* in the past, result queues), so every visit of a serving phase is a     *)
(* chance it cannot miss for ever.                                         *)
(***************************************************************************)
Fairness ==
  /\ WF_vars(Callback) /\ WF_vars(WakeOne)
  /\ WF_vars(EndTurn)
  /\ WF_vars(RunReady)
  /\ WF_vars(PollDone) /\ WF_vars(CheckExit) /\ WF_vars(WaitDone) /\ WF_vars(Shutdown)
  /\ \A e \in External : SF_vars(SettleExternal(e))

FairSpec == Spec /\ Fairness

-----------------------------------------------------------------------------
(* Safety *)

TypeOK ==
  /\ fstate \in [Future -> FutureStates]
  /\ waiters \in [Future -> Seq(Task)]
  /\ waking \in Seq(Task)
  /\ hook \in [Future -> Composed \cup {None}]
  /\ callback \in Composed \cup {None}
  /\ tstate \in [Task -> TaskStates]
  /\ cancelled \in [Task -> BOOLEAN]
  /\ awaiting \in [Task -> Future \cup {None}]
  /\ awaitSlot \in [Task -> Future \cup {None}]
  /\ runnable \in Seq(Task)
  /\ allTasks \in SUBSET Task
  /\ activeCount \in Int
  /\ current \in Task \cup {None}
  /\ phase \in Phases

\* No wakeup is lost: a suspended task is a waiter of the pending future it
\* awaits, or that future has settled and the task is in the list being woken.
\* (sn_task_await registers after it tests, settle detaches before it wakes.)
NoLostWakeup ==
  \A t \in Task : tstate[t] = "suspended" =>
    /\ awaiting[t] # None
    /\ IF fstate[awaiting[t]] = "pending"
       THEN t \in ToSet(waiters[awaiting[t]])
       ELSE t \in ToSet(waking)

\* No stale wakeup: whoever is in a waiter list is suspended on that very
\* future, once, and settled futures have no waiters; so a settle never queues
\* a task that is awaiting something else, runs, or was cancelled.
WaitersParked ==
  /\ \A f \in Future : IsInjective(waiters[f])
  /\ \A f \in Future : waiters[f] # <<>> => fstate[f] = "pending"
  /\ \A f \in Future : \A t \in ToSet(waiters[f]) : tstate[t] = "suspended" /\ awaiting[t] = f

\* The runnable queue holds each task at most once, only live ones, never the
\* running one; and a task the scheduler calls runnable is in it.
QueueSound ==
  /\ IsInjective(runnable)
  /\ \A t \in ToSet(runnable) :
       /\ t \in allTasks
       /\ tstate[t] = IF cancelled[t] THEN "cancelled" ELSE "runnable"
  /\ \A t \in Task : tstate[t] = "runnable" => t \in ToSet(runnable)

\* The tasks cancelled while suspended: in no queue and in no waiter list, so no
\* code will ever reach them, but still in all_tasks and in the count.
Abandoned ==
  {t \in allTasks : tstate[t] = "cancelled" /\ t \notin ToSet(runnable) /\ t # current}

\* active_count is the number of tasks in all_tasks.
CountExact == activeCount = Cardinality(allTasks)

\* active_count counts the tasks that will still be run or reaped (queued, current,
\* suspended) and the abandoned ones: the test of the event loop on the counter
\* speaks of these.
ActiveCountExact ==
  /\ CountExact
  /\ allTasks \ Abandoned \subseteq
       ToSet(runnable) \cup {current} \cup {t \in Task : tstate[t] = "suspended"}

\* A body that comes back from an await finds the future it awaited settled:
\* the code behind the await reads its value without another test.
ResumedSettled ==
  \A t \in Task : tstate[t] = "running" /\ phase = "body" /\ awaitSlot[t] # None
                     => Settled(awaitSlot[t])

\* When the loop has ended every task that was ever spawned is finished or
\* cancelled and its result future settled: nothing was dropped on the way.
ExitComplete ==
  phase \in {"exit", "stopped"} =>
    \A t \in Task : tstate[t] # "unborn" =>
      tstate[t] \in {"completed", "cancelled"} /\ Settled(t)

\* A future settles once: no later completion, failure or cancellation changes
\* what its waiters read (the test on SN_FUTURE_PENDING in settle).
SettleOnce == [][\A f \in Future : Settled(f) => fstate'[f] = fstate[f]]_vars

\* A task enters its body again only after the future it was suspended on has
\* settled, and a finished or cancelled task never does.
ResumeOnlySettled ==
  [][\A t \in Task : current # t /\ current' = t =>
       /\ ~cancelled[t] /\ tstate[t] = "runnable"
       /\ awaitSlot[t] # None => Settled(awaitSlot[t])]_vars

\* No step of the code reaches an abandoned task any more.
AbandonedHeld == [][Abandoned \subseteq Abandoned']_vars

(* What the invariants above rest on: the bookkeeping of one turn. *)

\* The list being woken holds suspended tasks whose future has settled.
WakingSound ==
  /\ IsInjective(waking)
  /\ \A t \in ToSet(waking) :
       tstate[t] = "suspended" /\ awaiting[t] # None /\ Settled(awaiting[t])

\* current is the one running task, and it has left the queue.
CurrentSound ==
  /\ \A t \in Task : tstate[t] = "running" => current = t
  /\ phase \notin {"body", "after"} => current = None
  /\ phase = "body" => current # None /\ tstate[current] = "running"
  /\ phase = "after" =>
       /\ current # None
       /\ tstate[current] \in {"running", "suspended", "runnable", "cancelled"}
       /\ tstate[current] = "running" => Settled(current)
       /\ tstate[current] = "cancelled" => current \notin ToSet(runnable)

\* The flags, the awaited future and the result future agree with the state.
TaskSound ==
  \A t \in Task :
    /\ tstate[t] = "unborn" => fstate[t] = "unborn" /\ ~cancelled[t] /\ awaitSlot[t] = None
    /\ tstate[t] # "unborn" => fstate[t] # "unborn"
    /\ tstate[t] \in {"completed", "cancelled"} => Settled(t)
    /\ cancelled[t] => Settled(t) /\ tstate[t] \notin {"suspended", "runnable"}
    /\ tstate[t] = "cancelled" => cancelled[t]
    /\ tstate[t] # "suspended" => awaiting[t] = None
    /\ tstate[t] = "suspended" => awaitSlot[t] = awaiting[t]
    /\ tstate[t] \in {"runnable", "running"} /\ awaitSlot[t] # None => Settled(awaitSlot[t])
    /\ tstate[t] \in {"runnable", "suspended"} => fstate[t] = "pending"
    /\ tstate[t] = "running" /\ phase = "body" => fstate[t] = "pending" \/ cancelled[t]

\* all_tasks holds the tasks that are neither unborn nor finished.
AllTasksSound ==
  /\ \A t \in allTasks : tstate[t] \notin {"unborn", "completed"}
  /\ phase \in {"body", "after"} => current \in allTasks
  /\ phase \notin {"exit", "stopped"} =>
       \A t \in Task : tstate[t] \in {"runnable", "running", "suspended"} => t \in allTasks
  /\ phase \in {"exit", "stopped"} =>
       /\ allTasks = {} /\ runnable = <<>> /\ Returned
       /\ \A t \in Task : tstate[t] \notin {"runnable", "running", "suspended"}

IndInv ==
  /\ TypeOK
  /\ NoLostWakeup /\ WaitersParked /\ WakingSound
  /\ QueueSound /\ CurrentSound
  /\ TaskSound /\ AllTasksSound /\ CountExact

-----------------------------------------------------------------------------
(* Liveness *)

\* The tasks of S wait for each other, or for compositions that have not settled.
Deadlocked(S) ==
  \A t \in S : /\ tstate[t] = "suspended" /\ fstate[awaiting[t]] = "pending"
               /\ awaiting[t] \in S \cup Composed

\* The loop of a program ends, unless from some time on a task that was cancelled
\* while it was suspended keeps it, or tasks that wait for each other or for an all or
\* a race that never settles, or tasks yield again and again.
LoopStops ==
  \/ <>(phase = "stopped")
  \/ <>[](Abandoned # {} \/ \E S \in SUBSET Task : S # {} /\ Deadlocked(S))
  \/ []<><<\E t \in Task, f \in Future : Yield(t, f)>>_vars

\* "Suspension instead returns control to the scheduler, so the peer task runs
\* to its own next suspension point" (MEMORY_MODEL.md:867): a task in the
\* runnable queue gets the thread.
RunnableRuns == \A t \in Task : tstate[t] = "runnable" ~> tstate[t] # "runnable"

\* "There is no separate async cancellation GC path beyond settling the future and
\* letting unreachable objects drop" (MEMORY_MODEL.md:878): a cancelled task leaves
\* all_tasks, the root that keeps it and its frame reachable.
CancelledDropped == \A t \in Task : cancelled[t] ~> t \notin allTasks

-----------------------------------------------------------------------------
(* The scheduler implements the contract of the runtime. *)

\* A suspended task waits, until the settle that concerns it has detached it
\* from its future; from then on it is ready, whatever the wake loop still does.
Waiting(t) == tstate[t] = "suspended" /\ t \notin ToSet(waking)

ContractState(t) ==
  CASE tstate[t] = "unborn" -> "unborn"
    [] tstate[t] \in {"completed", "cancelled"} -> "done"
    [] Waiting(t) -> "waiting"
    [] OTHER -> "ready"

WaitsFor(t) == IF Waiting(t) THEN awaiting[t] ELSE None

Contract == INSTANCE AsyncContract WITH
  External <- External \cup Composed,
  fut <- fstate,
  st  <- [t \in Task |-> ContractState(t)],
  on  <- [t \in Task |-> WaitsFor(t)]

\* Every step of futures, waiter lists, queue and loop is a step of the contract
\* or leaves it alone: in particular a settle readies all waiters at once.
ImplementsContract == Contract!Spec
=============================================================================
