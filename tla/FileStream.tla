------------------------------ MODULE FileStream ------------------------------
(***************************************************************************)
(* Asynchronous file streams (packages/runtime/src/posix/file_stream.c and *)
(* packages/std/src/fs/file_stream.sn): the loop thread posts jobs, worker *)
(* threads run them, and the loop thread polls their results and settles   *)
(* the futures.                                                            *)
(*                                                                         *)
(* A request is named after its future; an SnFile after the open request   *)
(* that made it, as is the open file the kernel holds for it.  A worker's  *)
(* step is one critical section, one read of the unprotected SnFile with   *)
(* the system call it guards, or one write to it.                          *)
(***************************************************************************)
EXTENDS Integers, FiniteSets, SequencesExt

CONSTANTS
  Op,        \* the requests the program can make
  KindOf,    \* what each of them asks for
  Worker,    \* the worker threads, SN_FILE_WORKERS of them
  FdLimit,   \* the descriptors are 1 .. FdLimit
  Chunks,    \* the pieces in which write(2) may take the bytes of one request
  MayFail,   \* the requests of which a system call may fail, whatever the state
  MayCancel, \* the requests whose future may be cancelled while they run
  OneAtATime,\* the program awaits each request on a file before the next one
  None       \* NULL, and -1 for a descriptor

Kinds == {"open", "read", "write", "close"}   \* a size request is a read of one piece
File == {o \in Op : KindOf[o] = "open"}
Fd == 1 .. FdLimit

ASSUME FileAssumption ==
  /\ IsFiniteSet(Op) /\ Worker # {}
  /\ KindOf \in [Op -> Kinds]
  /\ FdLimit \in Nat /\ Chunks \in Nat \ {0}
  /\ MayFail \subseteq Op /\ MayCancel \subseteq Op
  /\ OneAtATime \in BOOLEAN
  /\ None \notin Op \cup Fd

VARIABLES
  fut,      \* the state of the future of each request
  target,   \* FileJob.file
  queue,    \* file_queue: the newest job comes first
  results,  \* file_results: the newest result comes first
  ok,       \* FileResult.failed, negated
  openFd,   \* FileResult.open_fd
  job, pc,  \* what each worker runs, and where it is
  left,     \* the pieces it has still to write
  fd, shut, \* SnFile.fd and SnFile.closed
  sclosed,  \* FileStream.closed
  table,    \* the kernel's table: the open file behind each descriptor
  wake,     \* the eventfd of the reactor is readable
  loop,     \* where the loop thread is
  rank,     \* history: how many requests the stream had before this one
  io        \* history, per open file: the request of each read, of each piece written

streamVars == <<fut, target, sclosed>>
workerVars == <<job, pc, left>>
fileVars == <<fd, shut, table>>
vars == <<streamVars, queue, results, ok, openFd, workerVars, fileVars, wake, loop, rank, io>>

-----------------------------------------------------------------------------
(* The loop thread. *)

\* The requests on f that the program has not seen the end of.
Unfinished(f) == {o \in Op : target[o] = f /\ fut[o] = "pending"}

\* Mutant of Signal: the condition variable is not signalled.
SignalNobody == UNCHANGED pc

\* pthread_cond_signal: a worker that sleeps, if there is one, will look again.
Signal ==
  LET asleep == {w \in Worker : pc[w] = "sleep"}
  IN  IF asleep = {} THEN UNCHANGED pc
      ELSE \E w \in asleep : pc' = [pc EXCEPT ![w] = "check"]

\* enqueue_job
Enqueue(o) == queue' = <<o>> \o queue /\ Signal

\* sn_file_open; an empty path fails at once.
Open(o) ==
  /\ loop = "run" /\ fut[o] = "unborn" /\ KindOf[o] = "open"
  /\ \/ fut' = [fut EXCEPT ![o] = "pending"] /\ Enqueue(o)
     \/ o \in MayFail /\ fut' = [fut EXCEPT ![o] = "failed"] /\ UNCHANGED <<queue, pc>>
  /\ UNCHANGED <<target, sclosed, results, ok, openFd, job, left, fileVars, wake, loop, rank, io>>

\* sn_file_read, sn_file_write, sn_file_size and sn_file_close
Ask(o, f) ==
  /\ fut' = [fut EXCEPT ![o] = "pending"]
  /\ target' = [target EXCEPT ![o] = f]
  /\ Enqueue(o)

\* FileStream.read, write and the size of fileOpen, on a stream not closed.
\* FileStream.close marks the stream before it posts the job.
Request(o, f) ==
  /\ loop = "run" /\ fut[o] = "unborn" /\ KindOf[o] # "open"
  /\ fut[f] = "completed" /\ ~sclosed[f]
  /\ OneAtATime => Unfinished(f) = {}
  /\ Ask(o, f)
  /\ sclosed' = [sclosed EXCEPT ![f] = KindOf[o] = "close"]
  /\ rank' = [rank EXCEPT ![o] = Cardinality({p \in Op : target[p] = f})]
  /\ UNCHANGED <<results, ok, openFd, job, left, fileVars, wake, loop, io>>

\* sn_future_cancel on the future of a request: the job goes on.
Cancel(o) ==
  /\ loop = "run" /\ o \in MayCancel
  /\ fut[o] = "pending"
  /\ fut' = [fut EXCEPT ![o] = "cancelled"]
  /\ UNCHANGED <<target, sclosed, queue, results, ok, openFd, workerVars, fileVars, wake, loop, rank, io>>

\* Mutant of PollOne: the descriptor of a cancelled open is dropped.
PollOneLeaks ==
  /\ loop = "poll" /\ results # <<>>
  /\ results' = Tail(results)
  /\ LET o == Head(results) IN
       IF fut[o] # "pending" THEN UNCHANGED <<fut, fd, table>>
       ELSE /\ fut' = [fut EXCEPT ![o] = IF ok[o] THEN "completed" ELSE "failed"]
            /\ fd' = IF o \in File /\ ok[o] THEN [fd EXCEPT ![o] = openFd[o]] ELSE fd
            /\ UNCHANGED table
  /\ UNCHANGED <<target, sclosed, queue, ok, openFd, workerVars, shut, wake, loop, rank, io>>

\* Mutant of PollOne: the test of the future is the wrong way round for opens.
PollOneCloses ==
  /\ loop = "poll" /\ results # <<>>
  /\ results' = Tail(results)
  /\ LET o == Head(results) IN
       /\ fut' = IF fut[o] = "pending" THEN [fut EXCEPT ![o] = IF ok[o] THEN "completed" ELSE "failed"] ELSE fut
       /\ fd' = IF o \in File /\ ok[o] THEN [fd EXCEPT ![o] = openFd[o]] ELSE fd
       /\ table' = IF openFd[o] # None THEN [table EXCEPT ![openFd[o]] = None] ELSE table
  /\ UNCHANGED <<target, sclosed, queue, ok, openFd, workerVars, shut, wake, loop, rank, io>>

\* One iteration of sn_file_poll_results.
PollOne ==
  /\ loop = "poll" /\ results # <<>>
  /\ results' = Tail(results)
  /\ LET o == Head(results) IN
       IF fut[o] = "pending"
       THEN /\ fut' = [fut EXCEPT ![o] = IF ok[o] THEN "completed" ELSE "failed"]
            /\ fd' = IF o \in File /\ ok[o] THEN [fd EXCEPT ![o] = openFd[o]] ELSE fd
            /\ UNCHANGED table
       ELSE /\ table' = IF openFd[o] # None THEN [table EXCEPT ![openFd[o]] = None] ELSE table
            /\ UNCHANGED <<fut, fd>>
  /\ UNCHANGED <<target, sclosed, queue, ok, openFd, workerVars, shut, wake, loop, rank, io>>

\* The list is empty: on to the runnable tasks, which make the next requests.
PollDone ==
  /\ loop = "poll" /\ results = <<>>
  /\ loop' = "run"
  /\ UNCHANGED <<streamVars, queue, results, ok, openFd, workerVars, fileVars, wake, rank, io>>

\* Nothing is runnable: the loop thread goes to sleep in the reactor.
Block ==
  /\ loop = "run"
  /\ loop' = "wait"
  /\ UNCHANGED <<streamVars, queue, results, ok, openFd, workerVars, fileVars, wake, rank, io>>

\* epoll_wait reports the eventfd, wake_cb drains it, the results are polled.
WakeUp ==
  /\ loop = "wait" /\ wake
  /\ wake' = FALSE
  /\ loop' = "poll"
  /\ UNCHANGED <<streamVars, queue, results, ok, openFd, workerVars, fileVars, rank, io>>

\* epoll_wait returns for a timer or another descriptor.
WakeOtherwise ==
  /\ loop = "wait"
  /\ loop' = "poll"
  /\ UNCHANGED <<streamVars, queue, results, ok, openFd, workerVars, fileVars, wake, rank, io>>

-----------------------------------------------------------------------------
(* A worker, running file_worker_main and run_job. *)

Goto(w, place) == pc' = [pc EXCEPT ![w] = place]
Answer(w, good) == ok' = [ok EXCEPT ![job[w]] = good] /\ Goto(w, "post")

\* Mutant of Take: both the head and the job behind it leave the queue.
TakeTwo(w) ==
  /\ pc[w] = "check" /\ queue # <<>>
  /\ job' = [job EXCEPT ![w] = Head(queue)]
  /\ queue' = SubSeq(queue, 3, Len(queue))
  /\ Goto(w, "test")
  /\ UNCHANGED <<streamVars, results, ok, openFd, left, fileVars, wake, loop, rank, io>>

\* Mutant of Take: the job stays in the queue.
TakeKeeps(w) ==
  /\ pc[w] = "check" /\ queue # <<>>
  /\ job' = [job EXCEPT ![w] = Head(queue)]
  /\ Goto(w, "test")
  /\ UNCHANGED <<streamVars, queue, results, ok, openFd, left, fileVars, wake, loop, rank, io>>

\* The head of the list is the newest job.
Take(w) ==
  /\ pc[w] = "check" /\ queue # <<>>
  /\ job' = [job EXCEPT ![w] = Head(queue)]
  /\ queue' = Tail(queue)
  /\ Goto(w, "test")
  /\ UNCHANGED <<streamVars, results, ok, openFd, left, fileVars, wake, loop, rank, io>>

Sleep(w) ==
  /\ pc[w] = "check" /\ queue = <<>>
  /\ Goto(w, "sleep")
  /\ UNCHANGED <<streamVars, queue, results, ok, openFd, job, left, fileVars, wake, loop, rank, io>>

\* open(2) takes the lowest free descriptor, or fails.
OpenFile(w) ==
  /\ pc[w] = "test" /\ KindOf[job[w]] = "open"
  /\ \/ /\ \E n \in Fd : /\ table[n] = None /\ \A i \in 1 .. n - 1 : table[i] # None
                         /\ table' = [table EXCEPT ![n] = job[w]]
                         /\ openFd' = [openFd EXCEPT ![job[w]] = n]
        /\ Answer(w, TRUE)
     \/ /\ job[w] \in MayFail \/ \A n \in Fd : table[n] # None
        /\ Answer(w, FALSE) /\ UNCHANGED <<table, openFd>>
  /\ UNCHANGED <<streamVars, queue, results, job, left, fd, shut, wake, loop, rank, io>>

\* The test at the head of read, size and write: the stream is open.
TestOpen(w) ==
  /\ pc[w] = "test" /\ KindOf[job[w]] \in {"read", "write"}
  /\ LET f == target[job[w]] IN
       IF shut[f] \/ fd[f] = None THEN Answer(w, FALSE) /\ UNCHANGED left
       ELSE /\ Goto(w, "io") /\ UNCHANGED ok
            /\ left' = [left EXCEPT ![w] = IF KindOf[job[w]] = "write" THEN Chunks ELSE 1]
  /\ UNCHANGED <<streamVars, queue, results, openFd, job, fileVars, wake, loop, rank, io>>

\* The file behind the descriptor an SnFile holds now.
Behind(f) == IF fd[f] = None THEN None ELSE table[fd[f]]

\* Mutant of Transfer: a write that took only a piece is a success.
TransferShort(w) ==
  /\ pc[w] = "io" /\ KindOf[job[w]] \in {"read", "write"}
  /\ LET g == Behind(target[job[w]]) IN
       \/ /\ g # None
          /\ \E n \in 1 .. left[w] : io' = [io EXCEPT ![g] = @ \o [i \in 1 .. n |-> job[w]]]
          /\ left' = [left EXCEPT ![w] = 0]
          /\ Answer(w, TRUE)
       \/ /\ g = None \/ job[w] \in MayFail
          /\ Answer(w, FALSE) /\ UNCHANGED <<io, left>>
  /\ UNCHANGED <<streamVars, queue, results, openFd, job, fileVars, wake, loop, rank>>

\* read(2), fstat(2), or one turn of the loop around write(2), which takes one piece or
\* more.  The descriptor is read from the SnFile each time.  The call may fail.
Transfer(w) ==
  /\ pc[w] = "io" /\ KindOf[job[w]] \in {"read", "write"}
  /\ LET g == Behind(target[job[w]]) IN
       \/ /\ g # None
          /\ \E n \in 1 .. left[w] :
               /\ io' = [io EXCEPT ![g] = @ \o [i \in 1 .. n |-> job[w]]]
               /\ left' = [left EXCEPT ![w] = @ - n]
               /\ IF n = left[w] THEN Answer(w, TRUE) ELSE UNCHANGED <<ok, pc>>
       \/ /\ g = None \/ job[w] \in MayFail
          /\ Answer(w, FALSE) /\ UNCHANGED <<io, left>>
  /\ UNCHANGED <<streamVars, queue, results, openFd, job, fileVars, wake, loop, rank>>

\* close(2), when the SnFile is open
CloseFd(w) ==
  /\ pc[w] = "test" /\ KindOf[job[w]] = "close"
  /\ LET f == target[job[w]] IN
       IF shut[f] \/ fd[f] = None THEN Answer(w, TRUE) /\ UNCHANGED table
       ELSE /\ table' = [table EXCEPT ![fd[f]] = None]
            /\ Goto(w, "unset") /\ UNCHANGED ok
  /\ UNCHANGED <<streamVars, queue, results, openFd, job, left, fd, shut, wake, loop, rank, io>>

\* Mutant of Unset: the descriptor becomes 0, which is one.
UnsetZero(w) ==
  /\ pc[w] = "unset"
  /\ fd' = [fd EXCEPT ![target[job[w]]] = 0]
  /\ shut' = [shut EXCEPT ![target[job[w]]] = TRUE]
  /\ Answer(w, TRUE)
  /\ UNCHANGED <<streamVars, queue, results, openFd, job, left, table, wake, loop, rank, io>>

\* The two assignments behind it.
Unset(w) ==
  /\ pc[w] = "unset"
  /\ fd' = [fd EXCEPT ![target[job[w]]] = None]
  /\ shut' = [shut EXCEPT ![target[job[w]]] = TRUE]
  /\ Answer(w, TRUE)
  /\ UNCHANGED <<streamVars, queue, results, openFd, job, left, table, wake, loop, rank, io>>

\* enqueue_result, up to the unlock
Post(w) ==
  /\ pc[w] = "post"
  /\ results' = <<job[w]>> \o results
  /\ Goto(w, "wake")
  /\ UNCHANGED <<streamVars, queue, ok, openFd, job, left, fileVars, wake, loop, rank, io>>

\* Mutant of Wake: the loop thread is not told.
WakeNobody(w) ==
  /\ pc[w] = "wake"
  /\ job' = [job EXCEPT ![w] = None]
  /\ Goto(w, "check")
  /\ UNCHANGED <<streamVars, queue, results, ok, openFd, left, fileVars, wake, loop, rank, io>>

\* sn_reactor_wake, and back to the queue
Wake(w) ==
  /\ pc[w] = "wake"
  /\ wake' = TRUE
  /\ job' = [job EXCEPT ![w] = None]
  /\ Goto(w, "check")
  /\ UNCHANGED <<streamVars, queue, results, ok, openFd, left, fileVars, loop, rank, io>>

-----------------------------------------------------------------------------

Init ==
  /\ fut = [o \in Op |-> "unborn"]
  /\ target = [o \in Op |-> None]
  /\ queue = <<>> /\ results = <<>>
  /\ ok = [o \in Op |-> FALSE]
  /\ openFd = [o \in Op |-> None]
  /\ job = [w \in Worker |-> None]
  /\ pc = [w \in Worker |-> "check"]
  /\ left = [w \in Worker |-> 0]
  /\ fd = [f \in File |-> None]
  /\ shut = [f \in File |-> FALSE]
  /\ sclosed = [f \in File |-> FALSE]
  /\ table = [n \in Fd |-> None]
  /\ wake = FALSE
  /\ loop = "run"
  /\ rank = [o \in Op |-> 0]
  /\ io = [f \in File |-> <<>>]

Work(w) ==
  \/ Take(w) \/ Sleep(w)
  \/ OpenFile(w) \/ TestOpen(w) \/ Transfer(w) \/ CloseFd(w) \/ Unset(w)
  \/ Post(w) \/ Wake(w)

LoopThread ==
  \/ \E o \in Op : Open(o) \/ Cancel(o)
  \/ \E o \in Op, f \in File : Request(o, f)
  \/ PollOne \/ PollDone \/ Block \/ WakeUp \/ WakeOtherwise

Next == LoopThread \/ \E w \in Worker : Work(w)

Spec == Init /\ [][Next]_vars

\* The threads run; the loop thread does not stay in the bodies for ever.
FairSpec ==
  /\ Spec
  /\ \A w \in Worker : WF_vars(Work(w))
  /\ WF_vars(PollOne) /\ WF_vars(PollDone) /\ WF_vars(Block) /\ WF_vars(WakeUp)

-----------------------------------------------------------------------------

TypeOK ==
  /\ fut \in [Op -> {"unborn", "pending", "completed", "failed", "cancelled"}]
  /\ target \in [Op -> File \cup {None}]
  /\ queue \in Seq(Op) /\ results \in Seq(Op)
  /\ ok \in [Op -> BOOLEAN]
  /\ openFd \in [Op -> Fd \cup {None}]
  /\ job \in [Worker -> Op \cup {None}]
  /\ pc \in [Worker -> {"check", "sleep", "test", "io", "unset", "post", "wake"}]
  /\ left \in [Worker -> 0 .. Chunks]
  /\ fd \in [File -> Fd \cup {None}]
  /\ shut \in [File -> BOOLEAN] /\ sclosed \in [File -> BOOLEAN]
  /\ table \in [Fd -> File \cup {None}]
  /\ wake \in BOOLEAN
  /\ loop \in {"run", "poll", "wait"}
  /\ rank \in [Op -> Nat]
  /\ io \in [File -> Seq(Op)]

\* A request that was made is in one place until its future settles: the job
\* list, one worker, or the result list.
InFlight(o) ==
  \/ o \in ToSet(queue) \/ o \in ToSet(results)
  \/ \E w \in Worker : job[w] = o /\ pc[w] \notin {"check", "sleep", "wake"}
NothingLost == \A o \in Op : fut[o] = "pending" => InFlight(o)

\* Work never waits while all the workers sleep.
NotAllAsleep == queue # <<>> => \E w \in Worker : pc[w] # "sleep"

\* Bytes go to, and come from, the file of the request, also when descriptors
\* are closed and their numbers used again.
OwnFile == \A f \in File : \A i \in DOMAIN io[f] : target[io[f][i]] = f

\* The reads and writes of one file happen in the order in which the program
\* asked for them.
InOrder ==
  \A f \in File : \A i, j \in DOMAIN io[f] : i < j => rank[io[f][i]] <= rank[io[f][j]]

\* A write that succeeded has written all of its bytes, and none of them twice.
WriteWhole ==
  \A o \in Op : KindOf[o] = "write" /\ fut[o] = "completed" =>
    Cardinality({i \in DOMAIN io[target[o]] : io[target[o]][i] = o}) = Chunks

\* An open file belongs to a stream the program has, or to an open that is on
\* its way: no descriptor is lost, cancelled or not.
NoFdLeak ==
  \A n \in Fd : table[n] # None => fut[table[n]] = "completed" \/ InFlight(table[n])

\* Every request the program waits for is held by somebody who is awake.
JobsReachWorkers == NothingLost /\ NotAllAsleep

\* Reads and writes reach their own file in order and whole.
FilesIntact == InOrder /\ WriteWhole

\* Every open descriptor has its owner and is used for that owner alone.
DescriptorsOwned == OwnFile /\ NoFdLeak

\* Every request is answered.
Answered == \A o \in Op : fut[o] = "pending" ~> fut[o] # "pending"
=============================================================================
