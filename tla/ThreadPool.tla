----------------------------- MODULE ThreadPool -----------------------------
(***************************************************************************)
(* lsp::ThreadPool (src/lsp/threadpool.h, src/lsp/threadpool.cpp): a FIFO  *)
(* of tasks, worker threads that are created on demand and one condition   *)
(* variable, m_event, on which two different kinds of threads wait: idle   *)
(* workers (line 71 of threadpool.cpp) and callers of addTask that arrived *)
(* while the pool is being drained (line 48).                              *)
(*                                                                         *)
(* Every critical section of m_mutex is one action. What the code does     *)
(* outside of it is a step of its own: notify_one after unlock (line 56),  *)
(* notify_all (lines 28 and 40), joining the threads (line 30) and         *)
(* executing a task (line 83).                                             *)
(***************************************************************************)
EXTENDS Naturals, Sequences, FiniteSets

CONSTANTS
    Tasks,          \* identities of the tasks, each handed to addTask once
    Spawns,         \* Spawns[t]: the tasks that the code of t hands to addTask
    Adders,         \* threads outside of the pool that call addTask
    Workers,        \* identities for the std::threads of the pool
    initialThreads, \* constructor arguments, threadpool.cpp:5
    maxThreads,
    NoTask          \* a null TaskPtr

\* threadpool.cpp:6, m_maxThreads{std::max(maxThreads, 1u)}
m_maxThreads == IF maxThreads > 1 THEN maxThreads ELSE 1

\* The constructor starts initialThreads threads whatever m_maxThreads is;
\* addTask never adds one beyond m_maxThreads unless there is none at all.
Capacity == IF initialThreads > m_maxThreads THEN initialThreads ELSE m_maxThreads

ASSUME ThreadsAssumption ==
    /\ initialThreads \in Nat
    /\ maxThreads \in Nat
    /\ IsFiniteSet(Workers)
    /\ Cardinality(Workers) >= Capacity

ASSUME TasksAssumption ==
    /\ NoTask \notin Tasks
    /\ Spawns \in [Tasks -> SUBSET Tasks]
    /\ Adders \intersect Workers = {}

Callers == Adders \union Workers

\* Tasks that no other task submits; these come from the Adders.
Roots == {t \in Tasks : \A u \in Tasks : t \notin Spawns[u]}

VARIABLES
    m_waitForNewTasks,
    m_taskQueue,
    m_threads,      \* the workers that hold a std::thread
    wpc,            \* where each worker is in the loop of addThread
    wtask,          \* the local variable "task" of that loop
    cpc,            \* where each caller is in addTask
    ctask,          \* the argument of addTask
    opc,            \* where the owner is in waitUntilFinished
    status          \* the life of each task object

poolVars == <<m_waitForNewTasks, m_taskQueue, m_threads>>
workerVars == <<wpc, wtask>>
callerVars == <<cpc, ctask>>
vars == <<m_waitForNewTasks, m_taskQueue, m_threads, wpc, wtask, cpc, ctask, opc, status>>

WorkerPC == {"none", "loop", "wait", "run", "exited"}
CallerPC == {"idle", "enter", "blocked", "notify"}
OwnerPC  == {"idle", "notify", "join", "wake"}
Statuses == {"new", "calling", "queued", "running", "done"}

TypeOK ==
    /\ m_waitForNewTasks \in BOOLEAN
    /\ m_taskQueue \in Seq(Tasks)
    /\ m_threads \subseteq Workers
    /\ wpc \in [Workers -> WorkerPC]
    /\ wtask \in [Workers -> Tasks \union {NoTask}]
    /\ cpc \in [Callers -> CallerPC]
    /\ ctask \in [Callers -> Tasks \union {NoTask}]
    /\ opc \in OwnerPC
    /\ status \in [Tasks -> Statuses]

-----------------------------------------------------------------------------
(* The constructor. *)

Init ==
    /\ m_waitForNewTasks = TRUE
    /\ m_taskQueue = <<>>
    /\ m_threads \in SUBSET Workers
    /\ Cardinality(m_threads) = initialThreads
    /\ wpc = [w \in Workers |-> IF w \in m_threads THEN "loop" ELSE "none"]
    /\ wtask = [w \in Workers |-> NoTask]
    /\ cpc = [c \in Callers |-> "idle"]
    /\ ctask = [c \in Callers |-> NoTask]
    /\ opc = "idle"
    /\ status = [t \in Tasks |-> "new"]

-----------------------------------------------------------------------------
(* m_event. A thread that is woken competes for m_mutex again and then     *)
(* re-evaluates its predicate: a worker is back at the head of its         *)
(* critical section, a caller is back at the entry of addTask.             *)

WaitingWorkers == {w \in Workers : wpc[w] = "wait"}
BlockedCallers == {c \in Callers : cpc[c] = "blocked"}

WakeWorker(w) ==
    /\ wpc' = [wpc EXCEPT ![w] = "loop"]
    /\ UNCHANGED cpc

WakeAll ==
    /\ wpc' = [w \in Workers |-> IF wpc[w] = "wait" THEN "loop" ELSE wpc[w]]
    /\ cpc' = [c \in Callers |-> IF cpc[c] = "blocked" THEN "enter" ELSE cpc[c]]

\* The standard allows a wait to return without a notification.
SpuriousWakeup ==
    /\ \/ \E w \in WaitingWorkers : WakeWorker(w)
       \/ \E c \in BlockedCallers :
            /\ cpc' = [cpc EXCEPT ![c] = "enter"]
            /\ UNCHANGED wpc
    /\ UNCHANGED <<poolVars, wtask, ctask, opc, status>>

-----------------------------------------------------------------------------
(* addTask(TaskPtr), threadpool.cpp:43. *)

\* The caller is at the lock of line 45 with a task.
CallAddTask(c, t) ==
    /\ cpc[c] = "idle"
    /\ status[t] = "new"
    /\ cpc' = [cpc EXCEPT ![c] = "enter"]
    /\ ctask' = [ctask EXCEPT ![c] = t]
    /\ status' = [status EXCEPT ![t] = "calling"]
    /\ UNCHANGED <<poolVars, workerVars, opc>>

AdderCalls(a) == \E t \in Roots : CallAddTask(a, t)

\* The code of the task that w is executing calls addTask.
TaskCalls(w) ==
    /\ wpc[w] = "run"
    /\ \E t \in Spawns[wtask[w]] : CallAddTask(w, t)

\* Line 47, the pool is being drained: wait.
BlockAddTask(c) ==
    /\ cpc[c] = "enter"
    /\ ~m_waitForNewTasks
    /\ cpc' = [cpc EXCEPT ![c] = "blocked"]
    /\ UNCHANGED <<poolVars, workerVars, ctask, opc, status>>

\* Variant: a thread is only ever added to an empty pool.
NeedsThread_OnlyFirst(queue) == m_threads = {}

\* Line 52, evaluated after the task was pushed.
NeedsThread(queue) ==
    \/ Len(queue) > 1 /\ Cardinality(m_threads) < m_maxThreads
    \/ m_threads = {}

\* Lines 59 to 61: a new std::thread at the head of the worker's loop.
AddThread ==
    \E w \in Workers \ m_threads :
        /\ m_threads' = m_threads \union {w}
        /\ wpc' = [wpc EXCEPT ![w] = "loop"]

\* Variant: the pool does not look at m_waitForNewTasks before it pushes.
PushTask_NoWait(c) ==
    /\ cpc[c] = "enter"
    /\ m_taskQueue' = Append(m_taskQueue, ctask[c])
    /\ IF NeedsThread(m_taskQueue') THEN AddThread ELSE UNCHANGED <<m_threads, wpc>>
    /\ cpc' = [cpc EXCEPT ![c] = "notify"]
    /\ ctask' = [ctask EXCEPT ![c] = NoTask]
    /\ status' = [status EXCEPT ![ctask[c]] = "queued"]
    /\ UNCHANGED <<m_waitForNewTasks, wtask, opc>>

\* Variant: the pointer is pushed after it was moved from.
PushTask_MovedFrom(c) ==
    /\ cpc[c] = "enter"
    /\ m_waitForNewTasks
    /\ ctask' = [ctask EXCEPT ![c] = NoTask]
    /\ m_taskQueue' = Append(m_taskQueue, ctask'[c])
    /\ IF NeedsThread(m_taskQueue') THEN AddThread ELSE UNCHANGED <<m_threads, wpc>>
    /\ cpc' = [cpc EXCEPT ![c] = "notify"]
    /\ status' = [status EXCEPT ![ctask[c]] = "queued"]
    /\ UNCHANGED <<m_waitForNewTasks, wtask, opc>>

\* Lines 50 to 55.
PushTask(c) ==
    /\ cpc[c] = "enter"
    /\ m_waitForNewTasks
    /\ m_taskQueue' = Append(m_taskQueue, ctask[c])
    /\ IF NeedsThread(m_taskQueue') THEN AddThread ELSE UNCHANGED <<m_threads, wpc>>
    /\ cpc' = [cpc EXCEPT ![c] = "notify"]
    /\ ctask' = [ctask EXCEPT ![c] = NoTask]
    /\ status' = [status EXCEPT ![ctask[c]] = "queued"]
    /\ UNCHANGED <<m_waitForNewTasks, wtask, opc>>

\* Variant: a caller that is blocked in addTask is preferred to a worker, as if the
\* two kinds of waiting threads had a condition variable each and the code
\* signalled the wrong one.
NotifyOne_WrongEvent(c) ==
    /\ cpc[c] = "notify"
    /\ IF BlockedCallers = {}
       THEN cpc' = [cpc EXCEPT ![c] = "idle"]
       ELSE \E b \in BlockedCallers :
              cpc' = [cpc EXCEPT ![c] = "idle", ![b] = "enter"]
    /\ UNCHANGED <<poolVars, workerVars, ctask, opc, status>>

\* Line 56, after the unlock: one of the waiting threads, whichever it is.
NotifyOne(c) ==
    /\ cpc[c] = "notify"
    /\ \/ \E w \in WaitingWorkers :
            /\ wpc' = [wpc EXCEPT ![w] = "loop"]
            /\ cpc' = [cpc EXCEPT ![c] = "idle"]
       \/ \E b \in BlockedCallers :
            /\ cpc' = [cpc EXCEPT ![c] = "idle", ![b] = "enter"]
            /\ UNCHANGED wpc
       \/ /\ WaitingWorkers = {}
          /\ BlockedCallers = {}
          /\ cpc' = [cpc EXCEPT ![c] = "idle"]
          /\ UNCHANGED wpc
    /\ UNCHANGED <<poolVars, wtask, ctask, opc, status>>

-----------------------------------------------------------------------------
(* The loop of a worker thread, threadpool.cpp:63. *)

\* Line 71.
WorkerWaits(w) ==
    /\ wpc[w] = "loop"
    /\ m_waitForNewTasks
    /\ m_taskQueue = <<>>
    /\ wpc' = [wpc EXCEPT ![w] = "wait"]
    /\ UNCHANGED <<poolVars, wtask, callerVars, opc, status>>

\* Variant: the youngest task is taken.
TakeTask_Youngest(w) ==
    /\ wpc[w] = "loop"
    /\ m_taskQueue # <<>>
    /\ LET last == Len(m_taskQueue)
       IN  /\ wtask' = [wtask EXCEPT ![w] = m_taskQueue[last]]
           /\ m_taskQueue' = SubSeq(m_taskQueue, 1, last - 1)
           /\ status' = [status EXCEPT ![m_taskQueue[last]] = "running"]
    /\ wpc' = [wpc EXCEPT ![w] = "run"]
    /\ UNCHANGED <<m_waitForNewTasks, m_threads, callerVars, opc>>

\* Lines 73 to 77. A task is taken in a drain, too.
TakeTask(w) ==
    /\ wpc[w] = "loop"
    /\ m_taskQueue # <<>>
    /\ wtask' = [wtask EXCEPT ![w] = Head(m_taskQueue)]
    /\ m_taskQueue' = Tail(m_taskQueue)
    /\ wpc' = [wpc EXCEPT ![w] = "run"]
    /\ status' = [status EXCEPT ![Head(m_taskQueue)] = "running"]
    /\ UNCHANGED <<m_waitForNewTasks, m_threads, callerVars, opc>>

\* Variant: a worker that finds the pool closed exits at once.
WorkerExits_Abandon(w) ==
    /\ wpc[w] = "loop"
    /\ ~m_waitForNewTasks
    /\ wpc' = [wpc EXCEPT ![w] = "exited"]
    /\ UNCHANGED <<poolVars, wtask, callerVars, opc, status>>

\* Line 80.
WorkerExits(w) ==
    /\ wpc[w] = "loop"
    /\ ~m_waitForNewTasks
    /\ m_taskQueue = <<>>
    /\ wpc' = [wpc EXCEPT ![w] = "exited"]
    /\ UNCHANGED <<poolVars, wtask, callerVars, opc, status>>

\* Line 83 returns: the callback ran to its end and set the promise.
FinishTask(w) ==
    /\ wpc[w] = "run"
    /\ cpc[w] = "idle"
    /\ \A t \in Spawns[wtask[w]] : status[t] # "new"
    /\ wpc' = [wpc EXCEPT ![w] = "loop"]
    /\ wtask' = [wtask EXCEPT ![w] = NoTask]
    /\ status' = [status EXCEPT ![wtask[w]] = "done"]
    /\ UNCHANGED <<poolVars, callerVars, opc>>

-----------------------------------------------------------------------------
(* waitUntilFinished, threadpool.cpp:21, also the body of the destructor.  *)
(* One thread, the owner, calls it, any number of times.                   *)

\* Line 25.
CloseQueue ==
    /\ opc = "idle"
    /\ m_waitForNewTasks' = FALSE
    /\ opc' = "notify"
    /\ UNCHANGED <<m_taskQueue, m_threads, workerVars, callerVars, status>>

\* Variant: the notification of line 28 is missing.
NotifyAll_Missing ==
    /\ opc = "notify"
    /\ opc' = "join"
    /\ UNCHANGED <<poolVars, workerVars, callerVars, status>>

\* Line 28.
NotifyAll ==
    /\ opc = "notify"
    /\ opc' = "join"
    /\ WakeAll
    /\ UNCHANGED <<poolVars, wtask, ctask, status>>

\* Lines 30 to 37: the last join returns, then the second critical section.
JoinAndReopen ==
    /\ opc = "join"
    /\ \A w \in m_threads : wpc[w] = "exited"
    /\ m_threads' = {}
    /\ m_waitForNewTasks' = TRUE
    /\ wpc' = [w \in Workers |-> "none"]
    /\ opc' = "wake"
    /\ UNCHANGED <<m_taskQueue, wtask, callerVars, status>>

\* Variant: the notification of line 40 is missing.
NotifyReopened_Missing ==
    /\ opc = "wake"
    /\ opc' = "idle"
    /\ UNCHANGED <<poolVars, workerVars, callerVars, status>>

\* Line 40.
NotifyReopened ==
    /\ opc = "wake"
    /\ opc' = "idle"
    /\ WakeAll
    /\ UNCHANGED <<poolVars, wtask, ctask, status>>

-----------------------------------------------------------------------------
AddTaskStep(c) == BlockAddTask(c) \/ PushTask(c) \/ NotifyOne(c)

WorkerStep(w) == WorkerWaits(w) \/ TakeTask(w) \/ WorkerExits(w) \/ FinishTask(w)

WaitUntilFinishedStep == NotifyAll \/ JoinAndReopen \/ NotifyReopened

Next ==
    \/ \E a \in Adders : AdderCalls(a)
    \/ \E c \in Callers : AddTaskStep(c)
    \/ \E w \in Workers : WorkerStep(w) \/ TaskCalls(w)
    \/ CloseQueue
    \/ WaitUntilFinishedStep
    \/ SpuriousWakeup

Spec == Init /\ [][Next]_vars

\* A thread that can run is eventually scheduled and m_mutex starves nobody.
\* Nobody has to call addTask or waitUntilFinished, and nothing is assumed of
\* the choice that notify_one makes or of spurious wakeups. The code of a task
\* is assumed to make progress as long as the pool lets it.
Fairness ==
    /\ \A c \in Callers : WF_vars(AddTaskStep(c))
    /\ \A w \in Workers : WF_vars(WorkerStep(w)) /\ WF_vars(TaskCalls(w))
    /\ WF_vars(WaitUntilFinishedStep)

FairSpec == Spec /\ Fairness

-----------------------------------------------------------------------------
(* Properties. *)

\* The tasks that are being executed.
Executing == {wtask[w] : w \in {v \in Workers : wpc[v] = "run"}}

\* The pool does what TaskExecutor promises: tasks are accepted only while the pool
\* is not being drained, started in the order of their acceptance and run once,
\* and waitUntilFinished reopens the pool only when all of them were executed.
Executor == INSTANCE TaskExecutor WITH
    open <- m_waitForNewTasks,
    pending <- m_taskQueue,
    running <- Executing,
    finished <- {t \in Tasks : status[t] = "done"}

ImplementsExecutor == Executor!Spec

\* When the last join returns no task that was accepted is left behind, in the
\* queue or in a worker: what the destructor relies on (threadpool.cpp:16).
DrainedOnReturn ==
    [][opc = "join" /\ opc' # "join" =>
            /\ m_taskQueue = <<>>
            /\ \A t \in Tasks : status[t] \notin {"queued", "running"}]_vars

\* waitUntilFinished iterates over m_threads without the lock (threadpool.cpp:30):
\* from its first notification to the last join no call of addTask may change it.
ThreadsStableWhileJoining ==
    [][({opc, opc'} \subseteq {"notify", "join"}) => m_threads' = m_threads]_vars

\* notify_one may wake a blocked caller of addTask in place of an idle worker. Still
\* no task stays behind with every worker asleep: a notification is always on its
\* way, from a caller or from the owner, or a caller is about to push and notify.
NoLostWakeup ==
    m_taskQueue # <<>> /\ (\A w \in m_threads : wpc[w] = "wait") =>
        \/ opc = "notify"
        \/ \E c \in Callers : cpc[c] = "notify"
        \/ m_waitForNewTasks /\ \E c \in Callers : cpc[c] = "enter"

Idle == {w \in m_threads : wpc[w] \in {"loop", "wait"}}

\* As long as threads may be added, at most one of the queued tasks has no idle
\* worker to run it. (One may have none: the condition of line 52 leaves a single
\* queued task to the workers there are, even if all of them are busy.)
AtMostOneStalled ==
    Cardinality(m_threads) < m_maxThreads => Len(m_taskQueue) <= Cardinality(Idle) + 1

\* A task of the pool waits in addTask for the end of the drain that waits for it.
SelfBlocked == \E w \in Workers : wpc[w] = "run" /\ cpc[w] \in {"blocked", "enter"}

\* Every task that was accepted is executed, unless a task that calls addTask
\* itself is caught by a drain: that is the only way the pool gets stuck.
EveryTaskExecuted ==
    \A t \in Tasks : status[t] = "queued" ~> status[t] = "done" \/ (SelfBlocked /\ opc = "join")

\* waitUntilFinished returns, with the same exception.
WaitReturns == opc = "notify" ~> opc = "idle" \/ (SelfBlocked /\ opc = "join")

\* A caller of addTask that had to wait for the end of a drain gets its turn. The
\* owner has to stop draining for that, which is what the premise says.
AddTaskReturns ==
    <>[](opc = "idle") => \A a \in Adders : cpc[a] = "blocked" ~> cpc[a] = "idle"
=============================================================================
