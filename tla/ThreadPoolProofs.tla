-------------------------- MODULE ThreadPoolProofs --------------------------
(***************************************************************************)
(* Proofs about ThreadPool, for any number of tasks, callers and workers.  *)
(* IInv is the inductive invariant; its parts are the bookkeeping that     *)
(* ties a task's status to the place where the task is, and the facts      *)
(* about the drain on which the join loop of waitUntilFinished relies.     *)
(***************************************************************************)
EXTENDS ThreadPool, FiniteSetTheorems, SequenceTheorems, TLAPS

\* The pool refuses tasks exactly from the first critical section of
\* waitUntilFinished to the second.
GateInv == m_waitForNewTasks <=> opc \notin {"notify", "join"}

ThreadInv == \A w \in Workers : w \in m_threads <=> wpc[w] # "none"

\* A worker has a task exactly while it executes it, and no two the same.
WorkerTaskInv ==
    /\ \A w \in Workers : wpc[w] = "run" <=> wtask[w] \in Tasks
    /\ \A w \in Workers : wtask[w] \in Tasks => status[wtask[w]] = "running"
    /\ \A v, w \in Workers : wtask[v] = wtask[w] /\ wtask[v] \in Tasks => v = w
    /\ \A t \in Tasks : status[t] = "running" => \E w \in Workers : wtask[w] = t

QueueInv ==
    /\ \A i \in 1 .. Len(m_taskQueue) : status[m_taskQueue[i]] = "queued"
    /\ \A i, j \in 1 .. Len(m_taskQueue) : m_taskQueue[i] = m_taskQueue[j] => i = j
    /\ \A t \in Tasks : status[t] = "queued" =>
            \E i \in 1 .. Len(m_taskQueue) : m_taskQueue[i] = t

\* A caller has a task exactly until it has pushed it, and no two the same.
CallerInv ==
    /\ \A c \in Callers : cpc[c] \in {"enter", "blocked"} <=> ctask[c] \in Tasks
    /\ \A c \in Callers : ctask[c] \in Tasks => status[ctask[c]] = "calling"
    /\ \A c, d \in Callers : ctask[c] = ctask[d] /\ ctask[c] \in Tasks => c = d
    /\ \A c \in Callers : cpc[c] = "blocked" => ~m_waitForNewTasks \/ opc = "wake"

\* The life of the threads in a drain: none leaves before the queue is empty,
\* and none is asleep once the owner has notified all of them.
DrainInv ==
    /\ \A w \in Workers : wpc[w] = "exited" => ~m_waitForNewTasks /\ m_taskQueue = <<>>
    /\ m_taskQueue # <<>> => m_threads # {}
    /\ opc = "join" => \A w \in Workers : wpc[w] # "wait"

IInv ==
    /\ TypeOK
    /\ GateInv
    /\ ThreadInv
    /\ WorkerTaskInv
    /\ QueueInv
    /\ CallerInv
    /\ DrainInv
    /\ NoLostWakeup

-----------------------------------------------------------------------------
(* Initial states and steps. *)

\* The constructor establishes the invariant.
LEMMA InitInv == Init => IInv
BY ThreadsAssumption, TasksAssumption DEF Init, IInv, TypeOK, GateInv, ThreadInv, WorkerTaskInv,
   QueueInv, CallerInv, DrainInv, NoLostWakeup, Callers, WorkerPC, CallerPC, OwnerPC, Statuses

\* A call of addTask gives the caller a task that nobody else has.
LEMMA CallAddTaskInv ==
    ASSUME IInv, NEW c \in Callers, NEW t \in Tasks, CallAddTask(c, t)
    PROVE  IInv'
<1>1. TypeOK'
  BY TasksAssumption DEF IInv, TypeOK, CallAddTask, poolVars, workerVars, CallerPC, Statuses
<1>2. GateInv'
  BY DEF IInv, GateInv, CallAddTask, poolVars
<1>3. ThreadInv'
  BY DEF IInv, ThreadInv, CallAddTask, poolVars, workerVars
<1>4. WorkerTaskInv'
  BY DEF IInv, WorkerTaskInv, CallAddTask, workerVars
<1>5. QueueInv'
  BY DEF IInv, QueueInv, CallAddTask, poolVars
<1>6. CallerInv'
  BY DEF IInv, TypeOK, CallerInv, CallAddTask, poolVars
<1>7. DrainInv'
  BY DEF IInv, DrainInv, CallAddTask, poolVars, workerVars
<1>8. NoLostWakeup'
  BY DEF IInv, NoLostWakeup, CallAddTask, poolVars, workerVars
<1>. QED BY <1>1, <1>2, <1>3, <1>4, <1>5, <1>6, <1>7, <1>8 DEF IInv

\* A caller goes to sleep only while the pool is closed.
LEMMA BlockAddTaskInv ==
    ASSUME IInv, NEW c \in Callers, BlockAddTask(c)
    PROVE  IInv'
<1>1. TypeOK'
  BY DEF IInv, TypeOK, BlockAddTask, poolVars, workerVars, CallerPC
<1>2. GateInv'
  BY DEF IInv, GateInv, BlockAddTask, poolVars
<1>3. ThreadInv'
  BY DEF IInv, ThreadInv, BlockAddTask, poolVars, workerVars
<1>4. WorkerTaskInv'
  BY DEF IInv, WorkerTaskInv, BlockAddTask, workerVars
<1>5. QueueInv'
  BY DEF IInv, QueueInv, BlockAddTask, poolVars
<1>6. CallerInv'
  BY DEF IInv, CallerInv, BlockAddTask, poolVars
<1>7. DrainInv'
  BY DEF IInv, DrainInv, BlockAddTask, poolVars, workerVars
<1>8. NoLostWakeup'
  BY DEF IInv, NoLostWakeup, BlockAddTask, poolVars, workerVars
<1>. QED BY <1>1, <1>2, <1>3, <1>4, <1>5, <1>6, <1>7, <1>8 DEF IInv

\* A push moves the task from its caller to the queue; a first thread is added.
LEMMA PushTaskInv ==
    ASSUME IInv, NEW c \in Callers, PushTask(c)
    PROVE  IInv'
<1>1. TypeOK'
  <2>1. ctask[c] \in Tasks
    BY DEF IInv, CallerInv, PushTask
  <2>2. m_taskQueue' \in Seq(Tasks)
    BY <2>1, AppendProperties DEF IInv, TypeOK, PushTask
  <2>3. m_threads' \subseteq Workers /\ wpc' \in [Workers -> WorkerPC]
    <3>1. CASE NeedsThread(m_taskQueue')
      BY <3>1 DEF IInv, TypeOK, PushTask, AddThread, WorkerPC
    <3>2. CASE ~NeedsThread(m_taskQueue')
      BY <3>2 DEF IInv, TypeOK, PushTask
    <3>. QED BY <3>1, <3>2
  <2>4. cpc' \in [Callers -> CallerPC] /\ ctask' \in [Callers -> Tasks \union {NoTask}]
    BY DEF IInv, TypeOK, PushTask, CallerPC
  <2>5. status' \in [Tasks -> Statuses]
    BY <2>1 DEF IInv, TypeOK, PushTask, Statuses
  <2>. QED BY <2>2, <2>3, <2>4, <2>5 DEF IInv, TypeOK, PushTask
<1>2. GateInv'
  BY DEF IInv, GateInv, PushTask
<1>3. ThreadInv'
  BY DEF IInv, TypeOK, ThreadInv, PushTask, AddThread
<1>4. WorkerTaskInv'
  BY DEF IInv, TypeOK, ThreadInv, WorkerTaskInv, CallerInv, PushTask, AddThread
<1>5. QueueInv'
  BY DEF IInv, TypeOK, QueueInv, CallerInv, PushTask
<1>6. CallerInv'
  BY TasksAssumption DEF IInv, TypeOK, CallerInv, PushTask
<1>7. DrainInv'
  BY DEF IInv, TypeOK, DrainInv, PushTask, AddThread, NeedsThread
<1>8. NoLostWakeup'
  BY DEF NoLostWakeup, PushTask
<1>. QED BY <1>1, <1>2, <1>3, <1>4, <1>5, <1>6, <1>7, <1>8 DEF IInv

\* Whichever thread notify_one wakes, the caller that pushed is done with it.
LEMMA NotifyOneInv ==
    ASSUME IInv, NEW c \in Callers, NotifyOne(c)
    PROVE  IInv'
<1>1. TypeOK'
  BY DEF IInv, TypeOK, NotifyOne, poolVars, WorkerPC, CallerPC
<1>2. GateInv'
  BY DEF IInv, GateInv, NotifyOne, poolVars
<1>3. ThreadInv'
  BY DEF IInv, TypeOK, ThreadInv, NotifyOne, WaitingWorkers, poolVars
<1>4. WorkerTaskInv'
  BY DEF IInv, TypeOK, WorkerTaskInv, NotifyOne, WaitingWorkers
<1>5. QueueInv'
  BY DEF IInv, QueueInv, NotifyOne, poolVars
<1>6. CallerInv'
  BY DEF IInv, TypeOK, CallerInv, NotifyOne, BlockedCallers, poolVars, Callers
<1>7. DrainInv'
  BY DEF IInv, TypeOK, DrainInv, NotifyOne, poolVars
<1>8. NoLostWakeup'
  BY DEF IInv, TypeOK, GateInv, ThreadInv, DrainInv, NoLostWakeup, NotifyOne, WaitingWorkers,
     BlockedCallers, poolVars
<1>. QED BY <1>1, <1>2, <1>3, <1>4, <1>5, <1>6, <1>7, <1>8 DEF IInv

\* A worker goes to sleep only with an empty queue and an open pool.
LEMMA WorkerWaitsInv ==
    ASSUME IInv, NEW w \in Workers, WorkerWaits(w)
    PROVE  IInv'
<1>1. TypeOK'
  BY DEF IInv, TypeOK, WorkerWaits, poolVars, callerVars, WorkerPC
<1>2. GateInv'
  BY DEF IInv, GateInv, WorkerWaits, poolVars
<1>3. ThreadInv'
  BY DEF IInv, ThreadInv, WorkerWaits, poolVars
<1>4. WorkerTaskInv'
  BY DEF IInv, WorkerTaskInv, WorkerWaits
<1>5. QueueInv'
  BY DEF IInv, QueueInv, WorkerWaits, poolVars
<1>6. CallerInv'
  BY DEF IInv, CallerInv, WorkerWaits, callerVars
<1>7. DrainInv'
  BY DEF IInv, GateInv, DrainInv, WorkerWaits, poolVars
<1>8. NoLostWakeup'
  BY DEF NoLostWakeup, WorkerWaits, poolVars
<1>. QED BY <1>1, <1>2, <1>3, <1>4, <1>5, <1>6, <1>7, <1>8 DEF IInv

\* A worker takes the oldest task; the rest of the queue moves up by one.
LEMMA TakeTaskInv ==
    ASSUME IInv, NEW w \in Workers, TakeTask(w)
    PROVE  IInv'
<1>1. TypeOK'
  BY DEF IInv, TypeOK, TakeTask, callerVars, WorkerPC, Statuses
<1>2. GateInv'
  BY DEF IInv, GateInv, TakeTask
<1>3. ThreadInv'
  BY DEF IInv, ThreadInv, TakeTask
<1>4. WorkerTaskInv'
  BY DEF IInv, TypeOK, WorkerTaskInv, QueueInv, TakeTask
<1>5. QueueInv'
  <2>1. Len(m_taskQueue) \in Nat /\ m_taskQueue # <<>> /\ Len(m_taskQueue) > 0
    BY DEF IInv, TypeOK, TakeTask
  <2>2. /\ Len(m_taskQueue') = Len(m_taskQueue) - 1
        /\ \A i \in 1 .. Len(m_taskQueue') : m_taskQueue'[i] = m_taskQueue[i + 1]
    BY <2>1 DEF IInv, TypeOK, TakeTask
  <2>3. Head(m_taskQueue) = m_taskQueue[1] /\ Head(m_taskQueue) \in Tasks
    BY <2>1 DEF IInv, TypeOK
  <2>4. \A i \in 1 .. Len(m_taskQueue') : status'[m_taskQueue'[i]] = "queued"
    BY <2>1, <2>2, <2>3 DEF IInv, TypeOK, QueueInv, TakeTask
  <2>5. \A i, j \in 1 .. Len(m_taskQueue') : m_taskQueue'[i] = m_taskQueue'[j] => i = j
    BY <2>1, <2>2 DEF IInv, QueueInv
  <2>6. ASSUME NEW t \in Tasks, status'[t] = "queued"
        PROVE  \E i \in 1 .. Len(m_taskQueue') : m_taskQueue'[i] = t
    <3>1. PICK i \in 1 .. Len(m_taskQueue) : m_taskQueue[i] = t
      BY <2>6 DEF IInv, TypeOK, QueueInv, TakeTask
    <3>2. i # 1
      BY <2>3, <2>6, <3>1 DEF IInv, TypeOK, TakeTask
    <3>3. i - 1 \in 1 .. Len(m_taskQueue') /\ m_taskQueue'[i - 1] = t
      BY <2>1, <2>2, <3>1, <3>2
    <3>. QED BY <3>3
  <2>. QED BY <2>4, <2>5, <2>6 DEF QueueInv
<1>6. CallerInv'
  BY DEF IInv, QueueInv, CallerInv, TakeTask, callerVars
<1>7. DrainInv'
  BY DEF IInv, DrainInv, TakeTask
<1>8. NoLostWakeup'
  BY DEF IInv, NoLostWakeup, TakeTask, callerVars
<1>. QED BY <1>1, <1>2, <1>3, <1>4, <1>5, <1>6, <1>7, <1>8 DEF IInv

\* A worker leaves only with an empty queue and a closed pool.
LEMMA WorkerExitsInv ==
    ASSUME IInv, NEW w \in Workers, WorkerExits(w)
    PROVE  IInv'
<1>1. TypeOK'
  BY DEF IInv, TypeOK, WorkerExits, poolVars, callerVars, WorkerPC
<1>2. GateInv'
  BY DEF IInv, GateInv, WorkerExits, poolVars
<1>3. ThreadInv'
  BY DEF IInv, ThreadInv, WorkerExits, poolVars
<1>4. WorkerTaskInv'
  BY DEF IInv, WorkerTaskInv, WorkerExits
<1>5. QueueInv'
  BY DEF IInv, QueueInv, WorkerExits, poolVars
<1>6. CallerInv'
  BY DEF IInv, CallerInv, WorkerExits, poolVars, callerVars
<1>7. DrainInv'
  BY DEF IInv, DrainInv, WorkerExits, poolVars
<1>8. NoLostWakeup'
  BY DEF NoLostWakeup, WorkerExits, poolVars
<1>. QED BY <1>1, <1>2, <1>3, <1>4, <1>5, <1>6, <1>7, <1>8 DEF IInv

\* A worker whose task has run is back in its loop without a task.
LEMMA FinishTaskInv ==
    ASSUME IInv, NEW w \in Workers, FinishTask(w)
    PROVE  IInv'
<1>1. TypeOK'
  BY DEF IInv, TypeOK, WorkerTaskInv, FinishTask, poolVars, callerVars, WorkerPC, Statuses
<1>2. GateInv'
  BY DEF IInv, GateInv, FinishTask, poolVars
<1>3. ThreadInv'
  BY DEF IInv, ThreadInv, FinishTask, poolVars
<1>4. WorkerTaskInv'
  BY DEF IInv, TypeOK, WorkerTaskInv, CallerInv, FinishTask, Callers
<1>5. QueueInv'
  BY DEF IInv, WorkerTaskInv, QueueInv, FinishTask, poolVars
<1>6. CallerInv'
  BY DEF IInv, WorkerTaskInv, CallerInv, FinishTask, poolVars, callerVars
<1>7. DrainInv'
  BY DEF IInv, DrainInv, FinishTask, poolVars
<1>8. NoLostWakeup'
  BY DEF IInv, NoLostWakeup, FinishTask, poolVars, callerVars
<1>. QED BY <1>1, <1>2, <1>3, <1>4, <1>5, <1>6, <1>7, <1>8 DEF IInv

\* The first critical section of waitUntilFinished.
LEMMA CloseQueueInv ==
    ASSUME IInv, CloseQueue
    PROVE  IInv'
<1>1. TypeOK'
  BY DEF IInv, TypeOK, CloseQueue, workerVars, callerVars, OwnerPC
<1>2. GateInv'
  BY DEF GateInv, CloseQueue
<1>3. ThreadInv'
  BY DEF IInv, ThreadInv, CloseQueue, workerVars
<1>4. WorkerTaskInv'
  BY DEF IInv, WorkerTaskInv, CloseQueue, workerVars
<1>5. QueueInv'
  BY DEF IInv, QueueInv, CloseQueue
<1>6. CallerInv'
  BY DEF IInv, CallerInv, CloseQueue, callerVars
<1>7. DrainInv'
  BY DEF IInv, DrainInv, CloseQueue, workerVars
<1>8. NoLostWakeup'
  BY DEF NoLostWakeup, CloseQueue
<1>. QED BY <1>1, <1>2, <1>3, <1>4, <1>5, <1>6, <1>7, <1>8 DEF IInv

\* After the first notification of the owner no worker sleeps.
LEMMA NotifyAllInv ==
    ASSUME IInv, NotifyAll
    PROVE  IInv'
<1>1. TypeOK'
  BY DEF IInv, TypeOK, NotifyAll, WakeAll, poolVars, WorkerPC, CallerPC, OwnerPC
<1>2. GateInv'
  BY DEF IInv, GateInv, NotifyAll, poolVars
<1>3. ThreadInv'
  BY DEF IInv, ThreadInv, NotifyAll, WakeAll, poolVars
<1>4. WorkerTaskInv'
  BY DEF IInv, WorkerTaskInv, NotifyAll, WakeAll
<1>5. QueueInv'
  BY DEF IInv, QueueInv, NotifyAll, poolVars
<1>6. CallerInv'
  BY DEF IInv, CallerInv, NotifyAll, WakeAll
<1>7. DrainInv'
  BY DEF IInv, DrainInv, NotifyAll, WakeAll, poolVars
<1>8. NoLostWakeup'
  BY DEF IInv, TypeOK, ThreadInv, DrainInv, NoLostWakeup, NotifyAll, WakeAll, poolVars
<1>. QED BY <1>1, <1>2, <1>3, <1>4, <1>5, <1>6, <1>7, <1>8 DEF IInv

\* After the last join no task is left, so the pool opens without threads.
LEMMA JoinAndReopenInv ==
    ASSUME IInv, JoinAndReopen
    PROVE  IInv'
<1>1. TypeOK'
  BY DEF IInv, TypeOK, JoinAndReopen, callerVars, WorkerPC, OwnerPC
<1>2. GateInv'
  BY DEF GateInv, JoinAndReopen
<1>3. ThreadInv'
  BY DEF ThreadInv, JoinAndReopen
<1>4. WorkerTaskInv'
  BY DEF IInv, ThreadInv, WorkerTaskInv, JoinAndReopen
<1>5. QueueInv'
  BY DEF IInv, QueueInv, JoinAndReopen
<1>6. CallerInv'
  BY DEF IInv, CallerInv, JoinAndReopen, callerVars
<1>7. DrainInv'
  BY DEF IInv, TypeOK, DrainInv, JoinAndReopen
<1>8. NoLostWakeup'
  BY DEF IInv, TypeOK, DrainInv, NoLostWakeup, JoinAndReopen
<1>. QED BY <1>1, <1>2, <1>3, <1>4, <1>5, <1>6, <1>7, <1>8 DEF IInv

\* After the second notification no caller of addTask sleeps.
LEMMA NotifyReopenedInv ==
    ASSUME IInv, NotifyReopened
    PROVE  IInv'
<1>1. TypeOK'
  BY DEF IInv, TypeOK, NotifyReopened, WakeAll, poolVars, WorkerPC, CallerPC, OwnerPC
<1>2. GateInv'
  BY DEF IInv, GateInv, NotifyReopened, poolVars
<1>3. ThreadInv'
  BY DEF IInv, ThreadInv, NotifyReopened, WakeAll, poolVars
<1>4. WorkerTaskInv'
  BY DEF IInv, WorkerTaskInv, NotifyReopened, WakeAll
<1>5. QueueInv'
  BY DEF IInv, QueueInv, NotifyReopened, poolVars
<1>6. CallerInv'
  BY DEF IInv, CallerInv, NotifyReopened, WakeAll
<1>7. DrainInv'
  BY DEF IInv, DrainInv, NotifyReopened, WakeAll, poolVars
<1>8. NoLostWakeup'
  BY DEF IInv, TypeOK, ThreadInv, DrainInv, NoLostWakeup, NotifyReopened, WakeAll, poolVars
<1>. QED BY <1>1, <1>2, <1>3, <1>4, <1>5, <1>6, <1>7, <1>8 DEF IInv

\* A thread that wakes up without reason goes to sleep again or finds work.
LEMMA SpuriousWakeupInv ==
    ASSUME IInv, SpuriousWakeup
    PROVE  IInv'
<1>1. TypeOK'
  BY DEF IInv, TypeOK, SpuriousWakeup, WakeWorker, poolVars, WorkerPC, CallerPC
<1>2. GateInv'
  BY DEF IInv, GateInv, SpuriousWakeup, poolVars
<1>3. ThreadInv'
  BY DEF IInv, TypeOK, ThreadInv, SpuriousWakeup, WakeWorker, WaitingWorkers, poolVars
<1>4. WorkerTaskInv'
  BY DEF IInv, TypeOK, WorkerTaskInv, SpuriousWakeup, WakeWorker, WaitingWorkers
<1>5. QueueInv'
  BY DEF IInv, QueueInv, SpuriousWakeup, poolVars
<1>6. CallerInv'
  BY DEF IInv, TypeOK, CallerInv, SpuriousWakeup, WakeWorker, BlockedCallers, poolVars
<1>7. DrainInv'
  BY DEF IInv, TypeOK, DrainInv, SpuriousWakeup, WakeWorker, poolVars
<1>8. NoLostWakeup'
  BY DEF IInv, TypeOK, NoLostWakeup, SpuriousWakeup, WakeWorker, BlockedCallers, poolVars
<1>. QED BY <1>1, <1>2, <1>3, <1>4, <1>5, <1>6, <1>7, <1>8 DEF IInv

\* The invariant only looks at the variables.
LEMMA StutterInv ==
    ASSUME IInv, UNCHANGED vars
    PROVE  IInv'
BY DEF vars, IInv, TypeOK, GateInv, ThreadInv, WorkerTaskInv, QueueInv, CallerInv, DrainInv,
   NoLostWakeup

\* Every step keeps the invariant.
LEMMA NextInv == IInv /\ [Next]_vars => IInv'
<1>. SUFFICES ASSUME IInv, [Next]_vars PROVE IInv'
  OBVIOUS
<1>1. CASE \E a \in Adders : AdderCalls(a)
  BY <1>1, CallAddTaskInv DEF AdderCalls, Roots, Callers
<1>2. CASE \E c \in Callers : AddTaskStep(c)
  BY <1>2, BlockAddTaskInv, PushTaskInv, NotifyOneInv DEF AddTaskStep
<1>3. CASE \E w \in Workers : WorkerStep(w)
  BY <1>3, WorkerWaitsInv, TakeTaskInv, WorkerExitsInv, FinishTaskInv DEF WorkerStep
<1>4. CASE \E w \in Workers : TaskCalls(w)
  <2>1. PICK w \in Workers : TaskCalls(w)
    BY <1>4
  <2>2. wtask[w] \in Tasks
    BY <2>1 DEF TaskCalls, IInv, WorkerTaskInv
  <2>3. PICK t \in Spawns[wtask[w]] : CallAddTask(w, t)
    BY <2>1 DEF TaskCalls
  <2>4. t \in Tasks /\ w \in Callers
    BY <2>2, <2>3, TasksAssumption DEF Callers
  <2>. QED BY <2>3, <2>4, CallAddTaskInv
<1>5. CASE CloseQueue
  BY <1>5, CloseQueueInv
<1>6. CASE WaitUntilFinishedStep
  BY <1>6, NotifyAllInv, JoinAndReopenInv, NotifyReopenedInv DEF WaitUntilFinishedStep
<1>7. CASE SpuriousWakeup
  BY <1>7, SpuriousWakeupInv
<1>8. CASE UNCHANGED vars
  BY <1>8, StutterInv
<1>. QED BY <1>1, <1>2, <1>3, <1>4, <1>5, <1>6, <1>7, <1>8 DEF Next

-----------------------------------------------------------------------------
(* The theorems. *)

\* The inductive invariant holds in every reachable state.
THEOREM Invariance == Spec => []IInv
BY InitInv, NextInv, PTL DEF Spec

\* Every variable keeps its type; in particular a worker that runs a task and a
\* caller that is about to push one have it.
THEOREM TypeCorrect == Spec => []TypeOK
<1>1. IInv => TypeOK
  BY DEF IInv
<1>. QED BY <1>1, Invariance, PTL

\* No notification is lost, whichever waiting thread notify_one picks.
THEOREM WakeupsAreNotLost == Spec => []NoLostWakeup
<1>1. IInv => NoLostWakeup
  BY DEF IInv
<1>. QED BY <1>1, Invariance, PTL

\* The threads that waitUntilFinished joins without the lock are not touched by
\* addTask meanwhile.
THEOREM JoinIsNotRaced == Spec => ThreadsStableWhileJoining
<1>1. IInv /\ [Next]_vars => [({opc, opc'} \subseteq {"notify", "join"}) => m_threads' = m_threads]_vars
  <2>. SUFFICES ASSUME IInv, Next, opc \in {"notify", "join"}, opc' \in {"notify", "join"}
                PROVE  m_threads' = m_threads
    OBVIOUS
  <2>1. ~m_waitForNewTasks
    BY DEF IInv, GateInv
  <2>. QED BY <2>1 DEF Next, AdderCalls, CallAddTask, AddTaskStep, BlockAddTask, PushTask,
     NotifyOne, WorkerStep, WorkerWaits, TakeTask, WorkerExits, FinishTask, TaskCalls,
     CloseQueue, WaitUntilFinishedStep, NotifyAll, JoinAndReopen, NotifyReopened,
     SpuriousWakeup, poolVars
<1>. QED BY <1>1, Invariance, PTL DEF Spec, ThreadsStableWhileJoining

\* At the end of a drain every accepted task was executed.
LEMMA JoinDrains ==
    ASSUME IInv, JoinAndReopen
    PROVE  /\ m_taskQueue = <<>>
           /\ \A t \in Tasks : status[t] \notin {"queued", "running"}
<1>1. m_taskQueue = <<>>
  BY DEF IInv, TypeOK, DrainInv, JoinAndReopen
<1>2. \A t \in Tasks : status[t] # "queued"
  BY <1>1 DEF IInv, QueueInv
<1>3. \A t \in Tasks : status[t] # "running"
  BY DEF IInv, WorkerTaskInv, ThreadInv, JoinAndReopen
<1>. QED BY <1>1, <1>2, <1>3

\* waitUntilFinished, and with it the destructor, leaves no accepted task behind.
THEOREM DrainIsComplete == Spec => DrainedOnReturn
<1>1. IInv /\ [Next]_vars =>
        [opc = "join" /\ opc' # "join" =>
            /\ m_taskQueue = <<>>
            /\ \A t \in Tasks : status[t] \notin {"queued", "running"}]_vars
  <2>. SUFFICES ASSUME IInv, Next, opc = "join", opc' # "join"
                PROVE  JoinAndReopen
    BY JoinDrains
  <2>. QED BY DEF Next, AdderCalls, CallAddTask, AddTaskStep, BlockAddTask, PushTask, NotifyOne,
     WorkerStep, WorkerWaits, TakeTask, WorkerExits, FinishTask, TaskCalls, CloseQueue,
     WaitUntilFinishedStep, NotifyAll, NotifyReopened, SpuriousWakeup
<1>. QED BY <1>1, Invariance, PTL DEF Spec, DrainedOnReturn

-----------------------------------------------------------------------------
(* The pool implements TaskExecutor. *)

\* Each step of the pool is a step of the executor or leaves it alone.
LEMMA StepSimulation == IInv /\ IInv' /\ [Next]_vars => [Executor!Next]_(Executor!vars)
<1>. SUFFICES ASSUME IInv, IInv', [Next]_vars
              PROVE  [Executor!Next]_(Executor!vars)
  OBVIOUS
<1>. DEFINE Finished == {t \in Tasks : status[t] = "done"}
<1>1. /\ Executing = {t \in Tasks : status[t] = "running"}
      /\ Executing' = {t \in Tasks : status'[t] = "running"}
  BY DEF IInv, TypeOK, WorkerTaskInv, Executing
<1>2. ASSUME UNCHANGED <<m_waitForNewTasks, m_taskQueue>>, Executing' = Executing, Finished' = Finished
      PROVE  UNCHANGED Executor!vars
  <2>1. {t \in Tasks : status[t] = "done"}' = {t \in Tasks : status[t] = "done"}
    BY <1>2
  <2>. QED BY <1>2, <2>1 DEF Executor!vars
<1>3. ASSUME UNCHANGED <<m_waitForNewTasks, m_taskQueue, status>>
      PROVE  UNCHANGED Executor!vars
  BY <1>1, <1>2, <1>3
<1>4. ASSUME NEW c \in Callers, NEW t \in Tasks, CallAddTask(c, t)
      PROVE  UNCHANGED Executor!vars
  BY <1>1, <1>2, <1>4 DEF CallAddTask, poolVars, IInv, TypeOK
<1>5. ASSUME NEW c \in Callers, PushTask(c)
      PROVE  Executor!Submit(ctask[c])
  <2>1. ctask[c] \in Tasks /\ status[ctask[c]] = "calling"
    BY <1>5 DEF PushTask, IInv, CallerInv
  <2>2. ctask[c] \notin Executor!Accepted
    BY <1>1, <2>1, SMTT(30) DEF Executor!Accepted, IInv, TypeOK, QueueInv
  <2>3. Executing' = Executing /\ Finished' = Finished
    BY <1>1, <1>5, <2>1 DEF PushTask, IInv, TypeOK
  <2>. QED BY <1>5, <2>2, <2>3 DEF PushTask, Executor!Submit
<1>6. ASSUME NEW w \in Workers, TakeTask(w)
      PROVE  Executor!Start
  <2>1. /\ Head(m_taskQueue) \in Tasks
        /\ status[Head(m_taskQueue)] = "queued"
    BY <1>6 DEF TakeTask, IInv, TypeOK, QueueInv
  <2>2. Executing' = Executing \union {Head(m_taskQueue)} /\ Finished' = Finished
    BY <1>1, <1>6, <2>1 DEF TakeTask, IInv, TypeOK
  <2>. QED BY <1>6, <2>2 DEF TakeTask, Executor!Start
<1>7. ASSUME NEW w \in Workers, FinishTask(w)
      PROVE  \E t \in Tasks : Executor!Finish(t)
  <2>1. wtask[w] \in Tasks
    BY <1>7 DEF FinishTask, IInv, WorkerTaskInv
  <2>2. PICK t \in Tasks : wtask[w] = t /\ status[t] = "running"
    BY <2>1 DEF IInv, WorkerTaskInv
  <2>3. Executing' = Executing \ {t} /\ Finished' = Finished \union {t}
    BY <1>1, <1>7, <2>2 DEF FinishTask, IInv, TypeOK
  <2>4. Executor!Finish(t)
    BY <1>1, <1>7, <2>2, <2>3 DEF FinishTask, Executor!Finish, poolVars
  <2>. QED BY <2>4
<1>8. ASSUME CloseQueue
      PROVE  Executor!Close
  <2>1. m_waitForNewTasks
    BY <1>8 DEF CloseQueue, IInv, GateInv
  <2>2. Executing' = Executing /\ Finished' = Finished
    BY <1>1, <1>8 DEF CloseQueue
  <2>. QED BY <1>8, <2>1, <2>2 DEF CloseQueue, Executor!Close
<1>9. ASSUME JoinAndReopen
      PROVE  Executor!Reopen
  <2>1. m_taskQueue = <<>> /\ Executing = {}
    BY <1>1, <1>9, JoinDrains
  <2>2. Executing' = Executing /\ Finished' = Finished
    BY <1>1, <1>9 DEF JoinAndReopen
  <2>3. ~m_waitForNewTasks
    BY <1>9 DEF JoinAndReopen, IInv, GateInv
  <2>. QED BY <1>9, <2>1, <2>2, <2>3 DEF JoinAndReopen, Executor!Reopen
<1>10. CASE \E a \in Adders : AdderCalls(a)
  BY <1>4, <1>10 DEF AdderCalls, Roots, Callers
<1>11. CASE \E c \in Callers : AddTaskStep(c)
  <2>1. PICK c \in Callers : AddTaskStep(c)
    BY <1>11
  <2>2. CASE PushTask(c)
    <3>1. ctask[c] \in Tasks
      BY <2>2 DEF PushTask, IInv, CallerInv
    <3>2. Executor!Submit(ctask[c])
      BY <1>5, <2>2
    <3>. QED BY <3>1, <3>2 DEF Executor!Next
  <2>3. CASE BlockAddTask(c) \/ NotifyOne(c)
    BY <1>3, <2>3 DEF BlockAddTask, NotifyOne, poolVars
  <2>. QED BY <2>1, <2>2, <2>3 DEF AddTaskStep
<1>12. CASE \E w \in Workers : WorkerStep(w)
  <2>1. PICK w \in Workers : WorkerStep(w)
    BY <1>12
  <2>2. CASE TakeTask(w)
    BY <1>6, <2>2 DEF Executor!Next
  <2>3. CASE FinishTask(w)
    BY <1>7, <2>3 DEF Executor!Next
  <2>4. CASE WorkerWaits(w) \/ WorkerExits(w)
    BY <1>3, <2>4 DEF WorkerWaits, WorkerExits, poolVars
  <2>. QED BY <2>1, <2>2, <2>3, <2>4 DEF WorkerStep
<1>13. CASE \E w \in Workers : TaskCalls(w)
  <2>1. PICK w \in Workers : TaskCalls(w)
    BY <1>13
  <2>2. wtask[w] \in Tasks
    BY <2>1 DEF TaskCalls, IInv, WorkerTaskInv
  <2>3. PICK t \in Spawns[wtask[w]] : CallAddTask(w, t)
    BY <2>1 DEF TaskCalls
  <2>4. t \in Tasks /\ w \in Callers
    BY <2>2, <2>3, TasksAssumption DEF Callers
  <2>. QED BY <1>4, <2>3, <2>4
<1>14. CASE CloseQueue
  BY <1>8, <1>14 DEF Executor!Next
<1>15. CASE WaitUntilFinishedStep
  <2>1. CASE JoinAndReopen
    BY <1>9, <2>1 DEF Executor!Next
  <2>2. CASE NotifyAll \/ NotifyReopened
    BY <1>3, <2>2 DEF NotifyAll, NotifyReopened, poolVars
  <2>. QED BY <1>15, <2>1, <2>2 DEF WaitUntilFinishedStep
<1>16. CASE SpuriousWakeup
  BY <1>3, <1>16 DEF SpuriousWakeup, poolVars
<1>17. CASE UNCHANGED vars
  BY <1>3, <1>17 DEF vars
<1>. QED BY <1>10, <1>11, <1>12, <1>13, <1>14, <1>15, <1>16, <1>17 DEF Next

\* The pool implements the executor: every behaviour of the threads, the queue and
\* the condition variable is one of accepting, starting in order, finishing,
\* closing and reopening after a complete drain.
THEOREM Refinement == Spec => ImplementsExecutor
<1>1. Init => Executor!Init
  BY DEF Init, Executor!Init, Executing
<1>. QED BY <1>1, Invariance, StepSimulation, PTL DEF Spec, ImplementsExecutor, Executor!Spec

-----------------------------------------------------------------------------
(* Queued tasks and idle workers. *)

\* There are finitely many idle workers.
LEMMA IdleIsFinite ==
    ASSUME IInv
    PROVE  IsFiniteSet(Idle) /\ Cardinality(Idle) \in Nat
BY FS_Subset, FS_CardinalityType, ThreadsAssumption DEF Idle, IInv, TypeOK

\* What a push does to the balance: a second queued task brings a new, idle worker.
LEMMA PushKeepsBalance ==
    ASSUME IInv, IInv', AtMostOneStalled, NEW c \in Callers, PushTask(c)
    PROVE  AtMostOneStalled'
<1>. DEFINE n == Len(m_taskQueue)
<1>1. n \in Nat /\ Len(m_taskQueue') = n + 1
  BY AppendProperties DEF IInv, TypeOK, CallerInv, PushTask
<1>2. IsFiniteSet(Idle) /\ Cardinality(Idle) \in Nat
  BY IdleIsFinite
<1>3. m_maxThreads \in Nat /\ m_maxThreads > 0
  BY ThreadsAssumption DEF m_maxThreads
<1>4. IsFiniteSet(m_threads) /\ Cardinality(m_threads) \in Nat
  BY FS_Subset, FS_CardinalityType, ThreadsAssumption DEF IInv, TypeOK
<1>5. CASE NeedsThread(m_taskQueue')
  <2>1. PICK w \in Workers \ m_threads :
            m_threads' = m_threads \union {w} /\ wpc' = [wpc EXCEPT ![w] = "loop"]
    BY <1>5 DEF PushTask, AddThread
  <2>2. Idle' = Idle \union {w} /\ w \notin Idle
    BY <2>1 DEF Idle, IInv, TypeOK
  <2>3. Cardinality(Idle') = Cardinality(Idle) + 1
    BY <1>2, <2>2, FS_AddElement
  <2>4. Cardinality(m_threads') = Cardinality(m_threads) + 1
    BY <1>4, <2>1, FS_AddElement
  <2>. QED BY <1>1, <1>2, <1>3, <1>4, <2>3, <2>4 DEF AtMostOneStalled
<1>6. CASE ~NeedsThread(m_taskQueue')
  <2>1. UNCHANGED <<m_threads, wpc>>
    BY <1>6 DEF PushTask
  <2>2. Idle' = Idle
    BY <2>1 DEF Idle
  <2>. QED BY <1>1, <1>2, <1>4, <1>6, <2>1, <2>2 DEF AtMostOneStalled, NeedsThread
<1>. QED BY <1>5, <1>6

\* A worker that takes a task removes one of each side.
LEMMA TakeKeepsBalance ==
    ASSUME IInv, AtMostOneStalled, NEW w \in Workers, TakeTask(w)
    PROVE  AtMostOneStalled'
<1>1. Len(m_taskQueue) \in Nat /\ Len(m_taskQueue') = Len(m_taskQueue) - 1
  BY HeadTailProperties DEF IInv, TypeOK, TakeTask
<1>2. IsFiniteSet(Idle) /\ Cardinality(Idle) \in Nat
  BY IdleIsFinite
<1>3. w \in Idle /\ Idle' = Idle \ {w}
  BY DEF Idle, TakeTask, IInv, TypeOK, ThreadInv
<1>4. Cardinality(Idle') = Cardinality(Idle) - 1
  BY <1>2, <1>3, FS_RemoveElement
<1>. QED BY <1>1, <1>2, <1>4 DEF AtMostOneStalled, TakeTask

\* A worker that finishes is one more idle worker.
LEMMA FinishKeepsBalance ==
    ASSUME IInv, AtMostOneStalled, NEW w \in Workers, FinishTask(w)
    PROVE  AtMostOneStalled'
<1>1. IsFiniteSet(Idle) /\ Cardinality(Idle) \in Nat
  BY IdleIsFinite
<1>2. w \notin Idle /\ Idle' = Idle \union {w}
  BY DEF Idle, FinishTask, IInv, TypeOK, ThreadInv, poolVars
<1>3. Cardinality(Idle') = Cardinality(Idle) + 1
  BY <1>1, <1>2, FS_AddElement
<1>4. Len(m_taskQueue) \in Nat
  BY DEF IInv, TypeOK
<1>. QED BY <1>1, <1>3, <1>4 DEF AtMostOneStalled, FinishTask, poolVars

\* A step that leaves the queue alone and the idle workers idle.
LEMMA IdleKeepsBalance ==
    ASSUME AtMostOneStalled, UNCHANGED <<m_taskQueue, m_threads>>, Idle' = Idle
    PROVE  AtMostOneStalled'
BY DEF AtMostOneStalled

\* The queue is empty when a worker exits and when the joined threads are dropped.
LEMMA EmptyQueueIsBalanced ==
    ASSUME IInv', m_taskQueue' = <<>>
    PROVE  AtMostOneStalled'
<1>1. Cardinality(Idle') \in Nat
  BY FS_Subset, FS_CardinalityType, ThreadsAssumption DEF Idle, IInv, TypeOK
<1>. QED BY <1>1 DEF AtMostOneStalled

\* Every step keeps the balance.
LEMMA NextBalance == IInv /\ IInv' /\ AtMostOneStalled /\ [Next]_vars => AtMostOneStalled'
<1>. SUFFICES ASSUME IInv, IInv', AtMostOneStalled, [Next]_vars PROVE AtMostOneStalled'
  OBVIOUS
<1>1. ASSUME NEW c \in Callers, NEW t \in Tasks, CallAddTask(c, t)
      PROVE  AtMostOneStalled'
  BY <1>1, IdleKeepsBalance DEF CallAddTask, poolVars, workerVars, Idle
<1>2. CASE \E a \in Adders : AdderCalls(a)
  BY <1>1, <1>2 DEF AdderCalls, Roots, Callers
<1>3. CASE \E c \in Callers : AddTaskStep(c)
  <2>1. PICK c \in Callers : AddTaskStep(c)
    BY <1>3
  <2>2. CASE BlockAddTask(c)
    BY <2>2, IdleKeepsBalance DEF BlockAddTask, poolVars, workerVars, Idle
  <2>3. CASE PushTask(c)
    BY <2>3, PushKeepsBalance
  <2>4. CASE NotifyOne(c)
    <3>1. Idle' = Idle
      BY <2>4 DEF NotifyOne, poolVars, WaitingWorkers, Idle, IInv, TypeOK
    <3>. QED BY <2>4, <3>1, IdleKeepsBalance DEF NotifyOne, poolVars
  <2>. QED BY <2>1, <2>2, <2>3, <2>4 DEF AddTaskStep
<1>4. CASE \E w \in Workers : WorkerStep(w)
  <2>1. PICK w \in Workers : WorkerStep(w)
    BY <1>4
  <2>2. CASE WorkerWaits(w)
    <3>1. Idle' = Idle
      BY <2>2 DEF WorkerWaits, poolVars, Idle, IInv, TypeOK
    <3>. QED BY <2>2, <3>1, IdleKeepsBalance DEF WorkerWaits, poolVars
  <2>3. CASE WorkerExits(w)
    BY <2>3, EmptyQueueIsBalanced DEF WorkerExits, poolVars
  <2>. QED BY <2>1, <2>2, <2>3, TakeKeepsBalance, FinishKeepsBalance DEF WorkerStep
<1>5. CASE \E w \in Workers : TaskCalls(w)
  <2>1. PICK w \in Workers : TaskCalls(w)
    BY <1>5
  <2>2. UNCHANGED <<poolVars, workerVars>>
    BY <2>1 DEF TaskCalls, CallAddTask
  <2>. QED BY <2>2, IdleKeepsBalance DEF poolVars, workerVars, Idle
<1>6. CASE CloseQueue
  BY <1>6, IdleKeepsBalance DEF CloseQueue, workerVars, Idle
<1>7. CASE NotifyAll \/ NotifyReopened
  <2>1. Idle' = Idle
    BY <1>7 DEF NotifyAll, NotifyReopened, WakeAll, poolVars, Idle, IInv, TypeOK
  <2>. QED BY <1>7, <2>1, IdleKeepsBalance DEF NotifyAll, NotifyReopened, poolVars
<1>8. CASE JoinAndReopen
  BY <1>8, JoinDrains, EmptyQueueIsBalanced DEF JoinAndReopen
<1>9. CASE SpuriousWakeup
  <2>1. Idle' = Idle
    BY <1>9 DEF SpuriousWakeup, WaitingWorkers, WakeWorker, poolVars, Idle, IInv, TypeOK
  <2>. QED BY <1>9, <2>1, IdleKeepsBalance DEF SpuriousWakeup, poolVars
<1>10. CASE UNCHANGED vars
  BY <1>10, IdleKeepsBalance DEF vars, Idle
<1>. QED BY <1>2, <1>3, <1>4, <1>5, <1>6, <1>7, <1>8, <1>9, <1>10 DEF Next,
   WaitUntilFinishedStep

\* While threads may be added at most one queued task has no idle worker.
THEOREM StallIsBounded == Spec => []AtMostOneStalled
<1>1. Init => AtMostOneStalled
  <2>. SUFFICES ASSUME Init PROVE AtMostOneStalled
    OBVIOUS
  <2>1. IInv
    BY InitInv
  <2>2. Cardinality(Idle) \in Nat
    BY <2>1, IdleIsFinite
  <2>. QED BY <2>2 DEF AtMostOneStalled, Init
<1>. QED BY <1>1, Invariance, NextBalance, PTL DEF Spec
=============================================================================
