---------------------------- MODULE TaskExecutor ----------------------------
(***************************************************************************)
(* What lsp::ThreadPool promises to its callers (src/lsp/threadpool.h),    *)
(* with no threads, mutex or condition variable in sight: tasks are        *)
(* accepted while the executor is open, started in the order in which they *)
(* were accepted, run once each, and the executor opens again after a      *)
(* drain only when nothing that was accepted is still waiting or running.  *)
(* ThreadPool.tla is shown to implement this specification.                *)
(***************************************************************************)
EXTENDS Sequences

CONSTANT
    Tasks       \* the tasks that may ever be handed to the executor

VARIABLES
    open,       \* are tasks accepted?
    pending,    \* accepted and not yet started, oldest first
    running,    \* being executed
    finished    \* executed to the end

vars == <<open, pending, running, finished>>

Accepted == {pending[i] : i \in DOMAIN pending} \union running \union finished

Init ==
    /\ open = TRUE
    /\ pending = <<>>
    /\ running = {}
    /\ finished = {}

Submit(t) ==
    /\ open
    /\ t \notin Accepted
    /\ pending' = Append(pending, t)
    /\ UNCHANGED <<open, running, finished>>

\* Only the oldest pending task may start.
Start ==
    /\ pending # <<>>
    /\ pending' = Tail(pending)
    /\ running' = running \union {Head(pending)}
    /\ UNCHANGED <<open, finished>>

Finish(t) ==
    /\ t \in running
    /\ running' = running \ {t}
    /\ finished' = finished \union {t}
    /\ UNCHANGED <<open, pending>>

Close ==
    /\ open
    /\ open' = FALSE
    /\ UNCHANGED <<pending, running, finished>>

\* The drain is over: everything that was accepted has been executed.
Reopen ==
    /\ ~open
    /\ pending = <<>>
    /\ running = {}
    /\ open' = TRUE
    /\ UNCHANGED <<pending, running, finished>>

Next ==
    \/ \E t \in Tasks : Submit(t) \/ Finish(t)
    \/ Start
    \/ Close
    \/ Reopen

Spec == Init /\ [][Next]_vars
=============================================================================
