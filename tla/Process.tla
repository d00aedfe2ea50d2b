------------------------------- MODULE Process -------------------------------
(***************************************************************************)
(* The class Process (src/lsp/process.h, process.cpp, the POSIX branch):   *)
(* a program starts other programs, talks to them through two pipes, and   *)
(* ends them or waits for their end. A third pipe tells the constructor    *)
(* that exec failed.                                                       *)
(*                                                                         *)
(* The operating system is a table of processes with the pipe ends that    *)
(* they hold: a child gets a copy of all its parent holds at fork, closes  *)
(* its own ones, and keeps those of other Process objects. A process that  *)
(* has ended keeps its pid until its parent waits for it; then the pid may *)
(* be given to another process.                                            *)
(*                                                                         *)
(* Each object is used by one thread of the program.                       *)
(***************************************************************************)
EXTENDS Integers, FiniteSets

CONSTANTS
    Pids,       \* the process ids
    Self,       \* that of the program
    Objects     \* its Process objects

\* The owners of processes that no object has started.
Other == "other"
Program == "program"

ASSUME ProcessAssumption ==
    /\ Pids \subseteq Nat \ {0} /\ Self \in Pids
    /\ {Other, Program} \intersect Objects = {}

VARIABLES
    process,    \* the table of processes
    object      \* the objects: where the thread is in a call, and the members

processVars == <<process, object>>

NoPid == -1
End(o, pipe, side) == [object |-> o, pipe |-> pipe, side |-> side]
Ends == [object : Objects, pipe : {"in", "out", "err"}, side : {"r", "w"}]
EndsOf(o) == {e \in Ends : e.object = o}

\* owner is the object whose constructor called fork, for the children of the program.
FreePid == [status |-> "free", owner |-> Other, ends |-> {}]
Processes == [status : {"free", "forked", "running", "zombie"}, owner : Objects \union {Other, Program}, ends : SUBSET Ends]

\* isOpen: m_stdinWrite and m_stdoutRead are not -1. execError: what the error pipe holds.
NewObject == [step |-> "none", pid |-> NoPid, isOpen |-> FALSE, execError |-> FALSE]
Steps == {"none", "forking", "reading", "reaping", "ready", "waiting", "gone"}

ProgramRuns == process[Self].owner = Program
IsChild(p) == p # NoPid /\ process[p].owner \in Objects /\ process[p].status # "free"
HasEnded(p) == process[p].status = "zombie"
IsHeld(e) == \E p \in Pids : e \in process[p].ends

ProcessInit ==
    /\ process = [p \in Pids |-> IF p = Self THEN [FreePid EXCEPT !.status = "running", !.owner = Program] ELSE FreePid]
    /\ object = [o \in Objects |-> NewObject]

At(o, step) == ProgramRuns /\ object[o].step = step

-----------------------------------------------------------------------------
(* The constructor.                                                        *)

createPipes(o) ==
    /\ At(o, "none")
    /\ process' = [process EXCEPT ![Self].ends = @ \union EndsOf(o)]
    /\ object' = [object EXCEPT ![o].step = "forking"]

\* No pipe can be made: the constructor returns, and what had been opened is closed.
failPipes(o) ==
    /\ At(o, "none")
    /\ object' = [object EXCEPT ![o].step = "ready"]
    /\ UNCHANGED process

\* The parent closes the ends of the child at once; the copies of the child stay.
fork(o) ==
    /\ At(o, "forking")
    /\ \E p \in {p \in Pids : process[p].status = "free"} :
          /\ process' = [process EXCEPT
                            ![p] = [status |-> "forked", owner |-> o, ends |-> process[Self].ends],
                            ![Self].ends = @ \ {End(o, "in", "r"), End(o, "out", "w"), End(o, "err", "w")}]
          /\ object' = [object EXCEPT ![o].step = "reading", ![o].pid = p]

\* The pipe for the error stays open.
failFork(o) ==
    /\ At(o, "forking")
    /\ process' = [process EXCEPT ![Self].ends = @ \ {e \in EndsOf(o) : e.pipe # "err"}]
    /\ object' = [object EXCEPT ![o].step = "ready"]

\* The child.
exec(p) ==
    /\ process[p].status = "forked"
    /\ LET o == process[p].owner
           standard == {End(o, "in", "r"), End(o, "out", "w")}
       IN  process' = [process EXCEPT ![p].status = "running",
                                      ![p].ends = @ \ (EndsOf(o) \ standard)]
    /\ UNCHANGED object

Ended(p) == [process[p] EXCEPT !.status = "zombie", !.ends = {}]

\* A program ends, or is killed. When it is the one that has the objects, another process
\* takes over its children and waits for them.
Exited(p) ==
    IF p # Self THEN [process EXCEPT ![p] = IF IsChild(p) /\ ProgramRuns THEN Ended(p) ELSE FreePid]
    ELSE [q \in Pids |-> IF q = Self \/ process[q].status = "zombie" THEN FreePid ELSE process[q]]

failExec(p) ==
    /\ process[p].status = "forked"
    /\ process' = Exited(p)
    /\ object' = [object EXCEPT ![process[p].owner].execError = TRUE]

readError_KeepsPipe(o) ==    \* the end of the error pipe stays open
    /\ At(o, "reading")
    /\ \/ /\ object[o].execError
          /\ process' = [process EXCEPT ![Self].ends = @ \ EndsOf(o)]
          /\ object' = [object EXCEPT ![o].step = "reaping"]
       \/ /\ ~object[o].execError
          /\ ~IsHeld(End(o, "err", "w"))
          /\ object' = [object EXCEPT ![o].step = "ready", ![o].isOpen = TRUE]
          /\ UNCHANGED process
\* The parent reads the error, or the end of the pipe when nobody can write to it any more.
readError(o) ==
    /\ At(o, "reading")
    /\ \/ /\ object[o].execError
          /\ process' = [process EXCEPT ![Self].ends = @ \ EndsOf(o)]
          /\ object' = [object EXCEPT ![o].step = "reaping"]
       \/ /\ ~object[o].execError
          /\ ~IsHeld(End(o, "err", "w"))
          /\ process' = [process EXCEPT ![Self].ends = @ \ {End(o, "err", "r")}]
          /\ object' = [object EXCEPT ![o].step = "ready", ![o].isOpen = TRUE]

-----------------------------------------------------------------------------
(* waitpid, and what is built on it. A pid that is not a child's is an     *)
(* error of waitpid, which no caller looks at.                             *)

AfterWait(p) == IF IsChild(p) /\ HasEnded(p) THEN [process EXCEPT ![p] = FreePid] ELSE process
ClosedHandles(o, table) ==
    IF object[o].isOpen
    THEN [table EXCEPT ![Self].ends = @ \ {End(o, "in", "w"), End(o, "out", "r")}]
    ELSE table

\* The constructor waits for the child that could not exec; m_pid stays.
reap(o) ==
    /\ At(o, "reaping")
    /\ ~IsChild(object[o].pid) \/ HasEnded(object[o].pid)
    /\ process' = AfterWait(object[o].pid)
    /\ object' = [object EXCEPT ![o].step = "ready"]

\* checkRunning is false, and when that is new the handles are closed.
IsRunning(o) == IsChild(object[o].pid) /\ ~HasEnded(object[o].pid)
noLongerRunning_KeepsPid(o, step) ==    \* m_pid stays
    /\ process' = ClosedHandles(o, AfterWait(object[o].pid))
    /\ object' = [object EXCEPT ![o].step = step, ![o].isOpen = FALSE]
noLongerRunning(o, step) ==
    /\ process' = IF object[o].pid = NoPid THEN process ELSE ClosedHandles(o, AfterWait(object[o].pid))
    /\ object' = [object EXCEPT ![o].step = step,
                                ![o].pid = NoPid,
                                ![o].isOpen = @ /\ object[o].pid = NoPid]

isRunning(o) ==
    /\ At(o, "ready")
    /\ ~IsRunning(o)
    /\ noLongerRunning(o, "ready")

\* wait, which the destructor of Process calls; terminate; and the destructor of Impl, which
\* runs when another Process is assigned to the object. The signals end the child.
closeHandles_NoReset(o) == object' = [object EXCEPT ![o].step = "waiting"]    \* the members stay
closeHandles(o) ==
    object' = [object EXCEPT ![o].step = "waiting", ![o].isOpen = FALSE]

wait(o) ==
    /\ At(o, "ready")
    /\ \/ ~IsRunning(o) /\ noLongerRunning(o, "gone")
       \/ IsRunning(o) /\ closeHandles(o) /\ process' = ClosedHandles(o, process)

terminate(o) ==
    /\ At(o, "ready")
    /\ \/ ~IsRunning(o) /\ noLongerRunning(o, "gone")
       \/ IsRunning(o) /\ closeHandles(o)
          /\ process' = ClosedHandles(o, [process EXCEPT ![object[o].pid] = Ended(object[o].pid)])

waited(o) ==
    /\ At(o, "waiting")
    /\ ~IsChild(object[o].pid) \/ HasEnded(object[o].pid)
    /\ process' = AfterWait(object[o].pid)
    /\ object' = [object EXCEPT ![o].step = "gone", ![o].pid = NoPid]

Construct(o) == createPipes(o) \/ failPipes(o) \/ fork(o) \/ failFork(o) \/ readError(o) \/ reap(o)

-----------------------------------------------------------------------------
(* The rest of the system.                                                 *)

exists(p) == process[p].status # "free"

ForeignStart(p) ==
    /\ process[p].status = "free"
    /\ process' = [process EXCEPT ![p] = [FreePid EXCEPT !.status = "running"]]
    /\ UNCHANGED object

ForeignEnd(p) ==
    /\ process[p].status = "running"
    /\ process[p].owner = Other
    /\ process' = [process EXCEPT ![p] = FreePid]
    /\ UNCHANGED object
=============================================================================
