---------------------------- MODULE SessionProofs ----------------------------
(***************************************************************************)
(* Proofs about Session and the Process objects in it, for any set of      *)
(* process ids and any objects.                                            *)
(***************************************************************************)
EXTENDS Session, SequenceTheorems, TLAPS

ObjectType == [step : Steps, pid : Pids \union {NoPid}, isOpen : BOOLEAN, execError : BOOLEAN]

\* No child of the program could not exec.
NoExecError == \A o \in Objects : ~object[o].execError

\* The pipe ends of object o that the program has open.
HeldOf(o) == process[Self].ends \intersect EndsOf(o)
ErrorPipe(o) == {End(o, "err", "r"), End(o, "err", "w")}
Handles(o) == {End(o, "in", "w"), End(o, "out", "r")}

ProcessType ==
    /\ process \in [Pids -> Processes]
    /\ object \in [Objects -> ObjectType]

\* There is one program, a free pid is nobody's, and a process that forked is a child.
OwnerInv ==
    /\ \A p \in Pids : process[p].owner = Program => p = Self /\ process[p].status = "running"
    /\ \A p \in Pids : process[p].owner \in Objects => process[p].status # "free" /\ p # Self
    /\ \A p \in Pids : process[p].status = "forked" => process[p].owner \in Objects

\* An object has a pid only between fork and the end of the wait, and handles only
\* between the constructor and the first call that closes them.
MemberInv ==
    \A o \in Objects :
        /\ object[o].step \in {"none", "forking", "gone"} => object[o].pid = NoPid
        /\ object[o].step \in {"reading", "reaping", "waiting"} => object[o].pid # NoPid
        /\ object[o].step = "reaping" => object[o].execError
        /\ object[o].isOpen => object[o].step = "ready" /\ object[o].pid # NoPid

\* What each step of an object has left open.
EndsInv ==
    ProgramRuns => \A o \in Objects :
        /\ object[o].step = "none" => HeldOf(o) = {}
        /\ object[o].step = "forking" => HeldOf(o) = EndsOf(o)
        /\ object[o].step = "reading" => HeldOf(o) = Handles(o) \union {End(o, "err", "r")}
        /\ object[o].isOpen => HeldOf(o) = Handles(o)
        /\ object[o].step \in {"reaping", "ready", "waiting", "gone"} /\ ~object[o].isOpen =>
              HeldOf(o) \in {{}, ErrorPipe(o)}

\* Unless exec has failed, an object has the pid of its child and no other child.
PidInv ==
    ProgramRuns /\ NoExecError => \A o \in Objects :
        /\ object[o].pid # NoPid => process[object[o].pid].owner = o
        /\ \A p \in Pids : process[p].owner = o => p = object[o].pid

ProcessInv ==
    /\ ProcessType
    /\ OwnerInv
    /\ MemberInv
    /\ EndsInv
    /\ PidInv

Messages == Requests \union {"initialized", "didOpen", "exit"}
Answers == [method : Requests, ok : BOOLEAN]

ClientType ==
    [step : {"main", "startup", "initialize", "hover", "shutdown", "join", "wait", "end"},
     reads : BOOLEAN, m_running : BOOLEAN, answers : SUBSET Answers]

ServerType ==
    [state : {"Inactive", "Uninitialized", "Active", "Shutdown"},
     parent : Pids \union {NoPid}, step : {"check", "read", "returned"}]

SessionType ==
    /\ client \in ClientType
    /\ toServer \in Seq(Messages)
    /\ toClient \in Seq(Answers)
    /\ server \in ServerType
    /\ listener \in {"none", "bound", "listening", "connected", "ended"}

\* The client is in the step that waits for an answer to this request, and has none.
WaitsFor(method) ==
    /\ ~HasAnswer(method)
    /\ \/ method \in {"initialize", "hover"} /\ client.step = method
       \/ method = "shutdown" /\ client.step \in {"join", "wait", "end"}

\* One request or answer is on the way, and it is the one that the client waits for.
OneRequest ==
    \A i \in DOMAIN toServer : toServer[i] \in Requests =>
        /\ WaitsFor(toServer[i])
        /\ toClient = <<>>
        /\ \A j \in DOMAIN toServer : toServer[j] \in Requests => j = i

ProtocolInv ==
    /\ OneRequest
    /\ toClient # <<>> => Len(toClient) = 1 /\ WaitsFor(toClient[1].method)
    /\ client.step \in {"main", "startup"} => client.answers = {}
    /\ client.step = "initialize" => ~HasAnswer("hover")
    /\ client.step \in {"main", "startup", "initialize", "hover", "shutdown"} => ~HasAnswer("shutdown")

IInv ==
    /\ ProcessInv
    /\ SessionType
    /\ ProtocolInv

-----------------------------------------------------------------------------
(* The Process objects. *)

\* The pipe ends of an object, and that no two objects share one.
LEMMA EndsOfObjects ==
    ASSUME NEW o \in Objects
    PROVE  /\ EndsOf(o) = Handles(o) \union ErrorPipe(o) \union {End(o, "in", "r"), End(o, "out", "w")}
           /\ EndsOf(o) \subseteq Ends
           /\ Handles(o) \intersect ErrorPipe(o) = {}
           /\ {End(o, "in", "r"), End(o, "out", "w")} \intersect (Handles(o) \union ErrorPipe(o)) = {}
           /\ End(o, "err", "r") # End(o, "err", "w")
           /\ {e \in EndsOf(o) : e.pipe # "err"} = EndsOf(o) \ ErrorPipe(o)
           /\ \A q \in Objects : q # o => EndsOf(q) \intersect EndsOf(o) = {}
<1>1. EndsOf(o) = {[object |-> o, pipe |-> p, side |-> s] : p \in {"in", "out", "err"}, s \in {"r", "w"}}
  <2>1. ASSUME NEW e \in EndsOf(o)
        PROVE  \E p \in {"in", "out", "err"}, s \in {"r", "w"} : e = [object |-> o, pipe |-> p, side |-> s]
    <3>. e = [object |-> o, pipe |-> e.pipe, side |-> e.side] /\ e.pipe \in {"in", "out", "err"}
         /\ e.side \in {"r", "w"}
      BY DEF EndsOf, Ends
    <3>. QED OBVIOUS
  <2>2. ASSUME NEW p \in {"in", "out", "err"}, NEW s \in {"r", "w"}
        PROVE  [object |-> o, pipe |-> p, side |-> s] \in EndsOf(o)
    BY DEF EndsOf, Ends
  <2>. QED BY <2>1, <2>2
<1>2. EndsOf(o) = Handles(o) \union ErrorPipe(o) \union {End(o, "in", "r"), End(o, "out", "w")}
  BY <1>1 DEF Handles, ErrorPipe, End
<1>3. \A p, q \in {"in", "out", "err"}, s, t \in {"r", "w"} :
          End(o, p, s) = End(o, q, t) => p = q /\ s = t
  BY DEF End
<1>4. \A p \in {"in", "out", "err"}, s \in {"r", "w"} : End(o, p, s).pipe = p
  BY DEF End
<1>5. EndsOf(o) \subseteq Ends /\ \A q \in Objects : q # o => EndsOf(q) \intersect EndsOf(o) = {}
  BY DEF EndsOf
<1>6. Handles(o) \intersect ErrorPipe(o) = {}
  BY <1>3 DEF Handles, ErrorPipe
<1>7. {End(o, "in", "r"), End(o, "out", "w")} \intersect (Handles(o) \union ErrorPipe(o)) = {}
  BY <1>3 DEF Handles, ErrorPipe
<1>8. \A e \in EndsOf(o) : e.pipe # "err" <=> e \notin ErrorPipe(o)
  <2>1. \A e \in ErrorPipe(o) : e.pipe = "err"
    BY <1>4 DEF ErrorPipe
  <2>2. \A e \in EndsOf(o) \ ErrorPipe(o) : e.pipe # "err"
    BY <1>2, <1>4 DEF Handles
  <2>. QED BY <2>1, <2>2
<1>. QED BY <1>2, <1>3, <1>5, <1>6, <1>7, <1>8

\* The child of an object is not the program itself.
LEMMA ChildIsNotSelf ==
    ASSUME ProcessInv
    PROVE  /\ ProgramRuns => process[Self].status = "running"
           /\ \A p \in Pids \union {NoPid} : IsChild(p) => p \in Pids /\ process[p].owner \in Objects
BY ProcessAssumption DEF ProcessInv, ProcessType, OwnerInv, ProgramRuns, IsChild, Program

LEMMA InitProcess == ProcessInit => ProcessInv
<1>. SUFFICES ASSUME ProcessInit PROVE ProcessInv
  OBVIOUS
<1>1. ProcessType
  BY ProcessAssumption DEF ProcessInit, ProcessType, Processes, ObjectType, Steps, FreePid, NewObject, NoPid
<1>2. OwnerInv
  BY ProcessAssumption DEF ProcessInit, OwnerInv, FreePid, Other, Program
<1>3. MemberInv
  BY DEF ProcessInit, MemberInv, NewObject
<1>4. EndsInv
  BY ProcessAssumption DEF ProcessInit, EndsInv, HeldOf, FreePid, NewObject
<1>5. PidInv
  BY ProcessAssumption DEF ProcessInit, PidInv, FreePid, NewObject, Other, Program
<1>. QED BY <1>1, <1>2, <1>3, <1>4, <1>5 DEF ProcessInv

LEMMA createPipesInv ==
    ASSUME ProcessInv, NEW o \in Objects, createPipes(o)
    PROVE  ProcessInv'
<1>. USE DEF ProcessInv, ProcessType
<1>1. ProcessType'
  <2>1. process' \in [Pids -> Processes]
    <3>1. [process[Self] EXCEPT !.ends = @ \union EndsOf(o)] \in Processes
      BY ProcessAssumption, EndsOfObjects DEF Processes
    <3>. QED BY <3>1 DEF createPipes
  <2>2. object' \in [Objects -> ObjectType]
    BY DEF createPipes, ObjectType, Steps
  <2>. QED BY <2>1, <2>2
<1>2. OwnerInv'
  BY ProcessAssumption DEF createPipes, OwnerInv, Processes
<1>3. MemberInv'
  BY DEF createPipes, MemberInv, At, ObjectType
<1>4. HeldOf(o)' = EndsOf(o) /\ \A q \in Objects : q # o => HeldOf(q)' = HeldOf(q)
  BY ProcessAssumption, EndsOfObjects DEF createPipes, HeldOf
<1>5. EndsInv'
  BY <1>4, ProcessAssumption DEF createPipes, EndsInv, MemberInv, At, ProgramRuns, ObjectType
<1>6. PidInv'
  BY ProcessAssumption DEF createPipes, PidInv, At, ProgramRuns, NoExecError, ObjectType, Processes
<1>. QED BY <1>1, <1>2, <1>3, <1>5, <1>6

LEMMA failPipesInv ==
    ASSUME ProcessInv, NEW o \in Objects, failPipes(o)
    PROVE  ProcessInv'
<1>. USE DEF ProcessInv, ProcessType
<1>1. ProcessType' /\ OwnerInv'
  BY DEF failPipes, OwnerInv, ObjectType, Steps
<1>2. MemberInv'
  BY DEF failPipes, MemberInv, At, ObjectType
<1>3. EndsInv'
  BY DEF failPipes, EndsInv, HeldOf, MemberInv, At, ProgramRuns, ObjectType
<1>4. PidInv'
  BY DEF failPipes, PidInv, At, ProgramRuns, NoExecError, ObjectType
<1>. QED BY <1>1, <1>2, <1>3, <1>4

LEMMA forkInv ==
    ASSUME ProcessInv, NEW o \in Objects, fork(o)
    PROVE  ProcessInv'
<1>. USE DEF ProcessInv, ProcessType
<1>0. PICK p \in Pids :
        /\ process[p].status = "free"
        /\ process' = [process EXCEPT
                            ![p] = [status |-> "forked", owner |-> o, ends |-> process[Self].ends],
                            ![Self].ends = @ \ {End(o, "in", "r"), End(o, "out", "w"), End(o, "err", "w")}]
        /\ object' = [object EXCEPT ![o].step = "reading", ![o].pid = p]
  BY DEF fork
<1>1. p # Self /\ ProgramRuns /\ object[o].step = "forking"
  BY <1>0, ChildIsNotSelf DEF fork, At
<1>2. /\ process'[p] = [status |-> "forked", owner |-> o, ends |-> process[Self].ends]
      /\ process'[Self] = [process[Self] EXCEPT
                              !.ends = @ \ {End(o, "in", "r"), End(o, "out", "w"), End(o, "err", "w")}]
      /\ \A q \in Pids \ {p, Self} : process'[q] = process[q]
  BY <1>0, <1>1, ProcessAssumption
<1>3. ProcessType'
  <2>1. process'[p] \in Processes /\ process'[Self] \in Processes
    BY <1>2, ProcessAssumption DEF Processes
  <2>2. process' \in [Pids -> Processes]
    BY <1>0, <1>2, <2>1, ProcessAssumption
  <2>3. object' \in [Objects -> ObjectType]
    BY <1>0, ZenonT(40) DEF ObjectType, Steps
  <2>. QED BY <2>2, <2>3
<1>4. OwnerInv'
  BY <1>1, <1>2, ProcessAssumption DEF OwnerInv, Processes
<1>5. MemberInv'
  BY <1>0, <1>1, ProcessAssumption DEF MemberInv, ObjectType, NoPid
<1>6. /\ HeldOf(o)' = Handles(o) \union {End(o, "err", "r")}
      /\ \A q \in Objects : q # o => HeldOf(q)' = HeldOf(q)
  <2>1. process'[Self].ends = process[Self].ends \ {End(o, "in", "r"), End(o, "out", "w"), End(o, "err", "w")}
    BY <1>2, ProcessAssumption DEF Processes
  <2>2. HeldOf(o) = EndsOf(o)
    BY <1>1 DEF EndsInv
  <2>. QED BY <2>1, <2>2, EndsOfObjects DEF HeldOf, ErrorPipe
<1>7. EndsInv'
  BY <1>0, <1>1, <1>6, ProcessAssumption DEF EndsInv, MemberInv, ObjectType
<1>8. PidInv'
  BY <1>0, <1>1, <1>2, ProcessAssumption DEF PidInv, OwnerInv, MemberInv, NoExecError, ObjectType, Processes, NoPid
<1>. QED BY <1>3, <1>4, <1>5, <1>7, <1>8

\* An object keeps its child when no owner changes that is an object.
LEMMA SameOwners ==
    ASSUME ProcessInv, object' = object, ProgramRuns' => ProgramRuns,
           \A q \in Pids : \/ process'[q].owner = process[q].owner
                           \/ process[q].owner \notin Objects /\ process'[q].owner \notin Objects
    PROVE  PidInv'
<1>. SUFFICES ASSUME ProgramRuns', NoExecError', NEW o \in Objects
              PROVE  /\ object[o].pid # NoPid => process'[object[o].pid].owner = o
                     /\ \A q \in Pids : process'[q].owner = o => q = object[o].pid
  BY DEF PidInv
<1>1. /\ object[o].pid # NoPid => object[o].pid \in Pids /\ process[object[o].pid].owner = o
      /\ \A q \in Pids : process[q].owner = o => q = object[o].pid
  BY DEF ProcessInv, ProcessType, ObjectType, PidInv, NoExecError
<1>. QED BY <1>1

LEMMA failForkInv ==
    ASSUME ProcessInv, NEW o \in Objects, failFork(o)
    PROVE  ProcessInv'
<1>. USE DEF ProcessInv, ProcessType
<1>0. process' = [process EXCEPT ![Self].ends = @ \ (EndsOf(o) \ ErrorPipe(o))]
  BY EndsOfObjects DEF failFork
<1>1. ProcessType'
  <2>1. [process[Self] EXCEPT !.ends = @ \ (EndsOf(o) \ ErrorPipe(o))] \in Processes
    BY ProcessAssumption DEF Processes
  <2>2. object' \in [Objects -> ObjectType]
    BY DEF failFork, ObjectType, Steps
  <2>. QED BY <1>0, <2>1, <2>2
<1>2. OwnerInv'
  BY <1>0, ProcessAssumption DEF OwnerInv, Processes
<1>3. MemberInv'
  BY DEF failFork, MemberInv, At, ObjectType
<1>4. HeldOf(o)' = ErrorPipe(o) /\ \A q \in Objects : q # o => HeldOf(q)' = HeldOf(q)
  BY <1>0, ProcessAssumption, EndsOfObjects DEF failFork, HeldOf, EndsInv, At
<1>5. EndsInv'
  BY <1>4, ProcessAssumption DEF failFork, EndsInv, MemberInv, At, ProgramRuns, ObjectType
<1>6. PidInv'
  BY <1>0, ProcessAssumption DEF failFork, PidInv, At, ProgramRuns, NoExecError, ObjectType, Processes
<1>. QED BY <1>1, <1>2, <1>3, <1>5, <1>6

LEMMA execInv ==
    ASSUME ProcessInv, NEW p \in Pids, exec(p)
    PROVE  ProcessInv'
<1>. USE DEF ProcessInv, ProcessType
<1>0. PICK ends \in SUBSET Ends :
        process' = [process EXCEPT ![p].status = "running", ![p].ends = ends]
  <2>1. process[p].ends \in SUBSET Ends
    BY DEF Processes
  <2>. DEFINE gone == EndsOf(process[p].owner) \ {End(process[p].owner, "in", "r"), End(process[p].owner, "out", "w")}
  <2>2. process' = [process EXCEPT ![p].status = "running", ![p].ends = @ \ gone]
    BY DEF exec
  <2>. HIDE DEF gone
  <2>3. process' = [process EXCEPT ![p].status = "running", ![p].ends = process[p].ends \ gone]
    BY <2>2 DEF Processes
  <2>. QED BY <2>1, <2>3
<1>1. object' = object /\ process[p].status = "forked" /\ (ProgramRuns => p # Self)
  BY ChildIsNotSelf DEF exec
<1>2. ProcessType'
  BY <1>0, <1>1 DEF Processes
<1>3. OwnerInv' /\ MemberInv'
  BY <1>0, <1>1 DEF OwnerInv, MemberInv, Processes
<1>4. process[p].owner = process'[p].owner /\ \A q \in Pids \ {p} : process'[q] = process[q]
  BY <1>0 DEF Processes
<1>5. ProgramRuns' = ProgramRuns
  BY <1>4, ProcessAssumption DEF ProgramRuns
<1>6. EndsInv'
  BY <1>1, <1>4, <1>5, ProcessAssumption DEF EndsInv, HeldOf
<1>7. PidInv'
  BY <1>1, <1>4, <1>5, SameOwners
<1>. QED BY <1>2, <1>3, <1>6, <1>7

\* The end of a process that is running or a child, and not the program's.
LEMMA ExitedIs ==
    ASSUME ProcessInv, NEW p \in Pids, process[p].status \in {"forked", "running"},
           p = Self => ProgramRuns, process' = Exited(p)
    PROVE  /\ process' \in [Pids -> Processes]
           /\ OwnerInv'
           /\ p = Self => ~ProgramRuns'
           /\ p # Self => /\ ProgramRuns' = ProgramRuns
                          /\ process'[Self] = process[Self]
                          /\ ProgramRuns => \A q \in Pids :
                                \/ process'[q].owner = process[q].owner
                                \/ process[q].owner \notin Objects /\ process'[q].owner \notin Objects
<1>. USE DEF ProcessInv, ProcessType
<1>1. FreePid \in Processes /\ FreePid.owner = Other /\ Other # Program /\ Other \notin Objects
  BY ProcessAssumption DEF FreePid, Processes, Other, Program
<1>2. Ended(p) \in Processes /\ Ended(p).owner = process[p].owner /\ Ended(p).status = "zombie"
  BY DEF Ended, Processes
<1>3. CASE p = Self
  <2>1. process' = [q \in Pids |-> IF q = Self \/ process[q].status = "zombie" THEN FreePid ELSE process[q]]
    BY <1>3 DEF Exited
  <2>2. process' \in [Pids -> Processes] /\ process'[Self] = FreePid
    BY <2>1, <1>1, ProcessAssumption
  <2>3. \A q \in Pids : process'[q] = FreePid \/ process'[q] = process[q]
    BY <2>1
  <2>4. FreePid.status = "free"
    BY DEF FreePid
  <2>5. OwnerInv'
    BY <2>3, <2>4, <1>1 DEF OwnerInv
  <2>. QED BY <2>2, <2>5, <1>1, <1>3 DEF ProgramRuns
<1>4. CASE p # Self
  <2>1. PICK x \in {Ended(p), FreePid} :
          /\ process' = [process EXCEPT ![p] = x]
          /\ IsChild(p) /\ ProgramRuns => x = Ended(p)
    BY <1>4 DEF Exited
  <2>8. process'[p] = x /\ \A q \in Pids \ {p} : process'[q] = process[q]
    BY <2>1
  <2>9. FreePid.status = "free"
    BY DEF FreePid
  <2>2. process' \in [Pids -> Processes] /\ process'[Self] = process[Self]
    BY <2>1, <1>1, <1>2, <1>4, ProcessAssumption
  <2>3. process[p].owner # Program
    BY <1>4 DEF OwnerInv
  <2>4. OwnerInv'
    <3>1. CASE x = Ended(p)
      BY <3>1, <2>8, <2>3, <1>2, <1>4, <2>9 DEF OwnerInv
    <3>2. CASE x = FreePid
      BY <3>2, <2>8, <2>9, <1>1 DEF OwnerInv
    <3>. QED BY <3>1, <3>2
  <2>5. ProgramRuns' = ProgramRuns
    BY <2>2 DEF ProgramRuns
  <2>6. IsChild(p) <=> process[p].owner \in Objects
    BY ProcessAssumption DEF IsChild, OwnerInv, NoPid
  <2>7. ASSUME ProgramRuns, NEW q \in Pids
        PROVE  \/ process'[q].owner = process[q].owner
               \/ process[q].owner \notin Objects /\ process'[q].owner \notin Objects
    <3>1. CASE q # p
      BY <3>1, <2>8
    <3>2. CASE q = p /\ IsChild(p)
      BY <3>2, <2>1, <2>8, <2>7, <1>2
    <3>3. CASE q = p /\ ~IsChild(p)
      BY <3>3, <2>8, <2>6, <1>1, <1>2
    <3>. QED BY <3>1, <3>2, <3>3
  <2>. QED BY <2>2, <2>4, <2>5, <2>7, <1>4
<1>. QED BY <1>3, <1>4

\* A program that ends changes no object.
LEMMA ExitedInv ==
    ASSUME ProcessInv, NEW p \in Pids, process[p].status \in {"forked", "running"},
           p = Self => ProgramRuns, process' = Exited(p), UNCHANGED object
    PROVE  ProcessInv'
<1>. USE DEF ProcessInv, ProcessType
<1>1. MemberInv'
  BY DEF MemberInv
<1>2. EndsInv'
  BY ExitedIs DEF EndsInv, HeldOf
<1>3. PidInv'
  BY ExitedIs, SameOwners DEF PidInv
<1>. QED BY <1>1, <1>2, <1>3, ExitedIs

LEMMA failExecInv ==
    ASSUME ProcessInv, NEW p \in Pids, failExec(p)
    PROVE  ProcessInv'
<1>. USE DEF ProcessInv, ProcessType
<1>1. /\ process[p].status = "forked" /\ process' = Exited(p)
      /\ process[p].owner \in Objects /\ p # Self
      /\ object' = [object EXCEPT ![process[p].owner].execError = TRUE]
  BY DEF failExec, OwnerInv
<1>2. object' \in [Objects -> ObjectType] /\ ~NoExecError'
  BY <1>1 DEF ObjectType, NoExecError
<1>3. \A o \in Objects : /\ object'[o].step = object[o].step
                         /\ object'[o].isOpen = object[o].isOpen
                         /\ object'[o].pid = object[o].pid
                         /\ object[o].execError => object'[o].execError
  BY <1>1 DEF ObjectType
<1>4. MemberInv'
  BY <1>3 DEF MemberInv
<1>5. EndsInv'
  <2>1. ProgramRuns' = ProgramRuns /\ process'[Self] = process[Self]
    BY <1>1, ExitedIs
  <2>2. \A o \in Objects : HeldOf(o)' = HeldOf(o)
    BY <2>1 DEF HeldOf
  <2>. QED BY <1>3, <2>1, <2>2 DEF EndsInv
<1>6. PidInv'
  BY <1>2 DEF PidInv
<1>. QED BY <1>1, <1>2, <1>4, <1>5, <1>6, ExitedIs

LEMMA readErrorInv ==
    ASSUME ProcessInv, NEW o \in Objects, readError(o)
    PROVE  ProcessInv'
<1>. USE DEF ProcessInv, ProcessType
<1>1. ProgramRuns /\ object[o].step = "reading" /\ HeldOf(o) = Handles(o) \union {End(o, "err", "r")}
  BY DEF readError, At, EndsInv
<1>2. PICK closed \in {EndsOf(o), {End(o, "err", "r")}} :
        /\ process' = [process EXCEPT ![Self].ends = @ \ closed]
        /\ object' = [object EXCEPT ![o].step = IF closed = EndsOf(o) THEN "reaping" ELSE "ready",
                                    ![o].isOpen = closed # EndsOf(o)]
        /\ closed = EndsOf(o) => object[o].execError
  <2>1. EndsOf(o) # {End(o, "err", "r")}
    BY EndsOfObjects DEF ErrorPipe
  <2>2. ~object[o].isOpen
    BY <1>1 DEF MemberInv
  <2>3. CASE object[o].execError
    <3>1. object' = [object EXCEPT ![o].step = "reaping", ![o].isOpen = FALSE]
      BY <2>2, <2>3 DEF readError, ObjectType
    <3>. QED BY <3>1, <2>3 DEF readError
  <2>4. CASE ~object[o].execError
    BY <2>1, <2>4 DEF readError
  <2>. QED BY <2>3, <2>4 DEF ObjectType
<1>3. ProcessType'
  <2>1. [process[Self] EXCEPT !.ends = @ \ closed] \in Processes
    BY ProcessAssumption DEF Processes
  <2>2. object' \in [Objects -> ObjectType]
    <3>1. {"reaping", "ready"} \subseteq Steps
      BY DEF Steps
    <3>. QED BY <1>2, <3>1, ZenonT(40) DEF ObjectType
  <2>. QED BY <1>2, <2>1, <2>2
<1>4. OwnerInv'
  BY <1>2, ProcessAssumption DEF OwnerInv, Processes
<1>5. object[o].pid # NoPid
  BY <1>1 DEF MemberInv
<1>6. MemberInv'
  BY <1>1, <1>2, <1>5 DEF MemberInv, ObjectType
<1>7. /\ HeldOf(o)' = IF closed = EndsOf(o) THEN {} ELSE Handles(o)
      /\ \A q \in Objects : q # o => HeldOf(q)' = HeldOf(q)
  BY <1>1, <1>2, ProcessAssumption, EndsOfObjects DEF HeldOf, ErrorPipe, Processes
<1>8. EndsInv'
  BY <1>1, <1>2, <1>7, ProcessAssumption DEF EndsInv, MemberInv, ObjectType
<1>9. PidInv'
  BY <1>2, ProcessAssumption DEF PidInv, NoExecError, ObjectType, Processes, ProgramRuns
<1>. QED BY <1>3, <1>4, <1>6, <1>8, <1>9

\* waitpid frees a child that has ended, and changes nothing else.
LEMMA AfterWaitIs ==
    ASSUME ProcessInv, NEW p \in Pids \union {NoPid}
    PROVE  /\ AfterWait(p) \in [Pids -> Processes]
           /\ AfterWait(p)[Self] = process[Self]
           /\ \A q \in Pids : \/ /\ AfterWait(p)[q].owner = process[q].owner
                                 /\ AfterWait(p)[q].status \in {process[q].status, "zombie"}
                              \/ q = p /\ AfterWait(p)[q] = FreePid
           /\ p \in Pids /\ IsChild(p) /\ HasEnded(p) => AfterWait(p)[p] = FreePid
<1>. USE DEF ProcessInv, ProcessType
<1>1. FreePid \in Processes
  BY DEF FreePid, Processes
<1>2. IsChild(p) => p \in Pids /\ p # Self
  BY DEF IsChild, OwnerInv
<1>3. CASE IsChild(p) /\ HasEnded(p)
  <2>1. AfterWait(p) = [process EXCEPT ![p] = FreePid] /\ p \in Pids /\ p # Self
    BY <1>2, <1>3 DEF AfterWait
  <2>. QED BY <2>1, <1>1, ProcessAssumption
<1>4. CASE ~(IsChild(p) /\ HasEnded(p))
  BY <1>4 DEF AfterWait
<1>. QED BY <1>3, <1>4

\* The steps at which an object o waits for its child or kills it, and closes its
\* handles: the child is freed when the object gives up its pid.
LEMMA WaitInv ==
    ASSUME ProcessInv, ProgramRuns, NEW o \in Objects,
           object[o].step \in {"reaping", "ready", "waiting"},
           NEW table \in [Pids -> Processes], table[Self] = process[Self],
           \A q \in Pids : \/ table[q].owner = process[q].owner /\ table[q].status \in {process[q].status, "zombie"}
                           \/ q = object[o].pid /\ table[q] = FreePid,
           process' = ClosedHandles(o, table),
           NEW step \in {"ready", "waiting", "gone"}, NEW pid \in {object[o].pid, NoPid},
           object' = [object EXCEPT ![o].step = step, ![o].pid = pid, ![o].isOpen = FALSE],
           step = "waiting" => pid # NoPid,
           step = "gone" => pid = NoPid,
           NoExecError /\ pid = NoPid /\ object[o].pid # NoPid => table[object[o].pid] = FreePid,
           NoExecError /\ pid # NoPid => table[pid].owner = o
    PROVE  ProcessInv'
<1>. USE DEF ProcessInv, ProcessType
<1>1. FreePid.status = "free" /\ FreePid.owner = Other /\ Other \notin Objects /\ Other # Program
  BY ProcessAssumption DEF FreePid, Other, Program
<1>2. /\ process' \in [Pids -> Processes]
      /\ process'[Self].owner = process[Self].owner /\ process'[Self].status = process[Self].status
      /\ process'[Self].ends = process[Self].ends \ (IF object[o].isOpen THEN Handles(o) ELSE {})
      /\ \A q \in Pids : process'[q].owner = table[q].owner /\ process'[q].status = table[q].status
  <2>1. [process[Self] EXCEPT !.ends = @ \ Handles(o)] \in Processes
    BY ProcessAssumption DEF Processes
  <2>2. CASE object[o].isOpen
    <3>1. process' = [table EXCEPT ![Self] = [process[Self] EXCEPT !.ends = @ \ Handles(o)]]
      BY <2>2 DEF ClosedHandles, Handles
    <3>. QED BY <2>1, <2>2, <3>1, ProcessAssumption DEF Processes
  <2>3. CASE ~object[o].isOpen
    BY <2>3 DEF ClosedHandles
  <2>. QED BY <2>2, <2>3
<1>3. /\ object' \in [Objects -> ObjectType]
      /\ object'[o].step = step /\ object'[o].pid = pid /\ object'[o].isOpen = FALSE
      /\ object'[o].execError = object[o].execError
      /\ \A q \in Objects : q # o => object'[q] = object[q]
  BY DEF ObjectType, Steps
<1>4. ProgramRuns'
  BY <1>2 DEF ProgramRuns
<1>5. OwnerInv'
  BY <1>1, <1>2 DEF OwnerInv
<1>6. MemberInv'
  BY <1>3 DEF MemberInv
<1>7. /\ HeldOf(o)' \in {{}, ErrorPipe(o)}
      /\ \A q \in Objects : q # o => HeldOf(q)' = HeldOf(q)
  <2>1. CASE object[o].isOpen
    BY <1>2, <2>1, EndsOfObjects DEF HeldOf, EndsInv
  <2>2. CASE ~object[o].isOpen
    BY <1>2, <2>2 DEF HeldOf, EndsInv
  <2>. QED BY <2>1, <2>2
<1>8. EndsInv'
  BY <1>3, <1>7 DEF EndsInv
<1>9. ASSUME NoExecError'
      PROVE  \A r \in Objects : /\ object'[r].pid # NoPid => process'[object'[r].pid].owner = r
                                /\ \A q \in Pids : process'[q].owner = r => q = object'[r].pid
  <2>1. NoExecError
    BY <1>3, <1>9 DEF NoExecError
  <2>2. \A r \in Objects : /\ object[r].pid # NoPid => process[object[r].pid].owner = r
                           /\ \A q \in Pids : process[q].owner = r => q = object[r].pid
    BY <2>1 DEF PidInv
  <2>3. ASSUME NEW r \in Objects, r # o
        PROVE  /\ object'[r].pid # NoPid => process'[object'[r].pid].owner = r
               /\ \A q \in Pids : process'[q].owner = r => q = object'[r].pid
    <3>1. object[r].pid # NoPid => object[r].pid \in Pids /\ object[r].pid # object[o].pid
      BY <2>2, <2>3 DEF ObjectType
    <3>. QED BY <1>1, <1>2, <1>3, <2>2, <2>3, <3>1
  <2>4. /\ object'[o].pid # NoPid => process'[object'[o].pid].owner = o
        /\ \A q \in Pids : process'[q].owner = o => q = object'[o].pid
    <3>1. object[o].pid # NoPid => object[o].pid \in Pids
      BY DEF ObjectType
    <3>. QED BY <1>1, <1>2, <1>3, <2>1, <2>2, <3>1
  <2>. QED BY <2>3, <2>4
<1>10. PidInv'
  BY <1>9 DEF PidInv
<1>. QED BY <1>2, <1>3, <1>5, <1>6, <1>8, <1>10

\* A child whose object finds it no longer running has ended.
LEMMA EndedChild ==
    ASSUME ProcessInv, ProgramRuns, NoExecError, NEW o \in Objects, object[o].pid # NoPid,
           ~IsChild(object[o].pid) \/ HasEnded(object[o].pid)
    PROVE  AfterWait(object[o].pid) [object[o].pid] = FreePid
<1>1. object[o].pid \in Pids /\ IsChild(object[o].pid)
  BY DEF ProcessInv, ProcessType, ObjectType, PidInv, OwnerInv, IsChild
<1>. QED BY <1>1, AfterWaitIs

\* ... and the steps at which waitpid has returned.
LEMMA AfterWaitInv ==
    ASSUME ProcessInv, ProgramRuns, NEW o \in Objects,
           object[o].step \in {"reaping", "ready", "waiting"},
           process' = ClosedHandles(o, AfterWait(object[o].pid)),
           NEW step \in {"ready", "gone"}, NEW pid \in {object[o].pid, NoPid},
           object' = [object EXCEPT ![o].step = step, ![o].pid = pid, ![o].isOpen = FALSE],
           step = "gone" => pid = NoPid,
           NoExecError => pid = NoPid /\ (~IsChild(object[o].pid) \/ HasEnded(object[o].pid))
    PROVE  ProcessInv'
<1>. DEFINE table == AfterWait(object[o].pid)
<1>1. object[o].pid \in Pids \union {NoPid}
  BY DEF ProcessInv, ProcessType, ObjectType
<1>2. /\ table \in [Pids -> Processes]
      /\ table[Self] = process[Self]
      /\ \A q \in Pids : \/ table[q].owner = process[q].owner /\ table[q].status \in {process[q].status, "zombie"}
                         \/ q = object[o].pid /\ table[q] = FreePid
  BY <1>1, AfterWaitIs
<1>3. NoExecError /\ pid = NoPid /\ object[o].pid # NoPid => table[object[o].pid] = FreePid
  BY EndedChild
<1>4. process' = ClosedHandles(o, table)
  OBVIOUS
<1>5. step # "waiting" /\ step \in {"ready", "waiting", "gone"}
  OBVIOUS
<1>6. ~(NoExecError /\ pid # NoPid)
  OBVIOUS
<1>. HIDE DEF table
<1>. QED BY <1>2, <1>3, <1>4, <1>5, <1>6, WaitInv

LEMMA reapInv ==
    ASSUME ProcessInv, NEW o \in Objects, reap(o)
    PROVE  ProcessInv'
<1>1. ProgramRuns /\ object[o].step = "reaping" /\ object[o].pid \in Pids \union {NoPid}
  BY DEF reap, At, ProcessInv, ProcessType, ObjectType
<1>2. ~object[o].isOpen /\ ~NoExecError /\ object \in [Objects -> ObjectType]
  BY <1>1 DEF ProcessInv, MemberInv, ProcessType, NoExecError
<1>3. process' = ClosedHandles(o, AfterWait(object[o].pid))
  BY <1>2 DEF reap, ClosedHandles
<1>4. object' = [object EXCEPT ![o].step = "ready", ![o].pid = object[o].pid, ![o].isOpen = FALSE]
  BY <1>2 DEF reap, ObjectType
<1>. QED BY <1>1, <1>2, <1>3, <1>4, AfterWaitInv

LEMMA noLongerRunningInv ==
    ASSUME ProcessInv, ProgramRuns, NEW o \in Objects, object[o].step = "ready", ~IsRunning(o),
           NEW step \in {"ready", "gone"}, noLongerRunning(o, step)
    PROVE  ProcessInv'
<1>1. object[o].pid \in Pids \union {NoPid} /\ process \in [Pids -> Processes]
  BY DEF ProcessInv, ProcessType, ObjectType
<1>2. object' = [object EXCEPT ![o].step = step, ![o].pid = NoPid, ![o].isOpen = FALSE]
  <2>1. ~(object[o].isOpen /\ object[o].pid = NoPid)
    BY DEF ProcessInv, MemberInv
  <2>2. object \in [Objects -> ObjectType]
    BY DEF ProcessInv, ProcessType
  <2>3. object' = [object EXCEPT ![o].step = step, ![o].pid = NoPid,
                                 ![o].isOpen = object[o].isOpen /\ object[o].pid = NoPid]
    BY <2>2 DEF noLongerRunning, ObjectType
  <2>4. (object[o].isOpen /\ object[o].pid = NoPid) = FALSE
    BY <2>1
  <2>. HIDE DEF ObjectType
  <2>. QED BY <2>3, <2>4
<1>3. CASE object[o].pid = NoPid
  <2>1. process' = ClosedHandles(o, process)
    BY <1>3 DEF noLongerRunning, ClosedHandles, ProcessInv, MemberInv
  <2>2. \A q \in Pids : process[q].status \in {process[q].status, "zombie"}
    OBVIOUS
  <2>. QED BY <1>1, <1>2, <1>3, <2>1, <2>2, WaitInv
<1>4. CASE object[o].pid # NoPid
  <2>1. process' = ClosedHandles(o, AfterWait(object[o].pid))
    BY <1>4 DEF noLongerRunning
  <2>. QED BY <1>2, <2>1, AfterWaitInv DEF IsRunning
<1>. QED BY <1>3, <1>4

LEMMA isRunningInv ==
    ASSUME ProcessInv, NEW o \in Objects, isRunning(o)
    PROVE  ProcessInv'
BY noLongerRunningInv DEF isRunning, At

LEMMA waitInv ==
    ASSUME ProcessInv, NEW o \in Objects, wait(o)
    PROVE  ProcessInv'
<1>1. ProgramRuns /\ object[o].step = "ready" /\ process \in [Pids -> Processes] /\ object \in [Objects -> ObjectType]
  BY DEF wait, At, ProcessInv, ProcessType
<1>2. CASE ~IsRunning(o) /\ noLongerRunning(o, "gone")
  BY <1>1, <1>2, noLongerRunningInv
<1>3. CASE IsRunning(o) /\ closeHandles(o) /\ process' = ClosedHandles(o, process)
  <2>1. object' = [object EXCEPT ![o].step = "waiting", ![o].pid = object[o].pid, ![o].isOpen = FALSE]
    BY <1>1, <1>3 DEF closeHandles, ObjectType
  <2>2. object[o].pid # NoPid
    BY <1>3 DEF IsRunning, IsChild
  <2>3. NoExecError => process[object[o].pid].owner = o
    BY <1>1, <2>2 DEF ProcessInv, PidInv
  <2>. QED BY <1>1, <1>3, <2>1, <2>2, <2>3, WaitInv
<1>. QED BY <1>2, <1>3 DEF wait

LEMMA terminateInv ==
    ASSUME ProcessInv, NEW o \in Objects, terminate(o)
    PROVE  ProcessInv'
<1>1. ProgramRuns /\ object[o].step = "ready" /\ process \in [Pids -> Processes] /\ object \in [Objects -> ObjectType]
  BY DEF terminate, At, ProcessInv, ProcessType
<1>2. CASE ~IsRunning(o) /\ noLongerRunning(o, "gone")
  BY <1>1, <1>2, noLongerRunningInv
<1>3. CASE ~(~IsRunning(o) /\ noLongerRunning(o, "gone"))
  <2>. DEFINE p == object[o].pid
              table == [process EXCEPT ![p] = Ended(p)]
  <2>0. IsRunning(o) /\ closeHandles(o) /\ process' = ClosedHandles(o, table)
    BY <1>3 DEF terminate
  <2>1. object' = [object EXCEPT ![o].step = "waiting", ![o].pid = object[o].pid, ![o].isOpen = FALSE]
    BY <1>1, <2>0 DEF closeHandles, ObjectType
  <2>2. p \in Pids /\ p # NoPid /\ p # Self
    BY <1>1, <2>0 DEF IsRunning, IsChild, ObjectType, ProcessInv, OwnerInv
  <2>3. NoExecError => process[p].owner = o
    BY <1>1, <2>2 DEF ProcessInv, PidInv
  <2>4. Ended(p) \in Processes /\ Ended(p).owner = process[p].owner /\ Ended(p).status = "zombie"
    BY <1>1, <2>2, ZenonT(40) DEF Ended, Processes
  <2>5. /\ table \in [Pids -> Processes] /\ table[Self] = process[Self]
        /\ \A q \in Pids : table[q].owner = process[q].owner /\ table[q].status \in {process[q].status, "zombie"}
    BY <1>1, <2>2, <2>4, ProcessAssumption
  <2>. HIDE DEF p, table
  <2>6. p = object[o].pid
    BY DEF p
  <2>. QED BY <1>1, <2>0, <2>1, <2>2, <2>3, <2>5, <2>6, WaitInv, ZenonT(40)
<1>. QED BY <1>2, <1>3

LEMMA waitedInv ==
    ASSUME ProcessInv, NEW o \in Objects, waited(o)
    PROVE  ProcessInv'
<1>1. ProgramRuns /\ object[o].step = "waiting" /\ object[o].pid \in Pids \union {NoPid}
  BY DEF waited, At, ProcessInv, ProcessType, ObjectType
<1>2. ~object[o].isOpen /\ object[o].pid # NoPid /\ object \in [Objects -> ObjectType]
  BY <1>1 DEF ProcessInv, MemberInv, ProcessType
<1>3. process' = ClosedHandles(o, AfterWait(object[o].pid))
  BY <1>2 DEF waited, ClosedHandles
<1>4. object' = [object EXCEPT ![o].step = "gone", ![o].pid = NoPid, ![o].isOpen = FALSE]
  BY <1>2 DEF waited, ObjectType
<1>. QED BY <1>1, <1>2, <1>3, <1>4, AfterWaitInv DEF waited

LEMMA ForeignInv ==
    ASSUME ProcessInv, NEW p \in Pids, ForeignStart(p) \/ ForeignEnd(p)
    PROVE  ProcessInv'
<1>. USE DEF ProcessInv, ProcessType
<1>1. FreePid.owner = Other /\ Other \notin Objects /\ Other # Program
  BY ProcessAssumption DEF FreePid, Other, Program
<1>2. PICK x \in Processes :
        /\ process' = [process EXCEPT ![p] = x]
        /\ x.owner = Other /\ x.status \in {"free", "running"}
  <2>1. FreePid \in Processes /\ [FreePid EXCEPT !.status = "running"] \in Processes
    BY DEF FreePid, Processes
  <2>. QED BY <2>1, <1>1 DEF ForeignStart, ForeignEnd, FreePid
<1>3. process[p].owner \notin Objects /\ process[p].owner # Program
  BY <1>1 DEF ForeignStart, ForeignEnd, OwnerInv
<1>4. object' = object
  BY DEF ForeignStart, ForeignEnd
<1>5. process'[p] = x /\ \A q \in Pids \ {p} : process'[q] = process[q]
  BY <1>2
<1>6. process' \in [Pids -> Processes]
  BY <1>2
<1>7. OwnerInv' /\ MemberInv'
  BY <1>1, <1>2, <1>4, <1>5 DEF OwnerInv, MemberInv
<1>8. ProgramRuns' = ProgramRuns /\ (ProgramRuns => process'[Self] = process[Self])
  BY <1>1, <1>2, <1>3, <1>5, ProcessAssumption DEF ProgramRuns
<1>9. EndsInv'
  BY <1>4, <1>8 DEF EndsInv, HeldOf
<1>10. PidInv'
  BY <1>1, <1>2, <1>3, <1>4, <1>5, <1>8, SameOwners
<1>. QED BY <1>4, <1>6, <1>7, <1>9, <1>10

LEMMA ProcessStutter == ASSUME ProcessInv, UNCHANGED processVars PROVE ProcessInv'
BY DEF processVars, ProcessInv, ProcessType, OwnerInv, MemberInv, EndsInv, PidInv, ProgramRuns,
       HeldOf, NoExecError

LEMMA EndProgramInv == ASSUME ProcessInv, ProgramRuns, EndProgram PROVE ProcessInv'
BY ExitedInv, ChildIsNotSelf, ProcessAssumption DEF EndProgram

LEMMA ClientSendsInv ==
    ASSUME ProcessInv, ProgramRuns, NEW messages, NEW next, ClientSends(messages, next)
    PROVE  ProcessInv'
BY EndProgramInv, ProcessStutter DEF ClientSends

\* No step of the session breaks the invariant of the objects.
LEMMA ProcessStep == ASSUME ProcessInv, [SessionNext]_vars PROVE ProcessInv'
<1>1. Server \in Objects /\ Tool \in Objects
  BY SessionAssumption
<1>2. CASE UNCHANGED vars
  BY <1>2, ProcessStutter DEF vars
<1>3. CASE MainThread
  <2>1. CASE StartServer
    BY <1>1, <2>1, createPipesInv, failPipesInv, forkInv, failForkInv, readErrorInv, reapInv
       DEF StartServer, Construct
  <2>2. CASE ServerStarted \/ connect \/ hovered \/ joined \/ returnFromMain
    BY <2>2, ProcessStutter DEF ServerStarted, connect, hovered, joined, returnFromMain
  <2>3. CASE startup \/ initialized \/ shutdown
    BY <2>3, ClientSendsInv DEF startup, initialized, shutdown, ClientAt
  <2>4. CASE destroyProcess
    BY <1>1, <2>4, waitInv, waitedInv DEF destroyProcess
  <2>5. CASE exit
    BY <2>5, EndProgramInv DEF exit, ClientAt
  <2>. QED BY <1>3, <2>1, <2>2, <2>3, <2>4, <2>5 DEF MainThread
<1>4. CASE MessageThread
  BY <1>4, EndProgramInv, ProcessStutter DEF MessageThread, processIncomingMessages, endOfLoop
<1>5. CASE LanguageServer
  <2>1. ASSUME NEW kind, ServerReturns(kind) PROVE ProcessInv'
    <3>1. CASE UNCHANGED processVars
      BY <3>1, ProcessStutter
    <3>2. CASE \E p \in ServerPids : process' = Exited(p) /\ UNCHANGED <<object, listener>>
      <4>1. PICK p \in Pids : process[p].status = "running" /\ process[p].owner = Server
                              /\ process' = Exited(p) /\ UNCHANGED object
        BY <3>2 DEF ServerPids
      <4>2. p # Self
        BY <4>1, <1>1 DEF ProcessInv, OwnerInv
      <4>. QED BY <4>1, <4>2, ExitedInv
    <3>. QED BY <2>1, <3>1, <3>2 DEF ServerReturns
  <2>2. ASSUME NEW answers, NEW next, ServerSends(answers, next) PROVE ProcessInv'
    BY <2>1, <2>2, ProcessStutter DEF ServerSends
  <2>3. CASE setupForListen \/ listen \/ serverReadFails
    BY <2>3, ProcessStutter DEF setupForListen, listen, serverReadFails
  <2>4. CASE run
    BY <2>1, <2>4, ProcessStutter DEF run
  <2>5. CASE serverInitialize
    BY <2>2, <2>5 DEF serverInitialize
  <2>6. CASE serverHover \/ serverShutdown \/ serverExit \/ serverNotified
    BY <2>2, <2>6 DEF serverHover, serverShutdown, serverExit, serverNotified
  <2>. QED BY <1>5, <2>3, <2>4, <2>5, <2>6 DEF LanguageServer
<1>6. CASE ToolThread
  BY <1>1, <1>6, createPipesInv, failPipesInv, forkInv, failForkInv, readErrorInv, reapInv,
     isRunningInv, waitInv, terminateInv, waitedInv DEF ToolThread, Construct
<1>7. CASE Execute
  BY <1>7, execInv, failExecInv DEF Execute
<1>8. CASE ToolEnds
  <2>1. PICK p \in Pids : process[p].status = "running" /\ process[p].owner = Tool /\ process' = Exited(p)
    BY <1>8 DEF ToolEnds
  <2>2. p # Self /\ UNCHANGED object
    BY <1>1, <1>8, <2>1 DEF ToolEnds, ProcessInv, OwnerInv
  <2>. QED BY <2>1, <2>2, ExitedInv
<1>9. CASE Kill
  <2>1. CASE ProgramRuns /\ process' = Exited(Self)
    BY <1>9, <2>1, ExitedInv, ChildIsNotSelf, ProcessAssumption DEF Kill
  <2>2. CASE \E p \in ServerPids : process' = Exited(p)
    <3>1. PICK p \in Pids : process[p].status = "running" /\ process[p].owner = Server /\ process' = Exited(p)
      BY <2>2 DEF ServerPids
    <3>2. p # Self /\ UNCHANGED object
      BY <1>1, <1>9, <3>1 DEF Kill, ProcessInv, OwnerInv
    <3>. QED BY <3>1, <3>2, ExitedInv
  <2>. QED BY <1>9, <2>1, <2>2 DEF Kill
<1>10. CASE Foreign
  BY <1>10, ForeignInv DEF Foreign
<1>. QED BY <1>2, <1>3, <1>4, <1>5, <1>6, <1>7, <1>8, <1>9, <1>10 DEF SessionNext

-----------------------------------------------------------------------------
(* The messages. *)

\* The elements of two sequences, one after the other.
LEMMA Concatenation ==
    ASSUME NEW S, NEW s \in Seq(S), NEW t \in Seq(S)
    PROVE  /\ s \o t \in Seq(S)
           /\ \A i \in DOMAIN (s \o t) : \/ i \in DOMAIN s /\ (s \o t)[i] = s[i]
                                         \/ i - Len(s) \in DOMAIN t /\ (s \o t)[i] = t[i - Len(s)]
           /\ \A i \in DOMAIN (s \o t) : i \in Nat
<1>1. /\ Len(s) \in Nat /\ Len(t) \in Nat /\ DOMAIN s = 1 .. Len(s) /\ DOMAIN t = 1 .. Len(t)
      /\ s \o t \in Seq(S)
      /\ Len(s \o t) = Len(s) + Len(t)
      /\ DOMAIN (s \o t) = 1 .. (Len(s) + Len(t))
      /\ \A i \in 1 .. Len(s) + Len(t) : (s \o t)[i] = IF i <= Len(s) THEN s[i] ELSE t[i - Len(s)]
  BY ConcatProperties, LenProperties
<1>. QED BY <1>1

\* The elements of a sequence without its first.
LEMMA TailElements ==
    ASSUME NEW S, NEW s \in Seq(S), s # <<>>
    PROVE  /\ Tail(s) \in Seq(S) /\ Head(s) = s[1] /\ Head(s) \in S /\ 1 \in DOMAIN s
           /\ \A i \in DOMAIN Tail(s) : i + 1 \in DOMAIN s /\ Tail(s)[i] = s[i + 1] /\ i \in Nat /\ i # 0
           /\ Len(s) = 1 => Tail(s) = <<>>
<1>1. /\ Len(s) \in Nat /\ Len(s) > 0 /\ DOMAIN s = 1 .. Len(s)
      /\ Head(s) = s[1] /\ Head(s) \in S /\ Tail(s) \in Seq(S)
      /\ DOMAIN Tail(s) = 1 .. (Len(s) - 1)
      /\ \A i \in 1 .. (Len(s) - 1) : Tail(s)[i] = s[i + 1]
      /\ Len(Tail(s)) = Len(s) - 1
  BY HeadTailProperties, EmptySeq, LenProperties
<1>2. Len(s) = 1 => Tail(s) = <<>>
  BY <1>1, EmptySeq
<1>. QED BY <1>1, <1>2

LEMMA InitSession == ASSUME SessionInit PROVE SessionType /\ ProtocolInv
BY DEF SessionInit, SessionType, ClientType, ServerType, ProtocolInv, OneRequest, NewServer, NoPid, HasAnswer, Messages, Answers, WaitsFor

\* The client has no request or answer on the way when it waits for none.
LEMMA NothingOnTheWay ==
    ASSUME SessionType, ProtocolInv, \A m \in Requests : ~WaitsFor(m)
    PROVE  toClient = <<>> /\ \A i \in DOMAIN toServer : toServer[i] \notin Requests
<1>1. toClient # <<>> => toClient[1].method \in Requests
  <2>1. toClient \in Seq(Answers)
    BY DEF SessionType
  <2>2. toClient # <<>> => toClient[1] \in Answers
    BY <2>1, TailElements
  <2>. QED BY <2>2 DEF Answers
<1>. QED BY <1>1 DEF ProtocolInv, OneRequest

\* The client, which waited for nothing, sends messages with one request, and waits
\* for its answer.
LEMMA SendRequest ==
    ASSUME SessionType, ProtocolInv, \A m \in Requests : ~WaitsFor(m),
           NEW messages \in Seq(Messages),
           \A i, j \in DOMAIN messages : messages[i] \in Requests /\ messages[j] \in Requests => i = j,
           \A i \in DOMAIN messages : messages[i] \in Requests => WaitsFor(messages[i])',
           toServer' \in {toServer, toServer \o messages}, toClient' = toClient
    PROVE  toServer' \in Seq(Messages) /\ toClient' = <<>> /\ OneRequest'
<1>1. toClient = <<>> /\ \A i \in DOMAIN toServer : toServer[i] \notin Requests
  BY NothingOnTheWay
<1>2. toServer \in Seq(Messages) /\ Len(toServer) \in Nat
  BY DEF SessionType
<1>3. CASE toServer' = toServer
  BY <1>1, <1>2, <1>3 DEF OneRequest
<1>4. CASE toServer' = toServer \o messages
  <2>1. /\ toServer' \in Seq(Messages)
        /\ \A i \in DOMAIN toServer' : i \in Nat
        /\ \A i \in DOMAIN toServer' : toServer'[i] \in Requests =>
              i - Len(toServer) \in DOMAIN messages /\ toServer'[i] = messages[i - Len(toServer)]
    BY <1>1, <1>2, <1>4, Concatenation
  <2>2. ASSUME NEW i \in DOMAIN toServer', toServer'[i] \in Requests,
               NEW j \in DOMAIN toServer', toServer'[j] \in Requests
        PROVE  j = i
    <3>1. i - Len(toServer) = j - Len(toServer) /\ i \in Nat /\ j \in Nat
      BY <2>1, <2>2
    <3>. QED BY <3>1, <1>2
  <2>3. ASSUME NEW i \in DOMAIN toServer', toServer'[i] \in Requests
        PROVE  WaitsFor(toServer[i])'
    <3>1. PICK k \in DOMAIN messages : toServer'[i] = messages[k]
      BY <2>1, <2>3
    <3>2. WaitsFor(messages[k])'
      BY <2>3, <3>1
    <3>. QED BY <3>1, <3>2 DEF WaitsFor, HasAnswer
  <2>. QED BY <1>1, <2>1, <2>2, <2>3 DEF OneRequest
<1>. QED BY <1>3, <1>4

LEMMA SessionStutter ==
    ASSUME SessionType, ProtocolInv, UNCHANGED sessionVars
    PROVE  SessionType' /\ ProtocolInv'
BY DEF sessionVars, SessionType, ProtocolInv, OneRequest, WaitsFor, HasAnswer

\* The other answers and messages when what the client waits for does not change.
LEMMA SameWaits ==
    ASSUME SessionType, ProtocolInv, UNCHANGED <<toServer, toClient>>,
           \A m \in Requests : WaitsFor(m) => WaitsFor(m)'
    PROVE  OneRequest' /\ (toClient' # <<>> => Len(toClient') = 1 /\ WaitsFor(toClient[1].method)')
<1>1. \A i \in DOMAIN toServer : toServer[i] \in Requests =>
          WaitsFor(toServer[i]) /\ WaitsFor(toServer[i])'
  BY DEF ProtocolInv, OneRequest, WaitsFor, HasAnswer
<1>2. toClient # <<>> => toClient[1].method \in Requests
  <2>1. toClient \in Seq(Answers)
    BY DEF SessionType
  <2>2. toClient # <<>> => toClient[1] \in Answers
    BY <2>1, TailElements
  <2>. QED BY <2>2 DEF Answers
<1>3. toClient # <<>> => WaitsFor(toClient[1].method)'
  <2>1. toClient # <<>> => WaitsFor(toClient[1].method)
    BY DEF ProtocolInv
  <2>2. ASSUME toClient # <<>>, NEW m, m = toClient[1].method PROVE WaitsFor(toClient[1].method)'
    <3>1. WaitsFor(m)'
      BY <1>2, <2>1, <2>2
    <3>. QED BY <2>2, <3>1 DEF WaitsFor, HasAnswer
  <2>. QED BY <2>2
<1>. QED BY <1>1, <1>3 DEF ProtocolInv, OneRequest, WaitsFor, HasAnswer

\* The client goes on without a message.
LEMMA ClientMoves ==
    ASSUME SessionType, ProtocolInv,
           ServerStarted \/ connect \/ hovered \/ joined \/ returnFromMain \/ endOfLoop
    PROVE  SessionType' /\ ProtocolInv'
<1>1. client \in ClientType
  BY DEF SessionType
<1>2. UNCHANGED <<toServer, toClient, server>> /\ listener' \in {listener, "connected"}
  BY DEF ServerStarted, connect, hovered, joined, returnFromMain, endOfLoop
<1>3. client'.answers = client.answers /\ client'.m_running = client.m_running
      /\ client'.reads \in BOOLEAN
      /\ \/ client.step = "main" /\ client'.step \in {"startup", "end"}
         \/ client.step = "hover" /\ client'.step = "shutdown" /\ HasAnswer("hover")
         \/ client.step = "join" /\ client'.step = "wait"
         \/ client.step = "wait" /\ client'.step = "end"
         \/ client'.step = client.step
  BY <1>1 DEF ClientType, ServerStarted, connect, hovered, joined, returnFromMain, endOfLoop, GoTo, ClientAt
<1>4. SessionType'
  <2>1. client' \in ClientType
    BY <1>1 DEF ClientType, ServerStarted, connect, hovered, joined, returnFromMain, endOfLoop, GoTo
  <2>. QED BY <1>2, <2>1 DEF SessionType
<1>5. \A m : HasAnswer(m)' <=> HasAnswer(m)
  BY <1>3 DEF HasAnswer
<1>6. \A m \in Requests : WaitsFor(m) => WaitsFor(m)'
  BY <1>3, <1>5 DEF WaitsFor, Requests
<1>7. OneRequest' /\ (toClient' # <<>> => Len(toClient') = 1 /\ WaitsFor(toClient[1].method)')
  BY <1>2, <1>6, SameWaits
<1>8. ProtocolInv'
  BY <1>3, <1>5, <1>7 DEF ProtocolInv
<1>. QED BY <1>4, <1>8

\* The client sends a request, and goes to the step that waits for its answer.
LEMMA ClientRequests ==
    ASSUME SessionType, ProtocolInv,
           NEW messages \in Seq(Messages), NEW next \in ClientType, NEW method \in Requests,
           ClientSends(messages, next),
           \A i, j \in DOMAIN messages : messages[i] \in Requests /\ messages[j] \in Requests => i = j,
           \A i \in DOMAIN messages : messages[i] \in Requests => messages[i] = method,
           next.answers = client.answers,
           \/ client.step = "startup" /\ next.step = "initialize" /\ method = "initialize"
           \/ client.step = "initialize" /\ next.step = "hover" /\ method = "hover"
              /\ HasAnswer("initialize")
           \/ client.step = "shutdown" /\ next.step = "join" /\ method = "shutdown"
    PROVE  SessionType' /\ ProtocolInv'
<1>1. CASE EndProgram
  BY <1>1, SessionStutter DEF EndProgram
<1>2. CASE ~EndProgram
  <2>1. /\ toServer' \in {toServer, toServer \o messages} /\ client' = next
        /\ UNCHANGED <<toClient, server, listener>>
    BY <1>2 DEF ClientSends
  <2>2. \A m : HasAnswer(m)' <=> HasAnswer(m)
    BY <2>1 DEF HasAnswer
  <2>3. \A m \in Requests : ~WaitsFor(m)
    BY DEF WaitsFor
  <2>4. WaitsFor(method)'
    <3>1. ~HasAnswer(method)
      BY DEF ProtocolInv, HasAnswer
    <3>2. ~HasAnswer(method)'
      BY <3>1, <2>1 DEF HasAnswer
    <3>. QED BY <3>2, <2>1 DEF WaitsFor
  <2>5. ASSUME NEW i \in DOMAIN messages, messages[i] \in Requests PROVE WaitsFor(messages[i])'
    BY <2>4, <2>5
  <2>6. toServer' \in Seq(Messages) /\ toClient' = <<>> /\ OneRequest'
    BY <2>1, <2>3, <2>5, SendRequest
  <2>7. SessionType'
    BY <2>1, <2>6 DEF SessionType
  <2>8. ProtocolInv'
    <3>1. client.step = "startup" => \A m : ~HasAnswer(m)
      BY DEF ProtocolInv, HasAnswer
    <3>. QED BY <3>1, <2>1, <2>2, <2>6 DEF ProtocolInv
  <2>. QED BY <2>7, <2>8
<1>. QED BY <1>1, <1>2

LEMMA ClientSteps ==
    ASSUME SessionType, ProtocolInv, startup \/ initialized \/ shutdown
    PROVE  SessionType' /\ ProtocolInv'
<1>1. client \in ClientType
  BY DEF SessionType
<1>2. {"initialize", "hover", "shutdown", "initialized", "didOpen"} \subseteq Messages
      /\ Requests = {"initialize", "hover", "shutdown"}
  BY DEF Messages, Requests
<1>3. CASE startup
  <2>. DEFINE messages == <<"initialize">>
              next == [client EXCEPT !.step = "initialize", !.reads = TRUE, !.m_running = TRUE]
  <2>1. messages \in Seq(Messages) /\ DOMAIN messages = {1} /\ messages[1] = "initialize"
    BY <1>2
  <2>2. next \in ClientType /\ next.answers = client.answers /\ next.step = "initialize"
    BY <1>1 DEF ClientType
  <2>3. ClientSends(messages, next) /\ client.step = "startup"
    BY <1>3 DEF startup, ClientAt
  <2>. HIDE DEF messages, next
  <2>. QED BY <1>2, <2>1, <2>2, <2>3, ClientRequests
<1>4. CASE initialized
  <2>. DEFINE notified == IF Answer("initialize", TRUE) \in client.answers THEN <<"initialized">> ELSE <<>>
              messages == notified \o <<"didOpen", "hover">>
              next == GoTo("hover")
  <2>1. ClientSends(messages, next) /\ client.step = "initialize" /\ HasAnswer("initialize")
    BY <1>4 DEF initialized, ClientAt
  <2>2. next \in ClientType /\ next.answers = client.answers /\ next.step = "hover"
    BY <1>1 DEF ClientType, GoTo
  <2>3. /\ messages \in Seq(Messages)
        /\ \A i \in DOMAIN messages : messages[i] \in Requests => messages[i] = "hover" /\ i = Len(notified) + 2
    <3>4. notified = <<"initialized">> \/ notified = <<>>
      OBVIOUS
    <3>. HIDE DEF notified
    <3>1. notified \in Seq(Messages) /\ Len(notified) \in Nat
          /\ \A i \in DOMAIN notified : notified[i] = "initialized"
      <4>1. CASE notified = <<"initialized">>
        BY <1>2, <4>1
      <4>2. CASE notified = <<>>
        BY <4>2
      <4>. QED BY <3>4, <4>1, <4>2
    <3>2. <<"didOpen", "hover">> \in Seq(Messages)
      BY <1>2
    <3>3. \A k \in DOMAIN <<"didOpen", "hover">> :
              \/ k = 1 /\ <<"didOpen", "hover">>[k] = "didOpen"
              \/ k = 2 /\ <<"didOpen", "hover">>[k] = "hover"
      OBVIOUS
    <3>. QED BY <1>2, <3>1, <3>2, <3>3, Concatenation
  <2>. HIDE DEF notified, messages, next
  <2>. QED BY <1>2, <2>1, <2>2, <2>3, ClientRequests
<1>5. CASE shutdown
  <2>. DEFINE messages == <<"shutdown">>
              next == GoTo("join")
  <2>1. messages \in Seq(Messages) /\ DOMAIN messages = {1} /\ messages[1] = "shutdown"
    BY <1>2
  <2>2. next \in ClientType /\ next.answers = client.answers /\ next.step = "join"
    BY <1>1 DEF ClientType, GoTo
  <2>3. ClientSends(messages, next) /\ client.step = "shutdown"
    BY <1>5 DEF shutdown, ClientAt
  <2>. HIDE DEF messages, next
  <2>. QED BY <1>2, <2>1, <2>2, <2>3, ClientRequests
<1>. QED BY <1>3, <1>4, <1>5

\* The client takes the answer that it waits for.
LEMMA ClientReceives ==
    ASSUME SessionType, ProtocolInv, processIncomingMessages
    PROVE  SessionType' /\ ProtocolInv'
<1>1. CASE UNCHANGED sessionVars
  BY <1>1, SessionStutter
<1>2. CASE ~UNCHANGED sessionVars
  <2>0. client \in ClientType /\ toServer \in Seq(Messages) /\ toClient \in Seq(Answers)
    BY DEF SessionType
  <2>1. toClient # <<>>
    BY DEF processIncomingMessages
  <2>2. /\ Tail(toClient) = <<>> /\ Head(toClient) \in Answers
        /\ WaitsFor(Head(toClient).method)
        /\ \A i \in DOMAIN toServer : toServer[i] \notin Requests
    BY <2>0, <2>1, TailElements DEF ProtocolInv, OneRequest
  <2>3. /\ toClient' = <<>> /\ UNCHANGED <<server, listener>>
        /\ client'.step = client.step
        /\ \/ toServer' = Append(toServer, "exit") /\ client' = [client EXCEPT !.m_running = FALSE]
           \/ toServer' = toServer /\ client' = [client EXCEPT !.answers = @ \union {Head(toClient)}]
    BY <1>2, <2>0, <2>2 DEF processIncomingMessages, EndProgram, ClientType
  <2>4. toServer' \in Seq(Messages) /\ \A i \in DOMAIN toServer' : toServer'[i] \notin Requests
    <3>1. "exit" \in Messages /\ "exit" \notin Requests
      BY DEF Messages, Requests
    <3>2. /\ Append(toServer, "exit") \in Seq(Messages)
          /\ \A i \in DOMAIN Append(toServer, "exit") :
                \/ Append(toServer, "exit")[i] = "exit"
                \/ i \in DOMAIN toServer /\ Append(toServer, "exit")[i] = toServer[i]
      <4>1. /\ Append(toServer, "exit") \in Seq(Messages)
            /\ DOMAIN Append(toServer, "exit") = 1 .. (Len(toServer) + 1)
            /\ DOMAIN toServer = 1 .. Len(toServer) /\ Len(toServer) \in Nat
            /\ \A i \in 1 .. Len(toServer) : Append(toServer, "exit")[i] = toServer[i]
            /\ Append(toServer, "exit")[Len(toServer) + 1] = "exit"
        BY <2>0, <3>1, AppendProperties, LenProperties
      <4>. QED BY <4>1
    <3>. QED BY <2>0, <2>2, <2>3, <3>1, <3>2
  <2>5. SessionType'
    <3>1. client' \in ClientType
      BY <2>0, <2>2, <2>3 DEF ClientType
    <3>. QED BY <2>3, <2>4, <3>1 DEF SessionType
  <2>6. \A m : HasAnswer(m)' => HasAnswer(m) \/ m = Head(toClient).method
    BY <2>0, <2>3 DEF HasAnswer, ClientType
  <2>7. client.step \notin {"main", "startup"}
    BY <2>2 DEF WaitsFor
  <2>8. ProtocolInv'
    BY <2>2, <2>3, <2>4, <2>6, <2>7 DEF ProtocolInv, OneRequest, WaitsFor
  <2>. QED BY <2>5, <2>8
<1>. QED BY <1>1, <1>2

\* The server has processed a message; it answers a request, and only that.
LEMMA ServerAnswers ==
    ASSUME SessionType, ProtocolInv, toServer # <<>>,
           NEW answers \in Seq(Answers), NEW next \in ServerType, ServerSends(answers, next),
           Len(answers) \in {0, 1},
           answers # <<>> => Head(toServer) \in Requests /\ answers[1].method = Head(toServer)
    PROVE  SessionType' /\ ProtocolInv'
<1>0. toServer \in Seq(Messages) /\ toClient \in Seq(Answers) /\ server \in ServerType
  BY DEF SessionType, ServerType
<1>1. toServer' = Tail(toServer) /\ UNCHANGED client
  BY DEF ServerSends
<1>2. /\ server' \in ServerType
      /\ listener' \in {listener, "ended"}
      /\ toClient' \in {toClient, toClient \o answers}
  BY <1>0 DEF ServerSends, ServerReturns, ServerType
<1>3. /\ toServer' \in Seq(Messages)
      /\ \A i \in DOMAIN toServer' : i + 1 \in DOMAIN toServer /\ toServer'[i] = toServer[i + 1] /\ i \in Nat /\ i # 0
      /\ 1 \in DOMAIN toServer /\ Head(toServer) = toServer[1]
  BY <1>0, <1>1, TailElements
<1>4. \A m : WaitsFor(m)' <=> WaitsFor(m)
  BY <1>1 DEF WaitsFor, HasAnswer
<1>5. ASSUME answers # <<>>
      PROVE  /\ toClient = <<>> /\ Len(answers) = 1 /\ WaitsFor(answers[1].method)
             /\ \A i \in DOMAIN toServer' : toServer'[i] \notin Requests
  <2>1. toClient = <<>> /\ WaitsFor(toServer[1]) /\ \A j \in DOMAIN toServer : toServer[j] \in Requests => j = 1
    BY <1>3, <1>5 DEF ProtocolInv, OneRequest
  <2>2. Len(answers) = 1
    <3>1. Len(answers) \in Nat /\ Len(answers) # 0
      BY <1>5, EmptySeq, LenProperties
    <3>. QED BY <3>1
  <2>. QED BY <1>3, <1>5, <2>1, <2>2
<1>6. CASE toClient' = toClient
  <2>1. OneRequest'
    BY <1>3, <1>4, <1>6 DEF ProtocolInv, OneRequest
  <2>2. ProtocolInv'
    BY <1>1, <1>4, <1>6, <2>1 DEF ProtocolInv, HasAnswer
  <2>. QED BY <1>0, <1>1, <1>2, <1>3, <1>6, <2>2 DEF SessionType, ServerType
<1>7. CASE toClient' = toClient \o answers
  <2>1. CASE answers = <<>>
    BY <1>0, <1>6, <1>7, <2>1, ConcatEmptySeq
  <2>2. CASE answers # <<>>
    <3>1. toClient' = answers
      BY <1>5, <1>7, <2>2, ConcatEmptySeq
    <3>2. OneRequest'
      BY <1>5, <2>2 DEF OneRequest
    <3>3. ProtocolInv'
      BY <1>1, <1>4, <1>5, <2>2, <3>1, <3>2 DEF ProtocolInv, HasAnswer
    <3>. QED BY <1>1, <1>2, <1>3, <3>1, <3>3 DEF SessionType, ServerType
  <2>. QED BY <2>1, <2>2
<1>. QED BY <1>2, <1>6, <1>7

LEMMA ServerSteps ==
    ASSUME SessionType, ProtocolInv, LanguageServer
    PROVE  SessionType' /\ ProtocolInv'
<1>1. server \in ServerType /\ Self \in Pids
  BY ProcessAssumption DEF SessionType, ServerType
<1>2. CASE setupForListen \/ listen \/ run \/ serverReadFails
  <2>1. UNCHANGED <<client, toServer, toClient>>
    BY <1>2 DEF setupForListen, listen, run, serverReadFails
  <2>2. server' \in ServerType /\ listener' \in {"bound", "ended", "listening", listener}
    BY <1>1, <1>2 DEF setupForListen, listen, run, serverReadFails, ServerReturns, ServerType
  <2>. QED BY <2>1, <2>2 DEF SessionType, ServerType, ProtocolInv, OneRequest, WaitsFor, HasAnswer
<1>3. ASSUME NEW method \in Requests, NEW ok \in BOOLEAN, NEW next \in ServerType,
             toServer # <<>>, Head(toServer) = method, ServerSends(<<Answer(method, ok)>>, next)
      PROVE  SessionType' /\ ProtocolInv'
  <2>. DEFINE answers == <<Answer(method, ok)>>
  <2>1. answers \in Seq(Answers) /\ Len(answers) = 1 /\ answers[1].method = method
    BY DEF Answer, Answers
  <2>2. ServerSends(answers, next)
    BY <1>3
  <2>. HIDE DEF answers
  <2>. QED BY <1>3, <2>1, <2>2, ServerAnswers
<1>4. ASSUME NEW next \in ServerType, toServer # <<>>, ServerSends(<<>>, next)
      PROVE  SessionType' /\ ProtocolInv'
  <2>. DEFINE answers == <<>>
  <2>1. answers \in Seq(Answers) /\ Len(answers) = 0 /\ answers = <<>>
    OBVIOUS
  <2>2. ServerSends(answers, next)
    BY <1>4
  <2>. HIDE DEF answers
  <2>. QED BY <1>4, <2>1, <2>2, ServerAnswers
<1>5. "initialize" \in Requests /\ "hover" \in Requests /\ "shutdown" \in Requests
  BY DEF Requests
<1>6. /\ [server EXCEPT !.state = "Active", !.parent = Self] \in ServerType
      /\ [server EXCEPT !.state = "Shutdown"] \in ServerType
      /\ [server EXCEPT !.state = "Inactive"] \in ServerType
  BY <1>1 DEF ServerType
<1>7. CASE serverInitialize
  BY <1>1, <1>3, <1>5, <1>6, <1>7 DEF serverInitialize, Receives
<1>8. CASE serverHover
  BY <1>1, <1>3, <1>5, <1>8 DEF serverHover, Receives
<1>9. CASE serverShutdown
  BY <1>3, <1>5, <1>6, <1>9 DEF serverShutdown, Receives
<1>10. CASE serverExit \/ serverNotified
  BY <1>1, <1>4, <1>6, <1>10 DEF serverExit, serverNotified, Receives
<1>. QED BY <1>2, <1>7, <1>8, <1>9, <1>10 DEF LanguageServer

\* The steps of the other thread and of the system send no message.
LEMMA SessionStep ==
    ASSUME SessionType, ProtocolInv, [SessionNext]_vars
    PROVE  SessionType' /\ ProtocolInv'
<1>1. CASE UNCHANGED sessionVars
  BY <1>1, SessionStutter
<1>2. CASE UNCHANGED vars
  BY <1>1, <1>2 DEF vars
<1>3. CASE MainThread
  BY <1>1, <1>3, ClientMoves, ClientSteps DEF MainThread, StartServer, destroyProcess, exit, EndProgram
<1>4. CASE MessageThread
  BY <1>4, ClientReceives, ClientMoves DEF MessageThread
<1>5. CASE LanguageServer
  BY <1>5, ServerSteps
<1>6. CASE ToolThread \/ Execute \/ ToolEnds \/ Kill \/ Foreign
  BY <1>1, <1>6 DEF ToolThread, Execute, ToolEnds, Kill, Foreign
<1>. QED BY <1>2, <1>3, <1>4, <1>5, <1>6 DEF SessionNext

-----------------------------------------------------------------------------
(* The theorems. *)

\* IInv is an invariant: what each step of a Process has left open, which child is
\* whose (process.cpp), and which message the client waits for (client.cpp).
THEOREM Invariance == SessionSpec => []IInv
<1>1. SessionInit => IInv
  BY InitProcess, InitSession DEF IInv, SessionInit
<1>2. IInv /\ [SessionNext]_vars => IInv'
  BY ProcessStep, SessionStep DEF IInv
<1>. QED BY <1>1, <1>2, PTL DEF SessionSpec

\* The members of a Process say which pipes are open, and at most one answer is on
\* the way to the client (client.cpp: each request is followed by its result).
THEOREM TypeCorrect == SessionSpec => []TypeOK
<1>1. ASSUME IInv, NEW o \in Objects, ProgramRuns, object[o].isOpen
      PROVE  {End(o, "in", "w"), End(o, "out", "r")} \subseteq process[Self].ends
  BY <1>1 DEF IInv, ProcessInv, EndsInv, HeldOf, Handles
<1>2. IInv => Len(toClient) <= 1
  <2>1. IInv => Len(toClient) \in {0, 1}
    <3>1. toClient = <<>> => Len(toClient) = 0
      OBVIOUS
    <3>. QED BY <3>1 DEF IInv, ProtocolInv
  <2>2. \A n \in {0, 1} : n <= 1
    OBVIOUS
  <2>. QED BY <2>1, <2>2
<1>3. IInv => TypeOK
  BY <1>1, <1>2 DEF IInv, ProcessInv, ProcessType, ObjectType, SessionType, ClientType, ServerType,
     Answers, TypeOK
<1>. QED BY <1>3, Invariance, PTL

\* An object waits for and kills no process but the child it started, however pids are
\* used again (process.cpp:158), unless exec fails.
THEOREM OwnPid == SessionSpec => []PidIsOwn
<1>1. IInv => PidIsOwn
  BY DEF IInv, ProcessInv, PidInv, PidIsOwn, NoExecError
<1>. QED BY <1>1, Invariance, PTL

\* A Process that is gone leaves no child, no zombie and no pipe, but for the third when
\* fork fails (process.cpp:69).
THEOREM LeavesNothing == SessionSpec => []NothingLeft
<1>1. ASSUME IInv, NEW o \in Objects, ProgramRuns, object[o].step = "gone"
      PROVE  /\ process[Self].ends \intersect EndsOf(o) \in {{}, {End(o, "err", "r"), End(o, "err", "w")}}
             /\ (\A q \in Objects : ~object[q].execError) => \A p \in Pids : process[p].owner # o
  <2>1. object[o].pid = NoPid /\ ~object[o].isOpen
    BY <1>1 DEF IInv, ProcessInv, MemberInv
  <2>2. HeldOf(o) \in {{}, ErrorPipe(o)}
    BY <1>1, <2>1 DEF IInv, ProcessInv, EndsInv
  <2>3. NoPid \notin Pids
    BY ProcessAssumption DEF NoPid
  <2>. QED BY <1>1, <2>1, <2>2, <2>3 DEF IInv, ProcessInv, PidInv, NoExecError, HeldOf, ErrorPipe
<1>2. IInv => NothingLeft
  BY <1>1 DEF NothingLeft
<1>. QED BY <1>2, Invariance, PTL
=============================================================================
