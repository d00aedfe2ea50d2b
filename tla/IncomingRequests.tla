-------------------------- MODULE IncomingRequests --------------------------
(***************************************************************************)
(* The incoming half of lsp::MessageHandler: threads that call             *)
(* processIncomingMessages in a loop dispatch the requests of a packet (a  *)
(* single message or a batch) to the registered handlers and write the     *)
(* responses. The handlers of single requests may be asynchronous: a task  *)
(* of the thread pool waits for their future and writes the response. The  *)
(* pool is represented by what it promises, TaskExecutor, with one task    *)
(* per message. Sources: src/lsp/messagehandler.cpp, messagehandler.inl.   *)
(*                                                                         *)
(* The conversion of the parameters, a callback and a future may throw.    *)
(* There is no catch in the library: out of a loop the exception goes to   *)
(* the caller of processIncomingMessages, who catches it here and calls    *)
(* again; out of a task it ends the program (std::terminate). A write may  *)
(* fail, and the error is dropped. The library is built with NDEBUG: the   *)
(* assertion in line 96 is not there.                                      *)
(*                                                                         *)
(* A handler is described by what decides about the response: its class    *)
(* ("request" and "notification" for the two kinds of typed handlers,      *)
(* "generic" for the untyped overloads of add) and whether the callback    *)
(* returns a future.                                                       *)
(***************************************************************************)
EXTENDS Naturals, Sequences, FiniteSets

CONSTANTS
    Loops,      \* threads that call processIncomingMessages
    MaxThreads, \* m_maxThreads of the thread pool
    Registered, \* [Methods -> handler or NoHandler], what the program registers
    Removable,  \* methods whose handler is removed and added again
    Packets,    \* the packets the peer may send, each once
    IsBatch,    \* [Packets -> BOOLEAN]
    Content,    \* [Packets -> Seq(Messages)]
    Messages,   \* requests and notifications, each in one place of one packet
    IdOf,       \* [Messages -> Ids \union {Null, Absent}]
    MethodOf,   \* [Messages -> Methods]
    Throwing,   \* messages whose handling may throw
    Ids,        \* integer and string ids
    Null,       \* the id json::Null
    Absent,     \* std::nullopt, the message has no id; also a null MessageId*
    NoHandler

Methods == DOMAIN Registered

Handlers == [class : {"request", "notification", "generic"}, async : BOOLEAN]

ASSUME HandlersAssumption ==
    /\ MaxThreads \in Nat \ {0}
    /\ Registered \in [Methods -> Handlers \union {NoHandler}]
    /\ Removable \subseteq Methods

ASSUME MessagesAssumption ==
    /\ IsBatch \in [Packets -> BOOLEAN]
    /\ Content \in [Packets -> Seq(Messages)]
    /\ \A p \in Packets : Content[p] # <<>> /\ (~IsBatch[p] => Len(Content[p]) = 1)
    /\ IdOf \in [Messages -> Ids \union {Null, Absent}]
    /\ MethodOf \in [Messages -> Methods]
    /\ Throwing \subseteq Messages

\* A message is one place of one packet.
ASSUME PlacesAssumption ==
    \A p, q \in Packets : \A i \in DOMAIN Content[p], j \in DOMAIN Content[q] :
        Content[p][i] = Content[q][j] => p = q /\ i = j

\* The peer does not use an id for two of its requests.
ASSUME IdsAssumption ==
    /\ \A m, n \in Messages : IdOf[m] = IdOf[n] /\ IdOf[m] \in Ids => m = n
    /\ Null \notin Ids /\ Absent \notin Ids /\ Null # Absent

VARIABLES
    m_requestHandlersByMethod,
    received,                   \* packets that were read
    lpc,                        \* where each loop is
    todo,                       \* messages of its packet that were not processed yet
    allowAsync,                 \* the argument of processRequest
    t_currentRequestId,         \* thread_local
    responses,                  \* the response of line 33, the responseBatch of line 46
    output,                     \* packets written to the peer
    failed,                     \* the ids of responses whose write failed
    thrown,                     \* messages in whose handling each loop met an exception
    jobId,                      \* the id captured by the task of a message
    jobResponds,                \* does that task write a response?
    ready,                      \* messages whose future is ready
    open, pending, running, finished, \* the thread pool
    destructor                  \* "alive", "waits" in ~ThreadPool, "done", or the program
                                \* is "terminated"

poolVars == <<open, pending, running, finished>>
jobVars == <<jobId, jobResponds>>
loopVars == <<lpc, todo, allowAsync, t_currentRequestId, responses>>
writeVars == <<output, failed>>
vars == <<m_requestHandlersByMethod, received, lpc, todo, allowAsync, t_currentRequestId,
          responses, output, failed, thrown, jobId, jobResponds, ready, open, pending, running,
          finished, destructor>>

Pool == INSTANCE TaskExecutor WITH Tasks <- Messages

RangeOf(s) == {s[i] : i \in DOMAIN s}

Response == [id : Ids \union {Null}, ok : BOOLEAN]

TypeOK ==
    /\ m_requestHandlersByMethod \in [Methods -> Handlers \union {NoHandler}]
    /\ received \subseteq Packets
    /\ lpc \in [Loops -> {"read", "dispatch", "call", "get", "write"}]
    /\ todo \in [Loops -> Seq(Messages)]
    /\ allowAsync \in [Loops -> BOOLEAN]
    /\ t_currentRequestId \in [Loops -> Ids \union {Null, Absent}]
    /\ responses \in [Loops -> Seq(Response)]
    /\ output \in Seq(Seq(Response))
    /\ failed \subseteq Ids \union {Null}
    /\ thrown \in [Loops -> SUBSET Messages]
    /\ jobId \in [Messages -> Ids \union {Null, Absent}]
    /\ jobResponds \in [Messages -> BOOLEAN]
    /\ ready \subseteq Messages
    /\ open \in BOOLEAN
    /\ pending \in Seq(Messages)
    /\ running \subseteq Messages /\ Cardinality(running) <= MaxThreads
    /\ finished \subseteq Messages
    /\ destructor \in {"alive", "waits", "done", "terminated"}

Init ==
    /\ m_requestHandlersByMethod = Registered
    /\ received = {}
    /\ lpc = [l \in Loops |-> "read"]
    /\ todo = [l \in Loops |-> <<>>]
    /\ allowAsync = [l \in Loops |-> TRUE]
    /\ t_currentRequestId = [l \in Loops |-> Absent]
    /\ responses = [l \in Loops |-> <<>>]
    /\ output = <<>>
    /\ failed = {}
    /\ thrown = [l \in Loops |-> {}]
    /\ jobId = [m \in Messages |-> Absent]
    /\ jobResponds = [m \in Messages |-> FALSE]
    /\ ready = {}
    /\ Pool!Init
    /\ destructor = "alive"

-----------------------------------------------------------------------------
(* Registration, messagehandler.cpp:80 and 159. A program must not remove  *)
(* or replace a handler that a loop has looked up and not yet left: the    *)
(* loop calls it through an iterator after it released the mutex (line     *)
(* 110). NotInUse is that obligation of the caller, no condition of the    *)
(* code.                                                                   *)

HandlerOf(m) == m_requestHandlersByMethod[MethodOf[m]]

NotInUse(method) ==
    \A l \in Loops : lpc[l] \in {"call", "get"} => MethodOf[Head(todo[l])] # method

remove(method) ==
    /\ destructor = "alive"
    /\ NotInUse(method)
    /\ m_requestHandlersByMethod[method] # NoHandler
    /\ m_requestHandlersByMethod' = [m_requestHandlersByMethod EXCEPT ![method] = NoHandler]
    /\ UNCHANGED <<received, loopVars, writeVars, thrown, jobVars, ready, poolVars, destructor>>

addHandler(method) ==
    /\ destructor = "alive"
    /\ NotInUse(method)
    /\ m_requestHandlersByMethod[method] # Registered[method]
    /\ m_requestHandlersByMethod' =
            [m_requestHandlersByMethod EXCEPT ![method] = Registered[method]]
    /\ UNCHANGED <<received, loopVars, writeVars, thrown, jobVars, ready, poolVars, destructor>>

-----------------------------------------------------------------------------
(* processIncomingMessages and processRequest, messagehandler.cpp:23, 88.  *)

\* Line 25: some packet has arrived.
ReadPacket(l) ==
    /\ lpc[l] = "read"
    /\ destructor = "alive"
    /\ \E p \in Packets \ received :
        /\ received' = received \union {p}
        /\ todo' = [todo EXCEPT ![l] = Content[p]]
        /\ allowAsync' = [allowAsync EXCEPT ![l] = ~IsBatch[p]]
    /\ lpc' = [lpc EXCEPT ![l] = "dispatch"]
    /\ UNCHANGED <<m_requestHandlersByMethod, t_currentRequestId, responses, writeVars, thrown,
                   jobVars, ready, poolVars, destructor>>

\* Lines 97 to 105.
CurrentIdOf(m) == IF IdOf[m] = Absent THEN Null ELSE IdOf[m]

\* Variant: t_currentRequestId is a plain static, shared by all threads.
SetCurrentId_Static(l, id) == t_currentRequestId' = [k \in Loops |-> id]

SetCurrentId(l, id) == t_currentRequestId' = [t_currentRequestId EXCEPT ![l] = id]

\* Lines 90 to 107: a handler is registered. The id that an exception has left behind is
\* overwritten.
FindHandler(l) ==
    /\ lpc[l] = "dispatch"
    /\ HandlerOf(Head(todo[l])) # NoHandler
    /\ SetCurrentId(l, CurrentIdOf(Head(todo[l])))
    /\ lpc' = [lpc EXCEPT ![l] = "call"]
    /\ UNCHANGED <<m_requestHandlersByMethod, received, todo, allowAsync, responses, writeVars,
                   thrown, jobVars, ready, poolVars, destructor>>

\* Variant: the responses to a batch are written as soon as there is one.
EndRequest_Eager(l, resp) ==
    /\ responses' = [responses EXCEPT ![l] = @ \o resp]
    /\ todo' = [todo EXCEPT ![l] = Tail(@)]
    /\ lpc' = [lpc EXCEPT ![l] =
                IF responses'[l] # <<>> THEN "write" ELSE IF todo'[l] # <<>> THEN "dispatch" ELSE "read"]

\* processRequest returns resp, no response or one, and the loop goes on with the
\* next message of a batch (line 48) or, at the end, with the write if there is
\* anything to write (lines 35 and 63).
EndRequest(l, resp) ==
    /\ responses' = [responses EXCEPT ![l] = @ \o resp]
    /\ todo' = [todo EXCEPT ![l] = Tail(@)]
    /\ lpc' = [lpc EXCEPT ![l] =
                IF todo'[l] # <<>> THEN "dispatch" ELSE IF responses'[l] # <<>> THEN "write" ELSE "read"]

\* Line 118.
MethodNotFound(l) ==
    LET m == Head(todo[l])
    IN  /\ lpc[l] = "dispatch"
        /\ HandlerOf(m) = NoHandler
        /\ EndRequest(l, IF IdOf[m] = Absent THEN <<>> ELSE <<[id |-> IdOf[m], ok |-> FALSE]>>)
        /\ UNCHANGED <<m_requestHandlersByMethod, received, allowAsync, t_currentRequestId,
                       writeVars, thrown, jobVars, ready, poolVars, destructor>>

\* A typed request handler always creates a response (messagehandler.inl:51, 68,
\* 74), a notification handler never does (161), and a generic one unless the
\* current id is null (messagehandler.cpp:170).
Responds(h, id) == h.class = "request" \/ (h.class = "generic" /\ id # Null)

ResponsesOf(h, id, ok) == IF Responds(h, id) THEN <<[id |-> id, ok |-> ok]>> ELSE <<>>

\* The handler wrapper of a callback that returns its result. A typed request
\* callback may return an error (messagehandler.inl:24).
CallHandler(l) ==
    LET m == Head(todo[l])
        h == HandlerOf(m)
    IN  /\ lpc[l] = "call"
        /\ ~h.async
        /\ \E ok \in IF h.class = "request" THEN BOOLEAN ELSE {TRUE} :
                EndRequest(l, ResponsesOf(h, t_currentRequestId[l], ok))
        /\ SetCurrentId(l, Absent)
        /\ UNCHANGED <<m_requestHandlersByMethod, received, allowAsync, writeVars, thrown, jobVars,
                       ready, poolVars, destructor>>

\* Variant: whether a response is due is only found out in the worker thread, which
\* has no current request id.
CaptureJob_InWorker(l, m) ==
    /\ jobId' = [jobId EXCEPT ![m] = t_currentRequestId[l]]
    /\ jobResponds' = [jobResponds EXCEPT ![m] = Responds(HandlerOf(m), Null)]

\* What the lambda given to addTask captures (messagehandler.cpp:194, inl:59, 144).
CaptureJob(l, m) ==
    /\ jobId' = [jobId EXCEPT ![m] = t_currentRequestId[l]]
    /\ jobResponds' = [jobResponds EXCEPT ![m] = Responds(HandlerOf(m), t_currentRequestId[l])]

\* A callback that returns a future, for a single message: a task waits for it.
CallAsyncHandler(l) ==
    LET m == Head(todo[l])
    IN  /\ lpc[l] = "call"
        /\ HandlerOf(m).async
        /\ allowAsync[l]
        /\ Pool!Submit(m)
        /\ CaptureJob(l, m)
        /\ EndRequest(l, <<>>)
        /\ SetCurrentId(l, Absent)
        /\ UNCHANGED <<m_requestHandlersByMethod, received, allowAsync, writeVars, thrown, ready,
                       destructor>>

\* ... and in a batch: the loop itself waits for it (cpp:205, inl:68, 110, 151, 192).
CallAsyncInBatch(l) ==
    /\ lpc[l] = "call"
    /\ HandlerOf(Head(todo[l])).async
    /\ ~allowAsync[l]
    /\ lpc' = [lpc EXCEPT ![l] = "get"]
    /\ UNCHANGED <<m_requestHandlersByMethod, received, todo, allowAsync, t_currentRequestId,
                   responses, writeVars, thrown, jobVars, ready, poolVars, destructor>>

GetFuture(l) ==
    LET m == Head(todo[l])
    IN  /\ lpc[l] = "get"
        /\ m \in ready
        /\ EndRequest(l, ResponsesOf(HandlerOf(m), t_currentRequestId[l], TRUE))
        /\ SetCurrentId(l, Absent)
        /\ UNCHANGED <<m_requestHandlersByMethod, received, allowAsync, writeVars, thrown, jobVars,
                       ready, poolVars, destructor>>

\* fromJson of the parameters (messagehandler.inl:44, 130) or the callback throws, also one
\* that was to return a future, or the future that a batch waits for has an exception. The
\* rest of the packet and the responses to what came before are destroyed, and line 114 is
\* not reached.
HandlerThrows(l) ==
    LET m == Head(todo[l])
    IN  /\ lpc[l] = "call" \/ (lpc[l] = "get" /\ m \in ready)
        /\ m \in Throwing
        /\ thrown' = [thrown EXCEPT ![l] = @ \union {m}]
        /\ todo' = [todo EXCEPT ![l] = <<>>]
        /\ responses' = [responses EXCEPT ![l] = <<>>]
        /\ lpc' = [lpc EXCEPT ![l] = "read"]
        /\ UNCHANGED <<m_requestHandlersByMethod, received, allowAsync, t_currentRequestId,
                       writeVars, jobVars, ready, poolVars, destructor>>

\* writeMessage, whose error nobody looks at (messagehandler.cpp:36, 64 and 219): the
\* responses are in the output or lost.
Write(written) ==
    \/ output' = Append(output, written) /\ UNCHANGED failed
    \/ failed' = failed \union {r.id : r \in RangeOf(written)} /\ UNCHANGED output

\* Variant: the vector of responses outlives the packet.
Dropped_Never(l) == responses

Dropped(l) == [responses EXCEPT ![l] = <<>>]

\* Lines 36 and 64.
WriteResponses(l) ==
    /\ lpc[l] = "write"
    /\ Write(responses[l])
    /\ responses' = Dropped(l)
    /\ lpc' = [lpc EXCEPT ![l] = IF todo[l] = <<>> THEN "read" ELSE "dispatch"]
    /\ UNCHANGED <<m_requestHandlersByMethod, received, todo, allowAsync, t_currentRequestId,
                   thrown, jobVars, ready, poolVars, destructor>>

-----------------------------------------------------------------------------
(* The futures and the tasks that wait for them. *)

Awaited == RangeOf(pending) \union running
             \union {Head(todo[l]) : l \in {k \in Loops : lpc[k] = "get"}}

\* The code behind the future of an asynchronous callback finishes, with or without a
\* result.
BecomeReady(m) ==
    /\ destructor # "terminated"
    /\ m \in Awaited \ ready
    /\ ready' = ready \union {m}
    /\ UNCHANGED <<m_requestHandlersByMethod, received, loopVars, writeVars, thrown, jobVars,
                   poolVars, destructor>>

\* Variant: the pool starts a thread for every task.
StartJob_Unbounded ==
    /\ destructor # "terminated"
    /\ Pool!Start
    /\ UNCHANGED <<m_requestHandlersByMethod, received, loopVars, writeVars, thrown, jobVars,
                   ready, destructor>>

\* A worker takes the oldest task; there are at most MaxThreads workers.
StartJob ==
    /\ destructor # "terminated"
    /\ Cardinality(running) < MaxThreads
    /\ Pool!Start
    /\ UNCHANGED <<m_requestHandlersByMethod, received, loopVars, writeVars, thrown, jobVars,
                   ready, destructor>>

\* The task: future.get, then sendResponse (messagehandler.cpp:196, inl:61, 103, 146).
FinishJob(m) ==
    /\ destructor # "terminated"
    /\ m \in ready
    /\ Pool!Finish(m)
    /\ IF jobResponds[m] THEN Write(<<[id |-> jobId[m], ok |-> TRUE]>>) ELSE UNCHANGED writeVars
    /\ UNCHANGED <<m_requestHandlersByMethod, received, loopVars, thrown, jobVars, ready,
                   destructor>>

\* future.get throws: the exception leaves the function of a std::thread
\* (threadpool.cpp:83).
JobThrows(m) ==
    /\ destructor # "terminated"
    /\ m \in running \intersect ready \intersect Throwing
    /\ destructor' = "terminated"
    /\ UNCHANGED <<m_requestHandlersByMethod, received, loopVars, writeVars, thrown, jobVars,
                   ready, poolVars>>

-----------------------------------------------------------------------------
(* ~MessageHandler, once no loop is in processIncomingMessages any more:   *)
(* its member m_threadPool is drained.                                     *)

BeginDestructor ==
    /\ destructor = "alive"
    /\ \A l \in Loops : lpc[l] = "read"
    /\ Pool!Close
    /\ destructor' = "waits"
    /\ UNCHANGED <<m_requestHandlersByMethod, received, loopVars, writeVars, thrown, jobVars,
                   ready>>

\* Variant: the destructor does not wait for the tasks.
EndDestructor_NoJoin ==
    /\ destructor = "waits"
    /\ destructor' = "done"
    /\ open' = TRUE
    /\ UNCHANGED <<m_requestHandlersByMethod, received, loopVars, writeVars, thrown, jobVars,
                   ready, pending, running, finished>>

EndDestructor ==
    /\ destructor = "waits"
    /\ Pool!Reopen
    /\ destructor' = "done"
    /\ UNCHANGED <<m_requestHandlersByMethod, received, loopVars, writeVars, thrown, jobVars,
                   ready>>

-----------------------------------------------------------------------------
LoopStep(l) ==
    /\ destructor # "terminated"
    /\ \/ FindHandler(l)
       \/ MethodNotFound(l)
       \/ CallHandler(l)
       \/ CallAsyncHandler(l)
       \/ CallAsyncInBatch(l)
       \/ GetFuture(l)
       \/ HandlerThrows(l)
       \/ WriteResponses(l)

Next ==
    \/ \E l \in Loops : ReadPacket(l) \/ LoopStep(l)
    \/ \E m \in Messages : BecomeReady(m) \/ FinishJob(m) \/ JobThrows(m)
    \/ StartJob
    \/ \E method \in Removable : remove(method) \/ addHandler(method)
    \/ BeginDestructor
    \/ EndDestructor

Spec == Init /\ [][Next]_vars

\* Every thread that can run is scheduled and every future becomes ready. The pool
\* executes what it accepted (ThreadPool, EveryTaskExecuted). Nobody has to send a
\* packet, change a handler, destroy the message handler or throw.
Fairness ==
    /\ \A l \in Loops : WF_vars(LoopStep(l))
    /\ \A m \in Messages : WF_vars(BecomeReady(m)) /\ WF_vars(FinishJob(m))
    /\ WF_vars(StartJob)
    /\ WF_vars(EndDestructor)

FairSpec == Spec /\ Fairness

-----------------------------------------------------------------------------
(* Properties. *)

Received == UNION {RangeOf(Content[p]) : p \in received}

\* The requests that have to be answered. A request that was sent to the method of
\* a notification is not one of them: the typed wrapper ignores its id.
Owed == {m \in Messages :
            /\ IdOf[m] \in Ids
            /\ Registered[MethodOf[m]] # NoHandler => Registered[MethodOf[m]].class # "notification"}

\* The places in the output that hold a response with this id.
Places(id) ==
    {place \in UNION {{i} \X DOMAIN output[i] : i \in DOMAIN output} :
        output[place[1]][place[2]].id = id}

Answered(m) == Places(IdOf[m]) # {}

\* An exception came out of the handling of a message of the same packet.
Aborted(m) ==
    \E l \in Loops : \E n \in thrown[l] : \E p \in received : {m, n} \subseteq RangeOf(Content[p])

\* There is no answer because of an exception or a write that failed.
Excused(m) == Aborted(m) \/ IdOf[m] \in failed

\* No request is answered twice, and no response bears the id of a request that was
\* not received, whichever thread writes it and whenever its future is ready.
AtMostOneResponse ==
    \A id \in Ids :
        /\ Cardinality(Places(id)) <= 1
        /\ Places(id) # {} => \E m \in Received : IdOf[m] = id

\* The responses to a batch are written together: a packet that answers one message
\* of a batch answers all of its requests, and nothing from outside of it.
BatchAnsweredWhole ==
    \A i \in DOMAIN output : \A p \in received :
        LET written == {r.id : r \in RangeOf(output[i])} \intersect Ids
            batch == {IdOf[m] : m \in RangeOf(Content[p])}
            owed == {IdOf[m] : m \in RangeOf(Content[p]) \intersect Owed}
        IN  IsBatch[p] /\ written \intersect batch # {} =>
                owed \subseteq written /\ written \subseteq batch

\* In a callback currentRequestId is the id of the request that the same thread
\* processes. Outside it is not set, as messagehandler.cpp:96 asserts, unless a handler
\* has thrown in this thread: then it may still be the id of that message (line 114).
CurrentIdIsOwn ==
    \A l \in Loops :
        IF lpc[l] \in {"call", "get"}
        THEN t_currentRequestId[l] = CurrentIdOf(Head(todo[l]))
        ELSE t_currentRequestId[l] \in {Absent} \union {CurrentIdOf(m) : m \in thrown[l]}

\* ~MessageHandler returns only when every request that was received and asks for
\* a response has been answered, those of asynchronous handlers included. A request is
\* left without an answer only by an exception in its own packet or by its write.
DestructorAnswersAll ==
    destructor = "done" => \A m \in Received \intersect Owed : Answered(m) \/ Excused(m)

\* Every request that was received and asks for a response is answered, with the same
\* two exceptions, and unless a task has ended the program.
EveryRequestAnswered ==
    \A m \in Owed :
        m \in Received ~> Answered(m) \/ Excused(m) \/ destructor = "terminated"

\* README.md:198, "an error response should be sent back. In order to do that simply throw
\* an lsp::RequestError from inside of the callback": a request whose callback has thrown
\* is answered when everything is over.
ThrownErrorIsSent ==
    destructor = "done" => \A l \in Loops : \A m \in thrown[l] \intersect Owed :
        Answered(m) \/ IdOf[m] \in failed

\* README.md:238, notifications "don't have a message id and don't receive a
\* response": a response has the null id only if a request with that id came.
NotificationsUnanswered ==
    \A i \in DOMAIN output : \A r \in RangeOf(output[i]) :
        r.id = Null => \E m \in Received : IdOf[m] = Null
=============================================================================
