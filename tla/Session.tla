------------------------------- MODULE Session -------------------------------
(***************************************************************************)
(* The example client and the example server (src/examples/client.cpp,     *)
(* server.cpp), connected by the pipes of a Process that the client starts *)
(* or by a socket. The client has a thread that reads; another thread of   *)
(* the same program may have a Process of its own, a tool. The client can  *)
(* be killed, the server too, and a write that nobody can read any more    *)
(* ends the program that writes (SIGPIPE, which no one handles).           *)
(*                                                                         *)
(* A message is sent and processed whole here: how it is framed is in      *)
(* Connection, how requests and answers are matched in OutgoingRequests    *)
(* and IncomingRequests.                                                   *)
(***************************************************************************)
EXTENDS Process, Sequences

CONSTANTS
    Server,      \* the Process object of the client
    Tool,        \* that of the other thread
    Transports   \* the ways to connect: {"pipe", "socket"}

ASSUME SessionAssumption == Objects = {Server, Tool} /\ Transports \subseteq {"pipe", "socket"}

VARIABLES
    transport,   \* how the client connects, from its arguments
    client,      \* its main thread (step), the thread that reads, m_running, the answers
    toServer,    \* messages on the way
    toClient,
    server,      \* m_state, m_parentProcessId and the loop of LanguageServer
    listener     \* the socket server: its listening socket, or that the program has ended

sessionVars == <<transport, client, toServer, toClient, server, listener>>
vars == <<processVars, sessionVars>>

Requests == {"initialize", "hover", "shutdown"}
Answer(method, ok) == [method |-> method, ok |-> ok]

NewServer == [state |-> "Uninitialized", parent |-> NoPid, step |-> "check"]

SessionInit ==
    /\ ProcessInit
    /\ transport \in Transports
    /\ client = [step |-> "main", reads |-> FALSE, m_running |-> FALSE, answers |-> {}]
    /\ toServer = <<>>
    /\ toClient = <<>>
    /\ server = NewServer
    /\ listener = "none"

-----------------------------------------------------------------------------
(* The two streams.                                                        *)

ServerPids == {p \in Pids : process[p].owner = Server /\ process[p].status = "running"}
ServerRuns == IF transport = "pipe" THEN ServerPids # {} ELSE listener = "connected"

ServerCanRead == IF transport = "pipe" THEN IsHeld(End(Server, "in", "r")) ELSE ServerRuns
ClientCanRead == IF transport = "pipe" THEN IsHeld(End(Server, "out", "r")) ELSE ProgramRuns
ServerAtEnd ==
    toServer = <<>> /\ IF transport = "pipe" THEN ~IsHeld(End(Server, "in", "w"))
                       ELSE ~ProgramRuns \/ client.step \in {"wait", "end"}

\* Without a process behind it the Process object has no pipe: the write is an error, which
\* sendRequest ignores.
ClientCanWrite == transport = "socket" \/ object[Server].isOpen

EndProgram ==
    /\ process' = Exited(Self)
    /\ UNCHANGED <<object, sessionVars>>

\* The client sends messages and goes on.
ClientSends(messages, next) ==
    IF ClientCanWrite /\ ~ServerCanRead THEN EndProgram
    ELSE /\ toServer' = IF ClientCanWrite THEN toServer \o messages ELSE toServer
         /\ client' = next
         /\ UNCHANGED <<processVars, transport, toClient, server, listener>>

-----------------------------------------------------------------------------
(* The client.                                                             *)

ClientAt(step) == ProgramRuns /\ client.step = step
GoTo(step) == [client EXCEPT !.step = step]

\* main: the Process, or the Socket. A connection is refused until the server listens.
StartServer ==
    /\ ClientAt("main")
    /\ transport = "pipe"
    /\ Construct(Server)
    /\ UNCHANGED sessionVars

ServerStarted ==
    /\ ClientAt("main")
    /\ object[Server].step = "ready"
    /\ client' = GoTo("startup")
    /\ UNCHANGED <<processVars, transport, toServer, toClient, server, listener>>

connect ==
    /\ ClientAt("main")
    /\ transport = "socket"
    /\ client' = GoTo(IF listener = "listening" THEN "startup" ELSE "end")
    /\ listener' = IF listener = "listening" THEN "connected" ELSE listener
    /\ UNCHANGED <<processVars, transport, toServer, toClient, server>>

startup ==
    /\ ClientAt("startup")
    /\ ClientSends(<<"initialize">>,
                   [client EXCEPT !.step = "initialize", !.reads = TRUE, !.m_running = TRUE])

HasAnswer(method) == \E a \in client.answers : a.method = method

\* The end of startup, and openDocument and hover, which follow whatever the result is.
initialized ==
    /\ ClientAt("initialize")
    /\ HasAnswer("initialize")
    /\ ClientSends((IF Answer("initialize", TRUE) \in client.answers THEN <<"initialized">> ELSE <<>>)
                   \o <<"didOpen", "hover">>,
                   GoTo("hover"))

hovered ==
    /\ ClientAt("hover")
    /\ HasAnswer("hover")
    /\ client' = GoTo("shutdown")
    /\ UNCHANGED <<processVars, transport, toServer, toClient, server, listener>>

shutdown ==
    /\ ClientAt("shutdown")
    /\ ClientSends(<<"shutdown">>, GoTo("join"))

\* messageLoop: one message. The callback for the shutdown sends the last message.
processIncomingMessages ==
    /\ ProgramRuns
    /\ client.reads
    /\ client.m_running
    /\ toClient # <<>>
    /\ LET answer == Head(toClient)
       IN  IF answer = Answer("shutdown", TRUE)
           THEN IF ClientCanWrite /\ ~ServerCanRead THEN EndProgram
                ELSE /\ toServer' = Append(toServer, "exit")
                     /\ toClient' = Tail(toClient)
                     /\ client' = [client EXCEPT !.m_running = FALSE]
                     /\ UNCHANGED <<processVars, transport, server, listener>>
           ELSE /\ client' = [client EXCEPT !.answers = @ \union {answer}]
                /\ toClient' = Tail(toClient)
                /\ UNCHANGED <<processVars, transport, toServer, server, listener>>

endOfLoop ==
    /\ ProgramRuns
    /\ client.reads
    /\ ~client.m_running
    /\ client' = [client EXCEPT !.reads = FALSE]
    /\ UNCHANGED <<processVars, transport, toServer, toClient, server, listener>>

\* shutdown returns, and the objects in main are destroyed: the client, and the Process, or
\* the Socket, which is closed.
joined ==
    /\ ClientAt("join")
    /\ ~client.reads
    /\ client' = GoTo("wait")
    /\ UNCHANGED <<processVars, transport, toServer, toClient, server, listener>>

destroyProcess ==
    /\ ClientAt("wait")
    /\ transport = "pipe"
    /\ wait(Server) \/ waited(Server)
    /\ UNCHANGED sessionVars

returnFromMain ==
    /\ ClientAt("wait")
    /\ transport = "pipe" => object[Server].step = "gone"
    /\ client' = GoTo("end")
    /\ UNCHANGED <<processVars, transport, toServer, toClient, server, listener>>

\* The process ends when the other thread has no Process any more.
exit ==
    /\ ClientAt("end")
    /\ object[Tool].step \in {"none", "gone"}
    /\ EndProgram

MainThread ==
    \/ StartServer
    \/ ServerStarted
    \/ connect
    \/ startup
    \/ initialized
    \/ hovered
    \/ shutdown
    \/ joined
    \/ destroyProcess
    \/ returnFromMain
    \/ exit

MessageThread == processIncomingMessages \/ endOfLoop

-----------------------------------------------------------------------------
(* The server.                                                             *)

\* runSocketServer. When the port is taken the listener is not ready and the program ends; it
\* listens when listen is called.
setupForListen ==
    /\ transport = "socket"
    /\ listener = "none"
    /\ listener' \in {"bound", "ended"}
    /\ UNCHANGED <<processVars, transport, client, toServer, toClient, server>>

listen ==
    /\ listener = "bound"
    /\ listener' = "listening"
    /\ UNCHANGED <<processVars, transport, client, toServer, toClient, server>>

\* The process ends, or the thread of the socket server, which leaves the listener as it says.
ServerReturns(socketServer) ==
    /\ server' = [server EXCEPT !.step = "returned"]
    /\ \/ transport = "socket" /\ listener' = socketServer /\ UNCHANGED processVars
       \/ \E p \in ServerPids : process' = Exited(p) /\ UNCHANGED <<object, listener>>

\* LanguageServer::isRunning, which run asks before each message.
ServerIsRunning_NoParent == server.state # "Inactive"    \* whether the parent exists or not
ServerIsRunning == server.state # "Inactive" /\ (server.parent = NoPid \/ exists(server.parent))

run ==
    /\ ServerRuns
    /\ server.step = "check"
    /\ IF ServerIsRunning
       THEN server' = [server EXCEPT !.step = "read"] /\ UNCHANGED <<processVars, listener>>
       ELSE ServerReturns("listening")
    /\ UNCHANGED <<transport, client, toServer, toClient>>

\* Where the server answers, or ends because nobody can read it: the whole of it, with the
\* other connections, when it is the socket server.
ServerSends(answers, next) ==
    /\ toServer' = Tail(toServer)
    /\ IF answers # <<>> /\ ~ClientCanRead THEN ServerReturns("ended") /\ UNCHANGED toClient
       ELSE /\ toClient' = toClient \o answers
            /\ server' = [next EXCEPT !.step = "check"]
            /\ UNCHANGED <<processVars, listener>>
    /\ UNCHANGED <<transport, client>>

Receives(message) ==
    /\ ServerRuns
    /\ server.step = "read"
    /\ toServer # <<>>
    /\ Head(toServer) = message

\* The parent is the one in the parameters; State::Active follows Uninitialized.
serverInitialize ==
    /\ Receives("initialize")
    /\ IF server.state \in {"Active", "Shutdown"} THEN ServerSends(<<Answer("initialize", FALSE)>>, server)
       ELSE ServerSends(<<Answer("initialize", TRUE)>>, [server EXCEPT !.state = "Active", !.parent = Self])

serverHover ==
    /\ Receives("hover")
    /\ ServerSends(<<Answer("hover", server.state = "Active")>>, server)

serverShutdown ==
    /\ Receives("shutdown")
    /\ ServerSends(<<Answer("shutdown", TRUE)>>, [server EXCEPT !.state = "Shutdown"])

serverExit ==
    /\ Receives("exit")
    /\ ServerSends(<<>>, [server EXCEPT !.state = "Inactive"])

\* initialized has no handler; didOpen changes nothing, whatever verifyInitialized says.
serverNotified ==
    /\ \E message \in {"initialized", "didOpen"} : Receives(message)
    /\ ServerSends(<<>>, server)

\* The stream has ended: processIncomingMessages returns, and run checks again.
serverReadFails ==
    /\ ServerRuns
    /\ server.step = "read"
    /\ ServerAtEnd
    /\ server' = [server EXCEPT !.step = "check"]
    /\ UNCHANGED <<processVars, transport, client, toServer, toClient, listener>>

LanguageServer ==
    \/ setupForListen
    \/ listen
    \/ run
    \/ serverInitialize
    \/ serverHover
    \/ serverShutdown
    \/ serverExit
    \/ serverNotified
    \/ serverReadFails

-----------------------------------------------------------------------------
(* The other thread, its tool, which ends when its input does, or before,  *)
(* and what may happen at any time.                                        *)

ToolThread ==
    /\ Construct(Tool) \/ isRunning(Tool) \/ wait(Tool) \/ terminate(Tool) \/ waited(Tool)
    /\ UNCHANGED sessionVars

\* The calls that the thread has begun.
ToolCall ==
    /\ object[Tool].step # "none"
    /\ Construct(Tool) \/ waited(Tool)
    /\ UNCHANGED sessionVars

Execute ==
    /\ \E p \in Pids : exec(p) \/ failExec(p)
    /\ UNCHANGED sessionVars

ToolAtEnd ==
    /\ ~IsHeld(End(Tool, "in", "w"))
    /\ \E p \in Pids : process[p].status = "running" /\ process[p].owner = Tool /\ process' = Exited(p)
    /\ UNCHANGED <<object, sessionVars>>

ToolEnds ==
    /\ \E p \in Pids : process[p].status = "running" /\ process[p].owner = Tool /\ process' = Exited(p)
    /\ UNCHANGED <<object, sessionVars>>

Kill ==
    /\ \/ ProgramRuns /\ process' = Exited(Self)
       \/ \E p \in ServerPids : process' = Exited(p)
    /\ UNCHANGED <<object, sessionVars>>

Foreign ==
    /\ \E p \in Pids : ForeignStart(p) \/ ForeignEnd(p)
    /\ UNCHANGED sessionVars

SessionNext ==
    \/ MainThread
    \/ MessageThread
    \/ LanguageServer
    \/ ToolThread
    \/ Execute
    \/ ToolEnds
    \/ Kill
    \/ Foreign

\* Threads and processes run; nobody is bound to kill, to begin a call, or to end a tool.
SessionSpec ==
    /\ SessionInit
    /\ [][SessionNext]_vars
    /\ WF_vars(MainThread)
    /\ WF_vars(MessageThread)
    /\ WF_vars(LanguageServer)
    /\ WF_vars(ToolCall)
    /\ WF_vars(Execute)
    /\ WF_vars(ToolAtEnd)

-----------------------------------------------------------------------------
(* Properties.                                                             *)

\* Everything is of its type, the members of a Process say which pipes are open, and there is
\* at most one answer on the way, because the client waits for each.
TypeOK ==
    /\ process \in [Pids -> Processes]
    /\ object \in [Objects -> [step : Steps, pid : Pids \union {NoPid}, isOpen : BOOLEAN, execError : BOOLEAN]]
    /\ \A o \in Objects : ProgramRuns /\ object[o].isOpen =>
          {End(o, "in", "w"), End(o, "out", "r")} \subseteq process[Self].ends
    /\ client.answers \subseteq [method : Requests, ok : BOOLEAN]
    /\ server.state \in {"Inactive", "Uninitialized", "Active", "Shutdown"}
    /\ listener \in {"none", "bound", "listening", "connected", "ended"}
    /\ Len(toClient) <= 1

\* process.cpp:158, m_pid = -1: the pid that an object has is that of the child it started, so
\* that it waits for no other and kills no other, although pids are used again. Only when
\* exec fails (109-115) the object keeps the pid of a process that is gone.
PidIsOwn ==
    (\A o \in Objects : ~object[o].execError) =>
        \A o \in Objects : ProgramRuns /\ object[o].pid # NoPid => process[object[o].pid].owner = o

\* process.cpp: when a Process is gone, so is its child, it is no zombie, and the program has
\* none of its pipes open, but for the third when fork fails (69-76).
NothingLeft ==
    \A o \in Objects :
        ProgramRuns /\ object[o].step = "gone" =>
            /\ process[Self].ends \intersect EndsOf(o) \in {{}, {End(o, "err", "r"), End(o, "err", "w")}}
            /\ (\A q \in Objects : ~object[q].execError) => \A p \in Pids : process[p].owner # o

\* The client comes to its end unless it loses the server (client.cpp: a thread waits for an
\* answer for ever then); the server ends when the client has, unless the pid of the client is
\* that of another process then, or a process has a copy of the client's end of the pipe; and
\* a wait for a process returns, unless a process has a copy of the end of its input.
ServerLost == ~ServerRuns /\ server.state # "Inactive"
SessionEnds ==
    /\ ClientAt("startup") ~> (~ProgramRuns \/ client.step = "end" \/ ServerLost)
    /\ (ServerRuns /\ server.parent = Self /\ ~ProgramRuns) ~>
          (~ServerRuns \/ exists(Self) \/ (transport = "pipe" /\ IsHeld(End(Server, "in", "w"))))
    /\ \A o \in Objects :
          (object[o].step = "waiting") ~> (object[o].step # "waiting" \/ ~ProgramRuns \/ IsHeld(End(o, "in", "w")))
=============================================================================
