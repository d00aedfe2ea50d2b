# A TLA+ model of lsp-framework

The library (`src/lsp`) implements the Language Server Protocol for C++ programs on
either end: typed messages, JSON-RPC over a byte stream, requests and their responses,
asynchronous handlers on a thread pool. This directory holds TLA+ specifications of the
library, of the generator of its types (`src/lspgen`) and of its example programs
(`src/examples`), TLC configurations that check them on small instances, and proofs that
TLAPS checks for every instance. Paths below are relative to the repository.

## 1. The system

| component | files, in `src/lsp` if not said | state | operations |
|---|---|---|---|
| ThreadPool | `threadpool.*` | FIFO of tasks, threads, `m_waitForNewTasks`, a mutex, one condition variable | `addTask`, `waitUntilFinished`, the worker's loop, the destructor |
| MessageHandler, outgoing | `messagehandler.*`, `requestresult.h` | `m_pendingRequests` and its mutex, a static id counter, `t_currentRequestId` | `sendRequest` (future or callbacks), `sendNotification`, `processResponse` |
| MessageHandler, incoming | `messagehandler.*` | `m_requestHandlersByMethod` and its mutex, the pool, `t_currentRequestId` | `add`, `remove`, `processIncomingMessages`, `processRequest`, `sendResponse`, the destructor |
| Connection | `connection.*` | a read mutex, a write mutex, the stream | `readMessage`, `writeMessage`, the header reader |
| Streams | `io/*` | a descriptor or stdio | blocking `read` and `write` of a whole buffer; `Socket`, `SocketListener` |
| Process | `process.*` | a child process and its pipes | start, wait, terminate, a stream over the pipes |
| JsonRpc | `jsonrpc/*` | none | classification and checking of messages and batches |
| Json | `json/*` | a stack while parsing | `parse`, `stringify` |
| Uri, FileUri | `uri.*`, `fileuri.*` | one string and lengths of its parts | `parse`, `toString`, setters, percent encoding |
| Serialization, value types | `serialization.h`, `nullable.h`, `enumeration.h`, ... | none | `toJson`, `fromJson` |
| Examples | `src/examples/*` | the server's state and the pid of its parent, the client's flag and its thread that reads | a client that starts a server, or connects to one, and talks to it |
| Code generator | `src/lspgen/*` | the names it has seen, the calls that are running, what it has written | writes the message types at build time |

How they interact. An application thread calls `sendRequest`, which registers a result
object and writes a frame through `Connection`. One or more threads call
`processIncomingMessages` in a loop: it reads a frame, gives responses to
`processResponse` and requests to a handler, which answers at once, or returns a future.
A future of a single request is given to `ThreadPool`, whose worker writes the response
when it is ready; a future in a batch is awaited by the loop. So application threads,
loops and workers meet at four mutexes (two of `Connection`, two of `MessageHandler`),
at the pool's mutex, at the byte stream and at thread-local state.

What makes each part correct, and hard:

- *ThreadPool.* No accepted task is lost, by a lost wake-up or by the destructor's drain;
  tasks start in order; a drain ends. Idle workers and callers that were blocked by a
  drain wait on the same condition variable; the join loop reads `m_threads` unlocked.
- *Outgoing requests.* Each request is completed once, by its own answer, however early,
  late or often the peer answers and however far the id counter has gone.
- *Incoming requests.* Each request gets one response with its own id; a batch gets one
  packet; asynchronous answers survive the handler's destruction; thread-local ids.
- *Connection.* Messages are read whole, once and in order, whichever threads write and
  read; after a failed write or a malformed frame nothing is invented; the end of the
  stream reaches every reader.
- *Streams, Process.* What a read reports at the end of the input; a child that fails to
  start; pids that are used again; pipe ends that a child inherits and nobody closes.
- *Json.* The parser takes exactly the texts of the grammar, ends on every text, and its
  stack of pointers into a value that grows never holds a stale one.
- *JsonRpc, serialization, code generator.* What is read is what was written, through the
  choice of variant alternatives by their looks, and for types in the order in which the
  generator has to write them.
- *Uri.* Five parts in one string, cut by lengths: no operation disturbs another part.
- *Examples.* Both programs come to their end, whichever of them dies first.

Every hazard is listed at its line, with the properties that guard it, in `PROJECT.json`.

## 2. Plan

| # | modules | what | state |
|---|---|---|---|
| 1 | `TaskExecutor`, `ThreadPool`, `ThreadPoolProofs` | the pool, its abstract promise, proofs | done |
| 2 | `OutgoingRequests`, `OutgoingRequestsProofs` | requests this program sends, proofs | done |
| 3 | `IncomingRequests`, `IncomingRequestsProofs` | requests it answers, over `TaskExecutor`, proofs | done |
| 4 | `MessageChannel`, `Connection`, `ConnectionProofs` | framing over a byte stream, its promise, proofs | done |
| 5 | `Characters`, `JsonText`, `JsonParser`, `JsonGrammar`, `JsonStringify`, `JsonParserProofs` | the JSON parser step by step against the grammar, `stringify`, proofs | done |
| 6 | `JsonRpc`, `JsonRpcProofs`, `CppGenerator`, `Serialization` | messages and typed values, to JSON and back, for the types that the generator writes | done, `messages.h` left out |
| 7 | `UriParts`, `Uri`, `UriProofs` | the URI in one string, its abstract promise, proofs | done |
| 8 | `Wire` | 5 to 7 composed: from a value in one program to the value in the other | done |
| 9 | `Process`, `Session`, `SessionProofs` | processes, pids and pipes; the example client and server over them; proofs | done |
| 10 | two endpoints with bounded streams in both directions | writes that block while a mutex is held | open |

Who uses whom: `IncomingRequests` runs its jobs in `TaskExecutor`; `ThreadPool` implements
it. `Connection` implements `MessageChannel`. `Serialization` takes its types from
`CppGenerator`, its JSON from `JsonRpc` and `JsonText`, its URIs from `Uri`, which implements
`UriParts`; `Wire` adds `JsonStringify` and `JsonParser`, which `JsonGrammar` is the reference
for. `Session` extends `Process` and takes messages whole.

## 3. The modules

### ThreadPool and TaskExecutor

`TaskExecutor` is what a caller may rely on: an open flag, a queue of accepted tasks, the
running and the finished ones. `ThreadPool` is the code. Each critical section of
`m_mutex` is one action; what happens outside of it is another:

| action | code in `threadpool.cpp` |
|---|---|
| `CallAddTask`, `BlockAddTask`, `PushTask`, `NotifyOne` | `addTask`: arrive at 45, wait at 48, push and maybe add a thread 50-55, `notify_one` 56 |
| `WorkerWaits`, `TakeTask`, `WorkerExits`, `FinishTask` | the loop of `addThread`: 71, 73-77, 80, 83 |
| `CloseQueue`, `NotifyAll`, `JoinAndReopen`, `NotifyReopened` | `waitUntilFinished`: 25, 28, 30-37, 40 |
| `SpuriousWakeup` | any wait may return |

A waiting thread is one whose program counter is `"wait"` (a worker) or `"blocked"` (a
caller), and `NotifyOne` picks any of both kinds. Tasks may call `addTask` themselves
(`Spawns`, `TaskCalls`). The refinement mapping sends the queue to `pending` and the
tasks in workers' hands to `running`.

### OutgoingRequests

Threads of the application and readers (threads in `processIncomingMessages`) against a
peer that answers what it has received, more than once if it likes, alone or in batches, also
with a result of another type than the request expects, and ids that nobody
sent. `RegisterRequest` takes the mutex, numbers the request and enters it into the
table; `WriteRequest` writes (or fails: the code drops that error) and releases the mutex.
`FindPending` and `IgnoreResponse` are the two outcomes of the look-up. The result object is
called with no mutex held, so a response callback may call `sendRequest`; `CompleteRequest`
is its return, `CompletionThrows` the exception out of the conversion of a result of the
wrong type or out of the callback (`messagehandler.inl:268`, `287`). The entry has left the
table by then, so the request fails without a completion (`Failed`: a broken promise, or two
callbacks of which none is called), the id stays in `t_currentRequestId`, and the
rest of the batch is not processed (`abandoned`: the ids of those answers). Nothing in the
library catches; the program catches what `processIncomingMessages` throws and calls it again.
A program that does not catch ends there: its runs are beginnings of these. Ids wrap at `IdCount`, which stands for 2^32; the assumption is that there
are not more requests than ids.

### IncomingRequests

Loops that dispatch the messages of a packet to handlers, and the tasks of the pool,
represented by `TaskExecutor` with at most `MaxThreads` running. A handler is a class
(typed request, typed notification, generic) and whether it returns a future: this
decides whether there is a response, who writes it and from which id. `EndRequest` is the
return of `processRequest`, and what the loop does with its response.

What may throw or fail does (for the messages in `Throwing`): the conversion of the parameters, a callback, before or
after it has returned its future, and the future. In a loop (`HandlerThrows`) the exception leaves
`processIncomingMessages` with the rest of the packet and the responses that were collected, and the id stays in
`t_currentRequestId` until the next request overwrites it; the program catches it and calls again. In a
task of the pool (`JobThrows`) it ends the program. A write may fail (`Write`), and its
error is dropped. The assertions that no id is set (`messagehandler.cpp:96`, `142`) are not there in a
build with `NDEBUG`, which the models describe; in one without it the program ends at the next request after
an exception. `remove` and
`addHandler` are taken under the obligation `NotInUse`: the code calls the handler
through an iterator after releasing the mutex, so a program must not remove a handler
that is running. A message is named by its place in its packet: nothing in a message is
its name, and two messages may be equal but for their ids.

### Connection and MessageChannel

`MessageChannel` has a queue of sent messages, the messages taken, and a flag for a
stream that lost its framing, after which the oldest messages may be lost. `Connection`
has writers, readers and the symbols between them: the text of a header line, CR, LF, and
the bytes of a body. A symbol is named by its place in the frame of a message; a reader sees
what is written at that place, never the place. Writing and reading go symbol by symbol through a bounded pipe, so
every interleaving of partial writes, partial reads and locks is there. A write may fail
anywhere in a frame (`FailWrite`), a peer that does not use this library may send a
frame without a length, of an unknown type or with a body that is no message, and the
stream may be closed anywhere (`CloseStream`). Sockets and standard input differ where
the code differs: a socket reports an end inside of a body (`ContentLost`), standard
input does not, and the message is parsed with zero bytes in its place (`UnlockRead`).
`InputReader`'s one peeked byte is left in the pipe until it is consumed. `ParseContent` ends in one
of four ways: the content type is wrong and nothing happens, a message is returned (`Deliver`), an
error response is written (`Refuse`), or an unchecked access or `std::stod` throws out of `readMessage`
and nothing is written (`Throw`; `jsonrpc.cpp:45`, `91`, `152`, `json.cpp:323`). The last happens with no
mutex held. Which body does what is its `Kind`; `JsonParser` and `JsonRpc` say which texts
and objects throw. Three things are
abstracted: bytes other than a sent body are never valid JSON-RPC (they are refused or throw), several
error responses to a batch count as one, and the error
responses that `readMessage` writes are counted, not sent, as they go in the other direction.
The refinement mapping sends the messages that were `written` to the last byte, without
those whose last byte has left the stream and the reader's hands (`Gone`), to the queue.

### JsonText, JsonParser, JsonGrammar, JsonStringify, JsonRpc

Texts are sequences of bytes. `JsonText` has the values, string literals with their
escapes and the texts of other scalars, `JsonStringify` what `stringify` writes; `JsonParser` is `class Parser`: one action
per handler (`handleValue`, `handleObject`, `handleObjectKey`, `handleArray`,
`UnexpectedEnd`, `EndOfText`) over the stack of contexts. A pointer on the stack is the path
of its value in the result, so that "the pointer is still good" is a statement about paths.
`JsonGrammar` has the grammar (`Denoted`), written without the parser, as the reference. What
`std::stod` and `std::from_chars` do is external, with their exceptions and limits. Only the
grammar and the writer are `RECURSIVE`: a tree and a path in it need no more than recursive
functions (`NodeAt`, `With`), so that the parser can be proved about.
`JsonRpc` has the functions of `jsonrpc.cpp`; what can come out of one is a set, empty for a
`ProtocolError`, with `Thrown` where an unchecked access throws and with every integer
where a conversion is undefined. Bytes are real bytes; the names of members are one letter
each (`MCWire!MCK`), and numbers have two digits (`IntMax` for 2^31 - 1, `LongMax` for
2^63 - 1, `DecimalPlaces` for 6, `ExponentMax` for 308).

### UriParts and Uri

`UriParts` is a record of five parts and three flags; each operation assigns the part it names.
`Uri` is the code: `m_data`, five lengths, inserts that replace the characters between what
is before and what is behind. The mapping reads the parts through the accessors. A `Uri` is
a record, so that `parse` and `FileUri` are operators on it. Lengths and the counts of `parse` have
16 bits (`LengthCount`), so that a part which fits but whose encoded text does not is cut
(`PathIsCounted` says when it is not). `normalizeEncodedCase`,
`encode` and `decode` are as in the code, including that one wrong escape makes the whole
text empty.

### CppGenerator and Serialization

`CppGenerator` keeps the recursion of `generate` as a stack of calls: `generateTypes` takes the
next name, `generateType` one type that the innermost call needs, `writeDefinition` writes
and returns. What is written is a record per type: its C++ type, the fields with their
constants, `requiredProperties` and `literalProperties`. `Compiles` is the C++ compiler's judgement of
the order: two types that contain each other give a header that it does not take. `Serialization` interprets these
records as the compiler does the templates: `toJson`, `fromJson`, `canDeserialize` and
`variantIndex` are operators on a C++ type and a value.

### Wire

The stages of one message: the generator runs to its end or a program edits a `Uri`; a
message, a batch, a Uri or a value of a generated type is written (`SendMessage`, `SendUri`,
`SendValue`), or the peer is another program and sends what it likes (`ReceiveForeign`);
the parser runs over the text (`ParseText`); `readMessage` takes the result (`ReadMessage`),
and a result in a response is read as the type that the program expects. `IsLost` names the typed
values that do not arrive: the JSON of a value is also accepted by an alternative of its variant that
comes first (`serialization.h:329`), as a sent `InlineValueRegistrationOptions` is by `InlineValueOptions` (the metamodel
`Providers`, after `metaModel.json:8646`), or a Uri in it has no text of its own. If the
header does not compile there is no message.

### Process and Session

`Process` has a table of processes with the pipe ends each of them holds. `createPipes`,
`fork`, `readError` and `reap` are the steps of the constructor, `failPipes`, `failFork` and
`failExec` its failures, `isRunning`, `wait`, `terminate`, `waited` the other operations;
`waitpid`, `kill` and `exists` act on the pid, whoever has it now. `Session` is the two
example programs. Each handler of the server is an action, the client's main thread goes
through `startup`, `initialized`, `hovered`, `shutdown`, `joined`, and its other thread takes
answers and runs the callback that sends `exit`. A second thread of the client has a Process
of its own (`Tool`), so that the pipe ends of both get into the children of each other.
Either program may be killed, other processes take pids, and a write that nobody can read
ends the program that writes.

The modules `MC...` give the constants their values. Definitions named `X_Suffix` are
variants of `X` with a plausible mistake in them; nothing uses them, and substituting one
for `X` makes TLC refute the property that `PROJECT.json` names.

## 4. The runs

| run | instance and bounds | why they suffice |
|---|---|---|
| `threadpool` | 5 tasks (one submits another), 3 callers, no initial thread and at most 3 | one caller can block, one push and one be woken in place of a worker; a drain can start at any point, repeatedly |
| `threadpool_live` | 4 tasks, 2 callers, 1 initial thread and at most 2 | smaller, because liveness does not allow symmetry; still a caller blocks while a task of the pool submits another |
| `outgoing` | 2 requests (a callback, a future), an application thread, 2 readers, as many ids as requests, packets of 1 or 2 responses, an inbox of 2 | the counter wraps to 0; duplicates and strays can arrive while two readers are busy; an answer can be behind one whose completion throws |
| `incoming` | 2 loops, 1 worker, 3 single packets and a batch of 3, two methods removed and added, an asynchronous request and a message of the batch that throw, writes that fail | two asynchronous requests compete for one worker; a batch mixes the kinds of handlers and has a request for a method of notifications, which may be gone when it is looked up; the one in the middle throws, with a response collected before it and a request left behind it |
| `connection` | 2 writers, 2 readers, 4 frames (one whose body makes the parser throw), a pipe of 1 symbol, a failed write | every frame is longer than the pipe, so writers and readers interleave within frames; the long body swallows all of a following frame |
| `connection_live` | 2 writers, 2 readers, 2 frames (one that cannot be understood, one that throws), a pipe of 1 symbol | both frames compete for both locks; closing at every symbol |
| `wire` | 6 metamodels in the manner of the LSP's (inheritance, mixins, constants, alternatives also with the less specific one first, literals, tuples, maps, a type that contains itself, two that contain each other), lengths below 8, values to depth 2, URI texts of up to 3 characters, about 26,000 foreign texts (all of up to 4 characters of punctuation, longer ones with members, nested brackets, escapes and numbers) and several hundred foreign messages | every category of type and every branch of `fromJson`, `messageFromJson` and the parser is taken; brackets in brackets put two pointers into arrays on the parser's stack; edits of a Uri run until no new one is reached |
| `session` | 3 pids, 2 Process objects, both transports | the pid of the program, of a child, and one that is used again by a child or a stranger |
| `future_error`, `notification_answered`, `thrown_error`, `lost_connection` | small | counterexamples, see below |

What the runs show is in the comment of each property. Those that took most thought:

- `NoLostWakeup`: `notify_one` may wake a blocked caller of `addTask` in place of a worker
  although the queue has a task. It is no lost wake-up, because that caller will push and
  notify again, or will be blocked by a drain that notifies all.
- `ImplementsExecutor`, `DrainedOnReturn`: a drain returns only when everything accepted
  has run. The exception is in the liveness properties: a task that itself calls `addTask`
  during a drain waits for the drain that waits for it, and both wait for ever.
- `AtMostOneStalled`: the pool adds a thread only when more than one task is queued; so
  one task, never two, can wait behind busy workers although more threads were allowed.
- `NoRequestForgotten`, `AnswerFindsRequest`, `CompletedByOwnAnswer`, `AnswerCompletes`:
  a table that is filled before the write, emptied under the mutex, and completed outside
  of it, against answers at any moment. A request fails only by a result of the wrong type that answers
  it, and is left pending by an answer only when that was in a batch behind an exception.
- `AtMostOneResponse`, `BatchAnsweredWhole`, `DestructorAnswersAll`, `EveryRequestAnswered`:
  who writes which response, with which id, whichever thread runs the handler. The last two have two
  exceptions, a request in whose packet an exception was thrown and one whose write failed, and
  `EveryRequestAnswered` a third, the program that a throwing task has ended. `CurrentIdIsOwn`: in a
  callback the id is the right one, also in a thread where an exception has left one behind.
- `ImplementsChannel`: reading is whole, once, in order. `TakenIsAccountedFor`: a message
  that was taken is delivered, refused, lost with the exception that its body causes or, only for its
  content type or on a damaged stream, dropped. `RepliesAreDue`: on an intact stream one error response
  for each message that could not be understood, and none for one that throws.
- `ParsedAsGrammar`, `PointersStable`, `ParsingProgresses`: whatever the text, the parser
  ends, with the one value that the grammar gives it or with an error, after at most two
  iterations for each character. No iteration is stuck: only a message that was read
  (`Ended`) goes no further, and TLC looks for deadlocks. Two things a reader may not expect
  are in the model: `std::stod` throws through `parse`, and a pointer into an array on the
  stack is always one to its last element.
- `SentIsReceived`: messages, batches, typed values and URIs survive the way through text.
  The exceptions are exact: what `IsLost` names never arrives as it was. That is a Uri whose text means
  another (`IsAmbiguous`: an authority
  and a path without a slash, no authority and a path with two) or is too long to be counted, and
  a value that an earlier alternative of its variant accepts.
- `ForwardedUnchanged`: whatever another program sent, what was made of it is stable: sent
  on and read again it is the same.
- `DefinedBeforeUse`: a generated type is complete before it is used, also when a type contains
  itself. If two contain each other the header does not compile, and only then; the LSP's
  metamodel has no such pair.
- `ImplementsUri`: each operation changes its own part only.
- `PidIsOwn`, `NothingLeft`: an object never waits for or kills a process that is not its
  child; when it is gone so are the child and the pipes. The exceptions: after a failed
  `exec` the pid stays, after a failed `fork` one pipe does (`process.cpp:109`, `69`).
- `SessionEnds`: both programs end. The property names the cases in which they do not:
  the client waits for ever when the server is lost; the server stays after a client that
  died before it said who it is, when the pid of a dead client is used again, or while a
  copy of the client's end of the pipe is held by another child; and so stays a wait for a
  process whose input another child holds open.

Disagreements between the code and its documentation, each with a run that exhibits it:

- `future_error`: an error response sets a future to a default value; `README.md:210`
  promises that the future rethrows it.
- `notification_answered`: a message without an id for a typed request handler is answered
  with a null id; `README.md:238` says notifications have no response.
- `thrown_error`: a request whose callback throws is not answered, as nothing catches the exception;
  `README.md:198` says that throwing `lsp::RequestError` sends an error response.
- `lost_connection`: if the stream ends within a header line `readMessage` never returns;
  `connection.h:20` describes the error for a lost connection, and it is returned when
  the stream ends anywhere else.

Fairness. Every liveness property assumes that a thread that can run is scheduled, and
that a mutex starves nobody (weak fairness of steps, strong fairness where a lock is
contended for in a loop). Beyond this: a task's code makes progress, an asynchronous
callback's future becomes ready, with a result or an exception, a write ends (`OutgoingRequests`), a reading program
calls `readMessage` or `processIncomingMessages` again (its loop, `README.md:125`), also after it has
caught an exception. In `session` the main thread and the
reading thread of the client, the server, a child between `fork` and `exec`, and a call of the
other thread that has begun go on; a tool ends once its input has. Nobody is assumed to send,
to call, to close, or to choose well: `notify_one`, spurious wake-ups, failures, the peer and
the owner have no fairness, nor have exceptions, kills, other processes and new calls of the tool's
thread.

`CHECK_DEADLOCK FALSE` is in the runs where the system may stop: a pool whose drain waits
for a task that waits for it, a channel that was closed, peers with nothing more to say, a
client that waits for a lost server.

## 5. Proofs

`ThreadPoolProofs` proves, for any set of tasks, any number of callers and any
finite number of workers, from the assumptions `ThreadsAssumption` and `TasksAssumption` of
`ThreadPool` alone:

- `TypeCorrect`, `WakeupsAreNotLost`, `StallIsBounded`: the invariants `TypeOK`,
  `NoLostWakeup`, `AtMostOneStalled`;
- `JoinIsNotRaced`, `DrainIsComplete`: the action properties `ThreadsStableWhileJoining`,
  `DrainedOnReturn`;
- `Refinement`: `ImplementsExecutor`.

The inductive invariant `IInv` ties a task's status to the one place where the task is
(caller, queue or worker: `CallerInv`, `QueueInv`, `WorkerTaskInv`), the pool's flag to
the owner's position (`GateInv`), threads to program counters (`ThreadInv`), and states
the life of the threads in a drain (`DrainInv`: no worker exits while a task is queued,
none sleeps once the owner has notified all). `NoLostWakeup` alone is not inductive: the
step in which a blocked caller is woken needs that callers are blocked only while the
pool is closed or about to be notified again (`CallerInv`), and the step in which the
owner has joined needs `DrainInv`. There is one lemma per action, with one step per
conjunct. `StallIsBounded` has its own strengthening, stated before its theorem. The
refinement lemmas map each action to a step of `TaskExecutor` or a stutter, and use that
the queue and the workers hold distinct tasks.

`OutgoingRequestsProofs` proves, for any number of threads, any finite set of requests and
any number of ids that is not smaller (`IdsAssumption`):

- `TypeCorrect`, `NothingIsForgotten`, `AnswersAreExpected`, `CompletionIsOwn`,
  `CallbacksMaySend`: the invariants `TypeOK`, `NoRequestForgotten`, `AnswerFindsRequest`,
  `CompletedByOwnAnswer`, `CallbackMaySend`;
- `CompletionIsFinal`: the action property `CompletedOnce`.

The heart of it is the counter. `CounterInv` says that the ids given out are exactly the
first values of the counter, the last of which may be the wrapped 0, and are all
different; with not more requests than ids it follows (`FreshId`) that the next id is
unused, so `RegisterRequest` overwrites no entry of the table. `TableInv` and `ReaderInv`
say that a result object is in one place, the table or one reader, under its own id;
`SenderInv` ties the mutex to the write, and `PeerInv` says that what can be answered was
registered first, and that every answer on its way, in the rest of a batch too, is recorded. An
exception changes nothing in this: the result object is in one place until it is destroyed, and
then its request has failed. `NoRequestForgotten` is not inductive alone, because a step that
registers a request keeps it only if the new id is fresh.

`UriProofs` proves, for any texts whose length fits into a length field
(`UriAssumption`) and any width of it:

- `UriSafe`: the string of a Uri is its parts one behind the other (`Consistent`);
- `UriIsItsParts`: `ImplementsUri`;
- `DecodeReadsEncode`: `decode(encode(s)) = s` for every text of bytes;
- `UriIsReadBack`: whatever a program did with a Uri, if it is valid and its text is not
  ambiguous, and that of its path is not too long for a count of 16 bits (`PathIsCounted`), then
  `parse(toString(uri)) = uri` (`ReadBack`). The other parts are in the text as they are in the
  string, so that their lengths fit. Through JSON, TLC checks the same on
  the Uris of `Wire` (`SentIsReceived`), and also that the ambiguous ones are never read back.

The inductive invariant `UriInv` says that the lengths add up to that of the string and that
an absent part has length 0. `Consistent`, which says that the string is what the accessors
cut out of it, follows from it (`InvariantIsConsistent`) but is not inductive
without the sum: an insert keeps the other parts only if the part it replaces ends within the
string. For each insert one lemma shows what `m_data.replace` does to the substrings before
it, at it and behind it (lemmas on `SubSeq` of concatenations come first), and the
refinement has one lemma per operation. That all lengths are exact needs the assumption:
without it a length is cut to 16 bits and the parts behind move.

For the text a second invariant says that the parts are what the setters accept and normalising
leaves them as they are (`LegalParts`, `LegalStep`). `encode` and `decode` are recursive functions;
that such a function exists, and what it does at each place, is proved by induction over a set
of natural numbers (`SetInduction`, from `WFMin`, which takes no operator as a parameter). Where
the byte i is in the encoded text (`EncodedAt`) tells what `decode` finds there (`DecodedByte`). `parse` is
followed from the last part to the first (`FragmentRead` up to `SchemeRead`): what is before a
part has none of the characters at which that part begins, so each is cut off whole; its count is not
cut to fewer bits when it fits (`CountIs`). `RestIsClear` is
the only place that needs `~IsAmbiguous`. What `parse` makes has the same parts and the invariant,
and the parts determine the object (`UriIsDetermined`).

`IncomingRequestsProofs` proves, for any number of loops and workers, any handlers and any
packets, from the assumptions of `IncomingRequests`: a message is one place of one packet
(`PlacesAssumption`) and the peer gives an id to one of its requests only (`IdsAssumption`):

- `TypeCorrect`, `CurrentIdIsRight`, `BatchIsAnsweredWhole`, `AnsweredOnce`,
  `NoneLeftUnanswered`: the invariants `TypeOK`, `CurrentIdIsOwn`, `BatchAnsweredWhole`,
  `AtMostOneResponse`, `DestructorAnswersAll`.

The invariant follows a message on its way: it is with one loop, once, or in the queue of the
pool, or with a worker, or its task is finished (`PlaceInv`); as long as it is at one of the
first three there is no response with its id, and an id is in one response, of one loop or
written or lost with its write (`ResponseInv`); a request to which an answer is due is at one of the
three places, has its response, that write has failed, or an exception has ended its packet
(`OwedInv`). An exception takes the rest of the packet and the responses to it away together, so that
no place in `PlaceInv` and no packet in the output is left half done. `JobInv` says that a task carries the id that was current when it
was made, and is never of a batch; `PacketInv` that what a loop has is of one packet, of which
it has, if it is a batch, every answer that is due to what it has processed. None of the
properties is inductive by itself: a second response can only be refused when the message is
known not to be elsewhere. `BatchAnsweredWhole` says that the packet written has all the
answers that are due and none that is not of the batch; that it has exactly those due is
false, as the proof found: a request for a method of notifications gets no answer while the
handler is there and an error once it was removed (`messagehandler.cpp:117`).

`ConnectionProofs` proves, for any writers and readers, any messages of any kinds and sizes, and
a stream of any capacity, from `MessagesAssumption` alone:

- `TypeCorrect`, `TakenAccounted`, `RepliesDue`: the invariants `TypeOK`,
  `TakenIsAccountedFor`, `RepliesAreDue`;
- `Refinement`: `ImplementsChannel`.

The argument is about the symbol that comes next: the first in the stream or, when that is empty, the
one that the holder of the write mutex writes next (`Coming`). `WriterInv` and `PipeInv` say
that only the holder is within a frame and that in the stream a symbol is followed by the
next one of its frame or by a new frame, by a new frame only after a whole one unless the stream is
damaged. As long as it is not, `Aligned` says that the reader with the mutex is exactly where
the coming symbol wants it, with the header and the content that were read so far. Two things hold in a
damaged stream too. The last bytes of messages keep the order in which they were written, of
the first ones nothing is on the way, those of the next are in the content that is being
read, the others in the stream (`FifoInv`, `Split`): this is the refinement, where writing a last byte is
`Send`, unlocking with a whole body is `Take`, and whatever else makes last bytes leave
is `Lose`. And the body of a message with another content type is never read with a header that has
a length and the right type (`SuspectInv`), which `TakenIsAccountedFor` needs, as a lost frame could
otherwise lend its header to the next. `TakenInv` says that a message is in the hands of one reader
and, until that one has parsed it, neither delivered nor refused nor lost with an exception.
`RepliesInv` counts the replies: one for each message that was refused, and `TakenIsAccountedFor` says that
these are the ones that were parsed and are no JSON-RPC.

`SessionProofs` proves, for any set of pids, from `ProcessAssumption` (pids are positive, the
program itself and the other programs are not among the objects) and `SessionAssumption`:

- `TypeCorrect`, `OwnPid`, `LeavesNothing`: the invariants `TypeOK`, `PidIsOwn`, `NothingLeft`.

`OwnerInv`, `MemberInv` and `EndsInv` say which processes are whose, when an object has a pid and
which pipe ends each step of an object has left open; `PidInv` that, until an `exec` fails, an object has
the pid of its child and there is no other child of it. Each action of `Process` preserves them in
whatever order a program calls it, so that only the type of `toClient` needs the order of `Session`:
`ProtocolInv` says that one request or answer is on the way, the one that the client waits for.

`JsonParserProofs` proves, for any texts (`InputsAssumption`: they are sequences of bytes), any
nesting and any width of the numbers, where an `Integer` is not wider than the `std::int64_t` that
it is read from (`WidthAssumption`):

- `TypeCorrect`, `PointersAreStable`: the invariants `ParserTypeOK`, `PointersStable`;
- `Progress`: the action property `ParsingProgresses`;
- `LiteralReadsWritten`: `fromStringLiteral(toStringLiteral(s)) = s` for every text of bytes;
- `StringIsReadBack`: wherever such a literal is in a text, `parseString` takes it to its last
  quotation mark and no further, and gives `s`;
- `ScalarIsReadBack`: the same for `parseSimpleValue` and what `stringify` writes for null, a
  Boolean, an integer or a string, if no letter, digit, sign or dot is behind it;
- `ScalarsStored`: where the parser expects a value and finds such a text, its next step takes
  that text and leaves the scalar where the pointer on the stack points to (`ScalarsAreStored`).

They are about `ParserSpec`, the parser on one text from the first iteration to the last; `Wire`
takes the same steps.

The inductive invariant says that the paths on the stack are prefixes of each other and grow as
the contexts demand (`StackOK`), that each node on the longest of them is an object with the member
through which the path goes or an array with that member as its last (`PathOK`), and that each entry
points to the alternative that its handler asks for (`NodeOK`). `PointersStable` alone is not
inductive: to set a value replaces every node on its path, and that the older pointers survive this
needs that their paths lie on it and are shorter (`Below`, `Rewritten`). For a pop the prefixes give
it. The lemmas about the tree say what is on the way to a path after a change at its end
(`Overwrite`); the functions behind them are recursive, and are reasoned about with an induction
over sets of natural numbers (`SetInduction`), which follows from `WFMin` and takes no operator as a
parameter. `Progress` needs of the scalars that they take at least one character and none behind
the text (`SimpleIs`), and of white space that it never skips the end (`SkipIs`). What a scalar is
parsed to plays no part in it.

That scalars survive is the part of `SentIsReceived` that can be proved: `Wire` checks it, with
arrays and objects around, on the messages and values of `MCWire`. A literal is the texts of its
characters one behind the other, a quotation mark at each end (`PieceAt` says where each of them is). Each
character is written in one of three ways, as a backslash and a letter, as four digits in base 16, or as
itself (`WaysToWrite`), and each is read as that character whatever follows it (`CharacterRead`). The
parser looks for the end first: within none of the three is a line feed or a quotation
mark that is not escaped, and the character after each is not escaped (`CharacterScanned`), so the first
place to stop at is the last quotation mark (`LiteralScanned`). That the digits of a number are
worth that number is shown for a smallest counterexample (`DigitsRead`).

`JsonRpcProofs` proves, for any texts of the names that are different (`JsonRpcAssumption`):

- `MessageSurvives`: what is read from the JSON of a message is that message and nothing else;
- `ReadIsForwarded`: what is read from any JSON object is `Thrown` or such a message, so that
  sending it on loses nothing (`ForwardedUnchanged` asks this of the messages in `Wire`);
- `BatchSurvives`: the same as the first for a batch, place by place.

They are about the functions of `jsonrpc.cpp` alone, before and behind the text. What could be mixed
up are values that look alike: an id that is null and none, parameters that are empty and none, a
result that is null and none. Parameters that are null are not among the messages that are written:
they are read as none (`jsonrpc.cpp:62`). `ObjectIs` says that
what `ObjectOf` puts under a name is what `Get` finds there, for which the names must differ; the
rest follows the branches of `requestFromJson` and `responseFromJson`. For a batch `OneSequence`
shows that sets of one message each have one sequence.

Model-checked only: all liveness (`EveryTaskExecuted`, `WaitReturns`, `AddTaskReturns`,
`AnswerCompletes`, `EveryRequestAnswered`, `EveryMessageTaken`, `EndReported`,
`SessionEnds`), because TLAPS does not reason about `ENABLED`, which fairness
needs, and that the parser is never stuck, for the same reason. And what is defined by
`RECURSIVE` operators: `ParsedAsGrammar`, and `SentIsReceived`, `ForwardedUnchanged` and
`DefinedBeforeUse` of `Wire`, because the grammar, the
writer, typed values and the generator recurse over trees, and a module with such an operator
cannot hold theorems. TLC checks these over bounded inputs. Of the round trip through text, the scalars
(`ScalarIsReadBack`), the texts of Uris (`UriIsReadBack`) and the messages before and behind the text
(`MessageSurvives`) are proved; decimals, arrays and objects are what is left to TLC.

## 6. Not modelled

- Of the code generator: reading the metamodel from JSON, `messages.h`, identifiers and
  comments. Build files and `concepts.h`: nothing happens at run time.
- Windows branches of `process.cpp`, `socket.cpp`, `standardio.cpp`, `fileuri.cpp`: they
  have the same members and calls as the POSIX ones.
- `SocketListener::shutdown` and `Socket::close`: nothing in the repository calls them.
- The layout of a formatted JSON text, the wording and positions of errors, rounding of
  doubles, hexadecimal numbers and infinities, which `std::stod` takes.
- Texts of 2^16 characters and more given to a setter of a Uri, whose lengths the code cuts. What
  `parse` makes of a path whose encoded text is that long is modelled.
- A batch of both requests and responses: each half is modelled alone, so what is missing is that an
  exception in one half loses the rest of the other, and that both use one
  `t_currentRequestId` (each overwrites what an exception has left behind).
- That a program which does not catch ends at the first exception, and a build without
  `NDEBUG` at the assertion behind it.
- What the future of an asynchronous callback depends on: every one becomes ready. In a batch the
  loop itself waits for it (`CallAsyncInBatch`, `messagehandler.cpp:205`), although `README.md:178`
  speaks of a worker thread; if it needs a message that this loop has to read, it never ends.
- Which pending request a response with a truncated id is matched with (`jsonrpc.cpp:31`).
- What `std::filesystem` makes of a path; parsing of the examples' arguments.
- `waitUntilFinished` called by several threads at once; handlers removed while they run;
  handlers that call `processIncomingMessages`: the code has no defence and the models
  state the obligation.
- Blocking of writes is in `Connection` for one direction, and `Session` has both but queues
  without a bound. That `sendRequest` holds `m_pendingRequestsMutex` while it blocks, with
  the peer doing the same, is in no model.
