----------------------------- MODULE Connection -----------------------------
(***************************************************************************)
(* lsp::Connection over one direction of an io::Stream: threads of one     *)
(* program in writeMessage, threads of the other in readMessage, and the   *)
(* bytes between them. Sources: src/lsp/connection.cpp, and for what a     *)
(* stream does at its end src/lsp/io/socket.cpp and standardio.cpp.        *)
(*                                                                         *)
(* The unit of input is a symbol: the text of a header line, CR, LF or one *)
(* byte of a body. The text of a header line counts as one byte. A symbol  *)
(* is named by its place in the frame of a message; a reader sees what is  *)
(* written there, and not the place.                                       *)
(***************************************************************************)
EXTENDS Naturals, Sequences, FiniteSets

CONSTANTS
    Writers,        \* threads that call writeMessage at one end
    Readers,        \* threads that call readMessage at the other
    Messages,       \* what is written, each once
    Kind,           \* [Messages -> Kinds]
    Size,           \* [Messages -> Nat \ {0}], the bytes of the body
    StreamKinds,    \* the streams to look at
    PipeSize,       \* symbols that a stream holds before a write blocks
    MaxFailures,    \* bound: writes that fail while the stream is open
    None            \* no thread or message

\* This program writes good messages. The others are those of a peer that does not
\* use it: an unknown content type, a body that is found to be no JSON or no JSON-RPC
\* message, a body that makes the parser throw, and a header without a Content-Length.
Kinds == {"good", "badType", "badBody", "throws", "noLength"}

Malformed == {m \in Messages : Kind[m] = "noLength"}

ASSUME MessagesAssumption ==
    /\ Kind \in [Messages -> Kinds]
    /\ Size \in [Messages -> Nat \ {0}]
    /\ None \notin Messages \union Writers \union Readers
    /\ StreamKinds \subseteq {"socket", "stdio"}
    /\ PipeSize \in Nat \ {0}
    /\ MaxFailures \in Nat

VARIABLES
    stream,     \* the kind of the stream
    pipe,       \* the symbols that were written and not read
    closed,     \* did the writing program close the stream, or end?
    m_writeMutex, m_readMutex,  \* the threads that hold them
    wpc,        \* where each writer is
    sent,       \* messages that were handed to writeMessage
    message,    \* the message that each writer has put into messageStr
    place,      \* the place of the first symbol of messageStr that is not written
    rpc,        \* where each reader is
    header,     \* its MessageHeader
    lineData,   \* the line it reads
    content,    \* the content it reads or has read
    written,    \* messages that were written to the last byte, in order
    taken,      \* messages whose content was read as it was written, in order
    delivered,  \* messages that readMessage returned
    refused,    \* messages that were answered with an error
    thrown,     \* messages for which readMessage has thrown
    replies,    \* how many such answers were written
    failures,
    damaged     \* was a frame cut short or malformed?

streamVars == <<stream, closed, failures>>
writeVars == <<m_writeMutex, wpc, sent, message, place, written>>
readVars == <<m_readMutex, rpc, header, lineData, content>>
resultVars == <<taken, delivered, refused, thrown, replies>>
vars == <<stream, pipe, closed, m_writeMutex, m_readMutex, wpc, sent, message, place, written,
          rpc, header, lineData, content, taken, delivered, refused, thrown, replies, failures,
          damaged>>

-----------------------------------------------------------------------------
(* Symbols and frames. *)

\* connection.cpp:315 and 323, or what another program writes: the Content-Length, CR,
\* LF, the Content-Type, CR, LF, CR, LF, and the bytes of the body.
First(m) == IF Kind[m] = "noLength" THEN 4 ELSE 1
BodyStart == 8
Last(m) == BodyStart + Size[m]

Frame(m) == {m} \X (First(m) .. Last(m))

Symbols == UNION {Frame(m) : m \in Messages}

ContentLength == Messages \X {1}
ContentType == Messages \X {4}
CR == Messages \X {2, 5, 7}
LF == Messages \X {3, 6, 8}

\* What get returns at the end of the stream, and a byte that was never read.
Eof == <<None, 0>>
NUL == <<None, 1>>

Body(m) == [i \in 1 .. Size[m] |-> <<m, BodyStart + i>>]

LastByte(m) == <<m, Last(m)>>

Header == [contentLength : {0} \union {Size[m] : m \in Messages}, utf8 : BOOLEAN]

TypeOK ==
    /\ stream \in StreamKinds
    /\ pipe \in Seq(Symbols) /\ Len(pipe) <= PipeSize
    /\ closed \in BOOLEAN
    /\ m_writeMutex \in Writers \union {None}
    /\ m_readMutex \in Readers \union {None}
    /\ wpc \in [Writers -> {"idle", "lock", "write"}]
    /\ sent \subseteq Messages
    /\ message \in [Writers -> Messages \union {None}]
    /\ place \in [Writers -> Nat]
    /\ written \in Seq(Messages)
    /\ rpc \in [Readers -> {"idle", "lock", "field", "line", "lineLF", "endLF", "content",
                          "parse"}]
    /\ header \in [Readers -> Header]
    /\ lineData \in [Readers -> Seq(Symbols \union {Eof})]
    /\ content \in [Readers -> Seq(Symbols \union {NUL})]
    /\ \A r \in Readers : Len(content[r]) <= header[r].contentLength
    /\ taken \in Seq(Messages)
    /\ delivered \subseteq Messages
    /\ refused \subseteq Messages
    /\ thrown \subseteq Messages
    /\ replies \in Nat
    /\ failures \in 0 .. MaxFailures
    /\ damaged \in BOOLEAN

NoHeader == [contentLength |-> 0, utf8 |-> TRUE]

Init ==
    /\ stream \in StreamKinds
    /\ pipe = <<>>
    /\ closed = FALSE
    /\ m_writeMutex = None
    /\ m_readMutex = None
    /\ wpc = [w \in Writers |-> "idle"]
    /\ sent = {}
    /\ message = [w \in Writers |-> None]
    /\ place = [w \in Writers |-> 0]
    /\ written = <<>>
    /\ rpc = [r \in Readers |-> "idle"]
    /\ header = [r \in Readers |-> NoHeader]
    /\ lineData = [r \in Readers |-> <<>>]
    /\ content = [r \in Readers |-> <<>>]
    /\ taken = <<>>
    /\ delivered = {}
    /\ refused = {}
    /\ thrown = {}
    /\ replies = 0
    /\ failures = 0
    /\ damaged = FALSE

-----------------------------------------------------------------------------
(* writeMessage and writeMessageData, connection.cpp:227 and 311. *)

\* The frame is put together before or under the lock, line 315.
CallWrite(w, m) ==
    /\ wpc[w] = "idle"
    /\ m \notin sent
    /\ sent' = sent \union {m}
    /\ message' = [message EXCEPT ![w] = m]
    /\ place' = [place EXCEPT ![w] = First(m)]
    /\ wpc' = [wpc EXCEPT ![w] = "lock"]
    /\ UNCHANGED <<streamVars, pipe, m_writeMutex, written, readVars, resultVars, damaged>>

\* Variant: there is no m_writeMutex.
MayWrite_Always == TRUE

MayWrite == m_writeMutex = None

\* Line 313.
LockWrite(w) ==
    /\ wpc[w] = "lock"
    /\ MayWrite
    /\ m_writeMutex' = w
    /\ wpc' = [wpc EXCEPT ![w] = "write"]
    /\ UNCHANGED <<streamVars, pipe, sent, message, place, written, readVars, resultVars,
                   damaged>>

\* Is there something left to write?
Writing(w) == wpc[w] = "write" /\ place[w] <= Last(message[w])

\* Stream::write, which blocks while the stream is full.
WriteSymbol(w) ==
    LET m == message[w]
    IN  /\ Writing(w)
        /\ ~closed
        /\ Len(pipe) < PipeSize
        /\ pipe' = Append(pipe, <<m, place[w]>>)
        /\ place' = [place EXCEPT ![w] = @ + 1]
        /\ written' = IF place[w] = Last(m) THEN Append(written, m) ELSE written
        /\ damaged' = (damaged \/ m \in Malformed)
        /\ UNCHANGED <<streamVars, m_writeMutex, wpc, sent, message, readVars, resultVars>>

UnlockWrite(w) ==
    /\ m_writeMutex' = None
    /\ wpc' = [wpc EXCEPT ![w] = "idle"]
    /\ message' = [message EXCEPT ![w] = None]
    /\ place' = [place EXCEPT ![w] = 0]
    /\ UNCHANGED <<stream, pipe, closed, sent, written, readVars, resultVars>>

EndWrite(w) ==
    /\ wpc[w] = "write"
    /\ ~Writing(w)
    /\ UnlockWrite(w)
    /\ UNCHANGED <<failures, damaged>>

\* Has a part of the frame that w writes been written, and not all of it?
Torn(w) == Writing(w) /\ place[w] # First(message[w])

\* Line 317: the stream reports an error; what was written stays written.
FailWrite(w) ==
    /\ Writing(w)
    /\ IF closed THEN UNCHANGED failures
                 ELSE failures < MaxFailures /\ failures' = failures + 1
    /\ damaged' = (damaged \/ Torn(w))
    /\ UnlockWrite(w)

\* The writing program closes the stream or ends.
CloseStream ==
    /\ ~closed
    /\ closed' = TRUE
    /\ damaged' = (damaged \/ \E w \in Writers : Torn(w))
    /\ UNCHANGED <<stream, failures, pipe, writeVars, readVars, resultVars>>

-----------------------------------------------------------------------------
(* readMessage, connection.cpp:163, and what it calls. The InputReader has *)
(* at most one byte in m_peek, which only the thread with m_readMutex can  *)
(* tell from a byte of the stream; a byte that is dropped with the reader  *)
(* is taken out of the stream here.                                        *)

AtEnd == closed /\ pipe = <<>>

CallRead(r) ==
    /\ rpc[r] = "idle"
    /\ rpc' = [rpc EXCEPT ![r] = "lock"]
    /\ UNCHANGED <<streamVars, pipe, writeVars, m_readMutex, header, lineData, content,
                   resultVars, damaged>>

\* Variant: there is no m_readMutex.
MayRead_Always == TRUE

MayRead == m_readMutex = None

\* Lines 165 and 166.
LockRead(r) ==
    /\ rpc[r] = "lock"
    /\ MayRead
    /\ m_readMutex' = r
    /\ rpc' = [rpc EXCEPT ![r] = "field"]
    /\ header' = [header EXCEPT ![r] = NoHeader]
    /\ UNCHANGED <<streamVars, pipe, writeVars, lineData, content, resultVars, damaged>>

\* Variant: the mutex is not released.
ReleaseRead_Missing == UNCHANGED m_readMutex

ReleaseRead == m_readMutex' = None

Return(r) ==
    /\ rpc' = [rpc EXCEPT ![r] = "idle"]
    /\ lineData' = [lineData EXCEPT ![r] = <<>>]
    /\ content' = [content EXCEPT ![r] = <<>>]
    /\ header' = [header EXCEPT ![r] = NoHeader]

\* An error is returned while the mutex is held.
ReturnError(r) == Return(r) /\ ReleaseRead

\* Lines 168 and 287.
EndOfStream(r) ==
    /\ rpc[r] = "field"
    /\ AtEnd
    /\ ReturnError(r)
    /\ UNCHANGED <<streamVars, pipe, writeVars, resultVars, damaged>>

\* Line 246: another field, or the CR that ends the header.
NextField(r) ==
    /\ rpc[r] = "field"
    /\ pipe # <<>>
    /\ IF Head(pipe) \in CR
       THEN /\ rpc' = [rpc EXCEPT ![r] = "endLF"]
            /\ pipe' = Tail(pipe)
       ELSE /\ rpc' = [rpc EXCEPT ![r] = "line"]
            /\ UNCHANGED pipe
    /\ UNCHANGED <<streamVars, writeVars, m_readMutex, header, lineData, content,
                   resultVars, damaged>>

\* What parseHeaderValue makes of a line depends on its first symbol and on whether
\* there are more.
Extend(line, symbol) == IF Len(line) < 2 THEN Append(line, symbol) ELSE line

\* Lines 292 to 300. At the end of the stream get returns Eof again and again.
ReadLine(r) ==
    /\ rpc[r] = "line"
    /\ \/ /\ AtEnd
          /\ lineData' = [lineData EXCEPT ![r] = Extend(@, Eof)]
          /\ UNCHANGED <<pipe, m_readMutex, rpc, header, content>>
       \/ /\ pipe # <<>>
          /\ Head(pipe) \notin CR \union LF
          /\ pipe' = Tail(pipe)
          /\ lineData' = [lineData EXCEPT ![r] = Extend(@, Head(pipe))]
          /\ UNCHANGED <<m_readMutex, rpc, header, content>>
       \/ /\ pipe # <<>>
          /\ Head(pipe) \in LF
          /\ pipe' = Tail(pipe)
          /\ ReturnError(r)
    /\ UNCHANGED <<streamVars, writeVars, resultVars, damaged>>

\* parseHeaderValue, line 258.
IsContentLength(line) == line # <<>> /\ line[1] \in ContentLength
IsContentType(line) == line # <<>> /\ line[1] \in ContentType

\* The value is a number unless the line was cut and something else followed.
InvalidLine(line) == IsContentLength(line) /\ Len(line) > 1

\* Is the value of the Content-Type the one that verifyContentType accepts?
IsUtf8(line) == Len(line) = 1 /\ Kind[line[1][1]] # "badType"

parseHeaderValue(head, line) ==
    IF IsContentLength(line) THEN [head EXCEPT !.contentLength = Size[line[1][1]]]
    ELSE IF IsContentType(line) THEN [head EXCEPT !.utf8 = IsUtf8(line)]
    ELSE head

\* Lines 302 and 305, up to the CR.
EndLine(r) ==
    /\ rpc[r] = "line"
    /\ pipe # <<>>
    /\ Head(pipe) \in CR
    /\ pipe' = Tail(pipe)
    /\ IF InvalidLine(lineData[r])
       THEN ReturnError(r)
       ELSE /\ header' = [header EXCEPT ![r] = parseHeaderValue(@, lineData[r])]
            /\ lineData' = [lineData EXCEPT ![r] = <<>>]
            /\ rpc' = [rpc EXCEPT ![r] = "lineLF"]
            /\ UNCHANGED <<m_readMutex, content>>
    /\ UNCHANGED <<streamVars, writeVars, resultVars, damaged>>

\* Lines 305 and 252, the LF.
ReadLF(r) ==
    /\ rpc[r] \in {"lineLF", "endLF"}
    /\ pipe # <<>> \/ closed
    /\ pipe' = IF pipe = <<>> THEN pipe ELSE Tail(pipe)
    /\ IF pipe # <<>> /\ Head(pipe) \in LF
       THEN /\ rpc' = [rpc EXCEPT ![r] = IF @ = "lineLF" THEN "field" ELSE "content"]
            /\ UNCHANGED <<m_readMutex, header, lineData, content>>
       ELSE ReturnError(r)
    /\ UNCHANGED <<streamVars, writeVars, resultVars, damaged>>

\* The message with this body. Nothing else is taken for JSON: a frame cut short, with
\* the bytes of the next frame or with zero bytes in their place, is no value.
WholeBody(bytes) == {m \in Messages : Body(m) = bytes}

\* Variant: one byte too many is read.
Incomplete_OrNot(r) == Len(content[r]) <= header[r].contentLength

Incomplete(r) == Len(content[r]) < header[r].contentLength

\* Line 177, a byte of the content.
ReadContent(r) ==
    /\ rpc[r] = "content"
    /\ pipe # <<>>
    /\ Incomplete(r)
    /\ pipe' = Tail(pipe)
    /\ content' = [content EXCEPT ![r] = Append(@, Head(pipe))]
    /\ UNCHANGED <<streamVars, writeVars, m_readMutex, rpc, header, lineData,
                   resultVars, damaged>>

\* Line 178: a socket reports that the stream ended in the content.
ContentLost(r) ==
    /\ rpc[r] = "content"
    /\ Incomplete(r)
    /\ AtEnd
    /\ stream = "socket"
    /\ ReturnError(r)
    /\ UNCHANGED <<streamVars, pipe, writeVars, resultVars, damaged>>

\* Line 180. Standard input that ends in the content does not report it
\* (standardio.cpp:26); the rest of the content stays zero bytes.
UnlockRead(r) ==
    /\ rpc[r] = "content"
    /\ \/ /\ ~Incomplete(r)
          /\ UNCHANGED content
       \/ /\ Incomplete(r)
          /\ AtEnd
          /\ stream = "stdio"
          /\ content' = [content EXCEPT ![r] = Append(@, NUL)]
    /\ ReleaseRead
    /\ rpc' = [rpc EXCEPT ![r] = "parse"]
    /\ taken' = IF WholeBody(content'[r]) = {}
                THEN taken
                ELSE Append(taken, CHOOSE m \in Messages : Body(m) = content'[r])
    /\ UNCHANGED <<streamVars, pipe, writeVars, header, lineData, delivered, refused, thrown,
                   replies, damaged>>

\* Variant: the content type is not verified.
WrongType_Ignored(r) == FALSE

\* verifyContentType, line 70.
WrongType(r) == ~header[r].utf8

\* Lines 193 to 207 and 217 to 224.
Deliver(r) ==
    LET good == {m \in WholeBody(content[r]) : Kind[m] \notin {"badBody", "throws"}}
    IN  /\ good # {}
        /\ delivered' = delivered \union good
        /\ UNCHANGED <<refused, thrown, replies>>

\* Lines 189, 203, 213 and 220; the error response is a message in the other direction.
Refuse(r) ==
    LET whole == WholeBody(content[r])
    IN  /\ \A m \in whole : Kind[m] = "badBody"
        /\ refused' = refused \union whole
        /\ replies' = replies + 1
        /\ UNCHANGED <<delivered, thrown>>

\* An access to a value that is not there, or std::stod, throws out of readMessage
\* (jsonrpc.cpp:45, 91 and 152, json.cpp:323), which writes nothing. So may bytes that
\* are no message.
Throw(r) ==
    LET whole == WholeBody(content[r])
    IN  /\ \A m \in whole : Kind[m] = "throws"
        /\ thrown' = thrown \union whole
        /\ UNCHANGED <<delivered, refused, replies>>

\* Lines 183 to 224. Whatever the end is, no mutex is held here.
ParseContent(r) ==
    /\ rpc[r] = "parse"
    /\ \/ WrongType(r) /\ UNCHANGED <<delivered, refused, thrown, replies>>
       \/ ~WrongType(r) /\ (Deliver(r) \/ Refuse(r) \/ Throw(r))
    /\ Return(r)
    /\ UNCHANGED <<streamVars, pipe, writeVars, m_readMutex, taken, damaged>>

-----------------------------------------------------------------------------
WriteStep(w) == WriteSymbol(w) \/ EndWrite(w) \/ (closed /\ FailWrite(w))

ReadStep(r) ==
    \/ EndOfStream(r)
    \/ NextField(r)
    \/ ReadLine(r)
    \/ EndLine(r)
    \/ ReadLF(r)
    \/ ReadContent(r)
    \/ ContentLost(r)
    \/ UnlockRead(r)
    \/ ParseContent(r)

Next ==
    \/ \E w \in Writers :
          \/ \E m \in Messages : CallWrite(w, m)
          \/ LockWrite(w)
          \/ WriteStep(w)
          \/ FailWrite(w)
    \/ CloseStream
    \/ \E r \in Readers : CallRead(r) \/ LockRead(r) \/ ReadStep(r)

Spec == Init /\ [][Next]_vars

\* Threads are scheduled and the mutexes starve nobody. The reading program calls
\* processIncomingMessages in a loop (README.md:125), so readMessage is called again
\* and again; the program catches what it throws and goes on. Nobody has to write, no
\* write has to fail and the stream may stay open.
Fairness ==
    /\ \A w \in Writers : WF_vars(WriteStep(w)) /\ SF_vars(LockWrite(w))
    /\ \A r \in Readers : WF_vars(CallRead(r)) /\ SF_vars(LockRead(r)) /\ WF_vars(ReadStep(r))

FairSpec == Spec /\ Fairness

-----------------------------------------------------------------------------
(* Properties. *)

\* The symbols on their way: those in the stream, and those that the reader with the
\* mutex has in its hands as a part of the content.
Reading == {r \in Readers : rpc[r] = "content"}

RangeOf(s) == {s[i] : i \in DOMAIN s}

OnTheWay == RangeOf(pipe) \union UNION {RangeOf(content[r]) : r \in Reading}

\* The messages that were written to the last byte and are on their way, oldest first:
\* what was written but for as many messages as have left.
Gone == {i \in DOMAIN written : LastByte(written[i]) \notin OnTheWay}

Queue == SubSeq(written, Cardinality(Gone) + 1, Len(written))

\* Messages leave the stream whole, once and in the order in which they were written,
\* whichever threads write and read; only a frame that was cut short or malformed
\* makes the reader lose messages, and it never makes it see another than was sent.
Channel == INSTANCE MessageChannel WITH queue <- Queue

ImplementsChannel == Channel!Spec

Taken == RangeOf(taken)

Parsing(m) == {r \in Readers : rpc[r] = "parse" /\ content[r] = Body(m)} # {}

\* A message that was taken off the stream is in the hands of one reader until it is
\* returned by readMessage, answered with an error, lost with the exception that its body
\* causes, or dropped for its content type, and none comes to another end than its own.
TakenIsAccountedFor ==
    \A m \in Taken :
        \/ Parsing(m)
        \/ m \in delivered \ (refused \union thrown) /\ Kind[m] \notin {"badType", "badBody", "throws"}
        \/ m \in refused \ (delivered \union thrown) /\ Kind[m] = "badBody"
        \/ m \in thrown \ (delivered \union refused) /\ Kind[m] = "throws"
        \/ (Kind[m] = "badType" \/ damaged) /\ m \notin delivered \union refused \union thrown

\* As long as the stream is not damaged, one error response is written for each message
\* that is found not to be understood, as soon as it is parsed, and for nothing else: a
\* message that makes the parser throw is not answered.
RepliesAreDue ==
    ~damaged => replies = Cardinality({m \in Taken : Kind[m] = "badBody" /\ ~Parsing(m)})

\* A message that was handed to writeMessage is read in the end, even when the stream
\* is closed behind it, unless the stream is damaged or the write has failed.
WriteFailed(m) == m \notin RangeOf(written) /\ \A w \in Writers : message[w] # m

EveryMessageTaken == \A m \in Messages : m \in sent ~> m \in Taken \/ damaged \/ WriteFailed(m)

\* When the stream ends every reader returns, except when it ends in a header line.
EndReported ==
    \A r \in Readers : closed /\ rpc[r] # "idle" ~>
        rpc[r] = "idle" \/ (AtEnd /\ \E q \in Readers : rpc[q] = "line")

\* connection.h:20, "Error returned when then connection to a client is unexpectedly
\* lost": at the end of the stream every call of readMessage returns.
LostConnectionReturns == \A r \in Readers : closed /\ rpc[r] # "idle" ~> rpc[r] = "idle"
=============================================================================
