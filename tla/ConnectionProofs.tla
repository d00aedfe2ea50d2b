-------------------------- MODULE ConnectionProofs --------------------------
(***************************************************************************)
(* Theorems about Connection, for any sets of writers, readers, messages,  *)
(* kinds and sizes and for a stream of any size.                           *)
(*                                                                         *)
(* The argument is about the next symbol: the one at the head of the       *)
(* stream or, when the stream is empty, the one that the thread which      *)
(* holds m_writeMutex writes next. In a stream that is not damaged the     *)
(* reader that holds m_readMutex is exactly where that symbol wants it. In *)
(* any stream the last bytes of the messages stay in the order in which    *)
(* they were written.                                                      *)
(***************************************************************************)
EXTENDS Connection, SequenceTheorems, FiniteSetTheorems, TLAPS

-----------------------------------------------------------------------------
(* The inductive invariant. *)

Successor(s) == <<s[1], s[2] + 1>>

IsFirst(s) == s[2] = First(s[1])

IsLast(s) == s[2] = Last(s[1])

\* Has the writer w written a part of a frame that it can go on with?
Mid(w) == Writing(w) /\ ~closed /\ place[w] > First(message[w])

NextPlace(w) == <<message[w], place[w]>>

\* A writer has one message, its own, and only the holder of the mutex has begun it.
WriterInv ==
    /\ \A w \in Writers :
          /\ wpc[w] = "write" <=> m_writeMutex = w
          /\ wpc[w] = "idle" => message[w] = None
          /\ wpc[w] # "idle" => /\ message[w] \in sent
                                /\ place[w] \in First(message[w]) .. Last(message[w]) + 1
          /\ wpc[w] = "lock" => place[w] = First(message[w])
          /\ wpc[w] = "write" /\ message[w] \in Malformed /\ place[w] > First(message[w])
                => damaged
    /\ \A w, v \in Writers : message[w] = message[v] /\ message[w] # None => w = v

\* In the stream a symbol is followed by the next one of its frame or by a new frame.
Chained ==
    /\ \A i \in 1 .. Len(pipe) - 1 : pipe[i + 1] = Successor(pipe[i]) \/ IsFirst(pipe[i + 1])
    /\ \A w \in Writers :
          Mid(w) /\ pipe # <<>> => Successor(pipe[Len(pipe)]) = NextPlace(w)

\* As long as the stream is not damaged only a frame that ended is followed by another.
Unbroken ==
    /\ \A i \in 1 .. Len(pipe) : pipe[i][1] \notin Malformed
    /\ \A i \in 1 .. Len(pipe) - 1 : IsLast(pipe[i]) \/ pipe[i + 1] = Successor(pipe[i])
    /\ pipe # <<>> => IsLast(pipe[Len(pipe)]) \/ \E w \in Writers : Mid(w)

PipeInv == Chained /\ (~damaged => Unbroken)

\* The symbol that is read next, if one is known.
Coming == IF pipe # <<>> THEN {pipe[1]} ELSE {NextPlace(w) : w \in {v \in Writers : Mid(v)}}

Holding == {"field", "line", "lineLF", "endLF", "content"}

\* Only the holder of the mutex is between the lock and the unlock, and a reader starts
\* with nothing that was read before.
ReaderInv ==
    \A r \in Readers :
        /\ rpc[r] \in Holding <=> m_readMutex = r
        /\ rpc[r] \in {"idle", "lock"} => header[r] = NoHeader
        /\ rpc[r] # "line" => lineData[r] = <<>>
        /\ rpc[r] \notin {"content", "parse"} => content[r] = <<>>

\* The body of a message with another content type is never read under a header that
\* has a length and the right type, not even in a damaged stream.
NotTrusted(head) == head.contentLength = 0 \/ ~head.utf8

SuspectAt(r, s) ==
    /\ rpc[r] = "line" /\ s[2] = 4 => lineData[r] = <<>>
    /\ rpc[r] = "line" /\ s[2] = 5 => lineData[r] = << <<s[1], 4>> >>
    /\ rpc[r] = "lineLF" /\ s[2] = 6 => ~header[r].utf8
    /\ rpc[r] = "field" /\ s[2] = 7 => NotTrusted(header[r])
    /\ rpc[r] = "endLF" /\ s[2] = 8 => NotTrusted(header[r])
    /\ rpc[r] = "content" /\ content[r] = <<>> /\ s[2] = 9 => NotTrusted(header[r])

\* Does the content begin with the body of a message of another content type?
BadBegin(bytes) ==
    bytes # <<>> /\ \E m \in Messages : Kind[m] = "badType" /\ bytes[1] = <<m, 9>>

SuspectInv ==
    \A r \in Readers :
        /\ \A s \in Coming : Kind[s[1]] = "badType" => SuspectAt(r, s)
        /\ BadBegin(content[r]) => ~header[r].utf8

\* The header of m after its first line, and all of it.
Begun(m) == [contentLength |-> Size[m], utf8 |-> TRUE]
HeaderOf(m) == [contentLength |-> Size[m], utf8 |-> Kind[m] # "badType"]

\* Where a reader is when the next symbol is s, within a frame.
InFrame(r, s) ==
    \/ s[2] = 2 /\ rpc[r] = "line" /\ lineData[r] = << <<s[1], 1>> >> /\ header[r] = NoHeader
    \/ s[2] = 3 /\ rpc[r] = "lineLF" /\ header[r] = Begun(s[1])
    \/ s[2] = 4 /\ rpc[r] \in {"field", "line"} /\ lineData[r] = <<>> /\ header[r] = Begun(s[1])
    \/ s[2] = 5 /\ rpc[r] = "line" /\ lineData[r] = << <<s[1], 4>> >> /\ header[r] = Begun(s[1])
    \/ s[2] = 6 /\ rpc[r] = "lineLF" /\ header[r] = HeaderOf(s[1])
    \/ s[2] = 7 /\ rpc[r] = "field" /\ header[r] = HeaderOf(s[1])
    \/ s[2] = 8 /\ rpc[r] = "endLF" /\ header[r] = HeaderOf(s[1])
    \/ /\ s[2] \in 9 .. Last(s[1])
       /\ rpc[r] = "content" /\ header[r] = HeaderOf(s[1])
       /\ Len(content[r]) = s[2] - 9
       /\ \A i \in 1 .. Len(content[r]) : content[r][i] = <<s[1], 8 + i>>

\* A reader has read the whole message m.
HasRead(r, m) == Kind[m] # "noLength" /\ content[r] = Body(m) /\ header[r] = HeaderOf(m)

\* Where the reader with the mutex is between two frames.
Between(r) ==
    \/ rpc[r] = "field" /\ header[r] = NoHeader
    \/ rpc[r] = "line" /\ header[r] = NoHeader /\ lineData[r] = <<>> /\ pipe # <<>>
    \/ rpc[r] = "content" /\ \E m \in Messages : HasRead(r, m)

Aligned ==
    /\ \A s \in Coming : s[2] > 1 => \E r \in Readers : InFrame(r, s)
    /\ (\A s \in Coming : s[2] = 1) => \A r \in Readers : rpc[r] \in Holding => Between(r)
    /\ \A r \in Readers : rpc[r] = "parse" => \E m \in Messages : HasRead(r, m)

\* The last bytes of the messages: of the first g nothing is on the way, those up to h
\* are in the content that is read, the others are in the stream in this order.
InContent(s) == \E r \in Reading : s \in RangeOf(content[r])

Split(g, h) ==
    /\ g <= h /\ h <= Len(written)
    /\ \A a \in 1 .. Len(written) :
          /\ LastByte(written[a]) \in RangeOf(pipe) <=> a > h
          /\ InContent(LastByte(written[a])) <=> g < a /\ a <= h

FifoInv ==
    /\ \A a, b \in 1 .. Len(written) : written[a] = written[b] => a = b
    /\ RangeOf(written) \subseteq sent
    /\ \A w \in Writers :
          message[w] \in RangeOf(written) => wpc[w] = "write" /\ place[w] > Last(message[w])
    /\ \A m \in Messages : LastByte(m) \in OnTheWay => m \in RangeOf(written)
    /\ \A i, j \in 1 .. Len(pipe) : \A a, b \in 1 .. Len(written) :
          i < j /\ pipe[i] = LastByte(written[a]) /\ pipe[j] = LastByte(written[b]) => a < b
    /\ \E g, h \in Nat : Split(g, h)

\* Is the message m in the hands of the reader r, to be parsed?
Parses(r, m) == rpc[r] = "parse" /\ content[r] = Body(m)

TakenInv ==
    /\ \A m \in Taken : m \in RangeOf(written) /\ LastByte(m) \notin OnTheWay
    /\ \A r \in Readers, m \in Messages : Parses(r, m) =>
          m \in Taken /\ m \notin delivered \union refused \union thrown
    /\ \A r, q \in Readers, m \in Messages : Parses(r, m) /\ Parses(q, m) => r = q
    /\ delivered \union refused \union thrown \subseteq Taken
    /\ IsFiniteSet(refused)
    /\ \A m \in refused : Kind[m] = "badBody"

\* The same as RepliesAreDue, with the messages that were refused: TakenInv says which.
RepliesInv == ~damaged => replies = Cardinality(refused)

IInv ==
    /\ TypeOK
    /\ WriterInv
    /\ PipeInv
    /\ ReaderInv
    /\ SuspectInv
    /\ ~damaged => Aligned
    /\ FifoInv
    /\ TakenInv
    /\ TakenIsAccountedFor
    /\ RepliesInv

-----------------------------------------------------------------------------
(* Symbols. *)

\* Where a frame begins and ends.
LEMMA Places ==
    ASSUME NEW m \in Messages
    PROVE  /\ Size[m] \in Nat \ {0}
           /\ Last(m) \in Nat /\ Last(m) = 8 + Size[m] /\ Last(m) >= 9
           /\ First(m) \in {1, 4}
           /\ First(m) = 4 <=> Kind[m] = "noLength"
           /\ First(m) = 4 <=> m \in Malformed
           /\ m # None
BY MessagesAssumption DEF First, Last, BodyStart, Malformed

\* What a symbol is made of.
LEMMA SymbolIs ==
    ASSUME NEW s \in Symbols
    PROVE  /\ s[1] \in Messages
           /\ s[2] \in First(s[1]) .. Last(s[1]) /\ s[2] \in Nat
           /\ s = <<s[1], s[2]>>
<1>1. PICK m \in Messages : s \in {m} \X (First(m) .. Last(m))
  BY DEF Symbols, Frame
<1>2. First(m) \in Nat
  BY Places
<1>. QED BY <1>1, <1>2

LEMMA IsSymbol ==
    ASSUME NEW m \in Messages, NEW n \in First(m) .. Last(m)
    PROVE  <<m, n>> \in Symbols
BY DEF Symbols, Frame

\* The symbols that end a line, and the two that are none.
LEMMA LineEnds ==
    ASSUME NEW s \in Symbols
    PROVE  /\ s \in CR <=> s[2] \in {2, 5, 7}
           /\ s \in LF <=> s[2] \in {3, 6, 8}
           /\ s \in ContentLength <=> s[2] = 1
           /\ s \in ContentType <=> s[2] = 4
BY SymbolIs DEF CR, LF, ContentLength, ContentType

LEMMA NoSymbol == Eof \notin Symbols /\ NUL \notin Symbols
BY SymbolIs, MessagesAssumption DEF Eof, NUL

\* The body of a message is a sequence of symbols, and tells the message.
LEMMA BodyIs ==
    ASSUME NEW m \in Messages
    PROVE  /\ Body(m) \in Seq(Symbols) /\ Len(Body(m)) = Size[m]
           /\ \A i \in 1 .. Size[m] : Body(m)[i] = <<m, 8 + i>>
           /\ Body(m) # <<>>
           /\ Body(m)[1] = <<m, 9>>
           /\ Body(m)[Size[m]] = LastByte(m)
           /\ LastByte(m) \in Symbols
<1>. Size[m] \in Nat \ {0} /\ Last(m) = 8 + Size[m] /\ First(m) \in {1, 4} /\ Last(m) \in Nat
  BY Places
<1>1. \A i \in 1 .. Size[m] : <<m, 8 + i>> \in Symbols
  BY IsSymbol
<1>2. Body(m) = [i \in 1 .. Size[m] |-> <<m, 8 + i>>]
  BY DEF Body, BodyStart
<1>3. Body(m) \in Seq(Symbols)
  BY <1>1, <1>2
<1>4. Len(Body(m)) = Size[m]
  BY <1>2
<1>5. Body(m) # <<>>
  BY <1>4
<1>6. LastByte(m) \in Symbols
  BY IsSymbol DEF LastByte
<1>. QED BY <1>2, <1>3, <1>4, <1>5, <1>6 DEF LastByte

LEMMA SameBody ==
    ASSUME NEW m \in Messages, NEW n \in Messages, Body(m) = Body(n)
    PROVE  m = n
BY BodyIs

\* The elements of a sequence.
LEMMA NotEmpty ==
    ASSUME NEW S, NEW q \in Seq(S)
    PROVE  /\ Len(q) \in Nat
           /\ q = <<>> <=> Len(q) = 0
           /\ \A i \in 1 .. Len(q) : q[i] \in S
           /\ DOMAIN q = 1 .. Len(q)
           /\ RangeOf(q) = {q[i] : i \in 1 .. Len(q)}
           /\ RangeOf(q) \subseteq S
BY EmptySeq, LenProperties DEF RangeOf

\* A sequence without its first element, and with one more.
LEMMA Popped ==
    ASSUME NEW S, NEW q \in Seq(S), q # <<>>
    PROVE  /\ Len(q) \in Nat /\ Len(q) >= 1
           /\ Head(q) = q[1] /\ q[1] \in S
           /\ Tail(q) \in Seq(S) /\ Len(Tail(q)) = Len(q) - 1
           /\ \A i \in 1 .. Len(q) - 1 : Tail(q)[i] = q[i + 1]
           /\ Tail(q) = <<>> <=> Len(q) = 1
<1>1. Len(q) \in Nat /\ Len(q) >= 1 /\ Head(q) = q[1] /\ q[1] \in S
  BY EmptySeq, LenProperties
<1>2. /\ Tail(q) \in Seq(S) /\ Len(Tail(q)) = Len(q) - 1
      /\ \A i \in 1 .. Len(Tail(q)) : Tail(q)[i] = q[i + 1]
  BY HeadTailProperties
<1>3. Tail(q) = <<>> <=> Len(q) = 1
  BY <1>1, <1>2, NotEmpty, SMTT(30)
<1>. QED BY <1>1, <1>2, <1>3

LEMMA Pushed ==
    ASSUME NEW S, NEW q \in Seq(S), NEW x \in S
    PROVE  /\ Len(q) \in Nat
           /\ Append(q, x) \in Seq(S) /\ Len(Append(q, x)) = Len(q) + 1
           /\ \A i \in 1 .. Len(q) : Append(q, x)[i] = q[i]
           /\ Append(q, x)[Len(q) + 1] = x
           /\ Append(q, x) # <<>>
BY AppendProperties, EmptySeq, LenProperties

-----------------------------------------------------------------------------
(* The steps, in groups: what a reader does to the stream, and how the     *)
(* stream looks from there.                                                *)

ReaderMove(r) == CallRead(r) \/ LockRead(r) \/ ReadStep(r)

WriterMove(w) ==
    \/ \E m \in Messages : CallWrite(w, m)
    \/ LockWrite(w)
    \/ WriteSymbol(w)
    \/ EndWrite(w)
    \/ FailWrite(w)

LEMMA NextIs ==
    ASSUME Next
    PROVE  \/ \E w \in Writers : WriterMove(w)
           \/ CloseStream
           \/ \E r \in Readers : ReaderMove(r)
BY DEF Next, WriteStep, WriterMove, ReaderMove

\* A reader leaves the writers alone, and the other readers.
LEMMA ReaderFrame ==
    ASSUME TypeOK, NEW r \in Readers, ReaderMove(r)
    PROVE  /\ UNCHANGED <<stream, closed, failures, damaged>>
           /\ UNCHANGED <<m_writeMutex, wpc, sent, message, place, written>>
           /\ pipe' = pipe \/ (pipe # <<>> /\ pipe' = Tail(pipe))
           /\ \A q \in Readers \ {r} :
                 /\ rpc'[q] = rpc[q] /\ header'[q] = header[q]
                 /\ lineData'[q] = lineData[q] /\ content'[q] = content[q]
<1>. USE DEF TypeOK, streamVars, writeVars, readVars, resultVars, Return, ReturnError
<1>1. CASE CallRead(r) \/ LockRead(r)
  BY <1>1 DEF CallRead, LockRead
<1>2. CASE EndOfStream(r) \/ NextField(r)
  BY <1>2 DEF EndOfStream, NextField
<1>3. CASE ReadLine(r)
  BY <1>3 DEF ReadLine
<1>4. CASE EndLine(r)
  BY <1>4 DEF EndLine
<1>5. CASE ReadLF(r)
  BY <1>5 DEF ReadLF
<1>6. CASE ReadContent(r) \/ ContentLost(r)
  BY <1>6 DEF ReadContent, ContentLost
<1>7. CASE UnlockRead(r)
  BY <1>7 DEF UnlockRead
<1>8. CASE ParseContent(r)
  BY <1>8 DEF ParseContent, Deliver, Refuse, Throw
<1>. QED
  BY <1>1, <1>2, <1>3, <1>4, <1>5, <1>6, <1>7, <1>8 DEF ReaderMove, ReadStep

\* What a reader step does to the reader itself, by the place where it was.
LEMMA HeaderTypes ==
    ASSUME TypeOK, NEW r \in Readers
    PROVE  /\ NoHeader \in Header
           /\ header[r].contentLength \in Nat /\ header[r].utf8 \in BOOLEAN
           /\ \A c \in {0} \union {Size[m] : m \in Messages}, u \in BOOLEAN :
                 [contentLength |-> c, utf8 |-> u] \in Header
           /\ parseHeaderValue(header[r], lineData[r]) \in Header
           /\ IsContentLength(lineData[r]) =>
                 /\ lineData[r][1][1] \in Messages
                 /\ parseHeaderValue(header[r], lineData[r]) =
                       [header[r] EXCEPT !.contentLength = Size[lineData[r][1][1]]]
           /\ IsContentType(lineData[r]) =>
                 /\ ~IsContentLength(lineData[r])
                 /\ lineData[r][1][1] \in Messages
                 /\ parseHeaderValue(header[r], lineData[r]) =
                       [header[r] EXCEPT !.utf8 = IsUtf8(lineData[r])]
<1>. DEFINE line == lineData[r]
<1>1. header[r] \in Header
  BY DEF TypeOK
<1>2. \A m \in Messages : Size[m] \in Nat
  BY Places
<1>3. header[r].contentLength \in Nat /\ header[r].utf8 \in BOOLEAN
  BY <1>1, <1>2 DEF Header
<1>4. IsContentLength(line) => line[1][1] \in Messages /\ line[1][2] = 1
  BY DEF IsContentLength, ContentLength
<1>5. IsContentType(line) => line[1][1] \in Messages /\ line[1][2] = 4
  BY DEF IsContentType, ContentType
<1>6. IsContentType(line) => ~IsContentLength(line)
  BY <1>4, <1>5
<1>7. IsUtf8(line) \in BOOLEAN
  BY DEF IsUtf8
<1>8. parseHeaderValue(header[r], line) \in Header
  <2>1. CASE IsContentLength(line)
    BY <2>1, <1>1, <1>4 DEF parseHeaderValue, Header
  <2>2. CASE ~IsContentLength(line) /\ IsContentType(line)
    BY <2>2, <1>1, <1>7 DEF parseHeaderValue, Header
  <2>3. CASE ~IsContentLength(line) /\ ~IsContentType(line)
    BY <2>3, <1>1 DEF parseHeaderValue
  <2>. QED BY <2>1, <2>2, <2>3
<1>. QED BY <1>1, <1>3, <1>4, <1>5, <1>6, <1>8 DEF NoHeader, Header, parseHeaderValue

\* The sequence that a reader reads, without its first symbol.
LEMMA PipeTail ==
    ASSUME TypeOK, pipe # <<>>
    PROVE  /\ Head(pipe) = pipe[1] /\ pipe[1] \in Symbols
           /\ Tail(pipe) \in Seq(Symbols) /\ Len(Tail(pipe)) <= PipeSize
           /\ Len(Tail(pipe)) = Len(pipe) - 1 /\ Len(pipe) \in Nat /\ Len(pipe) >= 1
           /\ \A i \in 1 .. Len(pipe) - 1 : Tail(pipe)[i] = pipe[i + 1]
           /\ Tail(pipe) = <<>> <=> Len(pipe) = 1
<1>1. pipe \in Seq(Symbols) /\ Len(pipe) <= PipeSize
  BY DEF TypeOK
<1>2. PipeSize \in Nat
  BY MessagesAssumption
<1>. QED BY <1>1, <1>2, Popped

\* What is on a line, and what there is room for in the content.
LEMMA LocalTypes ==
    ASSUME TypeOK, NEW r \in Readers
    PROVE  /\ lineData[r] \in Seq(Symbols \union {Eof})
           /\ \A s \in Symbols \union {Eof} :
                 Extend(lineData[r], s) \in Seq(Symbols \union {Eof})
           /\ content[r] \in Seq(Symbols \union {NUL}) /\ Len(content[r]) \in Nat
           /\ \A s \in Symbols \union {NUL} :
                 /\ Append(content[r], s) \in Seq(Symbols \union {NUL})
                 /\ Len(Append(content[r], s)) = Len(content[r]) + 1
           /\ <<>> \in Seq(Symbols \union {NUL}) /\ <<>> \in Seq(Symbols \union {Eof})
           /\ Len(<<>>) = 0
<1>1. lineData[r] \in Seq(Symbols \union {Eof}) /\ content[r] \in Seq(Symbols \union {NUL})
  BY DEF TypeOK
<1>2. \A s \in Symbols \union {Eof} : Append(lineData[r], s) \in Seq(Symbols \union {Eof})
  BY <1>1, Pushed
<1>. QED BY <1>1, <1>2, Pushed DEF Extend

\* The types of what belongs to the readers, and of the stream.
LEMMA ReaderTypes ==
    ASSUME TypeOK, ReaderInv, NEW r \in Readers, ReaderMove(r)
    PROVE  /\ pipe' \in Seq(Symbols) /\ Len(pipe') <= PipeSize
           /\ m_readMutex' \in Readers \union {None}
           /\ rpc' \in [Readers -> {"idle", "lock", "field", "line", "lineLF", "endLF",
                                    "content", "parse"}]
           /\ header' \in [Readers -> Header]
           /\ lineData' \in [Readers -> Seq(Symbols \union {Eof})]
           /\ content' \in [Readers -> Seq(Symbols \union {NUL})]
           /\ Len(content'[r]) <= header'[r].contentLength
           /\ taken' \in Seq(Messages)
           /\ delivered' \subseteq Messages
           /\ refused' \subseteq Messages
           /\ thrown' \subseteq Messages
           /\ replies' \in Nat
<1>1. /\ pipe \in Seq(Symbols) /\ Len(pipe) <= PipeSize
      /\ m_readMutex \in Readers \union {None}
      /\ rpc \in [Readers -> {"idle", "lock", "field", "line", "lineLF", "endLF", "content",
                              "parse"}]
      /\ header \in [Readers -> Header]
      /\ lineData \in [Readers -> Seq(Symbols \union {Eof})]
      /\ content \in [Readers -> Seq(Symbols \union {NUL})]
      /\ Len(content[r]) <= header[r].contentLength
      /\ taken \in Seq(Messages) /\ delivered \subseteq Messages /\ refused \subseteq Messages
      /\ thrown \subseteq Messages
      /\ replies \in Nat
  BY DEF TypeOK
<1>2. /\ NoHeader \in Header /\ NoHeader.contentLength = 0
      /\ header[r].contentLength \in Nat
      /\ parseHeaderValue(header[r], lineData[r]) \in Header
  BY HeaderTypes DEF NoHeader
<1>3. /\ \A s \in Symbols \union {Eof} :
            Extend(lineData[r], s) \in Seq(Symbols \union {Eof})
      /\ Len(content[r]) \in Nat
      /\ \A s \in Symbols \union {NUL} :
            /\ Append(content[r], s) \in Seq(Symbols \union {NUL})
            /\ Len(Append(content[r], s)) = Len(content[r]) + 1
      /\ <<>> \in Seq(Symbols \union {NUL}) /\ <<>> \in Seq(Symbols \union {Eof})
      /\ Len(<<>>) = 0
  BY LocalTypes
<1>4. pipe # <<>> => /\ Head(pipe) \in Symbols
                     /\ Tail(pipe) \in Seq(Symbols) /\ Len(Tail(pipe)) <= PipeSize
  BY PipeTail
<1>. USE DEF streamVars, writeVars, readVars, resultVars
<1>5. Return(r) => /\ rpc'[r] = "idle" /\ header'[r] = NoHeader
                   /\ content'[r] = <<>> /\ lineData'[r] = <<>>
                   /\ rpc' \in [Readers -> {"idle", "lock", "field", "line", "lineLF", "endLF",
                                            "content", "parse"}]
                   /\ header' \in [Readers -> Header]
                   /\ lineData' \in [Readers -> Seq(Symbols \union {Eof})]
                   /\ content' \in [Readers -> Seq(Symbols \union {NUL})]
                   /\ Len(content'[r]) <= header'[r].contentLength
  <2>. SUFFICES ASSUME Return(r)
                PROVE  /\ rpc' = [rpc EXCEPT ![r] = "idle"]
                       /\ lineData' = [lineData EXCEPT ![r] = <<>>]
                       /\ content' = [content EXCEPT ![r] = <<>>]
                       /\ header' = [header EXCEPT ![r] = NoHeader]
    <3>1. Len(<<>>) <= NoHeader.contentLength
      BY <1>2, <1>3
    <3>. QED BY <3>1, <1>1, <1>2, <1>3
  <2>. QED BY DEF Return
<1>6. CASE CallRead(r)
  BY <1>1, <1>6 DEF CallRead
<1>7. CASE LockRead(r)
  <2>1. /\ header' = [header EXCEPT ![r] = NoHeader] /\ content' = content
        /\ rpc' = [rpc EXCEPT ![r] = "field"] /\ lineData' = lineData /\ pipe' = pipe
        /\ m_readMutex' = r
        /\ UNCHANGED <<taken, delivered, refused, thrown, replies>>
    BY <1>7 DEF LockRead
  <2>2. content[r] = <<>>
    BY <1>7 DEF LockRead, ReaderInv
  <2>3. Len(content'[r]) <= header'[r].contentLength
    BY <1>1, <1>2, <1>3, <2>1, <2>2
  <2>. QED BY <1>1, <1>2, <2>1, <2>3
<1>8. CASE NextField(r)
  BY <1>1, <1>4, <1>8 DEF NextField
<1>9. CASE ReadLine(r)
  <2>1. CASE ReturnError(r)
    BY <1>1, <1>4, <1>5, <1>9, <2>1 DEF ReadLine, ReturnError, ReleaseRead
  <2>2. CASE ~ReturnError(r)
    <3>1. /\ UNCHANGED <<m_readMutex, rpc, header, content>>
          /\ UNCHANGED <<taken, delivered, refused, thrown, replies>>
          /\ (pipe' = pipe \/ (pipe # <<>> /\ pipe' = Tail(pipe)))
      <4>1. UNCHANGED <<taken, delivered, refused, thrown, replies>>
        BY <1>9 DEF ReadLine
      <4>. QED BY <1>9, <2>2, <4>1 DEF ReadLine
    <3>2. \E x \in Symbols \union {Eof} :
             lineData' = [lineData EXCEPT ![r] = Extend(lineData[r], x)]
      BY <1>4, <1>9, <2>2 DEF ReadLine
    <3>3. lineData' \in [Readers -> Seq(Symbols \union {Eof})]
      BY <1>1, <1>3, <3>2
    <3>. QED BY <1>1, <1>4, <3>1, <3>3
  <2>. QED BY <2>1, <2>2
<1>10. CASE EndLine(r)
  <2>1. CASE ReturnError(r)
    BY <1>1, <1>4, <1>5, <1>10, <2>1 DEF EndLine, ReturnError, ReleaseRead
  <2>2. CASE ~ReturnError(r)
    <3>1. content[r] = <<>>
      BY <1>10 DEF EndLine, ReaderInv
    <3>2. /\ header' = [header EXCEPT ![r] = parseHeaderValue(@, lineData[r])]
          /\ content' = content /\ pipe # <<>> /\ pipe' = Tail(pipe)
          /\ UNCHANGED <<m_readMutex, taken, delivered, refused, thrown, replies>>
          /\ lineData' = [lineData EXCEPT ![r] = <<>>]
          /\ rpc' = [rpc EXCEPT ![r] = "lineLF"]
      BY <1>10, <2>2 DEF EndLine
    <3>3. header'[r] \in Header /\ header'[r].contentLength \in Nat
      <4>1. header'[r] \in Header
        BY <1>1, <1>2, <3>2
      <4>. QED BY <4>1, Places DEF Header
    <3>4. Len(content'[r]) <= header'[r].contentLength
      BY <1>3, <3>1, <3>2, <3>3
    <3>. QED BY <1>1, <1>2, <1>3, <1>4, <3>2, <3>4
  <2>. QED BY <2>1, <2>2
<1>11. CASE ReadLF(r)
  <2>1. CASE ReturnError(r)
    BY <1>1, <1>4, <1>5, <1>11, <2>1 DEF ReadLF, ReturnError, ReleaseRead
  <2>2. CASE ~ReturnError(r)
    BY <1>1, <1>4, <1>11, <2>2 DEF ReadLF
  <2>. QED BY <2>1, <2>2
<1>12. CASE ReadContent(r)
  <2>1. content' = [content EXCEPT ![r] = Append(@, Head(pipe))] /\ header' = header
    BY <1>12 DEF ReadContent
  <2>2. Len(content[r]) < header[r].contentLength /\ pipe # <<>>
    BY <1>12 DEF ReadContent, Incomplete
  <2>3. Len(content'[r]) <= header'[r].contentLength
    BY <1>1, <1>2, <1>3, <1>4, <2>1, <2>2
  <2>. QED BY <1>1, <1>3, <1>4, <1>12, <2>1, <2>3, SMTT(30) DEF ReadContent
<1>13. CASE ContentLost(r) \/ EndOfStream(r)
  BY <1>1, <1>5, <1>13 DEF ContentLost, EndOfStream, ReturnError, ReleaseRead
<1>14. CASE UnlockRead(r)
  <2>1. header' = header /\ rpc' = [rpc EXCEPT ![r] = "parse"] /\ m_readMutex' = None
        /\ UNCHANGED <<lineData, pipe, delivered, refused, thrown, replies>>
    BY <1>14 DEF UnlockRead, ReleaseRead
  <2>2. /\ content' \in [Readers -> Seq(Symbols \union {NUL})]
        /\ Len(content'[r]) <= header'[r].contentLength
    <3>1. CASE content' = content
      BY <1>1, <2>1, <3>1
    <3>2. CASE content' # content
      <4>1. /\ content' = [content EXCEPT ![r] = Append(content[r], NUL)]
            /\ Len(content[r]) < header[r].contentLength
        BY <1>14, <3>2 DEF UnlockRead, Incomplete
      <4>. QED BY <1>1, <1>2, <1>3, <2>1, <4>1
    <3>. QED BY <3>1, <3>2
  <2>3. taken' \in Seq(Messages)
    BY <1>1, <1>14 DEF UnlockRead, WholeBody
  <2>. QED BY <1>1, <2>1, <2>2, <2>3
<1>15. CASE ParseContent(r)
  BY <1>1, <1>5, <1>15, SMTT(30) DEF ParseContent, Deliver, Refuse, Throw, WholeBody
<1>. QED
  BY <1>6, <1>7, <1>8, <1>9, <1>10, <1>11, <1>12, <1>13, <1>14, <1>15 DEF ReaderMove, ReadStep

\* A writer leaves the readers alone.
LEMMA WriterFrame ==
    ASSUME TypeOK, CloseStream \/ \E w \in Writers : WriterMove(w)
    PROVE  /\ UNCHANGED <<stream, m_readMutex, rpc, header, lineData, content>>
           /\ UNCHANGED <<taken, delivered, refused, thrown, replies>>
<1>. USE DEF streamVars, writeVars, readVars, resultVars
<1>1. CASE CloseStream
  BY <1>1 DEF CloseStream
<1>2. ASSUME NEW w \in Writers, WriterMove(w)
      PROVE  /\ UNCHANGED <<stream, m_readMutex, rpc, header, lineData, content>>
             /\ UNCHANGED <<taken, delivered, refused, thrown, replies>>
  <2>1. CASE \E m \in Messages : CallWrite(w, m)
    BY <2>1 DEF CallWrite
  <2>2. CASE LockWrite(w)
    BY <2>2 DEF LockWrite
  <2>3. CASE WriteSymbol(w)
    BY <2>3 DEF WriteSymbol
  <2>4. CASE EndWrite(w) \/ FailWrite(w)
    BY <2>4 DEF EndWrite, FailWrite, UnlockWrite
  <2>. QED BY <1>2, <2>1, <2>2, <2>3, <2>4 DEF WriterMove
<1>. QED BY <1>1, <1>2

\* The message and the place of a writer that is at work.
LEMMA WriterIs ==
    ASSUME TypeOK, WriterInv, NEW w \in Writers, wpc[w] # "idle"
    PROVE  /\ message[w] \in Messages /\ message[w] \in sent
           /\ place[w] \in Nat
           /\ place[w] >= First(message[w]) /\ place[w] <= Last(message[w]) + 1
           /\ Last(message[w]) \in Nat /\ First(message[w]) \in Nat
           /\ First(message[w]) < Last(message[w])
           /\ NextPlace(w)[1] = message[w] /\ NextPlace(w)[2] = place[w]
           /\ Writing(w) => NextPlace(w) \in Symbols
<1>1. message[w] \in Messages /\ message[w] \in sent /\ place[w] \in Nat
  BY DEF TypeOK, WriterInv
<1>2. place[w] \in First(message[w]) .. Last(message[w]) + 1
  BY DEF WriterInv
<1>3. /\ Last(message[w]) \in Nat /\ First(message[w]) \in Nat
      /\ First(message[w]) < Last(message[w])
  BY <1>1, Places
<1>4. Writing(w) => NextPlace(w) \in Symbols
  BY <1>1, <1>2, <1>3, IsSymbol DEF Writing, NextPlace
<1>. QED BY <1>1, <1>2, <1>3, <1>4 DEF NextPlace

LEMMA WriterTypes ==
    ASSUME TypeOK, WriterInv, CloseStream \/ \E w \in Writers : WriterMove(w)
    PROVE  TypeOK'
<1>1. /\ UNCHANGED <<stream, m_readMutex, rpc, header, lineData, content>>
      /\ UNCHANGED <<taken, delivered, refused, thrown, replies>>
  BY WriterFrame
<1>2. SUFFICES /\ pipe' \in Seq(Symbols) /\ Len(pipe') <= PipeSize
               /\ closed' \in BOOLEAN
               /\ m_writeMutex' \in Writers \union {None}
               /\ wpc' \in [Writers -> {"idle", "lock", "write"}]
               /\ sent' \subseteq Messages
               /\ message' \in [Writers -> Messages \union {None}]
               /\ place' \in [Writers -> Nat]
               /\ written' \in Seq(Messages)
               /\ failures' \in 0 .. MaxFailures
               /\ damaged' \in BOOLEAN
  BY <1>1 DEF TypeOK
<1>3. /\ pipe \in Seq(Symbols) /\ Len(pipe) <= PipeSize
      /\ closed \in BOOLEAN
      /\ m_writeMutex \in Writers \union {None}
      /\ wpc \in [Writers -> {"idle", "lock", "write"}]
      /\ sent \subseteq Messages
      /\ message \in [Writers -> Messages \union {None}]
      /\ place \in [Writers -> Nat]
      /\ written \in Seq(Messages)
      /\ failures \in 0 .. MaxFailures
      /\ damaged \in BOOLEAN
  BY DEF TypeOK
<1>. USE DEF streamVars, writeVars, readVars, resultVars
<1>4. CASE CloseStream
  BY <1>3, <1>4 DEF CloseStream, Torn, Writing
<1>5. ASSUME NEW w \in Writers, NEW m \in Messages, CallWrite(w, m)
      PROVE  <1>2!1
  <2>1. First(m) \in Nat
    BY Places
  <2>. QED BY <1>3, <1>5, <2>1 DEF CallWrite
<1>6. ASSUME NEW w \in Writers, LockWrite(w)
      PROVE  <1>2!1
  BY <1>3, <1>6 DEF LockWrite
<1>7. ASSUME NEW w \in Writers, WriteSymbol(w)
      PROVE  <1>2!1
  <2>1. wpc[w] # "idle" /\ Writing(w)
    BY <1>7 DEF WriteSymbol, Writing
  <2>2. message[w] \in Messages /\ NextPlace(w) \in Symbols /\ place[w] \in Nat
    BY <2>1, WriterIs
  <2>3. pipe' = Append(pipe, NextPlace(w)) /\ Len(pipe) < PipeSize
    BY <1>7 DEF WriteSymbol, NextPlace
  <2>4. pipe' \in Seq(Symbols) /\ Len(pipe') <= PipeSize
    BY <1>3, <2>2, <2>3, Pushed, MessagesAssumption
  <2>5. place' \in [Writers -> Nat]
    BY <1>3, <1>7, <2>2 DEF WriteSymbol
  <2>6. written' \in Seq(Messages)
    BY <1>3, <1>7, <2>2, Pushed DEF WriteSymbol
  <2>7. damaged' \in BOOLEAN
    BY <1>3, <1>7 DEF WriteSymbol
  <2>. QED BY <1>3, <1>7, <2>4, <2>5, <2>6, <2>7 DEF WriteSymbol
<1>8. ASSUME NEW w \in Writers, EndWrite(w) \/ FailWrite(w)
      PROVE  <1>2!1
  <2>1. /\ failures' \in 0 .. MaxFailures
        /\ damaged' \in BOOLEAN
    <3>1. CASE EndWrite(w)
      BY <1>3, <3>1 DEF EndWrite
    <3>2. CASE FailWrite(w)
      <4>1. damaged' = (damaged \/ Torn(w))
        BY <3>2 DEF FailWrite
      <4>2. failures' = failures \/ (failures < MaxFailures /\ failures' = failures + 1)
        BY <3>2 DEF FailWrite
      <4>. QED BY <1>3, <4>1, <4>2, MessagesAssumption DEF Torn
    <3>. QED BY <1>8, <3>1, <3>2
  <2>2. UnlockWrite(w)
    BY <1>8 DEF EndWrite, FailWrite
  <2>. QED BY <1>3, <2>1, <2>2 DEF UnlockWrite
<1>. QED BY <1>4, <1>5, <1>6, <1>7, <1>8 DEF WriterMove

-----------------------------------------------------------------------------
(* The writers and the stream. *)

LEMMA WriterInvStep ==
    ASSUME TypeOK, WriterInv, Next
    PROVE  WriterInv'
<1>1. /\ m_writeMutex \in Writers \union {None} /\ None \notin Writers
      /\ wpc \in [Writers -> {"idle", "lock", "write"}]
      /\ message \in [Writers -> Messages \union {None}]
      /\ place \in [Writers -> Nat]
      /\ sent \subseteq Messages
  BY MessagesAssumption DEF TypeOK
<1>2. /\ \A w \in Writers :
            /\ wpc[w] = "write" <=> m_writeMutex = w
            /\ wpc[w] = "idle" => message[w] = None
            /\ wpc[w] # "idle" => /\ message[w] \in sent
                                  /\ place[w] \in First(message[w]) .. Last(message[w]) + 1
            /\ wpc[w] = "lock" => place[w] = First(message[w])
            /\ wpc[w] = "write" /\ message[w] \in Malformed /\ place[w] > First(message[w])
                  => damaged
      /\ \A w, v \in Writers : message[w] = message[v] /\ message[w] # None => w = v
  BY DEF WriterInv
<1>. USE DEF streamVars, writeVars, readVars, resultVars
<1>3. ASSUME NEW w \in Writers, NEW m \in Messages, CallWrite(w, m)
      PROVE  WriterInv'
  <2>1. /\ wpc' = [wpc EXCEPT ![w] = "lock"] /\ wpc[w] = "idle" /\ m \notin sent
        /\ sent' = sent \union {m}
        /\ message' = [message EXCEPT ![w] = m] /\ place' = [place EXCEPT ![w] = First(m)]
        /\ m_writeMutex' = m_writeMutex /\ damaged' = damaged
    BY <1>3 DEF CallWrite
  <2>2. /\ First(m) \in Nat /\ First(m) \in First(m) .. Last(m) + 1 /\ m # None
    BY Places
  <2>3. \A v \in Writers : message[v] # None => message[v] \in sent
    BY <1>2
  <2>. QED BY <1>1, <1>2, <2>1, <2>2, <2>3 DEF WriterInv
<1>4. ASSUME NEW w \in Writers, LockWrite(w)
      PROVE  WriterInv'
  <2>1. /\ wpc' = [wpc EXCEPT ![w] = "write"] /\ wpc[w] = "lock"
        /\ m_writeMutex = None /\ m_writeMutex' = w
        /\ UNCHANGED <<sent, message, place, damaged>>
    BY <1>4 DEF LockWrite, MayWrite
  <2>2. message[w] \in Messages /\ place[w] = First(message[w])
    BY <1>1, <1>2, <2>1
  <2>3. First(message[w]) \in Nat
    BY <2>2, Places
  <2>. QED BY <1>1, <1>2, <2>1, <2>2, <2>3 DEF WriterInv
<1>5. ASSUME NEW w \in Writers, WriteSymbol(w)
      PROVE  WriterInv'
  <2>1. /\ wpc[w] = "write" /\ Writing(w) /\ wpc' = wpc
        /\ place' = [place EXCEPT ![w] = place[w] + 1]
        /\ damaged' = (damaged \/ message[w] \in Malformed)
        /\ UNCHANGED <<m_writeMutex, sent, message>>
    BY <1>5 DEF WriteSymbol, Writing
  <2>2. /\ place[w] \in Nat /\ place[w] >= First(message[w]) /\ First(message[w]) \in Nat
        /\ place[w] <= Last(message[w]) /\ Last(message[w]) \in Nat
    BY <2>1, WriterIs DEF Writing
  <2>3. place[w] + 1 \in First(message[w]) .. Last(message[w]) + 1
    BY <2>2
  <2>. QED BY <1>1, <1>2, <2>1, <2>3 DEF WriterInv
<1>6. ASSUME NEW w \in Writers, EndWrite(w) \/ FailWrite(w)
      PROVE  WriterInv'
  <2>1. UnlockWrite(w) /\ wpc[w] = "write" /\ (damaged => damaged')
    <3>1. CASE EndWrite(w)
      BY <3>1 DEF EndWrite
    <3>2. CASE FailWrite(w)
      <4>1. damaged' = (damaged \/ Torn(w)) /\ UnlockWrite(w) /\ Writing(w)
        BY <3>2 DEF FailWrite
      <4>. QED BY <4>1 DEF Writing
    <3>. QED BY <1>6, <3>1, <3>2
  <2>2. /\ m_writeMutex' = None /\ wpc' = [wpc EXCEPT ![w] = "idle"]
        /\ message' = [message EXCEPT ![w] = None] /\ place' = [place EXCEPT ![w] = 0]
        /\ sent' = sent
    BY <2>1 DEF UnlockWrite
  <2>. QED BY <1>1, <1>2, <2>1, <2>2 DEF WriterInv
<1>7. ASSUME CloseStream
      PROVE  WriterInv'
  BY <1>2, <1>7 DEF CloseStream, WriterInv
<1>8. ASSUME NEW r \in Readers, ReaderMove(r)
      PROVE  WriterInv'
  BY <1>2, <1>8, ReaderFrame DEF WriterInv
<1>. QED BY <1>3, <1>4, <1>5, <1>6, <1>7, <1>8, NextIs DEF WriterMove

\* What a reader leaves of the stream.
LEMMA PipePop ==
    ASSUME TypeOK, PipeInv, UNCHANGED <<closed, wpc, message, place, damaged>>,
           pipe' = pipe \/ (pipe # <<>> /\ pipe' = Tail(pipe))
    PROVE  PipeInv'
<1>1. \A w \in Writers : Mid(w)' <=> Mid(w)
  BY DEF Mid, Writing
<1>2. \A w \in Writers : NextPlace(w)' = NextPlace(w)
  BY DEF NextPlace
<1>3. CASE pipe' = pipe
  BY <1>1, <1>2, <1>3 DEF PipeInv, Chained, Unbroken
<1>4. CASE pipe # <<>> /\ pipe' = Tail(pipe)
  <2>1. /\ Len(pipe) \in Nat /\ Len(pipe) >= 1 /\ Len(pipe') = Len(pipe) - 1
        /\ \A i \in 1 .. Len(pipe) - 1 : pipe'[i] = pipe[i + 1]
        /\ pipe' = <<>> <=> Len(pipe) = 1
    BY <1>4, PipeTail
  <2>2. \A i \in 1 .. Len(pipe') - 1 : /\ pipe'[i] = pipe[i + 1]
                                       /\ pipe'[i + 1] = pipe[(i + 1) + 1]
                                       /\ i + 1 \in 1 .. Len(pipe) - 1
    <3>. TAKE i \in 1 .. Len(pipe') - 1
    <3>. DEFINE j == i + 1
    <3>1. i \in 1 .. Len(pipe) - 1 /\ j \in 1 .. Len(pipe) - 1
      BY <2>1
    <3>2. pipe'[i] = pipe[i + 1] /\ pipe'[j] = pipe[j + 1]
      BY <2>1, <3>1
    <3>. QED BY <3>1, <3>2
  <2>3. pipe' # <<>> => pipe'[Len(pipe')] = pipe[Len(pipe)]
    <3>. SUFFICES ASSUME pipe' # <<>>
                  PROVE  pipe'[Len(pipe')] = pipe[Len(pipe)]
      OBVIOUS
    <3>. DEFINE k == Len(pipe) - 1
    <3>1. k \in 1 .. Len(pipe) - 1 /\ Len(pipe') = k /\ k + 1 = Len(pipe)
      BY <2>1
    <3>2. pipe'[k] = pipe[k + 1]
      BY <2>1, <3>1
    <3>. QED BY <3>1, <3>2
  <2>4. \A i \in 1 .. Len(pipe') : pipe'[i] = pipe[i + 1] /\ i + 1 \in 1 .. Len(pipe)
    BY <2>1
  <2>5. Chained'
    BY <1>1, <1>2, <1>4, <2>2, <2>3 DEF PipeInv, Chained
  <2>6. Unbroken => Unbroken'
    BY <1>1, <1>2, <1>4, <2>2, <2>3, <2>4 DEF Unbroken
  <2>. QED BY <2>5, <2>6 DEF PipeInv
<1>. QED BY <1>3, <1>4

LEMMA PipeInvStep ==
    ASSUME TypeOK, WriterInv, PipeInv, Next
    PROVE  PipeInv'
<1>1. /\ m_writeMutex \in Writers \union {None} /\ None \notin Writers
      /\ wpc \in [Writers -> {"idle", "lock", "write"}]
      /\ message \in [Writers -> Messages \union {None}]
      /\ place \in [Writers -> Nat]
      /\ pipe \in Seq(Symbols)
      /\ \A w \in Writers : wpc[w] = "write" <=> m_writeMutex = w
  BY MessagesAssumption DEF TypeOK, WriterInv
<1>. USE DEF streamVars, writeVars, readVars, resultVars
<1>2. ASSUME pipe' = pipe, \A w \in Writers : Mid(w)' => Mid(w) /\ NextPlace(w)' = NextPlace(w),
             ~damaged' => ~damaged /\ \A w \in Writers : Mid(w) => Mid(w)'
      PROVE  PipeInv'
  BY <1>2 DEF PipeInv, Chained, Unbroken
<1>3. ASSUME NEW w \in Writers, NEW m \in Messages, CallWrite(w, m)
      PROVE  PipeInv'
  <2>1. /\ wpc' = [wpc EXCEPT ![w] = "lock"] /\ wpc[w] = "idle"
        /\ message' = [message EXCEPT ![w] = m] /\ place' = [place EXCEPT ![w] = First(m)]
        /\ damaged' = damaged /\ closed' = closed /\ pipe' = pipe
    BY <1>3 DEF CallWrite
  <2>2. ~Mid(w) /\ ~Mid(w)'
    BY <1>1, <2>1 DEF Mid, Writing
  <2>3. \A v \in Writers \ {w} : (Mid(v)' <=> Mid(v)) /\ NextPlace(v)' = NextPlace(v)
    BY <1>1, <2>1 DEF Mid, Writing, NextPlace
  <2>. QED BY <1>2, <2>1, <2>2, <2>3
<1>4. ASSUME NEW w \in Writers, LockWrite(w)
      PROVE  PipeInv'
  <2>1. /\ wpc' = [wpc EXCEPT ![w] = "write"] /\ wpc[w] = "lock"
        /\ UNCHANGED <<message, place, damaged, closed, pipe>>
    BY <1>4 DEF LockWrite
  <2>2. place[w] = First(message[w]) /\ place[w] \in Nat
    BY <1>1, <2>1 DEF WriterInv
  <2>3. ~Mid(w) /\ ~Mid(w)'
    BY <1>1, <2>1, <2>2 DEF Mid, Writing
  <2>4. \A v \in Writers \ {w} : (Mid(v)' <=> Mid(v)) /\ NextPlace(v)' = NextPlace(v)
    BY <1>1, <2>1 DEF Mid, Writing, NextPlace
  <2>. QED BY <1>2, <2>1, <2>3, <2>4
<1>5. ASSUME NEW w \in Writers, WriteSymbol(w)
      PROVE  PipeInv'
  <2>. DEFINE s == NextPlace(w)
  <2>1. /\ wpc[w] = "write" /\ Writing(w) /\ wpc' = wpc /\ ~closed
        /\ place' = [place EXCEPT ![w] = place[w] + 1]
        /\ damaged' = (damaged \/ message[w] \in Malformed)
        /\ message' = message /\ closed' = closed
        /\ pipe' = Append(pipe, s)
    BY <1>5 DEF WriteSymbol, Writing, NextPlace
  <2>2. /\ s \in Symbols /\ s[1] = message[w] /\ s[2] = place[w]
        /\ place[w] \in Nat /\ First(message[w]) \in Nat /\ Last(message[w]) \in Nat
        /\ place[w] >= First(message[w]) /\ place[w] <= Last(message[w])
    BY <2>1, WriterIs DEF Writing
  <2>3. /\ Len(pipe) \in Nat /\ Len(pipe') = Len(pipe) + 1
        /\ \A i \in 1 .. Len(pipe) : pipe'[i] = pipe[i]
        /\ pipe'[Len(pipe) + 1] = s
        /\ pipe = <<>> <=> Len(pipe) = 0
    BY <1>1, <2>1, <2>2, Pushed, NotEmpty
  <2>4. pipe # <<>> => Successor(pipe[Len(pipe)]) = s \/ IsFirst(s)
    BY <2>1, <2>2 DEF PipeInv, Chained, Mid, IsFirst
  <2>5. \A v \in Writers : Mid(v)' => v = w
    BY <1>1, <2>1 DEF Mid, Writing
  <2>6. NextPlace(w)' = Successor(s)
    BY <1>1, <2>1, <2>2 DEF NextPlace, Successor
  <2>7. Chained'
    <3>1. ASSUME NEW i \in 1 .. Len(pipe') - 1
          PROVE  pipe'[i + 1] = Successor(pipe'[i]) \/ IsFirst(pipe'[i + 1])
      <4>1. CASE i = Len(pipe)
        BY <2>3, <2>4, <4>1
      <4>2. CASE i \in 1 .. Len(pipe) - 1
        BY <2>3, <4>2 DEF PipeInv, Chained
      <4>. QED BY <2>3, <4>1, <4>2
    <3>2. \A v \in Writers : Mid(v)' => Successor(pipe'[Len(pipe')]) = NextPlace(v)'
      BY <2>3, <2>5, <2>6
    <3>. QED BY <3>1, <3>2 DEF Chained, IsFirst, Successor, First
  <2>8. ASSUME ~damaged'
        PROVE  Unbroken'
    <3>1. ~damaged /\ message[w] \notin Malformed /\ Unbroken
      BY <2>1, <2>8 DEF PipeInv
    <3>2. pipe # <<>> => IsLast(pipe[Len(pipe)]) \/ s = Successor(pipe[Len(pipe)])
      <4>1. pipe # <<>> => IsLast(pipe[Len(pipe)]) \/ \E v \in Writers : Mid(v)
        BY <3>1 DEF Unbroken
      <4>2. \A v \in Writers : Mid(v) => v = w
        BY <1>1, <2>1 DEF Mid, Writing
      <4>. QED BY <4>1, <4>2 DEF PipeInv, Chained
    <3>3. \A i \in 1 .. Len(pipe') : pipe'[i][1] \notin Malformed
      BY <2>2, <2>3, <3>1 DEF Unbroken
    <3>4. ASSUME NEW i \in 1 .. Len(pipe') - 1
          PROVE  IsLast(pipe'[i]) \/ pipe'[i + 1] = Successor(pipe'[i])
      <4>1. CASE i = Len(pipe)
        BY <2>3, <3>2, <4>1
      <4>2. CASE i \in 1 .. Len(pipe) - 1
        BY <2>3, <3>1, <4>2 DEF Unbroken
      <4>. QED BY <2>3, <4>1, <4>2
    <3>5. IsLast(pipe'[Len(pipe')]) \/ Mid(w)'
      <4>1. CASE place[w] = Last(message[w])
        BY <2>2, <2>3, <4>1 DEF IsLast
      <4>2. CASE place[w] # Last(message[w])
        <5>1. /\ place'[w] = place[w] + 1 /\ message'[w] = message[w] /\ wpc'[w] = "write"
              /\ ~closed'
          BY <1>1, <2>1
        <5>2. place'[w] <= Last(message'[w]) /\ place'[w] > First(message'[w])
          BY <2>2, <4>2, <5>1
        <5>. QED BY <5>1, <5>2 DEF Mid, Writing
      <4>. QED BY <4>1, <4>2
    <3>. QED BY <3>3, <3>4, <3>5 DEF Unbroken, IsLast, Successor
  <2>. QED BY <2>7, <2>8 DEF PipeInv
<1>6. ASSUME NEW w \in Writers, EndWrite(w) \/ FailWrite(w)
      PROVE  PipeInv'
  <2>1. /\ UnlockWrite(w) /\ wpc[w] = "write"
        /\ ~damaged' => ~damaged /\ ~Torn(w)
    <3>1. CASE EndWrite(w)
      BY <3>1 DEF EndWrite, Torn
    <3>2. CASE FailWrite(w)
      <4>1. damaged' = (damaged \/ Torn(w)) /\ UnlockWrite(w) /\ Writing(w)
        BY <3>2 DEF FailWrite
      <4>. QED BY <4>1 DEF Writing
    <3>. QED BY <1>6, <3>1, <3>2
  <2>2. /\ wpc' = [wpc EXCEPT ![w] = "idle"] /\ pipe' = pipe /\ closed' = closed
        /\ message' = [message EXCEPT ![w] = None] /\ place' = [place EXCEPT ![w] = 0]
    BY <2>1 DEF UnlockWrite
  <2>3. ~Mid(w)'
    BY <1>1, <2>2 DEF Mid, Writing
  <2>4. \A v \in Writers \ {w} : (Mid(v)' <=> Mid(v)) /\ NextPlace(v)' = NextPlace(v)
    BY <1>1, <2>2 DEF Mid, Writing, NextPlace
  <2>5. ~Torn(w) => ~Mid(w)
    <3>1. place[w] \in Nat /\ First(message[w]) \in Nat
      BY <2>1, WriterIs
    <3>. QED BY <3>1 DEF Torn, Mid
  <2>. QED BY <1>2, <2>1, <2>2, <2>3, <2>4, <2>5
<1>7. ASSUME CloseStream
      PROVE  PipeInv'
  <2>1. /\ UNCHANGED <<wpc, message, place, pipe>> /\ closed' = TRUE
        /\ damaged' = (damaged \/ \E w \in Writers : Torn(w))
    BY <1>7 DEF CloseStream
  <2>2. \A w \in Writers : ~Mid(w)'
    BY <2>1 DEF Mid
  <2>3. ASSUME NEW w \in Writers, Mid(w)
        PROVE  Torn(w)
    <3>1. place[w] \in Nat /\ First(message[w]) \in Nat /\ Writing(w)
      BY <2>3, WriterIs DEF Mid, Writing
    <3>. QED BY <2>3, <3>1 DEF Torn, Mid
  <2>. QED BY <1>2, <2>1, <2>2, <2>3
<1>8. ASSUME NEW r \in Readers, ReaderMove(r)
      PROVE  PipeInv'
  BY <1>8, ReaderFrame, PipePop
<1>. QED BY <1>3, <1>4, <1>5, <1>6, <1>7, <1>8, NextIs DEF WriterMove

-----------------------------------------------------------------------------
(* What the steps of a reader do, in terms of the next symbol.             *)

Become(r, pc, head, line, bytes) ==
    /\ rpc'[r] = pc
    /\ header'[r] = head
    /\ lineData'[r] = line
    /\ content'[r] = bytes

\* The next symbol is taken off the stream, or none is.
Pops == pipe # <<>> /\ pipe' = Tail(pipe)
Keeps == pipe' = pipe

Calls(r) ==
    /\ rpc[r] = "idle" /\ Keeps /\ m_readMutex' = m_readMutex
    /\ Become(r, "lock", header[r], lineData[r], content[r])

Locks(r) ==
    /\ rpc[r] = "lock" /\ Keeps /\ m_readMutex = None /\ m_readMutex' = r
    /\ Become(r, "field", NoHeader, lineData[r], content[r])

\* An error is returned: the end of the stream, a line that ends in LF or that is no
\* Content-Length, no LF after a CR, or content that is cut short.
Fails(r) ==
    /\ m_readMutex' = None
    /\ Become(r, "idle", NoHeader, <<>>, <<>>)
    /\ \/ rpc[r] = "field" /\ AtEnd /\ Keeps
       \/ rpc[r] = "line" /\ Pops /\ pipe[1][2] \in {3, 6, 8}
       \/ rpc[r] = "line" /\ Pops /\ pipe[1][2] \in {2, 5, 7} /\ InvalidLine(lineData[r])
       \/ rpc[r] \in {"lineLF", "endLF"} /\ AtEnd /\ Keeps
       \/ rpc[r] \in {"lineLF", "endLF"} /\ Pops /\ pipe[1][2] \notin {3, 6, 8}
       \/ rpc[r] = "content" /\ Incomplete(r) /\ AtEnd /\ Keeps

Peeks(r) ==
    /\ rpc[r] = "field" /\ pipe # <<>> /\ Keeps /\ m_readMutex' = m_readMutex
    /\ pipe[1][2] \notin {2, 5, 7}
    /\ Become(r, "line", header[r], lineData[r], content[r])

EndsHeader(r) ==
    /\ rpc[r] = "field" /\ Pops /\ m_readMutex' = m_readMutex
    /\ pipe[1][2] \in {2, 5, 7}
    /\ Become(r, "endLF", header[r], lineData[r], content[r])

\* A symbol of a line, or the end of the stream in its place.
Extends(r) ==
    /\ rpc[r] = "line" /\ m_readMutex' = m_readMutex
    /\ \/ /\ AtEnd /\ Keeps
          /\ Become(r, "line", header[r], Extend(lineData[r], Eof), content[r])
       \/ /\ Pops /\ pipe[1][2] \notin {2, 3, 5, 6, 7, 8}
          /\ Become(r, "line", header[r], Extend(lineData[r], pipe[1]), content[r])

EndsLine(r) ==
    /\ rpc[r] = "line" /\ Pops /\ m_readMutex' = m_readMutex
    /\ pipe[1][2] \in {2, 5, 7} /\ ~InvalidLine(lineData[r])
    /\ Become(r, "lineLF", parseHeaderValue(header[r], lineData[r]), <<>>, content[r])

EndsLF(r) ==
    /\ Pops /\ m_readMutex' = m_readMutex
    /\ pipe[1][2] \in {3, 6, 8}
    /\ \/ /\ rpc[r] = "lineLF"
          /\ Become(r, "field", header[r], lineData[r], content[r])
       \/ /\ rpc[r] = "endLF"
          /\ Become(r, "content", header[r], lineData[r], content[r])

AddsContent(r) ==
    /\ rpc[r] = "content" /\ Incomplete(r) /\ Pops /\ m_readMutex' = m_readMutex
    /\ Become(r, "content", header[r], lineData[r], Append(content[r], pipe[1]))

Unlocks(r) ==
    /\ rpc[r] = "content" /\ Keeps /\ m_readMutex' = None
    /\ \/ /\ ~Incomplete(r)
          /\ Become(r, "parse", header[r], lineData[r], content[r])
       \/ /\ Incomplete(r) /\ AtEnd
          /\ Become(r, "parse", header[r], lineData[r], Append(content[r], NUL))

Leaves(r) ==
    /\ rpc[r] = "parse" /\ Keeps /\ m_readMutex' = m_readMutex
    /\ Become(r, "idle", NoHeader, <<>>, <<>>)

LEMMA ReaderCases ==
    ASSUME TypeOK, NEW r \in Readers, ReaderMove(r)
    PROVE  \/ /\ UNCHANGED <<taken, delivered, refused, thrown, replies>>
              /\ \/ Calls(r) \/ Locks(r) \/ Fails(r) \/ Peeks(r) \/ EndsHeader(r)
                 \/ Extends(r) \/ EndsLine(r) \/ EndsLF(r) \/ AddsContent(r)
           \/ UnlockRead(r) /\ Unlocks(r)
           \/ ParseContent(r) /\ Leaves(r)
<1>1. /\ rpc \in [Readers -> {"idle", "lock", "field", "line", "lineLF", "endLF", "content",
                              "parse"}]
      /\ header \in [Readers -> Header]
      /\ lineData \in [Readers -> Seq(Symbols \union {Eof})]
      /\ content \in [Readers -> Seq(Symbols \union {NUL})]
  BY DEF TypeOK
<1>2. pipe # <<>> => /\ Head(pipe) = pipe[1]
                     /\ Head(pipe) \in CR <=> pipe[1][2] \in {2, 5, 7}
                     /\ Head(pipe) \in LF <=> pipe[1][2] \in {3, 6, 8}
  BY PipeTail, LineEnds
<1>3. ASSUME Return(r)
      PROVE  Become(r, "idle", NoHeader, <<>>, <<>>)
  BY <1>1, <1>3 DEF Return, Become
<1>. USE DEF streamVars, writeVars, readVars, resultVars
<1>4. CASE CallRead(r)
  BY <1>1, <1>4 DEF CallRead, Calls, Become, Keeps
<1>5. CASE LockRead(r)
  BY <1>1, <1>5 DEF LockRead, Locks, Become, Keeps, MayRead
<1>6. CASE EndOfStream(r)
  BY <1>3, <1>6 DEF EndOfStream, Fails, Keeps, ReturnError, ReleaseRead
<1>7. CASE NextField(r)
  <2>1. CASE Head(pipe) \in CR
    BY <1>1, <1>2, <1>7, <2>1 DEF NextField, EndsHeader, Become, Pops
  <2>2. CASE Head(pipe) \notin CR
    BY <1>1, <1>2, <1>7, <2>2 DEF NextField, Peeks, Become, Keeps
  <2>. QED BY <2>1, <2>2
<1>8. CASE ReadLine(r)
  <2>1. rpc[r] = "line" /\ UNCHANGED <<taken, delivered, refused, thrown, replies>>
    BY <1>8 DEF ReadLine
  <2>2. CASE /\ AtEnd
             /\ lineData' = [lineData EXCEPT ![r] = Extend(@, Eof)]
             /\ UNCHANGED <<pipe, m_readMutex, rpc, header, content>>
    BY <1>1, <2>1, <2>2 DEF Extends, Become, Keeps
  <2>3. CASE /\ pipe # <<>>
             /\ Head(pipe) \notin CR \union LF
             /\ pipe' = Tail(pipe)
             /\ lineData' = [lineData EXCEPT ![r] = Extend(@, Head(pipe))]
             /\ UNCHANGED <<m_readMutex, rpc, header, content>>
    <3>1. pipe[1][2] \notin {2, 3, 5, 6, 7, 8}
      BY <1>2, <2>3
    <3>. QED BY <1>1, <1>2, <2>1, <2>3, <3>1 DEF Extends, Become, Pops
  <2>4. CASE /\ pipe # <<>>
             /\ Head(pipe) \in LF
             /\ pipe' = Tail(pipe)
             /\ ReturnError(r)
    BY <1>2, <1>3, <2>1, <2>4 DEF Fails, Pops, ReturnError, ReleaseRead
  <2>. QED BY <1>8, <2>2, <2>3, <2>4 DEF ReadLine
<1>9. CASE EndLine(r)
  <2>1. /\ rpc[r] = "line" /\ Pops /\ pipe[1][2] \in {2, 5, 7}
        /\ UNCHANGED <<taken, delivered, refused, thrown, replies>>
    BY <1>2, <1>9 DEF EndLine, Pops
  <2>2. CASE InvalidLine(lineData[r])
    <3>1. ReturnError(r)
      BY <1>9, <2>2 DEF EndLine
    <3>. QED BY <1>3, <2>1, <2>2, <3>1 DEF Fails, ReturnError, ReleaseRead
  <2>3. CASE ~InvalidLine(lineData[r])
    <3>1. /\ header' = [header EXCEPT ![r] = parseHeaderValue(@, lineData[r])]
          /\ lineData' = [lineData EXCEPT ![r] = <<>>]
          /\ rpc' = [rpc EXCEPT ![r] = "lineLF"]
          /\ UNCHANGED <<m_readMutex, content>>
      BY <1>9, <2>3 DEF EndLine
    <3>. QED BY <1>1, <2>1, <2>3, <3>1 DEF EndsLine, Become
  <2>. QED BY <2>2, <2>3
<1>10. CASE ReadLF(r)
  <2>1. /\ rpc[r] \in {"lineLF", "endLF"} /\ (pipe # <<>> \/ closed)
        /\ pipe' = IF pipe = <<>> THEN pipe ELSE Tail(pipe)
        /\ UNCHANGED <<taken, delivered, refused, thrown, replies>>
    BY <1>10 DEF ReadLF
  <2>2. CASE pipe # <<>> /\ Head(pipe) \in LF
    <3>1. /\ rpc' = [rpc EXCEPT ![r] = IF @ = "lineLF" THEN "field" ELSE "content"]
          /\ UNCHANGED <<m_readMutex, header, lineData, content>>
      BY <1>10, <2>2 DEF ReadLF
    <3>. QED BY <1>1, <1>2, <2>1, <2>2, <3>1 DEF EndsLF, Become, Pops
  <2>3. CASE ~(pipe # <<>> /\ Head(pipe) \in LF)
    <3>1. ReturnError(r)
      BY <1>10, <2>3 DEF ReadLF
    <3>. QED BY <1>2, <1>3, <2>1, <2>3, <3>1 DEF Fails, Pops, Keeps, AtEnd, ReturnError, ReleaseRead
  <2>. QED BY <2>2, <2>3
<1>11. CASE ReadContent(r)
  BY <1>1, <1>2, <1>11 DEF ReadContent, AddsContent, Become, Pops
<1>12. CASE ContentLost(r)
  BY <1>3, <1>12 DEF ContentLost, Fails, Keeps, ReturnError, ReleaseRead
<1>13. CASE UnlockRead(r)
  BY <1>1, <1>13 DEF UnlockRead, Unlocks, Become, Keeps, ReleaseRead
<1>14. CASE ParseContent(r)
  BY <1>3, <1>14 DEF ParseContent, Leaves, Keeps
<1>. QED
  BY <1>4, <1>5, <1>6, <1>7, <1>8, <1>9, <1>10, <1>11, <1>12, <1>13, <1>14
  DEF ReaderMove, ReadStep

LEMMA ReaderInvStep ==
    ASSUME TypeOK, WriterInv, ReaderInv, Next
    PROVE  ReaderInv'
<1>1. /\ m_readMutex \in Readers \union {None} /\ None \notin Readers
      /\ rpc \in [Readers -> {"idle", "lock", "field", "line", "lineLF", "endLF", "content",
                              "parse"}]
  BY MessagesAssumption DEF TypeOK
<1>2. CASE CloseStream \/ \E w \in Writers : WriterMove(w)
  BY <1>2, WriterFrame DEF ReaderInv
<1>3. ASSUME NEW r \in Readers, ReaderMove(r)
      PROVE  ReaderInv'
  <2>1. \A q \in Readers \ {r} :
           /\ rpc'[q] = rpc[q] /\ header'[q] = header[q]
           /\ lineData'[q] = lineData[q] /\ content'[q] = content[q]
    BY <1>3, ReaderFrame
  <2>2. /\ \A q \in Readers \ {r} : rpc[q] \in Holding <=> m_readMutex = q
        /\ rpc[r] \in Holding <=> m_readMutex = r
        /\ rpc[r] \in {"idle", "lock"} => header[r] = NoHeader
        /\ rpc[r] # "line" => lineData[r] = <<>>
        /\ rpc[r] \notin {"content", "parse"} => content[r] = <<>>
    BY DEF ReaderInv
  <2>3. SUFFICES /\ \A q \in Readers \ {r} : rpc[q] \in Holding <=> m_readMutex' = q
                 /\ rpc'[r] \in Holding <=> m_readMutex' = r
                 /\ rpc'[r] \in {"idle", "lock"} => header'[r] = NoHeader
                 /\ rpc'[r] # "line" => lineData'[r] = <<>>
                 /\ rpc'[r] \notin {"content", "parse"} => content'[r] = <<>>
    BY <2>1 DEF ReaderInv
  <2>. USE DEF Become, Holding
  <2>4. CASE Calls(r)
    BY <1>1, <2>2, <2>4 DEF Calls
  <2>5. CASE Locks(r)
    BY <1>1, <2>2, <2>5 DEF Locks
  <2>6. CASE Fails(r)
    BY <1>1, <2>2, <2>6 DEF Fails
  <2>7. CASE Peeks(r)
    BY <1>1, <2>2, <2>7 DEF Peeks
  <2>8. CASE EndsHeader(r)
    BY <1>1, <2>2, <2>8 DEF EndsHeader
  <2>9. CASE Extends(r)
    BY <1>1, <2>2, <2>9 DEF Extends
  <2>10. CASE EndsLine(r)
    BY <1>1, <2>2, <2>10 DEF EndsLine
  <2>11. CASE EndsLF(r)
    BY <1>1, <2>2, <2>11 DEF EndsLF
  <2>12. CASE AddsContent(r)
    BY <1>1, <2>2, <2>12 DEF AddsContent
  <2>13. CASE Unlocks(r)
    BY <1>1, <2>2, <2>13 DEF Unlocks
  <2>14. CASE Leaves(r)
    BY <1>1, <2>2, <2>14 DEF Leaves
  <2>. QED
    BY <1>3, <2>4, <2>5, <2>6, <2>7, <2>8, <2>9, <2>10, <2>11, <2>12, <2>13, <2>14, ReaderCases
<1>. QED BY <1>2, <1>3, NextIs

-----------------------------------------------------------------------------
(* The next symbol. *)

LEMMA ComingIs ==
    ASSUME TypeOK, WriterInv
    PROVE  /\ Coming \subseteq Symbols
           /\ pipe # <<>> => Coming = {pipe[1]}
           /\ AtEnd => Coming = {}
           /\ pipe = <<>> => \A s \in Coming : \E w \in Writers : Mid(w) /\ s = NextPlace(w)
<1>1. ASSUME NEW w \in Writers, Mid(w)
      PROVE  NextPlace(w) \in Symbols
  BY <1>1, WriterIs DEF Mid, Writing
<1>2. pipe # <<>> => pipe[1] \in Symbols
  BY PipeTail
<1>3. AtEnd => \A w \in Writers : ~Mid(w)
  BY DEF AtEnd, Mid
<1>. QED BY <1>1, <1>2, <1>3 DEF Coming, AtEnd

\* After the symbol that was taken comes the next of its frame, or a new frame.
LEMMA ComingPopped ==
    ASSUME TypeOK, WriterInv, PipeInv, Pops, UNCHANGED <<closed, wpc, message, place>>
    PROVE  \A s \in Coming' :
              /\ s \in Symbols
              /\ s = Successor(pipe[1]) \/ IsFirst(s)
<1>1. /\ Len(pipe) \in Nat /\ Len(pipe) >= 1 /\ Len(pipe') = Len(pipe) - 1
      /\ \A i \in 1 .. Len(pipe) - 1 : pipe'[i] = pipe[i + 1]
      /\ pipe' = <<>> <=> Len(pipe) = 1
      /\ pipe' \in Seq(Symbols)
  BY PipeTail DEF Pops
<1>2. \A w \in Writers : (Mid(w)' <=> Mid(w)) /\ NextPlace(w)' = NextPlace(w)
  BY DEF Mid, Writing, NextPlace
<1>3. CASE pipe' # <<>>
  <2>1. Coming' = {pipe'[1]} /\ 1 \in 1 .. Len(pipe) - 1
    BY <1>1, <1>3 DEF Coming
  <2>2. pipe'[1] = pipe[1 + 1]
    BY <1>1, <2>1
  <2>3. pipe'[1] = Successor(pipe[1]) \/ IsFirst(pipe'[1])
    BY <2>1, <2>2 DEF PipeInv, Chained
  <2>4. pipe'[1] \in Symbols
    BY <1>1, <1>3, NotEmpty
  <2>. QED BY <2>1, <2>3, <2>4
<1>4. CASE pipe' = <<>>
  <2>1. Coming' = {NextPlace(w) : w \in {v \in Writers : Mid(v)}}
    BY <1>2, <1>4 DEF Coming
  <2>2. ASSUME NEW w \in Writers, Mid(w)
        PROVE  NextPlace(w) \in Symbols /\ NextPlace(w) = Successor(pipe[1])
    <3>1. NextPlace(w) \in Symbols
      BY <2>2, WriterIs DEF Mid, Writing
    <3>2. Successor(pipe[Len(pipe)]) = NextPlace(w)
      BY <2>2 DEF PipeInv, Chained, Pops
    <3>. QED BY <1>1, <1>4, <3>1, <3>2
  <2>. QED BY <2>1, <2>2
<1>. QED BY <1>3, <1>4

LEMMA ComingKept ==
    ASSUME Keeps, UNCHANGED <<closed, wpc, message, place>>
    PROVE  Coming' = Coming
BY DEF Keeps, Coming, Mid, Writing, NextPlace

\* What a writer does makes nothing come next but the next symbol or a new frame.
ComingGrows ==
    /\ \A s \in Coming' : s \in Coming \/ (s \in Symbols /\ IsFirst(s))
    /\ pipe # <<>> => Coming' = Coming /\ pipe' # <<>>
    /\ ~damaged' => Coming \subseteq Coming'

LEMMA ComingWritten ==
    ASSUME TypeOK, WriterInv, CloseStream \/ \E w \in Writers : WriterMove(w)
    PROVE  ComingGrows
<1>1. /\ wpc \in [Writers -> {"idle", "lock", "write"}]
      /\ message \in [Writers -> Messages \union {None}]
      /\ place \in [Writers -> Nat]
      /\ pipe \in Seq(Symbols)
      /\ \A w \in Writers : wpc[w] = "write" <=> m_writeMutex = w
      /\ None \notin Writers
  BY MessagesAssumption DEF TypeOK, WriterInv
<1>. USE DEF streamVars, writeVars, readVars, resultVars
<1>2. ASSUME Keeps, \A w \in Writers : Mid(w)' => Mid(w) /\ NextPlace(w)' = NextPlace(w),
             ~damaged' => \A w \in Writers : Mid(w) => Mid(w)'
      PROVE  ComingGrows
  <2>1. CASE pipe # <<>>
    BY <1>2, <2>1 DEF Keeps, Coming, ComingGrows
  <2>2. CASE pipe = <<>>
    <3>1. Coming = {NextPlace(w) : w \in {v \in Writers : Mid(v)}}
      BY <2>2 DEF Coming
    <3>2. \A s \in Coming' : \E w \in Writers : Mid(w)' /\ s = NextPlace(w)'
      BY <1>2, <2>2 DEF Coming, Keeps
    <3>3. \A w \in Writers : Mid(w)' => NextPlace(w)' \in Coming'
      BY <1>2, <2>2 DEF Coming, Keeps
    <3>. QED BY <1>2, <2>2, <3>1, <3>2, <3>3 DEF ComingGrows
  <2>. QED BY <2>1, <2>2
<1>3. ASSUME NEW w \in Writers, NEW m \in Messages, CallWrite(w, m)
      PROVE  ComingGrows
  <2>1. /\ wpc' = [wpc EXCEPT ![w] = "lock"] /\ wpc[w] = "idle"
        /\ message' = [message EXCEPT ![w] = m] /\ place' = [place EXCEPT ![w] = First(m)]
        /\ closed' = closed /\ Keeps
    BY <1>3 DEF CallWrite, Keeps
  <2>2. ~Mid(w) /\ ~Mid(w)'
    BY <1>1, <2>1 DEF Mid, Writing
  <2>3. \A v \in Writers \ {w} : (Mid(v)' <=> Mid(v)) /\ NextPlace(v)' = NextPlace(v)
    BY <1>1, <2>1 DEF Mid, Writing, NextPlace
  <2>. QED BY <1>2, <2>1, <2>2, <2>3
<1>4. ASSUME NEW w \in Writers, LockWrite(w)
      PROVE  ComingGrows
  <2>1. /\ wpc' = [wpc EXCEPT ![w] = "write"] /\ wpc[w] = "lock"
        /\ UNCHANGED <<message, place, closed>> /\ Keeps
    BY <1>4 DEF LockWrite, Keeps
  <2>2. place[w] = First(message[w]) /\ place[w] \in Nat
    BY <1>1, <2>1 DEF WriterInv
  <2>3. ~Mid(w) /\ ~Mid(w)'
    BY <1>1, <2>1, <2>2 DEF Mid, Writing
  <2>4. \A v \in Writers \ {w} : (Mid(v)' <=> Mid(v)) /\ NextPlace(v)' = NextPlace(v)
    BY <1>1, <2>1 DEF Mid, Writing, NextPlace
  <2>. QED BY <1>2, <2>1, <2>3, <2>4
<1>5. ASSUME NEW w \in Writers, WriteSymbol(w)
      PROVE  ComingGrows
  <2>. DEFINE s == NextPlace(w)
  <2>1. Writing(w) /\ wpc[w] = "write" /\ ~closed /\ pipe' = Append(pipe, s)
    BY <1>5 DEF WriteSymbol, Writing, NextPlace
  <2>2. /\ s \in Symbols /\ s[1] = message[w] /\ s[2] = place[w]
        /\ place[w] \in Nat /\ First(message[w]) \in Nat /\ place[w] >= First(message[w])
    BY <2>1, WriterIs
  <2>3. /\ Len(pipe) \in Nat /\ Len(pipe') = Len(pipe) + 1 /\ pipe' # <<>>
        /\ \A i \in 1 .. Len(pipe) : pipe'[i] = pipe[i]
        /\ pipe'[Len(pipe) + 1] = s
        /\ pipe = <<>> <=> Len(pipe) = 0
    BY <1>1, <2>1, <2>2, Pushed, NotEmpty, SMTT(30)
  <2>4. Coming' = {pipe'[1]}
    BY <2>3 DEF Coming
  <2>5. CASE pipe # <<>>
    <3>1. 1 \in 1 .. Len(pipe) /\ Coming = {pipe[1]}
      BY <2>3, <2>5 DEF Coming
    <3>2. Coming' = Coming
      BY <2>3, <2>4, <3>1
    <3>. QED BY <2>3, <3>2 DEF ComingGrows
  <2>6. CASE pipe = <<>>
    <3>1. Coming' = {s} /\ Coming = {NextPlace(v) : v \in {u \in Writers : Mid(u)}}
      BY <2>3, <2>4, <2>6 DEF Coming
    <3>2. s \in Coming \/ IsFirst(s)
      BY <2>1, <2>2, <3>1 DEF Mid, IsFirst
    <3>3. \A x \in Coming' : x = s
      BY <3>1
    <3>4. \A v \in Writers : Mid(v) => v = w
      BY <1>1, <2>1 DEF Mid, Writing
    <3>5. Coming \subseteq {s}
      BY <3>1, <3>4
    <3>. QED BY <2>2, <2>6, <3>1, <3>2, <3>3, <3>5 DEF ComingGrows
  <2>. QED BY <2>5, <2>6
<1>6. ASSUME NEW w \in Writers, EndWrite(w) \/ FailWrite(w)
      PROVE  ComingGrows
  <2>1. /\ UnlockWrite(w) /\ wpc[w] = "write"
        /\ Mid(w) => damaged'
    <3>1. CASE EndWrite(w)
      BY <3>1 DEF EndWrite, Mid
    <3>2. CASE FailWrite(w)
      <4>1. damaged' = (damaged \/ Torn(w)) /\ UnlockWrite(w) /\ Writing(w)
        BY <3>2 DEF FailWrite
      <4>2. wpc[w] = "write"
        BY <4>1 DEF Writing
      <4>3. place[w] \in Nat /\ First(message[w]) \in Nat
        BY <4>2, WriterIs
      <4>4. Mid(w) => Torn(w)
        BY <4>3 DEF Mid, Torn
      <4>. QED BY <4>1, <4>2, <4>4
    <3>. QED BY <1>6, <3>1, <3>2
  <2>2. /\ wpc' = [wpc EXCEPT ![w] = "idle"] /\ Keeps /\ closed' = closed
        /\ message' = [message EXCEPT ![w] = None] /\ place' = [place EXCEPT ![w] = 0]
    BY <2>1 DEF UnlockWrite, Keeps
  <2>3. ~Mid(w)'
    BY <1>1, <2>2 DEF Mid, Writing
  <2>4. \A v \in Writers \ {w} : (Mid(v)' <=> Mid(v)) /\ NextPlace(v)' = NextPlace(v)
    BY <1>1, <2>2 DEF Mid, Writing, NextPlace
  <2>. QED BY <1>2, <2>1, <2>2, <2>3, <2>4
<1>7. ASSUME CloseStream
      PROVE  ComingGrows
  <2>1. /\ UNCHANGED <<wpc, message, place>> /\ Keeps /\ closed' = TRUE
        /\ damaged' = (damaged \/ \E w \in Writers : Torn(w))
    BY <1>7 DEF CloseStream, Keeps
  <2>2. \A w \in Writers : ~Mid(w)'
    BY <2>1 DEF Mid
  <2>3. ASSUME NEW w \in Writers, Mid(w)
        PROVE  Torn(w)
    <3>1. place[w] \in Nat /\ First(message[w]) \in Nat /\ Writing(w)
      BY <2>3, WriterIs DEF Mid, Writing
    <3>. QED BY <2>3, <3>1 DEF Torn, Mid
  <2>. QED BY <1>2, <2>1, <2>2, <2>3
<1>. QED BY <1>3, <1>4, <1>5, <1>6, <1>7 DEF WriterMove

-----------------------------------------------------------------------------
(* Messages of another content type. *)

\* What one more symbol makes of a line, and the line of a content type.
LEMMA FirstOfLine ==
    ASSUME NEW s
    PROVE  Extend(<<>>, s) = <<s>>
BY DEF Extend

LEMMA SuspectLine ==
    ASSUME TypeOK, NEW r \in Readers, NEW m \in Messages, Kind[m] = "badType",
           lineData[r] = << <<m, 4>> >>
    PROVE  ~parseHeaderValue(header[r], lineData[r]).utf8
<1>1. lineData[r] # <<>> /\ lineData[r][1] = <<m, 4>> /\ <<m, 4>>[1] = m
  OBVIOUS
<1>2. IsContentType(lineData[r])
  BY <1>1 DEF IsContentType, ContentType
<1>3. IsUtf8(lineData[r]) = FALSE
  BY <1>1 DEF IsUtf8
<1>4. parseHeaderValue(header[r], lineData[r]) = [header[r] EXCEPT !.utf8 = FALSE]
  BY <1>2, <1>3, HeaderTypes
<1>5. header[r] \in Header
  BY DEF TypeOK
<1>. QED BY <1>4, <1>5 DEF Header

LEMMA SuspectInvStep ==
    ASSUME TypeOK, WriterInv, PipeInv, ReaderInv, SuspectInv, Next
    PROVE  SuspectInv'
<1>1. \A r \in Readers :
         /\ \A s \in Coming : Kind[s[1]] = "badType" => SuspectAt(r, s)
         /\ BadBegin(content[r]) => ~header[r].utf8
  BY DEF SuspectInv
<1>2. ASSUME NEW s \in Symbols, IsFirst(s), Kind[s[1]] = "badType"
      PROVE  s[2] = 1
  <2>1. s[1] \in Messages
    BY SymbolIs
  <2>. QED BY <1>2, <2>1, Places DEF IsFirst
<1>3. CASE CloseStream \/ \E w \in Writers : WriterMove(w)
  <2>1. UNCHANGED <<rpc, header, lineData, content>>
    BY <1>3, WriterFrame
  <2>2. ASSUME NEW r \in Readers, NEW s \in Coming', Kind[s[1]] = "badType"
        PROVE  SuspectAt(r, s)'
    <3>1. s \in Coming \/ s[2] = 1
      BY <1>2, <1>3, <2>2, ComingWritten DEF ComingGrows
    <3>. QED BY <1>1, <2>1, <2>2, <3>1 DEF SuspectAt
  <2>3. SuspectInv'
    BY <1>1, <2>1, <2>2 DEF SuspectInv, BadBegin
  <2>. QED BY <2>3
<1>4. ASSUME NEW r \in Readers, ReaderMove(r)
      PROVE  SuspectInv'
  <2>1. /\ UNCHANGED <<closed, wpc, message, place>>
        /\ \A q \in Readers \ {r} :
             /\ rpc'[q] = rpc[q] /\ header'[q] = header[q]
             /\ lineData'[q] = lineData[q] /\ content'[q] = content[q]
        /\ pipe' = pipe \/ (pipe # <<>> /\ pipe' = Tail(pipe))
    BY <1>4, ReaderFrame
  <2>2. Keeps => Coming' = Coming
    BY <2>1, ComingKept
  <2>3. Pops => pipe[1] \in Coming
    BY DEF Pops, Coming
  <2>4. Pops => pipe[1] \in Symbols /\ pipe[1][2] \in Nat
    BY PipeTail, SymbolIs DEF Pops
  <2>5. ASSUME Pops, NEW s \in Coming', Kind[s[1]] = "badType"
        PROVE  /\ s[2] \in Nat
               /\ s[2] = 1 \/ (s[2] = pipe[1][2] + 1 /\ s[1] = pipe[1][1])
    <3>1. s \in Symbols /\ (s = Successor(pipe[1]) \/ IsFirst(s))
      BY <2>1, <2>5, ComingPopped
    <3>. QED BY <1>2, <2>5, <3>1, SymbolIs DEF Successor
  <2>6. Keeps => ~Pops
    BY PipeTail DEF Keeps, Pops
  <2>7. Keeps \/ Pops
    BY <2>1 DEF Keeps, Pops
  <2>8. AtEnd => Coming = {}
    BY ComingIs
  <2>9. \A s \in Coming : Kind[s[1]] = "badType" => SuspectAt(r, s)
    BY <1>1
  <2>. USE DEF Become
  <2>10. ASSUME NEW s \in Coming', Kind[s[1]] = "badType"
         PROVE  SuspectAt(r, s)'
    <3>1. CASE Calls(r) \/ Fails(r) \/ Unlocks(r) \/ Leaves(r)
      <4>1. rpc'[r] \notin Holding
        BY <3>1 DEF Calls, Fails, Unlocks, Leaves, Holding
      <4>. QED BY <4>1 DEF SuspectAt, Holding
    <3>2. CASE Locks(r)
      <4>1. rpc'[r] = "field" /\ NotTrusted(header'[r])
        BY <3>2 DEF Locks, NotTrusted, NoHeader
      <4>. QED BY <4>1 DEF SuspectAt
    <3>3. CASE Peeks(r)
      <4>1. rpc'[r] = "line" /\ lineData'[r] = <<>>
        BY <3>3 DEF Peeks, ReaderInv
      <4>2. s = pipe[1] /\ s[2] # 5
        BY <2>2, <3>3 DEF Peeks, Coming
      <4>. QED BY <4>1, <4>2 DEF SuspectAt
    <3>4. CASE EndsHeader(r)
      <4>1. rpc[r] = "field" /\ rpc'[r] = "endLF" /\ header'[r] = header[r] /\ Pops
        BY <3>4 DEF EndsHeader
      <4>2. ASSUME s[2] = 8
            PROVE  NotTrusted(header[r])
        <5>1. pipe[1][2] = 7 /\ Kind[pipe[1][1]] = "badType"
          BY <2>4, <2>5, <2>10, <4>1, <4>2
        <5>2. SuspectAt(r, pipe[1])
          BY <2>3, <2>9, <4>1, <5>1
        <5>. QED BY <4>1, <5>1, <5>2 DEF SuspectAt
      <4>. QED BY <4>1, <4>2 DEF SuspectAt, NotTrusted
    <3>5. CASE Extends(r)
      <4>1. CASE AtEnd /\ Keeps
        BY <2>2, <2>8, <4>1
      <4>2. CASE /\ Pops /\ pipe[1][2] \notin {2, 3, 5, 6, 7, 8}
                 /\ rpc[r] = "line" /\ rpc'[r] = "line"
                 /\ lineData'[r] = Extend(lineData[r], pipe[1])
        <5>1. s[2] # 4
          BY <2>4, <2>5, <2>10, <4>2
        <5>2. ASSUME s[2] = 5
              PROVE  lineData'[r] = << <<s[1], 4>> >>
          <6>1. pipe[1][2] = 4 /\ pipe[1][1] = s[1]
            BY <2>4, <2>5, <2>10, <4>2, <5>2
          <6>2. SuspectAt(r, pipe[1])
            BY <2>3, <2>9, <2>10, <4>2, <6>1
          <6>3. lineData[r] = <<>>
            BY <4>2, <6>1, <6>2 DEF SuspectAt
          <6>4. pipe[1] = <<s[1], 4>>
            BY <2>4, <4>2, <6>1, SymbolIs
          <6>. QED BY <4>2, <6>3, <6>4, FirstOfLine
        <5>. QED BY <4>2, <5>1, <5>2 DEF SuspectAt
      <4>. QED BY <3>5, <4>1, <4>2 DEF Extends
    <3>6. CASE EndsLine(r)
      <4>1. /\ rpc[r] = "line" /\ rpc'[r] = "lineLF" /\ Pops
            /\ header'[r] = parseHeaderValue(header[r], lineData[r])
        BY <3>6 DEF EndsLine
      <4>2. ASSUME s[2] = 6
            PROVE  ~header'[r].utf8
        <5>1. pipe[1][2] = 5 /\ pipe[1][1] = s[1]
          BY <2>4, <2>5, <2>10, <4>1, <4>2
        <5>2. SuspectAt(r, pipe[1])
          BY <2>3, <2>9, <2>10, <4>1, <5>1
        <5>3. lineData[r] = << <<s[1], 4>> >>
          BY <4>1, <5>1, <5>2 DEF SuspectAt
        <5>4. s[1] \in Messages
          BY <2>4, <4>1, <5>1, SymbolIs
        <5>. QED BY <2>10, <4>1, <5>3, <5>4, SuspectLine
      <4>. QED BY <4>1, <4>2 DEF SuspectAt
    <3>7. CASE EndsLF(r)
      <4>1. Pops /\ header'[r] = header[r] /\ content'[r] = content[r]
        BY <3>7 DEF EndsLF
      <4>2. CASE rpc[r] = "lineLF" /\ rpc'[r] = "field"
        <5>1. ASSUME s[2] = 7
              PROVE  ~header[r].utf8
          <6>1. pipe[1][2] = 6 /\ Kind[pipe[1][1]] = "badType"
            BY <2>4, <2>5, <2>10, <4>1, <5>1
          <6>2. SuspectAt(r, pipe[1])
            BY <2>3, <2>9, <4>1, <6>1
          <6>. QED BY <4>2, <6>1, <6>2 DEF SuspectAt
        <5>. QED BY <4>1, <4>2, <5>1 DEF SuspectAt, NotTrusted
      <4>3. CASE rpc[r] = "endLF" /\ rpc'[r] = "content"
        <5>1. ASSUME s[2] = 9
              PROVE  NotTrusted(header[r])
          <6>1. pipe[1][2] = 8 /\ Kind[pipe[1][1]] = "badType"
            BY <2>4, <2>5, <2>10, <4>1, <5>1
          <6>2. SuspectAt(r, pipe[1])
            BY <2>3, <2>9, <4>1, <6>1
          <6>. QED BY <4>3, <6>1, <6>2 DEF SuspectAt
        <5>. QED BY <4>1, <4>3, <5>1 DEF SuspectAt, NotTrusted
      <4>. QED BY <3>7, <4>2, <4>3 DEF EndsLF
    <3>8. CASE AddsContent(r)
      <4>1. rpc'[r] = "content" /\ content'[r] = Append(content[r], pipe[1]) /\ Pops
        BY <3>8 DEF AddsContent
      <4>2. content'[r] # <<>>
        <5>1. content[r] \in Seq(Symbols \union {NUL}) /\ pipe[1] \in Symbols \union {NUL}
          BY <2>4, <4>1, LocalTypes
        <5>. QED BY <4>1, <5>1, Pushed
      <4>. QED BY <4>1, <4>2 DEF SuspectAt
    <3>. QED BY <1>4, <3>1, <3>2, <3>3, <3>4, <3>5, <3>6, <3>7, <3>8, ReaderCases
  <2>11. BadBegin(content'[r]) => ~header'[r].utf8
    <3>. SUFFICES ASSUME BadBegin(content'[r])
                  PROVE  ~header'[r].utf8
      OBVIOUS
    <3>1. PICK m \in Messages :
             content'[r] # <<>> /\ Kind[m] = "badType" /\ content'[r][1] = <<m, 9>>
      BY DEF BadBegin
    <3>2. content[r] \in Seq(Symbols \union {NUL}) /\ Len(content[r]) \in Nat
      BY LocalTypes
    <3>3. CASE content'[r] = content[r] /\ header'[r] = header[r]
      BY <1>1, <3>3 DEF BadBegin
    <3>4. ASSUME NEW x \in Symbols \union {NUL}, content'[r] = Append(content[r], x),
                 content[r] # <<>>
          PROVE  BadBegin(content[r])
      <4>1. 1 \in 1 .. Len(content[r])
        BY <3>2, <3>4, NotEmpty
      <4>2. content'[r][1] = content[r][1]
        BY <3>2, <3>4, <4>1, Pushed
      <4>. QED BY <3>1, <3>4, <4>2 DEF BadBegin
    <3>5. CASE Fails(r) \/ Leaves(r)
      BY <3>1, <3>5 DEF Fails, Leaves
    <3>6. CASE Calls(r) \/ Peeks(r) \/ EndsHeader(r) \/ Extends(r) \/ EndsLF(r)
      BY <3>3, <3>6 DEF Calls, Peeks, EndsHeader, Extends, EndsLF
    <3>7. CASE Locks(r) \/ EndsLine(r)
      BY <3>1, <3>7 DEF Locks, EndsLine, ReaderInv
    <3>8. CASE AddsContent(r)
      <4>1. /\ rpc[r] = "content" /\ Incomplete(r) /\ Pops /\ header'[r] = header[r]
            /\ content'[r] = Append(content[r], pipe[1])
        BY <3>8 DEF AddsContent
      <4>2. CASE content[r] # <<>>
        BY <1>1, <2>4, <3>4, <4>1, <4>2
      <4>3. CASE content[r] = <<>>
        <5>1. pipe[1] = <<m, 9>>
          BY <3>1, <4>1, <4>3
        <5>2. pipe[1][1] = m /\ pipe[1][2] = 9
          BY <5>1
        <5>3. SuspectAt(r, pipe[1])
          BY <2>3, <2>9, <3>1, <4>1, <5>2
        <5>4. NotTrusted(header[r])
          BY <4>1, <4>3, <5>2, <5>3 DEF SuspectAt
        <5>5. header[r].contentLength # 0
          BY <4>1, <4>3 DEF Incomplete
        <5>. QED BY <4>1, <5>4, <5>5 DEF NotTrusted
      <4>. QED BY <4>2, <4>3
    <3>9. CASE Unlocks(r)
      <4>1. CASE content'[r] = Append(content[r], NUL) /\ header'[r] = header[r]
        <5>1. CASE content[r] # <<>>
          BY <1>1, <3>4, <4>1, <5>1
        <5>2. CASE content[r] = <<>>
          BY <3>1, <4>1, <5>2 DEF NUL
        <5>. QED BY <5>1, <5>2
      <4>. QED BY <3>3, <3>9, <4>1 DEF Unlocks
    <3>. QED BY <1>4, <3>5, <3>6, <3>7, <3>8, <3>9, ReaderCases
  <2>12. ASSUME NEW q \in Readers \ {r}
         PROVE  /\ \A s \in Coming' : Kind[s[1]] = "badType" => SuspectAt(q, s)'
                /\ BadBegin(content'[q]) => ~header'[q].utf8
    <3>1. BadBegin(content'[q]) => ~header'[q].utf8
      BY <1>1, <2>1
    <3>2. CASE rpc[q] \notin Holding
      BY <2>1, <3>1, <3>2 DEF SuspectAt, Holding
    <3>3. CASE rpc[q] \in Holding
      <4>1. rpc[r] \notin Holding
        BY <3>3 DEF ReaderInv
      <4>2. Keeps
        BY <1>4, <4>1, ReaderCases
        DEF Calls, Locks, Fails, Peeks, EndsHeader, Extends, EndsLine, EndsLF, AddsContent,
            Unlocks, Leaves, Holding
      <4>3. \A s \in Coming' : Kind[s[1]] = "badType" => SuspectAt(q, s)
        BY <1>1, <2>2, <4>2
      <4>. QED BY <2>1, <3>1, <4>3 DEF SuspectAt
    <3>. QED BY <3>1, <3>2, <3>3
  <2>. QED BY <2>10, <2>11, <2>12 DEF SuspectInv, BadBegin
<1>. QED BY <1>3, <1>4, NextIs

-----------------------------------------------------------------------------
(* The reader keeps up with the frames as long as the stream is not        *)
(* damaged.                                                                *)

\* What comes next belongs to a frame that has a Content-Length.
LEMMA ComingSound ==
    ASSUME TypeOK, WriterInv, PipeInv, ~damaged
    PROVE  \A s \in Coming :
              /\ s \in Symbols /\ s[1] \in Messages /\ s[2] \in Nat
              /\ s[2] >= 1 /\ s[2] <= Last(s[1]) /\ First(s[1]) = 1
              /\ Kind[s[1]] # "noLength"
<1>. SUFFICES ASSUME NEW s \in Coming
              PROVE  /\ s \in Symbols /\ s[1] \in Messages /\ s[2] \in Nat
                     /\ s[2] >= 1 /\ s[2] <= Last(s[1]) /\ First(s[1]) = 1
                     /\ Kind[s[1]] # "noLength"
  OBVIOUS
<1>1. s \in Symbols
  BY ComingIs
<1>2. s[1] \in Messages /\ s[2] \in First(s[1]) .. Last(s[1]) /\ s[2] \in Nat
  BY <1>1, SymbolIs
<1>3. s[1] \notin Malformed
  <2>1. CASE pipe # <<>>
    <3>1. s = pipe[1] /\ 1 \in 1 .. Len(pipe)
      BY <2>1, ComingIs, PipeTail
    <3>. QED BY <3>1 DEF PipeInv, Unbroken
  <2>2. CASE pipe = <<>>
    <3>1. PICK w \in Writers : Mid(w) /\ s = NextPlace(w)
      BY <2>2, ComingIs
    <3>2. s[1] = message[w] /\ place[w] > First(message[w]) /\ wpc[w] = "write"
      BY <3>1 DEF NextPlace, Mid, Writing
    <3>. QED BY <3>2 DEF WriterInv
  <2>. QED BY <2>1, <2>2
<1>4. First(s[1]) = 1 /\ Kind[s[1]] # "noLength" /\ Last(s[1]) \in Nat
  BY <1>2, <1>3, Places
<1>. QED BY <1>1, <1>2, <1>4

\* After a symbol that does not end a frame the next one of the frame is known.
LEMMA ComingNext ==
    ASSUME TypeOK, WriterInv, PipeInv, ~damaged, Pops,
           UNCHANGED <<closed, wpc, message, place>>
    PROVE  /\ \A s \in Coming' : s = Successor(pipe[1]) \/ s[2] = 1
           /\ \A s \in Coming' : s \in Symbols /\ s[2] \in Nat /\ s[2] <= Last(s[1])
           /\ ~IsLast(pipe[1]) => Successor(pipe[1]) \in Coming'
<1>1. /\ Len(pipe) \in Nat /\ Len(pipe) >= 1 /\ Len(pipe') = Len(pipe) - 1
      /\ \A i \in 1 .. Len(pipe) - 1 : pipe'[i] = pipe[i + 1]
      /\ pipe' = <<>> <=> Len(pipe) = 1
      /\ pipe' \in Seq(Symbols)
  BY PipeTail DEF Pops
<1>2. \A w \in Writers : (Mid(w)' <=> Mid(w)) /\ NextPlace(w)' = NextPlace(w)
  BY DEF Mid, Writing, NextPlace
<1>3. \A s \in Coming' : /\ s \in Symbols /\ s[1] \in Messages /\ s[2] \in Nat
                         /\ s[2] <= Last(s[1])
                         /\ s = Successor(pipe[1]) \/ IsFirst(s)
  <2>1. \A s \in Coming' : s \in Symbols /\ (s = Successor(pipe[1]) \/ IsFirst(s))
    BY ComingPopped
  <2>2. \A s \in Symbols : s[1] \in Messages /\ s[2] \in Nat /\ s[2] <= Last(s[1])
    <3>. TAKE s \in Symbols
    <3>. QED BY SymbolIs, Places
  <2>. QED BY <2>1, <2>2
<1>4. CASE pipe' # <<>>
  <2>1. Coming' = {pipe'[1]} /\ 1 \in 1 .. Len(pipe) - 1 /\ 1 + 1 \in 1 .. Len(pipe)
    BY <1>1, <1>4 DEF Coming
  <2>2. pipe'[1] = pipe[1 + 1]
    BY <1>1, <2>1
  <2>3. pipe'[1][1] \notin Malformed /\ pipe'[1] \in Symbols
    BY <1>3, <2>1, <2>2 DEF PipeInv, Unbroken
  <2>4. First(pipe'[1][1]) = 1
    BY <2>3, SymbolIs, Places
  <2>5. IsLast(pipe[1]) \/ pipe'[1] = Successor(pipe[1])
    BY <2>1, <2>2 DEF PipeInv, Unbroken
  <2>. QED BY <1>3, <2>1, <2>4, <2>5 DEF IsFirst
<1>5. CASE pipe' = <<>>
  <2>1. Coming' = {NextPlace(w) : w \in {v \in Writers : Mid(v)}}
    BY <1>2, <1>5 DEF Coming
  <2>2. \A w \in Writers : Mid(w) => NextPlace(w) = Successor(pipe[1])
    BY <1>1, <1>5 DEF PipeInv, Chained, Pops
  <2>3. IsLast(pipe[1]) \/ \E w \in Writers : Mid(w)
    BY <1>1, <1>5 DEF PipeInv, Unbroken, Pops
  <2>. QED BY <1>3, <2>1, <2>2, <2>3
<1>. QED BY <1>4, <1>5

\* A whole body, and the same seen from its symbols.
LEMMA BodyRead ==
    ASSUME NEW m \in Messages, NEW c \in Seq(Symbols \union {NUL}), Len(c) = Size[m],
           \A i \in 1 .. Len(c) : c[i] = <<m, 8 + i>>
    PROVE  c = Body(m)
<1>1. Body(m) \in Seq(Symbols \union {NUL}) /\ Len(Body(m)) = Size[m]
  BY BodyIs, SeqMonotonic
<1>2. \A i \in 1 .. Size[m] : Body(m)[i] = <<m, 8 + i>>
  BY BodyIs
<1>. QED BY <1>1, <1>2, SeqEqual

LEMMA InFrameHolds ==
    ASSUME NEW r, NEW s, InFrame(r, s)
    PROVE  rpc[r] \in Holding
BY DEF InFrame, Holding

\* One step of the reader that holds the mutex.
LEMMA AlignedReader ==
    ASSUME TypeOK, WriterInv, PipeInv, ReaderInv, ~damaged, Aligned,
           NEW r \in Readers, ReaderMove(r), rpc[r] \in Holding,
           NEW p, p = pipe[1], NEW next, next = Successor(p)
    PROVE  /\ \A s \in Coming' : s[2] > 1 => InFrame(r, s)'
           /\ (\A s \in Coming' : s[2] = 1) /\ rpc'[r] \in Holding => Between(r)'
           /\ rpc'[r] = "parse" => \E m \in Messages : HasRead(r, m)'
<1>. DEFINE Goal == /\ \A s \in Coming' : s[2] > 1 => InFrame(r, s)'
                    /\ (\A s \in Coming' : s[2] = 1) /\ rpc'[r] \in Holding => Between(r)'
                    /\ rpc'[r] = "parse" => \E m \in Messages : HasRead(r, m)'
<1>1. /\ UNCHANGED <<closed, wpc, message, place>>
      /\ Keeps => Coming' = Coming
  BY ReaderFrame, ComingKept
<1>2. \A q \in Readers : q # r => rpc[q] \notin Holding
  BY DEF ReaderInv
<1>3. \A s \in Coming : s[2] > 1 => InFrame(r, s)
  BY <1>2, InFrameHolds DEF Aligned
<1>4. (\A s \in Coming : s[2] = 1) => Between(r)
  BY DEF Aligned
<1>5. \A s \in Coming : /\ s \in Symbols /\ s[1] \in Messages /\ s[2] \in Nat
                        /\ s[2] >= 1 /\ s[2] <= Last(s[1]) /\ Kind[s[1]] # "noLength"
  BY ComingSound
<1>6. pipe # <<>> => Coming = {p} /\ p \in Symbols /\ p = <<p[1], p[2]>>
  BY ComingIs, PipeTail, SymbolIs
<1>7. AtEnd => Coming = {} /\ Between(r)
  BY <1>4, ComingIs
<1>8. pipe # <<>> => /\ p[2] = 1 => Between(r)
                     /\ p[2] # 1 => InFrame(r, p)
                     /\ p[1] \in Messages /\ p[2] \in Nat
  BY <1>3, <1>4, <1>5, <1>6
<1>9. Pops => /\ \A s \in Coming' : s = next \/ s[2] = 1
              /\ \A s \in Coming' : s \in Symbols /\ s[2] \in Nat /\ s[2] <= Last(s[1])
              /\ ~IsLast(p) => next \in Coming'
              /\ pipe # <<>>
  BY <1>1, ComingNext DEF Pops
<1>10. \A m \in Messages : Last(m) >= 9 /\ Last(m) \in Nat /\ Last(m) = 8 + Size[m] /\ Size[m] \in Nat
  BY Places
\* It is enough to look at the next symbol of the same frame.
<1>11. ASSUME Pops, p[2] < 9, rpc'[r] \in Holding, InFrame(r, next)'
       PROVE  Goal
  <2>1. ~IsLast(p) /\ next[2] # 1
    <3>1. p[1] \in Messages /\ p[2] \in Nat /\ next[2] = p[2] + 1
      BY <1>8, <1>9, <1>11 DEF Successor
    <3>2. p[2] # 0
      BY <1>5, <1>6, <1>9, <1>11
    <3>. QED BY <1>10, <1>11, <3>1, <3>2 DEF IsLast
  <2>2. ~(\A s \in Coming' : s[2] = 1)
    BY <1>9, <1>11, <2>1
  <2>3. \A s \in Coming' : s[2] > 1 => InFrame(r, s)'
    BY <1>9, <1>11
  <2>4. rpc'[r] # "parse"
    BY <1>11 DEF Holding
  <2>. QED BY <2>2, <2>3, <2>4
<1>12. lineData[r] = <<>> \/ rpc[r] = "line"
  BY DEF ReaderInv
<1>13. content[r] = <<>> \/ rpc[r] = "content"
  BY DEF ReaderInv, Holding
<1>14. \A m \in Messages : HasRead(r, m) => ~Incomplete(r)
  <2>. TAKE m \in Messages
  <2>. QED BY <1>10, BodyIs DEF HasRead, HeaderOf, Incomplete
<1>15. Between(r) => /\ rpc[r] \in {"field", "line", "content"}
                     /\ rpc[r] = "line" => pipe # <<>> /\ lineData[r] = <<>> /\ header[r] = NoHeader
                     /\ rpc[r] = "field" => header[r] = NoHeader
                     /\ rpc[r] = "content" => ~Incomplete(r) /\ \E m \in Messages : HasRead(r, m)
  BY <1>14 DEF Between
<1>. USE DEF Become
<1>16. CASE Fails(r)
  <2>1. rpc'[r] = "idle"
    BY <1>16 DEF Fails
  <2>2. CASE Keeps /\ Coming = {}
    BY <1>1, <2>1, <2>2 DEF Holding
  <2>3. CASE rpc[r] = "line" /\ Pops /\ p[2] \in {3, 6, 8}
    BY <1>8, <1>9, <2>3 DEF InFrame
  <2>4. CASE rpc[r] = "line" /\ Pops /\ p[2] \in {2, 5, 7} /\ InvalidLine(lineData[r])
    <3>1. \/ lineData[r] = << <<p[1], 1>> >>
          \/ lineData[r] = << <<p[1], 4>> >>
      BY <1>8, <1>9, <2>4 DEF InFrame
    <3>2. Len(lineData[r]) = 1
      BY <3>1
    <3>. QED BY <2>4, <3>2 DEF InvalidLine
  <2>5. CASE rpc[r] \in {"lineLF", "endLF"} /\ Pops /\ p[2] \notin {3, 6, 8}
    BY <1>8, <1>9, <1>15, <2>5 DEF InFrame
  <2>. QED BY <1>7, <1>16, <2>2, <2>3, <2>4, <2>5 DEF Fails
<1>17. CASE Peeks(r)
  <2>1. /\ rpc[r] = "field" /\ rpc'[r] = "line" /\ Keeps /\ pipe # <<>> /\ p[2] \notin {2, 5, 7}
        /\ header'[r] = header[r] /\ lineData'[r] = <<>> /\ pipe' # <<>>
    BY <1>12, <1>17 DEF Peeks, Keeps
  <2>2. Coming' = {p}
    BY <1>1, <1>6, <2>1
  <2>3. CASE p[2] = 1
    BY <1>8, <1>15, <2>1, <2>2, <2>3 DEF Between, Holding
  <2>4. CASE p[2] # 1
    <3>1. p[2] = 4 /\ header[r] = Begun(p[1])
      BY <1>8, <2>1, <2>4 DEF InFrame
    <3>2. InFrame(r, p)'
      BY <2>1, <3>1 DEF InFrame, Begun
    <3>. QED BY <2>1, <2>2, <2>4, <3>1, <3>2
  <2>. QED BY <2>3, <2>4
<1>18. CASE EndsHeader(r)
  <2>1. rpc[r] = "field" /\ rpc'[r] = "endLF" /\ Pops /\ header'[r] = header[r] /\ p[2] \in {2, 5, 7}
    BY <1>18 DEF EndsHeader
  <2>2. p[2] = 7 /\ header[r] = HeaderOf(p[1])
    BY <1>8, <1>9, <2>1 DEF InFrame
  <2>3. InFrame(r, next)'
    BY <1>8, <1>9, <2>1, <2>2 DEF InFrame, Successor, HeaderOf
  <2>. QED BY <1>11, <2>1, <2>2, <2>3 DEF Holding
<1>19. CASE Extends(r)
  <2>1. rpc[r] = "line" /\ ~AtEnd
    BY <1>7, <1>15, <1>19 DEF Extends, AtEnd
  <2>2. /\ Pops /\ p[2] \notin {2, 3, 5, 6, 7, 8} /\ rpc'[r] = "line" /\ header'[r] = header[r]
        /\ lineData'[r] = Extend(lineData[r], p)
    BY <1>19, <2>1 DEF Extends
  <2>3. p = <<p[1], p[2]>>
    BY <1>6, <1>9, <2>2
  <2>4. CASE p[2] = 1
    <3>1. lineData[r] = <<>> /\ header[r] = NoHeader
      BY <1>8, <1>9, <1>15, <2>1, <2>2, <2>4
    <3>2. lineData'[r] = << <<p[1], 1>> >>
      BY <2>2, <2>3, <2>4, <3>1, FirstOfLine
    <3>3. InFrame(r, next)'
      <4>1. next[1] = p[1] /\ next[2] = 2
        BY <2>4 DEF Successor
      <4>2. rpc'[r] = "line" /\ header'[r] = NoHeader
        BY <2>2, <3>1
      <4>. QED BY <3>2, <4>1, <4>2 DEF InFrame, NoHeader
    <3>. QED BY <1>11, <2>2, <2>4, <3>3 DEF Holding
  <2>5. CASE p[2] # 1
    <3>1. p[2] = 4 /\ lineData[r] = <<>> /\ header[r] = Begun(p[1])
      BY <1>8, <1>9, <2>1, <2>2, <2>5 DEF InFrame
    <3>2. lineData'[r] = << <<p[1], 4>> >>
      BY <2>2, <2>3, <3>1, FirstOfLine
    <3>3. InFrame(r, next)'
      <4>1. next[1] = p[1] /\ next[2] = 5
        BY <3>1 DEF Successor
      <4>2. rpc'[r] = "line" /\ header'[r] = Begun(p[1])
        BY <2>2, <3>1
      <4>. QED BY <3>2, <4>1, <4>2 DEF InFrame, Begun
    <3>. QED BY <1>11, <2>2, <3>1, <3>3 DEF Holding
  <2>. QED BY <2>4, <2>5
<1>20. CASE EndsLine(r)
  <2>1. /\ rpc[r] = "line" /\ rpc'[r] = "lineLF" /\ Pops /\ p[2] \in {2, 5, 7}
        /\ header'[r] = parseHeaderValue(header[r], lineData[r])
    BY <1>20 DEF EndsLine
  <2>2. p[1] \in Messages
    BY <1>8, <1>9, <2>1
  <2>3. CASE p[2] = 2
    <3>1. lineData[r] = << <<p[1], 1>> >> /\ header[r] = NoHeader
      BY <1>8, <1>9, <2>1, <2>3 DEF InFrame
    <3>2. lineData[r] # <<>> /\ lineData[r][1] = <<p[1], 1>> /\ lineData[r][1][1] = p[1]
      BY <3>1
    <3>3. IsContentLength(lineData[r])
      BY <2>2, <3>2 DEF IsContentLength, ContentLength
    <3>4. header'[r] = Begun(p[1])
      <4>1. header'[r] = [NoHeader EXCEPT !.contentLength = Size[p[1]]]
        BY <2>1, <3>1, <3>2, <3>3, HeaderTypes
      <4>. QED BY <4>1 DEF NoHeader, Begun
    <3>5. InFrame(r, next)'
      BY <2>1, <2>3, <3>4 DEF InFrame, Successor, Begun
    <3>. QED BY <1>11, <2>1, <2>3, <3>5 DEF Holding
  <2>4. CASE p[2] # 2
    <3>1. p[2] = 5 /\ lineData[r] = << <<p[1], 4>> >> /\ header[r] = Begun(p[1])
      BY <1>8, <1>9, <2>1, <2>4 DEF InFrame
    <3>2. /\ lineData[r] # <<>> /\ lineData[r][1] = <<p[1], 4>> /\ lineData[r][1][1] = p[1]
          /\ Len(lineData[r]) = 1
      BY <3>1
    <3>3. IsContentType(lineData[r])
      BY <2>2, <3>2 DEF IsContentType, ContentType
    <3>4. IsUtf8(lineData[r]) = (Kind[p[1]] # "badType")
      BY <3>2 DEF IsUtf8
    <3>5. header'[r] = HeaderOf(p[1])
      <4>1. header'[r] = [Begun(p[1]) EXCEPT !.utf8 = (Kind[p[1]] # "badType")]
        BY <2>1, <3>1, <3>3, <3>4, HeaderTypes, ZenonT(40)
      <4>. QED BY <4>1 DEF HeaderOf, Begun
    <3>6. InFrame(r, next)'
      BY <2>1, <3>1, <3>5 DEF InFrame, Successor, HeaderOf
    <3>. QED BY <1>11, <2>1, <3>1, <3>6 DEF Holding
  <2>. QED BY <2>3, <2>4
<1>21. CASE EndsLF(r)
  <2>1. Pops /\ p[2] \in {3, 6, 8} /\ header'[r] = header[r] /\ lineData'[r] = lineData[r]
    BY <1>21 DEF EndsLF
  <2>2. CASE rpc[r] = "lineLF" /\ rpc'[r] = "field"
    <3>1. \/ p[2] = 3 /\ header[r] = Begun(p[1])
          \/ p[2] = 6 /\ header[r] = HeaderOf(p[1])
      BY <1>8, <1>9, <2>1, <2>2 DEF InFrame
    <3>2. lineData'[r] = <<>>
      BY <1>12, <2>1, <2>2
    <3>3. InFrame(r, next)'
      BY <2>1, <2>2, <3>1, <3>2 DEF InFrame, Successor, Begun, HeaderOf
    <3>. QED BY <1>11, <2>1, <2>2, <3>3 DEF Holding
  <2>3. CASE rpc[r] = "endLF" /\ rpc'[r] = "content" /\ content'[r] = content[r]
    <3>1. p[2] = 8 /\ header[r] = HeaderOf(p[1]) /\ p[1] \in Messages
      BY <1>8, <1>9, <2>1, <2>3 DEF InFrame
    <3>2. Len(content'[r]) = 0
      BY <1>13, <2>3
    <3>3. next[2] = 9 /\ next[1] = p[1] /\ 9 \in 9 .. Last(p[1])
      BY <1>10, <3>1 DEF Successor
    <3>4. InFrame(r, next)'
      BY <2>1, <2>3, <3>1, <3>2, <3>3 DEF InFrame, HeaderOf, Last, BodyStart
    <3>. QED BY <1>11, <2>1, <2>3, <3>1, <3>4 DEF Holding
  <2>. QED BY <1>21, <2>2, <2>3 DEF EndsLF
<1>22. CASE AddsContent(r)
  <2>. DEFINE m == p[1]
  <2>1. /\ rpc[r] = "content" /\ rpc'[r] = "content" /\ Incomplete(r) /\ Pops
        /\ header'[r] = header[r] /\ content'[r] = Append(content[r], p)
    BY <1>22 DEF AddsContent
  <2>2. /\ p[2] \in 9 .. Last(m) /\ header[r] = HeaderOf(m) /\ Len(content[r]) = p[2] - 9
        /\ \A i \in 1 .. Len(content[r]) : content[r][i] = <<m, 8 + i>>
    BY <1>8, <1>9, <1>15, <2>1 DEF InFrame
  <2>3. /\ m \in Messages /\ p \in Symbols /\ p = <<m, p[2]>> /\ p[2] \in Nat
        /\ Kind[m] # "noLength"
    BY <1>5, <1>6, <1>8, <1>9, <2>1
  <2>4. /\ content'[r] \in Seq(Symbols \union {NUL}) /\ Len(content'[r]) = Len(content[r]) + 1
        /\ \A i \in 1 .. Len(content[r]) : content'[r][i] = content[r][i]
        /\ content'[r][Len(content[r]) + 1] = p
    <3>1. content[r] \in Seq(Symbols \union {NUL}) /\ p \in Symbols \union {NUL}
      BY <2>3, LocalTypes
    <3>. QED BY <2>1, <3>1, Pushed
  <2>5. Len(content'[r]) = p[2] - 8
    BY <2>2, <2>3, <2>4
  <2>6. \A i \in 1 .. Len(content'[r]) : content'[r][i] = <<m, 8 + i>>
    <3>. TAKE i \in 1 .. Len(content'[r])
    <3>1. CASE i \in 1 .. Len(content[r])
      BY <2>2, <2>4, <3>1
    <3>2. CASE i = Len(content[r]) + 1
      <4>1. 8 + i = p[2]
        BY <2>2, <2>3, <3>2
      <4>. QED BY <2>3, <2>4, <3>2, <4>1
    <3>3. i \in Nat /\ Len(content[r]) \in Nat /\ i >= 1 /\ i <= Len(content[r]) + 1
      BY <2>2, <2>3, <2>4
    <3>. QED BY <3>1, <3>2, <3>3
  <2>7. ASSUME NEW s \in Coming', s[2] > 1
        PROVE  InFrame(r, s)'
    <3>1. s[1] = m /\ s[2] = p[2] + 1 /\ s[2] <= Last(m)
      BY <1>9, <2>1, <2>7 DEF Successor
    <3>2. s[2] \in 9 .. Last(s[1]) /\ Len(content'[r]) = s[2] - 9
      BY <1>10, <2>2, <2>3, <2>5, <3>1
    <3>. QED BY <2>1, <2>2, <2>6, <3>1, <3>2 DEF InFrame, HeaderOf, Last, BodyStart
  <2>8. ASSUME \A s \in Coming' : s[2] = 1
        PROVE  Between(r)'
    <3>1. IsLast(p)
      <4>1. next[2] # 1
        BY <2>2, <2>3 DEF Successor
      <4>. QED BY <1>9, <2>1, <2>8, <4>1
    <3>2. Len(content'[r]) = Size[m]
      BY <1>10, <2>3, <2>5, <3>1 DEF IsLast
    <3>3. content'[r] = Body(m)
      BY <2>3, <2>4, <2>6, <3>2, BodyRead
    <3>4. HasRead(r, m)'
      BY <2>1, <2>2, <2>3, <3>3 DEF HasRead, HeaderOf, Body
    <3>. QED BY <2>1, <2>3, <3>4 DEF Between
  <2>. QED BY <2>1, <2>7, <2>8
<1>23. CASE Unlocks(r)
  <2>1. rpc[r] = "content" /\ rpc'[r] = "parse" /\ Keeps /\ header'[r] = header[r]
    BY <1>23 DEF Unlocks
  <2>2. ~Incomplete(r) /\ content'[r] = content[r]
    BY <1>7, <1>15, <1>23, <2>1 DEF Unlocks
  <2>3. \A s \in Coming : s[2] = 1
    <3>. SUFFICES ASSUME NEW s \in Coming, s[2] # 1
                  PROVE  FALSE
      OBVIOUS
    <3>1. InFrame(r, s) /\ s[1] \in Messages /\ s[2] \in Nat /\ s[2] <= Last(s[1])
      BY <1>3, <1>5
    <3>2. /\ header[r] = HeaderOf(s[1]) /\ Len(content[r]) = s[2] - 9
      BY <2>1, <3>1 DEF InFrame
    <3>. QED BY <1>10, <2>2, <3>1, <3>2 DEF Incomplete, HeaderOf
  <2>4. PICK m \in Messages : HasRead(r, m)
    BY <1>4, <1>15, <2>1, <2>3
  <2>5. HasRead(r, m)'
    BY <2>1, <2>2, <2>4 DEF HasRead, HeaderOf, Body
  <2>. QED BY <1>1, <2>1, <2>3, <2>5 DEF Holding
<1>. QED
  BY <1>16, <1>17, <1>18, <1>19, <1>20, <1>21, <1>22, <1>23, ReaderCases
  DEF Calls, Locks, Leaves, Holding

LEMMA DamageStays ==
    ASSUME TypeOK, damaged, Next
    PROVE  damaged'
<1>. USE DEF streamVars, writeVars, readVars, resultVars
<1>1. CASE CloseStream
  BY <1>1 DEF CloseStream
<1>2. ASSUME NEW w \in Writers, WriterMove(w)
      PROVE  damaged'
  <2>1. CASE \E m \in Messages : CallWrite(w, m)
    BY <2>1 DEF CallWrite
  <2>2. CASE LockWrite(w)
    BY <2>2 DEF LockWrite
  <2>3. CASE WriteSymbol(w)
    BY <2>3 DEF WriteSymbol
  <2>4. CASE EndWrite(w)
    BY <2>4 DEF EndWrite
  <2>5. CASE FailWrite(w)
    BY <2>5 DEF FailWrite
  <2>. QED BY <1>2, <2>1, <2>2, <2>3, <2>4, <2>5 DEF WriterMove
<1>3. ASSUME NEW r \in Readers, ReaderMove(r)
      PROVE  damaged'
  BY <1>3, ReaderFrame
<1>. QED BY <1>1, <1>2, <1>3, NextIs

\* What comes next has no other place before the start of its frame.
LEMMA AlignedStep ==
    ASSUME TypeOK, WriterInv, PipeInv, ReaderInv, ~damaged => Aligned, Next, ~damaged',
           WriterInv', PipeInv', TypeOK'
    PROVE  Aligned'
<1>1. ~damaged /\ Aligned
  BY DamageStays
<1>2. \A s \in Coming : /\ s \in Symbols /\ s[1] \in Messages /\ s[2] \in Nat
                        /\ s[2] >= 1 /\ First(s[1]) = 1
  BY <1>1, ComingSound
<1>3. /\ \A s \in Coming : s[2] > 1 => \E r \in Readers : InFrame(r, s)
      /\ (\A s \in Coming : s[2] = 1) => \A r \in Readers : rpc[r] \in Holding => Between(r)
      /\ \A r \in Readers : rpc[r] = "parse" => \E m \in Messages : HasRead(r, m)
  BY <1>1 DEF Aligned
<1>4. CASE CloseStream \/ \E w \in Writers : WriterMove(w)
  <2>1. UNCHANGED <<rpc, header, lineData, content>>
    BY <1>4, WriterFrame
  <2>2. ComingGrows
    BY <1>4, ComingWritten
  <2>3. ASSUME NEW s \in Coming', s \notin Coming
        PROVE  s[2] = 1
    <3>1. s \in Symbols /\ IsFirst(s)
      BY <2>2, <2>3 DEF ComingGrows
    <3>2. s[1] \in Messages
      BY <3>1, SymbolIs
    <3>3. s[1] \notin Malformed
      <4>1. CASE pipe' # <<>>
        <5>1. pipe' \in Seq(Symbols) /\ Coming' = {pipe'[1]}
          BY <4>1 DEF TypeOK, Coming
        <5>2. 1 \in 1 .. Len(pipe')
          BY <4>1, <5>1, NotEmpty
        <5>. QED BY <2>3, <5>1, <5>2 DEF PipeInv, Unbroken
      <4>2. CASE pipe' = <<>>
        <5>1. PICK w \in Writers : Mid(w)' /\ s = NextPlace(w)'
          BY <2>3, <4>2 DEF Coming
        <5>2. /\ s[1] = message'[w] /\ place'[w] > First(message'[w]) /\ wpc'[w] = "write"
          BY <5>1 DEF NextPlace, Mid, Writing
        <5>. QED BY <5>2 DEF WriterInv
      <4>. QED BY <4>1, <4>2
    <3>. QED BY <3>1, <3>2, <3>3, Places DEF IsFirst
  <2>4. \A s \in Coming' : s[2] > 1 => \E r \in Readers : InFrame(r, s)'
    <3>. SUFFICES ASSUME NEW s \in Coming', s[2] > 1
                  PROVE  \E r \in Readers : InFrame(r, s)'
      OBVIOUS
    <3>1. s \in Coming
      BY <2>3
    <3>2. PICK r \in Readers : InFrame(r, s)
      BY <1>3, <3>1
    <3>3. InFrame(r, s)'
      BY <2>1, <3>2 DEF InFrame, Begun, HeaderOf, Last, BodyStart
    <3>. QED BY <3>3
  <2>5. (\A s \in Coming' : s[2] = 1) => \A r \in Readers : rpc'[r] \in Holding => Between(r)'
    <3>. SUFFICES ASSUME \A s \in Coming' : s[2] = 1, NEW r \in Readers, rpc'[r] \in Holding
                  PROVE  Between(r)'
      OBVIOUS
    <3>1. Between(r)
      BY <1>3, <2>1, <2>2 DEF ComingGrows
    <3>2. pipe # <<>> => pipe' # <<>>
      BY <2>2 DEF ComingGrows
    <3>. QED BY <2>1, <3>1, <3>2 DEF Between, HasRead, HeaderOf, Body
  <2>6. \A r \in Readers : rpc'[r] = "parse" => \E m \in Messages : HasRead(r, m)'
    BY <1>3, <2>1 DEF HasRead, HeaderOf, Body
  <2>. QED BY <2>4, <2>5, <2>6 DEF Aligned
<1>5. ASSUME NEW r \in Readers, ReaderMove(r)
      PROVE  Aligned'
  <2>1. /\ UNCHANGED <<closed, wpc, message, place>>
        /\ \A q \in Readers \ {r} :
             /\ rpc'[q] = rpc[q] /\ header'[q] = header[q]
             /\ lineData'[q] = lineData[q] /\ content'[q] = content[q]
    BY <1>5, ReaderFrame
  <2>2. \A q \in Readers \ {r} : rpc'[q] = "parse" => \E m \in Messages : HasRead(q, m)'
    <3>1. \A q \in Readers \ {r} : \A m \in Messages : HasRead(q, m) => HasRead(q, m)'
      BY <2>1 DEF HasRead, HeaderOf, Body
    <3>2. \A q \in Readers \ {r} : rpc[q] = "parse" => \E m \in Messages : HasRead(q, m)
      BY <1>3
    <3>. QED BY <2>1, <3>1, <3>2
  <2>3. CASE rpc[r] \in Holding
    <3>1. /\ \A s \in Coming' : s[2] > 1 => InFrame(r, s)'
          /\ (\A s \in Coming' : s[2] = 1) /\ rpc'[r] \in Holding => Between(r)'
          /\ rpc'[r] = "parse" => \E m \in Messages : HasRead(r, m)'
      BY <1>1, <1>5, <2>3, AlignedReader
    <3>2. \A q \in Readers \ {r} : rpc'[q] \notin Holding
      BY <2>1, <2>3 DEF ReaderInv
    <3>. QED BY <2>2, <3>1, <3>2 DEF Aligned
  <2>4. CASE rpc[r] \notin Holding
    <3>1. \/ Calls(r) /\ rpc'[r] = "lock"
          \/ Locks(r) /\ rpc'[r] = "field" /\ header'[r] = NoHeader
          \/ Leaves(r) /\ rpc'[r] = "idle"
      BY <1>5, <2>4, ReaderCases
      DEF Calls, Locks, Fails, Peeks, EndsHeader, Extends, EndsLine, EndsLF, AddsContent,
          Unlocks, Leaves, Holding, Become
    <3>2. Coming' = Coming /\ pipe' = pipe
      BY <2>1, <3>1, ComingKept DEF Calls, Locks, Leaves, Keeps
    <3>3. \A s : \A q \in Readers : InFrame(q, s) => InFrame(q, s)'
      <4>1. \A s : ~InFrame(r, s)
        BY <2>4, InFrameHolds
      <4>2. \A s : \A q \in Readers \ {r} : InFrame(q, s) => InFrame(q, s)'
        BY <2>1 DEF InFrame, Begun, HeaderOf, Last, BodyStart
      <4>. QED BY <4>1, <4>2
    <3>4. \A s \in Coming' : s[2] > 1 => \E q \in Readers : InFrame(q, s)'
      BY <1>3, <3>2, <3>3
    <3>5. (\A s \in Coming' : s[2] = 1)
             => \A q \in Readers \ {r} : rpc'[q] \in Holding => Between(q)'
      BY <1>3, <2>1, <3>2 DEF Between, HasRead, HeaderOf, Body
    <3>6. rpc'[r] \in Holding => Between(r)'
      BY <3>1 DEF Between, Holding, NoHeader
    <3>7. rpc'[r] # "parse"
      BY <3>1
    <3>. QED BY <2>2, <3>4, <3>5, <3>6, <3>7 DEF Aligned
  <2>. QED BY <2>3, <2>4
<1>. QED BY <1>4, <1>5, NextIs

-----------------------------------------------------------------------------
(* The order of the messages.                                              *)

LEMMA LastByteIs ==
    ASSUME NEW m \in Messages, NEW n \in Messages
    PROVE  /\ LastByte(m) = LastByte(n) => m = n
           /\ \A k \in Nat : <<m, k>> = LastByte(n) <=> m = n /\ k = Last(n)
BY DEF LastByte

LEMMA WrittenIs ==
    ASSUME TypeOK
    PROVE  /\ Len(written) \in Nat /\ DOMAIN written = 1 .. Len(written)
           /\ \A a \in 1 .. Len(written) : written[a] \in Messages
           /\ \A m : m \in RangeOf(written) <=> \E a \in 1 .. Len(written) : written[a] = m
           /\ RangeOf(written) \subseteq Messages
<1>1. written \in Seq(Messages)
  BY DEF TypeOK
<1>. QED BY <1>1, NotEmpty

LEMMA PipeIs ==
    ASSUME TypeOK
    PROVE  /\ Len(pipe) \in Nat
           /\ \A s : s \in RangeOf(pipe) <=> \E i \in 1 .. Len(pipe) : pipe[i] = s
<1>1. pipe \in Seq(Symbols)
  BY DEF TypeOK
<1>. QED BY <1>1, NotEmpty

\* When a symbol is taken off the stream it is none of the last bytes, or the one of
\* the oldest message there.
LEMMA PopLast ==
    ASSUME TypeOK, FifoInv, NEW g \in Nat, NEW h \in Nat, Split(g, h), Pops,
           pipe' \in Seq(Symbols)
    PROVE  \E k \in {h, h + 1} :
              /\ k <= Len(written)
              /\ \A a \in 1 .. Len(written) :
                    /\ LastByte(written[a]) \in RangeOf(pipe') <=> a > k
                    /\ pipe[1] = LastByte(written[a]) <=> k = h + 1 /\ a = h + 1
<1>1. /\ Len(pipe) \in Nat /\ Len(pipe) >= 1 /\ Len(pipe') = Len(pipe) - 1
      /\ \A i \in 1 .. Len(pipe) - 1 : pipe'[i] = pipe[i + 1]
  BY PipeTail DEF Pops
<1>2. /\ \A s : s \in RangeOf(pipe) <=> \E i \in 1 .. Len(pipe) : pipe[i] = s
      /\ \A s : s \in RangeOf(pipe') <=> \E i \in 1 .. Len(pipe') : pipe'[i] = s
  BY PipeIs, NotEmpty
<1>3. \A s : s \in RangeOf(pipe') <=> \E i \in 2 .. Len(pipe) : pipe[i] = s
  <2>1. ASSUME NEW i \in 1 .. Len(pipe')
        PROVE  i + 1 \in 2 .. Len(pipe) /\ pipe'[i] = pipe[i + 1]
    BY <1>1
  <2>2. ASSUME NEW i \in 2 .. Len(pipe)
        PROVE  i - 1 \in 1 .. Len(pipe') /\ pipe'[i - 1] = pipe[i]
    <3>1. i - 1 \in 1 .. Len(pipe) - 1 /\ (i - 1) + 1 = i
      BY <1>1
    <3>. QED BY <1>1, <3>1
  <2>3. ASSUME NEW s, s \in RangeOf(pipe')
        PROVE  \E i \in 2 .. Len(pipe) : pipe[i] = s
    <3>1. PICK i \in 1 .. Len(pipe') : pipe'[i] = s
      BY <1>2, <2>3
    <3>. QED BY <2>1, <3>1
  <2>4. ASSUME NEW s, NEW i \in 2 .. Len(pipe), pipe[i] = s
        PROVE  s \in RangeOf(pipe')
    BY <1>2, <2>2, <2>4
  <2>. QED BY <2>3, <2>4
<1>4. Len(written) \in Nat /\ \A a \in 1 .. Len(written) : written[a] \in Messages
  BY WrittenIs
<1>5. /\ g <= h /\ h <= Len(written)
      /\ \A a \in 1 .. Len(written) : LastByte(written[a]) \in RangeOf(pipe) <=> a > h
  BY DEF Split
<1>6. \A i, j \in 1 .. Len(pipe) : \A a, b \in 1 .. Len(written) :
          i < j /\ pipe[i] = LastByte(written[a]) /\ pipe[j] = LastByte(written[b]) => a < b
  BY DEF FifoInv
<1>7. CASE \E a \in 1 .. Len(written) : pipe[1] = LastByte(written[a])
  <2>1. PICK a \in 1 .. Len(written) : pipe[1] = LastByte(written[a])
    BY <1>7
  <2>2. a > h /\ h + 1 \in 1 .. Len(written)
    BY <1>1, <1>2, <1>4, <1>5, <2>1
  <2>3. a = h + 1
    <3>1. PICK i \in 1 .. Len(pipe) : pipe[i] = LastByte(written[h + 1])
      BY <1>2, <1>5, <2>2
    <3>2. CASE i = 1
      <4>1. LastByte(written[h + 1]) = LastByte(written[a])
        BY <2>1, <3>1, <3>2
      <4>2. written[h + 1] = written[a]
        BY <1>4, <2>2, <4>1, LastByteIs
      <4>. QED BY <2>2, <4>2 DEF FifoInv
    <3>3. CASE i # 1
      <4>1. 1 < i /\ 1 \in 1 .. Len(pipe)
        BY <1>1, <3>3
      <4>2. a < h + 1
        BY <1>6, <2>1, <2>2, <3>1, <4>1
      <4>. QED BY <2>2, <4>2
    <3>. QED BY <3>2, <3>3
  <2>4. ASSUME NEW b \in 1 .. Len(written)
        PROVE  /\ LastByte(written[b]) \in RangeOf(pipe') <=> b > h + 1
               /\ pipe[1] = LastByte(written[b]) <=> b = h + 1
    <3>1. pipe[1] = LastByte(written[b]) => b = a
      <4>1. pipe[1] = LastByte(written[b]) => written[b] = written[a]
        BY <1>4, <2>1, LastByteIs
      <4>. QED BY <4>1 DEF FifoInv
    <3>2. pipe[1] = LastByte(written[b]) <=> b = h + 1
      BY <2>1, <2>3, <3>1
    <3>3. ASSUME LastByte(written[b]) \in RangeOf(pipe')
          PROVE  b > h + 1
      <4>1. PICK i \in 2 .. Len(pipe) : pipe[i] = LastByte(written[b])
        BY <1>3, <3>3
      <4>2. 1 < i /\ 1 \in 1 .. Len(pipe) /\ i \in 1 .. Len(pipe)
        BY <1>1
      <4>3. a < b
        BY <1>6, <2>1, <4>1, <4>2
      <4>. QED BY <2>3, <4>3
    <3>4. ASSUME b > h + 1
          PROVE  LastByte(written[b]) \in RangeOf(pipe')
      <4>1. b > h /\ b # h + 1
        BY <3>4
      <4>2. PICK i \in 1 .. Len(pipe) : pipe[i] = LastByte(written[b])
        BY <1>2, <1>5, <4>1
      <4>3. i # 1
        BY <3>2, <4>1, <4>2
      <4>4. i \in 2 .. Len(pipe)
        BY <1>1, <4>3
      <4>. QED BY <1>3, <4>2, <4>4
    <3>. QED BY <3>2, <3>3, <3>4
  <2>5. h + 1 <= Len(written)
    BY <1>4, <2>2
  <2>. QED BY <2>4, <2>5
<1>8. CASE \A a \in 1 .. Len(written) : pipe[1] # LastByte(written[a])
  <2>1. ASSUME NEW b \in 1 .. Len(written)
        PROVE  LastByte(written[b]) \in RangeOf(pipe') <=> b > h
    <3>1. ASSUME NEW i \in 1 .. Len(pipe), pipe[i] = LastByte(written[b])
          PROVE  i \in 2 .. Len(pipe)
      <4>1. i # 1
        BY <1>8, <3>1
      <4>. QED BY <1>1, <4>1
    <3>2. \A i \in 2 .. Len(pipe) : i \in 1 .. Len(pipe)
      BY <1>1
    <3>. QED BY <1>2, <1>3, <1>5, <3>1, <3>2
  <2>2. h # h + 1
    OBVIOUS
  <2>. QED BY <1>5, <1>8, <2>1, <2>2
<1>. QED BY <1>7, <1>8

\* Only the content of the reader with the mutex is on the way.
LEMMA InContentIs ==
    ASSUME ReaderInv, NEW r \in Readers, rpc[r] \in Holding
    PROVE  \A s : InContent(s) <=> rpc[r] = "content" /\ s \in RangeOf(content[r])
<1>1. \A q \in Readers : rpc[q] \in Holding => q = r
  BY DEF ReaderInv
<1>2. \A q \in Reading : q = r /\ rpc[r] = "content"
  BY <1>1 DEF Reading, Holding
<1>3. rpc[r] = "content" => r \in Reading
  BY DEF Reading
<1>. QED BY <1>2, <1>3 DEF InContent

LEMMA OnTheWayIs ==
    \A s : s \in OnTheWay <=> s \in RangeOf(pipe) \/ InContent(s)
BY DEF OnTheWay, InContent

\* A step of a reader, with the last bytes that it leaves in the content and the stream.
LEMMA FifoRead ==
    ASSUME TypeOK, WriterInv, PipeInv, ReaderInv, ~damaged => Aligned, FifoInv,
           NEW r \in Readers, ReaderMove(r), NEW g \in Nat, NEW h \in Nat, Split(g, h)
    PROVE  /\ \E i, k \in Nat :
                 /\ Split(i, k)'
                 /\ g <= i
                 /\ Unlocks(r) => i = h
                 /\ ~Unlocks(r) /\ ~damaged => i = g
           /\ \A s : InContent(s)' => InContent(s) \/ s \in RangeOf(pipe)
<1>1. /\ UNCHANGED <<written, damaged>>
      /\ \A q \in Readers \ {r} : rpc'[q] = rpc[q] /\ content'[q] = content[q]
  BY ReaderFrame
<1>2. pipe' \in Seq(Symbols)
  BY ReaderTypes
<1>3. /\ g <= h /\ h <= Len(written) /\ Len(written) \in Nat
      /\ \A a \in 1 .. Len(written) :
            /\ LastByte(written[a]) \in RangeOf(pipe) <=> a > h
            /\ InContent(LastByte(written[a])) <=> g < a /\ a <= h
  BY WrittenIs DEF Split
<1>4. ReaderInv => \A q \in Readers : rpc[q] \in Holding /\ rpc[r] \in Holding => q = r
  BY DEF ReaderInv
<1>. USE DEF Become
<1>5. CASE rpc[r] \notin Holding
  <2>1. pipe' = pipe /\ rpc[r] # "content" /\ rpc'[r] # "content" /\ ~Unlocks(r)
    BY <1>5, ReaderCases
    DEF Calls, Locks, Fails, Peeks, EndsHeader, Extends, EndsLine, EndsLF, AddsContent,
        Unlocks, Leaves, Holding, Keeps
  <2>2. \A q \in Readers : rpc'[q] = "content" <=> rpc[q] = "content"
    BY <1>1, <2>1
  <2>3. \A s : InContent(s)' <=> InContent(s)
    BY <1>1, <2>1, <2>2 DEF InContent, Reading, RangeOf
  <2>4. Split(g, h)'
    BY <1>1, <1>3, <2>1, <2>3 DEF Split, LastByte, Last, BodyStart, RangeOf
  <2>. QED BY <2>1, <2>3, <2>4
<1>6. CASE rpc[r] = "content" /\ Keeps
  <2>1. \A q \in Readers : q # r => rpc'[q] # "content"
    BY <1>1, <1>4, <1>6 DEF Holding
  <2>2. rpc'[r] \in {"idle", "parse"} /\ (Fails(r) \/ Unlocks(r))
    <3>1. ~Pops
      BY <1>6, PipeTail DEF Keeps, Pops
    <3>. QED BY <1>6, <3>1, ReaderCases
         DEF Calls, Locks, Fails, Peeks, EndsHeader, Extends, EndsLine, EndsLF, AddsContent,
             Unlocks, Leaves
  <2>3. \A s : ~InContent(s)'
    BY <2>1, <2>2 DEF InContent, Reading
  <2>4. pipe' = pipe
    BY <1>6 DEF Keeps
  <2>5. \A a \in 1 .. Len(written) : ~(h < a /\ a <= h)
    BY <1>3
  <2>6. Split(h, h)'
    BY <1>1, <1>3, <2>3, <2>4, <2>5 DEF Split, LastByte, Last, BodyStart, RangeOf
  <2>7. ~Unlocks(r) => damaged
    <3>1. SUFFICES ASSUME Fails(r), ~damaged
                   PROVE  FALSE
      BY <2>2
    <3>2. Incomplete(r) /\ AtEnd
      BY <1>6, <3>1 DEF Fails
    <3>3. Between(r)
      BY <1>6, <3>1, <3>2, ComingIs DEF Aligned, Holding
    <3>4. PICK m \in Messages : HasRead(r, m)
      BY <1>6, <3>3 DEF Between
    <3>. QED BY <3>2, <3>4, BodyIs, Places DEF HasRead, HeaderOf, Incomplete
  <2>. QED BY <1>3, <2>3, <2>6, <2>7
<1>7. CASE rpc[r] = "content" /\ Pops
  <2>1. PICK k \in {h, h + 1} :
              /\ k <= Len(written)
              /\ \A a \in 1 .. Len(written) :
                    /\ LastByte(written[a]) \in RangeOf(pipe') <=> a > k
                    /\ pipe[1] = LastByte(written[a]) <=> k = h + 1 /\ a = h + 1
    BY <1>2, <1>7, PopLast
  <2>2. rpc'[r] = "content" /\ content'[r] = Append(content[r], pipe[1]) /\ ~Unlocks(r)
    <3>1. ~Keeps
      <4>1. Len(pipe') = Len(pipe) - 1 /\ Len(pipe) \in Nat
        BY <1>7, PipeTail DEF Pops
      <4>. QED BY <4>1 DEF Keeps
    <3>. QED BY <1>7, <3>1, ReaderCases
         DEF Calls, Locks, Fails, Peeks, EndsHeader, Extends, EndsLine, EndsLF, AddsContent,
             Unlocks, Leaves
  <2>3. \A s : s \in RangeOf(content'[r]) <=> s \in RangeOf(content[r]) \/ s = pipe[1]
    <3>1. /\ content[r] \in Seq(Symbols \union {NUL}) /\ pipe[1] \in Symbols \union {NUL}
          /\ content'[r] \in Seq(Symbols \union {NUL})
      BY <1>7, <2>2, LocalTypes, PipeTail, ReaderTypes DEF Pops
    <3>2. /\ Len(content[r]) \in Nat /\ Len(content'[r]) = Len(content[r]) + 1
          /\ \A i \in 1 .. Len(content[r]) : content'[r][i] = content[r][i]
          /\ content'[r][Len(content[r]) + 1] = pipe[1]
      BY <2>2, <3>1, Pushed
    <3>3. /\ \A s : s \in RangeOf(content[r]) <=>
                       \E i \in 1 .. Len(content[r]) : content[r][i] = s
          /\ \A s : s \in RangeOf(content'[r]) <=>
                       \E i \in 1 .. Len(content'[r]) : content'[r][i] = s
      BY <3>1, NotEmpty
    <3>4. \A i : i \in 1 .. Len(content'[r]) <=>
                    i \in 1 .. Len(content[r]) \/ i = Len(content[r]) + 1
      BY <3>2
    <3>. QED BY <3>2, <3>3, <3>4, SMTT(30)
  <2>4. \A s : InContent(s)' <=> s \in RangeOf(content'[r])
    <3>1. \A q \in Readers : rpc'[q] = "content" <=> q = r
      BY <1>1, <1>4, <1>7, <2>2 DEF Holding
    <3>. QED BY <3>1 DEF InContent, Reading, RangeOf
  <2>5. \A s : InContent(s) <=> s \in RangeOf(content[r])
    BY <1>7, InContentIs DEF Holding
  <2>6. \A a \in 1 .. Len(written) : InContent(LastByte(written[a]))' <=> g < a /\ a <= k
    <3>. TAKE a \in 1 .. Len(written)
    <3>1. InContent(LastByte(written[a]))' <=>
             InContent(LastByte(written[a])) \/ LastByte(written[a]) = pipe[1]
      BY <1>1, <2>3, <2>4, <2>5 DEF LastByte, Last, BodyStart
    <3>2. InContent(LastByte(written[a]))' <=> (g < a /\ a <= h) \/ (k = h + 1 /\ a = h + 1)
      BY <1>3, <2>1, <3>1
    <3>. QED BY <1>3, <2>1, <3>2
  <2>7. Split(g, k)'
    BY <1>1, <1>3, <2>1, <2>6 DEF Split, LastByte, Last, BodyStart, RangeOf
  <2>8. \A s : InContent(s)' => InContent(s) \/ s \in RangeOf(pipe)
    <3>1. pipe[1] \in RangeOf(pipe)
      BY <1>7, PipeIs, PipeTail DEF Pops
    <3>. QED BY <2>3, <2>4, <2>5, <3>1
  <2>9. k \in Nat
    BY <2>1
  <2>. QED BY <2>2, <2>7, <2>8, <2>9
<1>8. CASE rpc[r] \in Holding /\ rpc[r] # "content"
  <2>1. \A s : ~InContent(s)
    BY <1>8, InContentIs
  <2>2. g = h
    <3>1. SUFFICES ASSUME g < h
                   PROVE  FALSE
      BY <1>3
    <3>2. g + 1 \in 1 .. Len(written) /\ g < g + 1 /\ g + 1 <= h
      BY <1>3, <3>1
    <3>. QED BY <1>3, <2>1, <3>2
  <2>3. ~Unlocks(r) /\ (rpc'[r] = "content" => content'[r] = <<>>)
    <3>1. content[r] = <<>>
      BY <1>8 DEF ReaderInv, Holding
    <3>. QED BY <1>8, <3>1, ReaderCases
         DEF Calls, Locks, Fails, Peeks, EndsHeader, Extends, EndsLine, EndsLF, AddsContent,
             Unlocks, Leaves
  <2>4. \A s : ~InContent(s)'
    <3>1. \A q \in Readers : q # r => rpc'[q] # "content"
      BY <1>1, <1>4, <1>8 DEF Holding
    <3>2. \A s : s \notin RangeOf(<<>>)
      BY DEF RangeOf
    <3>. QED BY <2>3, <3>1, <3>2 DEF InContent, Reading
  <2>5. CASE Keeps
    <3>1. pipe' = pipe
      BY <2>5 DEF Keeps
    <3>2. Split(g, h)'
      BY <1>1, <1>3, <2>1, <2>4, <3>1 DEF Split, LastByte, Last, BodyStart, RangeOf
    <3>3. Unlocks(r) => g = h
      BY <2>2
    <3>4. g <= g
      OBVIOUS
    <3>. QED BY <2>3, <2>4, <3>2, <3>3, <3>4
  <2>6. CASE Pops
    <3>1. PICK k \in {h, h + 1} :
                /\ k <= Len(written)
                /\ \A a \in 1 .. Len(written) :
                      /\ LastByte(written[a]) \in RangeOf(pipe') <=> a > k
                      /\ pipe[1] = LastByte(written[a]) <=> k = h + 1 /\ a = h + 1
      BY <1>2, <2>6, PopLast
    <3>2. \A a \in 1 .. Len(written) : ~(k < a /\ a <= k)
      BY <3>1
    <3>3. Split(k, k)'
      BY <1>1, <1>3, <2>4, <3>1, <3>2 DEF Split, LastByte, Last, BodyStart, RangeOf
    <3>4. ~damaged => k = g
      <4>1. SUFFICES ASSUME ~damaged, k = h + 1
                     PROVE  FALSE
        BY <2>2, <3>1
      <4>2. h + 1 \in 1 .. Len(written)
        BY <1>3, <3>1, <4>1
      <4>3. pipe[1] = LastByte(written[h + 1]) /\ written[h + 1] \in Messages
        BY <3>1, <4>1, <4>2, WrittenIs
      <4>4. pipe[1][2] >= 9 /\ pipe[1][2] \in Nat
        BY <4>3, Places DEF LastByte
      <4>5. pipe[1] \in Coming
        BY <2>6 DEF Pops, Coming
      <4>6. PICK q \in Readers : InFrame(q, pipe[1])
        BY <4>1, <4>4, <4>5 DEF Aligned
      <4>7. rpc[q] = "content"
        BY <4>4, <4>6 DEF InFrame
      <4>. QED BY <1>4, <1>8, <4>7 DEF Holding
    <3>5. k \in Nat /\ g <= k
      BY <2>2, <3>1
    <3>. QED BY <2>3, <2>4, <3>3, <3>4, <3>5
  <2>. QED BY <2>5, <2>6, ReaderFrame DEF Keeps, Pops
<1>. QED BY <1>5, <1>6, <1>7, <1>8, ReaderFrame DEF Keeps, Pops

\* A step of a writer that writes nothing.
LEMMA FifoSame ==
    ASSUME TypeOK, FifoInv, UNCHANGED <<rpc, content, written, pipe>>, sent \subseteq sent',
           \A w \in Writers : message'[w] \in RangeOf(written)
                                => wpc'[w] = "write" /\ place'[w] > Last(message'[w])
    PROVE  /\ FifoInv'
           /\ \A g, h \in Nat : Split(g, h) => Split(g, h)'
           /\ OnTheWay' = OnTheWay
<1>1. \A s : InContent(s)' <=> InContent(s)
  BY DEF InContent, Reading, RangeOf
<1>2. \A g, h \in Nat : Split(g, h) => Split(g, h)'
  BY <1>1 DEF Split, LastByte, Last, BodyStart, RangeOf
<1>3. \E g, h \in Nat : Split(g, h)'
  BY <1>2 DEF FifoInv
<1>4. OnTheWay' = OnTheWay
  BY DEF OnTheWay, Reading, RangeOf
<1>5. RangeOf(written)' = RangeOf(written)
  BY DEF RangeOf
<1>6. /\ \A a, b \in 1 .. Len(written) : written[a] = written[b] => a = b
      /\ RangeOf(written) \subseteq sent
      /\ \A m \in Messages : LastByte(m) \in OnTheWay => m \in RangeOf(written)
      /\ \A i, j \in 1 .. Len(pipe) : \A a, b \in 1 .. Len(written) :
           i < j /\ pipe[i] = LastByte(written[a]) /\ pipe[j] = LastByte(written[b]) => a < b
  BY DEF FifoInv
<1>7. /\ \A m \in Messages : LastByte(m)' = LastByte(m) /\ Last(m)' = Last(m)
      /\ RangeOf(written)' \subseteq sent'
  BY <1>5, <1>6 DEF LastByte, Last, BodyStart
<1>8. \A m \in Messages : LastByte(m)' \in OnTheWay' => m \in RangeOf(written)'
  BY <1>4, <1>5, <1>6 DEF LastByte, Last, BodyStart
<1>9. ASSUME NEW i \in 1 .. Len(pipe'), NEW j \in 1 .. Len(pipe'),
             NEW a \in 1 .. Len(written'), NEW b \in 1 .. Len(written'),
             i < j, pipe'[i] = LastByte(written[a])', pipe'[j] = LastByte(written[b])'
      PROVE  a < b
  <2>1. LastByte(written[a])' = LastByte(written[a]) /\ LastByte(written[b])' = LastByte(written[b])
    BY DEF LastByte, Last, BodyStart
  <2>. QED BY <1>6, <1>9, <2>1
<1>10. \A w \in Writers :
          message'[w] \in RangeOf(written)' => wpc'[w] = "write" /\ place'[w] > Last(message[w])'
  BY <1>5 DEF Last, BodyStart
<1>11. \A a, b \in 1 .. Len(written') : written'[a] = written'[b] => a = b
  BY <1>6
<1>12. FifoInv'
  BY <1>3, <1>7, <1>8, <1>9, <1>10, <1>11 DEF FifoInv
<1>. QED BY <1>2, <1>4, <1>12

\* A symbol is written; it may be the last byte of its message.
LEMMA FifoWrite ==
    ASSUME TypeOK, WriterInv, FifoInv, NEW w \in Writers, WriteSymbol(w)
    PROVE  /\ FifoInv'
           /\ \A g, h \in Nat : Split(g, h) => Split(g, h)'
           /\ \A m \in Messages : LastByte(m) \in OnTheWay' =>
                 LastByte(m) \in OnTheWay \/ (m = message[w] /\ m \notin RangeOf(written))
           /\ message[w] \in Messages /\ message[w] \notin RangeOf(written)
           /\ written' = IF place[w] = Last(message[w]) THEN Append(written, message[w])
                                                        ELSE written
           /\ RangeOf(written) \subseteq RangeOf(written)'
<1>. DEFINE m == message[w]
            s == NextPlace(w)
<1>1. /\ wpc[w] = "write" /\ Writing(w) /\ pipe' = Append(pipe, s)
      /\ place' = [place EXCEPT ![w] = place[w] + 1]
      /\ written' = IF place[w] = Last(m) THEN Append(written, m) ELSE written
      /\ UNCHANGED <<wpc, sent, message, rpc, content>>
  BY DEF WriteSymbol, Writing, NextPlace, readVars
<1>2. /\ m \in Messages /\ m \in sent /\ place[w] \in Nat /\ Last(m) \in Nat
      /\ place[w] <= Last(m) /\ s \in Symbols /\ s = <<m, place[w]>>
  BY <1>1, WriterIs DEF Writing, NextPlace
<1>3. m \notin RangeOf(written)
  BY <1>1, <1>2 DEF FifoInv
<1>4. /\ Len(written) \in Nat /\ \A a \in 1 .. Len(written) : written[a] \in Messages
      /\ \A x : x \in RangeOf(written) <=> \E a \in 1 .. Len(written) : written[a] = x
  BY WrittenIs
<1>5. /\ Len(pipe) \in Nat /\ Len(pipe') = Len(pipe) + 1
      /\ \A i \in 1 .. Len(pipe) : pipe'[i] = pipe[i]
      /\ pipe'[Len(pipe) + 1] = s
      /\ \A x : x \in RangeOf(pipe) <=> \E i \in 1 .. Len(pipe) : pipe[i] = x
      /\ \A x : x \in RangeOf(pipe') <=> \E i \in 1 .. Len(pipe') : pipe'[i] = x
  <2>1. pipe \in Seq(Symbols)
    BY DEF TypeOK
  <2>2. pipe' \in Seq(Symbols)
    BY <1>1, <1>2, <2>1, Pushed
  <2>3. /\ Len(pipe) \in Nat /\ Len(pipe') = Len(pipe) + 1
        /\ \A i \in 1 .. Len(pipe) : pipe'[i] = pipe[i]
        /\ pipe'[Len(pipe) + 1] = s
    BY <1>1, <1>2, <2>1, Pushed
  <2>4. RangeOf(pipe') = {pipe'[i] : i \in 1 .. Len(pipe')}
    BY <2>2, NotEmpty
  <2>. QED BY <2>3, <2>4, PipeIs
<1>6. \A x : x \in RangeOf(pipe') <=> x \in RangeOf(pipe) \/ x = s
  <2>1. \A i : i \in 1 .. Len(pipe') <=> i \in 1 .. Len(pipe) \/ i = Len(pipe) + 1
    BY <1>5
  <2>. QED BY <1>5, <2>1
<1>7. \A n \in Messages : s = LastByte(n) <=> n = m /\ place[w] = Last(m)
  BY <1>2, LastByteIs
<1>8. LastByte(m) \notin OnTheWay
  BY <1>2, <1>3 DEF FifoInv
<1>9. \A x : InContent(x)' <=> InContent(x)
  BY <1>1 DEF InContent, Reading, RangeOf
<1>10. \A x : x \in OnTheWay' <=> x \in OnTheWay \/ x = s
  <2>1. \A x : x \in OnTheWay' <=> x \in RangeOf(pipe') \/ InContent(x)'
    BY DEF OnTheWay, InContent, RangeOf
  <2>. QED BY <1>6, <1>9, <2>1, OnTheWayIs
<1>11. \A n \in Messages : LastByte(n) \in OnTheWay' =>
          LastByte(n) \in OnTheWay \/ (n = m /\ place[w] = Last(m))
  BY <1>7, <1>10
<1>12. CASE place[w] # Last(m)
  <2>1. written' = written
    BY <1>1, <1>12
  <2>2. \A n \in Messages : s # LastByte(n)
    BY <1>7, <1>12
  <2>3. \A g, h \in Nat : Split(g, h) => Split(g, h)'
    <3>. SUFFICES ASSUME NEW g \in Nat, NEW h \in Nat, Split(g, h)
                  PROVE  Split(g, h)'
      OBVIOUS
    <3>1. \A a \in 1 .. Len(written) :
             /\ LastByte(written[a]) \in RangeOf(pipe') <=> a > h
             /\ InContent(LastByte(written[a])) <=> g < a /\ a <= h
      BY <1>4, <1>6, <2>2 DEF Split
    <3>. QED BY <1>9, <2>1, <3>1 DEF Split, LastByte, Last, BodyStart, RangeOf
  <2>4. ASSUME NEW i \in 1 .. Len(pipe'), NEW j \in 1 .. Len(pipe'),
               NEW a \in 1 .. Len(written), NEW b \in 1 .. Len(written),
               i < j, pipe'[i] = LastByte(written[a]), pipe'[j] = LastByte(written[b])
        PROVE  a < b
    <3>1. j \in 1 .. Len(pipe)
      <4>1. j # Len(pipe) + 1
        BY <1>4, <1>5, <2>2, <2>4
      <4>. QED BY <1>5, <4>1
    <3>2. i \in 1 .. Len(pipe)
      BY <1>5, <2>4, <3>1
    <3>. QED BY <1>5, <2>4, <3>1, <3>2 DEF FifoInv
  <2>5. \A v \in Writers : message'[v] \in RangeOf(written)
                              => wpc'[v] = "write" /\ place'[v] > Last(message'[v])
    <3>. SUFFICES ASSUME NEW v \in Writers, message[v] \in RangeOf(written)
                  PROVE  wpc[v] = "write" /\ place'[v] > Last(message[v])
      BY <1>1
    <3>1. v # w
      BY <1>3
    <3>2. place'[v] = place[v]
      BY <1>1, <3>1 DEF TypeOK
    <3>. QED BY <3>2 DEF FifoInv
  <2>6. \A n \in Messages : LastByte(n) \in OnTheWay' => n \in RangeOf(written)
    BY <1>11, <1>12 DEF FifoInv
  <2>7. \E g, h \in Nat : Split(g, h)'
    BY <2>3 DEF FifoInv
  <2>8. RangeOf(written)' = RangeOf(written)
    BY <2>1 DEF RangeOf
  <2>9. FifoInv'
    <3>1. /\ \A a, b \in 1 .. Len(written) : written[a] = written[b] => a = b
          /\ RangeOf(written) \subseteq sent
      BY DEF FifoInv
    <3>. QED BY <1>1, <2>1, <2>4, <2>5, <2>6, <2>7, <2>8, <3>1, ZenonT(40)
         DEF FifoInv, LastByte, Last, BodyStart
  <2>. QED BY <1>1, <1>2, <1>3, <1>11, <1>12, <2>3, <2>8, <2>9
<1>13. CASE place[w] = Last(m)
  <2>. DEFINE n == Len(written) + 1
  <2>1. /\ written' = Append(written, m)
        /\ Len(written') = n
        /\ \A a \in 1 .. Len(written) : written'[a] = written[a]
        /\ written'[n] = m
    <3>1. written \in Seq(Messages)
      BY DEF TypeOK
    <3>. QED BY <1>1, <1>2, <1>13, <3>1, Pushed
  <2>2. s = LastByte(m)
    BY <1>2, <1>7, <1>13
  <2>3. \A a : a \in 1 .. n <=> a \in 1 .. Len(written) \/ a = n
    BY <1>4
  <2>4. \A x : x \in RangeOf(written)' <=> x \in RangeOf(written) \/ x = m
    <3>1. \A x : x \in RangeOf(written)' <=> \E a \in 1 .. n : written'[a] = x
      <4>1. written' \in Seq(Messages)
        BY <1>2, <2>1, Pushed DEF TypeOK
      <4>2. RangeOf(written') = {written'[a] : a \in 1 .. Len(written')}
        BY <4>1, NotEmpty
      <4>3. RangeOf(written)' = RangeOf(written')
        BY DEF RangeOf
      <4>. QED BY <2>1, <4>2, <4>3
    <3>. QED BY <1>4, <2>1, <2>3, <3>1
  <2>5. \A a \in 1 .. Len(written) : written[a] # m
    BY <1>3, <1>4
  <2>6. \A a \in 1 .. Len(written) : LastByte(written[a]) # s
    BY <1>4, <1>7, <2>5
  <2>7. \A g, h \in Nat : Split(g, h) => Split(g, h)'
    <3>. SUFFICES ASSUME NEW g \in Nat, NEW h \in Nat, Split(g, h)
                  PROVE  Split(g, h)'
      OBVIOUS
    <3>1. g <= h /\ h <= n /\ n > h /\ ~(n <= h)
      BY <1>4 DEF Split
    <3>2. \A a \in 1 .. Len(written) :
             /\ LastByte(written'[a]) \in RangeOf(pipe') <=> a > h
             /\ InContent(LastByte(written'[a])) <=> g < a /\ a <= h
      BY <1>6, <2>1, <2>6 DEF Split
    <3>3. LastByte(written'[n]) \in RangeOf(pipe') /\ ~InContent(LastByte(written'[n]))
      BY <1>6, <1>8, <2>1, <2>2, OnTheWayIs
    <3>4. \A a \in 1 .. n :
             /\ LastByte(written'[a]) \in RangeOf(pipe') <=> a > h
             /\ InContent(LastByte(written'[a])) <=> g < a /\ a <= h
      BY <2>3, <3>1, <3>2, <3>3
    <3>5. \A a \in 1 .. n : InContent(LastByte(written[a]))' <=> InContent(LastByte(written'[a]))
      BY <1>1 DEF InContent, Reading, RangeOf, LastByte, Last, BodyStart
    <3>6. \A a \in 1 .. n : (LastByte(written[a]) \in RangeOf(pipe))' <=> LastByte(written'[a]) \in RangeOf(pipe')
      BY DEF RangeOf, LastByte, Last, BodyStart
    <3>. QED BY <2>1, <3>1, <3>4, <3>5, <3>6 DEF Split
  <2>8. ASSUME NEW i \in 1 .. Len(pipe'), NEW j \in 1 .. Len(pipe'),
               NEW a \in 1 .. n, NEW b \in 1 .. n,
               i < j, pipe'[i] = LastByte(written'[a]), pipe'[j] = LastByte(written'[b])
        PROVE  a < b
    <3>1. i \in 1 .. Len(pipe) /\ pipe'[i] = pipe[i]
      BY <1>5, <2>8
    <3>2. pipe[i] \in OnTheWay
      BY <1>5, <3>1, OnTheWayIs
    <3>3. a \in 1 .. Len(written)
      <4>1. a # n
        BY <1>8, <2>1, <2>8, <3>1, <3>2
      <4>. QED BY <2>3, <4>1
    <3>4. CASE b = n
      BY <1>4, <3>3, <3>4
    <3>5. CASE b # n
      <4>1. b \in 1 .. Len(written)
        BY <2>3, <3>5
      <4>2. j # Len(pipe) + 1
        BY <1>5, <2>1, <2>6, <2>8, <4>1
      <4>3. j \in 1 .. Len(pipe) /\ pipe'[j] = pipe[j]
        BY <1>5, <4>2
      <4>4. /\ pipe[i] = LastByte(written[a]) /\ pipe[j] = LastByte(written[b])
        BY <2>1, <2>8, <3>1, <3>3, <4>1, <4>3
      <4>. QED BY <2>8, <3>1, <3>3, <4>1, <4>3, <4>4 DEF FifoInv
    <3>. QED BY <3>4, <3>5
  <2>9. \A v \in Writers : message'[v] \in RangeOf(written)'
                              => wpc'[v] = "write" /\ place'[v] > Last(message'[v])
    <3>. SUFFICES ASSUME NEW v \in Writers, message[v] \in RangeOf(written) \/ message[v] = m
                  PROVE  wpc[v] = "write" /\ place'[v] > Last(message[v])
      BY <1>1, <2>4
    <3>1. CASE v = w
      BY <1>1, <1>2, <1>13, <3>1 DEF TypeOK
    <3>2. CASE v # w
      <4>1. message[v] # m
        BY <1>2, <3>2, Places DEF WriterInv
      <4>2. place'[v] = place[v]
        BY <1>1, <3>2 DEF TypeOK
      <4>. QED BY <4>1, <4>2 DEF FifoInv
    <3>. QED BY <3>1, <3>2
  <2>10. \A x \in Messages : LastByte(x) \in OnTheWay' => x \in RangeOf(written)'
    BY <1>11, <2>4 DEF FifoInv
  <2>11. \E g, h \in Nat : Split(g, h)'
    BY <2>7 DEF FifoInv
  <2>12. \A a, b \in 1 .. n : written'[a] = written'[b] => a = b
    <3>. SUFFICES ASSUME NEW a \in 1 .. n, NEW b \in 1 .. n, written'[a] = written'[b]
                  PROVE  a = b
      OBVIOUS
    <3>1. CASE a \in 1 .. Len(written) /\ b \in 1 .. Len(written)
      BY <2>1, <3>1 DEF FifoInv
    <3>2. CASE a = n \/ b = n
      BY <2>1, <2>3, <2>5, <3>2
    <3>. QED BY <2>3, <3>1, <3>2
  <2>13. RangeOf(written)' \subseteq sent'
    BY <1>1, <1>2, <2>4 DEF FifoInv
  <2>14. FifoInv'
    BY <2>1, <2>8, <2>9, <2>10, <2>11, <2>12, <2>13 DEF FifoInv, LastByte, Last, BodyStart
  <2>. QED BY <1>1, <1>2, <1>3, <1>11, <2>4, <2>7, <2>14
<1>. QED BY <1>12, <1>13

\* The steps of a writer that write nothing.
LEMMA FifoSilent ==
    ASSUME TypeOK, WriterInv, FifoInv,
           \/ CloseStream
           \/ \E w \in Writers : \/ \E m \in Messages : CallWrite(w, m)
                                 \/ LockWrite(w) \/ EndWrite(w) \/ FailWrite(w)
    PROVE  /\ FifoInv'
           /\ \A g, h \in Nat : Split(g, h) => Split(g, h)'
           /\ OnTheWay' = OnTheWay
           /\ UNCHANGED <<written, pipe, content, rpc>>
<1>1. /\ RangeOf(written) \subseteq Messages /\ RangeOf(written) \subseteq sent
      /\ \A v \in Writers :
            message[v] \in RangeOf(written) => wpc[v] = "write" /\ place[v] > Last(message[v])
  BY WrittenIs DEF FifoInv
<1>2. None \notin Messages
  BY MessagesAssumption
<1>3. /\ wpc \in [Writers -> {"idle", "lock", "write"}]
      /\ message \in [Writers -> Messages \union {None}]
      /\ place \in [Writers -> Nat]
  BY DEF TypeOK
<1>4. SUFFICES /\ UNCHANGED <<written, pipe, content, rpc>> /\ sent \subseteq sent'
               /\ \A v \in Writers : message'[v] \in RangeOf(written)
                                        => wpc'[v] = "write" /\ place'[v] > Last(message'[v])
  BY FifoSame
<1>5. ASSUME NEW w \in Writers, NEW m \in Messages, CallWrite(w, m)
      PROVE  <1>4!1
  <2>1. /\ wpc' = [wpc EXCEPT ![w] = "lock"] /\ m \notin sent /\ sent' = sent \union {m}
        /\ message' = [message EXCEPT ![w] = m] /\ place' = [place EXCEPT ![w] = First(m)]
        /\ UNCHANGED <<written, pipe, content, rpc>>
    BY <1>5 DEF CallWrite, readVars
  <2>2. m \notin RangeOf(written)
    BY <1>1, <2>1
  <2>. QED BY <1>1, <1>3, <2>1, <2>2
<1>6. ASSUME NEW w \in Writers, LockWrite(w)
      PROVE  <1>4!1
  BY <1>1, <1>3, <1>6 DEF LockWrite, readVars
<1>7. ASSUME NEW w \in Writers, EndWrite(w) \/ FailWrite(w)
      PROVE  <1>4!1
  <2>1. /\ wpc' = [wpc EXCEPT ![w] = "idle"] /\ sent' = sent
        /\ message' = [message EXCEPT ![w] = None] /\ place' = [place EXCEPT ![w] = 0]
        /\ UNCHANGED <<written, pipe, content, rpc>>
    BY <1>7 DEF EndWrite, FailWrite, UnlockWrite, readVars
  <2>. QED BY <1>1, <1>2, <1>3, <2>1
<1>8. CASE CloseStream
  BY <1>1, <1>8 DEF CloseStream, readVars, writeVars
<1>. QED BY <1>5, <1>6, <1>7, <1>8

\* What is on the way was there before a step of a reader.
LEMMA FifoInvRead ==
    ASSUME TypeOK, WriterInv, PipeInv, ReaderInv, ~damaged => Aligned, FifoInv,
           NEW r \in Readers, ReaderMove(r)
    PROVE  FifoInv' /\ OnTheWay' \subseteq OnTheWay
<1>1. UNCHANGED <<wpc, sent, message, place, written>>
  BY ReaderFrame
<1>2. PICK g \in Nat, h \in Nat : Split(g, h)
  BY DEF FifoInv
<1>3. /\ \E i, k \in Nat : Split(i, k)'
      /\ \A s : InContent(s)' => InContent(s) \/ s \in RangeOf(pipe)
  BY <1>2, FifoRead
<1>4. pipe \in Seq(Symbols) /\ pipe' \in Seq(Symbols)
  BY ReaderTypes DEF TypeOK
<1>5. /\ \A s : s \in RangeOf(pipe) <=> \E i \in 1 .. Len(pipe) : pipe[i] = s
      /\ \A s : s \in RangeOf(pipe') <=> \E i \in 1 .. Len(pipe') : pipe'[i] = s
      /\ Len(pipe) \in Nat
  BY <1>4, NotEmpty
<1>6. PICK d \in {0, 1} : /\ Len(pipe') = Len(pipe) - d
                          /\ \A i \in 1 .. Len(pipe') : /\ pipe'[i] = pipe[i + d]
                                                        /\ i + d \in 1 .. Len(pipe)
  <2>1. CASE pipe' = pipe
    <3>1. \A i \in 1 .. Len(pipe) : i + 0 = i
      OBVIOUS
    <3>. QED BY <1>5, <2>1, <3>1
  <2>2. CASE pipe # <<>> /\ pipe' = Tail(pipe)
    <3>1. /\ Len(pipe) \in Nat /\ Len(pipe) >= 1 /\ Len(pipe') = Len(pipe) - 1
          /\ \A i \in 1 .. Len(pipe) - 1 : pipe'[i] = pipe[i + 1]
      BY <2>2, PipeTail
    <3>2. \A i \in 1 .. Len(pipe) - 1 : i + 1 \in 1 .. Len(pipe)
      BY <3>1
    <3>. QED BY <3>1, <3>2
  <2>. QED BY <2>1, <2>2, ReaderFrame
<1>7. \A s : s \in RangeOf(pipe') => s \in RangeOf(pipe)
  BY <1>5, <1>6
<1>8. \A s : s \in OnTheWay' => s \in OnTheWay
  <2>1. \A s : s \in OnTheWay' <=> s \in RangeOf(pipe') \/ InContent(s)'
    BY DEF OnTheWay, InContent, RangeOf
  <2>. QED BY <1>3, <1>7, <2>1, OnTheWayIs
<1>9. ASSUME NEW i \in 1 .. Len(pipe'), NEW j \in 1 .. Len(pipe'),
             NEW a \in 1 .. Len(written), NEW b \in 1 .. Len(written),
             i < j, pipe'[i] = LastByte(written[a]), pipe'[j] = LastByte(written[b])
      PROVE  a < b
  <2>1. i + d < j + d
    BY <1>9
  <2>. QED BY <1>6, <1>9, <2>1 DEF FifoInv
<1>10. /\ \A a, b \in 1 .. Len(written) : written[a] = written[b] => a = b
       /\ RangeOf(written) \subseteq sent
       /\ \A v \in Writers :
             message[v] \in RangeOf(written) => wpc[v] = "write" /\ place[v] > Last(message[v])
       /\ \A m \in Messages : LastByte(m) \in OnTheWay' => m \in RangeOf(written)
  BY <1>8 DEF FifoInv
<1>11. RangeOf(written)' = RangeOf(written)
  BY <1>1 DEF RangeOf
<1>. QED BY <1>1, <1>3, <1>8, <1>9, <1>10, <1>11 DEF FifoInv, LastByte, Last, BodyStart

LEMMA FifoInvStep ==
    ASSUME TypeOK, WriterInv, PipeInv, ReaderInv, ~damaged => Aligned, FifoInv, Next
    PROVE  FifoInv'
<1>1. CASE \E w \in Writers : WriteSymbol(w)
  BY <1>1, FifoWrite
<1>2. CASE \E r \in Readers : ReaderMove(r)
  BY <1>2, FifoInvRead
<1>3. CASE \/ CloseStream
           \/ \E w \in Writers : \/ \E m \in Messages : CallWrite(w, m)
                                 \/ LockWrite(w) \/ EndWrite(w) \/ FailWrite(w)
  BY <1>3, FifoSilent
<1>. QED BY <1>1, <1>2, <1>3, NextIs DEF WriterMove

-----------------------------------------------------------------------------
(* What was taken off the stream.                                          *)

LEMMA TakenIs ==
    ASSUME TypeOK
    PROVE  /\ Taken \subseteq Messages
           /\ \A m \in Messages : /\ Append(taken, m) \in Seq(Messages)
                                  /\ RangeOf(Append(taken, m)) = Taken \union {m}
<1>1. taken \in Seq(Messages)
  BY DEF TypeOK
<1>2. ASSUME NEW m \in Messages
      PROVE  RangeOf(Append(taken, m)) = Taken \union {m}
  <2>1. /\ Len(taken) \in Nat /\ Append(taken, m) \in Seq(Messages)
        /\ Len(Append(taken, m)) = Len(taken) + 1
        /\ \A i \in 1 .. Len(taken) : Append(taken, m)[i] = taken[i]
        /\ Append(taken, m)[Len(taken) + 1] = m
    BY <1>1, Pushed
  <2>2. /\ RangeOf(taken) = {taken[i] : i \in 1 .. Len(taken)}
        /\ RangeOf(Append(taken, m)) = {Append(taken, m)[i] : i \in 1 .. Len(taken) + 1}
    BY <1>1, <2>1, NotEmpty
  <2>3. \A i : i \in 1 .. Len(taken) + 1 <=> i \in 1 .. Len(taken) \/ i = Len(taken) + 1
    BY <2>1
  <2>. QED BY <2>1, <2>2, <2>3 DEF Taken
<1>3. Taken \subseteq Messages
  BY <1>1, NotEmpty DEF Taken
<1>. QED BY <1>1, <1>2, <1>3, Pushed

\* The case that TakenIsAccountedFor makes for each message.
Accounted(m) ==
    \/ \E r \in Readers : Parses(r, m)
    \/ m \in delivered \ (refused \union thrown) /\ Kind[m] \notin {"badType", "badBody", "throws"}
    \/ m \in refused \ (delivered \union thrown) /\ Kind[m] = "badBody"
    \/ m \in thrown \ (delivered \union refused) /\ Kind[m] = "throws"
    \/ (Kind[m] = "badType" \/ damaged) /\ m \notin delivered \union refused \union thrown

LEMMA AccountedIs == TakenIsAccountedFor <=> \A m \in Taken : Accounted(m)
BY DEF TakenIsAccountedFor, Parsing, Accounted, Parses

LEMMA AccountedIsNext == TakenIsAccountedFor' <=> \A m \in Taken' : Accounted(m)'
BY DEF TakenIsAccountedFor, Parsing, Accounted, Parses, Body

\* A step that takes nothing and after which no reader parses what none parsed before.
LEMMA TakenSame ==
    ASSUME TypeOK, TakenInv, TakenIsAccountedFor, RepliesInv,
           UNCHANGED <<taken, delivered, refused, thrown>>,
           damaged => damaged', damaged \/ replies' = replies,
           \A q \in Readers : \A m \in Messages : Parses(q, m)' <=> Parses(q, m),
           RangeOf(written) \subseteq RangeOf(written)',
           \A m \in Messages : LastByte(m) \in OnTheWay' =>
              LastByte(m) \in OnTheWay \/ m \notin RangeOf(written)
    PROVE  TakenInv' /\ TakenIsAccountedFor' /\ RepliesInv'
<1>1. Taken' = Taken /\ Taken \subseteq Messages
  BY TakenIs DEF Taken, RangeOf
<1>2. TakenInv'
  <2>1. \A m \in Taken : m \in RangeOf(written)' /\ LastByte(m)' = LastByte(m)
    BY DEF TakenInv, LastByte, Last, BodyStart
  <2>2. \A m \in Taken : LastByte(m) \notin OnTheWay'
    BY <1>1 DEF TakenInv
  <2>3. /\ delivered \union refused \union thrown \subseteq Taken /\ IsFiniteSet(refused)
        /\ \A m \in refused : Kind[m] = "badBody"
        /\ \A r \in Readers, m \in Messages : Parses(r, m) =>
              m \in Taken /\ m \notin delivered \union refused \union thrown
        /\ \A r, q \in Readers, m \in Messages : Parses(r, m) /\ Parses(q, m) => r = q
    BY DEF TakenInv
  <2>. QED BY <1>1, <2>1, <2>2, <2>3 DEF TakenInv
<1>3. TakenIsAccountedFor'
  <2>1. ASSUME NEW m \in Taken
        PROVE  Accounted(m)'
    <3>1. Accounted(m) /\ m \in Messages
      BY <1>1, <2>1, AccountedIs
    <3>. QED BY <3>1 DEF Accounted
  <2>. QED BY <1>1, <2>1, AccountedIsNext
<1>4. RepliesInv'
  BY DEF RepliesInv
<1>. QED BY <1>2, <1>3, <1>4

\* When the content is a whole body it was on the way, with its last byte, until now.
LEMMA TakeBody ==
    ASSUME TypeOK, ReaderInv, FifoInv, TakenInv, NEW r \in Readers, UnlockRead(r), Unlocks(r),
           NEW m \in Messages, content'[r] = Body(m)
    PROVE  /\ content'[r] = content[r]
           /\ InContent(LastByte(m))
           /\ \A n \in Messages : InContent(LastByte(n)) => n = m
           /\ m \in RangeOf(written) /\ m \notin Taken
           /\ LastByte(m) \notin OnTheWay'
           /\ taken' = Append(taken, m)
<1>. USE DEF Become
<1>1. /\ rpc[r] = "content" /\ rpc'[r] = "parse" /\ pipe' = pipe
      /\ content'[r] = content[r] \/ content'[r] = Append(content[r], NUL)
  BY DEF Unlocks, Keeps
<1>2. /\ Body(m) \in Seq(Symbols) /\ Len(Body(m)) = Size[m] /\ Size[m] \in Nat \ {0}
      /\ \A i \in 1 .. Size[m] : Body(m)[i] = <<m, 8 + i>> /\ Body(m)[i] \in Symbols
      /\ Body(m)[Size[m]] = LastByte(m)
  BY BodyIs, Places, NotEmpty
<1>3. content'[r] = content[r]
  <2>1. SUFFICES ASSUME content'[r] = Append(content[r], NUL)
                 PROVE  FALSE
    BY <1>1
  <2>2. /\ Len(content[r]) \in Nat /\ Len(content'[r]) = Len(content[r]) + 1
        /\ content'[r][Len(content[r]) + 1] = NUL
    <3>1. content[r] \in Seq(Symbols \union {NUL})
      BY LocalTypes
    <3>. QED BY <2>1, <3>1, Pushed
  <2>3. Body(m)[Size[m]] = NUL /\ Size[m] \in 1 .. Size[m]
    BY <1>2, <2>2
  <2>. QED BY <1>2, <2>3, NoSymbol
<1>4. \A s : InContent(s) <=> s \in RangeOf(Body(m))
  BY <1>1, <1>3, InContentIs DEF Holding
<1>5. \A s : s \in RangeOf(Body(m)) <=> \E i \in 1 .. Size[m] : s = <<m, 8 + i>>
  <2>1. RangeOf(Body(m)) = {Body(m)[i] : i \in 1 .. Size[m]}
    BY <1>2, NotEmpty
  <2>. QED BY <1>2, <2>1
<1>6. InContent(LastByte(m))
  <2>1. LastByte(m) = <<m, 8 + Size[m]>> /\ Size[m] \in 1 .. Size[m]
    BY <1>2, Places DEF LastByte
  <2>. QED BY <1>4, <1>5, <2>1
<1>7. \A n \in Messages : InContent(LastByte(n)) => n = m
  BY <1>4, <1>5 DEF LastByte
<1>8. m \in RangeOf(written) /\ m \notin Taken
  BY <1>6, OnTheWayIs DEF FifoInv, TakenInv
<1>9. LastByte(m) \notin OnTheWay'
  <2>1. \A q \in Readers : rpc'[q] # "content"
    <3>1. \A q \in Readers \ {r} : rpc[q] \notin Holding
      BY <1>1 DEF ReaderInv, Holding
    <3>. QED BY <1>1, <3>1, ReaderFrame DEF Holding, ReaderMove, ReadStep
  <2>2. LastByte(m) \notin RangeOf(pipe)
    <3>1. PICK a \in 1 .. Len(written) : written[a] = m
      BY <1>8, WrittenIs
    <3>2. PICK g \in Nat, h \in Nat : Split(g, h)
      BY DEF FifoInv
    <3>3. a <= h /\ h \in Nat /\ a \in Nat
      BY <1>6, <3>1, <3>2, WrittenIs DEF Split
    <3>. QED BY <3>1, <3>2, <3>3 DEF Split
  <2>. QED BY <1>1, <2>1, <2>2 DEF OnTheWay, Reading, RangeOf
<1>10. taken' = Append(taken, m)
  <2>1. WholeBody(content'[r]) = {m}
    BY SameBody DEF WholeBody
  <2>2. (CHOOSE x \in Messages : Body(x) = content'[r]) = m
    BY SameBody
  <2>. QED BY <2>1, <2>2 DEF UnlockRead
<1>. QED BY <1>3, <1>6, <1>7, <1>8, <1>9, <1>10

LEMMA TakenUnlock ==
    ASSUME TypeOK, WriterInv, PipeInv, ReaderInv, ~damaged => Aligned, FifoInv,
           TakenInv, TakenIsAccountedFor, RepliesInv,
           NEW r \in Readers, ReaderMove(r), UnlockRead(r), Unlocks(r)
    PROVE  TakenInv' /\ TakenIsAccountedFor' /\ RepliesInv'
<1>. USE DEF Become
<1>1. /\ rpc[r] = "content" /\ rpc'[r] = "parse"
      /\ UNCHANGED <<delivered, refused, thrown, replies, damaged, written>>
      /\ \A q \in Readers \ {r} : rpc'[q] = rpc[q] /\ content'[q] = content[q]
  BY ReaderFrame DEF Unlocks, UnlockRead
<1>2. \A q \in Readers \ {r} : \A m \in Messages : Parses(q, m)' <=> Parses(q, m)
  BY <1>1 DEF Parses, Body
<1>3. \A m \in Messages : ~Parses(r, m)
  BY <1>1 DEF Parses
<1>4. \A m \in Messages : Parses(r, m)' <=> content'[r] = Body(m)
  BY <1>1 DEF Parses, Body
<1>5. OnTheWay' \subseteq OnTheWay
  BY FifoInvRead
<1>6. RangeOf(written)' = RangeOf(written)
  BY <1>1 DEF RangeOf
<1>7. CASE \A m \in Messages : content'[r] # Body(m)
  <2>1. taken' = taken
    BY <1>7 DEF UnlockRead, WholeBody
  <2>2. \A q \in Readers : \A m \in Messages : Parses(q, m)' <=> Parses(q, m)
    BY <1>2, <1>3, <1>4, <1>7
  <2>. QED BY <1>1, <1>5, <1>6, <2>1, <2>2, TakenSame
<1>8. ASSUME NEW m \in Messages, content'[r] = Body(m)
      PROVE  TakenInv' /\ TakenIsAccountedFor' /\ RepliesInv'
  <2>1. /\ m \in RangeOf(written) /\ m \notin Taken /\ LastByte(m) \notin OnTheWay'
        /\ taken' = Append(taken, m)
    BY <1>8, TakeBody
  <2>2. Taken' = Taken \union {m} /\ Taken \subseteq Messages
    BY <2>1, TakenIs DEF Taken, RangeOf
  <2>3. \A n \in Messages : content'[r] = Body(n) => n = m
    BY <1>8, SameBody
  <2>4. /\ \A n \in Taken : n \in RangeOf(written) /\ LastByte(n) \notin OnTheWay
        /\ \A q \in Readers, n \in Messages : Parses(q, n) =>
              n \in Taken /\ n \notin delivered \union refused \union thrown
        /\ \A p, q \in Readers, n \in Messages : Parses(p, n) /\ Parses(q, n) => p = q
        /\ delivered \union refused \union thrown \subseteq Taken
        /\ IsFiniteSet(refused)
        /\ \A n \in refused : Kind[n] = "badBody"
    BY DEF TakenInv
  <2>5. TakenInv'
    <3>1. \A n \in Taken' : n \in RangeOf(written)' /\ LastByte(n)' \notin OnTheWay'
      BY <1>5, <1>6, <2>1, <2>2, <2>4 DEF LastByte, Last, BodyStart
    <3>2. ASSUME NEW q \in Readers, NEW n \in Messages, Parses(q, n)'
          PROVE  /\ n \in Taken' /\ n \notin delivered' \union refused' \union thrown'
                 /\ \A p \in Readers : Parses(p, n)' => p = q
      <4>1. CASE q = r
        <5>1. n = m
          BY <1>4, <2>3, <3>2, <4>1
        <5>2. \A p \in Readers \ {r} : ~Parses(p, n)'
          BY <1>2, <2>1, <2>4, <5>1
        <5>. QED BY <1>1, <2>1, <2>2, <2>4, <4>1, <5>1, <5>2
      <4>2. CASE q # r
        <5>1. Parses(q, n) /\ n \in Taken
          BY <1>2, <2>4, <3>2, <4>2
        <5>2. ~Parses(r, n)'
          BY <1>4, <2>1, <2>3, <5>1
        <5>3. \A p \in Readers \ {r} : Parses(p, n)' => p = q
          BY <1>2, <2>4, <4>2, <5>1
        <5>. QED BY <1>1, <2>2, <2>4, <5>1, <5>2, <5>3
      <4>. QED BY <4>1, <4>2
    <3>3. /\ delivered' \union refused' \union thrown' \subseteq Taken' /\ IsFiniteSet(refused')
          /\ \A n \in refused' : Kind[n] = "badBody"
      BY <1>1, <2>2, <2>4
    <3>. QED BY <3>1, <3>2, <3>3 DEF TakenInv
  <2>6. TakenIsAccountedFor'
    <3>1. ASSUME NEW n \in Taken
          PROVE  Accounted(n)'
      <4>1. Accounted(n) /\ n \in Messages
        BY <2>2, <3>1, AccountedIs
      <4>. QED BY <1>1, <1>2, <1>3, <4>1 DEF Accounted
    <3>2. Accounted(m)'
      BY <1>4, <1>8 DEF Accounted
    <3>. QED BY <2>2, <3>1, <3>2, AccountedIsNext
  <2>7. RepliesInv'
    BY <1>1 DEF RepliesInv
  <2>. QED BY <2>5, <2>6, <2>7
<1>. QED BY <1>7, <1>8

\* The message in the hands of a reader is returned, answered or dropped.
LEMMA TakenParse ==
    ASSUME TypeOK, WriterInv, PipeInv, ReaderInv, SuspectInv, ~damaged => Aligned, FifoInv,
           TakenInv, TakenIsAccountedFor, RepliesInv,
           NEW r \in Readers, ReaderMove(r), ParseContent(r), Leaves(r)
    PROVE  TakenInv' /\ TakenIsAccountedFor' /\ RepliesInv'
<1>. USE DEF Become
<1>1. /\ rpc[r] = "parse" /\ rpc'[r] = "idle"
      /\ UNCHANGED <<taken, damaged, written>>
      /\ \A q \in Readers \ {r} : rpc'[q] = rpc[q] /\ content'[q] = content[q]
  BY ReaderFrame DEF Leaves, ParseContent
<1>2. /\ \A q \in Readers \ {r} : \A m \in Messages : Parses(q, m)' <=> Parses(q, m)
      /\ \A m \in Messages : ~Parses(r, m)'
  BY <1>1 DEF Parses, Body
<1>3. OnTheWay' \subseteq OnTheWay /\ RangeOf(written)' = RangeOf(written)
  BY <1>1, FifoInvRead DEF RangeOf
<1>4. Taken' = Taken /\ Taken \subseteq Messages
  BY <1>1, TakenIs DEF Taken, RangeOf
<1>5. ~damaged => \E m \in Messages : HasRead(r, m)
  BY <1>1 DEF Aligned
<1>6. CASE \A m \in Messages : content[r] # Body(m)
  <2>1. WholeBody(content[r]) = {}
    BY <1>6 DEF WholeBody
  <2>2. UNCHANGED <<delivered, refused, thrown>>
    BY <2>1 DEF ParseContent, Deliver, Refuse, Throw
  <2>3. damaged
    BY <1>5, <1>6 DEF HasRead
  <2>4. \A q \in Readers : \A m \in Messages : Parses(q, m)' <=> Parses(q, m)
    <3>1. \A m \in Messages : ~Parses(r, m)
      BY <1>6 DEF Parses
    <3>. QED BY <1>2, <3>1
  <2>. QED BY <1>1, <1>3, <2>2, <2>3, <2>4, TakenSame
<1>7. ASSUME NEW m \in Messages, content[r] = Body(m)
      PROVE  TakenInv' /\ TakenIsAccountedFor' /\ RepliesInv'
  <2>1. /\ \A n \in Taken : n \in RangeOf(written) /\ LastByte(n) \notin OnTheWay
        /\ \A q \in Readers, n \in Messages : Parses(q, n) =>
              n \in Taken /\ n \notin delivered \union refused \union thrown
        /\ \A p, q \in Readers, n \in Messages : Parses(p, n) /\ Parses(q, n) => p = q
        /\ delivered \union refused \union thrown \subseteq Taken
        /\ IsFiniteSet(refused)
        /\ \A n \in refused : Kind[n] = "badBody"
    BY DEF TakenInv
  <2>2. Parses(r, m) /\ m \in Taken /\ m \notin delivered \union refused \union thrown
    BY <1>1, <1>7, <2>1 DEF Parses
  <2>3. WholeBody(content[r]) = {m} /\ \A n \in Messages : content[r] = Body(n) => n = m
    BY <1>7, SameBody DEF WholeBody
  <2>4. \A q \in Readers, n \in Messages : Parses(q, n)' => Parses(q, n) /\ n # m /\ q # r
    BY <1>2, <2>1, <2>2
  <2>5. \A q \in Readers, n \in Messages : Parses(q, n) /\ n # m => Parses(q, n)'
    BY <1>2, <2>3 DEF Parses
  <2>6. ~damaged => header[r] = HeaderOf(m)
    BY <1>5, <2>3 DEF HasRead
  <2>7. Kind[m] = "badType" => WrongType(r)
    <3>1. Body(m) # <<>> /\ Body(m)[1] = <<m, 9>>
      BY BodyIs
    <3>2. Kind[m] = "badType" => BadBegin(content[r])
      BY <1>7, <3>1 DEF BadBegin
    <3>. QED BY <3>2 DEF SuspectInv, WrongType
  <2>8. CASE WrongType(r)
    <3>1. UNCHANGED <<delivered, refused, thrown, replies>>
      BY <2>8 DEF ParseContent
    <3>2. Kind[m] = "badType" \/ damaged
      <4>1. ~damaged => ~HeaderOf(m).utf8
        BY <2>6, <2>8 DEF WrongType
      <4>2. Kind[m] # "badType" => HeaderOf(m).utf8 = TRUE
        BY DEF HeaderOf
      <4>. QED BY <4>1, <4>2
    <3>3. TakenInv'
      BY <1>3, <1>4, <2>1, <2>4, <3>1 DEF TakenInv, LastByte, Last, BodyStart
    <3>4. \A n \in Taken : Accounted(n)'
      <4>1. Accounted(m)'
        BY <1>1, <2>2, <3>1, <3>2 DEF Accounted
      <4>2. ASSUME NEW n \in Taken, n # m
            PROVE  Accounted(n)'
        <5>1. Accounted(n) /\ n \in Messages
          BY <1>4, AccountedIs
        <5>. QED BY <1>1, <2>5, <3>1, <4>2, <5>1 DEF Accounted
      <4>. QED BY <4>1, <4>2
    <3>5. RepliesInv'
      BY <1>1, <3>1 DEF RepliesInv
    <3>. QED BY <1>4, <3>3, <3>4, <3>5, AccountedIsNext
  <2>9. CASE ~WrongType(r) /\ Kind[m] \notin {"badBody", "throws"}
    <3>1. delivered' = delivered \union {m} /\ UNCHANGED <<refused, thrown, replies>>
      BY <2>3, <2>9 DEF ParseContent, Deliver, Refuse, Throw
    <3>2. TakenInv'
      BY <1>3, <1>4, <2>1, <2>2, <2>4, <3>1 DEF TakenInv, LastByte, Last, BodyStart
    <3>3. \A n \in Taken : Accounted(n)'
      <4>1. Accounted(m)'
        BY <2>2, <2>7, <2>9, <3>1 DEF Accounted
      <4>2. ASSUME NEW n \in Taken, n # m
            PROVE  Accounted(n)'
        <5>1. Accounted(n) /\ n \in Messages
          BY <1>4, AccountedIs
        <5>. QED BY <1>1, <2>5, <3>1, <4>2, <5>1 DEF Accounted
      <4>. QED BY <4>1, <4>2
    <3>4. RepliesInv'
      BY <1>1, <3>1 DEF RepliesInv
    <3>. QED BY <1>4, <3>2, <3>3, <3>4, AccountedIsNext
  <2>10. CASE ~WrongType(r) /\ Kind[m] = "badBody"
    <3>2. /\ refused' = refused \union {m} /\ replies' = replies + 1
          /\ UNCHANGED <<delivered, thrown>>
      BY <2>3, <2>10 DEF ParseContent, Deliver, Refuse, Throw
    <3>3. IsFiniteSet(refused') /\ Cardinality(refused') = Cardinality(refused) + 1
      BY <2>1, <2>2, <3>2, FS_AddElement
    <3>4. TakenInv'
      BY <1>3, <1>4, <2>1, <2>2, <2>4, <2>10, <3>2, <3>3 DEF TakenInv, LastByte, Last, BodyStart
    <3>5. \A n \in Taken : Accounted(n)'
      <4>1. Accounted(m)'
        BY <2>2, <2>10, <3>2 DEF Accounted
      <4>2. ASSUME NEW n \in Taken, n # m
            PROVE  Accounted(n)'
        <5>1. Accounted(n) /\ n \in Messages
          BY <1>4, AccountedIs
        <5>. QED BY <1>1, <2>5, <3>2, <4>2, <5>1 DEF Accounted
      <4>. QED BY <4>1, <4>2
    <3>6. RepliesInv'
      BY <1>1, <3>2, <3>3 DEF RepliesInv
    <3>. QED BY <1>4, <3>4, <3>5, <3>6, AccountedIsNext
  <2>11. CASE ~WrongType(r) /\ Kind[m] = "throws"
    <3>1. thrown' = thrown \union {m} /\ UNCHANGED <<delivered, refused, replies>>
      BY <2>3, <2>11 DEF ParseContent, Deliver, Refuse, Throw
    <3>2. TakenInv'
      BY <1>3, <1>4, <2>1, <2>2, <2>4, <3>1 DEF TakenInv, LastByte, Last, BodyStart
    <3>3. \A n \in Taken : Accounted(n)'
      <4>1. Accounted(m)'
        BY <2>2, <2>7, <2>11, <3>1 DEF Accounted
      <4>2. ASSUME NEW n \in Taken, n # m
            PROVE  Accounted(n)'
        <5>1. Accounted(n) /\ n \in Messages
          BY <1>4, AccountedIs
        <5>. QED BY <1>1, <2>5, <3>1, <4>2, <5>1 DEF Accounted
      <4>. QED BY <4>1, <4>2
    <3>4. RepliesInv'
      BY <1>1, <3>1 DEF RepliesInv
    <3>. QED BY <1>4, <3>2, <3>3, <3>4, AccountedIsNext
  <2>. QED BY <2>8, <2>9, <2>10, <2>11
<1>. QED BY <1>6, <1>7

LEMMA TakenStep ==
    ASSUME TypeOK, WriterInv, PipeInv, ReaderInv, SuspectInv, ~damaged => Aligned, FifoInv,
           TakenInv, TakenIsAccountedFor, RepliesInv, Next
    PROVE  TakenInv' /\ TakenIsAccountedFor' /\ RepliesInv'
<1>1. damaged => damaged'
  BY DamageStays
<1>2. ASSUME UNCHANGED <<rpc, content, taken, delivered, refused, thrown, replies>>,
             RangeOf(written) \subseteq RangeOf(written)',
             \A m \in Messages : LastByte(m) \in OnTheWay' =>
                LastByte(m) \in OnTheWay \/ m \notin RangeOf(written)
      PROVE  TakenInv' /\ TakenIsAccountedFor' /\ RepliesInv'
  <2>1. \A q \in Readers : \A m \in Messages : Parses(q, m)' <=> Parses(q, m)
    BY <1>2 DEF Parses, Body
  <2>. QED BY <1>1, <1>2, <2>1, TakenSame
<1>3. CASE \E w \in Writers : WriteSymbol(w)
  <2>1. PICK w \in Writers : WriteSymbol(w)
    BY <1>3
  <2>2. UNCHANGED <<rpc, content, taken, delivered, refused, thrown, replies>>
    BY <2>1, WriterFrame DEF WriterMove
  <2>. QED BY <1>2, <2>1, <2>2, FifoWrite
<1>4. CASE \/ CloseStream
           \/ \E w \in Writers : \/ \E m \in Messages : CallWrite(w, m)
                                 \/ LockWrite(w) \/ EndWrite(w) \/ FailWrite(w)
  <2>1. UNCHANGED <<rpc, content, taken, delivered, refused, thrown, replies>>
    BY <1>4, WriterFrame DEF WriterMove
  <2>2. OnTheWay' = OnTheWay /\ written' = written
    BY <1>4, FifoSilent
  <2>3. RangeOf(written)' = RangeOf(written)
    BY <2>2 DEF RangeOf
  <2>. QED BY <1>2, <2>1, <2>2, <2>3
<1>5. ASSUME NEW r \in Readers, ReaderMove(r)
      PROVE  TakenInv' /\ TakenIsAccountedFor' /\ RepliesInv'
  <2>1. CASE UnlockRead(r) /\ Unlocks(r)
    BY <1>5, <2>1, TakenUnlock
  <2>2. CASE ParseContent(r) /\ Leaves(r)
    BY <1>5, <2>2, TakenParse
  <2>3. CASE /\ UNCHANGED <<taken, delivered, refused, thrown, replies>>
             /\ \/ Calls(r) \/ Locks(r) \/ Fails(r) \/ Peeks(r) \/ EndsHeader(r)
                \/ Extends(r) \/ EndsLine(r) \/ EndsLF(r) \/ AddsContent(r)
    <3>1. rpc[r] # "parse" /\ rpc'[r] # "parse"
      BY <2>3 DEF Calls, Locks, Fails, Peeks, EndsHeader, Extends, EndsLine, EndsLF,
                  AddsContent, Become
    <3>2. \A q \in Readers : \A m \in Messages : Parses(q, m)' <=> Parses(q, m)
      BY <1>5, <3>1, ReaderFrame DEF Parses, Body
    <3>3. OnTheWay' \subseteq OnTheWay /\ written' = written
      BY <1>5, FifoInvRead, ReaderFrame
    <3>4. RangeOf(written)' = RangeOf(written)
      BY <3>3 DEF RangeOf
    <3>. QED BY <1>1, <2>3, <3>2, <3>3, <3>4, TakenSame
  <2>. QED BY <1>5, <2>1, <2>2, <2>3, ReaderCases
<1>. QED BY <1>3, <1>4, <1>5, NextIs DEF WriterMove

-----------------------------------------------------------------------------
(* The invariant. *)

LEMMA TypeStep ==
    ASSUME TypeOK, WriterInv, ReaderInv, Next
    PROVE  TypeOK'
<1>1. CASE CloseStream \/ \E w \in Writers : WriterMove(w)
  BY <1>1, WriterTypes
<1>2. ASSUME NEW r \in Readers, ReaderMove(r)
      PROVE  TypeOK'
  <2>1. /\ UNCHANGED <<stream, closed, failures, damaged>>
        /\ UNCHANGED <<m_writeMutex, wpc, sent, message, place, written>>
        /\ \A q \in Readers \ {r} : header'[q] = header[q] /\ content'[q] = content[q]
    BY <1>2, ReaderFrame
  <2>2. \A q \in Readers : Len(content'[q]) <= header'[q].contentLength
    BY <1>2, <2>1, ReaderTypes DEF TypeOK
  <2>. QED BY <1>2, <2>1, <2>2, ReaderTypes DEF TypeOK
<1>. QED BY <1>1, <1>2, NextIs

\* No message, no thread and no symbol is anywhere at the start.
LEMMA InitInv ==
    ASSUME Init
    PROVE  IInv
<1>1. /\ pipe = <<>> /\ written = <<>> /\ taken = <<>> /\ Len(<<>>) = 0
      /\ sent = {} /\ delivered = {} /\ refused = {} /\ thrown = {} /\ replies = 0 /\ damaged = FALSE
      /\ m_writeMutex = None /\ m_readMutex = None /\ failures = 0 /\ closed = FALSE
      /\ \A w \in Writers : wpc[w] = "idle" /\ message[w] = None
      /\ \A r \in Readers : /\ rpc[r] = "idle" /\ header[r] = NoHeader
                            /\ lineData[r] = <<>> /\ content[r] = <<>>
  BY DEF Init
<1>2. None \notin Messages \union Writers \union Readers
  BY MessagesAssumption
<1>3. TypeOK
  <2>1. NoHeader \in Header
    BY DEF NoHeader, Header
  <2>2. MaxFailures \in Nat /\ PipeSize \in Nat /\ Len(<<>>) <= PipeSize
    BY MessagesAssumption
  <2>3. \A r \in Readers : Len(content[r]) <= header[r].contentLength
    BY <1>1 DEF NoHeader
  <2>4. /\ <<>> \in Seq(Symbols) /\ <<>> \in Seq(Messages)
        /\ <<>> \in Seq(Symbols \union {Eof}) /\ <<>> \in Seq(Symbols \union {NUL})
    BY EmptySeq
  <2>5. /\ wpc \in [Writers -> {"idle", "lock", "write"}]
        /\ message \in [Writers -> Messages \union {None}]
        /\ place \in [Writers -> Nat]
    BY DEF Init
  <2>6. /\ rpc \in [Readers -> {"idle", "lock", "field", "line", "lineLF", "endLF", "content",
                                "parse"}]
        /\ header \in [Readers -> Header]
        /\ lineData \in [Readers -> Seq(Symbols \union {Eof})]
        /\ content \in [Readers -> Seq(Symbols \union {NUL})]
    BY <2>1, <2>4 DEF Init
  <2>7. stream \in StreamKinds /\ failures \in 0 .. MaxFailures
    BY <1>1, <2>2 DEF Init
  <2>. QED BY <1>1, <2>2, <2>3, <2>4, <2>5, <2>6, <2>7 DEF TypeOK
<1>4. WriterInv
  BY <1>1, <1>2 DEF WriterInv
<1>5. \A w \in Writers : ~Mid(w)
  BY <1>1 DEF Mid, Writing
<1>6. Coming = {}
  BY <1>1, <1>5 DEF Coming
<1>7. PipeInv
  BY <1>1, <1>5 DEF PipeInv, Chained, Unbroken
<1>8. ReaderInv
  BY <1>1, <1>2 DEF ReaderInv, Holding
<1>9. SuspectInv
  BY <1>1, <1>6 DEF SuspectInv, BadBegin
<1>10. Aligned
  BY <1>1, <1>6 DEF Aligned, Holding
<1>11. RangeOf(<<>>) = {} /\ \A s : ~InContent(s)
  BY <1>1 DEF RangeOf, InContent, Reading
<1>12. Split(0, 0)
  BY <1>1, <1>11 DEF Split
<1>13. FifoInv
  <2>1. \E g, h \in Nat : Split(g, h)
    BY <1>12
  <2>2. OnTheWay = {}
    BY <1>1, <1>11, OnTheWayIs
  <2>. QED BY <1>1, <1>11, <2>1, <2>2 DEF FifoInv
<1>14. TakenInv /\ TakenIsAccountedFor /\ RepliesInv
  <2>1. Taken = {}
    BY <1>1, <1>11 DEF Taken
  <2>2. IsFiniteSet(refused) /\ Cardinality(refused) = 0
    BY <1>1, FS_EmptySet
  <2>3. \A r \in Readers, m \in Messages : ~Parses(r, m)
    BY <1>1 DEF Parses
  <2>. QED BY <1>1, <2>1, <2>2, <2>3 DEF TakenInv, TakenIsAccountedFor, RepliesInv
<1>. QED BY <1>3, <1>4, <1>7, <1>8, <1>9, <1>10, <1>13, <1>14 DEF IInv

LEMMA StutterInv ==
    ASSUME IInv, UNCHANGED vars
    PROVE  IInv'
<1>1. UNCHANGED <<stream, pipe, closed, m_writeMutex, m_readMutex, wpc, sent, message, place,
                  written>>
  BY DEF vars
<1>2. UNCHANGED <<rpc, header, lineData, content, taken, delivered, refused, thrown, replies,
                  failures, damaged>>
  BY DEF vars
<1>3. TypeOK' /\ WriterInv' /\ ReaderInv'
  BY <1>1, <1>2 DEF IInv, TypeOK, WriterInv, ReaderInv
<1>4. /\ Coming' = Coming
      /\ \A w \in Writers : (Mid(w)' <=> Mid(w)) /\ NextPlace(w)' = NextPlace(w)
  BY <1>1 DEF Coming, Mid, NextPlace, Writing
<1>5. PipeInv'
  BY <1>1, <1>2, <1>4 DEF IInv, PipeInv, Chained, Unbroken
<1>6. SuspectInv'
  BY <1>2, <1>4 DEF IInv, SuspectInv, SuspectAt, BadBegin
<1>7. ~damaged' => Aligned'
  <2>1. \A r \in Readers : \A s : InFrame(r, s)' <=> InFrame(r, s)
    BY <1>2 DEF InFrame, Begun, HeaderOf, Last, BodyStart, NoHeader
  <2>2. \A r \in Readers, m \in Messages : HasRead(r, m)' <=> HasRead(r, m)
    BY <1>2 DEF HasRead, Body, HeaderOf
  <2>3. \A r \in Readers : Between(r)' <=> Between(r)
    BY <1>1, <1>2, <2>2 DEF Between, NoHeader
  <2>. QED BY <1>2, <1>4, <2>1, <2>2, <2>3 DEF IInv, Aligned
<1>8. FifoInv' /\ OnTheWay' = OnTheWay
  BY <1>1, <1>2, FifoSame DEF IInv, FifoInv
<1>9. RangeOf(written)' = RangeOf(written)
  BY <1>1 DEF RangeOf
<1>10. \A q \in Readers : \A m \in Messages : Parses(q, m)' <=> Parses(q, m)
  BY <1>2 DEF Parses, Body
<1>11. TakenInv' /\ TakenIsAccountedFor' /\ RepliesInv'
  BY <1>2, <1>8, <1>9, <1>10, TakenSame DEF IInv
<1>. QED BY <1>3, <1>5, <1>6, <1>7, <1>8, <1>11 DEF IInv

LEMMA NextInv ==
    ASSUME IInv, Next
    PROVE  IInv'
<1>1. TypeOK' /\ WriterInv' /\ ReaderInv'
  BY TypeStep, WriterInvStep, ReaderInvStep DEF IInv
<1>2. PipeInv' /\ SuspectInv' /\ FifoInv'
  BY PipeInvStep, SuspectInvStep, FifoInvStep DEF IInv
<1>3. ~damaged' => Aligned'
  BY <1>1, <1>2, AlignedStep DEF IInv
<1>4. TakenInv' /\ TakenIsAccountedFor' /\ RepliesInv'
  BY TakenStep DEF IInv
<1>. QED BY <1>1, <1>2, <1>3, <1>4 DEF IInv

\* The invariant holds in every state.
THEOREM Invariance == Spec => []IInv
<1>1. Init => IInv
  BY InitInv
<1>2. IInv /\ [Next]_vars => IInv'
  BY NextInv, StutterInv
<1>. QED BY <1>1, <1>2, PTL DEF Spec

\* Every variable has its type; in particular the stream is never fuller than its size
\* and a reader never reads more than the Content-Length of its header.
THEOREM TypeCorrect == Spec => []TypeOK
<1>1. IInv => TypeOK
  BY DEF IInv
<1>. QED BY <1>1, Invariance, PTL

\* A message that was taken off the stream is in the hands of one reader, or it was
\* returned, answered with an error, lost with an exception or dropped, as its kind
\* demands: readMessage never returns a message of another content type or one whose body
\* is no JSON-RPC message, and never throws for one whose body does not make the parser
\* throw, not even from a damaged stream.
THEOREM TakenAccounted == Spec => []TakenIsAccountedFor
<1>1. IInv => TakenIsAccountedFor
  BY DEF IInv
<1>. QED BY <1>1, Invariance, PTL

\* As long as no frame is cut short or malformed, the error responses that readMessage
\* writes are those for the messages that it found not to be understood, one for each; a
\* message for which it throws (jsonrpc.cpp:45, 91, 152, json.cpp:323) gets none.
THEOREM RepliesDue == Spec => []RepliesAreDue
<1>1. ASSUME IInv, ~damaged
      PROVE  replies = Cardinality({m \in Taken : Kind[m] = "badBody" /\ ~Parsing(m)})
  <2>1. Taken \subseteq Messages /\ refused \subseteq Taken
    BY <1>1, TakenIs DEF IInv, TakenInv, Taken
  <2>2. \A m \in Messages : Parsing(m) <=> \E r \in Readers : Parses(r, m)
    BY DEF Parsing, Parses
  <2>3. ASSUME NEW m \in refused PROVE m \in Taken /\ Kind[m] = "badBody" /\ ~Parsing(m)
    BY <1>1, <2>1, <2>2 DEF IInv, TakenInv
  <2>4. ASSUME NEW m \in Taken, Kind[m] = "badBody", ~Parsing(m) PROVE m \in refused
    BY <1>1, <2>4 DEF IInv, TakenIsAccountedFor
  <2>5. refused = {m \in Taken : Kind[m] = "badBody" /\ ~Parsing(m)}
    BY <2>3, <2>4
  <2>. QED BY <1>1, <2>5 DEF IInv, RepliesInv
<1>2. IInv => RepliesAreDue
  BY <1>1 DEF RepliesAreDue
<1>. QED BY <1>2, Invariance, PTL

-----------------------------------------------------------------------------
(* The channel that the connection implements. *)

\* A sequence without its first g elements.
Rest(q, g) == SubSeq(q, g + 1, Len(q))

LEMMA RestIs ==
    ASSUME NEW q \in Seq(Messages), NEW g \in Nat, g <= Len(q)
    PROVE  /\ Len(q) \in Nat
           /\ Rest(q, g) \in Seq(Messages) /\ Len(Rest(q, g)) = Len(q) - g
           /\ \A i \in 1 .. Len(q) - g : Rest(q, g)[i] = q[i + g] /\ i + g \in 1 .. Len(q)
<1>1. Len(q) \in Nat /\ \A i \in 1 .. Len(q) : q[i] \in Messages
  BY NotEmpty
<1>2. g + 1 \in Int /\ Len(q) \in Int /\ \A i \in g + 1 .. Len(q) : q[i] \in Messages
  BY <1>1
<1>3. /\ Rest(q, g) \in Seq(Messages)
      /\ Len(Rest(q, g)) = IF g + 1 <= Len(q) THEN Len(q) - (g + 1) + 1 ELSE 0
      /\ \A i \in 1 .. Len(q) - (g + 1) + 1 : Rest(q, g)[i] = q[(g + 1) + i - 1]
  BY <1>2, SubSeqProperties DEF Rest
<1>4. Len(Rest(q, g)) = Len(q) - g
  BY <1>1, <1>3
<1>5. ASSUME NEW i \in 1 .. Len(q) - g
      PROVE  Rest(q, g)[i] = q[i + g] /\ i + g \in 1 .. Len(q)
  <2>1. i \in 1 .. Len(q) - (g + 1) + 1 /\ (g + 1) + i - 1 = i + g
    BY <1>1
  <2>. QED BY <1>1, <1>3, <2>1
<1>. QED BY <1>1, <1>3, <1>4, <1>5

\* When one more is written, when the first one is taken, and when some are lost.
LEMMA RestWritten ==
    ASSUME NEW q \in Seq(Messages), NEW g \in Nat, g <= Len(q), NEW m \in Messages
    PROVE  Rest(Append(q, m), g) = Append(Rest(q, g), m)
<1>1. /\ Append(q, m) \in Seq(Messages) /\ Len(Append(q, m)) = Len(q) + 1 /\ Len(q) \in Nat
      /\ \A i \in 1 .. Len(q) : Append(q, m)[i] = q[i]
      /\ Append(q, m)[Len(q) + 1] = m
  BY Pushed
<1>2. /\ Rest(q, g) \in Seq(Messages) /\ Len(Rest(q, g)) = Len(q) - g
      /\ \A i \in 1 .. Len(q) - g : Rest(q, g)[i] = q[i + g] /\ i + g \in 1 .. Len(q)
  BY RestIs
<1>3. /\ Rest(Append(q, m), g) \in Seq(Messages)
      /\ Len(Rest(Append(q, m), g)) = (Len(q) + 1) - g
      /\ \A i \in 1 .. (Len(q) + 1) - g : Rest(Append(q, m), g)[i] = Append(q, m)[i + g]
  <2>1. g <= Len(Append(q, m))
    BY <1>1
  <2>2. /\ Rest(Append(q, m), g) \in Seq(Messages)
        /\ Len(Rest(Append(q, m), g)) = Len(Append(q, m)) - g
        /\ \A i \in 1 .. Len(Append(q, m)) - g : Rest(Append(q, m), g)[i] = Append(q, m)[i + g]
    BY <1>1, <2>1, RestIs
  <2>. QED BY <1>1, <2>2
<1>4. /\ Append(Rest(q, g), m) \in Seq(Messages)
      /\ Len(Append(Rest(q, g), m)) = (Len(q) - g) + 1
      /\ \A i \in 1 .. Len(q) - g : Append(Rest(q, g), m)[i] = Rest(q, g)[i]
      /\ Append(Rest(q, g), m)[(Len(q) - g) + 1] = m
  BY <1>2, Pushed
<1>5. ASSUME NEW i \in 1 .. (Len(q) + 1) - g
      PROVE  Rest(Append(q, m), g)[i] = Append(Rest(q, g), m)[i]
  <2>1. CASE i \in 1 .. Len(q) - g
    BY <1>1, <1>2, <1>3, <1>4, <2>1
  <2>2. CASE i = (Len(q) - g) + 1
    <3>1. i + g = Len(q) + 1
      BY <1>1, <2>2
    <3>. QED BY <1>1, <1>3, <1>4, <2>2, <3>1
  <2>3. i \in 1 .. Len(q) - g \/ i = (Len(q) - g) + 1
    BY <1>1
  <2>. QED BY <2>1, <2>2, <2>3
<1>6. Len(Rest(Append(q, m), g)) = Len(Append(Rest(q, g), m))
  BY <1>1, <1>3, <1>4
<1>. QED BY <1>3, <1>4, <1>5, <1>6, SeqEqual

LEMMA RestTaken ==
    ASSUME NEW q \in Seq(Messages), NEW g \in Nat, g + 1 <= Len(q)
    PROVE  /\ Rest(q, g) # <<>> /\ Head(Rest(q, g)) = q[g + 1]
           /\ Tail(Rest(q, g)) = Rest(q, g + 1)
<1>1. Len(q) \in Nat /\ g + 1 \in 1 .. Len(q) /\ Len(q) \in g + 1 .. Len(q)
  BY NotEmpty
<1>2. Len(Rest(q, g)) = Len(q) - g /\ Rest(q, g) \in Seq(Messages)
  <2>1. g <= Len(q)
    BY <1>1
  <2>. QED BY <2>1, RestIs
<1>3. Rest(q, g) # <<>>
  BY <1>1, <1>2, NotEmpty
<1>. QED BY <1>1, <1>3, HeadTailOfSubSeq DEF Rest

LEMMA RestLost ==
    ASSUME NEW q \in Seq(Messages), NEW g \in Nat, NEW i \in Nat, g <= i, i <= Len(q)
    PROVE  Rest(q, i) = SubSeq(Rest(q, g), (i - g) + 1, Len(Rest(q, g)))
<1>. DEFINE k == i - g
<1>1. /\ Rest(q, g) \in Seq(Messages) /\ Len(Rest(q, g)) = Len(q) - g /\ Len(q) \in Nat
      /\ \A j \in 1 .. Len(q) - g : Rest(q, g)[j] = q[j + g]
  <2>1. Len(q) \in Nat /\ g <= Len(q)
    BY NotEmpty
  <2>. QED BY <2>1, RestIs
<1>2. k \in Nat /\ k <= Len(Rest(q, g)) /\ k + g = i
  BY <1>1
<1>3. /\ Rest(Rest(q, g), k) \in Seq(Messages)
      /\ Len(Rest(Rest(q, g), k)) = (Len(q) - g) - k
      /\ \A j \in 1 .. (Len(q) - g) - k : Rest(Rest(q, g), k)[j] = Rest(q, g)[j + k]
  <2>1. /\ Rest(Rest(q, g), k) \in Seq(Messages)
        /\ Len(Rest(Rest(q, g), k)) = Len(Rest(q, g)) - k
        /\ \A j \in 1 .. Len(Rest(q, g)) - k : Rest(Rest(q, g), k)[j] = Rest(q, g)[j + k]
    <3>. HIDE DEF k
    <3>. QED BY <1>1, <1>2, RestIs
  <2>. QED BY <1>1, <2>1
<1>4. /\ Rest(q, i) \in Seq(Messages) /\ Len(Rest(q, i)) = Len(q) - i
      /\ \A j \in 1 .. Len(q) - i : Rest(q, i)[j] = q[j + i]
  BY RestIs
<1>5. ASSUME NEW j \in 1 .. Len(q) - i
      PROVE  Rest(q, i)[j] = Rest(Rest(q, g), k)[j]
  <2>1. j \in 1 .. (Len(q) - g) - k /\ j + k \in 1 .. Len(q) - g /\ (j + k) + g = j + i
    BY <1>1, <1>2
  <2>. QED BY <1>1, <1>3, <1>4, <2>1
<1>6. Len(Rest(q, i)) = Len(Rest(Rest(q, g), k))
  <2>1. (Len(q) - g) - k = Len(q) - i
    BY <1>1
  <2>. QED BY <1>3, <1>4, <2>1
<1>7. Rest(q, i) = Rest(Rest(q, g), k)
  BY <1>3, <1>4, <1>5, <1>6, SeqEqual
<1>. QED BY <1>7 DEF Rest

\* What is left of the messages q when the last bytes of all but the first g are in s.
LEMMA RestOf ==
    ASSUME NEW q \in Seq(Messages), NEW s, NEW g \in Nat, g <= Len(q),
           \A a \in 1 .. Len(q) : LastByte(q[a]) \in s <=> a > g
    PROVE  SubSeq(q, Cardinality({i \in DOMAIN q : LastByte(q[i]) \notin s}) + 1, Len(q))
              = Rest(q, g)
<1>1. Len(q) \in Nat /\ DOMAIN q = 1 .. Len(q)
  BY NotEmpty
<1>2. {i \in DOMAIN q : LastByte(q[i]) \notin s} = 1 .. g
  BY <1>1
<1>3. Cardinality(1 .. g) = g
  BY FS_Interval
<1>. QED BY <1>2, <1>3 DEF Rest

LEMMA QueueIs ==
    ASSUME TypeOK, NEW g \in Nat, NEW h \in Nat, Split(g, h)
    PROVE  g <= Len(written) /\ Queue = Rest(written, g)
<1>1. written \in Seq(Messages)
  BY DEF TypeOK
<1>2. /\ g <= h /\ h <= Len(written) /\ Len(written) \in Nat
      /\ \A a \in 1 .. Len(written) : LastByte(written[a]) \in OnTheWay <=> a > g
  BY WrittenIs, OnTheWayIs DEF Split
<1>3. g <= Len(written)
  BY <1>2
<1>. QED BY <1>1, <1>2, <1>3, RestOf DEF Queue, Gone

LEMMA QueueIsNext ==
    ASSUME TypeOK', NEW g \in Nat, NEW h \in Nat, Split(g, h)'
    PROVE  g <= Len(written') /\ Queue' = Rest(written', g)
<1>1. written' \in Seq(Messages)
  BY DEF TypeOK
<1>2. Len(written') \in Nat
  BY <1>1, NotEmpty
<1>3. \A s : s \in OnTheWay' <=> s \in RangeOf(pipe)' \/ InContent(s)'
  BY DEF OnTheWay, InContent
<1>4. /\ g <= h /\ h <= Len(written')
      /\ \A a \in 1 .. Len(written') : LastByte(written'[a]) \in OnTheWay' <=> a > g
  BY <1>2, <1>3 DEF Split, LastByte, Last, BodyStart
<1>5. g <= Len(written')
  BY <1>2, <1>4
<1>. QED BY <1>1, <1>4, <1>5, RestOf DEF Queue, Gone, LastByte, Last, BodyStart

\* A writer puts a message on the channel with its last byte, or damages the channel,
\* or does nothing to it.
LEMMA WriterSimulation ==
    ASSUME IInv, IInv', Next, CloseStream \/ \E w \in Writers : WriterMove(w)
    PROVE  [Channel!Next]_(Channel!vars)
<1>. USE DEF IInv
<1>1. PICK g \in Nat, h \in Nat : Split(g, h)
  BY DEF FifoInv
<1>2. Queue = Rest(written, g) /\ g <= Len(written) /\ written \in Seq(Messages)
  BY <1>1, QueueIs DEF TypeOK
<1>3. taken' = taken
  BY WriterFrame
<1>4. damaged' = damaged \/ damaged' = TRUE
  BY DamageStays DEF TypeOK
<1>5. ASSUME Split(g, h)', written' = written
      PROVE  [Channel!Next]_(Channel!vars)
  <2>1. Queue' = Queue
    BY <1>2, <1>5, QueueIsNext
  <2>. QED BY <1>3, <1>4, <2>1 DEF Channel!Next, Channel!Damage, Channel!vars
<1>6. CASE \E w \in Writers : WriteSymbol(w)
  <2>1. PICK w \in Writers : WriteSymbol(w)
    BY <1>6
  <2>2. /\ Split(g, h)'
        /\ message[w] \in Messages /\ message[w] \notin RangeOf(written)
        /\ written' = IF place[w] = Last(message[w]) THEN Append(written, message[w])
                                                     ELSE written
    BY <1>1, <2>1, FifoWrite
  <2>3. CASE place[w] # Last(message[w])
    BY <1>5, <2>2, <2>3
  <2>4. CASE place[w] = Last(message[w])
    <3>1. Queue' = Append(Queue, message[w])
      <4>1. Queue' = Rest(written', g)
        BY <2>2, QueueIsNext
      <4>. QED BY <1>2, <2>2, <2>4, <4>1, RestWritten
    <3>2. message[w] \in Malformed => damaged
      <4>1. wpc[w] = "write" /\ place[w] > First(message[w])
        BY <2>1, <2>2, <2>4, Places DEF WriteSymbol, Writing
      <4>. QED BY <2>1, <4>1 DEF WriterInv
    <3>3. damaged' = damaged
      BY <2>1, <3>2 DEF WriteSymbol, TypeOK
    <3>4. message[w] \notin Channel!Used
      <4>1. \A i \in DOMAIN Queue : Queue[i] \in RangeOf(written)
        <5>1. /\ Len(Queue) = Len(written) - g /\ Queue \in Seq(Messages)
              /\ \A i \in 1 .. Len(written) - g : /\ Queue[i] = written[i + g]
                                                  /\ i + g \in 1 .. Len(written)
          BY <1>2, RestIs
        <5>. QED BY <5>1, NotEmpty, WrittenIs
      <4>2. Taken \subseteq RangeOf(written)
        BY DEF TakenInv
      <4>. QED BY <2>2, <4>1, <4>2 DEF Channel!Used, Taken, RangeOf
    <3>. QED BY <1>3, <2>2, <3>1, <3>3, <3>4 DEF Channel!Next, Channel!Send
  <2>. QED BY <2>3, <2>4
<1>7. CASE \/ CloseStream
           \/ \E w \in Writers : \/ \E m \in Messages : CallWrite(w, m)
                                 \/ LockWrite(w) \/ EndWrite(w) \/ FailWrite(w)
  BY <1>1, <1>5, <1>7, FifoSilent
<1>. QED BY <1>6, <1>7 DEF WriterMove

\* A reader takes the oldest message when it has read its last byte and unlocks the
\* mutex; from a damaged stream it may lose the oldest ones.
LEMMA ReaderSimulation ==
    ASSUME IInv, IInv', Next, NEW r \in Readers, ReaderMove(r)
    PROVE  [Channel!Next]_(Channel!vars)
<1>. USE DEF IInv
<1>1. PICK g \in Nat, h \in Nat : Split(g, h)
  BY DEF FifoInv
<1>2. Queue = Rest(written, g) /\ g <= Len(written) /\ written \in Seq(Messages)
  BY <1>1, QueueIs DEF TypeOK
<1>3. written' = written /\ damaged' = damaged
  BY ReaderFrame
<1>4. PICK i \in Nat, k \in Nat : /\ Split(i, k)'
                                  /\ g <= i
                                  /\ Unlocks(r) => i = h
                                  /\ ~Unlocks(r) /\ ~damaged => i = g
  BY <1>1, FifoRead
<1>5. Queue' = Rest(written, i) /\ i <= Len(written)
  BY <1>3, <1>4, QueueIsNext
<1>6. ASSUME taken' = taken, i = g \/ damaged
      PROVE  [Channel!Next]_(Channel!vars)
  <2>1. CASE i = g
    BY <1>2, <1>3, <1>5, <1>6, <2>1 DEF Channel!vars
  <2>2. CASE i # g /\ damaged
    <3>1. Queue' = SubSeq(Queue, (i - g) + 1, Len(Queue))
      BY <1>2, <1>4, <1>5, RestLost
    <3>2. i - g \in 1 .. Len(Queue)
      <4>1. Len(Queue) = Len(written) - g /\ Len(written) \in Nat
        BY <1>2, RestIs
      <4>. QED BY <1>4, <1>5, <2>2, <4>1
    <3>. QED BY <1>3, <1>6, <2>2, <3>1, <3>2 DEF Channel!Next, Channel!Lose
  <2>. QED BY <1>6, <2>1, <2>2
<1>7. CASE ~Unlocks(r)
  <2>1. taken' = taken
    BY <1>7, ReaderCases DEF ParseContent
  <2>. QED BY <1>4, <1>6, <1>7, <2>1
<1>8. CASE UnlockRead(r) /\ Unlocks(r) /\ \A m \in Messages : content'[r] # Body(m)
  <2>1. taken' = taken
    BY <1>8 DEF UnlockRead, WholeBody
  <2>2. damaged
    <3>1. rpc'[r] = "parse"
      BY <1>8 DEF Unlocks, Become
    <3>2. ~damaged' => \E m \in Messages : HasRead(r, m)'
      BY <3>1 DEF Aligned
    <3>. QED BY <1>3, <1>8, <3>2 DEF HasRead, Body
  <2>. QED BY <1>6, <2>1, <2>2
<1>9. ASSUME NEW m \in Messages, content'[r] = Body(m), UnlockRead(r), Unlocks(r)
      PROVE  [Channel!Next]_(Channel!vars)
  <2>1. /\ InContent(LastByte(m)) /\ \A n \in Messages : InContent(LastByte(n)) => n = m
        /\ m \in RangeOf(written) /\ taken' = Append(taken, m)
    BY <1>9, TakeBody
  <2>2. PICK a \in 1 .. Len(written) : written[a] = m
    BY <2>1, WrittenIs
  <2>3. /\ Len(written) \in Nat /\ h <= Len(written)
        /\ \A b \in 1 .. Len(written) :
              /\ written[b] \in Messages
              /\ InContent(LastByte(written[b])) <=> g < b /\ b <= h
    BY <1>1, WrittenIs DEF Split
  <2>4. g < a /\ a <= h
    BY <2>1, <2>2, <2>3
  <2>5. \A b \in 1 .. Len(written) : g < b /\ b <= h => b = a
    BY <2>1, <2>2, <2>3 DEF FifoInv
  <2>6. h = g + 1 /\ a = g + 1
    <3>1. g + 1 \in 1 .. Len(written) /\ h \in 1 .. Len(written) /\ g < h /\ g + 1 <= h
      BY <2>3, <2>4
    <3>2. g + 1 = a /\ h = a
      BY <2>5, <3>1
    <3>. QED BY <3>2
  <2>7. Queue # <<>> /\ Head(Queue) = m /\ Queue' = Tail(Queue)
    <3>1. i = g + 1 /\ g + 1 <= Len(written)
      BY <1>4, <1>9, <2>3, <2>6
    <3>. QED BY <1>2, <1>5, <2>2, <2>6, <3>1, RestTaken
  <2>. QED BY <1>3, <2>1, <2>7 DEF Channel!Next, Channel!Take
<1>. QED BY <1>7, <1>8, <1>9, ReaderCases DEF Unlocks, Leaves, Calls, Locks, Fails, Peeks,
            EndsHeader, Extends, EndsLine, EndsLF, AddsContent, Become

\* The connection implements the channel: messages are taken off the stream whole, once
\* each and in the order in which their last bytes were written, whatever the threads
\* that call writeMessage and readMessage; only a stream that was damaged loses any.
THEOREM Refinement == Spec => ImplementsChannel
<1>1. Init => Channel!Init
  <2>1. SUFFICES ASSUME Init
                 PROVE  Channel!Init
    OBVIOUS
  <2>2. written = <<>> /\ taken = <<>> /\ damaged = FALSE
    BY <2>1 DEF Init
  <2>3. Queue = <<>>
    <3>1. Cardinality(Gone) + 1 \in Int /\ Len(written) = 0 /\ 0 < Cardinality(Gone) + 1
      <4>1. Gone = {}
        BY <2>2 DEF Gone
      <4>. QED BY <2>2, <4>1, FS_EmptySet
    <3>. QED BY <3>1, SubSeqEmpty DEF Queue
  <2>. QED BY <2>2, <2>3 DEF Channel!Init
<1>2. IInv /\ IInv' /\ [Next]_vars => [Channel!Next]_(Channel!vars)
  <2>1. ASSUME IInv, IInv', Next
        PROVE  [Channel!Next]_(Channel!vars)
    BY <2>1, NextIs, WriterSimulation, ReaderSimulation
  <2>2. ASSUME UNCHANGED vars
        PROVE  UNCHANGED Channel!vars
    <3>1. UNCHANGED <<pipe, written, rpc, content, taken, damaged>>
      BY <2>2 DEF vars
    <3>. QED BY <3>1 DEF Channel!vars, Queue, Gone, OnTheWay, Reading, RangeOf, LastByte, Last,
                         BodyStart
  <2>. QED BY <2>1, <2>2
<1>. QED BY <1>1, <1>2, Invariance, PTL DEF Spec, ImplementsChannel, Channel!Spec
=============================================================================
