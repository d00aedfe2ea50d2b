----------------------- MODULE IncomingRequestsProofs -----------------------
(***************************************************************************)
(* Proofs about IncomingRequests, for any number of loops and workers and  *)
(* any packets, messages and handlers that satisfy its assumptions.        *)
(***************************************************************************)
EXTENDS IncomingRequests, FiniteSetTheorems, SequenceTheorems, TLAPS

Unprocessed == UNION {RangeOf(todo[l]) : l \in Loops}

InPool == RangeOf(pending) \union running

IdsIn(s) == {s[i].id : i \in DOMAIN s}

\* The ids that are in a response, not yet written, written, or lost with its write.
Collected == UNION {IdsIn(responses[l]) : l \in Loops}
Written == UNION {IdsIn(output[i]) : i \in DOMAIN output}
Responded == Collected \union Written \union failed

Distinct(s) == \A i, j \in DOMAIN s : s[i] = s[j] => i = j

DistinctIds(s) == \A i, j \in DOMAIN s : s[i].id = s[j].id /\ s[i].id \in Ids => i = j

\* A method has the handler that was registered for it or none, and a loop only calls
\* one that is there.
HandlerInv ==
    /\ \A method \in Methods :
            m_requestHandlersByMethod[method] \in {Registered[method], NoHandler}
    /\ \A l \in Loops : lpc[l] \in {"call", "get"} => HandlerOf(Head(todo[l])) # NoHandler

\* A loop has messages to process exactly while it processes them.
LoopInv ==
    /\ \A l \in Loops : todo[l] # <<>> <=> lpc[l] \in {"dispatch", "call", "get"}
    /\ \A l \in Loops : lpc[l] = "read" => responses[l] = <<>>

\* A message is at one place: with one loop, once, or in the queue of the pool, once,
\* or with a worker, or its task is finished.
PlaceInv ==
    /\ \A l \in Loops : Distinct(todo[l])
    /\ \A l, k \in Loops : l # k => RangeOf(todo[l]) \intersect RangeOf(todo[k]) = {}
    /\ Unprocessed \intersect (InPool \union finished) = {}
    /\ Distinct(pending)
    /\ RangeOf(pending) \intersect running = {}
    /\ Unprocessed \union InPool \union finished \subseteq Received

\* There is one response with an id, in the hands of one loop or written; its request
\* has been received and is not to be processed any more, also when the write failed.
ResponseInv ==
    /\ \A l \in Loops : DistinctIds(responses[l])
    /\ \A l, k \in Loops : l # k =>
            IdsIn(responses[l]) \intersect IdsIn(responses[k]) \intersect Ids = {}
    /\ \A l \in Loops : \A i \in DOMAIN output :
            IdsIn(responses[l]) \intersect IdsIn(output[i]) \intersect Ids = {}
    /\ \A i \in DOMAIN output : DistinctIds(output[i])
    /\ \A i, k \in DOMAIN output : i # k =>
            IdsIn(output[i]) \intersect IdsIn(output[k]) \intersect Ids = {}
    /\ \A m \in Unprocessed \union InPool : IdOf[m] \in Ids => IdOf[m] \notin Responded
    /\ \A id \in Responded \intersect Ids : \E m \in Received : IdOf[m] = id

\* A task has the id of its request, responds if that is due, and is not of a batch.
JobInv ==
    /\ \A m \in InPool : jobId[m] = CurrentIdOf(m)
    /\ \A m \in InPool : m \in Owed => jobResponds[m]
    /\ \A m \in InPool : \A p \in received : IsBatch[p] => m \notin RangeOf(Content[p])

\* Loop l works on packet p: what is left of it is to be processed, its responses are
\* those to what has been processed and, if p is a batch, all that are due.
WorksOn(l, p) ==
    /\ allowAsync[l] = ~IsBatch[p]
    /\ RangeOf(todo[l]) \subseteq RangeOf(Content[p])
    /\ IdsIn(responses[l]) \intersect Ids \subseteq {IdOf[m] : m \in RangeOf(Content[p])}
    /\ IsBatch[p] => \A m \in RangeOf(Content[p]) \intersect Owed :
            m \in RangeOf(todo[l]) \/ IdOf[m] \in IdsIn(responses[l])

PacketInv == \A l \in Loops : lpc[l] # "read" => \E p \in received : WorksOn(l, p)

\* A request that was received is to be processed, or its task is to be executed, or
\* there is or was a response to it, or an exception has ended its packet.
OwedInv ==
    \A m \in Received \intersect Owed :
        m \in Unprocessed \union InPool \/ IdOf[m] \in Responded \/ Aborted(m)

\* The destructor runs after the loops, and ends after the pool.
DestructorInv ==
    /\ destructor \in {"waits", "done"} => \A l \in Loops : lpc[l] = "read"
    /\ destructor = "waits" => ~open
    /\ ~open => destructor \in {"waits", "terminated"}
    /\ destructor = "done" => pending = <<>> /\ running = {}

IInv ==
    /\ TypeOK /\ IsFiniteSet(running)
    /\ HandlerInv
    /\ LoopInv
    /\ CurrentIdIsOwn
    /\ PlaceInv
    /\ ResponseInv
    /\ JobInv
    /\ PacketInv
    /\ OwedInv
    /\ DestructorInv
    /\ BatchAnsweredWhole

-----------------------------------------------------------------------------
(* Sequences. *)

\* The first element of a sequence without repetitions is not in the rest.
LEMMA TailOf ==
    ASSUME NEW S, NEW s \in Seq(S), s # <<>>, Distinct(s)
    PROVE  /\ Head(s) \in S /\ Tail(s) \in Seq(S)
           /\ RangeOf(s) = {Head(s)} \union RangeOf(Tail(s))
           /\ Head(s) \notin RangeOf(Tail(s))
           /\ Distinct(Tail(s))
<1>1. /\ Len(s) \in Nat \ {0} /\ DOMAIN s = 1 .. Len(s)
      /\ Head(s) = s[1] /\ Head(s) \in S
      /\ Tail(s) \in Seq(S)
      /\ DOMAIN Tail(s) = 1 .. (Len(s) - 1)
      /\ \A i \in 1 .. (Len(s) - 1) : Tail(s)[i] = s[i + 1]
  BY HeadTailProperties, EmptySeq, LenProperties
<1>2. \A i \in 2 .. Len(s) : s[i] = Tail(s)[i - 1] /\ i - 1 \in DOMAIN Tail(s)
  BY <1>1
<1>3. ASSUME NEW i \in DOMAIN s PROVE s[i] \in {Head(s)} \union RangeOf(Tail(s))
  <2>1. CASE i = 1
    BY <2>1, <1>1
  <2>2. CASE i \in 2 .. Len(s)
    BY <2>2, <1>2 DEF RangeOf
  <2>. QED BY <2>1, <2>2, <1>1
<1>4. RangeOf(s) = {Head(s)} \union RangeOf(Tail(s))
  BY <1>1, <1>3 DEF RangeOf
<1>5. Head(s) \notin RangeOf(Tail(s))
  BY <1>1 DEF RangeOf, Distinct
<1>6. Distinct(Tail(s))
  BY <1>1 DEF Distinct
<1>. QED BY <1>1, <1>4, <1>5, <1>6

\* What a sequence contains with one more element.
LEMMA AppendTo ==
    ASSUME NEW S, NEW s \in Seq(S), NEW e \in S
    PROVE  /\ Append(s, e) \in Seq(S)
           /\ RangeOf(Append(s, e)) = RangeOf(s) \union {e}
           /\ Distinct(s) /\ e \notin RangeOf(s) => Distinct(Append(s, e))
<1>1. /\ Len(s) \in Nat /\ DOMAIN s = 1 .. Len(s)
      /\ Append(s, e) \in Seq(S)
      /\ DOMAIN Append(s, e) = 1 .. (Len(s) + 1)
      /\ \A i \in 1 .. Len(s) : Append(s, e)[i] = s[i]
      /\ Append(s, e)[Len(s) + 1] = e
  BY AppendProperties, LenProperties
<1>2. RangeOf(Append(s, e)) = RangeOf(s) \union {e}
  <2>1. ASSUME NEW i \in 1 .. (Len(s) + 1) PROVE Append(s, e)[i] \in RangeOf(s) \union {e}
    BY <1>1 DEF RangeOf
  <2>2. ASSUME NEW x \in RangeOf(s) \union {e} PROVE \E i \in 1 .. (Len(s) + 1) : Append(s, e)[i] = x
    <3>1. CASE x = e
      BY <3>1, <1>1
    <3>2. CASE x \in RangeOf(s)
      BY <3>2, <1>1 DEF RangeOf
    <3>. QED BY <3>1, <3>2
  <2>. QED BY <2>1, <2>2, <1>1 DEF RangeOf
<1>3. ASSUME Distinct(s), e \notin RangeOf(s) PROVE Distinct(Append(s, e))
  BY <1>1, <1>3 DEF Distinct, RangeOf
<1>. QED BY <1>1, <1>2, <1>3

\* The ids in a sequence of responses with one more of them.
LEMMA ResponseAdded ==
    ASSUME NEW s \in Seq(Response), NEW r \in Response
    PROVE  /\ s \o <<r>> \in Seq(Response)
           /\ IdsIn(s \o <<r>>) = IdsIn(s) \union {r.id}
           /\ DistinctIds(s) /\ r.id \notin IdsIn(s) \intersect Ids => DistinctIds(s \o <<r>>)
<1>. DEFINE t == s \o <<r>>
<1>1. /\ Len(s) \in Nat /\ DOMAIN s = 1 .. Len(s)
      /\ t \in Seq(Response)
      /\ DOMAIN t = 1 .. (Len(s) + 1)
      /\ \A i \in 1 .. Len(s) : t[i] = s[i]
      /\ t[Len(s) + 1] = r
  <2>1. t = Append(s, r)
    BY AppendIsConcat
  <2>. QED BY <2>1, AppendProperties, LenProperties
<1>. HIDE DEF t
<1>2. IdsIn(t) = IdsIn(s) \union {r.id}
  <2>1. ASSUME NEW i \in 1 .. (Len(s) + 1) PROVE t[i].id \in IdsIn(s) \union {r.id}
    BY <1>1 DEF IdsIn
  <2>2. ASSUME NEW x \in IdsIn(s) \union {r.id} PROVE \E i \in 1 .. (Len(s) + 1) : t[i].id = x
    <3>1. CASE x = r.id
      BY <3>1, <1>1
    <3>2. CASE x \in IdsIn(s)
      BY <3>2, <1>1 DEF IdsIn
    <3>. QED BY <3>1, <3>2
  <2>. QED BY <2>1, <2>2, <1>1 DEF IdsIn
<1>3. ASSUME DistinctIds(s), r.id \notin IdsIn(s) \intersect Ids PROVE DistinctIds(t)
  BY <1>1, <1>3 DEF DistinctIds, IdsIn
<1>. QED BY <1>1, <1>2, <1>3 DEF t

\* No response at all.
LEMMA NoResponse ==
    /\ <<>> \in Seq(Response)
    /\ IdsIn(<<>>) = {}
    /\ DistinctIds(<<>>)
    /\ \A s \in Seq(Response) : s \o <<>> = s
BY ConcatEmptySeq DEF IdsIn, DistinctIds

-----------------------------------------------------------------------------
(* Initial states, and what the steps have in common. *)

\* Nothing has been received.
LEMMA InitInv == Init => IInv
<1>. SUFFICES ASSUME Init PROVE IInv
  OBVIOUS
<1>1. IsFiniteSet(running) /\ Cardinality(running) = 0
  BY FS_EmptySet DEF Init, Pool!Init
<1>2. TypeOK
  BY <1>1, HandlersAssumption, MessagesAssumption DEF Init, Pool!Init, TypeOK
<1>3. HandlerInv /\ LoopInv /\ CurrentIdIsOwn
  BY DEF Init, HandlerInv, LoopInv, CurrentIdIsOwn
<1>4. Unprocessed = {} /\ InPool = {} /\ finished = {} /\ Received = {} /\ Responded = {}
  BY DEF Init, Pool!Init, Unprocessed, InPool, Received, Responded, Collected, Written, RangeOf,
     IdsIn
<1>5. PlaceInv
  BY <1>4 DEF Init, Pool!Init, PlaceInv, Distinct, RangeOf
<1>6. ResponseInv
  BY <1>4 DEF Init, ResponseInv, DistinctIds, IdsIn
<1>7. JobInv /\ PacketInv /\ OwedInv
  BY <1>4 DEF Init, JobInv, PacketInv, OwedInv
<1>8. DestructorInv /\ BatchAnsweredWhole
  BY DEF Init, Pool!Init, DestructorInv, BatchAnsweredWhole
<1>. QED BY <1>1, <1>2, <1>3, <1>5, <1>6, <1>7, <1>8 DEF IInv

\* A step that leaves the messages and the responses where they are keeps what is said
\* about them.
LEMMA SamePlaces ==
    ASSUME IInv,
           UNCHANGED <<received, todo, allowAsync, responses, output, failed, thrown, jobVars,
                       pending, running, finished>>
    PROVE  /\ PlaceInv' /\ ResponseInv' /\ JobInv' /\ OwedInv' /\ BatchAnsweredWhole'
           /\ \A l \in Loops : \A p \in received : WorksOn(l, p)' <=> WorksOn(l, p)
<1>1. /\ Unprocessed' = Unprocessed /\ InPool' = InPool
      /\ Responded' = Responded /\ Received' = Received
  BY DEF Unprocessed, InPool, Responded, Collected, Written, Received
<1>2. PlaceInv'
  BY <1>1 DEF IInv, PlaceInv
<1>3. ResponseInv'
  BY <1>1 DEF IInv, ResponseInv
<1>4. JobInv'
  BY <1>1 DEF IInv, JobInv, jobVars
<1>5. OwedInv' /\ BatchAnsweredWhole'
  BY <1>1 DEF IInv, OwedInv, Aborted, BatchAnsweredWhole
<1>6. \A l \in Loops : \A p \in received : WorksOn(l, p)' <=> WorksOn(l, p)
  BY DEF WorksOn
<1>. QED BY <1>2, <1>3, <1>4, <1>5, <1>6

\* The message that a loop processes.
LEMMA CurrentMessage ==
    ASSUME IInv, NEW l \in Loops, lpc[l] \in {"dispatch", "call", "get"}
    PROVE  /\ todo[l] # <<>>
           /\ Head(todo[l]) \in Messages
           /\ Head(todo[l]) \in RangeOf(todo[l])
           /\ RangeOf(Tail(todo[l])) = RangeOf(todo[l]) \ {Head(todo[l])}
           /\ Distinct(Tail(todo[l]))
           /\ Tail(todo[l]) \in Seq(Messages)
           /\ Head(todo[l]) \in Unprocessed
           /\ Head(todo[l]) \in Received
           /\ MethodOf[Head(todo[l])] \in Methods
           /\ CurrentIdOf(Head(todo[l])) \in Ids \union {Null}
           /\ CurrentIdOf(Head(todo[l])) \in Ids => CurrentIdOf(Head(todo[l])) = IdOf[Head(todo[l])]
           /\ IdOf[Head(todo[l])] \in Ids => CurrentIdOf(Head(todo[l])) = IdOf[Head(todo[l])]
<1>1. todo[l] \in Seq(Messages) /\ todo[l] # <<>> /\ Distinct(todo[l])
  BY DEF IInv, TypeOK, LoopInv, PlaceInv
<1>2. /\ Head(todo[l]) \in Messages
      /\ Head(todo[l]) \in RangeOf(todo[l])
      /\ RangeOf(Tail(todo[l])) = RangeOf(todo[l]) \ {Head(todo[l])}
      /\ Distinct(Tail(todo[l]))
      /\ Tail(todo[l]) \in Seq(Messages)
  BY <1>1, TailOf
<1>3. Head(todo[l]) \in Unprocessed
  BY <1>2 DEF Unprocessed
<1>4. Head(todo[l]) \in Received
  BY <1>3 DEF IInv, PlaceInv
<1>. QED BY <1>1, <1>2, <1>3, <1>4, MessagesAssumption, IdsAssumption DEF CurrentIdOf

\* What has been ended by an exception stays so.
LEMMA AbortedStays ==
    ASSUME NEW m, Aborted(m), received \subseteq received',
           \A l \in Loops : thrown[l] \subseteq thrown'[l]
    PROVE  Aborted(m)'
<1>1. PICK l \in Loops : \E n \in thrown[l] : \E p \in received : {m, n} \subseteq RangeOf(Content[p])
  BY DEF Aborted
<1>2. PICK n \in thrown[l] : \E p \in received : {m, n} \subseteq RangeOf(Content[p])
  BY <1>1
<1>. QED BY <1>2 DEF Aborted, RangeOf

\* After the message the current id is reset, unless no handler was called.
IdAfter(l) ==
    \/ t_currentRequestId' = [t_currentRequestId EXCEPT ![l] = Absent]
    \/ lpc[l] = "dispatch" /\ UNCHANGED t_currentRequestId

\* processRequest returns no response or one with the id of the message.
LEMMA EndRequestEffect ==
    ASSUME IInv, NEW l \in Loops, lpc[l] \in {"dispatch", "call", "get"},
           NEW resp,
           resp = <<>> \/ \E r \in Response : resp = <<r>> /\ r.id = CurrentIdOf(Head(todo[l])),
           EndRequest(l, resp), IdAfter(l), UNCHANGED thrown
    PROVE  /\ responses' \in [Loops -> Seq(Response)]
           /\ todo' \in [Loops -> Seq(Messages)]
           /\ lpc' \in [Loops -> {"read", "dispatch", "call", "get", "write"}]
           /\ t_currentRequestId' \in [Loops -> Ids \union {Null, Absent}]
           /\ LoopInv' /\ CurrentIdIsOwn'
           /\ lpc'[l] \in {"read", "dispatch", "write"}
           /\ \A k \in Loops \ {l} :
                todo'[k] = todo[k] /\ responses'[k] = responses[k] /\ lpc'[k] = lpc[k]
           /\ RangeOf(todo'[l]) = RangeOf(todo[l]) \ {Head(todo[l])}
           /\ Distinct(todo'[l])
           /\ Unprocessed' = Unprocessed \ {Head(todo[l])}
           /\ IdsIn(responses'[l]) = IdsIn(responses[l]) \union IdsIn(resp)
           /\ IdsIn(resp) = IF resp = <<>> THEN {} ELSE {CurrentIdOf(Head(todo[l]))}
           /\ DistinctIds(responses'[l])
<1>. DEFINE m == Head(todo[l])
<1>1. /\ m \in Unprocessed
      /\ RangeOf(Tail(todo[l])) = RangeOf(todo[l]) \ {m}
      /\ Distinct(Tail(todo[l]))
      /\ Tail(todo[l]) \in Seq(Messages)
      /\ CurrentIdOf(m) \in Ids => CurrentIdOf(m) = IdOf[m]
  BY CurrentMessage
<1>2. TypeOK
  BY DEF IInv
<1>3. todo' = [todo EXCEPT ![l] = Tail(todo[l])] /\ todo' \in [Loops -> Seq(Messages)]
  BY <1>1, <1>2 DEF EndRequest, TypeOK
<1>4. responses[l] \in Seq(Response)
  BY <1>2 DEF TypeOK
<1>5. /\ responses[l] \o resp \in Seq(Response)
      /\ IdsIn(responses[l] \o resp) = IdsIn(responses[l]) \union IdsIn(resp)
      /\ IdsIn(resp) = IF resp = <<>> THEN {} ELSE {CurrentIdOf(m)}
      /\ DistinctIds(responses[l] \o resp)
  <2>1. DistinctIds(responses[l])
    BY DEF IInv, ResponseInv
  <2>2. CASE resp = <<>>
    BY <2>1, <2>2, <1>4, NoResponse
  <2>3. ASSUME NEW r \in Response, resp = <<r>>, r.id = CurrentIdOf(m)
        PROVE  <1>5
    <3>1. r.id \notin IdsIn(responses[l]) \intersect Ids
      BY <1>1, <2>3 DEF IInv, ResponseInv, Responded, Collected
    <3>2. /\ responses[l] \o <<r>> \in Seq(Response)
          /\ IdsIn(responses[l] \o <<r>>) = IdsIn(responses[l]) \union {r.id}
          /\ DistinctIds(responses[l] \o <<r>>)
      BY <3>1, <2>1, <1>4, ResponseAdded
    <3>3. IdsIn(resp) = {r.id} /\ resp # <<>>
      BY <2>3 DEF IdsIn
    <3>. QED BY <2>3, <3>2, <3>3
  <2>. QED BY <2>2, <2>3
<1>6. responses' = [responses EXCEPT ![l] = responses[l] \o resp]
      /\ responses' \in [Loops -> Seq(Response)]
  BY <1>2, <1>5 DEF EndRequest, TypeOK
<1>7. Unprocessed' = Unprocessed \ {m}
  <2>1. \A k \in Loops \ {l} : m \notin RangeOf(todo[k])
    BY CurrentMessage DEF IInv, PlaceInv
  <2>2. \A k \in Loops : RangeOf(todo'[k]) = RangeOf(todo[k]) \ {m}
    BY <2>1, <1>1, <1>2, <1>3 DEF TypeOK
  <2>3. \A x : x \in Unprocessed <=> \E k \in Loops : x \in RangeOf(todo[k])
    BY DEF Unprocessed
  <2>4. \A x : x \in Unprocessed' <=> \E k \in Loops : x \in RangeOf(todo'[k])
    BY DEF Unprocessed, RangeOf
  <2>5. ASSUME NEW x \in Unprocessed' PROVE x \in Unprocessed \ {m}
    <3>1. PICK k \in Loops : x \in RangeOf(todo'[k])
      BY <2>4
    <3>2. x \in RangeOf(todo[k]) \ {m}
      BY <3>1, <2>2
    <3>. QED BY <3>2, <2>3
  <2>6. ASSUME NEW x \in Unprocessed \ {m} PROVE x \in Unprocessed'
    <3>1. PICK k \in Loops : x \in RangeOf(todo[k])
      BY <2>3
    <3>2. x \in RangeOf(todo'[k])
      BY <3>1, <2>2
    <3>. QED BY <3>2, <2>4
  <2>. QED BY <2>5, <2>6
<1>8. /\ lpc' \in [Loops -> {"read", "dispatch", "call", "get", "write"}]
      /\ lpc'[l] \in {"read", "dispatch", "write"}
      /\ lpc'[l] = "dispatch" <=> todo'[l] # <<>>
      /\ lpc'[l] = "read" => responses'[l] = <<>>
      /\ \A k \in Loops \ {l} : lpc'[k] = lpc[k]
  BY <1>2, <1>3, <1>6 DEF EndRequest, TypeOK
<1>9. /\ t_currentRequestId' \in [Loops -> Ids \union {Null, Absent}]
      /\ t_currentRequestId'[l] \in {Absent} \union {CurrentIdOf(n) : n \in thrown[l]}
      /\ \A k \in Loops \ {l} : t_currentRequestId'[k] = t_currentRequestId[k]
  BY <1>2 DEF IdAfter, TypeOK, IInv, CurrentIdIsOwn
<1>10. LoopInv'
  BY <1>2, <1>3, <1>6, <1>8 DEF IInv, LoopInv, TypeOK
<1>11. CurrentIdIsOwn'
  BY <1>2, <1>3, <1>8, <1>9 DEF IInv, CurrentIdIsOwn, CurrentIdOf, TypeOK
<1>. QED BY <1>1, <1>2, <1>3, <1>5, <1>6, <1>7, <1>8, <1>9, <1>10, <1>11 DEF TypeOK

\* The ids in responses, when processRequest has returned one or none.
LEMMA RespondedAfter ==
    ASSUME IInv, NEW l \in Loops, NEW ids,
           \A k \in Loops \ {l} : responses'[k] = responses[k],
           IdsIn(responses'[l]) = IdsIn(responses[l]) \union ids,
           UNCHANGED <<output, failed>>
    PROVE  Responded' = Responded \union ids
<1>1. \A x : x \in Collected <=> \E k \in Loops : x \in IdsIn(responses[k])
  BY DEF Collected
<1>2. \A x : x \in Collected' <=> \E k \in Loops : x \in IdsIn(responses'[k])
  BY DEF Collected, IdsIn
<1>3. \A x : x \in Collected' <=> x \in Collected \union ids
  BY <1>1, <1>2
<1>4. Written' = Written
  BY DEF Written
<1>. QED BY <1>3, <1>4 DEF Responded

\* A message is answered, or not, by the loop itself.
LEMMA AnswerDirectly ==
    ASSUME IInv, NEW l \in Loops, lpc[l] \in {"dispatch", "call", "get"},
           NEW resp,
           resp = <<>> \/ \E r \in Response : resp = <<r>> /\ r.id = CurrentIdOf(Head(todo[l])),
           Head(todo[l]) \in Owed => resp # <<>>,
           EndRequest(l, resp), IdAfter(l),
           UNCHANGED <<m_requestHandlersByMethod, received, allowAsync, writeVars, thrown, jobVars,
                       ready, poolVars, destructor>>
    PROVE  IInv'
<1>. DEFINE m == Head(todo[l])
<1>1. /\ m \in Messages /\ m \in RangeOf(todo[l]) /\ m \in Unprocessed /\ m \in Received
      /\ CurrentIdOf(m) \in Ids => CurrentIdOf(m) = IdOf[m]
      /\ IdOf[m] \in Ids => CurrentIdOf(m) = IdOf[m]
  BY CurrentMessage
<1>2. /\ responses' \in [Loops -> Seq(Response)]
      /\ todo' \in [Loops -> Seq(Messages)]
      /\ lpc' \in [Loops -> {"read", "dispatch", "call", "get", "write"}]
      /\ t_currentRequestId' \in [Loops -> Ids \union {Null, Absent}]
      /\ LoopInv' /\ CurrentIdIsOwn'
      /\ lpc'[l] \in {"read", "dispatch", "write"}
      /\ \A k \in Loops \ {l} :
           todo'[k] = todo[k] /\ responses'[k] = responses[k] /\ lpc'[k] = lpc[k]
      /\ RangeOf(todo'[l]) = RangeOf(todo[l]) \ {m}
      /\ Distinct(todo'[l])
      /\ Unprocessed' = Unprocessed \ {m}
      /\ IdsIn(responses'[l]) = IdsIn(responses[l]) \union IdsIn(resp)
      /\ IdsIn(resp) = IF resp = <<>> THEN {} ELSE {CurrentIdOf(m)}
      /\ DistinctIds(responses'[l])
  BY EndRequestEffect
<1>3. Responded' = Responded \union IdsIn(resp)
  BY <1>2, RespondedAfter DEF writeVars
<1>4. InPool' = InPool /\ finished' = finished /\ Received' = Received
  BY DEF InPool, Received, poolVars
<1>5. TypeOK' /\ IsFiniteSet(running)'
  BY <1>2 DEF IInv, TypeOK, poolVars, jobVars, writeVars
<1>6. HandlerInv'
  BY <1>2 DEF IInv, HandlerInv, HandlerOf
<1>7. PlaceInv'
  <2>1. \A k \in Loops : Distinct(todo'[k])
    BY <1>2 DEF IInv, PlaceInv
  <2>2. \A j, k \in Loops : j # k => RangeOf(todo'[j]) \intersect RangeOf(todo'[k]) = {}
    BY <1>2 DEF IInv, PlaceInv
  <2>. QED BY <2>1, <2>2, <1>2, <1>4 DEF IInv, PlaceInv, poolVars
<1>8. ResponseInv'
  <2>1. ResponseInv
    BY DEF IInv
  <2>2. IdsIn(resp) \intersect Ids \subseteq {IdOf[m]}
    BY <1>1, <1>2
  <2>3. IdsIn(resp) \intersect Ids \intersect Responded = {}
    BY <2>1, <2>2, <1>1 DEF ResponseInv
  <2>4. \A k \in Loops : DistinctIds(responses'[k])
    BY <2>1, <1>2 DEF ResponseInv
  <2>5. \A k \in Loops : IdsIn(responses[k]) \subseteq Responded
    BY DEF Responded, Collected, Written
  <2>6. \A i \in DOMAIN output : IdsIn(output[i]) \subseteq Responded
    BY DEF Responded, Collected, Written
  <2>7. \A j, k \in Loops : j # k =>
            IdsIn(responses'[j]) \intersect IdsIn(responses'[k]) \intersect Ids = {}
    <3>1. \A k \in Loops \ {l} :
            IdsIn(responses'[l]) \intersect IdsIn(responses'[k]) \intersect Ids = {}
      BY <2>1, <2>3, <2>5, <1>2 DEF ResponseInv
    <3>2. \A j, k \in Loops \ {l} : j # k =>
            IdsIn(responses'[j]) \intersect IdsIn(responses'[k]) \intersect Ids = {}
      BY <2>1, <1>2 DEF ResponseInv
    <3>. QED BY <3>1, <3>2
  <2>8. \A k \in Loops : \A i \in DOMAIN output :
            IdsIn(responses'[k]) \intersect IdsIn(output[i]) \intersect Ids = {}
    <3>1. \A i \in DOMAIN output :
            IdsIn(responses'[l]) \intersect IdsIn(output[i]) \intersect Ids = {}
      BY <2>1, <2>3, <2>6, <1>2 DEF ResponseInv
    <3>2. \A k \in Loops \ {l} : \A i \in DOMAIN output :
            IdsIn(responses'[k]) \intersect IdsIn(output[i]) \intersect Ids = {}
      BY <2>1, <1>2 DEF ResponseInv
    <3>. QED BY <3>1, <3>2
  <2>9. ASSUME NEW n \in Unprocessed' \union InPool', IdOf[n] \in Ids
        PROVE  IdOf[n] \notin Responded'
    <3>1. n \in Unprocessed \union InPool /\ n # m
      BY <1>1, <1>2, <1>4 DEF IInv, PlaceInv
    <3>2. n \in Messages
      BY <3>1 DEF IInv, TypeOK, Unprocessed, InPool, RangeOf
    <3>3. IdOf[n] # IdOf[m]
      BY <3>1, <3>2, <2>9, <1>1, IdsAssumption
    <3>. QED BY <3>1, <3>3, <2>1, <2>2, <2>9, <1>3 DEF ResponseInv
  <2>10. \A id \in Responded' \intersect Ids : \E n \in Received' : IdOf[n] = id
    BY <2>1, <2>2, <1>1, <1>3, <1>4 DEF ResponseInv
  <2>11. output' = output
    BY DEF writeVars
  <2>. QED BY <2>1, <2>4, <2>7, <2>8, <2>9, <2>10, <2>11 DEF ResponseInv
<1>9. JobInv'
  BY <1>4 DEF IInv, JobInv, jobVars
<1>10. PacketInv'
  <2>1. ASSUME NEW p \in received, WorksOn(l, p) PROVE WorksOn(l, p)'
    <3>1. RangeOf(todo'[l]) \subseteq RangeOf(Content[p])
      BY <2>1, <1>2 DEF WorksOn
    <3>2. m \in RangeOf(Content[p])
      BY <2>1, <1>1 DEF WorksOn
    <3>3. IdsIn(responses'[l]) \intersect Ids \subseteq {IdOf[n] : n \in RangeOf(Content[p])}
      BY <2>1, <3>2, <1>1, <1>2 DEF WorksOn
    <3>4. ASSUME IsBatch[p], NEW n \in RangeOf(Content[p]) \intersect Owed
          PROVE  n \in RangeOf(todo'[l]) \/ IdOf[n] \in IdsIn(responses'[l])
      <4>1. CASE n = m
        BY <4>1, <1>1, <1>2 DEF Owed
      <4>2. CASE n # m
        BY <4>2, <2>1, <3>4, <1>2 DEF WorksOn
      <4>. QED BY <4>1, <4>2
    <3>. QED BY <2>1, <3>1, <3>3, <3>4 DEF WorksOn, RangeOf, IdsIn
  <2>2. ASSUME NEW k \in Loops \ {l}, NEW p \in received PROVE WorksOn(k, p)' <=> WorksOn(k, p)
    BY <1>2 DEF WorksOn
  <2>. QED BY <2>1, <2>2, <1>2 DEF IInv, PacketInv
<1>11. OwedInv'
  <2>1. ASSUME NEW n \in Received \intersect Owed
        PROVE  n \in Unprocessed' \union InPool' \/ IdOf[n] \in Responded' \/ Aborted(n)'
    <3>1. CASE n = m
      BY <3>1, <1>1, <1>2, <1>3 DEF Owed
    <3>2. CASE n # m
      BY <3>2, <1>2, <1>3, <1>4, AbortedStays DEF IInv, OwedInv
    <3>. QED BY <3>1, <3>2
  <2>. QED BY <2>1, <1>4 DEF OwedInv
<1>12. DestructorInv' /\ BatchAnsweredWhole'
  BY <1>2 DEF IInv, DestructorInv, BatchAnsweredWhole, Received, poolVars, writeVars
<1>. QED BY <1>2, <1>5, <1>6, <1>7, <1>8, <1>9, <1>10, <1>11, <1>12 DEF IInv

-----------------------------------------------------------------------------
(* The steps. *)

\* A handler is taken away while no loop is about to call it.
LEMMA RemoveInv ==
    ASSUME IInv, NEW method \in Removable, remove(method)
    PROVE  IInv'
<1>1. TypeOK' /\ IsFiniteSet(running)'
  BY HandlersAssumption DEF IInv, TypeOK, remove, loopVars, writeVars, jobVars, poolVars
<1>2. HandlerInv'
  BY HandlersAssumption, CurrentMessage DEF IInv, TypeOK, HandlerInv, HandlerOf, NotInUse, remove, loopVars
<1>3. PlaceInv' /\ ResponseInv' /\ JobInv' /\ OwedInv' /\ BatchAnsweredWhole'
      /\ \A l \in Loops : \A p \in received : WorksOn(l, p)' <=> WorksOn(l, p)
  BY SamePlaces DEF remove, loopVars, writeVars, poolVars
<1>4. LoopInv' /\ CurrentIdIsOwn' /\ PacketInv' /\ DestructorInv'
  BY <1>3 DEF IInv, LoopInv, CurrentIdIsOwn, PacketInv, DestructorInv, remove, loopVars, poolVars
<1>. QED BY <1>1, <1>2, <1>3, <1>4 DEF IInv

\* The registered handler comes back.
LEMMA AddHandlerInv ==
    ASSUME IInv, NEW method \in Removable, addHandler(method)
    PROVE  IInv'
<1>1. TypeOK' /\ IsFiniteSet(running)'
  BY HandlersAssumption DEF IInv, TypeOK, addHandler, loopVars, writeVars, jobVars, poolVars
<1>2. HandlerInv'
  BY HandlersAssumption, CurrentMessage DEF IInv, TypeOK, HandlerInv, HandlerOf, NotInUse, addHandler,
     loopVars
<1>3. PlaceInv' /\ ResponseInv' /\ JobInv' /\ OwedInv' /\ BatchAnsweredWhole'
      /\ \A l \in Loops : \A p \in received : WorksOn(l, p)' <=> WorksOn(l, p)
  BY SamePlaces DEF addHandler, loopVars, writeVars, poolVars
<1>4. LoopInv' /\ CurrentIdIsOwn' /\ PacketInv' /\ DestructorInv'
  BY <1>3 DEF IInv, LoopInv, CurrentIdIsOwn, PacketInv, DestructorInv, addHandler, loopVars, poolVars
<1>. QED BY <1>1, <1>2, <1>3, <1>4 DEF IInv

\* The handler that was found is the one that is called.
LEMMA FindHandlerInv ==
    ASSUME IInv, NEW l \in Loops, FindHandler(l)
    PROVE  IInv'
<1>1. CurrentIdOf(Head(todo[l])) \in Ids \union {Null}
  BY CurrentMessage DEF FindHandler
<1>2. TypeOK' /\ IsFiniteSet(running)'
  BY <1>1 DEF IInv, TypeOK, FindHandler, SetCurrentId, writeVars, jobVars, poolVars
<1>3. PlaceInv' /\ ResponseInv' /\ JobInv' /\ OwedInv' /\ BatchAnsweredWhole'
      /\ \A k \in Loops : \A p \in received : WorksOn(k, p)' <=> WorksOn(k, p)
  BY SamePlaces DEF FindHandler, writeVars, poolVars
<1>4. HandlerInv' /\ LoopInv'
  BY DEF IInv, TypeOK, HandlerInv, HandlerOf, LoopInv, FindHandler
<1>5. CurrentIdIsOwn'
  BY DEF IInv, TypeOK, CurrentIdIsOwn, CurrentIdOf, FindHandler, SetCurrentId
<1>6. PacketInv' /\ DestructorInv'
  BY <1>3 DEF IInv, TypeOK, PacketInv, DestructorInv, FindHandler, poolVars
<1>. QED BY <1>2, <1>3, <1>4, <1>5, <1>6 DEF IInv

\* The loop waits for the future.
LEMMA CallAsyncInBatchInv ==
    ASSUME IInv, NEW l \in Loops, CallAsyncInBatch(l)
    PROVE  IInv'
<1>1. TypeOK' /\ IsFiniteSet(running)'
  BY DEF IInv, TypeOK, CallAsyncInBatch, writeVars, jobVars, poolVars
<1>2. PlaceInv' /\ ResponseInv' /\ JobInv' /\ OwedInv' /\ BatchAnsweredWhole'
      /\ \A k \in Loops : \A p \in received : WorksOn(k, p)' <=> WorksOn(k, p)
  BY SamePlaces DEF CallAsyncInBatch, writeVars, poolVars
<1>3. HandlerInv' /\ LoopInv'
  BY DEF IInv, TypeOK, HandlerInv, HandlerOf, LoopInv, CallAsyncInBatch
<1>4. CurrentIdIsOwn'
  BY DEF IInv, TypeOK, CurrentIdIsOwn, CurrentIdOf, CallAsyncInBatch
<1>5. PacketInv' /\ DestructorInv'
  BY <1>2 DEF IInv, TypeOK, PacketInv, DestructorInv, CallAsyncInBatch, poolVars
<1>. QED BY <1>1, <1>2, <1>3, <1>4, <1>5 DEF IInv

\* The error response has the id of the request.
LEMMA MethodNotFoundInv ==
    ASSUME IInv, NEW l \in Loops, MethodNotFound(l)
    PROVE  IInv'
<1>. DEFINE m == Head(todo[l])
<1>1. m \in Messages /\ IdOf[m] \in Ids \union {Null, Absent}
  BY CurrentMessage, MessagesAssumption DEF MethodNotFound
<1>2. CASE IdOf[m] = Absent
  <2>1. EndRequest(l, <<>>) /\ m \notin Owed
    BY <1>2, IdsAssumption DEF MethodNotFound, Owed
  <2>. QED BY <2>1, AnswerDirectly DEF MethodNotFound, IdAfter
<1>3. CASE IdOf[m] # Absent
  <2>. DEFINE r == [id |-> IdOf[m], ok |-> FALSE]
  <2>1. EndRequest(l, <<r>>) /\ r \in Response /\ r.id = CurrentIdOf(m) /\ <<r>> # <<>>
    BY <1>1, <1>3 DEF MethodNotFound, Response, CurrentIdOf
  <2>. QED BY <2>1, AnswerDirectly DEF MethodNotFound, IdAfter
<1>. QED BY <1>2, <1>3

\* A response is due if the request is owed one: the handler is the registered one.
LEMMA OwedResponds ==
    ASSUME IInv, NEW m \in Messages, HandlerOf(m) # NoHandler, m \in Owed
    PROVE  Responds(HandlerOf(m), CurrentIdOf(m))
<1>1. MethodOf[m] \in Methods /\ IdOf[m] \in Ids /\ CurrentIdOf(m) # Null
  BY MessagesAssumption, IdsAssumption DEF Owed, CurrentIdOf
<1>2. HandlerOf(m) = Registered[MethodOf[m]] /\ HandlerOf(m) \in Handlers
  BY <1>1, HandlersAssumption DEF IInv, HandlerInv, HandlerOf
<1>3. HandlerOf(m).class \in {"request", "generic"}
  BY <1>2 DEF Owed, Handlers
<1>. QED BY <1>1, <1>3 DEF Responds

\* What a handler makes of a message: no response or one, and one if it is due.
LEMMA HandlerAnswers ==
    ASSUME IInv, NEW l \in Loops, lpc[l] \in {"call", "get"}, NEW ok \in BOOLEAN,
           EndRequest(l, ResponsesOf(HandlerOf(Head(todo[l])), t_currentRequestId[l], ok)),
           SetCurrentId(l, Absent),
           UNCHANGED <<m_requestHandlersByMethod, received, allowAsync, writeVars, thrown, jobVars,
                       ready, poolVars, destructor>>
    PROVE  IInv'
<1>. DEFINE m == Head(todo[l])
            h == HandlerOf(m)
            r == [id |-> CurrentIdOf(m), ok |-> ok]
<1>1. t_currentRequestId[l] = CurrentIdOf(m)
  BY DEF IInv, CurrentIdIsOwn
<1>2. m \in Messages /\ r \in Response /\ r.id = CurrentIdOf(m)
  BY CurrentMessage DEF Response
<1>3. m \in Owed => Responds(h, CurrentIdOf(m))
  BY <1>2, OwedResponds DEF IInv, HandlerInv
<1>4. CASE Responds(h, CurrentIdOf(m))
  <2>1. EndRequest(l, <<r>>) /\ <<r>> # <<>>
    BY <1>1, <1>4 DEF ResponsesOf
  <2>. QED BY <2>1, <1>2, AnswerDirectly DEF SetCurrentId, IdAfter
<1>5. CASE ~Responds(h, CurrentIdOf(m))
  <2>1. EndRequest(l, <<>>)
    BY <1>1, <1>5 DEF ResponsesOf
  <2>. QED BY <2>1, <1>3, <1>5, AnswerDirectly DEF SetCurrentId, IdAfter
<1>. QED BY <1>4, <1>5

\* The callback returns.
LEMMA CallHandlerInv ==
    ASSUME IInv, NEW l \in Loops, CallHandler(l)
    PROVE  IInv'
<1>1. PICK ok \in BOOLEAN :
        EndRequest(l, ResponsesOf(HandlerOf(Head(todo[l])), t_currentRequestId[l], ok))
  BY DEF CallHandler
<1>. QED BY <1>1, HandlerAnswers DEF CallHandler

\* The future of a message of a batch is ready.
LEMMA GetFutureInv ==
    ASSUME IInv, NEW l \in Loops, GetFuture(l)
    PROVE  IInv'
BY HandlerAnswers DEF GetFuture

\* The messages of a packet that comes are all different and have not been received.
LEMMA NewPacket ==
    ASSUME IInv, NEW p \in Packets \ received
    PROVE  /\ Content[p] \in Seq(Messages) /\ Content[p] # <<>> /\ Distinct(Content[p])
           /\ RangeOf(Content[p]) \subseteq Messages
           /\ RangeOf(Content[p]) \intersect Received = {}
           /\ \A m \in RangeOf(Content[p]) : IdOf[m] \notin Responded \intersect Ids
<1>1. Content[p] \in Seq(Messages) /\ Content[p] # <<>> /\ RangeOf(Content[p]) \subseteq Messages
  BY MessagesAssumption DEF RangeOf
<1>2. Distinct(Content[p])
  BY PlacesAssumption DEF Distinct
<1>3. RangeOf(Content[p]) \intersect Received = {}
  <2>1. SUFFICES ASSUME NEW m \in RangeOf(Content[p]), m \in Received PROVE FALSE
    OBVIOUS
  <2>2. PICK q \in received : m \in RangeOf(Content[q])
    BY <2>1 DEF Received
  <2>3. q \in Packets /\ q # p
    BY DEF IInv, TypeOK
  <2>. QED BY <2>2, <2>3, PlacesAssumption DEF RangeOf
<1>4. \A n \in Received : n \in Messages
  BY MessagesAssumption DEF IInv, TypeOK, Received, RangeOf
<1>5. ASSUME NEW m \in RangeOf(Content[p]), IdOf[m] \in Responded \intersect Ids PROVE FALSE
  <2>1. PICK n \in Received : IdOf[n] = IdOf[m]
    BY <1>5 DEF IInv, ResponseInv
  <2>2. n = m
    BY <2>1, <1>1, <1>4, <1>5, IdsAssumption
  <2>. QED BY <2>1, <2>2, <1>3
<1>. QED BY <1>1, <1>2, <1>3, <1>5

\* The messages of the packet are to be processed.
LEMMA ReadPacketInv ==
    ASSUME IInv, NEW l \in Loops, ReadPacket(l)
    PROVE  IInv'
<1>. PICK p \in Packets \ received :
        /\ received' = received \union {p}
        /\ todo' = [todo EXCEPT ![l] = Content[p]]
        /\ allowAsync' = [allowAsync EXCEPT ![l] = ~IsBatch[p]]
  BY DEF ReadPacket
<1>1. /\ Content[p] \in Seq(Messages) /\ Content[p] # <<>> /\ Distinct(Content[p])
      /\ RangeOf(Content[p]) \subseteq Messages
      /\ RangeOf(Content[p]) \intersect Received = {}
      /\ \A m \in RangeOf(Content[p]) : IdOf[m] \notin Responded \intersect Ids
  BY NewPacket
<1>2. /\ lpc[l] = "read" /\ todo[l] = <<>> /\ responses[l] = <<>>
      /\ lpc' = [lpc EXCEPT ![l] = "dispatch"]
      /\ UNCHANGED <<m_requestHandlersByMethod, t_currentRequestId, responses, output, failed,
                     thrown, jobId, jobResponds, ready, open, pending, running, finished,
                     destructor>>
  BY DEF ReadPacket, IInv, LoopInv, writeVars, jobVars, poolVars
<1>3. todo \in [Loops -> Seq(Messages)] /\ lpc \in [Loops -> {"read", "dispatch", "call", "get", "write"}]
      /\ allowAsync \in [Loops -> BOOLEAN]
  BY DEF IInv, TypeOK
<1>4. /\ Responded' = Responded /\ InPool' = InPool
  BY <1>2 DEF Responded, Collected, Written, InPool
<1>5. Received' = Received \union RangeOf(Content[p])
  BY DEF Received
<1>6. Unprocessed' = Unprocessed \union RangeOf(Content[p])
  <2>1. \A x : x \in Unprocessed <=> \E k \in Loops : x \in RangeOf(todo[k])
    BY DEF Unprocessed
  <2>2. \A x : x \in Unprocessed' <=> \E k \in Loops : x \in RangeOf(todo'[k])
    BY DEF Unprocessed, RangeOf
  <2>3. RangeOf(todo[l]) = {}
    BY <1>2 DEF RangeOf
  <2>4. \A x : x \in Unprocessed' <=> x \in Unprocessed \union RangeOf(Content[p])
    BY <2>1, <2>2, <2>3, <1>3
  <2>. QED BY <2>4
<1>7. TypeOK' /\ IsFiniteSet(running)'
  BY <1>1, <1>2, MessagesAssumption DEF IInv, TypeOK
<1>8. HandlerInv' /\ LoopInv'
  BY <1>1, <1>2, <1>3 DEF IInv, HandlerInv, HandlerOf, LoopInv
<1>9. CurrentIdIsOwn'
  BY <1>2, <1>3 DEF IInv, CurrentIdIsOwn, CurrentIdOf
<1>10. PlaceInv'
  <2>1. PlaceInv
    BY DEF IInv
  <2>2. \A k \in Loops : Distinct(todo'[k])
    BY <2>1, <1>1, <1>3 DEF PlaceInv
  <2>3. \A k \in Loops \ {l} : RangeOf(todo'[l]) \intersect RangeOf(todo'[k]) = {}
    BY <2>1, <1>1, <1>3 DEF PlaceInv, Unprocessed
  <2>4. \A j, k \in Loops : j # k => RangeOf(todo'[j]) \intersect RangeOf(todo'[k]) = {}
    BY <2>1, <2>3, <1>3 DEF PlaceInv
  <2>. QED BY <2>1, <2>2, <2>4, <1>1, <1>2, <1>4, <1>5, <1>6 DEF PlaceInv
<1>11. ResponseInv'
  BY <1>1, <1>2, <1>4, <1>5, <1>6 DEF IInv, ResponseInv
<1>12. JobInv'
  <2>1. InPool \subseteq Received
    BY DEF IInv, PlaceInv
  <2>. QED BY <2>1, <1>1, <1>2, <1>4 DEF IInv, JobInv
<1>13. PacketInv'
  <2>1. WorksOn(l, p)'
    BY <1>2, <1>3 DEF WorksOn, IdsIn
  <2>2. ASSUME NEW k \in Loops \ {l}, NEW q \in received PROVE WorksOn(k, q)' <=> WorksOn(k, q)
    BY <1>2, <1>3 DEF WorksOn
  <2>. QED BY <2>1, <2>2, <1>2, <1>3 DEF IInv, PacketInv
<1>14. OwedInv'
  BY <1>2, <1>4, <1>5, <1>6, AbortedStays DEF IInv, OwedInv
<1>15. DestructorInv'
  BY <1>2 DEF IInv, DestructorInv, ReadPacket
<1>16. BatchAnsweredWhole'
  <2>1. ASSUME NEW i \in DOMAIN output
        PROVE  {r.id : r \in RangeOf(output[i])} \intersect Ids
                    \intersect {IdOf[m] : m \in RangeOf(Content[p])} = {}
    <3>1. {r.id : r \in RangeOf(output[i])} \subseteq Responded
      BY DEF Responded, Written, IdsIn, RangeOf
    <3>. QED BY <3>1, <1>1
  <2>. QED BY <2>1, <1>2 DEF IInv, BatchAnsweredWhole
<1>. QED BY <1>7, <1>8, <1>9, <1>10, <1>11, <1>12, <1>13, <1>14, <1>15, <1>16 DEF IInv

\* A packet of responses is written, whose ids are not in the output.
LEMMA OutputGrows ==
    ASSUME IInv, NEW s \in Seq(Response), output' = Append(output, s),
           DistinctIds(s), IdsIn(s) \intersect Ids \intersect Written = {}
    PROVE  /\ output' \in Seq(Seq(Response))
           /\ Written' = Written \union IdsIn(s)
           /\ \A i \in DOMAIN output' :
                output'[i] = s \/ (i \in DOMAIN output /\ output'[i] = output[i])
           /\ \A i \in DOMAIN output' : DistinctIds(output'[i])
           /\ \A i, k \in DOMAIN output' : i # k =>
                IdsIn(output'[i]) \intersect IdsIn(output'[k]) \intersect Ids = {}
<1>. DEFINE n == Len(output)
<1>1. /\ n \in Nat /\ DOMAIN output = 1 .. n
      /\ output' \in Seq(Seq(Response))
      /\ DOMAIN output' = 1 .. (n + 1)
      /\ \A i \in 1 .. n : output'[i] = output[i]
      /\ output'[n + 1] = s
  BY AppendProperties, LenProperties DEF IInv, TypeOK
<1>. HIDE DEF n
<1>2. \A i \in 1 .. (n + 1) : i \in 1 .. n \/ i = n + 1
  BY <1>1
<1>3. \A i \in 1 .. n : IdsIn(output[i]) \subseteq Written
  BY <1>1 DEF Written
<1>4. Written' = Written \union IdsIn(s)
  <2>1. \A x : x \in Written <=> \E i \in 1 .. n : x \in IdsIn(output[i])
    BY <1>1 DEF Written
  <2>2. \A x : x \in Written' <=> \E i \in 1 .. (n + 1) : x \in IdsIn(output'[i])
    BY <1>1 DEF Written, IdsIn
  <2>3. \A x : x \in Written' <=> x \in Written \union IdsIn(s)
    BY <2>1, <2>2, <1>1, <1>2
  <2>. QED BY <2>3
<1>5. \A i \in 1 .. (n + 1) : DistinctIds(output'[i])
  BY <1>1, <1>2 DEF IInv, ResponseInv
<1>6. \A i, k \in 1 .. (n + 1) : i # k =>
        IdsIn(output'[i]) \intersect IdsIn(output'[k]) \intersect Ids = {}
  <2>1. \A i \in 1 .. n : IdsIn(output'[i]) \intersect IdsIn(output'[n + 1]) \intersect Ids = {}
    BY <1>1, <1>3
  <2>2. \A i, k \in 1 .. n : i # k =>
            IdsIn(output'[i]) \intersect IdsIn(output'[k]) \intersect Ids = {}
    BY <1>1 DEF IInv, ResponseInv
  <2>. QED BY <2>1, <2>2, <1>2
<1>. QED BY <1>1, <1>2, <1>4, <1>5, <1>6

\* The ids of the responses are in the output or those of a write that failed.
LEMMA WriteEffect ==
    ASSUME IInv, NEW s \in Seq(Response), Write(s),
           DistinctIds(s), IdsIn(s) \intersect Ids \intersect Written = {}
    PROVE  /\ output' \in Seq(Seq(Response))
           /\ failed' \subseteq Ids \union {Null}
           /\ Written' \union failed' = Written \union failed \union IdsIn(s)
           /\ \A i \in DOMAIN output' :
                output'[i] = s \/ (i \in DOMAIN output /\ output'[i] = output[i])
           /\ \A i \in DOMAIN output' : DistinctIds(output'[i])
           /\ \A i, k \in DOMAIN output' : i # k =>
                IdsIn(output'[i]) \intersect IdsIn(output'[k]) \intersect Ids = {}
<1>1. CASE output' = Append(output, s) /\ UNCHANGED failed
  BY <1>1, OutputGrows DEF IInv, TypeOK
<1>2. CASE failed' = failed \union {r.id : r \in RangeOf(s)} /\ UNCHANGED output
  <2>1. {r.id : r \in RangeOf(s)} = IdsIn(s)
    BY DEF RangeOf, IdsIn
  <2>2. IdsIn(s) \subseteq Ids \union {Null}
    <3>1. \A i \in DOMAIN s : s[i] \in Response
      BY LenProperties, ElementOfSeq
    <3>. QED BY <3>1 DEF IdsIn, Response
  <2>3. Written' = Written
    BY <1>2 DEF Written
  <2>. QED BY <1>2, <2>1, <2>2, <2>3 DEF IInv, TypeOK, ResponseInv
<1>. QED BY <1>1, <1>2 DEF Write

\* What is said of the packets that were written stays true, if the next one is of one
\* loop's packet, whole.
LEMMA WholePacketWritten ==
    ASSUME IInv, NEW s, UNCHANGED received,
           \A i \in DOMAIN output' : output'[i] = s \/ (i \in DOMAIN output /\ output'[i] = output[i]),
           NEW q \in received,
           IdsIn(s) \intersect Ids \subseteq {IdOf[m] : m \in RangeOf(Content[q])},
           IsBatch[q] => \A m \in RangeOf(Content[q]) \intersect Owed : IdOf[m] \in IdsIn(s)
    PROVE  BatchAnsweredWhole'
<1>1. SUFFICES ASSUME NEW p \in received, IsBatch[p],
                      {r.id : r \in RangeOf(s)} \intersect Ids
                            \intersect {IdOf[m] : m \in RangeOf(Content[p])} # {}
               PROVE  /\ {IdOf[m] : m \in RangeOf(Content[p]) \intersect Owed}
                            \subseteq {r.id : r \in RangeOf(s)} \intersect Ids
                      /\ {r.id : r \in RangeOf(s)} \intersect Ids
                            \subseteq {IdOf[m] : m \in RangeOf(Content[p])}
  BY DEF IInv, BatchAnsweredWhole
<1>2. {r.id : r \in RangeOf(s)} = IdsIn(s)
  BY DEF RangeOf, IdsIn
<1>3. PICK m \in RangeOf(Content[p]) : IdOf[m] \in IdsIn(s) \intersect Ids
  BY <1>1, <1>2
<1>4. PICK n \in RangeOf(Content[q]) : IdOf[n] = IdOf[m]
  BY <1>3
<1>5. p \in Packets /\ q \in Packets
  BY DEF IInv, TypeOK
<1>6. m \in Messages /\ n \in Messages
  BY <1>5, MessagesAssumption DEF RangeOf
<1>7. m = n
  BY <1>3, <1>4, <1>6, IdsAssumption
<1>8. p = q
  BY <1>5, <1>7, PlacesAssumption DEF RangeOf
<1>. QED BY <1>1, <1>2, <1>8 DEF Owed

\* The responses of a loop go to the output together, or are lost together.
LEMMA WriteResponsesInv ==
    ASSUME IInv, NEW l \in Loops, WriteResponses(l)
    PROVE  IInv'
<1>1. /\ lpc[l] = "write" /\ todo[l] = <<>>
      /\ Write(responses[l])
      /\ responses' = [responses EXCEPT ![l] = <<>>]
      /\ lpc' = [lpc EXCEPT ![l] = "read"]
      /\ UNCHANGED <<m_requestHandlersByMethod, received, todo, allowAsync, t_currentRequestId,
                     thrown, jobId, jobResponds, ready, open, pending, running, finished, destructor>>
  BY DEF WriteResponses, Dropped, IInv, LoopInv, jobVars, poolVars
<1>2. /\ responses \in [Loops -> Seq(Response)]
      /\ lpc \in [Loops -> {"read", "dispatch", "call", "get", "write"}]
      /\ ResponseInv
  BY DEF IInv, TypeOK
<1>3. IdsIn(responses[l]) \intersect Ids \intersect Written = {}
  BY <1>2 DEF ResponseInv, Written
<1>4. /\ output' \in Seq(Seq(Response))
      /\ failed' \subseteq Ids \union {Null}
      /\ Written' \union failed' = Written \union failed \union IdsIn(responses[l])
      /\ \A i \in DOMAIN output' :
           output'[i] = responses[l] \/ (i \in DOMAIN output /\ output'[i] = output[i])
      /\ \A i \in DOMAIN output' : DistinctIds(output'[i])
      /\ \A i, k \in DOMAIN output' : i # k =>
           IdsIn(output'[i]) \intersect IdsIn(output'[k]) \intersect Ids = {}
  BY <1>1, <1>2, <1>3, WriteEffect DEF ResponseInv
<1>5. Responded' = Responded
  <2>1. \A x : x \in Collected <=> \E k \in Loops : x \in IdsIn(responses[k])
    BY DEF Collected
  <2>2. \A x : x \in Collected' <=> \E k \in Loops : x \in IdsIn(responses'[k])
    BY DEF Collected, IdsIn
  <2>3. IdsIn(responses'[l]) = {} /\ \A k \in Loops \ {l} : responses'[k] = responses[k]
    BY <1>1, <1>2, NoResponse
  <2>4. \A x : x \in Collected' \union IdsIn(responses[l]) <=> x \in Collected \union IdsIn(responses[l])
    BY <2>1, <2>2, <2>3
  <2>5. IdsIn(responses[l]) \subseteq Collected
    BY DEF Collected
  <2>. QED BY <2>4, <2>5, <1>4 DEF Responded
<1>6. Unprocessed' = Unprocessed /\ InPool' = InPool /\ Received' = Received
  BY <1>1 DEF Unprocessed, InPool, Received
<1>7. TypeOK' /\ IsFiniteSet(running)'
  BY <1>1, <1>4, NoResponse DEF IInv, TypeOK
<1>8. HandlerInv' /\ LoopInv' /\ CurrentIdIsOwn'
  BY <1>1, <1>2 DEF IInv, HandlerInv, HandlerOf, LoopInv, CurrentIdIsOwn, CurrentIdOf
<1>9. PlaceInv'
  BY <1>1, <1>6 DEF IInv, PlaceInv
<1>10. ResponseInv'
  <2>1. IdsIn(responses'[l]) = {} /\ DistinctIds(responses'[l])
        /\ \A k \in Loops \ {l} : responses'[k] = responses[k]
    BY <1>1, <1>2, NoResponse
  <2>2. \A k \in Loops : DistinctIds(responses'[k])
    BY <2>1, <1>2 DEF ResponseInv
  <2>3. \A j, k \in Loops : j # k =>
            IdsIn(responses'[j]) \intersect IdsIn(responses'[k]) \intersect Ids = {}
    BY <2>1, <1>2 DEF ResponseInv
  <2>4. \A k \in Loops : \A i \in DOMAIN output' :
            IdsIn(responses'[k]) \intersect IdsIn(output'[i]) \intersect Ids = {}
    <3>1. ASSUME NEW k \in Loops, NEW i \in DOMAIN output'
          PROVE  IdsIn(responses'[k]) \intersect IdsIn(output'[i]) \intersect Ids = {}
      <4>1. CASE k = l
        BY <4>1, <2>1
      <4>2. CASE k # l /\ output'[i] = responses[l]
        BY <4>2, <2>1, <1>2 DEF ResponseInv
      <4>3. CASE k # l /\ i \in DOMAIN output /\ output'[i] = output[i]
        BY <4>3, <2>1, <1>2 DEF ResponseInv
      <4>. QED BY <4>1, <4>2, <4>3, <1>4
    <3>. QED BY <3>1
  <2>. QED BY <2>2, <2>3, <2>4, <1>2, <1>4, <1>5, <1>6 DEF ResponseInv
<1>11. JobInv' /\ OwedInv'
  BY <1>1, <1>5, <1>6, AbortedStays DEF IInv, JobInv, OwedInv
<1>12. PacketInv'
  <2>1. ASSUME NEW k \in Loops \ {l}, NEW p \in received PROVE WorksOn(k, p)' <=> WorksOn(k, p)
    BY <1>1, <1>2 DEF WorksOn
  <2>. QED BY <2>1, <1>1, <1>2 DEF IInv, PacketInv
<1>13. DestructorInv'
  BY <1>1 DEF IInv, DestructorInv
<1>14. BatchAnsweredWhole'
  <2>1. PICK p \in received : WorksOn(l, p)
    BY <1>1 DEF IInv, PacketInv
  <2>2. RangeOf(todo[l]) = {}
    BY <1>1 DEF RangeOf
  <2>3. IsBatch[p] => \A m \in RangeOf(Content[p]) \intersect Owed : IdOf[m] \in IdsIn(responses[l])
    BY <2>1, <2>2 DEF WorksOn
  <2>. QED BY <2>1, <2>3, <1>1, <1>4, WholePacketWritten DEF WorksOn
<1>. QED BY <1>7, <1>8, <1>9, <1>10, <1>11, <1>12, <1>13, <1>14 DEF IInv

\* A single message goes from its loop to the queue of the pool.
LEMMA CallAsyncHandlerInv ==
    ASSUME IInv, NEW l \in Loops, CallAsyncHandler(l)
    PROVE  IInv'
<1>. DEFINE m == Head(todo[l])
<1>1. /\ lpc[l] = "call" /\ allowAsync[l]
      /\ m \notin RangeOf(pending) \union running \union finished
      /\ pending' = Append(pending, m)
      /\ EndRequest(l, <<>>) /\ IdAfter(l)
      /\ UNCHANGED <<m_requestHandlersByMethod, received, allowAsync, output, failed, thrown, ready,
                     open, running, finished, destructor>>
  BY DEF CallAsyncHandler, Pool!Submit, Pool!Accepted, RangeOf, SetCurrentId, IdAfter, writeVars
<1>2. /\ m \in Messages /\ m \in RangeOf(todo[l]) /\ m \in Unprocessed /\ m \in Received
      /\ CurrentIdOf(m) \in Ids \union {Null}
  BY <1>1, CurrentMessage
<1>3. /\ responses' \in [Loops -> Seq(Response)]
      /\ todo' \in [Loops -> Seq(Messages)]
      /\ lpc' \in [Loops -> {"read", "dispatch", "call", "get", "write"}]
      /\ t_currentRequestId' \in [Loops -> Ids \union {Null, Absent}]
      /\ LoopInv' /\ CurrentIdIsOwn'
      /\ lpc'[l] \in {"read", "dispatch", "write"}
      /\ \A k \in Loops \ {l} :
           todo'[k] = todo[k] /\ responses'[k] = responses[k] /\ lpc'[k] = lpc[k]
      /\ RangeOf(todo'[l]) = RangeOf(todo[l]) \ {m}
      /\ Distinct(todo'[l])
      /\ Unprocessed' = Unprocessed \ {m}
      /\ IdsIn(responses'[l]) = IdsIn(responses[l])
      /\ DistinctIds(responses'[l])
  BY <1>1, EndRequestEffect, NoResponse
<1>4. pending' \in Seq(Messages) /\ RangeOf(pending') = RangeOf(pending) \union {m} /\ Distinct(pending')
  BY <1>1, <1>2, AppendTo DEF IInv, TypeOK, PlaceInv
<1>5. Responded' = Responded
  <2>1. IdsIn(responses'[l]) = IdsIn(responses[l]) \union {}
    BY <1>3
  <2>2. Responded' = Responded \union {}
    BY <2>1, <1>1, <1>3, RespondedAfter
  <2>. QED BY <2>2
<1>6. InPool' = InPool \union {m} /\ Received' = Received
  BY <1>1, <1>4 DEF InPool, Received
<1>7. /\ jobId' = [jobId EXCEPT ![m] = CurrentIdOf(m)]
      /\ jobResponds' = [jobResponds EXCEPT ![m] = Responds(HandlerOf(m), CurrentIdOf(m))]
      /\ HandlerOf(m) # NoHandler
  BY <1>1 DEF CallAsyncHandler, CaptureJob, IInv, CurrentIdIsOwn, HandlerInv
<1>8. TypeOK' /\ IsFiniteSet(running)'
  BY <1>1, <1>2, <1>3, <1>4, <1>7 DEF IInv, TypeOK, Responds
<1>9. HandlerInv'
  BY <1>1, <1>3 DEF IInv, HandlerInv, HandlerOf
<1>10. PlaceInv'
  <2>1. PlaceInv
    BY DEF IInv
  <2>2. \A k \in Loops : Distinct(todo'[k])
    BY <2>1, <1>3 DEF PlaceInv
  <2>3. \A j, k \in Loops : j # k => RangeOf(todo'[j]) \intersect RangeOf(todo'[k]) = {}
    BY <2>1, <1>3 DEF PlaceInv
  <2>. QED BY <2>1, <2>2, <2>3, <1>1, <1>2, <1>3, <1>4, <1>6 DEF PlaceInv
<1>11. ResponseInv'
  <2>1. \A k \in Loops : DistinctIds(responses'[k]) /\ IdsIn(responses'[k]) = IdsIn(responses[k])
    BY <1>3 DEF IInv, ResponseInv
  <2>2. Unprocessed' \union InPool' \subseteq Unprocessed \union InPool
    BY <1>2, <1>3, <1>6
  <2>. QED BY <2>1, <2>2, <1>1, <1>2, <1>5, <1>6 DEF IInv, ResponseInv
<1>12. JobInv'
  <2>1. jobResponds \in [Messages -> BOOLEAN] /\ jobId \in [Messages -> Ids \union {Null, Absent}]
        /\ InPool \subseteq Messages
    BY DEF IInv, TypeOK, InPool, RangeOf
  <2>2. \A n \in InPool' : jobId'[n] = CurrentIdOf(n)
    BY <2>1, <1>2, <1>6, <1>7 DEF IInv, JobInv, CurrentIdOf
  <2>3. \A n \in InPool' : n \in Owed => jobResponds'[n]
    BY <2>1, <1>2, <1>6, <1>7, OwedResponds DEF IInv, JobInv
  <2>4. \A q \in received : IsBatch[q] => m \notin RangeOf(Content[q])
    <3>1. PICK p \in received : WorksOn(l, p)
      BY <1>1 DEF IInv, PacketInv
    <3>2. ~IsBatch[p] /\ m \in RangeOf(Content[p])
      BY <3>1, <1>1, <1>2 DEF WorksOn
    <3>3. received \subseteq Packets
      BY DEF IInv, TypeOK
    <3>. QED BY <3>2, <3>3, PlacesAssumption DEF RangeOf
  <2>5. \A n \in InPool' : \A q \in received' : IsBatch[q] => n \notin RangeOf(Content[q])
    BY <2>4, <1>1, <1>6 DEF IInv, JobInv
  <2>. QED BY <2>2, <2>3, <2>5 DEF JobInv, CurrentIdOf
<1>13. PacketInv'
  <2>1. ASSUME NEW p \in received, WorksOn(l, p) PROVE WorksOn(l, p)'
    BY <2>1, <1>1, <1>3 DEF WorksOn
  <2>2. ASSUME NEW k \in Loops \ {l}, NEW p \in received PROVE WorksOn(k, p)' <=> WorksOn(k, p)
    BY <1>1, <1>3 DEF WorksOn
  <2>. QED BY <2>1, <2>2, <1>1, <1>3 DEF IInv, PacketInv
<1>14. OwedInv'
  BY <1>1, <1>3, <1>5, <1>6, AbortedStays DEF IInv, OwedInv
<1>15. DestructorInv' /\ BatchAnsweredWhole'
  BY <1>1, <1>3 DEF IInv, DestructorInv, BatchAnsweredWhole
<1>. QED BY <1>3, <1>8, <1>9, <1>10, <1>11, <1>12, <1>13, <1>14, <1>15 DEF IInv

\* An exception: the requests that are left behind are of the packet of the message.
LEMMA HandlerThrowsInv ==
    ASSUME IInv, NEW l \in Loops, HandlerThrows(l)
    PROVE  IInv'
<1>. DEFINE m == Head(todo[l])
<1>1. /\ lpc[l] \in {"call", "get"}
      /\ thrown' = [thrown EXCEPT ![l] = thrown[l] \union {m}]
      /\ todo' = [todo EXCEPT ![l] = <<>>]
      /\ responses' = [responses EXCEPT ![l] = <<>>]
      /\ lpc' = [lpc EXCEPT ![l] = "read"]
      /\ UNCHANGED <<m_requestHandlersByMethod, received, allowAsync, t_currentRequestId, output,
                     failed, jobId, jobResponds, ready, open, pending, running, finished,
                     destructor>>
  BY DEF HandlerThrows, writeVars, jobVars, poolVars
<1>2. m \in Messages /\ m \in RangeOf(todo[l])
  BY <1>1, CurrentMessage
<1>3. /\ todo \in [Loops -> Seq(Messages)] /\ responses \in [Loops -> Seq(Response)]
      /\ lpc \in [Loops -> {"read", "dispatch", "call", "get", "write"}]
      /\ thrown \in [Loops -> SUBSET Messages]
  BY DEF IInv, TypeOK
<1>4. /\ todo'[l] = <<>> /\ responses'[l] = <<>> /\ lpc'[l] = "read" /\ m \in thrown'[l]
      /\ \A k \in Loops \ {l} :
           /\ todo'[k] = todo[k] /\ responses'[k] = responses[k] /\ lpc'[k] = lpc[k]
           /\ thrown'[k] = thrown[k]
      /\ \A k \in Loops : thrown[k] \subseteq thrown'[k]
  BY <1>1, <1>3
<1>5. RangeOf(todo'[l]) = {} /\ IdsIn(responses'[l]) = {}
  BY <1>4, NoResponse DEF RangeOf
<1>6. /\ InPool' = InPool /\ Received' = Received
      /\ Unprocessed' \subseteq Unprocessed /\ Responded' \subseteq Responded
  <2>1. \A k \in Loops : RangeOf(todo'[k]) \subseteq RangeOf(todo[k])
    BY <1>4, <1>5
  <2>2. \A k \in Loops : IdsIn(responses'[k]) \subseteq IdsIn(responses[k])
    BY <1>4, <1>5
  <2>3. Unprocessed' \subseteq Unprocessed
    BY <2>1 DEF Unprocessed, RangeOf
  <2>4. Collected' \subseteq Collected
    BY <2>2, SMTT(30) DEF Collected, IdsIn
  <2>5. Written' = Written
    BY <1>1 DEF Written
  <2>. QED BY <2>3, <2>4, <2>5, <1>1 DEF InPool, Received, Responded
<1>7. TypeOK' /\ IsFiniteSet(running)'
  BY <1>1, <1>2, NoResponse DEF IInv, TypeOK
<1>8. HandlerInv' /\ LoopInv'
  BY <1>1, <1>4 DEF IInv, HandlerInv, HandlerOf, LoopInv
<1>9. CurrentIdIsOwn'
  <2>1. t_currentRequestId[l] = CurrentIdOf(m)
    BY <1>1 DEF IInv, CurrentIdIsOwn
  <2>2. t_currentRequestId'[l] \in {CurrentIdOf(n) : n \in thrown'[l]}
    BY <2>1, <1>1, <1>4 DEF CurrentIdOf
  <2>. QED BY <2>2, <1>1, <1>4 DEF IInv, CurrentIdIsOwn, CurrentIdOf
<1>10. PlaceInv'
  <2>1. PlaceInv
    BY DEF IInv
  <2>2. \A k \in Loops : Distinct(todo'[k])
    BY <2>1, <1>4 DEF PlaceInv, Distinct
  <2>3. \A j, k \in Loops : j # k => RangeOf(todo'[j]) \intersect RangeOf(todo'[k]) = {}
    BY <2>1, <1>4, <1>5 DEF PlaceInv
  <2>. QED BY <2>1, <2>2, <2>3, <1>1, <1>6 DEF PlaceInv
<1>11. ResponseInv'
  <2>1. ResponseInv
    BY DEF IInv
  <2>2. \A k \in Loops : DistinctIds(responses'[k])
    BY <2>1, <1>4, NoResponse DEF ResponseInv
  <2>3. \A j, k \in Loops : j # k =>
            IdsIn(responses'[j]) \intersect IdsIn(responses'[k]) \intersect Ids = {}
    BY <2>1, <1>4, <1>5 DEF ResponseInv
  <2>4. \A k \in Loops : \A i \in DOMAIN output :
            IdsIn(responses'[k]) \intersect IdsIn(output[i]) \intersect Ids = {}
    BY <2>1, <1>4, <1>5 DEF ResponseInv
  <2>5. /\ \A n \in Unprocessed' \union InPool' : IdOf[n] \in Ids => IdOf[n] \notin Responded'
        /\ \A id \in Responded' \intersect Ids : \E n \in Received' : IdOf[n] = id
    BY <2>1, <1>6 DEF ResponseInv
  <2>. QED BY <2>1, <2>2, <2>3, <2>4, <2>5, <1>1 DEF ResponseInv
<1>12. JobInv'
  BY <1>1, <1>6 DEF IInv, JobInv
<1>13. PacketInv'
  <2>1. ASSUME NEW k \in Loops \ {l}, NEW q \in received PROVE WorksOn(k, q)' <=> WorksOn(k, q)
    BY <1>1, <1>4 DEF WorksOn
  <2>. QED BY <2>1, <1>1, <1>4 DEF IInv, PacketInv
<1>14. OwedInv'
  <2>1. PICK p \in received : WorksOn(l, p)
    BY <1>1 DEF IInv, PacketInv
  <2>2. \A n : n \in RangeOf(Content[p]) => Aborted(n)'
    <3>1. m \in RangeOf(Content[p])
      BY <2>1, <1>2 DEF WorksOn
    <3>2. \A n \in RangeOf(Content[p]) : {n, m} \subseteq RangeOf(Content[p])
      BY <3>1
    <3>3. received' = received
      BY <1>1
    <3>4. \A n : Aborted(n)' <=>
            \E k \in Loops : \E x \in thrown'[k] : \E q \in received' : {n, x} \subseteq RangeOf(Content[q])
      BY DEF Aborted, RangeOf
    <3>. QED BY <3>2, <3>3, <3>4, <1>4
  <2>3. ASSUME NEW n \in Received \intersect Owed
        PROVE  n \in Unprocessed' \union InPool' \/ IdOf[n] \in Responded' \/ Aborted(n)'
    <3>1. CASE n \in RangeOf(Content[p])
      BY <3>1, <2>2
    <3>2. CASE n \notin RangeOf(Content[p])
      <4>1. n \in Unprocessed => n \in Unprocessed'
        <5>1. SUFFICES ASSUME NEW k \in Loops, n \in RangeOf(todo[k]) PROVE n \in Unprocessed'
          BY DEF Unprocessed
        <5>2. k # l
          BY <5>1, <3>2, <2>1 DEF WorksOn
        <5>. QED BY <5>1, <5>2, <1>4 DEF Unprocessed, RangeOf
      <4>2. IdOf[n] \in Responded => IdOf[n] \in Responded'
        <5>1. n \in Messages /\ p \in Packets /\ IdOf[n] \in Ids
          BY DEF Owed, IInv, TypeOK
        <5>2. \A x \in RangeOf(Content[p]) : x \in Messages /\ IdOf[x] # IdOf[n]
          BY <5>1, <3>2, MessagesAssumption, IdsAssumption DEF RangeOf
        <5>3. IdOf[n] \notin IdsIn(responses[l])
          BY <5>1, <5>2, <2>1 DEF WorksOn
        <5>4. IdOf[n] \in Collected => IdOf[n] \in Collected'
          <6>1. SUFFICES ASSUME NEW k \in Loops, IdOf[n] \in IdsIn(responses[k])
                         PROVE  IdOf[n] \in Collected'
            BY DEF Collected
          <6>. QED BY <6>1, <5>3, <1>4 DEF Collected, IdsIn
        <5>5. Written' = Written
          BY <1>1 DEF Written
        <5>. QED BY <5>4, <5>5, <1>1 DEF Responded
      <4>. QED BY <4>1, <4>2, <1>1, <1>4, <1>6, AbortedStays DEF IInv, OwedInv
    <3>. QED BY <3>1, <3>2
  <2>. QED BY <2>3, <1>6 DEF OwedInv
<1>15. DestructorInv' /\ BatchAnsweredWhole'
  BY <1>1, <1>4, SMTT(30) DEF IInv, DestructorInv, BatchAnsweredWhole
<1>. QED BY <1>7, <1>8, <1>9, <1>10, <1>11, <1>12, <1>13, <1>14, <1>15 DEF IInv

\* An exception ends the program.
LEMMA JobThrowsInv ==
    ASSUME IInv, NEW m \in Messages, JobThrows(m)
    PROVE  IInv'
<1>1. TypeOK' /\ IsFiniteSet(running)'
  BY DEF IInv, TypeOK, JobThrows, loopVars, writeVars, jobVars, poolVars
<1>2. PlaceInv' /\ ResponseInv' /\ JobInv' /\ OwedInv' /\ BatchAnsweredWhole'
      /\ \A l \in Loops : \A p \in received : WorksOn(l, p)' <=> WorksOn(l, p)
  BY SamePlaces DEF JobThrows, loopVars, writeVars, poolVars
<1>3. HandlerInv' /\ LoopInv' /\ CurrentIdIsOwn' /\ PacketInv' /\ DestructorInv'
  BY <1>2 DEF IInv, HandlerInv, HandlerOf, LoopInv, CurrentIdIsOwn, PacketInv, DestructorInv,
     JobThrows, loopVars, poolVars
<1>. QED BY <1>1, <1>2, <1>3 DEF IInv

\* A future becomes ready.
LEMMA BecomeReadyInv ==
    ASSUME IInv, NEW m \in Messages, BecomeReady(m)
    PROVE  IInv'
<1>1. TypeOK' /\ IsFiniteSet(running)'
  BY DEF IInv, TypeOK, BecomeReady, loopVars, writeVars, jobVars, poolVars
<1>2. PlaceInv' /\ ResponseInv' /\ JobInv' /\ OwedInv' /\ BatchAnsweredWhole'
      /\ \A l \in Loops : \A p \in received : WorksOn(l, p)' <=> WorksOn(l, p)
  BY SamePlaces DEF BecomeReady, loopVars, writeVars, poolVars
<1>3. HandlerInv' /\ LoopInv' /\ CurrentIdIsOwn' /\ PacketInv' /\ DestructorInv'
  BY <1>2 DEF IInv, HandlerInv, HandlerOf, LoopInv, CurrentIdIsOwn, PacketInv, DestructorInv,
     BecomeReady, loopVars, poolVars
<1>. QED BY <1>1, <1>2, <1>3 DEF IInv

\* The oldest task goes from the queue to a worker.
LEMMA StartJobInv ==
    ASSUME IInv, StartJob
    PROVE  IInv'
<1>. DEFINE m == Head(pending)
<1>1. /\ pending # <<>> /\ pending' = Tail(pending) /\ running' = running \union {m}
      /\ Cardinality(running) < MaxThreads
      /\ UNCHANGED <<m_requestHandlersByMethod, received, lpc, todo, allowAsync,
                     t_currentRequestId, responses, output, failed, thrown, jobId, jobResponds,
                     ready, open, finished, destructor>>
  BY DEF StartJob, Pool!Start, loopVars, writeVars, jobVars
<1>2. /\ m \in Messages /\ Tail(pending) \in Seq(Messages)
      /\ RangeOf(pending) = {m} \union RangeOf(Tail(pending))
      /\ m \notin RangeOf(Tail(pending))
      /\ Distinct(Tail(pending))
  BY <1>1, TailOf DEF IInv, TypeOK, PlaceInv
<1>3. IsFiniteSet(running') /\ Cardinality(running') <= MaxThreads
  <2>1. IsFiniteSet(running) /\ m \notin running
    BY <1>2 DEF IInv, PlaceInv
  <2>2. IsFiniteSet(running') /\ Cardinality(running') = Cardinality(running) + 1
    BY <2>1, <1>1, FS_AddElement
  <2>3. Cardinality(running) \in Nat
    BY <2>1, FS_CardinalityType
  <2>. QED BY <2>2, <2>3, <1>1, HandlersAssumption
<1>4. TypeOK'
  BY <1>1, <1>2, <1>3 DEF IInv, TypeOK
<1>5. /\ Unprocessed' = Unprocessed /\ InPool' = InPool
      /\ Responded' = Responded /\ Received' = Received
  BY <1>1, <1>2 DEF Unprocessed, InPool, Responded, Collected, Written, Received
<1>6. PlaceInv'
  BY <1>1, <1>2, <1>5 DEF IInv, PlaceInv
<1>7. ResponseInv'
  BY <1>1, <1>5 DEF IInv, ResponseInv
<1>8. JobInv' /\ OwedInv' /\ BatchAnsweredWhole'
  <2>1. JobInv' /\ BatchAnsweredWhole'
    BY <1>1, <1>5 DEF IInv, JobInv, BatchAnsweredWhole
  <2>2. OwedInv'
    BY <1>1, <1>5, AbortedStays DEF IInv, OwedInv
  <2>. QED BY <2>1, <2>2
<1>9. HandlerInv' /\ LoopInv' /\ CurrentIdIsOwn' /\ PacketInv'
  BY <1>1 DEF IInv, HandlerInv, HandlerOf, LoopInv, CurrentIdIsOwn, PacketInv, WorksOn
<1>10. DestructorInv'
  BY <1>1 DEF IInv, DestructorInv
<1>. QED BY <1>3, <1>4, <1>6, <1>7, <1>8, <1>9, <1>10 DEF IInv

\* The task ends, with its response if one is due.
LEMMA FinishJobInv ==
    ASSUME IInv, NEW m \in Messages, FinishJob(m)
    PROVE  IInv'
<1>. DEFINE r == [id |-> CurrentIdOf(m), ok |-> TRUE]
<1>1. /\ m \in running /\ running' = running \ {m} /\ finished' = finished \union {m}
      /\ IF jobResponds[m] THEN Write(<<r>>) ELSE UNCHANGED <<output, failed>>
      /\ UNCHANGED <<m_requestHandlersByMethod, received, lpc, todo, allowAsync,
                     t_currentRequestId, responses, thrown, jobId, jobResponds, ready, open, pending,
                     destructor>>
  BY DEF FinishJob, Pool!Finish, loopVars, writeVars, jobVars, IInv, JobInv, InPool
<1>2. m \in InPool /\ InPool' = InPool \ {m}
  BY <1>1 DEF InPool, IInv, PlaceInv
<1>3. Unprocessed' = Unprocessed /\ Received' = Received
  BY <1>1 DEF Unprocessed, Received
<1>4. r \in Response /\ r.id = CurrentIdOf(m)
  BY MessagesAssumption DEF Response, CurrentIdOf
<1>5. r.id \in Ids => r.id = IdOf[m]
  BY IdsAssumption DEF CurrentIdOf
<1>6. IdOf[m] \in Ids => IdOf[m] \notin Responded
  BY <1>2 DEF IInv, ResponseInv
<1>7. <<r>> \in Seq(Response) /\ IdsIn(<<r>>) = {r.id} /\ DistinctIds(<<r>>)
  BY <1>4 DEF IdsIn, DistinctIds
<1>8. jobResponds[m] =>
        /\ output' \in Seq(Seq(Response))
        /\ failed' \subseteq Ids \union {Null}
        /\ Written' \union failed' = Written \union failed \union {r.id}
        /\ \A i \in DOMAIN output' :
             output'[i] = <<r>> \/ (i \in DOMAIN output /\ output'[i] = output[i])
        /\ \A i \in DOMAIN output' : DistinctIds(output'[i])
        /\ \A i, k \in DOMAIN output' : i # k =>
             IdsIn(output'[i]) \intersect IdsIn(output'[k]) \intersect Ids = {}
  <2>1. IdsIn(<<r>>) \intersect Ids \intersect Written = {}
    BY <1>5, <1>6, <1>7 DEF Responded
  <2>. QED BY <2>1, <1>1, <1>7, WriteEffect
<1>9. Collected' = Collected
  BY <1>1 DEF Collected
<1>10. Responded' = IF jobResponds[m] THEN Responded \union {r.id} ELSE Responded
  <2>1. ~jobResponds[m] => Written' = Written /\ failed' = failed
    BY <1>1 DEF Written
  <2>. QED BY <2>1, <1>8, <1>9 DEF Responded
<1>11. IsFiniteSet(running') /\ Cardinality(running') <= MaxThreads
  <2>1. IsFiniteSet(running)
    BY DEF IInv
  <2>2. IsFiniteSet(running') /\ Cardinality(running') = Cardinality(running) - 1
    BY <2>1, <1>1, FS_RemoveElement
  <2>3. Cardinality(running) \in Nat /\ Cardinality(running) <= MaxThreads
    BY <2>1, FS_CardinalityType DEF IInv, TypeOK
  <2>. QED BY <2>2, <2>3, HandlersAssumption
<1>12. TypeOK'
  BY <1>1, <1>8, <1>11 DEF IInv, TypeOK
<1>13. PlaceInv'
  BY <1>1, <1>2, <1>3 DEF IInv, PlaceInv
<1>14. ResponseInv'
  <2>1. ResponseInv /\ InPool \subseteq Messages /\ Unprocessed \subseteq Messages
    BY DEF IInv, TypeOK, InPool, Unprocessed, RangeOf
  <2>2. \A l \in Loops : IdsIn(responses[l]) \subseteq Responded
    BY DEF Responded, Collected
  <2>3. \A l \in Loops : \A i \in DOMAIN output' :
            IdsIn(responses'[l]) \intersect IdsIn(output'[i]) \intersect Ids = {}
    <3>1. r.id \notin Responded \intersect Ids
      BY <1>5, <1>6
    <3>2. ASSUME NEW l \in Loops, NEW i \in DOMAIN output'
          PROVE  IdsIn(responses[l]) \intersect IdsIn(output'[i]) \intersect Ids = {}
      <4>1. CASE i \in DOMAIN output /\ output'[i] = output[i]
        BY <4>1, <2>1 DEF ResponseInv
      <4>2. CASE output'[i] = <<r>>
        BY <4>2, <3>1, <2>2, <1>7
      <4>. QED BY <4>1, <4>2, <1>1, <1>8
    <3>. QED BY <3>2, <1>1
  <2>4. ASSUME NEW n \in Unprocessed' \union InPool', IdOf[n] \in Ids
        PROVE  IdOf[n] \notin Responded'
    <3>1. n \in Unprocessed \union InPool /\ n # m /\ n \in Messages
      BY <2>1, <1>2, <1>3 DEF IInv, PlaceInv
    <3>2. IdOf[n] # r.id
      BY <3>1, <2>4, <1>5, IdsAssumption
    <3>. QED BY <3>1, <3>2, <2>1, <2>4, <1>10 DEF ResponseInv
  <2>5. m \in Received
    BY <1>2 DEF IInv, PlaceInv
  <2>6. \A id \in Responded' \intersect Ids : \E n \in Received' : IdOf[n] = id
    BY <2>1, <2>5, <1>3, <1>5, <1>10 DEF ResponseInv
  <2>. QED BY <2>1, <2>3, <2>4, <2>6, <1>1, <1>8 DEF ResponseInv
<1>15. JobInv'
  BY <1>1, <1>2 DEF IInv, JobInv
<1>16. OwedInv'
  <2>1. ASSUME NEW n \in Received \intersect Owed
        PROVE  n \in Unprocessed' \union InPool' \/ IdOf[n] \in Responded' \/ Aborted(n)'
    <3>1. CASE n = m
      <4>1. jobResponds[m] /\ r.id = IdOf[m]
        BY <3>1, <1>2, IdsAssumption DEF IInv, JobInv, Owed, CurrentIdOf
      <4>. QED BY <4>1, <3>1, <1>10
    <3>2. CASE n # m
      BY <3>2, <1>1, <1>2, <1>3, <1>10, AbortedStays DEF IInv, OwedInv
    <3>. QED BY <3>1, <3>2
  <2>. QED BY <2>1, <1>3 DEF OwedInv
<1>17. HandlerInv' /\ LoopInv' /\ CurrentIdIsOwn' /\ PacketInv'
  BY <1>1 DEF IInv, HandlerInv, HandlerOf, LoopInv, CurrentIdIsOwn, PacketInv, WorksOn
<1>18. DestructorInv'
  BY <1>1 DEF IInv, DestructorInv
<1>19. BatchAnsweredWhole'
  <2>1. CASE ~jobResponds[m]
    BY <2>1, <1>1 DEF IInv, BatchAnsweredWhole
  <2>2. CASE jobResponds[m]
    <3>1. PICK q \in received : m \in RangeOf(Content[q])
      BY <1>2 DEF IInv, PlaceInv, Received
    <3>2. ~IsBatch[q]
      BY <3>1, <1>2 DEF IInv, JobInv
    <3>3. IdsIn(<<r>>) \intersect Ids \subseteq {IdOf[n] : n \in RangeOf(Content[q])}
      BY <3>1, <1>5, <1>7
    <3>4. \A i \in DOMAIN output' :
            output'[i] = <<r>> \/ (i \in DOMAIN output /\ output'[i] = output[i])
      BY <2>2, <1>8
    <3>5. UNCHANGED received
      BY <1>1
    <3>. QED BY <3>2, <3>3, <3>4, <3>5, WholePacketWritten
  <2>. QED BY <2>1, <2>2
<1>. QED BY <1>11, <1>12, <1>13, <1>14, <1>15, <1>16, <1>17, <1>18, <1>19 DEF IInv

\* The destructor closes the pool.
LEMMA BeginDestructorInv ==
    ASSUME IInv, BeginDestructor
    PROVE  IInv'
<1>1. TypeOK' /\ IsFiniteSet(running)'
  BY DEF IInv, TypeOK, BeginDestructor, Pool!Close, loopVars, writeVars, jobVars
<1>2. PlaceInv' /\ ResponseInv' /\ JobInv' /\ OwedInv' /\ BatchAnsweredWhole'
      /\ \A l \in Loops : \A p \in received : WorksOn(l, p)' <=> WorksOn(l, p)
  BY SamePlaces DEF BeginDestructor, Pool!Close, loopVars, writeVars
<1>3. HandlerInv' /\ LoopInv' /\ CurrentIdIsOwn' /\ PacketInv' /\ DestructorInv'
  BY <1>2 DEF IInv, HandlerInv, HandlerOf, LoopInv, CurrentIdIsOwn, PacketInv, DestructorInv,
     BeginDestructor, Pool!Close, loopVars
<1>. QED BY <1>1, <1>2, <1>3 DEF IInv

\* The pool has executed everything.
LEMMA EndDestructorInv ==
    ASSUME IInv, EndDestructor
    PROVE  IInv'
<1>1. TypeOK' /\ IsFiniteSet(running)'
  BY DEF IInv, TypeOK, EndDestructor, Pool!Reopen, loopVars, writeVars, jobVars
<1>2. PlaceInv' /\ ResponseInv' /\ JobInv' /\ OwedInv' /\ BatchAnsweredWhole'
      /\ \A l \in Loops : \A p \in received : WorksOn(l, p)' <=> WorksOn(l, p)
  BY SamePlaces DEF EndDestructor, Pool!Reopen, loopVars, writeVars
<1>3. HandlerInv' /\ LoopInv' /\ CurrentIdIsOwn' /\ PacketInv' /\ DestructorInv'
  BY <1>2 DEF IInv, HandlerInv, HandlerOf, LoopInv, CurrentIdIsOwn, PacketInv, DestructorInv,
     EndDestructor, Pool!Reopen, loopVars
<1>. QED BY <1>1, <1>2, <1>3 DEF IInv

\* Nothing happens.
LEMMA StutterInv ==
    ASSUME IInv, UNCHANGED vars
    PROVE  IInv'
<1>1. PlaceInv' /\ ResponseInv' /\ JobInv' /\ OwedInv' /\ BatchAnsweredWhole'
      /\ \A l \in Loops : \A p \in received : WorksOn(l, p)' <=> WorksOn(l, p)
  BY SamePlaces DEF vars, jobVars
<1>. QED
  BY <1>1 DEF IInv, TypeOK, HandlerInv, HandlerOf, LoopInv, CurrentIdIsOwn, PacketInv,
     DestructorInv, vars

\* No step breaks the invariant.
LEMMA NextInv == IInv /\ [Next]_vars => IInv'
<1>. SUFFICES ASSUME IInv, [Next]_vars PROVE IInv'
  OBVIOUS
<1>1. CASE UNCHANGED vars
  BY <1>1, StutterInv
<1>2. ASSUME NEW l \in Loops, ReadPacket(l) \/ LoopStep(l) PROVE IInv'
  BY <1>2, ReadPacketInv, FindHandlerInv, MethodNotFoundInv, CallHandlerInv,
     CallAsyncHandlerInv, CallAsyncInBatchInv, GetFutureInv, HandlerThrowsInv, WriteResponsesInv
     DEF LoopStep
<1>3. ASSUME NEW m \in Messages, BecomeReady(m) \/ FinishJob(m) \/ JobThrows(m) PROVE IInv'
  BY <1>3, BecomeReadyInv, FinishJobInv, JobThrowsInv
<1>4. CASE StartJob
  BY <1>4, StartJobInv
<1>5. ASSUME NEW method \in Removable, remove(method) \/ addHandler(method) PROVE IInv'
  BY <1>5, RemoveInv, AddHandlerInv
<1>6. CASE BeginDestructor \/ EndDestructor
  BY <1>6, BeginDestructorInv, EndDestructorInv
<1>. QED BY <1>1, <1>2, <1>3, <1>4, <1>5, <1>6 DEF Next

-----------------------------------------------------------------------------
(* The theorems. *)

\* IInv is an invariant: where each message and each response is, what the tasks
\* have captured, and which loop has which packet (messagehandler.cpp:23 to 130).
THEOREM Invariance == Spec => []IInv
<1>. QED BY InitInv, NextInv, PTL DEF Spec

\* All variables have their types; the pool has no more workers than it may.
THEOREM TypeCorrect == Spec => []TypeOK
<1>1. IInv => TypeOK
  BY DEF IInv
<1>. QED BY <1>1, Invariance, PTL

\* In a callback currentRequestId is that of the request which the thread processes.
\* Outside it is not set, as messagehandler.cpp:96 asserts, or it is that of a message
\* whose handling has thrown in the thread, past the reset in line 114.
THEOREM CurrentIdIsRight == Spec => []CurrentIdIsOwn
<1>1. IInv => CurrentIdIsOwn
  BY DEF IInv
<1>. QED BY <1>1, Invariance, PTL

\* A packet that answers one message of a batch answers all of its requests, and
\* nothing from outside of it (messagehandler.cpp:46 to 64).
THEOREM BatchIsAnsweredWhole == Spec => []BatchAnsweredWhole
<1>1. IInv => BatchAnsweredWhole
  BY DEF IInv
<1>. QED BY <1>1, Invariance, PTL

\* No request is answered twice, by whichever thread, and nothing is answered that was
\* not asked (messagehandler.cpp:31 to 64, 184 to 206).
THEOREM AnsweredOnce == Spec => []AtMostOneResponse
<1>1. ASSUME IInv, NEW id \in Ids
      PROVE  /\ Cardinality(Places(id)) <= 1
             /\ Places(id) # {} => \E m \in Received : IdOf[m] = id
  <2>1. \A place \in Places(id) : \E i \in DOMAIN output : \E j \in DOMAIN output[i] :
            place = <<i, j>> /\ output[i][j].id = id
    BY DEF Places
  <2>2. \A p, q \in Places(id) : p = q
    <3>1. SUFFICES ASSUME NEW p \in Places(id), NEW q \in Places(id) PROVE p = q
      OBVIOUS
    <3>7. PICK i \in DOMAIN output :
              \E j \in DOMAIN output[i] : p = <<i, j>> /\ output[i][j].id = id
      BY <2>1
    <3>2. PICK j \in DOMAIN output[i] : p = <<i, j>> /\ output[i][j].id = id
      BY <3>7
    <3>8. PICK k \in DOMAIN output :
              \E n \in DOMAIN output[k] : q = <<k, n>> /\ output[k][n].id = id
      BY <2>1
    <3>3. PICK n \in DOMAIN output[k] : q = <<k, n>> /\ output[k][n].id = id
      BY <3>8
    <3>4. id \in IdsIn(output[i]) /\ id \in IdsIn(output[k])
      BY <3>2, <3>3 DEF IdsIn
    <3>5. i = k
      BY <1>1, <3>4 DEF IInv, ResponseInv
    <3>6. j = n
      BY <1>1, <3>2, <3>3, <3>5 DEF IInv, ResponseInv, DistinctIds
    <3>. QED BY <3>2, <3>3, <3>5, <3>6
  <2>3. CASE Places(id) = {}
    BY <2>3, FS_EmptySet
  <2>4. CASE Places(id) # {}
    <3>1. PICK p : Places(id) = {p}
      BY <2>2, <2>4
    <3>2. Cardinality(Places(id)) = 1
      BY <3>1, FS_Singleton
    <3>3. id \in Written
      BY <2>1, <2>4 DEF Written, IdsIn
    <3>4. \E m \in Received : IdOf[m] = id
      BY <1>1, <3>3 DEF IInv, ResponseInv, Responded
    <3>. QED BY <3>2, <3>4
  <2>. QED BY <2>3, <2>4
<1>2. IInv => AtMostOneResponse
  BY <1>1 DEF AtMostOneResponse
<1>. QED BY <1>2, Invariance, PTL

\* When the destructor has ended every request that was received and is owed a
\* response has one, those of asynchronous handlers included (threadpool.cpp:16), unless
\* an exception came out of the handling of a message of the same packet
\* (messagehandler.cpp:110) or the write of its response failed (lines 36, 64, 219).
THEOREM NoneLeftUnanswered == Spec => []DestructorAnswersAll
<1>1. ASSUME IInv, destructor = "done", NEW m \in Received \intersect Owed
      PROVE  Answered(m) \/ Excused(m)
  <2>1. \A l \in Loops : todo[l] = <<>> /\ responses[l] = <<>>
    BY <1>1 DEF IInv, DestructorInv, LoopInv
  <2>2. pending = <<>> /\ running = {}
    BY <1>1 DEF IInv, DestructorInv
  <2>3. Unprocessed = {} /\ InPool = {}
    BY <2>1, <2>2 DEF Unprocessed, InPool, RangeOf
  <2>4. Collected = {}
    BY <2>1, NoResponse DEF Collected
  <2>5. IdOf[m] \in Written \/ IdOf[m] \in failed \/ Aborted(m)
    BY <2>3, <2>4, <1>1 DEF IInv, OwedInv, Responded
  <2>6. CASE IdOf[m] \in Written
    <3>1. PICK i \in DOMAIN output : \E j \in DOMAIN output[i] : output[i][j].id = IdOf[m]
      BY <2>6 DEF Written, IdsIn
    <3>2. PICK j \in DOMAIN output[i] : output[i][j].id = IdOf[m]
      BY <3>1
    <3>3. <<i, j>> \in Places(IdOf[m])
      BY <3>1, <3>2 DEF Places
    <3>. QED BY <3>3 DEF Answered
  <2>. QED BY <2>5, <2>6 DEF Excused
<1>2. IInv => DestructorAnswersAll
  BY <1>1 DEF DestructorAnswersAll
<1>. QED BY <1>2, Invariance, PTL
=============================================================================
