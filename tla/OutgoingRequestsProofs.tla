----------------------- MODULE OutgoingRequestsProofs -----------------------
(***************************************************************************)
(* Proofs about OutgoingRequests, for any number of requests, threads and  *)
(* ids, as long as there are not more requests than ids.                   *)
(***************************************************************************)
EXTENDS OutgoingRequests, FiniteSetTheorems, SequenceTheorems, TLAPS

Numbered == {r \in Requests : messageId[r] # None}

\* The ids that were handed out are 1, 2, ... up to the number of numbered requests,
\* the last of them wrapped to 0, and no two requests have the same.
CounterInv ==
    /\ s_uniqueRequestId =
            IF Cardinality(Numbered) = IdCount THEN 0 ELSE Cardinality(Numbered)
    /\ \A r \in Numbered :
            \/ messageId[r] \in 1 .. Cardinality(Numbered)
            \/ Cardinality(Numbered) = IdCount
    /\ \A q, r \in Numbered : messageId[q] = messageId[r] => q = r
    /\ \A r \in Requests : messageId[r] = None <=> outcome[r] \in {"new", "calling"}

\* What the table holds under an id is the request with that id, and it was sent.
TableInv ==
    \A id \in Ids : m_pendingRequests[id] \in Requests =>
        /\ messageId[m_pendingRequests[id]] = id
        /\ outcome[m_pendingRequests[id]] = "sent"

\* A thread holds the mutex exactly from the registration to the write.
SenderInv ==
    /\ \A t \in Threads : spc[t] = "idle" <=> sreq[t] = None
    /\ \A t \in Threads : spc[t] = "lock" => outcome[sreq[t]] = "calling"
    /\ \A t \in Threads : spc[t] = "write" => messageId[sreq[t]] # None
    /\ \A t, u \in Threads : sreq[t] = sreq[u] /\ sreq[t] # None => t = u
    /\ \A t \in Threads : m_pendingRequestsMutex = t <=> spc[t] = "write"

\* A result object that a reader has taken is its own and not in the table.
ReaderInv ==
    /\ \A t \in Readers : rpc[t] # "idle" => rresp[t] \in Response
    /\ \A t \in Readers : rpc[t] = "complete" <=> rresult[t] # None
    /\ \A t \in Readers : rresult[t] # None =>
            /\ outcome[rresult[t]] = "sent"
            /\ messageId[rresult[t]] = rresp[t].id
            /\ m_pendingRequests[rresp[t].id] # rresult[t]
    /\ \A t, u \in Readers : rresult[t] = rresult[u] /\ rresult[t] # None => t = u

\* The answers to requests in a packet are recorded.
Recorded(packet) == \A j \in DOMAIN packet : packet[j].id \in Ids => packet[j] \in answered

\* What the peer has received was numbered, and what it answers is recorded.
PeerInv ==
    /\ \A id \in wire : \E r \in Requests : messageId[r] = id
    /\ \A i \in 1 .. Len(inbox) : Recorded(inbox[i])
    /\ \A t \in Readers : Recorded(rrest[t])
    /\ \A t \in Readers : rpc[t] # "idle" /\ rresp[t].id \in Ids => rresp[t] \in answered

IInv ==
    /\ TypeOK
    /\ CounterInv
    /\ TableInv
    /\ SenderInv
    /\ ReaderInv
    /\ PeerInv
    /\ NoRequestForgotten
    /\ CompletedByOwnAnswer

-----------------------------------------------------------------------------
(* The counter. *)

\* An increment that does not reach the number of ids does not wrap.
LEMMA Increment ==
    ASSUME NEW k \in Nat \ {0}, NEW n \in 0 .. k - 1
    PROVE  (n + 1) % k = IF n + 1 = k THEN 0 ELSE n + 1
<1>1. CASE n + 1 = k
  BY <1>1
<1>2. CASE n + 1 < k
  BY <1>2
<1>. QED BY <1>1, <1>2

\* The number of requests that have an id, and that it is one of the counter's values.
LEMMA NumberedType ==
    ASSUME TypeOK
    PROVE  /\ IsFiniteSet(Numbered)
           /\ Cardinality(Numbered) \in Nat
           /\ Cardinality(Numbered) <= IdCount
<1>1. Numbered \subseteq Requests
  BY DEF Numbered
<1>2. IsFiniteSet(Numbered) /\ Cardinality(Numbered) <= Cardinality(Requests)
  BY <1>1, IdsAssumption, FS_Subset
<1>3. Cardinality(Numbered) \in Nat /\ Cardinality(Requests) \in Nat
  BY <1>2, IdsAssumption, FS_CardinalityType
<1>. QED BY <1>2, <1>3, IdsAssumption

\* sendRequest gives out an id that no other request has.
LEMMA FreshId ==
    ASSUME IInv, NEW r \in Requests, messageId[r] = None
    PROVE  /\ nextUniqueRequestId \in Ids
           /\ \A q \in Requests : messageId[q] # nextUniqueRequestId
           /\ Cardinality(Numbered) < IdCount
           /\ nextUniqueRequestId = IF Cardinality(Numbered) + 1 = IdCount
                                    THEN 0 ELSE Cardinality(Numbered) + 1
<1>. DEFINE n == Cardinality(Numbered)
<1>1. TypeOK /\ CounterInv
  BY DEF IInv
<1>2. IsFiniteSet(Numbered) /\ n \in Nat
  BY <1>1, NumberedType
<1>3. r \notin Numbered /\ Numbered \union {r} \subseteq Requests
  BY DEF Numbered
<1>4. Cardinality(Numbered \union {r}) = n + 1
  BY <1>2, <1>3, FS_AddElement
<1>5. Cardinality(Numbered \union {r}) <= Cardinality(Requests)
  BY <1>3, IdsAssumption, FS_Subset
<1>6. Cardinality(Requests) \in Nat
  BY IdsAssumption, FS_CardinalityType
<1>7. n < IdCount
  BY <1>2, <1>4, <1>5, <1>6, IdsAssumption
<1>8. s_uniqueRequestId = n
  BY <1>1, <1>7, <1>2, IdsAssumption DEF CounterInv
<1>9. nextUniqueRequestId = IF n + 1 = IdCount THEN 0 ELSE n + 1
  BY <1>2, <1>7, <1>8, IdsAssumption, Increment DEF nextUniqueRequestId
<1>10. ASSUME NEW q \in Requests PROVE messageId[q] # nextUniqueRequestId
  <2>1. CASE q \in Numbered
    <3>1. messageId[q] \in 1 .. n
      BY <2>1, <1>1, <1>2, <1>7, IdsAssumption DEF CounterInv
    <3>. QED BY <3>1, <1>2, <1>9, IdsAssumption
  <2>2. CASE q \notin Numbered
    <3>1. messageId[q] = None
      BY <2>2 DEF Numbered
    <3>2. nextUniqueRequestId \in Ids
      BY <1>2, <1>7, <1>9, IdsAssumption DEF Ids
    <3>. QED BY <3>1, <3>2, IdsAssumption
  <2>. QED BY <2>1, <2>2
<1>. QED BY <1>2, <1>7, <1>9, <1>10, IdsAssumption DEF Ids

-----------------------------------------------------------------------------
(* Initial states and steps. *)

\* Nothing is pending and nobody sends or reads.
LEMMA InitInv == Init => IInv
<1>. SUFFICES ASSUME Init PROVE IInv
  OBVIOUS
<1>1. TypeOK
  BY IdsAssumption, PacketsAssumption DEF Init, TypeOK, Ids, Completed
<1>2. CounterInv
  <2>1. Numbered = {}
    BY DEF Init, Numbered
  <2>2. Cardinality(Numbered) = 0
    BY <2>1, FS_EmptySet
  <2>. QED BY <2>1, <2>2, IdsAssumption DEF Init, CounterInv
<1>3. TableInv
  BY IdsAssumption DEF Init, TableInv
<1>4. SenderInv
  BY ThreadsAssumption DEF Init, SenderInv, Threads
<1>5. ReaderInv
  BY DEF Init, ReaderInv
<1>6. PeerInv
  BY DEF Init, PeerInv, Recorded
<1>7. NoRequestForgotten /\ CompletedByOwnAnswer
  BY DEF Init, NoRequestForgotten, CompletedByOwnAnswer, Settled, Completed, Failed
<1>. QED BY <1>1, <1>2, <1>3, <1>4, <1>5, <1>6, <1>7 DEF IInv

\* A call takes a request that no thread has.
LEMMA CallSendRequestInv ==
    ASSUME IInv, NEW t \in Threads, NEW r \in Requests, CallSendRequest(t, r)
    PROVE  IInv'
<1>1. TypeOK'
  BY DEF IInv, TypeOK, CallSendRequest, readVars, peerVars
<1>2. CounterInv'
  BY DEF IInv, CounterInv, Numbered, CallSendRequest
<1>3. TableInv'
  BY DEF IInv, TableInv, CallSendRequest
<1>4. SenderInv'
  BY IdsAssumption DEF IInv, TypeOK, CounterInv, SenderInv, CallSendRequest
<1>5. ReaderInv'
  BY DEF IInv, ReaderInv, CallSendRequest, readVars
<1>6. PeerInv'
  BY DEF IInv, PeerInv, Recorded, CallSendRequest, readVars, peerVars
<1>7. NoRequestForgotten'
  BY DEF IInv, NoRequestForgotten, CallSendRequest, readVars
<1>8. CompletedByOwnAnswer'
  BY DEF IInv, CompletedByOwnAnswer, CallSendRequest, peerVars, Settled, Completed, Failed
<1>. QED BY <1>1, <1>2, <1>3, <1>4, <1>5, <1>6, <1>7, <1>8 DEF IInv

\* The request that is registered had no id, and the one it gets is new.
LEMMA RegistersFresh ==
    ASSUME IInv, NEW t \in Threads, RegisterRequest(t)
    PROVE  /\ sreq[t] \in Requests
           /\ messageId[sreq[t]] = None
           /\ outcome[sreq[t]] = "calling"
           /\ nextUniqueRequestId \in Ids
           /\ \A q \in Requests : messageId[q] # nextUniqueRequestId
<1>1. /\ sreq[t] \in Requests
      /\ messageId[sreq[t]] = None
      /\ outcome[sreq[t]] = "calling"
  BY IdsAssumption DEF IInv, TypeOK, SenderInv, CounterInv, RegisterRequest, Threads
<1>. QED BY <1>1, FreshId

\* The request gets a fresh id, so no entry is overwritten.
LEMMA RegisterRequestInv ==
    ASSUME IInv, NEW t \in Threads, RegisterRequest(t)
    PROVE  IInv'
<1>1. TypeOK'
  BY RegistersFresh DEF IInv, TypeOK, RegisterRequest, peerVars, readVars
<1>2. CounterInv'
  <2>1. sreq[t] \in Requests /\ messageId[sreq[t]] = None /\ outcome[sreq[t]] = "calling"
    BY RegistersFresh
  <2>2. nextUniqueRequestId \in Ids /\ \A q \in Requests : messageId[q] # nextUniqueRequestId
    BY RegistersFresh
  <2>3. /\ Cardinality(Numbered) < IdCount
        /\ nextUniqueRequestId = IF Cardinality(Numbered) + 1 = IdCount
                                 THEN 0 ELSE Cardinality(Numbered) + 1
    BY <2>1, FreshId
  <2>4. /\ IsFiniteSet(Numbered)
        /\ Cardinality(Numbered) \in Nat
    BY NumberedType DEF IInv
  <2>5. Numbered' = Numbered \union {sreq[t]} /\ sreq[t] \notin Numbered
    BY <2>1, <2>2, IdsAssumption DEF IInv, TypeOK, Numbered, RegisterRequest
  <2>6. Cardinality(Numbered') = Cardinality(Numbered) + 1
    BY <2>4, <2>5, FS_AddElement
  <2>7. s_uniqueRequestId' = IF Cardinality(Numbered') = IdCount THEN 0 ELSE Cardinality(Numbered')
    BY <2>3, <2>6 DEF RegisterRequest
  <2>8. ASSUME NEW r \in Numbered'
        PROVE  messageId'[r] \in 1 .. Cardinality(Numbered') \/ Cardinality(Numbered') = IdCount
    <3>1. CASE r = sreq[t]
      BY <3>1, <2>1, <2>3, <2>4, <2>6 DEF IInv, TypeOK, RegisterRequest
    <3>2. CASE r # sreq[t]
      <4>1. r \in Numbered /\ messageId'[r] = messageId[r]
        BY <3>2, <2>5 DEF IInv, TypeOK, RegisterRequest
      <4>2. messageId[r] \in 1 .. Cardinality(Numbered)
        BY <4>1, <2>3, <2>4, IdsAssumption DEF IInv, CounterInv
      <4>. QED BY <4>1, <4>2, <2>4, <2>6
    <3>. QED BY <3>1, <3>2
  <2>9. \A q, r \in Numbered' : messageId'[q] = messageId'[r] => q = r
    BY <2>1, <2>2, <2>5 DEF IInv, TypeOK, CounterInv, Numbered, RegisterRequest
  <2>10. \A r \in Requests : messageId'[r] = None <=> outcome'[r] \in {"new", "calling"}
    BY <2>1, <2>2, IdsAssumption DEF IInv, TypeOK, CounterInv, RegisterRequest
  <2>. QED BY <2>7, <2>8, <2>9, <2>10 DEF CounterInv
<1>3. TableInv'
  BY DEF IInv, TypeOK, TableInv, SenderInv, RegisterRequest
<1>4. SenderInv'
  <2>1. sreq[t] \in Requests /\ nextUniqueRequestId \in Ids
    BY RegistersFresh
  <2>. QED
    BY <2>1, IdsAssumption, ThreadsAssumption
       DEF IInv, TypeOK, SenderInv, RegisterRequest, Threads
<1>5. ReaderInv'
  BY DEF IInv, SenderInv, ReaderInv, RegisterRequest, readVars
<1>6. PeerInv'
  BY IdsAssumption DEF IInv, TypeOK, CounterInv, SenderInv, PeerInv, Recorded,
     RegisterRequest, readVars, peerVars
<1>7. NoRequestForgotten'
  BY RegistersFresh DEF IInv, TypeOK, CounterInv, NoRequestForgotten, RegisterRequest, readVars
<1>8. CompletedByOwnAnswer'
  BY DEF IInv, TypeOK, CompletedByOwnAnswer, RegisterRequest, peerVars, Settled, Completed,
     Failed
<1>. QED BY <1>1, <1>2, <1>3, <1>4, <1>5, <1>6, <1>7, <1>8 DEF IInv

\* What is written has an id.
LEMMA WriteRequestInv ==
    ASSUME IInv, NEW t \in Threads, WriteRequest(t)
    PROVE  IInv'
<1>1. TypeOK'
  BY DEF IInv, TypeOK, SenderInv, WriteRequest, readVars
<1>2. CounterInv'
  BY DEF IInv, CounterInv, Numbered, WriteRequest
<1>3. TableInv'
  BY DEF IInv, TableInv, WriteRequest
<1>4. SenderInv'
  BY IdsAssumption, ThreadsAssumption DEF IInv, TypeOK, SenderInv, WriteRequest, Threads
<1>5. ReaderInv'
  BY DEF IInv, ReaderInv, WriteRequest, readVars
<1>6. PeerInv'
  BY DEF IInv, TypeOK, SenderInv, PeerInv, Recorded, WriteRequest, readVars
<1>7. NoRequestForgotten'
  BY DEF IInv, NoRequestForgotten, WriteRequest, readVars
<1>8. CompletedByOwnAnswer'
  BY DEF IInv, CompletedByOwnAnswer, WriteRequest
<1>. QED BY <1>1, <1>2, <1>3, <1>4, <1>5, <1>6, <1>7, <1>8 DEF IInv

\* The first of some responses and the rest of them.
LEMMA Proceeds ==
    ASSUME TypeOK, NEW t \in Readers, NEW responses \in Seq(Response), Recorded(responses),
           ProceedWith(t, responses)
    PROVE  /\ rpc' \in [Readers -> {"idle", "find", "complete"}]
           /\ rresp' \in [Readers -> Response \union {None}]
           /\ rrest' \in [Readers -> Seq(Response)]
           /\ rpc'[t] \in {"idle", "find"}
           /\ rpc'[t] # "idle" => rresp'[t] \in Response
           /\ rpc'[t] # "idle" /\ rresp'[t].id \in Ids => rresp'[t] \in answered
           /\ Recorded(rrest'[t])
           /\ \A u \in Readers \ {t} :
                 rpc'[u] = rpc[u] /\ rresp'[u] = rresp[u] /\ rrest'[u] = rrest[u]
<1>1. CASE responses = <<>>
  <2>1. rpc'[t] = "idle" /\ rresp'[t] = None /\ rrest'[t] = <<>>
    BY <1>1 DEF TypeOK, ProceedWith
  <2>. QED BY <1>1, <2>1 DEF TypeOK, ProceedWith, Recorded
<1>2. CASE responses # <<>>
  <2>1. /\ Head(responses) \in Response
        /\ Head(responses) = responses[1]
        /\ 1 \in DOMAIN responses
        /\ Tail(responses) \in Seq(Response)
        /\ \A j \in DOMAIN Tail(responses) :
              j + 1 \in DOMAIN responses /\ Tail(responses)[j] = responses[j + 1]
    BY <1>2, HeadTailProperties, EmptySeq
  <2>2. rpc'[t] = "find" /\ rresp'[t] = Head(responses) /\ rrest'[t] = Tail(responses)
    BY <1>2 DEF TypeOK, ProceedWith
  <2>3. Recorded(Tail(responses))
    BY <2>1 DEF Recorded
  <2>4. Head(responses).id \in Ids => Head(responses) \in answered
    BY <2>1 DEF Recorded
  <2>. QED BY <1>2, <2>1, <2>2, <2>3, <2>4 DEF TypeOK, ProceedWith
<1>. QED BY <1>1, <1>2

\* A request that was sent has an id.
LEMMA SentHasId ==
    ASSUME IInv, NEW r \in Requests, outcome[r] = "sent"
    PROVE  messageId[r] \in Ids
<1>1. messageId[r] # None
  BY DEF IInv, CounterInv
<1>. QED BY <1>1 DEF IInv, TypeOK

\* The other readers keep what they have when one goes on with a response, if it has no
\* result object and the requests of the others are not touched.
LEMMA OthersKeep ==
    ASSUME IInv, NEW t \in Readers,
           rpc'[t] \in {"idle", "find"}, rpc'[t] # "idle" => rresp'[t] \in Response,
           rresult'[t] = None,
           \A u \in Readers \ {t} :
                 /\ rpc'[u] = rpc[u] /\ rresp'[u] = rresp[u] /\ rresult'[u] = rresult[u]
                 /\ rresult[u] # None => outcome'[rresult[u]] = outcome[rresult[u]],
           m_pendingRequests' = m_pendingRequests,
           messageId' = messageId
    PROVE  ReaderInv'
<1>1. \A u \in Readers : rpc'[u] # "idle" => rresp'[u] \in Response
  BY DEF IInv, ReaderInv
<1>2. \A u \in Readers : rpc'[u] = "complete" <=> rresult'[u] # None
  BY DEF IInv, ReaderInv
<1>3. ASSUME NEW u \in Readers, rresult'[u] # None
      PROVE  /\ outcome'[rresult'[u]] = "sent"
             /\ messageId'[rresult'[u]] = rresp'[u].id
             /\ m_pendingRequests'[rresp'[u].id] # rresult'[u]
  BY <1>3 DEF IInv, ReaderInv
<1>4. \A u, v \in Readers : rresult'[u] = rresult'[v] /\ rresult'[u] # None => u = v
  BY DEF IInv, ReaderInv
<1>. QED BY <1>1, <1>2, <1>3, <1>4 DEF ReaderInv

\* A reader takes the oldest packet of the inbox.
LEMMA ReadPacketInv ==
    ASSUME IInv, NEW t \in Readers, ReadPacket(t)
    PROVE  IInv'
<1>. DEFINE packet == Head(inbox)
<1>1. /\ packet = inbox[1]
      /\ inbox' \in Seq(Packets)
      /\ Len(inbox') = Len(inbox) - 1
      /\ \A i \in 1 .. Len(inbox') : inbox'[i] = inbox[i + 1]
      /\ Len(inbox) \in Nat \ {0}
  BY HeadTailProperties, EmptySeq DEF IInv, TypeOK, ReadPacket
<1>2. packet \in Seq(Response)
  <2>1. packet \in Packets
    BY <1>1, ElementOfSeq DEF IInv, TypeOK
  <2>. QED BY <2>1, PacketsAssumption
<1>3. Recorded(packet)
  BY <1>1 DEF IInv, PeerInv
<1>4. ProceedWith(t, packet) /\ TypeOK
  BY DEF ReadPacket, IInv
<1>. HIDE DEF packet
<1>5. /\ rpc' \in [Readers -> {"idle", "find", "complete"}]
      /\ rresp' \in [Readers -> Response \union {None}]
      /\ rrest' \in [Readers -> Seq(Response)]
      /\ rpc'[t] \in {"idle", "find"}
      /\ rpc'[t] # "idle" => rresp'[t] \in Response
      /\ rpc'[t] # "idle" /\ rresp'[t].id \in Ids => rresp'[t] \in answered
      /\ Recorded(rrest'[t])
      /\ \A u \in Readers \ {t} :
            rpc'[u] = rpc[u] /\ rresp'[u] = rresp[u] /\ rrest'[u] = rrest[u]
  BY <1>2, <1>3, <1>4, Proceeds
<1>6. TypeOK'
  BY <1>1, <1>5 DEF IInv, TypeOK, ReadPacket, sendVars
<1>7. CounterInv'
  BY DEF IInv, CounterInv, Numbered, ReadPacket
<1>8. TableInv'
  BY DEF IInv, TableInv, ReadPacket
<1>9. SenderInv'
  BY DEF IInv, SenderInv, ReadPacket, sendVars
<1>10. ReaderInv'
  <2>1. /\ rresult' = rresult
        /\ rresult[t] = None
        /\ outcome' = outcome /\ messageId' = messageId
        /\ m_pendingRequests' = m_pendingRequests
    BY DEF IInv, ReaderInv, ReadPacket
  <2>. QED BY <1>5, <2>1, OthersKeep
<1>11. PeerInv'
  <2>1. \A id \in wire' : \E r \in Requests : messageId'[r] = id
    BY DEF IInv, PeerInv, ReadPacket
  <2>2. answered' = answered
    BY DEF ReadPacket
  <2>3. \A i \in 1 .. Len(inbox') : Recorded(inbox'[i])
    BY <1>1 DEF IInv, PeerInv
  <2>4. \A u \in Readers : Recorded(rrest'[u])
    BY <1>5 DEF IInv, PeerInv
  <2>5. \A u \in Readers : rpc'[u] # "idle" /\ rresp'[u].id \in Ids => rresp'[u] \in answered
    BY <1>5 DEF IInv, PeerInv
  <2>. QED BY <2>1, <2>2, <2>3, <2>4, <2>5 DEF PeerInv, Recorded
<1>12. NoRequestForgotten'
  BY DEF IInv, NoRequestForgotten, ReadPacket
<1>13. CompletedByOwnAnswer'
  BY DEF IInv, CompletedByOwnAnswer, ReadPacket
<1>. QED BY <1>6, <1>7, <1>8, <1>9, <1>10, <1>11, <1>12, <1>13 DEF IInv

\* The result object moves from the table to the reader.
LEMMA FindPendingInv ==
    ASSUME IInv, NEW t \in Readers, FindPending(t)
    PROVE  IInv'
<1>1. TypeOK'
  BY DEF IInv, TypeOK, FindPending, IsPending, Erased, sendVars, peerVars
<1>2. CounterInv'
  BY DEF IInv, CounterInv, Numbered, FindPending
<1>3. TableInv'
  BY IdsAssumption DEF IInv, TableInv, FindPending, Erased
<1>4. SenderInv'
  BY DEF IInv, SenderInv, FindPending, sendVars
<1>5. ReaderInv'
  <2>. DEFINE id == rresp[t].id
              r == m_pendingRequests[id]
  <2>1. id \in Ids /\ r \in Requests /\ r # None
    BY IdsAssumption DEF IInv, TypeOK, FindPending, IsPending
  <2>2. messageId[r] = id /\ outcome[r] = "sent"
    BY <2>1 DEF IInv, TableInv
  <2>3. /\ rresp' = rresp /\ messageId' = messageId /\ outcome' = outcome
        /\ rpc[t] = "find"
        /\ rpc'[t] = "complete" /\ \A u \in Readers \ {t} : rpc'[u] = rpc[u]
        /\ rresult'[t] = r /\ \A u \in Readers \ {t} : rresult'[u] = rresult[u]
        /\ m_pendingRequests'[id] = None
        /\ \A i \in Ids \ {id} : m_pendingRequests'[i] = m_pendingRequests[i]
    BY <2>1 DEF IInv, TypeOK, FindPending, Erased
  <2>4. ASSUME NEW u \in Readers \ {t}, rresult[u] # None
        PROVE  rresult[u] # r /\ m_pendingRequests'[rresp[u].id] # rresult[u]
    <3>1. /\ outcome[rresult[u]] = "sent"
          /\ messageId[rresult[u]] = rresp[u].id
          /\ m_pendingRequests[rresp[u].id] # rresult[u]
      BY <2>4 DEF IInv, ReaderInv
    <3>2. rresult[u] \in Requests
      BY <2>4 DEF IInv, TypeOK
    <3>3. rresp[u].id \in Ids
      BY <3>1, <3>2, SentHasId
    <3>4. rresult[u] # r
      BY <3>1, <2>2
    <3>5. CASE rresp[u].id = id
      BY <3>4, <3>5, <2>3, <2>4
    <3>6. CASE rresp[u].id # id
      <4>1. rresp[u].id \in Ids \ {id}
        BY <3>3, <3>6
      <4>2. m_pendingRequests'[rresp[u].id] = m_pendingRequests[rresp[u].id]
        BY <4>1, <2>3
      <4>. QED BY <4>2, <3>1, <3>4
    <3>. QED BY <3>4, <3>5, <3>6
  <2>5. \A u \in Readers : rpc'[u] # "idle" => rresp'[u] \in Response
    BY <2>3 DEF IInv, ReaderInv
  <2>6. \A u \in Readers : rpc'[u] = "complete" <=> rresult'[u] # None
    BY <2>1, <2>3 DEF IInv, ReaderInv
  <2>7. ASSUME NEW u \in Readers, rresult'[u] # None
        PROVE  /\ outcome'[rresult'[u]] = "sent"
               /\ messageId'[rresult'[u]] = rresp'[u].id
               /\ m_pendingRequests'[rresp'[u].id] # rresult'[u]
    BY <2>1, <2>2, <2>3, <2>4, <2>7 DEF IInv, ReaderInv
  <2>8. \A u, v \in Readers : rresult'[u] = rresult'[v] /\ rresult'[u] # None => u = v
    BY <2>3, <2>4 DEF IInv, ReaderInv
  <2>. QED BY <2>5, <2>6, <2>7, <2>8 DEF ReaderInv
<1>6. PeerInv'
  BY DEF IInv, PeerInv, Recorded, FindPending, peerVars
<1>7. NoRequestForgotten'
  BY IdsAssumption DEF IInv, TypeOK, ReaderInv, NoRequestForgotten, FindPending, Erased
<1>8. CompletedByOwnAnswer'
  BY DEF IInv, CompletedByOwnAnswer, FindPending, peerVars
<1>. QED BY <1>1, <1>2, <1>3, <1>4, <1>5, <1>6, <1>7, <1>8 DEF IInv

\* A response that nobody waits for changes nothing else.
LEMMA IgnoreResponseInv ==
    ASSUME IInv, NEW t \in Readers, IgnoreResponse(t)
    PROVE  IInv'
<1>1. /\ rpc' \in [Readers -> {"idle", "find", "complete"}]
      /\ rresp' \in [Readers -> Response \union {None}]
      /\ rrest' \in [Readers -> Seq(Response)]
      /\ rpc'[t] \in {"idle", "find"}
      /\ rpc'[t] # "idle" => rresp'[t] \in Response
      /\ rpc'[t] # "idle" /\ rresp'[t].id \in Ids => rresp'[t] \in answered
      /\ Recorded(rrest'[t])
      /\ \A u \in Readers \ {t} :
            rpc'[u] = rpc[u] /\ rresp'[u] = rresp[u] /\ rrest'[u] = rrest[u]
  <2>1. rrest[t] \in Seq(Response) /\ Recorded(rrest[t]) /\ ProceedWith(t, rrest[t]) /\ TypeOK
    BY DEF IInv, TypeOK, PeerInv, IgnoreResponse
  <2>. QED BY <2>1, Proceeds
<1>2. TypeOK'
  BY <1>1 DEF IInv, TypeOK, IgnoreResponse, sendVars, peerVars
<1>3. CounterInv'
  BY DEF IInv, CounterInv, Numbered, IgnoreResponse
<1>4. TableInv'
  BY DEF IInv, TableInv, IgnoreResponse
<1>5. SenderInv'
  BY DEF IInv, SenderInv, IgnoreResponse, sendVars
<1>6. ReaderInv'
  <2>1. /\ rresult' = rresult
        /\ rresult[t] = None
        /\ outcome' = outcome /\ messageId' = messageId
        /\ m_pendingRequests' = m_pendingRequests
    BY DEF IInv, ReaderInv, IgnoreResponse
  <2>. QED BY <1>1, <2>1, OthersKeep
<1>7. PeerInv'
  <2>1. \A u \in Readers : rpc'[u] # "idle" /\ rresp'[u].id \in Ids => rresp'[u] \in answered
    BY <1>1 DEF IInv, PeerInv
  <2>2. \A u \in Readers : Recorded(rrest'[u])
    BY <1>1 DEF IInv, PeerInv
  <2>. QED BY <2>1, <2>2 DEF IInv, PeerInv, Recorded, IgnoreResponse, peerVars
<1>8. NoRequestForgotten'
  BY DEF IInv, NoRequestForgotten, IgnoreResponse
<1>9. CompletedByOwnAnswer'
  BY DEF IInv, CompletedByOwnAnswer, IgnoreResponse, peerVars
<1>. QED BY <1>2, <1>3, <1>4, <1>5, <1>6, <1>7, <1>8, <1>9 DEF IInv

\* Whether or not there was an exception, the request is settled in the way its own
\* answer says, and the reader goes on with responses that the peer has sent.
LEMMA FinishResultInv ==
    ASSUME IInv, NEW t \in Readers, FinishResult(t),
           NEW responses \in {rrest[t], <<>>}, ProceedWith(t, responses),
           t_currentRequestId' \in [Readers -> Ids \union StrayIds \union {None}],
           abandoned' \subseteq Ids
    PROVE  IInv'
<1>. DEFINE r == rresult[t]
<1>1. /\ rpc' \in [Readers -> {"idle", "find", "complete"}]
      /\ rresp' \in [Readers -> Response \union {None}]
      /\ rrest' \in [Readers -> Seq(Response)]
      /\ rpc'[t] \in {"idle", "find"}
      /\ rpc'[t] # "idle" => rresp'[t] \in Response
      /\ rpc'[t] # "idle" /\ rresp'[t].id \in Ids => rresp'[t] \in answered
      /\ Recorded(rrest'[t])
      /\ \A u \in Readers \ {t} :
            rpc'[u] = rpc[u] /\ rresp'[u] = rresp[u] /\ rrest'[u] = rrest[u]
  <2>1. rrest[t] \in Seq(Response) /\ Recorded(rrest[t]) /\ TypeOK
    BY DEF IInv, TypeOK, PeerInv
  <2>2. <<>> \in Seq(Response) /\ Recorded(<<>>)
    BY DEF Recorded
  <2>3. responses \in Seq(Response) /\ Recorded(responses)
    BY <2>1, <2>2
  <2>. QED BY <2>1, <2>3, Proceeds
<1>2. r \in Requests /\ messageId[r] = rresp[t].id /\ outcome[r] = "sent"
  BY IdsAssumption DEF IInv, TypeOK, ReaderInv, FinishResult
<1>3. rresp[t] \in Response /\ rresp[t] \in answered /\ messageId[r] \in Ids
  <2>1. messageId[r] \in Ids
    BY <1>2, SentHasId
  <2>. QED BY <1>2, <2>1 DEF IInv, ReaderInv, PeerInv, FinishResult
<1>4. /\ outcome'[r] = OutcomeOf(r, rresp[t])
      /\ \A q \in Requests \ {r} : outcome'[q] = outcome[q]
  BY <1>2 DEF IInv, TypeOK, FinishResult
<1>5. OutcomeOf(r, rresp[t]) \in Settled /\ KindOf(OutcomeOf(r, rresp[t])) = rresp[t].kind
  <2>1. rresp[t].kind \in {"value", "error", "wrongType"}
    BY <1>3 DEF Response
  <2>2. CASE rresp[t].kind = "value"
    BY <2>2 DEF OutcomeOf, setValueFromJson, KindOf, Settled, Completed, Failed
  <2>3. CASE rresp[t].kind = "error"
    BY <2>3 DEF OutcomeOf, setError, KindOf, Settled, Completed, Failed
  <2>4. CASE rresp[t].kind = "wrongType"
    BY <2>4 DEF OutcomeOf, setValueFromJson, KindOf, Settled, Completed, Failed
  <2>. QED BY <2>1, <2>2, <2>3, <2>4
<1>6. outcome'[r] \in Settled
  BY <1>4, <1>5
<1>7. TypeOK'
  BY <1>1, <1>2, <1>5 DEF IInv, TypeOK, FinishResult, sendVars, peerVars
<1>8. CounterInv'
  <2>1. \A q \in Requests : outcome'[q] \in {"new", "calling"} <=> outcome[q] \in {"new", "calling"}
    BY <1>2, <1>4, <1>6 DEF Settled, Completed, Failed
  <2>2. Numbered' = Numbered
    BY DEF Numbered, FinishResult
  <2>. QED BY <2>1, <2>2 DEF IInv, CounterInv, Numbered, FinishResult
<1>9. TableInv'
  BY DEF IInv, TableInv, ReaderInv, FinishResult
<1>10. SenderInv'
  BY DEF IInv, SenderInv, ReaderInv, FinishResult, sendVars
<1>11. ReaderInv'
  <2>1. rresult'[t] = None /\ \A u \in Readers \ {t} : rresult'[u] = rresult[u]
    BY DEF IInv, TypeOK, FinishResult
  <2>2. \A u \in Readers \ {t} : rresult[u] # None => rresult[u] # r
    BY <1>2, IdsAssumption DEF IInv, ReaderInv
  <2>3. \A u \in Readers \ {t} : rresult[u] # None =>
            outcome'[rresult[u]] = outcome[rresult[u]]
    BY <1>4, <2>2 DEF IInv, TypeOK
  <2>. QED BY <1>1, <2>1, <2>3, OthersKeep DEF FinishResult
<1>12. PeerInv'
  <2>1. \A u \in Readers : rpc'[u] # "idle" /\ rresp'[u].id \in Ids => rresp'[u] \in answered
    BY <1>1 DEF IInv, PeerInv
  <2>2. \A u \in Readers : Recorded(rrest'[u])
    BY <1>1 DEF IInv, PeerInv
  <2>. QED BY <2>1, <2>2 DEF IInv, PeerInv, Recorded, FinishResult, peerVars
<1>13. NoRequestForgotten'
  <2>. SUFFICES ASSUME NEW q \in Requests, outcome'[q] = "sent"
                PROVE  \/ messageId'[q] \in Ids /\ m_pendingRequests'[messageId'[q]] = q
                       \/ \E u \in Readers : rresult'[u] = q
    BY DEF NoRequestForgotten
  <2>1. q # r /\ outcome[q] = "sent"
    BY <1>4, <1>6 DEF Settled, Completed, Failed
  <2>2. \A u \in Readers : rresult[u] = q => rresult'[u] = q
    BY <2>1 DEF IInv, TypeOK, FinishResult
  <2>. QED BY <2>1, <2>2 DEF IInv, NoRequestForgotten, FinishResult
<1>14. CompletedByOwnAnswer'
  <2>1. messageId' = messageId /\ answered' = answered
    BY DEF FinishResult, peerVars
  <2>2. [id |-> messageId[r], kind |-> KindOf(outcome'[r])] \in answered
    <3>1. rresp[t] = [id |-> rresp[t].id, kind |-> rresp[t].kind]
      BY <1>3 DEF Response
    <3>. QED BY <3>1, <1>2, <1>3, <1>4, <1>5
  <2>3. \A q \in Requests \ {r} : outcome'[q] \in Settled =>
            [id |-> messageId[q], kind |-> KindOf(outcome'[q])] \in answered
    BY <1>4 DEF IInv, CompletedByOwnAnswer
  <2>. QED BY <2>1, <2>2, <2>3 DEF CompletedByOwnAnswer
<1>. QED BY <1>7, <1>8, <1>9, <1>10, <1>11, <1>12, <1>13, <1>14 DEF IInv

\* The reader goes on with the rest of the batch.
LEMMA CompleteRequestInv ==
    ASSUME IInv, NEW t \in Readers, CompleteRequest(t)
    PROVE  IInv'
<1>1. t_currentRequestId' \in [Readers -> Ids \union StrayIds \union {None}]
  BY DEF IInv, TypeOK, CompleteRequest
<1>2. abandoned' \subseteq Ids
  BY DEF IInv, TypeOK, CompleteRequest
<1>. QED BY <1>1, <1>2, FinishResultInv DEF CompleteRequest

\* The reader leaves the batch.
LEMMA CompletionThrowsInv ==
    ASSUME IInv, NEW t \in Readers, CompletionThrows(t)
    PROVE  IInv'
<1>1. t_currentRequestId' \in [Readers -> Ids \union StrayIds \union {None}]
  BY DEF IInv, TypeOK, CompletionThrows
<1>2. abandoned' \subseteq Ids
  BY DEF IInv, TypeOK, CompletionThrows
<1>. QED BY <1>1, <1>2, FinishResultInv DEF CompletionThrows

\* The peer records what it answers.
LEMMA PeerRespondsInv ==
    ASSUME IInv, NEW packet \in Packets, PeerResponds(packet)
    PROVE  IInv'
<1>1. TypeOK'
  <2>1. inbox' \in Seq(Packets)
    BY DEF IInv, TypeOK, PeerResponds
  <2>2. answered' \subseteq Response
    <3>1. packet \in Seq(Response)
      BY PacketsAssumption
    <3>2. Range(packet) \subseteq Response
      BY <3>1, ElementOfSeq DEF Range
    <3>. QED BY <3>2 DEF IInv, TypeOK, PeerResponds
  <2>. QED BY <2>1, <2>2 DEF IInv, TypeOK, PeerResponds, sendVars, readVars
<1>2. CounterInv'
  BY DEF IInv, CounterInv, Numbered, PeerResponds
<1>3. TableInv'
  BY DEF IInv, TableInv, PeerResponds
<1>4. SenderInv'
  BY DEF IInv, SenderInv, PeerResponds, sendVars
<1>5. ReaderInv'
  BY DEF IInv, ReaderInv, PeerResponds, readVars
<1>6. PeerInv'
  <2>1. answered \subseteq answered'
    BY DEF PeerResponds
  <2>2. \A j \in DOMAIN packet : packet[j].id \in Ids => packet[j] \in answered'
    BY DEF PeerResponds, Range
  <2>3. \A i \in 1 .. Len(inbox') :
            (i \in 1 .. Len(inbox) /\ inbox'[i] = inbox[i]) \/ inbox'[i] = packet
    BY DEF IInv, TypeOK, PeerResponds
  <2>4. \A i \in 1 .. Len(inbox') : \A j \in DOMAIN inbox'[i] :
            inbox'[i][j].id \in Ids => inbox'[i][j] \in answered'
    BY <2>1, <2>2, <2>3 DEF IInv, PeerInv, Recorded
  <2>5. \A u \in Readers : rrest'[u] = rrest[u] /\ rpc'[u] = rpc[u] /\ rresp'[u] = rresp[u]
    BY DEF PeerResponds, readVars
  <2>6. \A id \in wire' : \E r \in Requests : messageId'[r] = id
    BY DEF IInv, PeerInv, PeerResponds
  <2>. QED BY <2>1, <2>4, <2>5, <2>6 DEF IInv, PeerInv, Recorded
<1>7. NoRequestForgotten'
  BY DEF IInv, NoRequestForgotten, PeerResponds, readVars
<1>8. CompletedByOwnAnswer'
  BY DEF IInv, CompletedByOwnAnswer, PeerResponds
<1>. QED BY <1>1, <1>2, <1>3, <1>4, <1>5, <1>6, <1>7, <1>8 DEF IInv

-----------------------------------------------------------------------------
(* Theorems. *)

\* Every step keeps the invariant.
LEMMA StepInv == IInv /\ [Next]_vars => IInv'
<1>. SUFFICES ASSUME IInv, [Next]_vars PROVE IInv'
  OBVIOUS
<1>1. ASSUME NEW t \in Threads, NEW r \in Requests, CallSendRequest(t, r) PROVE IInv'
  BY <1>1, CallSendRequestInv
<1>2. ASSUME NEW t \in Threads, SendStep(t) PROVE IInv'
  BY <1>2, RegisterRequestInv, WriteRequestInv DEF SendStep
<1>3. ASSUME NEW t \in Readers, ReadStep(t) PROVE IInv'
  BY <1>3, ReadPacketInv, FindPendingInv, IgnoreResponseInv, CompleteRequestInv,
     CompletionThrowsInv DEF ReadStep
<1>4. ASSUME NEW packet \in Packets, PeerResponds(packet) PROVE IInv'
  BY <1>4, PeerRespondsInv
<1>5. CASE UNCHANGED vars
  BY <1>5 DEF vars, IInv, TypeOK, CounterInv, Numbered, TableInv, SenderInv, ReaderInv, PeerInv,
     Recorded, NoRequestForgotten, CompletedByOwnAnswer
<1>. QED BY <1>1, <1>2, <1>3, <1>4, <1>5 DEF Next

\* The inductive invariant.
THEOREM Invariance == Spec => []IInv
BY InitInv, StepInv, PTL DEF Spec

\* Types of all variables.
THEOREM TypeCorrect == Spec => []TypeOK
<1>1. IInv => TypeOK
  BY DEF IInv
<1>. QED BY <1>1, Invariance, PTL

\* A request that was sent and not settled is in the table under its own id or in the
\* hands of one reader (messagehandler.cpp:226 and 132): ids that wrap overwrite nothing.
THEOREM NothingIsForgotten == Spec => []NoRequestForgotten
<1>1. IInv => NoRequestForgotten
  BY DEF IInv
<1>. QED BY <1>1, Invariance, PTL

\* A request is settled by an answer to itself, as the answer says, also when the
\* conversion of its result throws.
THEOREM CompletionIsOwn == Spec => []CompletedByOwnAnswer
<1>1. IInv => CompletedByOwnAnswer
  BY DEF IInv
<1>. QED BY <1>1, Invariance, PTL

\* No answer is looked up before its request was registered, however fast the peer is.
THEOREM AnswersAreExpected == Spec => []AnswerFindsRequest
<1>1. IInv => AnswerFindsRequest
  <2>. SUFFICES ASSUME IInv, NEW t \in Readers, rpc[t] = "find", rresp[t].id \in wire,
                       ~IsPending(rresp[t].id)
                PROVE  \E r \in Requests :
                          /\ messageId[r] = rresp[t].id
                          /\ outcome[r] \in Settled \/ \E u \in Readers : rresult[u] = r
    BY DEF AnswerFindsRequest
  <2>1. PICK r \in Requests : messageId[r] = rresp[t].id
    BY DEF IInv, PeerInv
  <2>2. messageId[r] \in Ids /\ messageId[r] # None
    BY <2>1, IdsAssumption DEF IInv, TypeOK
  <2>3. outcome[r] \in {"sent"} \union Settled
    BY <2>2 DEF IInv, TypeOK, CounterInv
  <2>4. m_pendingRequests[messageId[r]] # r
    BY <2>1, <2>2, IdsAssumption DEF IsPending
  <2>5. outcome[r] = "sent" => \E u \in Readers : rresult[u] = r
    BY <2>4 DEF IInv, NoRequestForgotten
  <2>. QED BY <2>1, <2>3, <2>5
<1>. QED BY <1>1, Invariance, PTL

\* The thread that calls a response callback does not hold the mutex of the table, so
\* the callback may call sendRequest (messagehandler.cpp:131 and 224).
THEOREM CallbacksMaySend == Spec => []CallbackMaySend
<1>1. IInv => CallbackMaySend
  BY DEF IInv, SenderInv, CallbackMaySend
<1>. QED BY <1>1, Invariance, PTL

\* A completion is final: no promise is set twice, no second callback called.
THEOREM CompletionIsFinal == Spec => CompletedOnce
<1>1. IInv /\ [Next]_vars =>
        [\A r \in Requests : outcome[r] \in Settled => outcome'[r] = outcome[r]]_vars
  <2>. SUFFICES ASSUME IInv, Next, NEW r \in Requests, outcome[r] \in Settled
                PROVE  outcome'[r] = outcome[r]
    OBVIOUS
  <2>. outcome[r] \notin {"new", "calling", "sent"}
    BY DEF Settled, Completed, Failed
  <2>1. ASSUME NEW t \in Threads, NEW q \in Requests, CallSendRequest(t, q)
        PROVE  outcome'[r] = outcome[r]
    BY <2>1 DEF CallSendRequest, IInv, TypeOK
  <2>2. ASSUME NEW t \in Threads, RegisterRequest(t) PROVE outcome'[r] = outcome[r]
    BY <2>2 DEF RegisterRequest, IInv, TypeOK, SenderInv
  <2>3. ASSUME NEW t \in Threads, WriteRequest(t) PROVE outcome'[r] = outcome[r]
    BY <2>3 DEF WriteRequest
  <2>4. ASSUME NEW t \in Readers, ReadPacket(t) \/ FindPending(t) \/ IgnoreResponse(t)
        PROVE  outcome'[r] = outcome[r]
    BY <2>4 DEF ReadPacket, FindPending, IgnoreResponse
  <2>5. ASSUME NEW t \in Readers, CompleteRequest(t) \/ CompletionThrows(t)
        PROVE  outcome'[r] = outcome[r]
    BY <2>5, IdsAssumption
       DEF CompleteRequest, CompletionThrows, FinishResult, IInv, TypeOK, ReaderInv
  <2>6. ASSUME NEW packet \in Packets, PeerResponds(packet) PROVE outcome'[r] = outcome[r]
    BY <2>6 DEF PeerResponds
  <2>. QED BY <2>1, <2>2, <2>3, <2>4, <2>5, <2>6 DEF Next, SendStep, ReadStep
<1>. QED BY <1>1, Invariance, PTL DEF Spec, CompletedOnce
=============================================================================
