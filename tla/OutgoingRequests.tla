-------------------------- MODULE OutgoingRequests --------------------------
(***************************************************************************)
(* The outgoing half of lsp::MessageHandler (src/lsp/messagehandler.cpp):  *)
(* sendRequest registers a result object under a fresh id in               *)
(* m_pendingRequests and writes the request while it still holds           *)
(* m_pendingRequestsMutex; a thread in processIncomingMessages takes the   *)
(* object out of the table when a response with that id arrives and        *)
(* completes it after it has released the mutex.                           *)
(*                                                                         *)
(* The peer is the environment. It may answer a request more than once, it *)
(* may answer what nobody asked, and its answer may be of the wrong type.  *)
(* Then, or when a callback throws, an exception leaves                    *)
(* processIncomingMessages; the program catches it and calls again. The    *)
(* library is built with NDEBUG: the assertion in line 142 is not there.   *)
(***************************************************************************)
EXTENDS Naturals, Sequences, FiniteSets, Functions

CONSTANTS
    Requests,       \* the calls of sendRequest, each made once
    Futures,        \* those whose result is a std::future; callbacks otherwise
    Apps,           \* threads that call sendRequest
    Readers,        \* threads that call processIncomingMessages
    IdCount,        \* json::Integer has 32 bits: 2^32 ids
    StrayIds,       \* ids the peer may answer although they were never sent
    Packets,        \* the messages and batches of responses that the peer may send
    MaxInbox,       \* bound: packets that wait to be read
    None            \* no thread, request or id

\* Ids are json::Integer values, the peer's stray ones may also be strings.
Ids == 0 .. IdCount - 1

ASSUME ThreadsAssumption == Apps \intersect Readers = {} /\ None \notin Apps \union Readers

\* Not more requests than ids. The counter starts at 0 and the first id is 1,
\* so with as many requests as ids the last one has id 0.
ASSUME IdsAssumption ==
    /\ IdCount \in Nat \ {0}
    /\ IsFiniteSet(Requests)
    /\ Cardinality(Requests) <= IdCount
    /\ Futures \subseteq Requests
    /\ None \notin Requests
    /\ None \notin Ids
    /\ StrayIds \intersect Ids = {}

Threads == Apps \union Readers

\* A result, an error, or a result that is not of the type that the request expects.
Response == [id : Ids \union StrayIds, kind : {"value", "error", "wrongType"}]

ASSUME PacketsAssumption == Packets \subseteq Seq(Response) \ {<<>>}

VARIABLES
    s_uniqueRequestId,
    m_pendingRequestsMutex, \* the thread that holds it
    m_pendingRequests,      \* [Ids -> request whose result object waits there]
    spc,                    \* where each thread is in sendRequest
    sreq,                   \* the request it sends
    messageId,              \* the id each request was given
    wire,                   \* ids of the requests the peer has received
    inbox,                  \* packets that were not read yet
    answered,               \* the answers to requests that the peer has sent
    rpc,                    \* where each reader is in processResponse
    rresp,                  \* its argument
    rrest,                  \* the responses of the same batch that come after it
    rresult,                \* its local variable "result"
    t_currentRequestId,     \* thread_local
    outcome,                \* what became of each request
    abandoned               \* ids of the answers that were lost behind an exception

sendVars == <<spc, sreq>>
readVars == <<rpc, rresp, rrest, rresult, t_currentRequestId, abandoned>>
peerVars == <<wire, inbox, answered>>
vars == <<s_uniqueRequestId, m_pendingRequestsMutex, m_pendingRequests, spc, sreq, messageId,
          wire, inbox, answered, rpc, rresp, rrest, rresult, t_currentRequestId, outcome,
          abandoned>>

\* A request is completed when its promise or callback got the result of the response,
\* its error callback was called, or its promise got a default constructed result. It
\* has failed when its result object was destroyed before that: a future then has the
\* exception broken_promise, and of two callbacks none is ever called.
Completed == {"value", "error", "default"}
Failed == {"broken", "dropped"}
Settled == Completed \union Failed

TypeOK ==
    /\ s_uniqueRequestId \in Ids
    /\ m_pendingRequestsMutex \in Threads \union {None}
    /\ m_pendingRequests \in [Ids -> Requests \union {None}]
    /\ spc \in [Threads -> {"idle", "lock", "write"}]
    /\ sreq \in [Threads -> Requests \union {None}]
    /\ messageId \in [Requests -> Ids \union {None}]
    /\ wire \subseteq Ids
    /\ inbox \in Seq(Packets)
    /\ answered \subseteq Response
    /\ rpc \in [Readers -> {"idle", "find", "complete"}]
    /\ rresp \in [Readers -> Response \union {None}]
    /\ rrest \in [Readers -> Seq(Response)]
    /\ rresult \in [Readers -> Requests \union {None}]
    /\ t_currentRequestId \in [Readers -> Ids \union StrayIds \union {None}]
    /\ outcome \in [Requests -> {"new", "calling", "sent"} \union Settled]
    /\ abandoned \subseteq Ids

Init ==
    /\ s_uniqueRequestId = 0
    /\ m_pendingRequestsMutex = None
    /\ m_pendingRequests = [i \in Ids |-> None]
    /\ spc = [t \in Threads |-> "idle"]
    /\ sreq = [t \in Threads |-> None]
    /\ messageId = [r \in Requests |-> None]
    /\ wire = {}
    /\ inbox = <<>>
    /\ answered = {}
    /\ rpc = [t \in Readers |-> "idle"]
    /\ rresp = [t \in Readers |-> None]
    /\ rrest = [t \in Readers |-> <<>>]
    /\ rresult = [t \in Readers |-> None]
    /\ t_currentRequestId = [t \in Readers |-> None]
    /\ outcome = [r \in Requests |-> "new"]
    /\ abandoned = {}

-----------------------------------------------------------------------------
(* sendRequest, messagehandler.cpp:222. *)

\* One of the two callbacks of the request runs in a reader.
CallsBack(t) ==
    rpc[t] = "complete" /\ rresult[t] \notin Futures /\ rresp[t].kind # "wrongType"

\* An application thread, or a reader from inside of a response callback.
CallSendRequest(t, r) ==
    /\ spc[t] = "idle"
    /\ t \in Readers => CallsBack(t)
    /\ outcome[r] = "new"
    /\ spc' = [spc EXCEPT ![t] = "lock"]
    /\ sreq' = [sreq EXCEPT ![t] = r]
    /\ outcome' = [outcome EXCEPT ![r] = "calling"]
    /\ UNCHANGED <<s_uniqueRequestId, m_pendingRequestsMutex, m_pendingRequests, messageId,
                   peerVars, readVars>>

\* Variants: the counter is narrower than an id; it does not wrap at all.
nextUniqueRequestId_Narrow == (s_uniqueRequestId + 1) % (IdCount - 1)
nextUniqueRequestId_Wide == s_uniqueRequestId + 1

\* messagehandler.cpp:9, an atomic increment of a 32 bit integer.
nextUniqueRequestId == (s_uniqueRequestId + 1) % IdCount

\* Lines 224 to 226.
RegisterRequest(t) ==
    /\ spc[t] = "lock"
    /\ m_pendingRequestsMutex = None
    /\ m_pendingRequestsMutex' = t
    /\ s_uniqueRequestId' = nextUniqueRequestId
    /\ m_pendingRequests' = [m_pendingRequests EXCEPT ![nextUniqueRequestId] = sreq[t]]
    /\ messageId' = [messageId EXCEPT ![sreq[t]] = nextUniqueRequestId]
    /\ spc' = [spc EXCEPT ![t] = "write"]
    /\ outcome' = [outcome EXCEPT ![sreq[t]] = "sent"]
    /\ UNCHANGED <<sreq, peerVars, readVars>>

\* Lines 228 and 229: the request is written, or the error of the write is dropped;
\* either way the mutex is released and the id returned.
WriteRequest(t) ==
    /\ spc[t] = "write"
    /\ \/ wire' = wire \union {messageId[sreq[t]]}
       \/ UNCHANGED wire
    /\ m_pendingRequestsMutex' = None
    /\ spc' = [spc EXCEPT ![t] = "idle"]
    /\ sreq' = [sreq EXCEPT ![t] = None]
    /\ UNCHANGED <<s_uniqueRequestId, m_pendingRequests, messageId, inbox, answered, readVars,
                   outcome>>

-----------------------------------------------------------------------------
(* processResponse, messagehandler.cpp:125. *)

\* Line 40 for a single response, the iterations of line 49 for a batch: the reader goes
\* on with the first of the responses, or returns when there is none.
ProceedWith(t, responses) ==
    /\ rpc' = [rpc EXCEPT ![t] = IF responses = <<>> THEN "idle" ELSE "find"]
    /\ rresp' = [rresp EXCEPT ![t] = IF responses = <<>> THEN None ELSE Head(responses)]
    /\ rrest' = [rrest EXCEPT ![t] = IF responses = <<>> THEN <<>> ELSE Tail(responses)]

\* processIncomingMessages has read a response or a batch of them (line 25).
ReadPacket(t) ==
    /\ rpc[t] = "idle"
    /\ inbox # <<>>
    /\ inbox' = Tail(inbox)
    /\ ProceedWith(t, Head(inbox))
    /\ UNCHANGED <<s_uniqueRequestId, m_pendingRequestsMutex, m_pendingRequests, sendVars,
                   messageId, wire, answered, rresult, t_currentRequestId, outcome, abandoned>>

\* Variant: an id of 0 is taken for no id.
IsPending_NotZero(id) == id \in Ids \ {0} /\ m_pendingRequests[id] # None

IsPending(id) == id \in Ids /\ m_pendingRequests[id] # None

\* Variant: the entry stays in the table.
Erased_Not(id) == m_pendingRequests

Erased(id) == [m_pendingRequests EXCEPT ![id] = None]

\* Variant: the mutex is not released before the result object is called.
FindPending_KeepsLock(t) ==
    LET id == rresp[t].id
    IN  /\ rpc[t] = "find"
        /\ m_pendingRequestsMutex = None
        /\ IsPending(id)
        /\ m_pendingRequestsMutex' = t
        /\ rresult' = [rresult EXCEPT ![t] = m_pendingRequests[id]]
        /\ m_pendingRequests' = Erased(id)
        /\ t_currentRequestId' = [t_currentRequestId EXCEPT ![t] = id]
        /\ rpc' = [rpc EXCEPT ![t] = "complete"]
        /\ UNCHANGED <<s_uniqueRequestId, sendVars, messageId, peerVars, rresp, rrest, outcome,
                       abandoned>>

\* Lines 131 to 136 and 143, one critical section. The id that an exception has left
\* behind is overwritten.
FindPending(t) ==
    LET id == rresp[t].id
    IN  /\ rpc[t] = "find"
        /\ m_pendingRequestsMutex = None
        /\ IsPending(id)
        /\ rresult' = [rresult EXCEPT ![t] = m_pendingRequests[id]]
        /\ m_pendingRequests' = Erased(id)
        /\ t_currentRequestId' = [t_currentRequestId EXCEPT ![t] = id]
        /\ rpc' = [rpc EXCEPT ![t] = "complete"]
        /\ UNCHANGED <<s_uniqueRequestId, m_pendingRequestsMutex, sendVars, messageId, peerVars,
                       rresp, rrest, outcome, abandoned>>

\* Line 139: nobody waits for this response.
IgnoreResponse(t) ==
    /\ rpc[t] = "find"
    /\ m_pendingRequestsMutex = None
    /\ ~IsPending(rresp[t].id)
    /\ ProceedWith(t, rrest[t])
    /\ UNCHANGED <<s_uniqueRequestId, m_pendingRequestsMutex, m_pendingRequests, sendVars,
                   messageId, peerVars, rresult, t_currentRequestId, outcome, abandoned>>

\* messagehandler.inl:264 and 283: the result is converted first, and fromJson throws
\* when it has the wrong type (268, 287).
setValueFromJson(r, resp) ==
    IF resp.kind = "value" THEN "value" ELSE IF r \in Futures THEN "broken" ELSE "dropped"

\* messagehandler.inl:272 and 291: a future gets T() in place of the error.
setError(r) == IF r \in Futures THEN "default" ELSE "error"

\* Variant: the error branch is never taken.
OutcomeOf_NoError(r, resp) == "value"

\* Lines 145 to 154.
OutcomeOf(r, resp) == IF resp.kind = "error" THEN setError(r) ELSE setValueFromJson(r, resp)

\* Lines 145 to 157, the result object is destroyed. A callback has returned from the
\* sendRequest it called, if any.
FinishResult(t) ==
    /\ rpc[t] = "complete"
    /\ spc[t] = "idle"
    /\ outcome' = [outcome EXCEPT ![rresult[t]] = OutcomeOf(rresult[t], rresp[t])]
    /\ rresult' = [rresult EXCEPT ![t] = None]
    /\ UNCHANGED <<s_uniqueRequestId, m_pendingRequestsMutex, m_pendingRequests, sendVars,
                   messageId, peerVars>>

\* The callback, or set_value, has returned.
CompleteRequest(t) ==
    /\ FinishResult(t)
    /\ rresp[t].kind # "wrongType"
    /\ t_currentRequestId' = [t_currentRequestId EXCEPT ![t] = None]
    /\ ProceedWith(t, rrest[t])
    /\ UNCHANGED abandoned

\* The conversion, or the callback that was called, throws: line 156 is skipped and the
\* rest of the batch is not processed.
CompletionThrows(t) ==
    /\ FinishResult(t)
    /\ rresp[t].kind = "wrongType" \/ CallsBack(t)
    /\ abandoned' = abandoned \union ({resp.id : resp \in Range(rrest[t])} \intersect Ids)
    /\ ProceedWith(t, <<>>)
    /\ UNCHANGED t_currentRequestId

-----------------------------------------------------------------------------
(* The peer. *)

PeerResponds(packet) ==
    /\ \A i \in DOMAIN packet : packet[i].id \in wire \union StrayIds
    /\ Len(inbox) < MaxInbox
    /\ inbox' = Append(inbox, packet)
    /\ answered' = answered \union {resp \in Range(packet) : resp.id \in Ids}
    /\ UNCHANGED <<s_uniqueRequestId, m_pendingRequestsMutex, m_pendingRequests, sendVars,
                   messageId, wire, readVars, outcome>>

\* Variant: the request is written first and registered afterwards.
SendStep_WriteFirst(t) ==
    \/ /\ spc[t] = "lock"
       /\ s_uniqueRequestId' = nextUniqueRequestId
       /\ messageId' = [messageId EXCEPT ![sreq[t]] = nextUniqueRequestId]
       /\ wire' = wire \union {nextUniqueRequestId}
       /\ spc' = [spc EXCEPT ![t] = "write"]
       /\ UNCHANGED <<m_pendingRequestsMutex, m_pendingRequests, sreq, inbox, answered, readVars,
                      outcome>>
    \/ /\ spc[t] = "write"
       /\ m_pendingRequestsMutex = None
       /\ m_pendingRequests' = [m_pendingRequests EXCEPT ![messageId[sreq[t]]] = sreq[t]]
       /\ outcome' = [outcome EXCEPT ![sreq[t]] = "sent"]
       /\ spc' = [spc EXCEPT ![t] = "idle"]
       /\ sreq' = [sreq EXCEPT ![t] = None]
       /\ UNCHANGED <<s_uniqueRequestId, m_pendingRequestsMutex, messageId, peerVars, readVars>>

SendStep(t) == RegisterRequest(t) \/ WriteRequest(t)

ReadStep(t) ==
    \/ ReadPacket(t)
    \/ FindPending(t)
    \/ IgnoreResponse(t)
    \/ CompleteRequest(t)
    \/ CompletionThrows(t)

Next ==
    \/ \E t \in Threads : SendStep(t) \/ \E r \in Requests : CallSendRequest(t, r)
    \/ \E t \in Readers : ReadStep(t)
    \/ \E packet \in Packets : PeerResponds(packet)

Spec == Init /\ [][Next]_vars

\* Threads are scheduled and the mutexes starve nobody; a write ends, which needs
\* a peer that reads; a reader calls processIncomingMessages again, also after an
\* exception. Nothing is assumed of what the peer or the callers send.
Fairness ==
    /\ \A t \in Threads : WF_vars(SendStep(t))
    /\ \A t \in Readers : WF_vars(ReadStep(t))

FairSpec == Spec /\ Fairness

-----------------------------------------------------------------------------
(* Properties. *)

\* A request that was sent and not settled is in the table under its own id, or
\* in the hands of the reader that completes it: no entry is overwritten, dropped
\* or taken twice.
NoRequestForgotten ==
    \A r \in Requests : outcome[r] = "sent" =>
        \/ messageId[r] \in Ids /\ m_pendingRequests[messageId[r]] = r
        \/ \E t \in Readers : rresult[t] = r

\* An answer never overtakes the registration of its request, however fast the
\* peer is: when a reader looks it up, the request is in the table unless an
\* earlier answer has taken it out (messagehandler.cpp:226 before 228).
AnswerFindsRequest ==
    \A t \in Readers : rpc[t] = "find" /\ rresp[t].id \in wire =>
        \/ IsPending(rresp[t].id)
        \/ \E r \in Requests :
              /\ messageId[r] = rresp[t].id
              /\ outcome[r] \in Settled \/ \E u \in Readers : rresult[u] = r

\* A completion is final: a duplicated answer does not set a promise twice or call
\* a second callback, nor does one complete what has failed.
CompletedOnce ==
    [][\A r \in Requests : outcome[r] \in Settled => outcome'[r] = outcome[r]]_vars

\* What an outcome says of the answer.
KindOf(out) ==
    CASE out = "value" -> "value"
      [] out \in {"error", "default"} -> "error"
      [] out \in Failed -> "wrongType"

\* A request is settled by an answer to itself, and in the way the answer says: with a
\* failure only by a result of the wrong type (messagehandler.inl:268 and 287).
CompletedByOwnAnswer ==
    \A r \in Requests : outcome[r] \in Settled =>
        [id |-> messageId[r], kind |-> KindOf(outcome[r])] \in answered

\* A response callback may call sendRequest: its thread does not hold the mutex.
CallbackMaySend ==
    \A t \in Threads : spc[t] = "lock" => m_pendingRequestsMutex # t

\* An answer to a request that waits in the unread input settles the request. The one
\* exception is an answer in a batch behind one whose completion threw: it is lost
\* (messagehandler.cpp:49), and its request stays pending until another answer comes.
AnswerCompletes ==
    \A r \in Requests :
        (\E i \in DOMAIN inbox : \E resp \in Range(inbox[i]) : resp.id = messageId[r])
            ~> outcome[r] \in Settled \/ messageId[r] \in abandoned

\* README.md:210, "If an error response was returned, the future will rethrow it":
\* no future becomes ready with a value that no response carried.
FutureReportsError == \A r \in Futures : outcome[r] # "default"
=============================================================================
