------------------------- MODULE MCOutgoingRequests -------------------------
(***************************************************************************)
(* Instances of OutgoingRequests for TLC: r1 has callbacks, r2 a future.   *)
(* There are as many ids as requests, so the counter wraps to 0; the first *)
(* id is 1.                                                                *)
(***************************************************************************)
EXTENDS OutgoingRequests, TLC

MCResponse(id, kind) == [id |-> id, kind |-> kind]

\* A result for each request, an error, a stray response, and batches in which an answer
\* comes behind one that makes the completion throw or that nobody waits for.
MCPackets ==
    {<<MCResponse(id, "value")>> : id \in Ids \union StrayIds}
    \union {<<MCResponse(0, "error")>>,
            <<MCResponse(1, "wrongType"), MCResponse(0, "value")>>,
            <<MCResponse(0, "wrongType"), MCResponse(1, "value")>>}
=============================================================================
