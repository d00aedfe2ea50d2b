------------------------- MODULE MCIncomingRequests -------------------------
(***************************************************************************)
(* An instance of IncomingRequests for TLC: one method per kind of handler *)
(* and one that nobody handles, in single packets and in two batches.      *)
(***************************************************************************)
EXTENDS IncomingRequests, TLC

CONSTANTS i1, i2, i3, i4, i5, i6

H(class, async) == [class |-> class, async |-> async]

RegisteredHandlers ==
    [typed |-> H("request", FALSE), typedAsync |-> H("request", TRUE),
     notifyAsync |-> H("notification", TRUE), generic |-> H("generic", FALSE),
     genericAsync |-> H("generic", TRUE), unknown |-> NoHandler]

\* The messages, named by their places.
MessageRecords ==
    [async   |-> [id |-> i1, method |-> "typedAsync"],
     b1      |-> [id |-> i2, method |-> "typedAsync"],
     b2      |-> [id |-> i6, method |-> "notifyAsync"],
     b3      |-> [id |-> i3, method |-> "typed"],
     generic |-> [id |-> i4, method |-> "genericAsync"],
     note    |-> [id |-> Absent, method |-> "generic"],
     lost    |-> [id |-> i5, method |-> "unknown"],
     asked   |-> [id |-> Absent, method |-> "typed"]]

IdOfMessage == [m \in Messages |-> MessageRecords[m].id]
MethodOfMessage == [m \in Messages |-> MessageRecords[m].method]

Batches == [p \in Packets |-> p = "batch"]

Contents == [p \in Packets |-> IF p = "batch" THEN <<"b1", "b2", "b3">> ELSE <<p>>]
=============================================================================
