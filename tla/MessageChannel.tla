--------------------------- MODULE MessageChannel ---------------------------
(***************************************************************************)
(* What two lsp::Connection objects promise to each other over a stream    *)
(* (src/lsp/connection.h), without bytes, headers or locks: messages are   *)
(* taken off the channel whole, once each and in the order in which they   *)
(* were put on it. A write that fails, or a peer that breaks the protocol, *)
(* damages the channel for good: from then on messages may be lost, but    *)
(* still none is altered, repeated or reordered. Connection.tla is shown   *)
(* to implement this specification.                                        *)
(***************************************************************************)
EXTENDS Naturals, Sequences

CONSTANT
    Messages    \* what may be sent, each once

VARIABLES
    queue,      \* sent and neither taken nor lost, oldest first
    taken,      \* taken off the channel, oldest first
    damaged     \* has the stream lost its framing?

vars == <<queue, taken, damaged>>

Used == {queue[i] : i \in DOMAIN queue} \union {taken[i] : i \in DOMAIN taken}

Init ==
    /\ queue = <<>>
    /\ taken = <<>>
    /\ damaged = FALSE

Send(m) ==
    /\ m \notin Used
    /\ queue' = Append(queue, m)
    /\ UNCHANGED <<taken, damaged>>

Take ==
    /\ queue # <<>>
    /\ taken' = Append(taken, Head(queue))
    /\ queue' = Tail(queue)
    /\ UNCHANGED damaged

Damage ==
    /\ damaged' = TRUE
    /\ UNCHANGED <<queue, taken>>

\* The n oldest messages are lost.
Lose(n) ==
    /\ damaged
    /\ queue' = SubSeq(queue, n + 1, Len(queue))
    /\ UNCHANGED <<taken, damaged>>

Next ==
    \/ \E m \in Messages : Send(m)
    \/ Take
    \/ Damage
    \/ \E n \in 1 .. Len(queue) : Lose(n)

Spec == Init /\ [][Next]_vars
=============================================================================
