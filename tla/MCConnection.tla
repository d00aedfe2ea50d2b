---------------------------- MODULE MCConnection ----------------------------
(***************************************************************************)
(* Instances of Connection for TLC: the kinds and sizes of the messages.   *)
(***************************************************************************)
EXTENDS Connection, TLC

CONSTANTS m1, m2, m3, m4, m5, long

KindOf == [m \in Messages |-> IF m = m2 THEN "badType" ELSE IF m = m3 THEN "badBody"
                            ELSE IF m = m4 THEN "noLength" ELSE IF m = m5 THEN "throws" ELSE "good"]

\* The rest of "long" after its first byte is as long as the frame of m4.
SizeOf == [m \in Messages |-> IF m = long THEN 7 ELSE IF m = m3 THEN 2 ELSE 1]

Symmetry == Permutations(Writers) \union Permutations(Readers)
=============================================================================
