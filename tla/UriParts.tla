------------------------------ MODULE UriParts ------------------------------
(***************************************************************************)
(* What the class Uri (src/lsp/uri.h) promises: a record of five parts,    *)
(* each changed by its own operations and by no other.                     *)
(***************************************************************************)
EXTENDS Characters

CONSTANT Texts    \* what a program passes to the setters

VARIABLE parts

NoParts == [scheme |-> <<>>, authority |-> <<>>, path |-> <<>>, query |-> <<>>, fragment |-> <<>>,
            hasAuthority |-> FALSE, hasQuery |-> FALSE, hasFragment |-> FALSE]

Delimiters(part) ==
    CASE part = "authority" -> {Slash, Question, Hash}
      [] part = "query" -> {Hash}
      [] OTHER -> {}

IsSchemeChar(c) == IsAlnum(c) \/ c \in {Minus, Dot, Plus}
IsSchemeText(s) == \A i \in DOMAIN s : IsSchemeChar(s[i])
IsText(s, part) == \A i \in DOMAIN s : s[i] \notin Delimiters(part)

LowerCase(s) == [i \in DOMAIN s |-> ToLower(s[i])]

\* The digits of an escape are in upper case. A percent sign among the two characters behind
\* another one does not start an escape.
Escapes(s) ==
    LET starts[i \in DOMAIN s] ==
            /\ s[i] = Percent
            /\ i + 2 <= Len(s)
            /\ i = 1 \/ ~starts[i - 1]
            /\ i <= 2 \/ ~starts[i - 2]
    IN  {i \in DOMAIN s : starts[i]}
UpperEscapes(s) ==
    [i \in DOMAIN s |-> IF i - 1 \in Escapes(s) \/ i - 2 \in Escapes(s) THEN ToUpper(s[i]) ELSE s[i]]

Init == parts = NoParts

SetScheme(s) == IsSchemeText(s) /\ parts' = [parts EXCEPT !.scheme = LowerCase(s)]
SetAuthority(s) ==
    /\ IsText(s, "authority")
    /\ parts' = [parts EXCEPT !.authority = UpperEscapes(s), !.hasAuthority = TRUE]
SetPath(s) == parts' = [parts EXCEPT !.path = s]
SetQuery(s) ==
    /\ IsText(s, "query")
    /\ parts' = [parts EXCEPT !.query = UpperEscapes(s), !.hasQuery = TRUE]
SetFragment(s) == parts' = [parts EXCEPT !.fragment = UpperEscapes(s), !.hasFragment = TRUE]

RemoveAuthority == parts' = [parts EXCEPT !.authority = <<>>, !.hasAuthority = FALSE]
RemoveQuery == parts' = [parts EXCEPT !.query = <<>>, !.hasQuery = FALSE]
RemoveFragment == parts' = [parts EXCEPT !.fragment = <<>>, !.hasFragment = FALSE]

Next ==
    \/ \E s \in Texts : \/ SetScheme(s)
                        \/ SetAuthority(s)
                        \/ SetPath(s)
                        \/ SetQuery(s)
                        \/ SetFragment(s)
    \/ RemoveAuthority
    \/ RemoveQuery
    \/ RemoveFragment

Spec == Init /\ [][Next]_parts
=============================================================================
