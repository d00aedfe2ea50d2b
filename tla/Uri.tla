-------------------------------- MODULE Uri --------------------------------
(***************************************************************************)
(* The class Uri (src/lsp/uri.h, uri.cpp): the five parts of a URI in one  *)
(* string, m_data, with the length of each in 16 bits. An insert replaces  *)
(* the characters between the parts before it and the parts behind it.     *)
(* FileUri (src/lsp/fileuri.cpp) is a Uri with the scheme "file".          *)
(*                                                                         *)
(* A Uri object is a record, so that the functions that make or copy one   *)
(* are operators; the object that a program edits is the variable uri.     *)
(***************************************************************************)
EXTENDS Characters

CONSTANTS
    Texts,         \* what a program passes to the setters
    LengthCount,   \* 2^16, the number of values of a std::uint16_t
    FileScheme     \* FileUri::Scheme

\* A longer text than a length can hold is not given to a setter; parse may meet one.
ASSUME UriAssumption ==
    /\ LengthCount \in Nat \ {0}
    /\ \A s \in Texts : s \in Seq(Byte) /\ Len(s) < LengthCount

VARIABLE uri

Parts == INSTANCE UriParts WITH parts <- uri    \* for its operators on texts

NoUri == [data |-> <<>>, schemeLen |-> 0, authorityLen |-> 0, pathLen |-> 0, queryLen |-> 0,
          fragmentLen |-> 0, hasAuthority |-> FALSE, hasQuery |-> FALSE, hasFragment |-> FALSE]

\* Where the parts begin, from 0.
authorityIdx(u) == u.schemeLen
pathIdx(u) == u.schemeLen + u.authorityLen
queryIdx(u) == u.schemeLen + u.authorityLen + u.pathLen
fragmentIdx(u) == u.schemeLen + u.authorityLen + u.pathLen + u.queryLen

substr(data, idx, len) == SubSeq(data, idx + 1, idx + len)

isValid(u) == u.schemeLen > 0
scheme(u) == substr(u.data, 0, u.schemeLen)
authority(u) == IF u.hasAuthority THEN substr(u.data, authorityIdx(u), u.authorityLen) ELSE <<>>
path(u) == substr(u.data, pathIdx(u), u.pathLen)
query(u) == IF u.hasQuery THEN substr(u.data, queryIdx(u), u.queryLen) ELSE <<>>
fragment(u) == IF u.hasFragment THEN substr(u.data, fragmentIdx(u), u.fragmentLen) ELSE <<>>

-----------------------------------------------------------------------------
(* The inserts. The case is normalised in m_data, behind the replacement,  *)
(* for as many characters as the new length says.                          *)

\* m_data.replace(idx, len, s)
Replaced(data, idx, len, s) == SubSeq(data, 1, idx) \o s \o SubSeq(data, idx + len + 1, Len(data))

NewLen(s) == Len(s) % LengthCount
LowerCase(s) == Parts!LowerCase(SubSeq(s, 1, NewLen(s))) \o From(s, NewLen(s) + 1)
normalizeEncodedCase(s) == Parts!UpperEscapes(SubSeq(s, 1, NewLen(s))) \o From(s, NewLen(s) + 1)

insertScheme(u, s) ==
    [u EXCEPT !.data = Replaced(@, 0, u.schemeLen, LowerCase(s)), !.schemeLen = NewLen(s)]

insertAuthority(u, s) ==
    [u EXCEPT !.data = Replaced(@, authorityIdx(u), u.authorityLen, normalizeEncodedCase(s)),
              !.authorityLen = NewLen(s),
              !.hasAuthority = TRUE]

insertPath(u, s) ==
    [u EXCEPT !.data = Replaced(@, pathIdx(u), u.pathLen, s), !.pathLen = NewLen(s)]

\* The query replaces what is behind the scheme and the authority, as if there were no path.
insertQuery_BeforePath(u, s) ==
    [u EXCEPT !.data = Replaced(@, pathIdx(u), u.queryLen, normalizeEncodedCase(s)),
              !.queryLen = NewLen(s),
              !.hasQuery = TRUE]
insertQuery(u, s) ==
    [u EXCEPT !.data = Replaced(@, queryIdx(u), u.queryLen, normalizeEncodedCase(s)),
              !.queryLen = NewLen(s),
              !.hasQuery = TRUE]

insertFragment(u, s) ==
    [u EXCEPT !.data = Replaced(@, fragmentIdx(u), u.fragmentLen, normalizeEncodedCase(s)),
              !.fragmentLen = NewLen(s),
              !.hasFragment = TRUE]

-----------------------------------------------------------------------------
(* Texts.                                                                  *)

IsUnreserved(c) == IsAlnum(c) \/ c \in {Underscore, Dot, Minus}
EncodedByte(c) ==
    IF IsUnreserved(c) \/ c = Slash THEN <<c>> ELSE <<Percent, HexDigit(c \div 16), HexDigit(c % 16)>>

\* encode(s, "/")
encode(s) ==
    LET upTo[i \in 0 .. Len(s)] == IF i = 0 THEN <<>> ELSE upTo[i - 1] \o EncodedByte(s[i])
    IN  upTo[Len(s)]

\* One percent sign that no two digits follow makes the whole text empty, unless less than
\* two characters follow it.
decode(s) ==
    LET from[i \in 1 .. Len(s) + 1] ==
            IF i > Len(s) THEN <<>>
            ELSE IF s[i] = Percent /\ i + 2 <= Len(s)
                 THEN <<Number(SubSeq(s, i + 1, i + 2), 16)>> \o from[i + 3]
                 ELSE <<s[i]>> \o from[i + 1]
    IN  IF \A i \in Parts!Escapes(s) : IsHex(s[i + 1]) /\ IsHex(s[i + 2]) THEN from[1] ELSE <<>>

toString(u) ==
    IF ~isValid(u) THEN <<>>
    ELSE scheme(u) \o <<Colon>>
         \o (IF u.hasAuthority THEN <<Slash, Slash>> \o authority(u) ELSE <<>>)
         \o encode(path(u))
         \o (IF u.hasQuery THEN <<Question>> \o query(u) ELSE <<>>)
         \o (IF u.hasFragment THEN <<Hash>> \o fragment(u) ELSE <<>>)

\* parse, part by part: t is what is left of the text. The characters of a part are counted
\* in 16 bits, and what is left behind a part that was counted too short is read as the next
\* part, or ignored.
Until(t, stops) == Span(t, LAMBDA c : c \notin stops) % LengthCount

WithFragment(u, t) == IF HasCharAt(t, 1, Hash) THEN insertFragment(u, Tail(t)) ELSE u

WithQuery(u, t) ==
    LET len == Until(Tail(t), {Hash})
    IN  IF ~HasCharAt(t, 1, Question) THEN WithFragment(u, t)
        ELSE WithFragment(insertQuery(u, SubSeq(t, 2, len + 1)), From(t, len + 2))

WithPath(u, t) ==
    LET len == Until(t, {Question, Hash})
    IN  IF t = <<>> THEN u
        ELSE WithQuery(insertPath(u, decode(SubSeq(t, 1, len))), From(t, len + 1))

WithAuthority(u, t) ==
    LET len == Until(From(t, 3), {Slash, Question, Hash})
        rest == From(t, len + 3)
    IN  IF ~(HasCharAt(t, 1, Slash) /\ HasCharAt(t, 2, Slash)) THEN WithPath(u, t)
        ELSE IF rest # <<>> /\ Head(rest) # Slash THEN NoUri
        ELSE WithPath(insertAuthority(u, SubSeq(t, 3, len + 2)), rest)

parse(t) ==
    LET len == Span(t, Parts!IsSchemeChar) % LengthCount
    IN  IF len = 0 \/ ~HasCharAt(t, len + 1, Colon) THEN NoUri
        ELSE WithAuthority(insertScheme(NoUri, SubSeq(t, 1, len)), From(t, len + 2))

-----------------------------------------------------------------------------
(* FileUri. The path that is given to fromPath is the absolute one that    *)
(* std::filesystem finds for it.                                           *)

FileUriFrom(u) == IF isValid(u) /\ scheme(u) = FileScheme THEN u ELSE NoUri
NewFileUri == insertAuthority(insertScheme(NoUri, FileScheme), <<>>)
fromPath(p) == insertPath(NewFileUri, p)

-----------------------------------------------------------------------------
(* A program edits a Uri.                                                  *)

Init == uri = NoUri

setScheme(s) == Parts!IsSchemeText(s) /\ uri' = insertScheme(uri, s)
setAuthority(s) == Parts!IsText(s, "authority") /\ uri' = insertAuthority(uri, s)
setPath(s) == uri' = insertPath(uri, s)
setQuery(s) == Parts!IsText(s, "query") /\ uri' = insertQuery(uri, s)
setFragment(s) == uri' = insertFragment(uri, s)

removeAuthority == uri' = [insertAuthority(uri, <<>>) EXCEPT !.hasAuthority = FALSE]

removeQuery == uri' = [insertQuery(uri, <<>>) EXCEPT !.hasQuery = FALSE]

removeFragment == uri' = [insertFragment(uri, <<>>) EXCEPT !.hasFragment = FALSE]

Next ==
    \/ \E s \in Texts : \/ setScheme(s)
                        \/ setAuthority(s)
                        \/ setPath(s)
                        \/ setQuery(s)
                        \/ setFragment(s)
    \/ removeAuthority
    \/ removeQuery
    \/ removeFragment

Spec == Init /\ [][Next]_uri

-----------------------------------------------------------------------------
(* The parts that the accessors show.                                      *)

PartsOf(u) ==
    [scheme |-> scheme(u), authority |-> authority(u), path |-> path(u), query |-> query(u),
     fragment |-> fragment(u), hasAuthority |-> u.hasAuthority, hasQuery |-> u.hasQuery,
     hasFragment |-> u.hasFragment]

Abstract == INSTANCE UriParts WITH parts <- PartsOf(uri)

\* uri.h: each operation changes the part that it names and no other.
ImplementsUri == Abstract!Spec

\* The string is the parts one behind the other, and the lengths are theirs: the part
\* that an insert replaces is the part that was set.
Consistent(u) ==
    /\ u.data = scheme(u) \o substr(u.data, authorityIdx(u), u.authorityLen) \o path(u)
                \o substr(u.data, queryIdx(u), u.queryLen) \o substr(u.data, fragmentIdx(u), u.fragmentLen)
    /\ ~u.hasAuthority => u.authorityLen = 0
    /\ ~u.hasQuery => u.queryLen = 0
    /\ ~u.hasFragment => u.fragmentLen = 0

\* uri.cpp: the texts that parse takes for another Uri, or for none. Behind an authority the
\* path begins with a slash, or there is nothing; without one it does not begin with two.
IsAmbiguous(u) ==
    IF u.hasAuthority
    THEN IF path(u) = <<>> THEN u.hasQuery \/ u.hasFragment ELSE Head(path(u)) # Slash
    ELSE HasCharAt(path(u), 1, Slash) /\ HasCharAt(path(u), 2, Slash)

\* uri.cpp: the path is the only part whose text may be longer than the part: parse counts the
\* text, and the count wraps for a path that was no longer than a length can hold.
PathIsCounted(u) == Len(encode(path(u))) < LengthCount

\* uri.h: a Uri that is valid, and whose text is not ambiguous and no longer than parse can
\* count, is what parse makes of its text.
ReadBack(u) == isValid(u) /\ ~IsAmbiguous(u) /\ PathIsCounted(u) => parse(toString(u)) = u
=============================================================================
