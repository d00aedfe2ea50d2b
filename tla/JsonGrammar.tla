---------------------------- MODULE JsonGrammar ----------------------------
(***************************************************************************)
(* What a text denotes, by the grammar of JSON: the reference for the      *)
(* handlers of JsonParser. The scalars are those of parseSimpleValue.      *)
(***************************************************************************)
EXTENDS JsonParser

Trim(s) ==
    LET front == From(s, Span(s, IsSpace) + 1)
    IN  SubSeq(front, 1, Len(front) - Span(Reverse(front), IsSpace))

\* The values of a scalar that fills s.
Scalar(s) ==
    IF s = <<>> \/ Head(s) \in {LBrace, LBracket} THEN {}
    ELSE {x.value : x \in {x \in parseSimpleValue(s, 1) : x.outcome = "value" /\ x.length = Len(s)}}

Enclosed(s, open, close) == Len(s) > 1 /\ s[1] = open /\ s[Len(s)] = close
Inner(s) == SubSeq(s, 2, Len(s) - 1)
Cuts(s, c) == {i \in DOMAIN s : s[i] = c}

RECURSIVE Denoted(_), Elements(_), Members(_)
Denoted(s) ==
    LET t == Trim(s)
    IN  Scalar(t)
        \union (IF Enclosed(t, LBracket, RBracket)
                THEN {Arr(a) : a \in IF Trim(Inner(t)) = <<>> THEN {<<>>} ELSE Elements(Inner(t))}
                ELSE {})
        \union (IF Enclosed(t, LBrace, RBrace)
                THEN {Obj(m) : m \in IF Trim(Inner(t)) = <<>> THEN {EmptyMap} ELSE Members(Inner(t))}
                ELSE {})

Elements(s) ==
    {<<x>> : x \in Denoted(s)}
    \union UNION {{<<x>> \o a : x \in Denoted(SubSeq(s, 1, i - 1)), a \in Elements(From(s, i + 1))} :
                     i \in Cuts(s, Comma)}

\* One member up to a colon and a value, or one and a comma and others with other names.
Members(s) ==
    LET Member(m) == UNION {{[k |-> k.v, x |-> x] : k \in Scalar(Trim(SubSeq(m, 1, i - 1))),
                                                    x \in Denoted(From(m, i + 1))} :
                               i \in {j \in Cuts(m, Colon) : HasCharAt(Trim(m), 1, Quote)}}
    IN  {Put(EmptyMap, m.k, m.x) : m \in Member(s)}
        \union UNION {{Put(o[2], o[1].k, o[1].x) :
                          o \in {o \in Member(SubSeq(s, 1, i - 1)) \X Members(From(s, i + 1)) :
                                    o[1].k \notin DOMAIN o[2]}} : i \in Cuts(s, Comma)}

\* json.cpp, class Parser: the parser takes a text for a value exactly when the grammar gives it
\* that value and no other, whatever the nesting, the white space and the escapes; all other
\* texts end with an error or with the exception of std::stod.
ParsedAsGrammar ==
    outcome # "none" => Denoted(text) = IF outcome = "value" THEN {result} ELSE {}
=============================================================================
