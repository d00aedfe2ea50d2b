---------------------------- MODULE JsonStringify ----------------------------
(***************************************************************************)
(* stringify (src/lsp/json/json.cpp): the text of a JSON value, without    *)
(* formatting. The members of an object are written in the order of the    *)
(* hash map, which is not specified: any one order and its reverse here.   *)
(***************************************************************************)
EXTENDS JsonText

CONSTANT
    DecimalPlaces    \* the digits after the point in a decimal that is written (6)

ASSUME StringifyAssumption == DecimalPlaces \in Nat \ {0}

\* std::to_string writes DecimalPlaces digits after the point, rounded. The loop that should
\* take away the zeros at the end looks at the byte behind the last digit first and stops.
Rounded(m, e) ==
    IF e >= -DecimalPlaces THEN m * 10^(e + DecimalPlaces)
    ELSE LET unit == 10^(-DecimalPlaces - e) IN (2 * m + unit) \div (2 * unit)

DecimalText(d) ==
    LET scaled == Rounded(Abs(d[1]), d[2])
        fraction == Digits(10^DecimalPlaces + (scaled % 10^DecimalPlaces))
    IN  Signed(d[1], Digits(scaled \div 10^DecimalPlaces) \o <<Dot>> \o Tail(fraction))

Joined(parts) ==
    FlattenSeq([i \in DOMAIN parts |-> IF i = 1 THEN parts[i] ELSE <<Comma>> \o parts[i]])

RECURSIVE Written(_, _)
Written(x, backwards) ==
    LET Keys == IF backwards THEN Reverse(SetToSeq(DOMAIN x.v)) ELSE SetToSeq(DOMAIN x.v)
    IN  CASE x.t \in {"null", "bool", "int", "str"} -> ScalarText(x)
          [] x.t = "dec" -> DecimalText(x.v)
          [] x.t = "arr" ->
                <<LBracket>> \o Joined([i \in DOMAIN x.v |-> Written(x.v[i], backwards)]) \o <<RBracket>>
          [] x.t = "obj" ->
                LET Member(k) == toStringLiteral(k) \o <<Colon>> \o Written(x.v[k], backwards)
                    Members(keys) == [i \in DOMAIN keys |-> Member(keys[i])]
                IN  <<LBrace>> \o Joined(Members(Keys)) \o <<RBrace>>

Stringified(x) == {Written(x, backwards) : backwards \in BOOLEAN}
=============================================================================
