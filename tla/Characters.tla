----------------------------- MODULE Characters -----------------------------
(***************************************************************************)
(* Texts are sequences of bytes. The bytes the code names, and what the C  *)
(* library says of them in the C locale.                                   *)
(***************************************************************************)
EXTENDS Integers, Sequences

Byte == 0 .. 255

LF == 10
Space == 32
Quote == 34
Hash == 35
Percent == 37
Plus == 43
Comma == 44
Minus == 45
Dot == 46
Slash == 47
Zero == 48
Colon == 58
Question == 63
LBracket == 91
Backslash == 92
RBracket == 93
Underscore == 95
LBrace == 123
RBrace == 125

IsSpace(c) == c \in 9 .. 13 \union {Space}
IsDigit(c) == c \in 48 .. 57
IsUpper(c) == c \in 65 .. 90
IsLower(c) == c \in 97 .. 122
IsAlpha(c) == IsUpper(c) \/ IsLower(c)
IsAlnum(c) == IsDigit(c) \/ IsAlpha(c)
IsHex(c) == c \in 48 .. 57 \union 65 .. 70 \union 97 .. 102

ToUpper(c) == IF IsLower(c) THEN c - 32 ELSE c
ToLower(c) == IF IsUpper(c) THEN c + 32 ELSE c

HexValue(c) == IF IsDigit(c) THEN c - 48 ELSE ToUpper(c) - 55
HexDigit(n) == IF n < 10 THEN 48 + n ELSE 55 + n

\* The number the digits d stand for in the given base.
Number(d, base) ==
    LET value[i \in 0 .. Len(d)] == IF i = 0 THEN 0 ELSE base * value[i - 1] + HexValue(d[i])
    IN  value[Len(d)]

\* The length of the longest prefix of t whose characters all satisfy Is.
Span(t, Is(_)) ==
    CHOOSE n \in 0 .. Len(t) : /\ \A i \in 1 .. n : Is(t[i])
                               /\ n < Len(t) => ~Is(t[n + 1])

From(t, i) == SubSeq(t, i, Len(t))
HasCharAt(t, i, c) == i \in DOMAIN t /\ t[i] = c
=============================================================================
