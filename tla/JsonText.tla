------------------------------ MODULE JsonText ------------------------------
(***************************************************************************)
(* JSON values (src/lsp/json/json.h), and the text of strings and numbers. *)
(*                                                                         *)
(* A value is a record: t is the alternative that the variant holds, v its *)
(* content. The content of an object is a function on its keys; that of a  *)
(* decimal is the pair <<m, e>> for m * 10^e, m not divisible by 10, so    *)
(* that the rounding of a double to a multiple of 2^-k is left out.        *)
(***************************************************************************)
EXTENDS Characters, FiniteSets, SequencesExt

CONSTANTS
    IntMax    \* the largest json::Integer (2^31 - 1); the smallest is -IntMax - 1

ASSUME JsonTextAssumption == IntMax \in Nat \ {0}

Null == [t |-> "null", v |-> 0]
Bool(b) == [t |-> "bool", v |-> b]
Int32(n) == [t |-> "int", v |-> n]
Decimal(d) == [t |-> "dec", v |-> d]
Str(s) == [t |-> "str", v |-> s]
Arr(a) == [t |-> "arr", v |-> a]
Obj(m) == [t |-> "obj", v |-> m]

EmptyMap == [k \in {} |-> Null]
Put(m, k, x) == [j \in DOMAIN m \union {k} |-> IF j = k THEN x ELSE m[j]]
Fits(n) == n \in (-IntMax - 1) .. IntMax

TrueText == <<116, 114, 117, 101>>
FalseText == <<102, 97, 108, 115, 101>>
NullText == <<110, 117, 108, 108>>

-----------------------------------------------------------------------------
(* String literals.                                                        *)

\* The letters of the escapes for one character, for writing and for reading.
WrittenEscapes == {<<8, 98>>, <<9, 116>>, <<10, 110>>, <<12, 102>>, <<13, 114>>,
                   <<Quote, Quote>>, <<Backslash, Backslash>>}
ReadEscapes == {<<0, 48>>, <<7, 97>>, <<8, 98>>, <<9, 116>>, <<10, 110>>, <<11, 118>>,
                <<12, 102>>, <<13, 114>>}

EscapedByte(c) ==
    IF \E e \in WrittenEscapes : e[1] = c
    THEN <<Backslash, (CHOOSE e \in WrittenEscapes : e[1] = c)[2]>>
    ELSE IF c < 32
    THEN <<Backslash, 117, Zero, Zero, HexDigit(c \div 16), HexDigit(c % 16)>>
    ELSE <<c>>

toStringLiteral(s) ==
    <<Quote>> \o FlattenSeq([i \in DOMAIN s |-> EscapedByte(s[i])]) \o <<Quote>>

\* A code point that an escape names, as UTF-8. Four digits name at most 0xFFFF.
Utf8(n) ==
    IF n < 128 THEN <<n>>
    ELSE IF n < 2048 THEN <<192 + (n \div 64), 128 + (n % 64)>>
    ELSE <<224 + (n \div 4096), 128 + ((n \div 64) % 64), 128 + (n % 64)>>

Unquote(s) ==
    LET t == IF HasCharAt(s, 1, Quote) THEN Tail(s) ELSE s
    IN  IF HasCharAt(t, Len(t), Quote) THEN Front(t) ELSE t

\* The escape at the beginning of s, which is not alone in it: what it stands for and
\* its length. Behind \u there must be four digits, or what there is stays as it is.
Unescaped(s) ==
    LET code == SubSeq(s, 3, 6)
        hex == Span(code, IsHex)
    IN  IF s[2] # 117
        THEN [out |-> IF \E e \in ReadEscapes : e[2] = s[2]
                      THEN <<(CHOOSE e \in ReadEscapes : e[2] = s[2])[1]>> ELSE <<s[2]>>,
              len |-> 2]
        ELSE IF Len(s) < 6 THEN [out |-> s, len |-> Len(s)]
        ELSE IF hex = 4 THEN [out |-> Utf8(Number(code, 16)), len |-> 6]
        ELSE [out |-> SubSeq(s, 1, 2 + hex), len |-> 2 + hex]

fromStringLiteral(literal) ==
    LET s == Unquote(literal)
        read[i \in 1 .. Len(s) + 1] ==
            IF i > Len(s) THEN <<>>
            ELSE IF s[i] = Backslash /\ i # Len(s)
                 THEN LET e == Unescaped(From(s, i)) IN e.out \o read[i + e.len]
                 ELSE <<s[i]>> \o read[i + 1]
    IN  read[1]

-----------------------------------------------------------------------------
(* Numbers.                                                                *)

Digits(n) ==
    LET d[k \in 0 .. n] == IF k < 10 THEN <<48 + k>> ELSE Append(d[k \div 10], 48 + (k % 10))
    IN  d[n]

Abs(n) == IF n < 0 THEN -n ELSE n
Signed(n, s) == IF n < 0 THEN <<Minus>> \o s ELSE s

Normal(m, e) ==
    LET zeros == CHOOSE k \in 0 .. 8 : m % 10^k = 0 /\ (m \div 10^k) % 10 # 0
    IN  IF m = 0 THEN <<0, 0>> ELSE <<m \div 10^zeros, e + zeros>>

-----------------------------------------------------------------------------
(* The text of a scalar that is not a decimal.                             *)

ScalarText(x) ==
    CASE x.t = "null" -> NullText
      [] x.t = "bool" -> IF x.v THEN TrueText ELSE FalseText
      [] x.t = "int" -> Signed(x.v, Digits(Abs(x.v)))
      [] x.t = "str" -> toStringLiteral(x.v)
=============================================================================
